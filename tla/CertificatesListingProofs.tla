---------------------- MODULE CertificatesListingProofs ----------------------
(* Proofs about CertificatesListing.                                         *)
EXTENDS CertificatesListing, FiniteSetTheorems, TLAPS

\* The part of the type invariant that the offsets depend on.
Offsets ==
  /\ live \in [Namespaces -> SUBSET Names]
  /\ todo \in Seq(Namespaces)
  /\ token \in Nat

OffsetInv == Offsets /\ OverrunsOnlyAfterRemoval

USE NamesAssumption, BoundsAssumption

LEMMA LiveIsFinite ==
  ASSUME Offsets, NEW ns \in Namespaces
  PROVE  IsFiniteSet(live[ns]) /\ Cardinality(live[ns]) \in Nat
<1>1. live[ns] \in SUBSET Names
  BY DEF Offsets
<1> QED
  BY <1>1, FS_Subset, FS_CardinalityType

LEMMA CurrentIsANamespace ==
  ASSUME Offsets, todo # <<>>
  PROVE  current \in Namespaces /\ Tail(todo) \in Seq(Namespaces)
BY DEF Offsets, current

LEMMA InitOffsets == Init => OffsetInv
<1> SUFFICES ASSUME Init
             PROVE  OffsetInv
  OBVIOUS
<1>1. Offsets
  <2>1. asked \in Seq(Namespaces)
    <3>1. \A ns \in Namespaces : <<ns>> \in Seq(Namespaces)
      OBVIOUS
    <3>2. asked = Readable \/ \E ns \in Namespaces : asked = <<ns>>
      BY DEF Init
    <3> QED
      BY <3>1, <3>2, ReadableAssumption, Zenon
  <2> QED
    BY <2>1 DEF Init, Offsets
<1>2. todo # <<>> => ~OutOfRange(current, token)
  BY <1>1, LiveIsFinite, CurrentIsANamespace DEF Init, OutOfRange
<1> QED
  BY <1>1, <1>2 DEF OffsetInv, OverrunsOnlyAfterRemoval

\* The service hands out a token only for a page that there is.
LEMMA ReadPageInv == OffsetInv /\ ReadPage => OffsetInv'
<1> SUFFICES ASSUME OffsetInv, ReadPage
             PROVE  OffsetInv'
  OBVIOUS
<1> DEFINE len == Cardinality(live[current])
           next == NextToken(token, len)
<1>1. current \in Namespaces /\ Tail(todo) \in Seq(Namespaces) /\ len \in Nat
  BY CurrentIsANamespace, LiveIsFinite DEF OffsetInv, ReadPage
<1>2. next \in Nat /\ (next = 0 \/ next < len)
  BY <1>1 DEF OffsetInv, Offsets, NextToken, PageEnd
<1>3. /\ token' = next /\ todo' = IF next = 0 THEN Tail(todo) ELSE todo
      /\ UNCHANGED <<live, history>>
  BY DEF ReadPage
<1> HIDE DEF next
<1>4. Offsets'
  BY <1>1, <1>2, <1>3 DEF OffsetInv, Offsets
<1>5. ASSUME todo' # <<>>
      PROVE  ~OutOfRange(current, token)'
  <2>1. CASE next = 0
    <3>1. current' \in Namespaces
      BY <1>4, <1>5 DEF Offsets, current
    <3>2. Cardinality(live[current']) \in Nat
      BY <3>1, LiveIsFinite DEF OffsetInv
    <3> QED
      BY <1>3, <2>1, <3>2 DEF OutOfRange
  <2>2. CASE next # 0
    <3>1. current' = current
      BY <1>3, <2>2 DEF current
    <3> QED
      BY <1>1, <1>2, <1>3, <2>2, <3>1 DEF OutOfRange
  <2> QED
    BY <2>1, <2>2
<1> QED
  BY <1>4, <1>5 DEF OffsetInv, OverrunsOnlyAfterRemoval

\* A name more leaves every offset in range.
LEMMA RegisterInv == OffsetInv /\ Register => OffsetInv'
<1> SUFFICES ASSUME OffsetInv, Register
             PROVE  OffsetInv'
  OBVIOUS
<1>1. PICK ns \in Namespaces : \E name \in Names \ live[ns] :
             live' = [live EXCEPT ![ns] = @ \cup {name}]
  BY DEF Register
<1>2. PICK name \in Names \ live[ns] : live' = [live EXCEPT ![ns] = @ \cup {name}]
  BY <1>1
<1>3. UNCHANGED <<todo, token, removed>>
  BY DEF Register, reader
<1>4. Offsets'
  BY <1>2, <1>3 DEF OffsetInv, Offsets
<1>5. ASSUME NEW other \in Namespaces
      PROVE  Cardinality(live[other]) <= Cardinality(live'[other])
  <2>1. live[other] \in SUBSET live'[other]
    BY <1>2 DEF OffsetInv, Offsets
  <2>2. live'[other] \in SUBSET Names
    BY <1>4 DEF Offsets
  <2> QED
    BY <2>1, <2>2, FS_Subset
<1>6. ASSUME todo # <<>>, ~OutOfRange(current, token)
      PROVE  ~OutOfRange(current, token)'
  <2>1. current \in Namespaces /\ current' = current
    BY <1>3, <1>6, CurrentIsANamespace DEF OffsetInv, current
  <2>2. Cardinality(live[current]) \in Nat /\ Cardinality(live'[current]) \in Nat
    <3>1. live[current] \in SUBSET Names /\ live'[current] \in SUBSET Names
      BY <1>4, <2>1 DEF OffsetInv, Offsets
    <3> QED
      BY <3>1, FS_Subset, FS_CardinalityType
  <2> QED
    BY <1>3, <1>5, <1>6, <2>1, <2>2 DEF OutOfRange, OffsetInv, Offsets
<1> QED
  BY <1>3, <1>4, <1>6 DEF OffsetInv, OverrunsOnlyAfterRemoval, current

\* A name less is remembered, unless its namespace has no page pending.
LEMMA DeregisterInv == OffsetInv /\ Deregister => OffsetInv'
<1> SUFFICES ASSUME OffsetInv, Deregister
             PROVE  OffsetInv'
  OBVIOUS
<1>1. PICK ns \in Namespaces, name \in Names :
        /\ live' = [live EXCEPT ![ns] = @ \ {name}]
        /\ removed' = IF BetweenPages(ns) THEN removed \cup {<<ns, name>>} ELSE removed
  BY DEF Deregister, OffsetInv, Offsets
<1>2. UNCHANGED <<todo, token>>
  BY DEF Deregister, reader
<1>3. Offsets'
  BY <1>1, <1>2 DEF OffsetInv, Offsets
<1>4. ASSUME todo' # <<>>, OutOfRange(current, token)'
      PROVE  \E other \in removed' : other[1] = current'
  <2>1. current \in Namespaces /\ current' = current
    BY <1>2, <1>4, CurrentIsANamespace DEF OffsetInv, current
  <2>2. CASE ns = current /\ token > 0
    <3>1. <<ns, name>> \in removed'
      BY <1>1, <1>2, <1>4, <2>2 DEF BetweenPages
    <3> QED
      BY <2>1, <2>2, <3>1
  <2>3. CASE token = 0
    <3>1. live'[current] \in SUBSET Names
      BY <1>3, <2>1 DEF Offsets
    <3>2. Cardinality(live'[current]) \in Nat
      BY <3>1, FS_Subset, FS_CardinalityType
    <3> QED
      BY <1>2, <1>4, <2>1, <2>3, <3>2 DEF OutOfRange
  <2>4. CASE ns # current
    <3>1. live'[current] = live[current]
      BY <1>1, <2>1, <2>4 DEF OffsetInv, Offsets
    <3>2. PICK other \in removed : other[1] = current
      BY <1>2, <1>4, <2>1, <3>1 DEF OffsetInv, OverrunsOnlyAfterRemoval, OutOfRange
    <3>3. other \in removed'
      BY <1>1, <3>2
    <3> QED
      BY <2>1, <3>2, <3>3
  <2> QED
    BY <2>2, <2>3, <2>4 DEF OffsetInv, Offsets
<1> QED
  BY <1>3, <1>4 DEF OffsetInv, OverrunsOnlyAfterRemoval

\* Everything else leaves the offset and the names alone.
LEMMA OtherInv == OffsetInv /\ UNCHANGED <<live, todo, token, removed>> => OffsetInv'
BY DEF OffsetInv, Offsets, OverrunsOnlyAfterRemoval, OutOfRange, current

\* For any names, page size and namespaces, offsets stay within the list they
\* index but for removals.
THEOREM OffsetInvariant == Spec => []OffsetInv
<1>1. OffsetInv /\ [Next]_vars => OffsetInv'
  <2>1. \/ ReadPage \/ Register \/ Deregister
        \/ UNCHANGED <<live, todo, token, removed>>
        \/ ~[Next]_vars
    BY DEF Next, Read, PageFails, PageRefused, Return, vars, reader, history
  <2> QED
    BY <2>1, ReadPageInv, RegisterInv, DeregisterInv, OtherInv
<1> QED
  BY <1>1, InitOffsets, PTL DEF Spec

\* For any names, page size and namespaces: the service is asked for a page out
\* of its range (handleListRegistrations then panics) only after a removal between
\* two pages of the namespace.
THEOREM OverrunsFollowRemovals == Spec => []OverrunsOnlyAfterRemoval
<1>1. OffsetInv => OverrunsOnlyAfterRemoval
  BY DEF OffsetInv
<1> QED
  BY <1>1, OffsetInvariant, PTL

----------------------------------------------------------------------------
(* Names in order.                                                           *)

Rank(ns, name) == Cardinality(Before(ns, name))

\* The names before a later name are more.
LEMMA RankGrows ==
  ASSUME live \in [Namespaces -> SUBSET Names], NEW ns \in Namespaces
  PROVE  /\ IsFiniteSet(live[ns]) /\ Cardinality(live[ns]) \in Nat
         /\ \A x \in Names : Rank(ns, x) \in Nat
         /\ \A x, y \in Names : x <= y => Rank(ns, x) <= Rank(ns, y)
         /\ \A x, y \in Names : x \in live[ns] /\ x < y => Rank(ns, x) < Rank(ns, y)
         /\ \A x \in live[ns] : Rank(ns, x) < Cardinality(live[ns])
<1>1. live[ns] \subseteq Names /\ IsFiniteSet(live[ns]) /\ Cardinality(live[ns]) \in Nat
  <2>1. live[ns] \in SUBSET Names
    OBVIOUS
  <2> QED
    BY <2>1, FS_Subset, FS_CardinalityType
<1>2. ASSUME NEW S \in SUBSET live[ns]
      PROVE  IsFiniteSet(S) /\ Cardinality(S) \in Nat /\ Cardinality(S) <= Cardinality(live[ns])
  BY <1>1, FS_Subset, FS_CardinalityType
<1>3. \A x : Before(ns, x) \in SUBSET live[ns]
  BY DEF Before
<1>4. ASSUME NEW x \in Names, NEW y \in Names, x <= y
      PROVE  Rank(ns, x) <= Rank(ns, y)
  <2>1. Before(ns, x) \in SUBSET Before(ns, y)
    <3>1. x \in Nat /\ y \in Nat /\ \A z \in live[ns] : z \in Nat
      BY <1>1
    <3>2. \A z \in live[ns] : z < x => z < y
      BY <3>1, <1>4
    <3> QED
      BY <3>1, <3>2, Zenon DEF Before
  <2>2. IsFiniteSet(Before(ns, y))
    BY <1>2, <1>3
  <2> QED
    BY <2>1, <2>2, FS_Subset DEF Rank
<1>5. ASSUME NEW S \in SUBSET live[ns], NEW T \in SUBSET S, NEW x \in S, x \notin T
      PROVE  Cardinality(T) < Cardinality(S)
  <2>1. IsFiniteSet(S) /\ Cardinality(S) \in Nat /\ Cardinality(T) \in Nat
    BY <1>2
  <2>2. Cardinality(T) <= Cardinality(S) /\ Cardinality(T) # Cardinality(S)
    BY <2>1, <1>5, FS_Subset
  <2> QED
    BY <2>1, <2>2
<1>6. ASSUME NEW x \in Names, NEW y \in Names, x \in live[ns], x < y
      PROVE  Rank(ns, x) < Rank(ns, y)
  <2>1. Before(ns, x) \in SUBSET Before(ns, y) /\ x \in Before(ns, y) /\ x \notin Before(ns, x)
    <3>1. x \in Nat /\ y \in Nat /\ \A z \in live[ns] : z \in Nat
      BY <1>1
    <3>2. \A z \in live[ns] : z < x => z < y
      BY <3>1, <1>6
    <3>3. ~(x < x)
      BY <3>1
    <3> QED
      BY <3>2, <3>3, <1>6, Zenon DEF Before
  <2> QED
    BY <1>3, <1>5, <2>1 DEF Rank
<1>7. ASSUME NEW x \in live[ns]
      PROVE  Rank(ns, x) < Cardinality(live[ns])
  <2>1. x \notin Before(ns, x)
    BY <1>1 DEF Before
  <2> QED
    BY <1>3, <1>5, <2>1 DEF Rank
<1>8. \A x \in Names : Rank(ns, x) \in Nat
  BY <1>2, <1>3 DEF Rank
<1> QED
  BY <1>1, <1>4, <1>6, <1>7, <1>8

\* Sorted is what sort.Strings returns: every name of the namespace once, each
\* where its rank says, by the pigeonhole principle.
LEMMA SortedIs ==
  ASSUME live \in [Namespaces -> SUBSET Names], NEW ns \in Namespaces
  PROVE  /\ Sorted(ns) \in [1..Cardinality(live[ns]) -> live[ns]]
         /\ \A i \in 1..Cardinality(live[ns]) : Rank(ns, Sorted(ns)[i]) = i - 1
         /\ \A x \in live[ns] : /\ Rank(ns, x) + 1 \in 1..Cardinality(live[ns])
                                /\ Sorted(ns)[Rank(ns, x) + 1] = x
<1> DEFINE S == live[ns]
           n == Cardinality(S)
           ranks == [x \in S |-> Rank(ns, x)]
<1>1. /\ S \subseteq Names /\ IsFiniteSet(S) /\ n \in Nat
      /\ \A x \in S : Rank(ns, x) \in Nat /\ Rank(ns, x) < n
      /\ \A x, y \in S : x < y => Rank(ns, x) < Rank(ns, y)
  BY RankGrows
<1>2. \A x, y \in S : Rank(ns, x) = Rank(ns, y) => x = y
  <2> SUFFICES ASSUME NEW x \in S, NEW y \in S, Rank(ns, x) = Rank(ns, y), x # y
               PROVE  FALSE
    OBVIOUS
  <2>1. x \in Nat /\ y \in Nat
    BY <1>1
  <2>2. x < y \/ y < x
    BY <2>1
  <2> QED
    BY <1>1, <2>2
<1> HIDE DEF n
<1>3. ranks \in Injection(S, 0..(n - 1))
  <2>1. ranks \in [S -> 0..(n - 1)]
    <3>1. \A x \in S : Rank(ns, x) \in 0..(n - 1)
      BY <1>1
    <3> QED
      BY <3>1
  <2>2. \A x, y \in S : ranks[x] = ranks[y] => x = y
    BY <1>2
  <2> HIDE DEF ranks, S
  <2> QED
    BY <2>1, <2>2 DEF Injection, IsInjective
<1>4. IsFiniteSet(0..(n - 1)) /\ Cardinality(0..(n - 1)) = n
  <2>1. 0 \in Int /\ n - 1 \in Int
    BY <1>1
  <2>2. /\ IsFiniteSet(0..(n - 1))
        /\ Cardinality(0..(n - 1)) = IF 0 > n - 1 THEN 0 ELSE (n - 1) - 0 + 1
    BY <2>1, FS_Interval, Zenon
  <2> QED
    BY <1>1, <2>2
<1>5. ranks \in Surjection(S, 0..(n - 1))
  <2> HIDE DEF ranks, S
  <2> QED
    BY <1>3, <1>4, FS_Injection DEF n
<1>6. \A k \in 0..(n - 1) : \E x \in S : Rank(ns, x) = k
  BY <1>5 DEF Surjection
<1>7. ASSUME NEW i \in 1..n
      PROVE  Sorted(ns)[i] \in S /\ Rank(ns, Sorted(ns)[i]) = i - 1
  <2>1. i - 1 \in 0..(n - 1)
    BY <1>1
  <2>2. \E x \in S : Cardinality(Before(ns, x)) = i - 1
    BY <1>6, <2>1 DEF Rank
  <2>3. Sorted(ns)[i] = CHOOSE x \in S : Cardinality(Before(ns, x)) = i - 1
    BY DEF Sorted, n
  <2> QED
    BY <2>2, <2>3, Zenon DEF Rank
<1>8. DOMAIN Sorted(ns) = 1..n /\ Sorted(ns) = [i \in 1..n |-> Sorted(ns)[i]]
  BY DEF Sorted, n
<1>9. ASSUME NEW x \in S
      PROVE  Rank(ns, x) + 1 \in 1..n /\ Sorted(ns)[Rank(ns, x) + 1] = x
  <2>1. Rank(ns, x) + 1 \in 1..n /\ (Rank(ns, x) + 1) - 1 = Rank(ns, x)
    BY <1>1
  <2> QED
    BY <1>2, <1>7, <2>1
<1>10. Sorted(ns) \in [1..n -> S]
  BY <1>7, <1>8
<1> QED
  BY <1>7, <1>9, <1>10 DEF n

----------------------------------------------------------------------------
(* What has been listed.                                                     *)

\* The namespaces listed to the end are the first Passed of those asked for.
Passed == Len(asked) - Len(todo)

InTurn ==
  /\ Len(todo) <= Len(asked)
  /\ \A i \in 1..Len(todo) : todo[i] = asked[Passed + i]
  /\ result = "done" => todo = <<>>

\* A name is in the list, or a change is to blame that it is not.
Accounted(ns, name) ==
  \/ <<ns, name>> \in Listed \cup born
  \/ \E other \in removed : other[1] = ns /\ other[2] < name

NothingSkipped ==
  /\ \A n \in 1..Passed : \A name \in live[asked[n]] : Accounted(asked[n], name)
  /\ todo # <<>> =>
       \A name \in live[current] : Rank(current, name) < token => Accounted(current, name)

\* Everything in the list is of a namespace listed to the end, or comes before
\* the offset of the next page, unless a name was inserted before it.
NothingAhead ==
  \A i \in DOMAIN items :
    \/ \E n \in 1..Passed : asked[n] = items[i][1]
    \/ /\ todo # <<>> /\ items[i][1] = current /\ token > 0
       /\ \/ Rank(current, items[i][2]) < token
          \/ \E other \in inserted : other[1] = current /\ other[2] < items[i][2]

Quiet ==
  changes = 0 =>
    /\ born = {} /\ inserted = {} /\ removed = {}
    /\ \A i \in DOMAIN items : items[i][2] \in live[items[i][1]]

ListInv ==
  /\ TypeOK /\ InTurn /\ NothingSkipped /\ NothingAhead /\ Quiet
  /\ RepeatedOnlyAfterInsertion

LEMMA NamesAreCounted == Cardinality(Names) \in Nat
  BY FS_CardinalityType

LEMMA CurrentIsNext ==
  ASSUME TypeOK, InTurn, todo # <<>>
  PROVE  /\ current \in Namespaces /\ Tail(todo) \in Seq(Namespaces)
         /\ Passed \in Nat /\ Passed + 1 \in DOMAIN asked /\ asked[Passed + 1] = current
         /\ 1..Passed \subseteq DOMAIN asked
<1>1. /\ todo \in Seq(Namespaces) /\ asked \in Seq(Namespaces)
      /\ Len(todo) \in Nat /\ Len(asked) \in Nat /\ DOMAIN asked = 1..Len(asked)
  BY DEF TypeOK
<1>2. Len(todo) >= 1 /\ current = todo[1] /\ current \in Namespaces /\ Tail(todo) \in Seq(Namespaces)
  BY <1>1 DEF current
<1>3. todo[1] = asked[Passed + 1]
  BY <1>1, <1>2 DEF InTurn
<1> QED
  BY <1>1, <1>2, <1>3 DEF InTurn, Passed

LEMMA PassedWereAsked ==
  ASSUME TypeOK, InTurn
  PROVE  /\ Passed \in Nat /\ 1..Passed \subseteq DOMAIN asked
         /\ \A n \in 1..Passed : asked[n] \in Namespaces
         /\ todo = <<>> => 1..Passed = DOMAIN asked
<1>1. /\ todo \in Seq(Namespaces) /\ asked \in Seq(Namespaces)
      /\ Len(todo) \in Nat /\ Len(asked) \in Nat /\ DOMAIN asked = 1..Len(asked)
  BY DEF TypeOK
<1>2. Passed \in Nat /\ Passed <= Len(asked)
  BY <1>1 DEF InTurn, Passed
<1>3. 1..Passed \subseteq DOMAIN asked
  BY <1>1, <1>2
<1>4. ASSUME todo = <<>>
      PROVE  1..Passed = DOMAIN asked
  <2>1. Passed = Len(asked)
    BY <1>1, <1>4 DEF Passed
  <2> QED
    BY <1>1, <2>1
<1>5. \A n \in 1..Passed : asked[n] \in Namespaces
  BY <1>1, <1>3
<1> QED
  BY <1>2, <1>3, <1>4, <1>5

LEMMA InitList == Init => ListInv
<1> SUFFICES ASSUME Init
             PROVE  ListInv
  OBVIOUS
<1>1. asked \in Seq(Namespaces) /\ todo = asked
  <2>1. \A ns \in Namespaces : <<ns>> \in Seq(Namespaces)
    OBVIOUS
  <2>2. asked = Readable \/ \E ns \in Namespaces : asked = <<ns>>
    BY DEF Init
  <2> QED
    BY <2>1, <2>2, ReadableAssumption, Zenon DEF Init
<1>2. items = <<>> /\ items \in Seq(Items) /\ DOMAIN items = {}
  BY DEF Init
<1>3. TypeOK
  BY <1>1, <1>2, NamesAreCounted DEF Init, TypeOK
<1>4. Passed = 0 /\ InTurn
  BY <1>1 DEF Init, Passed, InTurn
<1>5. NothingSkipped
  <2>1. ASSUME todo # <<>>, NEW name \in live[current], Rank(current, name) < token
        PROVE  FALSE
    <3>1. current \in Namespaces /\ live \in [Namespaces -> SUBSET Names]
      BY <1>3, <1>4, <2>1, CurrentIsNext DEF TypeOK
    <3>2. name \in Names
      BY <2>1, <3>1
    <3>3. Rank(current, name) \in Nat
      BY <3>1, <3>2, RankGrows
    <3> QED
      BY <2>1, <3>3 DEF Init
  <2> QED
    BY <1>4, <2>1 DEF NothingSkipped
<1>6. NothingAhead /\ RepeatedOnlyAfterInsertion
  BY <1>2 DEF NothingAhead, RepeatedOnlyAfterInsertion
<1>7. Quiet
  BY <1>2 DEF Init, Quiet
<1> QED
  BY <1>3, <1>4, <1>5, <1>6, <1>7 DEF ListInv

\* The page that starts at start: the names of those ranks.
LEMMA PageIs ==
  ASSUME live \in [Namespaces -> SUBSET Names], NEW ns \in Namespaces, NEW start \in Nat,
         ~OutOfRange(ns, start)
  PROVE  LET page == Page(ns, start)
             end == PageEnd(start, Cardinality(live[ns]))
         IN  /\ end \in Nat /\ start <= end /\ end <= Cardinality(live[ns])
             /\ page \in Seq(Items) /\ Len(page) = end - start
             /\ \A i \in 1..Len(page) : /\ page[i][1] = ns /\ page[i][2] \in live[ns]
                                        /\ Rank(ns, page[i][2]) = start + i - 1
             /\ \A name \in live[ns] : Rank(ns, name) >= start /\ Rank(ns, name) < end =>
                  \E i \in 1..Len(page) : page[i] = <<ns, name>>
<1> DEFINE len == Cardinality(live[ns])
           end == PageEnd(start, len)
           names == Sorted(ns)
           page == [i \in 1..(end - start) |-> <<ns, names[start + i]>>]
<1>1. len \in Nat /\ live[ns] \subseteq Names
  BY RankGrows
<1>2. end \in Nat /\ start <= end /\ end <= len
  BY <1>1 DEF OutOfRange, PageEnd
<1>3. /\ names \in [1..len -> live[ns]]
      /\ \A i \in 1..len : Rank(ns, names[i]) = i - 1
      /\ \A x \in live[ns] : Rank(ns, x) + 1 \in 1..len /\ names[Rank(ns, x) + 1] = x
  BY SortedIs
<1>4. Len(names) = len
  BY <1>1, <1>3
<1>5. Page(ns, start) = page
  BY <1>4 DEF Page
<1>6. \A x \in live[ns] : Rank(ns, x) \in Nat
  BY <1>1, RankGrows
<1> HIDE DEF len, end, names
<1>7. ASSUME NEW i \in 1..(end - start)
      PROVE  start + i \in 1..len /\ names[start + i] \in live[ns]
  <2>1. start + i \in 1..len
    BY <1>1, <1>2
  <2> QED
    BY <1>3, <2>1
<1>8. page \in Seq(Items) /\ Len(page) = end - start
  <2>1. \A i \in 1..(end - start) : <<ns, names[start + i]>> \in Items
    BY <1>1, <1>7 DEF Items
  <2>2. end - start \in Nat
    BY <1>2
  <2>3. page \in [1..(end - start) -> Items]
    BY <2>1
  <2> HIDE DEF page
  <2> QED
    BY <2>2, <2>3
<1>9. ASSUME NEW i \in 1..(end - start)
      PROVE  /\ page[i] = <<ns, names[start + i]>> /\ page[i][1] = ns
             /\ page[i][2] \in live[ns] /\ Rank(ns, page[i][2]) = start + i - 1
  <2>1. page[i] = <<ns, names[start + i]>>
    OBVIOUS
  <2>2. page[i][1] = ns /\ page[i][2] = names[start + i]
    BY <2>1
  <2> QED
    BY <1>3, <1>7, <2>1, <2>2
<1>10. ASSUME NEW name \in live[ns], Rank(ns, name) >= start, Rank(ns, name) < end
       PROVE  \E i \in 1..(end - start) : page[i] = <<ns, name>>
  <2> DEFINE i == Rank(ns, name) - start + 1
  <2>1. i \in 1..(end - start) /\ start + i = Rank(ns, name) + 1
    BY <1>2, <1>6, <1>10
  <2>2. page[i] = <<ns, names[start + i]>>
    BY <1>9, <2>1
  <2>3. names[start + i] = name
    BY <1>3, <2>1
  <2> HIDE DEF i, page
  <2> QED
    BY <2>1, <2>2, <2>3
<1> HIDE DEF page
<1> QED
  BY <1>2, <1>5, <1>8, <1>9, <1>10 DEF end, len

LEMMA Appended ==
  ASSUME NEW S, NEW s \in Seq(S), NEW t \in Seq(S)
  PROVE  /\ s \o t \in Seq(S) /\ Len(s \o t) = Len(s) + Len(t)
         /\ \A i \in DOMAIN (s \o t) :
              \/ i \in DOMAIN s /\ (s \o t)[i] = s[i]
              \/ /\ i \notin DOMAIN s /\ i - Len(s) \in 1..Len(t)
                 /\ (s \o t)[i] = t[i - Len(s)]
         /\ \A i \in DOMAIN s : i \in DOMAIN (s \o t) /\ (s \o t)[i] = s[i]
         /\ \A i \in 1..Len(t) : /\ Len(s) + i \in DOMAIN (s \o t)
                                 /\ (s \o t)[Len(s) + i] = t[i]
OBVIOUS

\* A page adds to the list the names of the next ranks, and the next offset is
\* where it ends.
LEMMA ReadPageList == ListInv /\ ReadPage => ListInv'
<1> SUFFICES ASSUME ListInv, ReadPage
             PROVE  ListInv'
  OBVIOUS
<1>0. PICK ns \in Namespaces : ns = current
  BY CurrentIsNext DEF ListInv, ReadPage
<1> DEFINE len == Cardinality(live[ns])
           end == PageEnd(token, len)
           next == NextToken(token, len)
           page == Page(ns, token)
           n0 == Len(items)
<1> USE DEF ListInv
<1>1. /\ ns \in Namespaces /\ Tail(todo) \in Seq(Namespaces) /\ Passed \in Nat
      /\ Passed + 1 \in DOMAIN asked /\ asked[Passed + 1] = ns
      /\ live \in [Namespaces -> SUBSET Names] /\ live[ns] \subseteq Names
      /\ token \in Nat /\ items \in Seq(Items) /\ n0 \in Nat /\ DOMAIN items = 1..n0
  BY <1>0, CurrentIsNext DEF ReadPage, TypeOK
<1>2. /\ len \in Nat /\ \A x \in Names : Rank(ns, x) \in Nat
      /\ \A x \in live[ns] : x \in Names /\ Rank(ns, x) < len
      /\ \A x, y \in Names : x <= y => Rank(ns, x) <= Rank(ns, y)
  BY <1>1, RankGrows
<1>3. /\ end \in Nat /\ token <= end /\ end <= len
      /\ page \in Seq(Items) /\ Len(page) = end - token
      /\ \A i \in 1..Len(page) : /\ page[i][1] = ns /\ page[i][2] \in live[ns]
                                 /\ Rank(ns, page[i][2]) = token + i - 1
      /\ \A name \in live[ns] : Rank(ns, name) >= token /\ Rank(ns, name) < end =>
           \E i \in 1..Len(page) : page[i] = <<ns, name>>
  <2>1. ~OutOfRange(ns, token)
    BY <1>0 DEF ReadPage
  <2> QED
    BY <1>1, <2>1, PageIs
<1>4. \/ next = 0 /\ end = len
      \/ next # 0 /\ next = end /\ end < len
  BY <1>1, <1>2 DEF NextToken, PageEnd
<1>5. /\ items' = items \o page /\ token' = next
      /\ todo' = IF next = 0 THEN Tail(todo) ELSE todo
      /\ attempt' = 0
      /\ UNCHANGED <<live, asked, result, born, inserted, removed, changes>>
      /\ todo # <<>> /\ result = "reading"
  BY <1>0 DEF ReadPage, history
<1> HIDE DEF len, end, next, page, n0
<1>6. /\ items' \in Seq(Items) /\ \A i \in DOMAIN items : i \in DOMAIN items' /\ items'[i] = items[i]
      /\ \A i \in DOMAIN items' :
           \/ i \in DOMAIN items /\ items'[i] = items[i]
           \/ i \notin DOMAIN items /\ i - n0 \in 1..Len(page) /\ items'[i] = page[i - n0]
      /\ \A i \in 1..Len(page) : n0 + i \in DOMAIN items' /\ items'[n0 + i] = page[i]
      /\ DOMAIN items' \subseteq Nat
  BY <1>1, <1>3, <1>5, Appended DEF n0
\* The namespace is listed to the end with its last page.
<1>7. /\ next = 0 => /\ Passed' = Passed + 1 /\ Len(todo') = Len(todo) - 1
                     /\ \A i \in 1..Len(todo') : todo'[i] = todo[i + 1]
      /\ next # 0 => Passed' = Passed /\ todo' = todo /\ current' = ns
  <2>1. /\ todo \in Seq(Namespaces) /\ todo # <<>> /\ Len(todo) \in Nat /\ Len(asked) \in Nat
        /\ Len(Tail(todo)) = Len(todo) - 1
        /\ \A i \in 1..Len(Tail(todo)) : Tail(todo)[i] = todo[i + 1]
    BY <1>5 DEF TypeOK
  <2>2. CASE next = 0
    <3>1. todo' = Tail(todo) /\ asked' = asked
      BY <1>5, <2>2
    <3>2. Passed' = Len(asked) - Len(Tail(todo))
      BY <3>1 DEF Passed
    <3>3. Passed' = Passed + 1
      BY <2>1, <3>2 DEF Passed
    <3> QED
      BY <2>1, <2>2, <3>1, <3>3
  <2>3. CASE next # 0
    BY <1>0, <1>5, <2>3 DEF Passed, current
  <2> QED
    BY <2>2, <2>3
<1>8. TypeOK'
  <2>1. next \in 0..Cardinality(Names)
    <3>1. live[ns] \in SUBSET Names
      BY <1>1
    <3>2. len <= Cardinality(Names)
      BY <3>1, FS_Subset DEF len
    <3> QED
      BY <1>2, <1>3, <1>4, <3>2, NamesAreCounted
  <2>2. todo' \in Seq(Namespaces)
    BY <1>1, <1>5 DEF TypeOK
  <2>3. attempt' \in 0..MaxRetries
    BY <1>5
  <2> QED
    BY <1>5, <1>6, <2>1, <2>2, <2>3 DEF TypeOK
<1>9. InTurn'
  <2>1. CASE next = 0
    <3>1. Len(todo) \in Nat /\ Len(todo) >= 1 /\ Len(asked) \in Nat
      BY <1>5 DEF TypeOK
    <3>2. ASSUME NEW i \in 1..Len(todo')
          PROVE  todo'[i] = asked'[Passed' + i]
      <4>1. i + 1 \in 1..Len(todo) /\ Passed' + i = Passed + (i + 1)
        BY <1>1, <1>7, <2>1, <3>1
      <4> QED
        BY <1>5, <1>7, <2>1, <4>1 DEF InTurn
    <3> QED
      BY <1>5, <1>7, <2>1, <3>1, <3>2 DEF InTurn
  <2>2. CASE next # 0
    BY <1>5, <1>7, <2>2 DEF InTurn
  <2> QED
    BY <2>1, <2>2
<1>10. /\ \A m, x : Accounted(m, x) => Accounted(m, x)'
       /\ \A m, x : Rank(m, x)' = Rank(m, x)
  <2>1. Listed \subseteq Listed'
    BY <1>6 DEF Listed
  <2> QED
    BY <1>5, <2>1 DEF Accounted, Rank, Before
<1>11. \A x \in live[ns] : Rank(ns, x) < end => Accounted(ns, x)'
  <2> SUFFICES ASSUME NEW x \in live[ns], Rank(ns, x) < end
               PROVE  Accounted(ns, x)'
    OBVIOUS
  <2>1. CASE Rank(ns, x) < token
    BY <1>0, <1>5, <1>10, <2>1 DEF NothingSkipped
  <2>2. CASE ~(Rank(ns, x) < token)
    <3>1. Rank(ns, x) >= token
      BY <1>1, <1>2, <2>2
    <3>2. PICK i \in 1..Len(page) : page[i] = <<ns, x>>
      BY <1>3, <3>1
    <3>3. <<ns, x>> \in Listed'
      BY <1>6, <3>2 DEF Listed
    <3> QED
      BY <3>3 DEF Accounted
  <2> QED
    BY <2>1, <2>2
<1>12. NothingSkipped'
  <2>1. ASSUME NEW n \in 1..Passed', NEW name \in live'[asked'[n]]
        PROVE  Accounted(asked[n], name)'
    <3>1. CASE n \in 1..Passed
      BY <1>5, <1>10, <3>1 DEF NothingSkipped
    <3>2. CASE n \notin 1..Passed
      <4>1. next = 0 /\ n = Passed + 1
        BY <1>1, <1>7, <3>2
      <4>2. asked[n] = ns /\ name \in live[ns] /\ asked' = asked
        BY <1>1, <1>5, <4>1
      <4>3. Accounted(ns, name)'
        BY <1>2, <1>4, <1>11, <4>1, <4>2
      <4> QED
        BY <4>2, <4>3 DEF Accounted
    <3> QED
      BY <3>1, <3>2
  <2>2. ASSUME todo' # <<>>, NEW name \in live'[current'], Rank(current, name)' < token'
        PROVE  Accounted(current, name)'
    <3>1. CASE next = 0
      <4>1. current' \in Namespaces
        BY <1>8, <2>2 DEF TypeOK, current
      <4>2. name \in Names
        BY <1>1, <1>5, <2>2, <4>1
      <4>3. Rank(current, name)' \in Nat
        BY <1>1, <1>10, <4>1, <4>2, RankGrows
      <4> QED
        BY <1>5, <2>2, <3>1, <4>3
    <3>2. CASE next # 0
      <4>1. current' = ns /\ token' = end /\ name \in live[ns]
        BY <1>4, <1>5, <1>7, <2>2, <3>2
      <4>2. Rank(ns, name) < end
        BY <1>1, <1>2, <1>10, <2>2, <4>1
      <4> QED
        BY <1>11, <4>1, <4>2 DEF Accounted
    <3> QED
      BY <3>1, <3>2
  <2> QED
    BY <2>1, <2>2 DEF NothingSkipped
\* A name on this page, and where.
<1>13. ASSUME NEW i \in DOMAIN items', i \notin DOMAIN items
       PROVE  /\ items'[i][1] = ns /\ items'[i][2] \in live[ns]
              /\ Rank(ns, items'[i][2]) = token + (i - n0) - 1
              /\ Rank(ns, items'[i][2]) >= token /\ Rank(ns, items'[i][2]) < end
  <2>1. i - n0 \in 1..Len(page) /\ items'[i] = page[i - n0]
    BY <1>6, <1>13
  <2>2. /\ page[i - n0][1] = ns /\ page[i - n0][2] \in live[ns]
        /\ Rank(ns, page[i - n0][2]) = token + (i - n0) - 1
    BY <1>3, <2>1
  <2>3. /\ token + (i - n0) - 1 >= token /\ token + (i - n0) - 1 < end
    BY <1>1, <1>3, <2>1
  <2> QED
    BY <2>1, <2>2, <2>3
<1>14. NothingAhead'
  <2> SUFFICES ASSUME NEW i \in DOMAIN items'
               PROVE  (\/ \E n \in 1..Passed : asked[n] = items[i][1]
                       \/ /\ todo # <<>> /\ items[i][1] = current /\ token > 0
                          /\ \/ Rank(current, items[i][2]) < token
                             \/ \E other \in inserted :
                                  other[1] = current /\ other[2] < items[i][2])'
    BY DEF NothingAhead
  <2>1. CASE \E n \in 1..Passed : asked[n] = items'[i][1]
    BY <1>1, <1>5, <1>7, <2>1
  <2>2. CASE items'[i][1] = ns /\ next = 0
    <3>1. Passed + 1 \in 1..Passed'
      BY <1>1, <1>7, <2>2
    <3> QED
      BY <1>1, <1>5, <2>2, <3>1
  <2>3. CASE i \notin DOMAIN items /\ next # 0
    <3>1. items'[i][1] = ns /\ items'[i][2] \in Names /\ Rank(ns, items'[i][2]) < end
      BY <1>1, <1>13, <2>3
    <3>2. token' = end /\ token' > 0 /\ current' = ns /\ todo' # <<>>
      BY <1>3, <1>4, <1>5, <1>7, <2>3
    <3>3. Rank(current, items[i][2])' = Rank(ns, items'[i][2])
      BY <1>5, <3>2 DEF Rank, Before
    <3> QED
      BY <3>1, <3>2, <3>3
  <2>4. CASE i \in DOMAIN items /\ next # 0 /\ ~(\E n \in 1..Passed : asked[n] = items'[i][1])
    <3>1. /\ items'[i] = items[i] /\ items[i][1] = ns /\ token > 0
          /\ \/ Rank(ns, items[i][2]) < token
             \/ \E other \in inserted : other[1] = ns /\ other[2] < items[i][2]
      BY <1>0, <1>6, <2>4 DEF NothingAhead
    <3>2. items[i][2] \in Names
      <4>1. items[i] \in Items
        BY <1>1, <2>4
      <4> QED
        BY <4>1 DEF Items
    <3>3. Rank(ns, items[i][2]) < token => Rank(ns, items[i][2]) < end
      <4>1. Rank(ns, items[i][2]) \in Nat
        BY <1>2, <3>2
      <4> QED
        BY <1>1, <1>3, <4>1
    <3>4. token' = end /\ token' > 0 /\ current' = ns /\ todo' # <<>>
      BY <1>3, <1>4, <1>5, <1>7, <2>4
    <3>5. Rank(current, items[i][2])' = Rank(ns, items[i][2])
      BY <1>5, <3>1, <3>4 DEF Rank, Before
    <3> QED
      BY <1>5, <3>1, <3>3, <3>4, <3>5
  <2>5. i \in DOMAIN items /\ next = 0 /\ ~(\E n \in 1..Passed : asked[n] = items'[i][1])
           => items'[i][1] = ns
    BY <1>0, <1>6 DEF NothingAhead
  <2>6. i \notin DOMAIN items => items'[i][1] = ns
    BY <1>13
  <2> QED
    BY <2>1, <2>2, <2>3, <2>4, <2>5, <2>6
<1>15. Quiet'
  <2> SUFFICES ASSUME changes' = 0
               PROVE  /\ born' = {} /\ inserted' = {} /\ removed' = {}
                      /\ \A i \in DOMAIN items' : items'[i][2] \in live'[items'[i][1]]
    BY DEF Quiet
  <2>1. /\ born = {} /\ inserted = {} /\ removed = {}
        /\ \A i \in DOMAIN items : items[i][2] \in live[items[i][1]]
    BY <1>5 DEF Quiet
  <2> QED
    BY <1>5, <1>6, <1>13, <2>1
<1>16. RepeatedOnlyAfterInsertion'
  <2> SUFFICES ASSUME NEW i \in DOMAIN items', NEW j \in DOMAIN items', i < j
               PROVE  \/ Precedes(items[i], items[j])'
                      \/ /\ items'[i][1] = items'[j][1]
                         /\ \E other \in inserted' :
                              other[1] = items'[j][1] /\ other[2] < items'[i][2]
    BY DEF RepeatedOnlyAfterInsertion
  <2>1. \A x, y : Precedes(x, y)' = Precedes(x, y)
    BY <1>5 DEF Precedes
  <2>2. CASE j \in DOMAIN items
    <3>1. i \in DOMAIN items
      BY <1>1, <1>6, <2>2
    <3>2. items'[i] = items[i] /\ items'[j] = items[j]
      BY <1>6, <2>2, <3>1
    <3>3. \/ Precedes(items[i], items[j])
          \/ /\ items[i][1] = items[j][1]
             /\ \E other \in inserted : other[1] = items[j][1] /\ other[2] < items[i][2]
      BY <2>2, <3>1 DEF RepeatedOnlyAfterInsertion
    <3>4. Precedes(items[i], items[j])' <=> Precedes(items'[i], items'[j])
      BY <1>5 DEF Precedes
    <3> QED
      BY <1>5, <3>2, <3>3, <3>4
  <2>3. CASE j \notin DOMAIN items
    <3>1. /\ items'[j][1] = ns /\ items'[j][2] \in Names
          /\ Rank(ns, items'[j][2]) = token + (j - n0) - 1 /\ Rank(ns, items'[j][2]) >= token
      BY <1>1, <1>13, <2>3
    <3>2. ASSUME items'[i][1] = ns, items'[i][2] \in Names,
                 Rank(ns, items'[i][2]) < Rank(ns, items'[j][2])
          PROVE  Precedes(items[i], items[j])'
      <4>1. items'[i][2] \in Nat /\ items'[j][2] \in Nat
        BY <3>1, <3>2
      <4>2. ~(items'[j][2] <= items'[i][2])
        <5>1. Rank(ns, items'[i][2]) \in Nat /\ Rank(ns, items'[j][2]) \in Nat
          BY <1>2, <3>1, <3>2
        <5>2. items'[j][2] <= items'[i][2] => Rank(ns, items'[j][2]) <= Rank(ns, items'[i][2])
          BY <1>2, <3>1, <3>2
        <5> QED
          BY <3>2, <5>1, <5>2
      <4>3. items'[i][2] < items'[j][2]
        BY <4>1, <4>2
      <4> QED
        BY <3>1, <3>2, <4>3 DEF Precedes
    <3>3. CASE i \notin DOMAIN items
      <4>1. /\ items'[i][1] = ns /\ items'[i][2] \in Names
            /\ Rank(ns, items'[i][2]) = token + (i - n0) - 1
        BY <1>1, <1>13, <3>3
      <4>2. token + (i - n0) - 1 < token + (j - n0) - 1
        BY <1>1, <1>6
      <4> QED
        BY <3>1, <3>2, <4>1, <4>2
    <3>4. CASE i \in DOMAIN items /\ \E n \in 1..Passed : asked[n] = items[i][1]
      <4>1. PICK n \in 1..Passed : asked[n] = items[i][1]
        BY <3>4
      <4>2. n < Passed + 1 /\ n \in DOMAIN asked
        BY <1>1, <1>5, <4>1, CurrentIsNext
      <4>3. items'[i] = items[i]
        BY <1>6, <3>4
      <4> QED
        BY <1>1, <1>5, <3>1, <4>1, <4>2, <4>3 DEF Precedes
    <3>5. CASE /\ i \in DOMAIN items /\ items[i][1] = ns
               /\ \/ Rank(ns, items[i][2]) < token
                  \/ \E other \in inserted : other[1] = ns /\ other[2] < items[i][2]
      <4>1. items'[i] = items[i] /\ items[i][2] \in Names
        BY <1>1, <1>6, <3>5 DEF Items
      <4>2. CASE Rank(ns, items[i][2]) < token
        <5>1. Rank(ns, items'[i][2]) < Rank(ns, items'[j][2])
          BY <1>1, <1>2, <3>1, <4>1, <4>2
        <5> QED
          BY <3>2, <3>5, <4>1, <5>1
      <4>3. CASE \E other \in inserted : other[1] = ns /\ other[2] < items[i][2]
        BY <1>5, <3>1, <3>5, <4>1, <4>3
      <4> QED
        BY <3>5, <4>2, <4>3
    <3> QED
      BY <1>0, <3>3, <3>4, <3>5 DEF NothingAhead
  <2> QED
    BY <2>2, <2>3
<1> QED
  BY <1>8, <1>9, <1>12, <1>14, <1>15, <1>16

\* Ranks follow the names registered.
LEMMA RanksFollow ==
  ASSUME NEW S \in SUBSET Names, NEW T \in SUBSET S, NEW x
  PROVE  /\ Cardinality({o \in T : o < x}) <= Cardinality({o \in S : o < x})
         /\ Cardinality({o \in S : o < x}) \in Nat
         /\ Cardinality({o \in T : o < x}) \in Nat
<1> DEFINE U == {o \in S : o < x}
           V == {o \in T : o < x}
<1>1. U \in SUBSET Names /\ V \in SUBSET U
  OBVIOUS
<1> HIDE DEF U, V
<1>2. IsFiniteSet(U) /\ IsFiniteSet(V) /\ Cardinality(V) <= Cardinality(U)
  BY <1>1, FS_Subset
<1>3. Cardinality(U) \in Nat /\ Cardinality(V) \in Nat
  BY <1>2, FS_CardinalityType
<1> QED
  BY <1>2, <1>3 DEF U, V

\* A registration moves the ranks of the names after it, and is remembered if
\* that happens between two pages.
LEMMA RegisterList == ListInv /\ Register => ListInv'
<1> SUFFICES ASSUME ListInv, Register
             PROVE  ListInv'
  OBVIOUS
<1> USE DEF ListInv
<1>1. PICK ns \in Namespaces : \E name \in Names \ live[ns] :
        /\ live' = [live EXCEPT ![ns] = @ \cup {name}]
        /\ born' = born \cup {<<ns, name>>}
        /\ inserted' = IF BetweenPages(ns) THEN inserted \cup {<<ns, name>>} ELSE inserted
  BY DEF Register
<1>2. PICK name \in Names \ live[ns] :
        /\ live' = [live EXCEPT ![ns] = @ \cup {name}]
        /\ born' = born \cup {<<ns, name>>}
        /\ inserted' = IF BetweenPages(ns) THEN inserted \cup {<<ns, name>>} ELSE inserted
  BY <1>1
<1>3. /\ UNCHANGED <<asked, todo, token, attempt, items, result, removed>>
      /\ result = "reading" /\ changes < MaxChanges /\ changes' = changes + 1
  BY DEF Register, reader
<1>4. live \in [Namespaces -> SUBSET Names] /\ live' \in [Namespaces -> SUBSET Names]
  BY <1>2 DEF TypeOK
<1>5. \A m \in Namespaces : live'[m] = IF m = ns THEN live[ns] \cup {name} ELSE live[m]
  BY <1>2, <1>4
<1>6. ASSUME NEW m \in Namespaces, NEW x
      PROVE  /\ Rank(m, x) \in Nat /\ Rank(m, x)' \in Nat /\ Rank(m, x) <= Rank(m, x)'
             /\ (m # ns \/ ~(name < x)) => Rank(m, x)' = Rank(m, x)
  <2>1. live'[m] \in SUBSET Names /\ live[m] \in SUBSET live'[m]
    BY <1>4, <1>5
  <2>2. ASSUME m # ns \/ ~(name < x)
        PROVE  Before(m, x)' = Before(m, x)
    BY <1>5, <2>2 DEF Before
  <2> QED
    BY <2>1, <2>2, RanksFollow DEF Rank, Before
<1>7. <<ns, name>> \in Items /\ <<ns, name>>[1] = ns /\ <<ns, name>>[2] = name
  BY DEF Items
<1>8. TypeOK'
  <2>1. changes' \in 0..MaxChanges
    BY <1>3 DEF TypeOK
  <2>2. born' \subseteq Items /\ inserted' \subseteq Items
    BY <1>2, <1>7 DEF TypeOK
  <2> QED
    BY <1>3, <1>4, <2>1, <2>2 DEF TypeOK
<1>9. InTurn' /\ Passed' = Passed /\ current' = current
  BY <1>3 DEF InTurn, Passed, current
<1>10. \A m, x : Accounted(m, x) => Accounted(m, x)'
  BY <1>2, <1>3 DEF Accounted, Listed
<1>11. Accounted(ns, name)'
  BY <1>2 DEF Accounted
<1>12. NothingSkipped'
  <2>1. ASSUME NEW n \in 1..Passed, NEW x \in live'[asked[n]]
        PROVE  Accounted(asked[n], x)'
    <3>0. PICK m \in Namespaces : m = asked[n]
      BY PassedWereAsked
    <3>1. x \in live[m] \/ (m = ns /\ x = name)
      BY <1>5, <2>1, <3>0
    <3>2. x \in live[m] => Accounted(m, x)
      BY <2>1, <3>0 DEF NothingSkipped
    <3>3. Accounted(m, x)'
      BY <1>10, <1>11, <3>1, <3>2
    <3> QED
      BY <1>3, <3>0, <3>3 DEF Accounted
  <2>2. ASSUME todo # <<>>, NEW x \in live'[current], Rank(current, x)' < token
        PROVE  Accounted(current, x)'
    <3>0. PICK m \in Namespaces : m = current
      BY <2>2, CurrentIsNext
    <3>1. x \in live[m] \/ (m = ns /\ x = name)
      BY <1>5, <2>2, <3>0
    <3>2. Rank(m, x)' = Rank(current, x)'
      BY <1>9, <3>0 DEF Rank, Before
    <3>3. Rank(m, x) < token
      BY <1>6, <2>2, <3>2 DEF TypeOK
    <3>4. x \in live[m] => Accounted(m, x)
      BY <2>2, <3>0, <3>3 DEF NothingSkipped
    <3>5. Accounted(m, x)'
      BY <1>10, <1>11, <3>1, <3>4
    <3> QED
      BY <1>9, <3>0, <3>5 DEF Accounted
  <2> QED
    BY <1>3, <1>9, <2>1, <2>2 DEF NothingSkipped
<1>13. NothingAhead'
  <2> SUFFICES ASSUME NEW i \in DOMAIN items,
                      ~\E n \in 1..Passed : asked[n] = items[i][1]
               PROVE  (/\ todo # <<>> /\ items[i][1] = current /\ token > 0
                       /\ \/ Rank(current, items[i][2]) < token
                          \/ \E other \in inserted :
                               other[1] = current /\ other[2] < items[i][2])'
    BY <1>3, <1>9 DEF NothingAhead
  <2>x. PICK x : x = items[i][2]
    OBVIOUS
  <2>m. PICK m \in Namespaces : m = current
    BY CurrentIsNext DEF NothingAhead
  <2>0. m = current /\ x = items[i][2]
    BY <2>x, <2>m
  <2>1. /\ todo # <<>> /\ items[i][1] = m /\ token > 0
        /\ \/ Rank(m, x) < token
           \/ \E other \in inserted : other[1] = m /\ other[2] < x
    BY <2>0 DEF NothingAhead
  <2>2. Rank(m, x)' = Rank(current, items[i][2])'
    BY <1>3, <1>9, <2>0 DEF Rank, Before
  <2>3. CASE m = ns /\ name < x
    <3>1. <<ns, name>> \in inserted'
      BY <1>2, <2>0, <2>1, <2>3 DEF BetweenPages
    <3> QED
      BY <1>3, <1>7, <1>9, <2>0, <2>1, <2>3, <3>1
  <2>4. CASE ~(m = ns /\ name < x)
    <3>1. Rank(m, x)' = Rank(m, x)
      BY <1>6, <2>4
    <3>2. inserted \subseteq inserted'
      BY <1>2
    <3> QED
      BY <1>3, <1>9, <2>0, <2>1, <2>2, <3>1, <3>2
  <2> QED
    BY <2>3, <2>4
<1>14. Quiet'
  BY <1>3 DEF Quiet, TypeOK
<1>15. RepeatedOnlyAfterInsertion'
  <2>1. inserted \subseteq inserted'
    BY <1>2
  <2> QED
    BY <1>3, <2>1 DEF RepeatedOnlyAfterInsertion, Precedes
<1> QED
  BY <1>8, <1>9, <1>12, <1>13, <1>14, <1>15

\* A removal is remembered if it moves ranks between two pages.
LEMMA DeregisterList == ListInv /\ Deregister => ListInv'
<1> SUFFICES ASSUME ListInv, Deregister
             PROVE  ListInv'
  OBVIOUS
<1> USE DEF ListInv
<1>1. PICK ns \in Namespaces, name \in Names :
        /\ live' = [live EXCEPT ![ns] = @ \ {name}]
        /\ removed' = IF BetweenPages(ns) THEN removed \cup {<<ns, name>>} ELSE removed
  BY DEF Deregister, TypeOK
<1>2. /\ UNCHANGED <<asked, todo, token, attempt, items, result, born, inserted>>
      /\ result = "reading" /\ changes < MaxChanges /\ changes' = changes + 1
  BY DEF Deregister, reader
<1>3. live \in [Namespaces -> SUBSET Names] /\ live' \in [Namespaces -> SUBSET Names]
  BY <1>1 DEF TypeOK
<1>4. \A m \in Namespaces : live'[m] = IF m = ns THEN live[ns] \ {name} ELSE live[m]
  BY <1>1, <1>3
<1>5. ASSUME NEW m \in Namespaces, NEW x
      PROVE  /\ Rank(m, x) \in Nat /\ Rank(m, x)' \in Nat /\ Rank(m, x)' <= Rank(m, x)
             /\ (m # ns \/ ~(name < x)) => Rank(m, x)' = Rank(m, x)
  <2>1. live[m] \in SUBSET Names /\ live'[m] \in SUBSET live[m]
    BY <1>3, <1>4
  <2>2. ASSUME m # ns \/ ~(name < x)
        PROVE  Before(m, x)' = Before(m, x)
    BY <1>4, <2>2 DEF Before
  <2> QED
    BY <2>1, <2>2, RanksFollow DEF Rank, Before
<1>6. <<ns, name>> \in Items /\ <<ns, name>>[1] = ns /\ <<ns, name>>[2] = name
  BY DEF Items
<1>7. TypeOK'
  <2>1. changes' \in 0..MaxChanges
    BY <1>2 DEF TypeOK
  <2>2. removed' \subseteq Items
    BY <1>1, <1>6 DEF TypeOK
  <2> QED
    BY <1>2, <1>3, <2>1, <2>2 DEF TypeOK
<1>8. InTurn' /\ Passed' = Passed /\ current' = current
  BY <1>2 DEF InTurn, Passed, current
<1>9. \A m, x : Accounted(m, x) => Accounted(m, x)'
  BY <1>1, <1>2 DEF Accounted, Listed
<1>10. NothingSkipped'
  <2>1. ASSUME NEW n \in 1..Passed, NEW x \in live'[asked[n]]
        PROVE  Accounted(asked[n], x)'
    <3>0. PICK m \in Namespaces : m = asked[n]
      BY PassedWereAsked
    <3>1. x \in live[m]
      BY <1>4, <2>1, <3>0
    <3>2. Accounted(m, x)'
      BY <1>9, <2>1, <3>0, <3>1 DEF NothingSkipped
    <3> QED
      BY <1>2, <3>0, <3>2 DEF Accounted
  <2>2. ASSUME todo # <<>>, NEW x \in live'[current], Rank(current, x)' < token
        PROVE  Accounted(current, x)'
    <3>0. PICK m \in Namespaces : m = current
      BY <2>2, CurrentIsNext
    <3>1. x \in live[m]
      BY <1>4, <2>2, <3>0
    <3>2. Rank(m, x)' < token
      BY <1>8, <2>2, <3>0 DEF Rank, Before
    <3>3. CASE m = ns /\ name < x
      <4>1. token > 0
        BY <1>5, <3>2 DEF TypeOK
      <4>2. <<ns, name>> \in removed'
        BY <1>1, <2>2, <3>0, <3>3, <4>1 DEF BetweenPages
      <4> QED
        BY <1>6, <1>8, <3>0, <3>3, <4>2 DEF Accounted
    <3>4. CASE ~(m = ns /\ name < x)
      <4>1. Rank(m, x) < token
        BY <1>5, <3>2, <3>4
      <4>2. Accounted(m, x)'
        BY <1>9, <2>2, <3>0, <3>1, <4>1 DEF NothingSkipped
      <4> QED
        BY <1>8, <3>0, <4>2 DEF Accounted
    <3> QED
      BY <3>3, <3>4
  <2> QED
    BY <1>2, <1>8, <2>1, <2>2 DEF NothingSkipped
<1>11. NothingAhead'
  <2> SUFFICES ASSUME NEW i \in DOMAIN items,
                      ~\E n \in 1..Passed : asked[n] = items[i][1]
               PROVE  (/\ todo # <<>> /\ items[i][1] = current /\ token > 0
                       /\ \/ Rank(current, items[i][2]) < token
                          \/ \E other \in inserted :
                               other[1] = current /\ other[2] < items[i][2])'
    BY <1>2, <1>8 DEF NothingAhead
  <2>x. PICK x : x = items[i][2]
    OBVIOUS
  <2>m. PICK m \in Namespaces : m = current
    BY CurrentIsNext DEF NothingAhead
  <2>0. m = current /\ x = items[i][2]
    BY <2>x, <2>m
  <2>1. /\ todo # <<>> /\ items[i][1] = m /\ token > 0
        /\ \/ Rank(m, x) < token
           \/ \E other \in inserted : other[1] = m /\ other[2] < x
    BY <2>0 DEF NothingAhead
  <2>2. Rank(m, x)' = Rank(current, items[i][2])'
    BY <1>2, <1>8, <2>0 DEF Rank, Before
  <2>3. Rank(m, x) < token => Rank(m, x)' < token
    BY <1>5 DEF TypeOK
  <2> QED
    BY <1>2, <1>8, <2>0, <2>1, <2>2, <2>3
<1>12. Quiet'
  BY <1>2 DEF Quiet, TypeOK
<1>13. RepeatedOnlyAfterInsertion'
  BY <1>2 DEF RepeatedOnlyAfterInsertion, Precedes
<1> QED
  BY <1>7, <1>8, <1>10, <1>11, <1>12, <1>13

\* A page that fails, and the end, leave the list and the names alone.
LEMMA OtherList ==
  ASSUME ListInv, UNCHANGED <<live, asked, todo, token, items, history>>,
         result' \in {"reading", "done", "error"}, attempt' \in 0..MaxRetries,
         result' = "done" => todo = <<>>
  PROVE  ListInv'
<1> USE DEF ListInv
<1>1. UNCHANGED <<live, asked, todo, token, items, born, inserted, removed, changes>>
  BY DEF history
<1>2. /\ Passed' = Passed /\ current' = current
      /\ \A m, x : Rank(m, x)' = Rank(m, x)
      /\ \A m, x : Accounted(m, x)' <=> Accounted(m, x)
  BY <1>1 DEF Passed, current, Rank, Before, Accounted, Listed
<1>3. TypeOK'
  BY <1>1 DEF TypeOK
<1>4. InTurn'
  BY <1>1, <1>2 DEF InTurn
<1>5. NothingSkipped'
  <2>1. ASSUME NEW n \in 1..Passed, NEW x \in live[asked[n]]
        PROVE  Accounted(asked[n], x)'
    <3>1. Accounted(asked[n], x)
      BY <2>1 DEF NothingSkipped
    <3> QED
      BY <1>1, <3>1 DEF Accounted, Listed
  <2>2. ASSUME todo # <<>>, NEW x \in live[current], Rank(current, x)' < token
        PROVE  Accounted(current, x)'
    <3>1. Rank(current, x)' = Rank(current, x)
      BY <1>1, <1>2 DEF Rank, Before
    <3>2. Accounted(current, x)
      BY <2>2, <3>1 DEF NothingSkipped
    <3> QED
      BY <1>1, <1>2, <3>2 DEF Accounted, Listed
  <2> QED
    BY <1>1, <1>2, <2>1, <2>2 DEF NothingSkipped
<1>6. NothingAhead'
  <2>1. \A i : Rank(current, items[i][2])' = Rank(current, items[i][2])
    BY <1>1, <1>2 DEF Rank, Before
  <2> QED
    BY <1>1, <1>2, <2>1 DEF NothingAhead
<1>7. Quiet'
  BY <1>1 DEF Quiet
<1>8. RepeatedOnlyAfterInsertion'
  BY <1>1 DEF RepeatedOnlyAfterInsertion, Precedes
<1> QED
  BY <1>3, <1>4, <1>5, <1>6, <1>7, <1>8

\* For any names, namespaces, page size and number of changes: what is in the list,
\* what is not, and where the next page starts.
THEOREM ListInvariant == Spec => []ListInv
<1>1. ListInv /\ [Next]_vars => ListInv'
  <2>1. ASSUME ListInv, PageFails \/ PageRefused \/ Return \/ UNCHANGED vars
        PROVE  ListInv'
    <3>1. /\ UNCHANGED <<live, asked, todo, token, items, history>>
          /\ result' \in {"reading", "done", "error"} /\ attempt' \in 0..MaxRetries
      BY <2>1 DEF PageFails, PageRefused, Return, Retry, ListInv, TypeOK, vars, reader
    <3>2. result' = "done" => todo = <<>>
      BY <2>1 DEF PageFails, PageRefused, Return, Retry, ListInv, InTurn, vars, reader
    <3> QED
      BY <2>1, <3>1, <3>2, OtherList
  <2> QED
    BY <2>1, ReadPageList, RegisterList, DeregisterList DEF Next, Read
<1> QED
  BY <1>1, InitList, PTL DEF Spec

\* For any values of the constants, the data source and the service stay in the
\* states the model gives them: an offset never exceeds the names there are.
THEOREM TypeCorrect == Spec => []TypeOK
<1>1. ListInv => TypeOK
  BY DEF ListInv
<1> QED
  BY <1>1, ListInvariant, PTL

\* For any names, page size and namespaces: data.azureacme_certificates repeats a
\* registration, or lists two out of order, only if one before them was inserted
\* between two pages of their namespace.
THEOREM RepeatsFollowInsertions == Spec => []RepeatedOnlyAfterInsertion
<1>1. ListInv => RepeatedOnlyAfterInsertion
  BY DEF ListInv
<1> QED
  BY <1>1, ListInvariant, PTL

\* For any names, page size and namespaces: data.azureacme_certificates misses a
\* registration that was there throughout only if one before it was removed between
\* two pages of its namespace.
THEOREM MissesFollowRemovals == Spec => []MissedOnlyAfterRemoval
<1>1. ListInv => MissedOnlyAfterRemoval
  <2> SUFFICES ASSUME ListInv, result = "done", NEW n \in DOMAIN asked,
                      NEW name \in live[asked[n]]
               PROVE  \/ <<asked[n], name>> \in Listed \cup born
                      \/ \E other \in removed : other[1] = asked[n] /\ other[2] < name
    BY DEF MissedOnlyAfterRemoval
  <2>1. n \in 1..Passed
    BY PassedWereAsked DEF ListInv, InTurn
  <2> QED
    BY <2>1 DEF ListInv, NothingSkipped, Accounted
<1> QED
  BY <1>1, ListInvariant, PTL

\* For any names, page size and namespaces, and whatever pages are lost and asked
\* for again: while no registration comes or goes the list is every registration of
\* the namespaces asked, each once and in order.
THEOREM QuietListings == Spec => []QuietListingIsExact
<1>1. ListInv => QuietListingIsExact
  <2> SUFFICES ASSUME ListInv, result = "done", changes = 0
               PROVE  /\ Listed = {item \in Items : (\E n \in DOMAIN asked : asked[n] = item[1])
                                                     /\ item[2] \in live[item[1]]}
                      /\ \A i, j \in DOMAIN items : i < j => Precedes(items[i], items[j])
    BY DEF QuietListingIsExact
  <2> USE DEF ListInv
  <2>1. todo = <<>> /\ 1..Passed = DOMAIN asked
    BY PassedWereAsked DEF InTurn
  <2>2. /\ born = {} /\ inserted = {} /\ removed = {}
        /\ \A i \in DOMAIN items : items[i][2] \in live[items[i][1]]
    BY DEF Quiet
  <2>3. \A i \in DOMAIN items : items[i] \in Items
    BY DEF TypeOK
  <2>4. ASSUME NEW item \in Items, NEW n \in DOMAIN asked, asked[n] = item[1],
               item[2] \in live[item[1]]
        PROVE  item \in Listed
    <3>1. item = <<item[1], item[2]>>
      BY DEF Items
    <3>2. Accounted(asked[n], item[2])
      BY <2>1, <2>4 DEF NothingSkipped
    <3> QED
      BY <2>2, <2>4, <3>1, <3>2 DEF Accounted
  <2>5. ASSUME NEW i \in DOMAIN items
        PROVE  (\E n \in DOMAIN asked : asked[n] = items[i][1]) /\ items[i][2] \in live[items[i][1]]
    BY <2>1, <2>2 DEF NothingAhead
  <2>6. \A i, j \in DOMAIN items : i < j => Precedes(items[i], items[j])
    BY <2>2 DEF RepeatedOnlyAfterInsertion
  <2>7. Listed = {item \in Items : (\E n \in DOMAIN asked : asked[n] = item[1])
                                    /\ item[2] \in live[item[1]]}
    BY <2>3, <2>4, <2>5 DEF Listed
  <2> QED
    BY <2>6, <2>7
<1> QED
  BY <1>1, ListInvariant, PTL

\* What ends the loop over next_page_token, for any page size and whatever comes
\* and goes: every page ends a namespace or moves the offset on, below the number
\* of names.
THEOREM PagesAdvance ==
  Spec => [][ReadPage =>
               \/ Len(todo') < Len(todo)
               \/ todo' = todo /\ token < token' /\ token' < Cardinality(Names)]_vars
<1>1. ListInv /\ [Next]_vars =>
        [ReadPage =>
           \/ Len(todo') < Len(todo)
           \/ todo' = todo /\ token < token' /\ token' < Cardinality(Names)]_vars
  <2> SUFFICES ASSUME ListInv, ReadPage
               PROVE  \/ Len(todo') < Len(todo)
                      \/ todo' = todo /\ token < token' /\ token' < Cardinality(Names)
    OBVIOUS
  <2>0. PICK ns \in Namespaces : ns = current
    BY CurrentIsNext DEF ListInv, ReadPage
  <2> DEFINE len == Cardinality(live[ns])
             next == NextToken(token, len)
  <2>1. /\ todo # <<>> /\ token' = next /\ todo' = IF next = 0 THEN Tail(todo) ELSE todo
    BY <2>0 DEF ReadPage
  <2>2. token \in Nat /\ todo \in Seq(Namespaces)
    BY DEF ListInv, TypeOK
  <2>3. live[ns] \in SUBSET Names
    BY DEF ListInv, TypeOK
  <2>4. len \in Nat /\ len <= Cardinality(Names)
    BY <2>3, FS_Subset, FS_CardinalityType
  <2>5. next = 0 \/ (next = token + PageSize /\ next < len)
    BY <2>2, <2>4 DEF NextToken, PageEnd
  <2> HIDE DEF len, next
  <2>6. CASE next = 0
    BY <2>1, <2>2, <2>6
  <2>7. CASE next # 0
    BY <2>1, <2>2, <2>4, <2>5, <2>7, NamesAreCounted
  <2> QED
    BY <2>6, <2>7
<1> QED
  BY <1>1, ListInvariant, PTL DEF Spec
=============================================================================
