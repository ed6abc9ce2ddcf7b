------------------------- MODULE CertificatesListing -------------------------
(***************************************************************************)
(* data.azureacme_certificates: every page of every namespace asked for,   *)
(* one GET each, while registrations come and go.  The service keeps no    *)
(* cursor: next_page_token is an offset into the names as sorted then.     *)
(*                                                                         *)
(* A name stands for its place in that order.  The filters of the query    *)
(* are left out, and so are the attributes of an item.                     *)
(***************************************************************************)
EXTENDS Integers, Sequences, FiniteSets

CONSTANTS
  Namespaces,
  Names,       \* registration names
  Readable,    \* the namespaces capabilities list for the caller, in order
  PageSize,    \* the service's page size
  MaxRetries,  \* DoRetrying's bound
  MaxChanges   \* bound: registrations that come or go during the read

ASSUME NamesAssumption == Names \subseteq Nat /\ IsFiniteSet(Names)
ASSUME ReadableAssumption == Readable \in Seq(Namespaces)
ASSUME BoundsAssumption == PageSize \in Nat \ {0} /\ MaxRetries \in Nat /\ MaxChanges \in Nat

VARIABLES
  live,      \* the names registered in each namespace, tombstones aside
  asked,     \* the namespaces to list
  todo,      \* those not listed to the end
  token,     \* the page token, 0 for none
  attempt,   \* times the page was asked for in vain
  items,     \* what has been collected
  result,    \* "reading", "done" or "error"
  born,      \* history: registered during the read
  inserted,  \* history: registered between two pages of their namespace
  removed,   \* history: removed between two pages of their namespace
  changes

reader == <<asked, todo, token, attempt, items, result>>
history == <<born, inserted, removed, changes>>
vars == <<live, reader, history>>

Items == Namespaces \X Names

TypeOK ==
  /\ live \in [Namespaces -> SUBSET Names]
  /\ asked \in Seq(Namespaces) /\ todo \in Seq(Namespaces)
  /\ token \in 0..Cardinality(Names) /\ attempt \in 0..MaxRetries
  /\ items \in Seq(Items)
  /\ result \in {"reading", "done", "error"}
  /\ born \subseteq Items /\ inserted \subseteq Items /\ removed \subseteq Items
  /\ changes \in 0..MaxChanges

\* One namespace that the configuration names, or all that are readable.
Init ==
  /\ live \in [Namespaces -> SUBSET Names]
  /\ asked \in {Readable} \cup {<<ns>> : ns \in Namespaces}
  /\ todo = asked
  /\ token = 0 /\ attempt = 0 /\ items = <<>> /\ result = "reading"
  /\ born = {} /\ inserted = {} /\ removed = {} /\ changes = 0

----------------------------------------------------------------------------
(* The service.                                                              *)

\* The offsets of the page that starts at start, of len names in all.
PageEnd(start, len) == IF start + PageSize < len THEN start + PageSize ELSE len

\* Mutant: a page that ends with the last name has a successor.
NextTokenAtEnd(start, len) == IF PageEnd(start, len) <= len THEN PageEnd(start, len) ELSE 0

\* Mutant: the token is the index of the next page's second name.
NextTokenOffByOne(start, len) == IF PageEnd(start, len) < len THEN PageEnd(start, len) + 1 ELSE 0

\* Mutant: the token is the index of the last name of this page.
NextTokenOverlap(start, len) == IF PageEnd(start, len) < len THEN PageEnd(start, len) - 1 ELSE 0

\* Mutant: the token is not checked against the number of names.
NextTokenUnchecked(start, len) == start + PageSize

\* 0 stands for an answer without next_page_token.
NextToken(start, len) == IF PageEnd(start, len) < len THEN PageEnd(start, len) ELSE 0

Before(ns, name) == {other \in live[ns] : other < name}

\* sort.Strings: the i-th name is the one with i - 1 names before it.
Sorted(ns) ==
  [i \in 1..Cardinality(live[ns]) |->
     CHOOSE name \in live[ns] : Cardinality(Before(ns, name)) = i - 1]

Page(ns, start) ==
  LET names == Sorted(ns)
  IN  [i \in 1..(PageEnd(start, Len(names)) - start) |-> <<ns, names[start + i]>>]

\* The slice keys[start:end] is out of range: the handler panics and the
\* connection is cut.
OutOfRange(ns, start) == start > Cardinality(live[ns])

----------------------------------------------------------------------------
(* The data source.                                                          *)

current == Head(todo)

ReadPage ==
  /\ result = "reading" /\ todo # <<>>
  /\ ~OutOfRange(current, token)
  /\ LET next == NextToken(token, Cardinality(live[current]))
     IN  /\ items' = items \o Page(current, token)
         /\ token' = next
         /\ todo' = IF next = 0 THEN Tail(todo) ELSE todo
  /\ attempt' = 0
  /\ UNCHANGED <<live, asked, result, history>>

\* Mutant: the last attempt is not counted.
RetryUncounted ==
  /\ attempt <= MaxRetries
  /\ attempt' = attempt + 1 /\ UNCHANGED result

\* DoRetrying: the same page again, or an error.
Retry ==
  \/ attempt < MaxRetries /\ attempt' = attempt + 1 /\ UNCHANGED result
  \/ attempt = MaxRetries /\ result' = "error" /\ UNCHANGED attempt

\* The page is out of range, or its answer is lost.
PageFails ==
  /\ result = "reading" /\ todo # <<>>
  /\ Retry
  /\ UNCHANGED <<live, asked, todo, token, items, history>>

\* An answer that is not retried: a namespace that is not the caller's, say.
PageRefused ==
  /\ result = "reading" /\ todo # <<>>
  /\ result' = "error"
  /\ UNCHANGED <<live, asked, todo, token, attempt, items, history>>

Return ==
  /\ result = "reading" /\ todo = <<>>
  /\ result' = "done"
  /\ UNCHANGED <<live, asked, todo, token, attempt, items, history>>

----------------------------------------------------------------------------
(* Everybody else.                                                           *)

BetweenPages(ns) == todo # <<>> /\ current = ns /\ token > 0

Register ==
  /\ result = "reading" /\ changes < MaxChanges /\ changes' = changes + 1
  /\ \E ns \in Namespaces : \E name \in Names \ live[ns] :
       /\ live' = [live EXCEPT ![ns] = @ \cup {name}]
       /\ born' = born \cup {<<ns, name>>}
       /\ inserted' = IF BetweenPages(ns) THEN inserted \cup {<<ns, name>>} ELSE inserted
  /\ UNCHANGED <<reader, removed>>

Deregister ==
  /\ result = "reading" /\ changes < MaxChanges /\ changes' = changes + 1
  /\ \E ns \in Namespaces : \E name \in live[ns] :
       /\ live' = [live EXCEPT ![ns] = @ \ {name}]
       /\ removed' = IF BetweenPages(ns) THEN removed \cup {<<ns, name>>} ELSE removed
  /\ UNCHANGED <<reader, born, inserted>>

Read == ReadPage \/ PageFails \/ PageRefused \/ Return

Next == Read \/ Register \/ Deregister

\* The read goes on by itself; nothing is assumed of the registrations.
Spec == Init /\ [][Next]_vars /\ WF_vars(Read)

----------------------------------------------------------------------------
(* Properties.                                                               *)

Listed == {items[i] : i \in DOMAIN items}

\* Of a namespace asked for earlier, or earlier in the same one.
Precedes(x, y) ==
  \/ x[1] = y[1] /\ x[2] < y[2]
  \/ \E m, n \in DOMAIN asked : m < n /\ asked[m] = x[1] /\ asked[n] = y[1]

\* Without changes the list is every name of every namespace asked and no other,
\* in order and once, whatever was lost and asked for again.
QuietListingIsExact ==
  result = "done" /\ changes = 0 =>
    /\ Listed = {item \in Items : (\E n \in DOMAIN asked : asked[n] = item[1])
                                   /\ item[2] \in live[item[1]]}
    /\ \A i, j \in DOMAIN items : i < j => Precedes(items[i], items[j])

\* A registration that was there all along is missed only if one before it in
\* the order went between two pages of its namespace.
MissedOnlyAfterRemoval ==
  result = "done" =>
    \A n \in DOMAIN asked : \A name \in live[asked[n]] :
      \/ <<asked[n], name>> \in Listed \cup born
      \/ \E other \in removed : other[1] = asked[n] /\ other[2] < name

\* A registration is listed twice, or out of order, only if one before it was
\* inserted between two pages of its namespace.
RepeatedOnlyAfterInsertion ==
  \A i, j \in DOMAIN items :
    i < j =>
      \/ Precedes(items[i], items[j])
      \/ /\ items[i][1] = items[j][1]
         /\ \E other \in inserted : other[1] = items[j][1] /\ other[2] < items[i][2]

\* The service is asked for a page that is out of its range only after a
\* removal between two pages.
OverrunsOnlyAfterRemoval ==
  todo # <<>> /\ OutOfRange(current, token) => \E other \in removed : other[1] = current

\* The read ends, whatever comes and goes: tokens grow, and the names are finite.
ListingEnds == <>(result # "reading")
=============================================================================
