------------------------- MODULE PinnedRefreshProofs -------------------------
(* Proofs about PinnedRefresh.                                               *)
EXTENDS PinnedRefresh, TLAPS

\* What makes a removal sound: state is pinned to no instance unless it names
\* the certificate, so an absence stamped by the pinned instance is one of the
\* certificate itself.
PinnedIsNamed == state # NoState /\ state.pin \in Instances => state.named

\* What Configure's one look at the endpoint establishes for the rest of a run
\* during which the endpoint stays put.
EndpointIsExpected ==
  /\ steady /\ ~config.skip /\ config.expected # NoInstance
  /\ pc \in {"refresh", "import", "readBack"}
  => endpoint = config.expected

IInv == TypeOK /\ PinnedIsNamed /\ EndpointIsExpected /\ PinHolds

USE NoInstanceAssumption, MaxRetriesAssumption, NoStateAssumption

\* An answer that decides a removal comes from the pinned instance, says that the
\* certificate is not there, and was not made up on the way.
LEMMA RemovalIsStamped ==
  ASSUME TypeOK, NEW a \in Answers, pc = "refresh", state # NoState,
         DecideRead(a, state.pin) = "remove",
         state.pin \in Instances, ~config.skip
  PROVE  a \in Registered(endpoint, state.named) /\ endpoint = state.pin
<1>1. /\ <<a.status, a.code>> \in {<<404, "registration_not_found">>, <<410, "registration_deleted">>}
      /\ a.instance = state.pin
  BY DEF DecideRead
<1>2. a \notin Interposed
  BY <1>1 DEF Interposed, Plain, Absences, Problem
<1>3. a \notin Troubles(endpoint)
  BY <1>1 DEF Troubles, Problem
<1>4. a \in Registered(endpoint, state.named)
  BY <1>2, <1>3 DEF Answers
<1>5. a.instance = endpoint
  BY <1>4 DEF Registered, Plain, Absences, Problem
<1> QED
  BY <1>1, <1>4, <1>5

\* A success shows the empty registration, or one of the instance that answers.
LEMMA SuccessIsStamped ==
  ASSUME TypeOK, NEW a \in Answers, pc # "idle", Kind(a) = "ok"
  PROVE  /\ Representation(a) \in ResourceState
         /\ a.instance \in {endpoint, NoInstance}
         /\ a.instance \in Instances => a.body = "json"
<1>1. CASE a \in Interposed
  <2>1. a.instance = NoInstance
    BY <1>1 DEF Interposed, Plain, Absences, Problem
  <2> QED
    BY <2>1 DEF Representation, ResourceState, Instance
<1>2. CASE a \in Troubles(endpoint)
  BY <1>2 DEF Troubles, Problem, Representation, ResourceState, Instance, TypeOK
<1>3. CASE a = Plain(200, "json", endpoint)
  BY <1>3 DEF Plain, Representation, ResourceState, Instance, TypeOK
<1>4. CASE a \in Absences(endpoint)
  BY <1>4 DEF Absences, Problem, Representation, ResourceState, Instance, TypeOK
<1> QED
  BY <1>1, <1>2, <1>3, <1>4 DEF Answers, Registered, TypeOK

LEMMA DecidesOnKind ==
  ASSUME NEW a, NEW pin, DecideRead(a, pin) = "success"
  PROVE  Kind(a) = "ok"
BY DEF DecideRead

LEMMA InvariantInit == Init => IInv
BY DEF Init, IInv, TypeOK, PinnedIsNamed, EndpointIsExpected, PinHolds, Config, ResourceState, Instance

\* Whatever ends a run without a success leaves state as it was, or empty.
LEMMA KeptByEnd ==
  ASSUME IInv, EndRun
  PROVE  IInv'
BY DEF IInv, EndRun, Goto, TypeOK, PinnedIsNamed, EndpointIsExpected, PinHolds, given, service

LEMMA KeptByRetry ==
  ASSUME IInv, Retry
  PROVE  IInv'
BY DEF IInv, Retry, TypeOK, PinnedIsNamed, EndpointIsExpected, PinHolds, given, service

\* Recording a success: state is pinned to the instance behind the endpoint, or
\* to none.
LEMMA KeptByRecording ==
  ASSUME IInv, NEW a \in Answers, Kind(a) = "ok", pc \in {"refresh", "import", "readBack"},
         state' = Representation(a), UNCHANGED <<given, service>>
  PROVE  state' \in ResourceState /\ PinnedIsNamed' /\ PinHolds'
<1>1. /\ Representation(a) \in ResourceState
      /\ a.instance \in {endpoint, NoInstance}
      /\ a.instance \in Instances => a.body = "json"
  BY SuccessIsStamped DEF IInv
<1> QED
  BY <1>1 DEF IInv, PinnedIsNamed, PinHolds, EndpointIsExpected, Representation, given, service

LEMMA KeptByNext ==
  ASSUME IInv, [Next]_vars
  PROVE  IInv'
<1> USE DEF IInv, Goto
<1>1. CASE BeginRun
  BY <1>1 DEF BeginRun, TypeOK, PinnedIsNamed, EndpointIsExpected, PinHolds, given, service
<1>2. CASE Answered
  <2> SUFFICES ASSUME NEW a \in Answers, pc # "idle",
                      \/ RetryDecision(a) /\ Retry
                      \/ Configure(a) \/ Refresh(a) \/ ImportState(a) \/ ReadBack(a)
                      \/ Fails(a)
               PROVE  IInv'
    BY <1>2 DEF Answered
  <2>1. CASE Retry
    BY <2>1, KeptByRetry
  <2>2. CASE Configure(a)
    <3>1. a.instance \in {endpoint, NoInstance}
      BY <2>2, SuccessIsStamped DEF Configure, Accepts
    <3>2. EndpointIsExpected'
      BY <2>2, <3>1 DEF Configure, Accepts, EndpointIsExpected, given, service
    <3> QED
      BY <2>2, <3>2 DEF Configure, TypeOK, PinnedIsNamed, PinHolds, given, service
  <2>3. CASE Refresh(a) /\ state' = NoState
    BY <2>3 DEF Refresh, TypeOK, PinnedIsNamed, EndpointIsExpected, PinHolds, given, service
  <2>4. CASE Refresh(a) /\ Kind(a) = "ok" /\ state' = Representation(a)
    <3>1. state' \in ResourceState /\ PinnedIsNamed' /\ PinHolds'
      BY <2>4, KeptByRecording DEF Refresh
    <3> QED
      BY <2>4, <3>1 DEF Refresh, TypeOK, EndpointIsExpected, given, service
  <2>5. CASE ImportState(a)
    <3>1. Kind(a) = "ok"
      BY <2>5, DecidesOnKind DEF ImportState
    <3>2. state' \in ResourceState /\ PinnedIsNamed' /\ PinHolds'
      BY <2>5, <3>1, KeptByRecording DEF ImportState
    <3>3. a.instance \in Instance
      BY <3>1, SuccessIsStamped DEF TypeOK, Instance
    <3> QED
      BY <2>5, <3>2, <3>3 DEF ImportState, TypeOK, EndpointIsExpected, given, service
  <2>6. CASE ReadBack(a)
    <3>1. Kind(a) = "ok"
      BY <2>6, DecidesOnKind DEF ReadBack
    <3>2. state' \in ResourceState /\ PinnedIsNamed' /\ PinHolds'
      BY <2>6, <3>1, KeptByRecording DEF ReadBack
    <3> QED
      BY <2>6, <3>2 DEF ReadBack, TypeOK, EndpointIsExpected, given, service
  <2>7. CASE Fails(a)
    BY <2>7, KeptByEnd DEF Fails
  <2>8. Refresh(a) => state' = NoState \/ (Kind(a) = "ok" /\ state' = Representation(a))
    BY DecidesOnKind DEF Refresh
  <2> QED
    BY <2>1, <2>2, <2>3, <2>4, <2>5, <2>6, <2>7, <2>8
<1>3. CASE Unreachable
  BY <1>3, KeptByRetry, KeptByEnd DEF Unreachable
<1>4. CASE Repoint
  BY <1>4 DEF Repoint, TypeOK, PinnedIsNamed, EndpointIsExpected, PinHolds, given
<1>5. CASE CatalogueMoves
  BY <1>5 DEF CatalogueMoves, TypeOK, PinnedIsNamed, EndpointIsExpected, PinHolds, given
<1>6. CASE UNCHANGED vars
  BY <1>6 DEF vars, TypeOK, PinnedIsNamed, EndpointIsExpected, PinHolds, given, service
<1> QED
  BY <1>1, <1>2, <1>3, <1>4, <1>5, <1>6 DEF Next, Exchange

\* The inductive invariant holds in every reachable state.
THEOREM PinInvariant == Spec => []IInv
<1>1. Init => IInv
  BY InvariantInit
<1>2. IInv /\ [Next]_vars => IInv'
  BY KeptByNext
<1> QED
  BY <1>1, <1>2, PTL DEF Spec

\* In particular nothing but an instance, or none, is ever recorded as the pin,
\* whatever portals, proxies and services answer, and retries stay bounded.
THEOREM TypeCorrect == Spec => []TypeOK
<1>1. IInv => TypeOK
  BY DEF IInv
<1> QED
  BY <1>1, PinInvariant, PTL

\* However many instances there are, and however often the endpoint is repointed
\* between runs, expected_service_instance_id keeps state from being pinned to
\* an instance it does not name.
THEOREM PinIsKept == Spec => []PinHolds
<1>1. IInv => PinHolds
  BY DEF IInv
<1> QED
  BY <1>1, PinInvariant, PTL

\* A refresh drops the certificate only when the pinned instance lacks it.
THEOREM RemovalsAreEarned == Spec => RemovalIsEarned
<1> DEFINE Earned ==
      /\ pc = "refresh" /\ state # NoState /\ state' = NoState
      /\ state.pin \in Instances /\ ~config.skip
      => ~holds[state.pin]
<1>1. ASSUME IInv, [Next]_vars
      PROVE  Earned
  <2> SUFFICES ASSUME pc = "refresh", state # NoState, state' = NoState,
                      state.pin \in Instances, ~config.skip
               PROVE  ~holds[state.pin]
    OBVIOUS
  <2>1. PICK a \in Answers : Refresh(a)
    BY <1>1 DEF Next, BeginRun, Exchange, Answered, Unreachable, Retry, EndRun, Goto, Fails,
                Configure, ImportState, ReadBack, Repoint, CatalogueMoves, vars
  <2>2. Kind(a) = "ok" => Representation(a) \in ResourceState
    BY <1>1, SuccessIsStamped DEF IInv
  <2>3. DecideRead(a, state.pin) = "remove"
    BY <2>1, <2>2, DecidesOnKind DEF Refresh
  <2>4. a \in Registered(endpoint, state.named) /\ endpoint = state.pin
    BY <1>1, <2>3, RemovalIsStamped DEF IInv
  <2>5. state.named
    BY <1>1 DEF IInv, PinnedIsNamed
  <2>6. a \in {Plain(200, "json", endpoint)} => Kind(a) = "ok"
    BY DEF Plain, Kind
  <2>7. Kind(a) # "ok"
    BY <2>3 DEF DecideRead
  <2> QED
    BY <2>4, <2>5, <2>6, <2>7 DEF Registered
<1> QED
  BY <1>1, PinInvariant, PTL DEF Spec, RemovalIsEarned

----------------------------------------------------------------------------
(* What RunEnds rests on.                                                    *)

\* How many requests a run has still to settle, at most.
Ahead(p) == CASE p = "configure" -> 3 [] p = "import" -> 2
              [] p \in {"refresh", "readBack"} -> 1 [] p = "idle" -> 0

LEMMA AheadIs ==
  /\ Ahead("configure") = 3 /\ Ahead("import") = 2 /\ Ahead("refresh") = 1
  /\ Ahead("readBack") = 1 /\ Ahead("idle") = 0
BY DEF Ahead

\* For every set of instances and whoever answers: an exchange is one of the
\* bounded retries of its request, or brings the run closer to its end.
THEOREM RunsAdvance ==
  Spec => [][Exchange => \/ pc' = pc /\ attempt' = attempt + 1 /\ attempt' <= MaxRetries
                         \/ Ahead(pc') < Ahead(pc)]_vars
<1>1. TypeOK /\ [Next]_vars =>
        [Exchange => \/ pc' = pc /\ attempt' = attempt + 1 /\ attempt' <= MaxRetries
                     \/ Ahead(pc') < Ahead(pc)]_vars
  <2> SUFFICES ASSUME TypeOK, Exchange
               PROVE  \/ pc' = pc /\ attempt' = attempt + 1 /\ attempt' <= MaxRetries
                      \/ Ahead(pc') < Ahead(pc)
    OBVIOUS
  <2>1. CASE Retry
    BY <2>1 DEF Retry, TypeOK
  <2>2. CASE pc # "idle" /\ EndRun
    <3>1. pc \in {"configure", "refresh", "import", "readBack"} /\ pc' = "idle"
      BY <2>2 DEF EndRun, Goto, TypeOK
    <3> QED
      BY <3>1, AheadIs
  <2>3. ASSUME NEW a, Configure(a) \/ Refresh(a) \/ ImportState(a) \/ ReadBack(a)
        PROVE  Ahead(pc') < Ahead(pc)
    <3>1. \/ pc = "configure" /\ pc' \in {"import", "refresh"}
          \/ pc \in {"refresh", "readBack"} /\ pc' = "idle"
          \/ pc = "import" /\ pc' = "readBack"
      BY <2>3 DEF Configure, Refresh, ImportState, ReadBack, Goto
    <3> QED
      BY <3>1, AheadIs
  <2> QED
    BY <2>1, <2>2, <2>3 DEF Exchange, Answered, Unreachable, Fails
<1> QED
  BY <1>1, TypeCorrect, PTL DEF Spec
=============================================================================
