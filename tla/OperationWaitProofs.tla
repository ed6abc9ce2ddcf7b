------------------------ MODULE OperationWaitProofs -------------------------
(***************************************************************************)
(* Proofs about waitForCompletion for every deadline, request time, timer  *)
(* drift and set of Retry-After values.                                    *)
(***************************************************************************)
EXTENDS OperationWait, TLAPS

\* Where the loop is tells how many late requests it can have made: none while
\* it may still poll, at most one after the read that follows a success, two
\* after falling back, and the last one is the third.
LateByPc ==
  /\ pc \in {"poll", "afterSuccess", "afterFailure", "afterDeferral", "afterError"} => late = 0
  /\ pc = "fallback" => late <= 1
  /\ pc \in {"pause", "last"} => late <= 2
  /\ late > 0 => now > Deadline
  /\ late <= 3

\* A verdict is reached exactly when the loop is done.
VerdictByPc == pc = "done" <=> verdict # "waiting"

IInv == TypeOK /\ LateByPc /\ VerdictByPc /\ NeverGivesUpEarly

\* Time is clamped into its range and moves only forward.
LEMMA ClampRange ==
  ASSUME NEW t \in 0..(Deadline + 1), NEW d \in Nat
  PROVE  /\ Clamp(t + d) \in 0..(Deadline + 1)
         /\ t > Deadline => Clamp(t + d) > Deadline
         /\ t >= Deadline => Clamp(t + d) >= Deadline
  BY TimesAssumption DEF Clamp

\* What any request does to the clock, the count of late ones and the service.
LEMMA RequestEffect ==
  ASSUME TypeOK, Requests
  PROVE  /\ now' \in 0..(Deadline + 1)
         /\ now > Deadline => now' > Deadline
         /\ now >= Deadline => now' >= Deadline
         /\ late' \in Nat
         /\ late' = IF now > Deadline THEN late + 1 ELSE late
         /\ UNCHANGED service
<1>1. PICK d \in 0..RequestTime : now' = Clamp(now + d)
  BY DEF Requests
<1>2. d \in Nat /\ now \in 0..(Deadline + 1)
  BY TimesAssumption DEF TypeOK
<1>3. QED
  BY <1>1, <1>2, ClampRange DEF Requests, TypeOK

\* A jittered delay is a natural number.
LEMMA JitterRange ==
  ASSUME NEW d \in Nat \ {0}, NEW j \in Jitter(d)
  PROVE  j \in Nat
  BY Z3 DEF Jitter

LEMMA InitHolds == Init => IInv
  BY TimesAssumption
     DEF Init, IInv, TypeOK, LateByPc, VerdictByPc, NeverGivesUpEarly, WaitRequest, Pc, Verdict

\* Every way a GET of the registration is recorded has a snapshot's type.
LEMMA SnapshotType ==
  ASSUME TypeOK, NEW seen \in Reads
  PROVE  AsSnapshot(seen) \in Registration \cup {NoSnapshot}
  BY DEF TypeOK, Reads, AsSnapshot, IsGone

\* Every step of the loop and of the service preserves the invariant.
LEMMA StepHolds == IInv /\ [Next]_vars => IInv'
<1> SUFFICES ASSUME IInv, [Next]_vars PROVE IInv'
  OBVIOUS
<1> USE DEF IInv, LateByPc, VerdictByPc, NeverGivesUpEarly
<1>1. CASE PollOperation
  <2>1. TypeOK'
    BY <1>1, RequestEffect, RetryAftersAssumption
       DEF PollOperation, TypeOK, service, Goto, Return, Pc, Verdict
  <2>2. (LateByPc /\ VerdictByPc /\ NeverGivesUpEarly)'
    BY <1>1, RequestEffect, TimesAssumption DEF PollOperation, TypeOK, Goto, Return
  <2>3. QED BY <2>1, <2>2
<1>2. CASE PollBreaks
  <2>1. TypeOK'
    BY <1>2, RequestEffect, TimesAssumption DEF PollBreaks, TypeOK, service, Goto, Pc
  <2>2. (LateByPc /\ VerdictByPc /\ NeverGivesUpEarly)'
    BY <1>2, RequestEffect, TimesAssumption DEF PollBreaks, TypeOK, Goto
  <2>3. QED BY <2>1, <2>2
<1>3. CASE ReadAfterSuccess
  <2>1. TypeOK'
    BY <1>3, RequestEffect, SnapshotType
       DEF ReadAfterSuccess, TypeOK, service, Goto, Return, Pc, Verdict
  <2>2. (LateByPc /\ VerdictByPc /\ NeverGivesUpEarly)'
    BY <1>3, RequestEffect DEF ReadAfterSuccess, TypeOK, Goto, Return
  <2>3. QED BY <2>1, <2>2
<1>4. CASE ReadAndEnd
  <2>1. TypeOK'
    BY <1>4, RequestEffect, SnapshotType
       DEF ReadAndEnd, TypeOK, service, Return, Pc, Verdict
  <2>2. (LateByPc /\ VerdictByPc /\ NeverGivesUpEarly)'
    BY <1>4, RequestEffect DEF ReadAndEnd, TypeOK, Return
  <2>3. QED BY <2>1, <2>2
<1>5. CASE ReadInstead
  <2>1. TypeOK'
    BY <1>5, RequestEffect, SnapshotType
       DEF ReadInstead, TypeOK, service, Goto, Return, Pc, Verdict
  <2>2. (LateByPc /\ VerdictByPc /\ NeverGivesUpEarly)'
    BY <1>5, RequestEffect DEF ReadInstead, TypeOK, Goto, Return
  <2>3. QED BY <2>1, <2>2
<1>6. CASE Pause
  <2>1. CASE now >= Deadline
    BY <1>6, <2>1, TimesAssumption DEF Pause, TypeOK, service, Goto, Pc
  <2>2. CASE now < Deadline
    <3>1. PICK d \in Jitter(next), l \in 0..Drift :
            /\ Goto("poll")
            /\ now' = Clamp(l + IF d < Deadline - now THEN now + d ELSE Deadline)
            /\ next' = NextBackoff(next)
            /\ asked' = 0
      BY <1>6, <2>2, TimesAssumption DEF Pause, TypeOK
    <3>2. d \in Nat /\ l \in Nat
      BY TimesAssumption, JitterRange DEF TypeOK
    <3>3. now' \in 0..(Deadline + 1)
      BY <2>2, <3>1, <3>2, TimesAssumption DEF Clamp, TypeOK
    <3>4. next' \in Nat \ {0}
      BY <3>1 DEF NextBackoff
    <3>5. late = 0 /\ late' = late
      BY <1>6, <2>2, TimesAssumption DEF Pause, TypeOK
    <3>6. QED
      BY <1>6, <3>1, <3>3, <3>4, <3>5, TimesAssumption DEF Pause, TypeOK, service, Goto, Pc
  <2>3. QED BY <2>1, <2>2, TimesAssumption DEF TypeOK
<1>7. CASE Cancelled
  BY <1>7 DEF Cancelled, TypeOK, service, Return, Pc, Verdict
<1>8. CASE Expire
  BY <1>8, TimesAssumption DEF Expire, TypeOK, service, Goto, Pc
<1>9. CASE ReadLast
  <2>1. TypeOK'
    BY <1>9, RequestEffect, SnapshotType
       DEF ReadLast, TypeOK, service, Return, Pc, Verdict
  <2>2. (LateByPc /\ VerdictByPc /\ NeverGivesUpEarly)'
    BY <1>9, RequestEffect DEF ReadLast, TypeOK, Return
  <2>3. QED BY <2>1, <2>2
<1>10. CASE Service
  BY <1>10 DEF Service, OperationMoves, RegistrationMoves, TypeOK, loop, OperationState
<1>11. CASE UNCHANGED vars
  BY <1>11 DEF vars, service, loop, TypeOK
<1>12. QED
  BY <1>1, <1>2, <1>3, <1>4, <1>5, <1>6, <1>7, <1>8, <1>9, <1>10, <1>11 DEF Next, Step

\* The inductive invariant holds throughout a wait.
THEOREM WaitInvariant == Spec => []IInv
  BY InitHolds, StepHolds, PTL DEF Spec

\* In particular the clock, the backoff and the snapshot keep their types: no
\* Retry-After, jitter or late timer takes the loop out of them.
THEOREM TypeCorrect == Spec => []TypeOK
<1>1. IInv => TypeOK
  BY DEF IInv
<1>2. QED BY <1>1, WaitInvariant, PTL

\* The wait begins at most three requests after its deadline, whatever the
\* deadline, the requests' duration and the service's Retry-After values.
THEOREM WaitOverrun == Spec => []OverrunIsBounded
<1>1. IInv => OverrunIsBounded
  BY DEF IInv, LateByPc, OverrunIsBounded
<1>2. QED BY <1>1, WaitInvariant, PTL

\* The wait gives up on time alone only when the deadline has come.
THEOREM WaitPatience == Spec => []NeverGivesUpEarly
<1>1. IInv => NeverGivesUpEarly
  BY DEF IInv
<1>2. QED BY <1>1, WaitInvariant, PTL

\* For every deadline, drift and set of Retry-After values: of the ways to report
\* a timeout, one is the deferral's, and the other has just read the registration.
THEOREM WaitLooksLast == Spec => PublishedIsNotTimedOut
<1>1. [Next]_vars =>
        [verdict = "waiting" /\ verdict' = "timedOut" /\ IsFulfilled(registration)
           => pc = "afterDeferral" \/ snapshot' = NoSnapshot]_vars
  <2> SUFFICES ASSUME Next, verdict = "waiting", verdict' = "timedOut", IsFulfilled(registration)
               PROVE  pc = "afterDeferral" \/ snapshot' = NoSnapshot
    BY DEF vars
  <2>1. CASE ReadAndEnd
    BY <2>1 DEF ReadAndEnd, Return
  <2>2. CASE ReadLast
    <3>1. PICK seen \in Reads :
            IF request.terminalIsSuccess /\ IsGone(seen)
            THEN Return("published") /\ UNCHANGED snapshot
            ELSE /\ snapshot' = AsSnapshot(seen)
                 /\ Return(IF IsFulfilled(seen) THEN "published" ELSE "timedOut")
      BY <2>2 DEF ReadLast
    <3>2. snapshot' = AsSnapshot(seen) /\ ~IsFulfilled(seen)
      BY <3>1 DEF Return
    <3>3. seen = NoSnapshot
      BY <3>2 DEF Reads
    <3> QED
      BY <3>2, <3>3 DEF AsSnapshot
  <2>3. CASE PollOperation \/ PollBreaks \/ ReadAfterSuccess \/ ReadInstead
    BY <2>3 DEF PollOperation, PollBreaks, ReadAfterSuccess, ReadInstead, Goto, Return
  <2>4. CASE Pause \/ Cancelled \/ Expire \/ Service
    BY <2>4 DEF Pause, Cancelled, Expire, Service, loop, Goto, Return
  <2> QED
    BY <2>1, <2>2, <2>3, <2>4 DEF Next, Step
<1>2. QED BY <1>1, PTL DEF Spec, PublishedIsNotTimedOut

\* The wait of a decommission turns to the registration only for want of a
\* record, and a lost record stays lost.
RecordInv ==
  request.terminalIsSuccess =>
    /\ pc # "afterSuccess"
    /\ pc = "fallback" => fallback
    /\ fallback => operation = "lost"

LEMMA RecordPreserved == RecordInv /\ [Next]_vars => RecordInv'
<1> SUFFICES ASSUME RecordInv, [Next]_vars, request.terminalIsSuccess
             PROVE  /\ pc' # "afterSuccess"
                    /\ pc' = "fallback" => fallback'
                    /\ fallback' => operation' = "lost"
  BY DEF RecordInv, vars, Next, Step, Service, PollOperation, PollBreaks, ReadAfterSuccess,
         ReadAndEnd, ReadInstead, Pause, Cancelled, Expire, ReadLast, Requests, service
<1> USE DEF RecordInv, Goto, Return, service
<1>1. CASE PollOperation
  BY <1>1 DEF PollOperation, Requests
<1>2. CASE PollBreaks \/ ReadAndEnd \/ ReadAfterSuccess
  BY <1>2 DEF PollBreaks, ReadAndEnd, ReadAfterSuccess, Requests
<1>3. CASE ReadInstead \/ ReadLast
  BY <1>3 DEF ReadInstead, ReadLast, Requests
<1>4. CASE Pause \/ Cancelled \/ Expire
  BY <1>4 DEF Pause, Cancelled, Expire
<1>5. CASE Service
  BY <1>5 DEF Service, OperationMoves, RegistrationMoves, loop
<1>6. CASE UNCHANGED vars
  BY <1>6 DEF vars, loop
<1> QED
  BY <1>1, <1>2, <1>3, <1>4, <1>5, <1>6 DEF Next, Step

\* For every deadline, drift and set of Retry-After values: of the ways to report a
\* decommission as complete, the poll has its success, and the others read the
\* registration for want of a record or of time.
THEOREM DecommissionsAsk == Spec => DecommissionAsksItsOperation
<1>1. Init => RecordInv
  BY DEF Init, RecordInv
<1>2. RecordInv /\ IInv /\ [Next]_vars =>
        [/\ request.terminalIsSuccess /\ verdict = "waiting" /\ verdict' = "published"
         /\ operation # "lost" /\ now < Deadline
         => operation = "succeeded" \/ IsGone(registration)]_vars
  <2> SUFFICES ASSUME RecordInv, IInv, Next, request.terminalIsSuccess, operation # "lost",
                      now < Deadline, verdict = "waiting", verdict' = "published"
               PROVE  operation = "succeeded" \/ IsGone(registration)
    BY DEF vars
  <2>1. ~fallback /\ pc \notin {"fallback", "afterSuccess"}
    BY DEF RecordInv
  <2>2. pc # "last"
    BY TimesAssumption DEF IInv, NeverGivesUpEarly, TypeOK
  <2>3. CASE PollOperation
    BY <2>3 DEF PollOperation, Goto, Return
  <2>4. CASE PollBreaks \/ ReadAndEnd \/ ReadAfterSuccess
    BY <2>1, <2>4 DEF PollBreaks, ReadAndEnd, ReadAfterSuccess, Goto, Return
  <2>5. CASE ReadInstead \/ ReadLast
    BY <2>1, <2>2, <2>5 DEF ReadInstead, ReadLast
  <2>6. CASE Pause \/ Cancelled \/ Expire \/ Service
    BY <2>6 DEF Pause, Cancelled, Expire, Service, loop, Goto, Return
  <2> QED
    BY <2>3, <2>4, <2>5, <2>6 DEF Next, Step
<1>3. QED
  BY <1>1, <1>2, RecordPreserved, WaitInvariant, PTL DEF Spec, DecommissionAsksItsOperation

\* Each step of the wait is a step of the contract or leaves it as it is.
LEMMA StepKeepsContract == IInv /\ [Next]_vars => [Contract!Next]_(Contract!vars)
<1> SUFFICES ASSUME IInv, [Next]_vars PROVE [Contract!Next]_(Contract!vars)
  OBVIOUS
<1> USE DEF Contract!Next, Contract!vars, Contract!Published, Contract!GivesUp,
            Contract!ServiceMoves, service, Realised, Completed
<1>1. CASE PollOperation
  BY <1>1 DEF PollOperation, IInv, VerdictByPc, Requests, Goto, Return, service
<1>2. CASE PollBreaks
  BY <1>2 DEF PollBreaks, Goto
<1>3. CASE ReadAfterSuccess
  <2>1. IsFulfilled(NoSnapshot) = FALSE
    BY NoSnapshotAssumption DEF IsFulfilled
  <2>2. QED
    BY <1>3, <2>1 DEF ReadAfterSuccess, IInv, VerdictByPc, Requests, Goto, Return, Reads, service
<1>4. CASE ReadAndEnd
  <2>1. verdict' \in {"timedOut", "failed", "error"}
    BY <1>4 DEF ReadAndEnd, Return
  <2>2. verdict = "waiting" /\ UNCHANGED service
    BY <1>4 DEF ReadAndEnd, IInv, VerdictByPc, Requests
  <2>3. QED BY <2>1, <2>2
<1>5. CASE ReadInstead
  <2>1. IsFulfilled(NoSnapshot) = FALSE /\ IsGone(NoSnapshot) = FALSE
    BY NoSnapshotAssumption DEF IsFulfilled, IsGone
  <2>2. QED
    BY <1>5, <2>1 DEF ReadInstead, IInv, VerdictByPc, Requests, Goto, Return, Reads, service
<1>6. CASE Pause
  BY <1>6 DEF Pause, Goto
<1>7. CASE Cancelled
  BY <1>7 DEF Cancelled, IInv, VerdictByPc, Return
<1>8. CASE Expire
  BY <1>8 DEF Expire, Goto
<1>9. CASE ReadLast
  <2>1. IsFulfilled(NoSnapshot) = FALSE /\ IsGone(NoSnapshot) = FALSE
    BY NoSnapshotAssumption DEF IsFulfilled, IsGone
  <2>2. QED
    BY <1>9, <2>1 DEF ReadLast, IInv, VerdictByPc, Requests, Return, Reads, service
<1>10. CASE Service
  BY <1>10 DEF Service, loop
<1>11. CASE UNCHANGED vars
  BY <1>11 DEF vars, loop
<1>12. QED
  BY <1>1, <1>2, <1>3, <1>4, <1>5, <1>6, <1>7, <1>8, <1>9, <1>10, <1>11 DEF Next, Step

\* The loop implements the contract: "published" is said only while the service
\* holds what was waited for, and a verdict is never revised.
THEOREM WaitKeepsContract == Spec => ContractSpec
<1>1. Init => Contract!Init
  BY DEF Init, Contract!Init
<1>2. QED
  BY <1>1, StepKeepsContract, WaitInvariant, PTL DEF Spec, ContractSpec, Contract!Spec

----------------------------------------------------------------------------
(* What WaitEnds rests on.                                                   *)

\* How far a turn of the loop has still to go.
Remaining(p) ==
  CASE p = "poll" -> 5
    [] p \in {"afterSuccess", "afterFailure", "afterDeferral", "afterError"} -> 4
    [] p = "fallback" -> 3
    [] p = "pause" -> 2
    [] p = "last" -> 1
    [] p = "done" -> 0

LEMMA RemainingIs ==
  /\ Remaining("poll") = 5 /\ Remaining("fallback") = 3 /\ Remaining("pause") = 2
  /\ Remaining("last") = 1 /\ Remaining("done") = 0
  /\ Remaining("afterSuccess") = 4 /\ Remaining("afterFailure") = 4
  /\ Remaining("afterDeferral") = 4 /\ Remaining("afterError") = 4
BY DEF Remaining

\* A request takes time or none, and its answer leaves the loop further on.
LEMMA TimePasses ==
  ASSUME TypeOK, Requests
  PROVE  now' >= now
<1>1. PICK d \in 0..RequestTime : now' = Clamp(now + d)
  BY DEF Requests
<1>2. d \in Nat /\ now \in 0..(Deadline + 1)
  BY TimesAssumption DEF TypeOK
<1> QED
  BY <1>1, <1>2, TimesAssumption DEF Clamp

\* A sleep takes time, however short Retry-After and what jitter leaves of it.
LEMMA SleepTakesTime ==
  ASSUME TypeOK, Pause, now < Deadline
  PROVE  now' > now
<1>1. PICK d \in Jitter(next), l \in 0..Drift :
             now' = Clamp(l + IF d < Deadline - now THEN now + d ELSE Deadline)
  BY TimesAssumption DEF Pause, TypeOK
<1>2. next \in Nat \ {0} /\ now \in Nat /\ l \in Nat /\ Deadline \in Nat
  BY TimesAssumption DEF TypeOK
<1>3. d \in Nat /\ d >= 1
  <2>1. next - next \div 5 >= 1 /\ next \div 5 \in Nat
    BY <1>2, Z3
  <2> QED
    BY <1>2, <2>1, Z3 DEF Jitter
<1> QED
  BY <1>1, <1>2, <1>3 DEF Clamp

\* For every deadline, drift and set of Retry-After values: each exchange and each
\* sleep of waitForCompletion lets time pass, which is bounded, or is followed by
\* what comes later in the turn.  No order of answers makes the loop spin.
THEOREM WaitAdvances ==
  Spec => [][Step => now' > now \/ (now' >= now /\ Remaining(pc') < Remaining(pc))]_vars
<1>1. TypeOK /\ [Next]_vars =>
        [Step => now' > now \/ (now' >= now /\ Remaining(pc') < Remaining(pc))]_vars
  <2> SUFFICES ASSUME TypeOK, Step
               PROVE  now' > now \/ (now' >= now /\ Remaining(pc') < Remaining(pc))
    OBVIOUS
  <2>1. now \in Int /\ now <= Deadline + 1 /\ Deadline \in Nat
    BY TimesAssumption DEF TypeOK
  <2>2. CASE PollOperation
    <3>1. now' >= now
      BY <2>2, TimePasses DEF PollOperation
    <3>2. pc = "poll" /\ pc' \in {"pause", "afterSuccess", "afterDeferral", "afterFailure",
                                   "fallback", "done"}
      BY <2>2 DEF PollOperation, Goto, Return
    <3> QED
      BY <3>1, <3>2, RemainingIs
  <2>3. CASE PollBreaks
    <3>1. now' >= now
      BY <2>3, TimePasses DEF PollBreaks
    <3> QED
      BY <2>3, <3>1, RemainingIs DEF PollBreaks, Goto
  <2>4. CASE ReadAfterSuccess
    <3>1. now' >= now
      BY <2>4, TimePasses DEF ReadAfterSuccess
    <3>2. pc = "afterSuccess" /\ pc' \in {"done", "fallback"}
      BY <2>4 DEF ReadAfterSuccess, Goto, Return
    <3> QED
      BY <3>1, <3>2, RemainingIs
  <2>5. CASE ReadAndEnd
    <3>1. now' >= now
      BY <2>5, TimePasses DEF ReadAndEnd
    <3>2. pc \in {"afterFailure", "afterDeferral", "afterError"} /\ pc' = "done"
      BY <2>5 DEF ReadAndEnd, Return
    <3> QED
      BY <3>1, <3>2, RemainingIs
  <2>6. CASE ReadInstead
    <3>1. now' >= now
      BY <2>6, TimePasses DEF ReadInstead
    <3>2. pc \in {"fallback", "poll"} /\ pc' \in {"done", "pause"}
      BY <2>6 DEF ReadInstead, Goto, Return
    <3> QED
      BY <3>1, <3>2, RemainingIs
  <2>7. CASE Pause
    <3>1. CASE now >= Deadline
      <4>1. now' = now /\ pc = "pause" /\ pc' = "last"
        BY <2>7, <3>1 DEF Pause, Goto
      <4> QED
        BY <2>1, <4>1, RemainingIs
    <3>2. CASE ~(now >= Deadline)
      BY <2>1, <2>7, <3>2, SleepTakesTime
    <3> QED
      BY <3>1, <3>2
  <2>8. CASE Cancelled \/ Expire
    <3>1. now' = now /\ pc \in {"pause", "poll"} /\ pc' \in {"done", "last"}
      BY <2>8 DEF Cancelled, Expire, Goto, Return
    <3> QED
      BY <2>1, <3>1, RemainingIs
  <2>9. CASE ReadLast
    <3>1. now' >= now
      BY <2>9, TimePasses DEF ReadLast
    <3>2. pc = "last" /\ pc' = "done"
      BY <2>9 DEF ReadLast, Return
    <3> QED
      BY <3>1, <3>2, RemainingIs
  <2> QED
    BY <2>2, <2>3, <2>4, <2>5, <2>6, <2>7, <2>8, <2>9 DEF Step
<1> QED
  BY <1>1, TypeCorrect, PTL DEF Spec
=============================================================================
