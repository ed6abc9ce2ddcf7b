--------------------------- MODULE OperationWait ----------------------------
(***************************************************************************)
(* certificateResource.waitForCompletion: the loop that polls an operation,*)
(* falls back to the registration when the operation's record is gone, and *)
(* ends with the timeout contract, against a service that moves freely.    *)
(*                                                                         *)
(* One action is one request with what the loop does before the next one,  *)
(* or one sleep.  Time is in seconds; a request takes up to RequestTime.   *)
(***************************************************************************)
EXTENDS Integers

CONSTANTS
  Deadline,     \* waitRequest.Deadline, from the start of the wait
  RequestTime,  \* how long one request may take, its transport retries included
  Drift,        \* how late a timer may fire
  RetryAfters,  \* the Retry-After values the service may send with a poll
  Gone,         \* GET answers 404 or 410
  NoSnapshot    \* no registration was read

ASSUME TimesAssumption == Deadline \in Nat /\ RequestTime \in Nat /\ Drift \in Nat
ASSUME RetryAftersAssumption == RetryAfters \subseteq Nat \ {0}

\* terminalIsSuccess: OperationTerminalIsSuccess, set by Delete alone.
WaitRequest == [operation : BOOLEAN, terminalIsSuccess : BOOLEAN]

\* "failed" is any of failed, cancelled, superseded and abandoned; "beyond" is
\* deferred to a start after the deadline; "lost" answers 404 or 410.
OperationState == {"running", "deferred", "beyond", "succeeded", "failed", "lost"}

\* observed: observed_generation has reached the target generation.
Registration == [observed : BOOLEAN, phase : {"issuing", "ready", "failed"}, failing : BOOLEAN]

ASSUME GoneAssumption == Gone \notin Registration
ASSUME NoSnapshotAssumption == NoSnapshot \notin Registration /\ NoSnapshot # Gone

Pc == {"poll", "afterSuccess", "afterFailure", "afterDeferral", "afterError",
       "fallback", "pause", "last", "done"}

Verdict == {"waiting", "published", "timedOut", "failed", "error"}

VARIABLES
  request,       \* what is waited for; never changes
  operation,     \* the service's record of the operation
  registration,  \* the service's record of the registration, or Gone
  now,           \* seconds since the wait began
  pc,            \* the request or sleep the loop makes next
  fallback,      \* fallbackToRegistration
  next,          \* the delay before the next poll, jitter aside
  asked,         \* the Retry-After next was taken from, 0 if it was not
  verdict,       \* waitOutcome, Published / TimedOut / Failed / Err
  snapshot,      \* waitOutcome.Registration
  late           \* history: requests begun after the deadline

service == <<request, operation, registration>>
loop == <<pc, fallback, next, asked, verdict, snapshot>>
vars == <<service, now, loop, late>>

TypeOK ==
  /\ request \in WaitRequest
  /\ operation \in OperationState
  /\ registration \in Registration \cup {Gone}
  /\ now \in 0..(Deadline + 1)
  /\ pc \in Pc
  /\ fallback \in BOOLEAN
  /\ next \in Nat \ {0}
  /\ asked \in Nat
  /\ verdict \in Verdict
  /\ snapshot \in Registration \cup {NoSnapshot}
  /\ late \in Nat

\* Delete waits only for an operation it was given.
Init ==
  /\ request \in {r \in WaitRequest : r.terminalIsSuccess => r.operation}
  /\ operation \in OperationState
  /\ registration \in Registration \cup {Gone}
  /\ now = 0
  /\ pc = "poll"
  /\ fallback = ~request.operation
  /\ next = 2
  /\ asked = 0
  /\ verdict = "waiting"
  /\ snapshot = NoSnapshot
  /\ late = 0

----------------------------------------------------------------------------
(* Helpers.                                                                  *)

IsFulfilled(reg) == reg \in Registration /\ reg.observed /\ reg.phase = "ready"

\* finalReadOrGone found nothing and says the registration is typed-gone.
IsGone(reg) == reg = Gone

NextBackoff(d) == IF d < 5 THEN 5 ELSE IF d < 10 THEN 10 ELSE 30

\* Twenty percent either way.
Jitter(d) == (d - d \div 5)..(d + d \div 5)

\* Bound: every instant past the deadline is one instant.
Clamp(t) == IF t > Deadline THEN Deadline + 1 ELSE t

\* A request begins now and ends within RequestTime.
Requests ==
  /\ \E d \in 0..RequestTime : now' = Clamp(now + d)
  /\ late' = IF now > Deadline THEN late + 1 ELSE late
  /\ UNCHANGED service

Goto(p) == pc' = p /\ UNCHANGED verdict

Return(v) == pc' = "done" /\ verdict' = v

\* A GET of the registration: seen, or failed, which finalRead reports as nil.
Reads == {registration, NoSnapshot}

\* Mutant: a typed-gone answer is recorded as a registration.
AsSnapshotUnchecked(seen) == seen

AsSnapshot(seen) == IF IsGone(seen) THEN NoSnapshot ELSE seen

----------------------------------------------------------------------------
(* The loop.                                                                 *)

\* Mutant: an operation that succeeded counts as published, for any request.
PollOperationTrusting ==
  /\ pc = "poll" /\ now <= Deadline /\ ~fallback
  /\ Requests
  /\ UNCHANGED snapshot
  /\ \/ /\ operation \in {"running", "deferred"}
        /\ Goto("pause")
        /\ UNCHANGED fallback
        /\ \/ UNCHANGED <<next, asked>>
           \/ \E s \in RetryAfters : next' = s /\ asked' = s
     \/ /\ operation = "succeeded"
        /\ Return("published")
        /\ UNCHANGED <<fallback, next, asked>>
     \/ /\ operation \in {"beyond", "failed"}
        /\ Goto(IF operation = "beyond" THEN "afterDeferral" ELSE "afterFailure")
        /\ UNCHANGED <<fallback, next, asked>>
     \/ /\ operation = "lost"
        /\ Goto("fallback")
        /\ fallback' = TRUE
        /\ UNCHANGED <<next, asked>>

\* GET /operations/{id}.  A 200 may carry Retry-After.
PollOperation ==
  /\ pc = "poll" /\ now <= Deadline /\ ~fallback
  /\ Requests
  /\ UNCHANGED snapshot
  /\ \/ /\ \/ operation \in {"running", "deferred"} /\ Goto("pause")
           \/ operation = "succeeded" /\ ~request.terminalIsSuccess /\ Goto("afterSuccess")
        /\ UNCHANGED fallback
        /\ \/ UNCHANGED <<next, asked>>
           \/ \E s \in RetryAfters : next' = s /\ asked' = s
     \/ /\ operation = "succeeded" /\ request.terminalIsSuccess
        /\ Return("published")
        /\ UNCHANGED <<fallback, next, asked>>
     \/ /\ operation \in {"beyond", "failed"}
        /\ Goto(IF operation = "beyond" THEN "afterDeferral" ELSE "afterFailure")
        /\ UNCHANGED <<fallback, next, asked>>
     \/ /\ operation = "lost"
        /\ Goto("fallback")
        /\ fallback' = TRUE
        /\ UNCHANGED <<next, asked>>

\* Mutant: any answer that is no operation counts as a lost record.
PollBreaksToRegistration ==
  /\ pc = "poll" /\ now <= Deadline /\ ~fallback
  /\ Requests
  /\ Goto("fallback")
  /\ fallback' = TRUE
  /\ UNCHANGED <<next, asked, snapshot>>

\* Any other answer: the wait ends in error after one more read.
PollBreaks ==
  /\ pc = "poll" /\ now <= Deadline /\ ~fallback
  /\ Requests
  /\ Goto("afterError")
  /\ UNCHANGED <<fallback, next, asked, snapshot>>

\* Mutant: a read that fails is repeated.
ReadAfterSuccessAgain ==
  /\ pc = "afterSuccess"
  /\ Requests
  /\ UNCHANGED <<next, asked>>
  /\ \E seen \in Reads :
       /\ snapshot' = AsSnapshot(seen)
       /\ IF IsFulfilled(seen) THEN Return("published") /\ UNCHANGED fallback
          ELSE IF seen = NoSnapshot THEN Goto("afterSuccess") /\ UNCHANGED fallback
          ELSE Goto("fallback") /\ fallback' = TRUE

\* The operation succeeded: published if the registration agrees, otherwise
\* keep polling the registration.
ReadAfterSuccess ==
  /\ pc = "afterSuccess"
  /\ Requests
  /\ UNCHANGED <<next, asked>>
  /\ \E seen \in Reads :
       /\ snapshot' = AsSnapshot(seen)
       /\ IF IsFulfilled(seen)
          THEN Return("published") /\ UNCHANGED fallback
          ELSE Goto("fallback") /\ fallback' = TRUE

\* The read that goes with a failure, a deferral or an error changes no verdict.
ReadAndEnd ==
  /\ pc \in {"afterFailure", "afterDeferral", "afterError"}
  /\ Requests
  /\ \E seen \in Reads : snapshot' = AsSnapshot(seen)
  /\ Return(CASE pc = "afterFailure" -> "failed"
              [] pc = "afterDeferral" -> "timedOut"
              [] pc = "afterError" -> "error")
  /\ UNCHANGED <<fallback, next, asked>>

ReadInstead ==
  /\ pc = "fallback" \/ (pc = "poll" /\ now <= Deadline /\ fallback)
  /\ Requests
  /\ UNCHANGED <<fallback, next, asked>>
  /\ \E seen \in Reads :
       IF request.terminalIsSuccess /\ IsGone(seen)
       THEN Return("published") /\ UNCHANGED snapshot
       ELSE /\ snapshot' = AsSnapshot(seen)
            /\ IF IsFulfilled(seen) THEN Return("published")
               ELSE IF seen \in Registration /\ seen.failing THEN Return("failed")
               ELSE Goto("pause")

\* Mutant: with less than the delay left, the loop ends at once.
PauseOrEnd ==
  /\ pc = "pause"
  /\ UNCHANGED <<service, fallback, snapshot, late>>
  /\ \E d \in Jitter(next) :
       IF d > Deadline - now
       THEN Goto("last") /\ UNCHANGED <<now, next, asked>>
       ELSE /\ Goto("poll")
            /\ \E l \in 0..Drift : now' = Clamp(now + d + l)
            /\ next' = NextBackoff(next)
            /\ asked' = 0

\* Sleep for the jittered delay, but no longer than what remains; with nothing
\* left the loop ends.
Pause ==
  /\ pc = "pause"
  /\ UNCHANGED <<service, fallback, snapshot, late>>
  /\ IF now >= Deadline
     THEN Goto("last") /\ UNCHANGED <<now, next, asked>>
     ELSE \E d \in Jitter(next), l \in 0..Drift :
            /\ Goto("poll")
            /\ now' = Clamp(l + IF d < Deadline - now THEN now + d ELSE Deadline)
            /\ next' = NextBackoff(next)
            /\ asked' = 0

\* The call's context is cancelled during the sleep.
Cancelled ==
  /\ pc = "pause" /\ now < Deadline
  /\ Return("error")
  /\ UNCHANGED <<service, now, fallback, next, asked, snapshot, late>>

\* Mutant: the deadline is looked at only while there is an operation to poll.
ExpireWhilePolling ==
  /\ pc = "poll" /\ now > Deadline /\ ~fallback
  /\ Goto("last")
  /\ UNCHANGED <<service, now, fallback, next, asked, snapshot, late>>

\* Mutant: at the deadline the loop reports a timeout without a last look.
ExpireUnread ==
  /\ pc = "poll" /\ now > Deadline
  /\ Return("timedOut")
  /\ UNCHANGED <<service, now, fallback, next, asked, snapshot, late>>

Expire ==
  /\ pc = "poll" /\ now > Deadline
  /\ Goto("last")
  /\ UNCHANGED <<service, now, fallback, next, asked, snapshot, late>>

\* The timeout contract: one final GET of the registration.
ReadLast ==
  /\ pc = "last"
  /\ Requests
  /\ UNCHANGED <<fallback, next, asked>>
  /\ \E seen \in Reads :
       IF request.terminalIsSuccess /\ IsGone(seen)
       THEN Return("published") /\ UNCHANGED snapshot
       ELSE /\ snapshot' = AsSnapshot(seen)
            /\ Return(IF IsFulfilled(seen) THEN "published" ELSE "timedOut")

----------------------------------------------------------------------------

\* The service: a terminal operation only ages out, the registration is
\* whatever issuance and other writers make of it.
OperationMoves ==
  /\ operation' \in IF operation \in {"succeeded", "failed", "lost"}
                    THEN {"lost"} ELSE OperationState
  /\ UNCHANGED registration

RegistrationMoves ==
  /\ registration' \in Registration \cup {Gone}
  /\ UNCHANGED operation

Service ==
  /\ pc # "done"
  /\ OperationMoves \/ RegistrationMoves
  /\ UNCHANGED <<request, now, loop, late>>

Step ==
  \/ PollOperation \/ PollBreaks \/ ReadAfterSuccess \/ ReadAndEnd \/ ReadInstead
  \/ Pause \/ Cancelled \/ Expire \/ ReadLast

Next == Step \/ Service

\* Every request is bounded by its timeout and every sleep by its timer.
Spec == Init /\ [][Next]_vars /\ WF_vars(Step)

----------------------------------------------------------------------------
(* Properties.                                                               *)

\* The wait keeps the contract its callers rely on: whatever path ends it, it
\* says published only while the service holds what was waited for.
Realised(s) == IsFulfilled(s[3])
Completed(s) == s[1].terminalIsSuccess /\ (s[2] = "succeeded" \/ IsGone(s[3]))

Contract == INSTANCE WaitContract

ContractSpec == Contract!Spec

\* However requests, retries and sleeps fall, the wait begins at most three
\* requests after its deadline: timeouts.create means what it says.
OverrunIsBounded == late <= 3

\* The wait gives up on time alone only when the deadline has come: a short
\* remainder is slept out, and polled once more.
NeverGivesUpEarly == pc = "last" => now >= Deadline

\* What is published by the time of the timeout is not reported as timed out,
\* however late it came and whatever was read before: only a wait that is told of
\* a start after its deadline (see TimeoutMeansUnpublished), or whose last read
\* fails, says so.
PublishedIsNotTimedOut ==
  [][verdict = "waiting" /\ verdict' = "timedOut" /\ IsFulfilled(registration)
       => pc = "afterDeferral" \/ snapshot' = NoSnapshot]_vars

\* While a decommission's operation can be asked, nothing but its success or a
\* registration that is gone completes it: one that reads as ready is taken for
\* its completion only without a record, or at the deadline (see
\* DecommissionIsTerminal).
DecommissionAsksItsOperation ==
  [][/\ request.terminalIsSuccess /\ verdict = "waiting" /\ verdict' = "published"
     /\ operation # "lost" /\ now < Deadline
     => operation = "succeeded" \/ IsGone(registration)]_vars

\* Every wait ends, whatever the service does: an operation that runs for ever,
\* a lost record and a registration that never publishes included.
WaitEnds == <>(pc = "done")

\* certificate_resource_wait.go:52: "on timeout, perform one final GET of the
\* REGISTRATION and return SUCCESS if the certificate published".
TimeoutMeansUnpublished == verdict = "timedOut" => ~IsFulfilled(snapshot)

\* certificate_resource_wait.go:22: for a DELETE the predicate is "the operation
\* reached a terminal success", as there is no registration left to fulfil.
DecommissionIsTerminal ==
  [][request.terminalIsSuccess /\ verdict = "waiting" /\ verdict' = "published"
     => operation = "succeeded" \/ IsGone(registration)]_vars

\* certificate_resource_wait.go:171: "Never poll faster than Retry-After even
\* when the user's timeout is short".
RetryAfterIsRespected ==
  [][pc = "pause" /\ pc' = "poll" => now' - now >= asked]_vars
=============================================================================
