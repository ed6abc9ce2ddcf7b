---------------------------- MODULE PinnedRefresh ----------------------------
(***************************************************************************)
(* Terraform runs over one managed certificate, when the endpoint may be   *)
(* answered by one service instance or another, by a sign-in portal, by a  *)
(* proxy, or by nobody: Configure's check of the instance, client.Do's     *)
(* classification of an answer, DoRetrying, DecideRead, and what Read and  *)
(* ImportState do to state.                                                *)
(*                                                                         *)
(* One action is one HTTP exchange with what the provider does before the  *)
(* next one.  Each instance has a catalogue of its own, in which the name  *)
(* of the certificate may be registered or not.                            *)
(***************************************************************************)
EXTENDS Naturals

CONSTANTS
  Instances,   \* service instances, by the id each stamps on its answers
  NoInstance,  \* no service_instance_id, or an empty one
  NoState,     \* the certificate is not in state
  MaxRetries   \* client.Config.MaxRetries

ASSUME NoInstanceAssumption == NoInstance \notin Instances
ASSUME MaxRetriesAssumption == MaxRetries \in Nat

Instance == Instances \cup {NoInstance}

\* named: state's namespace and name are those of the certificate, not empty.
ResourceState == [pin : Instance, named : BOOLEAN]

ASSUME NoStateAssumption == NoState \notin ResourceState

\* expected_service_instance_id and skip_instance_check.
Config == [expected : Instance, skip : BOOLEAN]

VARIABLES
  config,    \* the provider's configuration; never changes
  steady,    \* the endpoint is repointed only between runs; never changes
  holds,     \* holds[i]: the certificate is registered with instance i
  endpoint,  \* the instance behind the endpoint
  state,     \* the resource in Terraform's state, or NoState
  home,      \* history: the instance it was created or imported against
  pc,        \* the request the run makes next
  attempt    \* retries of that request so far

service == <<holds, endpoint>>
given == <<config, steady>>
vars == <<given, service, state, home, pc, attempt>>

TypeOK ==
  /\ config \in Config
  /\ steady \in BOOLEAN
  /\ holds \in [Instances -> BOOLEAN]
  /\ endpoint \in Instances
  /\ state \in ResourceState \cup {NoState}
  /\ home \in Instance
  /\ pc \in {"idle", "configure", "refresh", "import", "readBack"}
  /\ attempt \in 0..MaxRetries

\* The certificate was created by a run that passed its own Configure.
Init ==
  /\ config \in Config
  /\ steady \in BOOLEAN
  /\ holds \in [Instances -> BOOLEAN]
  /\ endpoint \in Instances
  /\ home \in IF config.expected = NoInstance THEN Instances ELSE {config.expected}
  /\ state = [pin |-> home, named |-> TRUE]
  /\ pc = "idle"
  /\ attempt = 0

----------------------------------------------------------------------------
(* Answers.                                                                  *)

\* code is what a parsed problem says; retry_after is whether a delay came with
\* it, in the header or the body.
Answer ==
  [status : 200..599, body : {"json", "html", "broken", "none"},
   code : {"registration_not_found", "registration_deleted", "other"},
   instance : Instance, retryable : BOOLEAN, retry_after : BOOLEAN]

Plain(status, body, instance) ==
  [status |-> status, body |-> body, code |-> "other", instance |-> instance,
   retryable |-> FALSE, retry_after |-> FALSE]

Problem(status, code, instance, retryable, retry_after) ==
  [status |-> status, body |-> "json", code |-> code, instance |-> instance,
   retryable |-> retryable, retry_after |-> retry_after]

\* Refusals and outages an instance reports; a conflict is retryable with a
\* delay or without one.
Troubles(i) ==
  {Problem(s, "other", i, FALSE, FALSE) : s \in {401, 403, 404}} \cup
  {Problem(s, "other", i, TRUE, d) : s \in {409, 429, 503}, d \in BOOLEAN}

\* That the certificate is not there, stamped with the instance that says so.
Absences(i) ==
  {Problem(404, "registration_not_found", i, FALSE, FALSE),
   Problem(410, "registration_deleted", i, FALSE, FALSE)}

\* A sign-in portal or a proxy, a service that does not stamp its 404 among them.
Interposed ==
  {Plain(s, b, NoInstance) : s \in {200, 404, 410, 503}, b \in {"html", "broken", "none"}} \cup
  {Plain(302, "none", NoInstance)} \cup Absences(NoInstance)

\* GET of the certificate from instance i.
Registered(i, named) ==
  IF holds[i] /\ named THEN {Plain(200, "json", i)} ELSE Absences(i)

\* client.Do's classification, the decoding of a 2xx body included.
Kind(a) ==
  CASE a.status \in 300..399 -> "redirect"
    [] a.body = "html" /\ a.status \notin 300..399 -> "content_type"
    [] a.body = "broken" \/ (a.body = "none" /\ a.status >= 400) -> "malformed_body"
    [] a.body = "json" /\ a.status >= 400 -> "problem"
    [] OTHER -> "ok"

\* RetryDecision.  What fails to decode from a 2xx was not an error to it.
RetryDecision(a) ==
  \/ Kind(a) = "problem" /\ a.retryable /\ (a.status = 409 => a.retry_after)
  \/ Kind(a) = "malformed_body" /\ (a.status \in {408, 429} \/ a.status >= 500)

\* Mutant: a 404 without an instance id counts as one of the pinned instance.
DecideReadUnstamped(a, pin) ==
  CASE Kind(a) = "ok" -> "success"
    [] /\ Kind(a) = "problem"
       /\ <<a.status, a.code>> \in {<<404, "registration_not_found">>, <<410, "registration_deleted">>}
       /\ config.skip \/ pin = NoInstance \/ a.instance \in {pin, NoInstance} -> "remove"
    [] OTHER -> "error"

\* The four-part conjunction: a typed 404 or 410 with the code that goes with
\* it, from the pinned instance if one is pinned.
DecideRead(a, pin) ==
  CASE Kind(a) = "ok" -> "success"
    [] /\ Kind(a) = "problem"
       /\ <<a.status, a.code>> \in {<<404, "registration_not_found">>, <<410, "registration_deleted">>}
       /\ config.skip \/ pin = NoInstance \/ a.instance = pin -> "remove"
    [] OTHER -> "error"

\* The representation of a body with nothing in it is the empty registration.
Representation(a) == [pin |-> a.instance, named |-> a.body = "json"]

----------------------------------------------------------------------------
(* Runs.                                                                     *)

Goto(next) == pc' = next /\ attempt' = 0 /\ UNCHANGED <<given, service>>

\* Mutant: the retry bound is off by one.
RetryOnceMore ==
  /\ attempt <= MaxRetries
  /\ attempt' = attempt + 1
  /\ UNCHANGED <<given, service, state, home, pc>>

\* Mutant: the count of retries starts again instead of ending them.
RetryForEver ==
  /\ attempt' = IF attempt < MaxRetries THEN attempt + 1 ELSE 0
  /\ UNCHANGED <<given, service, state, home, pc>>

Retry ==
  /\ attempt < MaxRetries
  /\ attempt' = attempt + 1
  /\ UNCHANGED <<given, service, state, home, pc>>

\* The run ends; terraform stores an imported resource only once it was read back.
EndRun ==
  /\ Goto("idle")
  /\ state' = IF pc = "readBack" THEN NoState ELSE state
  /\ home' = home

\* Mutant: expected_service_instance_id is not looked at.
AcceptsAnyone(a) == Kind(a) = "ok"

\* negotiateCapabilities, the instance check.
Accepts(a) ==
  /\ Kind(a) = "ok"
  /\ config.skip \/ config.expected \in {NoInstance, a.instance}

BeginRun == pc = "idle" /\ Goto("configure") /\ UNCHANGED <<state, home>>

\* GET /v1/capabilities, once per run; the version assertions may end it too.
Configure(a) ==
  /\ pc = "configure"
  /\ Accepts(a)
  /\ Goto(IF state = NoState THEN "import" ELSE "refresh")
  /\ UNCHANGED <<state, home>>

\* A 200 is recorded whichever instance it is from, unless its certificate
\* lacks a required field; every error leaves state as it is.
Refresh(a) ==
  /\ pc = "refresh"
  /\ Goto("idle")
  /\ home' = home
  /\ \/ DecideRead(a, state.pin) = "success" /\ state' = Representation(a)
     \/ DecideRead(a, state.pin) = "remove" /\ state' = NoState

\* Nothing is pinned yet: importing takes over what the endpoint has ...
ImportState(a) ==
  /\ pc = "import"
  /\ DecideRead(a, NoInstance) = "success"
  /\ Goto("readBack")
  /\ state' = Representation(a)
  /\ home' = a.instance

\* ... and Read follows it.
ReadBack(a) ==
  /\ pc = "readBack"
  /\ DecideRead(a, state.pin) = "success"
  /\ Goto("idle")
  /\ state' = Representation(a)
  /\ home' = home

\* What the endpoint may answer to the request in flight.
Answers ==
  Interposed \cup Troubles(endpoint) \cup
  CASE pc = "configure" -> {Plain(200, "json", endpoint)}
    [] pc = "import" -> Registered(endpoint, TRUE)
    [] pc \in {"refresh", "readBack"} -> Registered(endpoint, state.named)

\* An error diagnostic: everything but a removal may come with one.
Fails(a) ==
  /\ ~(pc = "refresh" /\ DecideRead(a, state.pin) = "remove")
  /\ EndRun

\* DoRetrying sends the request again, or hands the answer on: when it is not
\* retryable, when the retries are used up, and when the call is cancelled.
Answered ==
  /\ pc # "idle"
  /\ \E a \in Answers :
       \/ RetryDecision(a) /\ Retry
       \/ Configure(a) \/ Refresh(a) \/ ImportState(a) \/ ReadBack(a)
       \/ Fails(a)

\* A network error, which is always retried.
Unreachable == pc # "idle" /\ (Retry \/ EndRun)

Exchange == Answered \/ Unreachable

\* The endpoint is given to another instance: a changed variable, a re-platformed
\* service, a slot swap.
Repoint ==
  /\ steady => pc = "idle"
  /\ endpoint' \in Instances
  /\ UNCHANGED <<given, holds, state, home, pc, attempt>>

\* Somebody registers the certificate with an instance, or decommissions it.
CatalogueMoves ==
  /\ \E i \in Instances : holds' = [holds EXCEPT ![i] = ~@]
  /\ UNCHANGED <<given, endpoint, state, home, pc, attempt>>

Next == BeginRun \/ Exchange \/ Repoint \/ CatalogueMoves

\* Every exchange is bounded by request_timeout.
Spec == Init /\ [][Next]_vars /\ WF_vars(Exchange)

----------------------------------------------------------------------------
(* Properties.                                                               *)

\* A refresh drops the certificate only when the instance state is pinned to
\* does not hold it: no outage, portal, proxy or other instance, and no retry
\* answered by somebody else than the request before it, removes a live one.
RemovalIsEarned ==
  [][/\ pc = "refresh" /\ state # NoState /\ state' = NoState
     /\ state.pin \in Instances /\ ~config.skip
     => ~holds[state.pin]]_vars

\* With an expected instance, and an endpoint that stays put during a run, state
\* is never pinned to another instance, although Read itself accepts any.
PinHolds ==
  /\ steady /\ ~config.skip /\ config.expected # NoInstance
  /\ state # NoState
  => state.pin \in {config.expected, NoInstance}

\* Every run comes to an end.
RunEnds == pc # "idle" ~> pc = "idle"

\* docs/resources/certificate.md:109, of service_instance_id: "The service
\* instance this registration was created against. A mismatch on refresh is a
\* HARD ERROR and never a removal": a pinned certificate that is removed is gone
\* from the instance it was created against.
RemovalNeedsItsCreator ==
  [][/\ pc = "refresh" /\ state # NoState /\ state' = NoState
     /\ state.pin \in Instances /\ home \in Instances /\ ~config.skip
     => ~holds[home]]_vars

\* certificate_resource_read.go:67, of the pin: "Empty means prior state has none
\* - an import in progress": a refresh decides without a pin for no other reason.
EmptyPinMeansImport ==
  pc = "refresh" /\ state # NoState => state.pin # NoInstance
=============================================================================
