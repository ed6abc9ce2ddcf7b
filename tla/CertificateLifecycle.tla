----------------------- MODULE CertificateLifecycle ------------------------
(***************************************************************************)
(* Terraform workspaces managing the same azureacme_certificate through    *)
(* the provider's Create, Read, Update, Delete and ImportState, against    *)
(* the service of RegistrationService.                                     *)
(*                                                                         *)
(* One action is one HTTP exchange together with what the provider does    *)
(* with its answer before the next exchange.  A request or its response    *)
(* may be lost; client.DoRetrying then sends it again, MaxRetries times.   *)
(* waitForCompletion appears here by its contract (module OperationWait    *)
(* has the loop itself): it ends published with a snapshot that fulfils    *)
(* the target, failed, in error, or timed out.                             *)
(*                                                                         *)
(* The framework is external: a state set on a response reaches Terraform  *)
(* only when the call returns, an error from Create taints what was set,   *)
(* and a Delete that returns no error drops the resource from state.       *)
(***************************************************************************)
EXTENDS RegistrationService

CONSTANTS
  Plans,        \* the plans an apply may carry out
  MaxRetries,   \* client.Config.MaxRetries
  MaxApplies,   \* bound on the applies the workspaces start between them
  NoState       \* the resource is not in this workspace's state

Plan == [spec : CertificateSpec, wait_for : {"published", "accepted"}]

ASSUME BoundsAssumption == MaxRetries \in Nat /\ MaxApplies \in Nat
ASSUME PlansAssumption == Plans \subseteq Plan
ResourceState ==
  [id : Nat, spec : CertificateSpec, revision : Nat, tainted : BOOLEAN,
   shown : BOOLEAN]  \* history: spec is the one id had at revision

ASSUME NoStateAssumption == NoState \notin Plans \cup ResourceState

Step == {"idle", "create", "confirm", "createWait", "update", "updateWait",
         "conflict", "incomplete", "delete", "deleteWait"}

VARIABLES
  state,     \* state[w]: the resource as workspace w's state file has it
  step,      \* step[w]: where the apply in flight is
  plan,      \* plan[w]: what the apply in flight is to bring about
  attempt,   \* attempt[w]: retries of the request in flight so far
  target,    \* target[w]: generation the wait is for
  draft,     \* draft[w]: what Create has set on its response so far
  errored,   \* errored[w]: the last apply ended with an error diagnostic
  applies    \* how many applies have been started

clientVars == <<state, step, plan, attempt, target, draft, errored, applies>>
vars == <<serviceVars, clientVars>>

ClientTypeOK ==
  /\ state \in [Workspaces -> ResourceState \cup {NoState}]
  /\ step \in [Workspaces -> Step]
  /\ plan \in [Workspaces -> Plans \cup {NoState}]
  /\ attempt \in [Workspaces -> 0..MaxRetries]
  /\ target \in [Workspaces -> Nat]
  /\ draft \in [Workspaces -> ResourceState \cup {NoState}]
  /\ errored \in [Workspaces -> BOOLEAN]
  /\ applies \in 0..MaxApplies

TypeOK == ServiceTypeOK /\ ClientTypeOK

Init ==
  /\ ServiceInit
  /\ state = [w \in Workspaces |-> NoState]
  /\ step = [w \in Workspaces |-> "idle"]
  /\ plan = [w \in Workspaces |-> NoState]
  /\ attempt = [w \in Workspaces |-> 0]
  /\ target = [w \in Workspaces |-> 0]
  /\ draft = [w \in Workspaces |-> NoState]
  /\ errored = [w \in Workspaces |-> FALSE]
  /\ applies = 0

----------------------------------------------------------------------------
(* Helpers.                                                                  *)

\* applyComputedFromResponse over a model whose spec half is s.
Computed(reg, s, tainted) ==
  [id |-> reg.id, spec |-> s, revision |-> reg.revision, tainted |-> tainted,
   shown |-> s = reg.spec]

\* applySpecFromResponse and applyComputedFromResponse together.
ServerTruth(reg, tainted) == Computed(reg, reg.spec, tainted)

IsFulfilled(reg, generation) == reg.observed >= generation /\ reg.phase = "ready"

\* The call returns: Terraform stores st, and prints an error if e.  Nobody
\* polls the operation any more.
ReturnTo(w, st, e) ==
  /\ state' = [state EXCEPT ![w] = st]
  /\ step' = [step EXCEPT ![w] = "idle"]
  /\ plan' = [plan EXCEPT ![w] = NoState]
  /\ attempt' = [attempt EXCEPT ![w] = 0]
  /\ target' = [target EXCEPT ![w] = 0]
  /\ draft' = [draft EXCEPT ![w] = NoState]
  /\ errored' = [errored EXCEPT ![w] = e]
  /\ UNCHANGED applies

Succeeds(w, st) == ReturnTo(w, st, FALSE)
Errors(w, st) == ReturnTo(w, st, TRUE)

\* ... a return from a wait, which leaves the stored registration alone.
Forgotten(w) ==
  /\ operations' = [operations EXCEPT ![w] = NoOperation]
  /\ UNCHANGED <<registration, created>>

Begin(w, next, p) ==
  /\ step[w] = "idle"
  /\ applies < MaxApplies
  /\ applies' = applies + 1
  /\ step' = [step EXCEPT ![w] = next]
  /\ plan' = [plan EXCEPT ![w] = p]
  /\ errored' = [errored EXCEPT ![w] = FALSE]
  /\ UNCHANGED <<serviceVars, state, attempt, target, draft>>

\* Mutant: the retry bound is off by one.
RetryOnceMore(w) ==
  \/ /\ attempt[w] <= MaxRetries
     /\ attempt' = [attempt EXCEPT ![w] = @ + 1]
     /\ UNCHANGED <<state, step, plan, target, draft, errored, applies>>
  \/ Errors(w, state[w])

\* Mutant: giving up on a request is not an error.
RetrySilently(w) ==
  \/ /\ attempt[w] < MaxRetries
     /\ attempt' = [attempt EXCEPT ![w] = @ + 1]
     /\ UNCHANGED <<state, step, plan, target, draft, errored, applies>>
  \/ Succeeds(w, state[w])

\* Nothing came back: send the request again, or report it unreachable.
Retry(w) ==
  \/ /\ attempt[w] < MaxRetries
     /\ attempt' = [attempt EXCEPT ![w] = @ + 1]
     /\ UNCHANGED <<state, step, plan, target, draft, errored, applies>>
  \/ Errors(w, state[w])

Proceed(w, next, generation, d) ==
  /\ step' = [step EXCEPT ![w] = next]
  /\ attempt' = [attempt EXCEPT ![w] = 0]
  /\ target' = [target EXCEPT ![w] = generation]
  /\ draft' = [draft EXCEPT ![w] = d]
  /\ UNCHANGED <<state, plan, errored, applies>>

\* There is no operation to poll, or the poll loop has given up on its record:
\* the loop reads the registration instead.
FallsBack(w) == operations[w].state \in {"none", "settled"}

\* waitForCompletion's reading of the registration: the generation is realised.
\* A failed operation is never looked past.
Realised(w) ==
  /\ Live /\ IsFulfilled(registration, target[w])
  /\ operations[w].state # "failed"

\* ... the issuance failed, by the operation's record or the registration's.
OperationFailed(w) ==
  \/ operations[w].state = "failed"
  \/ /\ FallsBack(w) /\ Live
     /\ registration.failing /\ ~IsFulfilled(registration, target[w])

----------------------------------------------------------------------------
(* Create.                                                                   *)

BeginCreate(w) ==
  /\ state[w] = NoState
  /\ \E p \in Plans : Begin(w, "create", p)

\* What is set on the response before any waiting.
Partial(w) == Computed(registration', plan[w].spec, TRUE)

\* A deferral beyond the deadline ends the create before wait_for is looked at.
CreateDeferred(w) == Errors(w, Partial(w))

CreateAccepted(w) ==
  /\ plan[w].wait_for = "accepted"
  /\ Proceed(w, "confirm", 0, Partial(w))

CreateWaits(w) ==
  /\ plan[w].wait_for = "published"
  /\ Proceed(w, "createWait", registration'.generation, Partial(w))

\* Created (202), adopted (200) or refused (409); the answer may be lost.
SendCreate(w) ==
  /\ step[w] = "create"
  /\ \/ PutCreates(w, plan[w].spec, TRUE) /\ CreateWaits(w)
     \/ /\ PutCreates(w, plan[w].spec, FALSE)
        /\ CreateDeferred(w) \/ CreateAccepted(w) \/ Retry(w)
     \/ /\ PutAdopts(plan[w].spec)
        /\ CreateWaits(w) \/ CreateAccepted(w) \/ Retry(w)
     \/ PutExists(plan[w].spec) /\ Errors(w, NoState)

\* wait_for = "accepted": one GET, whose failure leaves the PUT's answer.
Confirm(w) ==
  /\ step[w] = "confirm"
  /\ UNCHANGED serviceVars
  /\ \/ Live /\ Succeeds(w, Computed(registration, plan[w].spec, FALSE))
     \/ Succeeds(w, [draft[w] EXCEPT !.tainted = FALSE])

CreatePublished(w) ==
  /\ step[w] = "createWait"
  /\ Realised(w)
  /\ Forgotten(w)
  /\ Succeeds(w, Computed(registration, plan[w].spec, FALSE))

\* With or without a final GET to show what the service holds now.
CreateFailed(w) ==
  /\ step[w] = "createWait"
  /\ OperationFailed(w)
  /\ Forgotten(w)
  /\ \/ Live /\ Errors(w, Computed(registration, plan[w].spec, TRUE))
     \/ operations[w].state = "failed" /\ Errors(w, draft[w])

\* Mutant: the deadline is only looked at while there is an operation to poll.
CreateWaitsOnRegistration(w) ==
  /\ step[w] = "createWait"
  /\ operations[w].state = "running"
  /\ Forgotten(w)
  /\ Errors(w, draft[w])

\* The deadline passes, or polling itself fails: the partial state stands.
CreateGivesUp(w) ==
  /\ step[w] = "createWait"
  /\ operations[w].state # "failed"
  /\ Forgotten(w)
  /\ Errors(w, draft[w])

----------------------------------------------------------------------------
(* Update.                                                                   *)

\* A plan that changes nothing but wait_for or timeouts sends no request.
BeginUpdate(w) ==
  /\ state[w] # NoState
  /\ ~state[w].tainted
  /\ \E p \in Plans : p.spec # state[w].spec /\ Begin(w, "update", p)

\* 200 ends the update; 202 starts the wait, whatever wait_for says.
SendUpdate(w) ==
  /\ step[w] = "update"
  /\ \/ /\ PutReplaces(w, state[w].revision, plan[w].spec, TRUE)
        /\ registration'.generation # registration.generation
        /\ Proceed(w, "updateWait", registration'.generation, NoState)
     \/ /\ PutReplaces(w, state[w].revision, plan[w].spec, FALSE)
        /\ \/ /\ registration'.generation = registration.generation
              /\ Succeeds(w, Computed(registration', plan[w].spec, FALSE))
           \/ Retry(w)
     \/ PutConflicts(state[w].revision) /\ Proceed(w, "conflict", 0, NoState)
     \/ PutFindsNothing /\ Errors(w, state[w])

UpdatePublished(w) ==
  /\ step[w] = "updateWait"
  /\ Realised(w)
  /\ Forgotten(w)
  /\ Succeeds(w, Computed(registration, plan[w].spec, FALSE))

\* Failed, timed out or in error: all three end in writeServerTruth.
UpdateGivesUp(w) ==
  /\ step[w] = "updateWait"
  /\ Forgotten(w)
  /\ Proceed(w, "incomplete", 0, NoState)

\* writeServerTruth, and the single GET after a 412: both record what the
\* service reports, or leave the prior state when the GET fails.
RecordTruth(w) ==
  /\ step[w] \in {"conflict", "incomplete"}
  /\ UNCHANGED serviceVars
  /\ \/ Live /\ Errors(w, ServerTruth(registration, FALSE))
     \/ Errors(w, state[w])

----------------------------------------------------------------------------
(* Delete.                                                                   *)

BeginDestroy(w) ==
  /\ state[w] # NoState
  /\ Begin(w, "delete", NoState)

\* Mutant: a refused DELETE drops the resource all the same.
SendDeleteForgets(w) ==
  /\ step[w] = "delete"
  /\ \/ DeleteAccepts(state[w].spec.deletion_policy)
        /\ (Proceed(w, "deleteWait", 0, NoState) \/ Retry(w))
     \/ DeleteRefuses(state[w].spec.deletion_policy) /\ Errors(w, NoState)
     \/ DeleteFindsNothing /\ Succeeds(w, NoState)

SendDelete(w) ==
  /\ step[w] = "delete"
  /\ \/ DeleteAccepts(state[w].spec.deletion_policy)
        /\ (Proceed(w, "deleteWait", 0, NoState) \/ Retry(w))
     \/ DeleteRefuses(state[w].spec.deletion_policy) /\ Errors(w, state[w])
     \/ DeleteFindsNothing /\ Succeeds(w, NoState)

\* Success, failure and a polling error alike return without an error; only a
\* timeout whose final GET does not show the registration gone keeps the state.
DeleteEnds(w) ==
  /\ step[w] = "deleteWait"
  /\ UNCHANGED serviceVars
  /\ Succeeds(w, NoState) \/ Errors(w, state[w])

----------------------------------------------------------------------------
(* Read, ImportState and what surrounds the provider.                        *)

Refresh(w) ==
  /\ step[w] = "idle"
  /\ state[w] # NoState
  /\ state' = [state EXCEPT ![w] = IF Live THEN ServerTruth(registration, state[w].tainted)
                                   ELSE NoState]
  /\ UNCHANGED <<serviceVars, step, plan, attempt, target, draft, errored, applies>>

\* The workspace may adopt only what its own principal owns.
ImportState(w) ==
  /\ step[w] = "idle"
  /\ state[w] = NoState
  /\ Live /\ registration.owner = CallerPrincipalID
  /\ Succeeds(w, ServerTruth(registration, FALSE))
  /\ UNCHANGED serviceVars

\* terraform untaint, the documented recovery after a create timeout.
Untaint(w) ==
  /\ step[w] = "idle"
  /\ state[w] # NoState /\ state[w].tainted
  /\ state' = [state EXCEPT ![w].tainted = FALSE]
  /\ UNCHANGED <<serviceVars, step, plan, attempt, target, draft, errored, applies>>

\* The request never reached the service, or was refused: with a retryable
\* error such as 409 destination_access_denied, or for good.
RequestLost(w) ==
  /\ step[w] \in {"create", "update", "delete"}
  /\ UNCHANGED serviceVars
  /\ Retry(w)

\* GET /operations/{id} on the operation being waited for.
Poll(w) ==
  /\ step[w] \in {"createWait", "updateWait"}
  /\ PollOperation(w)
  /\ UNCHANGED clientVars

\* The provider process dies; what it had only set on its response is gone.
Crash(w) ==
  /\ step[w] # "idle"
  /\ Errors(w, state[w])
  /\ Forgotten(w)

----------------------------------------------------------------------------

Exchange(w) ==
  \/ SendCreate(w) \/ Confirm(w) \/ CreatePublished(w) \/ CreateFailed(w) \/ CreateGivesUp(w)
  \/ SendUpdate(w) \/ UpdatePublished(w) \/ UpdateGivesUp(w) \/ RecordTruth(w)
  \/ SendDelete(w) \/ DeleteEnds(w)
  \/ RequestLost(w)

Operator(w) ==
  \/ BeginCreate(w) \/ BeginUpdate(w) \/ BeginDestroy(w)
  \/ Refresh(w) \/ ImportState(w) \/ Untaint(w)

Service == (Publish \/ Remove \/ CreateElsewhere) /\ UNCHANGED clientVars

Next ==
  \/ \E w \in Workspaces : Exchange(w) \/ Operator(w) \/ Poll(w) \/ Crash(w)
  \/ Service

\* Every exchange is bounded by request_timeout and every wait by its deadline,
\* so an apply that can take its next step takes it.
Fairness == \A w \in Workspaces : WF_vars(Exchange(w))

Spec == Init /\ [][Next]_vars /\ Fairness

----------------------------------------------------------------------------
(* Properties.                                                               *)

\* A revision names one spec: a workspace whose state shows revision r of a
\* registration knows what is stored while that registration is at r, and two
\* workspaces shown the same revision were shown the same spec.  This is what
\* lets If-Match (api.go, ETagFor) stand for "what I planned against".
RevisionIdentifiesSpec ==
  \A w \in Workspaces : state[w] # NoState /\ state[w].shown =>
    /\ /\ Live
       /\ state[w].id = registration.id
       /\ state[w].revision = registration.revision
       => state[w].spec = registration.spec
    /\ \A v \in Workspaces :
         /\ state[v] # NoState /\ state[v].shown
         /\ state[v].id = state[w].id
         /\ state[v].revision = state[w].revision
         => state[v].spec = state[w].spec

\* w's If-Match PUT replaced what the service stored.
Overwrites(w) ==
  step[w] = "update" /\ applies' = applies /\ registration' # registration
  /\ (step'[w] # "update" \/ attempt'[w] # attempt[w])

\* An update planned against a state the service showed, of the registration
\* still stored, overwrites exactly the spec it was planned against, whatever
\* the other workspaces, lost responses and retries did in between.
OverwritesOnlyWhatWasShown ==
  \A w \in Workspaces :
    Overwrites(w) /\ state[w].shown /\ state[w].id = registration.id
    => registration.spec = state[w].spec

RefreshedUpdateIsNotLost == [][OverwritesOnlyWhatWasShown]_vars

\* A workspace forgets a certificate only when the registration it recorded is
\* no longer live: no error, lost answer or timeout of Read or Delete, and no
\* failed Create or Update, drops a live one from state.
GoneBeforeForgotten ==
  [][\A w \in Workspaces :
       state[w] # NoState /\ state'[w] = NoState
       => ~(Live' /\ registration'.id = state[w].id)]_vars

\* A live registration no workspace records, and no Create in flight will
\* record, has been reported: some workspace with nothing in state was told its
\* Create failed.  (Id 0 is the registration made elsewhere.)
OrphansAreReported ==
  Live /\ registration.id # 0 /\ registration.owner = CallerPrincipalID =>
    \/ \E w \in Workspaces : state[w] # NoState /\ state[w].id = registration.id
    \/ \E w \in Workspaces : step[w] \in {"create", "confirm", "createWait"}
    \/ \E w \in Workspaces : state[w] = NoState /\ errored[w]

\* w's DELETE took the registration away.
Decommissions(w) ==
  /\ step[w] = "delete" /\ Live /\ ~Live'
  /\ step'[w] # "delete" \/ attempt'[w] # attempt[w]

\* addDeleteError: "a stale `delete` in one workspace's state can no longer
\* override a platform administrator's later change to `retain`": when a destroy
\* that asks for deletion goes through, no workspace whose state the service
\* showed, and which is up to date by its revision, has the registration retained.
RetainedIsNotDeleted ==
  [][\A w, v \in Workspaces :
       /\ Decommissions(w) /\ state[w].spec.deletion_policy = "delete"
       /\ state[v] # NoState /\ state[v].shown
       /\ state[v].id = registration.id /\ state[v].revision = registration.revision
       => state[v].spec.deletion_policy = "delete"]_vars

\* The service's key behaves as ConditionalRegister whatever the workspaces,
\* the operations they poll and the service's own progress do.
Representation == [id : Nat, revision : Nat, spec : CertificateSpec]

ASSUME NoRepresentationAssumption == NoRegistration \notin Representation

AsRecord(reg) ==
  IF reg = NoRegistration THEN NoRegistration
  ELSE [id |-> reg.id, revision |-> reg.revision, spec |-> reg.spec]

Register == INSTANCE ConditionalRegister WITH
  Specs <- CertificateSpec, NoRecord <- NoRegistration, issued <- created,
  record <- AsRecord(registration)

RegisterSpec == Register!Spec

\* Every apply returns to its user: no combination of lost answers, retries,
\* conflicts and other workspaces leaves one running for ever.
EveryApplyReturns ==
  \A w \in Workspaces : step[w] # "idle" ~> step[w] = "idle"

----------------------------------------------------------------------------
(* What the documentation and comments say, and the code does not do.        *)

\* certificate_resource.go:314: "To let this apply succeed now, set
\* wait_for = "accepted"": an accepted create that is answered reports no error.
AcceptedCreateSucceeds ==
  [][\A w \in Workspaces :
       /\ step[w] = "create" /\ step'[w] = "idle"
       /\ plan[w].wait_for = "accepted"
       /\ state'[w] # NoState
       => ~errored'[w]]_vars

\* certificate_resource.go:509: after an update that did not complete, "the next
\* plan then correctly re-proposes the change": what is stored is not the plan.
IncompleteUpdateIsReproposed ==
  [][\A w \in Workspaces :
       step[w] = "incomplete" /\ step'[w] = "idle" => state'[w].spec # plan[w].spec]_vars

\* api.go:69: preconditions make "lost updates structurally impossible": every
\* If-Match write overwrites the spec its workspace's state says is stored.
NoUpdateIsLost ==
  [][\A w \in Workspaces : Overwrites(w) => registration.spec = state[w].spec]_vars

\* certificate_resource.go:625: "delete is idempotent, so a second attempt is
\* safe": a DELETE sent again takes away nothing but what its workspace recorded.
SecondDeleteIsSafe ==
  [][\A w \in Workspaces :
       Decommissions(w) /\ attempt[w] > 0 => registration.id = state[w].id]_vars

\* contracts/models.gen.go:651: "`ready` means `observed_generation ==
\* spec.generation`", whichever operation it was that made the registration ready.
ReadyMeansObserved ==
  Live /\ registration.phase = "ready" => registration.observed = registration.generation
=============================================================================
