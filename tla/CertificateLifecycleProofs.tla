--------------------- MODULE CertificateLifecycleProofs ---------------------
(***************************************************************************)
(* Proofs about the certificate's life cycle for any number of workspaces, *)
(* plans, retries and applies.                                             *)
(***************************************************************************)
EXTENDS CertificateLifecycle, TLAPS

\* An apply that has a plan to carry out has one, a create that has been answered
\* has set its partial state, and an update or a delete has a state to start from.
StepOK ==
  \A w \in Workspaces :
    /\ step[w] \notin {"idle", "delete", "deleteWait"} => plan[w] \in Plans
    /\ step[w] \in {"confirm", "createWait"} => draft[w] # NoState
    /\ step[w] \in {"update", "delete"} => state[w] # NoState

----------------------------------------------------------------------------
(* Types.                                                                    *)

\* What applyComputedFromResponse builds is a resource state.
LEMMA ComputedType ==
  ASSUME NEW reg \in Registration, NEW s \in CertificateSpec, NEW b \in BOOLEAN
  PROVE  Computed(reg, s, b) \in ResourceState
  BY DEF Computed, ResourceState, Registration

LEMMA PlanType ==
  ASSUME NEW p \in Plans
  PROVE  p.spec \in CertificateSpec
  BY PlansAssumption DEF Plan

\* A return to Terraform keeps the client's types.
LEMMA ReturnType ==
  ASSUME ClientTypeOK, StepOK, NEW w \in Workspaces,
         NEW st \in ResourceState \cup {NoState}, NEW e \in BOOLEAN, ReturnTo(w, st, e)
  PROVE  ClientTypeOK' /\ StepOK'
<1>1. ClientTypeOK'
  BY BoundsAssumption DEF ClientTypeOK, ReturnTo, Step
<1>2. StepOK'
  BY DEF ClientTypeOK, StepOK, ReturnTo
<1>3. QED BY <1>1, <1>2

\* So does a move to the next exchange of the same apply.
LEMMA ProceedType ==
  ASSUME ClientTypeOK, StepOK, NEW w \in Workspaces, NEW next \in Step \ {"update", "delete"}, NEW g \in Nat,
         NEW d \in ResourceState \cup {NoState}, Proceed(w, next, g, d),
         next \in {"confirm", "createWait"} => d # NoState,
         next \in {"idle", "delete", "deleteWait"} \/ plan[w] \in Plans
  PROVE  ClientTypeOK' /\ StepOK'
<1>1. ClientTypeOK'
  BY BoundsAssumption DEF ClientTypeOK, Proceed
<1>2. StepOK'
  BY DEF ClientTypeOK, StepOK, Proceed
<1>3. QED BY <1>1, <1>2

LEMMA BeginType ==
  ASSUME ClientTypeOK, StepOK, NEW w \in Workspaces, NEW next \in {"create", "update", "delete"},
         NEW p \in Plans \cup {NoState}, Begin(w, next, p),
         next = "delete" \/ p \in Plans, next # "create" => state[w] # NoState
  PROVE  ClientTypeOK' /\ StepOK'
<1>1. ClientTypeOK'
  BY BoundsAssumption DEF ClientTypeOK, Begin, Step
<1>2. StepOK'
  BY DEF ClientTypeOK, StepOK, Begin
<1>3. QED BY <1>1, <1>2

\* So does a request that gets no answer.
LEMMA RetryType ==
  ASSUME ClientTypeOK, StepOK, NEW w \in Workspaces, Retry(w)
  PROVE  ClientTypeOK' /\ StepOK'
<1>1. CASE Errors(w, state[w])
  BY <1>1, ReturnType DEF Errors, ClientTypeOK
<1>2. CASE /\ attempt[w] < MaxRetries
           /\ attempt' = [attempt EXCEPT ![w] = @ + 1]
           /\ UNCHANGED <<state, step, plan, target, draft, errored, applies>>
  <2>1. attempt' \in [Workspaces -> 0..MaxRetries]
    BY <1>2, BoundsAssumption DEF ClientTypeOK
  <2>2. QED BY <1>2, <2>1 DEF ClientTypeOK, StepOK
<1>3. QED BY <1>1, <1>2 DEF Retry

\* The service's handlers keep its types.
LEMMA StartType ==
  ASSUME ServiceTypeOK, NEW w \in Workspaces, NEW reg \in Registration,
         NEW b \in BOOLEAN,
         StartOperation(w, reg, b)
  PROVE  registration' \in Registration /\ operations' \in [Workspaces -> Operation]
  BY DEF ServiceTypeOK, StartOperation, Registration, Operation, OperationState

LEMMA PutCreatesType ==
  ASSUME ServiceTypeOK, NEW w \in Workspaces, NEW s \in CertificateSpec,
         NEW b \in BOOLEAN,
         PutCreates(w, s, b)
  PROVE  ServiceTypeOK' /\ Live' /\ registration' \in Registration
<1> DEFINE fresh == [id |-> created + 1, owner |-> CallerPrincipalID, spec |-> s,
                     revision |-> 1, generation |-> 1, observed |-> 0,
                     phase |-> "issuing", failing |-> FALSE]
<1>1. fresh \in Registration
  BY PrincipalsAssumption DEF ServiceTypeOK, Registration
<1>2. StartOperation(w, fresh, b) /\ created' = created + 1
  BY DEF PutCreates
<1>3. registration' \in Registration /\ operations' \in [Workspaces -> Operation]
  BY <1>1, <1>2, StartType
<1>4. QED
  BY <1>2, <1>3, NoRegistrationAssumption DEF ServiceTypeOK, Live

\* Writing a spec, a revision or a generation into a registration.
LEMMA WrittenType ==
  ASSUME NEW reg \in Registration, NEW s \in CertificateSpec, NEW n \in Nat
  PROVE  /\ [reg EXCEPT !.spec = s, !.revision = n] \in Registration
         /\ [reg EXCEPT !.generation = n] \in Registration
  BY DEF Registration

LEMMA PutReplacesType ==
  ASSUME ServiceTypeOK, NEW w \in Workspaces, NEW r, NEW s \in CertificateSpec,
         NEW b \in BOOLEAN,
         PutReplaces(w, r, s, b)
  PROVE  ServiceTypeOK' /\ Live' /\ registration' \in Registration
<1> DEFINE written == [registration EXCEPT !.spec = s, !.revision = @ + 1]
<1>1. registration \in Registration
  BY DEF ServiceTypeOK, PutReplaces, Live
<1>2. written \in Registration /\ [written EXCEPT !.generation = @ + 1] \in Registration
  <2>1. registration.revision + 1 \in Nat /\ registration.generation + 1 \in Nat
    BY <1>1 DEF Registration
  <2>2. written \in Registration
    BY <1>1, <2>1, WrittenType
  <2> HIDE DEF written
  <2>3. written.generation + 1 \in Nat
    BY <2>2 DEF Registration
  <2>4. QED BY <2>2, <2>3, WrittenType
<1>3. CASE s.issuance = registration.spec.issuance
  BY <1>2, <1>3, NoRegistrationAssumption DEF PutReplaces, ServiceTypeOK, Live
<1>4. CASE s.issuance # registration.spec.issuance
  <2>1. StartOperation(w, [written EXCEPT !.generation = @ + 1], b)
    BY <1>4 DEF PutReplaces
  <2>2. registration' \in Registration /\ operations' \in [Workspaces -> Operation]
    BY <1>2, <2>1, StartType
  <2>3. QED
    BY <2>2, NoRegistrationAssumption DEF PutReplaces, ServiceTypeOK, Live
<1>5. QED BY <1>3, <1>4

\* maybeFulfilLocked touches nothing of what the client conditions its writes on.
LEMMA FulfilledKeeps ==
  ASSUME NEW reg \in Registration, NEW n \in Nat
  PROVE  /\ Fulfilled(reg, n) \in Registration
         /\ Fulfilled(reg, n).id = reg.id
         /\ Fulfilled(reg, n).owner = reg.owner
         /\ Fulfilled(reg, n).revision = reg.revision
         /\ Fulfilled(reg, n).spec = reg.spec
  BY NoRegistrationAssumption DEF Fulfilled, Registration

LEMMA PollType ==
  ASSUME ServiceTypeOK, NEW w \in Workspaces, PollOperation(w)
  PROVE  ServiceTypeOK'
<1>1. operations[w] \in Operation /\ operations[w].target \in Nat
  BY DEF ServiceTypeOK, Operation
<1>2. ASSUME NEW reg \in Registration \cup {NoRegistration}
      PROVE  Fulfilled(reg, operations[w].target) \in Registration \cup {NoRegistration}
  BY <1>1, FulfilledKeeps DEF Fulfilled
<1>3. operations' \in [Workspaces -> Operation]
  BY <1>1 DEF PollOperation, PollSettles, PollFails, PollRuns, ServiceTypeOK, Operation, OperationState
<1>4. registration' \in Registration \cup {NoRegistration}
  <2>1. CASE PollSettles(w)
    BY <1>2, <2>1 DEF PollSettles, ServiceTypeOK
  <2>2. CASE PollFails(w)
    BY <2>2 DEF PollFails, ServiceTypeOK, Registration, Live
  <2>3. CASE PollRuns(w)
    <3> DEFINE synced == IF Live THEN [registration EXCEPT !.failing = FALSE] ELSE registration
    <3>1. synced \in Registration \cup {NoRegistration}
      BY DEF ServiceTypeOK, Registration, Live
    <3>2. registration' \in {registration, synced, Fulfilled(synced, operations[w].target)}
      BY <2>3 DEF PollRuns
    <3> HIDE DEF synced
    <3>3. QED BY <1>2, <3>1, <3>2 DEF ServiceTypeOK
  <2>4. QED BY <2>1, <2>2, <2>3 DEF PollOperation
<1>5. QED BY <1>3, <1>4 DEF PollOperation, ServiceTypeOK

\* Forgetting an operation keeps the service's types.
LEMMA ForgottenType ==
  ASSUME ServiceTypeOK, NEW w \in Workspaces, Forgotten(w)
  PROVE  ServiceTypeOK'
  BY DEF ServiceTypeOK, Forgotten, NoOperation, Operation, OperationState

\* Nobody else's exchange matters to the types: one lemma per operation.
LEMMA CreateTypes ==
  ASSUME TypeOK, StepOK, NEW w \in Workspaces,
         BeginCreate(w) \/ SendCreate(w) \/ Confirm(w)
         \/ CreatePublished(w) \/ CreateFailed(w) \/ CreateGivesUp(w)
  PROVE  TypeOK' /\ StepOK'
<1> USE DEF TypeOK
<1>1. CASE BeginCreate(w)
  <2>1. PICK p \in Plans : Begin(w, "create", p)
    BY <1>1 DEF BeginCreate
  <2>2. ServiceTypeOK'
    BY <2>1 DEF Begin, ServiceTypeOK, serviceVars
  <2>3. QED BY <2>1, <2>2, BeginType
<1>2. CASE SendCreate(w)
  <2>1. plan[w] \in Plans /\ plan[w].spec \in CertificateSpec
    BY <1>2, PlanType DEF SendCreate, StepOK
  <2>2. ASSUME ServiceTypeOK', Live', CreateWaits(w) \/ CreateDeferred(w) \/ CreateAccepted(w) \/ Retry(w)
        PROVE  ClientTypeOK' /\ StepOK'
    <3>1. registration' \in Registration /\ registration'.generation \in Nat
      BY <2>2 DEF ServiceTypeOK, Live, Registration
    <3>2. Partial(w) \in ResourceState /\ Partial(w) # NoState
      BY <2>1, <3>1, ComputedType, NoStateAssumption DEF Partial
    <3>3. CASE CreateWaits(w)
      BY <2>1, <3>1, <3>2, <3>3, ProceedType DEF CreateWaits, Step
    <3>4. CASE CreateDeferred(w) \/ CreateAccepted(w)
      BY <2>1, <3>2, <3>4, ProceedType, ReturnType DEF CreateDeferred, CreateAccepted, Errors, Step
    <3>5. CASE Retry(w)
      BY <3>5, RetryType
    <3>6. QED BY <2>2, <3>3, <3>4, <3>5
  <2>3. CASE \E b \in BOOLEAN :
               /\ PutCreates(w, plan[w].spec, b)
               /\ CreateWaits(w) \/ CreateDeferred(w) \/ CreateAccepted(w) \/ Retry(w)
    BY <2>1, <2>2, <2>3, PutCreatesType
  <2>4. CASE /\ PutAdopts(plan[w].spec)
             /\ CreateWaits(w) \/ CreateAccepted(w) \/ Retry(w)
    <3>1. ServiceTypeOK' /\ Live'
      BY <2>4 DEF PutAdopts, serviceVars, ServiceTypeOK, Live
    <3>2. QED BY <2>2, <2>4, <3>1
  <2>5. CASE PutExists(plan[w].spec) /\ Errors(w, NoState)
    <3>1. ServiceTypeOK'
      BY <2>5 DEF PutExists, serviceVars, ServiceTypeOK
    <3>2. QED BY <2>5, <3>1, ReturnType DEF Errors
  <2>6. QED BY <1>2, <2>3, <2>4, <2>5 DEF SendCreate
<1>3. CASE Confirm(w)
  <2>1. plan[w].spec \in CertificateSpec /\ draft[w] \in ResourceState
    BY <1>3, PlanType DEF Confirm, StepOK, ClientTypeOK
  <2>2. ServiceTypeOK'
    BY <1>3 DEF Confirm, serviceVars, ServiceTypeOK
  <2>3. [draft[w] EXCEPT !.tainted = FALSE] \in ResourceState
    BY <2>1 DEF ResourceState
  <2>4. CASE Live /\ Succeeds(w, Computed(registration, plan[w].spec, FALSE))
    BY <2>1, <2>2, <2>4, ComputedType, ReturnType DEF Succeeds, ServiceTypeOK, Live
  <2>5. CASE Succeeds(w, [draft[w] EXCEPT !.tainted = FALSE])
    BY <2>2, <2>3, <2>5, ReturnType DEF Succeeds
  <2>6. QED BY <1>3, <2>4, <2>5 DEF Confirm
<1>4. CASE CreatePublished(w)
  <2>1. plan[w].spec \in CertificateSpec
    BY <1>4, PlanType DEF CreatePublished, StepOK
  <2>2. Computed(registration, plan[w].spec, FALSE) \in ResourceState
    BY <1>4, <2>1, ComputedType DEF CreatePublished, Realised, Live, ServiceTypeOK
  <2>3. QED
    BY <1>4, <2>2, ReturnType, ForgottenType DEF CreatePublished, Succeeds
<1>5. CASE CreateFailed(w)
  <2>1. plan[w].spec \in CertificateSpec /\ draft[w] \in ResourceState
    BY <1>5, PlanType DEF CreateFailed, StepOK, ClientTypeOK
  <2>2. Live => Computed(registration, plan[w].spec, TRUE) \in ResourceState
    BY <2>1, ComputedType DEF Live, ServiceTypeOK
  <2>3. QED
    BY <1>5, <2>1, <2>2, ReturnType, ForgottenType DEF CreateFailed, Errors
<1>6. CASE CreateGivesUp(w)
  BY <1>6, ReturnType, ForgottenType DEF CreateGivesUp, Errors, ClientTypeOK
<1>7. QED BY <1>1, <1>2, <1>3, <1>4, <1>5, <1>6

LEMMA UpdateTypes ==
  ASSUME TypeOK, StepOK, NEW w \in Workspaces,
         BeginUpdate(w) \/ SendUpdate(w) \/ UpdatePublished(w)
         \/ UpdateGivesUp(w) \/ RecordTruth(w)
  PROVE  TypeOK' /\ StepOK'
<1> USE DEF TypeOK
<1>1. CASE BeginUpdate(w)
  <2>1. PICK p \in Plans : Begin(w, "update", p)
    BY <1>1 DEF BeginUpdate
  <2>2. ServiceTypeOK'
    BY <2>1 DEF Begin, ServiceTypeOK, serviceVars
  <2>3. QED BY <1>1, <2>1, <2>2, BeginType DEF BeginUpdate
<1>2. CASE SendUpdate(w)
  <2>1. plan[w] \in Plans /\ plan[w].spec \in CertificateSpec
    BY <1>2, PlanType DEF SendUpdate, StepOK
  <2>2. CASE \E b \in BOOLEAN :
               /\ PutReplaces(w, state[w].revision, plan[w].spec, b)
               /\ \/ Proceed(w, "updateWait", registration'.generation, NoState)
                  \/ Succeeds(w, Computed(registration', plan[w].spec, FALSE))
                  \/ Retry(w)
    <3>1. ServiceTypeOK' /\ registration' \in Registration
      BY <2>1, <2>2, PutReplacesType
    <3>2. registration'.generation \in Nat
          /\ Computed(registration', plan[w].spec, FALSE) \in ResourceState
      BY <2>1, <3>1, ComputedType DEF Registration
    <3>3. ClientTypeOK' /\ StepOK'
      BY <2>1, <2>2, <3>2, ProceedType, ReturnType, RetryType DEF Succeeds, Step
    <3>4. QED BY <3>1, <3>3
  <2>3. CASE PutConflicts(state[w].revision) /\ Proceed(w, "conflict", 0, NoState)
    <3>1. ServiceTypeOK'
      BY <2>3 DEF PutConflicts, serviceVars, ServiceTypeOK
    <3>2. QED BY <2>1, <2>3, <3>1, ProceedType DEF Step
  <2>4. CASE PutFindsNothing /\ Errors(w, state[w])
    <3>1. ServiceTypeOK'
      BY <2>4 DEF PutFindsNothing, serviceVars, ServiceTypeOK
    <3>2. QED BY <2>4, <3>1, ReturnType DEF Errors, ClientTypeOK
  <2>5. QED BY <1>2, <2>2, <2>3, <2>4 DEF SendUpdate
<1>3. CASE UpdatePublished(w)
  <2>1. plan[w].spec \in CertificateSpec
    BY <1>3, PlanType DEF UpdatePublished, StepOK
  <2>2. Computed(registration, plan[w].spec, FALSE) \in ResourceState
    BY <1>3, <2>1, ComputedType DEF UpdatePublished, Realised, Live, ServiceTypeOK
  <2>3. QED
    BY <1>3, <2>2, ReturnType, ForgottenType DEF UpdatePublished, Succeeds
<1>4. CASE UpdateGivesUp(w)
  <2>1. plan[w] \in Plans
    BY <1>4 DEF UpdateGivesUp, StepOK
  <2>2. QED
    BY <1>4, <2>1, ProceedType, ForgottenType DEF UpdateGivesUp, Step
<1>5. CASE RecordTruth(w)
  <2>1. ServiceTypeOK'
    BY <1>5 DEF RecordTruth, serviceVars, ServiceTypeOK
  <2>2. Live => ServerTruth(registration, FALSE) \in ResourceState
    BY ComputedType DEF ServerTruth, Live, ServiceTypeOK, Registration
  <2>3. QED
    BY <1>5, <2>1, <2>2, ReturnType DEF RecordTruth, Errors, ClientTypeOK
<1>6. QED BY <1>1, <1>2, <1>3, <1>4, <1>5

LEMMA DeleteTypes ==
  ASSUME TypeOK, StepOK, NEW w \in Workspaces,
         BeginDestroy(w) \/ SendDelete(w) \/ DeleteEnds(w)
  PROVE  TypeOK' /\ StepOK'
<1> USE DEF TypeOK
<1>1. CASE BeginDestroy(w)
  BY <1>1, BeginType DEF BeginDestroy, Begin, ServiceTypeOK, serviceVars
<1>2. CASE SendDelete(w)
  <2>1. ServiceTypeOK'
    BY <1>2 DEF SendDelete, DeleteAccepts, DeleteRefuses, DeleteFindsNothing, serviceVars, ServiceTypeOK
  <2>2. ASSUME Proceed(w, "deleteWait", 0, NoState) PROVE ClientTypeOK' /\ StepOK'
    BY <2>2, ProceedType DEF Step
  <2>3. QED
    BY <1>2, <2>1, <2>2, RetryType, ReturnType DEF SendDelete, Succeeds, Errors, ClientTypeOK
<1>3. CASE DeleteEnds(w)
  <2>1. ServiceTypeOK'
    BY <1>3 DEF DeleteEnds, serviceVars, ServiceTypeOK
  <2>2. QED BY <1>3, <2>1, ReturnType DEF DeleteEnds, Succeeds, Errors, ClientTypeOK
<1>4. QED BY <1>1, <1>2, <1>3

LEMMA SurroundingTypes ==
  ASSUME TypeOK, StepOK, NEW w \in Workspaces,
         Refresh(w) \/ ImportState(w) \/ Untaint(w) \/ RequestLost(w) \/ Poll(w) \/ Crash(w)
  PROVE  TypeOK' /\ StepOK'
<1> USE DEF TypeOK
<1>1. Live => registration \in Registration /\ registration.spec \in CertificateSpec
  BY DEF Live, ServiceTypeOK, Registration
<1>2. CASE Refresh(w)
  <2>1. state[w] \in ResourceState /\ state[w].tainted \in BOOLEAN
    BY <1>2 DEF Refresh, ClientTypeOK, ResourceState
  <2>2. Live => ServerTruth(registration, state[w].tainted) \in ResourceState
    BY <1>1, <2>1, ComputedType DEF ServerTruth
  <2>3. QED
    BY <1>2, <2>2 DEF Refresh, ClientTypeOK, ServiceTypeOK, serviceVars, StepOK
<1>3. CASE ImportState(w)
  <2>1. ServerTruth(registration, FALSE) \in ResourceState
    BY <1>1, <1>3, ComputedType DEF ImportState, ServerTruth
  <2>2. ServiceTypeOK'
    BY <1>3 DEF ImportState, serviceVars, ServiceTypeOK
  <2>3. QED BY <1>3, <2>1, <2>2, ReturnType DEF ImportState, Succeeds
<1>4. CASE Untaint(w)
  <2>1. [state[w] EXCEPT !.tainted = FALSE] \in ResourceState
    BY <1>4 DEF Untaint, ClientTypeOK, ResourceState
  <2>2. QED
    BY <1>4, <2>1 DEF Untaint, ClientTypeOK, ServiceTypeOK, serviceVars, StepOK
<1>5. CASE RequestLost(w)
  BY <1>5, RetryType DEF RequestLost, serviceVars, ServiceTypeOK
<1>6. CASE Poll(w)
  BY <1>6, PollType DEF Poll, clientVars, ClientTypeOK, StepOK
<1>7. CASE Crash(w)
  BY <1>7, ReturnType, ForgottenType DEF Crash, Errors, ClientTypeOK
<1>8. QED BY <1>2, <1>3, <1>4, <1>5, <1>6, <1>7

LEMMA ServiceTypes ==
  ASSUME TypeOK, StepOK, Service
  PROVE  TypeOK' /\ StepOK'
<1>1. ClientTypeOK' /\ StepOK'
  BY DEF TypeOK, Service, clientVars, ClientTypeOK, StepOK
<1>2. CASE Publish
  BY <1>1, <1>2, FulfilledKeeps DEF Publish, TypeOK, ServiceTypeOK, Live, Registration
<1>3. CASE Remove
  BY <1>1, <1>3 DEF Remove, TypeOK, ServiceTypeOK
<1>4. CASE CreateElsewhere
  <2>1. PICK p \in Principals, s \in CertificateSpec : registration' = Seeded(created + 1, p, s)
    BY <1>4 DEF CreateElsewhere
  <2>2. registration' \in Registration
    BY <2>1 DEF Seeded, Registration, TypeOK, ServiceTypeOK
  <2>3. QED
    BY <1>1, <1>4, <2>2 DEF CreateElsewhere, TypeOK, ServiceTypeOK
<1>5. QED BY <1>2, <1>3, <1>4 DEF Service

LEMMA InitTypes == Init => TypeOK /\ StepOK
<1> SUFFICES ASSUME Init PROVE TypeOK /\ StepOK
  OBVIOUS
<1>1. ASSUME NEW p \in Principals, NEW s \in CertificateSpec
      PROVE  Seeded(0, p, s) \in Registration
  BY DEF Seeded, Registration
<1>2. ServiceTypeOK
  BY <1>1 DEF Init, ServiceInit, ServiceTypeOK, NoOperation, Operation, OperationState
<1>3. ClientTypeOK /\ StepOK
  BY BoundsAssumption DEF Init, ClientTypeOK, StepOK, Step
<1>4. QED BY <1>2, <1>3 DEF TypeOK

LEMMA NextTypes == TypeOK /\ StepOK /\ [Next]_vars => TypeOK' /\ StepOK'
<1> SUFFICES ASSUME TypeOK, StepOK, [Next]_vars PROVE TypeOK' /\ StepOK'
  OBVIOUS
<1>1. CASE Service
  BY <1>1, ServiceTypes
<1>2. CASE UNCHANGED vars
  BY <1>2 DEF vars, serviceVars, clientVars, TypeOK, ServiceTypeOK, ClientTypeOK, StepOK
<1>3. ASSUME NEW w \in Workspaces, Exchange(w) \/ Operator(w) \/ Poll(w) \/ Crash(w)
      PROVE  TypeOK' /\ StepOK'
  BY <1>3, CreateTypes, UpdateTypes, DeleteTypes, SurroundingTypes DEF Exchange, Operator
<1>4. QED BY <1>1, <1>2, <1>3 DEF Next

\* Every state of every instance is well typed, and an apply in flight has the
\* plan and the partial state the code relies on.
THEOREM LifecycleTypes == Spec => [](TypeOK /\ StepOK)
  BY InitTypes, NextTypes, PTL DEF Spec

\* For any number of workspaces, plans and retries, every state of the resource's
\* operations is well typed.
THEOREM TypeCorrect == Spec => []TypeOK
  BY LifecycleTypes, PTL

----------------------------------------------------------------------------
(* What a step does to the stored registration.                              *)

Kept ==
  /\ created' = created
  /\ Live' <=> Live
  /\ Live => /\ registration'.id = registration.id
             /\ registration'.owner = registration.owner
             /\ registration'.revision = registration.revision
             /\ registration'.spec = registration.spec

Inserted ==
  /\ ~Live /\ Live'
  /\ created' = created + 1
  /\ registration'.id = created'
  /\ registration'.revision = 1

Replaced ==
  /\ Live /\ Live'
  /\ created' = created
  /\ registration'.id = registration.id
  /\ registration'.owner = registration.owner
  /\ registration'.revision = registration.revision + 1

Removed == Live /\ ~Live' /\ created' = created

ServiceEffect == Kept \/ Inserted \/ Replaced \/ Removed

LEMMA PutCreatesEffect ==
  ASSUME TypeOK, NEW w \in Workspaces, NEW s \in CertificateSpec,
         NEW b \in BOOLEAN, PutCreates(w, s, b)
  PROVE  Inserted /\ registration'.spec = s
<1>1. Live'
  BY PutCreatesType DEF TypeOK
<1>2. QED BY <1>1 DEF PutCreates, StartOperation, Inserted

LEMMA PutReplacesEffect ==
  ASSUME TypeOK, NEW w \in Workspaces, NEW r, NEW s \in CertificateSpec,
         NEW b \in BOOLEAN, PutReplaces(w, r, s, b)
  PROVE  Replaced /\ registration'.spec = s
<1>1. Live' /\ Live /\ registration \in Registration
  BY PutReplacesType DEF TypeOK, PutReplaces, ServiceTypeOK, Live
<1>2. QED BY <1>1 DEF PutReplaces, StartOperation, Replaced, Registration

LEMMA PollEffect ==
  ASSUME TypeOK, NEW w \in Workspaces, PollOperation(w)
  PROVE  Kept
<1>1. CASE ~Live
  BY <1>1 DEF PollOperation, PollSettles, PollFails, PollRuns, Fulfilled, Live, Kept
<1>2. CASE Live
  <2>1. registration \in Registration
    BY <1>2 DEF TypeOK, ServiceTypeOK, Live
  <2>2. registration' \in Registration \cup {NoRegistration}
    BY PollType DEF TypeOK, ServiceTypeOK
  <2>3. operations[w].target \in Nat
    BY DEF TypeOK, ServiceTypeOK, Operation
  <2>5. ASSUME NEW b \in BOOLEAN, NEW ph \in {"issuing", "ready", "failed"}
        PROVE  /\ [registration EXCEPT !.failing = b] \in Registration
               /\ [registration EXCEPT !.phase = ph, !.failing = b] \in Registration
    BY <2>1 DEF Registration
  <2>6. created' = created
    BY DEF PollOperation
  <2>7. CASE PollSettles(w)
    BY <1>2, <2>1, <2>3, <2>6, <2>7, FulfilledKeeps, NoRegistrationAssumption DEF PollSettles, Live, Kept
  <2>8. CASE PollFails(w)
    <3> DEFINE failed == [registration EXCEPT !.phase = "failed", !.failing = TRUE]
    <3>1. failed \in Registration /\ failed.id = registration.id /\ failed.owner = registration.owner
          /\ failed.revision = registration.revision /\ failed.spec = registration.spec
      BY <2>1, <2>5 DEF Registration
    <3>2. registration' = failed
      BY <1>2, <2>8 DEF PollFails
    <3> HIDE DEF failed
    <3>3. QED
      BY <1>2, <2>6, <3>1, <3>2, NoRegistrationAssumption DEF Live, Kept
  <2>9. CASE PollRuns(w)
    <3> DEFINE synced == [registration EXCEPT !.failing = FALSE]
    <3>1. synced \in Registration /\ synced.id = registration.id /\ synced.owner = registration.owner
          /\ synced.revision = registration.revision /\ synced.spec = registration.spec
      BY <2>1, <2>5 DEF Registration
    <3>2. registration' \in {registration, synced, Fulfilled(synced, operations[w].target)}
      BY <1>2, <2>9 DEF PollRuns
    <3> HIDE DEF synced
    <3>3. QED
      BY <1>2, <2>1, <2>3, <2>6, <3>1, <3>2, FulfilledKeeps, NoRegistrationAssumption DEF Live, Kept
  <2>10. QED BY <2>7, <2>8, <2>9 DEF PollOperation
<1>3. QED BY <1>1, <1>2

LEMMA StepEffect ==
  ASSUME TypeOK, StepOK, [Next]_vars
  PROVE  ServiceEffect
<1> USE DEF ServiceEffect
<1>1. CASE UNCHANGED serviceVars
  BY <1>1 DEF serviceVars, Kept, Live
<1>2. CASE UNCHANGED <<registration, created>>
  BY <1>2 DEF Kept, Live
<1>3. ASSUME NEW w \in Workspaces, SendCreate(w)
      PROVE  ServiceEffect
  <2>1. plan[w].spec \in CertificateSpec
    BY <1>3, PlanType DEF SendCreate, StepOK
  <2>2. CASE \E b \in BOOLEAN : PutCreates(w, plan[w].spec, b)
    BY <2>1, <2>2, PutCreatesEffect
  <2>3. QED BY <1>1, <1>3, <2>2 DEF SendCreate, PutAdopts, PutExists
<1>4. ASSUME NEW w \in Workspaces, SendUpdate(w)
      PROVE  ServiceEffect
  <2>1. plan[w].spec \in CertificateSpec
    BY <1>4, PlanType DEF SendUpdate, StepOK
  <2>2. CASE \E b \in BOOLEAN :
               PutReplaces(w, state[w].revision, plan[w].spec, b)
    BY <2>1, <2>2, PutReplacesEffect
  <2>3. QED BY <1>1, <1>4, <2>2 DEF SendUpdate, PutConflicts, PutFindsNothing
<1>5. ASSUME NEW w \in Workspaces, SendDelete(w)
      PROVE  ServiceEffect
  BY <1>1, <1>5 DEF SendDelete, DeleteAccepts, DeleteRefuses, DeleteFindsNothing, Removed, Live
<1>6. ASSUME NEW w \in Workspaces, Poll(w)
      PROVE  ServiceEffect
  BY <1>6, PollEffect DEF Poll
<1>7. CASE Service
  <2>1. CASE Publish
    <3>1. registration \in Registration /\ registration.generation \in Nat
      BY <2>1 DEF Publish, Live, TypeOK, ServiceTypeOK, Registration
    <3>2. registration' = Fulfilled(registration, registration.generation) /\ created' = created
      BY <2>1 DEF Publish
    <3>3. QED BY <3>1, <3>2, FulfilledKeeps, NoRegistrationAssumption DEF Kept, Live
  <2>2. CASE Remove
    BY <2>2 DEF Remove, Removed, Live
  <2>3. CASE CreateElsewhere
    <3>1. PICK p \in Principals, s \in CertificateSpec : registration' = Seeded(created + 1, p, s)
      BY <2>3 DEF CreateElsewhere
    <3>2. registration' \in Registration
      BY <3>1 DEF Seeded, Registration, TypeOK, ServiceTypeOK
    <3>3. QED
      BY <2>3, <3>1, <3>2, NoRegistrationAssumption DEF CreateElsewhere, Seeded, Inserted, Live
  <2>4. QED BY <1>7, <2>1, <2>2, <2>3 DEF Service
<1>8. CASE UNCHANGED vars
  BY <1>1, <1>8 DEF vars
<1>9. ASSUME NEW w \in Workspaces,
             Confirm(w) \/ CreatePublished(w) \/ CreateFailed(w) \/ CreateGivesUp(w)
             \/ UpdatePublished(w) \/ UpdateGivesUp(w) \/ RecordTruth(w) \/ DeleteEnds(w)
             \/ RequestLost(w) \/ Operator(w) \/ Crash(w)
      PROVE  ServiceEffect
  BY <1>1, <1>2, <1>9
     DEF Confirm, CreatePublished, CreateFailed, CreateGivesUp, UpdatePublished, UpdateGivesUp,
         RecordTruth, DeleteEnds, RequestLost, Operator, BeginCreate, BeginUpdate, BeginDestroy,
         Begin, Refresh, ImportState, Untaint, Crash, Forgotten, serviceVars
<1>10. QED
  BY <1>3, <1>4, <1>5, <1>6, <1>7, <1>8, <1>9 DEF Next, Exchange

LEMMA StepKeepsRegister ==
  ASSUME TypeOK, TypeOK', ServiceEffect
  PROVE  [Register!Next]_(Register!vars)
<1> USE DEF Register!Next, Register!vars, Register!Insert, Register!Replace, Register!Remove
<1>1. Live => /\ registration \in Registration
              /\ AsRecord(registration) \in Representation
  BY DEF TypeOK, ServiceTypeOK, Live, AsRecord, Representation, Registration
<1>2. Live' => /\ registration' \in Registration
               /\ AsRecord(registration)' \in Representation
  BY DEF TypeOK, ServiceTypeOK, Live, AsRecord, Representation, Registration
<1>3. CASE Kept
  BY <1>3 DEF Kept, Live, AsRecord
<1>4. CASE Inserted
  <2>1. registration'.spec \in CertificateSpec
    BY <1>2, <1>4 DEF Inserted, Registration
  <2>2. AsRecord(registration)' = [id |-> created', revision |-> 1, spec |-> registration'.spec]
    BY <1>4 DEF Inserted, AsRecord, Live
  <2>3. QED
    BY <1>4, <2>1, <2>2 DEF Inserted, AsRecord, Live
<1>5. CASE Replaced
  <2>1. registration'.spec \in CertificateSpec
    BY <1>2, <1>5 DEF Replaced, Registration
  <2>2. AsRecord(registration)' =
          [id |-> AsRecord(registration).id, revision |-> AsRecord(registration).revision + 1,
           spec |-> registration'.spec]
    BY <1>5 DEF Replaced, AsRecord, Live
  <2>3. AsRecord(registration) # NoRegistration
    BY <1>1, <1>5, NoRepresentationAssumption DEF Replaced
  <2>4. QED BY <1>5, <2>1, <2>2, <2>3 DEF Replaced
<1>6. CASE Removed
  BY <1>1, <1>6, NoRepresentationAssumption DEF Removed, AsRecord, Live
<1>7. QED BY <1>3, <1>4, <1>5, <1>6 DEF ServiceEffect

\* Whatever the workspaces, the operations they poll and the service's own
\* progress do, the key is a register: no step changes a stored spec without a
\* new revision of the same id, and no id is ever given out twice.
THEOREM RegisterImplemented == Spec => RegisterSpec
<1>1. Init => Register!Init
  BY DEF Init, ServiceInit, Register!Init, AsRecord, Seeded
<1>2. TypeOK /\ StepOK /\ TypeOK' /\ [Next]_vars => [Register!Next]_(Register!vars)
  BY StepEffect, StepKeepsRegister
<1>3. QED
  BY <1>1, <1>2, LifecycleTypes, PTL DEF Spec, RegisterSpec, Register!Spec

----------------------------------------------------------------------------
(* A revision names one spec.                                                *)

\* The resource states the workspaces hold: stored, or set on a response.
Held ==
  ({state[w] : w \in Workspaces} \cup {draft[w] : w \in Workspaces}) \ {NoState}

\* What r knows of the stored registration is not ahead of it, and is right if
\* r is at its revision.
Agrees(r) ==
  Live /\ r.shown /\ r.id = registration.id =>
    /\ r.revision <= registration.revision
    /\ r.revision = registration.revision => r.spec = registration.spec

Coherent(r, q) ==
  r.shown /\ q.shown /\ r.id = q.id /\ r.revision = q.revision => r.spec = q.spec

\* RevisionIdentifiesSpec is not inductive: a state at a revision still to come,
\* or of an id still to be handed out, would break it later.
RevisionInv ==
  /\ Live => registration.id <= created
  /\ \A r \in Held : r.id <= created /\ Agrees(r)
  /\ \A r, q \in Held : Coherent(r, q)

SameTruth(r, q) ==
  r.id = q.id /\ r.revision = q.revision /\ r.spec = q.spec /\ r.shown = q.shown

FromService(r) ==
  /\ Live'
  /\ r.id = registration'.id
  /\ r.revision = registration'.revision
  /\ r.shown => r.spec = registration'.spec

\* Where a resource state a workspace holds after a step can come from.
Derived(r) == r = NoState \/ FromService(r) \/ \E q \in Held : SameTruth(r, q)

LEMMA ComputedIsFromService ==
  ASSUME Live', NEW s, NEW b
  PROVE  FromService(Computed(registration', s, b))
  BY DEF FromService, Computed

LEMMA HeldIsDerived ==
  ASSUME NEW w \in Workspaces
  PROVE  Derived(state[w]) /\ Derived(draft[w])
  BY DEF Derived, Held, SameTruth

\* A step that gives one workspace a derived state and a derived draft, and
\* leaves the others alone, leaves every workspace with derived ones.
LEMMA OneWorkspaceDerived ==
  ASSUME TypeOK, NEW w \in Workspaces, NEW st, NEW d,
         state' = [state EXCEPT ![w] = st], draft' = [draft EXCEPT ![w] = d],
         Derived(st), Derived(d)
  PROVE  \A r \in Held' : Derived(r)
<1>1. ASSUME NEW v \in Workspaces
      PROVE  Derived(state'[v]) /\ Derived(draft'[v])
  BY HeldIsDerived DEF TypeOK, ClientTypeOK
<1>2. QED BY <1>1 DEF Held

LEMMA UnchangedDerived ==
  ASSUME state' = state, draft' = draft
  PROVE  \A r \in Held' : Derived(r)
  BY HeldIsDerived DEF Held

LEMMA ReturnDerived ==
  ASSUME TypeOK, NEW w \in Workspaces, NEW st, NEW e, ReturnTo(w, st, e), Derived(st)
  PROVE  \A r \in Held' : Derived(r)
  BY OneWorkspaceDerived DEF ReturnTo, Derived

LEMMA ProceedDerived ==
  ASSUME TypeOK, NEW w \in Workspaces, NEW next, NEW g, NEW d, Proceed(w, next, g, d), Derived(d)
  PROVE  \A r \in Held' : Derived(r)
<1>1. state' = [state EXCEPT ![w] = state[w]] /\ draft' = [draft EXCEPT ![w] = d]
  BY DEF Proceed, TypeOK, ClientTypeOK
<1>2. QED BY <1>1, HeldIsDerived, OneWorkspaceDerived

LEMMA RetryDerived ==
  ASSUME TypeOK, NEW w \in Workspaces, Retry(w)
  PROVE  \A r \in Held' : Derived(r)
  BY HeldIsDerived, UnchangedDerived, ReturnDerived DEF Retry, Errors

\* What Read, ImportState and the waits record comes from the GET they made.
LEMMA ReadDerived ==
  ASSUME Live, UNCHANGED registration, NEW s, NEW b
  PROVE  Derived(Computed(registration, s, b)) /\ Derived(ServerTruth(registration, b))
<1>1. Live'
  BY DEF Live
<1>2. QED BY <1>1, ComputedIsFromService DEF Derived, ServerTruth

LEMMA CreateDerived ==
  ASSUME TypeOK, StepOK, NEW w \in Workspaces,
         BeginCreate(w) \/ SendCreate(w) \/ Confirm(w)
         \/ CreatePublished(w) \/ CreateFailed(w) \/ CreateGivesUp(w)
  PROVE  \A r \in Held' : Derived(r)
<1>0. Derived(NoState) /\ Derived(state[w]) /\ Derived(draft[w])
  BY HeldIsDerived DEF Derived
<1>1. CASE BeginCreate(w)
  BY <1>1, UnchangedDerived DEF BeginCreate, Begin
<1>2. CASE SendCreate(w)
  <2>1. plan[w].spec \in CertificateSpec
    BY <1>2, PlanType DEF SendCreate, StepOK
  <2>2. ASSUME Live', CreateWaits(w) \/ CreateDeferred(w) \/ CreateAccepted(w) \/ Retry(w)
        PROVE  \A r \in Held' : Derived(r)
    <3>1. Derived(Partial(w))
      BY <2>2, ComputedIsFromService DEF Partial, Derived
    <3>2. QED
      BY <2>2, <3>1, ProceedDerived, ReturnDerived, RetryDerived DEF CreateWaits, CreateDeferred, CreateAccepted, Errors
  <2>3. CASE \E b \in BOOLEAN :
               /\ PutCreates(w, plan[w].spec, b)
               /\ CreateWaits(w) \/ CreateDeferred(w) \/ CreateAccepted(w) \/ Retry(w)
    BY <2>1, <2>2, <2>3, PutCreatesType DEF TypeOK
  <2>4. CASE /\ PutAdopts(plan[w].spec)
             /\ CreateWaits(w) \/ CreateAccepted(w) \/ Retry(w)
    BY <2>2, <2>4 DEF PutAdopts, serviceVars, Live
  <2>5. CASE Errors(w, NoState)
    BY <1>0, <2>5, ReturnDerived DEF Errors
  <2>6. QED BY <1>2, <2>3, <2>4, <2>5 DEF SendCreate
<1>3. CASE Confirm(w)
  <2>1. Derived([draft[w] EXCEPT !.tainted = FALSE])
    <3>1. draft[w] \in ResourceState /\ draft[w] \in Held
      BY <1>3 DEF Confirm, StepOK, TypeOK, ClientTypeOK, Held
    <3>2. SameTruth([draft[w] EXCEPT !.tainted = FALSE], draft[w])
      BY <3>1 DEF SameTruth, ResourceState
    <3>3. QED BY <3>1, <3>2 DEF Derived
  <2>2. QED
    BY <1>3, <2>1, ReadDerived, ReturnDerived DEF Confirm, Succeeds, serviceVars
<1>4. CASE CreatePublished(w)
  BY <1>4, ReadDerived, ReturnDerived DEF CreatePublished, Forgotten, Realised, Succeeds
<1>5. CASE CreateFailed(w)
  BY <1>0, <1>5, ReadDerived, ReturnDerived DEF CreateFailed, Forgotten, Errors
<1>6. CASE CreateGivesUp(w)
  BY <1>0, <1>6, ReturnDerived DEF CreateGivesUp, Errors
<1>7. QED BY <1>1, <1>2, <1>3, <1>4, <1>5, <1>6

LEMMA UpdateDerived ==
  ASSUME TypeOK, StepOK, NEW w \in Workspaces,
         BeginUpdate(w) \/ SendUpdate(w) \/ UpdatePublished(w)
         \/ UpdateGivesUp(w) \/ RecordTruth(w)
  PROVE  \A r \in Held' : Derived(r)
<1>0. Derived(NoState) /\ Derived(state[w])
  BY HeldIsDerived DEF Derived
<1>1. CASE BeginUpdate(w)
  BY <1>1, UnchangedDerived DEF BeginUpdate, Begin
<1>2. CASE SendUpdate(w)
  <2>1. plan[w].spec \in CertificateSpec
    BY <1>2, PlanType DEF SendUpdate, StepOK
  <2>2. CASE \E b \in BOOLEAN :
               /\ PutReplaces(w, state[w].revision, plan[w].spec, b)
               /\ \/ Proceed(w, "updateWait", registration'.generation, NoState)
                  \/ Succeeds(w, Computed(registration', plan[w].spec, FALSE))
                  \/ Retry(w)
    <3>1. Live'
      BY <2>1, <2>2, PutReplacesType DEF TypeOK
    <3>2. Derived(Computed(registration', plan[w].spec, FALSE))
      BY <3>1, ComputedIsFromService DEF Derived
    <3>3. QED
      BY <1>0, <2>2, <3>2, ProceedDerived, ReturnDerived, RetryDerived DEF Succeeds
  <2>3. CASE Proceed(w, "conflict", 0, NoState) \/ Errors(w, state[w])
    BY <1>0, <2>3, ProceedDerived, ReturnDerived DEF Errors
  <2>4. QED BY <1>2, <2>2, <2>3 DEF SendUpdate
<1>3. CASE UpdatePublished(w)
  BY <1>3, ReadDerived, ReturnDerived DEF UpdatePublished, Forgotten, Realised, Succeeds
<1>4. CASE UpdateGivesUp(w)
  BY <1>0, <1>4, ProceedDerived DEF UpdateGivesUp
<1>5. CASE RecordTruth(w)
  BY <1>0, <1>5, ReadDerived, ReturnDerived DEF RecordTruth, serviceVars, Errors
<1>6. QED BY <1>1, <1>2, <1>3, <1>4, <1>5

LEMMA DeleteDerived ==
  ASSUME TypeOK, NEW w \in Workspaces,
         BeginDestroy(w) \/ SendDelete(w) \/ DeleteEnds(w)
  PROVE  \A r \in Held' : Derived(r)
<1>0. Derived(NoState) /\ Derived(state[w])
  BY HeldIsDerived DEF Derived
<1>1. CASE BeginDestroy(w)
  BY <1>1, UnchangedDerived DEF BeginDestroy, Begin
<1>2. CASE SendDelete(w)
  BY <1>0, <1>2, ProceedDerived, ReturnDerived, RetryDerived DEF SendDelete, Succeeds, Errors
<1>3. CASE DeleteEnds(w)
  BY <1>0, <1>3, ReturnDerived DEF DeleteEnds, Succeeds, Errors
<1>4. QED BY <1>1, <1>2, <1>3

LEMMA SurroundingDerived ==
  ASSUME TypeOK, NEW w \in Workspaces,
         Refresh(w) \/ ImportState(w) \/ Untaint(w) \/ RequestLost(w) \/ Poll(w) \/ Crash(w)
  PROVE  \A r \in Held' : Derived(r)
<1>0. Derived(NoState) /\ Derived(state[w]) /\ Derived(draft[w])
  BY HeldIsDerived DEF Derived
<1> DEFINE Kept1(st) == /\ state' = [state EXCEPT ![w] = st]
                        /\ draft' = [draft EXCEPT ![w] = draft[w]]
<1>1. CASE Refresh(w)
  <2>1. Kept1(IF Live THEN ServerTruth(registration, state[w].tainted) ELSE NoState)
    BY <1>1 DEF Refresh, TypeOK, ClientTypeOK
  <2>2. CASE Live
    BY <1>0, <1>1, <2>1, <2>2, ReadDerived, OneWorkspaceDerived DEF Refresh, serviceVars
  <2>3. CASE ~Live
    BY <1>0, <2>1, <2>3, OneWorkspaceDerived
  <2>4. QED BY <2>2, <2>3
<1>2. CASE ImportState(w)
  BY <1>2, ReadDerived, ReturnDerived DEF ImportState, Succeeds, serviceVars
<1>3. CASE Untaint(w)
  <2>1. Kept1([state[w] EXCEPT !.tainted = FALSE])
    BY <1>3 DEF Untaint, TypeOK, ClientTypeOK
  <2>2. Derived([state[w] EXCEPT !.tainted = FALSE])
    <3>1. state[w] \in ResourceState /\ state[w] \in Held
      BY <1>3 DEF Untaint, TypeOK, ClientTypeOK, Held
    <3>2. SameTruth([state[w] EXCEPT !.tainted = FALSE], state[w])
      BY <3>1 DEF SameTruth, ResourceState
    <3>3. QED BY <3>1, <3>2 DEF Derived
  <2>3. QED BY <1>0, <2>1, <2>2, OneWorkspaceDerived
<1>4. CASE RequestLost(w)
  BY <1>4, RetryDerived DEF RequestLost
<1>5. CASE Poll(w)
  BY <1>5, UnchangedDerived DEF Poll, clientVars
<1>6. CASE Crash(w)
  BY <1>0, <1>6, ReturnDerived DEF Crash, Errors
<1>7. QED BY <1>1, <1>2, <1>3, <1>4, <1>5, <1>6

LEMMA StepDerived ==
  ASSUME TypeOK, StepOK, [Next]_vars
  PROVE  \A r \in Held' : Derived(r)
<1>1. CASE Service \/ UNCHANGED vars
  BY <1>1, UnchangedDerived DEF Service, vars, clientVars
<1>2. ASSUME NEW w \in Workspaces, Exchange(w) \/ Operator(w) \/ Poll(w) \/ Crash(w)
      PROVE  \A r \in Held' : Derived(r)
  BY <1>2, CreateDerived, UpdateDerived, DeleteDerived, SurroundingDerived DEF Exchange, Operator
<1>3. QED BY <1>1, <1>2 DEF Next

\* A known state stays behind, or at, what the service stores.
LEMMA KnownStaysBehind ==
  ASSUME TypeOK, TypeOK', RevisionInv, ServiceEffect, NEW q \in Held
  PROVE  q.id <= created' /\ Agrees(q)'
<1>1. q \in ResourceState /\ q.id \in Nat /\ q.revision \in Nat
  BY DEF Held, TypeOK, ClientTypeOK, ResourceState
<1>2. created \in Nat /\ created' \in Nat
      /\ (Live => registration.id \in Nat /\ registration.revision \in Nat)
  BY DEF TypeOK, ServiceTypeOK, Live, Registration
<1>3. q.id <= created /\ Agrees(q) /\ (Live => registration.id <= created)
  BY DEF RevisionInv
<1>4. CASE Kept
  BY <1>3, <1>4 DEF Kept, Agrees
<1>5. CASE Inserted
  BY <1>1, <1>2, <1>3, <1>5 DEF Inserted, Agrees
<1>6. CASE Replaced
  BY <1>1, <1>2, <1>3, <1>6 DEF Replaced, Agrees
<1>7. CASE Removed
  BY <1>3, <1>7 DEF Removed, Agrees
<1>8. QED BY <1>4, <1>5, <1>6, <1>7 DEF ServiceEffect

LEMMA InitRevision == Init => RevisionInv
<1> SUFFICES ASSUME Init PROVE RevisionInv
  OBVIOUS
<1>1. Held = {}
  BY DEF Init, Held
<1>2. Live => registration.id <= created
  BY DEF Init, ServiceInit, Live, Seeded
<1>3. QED BY <1>1, <1>2 DEF RevisionInv

LEMMA NextRevision ==
  ASSUME TypeOK, StepOK, TypeOK', RevisionInv, [Next]_vars
  PROVE  RevisionInv'
<1>1. ServiceEffect /\ \A r \in Held' : Derived(r)
  BY StepEffect, StepDerived
<1>2. (Live => registration.id <= created)'
  <2>1. Live => registration.id <= created
    BY DEF RevisionInv
  <2>2. created' \in Nat
    BY DEF TypeOK, ServiceTypeOK
  <2>3. QED BY <1>1, <2>1, <2>2 DEF ServiceEffect, Kept, Inserted, Replaced, Removed
<1>3. ASSUME NEW r \in Held'
      PROVE  FromService(r) \/ \E q \in Held : SameTruth(r, q)
  BY <1>1 DEF Derived, Held
<1>4. ASSUME NEW r \in Held'
      PROVE  r.id <= created' /\ Agrees(r)'
  <2>1. CASE FromService(r)
    <3>1. registration' \in Registration
      BY <2>1 DEF FromService, TypeOK, ServiceTypeOK, Live
    <3>2. registration'.revision <= registration'.revision
      BY <3>1 DEF Registration
    <3>3. QED BY <1>2, <2>1, <3>2 DEF FromService, Agrees
  <2>2. CASE \E q \in Held : SameTruth(r, q)
    BY <1>1, <2>2, KnownStaysBehind DEF SameTruth, Agrees
  <2>3. QED BY <1>3, <2>1, <2>2
<1>5. ASSUME NEW r \in Held', NEW q \in Held', FromService(r)
      PROVE  Coherent(r, q) /\ Coherent(q, r)
  BY <1>4, <1>5 DEF FromService, Agrees, Coherent
<1>6. ASSUME NEW r \in Held', NEW q \in Held'
      PROVE  Coherent(r, q)
  <2>1. CASE FromService(r) \/ FromService(q)
    BY <1>5, <2>1
  <2>2. CASE (\E a \in Held : SameTruth(r, a)) /\ (\E b \in Held : SameTruth(q, b))
    <3>1. PICK a \in Held, b \in Held : SameTruth(r, a) /\ SameTruth(q, b)
      BY <2>2
    <3>2. Coherent(a, b)
      BY DEF RevisionInv
    <3>3. QED BY <3>1, <3>2 DEF SameTruth, Coherent
  <2>3. QED BY <1>3, <2>1, <2>2
<1>7. QED BY <1>2, <1>4, <1>6 DEF RevisionInv, Coherent

\* For any number of workspaces, no revision in a state or in a response being built
\* is ahead of the one the service stores.
THEOREM RevisionsStayBehind == Spec => [](TypeOK /\ StepOK /\ RevisionInv)
<1>1. TypeOK /\ StepOK /\ TypeOK' /\ RevisionInv /\ [Next]_vars => RevisionInv'
  BY NextRevision
<1>2. QED BY <1>1, InitRevision, LifecycleTypes, PTL DEF Spec

\* For any number of workspaces: one revision is never shown with two specs, and
\* a state at the stored revision shows the stored spec.
THEOREM RevisionsIdentifySpecs == Spec => []RevisionIdentifiesSpec
<1>1. TypeOK /\ RevisionInv => RevisionIdentifiesSpec
  <2> SUFFICES ASSUME TypeOK, RevisionInv PROVE RevisionIdentifiesSpec
    OBVIOUS
  <2>1. \A w \in Workspaces : state[w] # NoState => state[w] \in Held
    BY DEF Held
  <2>2. QED BY <2>1 DEF RevisionInv, RevisionIdentifiesSpec, Agrees, Coherent
<1>2. QED BY <1>1, RevisionsStayBehind, PTL

\* An action of one workspace moves no other.
LEMMA OneWorkspaceMoves ==
  ASSUME TypeOK, NEW v \in Workspaces, Exchange(v) \/ Operator(v) \/ Poll(v) \/ Crash(v),
         NEW w \in Workspaces, w # v
  PROVE  /\ step'[w] = step[w] /\ attempt'[w] = attempt[w] /\ state'[w] = state[w]
         /\ draft'[w] = draft[w] /\ errored'[w] = errored[w]
<1> DEFINE Still == /\ step'[w] = step[w] /\ attempt'[w] = attempt[w] /\ state'[w] = state[w]
                    /\ draft'[w] = draft[w] /\ errored'[w] = errored[w]
<1> SUFFICES Still
  OBVIOUS
<1>1. ASSUME NEW st, NEW e, ReturnTo(v, st, e) PROVE Still
  BY <1>1 DEF ReturnTo, TypeOK, ClientTypeOK
<1>2. ASSUME NEW next, NEW g, NEW d, Proceed(v, next, g, d) PROVE Still
  BY <1>2 DEF Proceed, TypeOK, ClientTypeOK
<1>3. ASSUME NEW next, NEW p, Begin(v, next, p) PROVE Still
  BY <1>3 DEF Begin, TypeOK, ClientTypeOK
<1>4. CASE Retry(v)
  BY <1>1, <1>4 DEF Retry, Errors, TypeOK, ClientTypeOK
<1>5. CASE Refresh(v) \/ Untaint(v) \/ Poll(v)
  BY <1>5 DEF Refresh, Untaint, Poll, clientVars, TypeOK, ClientTypeOK
<1> HIDE DEF Still
<1>6. CASE Operator(v)
  BY <1>1, <1>3, <1>5, <1>6
     DEF Operator, BeginCreate, BeginUpdate, BeginDestroy, ImportState, Succeeds
<1>7. CASE SendCreate(v) \/ SendUpdate(v) \/ SendDelete(v) \/ RequestLost(v)
  BY <1>1, <1>2, <1>4, <1>7
     DEF SendCreate, SendUpdate, SendDelete, RequestLost, CreateWaits, CreateDeferred, CreateAccepted, Succeeds, Errors
<1>8. CASE Crash(v) \/ Confirm(v) \/ CreatePublished(v) \/ CreateFailed(v) \/ CreateGivesUp(v)
           \/ UpdatePublished(v) \/ UpdateGivesUp(v) \/ RecordTruth(v) \/ DeleteEnds(v)
  BY <1>1, <1>2, <1>8
     DEF Crash, Confirm, CreatePublished, CreateFailed, CreateGivesUp, UpdatePublished,
         UpdateGivesUp, RecordTruth, DeleteEnds, Succeeds, Errors
<1>9. QED BY <1>5, <1>6, <1>7, <1>8 DEF Exchange

\* What If-Match buys, for any number of workspaces: an update of the stored
\* registration from a state the service showed overwrites the spec it showed.
THEOREM UpdatesAreNotLost == Spec => RefreshedUpdateIsNotLost
<1>1. TypeOK /\ StepOK /\ RevisionInv /\ [Next]_vars => [OverwritesOnlyWhatWasShown]_vars
  <2> SUFFICES ASSUME TypeOK, StepOK, RevisionInv, Next,
                      NEW w \in Workspaces, Overwrites(w),
                      state[w].shown, state[w].id = registration.id
               PROVE  registration.spec = state[w].spec
    BY DEF OverwritesOnlyWhatWasShown
  <2>1. SendUpdate(w)
    <3>1. CASE Service
      BY <3>1 DEF Overwrites, Service, clientVars
    <3>2. CASE \E v \in Workspaces \ {w} : Exchange(v) \/ Operator(v) \/ Poll(v) \/ Crash(v)
      BY <3>2, OneWorkspaceMoves DEF Overwrites
    <3>3. CASE Exchange(w)
      BY <3>3 DEF Overwrites, Exchange, SendCreate, Confirm, CreatePublished, CreateFailed,
                  CreateGivesUp, UpdatePublished, UpdateGivesUp, RecordTruth, SendDelete,
                  DeleteEnds, RequestLost, serviceVars
    <3>4. CASE Operator(w) \/ Poll(w) \/ Crash(w)
      BY <3>4 DEF Overwrites, Operator, BeginCreate, BeginUpdate, BeginDestroy, Begin, Refresh,
                  ImportState, Untaint, Poll, Crash, Forgotten, serviceVars
    <3>5. QED BY <3>1, <3>2, <3>3, <3>4 DEF Next
  <2>2. Live /\ registration.revision = state[w].revision
    BY <2>1 DEF Overwrites, SendUpdate, PutReplaces, PutConflicts, PutFindsNothing, serviceVars
  <2>3. state[w] \in Held
    BY DEF Overwrites, StepOK, Held
  <2>4. QED BY <2>2, <2>3 DEF RevisionInv, Agrees
<1>2. QED
  BY <1>1, RevisionsStayBehind, PTL DEF Spec, RefreshedUpdateIsNotLost

----------------------------------------------------------------------------
(* What a destroy removes, and when a workspace forgets.                     *)

\* For any number of workspaces: when a destroy that asks for deletion goes
\* through, nobody up to date by revision has the registration retained.  The
\* service looked at the stored policy, and a state at its revision shows it.
THEOREM RetainedSurvivesStaleDestroys == Spec => RetainedIsNotDeleted
<1>1. TypeOK /\ StepOK /\ RevisionIdentifiesSpec /\ [Next]_vars =>
        [\A w, v \in Workspaces :
           /\ Decommissions(w) /\ state[w].spec.deletion_policy = "delete"
           /\ state[v] # NoState /\ state[v].shown
           /\ state[v].id = registration.id /\ state[v].revision = registration.revision
           => state[v].spec.deletion_policy = "delete"]_vars
  <2> SUFFICES ASSUME TypeOK, StepOK, RevisionIdentifiesSpec, Next,
                      NEW w \in Workspaces, NEW v \in Workspaces,
                      Decommissions(w), state[w].spec.deletion_policy = "delete",
                      state[v] # NoState, state[v].shown,
                      state[v].id = registration.id, state[v].revision = registration.revision
               PROVE  state[v].spec.deletion_policy = "delete"
    OBVIOUS
  <2>1. SendDelete(w) /\ DeleteAccepts(state[w].spec.deletion_policy)
    <3> USE DEF Decommissions
    <3>1. CASE Service
      BY <3>1 DEF Service, clientVars
    <3>2. CASE \E u \in Workspaces \ {w} : Exchange(u) \/ Operator(u) \/ Poll(u) \/ Crash(u)
      BY <3>2, OneWorkspaceMoves
    <3>3. CASE Exchange(w)
      BY <3>3 DEF Exchange, SendCreate, Confirm, CreatePublished, CreateFailed, CreateGivesUp,
                  SendUpdate, UpdatePublished, UpdateGivesUp, RecordTruth, SendDelete, DeleteRefuses,
                  DeleteFindsNothing, DeleteEnds, RequestLost, serviceVars, Live
    <3>4. CASE Operator(w) \/ Poll(w) \/ Crash(w)
      BY <3>4 DEF Operator, BeginCreate, BeginUpdate, BeginDestroy, Begin, Refresh,
                  ImportState, Untaint, Poll, Crash, Forgotten, Live
    <3>5. QED BY <3>1, <3>2, <3>3, <3>4 DEF Next
  <2>2. Live /\ registration.spec.deletion_policy # "retain"
    BY <2>1 DEF DeleteAccepts, Widens
  <2>3. registration.spec \in CertificateSpec
    BY <2>2 DEF TypeOK, ServiceTypeOK, Live, Registration
  <2>4. state[v].spec = registration.spec
    BY <2>2 DEF RevisionIdentifiesSpec
  <2>5. QED BY <2>2, <2>3, <2>4 DEF CertificateSpec, DeletionPolicy
<1>2. QED
  BY <1>1, LifecycleTypes, RevisionsIdentifySpecs, PTL DEF Spec, RetainedIsNotDeleted

\* A Create in flight.
Creating == {"create", "confirm", "createWait"}

\* GoneBeforeForgotten needs to know what is in state while an apply waits:
\* nothing during a Create, and during a decommission a registration that is no
\* longer live, and whose id nobody else will get.
WaitsForGone ==
  \A w \in Workspaces :
    /\ step[w] \in Creating => state[w] = NoState
    /\ step[w] = "deleteWait" /\ state[w] # NoState => ~(Live /\ registration.id = state[w].id)

\* What the steps of w's own apply do to its state.  Either the step leaves it
\* where it was, or the apply ends with what the service had, or with the draft.
Ends(w, st) == state'[w] = st /\ step'[w] = "idle" /\ (st = NoState => errored'[w])

OwnMove(w) ==
  \/ state'[w] = state[w] /\ step'[w] = step[w] /\ draft'[w] = draft[w] /\ errored'[w] = errored[w]
  \/ /\ state'[w] = state[w] /\ step[w] = "idle" /\ step'[w] \in {"create", "update", "delete"}
     /\ step'[w] = "create" <=> state[w] = NoState
  \/ /\ step[w] = "create" /\ state'[w] = state[w] /\ step'[w] \in {"confirm", "createWait"}
     /\ Live' /\ draft'[w].id = registration'.id
  \/ step[w] \in {"update", "updateWait"} /\ state'[w] = state[w] /\ step'[w] \in {"updateWait", "conflict", "incomplete"}
  \/ step[w] = "delete" /\ state'[w] = state[w] /\ step'[w] = "deleteWait" /\ ~Live'
  \/ /\ step[w] = "idle" /\ step'[w] = "idle"
     /\ state[w] # NoState /\ state'[w] # NoState /\ state'[w].id = state[w].id
  \/ Ends(w, state[w])
  \/ step'[w] = "idle" /\ state'[w] # NoState /\ Live' /\ state'[w].id = registration'.id
  \/ step[w] \in {"confirm", "createWait"} /\ step'[w] = "idle" /\ state'[w] # NoState /\ state'[w].id = draft[w].id
  \/ step[w] = "create" /\ state'[w] = NoState /\ Ends(w, NoState)
  \/ step'[w] = "idle" /\ state'[w] = NoState /\ (~Live' \/ step[w] = "deleteWait")

LEMMA ReturnMoves ==
  ASSUME TypeOK, NEW w \in Workspaces, NEW st, NEW e, ReturnTo(w, st, e)
  PROVE  state'[w] = st /\ step'[w] = "idle" /\ errored'[w] = e
BY DEF TypeOK, ClientTypeOK, ReturnTo

LEMMA ProceedMoves ==
  ASSUME TypeOK, NEW w \in Workspaces, NEW next, NEW g, NEW d, Proceed(w, next, g, d)
  PROVE  state'[w] = state[w] /\ step'[w] = next /\ draft'[w] = d
BY DEF TypeOK, ClientTypeOK, Proceed

LEMMA BeginMoves ==
  ASSUME TypeOK, NEW w \in Workspaces, NEW next, NEW p, Begin(w, next, p)
  PROVE  state'[w] = state[w] /\ step[w] = "idle" /\ step'[w] = next
BY DEF TypeOK, ClientTypeOK, Begin

LEMMA RetryMoves ==
  ASSUME TypeOK, NEW w \in Workspaces, Retry(w)
  PROVE  OwnMove(w)
<1>1. CASE Errors(w, state[w])
  BY <1>1, ReturnMoves DEF Errors, OwnMove, Ends
<1>2. CASE UNCHANGED <<state, step, plan, target, draft, errored, applies>>
  BY <1>2 DEF OwnMove
<1>3. QED BY <1>1, <1>2 DEF Retry

\* What is read from a live registration is of it, and is something.
LEMMA ComputedIsSomething ==
  ASSUME TypeOK, Live, NEW s \in CertificateSpec, NEW b \in BOOLEAN
  PROVE  /\ Computed(registration, s, b) # NoState /\ Computed(registration, s, b).id = registration.id
         /\ ServerTruth(registration, b) # NoState /\ ServerTruth(registration, b).id = registration.id
<1>1. registration \in Registration /\ registration.spec \in CertificateSpec
  BY DEF TypeOK, ServiceTypeOK, Live, Registration
<1>2. Computed(registration, s, b) \in ResourceState /\ ServerTruth(registration, b) \in ResourceState
  BY <1>1, ComputedType DEF ServerTruth
<1>3. QED
  BY <1>2, NoStateAssumption DEF Computed, ServerTruth

LEMMA CreateMoves ==
  ASSUME TypeOK, TypeOK', StepOK, WaitsForGone, NEW w \in Workspaces,
         BeginCreate(w) \/ SendCreate(w) \/ Confirm(w)
         \/ CreatePublished(w) \/ CreateFailed(w) \/ CreateGivesUp(w)
  PROVE  OwnMove(w)
<1>1. CASE BeginCreate(w)
  BY <1>1, BeginMoves DEF BeginCreate, OwnMove
<1>2. CASE SendCreate(w)
  <2>1. plan[w].spec \in CertificateSpec /\ step[w] = "create"
    BY <1>2, PlanType DEF SendCreate, StepOK
  <2>2. ASSUME Live', CreateWaits(w) \/ CreateDeferred(w) \/ CreateAccepted(w) \/ Retry(w)
        PROVE  OwnMove(w)
    <3>1. Partial(w) # NoState /\ Partial(w).id = registration'.id
      <4>1. registration' \in Registration
        BY <2>2 DEF TypeOK, ServiceTypeOK, Live
      <4>2. Partial(w) \in ResourceState
        BY <2>1, <4>1, ComputedType DEF Partial
      <4>3. QED BY <4>2, NoStateAssumption DEF Partial, Computed
    <3>2. CASE CreateWaits(w) \/ CreateAccepted(w)
      <4>1. state'[w] = state[w] /\ step'[w] \in {"confirm", "createWait"} /\ draft'[w] = Partial(w)
        BY <3>2, ProceedMoves DEF CreateWaits, CreateAccepted
      <4>2. QED BY <2>1, <2>2, <3>1, <4>1 DEF OwnMove
    <3>3. CASE CreateDeferred(w)
      <4>1. state'[w] = Partial(w) /\ step'[w] = "idle"
        BY <3>3, ReturnMoves DEF CreateDeferred, Errors
      <4>2. QED BY <2>2, <3>1, <4>1 DEF OwnMove
    <3>4. QED BY <2>2, <3>2, <3>3, RetryMoves
  <2>3. CASE \E b \in BOOLEAN :
               /\ PutCreates(w, plan[w].spec, b)
               /\ CreateWaits(w) \/ CreateDeferred(w) \/ CreateAccepted(w) \/ Retry(w)
    BY <2>1, <2>2, <2>3, PutCreatesType DEF TypeOK
  <2>4. CASE /\ PutAdopts(plan[w].spec)
             /\ CreateWaits(w) \/ CreateAccepted(w) \/ Retry(w)
    BY <2>2, <2>4 DEF PutAdopts, serviceVars, Live
  <2>5. CASE Errors(w, NoState)
    BY <2>1, <2>5, ReturnMoves DEF Errors, OwnMove, Ends
  <2>6. QED BY <1>2, <2>3, <2>4, <2>5 DEF SendCreate
<1>3. CASE Confirm(w)
  <2>1. plan[w].spec \in CertificateSpec /\ draft[w] \in ResourceState
    BY <1>3, PlanType DEF Confirm, StepOK, TypeOK, ClientTypeOK
  <2>2. CASE Live /\ Succeeds(w, Computed(registration, plan[w].spec, FALSE))
    <3>1. Live' /\ registration' = registration
      BY <1>3, <2>2 DEF Confirm, serviceVars, Live
    <3>2. state'[w] = Computed(registration, plan[w].spec, FALSE) /\ step'[w] = "idle"
      BY <2>2, ReturnMoves DEF Succeeds
    <3>3. QED BY <2>1, <2>2, <3>1, <3>2, ComputedIsSomething DEF OwnMove
  <2>3. CASE Succeeds(w, [draft[w] EXCEPT !.tainted = FALSE])
    <3>1. [draft[w] EXCEPT !.tainted = FALSE] \in ResourceState
          /\ [draft[w] EXCEPT !.tainted = FALSE].id = draft[w].id
      BY <2>1 DEF ResourceState
    <3>2. state'[w] = [draft[w] EXCEPT !.tainted = FALSE] /\ step'[w] = "idle"
      BY <2>3, ReturnMoves DEF Succeeds
    <3>3. QED BY <1>3, <3>1, <3>2, NoStateAssumption DEF Confirm, OwnMove
  <2>4. QED BY <1>3, <2>2, <2>3 DEF Confirm
<1>4. CASE CreatePublished(w) \/ CreateFailed(w) \/ CreateGivesUp(w)
  <2>1. /\ step[w] = "createWait" /\ UNCHANGED registration
        /\ plan[w].spec \in CertificateSpec /\ draft[w] # NoState
    BY <1>4, PlanType DEF CreatePublished, CreateFailed, CreateGivesUp, Forgotten, StepOK
  <2>2. \/ \E b \in BOOLEAN : Live /\ ReturnTo(w, Computed(registration, plan[w].spec, b), b)
        \/ Errors(w, draft[w])
    BY <1>4 DEF CreatePublished, Realised, CreateFailed, CreateGivesUp, Succeeds, Errors
  <2>3. CASE \E b \in BOOLEAN : Live /\ ReturnTo(w, Computed(registration, plan[w].spec, b), b)
    <3>1. PICK b \in BOOLEAN : Live /\ ReturnTo(w, Computed(registration, plan[w].spec, b), b)
      BY <2>3
    <3>2. state'[w] = Computed(registration, plan[w].spec, b) /\ step'[w] = "idle"
      BY <3>1, ReturnMoves
    <3>3. Live' /\ state'[w] # NoState /\ state'[w].id = registration'.id
      BY <2>1, <3>1, <3>2, ComputedIsSomething DEF Live
    <3> QED BY <3>2, <3>3 DEF OwnMove
  <2>4. CASE Errors(w, draft[w])
    BY <2>1, <2>4, ReturnMoves DEF Errors, OwnMove
  <2>5. QED BY <2>2, <2>3, <2>4
<1>5. QED BY <1>1, <1>2, <1>3, <1>4

LEMMA UpdateMoves ==
  ASSUME TypeOK, TypeOK', StepOK, NEW w \in Workspaces,
         BeginUpdate(w) \/ SendUpdate(w) \/ UpdatePublished(w)
         \/ UpdateGivesUp(w) \/ RecordTruth(w)
  PROVE  OwnMove(w)
<1>1. CASE BeginUpdate(w)
  BY <1>1, BeginMoves DEF BeginUpdate, OwnMove
<1>2. CASE SendUpdate(w)
  <2>1. plan[w].spec \in CertificateSpec /\ step[w] = "update"
    BY <1>2, PlanType DEF SendUpdate, StepOK
  <2>2. CASE \E g \in {registration'.generation, 0} :
               Proceed(w, "updateWait", g, NoState) \/ Proceed(w, "conflict", g, NoState)
    BY <2>1, <2>2, ProceedMoves DEF OwnMove
  <2>3. CASE /\ PutReplaces(w, state[w].revision, plan[w].spec, FALSE)
             /\ Succeeds(w, Computed(registration', plan[w].spec, FALSE))
    <3>1. Live' /\ registration' \in Registration
      BY <2>1, <2>3, PutReplacesType DEF TypeOK
    <3>2. Computed(registration', plan[w].spec, FALSE) \in ResourceState
          /\ Computed(registration', plan[w].spec, FALSE).id = registration'.id
      BY <2>1, <3>1, ComputedType DEF Computed
    <3>3. state'[w] = Computed(registration', plan[w].spec, FALSE) /\ step'[w] = "idle"
      BY <2>3, ReturnMoves DEF Succeeds
    <3>4. QED BY <3>1, <3>2, <3>3, NoStateAssumption DEF OwnMove
  <2>4. CASE Retry(w)
    BY <2>4, RetryMoves
  <2>5. CASE Errors(w, state[w])
    BY <2>5, ReturnMoves DEF Errors, OwnMove, Ends
  <2>6. QED BY <1>2, <2>2, <2>3, <2>4, <2>5 DEF SendUpdate
<1>3. CASE UpdatePublished(w)
  <2>1. /\ Live /\ registration' = registration /\ plan[w].spec \in CertificateSpec
        /\ Succeeds(w, Computed(registration, plan[w].spec, FALSE))
    BY <1>3, PlanType DEF UpdatePublished, Realised, Forgotten, StepOK
  <2>2. state'[w] = Computed(registration, plan[w].spec, FALSE) /\ step'[w] = "idle"
    BY <2>1, ReturnMoves DEF Succeeds
  <2>3. Live' /\ state'[w] # NoState /\ state'[w].id = registration'.id
    BY <2>1, <2>2, ComputedIsSomething DEF Live
  <2>4. QED BY <2>2, <2>3 DEF OwnMove
<1>4. CASE UpdateGivesUp(w)
  BY <1>4, ProceedMoves DEF UpdateGivesUp, OwnMove
<1>5. CASE RecordTruth(w)
  <2>1. UNCHANGED registration
    BY <1>5 DEF RecordTruth, serviceVars
  <2>2. CASE Live /\ Errors(w, ServerTruth(registration, FALSE))
    <3>1. registration.spec \in CertificateSpec
      BY <2>2 DEF TypeOK, ServiceTypeOK, Live, Registration
    <3>2. state'[w] = ServerTruth(registration, FALSE) /\ step'[w] = "idle"
      BY <2>2, ReturnMoves DEF Errors
    <3>3. Live' /\ state'[w] # NoState /\ state'[w].id = registration'.id
      BY <2>1, <2>2, <3>1, <3>2, ComputedIsSomething DEF Live
    <3>4. QED BY <3>2, <3>3 DEF OwnMove
  <2>3. CASE Errors(w, state[w])
    BY <2>3, ReturnMoves DEF Errors, OwnMove, Ends
  <2>4. QED BY <1>5, <2>2, <2>3 DEF RecordTruth
<1>6. QED BY <1>1, <1>2, <1>3, <1>4, <1>5

LEMMA DeleteMoves ==
  ASSUME TypeOK, NEW w \in Workspaces,
         BeginDestroy(w) \/ SendDelete(w) \/ DeleteEnds(w)
  PROVE  OwnMove(w)
<1>1. CASE BeginDestroy(w)
  BY <1>1, BeginMoves DEF BeginDestroy, OwnMove
<1>2. CASE SendDelete(w)
  <2>1. CASE DeleteAccepts(state[w].spec.deletion_policy) /\ Proceed(w, "deleteWait", 0, NoState)
    BY <1>2, <2>1, ProceedMoves DEF SendDelete, DeleteAccepts, Live, OwnMove
  <2>2. CASE Errors(w, state[w])
    BY <2>2, ReturnMoves DEF Errors, OwnMove, Ends
  <2>3. CASE DeleteFindsNothing /\ Succeeds(w, NoState)
    BY <2>3, ReturnMoves DEF Succeeds, DeleteFindsNothing, serviceVars, Live, OwnMove
  <2>4. QED BY <1>2, <2>1, <2>2, <2>3, RetryMoves DEF SendDelete
<1>3. CASE DeleteEnds(w)
  BY <1>3, ReturnMoves DEF DeleteEnds, Succeeds, Errors, OwnMove, Ends
<1>4. QED BY <1>1, <1>2, <1>3

LEMMA SurroundingMoves ==
  ASSUME TypeOK, NEW w \in Workspaces,
         Refresh(w) \/ ImportState(w) \/ Untaint(w) \/ RequestLost(w) \/ Poll(w) \/ Crash(w)
  PROVE  OwnMove(w)
<1>1. Live => registration.spec \in CertificateSpec
  BY DEF TypeOK, ServiceTypeOK, Live, Registration
<1>2. CASE Refresh(w)
  <2>1. /\ registration' = registration /\ step'[w] = "idle"
        /\ state[w] \in ResourceState
        /\ state'[w] = IF Live THEN ServerTruth(registration, state[w].tainted) ELSE NoState
    BY <1>2 DEF Refresh, serviceVars, TypeOK, ClientTypeOK
  <2>2. state[w].tainted \in BOOLEAN
    BY <2>1 DEF ResourceState
  <2>3. QED BY <1>1, <2>1, <2>2, ComputedIsSomething DEF Live, OwnMove
<1>3. CASE ImportState(w)
  <2>1. registration' = registration /\ Live /\ Succeeds(w, ServerTruth(registration, FALSE))
    BY <1>3 DEF ImportState, serviceVars
  <2>2. QED BY <1>1, <2>1, ComputedIsSomething, ReturnMoves DEF Succeeds, Live, OwnMove
<1>4. CASE RequestLost(w)
  BY <1>4, RetryMoves DEF RequestLost
<1>5. CASE Poll(w)
  BY <1>5 DEF Poll, clientVars, OwnMove
<1>6. CASE Crash(w)
  BY <1>6, ReturnMoves DEF Crash, Errors, OwnMove, Ends
<1>7. CASE Untaint(w)
  <2>1. /\ step'[w] = step[w] /\ draft'[w] = draft[w] /\ errored'[w] = errored[w]
        /\ step[w] = "idle" /\ state[w] \in ResourceState
        /\ state'[w] = [state[w] EXCEPT !.tainted = FALSE]
    BY <1>7 DEF Untaint, TypeOK, ClientTypeOK
  <2>2. state'[w] \in ResourceState /\ state'[w].id = state[w].id
    BY <2>1 DEF ResourceState
  <2>3. QED BY <2>1, <2>2, NoStateAssumption DEF OwnMove
<1>8. QED BY <1>2, <1>3, <1>4, <1>5, <1>6, <1>7

\* No step, of whomever, does anything else to a workspace.
LEMMA EveryMove ==
  ASSUME TypeOK, TypeOK', StepOK, WaitsForGone, [Next]_vars
  PROVE  \A w \in Workspaces : OwnMove(w)
<1>1. CASE Service \/ UNCHANGED vars
  BY <1>1 DEF Service, vars, clientVars, OwnMove
<1>2. ASSUME NEW v \in Workspaces, Exchange(v) \/ Operator(v) \/ Poll(v) \/ Crash(v)
      PROVE  \A w \in Workspaces : OwnMove(w)
  <2>1. OwnMove(v)
    BY <1>2, CreateMoves, UpdateMoves, DeleteMoves, SurroundingMoves DEF Exchange, Operator
  <2>2. \A w \in Workspaces \ {v} : OwnMove(w)
    BY <1>2, OneWorkspaceMoves DEF OwnMove
  <2>3. QED BY <2>1, <2>2
<1>3. QED BY <1>1, <1>2 DEF Next

\* An id that is not stored is not stored later, for ids are used once.
LEMMA GoneStays ==
  ASSUME TypeOK, ServiceEffect, NEW n \in Nat, n <= created, ~(Live /\ registration.id = n)
  PROVE  ~(Live' /\ registration'.id = n)
<1>1. created \in Nat
  BY DEF TypeOK, ServiceTypeOK
<1>2. QED BY <1>1 DEF ServiceEffect, Kept, Inserted, Replaced, Removed

LEMMA IdOfState ==
  ASSUME TypeOK, RevisionInv, NEW w \in Workspaces, state[w] # NoState
  PROVE  state[w].id \in Nat /\ state[w].id <= created
<1>1. state[w] \in ResourceState /\ state[w] \in Held
  BY DEF TypeOK, ClientTypeOK, Held
<1>2. QED BY <1>1 DEF RevisionInv, ResourceState

LEMMA NextWaits ==
  ASSUME TypeOK, TypeOK', StepOK, RevisionInv, WaitsForGone, [Next]_vars
  PROVE  WaitsForGone'
<1> SUFFICES ASSUME NEW w \in Workspaces
             PROVE  /\ step'[w] \in Creating => state'[w] = NoState
                    /\ step'[w] = "deleteWait" /\ state'[w] # NoState => ~(Live' /\ registration'.id = state'[w].id)
  BY DEF WaitsForGone
<1>1. OwnMove(w) /\ ServiceEffect
  BY EveryMove, StepEffect
<1>2. step'[w] \in Creating => state'[w] = NoState
  BY <1>1 DEF OwnMove, Ends, WaitsForGone, Creating
<1>3. ASSUME step'[w] = "deleteWait", state'[w] # NoState
      PROVE  ~(Live' /\ registration'.id = state'[w].id)
  <2>1. state'[w] = state[w] /\ (step[w] = "deleteWait" \/ ~Live')
    BY <1>1, <1>3 DEF OwnMove, Ends
  <2>2. CASE step[w] = "deleteWait"
    BY <1>1, <1>3, <2>1, <2>2, IdOfState, GoneStays DEF WaitsForGone
  <2>3. QED BY <2>1, <2>2
<1>4. QED BY <1>2, <1>3

LEMMA InitWaits == Init => WaitsForGone
BY DEF Init, WaitsForGone, Creating

\* Throughout a Create nothing is in state, and throughout the wait of a Delete
\* what is in state is not what is live (Create, Delete).
THEOREM WaitsAreForGone == Spec => []WaitsForGone
<1>1. TypeOK /\ StepOK /\ RevisionInv /\ TypeOK' /\ WaitsForGone /\ [Next]_vars => WaitsForGone'
  BY NextWaits
<1>2. QED BY <1>1, InitWaits, RevisionsStayBehind, PTL DEF Spec

\* For any number of workspaces, plans and retries: what leaves a state file, by
\* Read, Delete or an apply that fails, is no longer live at the service.
THEOREM ForgottenIsGone == Spec => GoneBeforeForgotten
<1>1. TypeOK /\ StepOK /\ RevisionInv /\ TypeOK' /\ WaitsForGone /\ [Next]_vars =>
        [\A w \in Workspaces :
           state[w] # NoState /\ state'[w] = NoState
           => ~(Live' /\ registration'.id = state[w].id)]_vars
  <2> SUFFICES ASSUME TypeOK, StepOK, RevisionInv, TypeOK', WaitsForGone, Next,
                      NEW w \in Workspaces, state[w] # NoState, state'[w] = NoState
               PROVE  ~(Live' /\ registration'.id = state[w].id)
    OBVIOUS
  <2>1. OwnMove(w) /\ ServiceEffect
    BY EveryMove, StepEffect
  <2>2. ~Live' \/ step[w] = "deleteWait"
    BY <2>1 DEF OwnMove, Ends, WaitsForGone, Creating
  <2>3. CASE step[w] = "deleteWait"
    BY <2>1, <2>3, IdOfState, GoneStays DEF WaitsForGone
  <2>4. QED BY <2>2, <2>3
<1>2. QED
  BY <1>1, RevisionsStayBehind, WaitsAreForGone, PTL DEF Spec, GoneBeforeForgotten

----------------------------------------------------------------------------
(* Who answers for a live registration.                                      *)

\* w has the registration in state, is about to send or has been answered about
\* it, or has been told that its Create failed.
Tracks(w) ==
  \/ state[w] # NoState /\ state[w].id = registration.id
  \/ step[w] = "create"
  \/ step[w] \in {"confirm", "createWait"} /\ draft[w].id = registration.id
  \/ step[w] = "idle" /\ state[w] = NoState /\ errored[w]

\* OrphansAreReported is not inductive: a Create in flight may be about another
\* registration, and end with a draft of that one.
Tracked ==
  Live /\ registration.id # 0 /\ registration.owner = CallerPrincipalID =>
    \E w \in Workspaces : Tracks(w)

\* While the registration stays, the workspace that answers for it does.
LEMMA TracksOn ==
  ASSUME WaitsForGone, Kept \/ Replaced, Live, NEW w \in Workspaces, OwnMove(w), Tracks(w)
  PROVE  Tracks(w)'
<1>1. registration'.id = registration.id /\ Live'
  BY DEF Kept, Replaced
<1>2. /\ step[w] \in Creating => state[w] = NoState
      /\ step[w] = "deleteWait" /\ state[w] # NoState => registration.id # state[w].id
  BY DEF WaitsForGone
<1>3. QED BY <1>1, <1>2, Zenon DEF Tracks, OwnMove, Ends, Creating

\* Whoever creates a registration answers for it from then on.
LEMMA CreatorTracks ==
  ASSUME WaitsForGone, Live', NEW w \in Workspaces, SendCreate(w), OwnMove(w)
  PROVE  Tracks(w)'
<1>1. step[w] = "create" /\ state[w] = NoState
  BY DEF SendCreate, WaitsForGone, Creating
<1>2. QED BY <1>1 DEF Tracks, OwnMove, Ends

LEMMA WhoCreates ==
  ASSUME TypeOK, StepOK, Next, ~Live, Live', registration'.owner = CallerPrincipalID
  PROVE  \E w \in Workspaces : SendCreate(w)
<1>1. CASE Service
  <2>1. CreateElsewhere
    BY <1>1 DEF Service, Publish, Remove
  <2>2. PICK p \in Principals \ {CallerPrincipalID}, s \in CertificateSpec :
               registration' = Seeded(created + 1, p, s)
    BY <2>1 DEF CreateElsewhere
  <2>3. QED BY <2>2 DEF Seeded
<1>2. ASSUME NEW w \in Workspaces, Exchange(w) \/ Operator(w) \/ Poll(w) \/ Crash(w), ~SendCreate(w)
      PROVE  FALSE
  <2>1. CASE UNCHANGED registration
    BY <2>1 DEF Live
  <2>2. CASE Poll(w)
    BY <2>2 DEF Poll, PollOperation, PollSettles, PollFails, PollRuns, Fulfilled, Live
  <2>3. CASE SendUpdate(w) \/ SendDelete(w)
    BY <2>1, <2>3 DEF SendUpdate, PutReplaces, PutConflicts, PutFindsNothing, SendDelete,
                      DeleteAccepts, DeleteRefuses, DeleteFindsNothing, serviceVars
  <2>4. QED
    BY <1>2, <2>1, <2>2, <2>3
       DEF Exchange, Operator, Confirm, CreatePublished, CreateFailed, CreateGivesUp, UpdatePublished,
           UpdateGivesUp, RecordTruth, DeleteEnds, RequestLost, BeginCreate, BeginUpdate, BeginDestroy,
           Begin, Refresh, ImportState, Untaint, Crash, Forgotten, serviceVars
<1>3. QED BY <1>1, <1>2 DEF Next

LEMMA NextTracked ==
  ASSUME TypeOK, TypeOK', StepOK, WaitsForGone, Tracked, [Next]_vars
  PROVE  Tracked'
<1> SUFFICES ASSUME Live', registration'.id # 0, registration'.owner = CallerPrincipalID
             PROVE  \E w \in Workspaces : Tracks(w)'
  BY DEF Tracked
<1>1. ServiceEffect /\ \A w \in Workspaces : OwnMove(w)
  BY EveryMove, StepEffect
<1>2. CASE (Kept \/ Replaced) /\ Live
  <2>1. registration.id # 0 /\ registration.owner = CallerPrincipalID
    BY <1>2 DEF Kept, Replaced
  <2>2. PICK w \in Workspaces : Tracks(w)
    BY <1>2, <2>1 DEF Tracked
  <2>3. Tracks(w)'
    BY <1>1, <1>2, <2>2, TracksOn
  <2>4. QED BY <2>3
<1>3. CASE Inserted
  <2>1. ~Live /\ Next
    BY <1>3 DEF Inserted, vars, serviceVars, Live
  <2>2. PICK w \in Workspaces : SendCreate(w)
    BY <2>1, WhoCreates
  <2>3. QED BY <1>1, <2>2, CreatorTracks
<1>4. QED BY <1>1, <1>2, <1>3 DEF ServiceEffect, Kept, Replaced, Removed

LEMMA InitTracked == Init => Tracked
BY DEF Init, ServiceInit, Tracked, Live, Seeded

\* At every moment some workspace answers for the live registration of ours.
THEOREM SomeoneTracks == Spec => []Tracked
<1>1. TypeOK /\ StepOK /\ TypeOK' /\ WaitsForGone /\ Tracked /\ [Next]_vars => Tracked'
  BY NextTracked
<1>2. QED BY <1>1, InitTracked, LifecycleTypes, WaitsAreForGone, PTL DEF Spec

\* For any number of workspaces: a registration that a Create left behind, its
\* answer lost or its process dead, was reported by somebody's failed Create.
THEOREM OrphansReported == Spec => []OrphansAreReported
<1>1. Tracked => OrphansAreReported
  BY DEF Tracked, Tracks, OrphansAreReported
<1>2. QED BY <1>1, SomeoneTracks, PTL

----------------------------------------------------------------------------
(* What EveryApplyReturns rests on.                                          *)

\* How many exchanges an apply has still to settle, at most.
Left(s) == CASE s \in {"create", "update", "delete"} -> 3
             [] s \in {"confirm", "createWait", "updateWait", "deleteWait"} -> 2
             [] s \in {"conflict", "incomplete"} -> 1
             [] s = "idle" -> 0

\* w's apply settles the exchange it is at, or retries within the bound.
Nearer(w) ==
  \/ Left(step'[w]) < Left(step[w])
  \/ step'[w] = step[w] /\ attempt'[w] = attempt[w] + 1 /\ attempt'[w] <= MaxRetries

LEMMA LeftIs ==
  /\ Left("create") = 3 /\ Left("update") = 3 /\ Left("delete") = 3
  /\ Left("confirm") = 2 /\ Left("createWait") = 2
  /\ Left("updateWait") = 2 /\ Left("deleteWait") = 2
  /\ Left("conflict") = 1 /\ Left("incomplete") = 1 /\ Left("idle") = 0
BY DEF Left

\* A return to Terraform ends an apply in flight.
LEMMA ReturnEnds ==
  ASSUME TypeOK, NEW w \in Workspaces, step[w] # "idle", NEW st, NEW e, ReturnTo(w, st, e)
  PROVE  Nearer(w)
<1>1. step'[w] = "idle"
  BY DEF ReturnTo, TypeOK, ClientTypeOK
<1>2. step[w] \in Step
  BY DEF TypeOK, ClientTypeOK
<1>3. QED BY <1>1, <1>2, LeftIs DEF Nearer, Step

LEMMA RetryIsBounded ==
  ASSUME TypeOK, NEW w \in Workspaces, step[w] # "idle", Retry(w)
  PROVE  Nearer(w)
<1>1. CASE Errors(w, state[w])
  BY <1>1, ReturnEnds DEF Errors
<1>2. CASE attempt[w] < MaxRetries /\ attempt' = [attempt EXCEPT ![w] = @ + 1] /\ step' = step
  BY <1>2, BoundsAssumption DEF Nearer, TypeOK, ClientTypeOK
<1>3. QED BY <1>1, <1>2 DEF Retry

LEMMA ProceedAdvances ==
  ASSUME TypeOK, NEW w \in Workspaces, NEW next, NEW g, NEW d, Proceed(w, next, g, d),
         Left(next) < Left(step[w])
  PROVE  Nearer(w)
<1>1. step'[w] = next
  BY DEF Proceed, TypeOK, ClientTypeOK
<1>2. QED BY <1>1 DEF Nearer

\* Every exchange of an apply.
LEMMA ExchangeAdvances ==
  ASSUME TypeOK, NEW w \in Workspaces, Exchange(w)
  PROVE  step[w] # "idle" /\ Nearer(w)
<1>1. CASE SendCreate(w)
  <2>1. step[w] = "create"
    BY <1>1 DEF SendCreate
  <2>2. CASE CreateWaits(w) \/ CreateAccepted(w)
    BY <2>1, <2>2, ProceedAdvances, LeftIs DEF CreateWaits, CreateAccepted
  <2>3. CASE Retry(w) \/ CreateDeferred(w) \/ Errors(w, NoState)
    BY <2>1, <2>3, RetryIsBounded, ReturnEnds DEF CreateDeferred, Errors
  <2>4. QED BY <1>1, <2>1, <2>2, <2>3 DEF SendCreate
<1>2. CASE SendUpdate(w)
  <2>1. step[w] = "update"
    BY <1>2 DEF SendUpdate
  <2>2. ASSUME NEW g, Proceed(w, "updateWait", g, NoState) \/ Proceed(w, "conflict", g, NoState)
        PROVE  Nearer(w)
    BY <2>1, <2>2, ProceedAdvances, LeftIs
  <2>3. CASE Retry(w) \/ \E st, e : ReturnTo(w, st, e)
    BY <2>1, <2>3, RetryIsBounded, ReturnEnds
  <2>4. QED BY <1>2, <2>1, <2>2, <2>3 DEF SendUpdate, Succeeds, Errors
<1>3. CASE SendDelete(w)
  <2>1. step[w] = "delete"
    BY <1>3 DEF SendDelete
  <2>2. CASE Proceed(w, "deleteWait", 0, NoState)
    BY <2>1, <2>2, ProceedAdvances, LeftIs
  <2>3. CASE Retry(w) \/ \E st, e : ReturnTo(w, st, e)
    BY <2>1, <2>3, RetryIsBounded, ReturnEnds
  <2>4. QED BY <1>3, <2>1, <2>2, <2>3 DEF SendDelete, Succeeds, Errors
<1>4. CASE UpdateGivesUp(w)
  <2>1. step[w] = "updateWait" /\ Proceed(w, "incomplete", 0, NoState)
    BY <1>4 DEF UpdateGivesUp
  <2>2. QED BY <2>1, ProceedAdvances, LeftIs
<1>5. CASE RequestLost(w)
  BY <1>5, RetryIsBounded DEF RequestLost
<1>6. CASE Confirm(w) \/ CreatePublished(w) \/ CreateFailed(w) \/ CreateGivesUp(w)
           \/ UpdatePublished(w) \/ RecordTruth(w) \/ DeleteEnds(w)
  <2>1. step[w] # "idle" /\ \E st, e : ReturnTo(w, st, e)
    BY <1>6 DEF Confirm, CreatePublished, CreateFailed, CreateGivesUp,
                UpdatePublished, RecordTruth, DeleteEnds, Succeeds, Errors
  <2>2. QED BY <2>1, ReturnEnds
<1>7. QED BY <1>1, <1>2, <1>3, <1>4, <1>5, <1>6 DEF Exchange

\* For any number of workspaces: each exchange of an apply settles one of its few
\* requests and waits or is one of the bounded retries, and nothing the others,
\* the service or the operator do sends an apply in flight back.
THEOREM AppliesAdvance ==
  Spec => [][\A w \in Workspaces :
               /\ Exchange(w) => step[w] # "idle" /\ Nearer(w)
               /\ step[w] # "idle" =>
                    Nearer(w) \/ (step'[w] = step[w] /\ attempt'[w] = attempt[w])]_vars
<1>1. TypeOK /\ [Next]_vars =>
        [\A w \in Workspaces :
               /\ Exchange(w) => step[w] # "idle" /\ Nearer(w)
               /\ step[w] # "idle" =>
                    Nearer(w) \/ (step'[w] = step[w] /\ attempt'[w] = attempt[w])]_vars
  <2> SUFFICES ASSUME TypeOK, Next, NEW w \in Workspaces, step[w] # "idle", ~Exchange(w)
               PROVE  Nearer(w) \/ (step'[w] = step[w] /\ attempt'[w] = attempt[w])
    BY ExchangeAdvances
  <2>1. CASE Service
    BY <2>1 DEF Service, clientVars
  <2>2. ASSUME NEW v \in Workspaces, Exchange(v) \/ Operator(v) \/ Poll(v) \/ Crash(v)
        PROVE  Nearer(w) \/ (step'[w] = step[w] /\ attempt'[w] = attempt[w])
    <3>1. CASE v # w
      BY <2>2, <3>1, OneWorkspaceMoves
    <3>2. CASE v = w /\ Crash(w)
      BY <3>2, ReturnEnds DEF Crash, Errors
    <3>3. CASE v = w /\ Poll(w)
      BY <3>3 DEF Poll, clientVars
    <3>4. ~Operator(w)
      BY DEF Operator, BeginCreate, BeginUpdate, BeginDestroy, Begin, Refresh, ImportState, Untaint
    <3>5. QED BY <2>2, <3>1, <3>2, <3>3, <3>4
  <2>3. QED BY <2>1, <2>2 DEF Next
<1>2. QED BY <1>1, TypeCorrect, PTL DEF Spec
=============================================================================
