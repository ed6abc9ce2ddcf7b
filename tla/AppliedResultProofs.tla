-------------------------- MODULE AppliedResultProofs --------------------------
(***************************************************************************)
(* Proofs about what an apply leaves behind and what it answers, for all   *)
(* configurations, spellings, grants and bounds.  The plan at hand is the  *)
(* one of the configuration and of the state, which stands for the         *)
(* registration seen when it was made.                                     *)
(***************************************************************************)
EXTENDS PlanAndApplyProofs

----------------------------------------------------------------------------
(* What a plan is.                                                           *)

LEMMA PlanOfCreate ==
  ASSUME NEW c
  PROVE  PlanFor(c, NoState) =
           [kind |-> "create", attributes |-> c.attributes, wait_for |-> c.wait_for,
            computed |-> PlanUris(c, AllUnknown), reissue |-> FALSE]
<1> DEFINE computed == PlanUris(c, AllUnknown)
           kind == CASE NoState = NoState -> "create"
                     [] Replaces(NoState, c) -> "replace"
                     [] NoState # NoState /\ [attributes |-> c.attributes, wait_for |-> c.wait_for,
                                              computed |-> computed] = NoState -> "none"
                     [] OTHER -> "update"
<1>1. PlanFor(c, NoState) =
        [kind |-> kind, attributes |-> c.attributes, wait_for |-> c.wait_for,
         computed |-> computed, reissue |-> FALSE]
  BY Zenon DEF PlanFor
<1>2. kind = "create"
  <2> HIDE DEF computed
  <2>1. ~Replaces(NoState, c)
    BY DEF Replaces
  <2> QED
    BY <2>1, Zenon
<1> QED
  BY <1>1, <1>2, Zenon

\* Deleting what a replacement replaces leaves the plan of a create.
LEMMA PlanOfReplacement ==
  ASSUME NEW c, NEW s, Replaces(s, c)
  PROVE  [PlanFor(c, s) EXCEPT !.kind = "create"] = PlanFor(c, NoState)
<1> DEFINE computed == PlanUris(c, AllUnknown)
           kind == CASE s = NoState -> "create"
                     [] Replaces(s, c) -> "replace"
                     [] s # NoState /\ [attributes |-> c.attributes, wait_for |-> c.wait_for,
                                        computed |-> computed] = s -> "none"
                     [] OTHER -> "update"
           reissue == FALSE
<1>1. PlanFor(c, s) =
        [kind |-> kind, attributes |-> c.attributes, wait_for |-> c.wait_for,
         computed |-> computed, reissue |-> reissue]
  BY Zenon DEF PlanFor
<1> HIDE DEF kind, computed, reissue
<1>2. [PlanFor(c, s) EXCEPT !.kind = "create"] =
        [kind |-> "create", attributes |-> c.attributes, wait_for |-> c.wait_for,
         computed |-> computed, reissue |-> reissue]
  BY <1>1
<1> QED
  BY <1>2, PlanOfCreate DEF computed, reissue

\* Over a state that is not replaced, the plan is empty if state already is what
\* would be planned.
LEMMA PlanOverState ==
  ASSUME NEW c, NEW s, s # NoState, ~Replaces(s, c)
  PROVE  LET computed == PlanUris(c, Carry(c, s, ProposedComputed(c, s)))
         IN  /\ PlanFor(c, s).attributes = c.attributes
             /\ PlanFor(c, s).wait_for = c.wait_for
             /\ PlanFor(c, s).computed = computed
             /\ PlanFor(c, s).kind \in {"none", "update"}
             /\ PlanFor(c, s).kind = "none" <=>
                  s = [attributes |-> c.attributes, wait_for |-> c.wait_for,
                       computed |-> computed]
<1> DEFINE computed == PlanUris(c, Carry(c, s, ProposedComputed(c, s)))
           kind == CASE s = NoState -> "create"
                     [] Replaces(s, c) -> "replace"
                     [] s # NoState /\ [attributes |-> c.attributes, wait_for |-> c.wait_for,
                                        computed |-> computed] = s -> "none"
                     [] OTHER -> "update"
           reissue == IssuanceRelevantChanged(s.attributes, c.attributes)
<1>1. PlanFor(c, s) =
        [kind |-> kind, attributes |-> c.attributes, wait_for |-> c.wait_for,
         computed |-> computed, reissue |-> TRUE /\ reissue]
  BY Zenon DEF PlanFor
<1>2. /\ kind \in {"none", "update"}
      /\ kind = "none" <=>
           s = [attributes |-> c.attributes, wait_for |-> c.wait_for, computed |-> computed]
  <2> HIDE DEF computed
  <2> DEFINE same == [attributes |-> c.attributes, wait_for |-> c.wait_for,
                      computed |-> computed] = s
  <2>1. CASE same
    <3>1. kind = "none"
      BY <2>1, Zenon
    <3> QED
      BY <2>1, <3>1
  <2>2. CASE ~same
    <3>1. kind = "update"
      BY <2>2, Zenon
    <3> QED
      BY <2>2, <3>1
  <2> QED
    BY <2>1, <2>2
<1> HIDE DEF kind, computed, reissue
<1>3. /\ PlanFor(c, s).kind = kind /\ PlanFor(c, s).attributes = c.attributes
      /\ PlanFor(c, s).wait_for = c.wait_for /\ PlanFor(c, s).computed = computed
  BY <1>1
<1> QED
  BY <1>2, <1>3 DEF computed

----------------------------------------------------------------------------
(* The plan at hand.                                                         *)

\* The plan is the one of the configuration over state, and of nothing once what
\* it replaces is deleted; an update that waits has told the service something.
PlanIsOfConfig ==
  /\ step # "idle" /\ plan.kind = "create" => plan = PlanFor(config, NoState)
  /\ step # "idle" /\ plan.kind # "create" => plan = PlanFor(config, state)
  /\ step # "idle" /\ plan.kind = "replace" => Replaces(state, config)
  /\ step # "idle" /\ plan.kind = "update" => ~Replaces(state, config)
  /\ step = "waiting" /\ plan.kind = "update" => ~SpecEqual(state.attributes, plan.attributes)

LEMMA OthersKeepThePlan ==
  ASSUME \/ Fulfil \/ Publish \/ Renew \/ WriteElsewhere \/ InjectServerLabel \/ Remove
         \/ SeedRegistration \/ Regrant
  PROVE  UNCHANGED <<config, state, step, plan, outcome>>
BY DEF Fulfil, Publish, Renew, WriteElsewhere, InjectServerLabel, Remove, SeedRegistration,
       Regrant, Event, workspace

LEMMA DestroyEndsOrCreates ==
  ASSUME TypeInv, Destroy
  PROVE  /\ settled' = FALSE
         /\ \/ step' = "idle"
            \/ step' = "planned" /\ plan'.kind = "create"
<1> DEFINE p == [plan EXCEPT !.kind = "create"]
<1>1. /\ settled' = FALSE
      /\ \/ step' = "idle"
         \/ step' = "planned" /\ plan' = p
  BY DEF Destroy, Begin
<1>2. plan \in Plan
  BY DEF Destroy, Begin, TypeInv, StepOK
<1>3. p.kind = "create"
  BY <1>2 DEF Plan
<1> HIDE DEF p
<1> QED
  BY <1>1, <1>3

LEMMA AppliesEndOrWait ==
  ASSUME Create \/ Shortcut \/ Update \/ Finish \/ GiveUp
  PROVE  \/ step' = "idle"
         \/ /\ Create \/ Update
            /\ step' = "waiting" /\ UNCHANGED <<config, plan, seen, outcome>>
            /\ Update => UNCHANGED state
BY DEF Create, Shortcut, Update, Finish, GiveUp, Errors, Wait, Succeeds, ReturnTo

LEMMA ReplacementIsOfState ==
  ASSUME NEW c \in Configuration, NEW s \in {NoState} \cup ResourceState,
         PlanFor(c, s).kind = "replace"
  PROVE  Replaces(s, c)
<1>1. s # NoState
  BY PlanOfCreate
<1> QED
  BY <1>1, PlanOverState

LEMMA PlanIsOfConfigStep ==
  ASSUME TypeInv, PlanIsOfConfig, Next
  PROVE  PlanIsOfConfig'
<1>1. config \in Configuration
  BY ConfigFacts DEF TypeInv
<1>2. CASE MakePlan
  <2> DEFINE s == Refreshed(registration, state)
             p == PlanFor(config, s)
  <2>1. config' = config /\ state' = s /\ s \in {NoState} \cup ResourceState /\ step = "idle"
    BY <1>2, RefreshedFacts DEF MakePlan, TypeInv, TypeOK
  <2>2. CASE step' = step
    BY <2>1, <2>2 DEF PlanIsOfConfig
  <2>3. CASE step' = "planned" /\ plan' = p /\ p.kind # "none"
    <3> HIDE DEF s
    <3>1. /\ p.kind = "create" => s = NoState
          /\ p.kind = "update" => ~Replaces(s, config)
          /\ p.kind = "replace" => Replaces(s, config)
      BY <1>1, <2>1, <2>3, PlanForFacts, ReplacementIsOfState
    <3> QED
      BY <2>1, <2>3, <3>1 DEF PlanIsOfConfig
  <2> QED
    BY <1>2, <2>2, <2>3 DEF MakePlan
<1>3. CASE Destroy
  <2>1. /\ step # "idle" /\ plan.kind = "replace" /\ config' = config
        /\ \/ step' = "idle"
           \/ step' = "planned" /\ plan' = [plan EXCEPT !.kind = "create"] /\ state' = NoState
    BY <1>3 DEF Destroy, Begin
  <2>2. plan = PlanFor(config, state) /\ Replaces(state, config)
    BY <2>1 DEF PlanIsOfConfig
  <2>3. CASE step' = "idle"
    BY <2>3 DEF PlanIsOfConfig
  <2>4. CASE step' = "planned" /\ plan' = [plan EXCEPT !.kind = "create"]
    <3>1. plan' = PlanFor(config, NoState)
      BY <2>2, <2>4, PlanOfReplacement
    <3>2. plan'.kind = "create"
      BY <3>1, PlanOfCreate
    <3> QED
      BY <2>1, <2>4, <3>1, <3>2 DEF PlanIsOfConfig
  <2> QED
    BY <2>1, <2>3, <2>4
<1>4. CASE Create \/ Shortcut \/ Update \/ Finish \/ GiveUp
  <2>1. CASE step' = "idle"
    BY <2>1 DEF PlanIsOfConfig
  <2>2. CASE Create /\ step' = "waiting" /\ UNCHANGED <<config, plan>>
    <3>1. step # "idle" /\ plan.kind = "create"
      BY <2>2 DEF Create, Begin
    <3> QED
      BY <2>2, <3>1 DEF PlanIsOfConfig
  <2>3. CASE Update /\ step' = "waiting" /\ UNCHANGED <<config, state, plan>>
    <3>1. step # "idle" /\ plan.kind = "update" /\ ~SpecEqual(state.attributes, plan.attributes)
      BY <2>3 DEF Update, Begin
    <3> QED
      BY <2>3, <3>1 DEF PlanIsOfConfig
  <2> QED
    BY <1>4, <2>1, <2>2, <2>3, AppliesEndOrWait
<1>5. CASE ImportState \/ Edit
  BY <1>5 DEF ImportState, Edit, PlanIsOfConfig
<1>6. CASE UNCHANGED <<config, state, step, plan>>
  BY <1>6 DEF PlanIsOfConfig
<1> QED
  BY <1>2, <1>3, <1>4, <1>5, <1>6, OthersKeepThePlan DEF Next

\* No apply works from a plan of another configuration or of another state.
THEOREM PlanIsKept == Spec => []PlanIsOfConfig
<1>1. Init => PlanIsOfConfig
  BY DEF Init, PlanIsOfConfig
<1>2. TypeInv /\ PlanIsOfConfig /\ [Next]_vars => PlanIsOfConfig'
  <2>1. UNCHANGED vars /\ PlanIsOfConfig => PlanIsOfConfig'
    BY DEF vars, PlanIsOfConfig
  <2> QED
    BY <2>1, PlanIsOfConfigStep
<1> QED
  BY <1>1, <1>2, PlansAreWhole, PTL DEF Spec

----------------------------------------------------------------------------
(* What the service stores for a configuration.                              *)

USE NullAssumption, NullProbeAssumption

\* spec says of the certificate what a says, in other spellings perhaps.
Says(spec, a) ==
  /\ Canonical[spec.dns_names] = Canonical[a.dns_names]
  /\ Canonical[spec.key_vault_id] = Canonical[a.key_vault_id]
  /\ spec.certificate_name = EffectiveCertificateName(a)
  /\ spec.issuance = a.issuance /\ spec.description = a.description
  /\ spec.deletion = a.deletion
  /\ spec.labels = (IF a.labels = Null THEN {} ELSE a.labels)

\* What a refresh leaves of spec in a.
Reads(a, spec) ==
  /\ Says(spec, a)
  /\ SameProbe(a.verification, spec.verification)
  /\ a.destination_id \in {Null, spec.destination_id}

Uncleared(a, spec) ==
  /\ a.verification # Null
  /\ a.verification.enabled
  /\ a.verification.endpoints = Null
  /\ spec.verification.endpoints # Null

\* What a write of a stores.
Means(spec, a) ==
  /\ Says(spec, a)
  /\ SameProbe(a.verification, spec.verification) \/ Uncleared(a, spec)
  /\ a.destination_id = Null \/ Folded[a.destination_id] = Folded[spec.destination_id]

LEMMA StoredMeans ==
  ASSUME NEW a \in Attributes, NEW g \in Seq(Grant), NEW previous \in Probe,
         ~MismatchedDestination(g, BuildSpec(a))
  PROVE  Means(Normalise(g, BuildSpec(a), previous), a)
<1> DEFINE wire == BuildSpec(a)
           spec == Normalise(g, wire, previous)
<1>1. wire \in WireSpec
  BY BuildSpecType
<1>2. /\ spec.dns_names = wire.dns_names /\ spec.key_vault_id = wire.key_vault_id
      /\ spec.certificate_name = wire.certificate_name /\ spec.issuance = wire.issuance
      /\ spec.description = wire.description /\ spec.deletion = wire.deletion
      /\ spec.labels = wire.labels
      /\ spec.destination_id = ResolveDestination(g, wire.key_vault_id)
      /\ spec.verification = MaterialiseVerification(wire.verification, previous)
  <2> HIDE DEF wire
  <2> QED
    BY <1>1 DEF Normalise, WireSpec
<1>3. Says(spec, a)
  <2> HIDE DEF spec
  <2> QED
    BY <1>2 DEF Says, BuildSpec
<1>4. a.destination_id = Null \/ Folded[a.destination_id] = Folded[spec.destination_id]
  <2> HIDE DEF spec
  <2> QED
    BY <1>2 DEF MismatchedDestination, BuildSpec
<1>5. SameProbe(a.verification, spec.verification) \/ Uncleared(a, spec)
  <2> DEFINE sent == wire.verification
             stored == spec.verification
  <2>1. sent = ProbeFacts(a.verification) /\ sent \in Probe
    BY ProbeTypes DEF BuildSpec, ProbeFacts, Attributes
  <2>2. stored = [sent EXCEPT !.endpoints = IF @ = Null THEN previous.endpoints ELSE @]
    BY <1>2 DEF MaterialiseVerification
  <2> HIDE DEF sent, stored, spec, wire
  <2>3. /\ stored \in Probe /\ stored.enabled = sent.enabled
        /\ sent.endpoints # Null => stored = sent
        /\ stored.endpoints = Null => stored = sent
    BY <2>1, <2>2 DEF Probe
  <2>4. ProbeFacts(stored) = stored
    BY <2>3 DEF ProbeFacts
  <2> DEFINE same == SameProbe(a.verification, stored)
  <2>5. same <=> sent.enabled = stored.enabled /\ (sent.enabled => sent = stored)
    <3>1. ProbeFacts(a.verification) = sent
      BY <2>1
    <3> QED
      BY <2>4, <3>1, Zenon DEF SameProbe
  <2>6. CASE stored = sent \/ ~sent.enabled
    <3>1. same
      BY <2>3, <2>5, <2>6
    <3> QED
      BY <3>1 DEF stored
  <2>7. CASE sent.enabled /\ stored # sent
    <3>1. a.verification # Null /\ sent = a.verification
      BY <2>1, <2>7 DEF ProbeFacts, DisabledProbe
    <3> QED
      BY <2>3, <2>7, <3>1 DEF Uncleared, stored
  <2> QED
    BY <2>6, <2>7
<1> QED
  BY <1>3, <1>4, <1>5 DEF Means

LEMMA SameProbeIsReflexive ==
  ASSUME NEW v
  PROVE  SameProbe(v, v)
BY DEF SameProbe

LEMMA KeptProbe ==
  ASSUME NEW stored, NEW prior
  PROVE  /\ SameProbe(VerificationFrom(stored, prior), stored)
         /\ SameProbe(prior, stored) => VerificationFrom(stored, prior) = prior
BY SameProbeIsReflexive, Zenon DEF VerificationFrom

\* The whole of a refresh, attribute by attribute.
LEMMA ServerTruthReads ==
  ASSUME NEW reg \in Registration, NEW s \in ResourceState
  PROVE  /\ ServerTruth(reg, s).wait_for = s.wait_for
         /\ ServerTruth(reg, s).attributes.name = reg.name
         /\ Reads(ServerTruth(reg, s).attributes, reg.spec)
<1> DEFINE b == SpecFromResponse(reg.name, reg.spec, s.attributes)
           a == KeepSpelling(b, s.attributes)
<1>1. /\ s.attributes \in Attributes
      /\ s.attributes.labels \in {Null} \cup SUBSET LabelKeys
      /\ s.attributes.verification \in {Null} \cup Probe
      /\ reg.name \in Names /\ reg.spec \in StoredSpec
  BY DEF ResourceState, Attributes, Registration
<1>2. b \in Attributes
  BY <1>1, SpecFromResponseType
<1>3. /\ b.description = reg.spec.description /\ b.deletion = reg.spec.deletion
      /\ b.labels = IF reg.spec.labels = {} /\ s.attributes.labels = Null
                    THEN Null ELSE reg.spec.labels
      /\ b.verification = VerificationFrom(reg.spec.verification, s.attributes.verification)
      /\ b.destination_id \in {Null, reg.spec.destination_id}
      /\ b.name = reg.name
  BY DEF SpecFromResponse, DestinationIDFromResponse
<1>4. /\ a.description = b.description /\ a.deletion = b.deletion /\ a.labels = b.labels
      /\ a.verification = b.verification /\ a.destination_id = b.destination_id
      /\ a.name = b.name
  <2> HIDE DEF b
  <2> QED
    BY <1>2 DEF KeepSpelling, Attributes
<1>5. ServerTruth(reg, s).attributes = a /\ ServerTruth(reg, s).wait_for = s.wait_for
  <2> HIDE DEF a
  <2>1. ServerTruth(reg, s) = [s EXCEPT !.attributes = a, !.computed = ComputedFrom(reg, s.wait_for)]
    BY DEF ServerTruth, ResourceState, a
  <2> QED
    BY <2>1 DEF ResourceState
<1> HIDE DEF a, b
<1>6. /\ Canonical[reg.spec.dns_names] = Canonical[a.dns_names]
      /\ Canonical[reg.spec.key_vault_id] = Canonical[a.key_vault_id]
      /\ reg.spec.certificate_name = EffectiveCertificateName(a)
      /\ reg.spec.issuance = a.issuance
  BY <1>5, ServerTruthFacts
<1>7. reg.spec.labels = (IF a.labels = Null THEN {} ELSE a.labels)
  <2>1. reg.spec.labels # Null
    BY <1>1 DEF StoredSpec, WireSpec
  <2> QED
    BY <1>3, <1>4, <2>1
<1>8. SameProbe(a.verification, reg.spec.verification)
  BY <1>3, <1>4, KeptProbe
<1> QED
  BY <1>3, <1>4, <1>5, <1>6, <1>7, <1>8 DEF Reads, Says

\* A refresh leaves the configuration that was applied as it is.
LEMMA ServerTruthKeeps ==
  ASSUME NEW reg \in Registration, NEW s \in ResourceState,
         reg.name = s.attributes.name, Means(reg.spec, s.attributes),
         ~Uncleared(s.attributes, reg.spec),
         s.attributes.destination_id \in {Null, reg.spec.destination_id}
  PROVE  ServerTruth(reg, s).attributes = s.attributes
<1> DEFINE a == s.attributes
           spec == reg.spec
           b == SpecFromResponse(reg.name, spec, a)
<1>1. a \in Attributes
  BY DEF ResourceState
<1>2. Says(spec, a) /\ SameProbe(a.verification, spec.verification)
  BY DEF Means
<1>3. /\ b.name = a.name /\ b.dns_names = spec.dns_names /\ b.key_vault_id = spec.key_vault_id
      /\ b.issuance = a.issuance /\ b.description = a.description /\ b.deletion = a.deletion
  BY <1>2 DEF SpecFromResponse, Says
<1>4. b.certificate_name = a.certificate_name
  BY <1>1, <1>2 DEF SpecFromResponse, Says, EffectiveCertificateName
<1>5. b.destination_id = a.destination_id
  BY DEF SpecFromResponse, DestinationIDFromResponse
<1>6. b.labels = a.labels
  BY <1>2 DEF SpecFromResponse, Says
<1>7. b.verification = a.verification
  BY <1>2, KeptProbe DEF SpecFromResponse
<1>8. /\ KeepDNSName(spec.dns_names, a.dns_names) = a.dns_names
      /\ KeepVault(spec.key_vault_id, a.key_vault_id) = a.key_vault_id
  BY <1>2 DEF Says, KeepDNSName, KeepVault
<1>9. b \in Attributes
  BY <1>1, SpecFromResponseType DEF Attributes, Registration
<1> HIDE DEF b
<1>10. KeepSpelling(b, a) = a
  BY <1>1, <1>3, <1>4, <1>5, <1>6, <1>7, <1>8, <1>9 DEF KeepSpelling, Attributes
<1>11. ServerTruth(reg, s).attributes = KeepSpelling(b, a)
  <2> DEFINE c == KeepSpelling(b, a)
  <2> HIDE DEF c
  <2>1. ServerTruth(reg, s) = [s EXCEPT !.attributes = c, !.computed = ComputedFrom(reg, s.wait_for)]
    BY DEF ServerTruth, ResourceState, b, c
  <2> QED
    BY <2>1 DEF ResourceState, c
<1> QED
  BY <1>10, <1>11

----------------------------------------------------------------------------
(* What an apply leaves behind.                                              *)

\* Until an update is applied its state reads what the workspace last wrote, if
\* that is what is stored.
StateReads ==
  PlannedUpdate /\ registration # NoRegistration =>
    /\ registration.name = config.attributes.name
    /\ settled => Reads(state.attributes, registration.spec)

\* What the workspace wrote and nobody changed means the configuration, while its
\* apply waits and after it.
SettledMeans ==
  settled /\ registration # NoRegistration /\ (step = "waiting" \/ Applied) =>
    registration.name = config.attributes.name /\ Means(registration.spec, config.attributes)

\* State is the configuration then, but where a refresh has read something else.
AppliedReads ==
  Applied =>
    /\ state # NoState
    /\ state.attributes.name = config.attributes.name
    /\ state.wait_for = config.wait_for
    /\ state.attributes = config.attributes \/ UnclearedEndpoints \/ RespelledDestination

AppliedInv == StateReads /\ SettledMeans /\ AppliedReads

LEMMA PlanAttributes ==
  ASSUME TypeInv, PlanIsOfConfig, step # "idle", plan.kind \in {"create", "update"}
  PROVE  plan.attributes = config.attributes /\ plan.wait_for = config.wait_for
<1>1. CASE plan.kind = "create"
  BY <1>1, PlanOfCreate DEF PlanIsOfConfig
<1>2. CASE plan.kind = "update"
  <2>1. plan = PlanFor(config, state) /\ ~Replaces(state, config)
    BY <1>2 DEF PlanIsOfConfig
  <2>2. state # NoState
    BY <1>2, <2>1, PlanOfCreate
  <2> QED
    BY <2>1, <2>2, PlanOverState
<1> QED
  BY <1>1, <1>2

LEMMA UnclearedIs == UnclearedEndpoints <=> Uncleared(config.attributes, registration.spec)
BY DEF UnclearedEndpoints, Uncleared

\* An apply that returns s without contradiction, its spec in storage.
LEMMA AgreedApply ==
  ASSUME TypeInv, NEW s \in ResourceState, Succeeds(s),
         config' = config, s.wait_for = config.wait_for,
         plan.attributes = config.attributes,
         settled' /\ registration' # NoRegistration =>
            /\ registration'.name = config.attributes.name
            /\ Means(registration'.spec, config.attributes)
  PROVE  AppliedInv'
<1>1. step' = "idle" /\ state' = s /\ (outcome' = "ok" => Agrees(s))
  BY DEF Succeeds, ReturnTo
<1>2. Applied' => s.attributes = config.attributes
  BY <1>1 DEF Applied, Agrees
<1>3. s # NoState
  BY SentinelAssumption
<1>4. Applied' => s.attributes.name = config.attributes.name
  BY <1>2
<1>5. StateReads'
  BY <1>1 DEF StateReads, PlannedUpdate
<1>6. SettledMeans'
  BY <1>1 DEF SettledMeans
<1>7. AppliedReads'
  BY <1>1, <1>2, <1>3, <1>4 DEF AppliedReads
<1> QED
  BY <1>5, <1>6, <1>7 DEF AppliedInv

LEMMA RefreshKeepsApplied ==
  ASSUME TypeInv, PlanIsOfConfig, AppliedInv, MakePlan
  PROVE  AppliedInv'
<1> DEFINE s == Refreshed(registration, state)
<1>1. /\ state' = s /\ step = "idle"
      /\ UNCHANGED <<config, registration, outcome, settled>>
  BY DEF MakePlan, service
<1>2. StateReads'
  <2> SUFFICES ASSUME PlannedUpdate', registration # NoRegistration
               PROVE  /\ registration.name = config.attributes.name
                      /\ Reads(s.attributes, registration.spec)
    BY <1>1 DEF StateReads
  <2>1. PlanIsOfConfig'
    BY PlanIsOfConfigStep DEF Next
  <2>2. ~Replaces(s, config) /\ plan' = PlanFor(config, s) /\ plan'.kind = "update"
    BY <1>1, <2>1 DEF PlanIsOfConfig, PlannedUpdate
  <2>3. s # NoState
    BY <2>2, PlanOfCreate
  <2>4. /\ registration \in Registration /\ state \in ResourceState
        /\ s = ServerTruth(registration, state)
    BY <2>3, RefreshedFacts DEF TypeInv, TypeOK
  <2> HIDE DEF s
  <2>5. s.attributes.name = registration.name /\ Reads(s.attributes, registration.spec)
    BY <2>4, ServerTruthReads
  <2> QED
    BY <2>2, <2>3, <2>5 DEF Replaces
<1>3. Applied' => Applied
  BY <1>1 DEF Applied
<1>4. SettledMeans'
  <2>1. step' # "waiting"
    BY <1>1 DEF MakePlan
  <2> QED
    BY <1>1, <1>3, <2>1 DEF SettledMeans, AppliedInv
<1>5. AppliedReads'
  <2> SUFFICES ASSUME Applied
               PROVE  /\ s # NoState
                      /\ s.attributes.name = config.attributes.name
                      /\ s.wait_for = config.wait_for
                      /\ \/ s.attributes = config.attributes
                         \/ UnclearedEndpoints \/ RespelledDestination
    BY <1>1, <1>3 DEF AppliedReads, UnclearedEndpoints, RespelledDestination
  <2>1. /\ state # NoState /\ state.wait_for = config.wait_for
        /\ registration # NoRegistration
        /\ registration.name = config.attributes.name
        /\ state.attributes.name = config.attributes.name
        /\ Means(registration.spec, config.attributes)
        /\ state.attributes = config.attributes \/ UnclearedEndpoints \/ RespelledDestination
    BY DEF AppliedInv, AppliedReads, SettledMeans, Applied
  <2>2. /\ registration \in Registration /\ state \in ResourceState
        /\ s = ServerTruth(registration, state)
    BY <2>1 DEF TypeInv, TypeOK, Refreshed
  <2>3. ServerTruth(registration, state) \in ResourceState
    BY <2>2, ServerTruthFacts
  <2> HIDE DEF s
  <2>4. s.attributes.name = registration.name /\ s.wait_for = state.wait_for
    BY <2>2, ServerTruthReads
  <2>5. ASSUME state.attributes = config.attributes, ~UnclearedEndpoints, ~RespelledDestination
        PROVE  s.attributes = config.attributes
    <3>1. config.attributes.destination_id \in {Null, registration.spec.destination_id}
      BY <2>1, <2>5 DEF Means, RespelledDestination
    <3> QED
      BY <2>1, <2>2, <2>5, <3>1, UnclearedIs, ServerTruthKeeps
  <2> QED
    BY <2>1, <2>2, <2>3, <2>4, <2>5, SentinelAssumption
<1> QED
  BY <1>2, <1>4, <1>5 DEF AppliedInv

LEMMA CreateApplied ==
  ASSUME TypeInv, PlanIsOfConfig, Create
  PROVE  AppliedInv'
<1> DEFINE a == plan.attributes
           new == NewRegistration(a, DisabledProbe)
<1>1. /\ step = "planned" /\ plan.kind = "create" /\ config' = config
      /\ a = config.attributes /\ a \in Attributes
  BY PlanAttributes, ConfigFacts DEF Create, Begin, TypeInv
<1>2. CASE \E s \in {NoState} \cup ResourceState : Errors(s)
  BY <1>2 DEF Errors, ReturnTo, AppliedInv, StateReads, SettledMeans, AppliedReads, Applied,
              PlannedUpdate
<1>3. CASE step' = "waiting" /\ settled' = FALSE
  BY <1>3 DEF AppliedInv, StateReads, SettledMeans, AppliedReads, Applied, PlannedUpdate
<1>4. CASE step' = "waiting" /\ registration' = new /\ ~MismatchedDestination(grants, BuildSpec(a))
  <2>1. new.name = a.name /\ new.spec = Normalise(grants, BuildSpec(a), DisabledProbe)
    BY DEF NewRegistration
  <2>2. Means(new.spec, a)
    BY <1>1, <1>4, <2>1, StoredMeans, ProbeTypes, GrantsAssumption DEF TypeInv, TypeOK
  <2> QED
    BY <1>1, <1>4, <2>1, <2>2
       DEF AppliedInv, StateReads, SettledMeans, AppliedReads, Applied, PlannedUpdate
<1> QED
  <2>1. Errors(state) => \E s \in {NoState} \cup ResourceState : Errors(s)
    BY DEF TypeInv, TypeOK
  <2> QED
    BY <1>2, <1>3, <1>4, <2>1 DEF Create, Wait

LEMMA ShortcutApplied ==
  ASSUME TypeInv, PlanIsOfConfig, AppliedInv, Shortcut
  PROVE  AppliedInv'
<1> DEFINE s == [state EXCEPT !.wait_for = plan.wait_for,
                              !.attributes = KeepSpelling(state.attributes, plan.attributes)]
<1>1. /\ PlannedUpdate /\ plan.kind = "update" /\ step # "idle"
      /\ SpecEqual(state.attributes, plan.attributes)
      /\ config' = config /\ registration' = registration /\ settled' = settled
      /\ Succeeds(s)
  BY DEF Shortcut, Begin, PlannedUpdate, service
<1>2. plan.attributes = config.attributes /\ plan.wait_for = config.wait_for
  BY <1>1, PlanAttributes
<1>3. state \in ResourceState /\ state.attributes \in Attributes /\ plan.attributes \in Attributes
  BY <1>1, <1>2, ConfigFacts DEF TypeInv, TypeOK, StepOK, PlannedUpdate, ResourceState
<1>4. KeepSpelling(state.attributes, plan.attributes) \in Attributes
  BY <1>3, KeepSpellingType
<1>5. s \in ResourceState /\ s.wait_for = config.wait_for
  BY <1>2, <1>3, <1>4, ConfigFacts DEF ResourceState, TypeInv, Configuration
<1>6. ASSUME settled, registration # NoRegistration
      PROVE  /\ registration.name = config.attributes.name
             /\ Means(registration.spec, config.attributes)
  <2>1. registration.name = config.attributes.name /\ Reads(state.attributes, registration.spec)
    BY <1>1, <1>6 DEF AppliedInv, StateReads
  <2>2. Says(registration.spec, config.attributes)
    BY <1>1, <1>2, <2>1 DEF Reads, Says, SpecEqual, IssuanceRelevantChanged
  <2>3. /\ config.attributes.verification = state.attributes.verification
        /\ config.attributes.destination_id = state.attributes.destination_id
    BY <1>1, <1>2 DEF SpecEqual
  <2> QED
    BY <2>1, <2>2, <2>3 DEF Reads, Means
<1> HIDE DEF s
<1> QED
  BY <1>1, <1>2, <1>5, <1>6, AgreedApply

\* A write stores its body as the service completes it.
LEMMA WrittenSpec ==
  ASSUME NEW reg \in Registration, NEW a
  PROVE  /\ Written(reg, a).name = reg.name
         /\ Written(reg, a).spec = Normalise(grants, BuildSpec(a), reg.spec.verification)
         /\ Written(reg, a).observed = reg.observed
         /\ Written(reg, a).certificate = reg.certificate
<1> DEFINE stored == Normalise(grants, BuildSpec(a), reg.spec.verification)
           changed == IssuanceHash(BuildSpec(a)) # IssuanceHash(reg.spec)
<1>1. Written(reg, a) = [reg EXCEPT !.spec = stored, !.revision = reg.revision + 1,
                           !.generation = IF changed THEN reg.generation + 1 ELSE reg.generation]
  BY DEF Written, Registration
<1> HIDE DEF stored, changed
<1>2. /\ Written(reg, a).name = reg.name /\ Written(reg, a).spec = stored
      /\ Written(reg, a).observed = reg.observed
      /\ Written(reg, a).certificate = reg.certificate
  BY <1>1 DEF Registration
<1> QED
  BY <1>2 DEF stored

LEMMA UpdateApplied ==
  ASSUME TypeInv, PlanIsOfConfig, AppliedInv, Update
  PROVE  AppliedInv'
<1> DEFINE a == plan.attributes
           new == Written(registration, a)
<1>1. /\ PlannedUpdate /\ step # "idle" /\ plan.kind = "update" /\ config' = config
  BY DEF Update, Begin, PlannedUpdate
<1>2. a = config.attributes /\ plan.wait_for = config.wait_for /\ a \in Attributes
  BY <1>1, PlanAttributes, ConfigFacts DEF TypeInv
<1>3. CASE \E s : Errors(s)
  BY <1>3 DEF Errors, ReturnTo, AppliedInv, StateReads, SettledMeans, AppliedReads, Applied,
              PlannedUpdate
<1>4. CASE /\ IfMatchRevision(state.computed.revision)
           /\ ~MismatchedDestination(grants, BuildSpec(a))
           /\ registration' = new
           /\ Succeeds(Final(new)) \/ Wait(new.generation)
  <2>1. registration \in Registration
    BY <1>4 DEF IfMatchRevision, TypeInv, TypeOK
  <2>2. new.name = registration.name
        /\ new.spec = Normalise(grants, BuildSpec(a), registration.spec.verification)
    BY <2>1, WrittenSpec
  <2>3. registration.spec.verification \in Probe /\ grants \in Seq(Grant)
    BY <2>1, GrantsAssumption DEF Registration, StoredSpec, WireSpec, TypeInv, TypeOK
  <2>4. Means(new.spec, config.attributes)
    BY <1>2, <1>4, <2>2, <2>3, StoredMeans
  <2>5. registration.name = config.attributes.name
    BY <1>1, <1>4 DEF AppliedInv, StateReads, IfMatchRevision
  <2>6. new \in Registration
    BY <1>2, <2>1, WrittenFacts DEF TypeInv, TypeOK
  <2> HIDE DEF new
  <2>7. CASE Succeeds(Final(new))
    <3>1. Final(new) \in ResourceState /\ Final(new).wait_for = plan.wait_for
      BY <1>1, <2>6, FinalType DEF Final, TypeInv, StepOK
    <3> QED
      BY <1>1, <1>2, <1>4, <2>2, <2>4, <2>5, <2>7, <3>1, AgreedApply
  <2>8. CASE Wait(new.generation)
    BY <1>1, <1>4, <2>2, <2>4, <2>5, <2>8
       DEF Wait, AppliedInv, StateReads, SettledMeans, AppliedReads, Applied, PlannedUpdate
  <2> QED
    BY <1>4, <2>7, <2>8
<1> QED
  <2>1. \/ \E s : Errors(s)
        \/ /\ IfMatchRevision(state.computed.revision)
           /\ ~MismatchedDestination(grants, BuildSpec(a))
           /\ registration' = new
           /\ Succeeds(Final(new)) \/ Wait(new.generation)
    BY DEF Update
  <2> QED
    BY <1>3, <1>4, <2>1

LEMMA FinishApplied ==
  ASSUME TypeInv, PlanIsOfConfig, AppliedInv, Finish
  PROVE  AppliedInv'
<1>1. /\ step = "waiting" /\ registration \in Registration
      /\ Succeeds(Final(registration))
      /\ config' = config /\ registration' = registration /\ settled' = settled
  BY DEF Finish, service, TypeInv, TypeOK
<1>2. plan \in Plan /\ plan.kind \in {"create", "update"}
  BY <1>1 DEF TypeInv, StepOK
<1>3. plan.attributes = config.attributes /\ plan.wait_for = config.wait_for
  BY <1>1, <1>2, PlanAttributes
<1>4. Final(registration) \in ResourceState /\ Final(registration).wait_for = plan.wait_for
  BY <1>1, <1>2, FinalType DEF Final
<1> QED
  BY <1>1, <1>3, <1>4, AgreedApply DEF AppliedInv, SettledMeans

\* An issuance leaves the spec alone.
LEMMA IssuancesKeepSpec ==
  ASSUME TypeOK, Fulfil \/ Publish \/ Renew
  PROVE  registration'.spec = registration.spec /\ registration'.name = registration.name
<1>1. registration \in Registration
  BY DEF Fulfil, Publish, Unfulfilled, Renew, TypeOK
<1>2. CASE Renew
  BY <1>1, <1>2 DEF Renew, Registration
<1>3. CASE Fulfil \/ Publish
  <2>1. /\ Issued(registration).spec = registration.spec
        /\ Issued(registration).name = registration.name
        /\ Issued(registration) \in Registration
    BY <1>1 DEF Issued, Registration
  <2>2. ASSUME NEW reg \in Registration
        PROVE  /\ [reg EXCEPT !.observed = registration.generation].spec = reg.spec
               /\ [reg EXCEPT !.observed = registration.generation].name = reg.name
    BY DEF Registration
  <2> QED
    BY <1>1, <1>3, <2>1, <2>2 DEF Fulfil, Publish
<1> QED
  BY <1>2, <1>3

\* Whatever is written under the name has that name.
LEMMA NameStays ==
  ASSUME TypeInv
  PROVE  /\ WriteElsewhere \/ InjectServerLabel =>
              registration # NoRegistration /\ registration'.name = registration.name
         /\ SeedRegistration => registration'.name = config.attributes.name
<1>1. ASSUME WriteElsewhere \/ InjectServerLabel
      PROVE  registration # NoRegistration /\ registration'.name = registration.name
  <2>1. registration \in Registration
    BY <1>1 DEF WriteElsewhere, InjectServerLabel, TypeInv, TypeOK
  <2> QED
    BY <1>1, <2>1 DEF WriteElsewhere, InjectServerLabel, Registration
<1>2. ASSUME SeedRegistration
      PROVE  registration'.name = config.attributes.name
  <2>1. PICK a \in Elsewhere, n \in {0, 1} :
          /\ a.name = config.attributes.name
          /\ registration' = [NewRegistration(a, DisabledProbe)
                                EXCEPT !.observed = n, !.certificate = n]
    BY <1>2 DEF SeedRegistration
  <2>2. NewRegistration(a, DisabledProbe).name = a.name
    BY DEF NewRegistration
  <2>3. NewRegistration(a, DisabledProbe) \in Registration
    BY NewRegistrationType, ConfigsAssumption DEF TypeInv, TypeOK
  <2> QED
    BY <2>1, <2>2, <2>3 DEF Registration
<1> QED
  BY <1>1, <1>2

LEMMA ElsewhereApplied ==
  ASSUME TypeInv, AppliedInv,
         \/ Fulfil \/ Publish \/ Renew \/ WriteElsewhere \/ InjectServerLabel \/ Remove
         \/ SeedRegistration \/ Regrant
  PROVE  AppliedInv'
<1>1. UNCHANGED <<config, state, step, plan, outcome>>
  BY OthersKeepThePlan
<1>2. CASE Fulfil \/ Publish \/ Renew \/ Regrant
  <2>1. /\ registration'.spec = registration.spec /\ registration'.name = registration.name
        /\ registration = NoRegistration => registration' = NoRegistration
        /\ settled' = settled
    BY <1>2, IssuancesKeepSpec
       DEF Fulfil, Publish, Unfulfilled, Renew, Regrant, TypeInv
  <2>2. registration' # NoRegistration => registration # NoRegistration
    BY <2>1
  <2> QED
    BY <1>1, <2>1, <2>2 DEF AppliedInv, StateReads, SettledMeans, AppliedReads, Applied,
       PlannedUpdate, UnclearedEndpoints, RespelledDestination
<1>3. CASE Remove
  BY <1>1, <1>3 DEF Remove, AppliedInv, StateReads, SettledMeans, AppliedReads, Applied
<1>4. CASE WriteElsewhere \/ InjectServerLabel \/ SeedRegistration
  <2>1. settled' = FALSE
    BY <1>4 DEF WriteElsewhere, InjectServerLabel, SeedRegistration
  <2> QED
    BY <1>1, <1>4, <2>1, NameStays
       DEF AppliedInv, StateReads, SettledMeans, AppliedReads, Applied, PlannedUpdate
<1> QED
  BY <1>2, <1>3, <1>4

\* For any configurations, spellings and writes of others: what the service stores
\* and what state says after an apply are what writeServerTruth made of them.
THEOREM AppliedInvariant == Spec => []AppliedInv
<1>1. Init => AppliedInv
  BY DEF Init, AppliedInv, StateReads, SettledMeans, AppliedReads, Applied, PlannedUpdate
<1>2. TypeInv /\ PlanIsOfConfig /\ AppliedInv /\ [Next]_vars => AppliedInv'
  <2> SUFFICES ASSUME TypeInv, PlanIsOfConfig, AppliedInv, [Next]_vars PROVE AppliedInv'
    OBVIOUS
  <2>1. CASE MakePlan
    BY <2>1, RefreshKeepsApplied
  <2>2. CASE Destroy
    BY <2>2, DestroyEndsOrCreates
       DEF AppliedInv, StateReads, SettledMeans, AppliedReads, Applied, PlannedUpdate
  <2>3. CASE Create
    BY <2>3, CreateApplied
  <2>4. CASE Shortcut
    BY <2>4, ShortcutApplied
  <2>5. CASE Update
    BY <2>5, UpdateApplied
  <2>6. CASE Finish
    BY <2>6, FinishApplied
  <2>7. CASE GiveUp \/ Edit
    <3>1. step' = "idle" /\ outcome' # "ok"
      BY <2>7 DEF GiveUp, ReturnTo, Edit
    <3> QED
      BY <3>1 DEF AppliedInv, StateReads, SettledMeans, AppliedReads, Applied, PlannedUpdate
  <2>8. CASE ImportState
    BY <2>8 DEF ImportState, AppliedInv, StateReads, SettledMeans, AppliedReads, Applied,
                PlannedUpdate, service
  <2>9. CASE \/ Fulfil \/ Publish \/ Renew \/ WriteElsewhere \/ InjectServerLabel \/ Remove
             \/ SeedRegistration \/ Regrant
    BY <2>9, ElsewhereApplied
  <2>10. CASE UNCHANGED vars
    BY <2>10 DEF vars, service, AppliedInv, StateReads, SettledMeans, AppliedReads, Applied,
                 PlannedUpdate, UnclearedEndpoints, RespelledDestination
  <2> QED
    BY <2>1, <2>2, <2>3, <2>4, <2>5, <2>6, <2>7, <2>8, <2>9, <2>10 DEF Next
<1> QED
  BY <1>1, <1>2, PlansAreWhole, PlanIsKept, PTL DEF Spec

\* After an apply the service's spec says what the configuration states, whatever
\* state hides of it, and the probe means the same but for endpoints a body cannot
\* clear.
THEOREM AppliesMeanConfigured == Spec => []AppliedMeansConfigured
<1>1. AppliedInv => AppliedMeansConfigured
  BY UnclearedIs DEF AppliedInv, SettledMeans, AppliedMeansConfigured, Applied, Means, Says
<1> QED
  BY <1>1, AppliedInvariant, PTL

\* A plan over a state that is the configuration changes nothing.
LEMMA EmptyPlan ==
  ASSUME NEW c, NEW s \in ResourceState, ~Replaces(s, c), NEW reg \in Registration,
         s.attributes = c.attributes, s.wait_for = c.wait_for,
         s.computed = ComputedFrom(reg, s.wait_for)
  PROVE  PlanFor(c, s).kind = "none"
<1>1. ProposedComputed(c, s) = s.computed
  BY DEF ProposedComputed
<1>2. s.computed \in Computed
  BY DEF ResourceState
<1>3. Carry(c, s, s.computed) = s.computed
  BY <1>2 DEF Carry, Computed
<1>4. PlanUris(c, s.computed) = s.computed
  <2>1. s.computed.uri \in {Null} \cup (Vaults \X Names)
    BY <1>2 DEF Computed
  <2>2. CASE c.wait_for = "accepted"
    <3>1. s.computed.uri # Unknown
      BY <2>1, UriAssumption
    <3> QED
      BY <1>2, <2>2, <3>1 DEF PlanUris, Computed
  <2>3. CASE c.wait_for # "accepted"
    <3>1. s.computed.uri = Uri(reg.spec.key_vault_id, reg.spec.certificate_name)
      BY <2>3 DEF ComputedFrom
    <3>2. Uri(reg.spec.key_vault_id, reg.spec.certificate_name) \in Vaults \X Names
      BY CanonicalAssumption DEF Uri, Registration, StoredSpec, WireSpec
    <3>3. s.computed.uri \notin {Unknown, Null}
      BY <3>1, <3>2, UriAssumption
    <3> QED
      BY <2>3, <3>3 DEF PlanUris
  <2> QED
    BY <2>2, <2>3
<1>5. s = [attributes |-> c.attributes, wait_for |-> c.wait_for, computed |-> s.computed]
  BY DEF ResourceState
<1> QED
  BY <1>1, <1>3, <1>4, <1>5, PlanOverState, SentinelAssumption

\* Apply, then an empty plan: for every configuration and every write and renewal
\* of others before it, what the apply left is neither drift nor a destination
\* error, but for the two cases named.
THEOREM PlansAreEmptyAfterApply == Spec => []ApplyThenEmptyPlan
<1>1. TypeInv /\ AppliedInv => ApplyThenEmptyPlan
  <2> DEFINE s == Refreshed(registration, state)
             a == config.attributes
  <2> SUFFICES ASSUME TypeInv, AppliedInv, Applied
               PROVE  /\ PlanFor(config, s).kind = "none" \/ UnclearedEndpoints
                           \/ RespelledDestination
                      /\ DestinationChanges(s, a) => RespelledDestination
    BY DEF ApplyThenEmptyPlan
  <2>1. /\ state # NoState /\ state.wait_for = config.wait_for
        /\ registration # NoRegistration
        /\ registration.name = a.name /\ state.attributes.name = a.name
        /\ Means(registration.spec, a)
        /\ state.attributes = a \/ UnclearedEndpoints \/ RespelledDestination
    BY DEF AppliedInv, AppliedReads, SettledMeans, Applied
  <2>2. /\ registration \in Registration /\ state \in ResourceState
        /\ s = ServerTruth(registration, state)
    BY <2>1 DEF TypeInv, TypeOK, Refreshed
  <2> HIDE DEF s
  <2>3. /\ s \in ResourceState
        /\ s.computed = ComputedFrom(registration, state.wait_for)
        /\ s.wait_for = state.wait_for /\ s.attributes.name = registration.name
        /\ Reads(s.attributes, registration.spec)
    BY <2>2, ServerTruthFacts, ServerTruthReads
  <2>4. DestinationChanges(s, a) => RespelledDestination
    <3>1. /\ Canonical[s.attributes.key_vault_id] = Canonical[a.key_vault_id]
          /\ EffectiveCertificateName(s.attributes) = EffectiveCertificateName(a)
      BY <2>1, <2>3 DEF Means, Reads, Says
    <3>2. /\ s.attributes.destination_id \in {Null, registration.spec.destination_id}
          /\ s.computed.destination_id = registration.spec.destination_id
      BY <2>3 DEF Reads, ComputedFrom
    <3> QED
      BY <2>1, <3>1, <3>2 DEF DestinationChanges, DestinationIDMoves, RespelledDestination, Means
  <2>5. ASSUME ~UnclearedEndpoints, ~RespelledDestination
        PROVE  PlanFor(config, s).kind = "none"
    <3>1. a.destination_id \in {Null, registration.spec.destination_id}
      BY <2>1, <2>5 DEF Means, RespelledDestination
    <3>2. s.attributes = a
      BY <2>1, <2>2, <2>5, <3>1, UnclearedIs, ServerTruthKeeps
    <3>3. ~Replaces(s, config)
      BY <3>2 DEF Replaces
    <3> QED
      BY <2>1, <2>2, <2>3, <3>2, <3>3, EmptyPlan
  <2> QED
    BY <2>4, <2>5
<1> QED
  BY <1>1, AppliedInvariant, PlansAreWhole, PTL

----------------------------------------------------------------------------
(* What an apply answers.                                                    *)

Updating == step # "idle" /\ plan.kind = "update"

\* The computed attributes in state are the ones of the registration the plan of
\* an update was made from, and so is the certificate name.
PlanIsOfSeen ==
  Updating =>
    /\ state.computed.certificate_name = EffectiveCertificateName(state.attributes)
    /\ state.computed.uri # Null =>
         state.computed.uri = Uri(state.attributes.key_vault_id,
                                  EffectiveCertificateName(state.attributes))
    /\ Canonical[plan.attributes.key_vault_id] = Canonical[state.attributes.key_vault_id]
    /\ EffectiveCertificateName(plan.attributes) = EffectiveCertificateName(state.attributes)
    /\ plan.reissue = IssuanceRelevantChanged(state.attributes, plan.attributes)
    /\ seen # Replaced =>
         /\ state.computed.generation = seen.generation
         /\ state.computed.fulfilled = seen.observed
         /\ state.computed.certificate = seen.certificate
         /\ state.computed.destination_id = seen.spec.destination_id

\* What is waited for is published where the plan says.
WaitsAtDestination ==
  step = "waiting" /\ seen # Replaced =>
    /\ registration # NoRegistration
    /\ Canonical[registration.spec.key_vault_id] = Canonical[plan.attributes.key_vault_id]
    /\ registration.spec.certificate_name = EffectiveCertificateName(plan.attributes)

AnswerInv == PlanIsOfSeen /\ WaitsAtDestination

LEMMA MakePlanAnswers ==
  ASSUME TypeInv, MakePlan
  PROVE  AnswerInv'
<1> DEFINE s == Refreshed(registration, state)
           p == PlanFor(config, s)
<1>1. config \in Configuration
  BY ConfigFacts DEF TypeInv
<1>2. state' = s /\ step = "idle" /\ s \in {NoState} \cup ResourceState /\ step' # "waiting"
  BY RefreshedFacts DEF MakePlan, TypeInv, TypeOK
<1>3. WaitsAtDestination'
  BY <1>2 DEF WaitsAtDestination
<1>4. CASE step' = step
  BY <1>2, <1>3, <1>4 DEF AnswerInv, PlanIsOfSeen, Updating
<1>5. CASE /\ plan' = p /\ p.kind # "none" /\ ~Refuses(config, s) /\ seen' = registration
  <2> SUFFICES ASSUME p.kind = "update"
               PROVE  PlanIsOfSeen'
    BY <1>3, <1>5 DEF AnswerInv, PlanIsOfSeen, Updating
  <2>1. /\ p.attributes = config.attributes
        /\ s \in ResourceState
        /\ ~Replaces(s, config)
        /\ p.reissue = IssuanceRelevantChanged(s.attributes, config.attributes)
    <3> HIDE DEF s
    <3> QED
      BY <1>1, <1>2, <1>5, PlanForFacts
  <2>2. /\ Canonical[config.attributes.key_vault_id] = Canonical[s.attributes.key_vault_id]
        /\ EffectiveCertificateName(config.attributes) = EffectiveCertificateName(s.attributes)
    BY <1>5, <2>1, SentinelAssumption DEF Refuses, DestinationChanges
  <2>3. /\ registration \in Registration /\ state \in ResourceState
        /\ s = ServerTruth(registration, state)
    BY <2>1, RefreshedFacts, SentinelAssumption DEF TypeInv, TypeOK
  <2>4. /\ s.computed = ComputedFrom(registration, state.wait_for)
        /\ Reads(s.attributes, registration.spec)
    BY <2>3, ServerTruthFacts, ServerTruthReads
  <2>5. /\ s.computed.certificate_name = EffectiveCertificateName(s.attributes)
        /\ s.computed.uri # Null =>
             s.computed.uri = Uri(s.attributes.key_vault_id, EffectiveCertificateName(s.attributes))
        /\ s.computed.generation = registration.generation
        /\ s.computed.fulfilled = registration.observed
        /\ s.computed.certificate = registration.certificate
        /\ s.computed.destination_id = registration.spec.destination_id
    BY <2>4 DEF ComputedFrom, Reads, Says, Uri
  <2> HIDE DEF s, p
  <2> QED
    BY <1>2, <1>5, <2>1, <2>2, <2>5 DEF PlanIsOfSeen
<1> QED
  BY <1>4, <1>5 DEF MakePlan

LEMMA CreateAnswers ==
  ASSUME TypeInv, Create
  PROVE  AnswerInv'
<1> DEFINE a == plan.attributes
           new == NewRegistration(a, DisabledProbe)
           wire == BuildSpec(a)
<1>1. plan \in Plan /\ plan.kind = "create" /\ a \in Attributes
  BY DEF Create, Begin, TypeInv, StepOK, Plan
<1>2. CASE step' = "idle"
  BY <1>2 DEF AnswerInv, PlanIsOfSeen, WaitsAtDestination, Updating
<1>3. CASE step' = "waiting" /\ plan' = plan
  <2>1. /\ registration' # NoRegistration
        /\ registration'.spec.key_vault_id = wire.key_vault_id
        /\ registration'.spec.certificate_name = wire.certificate_name
    <3>1. CASE registration' = registration /\ ~IfNoneMatchAny
               /\ IssuanceHash(registration.spec) = IssuanceHash(wire)
      BY <3>1 DEF IfNoneMatchAny, IssuanceHash
    <3>2. CASE registration' = new
      <4>1. new \in Registration
        BY <1>1, NewRegistrationType DEF TypeInv, TypeOK
      <4>2. new.spec = Normalise(grants, wire, DisabledProbe)
        BY DEF NewRegistration
      <4>3. wire \in WireSpec
        BY <1>1, BuildSpecType
      <4> HIDE DEF new, wire
      <4> QED
        BY <3>2, <4>1, <4>2, <4>3, SentinelAssumption DEF Normalise, WireSpec
    <3> QED
      BY <1>3, <3>1, <3>2 DEF Create, Errors, ReturnTo, service
  <2> QED
    BY <1>1, <1>3, <2>1 DEF AnswerInv, PlanIsOfSeen, WaitsAtDestination, Updating, BuildSpec
<1> QED
  BY <1>2, <1>3, AppliesEndOrWait

LEMMA UpdateAnswers ==
  ASSUME TypeInv, AnswerInv, Update
  PROVE  AnswerInv'
<1>1. step = "planned" /\ plan.kind = "update" /\ plan \in Plan /\ plan.attributes \in Attributes
  BY DEF Update, Begin, TypeInv, StepOK, Plan
<1>2. CASE step' = "idle"
  BY <1>2 DEF AnswerInv, PlanIsOfSeen, WaitsAtDestination, Updating
<1>3. CASE step' = "waiting" /\ UNCHANGED <<state, plan, seen>>
  <2>1. PlanIsOfSeen'
    BY <1>1, <1>3 DEF AnswerInv, PlanIsOfSeen, Updating
  <2>2. /\ IfMatchRevision(state.computed.revision)
        /\ registration' = Written(registration, plan.attributes)
    BY <1>3 DEF Update, Errors, ReturnTo
  <2>3. registration \in Registration
    BY <2>2 DEF IfMatchRevision, TypeInv, TypeOK
  <2>4. /\ registration' \in Registration
        /\ registration'.spec.key_vault_id = plan.attributes.key_vault_id
        /\ registration'.spec.certificate_name = EffectiveCertificateName(plan.attributes)
    BY <1>1, <2>2, <2>3, WrittenFacts DEF TypeInv, TypeOK
  <2> QED
    BY <1>3, <2>1, <2>4, SentinelAssumption DEF AnswerInv, WaitsAtDestination
<1> QED
  BY <1>2, <1>3, AppliesEndOrWait DEF Update, Create

\* What an apply compares with its plan comes from the registration the plan was
\* made from, or from the one it waits for at the same destination.
THEOREM AnswerInvariant == Spec => []AnswerInv
<1>1. Init => AnswerInv
  BY DEF Init, AnswerInv, PlanIsOfSeen, WaitsAtDestination, Updating
<1>2. TypeInv /\ AnswerInv /\ [Next]_vars => AnswerInv'
  <2> SUFFICES ASSUME TypeInv, AnswerInv, [Next]_vars PROVE AnswerInv'
    OBVIOUS
  <2>1. CASE MakePlan
    BY <2>1, MakePlanAnswers
  <2>2. CASE Destroy
    BY <2>2, DestroyEndsOrCreates
       DEF AnswerInv, PlanIsOfSeen, WaitsAtDestination, Updating
  <2>3. CASE Create
    BY <2>3, CreateAnswers
  <2>4. CASE Update
    BY <2>4, UpdateAnswers
  <2>5. CASE Shortcut \/ Finish \/ GiveUp \/ ImportState \/ Edit
    <3>1. step' = "idle"
      BY <2>5 DEF Shortcut, Finish, GiveUp, Succeeds, ReturnTo, ImportState, Edit
    <3> QED
      BY <3>1 DEF AnswerInv, PlanIsOfSeen, WaitsAtDestination, Updating
  <2>6. CASE Fulfil \/ Publish \/ Renew \/ WriteElsewhere \/ InjectServerLabel
    <3>1. UNCHANGED <<state, step, plan, seen>>
      BY <2>6 DEF Fulfil, Publish, Renew, WriteElsewhere, InjectServerLabel, Event, workspace
    <3> QED
      BY <2>6, <3>1, WritesInPlace, SentinelAssumption
         DEF TypeInv, AnswerInv, PlanIsOfSeen, WaitsAtDestination, Updating
  <2>7. CASE Remove \/ SeedRegistration
    <3>1. /\ UNCHANGED <<state, step, plan>>
          /\ seen' = IF step = "idle" \/ registration = NoRegistration THEN seen ELSE Replaced
      BY <2>7 DEF Remove, SeedRegistration, Event, Forgotten
    <3> QED
      BY <3>1 DEF AnswerInv, PlanIsOfSeen, WaitsAtDestination, Updating
  <2>8. CASE Regrant \/ UNCHANGED vars
    <3>1. UNCHANGED <<state, step, plan, seen, registration>>
      BY <2>8 DEF Regrant, Event, vars, service
    <3> QED
      BY <3>1 DEF AnswerInv, PlanIsOfSeen, WaitsAtDestination, Updating
  <2> QED
    BY <2>1, <2>2, <2>3, <2>4, <2>5, <2>6, <2>7, <2>8 DEF Next
<1> QED
  BY <1>1, <1>2, PlansAreWhole, PTL DEF Spec

\* What the plan of an update leaves known, attribute by attribute.
LEMMA PlannedOverState ==
  ASSUME NEW c \in Configuration, NEW s \in ResourceState
  PROVE  LET planned == PlanUris(c, Carry(c, s, ProposedComputed(c, s)))
             uri == Uri(c.attributes.key_vault_id, EffectiveCertificateName(c.attributes))
         IN  /\ planned.revision \in {Unknown, s.computed.revision}
             /\ c.attributes # s.attributes => planned.revision = Unknown
             /\ IF IssuanceRelevantChanged(s.attributes, c.attributes)
                THEN /\ planned.generation = Unknown /\ planned.fulfilled = Unknown
                     /\ planned.certificate = Unknown
                ELSE /\ planned.generation = s.computed.generation
                     /\ planned.fulfilled = s.computed.fulfilled
                     /\ planned.certificate = s.computed.certificate
             /\ planned.certificate_name \in
                  {s.computed.certificate_name, EffectiveCertificateName(c.attributes)}
             /\ s.computed.uri # Null =>
                  planned.certificate_name = s.computed.certificate_name
             /\ planned.destination_id = s.computed.destination_id
             /\ planned.uri = IF s.computed.uri = Null /\ c.wait_for # "accepted"
                              THEN uri ELSE s.computed.uri
<1> DEFINE changed == IssuanceRelevantChanged(s.attributes, c.attributes)
           same == c.attributes = s.attributes /\ c.wait_for = s.wait_for
           proposed == ProposedComputed(c, s)
           carried == Carry(c, s, proposed)
           name == EffectiveCertificateName(c.attributes)
           uri == Uri(c.attributes.key_vault_id, name)
           planned == PlanUris(c, carried)
<1>1. s.computed \in Computed
  BY DEF ResourceState
<1>2. changed => ~same
  BY DEF IssuanceRelevantChanged
<1>3. proposed = IF same THEN s.computed
                 ELSE [s.computed EXCEPT !.revision = Unknown, !.generation = Unknown,
                                         !.fulfilled = Unknown, !.certificate = Unknown]
  BY DEF ProposedComputed
<1>4. carried = IF changed THEN proposed
                ELSE [proposed EXCEPT !.generation = s.computed.generation,
                                      !.fulfilled = s.computed.fulfilled,
                                      !.certificate = s.computed.certificate]
  BY DEF Carry
<1>5. s.computed.uri # Unknown
  BY <1>1, UriAssumption DEF Computed
<1> HIDE DEF changed, proposed, carried
<1>6. /\ DOMAIN carried = DOMAIN s.computed
      /\ carried.revision \in {Unknown, s.computed.revision}
      /\ ~same => carried.revision = Unknown
      /\ IF changed
         THEN /\ carried.generation = Unknown /\ carried.fulfilled = Unknown
              /\ carried.certificate = Unknown
         ELSE /\ carried.generation = s.computed.generation
              /\ carried.fulfilled = s.computed.fulfilled
              /\ carried.certificate = s.computed.certificate
      /\ carried.certificate_name = s.computed.certificate_name
      /\ carried.destination_id = s.computed.destination_id
      /\ carried.uri = s.computed.uri
  BY <1>1, <1>2, <1>3, <1>4 DEF Computed
<1>7. carried = [carried EXCEPT !.uri = carried.uri]
  BY <1>1, <1>3, <1>4 DEF Computed
<1> HIDE DEF same
<1>8. planned = CASE c.wait_for = "accepted" \/ s.computed.uri # Null -> carried
                  [] OTHER -> [carried EXCEPT !.uri = uri, !.certificate_name = name]
  BY <1>5, <1>6, <1>7 DEF PlanUris
<1> HIDE DEF planned, name, uri
<1>9. /\ planned.revision = carried.revision
      /\ planned.generation = carried.generation /\ planned.fulfilled = carried.fulfilled
      /\ planned.certificate = carried.certificate
      /\ planned.destination_id = carried.destination_id
      /\ planned.certificate_name \in {carried.certificate_name, name}
      /\ s.computed.uri # Null => planned.certificate_name = carried.certificate_name
      /\ planned.uri = IF s.computed.uri = Null /\ c.wait_for # "accepted" THEN uri ELSE carried.uri
  BY <1>1, <1>6, <1>8 DEF Computed
<1> QED
  BY <1>6, <1>9 DEF same, planned, carried, proposed, name, uri, changed

LEMMA AgreesIs ==
  ASSUME NEW s \in ResourceState
  PROVE  Agrees(s) <=>
           /\ s.attributes = plan.attributes
           /\ plan.computed.revision \in {Unknown, s.computed.revision}
           /\ plan.computed.generation \in {Unknown, s.computed.generation}
           /\ plan.computed.fulfilled \in {Unknown, s.computed.fulfilled}
           /\ plan.computed.certificate \in {Unknown, s.computed.certificate}
           /\ plan.computed.certificate_name \in {Unknown, s.computed.certificate_name}
           /\ plan.computed.destination_id \in {Unknown, s.computed.destination_id}
           /\ plan.computed.uri \in {Unknown, s.computed.uri}
<1>1. DOMAIN s.computed = {"revision", "generation", "fulfilled", "certificate",
                           "certificate_name", "destination_id", "uri"}
  BY DEF ResourceState, Computed
<1> QED
  BY <1>1 DEF Agrees

LEMMA PlannedUpdateFacts ==
  ASSUME TypeInv, PlanIsOfConfig, Updating
  PROVE  /\ config \in Configuration /\ state \in ResourceState
         /\ plan.attributes = config.attributes /\ plan.wait_for = config.wait_for
         /\ plan.computed = PlanUris(config, Carry(config, state, ProposedComputed(config, state)))
<1>1. plan = PlanFor(config, state) /\ ~Replaces(state, config)
  BY DEF PlanIsOfConfig, Updating
<1>2. state # NoState
  BY <1>1, PlanOfCreate DEF Updating
<1>3. config \in Configuration /\ state \in ResourceState
  BY <1>2, ConfigFacts DEF TypeInv, TypeOK
<1> QED
  BY <1>1, <1>2, <1>3, PlanOverState

\* A shortcut answers what state has, which is what was planned.
LEMMA ShortcutAgrees ==
  ASSUME TypeInv, PlanIsOfConfig, Shortcut,
         state.computed.uri # Null,
         state.attributes.certificate_name = plan.attributes.certificate_name
  PROVE  outcome' = "ok"
<1> DEFINE a == KeepSpelling(state.attributes, plan.attributes)
           s == [state EXCEPT !.wait_for = plan.wait_for, !.attributes = a]
           c == config.attributes
<1>1. Updating /\ SpecEqual(state.attributes, plan.attributes) /\ Succeeds(s)
  BY DEF Shortcut, Begin, Updating
<1>2. /\ config \in Configuration /\ state \in ResourceState
      /\ plan.attributes = c /\ plan.wait_for = config.wait_for
      /\ plan.computed = PlanUris(config, Carry(config, state, ProposedComputed(config, state)))
  BY <1>1, PlannedUpdateFacts
<1>3. state.attributes \in Attributes /\ c \in Attributes
  BY <1>2 DEF ResourceState, Configuration
<1>4. a = c
  <2>1. /\ KeepDNSName(state.attributes.dns_names, c.dns_names) = c.dns_names
        /\ KeepVault(state.attributes.key_vault_id, c.key_vault_id) = c.key_vault_id
    BY <1>1, <1>2 DEF SpecEqual, IssuanceRelevantChanged, KeepDNSName, KeepVault
  <2>2. a = [state.attributes EXCEPT !.dns_names = c.dns_names, !.key_vault_id = c.key_vault_id]
    BY <1>2, <1>3, <2>1 DEF KeepSpelling, Attributes
  <2>3. /\ state.attributes.name = c.name /\ state.attributes.issuance = c.issuance
        /\ state.attributes.certificate_name = c.certificate_name
        /\ state.attributes.destination_id = c.destination_id
        /\ state.attributes.description = c.description /\ state.attributes.labels = c.labels
        /\ state.attributes.verification = c.verification
        /\ state.attributes.deletion = c.deletion
    BY <1>1, <1>2 DEF SpecEqual, IssuanceRelevantChanged
  <2> HIDE DEF a
  <2> QED
    BY <1>3, <2>2, <2>3 DEF Attributes
<1>5. ~IssuanceRelevantChanged(state.attributes, c)
  BY <1>1, <1>2 DEF SpecEqual
<1> HIDE DEF a
<1>6. s \in ResourceState /\ s.attributes = c /\ s.computed = state.computed
  BY <1>2, <1>3, <1>4 DEF ResourceState, Configuration
<1> HIDE DEF s
<1>7. Agrees(s)
  BY <1>2, <1>5, <1>6, PlannedOverState, AgreesIs
<1> QED
  BY <1>1, <1>7 DEF Succeeds, ReturnTo

\* An update answers with a registration at the plan's destination, for which it
\* knew what seen said.
LEMMA UpdateAgrees ==
  ASSUME TypeInv, PlanIsOfConfig, AnswerInv, Updating, seen # Replaced,
         ~SpecEqual(state.attributes, plan.attributes),
         NEW reg \in Registration,
         Canonical[reg.spec.key_vault_id] = Canonical[plan.attributes.key_vault_id],
         reg.spec.certificate_name = EffectiveCertificateName(plan.attributes),
         reg.spec.destination_id = seen.spec.destination_id,
         plan.wait_for = "accepted" =>
           ((plan.computed.uri = Null) <=> ~(reg.certificate > 0)),
         plan.reissue
           \/ /\ seen.observed = reg.observed /\ seen.certificate = reg.certificate
              /\ seen.generation = reg.generation
  PROVE  Agrees(Final(reg))
<1> DEFINE s == Final(reg)
           c == config.attributes
<1>1. /\ config \in Configuration /\ state \in ResourceState
      /\ plan.attributes = c /\ plan.wait_for = config.wait_for
      /\ plan.computed = PlanUris(config, Carry(config, state, ProposedComputed(config, state)))
  BY PlannedUpdateFacts
<1>2. c # state.attributes
  BY <1>1 DEF SpecEqual, IssuanceRelevantChanged
<1>3. s \in ResourceState /\ s.attributes = c /\ s.computed = ComputedFrom(reg, plan.wait_for)
  BY <1>1, FinalType DEF Final, Updating, TypeInv, StepOK
<1>4. /\ state.computed.certificate_name = EffectiveCertificateName(c)
      /\ state.computed.uri # Null =>
           state.computed.uri = Uri(c.key_vault_id, EffectiveCertificateName(c))
      /\ plan.reissue = IssuanceRelevantChanged(state.attributes, c)
      /\ state.computed.generation = seen.generation
      /\ state.computed.fulfilled = seen.observed
      /\ state.computed.certificate = seen.certificate
      /\ state.computed.destination_id = seen.spec.destination_id
  BY <1>1 DEF AnswerInv, PlanIsOfSeen, Uri
<1>5. /\ plan.computed.revision = Unknown
      /\ plan.computed.certificate_name = EffectiveCertificateName(c)
      /\ plan.computed.destination_id = seen.spec.destination_id
      /\ plan.computed.uri = IF state.computed.uri = Null /\ plan.wait_for # "accepted"
                             THEN Uri(c.key_vault_id, EffectiveCertificateName(c))
                             ELSE state.computed.uri
  BY <1>1, <1>2, <1>4, PlannedOverState
<1>6. IF IssuanceRelevantChanged(state.attributes, c)
      THEN /\ plan.computed.generation = Unknown /\ plan.computed.fulfilled = Unknown
           /\ plan.computed.certificate = Unknown
      ELSE /\ plan.computed.generation = seen.generation
           /\ plan.computed.fulfilled = seen.observed
           /\ plan.computed.certificate = seen.certificate
  BY <1>1, <1>4, PlannedOverState
<1>7. /\ s.computed.generation = reg.generation /\ s.computed.fulfilled = reg.observed
      /\ s.computed.certificate = reg.certificate
      /\ s.computed.certificate_name = EffectiveCertificateName(c)
      /\ s.computed.destination_id = seen.spec.destination_id
      /\ s.computed.uri = IF reg.certificate = 0 /\ plan.wait_for = "accepted" THEN Null
                          ELSE Uri(c.key_vault_id, EffectiveCertificateName(c))
  BY <1>1, <1>3 DEF ComputedFrom, Uri
<1>8. plan.computed.uri = s.computed.uri
  <2>1. reg.certificate \in Nat
    BY DEF Registration
  <2> QED
    BY <1>4, <1>5, <1>7, <2>1
<1>9. /\ plan.computed.generation \in {Unknown, s.computed.generation}
      /\ plan.computed.fulfilled \in {Unknown, s.computed.fulfilled}
      /\ plan.computed.certificate \in {Unknown, s.computed.certificate}
  <2> HIDE DEF s
  <2>1. CASE IssuanceRelevantChanged(state.attributes, c)
    BY <1>6, <2>1
  <2>2. CASE ~IssuanceRelevantChanged(state.attributes, c)
    <3>1. ~plan.reissue
      BY <1>4, <2>2
    <3> QED
      BY <1>6, <1>7, <2>2, <3>1
  <2> QED
    BY <2>1, <2>2
<1> HIDE DEF s
<1>10. Agrees(s)
  BY <1>1, <1>3, <1>5, <1>7, <1>8, <1>9, AgreesIs
<1> QED
  BY <1>10 DEF s

\* A create plans nothing but where it will publish.
LEMMA CreateAgrees ==
  ASSUME TypeInv, PlanIsOfConfig, step # "idle", plan.kind = "create",
         NEW reg \in Registration,
         Canonical[reg.spec.key_vault_id] = Canonical[plan.attributes.key_vault_id],
         reg.spec.certificate_name = EffectiveCertificateName(plan.attributes),
         plan.wait_for = "accepted" =>
           ((plan.computed.uri = Null) <=> ~(reg.certificate > 0))
  PROVE  Agrees(Final(reg))
<1> DEFINE s == Final(reg)
           c == config.attributes
<1>1. plan = PlanFor(config, NoState) /\ plan \in Plan
  BY DEF PlanIsOfConfig, TypeInv, StepOK
<1>2. /\ plan.attributes = c /\ plan.wait_for = config.wait_for
      /\ plan.computed = PlanUris(config, AllUnknown)
  BY <1>1, PlanOfCreate
<1>3. /\ plan.computed.revision = Unknown /\ plan.computed.generation = Unknown
      /\ plan.computed.fulfilled = Unknown /\ plan.computed.certificate = Unknown
      /\ plan.computed.destination_id = Unknown
      /\ plan.computed.certificate_name \in {Unknown, EffectiveCertificateName(c)}
      /\ plan.computed.uri = IF plan.wait_for = "accepted" THEN Null
                             ELSE Uri(c.key_vault_id, EffectiveCertificateName(c))
  BY <1>2 DEF PlanUris, AllUnknown
<1>4. s \in ResourceState /\ s.attributes = c /\ s.computed = ComputedFrom(reg, plan.wait_for)
  BY <1>1, <1>2, FinalType DEF Final
<1>5. /\ s.computed.certificate_name = EffectiveCertificateName(c)
      /\ s.computed.uri = plan.computed.uri
  <2>1. reg.certificate \in Nat
    BY DEF Registration
  <2> QED
    BY <1>2, <1>3, <1>4, <2>1 DEF ComputedFrom, Uri
<1> HIDE DEF s
<1>6. Agrees(s)
  BY <1>2, <1>3, <1>4, <1>5, AgreesIs
<1> QED
  BY <1>6 DEF s

LEMMA OnlySuccessContradicts ==
  ASSUME TypeInv, Next, step # "idle", step' = "idle", outcome' = "inconsistent"
  PROVE  Shortcut \/ Update \/ Finish
<1>1. step \in {"planned", "waiting"}
  BY DEF TypeInv, TypeOK
<1>2. ~MakePlan /\ ~ImportState /\ ~Edit
  BY DEF MakePlan, ImportState, Edit
<1>3. ~Destroy
  <2>1. Destroy /\ step' = "idle" => outcome' = "error"
    BY DEF Destroy, Begin
  <2> QED
    BY <2>1
<1>4. ~Create /\ ~GiveUp
  BY DEF Create, GiveUp, Errors, ReturnTo, Wait
<1> QED
  BY <1>2, <1>3, <1>4, OthersKeepThePlan DEF Next

\* Rule R-3 but for the contradictions named: in every other case each planned
\* value an apply returns is the one its plan promised.
THEOREM ContradictionsAreKnown == Spec => OnlyKnownContradictions
<1>1. TypeInv /\ PlanIsOfConfig /\ AnswerInv /\ [Next]_vars =>
        [step # "idle" /\ step' = "idle" /\ outcome' = "inconsistent" =>
           seen = Replaced \/ KnownContradiction]_vars
  <2> SUFFICES ASSUME TypeInv, PlanIsOfConfig, AnswerInv, Next,
                      step # "idle", step' = "idle", outcome' = "inconsistent",
                      seen # Replaced, ~KnownContradiction
               PROVE  FALSE
    OBVIOUS
  <2>1. CASE Shortcut
    <3>1. plan.kind = "update" /\ SpecEqual(state.attributes, plan.attributes)
      BY <2>1 DEF Shortcut, Begin
    <3>2. /\ state.computed.uri # Null
          /\ state.attributes.certificate_name = plan.attributes.certificate_name
      BY <3>1 DEF KnownContradiction
    <3> QED
      BY <2>1, <3>2, ShortcutAgrees
  <2>2. ASSUME plan.kind = "update", ~SpecEqual(state.attributes, plan.attributes),
               registration' \in Registration,
               registration'.observed = registration.observed,
               registration'.certificate = registration.certificate,
               registration'.generation = registration.generation,
               Canonical[registration'.spec.key_vault_id] = Canonical[plan.attributes.key_vault_id],
               registration'.spec.certificate_name = EffectiveCertificateName(plan.attributes)
        PROVE  Agrees(Final(registration'))
    <3>1. /\ plan.wait_for = "accepted" =>
               ~((plan.computed.uri = Null) <=> (registration'.certificate > 0))
          /\ \/ plan.reissue
             \/ /\ seen.observed = registration.observed
                /\ seen.certificate = registration.certificate
                /\ seen.generation = registration.generation
          /\ registration'.spec.destination_id = seen.spec.destination_id
      BY <2>2 DEF KnownContradiction
    <3>2. Updating
      BY <2>2 DEF Updating
    <3> DEFINE reg == registration'
    <3>3. /\ reg \in Registration
          /\ Canonical[reg.spec.key_vault_id] = Canonical[plan.attributes.key_vault_id]
          /\ reg.spec.certificate_name = EffectiveCertificateName(plan.attributes)
          /\ reg.spec.destination_id = seen.spec.destination_id
          /\ plan.wait_for = "accepted" =>
               ((plan.computed.uri = Null) <=> ~(reg.certificate > 0))
          /\ \/ plan.reissue
             \/ /\ seen.observed = reg.observed /\ seen.certificate = reg.certificate
                /\ seen.generation = reg.generation
      BY <2>2, <3>1
    <3> HIDE DEF reg
    <3>4. Agrees(Final(reg))
      BY <2>2, <3>2, <3>3, UpdateAgrees
    <3> QED
      BY <3>4 DEF reg
  <2>3. CASE Update
    <3>1. /\ plan.kind = "update" /\ ~SpecEqual(state.attributes, plan.attributes)
          /\ plan.attributes \in Attributes
      BY <2>3 DEF Update, Begin, TypeInv, StepOK, Plan
    <3>2. /\ IfMatchRevision(state.computed.revision)
          /\ registration' = Written(registration, plan.attributes)
          /\ registration'.generation = registration.generation
          /\ Succeeds(Final(registration'))
      BY <2>3 DEF Update, Errors, ReturnTo, Wait
    <3>3. registration \in Registration
      BY <3>2 DEF IfMatchRevision, TypeInv, TypeOK
    <3>4. /\ registration' \in Registration
          /\ registration'.observed = registration.observed
          /\ registration'.certificate = registration.certificate
          /\ registration'.spec.key_vault_id = plan.attributes.key_vault_id
          /\ registration'.spec.certificate_name = EffectiveCertificateName(plan.attributes)
      BY <3>1, <3>2, <3>3, WrittenFacts, WrittenSpec DEF TypeInv, TypeOK
    <3>5. Agrees(Final(registration'))
      BY <2>2, <3>1, <3>2, <3>4
    <3> QED
      BY <3>2, <3>5 DEF Succeeds, ReturnTo
  <2>4. CASE Finish
    <3>1. /\ step = "waiting" /\ registration \in Registration
          /\ registration' = registration
          /\ Succeeds(Final(registration))
      BY <2>4 DEF Finish, service, TypeInv, TypeOK
    <3>2. /\ Canonical[registration.spec.key_vault_id] = Canonical[plan.attributes.key_vault_id]
          /\ registration.spec.certificate_name = EffectiveCertificateName(plan.attributes)
      BY <3>1 DEF AnswerInv, WaitsAtDestination
    <3>3. plan.kind \in {"create", "update"}
      BY <3>1 DEF TypeInv, StepOK
    <3>4. CASE plan.kind = "update"
      <4>1. ~SpecEqual(state.attributes, plan.attributes)
        BY <3>1, <3>4 DEF PlanIsOfConfig
      <4>2. Agrees(Final(registration))
        BY <2>2, <3>1, <3>2, <3>4, <4>1
      <4> QED
        BY <3>1, <4>2 DEF Succeeds, ReturnTo
    <3>5. CASE plan.kind = "create"
      <4>1. plan.wait_for = "accepted" =>
              ((plan.computed.uri = Null) <=> ~(registration.certificate > 0))
        BY <3>1, <3>5 DEF KnownContradiction
      <4>2. Agrees(Final(registration))
        BY <3>1, <3>2, <3>5, <4>1, CreateAgrees
      <4> QED
        BY <3>1, <4>2 DEF Succeeds, ReturnTo
    <3> QED
      BY <3>3, <3>4, <3>5
  <2> QED
    BY <2>1, <2>3, <2>4, OnlySuccessContradicts
<1> QED
  BY <1>1, PlansAreWhole, PlanIsKept, AnswerInvariant, PTL DEF Spec, OnlyKnownContradictions
=============================================================================
