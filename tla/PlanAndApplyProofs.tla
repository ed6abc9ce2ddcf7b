------------------------- MODULE PlanAndApplyProofs -------------------------
(***************************************************************************)
(* Proofs about PlanAndApply, for all configurations, spellings, grants    *)
(* and bounds: its types, and what an update may write.  UpdateInv relates *)
(* the plan to the state it was made over, and that state to the           *)
(* registration, for as long as the registration is not another one.       *)
(***************************************************************************)
EXTENDS PlanAndApply, WellFoundedInduction, FiniteSetTheorems, TLAPS

----------------------------------------------------------------------------
(* What the maps of SpecMapping return.                                      *)

USE NullAssumption, NullProbeAssumption

LEMMA ProbeTypes ==
  /\ DisabledProbe \in Probe
  /\ \A v \in {Null} \cup Probe : ProbeFacts(v) \in Probe
BY DEF DisabledProbe, Probe, ProbeFacts

LEMMA EffectiveNameType ==
  ASSUME NEW a \in Attributes
  PROVE  EffectiveCertificateName(a) \in Names
BY DEF Attributes, EffectiveCertificateName

\* A body is complete: what the configuration leaves out has its default.
LEMMA BuildSpecType ==
  ASSUME NEW a \in Attributes
  PROVE  BuildSpec(a) \in WireSpec
<1>1. EffectiveCertificateName(a) \in Names
  BY EffectiveNameType
<1>2. (IF a.labels = Null THEN {} ELSE a.labels) \in SUBSET LabelKeys
  BY DEF Attributes
<1>3. (IF a.verification = Null THEN DisabledProbe ELSE a.verification) \in Probe
  BY ProbeTypes DEF Attributes
<1> QED
  BY <1>1, <1>2, <1>3 DEF BuildSpec, WireSpec, Attributes

\* Every vault resolves to a policy id.
LEMMA ResolveType ==
  ASSUME NEW g \in Seq(Grant), NEW vault \in Vaults
  PROVE  ResolveDestination(g, vault) \in PolicyIDs
<1> DEFINE naming == Naming(g, vault)
           first == CHOOSE i \in naming : \A j \in naming : i <= j
<1>1. CASE naming = {}
  BY <1>1, UngrantedAssumption DEF ResolveDestination
<1>2. CASE naming # {}
  <2>1. naming \in SUBSET Nat /\ naming \subseteq DOMAIN g
    BY DEF Naming
  <2>2. \E i \in naming : \A j \in naming : i <= j
    <3>1. PICK i \in naming : \A j \in naming : <<j, i>> \notin OpToRel(<, Nat)
      BY <1>2, <2>1, WFMin, NatLessThanWellFounded, Zenon
    <3>2. \A j \in naming : ~(j < i)
      BY <2>1, <3>1, Zenon DEF OpToRel
    <3> HIDE DEF naming
    <3> QED
      BY <2>1, <3>2
  <2>3. first \in DOMAIN g
    BY <2>1, <2>2
  <2>4. g[first] \in Grant
    BY <2>3
  <2> QED
    BY <1>2, <2>4 DEF ResolveDestination, Grant
<1> QED
  BY <1>1, <1>2

LEMMA NormaliseType ==
  ASSUME NEW g \in Seq(Grant), NEW wire \in WireSpec, NEW previous \in Probe
  PROVE  Normalise(g, wire, previous) \in StoredSpec
<1>1. ResolveDestination(g, wire.key_vault_id) \in PolicyIDs
  BY ResolveType DEF WireSpec
<1>2. MaterialiseVerification(wire.verification, previous) \in Probe
  BY DEF WireSpec, MaterialiseVerification, Probe
<1>3. Normalise(g, wire, previous) \in WireSpec
  BY <1>1, <1>2 DEF Normalise, WireSpec
<1>4. Normalise(g, wire, previous).destination_id = ResolveDestination(g, wire.key_vault_id)
  BY DEF Normalise, WireSpec
<1> QED
  BY <1>1, <1>3, <1>4 DEF StoredSpec

\* What a spec in storage leaves of the attributes that were there before, or of
\* the blank ones of an import.
LEMMA SpecFromResponseType ==
  ASSUME NEW name \in Names, NEW spec \in StoredSpec, NEW prior,
         prior.labels \in {Null} \cup SUBSET LabelKeys,
         prior.verification \in {Null} \cup Probe
  PROVE  SpecFromResponse(name, spec, prior) \in Attributes
<1>1. spec \in WireSpec /\ spec.destination_id \in PolicyIDs
  BY DEF StoredSpec, WireSpec
<1>2. VerificationFrom(spec.verification, prior.verification) \in {Null} \cup Probe
  BY <1>1 DEF VerificationFrom, WireSpec
<1>3. DestinationIDFromResponse(spec.destination_id, prior.destination_id) \in PolicyIDs \cup {Null}
  BY <1>1 DEF DestinationIDFromResponse
<1> QED
  BY <1>1, <1>2, <1>3 DEF SpecFromResponse, Attributes, WireSpec

LEMMA KeepSpellingType ==
  ASSUME NEW a \in Attributes, NEW prior \in Attributes
  PROVE  /\ KeepSpelling(a, prior) \in Attributes
         /\ Canonical[KeepSpelling(a, prior).dns_names] = Canonical[a.dns_names]
         /\ Canonical[KeepSpelling(a, prior).key_vault_id] = Canonical[a.key_vault_id]
         /\ KeepSpelling(a, prior).certificate_name = a.certificate_name
         /\ KeepSpelling(a, prior).name = a.name
         /\ KeepSpelling(a, prior).issuance = a.issuance
<1>1. KeepDNSName(a.dns_names, prior.dns_names) \in DNSNames
      /\ Canonical[KeepDNSName(a.dns_names, prior.dns_names)] = Canonical[a.dns_names]
  BY DEF KeepDNSName, Attributes
<1>2. KeepVault(a.key_vault_id, prior.key_vault_id) \in Vaults
      /\ Canonical[KeepVault(a.key_vault_id, prior.key_vault_id)] = Canonical[a.key_vault_id]
  BY DEF KeepVault, Attributes
<1> QED
  BY <1>1, <1>2 DEF KeepSpelling, Attributes

----------------------------------------------------------------------------
(* What refreshing, planning and applying return.                            *)

USE ConfigsAssumption, GrantsAssumption, CanonicalAssumption

LEMMA ComputedType ==
  ASSUME NEW reg \in Registration, NEW wait_for
  PROVE  ComputedFrom(reg, wait_for) \in Computed
<1>1. /\ reg.spec.destination_id \in PolicyIDs
      /\ reg.spec.certificate_name \in Names /\ reg.spec.key_vault_id \in Vaults
  BY DEF Registration, StoredSpec, WireSpec
<1>2. Uri(reg.spec.key_vault_id, reg.spec.certificate_name) \in Vaults \X Names
  BY <1>1 DEF Uri
<1> QED
  BY <1>1, <1>2 DEF ComputedFrom, Computed, Registration

\* A refresh knows the registration's destination and what it is issued for.
LEMMA ServerTruthFacts ==
  ASSUME NEW reg \in Registration, NEW s \in ResourceState
  PROVE  /\ ServerTruth(reg, s) \in ResourceState
         /\ ServerTruth(reg, s).computed = ComputedFrom(reg, s.wait_for)
         /\ LET a == ServerTruth(reg, s).attributes
            IN  /\ Canonical[a.dns_names] = Canonical[reg.spec.dns_names]
                /\ Canonical[a.key_vault_id] = Canonical[reg.spec.key_vault_id]
                /\ EffectiveCertificateName(a) = reg.spec.certificate_name
                /\ a.issuance = reg.spec.issuance
<1> DEFINE b == SpecFromResponse(reg.name, reg.spec, s.attributes)
           a == KeepSpelling(b, s.attributes)
<1>1. /\ s.attributes \in Attributes
      /\ s.attributes.labels \in {Null} \cup SUBSET LabelKeys
      /\ s.attributes.verification \in {Null} \cup Probe
  BY DEF ResourceState, Attributes
<1>2. reg.name \in Names /\ reg.spec \in StoredSpec
  BY DEF Registration
<1>3. b \in Attributes
  BY <1>1, <1>2, SpecFromResponseType
<1>4. /\ b.name = reg.name /\ b.dns_names = reg.spec.dns_names
      /\ b.key_vault_id = reg.spec.key_vault_id /\ b.issuance = reg.spec.issuance
      /\ b.certificate_name = IF s.attributes.certificate_name = Null
                                   /\ reg.spec.certificate_name = reg.name
                              THEN Null ELSE reg.spec.certificate_name
  BY DEF SpecFromResponse
<1>5. /\ a \in Attributes
      /\ Canonical[a.dns_names] = Canonical[b.dns_names]
      /\ Canonical[a.key_vault_id] = Canonical[b.key_vault_id]
      /\ a.certificate_name = b.certificate_name
      /\ a.name = b.name /\ a.issuance = b.issuance
  BY <1>1, <1>3, KeepSpellingType
<1>6. reg.spec.certificate_name # Null
  BY <1>2 DEF StoredSpec, WireSpec
<1>7. EffectiveCertificateName(a) = reg.spec.certificate_name
  BY <1>4, <1>5, <1>6 DEF EffectiveCertificateName
<1>8. ComputedFrom(reg, s.wait_for) \in Computed
  BY ComputedType
<1>9. /\ ServerTruth(reg, s) \in ResourceState
      /\ ServerTruth(reg, s).attributes = a
      /\ ServerTruth(reg, s).computed = ComputedFrom(reg, s.wait_for)
  <2> HIDE DEF a
  <2>1. ServerTruth(reg, s) = [s EXCEPT !.attributes = a, !.computed = ComputedFrom(reg, s.wait_for)]
    BY DEF ServerTruth, ResourceState, a
  <2> QED
    BY <1>5, <1>8, <2>1 DEF ResourceState
<1> QED
  BY <1>4, <1>5, <1>7, <1>9

LEMMA RefreshedFacts ==
  ASSUME NEW reg \in {NoRegistration} \cup Registration,
         NEW s \in {NoState} \cup ResourceState
  PROVE  \/ Refreshed(reg, s) = NoState
         \/ /\ reg \in Registration /\ s \in ResourceState
            /\ Refreshed(reg, s) = ServerTruth(reg, s)
            /\ Refreshed(reg, s) \in ResourceState
BY ServerTruthFacts DEF Refreshed

\* A plan is of the kind its state calls for, and an update's carries the
\* configuration's attributes and says whether they differ in what is issued.
LEMMA PlanForFacts ==
  ASSUME NEW c \in Configuration, NEW s \in {NoState} \cup ResourceState,
         PlanFor(c, s).kind # "none"
  PROVE  /\ PlanFor(c, s) \in Plan
         /\ PlanFor(c, s).attributes = c.attributes
         /\ PlanFor(c, s).kind = "create" => s = NoState
         /\ PlanFor(c, s).kind # "create" => s \in ResourceState
         /\ PlanFor(c, s).kind = "update" =>
              /\ ~Replaces(s, c)
              /\ PlanFor(c, s).reissue = IssuanceRelevantChanged(s.attributes, c.attributes)
<1> DEFINE creates == s = NoState \/ Replaces(s, c)
           computed == IF creates THEN PlanUris(c, AllUnknown)
                       ELSE PlanUris(c, Carry(c, s, ProposedComputed(c, s)))
           kind == CASE s = NoState -> "create"
                     [] Replaces(s, c) -> "replace"
                     [] s # NoState /\ [attributes |-> c.attributes, wait_for |-> c.wait_for,
                                        computed |-> computed] = s -> "none"
                     [] OTHER -> "update"
           reissue == ~creates /\ IssuanceRelevantChanged(s.attributes, c.attributes)
<1>1. c.attributes \in Attributes /\ c.wait_for \in {"published", "accepted"}
  BY DEF Configuration
<1>2. ASSUME NEW p \in PlannedComputed
      PROVE  PlanUris(c, p) \in PlannedComputed
  <2> DEFINE name == EffectiveCertificateName(c.attributes)
             uri == Uri(c.attributes.key_vault_id, name)
  <2>1. name \in Names
    BY <1>1, EffectiveNameType
  <2>2. uri \in Vaults \X Names
    BY <1>1, <2>1 DEF Uri, Attributes
  <2> HIDE DEF name, uri
  <2>3. [p EXCEPT !.uri = IF @ = Unknown THEN Null ELSE @] \in PlannedComputed
    BY DEF PlannedComputed
  <2>4. [p EXCEPT !.uri = uri, !.certificate_name = name] \in PlannedComputed
    BY <2>1, <2>2 DEF PlannedComputed
  <2> QED
    BY <2>3, <2>4 DEF PlanUris, uri, name
<1>3. AllUnknown \in PlannedComputed
  BY DEF AllUnknown, PlannedComputed
<1>4. ASSUME s \in ResourceState
      PROVE  Carry(c, s, ProposedComputed(c, s)) \in PlannedComputed
  <2>1. s.computed \in Computed
    BY <1>4 DEF ResourceState
  <2>2. s.computed \in PlannedComputed
    BY <2>1 DEF Computed, PlannedComputed
  <2>3. ProposedComputed(c, s) \in PlannedComputed
    BY <2>2 DEF ProposedComputed, PlannedComputed
  <2> QED
    BY <2>1, <2>3 DEF Carry, Computed, PlannedComputed
<1>5. computed \in PlannedComputed
  BY <1>2, <1>3, <1>4
<1>6. PlanFor(c, s) = [kind |-> kind, attributes |-> c.attributes, wait_for |-> c.wait_for,
                       computed |-> computed, reissue |-> reissue]
  BY Zenon DEF PlanFor
<1>7. kind \in {"create", "update", "replace", "none"}
      /\ (kind = "create" => s = NoState)
      /\ (kind = "replace" => s # NoState)
      /\ (kind = "update" => s # NoState /\ ~Replaces(s, c))
  <2> HIDE DEF computed
  <2>1. CASE s = NoState
    <3>1. ~Replaces(s, c)
      BY <2>1 DEF Replaces
    <3>2. kind = "create"
      BY <2>1, <3>1, Zenon
    <3> QED
      BY <2>1, <3>2
  <2>2. CASE Replaces(s, c)
    <3>1. s # NoState
      BY <2>2 DEF Replaces
    <3>2. kind \in {"replace", "none"}
      BY <2>2, <3>1, Zenon
    <3> QED
      BY <3>1, <3>2
  <2>3. CASE s # NoState /\ ~Replaces(s, c)
    <3>1. kind \in {"none", "update"}
      BY <2>3, Zenon
    <3> QED
      BY <2>3, <3>1
  <2> QED
    BY <2>1, <2>2, <2>3
<1> HIDE DEF computed, kind
<1>8. /\ PlanFor(c, s).kind = kind
      /\ PlanFor(c, s).attributes = c.attributes
      /\ PlanFor(c, s).reissue = reissue
  BY <1>6
<1>9. PlanFor(c, s) \in Plan
  <2>1. reissue \in BOOLEAN
    OBVIOUS
  <2> HIDE DEF reissue
  <2> QED
    BY <1>1, <1>5, <1>6, <1>7, <1>8, <2>1 DEF Plan
<1>10. kind = "update" =>
         reissue = IssuanceRelevantChanged(s.attributes, c.attributes)
  BY <1>7 DEF IssuanceRelevantChanged
<1> QED
  <2> HIDE DEF creates, reissue
  <2> QED
    BY <1>7, <1>8, <1>9, <1>10

LEMMA FinalType ==
  ASSUME plan \in Plan, NEW reg \in Registration
  PROVE  Final(reg) \in ResourceState /\ Partial(reg) \in ResourceState
<1>1. plan.attributes \in Attributes /\ plan.wait_for \in {"published", "accepted"}
  BY DEF Plan
<1>2. ComputedFrom(reg, plan.wait_for) \in Computed
  BY ComputedType
<1>3. Final(reg) \in ResourceState
  BY <1>1, <1>2 DEF Final, ResourceState
<1>4. Partial(reg) = [Final(reg) EXCEPT !.computed =
                        [Final(reg).computed EXCEPT !.uri = Null, !.certificate = 0]]
  BY <1>3 DEF Partial, ResourceState, Computed
<1>5. [Final(reg).computed EXCEPT !.uri = Null, !.certificate = 0] \in Computed
  BY <1>3 DEF ResourceState, Computed
<1> QED
  BY <1>3, <1>4, <1>5 DEF ResourceState

LEMMA NewRegistrationType ==
  ASSUME NEW a \in Attributes, grants \in GrantTables
  PROVE  NewRegistration(a, DisabledProbe) \in Registration
<1>1. Normalise(grants, BuildSpec(a), DisabledProbe) \in StoredSpec
  BY BuildSpecType, NormaliseType, ProbeTypes
<1> QED
  BY <1>1 DEF NewRegistration, Registration, Attributes

\* A write stores what its plan says of the destination and of the issuance.
LEMMA WrittenFacts ==
  ASSUME NEW reg \in Registration, NEW a \in Attributes, grants \in GrantTables
  PROVE  /\ Written(reg, a) \in Registration
         /\ Written(reg, a).spec.dns_names = a.dns_names
         /\ Written(reg, a).spec.issuance = a.issuance
         /\ Written(reg, a).spec.key_vault_id = a.key_vault_id
         /\ Written(reg, a).spec.certificate_name = EffectiveCertificateName(a)
         /\ Written(reg, a).certificate = reg.certificate
         /\ \/ Written(reg, a).generation = reg.generation
            \/ Written(reg, a).generation = reg.generation + 1
         /\ (reg.spec.dns_names # a.dns_names \/ reg.spec.issuance # a.issuance) =>
              Written(reg, a).generation = reg.generation + 1
<1> DEFINE wire == BuildSpec(a)
           stored == Normalise(grants, wire, reg.spec.verification)
           changed == IssuanceHash(wire) # IssuanceHash(reg.spec)
<1>1. wire \in WireSpec
  BY BuildSpecType
<1>2. stored \in StoredSpec
  BY <1>1, NormaliseType DEF Registration, StoredSpec, WireSpec
<1>3. /\ wire.dns_names = a.dns_names /\ wire.issuance = a.issuance
      /\ wire.key_vault_id = a.key_vault_id
      /\ wire.certificate_name = EffectiveCertificateName(a)
  BY DEF BuildSpec
<1>4. /\ stored.dns_names = wire.dns_names /\ stored.issuance = wire.issuance
      /\ stored.key_vault_id = wire.key_vault_id
      /\ stored.certificate_name = wire.certificate_name
  BY <1>1 DEF Normalise, WireSpec
<1>5. (reg.spec.dns_names # a.dns_names \/ reg.spec.issuance # a.issuance) => changed
  BY <1>3 DEF IssuanceHash
<1>6. Written(reg, a) = [reg EXCEPT !.spec = stored, !.revision = reg.revision + 1,
                           !.generation = IF changed THEN reg.generation + 1 ELSE reg.generation]
  BY DEF Written, Registration
<1> HIDE DEF wire, stored, changed
<1>7. /\ Written(reg, a).spec = stored
      /\ Written(reg, a).certificate = reg.certificate
      /\ Written(reg, a).generation = IF changed THEN reg.generation + 1 ELSE reg.generation
  BY <1>6 DEF Registration
<1>8. Written(reg, a) \in Registration
  <2> DEFINE generation == IF changed THEN reg.generation + 1 ELSE reg.generation
  <2>1. generation \in Nat /\ reg.revision + 1 \in Nat
    BY DEF Registration
  <2> HIDE DEF generation
  <2>2. Written(reg, a) = [reg EXCEPT !.spec = stored, !.revision = reg.revision + 1,
                             !.generation = generation]
    BY <1>6 DEF generation
  <2> QED
    BY <1>2, <2>1, <2>2 DEF Registration
<1> QED
  BY <1>3, <1>4, <1>5, <1>7, <1>8

----------------------------------------------------------------------------
(* Types.                                                                    *)

\* What each step of an apply finds in plan and in state.
StepOK ==
  /\ step # "idle" => plan \in Plan
  /\ step = "planned" => (plan.kind = "create" <=> state = NoState) /\ applies < MaxApplies
  /\ step = "waiting" => plan.kind \in {"create", "update"} /\ state # NoState

TypeInv == TypeOK /\ StepOK

LEMMA ConfigFacts ==
  ASSUME TypeOK
  PROVE  config \in Configuration /\ config.attributes \in Attributes
BY DEF TypeOK, Configuration

\* How an apply ends keeps the types.
LEMMA ReturnKeepsTypes ==
  ASSUME TypeInv, NEW s \in {NoState} \cup ResourceState,
         NEW e \in {"none", "ok", "error", "inconsistent"}, ReturnTo(s, e),
         config' = config, grants' = grants,
         registration' \in {NoRegistration} \cup Registration, settled' \in BOOLEAN,
         edits' = edits, events' = events, applies' \in 0..MaxApplies
  PROVE  TypeInv'
BY DEF TypeInv, TypeOK, StepOK, ReturnTo

LEMMA SucceedsReturns ==
  ASSUME NEW s, Succeeds(s)
  PROVE  \E e \in {"ok", "inconsistent"} : ReturnTo(s, e)
BY DEF Succeeds

LEMMA TruthType ==
  ASSUME TypeOK, state # NoState
  PROVE  Truth \in ResourceState
BY ServerTruthFacts DEF TypeOK, Truth

LEMMA MakePlanTypes ==
  ASSUME TypeInv, MakePlan
  PROVE  TypeInv'
<1> DEFINE s == Refreshed(registration, state)
           p == PlanFor(config, s)
<1>1. config \in Configuration
  BY ConfigFacts DEF TypeInv
<1>2. s \in {NoState} \cup ResourceState
  BY RefreshedFacts DEF TypeInv, TypeOK
<1>3. /\ state' = s /\ UNCHANGED <<config, service, target, outcome, settled, counters>>
      /\ step = "idle" /\ applies < MaxApplies
  BY DEF MakePlan
<1>4. CASE UNCHANGED <<step, plan, seen>>
  BY <1>2, <1>3, <1>4 DEF TypeInv, TypeOK, StepOK, MakePlan, service, counters
<1>5. CASE /\ p.kind # "none"
           /\ step' = "planned" /\ plan' = p /\ seen' = registration
  <2> HIDE DEF s
  <2>1. /\ p \in Plan
        /\ p.kind = "create" => s = NoState
        /\ p.kind # "create" => s \in ResourceState
    BY <1>1, <1>2, <1>5, PlanForFacts
  <2> HIDE DEF p
  <2> QED
    BY <1>2, <1>3, <1>5, <2>1, SentinelAssumption DEF TypeInv, TypeOK, StepOK, service, counters
<1> QED
  BY <1>4, <1>5 DEF MakePlan

LEMMA DestroyTypes ==
  ASSUME TypeInv, Destroy
  PROVE  TypeInv'
<1>1. plan \in Plan /\ step = "planned" /\ plan.kind = "replace"
  BY DEF Destroy, Begin, TypeInv, StepOK
<1>2. /\ UNCHANGED <<config, grants, target, edits, events, applies>>
      /\ settled' = FALSE
  BY DEF Destroy, counters
<1>3. CASE /\ state' = state /\ outcome' = "error" /\ UNCHANGED registration
           /\ step' = "idle" /\ plan' = NoPlan /\ seen' = NoRegistration
  BY <1>2, <1>3 DEF TypeInv, TypeOK, StepOK
<1>4. CASE /\ registration' \in {NoRegistration, registration} /\ state' = NoState
           /\ plan' = [plan EXCEPT !.kind = "create"] /\ UNCHANGED <<step, outcome, seen>>
  <2>1. plan' \in Plan /\ plan'.kind = "create"
    BY <1>1, <1>4 DEF Plan
  <2> QED
    BY <1>1, <1>2, <1>4, <2>1 DEF TypeInv, TypeOK, StepOK
<1> QED
  BY <1>3, <1>4 DEF Destroy

LEMMA CreateTypes ==
  ASSUME TypeInv, Create
  PROVE  TypeInv'
<1> DEFINE new == NewRegistration(plan.attributes, DisabledProbe)
<1>1. plan \in Plan /\ plan.attributes \in Attributes /\ step = "planned" /\ plan.kind = "create"
  BY DEF Create, Begin, TypeInv, StepOK, Plan
<1>2. /\ UNCHANGED <<config, edits, events>>
      /\ applies' \in 0..MaxApplies
  BY BoundsAssumption DEF Create, Begin, TypeInv, TypeOK, StepOK
<1>3. new \in Registration
  BY <1>1, NewRegistrationType DEF TypeInv, TypeOK
<1>4. CASE Errors(state)
  BY <1>2, <1>4, ReturnKeepsTypes DEF Errors, service, TypeInv, TypeOK
<1>5. ASSUME NEW reg \in Registration, state' = Partial(reg), Wait(reg.generation),
             registration' \in {registration, reg}, grants' = grants, settled' \in BOOLEAN
      PROVE  TypeInv'
  <2>1. Partial(reg) \in ResourceState
    BY <1>1, FinalType
  <2>2. reg.generation \in Nat
    BY DEF Registration
  <2> QED
    BY <1>1, <1>2, <1>5, <2>1, <2>2, SentinelAssumption DEF TypeInv, TypeOK, StepOK, Wait
<1>6. CASE /\ ~IfNoneMatchAny /\ state' = Partial(registration)
           /\ Wait(registration.generation) /\ settled' = FALSE /\ UNCHANGED service
  <2>1. registration \in Registration
    BY <1>6 DEF IfNoneMatchAny, TypeInv, TypeOK
  <2> QED
    BY <1>5, <1>6, <2>1 DEF service
<1>7. CASE /\ registration' = new /\ state' = Partial(new)
           /\ Wait(new.generation) /\ settled' = TRUE /\ UNCHANGED grants
  BY <1>3, <1>5, <1>7
<1> QED
  BY <1>4, <1>6, <1>7 DEF Create

LEMMA ShortcutTypes ==
  ASSUME TypeInv, Shortcut
  PROVE  TypeInv'
<1> DEFINE s == [state EXCEPT !.wait_for = plan.wait_for,
                              !.attributes = KeepSpelling(state.attributes, plan.attributes)]
<1>1. /\ plan \in Plan /\ state \in ResourceState
      /\ plan.attributes \in Attributes /\ state.attributes \in Attributes
  BY DEF Shortcut, Begin, TypeInv, TypeOK, StepOK, Plan, ResourceState
<1>2. KeepSpelling(state.attributes, plan.attributes) \in Attributes
  BY <1>1, KeepSpellingType
<1>3. s \in ResourceState
  BY <1>1, <1>2 DEF ResourceState, Plan
<1>4. Succeeds(s) /\ UNCHANGED <<config, service, settled, edits, events>>
  BY DEF Shortcut
<1>5. applies' \in 0..MaxApplies
  BY BoundsAssumption DEF Shortcut, Begin, TypeInv, TypeOK, StepOK
<1> HIDE DEF s
<1> QED
  BY <1>3, <1>4, <1>5, SucceedsReturns, ReturnKeepsTypes DEF service, TypeInv, TypeOK

LEMMA UpdateTypes ==
  ASSUME TypeInv, Update
  PROVE  TypeInv'
<1> DEFINE new == Written(registration, plan.attributes)
<1>1. /\ plan \in Plan /\ plan.attributes \in Attributes
      /\ step = "planned" /\ plan.kind = "update" /\ state # NoState
  BY DEF Update, Begin, TypeInv, StepOK, Plan
<1>2. /\ UNCHANGED <<config, edits, events>>
      /\ applies' \in 0..MaxApplies
  BY BoundsAssumption DEF Update, Begin, TypeInv, TypeOK, StepOK
<1>3. Truth \in ResourceState
  BY <1>1, TruthType DEF TypeInv
<1>4. CASE Errors(state) \/ Errors(Truth)
  BY <1>2, <1>3, <1>4, ReturnKeepsTypes DEF Errors, service, TypeInv, TypeOK
<1>5. CASE /\ IfMatchRevision(state.computed.revision)
           /\ registration' = new /\ settled' = TRUE /\ UNCHANGED grants
           /\ IF new.generation = registration.generation
              THEN Succeeds(Final(new)) ELSE Wait(new.generation) /\ UNCHANGED state
  <2>1. registration \in Registration
    BY <1>5 DEF IfMatchRevision, TypeInv, TypeOK
  <2>2. new \in Registration
    BY <1>1, <2>1, WrittenFacts DEF TypeInv, TypeOK
  <2> HIDE DEF new
  <2>3. Final(new) \in ResourceState /\ new.generation \in Nat
    BY <1>1, <2>2, FinalType DEF Registration
  <2>4. CASE Succeeds(Final(new))
    BY <1>2, <1>5, <2>2, <2>3, <2>4, SucceedsReturns, ReturnKeepsTypes
  <2>5. CASE Wait(new.generation) /\ UNCHANGED state
    BY <1>1, <1>2, <1>5, <2>2, <2>3, <2>5 DEF TypeInv, TypeOK, StepOK, Wait
  <2> QED
    BY <1>5, <2>4, <2>5
<1> QED
  BY <1>4, <1>5 DEF Update

LEMMA EndOfWaitTypes ==
  ASSUME TypeInv, Finish \/ GiveUp
  PROVE  TypeInv'
<1>1. step = "waiting" /\ plan \in Plan /\ state \in ResourceState
  BY DEF Finish, GiveUp, TypeInv, TypeOK, StepOK
<1>2. UNCHANGED <<config, service, settled, counters>>
  BY DEF Finish, GiveUp
<1>3. ASSUME NEW s \in ResourceState, NEW e \in {"ok", "error", "inconsistent"}, ReturnTo(s, e)
      PROVE  TypeInv'
  BY <1>2, <1>3, ReturnKeepsTypes DEF service, counters, TypeInv, TypeOK
<1>4. registration # NoRegistration => Final(registration) \in ResourceState
  BY <1>1, FinalType DEF TypeInv, TypeOK
<1>5. Truth \in ResourceState
  BY <1>1, TruthType, SentinelAssumption DEF TypeInv
<1>6. CASE Finish
  BY <1>3, <1>4, <1>6, SucceedsReturns DEF Finish
<1>7. CASE GiveUp
  BY <1>1, <1>3, <1>4, <1>5, <1>7 DEF GiveUp
<1> QED
  BY <1>6, <1>7

LEMMA ImportTypes ==
  ASSUME TypeInv, ImportState
  PROVE  TypeInv'
<1>1. registration \in Registration /\ registration.name \in Names /\ registration.spec \in StoredSpec
  BY DEF ImportState, TypeInv, TypeOK, Registration
<1>2. SpecFromResponse(registration.name, registration.spec, Blank) \in Attributes
  <2>1. Blank.labels = Null /\ Blank.verification = Null
    BY DEF Blank
  <2> QED
    BY <1>1, <2>1, SpecFromResponseType
<1>3. ComputedFrom(registration, "published") \in Computed
  BY <1>1, ComputedType
<1>4. state' \in ResourceState
  BY <1>2, <1>3 DEF ImportState, ResourceState
<1> QED
  BY <1>4 DEF ImportState, TypeInv, TypeOK, StepOK, service, counters

\* What others do to the registration in place leaves it where it is, issued for
\* the same.
LEMMA WritesInPlace ==
  ASSUME TypeOK, Fulfil \/ Publish \/ Renew \/ WriteElsewhere \/ InjectServerLabel
  PROVE  /\ registration \in Registration /\ registration' \in Registration
         /\ registration'.spec.key_vault_id = registration.spec.key_vault_id
         /\ registration'.spec.certificate_name = registration.spec.certificate_name
         /\ registration'.spec.issuance = registration.spec.issuance
         /\ Canonical[registration'.spec.dns_names] = Canonical[registration.spec.dns_names]
<1> DEFINE spec == registration.spec
<1>1. /\ registration \in Registration
      /\ spec \in StoredSpec /\ spec \in WireSpec
      /\ registration.revision + 1 \in Nat /\ registration.generation \in Nat
      /\ registration.generation + 1 \in Nat /\ registration.certificate + 1 \in Nat
  <2>1. registration \in Registration
    BY DEF Fulfil, Publish, Unfulfilled, Renew, WriteElsewhere, InjectServerLabel, TypeOK
  <2> QED
    BY <2>1 DEF Registration, StoredSpec
<1>2. CASE Renew
  BY <1>1, <1>2 DEF Renew, Registration
<1>3. CASE Fulfil \/ Publish
  <2>1. Issued(registration) \in Registration /\ Issued(registration).spec = spec
    BY <1>1 DEF Issued, Registration
  <2>2. ASSUME NEW reg \in Registration
        PROVE  /\ [reg EXCEPT !.observed = registration.generation] \in Registration
               /\ [reg EXCEPT !.observed = registration.generation].spec = reg.spec
    BY <1>1 DEF Registration
  <2>3. registration' \in Registration /\ registration'.spec = spec
    BY <1>1, <1>3, <2>1, <2>2 DEF Fulfil, Publish
  <2> QED
    BY <1>1, <2>3
<1>4. ASSUME NEW new \in StoredSpec, NEW r \in Nat, NEW g \in Nat,
             registration' = [registration EXCEPT !.spec = new, !.revision = r, !.generation = g]
      PROVE  registration' \in Registration /\ registration'.spec = new
  BY <1>1, <1>4 DEF Registration
<1>5. CASE WriteElsewhere
  <2>1. CASE \E t \in Texts \cup {Null} :
               registration' = [registration EXCEPT !.spec.description = t, !.revision = @ + 1]
    <3>1. PICK t \in Texts \cup {Null} :
            registration' = [registration EXCEPT !.spec.description = t, !.revision = @ + 1]
      BY <2>1
    <3> DEFINE new == [spec EXCEPT !.description = t]
    <3>2. /\ new \in StoredSpec
          /\ new.key_vault_id = spec.key_vault_id /\ new.certificate_name = spec.certificate_name
          /\ new.issuance = spec.issuance /\ new.dns_names = spec.dns_names
      BY <1>1 DEF StoredSpec, WireSpec
    <3>3. registration' = [registration EXCEPT !.spec = new, !.revision = registration.revision + 1,
                                               !.generation = registration.generation]
      BY <1>1, <3>1 DEF Registration
    <3> HIDE DEF new
    <3> QED
      BY <1>1, <1>4, <3>2, <3>3
  <2>2. CASE \E d \in DNSNames :
               /\ Canonical[d] = Canonical[spec.dns_names]
               /\ registration' = [registration EXCEPT !.spec.dns_names = d, !.revision = @ + 1,
                                                       !.generation = @ + 1]
    <3>1. PICK d \in DNSNames :
               /\ Canonical[d] = Canonical[spec.dns_names]
               /\ registration' = [registration EXCEPT !.spec.dns_names = d, !.revision = @ + 1,
                                                       !.generation = @ + 1]
      BY <2>2
    <3> DEFINE new == [spec EXCEPT !.dns_names = d]
    <3>2. /\ new \in StoredSpec
          /\ new.key_vault_id = spec.key_vault_id /\ new.certificate_name = spec.certificate_name
          /\ new.issuance = spec.issuance /\ new.dns_names = d
      BY <1>1 DEF StoredSpec, WireSpec
    <3>3. registration' = [registration EXCEPT !.spec = new, !.revision = registration.revision + 1,
                                               !.generation = registration.generation + 1]
      BY <1>1, <3>1 DEF Registration
    <3> HIDE DEF new
    <3>4. registration' \in Registration /\ registration'.spec = new
      BY <1>1, <1>4, <3>2, <3>3
    <3> QED
      BY <1>1, <3>1, <3>2, <3>4
  <2> QED
    BY <1>5, <2>1, <2>2 DEF WriteElsewhere
<1>6. CASE InjectServerLabel
  <2> DEFINE new == [spec EXCEPT !.labels = @ \cup {InjectedLabel}]
  <2>1. /\ new \in StoredSpec
        /\ new.key_vault_id = spec.key_vault_id /\ new.certificate_name = spec.certificate_name
        /\ new.issuance = spec.issuance /\ new.dns_names = spec.dns_names
    BY <1>1, InjectedLabelAssumption DEF StoredSpec, WireSpec
  <2>2. registration' = [registration EXCEPT !.spec = new]
    BY <1>1, <1>6 DEF InjectServerLabel, Registration
  <2> HIDE DEF new
  <2> QED
    BY <1>1, <2>1, <2>2 DEF Registration
<1> QED
  BY <1>2, <1>3, <1>5, <1>6

LEMMA ElsewhereTypes ==
  ASSUME TypeInv,
         \/ Edit \/ Fulfil \/ Publish \/ Renew \/ WriteElsewhere \/ InjectServerLabel \/ Remove
         \/ SeedRegistration \/ Regrant
  PROVE  TypeInv'
<1>1. CASE Edit
  BY <1>1, BoundsAssumption DEF Edit, TypeInv, TypeOK, StepOK, service
<1>2. ASSUME NEW reg \in {NoRegistration} \cup Registration, registration' = reg,
             UNCHANGED <<config, state, step, plan, target, outcome, edits, applies>>,
             settled' \in BOOLEAN, grants' \in GrantTables,
             seen' \in {seen, Replaced}, events' \in 0..MaxEvents
      PROVE  TypeInv'
  BY <1>2 DEF TypeInv, TypeOK, StepOK
<1>3. Event => /\ UNCHANGED <<config, state, step, plan, target, outcome, edits, applies>>
               /\ events' \in 0..MaxEvents
  BY BoundsAssumption DEF Event, TypeInv, TypeOK
<1>4. CASE Fulfil \/ Publish
  BY <1>2, <1>4, WritesInPlace DEF Fulfil, Publish, workspace, counters, TypeInv, TypeOK
<1>5. CASE Renew \/ WriteElsewhere \/ InjectServerLabel
  BY <1>2, <1>3, <1>5, WritesInPlace DEF Renew, WriteElsewhere, InjectServerLabel, TypeInv, TypeOK
<1>6. CASE Remove
  BY <1>2, <1>3, <1>6 DEF Remove, Forgotten, TypeInv, TypeOK
<1>7. CASE SeedRegistration
  <2>1. PICK a \in Elsewhere, n \in {0, 1} :
          registration' = [NewRegistration(a, DisabledProbe)
                             EXCEPT !.observed = n, !.certificate = n]
    BY <1>7 DEF SeedRegistration
  <2>2. NewRegistration(a, DisabledProbe) \in Registration
    BY NewRegistrationType DEF TypeInv, TypeOK
  <2>3. n \in Nat
    OBVIOUS
  <2>4. registration' \in Registration
    BY <2>1, <2>2, <2>3 DEF Registration
  <2> QED
    BY <1>2, <1>3, <1>7, <2>4 DEF SeedRegistration, Forgotten, TypeInv, TypeOK
<1>8. CASE Regrant
  BY <1>2, <1>3, <1>8 DEF Regrant, TypeInv, TypeOK
<1> QED
  BY <1>1, <1>4, <1>5, <1>6, <1>7, <1>8

\* Every step of an apply has the plan and the state it works from, and there is
\* an apply left for every plan.
THEOREM PlansAreWhole == Spec => []TypeInv
<1>1. Init => TypeInv
  <2>1. 0 \in 0..MaxEdits /\ 0 \in 0..MaxEvents /\ 0 \in 0..MaxApplies
    BY BoundsAssumption
  <2>2. Init => TypeOK
    <3>1. Init => settled \in BOOLEAN
      BY Zenon DEF Init
    <3>2. Init => /\ edits \in 0..MaxEdits /\ events \in 0..MaxEvents /\ applies \in 0..MaxApplies
                  /\ target \in Nat
      BY <2>1 DEF Init
    <3> QED
      BY <3>1, <3>2, Zenon DEF Init, TypeOK
  <2>3. Init => StepOK
    BY DEF Init, StepOK
  <2> QED
    BY <2>2, <2>3 DEF TypeInv
<1>2. TypeInv /\ [Next]_vars => TypeInv'
  <2> SUFFICES ASSUME TypeInv, [Next]_vars PROVE TypeInv'
    OBVIOUS
  <2>1. CASE UNCHANGED vars
    BY <2>1 DEF TypeInv, TypeOK, StepOK, vars, service, counters
  <2>2. CASE Next
    BY <2>2, MakePlanTypes, DestroyTypes, CreateTypes, ShortcutTypes, UpdateTypes,
       EndOfWaitTypes, ImportTypes, ElsewhereTypes DEF Next
  <2> QED
    BY <2>1, <2>2
<1> QED
  BY <1>1, <1>2, PTL DEF Spec

\* Every variable keeps its type, for any configurations, spellings and grants.
THEOREM TypeCorrect == Spec => []TypeOK
BY PlansAreWhole, PTL DEF TypeInv

----------------------------------------------------------------------------
(* What an update writes.                                                    *)

PlannedUpdate == step = "planned" /\ plan.kind = "update"

\* The plan of an update leaves the destination where state has it, and the uri
\* in state, if there is one, is the one of that destination.
PlanKeepsDestination ==
  PlannedUpdate =>
    /\ Canonical[plan.attributes.key_vault_id] = Canonical[state.attributes.key_vault_id]
    /\ EffectiveCertificateName(plan.attributes) = EffectiveCertificateName(state.attributes)
    /\ plan.reissue = IssuanceRelevantChanged(state.attributes, plan.attributes)
    /\ state.computed.uri # Null =>
         state.computed.uri = Uri(state.attributes.key_vault_id,
                                  EffectiveCertificateName(state.attributes))

\* reg is published where s says, for what s says.
Describes(s, reg) ==
  /\ Canonical[reg.spec.key_vault_id] = Canonical[s.attributes.key_vault_id]
  /\ reg.spec.certificate_name = EffectiveCertificateName(s.attributes)
  /\ Canonical[reg.spec.dns_names] = Canonical[s.attributes.dns_names]
  /\ reg.spec.issuance = s.attributes.issuance

\* Until its registration is replaced, state describes it: others respell it, but
\* nobody moves it.
StateDescribes ==
  PlannedUpdate /\ seen # Replaced =>
    registration # NoRegistration /\ Describes(state, registration)

UpdateInv == PlanKeepsDestination /\ StateDescribes

LEMMA MakePlanUpdates ==
  ASSUME TypeInv, MakePlan
  PROVE  UpdateInv'
<1> DEFINE s == Refreshed(registration, state)
           p == PlanFor(config, s)
<1>1. config \in Configuration
  BY ConfigFacts DEF TypeInv
<1>2. state' = s /\ registration' = registration /\ step = "idle"
  BY DEF MakePlan, service
<1>3. s \in {NoState} \cup ResourceState
  BY RefreshedFacts DEF TypeInv, TypeOK
<1>4. CASE step' = step
  BY <1>2, <1>4 DEF UpdateInv, PlanKeepsDestination, StateDescribes, PlannedUpdate
<1>5. CASE step' # step
  <2>1. plan' = p /\ p.kind # "none" /\ ~Refuses(config, s)
    BY <1>5 DEF MakePlan
  <2>2. SUFFICES ASSUME p.kind = "update"
                 PROVE  UpdateInv'
    BY <2>1 DEF UpdateInv, PlanKeepsDestination, StateDescribes, PlannedUpdate
  <2>3. /\ p.attributes = config.attributes
        /\ s \in ResourceState
        /\ ~Replaces(s, config)
        /\ p.reissue = IssuanceRelevantChanged(s.attributes, config.attributes)
    <3> HIDE DEF s
    <3> QED
      BY <1>1, <1>3, <2>1, <2>2, PlanForFacts
  <2>4. ~DestinationChanges(s, config.attributes)
    BY <2>1, <2>3, SentinelAssumption DEF Refuses
  <2>5. /\ Canonical[config.attributes.key_vault_id] = Canonical[s.attributes.key_vault_id]
        /\ EffectiveCertificateName(config.attributes) = EffectiveCertificateName(s.attributes)
    BY <2>4 DEF DestinationChanges
  <2>6. /\ registration \in Registration /\ state \in ResourceState
        /\ s = ServerTruth(registration, state)
    BY <2>3, RefreshedFacts, SentinelAssumption DEF TypeInv, TypeOK
  <2>7. /\ s.computed = ComputedFrom(registration, state.wait_for)
        /\ Describes(s, registration)
    BY <2>6, ServerTruthFacts DEF Describes
  <2>8. s.computed.uri # Null =>
          s.computed.uri = Uri(s.attributes.key_vault_id, EffectiveCertificateName(s.attributes))
    BY <2>7 DEF ComputedFrom, Describes, Uri
  <2> HIDE DEF s, p
  <2>9. PlanKeepsDestination'
    BY <1>2, <2>1, <2>3, <2>5, <2>8 DEF PlanKeepsDestination
  <2>10. StateDescribes'
    BY <1>2, <2>6, <2>7, SentinelAssumption DEF StateDescribes
  <2> QED
    BY <2>9, <2>10 DEF UpdateInv
<1> QED
  BY <1>4, <1>5

\* What an update is about to write is what state and plan agree on, and unless
\* the registration was replaced it is still the one that state describes.
THEOREM UpdateInvariant == Spec => []UpdateInv
<1>1. Init => UpdateInv
  BY DEF Init, UpdateInv, PlanKeepsDestination, StateDescribes, PlannedUpdate
<1>2. TypeInv /\ UpdateInv /\ [Next]_vars => UpdateInv'
  <2> SUFFICES ASSUME TypeInv, UpdateInv, [Next]_vars PROVE UpdateInv'
    OBVIOUS
  <2> USE DEF UpdateInv
  <2>1. CASE MakePlan
    BY <2>1, MakePlanUpdates
  <2>2. CASE Create \/ Shortcut \/ Update \/ Finish \/ GiveUp
    <3>1. step' \in {"idle", "waiting"}
      BY <2>2 DEF Create, Shortcut, Update, Finish, GiveUp, Errors, Wait, Succeeds, ReturnTo
    <3> QED
      BY <3>1 DEF PlanKeepsDestination, StateDescribes, PlannedUpdate
  <2>3. CASE Destroy
    <3>1. step' = "idle" \/ plan'.kind = "create"
      BY <2>3 DEF Destroy, Begin, TypeInv, StepOK, Plan
    <3> QED
      BY <3>1 DEF PlanKeepsDestination, StateDescribes, PlannedUpdate
  <2>4. CASE ImportState \/ Edit
    <3>1. step' = "idle"
      BY <2>4 DEF ImportState, Edit
    <3> QED
      BY <3>1 DEF PlanKeepsDestination, StateDescribes, PlannedUpdate
  <2>5. CASE Fulfil \/ Publish \/ Renew \/ WriteElsewhere \/ InjectServerLabel
    <3>1. UNCHANGED <<state, step, plan, seen>>
      BY <2>5 DEF Fulfil, Publish, Renew, WriteElsewhere, InjectServerLabel, Event, workspace
    <3> QED
      BY <2>5, <3>1, WritesInPlace, SentinelAssumption
         DEF TypeInv, PlanKeepsDestination, StateDescribes, PlannedUpdate, Describes
  <2>6. CASE Remove \/ SeedRegistration
    <3>1. UNCHANGED <<state, step, plan>>
          /\ seen' = IF step = "idle" \/ registration = NoRegistration THEN seen ELSE Replaced
      BY <2>6 DEF Remove, SeedRegistration, Event, Forgotten
    <3> QED
      BY <3>1 DEF PlanKeepsDestination, StateDescribes, PlannedUpdate
  <2>7. CASE Regrant
    BY <2>7 DEF Regrant, Event, PlanKeepsDestination, StateDescribes, PlannedUpdate, Describes
  <2>8. CASE UNCHANGED vars
    BY <2>8 DEF vars, service, PlanKeepsDestination, StateDescribes, PlannedUpdate, Describes
  <2> QED
    BY <2>1, <2>2, <2>3, <2>4, <2>5, <2>6, <2>7, <2>8 DEF Next
<1> QED
  BY <1>1, <1>2, PlansAreWhole, PTL DEF Spec

LEMMA UpdateWrites ==
  ASSUME TypeInv, Update, registration' # registration
  PROVE  /\ PlannedUpdate /\ plan.attributes \in Attributes
         /\ state \in ResourceState /\ registration \in Registration
         /\ registration' = Written(registration, plan.attributes)
         /\ registration' \in Registration
<1>1. PlannedUpdate /\ plan.attributes \in Attributes /\ state \in ResourceState
  BY DEF Update, Begin, PlannedUpdate, TypeInv, TypeOK, StepOK, Plan
<1>2. /\ IfMatchRevision(state.computed.revision)
      /\ registration' = Written(registration, plan.attributes)
  BY DEF Update, Errors, service
<1>3. registration \in Registration
  BY <1>2 DEF IfMatchRevision, TypeInv, TypeOK
<1> QED
  BY <1>1, <1>2, <1>3, WrittenFacts DEF TypeInv, TypeOK

\* Only the write of an update changes a registration that is there and stays.
LEMMA OnlyUpdateWrites ==
  ASSUME TypeInv, Next, events' = events, ~Update, ~Fulfil, ~Publish,
         registration # NoRegistration, registration' # NoRegistration
  PROVE  registration' = registration
<1>1. Event => events' # events
  BY DEF Event, TypeInv, TypeOK
<1> QED
  BY <1>1 DEF Next, MakePlan, Destroy, Create, IfNoneMatchAny, Errors, Shortcut, Finish, GiveUp,
              ImportState, Edit, Renew, WriteElsewhere, InjectServerLabel, Remove,
              SeedRegistration, Regrant, service

\* No apply moves the destination of the registration its plan was made from,
\* whatever is respelled, regranted or written by others in between.
THEOREM DestinationIsKept == Spec => DestinationStays
<1>1. TypeInv /\ UpdateInv /\ [Next]_vars =>
        [events' = events /\ seen # Replaced
           /\ registration # NoRegistration /\ registration' # NoRegistration =>
           /\ Canonical[registration'.spec.key_vault_id] = Canonical[registration.spec.key_vault_id]
           /\ registration'.spec.certificate_name = registration.spec.certificate_name]_vars
  <2> SUFFICES ASSUME TypeInv, UpdateInv, Next, events' = events, seen # Replaced,
                      registration # NoRegistration, registration' # NoRegistration
               PROVE  /\ Canonical[registration'.spec.key_vault_id]
                           = Canonical[registration.spec.key_vault_id]
                      /\ registration'.spec.certificate_name = registration.spec.certificate_name
    OBVIOUS
  <2>1. CASE registration' = registration
    BY <2>1
  <2>2. CASE Update /\ registration' # registration
    BY <2>2, UpdateWrites, WrittenFacts
       DEF UpdateInv, PlanKeepsDestination, StateDescribes, Describes, TypeInv, TypeOK
  <2>3. CASE Fulfil \/ Publish
    BY <2>3, WritesInPlace DEF TypeInv
  <2> QED
    BY <2>1, <2>2, <2>3, OnlyUpdateWrites
<1> QED
  BY <1>1, PlansAreWhole, UpdateInvariant, PTL DEF Spec, DestinationStays

\* A plan is honest about a new certificate: an update that starts an issuance of
\* the registration its plan was made from announced it, but for a respelling.
THEOREM ReissuesAreAnnounced == Spec => ReissueIsAnnounced
<1>1. TypeInv /\ UpdateInv /\ [Next]_vars =>
        [Update /\ registration' # registration /\ seen # Replaced =>
           IF plan.reissue THEN registration'.generation > registration.generation
           ELSE \/ registration'.generation = registration.generation
                \/ Respelled(registration.spec, registration'.spec)]_vars
  <2> SUFFICES ASSUME TypeInv, UpdateInv, Update, registration' # registration, seen # Replaced
               PROVE  IF plan.reissue THEN registration'.generation > registration.generation
                      ELSE \/ registration'.generation = registration.generation
                           \/ Respelled(registration.spec, registration'.spec)
    OBVIOUS
  <2> DEFINE a == plan.attributes
  <2>1. /\ PlannedUpdate /\ a \in Attributes /\ registration \in Registration
        /\ registration' = Written(registration, a)
    BY UpdateWrites
  <2>2. /\ registration'.spec.dns_names = a.dns_names
        /\ registration'.spec.issuance = a.issuance
        /\ registration.generation \in Nat
        /\ (registration.spec.dns_names # a.dns_names \/ registration.spec.issuance # a.issuance)
             => registration'.generation = registration.generation + 1
    BY <2>1, WrittenFacts DEF TypeInv, TypeOK, Registration
  <2>3. /\ plan.reissue = IssuanceRelevantChanged(state.attributes, a)
        /\ Canonical[registration.spec.dns_names] = Canonical[state.attributes.dns_names]
        /\ registration.spec.issuance = state.attributes.issuance
    BY <2>1 DEF UpdateInv, PlanKeepsDestination, StateDescribes, Describes
  <2>4. CASE IssuanceRelevantChanged(state.attributes, a)
    <3>1. registration'.generation = registration.generation + 1
      BY <2>2, <2>3, <2>4 DEF IssuanceRelevantChanged
    <3> QED
      BY <2>2, <2>3, <2>4, <3>1
  <2>5. CASE ~IssuanceRelevantChanged(state.attributes, a)
    <3>1. Respelled(registration.spec, registration'.spec)
      BY <2>2, <2>3, <2>5 DEF IssuanceRelevantChanged, Respelled
    <3> QED
      BY <2>3, <2>5, <3>1
  <2> QED
    BY <2>4, <2>5
<1> QED
  BY <1>1, PlansAreWhole, UpdateInvariant, PTL DEF Spec, ReissueIsAnnounced

\* The uri in state stays while the registration publishes under it, an update
\* that fails or does not wait included.
THEOREM UrisStay == Spec => UriStays
<1>1. TypeInv /\ UpdateInv /\ [Next]_vars =>
        [/\ state # NoState /\ state' # NoState /\ registration' # NoRegistration
         /\ registration # NoRegistration /\ registration.certificate > 0
         /\ state.computed.uri
              = Uri(registration.spec.key_vault_id, registration.spec.certificate_name)
         => state'.computed.uri = state.computed.uri]_vars
  <2> DEFINE uri == Uri(registration.spec.key_vault_id, registration.spec.certificate_name)
  <2> SUFFICES ASSUME TypeInv, UpdateInv, Next, state # NoState, state' # NoState,
                      registration' # NoRegistration,
                      registration # NoRegistration, registration.certificate > 0,
                      state.computed.uri = uri
               PROVE  state'.computed.uri = uri
    OBVIOUS
  <2>1. registration \in Registration /\ state \in ResourceState
    BY DEF TypeInv, TypeOK
  <2>2. ASSUME NEW wait_for
        PROVE  ComputedFrom(registration, wait_for).uri = uri
    BY <2>1 DEF ComputedFrom, Registration
  <2>3. ServerTruth(registration, state).computed.uri = uri
    BY <2>1, <2>2, ServerTruthFacts
  <2>4. Truth.computed.uri = uri
    BY <2>3 DEF Truth
  <2>5. Final(registration).computed.uri = uri
    BY <2>2 DEF Final
  <2>6. CASE MakePlan
    <3>1. state' = Refreshed(registration, state)
      BY <2>6 DEF MakePlan
    <3> QED
      BY <2>1, <2>3, <3>1, RefreshedFacts
  <2>7. CASE state' = state
    BY <2>7
  <2>8. CASE Destroy \/ Create \/ ImportState
    <3>1. state' \in {state, NoState}
      BY <2>8 DEF Destroy, Create, ImportState, Errors, ReturnTo, Begin, TypeInv, StepOK
    <3> QED
      BY <3>1
  <2>9. CASE Shortcut
    <3>1. state'.computed = state.computed
      BY <2>1, <2>9 DEF Shortcut, Succeeds, ReturnTo, ResourceState
    <3> QED
      BY <3>1
  <2>10. CASE Update
    <3> DEFINE new == Written(registration, plan.attributes)
    <3>1. CASE state' = Truth
      BY <2>4, <3>1
    <3>2. CASE state' = Final(new) /\ IfMatchRevision(state.computed.revision)
      <4>1. /\ PlannedUpdate /\ plan.attributes \in Attributes
        BY <2>10 DEF Update, Begin, PlannedUpdate, TypeInv, StepOK, Plan
      <4>2. /\ new.certificate = registration.certificate
            /\ new.spec.key_vault_id = plan.attributes.key_vault_id
            /\ new.spec.certificate_name = EffectiveCertificateName(plan.attributes)
        BY <2>1, <4>1, WrittenFacts DEF TypeInv, TypeOK
      <4> HIDE DEF new
      <4>3. state'.computed.uri
              = Uri(plan.attributes.key_vault_id, EffectiveCertificateName(plan.attributes))
        BY <2>1, <3>2, <4>2 DEF Final, ComputedFrom, Registration
      <4>4. uri # Null
        <5>1. uri \in Vaults \X Names
          BY <2>1 DEF Uri, Registration, StoredSpec, WireSpec
        <5> QED
          BY <5>1, UriAssumption
      <4> QED
        BY <4>1, <4>3, <4>4 DEF UpdateInv, PlanKeepsDestination, Uri
    <3> QED
      BY <2>7, <2>10, <3>1, <3>2 DEF Update, Errors, Succeeds, ReturnTo
  <2>11. CASE Finish \/ GiveUp
    BY <2>4, <2>5, <2>7, <2>11 DEF Finish, GiveUp, Succeeds, ReturnTo
  <2>12. CASE \/ Edit \/ Fulfil \/ Publish \/ Renew \/ WriteElsewhere \/ InjectServerLabel
              \/ Remove \/ SeedRegistration \/ Regrant
    BY <2>7, <2>12 DEF Edit, Fulfil, Publish, Renew, WriteElsewhere, InjectServerLabel, Remove,
                       SeedRegistration, Regrant, Event, workspace
  <2> QED
    BY <2>6, <2>8, <2>9, <2>10, <2>11, <2>12 DEF Next
<1> QED
  BY <1>1, PlansAreWhole, UpdateInvariant, PTL DEF Spec, UriStays

----------------------------------------------------------------------------
(* The purge-protection gate.                                                *)

\* A configuration whose destination one policy grants, under the id it asserts
\* and as it spells the vault, is planned with that policy in view.
LEMMA OnePolicyInView ==
  ASSUME grants \in Seq(Grant), NEW a \in Attributes, NEW i \in Naming(grants, a.key_vault_id),
         ~(Cardinality(Naming(grants, a.key_vault_id)) > 1),
         Canonical[a.key_vault_id]
           \in {Canonical[grants[j].vault] : j \in Naming(grants, a.key_vault_id)},
         a.destination_id \in {Null} \cup {grants[j].id : j \in Naming(grants, a.key_vault_id)},
         a.destination_id
           \notin {grants[j].id : j \in DOMAIN grants \ Naming(grants, a.key_vault_id)}
  PROVE  DestinationPolicyView(a) = {grants[i]}
<1> DEFINE naming == Naming(grants, a.key_vault_id)
           Matches(g) == IF a.destination_id # Null THEN g.id = a.destination_id
                         ELSE Canonical[g.vault] = Canonical[a.key_vault_id]
           matching == {j \in DOMAIN grants : Matches(grants[j])}
<1>1. naming \subseteq DOMAIN grants /\ naming \subseteq 1..Len(grants) /\ Len(grants) \in Nat
  BY DEF Naming
<1>2. IsFiniteSet(naming) /\ Cardinality(naming) \in Nat /\ Cardinality(naming) # 0
  <2>1. IsFiniteSet(1..Len(grants))
    <3>1. 1 \in Int /\ Len(grants) \in Int
      BY <1>1
    <3> QED
      BY <3>1, FS_Interval, Zenon
  <2> HIDE DEF naming
  <2>2. IsFiniteSet(naming)
    BY <1>1, <2>1, FS_Subset
  <2>3. naming # {}
    BY DEF naming
  <2> QED
    BY <2>2, <2>3, FS_CardinalityType, FS_EmptySet
<1>3. naming = {i}
  <2>1. Cardinality(naming) = 1
    BY <1>2
  <2> QED
    BY <1>2, <2>1, FS_Singleton
<1>4. a.key_vault_id \in Vaults /\ \A j \in DOMAIN grants : grants[j] \in Grant
  BY DEF Attributes
<1>5. \A j \in DOMAIN grants : Matches(grants[j]) => j \in naming
  <2> TAKE j \in DOMAIN grants
  <2>1. CASE a.destination_id = Null
    BY <1>4, <2>1, FoldedAssumption DEF Naming, Grant
  <2>2. CASE a.destination_id # Null
    BY <2>2
  <2> QED
    BY <2>1, <2>2
<1>6. Matches(grants[i])
  <2> HIDE DEF naming
  <2> QED
    BY <1>3 DEF naming
<1>7. matching = {i}
  <2> HIDE DEF naming, Matches
  <2> QED
    BY <1>1, <1>3, <1>5, <1>6
<1>8. Cardinality(matching) = 1
  BY <1>7, FS_Singleton
<1>9. DestinationPolicyView(a) = {grants[j] : j \in matching}
  BY <1>8 DEF DestinationPolicyView
<1> HIDE DEF matching
<1> QED
  BY <1>7, <1>9

\* The purge-protection gate is never passed on another policy than the one that
\* decides, for any grants: what it does not see it warns about.
THEOREM PurgeGateIsNotPassed == Spec => PurgeGateSees
<1>1. TypeInv /\ [Next]_vars =>
        [step = "idle" /\ step' = "planned" /\ plan'.attributes.deletion = "delete" =>
           LET a == plan'.attributes
               naming == Naming(grants, a.key_vault_id)
               protected == {i \in naming : grants[i].purge_protection = TRUE}
           IN  \/ protected = {}
               \/ Cardinality(naming) > 1
               \/ Canonical[a.key_vault_id] \notin {Canonical[grants[i].vault] : i \in naming}
               \/ a.destination_id \notin {Null} \cup {grants[i].id : i \in naming}
               \/ a.destination_id \in {grants[i].id : i \in DOMAIN grants \ naming}]_vars
  <2> DEFINE a == config.attributes
             naming == Naming(grants, a.key_vault_id)
             s == Refreshed(registration, state)
  <2> SUFFICES ASSUME TypeInv, Next, step = "idle", step' = "planned",
                      plan'.attributes.deletion = "delete"
               PROVE  LET b == plan'.attributes
                          those == Naming(grants, b.key_vault_id)
                          protected == {i \in those : grants[i].purge_protection = TRUE}
                      IN  \/ protected = {}
                          \/ Cardinality(those) > 1
                          \/ Canonical[b.key_vault_id] \notin {Canonical[grants[i].vault] : i \in those}
                          \/ b.destination_id \notin {Null} \cup {grants[i].id : i \in those}
                          \/ b.destination_id \in {grants[i].id : i \in DOMAIN grants \ those}
    OBVIOUS
  <2>1. MakePlan
    BY DEF Next, Destroy, Create, Shortcut, Update, Finish, GiveUp, Begin, ImportState, Edit, Fulfil,
           Publish, Renew, WriteElsewhere, InjectServerLabel, Remove, SeedRegistration, Regrant,
           Event, workspace
  <2>2. /\ plan' = PlanFor(config, s) /\ PlanFor(config, s).kind # "none"
        /\ ~Refuses(config, s)
    BY <2>1 DEF MakePlan
  <2>3. plan'.attributes = a
    <3>1. config \in Configuration /\ s \in {NoState} \cup ResourceState
      BY ConfigFacts, RefreshedFacts DEF TypeInv, TypeOK
    <3> HIDE DEF s
    <3> QED
      BY <2>2, <3>1, PlanForFacts
  <2>4. a \in Attributes /\ grants \in Seq(Grant)
    BY ConfigFacts, GrantsAssumption DEF TypeInv, TypeOK
  <2>5. \A g \in DestinationPolicyView(a) : g.purge_protection # TRUE
    BY <2>2, <2>3 DEF Refuses, IrreversibleDelete
  <2>6. SUFFICES ASSUME NEW i \in naming, grants[i].purge_protection = TRUE,
                        ~(Cardinality(naming) > 1),
                        Canonical[a.key_vault_id] \in {Canonical[grants[j].vault] : j \in naming},
                        a.destination_id \in {Null} \cup {grants[j].id : j \in naming},
                        a.destination_id \notin {grants[j].id : j \in DOMAIN grants \ naming}
                 PROVE  FALSE
    BY <2>3
  <2>7. DestinationPolicyView(a) = {grants[i]}
    BY <2>4, <2>6, OnePolicyInView
  <2> QED
    BY <2>5, <2>6, <2>7
<1> QED
  BY <1>1, PlansAreWhole, PTL DEF Spec, PurgeGateSees
=============================================================================
