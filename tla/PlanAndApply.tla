--------------------------- MODULE PlanAndApply ----------------------------
(***************************************************************************)
(* One workspace that edits its configuration of one certificate, plans    *)
(* and applies, while the service fulfils, renews and is written to by     *)
(* others: Read, ModifyPlan, Create and Update with the specification as   *)
(* SpecMapping has it.                                                     *)
(*                                                                         *)
(* CertificateLifecycle has the exchanges, their loss and their retries;   *)
(* here every exchange is answered, so that what a plan promises can be    *)
(* compared with what its apply returns.                                   *)
(*                                                                         *)
(* The framework and Terraform are external: they mark computed values     *)
(* unknown in a plan that changes something, carry those with              *)
(* UseStateForUnknown over, a null one too, and refuse a result that       *)
(* differs from a known planned value, storing it all the same.            *)
(***************************************************************************)
EXTENDS SpecMapping, FiniteSets

CONSTANTS
  Configs,       \* the configurations the workspace may be given
  Elsewhere,     \* the attributes registered by others
  GrantTables,   \* the destination grants the namespace may have
  Offered,       \* the issuance values capabilities offer
  InjectedLabel, \* a label the service writes on its own
  Unknown,       \* (known after apply)
  NoRegistration,\* nothing is registered
  NoState,       \* nothing is in state
  NoPlan,        \* no plan is at hand
  Replaced,      \* history: deleted, and perhaps made again, since the plan
  MaxEdits,      \* bound: configuration edits
  MaxEvents,     \* bound: events outside this workspace
  MaxApplies     \* bound: applies

Configuration == [attributes : Attributes, wait_for : {"published", "accepted"}]

ASSUME ConfigsAssumption == Configs \subseteq Configuration /\ Elsewhere \subseteq Attributes
ASSUME InjectedLabelAssumption == InjectedLabel \in LabelKeys
ASSUME GrantsAssumption == GrantTables \subseteq Seq(Grant)
ASSUME BoundsAssumption == MaxEdits \in Nat /\ MaxEvents \in Nat /\ MaxApplies \in Nat

\* The registration; certificate counts its published versions.
Registration ==
  [name : Names, spec : StoredSpec, revision : Nat, generation : Nat,
   observed : Nat, certificate : Nat]

Uri(vault, name) == <<Canonical[vault], name>>

ASSUME UriAssumption == {Null, Unknown} \cap (Vaults \X Names) = {} /\ Null # Unknown

\* The computed attributes.  fulfilled_generation goes with the other results
\* of an issuance, certificate with current_certificate and the time of the
\* last renewal, uri for both versionless ids.
Computed ==
  [revision : Nat, generation : Nat, fulfilled : Nat, certificate : Nat,
   certificate_name : Names, destination_id : PolicyIDs,
   uri : {Null} \cup (Vaults \X Names)]

ResourceState ==
  [attributes : Attributes, wait_for : {"published", "accepted"}, computed : Computed]

\* A planned value may be unknown.
PlannedComputed ==
  [revision : {Unknown} \cup Nat, generation : {Unknown} \cup Nat,
   fulfilled : {Unknown} \cup Nat, certificate : {Unknown} \cup Nat,
   certificate_name : Names \cup {Unknown}, destination_id : PolicyIDs \cup {Unknown},
   uri : {Null, Unknown} \cup (Vaults \X Names)]

\* reissue: the plan says that a new certificate will be issued.
Plan ==
  [kind : {"create", "update", "replace"}, attributes : Attributes,
   wait_for : {"published", "accepted"}, computed : PlannedComputed, reissue : BOOLEAN]

ASSUME SentinelAssumption ==
  /\ {NoRegistration, Replaced} \cap Registration = {} /\ NoRegistration # Replaced
  /\ NoState \notin ResourceState

VARIABLES
  config,        \* the configuration
  grants,        \* the namespace's destination grants
  registration,  \* what the service has under the name
  state,         \* the resource in state
  step,          \* "idle", "planned" or "waiting"
  plan,          \* the plan at hand
  target,        \* the generation the apply waits for
  outcome,       \* how the last apply of this configuration ended
  seen,          \* history: the registration the plan was made from, or Replaced
  settled,       \* history: the spec stored is the one the last apply sent
  edits, events, applies

service == <<grants, registration>>
counters == <<edits, events, applies>>
vars == <<config, service, state, step, plan, target, outcome, seen, settled, counters>>

TypeOK ==
  /\ config \in Configs
  /\ grants \in GrantTables
  /\ registration \in {NoRegistration} \cup Registration
  /\ state \in {NoState} \cup ResourceState
  /\ step \in {"idle", "planned", "waiting"}
  /\ plan \in {NoPlan} \cup Plan
  /\ target \in Nat
  /\ outcome \in {"none", "ok", "error", "inconsistent"}
  /\ seen \in {NoRegistration, Replaced} \cup Registration
  /\ settled \in BOOLEAN
  /\ edits \in 0..MaxEdits /\ events \in 0..MaxEvents /\ applies \in 0..MaxApplies

Init ==
  /\ config \in Configs
  /\ grants \in GrantTables
  /\ registration = NoRegistration
  /\ state = NoState
  /\ step = "idle" /\ plan = NoPlan /\ target = 0
  /\ outcome = "none" /\ seen = NoRegistration /\ settled = FALSE
  /\ edits = 0 /\ events = 0 /\ applies = 0

----------------------------------------------------------------------------
(* Refresh.                                                                  *)

\* Mutant: under wait_for = "accepted" the uri is never handed out.
ComputedWithholding(reg, wait_for) ==
  [revision |-> reg.revision, generation |-> reg.generation, fulfilled |-> reg.observed,
   certificate |-> reg.certificate, certificate_name |-> reg.spec.certificate_name,
   destination_id |-> reg.spec.destination_id,
   uri |-> IF wait_for = "accepted" THEN Null
           ELSE Uri(reg.spec.key_vault_id, reg.spec.certificate_name)]

\* applyComputedFromResponse: under wait_for = "accepted" the uri is withheld
\* until there is a certificate.
ComputedFrom(reg, wait_for) ==
  [revision |-> reg.revision, generation |-> reg.generation, fulfilled |-> reg.observed,
   certificate |-> reg.certificate, certificate_name |-> reg.spec.certificate_name,
   destination_id |-> reg.spec.destination_id,
   uri |-> IF reg.certificate = 0 /\ wait_for = "accepted" THEN Null
           ELSE Uri(reg.spec.key_vault_id, reg.spec.certificate_name)]

\* The whole of a representation, over a model that held prior.
ServerTruth(reg, prior) ==
  [prior EXCEPT
    !.attributes = KeepSpelling(SpecFromResponse(reg.name, reg.spec, @), @),
    !.computed = ComputedFrom(reg, prior.wait_for)]

\* Read: GET by the name in state.
Refreshed(reg, s) ==
  IF s = NoState \/ reg = NoRegistration THEN NoState
  ELSE IF reg.name # s.attributes.name THEN NoState
  ELSE ServerTruth(reg, s)

----------------------------------------------------------------------------
(* Planning.                                                                 *)

AllUnknown ==
  [revision |-> Unknown, generation |-> Unknown, fulfilled |-> Unknown,
   certificate |-> Unknown, certificate_name |-> Unknown,
   destination_id |-> Unknown, uri |-> Unknown]

\* What the framework proposes for an update of s to c.
ProposedComputed(c, s) ==
  IF c.attributes = s.attributes /\ c.wait_for = s.wait_for THEN s.computed
  ELSE [s.computed EXCEPT !.revision = Unknown, !.generation = Unknown,
                          !.fulfilled = Unknown, !.certificate = Unknown]

\* Mutant: the certificate is carried over whatever changes.
CarryAlways(c, s, proposed) ==
  [proposed EXCEPT !.generation = s.computed.generation, !.fulfilled = s.computed.fulfilled,
                   !.certificate = s.computed.certificate]

\* ModifyPlan, refinement 2: a change that reissues nothing leaves the
\* certificate as state has it.
Carry(c, s, proposed) ==
  IF IssuanceRelevantChanged(s.attributes, c.attributes) THEN proposed
  ELSE [proposed EXCEPT !.generation = s.computed.generation, !.fulfilled = s.computed.fulfilled,
                        !.certificate = s.computed.certificate]

\* planVersionlessURIs, refinement 1.
PlanUris(c, proposed) ==
  IF c.wait_for = "accepted"
  THEN [proposed EXCEPT !.uri = IF @ = Unknown THEN Null ELSE @]
  ELSE IF proposed.uri \notin {Unknown, Null} THEN proposed
  ELSE [proposed EXCEPT
         !.uri = Uri(c.attributes.key_vault_id, EffectiveCertificateName(c.attributes)),
         !.certificate_name = EffectiveCertificateName(c.attributes)]

\* Mutant: the grant is looked up by the asserted id alone.
PolicyViewByID(a) ==
  LET matching == {i \in DOMAIN grants : grants[i].id = a.destination_id}
  IN  IF Cardinality(matching) = 1 THEN {grants[i] : i \in matching} ELSE {}

\* destinationPolicyView: the one grant of the plan's destination, if it is one.
DestinationPolicyView(a) ==
  LET Matches(g) == IF a.destination_id # Null THEN g.id = a.destination_id
                    ELSE Canonical[g.vault] = Canonical[a.key_vault_id]
      matching == {i \in DOMAIN grants : Matches(grants[i])}
  IN  IF Cardinality(matching) = 1 THEN {grants[i] : i \in matching} ELSE {}

\* validatePurgeProtection, where it is an error.
IrreversibleDelete(a) ==
  /\ a.deletion = "delete"
  /\ \E g \in DestinationPolicyView(a) : g.purge_protection = TRUE

\* destinationIDMoves.
DestinationIDMoves(s, a) ==
  /\ a.destination_id # Null
  /\ a.destination_id # IF s.attributes.destination_id # Null
                        THEN s.attributes.destination_id ELSE s.computed.destination_id

\* Mutant: the certificate name is compared as it is written.
DestinationChangesVault(s, a) ==
  \/ Canonical[s.attributes.key_vault_id] # Canonical[a.key_vault_id]
  \/ DestinationIDMoves(s, a)

\* destinationChangeDiagnostics, without the destination_migration feature.
DestinationChanges(s, a) ==
  \/ Canonical[s.attributes.key_vault_id] # Canonical[a.key_vault_id]
  \/ EffectiveCertificateName(s.attributes) # EffectiveCertificateName(a)
  \/ DestinationIDMoves(s, a)

Replaces(s, c) == s # NoState /\ s.attributes.name # c.attributes.name

\* ValidateResource: a reserved, contradictory or ill-formed attribute, and a
\* key that cannot be exported for a consumer that reads the secret.
Invalid(a) ==
  \/ a.issuance \in Malformed
  \/ a.issuance \in Unexportable /\ a.description # CryptoOnly

\* validateAgainstCapabilities.
Unavailable(a) == a.issuance \notin Offered

\* The plan is an error: the configuration's own rules, the capabilities,
\* validatePurgeProtection, and the destination gate, which a replacement does
\* not go through.
Refuses(c, s) ==
  \/ Invalid(c.attributes)
  \/ Unavailable(c.attributes)
  \/ IrreversibleDelete(c.attributes)
  \/ /\ s # NoState
     /\ ~Replaces(s, c)
     /\ DestinationChanges(s, c.attributes)

\* The plan for c over refreshed state s; a replacement is planned as a create.
PlanFor(c, s) ==
  LET creates == s = NoState \/ Replaces(s, c)
      computed == IF creates THEN PlanUris(c, AllUnknown)
                  ELSE PlanUris(c, Carry(c, s, ProposedComputed(c, s)))
      kind == CASE s = NoState -> "create"
                [] Replaces(s, c) -> "replace"
                [] s # NoState /\ [attributes |-> c.attributes, wait_for |-> c.wait_for,
                                   computed |-> computed] = s -> "none"
                [] OTHER -> "update"
  IN  [kind |-> kind, attributes |-> c.attributes, wait_for |-> c.wait_for,
       computed |-> computed,
       reissue |-> ~creates /\ IssuanceRelevantChanged(s.attributes, c.attributes)]

\* terraform plan: refresh, then plan.  A refused plan still refreshes.
MakePlan ==
  /\ step = "idle" /\ applies < MaxApplies
  /\ LET s == Refreshed(registration, state)
         p == PlanFor(config, s)
     IN  /\ state' = s
         /\ IF Refuses(config, s) \/ p.kind = "none"
            THEN UNCHANGED <<step, plan, seen>>
            ELSE step' = "planned" /\ plan' = p /\ seen' = registration
  /\ UNCHANGED <<config, service, target, outcome, settled, counters>>

----------------------------------------------------------------------------
(* Applying.                                                                 *)

\* Terraform's check of what an apply without errors returned.
Agrees(s) ==
  /\ s.attributes = plan.attributes
  /\ \A f \in DOMAIN s.computed : plan.computed[f] \in {Unknown, s.computed[f]}

\* The apply returns s; e is its outcome.
ReturnTo(s, e) ==
  /\ state' = s
  /\ outcome' = e
  /\ step' = "idle" /\ plan' = NoPlan /\ target' = 0 /\ seen' = NoRegistration

Succeeds(s) ==
  ReturnTo(s, IF Agrees(s) THEN "ok" ELSE "inconsistent")

\* final := plan, with what reg says of the computed attributes.
Final(reg) ==
  [attributes |-> plan.attributes, wait_for |-> plan.wait_for,
   computed |-> ComputedFrom(reg, plan.wait_for)]

\* Mutant: an unknown is written mid-apply.
PartialUnknown(reg) ==
  [Final(reg) EXCEPT !.computed.uri = Unknown, !.computed.certificate = 0]

\* The partial state of Create names no certificate.
Partial(reg) ==
  [Final(reg) EXCEPT !.computed.uri = Null, !.computed.certificate = 0]

Wait(generation) ==
  /\ step' = "waiting" /\ target' = generation
  /\ UNCHANGED <<plan, seen, outcome>>

\* No write reached the service.
Errors(s) ==
  ReturnTo(s, "error") /\ settled' = FALSE /\ UNCHANGED service

Begin(kind) == step = "planned" /\ plan.kind = kind

NewRegistration(a, previous) ==
  LET wire == BuildSpec(a)
  IN  [name |-> a.name, spec |-> Normalise(grants, wire, previous), revision |-> 1,
       generation |-> 1, observed |-> 0, certificate |-> 0]

\* A replacement deletes first: ?policy= may not widen the persisted policy.
Destroy ==
  /\ Begin("replace")
  /\ UNCHANGED <<config, grants, target, counters>>
  /\ settled' = FALSE
  /\ LET there == registration # NoRegistration /\ registration.name = state.attributes.name
         wider == there /\ registration.spec.deletion = "retain"
                    /\ state.attributes.deletion # "retain"
     IN  \/ /\ wider
            /\ state' = state /\ outcome' = "error"
            /\ step' = "idle" /\ plan' = NoPlan /\ seen' = NoRegistration
            /\ UNCHANGED registration
         \/ /\ ~wider
            /\ registration' = IF there THEN NoRegistration ELSE registration
            /\ state' = NoState
            /\ plan' = [plan EXCEPT !.kind = "create"]
            /\ UNCHANGED <<step, outcome, seen>>

\* The precondition a PUT carries: If-None-Match: * or the revision in state.
IfNoneMatchAny == registration = NoRegistration
IfMatchRevision(revision) ==
  registration # NoRegistration /\ registration.revision = revision

\* Create: PUT with If-None-Match: *.  A 200 adopts what has the same hash and
\* owner without writing it; the partial state comes before any waiting.
Create ==
  /\ Begin("create")
  /\ applies' = applies + 1
  /\ UNCHANGED <<config, edits, events>>
  /\ LET wire == BuildSpec(plan.attributes)
         new == NewRegistration(plan.attributes, DisabledProbe)
         known == ~IfNoneMatchAny
     IN  \/ MismatchedDestination(grants, wire) /\ Errors(state)
         \/ /\ ~MismatchedDestination(grants, wire)
            /\ known /\ IssuanceHash(registration.spec) # IssuanceHash(wire)
            /\ Errors(state)
         \/ /\ ~MismatchedDestination(grants, wire)
            /\ known /\ IssuanceHash(registration.spec) = IssuanceHash(wire)
            /\ state' = Partial(registration)
            /\ Wait(registration.generation)
            /\ settled' = FALSE
            /\ UNCHANGED service
         \/ /\ ~MismatchedDestination(grants, wire)
            /\ ~known
            /\ registration' = new
            /\ state' = Partial(new)
            /\ Wait(new.generation)
            /\ settled' = TRUE
            /\ UNCHANGED grants

\* onlyClientOnlyChanged: no request, state with the plan's wait_for.
Shortcut ==
  /\ Begin("update")
  /\ SpecEqual(state.attributes, plan.attributes)
  /\ applies' = applies + 1
  /\ Succeeds([state EXCEPT !.wait_for = plan.wait_for,
                            !.attributes = KeepSpelling(@, plan.attributes)])
  /\ UNCHANGED <<config, service, settled, edits, events>>

\* handlePutRegistration on a live record whose revision matches.
Written(reg, a) ==
  LET wire == BuildSpec(a)
      changed == IssuanceHash(wire) # IssuanceHash(reg.spec)
  IN  [reg EXCEPT !.spec = Normalise(grants, wire, reg.spec.verification),
                  !.revision = @ + 1,
                  !.generation = IF changed THEN @ + 1 ELSE @]

\* What an update that failed leaves in state: the service's own account.
Truth == IF registration = NoRegistration THEN state ELSE ServerTruth(registration, state)

\* Update: PUT with If-Match.  It waits only if the hash changed, and then
\* whatever wait_for says.
Update ==
  /\ Begin("update")
  /\ ~SpecEqual(state.attributes, plan.attributes)
  /\ applies' = applies + 1
  /\ UNCHANGED <<config, edits, events>>
  /\ LET wire == BuildSpec(plan.attributes)
         known == registration # NoRegistration
         current == IfMatchRevision(state.computed.revision)
     IN  \/ MismatchedDestination(grants, wire) /\ Errors(state)
         \/ ~MismatchedDestination(grants, wire) /\ ~known /\ Errors(state)
         \/ /\ ~MismatchedDestination(grants, wire)
            /\ known /\ ~current
            /\ Errors(Truth)
         \/ /\ ~MismatchedDestination(grants, wire)
            /\ current
            /\ registration' = Written(registration, plan.attributes)
            /\ settled' = TRUE
            /\ UNCHANGED grants
            /\ IF registration'.generation = registration.generation
               THEN Succeeds(Final(registration'))
               ELSE Wait(registration'.generation) /\ UNCHANGED state

Creating == plan.kind = "create"

\* The wait ends: published, or accepted was enough for a create.
Finish ==
  /\ step = "waiting"
  /\ registration # NoRegistration
  /\ \/ registration.observed >= target
     \/ Creating /\ plan.wait_for = "accepted"
  /\ Succeeds(Final(registration))
  /\ UNCHANGED <<config, service, settled, counters>>

\* The wait fails or runs out of time.  What a failed create taints is untainted
\* by hand.
GiveUp ==
  /\ step = "waiting"
  /\ \/ ~Creating /\ ReturnTo(Truth, "error")
     \/ Creating /\ ReturnTo(state, "error")
     \/ Creating /\ registration # NoRegistration /\ ReturnTo(Final(registration), "error")
  /\ UNCHANGED <<config, service, settled, counters>>

Blank == [certificate_name |-> Null, destination_id |-> Null, labels |-> Null,
          verification |-> Null]

\* ImportState, of a registration of the caller's own.
ImportState ==
  /\ step = "idle" /\ state = NoState
  /\ registration # NoRegistration
  /\ registration.name = config.attributes.name
  /\ state' = [attributes |-> SpecFromResponse(registration.name, registration.spec, Blank),
               wait_for |-> "published", computed |-> ComputedFrom(registration, "published")]
  /\ UNCHANGED <<config, service, step, plan, target, outcome, seen, settled, counters>>

----------------------------------------------------------------------------
(* Everybody else.                                                           *)

workspace == <<config, state, step, plan, target, outcome, seen>>

\* The HCL is edited.  One name is followed at a time: a rename waits for the
\* old name to be in state.
Edit ==
  /\ step = "idle" /\ edits < MaxEdits
  /\ edits' = edits + 1
  /\ \E c \in Configs \ {config} :
       /\ (registration # NoRegistration /\ state = NoState)
            => c.attributes.name = registration.name
       /\ config' = c
  /\ outcome' = "none"
  /\ UNCHANGED <<service, state, step, plan, target, seen, settled, events, applies>>

\* issueCertificateLocked: one more published version.
Issued(reg) == [reg EXCEPT !.certificate = @ + 1]

Unfulfilled == registration # NoRegistration /\ registration.observed < registration.generation

\* The operation succeeds: maybeFulfilLocked.
Fulfil ==
  /\ Unfulfilled
  /\ registration' = [Issued(registration) EXCEPT !.observed = registration.generation]
  /\ UNCHANGED <<workspace, grants, settled, counters>>

\* The work is finished after Terraform stopped waiting: the certificate there
\* is, if there is one, counts for the generation.
Publish ==
  /\ Unfulfilled
  /\ LET reg == IF registration.certificate = 0 THEN Issued(registration) ELSE registration
     IN  registration' = [reg EXCEPT !.observed = registration.generation]
  /\ UNCHANGED <<workspace, grants, settled, counters>>

Event ==
  /\ events < MaxEvents /\ events' = events + 1
  /\ UNCHANGED <<config, state, step, plan, target, outcome, edits, applies>>

\* A renewal touches neither revision nor generation.
Renew ==
  /\ Event
  /\ registration # NoRegistration /\ registration.certificate > 0
  /\ registration' = [registration EXCEPT !.certificate = @ + 1]
  /\ UNCHANGED <<grants, seen, settled>>

\* Another client changes the description, or respells a name.
WriteElsewhere ==
  /\ Event
  /\ registration # NoRegistration
  /\ \/ \E t \in Texts \cup {Null} :
          registration' = [registration EXCEPT !.spec.description = t, !.revision = @ + 1]
     \/ \E d \in DNSNames :
          /\ d # registration.spec.dns_names
          /\ Canonical[d] = Canonical[registration.spec.dns_names]
          /\ registration' = [registration EXCEPT !.spec.dns_names = d, !.revision = @ + 1,
                                                  !.generation = @ + 1]
  /\ settled' = FALSE
  /\ UNCHANGED <<grants, seen>>

\* G-6 violated: the service writes a label of its own, without a revision.
InjectServerLabel ==
  /\ Event
  /\ registration # NoRegistration
  /\ registration' = [registration EXCEPT !.spec.labels = @ \cup {InjectedLabel}]
  /\ settled' = FALSE
  /\ UNCHANGED <<grants, seen>>

\* What was there when the plan was made is not there any more.
Forgotten == seen' = IF step = "idle" \/ registration = NoRegistration THEN seen ELSE Replaced

Remove ==
  /\ Event
  /\ registration # NoRegistration
  /\ registration' = NoRegistration
  /\ Forgotten
  /\ settled' = FALSE
  /\ UNCHANGED grants

\* A registration of the caller's own is made elsewhere, where there is none or
\* the one there is was deleted just before.
SeedRegistration ==
  /\ Event
  /\ registration # NoRegistration => registration.name = config.attributes.name
  /\ \E a \in Elsewhere :
       /\ a.name = config.attributes.name
       /\ \E n \in {0, 1} :
            registration' = [NewRegistration(a, DisabledProbe)
                              EXCEPT !.observed = n, !.certificate = n]
  /\ Forgotten
  /\ settled' = FALSE
  /\ UNCHANGED grants

\* The platform team repoints the namespace's destination policies.
Regrant ==
  /\ Event
  /\ grants' \in GrantTables \ {grants}
  /\ UNCHANGED <<registration, seen, settled>>

Next ==
  \/ MakePlan \/ Destroy \/ Create \/ Shortcut \/ Update \/ Finish \/ GiveUp
  \/ ImportState
  \/ Edit \/ Fulfil \/ Publish \/ Renew \/ WriteElsewhere \/ InjectServerLabel \/ Remove
  \/ SeedRegistration \/ Regrant

Spec == Init /\ [][Next]_vars

----------------------------------------------------------------------------
(* Properties.                                                               *)

\* The probe is on, and the endpoints the configuration no longer lists are
\* still stored: the body cannot say that they were cleared.
UnclearedEndpoints ==
  /\ config.attributes.verification # Null
  /\ config.attributes.verification.enabled
  /\ config.attributes.verification.endpoints = Null
  /\ registration.spec.verification.endpoints # Null

\* destination_id is asserted in another case than the service resolves it to.
RespelledDestination ==
  /\ config.attributes.destination_id # Null
  /\ config.attributes.destination_id # registration.spec.destination_id
  /\ Folded[config.attributes.destination_id] = Folded[registration.spec.destination_id]

\* The last apply wrote the configuration, and nobody has written since.
Applied ==
  step = "idle" /\ outcome = "ok" /\ settled /\ registration # NoRegistration

\* After an apply the next plan is empty and no destination error, renewals or
\* not, but for the two cases named (normalise.go: apply, then an empty plan).
\* For a description or labels just removed this rests on handlePutRegistration
\* storing what is omitted as absent (see OmittedFieldsAreInherited).
ApplyThenEmptyPlan ==
  Applied =>
    LET s == Refreshed(registration, state)
    IN  /\ PlanFor(config, s).kind = "none" \/ UnclearedEndpoints \/ RespelledDestination
        /\ DestinationChanges(s, config.attributes) => RespelledDestination

\* What Read's tolerance might hide: after an apply the service's spec says what
\* the body of the last write said.  An attribute the body omits (a description
\* or the labels taken out of the configuration) is not spoken of here: whether
\* it is cleared or inherited is OmittedFieldsAreInherited.
AppliedMeansConfigured ==
  Applied =>
    LET a == config.attributes
        spec == registration.spec
    IN  /\ Canonical[spec.dns_names] = Canonical[a.dns_names]
        /\ spec.certificate_name = EffectiveCertificateName(a)
        /\ spec.issuance = a.issuance /\ spec.deletion = a.deletion
        /\ a.description # Null => spec.description = a.description
        /\ a.labels \notin {Null, {}} => spec.labels = a.labels
        /\ SameProbe(a.verification, spec.verification) \/ UnclearedEndpoints

\* Why the answer to an apply may contradict its plan: a uri withheld in the
\* plan is published now, or one planned under "published" is withheld now; or
\* an update raised wait_for over a withheld uri, states or drops the default
\* certificate name and nothing else, found the registration moved
\* on since the refresh, came with a respelling, or with a vault that resolves
\* to another policy now.
KnownContradiction ==
  IF plan.kind = "update" /\ SpecEqual(state.attributes, plan.attributes)
  THEN \/ state.computed.uri = Null
       \/ state.attributes.certificate_name # plan.attributes.certificate_name
  ELSE \/ /\ plan.wait_for = "accepted"
          /\ (plan.computed.uri = Null) <=> (registration'.certificate > 0)
       \/ /\ plan.kind = "update" /\ ~plan.reissue
          /\ \/ seen.observed # registration.observed
             \/ seen.certificate # registration.certificate
             \/ seen.generation # registration.generation
             \/ IssuanceHash(seen.spec) # IssuanceHash(BuildSpec(plan.attributes))
       \/ /\ plan.kind = "update"
          /\ registration'.spec.destination_id # seen.spec.destination_id

\* Rule R-3: what an apply returns agrees with every known planned value, but
\* for the contradictions named, and for what the name stands for being another
\* registration since the plan.
OnlyKnownContradictions ==
  [][step # "idle" /\ step' = "idle" /\ outcome' = "inconsistent" =>
       seen = Replaced \/ KnownContradiction]_vars

\* The provider never moves the destination of a registration.  The gate is
\* ModifyPlan's and the write comes later, so this is said of the registration the
\* plan was made from: If-Match does not tell it from a successor at its revision.
DestinationStays ==
  [][events' = events /\ seen # Replaced
       /\ registration # NoRegistration /\ registration' # NoRegistration =>
       /\ Canonical[registration'.spec.key_vault_id] = Canonical[registration.spec.key_vault_id]
       /\ registration'.spec.certificate_name = registration.spec.certificate_name]_vars

Respelled(spec, wire) ==
  /\ spec.issuance = wire.issuance
  /\ Canonical[spec.dns_names] = Canonical[wire.dns_names]

\* Plan honesty: an update of the registration its plan was made from starts an
\* issuance if the plan said so, and otherwise only if a spelling is all the
\* issuance hash saw change.
ReissueIsAnnounced ==
  [][Update /\ registration' # registration /\ seen # Replaced =>
       IF plan.reissue THEN registration'.generation > registration.generation
       ELSE \/ registration'.generation = registration.generation
            \/ Respelled(registration.spec, registration'.spec)]_vars

\* The uri consumers are bound to stays in state for as long as the
\* registration publishes under it.
UriStays ==
  [][/\ state # NoState /\ state' # NoState /\ registration' # NoRegistration
     /\ registration # NoRegistration /\ registration.certificate > 0
     /\ state.computed.uri = Uri(registration.spec.key_vault_id, registration.spec.certificate_name)
     => state'.computed.uri = state.computed.uri]_vars

\* The purge-protection gate sees the grant the service resolves, or the plan
\* is one of four it only warns about: two policies grant the vault, no policy
\* spells it as the plan does, or destination_id asserts another one, or one whose
\* id another vault's policy has too.
PurgeGateSees ==
  [][step = "idle" /\ step' = "planned" /\ plan'.attributes.deletion = "delete" =>
       LET a == plan'.attributes
           naming == Naming(grants, a.key_vault_id)
           protected == {i \in naming : grants[i].purge_protection = TRUE}
       IN  \/ protected = {}
           \/ Cardinality(naming) > 1
           \/ Canonical[a.key_vault_id] \notin {Canonical[grants[i].vault] : i \in naming}
           \/ a.destination_id \notin {Null} \cup {grants[i].id : i \in naming}
           \/ a.destination_id \in {grants[i].id : i \in DOMAIN grants \ naming}]_vars

\* Rule R-3 without exception.
AppliesAsPlanned == outcome # "inconsistent"

\* handlers.go:435: "on an UPDATE an omitted field inherits the stored value":
\* a write leaves what its body does not mention as it was.
OmittedFieldsAreInherited ==
  [][Update /\ registration' # registration =>
       LET wire == BuildSpec(plan.attributes)
           old == registration.spec
           new == registration'.spec
       IN  /\ wire.description = Null => new.description = old.description
           /\ wire.labels = {} => new.labels = old.labels
           /\ wire.verification.endpoints = Null
                => new.verification.endpoints = old.verification.endpoints]_vars
=============================================================================
