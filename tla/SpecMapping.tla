---------------------------- MODULE SpecMapping ----------------------------
(***************************************************************************)
(* The three shapes of one certificate specification and the maps between  *)
(* them: the attributes in configuration and state, the body of a PUT, and *)
(* the spec the service stores, which is never the caller's bytes.         *)
(*                                                                         *)
(* An attribute stands for those that are treated alike: issuance for key, *)
(* common_name, acme_profile and validation_binding; description for       *)
(* consumer_profile too; endpoints for expected_pickup too; deletion for   *)
(* deletion_policy and acknowledge_irreversible_delete.  dns_names has one *)
(* element.  renewal is mapped like deletion and left out.                 *)
(***************************************************************************)
EXTENDS Naturals, Sequences

CONSTANTS
  Null,       \* an attribute that is not set, a field that is not sent
  Names,      \* registration names, which are also certificate names
  DNSNames,   \* spellings of DNS names
  Vaults,     \* spellings of Key Vault ids
  PolicyIDs,  \* spellings of destination policy ids
  Issuance,   \* values of the other attributes a reissue follows from
  Malformed,  \* those among them that no service round trip is needed to refuse
  Unexportable, \* those among them whose key cannot be exported
  CryptoOnly, \* the consumer profile that never reads the secret
  Texts,      \* descriptions, and consumer profiles
  LabelKeys,  \* label keys
  Endpoints,  \* probe endpoints with their pickup window
  Canonical,  \* dnsname and armid: the canonical form of a spelling
  Folded,     \* strings.EqualFold: the class of a vault or a policy id
  Ungranted   \* dest-<vault name>: the policy id of a vault no grant names

ASSUME StaticRulesAssumption ==
  Malformed \subseteq Issuance /\ Unexportable \subseteq Issuance /\ CryptoOnly \in Texts
ASSUME CanonicalAssumption ==
  /\ Canonical \in [DNSNames \cup Vaults -> DNSNames \cup Vaults]
  /\ \A v \in Vaults : Canonical[v] \in Vaults
\* Canonical lowers the case of some segments of a vault id; folding lowers it all.
ASSUME FoldedAssumption ==
  /\ Folded \in [PolicyIDs \cup Vaults -> PolicyIDs \cup Vaults]
  /\ \A v, w \in Vaults : Canonical[v] = Canonical[w] => Folded[v] = Folded[w]
ASSUME UngrantedAssumption == Ungranted \in [Vaults -> PolicyIDs]
ASSUME NullAssumption ==
  /\ Null \notin Names \cup PolicyIDs \cup Texts \cup Endpoints
  /\ \A keys \in SUBSET LabelKeys : keys # Null

Probe == [enabled : BOOLEAN, endpoints : Endpoints \cup {Null}]

ASSUME NullProbeAssumption == \A v \in Probe : v # Null

Deletion == {"retain", "delete", "acknowledged"}

\* The spec half of the resource model.
Attributes ==
  [name : Names, dns_names : DNSNames, key_vault_id : Vaults,
   certificate_name : Names \cup {Null}, destination_id : PolicyIDs \cup {Null},
   issuance : Issuance, description : Texts \cup {Null},
   labels : {Null} \cup SUBSET LabelKeys, verification : {Null} \cup Probe,
   deletion : Deletion]

\* The body of a PUT.
WireSpec ==
  [dns_names : DNSNames, key_vault_id : Vaults, certificate_name : Names,
   destination_id : PolicyIDs \cup {Null}, issuance : Issuance,
   description : Texts \cup {Null}, labels : SUBSET LabelKeys,
   verification : Probe, deletion : Deletion]

\* What the service persists has a destination_id of the service's own.
StoredSpec == {s \in WireSpec : s.destination_id # Null}

----------------------------------------------------------------------------
(* The provider's side.                                                      *)

EffectiveCertificateName(a) ==
  IF a.certificate_name = Null THEN a.name ELSE a.certificate_name

DisabledProbe == [enabled |-> FALSE, endpoints |-> Null]

\* Mutant: a configuration without the block sends the probe it stopped
\* mentioning.
BuildSpecAlwaysProbing(a) ==
  [dns_names |-> a.dns_names, key_vault_id |-> a.key_vault_id,
   certificate_name |-> EffectiveCertificateName(a),
   destination_id |-> a.destination_id, issuance |-> a.issuance,
   description |-> a.description,
   labels |-> IF a.labels = Null THEN {} ELSE a.labels,
   verification |-> IF a.verification = Null
                    THEN [enabled |-> TRUE, endpoints |-> Null] ELSE a.verification,
   deletion |-> a.deletion]

\* buildSpecFromPlan.  An empty label map and an unset endpoint list are
\* omitted from the body; the probe's enabled is always stated.
BuildSpec(a) ==
  [dns_names |-> a.dns_names, key_vault_id |-> a.key_vault_id,
   certificate_name |-> EffectiveCertificateName(a),
   destination_id |-> a.destination_id, issuance |-> a.issuance,
   description |-> a.description,
   labels |-> IF a.labels = Null THEN {} ELSE a.labels,
   verification |-> IF a.verification = Null THEN DisabledProbe ELSE a.verification,
   deletion |-> a.deletion]

ProbeFacts(v) == IF v = Null THEN DisabledProbe ELSE v

\* verificationSemanticallyEqual: two disabled probes are the same statement.
SameProbe(v, w) ==
  /\ ProbeFacts(v).enabled = ProbeFacts(w).enabled
  /\ ProbeFacts(v).enabled => ProbeFacts(v) = ProbeFacts(w)

\* verificationObjectFrom: the service materialises a block nobody wrote, so
\* what means the same leaves the prior block, or its absence, as it is.
VerificationFrom(stored, prior) == IF SameProbe(prior, stored) THEN prior ELSE stored

\* Mutant: the resolved id is written over an attribute nobody set.
DestinationIDAlways(resolved, prior) == resolved

\* destinationIDFromResponse, for a service that always has an answer.
DestinationIDFromResponse(resolved, prior) == IF prior = Null THEN Null ELSE resolved

\* applySpecFromResponse over a model whose attributes were prior.
SpecFromResponse(name, spec, prior) ==
  [name |-> name, dns_names |-> spec.dns_names, key_vault_id |-> spec.key_vault_id,
   certificate_name |-> IF prior.certificate_name = Null /\ spec.certificate_name = name
                        THEN Null ELSE spec.certificate_name,
   destination_id |-> DestinationIDFromResponse(spec.destination_id, prior.destination_id),
   issuance |-> spec.issuance, description |-> spec.description,
   labels |-> IF spec.labels = {} /\ prior.labels = Null THEN Null ELSE spec.labels,
   verification |-> VerificationFrom(spec.verification, prior.verification),
   deletion |-> spec.deletion]

\* The custom types' semantic equality, which the framework applies to every
\* response: a spelling that means the same does not replace the prior one.
KeepDNSName(name, prior) == IF Canonical[name] = Canonical[prior] THEN prior ELSE name

KeepVault(id, prior) == IF Canonical[id] = Canonical[prior] THEN prior ELSE id

KeepSpelling(a, prior) ==
  [a EXCEPT !.dns_names = KeepDNSName(@, prior.dns_names),
            !.key_vault_id = KeepVault(@, prior.key_vault_id)]

\* Mutant: only the names are compared.
DNSNamesChanged(a, b) == Canonical[a.dns_names] # Canonical[b.dns_names]

\* issuanceRelevantChanged: what the provider takes a reissue to follow from.
IssuanceRelevantChanged(a, b) ==
  \/ Canonical[a.dns_names] # Canonical[b.dns_names]
  \/ a.issuance # b.issuance

\* specEqual: an update that changes nothing the service is told.
SpecEqual(a, b) ==
  /\ ~IssuanceRelevantChanged(a, b)
  /\ Canonical[a.key_vault_id] = Canonical[b.key_vault_id]
  /\ EffectiveCertificateName(a) = EffectiveCertificateName(b)
  /\ a.destination_id = b.destination_id
  /\ a.description = b.description
  /\ a.labels = b.labels
  /\ a.verification = b.verification
  /\ a.deletion = b.deletion
  /\ a.name = b.name

----------------------------------------------------------------------------
(* The service's side.                                                       *)

\* A namespace's destination grants, in order.  purge_protection is Null when
\* the grant does not record it.
Grant == [id : PolicyIDs, vault : Vaults, purge_protection : BOOLEAN \cup {Null}]

\* The grants that name the vault, in any case.
Naming(grants, vault) == {i \in DOMAIN grants : Folded[grants[i].vault] = Folded[vault]}

\* resolveDestinationIDLocked: the first of them decides.
ResolveDestination(grants, vault) ==
  LET naming == Naming(grants, vault)
  IN  IF naming = {} THEN Ungranted[vault]
      ELSE grants[CHOOSE i \in naming : \A j \in naming : i <= j].id

\* rejectMismatchedDestinationIDLocked compares without regard to case.
MismatchedDestination(grants, wire) ==
  /\ wire.destination_id # Null
  /\ Folded[wire.destination_id] # Folded[ResolveDestination(grants, wire.key_vault_id)]

\* materialiseVerification: what the caller omitted is inherited (G-8).
MaterialiseVerification(sent, previous) ==
  [sent EXCEPT !.endpoints = IF @ = Null THEN previous.endpoints ELSE @]

\* specReadFrom and normaliseSpecLocked: the spec stored for a body that
\* replaces previous.
Normalise(grants, wire, previous) ==
  [wire EXCEPT
    !.destination_id = ResolveDestination(grants, wire.key_vault_id),
    !.verification = MaterialiseVerification(wire.verification, previous)]

\* issuanceHash covers spellings, not canonical forms.
IssuanceHash(spec) ==
  <<spec.dns_names, spec.key_vault_id, spec.certificate_name, spec.issuance>>
=============================================================================
