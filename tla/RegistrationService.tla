------------------------ MODULE RegistrationService ------------------------
(***************************************************************************)
(* The certificate service as the provider sees it through                 *)
(* internal/fakeservice: the registration stored under one                 *)
(* {namespace}/{name} key, and the operations started on it.               *)
(*                                                                         *)
(* A specification has an issuance part (the fields issuanceHash covers:   *)
(* DNS names, destination, key, profile, binding) and the deletion policy, *)
(* which stands for the fields the hash does not cover.  Every handler     *)
(* runs under Server.mu, so each is one atomic action.  A tombstone        *)
(* answers 410 where a free key answers 404; every caller modelled here    *)
(* treats the two alike, so both are NoRegistration.                       *)
(*                                                                         *)
(* Only its poller advances an operation, so the service keeps, for each   *)
(* workspace, the operation that workspace polls.                          *)
(***************************************************************************)
EXTENDS Naturals

CONSTANTS
  Workspaces,         \* the clients of the service
  Issuance,           \* values of the issuance-relevant part of a spec
  Principals,         \* possible owners of a registration
  CallerPrincipalID,  \* the principal every workspace authenticates as
  NoRegistration,     \* nothing is stored under the key
  MaxForeign          \* bound: others create only up to this registration id

ASSUME PrincipalsAssumption == CallerPrincipalID \in Principals
ASSUME MaxForeignAssumption == MaxForeign \in Nat

DeletionPolicy == {"retain", "delete"}

CertificateSpec == [issuance : Issuance, deletion_policy : DeletionPolicy]

Registration ==
  [id         : Nat,             \* RegistrationID, never reused
   owner      : Principals,
   spec       : CertificateSpec,
   revision   : Nat,             \* spec.revision, the ETag
   generation : Nat,             \* spec.generation
   observed   : Nat,             \* status.observed_generation
   phase      : {"issuing", "ready", "failed"},
   failing    : BOOLEAN]         \* status.operation.state is failed

\* "running" is any state that is not terminal, deferred included; "settled" is
\* a record that is gone, or says succeeded; "none" is nothing to poll.
OperationState == {"none", "running", "failed", "settled"}

Operation == [state : OperationState, target : Nat]

NoOperation == [state |-> "none", target |-> 0]

ASSUME NoRegistrationAssumption == NoRegistration \notin Registration

VARIABLES
  registration,  \* the record under the key, or NoRegistration
  operations,    \* operations[w]: the operation workspace w polls
  created        \* how many registration ids have been handed out

serviceVars == <<registration, operations, created>>

ServiceTypeOK ==
  /\ registration \in Registration \cup {NoRegistration}
  /\ operations \in [Workspaces -> Operation]
  /\ created \in Nat

Live == registration # NoRegistration

(* SeedRegistration: a published registration made outside these workspaces. *)
Seeded(id, owner, spec) ==
  [id |-> id, owner |-> owner, spec |-> spec, revision |-> 1, generation |-> 1,
   observed |-> 1, phase |-> "ready", failing |-> FALSE]

ServiceInit ==
  /\ registration \in {NoRegistration} \cup
       {Seeded(0, p, s) : p \in Principals, s \in CertificateSpec}
  /\ operations = [w \in Workspaces |-> NoOperation]
  /\ created = 0

----------------------------------------------------------------------------
(* PUT.                                                                      *)

\* startOperationLocked.  polled says whether w will poll it; an operation
\* nobody polls stays as it is.
StartOperation(w, reg, polled) ==
  /\ operations' = IF polled
                   THEN [operations EXCEPT ![w] = [state |-> "running", target |-> reg.generation]]
                   ELSE operations
  /\ registration' = [reg EXCEPT !.phase = "issuing", !.failing = FALSE]

\* Mutant: an id is not used up by the registration that gets it.
PutCreatesReusingId(w, s, polled) ==
  /\ ~Live
  /\ created' = created
  /\ StartOperation(w, [id |-> created + 1, owner |-> CallerPrincipalID, spec |-> s,
                        revision |-> 1, generation |-> 1, observed |-> 0,
                        phase |-> "issuing", failing |-> FALSE], polled)

\* If-None-Match: * on a free key creates the registration and answers 202.
PutCreates(w, s, polled) ==
  /\ ~Live
  /\ created' = created + 1
  /\ StartOperation(w, [id |-> created + 1, owner |-> CallerPrincipalID, spec |-> s,
                        revision |-> 1, generation |-> 1, observed |-> 0,
                        phase |-> "issuing", failing |-> FALSE], polled)

\* ... and answers 200 without writing when hash and owner already match.
PutAdopts(s) ==
  /\ Live
  /\ registration.spec.issuance = s.issuance
  /\ registration.owner = CallerPrincipalID
  /\ UNCHANGED serviceVars

\* ... and 409 registration_exists otherwise.
PutExists(s) ==
  /\ Live
  /\ \/ registration.spec.issuance # s.issuance
     \/ registration.owner # CallerPrincipalID
  /\ UNCHANGED serviceVars

\* Mutant: a write that starts no operation does not bump the revision.
PutReplacesQuietly(w, revision, s, polled) ==
  /\ Live
  /\ registration.revision = revision
  /\ created' = created
  /\ LET written == [registration EXCEPT !.spec = s]
     IN  IF s.issuance = registration.spec.issuance
         THEN registration' = written /\ operations' = operations
         ELSE StartOperation(w, [written EXCEPT !.revision = @ + 1, !.generation = @ + 1], polled)

\* Mutant: If-Match is not looked at.
PutReplacesUnconditionally(w, revision, s, polled) ==
  /\ Live
  /\ created' = created
  /\ LET written == [registration EXCEPT !.spec = s, !.revision = @ + 1]
     IN  IF s.issuance = registration.spec.issuance
         THEN registration' = written /\ operations' = operations
         ELSE StartOperation(w, [written EXCEPT !.generation = @ + 1], polled)

\* If-Match with the current revision: every write bumps the revision, and only
\* an issuance-relevant one bumps the generation and starts an operation (202).
PutReplaces(w, revision, s, polled) ==
  /\ Live
  /\ registration.revision = revision
  /\ created' = created
  /\ LET written == [registration EXCEPT !.spec = s, !.revision = @ + 1]
     IN  IF s.issuance = registration.spec.issuance
         THEN registration' = written /\ operations' = operations
         ELSE StartOperation(w, [written EXCEPT !.generation = @ + 1], polled)

\* 412 spec_revision_conflict.
PutConflicts(revision) ==
  /\ Live
  /\ registration.revision # revision
  /\ UNCHANGED serviceVars

\* 404: If-Match on a free key.
PutFindsNothing == ~Live /\ UNCHANGED serviceVars

----------------------------------------------------------------------------
(* DELETE carries no precondition; ?policy= may only narrow.                 *)

Widens(policy) ==
  policy = "delete" /\ registration.spec.deletion_policy = "retain"

\* 202: the record is a tombstone from this moment on.
DeleteAccepts(policy) ==
  /\ Live
  /\ ~Widens(policy)
  /\ registration' = NoRegistration
  /\ UNCHANGED <<operations, created>>

\* 409: deletion_policy_conflict, or destination_recently_published when the
\* anti-destruction guard is on and a certificate has been published.
DeleteRefuses(policy) ==
  /\ Live
  /\ Widens(policy) \/ registration.observed > 0
  /\ UNCHANGED serviceVars

\* 404 or 410.
DeleteFindsNothing == ~Live /\ UNCHANGED serviceVars

----------------------------------------------------------------------------
(* The service's own progress.                                               *)

\* maybeFulfilLocked.  The registration is looked up by KEY: after a delete and
\* a create, an operation of the old registration fulfils the new one.
Fulfilled(reg, target) ==
  IF reg = NoRegistration \/ reg.observed >= target THEN reg
  ELSE [reg EXCEPT !.observed = target, !.phase = "ready", !.failing = FALSE]

\* GET /operations/{id} advances the operation; here the poll finds it ...
PollSettles(w) ==      \* succeeded, or its record expired or lost
  /\ operations' = [operations EXCEPT ![w].state = "settled"]
  /\ registration' = Fulfilled(registration, operations[w].target)

PollFails(w) ==
  /\ operations' = [operations EXCEPT ![w].state = "failed"]
  /\ registration' = IF Live THEN [registration EXCEPT !.phase = "failed", !.failing = TRUE]
                     ELSE registration

\* Deferred, or still running by its record; CompleteRegistrationDespiteTimeout
\* is the case in which the work is done all the same.
PollRuns(w) ==
  /\ operations' = operations
  /\ LET synced == IF Live THEN [registration EXCEPT !.failing = FALSE] ELSE registration
     IN  registration' \in {registration, synced, Fulfilled(synced, operations[w].target)}

PollOperation(w) ==
  /\ operations[w].state = "running"
  /\ PollSettles(w) \/ PollFails(w) \/ PollRuns(w)
  /\ created' = created

\* The service finishes the current generation with nobody polling.
Publish ==
  /\ Live
  /\ registration' = Fulfilled(registration, registration.generation)
  /\ UNCHANGED <<operations, created>>

\* Someone else's delete: a tombstone, or the record itself removed.
Remove ==
  /\ Live
  /\ registration' = NoRegistration
  /\ UNCHANGED <<operations, created>>

\* Another principal's registration, published, under the key.
CreateElsewhere ==
  /\ ~Live
  /\ created < MaxForeign
  /\ \E p \in Principals \ {CallerPrincipalID}, s \in CertificateSpec :
       registration' = Seeded(created + 1, p, s)
  /\ created' = created + 1
  /\ operations' = operations
=============================================================================
