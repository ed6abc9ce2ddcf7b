# Formal model of terraform-provider-azureacme

TLA+ modules, TLC configurations and TLAPS proofs about the core of this
provider: how the provider is configured and finds its service, how
`azureacme_certificate` is planned, created, refreshed, updated, deleted and
imported over an HTTP API whose requests and answers get lost, whose operations
run for minutes, and whose registrations other workspaces change meanwhile, and
how registrations are listed.
Paths below are relative to the repository root. The reference for every
definition is the Go code; `PROJECT.json` maps each one to its lines.

Contents: 1 the system; 2 what is hard about it; 3 the modules; 4 the runs;
5 bounds and fairness; 6 the proofs; 7 where code and documentation part;
8 what is left out; 9 the plan.

## 1. The system

Terraform Core (external) calls the provider; the provider calls the certificate
service over HTTP. The service itself is not in this repository: what the
repository has is `internal/fakeservice`, the stateful stand-in the acceptance
tests run against, and that is what the service's side of the model is taken from.

| Part | Where | State it keeps | Operations |
|---|---|---|---|
| certificate resource | `provider/certificate_resource.go` (813 lines) | none of its own: prior state, plan and response, one call at a time | Create, Read, Update, Delete, ImportState |
| wait | `provider/certificate_resource_wait.go` (259) | deadline, delay ladder, fallback flag, last snapshot | `waitForCompletion`, `finalReadOrGone` |
| read decision | `provider/certificate_resource_read.go` (351) | none | `DecideRead` |
| state mapping | `provider/certificate_resource_state.go` (822) | none | `applyComputedFromResponse`, `applySpecFromResponse`, `buildSpec` |
| plan gates, validators, schema | `certificate_resource_plan.go` (692), `_validators.go` (345), `_schema.go` (583) | none | `ModifyPlan`, validators |
| configuration, credentials | `provider_configure.go` (445), `provider_credentials.go` (345), `provider.go` (286) | the client, the capabilities answer, two skip flags | `Configure`, `negotiateCapabilities`, credential selection |
| data sources | `certificate(s)_data_source.go`, `namespace_`, `service_`, `validation_binding_` | none | Read; one paginated listing |
| HTTP client | `client/client.go` (419), `api.go` (235), `errors.go` (246), `ulid.go` (75) | base URL, retry bound | `Do`, `DoRetrying`, `RetryDecision`, one method per endpoint |
| registration service | `fakeservice/handlers.go` (732), `state.go` (505), `fakeservice.go` (376) | registrations by key, operations by id, namespaces, bindings, under one mutex | PUT, GET, DELETE, list, operations; test seeding and fault injection |
| service normalisation, rules | `fakeservice/normalise.go` (268), `rules.go` (226), `routes.gen.go` | none | normalise a spec; canned answers |
| primitives | `primitives/normalise.go` (404), `psl.go` (277), ... | tables | DNS, vault and label formats, public suffix |
| custom types | `customtypes/{armid,dnsname,rfc3339}` | none | semantic equality |
| contracts | `contracts/*.gen.go` (generated), `contractschema` | none | types, error taxonomy, schema reader for tests |

Interactions. Create sends `PUT` with `If-None-Match: *`; Update sends `PUT` with
`If-Match` built from `spec_revision` in state; Delete sends `DELETE ?policy=`
with no precondition. A `202` carries an operation, which the wait polls; the
fake service advances an operation only when it is polled, and completing one
fulfils whatever registration is under the key then. Reading is a plain `GET`,
and its outcome decides whether a certificate leaves Terraform's state: removing
it wrongly means that the next apply issues it again or, with a delete policy,
that the real one has been orphaned.

What makes each part correct:

* service: every write is a new revision, every creation a new id, no write
  without its precondition, no deletion wider than the stored policy;
* resource: state never claims a spec at a revision that never had it, no update
  overwrites what its author was not shown, nothing live is forgotten, nothing is
  created that nobody is told of, and every call returns;
* wait: success only on evidence, a last look before a timeout is reported, and
  an end soon after the deadline but not before it;
* read decision: only a typed 404 or 410 from the pinned instance removes;
* configuration: `expected_service_instance_id` keeps a run on that instance, a
  plan and its apply meet the same service, and whom a run authenticates as is
  what its author said;
* plan: what an apply returns is what its plan promised, an issuance is announced
  before it starts, a destination does not move, and an apply that changed nothing
  else leaves an empty plan;
* listing: complete and without repetition while nothing changes, and it ends.

## 2. What is hard about it

* Several workspaces act on one key with nothing between them but the revision.
* A PUT or DELETE is retried after its answer was lost: the second one meets the
  effect of the first.
* The registration can be deleted and created again, by anybody, between any two
  requests; a name is not an identity, an id is.
* A create is half done when its wait fails, when it is deferred, when the
  process dies. What was set on the response is stored as a tainted resource,
  and what was not is lost.
* Retry-After, jitter, the ladder of delays, the remaining time and the
  operation's record ageing out meet in one loop.
* The endpoint may stop being the service: a portal, a proxy, another instance.
* A plan promises values (Terraform's known planned values) that the service is
  free to move before the apply: it fulfils, renews, is repointed, is written to.
* One value has several spellings and several owners: HCL, state, the wire, the
  service's storage; each compares in its own way (exact, canonical, case-folded,
  hashed), and each fills in what was left out.
* A continuation token is an offset into a list that changes.

Go's side has no goroutines to interleave within a call: the concurrency is that
of workspaces, the service and the network. The fake service's handlers run under
`Server.mu`, so each is one action.

`PROJECT.json` lists the hazards line by line with the properties that would
catch them.

## 3. The modules

| Module | Models | Depends on |
|---|---|---|
| `RegistrationService` | the registration under one key and the operations on it | - |
| `CertificateLifecycle` | the resource's operations in several workspaces | extends `RegistrationService` |
| `ConditionalRegister` | abstract: what the service promises of a key | instantiated by `CertificateLifecycle` |
| `OperationWait` | the polling loop of one wait | - |
| `WaitContract` | abstract: what callers of the wait rely on | instantiated by `OperationWait` |
| `PinnedRefresh` | Configure, classification, retry, read decision, Read and Import against a changing endpoint | - |
| `SpecMapping` | attributes, wire and stored spec, and the maps between them; pure operators | - |
| `PlanAndApply` | one workspace that edits, plans and applies against a service that moves | extends `SpecMapping` |
| `CertificatesListing` | the paginated listing | - |
| `ProviderConfigure` | Configure: precedence, credential, capabilities, assertions | - |
| `MC...` | constants and definitions for TLC | the module they are named for |
| `AppliedResultProofs` | theorems about what an apply of `PlanAndApply` leaves and answers | extends `PlanAndApplyProofs` |
| other `...Proofs` | theorems | the module they are named for, TLAPS |

**RegistrationService.** State: `registration` (id, owner, spec, revision,
generation, observed generation, phase, failing) or `NoRegistration`; `operations`,
the operation each workspace polls; `created`, how many ids were handed out.
`PutCreates`, `PutAdopts`, `PutExists`, `PutReplaces`, `PutConflicts` and
`PutFindsNothing` are the branches of `handlePutRegistration`; `DeleteAccepts`,
`DeleteRefuses`, `DeleteFindsNothing` those of `handleDeleteRegistration`;
`PollSettles`, `PollFails`, `PollRuns` the outcomes of `handleOperation` with
`advanceOperationLocked` and `maybeFulfilLocked`; `Publish`, `Remove` and
`CreateElsewhere` what the rest of the platform does to the key (the entry points
of `state.go` by which the tests do it). A specification is reduced to the part
`issuanceHash` covers and to `deletion_policy`, which stands for all fields it
does not cover. A tombstone (410) and a free key (404) are both
`NoRegistration`: every caller in these modules treats them alike.

**CertificateLifecycle.** Per workspace: `state` as Terraform has stored it,
`step` and `plan` of the call in flight, `attempt` of the request in flight,
`target` generation, `draft` (what Create has set on its response), `errored`.
One action is one HTTP exchange together with everything the provider does before
the next one: `SendCreate`, `Confirm` (the GET of `wait_for = "accepted"`),
`CreatePublished`/`CreateFailed`/`CreateGivesUp` for the outcomes of the wait,
the same for Update, `RecordTruth` (`writeServerTruth` and the GET after a 412),
`SendDelete`, `DeleteEnds`, `Refresh`, `ImportState`, `Untaint`, `RequestLost`,
`Crash`. Lost answers are the `Retry(w)` alternative beside each effect. The wait
is here by its contract, so that the interleavings of two workspaces stay
checkable; `OperationWait` has the loop. `shown` in a state is history: whether
its spec is the one the service had at that revision.

**OperationWait.** `now` counts to the deadline; `pc` walks the loop; `next` is
the delay, `asked` the last Retry-After; `fallback` says that the registration is
polled and not the operation; `snapshot` and `verdict` are the outcome; `late`
counts requests begun after the deadline. The service is free: between any two
steps the operation and the registration may become anything, but that a terminal
operation can only age out.

**PinnedRefresh.** Several instances, each with its own catalogue; the
`endpoint`, repointed at any time, or only between runs when `steady`; `config`
(the expected instance, the skip flag); `state` with its pin; `pc` and `attempt`.
Answers are records of status, body class, code, stamped instance, `retryable`
and whether a delay came with it; `Kind` is `client.Do`'s classification,
`RetryDecision` and `DecideRead` are the functions of that name. The version
assertions, ownership and missing-field checks appear as a failure that may
happen after any answer. A `200` without a body decodes to the zero
registration, as `Response.Decode` has it, so a state may lose its name and pin.

**SpecMapping.** One specification in three shapes: `Attributes` (configuration
and state), `WireSpec` (the body of a PUT), `StoredSpec`. `BuildSpec`,
`SpecFromResponse` and `Normalise` are the three maps; `KeepSpelling` is the
semantic equality of the custom types as the framework applies it; `SpecEqual`,
`IssuanceRelevantChanged` and `IssuanceHash` are the three comparisons, which do
not agree, and that is what the properties are about. Attributes the code treats
alike are one: `issuance` stands for key, common name, ACME profile and
validation binding, `description` for consumer profile too, `endpoints` for
`expected_pickup` too, `deletion` for the deletion policy with its
acknowledgement. Spellings are model values with two functions over them,
`Canonical` (what `armid` compares by: some segments in lower case, no trailing
slash) and `Folded` (what the service compares by: all in lower case). All that is
assumed of them is their types and that vaults with one canonical form have one
folded form.

**PlanAndApply.** `config` and `state`; the `registration` with its stored spec,
revision, generation, observed generation and number of published versions;
`grants`, the namespace's destination policies; the `plan` at hand, whose values
may be `Unknown`; `outcome` of the last apply, `inconsistent` when Terraform
refuses its answer. `MakePlan` is refresh, validation and `ModifyPlan`
(`PlanFor`: what is proposed, carried over, withheld; `Refuses`: its gates).
`Destroy`, `Create`, `Shortcut`, `Update`, `Finish`, `GiveUp` and `ImportState`
are the handlers, each exchange answered, since their loss is in
`CertificateLifecycle`. `Fulfil`, `Publish`, `Renew`, `WriteElsewhere`,
`InjectServerLabel`, `Remove`, `SeedRegistration` and `Regrant` are everybody
else; others register under the name any of `Elsewhere`, also right after a deletion.
`seen` (the registration the plan was made from, or `Replaced` once it is gone)
and `settled` (nobody has written since the last apply) are history.

**CertificatesListing.** `live` names per namespace; the reader's `todo`
namespaces, page `token`, `attempt` and collected `items`; `ReadPage` is one
iteration of the loop with `handleListRegistrations` behind it, `PageFails` and
`PageRefused` its errors. `Sorted` puts each name where its rank says, the number of
names `Before` it. The namespaces asked may repeat, as what capabilities list is
taken as it comes. Registrations come and go between any two pages;
`born`, `inserted` and `removed` are history.

**ProviderConfigure.** A provider block `hcl` and a `host` with its environment,
run twice (`earlier` is the first run): a plan and its apply, or one plan on two
machines. `Names` is the precedence table; `Resolve` is `resolveConfig` with
`resolveCredentialSelection`; `CallFails`, `CallRefused` and `Negotiate` are the
capabilities call with its retries and `negotiateCapabilities`. `sent` collects
every request with the token it carried.

## 4. The runs

Passing runs:

| Run | Instance | Question and answer |
|---|---|---|
| `lifecycle` | 2 workspaces, 2 issuance values, both policies, 3 applies, 1 retry; 1.13 million states | Is a registration that nobody records always one that somebody was told of (`OrphansAreReported`)? Can the `delete` in one workspace's outdated state delete what another one, up to date, has retained (`RetainedIsNotDeleted`)? Is the key a register (`RegisterSpec`)? Does a revision identify a spec (`RevisionIdentifiesSpec`), does an update overwrite only what its author was shown (`RefreshedUpdateIsNotLost`), is nothing live forgotten (`GoneBeforeForgotten`)? Yes, no, and yes to the others: three applies are the shortest history with a conflict and its aftermath, or with a delete and a create between a plan and its update. |
| `applies_return` | a foreign owner and accepted creates besides, retain plans, 2 applies, no symmetry; 481 thousand states | Does every apply end, whatever the service and the other workspace do (`EveryApplyReturns`)? Does a foreign owner, or an accepted create, leave an orphan unreported (`OrphansAreReported`)? Yes, no. |
| `operation_wait` | deadline 12 units, requests of up to 1, Retry-After 1 or 5; 127 thousand states | Does the loop keep `WaitContract` (`ContractSpec`), end (`WaitEnds`), not before its deadline on time alone (`NeverGivesUpEarly`), not as timed out when its last look at the registration showed it published (`PublishedIsNotTimedOut`, the deferral exit excepted), not with a decommission that is complete because the registration reads as ready while its operation can be asked (`DecommissionAsksItsOperation`), and at most three requests late (`OverrunIsBounded`)? Yes. |
| `pinned_refresh` | 2 instances, 2 retries; 7 thousand states | Does a refresh remove only what the pinned instance lacks (`RemovalIsEarned`), does an expected instance hold the pin (`PinHolds`), does every run end (`RunEnds`)? Yes. |
| `plan_apply` | 26 configurations, 3 grant tables, 2 edits, 7 registrations made elsewhere, 1 event outside, 2 applies; 2.4 million states | See below. |
| `listing` | 2 namespaces of up to 4 names, pages of 2, 2 changes; 388 thousand states | Is a listing complete, in order and without repetition when nothing changes (`QuietListingIsExact`)? Is a miss always due to a removal before it (`MissedOnlyAfterRemoval`), a repetition to an insertion (`RepeatedOnlyAfterInsertion`), a page out of range to a removal (`OverrunsOnlyAfterRemoval`)? Does it end (`ListingEnds`)? Yes to all. |
| `configure` | 99 provider blocks, 28 hosts, 5 pairs of services, 1 retry; 1.8 million states | Does an explicit credential stay the same whatever a machine offers besides (`AmbientNeverChangesExplicit`)? Does an apply meet the service it was planned against, when the parts of the profile were known (`ApplyMeetsPlannedService`)? Is the exported token all that is ever sent, and not at all where the block or a variable asks for another method (`OnlyTheExportedTokenIsSent`)? Does a written pin hold whatever the version checks are told (`WrittenPinHolds`)? Yes to all. |

What `plan_apply` shows:

* `ApplyThenEmptyPlan`: after an apply that nobody has written over, renewed or
  not, the next plan is empty and passes the destination gate. Two cases are excepted by
  name and described in section 7: `UnclearedEndpoints`, `RespelledDestination`.
  For a removed `description` or removed labels it rests on the fake service clearing
  what a body omits, which three comments deny: `omitted_fields` in section 7.
* `AppliedMeansConfigured`: the tolerance of Read hides nothing; the service's spec then
  means what the configuration states. It speaks of no attribute that the body omits:
  of `description` only when it is given, of labels only when there are some,
  and never of endpoints. The consumer
  profile, for which `description` also stands, and the common name and the validation
  binding, which are part of the value `issuance` and stated in every body here, may be
  omitted in the code; once taken out of a configuration they are in the situation of
  `description`.
* `OnlyKnownContradictions`: Terraform refuses the answer of an apply only for
  the reasons `KnownContradiction` lists. Each of them occurs; they are: an
  update without a request that raises `wait_for` over a withheld URI, or that
  writes out or drops the default `certificate_name`; a withheld URI that is
  published by the time an apply under `accepted` ends; a URI kept in the plan of
  such an apply while there is no certificate; an update that announced no issuance and finds
  the registration fulfilled, renewed or at another generation than at the
  refresh; the same update with a respelling, which the service's hash takes for
  a change; a vault whose grant was repointed since the last write; and the
  registration the plan was made from being another one by then.
* `DestinationStays`: the registration a plan was made from never moves to another
  vault or certificate name in place, though the gate is the plan's and the write
  comes later. For a successor made under its name in between this is not
  so (section 7).
* `ReissueIsAnnounced`: an update of the registration its plan was made from
  issues if its plan said so, and otherwise only for a spelling.
* `UriStays`: a URI in state that consumers are bound to is never taken away while
  the registration publishes under it.
* `PurgeGateSees`: the purge-protection gate looks at the grant the service will
  resolve, except in four situations in which it only warns: several policies for
  the vault, the vault in another spelling, an asserted id that is none of its
  policies', or one that another vault's policy has too.

Runs that expect a violation are section 7. `TypeOK` is checked once per
component. Every property of a passing run has a mutant in the module (marked
`Mutant:`), a small plausible bug in one mapped definition which makes TLC find
that property violated; `PROJECT.json` says which.

`CHECK_DEADLOCK FALSE` stands where the model really stops: once the applies are
used up, the wait, the listing or the second run is done.

## 5. Bounds and fairness

* `MaxApplies` bounds how many applies the workspaces start between them; 2 show
  every pair of operations in conflict, 3 add an aftermath. Refresh, import and
  untaint are not counted.
  What needs a foreign owner or an accepted create is in `applies_return`, with 2: by
  then one apply has met what the other left.
* `MaxRetries` is the client's own parameter; 1 is enough for a second request to
  meet the effect of the first, and what a third would meet is the same.
* `Workspaces` has two members: every property relates at most two states. The
  proofs hold for any number.
* `Issuance` has two values: equal or not is all the code asks of the hash.
* `MaxForeign` bounds the ids up to which others create registrations.
* `Deadline`, `RequestTime`, `Drift`, `RetryAfters`: one unit stands for a
  second of the ladder 2, 5, 10, 30; with 12 the deadline falls inside the third
  delay, with Retry-After both below and above the remaining time.
  Time past the deadline is one instant (`Clamp`), and `late` counts requests.
* `PlanAndApply`: `MaxEdits` and `MaxApplies` 2 give a create, a change and its
  reversal; `MaxEvents` 1 lets one thing happen between any two steps besides
  `Fulfil` and `Publish`, which are not counted, and a replacement of the
  registration is one event; the properties that speak of the plan's own registration
  say so (`seen # Replaced`). What others register (`MCElsewhere`) differs from the
  base in spelling, vault, certificate name, issuance or probe. The configurations are one base and what each attribute
  may be changed to, with the pairs that interact. Terraform validates and plans
  again at apply time, so values unknown in configuration are not modelled here:
  they are known when it counts. A tainted create is untainted by hand
  (`GiveUp` leaves a state that is not replaced), which keeps what it stored in
  play.
* `CertificatesListing`: 4 names and pages of 2 give a first, a full last and an
  empty page; with 2 changes an insertion and a removal meet.
* `ProviderConfigure`: each way to connect times each statement about credential
  and checks; hosts are a way to authenticate
  times a place to find an endpoint, the last of them with and without an ambient
  identity endpoint. The versions are below, at and above what
  is required, and unreadable.
* Symmetry (workspaces, issuance values) is used in the safety runs only.

Fairness is weak fairness of a call's own next exchange. The code justifies it:
each exchange is bounded by `request_timeout` (`http.Client.Timeout`), each sleep
by its timer, retries by `MaxRetries`, each wait by its deadline. Nothing is
assumed of the service, of other workspaces or of the user. `ListingEnds` assumes
that the reader goes on; that registrations are finitely many is the bound, and that
tokens grow is the service's. In
`CertificateLifecycle` the exchange in which a wait gives up is always possible,
standing for a deadline that may come at any moment; that the loop itself comes
to that point is `WaitEnds`.

## 6. The proofs

Checked by tlapm from nothing, for every value of the constants the named
assumptions allow (numbers that are naturals, markers such as `NoState` that are
not in the sets they are added to, plans that are plans).

* `CertificateLifecycleProofs`. `TypeCorrect` needs `StepOK`: an apply in flight
  has the plan and the draft its handler uses next. `RegisterImplemented` shows
  that each step has one of four effects on the service (`ServiceEffect`: kept,
  inserted, replaced, removed), and that these are the register's steps.
  `RevisionsIdentifySpecs` is not inductive: a held revision could be ahead of the
  stored one and be reached later with another spec. `RevisionInv` adds what rules
  that out: no held record is of an id not yet handed out, or ahead of the
  stored revision of its own registration, and held records that claim to be
  shown agree with each other and with the store. Every step derives what it
  stores from what was held before or from the service's answer (`Derived`),
  which is the whole of the step's case analysis. `UpdatesAreNotLost` follows
  from the invariant and from the precondition of `PutReplaces`.
  `RetainedSurvivesStaleDestroys` finds the one exchange that takes the live
  registration away and that the service compared the policy it was sent with the
  stored one; that an up-to-date state shows the stored policy is
  `RevisionsIdentifySpecs` again. `ForgottenIsGone` needs
  `WaitsForGone`: during a Create nothing is in state, and during a decommission
  what is in state is not what is live, whose id nobody gets again. `OwnMove`
  lists what the steps of an apply do to its own state, once, and the case
  analysis of this proof and the next is over that list. For `OrphansReported` the
  inductive fact is `Tracked`: of the caller's live registration some workspace
  has it in state, or is creating it, or was told that its Create failed; a Create
  in flight counts only with the draft of this very registration.
  `AppliesAdvance` is the safety half of `EveryApplyReturns`: an exchange settles one
  of the at most three an apply has left, or is a retry within the bound, and
  no other step sends an apply back.
* `OperationWaitProofs`. `IInv` bounds `late` by where the loop is (`LateByPc`):
  none before the first late request, one more for each read that can
  follow it. From it `TypeCorrect`, `WaitOverrun` and `WaitPatience`. `WaitLooksLast`
  goes through the steps that end in a timeout and what each has just read;
  `DecommissionsAsk` needs `RecordInv`, that a decommission's wait is in the fallback
  only once its record is lost.  `WaitKeepsContract`: every step is a step of `WaitContract` or stutters.
  `WaitAdvances` is the safety half of `WaitEnds`: a sleep takes time, of which the
  deadline leaves a bounded amount, and every other step goes to a later place of
  the turn.
* `PinnedRefreshProofs`. `IInv`: an unnamed state pins nothing; between Configure
  and the end of a steady run with an expected instance the endpoint is that
  instance; and `PinHolds`. `RemovalsAreEarned` uses that an absence stamped by
  an instance comes from its catalogue at that moment. `TypeCorrect` adds the
  bound on retries. `RunsAdvance` is the safety half of `RunEnds`.
* `PlanAndApplyProofs`. First what the maps of `SpecMapping` and the planning
  operators return, then `PlansAreWhole` (`TypeInv`: the types, and that a step of an
  apply has its plan and its state), from which `TypeCorrect`. `DestinationStays`
  is not inductive: that an update writes where the registration is follows from
  three facts of which each is established at a different step. `UpdateInv` has
  them: the plan's destination is that of state (`PlanKeepsDestination`, the gate
  of `ModifyPlan`), state describes the registration (`StateDescribes`, the
  refresh), and what others do in place keeps it so until it is `Replaced`.
  `ReissuesAreAnnounced` reads the same facts for names and issuance;
  `UrisStay` needs only the first, and therefore holds of successors too.
  `PurgeGateIsNotPassed` is a counting argument over the grant table: outside the
  four situations exactly one policy names the vault, and the gate's match, by id
  or by canonical form, finds that one and no other. Here the refinement of
  folded by canonical forms is used.
* `AppliedResultProofs`, three invariants on the way from a plan to what its apply
  leaves. `PlanIsOfConfig`: the plan an apply works from is `PlanFor` of its
  configuration over the state at hand, or over none once the replaced one is
  deleted. `AppliedInv`: while an update is planned, state reads (`Reads`, as
  `SpecFromResponse` would with its tolerances) what is stored if the last
  write was the workspace's own; from then on what is stored `Means` the
  configuration; and state is the configuration but for the two cases named. That
  a write means what was sent, and that what is read back is the configuration in
  its own spelling, are the lemmas `StoredMeans`, `ServerTruthReads` and
  `ServerTruthKeeps`: `Normalise` after `BuildSpec`, and `SpecFromResponse` with
  `KeepSpelling` after it. `AppliesMeanConfigured` and `PlansAreEmptyAfterApply`
  follow. `AnswerInv`: an update's plan is one over the registration `seen`, and
  what is waited for is published at the planned destination. With it
  `ContradictionsAreKnown` goes through `Agrees` field by field, once for each way
  an apply can answer (shortcut, update, create).
* `CertificatesListingProofs`. A token was within the list when it was handed out,
  so a token beyond the list means that something was removed since:
  `OffsetInv`, which is `OverrunsOnlyAfterRemoval` with the types of what offsets
  index. The others need to know what is on a page. `SortedIs`: ranks are an
  injection from the names into as many numbers, so by the pigeonhole principle
  every place of `Sorted` has its name and every name its place. `ListInv`
  relates the token to ranks: of the namespaces listed to the end, and of the
  current one below the token, every name is listed, was registered during
  the read, or has a removal before it (`NothingSkipped`); everything listed is of
  such a namespace, or ranks below the token, or has an insertion before it
  (`NothingAhead`). `MissesFollowRemovals`, `RepeatsFollowInsertions` and
  `QuietListings` follow. `PagesAdvance` is the safety half of `ListingEnds`.
* `ProviderConfigureProofs`. `IInv` says what a run that has a client was made
  of (`Connected`) and that a ready one looked at its service unless told not to
  (`Accepted`). For `TokensAreExported` a lemma on the selection: whenever
  the exported token is what is chosen, it is the only thing asked for, by the
  block or, where the block is silent, by the first of the two variables that reads
  as a bool. What
  relates two runs needs the resolution of both: `Earlier` is the module again, with
  the first run's block and host for its own, and `RunsInv` says that each run has
  resolved what its own block and host say, and that the second has the block of the
  first with at most what was unknown filled in. `ExplicitCredentialIsStable` and
  `ApplyMeetsItsService` then compare two evaluations of the same operators.

Every safety property of every passing run is proved. Model-checked only is
liveness (`EveryApplyReturns`, `WaitEnds`, `RunEnds`, `ListingEnds`), which is
beyond this prover; that what each is about cannot go round in circles is proved, that
fairness then brings it to its end is not. The assumptions on constants that are more than types, each
evaluated by TLC on its instance and named where it is declared: canonical vaults
refine folded ones (`FoldedAssumption`); markers are no values
(`NullAssumption`, `UriAssumption`, `SentinelAssumption`); a variable that is
set is not empty (`HostsAssumption`); `connection_profile` is null, unknown or the
object its schema says (`ConfigurationsAssumption`, `KnownAsAssumption`).

## 7. Where code and documentation part

Each of these has a run that checks one sentence of the documentation or of a
comment and ends in a counterexample.

| Run | The sentence | What happens |
|---|---|---|
| `lost_update` | `api.go:69-70`: lost updates are "structurally impossible" | a create that adopts (200) records the plan at a revision whose other fields it never read; its next If-Match passes |
| `repinned_refresh` | `docs/resources/certificate.md:109`: "The service instance this registration was created against. A mismatch on refresh is a HARD ERROR and never a removal" | Read compares a 200's instance with nothing and overwrites the pin (`certificate_resource_state.go:90`); later that other instance's 404 removes |
| `omitted_fields` | `fakeservice/handlers.go:435-436`, `fakeservice/normalise.go:120-122`, `certificate_resource_state.go:591-593`: on an update a field that is omitted inherits the stored value | the code inherits inside `verification` only; an omitted `description` or labels are cleared. If the comments are right about the real service, a removed `description` is planned again after every apply, and `ApplyThenEmptyPlan` holds of the fake service only |
| `planned_result` | `certificate_resource_state.go:76`: Rule R-3, "Terraform Core rejects any apply whose result differs from a known planned value" | `specEqual` compares the effective certificate name, so writing out the default one is an update without a request that returns state's spelling: every apply is refused |
| `unknown_profile` | `provider_configure.go:114-116`: an endpoint that arrives unknown is "a self-explaining error" | unknown values inside `connection_profile` are not looked for, and the environment's endpoint takes their place: the plan's call, with its token, goes elsewhere than the apply's |

Further disagreements. Those that name a property are stated in the component's
module, and TLC refutes the property when the configuration of the component's own
run names it (`applies_return` for `AcceptedCreateSucceeds`); the others are read from
the code.

* `certificate_resource.go:314`: "To let this apply succeed now, set `wait_for =
  "accepted"`"; the deferral fail-fast comes first (157-163), so the accepted
  create ends in the same error (`AcceptedCreateSucceeds`).
* `certificate_resource.go:508-509`: "the next plan then correctly re-proposes
  the change"; the PUT has stored the new spec before the wait fails, so state
  equals the plan (`IncompleteUpdateIsReproposed`).
* `certificate_resource_wait.go:51-52`: on timeout, success if published; the
  deferral exit (84) reports a timeout whatever its own read shows
  (`TimeoutMeansUnpublished`).
* `certificate_resource_wait.go:22-25`: a DELETE waits for a terminal success; in
  the fallback and at the deadline a registration that still reads as ready ends
  the wait as published (`DecommissionIsTerminal`).
* `certificate_resource_wait.go:171-172`: never faster than Retry-After; twenty
  percent of jitter comes off it, and the remaining time cuts it
  (`RetryAfterIsRespected`).
* `api.go:69-77`: If-Match carries a revision and nothing of the identity, so an
  update planned against one registration can overwrite another one, deleted and
  made again at the same revision, and with it move its destination past the
  plan's gate; `DestinationStays` without `seen # Replaced` is refuted by it.
* `normalise.go:11-12` has an apply followed by an empty plan. `destination_id`
  is accepted in any case (200), answered in the service's, and the next plan
  compares exactly and is refused (`certificate_resource_plan.go:422-443`).
* A probe that stays enabled while its endpoints are removed sends no list
  (`certificate_resource_state.go:599-602`), and the service keeps the stored one
  (`normalise.go:149-184`): the change is planned again after every apply.
* `certificates_data_source.go:60`: the list of `items` is complete; with offsets
  for tokens a removal between two pages makes the next page skip a
  registration. A list that shrank below the token makes the slice expression of
  `handlers.go:307-313` panic, which the reader sees as a cut connection.
* `provider_configure.go:50`: the `MANTISEC_ACME_*` variable always wins; one that
  does not parse as a bool is passed over in favour of `ARM_USE_*` (68-75).
* An `expected_service_instance_id` that is unknown at plan time is no error: the
  plan runs without a pin (`provider_configure.go:118-121` leaves it out).
* `use_msi = false` does not keep the ambient chain from choosing managed
  identity (`provider_credentials.go:250`).
* `docs/guides/two-stage-bootstrap.md:24` promises the error for an unknown
  endpoint, with the same gap as `unknown_profile`.
* `certificate_resource.go:600`: a DELETE sent again has no precondition, so it
  can decommission a registration made by somebody else after the first one; the
  comment at 625 reasons as if only the own one could be met
  (`SecondDeleteIsSafe`).
* `certificate_resource.go:498`: Update waits for every 202, although
  `docs/guides/waiting-timeouts-and-recovery.md:134` describes `wait_for` as
  applying to it.
* `fakeservice/handlers.go:716`: a registration is `ready` while its observed
  generation is behind, where `contracts/models.gen.go:651-652` reads otherwise
  (`ReadyMeansObserved`); the provider compares generations itself.
* `certificate_resource.go:448`: Read follows a name and looks at no owner, where
  ImportState (713-725) refuses a foreign one.
* `certificate_resource.go:146`: the early `State.Set` (122-124) survives an error
  return, not the death of the process.
* `client.go:195`: a 2xx without a body decodes to the zero registration, which
  Read records: the pin of an old certificate is then empty, where
  `certificate_resource_read.go:67-68` has it empty during an import only
  (`EmptyPinMeansImport`).
* `certificate_resource.go:622`: Delete looks only at a timeout; a wait that
  failed or could not be polled ends without an error.
* `timeouts.read` (`docs/resources/certificate.md:141`) is read nowhere, while
  DecideRead's texts name it.

## 8. What is left out, and why

* Wording, logging, HTTP framing, TLS: no state change of the system depends on
  them beyond "the request failed". In this build only an exported token can be
  sent (`deferredTokenSource` returns an error), so token acquisition does not exist; a
  source a test injects (`NewWithTokenSource`) is left out.
* Characters: DNS and vault formats, UTS-46, RFC 3339. The primitives that the
  system's state depends on appear as the functions `Canonical` and `Folded`;
  the public suffix search (`psl.go`) is not called by the running provider.
* `putWithAccessDeniedRetry` (`certificate_resource.go:256-292`) repeats a create on
  `409 destination_access_denied`; an update sends its PUT once (489). In the model
  it is folded into `Retry`: a refused request that is sent again or given up.
* In plans: the warning of a destroy plan (`certificate_resource_plan.go:445-477`),
  the mapping of wire paths to attributes in diagnostics (578-692), a namespace
  read that fails, after which the purge gate is skipped with a warning, and
  `renewal`, which is mapped like `deletion`.
* The refusal of a certificate whose required fields are missing
  (`certificate_resource_state.go:730-822`) is in `PinnedRefresh` only, as a
  failure that may happen.
* Data sources other than the listing: one GET, nothing kept. Validation
  bindings and namespaces of the fake service, but for the grants.
* Delays between retries (`client.go:347-419`): their number is bounded and
  modelled, their length is not.
* The framework and Terraform are external and modelled from what the code
  relies on: state reaches Terraform when the call returns, a failed Create taints,
  computed values of a plan with a difference are unknown unless carried over,
  an answer that contradicts a known planned value is an error and is stored.
* Generated contract types and the schema reader have no behaviour at run time.
* `ulid.go`: the service ignores the idempotency key.

## 9. The plan

Written so far: the modules of section 3, and proofs about all but the abstract
ones. Next:

1. What the safety halves of the liveness properties bound together: the number of
   exchanges of an apply, from `AppliesAdvance`, as one invariant over a count.
2. `ConditionalRegister` and `WaitContract` have no theorems of their own; what they
   promise their readers (revisions grow, a verdict is given once) is worth
   stating there.
3. Retry timing: never before Retry-After, bounded sum.
4. The two halves of an update composed: `PlanAndApply` with two workspaces, at
   the size `CertificateLifecycle` has with its smaller specifications.
