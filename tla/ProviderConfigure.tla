------------------------- MODULE ProviderConfigure -------------------------
(***************************************************************************)
(* The provider's Configure, for one configuration that is run twice: a    *)
(* plan and its apply, or the same plan on two machines.  The connection   *)
(* is resolved from HCL, connection_profile and the environment, one       *)
(* credential method is selected, the capabilities are read once, and the  *)
(* service behind the endpoint is accepted or refused.                     *)
(*                                                                         *)
(* The arguments that only name inputs of a method, environment and        *)
(* max_retries are left out; request_timeout only parses or does not.      *)
(***************************************************************************)
EXTENDS Integers, Sequences, FiniteSets

CONSTANTS
  Null,              \* an argument not set or empty, a field absent
  Unknown,           \* an argument Terraform does not know yet
  Configurations,    \* the provider blocks tried
  Hosts,             \* the environments tried: variables that are set, with values
  Services,          \* what may answer at each URL
  KnownAs,           \* what an argument that was unknown turns out to be
  Durations,         \* the values that parse as a duration
  APIMajor, APIMinorRequired,
  ProviderVersion,   \* three numbers, or Null for a build without them
  MaxRetries         \* client.Config.MaxRetries

\* What of a service's capabilities document the provider acts on at Configure.
Capabilities ==
  {"instance_id", "audience", "api_version", "minimum_client_version", "deprecated_client_version"}

ASSUME ServicesAssumption ==
  \A s \in Services : \A url \in DOMAIN s : DOMAIN s[url] = Capabilities
ASSUME MaxRetriesAssumption == MaxRetries \in Nat
\* os.Getenv does not tell a variable that is empty from one that is not set.
ASSUME HostsAssumption == \A h \in Hosts : \A n \in DOMAIN h : h[n] # Null

\* A row of the precedence table below the HCL value, highest first.
Names ==
  [endpoint |-> <<"MANTISEC_ACME_ENDPOINT">>,
   audience |-> <<"MANTISEC_ACME_AUDIENCE">>,
   tenant_id |-> <<"MANTISEC_ACME_TENANT_ID", "ARM_TENANT_ID", "AZURE_TENANT_ID">>,
   expected_service_instance_id |-> <<"MANTISEC_ACME_SERVICE_INSTANCE_ID">>,
   client_id |-> <<"MANTISEC_ACME_CLIENT_ID", "ARM_CLIENT_ID", "AZURE_CLIENT_ID">>,
   use_oidc |-> <<"MANTISEC_ACME_USE_OIDC", "ARM_USE_OIDC">>,
   use_msi |-> <<"MANTISEC_ACME_USE_MSI", "ARM_USE_MSI">>,
   use_cli |-> <<"MANTISEC_ACME_USE_CLI", "ARM_USE_CLI">>,
   client_certificate_path |-> <<"MANTISEC_ACME_CLIENT_CERTIFICATE_PATH", "ARM_CLIENT_CERTIFICATE_PATH">>,
   request_timeout |-> <<"MANTISEC_ACME_REQUEST_TIMEOUT">>,
   skip_version_check |-> <<"MANTISEC_ACME_SKIP_VERSION_CHECK">>,
   skip_instance_check |-> <<"MANTISEC_ACME_SKIP_INSTANCE_CHECK">>]

Arguments == DOMAIN Names
Constituents == {"endpoint", "audience", "tenant_id", "expected_service_instance_id"}

\* Read by the ambient chain only.
AmbientVariables == {"IDENTITY_ENDPOINT", "MSI_ENDPOINT"}

\* connection_profile is one object with these four attributes.
IsProfile(value) == value = [p \in Constituents |-> value[p]]

ASSUME ConfigurationsAssumption ==
  \A c \in Configurations :
    DOMAIN c = Arguments \cup {"profile"} /\ (c.profile \in {Null, Unknown} \/ IsProfile(c.profile))
ASSUME KnownAsAssumption == KnownAs.profile = Null \/ IsProfile(KnownAs.profile)

Methods == {"static_token", "workload_identity", "managed_identity", "client_certificate", "azure_cli"}

\* Neither marker is a word the program uses.
ASSUME NullAssumption ==
  /\ Null # Unknown
  /\ \A word \in Methods \cup {"true", "false"} : word \notin {Null, Unknown}
  /\ \A a \in Arguments : \A i \in DOMAIN Names[a] : Names[a][i] \notin {Null, Unknown}

VARIABLES
  hcl,       \* the provider block, as far as it is known now
  host,      \* the environment of the process
  service,   \* the capabilities behind each URL
  pc,        \* "start", "connecting", "ready" or "refused"
  resolved,  \* resolvedConfig, or Null when there is none
  attempt,   \* the capabilities call, so far in vain
  warnings,
  sent,      \* history: the requests that left, each with its bearer token
  earlier    \* history: the run before this one, or Null

vars == <<hcl, host, service, pc, resolved, attempt, warnings, sent, earlier>>

TypeOK ==
  /\ hcl.profile \in {Null, Unknown} \/ IsProfile(hcl.profile)
  /\ host \in Hosts /\ service \in Services
  /\ pc \in {"start", "connecting", "ready", "refused"}
  /\ resolved # Null =>
       /\ resolved.endpoint \in DOMAIN service
       /\ resolved.credential.method \in Methods /\ resolved.credential.rule \in {2, 3}
  /\ attempt \in 0..MaxRetries
  /\ warnings \subseteq {"audience_mismatch", "client_deprecated", "check_skipped", "unreadable_version"}
  /\ \A r \in sent : r.endpoint \in DOMAIN service

Init ==
  /\ hcl \in Configurations
  /\ host \in Hosts
  /\ service \in Services
  /\ pc = "start" /\ resolved = Null /\ attempt = 0 /\ warnings = {}
  /\ sent = {} /\ earlier = Null

----------------------------------------------------------------------------
(* The precedence table.                                                     *)

Stated(v) == v \notin {Null, Unknown}

\* The first of the variables that is usable, or Null.
First(names, usable) ==
  LET found == {i \in DOMAIN names : names[i] \in usable}
  IN  IF found = {} THEN Null ELSE names[CHOOSE i \in found : \A j \in found : i <= j]

\* A value that is unknown is passed over like one that is not set.
EnvChain(value, names) ==
  LET name == First(names, DOMAIN host)
  IN  IF Stated(value) THEN value ELSE IF name = Null THEN Null ELSE host[name]

\* A variable that does not parse as a bool is passed over.
EnvChainBool(value, names) ==
  LET name == First(names, {n \in DOMAIN host : host[n] \in {"true", "false"}})
  IN  IF Stated(value) THEN value ELSE IF name = Null THEN Null ELSE host[name]

Setting(a) == EnvChain(hcl[a], Names[a])
Switch(a) == EnvChainBool(hcl[a], Names[a])

----------------------------------------------------------------------------
(* resolveConfig.                                                            *)

ObjectString(a) ==
  IF Stated(hcl.profile) /\ Stated(hcl.profile[a]) THEN hcl.profile[a] ELSE Null

Connection(a) == IF ObjectString(a) # Null THEN ObjectString(a) ELSE Setting(a)

Conflict == Stated(hcl.profile) /\ \E a \in Constituents : Stated(hcl[a])

\* Mutant: the endpoint is not among the arguments looked at.
UnknownOtherArgument ==
  hcl.profile = Unknown \/ \E a \in {"audience", "tenant_id"} : hcl[a] = Unknown

\* The pin is not among them, nor is what connection_profile contains.
UnknownArgument ==
  hcl.profile = Unknown \/ \E a \in {"endpoint", "audience", "tenant_id"} : hcl[a] = Unknown

BadDuration == Setting("request_timeout") \notin Durations \cup {Null}

----------------------------------------------------------------------------
(* resolveCredentialSelection.                                               *)

Explicit ==
  (IF Switch("use_oidc") = "true" THEN {"workload_identity"} ELSE {})
    \cup (IF Switch("use_msi") = "true" THEN {"managed_identity"} ELSE {})
    \cup (IF Setting("client_certificate_path") # Null THEN {"client_certificate"} ELSE {})
    \cup (IF "MANTISEC_ACME_TOKEN" \in DOMAIN host THEN {"static_token"} ELSE {})

\* The ordered chain, each step with its own precondition.
Ambient ==
  CASE {"AZURE_FEDERATED_TOKEN_FILE", "AZURE_CLIENT_ID"} \subseteq DOMAIN host -> "workload_identity"
    [] {"AZURE_FEDERATED_TOKEN_FILE", "AZURE_CLIENT_ID"} \ DOMAIN host # {}
         /\ AmbientVariables \cap DOMAIN host # {} -> "managed_identity"
    [] OTHER -> IF Switch("use_cli") # "false" THEN "azure_cli" ELSE Null

Credential(method, rule) ==
  [method |-> method, rule |-> rule, tenant_id |-> Connection("tenant_id"), client_id |-> Setting("client_id")]

\* Managed identity without a client id is an error.
Required(credential) ==
  IF credential.method = "managed_identity" /\ credential.client_id = Null THEN Null ELSE credential

\* Mutant: a managed identity the host offers comes before the explicit method.
SelectionAmbientFirst ==
  IF Cardinality(Explicit) > 1 THEN Null
  ELSE IF Ambient = "managed_identity" THEN Required(Credential(Ambient, 3))
  ELSE IF Explicit # {} THEN Required(Credential(CHOOSE m \in Explicit : TRUE, 2))
  ELSE IF Ambient = Null THEN Null ELSE Required(Credential(Ambient, 3))

\* One explicit method and only that, or the chain; more than one is an error.
Selection ==
  IF Explicit = {} THEN IF Ambient = Null THEN Null ELSE Required(Credential(Ambient, 3))
  ELSE IF Cardinality(Explicit) > 1 THEN Null
  ELSE Required(Credential(CHOOSE m \in Explicit : TRUE, 2))

Incomplete ==
  \/ Conflict \/ UnknownArgument \/ BadDuration
  \/ Connection("endpoint") = Null \/ Connection("audience") = Null
  \/ Selection = Null

\* client.New refuses what is not an absolute URL.
Usable(endpoint) == endpoint \in DOMAIN service

Resolution ==
  [endpoint |-> Connection("endpoint"), audience |-> Connection("audience"),
   pin |-> Connection("expected_service_instance_id"),
   skip_version |-> Switch("skip_version_check") = "true",
   skip_instance |-> Switch("skip_instance_check") = "true",
   credential |-> Selection]

Resolve ==
  /\ pc = "start"
  /\ IF Incomplete \/ ~Usable(Connection("endpoint"))
     THEN pc' = "refused" /\ UNCHANGED resolved
     ELSE pc' = "connecting" /\ resolved' = Resolution
  /\ UNCHANGED <<hcl, host, service, attempt, warnings, sent, earlier>>

----------------------------------------------------------------------------
(* The capabilities call.                                                    *)

\* Mutant: the contents of the federated token file are sent.
TokenOrAssertion(method) ==
  CASE method = "static_token" -> host["MANTISEC_ACME_TOKEN"]
    [] method = "workload_identity" /\ "AZURE_FEDERATED_TOKEN_FILE" \in DOMAIN host ->
         host["AZURE_FEDERATED_TOKEN_FILE"]
    [] OTHER -> Null

\* Null where no token can be acquired: no request leaves, and Do fails.
Token(method) == IF method = "static_token" THEN host["MANTISEC_ACME_TOKEN"] ELSE Null

Send ==
  sent' = sent \cup {[endpoint |-> resolved.endpoint, token |-> Token(resolved.credential.method),
                      hcl |-> hcl, host |-> host]}

Sendable == Token(resolved.credential.method) # Null

\* Mutant: the last attempt is not counted.
RetryUncounted == attempt <= MaxRetries /\ attempt' = attempt + 1 /\ UNCHANGED pc

Retry ==
  \/ attempt < MaxRetries /\ attempt' = attempt + 1 /\ UNCHANGED pc
  \/ attempt = MaxRetries /\ pc' = "refused" /\ UNCHANGED attempt

\* No token, no answer, or an answer worth asking again.
CallFails ==
  /\ pc = "connecting"
  /\ IF Sendable THEN Send ELSE UNCHANGED sent
  /\ Retry
  /\ UNCHANGED <<hcl, host, service, resolved, warnings, earlier>>

\* A redirect, a page that is not JSON, a problem that is final.
CallRefused ==
  /\ pc = "connecting" /\ Sendable
  /\ Send
  /\ pc' = "refused"
  /\ UNCHANGED <<hcl, host, service, resolved, attempt, warnings, earlier>>

----------------------------------------------------------------------------
(* negotiateCapabilities.                                                    *)

\* Versions are compared number by number; one that is absent is never less.
SemverLess(a, b) ==
  /\ Null \notin {a, b}
  /\ \E i \in 1..3 : a[i] < b[i] /\ \A j \in 1..(i - 1) : a[j] = b[j]

APIVersionVerdict(v) ==
  CASE v = Null -> "unreadable"
    [] v # Null /\ v[1] # APIMajor -> "major_mismatch"
    [] v # Null /\ v[1] = APIMajor /\ v[2] < APIMinorRequired -> "minor_below_required"
    [] OTHER -> "acceptable"

VersionRefused(s) ==
  /\ ~resolved.skip_version
  /\ \/ APIVersionVerdict(s.api_version) \in {"major_mismatch", "minor_below_required"}
     \/ SemverLess(ProviderVersion, s.minimum_client_version)

\* Mutant: one flag for both assertions.
InstanceRefusedByOneFlag(s) ==
  ~resolved.skip_version /\ ~resolved.skip_instance
    /\ resolved.pin # Null /\ resolved.pin # s.instance_id

InstanceRefused(s) ==
  ~resolved.skip_instance /\ resolved.pin # Null /\ resolved.pin # s.instance_id

Warnings(s) ==
  (IF s.audience \notin {Null, resolved.audience} THEN {"audience_mismatch"} ELSE {})
    \cup (IF ~resolved.skip_version /\ APIVersionVerdict(s.api_version) = "unreadable"
          THEN {"unreadable_version"} ELSE {})
    \cup (IF ~VersionRefused(s) /\ ~resolved.skip_version
               /\ SemverLess(ProviderVersion, s.deprecated_client_version)
          THEN {"client_deprecated"} ELSE {})
    \cup (IF ~VersionRefused(s) /\ (resolved.skip_version \/ resolved.skip_instance)
          THEN {"check_skipped"} ELSE {})

\* The answer arrives: the resources get a client, or the run ends.
Negotiate ==
  /\ pc = "connecting" /\ Sendable
  /\ Send
  /\ LET s == service[resolved.endpoint]
     IN  /\ warnings' = Warnings(s)
         /\ pc' = IF VersionRefused(s) \/ InstanceRefused(s) THEN "refused" ELSE "ready"
  /\ attempt' = 0
  /\ UNCHANGED <<hcl, host, service, resolved, earlier>>

----------------------------------------------------------------------------
(* Terraform.                                                                *)

\* The block once everything it depends on exists.
KnownConfiguration ==
  [a \in DOMAIN hcl |->
     IF hcl[a] = Unknown THEN KnownAs[a]
     ELSE IF a = "profile" /\ hcl[a] # Null
          THEN [p \in Constituents |-> IF hcl[a][p] = Unknown THEN KnownAs[p] ELSE hcl[a][p]]
     ELSE hcl[a]]

\* Another process with the same block, on this host or another one.
RunAgain ==
  /\ pc \in {"ready", "refused"} /\ earlier = Null
  /\ earlier' = [hcl |-> hcl, host |-> host, pc |-> pc, resolved |-> resolved]
  /\ host' \in Hosts
  /\ hcl' \in {hcl, KnownConfiguration}
  /\ pc' = "start" /\ resolved' = Null /\ attempt' = 0 /\ warnings' = {}
  /\ UNCHANGED <<service, sent>>

Next == Resolve \/ CallFails \/ CallRefused \/ Negotiate \/ RunAgain

Spec == Init /\ [][Next]_vars

----------------------------------------------------------------------------
(* Properties.                                                               *)

\* Who an explicit method authenticates as does not depend on what the host
\* happens to offer besides: a run whose method was stated selects the same
\* credential on every host that differs only in the ambient variables.
AmbientNeverChangesExplicit ==
  /\ earlier # Null /\ pc # "start" /\ hcl = earlier.hcl
  /\ earlier.resolved # Null /\ earlier.resolved.credential.rule = 2
  /\ \A v \in (DOMAIN host \cup DOMAIN earlier.host) \ AmbientVariables :
       v \in DOMAIN host \cap DOMAIN earlier.host /\ host[v] = earlier.host[v]
  => resolved = earlier.resolved

\* What a plan was made against is what its apply changes: on the same host
\* they meet the same endpoint with the same audience and the same pin, when
\* the pin and the parts of connection_profile were known to the plan.
ApplyMeetsPlannedService ==
  /\ earlier # Null /\ pc = "ready" /\ earlier.pc = "ready"
  /\ host = earlier.host
  /\ earlier.hcl.expected_service_instance_id # Unknown
  /\ \A a \in Constituents : ~Stated(earlier.hcl.profile) \/ earlier.hcl.profile[a] # Unknown
  => /\ resolved.endpoint = earlier.resolved.endpoint
     /\ resolved.audience = earlier.resolved.audience
     /\ resolved.pin = earlier.resolved.pin

\* Switch a was on for the request r: its block says so or, where that says
\* nothing, the first of the variables that parses as a bool.
On(r, a) ==
  \/ r.hcl[a] = "true"
  \/ /\ ~Stated(r.hcl[a])
     /\ \E i \in DOMAIN Names[a] :
          /\ Names[a][i] \in DOMAIN r.host /\ r.host[Names[a][i]] = "true"
          /\ \A j \in 1..(i - 1) :
               Names[a][j] \in DOMAIN r.host => r.host[Names[a][j]] \notin {"true", "false"}

\* What leaves as a bearer token is the token that was exported as one, never
\* the assertion of a federated identity, and only when no other method was
\* asked for, in the block or by a variable.
OnlyTheExportedTokenIsSent ==
  \A r \in sent :
    /\ "MANTISEC_ACME_TOKEN" \in DOMAIN r.host /\ r.token = r.host["MANTISEC_ACME_TOKEN"]
    /\ ~On(r, "use_msi") /\ ~On(r, "use_oidc")
    /\ ~Stated(r.hcl.client_certificate_path)
    /\ \A i \in DOMAIN Names.client_certificate_path :
         Names.client_certificate_path[i] \notin DOMAIN r.host

\* The pin an operator wrote, in whichever place, holds whatever the version
\* checks were told: resources are reached at another instance only with
\* skip_instance_check, and then with a warning.
WrittenPinHolds ==
  LET written == {ObjectString("expected_service_instance_id"), hcl.expected_service_instance_id} \ {Null, Unknown}
      pins == IF written # {} THEN written
              ELSE IF "MANTISEC_ACME_SERVICE_INSTANCE_ID" \in DOMAIN host
              THEN {host["MANTISEC_ACME_SERVICE_INSTANCE_ID"]} ELSE {}
  IN  pc = "ready" /\ pins # {} =>
        \/ service[resolved.endpoint].instance_id \in pins
        \/ Switch("skip_instance_check") = "true" /\ "check_skipped" \in warnings

\* provider_configure.go: an endpoint that is not known at plan time is a
\* self-explaining error, so no request is ever sent on behalf of one.
UnknownEndpointIsRefused ==
  \A r \in sent :
    /\ r.hcl.endpoint # Unknown
    /\ Stated(r.hcl.profile) => r.hcl.profile.endpoint # Unknown
=============================================================================
