----------------------- MODULE ProviderConfigureProofs -----------------------
(* Proofs about ProviderConfigure.                                           *)
EXTENDS ProviderConfigure, FiniteSetTheorems, TLAPS

\* While a run has a client, it is the one that its block and its host call for.
Connected ==
  pc \in {"connecting", "ready"} =>
    /\ ~Incomplete
    /\ resolved.pin = Connection("expected_service_instance_id")
    /\ resolved.skip_instance = (Switch("skip_instance_check") = "true")
    /\ resolved.credential = Selection

\* A run that is ready has looked at the service it is at, and has said so when
\* it was told not to.
Accepted ==
  pc = "ready" =>
    /\ ~InstanceRefused(service[resolved.endpoint])
    /\ resolved.skip_instance => "check_skipped" \in warnings

IInv == host \in Hosts /\ Connected /\ Accepted /\ OnlyTheExportedTokenIsSent

\* A token that leaves is one that was chosen explicitly, and alone.
LEMMA OneExplicitMethod ==
  ASSUME Selection # Null, Selection.method = "static_token"
  PROVE  Explicit = {"static_token"}
<1> DEFINE Chosen(method, rule) == Required(Credential(method, rule))
<1>1. ASSUME NEW method, NEW rule, Chosen(method, rule) # Null
      PROVE  Chosen(method, rule).method = method
  BY <1>1 DEF Required, Credential
<1>2. Ambient # "static_token"
  <2> DEFINE Federated == {"AZURE_FEDERATED_TOKEN_FILE", "AZURE_CLIENT_ID"} \subseteq DOMAIN host
             Offered == AmbientVariables \cap DOMAIN host # {}
  <2>1. Federated \/ {"AZURE_FEDERATED_TOKEN_FILE", "AZURE_CLIENT_ID"} \ DOMAIN host # {}
    OBVIOUS
  <2>2. Null # "static_token"
    BY NullAssumption DEF Methods
  <2>3. CASE Federated
    BY <2>3, Zenon DEF Ambient
  <2>4. CASE ~Federated /\ Offered
    BY <2>1, <2>4, Zenon DEF Ambient
  <2>5. CASE ~Federated /\ ~Offered
    BY <2>1, <2>2, <2>5, Zenon DEF Ambient
  <2> QED
    BY <2>3, <2>4, <2>5
<1>3. /\ Explicit # {}
      /\ ~(Cardinality(Explicit) > 1)
      /\ (CHOOSE m \in Explicit : TRUE) = "static_token"
  BY <1>1, <1>2 DEF Selection
<1>4. IsFiniteSet(Explicit)
  <2>1. Explicit \subseteq {"workload_identity", "managed_identity", "client_certificate", "static_token"}
    BY DEF Explicit
  <2>2. IsFiniteSet({"workload_identity", "managed_identity", "client_certificate", "static_token"})
    <3>1. IsFiniteSet({"workload_identity"})
      BY FS_Singleton
    <3>2. IsFiniteSet({"workload_identity"} \cup {"managed_identity"})
      BY <3>1, FS_AddElement
    <3>3. IsFiniteSet({"workload_identity"} \cup {"managed_identity"} \cup {"client_certificate"})
      BY <3>2, FS_AddElement
    <3>4. IsFiniteSet({"workload_identity"} \cup {"managed_identity"} \cup {"client_certificate"}
                        \cup {"static_token"})
      BY <3>3, FS_AddElement
    <3>5. {"workload_identity", "managed_identity", "client_certificate", "static_token"} =
            {"workload_identity"} \cup {"managed_identity"} \cup {"client_certificate"}
              \cup {"static_token"}
      OBVIOUS
    <3> QED
      BY <3>4, <3>5
  <2> QED
    BY <2>1, <2>2, FS_Subset
<1>5. ASSUME NEW m \in Explicit, m # "static_token"
      PROVE  FALSE
  <2>1. {m, "static_token"} \subseteq Explicit
    BY <1>3
  <2>2. Cardinality({m, "static_token"}) = 2
    <3>1. IsFiniteSet({m}) /\ Cardinality({m}) = 1
      BY FS_Singleton
    <3>2. Cardinality({m} \cup {"static_token"}) = 2
      BY <3>1, <1>5, FS_AddElement
    <3>3. {m} \cup {"static_token"} = {m, "static_token"}
      OBVIOUS
    <3> QED
      BY <3>2, <3>3
  <2>3. Cardinality({m, "static_token"}) <= Cardinality(Explicit)
    BY <1>4, <2>1, FS_Subset
  <2>4. Cardinality(Explicit) \in Nat
    BY <1>4, FS_CardinalityType
  <2> QED
    BY <1>3, <2>2, <2>3, <2>4
<1> QED
  BY <1>3, <1>5

\* The first of two variables.
LEMMA FirstOfTwo ==
  ASSUME NEW n1, NEW n2, NEW usable
  PROVE  First(<<n1, n2>>, usable) =
           IF n1 \in usable THEN n1 ELSE IF n2 \in usable THEN n2 ELSE Null
<1> DEFINE found == {i \in DOMAIN <<n1, n2>> : <<n1, n2>>[i] \in usable}
           first == CHOOSE i \in found : \A j \in found : i <= j
<1>0. \A i : i \in found <=> (i = 1 /\ n1 \in usable) \/ (i = 2 /\ n2 \in usable)
  OBVIOUS
<1>1. CASE n1 \in usable
  <2>1. 1 \in found /\ \A j \in found : 1 <= j
    BY <1>0, <1>1
  <2>2. first \in found /\ \A j \in found : first <= j
    BY <2>1
  <2>3. first = 1
    BY <1>0, <2>1, <2>2
  <2> QED
    BY <1>1, <2>1, <2>3 DEF First
<1>2. CASE n1 \notin usable /\ n2 \in usable
  <2>1. found = {2}
    BY <1>0, <1>2
  <2>2. first = 2
    BY <2>1
  <2> QED
    BY <1>2, <2>1, <2>2 DEF First
<1>3. CASE n1 \notin usable /\ n2 \notin usable
  <2>1. found = {}
    BY <1>0, <1>3
  <2> QED
    BY <1>3, <2>1 DEF First
<1> QED
  BY <1>1, <1>2, <1>3

\* A switch that does not resolve to true is on for nothing this run sends.
LEMMA OffIsNotOn ==
  ASSUME NEW a \in Arguments, NEW n1, NEW n2, Names[a] = <<n1, n2>>,
         Switch(a) # "true", NEW r, r.hcl = hcl, r.host = host
  PROVE  ~On(r, a)
<1> SUFFICES ASSUME On(r, a)
             PROVE  FALSE
  OBVIOUS
<1> DEFINE usable == {n \in DOMAIN host : host[n] \in {"true", "false"}}
           name == First(Names[a], usable)
<1>1. hcl[a] # "true" /\ ~Stated(hcl[a])
  BY NullAssumption DEF On, Switch, EnvChainBool, Stated
<1>2. name = Null \/ host[name] # "true"
  BY <1>1 DEF Switch, EnvChainBool
<1>3. name = IF n1 \in usable THEN n1 ELSE IF n2 \in usable THEN n2 ELSE Null
  BY FirstOfTwo
<1>4. n1 # Null /\ n2 # Null
  BY NullAssumption, <<n1, n2>>[1] = n1, <<n1, n2>>[2] = n2, 1 \in DOMAIN <<n1, n2>>, 2 \in DOMAIN <<n1, n2>>
<1>5. \/ n1 \in DOMAIN host /\ host[n1] = "true"
      \/ /\ n2 \in DOMAIN host /\ host[n2] = "true"
         /\ n1 \in DOMAIN host => host[n1] \notin {"true", "false"}
  <2>1. PICK i \in DOMAIN <<n1, n2>> :
          /\ <<n1, n2>>[i] \in DOMAIN host /\ host[<<n1, n2>>[i]] = "true"
          /\ \A j \in 1..(i - 1) :
               <<n1, n2>>[j] \in DOMAIN host => host[<<n1, n2>>[j]] \notin {"true", "false"}
    BY <1>1 DEF On
  <2>2. CASE i = 1
    BY <2>1, <2>2
  <2>3. CASE i = 2
    <3>1. 1 \in 1..(i - 1)
      BY <2>3
    <3> QED
      BY <2>1, <2>3, <3>1
  <2> QED
    BY <2>2, <2>3
<1> QED
  BY <1>2, <1>3, <1>4, <1>5

\* What is sent is the exported token, by a run that asked for nothing else.
LEMMA SentIsExported ==
  ASSUME host \in Hosts, Connected, pc = "connecting", Sendable, NEW r, r.hcl = hcl, r.host = host
  PROVE  /\ "MANTISEC_ACME_TOKEN" \in DOMAIN host
         /\ Token(resolved.credential.method) = host["MANTISEC_ACME_TOKEN"]
         /\ ~On(r, "use_msi") /\ ~On(r, "use_oidc")
         /\ ~Stated(hcl.client_certificate_path)
         /\ \A i \in DOMAIN Names.client_certificate_path :
              Names.client_certificate_path[i] \notin DOMAIN host
<1>1. resolved.credential.method = "static_token"
  BY DEF Sendable, Token
<1>2. Selection # Null /\ Selection.method = "static_token"
  BY <1>1 DEF Connected, Incomplete
<1>3. Explicit = {"static_token"}
  BY <1>2, OneExplicitMethod
<1>4. "MANTISEC_ACME_TOKEN" \in DOMAIN host
  BY <1>3 DEF Explicit
<1>5. /\ Switch("use_oidc") # "true" /\ Switch("use_msi") # "true"
      /\ Setting("client_certificate_path") = Null
  BY <1>3 DEF Explicit
<1>6. ~On(r, "use_msi") /\ ~On(r, "use_oidc")
  <2>1. /\ Names["use_msi"] = <<"MANTISEC_ACME_USE_MSI", "ARM_USE_MSI">>
        /\ Names["use_oidc"] = <<"MANTISEC_ACME_USE_OIDC", "ARM_USE_OIDC">>
        /\ "use_msi" \in Arguments /\ "use_oidc" \in Arguments
    BY DEF Names, Arguments
  <2>2. ~On(r, "use_msi")
    BY <1>5, <2>1, OffIsNotOn
  <2>3. ~On(r, "use_oidc")
    BY <1>5, <2>1, OffIsNotOn
  <2> QED
    BY <2>2, <2>3
<1>7. ~Stated(hcl.client_certificate_path)
  BY <1>5 DEF Setting, EnvChain, Stated
<1>8. \A i \in DOMAIN Names.client_certificate_path :
        Names.client_certificate_path[i] \notin DOMAIN host
  <2> DEFINE n1 == "MANTISEC_ACME_CLIENT_CERTIFICATE_PATH"
             n2 == "ARM_CLIENT_CERTIFICATE_PATH"
             name == First(<<n1, n2>>, DOMAIN host)
  <2>1. Names["client_certificate_path"] = <<n1, n2>> /\ "client_certificate_path" \in Arguments
    BY DEF Names, Arguments
  <2>2. name = Null \/ host[name] = Null
    BY <1>5, <1>7, <2>1 DEF Setting, EnvChain
  <2>3. name = IF n1 \in DOMAIN host THEN n1 ELSE IF n2 \in DOMAIN host THEN n2 ELSE Null
    BY FirstOfTwo
  <2>4. n1 # Null /\ n2 # Null
    BY <2>1, NullAssumption, <<n1, n2>>[1] = n1, <<n1, n2>>[2] = n2,
       1 \in DOMAIN <<n1, n2>>, 2 \in DOMAIN <<n1, n2>>
  <2>5. name = Null
    BY <2>2, <2>3, HostsAssumption
  <2>6. n1 \notin DOMAIN host /\ n2 \notin DOMAIN host
    BY <2>3, <2>4, <2>5
  <2>7. \A i \in DOMAIN <<n1, n2>> : <<n1, n2>>[i] \notin DOMAIN host
    BY <2>6
  <2> QED
    BY <2>1, <2>7
<1> QED
  BY <1>1, <1>4, <1>6, <1>7, <1>8 DEF Token

\* The first of one variable.
LEMMA FirstOfOne ==
  ASSUME NEW name, NEW usable
  PROVE  First(<<name>>, usable) = IF name \in usable THEN name ELSE Null
<1> DEFINE found == {i \in DOMAIN <<name>> : <<name>>[i] \in usable}
<1>1. CASE name \in usable
  <2>1. found = {1}
    BY <1>1
  <2>2. (CHOOSE i \in found : \A j \in found : i <= j) = 1
    BY <2>1
  <2> QED
    BY <1>1, <2>1, <2>2 DEF First
<1>2. CASE name \notin usable
  <2>1. found = {}
    BY <1>2
  <2> QED
    BY <1>2, <2>1 DEF First
<1> QED
  BY <1>1, <1>2

\* Where the pin of a run comes from, and what a run that is ready has made of it.
LEMMA PinIsTheWrittenOne ==
  ASSUME host \in Hosts, Connected, Accepted
  PROVE  WrittenPinHolds
<1> DEFINE name == "expected_service_instance_id"
           variable == "MANTISEC_ACME_SERVICE_INSTANCE_ID"
           written == {ObjectString(name), hcl[name]} \ {Null, Unknown}
           pins == IF written # {} THEN written
                   ELSE IF variable \in DOMAIN host THEN {host[variable]} ELSE {}
<1>1. SUFFICES ASSUME pc = "ready", pins # {}
               PROVE  \/ service[resolved.endpoint].instance_id \in pins
                      \/ Switch("skip_instance_check") = "true" /\ "check_skipped" \in warnings
  BY DEF WrittenPinHolds
<1>2. CASE resolved.skip_instance
  BY <1>1, <1>2 DEF Connected, Accepted
<1>3. CASE ~resolved.skip_instance
  <2>1. resolved.pin = Null \/ service[resolved.endpoint].instance_id = resolved.pin
    BY <1>1, <1>3 DEF Accepted, InstanceRefused
  <2>2. resolved.pin = Connection(name) /\ ~Conflict
    BY <1>1 DEF Connected, Incomplete
  <2>3. First(Names[name], DOMAIN host) = IF variable \in DOMAIN host THEN variable ELSE Null
    <3>1. Names[name] = <<variable>>
      BY DEF Names
    <3> QED
      BY <3>1, FirstOfOne
  <2>4. Connection(name) \in pins /\ Connection(name) # Null
    <3>1. CASE ObjectString(name) # Null
      <4>1. ObjectString(name) \in written
        BY <3>1 DEF ObjectString, Stated
      <4> QED
        BY <3>1, <4>1 DEF Connection
    <3>2. CASE ObjectString(name) = Null /\ Stated(hcl[name])
      <4>1. hcl[name] \in written /\ Connection(name) = hcl[name] /\ hcl[name] # Null
        BY <3>2 DEF Connection, Setting, EnvChain, Stated
      <4> QED
        BY <4>1
    <3>3. CASE ObjectString(name) = Null /\ ~Stated(hcl[name])
      <4>1. written = {}
        BY <3>3 DEF Stated
      <4>2. variable \in DOMAIN host
        BY <1>1, <4>1
      <4>3. host[variable] # Null
        BY <4>2, HostsAssumption
      <4>4. variable # Null
        <5>1. Names[name] = <<variable>> /\ name \in Arguments
          BY DEF Names, Arguments
        <5>2. 1 \in DOMAIN <<variable>> /\ <<variable>>[1] = variable
          OBVIOUS
        <5> QED
          BY <5>1, <5>2, NullAssumption
      <4>5. Connection(name) = host[variable]
        BY <2>3, <3>3, <4>2, <4>4 DEF Connection, Setting, EnvChain
      <4> QED
        BY <4>1, <4>2, <4>3, <4>5
    <3> QED
      BY <3>1, <3>2, <3>3
  <2> QED
    BY <2>1, <2>2, <2>4
<1> QED
  BY <1>2, <1>3

\* What a run resolves depends on nothing but its block, its host and the services.
LEMMA ResolvedStays ==
  ASSUME UNCHANGED <<hcl, host, service>>
  PROVE  /\ Incomplete' = Incomplete /\ Selection' = Selection
         /\ \A a : Connection(a)' = Connection(a)
         /\ \A a : Switch(a)' = Switch(a)
<1>1. \A a : Setting(a)' = Setting(a) /\ Switch(a)' = Switch(a)
  BY DEF Setting, EnvChain, Switch, EnvChainBool
<1>2. \A a : Connection(a)' = Connection(a)
  BY <1>1 DEF Connection, ObjectString
<1>3. Explicit' = Explicit /\ Ambient' = Ambient
  BY <1>1 DEF Explicit, Ambient
<1>4. \A m, r : Credential(m, r)' = Credential(m, r)
  BY <1>1, <1>2 DEF Credential
<1>5. Selection' = Selection
  BY <1>3, <1>4 DEF Selection, Required
<1>6. Conflict' = Conflict /\ UnknownArgument' = UnknownArgument /\ BadDuration' = BadDuration
  BY <1>1 DEF Conflict, UnknownArgument, BadDuration
<1> QED
  BY <1>1, <1>2, <1>5, <1>6 DEF Incomplete

LEMMA InitInv == Init => IInv
BY DEF Init, IInv, Connected, Accepted, OnlyTheExportedTokenIsSent

LEMMA ResolveInv == IInv /\ Resolve => IInv'
<1> SUFFICES ASSUME IInv, Resolve
             PROVE  IInv'
  OBVIOUS
<1>1. UNCHANGED <<hcl, host, service>>
  BY DEF Resolve
<1>2. /\ Incomplete' = Incomplete /\ Selection' = Selection
      /\ \A a : Connection(a)' = Connection(a)
      /\ \A a : Switch(a)' = Switch(a)
  BY <1>1, ResolvedStays
<1>3. Connected'
  <2>1. CASE Incomplete \/ ~Usable(Connection("endpoint"))
    BY <2>1 DEF Resolve, Connected
  <2>2. CASE ~(Incomplete \/ ~Usable(Connection("endpoint")))
    <3>1. /\ resolved'.pin = Connection("expected_service_instance_id")
          /\ resolved'.skip_instance = (Switch("skip_instance_check") = "true")
          /\ resolved'.credential = Selection
      BY <2>2 DEF Resolve, Resolution
    <3> QED
      BY <1>2, <2>2, <3>1, Zenon DEF Connected
  <2> QED
    BY <2>1, <2>2
<1>4. Accepted'
  BY DEF Resolve, Accepted
<1> QED
  BY <1>1, <1>3, <1>4 DEF IInv, Resolve, OnlyTheExportedTokenIsSent

\* A request adds what the token lemma says to what was sent.
LEMMA SendInv ==
  ASSUME host \in Hosts, Connected, pc = "connecting", Sendable, OnlyTheExportedTokenIsSent, Send
  PROVE  OnlyTheExportedTokenIsSent'
<1> DEFINE r == [endpoint |-> resolved.endpoint, token |-> Token(resolved.credential.method),
                 hcl |-> hcl, host |-> host]
<1>1. sent' = sent \cup {r}
  BY DEF Send
<1>2. /\ "MANTISEC_ACME_TOKEN" \in DOMAIN r.host /\ r.token = r.host["MANTISEC_ACME_TOKEN"]
      /\ ~On(r, "use_msi") /\ ~On(r, "use_oidc") /\ ~Stated(r.hcl.client_certificate_path)
      /\ \A i \in DOMAIN Names.client_certificate_path :
           Names.client_certificate_path[i] \notin DOMAIN r.host
  BY SentIsExported
<1> HIDE DEF r
<1> QED
  BY <1>1, <1>2 DEF OnlyTheExportedTokenIsSent, Stated, On

LEMMA CallInv == IInv /\ (CallFails \/ CallRefused \/ Negotiate) => IInv'
<1> SUFFICES ASSUME IInv, CallFails \/ CallRefused \/ Negotiate
             PROVE  IInv'
  OBVIOUS
<1>1. /\ UNCHANGED <<hcl, host, service, resolved>>
      /\ pc = "connecting" /\ pc' \in {"connecting", "refused", "ready"}
  BY DEF CallFails, CallRefused, Negotiate, Retry
<1>2. /\ Incomplete' = Incomplete /\ Selection' = Selection
      /\ \A a : Connection(a)' = Connection(a)
      /\ \A a : Switch(a)' = Switch(a)
  BY <1>1, ResolvedStays
<1>3. Connected'
  BY <1>1, <1>2, Zenon DEF IInv, Connected
<1>4. Accepted'
  <2>1. CASE Negotiate
    BY <1>1, <2>1 DEF Negotiate, Accepted, InstanceRefused, Warnings
  <2>2. CASE CallFails \/ CallRefused
    BY <2>2 DEF CallFails, CallRefused, Retry, Accepted
  <2> QED
    BY <2>1, <2>2
<1>5. OnlyTheExportedTokenIsSent'
  <2>1. CASE Sendable /\ Send
    BY <1>1, <2>1, SendInv DEF IInv
  <2>2. CASE UNCHANGED sent
    BY <2>2 DEF IInv, OnlyTheExportedTokenIsSent, Stated, On
  <2> QED
    BY <2>1, <2>2 DEF CallFails, CallRefused, Negotiate
<1> QED
  BY <1>1, <1>3, <1>4, <1>5 DEF IInv

LEMMA RunAgainInv == IInv /\ RunAgain => IInv'
BY DEF IInv, RunAgain, Connected, Accepted, OnlyTheExportedTokenIsSent, Stated, On

LEMMA StutterInv == IInv /\ UNCHANGED vars => IInv'
<1> SUFFICES ASSUME IInv, UNCHANGED vars
             PROVE  IInv'
  OBVIOUS
<1>1. /\ Incomplete' = Incomplete /\ Selection' = Selection
      /\ \A a : Connection(a)' = Connection(a)
      /\ \A a : Switch(a)' = Switch(a)
  BY ResolvedStays DEF vars
<1>2. Connected'
  BY <1>1, Zenon DEF IInv, Connected, vars
<1> QED
  BY <1>2 DEF IInv, Accepted, InstanceRefused, OnlyTheExportedTokenIsSent, Stated, On, vars

\* A run that has a client has what its block, its host and the services make of
\* it, and every token that left was the exported one (Configure, deferredTokenSource).
THEOREM ConfigureInvariant == Spec => []IInv
<1>1. IInv /\ [Next]_vars => IInv'
  BY ResolveInv, CallInv, RunAgainInv, StutterInv DEF Next
<1> QED
  BY <1>1, InitInv, PTL DEF Spec

\* For every block, host and service: what leaves as a bearer token is the token
\* that was exported as one, and nothing else was asked for explicitly.
THEOREM TokensAreExported == Spec => []OnlyTheExportedTokenIsSent
<1>1. IInv => OnlyTheExportedTokenIsSent
  BY DEF IInv
<1> QED
  BY <1>1, ConfigureInvariant, PTL

\* For every block, host and service: the pin an operator wrote holds, or the
\* instance check was switched off and a warning says so (negotiateCapabilities).
THEOREM PinsAreKept == Spec => []WrittenPinHolds
<1>1. IInv => WrittenPinHolds
  BY PinIsTheWrittenOne DEF IInv
<1> QED
  BY <1>1, ConfigureInvariant, PTL

----------------------------------------------------------------------------
(* Two runs: what the second makes of its block and its host, beside what    *)
(* the first made of its own.                                                *)

\* The run before this one, with its own block and host.
Earlier == INSTANCE ProviderConfigure WITH hcl <- earlier.hcl, host <- earlier.host

Connects == ~Incomplete /\ Usable(Connection("endpoint"))
EarlierConnects == ~Earlier!Incomplete /\ Earlier!Usable(Earlier!Connection("endpoint"))

Shape(block) ==
  /\ DOMAIN block = Arguments \cup {"profile"}
  /\ block.profile \in {Null, Unknown} \/ IsProfile(block.profile)

\* What a run has resolved is what its block and its host say, or nothing.
Resolves ==
  /\ pc \in {"connecting", "ready"} => Connects
  /\ resolved = IF pc # "start" /\ Connects THEN Resolution ELSE Null

\* The same of the run before.
EarlierResolves ==
  earlier # Null =>
    /\ earlier.pc = "ready" => EarlierConnects
    /\ earlier.resolved = IF EarlierConnects THEN Earlier!Resolution ELSE Null

\* The block is a provider block, and it is the one of the run before, at most
\* with what was unknown filled in.
SameBlock ==
  /\ Shape(hcl)
  /\ earlier # Null => Shape(earlier.hcl) /\ hcl \in {earlier.hcl, Earlier!KnownConfiguration}

RunsInv == SameBlock /\ Resolves /\ EarlierResolves

\* The constants and the operators without a state mean the same in both runs.
LEMMA SameConstants ==
  /\ Earlier!Names = Names /\ Earlier!Arguments = Arguments /\ Earlier!Constituents = Constituents
  /\ \A v : Earlier!Stated(v) = Stated(v)
  /\ \A names, usable : Earlier!First(names, usable) = First(names, usable)
  /\ \A e : Earlier!Usable(e) = Usable(e)
BY DEF Names, Earlier!Names, Arguments, Earlier!Arguments, Constituents, Earlier!Constituents,
       Stated, Earlier!Stated, First, Earlier!First, Usable, Earlier!Usable

LEMMA ResolutionStays ==
  ASSUME UNCHANGED <<hcl, host, service>>
  PROVE  Connects' = Connects /\ Resolution' = Resolution
<1>1. /\ Incomplete' = Incomplete /\ Selection' = Selection
      /\ \A a : Connection(a)' = Connection(a)
      /\ \A a : Switch(a)' = Switch(a)
  BY ResolvedStays
<1>2. Connects' = Connects
  BY <1>1 DEF Connects, Usable
<1>3. Resolution' = Resolution
  BY <1>1, Zenon DEF Resolution
<1> QED
  BY <1>2, <1>3

LEMMA EarlierStays ==
  ASSUME UNCHANGED <<earlier, service>>
  PROVE  /\ EarlierConnects' = EarlierConnects /\ Earlier!Resolution' = Earlier!Resolution
         /\ Earlier!KnownConfiguration' = Earlier!KnownConfiguration
<1>1. \A a : /\ Earlier!Setting(a)' = Earlier!Setting(a)
             /\ Earlier!Switch(a)' = Earlier!Switch(a)
             /\ Earlier!Connection(a)' = Earlier!Connection(a)
  BY DEF Earlier!Setting, Earlier!EnvChain, Earlier!Switch, Earlier!EnvChainBool,
         Earlier!Connection, Earlier!ObjectString
<1>2. Earlier!Explicit' = Earlier!Explicit /\ Earlier!Ambient' = Earlier!Ambient
  BY <1>1 DEF Earlier!Explicit, Earlier!Ambient
<1>3. \A m, r : Earlier!Credential(m, r)' = Earlier!Credential(m, r)
  BY <1>1 DEF Earlier!Credential
<1>4. Earlier!Selection' = Earlier!Selection
  BY <1>2, <1>3 DEF Earlier!Selection, Earlier!Required
<1>5. /\ Earlier!Conflict' = Earlier!Conflict
      /\ Earlier!UnknownArgument' = Earlier!UnknownArgument
      /\ Earlier!BadDuration' = Earlier!BadDuration
  BY <1>1 DEF Earlier!Conflict, Earlier!UnknownArgument, Earlier!BadDuration
<1>6. EarlierConnects' = EarlierConnects
  BY <1>1, <1>4, <1>5 DEF EarlierConnects, Earlier!Incomplete, Earlier!Usable
<1>7. Earlier!Resolution' = Earlier!Resolution
  BY <1>1, <1>4, Zenon DEF Earlier!Resolution
<1>8. Earlier!KnownConfiguration' = Earlier!KnownConfiguration
  BY DEF Earlier!KnownConfiguration
<1> QED
  BY <1>6, <1>7, <1>8

\* A run that starts after another finds there what the other was.
LEMMA EarlierIsThisRun ==
  ASSUME earlier'.hcl = hcl, earlier'.host = host, UNCHANGED service
  PROVE  /\ EarlierConnects' = Connects /\ Earlier!Resolution' = Resolution
         /\ Earlier!KnownConfiguration' = KnownConfiguration
<1>1. /\ Names = Earlier!Names' /\ Constituents = Earlier!Constituents'
      /\ \A v : Earlier!Stated(v)' = Stated(v)
      /\ \A names, usable : Earlier!First(names, usable)' = First(names, usable)
  BY DEF Names, Earlier!Names, Constituents, Earlier!Constituents,
         Stated, Earlier!Stated, First, Earlier!First
<1>2. \A a : Earlier!Setting(a)' = Setting(a) /\ Earlier!Switch(a)' = Switch(a)
  BY <1>1 DEF Earlier!Setting, Earlier!EnvChain, Earlier!Switch, Earlier!EnvChainBool,
              Setting, EnvChain, Switch, EnvChainBool
<1>3. \A a : Earlier!Connection(a)' = Connection(a)
  BY <1>1, <1>2 DEF Earlier!Connection, Earlier!ObjectString, Connection, ObjectString
<1>4. Earlier!Explicit' = Explicit /\ Earlier!Ambient' = Ambient
  BY <1>2 DEF Earlier!Explicit, Earlier!Ambient, Earlier!AmbientVariables, Explicit, Ambient, AmbientVariables
<1>5. \A m, r : Earlier!Credential(m, r)' = Credential(m, r)
  BY <1>2, <1>3 DEF Earlier!Credential, Credential
<1>6. Earlier!Selection' = Selection
  <2>1. \A S : Earlier!Cardinality(S)' = Cardinality(S)
    BY DEF Earlier!Cardinality, Cardinality
  <2> QED
    BY <1>4, <1>5, <2>1 DEF Earlier!Selection, Earlier!Required, Selection, Required
<1>7. /\ Earlier!Conflict' = Conflict /\ Earlier!UnknownArgument' = UnknownArgument
      /\ Earlier!BadDuration' = BadDuration
  BY <1>1, <1>2 DEF Earlier!Conflict, Earlier!UnknownArgument, Earlier!BadDuration,
                    Conflict, UnknownArgument, BadDuration
<1>8. EarlierConnects' = Connects
  BY <1>3, <1>6, <1>7 DEF EarlierConnects, Earlier!Incomplete, Earlier!Usable, Connects, Incomplete, Usable
<1>9. Earlier!Resolution' = Resolution
  BY <1>2, <1>3, <1>6, Zenon DEF Earlier!Resolution, Resolution
<1>10. Earlier!KnownConfiguration' = KnownConfiguration
  BY <1>1 DEF Earlier!KnownConfiguration, KnownConfiguration
<1> QED
  BY <1>8, <1>9, <1>10

LEMMA KnownShape ==
  ASSUME Shape(hcl)
  PROVE  Shape(KnownConfiguration)
<1> DEFINE known == KnownConfiguration
<1>1. DOMAIN known = DOMAIN hcl
  BY DEF KnownConfiguration
<1>2. known.profile = IF hcl.profile = Unknown THEN KnownAs.profile
                      ELSE IF hcl.profile # Null
                      THEN [p \in Constituents |-> IF hcl.profile[p] = Unknown THEN KnownAs[p] ELSE hcl.profile[p]]
                      ELSE hcl.profile
  BY DEF KnownConfiguration, Shape
<1> HIDE DEF known
<1>3. known.profile \in {Null, Unknown} \/ IsProfile(known.profile)
  BY <1>2, KnownAsAssumption DEF IsProfile
<1> QED
  BY <1>1, <1>3 DEF Shape, known

LEMMA RunsInit == Init => RunsInv
BY ConfigurationsAssumption DEF Init, RunsInv, SameBlock, Shape, Resolves, EarlierResolves

LEMMA RunsNext == RunsInv /\ [Next]_vars => RunsInv'
<1> SUFFICES ASSUME RunsInv, [Next]_vars
             PROVE  RunsInv'
  OBVIOUS
<1>1. CASE UNCHANGED <<hcl, host, service, earlier>>
  <2>1. Connects' = Connects /\ Resolution' = Resolution
    BY <1>1, ResolutionStays
  <2>2. /\ EarlierConnects' = EarlierConnects /\ Earlier!Resolution' = Earlier!Resolution
        /\ Earlier!KnownConfiguration' = Earlier!KnownConfiguration
    BY <1>1, EarlierStays
  <2>3. SameBlock'
    BY <1>1, <2>2 DEF RunsInv, SameBlock, Shape, IsProfile
  <2>4. EarlierResolves'
    BY <1>1, <2>2, Zenon DEF RunsInv, EarlierResolves
  <2>5. Resolves'
    <3>1. CASE Resolve
      BY <2>1, <3>1 DEF Resolve, Resolves, Connects, RunsInv
    <3>2. CASE CallFails \/ CallRefused \/ Negotiate
      <4>1. pc = "connecting" /\ pc' \in {"connecting", "ready", "refused"} /\ UNCHANGED resolved
        BY <3>2 DEF CallFails, CallRefused, Negotiate, Retry
      <4> QED
        BY <2>1, <4>1 DEF Resolves, RunsInv
    <3>3. CASE UNCHANGED vars
      BY <2>1, <3>3 DEF vars, Resolves, RunsInv
    <3>4. CASE RunAgain
      BY <3>4 DEF RunAgain, Resolves
    <3> QED
      BY <3>1, <3>2, <3>3, <3>4 DEF Next
  <2> QED
    BY <2>3, <2>4, <2>5 DEF RunsInv
<1>2. CASE RunAgain
  <2>1. /\ earlier'.hcl = hcl /\ earlier'.host = host
        /\ earlier'.pc = pc /\ earlier'.resolved = resolved
    BY <1>2 DEF RunAgain
  <2>2. /\ EarlierConnects' = Connects /\ Earlier!Resolution' = Resolution
        /\ Earlier!KnownConfiguration' = KnownConfiguration
    BY <1>2, <2>1, EarlierIsThisRun DEF RunAgain
  <2>3. SameBlock'
    <3>1. Shape(KnownConfiguration)
      BY KnownShape DEF RunsInv, SameBlock
    <3>2. hcl' \in {hcl, KnownConfiguration}
      BY <1>2 DEF RunAgain
    <3>3. Shape(hcl')
      BY <3>1, <3>2 DEF RunsInv, SameBlock
    <3>4. Shape(earlier'.hcl)
      BY <2>1 DEF RunsInv, SameBlock
    <3> QED
      BY <2>1, <2>2, <3>2, <3>3, <3>4 DEF SameBlock, Shape, IsProfile
  <2>4. Resolves'
    BY <1>2 DEF RunAgain, Resolves
  <2>5. EarlierResolves'
    <3>1. pc \in {"ready", "refused"}
      BY <1>2 DEF RunAgain
    <3>2. /\ pc = "ready" => Connects
          /\ resolved = IF Connects THEN Resolution ELSE Null
      BY <3>1 DEF RunsInv, Resolves
    <3> QED
      BY <2>1, <2>2, <3>2, Zenon DEF EarlierResolves
  <2> QED
    BY <2>3, <2>4, <2>5 DEF RunsInv
<1> QED
  BY <1>1, <1>2 DEF Next, Resolve, CallFails, CallRefused, Negotiate, vars

\* Every run resolves what its own block and host say, the second has the block
\* of the first, and the first is remembered as it was (Configure, resolveConfig).
THEOREM RunsInvariant == Spec => []RunsInv
BY RunsInit, RunsNext, PTL DEF Spec

----------------------------------------------------------------------------
(* The two runs compared.                                                    *)

LEMMA LeastOfThree ==
  ASSUME NEW found, found \subseteq 1..3, found # {}
  PROVE  \E i \in found : \A j \in found : i <= j
<1>1. CASE 1 \in found
  BY <1>1
<1>2. CASE 1 \notin found /\ 2 \in found
  BY <1>2
<1>3. CASE 1 \notin found /\ 2 \notin found
  <2>1. \A j \in found : j = 3
    BY <1>3
  <2>2. 3 \in found
    BY <2>1
  <2> QED
    BY <2>1, <2>2
<1> QED
  BY <1>1, <1>2, <1>3

\* First returns nothing or a usable name: a row has three variables at most.
LEMMA FirstIsUsable ==
  ASSUME NEW names, NEW usable, DOMAIN names \subseteq 1..3, First(names, usable) # Null
  PROVE  \E i \in DOMAIN names : names[i] \in usable /\ First(names, usable) = names[i]
<1> DEFINE found == {i \in DOMAIN names : names[i] \in usable}
<1>1. found # {} /\ found \subseteq 1..3
  BY DEF First
<1>2. \E i \in found : \A j \in found : i <= j
  BY <1>1, LeastOfThree
<1>3. (CHOOSE i \in found : \A j \in found : i <= j) \in found
  BY <1>2
<1> QED
  BY <1>1, <1>3 DEF First

\* First looks at nothing but which of the names are usable.
LEMMA FirstDependsOn ==
  ASSUME NEW names, NEW u, NEW v,
         \A i \in DOMAIN names : names[i] \in u <=> names[i] \in v
  PROVE  First(names, u) = First(names, v)
<1> DEFINE found == {i \in DOMAIN names : names[i] \in u}
           other == {i \in DOMAIN names : names[i] \in v}
           least(set) == IF set = {} THEN Null ELSE names[CHOOSE i \in set : \A j \in set : i <= j]
<1>1. found = other
  OBVIOUS
<1>2. First(names, u) = least(found) /\ First(names, v) = least(other)
  BY DEF First
<1> HIDE DEF found, other, least
<1> QED
  BY <1>1, <1>2

LEMMA RowsAreShort ==
  \A a \in Arguments : /\ DOMAIN Names[a] \subseteq 1..3
                       /\ \A i \in DOMAIN Names[a] : Names[a][i] \notin AmbientVariables
BY DEF Arguments, Names, AmbientVariables

\* The hosts agree on everything but what only the ambient chain reads.
SameButAmbient ==
  \A v \in (DOMAIN host \cup DOMAIN earlier.host) \ AmbientVariables :
    v \in DOMAIN host \cap DOMAIN earlier.host /\ host[v] = earlier.host[v]

\* On such hosts no row of the table has another value.
LEMMA SameSettings ==
  ASSUME SameButAmbient, hcl = earlier.hcl
  PROVE  \A a \in Arguments : Earlier!Setting(a) = Setting(a) /\ Earlier!Switch(a) = Switch(a)
<1> SUFFICES ASSUME NEW a \in Arguments
             PROVE  Earlier!Setting(a) = Setting(a) /\ Earlier!Switch(a) = Switch(a)
  OBVIOUS
<1> DEFINE names == Names[a]
           words(h) == {n \in DOMAIN h : h[n] \in {"true", "false"}}
<1>1. DOMAIN names \subseteq 1..3 /\ \A i \in DOMAIN names : names[i] \notin AmbientVariables
  BY RowsAreShort
<1>2. Names = Earlier!Names /\ (\A v : Earlier!Stated(v) = Stated(v))
      /\ (\A ns, usable : Earlier!First(ns, usable) = First(ns, usable))
  BY SameConstants
<1>3. \A i \in DOMAIN names :
        /\ names[i] \in DOMAIN host <=> names[i] \in DOMAIN earlier.host
        /\ names[i] \in DOMAIN host => host[names[i]] = earlier.host[names[i]]
        /\ names[i] \in words(host) <=> names[i] \in words(earlier.host)
  BY <1>1 DEF SameButAmbient
<1>4. /\ First(names, DOMAIN host) = First(names, DOMAIN earlier.host)
      /\ First(names, words(host)) = First(names, words(earlier.host))
  BY <1>3, FirstDependsOn
<1>5. ASSUME NEW usable, usable \subseteq DOMAIN host, First(names, usable) # Null
      PROVE  host[First(names, usable)] = earlier.host[First(names, usable)]
  BY <1>1, <1>3, <1>5, FirstIsUsable
<1>6. Earlier!Setting(a) = Setting(a)
  BY <1>2, <1>4, <1>5 DEF Earlier!Setting, Earlier!EnvChain, Setting, EnvChain
<1>7. Earlier!Switch(a) = Switch(a)
  BY <1>2, <1>4, <1>5 DEF Earlier!Switch, Earlier!EnvChainBool, Switch, EnvChainBool
<1> QED
  BY <1>6, <1>7

\* An explicit selection is made without the ambient chain, and from the table.
LEMMA SameSelection ==
  ASSUME SameButAmbient, hcl = earlier.hcl,
         EarlierConnects, Earlier!Resolution.credential.rule = 2
  PROVE  Connects /\ Resolution = Earlier!Resolution
<1>1. \A a \in Arguments : Earlier!Setting(a) = Setting(a) /\ Earlier!Switch(a) = Switch(a)
  BY SameSettings
<1>2. /\ Constituents \subseteq Arguments
      /\ {"use_oidc", "use_msi", "client_certificate_path", "client_id", "request_timeout",
          "skip_version_check", "skip_instance_check"} \subseteq Arguments
  BY DEF Arguments, Names, Constituents
<1>3. /\ \A a \in Constituents : Earlier!Connection(a) = Connection(a)
      /\ Earlier!Conflict = Conflict /\ Earlier!UnknownArgument = UnknownArgument
      /\ Earlier!BadDuration = BadDuration
  BY <1>1, <1>2, SameConstants
     DEF Earlier!Connection, Earlier!ObjectString, Connection, ObjectString, Earlier!Conflict, Conflict,
         Earlier!UnknownArgument, UnknownArgument, Earlier!BadDuration, BadDuration
<1>4. Earlier!Explicit = Explicit
  <2>1. "MANTISEC_ACME_TOKEN" \in DOMAIN host <=> "MANTISEC_ACME_TOKEN" \in DOMAIN earlier.host
    BY DEF SameButAmbient, AmbientVariables
  <2> QED
    BY <1>1, <1>2, <2>1 DEF Earlier!Explicit, Explicit
<1>5. \A method, rule : Earlier!Credential(method, rule) = Credential(method, rule)
  BY <1>1, <1>2, <1>3 DEF Earlier!Credential, Credential, Constituents
<1>6. Earlier!Resolution.credential = Earlier!Selection /\ Earlier!Selection # Null
  BY DEF Earlier!Resolution, EarlierConnects, Earlier!Incomplete
<1>7. Earlier!Explicit # {}
  <2>1. \A method : Earlier!Credential(method, 3).rule = 3
    BY DEF Earlier!Credential
  <2> QED
    BY <1>6, <2>1 DEF Earlier!Selection, Earlier!Required
<1>8. Selection = Earlier!Selection
  <2>1. \A S : Earlier!Cardinality(S) = Cardinality(S)
    BY DEF Earlier!Cardinality, Cardinality
  <2> QED
    BY <1>4, <1>5, <1>7, <2>1 DEF Earlier!Selection, Earlier!Required, Selection, Required
<1>9. Connects
  BY <1>3, <1>8, SameConstants
     DEF EarlierConnects, Earlier!Incomplete, Connects, Incomplete, Constituents
<1>10. Resolution = Earlier!Resolution
  BY <1>1, <1>2, <1>3, <1>8, Zenon DEF Resolution, Earlier!Resolution, Constituents
<1> QED
  BY <1>9, <1>10

LEMMA ExplicitIsStable == RunsInv => AmbientNeverChangesExplicit
<1> SUFFICES ASSUME RunsInv, earlier # Null, pc # "start", hcl = earlier.hcl,
                    earlier.resolved # Null, earlier.resolved.credential.rule = 2, SameButAmbient
             PROVE  resolved = earlier.resolved
  BY DEF AmbientNeverChangesExplicit, SameButAmbient
<1>1. EarlierConnects /\ earlier.resolved = Earlier!Resolution
  BY DEF RunsInv, EarlierResolves
<1>2. Connects /\ Resolution = Earlier!Resolution
  BY <1>1, SameSelection
<1> QED
  BY <1>1, <1>2 DEF RunsInv, Resolves

\* For every block, every pair of hosts and every table of services: whom an
\* explicit method authenticates as, and all else a run resolves, is the same on
\* hosts that differ only in what the ambient chain reads (resolveCredentialSelection).
THEOREM ExplicitCredentialIsStable == Spec => []AmbientNeverChangesExplicit
BY RunsInvariant, ExplicitIsStable, PTL

\* On one host a block and the same block with its unknowns filled in lead to the
\* same value, where the value itself was not among the unknowns.
LEMMA SameConnection ==
  ASSUME host = earlier.host, SameBlock, earlier # Null,
         earlier.hcl.profile # Unknown,
         \A a \in Constituents : ~Stated(earlier.hcl.profile) \/ earlier.hcl.profile[a] # Unknown,
         NEW a \in Constituents, earlier.hcl[a] # Unknown
  PROVE  Connection(a) = Earlier!Connection(a)
<1>1. hcl.profile = earlier.hcl.profile /\ hcl[a] = earlier.hcl[a]
  <2>1. CASE hcl = earlier.hcl
    BY <2>1
  <2>2. CASE hcl = Earlier!KnownConfiguration
    <3>1. a \in DOMAIN earlier.hcl /\ "profile" \in DOMAIN earlier.hcl /\ a # "profile"
      BY DEF SameBlock, Shape, Arguments, Names, Constituents
    <3>2. hcl[a] = earlier.hcl[a]
      BY <2>2, <3>1 DEF Earlier!KnownConfiguration
    <3>3. hcl.profile = IF earlier.hcl.profile # Null
                        THEN [p \in Constituents |-> IF earlier.hcl.profile[p] = Unknown THEN KnownAs[p]
                                                     ELSE earlier.hcl.profile[p]]
                        ELSE earlier.hcl.profile
      BY <2>2, <3>1, SameConstants DEF Earlier!KnownConfiguration
    <3>4. CASE earlier.hcl.profile = Null
      BY <3>2, <3>3, <3>4
    <3>5. CASE earlier.hcl.profile # Null
      <4>1. earlier.hcl.profile = [p \in Constituents |-> earlier.hcl.profile[p]]
        BY <3>5 DEF SameBlock, Shape, IsProfile
      <4>2. \A p \in Constituents : earlier.hcl.profile[p] # Unknown
        BY <3>5 DEF Stated
      <4>3. hcl.profile = [p \in Constituents |-> earlier.hcl.profile[p]]
        BY <3>3, <3>5, <4>2
      <4> QED
        BY <3>2, <4>1, <4>3
    <3> QED
      BY <3>4, <3>5
  <2> QED
    BY <2>1, <2>2 DEF SameBlock
<1> QED
  BY <1>1, SameConstants
     DEF Connection, ObjectString, Setting, EnvChain,
         Earlier!Connection, Earlier!ObjectString, Earlier!Setting, Earlier!EnvChain

LEMMA SameServiceMet == RunsInv => ApplyMeetsPlannedService
<1> SUFFICES ASSUME RunsInv, earlier # Null, pc = "ready", earlier.pc = "ready", host = earlier.host,
                    earlier.hcl.expected_service_instance_id # Unknown,
                    \A a \in Constituents : ~Stated(earlier.hcl.profile) \/ earlier.hcl.profile[a] # Unknown
             PROVE  /\ resolved.endpoint = earlier.resolved.endpoint
                    /\ resolved.audience = earlier.resolved.audience
                    /\ resolved.pin = earlier.resolved.pin
  BY DEF ApplyMeetsPlannedService
<1>1. EarlierConnects /\ earlier.resolved = Earlier!Resolution /\ Connects /\ resolved = Resolution
  BY DEF RunsInv, EarlierResolves, Resolves
<1>2. /\ earlier.hcl.profile # Unknown
      /\ earlier.hcl.endpoint # Unknown /\ earlier.hcl.audience # Unknown
  BY <1>1 DEF EarlierConnects, Earlier!Incomplete, Earlier!UnknownArgument
<1>3. \A a \in {"endpoint", "audience", "expected_service_instance_id"} :
        Connection(a) = Earlier!Connection(a)
  BY <1>2, SameConnection DEF RunsInv, Constituents
<1> QED
  BY <1>1, <1>3 DEF Resolution, Earlier!Resolution

\* For every block, host and table of services: what a plan was made against is
\* what its apply changes, when the pin and the parts of connection_profile were
\* known to the plan (resolveConfig, envChain).
THEOREM ApplyMeetsItsService == Spec => []ApplyMeetsPlannedService
BY RunsInvariant, SameServiceMet, PTL

----------------------------------------------------------------------------
(* Type correctness.                                                         *)

LEMMA AmbientType == Ambient \in Methods \cup {Null}
<1> DEFINE Federated == {"AZURE_FEDERATED_TOKEN_FILE", "AZURE_CLIENT_ID"} \subseteq DOMAIN host
           Offered == AmbientVariables \cap DOMAIN host # {}
<1>1. Federated \/ {"AZURE_FEDERATED_TOKEN_FILE", "AZURE_CLIENT_ID"} \ DOMAIN host # {}
  OBVIOUS
<1>2. Ambient \in {"workload_identity", "managed_identity", "azure_cli", Null}
  <2>1. CASE Federated
    BY <2>1, Zenon DEF Ambient
  <2>2. CASE ~Federated /\ Offered
    BY <1>1, <2>2, Zenon DEF Ambient
  <2>3. CASE ~Federated /\ ~Offered
    BY <1>1, <2>3, Zenon DEF Ambient
  <2> QED
    BY <2>1, <2>2, <2>3
<1> QED
  BY <1>2 DEF Methods

\* A selection names a method of the program and the rule it was made by.
LEMMA SelectionType ==
  ASSUME Selection # Null
  PROVE  Selection.method \in Methods /\ Selection.rule \in {2, 3}
<1>1. \A method, rule : Required(Credential(method, rule)) # Null =>
        /\ Required(Credential(method, rule)).method = method
        /\ Required(Credential(method, rule)).rule = rule
  BY DEF Required, Credential
<1>2. Explicit # {} => (CHOOSE m \in Explicit : TRUE) \in Methods
  <2>1. Explicit \subseteq Methods
    BY DEF Explicit, Methods
  <2> QED
    BY <2>1
<1> QED
  BY <1>1, <1>2, AmbientType DEF Selection

\* What has been resolved points at a URL that is one, with a credential.
ResolvedOK ==
  resolved # Null =>
    /\ resolved.endpoint \in DOMAIN service
    /\ resolved.credential.method \in Methods /\ resolved.credential.rule \in {2, 3}

LEMMA ResolvedType == Resolves => ResolvedOK
<1> SUFFICES ASSUME Resolves, resolved # Null
             PROVE  /\ resolved.endpoint \in DOMAIN service
                    /\ resolved.credential.method \in Methods /\ resolved.credential.rule \in {2, 3}
  BY DEF ResolvedOK
<1>1. Connects /\ resolved = Resolution
  BY DEF Resolves
<1>2. Selection # Null /\ Connection("endpoint") \in DOMAIN service
  BY <1>1 DEF Connects, Incomplete, Usable
<1>3. resolved.endpoint = Connection("endpoint") /\ resolved.credential = Selection
  BY <1>1 DEF Resolution
<1> QED
  BY <1>2, <1>3, SelectionType

LEMMA ResolvedTypeNext == Resolves' => ResolvedOK'
BY ResolvedType, PTL

LEMMA TypeInit == Init => TypeOK
BY ConfigurationsAssumption, MaxRetriesAssumption DEF Init, TypeOK

LEMMA TypeNext == TypeOK /\ RunsInv /\ RunsInv' /\ [Next]_vars => TypeOK'
<1> SUFFICES ASSUME TypeOK, RunsInv, RunsInv', [Next]_vars
             PROVE  TypeOK'
  OBVIOUS
<1>1. UNCHANGED service /\ (UNCHANGED host \/ host' \in Hosts)
  BY DEF Next, Resolve, CallFails, CallRefused, Negotiate, RunAgain, vars
<1>2. hcl'.profile \in {Null, Unknown} \/ IsProfile(hcl'.profile)
  BY DEF RunsInv, SameBlock, Shape, IsProfile
<1>3. ResolvedOK'
  BY ResolvedTypeNext DEF RunsInv
<1>4. /\ pc' \in {"start", "connecting", "ready", "refused"}
      /\ attempt' \in 0..MaxRetries
      /\ warnings' \subseteq {"audience_mismatch", "client_deprecated", "check_skipped", "unreadable_version"}
  <2>1. CASE Resolve
    BY <2>1 DEF Resolve, TypeOK
  <2>2. CASE CallFails
    BY <2>2, MaxRetriesAssumption DEF CallFails, Retry, TypeOK
  <2>3. CASE CallRefused
    BY <2>3 DEF CallRefused, TypeOK
  <2>4. CASE Negotiate
    BY <2>4, MaxRetriesAssumption DEF Negotiate, Warnings, TypeOK
  <2>5. CASE RunAgain
    BY <2>5, MaxRetriesAssumption DEF RunAgain, TypeOK
  <2>6. CASE UNCHANGED vars
    BY <2>6 DEF vars, TypeOK
  <2> QED
    BY <2>1, <2>2, <2>3, <2>4, <2>5, <2>6 DEF Next
<1>5. \A r \in sent' : r.endpoint \in DOMAIN service
  <2>1. CASE pc = "connecting" /\ Send
    <3>1. resolved.endpoint \in DOMAIN service
      BY <2>1 DEF RunsInv, Resolves, Resolution, Connects, Usable
    <3> QED
      BY <2>1, <3>1 DEF Send, TypeOK
  <2>2. CASE UNCHANGED sent
    BY <2>2 DEF TypeOK
  <2> QED
    BY <2>1, <2>2 DEF Next, Resolve, CallFails, CallRefused, Negotiate, RunAgain, vars
<1> QED
  BY <1>1, <1>2, <1>3, <1>4, <1>5 DEF TypeOK, ResolvedOK, IsProfile

\* The types hold for every block, host and table of services: what is resolved
\* has a URL and a method of the program, and no request leaves for another place.
THEOREM TypeCorrect == Spec => []TypeOK
BY TypeInit, TypeNext, RunsInvariant, PTL DEF Spec
=============================================================================
