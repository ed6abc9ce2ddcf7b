------------------------ MODULE MCProviderConfigure ------------------------
(* Small instances of ProviderConfigure for TLC.                             *)
EXTENDS ProviderConfigure, TLC

CONSTANTS prod, test, aud, tenant, p1, p2, id, token, assertion, path

Blank == [a \in Arguments \cup {"profile"} |-> Null]

Direct == [Blank EXCEPT !.endpoint = prod, !.audience = aud, !.expected_service_instance_id = p1]

Profile(endpoint, pin) ==
  [endpoint |-> endpoint, audience |-> aud, tenant_id |-> tenant, expected_service_instance_id |-> pin]

Profiled(endpoint, pin) == [Blank EXCEPT !.profile = Profile(endpoint, pin)]

\* Blocks that connect in different ways, and some that cannot.
Connections ==
  {Blank, Direct, Profiled(prod, p1), Profiled(prod, Null),
   [Direct EXCEPT !.profile = Profile(test, Null)],
   [Direct EXCEPT !.endpoint = Unknown],
   [Direct EXCEPT !.audience = Unknown],
   [Direct EXCEPT !.expected_service_instance_id = Unknown],
   [Blank EXCEPT !.profile = Unknown],
   Profiled(Unknown, p1), Profiled(prod, Unknown)}

\* What is said of the credential and of the checks.
Variants(c) ==
  {c,
   [c EXCEPT !.use_msi = "true"],
   [c EXCEPT !.use_msi = "true", !.client_id = id],
   [c EXCEPT !.use_oidc = "true"],
   [c EXCEPT !.use_oidc = "false", !.use_cli = "false"],
   [c EXCEPT !.client_certificate_path = path],
   [c EXCEPT !.skip_version_check = "true"],
   [c EXCEPT !.skip_instance_check = "true"],
   [c EXCEPT !.request_timeout = "soon"]}

MCConfigurations == UNION {Variants(c) : c \in Connections}

Ways ==
  {<<>>, [MANTISEC_ACME_TOKEN |-> token], [ARM_USE_MSI |-> "true", ARM_CLIENT_ID |-> id],
   [ARM_CLIENT_CERTIFICATE_PATH |-> path, MANTISEC_ACME_TOKEN |-> token],
   [MANTISEC_ACME_USE_MSI |-> "yes", ARM_USE_MSI |-> "true", MANTISEC_ACME_TOKEN |-> token],
   [AZURE_FEDERATED_TOKEN_FILE |-> assertion, AZURE_CLIENT_ID |-> id],
   [AZURE_FEDERATED_TOKEN_FILE |-> assertion, MANTISEC_ACME_TOKEN |-> token]}

Places ==
  {<<>>,
   [MANTISEC_ACME_ENDPOINT |-> test, MANTISEC_ACME_AUDIENCE |-> aud],
   [MANTISEC_ACME_ENDPOINT |-> prod, MANTISEC_ACME_AUDIENCE |-> aud,
    MANTISEC_ACME_SERVICE_INSTANCE_ID |-> p1]}

\* The last of the places, on a machine with a managed identity.
Managed == [MANTISEC_ACME_ENDPOINT |-> prod, MANTISEC_ACME_AUDIENCE |-> aud,
            MANTISEC_ACME_SERVICE_INSTANCE_ID |-> p1, IDENTITY_ENDPOINT |-> "imds"]

MCHosts == {w @@ p : w \in Ways, p \in Places \cup {Managed}}

Service(instance, version) ==
  [instance_id |-> instance, audience |-> Null, api_version |-> version,
   minimum_client_version |-> Null, deprecated_client_version |-> Null]

MCServices ==
  {[u \in {prod, test} |-> IF u = prod THEN s ELSE Service(p2, <<1, 1>>)] :
     s \in {Service(p1, <<1, 2>>), Service(p2, <<2, 0>>), Service(p1, <<1, 0>>),
            [Service(p1, Null) EXCEPT !.audience = "other", !.minimum_client_version = <<0, 4, 0>>],
            [Service(p1, Null) EXCEPT !.deprecated_client_version = <<0, 3, 1>>]}}

MCKnownAs == [a \in Arguments \cup {"profile"} |->
                CASE a = "endpoint" -> prod
                  [] a = "audience" -> aud
                  [] a = "expected_service_instance_id" -> p1
                  [] a = "profile" -> Profile(prod, p1)
                  [] OTHER -> Null]

MCProviderVersion == <<0, 3, 0>>
=============================================================================
