-------------------------- MODULE MCPlanAndApply ---------------------------
(* Small instances of PlanAndApply for TLC.                                  *)
EXTENDS PlanAndApply, TLC

CONSTANTS api, web, dns, DNS, kv, Kv, KV, hsm, pol, POL, alt, ungranted, std, tls, gone, ec, noexport,
          text, crypto, own, svc, host

MCCanonical == (dns :> dns) @@ (DNS :> dns) @@ (kv :> kv) @@ (Kv :> kv) @@ (KV :> KV) @@ (hsm :> hsm)
MCFolded == (pol :> pol) @@ (POL :> pol) @@ (alt :> alt) @@ (ungranted :> ungranted)
              @@ (kv :> kv) @@ (Kv :> kv) @@ (KV :> kv) @@ (hsm :> hsm)
MCUngranted == (kv :> ungranted) @@ (Kv :> ungranted) @@ (KV :> ungranted) @@ (hsm :> ungranted)

Base ==
  [name |-> api, dns_names |-> dns, key_vault_id |-> kv, certificate_name |-> Null,
   destination_id |-> Null, issuance |-> std, description |-> Null, labels |-> Null,
   verification |-> Null, deletion |-> "retain"]

Probing(ends) == [enabled |-> TRUE, endpoints |-> ends]

\* The base configuration and what an edit or two makes of it.
Edited ==
  {Base,
   [Base EXCEPT !.description = text],
   [Base EXCEPT !.description = text, !.dns_names = DNS],
   [Base EXCEPT !.key_vault_id = Kv],
   [Base EXCEPT !.key_vault_id = KV],
   [Base EXCEPT !.key_vault_id = hsm],
   [Base EXCEPT !.certificate_name = api],
   [Base EXCEPT !.certificate_name = web],
   [Base EXCEPT !.name = web, !.deletion = "delete"],
   [Base EXCEPT !.key_vault_id = KV, !.deletion = "delete"],
   [Base EXCEPT !.destination_id = POL, !.deletion = "delete"],
   [Base EXCEPT !.destination_id = pol],
   [Base EXCEPT !.destination_id = POL],
   [Base EXCEPT !.destination_id = alt],
   [Base EXCEPT !.issuance = tls, !.labels = {own}],
   [Base EXCEPT !.issuance = gone],
   [Base EXCEPT !.issuance = ec],
   [Base EXCEPT !.issuance = noexport],
   [Base EXCEPT !.issuance = noexport, !.description = crypto],
   [Base EXCEPT !.labels = {}],
   [Base EXCEPT !.verification = Probing(host)],
   [Base EXCEPT !.verification = Probing(Null), !.deletion = "acknowledged"],
   [Base EXCEPT !.verification = [enabled |-> FALSE, endpoints |-> host]]}

AllConfigs ==
  {[attributes |-> a, wait_for |-> "published"] : a \in Edited}
    \cup {[attributes |-> a, wait_for |-> "accepted"] :
            a \in {Base, [Base EXCEPT !.description = text], [Base EXCEPT !.issuance = tls]}}

\* Another owner of the same principal has other ideas of the certificate.
MCElsewhere ==
  {Base,
   [Base EXCEPT !.name = web],
   [Base EXCEPT !.key_vault_id = KV],
   [Base EXCEPT !.key_vault_id = hsm],
   [Base EXCEPT !.certificate_name = web],
   [Base EXCEPT !.issuance = tls, !.labels = {own}],
   [Base EXCEPT !.verification = Probing(host)]}

\* The default certificate name left out, and written out.
Defaulted ==
  {[attributes |-> a, wait_for |-> "published"] : a \in {Base, [Base EXCEPT !.certificate_name = api]}}

\* A description or labels, which an edit can take out again.
Described ==
  {[attributes |-> a, wait_for |-> "published"] :
     a \in {Base, [Base EXCEPT !.description = text], [Base EXCEPT !.labels = {own}]}}

Granting(id, protection) == [id |-> id, vault |-> kv, purge_protection |-> protection]

\* One grant, another one, and two that name the vault.
MCGrants ==
  {<<Granting(pol, TRUE)>>, <<Granting(alt, Null)>>,
   <<Granting(pol, TRUE), Granting(alt, FALSE)>>}
=============================================================================
