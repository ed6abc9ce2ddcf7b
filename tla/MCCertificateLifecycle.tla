---------------------- MODULE MCCertificateLifecycle -----------------------
(* Small instances of CertificateLifecycle for TLC.                          *)
EXTENDS CertificateLifecycle, TLC

CONSTANTS w1, w2, i1, i2, caller, other

\* Plans for the longer run: nothing but the default wait_for.
WaitingPlans == {p \in Plan : p.wait_for = "published"}

\* Plans for the run without symmetry: every policy is retain, and
\* accepted comes with one of the issuances.
RetainPlans ==
  {p \in Plan : /\ p.spec.deletion_policy = "retain"
                /\ p.wait_for = "published" \/ p.spec.issuance = i1}

WorkspaceSymmetry == Permutations({w1, w2}) \cup Permutations({i1, i2})
=============================================================================
