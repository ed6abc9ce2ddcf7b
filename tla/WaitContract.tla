---------------------------- MODULE WaitContract ----------------------------
(***************************************************************************)
(* What a caller of waitForCompletion relies on: one verdict, never        *)
(* revised, and "published" only on evidence the service holds at that     *)
(* very moment.  The service moves as it likes meanwhile.                  *)
(***************************************************************************)
CONSTANTS
  Realised(_),  \* the registration is at the target generation, and ready
  Completed(_)  \* for a decommission: the service state that completes it

VARIABLES service, verdict

vars == <<service, verdict>>

Init == verdict = "waiting"

Published ==
  /\ verdict = "waiting"
  /\ verdict' = "published"
  /\ Realised(service) \/ Completed(service)
  /\ service' = service

GivesUp ==
  /\ verdict = "waiting"
  /\ verdict' \in {"timedOut", "failed", "error"}
  /\ service' = service

ServiceMoves == verdict' = verdict

Next == Published \/ GivesUp \/ ServiceMoves

Spec == Init /\ [][Next]_vars
=============================================================================
