------------------------ MODULE ConditionalRegister ------------------------
(***************************************************************************)
(* What the service promises of one {namespace}/{name} key, whatever       *)
(* issuance does meanwhile: a register whose every write is a new revision *)
(* of the same record, and whose records never share an id.                *)
(***************************************************************************)
EXTENDS Naturals

CONSTANTS Specs, NoRecord

VARIABLES
  record,  \* [id, revision, spec], or NoRecord
  issued   \* how many ids have been handed out

vars == <<record, issued>>

Init ==
  /\ record \in {NoRecord} \cup {[id |-> 0, revision |-> 1, spec |-> s] : s \in Specs}
  /\ issued = 0

Insert ==
  /\ record = NoRecord
  /\ issued' = issued + 1
  /\ \E s \in Specs : record' = [id |-> issued', revision |-> 1, spec |-> s]

Replace ==
  /\ record # NoRecord
  /\ \E s \in Specs : record' = [id |-> record.id, revision |-> record.revision + 1, spec |-> s]
  /\ issued' = issued

Remove == record # NoRecord /\ record' = NoRecord /\ issued' = issued

Next == Insert \/ Replace \/ Remove

Spec == Init /\ [][Next]_vars
=============================================================================
