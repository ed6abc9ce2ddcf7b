-------------------------- MODULE MCOperationWait ---------------------------
(* Small instances of OperationWait for TLC.                                 *)
EXTENDS OperationWait, TLC
=============================================================================
