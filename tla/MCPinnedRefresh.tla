-------------------------- MODULE MCPinnedRefresh ---------------------------
(* Small instances of PinnedRefresh for TLC.                                 *)
EXTENDS PinnedRefresh, TLC

CONSTANTS blue, green
=============================================================================
