-------------------------- MODULE MCLogicalSessions --------------------------
(* Small instances of LogicalSessions for TLC.                             *)
EXTENDS LogicalSessions, TLC

CONSTANTS c1, c2, c3, b1

NeverExpiring == b1 :> None
ExpiringAtOne == b1 :> 1
=============================================================================
