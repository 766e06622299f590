-------------------------- MODULE MCGrantRequests --------------------------
(* Small instances of GrantRequests for TLC.                               *)
EXTENDS GrantRequests, TLC

CONSTANTS read, r1, p1, t1

MCNames == {read}
MCKind == read :> "command"
MCLevel == read :> Inspect

Inspecting == [level |-> Inspect, allow |-> {}]
OneCapability == {Inspecting}

NoDeadlines == {None}
=============================================================================
