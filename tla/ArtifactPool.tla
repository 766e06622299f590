---------------------------- MODULE ArtifactPool -----------------------------
(***************************************************************************)
(* What every artifact store promises its users: an artifact becomes       *)
(* available once, and when it has ended (read past its expiry, released,  *)
(* revoked with its target, or lost in a crash) it is never available      *)
(* again under its identifier.                                             *)
(***************************************************************************)
CONSTANT Artifacts

VARIABLES available, ended

Init == available \subseteq Artifacts /\ available = {} /\ ended = {}

Become(new, old) ==
    /\ available' = (available \ old) \cup new
    /\ ended' = ended \cup old

Next ==
    \E new \in SUBSET (Artifacts \ (available \cup ended)), old \in SUBSET available : Become(new, old)

Spec == Init /\ [][Next]_<<available, ended>>
=============================================================================
