------------------------------ MODULE LeaseLock ------------------------------
(***************************************************************************)
(* What the leases of a target broker promise to those who hold them, with *)
(* no clock, connection or directory: a lease is a lock on one generation  *)
(* of a target.  It is granted once under its identifier, on terms that    *)
(* never change; control of a generation is granted only when nobody has   *)
(* it; and a grant takes away no lease but those that have lapsed, which   *)
(* never become good again.                                                *)
(***************************************************************************)
CONSTANTS Ids,     \* lease identifiers
          Terms    \* what a lease is of: who, target, generation, methods, mode

VARIABLES
    held,      \* the terms of each lease that is held
    lapsed,    \* the held leases that are only waiting to be collected
    granted    \* the identifiers of all the leases there have been

lockVars == <<held, lapsed, granted>>

Holding == DOMAIN held

Init ==
    /\ held \in [{} -> Terms]
    /\ lapsed = {}
    /\ granted = {}

Excludes(x, y) ==
    /\ x.target = y.target /\ x.generation = y.generation
    /\ x.mode = "exclusive-control" /\ y.mode = "exclusive-control"

Grant(l, terms, gone) ==
    /\ l \notin granted
    /\ gone \subseteq lapsed
    /\ \A m \in Holding \ gone : ~Excludes(terms, held[m])
    /\ held' = [m \in (Holding \ gone) \cup {l} |-> IF m = l THEN terms ELSE held[m]]
    /\ granted' = granted \cup {l}

(* Leases end alone or together: given back, withdrawn, or with the target.*)
End(gone) ==
    /\ held' = [m \in Holding \ gone |-> held[m]]
    /\ UNCHANGED granted

(* A lease may lapse at any moment, but not become good again.             *)
Lapse ==
    /\ lapsed' \subseteq Holding'
    /\ lapsed \cap Holding' \subseteq lapsed'

Next ==
    /\ \/ \E l \in Ids, terms \in Terms, gone \in SUBSET lapsed : Grant(l, terms, gone)
       \/ \E gone \in SUBSET Holding : End(gone)
    /\ Lapse

Spec == Init /\ [][Next]_lockVars
=============================================================================
