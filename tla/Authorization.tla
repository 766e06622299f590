--------------------------- MODULE Authorization ---------------------------
(***************************************************************************)
(* Capability arithmetic of the target broker: which debugger names a      *)
(* grant allows, how several bindings of one session combine, how the      *)
(* result is cut down to what the provider's target offers, and when a     *)
(* name needs the exclusive controller lease.                              *)
(*                                                                         *)
(* Debugger names are members of Names.  The generated catalogue is the    *)
(* pair (EntryKind, EntryLevel) on the reviewed names; every other name is *)
(* unknown to the catalogue.  A capability level is its index in           *)
(* cdpCapabilityLevels: observe, inspect, interact, debug, unsafe.         *)
(***************************************************************************)
EXTENDS Naturals

CONSTANTS Names,        \* debugger command and event names
          Catalogue,    \* the names with a reviewed catalogue entry
          KernelOwned,  \* names only the bridge itself may use
          EntryKind,    \* the kind of each catalogued name
          EntryLevel    \* the level of each catalogued name

Observe == 0
Inspect == 1
Interact == 2
Debug == 3
Unsafe == 4
Levels == Observe .. Unsafe

Kinds == {"command", "event"}

ASSUME CatalogueAssumption ==
    /\ Catalogue \subseteq Names
    /\ KernelOwned \subseteq Names
    /\ EntryKind \in [Catalogue -> Kinds]
    /\ EntryLevel \in [Catalogue -> Levels]

Modes == {"shared-read", "exclusive-control"}

CapabilityGrant == [level : Levels, allow : SUBSET Names]

-----------------------------------------------------------------------------
IsCdpNameAllowed(grant, name, kind) ==
    /\ name \notin KernelOwned
    /\ name \in Catalogue => EntryKind[name] = kind
    /\ \/ name \in grant.allow
       \/ grant.level = Unsafe
       \/ name \in Catalogue /\ EntryLevel[name] =< grant.level

(* Every caller tests a lease's names against both kinds.                  *)
Allowed(grant, name) == \E kind \in Kinds : IsCdpNameAllowed(grant, name, kind)

NeedsController(grant, name) ==
    \/ name \notin Catalogue
    \/ name \in grant.allow
    \/ EntryLevel[name] >= Interact

RequiredLeaseMode(grant, names) ==
    IF \E name \in names : NeedsController(grant, name)
    THEN "exclusive-control" ELSE "shared-read"

MinimumLevel(left, right) == IF left =< right THEN left ELSE right

HighestLevel(levels) == CHOOSE l \in levels : \A m \in levels : m =< l

(* The grants of one session for one target generation, combined.          *)
CombinedGrant(grants) ==
    [level |-> HighestLevel({Observe} \cup {g.level : g \in grants}),
     allow |-> UNION {g.allow : g \in grants}]

(* Only explicit names both sides list survive, below the lower level.     *)
IntersectCapabilities(target, granted) ==
    [level |-> MinimumLevel(target.level, granted.level),
     allow |-> target.allow \cap granted.allow]
=============================================================================
