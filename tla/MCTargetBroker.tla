--------------------------- MODULE MCTargetBroker ---------------------------
(* Small instances of TargetBroker for TLC.                                *)
EXTENDS TargetBroker, TLC

CONSTANTS read, control, event,   \* an inspect command, an interact command, an event
          a1, a2, t1, t2, c1, c2, c3, p1, p2, o1, s1

MCNames == {read, control, event}
MCKind == [n \in MCNames |-> IF n = event THEN "event" ELSE "command"]
MCLevel == (read :> Inspect) @@ (control :> Interact) @@ (event :> Observe)

(* c1 and c2 belong to the same principal.                                 *)
NoClients == [c \in {} |-> p1]
TwoOfOnePrincipal == (c1 :> p1) @@ (c2 :> p1)
TwoRivals == (c1 :> p1) @@ (c3 :> p2)

Interactive == [level |-> Interact, allow |-> {}]
ExplicitRead == [level |-> Observe, allow |-> {read}]

Trusted == [available |-> TRUE, trusted |-> TRUE, bindings |-> {}]
Unavailable == [available |-> FALSE, trusted |-> FALSE, bindings |-> {}]
Granted(t, g, capabilities) == [target |-> t, generation |-> g, capabilities |-> capabilities]
OnFirst == [available |-> TRUE, trusted |-> FALSE, bindings |-> {Granted(t1, 1, Interactive)}]

LeaseMethodSets == {{read}, {control}}
TwoCapabilities == {Interactive, ExplicitRead}
LeaseAuthorities == {OnFirst, Unavailable}

WorkMethodSets == {{read, event}}
OneCapability == {Interactive}
WorkAuthorities == {Trusted, Unavailable}
=============================================================================
