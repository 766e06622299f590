--------------------------- MODULE MCBrowserTools ---------------------------
(* Small instances of BrowserTools for TLC.                                *)
EXTENDS BrowserTools, TLC

CONSTANTS c1, c2

\* Calls differ in nothing but their names.
Symmetric == Permutations(Calls)

\* One call at most is a batch or a selection, which to the other are several
\* short actions.
Short(c) == Len(Steps(call[c].kind)) = 1 /\ Len(Steps(call[c].kind)[1]) = 1
MCInit == Init /\ \E c \in Calls : Short(c)
MCSpec == MCInit /\ [][Next]_vars
=============================================================================
