----------------------------- MODULE GrantLedger -----------------------------
(***************************************************************************)
(* What the grant coordinator promises of the authority it hands out, with *)
(* no store, claim, provider or clock: a ledger of the bindings in force.  *)
(* Nothing is in force but for a request that is known, so that whoever    *)
(* ends the request ends its authority; what is barred for a request is    *)
(* never bound for it again; and no step for one request gives anything to *)
(* another one or takes anything away from it.                             *)
(***************************************************************************)
CONSTANTS Requests,
          Targets

VARIABLES
    known,      \* the requests there are
    inForce,    \* the bindings in force, each of a request and a target
    barred      \* the targets that a request has lost for good

ledgerVars == <<known, inForce, barred>>

Init ==
    /\ known = {} /\ inForce = {}
    /\ barred = [r \in Requests |-> {}]

OthersKeepTheirs(r) ==
    {b \in inForce' : b.request # r} = {b \in inForce : b.request # r}

Proper(bs, lost) ==
    /\ \A b \in bs : b.target \notin lost
    /\ \A b, c \in bs : b.target = c.target => b = c

Open(r) ==
    /\ r \notin known
    /\ known' = known \cup {r}
    /\ UNCHANGED <<inForce, barred>>

(* An approval, a reconciliation or a failure settles what is bound.       *)
Settle(r) ==
    /\ r \in known
    /\ OthersKeepTheirs(r)
    /\ Proper({b \in inForce' : b.request = r}, barred[r])
    /\ UNCHANGED <<known, barred>>

Bar(r, targets) ==
    /\ r \in known
    /\ barred' = [barred EXCEPT ![r] = @ \cup targets]
    /\ inForce' \subseteq inForce
    /\ OthersKeepTheirs(r)
    /\ Proper({b \in inForce' : b.request = r}, barred[r] \cup targets)
    /\ UNCHANGED known

Forget(r) ==
    /\ r \in known
    /\ known' = known \ {r}
    /\ inForce' = {b \in inForce : b.request # r}
    /\ barred' = [barred EXCEPT ![r] = {}]

(* The session ends, and everything that was granted to it.                *)
End ==
    /\ inForce' = {}
    /\ UNCHANGED <<known, barred>>

Next ==
    \/ End
    \/ \E r \in Requests : \/ Open(r) \/ Settle(r) \/ Forget(r)
                           \/ \E targets \in SUBSET Targets : Bar(r, targets)

Spec == Init /\ [][Next]_ledgerVars
=============================================================================
