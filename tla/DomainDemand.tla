----------------------------- MODULE DomainDemand -----------------------------
(***************************************************************************)
(* How many holders keep one debugger domain of one target generation      *)
(* active.  The broker counts them; the first holder makes the provider's  *)
(* executor activate the domain and the last one makes it deactivate it.   *)
(*                                                                         *)
(* Holders are leases that have executed a command of the domain, event    *)
(* subscriptions, and the automation provider on behalf of a principal.    *)
(* Activating is asynchronous: the first holder waits for it, a later one  *)
(* does not.  Counts of different targets, generations, child sessions and *)
(* domains never meet, so there is one of them here.                       *)
(***************************************************************************)
EXTENDS Naturals, FiniteSets

CONSTANTS
    Leases,
    Subscriptions,
    Users,              \* the keys of automationDomainDemandsByKey
    Calls,              \* calls of the automation context's setDomainDemand
    None,
    SharedFailures      \* an activation may fail when others rely on it too

ASSUME HoldersAssumption ==
    /\ \A holders \in {Leases, Subscriptions, Users, Calls} : IsFiniteSet(holders)
    /\ SharedFailures \in BOOLEAN
    /\ None \notin Users

VARIABLES
    published,      \* the target generation is in the directory
    count,          \* its entry of domainDemandCountsByKey, 0 when absent
    asked,          \* the executor was last asked to activate the domain
                    \* and did not refuse
    lease,          \* each lease's entry of leaseDomainDemandsByLeaseId
    subscription,   \* each subscription, from the call of subscribe on
    automation,     \* the users with an entry in automationDomainDemandsByKey
    call            \* the user each enabling call is for, and what it awaits

holders == <<lease, subscription, automation, call>>
vars == <<published, count, asked, holders>>

NoCall == [phase |-> "none", user |-> None]

(* An "activating" holder awaits the activation it caused; a "joining" one *)
(* came later and awaits nothing but its turn.  A lease that caused it and *)
(* has seen it done is "activated"; one that came later is "held" at once. *)
(* Deleted, they are "leaving" or "departing" until the activation's       *)
(* promise has run their callback.                                         *)
LeasePhases == {"none", "activating", "activated", "held", "leaving", "departing"}

TypeOK ==
    /\ published \in BOOLEAN /\ asked \in BOOLEAN
    /\ count \in Nat
    /\ lease \in [Leases -> LeasePhases]
    /\ subscription \in [Subscriptions -> {"none", "activating", "joining", "open"}]
    /\ automation \subseteq Users
    /\ call \in [Calls -> [phase : {"none", "activating", "joining"}, user : Users \cup {None}]]

Init ==
    /\ published = TRUE /\ count = 0 /\ asked = FALSE
    /\ lease = [l \in Leases |-> "none"]
    /\ subscription = [s \in Subscriptions |-> "none"]
    /\ automation = {}
    /\ call = [c \in Calls |-> NoCall]

-----------------------------------------------------------------------------
(* incrementDomainDemand, with the promise it returns: the target's        *)
(* executor is gone once the target is revoked.                            *)
Increment ==
    /\ count' = count + 1
    /\ asked' = (asked \/ (count = 0 /\ published))
    /\ UNCHANGED published

Awaiting == IF count = 0 /\ published THEN "activating" ELSE "joining"

(* decrementDomainDemand                                                   *)
DecrementEarly ==
    /\ count' = IF count =< 1 THEN 0 ELSE count - 1
    /\ asked' = (asked /\ ~(count =< 2 /\ published))
    /\ UNCHANGED published

Decrement ==
    /\ count' = IF count =< 1 THEN 0 ELSE count - 1
    /\ asked' = (asked /\ ~(count =< 1 /\ published))
    /\ UNCHANGED published

Held == {l \in Leases : lease[l] \in {"activated", "held"}}
Joined == {l \in Leases : lease[l] = "held"}
Open == {s \in Subscriptions : subscription[s] = "open"}

(* A command of lease l: its first one in the domain.                      *)
UseLease(l) ==
    /\ published /\ lease[l] = "none"
    /\ Increment
    /\ lease' = [lease EXCEPT ![l] = IF count = 0 THEN "activating" ELSE "held"]
    /\ UNCHANGED <<subscription, automation, call>>

LeaseActivated(l) ==
    /\ lease[l] = "activating"
    /\ lease' = [lease EXCEPT ![l] = "activated"]
    /\ UNCHANGED <<published, count, asked, subscription, automation, call>>

(* releaseLeaseDomainDemands, when the lease is deleted for any reason     *)
Released(phase) ==
    CASE phase = "held" -> "none"
      [] phase = "activated" -> "departing"
      [] phase = "activating" -> "leaving"
      [] OTHER -> phase

ReleaseLease(l) ==
    /\ published /\ lease[l] \in {"activating", "activated", "held"}
    /\ IF lease[l] = "held" THEN Decrement ELSE UNCHANGED <<published, count, asked>>
    /\ lease' = [lease EXCEPT ![l] = Released(@)]
    /\ UNCHANGED <<subscription, automation, call>>

(* The callback on the activation of a deleted lease                       *)
LeaseGone(l) ==
    /\ lease[l] \in {"leaving", "departing"}
    /\ Decrement
    /\ lease' = [lease EXCEPT ![l] = "none"]
    /\ UNCHANGED <<subscription, automation, call>>

(* subscribe, up to its await and after it                                 *)
Subscribe(s) ==
    /\ published /\ subscription[s] = "none"
    /\ Increment
    /\ subscription' = [subscription EXCEPT ![s] = Awaiting]
    /\ UNCHANGED <<lease, automation, call>>

SubscriptionOpens(s) ==
    /\ subscription[s] \in {"activating", "joining"}
    /\ subscription' = [subscription EXCEPT ![s] = "open"]
    /\ UNCHANGED <<published, count, asked, lease, automation, call>>

CloseSubscriptionUncounted(s) ==
    /\ subscription[s] = "open"
    /\ subscription' = [subscription EXCEPT ![s] = "none"]
    /\ UNCHANGED <<published, count, asked, lease, automation, call>>

CloseSubscription(s) ==
    /\ subscription[s] = "open"
    /\ Decrement
    /\ subscription' = [subscription EXCEPT ![s] = "none"]
    /\ UNCHANGED <<lease, automation, call>>

(* setDomainDemand of the automation context.  The map is read before the  *)
(* await and written after it; an automation provider is taken to enable a *)
(* domain once at a time.  An operation may outlive its target.            *)
Enabling(u) == \E c \in Calls : call[c].user = u

Enable(c, u) ==
    /\ call[c] = NoCall /\ u \notin automation
    /\ ~Enabling(u)
    /\ Increment
    /\ call' = [call EXCEPT ![c] = [phase |-> Awaiting, user |-> u]]
    /\ UNCHANGED <<lease, subscription, automation>>

Enabled(c) ==
    /\ call[c] # NoCall
    /\ automation' = automation \cup {call[c].user}
    /\ call' = [call EXCEPT ![c] = NoCall]
    /\ UNCHANGED <<published, count, asked, lease, subscription>>

Disable(u) ==
    /\ u \in automation
    /\ Decrement
    /\ automation' = automation \ {u}
    /\ UNCHANGED <<lease, subscription, call>>

-----------------------------------------------------------------------------
(* The executor rejects the activation: the count goes, whoever else had   *)
(* been counted since and whoever waits.                                   *)
ActivationFails ==
    /\ count =< 1 \/ SharedFailures
    /\ \/ \E l \in Leases : /\ lease[l] \in {"activating", "leaving"}
                            /\ lease' = [lease EXCEPT ![l] = "none"]
                            /\ UNCHANGED <<subscription, call>>
       \/ \E s \in Subscriptions : /\ subscription[s] = "activating"
                                   /\ subscription' = [subscription EXCEPT ![s] = "none"]
                                   /\ UNCHANGED <<lease, call>>
       \/ \E c \in Calls : /\ call[c].phase = "activating"
                           /\ call' = [call EXCEPT ![c] = NoCall]
                           /\ UNCHANGED <<lease, subscription>>
    /\ count' = 0 /\ asked' = FALSE
    /\ UNCHANGED <<published, automation>>

(* revokeTarget: every holder on record goes, which decrements the count   *)
(* and may deactivate the domain; then the executor and the count go.      *)
RevokeTarget ==
    LET settled == Cardinality(Joined) + Cardinality(Open) + Cardinality(automation)
    IN  /\ published
        /\ published' = FALSE /\ count' = 0
        /\ asked' = (asked /\ ~(settled > 0 /\ settled >= count))
        /\ lease' = [l \in Leases |-> Released(lease[l])]
        /\ subscription' = [s \in Subscriptions |->
               IF subscription[s] = "open" THEN "none" ELSE subscription[s]]
        /\ automation' = {}
        /\ UNCHANGED call

Next ==
    \/ \E l \in Leases : UseLease(l) \/ LeaseActivated(l) \/ ReleaseLease(l) \/ LeaseGone(l)
    \/ \E s \in Subscriptions : Subscribe(s) \/ SubscriptionOpens(s) \/ CloseSubscription(s)
    \/ \E c \in Calls : Enabled(c) \/ \E u \in Users : Enable(c, u)
    \/ \E u \in Users : Disable(u)
    \/ ActivationFails
    \/ RevokeTarget

Spec == Init /\ [][Next]_vars
-----------------------------------------------------------------------------
Settled == Held # {} \/ Open # {} \/ automation # {}

Free ==
    /\ \A l \in Leases : lease[l] = "none"
    /\ \A s \in Subscriptions : subscription[s] = "none"
    /\ automation = {}
    /\ \A c \in Calls : call[c] = NoCall

(* As long as a lease, a subscription or an automation user relies on the  *)
(* domain, the executor is asked to keep it active, in whatever order      *)
(* holders come, wait and go.                                              *)
EnabledWhileHeld == published /\ Settled => asked

(* Once the last holder has gone the executor has been asked to deactivate *)
(* the domain: no interleaving of waiting and leaving leaks a count.       *)
DisabledWhenFree == published /\ Free => ~asked

(* ARCHITECTURE.md: the domain demand is acquired on first use and         *)
(* released "with the last lease".  A holder that leaves does not make the *)
(* executor deactivate the domain while another relies on it.              *)
ReleasedWithLast ==
    [][asked /\ ~asked' /\ published' => ActivationFails \/ ~Settled']_vars
=============================================================================
