--------------------------- MODULE AutomationProofs ---------------------------
(***************************************************************************)
(* Proofs about what works on one target.                                  *)
(*                                                                         *)
(* The demand count of a domain is exact: it is the number of holders that *)
(* wait for the domain or have it, for any sets of leases, subscriptions   *)
(* and automation users, as long as an activation only fails for one that  *)
(* is alone in asking for it.                                              *)
(*                                                                         *)
(* The element handles the broker holds are of the published target, and   *)
(* the load a navigation reports is of a newer document: theorems of       *)
(* MCSpec, for any operations, calls, documents and renewals.              *)
(***************************************************************************)
EXTENDS MCAutomation, FiniteSetTheorems, TLAPS

-----------------------------------------------------------------------------
(* The inductive invariant                                                 *)

(* Calls under way are for different users, none of whom has the domain.   *)
UsersApart ==
    \A c \in Calls : call[c] # NoCall =>
        /\ call[c].user \in Users \ automation
        /\ \A d \in Calls : call[d].user = call[c].user => d = c

CountedLeases == {l \in Leases : lease[l] # "none"}
CountedSubscriptions == {s \in Subscriptions : subscription[s] # "none"}
CountedCalls == {c \in Calls : call[c] # NoCall}

Total == Cardinality(CountedLeases) + Cardinality(CountedSubscriptions)
         + Cardinality(automation) + Cardinality(CountedCalls)

CountExact == published => count = Total

AskedWhileCounted == published => (asked <=> count > 0)

IInv == TypeOK /\ UsersApart /\ CountExact /\ AskedWhileCounted

-----------------------------------------------------------------------------
(* Counting                                                                *)

(* All the sets that are counted are finite.                               *)
LEMMA CountedFinite ==
    ASSUME TypeOK
    PROVE  /\ IsFiniteSet(CountedLeases) /\ IsFiniteSet(CountedSubscriptions)
           /\ IsFiniteSet(automation) /\ IsFiniteSet(CountedCalls)
<1>1. IsFiniteSet(Leases) /\ IsFiniteSet(Subscriptions) /\ IsFiniteSet(Users) /\ IsFiniteSet(Calls)
    BY HoldersAssumption
<1>2. /\ CountedLeases \in SUBSET Leases /\ CountedSubscriptions \in SUBSET Subscriptions
      /\ automation \in SUBSET Users /\ CountedCalls \in SUBSET Calls
    BY DEF TypeOK, CountedLeases, CountedSubscriptions, CountedCalls
<1> QED
    BY <1>1, <1>2, FS_Subset

(* The count is a natural number, and zero only when nobody holds.         *)
LEMMA TotalCounts ==
    ASSUME TypeOK
    PROVE  /\ Cardinality(CountedLeases) \in Nat /\ Cardinality(CountedSubscriptions) \in Nat
           /\ Cardinality(automation) \in Nat /\ Cardinality(CountedCalls) \in Nat
           /\ Total \in Nat
           /\ Total = 0 => /\ CountedLeases = {} /\ CountedSubscriptions = {}
                           /\ automation = {} /\ CountedCalls = {}
           /\ (/\ CountedLeases = {} /\ CountedSubscriptions = {}
               /\ automation = {} /\ CountedCalls = {}) => Total = 0
<1>1. /\ Cardinality(CountedLeases) \in Nat /\ Cardinality(CountedSubscriptions) \in Nat
      /\ Cardinality(automation) \in Nat /\ Cardinality(CountedCalls) \in Nat
    BY CountedFinite, FS_CardinalityType
<1>2. /\ Cardinality(CountedLeases) = 0 <=> CountedLeases = {}
      /\ Cardinality(CountedSubscriptions) = 0 <=> CountedSubscriptions = {}
      /\ Cardinality(automation) = 0 <=> automation = {}
      /\ Cardinality(CountedCalls) = 0 <=> CountedCalls = {}
    BY CountedFinite, FS_EmptySet
<1>3. /\ Total \in Nat
      /\ Total = 0 <=> /\ Cardinality(CountedLeases) = 0 /\ Cardinality(CountedSubscriptions) = 0
                       /\ Cardinality(automation) = 0 /\ Cardinality(CountedCalls) = 0
    BY <1>1 DEF Total
<1> QED
    BY <1>1, <1>2, <1>3

(* Somebody comes, goes, or only changes what it waits for.                *)
LEMMA Coming ==
    ASSUME IInv, Increment, Total' = Total + 1
    PROVE  CountExact' /\ AskedWhileCounted'
<1>1. Total \in Nat
    BY TotalCounts DEF IInv
<1> QED
    BY <1>1 DEF IInv, TypeOK, Increment, CountExact, AskedWhileCounted

LEMMA Going ==
    ASSUME IInv, Decrement, Total # 0, Total' = Total - 1
    PROVE  CountExact' /\ AskedWhileCounted'
<1>1. Total \in Nat
    BY TotalCounts DEF IInv
<1>2. CountExact'
    BY <1>1 DEF IInv, TypeOK, Decrement, CountExact
<1>3. AskedWhileCounted'
    <2>1. published => count > 0 /\ (count' > 0 <=> ~(count =< 1))
        BY <1>1 DEF IInv, TypeOK, Decrement, CountExact
    <2>2. published => asked
        BY <2>1, Zenon DEF IInv, AskedWhileCounted
    <2>3. published' = published /\ asked' = (asked /\ ~(count =< 1 /\ published))
        BY DEF Decrement
    <2> QED
        BY <2>1, <2>2, <2>3, Zenon DEF AskedWhileCounted
<1> QED
    BY <1>2, <1>3

LEMMA Staying ==
    ASSUME IInv, UNCHANGED <<published, count, asked>>, Total' = Total
    PROVE  CountExact' /\ AskedWhileCounted'
BY DEF IInv, CountExact, AskedWhileCounted

-----------------------------------------------------------------------------
(* Steps                                                                   *)

(* What every step leaves well typed, given how it changes the count.      *)
LEMMA CountType ==
    ASSUME TypeOK, Increment \/ Decrement \/ UNCHANGED <<published, count, asked>>
    PROVE  published' \in BOOLEAN /\ asked' \in BOOLEAN /\ count' \in Nat
<1>1. CASE Increment
    BY <1>1 DEF TypeOK, Increment
<1>2. CASE Decrement
    BY <1>2 DEF TypeOK, Decrement
<1>3. CASE UNCHANGED <<published, count, asked>>
    BY <1>3 DEF TypeOK
<1> QED
    BY <1>1, <1>2, <1>3

LEMMA LeaseStepKeeps ==
    ASSUME IInv, NEW l \in Leases,
           UseLease(l) \/ LeaseActivated(l) \/ ReleaseLease(l) \/ LeaseGone(l)
    PROVE  IInv'
<1> DEFINE rest == Cardinality(CountedSubscriptions) + Cardinality(automation)
                   + Cardinality(CountedCalls)
<1>1. UNCHANGED <<subscription, automation, call>>
    BY DEF UseLease, LeaseActivated, ReleaseLease, LeaseGone
<1>2. PICK phase \in LeasePhases : lease' = [lease EXCEPT ![l] = phase]
    <2>1. CASE ReleaseLease(l)
        <3>1. lease[l] \in {"activating", "activated", "held"}
            BY <2>1 DEF ReleaseLease
        <3>2. Released(lease[l]) \in {"none", "departing", "leaving"}
            BY <3>1, Zenon DEF Released
        <3> QED
            BY <2>1, <3>2 DEF ReleaseLease, LeasePhases
    <2> QED
        BY <2>1 DEF UseLease, LeaseActivated, LeaseGone, LeasePhases
<1>3. TypeOK' /\ UsersApart'
    <2>1. published' \in BOOLEAN /\ asked' \in BOOLEAN /\ count' \in Nat
        <3>1. Increment \/ Decrement \/ UNCHANGED <<published, count, asked>>
            BY DEF UseLease, LeaseActivated, ReleaseLease, LeaseGone
        <3> QED
            BY <3>1, CountType DEF IInv
    <2> QED
        BY <1>1, <1>2, <2>1 DEF IInv, TypeOK, UsersApart
<1>4. UNCHANGED <<CountedSubscriptions, CountedCalls>>
    BY <1>1 DEF CountedSubscriptions, CountedCalls
<1>5. /\ UNCHANGED <<Cardinality(CountedSubscriptions), Cardinality(automation),
                     Cardinality(CountedCalls)>>
      /\ Cardinality(CountedLeases) \in Nat /\ rest \in Nat
    BY <1>1, <1>4, TotalCounts DEF IInv
<1>6. IsFiniteSet(CountedLeases) /\ lease \in [Leases -> LeasePhases]
    BY CountedFinite DEF IInv, TypeOK
<1>7. ASSUME lease[l] = "none", phase # "none" PROVE Total' = Total + 1
    <2>1. CountedLeases' = CountedLeases \cup {l} /\ l \notin CountedLeases
        BY <1>2, <1>6, <1>7 DEF CountedLeases
    <2>2. Cardinality(CountedLeases') = Cardinality(CountedLeases) + 1
        BY <1>6, <2>1, FS_AddElement
    <2> QED
        BY <1>5, <2>2, TotalCounts DEF Total, IInv
<1>8. ASSUME lease[l] # "none", phase = "none" PROVE Total # 0 /\ Total' = Total - 1
    <2>1. CountedLeases' = CountedLeases \ {l} /\ l \in CountedLeases
        BY <1>2, <1>6, <1>8 DEF CountedLeases
    <2>2. Cardinality(CountedLeases') = Cardinality(CountedLeases) - 1
        BY <1>6, <2>1, FS_RemoveElement
    <2>3. Total # 0
        BY <2>1, TotalCounts DEF IInv
    <2> QED
        BY <1>5, <2>2, <2>3, TotalCounts DEF Total, IInv
<1>9. ASSUME lease[l] # "none", phase # "none" PROVE Total' = Total
    <2>1. CountedLeases' = CountedLeases
        BY <1>2, <1>6, <1>9 DEF CountedLeases
    <2> QED
        BY <1>5, <2>1 DEF Total
<1>10. CountExact' /\ AskedWhileCounted'
    <2>1. CASE UseLease(l)
        BY <1>2, <1>6, <1>7, <2>1, Coming DEF UseLease
    <2>2. CASE LeaseActivated(l)
        BY <1>2, <1>6, <1>9, <2>2, Staying DEF LeaseActivated
    <2>3. CASE ReleaseLease(l) /\ lease[l] = "held"
        <3>1. Released(lease[l]) = "none"
            BY <2>3, Zenon DEF Released
        <3> QED
            BY <1>2, <1>6, <1>8, <2>3, <3>1, Going DEF ReleaseLease
    <2>4. CASE ReleaseLease(l) /\ lease[l] # "held"
        <3>1. lease[l] \in {"activating", "activated"}
            BY <2>4 DEF ReleaseLease
        <3>2. Released(lease[l]) \in {"departing", "leaving"}
            BY <3>1, Zenon DEF Released
        <3> QED
            BY <1>2, <1>6, <1>9, <2>4, <3>1, <3>2, Staying DEF ReleaseLease
    <2>5. CASE LeaseGone(l)
        BY <1>2, <1>6, <1>8, <2>5, Going DEF LeaseGone
    <2> QED
        BY <2>1, <2>2, <2>3, <2>4, <2>5
<1> QED
    BY <1>3, <1>10 DEF IInv

LEMMA SubscriptionStepKeeps ==
    ASSUME IInv, NEW s \in Subscriptions,
           Subscribe(s) \/ SubscriptionOpens(s) \/ CloseSubscription(s)
    PROVE  IInv'
<1> DEFINE phases == {"none", "activating", "joining", "open"}
<1>1. UNCHANGED <<lease, automation, call>>
    BY DEF Subscribe, SubscriptionOpens, CloseSubscription
<1>2. PICK phase \in phases : subscription' = [subscription EXCEPT ![s] = phase]
    BY DEF Subscribe, SubscriptionOpens, CloseSubscription, Awaiting
<1>3. TypeOK' /\ UsersApart'
    <2>1. Increment \/ Decrement \/ UNCHANGED <<published, count, asked>>
        BY DEF Subscribe, SubscriptionOpens, CloseSubscription
    <2>2. published' \in BOOLEAN /\ asked' \in BOOLEAN /\ count' \in Nat
        BY <2>1, CountType DEF IInv
    <2> QED
        BY <1>1, <1>2, <2>2 DEF IInv, TypeOK, UsersApart
<1>4. UNCHANGED <<CountedLeases, CountedCalls>>
    BY <1>1 DEF CountedLeases, CountedCalls
<1>5. /\ UNCHANGED <<Cardinality(CountedLeases), Cardinality(automation), Cardinality(CountedCalls)>>
      /\ Cardinality(CountedLeases) \in Nat /\ Cardinality(CountedSubscriptions) \in Nat
      /\ Cardinality(automation) \in Nat /\ Cardinality(CountedCalls) \in Nat
    BY <1>1, <1>4, TotalCounts DEF IInv
<1>6. IsFiniteSet(CountedSubscriptions) /\ subscription \in [Subscriptions -> phases]
    BY CountedFinite DEF IInv, TypeOK
<1>7. CASE Subscribe(s)
    <2>1. subscription[s] = "none" /\ subscription'[s] # "none" /\ Increment
        BY <1>6, <1>7 DEF Subscribe, Awaiting
    <2>2. CountedSubscriptions' = CountedSubscriptions \cup {s} /\ s \notin CountedSubscriptions
        BY <1>2, <1>6, <2>1 DEF CountedSubscriptions
    <2>3. Cardinality(CountedSubscriptions') = Cardinality(CountedSubscriptions) + 1
        BY <1>6, <2>2, FS_AddElement
    <2>4. Total' = Total + 1
        BY <1>5, <2>3 DEF Total
    <2> QED
        BY <1>3, <2>1, <2>4, Coming DEF IInv
<1>8. CASE SubscriptionOpens(s)
    <2>1. CountedSubscriptions' = CountedSubscriptions
        BY <1>6, <1>8 DEF CountedSubscriptions, SubscriptionOpens
    <2>2. Total' = Total
        BY <1>5, <2>1 DEF Total
    <2> QED
        BY <1>3, <1>8, <2>2, Staying DEF IInv, SubscriptionOpens
<1>9. CASE CloseSubscription(s)
    <2>1. CountedSubscriptions' = CountedSubscriptions \ {s} /\ s \in CountedSubscriptions
        BY <1>6, <1>9 DEF CountedSubscriptions, CloseSubscription
    <2>2. Cardinality(CountedSubscriptions') = Cardinality(CountedSubscriptions) - 1
        BY <1>6, <2>1, FS_RemoveElement
    <2>3. Total # 0
        BY <2>1, TotalCounts DEF IInv
    <2>4. Total' = Total - 1
        BY <1>5, <2>2 DEF Total
    <2> QED
        BY <1>3, <1>9, <2>3, <2>4, Going DEF IInv, CloseSubscription
<1> QED
    BY <1>7, <1>8, <1>9

LEMMA EnableKeeps ==
    ASSUME IInv, NEW c \in Calls, NEW u \in Users, Enable(c, u)
    PROVE  IInv'
<1>1. /\ UNCHANGED <<lease, subscription, automation>> /\ Increment
      /\ call[c] = NoCall /\ u \notin automation
      /\ \A d \in Calls : call[d].user # u
    BY DEF Enable, Enabling
<1>2. PICK phase \in {"activating", "joining"} :
          call' = [call EXCEPT ![c] = [phase |-> phase, user |-> u]]
    BY DEF Enable, Awaiting
<1>3. [phase |-> phase, user |-> u] # NoCall /\ NoCall.user = None /\ u # None
    BY HoldersAssumption DEF NoCall
<1>4. TypeOK'
    <2>1. published' \in BOOLEAN /\ asked' \in BOOLEAN /\ count' \in Nat
        BY <1>1, CountType DEF IInv
    <2> QED
        BY <1>1, <1>2, <2>1 DEF IInv, TypeOK
<1>5. UsersApart'
    BY <1>1, <1>2, <1>3 DEF IInv, TypeOK, UsersApart
<1>6. CountedCalls' = CountedCalls \cup {c} /\ c \notin CountedCalls
    BY <1>1, <1>2, <1>3 DEF IInv, TypeOK, CountedCalls
<1>7. Cardinality(CountedCalls') = Cardinality(CountedCalls) + 1
    BY <1>6, CountedFinite, FS_AddElement DEF IInv
<1>8. UNCHANGED <<Cardinality(CountedLeases), Cardinality(CountedSubscriptions),
                  Cardinality(automation)>>
    BY <1>1 DEF CountedLeases, CountedSubscriptions
<1>9. /\ Cardinality(CountedLeases) \in Nat /\ Cardinality(CountedSubscriptions) \in Nat
      /\ Cardinality(automation) \in Nat /\ Cardinality(CountedCalls) \in Nat
    BY TotalCounts DEF IInv
<1>10. Total' = Total + 1
    BY <1>7, <1>8, <1>9 DEF Total
<1> QED
    BY <1>1, <1>4, <1>5, <1>10, Coming DEF IInv

(* The user of the call takes the place of the call in the count.          *)
LEMMA EnabledKeeps ==
    ASSUME IInv, NEW c \in Calls, Enabled(c)
    PROVE  IInv'
<1>1. /\ UNCHANGED <<published, count, asked, lease, subscription>>
      /\ call[c] # NoCall /\ call[c].user \in Users /\ call[c].user \notin automation
      /\ automation' = automation \cup {call[c].user}
      /\ call' = [call EXCEPT ![c] = NoCall]
    BY DEF IInv, UsersApart, Enabled
<1>2. TypeOK'
    BY <1>1 DEF IInv, TypeOK, NoCall
<1>3. UsersApart'
    <2> SUFFICES ASSUME NEW d \in Calls, call'[d] # NoCall
                 PROVE  /\ call'[d].user \in Users \ automation'
                        /\ \A e \in Calls : call'[e].user = call'[d].user => e = d
        BY DEF UsersApart
    <2>1. d # c /\ call'[d] = call[d] /\ call[d] # NoCall
        BY <1>1 DEF IInv, TypeOK
    <2>2. call[d].user \in Users \ automation /\ call[d].user # call[c].user
        BY <1>1, <2>1 DEF IInv, UsersApart
    <2>3. ASSUME NEW e \in Calls, call'[e].user = call'[d].user PROVE e = d
        <3>1. e # c
            BY <1>1, <2>1, <2>2, <2>3, HoldersAssumption DEF IInv, TypeOK, NoCall
        <3>2. call'[e] = call[e]
            BY <1>1, <3>1 DEF IInv, TypeOK
        <3> QED
            BY <2>1, <2>3, <3>2 DEF IInv, UsersApart
    <2> QED
        BY <1>1, <2>1, <2>2, <2>3
<1>4. CountedCalls' = CountedCalls \ {c} /\ c \in CountedCalls
    BY <1>1 DEF IInv, TypeOK, CountedCalls
<1>5. /\ Cardinality(CountedCalls') = Cardinality(CountedCalls) - 1
      /\ Cardinality(automation') = Cardinality(automation) + 1
    BY <1>1, <1>4, CountedFinite, FS_RemoveElement, FS_AddElement DEF IInv
<1>6. UNCHANGED <<Cardinality(CountedLeases), Cardinality(CountedSubscriptions)>>
    BY <1>1 DEF CountedLeases, CountedSubscriptions
<1>7. /\ Cardinality(CountedLeases) \in Nat /\ Cardinality(CountedSubscriptions) \in Nat
      /\ Cardinality(automation) \in Nat /\ Cardinality(CountedCalls) \in Nat
    BY TotalCounts DEF IInv
<1>8. Total' = Total
    BY <1>5, <1>6, <1>7 DEF Total
<1> QED
    BY <1>1, <1>2, <1>3, <1>8, Staying DEF IInv

LEMMA DisableKeeps ==
    ASSUME IInv, NEW u \in Users, Disable(u)
    PROVE  IInv'
<1>1. /\ UNCHANGED <<lease, subscription, call>> /\ Decrement
      /\ u \in automation /\ automation' = automation \ {u}
    BY DEF Disable
<1>2. TypeOK'
    <2>1. published' \in BOOLEAN /\ asked' \in BOOLEAN /\ count' \in Nat
        BY <1>1, CountType DEF IInv
    <2> QED
        BY <1>1, <2>1 DEF IInv, TypeOK
<1>3. UsersApart'
    BY <1>1 DEF IInv, UsersApart
<1>4. Cardinality(automation') = Cardinality(automation) - 1
    BY <1>1, CountedFinite, FS_RemoveElement DEF IInv
<1>5. UNCHANGED <<Cardinality(CountedLeases), Cardinality(CountedSubscriptions),
                  Cardinality(CountedCalls)>>
    BY <1>1 DEF CountedLeases, CountedSubscriptions, CountedCalls
<1>6. /\ Cardinality(CountedLeases) \in Nat /\ Cardinality(CountedSubscriptions) \in Nat
      /\ Cardinality(automation) \in Nat /\ Cardinality(CountedCalls) \in Nat
    BY TotalCounts DEF IInv
<1>7. Total' = Total - 1
    BY <1>4, <1>5, <1>6 DEF Total
<1>8. Total # 0
    BY <1>1, TotalCounts DEF IInv
<1> QED
    BY <1>1, <1>2, <1>3, <1>7, <1>8, Going DEF IInv

(* Once the target is revoked its count says nothing any more.             *)
LEMMA RevokeTargetKeeps ==
    ASSUME IInv, RevokeTarget
    PROVE  IInv'
<1>1. lease' \in [Leases -> LeasePhases]
    <2>1. ASSUME NEW l \in Leases PROVE Released(lease[l]) \in LeasePhases
        <3>1. CASE lease[l] \in {"held", "activated", "activating"}
            BY <3>1, Zenon DEF Released, LeasePhases
        <3>2. CASE lease[l] \notin {"held", "activated", "activating"}
            <4>1. Released(lease[l]) = lease[l]
                BY <3>2, Zenon DEF Released
            <4> QED
                BY <4>1 DEF IInv, TypeOK
        <3> QED
            BY <3>1, <3>2
    <2> QED
        BY <2>1 DEF RevokeTarget
<1>2. published' = FALSE /\ count' = 0 /\ asked' \in BOOLEAN /\ automation' = {} /\ call' = call
    BY DEF RevokeTarget, IInv, TypeOK
<1>3. subscription' \in [Subscriptions -> {"none", "activating", "joining", "open"}]
    BY DEF RevokeTarget, IInv, TypeOK
<1>4. TypeOK'
    BY <1>1, <1>2, <1>3 DEF IInv, TypeOK
<1>5. UsersApart'
    BY <1>2 DEF IInv, UsersApart
<1> QED
    BY <1>2, <1>4, <1>5 DEF IInv, CountExact, AskedWhileCounted

(* The one that fails was alone: the count that is deleted was its own.    *)
LEMMA ActivationFailsKeeps ==
    ASSUME IInv, ActivationFails, ~SharedFailures
    PROVE  IInv'
<1>1. count =< 1 /\ count' = 0 /\ asked' = FALSE /\ UNCHANGED <<published, automation>>
    BY DEF ActivationFails
<1>2. /\ Cardinality(CountedLeases) \in Nat /\ Cardinality(CountedSubscriptions) \in Nat
      /\ Cardinality(automation) \in Nat /\ Cardinality(CountedCalls) \in Nat
    BY TotalCounts DEF IInv
<1>3. Cardinality(automation') = Cardinality(automation)
    BY <1>1
<1>4. TypeOK' /\ UsersApart' /\ Total # 0 /\ Total' = Total - 1
    <2>1. ASSUME NEW l \in Leases, lease[l] \in {"activating", "leaving"},
                 lease' = [lease EXCEPT ![l] = "none"], UNCHANGED <<subscription, call>>
          PROVE  TypeOK' /\ UsersApart' /\ Total # 0 /\ Total' = Total - 1
        <3>1. TypeOK' /\ UsersApart'
            BY <1>1, <2>1 DEF IInv, TypeOK, UsersApart, LeasePhases
        <3>2. CountedLeases' = CountedLeases \ {l} /\ l \in CountedLeases
            BY <2>1 DEF IInv, TypeOK, CountedLeases
        <3>3. Cardinality(CountedLeases') = Cardinality(CountedLeases) - 1
            BY <3>2, CountedFinite, FS_RemoveElement DEF IInv
        <3>4. UNCHANGED <<Cardinality(CountedSubscriptions), Cardinality(CountedCalls)>>
            BY <2>1 DEF CountedSubscriptions, CountedCalls
        <3>5. Total' = Total - 1
            BY <1>2, <1>3, <3>3, <3>4 DEF Total
        <3> QED
            BY <3>1, <3>2, <3>5, TotalCounts DEF IInv
    <2>2. ASSUME NEW s \in Subscriptions, subscription[s] = "activating",
                 subscription' = [subscription EXCEPT ![s] = "none"], UNCHANGED <<lease, call>>
          PROVE  TypeOK' /\ UsersApart' /\ Total # 0 /\ Total' = Total - 1
        <3>1. TypeOK' /\ UsersApart'
            BY <1>1, <2>2 DEF IInv, TypeOK, UsersApart
        <3>2. CountedSubscriptions' = CountedSubscriptions \ {s} /\ s \in CountedSubscriptions
            BY <2>2 DEF IInv, TypeOK, CountedSubscriptions
        <3>3. Cardinality(CountedSubscriptions') = Cardinality(CountedSubscriptions) - 1
            BY <3>2, CountedFinite, FS_RemoveElement DEF IInv
        <3>4. UNCHANGED <<Cardinality(CountedLeases), Cardinality(CountedCalls)>>
            BY <2>2 DEF CountedLeases, CountedCalls
        <3>5. Total' = Total - 1
            BY <1>2, <1>3, <3>3, <3>4 DEF Total
        <3> QED
            BY <3>1, <3>2, <3>5, TotalCounts DEF IInv
    <2>3. ASSUME NEW c \in Calls, call[c].phase = "activating",
                 call' = [call EXCEPT ![c] = NoCall], UNCHANGED <<lease, subscription>>
          PROVE  TypeOK' /\ UsersApart' /\ Total # 0 /\ Total' = Total - 1
        <3>1. call[c] # NoCall
            BY <2>3 DEF NoCall
        <3>2. TypeOK'
            BY <1>1, <2>3 DEF IInv, TypeOK, NoCall
        <3>3. UsersApart'
            BY <1>1, <2>3, HoldersAssumption DEF IInv, TypeOK, UsersApart, NoCall
        <3>4. CountedCalls' = CountedCalls \ {c} /\ c \in CountedCalls
            BY <2>3, <3>1 DEF IInv, TypeOK, CountedCalls
        <3>5. Cardinality(CountedCalls') = Cardinality(CountedCalls) - 1
            BY <3>4, CountedFinite, FS_RemoveElement DEF IInv
        <3>6. UNCHANGED <<Cardinality(CountedLeases), Cardinality(CountedSubscriptions)>>
            BY <2>3 DEF CountedLeases, CountedSubscriptions
        <3>7. Total' = Total - 1
            BY <1>2, <1>3, <3>5, <3>6 DEF Total
        <3> QED
            BY <3>2, <3>3, <3>4, <3>7, TotalCounts DEF IInv
    <2> QED
        BY <2>1, <2>2, <2>3 DEF ActivationFails
<1>5. published => Total = 1
    BY <1>1, <1>4, TotalCounts DEF IInv, TypeOK, CountExact
<1>6. published => Total' = 0
    BY <1>4, <1>5
<1> QED
    BY <1>1, <1>4, <1>6 DEF IInv, CountExact, AskedWhileCounted

LEMMA StutteringKeeps ==
    ASSUME IInv, UNCHANGED vars
    PROVE  IInv'
BY DEF IInv, TypeOK, UsersApart, CountExact, AskedWhileCounted, Total, CountedLeases,
       CountedSubscriptions, CountedCalls, vars, holders

LEMMA InitHolds ==
    ASSUME Init
    PROVE  IInv
<1>1. TypeOK /\ UsersApart
    BY DEF Init, TypeOK, UsersApart, NoCall, LeasePhases
<1>2. /\ CountedLeases = {} /\ CountedSubscriptions = {}
      /\ automation = {} /\ CountedCalls = {}
    BY DEF Init, CountedLeases, CountedSubscriptions, CountedCalls
<1>3. Total = 0
    BY <1>1, <1>2, TotalCounts
<1> QED
    BY <1>1, <1>3 DEF Init, IInv, CountExact, AskedWhileCounted

LEMMA StepKeeps ==
    ASSUME IInv, [Next]_vars, ~SharedFailures
    PROVE  IInv'
<1>1. CASE \E l \in Leases : UseLease(l) \/ LeaseActivated(l) \/ ReleaseLease(l) \/ LeaseGone(l)
    BY <1>1, LeaseStepKeeps
<1>2. CASE \E s \in Subscriptions : Subscribe(s) \/ SubscriptionOpens(s) \/ CloseSubscription(s)
    BY <1>2, SubscriptionStepKeeps
<1>3. CASE \E c \in Calls : Enabled(c) \/ \E u \in Users : Enable(c, u)
    BY <1>3, EnabledKeeps, EnableKeeps
<1>4. CASE \E u \in Users : Disable(u)
    BY <1>4, DisableKeeps
<1>5. CASE RevokeTarget
    BY <1>5, RevokeTargetKeeps
<1>6. CASE UNCHANGED vars
    BY <1>6, StutteringKeeps
<1>7. CASE ActivationFails
    BY <1>7, ActivationFailsKeeps
<1> QED
    BY <1>1, <1>2, <1>3, <1>4, <1>5, <1>6, <1>7 DEF Next

-----------------------------------------------------------------------------
(* What follows                                                            *)

LEMMA SettledIsServed ==
    ASSUME IInv
    PROVE  EnabledWhileHeld
<1> SUFFICES ASSUME published, Settled PROVE asked
    BY DEF EnabledWhileHeld
<1>1. CountedLeases # {} \/ CountedSubscriptions # {} \/ automation # {}
    BY DEF Settled, Held, Open, CountedLeases, CountedSubscriptions
<1>2. Total \in Nat /\ Total # 0
    BY <1>1, TotalCounts DEF IInv
<1>3. count > 0
    BY <1>2 DEF IInv, CountExact
<1> QED
    BY <1>3, Zenon DEF IInv, AskedWhileCounted

LEMMA FreeIsReleased ==
    ASSUME IInv
    PROVE  DisabledWhenFree
<1> SUFFICES ASSUME published, Free PROVE ~asked
    BY DEF DisabledWhenFree
<1>1. /\ CountedLeases = {} /\ CountedSubscriptions = {}
      /\ automation = {} /\ CountedCalls = {}
    BY DEF Free, CountedLeases, CountedSubscriptions, CountedCalls
<1>2. Total = 0
    BY <1>1, TotalCounts DEF IInv
<1>3. ~(count > 0)
    BY <1>2 DEF IInv, CountExact
<1> QED
    BY <1>3, Zenon DEF IInv, AskedWhileCounted

(* If an activation only fails for a holder that is alone, the domain is   *)
(* asked for as long as a lease, a subscription or an automation user of   *)
(* the published generation relies on it (incrementDomainDemand and        *)
(* decrementDomainDemand).                                                 *)
THEOREM HoldersAreServed ==
    ASSUME ~SharedFailures
    PROVE  Spec => []EnabledWhileHeld
<1>1. Init => IInv
    BY InitHolds
<1>2. IInv /\ [Next]_vars => IInv'
    BY StepKeeps
<1>3. IInv => EnabledWhileHeld
    BY SettledIsServed
<1> QED
    BY <1>1, <1>2, <1>3, PTL DEF Spec

(* Under the same condition nothing leaks: without a holder and without    *)
(* one that waits, the domain has been given back.                         *)
THEOREM NothingLeaks ==
    ASSUME ~SharedFailures
    PROVE  Spec => []DisabledWhenFree
<1>1. Init => IInv
    BY InitHolds
<1>2. IInv /\ [Next]_vars => IInv'
    BY StepKeeps
<1>3. IInv => DisabledWhenFree
    BY FreeIsReleased
<1> QED
    BY <1>1, <1>2, <1>3, PTL DEF Spec

-----------------------------------------------------------------------------
(* Element handles                                                         *)

Work == [kind : {"action", "find", "snapshot"},
         at : {"idle", "connecting", "running", "ending", "over"},
         generation : 0..MaxGenerations, provider : 0..MaxProviders, aborted : BOOLEAN,
         disposal : {"none", "closing", "done"}, wants : BOOLEAN, asks : BOOLEAN,
         outcome : {"none", "done", "failed", "cancelled"}]

WorkTypes ==
    /\ generation \in 0..MaxGenerations /\ newest \in 0..MaxGenerations
    /\ provider \in 0..MaxProviders /\ instances \in 0..MaxProviders
    /\ op \in [Operations -> Work]
    /\ handles \in SUBSET Operations

(* An operation that has begun is for a generation that was published; one *)
(* that has not been aborted is for the one that is.  A handle is held for *)
(* an operation that is over.                                              *)
Targeted(o) ==
    /\ op[o].at # "idle" => op[o].generation # 0
    /\ op[o].at = "idle" => ~op[o].asks /\ op[o].disposal = "none"
    /\ A!Active(o) /\ ~op[o].aborted => op[o].generation = generation

HandleOfTarget(h) == op[h].at = "over" /\ op[h].generation = generation

HandlesInv ==
    /\ WorkTypes
    /\ \A o \in Operations : Targeted(o)
    /\ \A h \in handles : HandleOfTarget(h)

(* What a step that leaves the published generation may do to operations   *)
(* and to handles.                                                         *)
Continues(o) ==
    /\ op'[o].at = op[o].at \/ op[o].at \in {"connecting", "running", "ending"}
    /\ op'[o].at # "idle" /\ op[o].at # "idle"
    /\ op'[o].generation = op[o].generation
    /\ op[o].aborted => op'[o].aborted

Starts(o) ==
    /\ op[o].at = "idle" /\ op'[o].at = "connecting" /\ op'[o].generation = generation
    /\ generation # 0

(* An operation's own step.                                                *)
OwnStep(o) ==
    \/ A!Execute(o) \/ A!Cancel(o) \/ A!Enable(o) \/ A!Enabled(o) \/ A!EnableFails(o)
    \/ A!Connected(o) \/ A!ConnectFails(o) \/ A!Disposed(o) \/ A!Answered(o)
    \/ \E outcome \in {"done", "failed"} :
         A!Snapshots(o, outcome) \/ A!Finds(o, outcome) \/ A!Performs(o, outcome)

(* It changes no other operation.                                          *)
LEMMA OwnStepIsOwn ==
    ASSUME WorkTypes, NEW o \in Operations, OwnStep(o), Targeted(o)
    PROVE  /\ op' \in [Operations -> Work]
           /\ \A q \in Operations \ {o} : op'[q] = op[q]
           /\ Starts(o) \/ Continues(o)
           /\ generation' = generation /\ newest' = newest /\ provider' = provider
           /\ instances' = instances
           /\ \/ handles' = handles
              \/ /\ handles' = handles \cup {o}
                 /\ op[o].at = "ending" /\ op'[o].at = "over" /\ ~op[o].aborted
<1> USE DEF WorkTypes, A!directory, A!resources, Targeted
<1> DEFINE w == op[o]
<1>0. w \in Work
    OBVIOUS
<1>1. CASE A!Execute(o)
  <2>1. op' = [op EXCEPT ![o] = [w EXCEPT !.at = "connecting", !.generation = generation, !.provider = provider]]
    BY <1>1 DEF A!Execute
  <2>2. [w EXCEPT !.at = "connecting", !.generation = generation, !.provider = provider] \in Work
    BY <1>0 DEF Work
  <2> QED BY <1>0, <1>1, <2>1, <2>2 DEF A!Execute, Starts, Work
<1>2. CASE A!Cancel(o)
  <2>1. [w EXCEPT !.aborted = TRUE] \in Work
    BY <1>0 DEF Work
  <2> QED BY <1>0, <1>2, <2>1 DEF A!Cancel, A!Active, Continues, Work
<1>3. CASE A!Enable(o)
  <2> PICK asks \in BOOLEAN : op' = [op EXCEPT ![o] = [w EXCEPT !.wants = TRUE, !.asks = asks]]
    BY <1>3 DEF A!Enable
  <2>1. [w EXCEPT !.wants = TRUE, !.asks = asks] \in Work
    BY <1>0 DEF Work
  <2> QED BY <1>0, <1>3, <2>1 DEF A!Enable, Continues, Work
<1>4. CASE A!Enabled(o)
  <2>1. [w EXCEPT !.asks = FALSE] \in Work
    BY <1>0 DEF Work
  <2> QED BY <1>0, <1>4, <2>1 DEF A!Enabled, Continues, Work
<1>5. CASE A!EnableFails(o)
  <2>1. [w EXCEPT !.asks = FALSE] \in Work
    BY <1>0 DEF Work
  <2> QED BY <1>0, <1>5, <2>1 DEF A!EnableFails, Continues, Work
<1>6. CASE A!Connected(o)
  <2>1. [w EXCEPT !.at = "running"] \in Work
    BY <1>0 DEF Work
  <2> QED BY <1>0, <1>6, <2>1 DEF A!Connected, Continues, Work
<1>7. CASE A!ConnectFails(o)
  <2>1. op' = [op EXCEPT ![o] = [w EXCEPT !.at = "over", !.outcome = A!Ended(o)]]
    BY <1>7 DEF A!ConnectFails
  <2>2. [w EXCEPT !.at = "over", !.outcome = A!Ended(o)] \in Work
    BY <1>0 DEF Work, A!Ended
  <2> QED BY <1>0, <1>7, <2>1, <2>2 DEF A!ConnectFails, Continues, Work
<1>8. CASE A!Disposed(o)
  <2>1. [w EXCEPT !.disposal = "done", !.wants = FALSE] \in Work
    BY <1>0 DEF Work
  <2> QED BY <1>0, <1>8, <2>1 DEF A!Disposed, Continues, Work
<1>9. CASE A!Answered(o)
  <2> PICK outcome : /\ outcome = IF w.outcome = "done" /\ ~w.aborted THEN w.outcome ELSE A!Ended(o)
    OBVIOUS
  <2>1. op' = [op EXCEPT ![o] = [w EXCEPT !.at = "over", !.outcome = outcome]]
    BY <1>9 DEF A!Answered
  <2>2. outcome \in {"done", "failed", "cancelled"} /\ (outcome = "done" => ~w.aborted)
    BY <1>0 DEF A!Ended, Work
  <2>3. [w EXCEPT !.at = "over", !.outcome = outcome] \in Work
    BY <1>0, <2>2 DEF Work
  <2>4. op'[o].outcome = outcome
    BY <1>0, <2>1 DEF Work
  <2> QED BY <1>0, <1>9, <2>1, <2>2, <2>3, <2>4 DEF A!Answered, Continues, Work
<1>10. ASSUME NEW outcome \in {"done", "failed"},
              A!Snapshots(o, outcome) \/ A!Finds(o, outcome) \/ A!Performs(o, outcome)
       PROVE  /\ op' = [op EXCEPT ![o] = [w EXCEPT !.at = "ending", !.outcome = outcome,
                          !.disposal = IF @ = "none" THEN "closing" ELSE @]]
              /\ w.at = "running" /\ UNCHANGED <<generation, newest, provider, instances, handles>>
    BY <1>10 DEF A!Snapshots, A!Finds, A!Performs, A!Acted
<1>11. ASSUME NEW outcome \in {"done", "failed"},
              A!Snapshots(o, outcome) \/ A!Finds(o, outcome) \/ A!Performs(o, outcome)
       PROVE  /\ op' \in [Operations -> Work]
              /\ \A q \in Operations \ {o} : op'[q] = op[q]
              /\ Continues(o)
  <2> DEFINE new == [w EXCEPT !.at = "ending", !.outcome = outcome,
                          !.disposal = IF @ = "none" THEN "closing" ELSE @]
  <2>1. new \in Work /\ new.at = "ending" /\ new.generation = w.generation /\ new.aborted = w.aborted
    BY <1>0 DEF Work
  <2>2. op' = [op EXCEPT ![o] = new] /\ w.at = "running"
    BY <1>10, <1>11
  <2> QED BY <2>1, <2>2 DEF Continues
<1> QED
    BY <1>1, <1>2, <1>3, <1>4, <1>5, <1>6, <1>7, <1>8, <1>9, <1>10, <1>11 DEF OwnStep

(* What it does keeps the handles on the published target.                 *)
LEMMA OwnStepKeepsHandles ==
    ASSUME HandlesInv, NEW o \in Operations, OwnStep(o)
    PROVE  HandlesInv'
<1> USE DEF HandlesInv
<1>1. Targeted(o)
    OBVIOUS
<1>2. /\ op' \in [Operations -> Work]
      /\ \A q \in Operations \ {o} : op'[q] = op[q]
      /\ Starts(o) \/ Continues(o)
      /\ generation' = generation /\ newest' = newest /\ provider' = provider
      /\ instances' = instances
      /\ \/ handles' = handles
         \/ /\ handles' = handles \cup {o}
            /\ op[o].at = "ending" /\ op'[o].at = "over" /\ ~op[o].aborted
    BY <1>1, OwnStepIsOwn
<1>3. WorkTypes'
    BY <1>2 DEF WorkTypes
<1>4. op[o] \in Work /\ op'[o] \in Work /\ (op[o].aborted => op'[o].aborted \/ Starts(o))
    BY <1>2 DEF WorkTypes, Continues
<1>5. Targeted(o)'
    BY <1>1, <1>2, <1>4 DEF Targeted, A!Active, Starts, Continues, Work
<1>6. \A q \in Operations \ {o} : Targeted(q)'
    BY <1>2 DEF Targeted, A!Active
<1>7. ASSUME NEW h \in handles', h # o PROVE HandleOfTarget(h)'
    BY <1>2, <1>7 DEF HandleOfTarget, WorkTypes
<1>8. ASSUME o \in handles' PROVE HandleOfTarget(o)'
  <2>1. CASE o \in handles
    BY <1>2, <1>5, <2>1 DEF HandleOfTarget, Starts, Continues
  <2>2. CASE o \notin handles
    BY <1>1, <1>2, <1>8, <2>2 DEF HandleOfTarget, Targeted, A!Active, Starts, Continues
  <2> QED BY <2>1, <2>2
<1> QED
    BY <1>3, <1>5, <1>6, <1>7, <1>8

(* The target and the provider                                             *)
LEMMA DisposingKeeps ==
    ASSUME WorkTypes, NEW D \in SUBSET Operations, NEW B \in SUBSET Operations
    PROVE  /\ A!Disposing(D) \in [Operations -> Work]
           /\ A!AbortedAndDisposing(B, D) \in [Operations -> Work]
           /\ \A o \in Operations :
                /\ A!Disposing(D)[o].at = op[o].at
                /\ A!Disposing(D)[o].generation = op[o].generation
                /\ A!Disposing(D)[o].aborted = op[o].aborted
                /\ A!Disposing(D)[o].asks = op[o].asks
                /\ o \notin D => A!Disposing(D)[o] = op[o]
                /\ A!AbortedAndDisposing(B, D)[o].at = op[o].at
                /\ A!AbortedAndDisposing(B, D)[o].generation = op[o].generation
                /\ A!AbortedAndDisposing(B, D)[o].aborted <=> (op[o].aborted \/ o \in B)
                /\ A!AbortedAndDisposing(B, D)[o].asks = op[o].asks
                /\ o \notin D => A!AbortedAndDisposing(B, D)[o].disposal = op[o].disposal
<1>1. A!Disposing(D) = [o \in Operations |-> IF o \in D THEN [op[o] EXCEPT !.disposal = "closing"] ELSE op[o]]
    BY DEF A!Disposing
<1>2. \A o \in Operations : op[o] \in Work
    BY DEF WorkTypes
<1>3. \A o \in Operations : A!Disposing(D)[o] \in Work
    BY <1>1, <1>2 DEF Work
<1>4. A!AbortedAndDisposing(B, D) = [o \in Operations |->
          [A!Disposing(D)[o] EXCEPT !.aborted = @ \/ o \in B]]
    BY DEF A!AbortedAndDisposing
<1>5. ASSUME NEW o \in Operations
      PROVE  \E b \in BOOLEAN :
                /\ A!AbortedAndDisposing(B, D)[o] = [A!Disposing(D)[o] EXCEPT !.aborted = b]
                /\ b <=> (A!Disposing(D)[o].aborted \/ o \in B)
  <2>1. A!AbortedAndDisposing(B, D)[o]
            = [A!Disposing(D)[o] EXCEPT !.aborted = (A!Disposing(D)[o].aborted \/ o \in B)]
    BY <1>4
  <2>2. (A!Disposing(D)[o].aborted \/ o \in B) \in BOOLEAN
    BY Zenon
  <2> QED BY <2>1, <2>2, Zenon
<1>9. ASSUME NEW o \in Operations
      PROVE  /\ A!AbortedAndDisposing(B, D)[o] \in Work
             /\ A!AbortedAndDisposing(B, D)[o].at = A!Disposing(D)[o].at
             /\ A!AbortedAndDisposing(B, D)[o].generation = A!Disposing(D)[o].generation
             /\ A!AbortedAndDisposing(B, D)[o].aborted <=> (A!Disposing(D)[o].aborted \/ o \in B)
             /\ A!AbortedAndDisposing(B, D)[o].asks = A!Disposing(D)[o].asks
             /\ A!AbortedAndDisposing(B, D)[o].disposal = A!Disposing(D)[o].disposal
  <2> PICK b \in BOOLEAN :
                /\ A!AbortedAndDisposing(B, D)[o] = [A!Disposing(D)[o] EXCEPT !.aborted = b]
                /\ b <=> (A!Disposing(D)[o].aborted \/ o \in B)
    BY <1>5
  <2> QED BY <1>3 DEF Work
<1>6. A!Disposing(D) \in [Operations -> Work] /\ A!AbortedAndDisposing(B, D) \in [Operations -> Work]
    BY <1>1, <1>3, <1>4, <1>9
<1>7. ASSUME NEW o \in Operations
      PROVE  /\ A!Disposing(D)[o].at = op[o].at
             /\ A!Disposing(D)[o].generation = op[o].generation
             /\ A!Disposing(D)[o].aborted = op[o].aborted
             /\ A!Disposing(D)[o].asks = op[o].asks
             /\ o \notin D => A!Disposing(D)[o] = op[o]
    BY <1>1, <1>2 DEF Work
<1> QED
    BY <1>6, <1>7, <1>9

LEMMA AbortingKeeps ==
    ASSUME WorkTypes, NEW D \in SUBSET Operations, NEW B \in SUBSET Operations,
           op' = A!AbortedAndDisposing(B, D)
    PROVE  /\ op' \in [Operations -> Work]
           /\ \A o \in Operations :
                /\ op'[o].at = op[o].at /\ op'[o].generation = op[o].generation
                /\ op'[o].aborted <=> (op[o].aborted \/ o \in B)
                /\ op'[o].asks = op[o].asks
                /\ o \notin D => op'[o].disposal = op[o].disposal
<1>1. A!AbortedAndDisposing(B, D) \in [Operations -> Work]
    BY DisposingKeeps
<1>2. ASSUME NEW o \in Operations
      PROVE  /\ A!AbortedAndDisposing(B, D)[o].at = op[o].at
             /\ A!AbortedAndDisposing(B, D)[o].generation = op[o].generation
             /\ A!AbortedAndDisposing(B, D)[o].asks = op[o].asks
             /\ o \notin D => A!AbortedAndDisposing(B, D)[o].disposal = op[o].disposal
  <2>1. A!AbortedAndDisposing(B, D)[o].at = op[o].at
    BY DisposingKeeps, ZenonT(30)
  <2>2. A!AbortedAndDisposing(B, D)[o].generation = op[o].generation
    BY DisposingKeeps, ZenonT(30)
  <2>3. A!AbortedAndDisposing(B, D)[o].asks = op[o].asks
    BY DisposingKeeps, ZenonT(30)
  <2>4. o \notin D => A!AbortedAndDisposing(B, D)[o].disposal = op[o].disposal
    BY DisposingKeeps, ZenonT(60)
  <2> QED BY <2>1, <2>2, <2>3, <2>4
<1>3. ASSUME NEW o \in Operations
      PROVE  A!AbortedAndDisposing(B, D)[o].aborted <=> (op[o].aborted \/ o \in B)
    BY DisposingKeeps, Zenon
<1> QED BY <1>1, <1>2, <1>3

LEMMA DirectoryStepKeepsHandles ==
    ASSUME HandlesInv, A!AutomationAssumption,
           \/ A!PublishTarget \/ A!RevokeTarget \/ A!RegisterProvider
           \/ A!UnregisterProvider \/ A!FenceConnection
    PROVE  HandlesInv'
<1> USE DEF HandlesInv
<1>0. /\ MaxGenerations \in Nat /\ MaxProviders \in Nat
      /\ A!Runtimes(provider) \in SUBSET Operations /\ A!OnTarget \in SUBSET Operations
      /\ {o \in A!Runtimes(provider) : op[o].generation = generation} \in SUBSET Operations
      /\ \A o \in A!Runtimes(provider) : op[o].at # "idle"
    BY DEF A!AutomationAssumption, A!Runtimes, A!OnTarget
<1>1. CASE A!PublishTarget
  <2>1. /\ generation = 0 /\ newest < MaxGenerations /\ generation' = newest + 1 /\ newest' = newest + 1
        /\ UNCHANGED <<provider, instances, op, handles>>
    BY <1>1 DEF A!PublishTarget, A!resources
  <2>2. WorkTypes'
    BY <1>0, <2>1 DEF WorkTypes
  <2>3. \A o \in Operations : Targeted(o)'
    BY <2>1 DEF Targeted, A!Active
  <2>4. handles = {}
    BY <2>1 DEF Targeted, HandleOfTarget, WorkTypes
  <2> QED BY <2>1, <2>2, <2>3, <2>4
<1>2. CASE A!RevokeTarget
  <2> DEFINE D == {o \in A!Runtimes(provider) : op[o].generation = generation}
  <2>1. /\ generation # 0 /\ generation' = 0 /\ handles' = {h \in handles : op[h].generation \notin {generation}}
        /\ op' = A!AbortedAndDisposing(A!OnTarget, D)
        /\ UNCHANGED <<newest, provider, instances>>
    BY <1>2 DEF A!RevokeTarget, A!ReleaseRecords
  <2>2. handles' = {}
    BY <2>1 DEF HandleOfTarget
  <2>3. /\ op' \in [Operations -> Work]
        /\ \A o \in Operations :
             /\ op'[o].at = op[o].at /\ op'[o].generation = op[o].generation
             /\ op'[o].aborted <=> (op[o].aborted \/ o \in A!OnTarget)
             /\ op'[o].asks = op[o].asks
             /\ o \notin D => op'[o].disposal = op[o].disposal
    BY <1>0, <2>1, AbortingKeeps
  <2>4. WorkTypes'
    BY <1>0, <2>1, <2>2, <2>3 DEF WorkTypes
  <2>5. \A o \in Operations : Targeted(o)'
    BY ZenonT(60), <1>0, <2>1, <2>3 DEF Targeted, A!Active, A!OnTarget
  <2> QED BY <2>2, <2>4, <2>5
<1>3. CASE A!RegisterProvider \/ A!UnregisterProvider
  <2>1. /\ \/ UNCHANGED <<handles, op>>
           \/ /\ handles' = {h \in handles : op[h].generation \notin A!All}
              /\ op' = A!Disposing(A!Runtimes(provider))
        /\ UNCHANGED <<generation, newest>>
    BY <1>3 DEF A!RegisterProvider, A!UnregisterProvider, A!ReleaseResources, A!ReleaseRecords, A!resources
  <2>2. provider' \in 0..MaxProviders /\ instances' \in 0..MaxProviders
    BY <1>0, <1>3 DEF A!RegisterProvider, A!UnregisterProvider, WorkTypes
  <2>3. CASE UNCHANGED <<handles, op>>
    BY <2>1, <2>2, <2>3 DEF WorkTypes, Targeted, HandleOfTarget, A!Active
  <2>4. CASE /\ handles' = {h \in handles : op[h].generation \notin A!All}
             /\ op' = A!Disposing(A!Runtimes(provider))
    <3>1. /\ op' \in [Operations -> Work]
          /\ \A o \in Operations :
               /\ op'[o].at = op[o].at /\ op'[o].generation = op[o].generation
               /\ op'[o].aborted = op[o].aborted /\ op'[o].asks = op[o].asks
               /\ o \notin A!Runtimes(provider) => op'[o] = op[o]
      BY <1>0, <2>4, DisposingKeeps
    <3>2. handles' \in SUBSET handles
      BY <2>4
    <3>3. WorkTypes'
      BY <2>1, <2>2, <3>1, <3>2 DEF WorkTypes
    <3>4. \A o \in Operations : Targeted(o)'
      BY <1>0, <2>1, <3>1 DEF Targeted, A!Active
    <3>5. \A h \in handles' : HandleOfTarget(h)'
      BY <2>1, <3>1, <3>2 DEF HandleOfTarget, WorkTypes
    <3> QED BY <3>3, <3>4, <3>5
  <2> QED BY <2>1, <2>3, <2>4
<1>4. CASE A!FenceConnection
  <2>1. /\ generation' = 0 /\ provider' = 0 /\ handles' = {}
        /\ op' = A!AbortedAndDisposing(A!OnTarget, A!Runtimes(provider))
        /\ UNCHANGED <<newest, instances>>
    BY <1>4 DEF A!FenceConnection
  <2>3. /\ op' \in [Operations -> Work]
        /\ \A o \in Operations :
             /\ op'[o].at = op[o].at /\ op'[o].generation = op[o].generation
             /\ op'[o].aborted <=> (op[o].aborted \/ o \in A!OnTarget)
             /\ op'[o].asks = op[o].asks
             /\ o \notin A!Runtimes(provider) => op'[o].disposal = op[o].disposal
    BY <1>0, <2>1, AbortingKeeps
  <2>4. WorkTypes'
    BY <1>0, <2>1, <2>3 DEF WorkTypes
  <2>5. \A o \in Operations : Targeted(o)'
    BY ZenonT(60), <1>0, <2>1, <2>3 DEF Targeted, A!Active, A!OnTarget
  <2> QED BY <2>1, <2>4, <2>5
<1> QED
    BY <1>1, <1>2, <1>3, <1>4

(* Every element handle the broker holds is of the published generation,   *)
(* for any number of operations, generations and provider instances: an    *)
(* operation whose target is revoked is aborted, and adds none when its    *)
(* provider answers.                                                       *)
THEOREM HandlesAreOfTheTarget == MCSpec => []HandlesFollowTarget
<1>0. A!AutomationAssumption
    BY MachinesAssumption
<1>1. MCInit => HandlesInv
  <2> SUFFICES ASSUME MCInit PROVE HandlesInv
    OBVIOUS
  <2>1. /\ generation = 0 /\ newest = 0 /\ provider = 0 /\ instances = 0 /\ handles = {}
        /\ op \in [Operations ->
             [kind : {"action", "find", "snapshot"}, at : {"idle"}, generation : {0}, provider : {0},
              aborted : {FALSE}, disposal : {"none"}, wants : {FALSE}, asks : {FALSE}, outcome : {"none"}]]
    BY DEF MCInit, A!AutomationInit, A!Kinds
  <2>2. MaxGenerations \in Nat /\ MaxProviders \in Nat
    BY <1>0 DEF A!AutomationAssumption
  <2>5. ASSUME NEW o \in Operations PROVE op[o] \in Work
    <3>1. op[o] \in [kind : {"action", "find", "snapshot"}, at : {"idle"}, generation : {0}, provider : {0},
              aborted : {FALSE}, disposal : {"none"}, wants : {FALSE}, asks : {FALSE}, outcome : {"none"}]
      BY <2>1
    <3>2. 0 \in 0..MaxGenerations /\ 0 \in 0..MaxProviders
      BY <2>2
    <3> QED BY <3>1, <3>2 DEF Work
  <2>3. WorkTypes
    BY <2>1, <2>2, <2>5 DEF WorkTypes
  <2>4. \A o \in Operations : op[o].at = "idle" /\ op[o].asks = FALSE /\ op[o].disposal = "none"
    BY <2>1
  <2> QED BY <2>1, <2>3, <2>4 DEF HandlesInv, Targeted, A!Active
<1>2. HandlesInv /\ [DemandRuns \/ AutomationRuns \/ NavigationRuns]_everything => HandlesInv'
  <2> SUFFICES ASSUME HandlesInv, [DemandRuns \/ AutomationRuns \/ NavigationRuns]_everything
               PROVE  HandlesInv'
    OBVIOUS
  <2>1. CASE UNCHANGED automationVars
    BY <2>1 DEF automationVars, HandlesInv, WorkTypes, Targeted, HandleOfTarget, A!Active
  <2>2. CASE A!AutomationNext
    <3>1. (\E o \in Operations : OwnStep(o))
          \/ A!PublishTarget \/ A!RevokeTarget \/ A!RegisterProvider \/ A!UnregisterProvider
          \/ A!FenceConnection
      BY <2>2 DEF A!AutomationNext, OwnStep
    <3> QED BY <1>0, <3>1, OwnStepKeepsHandles, DirectoryStepKeepsHandles
  <2> QED BY <2>1, <2>2 DEF DemandRuns, AutomationRuns, NavigationRuns, everything
<1>3. HandlesInv => HandlesFollowTarget
    BY DEF HandlesInv, HandleOfTarget, HandlesFollowTarget, A!HandlesFollowTarget, A!Usable, WorkTypes
<1> QED
    BY <1>1, <1>2, <1>3, PTL DEF MCSpec

-----------------------------------------------------------------------------
(* Navigation                                                              *)

(* The tab is to be renewed exactly while it shows a newer document than   *)
(* its target is published for, and without a renewal for another reason   *)
(* the target is withdrawn only then.                                      *)
TabInv ==
    /\ tab \in [shown : Nat, phase : {"committed", "loaded"}, served : Nat, due : BOOLEAN]
    /\ listed \in Nat /\ highest \in Nat /\ republished \in Nat
    /\ highest > 0 /\ (listed = 0 \/ listed = highest)
    /\ tab.shown > 0 /\ tab.served =< tab.shown
    /\ tab.due <=> tab.served < tab.shown
    /\ republished = 0 /\ listed = 0 => tab.due

Asks == [kind : {"document", "other", "wait"}, until : {"commit", "load"},
         at : {"idle", "leasing", "subscribing", "commanding", "racing", "awaiting",
               "rejoining", "rewaiting", "listing", "confirming", "over"},
         generation : Nat, started : Nat, settled : BOOLEAN,
         renewal : {"pending", "known", "failed"}, renewed : Nat,
         on : Nat, seen : [reached : Nat, within : BOOLEAN, dialog : BOOLEAN],
         milestone : {"none", "event", "within", "renewed"}, outcome : {"none", "done", "failed"}]

(* What a call knows of its target: once its generation is not the newest, *)
(* the tab was published for a newer document than when it began, and if   *)
(* the document it began on had loaded, the next load is another's.        *)
BeganOn(c) ==
    /\ c.generation =< highest /\ c.started =< tab.served
    /\ republished = 0 /\ c.at # "idle" /\ c.generation < highest => c.started < tab.served
    /\ c.settled /\ tab.phase = "committed" => c.started < tab.shown

(* Where it listens, and for what.                                         *)
Listens(c) ==
    /\ c.on # 0 => c.at \in {"commanding", "racing", "awaiting", "rewaiting"}
    /\ c.kind = "document" => c.at # "racing"
    /\ c.renewal = "known" => c.generation < c.renewed
    /\ c.at \in {"rejoining", "rewaiting"} => c.renewal = "known"
    /\ c.at = "rewaiting" /\ c.on # 0 => c.generation < c.on
    /\ c.at = "idle" => c.seen.reached = 0 /\ c.renewal = "pending"
    /\ c.milestone # "none" => c.at \in {"listing", "confirming", "over"}
    /\ c.outcome # "none" => c.at = "over"

(* A load it has buffered is of a newer document, if it had loaded or the  *)
(* target was renewed first; and so is the one it answers for.             *)
IsNewer(c) == c.seen.reached # 0 => c.started < c.seen.reached

Buffers(c) ==
    republished = 0 /\ c.until = "load" =>
        /\ c.settled \/ c.at = "rewaiting" => IsNewer(c)
        /\ c.at = "rejoining" => c.seen.reached = 0
        /\ /\ c.milestone = "event" /\ c.outcome # "failed"
           /\ c.kind = "document" \/ c.settled
           => c.started < c.seen.reached

CallInv(c) == c \in Asks /\ BeganOn(c) /\ Listens(c) /\ Buffers(c)

WaitInv ==
    /\ TabInv
    /\ wait \in [Waits -> Asks]
    /\ \A w \in Waits : CallInv(wait[w])

(* A call's own step leaves the tab and the other calls alone.             *)
LEMMA CallStep ==
    ASSUME WaitInv, NEW w \in Waits, NEW new, N!Becomes(w, new),
           new \in Asks, BeganOn(new), Listens(new), Buffers(new)
    PROVE  WaitInv'
<1>1. /\ wait' = [wait EXCEPT ![w] = new]
      /\ tab' = tab /\ listed' = listed /\ highest' = highest /\ republished' = republished
    BY DEF N!Becomes, N!environment
<1>2. wait \in [Waits -> Asks] /\ wait'[w] = new /\ wait' \in [Waits -> Asks]
    BY <1>1 DEF WaitInv
<1>3. TabInv'
    BY <1>1 DEF WaitInv, TabInv
<1>4. CallInv(new)'
    BY <1>1 DEF CallInv, BeganOn, Listens, Buffers, IsNewer
<1>5. ASSUME NEW q \in Waits, q # w PROVE CallInv(wait[q])'
  <2>1. wait'[q] = wait[q] /\ CallInv(wait[q])
    BY <1>1, <1>2, <1>5 DEF WaitInv
  <2> QED BY <1>1, <2>1 DEF CallInv, BeganOn, Listens, Buffers, IsNewer
<1>6. ASSUME NEW q \in Waits PROVE CallInv(wait[q])'
  <2>1. CASE q = w
    BY <1>2, <1>4, <2>1 DEF CallInv, BeganOn, Listens, Buffers, IsNewer
  <2> QED BY <1>5, <2>1
<1> QED
    BY <1>2, <1>3, <1>6 DEF WaitInv

(* A call that is over has nothing to listen to.                           *)
LEMMA OverKeeps ==
    ASSUME NEW c \in Asks, BeganOn(c), Listens(c), c.at # "idle"
    PROVE  LET new == N!Over(c, "failed")
           IN  new \in Asks /\ BeganOn(new) /\ Listens(new) /\ Buffers(new)
<1> DEFINE new == N!Over(c, "failed")
<1>1. /\ new \in Asks /\ new.at = "over" /\ new.outcome = "failed" /\ new.on = 0 /\ new.seen.reached = 0
      /\ new.kind = c.kind /\ new.until = c.until /\ new.generation = c.generation
      /\ new.started = c.started /\ new.settled = c.settled /\ new.renewal = c.renewal
      /\ new.renewed = c.renewed /\ new.milestone = c.milestone
    BY ZenonT(60) DEF N!Over, N!Nothing, Asks
<1> QED
    BY <1>1 DEF BeganOn, Listens, Buffers, IsNewer

LEMMA OwnStepKeeps ==
    ASSUME WaitInv, NEW w \in Waits, N!Begin(w) \/ N!RenewalSeen(w) \/ N!Continues(w)
    PROVE  WaitInv'
<1> DEFINE c == wait[w]
           Good(new) == new \in Asks /\ BeganOn(new) /\ Listens(new) /\ Buffers(new)
<1>0. /\ c \in Asks /\ BeganOn(c) /\ Listens(c) /\ Buffers(c) /\ TabInv
    BY DEF WaitInv, CallInv
<1>1. ASSUME NEW new, N!Becomes(w, new), Good(new) PROVE WaitInv'
    BY <1>1, CallStep
<1>2. ASSUME c.at # "idle", N!Becomes(w, N!Over(c, "failed")) PROVE WaitInv'
    BY <1>0, <1>1, <1>2, OverKeeps
<1>3. CASE N!Begin(w)
  <2> DEFINE new == [c EXCEPT !.at = "leasing", !.generation = listed, !.started = tab.served,
                     !.settled = tab.due \/ tab.phase = "loaded"]
  <2>1. N!Becomes(w, new) /\ c.at = "idle" /\ listed # 0
    BY <1>3 DEF N!Begin
  <2> PICK settled \in BOOLEAN : settled <=> (tab.due \/ tab.phase = "loaded")
    OBVIOUS
  <2>2. new = [c EXCEPT !.at = "leasing", !.generation = listed, !.started = tab.served, !.settled = settled]
    OBVIOUS
  <2>3. /\ new \in Asks /\ new.at = "leasing" /\ new.generation = listed /\ new.started = tab.served
        /\ new.settled = settled /\ new.kind = c.kind /\ new.until = c.until /\ new.seen = c.seen
        /\ new.renewal = c.renewal /\ new.renewed = c.renewed /\ new.on = c.on
        /\ new.milestone = c.milestone /\ new.outcome = c.outcome
    BY <1>0, <2>2 DEF TabInv, Asks
  <2>4. BeganOn(new)
    BY <1>0, <2>1, <2>3 DEF TabInv, BeganOn
  <2>5. c.renewal # "known"
    BY <1>0, <2>1 DEF Listens
  <2>6. Listens(new) /\ Buffers(new)
    BY <1>0, <2>1, <2>3, <2>5 DEF Listens, Buffers, IsNewer, Asks
  <2> QED BY <1>1, <2>1, <2>3, <2>4, <2>6
<1>4. CASE N!RenewalSeen(w)
  <2> PICK generations \in c.generation + 1 .. highest :
             N!Becomes(w, [c EXCEPT !.renewal = "known", !.renewed = generations])
    BY <1>4 DEF N!RenewalSeen
  <2> DEFINE new == [c EXCEPT !.renewal = "known", !.renewed = generations]
  <2>4. c.generation \in Nat /\ highest \in Nat /\ c.at # "idle"
    BY <1>0, <1>4 DEF N!RenewalSeen, N!Watching, TabInv, Asks
  <2>2. generations \in Nat /\ c.generation < generations /\ c.at # "idle"
    BY <2>4
  <2>3. /\ new \in Asks /\ new.at = c.at /\ new.generation = c.generation /\ new.started = c.started
        /\ new.settled = c.settled /\ new.kind = c.kind /\ new.until = c.until /\ new.seen = c.seen
        /\ new.renewed = generations /\ new.on = c.on
        /\ new.milestone = c.milestone /\ new.outcome = c.outcome
    BY <1>0, <2>2 DEF Asks
  <2>1. Good(new)
    BY <1>0, <2>2, <2>3 DEF BeganOn, Listens, Buffers, IsNewer
  <2> QED BY <1>1, <2>1
<1>5. CASE N!RenewalEnds(w)
  <2>1. Good([c EXCEPT !.renewal = "failed"])
    BY <1>0, <1>5 DEF N!RenewalEnds, N!Watching, Asks, BeganOn, Listens, Buffers, IsNewer
  <2> QED BY <1>1, <1>5, <2>1 DEF N!RenewalEnds
<1>6. CASE N!Leased(w)
  <2>1. Good([c EXCEPT !.at = "subscribing"])
    BY <1>0, <1>6 DEF N!Leased, Asks, BeganOn, Listens, Buffers, IsNewer
  <2> QED BY <1>1, <1>6, <2>1 DEF N!Leased
<1>7. CASE N!Subscribed(w)
  <2>1. /\ c.at = "subscribing" /\ c.generation = listed
        /\ N!Becomes(w, [c EXCEPT !.on = listed, !.at = IF c.kind = "wait" THEN "racing" ELSE "commanding"])
    BY <1>7 DEF N!Subscribed, N!Served
  <2>2. Good([c EXCEPT !.on = listed, !.at = IF c.kind = "wait" THEN "racing" ELSE "commanding"])
    BY ZenonT(60), <1>0, <2>1 DEF TabInv, Asks, BeganOn, Listens, Buffers, IsNewer
  <2> QED BY <1>1, <2>1, <2>2
<1>8. CASE N!Commanded(w)
  <2>1. /\ c.at = "commanding"
        /\ N!Becomes(w, [c EXCEPT !.at = IF c.kind = "document" THEN "awaiting" ELSE "racing"])
    BY <1>8 DEF N!Commanded, N!AfterCommand
  <2>2. Good([c EXCEPT !.at = IF c.kind = "document" THEN "awaiting" ELSE "racing"])
    BY <1>0, <2>1 DEF Asks, BeganOn, Listens, Buffers, IsNewer
  <2> QED BY <1>1, <2>1, <2>2
<1>9. CASE N!Refused(w) \/ N!Interrupted(w) \/ N!TimesOut(w) \/ N!RenewalMissed(w)
    BY <1>2, <1>9 DEF N!Refused, N!Interrupted, N!TimesOut, N!RenewalMissed
<1>10. CASE N!MilestoneReached(w)
  <2>1. /\ c.at \in {"racing", "rewaiting"}
        /\ \/ c.seen.reached # 0 /\ N!Becomes(w, N!Told(w, "event"))
           \/ N!Becomes(w, N!Told(w, "within"))
    BY <1>10 DEF N!MilestoneReached
  <2>2. ASSUME c.seen.reached # 0 PROVE Good(N!Told(w, "event"))
    BY ZenonT(60), <1>0, <2>1, <2>2 DEF N!Told, Asks, BeganOn, Listens, Buffers, IsNewer
  <2>3. Good(N!Told(w, "within"))
    BY ZenonT(60), <1>0, <2>1 DEF N!Told, Asks, BeganOn, Listens, Buffers, IsNewer
  <2> QED BY <1>1, <2>1, <2>2, <2>3
<1>11. CASE N!SubscriptionsEnded(w)
  <2>1. /\ c.at \in {"racing", "rewaiting"}
        /\ \/ N!Becomes(w, [c EXCEPT !.at = "awaiting", !.on = 0]) /\ c.at = "racing"
           \/ N!Becomes(w, N!Over(c, "failed"))
    BY <1>11 DEF N!SubscriptionsEnded
  <2>2. ASSUME c.at = "racing" PROVE Good([c EXCEPT !.at = "awaiting", !.on = 0])
    BY ZenonT(60), <1>0, <2>2 DEF Asks, BeganOn, Listens, Buffers, IsNewer
  <2> QED BY <1>1, <1>2, <2>1, <2>2
<1>12. CASE N!Renewed(w)
  <2>1. /\ c.renewal = "known" /\ c.at \in {"awaiting", "racing"}
        /\ \/ N!Becomes(w, N!Told(w, "renewed"))
           \/ N!Becomes(w, [c EXCEPT !.at = "rejoining", !.on = 0, !.seen = N!Nothing])
    BY <1>12 DEF N!Renewed
  <2>2. Good(N!Told(w, "renewed"))
    BY <1>0, <2>1 DEF N!Told, Asks, BeganOn, Listens, Buffers, IsNewer
  <2>3. Good([c EXCEPT !.at = "rejoining", !.on = 0, !.seen = N!Nothing])
    BY ZenonT(60), <1>0, <2>1 DEF N!Nothing, Asks, BeganOn, Listens, Buffers, IsNewer
  <2> QED BY <1>1, <2>1, <2>2, <2>3
<1>13. CASE N!Rejoined(w)
  <2>1. c.at = "rejoining" /\ c.renewed = listed /\ N!Becomes(w, [c EXCEPT !.at = "rewaiting", !.on = listed])
    BY <1>13 DEF N!Rejoined
  <2>2. Good([c EXCEPT !.at = "rewaiting", !.on = listed])
    BY <1>0, <2>1 DEF TabInv, Asks, BeganOn, Listens, Buffers, IsNewer
  <2> QED BY <1>1, <2>1, <2>2
<1>17. ASSUME c.at = "listing" PROVE Good([c EXCEPT !.at = "confirming"])
    BY <1>0, <1>17 DEF Asks, BeganOn, Listens, Buffers, IsNewer
<1>14. ASSUME c.at \in {"listing", "confirming"}
       PROVE  Good([N!Over(c, "done") EXCEPT !.seen = c.seen])
  <2> DEFINE new == [N!Over(c, "done") EXCEPT !.seen = c.seen]
  <2>1. /\ new \in Asks /\ new.at = "over" /\ new.generation = c.generation /\ new.started = c.started
        /\ new.settled = c.settled /\ new.kind = c.kind /\ new.until = c.until /\ new.seen = c.seen
        /\ new.renewal = c.renewal /\ new.renewed = c.renewed /\ new.on = 0
        /\ new.milestone = c.milestone /\ new.outcome = "done"
    BY <1>0 DEF N!Over, N!Nothing, Asks
  <2> HIDE DEF new
  <2>2. BeganOn(new) /\ Listens(new)
    BY <1>0, <1>14, <2>1 DEF BeganOn, Listens
  <2>3. c.outcome # "failed"
    BY <1>0, <1>14 DEF Listens
  <2>4. Buffers(new)
    BY <1>0, <1>14, <2>1, <2>3 DEF Buffers, IsNewer
  <2>5. Good(new)
    BY <2>1, <2>2, <2>4
  <2> QED BY <2>5 DEF new
<1>15. CASE N!Listed(w)
  <2>1. /\ c.at = "listing"
        /\ \/ N!Becomes(w, N!Over(c, "failed"))
           \/ N!Becomes(w, [c EXCEPT !.at = "confirming"])
           \/ N!Becomes(w, [N!Over(c, "done") EXCEPT !.seen = c.seen])
    BY <1>15 DEF N!Listed
  <2> QED BY <1>1, <1>2, <1>14, <1>17, <2>1
<1>16. CASE N!Confirmed(w)
    BY <1>1, <1>14, <1>16 DEF N!Confirmed
<1> QED
    BY <1>3, <1>4, <1>5, <1>6, <1>7, <1>8, <1>9, <1>10, <1>11, <1>12, <1>13, <1>15, <1>16
    DEF N!Continues

(* An event is buffered by the calls that listen to the listed target.     *)
Alike(c, d) ==
    /\ d \in Asks
    /\ d.kind = c.kind /\ d.until = c.until /\ d.at = c.at /\ d.generation = c.generation
    /\ d.started = c.started /\ d.settled = c.settled /\ d.renewal = c.renewal
    /\ d.renewed = c.renewed /\ d.on = c.on /\ d.milestone = c.milestone /\ d.outcome = c.outcome

LEMMA Emission ==
    ASSUME WaitInv, NEW event \in {"commit", "load", "within", "dialog"}, NEW document \in Nat,
           N!Emit(event, document)
    PROVE  /\ wait' \in [Waits -> Asks]
           /\ \A w \in Waits :
                \/ wait'[w] = wait[w]
                \/ /\ wait[w].on # 0 /\ wait[w].on = listed /\ Alike(wait[w], wait'[w])
                   /\ \/ wait'[w].seen.reached = wait[w].seen.reached
                      \/ /\ event \in {"commit", "load"} /\ wait[w].until = event
                         /\ wait'[w].seen.reached = document
<1>0. wait \in [Waits -> Asks]
    BY DEF WaitInv
<1>1. ASSUME NEW w \in Waits
      PROVE  \/ wait'[w] = wait[w]
             \/ /\ wait[w].on # 0 /\ wait[w].on = listed /\ Alike(wait[w], wait'[w])
                /\ \/ wait'[w].seen.reached = wait[w].seen.reached
                   \/ /\ event \in {"commit", "load"} /\ wait[w].until = event
                      /\ wait'[w].seen.reached = document
  <2>1. wait[w] \in Asks
    BY <1>0
  <2>2. CASE ~N!Hearing(w, event)
    BY <2>2 DEF N!Emit
  <2>3. CASE N!Hearing(w, event)
    <3> PICK seen : seen = CASE event = "within" -> [wait[w].seen EXCEPT !.within = TRUE]
                             [] event = "dialog" -> [wait[w].seen EXCEPT !.dialog = TRUE]
                             [] OTHER -> [wait[w].seen EXCEPT !.reached = document]
      OBVIOUS
    <3>1. wait'[w] = [wait[w] EXCEPT !.seen = seen]
      BY <2>3 DEF N!Emit
    <3>2. /\ seen \in [reached : Nat, within : BOOLEAN, dialog : BOOLEAN]
          /\ \/ event \in {"within", "dialog"} /\ seen.reached = wait[w].seen.reached
             \/ event \in {"commit", "load"} /\ seen.reached = document
      BY <2>1 DEF Asks
    <3>3. /\ wait[w].on # 0 /\ wait[w].on = listed
          /\ event \in {"commit", "load"} => wait[w].until = event
      BY <2>3 DEF N!Hearing
    <3>4. Alike(wait[w], wait'[w]) /\ wait'[w].seen = seen
      BY <2>1, <3>1, <3>2 DEF Alike, Asks
    <3> QED BY <3>2, <3>3, <3>4
  <2> QED BY <2>2, <2>3
<1>2. \A w \in Waits : wait'[w] \in Asks
    BY <1>0, <1>1 DEF Alike
<1>3. wait' = [w \in Waits |-> wait'[w]]
    BY DEF N!Emit
<1> QED
    BY <1>1, <1>2, <1>3

(* The tab and the provider.                                               *)
LEMMA TabStepKeeps ==
    ASSUME WaitInv, N!Navigates \/ N!Loads \/ N!NavigatesWithin \/ N!DialogOpens
    PROVE  WaitInv'
<1>0. TabInv
    BY DEF WaitInv
<1>1. PICK event \in {"commit", "load", "within", "dialog"}, document \in Nat :
        /\ N!Emit(event, document)
        /\ listed' = listed /\ highest' = highest /\ republished' = republished
        /\ \/ /\ event = "commit"
              /\ tab'.shown = tab.shown + 1 /\ tab'.phase = "committed" /\ tab'.due = TRUE
              /\ tab'.served = tab.served
           \/ /\ event = "load" /\ document = tab.shown /\ tab.phase = "committed"
              /\ tab'.shown = tab.shown /\ tab'.phase = "loaded" /\ tab'.due = tab.due
              /\ tab'.served = tab.served
           \/ event \in {"within", "dialog"} /\ tab' = tab
        /\ tab' \in [shown : Nat, phase : {"committed", "loaded"}, served : Nat, due : BOOLEAN]
  <2>1. tab.shown + 1 \in Nat /\ tab.shown \in Nat
    BY <1>0 DEF TabInv
  <2>2. CASE N!Navigates
    BY <1>0, <2>1, <2>2 DEF N!Navigates, TabInv
  <2>3. CASE N!Loads
    BY <1>0, <2>1, <2>3 DEF N!Loads, TabInv
  <2>4. CASE N!NavigatesWithin
    BY <1>0, <2>1, <2>4 DEF N!NavigatesWithin, TabInv
  <2>5. CASE N!DialogOpens
    BY <1>0, <2>1, <2>5 DEF N!DialogOpens, TabInv
  <2> QED BY <2>2, <2>3, <2>4, <2>5
<1>2. TabInv'
    BY <1>0, <1>1 DEF TabInv
<1>3. /\ wait' \in [Waits -> Asks]
      /\ \A w \in Waits :
           \/ wait'[w] = wait[w]
           \/ /\ wait[w].on # 0 /\ wait[w].on = listed /\ Alike(wait[w], wait'[w])
              /\ \/ wait'[w].seen.reached = wait[w].seen.reached
                 \/ /\ event \in {"commit", "load"} /\ wait[w].until = event
                    /\ wait'[w].seen.reached = document
    BY <1>1, Emission
<1>4. ASSUME NEW w \in Waits PROVE CallInv(wait[w])'
  <2> PICK c : c = wait[w]
    OBVIOUS
  <2> PICK d : d = wait'[w]
    OBVIOUS
  <2>1. c \in Asks /\ d \in Asks /\ BeganOn(c) /\ Listens(c) /\ Buffers(c)
    BY <1>3 DEF WaitInv, CallInv
  <2>2. Alike(c, d)
    BY <1>3, <2>1 DEF Alike
  <2>3. \/ d.seen.reached = c.seen.reached
        \/ /\ c.on # 0 /\ c.on = listed /\ c.until = event /\ event \in {"commit", "load"}
           /\ d.seen.reached = document
    BY <1>3
  <2>4. (c.started =< tab.served /\ tab.served =< tab.shown) /\ c.started \in Nat
        /\ tab.served \in Nat /\ tab.shown \in Nat
    BY <1>0, <2>1 DEF BeganOn, TabInv, Asks
  <2>5. BeganOn(d)'
    BY <1>0, <1>1, <2>1, <2>2, <2>4 DEF BeganOn, Alike, TabInv
  <2>6. Listens(d)'
    BY <2>1, <2>2, <2>3 DEF Listens, Alike
  <2>7. ASSUME d.seen.reached = c.seen.reached PROVE Buffers(d)'
    BY <1>1, <2>1, <2>2, <2>7 DEF Buffers, IsNewer, Alike
  <2>8. ASSUME c.on # 0, c.on = listed, c.until = "load", event = "load", d.seen.reached = document
        PROVE  Buffers(d)'
    <3>1. document = tab.shown /\ tab.phase = "committed"
      BY <1>1, <2>8
    <3>2. republished = 0 /\ (c.settled \/ c.at = "rewaiting") => c.started < tab.shown
      BY <1>0, <2>1, <2>4, <2>8, <3>1 DEF BeganOn, Listens, TabInv, Asks
    <3>3. c.at # "rejoining" /\ c.milestone = "none"
      BY <2>1, <2>8 DEF Listens
    <3> QED BY <1>1, <2>2, <2>8, <3>1, <3>2, <3>3 DEF Buffers, IsNewer, Alike
  <2>9. ASSUME c.until # "load" PROVE Buffers(d)'
    BY <2>2, <2>9 DEF Buffers, Alike
  <2>10. Buffers(d)'
    BY <2>3, <2>7, <2>8, <2>9
  <2> QED BY <2>1, <2>5, <2>6, <2>10 DEF CallInv
<1> QED
    BY <1>2, <1>3, <1>4 DEF WaitInv

LEMMA ProviderStepKeepsCalls ==
    ASSUME WaitInv, N!Withdraw \/ N!Publish
    PROVE  WaitInv'
<1>0. TabInv /\ wait' = wait
    BY DEF WaitInv, N!Withdraw, N!Publish
<1>1. CASE N!Withdraw
  <2>1. /\ tab' = tab /\ highest' = highest /\ listed' = 0 /\ republished' \in Nat
        /\ \/ tab.due /\ republished' = republished
           \/ republished' = republished + 1
        /\ republished' = 0 => republished = 0 /\ tab.due
    BY <1>0, <1>1 DEF N!Withdraw, TabInv
  <2>2. TabInv'
    BY <1>0, <2>1 DEF TabInv
  <2>3. ASSUME NEW c, CallInv(c) PROVE CallInv(c)'
    BY <2>1, <2>3 DEF CallInv, BeganOn, Listens, Buffers, IsNewer
  <2>4. \A w \in Waits : CallInv(wait[w])'
    BY <1>0, <2>1 DEF WaitInv, CallInv, BeganOn, Listens, Buffers, IsNewer
  <2> QED BY <1>0, <2>2, <2>4 DEF WaitInv
<1>2. CASE N!Publish
  <2>0. highest \in Nat /\ highest + 1 \in Nat
    BY <1>0 DEF TabInv
  <2>1. /\ listed = 0 /\ listed' = highest + 1 /\ highest' = highest + 1 /\ republished' = republished
        /\ tab'.shown = tab.shown /\ tab'.served = tab.shown /\ tab'.phase = tab.phase /\ tab'.due = FALSE
        /\ tab' \in [shown : Nat, phase : {"committed", "loaded"}, served : Nat, due : BOOLEAN]
    BY <1>0, <1>2 DEF N!Publish, TabInv
  <2>2. TabInv'
    BY <1>0, <2>0, <2>1 DEF TabInv
  <2>3. ASSUME NEW w \in Waits PROVE CallInv(wait[w])'
    <3> PICK c : c = wait[w]
      OBVIOUS
    <3>1. c \in Asks /\ BeganOn(c) /\ Listens(c) /\ Buffers(c)
      BY DEF WaitInv, CallInv
    <3>2. BeganOn(c)'
      BY <1>0, <2>1, <3>1 DEF BeganOn, TabInv, Asks
    <3>3. Listens(c)' /\ Buffers(c)'
      BY <2>1, <3>1 DEF Listens, Buffers, IsNewer
    <3> QED BY <1>0, <3>1, <3>2, <3>3 DEF CallInv
  <2> QED BY <1>0, <2>2, <2>3 DEF WaitInv
<1> QED
    BY <1>1, <1>2

(* A navigation that reports the load of a document reports that of a      *)
(* newer one than its target was published for, for any number of calls,   *)
(* documents and renewals of the target.                                   *)
THEOREM LoadsAreOfNewDocuments == MCSpec => []MilestoneIsOfANewDocument
<1>1. MCInit => WaitInv
  <2> SUFFICES ASSUME MCInit PROVE WaitInv
    OBVIOUS
  <2>1. /\ tab = [shown |-> 1, phase |-> "committed", served |-> 1, due |-> FALSE]
        /\ listed = 1 /\ highest = 1 /\ republished = 0
        /\ wait \in [Waits ->
             [kind : WaitKinds, until : {"commit", "load"}, at : {"idle"}, generation : {0},
              started : {0}, settled : {FALSE}, renewal : {"pending"}, renewed : {0}, on : {0},
              seen : {N!Nothing}, milestone : {"none"}, outcome : {"none"}]]
    BY DEF MCInit, N!NavigationInit
  <2>2. WaitKinds \in SUBSET {"document", "other", "wait"}
    BY MachinesAssumption DEF N!NavigationAssumption
  <2>3. TabInv
    BY <2>1 DEF TabInv
  <2>4. ASSUME NEW w \in Waits PROVE wait[w] \in Asks /\ CallInv(wait[w])
    <3> PICK c : c = wait[w]
      OBVIOUS
    <3>1. c \in [kind : WaitKinds, until : {"commit", "load"}, at : {"idle"}, generation : {0},
              started : {0}, settled : {FALSE}, renewal : {"pending"}, renewed : {0}, on : {0},
              seen : {N!Nothing}, milestone : {"none"}, outcome : {"none"}]
      BY <2>1
    <3>3. /\ c.at = "idle" /\ c.generation = 0 /\ c.started = 0 /\ c.settled = FALSE
          /\ c.renewal = "pending" /\ c.on = 0 /\ c.milestone = "none"
          /\ c.outcome = "none" /\ c.seen = N!Nothing
      BY <3>1
    <3>5. N!Nothing \in [reached : Nat, within : BOOLEAN, dialog : BOOLEAN] /\ N!Nothing.reached = 0
      BY DEF N!Nothing
    <3>2. c \in Asks
      BY <2>2, <3>1, <3>5 DEF Asks
    <3>4. BeganOn(c) /\ Listens(c) /\ Buffers(c)
      BY <2>1, <3>3, <3>5 DEF BeganOn, Listens, Buffers, IsNewer
    <3> QED BY <3>2, <3>4 DEF CallInv
  <2>5. wait \in [Waits -> Asks]
    BY <2>1, <2>4
  <2> QED BY <2>3, <2>4, <2>5 DEF WaitInv
<1>2. WaitInv /\ [DemandRuns \/ AutomationRuns \/ NavigationRuns]_everything => WaitInv'
  <2> SUFFICES ASSUME WaitInv, [DemandRuns \/ AutomationRuns \/ NavigationRuns]_everything
               PROVE  WaitInv'
    OBVIOUS
  <2>1. CASE UNCHANGED navigationVars
    BY <2>1 DEF navigationVars, WaitInv, TabInv, CallInv, BeganOn, Listens, Buffers, IsNewer
  <2>2. CASE N!NavigationNext
    <3>1. \/ N!Navigates \/ N!Loads \/ N!NavigatesWithin \/ N!DialogOpens
          \/ N!Withdraw \/ N!Publish
          \/ \E w \in Waits : N!Begin(w) \/ N!RenewalSeen(w) \/ N!Continues(w)
      BY <2>2 DEF N!NavigationNext
    <3> QED BY <3>1, OwnStepKeeps, TabStepKeeps, ProviderStepKeepsCalls
  <2> QED BY <2>1, <2>2 DEF DemandRuns, AutomationRuns, NavigationRuns, everything
<1>3. WaitInv => MilestoneIsOfANewDocument
  <2> SUFFICES ASSUME WaitInv, NEW w \in Waits,
                      wait[w].outcome = "done", wait[w].milestone = "event", wait[w].until = "load",
                      wait[w].kind = "document" \/ wait[w].settled, republished = 0
               PROVE  wait[w].started < wait[w].seen.reached
    BY DEF MilestoneIsOfANewDocument, N!MilestoneIsOfANewDocument
  <2> QED BY DEF WaitInv, CallInv, Buffers
<1> QED
    BY <1>1, <1>2, <1>3, PTL DEF MCSpec
=============================================================================
