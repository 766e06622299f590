------------------------- MODULE TargetBrokerProofs -------------------------
(* What TargetBroker guarantees for every number of providers, clients,    *)
(* targets, leases and every timing policy, checked by TLAPS: its types,   *)
(* then that leases exclude each other, stay on published targets, within  *)
(* what is offered and within their grace period, that executors and       *)
(* generations only advance, and that work that lost its ground is aborted.*)
EXTENDS TargetBroker, TLAPS

USE DEF Generations, Connections, LeaseIds, Deadline

-----------------------------------------------------------------------------
(* Helpers keep their types.                                               *)

LEMMA WithoutType ==
    ASSUME NEW D, NEW S, NEW map \in [D -> S \cup {None}], NEW keys
    PROVE  Without(map, keys) \in [D -> S \cup {None}]
BY DEF Without

LEMMA AbortingType ==
    ASSUME operations \in [Operations -> Operation \cup {None}], NEW ops \in SUBSET Running
    PROVE  Aborting(ops) \in [Operations -> Operation \cup {None}]
<1> SUFFICES ASSUME NEW o \in Operations
             PROVE  Aborting(ops)[o] \in Operation \cup {None}
    BY DEF Aborting
<1>1. CASE o \in ops
    <2>1. operations[o] \in Operation
        BY <1>1 DEF Running
    <2> QED
        BY <2>1 DEF Aborting, Operation
<1>2. CASE o \notin ops
    BY <1>2 DEF Aborting
<1> QED
    BY <1>1, <1>2

LEMMA OperationsOnRunning == ASSUME NEW R PROVE OperationsOn(R) \in SUBSET Running
BY DEF OperationsOn

(* Release and DropLeases keep the maps they touch well typed.             *)
LEMMA ReleaseType ==
    ASSUME TypeOK, NEW R, NEW lost, Release(R, lost)
    PROVE  /\ leases' \in [LeaseIds -> Lease \cup {None}]
           /\ operations' \in [Operations -> Operation \cup {None}]
           /\ subscriptions' \in [Subscriptions -> Subscription \cup {None}]
           /\ acquired' \in 0 .. MaxLease
BY WithoutType, AbortingType, OperationsOnRunning DEF TypeOK, Release

LEMMA DropLeasesType ==
    ASSUME TypeOK, NEW lost, DropLeases(lost)
    PROVE  /\ leases' \in [LeaseIds -> Lease \cup {None}]
           /\ subscriptions' \in [Subscriptions -> Subscription \cup {None}]
BY WithoutType DEF TypeOK, DropLeases

LEMMA ExpiryType ==
    ASSUME TypeOK, NEW i \in Nat, NEW d \in Durations
    PROVE  /\ ExpiryFor(i, d) \in Nat
           /\ TimerFor(ExpiryFor(i, d)) \in Nat
BY ConstantsAssumption, AbsenceAssumption DEF TypeOK, ExpiryFor, TimerFor, EarlierOf

LEMMA ExpiryWithin ==
    ASSUME TypeOK, NEW i \in Nat, NEW d \in Durations, MaximumLifetime # NoDeadline
    PROVE  ExpiryFor(i, d) =< i + MaximumLifetime
<1>1. MaximumLifetime \in Nat /\ d \in Nat /\ now \in Nat
    BY ConstantsAssumption, AbsenceAssumption DEF TypeOK
<1> QED
    BY <1>1 DEF ExpiryFor, EarlierOf

-----------------------------------------------------------------------------
(* Type correctness                                                        *)

LEMMA AdoptConnectionType ==
    ASSUME TypeOK, NEW a \in Agents, NEW k \in Connections, AdoptConnection(a, k)
    PROVE  /\ agentConnection' \in [Agents -> 0 .. MaxConnection]
           /\ providerConnections' \in [Agents -> SUBSET Connections]
           /\ lastConnection' \in [Agents -> 0 .. MaxConnection]
BY ConstantsAssumption DEF TypeOK, AdoptConnection

LEMMA ProviderStepType ==
    ASSUME TypeOK, ProviderStep
    PROVE  TypeOK'
<1> USE ConstantsAssumption
<1>1. ASSUME NEW a \in Agents, OpenProviderConnection(a) PROVE TypeOK'
    BY <1>1 DEF TypeOK, OpenProviderConnection, directoryVars, clientVars, leaseVars, workVars
<1>2. ASSUME NEW a \in Agents, NEW k \in Connections, FenceOnly(a, k) PROVE TypeOK'
    BY <1>2, WithoutType, ReleaseType, AdoptConnectionType DEF TypeOK, FenceOnly, clientVars
<1>3. ASSUME NEW a \in Agents, NEW k \in Connections, NEW t \in TargetIds, NEW g \in Generations,
             NEW capabilities \in TargetCapabilities, PublishTarget(a, k, t, g, capabilities)
      PROVE  TypeOK'
    <2> DEFINE target == [agent |-> a, generation |-> g, capabilities |-> capabilities]
               executor == [agent |-> a, connection |-> k, generation |-> g]
    <2>1. target \in Target /\ executor \in Executor
        BY DEF Target, Executor
    <2>2. /\ Without(targets, Fenced(a, k)) \in [TargetIds -> Target \cup {None}]
          /\ Without(executors, Fenced(a, k)) \in [TargetIds -> Executor \cup {None}]
        BY WithoutType DEF TypeOK
    <2>3. /\ targets' = [Without(targets, Fenced(a, k)) EXCEPT ![t] = target]
          /\ executors' = [Without(executors, Fenced(a, k)) EXCEPT ![t] = executor]
        BY <1>3 DEF PublishTarget
    <2> HIDE DEF target, executor
    <2>4. /\ targets' \in [TargetIds -> Target \cup {None}]
          /\ executors' \in [TargetIds -> Executor \cup {None}]
        BY <2>1, <2>2, <2>3
    <2>5. highest' \in [TargetIds -> 0 .. MaxGeneration]
        BY <1>3 DEF TypeOK, PublishTarget
    <2>6. Release(Fenced(a, k), {}) /\ AdoptConnection(a, k)
        BY <1>3 DEF PublishTarget
    <2>7. UNCHANGED <<disposed, now, clientVars>>
        BY <1>3 DEF PublishTarget
    <2> QED
        BY <2>4, <2>5, <2>6, <2>7, ReleaseType, AdoptConnectionType DEF TypeOK, clientVars
<1>4. ASSUME NEW a \in Agents, NEW k \in Connections, NEW t \in TargetIds,
             NEW capabilities \in TargetCapabilities, UpdateTarget(a, k, t, capabilities)
      PROVE  TypeOK'
    <2>1. targets[t] \in Target
        BY <1>4 DEF TypeOK, UpdateTarget, Owned
    <2>2. targets' \in [TargetIds -> Target \cup {None}]
        BY <1>4, <2>1 DEF TypeOK, UpdateTarget, Target
    <2> QED
        BY <1>4, <2>2, DropLeasesType DEF TypeOK, UpdateTarget, providerVars, clientVars
<1>5. ASSUME NEW a \in Agents, NEW k \in Connections, NEW t \in TargetIds, RevokeTarget(a, k, t)
      PROVE  TypeOK'
    BY <1>5, WithoutType, ReleaseType DEF TypeOK, RevokeTarget, providerVars, clientVars
<1>6. ASSUME NEW t \in TargetIds, RevokeTargetByHost(t) PROVE TypeOK'
    BY <1>6, WithoutType, ReleaseType DEF TypeOK, RevokeTargetByHost, providerVars, clientVars
<1>7. ASSUME NEW a \in Agents, NEW k \in Connections, NEW listed \in Listings,
             ReconcileTargets(a, k, listed)
      PROVE  TypeOK'
    <2> DEFINE gone == Fenced(a, k) \cup (Owned(a) \ DOMAIN listed)
               present == {t \in DOMAIN listed : targets[t] # None /\ t \notin gone}
               rejected == {t \in DOMAIN listed :
                               IF t \in present THEN ~AgentOwnsTarget(a, t, gone)
                               ELSE ~FreshGeneration(t, listed[t].generation)}
    <2>1. PICK done \in IF rejected = {} THEN {DOMAIN listed}
                        ELSE SUBSET (DOMAIN listed \ rejected) :
             LET renewed == {t \in done \cap present :
                                targets[t].generation < listed[t].generation}
                 updated == {t \in done \cap present :
                                targets[t].generation = listed[t].generation}
                 published == renewed \cup (done \ present)
                 revoked == gone \cup renewed
             IN  /\ targets' = [t \in TargetIds |->
                       CASE t \in published ->
                              [agent |-> a, generation |-> listed[t].generation,
                               capabilities |-> listed[t].capabilities]
                         [] t \in updated ->
                              [targets[t] EXCEPT !.capabilities = listed[t].capabilities]
                         [] t \in gone \ published -> None
                         [] OTHER -> targets[t]]
                 /\ highest' = [t \in TargetIds |->
                       IF t \in published THEN listed[t].generation ELSE highest[t]]
                 /\ executors' = [t \in TargetIds |->
                       IF rejected = {} /\ t \in published \cup updated
                       THEN [agent |-> a, connection |-> k, generation |-> listed[t].generation]
                       ELSE IF t \in revoked THEN None ELSE executors[t]]
                 /\ Release(revoked,
                       UNION {Unsupported(t, listed[t].capabilities) : t \in updated})
        BY <1>7 DEF ReconcileTargets
    <2> DEFINE renewed == {t \in done \cap present :
                              targets[t].generation < listed[t].generation}
               updated == {t \in done \cap present :
                              targets[t].generation = listed[t].generation}
               published == renewed \cup (done \ present)
               revoked == gone \cup renewed
    <2>2. done \subseteq DOMAIN listed
        BY <2>1
    <2>3. \A t \in DOMAIN listed : /\ listed[t].generation \in Generations
                                  /\ listed[t].capabilities \in CapabilityGrant
        BY DEF Listings
    <2>4. \A t \in present : targets[t] \in Target
        BY <2>3 DEF TypeOK, Listings
    <2>5. \A t \in TargetIds : targets'[t] \in Target \cup {None}
        BY <2>1, <2>2, <2>3, <2>4 DEF Target, TypeOK
    <2>6. \A t \in TargetIds : executors'[t] \in Executor \cup {None}
        BY <2>1, <2>2, <2>3 DEF Executor, TypeOK
    <2>7. \A t \in TargetIds : highest'[t] \in 0 .. MaxGeneration
        BY <2>1, <2>2, <2>3 DEF TypeOK
    <2>8. /\ targets' \in [TargetIds -> Target \cup {None}]
          /\ executors' \in [TargetIds -> Executor \cup {None}]
          /\ highest' \in [TargetIds -> 0 .. MaxGeneration]
        BY <2>1, <2>5, <2>6, <2>7
    <2>9. Release(revoked, UNION {Unsupported(t, listed[t].capabilities) : t \in updated})
        BY <2>1
    <2> QED
        BY <1>7, <2>8, <2>9, ReleaseType, AdoptConnectionType DEF TypeOK, ReconcileTargets, clientVars
<1>8. ASSUME NEW a \in Agents, NEW k \in Connections, CloseProviderConnection(a, k)
      PROVE  TypeOK'
    BY <1>8, WithoutType, ReleaseType DEF TypeOK, CloseProviderConnection, clientVars
<1> QED
    BY <1>1, <1>2, <1>3, <1>4, <1>5, <1>6, <1>7, <1>8 DEF ProviderStep

LEMMA ClientStepType ==
    ASSUME TypeOK, ClientStep
    PROVE  TypeOK'
<1> USE ConstantsAssumption
<1>1. ASSUME NEW c \in Clients, NEW granted \in Authorities, ConnectClient(c, granted)
      PROVE  TypeOK'
    BY <1>1 DEF TypeOK, ConnectClient, providerVars, directoryVars, leaseVars, workVars
<1>2. ASSUME NEW c \in Clients, DisconnectClient(c) PROVE TypeOK'
    <2> DEFINE p == PrincipalOf[c]
    <2>1. p \in Principals
        OBVIOUS
    <2>2. graceAt' \in [Principals -> Nat \cup {None}]
        <3>1. ReconnectGrace \notin {0, NoDeadline} => now + ReconnectGrace \in Nat
            BY DEF TypeOK
        <3> QED
            BY <1>2, <2>1, <3>1 DEF TypeOK, DisconnectClient
    <2>3. leases' \in [LeaseIds -> Lease \cup {None}]
        BY <1>2, WithoutType DEF TypeOK, DisconnectClient
    <2>4. operations' \in [Operations -> Operation \cup {None}]
        BY <1>2, AbortingType DEF TypeOK, DisconnectClient
    <2>5. subscriptions' \in [Subscriptions -> Subscription \cup {None}]
        BY <1>2, WithoutType DEF TypeOK, DisconnectClient
    <2>6. /\ connected' = connected \ {c}
          /\ UNCHANGED <<disposed, now, providerVars, directoryVars, authority, acquired>>
        BY <1>2 DEF DisconnectClient
    <2> QED
        BY <2>2, <2>3, <2>4, <2>5, <2>6 DEF TypeOK, providerVars, directoryVars
<1>3. ASSUME NEW p \in Principals, GraceExpires(p) PROVE TypeOK'
    <2>1. leases' \in [LeaseIds -> Lease \cup {None}]
        BY <1>3, WithoutType DEF TypeOK, GraceExpires
    <2>2. graceAt' \in [Principals -> Nat \cup {None}]
        BY <1>3 DEF TypeOK, GraceExpires
    <2> QED
        BY <1>3, <2>1, <2>2 DEF TypeOK, GraceExpires, providerVars, directoryVars, workVars
<1>4. ASSUME NEW c \in Clients, NEW granted \in Authorities, RefreshClientAuthority(c, granted)
      PROVE  TypeOK'
    <2> DEFINE lost == {l \in LeasesOf(PrincipalOf[c]) : ~Tolerates(granted, leases[l])}
    <2>1. operations' \in [Operations -> Operation \cup {None}]
        BY <1>4, AbortingType DEF TypeOK, RefreshClientAuthority
    <2>2. DropLeases(lost)
        BY <1>4 DEF RefreshClientAuthority
    <2>3. authority' \in [Clients -> Authority \cup {None}]
        BY <1>4 DEF TypeOK, RefreshClientAuthority
    <2>4. UNCHANGED <<disposed, now, providerVars, directoryVars, connected, graceAt, acquired>>
        BY <1>4 DEF RefreshClientAuthority
    <2> QED
        BY <2>1, <2>2, <2>3, <2>4, DropLeasesType DEF TypeOK, providerVars, directoryVars
<1> QED
    BY <1>1, <1>2, <1>3, <1>4 DEF ClientStep

LEMMA LeaseStepType ==
    ASSUME TypeOK, LeaseStep
    PROVE  TypeOK'
<1> USE ConstantsAssumption
<1> USE DEF providerVars, directoryVars, clientVars
<1>1. ASSUME NEW c \in Clients, NEW t \in TargetIds, NEW methods \in MethodSets,
             NEW mode \in Modes, NEW d \in Durations, AcquireLease(c, t, methods, mode, d)
      PROVE  TypeOK'
    <2> DEFINE l == acquired + 1
               expiry == ExpiryFor(now, d)
               lease == [principal |-> PrincipalOf[c], target |-> t,
                         generation |-> targets[t].generation,
                         methods |-> methods, mode |-> mode,
                         issuedAt |-> now, expiresAt |-> expiry, timerAt |-> TimerFor(expiry)]
    <2>1. expiry \in Nat /\ TimerFor(expiry) \in Nat
        BY ExpiryType DEF TypeOK
    <2>2. targets[t] \in Target
        BY <1>1 DEF TypeOK, AcquireLease, Requestable, MayUse, Authorized
    <2>3. lease \in Lease
        BY <2>1, <2>2 DEF Lease, Target, TypeOK
    <2>4. leases' = [Without(leases, ExpiredLeases) EXCEPT ![l] = lease] /\ l \in LeaseIds
        BY <1>1 DEF AcquireLease
    <2>5. Without(leases, ExpiredLeases) \in [LeaseIds -> Lease \cup {None}]
        BY WithoutType DEF TypeOK
    <2>6. leases' \in [LeaseIds -> Lease \cup {None}]
        <3> HIDE DEF lease, l
        <3> QED BY <2>3, <2>4, <2>5
    <2>7. acquired' \in 0 .. MaxLease
        BY <1>1 DEF AcquireLease, TypeOK
    <2>8. UNCHANGED <<disposed, now, providerVars, directoryVars, clientVars, workVars>>
        BY <1>1 DEF AcquireLease
    <2> QED
        BY <2>6, <2>7, <2>8 DEF TypeOK, workVars
<1>2. ASSUME NEW c \in Clients, NEW t \in TargetIds, NEW methods \in MethodSets,
             NEW mode \in Modes, NEW d \in Durations, AcquireRefused(c, t, methods, mode, d)
      PROVE  TypeOK'
    <2>1. leases' = Without(leases, ExpiredLeases)
        BY <1>2 DEF AcquireRefused
    <2>2. leases' \in [LeaseIds -> Lease \cup {None}]
        BY <2>1, WithoutType DEF TypeOK
    <2>3. UNCHANGED <<disposed, now, providerVars, directoryVars, clientVars, acquired, workVars>>
        BY <1>2 DEF AcquireRefused
    <2> QED
        BY <2>2, <2>3 DEF TypeOK, workVars
<1>3. ASSUME NEW c \in Clients, NEW l \in LeaseIds, NEW d \in Durations, RenewLease(c, l, d)
      PROVE  TypeOK'
    <2> DEFINE expiry == ExpiryFor(leases[l].issuedAt, d)
    <2>1. UNCHANGED <<disposed, now, providerVars, directoryVars, clientVars, acquired, operations>>
        BY <1>3 DEF RenewLease
    <2>2. CASE DropLeases({l})
        BY <2>1, <2>2, DropLeasesType DEF TypeOK
    <2>3. CASE /\ leases' = [leases EXCEPT ![l].expiresAt = expiry, ![l].timerAt = TimerFor(expiry)]
               /\ UNCHANGED subscriptions
        <3>1. leases[l] \in Lease
            BY <1>3 DEF RenewLease, Active, MayName, LeasesOf, HeldLeases, TypeOK
        <3>2. expiry \in Nat /\ TimerFor(expiry) \in Nat
            BY <3>1, ExpiryType DEF Lease
        <3>3. [leases[l] EXCEPT !.expiresAt = expiry, !.timerAt = TimerFor(expiry)] \in Lease
            BY <3>1, <3>2 DEF Lease
        <3>4. leases' \in [LeaseIds -> Lease \cup {None}]
            <4> HIDE DEF expiry
            <4> QED BY <2>3, <3>3 DEF TypeOK
        <3> QED
            BY <2>1, <2>3, <3>4 DEF TypeOK
    <2> QED
        BY <1>3, <2>2, <2>3 DEF RenewLease
<1>4. ASSUME NEW c \in Clients, NEW l \in LeaseIds, ReleaseLease(c, l) \/ UseExpiredLease(c, l)
      PROVE  TypeOK'
    BY <1>4, DropLeasesType DEF TypeOK, ReleaseLease, UseExpiredLease
<1>5. ASSUME NEW l \in LeaseIds, LeaseTimerFires(l) PROVE TypeOK'
    BY <1>5, DropLeasesType DEF TypeOK, LeaseTimerFires
<1> QED
    BY <1>1, <1>2, <1>3, <1>4, <1>5 DEF LeaseStep

LEMMA CommandStepType ==
    ASSUME TypeOK, CommandStep
    PROVE  TypeOK'
<1> USE DEF OnlyOperations, providerVars, directoryVars, clientVars, leaseVars
<1>1. SUFFICES operations' \in [Operations -> Operation \cup {None}]
    BY ZenonT(60) DEF TypeOK, CommandStep, ExecuteCommand, Dispatch, ActivationFails, ExecutorResponds,
           AbortSettles, CancelCommand, CommandTimesOut
<1>2. ASSUME NEW c \in Clients, NEW o \in Operations, NEW l \in LeaseIds, NEW m \in Names,
             NEW phase \in {"activating", "dispatched"}, ExecuteCommand(c, o, l, m, phase)
      PROVE  operations' \in [Operations -> Operation \cup {None}]
    <2> DEFINE t == leases[l].target
               op == [phase |-> phase, aborted |-> "no", client |-> c, lease |-> l, target |-> t,
                      generation |-> leases[l].generation, executor |-> executors[t]]
    <2>1. leases[l] \in Lease
        BY <1>2 DEF ExecuteCommand, Active, MayName, LeasesOf, HeldLeases, TypeOK
    <2>2. executors[t] \in Executor
        BY <1>2, <2>1 DEF ExecuteCommand, TypeOK, Lease
    <2>3. op \in Operation
        BY <2>1, <2>2 DEF Operation, Lease
    <2>4. operations' = [operations EXCEPT ![o] = op]
        BY <1>2 DEF ExecuteCommand
    <2> HIDE DEF op
    <2> QED
        BY <2>3, <2>4 DEF TypeOK
<1>3. ASSUME NEW o \in Operations, Dispatch(o)
      PROVE  operations' \in [Operations -> Operation \cup {None}]
    <2>1. operations[o] \in Operation
        BY <1>3 DEF Dispatch, Running, TypeOK
    <2>2. [operations[o] EXCEPT !.phase = "dispatched"] \in Operation
        BY <2>1 DEF Operation
    <2> QED
        BY <1>3, <2>2 DEF Dispatch, TypeOK
<1>4. ASSUME NEW o \in Operations, ActivationFails(o) \/ ExecutorResponds(o) \/ AbortSettles(o)
      PROVE  operations' \in [Operations -> Operation \cup {None}]
    BY <1>4 DEF ActivationFails, ExecutorResponds, AbortSettles, TypeOK
<1>5. ASSUME NEW c \in Clients, NEW o \in Operations, CancelCommand(c, o) \/ CommandTimesOut(o)
      PROVE  operations' \in [Operations -> Operation \cup {None}]
    BY ZenonT(60), <1>5, AbortingType DEF CancelCommand, CommandTimesOut, Running, TypeOK
<1>6. ASSUME NEW o \in Operations, CommandTimesOut(o)
      PROVE  operations' \in [Operations -> Operation \cup {None}]
    BY <1>6, AbortingType DEF CommandTimesOut, Running, TypeOK
<1> QED
    BY <1>2, <1>3, <1>4, <1>5, <1>6 DEF CommandStep

LEMMA SubscriptionStepType ==
    ASSUME TypeOK, SubscriptionStep
    PROVE  TypeOK'
<1> USE DEF OnlySubscriptions, providerVars, directoryVars, clientVars, leaseVars
<1> USE DEF Subscription
<1>1. ASSUME NEW c \in Clients, NEW s \in Subscriptions, NEW l \in LeaseIds, Subscribe(c, s, l)
      PROVE  TypeOK'
    <2>1. leases[l] \in Lease
        BY <1>1 DEF Subscribe, Active, MayName, LeasesOf, HeldLeases, TypeOK
    <2>2. subscriptions' \in [Subscriptions -> Subscription \cup {None}]
        BY <1>1, <2>1 DEF Subscribe, TypeOK, Lease
    <2> QED
        BY <1>1, <2>2 DEF Subscribe, TypeOK
<1>2. ASSUME NEW s \in Subscriptions, SubscriptionOpens(s)
      PROVE  TypeOK'
    <2>1. subscriptions[s] \in Subscription
        BY <1>2 DEF SubscriptionOpens, TypeOK
    <2>2. subscriptions' \in [Subscriptions -> Subscription \cup {None}]
        BY <1>2, <2>1 DEF SubscriptionOpens, TypeOK
    <2> QED
        BY <1>2, <2>2 DEF SubscriptionOpens, TypeOK
<1>3. ASSUME NEW s \in Subscriptions, SubscriptionFails(s) \/ CloseSubscription(s)
      PROVE  TypeOK'
    BY <1>3 DEF SubscriptionFails, CloseSubscription, TypeOK
<1>4. ASSUME NEW t \in TargetIds, PublishEvent(t)
      PROVE  TypeOK'
    <2>1. leases' \in [LeaseIds -> Lease \cup {None}]
        BY <1>4, WithoutType DEF TypeOK, PublishEvent
    <2>2. subscriptions' \in [Subscriptions -> Subscription \cup {None}]
        BY <1>4, WithoutType DEF TypeOK, PublishEvent
    <2> QED
        BY <1>4, <2>1, <2>2 DEF PublishEvent, TypeOK
<1> QED
    BY <1>1, <1>2, <1>3, <1>4 DEF SubscriptionStep

(* Every step keeps every state map within its type.                       *)
LEMMA StepType ==
    ASSUME TypeOK, [Next]_vars
    PROVE  TypeOK'
<1>1. CASE Dispose
    <2>1. operations' \in [Operations -> Operation \cup {None}]
        BY <1>1, AbortingType DEF TypeOK, Dispose
    <2>2. subscriptions' \in [Subscriptions -> Subscription \cup {None}]
        BY <1>1, WithoutType DEF TypeOK, Dispose
    <2> QED
        BY <1>1, <2>1, <2>2 DEF TypeOK, Dispose, providerVars
<1>2. CASE Tick
    BY <1>2 DEF TypeOK, Tick, providerVars, directoryVars, clientVars, leaseVars, workVars
<1>3. CASE UNCHANGED vars
    BY <1>3 DEF TypeOK, vars, providerVars, directoryVars, clientVars, leaseVars, workVars
<1> QED
    BY <1>1, <1>2, <1>3, ProviderStepType, ClientStepType, LeaseStepType, CommandStepType,
       SubscriptionStepType DEF Next

(* In every reachable state each map holds records of its own type, under  *)
(* its own keys.                                                           *)
THEOREM TypeCorrect == Spec => []TypeOK
<1>1. Init => TypeOK
    <2> SUFFICES ASSUME Init PROVE TypeOK
        OBVIOUS
    <2>1. 0 \in 0 .. MaxConnection /\ 0 \in 0 .. MaxGeneration /\ 0 \in 0 .. MaxLease
        BY ConstantsAssumption
    <2>2. /\ disposed \in BOOLEAN /\ now \in Nat /\ connected \subseteq Clients
          /\ acquired \in 0 .. MaxLease
        BY <2>1 DEF Init
    <2>3. /\ providerConnections \in [Agents -> SUBSET Connections]
          /\ lastConnection \in [Agents -> 0 .. MaxConnection]
          /\ agentConnection \in [Agents -> 0 .. MaxConnection]
          /\ highest \in [TargetIds -> 0 .. MaxGeneration]
        BY <2>1 DEF Init
    <2>4. /\ targets \in [TargetIds -> Target \cup {None}]
          /\ executors \in [TargetIds -> Executor \cup {None}]
          /\ authority \in [Clients -> Authority \cup {None}]
          /\ graceAt \in [Principals -> Nat \cup {None}]
        BY DEF Init
    <2>5. /\ leases \in [LeaseIds -> Lease \cup {None}]
          /\ operations \in [Operations -> Operation \cup {None}]
          /\ subscriptions \in [Subscriptions -> Subscription \cup {None}]
        BY DEF Init
    <2> QED
        BY <2>2, <2>3, <2>4, <2>5 DEF TypeOK
<1>2. TypeOK /\ [Next]_vars => TypeOK'
    BY StepType
<1> QED
    BY <1>1, <1>2, PTL DEF Spec

-----------------------------------------------------------------------------
(* Exclusive leases                                                        *)

(* The end of a lease's lifetime, or of time                               *)
LatestExpiry(lease) ==
    IF MaximumLifetime = NoDeadline THEN MaxTime ELSE lease.issuedAt + MaximumLifetime

(* No lease is replaced by one on other terms, and one that has expired or *)
(* has reached the end of its lifetime is not prolonged.                   *)
LeasesKept ==
    \A l \in LeaseIds : leases'[l] # None =>
        /\ leases[l] # None
        /\ leases'[l].target = leases[l].target
        /\ leases'[l].generation = leases[l].generation
        /\ leases'[l].mode = leases[l].mode
        /\ leases'[l].methods = leases[l].methods
        /\ leases'[l].principal = leases[l].principal
        /\ leases'[l].issuedAt = leases[l].issuedAt
        /\ \/ leases'[l].expiresAt = leases[l].expiresAt
           \/ ~Expired(l) /\ leases'[l].expiresAt =< LatestExpiry(leases[l])

LEMMA WithoutKeepsLeases ==
    ASSUME TypeOK, NEW lost, leases' = Without(leases, lost)
    PROVE  LeasesKept
BY DEF LeasesKept, Without, TypeOK

LEMMA ProviderStepKeepsLeases ==
    ASSUME TypeOK, ProviderStep
    PROVE  LeasesKept
<1> USE WithoutKeepsLeases
<1>1. ASSUME NEW a \in Agents, NEW k \in Connections, NEW listed \in Listings,
             ReconcileTargets(a, k, listed)
      PROVE  \E lost : leases' = Without(leases, lost)
    BY <1>1 DEF ReconcileTargets, Release
<1>2. ASSUME NEW a \in Agents, NEW k \in Connections, CloseProviderConnection(a, k)
      PROVE  \E lost : leases' = Without(leases, lost)
    BY <1>2 DEF CloseProviderConnection, Release
<1>3. ASSUME NEW a \in Agents, NEW k \in Connections, NEW t \in TargetIds,
             NEW g \in Generations, NEW capabilities \in TargetCapabilities,
             PublishTarget(a, k, t, g, capabilities)
      PROVE  \E lost : leases' = Without(leases, lost)
    BY <1>3 DEF PublishTarget, Release
<1>4. ASSUME NEW a \in Agents, NEW k \in Connections, FenceOnly(a, k)
      PROVE  \E lost : leases' = Without(leases, lost)
    BY <1>4 DEF FenceOnly, Release
<1>5. ASSUME NEW a \in Agents, NEW k \in Connections, NEW t \in TargetIds, RevokeTarget(a, k, t)
      PROVE  \E lost : leases' = Without(leases, lost)
    BY <1>5 DEF RevokeTarget, Release
<1>6. ASSUME NEW t \in TargetIds, RevokeTargetByHost(t)
      PROVE  \E lost : leases' = Without(leases, lost)
    BY <1>6 DEF RevokeTargetByHost, Release
<1>7. ASSUME NEW a \in Agents, OpenProviderConnection(a)
      PROVE  LeasesKept
    BY <1>7 DEF OpenProviderConnection, leaseVars, LeasesKept
<1>8. ASSUME NEW a \in Agents, NEW k \in Connections, NEW t \in TargetIds,
             NEW capabilities \in TargetCapabilities, UpdateTarget(a, k, t, capabilities)
      PROVE  \E lost : leases' = Without(leases, lost)
    BY <1>8 DEF UpdateTarget, DropLeases
<1> QED
    BY <1>1, <1>2, <1>3, <1>4, <1>5, <1>6, <1>7, <1>8 DEF ProviderStep

(* Only an acquire adds a lease.                                           *)
LEMMA OnlyAcquireAddsLeases ==
    ASSUME TypeOK, [Next]_vars,
           \A c \in Clients, t \in TargetIds, methods \in MethodSets, mode \in Modes,
              d \in Durations : ~AcquireLease(c, t, methods, mode, d)
    PROVE  LeasesKept
<1> USE WithoutKeepsLeases
<1>1. CASE UNCHANGED leases
    BY <1>1 DEF LeasesKept
<1>2. CASE ProviderStep
    BY <1>2, ProviderStepKeepsLeases
<1>3. CASE ClientStep
    BY <1>1, <1>3 DEF ClientStep, ConnectClient, DisconnectClient, GraceExpires,
        RefreshClientAuthority, DropLeases, leaseVars
<1>4. CASE LeaseStep
    <2>1. ASSUME NEW c \in Clients, NEW l \in LeaseIds, NEW d \in Durations, RenewLease(c, l, d)
          PROVE  LeasesKept
        <3> DEFINE e == ExpiryFor(leases[l].issuedAt, d)
        <3>1. CASE DropLeases({l})
            BY <3>1 DEF DropLeases
        <3>2. ASSUME leases' = [leases EXCEPT ![l].expiresAt = e, ![l].timerAt = TimerFor(e)]
              PROVE  LeasesKept
            <4>1. leases[l] \in Lease /\ leases[l] # None /\ ~Expired(l)
                BY <2>1 DEF RenewLease, Active, MayName, LeasesOf, HeldLeases, TypeOK
            <4>2. e =< LatestExpiry(leases[l])
                <5>1. e =< MaxTime
                    BY <2>1 DEF RenewLease
                <5>2. MaximumLifetime # NoDeadline => e =< leases[l].issuedAt + MaximumLifetime
                    BY <2>1, <4>1, ExpiryWithin DEF Lease
                <5> QED
                    BY <5>1, <5>2 DEF LatestExpiry
            <4> HIDE DEF e
            <4>3. /\ leases'[l] = [leases[l] EXCEPT !.expiresAt = e, !.timerAt = TimerFor(e)]
                  /\ \A m \in LeaseIds \ {l} : leases'[m] = leases[m]
                BY <3>2 DEF TypeOK
            <4>4. /\ leases'[l].target = leases[l].target
                  /\ leases'[l].generation = leases[l].generation
                  /\ leases'[l].mode = leases[l].mode
                  /\ leases'[l].methods = leases[l].methods
                  /\ leases'[l].principal = leases[l].principal
                  /\ leases'[l].issuedAt = leases[l].issuedAt
                  /\ leases'[l].expiresAt = e
                BY <4>1, <4>3 DEF Lease
            <4> QED
                BY <4>1, <4>2, <4>3, <4>4 DEF LeasesKept
        <3> QED
            BY <2>1, <3>1, <3>2 DEF RenewLease
    <2> QED
        BY <1>4, <2>1 DEF LeaseStep, AcquireRefused, ReleaseLease, UseExpiredLease,
            LeaseTimerFires, DropLeases
<1>5. CASE CommandStep
    BY <1>1, <1>5 DEF CommandStep, ExecuteCommand, Dispatch, ActivationFails, ExecutorResponds,
        AbortSettles, CancelCommand, CommandTimesOut, OnlyOperations, leaseVars
<1>6. CASE SubscriptionStep
    BY <1>1, <1>6 DEF SubscriptionStep, Subscribe, SubscriptionOpens, SubscriptionFails,
        CloseSubscription, PublishEvent, OnlySubscriptions, leaseVars
<1>7. CASE Dispose
    BY <1>7 DEF Dispose, LeasesKept
<1>8. CASE Tick \/ UNCHANGED vars
    BY <1>1, <1>8 DEF Tick, vars, leaseVars
<1> QED
    BY <1>2, <1>3, <1>4, <1>5, <1>6, <1>7, <1>8 DEF Next

(* Whoever is granted control of a target generation is alone in it: the   *)
(* conflict check of acquireLease, made after the expired leases have been *)
(* removed, keeps exclusive leases apart through every other operation.    *)
THEOREM Exclusion == Spec => []ExclusiveController
<1>1. Init => ExclusiveController
    BY DEF Init, ExclusiveController, HeldLeases
<1>2. TypeOK /\ ExclusiveController /\ [Next]_vars => ExclusiveController'
    <2> SUFFICES ASSUME TypeOK, ExclusiveController, [Next]_vars
                 PROVE  ExclusiveController'
        OBVIOUS
    <2>1. ASSUME LeasesKept
          PROVE  ExclusiveController'
        BY <2>1 DEF LeasesKept, ExclusiveController, HeldLeases
    <2>2. ASSUME NEW c \in Clients, NEW t \in TargetIds, NEW methods \in MethodSets,
                 NEW mode \in Modes, NEW d \in Durations, AcquireLease(c, t, methods, mode, d)
          PROVE  ExclusiveController'
        <3> DEFINE new == acquired + 1
                   kept == HeldLeases \ ExpiredLeases
        <3>1. /\ new \in LeaseIds
              /\ leases'[new].target = t /\ leases'[new].mode = mode
              /\ leases'[new].generation = targets[t].generation
              /\ mode = "exclusive-control" => Conflicting(t, kept) = {}
              /\ targets[t] # None
            BY <2>2 DEF AcquireLease, Without, TypeOK, Requestable, MayUse, Authorized
        <3>2. \A l \in LeaseIds \ {new} : leases'[l] # None => l \in kept /\ leases'[l] = leases[l]
            BY <2>2 DEF AcquireLease, Without, TypeOK, HeldLeases
        <3>3. \A l \in kept : /\ leases[l].mode = "exclusive-control"
                              /\ leases[l].target = t
                              /\ leases[l].generation = targets[t].generation
                              => l \in Conflicting(t, kept)
            BY <3>1 DEF Conflicting, OnCurrent
        <3>4. kept \subseteq HeldLeases
            OBVIOUS
        <3> HIDE DEF kept, new
        <3> QED
            BY <3>1, <3>2, <3>3, <3>4 DEF ExclusiveController, HeldLeases
    <2> QED
        BY <2>1, <2>2, OnlyAcquireAddsLeases
<1> QED
    BY <1>1, <1>2, TypeCorrect, PTL DEF Spec

-----------------------------------------------------------------------------
(* What a provider's step does to the directory: the targets in R lose     *)
(* their leases and operations, every other published target stays what it *)
(* was, and a provider whose connection is superseded has its targets in R.*)
Releases(R, lost) ==
    /\ leases' = Without(leases, LeasesOn(R) \cup lost)
    /\ operations' = Aborting(OperationsOn(R))
    /\ \A t \in TargetIds \ R : targets[t] # None =>
          /\ targets'[t] # None
          /\ targets'[t].agent = targets[t].agent
          /\ targets'[t].generation = targets[t].generation
    /\ \A a \in Agents : agentConnection'[a] # agentConnection[a] => Owned(a) \subseteq R
    /\ UNCHANGED connected

LEMMA NothingWithout ==
    ASSUME TypeOK
    PROVE  /\ leases = Without(leases, LeasesOn({}) \cup {})
           /\ operations = Aborting(OperationsOn({}))
BY DEF TypeOK, Without, Aborting, LeasesOn, OperationsOn

LEMMA AdoptingFences ==
    ASSUME TypeOK, NEW a \in Agents, NEW k \in Connections, AdoptConnection(a, k), Unfenced(a, k)
    PROVE  \A b \in Agents : agentConnection'[b] # agentConnection[b] => Owned(b) \subseteq Fenced(a, k)
<1>1. agentConnection[a] \in Nat /\ k \in Nat /\ k >= agentConnection[a]
    BY ConstantsAssumption DEF Unfenced, TypeOK
<1>2. \A b \in Agents : agentConnection'[b] = IF b = a THEN k ELSE agentConnection[b]
    BY DEF AdoptConnection, TypeOK
<1> QED
    BY <1>1, <1>2 DEF Fenced

LEMMA ProviderStepReleases ==
    ASSUME TypeOK, ~RepublishesOver, ProviderStep
    PROVE  \E R \in SUBSET TargetIds : \E lost : Releases(R, lost)
<1> USE DEF clientVars, leaseVars, workVars, providerVars, directoryVars
<1>1. ASSUME NEW a \in Agents, OpenProviderConnection(a)
      PROVE  Releases({}, {})
    BY <1>1, NothingWithout DEF OpenProviderConnection, Releases
<1>2. ASSUME NEW a \in Agents, NEW k \in Connections, FenceOnly(a, k)
      PROVE  Releases(Fenced(a, k), {})
    BY <1>2, AdoptingFences DEF FenceOnly, Release, Releases, Without, TypeOK
<1>3. ASSUME NEW a \in Agents, NEW k \in Connections, NEW t \in TargetIds, NEW g \in Generations,
             NEW capabilities \in TargetCapabilities, PublishTarget(a, k, t, g, capabilities)
      PROVE  Releases(Fenced(a, k), {})
    <2>1. targets[t] = None \/ t \in Fenced(a, k)
        BY <1>3 DEF PublishTarget
    <2>2. \A u \in TargetIds \ Fenced(a, k) : u # t => targets'[u] = targets[u]
        BY <1>3 DEF PublishTarget, Without, TypeOK
    <2>3. Release(Fenced(a, k), {}) /\ AdoptConnection(a, k) /\ Unfenced(a, k)
          /\ UNCHANGED connected
        BY <1>3 DEF PublishTarget
    <2> QED
        BY <2>1, <2>2, <2>3, AdoptingFences DEF Release, Releases
<1>4. ASSUME NEW a \in Agents, NEW k \in Connections, NEW t \in TargetIds,
             NEW capabilities \in TargetCapabilities, UpdateTarget(a, k, t, capabilities)
      PROVE  Releases({}, Unsupported(t, capabilities))
    <2>1. targets[t] \in Target
        BY <1>4 DEF TypeOK, UpdateTarget, Owned
    <2>2. targets' = [targets EXCEPT ![t].capabilities = capabilities]
        BY <1>4 DEF UpdateTarget
    <2>3. /\ targets'[t] = [targets[t] EXCEPT !.capabilities = capabilities]
          /\ \A u \in TargetIds \ {t} : targets'[u] = targets[u]
        BY <2>2 DEF TypeOK
    <2>4. targets'[t] \in Target /\ targets'[t].agent = targets[t].agent
          /\ targets'[t].generation = targets[t].generation
        BY <1>4, <2>1, <2>3, ConstantsAssumption DEF Target
    <2>5. \A u \in TargetIds : targets[u] # None =>
             /\ targets'[u] # None
             /\ targets'[u].agent = targets[u].agent
             /\ targets'[u].generation = targets[u].generation
        BY <2>3, <2>4, AbsenceAssumption
    <2>6. /\ leases' = Without(leases, Unsupported(t, capabilities))
          /\ UNCHANGED <<operations, agentConnection, connected>>
        BY <1>4 DEF UpdateTarget, DropLeases
    <2> QED
        BY <2>5, <2>6, NothingWithout DEF Releases, LeasesOn
<1>5. ASSUME NEW a \in Agents, NEW k \in Connections, NEW t \in TargetIds, RevokeTarget(a, k, t)
      PROVE  Releases({t}, {})
    BY <1>5 DEF RevokeTarget, Release, Releases, Without, TypeOK
<1>6. ASSUME NEW t \in TargetIds, RevokeTargetByHost(t)
      PROVE  Releases({t}, {})
    BY <1>6 DEF RevokeTargetByHost, Release, Releases, Without, TypeOK
<1>8. ASSUME NEW a \in Agents, NEW k \in Connections, CloseProviderConnection(a, k)
      PROVE  \E R \in SUBSET TargetIds : Releases(R, {})
    <2> DEFINE R == IF RevokeOnDisconnect /\ agentConnection[a] \in {0, k} THEN Owned(a) ELSE {}
    <2>1. R \in SUBSET TargetIds
        BY DEF Owned
    <2>2. /\ Release(R, {}) /\ targets' = Without(targets, R)
          /\ UNCHANGED <<agentConnection, connected>>
        BY <1>8 DEF CloseProviderConnection
    <2> HIDE DEF R
    <2> QED
        BY <2>1, <2>2 DEF Release, Releases, Without, TypeOK
<1>7. ASSUME NEW a \in Agents, NEW k \in Connections, NEW listed \in Listings,
             ReconcileTargets(a, k, listed)
      PROVE  \E R \in SUBSET TargetIds : \E lost : Releases(R, lost)
    <2> DEFINE gone == Fenced(a, k) \cup (Owned(a) \ DOMAIN listed)
               present == {t \in DOMAIN listed : targets[t] # None /\ t \notin gone}
    <2>1. PICK done, rejected :
             /\ done \subseteq DOMAIN listed
             /\ LET renewed == {t \in done \cap present :
                                   targets[t].generation < listed[t].generation}
                    updated == {t \in done \cap present :
                                   targets[t].generation = listed[t].generation}
                    published == renewed \cup (done \ present)
                IN  /\ targets' = [t \in TargetIds |->
                          CASE t \in published ->
                                 [agent |-> a, generation |-> listed[t].generation,
                                  capabilities |-> listed[t].capabilities]
                            [] t \in updated ->
                                 [targets[t] EXCEPT !.capabilities = listed[t].capabilities]
                            [] t \in gone \ published -> None
                            [] OTHER -> targets[t]]
                    /\ Release(gone \cup renewed,
                          UNION {Unsupported(t, listed[t].capabilities) : t \in updated})
        BY <1>7 DEF ReconcileTargets
    <2> DEFINE renewed == {t \in done \cap present :
                              targets[t].generation < listed[t].generation}
               updated == {t \in done \cap present :
                              targets[t].generation = listed[t].generation}
               published == renewed \cup (done \ present)
               lost == UNION {Unsupported(t, listed[t].capabilities) : t \in updated}
               R == gone \cup renewed
    <2>2. DOMAIN listed \subseteq TargetIds
        BY DEF Listings
    <2>3. R \in SUBSET TargetIds
        BY <2>2 DEF Fenced, Owned
    <2>4. ASSUME NEW t \in TargetIds \ R, targets[t] # None
          PROVE  /\ targets'[t] # None
                 /\ targets'[t].agent = targets[t].agent
                 /\ targets'[t].generation = targets[t].generation
        <3>1. t \notin published /\ t \notin gone
            BY <2>1, <2>4
        <3>2. targets[t] \in Target
            BY <2>4 DEF TypeOK
        <3>3. targets'[t] \in {targets[t], [targets[t] EXCEPT !.capabilities = listed[t].capabilities]}
            BY <2>1, <3>1
        <3>4. \A x : [targets[t] EXCEPT !.capabilities = x].generation = targets[t].generation
                    /\ [targets[t] EXCEPT !.capabilities = x].agent = targets[t].agent
            BY <3>2 DEF Target
        <3>5. t \in updated \/ targets'[t] = targets[t]
            BY <2>1, <3>1
        <3>6. t \in updated => listed[t].capabilities \in CapabilityGrant
            BY ConstantsAssumption, <2>1 DEF Listings
        <3>7. targets'[t] \in Target
            BY <3>2, <3>3, <3>5, <3>6 DEF Target
        <3> QED
            BY <3>3, <3>4, <3>7, AbsenceAssumption
    <2>5. \A b \in Agents : agentConnection'[b] # agentConnection[b] => Owned(b) \subseteq R
        BY <1>7, AdoptingFences DEF ReconcileTargets
    <2>6. UNCHANGED connected /\ Release(R, lost)
        BY <1>7, <2>1 DEF ReconcileTargets
    <2> HIDE DEF R, lost
    <2>7. Releases(R, lost)
        BY <2>4, <2>5, <2>6 DEF Release, Releases
    <2> QED
        BY <2>3, <2>7
<1> QED
    <2>1. {} \in SUBSET TargetIds
          /\ \A t \in TargetIds : {t} \in SUBSET TargetIds
          /\ \A a \in Agents, k \in Connections : Fenced(a, k) \in SUBSET TargetIds
        BY DEF Fenced, Owned
    <2>2. ASSUME NEW R \in SUBSET TargetIds, NEW lost, Releases(R, lost)
          PROVE  \E S \in SUBSET TargetIds : \E other : Releases(S, other)
        BY <2>2
    <2>3. CASE \E a \in Agents, k \in Connections : CloseProviderConnection(a, k)
        BY <1>8, <2>2, <2>3
    <2>4. CASE \E a \in Agents, k \in Connections, listed \in Listings : ReconcileTargets(a, k, listed)
        BY <1>7, <2>4
    <2>5. CASE \E a \in Agents : OpenProviderConnection(a)
        BY <1>1, <2>1, <2>2, <2>5
    <2>6. CASE \E a \in Agents, k \in Connections : FenceOnly(a, k)
        <3>1. PICK a \in Agents, k \in Connections : FenceOnly(a, k)
            BY <2>6
        <3>2. Releases(Fenced(a, k), {}) /\ Fenced(a, k) \in SUBSET TargetIds
            BY <1>2, <2>1, <3>1 DEF Fenced, Owned
        <3> HIDE DEF Connections
        <3> QED
            BY <2>2, <3>2
    <2>7. CASE \E a \in Agents, k \in Connections, t \in TargetIds, g \in Generations,
                  capabilities \in TargetCapabilities : PublishTarget(a, k, t, g, capabilities)
        BY <1>3, <2>1, <2>2, <2>7
    <2>8. CASE \E a \in Agents, k \in Connections, t \in TargetIds,
                  capabilities \in TargetCapabilities : UpdateTarget(a, k, t, capabilities)
        BY <1>4, <2>1, <2>2, <2>8
    <2>9. CASE \E a \in Agents, k \in Connections, t \in TargetIds : RevokeTarget(a, k, t)
        BY <1>5, <2>1, <2>2, <2>9
    <2>10. CASE \E t \in TargetIds : RevokeTargetByHost(t)
        BY <1>6, <2>1, <2>2, <2>10
    <2> QED
        BY <2>3, <2>4, <2>5, <2>6, <2>7, <2>8, <2>9, <2>10 DEF ProviderStep

LEMMA OthersKeepDirectory ==
    ASSUME ClientStep \/ LeaseStep \/ CommandStep \/ SubscriptionStep \/ Tick \/ UNCHANGED vars
    PROVE  UNCHANGED <<targets, executors, agentConnection>>
<1> USE DEF providerVars, directoryVars
<1>1. CASE ClientStep
    BY <1>1 DEF ClientStep, ConnectClient, DisconnectClient, GraceExpires, RefreshClientAuthority
<1>2. CASE LeaseStep
    BY ZenonT(60), <1>2 DEF LeaseStep, AcquireLease, AcquireRefused, RenewLease, ReleaseLease,
        UseExpiredLease, LeaseTimerFires
<1>3. CASE CommandStep
    BY <1>3 DEF CommandStep, ExecuteCommand, Dispatch, ActivationFails, ExecutorResponds,
        AbortSettles, CancelCommand, CommandTimesOut, OnlyOperations
<1>4. CASE SubscriptionStep
    BY <1>4 DEF SubscriptionStep, Subscribe, SubscriptionOpens, SubscriptionFails,
        CloseSubscription, PublishEvent, OnlySubscriptions
<1> QED
    BY <1>1, <1>2, <1>3, <1>4 DEF Tick, vars

-----------------------------------------------------------------------------
(* The leases of a target go in the step that takes the target's           *)
(* generation out of the directory: a revocation, a reconciliation, a      *)
(* fencing connection or a provider's disconnection.                       *)
THEOREM LeasesFollowTargets == ~RepublishesOver => (Spec => []LeaseOnPublishedTarget)
<1> SUFFICES ASSUME ~RepublishesOver PROVE Spec => []LeaseOnPublishedTarget
    OBVIOUS
<1>1. Init => LeaseOnPublishedTarget
    BY DEF Init, LeaseOnPublishedTarget, HeldLeases
<1>2. TypeOK /\ LeaseOnPublishedTarget /\ [Next]_vars => LeaseOnPublishedTarget'
    <2> SUFFICES ASSUME TypeOK, LeaseOnPublishedTarget, [Next]_vars,
                        NEW l \in LeaseIds, leases'[l] # None
                 PROVE  OnCurrent(leases[l])'
        BY DEF LeaseOnPublishedTarget, HeldLeases
    <2>1. CASE ProviderStep
        <3>0. PICK R \in SUBSET TargetIds : \E lost : Releases(R, lost)
            BY <2>1, ProviderStepReleases
        <3>1. PICK lost : Releases(R, lost)
            BY <3>0
        <3>2. leases'[l] = leases[l] /\ leases[l] # None /\ l \notin LeasesOn(R)
            BY <3>1 DEF Releases, Without, TypeOK
        <3>3. OnCurrent(leases[l]) /\ leases[l].target \in TargetIds \ R
            BY <3>2 DEF LeaseOnPublishedTarget, HeldLeases, LeasesOn, TypeOK, Lease
        <3> QED
            BY <3>1, <3>2, <3>3 DEF Releases, OnCurrent
    <2>2. ASSUME LeasesKept, UNCHANGED targets
          PROVE  OnCurrent(leases[l])'
        BY <2>2 DEF LeasesKept, LeaseOnPublishedTarget, HeldLeases, OnCurrent
    <2>3. ASSUME NEW c \in Clients, NEW t \in TargetIds, NEW methods \in MethodSets,
                 NEW mode \in Modes, NEW d \in Durations, AcquireLease(c, t, methods, mode, d)
          PROVE  OnCurrent(leases[l])'
        <3>1. targets[t] # None /\ UNCHANGED targets
            BY <2>3 DEF AcquireLease, Requestable, MayUse, Authorized, directoryVars
        <3>2. CASE l = acquired + 1
            <4>1. leases'[l].target = t /\ leases'[l].generation = targets[t].generation
                BY <2>3, <3>2 DEF AcquireLease, Without, TypeOK
            <4> QED
                BY <3>1, <4>1 DEF OnCurrent
        <3>3. CASE l # acquired + 1
            <4>1. leases'[l] = leases[l] /\ leases[l] # None
                BY <2>3, <3>3 DEF AcquireLease, Without, TypeOK
            <4> QED
                BY <3>1, <4>1 DEF LeaseOnPublishedTarget, HeldLeases, OnCurrent
        <3> QED
            BY <3>2, <3>3
    <2>4. ~Dispose
        BY DEF Dispose
    <2> QED
        BY <2>1, <2>2, <2>3, <2>4, OnlyAcquireAddsLeases, OthersKeepDirectory DEF Next
<1> QED
    BY <1>1, <1>2, TypeCorrect, PTL DEF Spec

-----------------------------------------------------------------------------
(* A target that is not published has no executor, so a later publication  *)
(* never inherits one.                                                     *)
ServedWhenPublished == \A t \in TargetIds : targets[t] = None => executors[t] = None

Directory == ServedWhenPublished /\ NewestProviderServes

(* The directory after a step that revokes R: connection k of a has been   *)
(* adopted, and every other entry is a's own or stays as it was.           *)
LEMMA AdoptingKeepsDirectory ==
    ASSUME TypeOK, Directory,
           NEW a \in Agents, NEW k \in Connections, Unfenced(a, k), AdoptConnection(a, k),
           \A t \in TargetIds :
              \/ targets'[t] = None /\ executors'[t] = None
              \/ /\ targets'[t] # None
                 /\ executors'[t] # None =>
                       /\ targets'[t].agent = a
                       /\ executors'[t] = [agent |-> a, connection |-> k,
                                          generation |-> targets'[t].generation]
              \/ /\ t \notin Fenced(a, k)
                 /\ targets'[t] = targets[t] /\ executors'[t] = executors[t]
              \/ /\ t \notin Fenced(a, k) /\ targets[t] # None
                 /\ targets'[t] # None /\ targets'[t].agent = targets[t].agent
                 /\ targets'[t].generation = targets[t].generation
                 /\ executors'[t] = executors[t]
    PROVE  Directory'
<1>1. agentConnection[a] \in Nat /\ k \in Nat /\ k >= agentConnection[a]
    BY ConstantsAssumption DEF Unfenced, TypeOK
<1>2. \A b \in Agents : agentConnection'[b] = IF b = a THEN k ELSE agentConnection[b]
    BY DEF AdoptConnection, TypeOK
<1>3. ASSUME NEW t \in TargetIds, targets[t] # None, t \notin Fenced(a, k)
      PROVE  agentConnection'[targets[t].agent] = agentConnection[targets[t].agent]
    <2>1. targets[t].agent \in Agents
        BY <1>3 DEF TypeOK, Target
    <2> QED
        BY <1>1, <1>2, <1>3, <2>1 DEF Fenced, Owned
<1>4. ASSUME NEW t \in TargetIds, targets'[t] # None, executors'[t] # None
      PROVE  /\ executors'[t].agent = targets'[t].agent
             /\ executors'[t].connection = agentConnection'[targets'[t].agent]
             /\ executors'[t].generation = targets'[t].generation
    <2>1. CASE /\ targets'[t].agent = a
               /\ executors'[t] = [agent |-> a, connection |-> k,
                                  generation |-> targets'[t].generation]
        BY <1>2, <2>1
    <2>2. CASE /\ t \notin Fenced(a, k) /\ targets[t] # None
               /\ targets'[t].agent = targets[t].agent
               /\ targets'[t].generation = targets[t].generation
               /\ executors'[t] = executors[t]
        BY <1>3, <1>4, <2>2 DEF Directory, NewestProviderServes
    <2> QED
        BY <1>4, <2>1, <2>2
<1>5. ASSUME NEW t \in TargetIds, targets'[t] = None
      PROVE  executors'[t] = None
    BY <1>5 DEF Directory, ServedWhenPublished
<1> QED
    BY <1>4, <1>5 DEF Directory, NewestProviderServes, ServedWhenPublished

LEMMA ProviderStepKeepsDirectory ==
    ASSUME TypeOK, Directory, ProviderStep
    PROVE  Directory'
<1> USE DEF clientVars, leaseVars, workVars, providerVars, directoryVars
<1> DEFINE Left(R) == /\ targets' = Without(targets, R) /\ executors' = Without(executors, R)
                      /\ UNCHANGED agentConnection
<1>0. ASSUME NEW R, Left(R)
      PROVE  Directory'
    <2>1. /\ \A t \in TargetIds : /\ targets'[t] = IF t \in R THEN None ELSE targets[t]
                                 /\ executors'[t] = IF t \in R THEN None ELSE executors[t]
          /\ UNCHANGED agentConnection
        BY <1>0 DEF Without, TypeOK
    <2> QED
        BY <2>1 DEF Directory, NewestProviderServes, ServedWhenPublished
<1>1. ASSUME NEW a \in Agents, OpenProviderConnection(a)
      PROVE  Directory'
    BY <1>1 DEF OpenProviderConnection, Directory, NewestProviderServes, ServedWhenPublished
<1>2. ASSUME NEW a \in Agents, NEW k \in Connections, FenceOnly(a, k)
      PROVE  Directory'
    <2>1. \A t \in TargetIds :
             \/ targets'[t] = None /\ executors'[t] = None
             \/ /\ t \notin Fenced(a, k)
                /\ targets'[t] = targets[t] /\ executors'[t] = executors[t]
        BY <1>2 DEF FenceOnly, Without, TypeOK
    <2> QED
        BY <1>2, <2>1, AdoptingKeepsDirectory DEF FenceOnly
<1>3. ASSUME NEW a \in Agents, NEW k \in Connections, NEW t \in TargetIds, NEW g \in Generations,
             NEW capabilities \in TargetCapabilities, PublishTarget(a, k, t, g, capabilities)
      PROVE  Directory'
    <2> DEFINE target == [agent |-> a, generation |-> g, capabilities |-> capabilities]
               executor == [agent |-> a, connection |-> k, generation |-> g]
    <2>1. /\ targets' = [Without(targets, Fenced(a, k)) EXCEPT ![t] = target]
          /\ executors' = [Without(executors, Fenced(a, k)) EXCEPT ![t] = executor]
          /\ Unfenced(a, k) /\ AdoptConnection(a, k)
        BY <1>3 DEF PublishTarget
    <2>2. target \in Target
        BY ConstantsAssumption DEF Target
    <2>3. targets'[t] = target /\ executors'[t] = executor /\ target # None
        BY <2>1, <2>2, AbsenceAssumption DEF Without, TypeOK
    <2>4. \A u \in TargetIds \ {t} :
             \/ targets'[u] = None /\ executors'[u] = None
             \/ /\ u \notin Fenced(a, k)
                /\ targets'[u] = targets[u] /\ executors'[u] = executors[u]
        BY <2>1 DEF Without, TypeOK
    <2> QED
        BY <2>1, <2>3, <2>4, AdoptingKeepsDirectory
<1>4. ASSUME NEW a \in Agents, NEW k \in Connections, NEW t \in TargetIds,
             NEW capabilities \in TargetCapabilities, UpdateTarget(a, k, t, capabilities)
      PROVE  Directory'
    <2>1. /\ targets[t] \in Target
          /\ targets' = [targets EXCEPT ![t].capabilities = capabilities]
          /\ UNCHANGED <<executors, agentConnection>>
        BY <1>4 DEF TypeOK, UpdateTarget, Owned
    <2>2. /\ targets'[t] = [targets[t] EXCEPT !.capabilities = capabilities]
          /\ \A u \in TargetIds \ {t} : targets'[u] = targets[u]
        BY <2>1 DEF TypeOK
    <2>3. targets'[t] \in Target /\ targets'[t].agent = targets[t].agent
          /\ targets'[t].generation = targets[t].generation
        BY <2>1, <2>2, ConstantsAssumption DEF Target
    <2>4. targets[t] # None /\ targets'[t] # None
        BY <2>1, <2>3, AbsenceAssumption
    <2> QED
        BY <2>1, <2>2, <2>3, <2>4 DEF Directory, NewestProviderServes, ServedWhenPublished
<1>5. ASSUME NEW a \in Agents, NEW k \in Connections, NEW t \in TargetIds, RevokeTarget(a, k, t)
      PROVE  Directory'
    BY <1>0, <1>5 DEF RevokeTarget
<1>6. ASSUME NEW t \in TargetIds, RevokeTargetByHost(t)
      PROVE  Directory'
    BY <1>0, <1>6 DEF RevokeTargetByHost
<1>7. ASSUME NEW a \in Agents, NEW k \in Connections, NEW listed \in Listings,
             ReconcileTargets(a, k, listed)
      PROVE  Directory'
    <2> DEFINE gone == Fenced(a, k) \cup (Owned(a) \ DOMAIN listed)
               present == {t \in DOMAIN listed : targets[t] # None /\ t \notin gone}
               rejected == {t \in DOMAIN listed :
                               IF t \in present THEN ~AgentOwnsTarget(a, t, gone)
                               ELSE ~FreshGeneration(t, listed[t].generation)}
    <2>1. PICK done \in IF rejected = {} THEN {DOMAIN listed}
                        ELSE SUBSET (DOMAIN listed \ rejected) :
             LET renewed == {t \in done \cap present :
                                targets[t].generation < listed[t].generation}
                 updated == {t \in done \cap present :
                                targets[t].generation = listed[t].generation}
                 published == renewed \cup (done \ present)
                 revoked == gone \cup renewed
             IN  /\ targets' = [t \in TargetIds |->
                       CASE t \in published ->
                              [agent |-> a, generation |-> listed[t].generation,
                               capabilities |-> listed[t].capabilities]
                         [] t \in updated ->
                              [targets[t] EXCEPT !.capabilities = listed[t].capabilities]
                         [] t \in gone \ published -> None
                         [] OTHER -> targets[t]]
                 /\ executors' = [t \in TargetIds |->
                       IF rejected = {} /\ t \in published \cup updated
                       THEN [agent |-> a, connection |-> k, generation |-> listed[t].generation]
                       ELSE IF t \in revoked THEN None ELSE executors[t]]
        BY <1>7 DEF ReconcileTargets
    <2> DEFINE renewed == {t \in done \cap present :
                              targets[t].generation < listed[t].generation}
               updated == {t \in done \cap present :
                              targets[t].generation = listed[t].generation}
               published == renewed \cup (done \ present)
               revoked == gone \cup renewed
    <2>2. done \subseteq DOMAIN listed /\ done \cap rejected = {}
        BY <2>1
    <2>3. \A t \in DOMAIN listed : t \in TargetIds /\ listed[t].generation \in Generations
                                  /\ listed[t].capabilities \in CapabilityGrant
        BY ConstantsAssumption DEF Listings
    <2>4. ASSUME NEW t \in TargetIds, t \in published
          PROVE  /\ targets'[t] # None
                 /\ executors'[t] # None =>
                       /\ targets'[t].agent = a
                       /\ executors'[t] = [agent |-> a, connection |-> k,
                                          generation |-> targets'[t].generation]
        <3>1. targets'[t] = [agent |-> a, generation |-> listed[t].generation,
                             capabilities |-> listed[t].capabilities]
            <4> HIDE DEF rejected, gone, renewed, updated
            <4>1. targets'[t] =
                     CASE t \in published ->
                              [agent |-> a, generation |-> listed[t].generation,
                               capabilities |-> listed[t].capabilities]
                         [] t \in updated ->
                              [targets[t] EXCEPT !.capabilities = listed[t].capabilities]
                         [] t \in gone \ published -> None
                         [] OTHER -> targets[t]
                BY <2>1 DEF rejected, gone, renewed, updated
            <4>2. t \notin updated \/ t \notin published
                BY <2>2, <2>3 DEF renewed, updated
            <4> HIDE DEF published, present
            <4> QED
                BY <2>4, <4>1, <4>2
        <3>2. targets'[t] \in Target
            BY <2>2, <2>3, <2>4, <3>1 DEF Target
        <3>3. t \in revoked \/ targets[t] = None
            BY <2>2, <2>4
        <3>4. executors'[t] \in {None, [agent |-> a, connection |-> k,
                                       generation |-> listed[t].generation]}
            BY <2>1, <3>3 DEF Directory, ServedWhenPublished
        <3> QED
            BY <3>1, <3>2, <3>4, AbsenceAssumption
    <2>5. ASSUME NEW t \in TargetIds, t \in updated, t \notin published
          PROVE  /\ targets[t] # None /\ t \notin Fenced(a, k)
                 /\ targets'[t] # None
                 /\ targets'[t].agent = a /\ targets[t].agent = a
                 /\ targets'[t].generation = targets[t].generation
                 /\ executors'[t] \in {executors[t], [agent |-> a, connection |-> k,
                                          generation |-> targets'[t].generation]}
        <3>1. targets[t] # None /\ t \notin gone /\ targets[t] \in Target
            BY <2>5 DEF TypeOK
        <3>2. targets'[t] = [targets[t] EXCEPT !.capabilities = listed[t].capabilities]
            BY <2>1, <2>5
        <3>3. /\ targets'[t] \in Target
              /\ targets'[t].agent = targets[t].agent
              /\ targets'[t].generation = targets[t].generation
            BY <2>2, <2>3, <2>5, <3>1, <3>2 DEF Target
        <3>4. targets[t].agent = a
            BY <2>2, <2>5, <3>1 DEF AgentOwnsTarget
        <3>5. targets[t].generation = listed[t].generation /\ t \notin revoked
            <4>1. targets[t].generation = listed[t].generation
                BY <2>5
            <4>2. ~(listed[t].generation < listed[t].generation)
                BY <2>2, <2>3, <2>5
            <4> QED
                BY <3>1, <4>1, <4>2
        <3>6. executors'[t] \in {executors[t], [agent |-> a, connection |-> k,
                                          generation |-> listed[t].generation]}
            BY <2>1, <3>5
        <3> QED
            BY <3>1, <3>3, <3>4, <3>5, <3>6, AbsenceAssumption
    <2>6. ASSUME NEW t \in TargetIds, t \in gone \ published
          PROVE  targets'[t] = None /\ executors'[t] = None
        BY <2>1, <2>6
    <2>7. ASSUME NEW t \in TargetIds, t \notin gone \cup published \cup updated
          PROVE  /\ t \notin Fenced(a, k)
                 /\ targets'[t] = targets[t] /\ executors'[t] = executors[t]
        BY <2>1, <2>7
    <2> HIDE DEF published, updated, gone
    <2>8. Unfenced(a, k) /\ AdoptConnection(a, k)
        BY <1>7 DEF ReconcileTargets
    <2> QED
        BY <2>4, <2>5, <2>6, <2>7, <2>8, AdoptingKeepsDirectory
<1>8. ASSUME NEW a \in Agents, NEW k \in Connections, CloseProviderConnection(a, k)
      PROVE  Directory'
    BY <1>0, <1>8 DEF CloseProviderConnection
<1> QED
    BY <1>1, <1>2, <1>3, <1>4, <1>5, <1>6, <1>7, <1>8 DEF ProviderStep

LEMMA DirectoryInductive ==
    ASSUME TypeOK, Directory, [Next]_vars
    PROVE  Directory'
<1>1. CASE ProviderStep
    BY <1>1, ProviderStepKeepsDirectory
<1>2. CASE Dispose
    BY <1>2 DEF Dispose, Directory, NewestProviderServes, ServedWhenPublished
<1>3. CASE UNCHANGED <<targets, executors, agentConnection>>
    BY <1>3 DEF Directory, NewestProviderServes, ServedWhenPublished
<1> QED
    BY <1>1, <1>2, <1>3, OthersKeepDirectory DEF Next

LEMMA InitDirectory == Init => Directory
BY DEF Init, Directory, NewestProviderServes, ServedWhenPublished

(* Commands for a published target go to the newest connection of the      *)
(* provider that owns it: fencing in ensureCurrentAgentConnection leaves   *)
(* no executor of an older connection behind.                              *)
THEOREM NewestServes == Spec => []NewestProviderServes
<1>1. Directory => NewestProviderServes
    BY DEF Directory
<1> QED
    BY <1>1, InitDirectory, DirectoryInductive, TypeCorrect, PTL DEF Spec

-----------------------------------------------------------------------------
(* A command that has not been aborted runs for the owner of its target:   *)
(* what ties the fencing of a provider to the commands it was given.       *)
WorkForOwner ==
    \A o \in Running : operations[o].aborted = "no" =>
        targets[operations[o].target].agent = operations[o].executor.agent

Grounded == FencedWorkAborted /\ WorkForOwner

LEMMA AbortingOnlyAborts ==
    ASSUME TypeOK, NEW ops \in SUBSET Running, operations' = Aborting(ops),
           NEW o \in Operations, operations'[o] # None, operations'[o].aborted = "no"
    PROVE  operations'[o] = operations[o] /\ o \in Running \ ops
<1>1. operations'[o] = operations[o] \/ o \in ops
    BY DEF Aborting
<1>2. CASE o \in ops /\ operations[o].aborted = "no" /\ operations[o] # None
    <2>1. operations[o] \in Operation
        BY <1>2 DEF TypeOK
    <2>2. operations'[o] = [operations[o] EXCEPT
              !.aborted = IF operations[o].phase = "activating" THEN "early" ELSE "late"]
        BY <1>2 DEF Aborting
    <2>3. operations'[o].aborted \in {"early", "late"}
        BY <2>1, <2>2 DEF Operation
    <2> QED
        BY <2>3
<1>3. CASE operations'[o] = operations[o] /\ (operations[o].aborted # "no" \/ o \notin ops)
    BY <1>3 DEF Running
<1> QED
    BY <1>1, <1>2, <1>3 DEF Aborting, Running

(* A step that aborts some commands, and otherwise leaves the ground of    *)
(* the others alone                                                        *)
LEMMA AbortingKeepsGrounded ==
    ASSUME TypeOK, Grounded, NEW ops \in SUBSET Running, operations' = Aborting(ops),
           UNCHANGED <<targets, agentConnection>>,
           \A o \in Running \ ops : operations[o].client \in connected =>
                                     operations[o].client \in connected'
    PROVE  Grounded'
<1> SUFFICES ASSUME NEW o \in Operations, operations'[o] # None, operations'[o].aborted = "no"
             PROVE  /\ operations'[o].client \in connected'
                    /\ OnCurrent(operations[o])'
                    /\ operations'[o].executor.connection =
                          agentConnection'[operations'[o].executor.agent]
                    /\ targets'[operations'[o].target].agent = operations'[o].executor.agent
    BY DEF Grounded, FencedWorkAborted, WorkForOwner, Running
<1>1. operations'[o] = operations[o] /\ o \in Running \ ops
    BY AbortingOnlyAborts
<1> QED
    BY <1>1 DEF Grounded, FencedWorkAborted, WorkForOwner, OnCurrent

LEMMA ProviderStepKeepsGrounded ==
    ASSUME TypeOK, Grounded, ProviderStep, ~RepublishesOver
    PROVE  Grounded'
<1> SUFFICES ASSUME NEW o \in Operations, operations'[o] # None, operations'[o].aborted = "no"
             PROVE  /\ operations'[o].client \in connected'
                    /\ OnCurrent(operations[o])'
                    /\ operations'[o].executor.connection =
                          agentConnection'[operations'[o].executor.agent]
                    /\ targets'[operations'[o].target].agent = operations'[o].executor.agent
    BY DEF Grounded, FencedWorkAborted, WorkForOwner, Running
<1>0. PICK R \in SUBSET TargetIds : \E lost : Releases(R, lost)
    BY ProviderStepReleases
<1>1. PICK lost : Releases(R, lost)
    BY <1>0
<1>2. operations'[o] = operations[o] /\ o \in Running \ OperationsOn(R)
    BY <1>1, AbortingOnlyAborts, OperationsOnRunning DEF Releases
<1>3. /\ operations[o].client \in connected
      /\ OnCurrent(operations[o])
      /\ operations[o].executor.connection = agentConnection[operations[o].executor.agent]
      /\ targets[operations[o].target].agent = operations[o].executor.agent
    BY <1>2 DEF Grounded, FencedWorkAborted, WorkForOwner
<1>4. operations[o] \in Operation
    BY <1>2 DEF Running, TypeOK
<1>5. operations[o].target \in TargetIds \ R /\ operations[o].executor.agent \in Agents
    BY <1>2, <1>3, <1>4 DEF OperationsOn, Operation, Executor
<1>6. operations[o].target \in Owned(operations[o].executor.agent)
    BY <1>3, <1>5 DEF Owned, OnCurrent
<1>7. agentConnection'[operations[o].executor.agent] = agentConnection[operations[o].executor.agent]
    BY <1>1, <1>5, <1>6 DEF Releases
<1> QED
    BY <1>1, <1>2, <1>3, <1>5, <1>7 DEF Releases, OnCurrent

LEMMA CommandStepKeepsGrounded ==
    ASSUME TypeOK, Grounded, NewestProviderServes, CommandStep
    PROVE  Grounded'
<1> USE DEF clientVars, directoryVars, providerVars, OnlyOperations
<1>0. UNCHANGED <<targets, agentConnection, connected>>
    BY DEF CommandStep, ExecuteCommand, Dispatch, ActivationFails, ExecutorResponds, AbortSettles,
        CancelCommand, CommandTimesOut
<1>1. ASSUME NEW c \in Clients, NEW o \in Operations, NEW l \in LeaseIds, NEW m \in Names,
             NEW phase \in {"activating", "dispatched"}, ExecuteCommand(c, o, l, m, phase)
      PROVE  Grounded'
    <2> DEFINE t == leases[l].target
               op == [phase |-> phase, aborted |-> "no", client |-> c, lease |-> l, target |-> t,
                      generation |-> leases[l].generation, executor |-> executors[t]]
    <2>1. /\ leases[l] \in Lease /\ OnCurrent(leases[l])
          /\ c \in connected /\ executors[t] # None
          /\ operations' = [operations EXCEPT ![o] = op]
        BY <1>1 DEF ExecuteCommand, Active, MayName, MayUse, LeasesOf, HeldLeases, TypeOK
    <2>2. /\ executors[t].agent = targets[t].agent
          /\ executors[t].connection = agentConnection[targets[t].agent]
        BY <2>1 DEF NewestProviderServes, OnCurrent, Lease
    <2>3. \A x \in Operations : operations'[x] = IF x = o THEN op ELSE operations[x]
        BY <2>1 DEF TypeOK
    <2>4. /\ op.client \in connected /\ targets[op.target] # None
          /\ targets[op.target].generation = op.generation
          /\ op.executor.connection = agentConnection[op.executor.agent]
          /\ targets[op.target].agent = op.executor.agent
        BY <2>1, <2>2 DEF OnCurrent
    <2> HIDE DEF op
    <2> QED
        BY <1>0, <2>3, <2>4 DEF Grounded, FencedWorkAborted, WorkForOwner, Running, OnCurrent
<1>2. ASSUME NEW o \in Operations, Dispatch(o)
      PROVE  Grounded'
    <2>1. operations[o] \in Operation /\ o \in Running
        BY <1>2 DEF Dispatch, Running, TypeOK
    <2>2. /\ operations'[o] = [operations[o] EXCEPT !.phase = "dispatched"]
          /\ \A x \in Operations \ {o} : operations'[x] = operations[x]
        BY <1>2 DEF Dispatch, TypeOK
    <2>3. /\ operations'[o].aborted = operations[o].aborted
          /\ operations'[o].client = operations[o].client
          /\ operations'[o].target = operations[o].target
          /\ operations'[o].generation = operations[o].generation
          /\ operations'[o].executor = operations[o].executor
        BY <2>1, <2>2 DEF Operation
    <2>4. \A x \in Operations :
             /\ operations'[x] # None => operations[x] # None
             /\ operations'[x] # None =>
                   /\ operations'[x].aborted = operations[x].aborted
                   /\ operations'[x].client = operations[x].client
                   /\ operations'[x].target = operations[x].target
                   /\ operations'[x].generation = operations[x].generation
                   /\ operations'[x].executor = operations[x].executor
        BY <2>1, <2>2, <2>3 DEF Running
    <2> QED
        BY <1>0, <2>4 DEF Grounded, FencedWorkAborted, WorkForOwner, Running, OnCurrent
<1>3. ASSUME NEW o \in Operations, ActivationFails(o) \/ ExecutorResponds(o) \/ AbortSettles(o)
      PROVE  Grounded'
    <2>1. operations' = [operations EXCEPT ![o] = None]
        BY <1>3 DEF ActivationFails, ExecutorResponds, AbortSettles
    <2>2. \A x \in Operations : operations'[x] = IF x = o THEN None ELSE operations[x]
        BY <2>1 DEF TypeOK
    <2> QED
        BY <1>0, <2>2 DEF Grounded, FencedWorkAborted, WorkForOwner, Running, OnCurrent
<1>4. ASSUME NEW o \in Running, operations' = Aborting({o})
      PROVE  Grounded'
    BY <1>0, <1>4, AbortingKeepsGrounded
<1> QED
    <2>1. ASSUME NEW c \in Clients, NEW o \in Operations, CancelCommand(c, o) PROVE Grounded'
        BY <1>4, <2>1 DEF CancelCommand
    <2>2. ASSUME NEW o \in Operations, CommandTimesOut(o) PROVE Grounded'
        BY <1>4, <2>2 DEF CommandTimesOut
    <2> QED
        BY <1>1, <1>2, <1>3, <2>1, <2>2 DEF CommandStep

LEMMA ClientStepKeepsGrounded ==
    ASSUME TypeOK, Grounded, ClientStep
    PROVE  Grounded'
<1>0. UNCHANGED <<targets, agentConnection>>
    BY OthersKeepDirectory
<1>1. ASSUME UNCHANGED operations, connected \subseteq connected'
      PROVE  Grounded'
    BY <1>0, <1>1 DEF Grounded, FencedWorkAborted, WorkForOwner, Running, OnCurrent
<1>2. ASSUME NEW c \in Clients, NEW granted \in Authorities, ConnectClient(c, granted)
      PROVE  Grounded'
    BY <1>1, <1>2 DEF ConnectClient, workVars
<1>3. ASSUME NEW c \in Clients, DisconnectClient(c)
      PROVE  Grounded'
    <2>1. /\ connected' = connected \ {c}
          /\ operations' = Aborting({o \in Running : operations[o].client = c})
        BY <1>3 DEF DisconnectClient
    <2> QED
        BY <1>0, <2>1, AbortingKeepsGrounded
<1>4. ASSUME NEW p \in Principals, GraceExpires(p)
      PROVE  Grounded'
    BY <1>1, <1>4 DEF GraceExpires, workVars
<1>5. ASSUME NEW c \in Clients, NEW granted \in Authorities, RefreshClientAuthority(c, granted)
      PROVE  Grounded'
    <2> DEFINE lost == {l \in LeasesOf(PrincipalOf[c]) : ~Tolerates(granted, leases[l])}
               ops == {o \in Running :
                          operations[o].client = c /\ operations[o].lease \notin HeldLeases \ lost}
    <2>1. operations' = Aborting(ops) /\ UNCHANGED connected
        BY <1>5 DEF RefreshClientAuthority
    <2>2. ops \in SUBSET Running
        OBVIOUS
    <2> HIDE DEF ops
    <2> QED
        BY <1>0, <2>1, <2>2, AbortingKeepsGrounded
<1> QED
    BY <1>2, <1>3, <1>4, <1>5 DEF ClientStep

(* A running command that has not been aborted still has its client        *)
(* connection, its published target generation and the provider connection *)
(* it was given to: revocations, fencing and disconnections miss none.     *)
THEOREM LostWorkIsAborted == ~RepublishesOver => (Spec => []FencedWorkAborted)
<1> SUFFICES ASSUME ~RepublishesOver PROVE Spec => []FencedWorkAborted
    OBVIOUS
<1>1. Init => Grounded
    BY DEF Init, Grounded, FencedWorkAborted, WorkForOwner, Running
<1>2. TypeOK /\ NewestProviderServes /\ Grounded /\ [Next]_vars => Grounded'
    <2> SUFFICES ASSUME TypeOK, NewestProviderServes, Grounded, [Next]_vars PROVE Grounded'
        OBVIOUS
    <2>1. ASSUME UNCHANGED <<targets, agentConnection, operations, connected>>
          PROVE  Grounded'
        BY <2>1 DEF Grounded, FencedWorkAborted, WorkForOwner, Running, OnCurrent
    <2>2. CASE LeaseStep \/ SubscriptionStep \/ Tick \/ UNCHANGED vars
        <3>1. UNCHANGED <<operations, connected>>
            <4>1. CASE LeaseStep
                BY ZenonT(60), <4>1 DEF LeaseStep, AcquireLease, AcquireRefused, RenewLease, ReleaseLease,
                    UseExpiredLease, LeaseTimerFires, clientVars, workVars
            <4>2. CASE SubscriptionStep
                BY <4>2 DEF SubscriptionStep, Subscribe, SubscriptionOpens, SubscriptionFails,
                    CloseSubscription, PublishEvent, OnlySubscriptions, clientVars
            <4> QED
                BY <2>2, <4>1, <4>2 DEF Tick, vars, clientVars, workVars
        <3> QED
            BY <2>1, <2>2, <3>1, OthersKeepDirectory
    <2>3. CASE Dispose
        <3>1. operations' = Aborting(Running)
            BY <2>3 DEF Dispose
        <3>2. \A o \in Operations : operations'[o] # None => operations'[o].aborted # "no"
            BY <3>1, AbortingOnlyAborts
        <3> QED
            BY <3>2 DEF Grounded, FencedWorkAborted, WorkForOwner, Running
    <2> QED
        BY <2>2, <2>3, ProviderStepKeepsGrounded, ClientStepKeepsGrounded,
           CommandStepKeepsGrounded DEF Next
<1>3. Grounded => FencedWorkAborted
    BY DEF Grounded
<1> QED
    BY <1>1, <1>2, <1>3, TypeCorrect, NewestServes, PTL DEF Spec

-----------------------------------------------------------------------------
(* Leases of principals                                                    *)

(* A client that has gone for good cannot keep a target: the leases of a   *)
(* principal without a connection always have a grace timer running,       *)
(* however its several connections come and go.                            *)
THEOREM GraceBoundsLeases == Spec => []NoOrphanLease
<1>1. Init => NoOrphanLease
    BY DEF Init, NoOrphanLease, LeasesOf, HeldLeases
<1>2. TypeOK /\ NoOrphanLease /\ [Next]_vars => NoOrphanLease'
    <2> SUFFICES ASSUME TypeOK, NoOrphanLease, [Next]_vars, ReconnectGrace # NoDeadline,
                        NEW l \in LeaseIds, leases'[l] # None,
                        NEW p \in Principals, leases'[l].principal = p
                 PROVE  ConnectionsOf(p)' # {} \/ graceAt'[p] # None
        BY DEF NoOrphanLease, LeasesOf, HeldLeases
    <2>0. ASSUME LeasesKept
          PROVE  /\ l \in LeasesOf(p)
                 /\ ConnectionsOf(p) # {} \/ graceAt[p] # None
        BY <2>0 DEF LeasesKept, NoOrphanLease, LeasesOf, HeldLeases
    <2>1. CASE \E c \in Clients, t \in TargetIds, methods \in MethodSets, mode \in Modes,
                  d \in Durations : AcquireLease(c, t, methods, mode, d)
        <3>1. PICK c \in Clients, t \in TargetIds, methods \in MethodSets, mode \in Modes,
                   d \in Durations : AcquireLease(c, t, methods, mode, d)
            BY <2>1
        <3>2. c \in connected /\ UNCHANGED <<connected, graceAt>>
            BY <3>1 DEF AcquireLease, Requestable, MayUse, clientVars
        <3>3. CASE l = acquired + 1
            <4>1. p = PrincipalOf[c]
                BY <3>1, <3>3 DEF AcquireLease, Without, TypeOK
            <4> QED
                BY <3>2, <4>1 DEF ConnectionsOf
        <3>4. CASE l # acquired + 1
            <4>1. leases'[l] = leases[l] /\ leases[l] # None
                BY <3>1, <3>4 DEF AcquireLease, Without, TypeOK
            <4> QED
                BY <3>2, <4>1 DEF NoOrphanLease, LeasesOf, HeldLeases, ConnectionsOf
        <3> QED
            BY <3>3, <3>4
    <2>2. ASSUME LeasesKept, UNCHANGED <<connected, graceAt>>
          PROVE  ConnectionsOf(p)' # {} \/ graceAt'[p] # None
        BY <2>0, <2>2 DEF ConnectionsOf
    <2>3. ASSUME NEW c \in Clients, NEW granted \in Authorities, ConnectClient(c, granted), LeasesKept
          PROVE  ConnectionsOf(p)' # {} \/ graceAt'[p] # None
        <3>1. connected' = connected \cup {c} /\ graceAt' = [graceAt EXCEPT ![PrincipalOf[c]] = None]
            BY <2>3 DEF ConnectClient
        <3>2. CASE p = PrincipalOf[c]
            BY <3>1, <3>2 DEF ConnectionsOf
        <3>3. CASE p # PrincipalOf[c]
            <4>1. graceAt'[p] = graceAt[p]
                BY <3>1, <3>3 DEF TypeOK
            <4> QED
                BY <2>0, <2>3, <3>1, <4>1 DEF ConnectionsOf
        <3> QED
            BY <3>2, <3>3
    <2>4. ASSUME NEW c \in Clients, DisconnectClient(c), LeasesKept
          PROVE  ConnectionsOf(p)' # {} \/ graceAt'[p] # None
        <3> DEFINE q == PrincipalOf[c]
                   last == OnlyConnection(q, c)
        <3>1. /\ c \in connected /\ connected' = connected \ {c}
              /\ leases' = IF last /\ ReconnectGrace = 0 THEN Without(leases, LeasesOf(q)) ELSE leases
              /\ graceAt' = IF last /\ ReconnectGrace \notin {0, NoDeadline}
                            THEN [graceAt EXCEPT ![q] = now + ReconnectGrace] ELSE graceAt
            BY <2>4 DEF DisconnectClient
        <3>2. q \in Principals /\ now + ReconnectGrace \in Nat /\ None \notin Nat
            BY ConstantsAssumption, AbsenceAssumption DEF TypeOK
        <3>3. CASE p # q
            <4>1. ConnectionsOf(p)' = ConnectionsOf(p)
                BY <3>1, <3>3 DEF ConnectionsOf
            <4>2. graceAt'[p] = graceAt[p]
                BY <3>1, <3>3 DEF TypeOK
            <4> QED
                BY <2>0, <2>4, <4>1, <4>2
        <3>4. CASE p = q /\ ~last
            BY <3>1, <3>4 DEF OnlyConnection, ConnectionsOf
        <3>5. CASE p = q /\ last
            <4>1. ReconnectGrace # 0
                BY <2>0, <2>4, <3>1, <3>5 DEF Without, TypeOK
            <4>2. graceAt'[q] = now + ReconnectGrace
                BY <3>1, <3>2, <3>5, <4>1 DEF TypeOK
            <4> QED
                BY <3>2, <3>5, <4>2
        <3> QED
            BY <3>3, <3>4, <3>5
    <2>5. ASSUME NEW q \in Principals, GraceExpires(q), LeasesKept
          PROVE  ConnectionsOf(p)' # {} \/ graceAt'[p] # None
        <3>1. /\ UNCHANGED connected /\ graceAt' = [graceAt EXCEPT ![q] = None]
              /\ leases' = IF ConnectionsOf(q) = {} THEN Without(leases, LeasesOf(q)) ELSE leases
            BY <2>5 DEF GraceExpires
        <3>2. CASE p # q
            <4>1. graceAt'[p] = graceAt[p]
                BY <3>1, <3>2 DEF TypeOK
            <4> QED
                BY <2>0, <2>5, <3>1, <4>1 DEF ConnectionsOf
        <3>3. CASE p = q
            <4>1. ConnectionsOf(q) # {}
                BY <2>0, <2>5, <3>1, <3>3 DEF Without, TypeOK
            <4> QED
                BY <3>1, <3>3, <4>1 DEF ConnectionsOf
        <3> QED
            BY <3>2, <3>3
    <2>6. CASE ClientStep /\ LeasesKept
        <3>1. ASSUME NEW c \in Clients, NEW granted \in Authorities, RefreshClientAuthority(c, granted)
              PROVE  UNCHANGED <<connected, graceAt>>
            BY <3>1 DEF RefreshClientAuthority
        <3> QED
            BY <2>2, <2>3, <2>4, <2>5, <2>6, <3>1 DEF ClientStep
    <2>7. CASE ~ClientStep /\ ~Dispose
        <3>1. UNCHANGED <<connected, graceAt>>
            <4> USE DEF clientVars
            <4>1. CASE ProviderStep
                <5>1. ASSUME NEW a \in Agents, NEW k \in Connections, NEW listed \in Listings,
                             ReconcileTargets(a, k, listed)
                      PROVE  UNCHANGED <<connected, graceAt>>
                    BY <5>1 DEF ReconcileTargets
                <5>2. ASSUME NEW a \in Agents, NEW k \in Connections, CloseProviderConnection(a, k)
                      PROVE  UNCHANGED <<connected, graceAt>>
                    BY <5>2 DEF CloseProviderConnection
                <5>3. ASSUME NEW a \in Agents, NEW k \in Connections, NEW t \in TargetIds,
                             NEW g \in Generations, NEW capabilities \in TargetCapabilities,
                             PublishTarget(a, k, t, g, capabilities)
                      PROVE  UNCHANGED <<connected, graceAt>>
                    BY <5>3 DEF PublishTarget
                <5> QED
                    BY <4>1, <5>1, <5>2, <5>3 DEF ProviderStep, OpenProviderConnection, FenceOnly,
                        UpdateTarget, RevokeTarget, RevokeTargetByHost
            <4>2. CASE LeaseStep
                BY ZenonT(60), <4>2 DEF LeaseStep, AcquireLease, AcquireRefused, RenewLease, ReleaseLease,
                    UseExpiredLease, LeaseTimerFires
            <4>3. CASE CommandStep
                BY <4>3 DEF CommandStep, ExecuteCommand, Dispatch, ActivationFails, ExecutorResponds,
                    AbortSettles, CancelCommand, CommandTimesOut, OnlyOperations
            <4>4. CASE SubscriptionStep
                BY <4>4 DEF SubscriptionStep, Subscribe, SubscriptionOpens, SubscriptionFails,
                    CloseSubscription, PublishEvent, OnlySubscriptions
            <4> QED
                BY <2>7, <4>1, <4>2, <4>3, <4>4 DEF Next, Tick, vars
        <3> QED
            BY <2>1, <2>2, <3>1, OnlyAcquireAddsLeases
    <2>8. ~Dispose
        BY DEF Dispose
    <2> QED
        BY <2>1, <2>6, <2>7, <2>8, OnlyAcquireAddsLeases
<1> QED
    BY <1>1, <1>2, TypeCorrect, PTL DEF Spec

-----------------------------------------------------------------------------
(* What a target offers                                                    *)

(* A step of a provider leaves a published target what it was, gives it    *)
(* new capabilities and takes the leases that need more, or publishes a    *)
(* generation that is newer than all before.                               *)
Newest == \A t \in TargetIds : targets[t] # None => targets[t].generation = highest[t]

Supported(t) ==
    \A l \in LeasesOn({t}) : leases'[l] # None =>
        \A m \in leases[l].methods : Allowed(targets'[t].capabilities, m)

Advances(t) ==
    \/ targets'[t] = None /\ highest'[t] = highest[t]
    \/ targets'[t] = targets[t] /\ highest'[t] = highest[t]
    \/ /\ targets[t] # None /\ highest'[t] = highest[t]
       /\ targets'[t].generation = targets[t].generation /\ Supported(t)
    \/ targets'[t].generation = highest'[t] /\ highest'[t] > highest[t]

LEMMA WithoutAdvances ==
    ASSUME TypeOK, NEW R, targets' = Without(targets, R), highest' = highest
    PROVE  \A t \in TargetIds : Advances(t)
BY DEF TypeOK, Without, Advances

LEMMA UpdateSupports ==
    ASSUME TypeOK, NEW t \in TargetIds, targets[t] # None, NEW cap \in CapabilityGrant,
           targets'[t] = [targets[t] EXCEPT !.capabilities = cap],
           NEW lost, leases' = Without(leases, lost), Unsupported(t, cap) \subseteq lost,
           highest'[t] = highest[t]
    PROVE  Advances(t)
<1>1. targets'[t].generation = targets[t].generation /\ targets'[t].capabilities = cap
    BY DEF TypeOK, Target
<1>2. \A l \in LeaseIds : leases'[l] # None => l \notin lost
    BY DEF Without, TypeOK
<1>3. Supported(t)
    BY <1>1, <1>2 DEF Supported, Unsupported, LeasesOn, HeldLeases
<1> QED
    BY <1>1, <1>3 DEF Advances

LEMMA ProviderStepAdvances ==
    ASSUME TypeOK, Newest, ProviderStep
    PROVE  \A t \in TargetIds : Advances(t)
<1> USE DEF clientVars, leaseVars, workVars, providerVars, directoryVars
<1>1. ASSUME NEW a \in Agents, OpenProviderConnection(a)
      PROVE  \A t \in TargetIds : Advances(t)
    BY <1>1 DEF OpenProviderConnection, Advances
<1>2. ASSUME NEW a \in Agents, NEW k \in Connections, FenceOnly(a, k)
      PROVE  \A t \in TargetIds : Advances(t)
    BY <1>2, WithoutAdvances DEF FenceOnly
<1>3. ASSUME NEW a \in Agents, NEW k \in Connections, NEW t \in TargetIds, NEW g \in Generations,
             NEW capabilities \in TargetCapabilities, PublishTarget(a, k, t, g, capabilities)
      PROVE  \A u \in TargetIds : Advances(u)
    <2>1. /\ targets'[t].generation = g /\ highest'[t] = g /\ g > highest[t]
          /\ \A u \in TargetIds \ {t} : targets'[u] \in {None, targets[u]} /\ highest'[u] = highest[u]
        BY <1>3 DEF PublishTarget, Without, FreshGeneration, TypeOK
    <2> QED
        BY <2>1 DEF Advances
<1>4. ASSUME NEW a \in Agents, NEW k \in Connections, NEW t \in TargetIds,
             NEW capabilities \in TargetCapabilities, UpdateTarget(a, k, t, capabilities)
      PROVE  \A u \in TargetIds : Advances(u)
    <2>1. /\ targets[t] # None /\ targets' = [targets EXCEPT ![t].capabilities = capabilities]
          /\ highest' = highest /\ leases' = Without(leases, Unsupported(t, capabilities))
        BY <1>4 DEF UpdateTarget, Owned, DropLeases
    <2>2. /\ targets'[t] = [targets[t] EXCEPT !.capabilities = capabilities]
          /\ \A u \in TargetIds \ {t} : targets'[u] = targets[u]
        BY <2>1 DEF TypeOK
    <2>3. Advances(t)
        BY <2>1, <2>2, UpdateSupports, ConstantsAssumption
    <2> QED
        BY <2>1, <2>2, <2>3 DEF Advances
<1>5. ASSUME NEW a \in Agents, NEW k \in Connections, NEW t \in TargetIds, RevokeTarget(a, k, t)
      PROVE  \A u \in TargetIds : Advances(u)
    BY <1>5, WithoutAdvances DEF RevokeTarget
<1>6. ASSUME NEW t \in TargetIds, RevokeTargetByHost(t)
      PROVE  \A u \in TargetIds : Advances(u)
    BY <1>6, WithoutAdvances DEF RevokeTargetByHost
<1>7. ASSUME NEW a \in Agents, NEW k \in Connections, CloseProviderConnection(a, k)
      PROVE  \A t \in TargetIds : Advances(t)
    BY <1>7, WithoutAdvances DEF CloseProviderConnection
<1>8. ASSUME NEW a \in Agents, NEW k \in Connections, NEW listed \in Listings,
             ReconcileTargets(a, k, listed)
      PROVE  \A t \in TargetIds : Advances(t)
    <2> DEFINE gone == Fenced(a, k) \cup (Owned(a) \ DOMAIN listed)
               present == {t \in DOMAIN listed : targets[t] # None /\ t \notin gone}
    <2>1. PICK done :
             /\ done \subseteq DOMAIN listed
             /\ \A t \in done \ present : FreshGeneration(t, listed[t].generation)
             /\ LET renewed == {t \in done \cap present :
                                   targets[t].generation < listed[t].generation}
                    updated == {t \in done \cap present :
                                   targets[t].generation = listed[t].generation}
                    published == renewed \cup (done \ present)
                IN  /\ targets' = [t \in TargetIds |->
                          CASE t \in published ->
                                 [agent |-> a, generation |-> listed[t].generation,
                                  capabilities |-> listed[t].capabilities]
                            [] t \in updated ->
                                 [targets[t] EXCEPT !.capabilities = listed[t].capabilities]
                            [] t \in gone \ published -> None
                            [] OTHER -> targets[t]]
                    /\ highest' = [t \in TargetIds |->
                          IF t \in published THEN listed[t].generation ELSE highest[t]]
                    /\ Release(gone \cup renewed,
                          UNION {Unsupported(t, listed[t].capabilities) : t \in updated})
        BY <1>8 DEF ReconcileTargets
    <2> DEFINE renewed == {t \in done \cap present :
                              targets[t].generation < listed[t].generation}
               updated == {t \in done \cap present :
                              targets[t].generation = listed[t].generation}
               published == renewed \cup (done \ present)
               lost == UNION {Unsupported(t, listed[t].capabilities) : t \in updated}
               R == gone \cup renewed
    <2>2. DOMAIN listed \subseteq TargetIds
          /\ \A t \in DOMAIN listed : listed[t].generation \in Generations /\ listed[t].capabilities \in CapabilityGrant
        BY ConstantsAssumption DEF Listings
    <2>3. ASSUME NEW t \in TargetIds, t \in published
          PROVE  Advances(t)
        <3>1. targets'[t].generation = listed[t].generation /\ highest'[t] = listed[t].generation
            BY <2>1, <2>3
        <3>2. listed[t].generation > highest[t]
            <4>1. CASE t \in renewed
                <5>1. targets[t].generation = highest[t]
                    BY <4>1 DEF Newest
                <5> QED
                    BY <2>2, <4>1, <5>1 DEF TypeOK
            <4>2. CASE t \in done \ present
                BY <2>1, <4>2 DEF FreshGeneration
            <4> QED
                BY <2>3, <4>1, <4>2
        <3> QED
            BY <3>1, <3>2 DEF Advances
    <2>4. ASSUME NEW t \in TargetIds, t \in updated, t \notin published
          PROVE  Advances(t)
        <3>1. /\ targets[t] # None /\ targets'[t] = [targets[t] EXCEPT !.capabilities = listed[t].capabilities]
              /\ highest'[t] = highest[t]
            BY <2>1, <2>4
        <3>2. Unsupported(t, listed[t].capabilities) \subseteq LeasesOn(R) \cup lost
            BY <2>4
        <3>3. leases' = Without(leases, LeasesOn(R) \cup lost)
            BY <2>1 DEF Release
        <3>4. listed[t].capabilities \in CapabilityGrant
            BY <2>1, <2>2, <2>4
        <3> HIDE DEF lost, R
        <3> QED
            BY <3>1, <3>2, <3>3, <3>4, UpdateSupports
    <2>5. ASSUME NEW t \in TargetIds, t \notin updated, t \notin published
          PROVE  Advances(t)
        <3>1. targets'[t] \in {None, targets[t]} /\ highest'[t] = highest[t]
            BY <2>1, <2>5
        <3> QED
            BY <3>1 DEF Advances
    <2> QED
        BY <2>3, <2>4, <2>5
<1> QED
    BY <1>1, <1>2, <1>3, <1>4, <1>5, <1>6, <1>7, <1>8 DEF ProviderStep

LEMMA OthersKeepHighest ==
    ASSUME [Next]_vars, ~ProviderStep PROVE highest' = highest
<1> USE DEF providerVars, directoryVars
<1>1. CASE ClientStep
    BY <1>1 DEF ClientStep, ConnectClient, DisconnectClient, GraceExpires, RefreshClientAuthority
<1>2. CASE LeaseStep
    BY ZenonT(60), <1>2 DEF LeaseStep, AcquireLease, AcquireRefused, RenewLease, ReleaseLease,
        UseExpiredLease, LeaseTimerFires
<1>3. CASE CommandStep
    BY <1>3 DEF CommandStep, ExecuteCommand, Dispatch, ActivationFails, ExecutorResponds,
        AbortSettles, CancelCommand, CommandTimesOut, OnlyOperations
<1>4. CASE SubscriptionStep
    BY <1>4 DEF SubscriptionStep, Subscribe, SubscriptionOpens, SubscriptionFails,
        CloseSubscription, PublishEvent, OnlySubscriptions
<1> QED
    BY <1>1, <1>2, <1>3, <1>4 DEF Next, Tick, Dispose, vars

(* A grant cut down to what the target offers allows nothing beyond it.    *)
LEMMA HighestLevelIs ==
    ASSUME NEW levels \in SUBSET Levels, Observe \in levels
    PROVE  HighestLevel(levels) \in levels /\ \A m \in levels : m =< HighestLevel(levels)
<1>1. \E l \in levels : \A m \in levels : m =< l
    BY DEF Levels, Observe, Unsafe
<1> QED
    BY <1>1 DEF HighestLevel

LEMMA IntersectionAllows ==
    ASSUME NEW x \in CapabilityGrant, NEW y, y.level \in Levels, NEW m,
           Allowed(IntersectCapabilities(x, y), m)
    PROVE  Allowed(x, m)
<1> DEFINE z == IntersectCapabilities(x, y)
<1>1. /\ z.allow \subseteq x.allow
      /\ z.level = MinimumLevel(x.level, y.level)
    BY DEF IntersectCapabilities
<1>2. x.level \in Levels /\ z.level \in Levels /\ z.level =< x.level
    BY <1>1 DEF CapabilityGrant, MinimumLevel, Levels, Observe, Unsafe
<1>3. z.level = Unsafe => x.level = Unsafe
    BY <1>2 DEF Levels, Observe, Unsafe
<1>4. m \in Catalogue => (EntryLevel[m] =< z.level => EntryLevel[m] =< x.level)
    BY <1>2, CatalogueAssumption DEF Levels, Observe, Unsafe
<1> HIDE DEF z
<1>5. PICK kind \in Kinds : IsCdpNameAllowed(z, m, kind)
    BY DEF Allowed, z
<1>6. IsCdpNameAllowed(x, m, kind)
    BY <1>1, <1>3, <1>4, <1>5 DEF IsCdpNameAllowed
<1> QED
    BY <1>6 DEF Allowed

LEMMA EffectiveWithin ==
    ASSUME TypeOK, NEW c \in Clients, NEW t \in TargetIds, authority[c] # None, targets[t] # None,
           NEW m, Allowed(EffectiveCapabilities(authority[c], t), m)
    PROVE  Allowed(targets[t].capabilities, m)
<1> DEFINE granted == authority[c]
           grants == GrantsFor(granted, t, targets[t].generation)
<1>1. granted \in Authority /\ targets[t].capabilities \in CapabilityGrant
    BY DEF TypeOK, Target
<1>2. grants \subseteq CapabilityGrant
    BY <1>1 DEF GrantsFor, Authority, Binding
<1>3. CombinedGrant(grants).level \in Levels
    <2>1. {Observe} \cup {g.level : g \in grants} \in SUBSET Levels
        BY <1>2 DEF CapabilityGrant, Levels, Observe, Unsafe
    <2> HIDE DEF grants
    <2>2. HighestLevel({Observe} \cup {g.level : g \in grants}) \in Levels
        BY <2>1, HighestLevelIs
    <2> QED
        BY <2>2 DEF CombinedGrant
<1>4. CASE granted.trusted
    BY <1>4 DEF EffectiveCapabilities
<1>5. CASE ~granted.trusted
    <2>1. EffectiveCapabilities(granted, t) = IntersectCapabilities(targets[t].capabilities, CombinedGrant(grants))
        BY <1>5 DEF EffectiveCapabilities
    <2> HIDE DEF grants
    <2> QED
        BY <1>1, <1>3, <2>1, IntersectionAllows
<1> QED
    BY <1>4, <1>5

(* Every connection has an authority, and no lease is of a generation that *)
(* has not been published yet.                                             *)
Offered ==
    /\ Newest
    /\ \A c \in connected : authority[c] # None
    /\ \A l \in HeldLeases : leases[l].generation =< highest[leases[l].target]
    /\ LeaseWithinTarget

LEMMA ConnectedHasAuthority ==
    ASSUME TypeOK, [Next]_vars, \A c \in connected : authority[c] # None
    PROVE  \A c \in connected' : authority'[c] # None
<1> USE DEF clientVars
<1>1. CASE UNCHANGED clientVars
    BY <1>1
<1>2. CASE ClientStep
    <2>1. ASSUME NEW c \in Clients, NEW granted \in Authorities,
                 authority' = [authority EXCEPT ![c] = granted], connected' \subseteq connected \cup {c}
          PROVE  \A d \in connected' : authority'[d] # None
        <3>1. granted # None
            BY ConstantsAssumption, AbsenceAssumption
        <3>2. \A d \in Clients : authority'[d] = IF d = c THEN granted ELSE authority[d]
            BY <2>1 DEF TypeOK
        <3> QED
            BY <2>1, <3>1, <3>2 DEF TypeOK
    <2> QED
        BY <1>2, <2>1 DEF ClientStep, ConnectClient, DisconnectClient, GraceExpires, RefreshClientAuthority
<1>3. CASE ProviderStep
    <2>1. ASSUME NEW a \in Agents, NEW k \in Connections, NEW listed \in Listings,
                 ReconcileTargets(a, k, listed)
          PROVE  UNCHANGED clientVars
        BY <2>1 DEF ReconcileTargets
    <2>2. ASSUME NEW a \in Agents, NEW k \in Connections, CloseProviderConnection(a, k)
          PROVE  UNCHANGED clientVars
        BY <2>2 DEF CloseProviderConnection
    <2>3. ASSUME NEW a \in Agents, NEW k \in Connections, NEW t \in TargetIds,
                 NEW g \in Generations, NEW capabilities \in TargetCapabilities,
                 PublishTarget(a, k, t, g, capabilities)
          PROVE  UNCHANGED clientVars
        BY <2>3 DEF PublishTarget
    <2> QED
        BY <1>1, <1>3, <2>1, <2>2, <2>3 DEF ProviderStep, OpenProviderConnection, FenceOnly,
            UpdateTarget, RevokeTarget, RevokeTargetByHost
<1>4. CASE LeaseStep
    <2>1. UNCHANGED clientVars
        BY ZenonT(60), <1>4 DEF LeaseStep, AcquireLease, AcquireRefused, RenewLease, ReleaseLease,
            UseExpiredLease, LeaseTimerFires
    <2> QED
        BY <1>1, <2>1
<1>5. CASE CommandStep
    BY ZenonT(60), <1>1, <1>5 DEF CommandStep, ExecuteCommand, Dispatch, ActivationFails, ExecutorResponds,
        AbortSettles, CancelCommand, CommandTimesOut, OnlyOperations
<1>6. CASE SubscriptionStep
    BY <1>1, <1>6 DEF SubscriptionStep, Subscribe, SubscriptionOpens, SubscriptionFails,
        CloseSubscription, PublishEvent, OnlySubscriptions
<1> QED
    BY <1>1, <1>2, <1>3, <1>4, <1>5, <1>6 DEF Next, Tick, Dispose, vars

LEMMA OfferedInductive ==
    ASSUME TypeOK, Offered, [Next]_vars PROVE Offered'
<1>0. Newest /\ LeaseWithinTarget /\ (\A c \in connected : authority[c] # None)
    BY DEF Offered
<1>1. \A c \in connected' : authority'[c] # None
    BY <1>0, ConnectedHasAuthority
<1>2. CASE ProviderStep
    <2>1. \A t \in TargetIds : Advances(t)
        BY <1>0, <1>2, ProviderStepAdvances
    <2>2. LeasesKept /\ TypeOK'
        BY <1>2, ProviderStepKeepsLeases, StepType
    <2>3. Newest'
        BY <1>0, <2>1 DEF Newest, Advances
    <2>4. \A t \in TargetIds : highest[t] \in Nat /\ highest'[t] \in Nat /\ highest'[t] >= highest[t]
        <3>1. ASSUME NEW t \in TargetIds PROVE highest[t] \in Nat /\ highest'[t] \in Nat
            BY <2>2, ConstantsAssumption DEF TypeOK
        <3>2. \A t \in TargetIds : highest'[t] = highest[t] \/ highest'[t] > highest[t]
            BY <2>1 DEF Advances
        <3> QED
            BY <3>1, <3>2
    <2>5. ASSUME NEW l \in LeaseIds, leases'[l] # None
          PROVE  /\ leases'[l].generation =< highest'[leases'[l].target]
                 /\ OnCurrent(leases[l])' => \A m \in leases'[l].methods :
                       Allowed(targets'[leases'[l].target].capabilities, m)
        <3> DEFINE t == leases[l].target
                   g == leases[l].generation
        <3>1. /\ leases[l] # None /\ leases[l] \in Lease
              /\ leases'[l].target = t /\ leases'[l].generation = g /\ leases'[l].methods = leases[l].methods
            BY <2>2, <2>5 DEF LeasesKept, TypeOK
        <3>2. t \in TargetIds /\ g \in Nat /\ g =< highest[t] /\ l \in HeldLeases
            BY <3>1, ConstantsAssumption DEF Lease, Offered, HeldLeases
        <3>3. g =< highest'[t]
            BY <2>4, <3>2
        <3>4. ASSUME targets'[t] # None, targets'[t].generation = g, NEW m \in leases[l].methods
              PROVE  Allowed(targets'[t].capabilities, m)
            <4>1. CASE targets'[t] = targets[t]
                BY <1>0, <3>2, <3>4, <4>1 DEF LeaseWithinTarget, OnCurrent
            <4>2. CASE targets[t] # None /\ targets'[t].generation = targets[t].generation /\ Supported(t)
                <5>1. l \in LeasesOn({t})
                    BY <3>2, <3>4, <4>2 DEF LeasesOn, OnCurrent
                <5> QED
                    BY <2>5, <3>4, <4>2, <5>1 DEF Supported
            <4>3. CASE targets'[t].generation = highest'[t] /\ highest'[t] > highest[t]
                BY <2>4, <3>2, <3>4, <4>3
            <4> QED
                BY <2>1, <3>2, <3>4, <4>1, <4>2, <4>3 DEF Advances
        <3> QED
            BY <3>1, <3>3, <3>4 DEF OnCurrent
    <2> QED
        BY <1>1, <2>3, <2>5 DEF Offered, LeaseWithinTarget, HeldLeases
<1>3. CASE Dispose
    <2>1. (\A t \in TargetIds : targets'[t] = None) /\ (\A l \in LeaseIds : leases'[l] = None)
        BY <1>3 DEF Dispose
    <2> QED
        BY <1>1, <2>1 DEF Offered, Newest, LeaseWithinTarget, HeldLeases
<1>4. CASE ~ProviderStep /\ ~Dispose
    <2>1. highest' = highest /\ targets' = targets
        BY <1>4, OthersKeepHighest, OthersKeepDirectory DEF Next
    <2>2. Newest'
        BY <1>0, <2>1 DEF Newest
    <2>3. ASSUME LeasesKept PROVE Offered'
        BY <1>0, <1>1, <2>1, <2>2, <2>3 DEF LeasesKept, Offered, LeaseWithinTarget, HeldLeases, OnCurrent
    <2>4. ASSUME NEW c \in Clients, NEW t \in TargetIds, NEW methods \in MethodSets,
                 NEW mode \in Modes, NEW d \in Durations, AcquireLease(c, t, methods, mode, d)
          PROVE  Offered'
        <3> DEFINE new == acquired + 1
        <3>1. /\ c \in connected /\ targets[t] # None
              /\ \A m \in methods : Allowed(EffectiveCapabilities(authority[c], t), m)
              /\ leases'[new].target = t /\ leases'[new].generation = targets[t].generation
              /\ leases'[new].methods = methods
              /\ \A l \in LeaseIds \ {new} : leases'[l] # None => leases'[l] = leases[l] /\ l \in HeldLeases
            BY <2>4 DEF AcquireLease, Requestable, MayUse, Authorized, Without, TypeOK, HeldLeases
        <3>2. \A m \in methods : Allowed(targets[t].capabilities, m)
            BY <1>0, <3>1, EffectiveWithin
        <3>3. targets[t].generation =< highest[t]
            <4>1. targets[t].generation = highest[t] /\ highest[t] \in Nat
                BY <1>0, <3>1, ConstantsAssumption DEF Newest, TypeOK
            <4> QED
                BY <4>1
        <3> HIDE DEF new
        <3>4. ASSUME NEW l \in LeaseIds, leases'[l] # None
              PROVE  /\ leases'[l].generation =< highest[leases'[l].target]
                     /\ targets[leases'[l].target].generation = leases'[l].generation
                        /\ targets[leases'[l].target] # None =>
                           \A m \in leases'[l].methods : Allowed(targets[leases'[l].target].capabilities, m)
            <4>1. CASE l = new
                BY <3>1, <3>2, <3>3, <4>1
            <4>2. CASE l # new
                BY <1>0, <3>1, <3>4, <4>2 DEF Offered, LeaseWithinTarget, OnCurrent
            <4> QED
                BY <4>1, <4>2
        <3> QED
            BY <1>1, <2>1, <2>2, <3>4 DEF Offered, LeaseWithinTarget, HeldLeases, OnCurrent
    <2> QED
        BY <2>3, <2>4, OnlyAcquireAddsLeases
<1> QED
    BY <1>2, <1>3, <1>4

LEMMA InitOffered == Init => Offered
BY DEF Init, Offered, Newest, LeaseWithinTarget, HeldLeases

(* No lease names what its target has stopped offering: an update and a    *)
(* reconciliation take away the leases that need more in the same step,    *)
(* and what a grant adds never goes beyond the target.                     *)
THEOREM LeasesWithinOffer == Spec => []LeaseWithinTarget
<1>1. Offered => LeaseWithinTarget
    BY DEF Offered
<1> QED
    BY <1>1, InitOffered, OfferedInductive, TypeCorrect, PTL DEF Spec

(* No generation of a target is published twice, by whichever provider and *)
(* connection: a lease, command or event of an old one is never taken for  *)
(* one of the new.                                                         *)
THEOREM GenerationsOnlyAdvance == Spec => GenerationsAdvance
<1>1. ASSUME TypeOK, TypeOK', Offered, [Next]_vars, NEW t \in TargetIds
      PROVE  /\ highest'[t] >= highest[t]
             /\ targets'[t] # None /\ (targets[t] = None \/ targets'[t].generation # targets[t].generation)
                => targets'[t].generation > highest[t]
    <2>0. highest[t] \in Nat /\ highest'[t] \in Nat
        BY <1>1, ConstantsAssumption DEF TypeOK
    <2>1. CASE ProviderStep
        <3>1. Advances(t)
            BY <1>1, <2>1, ProviderStepAdvances DEF Offered
        <3> QED
            BY <2>0, <3>1 DEF Advances
    <2>2. CASE Dispose
        BY <2>0, <2>2 DEF Dispose
    <2>3. CASE ~ProviderStep /\ ~Dispose
        <3>1. highest' = highest /\ targets' = targets
            BY <1>1, <2>3, OthersKeepHighest, OthersKeepDirectory DEF Next
        <3> QED
            BY <2>0, <3>1
    <2> QED
        BY <2>1, <2>2, <2>3
<1>2. TypeOK /\ TypeOK' /\ Offered /\ [Next]_vars =>
         [\A t \in TargetIds :
            /\ highest'[t] >= highest[t]
            /\ targets'[t] # None /\ (targets[t] = None \/ targets'[t].generation # targets[t].generation)
               => targets'[t].generation > highest[t]]_vars
    BY <1>1
<1> QED
    BY <1>2, InitOffered, OfferedInductive, TypeCorrect, PTL DEF Spec, GenerationsAdvance

-----------------------------------------------------------------------------
(* The terms and times of leases                                           *)

NothingAcquired ==
    \A c \in Clients, t \in TargetIds, methods \in MethodSets, mode \in Modes, d \in Durations :
        ~AcquireLease(c, t, methods, mode, d)

(* What a grant makes of the leases                                        *)
LEMMA AcquireAdds ==
    ASSUME TypeOK, NEW c \in Clients, NEW t \in TargetIds, NEW methods \in MethodSets,
           NEW mode \in Modes, NEW d \in Durations, AcquireLease(c, t, methods, mode, d)
    PROVE  /\ acquired + 1 \in LeaseIds /\ acquired' = acquired + 1 /\ now' = now
           /\ leases'[acquired + 1] =
                 [principal |-> PrincipalOf[c], target |-> t, generation |-> targets[t].generation,
                  methods |-> methods, mode |-> mode, issuedAt |-> now,
                  expiresAt |-> ExpiryFor(now, d), timerAt |-> TimerFor(ExpiryFor(now, d))]
           /\ \A l \in LeaseIds : l # acquired + 1 =>
                 leases'[l] = IF l \in ExpiredLeases THEN None ELSE leases[l]
           /\ ExpiryFor(now, d) =< MaxTime
BY DEF AcquireLease, Without, TypeOK

LEMMA ProviderStepAcquiresNothing ==
    ASSUME ProviderStep
    PROVE  UNCHANGED <<acquired, now>>
<1> USE DEF Release, leaseVars
<1>1. ASSUME NEW a \in Agents, NEW k \in Connections, NEW listed \in Listings,
             ReconcileTargets(a, k, listed)
      PROVE  UNCHANGED <<acquired, now>>
    BY <1>1 DEF ReconcileTargets
<1>2. ASSUME NEW a \in Agents, NEW k \in Connections, CloseProviderConnection(a, k)
      PROVE  UNCHANGED <<acquired, now>>
    BY <1>2 DEF CloseProviderConnection
<1>3. ASSUME NEW a \in Agents, NEW k \in Connections, NEW t \in TargetIds,
             NEW g \in Generations, NEW capabilities \in TargetCapabilities,
             PublishTarget(a, k, t, g, capabilities)
      PROVE  UNCHANGED <<acquired, now>>
    BY <1>3 DEF PublishTarget
<1>4. ASSUME NEW a \in Agents, NEW k \in Connections, FenceOnly(a, k)
      PROVE  UNCHANGED <<acquired, now>>
    BY <1>4 DEF FenceOnly
<1> QED
    BY <1>1, <1>2, <1>3, <1>4 DEF ProviderStep, OpenProviderConnection, UpdateTarget,
        RevokeTarget, RevokeTargetByHost

(* No other step counts as a grant, and time does not run backwards.       *)
LEMMA OnlyAcquireCounts ==
    ASSUME TypeOK, [Next]_vars
    PROVE  /\ NothingAcquired => acquired' = acquired
           /\ now' >= now
<1> USE DEF leaseVars
<1>1. CASE ProviderStep
    BY <1>1, ProviderStepAcquiresNothing DEF TypeOK
<1>2. CASE ClientStep
    <2>1. UNCHANGED <<acquired, now>>
        BY <1>2 DEF ClientStep, ConnectClient, DisconnectClient, GraceExpires, RefreshClientAuthority
    <2> QED
        BY <2>1 DEF TypeOK
<1>3. CASE LeaseStep
    <2>1. now' = now
        BY ZenonT(60), <1>3 DEF LeaseStep, AcquireLease, AcquireRefused, RenewLease, ReleaseLease,
            UseExpiredLease, LeaseTimerFires
    <2>2. NothingAcquired => acquired' = acquired
        BY ZenonT(60), <1>3 DEF NothingAcquired, LeaseStep, AcquireRefused, RenewLease, ReleaseLease,
            UseExpiredLease, LeaseTimerFires
    <2> QED
        BY <2>1, <2>2 DEF TypeOK
<1>4. CASE CommandStep
    <2>1. UNCHANGED <<acquired, now>>
        BY ZenonT(60), <1>4 DEF CommandStep, ExecuteCommand, Dispatch, ActivationFails, ExecutorResponds,
            AbortSettles, CancelCommand, CommandTimesOut, OnlyOperations
    <2> QED
        BY <2>1 DEF TypeOK
<1>5. CASE SubscriptionStep
    <2>1. UNCHANGED <<acquired, now>>
        BY <1>5 DEF SubscriptionStep, Subscribe, SubscriptionOpens, SubscriptionFails,
            CloseSubscription, PublishEvent, OnlySubscriptions
    <2> QED
        BY <2>1 DEF TypeOK
<1>6. CASE Dispose \/ Tick \/ UNCHANGED vars
    BY <1>6 DEF Dispose, Tick, vars, TypeOK
<1> QED
    BY <1>1, <1>2, <1>3, <1>4, <1>5, <1>6 DEF Next

(* The identifiers in use are among the first acquired ones, and no lease  *)
(* runs past the latest time its lifetime allows.                          *)
Issued ==
    \A l \in HeldLeases : l =< acquired /\ leases[l].expiresAt =< LatestExpiry(leases[l])

LEMMA IssuedInductive ==
    ASSUME TypeOK, Issued, [Next]_vars
    PROVE  Issued'
<1>1. CASE NothingAcquired
    <2>1. LeasesKept /\ acquired' = acquired
        BY <1>1, OnlyAcquireAddsLeases, OnlyAcquireCounts DEF NothingAcquired
    <2>2. ASSUME NEW l \in LeaseIds, leases'[l] # None
          PROVE  l =< acquired' /\ leases'[l].expiresAt =< LatestExpiry(leases'[l])
        <3>1. l \in HeldLeases /\ LatestExpiry(leases'[l]) = LatestExpiry(leases[l])
            BY <2>1, <2>2 DEF LeasesKept, LatestExpiry, HeldLeases
        <3> QED
            BY <2>1, <2>2, <3>1 DEF LeasesKept, Issued
    <2> QED
        BY <2>2 DEF Issued, HeldLeases, LatestExpiry
<1>2. ASSUME NEW c \in Clients, NEW t \in TargetIds, NEW methods \in MethodSets, NEW mode \in Modes,
             NEW d \in Durations, AcquireLease(c, t, methods, mode, d)
      PROVE  Issued'
    <2> DEFINE new == acquired + 1
    <2>1. /\ new \in LeaseIds /\ acquired' = new
          /\ leases'[new].issuedAt = now /\ leases'[new].expiresAt = ExpiryFor(now, d)
          /\ \A l \in LeaseIds : l # new => leases'[l] \in {None, leases[l]}
          /\ ExpiryFor(now, d) =< MaxTime
        <3>1. /\ acquired + 1 \in LeaseIds /\ acquired' = acquired + 1
              /\ leases'[acquired + 1] =
                    [principal |-> PrincipalOf[c], target |-> t, generation |-> targets[t].generation,
                     methods |-> methods, mode |-> mode, issuedAt |-> now,
                     expiresAt |-> ExpiryFor(now, d), timerAt |-> TimerFor(ExpiryFor(now, d))]
              /\ \A l \in LeaseIds : l # acquired + 1 =>
                    leases'[l] = IF l \in ExpiredLeases THEN None ELSE leases[l]
              /\ ExpiryFor(now, d) =< MaxTime
            BY <1>2, AcquireAdds
        <3> QED
            BY <3>1
    <2>2. leases'[new].expiresAt =< LatestExpiry(leases'[new])
        BY <2>1, ExpiryWithin DEF LatestExpiry, TypeOK
    <2>3. ASSUME NEW l \in LeaseIds, leases'[l] # None, l # new
          PROVE  l =< acquired' /\ leases'[l].expiresAt =< LatestExpiry(leases'[l])
        <3>1. leases'[l] = leases[l] /\ l \in HeldLeases
            BY <2>1, <2>3 DEF HeldLeases
        <3>2. l =< acquired /\ acquired \in Nat /\ l \in Nat
            BY <3>1, ConstantsAssumption DEF Issued, TypeOK
        <3> QED
            BY <2>1, <3>1, <3>2 DEF Issued
    <2>4. new =< acquired'
        BY <2>1, ConstantsAssumption DEF TypeOK
    <2> HIDE DEF new
    <2> QED
        BY <2>2, <2>3, <2>4 DEF Issued, HeldLeases, LatestExpiry
<1> QED
    BY <1>1, <1>2 DEF NothingAcquired

LEMMA InitIssued == Init => Issued
BY DEF Init, Issued, HeldLeases

(* However often a lease is renewed, it ends within the maximum lifetime   *)
(* the broker is configured with: renewLease counts from issuedAt.         *)
THEOREM LifetimesAreBounded == Spec => []LeaseWithinLifetime
<1>1. Issued => LeaseWithinLifetime
    BY DEF Issued, LatestExpiry, LeaseWithinLifetime
<1> QED
    BY <1>1, InitIssued, IssuedInductive, TypeCorrect, PTL DEF Spec

(* A grant of acquireLease takes nothing from the other clients but leases *)
(* that are past their expiry.                                             *)
THEOREM GrantsDoNotPreempt == Spec => NoPreemption
<1>1. ASSUME TypeOK, Issued, [Next]_vars, acquired' # acquired, NEW l \in HeldLeases,
             leases'[l] # leases[l]
      PROVE  Expired(l)
    <2>1. PICK c \in Clients, t \in TargetIds, methods \in MethodSets, mode \in Modes,
               d \in Durations : AcquireLease(c, t, methods, mode, d)
        BY <1>1, OnlyAcquireCounts DEF NothingAcquired
    <2>2. l \in LeaseIds /\ l # acquired + 1
        BY <1>1, ConstantsAssumption DEF Issued, HeldLeases, TypeOK
    <2>3. l \in ExpiredLeases
        BY <1>1, <2>1, <2>2, AcquireAdds
    <2> QED
        BY <2>3 DEF ExpiredLeases
<1>2. TypeOK /\ Issued /\ [Next]_vars =>
         [acquired' # acquired => \A l \in HeldLeases : leases'[l] # leases[l] => Expired(l)]_vars
    BY <1>1
<1> QED
    BY <1>2, InitIssued, IssuedInductive, TypeCorrect, PTL DEF Spec, NoPreemption

-----------------------------------------------------------------------------
(* The broker's leases implement LeaseLock                                 *)

LEMMA HeldTermsAre ==
    ASSUME TypeOK
    PROVE  \A l \in HeldLeases : HeldTerms[l] = TermsOf(leases[l]) /\ TermsOf(leases[l]) \in Terms
<1>1. ASSUME NEW l \in HeldLeases PROVE leases[l] \in Lease
    BY DEF HeldLeases, TypeOK
<1> QED
    BY <1>1 DEF HeldTerms, TermsOf, Terms, Lease

(* No step makes an expired lease good again.                              *)
LEMMA StepLapses ==
    ASSUME TypeOK, TypeOK', Issued, [Next]_vars
    PROVE  Lock!Lapse
<1>1. ExpiredLeases' \subseteq HeldLeases' /\ Lock!Holding = HeldLeases
      /\ Lock!Holding' = HeldLeases'
    BY DEF ExpiredLeases, Lock!Holding, HeldTerms
<1>2. ASSUME NEW l \in ExpiredLeases, l \in HeldLeases', leases'[l].expiresAt = leases[l].expiresAt
      PROVE  l \in ExpiredLeases'
    <2>1. leases[l].expiresAt \in Nat /\ leases[l].expiresAt =< now /\ now' >= now
        BY OnlyAcquireCounts DEF ExpiredLeases, Expired, HeldLeases, TypeOK, Lease
    <2> QED
        BY <1>2, <2>1 DEF ExpiredLeases, Expired, TypeOK
<1>3. ASSUME NEW l \in ExpiredLeases, l \in HeldLeases'
      PROVE  leases'[l].expiresAt = leases[l].expiresAt
    <2>0. l \in LeaseIds /\ leases[l] # None /\ leases'[l] # None /\ Expired(l)
        BY <1>3 DEF ExpiredLeases, HeldLeases
    <2>1. CASE NothingAcquired
        <3>1. LeasesKept
            BY <2>1, OnlyAcquireAddsLeases DEF NothingAcquired
        <3> QED
            BY <2>0, <3>1 DEF LeasesKept
    <2>2. CASE ~NothingAcquired
        <3>1. l # acquired + 1
            BY <2>0, ConstantsAssumption DEF Issued, HeldLeases, TypeOK
        <3> QED
            BY <1>3, <2>0, <2>2, <3>1, AcquireAdds DEF NothingAcquired
    <2> QED
        BY <2>1, <2>2
<1>4. ExpiredLeases \cap HeldLeases' \subseteq ExpiredLeases'
    BY <1>2, <1>3
<1> QED
    BY <1>1, <1>4 DEF Lock!Lapse

(* A step that grants nothing only ends leases.                            *)
LEMMA OthersEnd ==
    ASSUME TypeOK, [Next]_vars, NothingAcquired
    PROVE  \E gone \in SUBSET HeldLeases : Lock!End(gone)
<1>1. LeasesKept /\ acquired' = acquired
    BY OnlyAcquireAddsLeases, OnlyAcquireCounts DEF NothingAcquired
<1> DEFINE gone == HeldLeases \ HeldLeases'
<1>2. HeldLeases' = HeldLeases \ gone
    BY <1>1 DEF LeasesKept, HeldLeases
<1>3. \A l \in HeldLeases' : TermsOf(leases'[l]) = TermsOf(leases[l])
    BY <1>1 DEF LeasesKept, HeldLeases, TermsOf
<1>4. HeldTerms' = [l \in HeldLeases' |-> TermsOf(leases'[l])]
    BY DEF HeldTerms, TermsOf
<1>5. HeldTerms' = [l \in HeldLeases \ gone |-> HeldTerms[l]]
    <2>1. \A l \in HeldLeases' : HeldTerms[l] = TermsOf(leases[l])
        BY <1>2 DEF HeldTerms
    <2> HIDE DEF gone
    <2> QED
        BY <1>2, <1>3, <1>4, <2>1
<1>6. Lock!Holding = HeldLeases
    BY DEF Lock!Holding, HeldTerms
<1>7. Lock!End(gone)
    BY <1>1, <1>5, <1>6 DEF Lock!End
<1> QED
    BY <1>7

(* A grant of the broker is a grant of the lock.                           *)
LEMMA AcquireGrants ==
    ASSUME TypeOK, Issued, NEW c \in Clients, NEW t \in TargetIds, NEW methods \in MethodSets,
           NEW mode \in Modes, NEW d \in Durations, AcquireLease(c, t, methods, mode, d)
    PROVE  \E l \in LeaseIds, terms \in Terms, gone \in SUBSET ExpiredLeases :
              Lock!Grant(l, terms, gone)
<1> DEFINE new == acquired + 1
           terms == [principal |-> PrincipalOf[c], target |-> t, generation |-> targets[t].generation,
                     methods |-> methods, mode |-> mode]
           kept == HeldLeases \ ExpiredLeases
<1>1. /\ new \in LeaseIds /\ acquired' = new /\ acquired \in Nat
      /\ leases'[new] =
            [principal |-> PrincipalOf[c], target |-> t, generation |-> targets[t].generation,
             methods |-> methods, mode |-> mode, issuedAt |-> now,
             expiresAt |-> ExpiryFor(now, d), timerAt |-> TimerFor(ExpiryFor(now, d))]
      /\ \A l \in LeaseIds : l # new =>
            leases'[l] = IF l \in ExpiredLeases THEN None ELSE leases[l]
    BY AcquireAdds, ConstantsAssumption DEF TypeOK
<1>2. TermsOf(leases'[new]) = terms
    BY <1>1 DEF TermsOf
<1>3. leases'[new] # None /\ terms \in Terms
    <2>1. TypeOK'
        BY LeaseStepType DEF LeaseStep
    <2>2. targets[t] # None
        BY DEF AcquireLease, Requestable, MayUse, Authorized
    <2>3. targets[t].generation \in Generations
        BY <2>2 DEF TypeOK, Target
    <2>4. PrincipalOf[c] \in Principals /\ methods \in SUBSET Names
        BY ConstantsAssumption
    <2>5. /\ ExpiryFor(now, d) \in Nat /\ TimerFor(ExpiryFor(now, d)) \in Nat /\ now \in Nat
        BY ExpiryType DEF TypeOK
    <2>6. leases'[new] \in Lease
        BY <1>1, <2>3, <2>4, <2>5 DEF Lease
    <2>7. terms \in Terms
        BY <2>3, <2>4 DEF Terms
    <2> QED
        BY <2>6, <2>7, AbsenceAssumption
<1>4. new \notin HeldLeases
    BY <1>1 DEF Issued
<1>5. HeldLeases' = kept \cup {new}
    BY <1>1, <1>3, <1>4 DEF HeldLeases
<1>6. HeldTerms' = [l \in HeldLeases' |-> TermsOf(leases'[l])]
    BY DEF HeldTerms, TermsOf
<1>7. \A l \in kept : leases'[l] = leases[l] /\ HeldTerms[l] = TermsOf(leases[l])
    BY <1>1, <1>4 DEF HeldTerms, HeldLeases
<1>8. HeldTerms' = [l \in kept \cup {new} |-> IF l = new THEN terms ELSE HeldTerms[l]]
    <2>1. \A l \in kept : TermsOf(leases'[l]) = HeldTerms[l]
        BY <1>7
    <2> HIDE DEF kept, new, terms
    <2> QED
        BY <1>2, <1>5, <1>6, <2>1
<1>9. \A l \in kept : ~Lock!Excludes(terms, HeldTerms[l])
    <2>1. mode = "exclusive-control" => Conflicting(t, kept) = {}
        BY DEF AcquireLease
    <2>2. targets[t] # None
        BY DEF AcquireLease, Requestable, MayUse, Authorized
    <2>3. ASSUME NEW l \in kept, leases[l].target = t, leases[l].generation = targets[t].generation,
                 leases[l].mode = "exclusive-control"
          PROVE  mode # "exclusive-control"
        BY <2>1, <2>2, <2>3 DEF Conflicting, OnCurrent
    <2>4. ASSUME NEW l \in kept
          PROVE  /\ HeldTerms[l].target = leases[l].target
                 /\ HeldTerms[l].generation = leases[l].generation
                 /\ HeldTerms[l].mode = leases[l].mode
        <3>1. HeldTerms[l] = TermsOf(leases[l])
            BY <1>7
        <3> QED
            BY <3>1 DEF TermsOf
    <2>5. terms.target = t /\ terms.generation = targets[t].generation /\ terms.mode = mode
        OBVIOUS
    <2> HIDE DEF kept, terms
    <2> QED
        BY <2>3, <2>4, <2>5 DEF Lock!Excludes
<1>10. (1 .. acquired)' = (1 .. acquired) \cup {new} /\ new \notin 1 .. acquired
    BY <1>1
<1>11. Lock!Holding = HeldLeases
    BY DEF Lock!Holding, HeldTerms
<1>12. Lock!Grant(new, terms, ExpiredLeases)
    <2> HIDE DEF new, terms
    <2> QED
        BY <1>8, <1>9, <1>10, <1>11 DEF Lock!Grant
<1> HIDE DEF new, terms
<1> QED
    BY <1>1, <1>3, <1>12

(* The leases of the broker are locks on target generations: whatever else *)
(* happens, each was granted once, keeps its terms, has control alone and  *)
(* gives way to a grant only once it has lapsed for good.                  *)
THEOREM BrokerImplementsLock == Spec => ImplementsLock
<1>1. Init => Lock!Init
    <2> SUFFICES ASSUME Init PROVE Lock!Init
        OBVIOUS
    <2>1. HeldLeases = {} /\ ExpiredLeases = {}
        BY DEF Init, HeldLeases, ExpiredLeases
    <2>2. HeldTerms \in [{} -> Terms]
        BY <2>1 DEF HeldTerms
    <2>3. 1 .. acquired = {}
        BY DEF Init
    <2> QED
        BY <2>1, <2>2, <2>3 DEF Lock!Init
<1>2. TypeOK /\ TypeOK' /\ Issued /\ [Next]_vars => [Lock!Next]_(Lock!lockVars)
    <2> SUFFICES ASSUME TypeOK, TypeOK', Issued, [Next]_vars PROVE Lock!Next
        OBVIOUS
    <2>1. Lock!Lapse /\ Lock!Holding = HeldLeases
        BY StepLapses DEF Lock!Holding, HeldTerms
    <2>2. CASE NothingAcquired
        BY <2>1, <2>2, OthersEnd DEF Lock!Next
    <2>3. CASE ~NothingAcquired
        BY <2>1, <2>3, AcquireGrants DEF Lock!Next, NothingAcquired
    <2> QED
        BY <2>2, <2>3
<1> QED
    BY <1>1, <1>2, InitIssued, IssuedInductive, TypeCorrect, PTL DEF Spec, ImplementsLock, Lock!Spec

-----------------------------------------------------------------------------
(* Providers keep to their targets                                         *)

SameAgent == \A t \in TargetIds :
    targets[t] # None /\ targets'[t] # None => targets'[t].agent = targets[t].agent

LEMMA RevokingKeepsAgents ==
    ASSUME TypeOK, NEW R, targets' = Without(targets, R)
    PROVE  SameAgent
BY DEF SameAgent, Without, TypeOK

LEMMA ProviderStepKeepsAgents ==
    ASSUME TypeOK, ProviderStep
    PROVE  SameAgent
<1> USE DEF clientVars, leaseVars, workVars, providerVars, directoryVars
<1>1. ASSUME NEW a \in Agents, OpenProviderConnection(a)
      PROVE  SameAgent
    BY <1>1 DEF OpenProviderConnection, SameAgent
<1>2. ASSUME NEW a \in Agents, NEW k \in Connections,
             FenceOnly(a, k) \/ CloseProviderConnection(a, k)
      PROVE  SameAgent
    BY <1>2, RevokingKeepsAgents DEF FenceOnly, CloseProviderConnection
<1>3. ASSUME NEW a \in Agents, NEW k \in Connections, NEW t \in TargetIds, NEW g \in Generations,
             NEW capabilities \in TargetCapabilities, PublishTarget(a, k, t, g, capabilities)
      PROVE  SameAgent
    <2>1. /\ targets'[t].agent = a
          /\ \A u \in TargetIds \ {t} : targets'[u] \in {None, targets[u]}
        BY <1>3 DEF PublishTarget, Without, TypeOK
    <2>2. targets[t] # None => targets[t].agent = a
        <3>1. AgentOwnsTarget(a, t, Fenced(a, k))
            BY <1>3 DEF PublishTarget
        <3> QED
            BY <3>1 DEF AgentOwnsTarget, Fenced, Owned
    <2> QED
        BY <2>1, <2>2 DEF SameAgent
<1>4. ASSUME NEW a \in Agents, NEW k \in Connections, NEW t \in TargetIds,
             NEW capabilities \in TargetCapabilities, UpdateTarget(a, k, t, capabilities)
      PROVE  SameAgent
    <2>1. targets[t] \in Target /\ targets' = [targets EXCEPT ![t].capabilities = capabilities]
        BY <1>4 DEF TypeOK, UpdateTarget, Owned
    <2>2. /\ targets'[t] = [targets[t] EXCEPT !.capabilities = capabilities]
          /\ \A u \in TargetIds \ {t} : targets'[u] = targets[u]
        BY <2>1 DEF TypeOK
    <2>3. targets'[t].agent = targets[t].agent
        BY <2>1, <2>2 DEF Target
    <2> QED
        BY <2>2, <2>3 DEF SameAgent
<1>5. ASSUME NEW a \in Agents, NEW k \in Connections, NEW t \in TargetIds,
             RevokeTarget(a, k, t) \/ RevokeTargetByHost(t)
      PROVE  SameAgent
    BY <1>5, RevokingKeepsAgents DEF RevokeTarget, RevokeTargetByHost
<1>6. ASSUME NEW t \in TargetIds, RevokeTargetByHost(t)
      PROVE  SameAgent
    BY <1>6, RevokingKeepsAgents DEF RevokeTargetByHost
<1>7. ASSUME NEW a \in Agents, NEW k \in Connections, NEW listed \in Listings,
             ReconcileTargets(a, k, listed)
      PROVE  SameAgent
    <2> DEFINE gone == Fenced(a, k) \cup (Owned(a) \ DOMAIN listed)
               present == {t \in DOMAIN listed : targets[t] # None /\ t \notin gone}
    <2>1. PICK done :
             /\ done \subseteq DOMAIN listed
             /\ \A t \in done \cap present : AgentOwnsTarget(a, t, gone)
             /\ LET renewed == {t \in done \cap present :
                                   targets[t].generation < listed[t].generation}
                    updated == {t \in done \cap present :
                                   targets[t].generation = listed[t].generation}
                    published == renewed \cup (done \ present)
                IN  targets' = [t \in TargetIds |->
                          CASE t \in published ->
                                 [agent |-> a, generation |-> listed[t].generation,
                                  capabilities |-> listed[t].capabilities]
                            [] t \in updated ->
                                 [targets[t] EXCEPT !.capabilities = listed[t].capabilities]
                            [] t \in gone \ published -> None
                            [] OTHER -> targets[t]]
        BY <1>7 DEF ReconcileTargets
    <2> DEFINE renewed == {t \in done \cap present :
                              targets[t].generation < listed[t].generation}
               updated == {t \in done \cap present :
                              targets[t].generation = listed[t].generation}
               published == renewed \cup (done \ present)
    <2>2. gone \subseteq Owned(a)
        BY DEF Fenced
    <2>3. ASSUME NEW t \in TargetIds, targets[t] # None, t \in published
          PROVE  targets'[t].agent = a /\ targets[t].agent = a
        <3>1. targets'[t].agent = a
            <4>1. targets'[t] = CASE t \in published ->
                                 [agent |-> a, generation |-> listed[t].generation,
                                  capabilities |-> listed[t].capabilities]
                            [] t \in updated ->
                                 [targets[t] EXCEPT !.capabilities = listed[t].capabilities]
                            [] t \in gone \ published -> None
                            [] OTHER -> targets[t]
                BY <2>1
            <4>2. t \notin updated
                <5>1. t \in present => targets[t].generation \in Nat
                    BY <2>3 DEF TypeOK, Target
                <5> QED
                    BY <2>3, <5>1
            <4> HIDE DEF published, updated, gone
            <4> QED
                BY <2>3, <4>1, <4>2
        <3>2. CASE t \in gone
            BY <2>2, <3>1, <3>2 DEF Owned
        <3>3. CASE t \in done \cap present
            BY <2>1, <2>3, <3>1, <3>3 DEF AgentOwnsTarget
        <3> QED
            BY <2>1, <2>3, <3>2, <3>3
    <2>4. ASSUME NEW t \in TargetIds, targets[t] # None, t \notin published, targets'[t] # None
          PROVE  targets'[t].agent = targets[t].agent
        <3>1. targets'[t] \in {targets[t], [targets[t] EXCEPT !.capabilities = listed[t].capabilities]}
            BY <2>1, <2>4
        <3>2. targets[t] \in Target
            BY <2>4 DEF TypeOK
        <3> QED
            BY <3>1, <3>2 DEF Target
    <2> QED
        BY <2>3, <2>4 DEF SameAgent
<1>8. ASSUME NEW a \in Agents, NEW k \in Connections, CloseProviderConnection(a, k)
      PROVE  SameAgent
    BY <1>2, <1>8
<1> QED
    <2>1. ASSUME NEW a \in Agents, NEW k \in Connections, NEW t \in TargetIds, RevokeTarget(a, k, t)
          PROVE  SameAgent
        BY <1>5, <2>1
    <2> QED
        BY <1>1, <1>2, <1>3, <1>4, <1>6, <1>7, <1>8, <2>1 DEF ProviderStep

(* A target stays with the provider that published it until it is gone:    *)
(* no publish and no reconciliation of another provider takes it over,     *)
(* also when providers may publish over their own targets.                 *)
THEOREM TargetsStayWithTheirProvider == Spec => NoTakeover
<1>1. ASSUME TypeOK, [Next]_vars PROVE SameAgent
    <2>1. CASE ProviderStep
        BY <1>1, <2>1, ProviderStepKeepsAgents
    <2>2. CASE Dispose
        BY <2>2 DEF Dispose, SameAgent
    <2>3. CASE ~ProviderStep /\ ~Dispose
        <3>1. targets' = targets
            BY <1>1, <2>3, OthersKeepDirectory DEF Next
        <3> QED
            BY <3>1 DEF SameAgent
    <2> QED
        BY <2>1, <2>2, <2>3
<1>2. TypeOK /\ [Next]_vars =>
         [\A t \in TargetIds :
             targets[t] # None /\ targets'[t] # None => targets'[t].agent = targets[t].agent]_vars
    BY <1>1 DEF SameAgent
<1> QED
    BY <1>2, TypeCorrect, PTL DEF Spec, NoTakeover

-----------------------------------------------------------------------------
(* Authority                                                               *)

LEMMA IntersectionIsSymmetric ==
    ASSUME NEW x \in CapabilityGrant, NEW y \in CapabilityGrant
    PROVE  IntersectCapabilities(x, y) = IntersectCapabilities(y, x)
<1>1. MinimumLevel(x.level, y.level) = MinimumLevel(y.level, x.level)
    BY DEF MinimumLevel, CapabilityGrant, Levels, Observe, Unsafe
<1>2. x.allow \cap y.allow = y.allow \cap x.allow
    OBVIOUS
<1> QED
    BY <1>1, <1>2 DEF IntersectCapabilities

(* Combining bindings allows no name that none of them allows.             *)
LEMMA CombinationAllows ==
    ASSUME NEW grants \in SUBSET CapabilityGrant, grants # {}, NEW m,
           Allowed(CombinedGrant(grants), m)
    PROVE  \E g \in grants : Allowed(g, m)
<1> DEFINE levels == {g.level : g \in grants}
           top == HighestLevel({Observe} \cup levels)
<1>1. levels \subseteq Levels /\ levels # {}
    BY DEF CapabilityGrant
<1>2. /\ top \in {Observe} \cup levels
      /\ \A n \in {Observe} \cup levels : n =< top
    <2>1. {Observe} \cup levels \in SUBSET Levels
        BY <1>1 DEF Levels, Observe, Unsafe
    <2> HIDE DEF levels
    <2> QED
        BY <2>1, HighestLevelIs
<1>3. PICK kind \in Kinds : IsCdpNameAllowed(CombinedGrant(grants), m, kind)
    BY DEF Allowed
<1>4. CombinedGrant(grants).level = top /\ CombinedGrant(grants).allow = UNION {g.allow : g \in grants}
    BY DEF CombinedGrant
<1>5. CASE \E g \in grants : m \in g.allow
    BY <1>3, <1>5 DEF Allowed, IsCdpNameAllowed
<1>6. CASE \A g \in grants : m \notin g.allow
    <2>1. PICK g \in grants : g.level = top
        <3>1. CASE top \in levels
            BY <3>1
        <3>2. CASE top = Observe
            <4>1. \A n \in levels : n = Observe
                BY <1>1, <1>2, <3>2 DEF Levels, Observe, Unsafe
            <4> QED
                BY <1>1, <3>2, <4>1
        <3> QED
            BY <1>2, <3>1, <3>2
    <2>2. m \notin CombinedGrant(grants).allow
        BY <1>4, <1>6
    <2> HIDE DEF top
    <2>3. IsCdpNameAllowed(g, m, kind)
        BY <1>3, <1>4, <2>1, <2>2 DEF IsCdpNameAllowed
    <2> QED
        BY <2>3 DEF Allowed
<1> QED
    BY <1>5, <1>6

LEMMA EffectiveIsGranted ==
    ASSUME TypeOK, NEW c \in Clients, NEW t \in TargetIds, authority[c] # None,
           Authorized(authority[c], t), ~authority[c].trusted,
           NEW m, Allowed(EffectiveCapabilities(authority[c], t), m)
    PROVE  \E b \in authority[c].bindings :
              /\ b.target = t /\ b.generation = targets[t].generation
              /\ Allowed(b.capabilities, m)
<1> DEFINE granted == authority[c]
           grants == GrantsFor(granted, t, targets[t].generation)
           combined == CombinedGrant(grants)
<1>1. granted \in Authority /\ targets[t] \in Target
    BY DEF TypeOK, Authorized
<1>2. grants \in SUBSET CapabilityGrant /\ grants # {} /\ targets[t].capabilities \in CapabilityGrant
    BY <1>1 DEF GrantsFor, Authority, Binding, Authorized, Target
<1>3. combined \in CapabilityGrant
    <2>1. {Observe} \cup {g.level : g \in grants} \in SUBSET Levels
        BY <1>2 DEF CapabilityGrant, Levels, Observe, Unsafe
    <2>2. UNION {g.allow : g \in grants} \in SUBSET Names
        BY <1>2 DEF CapabilityGrant
    <2> HIDE DEF grants
    <2>3. HighestLevel({Observe} \cup {g.level : g \in grants}) \in Levels
        BY <2>1, HighestLevelIs
    <2> QED
        BY <2>2, <2>3 DEF CombinedGrant, CapabilityGrant
<1>4. EffectiveCapabilities(granted, t) = IntersectCapabilities(targets[t].capabilities, combined)
    BY DEF EffectiveCapabilities
<1>5. Allowed(combined, m)
    <2> HIDE DEF combined
    <2>1. combined.level \in Levels /\ targets[t].capabilities.level \in Levels
        BY <1>2, <1>3 DEF CapabilityGrant
    <2> QED
        BY <1>2, <1>3, <1>4, <2>1, IntersectionIsSymmetric, IntersectionAllows
<1>6. PICK g \in grants : Allowed(g, m)
    <2> HIDE DEF grants
    <2> QED
        BY <1>2, <1>5, CombinationAllows
<1> QED
    BY <1>6 DEF GrantsFor

(* What acquireLease grants was granted to the client by an approval for   *)
(* that generation of the target: neither combining the bindings of a      *)
(* session nor cutting them down to the target's offer adds a name.        *)
THEOREM LeasesAreAuthorized == Spec => GrantedWithinAuthority
<1>1. ASSUME TypeOK, Offered, [Next]_vars, acquired' # acquired
      PROVE  \E c \in connected :
                /\ leases'[acquired'].principal = PrincipalOf[c]
                /\ \A m \in leases'[acquired'].methods :
                      \/ authority[c].trusted
                      \/ \E b \in authority[c].bindings :
                            /\ b.target = leases'[acquired'].target
                            /\ b.generation = leases'[acquired'].generation
                            /\ Allowed(b.capabilities, m)
    <2>1. PICK c \in Clients, t \in TargetIds, methods \in MethodSets, mode \in Modes,
               d \in Durations : AcquireLease(c, t, methods, mode, d)
        BY <1>1, OnlyAcquireCounts DEF NothingAcquired
    <2>2. /\ acquired' = acquired + 1
          /\ leases'[acquired + 1] =
                [principal |-> PrincipalOf[c], target |-> t, generation |-> targets[t].generation,
                 methods |-> methods, mode |-> mode, issuedAt |-> now,
                 expiresAt |-> ExpiryFor(now, d), timerAt |-> TimerFor(ExpiryFor(now, d))]
        BY <1>1, <2>1, AcquireAdds
    <2>3. /\ leases'[acquired'].principal = PrincipalOf[c] /\ leases'[acquired'].target = t
          /\ leases'[acquired'].generation = targets[t].generation
          /\ leases'[acquired'].methods = methods
        BY <2>2
    <2>4. /\ c \in connected /\ Authorized(authority[c], t)
          /\ \A m \in methods : Allowed(EffectiveCapabilities(authority[c], t), m)
        BY <2>1 DEF AcquireLease, Requestable, MayUse
    <2>5. authority[c] # None
        BY <1>1, <2>4 DEF Offered
    <2>6. ASSUME NEW m \in methods, ~authority[c].trusted
          PROVE  \E b \in authority[c].bindings :
                    /\ b.target = t /\ b.generation = targets[t].generation
                    /\ Allowed(b.capabilities, m)
        BY <1>1, <2>4, <2>5, <2>6, EffectiveIsGranted
    <2> QED
        BY <2>3, <2>4, <2>6
<1>2. TypeOK /\ Offered /\ [Next]_vars =>
         [acquired' # acquired =>
            LET lease == leases'[acquired']
            IN  \E c \in connected :
                   /\ lease.principal = PrincipalOf[c]
                   /\ \A m \in lease.methods :
                         \/ authority[c].trusted
                         \/ \E b \in authority[c].bindings :
                               /\ b.target = lease.target /\ b.generation = lease.generation
                               /\ Allowed(b.capabilities, m)]_vars
    BY <1>1
<1> QED
    BY <1>2, InitOffered, OfferedInductive, TypeCorrect, PTL DEF Spec, GrantedWithinAuthority
=============================================================================
