---------------------------- MODULE TargetBroker ----------------------------
(***************************************************************************)
(* The target broker: providers publish debugger targets under growing     *)
(* generations, clients take leases on them, send commands to the          *)
(* provider's executor and subscribe to its events.                        *)
(*                                                                         *)
(* The broker runs on one JavaScript thread, so a call is atomic up to its *)
(* next await.  executeCommand may wait for a debugger domain to be        *)
(* activated before it hands the command to the executor, and subscribe    *)
(* always waits once before it registers the subscription: those calls are *)
(* two actions with everything else interleaved between them.  Timers fire *)
(* at any moment from their due time on.                                   *)
(*                                                                         *)
(* Generations are paired with the current target: executors[t] is the     *)
(* entry of executorsByTargetKey for the published generation of t;        *)
(* entries of other generations can never be looked up again.  How many    *)
(* holders keep a debugger domain active is the subject of DomainDemand.   *)
(***************************************************************************)
EXTENDS Authorization

CONSTANTS
    Agents,             \* provider principals
    TargetIds,
    Clients,            \* client connections
    Principals,         \* client principals
    PrincipalOf,        \* the principal of each client connection
    Operations,         \* operation identifiers, unique among running commands
    Subscriptions,      \* identifiers of subscriptions
    None,               \* an absent map entry
    NoDeadline,         \* a timing option set to null
    MethodSets,         \* the method lists clients ask leases for
    TargetCapabilities, \* the capabilities providers publish targets with
    Authorities,        \* the authorities a connection can be given
    Durations,          \* the lease durations clients ask for
    MaximumDuration,    \* leaseMaximumDurationMilliseconds
    MaximumLifetime,    \* leaseMaximumLifetimeMilliseconds
    ReconnectGrace,     \* reconnectGraceMilliseconds
    TimerLimit,         \* the longest delay the platform's setTimeout keeps
    RevokeOnDisconnect, \* revokeTargetsOnDisconnect
    RepublishesOver,    \* providers may publish over a target not revoked
    MaxGeneration,      \* bound on target generations
    MaxConnection,      \* bound on provider connection generations
    MaxLease,           \* bound on leases ever acquired
    MaxTime             \* bound on the clock

Generations == 1 .. MaxGeneration
Connections == 1 .. MaxConnection
LeaseIds == 1 .. MaxLease
Deadline == Nat \cup {NoDeadline}

Target == [agent : Agents, generation : Generations, capabilities : CapabilityGrant]
Executor == [agent : Agents, connection : Connections, generation : Generations]
Binding == [target : TargetIds, generation : Generations, capabilities : CapabilityGrant]
(* trusted is the in-process caller's authority without a list of grants.  *)
Authority == [available : BOOLEAN, trusted : BOOLEAN, bindings : SUBSET Binding]

(* timerAt is when the platform runs the callback of the expiry timer.     *)
Lease == [principal : Principals, target : TargetIds, generation : Generations,
          methods : SUBSET Names, mode : Modes,
          issuedAt : Nat, expiresAt : Nat, timerAt : Nat]

(* aborted is "early" when the signal fired before the executor was called *)
Operation == [phase : {"activating", "dispatched"}, aborted : {"no", "early", "late"},
              client : Clients, lease : LeaseIds, target : TargetIds,
              generation : Generations, executor : Executor]

Subscription == [phase : {"activating", "open"}, client : Clients, lease : LeaseIds,
                 target : TargetIds, generation : Generations]

ASSUME ConstantsAssumption ==
    /\ MaxGeneration \in Nat /\ MaxConnection \in Nat /\ MaxLease \in Nat /\ MaxTime \in Nat
    /\ PrincipalOf \in [Clients -> Principals]
    /\ MethodSets \subseteq SUBSET Names
    /\ TargetCapabilities \subseteq CapabilityGrant
    /\ Authorities \subseteq Authority
    /\ Durations \subseteq Nat \ {0}
    /\ {MaximumDuration, MaximumLifetime, ReconnectGrace} \subseteq Deadline
    /\ TimerLimit \in Nat
    /\ {RevokeOnDisconnect, RepublishesOver} \subseteq BOOLEAN

ASSUME AbsenceAssumption ==
    /\ None \notin Target \cup Executor \cup Lease \cup Operation \cup Subscription
    /\ None \notin Authority \cup Nat
    /\ NoDeadline \notin Nat

VARIABLES
    disposed,
    now,
    \* providers
    providerConnections, \* transports of each provider that are still open
    lastConnection,      \* the newest connection generation handed out
    agentConnection,     \* agentConnectionGenerationsByPrincipalId, 0 when absent
    \* directory
    targets,             \* targetsById and targetAgentPrincipalIdsById
    highest,             \* highestGenerationByTargetId, 0 when absent
    executors,           \* executorsByTargetKey
    \* clients
    connected,           \* connectedPrincipalIdsByConnectionId
    authority,           \* the live authority of each connection
    graceAt,             \* reconnectGraceTimeoutsByPrincipalId
    leases,              \* leasesById, leasePrincipalIdsById, leaseExpiryTimeoutsById
    acquired,            \* leases acquired so far
    operations,          \* cancellationsByOperationId, commandOperationIdsByTargetKey
    subscriptions        \* subscriptions, subscriptionConnectionIdsById

providerVars == <<providerConnections, lastConnection, agentConnection>>
directoryVars == <<targets, highest, executors>>
clientVars == <<connected, authority, graceAt>>
leaseVars == <<leases, acquired>>
workVars == <<operations, subscriptions>>
vars == <<disposed, now, providerVars, directoryVars, clientVars, leaseVars, workVars>>

Init ==
    /\ disposed = FALSE
    /\ now = 0
    /\ providerConnections = [a \in Agents |-> {}]
    /\ lastConnection = [a \in Agents |-> 0]
    /\ agentConnection = [a \in Agents |-> 0]
    /\ targets = [t \in TargetIds |-> None]
    /\ highest = [t \in TargetIds |-> 0]
    /\ executors = [t \in TargetIds |-> None]
    /\ connected = {}
    /\ authority = [c \in Clients |-> None]
    /\ graceAt = [p \in Principals |-> None]
    /\ leases = [l \in LeaseIds |-> None]
    /\ acquired = 0
    /\ operations = [o \in Operations |-> None]
    /\ subscriptions = [s \in Subscriptions |-> None]

-----------------------------------------------------------------------------
(* Reading the maps                                                        *)

Without(map, keys) == [x \in DOMAIN map |-> IF x \in keys THEN None ELSE map[x]]

HeldLeases == {l \in LeaseIds : leases[l] # None}
OpenSubscriptions ==
    {s \in Subscriptions : subscriptions[s] # None /\ subscriptions[s].phase = "open"}
Running == {o \in Operations : operations[o] # None}

Owned(a) == {t \in TargetIds : targets[t] # None /\ targets[t].agent = a}

(* The record r names the generation of its target that is now published.  *)
OnCurrent(r) == targets[r.target] # None /\ targets[r.target].generation = r.generation

ExclusiveLeasesOn(revoked) ==
    {l \in HeldLeases : leases[l].target \in revoked /\ OnCurrent(leases[l])
                        /\ leases[l].mode = "exclusive-control"}

LeasesOn(revoked) ==
    {l \in HeldLeases : leases[l].target \in revoked /\ OnCurrent(leases[l])}
SubscriptionsOn(revoked) ==
    {s \in OpenSubscriptions :
        subscriptions[s].target \in revoked /\ OnCurrent(subscriptions[s])}
OperationsOn(revoked) ==
    {o \in Running : operations[o].target \in revoked /\ OnCurrent(operations[o])}

SubscriptionsUsing(lost) == {s \in OpenSubscriptions : subscriptions[s].lease \in lost}

Expired(l) == leases[l].expiresAt =< now

(* AbortController.abort() on the signals of these operations              *)
AbortingDispatched(ops) ==
    [o \in Operations |->
        IF o \in ops /\ operations[o].aborted = "no" /\ operations[o].phase = "dispatched"
        THEN [operations[o] EXCEPT !.aborted = "late"]
        ELSE operations[o]]

Aborting(ops) ==
    [o \in Operations |->
        IF o \in ops /\ operations[o].aborted = "no"
        THEN [operations[o] EXCEPT
                 !.aborted = IF operations[o].phase = "activating" THEN "early" ELSE "late"]
        ELSE operations[o]]

DropLeases(lost) ==
    /\ leases' = Without(leases, lost)
    /\ subscriptions' = Without(subscriptions, SubscriptionsUsing(lost))

(* Everything revokeTarget releases for the revoked targets, with the      *)
(* further leases the same call takes away.                                *)
Release(revoked, lost) ==
    /\ leases' = Without(leases, LeasesOn(revoked) \cup lost)
    /\ operations' = Aborting(OperationsOn(revoked))
    /\ subscriptions' =
          Without(subscriptions, SubscriptionsOn(revoked) \cup SubscriptionsUsing(lost))
    /\ UNCHANGED acquired

-----------------------------------------------------------------------------
(* Providers                                                               *)

(* A provider transport authenticates and gets the next generation.        *)
OpenProviderConnection(a) ==
    /\ ~disposed /\ lastConnection[a] < MaxConnection
    /\ lastConnection' = [lastConnection EXCEPT ![a] = @ + 1]
    /\ providerConnections' = [providerConnections EXCEPT ![a] = @ \cup {lastConnection'[a]}]
    /\ UNCHANGED <<disposed, now, agentConnection, directoryVars, clientVars, leaseVars, workVars>>

(* ensureCurrentAgentConnection lets connection k of a through.            *)
Unfenced(a, k) == ~disposed /\ k \in providerConnections[a] /\ k >= agentConnection[a]

(* The targets it revokes: those of an older connection of a.              *)
FencedOnClose(a, k) == {}

Fenced(a, k) == IF k > agentConnection[a] THEN Owned(a) ELSE {}

AdoptConnection(a, k) ==
    /\ agentConnection' = [agentConnection EXCEPT ![a] = k]
    /\ UNCHANGED <<providerConnections, lastConnection>>

(* A first call of a newer connection that only fences its predecessor:    *)
(* the broker rejects the rest of it.                                      *)
FenceOnly(a, k) ==
    /\ Unfenced(a, k) /\ k > agentConnection[a]
    /\ AdoptConnection(a, k)
    /\ targets' = Without(targets, Fenced(a, k))
    /\ executors' = Without(executors, Fenced(a, k))
    /\ Release(Fenced(a, k), {})
    /\ UNCHANGED <<disposed, now, highest, clientVars>>

(* assertAgentOwnsTarget, once the targets in gone are revoked             *)
AgentOwnsTarget(a, t, gone) ==
    targets[t] # None /\ t \notin gone => targets[t].agent = a

(* publishTarget rejects a generation it has seen.                         *)
FreshGeneration(t, g) == g > highest[t]

(* targets.publish: publishTarget, then registerTargetExecutor             *)
PublishTarget(a, k, t, g, capabilities) ==
    LET fenced == Fenced(a, k)
    IN  /\ Unfenced(a, k)
        /\ AgentOwnsTarget(a, t, fenced)
        /\ targets[t] # None /\ t \notin fenced => RepublishesOver
        /\ FreshGeneration(t, g)
        /\ AdoptConnection(a, k)
        /\ targets' = [Without(targets, fenced) EXCEPT ![t] =
              [agent |-> a, generation |-> g, capabilities |-> capabilities]]
        /\ highest' = [highest EXCEPT ![t] = g]
        /\ executors' = [Without(executors, fenced) EXCEPT ![t] =
              [agent |-> a, connection |-> k, generation |-> g]]
        /\ Release(fenced, {})
        /\ UNCHANGED <<disposed, now, clientVars>>

(* Leases on t naming a method the new capabilities no longer allow        *)
UnsupportedBefore(t, capabilities) ==
    {l \in LeasesOn({t}) :
        \E m \in leases[l].methods : ~Allowed(targets[t].capabilities, m)}

Unsupported(t, capabilities) ==
    {l \in LeasesOn({t}) : \E m \in leases[l].methods : ~Allowed(capabilities, m)}

(* targets.update                                                          *)
UpdateTarget(a, k, t, capabilities) ==
    /\ Unfenced(a, k) /\ k = agentConnection[a]
    /\ t \in Owned(a)
    /\ targets' = [targets EXCEPT ![t].capabilities = capabilities]
    /\ DropLeases(Unsupported(t, capabilities))
    /\ UNCHANGED <<disposed, now, providerVars, highest, executors, clientVars, acquired, operations>>

(* targets.revoke of the published generation                              *)
RevokeTarget(a, k, t) ==
    /\ Unfenced(a, k) /\ k = agentConnection[a]
    /\ t \in Owned(a)
    /\ targets' = Without(targets, {t})
    /\ executors' = Without(executors, {t})
    /\ Release({t}, {})
    /\ UNCHANGED <<disposed, now, providerVars, highest, clientVars>>

(* revokeTarget by the embedding host, which passes no agent authority     *)
RevokeTargetByHost(t) ==
    /\ ~disposed /\ targets[t] # None
    /\ targets' = Without(targets, {t})
    /\ executors' = Without(executors, {t})
    /\ Release({t}, {})
    /\ UNCHANGED <<disposed, now, providerVars, highest, clientVars>>

(* targets.reconcile: revoke what is no longer listed, then publish,       *)
(* update or renew each listed target.  An entry of another provider, or   *)
(* of a generation already used, throws: the entries before it in the list *)
(* have been processed, the others and every executor registration have    *)
(* not.  Done is the processed part.                                       *)
ReconcileTargets(a, k, listed) ==
    LET gone == Fenced(a, k) \cup (Owned(a) \ DOMAIN listed)
        present == {t \in DOMAIN listed : targets[t] # None /\ t \notin gone}
        rejected == {t \in DOMAIN listed :
                        IF t \in present THEN ~AgentOwnsTarget(a, t, gone)
                        ELSE ~FreshGeneration(t, listed[t].generation)}
    IN  /\ Unfenced(a, k)
        /\ AdoptConnection(a, k)
        /\ \E done \in IF rejected = {} THEN {DOMAIN listed}
                       ELSE SUBSET (DOMAIN listed \ rejected) :
             LET renewed == {t \in done \cap present :
                                targets[t].generation < listed[t].generation}
                 updated == {t \in done \cap present :
                                targets[t].generation = listed[t].generation}
                 published == renewed \cup (done \ present)
                 revoked == gone \cup renewed
             IN  /\ targets' = [t \in TargetIds |->
                       CASE t \in published ->
                              [agent |-> a, generation |-> listed[t].generation,
                               capabilities |-> listed[t].capabilities]
                         [] t \in updated ->
                              [targets[t] EXCEPT !.capabilities = listed[t].capabilities]
                         [] t \in gone \ published -> None
                         [] OTHER -> targets[t]]
                 /\ highest' = [t \in TargetIds |->
                       IF t \in published THEN listed[t].generation ELSE highest[t]]
                 /\ executors' = [t \in TargetIds |->
                       IF rejected = {} /\ t \in published \cup updated
                       THEN [agent |-> a, connection |-> k, generation |-> listed[t].generation]
                       ELSE IF t \in revoked THEN None ELSE executors[t]]
                 /\ Release(revoked,
                       UNION {Unsupported(t, listed[t].capabilities) : t \in updated})
        /\ UNCHANGED <<disposed, now, clientVars>>

(* The transport of connection k closes: revokeAgentTargets, unless a      *)
(* newer connection of the provider has taken over.                        *)
CloseProviderConnection(a, k) ==
    LET dropped == IF RevokeOnDisconnect /\ agentConnection[a] \in {0, k} THEN Owned(a) ELSE {}
    IN  /\ k \in providerConnections[a]
        /\ providerConnections' = [providerConnections EXCEPT ![a] = @ \ {k}]
        /\ targets' = Without(targets, dropped)
        /\ executors' = Without(executors, dropped)
        /\ Release(dropped, {})
        /\ UNCHANGED <<disposed, now, lastConnection, agentConnection, highest, clientVars>>

-----------------------------------------------------------------------------
(* Client connections                                                      *)

ConnectionsOf(p) == {c \in connected : PrincipalOf[c] = p}

LeasesOf(p) == {l \in HeldLeases : leases[l].principal = p}

(* c is the only connection p has left.                                    *)
NoneLeft(p, c) == ConnectionsOf(p) = {}

OnlyConnection(p, c) == ConnectionsOf(p) = {c}

(* A connection identifier is used again only once nothing refers to it.   *)
ConnectClient(c, granted) ==
    /\ ~disposed /\ c \notin connected
    /\ \A o \in Running : operations[o].client # c
    /\ \A s \in Subscriptions : subscriptions[s] # None => subscriptions[s].client # c
    /\ connected' = connected \cup {c}
    /\ authority' = [authority EXCEPT ![c] = granted]
    /\ graceAt' = [graceAt EXCEPT ![PrincipalOf[c]] = None]
    /\ UNCHANGED <<disposed, now, providerVars, directoryVars, leaseVars, workVars>>

(* Abort the connection's operations, close its subscriptions, and start   *)
(* the grace period once the principal has no connection left.             *)
DisconnectClient(c) ==
    LET p == PrincipalOf[c]
        last == OnlyConnection(p, c)
    IN  /\ ~disposed /\ c \in connected
        /\ connected' = connected \ {c}
        /\ operations' = Aborting({o \in Running : operations[o].client = c})
        /\ subscriptions' =
              Without(subscriptions, {s \in OpenSubscriptions : subscriptions[s].client = c})
        /\ leases' = IF last /\ ReconnectGrace = 0 THEN Without(leases, LeasesOf(p)) ELSE leases
        /\ graceAt' = IF last /\ ReconnectGrace \notin {0, NoDeadline}
                      THEN [graceAt EXCEPT ![p] = now + ReconnectGrace] ELSE graceAt
        /\ UNCHANGED <<disposed, now, providerVars, directoryVars, authority, acquired>>

(* releasePrincipalLeases, on its timer                                    *)
GraceExpires(p) ==
    /\ ~disposed /\ graceAt[p] # None /\ graceAt[p] =< now
    /\ graceAt' = [graceAt EXCEPT ![p] = None]
    /\ leases' = IF ConnectionsOf(p) = {} THEN Without(leases, LeasesOf(p)) ELSE leases
    /\ UNCHANGED <<disposed, now, providerVars, directoryVars, connected, authority,
                   acquired, workVars>>

(* What the bindings of a grant for generation g of t                      *)
GrantsFor(granted, t, g) ==
    {b.capabilities : b \in {b \in granted.bindings : b.target = t /\ b.generation = g}}

(* getAuthorizedTarget succeeds for the published generation of t          *)
Authorized(granted, t) ==
    /\ granted.available
    /\ targets[t] # None
    /\ granted.trusted \/ GrantsFor(granted, t, targets[t].generation) # {}

EffectiveCapabilities(granted, t) ==
    IF granted.trusted THEN targets[t].capabilities
    ELSE IntersectCapabilities(targets[t].capabilities,
             CombinedGrant(GrantsFor(granted, t, targets[t].generation)))

(* refreshClientAuthority still tolerates the lease under this authority.  *)
Tolerates(granted, lease) ==
    /\ OnCurrent(lease)
    /\ Authorized(granted, lease.target)
    /\ LET capabilities == EffectiveCapabilities(granted, lease.target)
       IN  /\ \A m \in lease.methods : Allowed(capabilities, m)
           /\ lease.mode = "shared-read" =>
                 RequiredLeaseMode(capabilities, lease.methods) = "shared-read"

(* A connection's live authority changes and the broker is told.  A late   *)
(* notice can still arrive for a connection that has gone.                 *)
RefreshClientAuthority(c, granted) ==
    LET lost == {l \in LeasesOf(PrincipalOf[c]) : ~Tolerates(granted, leases[l])}
    IN  /\ ~disposed /\ authority[c] # None
        /\ authority' = [authority EXCEPT ![c] = granted]
        /\ DropLeases(lost)
        /\ operations' = Aborting({o \in Running :
              operations[o].client = c /\ operations[o].lease \notin HeldLeases \ lost})
        /\ UNCHANGED <<disposed, now, providerVars, directoryVars, connected, graceAt, acquired>>

-----------------------------------------------------------------------------
(* Leases                                                                  *)

(* A call of c that names the published generation of t gets past          *)
(* getAuthorizedTarget.                                                    *)
MayUse(c, t) == ~disposed /\ c \in connected /\ Authorized(authority[c], t)

DurationAllowed(d) == MaximumDuration # NoDeadline => d =< MaximumDuration

EarlierOf(x, y) == IF x =< y THEN x ELSE y

(* The expiry of a lease issued at i and granted for d from now            *)
ExpiryFor(i, d) ==
    IF MaximumLifetime = NoDeadline THEN now + d
    ELSE EarlierOf(now + d, i + MaximumLifetime)

(* setTimeout runs the callback at once when the delay is out of range.    *)
TimerFor(expiry) == IF expiry - now =< TimerLimit THEN expiry ELSE now

(* removeExpiredLeases deletes them and their timers, nothing else.        *)
ExpiredLeases == {l \in HeldLeases : Expired(l)}

ConflictingOlder(t, kept) ==
    {l \in kept : leases[l].target = t /\ OnCurrent(leases[l])
                  /\ leases[l].mode = "exclusive-control" /\ leases[l].issuedAt < now}

Conflicting(t, kept) ==
    {l \in kept : leases[l].target = t /\ OnCurrent(leases[l])
                  /\ leases[l].mode = "exclusive-control"}

ModeSuffices(mode, capabilities, methods) ==
    mode = "shared-read" => RequiredLeaseMode(capabilities, methods) = "shared-read"

Requestable(c, t, methods, d) ==
    /\ MayUse(c, t)
    /\ DurationAllowed(d)
    /\ \A m \in methods : Allowed(EffectiveCapabilities(authority[c], t), m)

AcquireLease(c, t, methods, mode, d) ==
    LET l == acquired + 1
        expiry == ExpiryFor(now, d)
    IN  /\ Requestable(c, t, methods, d)
        /\ ModeSuffices(mode, EffectiveCapabilities(authority[c], t), methods)
        /\ mode = "exclusive-control" => Conflicting(t, HeldLeases \ ExpiredLeases) = {}
        /\ l \in LeaseIds /\ expiry =< MaxTime
        /\ acquired' = l
        /\ leases' = [Without(leases, ExpiredLeases) EXCEPT ![l] =
              [principal |-> PrincipalOf[c], target |-> t, generation |-> targets[t].generation,
               methods |-> methods, mode |-> mode,
               issuedAt |-> now, expiresAt |-> expiry, timerAt |-> TimerFor(expiry)]]
        /\ UNCHANGED <<disposed, now, providerVars, directoryVars, clientVars, workVars>>

(* An acquire that fails later than removeExpiredLeases.                   *)
AcquireRefused(c, t, methods, mode, d) ==
    /\ Requestable(c, t, methods, d)
    /\ \/ ~ModeSuffices(mode, EffectiveCapabilities(authority[c], t), methods)
       \/ mode = "exclusive-control" /\ Conflicting(t, HeldLeases \ ExpiredLeases) # {}
    /\ ExpiredLeases # {}
    /\ leases' = Without(leases, ExpiredLeases)
    /\ UNCHANGED <<disposed, now, providerVars, directoryVars, clientVars, acquired, workVars>>

(* The lease l a call of c names belongs to c's principal and to a target  *)
(* generation c may use.                                                   *)
MayName(c, l) ==
    /\ l \in LeasesOf(PrincipalOf[c])
    /\ OnCurrent(leases[l])
    /\ MayUse(c, leases[l].target)

(* getActiveLease returns the lease                                        *)
Active(c, l) == MayName(c, l) /\ ~Expired(l)

(* A lease past its lifetime cannot be renewed; renewing it ends it.       *)
RenewLeaseWithoutTimer(c, l, d) ==
    LET expiry == ExpiryFor(leases[l].issuedAt, d)
    IN  /\ Active(c, l)
        /\ DurationAllowed(d) /\ expiry =< MaxTime
        /\ leases' = [leases EXCEPT ![l].expiresAt = expiry, ![l].timerAt = MaxTime + 1]
        /\ UNCHANGED <<disposed, now, providerVars, directoryVars, clientVars, acquired, workVars>>

RenewLease(c, l, d) ==
    LET lifetimeOver == MaximumLifetime # NoDeadline /\ leases[l].issuedAt + MaximumLifetime =< now
        expiry == ExpiryFor(leases[l].issuedAt, d)
    IN  /\ Active(c, l)
        /\ DurationAllowed(d) /\ expiry =< MaxTime
        /\ IF lifetimeOver THEN DropLeases({l})
           ELSE /\ leases' = [leases EXCEPT ![l].expiresAt = expiry,
                                            ![l].timerAt = TimerFor(expiry)]
                /\ UNCHANGED subscriptions
        /\ UNCHANGED <<disposed, now, providerVars, directoryVars, clientVars, acquired, operations>>

ReleaseLease(c, l) ==
    /\ Active(c, l)
    /\ DropLeases({l})
    /\ UNCHANGED <<disposed, now, providerVars, directoryVars, clientVars, acquired, operations>>

(* Any call naming an expired lease ends it: getActiveLease throws.        *)
UseExpiredLease(c, l) ==
    /\ MayName(c, l) /\ Expired(l)
    /\ DropLeases({l})
    /\ UNCHANGED <<disposed, now, providerVars, directoryVars, clientVars, acquired, operations>>

LeaseTimerFires(l) ==
    /\ l \in HeldLeases /\ leases[l].timerAt =< now
    /\ DropLeases({l})
    /\ UNCHANGED <<disposed, now, providerVars, directoryVars, clientVars, acquired, operations>>

-----------------------------------------------------------------------------
(* Commands                                                                *)

CommandPermitted(c, l, m) ==
    LET capabilities == EffectiveCapabilities(authority[c], leases[l].target)
    IN  /\ m \in leases[l].methods
        /\ IsCdpNameAllowed(capabilities, m, "command")
        /\ ModeSuffices(leases[l].mode, capabilities, {m})

(* executeCommand up to its first await: the domain activation when one is *)
(* pending, the executor's answer otherwise.  The executor is captured.    *)
ExecuteCommand(c, o, l, m, phase) ==
    LET t == leases[l].target
    IN  /\ operations[o] = None
        /\ Active(c, l)
        /\ CommandPermitted(c, l, m)
        /\ executors[t] # None /\ executors[t].generation = targets[t].generation
        /\ operations' = [operations EXCEPT ![o] =
              [phase |-> phase, aborted |-> "no", client |-> c, lease |-> l, target |-> t,
               generation |-> leases[l].generation, executor |-> executors[t]]]
        /\ UNCHANGED <<disposed, now, providerVars, directoryVars, clientVars, leaseVars,
                       subscriptions>>

OnlyOperations ==
    UNCHANGED <<disposed, now, providerVars, directoryVars, clientVars, leaseVars, subscriptions>>

(* The activation settles: nothing is examined again before the executor   *)
(* is called.                                                              *)
Dispatch(o) ==
    /\ o \in Running /\ operations[o].phase = "activating"
    /\ operations' = [operations EXCEPT ![o].phase = "dispatched"]
    /\ OnlyOperations

ActivationFails(o) ==
    /\ o \in Running /\ operations[o].phase = "activating"
    /\ operations' = [operations EXCEPT ![o] = None]
    /\ OnlyOperations

(* The provider answers, with a result or an error, or its adapter is      *)
(* disposed of and rejects what is still pending.                          *)
ExecutorResponds(o) ==
    /\ o \in Running /\ operations[o].phase = "dispatched"
    /\ operations' = [operations EXCEPT ![o] = None]
    /\ OnlyOperations

(* The executor's abort listener, added when it is called, rejects.        *)
AbortSettles(o) ==
    /\ o \in Running /\ operations[o].phase = "dispatched" /\ operations[o].aborted = "late"
    /\ operations' = [operations EXCEPT ![o] = None]
    /\ OnlyOperations

CancelCommand(c, o) ==
    /\ ~disposed /\ o \in Running /\ operations[o].client = c /\ c \in connected
    /\ operations[o].aborted = "no"
    /\ operations' = Aborting({o})
    /\ OnlyOperations

CommandTimesOut(o) ==
    /\ o \in Running /\ operations[o].aborted = "no"
    /\ operations' = Aborting({o})
    /\ OnlyOperations

-----------------------------------------------------------------------------
(* Subscriptions                                                           *)

(* subscribe up to its await of the domain activation                      *)
Subscribe(c, s, l) ==
    LET t == leases[l].target
        capabilities == EffectiveCapabilities(authority[c], t)
    IN  /\ subscriptions[s] = None
        /\ Active(c, l)
        /\ \E m \in leases[l].methods :
              /\ IsCdpNameAllowed(capabilities, m, "event")
              /\ ModeSuffices(leases[l].mode, capabilities, {m})
        /\ subscriptions' = [subscriptions EXCEPT ![s] =
              [phase |-> "activating", client |-> c, lease |-> l, target |-> t,
               generation |-> leases[l].generation]]
        /\ UNCHANGED <<disposed, now, providerVars, directoryVars, clientVars, leaseVars, operations>>

OnlySubscriptions ==
    UNCHANGED <<disposed, now, providerVars, directoryVars, clientVars, leaseVars, operations>>

(* The await resolves: the subscription is registered, whatever happened   *)
(* to its lease, target and connection meanwhile.                          *)
SubscriptionOpens(s) ==
    /\ subscriptions[s] # None /\ subscriptions[s].phase = "activating"
    /\ subscriptions' = [subscriptions EXCEPT ![s].phase = "open"]
    /\ OnlySubscriptions

SubscriptionFails(s) ==
    /\ subscriptions[s] # None /\ subscriptions[s].phase = "activating"
    /\ subscriptions' = [subscriptions EXCEPT ![s] = None]
    /\ OnlySubscriptions

(* unsubscribe, a stream that fails, or an overflow that disconnects       *)
CloseSubscription(s) ==
    /\ s \in OpenSubscriptions /\ subscriptions[s].client \in connected
    /\ subscriptions' = [subscriptions EXCEPT ![s] = None]
    /\ OnlySubscriptions

(* publishEvent offers the event to the open subscriptions of t: one whose *)
(* lease is gone closes, and an expired lease found this way ends.         *)
PublishEvent(t) ==
    LET listening == {s \in OpenSubscriptions :
                        subscriptions[s].target = t /\ OnCurrent(subscriptions[s])}
        orphans == {s \in listening : subscriptions[s].lease \notin HeldLeases}
        stale == {l \in ExpiredLeases : \E s \in listening : subscriptions[s].lease = l}
    IN  /\ ~disposed /\ targets[t] # None
        /\ \E m \in Names : IsCdpNameAllowed(targets[t].capabilities, m, "event")
        /\ orphans # {} \/ stale # {}
        /\ leases' = Without(leases, stale)
        /\ subscriptions' = Without(subscriptions, orphans \cup SubscriptionsUsing(stale))
        /\ UNCHANGED <<disposed, now, providerVars, directoryVars, clientVars, acquired, operations>>

-----------------------------------------------------------------------------
(* dispose aborts, closes and forgets everything.  A pending command       *)
(* settles as the executor settles it; agentConnection and highest stay.   *)
Dispose ==
    /\ ~disposed
    /\ disposed' = TRUE
    /\ targets' = [t \in TargetIds |-> None]
    /\ executors' = [t \in TargetIds |-> None]
    /\ connected' = {}
    /\ graceAt' = [p \in Principals |-> None]
    /\ leases' = [l \in LeaseIds |-> None]
    /\ operations' = Aborting(Running)
    /\ subscriptions' = Without(subscriptions, OpenSubscriptions)
    /\ UNCHANGED <<now, providerVars, highest, authority, acquired>>

Tick ==
    /\ now < MaxTime
    /\ now' = now + 1
    /\ UNCHANGED <<disposed, providerVars, directoryVars, clientVars, leaseVars, workVars>>

Listings ==
    UNION {[listed -> [generation : Generations, capabilities : TargetCapabilities]] :
              listed \in SUBSET TargetIds}

ProviderStep ==
    \/ \E a \in Agents : OpenProviderConnection(a)
    \/ \E a \in Agents, k \in Connections : FenceOnly(a, k)
    \/ \E a \in Agents, k \in Connections, t \in TargetIds, g \in Generations,
          capabilities \in TargetCapabilities : PublishTarget(a, k, t, g, capabilities)
    \/ \E a \in Agents, k \in Connections, t \in TargetIds, capabilities \in TargetCapabilities :
          UpdateTarget(a, k, t, capabilities)
    \/ \E a \in Agents, k \in Connections, t \in TargetIds : RevokeTarget(a, k, t)
    \/ \E t \in TargetIds : RevokeTargetByHost(t)
    \/ \E a \in Agents, k \in Connections, listed \in Listings : ReconcileTargets(a, k, listed)
    \/ \E a \in Agents, k \in Connections : CloseProviderConnection(a, k)

ClientStep ==
    \/ \E c \in Clients, granted \in Authorities : ConnectClient(c, granted)
    \/ \E c \in Clients : DisconnectClient(c)
    \/ \E p \in Principals : GraceExpires(p)
    \/ \E c \in Clients, granted \in Authorities : RefreshClientAuthority(c, granted)

LeaseStep ==
    \/ \E c \in Clients, t \in TargetIds, methods \in MethodSets, mode \in Modes, d \in Durations :
          AcquireLease(c, t, methods, mode, d)
    \/ \E c \in Clients, t \in TargetIds, methods \in MethodSets, mode \in Modes, d \in Durations :
          AcquireRefused(c, t, methods, mode, d)
    \/ \E c \in Clients, l \in LeaseIds, d \in Durations : RenewLease(c, l, d)
    \/ \E c \in Clients, l \in LeaseIds : ReleaseLease(c, l)
    \/ \E c \in Clients, l \in LeaseIds : UseExpiredLease(c, l)
    \/ \E l \in LeaseIds : LeaseTimerFires(l)

CommandStep ==
    \/ \E c \in Clients, o \in Operations, l \in LeaseIds, m \in Names,
          phase \in {"activating", "dispatched"} : ExecuteCommand(c, o, l, m, phase)
    \/ \E o \in Operations : Dispatch(o)
    \/ \E o \in Operations : ActivationFails(o)
    \/ \E o \in Operations : ExecutorResponds(o)
    \/ \E o \in Operations : AbortSettles(o)
    \/ \E c \in Clients, o \in Operations : CancelCommand(c, o)
    \/ \E o \in Operations : CommandTimesOut(o)

SubscriptionStep ==
    \/ \E c \in Clients, s \in Subscriptions, l \in LeaseIds : Subscribe(c, s, l)
    \/ \E s \in Subscriptions : SubscriptionOpens(s)
    \/ \E s \in Subscriptions : SubscriptionFails(s)
    \/ \E s \in Subscriptions : CloseSubscription(s)
    \/ \E t \in TargetIds : PublishEvent(t)

Next == ProviderStep \/ ClientStep \/ LeaseStep \/ CommandStep \/ SubscriptionStep
        \/ Dispose \/ Tick

Spec == Init /\ [][Next]_vars

(* The clock runs and the platform eventually runs the callback of a timer *)
(* that is due.                                                            *)
TimersRun == WF_vars(Tick) /\ \A l \in LeaseIds : WF_vars(LeaseTimerFires(l))

FairSpec == Spec /\ TimersRun
-----------------------------------------------------------------------------
(* Every map keeps to its key and record types (the state maps declared at *)
(* the top of createTargetBroker).                                         *)
TypeOK ==
    /\ disposed \in BOOLEAN
    /\ now \in Nat
    /\ providerConnections \in [Agents -> SUBSET Connections]
    /\ lastConnection \in [Agents -> 0 .. MaxConnection]
    /\ agentConnection \in [Agents -> 0 .. MaxConnection]
    /\ targets \in [TargetIds -> Target \cup {None}]
    /\ highest \in [TargetIds -> 0 .. MaxGeneration]
    /\ executors \in [TargetIds -> Executor \cup {None}]
    /\ connected \subseteq Clients
    /\ authority \in [Clients -> Authority \cup {None}]
    /\ graceAt \in [Principals -> Nat \cup {None}]
    /\ leases \in [LeaseIds -> Lease \cup {None}]
    /\ acquired \in 0 .. MaxLease
    /\ operations \in [Operations -> Operation \cup {None}]
    /\ subscriptions \in [Subscriptions -> Subscription \cup {None}]

(* At most one client controls a target generation: of all the leases the  *)
(* broker holds on it, expired ones not yet collected included, at most    *)
(* one is exclusive, however acquires, renewals, expiry timers and         *)
(* republication interleave.                                               *)
ExclusiveController ==
    \A l, m \in HeldLeases :
        /\ leases[l].mode = "exclusive-control" /\ leases[m].mode = "exclusive-control"
        /\ leases[l].target = leases[m].target
        /\ leases[l].generation = leases[m].generation
        => l = m

(* A lease never outlives the publication it was taken on: whichever way a *)
(* target goes (revoked, reconciled away, fenced, its provider gone) its   *)
(* leases go in the same step.  Holds when providers revoke a target       *)
(* before they publish it anew, as the extension does.                     *)
LeaseOnPublishedTarget == \A l \in HeldLeases : OnCurrent(leases[l])

(* A held lease names nothing its target has stopped offering: narrowing a *)
(* target by an update or a reconcile takes away the leases that need more.*)
LeaseWithinTarget ==
    \A l \in HeldLeases : OnCurrent(leases[l]) =>
        \A m \in leases[l].methods : Allowed(targets[leases[l].target].capabilities, m)

(* No sequence of renewals carries a lease past its maximum lifetime.      *)
LeaseWithinLifetime ==
    MaximumLifetime # NoDeadline =>
        \A l \in HeldLeases : leases[l].expiresAt =< leases[l].issuedAt + MaximumLifetime

(* The leases of a principal with no connection left are always bounded by *)
(* a pending grace timer: reconnects and disconnects of its several        *)
(* connections in any order never lose the timer.                          *)
NoOrphanLease ==
    ReconnectGrace # NoDeadline =>
        \A p \in Principals :
            LeasesOf(p) # {} => ConnectionsOf(p) # {} \/ graceAt[p] # None

(* The executor that would serve a published target was registered by the  *)
(* newest connection of the provider that owns the target, for that        *)
(* generation: an older, half-open connection never serves.                *)
NewestProviderServes ==
    \A t \in TargetIds : targets[t] # None /\ executors[t] # None =>
        /\ executors[t].agent = targets[t].agent
        /\ executors[t].connection = agentConnection[targets[t].agent]
        /\ executors[t].generation = targets[t].generation

(* Work that lost its ground has been told so: a running command whose     *)
(* client connection has gone, whose target generation is no longer        *)
(* published or whose provider connection has been superseded is aborted.  *)
FencedWorkAborted ==
    \A o \in Running : operations[o].aborted = "no" =>
        /\ operations[o].client \in connected
        /\ OnCurrent(operations[o])
        /\ operations[o].executor.connection =
              agentConnection[operations[o].executor.agent]

(* A target generation is never published twice: what appears in the       *)
(* directory is newer than everything published under that identity before,*)
(* by any provider and any connection.                                     *)
GenerationsAdvance ==
    [][\A t \in TargetIds :
          /\ highest'[t] >= highest[t]
          /\ targets'[t] # None /\ (targets[t] = None \/ targets'[t].generation # targets[t].generation)
             => targets'[t].generation > highest[t]]_vars

(* A provider cannot take over a target another provider has published.    *)
NoTakeover ==
    [][\A t \in TargetIds :
          targets[t] # None /\ targets'[t] # None => targets'[t].agent = targets[t].agent]_vars

(* There is no preemption: an acquire, granted, takes away no lease that   *)
(* has not expired.                                                        *)
NoPreemption ==
    [][acquired' # acquired =>
          \A l \in HeldLeases : leases'[l] # leases[l] => Expired(l)]_vars

(* Narrowing never widens: each method of a lease that is granted is       *)
(* allowed by one of the bindings the client's connection has for that     *)
(* very generation, unless the caller is trusted, however many bindings    *)
(* were combined and cut down to what the target offers.                   *)
GrantedWithinAuthority ==
    [][acquired' # acquired =>
          LET lease == leases'[acquired']
          IN  \E c \in connected :
                 /\ lease.principal = PrincipalOf[c]
                 /\ \A m \in lease.methods :
                       \/ authority[c].trusted
                       \/ \E b \in authority[c].bindings :
                             /\ b.target = lease.target /\ b.generation = lease.generation
                             /\ Allowed(b.capabilities, m)]_vars

(* The leases are locks on target generations: as LeaseLock has it, each   *)
(* is granted once, on terms that stay, exclusively when it is of control, *)
(* and gives way to another only when it has expired, which no renewal     *)
(* undoes.                                                                 *)
Terms == [principal : Principals, target : TargetIds, generation : Generations,
          methods : SUBSET Names, mode : Modes]
TermsOf(lease) ==
    [principal |-> lease.principal, target |-> lease.target, generation |-> lease.generation,
     methods |-> lease.methods, mode |-> lease.mode]
HeldTerms == [l \in HeldLeases |-> TermsOf(leases[l])]
Lock == INSTANCE LeaseLock
            WITH Ids <- LeaseIds, held <- HeldTerms, lapsed <- ExpiredLeases, granted <- 1 .. acquired
ImplementsLock == Lock!Spec

(* Every lease ends: a client cannot hold a target for ever by renewing    *)
(* its lease, with no other call ever made.                                *)
LeaseEnds == \A l \in LeaseIds : (leases[l] # None) ~> (leases[l] = None)

(* ARCHITECTURE.md, Security invariants: "A generation superseded by       *)
(* recovery cannot execute commands."  A command is handed to the executor *)
(* only while its target generation is published.                          *)
SupersededGenerationIdle ==
    [][\A o \in Running :
          /\ operations[o].phase = "activating"
          /\ operations'[o] # None /\ operations'[o].phase = "dispatched"
          => OnCurrent(operations[o])]_vars

(* ARCHITECTURE.md, Client target connection: "Disconnecting the client    *)
(* cancels its operations and subscriptions".                              *)
NoSubscriptionAfterDisconnect ==
    \A s \in OpenSubscriptions : subscriptions[s].client \in connected
=============================================================================
