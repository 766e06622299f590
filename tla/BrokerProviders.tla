-------------------------- MODULE BrokerProviders ---------------------------
(***************************************************************************)
(* One browser installation as the broker runtime sees it: registration,   *)
(* pairing and authentication over several peers, the provider entry it    *)
(* obtains, losing and recovering the connection, and what happens to the  *)
(* access requests it has granted when it does not come back.              *)
(*                                                                         *)
(* Every authentication is an attempt with a life of its own: it is        *)
(* checked, awaits cryptography or the identity store, and is checked      *)
(* again.  An attempt stands for its transcript (connectionId).  A         *)
(* challenge that expires is one that is no longer its peer's current      *)
(* attempt: both fail the same check.  The installation generates a fresh  *)
(* credential for every pairing, named here by the attempt that brings it. *)
(***************************************************************************)
EXTENDS Naturals, Sequences, FiniteSets

CONSTANTS
    Peers,          \* transport connections, each used until it disconnects
    Requests,       \* access requests the provider may grant
    None,
    MaxAttempts,    \* bound on authentications begun
    Tasks,          \* bound on cancellation loops that run at once, numbers
    HasAutomation,  \* an automationProvider is configured
    StoreFails      \* writes of the identity store and cancellations may fail

ASSUME ProvidersAssumption ==
    /\ MaxAttempts \in Nat /\ {HasAutomation, StoreFails} \subseteq BOOLEAN
    /\ Tasks \subseteq Nat /\ None \notin Peers

Attempts == 1 .. MaxAttempts

VARIABLES
    registrations,  \* peers that have registered
    invitation,     \* the peer invited to pair, invitations
    challenge,      \* challenges: the attempt a peer may still prove, or 0
    current,        \* attempts: the latest attempt of a peer, or 0
    auth,           \* the authentications, by attempt
    paired,         \* credentials of the installation in the identity store
    updates,        \* writes queued in the identity store
    generations,    \* connection generations handed out
    provider,       \* the entry of providers
    granted,        \* requests whose state is "granted"
    abandoned,      \* requests some loop has left after a failure
    task,           \* running cancellation loops
    gone            \* peers whose transport has closed

pairing == <<registrations, invitation, challenge, current>>
providersVars == <<registrations, invitation, challenge, current, auth, paired, updates, generations,
          provider, granted, abandoned, task, gone>>

(* registration: the registration the call has read is still in place.     *)
Auth == [phase : {"unused", "issued", "verifying", "activating", "proving", "over"},
         peer : Peers \cup {None}, credential : 0 .. MaxAttempts,
         pending : BOOLEAN, registration : BOOLEAN, generation : Nat]
Unused == [phase |-> "unused", peer |-> None, credential |-> 0, pending |-> FALSE,
           registration |-> FALSE, generation |-> 0]
Over == [Unused EXCEPT !.phase = "over"]

(* closed: the connection's closed promise may still settle.  reconciling: *)
(* a reconciliation that the connection announced is being applied.        *)
Provider == [state : {"none", "connecting", "ready", "recovering", "offline", "disconnected"},
             peer : Peers \cup {None}, generation : Nat, attached : BOOLEAN, timer : BOOLEAN,
             closed : BOOLEAN, setup : BOOLEAN, reconciling : BOOLEAN]
NoProvider == [state |-> "none", peer |-> None, generation |-> 0, attached |-> FALSE,
               timer |-> FALSE, closed |-> FALSE, setup |-> FALSE, reconciling |-> FALSE]

(* todo: requests of the snapshot the loop has still to cancel.            *)
Task == [phase : {"idle", "cancelling", "removing"}, todo : SUBSET Requests, forget : BOOLEAN]
Idle == [phase |-> "idle", todo |-> {}, forget |-> FALSE]

Update == [op : {"activate"}, attempt : Attempts] \cup [op : {"remove"}, credential : Attempts, task : Tasks]

ProvidersInit ==
    /\ registrations = {} /\ invitation = None
    /\ challenge = [p \in Peers |-> 0] /\ current = [p \in Peers |-> 0]
    /\ auth = [a \in Attempts |-> Unused]
    /\ paired = {} /\ updates = <<>> /\ generations = 0
    /\ provider = NoProvider /\ granted = {} /\ abandoned = {}
    /\ task = [t \in Tasks |-> Idle] /\ gone = {}

-----------------------------------------------------------------------------
(* Attempts lose their registration when the peer registers anew or goes.  *)
Unregister(peers) ==
    auth' = [a \in Attempts |-> IF auth[a].peer \in peers THEN [auth[a] EXCEPT !.registration = FALSE] ELSE auth[a]]

(* ProviderAuthentication.forget                                           *)
Forget(peers) ==
    /\ challenge' = [p \in Peers |-> IF p \in peers THEN 0 ELSE challenge[p]]
    /\ current' = [p \in Peers |-> IF p \in peers THEN 0 ELSE current[p]]
    /\ invitation' = IF invitation \in peers THEN None ELSE invitation

RegisterProvider(p) ==
    /\ p \notin gone
    /\ registrations' = registrations \cup {p}
    /\ Unregister({p})
    /\ UNCHANGED <<invitation, challenge, current, paired, updates, generations, provider, granted, abandoned, task, gone>>

(* createPairingOffer: a later offer replaces an earlier one.              *)
Invite(p) ==
    /\ p \in registrations /\ paired = {}
    /\ invitation' = p
    /\ UNCHANGED <<registrations, challenge, current, auth, paired, updates, generations, provider, granted, abandoned, task, gone>>

InvitationLapses ==
    /\ invitation # None
    /\ invitation' = None
    /\ UNCHANGED <<registrations, challenge, current, auth, paired, updates, generations, provider, granted, abandoned, task, gone>>

(* beginProviderAuthentication                                             *)
Begin(p, pairs) ==
    /\ p \in registrations
    /\ IF pairs THEN paired = {} /\ invitation = p /\ invitation' = None
                ELSE UNCHANGED invitation
    /\ \E a \in Attempts :
          /\ auth[a].phase = "unused" /\ \A b \in 1 .. a - 1 : auth[b].phase # "unused"
          /\ \E k \in IF pairs THEN {a} ELSE paired :
                auth' = [auth EXCEPT ![a] = [Unused EXCEPT !.phase = "issued", !.peer = p,
                                                           !.credential = k, !.pending = pairs]]
          /\ challenge' = [challenge EXCEPT ![p] = a]
          /\ current' = [current EXCEPT ![p] = a]
    /\ UNCHANGED <<registrations, paired, updates, generations, provider, granted, abandoned, task, gone>>

(* It matters as long as the attempt has a check to come.                  *)
ChallengeExpires(p) ==
    /\ current[p] # 0 /\ auth[current[p]].phase # "over"
    /\ current' = [current EXCEPT ![p] = 0]
    /\ UNCHANGED <<registrations, invitation, challenge, auth, paired, updates, generations, provider, granted, abandoned, task, gone>>

IsCurrent(a) == current[auth[a].peer] = a

(* authenticateProvider, up to the verification of the proof               *)
Authenticate(p) ==
    LET a == challenge[p] IN
    /\ p \in registrations /\ a # 0
    /\ challenge' = [challenge EXCEPT ![p] = 0]
    /\ auth' = [auth EXCEPT ![a] = IF IsCurrent(a) THEN [@ EXCEPT !.phase = "verifying", !.registration = TRUE]
                                   ELSE Over]
    /\ UNCHANGED <<registrations, invitation, current, paired, updates, generations, provider, granted, abandoned, task, gone>>

(* The generation the attempt is given once its pairing is known active    *)
Generated(a) ==
    IF IsCurrent(a)
    THEN /\ generations' = generations + 1
         /\ auth' = [auth EXCEPT ![a].phase = "proving", ![a].pending = FALSE, ![a].generation = generations + 1]
    ELSE /\ auth' = [auth EXCEPT ![a] = Over]
         /\ UNCHANGED generations

Verified(a) ==
    /\ auth[a].phase = "verifying"
    /\ IF ~IsCurrent(a) \/ (IF auth[a].pending THEN paired # {} ELSE auth[a].credential \notin paired)
       THEN auth' = [auth EXCEPT ![a] = Over] /\ UNCHANGED <<updates, generations>>
       ELSE IF auth[a].pending
       THEN /\ auth' = [auth EXCEPT ![a].phase = "activating"]
            /\ updates' = Append(updates, [op |-> "activate", attempt |-> a])
            /\ UNCHANGED generations
       ELSE Generated(a) /\ UNCHANGED updates
    /\ UNCHANGED <<pairing, paired, provider, granted, abandoned, task, gone>>

(* The store runs one update after the other; the transform looks again.   *)
Activates(a) == paired = {}

Activated ==
    /\ updates # <<>> /\ Head(updates).op = "activate"
    /\ updates' = Tail(updates)
    /\ LET a == Head(updates).attempt IN
       \/ /\ Activates(a)
          /\ paired' = paired \cup {auth[a].credential}
          /\ Generated(a)
       \/ /\ ~Activates(a) \/ StoreFails
          /\ auth' = [auth EXCEPT ![a] = Over]
          /\ UNCHANGED <<paired, generations>>
    /\ UNCHANGED <<pairing, provider, granted, abandoned, task, gone>>

InstallableIfCurrent(a) == IsCurrent(a) /\ auth[a].registration
Installable(a) == IsCurrent(a) /\ auth[a].generation = generations /\ auth[a].registration

(* The proof of the broker is ready: the provider replaces the entry.  A   *)
(* replaced entry is detached and none of its callbacks acts on it again.  *)
Install(a) ==
    /\ auth[a].phase = "proving"
    /\ auth' = [auth EXCEPT ![a] = Over]
    /\ provider' = IF Installable(a)
                   THEN [NoProvider EXCEPT !.state = "connecting", !.peer = auth[a].peer,
                            !.generation = auth[a].generation, !.attached = TRUE, !.closed = TRUE,
                            !.setup = HasAutomation]
                   ELSE provider
    /\ UNCHANGED <<pairing, paired, updates, generations, granted, abandoned, task, gone>>

-----------------------------------------------------------------------------
(* recover: whatever the state of the entry, unless it was disconnected by *)
(* the host.  It is called for a closed connection, a peer that went, and  *)
(* a reconciliation or automation setup that failed.                       *)
Recovering(entry) ==
    IF entry.state \in {"none", "disconnected"} THEN entry
    ELSE [entry EXCEPT !.state = "recovering", !.timer = TRUE]

Lost(entry) == Recovering([entry EXCEPT !.attached = FALSE])

ProviderConnectionClosed ==
    /\ provider.closed
    /\ provider' = Lost([provider EXCEPT !.closed = FALSE])
    /\ UNCHANGED <<pairing, auth, paired, updates, generations, granted, abandoned, task, gone>>

SetupEnds ==
    /\ provider.setup
    /\ provider' = [provider EXCEPT !.setup = FALSE]
    /\ provider.state = "connecting"
    /\ UNCHANGED <<pairing, auth, paired, updates, generations, granted, abandoned, task, gone>>

(* Also when an early reconciliation has made the provider ready.          *)
SetupFails ==
    /\ provider.setup
    /\ provider' = Lost([provider EXCEPT !.setup = FALSE])
    /\ UNCHANGED <<pairing, auth, paired, updates, generations, granted, abandoned, task, gone>>

Reconcilable == provider.state \in {"connecting", "ready"}

(* reconcileProviderState, called by the peer: makes the provider ready at *)
(* once, and then updates the scopes it has granted.                       *)
ReconcileProvider ==
    /\ Reconcilable /\ provider.peer \notin gone
    /\ provider' = [provider EXCEPT !.state = "ready"]
    /\ UNCHANGED <<pairing, auth, paired, updates, generations, granted, abandoned, task, gone>>

(* onTargetsReconciled; the bound is one such call under way at a time.    *)
TargetsReconciled ==
    /\ provider.attached /\ ~provider.reconciling
    /\ provider' = IF Reconcilable
                   THEN [provider EXCEPT !.state = "ready", !.reconciling = TRUE]
                   ELSE Lost(provider)
    /\ UNCHANGED <<pairing, auth, paired, updates, generations, granted, abandoned, task, gone>>

ReconciliationEnds ==
    /\ provider.reconciling
    /\ \/ provider' = [provider EXCEPT !.reconciling = FALSE]
       \/ provider' = Lost([provider EXCEPT !.reconciling = FALSE])
    /\ UNCHANGED <<pairing, auth, paired, updates, generations, granted, abandoned, task, gone>>

(* completeClaim, of a request the ready provider has claimed              *)
Grant(r) ==
    /\ provider.state = "ready" /\ r \notin granted
    /\ granted' = granted \cup {r}
    /\ UNCHANGED <<pairing, auth, paired, updates, generations, provider, abandoned, task, gone>>

-----------------------------------------------------------------------------
IdleTasks == {t \in Tasks : task[t].phase = "idle"}
NextTask == CHOOSE t \in IdleTasks : \A u \in IdleTasks : t =< u

(* The identity store is asked to remove the credential it still has for   *)
(* the installation, if any; the loop goes on when it has answered.        *)
Removing(t, left) ==
    IF left = {}
    THEN task' = [task EXCEPT ![t] = Idle] /\ UNCHANGED updates
    ELSE /\ task' = [task EXCEPT ![t] = [Idle EXCEPT !.phase = "removing"]]
         /\ \E k \in left : updates' = Append(updates, [op |-> "remove", credential |-> k, task |-> t])

(* A loop over the requests the provider has granted by now                *)
CancelLoopOfNone(forget) == [phase |-> "cancelling", todo |-> {}, forget |-> forget]
CancelLoop(forget) == [phase |-> "cancelling", todo |-> granted, forget |-> forget]

(* The recovery timer; the same entry may go offline more than once, for   *)
(* a late notice puts an offline entry back to recovering.                 *)
GoesOffline ==
    /\ provider.timer /\ IdleTasks # {}
    /\ IF provider.state = "recovering"
       THEN /\ provider' = [provider EXCEPT !.timer = FALSE, !.state = "offline"]
            /\ task' = [task EXCEPT ![NextTask] = CancelLoop(FALSE)]
       ELSE /\ provider' = [provider EXCEPT !.timer = FALSE]
            /\ UNCHANGED task
    /\ UNCHANGED <<pairing, auth, paired, updates, generations, granted, abandoned, gone>>

(* cancelProviderRequests: one request after the other; the first failure  *)
(* ends the loop, and with it the call of the host.                        *)
CancelRequest(t, r) ==
    /\ task[t].phase = "cancelling" /\ r \in task[t].todo
    /\ \/ /\ granted' = granted \ {r}
          /\ task' = [task EXCEPT ![t].todo = @ \ {r}]
          /\ UNCHANGED abandoned
       \/ /\ StoreFails
          /\ task' = [task EXCEPT ![t] = Idle]
          /\ abandoned' = abandoned \cup task[t].todo
          /\ UNCHANGED granted
    /\ UNCHANGED <<pairing, auth, paired, updates, generations, provider, gone>>

Cancelled(t) ==
    /\ task[t].phase = "cancelling" /\ task[t].todo = {}
    /\ IF task[t].forget THEN Removing(t, paired)
       ELSE task' = [task EXCEPT ![t] = Idle] /\ UNCHANGED updates
    /\ UNCHANGED <<pairing, auth, paired, generations, provider, granted, abandoned, gone>>

Removed ==
    /\ updates # <<>> /\ Head(updates).op = "remove"
    /\ LET t == Head(updates).task
           left == paired \ {Head(updates).credential} IN
       \/ /\ paired' = left
          /\ IF left = {} THEN task' = [task EXCEPT ![t] = Idle] /\ updates' = Tail(updates)
             ELSE /\ task' = task
                  /\ \E k \in left : updates' = Append(Tail(updates), [op |-> "remove", credential |-> k, task |-> t])
       \/ /\ StoreFails
          /\ task' = [task EXCEPT ![t] = Idle] /\ updates' = Tail(updates)
          /\ UNCHANGED paired
    /\ UNCHANGED <<pairing, auth, generations, provider, granted, abandoned, gone>>

Disconnected(entry) == [entry EXCEPT !.state = "disconnected", !.timer = FALSE, !.attached = FALSE]

(* disconnectProvider of an entry, and of a registration without an entry  *)
DisconnectProvider(forget) ==
    /\ provider.state # "none" /\ IdleTasks # {}
    /\ provider' = IF forget THEN NoProvider
                   ELSE Disconnected(provider)
    /\ IF forget THEN registrations' = {} /\ Unregister(registrations) /\ Forget(registrations)
                 ELSE UNCHANGED <<pairing, auth>>
    /\ task' = [task EXCEPT ![NextTask] = CancelLoop(forget)]
    /\ UNCHANGED <<paired, updates, generations, granted, abandoned, gone>>

ForgetRegistration ==
    /\ provider.state = "none" /\ registrations # {} /\ IdleTasks # {}
    /\ registrations' = {} /\ Unregister(registrations) /\ Forget(registrations)
    /\ Removing(NextTask, paired)
    /\ UNCHANGED <<paired, generations, provider, granted, abandoned, gone>>

DisconnectPeer(p) ==
    /\ p \notin gone
    /\ gone' = gone \cup {p} /\ registrations' = registrations \ {p}
    /\ Unregister({p}) /\ Forget({p})
    /\ provider' = IF provider.peer = p THEN Lost(provider) ELSE provider
    /\ UNCHANGED <<paired, updates, generations, granted, abandoned, task>>

ProvidersNext ==
    \/ \E p \in Peers :
          \/ RegisterProvider(p) \/ Invite(p) \/ ChallengeExpires(p) \/ Authenticate(p)
          \/ DisconnectPeer(p)
          \/ \E pairs \in BOOLEAN : Begin(p, pairs)
    \/ \E a \in Attempts : Verified(a) \/ Install(a)
    \/ InvitationLapses \/ Activated \/ Removed
    \/ ProviderConnectionClosed \/ SetupEnds \/ SetupFails
    \/ ReconcileProvider \/ TargetsReconciled \/ ReconciliationEnds
    \/ \E r \in Requests : Grant(r)
    \/ GoesOffline \/ ForgetRegistration
    \/ \E forget \in BOOLEAN : DisconnectProvider(forget)
    \/ \E t \in Tasks : Cancelled(t) \/ \E r \in Requests : CancelRequest(t, r)

ProvidersSpec == ProvidersInit /\ [][ProvidersNext]_providersVars

(* The recovery timer fires, the stores answer and a loop goes on when they*)
(* have.                                                                   *)
ProvidersFairSpec ==
    /\ ProvidersSpec
    /\ WF_providersVars(GoesOffline) /\ WF_providersVars(Removed) /\ WF_providersVars(Activated)
    /\ \A t \in Tasks : WF_providersVars(Cancelled(t) \/ \E r \in Requests : CancelRequest(t, r))

-----------------------------------------------------------------------------
(* The maps of the runtime and of the authentication keep their types, and *)
(* the recovery timer runs for an entry that recovers and no other.        *)
ProvidersTypeOK ==
    /\ registrations \subseteq Peers /\ gone \subseteq Peers
    /\ invitation \in Peers \cup {None}
    /\ challenge \in [Peers -> 0 .. MaxAttempts] /\ current \in [Peers -> 0 .. MaxAttempts]
    /\ auth \in [Attempts -> Auth]
    /\ paired \subseteq Attempts /\ \A i \in DOMAIN updates : updates[i] \in Update
    /\ generations \in 0 .. MaxAttempts
    /\ provider \in Provider /\ (provider.timer => provider.state = "recovering")
    /\ granted \subseteq Requests /\ abandoned \subseteq Requests
    /\ task \in [Tasks -> Task]

(* A connection that left service does not come back: only a newer one     *)
(* becomes ready, and an entry is only replaced by a newer generation.     *)
NewestConnectionServes ==
    [][/\ provider.state \notin {"connecting", "ready"} /\ provider'.state \in {"connecting", "ready"}
          => provider'.generation > provider.generation
       /\ provider'.generation \notin {0, provider.generation}
          => provider'.generation > provider.generation /\ provider'.generation = generations]_providersVars

(* A request granted by a provider that is offline, was disconnected or    *)
(* was forgotten ends, unless another connection takes over or the store   *)
(* refuses a cancellation.                                                 *)
Unserved == provider.state \in {"none", "offline", "disconnected"}
GrantsOfLostProviderEnd ==
    \A r \in Requests :
        Unserved /\ r \in granted ~> ~Unserved \/ r \notin granted \/ r \in abandoned

=============================================================================
