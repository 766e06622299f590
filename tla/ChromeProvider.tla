--------------------------- MODULE ChromeProvider ---------------------------
(***************************************************************************)
(* The browser extension's provider: createAgentRecovery,                  *)
(* createTabScopeManager, createSelectedTabPublisher and                   *)
(* createChromeProvider, which joins them, with the broker they report to. *)
(*                                                                         *)
(* One tab that several approved scopes may contain.  A call to the broker *)
(* takes effect when it is sent (one channel, in order) and its answer     *)
(* comes in a later step; the connection may be lost in between.           *)
(***************************************************************************)
EXTENDS Naturals, Sequences, FiniteSets

CONSTANTS
    Scopes,         \* approved tab selections
    MaxPublishers,  \* bound on publishers created for the tab
    MaxMoves,       \* bound on changes of the tab, its renewals included
    MaxLosses,      \* bound on lost connections
    MaxEndings,     \* bound on scopes ended at the broker
    None

(* None is neither a target nor the entry of a tab.                        *)
TargetId == [id : Nat, generation : Nat]
ASSUME ProviderAssumption ==
    /\ {MaxPublishers, MaxMoves, MaxLosses, MaxEndings} \subseteq Nat
    /\ None \notin TargetId \cup [target : TargetId \cup {None}]

VARIABLES
    page,       \* the tab in Chrome
    attached,   \* the debugger is attached to it
    view,       \* ManagedTab.tab and closed: what the scope manager knows of it
    query,      \* a tab query of onGroupUpdated under way
    members,    \* the scope manager's scopes
    listed,     \* ManagedScope.targets
    managed,    \* ManagedTab.publisher exists
    target,     \* ManagedTab.target
    due, job,   \* a reconcileTab is queued; where the running one is
    notes,      \* onTargetsChanged notifications queued for a scope
    noting,     \* scopes whose first notification waits for the broker
    controlled, \* the entry of tabs: None, or the target it holds
    published,  \* the publisher's publishedTarget
    publishers, \* publishers created so far: each has a target id of its own
    ops, step,  \* tabOperations; where the first of them is
    phase,      \* of createAgentRecovery and its reconcile callback
    connection, \* the provider has a connection, as it believes
    live,       \* the channel is open
    reconciling,
    approved, approving,
    answer,     \* the broker state that answered an approval
    states,     \* stateUpdates: broker states waiting to be consumed
    served,     \* the broker: the target it serves
    highest,    \* the broker: highest generation seen of a target id
    granted, bound, ready,
    moves, losses, endings

pageVars == <<page, attached>>
managerVars == <<view, query, members, listed, managed, target, due, job>>
noteVars == <<notes, noting>>
tabVars == <<controlled, published, publishers, ops, step>>
linkVars == <<phase, connection, live, reconciling>>
scopeVars == <<approved, approving, answer, states>>
brokerVars == <<served, highest, granted, bound, ready>>
counters == <<moves, losses, endings>>
vars == <<pageVars, managerVars, noteVars, tabVars, linkVars, scopeVars, brokerVars, counters>>

Target == [id : 1..MaxPublishers, generation : 1..(2 * MaxMoves + MaxLosses + 1)]
Page == [open : BOOLEAN, scopes : SUBSET Scopes]
Nothing == [target |-> None]

Init ==
    /\ page \in [open : {TRUE}, scopes : SUBSET Scopes] /\ attached = FALSE
    /\ view = page /\ query = None /\ members = {} /\ listed = [s \in Scopes |-> None]
    /\ managed = FALSE /\ target = None /\ due = FALSE /\ job = "idle"
    /\ notes = [s \in Scopes |-> <<>>] /\ noting = {}
    /\ controlled = None /\ published = None /\ publishers = 0 /\ ops = <<>> /\ step = "idle"
    /\ phase = "ready" /\ connection = TRUE /\ live = TRUE /\ reconciling = FALSE
    /\ approved = {} /\ approving = [s \in Scopes |-> "no"]
    /\ answer = [s \in Scopes |-> {}] /\ states = <<>>
    /\ served = None /\ highest = [i \in 1..MaxPublishers |-> 0]
    /\ granted = {} /\ bound = [s \in Scopes |-> None] /\ ready = TRUE
    /\ moves = 0 /\ losses = 0 /\ endings = 0

-----------------------------------------------------------------------------
(* The broker.                                                             *)
Fresh(t) == highest[t.id] < t.generation
Serve(t) == served' = t /\ highest' = [highest EXCEPT ![t.id] = t.generation]
(* reconcileProviderState: what a scope is bound to follows the target     *)
(* into its next generation.                                               *)
Rebound(t) == [s \in Scopes |->
                  IF s \in granted /\ bound[s] # None
                  THEN IF t # None /\ bound[s].id = t.id THEN t ELSE None
                  ELSE bound[s]]
Watched == live /\ phase = "ready"
Pushed(scopes) == IF Watched THEN Append(states, scopes) ELSE states

-----------------------------------------------------------------------------
(* tab-scope-manager.ts.                                                   *)
Matching == IF view.open THEN view.scopes \cap members ELSE {}

(* updateTarget: mirrors a publication, or a revocation, into the scopes.  *)
UpdateTarget(t) ==
    IF ~managed THEN UNCHANGED <<target, listed, notes>>
    ELSE LET kept == IF t = None THEN {} ELSE Matching
             told == {s \in members : s \in kept \/ listed[s] # None}
         IN  /\ target' = t
             /\ listed' = [s \in Scopes |-> IF s \in kept THEN t ELSE None]
             /\ notes' = [s \in Scopes |->
                             IF s \in told THEN Append(notes[s], listed'[s]) ELSE notes[s]]

(* onTargetsChanged: nothing is told of a scope that is not approved, nor  *)
(* while there is no connection or the connection is being reconciled.     *)
Notify(s) ==
    /\ notes[s] # <<>> /\ s \notin noting
    /\ IF s \in approved /\ ~reconciling /\ connection /\ live
       THEN /\ noting' = noting \cup {s}
            /\ bound' = IF s \in granted /\ ready /\ Head(notes[s]) \in {None, served}
                        THEN [bound EXCEPT ![s] = Head(notes[s])] ELSE bound
            /\ UNCHANGED notes
       ELSE notes' = [notes EXCEPT ![s] = Tail(@)] /\ UNCHANGED <<noting, bound>>
    /\ UNCHANGED <<pageVars, managerVars, tabVars, linkVars, scopeVars, served, highest, granted,
                   ready, counters>>

Notified(s) ==
    /\ s \in noting
    /\ noting' = noting \ {s} /\ notes' = [notes EXCEPT ![s] = Tail(@)]
    /\ UNCHANGED <<pageVars, managerVars, tabVars, linkVars, scopeVars, brokerVars, counters>>

(* reconcileTab, first part: the tab leaves the scopes it no longer        *)
(* matches, and they are told before anything else is done.                *)
JobStarts ==
    /\ due /\ job = "idle" /\ due' = FALSE
    /\ LET left == {s \in members \ Matching : listed[s] # None} IN
       /\ listed' = [s \in Scopes |-> IF s \in left THEN None ELSE listed[s]]
       /\ notes' = [s \in Scopes |-> IF s \in left THEN Append(notes[s], None) ELSE notes[s]]
    /\ job' = IF Matching = {} THEN "leaving" ELSE "keeping"
    /\ UNCHANGED <<pageVars, view, query, members, managed, target, noting, tabVars, linkVars,
                   scopeVars, brokerVars, counters>>

RevokesPublication ==
    /\ managed' = FALSE /\ target' = None
    /\ IF managed THEN job' = "revoking" /\ ops' = Append(ops, "revoke")
       ELSE job' = "idle" /\ UNCHANGED ops

Publishes ==
    IF managed
    THEN job' = "acting" /\ ops' = Append(ops, "refresh") /\ UNCHANGED <<managed, publishers, controlled>>
    ELSE /\ publishers < MaxPublishers /\ publishers' = publishers + 1
         /\ controlled' = Nothing /\ managed' = TRUE
         /\ job' = "acting" /\ ops' = Append(ops, "publish")

JobProceeds ==
    /\ job \in {"leaving", "keeping"} /\ \A s \in Scopes \ Matching : notes[s] = <<>>
    /\ IF job = "leaving"
       THEN RevokesPublication /\ UNCHANGED <<publishers, controlled>>
       ELSE Publishes /\ UNCHANGED target
    /\ UNCHANGED <<pageVars, view, query, members, listed, due, noteVars, published, step, linkVars,
                   scopeVars, brokerVars, counters>>

(* reconcileTab, last part: the tab may have been closed, or have left     *)
(* every scope, while it was being published.                              *)
StillWanted == Matching # {}
JobActed ==
    /\ job = "acted"
    /\ IF StillWanted
       THEN LET joined == {s \in Matching : target # None /\ listed[s] # target} IN
            /\ job' = "idle"
            /\ listed' = [s \in Scopes |-> IF s \in joined THEN target ELSE listed[s]]
            /\ notes' = [s \in Scopes |-> IF s \in joined THEN Append(notes[s], target) ELSE notes[s]]
            /\ UNCHANGED <<managed, target, ops>>
       ELSE RevokesPublication /\ UNCHANGED <<listed, notes>>
    /\ UNCHANGED <<pageVars, view, query, members, due, noting, controlled, published, publishers,
                   step, linkVars, scopeVars, brokerVars, counters>>

-----------------------------------------------------------------------------
(* chrome.ts, tabOperations, and the publisher's part of each operation.   *)
(* An operation ends well or with an error, and whoever waits for it goes  *)
(* on.                                                                     *)
HeldTarget == IF controlled = None THEN None ELSE controlled.target
First == Head(ops)
Running(kinds, at) == ops # <<>> /\ First \in kinds /\ step = at
EndOp(ok) ==
    /\ ops' = Tail(ops) /\ step' = "idle"
    /\ job' = IF First = "revoke" THEN "idle"
              ELSE IF First \in {"publish", "refresh"} THEN (IF ok THEN "acted" ELSE "idle") ELSE job
    /\ phase' = IF First = "recoveryRenew" THEN (IF ok THEN "renewed" ELSE "failing") ELSE phase
NextStep(at) == step' = at /\ UNCHANGED <<ops, job, phase>>
Renewed(t) == [t EXCEPT !.generation = @ + 1]
opUnchanged == <<page, view, query, members, due, noting, publishers, connection, live, reconciling,
                 scopeVars, granted, ready, counters>>

(* publish.                                                                *)
PublishAttaches ==
    /\ Running({"publish"}, "idle")
    /\ \/ /\ page.open /\ attached' = TRUE
          /\ published' = [id |-> publishers, generation |-> 1]
          /\ NextStep("attached") /\ UNCHANGED managed
       \/ managed' = FALSE /\ EndOp(FALSE) /\ UNCHANGED <<attached, published>>
    /\ UNCHANGED <<opUnchanged, listed, target, notes, controlled, served, highest, bound>>

PublishUndoneAttached == published' = None /\ UNCHANGED attached
PublishUndone == published' = None /\ attached' = FALSE
PublishSent ==
    /\ Running({"publish"}, "attached")
    /\ IF connection /\ live /\ Fresh(published)
       THEN Serve(published) /\ NextStep("sent") /\ UNCHANGED <<managed, published, attached>>
       ELSE PublishUndone /\ managed' = FALSE /\ EndOp(FALSE) /\ UNCHANGED <<served, highest>>
    /\ UNCHANGED <<opUnchanged, listed, target, notes, controlled, bound>>

PublishAnswered ==
    /\ Running({"publish"}, "sent")
    /\ IF live
       THEN /\ controlled' = [target |-> published] /\ UpdateTarget(published) /\ EndOp(TRUE)
            /\ UNCHANGED <<managed, published, attached>>
       ELSE /\ PublishUndone /\ managed' = FALSE /\ EndOp(FALSE)
            /\ UNCHANGED <<controlled, target, listed, notes>>
    /\ UNCHANGED <<opUnchanged, served, highest, bound>>

(* refresh of a tab that may still be exposed changes nothing but its      *)
(* metadata.                                                               *)
Refresh ==
    /\ Running({"refresh"}, "idle") /\ EndOp(TRUE)
    /\ UNCHANGED <<opUnchanged, listed, target, notes, managed, controlled, published, attached,
                   served, highest, bound>>

(* revoke, called by the scope manager, which forgets the publisher, or    *)
(* because the debugger was detached, which keeps it.  revokeTarget sends  *)
(* only on a connection; when the send is rejected the entry of the tab    *)
(* keeps its target.                                                       *)
Withdrawn ==
    IF First = "revoke"
    THEN controlled' = None /\ UNCHANGED <<target, listed, notes>>
    ELSE controlled' = Nothing /\ UpdateTarget(None)
RevokeStarts ==
    /\ Running({"revoke", "detach"}, "idle")
    /\ IF published = None
       THEN /\ controlled' = IF First = "revoke" THEN None ELSE controlled
            /\ EndOp(TRUE) /\ UNCHANGED <<published, attached, served, target, listed, notes>>
       ELSE /\ published' = None
            /\ IF connection /\ live
               THEN /\ served' = IF served = published THEN None ELSE served
                    /\ NextStep("sent") /\ UNCHANGED <<attached, controlled, target, listed, notes>>
               ELSE /\ attached' = FALSE /\ EndOp(~connection) /\ UNCHANGED served
                    /\ IF connection THEN UNCHANGED <<controlled, target, listed, notes>> ELSE Withdrawn
    /\ UNCHANGED <<opUnchanged, managed, highest, bound>>

RevokeAnswered ==
    /\ Running({"revoke", "detach"}, "sent")
    /\ attached' = FALSE
    /\ IF live THEN Withdrawn ELSE UNCHANGED <<controlled, target, listed, notes>>
    /\ EndOp(live)
    /\ UNCHANGED <<opUnchanged, managed, published, served, highest, bound>>

(* renewAuthority, after a navigation or for a new connection; recover, of *)
(* a debugger that a renderer replacement detached.  The old generation is *)
(* revoked and the next one published.                                     *)
Renewals == {"renew", "recoveryRenew", "recover"}
RenewFails ==
    IF First = "recover"
    THEN /\ published' = None /\ attached' = FALSE /\ controlled' = Nothing
         /\ UpdateTarget(None) /\ EndOp(FALSE)
         /\ served' = IF connection /\ live /\ served = published THEN None ELSE served
    ELSE EndOp(FALSE) /\ UNCHANGED <<published, attached, controlled, target, listed, notes, served>>

RenewStarts ==
    /\ Running(Renewals, "idle")
    /\ IF published = None
       THEN /\ EndOp(First = "recover")
            /\ bound' = IF First = "recover" /\ connection /\ live THEN Rebound(HeldTarget) ELSE bound
            /\ UNCHANGED <<published, attached, controlled, target, listed, notes, served>>
       ELSE IF connection /\ live /\ (First # "recover" \/ page.open)
            THEN /\ served' = IF served = published THEN None ELSE served
                 /\ NextStep("revoked")
                 /\ UNCHANGED <<published, attached, controlled, target, listed, notes, bound>>
            ELSE RenewFails /\ UNCHANGED bound
    /\ UNCHANGED <<opUnchanged, managed, highest>>

RenewSent ==
    /\ Running(Renewals, "revoked")
    /\ LET next == Renewed(published) IN
       IF live /\ Fresh(next) /\ (First # "recover" \/ page.open)
       THEN /\ Serve(next) /\ NextStep("sent")
            /\ attached' = TRUE
            /\ UNCHANGED <<published, controlled, target, listed, notes>>
       ELSE RenewFails /\ UNCHANGED highest
    /\ UNCHANGED <<opUnchanged, managed, bound>>

(* After a renewal of its own the provider reports its targets again, and  *)
(* the broker moves what the scopes are bound to.                          *)
RenewAnswered ==
    /\ Running(Renewals, "sent")
    /\ IF live
       THEN LET next == Renewed(published) IN
            /\ published' = next /\ controlled' = [target |-> next] /\ UpdateTarget(next)
            /\ EndOp(TRUE)
            /\ bound' = IF First # "recoveryRenew" /\ connection THEN Rebound(next) ELSE bound
            /\ UNCHANGED <<attached, served>>
       ELSE RenewFails /\ UNCHANGED bound
    /\ UNCHANGED <<opUnchanged, managed, highest>>

-----------------------------------------------------------------------------
(* agent-recovery.ts, and the reconcile callback of chrome.ts.             *)
Calling == \/ step \in {"sent", "revoked"} \/ noting # {}
           \/ \E s \in Scopes : approving[s] \in {"calling", "binding", "refused"}

(* The calls of the lost connection were rejected long before the back-off *)
(* ends.                                                                   *)
Reconnect ==
    /\ phase = "waiting" /\ ~Calling
    /\ phase' = "hello" /\ connection' = TRUE /\ live' = TRUE /\ reconciling' = TRUE
    /\ ready' = FALSE
    /\ UNCHANGED <<pageVars, managerVars, noteVars, tabVars, scopeVars, served, highest, granted,
                   bound, counters>>

HelloAnswered ==
    /\ phase = "hello" /\ live
    /\ IF HeldTarget # None THEN phase' = "renewing" /\ ops' = Append(ops, "recoveryRenew")
       ELSE phase' = "renewed" /\ UNCHANGED ops
    /\ UNCHANGED <<pageVars, managerVars, noteVars, controlled, published, publishers, step,
                   connection, live, reconciling, scopeVars, brokerVars, counters>>

(* targets.reconcile: the broker makes the list it is sent its directory,  *)
(* unless it has already seen a generation of it end, and the provider is  *)
(* ready at the broker from here on.                                       *)
ListedIfAny(t) == IF t = None THEN UNCHANGED <<served, highest>> ELSE Serve(t)
Listed(t) == IF t = None THEN served' = None /\ UNCHANGED highest ELSE Serve(t)
Report ==
    /\ phase = "renewed" /\ live
    /\ IF HeldTarget = None \/ served = HeldTarget \/ Fresh(HeldTarget)
       THEN /\ Listed(HeldTarget)
            /\ phase' = "reported" /\ ready' = TRUE /\ bound' = Rebound(HeldTarget)
       ELSE phase' = "failing" /\ UNCHANGED <<served, highest, ready, bound>>
    /\ UNCHANGED <<pageVars, managerVars, noteVars, tabVars, connection, live, reconciling, scopeVars,
                   granted, counters>>

(* provider-reconcile; the state it answers with is consumed, and then     *)
(* every state the broker pushes, beginning with the current one.          *)
Reconcile ==
    /\ phase = "reported" /\ live
    /\ IF HeldTarget \in {None, served}
       THEN /\ ready' = TRUE /\ bound' = Rebound(HeldTarget)
            /\ phase' = "reconciled" /\ states' = Append(states, granted)
       ELSE phase' = "failing" /\ UNCHANGED <<ready, bound, states>>
    /\ UNCHANGED <<pageVars, managerVars, noteVars, tabVars, connection, live, reconciling, approved,
                   approving, answer, served, highest, granted, counters>>

StatesOfLaterChanges == states
WatchedStates == Append(states, granted)
Reconciled ==
    /\ phase = "reconciled" /\ live
    /\ phase' = "ready" /\ reconciling' = FALSE /\ states' = WatchedStates
    /\ UNCHANGED <<pageVars, managerVars, noteVars, tabVars, connection, live, approved, approving,
                   answer, brokerVars, counters>>

RecoveryFails ==
    /\ \/ phase = "failing"
       \/ phase \in {"hello", "renewed", "reported", "reconciled"} /\ ~live
    /\ phase' = "waiting" /\ live' = FALSE /\ connection' = FALSE /\ reconciling' = FALSE
    /\ UNCHANGED <<pageVars, managerVars, noteVars, tabVars, scopeVars, brokerVars, counters>>

Lose ==
    /\ live /\ losses < MaxLosses /\ losses' = losses + 1
    /\ live' = FALSE /\ ready' = FALSE
    /\ UNCHANGED <<pageVars, managerVars, noteVars, tabVars, phase, connection, reconciling,
                   scopeVars, served, highest, granted, bound, moves, endings>>

(* closed resolves: the provider has no connection, and reconnects after a *)
(* delay.                                                                  *)
ConnectionGone ==
    /\ ~live /\ connection /\ connection' = FALSE
    /\ phase' = IF phase = "ready" THEN "waiting" ELSE phase
    /\ UNCHANGED <<pageVars, managerVars, noteVars, tabVars, live, reconciling, scopeVars, brokerVars,
                   counters>>

(* The recovery window of the broker ends before the provider is back.     *)
GoesOffline ==
    /\ ~live /\ (served # None \/ granted # {})
    /\ served' = None /\ granted' = {} /\ bound' = [s \in Scopes |-> None]
    /\ UNCHANGED <<pageVars, managerVars, noteVars, tabVars, linkVars, scopeVars, highest, ready, counters>>

(* The provider is disconnected at the broker with code 4001: it gives up  *)
(* its scopes and disposes of the scope manager.                           *)
Revoked ==
    /\ phase = "ready" /\ live /\ endings < MaxEndings /\ endings' = endings + 1
    /\ live' = FALSE /\ connection' = FALSE /\ phase' = "revoked"
    /\ approved' = {} /\ members' = {} /\ listed' = [s \in Scopes |-> None] /\ due' = TRUE
    /\ served' = None /\ granted' = {} /\ bound' = [s \in Scopes |-> None] /\ ready' = FALSE
    /\ UNCHANGED <<pageVars, view, query, managed, target, job, noteVars, tabVars, reconciling,
                   approving, answer, states, highest, moves, losses>>

-----------------------------------------------------------------------------
(* Scopes: approved by the user, ended at the broker.                      *)
RemoveScopes(ss) ==
    /\ members' = members \ ss
    /\ listed' = [s \in Scopes |-> IF s \in ss THEN None ELSE listed[s]]
    /\ due' = (due \/ ss \cap members # {})
KeepScopes == UNCHANGED <<members, listed, due>>

(* approve: the claim and the host's check, then the scope is added and    *)
(* its tabs are published.                                                 *)
Approve(s) ==
    /\ approving[s] = "no" /\ s \notin members /\ phase = "ready" /\ live /\ s \notin granted
    /\ approving' = [approving EXCEPT ![s] = "adding"]
    /\ members' = members \cup {s} /\ due' = TRUE
    /\ UNCHANGED <<pageVars, view, query, listed, managed, target, job, noteVars, tabVars, linkVars,
                   approved, answer, states, brokerVars, counters>>

ApproveFails(s) == approving' = [approving EXCEPT ![s] = "failed"] /\ RemoveScopes({s})

ApproveSent(s) ==
    /\ approving[s] = "adding" /\ ~due /\ job = "idle"
    /\ IF s \in members /\ listed[s] # None /\ listed[s] = served /\ live /\ ready
       THEN /\ granted' = granted \cup {s} /\ bound' = [bound EXCEPT ![s] = listed[s]]
            /\ states' = Pushed(granted') /\ answer' = [answer EXCEPT ![s] = granted']
            /\ approving' = [approving EXCEPT ![s] = "calling"] /\ KeepScopes
       ELSE ApproveFails(s) /\ UNCHANGED <<granted, bound, states, answer>>
    /\ UNCHANGED <<pageVars, view, query, managed, target, job, noteVars, tabVars, linkVars, approved,
                   served, highest, ready, counters>>

(* The approval was answered: the members are reported once more, as they  *)
(* may have changed since.                                                 *)
Reportable(s) == s \in granted /\ ready /\ listed[s] \in {None, served}
Approved(s) ==
    /\ approving[s] = "calling"
    /\ IF live
       THEN /\ approved' = approved \cup {s} /\ KeepScopes
            /\ approving' = [approving EXCEPT ![s] = IF Reportable(s) THEN "binding" ELSE "refused"]
            /\ bound' = IF Reportable(s) THEN [bound EXCEPT ![s] = listed[s]] ELSE bound
       ELSE ApproveFails(s) /\ UNCHANGED <<approved, bound>>
    /\ UNCHANGED <<pageVars, view, query, managed, target, job, noteVars, tabVars, linkVars, answer,
                   states, served, highest, granted, ready, counters>>

(* The state consumed is the one that answered the approval.               *)
ApprovalEnds(s) ==
    /\ approving[s] \in {"binding", "refused"}
    /\ IF live /\ approving[s] = "binding"
       THEN /\ approving' = [approving EXCEPT ![s] = "done"] /\ KeepScopes
            /\ states' = Append(states, answer[s]) /\ UNCHANGED approved
       ELSE ApproveFails(s) /\ approved' = approved \ {s} /\ UNCHANGED states
    /\ UNCHANGED <<pageVars, view, query, managed, target, job, noteVars, tabVars, linkVars, answer,
                   brokerVars, counters>>

(* consumeState: scopes the broker no longer has are removed.              *)
ConsumeState ==
    /\ states # <<>> /\ states' = Tail(states)
    /\ LET ended == IF phase = "revoked" THEN {} ELSE approved \ Head(states) IN
       approved' = approved \ ended /\ RemoveScopes(ended)
    /\ UNCHANGED <<pageVars, view, query, managed, target, job, noteVars, tabVars, linkVars, approving,
                   answer, brokerVars, counters>>

(* revoke, called at the provider.                                         *)
Revoke(s) ==
    /\ s \in approved /\ live /\ connection /\ endings < MaxEndings /\ endings' = endings + 1
    /\ granted' = granted \ {s} /\ bound' = [bound EXCEPT ![s] = None]
    /\ states' = Pushed(granted')
    /\ approved' = approved \ {s} /\ RemoveScopes({s})
    /\ UNCHANGED <<pageVars, view, query, managed, target, job, noteVars, tabVars, linkVars,
                   approving, answer, served, highest, ready, moves, losses>>

(* The user, or the end of the session, ends a scope at the broker.        *)
EndScope(s) ==
    /\ s \in granted /\ endings < MaxEndings /\ endings' = endings + 1
    /\ granted' = granted \ {s} /\ bound' = [bound EXCEPT ![s] = None]
    /\ states' = Pushed(granted')
    /\ UNCHANGED <<pageVars, managerVars, noteVars, tabVars, linkVars, approved, approving, answer, served,
                   highest, ready, moves, losses>>

-----------------------------------------------------------------------------
(* Chrome.                                                                 *)
Moving == phase # "revoked" /\ moves < MaxMoves /\ moves' = moves + 1
pageUnchanged == <<members, listed, managed, target, job, noteVars, controlled, published, publishers,
                   step, linkVars, scopeVars, brokerVars, losses, endings>>
NoteChange == query' = IF query = None THEN None ELSE [query EXCEPT !.fresh = FALSE]

(* onUpdated: the tab now matches other scopes.                            *)
Move(ss) ==
    /\ page.open /\ ss # page.scopes /\ Moving
    /\ page' = [page EXCEPT !.scopes = ss] /\ view' = page'
    /\ due' = TRUE /\ NoteChange
    /\ UNCHANGED <<pageUnchanged, attached, ops>>

(* onRemoved, and the detach that comes with it.                           *)
Close ==
    /\ page.open /\ Moving
    /\ page' = [page EXCEPT !.open = FALSE] /\ view' = page' /\ attached' = FALSE
    /\ due' = TRUE /\ NoteChange
    /\ UNCHANGED <<pageUnchanged, ops>>

(* onGroupUpdated: Chrome answers with the tabs as they were at some time, *)
(* and an answer older than what is known of the tab is ignored.           *)
GroupUpdated ==
    /\ query = None /\ Moving /\ query' = [fresh |-> TRUE, seen |-> None]
    /\ UNCHANGED <<pageUnchanged, page, attached, view, due, ops>>
QuerySees ==
    /\ query # None /\ query.seen = None /\ query' = [query EXCEPT !.seen = page]
    /\ UNCHANGED <<pageUnchanged, page, attached, view, due, ops, moves>>
Applicable == query.fresh
QueryAnswered ==
    /\ query # None /\ query.seen # None /\ query' = None
    /\ IF Applicable /\ (view.open \/ ~query.seen.open)
       THEN view' = query.seen /\ due' = TRUE ELSE UNCHANGED <<view, due>>
    /\ UNCHANGED <<pageUnchanged, page, attached, ops, moves>>

(* committed: a navigation renews the generation of the tab's target.      *)
Commit ==
    /\ page.open /\ HeldTarget # None /\ Moving /\ ops' = Append(ops, "renew")
    /\ UNCHANGED <<pageUnchanged, page, attached, view, query, due>>

(* onDetach: by the user, or by a replaced renderer.                       *)
Detached(kind) ==
    /\ attached /\ HeldTarget # None /\ Moving /\ attached' = FALSE /\ ops' = Append(ops, kind)
    /\ UNCHANGED <<pageUnchanged, page, view, query, due>>

-----------------------------------------------------------------------------
TabSteps ==
    \/ JobStarts \/ JobProceeds \/ JobActed
    \/ PublishAttaches \/ PublishSent \/ PublishAnswered \/ Refresh
    \/ RevokeStarts \/ RevokeAnswered \/ RenewStarts \/ RenewSent \/ RenewAnswered
    \/ \E s \in Scopes : Notify(s) \/ Notified(s)
LinkSteps ==
    \/ Reconnect \/ HelloAnswered \/ Report \/ Reconcile \/ Reconciled \/ RecoveryFails \/ ConnectionGone
ScopeSteps == ConsumeState \/ \E s \in Scopes : ApproveSent(s) \/ Approved(s) \/ ApprovalEnds(s)
Outside ==
    \/ Lose \/ GoesOffline \/ Revoked \/ Close \/ GroupUpdated \/ Commit
    \/ \E s \in Scopes : Approve(s) \/ Revoke(s) \/ EndScope(s)
    \/ \E ss \in SUBSET Scopes : Move(ss)
    \/ \E kind \in {"detach", "recover"} : Detached(kind)

Next == TabSteps \/ LinkSteps \/ ScopeSteps \/ QuerySees \/ QueryAnswered \/ Outside

Spec == Init /\ [][Next]_vars

-----------------------------------------------------------------------------
Settled == ops = <<>> /\ job = "idle" /\ ~due /\ \A s \in Scopes : notes[s] = <<>>

(* Every variable keeps its type.                                          *)
TypeOK ==
    /\ page \in Page /\ view \in Page /\ attached \in BOOLEAN
    /\ members \subseteq Scopes /\ listed \in [Scopes -> Target \cup {None}]
    /\ target \in Target \cup {None} /\ published \in Target \cup {None}
    /\ controlled \in {None} \cup [target : Target \cup {None}]
    /\ served \in Target \cup {None} /\ bound \in [Scopes -> Target \cup {None}]
    /\ noting \subseteq {s \in Scopes : notes[s] # <<>>}
    /\ approved \subseteq members
    /\ ops = <<>> => step = "idle"
    /\ job \in {"idle", "leaving", "keeping", "acting", "acted", "revoking"}

(* No tab is left under the debugger: once the work on it has ended, the   *)
(* debugger is attached only to a tab that is published and belongs to a   *)
(* scope, whatever failed, was lost or was closed on the way (publish,     *)
(* revoke, reconcileTab).                                                  *)
NoStrayDebugger == Settled /\ attached => published # None /\ managed /\ Matching # {}

(* When the provider is ready and nothing is under way, the broker serves  *)
(* no target but the one the provider holds, in its current generation,    *)
(* whatever was lost, renewed or revoked before (renewAuthority,           *)
(* reconcile).                                                             *)
ServedIsHeld ==
    Settled /\ phase = "ready" /\ live /\ served # None => served = HeldTarget

(* What the scope manager acts on is what Chrome shows: an answer to a     *)
(* query never takes it back to an older state of the tab                  *)
(* (onGroupUpdated).                                                       *)
ViewIsCurrent == query = None => view = page

(* A connected provider keeps no scope that has ended at the broker, once  *)
(* it has consumed what it was told: no end is missed between a lost       *)
(* connection, its reconciliation and the watch that follows it, nor while *)
(* an approval is being answered (consumeState, reconcile, approve).       *)
NoScopeOutlivesItsGrant ==
    Watched /\ states = <<>> /\ (\A s \in Scopes : approving[s] \in {"no", "adding", "done", "failed"})
        => approved \subseteq granted

(* A grant reaches the tab only through a scope the tab is in: when the    *)
(* provider is ready and nothing is under way, a scope bound to the served *)
(* target matches the tab (extension/README.md: reconciles live            *)
(* membership).                                                            *)
BoundWithinScope ==
    Settled /\ states = <<>> /\ query = None /\ Watched /\ ready =>
        \A s \in approved \cap granted : bound[s] # None /\ bound[s] = served => s \in page.scopes
=============================================================================
