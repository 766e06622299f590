----------------------------- MODULE TabSessions -----------------------------
(***************************************************************************)
(* What the extension keeps inside one published tab: child debugger       *)
(* sessions (frames and workers), the domains the broker's subscriptions   *)
(* demand of the tab and of its children, the events and the commands      *)
(* (extension/src/selected-tab-publisher.ts, child-session-router.ts and   *)
(* the messages of chrome.ts).                                             *)
(*                                                                         *)
(* Every answer of Chrome is a step.  Demands of the broker arrive without *)
(* being awaited, so that several are under way at once; the publication   *)
(* is renewed, children come and go, and the root document navigates in    *)
(* between.  There is one domain.  That Chrome detaches the debugger of    *)
(* its own accord is left out here, as is its refusing the domain of a     *)
(* child.  What Chrome does is external.                                   *)
(***************************************************************************)
EXTENDS Naturals, FiniteSets, Sequences

CONSTANTS
  Children,       \* Chrome's child sessions, each attached once
  Root,           \* the session of the tab itself
  Prefixes,       \* method prefixes of the domain
  RefusesDomains, \* whether Chrome may refuse to enable or disable it
  MaxGenerations, \* bound: generations of the target
  MaxDisturbances, \* bound: navigations of the root and lost connections
  MaxCalls        \* bound: demands under way

TabSessionsAssumption ==
  /\ IsFiniteSet(Children) /\ Root \notin Children
  /\ {MaxGenerations, MaxDisturbances, MaxCalls} \subseteq Nat

VARIABLES
  tab,        \* publishedTarget and what is being done to it
  offered,    \* external: the generation the broker serves, 0 for none
  wanted,     \* external: what its subscriptions demand, per session
  publicationReady,
  pending,    \* pendingEvents: the sessions they name
  child,      \* per child: Chrome's state, its setup, its public session
  domainOn,   \* external: whether the domain is enabled in Chrome, per session
  demands,    \* the subscription demands, per session
  active,     \* activeRootSubscriptionDomains
  calls,      \* demands that await Chrome
  command, disturbances

broker == <<offered, wanted>>
publication == <<tab, publicationReady, pending>>
sessions == <<child, domainOn, demands, active>>
sessionVars == <<publication, broker, sessions, calls, command, disturbances>>

Sessions == Children \cup {Root}
Setups == {"none", "configuring", "enabling", "resuming", "rescuing", "dropping", "over"}

TabTypeOK ==
  /\ tab \in [generation : 1..MaxGenerations,
                 phase : {"idle", "disposing", "revoking", "publishing", "withdrawing", "gone"}]
  /\ offered \in 0..MaxGenerations /\ publicationReady \in BOOLEAN
  /\ wanted \in [Sessions -> SUBSET Prefixes] /\ demands \in [Sessions -> SUBSET Prefixes]
  /\ pending \subseteq Children \X Nat
  /\ child \in [Children -> [is : {"none", "waiting", "running", "gone"}, setup : Setups,
                             issue : Nat, above : SUBSET Children]]
  /\ domainOn \in [Sessions -> BOOLEAN] /\ active \in BOOLEAN
  /\ calls \in Seq([session : Sessions, prefix : Prefixes, on : BOOLEAN])
  /\ command \in [at : {"idle", "policy", "sent", "over"}, session : Sessions, issue : Nat,
                  generation : 0..MaxGenerations, aborted : BOOLEAN]
  /\ disturbances \in 0..MaxDisturbances

TabInit ==
  /\ tab = [generation |-> 1, phase |-> "idle"] /\ offered = 1
  /\ wanted = [s \in Sessions |-> {}] /\ demands = wanted
  /\ publicationReady = TRUE /\ pending = {}
  /\ child = [c \in Children |-> [is |-> "none", setup |-> "none", issue |-> 0, above |-> {}]]
  /\ domainOn = [s \in Sessions |-> FALSE] /\ active = FALSE
  /\ calls = <<>> /\ disturbances = 0
  /\ command = [at |-> "idle", session |-> Root, issue |-> 0, generation |-> 0, aborted |-> FALSE]

Disturbed == disturbances < MaxDisturbances /\ disturbances' = disturbances + 1
HasTab == tab.phase \notin {"withdrawing", "gone"}       \* selectedTabId
Attached(s) == IF s = Root THEN tab.phase # "gone" ELSE child[s].is \in {"waiting", "running"}

-----------------------------------------------------------------------------
(* The router of child sessions.  A public session is a child and an issue *)
(* number; only the last issue resolves, and 0 is none.                    *)
Issue(s) == IF s = Root THEN 0 ELSE child[s].issue
Known(s) == s = Root \/ Issue(s) # 0

Renewed == [c \in Children |->
  IF Known(c) THEN [child[c] EXCEPT !.issue = @ + 1] ELSE child[c]]

Forgotten == [c \in Children |-> [child[c] EXCEPT !.issue = 0]]

Lost(ss) ==
  /\ demands' = [s \in Sessions |-> IF s \in ss THEN {} ELSE demands[s]]
  /\ wanted' = [s \in Sessions |-> IF s \in ss THEN {} ELSE wanted[s]]

Below(c) == {c} \cup {d \in Children : c \in child[d].above}

(* A child goes, with the sessions inside it.                              *)
Detaching(c, setup) ==
  /\ child' = [d \in Children |->
       IF d \notin Below(c) THEN child[d]
       ELSE [child[d] EXCEPT !.is = IF @ = "none" THEN @ ELSE "gone", !.issue = 0,
                             !.setup = IF d = c THEN setup ELSE @]]
  /\ domainOn' = [s \in Sessions |-> domainOn[s] /\ s \notin Below(c)]
  /\ Lost(Below(c))

(* Page.frameNavigated of the root: no public session outlives the         *)
(* document.  Chrome's sessions stay until they are detached.              *)
RootNavigates ==
  /\ HasTab /\ Disturbed
  /\ child' = Renewed /\ Lost(Children)
  /\ UNCHANGED <<publication, offered, domainOn, active, calls, command>>

-----------------------------------------------------------------------------
(* Renewing and withdrawing the publication, which the tab does one at a   *)
(* time.                                                                   *)
RenewStarts ==
  /\ tab.phase = "idle" /\ tab.generation < MaxGenerations
  /\ tab' = [generation |-> tab.generation + 1, phase |-> "disposing"]
  /\ child' = Renewed
  /\ demands' = [s \in Sessions |-> {}] /\ active' = FALSE
  /\ UNCHANGED <<broker, publicationReady, pending, domainOn, calls, command, disturbances>>

RenewDisposed ==
  /\ tab.phase = "disposing"
  /\ tab' = [tab EXCEPT !.phase = "revoking"]
  /\ publicationReady' = FALSE /\ pending' = {}
  /\ UNCHANGED <<broker, sessions, calls, command, disturbances>>

Withdrawn == offered' = 0 /\ wanted' = [s \in Sessions |-> {}]

RenewRevoked ==
  /\ tab.phase = "revoking"
  /\ tab' = [tab EXCEPT !.phase = "publishing"]
  /\ Withdrawn
  /\ UNCHANGED <<publicationReady, pending, sessions, calls, command, disturbances>>

(* finishPublication sends the events that have waited.                    *)
RenewPublished ==
  /\ tab.phase = "publishing"
  /\ tab' = [tab EXCEPT !.phase = "idle"] /\ offered' = tab.generation
  /\ publicationReady' = TRUE /\ pending' = {}
  /\ UNCHANGED <<wanted, sessions, calls, command, disturbances>>

(* The connection is lost meanwhile, and the broker has dropped the tab. *)
RenewFails ==
  /\ tab.phase \in {"revoking", "publishing"} /\ Disturbed
  /\ tab' = [generation |-> tab.generation - 1, phase |-> "idle"]
  /\ pending' = {} /\ Withdrawn
  /\ UNCHANGED <<publicationReady, sessions, calls, command>>

RevokeStarts ==
  /\ tab.phase = "idle"
  /\ tab' = [tab EXCEPT !.phase = "withdrawing"]
  /\ publicationReady' = FALSE /\ pending' = {}
  /\ child' = Forgotten
  /\ demands' = [s \in Sessions |-> {}] /\ active' = FALSE
  /\ Withdrawn
  /\ UNCHANGED <<domainOn, calls, command, disturbances>>

(* Detaching from the tab detaches all its children, which then run.       *)
RevokeDetached ==
  /\ tab.phase = "withdrawing"
  /\ tab' = [tab EXCEPT !.phase = "gone"]
  /\ child' = [c \in Children |->
       [child[c] EXCEPT !.is = IF @ = "none" THEN @ ELSE "gone"]]
  /\ domainOn' = [s \in Sessions |-> FALSE]
  /\ UNCHANGED <<publicationReady, pending, broker, demands, active, calls, command, disturbances>>

-----------------------------------------------------------------------------
(* A child is attached to the tab or to another child whose sessions have  *)
(* been configured.  It waits for the debugger: it is configured, the      *)
(* domain that is active for the root is enabled, and it is made to run.   *)
ChildAttached(c, parent) ==
  /\ child[c].is = "none" /\ Attached(parent)
  /\ parent # Root => child[parent].setup \in {"enabling", "resuming", "over"}
  /\ child' = [child EXCEPT ![c] =
       [is |-> "waiting", setup |-> IF HasTab THEN "configuring" ELSE "none",
        issue |-> IF HasTab THEN 1 ELSE 0,
        above |-> IF parent = Root THEN {} ELSE child[parent].above \cup {parent}]]
  /\ pending' = IF publicationReady \/ ~HasTab THEN pending ELSE pending \cup {<<c, 1>>}
  /\ UNCHANGED <<tab, publicationReady, broker, domainOn, demands, active, calls, command, disturbances>>

(* Chrome takes the message for a child when it is there.                  *)
Taken(c) == HasTab /\ Attached(c)

SetupGoes(c, setup) == child' = [child EXCEPT ![c].setup = setup]

ChildConfigured(c) ==
  /\ child[c].setup = "configuring" /\ Taken(c)
  /\ SetupGoes(c, IF active THEN "enabling" ELSE "resuming")
  /\ UNCHANGED <<publication, broker, domainOn, demands, active, calls, command, disturbances>>

ChildEnabled(c) ==
  /\ child[c].setup = "enabling" /\ Taken(c)
  /\ SetupGoes(c, "resuming")
  /\ domainOn' = [domainOn EXCEPT ![c] = TRUE]
  /\ UNCHANGED <<publication, broker, demands, active, calls, command, disturbances>>

ChildResumed(c) ==
  /\ child[c].setup = "resuming" /\ Taken(c)
  /\ child' = [child EXCEPT ![c].setup = "over", ![c].is = "running"]
  /\ UNCHANGED <<publication, broker, domainOn, demands, active, calls, command, disturbances>>

(* A step fails: the child is to run all the same, and is let go.          *)
AfterFailureNothing(c) == SetupGoes(c, "dropping")
AfterFailure(c) == SetupGoes(c, "rescuing")

SetupFails(c) ==
  /\ \/ child[c].setup \in {"configuring", "enabling"}
     \/ child[c].setup = "resuming" /\ ~Taken(c)
  /\ AfterFailure(c)
  /\ UNCHANGED <<publication, broker, domainOn, demands, active, calls, command, disturbances>>

ChildRescued(c) ==
  /\ child[c].setup = "rescuing"
  /\ child' = [child EXCEPT ![c].setup = "dropping", ![c].is = IF Taken(c) THEN "running" ELSE @]
  /\ UNCHANGED <<publication, broker, domainOn, demands, active, calls, command, disturbances>>

(* Chrome may refuse to detach it; the router forgets it in any case.      *)
ChildDropped(c) ==
  /\ child[c].setup = "dropping"
  /\ \/ Taken(c) /\ Detaching(c, "over")
     \/ /\ child' = [d \in Children |->
             [child[d] EXCEPT !.issue = IF d \in Below(c) THEN 0 ELSE @,
                              !.setup = IF d = c THEN "over" ELSE @]]
        /\ Lost(Below(c)) /\ UNCHANGED domainOn
  /\ UNCHANGED <<publication, offered, active, calls, command, disturbances>>

ChildGone(c) ==
  /\ child[c].is \in {"waiting", "running"}
  /\ Detaching(c, child[c].setup)
  /\ UNCHANGED <<publication, offered, active, calls, command, disturbances>>

-----------------------------------------------------------------------------
(* setSubscriptionDemand, which goes to Chrome when the first prefix of    *)
(* the domain is demanded and when the last one is given up.               *)
Changed(s, p, on) == IF on THEN demands[s] \cup {p} ELSE demands[s] \ {p}

TurnsAtEach(s, p, on) == demands[s] # Changed(s, p, on)
Turns(s, p, on) == (demands[s] = {}) # (Changed(s, p, on) = {})

SetSubscriptionDemand(s, p, on) ==
  /\ HasTab /\ Known(s) /\ Len(calls) < MaxCalls
  /\ demands' = [demands EXCEPT ![s] = Changed(s, p, on)]
  /\ calls' = IF Turns(s, p, on)
              THEN Append(calls, [session |-> s, prefix |-> p, on |-> on]) ELSE calls
  /\ UNCHANGED <<publication, offered, child, domainOn, active, command, disturbances>>

(* The tab is known to the messages of the broker by its old generation    *)
(* until the new one has been published.                                   *)
Addressed == IF tab.phase = "idle" THEN tab.generation ELSE tab.generation - 1

Demand(s, p, on) ==
  /\ offered = Addressed /\ offered # 0 /\ on = (p \notin wanted[s])
  /\ wanted' = [wanted EXCEPT ![s] = IF on THEN @ \cup {p} ELSE @ \ {p}]
  /\ SetSubscriptionDemand(s, p, on)

(* It was sent before the broker knew that the generation is revoked.      *)
LateDemand(s, p, on) ==
  /\ tab.phase = "publishing"
  /\ SetSubscriptionDemand(s, p, on) /\ UNCHANGED wanted

(* Chrome answers each session in the order it was asked in.               *)
InTurn(i) == i \in DOMAIN calls /\ \A j \in 1..(i - 1) : calls[j].session # calls[i].session
CallsWithout(i) == SubSeq(calls, 1, i - 1) \o SubSeq(calls, i + 1, Len(calls))

DemandDone(i) ==
  /\ InTurn(i) /\ Attached(calls[i].session)
  /\ domainOn' = [domainOn EXCEPT ![calls[i].session] = calls[i].on]
  /\ active' = IF calls[i].session = Root THEN calls[i].on ELSE active
  /\ calls' = CallsWithout(i)
  /\ UNCHANGED <<publication, broker, child, demands, command, disturbances>>

(* The demand is taken back, or put back.  That of a child that is gone is *)
(* not looked at any more.                                                 *)
DemandFails(i) ==
  /\ InTurn(i)
  /\ LET k == calls[i]
     IN  /\ ~Attached(k.session) \/ (RefusesDomains /\ k.session = Root)
         /\ demands' = IF k.session # Root THEN demands
                       ELSE [demands EXCEPT ![Root] = IF k.on THEN @ \ {k.prefix}
                                                      ELSE @ \cup {k.prefix}]
  /\ calls' = CallsWithout(i)
  /\ UNCHANGED <<publication, broker, child, domainOn, active, command, disturbances>>

-----------------------------------------------------------------------------
(* Events that are demanded wait while the target is not published.        *)
Demanded(c, p) == p \in demands[Root] \cup demands[c]

Event(c, p) ==
  /\ HasTab /\ ~publicationReady /\ Attached(c) /\ Known(c) /\ domainOn[c] /\ Demanded(c, p)
  /\ pending' = pending \cup {<<c, Issue(c)>>}
  /\ UNCHANGED <<tab, publicationReady, broker, sessions, calls, command, disturbances>>

(* executeCommand: it resolves its session, awaits the host's policy, and  *)
(* is then sent.                                                           *)
CommandGoes(at) ==
  /\ command' = [command EXCEPT !.at = at]
  /\ UNCHANGED <<publication, broker, sessions, calls, disturbances>>

ExecuteCommand(s) ==
  /\ command.at = "idle" /\ tab.phase = "idle" /\ offered = tab.generation /\ Known(s)
  /\ command' = [at |-> "policy", session |-> s, issue |-> Issue(s),
                 generation |-> tab.generation, aborted |-> FALSE]
  /\ UNCHANGED <<publication, broker, sessions, calls, disturbances>>

PolicyAnswers == command.at = "policy" /\ \E at \in {"sent", "over"} : CommandGoes(at)
CommandAnswered == command.at = "sent" /\ CommandGoes("over")

CancelCommand ==
  /\ command.at \in {"policy", "sent"} /\ ~command.aborted
  /\ command' = [command EXCEPT !.aborted = TRUE]
  /\ UNCHANGED <<publication, broker, sessions, calls, disturbances>>

TabNext ==
  \/ RootNavigates
  \/ RenewStarts \/ RenewDisposed \/ RenewRevoked \/ RenewPublished \/ RenewFails
  \/ RevokeStarts \/ RevokeDetached
  \/ \E c \in Children :
       \/ \E parent \in Sessions \ {c} : ChildAttached(c, parent)
       \/ ChildConfigured(c) \/ ChildEnabled(c) \/ ChildResumed(c)
       \/ SetupFails(c) \/ ChildRescued(c) \/ ChildDropped(c) \/ ChildGone(c)
       \/ \E p \in Prefixes : Event(c, p)
  \/ \E s \in Sessions, p \in Prefixes, on \in BOOLEAN : Demand(s, p, on) \/ LateDemand(s, p, on)
  \/ \E i \in 1..MaxCalls : DemandDone(i) \/ DemandFails(i)
  \/ \E s \in Sessions : ExecuteCommand(s)
  \/ PolicyAnswers \/ CommandAnswered \/ CancelCommand

TabSpec == TabInit /\ [][TabNext]_sessionVars
-----------------------------------------------------------------------------
Settled == tab.phase = "idle" /\ offered = tab.generation /\ calls = <<>>

(* Once Chrome has answered, what the broker's subscriptions demand of the *)
(* tab or a child is known to the publisher and the domain is enabled      *)
(* there, however many demands overlapped each other, a renewal, a         *)
(* navigation or a child's setup.  This takes that Chrome does not refuse: *)
(* the broker is not told of a refusal.                                    *)
SubscribersServed ==
  Settled => \A s \in Sessions :
    wanted[s] \subseteq demands[s] /\ (wanted[s] # {} => domainOn[s])

(* No frame or worker is left waiting for the debugger: somebody is still  *)
(* going to make it run, or the debugger is leaving the tab.               *)
NoChildLeftWaiting ==
  \A c \in Children : child[c].is = "waiting" =>
    tab.phase = "withdrawing" \/ child[c].setup \in Setups \ {"none", "dropping", "over"}

(* A child that has been set up follows the domains of the root.           *)
ChildrenFollowRoot ==
  Settled => \A c \in Children :
    child[c].is = "running" /\ child[c].setup = "over" /\ active => domainOn[c]

(* Nothing is demanded of the tab that no subscription demands.            *)
NoStaleDemand == Settled => demands[Root] \subseteq wanted[Root]

(* The events that wait name sessions a client can still use.              *)
PendingAreLive == \A e \in pending : child[e[1]].issue = e[2]

(* A command is sent for the generation and the session it was checked for. *)
CommandsAreCurrent ==
  [][command.at = "policy" /\ command'.at = "sent" =>
       /\ ~command.aborted /\ command.generation = tab.generation
       /\ command.issue = Issue(command.session)]_sessionVars
=============================================================================
