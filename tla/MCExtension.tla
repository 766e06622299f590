----------------------------- MODULE MCExtension -----------------------------
(* Small instances of the extension's machines for TLC.  A behaviour is    *)
(* one of ChromeProvider, of WebMcp or of TabSessions: the others stay as  *)
(* they began.                                                             *)
EXTENDS ChromeProvider, TLC

CONSTANTS s1, s2, c1, c2, n1,
  Calls, Names, MaxDocuments, MaxChanges, MaxSwitches, MaxTools, MaxEarly,
  k1, k2, p1, p2, Children, Root, Prefixes, RefusesDomains, MaxGenerations, MaxDisturbances, MaxCalls

VARIABLES machine, document, told, ctl, queue, call, native, handed, changes, switches,
  tab, offered, wanted, publicationReady, pending, child, domainOn, demands, active,
  calls, command, disturbances

T == INSTANCE TabSessions
W == INSTANCE WebMcp WITH page <- document

ASSUME MachinesAssumption == T!TabSessionsAssumption /\ W!WebMcpAssumption

webMcpVars == <<document, told, ctl, queue, call, native, handed, changes, switches>>

sessionVars ==
  <<tab, offered, wanted, publicationReady, pending, child, domainOn, demands, active, calls,
    command, disturbances>>

(* Of one tab there are behaviours with demands on it and on one child,    *)
(* with one demand and two children, or with a command and one child.      *)
TabMachines == {"demands", "children", "commands"}

(* One call lists or invokes, the other invokes.                           *)
MCInit ==
  /\ machine \in {"scopes", "webmcp"} \cup TabMachines /\ Init /\ W!WebMcpInit /\ T!TabInit
  /\ call[c2].kind = "invoke" /\ document.tools = {n1}
  /\ machine # "webmcp" => call[c1].kind = "list"
  /\ machine # "scopes" => page.scopes = {}

(* Three of the four disturbances of a scope come together, and a tool     *)
(* changes or WebMCP is switched.                                          *)
ScopesRun ==
  /\ machine = "scopes" /\ Next /\ UNCHANGED <<machine, webMcpVars, sessionVars>>
  /\ moves' + losses' + endings' =< 3
WebMcpRuns ==
  /\ machine = "webmcp" /\ W!WebMcpNext /\ UNCHANGED <<machine, vars, sessionVars>>
  /\ changes' + switches' =< 1
TabRuns ==
  /\ machine \in TabMachines /\ T!TabNext /\ UNCHANGED <<machine, vars, webMcpVars>>
  /\ IF machine = "children" THEN UNCHANGED disturbances ELSE child'[k2].is = "none"
  /\ machine # "demands" => demands'[k1] = {} /\ demands'[k2] = {} /\ p2 \notin demands'[Root]
  /\ machine = "commands" => p1 \notin demands'[Root]
  /\ machine # "commands" => UNCHANGED command

MCNext == ScopesRun \/ WebMcpRuns \/ TabRuns
MCSpec == MCInit /\ [][MCNext]_<<machine, vars, webMcpVars, sessionVars>>

(* The properties of the instance, as its module states them: no invocation *)
(* runs in the page that nobody will hear of,                              *)
NothingRunsUnheard == W!NothingRunsUnheard
(* what a call answers is of the page it was made for,                     *)
AnswersAreCurrent == W!AnswersAreCurrent
(* subscriptions get what they demand of a tab and its children,           *)
SubscribersServed == T!SubscribersServed
(* and no child is left waiting for the debugger.                          *)
NoChildLeftWaiting == T!NoChildLeftWaiting
WebMcpTypeOK == W!WebMcpTypeOK
TabTypeOK == T!TabTypeOK

(* Properties the code does not have: a child follows the domains of its   *)
(* root,                                                                   *)
ChildrenFollowRoot == T!ChildrenFollowRoot
(* no demand outlives its generation,                                      *)
NoStaleDemand == T!NoStaleDemand
(* the events that wait name sessions of today,                            *)
PendingAreLive == T!PendingAreLive
(* and so does a command when it is sent.                                  *)
CommandsAreCurrent == T!CommandsAreCurrent
=============================================================================
