------------------------ MODULE AutomationOperations ------------------------
(***************************************************************************)
(* Operations of a registered automation provider on one target: the       *)
(* broker's executeAutomation (packages/core/src/broker.ts) and the        *)
(* Playwright adapter (packages/automation-playwright/src/index.ts).       *)
(*                                                                         *)
(* An operation connects a Playwright browser to the target through a      *)
(* relay of its own, acts on the page, and disposes of the browser and the *)
(* relay before it answers.  Meanwhile the target may be revoked and       *)
(* published anew, the provider replaced or removed, and the operation     *)
(* cancelled.  What an operation leaves at the broker are element handles, *)
(* the listener of its relay and the demand for the debugger domains it    *)
(* enabled; these must follow the target and the provider.                 *)
(*                                                                         *)
(* Every instance of the provider has the same identifier, as the          *)
(* Playwright adapter's descriptor is a constant.  There is one principal, *)
(* one target and one domain.                                              *)
(***************************************************************************)
EXTENDS Naturals, FiniteSets

CONSTANTS
    Operations,
    Demanding,          \* the operations that enable the domain
    MaxGenerations,     \* how often the target is published
    MaxProviders        \* how many provider instances are registered

AutomationAssumption ==
    /\ IsFiniteSet(Operations) /\ Demanding \subseteq Operations
    /\ MaxGenerations \in Nat /\ MaxProviders \in Nat

VARIABLES
    generation,     \* of the published target, 0 while it is not published
    newest,         \* highestGenerationByTargetId
    provider,       \* automationProvidersByAgentPrincipalId, 0 when absent
    instances,      \* how many have been registered
    op,             \* the operations
    handles,        \* automationElementHandlesById: whose elements it holds
    listeners,      \* automationEventListenersByTargetKey: whose relays listen
    demand,         \* automationDomainDemandsByKey: the generations with an entry
    counted         \* the automation's share of the published generation's
                    \* entry in domainDemandCountsByKey

automationVars ==
    <<generation, newest, provider, instances, op, handles, listeners, demand, counted>>
directory == <<generation, newest, provider, instances>>
resources == <<handles, listeners, demand, counted>>

(* An operation is "ending" while the provider disposes of its runtime.  A *)
(* runtime may be disposed of earlier, by the provider that is replaced or *)
(* whose target is revoked.  A relay "wants" the domain it has enabled and *)
(* "asks" while the broker is awaited to activate it.                      *)
Kinds == {"action", "find", "snapshot"}     \* inspecting leaves as little as an action

AutomationTypeOK ==
    /\ generation \in 0..MaxGenerations /\ newest \in 0..MaxGenerations
    /\ provider \in 0..MaxProviders /\ instances \in 0..MaxProviders
    /\ op \in [Operations ->
         [kind : Kinds, at : {"idle", "connecting", "running", "ending", "over"},
          generation : 0..MaxGenerations, provider : 0..MaxProviders, aborted : BOOLEAN,
          disposal : {"none", "closing", "done"}, wants : BOOLEAN, asks : BOOLEAN,
          outcome : {"none", "done", "failed", "cancelled"}]]
    /\ handles \subseteq Operations /\ listeners \subseteq Operations
    /\ demand \subseteq 1..MaxGenerations /\ counted \in Nat

AutomationInit ==
    /\ generation = 0 /\ newest = 0 /\ provider = 0 /\ instances = 0
    /\ op \in [Operations ->
         [kind : Kinds, at : {"idle"}, generation : {0}, provider : {0}, aborted : {FALSE},
          disposal : {"none"}, wants : {FALSE}, asks : {FALSE}, outcome : {"none"}]]
    /\ handles = {} /\ listeners = {} /\ demand = {} /\ counted = 0

Active(o) == op[o].at \in {"connecting", "running", "ending"}

(* The runtimes a provider instance knows of: an operation that is still   *)
(* connecting has none yet.                                                *)
Runtimes(p) ==
    {o \in Operations : op[o].provider = p /\ op[o].at = "running" /\ op[o].disposal = "none"}

-----------------------------------------------------------------------------
(* The target and the provider.                                            *)

(* releaseAutomationResources, for the given generations of the target     *)
Fewer(count) == IF count =< 1 THEN 0 ELSE count - 1

ReleaseRecords(generations) ==
    /\ handles' = {h \in handles : op[h].generation \notin generations}
    /\ listeners' = {o \in listeners : op[o].generation \notin generations}
    /\ demand' = demand \ generations

ReleaseResources(generations) ==
    /\ ReleaseRecords(generations)
    /\ counted' = IF generation \in demand \cap generations THEN Fewer(counted) ELSE counted

Disposing(ops) == [o \in Operations |->
    IF o \in ops THEN [op[o] EXCEPT !.disposal = "closing"] ELSE op[o]]

AbortedAndDisposing(aborted, ops) == [o \in Operations |->
    [Disposing(ops)[o] EXCEPT !.aborted = @ \/ o \in aborted]]

PublishTarget ==
    /\ generation = 0 /\ newest < MaxGenerations
    /\ generation' = newest + 1 /\ newest' = newest + 1
    /\ UNCHANGED <<provider, instances, op, resources>>

OnTarget == {o \in Operations : Active(o) /\ op[o].generation = generation}

RevokeTarget ==
    /\ generation # 0
    /\ generation' = 0
    /\ ReleaseRecords({generation}) /\ counted' = 0
    /\ op' = AbortedAndDisposing(OnTarget,
                 {o \in Runtimes(provider) : op[o].generation = generation})
    /\ UNCHANGED <<newest, provider, instances>>

All == 1..MaxGenerations

(* registerAutomationProvider, also in the place of another                *)
RegisterProvider ==
    /\ instances < MaxProviders
    /\ instances' = instances + 1 /\ provider' = instances + 1
    /\ IF provider # 0
       THEN ReleaseResources(All) /\ op' = Disposing(Runtimes(provider))
       ELSE UNCHANGED <<resources, op>>
    /\ UNCHANGED <<generation, newest>>

UnregisterProvider ==
    /\ provider # 0
    /\ provider' = 0
    /\ ReleaseResources(All) /\ op' = Disposing(Runtimes(provider))
    /\ UNCHANGED <<generation, newest, instances>>

(* ensureCurrentAgentConnection of a newer connection: the targets of the  *)
(* older one are revoked and its provider is removed.                      *)
FenceConnection ==
    /\ provider # 0 \/ generation # 0
    /\ generation' = 0 /\ provider' = 0
    /\ handles' = {} /\ listeners' = {} /\ demand' = {} /\ counted' = 0
    /\ op' = AbortedAndDisposing(OnTarget, Runtimes(provider))
    /\ UNCHANGED <<newest, instances>>

-----------------------------------------------------------------------------
(* An operation.                                                           *)

(* executeAutomation up to its await: the adapter creates the relay, which *)
(* listens, and starts to connect.                                         *)
Execute(o) ==
    /\ op[o].at = "idle" /\ generation # 0 /\ provider # 0
    /\ op' = [op EXCEPT ![o].at = "connecting", ![o].generation = generation,
                        ![o].provider = provider]
    /\ listeners' = listeners \cup {o}
    /\ UNCHANGED <<directory, handles, demand, counted>>

(* cancelAutomation, the command's timeout, or the loss of its connection  *)
Cancel(o) ==
    /\ Active(o) /\ ~op[o].aborted
    /\ op' = [op EXCEPT ![o].aborted = TRUE]
    /\ UNCHANGED <<directory, resources>>

(* Playwright enables the domain: the relay handles one message at a time. *)
(* setDomainDemand reads its map before the await and writes it after it.  *)
Enable(o) ==
    /\ o \in Demanding
    /\ op[o].at \in {"connecting", "running"} /\ op[o].disposal # "done"
    /\ ~op[o].wants /\ ~op[o].asks
    /\ LET asks == ~op[o].aborted /\ op[o].generation \notin demand
       IN  /\ op' = [op EXCEPT ![o].wants = TRUE, ![o].asks = asks]
           /\ counted' = IF asks THEN counted + 1 ELSE counted
    /\ UNCHANGED <<directory, handles, listeners, demand>>

Enabled(o) ==
    /\ op[o].asks
    /\ op' = [op EXCEPT ![o].asks = FALSE]
    /\ demand' = demand \cup {op[o].generation}
    /\ UNCHANGED <<directory, handles, listeners, counted>>

EnableFails(o) ==
    /\ op[o].asks
    /\ op' = [op EXCEPT ![o].asks = FALSE]
    /\ counted' = IF op[o].generation = generation THEN 0 ELSE counted
    /\ UNCHANGED <<directory, handles, listeners, demand>>

Connected(o) ==
    /\ op[o].at = "connecting" /\ ~op[o].aborted
    /\ op' = [op EXCEPT ![o].at = "running"]
    /\ UNCHANGED <<directory, resources>>

(* What createProgress races every step of connecting and acting with      *)
InterruptedOnceConnected(o) == op[o].aborted /\ op[o].at # "connecting"
Interrupted(o) == op[o].aborted

Ended(o) == IF op[o].aborted THEN "cancelled" ELSE "failed"

(* connectOverCDP rejects, which leaves the relay as it is, or it finds no *)
(* page, which closes it.  The demand stays in both cases.                 *)
ConnectFails(o) ==
    /\ op[o].at = "connecting"
    /\ op' = [op EXCEPT ![o].at = "over", ![o].outcome = Ended(o)]
    /\ \E found \in BOOLEAN :
         listeners' = IF found THEN listeners ELSE listeners \ {o}
    /\ UNCHANGED <<directory, handles, demand, counted>>

(* The snapshot, search or action is done or has failed; its runtime is    *)
(* disposed of, unless that has begun.                                     *)
Acted(o, outcome) ==
    /\ op[o].at = "running"
    /\ outcome = "done" => op[o].disposal = "none"
    /\ op' = [op EXCEPT ![o].at = "ending", ![o].outcome = outcome,
                        ![o].disposal = IF @ = "none" THEN "closing" ELSE @]
    /\ UNCHANGED <<directory, resources>>

Snapshots(o, outcome) == op[o].kind = "snapshot" /\ Acted(o, outcome)
Finds(o, outcome) == op[o].kind = "find" /\ Acted(o, outcome)
Performs(o, outcome) == op[o].kind = "action" /\ Acted(o, outcome)

(* The browser is closed, then the relay gives its demand back and closes. *)
Disposed(o) ==
    LET returns == op[o].wants /\ op[o].generation \in demand
    IN  /\ op[o].disposal = "closing"
        /\ op' = [op EXCEPT ![o].disposal = "done", ![o].wants = FALSE]
        /\ demand' = IF returns THEN demand \ {op[o].generation} ELSE demand
        /\ counted' = IF returns /\ op[o].generation = generation THEN Fewer(counted)
                      ELSE counted
        /\ listeners' = listeners \ {o}
        /\ UNCHANGED <<directory, handles>>

(* The provider has answered.                                              *)
AnsweredDespiteAbort(o) ==
    /\ op[o].at = "ending" /\ op[o].disposal = "done"
    /\ op' = [op EXCEPT ![o].at = "over"]
    /\ handles' = IF op[o].outcome = "done" /\ op[o].kind # "action"
                  THEN handles \cup {o} ELSE handles
    /\ UNCHANGED <<directory, listeners, demand, counted>>

Answered(o) ==
    /\ op[o].at = "ending" /\ op[o].disposal = "done"
    /\ op' = [op EXCEPT ![o].at = "over", ![o].outcome = IF @ = "done" /\ ~op[o].aborted
                                                         THEN @ ELSE Ended(o)]
    /\ handles' = IF op'[o].outcome = "done" /\ op[o].kind # "action"
                  THEN handles \cup {o} ELSE handles
    /\ UNCHANGED <<directory, listeners, demand, counted>>

AutomationNext ==
    \/ PublishTarget \/ RevokeTarget \/ RegisterProvider \/ UnregisterProvider
    \/ FenceConnection
    \/ \E o \in Operations :
         \/ Execute(o) \/ Cancel(o) \/ Enable(o) \/ Enabled(o) \/ EnableFails(o)
         \/ Connected(o) \/ ConnectFails(o) \/ Disposed(o) \/ Answered(o)
         \/ \E outcome \in {"done", "failed"} :
              Snapshots(o, outcome) \/ Finds(o, outcome) \/ Performs(o, outcome)

(* An interrupted step ends, as it is raced with the abort; only a search  *)
(* is not.  A browser closes, and the broker takes the answer.             *)
Ends(o) ==
    \/ /\ Interrupted(o)
       /\ ConnectFails(o) \/ Snapshots(o, "failed") \/ Performs(o, "failed")
    \/ Disposed(o) \/ Answered(o)

AutomationSpec ==
    /\ AutomationInit /\ [][AutomationNext]_automationVars
    /\ \A o \in Operations : WF_automationVars(Ends(o))
-----------------------------------------------------------------------------
(* providerOperation: what an operation may be asked to act on.            *)
Usable(h) == h \in handles /\ op[h].generation = generation

(* Every element handle the broker holds is of the published generation:   *)
(* none is added for an operation whose target was revoked while the       *)
(* provider was awaited, or while its runtime was being disposed of.       *)
HandlesFollowTarget == \A h \in handles : Usable(h)

(* An operation that was cancelled, or lost its target, comes to an end,   *)
(* whatever it was awaiting.  Only a search may go on: it alone is not     *)
(* raced with the abort.                                                   *)
AbortedOperationEnds ==
    \A o \in Operations : op[o].aborted /\ op[o].kind # "find" ~> op[o].at = "over"

(* ARCHITECTURE.md, on element handles: "replacement, revocation,          *)
(* generation renewal, and principal disposal invalidate them".            *)
ReplacementInvalidates == \A h \in handles : op[h].provider = provider

(* Once no operation runs, the broker's demand for the domain has been     *)
(* given back, and nobody's relay listens.                                 *)
NothingLeft ==
    (\A o \in Operations : ~Active(o) /\ ~op[o].asks)
        => demand = {} /\ counted = 0 /\ listeners = {}
=============================================================================
