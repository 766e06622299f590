------------------------------- MODULE WebMcp -------------------------------
(***************************************************************************)
(* createWebMcpController (extension/src/webmcp.ts): the tools that the    *)
(* main document of one target generation offers, listed and invoked       *)
(* through Chrome's debugger.  Every answer of Chrome is a step, so that   *)
(* navigations, tool registrations, aborts and the end of the generation   *)
(* come between any two of them.  What Chrome and the page do is external. *)
(***************************************************************************)
EXTENDS Naturals, FiniteSets, Sequences

CONSTANTS
  Calls,        \* the execute calls of one behaviour
  Names,        \* names of tools
  None,
  MaxDocuments, \* bound: documents the tab shows
  MaxChanges,   \* bound: tools that are registered or removed
  MaxSwitches,  \* bound: activations and deactivations by the broker
  MaxTools,     \* the catalogue fits maximumResultBytes up to this many tools
  MaxEarly      \* and so many responses that overtake their acknowledgement

WebMcpAssumption ==
  /\ IsFiniteSet(Calls) /\ IsFiniteSet(Names) /\ None \notin Names
  /\ {MaxDocuments, MaxChanges, MaxSwitches, MaxTools, MaxEarly} \subseteq Nat

VARIABLES
  page,     \* external: the document shown, its tools, whether WebMCP is enabled
  told,     \* the last navigation the controller was told of
  ctl,      \* the controller
  queue,    \* serialized operations, the first one running
  call,     \* per call: where it is and what it knows
  native,   \* per call: its invocation in the page
  handed,   \* the references lists have handed out
  changes, switches

webMcpVars == <<page, told, ctl, queue, call, native, handed, changes, switches>>

Kinds == {"list", "invoke"}
Operations == {"prepare", "on", "off", "dispose"}
NoReference == [document |-> 0, name |-> None, issue |-> 0]

WebMcpTypeOK ==
  /\ page \in [document : 1..MaxDocuments, tools : SUBSET Names, listening : BOOLEAN]
  /\ told \in 1..MaxDocuments
  /\ ctl \in [document : 0..MaxDocuments, enabled : BOOLEAN, closed : BOOLEAN,
              tools : SUBSET Names, oversized : BOOLEAN, known : SUBSET Names,
              issue : [Names -> Nat], revision : Nat,
              early : SUBSET Calls, overflow : BOOLEAN]
  /\ \A i \in DOMAIN queue :
       queue[i] \in [does : Operations, for : Calls \cup {None},
                     phase : {"read", "disabling", "enabling"}, document : 0..MaxDocuments]
  /\ call \in [Calls ->
       [kind : Kinds, at : {"idle", "queued", "policy", "verifying", "dispatched",
                            "pending", "checking", "over"},
        document : 0..MaxDocuments, tools : SUBSET Names, revision : Nat,
        aborted : BOOLEAN,
        reference : [document : 0..MaxDocuments, name : Names \cup {None}, issue : Nat],
        outcome : {"none", "done", "failed", "unknown"}]]
  /\ native \in [Calls -> [is : {"none", "sent", "running", "responded", "failed", "gone"},
                           acknowledged : BOOLEAN, cancelled : BOOLEAN]]
  /\ handed \subseteq [document : 1..MaxDocuments, name : Names, issue : Nat]
  /\ changes \in 0..MaxChanges /\ switches \in 0..MaxSwitches

WebMcpInit ==
  /\ page \in [document : {1}, tools : SUBSET Names, listening : {FALSE}]
  /\ told = 1
  /\ ctl = [document |-> 0, enabled |-> FALSE, closed |-> FALSE, tools |-> {},
            oversized |-> FALSE, known |-> {}, issue |-> [n \in Names |-> 0],
            revision |-> 0, early |-> {}, overflow |-> FALSE]
  /\ queue = <<>>
  /\ call \in [Calls -> [kind : Kinds, at : {"idle"}, document : {0}, tools : {{}},
                         revision : {0}, aborted : {FALSE}, reference : {NoReference},
                         outcome : {"none"}]]
  /\ native = [c \in Calls |-> [is |-> "none", acknowledged |-> FALSE, cancelled |-> FALSE]]
  /\ handed = {} /\ changes = 0 /\ switches = 0

Ended(k, outcome) == [k EXCEPT !.at = "over", !.outcome = outcome]
Dispatching == {c \in Calls : call[c].at = "dispatched"}

-----------------------------------------------------------------------------
(* The document and its catalogue.                                         *)

\* What invalidate leaves of the controller, and does to the calls that wait
\* for a result: they fail, and Chrome is asked to cancel what they invoked.
Invalidated(s) ==
  [s EXCEPT !.document = 0, !.revision = @ + 1, !.early = {}, !.overflow = FALSE,
            !.tools = {}, !.known = {}, !.oversized = FALSE,
            !.issue = [n \in Names |-> @[n] + 1]]
Interrupted(k) == [c \in Calls |-> IF k[c].at = "pending" THEN Ended(k[c], "unknown") ELSE k[c]]
Cancelling(v, k) ==
  [c \in Calls |-> [v[c] EXCEPT !.cancelled = @ \/ k[c].at = "pending"]]

Navigated ==
  /\ told < page.document /\ told' = told + 1
  /\ IF ~ctl.closed /\ ctl.document # told + 1
     THEN /\ ctl' = Invalidated(ctl) /\ call' = Interrupted(call)
          /\ native' = Cancelling(native, call)
     ELSE UNCHANGED <<ctl, call, native>>
  /\ UNCHANGED <<page, queue, handed, changes, switches>>

\* Tools that no longer fit the result size are forgotten with the whole catalogue.
Catalogue(s, added) ==
  LET tools == s.tools \cup added
      fits == Cardinality(tools) <= MaxTools
  IN  [s EXCEPT !.tools = IF fits THEN tools ELSE {}, !.oversized = @ \/ ~fits,
                !.revision = @ + Cardinality(added)]

Forgotten(s, names) ==
  [s EXCEPT !.known = @ \ names,
            !.issue = [n \in Names |-> IF n \in names THEN @[n] + 1 ELSE @[n]]]

ToolAdded(n) ==
  /\ changes < MaxChanges /\ changes' = changes + 1 /\ n \notin page.tools
  /\ page' = [page EXCEPT !.tools = @ \cup {n}]
  /\ ctl' = IF page.listening /\ ~ctl.closed /\ ctl.document # 0 THEN Catalogue(ctl, {n}) ELSE ctl
  /\ UNCHANGED <<told, queue, call, native, handed, switches>>

ToolRemoved(n) ==
  /\ changes < MaxChanges /\ changes' = changes + 1 /\ n \in page.tools
  /\ page' = [page EXCEPT !.tools = @ \ {n}]
  /\ ctl' = IF page.listening /\ ~ctl.closed /\ ctl.document # 0
            THEN Forgotten([ctl EXCEPT !.tools = @ \ {n}, !.revision = @ + 1], {n})
            ELSE ctl
  /\ UNCHANGED <<told, queue, call, native, handed, switches>>

\* Another document, with tools of its own.  What ran in the old one is gone.
Navigate(tools) ==
  /\ page.document < MaxDocuments /\ told = page.document
  /\ page' = [page EXCEPT !.document = @ + 1, !.tools = tools]
  /\ native' = [c \in Calls |-> [native[c] EXCEPT !.is = IF @ = "running" THEN "gone" ELSE @]]
  /\ UNCHANGED <<told, ctl, queue, call, handed, changes, switches>>

-----------------------------------------------------------------------------
(* Serialized operations: prepare for a call, activation, disposal.        *)

Queued(does, c) ==
  Append(queue, [does |-> does, for |-> c, phase |-> "read", document |-> 0])

Running(does, phase) ==
  /\ queue # <<>> /\ Head(queue).does \in does /\ Head(queue).phase = phase

\* The operation ends; the call that waits for it goes on or fails with it.
Selected(c, k) ==
  IF c = None \/ k.at # "queued" THEN k
  ELSE IF k.kind = "list" /\ ctl'.oversized THEN Ended(k, "failed")
  ELSE IF k.kind = "list"
       THEN [k EXCEPT !.at = "policy", !.document = ctl'.document, !.revision = ctl'.revision,
                      !.tools = ctl'.tools]
  ELSE IF k.reference # NoReference
          /\ ~ /\ k.reference.document = ctl'.document /\ k.reference.name \in ctl'.known
               /\ k.reference.issue = ctl'.issue[k.reference.name]
       THEN Ended(k, "failed")
  ELSE [k EXCEPT !.at = "verifying", !.document = ctl'.document]

Failed(c, k) == IF c = None \/ k.at # "queued" THEN k ELSE Ended(k, "failed")

After(Outcome(_, _), k) ==
  LET c == Head(queue).for IN IF c = None THEN k ELSE [k EXCEPT ![c] = Outcome(c, @)]

\* prepare reads which document is shown.  Another one than before makes
\* everything known invalid, and WebMCP is enabled anew for it.
PrepareReads ==
  /\ Running({"prepare", "on"}, "read") /\ told >= page.document - 1
  /\ IF ctl.closed
     THEN /\ queue' = Tail(queue) /\ call' = After(Failed, call)
          /\ UNCHANGED <<ctl, native>>
     ELSE LET fresh == ctl.document # page.document
              known == IF fresh THEN Invalidated(ctl) ELSE ctl
          IN  /\ native' = IF fresh THEN Cancelling(native, call) ELSE native
              /\ IF fresh /\ ctl.enabled
                 THEN /\ ctl' = known /\ call' = Interrupted(call)
                      /\ queue' = [queue EXCEPT ![1].phase = "disabling",
                                                ![1].document = page.document]
                 ELSE IF ctl.enabled
                 THEN /\ ctl' = ctl /\ queue' = Tail(queue) /\ call' = After(Selected, call)
                 ELSE /\ ctl' = [known EXCEPT !.document = page.document, !.tools = {},
                                              !.oversized = FALSE]
                      /\ call' = IF fresh THEN Interrupted(call) ELSE call
                      /\ queue' = [queue EXCEPT ![1].phase = "enabling",
                                                ![1].document = page.document]
  /\ UNCHANGED <<page, told, handed, changes, switches>>

PrepareDisabled ==
  /\ Running({"prepare", "on"}, "disabling")
  /\ page' = [page EXCEPT !.listening = FALSE]
  /\ IF ctl.closed
     THEN /\ ctl' = [ctl EXCEPT !.enabled = FALSE]
          /\ queue' = Tail(queue) /\ call' = After(Failed, call)
     ELSE /\ ctl' = [ctl EXCEPT !.enabled = FALSE, !.document = Head(queue).document,
                                !.tools = {}, !.oversized = FALSE]
          /\ queue' = [queue EXCEPT ![1].phase = "enabling"] /\ UNCHANGED call
  /\ UNCHANGED <<told, native, handed, changes, switches>>

\* Enabling reports the tools there are before it is answered.
PrepareEnabled ==
  /\ Running({"prepare", "on"}, "enabling")
  /\ page' = [page EXCEPT !.listening = TRUE]
  /\ LET seeded == IF ctl.document = 0 \/ ctl.closed THEN ctl ELSE Catalogue(ctl, page.tools)
         stays == ~ctl.closed /\ ctl.document = Head(queue).document
     IN  /\ ctl' = IF stays
                   THEN Forgotten([seeded EXCEPT !.enabled = TRUE], seeded.known \ seeded.tools)
                   ELSE [seeded EXCEPT !.enabled = TRUE]
         /\ call' = IF stays THEN After(Selected, call) ELSE After(Failed, call)
  /\ queue' = Tail(queue)
  /\ UNCHANGED <<told, native, handed, changes, switches>>

PrepareUnsupported ==
  /\ Running({"prepare", "on"}, "enabling")
  /\ queue' = Tail(queue) /\ call' = After(Failed, call)
  /\ UNCHANGED <<page, told, ctl, native, handed, changes, switches>>

\* References outlive a deactivation: only the catalogue is cleared.
Deactivated ==
  /\ Running({"off", "dispose"}, "read")
  /\ queue' = Tail(queue)
  /\ IF ctl.enabled
     THEN /\ page' = [page EXCEPT !.listening = FALSE]
          /\ ctl' = [ctl EXCEPT !.enabled = FALSE,
                                !.tools = IF Head(queue).does = "off" THEN {} ELSE @]
     ELSE UNCHANGED <<page, ctl>>
  /\ UNCHANGED <<told, call, native, handed, changes, switches>>

\* The broker activates WebMCP with the first lease that needs it and
\* deactivates it with the last, whatever is under way.
SetActive(does) ==
  /\ does \in {"on", "off"} /\ switches < MaxSwitches /\ ~ctl.closed
  /\ switches' = switches + 1 /\ queue' = Queued(does, None)
  /\ UNCHANGED <<page, told, ctl, call, native, handed, changes>>

\* The generation ends: everything pending fails, also what waits in the queue.
Dispose ==
  /\ ~ctl.closed
  /\ ctl' = [Invalidated(ctl) EXCEPT !.closed = TRUE]
  /\ call' = [c \in Calls |->
       CASE call[c].at \in {"pending", "dispatched"} -> Ended(call[c], "unknown")
         [] call[c].at \in {"queued", "policy"} -> Ended(call[c], "failed")
         [] call[c].at = "verifying" /\ call[c].kind = "list" -> Ended(call[c], "failed")
         [] OTHER -> call[c]]
  /\ native' = Cancelling(native, call)
  /\ queue' = Queued("dispose", None)
  /\ UNCHANGED <<page, told, handed, changes, switches>>

-----------------------------------------------------------------------------
(* Calls.                                                                  *)

\* A call invokes a tool by name, or by a reference some list handed out.
Execute(c) ==
  /\ call[c].at = "idle"
  /\ \E r \in {NoReference} \cup (IF call[c].kind = "invoke" THEN handed ELSE {}) :
       call' = [call EXCEPT ![c].reference = r,
                            ![c].at = IF ctl.closed THEN "over" ELSE "queued",
                            ![c].outcome = IF ctl.closed THEN "failed" ELSE @]
  /\ queue' = Queued("prepare", c)
  /\ UNCHANGED <<page, told, ctl, native, handed, changes, switches>>

\* The caller's signal.  A call waits for its turn, for the policy of a list, for
\* the acknowledgement and for the result no longer than that.
Abort(c) ==
  /\ call[c].at \notin {"idle", "over"} /\ ~call[c].aborted
  /\ call' = [call EXCEPT ![c] =
       LET k == [@ EXCEPT !.aborted = TRUE]
       IN  CASE k.at \in {"dispatched", "pending"} -> Ended(k, "unknown")
             [] k.at \in {"queued", "policy"} \/ (k.at = "verifying" /\ k.kind = "list")
                  -> Ended(k, "failed")
             [] OTHER -> k]
  /\ native' = [native EXCEPT ![c].cancelled = @ \/ call[c].at = "pending"]
  /\ UNCHANGED <<page, told, ctl, queue, handed, changes, switches>>

\* The host's discovery policy has looked at the tools the list began with.
Described(c) ==
  /\ call[c].at = "policy"
  /\ call' = [call EXCEPT ![c].at = "verifying"]
  /\ ctl' = IF ctl.document = call[c].document THEN [ctl EXCEPT !.known = @ \cup call[c].tools] ELSE ctl
  /\ UNCHANGED <<page, told, queue, native, handed, changes, switches>>

PolicyFails(c) ==
  /\ call[c].at = "policy"
  /\ call' = [call EXCEPT ![c] = Ended(@, "failed")]
  /\ UNCHANGED <<page, told, ctl, queue, native, handed, changes, switches>>

\* verifyDocument: the document of the call is still the controller's when the
\* question is asked and when it is answered, and is the one that is shown.
Verified(c) == ~ctl.closed /\ ctl.document = call[c].document /\ page.document = ctl.document

\* A document that is no longer shown is found out before its event arrives.
FoundOut(c) ==
  LET stale == ~ctl.closed /\ ctl.document = call[c].document /\ page.document # ctl.document
  IN  /\ ctl' = IF stale THEN Invalidated(ctl) ELSE ctl
      /\ native' = IF stale THEN Cancelling(native, call) ELSE native
      /\ call' = [(IF stale THEN Interrupted(call) ELSE call) EXCEPT ![c] =
                    Ended(call[c], IF call[c].at = "checking" THEN "unknown" ELSE "failed")]

UnchangedDocument(c) == call[c].document = ctl.document
Unchanged(c) == call[c].revision = ctl.revision

ListVerified(c) ==
  /\ call[c].at = "verifying" /\ call[c].kind = "list" /\ told >= page.document - 1
  /\ IF Verified(c)
     THEN /\ call' = [call EXCEPT ![c] = Ended(@, IF Unchanged(c) THEN "done" ELSE "failed")]
          /\ handed' = IF Unchanged(c)
                       THEN handed \cup {[document |-> ctl.document, name |-> n,
                                          issue |-> ctl.issue[n]] : n \in call[c].tools}
                       ELSE handed
          /\ UNCHANGED <<ctl, native>>
     ELSE FoundOut(c) /\ UNCHANGED handed
  /\ UNCHANGED <<page, told, queue, changes, switches>>

\* The tool is called by name: whatever the document registered under it.
InvokeVerified(c) ==
  /\ call[c].at = "verifying" /\ call[c].kind = "invoke" /\ told >= page.document - 1
  /\ IF Verified(c) /\ ~call[c].aborted
     THEN /\ call' = [call EXCEPT ![c].at = "dispatched"]
          /\ native' = [native EXCEPT ![c].is = "sent"]
          /\ UNCHANGED ctl
     ELSE IF Verified(c)
     THEN call' = [call EXCEPT ![c] = Ended(@, "failed")] /\ UNCHANGED <<ctl, native>>
     ELSE FoundOut(c)
  /\ UNCHANGED <<page, told, queue, handed, changes, switches>>

\* Chrome starts the tool.  Its answer, with the identifier, is on the way.
Started(c) ==
  /\ native[c].is = "sent" /\ page.listening
  /\ native' = [native EXCEPT ![c].is = "running"]
  /\ UNCHANGED <<page, told, ctl, queue, call, handed, changes, switches>>

\* Chrome refuses: nobody can tell whether the tool ran.
InvocationRefused(c) ==
  /\ native[c].is = "sent"
  /\ native' = [native EXCEPT ![c].is = "gone"]
  /\ call' = [call EXCEPT ![c] = IF @.at = "dispatched" THEN Ended(@, "unknown") ELSE @]
  /\ UNCHANGED <<page, told, ctl, queue, handed, changes, switches>>

UnwantedUnlessAborted(c) == ctl.closed \/ ctl.document # call[c].document

\* The identifier arrives.  A call that is over, or whose document has gone, has
\* the invocation cancelled; so has one that came while responses were lost.
Unwanted(c) == ctl.closed \/ call[c].aborted \/ ctl.document # call[c].document

\* settleInvocation: what completed is still verified, a failure is final.
Settled(c) ==
  IF native'[c].is = "failed" THEN Ended(call[c], "failed") ELSE [call[c] EXCEPT !.at = "checking"]

Acknowledged(c) ==
  /\ native[c].is \in {"running", "responded", "failed", "gone"} /\ ~native[c].acknowledged
  /\ LET waits == call[c].at = "dispatched"
         last == Dispatching = {c}
         lost == waits /\ ~Unwanted(c) /\ ctl.overflow
         early == c \in ctl.early
     IN  /\ native' = [native EXCEPT ![c].acknowledged = TRUE,
                                     ![c].cancelled = @ \/ Unwanted(c) \/ lost]
         /\ call' = [call EXCEPT ![c] =
              IF ~waits THEN @
              ELSE IF Unwanted(c) \/ lost THEN Ended(@, "unknown")
              ELSE IF early THEN Settled(c) ELSE [@ EXCEPT !.at = "pending"]]
         /\ ctl' = IF ~waits \/ Unwanted(c) THEN ctl
                   ELSE IF lost
                        THEN IF last THEN [ctl EXCEPT !.overflow = FALSE, !.early = {}] ELSE ctl
                        ELSE [ctl EXCEPT !.early = IF last THEN {} ELSE @ \ {c}]
  /\ UNCHANGED <<page, told, queue, handed, changes, switches>>

\* The tool has ended and says so, while WebMCP is enabled.  A response nobody
\* waits for is kept as long as an acknowledgement is awaited.
Responded(c) ==
  /\ native[c].is = "running"
  /\ \E how \in {"responded", "failed"} : native' = [native EXCEPT ![c].is = how]
  /\ LET heard == page.listening /\ ~ctl.closed
         waits == call[c].at = "pending"
         kept == heard /\ ~waits /\ Dispatching # {}
         fits == Cardinality(ctl.early \cup {c}) <= MaxEarly
     IN  /\ call' = IF heard /\ waits THEN [call EXCEPT ![c] = Settled(c)] ELSE call
         /\ ctl' = IF ~kept THEN ctl
                   ELSE IF fits THEN [ctl EXCEPT !.early = @ \cup {c}]
                   ELSE [ctl EXCEPT !.overflow = TRUE]
  /\ UNCHANGED <<page, told, queue, handed, changes, switches>>

\* The result counts if the document is still the one the call was made for.
ResultVerified(c) ==
  /\ call[c].at = "checking" /\ told >= page.document - 1
  /\ IF Verified(c)
     THEN /\ call' = [call EXCEPT ![c] = Ended(@, IF @.aborted THEN "unknown" ELSE "done")]
          /\ UNCHANGED <<ctl, native>>
     ELSE FoundOut(c)
  /\ UNCHANGED <<page, told, queue, handed, changes, switches>>

WebMcpNext ==
  \/ \E c \in Calls :
       \/ Execute(c) \/ Abort(c) \/ Described(c) \/ PolicyFails(c)
       \/ ListVerified(c) \/ InvokeVerified(c) \/ Started(c) \/ InvocationRefused(c)
       \/ Acknowledged(c) \/ Responded(c) \/ ResultVerified(c)
  \/ \E n \in Names : ToolAdded(n) \/ ToolRemoved(n)
  \/ \E tools \in SUBSET Names : Navigate(tools)
  \/ \E does \in {"on", "off"} : SetActive(does)
  \/ Navigated \/ Dispose
  \/ PrepareReads \/ PrepareDisabled \/ PrepareEnabled \/ PrepareUnsupported \/ Deactivated

WebMcpSpec == WebMcpInit /\ [][WebMcpNext]_webMcpVars

-----------------------------------------------------------------------------
\* A tool that still runs in the page for a call that is over, and whose
\* identifier has arrived, has been asked to stop: no abort, navigation, lost
\* response or end of the generation leaves one running that nobody can cancel.
NothingRunsUnheard ==
  \A c \in Calls :
    native[c].is = "running" /\ native[c].acknowledged /\ call[c].at = "over"
      => native[c].cancelled

\* A list or a result that is handed to the caller belongs to the document that
\* is shown, and a list to the catalogue as it is, however long policy and
\* verification took.  (A deactivation empties the catalogue and leaves its
\* revision alone: a list that began before it may answer what it found then.)
AnswersAreCurrent ==
  [][\A c \in Calls : call[c].outcome # "done" /\ call'[c].outcome = "done" =>
       /\ call[c].document = page.document
       /\ call[c].kind = "list" /\ switches = 0 => call[c].tools = ctl.tools]_webMcpVars
=============================================================================
