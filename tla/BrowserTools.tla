---------------------------- MODULE BrowserTools ----------------------------
(***************************************************************************)
(* The element actions of the MCP tool session                             *)
(* (packages/mcp/src/index.ts): clicking, filling, dragging, choosing an   *)
(* option and batches of actions, issued by several agents' calls on one   *)
(* published target.                                                       *)
(*                                                                         *)
(* A call resolves its element, takes the target's exclusive lease, probes *)
(* that the element can be acted on, and then sends input events one after *)
(* the other.  Each of these is an await: the call's deadline or its       *)
(* caller may abort it at any of them, the target may be renewed under a   *)
(* new generation, the lease may end early, and a command may fail without *)
(* telling whether the page saw it.  Aborting answers the caller at once   *)
(* while the action goes on in the background until it notices.            *)
(*                                                                         *)
(* What an action sends is data: a sequence of legs, each of which takes a *)
(* lease of its own.  Reading commands (discovery, geometry, hit tests)    *)
(* change nothing in the page and are one step that succeeds or fails.     *)
(***************************************************************************)
EXTENDS Naturals, FiniteSets, Sequences, Functions

CONSTANTS Calls,          \* the tool calls
          Kinds,          \* the tools they may be calls of
          MaxGenerations, \* how often the target is renewed
          MaxAttempts,    \* how often a call resolves its element
          MaxDrops,       \* how many leases end before they are released
          None

ASSUME ToolAssumption ==
  /\ None \notin Calls
  /\ Kinds \subseteq {"click", "fill", "drag", "select", "batch", "click_at", "drag_at", "scroll_at"}
  /\ MaxGenerations \in Nat /\ MaxAttempts \in Nat /\ MaxDrops \in Nat

-----------------------------------------------------------------------------
(* What each tool sends.  A leg that is not "probed" skips the readiness   *)
(* probes, one that is not "wrapped" reports its errors as they come, and  *)
(* one that is "verified" reads back what the page made of it.             *)

ClickLeg == [probed |-> TRUE, wrapped |-> TRUE, verified |-> FALSE,
             inputs |-> <<"move", "press", "release">>]

\* Fill focuses, deletes everything with two keys and inserts the text.  One key
\* stands for both: selecting everything twice does no harm.
FillLeg == [probed |-> TRUE, wrapped |-> TRUE, verified |-> TRUE,
            inputs |-> <<"focus", "press", "release", "text">>]

\* The points of a drag are found before its lease is taken.
DragLeg == [probed |-> FALSE, wrapped |-> TRUE, verified |-> FALSE,
            inputs |-> <<"press", "move", "release">>]

\* select_option: focus the element, insert the label, press Enter; each under
\* a lease of its own.
SelectLegs ==
  LET Part(careful, inputs) == [probed |-> careful, wrapped |-> careful, verified |-> FALSE,
                                inputs |-> inputs]
  IN  << Part(TRUE, <<"focus">>), Part(FALSE, <<"text">>),
         Part(TRUE, <<"focus", "press", "release">>) >>

\* The tools that act at a point of the viewport probe nothing and report their
\* errors as they come: a click, a drag, a scroll in two parts.
AtLeg(inputs) == [probed |-> FALSE, wrapped |-> FALSE, verified |-> FALSE, inputs |-> inputs]
ClickAtLeg == AtLeg(<<"move", "press", "release">>)
DragAtLeg == AtLeg(<<"move", "press", "move", "release">>)
ScrollAtLeg == AtLeg(<<"wheel", "wheel">>)

\* The actions of a call in order, each a sequence of legs.
Steps(kind) ==
  CASE kind = "click"  -> << <<ClickLeg>> >>
    [] kind = "fill"   -> << <<FillLeg>> >>
    [] kind = "drag"   -> << <<DragLeg>> >>
    [] kind = "select" -> << SelectLegs >>
    [] kind = "batch"  -> << <<ClickLeg>>, <<ClickLeg>> >>
    [] kind = "click_at"  -> << <<ClickAtLeg>> >>
    [] kind = "drag_at"   -> << <<DragAtLeg>> >>
    [] kind = "scroll_at" -> << <<ScrollAtLeg>> >>

-----------------------------------------------------------------------------
VARIABLES
  call,        \* per call: where it is and what it knows
  lease,       \* the call that holds the target's exclusive lease
  generation,  \* the target's generation
  flights,     \* the commands on their way to the page, in order
  reached,     \* per call: the inputs the page has seen, in order
  button,      \* the call whose press the page still holds
  drops

vars == <<call, lease, generation, flights, reached, button, drops>>

Outcomes == {"none", "done", "failed", "unknown", "unverified"}
Places == {"idle", "resolving", "acquiring", "probing", "ready", "sent",
           "verifying", "cleanup", "releasing", "over"}

Position == [step : 1..2, leg : 1..3, input : 0..4]

Start == [step |-> 1, leg |-> 1, input |-> 1]

TypeOK ==
  /\ call \in [Calls ->
       [kind : Kinds, at : Places, next : Position, generation : 0..MaxGenerations,
        attempts : 0..MaxAttempts, dispatched : BOOLEAN, aborted : BOOLEAN,
        pressed : BOOLEAN, held : BOOLEAN, spoiled : BOOLEAN, error : Outcomes,
        outcome : Outcomes]]
  /\ lease \in Calls \cup {None}
  /\ generation \in 0..MaxGenerations
  /\ \A i \in DOMAIN flights : flights[i] \in [call : Calls, at : Position]
  /\ \A c \in Calls : \A i \in DOMAIN reached[c] : reached[c][i] \in Position
  /\ button \in Calls \cup {None}
  /\ drops \in 0..MaxDrops
  \* a call is at an input its tool sends, and has its last input and the
  \* release of its button under way at most
  /\ \A c \in Calls :
       LET steps == Steps(call[c].kind) next == call[c].next
       IN  /\ next.step \in DOMAIN steps /\ next.leg \in DOMAIN steps[next.step]
           /\ next.input \in DOMAIN steps[next.step][next.leg].inputs
           /\ Cardinality({i \in DOMAIN flights : flights[i].call = c}) <= 2

Init ==
  /\ call \in [Calls ->
       [kind : Kinds, at : {"idle"}, next : {Start}, generation : {0}, attempts : {0},
        dispatched : {FALSE}, aborted : {FALSE}, pressed : {FALSE}, held : {FALSE},
        spoiled : {FALSE}, error : {"none"}, outcome : {"none"}]]
  /\ lease = None /\ generation = 0 /\ flights = <<>>
  /\ reached = [c \in Calls |-> <<>>]
  /\ button = None /\ drops = 0

Batched(c) == call[c].kind = "batch"
Pointed(c) == call[c].kind \in {"click_at", "drag_at", "scroll_at"}
Leg(c) == Steps(call[c].kind)[call[c].next.step][call[c].next.leg]

\* The first answer a caller gets is the one it keeps.
Told(k, answer) == [k EXCEPT !.outcome = IF @ = "none" THEN answer ELSE @]

Current(c) == lease = c /\ call[c].generation = generation

page == <<flights, reached, button>>

-----------------------------------------------------------------------------
(* A call begins, finds its element and takes its lease.                   *)

Invoke(c) ==
  /\ call[c].at = "idle"
  /\ call' = [call EXCEPT ![c].at = "resolving"]
  /\ UNCHANGED <<lease, generation, page, drops>>

\* The deadline passes, the caller cancels or its connection closes: the caller
\* is answered at once.  A batch aborts the step it is in.  A tool that acts at a
\* point has no deadline, and answers when it has noticed.
Abort(c) ==
  /\ call[c].at \notin {"idle", "over"} /\ ~call[c].aborted /\ call[c].outcome = "none"
  /\ call' = [call EXCEPT ![c] =
       IF Pointed(c) THEN [@ EXCEPT !.aborted = TRUE]
       ELSE Told([@ EXCEPT !.aborted = TRUE], IF @.dispatched THEN "unknown" ELSE "failed")]
  /\ UNCHANGED <<lease, generation, page, drops>>

\* The target is listed and the element found.  The steps of a batch use the
\* lease it took, and stop when the target was renewed since.
Leased(c) == Batched(c) /\ (call[c].next.step > 1 \/ call[c].attempts > 0)

Resolved(c) ==
  /\ call[c].at = "resolving" /\ ~call[c].aborted /\ call[c].attempts < MaxAttempts
  /\ Leased(c) => call[c].generation = generation
  /\ call' = [call EXCEPT ![c].at = IF Leased(c) THEN "probing" ELSE "acquiring",
                          ![c].generation = generation, ![c].attempts = @ + 1]
  /\ UNCHANGED <<lease, generation, page, drops>>

\* No element is found, the target is gone, or the call was aborted meanwhile.
Unresolved(c) ==
  /\ call[c].at = "resolving"
  /\ call' = [call EXCEPT ![c].at = "releasing", ![c].error = "failed"]
  /\ UNCHANGED <<lease, generation, page, drops>>

\* An aborted call returns a lease that arrives late without using it.
AfterLeaseOver(c) == IF call[c].aborted THEN "over"
                    ELSE IF Leg(c).probed THEN "probing" ELSE "ready"
AfterLease(c) == IF call[c].aborted THEN "releasing"
                 ELSE IF Leg(c).probed THEN "probing" ELSE "ready"

Acquired(c) ==
  /\ call[c].at = "acquiring" /\ lease = None /\ call[c].generation = generation
  /\ lease' = c
  /\ call' = [call EXCEPT ![c].at = AfterLease(c)]
  /\ UNCHANGED <<generation, page, drops>>

\* The lease is refused (held by another, target renewed or gone, access
\* revoked): the error is reported as it is, unless the call may start again.
Restarted(k) == [k EXCEPT !.at = "resolving", !.next.leg = 1, !.next.input = 1]

RetriesDispatched(c, retryable) ==
  /\ retryable /\ ~call[c].aborted
  /\ call[c].attempts < MaxAttempts

Retries(c, retryable) ==
  /\ retryable /\ ~call[c].dispatched /\ ~call[c].aborted
  /\ call[c].attempts < MaxAttempts

Refused(c) ==
  /\ call[c].at = "acquiring"
  /\ \E retryable \in BOOLEAN :
       call' = [call EXCEPT ![c] =
         IF Retries(c, retryable) /\ ~Batched(c) /\ ~Pointed(c) THEN Restarted(@)
         ELSE [@ EXCEPT !.at = "releasing", !.error = "failed"]]
  /\ UNCHANGED <<lease, generation, page, drops>>

\* The element is there, visible, stable, enabled and hit.
Probed(c) ==
  /\ call[c].at = "probing" /\ Current(c) /\ ~call[c].aborted
  /\ call' = [call EXCEPT ![c].at = "ready"]
  /\ UNCHANGED <<lease, generation, page, drops>>

\* The element is not ready, was replaced, or the probe failed: the leg ends,
\* its lease is returned, and the call starts again if it may.
Unready(c) ==
  /\ call[c].at = "probing"
  /\ \E retryable \in BOOLEAN :
       call' = [call EXCEPT ![c] =
         [@ EXCEPT !.at = "releasing",
                   !.error = IF Retries(c, retryable) THEN "none" ELSE "failed"]]
  /\ UNCHANGED <<lease, generation, page, drops>>

-----------------------------------------------------------------------------
(* Input.                                                                  *)

\* The error of a leg's input: a wrapped leg says that its outcome is unknown.
InputError(c) == IF Leg(c).wrapped THEN "unknown" ELSE "failed"

\* A failed input ends the leg; a button the action knows to be pressed is let
\* go first, by a command that does not ask whether the call was aborted.
UncertainAndLeft(c) ==
  [call[c] EXCEPT !.at = IF call[c].pressed /\ ~call[c].aborted THEN "cleanup" ELSE "releasing",
                  !.error = InputError(c)]

Uncertain(c) ==
  [call[c] EXCEPT !.at = IF call[c].pressed THEN "cleanup" ELSE "releasing",
                  !.error = InputError(c)]

\* The next input is sent, unless the call was aborted or its lease is gone.
SendableAnyway(c) == TRUE
Sendable(c) == ~call[c].aborted

Send(c) ==
  /\ call[c].at = "ready"
  /\ IF Sendable(c)
     THEN /\ call' = [call EXCEPT ![c] =
               IF Current(c) THEN [@ EXCEPT !.at = "sent", !.dispatched = TRUE]
               ELSE [Uncertain(c) EXCEPT !.dispatched = TRUE]]
          /\ flights' = IF Current(c) THEN Append(flights, [call |-> c, at |-> call[c].next])
                                      ELSE flights
     ELSE /\ call' = [call EXCEPT ![c] = Uncertain(c)]
          /\ UNCHANGED flights
  /\ UNCHANGED <<lease, generation, reached, button, drops>>

\* The page performs the oldest command it was sent, or never gets it.
Held(f) ==
  LET what == IF f.at.input = 0 THEN "release"
              ELSE Steps(call[f.call].kind)[f.at.step][f.at.leg].inputs[f.at.input]
  IN  IF what = "press" THEN f.call ELSE IF what = "release" THEN None ELSE button

Perform ==
  /\ flights # <<>>
  /\ flights' = Tail(flights)
  /\ reached' = [reached EXCEPT ![Head(flights).call] = Append(@, Head(flights).at)]
  /\ button' = Held(Head(flights))
  /\ UNCHANGED <<call, lease, generation, drops>>

Lose ==
  /\ flights # <<>>
  /\ flights' = Tail(flights)
  /\ UNCHANGED <<call, lease, generation, reached, button, drops>>

Saw(c, position) == position \in Range(reached[c])

\* The input after this one: of the same leg, or the leg is done.
Advanced(k, leg) ==
  LET what == leg.inputs[k.next.input]
      pressed == IF what = "press" THEN TRUE ELSE IF what = "release" THEN FALSE ELSE k.pressed
      told == [k EXCEPT !.pressed = pressed, !.held = pressed]
  IN  IF k.next.input < Len(leg.inputs)
      THEN [told EXCEPT !.at = "ready", !.next.input = @ + 1]
      ELSE [told EXCEPT !.at = IF leg.verified THEN "verifying" ELSE "releasing", !.error = "done"]

\* The answer of a performed input; the tracked client gives it to an aborted
\* action as a failure.
InputAnswered(c) ==
  /\ call[c].at = "sent" /\ Saw(c, call[c].next)
  /\ call' = [call EXCEPT ![c] = IF @.aborted THEN Uncertain(c) ELSE Advanced(@, Leg(c))]
  /\ UNCHANGED <<lease, generation, page, drops>>

\* The command fails or is cancelled; the page may have seen it, or see it yet.
InputFails(c) ==
  /\ call[c].at = "sent"
  /\ call' = [call EXCEPT ![c] = Uncertain(c)]
  /\ UNCHANGED <<lease, generation, page, drops>>

\* What a fill wrote is read back: as it should be, or not, or not to be read.
Verified(c) ==
  /\ call[c].at = "verifying"
  /\ \/ /\ ~call[c].aborted /\ Current(c)
        /\ \E error \in {"done", "unverified"} :
             call' = [call EXCEPT ![c].at = "releasing", ![c].error = error]
     \/ call' = [call EXCEPT ![c] = Uncertain(c)]
  /\ UNCHANGED <<lease, generation, page, drops>>

\* The command that lets the button go: sent when the lease still allows it.
Letting(c) == [call[c].next EXCEPT !.input = 0]
Underway(c, position) == \E i \in DOMAIN flights : flights[i] = [call |-> c, at |-> position]

Cleanup(c) ==
  /\ call[c].at = "cleanup" /\ Current(c)
  /\ ~Underway(c, Letting(c)) /\ ~Saw(c, Letting(c))
  /\ flights' = Append(flights, [call |-> c, at |-> Letting(c)])
  /\ UNCHANGED <<call, lease, generation, reached, button, drops>>

CleanupAnswered(c) ==
  /\ call[c].at = "cleanup" /\ Saw(c, Letting(c))
  /\ call' = [call EXCEPT ![c].at = "releasing", ![c].pressed = FALSE]
  /\ UNCHANGED <<lease, generation, page, drops>>

\* It is refused, or fails; nothing is tried after it.
CleanupFails(c) ==
  /\ call[c].at = "cleanup"
  /\ call' = [call EXCEPT ![c].at = "releasing", ![c].spoiled = TRUE]
  /\ UNCHANGED <<lease, generation, page, drops>>

-----------------------------------------------------------------------------
(* A leg is over.                                                          *)

\* What follows: the next leg, the next step of a batch, another attempt, or
\* the end.
Following(k) ==
  LET steps == Steps(k.kind)
  IN  IF k.error = "done" /\ k.next.leg < Len(steps[k.next.step])
      THEN [k EXCEPT !.at = "acquiring", !.error = "none",
                     !.next = [step |-> @.step, leg |-> @.leg + 1, input |-> 1]]
      ELSE IF k.error = "done" /\ k.next.step < Len(steps) /\ ~k.aborted
      THEN [k EXCEPT !.at = "resolving", !.error = "none", !.dispatched = FALSE,
                     !.attempts = 0, !.next = [step |-> @.step + 1, leg |-> 1, input |-> 1]]
      ELSE IF k.error = "none" /\ ~k.aborted THEN Restarted(k)
      ELSE Told([k EXCEPT !.at = "over"], IF k.error = "none" THEN "failed" ELSE k.error)

\* The lease of the leg is returned, whatever its end was; releasing a lease
\* that is gone fails and is ignored.  A batch keeps its lease to its own end.
KeepsLease(c) == Batched(c) /\ Following(call[c]).at # "over"

Release(c) ==
  /\ call[c].at = "releasing"
  /\ lease' = IF lease = c /\ ~KeepsLease(c) THEN None ELSE lease
  /\ call' = [call EXCEPT ![c] = Following(@)]
  /\ UNCHANGED <<generation, page, drops>>

\* A batch that was aborted returns its lease at once, while the step it was in
\* goes on.
BatchReturns(c) ==
  /\ Batched(c) /\ call[c].aborted /\ lease = c /\ call[c].at \notin {"acquiring", "over"}
  /\ lease' = None
  /\ UNCHANGED <<call, generation, page, drops>>

-----------------------------------------------------------------------------
(* What happens to the target meanwhile.                                   *)

\* The tab is published again: its leases end and its commands are fenced.
Renew ==
  /\ generation < MaxGenerations
  /\ generation' = generation + 1 /\ lease' = None
  /\ UNCHANGED <<call, page, drops>>

\* The lease ends early: it expires, the session's connection is replaced or
\* closes, or access is revoked.
DropLease ==
  /\ lease # None /\ drops < MaxDrops
  /\ drops' = drops + 1 /\ lease' = None
  /\ UNCHANGED <<call, generation, page>>

Next ==
  \/ \E c \in Calls :
       \/ Invoke(c) \/ Abort(c) \/ Resolved(c) \/ Unresolved(c) \/ Acquired(c) \/ Refused(c)
       \/ Probed(c) \/ Unready(c) \/ Send(c) \/ InputAnswered(c) \/ InputFails(c) \/ Verified(c)
       \/ Cleanup(c) \/ CleanupAnswered(c) \/ CleanupFails(c) \/ Release(c) \/ BatchReturns(c)
  \/ Perform \/ Lose \/ Renew \/ DropLease

Spec == Init /\ [][Next]_vars

-----------------------------------------------------------------------------
(* What is promised.                                                       *)

\* No input event is repeated, and a tool's inputs reach the page in the order
\* it sends them, whatever is retried, aborted or lost in between
\* (executeWithRenewedLocatorRetry may start an action again only as long as it
\* has dispatched nothing).
Before(p, q) == \/ p.step < q.step
                \/ p.step = q.step /\ p.leg < q.leg
                \/ p.step = q.step /\ p.leg = q.leg /\ p.input < q.input

NeverReplayed ==
  \A c \in Calls : \A i, j \in DOMAIN reached[c] :
    i < j /\ reached[c][j].input # 0 => Before(reached[c][i], reached[c][j])

\* A call that is answered with an error other than that its outcome is unknown,
\* or was not the one requested, has done nothing to the page in the step that
\* failed, and its background work will never do anything either.  (A tool that
\* acts at a point is not promised this, nor is a selection: see
\* UncertainSelectionSaid.)
Untouched(c) ==
  /\ \A p \in Range(reached[c]) : p.step < call[c].next.step
  /\ \A i \in DOMAIN flights :
       flights[i].call = c => flights[i].at.step < call[c].next.step

RetryableIsUntouched ==
  \A c \in Calls : call[c].kind # "select" /\ ~Pointed(c) /\ call[c].outcome = "failed" => Untouched(c)

\* The same of a selection.
UncertainSelectionSaid ==
  \A c \in Calls : call[c].kind = "select" /\ call[c].outcome = "failed" => Untouched(c)

\* An action that is over has let go of the button or key whose press it was
\* told of, however it ended, unless the command that lets it go failed.  (A
\* batch gives its lease back before the step it aborted can let go.)
ButtonLetGo ==
  \A c \in Calls :
    call[c].at = "over" /\ ~Batched(c) /\ call[c].held /\ ~call[c].spoiled => button # c

\* A call that is over holds no lease: not one that arrived after it was
\* aborted, nor one taken by an attempt it gave up.
LeaseReturned == \A c \in Calls : call[c].at = "over" => lease # c

=============================================================================
