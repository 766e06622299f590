-------------------------- MODULE ExtensionProofs ---------------------------
(* What is proved about the machines of the extension, in this order:      *)
(* WebMcp, TabSessions (children, then demands) and ChromeProvider (scopes, *)
(* then the debugger and what the broker serves).  Each part begins with    *)
(* its inductive invariant, has one lemma per group of steps and ends in    *)
(* its theorems.                                                           *)
EXTENDS MCExtension, FiniteSetTheorems, SequenceTheorems, TLAPS

-----------------------------------------------------------------------------
(* WebMCP: the types the proofs need                                       *)

Shown == [document : Nat, tools : SUBSET Names, listening : BOOLEAN]

Controller ==
    [document : Nat, enabled : BOOLEAN, closed : BOOLEAN, tools : SUBSET Names, oversized : BOOLEAN,
     known : SUBSET Names, issue : [Names -> Nat], revision : Nat, early : SUBSET Calls, overflow : BOOLEAN]

Reference == [document : Nat, name : Names \cup {None}, issue : Nat]

Outcomes == {"none", "done", "failed", "unknown"}

ToolCall ==
    [kind : {"list", "invoke"},
     at : {"idle", "queued", "policy", "verifying", "dispatched", "pending", "checking", "over"},
     document : Nat, tools : SUBSET Names, revision : Nat, aborted : BOOLEAN, reference : Reference,
     outcome : Outcomes]

Invocation ==
    [is : {"none", "sent", "running", "responded", "failed", "gone"}, acknowledged : BOOLEAN, cancelled : BOOLEAN]

QueuedOperation ==
    [does : {"prepare", "on", "off", "dispose"}, for : Calls \cup {None},
     phase : {"read", "disabling", "enabling"}, document : Nat]

ToolTypes ==
    /\ document \in Shown /\ ctl \in Controller /\ call \in [Calls -> ToolCall]
    /\ native \in [Calls -> Invocation] /\ queue \in Seq(QueuedOperation)
    /\ handed \subseteq Reference /\ switches \in Nat

(* Names are finite, in the words of the instance                          *)
LEMMA NamesAreFinite == IsFiniteSet(Names)
BY MachinesAssumption DEF W!WebMcpAssumption, W!IsFiniteSet, IsFiniteSet

LEMMA SameCardinality == \A S : W!Cardinality(S) = Cardinality(S)
BY DEF W!Cardinality, Cardinality

(* Operators of the controller, field by field                             *)

LEMMA InvalidatedIs ==
    ASSUME NEW s \in Controller
    PROVE  /\ W!Invalidated(s) \in Controller
           /\ W!Invalidated(s).document = 0 /\ W!Invalidated(s).tools = {} /\ W!Invalidated(s).early = {}
           /\ W!Invalidated(s).revision = s.revision + 1
           /\ W!Invalidated(s).closed = s.closed /\ W!Invalidated(s).enabled = s.enabled
<1>1. [n \in Names |-> s.issue[n] + 1] \in [Names -> Nat]
    BY DEF Controller
<1>2. PICK issue \in [Names -> Nat] : issue = [n \in Names |-> s.issue[n] + 1]
    BY <1>1
<1>6. s.revision + 1 \in Nat
    BY DEF Controller
<1>3. PICK t : t = [s EXCEPT !.document = 0, !.revision = @ + 1, !.early = {}, !.overflow = FALSE,
            !.tools = {}, !.known = {}, !.oversized = FALSE, !.issue = issue]
    OBVIOUS
<1>4. W!Invalidated(s) = t
    BY <1>2, <1>3 DEF W!Invalidated
<1>5. /\ t \in Controller /\ t.document = 0 /\ t.tools = {} /\ t.early = {}
      /\ t.revision = s.revision + 1 /\ t.closed = s.closed /\ t.enabled = s.enabled
    BY <1>3, <1>6 DEF Controller
<1> QED
    BY <1>4, <1>5

LEMMA ForgottenIs ==
    ASSUME NEW s \in Controller, NEW names \in SUBSET Names
    PROVE  /\ W!Forgotten(s, names) \in Controller
           /\ W!Forgotten(s, names).document = s.document /\ W!Forgotten(s, names).tools = s.tools
           /\ W!Forgotten(s, names).early = s.early /\ W!Forgotten(s, names).revision = s.revision
           /\ W!Forgotten(s, names).closed = s.closed /\ W!Forgotten(s, names).enabled = s.enabled
<1>1. [n \in Names |-> IF n \in names THEN s.issue[n] + 1 ELSE s.issue[n]] \in [Names -> Nat]
    BY DEF Controller
<1> QED
    BY <1>1 DEF Controller, W!Forgotten

(* Adding tools makes a new revision of the catalogue.                     *)
LEMMA CatalogueIs ==
    ASSUME NEW s \in Controller, NEW added \in SUBSET Names
    PROVE  /\ W!Catalogue(s, added) \in Controller
           /\ W!Catalogue(s, added).document = s.document /\ W!Catalogue(s, added).early = s.early
           /\ W!Catalogue(s, added).closed = s.closed /\ W!Catalogue(s, added).enabled = s.enabled
           /\ s.revision <= W!Catalogue(s, added).revision
           /\ added # {} => s.revision < W!Catalogue(s, added).revision
           /\ added = {} /\ s.tools = {} => W!Catalogue(s, added).tools = s.tools
<1>1. IsFiniteSet(added)
    BY NamesAreFinite, FS_Subset
<1>2. Cardinality(added) \in Nat /\ (added # {} => Cardinality(added) > 0)
    BY <1>1, FS_CardinalityType, FS_EmptySet
<1>3. PICK n \in Nat : n = Cardinality(added)
    BY <1>2
<1>4. s.revision \in Nat /\ s.tools \in SUBSET Names
    BY DEF Controller
<1>5. s.revision + n \in Nat /\ s.revision <= s.revision + n /\ (n > 0 => s.revision < s.revision + n)
    BY <1>3, <1>4
<1>6. PICK fits \in BOOLEAN : fits <=> W!Cardinality(s.tools \cup added) <= MaxTools
    OBVIOUS
<1>7. PICK tools \in SUBSET Names : tools = (IF fits THEN s.tools \cup added ELSE {})
    BY <1>4
<1>8. PICK over : over = (s.oversized \/ ~(W!Cardinality(s.tools \cup added) <= MaxTools))
    OBVIOUS
<1>9. over \in BOOLEAN
    BY <1>8
<1>10. PICK t : t = [s EXCEPT !.tools = tools, !.oversized = over, !.revision = @ + n]
    OBVIOUS
<1>12. W!Catalogue(s, added) = t
    BY <1>3, <1>6, <1>7, <1>8, <1>10, SameCardinality DEF W!Catalogue
<1>11. /\ t \in Controller /\ t.document = s.document /\ t.early = s.early
       /\ t.closed = s.closed /\ t.enabled = s.enabled
       /\ t.revision = s.revision + n /\ t.tools = tools
    BY <1>5, <1>9, <1>10 DEF Controller
<1> QED
    BY <1>2, <1>3, <1>5, <1>7, <1>11, <1>12

LEMMA EndedIs ==
    ASSUME NEW k \in ToolCall, NEW outcome \in Outcomes
    PROVE  /\ W!Ended(k, outcome) \in ToolCall
           /\ W!Ended(k, outcome).at = "over" /\ W!Ended(k, outcome).outcome = outcome
           /\ W!Ended(k, outcome).kind = k.kind /\ W!Ended(k, outcome).aborted = k.aborted
BY DEF ToolCall, W!Ended

LEMMA InterruptedIs ==
    ASSUME NEW k \in [Calls -> ToolCall], NEW c \in Calls
    PROVE  /\ W!Interrupted(k) \in [Calls -> ToolCall]
           /\ k[c].at = "pending" => W!Interrupted(k)[c] = W!Ended(k[c], "unknown")
           /\ k[c].at # "pending" => W!Interrupted(k)[c] = k[c]
<1>1. \A d \in Calls : W!Ended(k[d], "unknown") \in ToolCall
    BY EndedIs DEF Outcomes
<1> QED
    BY <1>1 DEF W!Interrupted

LEMMA CancellingIs ==
    ASSUME NEW k \in [Calls -> ToolCall], NEW v \in [Calls -> Invocation], NEW c \in Calls
    PROVE  /\ W!Cancelling(v, k) \in [Calls -> Invocation]
           /\ W!Cancelling(v, k)[c].is = v[c].is /\ W!Cancelling(v, k)[c].acknowledged = v[c].acknowledged
           /\ W!Cancelling(v, k)[c].cancelled <=> v[c].cancelled \/ k[c].at = "pending"
<1>1. \A d \in Calls : /\ [v[d] EXCEPT !.cancelled = @ \/ k[d].at = "pending"] \in Invocation
                       /\ [v[d] EXCEPT !.cancelled = @ \/ k[d].at = "pending"].is = v[d].is
                       /\ [v[d] EXCEPT !.cancelled = @ \/ k[d].at = "pending"].acknowledged = v[d].acknowledged
                       /\ [v[d] EXCEPT !.cancelled = @ \/ k[d].at = "pending"].cancelled
                            = (v[d].cancelled \/ k[d].at = "pending")
    BY DEF Invocation
<1> QED
    BY <1>1 DEF W!Cancelling
-----------------------------------------------------------------------------
(* WebMCP: the inductive invariant                                         *)

(* What a call knows of its invocation.  One that is over before its       *)
(* identifier arrived will be found unwanted then.                         *)
InvocationOK(c, k, v, s) ==
    /\ k.at \in {"idle", "queued", "policy", "verifying"} => v.is = "none"
    /\ v.is \in {"none", "sent"} \/ k.at = "dispatched" => ~v.acknowledged
    /\ k.at \in {"pending", "checking"} => v.acknowledged
    /\ c \in s.early \/ k.at = "checking" => v.is \in {"responded", "failed"}
    /\ k.at \in {"dispatched", "pending", "checking"} => k.kind = "invoke"
    /\ k.at = "over" /\ v.is \in {"sent", "running"} =>
          IF v.acknowledged THEN v.cancelled ELSE s.closed \/ k.aborted

(* A list has the catalogue of its revision.                               *)
ListOK(k, s, switched) ==
    k.kind = "list" /\ k.at \in {"policy", "verifying"} /\ ~s.closed =>
        /\ k.revision <= s.revision
        /\ switched = 0 /\ k.revision = s.revision => k.tools = s.tools

(* Only the first operation has begun; where it is tells what of the       *)
(* catalogue there is.                                                     *)
OperationOK(o, first, s, switched) ==
    /\ o.does \in {"on", "off"} => switched > 0
    /\ o.does = "dispose" => s.closed
    /\ o.phase = "enabling" => ~s.enabled
    /\ o.phase = "disabling" /\ ~s.closed => s.document = 0 /\ s.tools = {}
    /\ ~first => o.phase = "read"

QueueOK(q, s, switched) == \A i \in 1 .. Len(q) : OperationOK(q[i], i = 1, s, switched)

CatalogueOK(shown, q, s, switched) ==
    /\ shown.listening <=> s.enabled
    /\ switched = 0 /\ ~s.closed /\ ~s.enabled => s.tools = {}
    /\ QueueOK(q, s, switched)

CallOK(c) == /\ InvocationOK(c, call[c], native[c], ctl)
             /\ ListOK(call[c], ctl, switches)

ToolInv == ToolTypes /\ CatalogueOK(document, queue, ctl, switches) /\ \A c \in Calls : CallOK(c)

(* How the controller changes under the lists that are under way, ...      *)
Moves(s, t, switched) ==
    /\ s.revision <= t.revision /\ (s.closed => t.closed)
    /\ switched = 0 /\ ~t.closed /\ t.revision = s.revision => t.tools = s.tools

(* and under the operations.                                               *)
Calmer(s, t) ==
    /\ s.closed => t.closed
    /\ t.enabled => s.enabled
    /\ ~t.closed /\ s.document = 0 /\ s.tools = {} => t.document = 0 /\ t.tools = {}

LEMMA QueueKept ==
    ASSUME NEW q \in Seq(QueuedOperation), NEW s, NEW t, NEW sw \in Nat, NEW sw2 \in Nat, sw <= sw2,
           QueueOK(q, s, sw), Calmer(s, t)
    PROVE  QueueOK(q, t, sw2)
BY DEF QueueOK, OperationOK, Calmer

LEMMA QueueTail ==
    ASSUME NEW q \in Seq(QueuedOperation), q # <<>>, NEW s, NEW t, NEW sw \in Nat, NEW sw2 \in Nat, sw <= sw2,
           QueueOK(q, s, sw), s.closed => t.closed
    PROVE  Tail(q) \in Seq(QueuedOperation) /\ QueueOK(Tail(q), t, sw2)
<1>1. Tail(q) \in Seq(QueuedOperation) /\ Len(Tail(q)) = Len(q) - 1 /\ Len(q) \in Nat
    OBVIOUS
<1>2. ASSUME NEW i \in 1 .. Len(Tail(q)) PROVE OperationOK(Tail(q)[i], i = 1, t, sw2)
    <2>1. Tail(q)[i] = q[i + 1] /\ i + 1 \in 1 .. Len(q) /\ i + 1 # 1
        BY <1>1
    <2>2. OperationOK(q[i + 1], FALSE, s, sw)
        BY <2>1 DEF QueueOK, OperationOK
    <2>3. q[i + 1].phase = "read"
        BY <2>2 DEF OperationOK
    <2> QED
        BY <2>1, <2>2, <2>3 DEF OperationOK
<1> QED
    BY <1>1, <1>2 DEF QueueOK

LEMMA QueueGrows ==
    ASSUME NEW q \in Seq(QueuedOperation), NEW s, NEW t, NEW sw \in Nat, NEW sw2 \in Nat, sw <= sw2,
           QueueOK(q, s, sw), Calmer(s, t), NEW o \in QueuedOperation, o.phase = "read",
           o.does \in {"on", "off"} => sw2 > 0, o.does = "dispose" => t.closed
    PROVE  Append(q, o) \in Seq(QueuedOperation) /\ QueueOK(Append(q, o), t, sw2)
<1>1. Append(q, o) \in Seq(QueuedOperation) /\ Len(Append(q, o)) = Len(q) + 1 /\ Len(q) \in Nat
    OBVIOUS
<1>2. QueueOK(q, t, sw2)
    BY QueueKept
<1>3. ASSUME NEW i \in 1 .. Len(Append(q, o)) PROVE OperationOK(Append(q, o)[i], i = 1, t, sw2)
    <2>1. CASE i = Len(q) + 1
        <3>1. Append(q, o)[i] = o
            BY <2>1
        <3> QED
            BY <3>1 DEF OperationOK
    <2>2. CASE i # Len(q) + 1
        <3>1. i \in 1 .. Len(q)
            BY <1>1, <2>2
        <3>2. Append(q, o)[i] = q[i]
            BY <3>1
        <3> QED
            BY <1>2, <3>1, <3>2 DEF QueueOK
    <2> QED
        BY <2>1, <2>2
<1> QED
    BY <1>1, <1>3 DEF QueueOK

(* The first operation goes on to another phase.                           *)
LEMMA QueueHead ==
    ASSUME NEW q \in Seq(QueuedOperation), q # <<>>, NEW s, NEW t, NEW sw \in Nat,
           QueueOK(q, s, sw), s.closed => t.closed, NEW o \in QueuedOperation, o.does = q[1].does,
           o.phase = "enabling" => ~t.enabled,
           o.phase = "disabling" => t.closed \/ (t.document = 0 /\ t.tools = {})
    PROVE  [q EXCEPT ![1] = o] \in Seq(QueuedOperation) /\ QueueOK([q EXCEPT ![1] = o], t, sw)
<1>1. /\ [q EXCEPT ![1] = o] \in Seq(QueuedOperation) /\ Len([q EXCEPT ![1] = o]) = Len(q) /\ Len(q) \in Nat
      /\ Len(q) > 0
    OBVIOUS
<1>2. ASSUME NEW i \in 1 .. Len(q) PROVE OperationOK([q EXCEPT ![1] = o][i], i = 1, t, sw)
    <2>1. CASE i = 1
        <3>1. [q EXCEPT ![1] = o][i] = o /\ OperationOK(q[1], TRUE, s, sw)
            BY <1>1, <2>1 DEF QueueOK, OperationOK
        <3> QED
            BY <2>1, <3>1 DEF OperationOK
    <2>2. CASE i # 1
        <3>1. [q EXCEPT ![1] = o][i] = q[i] /\ OperationOK(q[i], FALSE, s, sw)
            BY <2>2 DEF QueueOK, OperationOK
        <3> QED
            BY <2>2, <3>1 DEF OperationOK
    <2> QED
        BY <2>1, <2>2
<1> QED
    BY <1>1, <1>2 DEF QueueOK

(* A call that the step leaves as it is, or interrupts                     *)
LEMMA CallStays ==
    ASSUME NEW k \in ToolCall, NEW v \in Invocation, NEW s \in Controller, NEW t \in Controller,
           NEW c, c \in t.early => c \in s.early,
           NEW sw \in Nat, NEW sw2 \in Nat, sw <= sw2,
           InvocationOK(c, k, v, s), ListOK(k, s, sw), Moves(s, t, sw2)
    PROVE  InvocationOK(c, k, v, t) /\ ListOK(k, t, sw2)
<1>1. s.revision \in Nat /\ t.revision \in Nat /\ k.revision \in Nat
    BY DEF Controller, ToolCall
<1>2. ListOK(k, t, sw2)
    BY <1>1 DEF ListOK, Moves
<1>3. InvocationOK(c, k, v, t)
    BY DEF InvocationOK, Moves
<1> QED
    BY <1>2, <1>3

LEMMA CallInterrupted ==
    ASSUME NEW k \in ToolCall, NEW v \in Invocation, NEW w \in Invocation,
           NEW s \in Controller, NEW t \in Controller,
           NEW c, c \in t.early => c \in s.early,
           NEW sw \in Nat, NEW sw2 \in Nat, sw <= sw2,
           InvocationOK(c, k, v, s), ListOK(k, s, sw), Moves(s, t, sw2),
           w.is = v.is, w.acknowledged = v.acknowledged, w.cancelled <=> v.cancelled \/ k.at = "pending",
           NEW next, next = (IF k.at = "pending" THEN W!Ended(k, "unknown") ELSE k)
    PROVE  InvocationOK(c, next, w, t) /\ ListOK(next, t, sw2)
<1>1. InvocationOK(c, k, v, t) /\ ListOK(k, t, sw2)
    BY CallStays
<1>2. CASE k.at = "pending"
    <2>1. next.at = "over" /\ next.kind = k.kind /\ next.aborted = k.aborted
        BY <1>2, EndedIs DEF Outcomes
    <2> QED
        BY <1>1, <1>2, <2>1 DEF InvocationOK, ListOK
<1>3. CASE k.at # "pending"
    BY <1>1, <1>3 DEF InvocationOK
<1> QED
    BY <1>2, <1>3
(* What a step answers is of the page that is shown.                       *)
AnswerOK(k, next) ==
    k.outcome # "done" /\ next.outcome = "done" =>
        /\ k.document = document.document
        /\ k.kind = "list" /\ switches = 0 => k.tools = ctl.tools

Answered == \A c \in Calls : AnswerOK(call[c], call'[c])

Stays(c) == call'[c] = call[c] /\ native'[c] = native[c]

IsInterrupted(c) ==
    /\ call'[c] = IF call[c].at = "pending" THEN W!Ended(call[c], "unknown") ELSE call[c]
    /\ native'[c].is = native[c].is /\ native'[c].acknowledged = native[c].acknowledged
    /\ native'[c].cancelled <=> native[c].cancelled \/ call[c].at = "pending"

Changes(c) ==
    /\ InvocationOK(c, call'[c], native'[c], ctl')
    /\ ListOK(call'[c], ctl', switches')
    /\ AnswerOK(call[c], call'[c])

(* A step changes some calls, leaves the others or interrupts them.        *)
LEMMA ToolStep ==
    ASSUME ToolInv, document' \in Shown, ctl' \in Controller, call' \in [Calls -> ToolCall],
           native' \in [Calls -> Invocation], queue' \in Seq(QueuedOperation), handed' \subseteq Reference,
           switches' \in Nat, switches <= switches', Moves(ctl, ctl', switches'),
           CatalogueOK(document', queue', ctl', switches'),
           \A c \in Calls : \/ Changes(c)
                            \/ (Stays(c) \/ IsInterrupted(c)) /\ (c \in ctl'.early => c \in ctl.early)
    PROVE  ToolInv' /\ Answered
<1>1. ASSUME NEW c \in Calls
      PROVE  /\ InvocationOK(c, call'[c], native'[c], ctl')
             /\ ListOK(call'[c], ctl', switches')
             /\ AnswerOK(call[c], call'[c])
    <2>1. /\ call[c] \in ToolCall /\ native[c] \in Invocation /\ native'[c] \in Invocation
          /\ ctl \in Controller /\ switches \in Nat
          /\ InvocationOK(c, call[c], native[c], ctl) /\ ListOK(call[c], ctl, switches)
        BY DEF ToolInv, ToolTypes, CallOK
    <2>2. CASE Changes(c)
        BY <2>2 DEF Changes
    <2>3. CASE Stays(c) /\ (c \in ctl'.early => c \in ctl.early)
        <3>1. /\ InvocationOK(c, call[c], native[c], ctl')
              /\ ListOK(call[c], ctl', switches')
            BY <2>1, <2>3, CallStays
        <3> QED
            BY <2>3, <3>1 DEF Stays, AnswerOK
    <2>4. CASE IsInterrupted(c) /\ (c \in ctl'.early => c \in ctl.early)
        <3>1. PICK next : next = (IF call[c].at = "pending" THEN W!Ended(call[c], "unknown") ELSE call[c])
            OBVIOUS
        <3>2. InvocationOK(c, next, native'[c], ctl') /\ ListOK(next, ctl', switches')
            BY SMTT(60), <2>1, <2>4, <3>1, CallInterrupted DEF IsInterrupted
        <3>3. next = call'[c] /\ (next.outcome = "done" => call[c].outcome = "done")
            BY <2>1, <2>4, <3>1, EndedIs DEF IsInterrupted, Outcomes
        <3> QED
            BY <3>2, <3>3 DEF AnswerOK
    <2> QED
        BY <2>2, <2>3, <2>4
<1>2. ToolTypes'
    BY DEF ToolTypes
<1>3. CatalogueOK(document, queue, ctl, switches)'
    BY DEF CatalogueOK, QueueOK, OperationOK
<1>4. \A c \in Calls : CallOK(c)'
    BY <1>1 DEF CallOK, InvocationOK, ListOK
<1> QED
    BY <1>1, <1>2, <1>3, <1>4 DEF ToolInv, Answered

(* Steps that leave the calls and what they invoked                        *)
LEMMA CallsStay ==
    ASSUME ToolInv, UNCHANGED <<call, native, handed>>, document' \in Shown, ctl' \in Controller,
           queue' \in Seq(QueuedOperation), switches' \in Nat, switches <= switches',
           Moves(ctl, ctl', switches'), ctl'.early \subseteq ctl.early,
           CatalogueOK(document', queue', ctl', switches')
    PROVE  ToolInv' /\ Answered
<1>1. \A c \in Calls : Stays(c) /\ (c \in ctl'.early => c \in ctl.early)
    BY DEF Stays
<1>2. call' \in [Calls -> ToolCall] /\ native' \in [Calls -> Invocation] /\ handed' \subseteq Reference
    BY DEF ToolInv, ToolTypes
<1> QED
    BY <1>1, <1>2, ToolStep

LEMMA CallsInterrupted ==
    ASSUME ToolInv, call' = W!Interrupted(call), native' = W!Cancelling(native, call), UNCHANGED handed,
           document' \in Shown, ctl' \in Controller,
           queue' \in Seq(QueuedOperation), switches' \in Nat, switches <= switches',
           Moves(ctl, ctl', switches'), ctl'.early \subseteq ctl.early,
           CatalogueOK(document', queue', ctl', switches')
    PROVE  ToolInv' /\ Answered
<1>1. \A c \in Calls : IsInterrupted(c) /\ (c \in ctl'.early => c \in ctl.early)
    BY InterruptedIs, CancellingIs DEF IsInterrupted, ToolInv, ToolTypes
<1>2. call' \in [Calls -> ToolCall] /\ native' \in [Calls -> Invocation] /\ handed' \subseteq Reference
    <2>1. CASE Calls = {}
        BY <2>1 DEF W!Interrupted, W!Cancelling, ToolInv, ToolTypes
    <2>2. CASE Calls # {}
        BY <2>2, InterruptedIs, CancellingIs DEF ToolInv, ToolTypes
    <2> QED
        BY <2>1, <2>2
<1> QED
    BY <1>1, <1>2, ToolStep

(* Steps of one call                                                       *)
LEMMA OneCall ==
    ASSUME ToolInv, NEW c \in Calls, NEW k \in ToolCall, NEW v \in Invocation,
           call' = [call EXCEPT ![c] = k], native' = [native EXCEPT ![c] = v],
           handed' \subseteq Reference, UNCHANGED <<document, switches>>, ctl' \in Controller,
           queue' \in Seq(QueuedOperation), Moves(ctl, ctl', switches'), ctl'.early \subseteq ctl.early \cup {c},
           CatalogueOK(document', queue', ctl', switches'),
           InvocationOK(c, k, v, ctl'), ListOK(k, ctl', switches'),
           AnswerOK(call[c], k)
    PROVE  ToolInv' /\ Answered
<1>1. call' \in [Calls -> ToolCall] /\ native' \in [Calls -> Invocation] /\ call'[c] = k /\ native'[c] = v
    BY DEF ToolInv, ToolTypes
<1>2. Changes(c)
    BY <1>1 DEF Changes
<1>3. \A d \in Calls \ {c} : Stays(d) /\ (d \in ctl'.early => d \in ctl.early)
    BY DEF Stays, ToolInv, ToolTypes
<1>4. switches' \in Nat /\ switches <= switches' /\ document' \in Shown
    BY DEF ToolInv, ToolTypes
<1> QED
    BY <1>1, <1>2, <1>3, <1>4, ToolStep
LEMMA ToolFacts ==
    ASSUME ToolInv
    PROVE  /\ document \in Shown /\ ctl \in Controller /\ call \in [Calls -> ToolCall]
           /\ native \in [Calls -> Invocation] /\ queue \in Seq(QueuedOperation)
           /\ handed \subseteq Reference /\ switches \in Nat
           /\ document.listening <=> ctl.enabled
           /\ switches = 0 /\ ~ctl.closed /\ ~ctl.enabled => ctl.tools = {}
           /\ QueueOK(queue, ctl, switches) /\ Moves(ctl, ctl, switches) /\ Calmer(ctl, ctl)
           /\ switches <= switches
<1>1. ctl.revision <= ctl.revision
    BY DEF ToolInv, ToolTypes, Controller
<1> QED
    BY <1>1 DEF ToolInv, ToolTypes, CatalogueOK, Moves, Calmer

-----------------------------------------------------------------------------
(* WebMCP: the steps of the document and of the queue                      *)

LEMMA NavigatedKeeps ==
    ASSUME ToolInv, W!Navigated PROVE ToolInv' /\ Answered
<1>1. UNCHANGED <<document, queue, handed, switches>>
    BY DEF W!Navigated
<1>2. CASE ~ctl.closed /\ ctl.document # told + 1
    <2>1. ctl' = W!Invalidated(ctl) /\ call' = W!Interrupted(call) /\ native' = W!Cancelling(native, call)
        BY <1>2 DEF W!Navigated
    <2>2. /\ ctl' \in Controller /\ ctl'.document = 0 /\ ctl'.tools = {} /\ ctl'.early = {}
          /\ ctl'.revision = ctl.revision + 1 /\ ctl'.closed = ctl.closed /\ ctl'.enabled = ctl.enabled
        BY <2>1, ToolFacts, InvalidatedIs
    <2>3. Moves(ctl, ctl', switches') /\ Calmer(ctl, ctl')
        BY <2>2, ToolFacts DEF Moves, Calmer, Controller
    <2>4. CatalogueOK(document', queue', ctl', switches')
        BY <1>1, <2>2, <2>3, ToolFacts, QueueKept DEF CatalogueOK
    <2> QED
        BY <1>1, <2>1, <2>2, <2>3, <2>4, ToolFacts, CallsInterrupted
<1>3. CASE ~(~ctl.closed /\ ctl.document # told + 1)
    <2>1. UNCHANGED <<ctl, call, native>>
        BY <1>3 DEF W!Navigated
    <2> QED
        BY <1>1, <2>1, ToolFacts, CallsStay DEF CatalogueOK
<1> QED
    BY <1>2, <1>3

LEMMA ToolAddedKeeps ==
    ASSUME ToolInv, NEW n \in Names, W!ToolAdded(n) PROVE ToolInv' /\ Answered
<1>1. UNCHANGED <<queue, call, native, handed, switches>>
    BY DEF W!ToolAdded
<1>2. document' \in Shown /\ document'.listening = document.listening
    BY ToolFacts DEF W!ToolAdded, Shown
<1>3. CASE document.listening /\ ~ctl.closed /\ ctl.document # 0
    <2>1. ctl' = W!Catalogue(ctl, {n})
        BY <1>3 DEF W!ToolAdded
    <2>2. /\ ctl' \in Controller /\ ctl'.document = ctl.document /\ ctl'.early = ctl.early
          /\ ctl.revision < ctl'.revision /\ ctl'.closed = ctl.closed /\ ctl'.enabled = ctl.enabled
        BY <2>1, ToolFacts, CatalogueIs
    <2>3. Moves(ctl, ctl', switches') /\ Calmer(ctl, ctl')
        BY <1>3, <2>2, ToolFacts DEF Moves, Calmer, Controller
    <2>4. CatalogueOK(document', queue', ctl', switches')
        BY <1>1, <1>2, <1>3, <2>2, <2>3, ToolFacts, QueueKept DEF CatalogueOK
    <2> QED
        BY <1>1, <1>2, <2>1, <2>2, <2>3, <2>4, ToolFacts, CallsStay
<1>4. CASE ~(document.listening /\ ~ctl.closed /\ ctl.document # 0)
    <2>1. UNCHANGED ctl
        BY <1>4 DEF W!ToolAdded
    <2> QED
        BY <1>1, <1>2, <2>1, ToolFacts, CallsStay DEF CatalogueOK
<1> QED
    BY <1>3, <1>4

LEMMA ToolRemovedKeeps ==
    ASSUME ToolInv, NEW n \in Names, W!ToolRemoved(n) PROVE ToolInv' /\ Answered
<1>1. UNCHANGED <<queue, call, native, handed, switches>>
    BY DEF W!ToolRemoved
<1>2. document' \in Shown /\ document'.listening = document.listening
    BY ToolFacts DEF W!ToolRemoved, Shown
<1>3. CASE document.listening /\ ~ctl.closed /\ ctl.document # 0
    <2>0. ctl.revision + 1 \in Nat /\ ctl.revision < ctl.revision + 1
        BY ToolFacts DEF Controller
    <2>1. PICK s : s = [ctl EXCEPT !.tools = @ \ {n}, !.revision = @ + 1]
        OBVIOUS
    <2>2. /\ s \in Controller /\ s.document = ctl.document /\ s.early = ctl.early
          /\ s.revision = ctl.revision + 1 /\ s.closed = ctl.closed /\ s.enabled = ctl.enabled
        BY <2>0, <2>1, ToolFacts DEF Controller
    <2>3. ctl' = W!Forgotten(s, {n})
        BY <1>3, <2>1 DEF W!ToolRemoved
    <2>4. /\ ctl' \in Controller /\ ctl'.document = ctl.document /\ ctl'.early = ctl.early
          /\ ctl.revision < ctl'.revision /\ ctl'.closed = ctl.closed /\ ctl'.enabled = ctl.enabled
        BY <2>0, <2>2, <2>3, ForgottenIs
    <2>5. Moves(ctl, ctl', switches') /\ Calmer(ctl, ctl')
        BY <1>3, <2>4, ToolFacts DEF Moves, Calmer, Controller
    <2>6. CatalogueOK(document', queue', ctl', switches')
        BY <1>1, <1>2, <1>3, <2>4, <2>5, ToolFacts, QueueKept DEF CatalogueOK
    <2> QED
        BY <1>1, <1>2, <2>4, <2>5, <2>6, ToolFacts, CallsStay
<1>4. CASE ~(document.listening /\ ~ctl.closed /\ ctl.document # 0)
    <2>1. UNCHANGED ctl
        BY <1>4 DEF W!ToolRemoved
    <2> QED
        BY <1>1, <1>2, <2>1, ToolFacts, CallsStay DEF CatalogueOK
<1> QED
    BY <1>3, <1>4

LEMMA NavigateKeeps ==
    ASSUME ToolInv, NEW tools \in SUBSET Names, W!Navigate(tools) PROVE ToolInv' /\ Answered
<1>1. UNCHANGED <<ctl, queue, call, handed, switches>>
    BY DEF W!Navigate
<1>2. document' \in Shown /\ document'.listening = document.listening
    <2>1. document.document + 1 \in Nat
        BY ToolFacts DEF Shown
    <2> QED
        BY <2>1, ToolFacts DEF W!Navigate, Shown
<1>3. ASSUME NEW c \in Calls
      PROVE  /\ native'[c] \in Invocation /\ native'[c].acknowledged = native[c].acknowledged
             /\ native'[c].is = (IF native[c].is = "running" THEN "gone" ELSE native[c].is)
             /\ native'[c].cancelled = native[c].cancelled
    BY ToolFacts DEF W!Navigate, Invocation
<1>4. native' \in [Calls -> Invocation]
    BY <1>3 DEF W!Navigate
<1>5. ASSUME NEW c \in Calls PROVE Changes(c)
    <2>1. InvocationOK(c, call[c], native[c], ctl) /\ ListOK(call[c], ctl, switches)
        BY DEF ToolInv, CallOK
    <2>2. InvocationOK(c, call[c], native'[c], ctl)
        BY <1>3, <2>1 DEF InvocationOK
    <2> QED
        BY <1>1, <2>1, <2>2 DEF Changes, AnswerOK
<1> QED
    BY <1>1, <1>2, <1>4, <1>5, ToolFacts, ToolStep DEF CatalogueOK

LEMMA SetActiveKeeps ==
    ASSUME ToolInv, NEW does \in {"on", "off"}, W!SetActive(does) PROVE ToolInv' /\ Answered
<1>1. UNCHANGED <<document, ctl, call, native, handed>> /\ switches' = switches + 1
    BY DEF W!SetActive
<1>2. switches' \in Nat /\ switches <= switches' /\ switches' > 0
    BY <1>1, ToolFacts
<1>3. PICK o : o = [does |-> does, for |-> None, phase |-> "read", document |-> 0]
    OBVIOUS
<1>4. o \in QueuedOperation /\ o.phase = "read" /\ o.does \in {"on", "off"}
    BY <1>3 DEF QueuedOperation
<1>5. queue' = Append(queue, o)
    BY <1>3 DEF W!SetActive, W!Queued
<1>6. queue' \in Seq(QueuedOperation) /\ QueueOK(queue', ctl, switches')
    BY <1>2, <1>4, <1>5, ToolFacts, QueueGrows
<1>7. Moves(ctl, ctl', switches') /\ CatalogueOK(document', queue', ctl', switches')
    BY <1>1, <1>2, <1>6, ToolFacts DEF CatalogueOK, Moves
<1> QED
    BY <1>1, <1>2, <1>6, <1>7, ToolFacts, CallsStay
(* The call an operation was queued for goes on when the operation ends,   *)
(* or fails with it.                                                       *)
LEMMA HeadOK ==
    ASSUME ToolInv, queue # <<>>
    PROVE  /\ Head(queue) = queue[1] /\ queue[1] \in QueuedOperation
           /\ OperationOK(queue[1], TRUE, ctl, switches)
<1>1. Head(queue) = queue[1] /\ queue[1] \in QueuedOperation /\ 1 \in 1 .. Len(queue)
    BY ToolFacts
<1> QED
    BY <1>1, ToolFacts DEF QueueOK, OperationOK

LEMMA QueuedCall ==
    ASSUME ToolInv, NEW c \in Calls, call[c].at = "queued", NEW k \in ToolCall,
           k.at \in {"over", "policy", "verifying"}, k.kind = call[c].kind, k.outcome = "done" => call[c].outcome = "done",
           k.kind = "list" /\ k.at # "over" => k.revision = ctl'.revision /\ k.tools = ctl'.tools,
           call'[c] = k, native'[c] = native[c], ctl' \in Controller, ctl'.early \subseteq ctl.early
    PROVE  Changes(c)
<1>1. InvocationOK(c, call[c], native[c], ctl)
    BY DEF ToolInv, CallOK
<1>2. InvocationOK(c, k, native[c], ctl')
    BY <1>1 DEF InvocationOK
<1>3. ctl'.revision <= ctl'.revision
    BY DEF Controller
<1>4. ListOK(k, ctl', switches')
    BY <1>3 DEF ListOK
<1> QED
    BY <1>2, <1>4 DEF Changes, AnswerOK

LEMMA CallsFail ==
    ASSUME ToolInv, queue # <<>>, call' = W!After(W!Failed, call),
           UNCHANGED <<native, handed>>, document' \in Shown, ctl' \in Controller,
           queue' \in Seq(QueuedOperation), switches' \in Nat, switches <= switches',
           Moves(ctl, ctl', switches'), ctl'.early \subseteq ctl.early,
           CatalogueOK(document', queue', ctl', switches')
    PROVE  ToolInv' /\ Answered
<1>1. PICK c : c = queue[1].for
    OBVIOUS
<1>2. c \in Calls \cup {None} /\ Head(queue).for = c
    BY <1>1, HeadOK DEF QueuedOperation
<1>3. native' \in [Calls -> Invocation] /\ handed' \subseteq Reference /\ call \in [Calls -> ToolCall]
    BY ToolFacts
<1>4. CASE c = None \/ call[c].at # "queued"
    <2>1. call' = call
        BY <1>2, <1>3, <1>4 DEF W!After, W!Failed
    <2> QED
        BY <2>1, CallsStay
<1>5. CASE c # None /\ call[c].at = "queued"
    <2>1. PICK k : k = W!Ended(call[c], "failed")
        OBVIOUS
    <2>2. k \in ToolCall /\ k.at = "over" /\ k.outcome = "failed" /\ k.kind = call[c].kind
        BY <1>2, <1>3, <1>5, <2>1, EndedIs DEF Outcomes
    <2>3. call' = [call EXCEPT ![c] = k]
        BY <1>2, <1>5, <2>1 DEF W!After, W!Failed
    <2>4. call' \in [Calls -> ToolCall] /\ Changes(c)
        BY <1>2, <1>3, <1>5, <2>2, <2>3, QueuedCall
    <2>5. \A d \in Calls \ {c} : Stays(d) /\ (d \in ctl'.early => d \in ctl.early)
        BY <1>3, <2>3 DEF Stays
    <2> QED
        BY <1>3, <2>4, <2>5, ToolStep
<1> QED
    BY <1>4, <1>5

LEMMA SelectedIs ==
    ASSUME NEW k \in ToolCall, NEW c, c # None, k.at = "queued", ctl' \in Controller
    PROVE  /\ W!Selected(c, k) \in ToolCall /\ W!Selected(c, k).at \in {"over", "policy", "verifying"}
           /\ W!Selected(c, k).kind = k.kind
           /\ W!Selected(c, k).outcome = "done" => k.outcome = "done"
           /\ k.kind = "list" /\ W!Selected(c, k).at # "over" =>
                W!Selected(c, k).revision = ctl'.revision /\ W!Selected(c, k).tools = ctl'.tools
<1>1. /\ W!Ended(k, "failed") \in ToolCall /\ W!Ended(k, "failed").at = "over"
      /\ W!Ended(k, "failed").outcome = "failed" /\ W!Ended(k, "failed").kind = k.kind
    BY EndedIs DEF Outcomes
<1>2. PICK p : p = [k EXCEPT !.at = "policy", !.document = ctl'.document, !.revision = ctl'.revision,
                             !.tools = ctl'.tools]
    OBVIOUS
<1>3. /\ p \in ToolCall /\ p.at = "policy" /\ p.kind = k.kind /\ p.outcome = k.outcome
      /\ p.revision = ctl'.revision /\ p.tools = ctl'.tools
    <2>1. ctl'.document \in Nat /\ ctl'.revision \in Nat /\ ctl'.tools \in SUBSET Names
        BY DEF Controller
    <2> QED
        BY <1>2, <2>1 DEF ToolCall
<1>4. PICK g : g = [k EXCEPT !.at = "verifying", !.document = ctl'.document]
    OBVIOUS
<1>5. g \in ToolCall /\ g.at = "verifying" /\ g.kind = k.kind /\ g.outcome = k.outcome
    <2>1. ctl'.document \in Nat
        BY DEF Controller
    <2> QED
        BY <1>4, <2>1 DEF ToolCall
<1>6. CASE k.kind = "list"
    <2>1. W!Selected(c, k) \in {W!Ended(k, "failed"), p}
        BY <1>2, <1>6 DEF W!Selected
    <2> QED
        BY <1>1, <1>3, <2>1
<1>7. CASE k.kind # "list"
    <2>1. W!Selected(c, k) \in {W!Ended(k, "failed"), g}
        BY <1>4, <1>7 DEF W!Selected
    <2> QED
        BY <1>1, <1>5, <1>7, <2>1
<1> QED
    BY <1>6, <1>7

LEMMA CallsSelected ==
    ASSUME ToolInv, queue # <<>>, call' = W!After(W!Selected, call),
           UNCHANGED <<native, handed>>, document' \in Shown, ctl' \in Controller,
           queue' \in Seq(QueuedOperation), switches' \in Nat, switches <= switches',
           Moves(ctl, ctl', switches'), ctl'.early \subseteq ctl.early,
           CatalogueOK(document', queue', ctl', switches')
    PROVE  ToolInv' /\ Answered
<1>1. PICK c : c = queue[1].for
    OBVIOUS
<1>2. c \in Calls \cup {None} /\ Head(queue).for = c
    BY <1>1, HeadOK DEF QueuedOperation
<1>3. native' \in [Calls -> Invocation] /\ handed' \subseteq Reference /\ call \in [Calls -> ToolCall]
    BY ToolFacts
<1>4. CASE c = None \/ call[c].at # "queued"
    <2>1. call' = call
        BY <1>2, <1>3, <1>4 DEF W!After, W!Selected
    <2> QED
        BY <2>1, CallsStay
<1>5. CASE c # None /\ call[c].at = "queued"
    <2>1. PICK k : k = W!Selected(c, call[c])
        OBVIOUS
    <2>2. /\ k \in ToolCall /\ k.at \in {"over", "policy", "verifying"} /\ k.kind = call[c].kind
          /\ k.outcome = "done" => call[c].outcome = "done"
          /\ k.kind = "list" /\ k.at # "over" => k.revision = ctl'.revision /\ k.tools = ctl'.tools
        BY <1>2, <1>3, <1>5, <2>1, SelectedIs
    <2>3. call' = [call EXCEPT ![c] = k]
        BY <1>2, <1>5, <2>1 DEF W!After
    <2>4. call' \in [Calls -> ToolCall] /\ Changes(c)
        BY <1>2, <1>3, <1>5, <2>2, <2>3, QueuedCall
    <2>5. \A d \in Calls \ {c} : Stays(d) /\ (d \in ctl'.early => d \in ctl.early)
        BY <1>3, <2>3 DEF Stays
    <2> QED
        BY <1>3, <2>4, <2>5, ToolStep
<1> QED
    BY <1>4, <1>5
LEMMA PrepareReadsKeeps ==
    ASSUME ToolInv, W!PrepareReads PROVE ToolInv' /\ Answered
<1>1. queue # <<>> /\ UNCHANGED <<document, handed, switches>>
    BY DEF W!PrepareReads, W!Running
<1>2. PICK fresh \in BOOLEAN : fresh <=> ctl.document # document.document
    OBVIOUS
<1>3. PICK head \in QueuedOperation : head = queue[1] /\ OperationOK(head, TRUE, ctl, switches)
    BY <1>1, HeadOK
<1>4. ASSUME queue' = Tail(queue), UNCHANGED ctl
      PROVE  queue' \in Seq(QueuedOperation) /\ CatalogueOK(document', queue', ctl', switches')
    BY <1>1, <1>4, ToolFacts, QueueTail DEF CatalogueOK
<1>5. ASSUME NEW p \in {"disabling", "enabling"},
             queue' = [queue EXCEPT ![1].phase = p, ![1].document = document.document],
             ctl'.closed = ctl.closed, p = "enabling" => ~ctl'.enabled,
             p = "disabling" => ctl'.document = 0 /\ ctl'.tools = {}
      PROVE  queue' \in Seq(QueuedOperation) /\ QueueOK(queue', ctl', switches')
    <2>1. PICK o : o = [head EXCEPT !.phase = p, !.document = document.document]
        OBVIOUS
    <2>2. o \in QueuedOperation /\ o.phase = p /\ o.does = head.does
        BY <2>1, ToolFacts DEF QueuedOperation, Shown
    <2>3. queue' = [queue EXCEPT ![1] = o]
        BY <1>1, <1>3, <1>5, <2>1, ToolFacts
    <2>4. /\ o.phase = "enabling" => ~ctl'.enabled
          /\ o.phase = "disabling" => ctl'.closed \/ (ctl'.document = 0 /\ ctl'.tools = {})
          /\ o.does = queue[1].does /\ (ctl.closed => ctl'.closed) /\ switches' = switches
        BY <1>1, <1>3, <1>5, <2>2
    <2>5. queue \in Seq(QueuedOperation) /\ switches \in Nat /\ QueueOK(queue, ctl, switches)
        BY ToolFacts
    <2>6. [queue EXCEPT ![1] = o] \in Seq(QueuedOperation) /\ QueueOK([queue EXCEPT ![1] = o], ctl', switches)
        BY <1>1, <2>2, <2>4, <2>5, QueueHead
    <2> QED
        BY <2>3, <2>4, <2>6
<1>6. CASE ctl.closed
    <2>1. queue' = Tail(queue) /\ call' = W!After(W!Failed, call) /\ UNCHANGED <<ctl, native>>
        BY <1>6 DEF W!PrepareReads
    <2> QED
        BY <1>1, <1>4, <2>1, ToolFacts, CallsFail
<1>7. CASE ~ctl.closed /\ ctl.enabled /\ ~fresh
    <2>1. queue' = Tail(queue) /\ call' = W!After(W!Selected, call) /\ UNCHANGED <<ctl, native>>
        BY <1>2, <1>7 DEF W!PrepareReads
    <2> QED
        BY <1>1, <1>4, <2>1, ToolFacts, CallsSelected
<1>8. CASE ~ctl.closed /\ ctl.enabled /\ fresh
    <2>1. /\ ctl' = W!Invalidated(ctl) /\ call' = W!Interrupted(call) /\ native' = W!Cancelling(native, call)
          /\ queue' = [queue EXCEPT ![1].phase = "disabling", ![1].document = document.document]
        BY <1>2, <1>8 DEF W!PrepareReads
    <2>2. /\ ctl' \in Controller /\ ctl'.document = 0 /\ ctl'.tools = {} /\ ctl'.early = {}
          /\ ctl'.revision = ctl.revision + 1 /\ ctl'.closed = ctl.closed /\ ctl'.enabled = ctl.enabled
        BY <2>1, ToolFacts, InvalidatedIs
    <2>3. Moves(ctl, ctl', switches')
        BY <2>2, ToolFacts DEF Moves, Controller
    <2>4. queue' \in Seq(QueuedOperation) /\ CatalogueOK(document', queue', ctl', switches')
        BY <1>1, <1>5, <2>1, <2>2, ToolFacts DEF CatalogueOK
    <2> QED
        BY <1>1, <2>1, <2>2, <2>3, <2>4, ToolFacts, CallsInterrupted
<1>9. CASE ~ctl.closed /\ ~ctl.enabled
    <2>1. PICK known : known = (IF fresh THEN W!Invalidated(ctl) ELSE ctl)
        OBVIOUS
    <2>2. /\ ctl' = [known EXCEPT !.document = document.document, !.tools = {}, !.oversized = FALSE]
          /\ call' = (IF fresh THEN W!Interrupted(call) ELSE call)
          /\ native' = (IF fresh THEN W!Cancelling(native, call) ELSE native)
          /\ queue' = [queue EXCEPT ![1].phase = "enabling", ![1].document = document.document]
        BY <1>2, <1>9, <2>1 DEF W!PrepareReads
    <2>3. /\ known \in Controller /\ known.early \subseteq ctl.early /\ known.closed = ctl.closed
          /\ known.enabled = ctl.enabled
          /\ known.revision = (IF fresh THEN ctl.revision + 1 ELSE ctl.revision)
        BY <2>1, ToolFacts, InvalidatedIs
    <2>4. /\ ctl' \in Controller /\ ctl'.early = known.early /\ ctl'.closed = known.closed
          /\ ctl'.enabled = known.enabled /\ ctl'.revision = known.revision /\ ctl'.tools = {}
        BY <2>2, <2>3, ToolFacts DEF Controller, Shown
    <2>5. Moves(ctl, ctl', switches')
        BY <1>1, <1>9, <2>3, <2>4, ToolFacts DEF Moves, Controller
    <2>6. queue' \in Seq(QueuedOperation) /\ CatalogueOK(document', queue', ctl', switches')
        BY <1>1, <1>5, <1>9, <2>2, <2>3, <2>4, ToolFacts DEF CatalogueOK
    <2>7. CASE fresh
        BY <1>1, <2>2, <2>3, <2>4, <2>5, <2>6, <2>7, ToolFacts, CallsInterrupted
    <2>8. CASE ~fresh
        BY <1>1, <2>2, <2>3, <2>4, <2>5, <2>6, <2>8, ToolFacts, CallsStay
    <2> QED
        BY <2>7, <2>8
<1> QED
    BY <1>6, <1>7, <1>8, <1>9

LEMMA PrepareDisabledKeeps ==
    ASSUME ToolInv, W!PrepareDisabled PROVE ToolInv' /\ Answered
<1>1. queue # <<>> /\ Head(queue).phase = "disabling" /\ UNCHANGED <<native, handed, switches>>
    BY DEF W!PrepareDisabled, W!Running
<1>2. document' \in Shown /\ document'.listening = FALSE
    BY ToolFacts DEF W!PrepareDisabled, Shown
<1>3. PICK head \in QueuedOperation :
          head = queue[1] /\ head = Head(queue) /\ OperationOK(head, TRUE, ctl, switches)
    BY <1>1, HeadOK
<1>4. CASE ctl.closed
    <2>1. ctl' = [ctl EXCEPT !.enabled = FALSE] /\ queue' = Tail(queue) /\ call' = W!After(W!Failed, call)
        BY <1>4 DEF W!PrepareDisabled
    <2>2. /\ ctl' \in Controller /\ ctl'.early = ctl.early /\ ctl'.closed = ctl.closed /\ ctl'.enabled = FALSE
          /\ ctl'.revision = ctl.revision /\ ctl'.tools = ctl.tools
        BY <2>1, ToolFacts DEF Controller
    <2>3. Moves(ctl, ctl', switches')
        BY <2>2, ToolFacts DEF Moves, Controller
    <2>4. queue' \in Seq(QueuedOperation) /\ CatalogueOK(document', queue', ctl', switches')
        BY <1>1, <1>2, <1>4, <2>1, <2>2, ToolFacts, QueueTail DEF CatalogueOK
    <2> QED
        BY <1>1, <1>2, <2>1, <2>2, <2>3, <2>4, ToolFacts, CallsFail
<1>5. CASE ~ctl.closed
    <2>1. /\ ctl' = [ctl EXCEPT !.enabled = FALSE, !.document = head.document, !.tools = {}, !.oversized = FALSE]
          /\ queue' = [queue EXCEPT ![1].phase = "enabling"] /\ UNCHANGED call
        BY <1>3, <1>5 DEF W!PrepareDisabled
    <2>2. /\ ctl' \in Controller /\ ctl'.early = ctl.early /\ ctl'.closed = ctl.closed /\ ctl'.enabled = FALSE
          /\ ctl'.revision = ctl.revision /\ ctl'.tools = {}
        BY <2>1, ToolFacts DEF Controller, QueuedOperation
    <2>3. ctl.tools = {}
        BY <1>1, <1>3, <1>5 DEF OperationOK
    <2>4. Moves(ctl, ctl', switches')
        BY <2>2, <2>3, ToolFacts DEF Moves, Controller
    <2>5. PICK o : o = [head EXCEPT !.phase = "enabling"]
        OBVIOUS
    <2>6. o \in QueuedOperation /\ o.phase = "enabling" /\ o.does = head.does
        BY <2>5 DEF QueuedOperation
    <2>7. queue' = [queue EXCEPT ![1] = o]
        BY <1>1, <1>3, <2>1, <2>5, ToolFacts
    <2>8. queue' \in Seq(QueuedOperation) /\ CatalogueOK(document', queue', ctl', switches')
        BY <1>1, <1>2, <1>3, <2>2, <2>6, <2>7, ToolFacts, QueueHead DEF CatalogueOK
    <2> QED
        BY <1>1, <1>2, <2>1, <2>2, <2>4, <2>8, ToolFacts, CallsStay
<1> QED
    BY <1>4, <1>5

LEMMA PrepareEnabledKeeps ==
    ASSUME ToolInv, W!PrepareEnabled PROVE ToolInv' /\ Answered
<1>1. /\ queue # <<>> /\ Head(queue).phase = "enabling" /\ queue' = Tail(queue)
      /\ UNCHANGED <<native, handed, switches>>
    BY DEF W!PrepareEnabled, W!Running
<1>2. document' \in Shown /\ document'.listening = TRUE
    BY ToolFacts DEF W!PrepareEnabled, Shown
<1>3. ~ctl.enabled /\ (switches = 0 /\ ~ctl.closed => ctl.tools = {})
    BY <1>1, HeadOK, ToolFacts DEF OperationOK
<1>4. PICK seeded : seeded = (IF ctl.document = 0 \/ ctl.closed THEN ctl ELSE W!Catalogue(ctl, document.tools))
    OBVIOUS
<1>5. /\ seeded \in Controller /\ seeded.early = ctl.early /\ seeded.closed = ctl.closed
      /\ ctl.revision <= seeded.revision
      /\ switches = 0 /\ ~ctl.closed /\ seeded.revision = ctl.revision => seeded.tools = ctl.tools
    <2>1. CASE ctl.document = 0 \/ ctl.closed
        BY <1>4, <2>1, ToolFacts DEF Controller
    <2>2. CASE ~(ctl.document = 0 \/ ctl.closed)
        <3>1. document.tools \in SUBSET Names
            BY ToolFacts DEF Shown
        <3>2. /\ seeded \in Controller /\ seeded.early = ctl.early /\ seeded.closed = ctl.closed
              /\ ctl.revision <= seeded.revision
              /\ document.tools # {} => ctl.revision < seeded.revision
              /\ document.tools = {} /\ ctl.tools = {} => seeded.tools = ctl.tools
            BY <1>4, <2>2, <3>1, ToolFacts, CatalogueIs
        <3>3. seeded.revision \in Nat /\ ctl.revision \in Nat
            BY <3>2, ToolFacts DEF Controller
        <3> QED
            BY <1>3, <3>2, <3>3
    <2> QED
        BY <2>1, <2>2
<1>6. PICK on : on = [seeded EXCEPT !.enabled = TRUE]
    OBVIOUS
<1>7. /\ on \in Controller /\ on.early = seeded.early /\ on.closed = seeded.closed /\ on.enabled = TRUE
      /\ on.revision = seeded.revision /\ on.tools = seeded.tools
    BY <1>5, <1>6 DEF Controller
<1>8. /\ ctl' = on \/ ctl' = W!Forgotten(on, seeded.known \ seeded.tools)
      /\ call' = W!After(W!Selected, call) \/ call' = W!After(W!Failed, call)
    BY <1>4, <1>6 DEF W!PrepareEnabled
<1>9. /\ ctl' \in Controller /\ ctl'.early = ctl.early /\ ctl'.closed = ctl.closed /\ ctl'.enabled = TRUE
      /\ ctl'.revision = seeded.revision /\ ctl'.tools = seeded.tools
    <2>1. seeded.known \ seeded.tools \in SUBSET Names
        BY <1>5 DEF Controller
    <2> QED
        BY <1>5, <1>7, <1>8, <2>1, ForgottenIs
<1>10. Moves(ctl, ctl', switches')
    BY <1>1, <1>5, <1>9 DEF Moves
<1>11. queue' \in Seq(QueuedOperation) /\ CatalogueOK(document', queue', ctl', switches')
    BY <1>1, <1>2, <1>9, ToolFacts, QueueTail DEF CatalogueOK
<1>12. switches' \in Nat /\ switches <= switches' /\ ctl'.early \subseteq ctl.early
    BY <1>1, <1>9, ToolFacts
<1>13. CASE call' = W!After(W!Selected, call)
    BY <1>1, <1>2, <1>9, <1>10, <1>11, <1>12, <1>13, CallsSelected
<1>14. CASE call' = W!After(W!Failed, call)
    BY <1>1, <1>2, <1>9, <1>10, <1>11, <1>12, <1>14, CallsFail
<1> QED
    BY <1>8, <1>13, <1>14

LEMMA PrepareUnsupportedKeeps ==
    ASSUME ToolInv, W!PrepareUnsupported PROVE ToolInv' /\ Answered
<1>1. /\ queue # <<>> /\ queue' = Tail(queue) /\ call' = W!After(W!Failed, call)
      /\ UNCHANGED <<document, ctl, native, handed, switches>>
    BY DEF W!PrepareUnsupported, W!Running
<1>2. queue' \in Seq(QueuedOperation) /\ CatalogueOK(document', queue', ctl', switches')
    BY <1>1, ToolFacts, QueueTail DEF CatalogueOK
<1> QED
    BY <1>1, <1>2, ToolFacts, CallsFail

LEMMA DeactivatedKeeps ==
    ASSUME ToolInv, W!Deactivated PROVE ToolInv' /\ Answered
<1>1. /\ queue # <<>> /\ Head(queue).does \in {"off", "dispose"} /\ queue' = Tail(queue)
      /\ UNCHANGED <<call, native, handed, switches>>
    BY DEF W!Deactivated, W!Running
<1>2. switches > 0 \/ ctl.closed
    BY <1>1, HeadOK DEF OperationOK
<1>3. CASE ~ctl.enabled
    <2>1. UNCHANGED <<document, ctl>>
        BY <1>3 DEF W!Deactivated
    <2>2. queue' \in Seq(QueuedOperation) /\ CatalogueOK(document', queue', ctl', switches')
        BY <1>1, <2>1, ToolFacts, QueueTail DEF CatalogueOK
    <2> QED
        BY <1>1, <2>1, <2>2, ToolFacts, CallsStay
<1>4. CASE ctl.enabled
    <2>1. PICK tools : tools = (IF Head(queue).does = "off" THEN {} ELSE ctl.tools)
        OBVIOUS
    <2>2. document' = [document EXCEPT !.listening = FALSE] /\ ctl' = [ctl EXCEPT !.enabled = FALSE, !.tools = tools]
        BY <1>4, <2>1 DEF W!Deactivated
    <2>3. document' \in Shown /\ document'.listening = FALSE
        BY <2>2, ToolFacts DEF Shown
    <2>4. /\ ctl' \in Controller /\ ctl'.early = ctl.early /\ ctl'.closed = ctl.closed /\ ctl'.enabled = FALSE
          /\ ctl'.revision = ctl.revision
        BY <2>1, <2>2, ToolFacts DEF Controller
    <2>5. Moves(ctl, ctl', switches')
        BY <1>1, <1>2, <2>4, ToolFacts DEF Moves, Controller
    <2>6. queue' \in Seq(QueuedOperation) /\ CatalogueOK(document', queue', ctl', switches')
        BY <1>1, <1>2, <2>3, <2>4, ToolFacts, QueueTail DEF CatalogueOK
    <2> QED
        BY <1>1, <2>3, <2>4, <2>5, <2>6, ToolFacts, CallsStay
<1> QED
    BY <1>3, <1>4

-----------------------------------------------------------------------------
(* WebMCP: the end of the generation, and the steps of calls               *)

LEMMA DisposeKeeps ==
    ASSUME ToolInv, W!Dispose PROVE ToolInv' /\ Answered
<1>1. native' = W!Cancelling(native, call) /\ UNCHANGED <<document, handed, switches>>
    BY DEF W!Dispose
<1>2. /\ ctl' \in Controller /\ ctl'.closed = TRUE /\ ctl'.early = {} /\ ctl'.enabled = ctl.enabled
      /\ ctl'.revision = ctl.revision + 1
    <2>1. PICK s : s = W!Invalidated(ctl)
        OBVIOUS
    <2>2. s \in Controller /\ s.early = {} /\ s.enabled = ctl.enabled /\ s.revision = ctl.revision + 1
        BY <2>1, ToolFacts, InvalidatedIs
    <2>3. ctl' = [s EXCEPT !.closed = TRUE]
        BY <2>1 DEF W!Dispose
    <2> QED
        BY <2>2, <2>3 DEF Controller
<1>3. Moves(ctl, ctl', switches') /\ Calmer(ctl, ctl')
    BY <1>2, ToolFacts DEF Moves, Calmer, Controller
<1>4. PICK o : o = [does |-> "dispose", for |-> None, phase |-> "read", document |-> 0]
    OBVIOUS
<1>5. o \in QueuedOperation /\ o.phase = "read" /\ o.does = "dispose" /\ queue' = Append(queue, o)
    BY <1>4 DEF QueuedOperation, W!Dispose, W!Queued
<1>6. queue' \in Seq(QueuedOperation) /\ QueueOK(queue', ctl', switches')
    BY <1>1, <1>2, <1>3, <1>5, ToolFacts, QueueGrows
<1>7. CatalogueOK(document', queue', ctl', switches')
    BY <1>1, <1>2, <1>6, ToolFacts DEF CatalogueOK
<1>8. ASSUME NEW c \in Calls
      PROVE  /\ call'[c] \in {call[c], W!Ended(call[c], "unknown"), W!Ended(call[c], "failed")}
             /\ call[c].at \in {"pending", "dispatched", "queued", "policy"} => call'[c] # call[c]
             /\ call'[c] # call[c] => call[c].at \in {"pending", "dispatched", "queued", "policy", "verifying"}
    <2>1. /\ W!Ended(call[c], "unknown").at = "over" /\ W!Ended(call[c], "failed").at = "over"
        BY ToolFacts, EndedIs DEF Outcomes
    <2>2. CASE call[c].at \in {"pending", "dispatched"}
        BY <2>1, <2>2 DEF W!Dispose
    <2>3. CASE call[c].at \in {"queued", "policy"}
        BY <2>1, <2>3 DEF W!Dispose
    <2>4. CASE call[c].at = "verifying"
        BY <2>1, <2>4 DEF W!Dispose
    <2>5. CASE call[c].at \notin {"pending", "dispatched", "queued", "policy", "verifying"}
        BY <2>1, <2>5 DEF W!Dispose
    <2> QED
        BY <2>2, <2>3, <2>4, <2>5
<1>9. ASSUME NEW c \in Calls PROVE call'[c] \in ToolCall /\ native'[c] \in Invocation /\ Changes(c)
    <2>1. /\ call[c] \in ToolCall /\ InvocationOK(c, call[c], native[c], ctl)
        BY ToolFacts DEF ToolInv, CallOK
    <2>2. /\ native'[c] \in Invocation /\ native'[c].is = native[c].is
          /\ native'[c].acknowledged = native[c].acknowledged
          /\ native'[c].cancelled <=> native[c].cancelled \/ call[c].at = "pending"
        BY <1>1, ToolFacts, CancellingIs
    <2>3. PICK k : k = call'[c]
        OBVIOUS
    <2>4. /\ k \in ToolCall /\ (k.outcome = "done" => call[c].outcome = "done")
          /\ k = call[c] \/ (k.at = "over" /\ k # call[c])
        BY <1>8, <2>1, <2>3, EndedIs DEF Outcomes
    <2>5. InvocationOK(c, k, native'[c], ctl')
        BY <1>2, <1>8, <2>1, <2>2, <2>3, <2>4 DEF InvocationOK
    <2>6. ListOK(k, ctl', switches') /\ AnswerOK(call[c], k)
        BY <1>2, <2>4 DEF ListOK, AnswerOK
    <2> QED
        BY <2>2, <2>3, <2>4, <2>5, <2>6 DEF Changes
<1>10. call' \in [Calls -> ToolCall]
    BY <1>9 DEF W!Dispose
<1>11. native' \in [Calls -> Invocation]
    BY <1>1, <1>9 DEF W!Cancelling
<1> QED
    BY <1>1, <1>2, <1>3, <1>6, <1>7, <1>9, <1>10, <1>11, ToolFacts, ToolStep

LEMMA CallFacts ==
    ASSUME ToolInv, NEW c \in Calls
    PROVE  /\ call[c] \in ToolCall /\ native[c] \in Invocation
           /\ InvocationOK(c, call[c], native[c], ctl) /\ ListOK(call[c], ctl, switches)
           /\ call = [call EXCEPT ![c] = call[c]] /\ native = [native EXCEPT ![c] = native[c]]
BY ToolFacts DEF ToolInv, CallOK

(* Steps of one call that leave the controller                             *)
LEMMA OneCallOnly ==
    ASSUME ToolInv, NEW c \in Calls, NEW k \in ToolCall, NEW v \in Invocation,
           call' = [call EXCEPT ![c] = k], native' = [native EXCEPT ![c] = v],
           handed' \subseteq Reference, UNCHANGED <<document, switches, ctl, queue>>,
           InvocationOK(c, k, v, ctl), ListOK(k, ctl, switches),
           AnswerOK(call[c], k)
    PROVE  ToolInv' /\ Answered
<1>1. /\ ctl' \in Controller /\ queue' \in Seq(QueuedOperation) /\ Moves(ctl, ctl', switches')
      /\ ctl'.early \subseteq ctl.early \cup {c} /\ CatalogueOK(document', queue', ctl', switches')
    BY ToolFacts DEF CatalogueOK
<1> QED
    BY <1>1, OneCall

LEMMA ExecuteKeeps ==
    ASSUME ToolInv, NEW c \in Calls, W!Execute(c) PROVE ToolInv' /\ Answered
<1>1. PICK r \in {W!NoReference} \cup handed :
        call' = [call EXCEPT ![c].reference = r,
                             ![c].at = IF ctl.closed THEN "over" ELSE "queued",
                             ![c].outcome = IF ctl.closed THEN "failed" ELSE @]
    BY DEF W!Execute
<1>2. UNCHANGED <<document, ctl, native, handed, switches>> /\ call[c].at = "idle"
    BY DEF W!Execute
<1>3. PICK o : o = [does |-> "prepare", for |-> c, phase |-> "read", document |-> 0]
    OBVIOUS
<1>4. o \in QueuedOperation /\ o.phase = "read" /\ o.does = "prepare" /\ queue' = Append(queue, o)
    BY <1>3 DEF QueuedOperation, W!Execute, W!Queued
<1>5. queue' \in Seq(QueuedOperation) /\ QueueOK(queue', ctl, switches)
    BY <1>4, ToolFacts, QueueGrows
<1>6. CatalogueOK(document', queue', ctl', switches') /\ Moves(ctl, ctl', switches')
    BY <1>2, <1>5, ToolFacts DEF CatalogueOK
<1>7. r \in Reference
    BY ToolFacts DEF W!NoReference, Reference
<1>8. PICK k : k = [call[c] EXCEPT !.reference = r, !.at = IF ctl.closed THEN "over" ELSE "queued",
                                  !.outcome = IF ctl.closed THEN "failed" ELSE @]
    OBVIOUS
<1>9. /\ k \in ToolCall /\ k.at \in {"over", "queued"} /\ (k.outcome = "done" => call[c].outcome = "done")
    BY <1>7, <1>8, CallFacts DEF ToolCall, Outcomes
<1>10. call' = [call EXCEPT ![c] = k]
    BY <1>1, <1>8, CallFacts, ToolFacts
<1>11. InvocationOK(c, k, native[c], ctl') /\ ListOK(k, ctl', switches') /\ AnswerOK(call[c], k)
    BY <1>2, <1>9, CallFacts DEF InvocationOK, ListOK, AnswerOK
<1> QED
    BY <1>2, <1>5, <1>6, <1>9, <1>10, <1>11, CallFacts, ToolFacts, OneCall

LEMMA AbortKeeps ==
    ASSUME ToolInv, NEW c \in Calls, W!Abort(c) PROVE ToolInv' /\ Answered
<1>1. UNCHANGED <<document, ctl, queue, handed, switches>> /\ call[c].at \notin {"idle", "over"}
    BY DEF W!Abort
<1>2. PICK a : a = [call[c] EXCEPT !.aborted = TRUE]
    OBVIOUS
<1>3. /\ a \in ToolCall /\ a.aborted = TRUE /\ a.at = call[c].at /\ a.kind = call[c].kind
      /\ a.outcome = call[c].outcome
    BY <1>2, CallFacts DEF ToolCall
<1>11. PICK k : k = CASE a.at \in {"dispatched", "pending"} -> W!Ended(a, "unknown")
                      [] a.at \in {"queued", "policy"} \/ (a.at = "verifying" /\ a.kind = "list")
                           -> W!Ended(a, "failed")
                      [] OTHER -> a
    OBVIOUS
<1>12. a.at \in {"queued", "policy", "verifying", "dispatched", "pending", "checking"}
    BY <1>1, <1>3 DEF ToolCall
<1>4. /\ call' = [call EXCEPT ![c] = k]
      /\ k \in {a, W!Ended(a, "unknown"), W!Ended(a, "failed")}
      /\ k = a => a.at = "checking" \/ (a.at = "verifying" /\ a.kind # "list")
    <2>1. call' = [call EXCEPT ![c] = k]
        BY <1>2, <1>11 DEF W!Abort
    <2>2. W!Ended(a, "unknown").at = "over" /\ W!Ended(a, "failed").at = "over"
        BY <1>3, EndedIs DEF Outcomes
    <2>3. /\ k \in {a, W!Ended(a, "unknown"), W!Ended(a, "failed")}
          /\ k = a => a.at = "checking" \/ (a.at = "verifying" /\ a.kind # "list")
        <3>1. CASE a.at \in {"dispatched", "pending"}
            BY <1>11, <2>2, <3>1
        <3>2. CASE a.at \in {"queued", "policy"} \/ (a.at = "verifying" /\ a.kind = "list")
            BY <1>11, <2>2, <3>2
        <3>3. CASE a.at = "checking" \/ (a.at = "verifying" /\ a.kind # "list")
            BY <1>11, <2>2, <3>3
        <3> QED
            BY <1>12, <3>1, <3>2, <3>3
    <2> QED
        BY <2>1, <2>3
<1>5. /\ k \in ToolCall /\ k.aborted = TRUE /\ (k.outcome = "done" => call[c].outcome = "done")
      /\ k = a \/ k.at = "over"
    BY <1>3, <1>4, EndedIs DEF Outcomes
<1>6. PICK v : v = [native[c] EXCEPT !.cancelled = @ \/ call[c].at = "pending"]
    OBVIOUS
<1>7. /\ v \in Invocation /\ v.is = native[c].is /\ v.acknowledged = native[c].acknowledged
      /\ v.cancelled <=> native[c].cancelled \/ call[c].at = "pending"
    BY <1>6, CallFacts DEF Invocation
<1>8. native' = [native EXCEPT ![c] = v]
    BY <1>6, ToolFacts DEF W!Abort
<1>9. InvocationOK(c, k, v, ctl)
    BY <1>1, <1>3, <1>4, <1>5, <1>7, CallFacts DEF InvocationOK, ToolCall
<1>10. ListOK(k, ctl, switches) /\ AnswerOK(call[c], k)
    BY <1>3, <1>4, <1>5 DEF ListOK, AnswerOK
<1> QED
    BY <1>1, <1>4, <1>5, <1>7, <1>8, <1>9, <1>10, ToolFacts, OneCallOnly

LEMMA DescribedKeeps ==
    ASSUME ToolInv, NEW c \in Calls, W!Described(c) PROVE ToolInv' /\ Answered
<1>1. UNCHANGED <<document, queue, native, handed, switches>> /\ call[c].at = "policy"
    BY DEF W!Described
<1>2. PICK k : k = [call[c] EXCEPT !.at = "verifying"]
    OBVIOUS
<1>3. /\ k \in ToolCall /\ k.at = "verifying" /\ k.outcome = call[c].outcome /\ k.kind = call[c].kind
      /\ k.revision = call[c].revision /\ k.tools = call[c].tools
    BY <1>2, CallFacts DEF ToolCall
<1>4. call' = [call EXCEPT ![c] = k]
    BY <1>2, ToolFacts DEF W!Described
<1>5. /\ ctl' \in Controller /\ ctl'.early = ctl.early /\ ctl'.closed = ctl.closed /\ ctl'.enabled = ctl.enabled
      /\ ctl'.revision = ctl.revision /\ ctl'.tools = ctl.tools /\ ctl'.document = ctl.document
    <2>1. ctl.known \cup call[c].tools \in SUBSET Names
        BY CallFacts, ToolFacts DEF Controller, ToolCall
    <2>2. ctl' = [ctl EXCEPT !.known = ctl.known \cup call[c].tools] \/ ctl' = ctl
        BY DEF W!Described
    <2> QED
        BY <2>1, <2>2, ToolFacts DEF Controller
<1>6. Moves(ctl, ctl', switches') /\ Calmer(ctl, ctl')
    BY <1>1, <1>5, ToolFacts DEF Moves, Calmer
<1>7. CatalogueOK(document', queue', ctl', switches')
    BY <1>1, <1>5, <1>6, ToolFacts, QueueKept DEF CatalogueOK
<1>8. InvocationOK(c, k, native[c], ctl') /\ ListOK(k, ctl', switches') /\ AnswerOK(call[c], k)
    BY <1>1, <1>3, <1>5, CallFacts DEF InvocationOK, ListOK, AnswerOK
<1> QED
    BY <1>1, <1>3, <1>4, <1>5, <1>6, <1>7, <1>8, CallFacts, ToolFacts, OneCall

LEMMA PolicyFailsKeeps ==
    ASSUME ToolInv, NEW c \in Calls, W!PolicyFails(c) PROVE ToolInv' /\ Answered
<1>1. UNCHANGED <<document, ctl, queue, native, handed, switches>> /\ call[c].at = "policy"
    BY DEF W!PolicyFails
<1>2. PICK k : k = W!Ended(call[c], "failed")
    OBVIOUS
<1>3. k \in ToolCall /\ k.at = "over" /\ k.outcome = "failed"
    BY <1>2, CallFacts, EndedIs DEF Outcomes
<1>4. call' = [call EXCEPT ![c] = k]
    BY <1>2 DEF W!PolicyFails
<1>5. InvocationOK(c, k, native[c], ctl) /\ ListOK(k, ctl, switches) /\ AnswerOK(call[c], k)
    BY <1>1, <1>3, CallFacts DEF InvocationOK, ListOK, AnswerOK
<1> QED
    BY <1>1, <1>3, <1>4, <1>5, CallFacts, ToolFacts, OneCallOnly

(* A document that is no longer shown is found out: the call ends, and all *)
(* that wait with it.                                                      *)
LEMMA FoundOutKeeps ==
    ASSUME ToolInv, NEW c \in Calls, W!FoundOut(c), call[c].at \in {"verifying", "checking"},
           UNCHANGED <<document, queue, handed, switches>>
    PROVE  ToolInv' /\ Answered
<1>1. PICK how \in {"unknown", "failed"} : how = (IF call[c].at = "checking" THEN "unknown" ELSE "failed")
    OBVIOUS
<1>2. PICK k : k = W!Ended(call[c], how)
    OBVIOUS
<1>3. k \in ToolCall /\ k.at = "over" /\ k.outcome # "done"
    BY <1>2, CallFacts, EndedIs DEF Outcomes
<1>4. CASE ~ctl.closed /\ ctl.document = call[c].document /\ document.document # ctl.document
    <2>1. /\ ctl' = W!Invalidated(ctl) /\ native' = W!Cancelling(native, call)
          /\ call' = [W!Interrupted(call) EXCEPT ![c] = k]
        BY <1>1, <1>2, <1>4 DEF W!FoundOut
    <2>2. /\ ctl' \in Controller /\ ctl'.document = 0 /\ ctl'.tools = {} /\ ctl'.early = {}
          /\ ctl'.revision = ctl.revision + 1 /\ ctl'.closed = ctl.closed /\ ctl'.enabled = ctl.enabled
        BY <2>1, ToolFacts, InvalidatedIs
    <2>3. Moves(ctl, ctl', switches') /\ Calmer(ctl, ctl')
        BY <2>2, ToolFacts DEF Moves, Calmer, Controller
    <2>4. CatalogueOK(document', queue', ctl', switches')
        BY <2>2, <2>3, ToolFacts, QueueKept DEF CatalogueOK
    <2>5. native' \in [Calls -> Invocation] /\ call' \in [Calls -> ToolCall] /\ call'[c] = k
        BY <1>3, <2>1, ToolFacts, InterruptedIs, CancellingIs
    <2>6. ASSUME NEW d \in Calls, d # c PROVE IsInterrupted(d) /\ (d \in ctl'.early => d \in ctl.early)
        <3>1. call'[d] = W!Interrupted(call)[d]
            BY <2>1, <2>6, ToolFacts, InterruptedIs
        <3>2. call'[d] = IF call[d].at = "pending" THEN W!Ended(call[d], "unknown") ELSE call[d]
            BY <3>1, ToolFacts, InterruptedIs
        <3>3. /\ native'[d].is = native[d].is /\ native'[d].acknowledged = native[d].acknowledged
              /\ native'[d].cancelled <=> native[d].cancelled \/ call[d].at = "pending"
            BY <2>1, ToolFacts, CancellingIs
        <3> QED
            BY <2>2, <3>2, <3>3 DEF IsInterrupted
    <2>7. native'[c].is = native[c].is /\ native'[c].acknowledged = native[c].acknowledged
        BY <2>1, ToolFacts, CancellingIs
    <2>8. InvocationOK(c, k, native'[c], ctl')
        BY <1>3, <2>2, <2>7, CallFacts DEF InvocationOK
    <2>9. Changes(c)
        BY <1>3, <2>5, <2>8 DEF Changes, ListOK, AnswerOK
    <2> QED
        BY <2>2, <2>3, <2>4, <2>5, <2>6, <2>9, ToolFacts, ToolStep
<1>5. CASE ~(~ctl.closed /\ ctl.document = call[c].document /\ document.document # ctl.document)
    <2>1. ctl' = ctl /\ native' = native /\ call' = [call EXCEPT ![c] = k]
        BY <1>1, <1>2, <1>5 DEF W!FoundOut
    <2>2. InvocationOK(c, k, native[c], ctl) /\ ListOK(k, ctl, switches) /\ AnswerOK(call[c], k)
        BY <1>3, CallFacts DEF InvocationOK, ListOK, AnswerOK
    <2> QED
        BY <1>3, <2>1, <2>2, CallFacts, ToolFacts, OneCallOnly
<1> QED
    BY <1>4, <1>5

LEMMA ListVerifiedKeeps ==
    ASSUME ToolInv, NEW c \in Calls, W!ListVerified(c) PROVE ToolInv' /\ Answered
<1>1. /\ UNCHANGED <<document, queue, switches>>
      /\ call[c].at = "verifying" /\ call[c].kind = "list"
    BY DEF W!ListVerified
<1>2. CASE ~W!Verified(c)
    <2>1. W!FoundOut(c) /\ UNCHANGED handed
        BY <1>2 DEF W!ListVerified
    <2> QED
        BY <1>1, <2>1, FoundOutKeeps
<1>3. CASE W!Verified(c)
    <2>1. UNCHANGED <<ctl, native>> /\ ~ctl.closed /\ ctl.document = call[c].document /\ document.document = ctl.document
        BY <1>3 DEF W!ListVerified, W!Verified
    <2>2. PICK how \in {"done", "failed"} : how = (IF W!Unchanged(c) THEN "done" ELSE "failed")
        OBVIOUS
    <2>3. PICK k : k = W!Ended(call[c], how)
        OBVIOUS
    <2>4. k \in ToolCall /\ k.at = "over" /\ k.outcome = how
        BY <2>3, CallFacts, EndedIs DEF Outcomes
    <2>5. call' = [call EXCEPT ![c] = k]
        BY <1>3, <2>2, <2>3 DEF W!ListVerified
    <2>6. \A n \in call[c].tools : [document |-> ctl.document, name |-> n, issue |-> ctl.issue[n]] \in Reference
        BY CallFacts, ToolFacts DEF Controller, ToolCall, Reference
    <2>7. handed' \subseteq Reference
        BY <1>3, <2>6, ToolFacts DEF W!ListVerified
    <2>8. InvocationOK(c, k, native[c], ctl) /\ ListOK(k, ctl, switches)
        BY <1>1, <2>4, CallFacts DEF InvocationOK, ListOK
    <2>9. how = "done" => call[c].revision = ctl.revision
        BY <2>2 DEF W!Unchanged
    <2>10. AnswerOK(call[c], k)
        BY <1>1, <2>1, <2>4, <2>9, CallFacts DEF AnswerOK, ListOK
    <2> QED
        BY <1>1, <2>1, <2>4, <2>5, <2>7, <2>8, <2>10, CallFacts, OneCallOnly
<1> QED
    BY <1>2, <1>3

LEMMA InvokeVerifiedKeeps ==
    ASSUME ToolInv, NEW c \in Calls, W!InvokeVerified(c) PROVE ToolInv' /\ Answered
<1>1. /\ UNCHANGED <<document, queue, handed, switches>>
      /\ call[c].at = "verifying" /\ call[c].kind = "invoke"
    BY DEF W!InvokeVerified
<1>2. CASE ~W!Verified(c)
    <2>1. W!FoundOut(c)
        BY <1>2 DEF W!InvokeVerified
    <2> QED
        BY <1>1, <2>1, FoundOutKeeps
<1>3. CASE W!Verified(c) /\ ~call[c].aborted
    <2>1. PICK k : k = [call[c] EXCEPT !.at = "dispatched"]
        OBVIOUS
    <2>2. PICK v : v = [native[c] EXCEPT !.is = "sent"]
        OBVIOUS
    <2>3. /\ k \in ToolCall /\ k.at = "dispatched" /\ k.kind = "invoke" /\ k.outcome = call[c].outcome
          /\ v \in Invocation /\ v.is = "sent" /\ v.acknowledged = native[c].acknowledged
        BY <1>1, <2>1, <2>2, CallFacts DEF ToolCall, Invocation
    <2>4. call' = [call EXCEPT ![c] = k] /\ native' = [native EXCEPT ![c] = v] /\ UNCHANGED ctl
        BY <1>3, <2>1, <2>2, ToolFacts DEF W!InvokeVerified
    <2>5. InvocationOK(c, k, v, ctl) /\ ListOK(k, ctl, switches) /\ AnswerOK(call[c], k)
        BY <1>1, <2>3, CallFacts DEF InvocationOK, ListOK, AnswerOK
    <2> QED
        BY <1>1, <2>3, <2>4, <2>5, ToolFacts, OneCallOnly
<1>4. CASE W!Verified(c) /\ call[c].aborted
    <2>1. PICK k : k = W!Ended(call[c], "failed")
        OBVIOUS
    <2>2. k \in ToolCall /\ k.at = "over" /\ k.outcome = "failed"
        BY <2>1, CallFacts, EndedIs DEF Outcomes
    <2>3. call' = [call EXCEPT ![c] = k] /\ UNCHANGED <<ctl, native>>
        BY <1>4, <2>1 DEF W!InvokeVerified
    <2>4. InvocationOK(c, k, native[c], ctl) /\ ListOK(k, ctl, switches) /\ AnswerOK(call[c], k)
        BY <1>1, <2>2, CallFacts DEF InvocationOK, ListOK, AnswerOK
    <2> QED
        BY <1>1, <2>2, <2>3, <2>4, CallFacts, ToolFacts, OneCallOnly
<1> QED
    BY <1>2, <1>3, <1>4

LEMMA StartedKeeps ==
    ASSUME ToolInv, NEW c \in Calls, W!Started(c) PROVE ToolInv' /\ Answered
<1>1. UNCHANGED <<document, ctl, queue, call, handed, switches>> /\ native[c].is = "sent"
    BY DEF W!Started
<1>2. PICK v : v = [native[c] EXCEPT !.is = "running"]
    OBVIOUS
<1>3. v \in Invocation /\ v.is = "running" /\ v.acknowledged = native[c].acknowledged /\ v.cancelled = native[c].cancelled
    BY <1>2, CallFacts DEF Invocation
<1>4. native' = [native EXCEPT ![c] = v]
    BY <1>2, ToolFacts DEF W!Started
<1>5. InvocationOK(c, call[c], v, ctl) /\ AnswerOK(call[c], call[c])
    BY <1>1, <1>3, CallFacts DEF InvocationOK, AnswerOK
<1> QED
    BY <1>1, <1>3, <1>4, <1>5, CallFacts, ToolFacts, OneCallOnly

LEMMA InvocationRefusedKeeps ==
    ASSUME ToolInv, NEW c \in Calls, W!InvocationRefused(c) PROVE ToolInv' /\ Answered
<1>1. UNCHANGED <<document, ctl, queue, handed, switches>> /\ native[c].is = "sent"
    BY DEF W!InvocationRefused
<1>2. PICK v : v = [native[c] EXCEPT !.is = "gone"]
    OBVIOUS
<1>3. v \in Invocation /\ v.is = "gone" /\ v.acknowledged = native[c].acknowledged
    BY <1>2, CallFacts DEF Invocation
<1>4. native' = [native EXCEPT ![c] = v]
    BY <1>2, ToolFacts DEF W!InvocationRefused
<1>5. PICK k : k = (IF call[c].at = "dispatched" THEN W!Ended(call[c], "unknown") ELSE call[c])
    OBVIOUS
<1>6. /\ k \in ToolCall /\ (k.outcome = "done" => call[c].outcome = "done")
      /\ (k = call[c] /\ k.at # "dispatched") \/ k.at = "over"
    BY <1>5, CallFacts, EndedIs DEF Outcomes
<1>7. call' = [call EXCEPT ![c] = k]
    BY <1>5, ToolFacts DEF W!InvocationRefused
<1>8. InvocationOK(c, k, v, ctl) /\ ListOK(k, ctl, switches) /\ AnswerOK(call[c], k)
    BY <1>1, <1>3, <1>6, CallFacts DEF InvocationOK, ListOK, AnswerOK
<1> QED
    BY <1>1, <1>3, <1>4, <1>6, <1>7, <1>8, ToolFacts, OneCallOnly

(* The controller counts responses that overtake their acknowledgement.    *)
LEMMA Overtaken ==
    ASSUME ToolInv, NEW c \in Calls, NEW early \in SUBSET Calls, NEW overflow \in {TRUE, FALSE},
           early \subseteq ctl.early \cup {c}, ctl' = [ctl EXCEPT !.early = early, !.overflow = overflow],
           UNCHANGED <<document, queue, switches>>
    PROVE  /\ ctl' \in Controller /\ ctl'.early = early /\ ctl'.closed = ctl.closed
           /\ ctl'.document = ctl.document /\ Moves(ctl, ctl', switches')
           /\ CatalogueOK(document', queue', ctl', switches') /\ queue' \in Seq(QueuedOperation)
<1>1. /\ ctl' \in Controller /\ ctl'.early = early /\ ctl'.closed = ctl.closed /\ ctl'.enabled = ctl.enabled
      /\ ctl'.revision = ctl.revision /\ ctl'.tools = ctl.tools /\ ctl'.document = ctl.document
    BY ToolFacts DEF Controller
<1>2. Moves(ctl, ctl', switches') /\ Calmer(ctl, ctl')
    BY <1>1, ToolFacts DEF Moves, Calmer
<1>3. CatalogueOK(document', queue', ctl', switches')
    BY <1>1, <1>2, ToolFacts, QueueKept DEF CatalogueOK
<1> QED
    BY <1>1, <1>2, <1>3, ToolFacts

(* What settles a call is what its invocation has become.                  *)
LEMMA SettledIs ==
    ASSUME ToolInv, NEW c \in Calls
    PROVE  /\ W!Settled(c) \in ToolCall /\ W!Settled(c).at \in {"over", "checking"}
           /\ W!Settled(c).kind = call[c].kind
           /\ W!Settled(c).outcome = "done" => call[c].outcome = "done"
<1>1. PICK k : k = [call[c] EXCEPT !.at = "checking"]
    OBVIOUS
<1>2. k \in ToolCall /\ k.at = "checking" /\ k.kind = call[c].kind /\ k.outcome = call[c].outcome
    BY <1>1, CallFacts DEF ToolCall
<1>3. W!Settled(c) \in {W!Ended(call[c], "failed"), k}
    BY <1>1 DEF W!Settled
<1> QED
    BY <1>2, <1>3, CallFacts, EndedIs DEF Outcomes

LEMMA AcknowledgedKeeps ==
    ASSUME ToolInv, NEW c \in Calls, W!Acknowledged(c) PROVE ToolInv' /\ Answered
<1>1. /\ UNCHANGED <<document, queue, handed, switches>> /\ ~native[c].acknowledged
      /\ native[c].is \in {"running", "responded", "failed", "gone"}
    BY DEF W!Acknowledged
<1>2. PICK waits \in BOOLEAN : waits <=> call[c].at = "dispatched"
    OBVIOUS
<1>3. PICK lost \in BOOLEAN : lost <=> waits /\ ~W!Unwanted(c) /\ ctl.overflow
    OBVIOUS
<1>4. PICK cancelled \in BOOLEAN : cancelled <=> native[c].cancelled \/ W!Unwanted(c) \/ lost
    OBVIOUS
<1>5. PICK v : v = [native[c] EXCEPT !.acknowledged = TRUE, !.cancelled = cancelled]
    OBVIOUS
<1>6. v \in Invocation /\ v.is = native[c].is /\ v.acknowledged /\ (v.cancelled <=> cancelled)
    BY <1>5, CallFacts DEF Invocation
<1>7. native' = [native EXCEPT ![c] = v]
    <2>1. PICK x : x = [native[c] EXCEPT !.acknowledged = TRUE, !.cancelled = @ \/ W!Unwanted(c) \/ lost]
        OBVIOUS
    <2>2. native' = [native EXCEPT ![c] = x]
        BY <1>2, <1>3, <2>1, ToolFacts DEF W!Acknowledged
    <2>3. (native[c].cancelled \/ W!Unwanted(c) \/ lost) = cancelled
        BY <1>4, CallFacts DEF Invocation
    <2>4. x = v
        BY <1>5, <2>1, <2>3
    <2> QED
        BY <2>2, <2>4
<1>8. PICK k : /\ call' = [call EXCEPT ![c] = k]
               /\ ~waits => k = call[c]
               /\ waits /\ (W!Unwanted(c) \/ lost) => k = W!Ended(call[c], "unknown")
               /\ waits /\ ~(W!Unwanted(c) \/ lost) =>
                    IF c \in ctl.early THEN k = W!Settled(c) ELSE k = [call[c] EXCEPT !.at = "pending"]
    <2>1. PICK k : k = IF ~waits THEN call[c]
                       ELSE IF W!Unwanted(c) \/ lost THEN W!Ended(call[c], "unknown")
                       ELSE IF c \in ctl.early THEN W!Settled(c) ELSE [call[c] EXCEPT !.at = "pending"]
        OBVIOUS
    <2>2. call' = [call EXCEPT ![c] = k]
        BY <1>2, <1>3, <2>1, ToolFacts DEF W!Acknowledged
    <2> QED
        BY <2>1, <2>2
<1>9. [call[c] EXCEPT !.at = "pending"] \in ToolCall /\ [call[c] EXCEPT !.at = "pending"].at = "pending"
      /\ [call[c] EXCEPT !.at = "pending"].outcome = call[c].outcome
      /\ [call[c] EXCEPT !.at = "pending"].kind = call[c].kind
    BY CallFacts DEF ToolCall
<1>10. /\ k \in ToolCall /\ (k.outcome = "done" => call[c].outcome = "done")
       /\ waits => k.at \in {"over", "checking", "pending"} /\ k.kind = call[c].kind
       /\ k.at = "checking" /\ waits => c \in ctl.early
       /\ waits /\ k.at = "over" => W!Unwanted(c) \/ lost \/ c \in ctl.early
    <2>1. CASE ~waits
        BY <1>8, <2>1, CallFacts
    <2>2. CASE waits /\ (W!Unwanted(c) \/ lost)
        BY <1>8, <2>2, CallFacts, EndedIs DEF Outcomes
    <2>3. CASE waits /\ ~(W!Unwanted(c) \/ lost)
        BY <1>8, <1>9, <2>3, SettledIs
    <2> QED
        BY <2>1, <2>2, <2>3
<1>11. PICK early \in SUBSET Calls, overflow \in BOOLEAN :
          early \subseteq ctl.early /\ ctl' = [ctl EXCEPT !.early = early, !.overflow = overflow]
    <2>1. ctl = [ctl EXCEPT !.early = ctl.early, !.overflow = ctl.overflow] /\ ctl.early \in SUBSET Calls
          /\ ctl.overflow \in BOOLEAN
        BY ToolFacts DEF Controller
    <2>2. CASE ctl' = ctl
        BY <2>1, <2>2
    <2>3. CASE ctl' = [ctl EXCEPT !.overflow = FALSE, !.early = {}]
        BY <2>3
    <2>4. ASSUME NEW e \in {{}, ctl.early \ {c}}, ctl' = [ctl EXCEPT !.early = e]
          PROVE  \E early \in SUBSET Calls, overflow \in BOOLEAN :
                    early \subseteq ctl.early /\ ctl' = [ctl EXCEPT !.early = early, !.overflow = overflow]
        <3>1. ctl' = [ctl EXCEPT !.early = e, !.overflow = ctl.overflow]
            BY <2>4, ToolFacts DEF Controller
        <3>2. e \in SUBSET Calls /\ e \subseteq ctl.early
            BY <2>1
        <3> QED
            BY <2>1, <3>1, <3>2
    <2>5. \/ ctl' = ctl \/ ctl' = [ctl EXCEPT !.overflow = FALSE, !.early = {}]
          \/ \E e \in {{}, ctl.early \ {c}} : ctl' = [ctl EXCEPT !.early = e]
        BY DEF W!Acknowledged
    <2> QED
        BY <2>2, <2>3, <2>4, <2>5
<1>12. /\ ctl' \in Controller /\ ctl'.early = early /\ ctl'.closed = ctl.closed
       /\ ctl'.document = ctl.document /\ Moves(ctl, ctl', switches')
       /\ CatalogueOK(document', queue', ctl', switches') /\ queue' \in Seq(QueuedOperation)
    BY <1>1, <1>11, Overtaken
<1>13. ~waits /\ call[c].at = "over" /\ native[c].is = "running" => cancelled
    BY <1>1, <1>4, CallFacts DEF InvocationOK, W!Unwanted
<1>14. InvocationOK(c, k, v, ctl')
    <2>1. CASE waits
        BY <1>1, <1>2, <1>4, <1>6, <1>10, <1>11, <1>12, <2>1, CallFacts DEF InvocationOK
    <2>2. CASE ~waits
        BY <1>1, <1>2, <1>6, <1>8, <1>11, <1>12, <1>13, <2>2, CallFacts DEF InvocationOK
    <2> QED
        BY <2>1, <2>2
<1>15. ListOK(k, ctl', switches')
    <2>1. CASE waits
        BY <1>10, <2>1 DEF ListOK
    <2>2. CASE ~waits
        <3>1. ListOK(k, ctl, switches)
            BY <1>8, <2>2, CallFacts
        <3>2. switches' = switches /\ Moves(ctl, ctl', switches) /\ ctl'.closed = ctl.closed
            BY <1>1, <1>12
        <3>3. ctl'.revision \in Nat /\ ctl.revision \in Nat /\ k.revision \in Nat
            BY <1>10, <1>12, ToolFacts DEF Controller, ToolCall
        <3> QED
            BY <3>1, <3>2, <3>3 DEF ListOK, Moves
    <2> QED
        BY <2>1, <2>2
<1>16. AnswerOK(call[c], k)
    BY <1>10 DEF AnswerOK
<1> QED
    BY <1>1, <1>6, <1>7, <1>8, <1>10, <1>11, <1>12, <1>14, <1>15, <1>16, ToolFacts, OneCall

LEMMA RespondedKeeps ==
    ASSUME ToolInv, NEW c \in Calls, W!Responded(c) PROVE ToolInv' /\ Answered
<1>1. UNCHANGED <<document, queue, handed, switches>> /\ native[c].is = "running"
    BY DEF W!Responded
<1>2. PICK how \in {"responded", "failed"} : native' = [native EXCEPT ![c].is = how]
    BY DEF W!Responded
<1>3. PICK v : v = [native[c] EXCEPT !.is = how]
    OBVIOUS
<1>4. v \in Invocation /\ v.is \in {"responded", "failed"} /\ v.acknowledged = native[c].acknowledged
    BY <1>3, CallFacts DEF Invocation
<1>5. native' = [native EXCEPT ![c] = v]
    BY <1>2, <1>3, ToolFacts
<1>6. PICK k : call' = [call EXCEPT ![c] = k] /\ (k = call[c] \/ (call[c].at = "pending" /\ k = W!Settled(c)))
    <2>1. \/ call' = [call EXCEPT ![c] = call[c]]
          \/ (call[c].at = "pending" /\ call' = [call EXCEPT ![c] = W!Settled(c)])
        BY CallFacts DEF W!Responded
    <2>2. CASE call' = [call EXCEPT ![c] = call[c]]
        <3>1. PICK k : k = call[c]
            OBVIOUS
        <3> QED
            BY <2>2, <3>1
    <2>3. CASE call[c].at = "pending" /\ call' = [call EXCEPT ![c] = W!Settled(c)]
        <3>1. PICK k : k = W!Settled(c)
            OBVIOUS
        <3> QED
            BY <2>3, <3>1
    <2> QED
        BY <2>1, <2>2, <2>3
<1>7. /\ k \in ToolCall /\ (k.outcome = "done" => call[c].outcome = "done") /\ k.kind = call[c].kind
      /\ k = call[c] \/ (call[c].at = "pending" /\ k.at \in {"over", "checking"})
    BY <1>6, CallFacts, SettledIs
<1>8. PICK early \in SUBSET Calls, overflow \in BOOLEAN :
          early \subseteq ctl.early \cup {c} /\ ctl' = [ctl EXCEPT !.early = early, !.overflow = overflow]
    <2>1. ctl.early \in SUBSET Calls /\ ctl.overflow \in BOOLEAN /\ ctl.early \cup {c} \in SUBSET Calls
        BY ToolFacts DEF Controller
    <2>2. ctl' = ctl \/ ctl' = [ctl EXCEPT !.early = @ \cup {c}] \/ ctl' = [ctl EXCEPT !.overflow = TRUE]
        BY DEF W!Responded
    <2>3. \/ ctl' = [ctl EXCEPT !.early = ctl.early, !.overflow = ctl.overflow]
          \/ ctl' = [ctl EXCEPT !.early = ctl.early \cup {c}, !.overflow = ctl.overflow]
          \/ ctl' = [ctl EXCEPT !.early = ctl.early, !.overflow = TRUE]
        BY <2>2, ToolFacts DEF Controller
    <2> QED
        BY <2>1, <2>3
<1>9. /\ ctl' \in Controller /\ ctl'.early = early /\ ctl'.closed = ctl.closed
      /\ ctl'.document = ctl.document /\ Moves(ctl, ctl', switches')
      /\ CatalogueOK(document', queue', ctl', switches') /\ queue' \in Seq(QueuedOperation)
    BY <1>1, <1>8, Overtaken
<1>10. InvocationOK(c, k, v, ctl')
    BY <1>1, <1>4, <1>7, CallFacts DEF InvocationOK
<1>11. ListOK(k, ctl', switches')
    <2>1. ListOK(k, ctl, switches)
        BY <1>7, CallFacts DEF ListOK
    <2>2. switches' = switches /\ Moves(ctl, ctl', switches) /\ ctl'.closed = ctl.closed
        BY <1>1, <1>9
    <2>3. ctl'.revision \in Nat /\ ctl.revision \in Nat /\ k.revision \in Nat
        BY <1>7, <1>9, ToolFacts DEF Controller, ToolCall
    <2> QED
        BY <2>1, <2>2, <2>3 DEF ListOK, Moves
<1>12. AnswerOK(call[c], k)
    BY <1>7 DEF AnswerOK
<1> QED
    BY <1>1, <1>4, <1>5, <1>6, <1>7, <1>8, <1>9, <1>10, <1>11, <1>12, ToolFacts, OneCall

LEMMA ResultVerifiedKeeps ==
    ASSUME ToolInv, NEW c \in Calls, W!ResultVerified(c) PROVE ToolInv' /\ Answered
<1>1. UNCHANGED <<document, queue, handed, switches>> /\ call[c].at = "checking"
    BY DEF W!ResultVerified
<1>2. CASE ~W!Verified(c)
    <2>1. W!FoundOut(c)
        BY <1>2 DEF W!ResultVerified
    <2> QED
        BY <1>1, <2>1, FoundOutKeeps
<1>3. CASE W!Verified(c)
    <2>1. UNCHANGED <<ctl, native>> /\ ctl.document = call[c].document /\ document.document = ctl.document
        BY <1>3 DEF W!ResultVerified, W!Verified
    <2>2. PICK how \in {"done", "unknown"} : how = (IF call[c].aborted THEN "unknown" ELSE "done")
        OBVIOUS
    <2>3. PICK k : k = W!Ended(call[c], how)
        OBVIOUS
    <2>4. k \in ToolCall /\ k.at = "over" /\ k.outcome = how
        BY <2>3, CallFacts, EndedIs DEF Outcomes
    <2>5. call' = [call EXCEPT ![c] = k]
        BY <1>3, <2>2, <2>3 DEF W!ResultVerified
    <2>6. call[c].kind = "invoke" /\ native[c].is \in {"responded", "failed"}
        BY <1>1, CallFacts DEF InvocationOK
    <2>7. InvocationOK(c, k, native[c], ctl) /\ ListOK(k, ctl, switches) /\ AnswerOK(call[c], k)
        BY <1>1, <2>1, <2>4, <2>6, CallFacts DEF InvocationOK, ListOK, AnswerOK
    <2> QED
        BY <1>1, <2>1, <2>4, <2>5, <2>7, CallFacts, ToolFacts, OneCallOnly
<1> QED
    BY <1>2, <1>3

-----------------------------------------------------------------------------
(* WebMCP: the theorems                                                    *)

LEMMA ToolsStart ==
    ASSUME W!WebMcpInit PROVE ToolInv
<1>1. /\ document \in Shown /\ document.listening = FALSE
    <2>1. document \in [document : {1}, tools : SUBSET Names, listening : {FALSE}]
        BY DEF W!WebMcpInit
    <2>2. PICK tools \in SUBSET Names : document = [document |-> 1, tools |-> tools, listening |-> FALSE]
        BY <2>1
    <2> QED
        BY <2>2 DEF Shown
<1>2. /\ ctl \in Controller /\ ctl.closed = FALSE /\ ctl.tools = {} /\ ctl.early = {} /\ ctl.enabled = FALSE
    BY DEF W!WebMcpInit, Controller
<1>3. queue \in Seq(QueuedOperation) /\ Len(queue) = 0 /\ handed \subseteq Reference /\ switches \in Nat
    BY DEF W!WebMcpInit
<1>4. ASSUME NEW c \in Calls
      PROVE  call[c] \in ToolCall /\ call[c].at = "idle"
    <2>1. call[c] \in [kind : W!Kinds, at : {"idle"}, document : {0}, tools : {{}},
                       revision : {0}, aborted : {FALSE}, reference : {W!NoReference}, outcome : {"none"}]
        BY DEF W!WebMcpInit
    <2>2. PICK none \in Reference : none = W!NoReference
        BY DEF W!NoReference, Reference
    <2>3. PICK kind \in {"list", "invoke"} :
            call[c] = [kind |-> kind, at |-> "idle", document |-> 0, tools |-> {}, revision |-> 0,
                       aborted |-> FALSE, reference |-> none, outcome |-> "none"]
        BY <2>1, <2>2 DEF W!Kinds
    <2> QED
        BY <2>3 DEF ToolCall, Outcomes
<1>5. call \in [Calls -> ToolCall]
    BY <1>4 DEF W!WebMcpInit
<1>6. /\ native \in [Calls -> Invocation]
      /\ \A c \in Calls : native[c].is = "none" /\ ~native[c].acknowledged
    BY DEF W!WebMcpInit, Invocation
<1>7. \A c \in Calls : CallOK(c)
    BY <1>2, <1>4, <1>6 DEF CallOK, InvocationOK, ListOK
<1>8. CatalogueOK(document, queue, ctl, switches)
    BY <1>1, <1>2, <1>3 DEF CatalogueOK, QueueOK
<1> QED
    BY <1>1, <1>2, <1>3, <1>5, <1>6, <1>7, <1>8 DEF ToolInv, ToolTypes

LEMMA ToolsRest ==
    ASSUME ToolInv, UNCHANGED webMcpVars PROVE ToolInv' /\ Answered
<1>1. UNCHANGED <<document, ctl, queue, call, native, handed, switches>>
    BY DEF webMcpVars
<1> QED
    BY <1>1, ToolFacts, CallsStay DEF CatalogueOK

LEMMA ToolsGoOn ==
    ASSUME ToolInv, [MCNext]_<<machine, vars, webMcpVars, sessionVars>> PROVE ToolInv' /\ Answered
<1>1. CASE WebMcpRuns
    <2>1. W!WebMcpNext
        BY <1>1 DEF WebMcpRuns
    <2>2. ASSUME NEW c \in Calls,
                 \/ W!Execute(c) \/ W!Abort(c) \/ W!Described(c) \/ W!PolicyFails(c)
                 \/ W!ListVerified(c) \/ W!InvokeVerified(c) \/ W!Started(c) \/ W!InvocationRefused(c)
                 \/ W!Acknowledged(c) \/ W!Responded(c) \/ W!ResultVerified(c)
          PROVE  ToolInv' /\ Answered
        BY <2>2, ExecuteKeeps, AbortKeeps, DescribedKeeps, PolicyFailsKeeps, ListVerifiedKeeps,
           InvokeVerifiedKeeps, StartedKeeps, InvocationRefusedKeeps, AcknowledgedKeeps, RespondedKeeps,
           ResultVerifiedKeeps
    <2>3. ASSUME NEW n \in Names, W!ToolAdded(n) \/ W!ToolRemoved(n) PROVE ToolInv' /\ Answered
        BY <2>3, ToolAddedKeeps, ToolRemovedKeeps
    <2>4. ASSUME NEW tools \in SUBSET Names, W!Navigate(tools) PROVE ToolInv' /\ Answered
        BY <2>4, NavigateKeeps
    <2>5. ASSUME NEW does \in {"on", "off"}, W!SetActive(does) PROVE ToolInv' /\ Answered
        BY <2>5, SetActiveKeeps
    <2>6. CASE \/ W!Navigated \/ W!Dispose \/ W!PrepareReads \/ W!PrepareDisabled \/ W!PrepareEnabled
               \/ W!PrepareUnsupported \/ W!Deactivated
        BY <2>6, NavigatedKeeps, DisposeKeeps, PrepareReadsKeeps, PrepareDisabledKeeps, PrepareEnabledKeeps,
           PrepareUnsupportedKeeps, DeactivatedKeeps
    <2> QED
        BY <2>1, <2>2, <2>3, <2>4, <2>5, <2>6 DEF W!WebMcpNext
<1>2. CASE ~WebMcpRuns
    <2>1. UNCHANGED webMcpVars
        BY <1>2 DEF MCNext, ScopesRun, TabRuns
    <2> QED
        BY <2>1, ToolsRest
<1> QED
    BY <1>1, <1>2

(* No tool runs in the page for a call that is over, its identifier known, *)
(* without having been asked to stop: whatever navigation, abort, lost     *)
(* response or end of the generation ended the call (invalidate, dispose   *)
(* and invoke in webmcp.ts).                                               *)
THEOREM InvocationsAreHeard == MCSpec => []NothingRunsUnheard
<1>1. MCInit => ToolInv
    BY ToolsStart DEF MCInit
<1>2. ToolInv /\ [MCNext]_<<machine, vars, webMcpVars, sessionVars>> => ToolInv'
    BY ToolsGoOn
<1>3. ToolInv => NothingRunsUnheard
    BY DEF ToolInv, CallOK, InvocationOK, NothingRunsUnheard, W!NothingRunsUnheard
<1> QED
    BY <1>1, <1>2, <1>3, PTL DEF MCSpec

(* A result is handed to the caller only while the document it was made    *)
(* for is shown, a list only with the catalogue as it is                   *)
(* (verifyDocument and list in webmcp.ts).                                 *)
THEOREM AnswersAreOfThePage == MCSpec => AnswersAreCurrent
<1>1. MCInit => ToolInv
    BY ToolsStart DEF MCInit
<1>2. ToolInv /\ [MCNext]_<<machine, vars, webMcpVars, sessionVars>> => ToolInv'
    BY ToolsGoOn
<1>3. ToolInv /\ [MCNext]_<<machine, vars, webMcpVars, sessionVars>>
        => [\A c \in Calls : call[c].outcome # "done" /\ call'[c].outcome = "done" =>
              /\ call[c].document = document.document
              /\ call[c].kind = "list" /\ switches = 0 => call[c].tools = ctl.tools]_(W!webMcpVars)
    BY ToolsGoOn DEF Answered, AnswerOK
<1> QED
    BY <1>1, <1>2, <1>3, PTL DEF MCSpec, AnswersAreCurrent, W!AnswersAreCurrent

-----------------------------------------------------------------------------
(* A tab: its children.  TabSessions!NoChildLeftWaiting follows from what  *)
(* is true of each child and the state of the publication.                 *)

Phases == {"idle", "disposing", "revoking", "publishing", "withdrawing", "gone"}
Going == {"configuring", "enabling", "resuming", "rescuing"}

Child ==
    [is : {"none", "waiting", "running", "gone"}, setup : {"none", "dropping", "over"} \cup Going,
     issue : Nat, above : SUBSET Children]

DemandCall == [session : T!Sessions, prefix : Prefixes, on : BOOLEAN]

TabTypes ==
    /\ tab \in [generation : Int, phase : Phases] /\ child \in [Children -> Child]
    /\ wanted \in [T!Sessions -> SUBSET Prefixes] /\ demands \in [T!Sessions -> SUBSET Prefixes]
    /\ domainOn \in [T!Sessions -> BOOLEAN] /\ calls \in Seq(DemandCall)

(* A child that waits is on its way, unless the debugger leaves the tab;   *)
(* its public session is one of a child that is there.                     *)
ChildOK(k, at) ==
    /\ k.is = "waiting" => at = "withdrawing" \/ k.setup \in Going
    /\ at = "gone" => k.is \in {"none", "gone"}
    /\ k.issue # 0 => k.is \in {"waiting", "running"}
    /\ at \in {"withdrawing", "gone"} => k.issue = 0

ChildrenOK == \A c \in Children : ChildOK(child[c], tab.phase)

TabInv == TabTypes /\ ChildrenOK

LEMMA TabFacts ==
    ASSUME TabInv
    PROVE  /\ tab \in [generation : Int, phase : Phases] /\ tab.phase \in Phases /\ tab.generation \in Int
           /\ child \in [Children -> Child]
           /\ wanted \in [T!Sessions -> SUBSET Prefixes] /\ demands \in [T!Sessions -> SUBSET Prefixes]
           /\ domainOn \in [T!Sessions -> BOOLEAN] /\ calls \in Seq(DemandCall)
           /\ \A c \in Children : child[c] \in Child /\ ChildOK(child[c], tab.phase)
           /\ Children \subseteq T!Sessions /\ Root \in T!Sessions /\ Root \notin Children
BY MachinesAssumption DEF TabInv, TabTypes, ChildrenOK, T!Sessions, T!TabSessionsAssumption

LEMMA RenewedIs ==
    ASSUME TabInv, NEW c \in Children
    PROVE  /\ T!Renewed \in [Children -> Child] /\ T!Renewed[c].is = child[c].is
           /\ T!Renewed[c].setup = child[c].setup /\ (T!Renewed[c].issue # 0 <=> child[c].issue # 0)
<1>1. ASSUME NEW d \in Children
      PROVE  /\ T!Renewed[d] \in Child /\ T!Renewed[d].is = child[d].is
             /\ T!Renewed[d].setup = child[d].setup /\ (T!Renewed[d].issue # 0 <=> child[d].issue # 0)
    <2>1. child[d] \in Child /\ d # Root
        BY TabFacts
    <2>2. T!Renewed[d] = IF child[d].issue # 0 THEN [child[d] EXCEPT !.issue = @ + 1] ELSE child[d]
        BY <2>1 DEF T!Renewed, T!Known, T!Issue
    <2>3. child[d].issue + 1 \in Nat /\ child[d].issue + 1 # 0
        BY <2>1 DEF Child
    <2> QED
        BY <2>1, <2>2, <2>3 DEF Child
<1>2. T!Renewed \in [Children -> Child]
    BY <1>1 DEF T!Renewed
<1> QED
    BY <1>1, <1>2

LEMMA LostIs ==
    ASSUME TabInv, NEW ss \in SUBSET T!Sessions, T!Lost(ss)
    PROVE  /\ wanted' \in [T!Sessions -> SUBSET Prefixes] /\ demands' \in [T!Sessions -> SUBSET Prefixes]
           /\ \A s \in ss : wanted'[s] = {} /\ demands'[s] = {}
           /\ \A s \in T!Sessions \ ss : wanted'[s] = wanted[s] /\ demands'[s] = demands[s]
BY TabFacts DEF T!Lost

(* A child goes, and the sessions inside it with it.                       *)
LEMMA DetachingIs ==
    ASSUME TabInv, NEW c \in Children, NEW setup \in {"none", "dropping", "over"} \cup Going, T!Detaching(c, setup)
    PROVE  /\ child' \in [Children -> Child] /\ domainOn' \in [T!Sessions -> BOOLEAN]
           /\ T!Below(c) \subseteq Children
           /\ \A d \in T!Below(c) : child'[d].is \in {"none", "gone"} /\ child'[d].issue = 0
           /\ \A d \in Children \ T!Below(c) : child'[d] = child[d]
           /\ \A s \in T!Sessions \ T!Below(c) : domainOn'[s] = domainOn[s]
           /\ T!Lost(T!Below(c))
<1>1. T!Below(c) \subseteq Children
    BY DEF T!Below
<1>2. ASSUME NEW d \in Children
      PROVE  /\ child'[d] \in Child
             /\ d \in T!Below(c) => child'[d].is \in {"none", "gone"} /\ child'[d].issue = 0
             /\ d \notin T!Below(c) => child'[d] = child[d]
    <2>1. CASE d \notin T!Below(c)
        BY <2>1, TabFacts DEF T!Detaching
    <2>2. CASE d \in T!Below(c)
        <3>1. PICK is \in {"none", "gone"} : is = (IF child[d].is = "none" THEN child[d].is ELSE "gone")
            BY TabFacts DEF Child
        <3>2. PICK goes \in {"none", "dropping", "over"} \cup Going : goes = (IF d = c THEN setup ELSE child[d].setup)
            BY TabFacts DEF Child
        <3>3. child'[d] = [child[d] EXCEPT !.is = is, !.issue = 0, !.setup = goes]
            BY <2>2, <3>1, <3>2 DEF T!Detaching
        <3>4. PICK k \in Child : k = child[d]
            BY TabFacts
        <3>5. /\ [k EXCEPT !.is = is, !.issue = 0, !.setup = goes] \in Child
              /\ [k EXCEPT !.is = is, !.issue = 0, !.setup = goes].is = is
              /\ [k EXCEPT !.is = is, !.issue = 0, !.setup = goes].issue = 0
            BY DEF Child
        <3> QED
            BY <2>2, <3>3, <3>4, <3>5
    <2> QED
        BY <2>1, <2>2
<1>3. child' \in [Children -> Child]
    BY <1>2 DEF T!Detaching
<1>4. domainOn' = [s \in T!Sessions |-> domainOn[s] /\ s \notin T!Below(c)] /\ T!Lost(T!Below(c))
    BY DEF T!Detaching
<1>5. domainOn' \in [T!Sessions -> BOOLEAN] /\ \A s \in T!Sessions \ T!Below(c) : domainOn'[s] = domainOn[s]
    BY <1>4, TabFacts
<1> QED
    BY <1>1, <1>2, <1>3, <1>4, <1>5

LEMMA AppendCall ==
    ASSUME NEW q \in Seq(DemandCall), NEW o \in DemandCall
    PROVE  /\ Append(q, o) \in Seq(DemandCall) /\ Len(Append(q, o)) = Len(q) + 1 /\ Len(q) \in Nat
           /\ \A i \in 1 .. Len(q) : Append(q, o)[i] = q[i]
           /\ Append(q, o)[Len(q) + 1] = o
OBVIOUS

LEMMA CallsWithoutIs ==
    ASSUME calls \in Seq(DemandCall), NEW i \in 1 .. Len(calls)
    PROVE  /\ T!CallsWithout(i) \in Seq(DemandCall) /\ Len(calls) \in Nat
           /\ Len(T!CallsWithout(i)) = Len(calls) - 1
           /\ \A j \in 1 .. Len(calls) - 1 :
                T!CallsWithout(i)[j] = IF j < i THEN calls[j] ELSE calls[j + 1]
<1>1. Len(calls) \in Nat /\ i \in Int /\ i >= 1 /\ i <= Len(calls)
    BY LenProperties
<1>2. PICK q : q = SubSeq(calls, 1, i - 1)
    OBVIOUS
<1>3. PICK r : r = SubSeq(calls, i + 1, Len(calls))
    OBVIOUS
<1>4. /\ q \in Seq(DemandCall) /\ Len(q) = i - 1 /\ \A j \in 1 .. i - 1 : q[j] = calls[j]
    <2>1. \A j \in 1 .. i - 1 : calls[j] \in DemandCall
        BY <1>1, ElementOfSeq
    <2>2. /\ q \in Seq(DemandCall) /\ Len(q) = (IF 1 <= i - 1 THEN (i - 1) - 1 + 1 ELSE 0)
          /\ \A j \in 1 .. (i - 1) - 1 + 1 : q[j] = calls[1 + j - 1]
        BY <1>1, <1>2, <2>1, SubSeqProperties
    <2> QED
        BY <1>1, <2>2
<1>5. /\ r \in Seq(DemandCall) /\ Len(r) = Len(calls) - i
      /\ \A j \in 1 .. Len(calls) - i : r[j] = calls[i + j]
    <2>1. \A j \in i + 1 .. Len(calls) : calls[j] \in DemandCall
        BY <1>1, ElementOfSeq
    <2>2. /\ r \in Seq(DemandCall) /\ Len(r) = (IF i + 1 <= Len(calls) THEN Len(calls) - (i + 1) + 1 ELSE 0)
          /\ \A j \in 1 .. Len(calls) - (i + 1) + 1 : r[j] = calls[(i + 1) + j - 1]
        BY <1>1, <1>3, <2>1, SubSeqProperties
    <2>3. \A j \in 1 .. Len(calls) - i : (i + 1) + j - 1 = i + j
        BY <1>1
    <2>4. \A j \in 1 .. Len(calls) - i : r[j] = calls[i + j]
        BY <1>1, <2>2, <2>3
    <2> QED
        BY <1>1, <2>2, <2>4
<1>6. /\ q \o r \in Seq(DemandCall) /\ Len(q \o r) = Len(q) + Len(r)
      /\ \A j \in 1 .. Len(q) + Len(r) : (q \o r)[j] = IF j <= Len(q) THEN q[j] ELSE r[j - Len(q)]
    BY <1>4, <1>5, ConcatProperties
<1>7. T!CallsWithout(i) = q \o r
    BY <1>2, <1>3 DEF T!CallsWithout
<1>8. ASSUME NEW j \in 1 .. Len(calls) - 1
      PROVE  (q \o r)[j] = IF j < i THEN calls[j] ELSE calls[j + 1]
    <2>1. CASE j < i
        BY <1>1, <1>4, <1>5, <1>6, <2>1
    <2>2. CASE j >= i
        <3>1. j - Len(q) \in 1 .. Len(calls) - i /\ i + (j - Len(q)) = j + 1 /\ j > Len(q)
            BY <1>1, <1>4, <2>2
        <3>2. (q \o r)[j] = r[j - Len(q)]
            BY <1>1, <1>4, <1>5, <1>6, <3>1
        <3> QED
            BY <1>1, <1>5, <2>2, <3>1, <3>2
    <2>3. j < i \/ j >= i
        BY <1>1
    <2> QED
        BY <2>1, <2>2, <2>3
<1>9. Len(q \o r) = Len(calls) - 1
    BY <1>1, <1>4, <1>5, <1>6
<1> QED
    BY <1>1, <1>6, <1>7, <1>8, <1>9

(* A step keeps the invariant if it keeps what is true of each child.      *)
LEMMA TabStep ==
    ASSUME TabInv, tab' \in [generation : Int, phase : Phases], child' \in [Children -> Child],
           wanted' \in [T!Sessions -> SUBSET Prefixes], demands' \in [T!Sessions -> SUBSET Prefixes],
           domainOn' \in [T!Sessions -> BOOLEAN], calls' \in Seq(DemandCall),
           \A c \in Children : ChildOK(child'[c], tab'.phase)
    PROVE  TabInv'
<1>1. TabTypes'
    BY DEF TabTypes, T!Sessions, Child, DemandCall, Phases
<1>2. ChildrenOK'
    BY DEF ChildrenOK, ChildOK
<1> QED
    BY <1>1, <1>2 DEF TabInv

LEMMA OneChild ==
    ASSUME TabInv, NEW c \in Children, NEW k \in Child, child' = [child EXCEPT ![c] = k],
           ChildOK(k, tab.phase), UNCHANGED <<tab, wanted, demands, calls>>,
           domainOn' \in [T!Sessions -> BOOLEAN]
    PROVE  TabInv'
<1>1. child' \in [Children -> Child] /\ \A d \in Children : ChildOK(child'[d], tab'.phase)
    BY TabFacts
<1> QED
    BY <1>1, TabFacts, TabStep

LEMMA ChildrenStay ==
    ASSUME TabInv, child' = child, tab' \in [generation : Int, phase : Phases],
           tab'.phase = tab.phase \/ {tab.phase, tab'.phase} \subseteq Phases \ {"withdrawing", "gone"},
           wanted' \in [T!Sessions -> SUBSET Prefixes], demands' \in [T!Sessions -> SUBSET Prefixes],
           domainOn' \in [T!Sessions -> BOOLEAN], calls' \in Seq(DemandCall)
    PROVE  TabInv'
<1>1. \A d \in Children : ChildOK(child'[d], tab'.phase)
    BY TabFacts DEF ChildOK
<1> QED
    BY <1>1, TabFacts, TabStep

LEMMA NobodyWants ==
    /\ [s \in T!Sessions |-> {}] \in [T!Sessions -> SUBSET Prefixes]
    /\ \A s \in T!Sessions : [x \in T!Sessions |-> {}][s] = {}
OBVIOUS

(* What the steps of the publication do to it                              *)
LEMMA PublicationSteps ==
    ASSUME TabInv,
           \/ T!RenewStarts \/ T!RenewDisposed \/ T!RenewRevoked \/ T!RenewPublished \/ T!RenewFails
           \/ T!RevokeStarts \/ T!RevokeDetached
    PROVE  /\ tab' \in [generation : Int, phase : Phases] /\ calls' = calls
           /\ T!RenewStarts => tab.phase = "idle" /\ tab'.phase = "disposing"
           /\ T!RenewDisposed => tab.phase = "disposing" /\ tab'.phase = "revoking"
           /\ T!RenewRevoked => tab.phase = "revoking" /\ tab'.phase = "publishing"
           /\ T!RenewPublished => tab.phase = "publishing" /\ tab'.phase = "idle"
           /\ T!RenewFails => tab.phase \in {"revoking", "publishing"} /\ tab'.phase = "idle"
           /\ T!RevokeStarts => tab.phase = "idle" /\ tab'.phase = "withdrawing"
           /\ T!RevokeDetached => tab.phase = "withdrawing" /\ tab'.phase = "gone"
           /\ T!RenewRevoked \/ T!RenewFails \/ T!RevokeStarts =>
                offered' = 0 /\ wanted' = [s \in T!Sessions |-> {}]
           /\ T!RenewStarts \/ T!RenewDisposed \/ T!RenewPublished \/ T!RevokeDetached => wanted' = wanted
           /\ T!RenewStarts \/ T!RenewDisposed \/ T!RevokeDetached => offered' = offered
           /\ T!RenewStarts \/ T!RevokeStarts => demands' = [s \in T!Sessions |-> {}]
           /\ T!RenewDisposed \/ T!RenewRevoked \/ T!RenewPublished \/ T!RenewFails \/ T!RevokeDetached => demands' = demands
           /\ T!RenewDisposed \/ T!RenewRevoked \/ T!RenewPublished \/ T!RenewFails => child' = child
           /\ T!RevokeDetached => domainOn' = [s \in T!Sessions |-> FALSE]
           /\ ~T!RevokeDetached => domainOn' = domainOn
<1>1. tab \in [generation : Int, phase : Phases] /\ tab.generation + 1 \in Int /\ tab.generation - 1 \in Int
    BY TabFacts
<1>2. CASE T!RenewStarts
    BY <1>1, <1>2 DEF T!RenewStarts, T!RenewDisposed, T!RenewRevoked, T!RenewPublished, T!RenewFails, T!RevokeStarts, T!RevokeDetached, T!broker, Phases
<1>3. CASE T!RenewDisposed
    BY <1>1, <1>3 DEF T!RenewStarts, T!RenewDisposed, T!RenewRevoked, T!RenewPublished, T!RenewFails, T!RevokeStarts, T!RevokeDetached, T!broker, T!sessions, Phases
<1>4. CASE T!RenewRevoked
    BY <1>1, <1>4 DEF T!RenewStarts, T!RenewDisposed, T!RenewRevoked, T!RenewPublished, T!RenewFails, T!RevokeStarts, T!RevokeDetached, T!Withdrawn, T!sessions, Phases
<1>5. CASE T!RenewPublished
    BY <1>1, <1>5 DEF T!RenewStarts, T!RenewDisposed, T!RenewRevoked, T!RenewPublished, T!RenewFails, T!RevokeStarts, T!RevokeDetached, T!Withdrawn, T!sessions, Phases
<1>6. CASE T!RenewFails
    BY <1>1, <1>6 DEF T!RenewStarts, T!RenewDisposed, T!RenewRevoked, T!RenewPublished, T!RenewFails, T!RevokeStarts, T!RevokeDetached, T!Withdrawn, T!sessions, Phases
<1>7. CASE T!RevokeStarts
    BY <1>1, <1>7 DEF T!RenewStarts, T!RenewDisposed, T!RenewRevoked, T!RenewPublished, T!RenewFails, T!RevokeStarts, T!RevokeDetached, T!Withdrawn, Phases
<1>8. CASE T!RevokeDetached
    BY <1>1, <1>8 DEF T!RenewStarts, T!RenewDisposed, T!RenewRevoked, T!RenewPublished, T!RenewFails, T!RevokeStarts, T!RevokeDetached, T!broker, Phases
<1> QED
    BY <1>2, <1>3, <1>4, <1>5, <1>6, <1>7, <1>8

LEMMA PublicationKeeps ==
    ASSUME TabInv,
           \/ T!RenewStarts \/ T!RenewDisposed \/ T!RenewRevoked \/ T!RenewPublished \/ T!RenewFails
           \/ T!RevokeStarts \/ T!RevokeDetached
    PROVE  TabInv'
<1>1. /\ tab' \in [generation : Int, phase : Phases] /\ calls' \in Seq(DemandCall)
      /\ wanted' \in [T!Sessions -> SUBSET Prefixes] /\ demands' \in [T!Sessions -> SUBSET Prefixes]
      /\ domainOn' \in [T!Sessions -> BOOLEAN]
    BY TabFacts, PublicationSteps, NobodyWants
<1>2. CASE T!RenewStarts
    <2>1. child' = T!Renewed /\ tab.phase = "idle" /\ tab'.phase = "disposing"
        BY <1>2, PublicationSteps DEF T!RenewStarts
    <2>2. \A c \in Children : /\ T!Renewed[c].is = child[c].is /\ T!Renewed[c].setup = child[c].setup
                              /\ (T!Renewed[c].issue # 0 <=> child[c].issue # 0)
        BY RenewedIs
    <2>3. child' \in [Children -> Child]
        <3>1. CASE Children = {}
            BY <2>1, <3>1 DEF T!Renewed
        <3>2. CASE Children # {}
            BY <2>1, <3>2, RenewedIs
        <3> QED
            BY <3>1, <3>2
    <2>4. \A c \in Children : ChildOK(child'[c], tab'.phase)
        BY <2>1, <2>2, TabFacts DEF ChildOK
    <2> QED
        BY <1>1, <2>3, <2>4, TabStep
<1>3. CASE T!RenewDisposed \/ T!RenewRevoked \/ T!RenewPublished \/ T!RenewFails
    <2>1. child' = child /\ {tab.phase, tab'.phase} \subseteq Phases \ {"withdrawing", "gone"}
        BY <1>3, PublicationSteps DEF Phases
    <2> QED
        BY <1>1, <2>1, ChildrenStay
<1>4. CASE T!RevokeStarts
    <2>1. child' = T!Forgotten /\ tab'.phase = "withdrawing"
        BY <1>4, PublicationSteps DEF T!RevokeStarts
    <2>2. ASSUME NEW c \in Children
          PROVE  child'[c] \in Child /\ ChildOK(child'[c], tab'.phase)
        <3>1. PICK k \in Child : k = child[c]
            BY TabFacts
        <3>2. PICK f : f = [k EXCEPT !.issue = 0]
            OBVIOUS
        <3>3. f \in Child /\ f.is = k.is /\ f.issue = 0
            BY <3>2 DEF Child
        <3>4. child'[c] = f
            BY <2>1, <3>1, <3>2 DEF T!Forgotten
        <3> QED
            BY <2>1, <3>3, <3>4 DEF ChildOK
    <2>3. child' \in [Children -> Child]
        BY <2>1, <2>2 DEF T!Forgotten
    <2> QED
        BY <1>1, <2>2, <2>3, TabStep
<1>5. CASE T!RevokeDetached
    <2>1. tab.phase = "withdrawing" /\ tab'.phase = "gone"
        BY <1>5, PublicationSteps
    <2>2. ASSUME NEW c \in Children
          PROVE  child'[c] \in Child /\ ChildOK(child'[c], tab'.phase)
        <3>1. PICK k \in Child : k = child[c] /\ k.issue = 0
            BY <2>1, TabFacts DEF ChildOK
        <3>2. PICK is \in {"none", "gone"} : is = (IF k.is = "none" THEN k.is ELSE "gone")
            OBVIOUS
        <3>3. PICK f : f = [k EXCEPT !.is = is]
            OBVIOUS
        <3>4. f \in Child /\ f.is = is /\ f.issue = 0
            BY <3>1, <3>3 DEF Child
        <3>5. child'[c] = f
            BY <1>5, <3>1, <3>2, <3>3 DEF T!RevokeDetached
        <3> QED
            BY <2>1, <3>4, <3>5 DEF ChildOK
    <2>3. child' \in [Children -> Child]
        BY <1>5, <2>2 DEF T!RevokeDetached
    <2> QED
        BY <1>1, <2>2, <2>3, TabStep
<1> QED
    BY <1>2, <1>3, <1>4, <1>5

LEMMA RootNavigatesKeeps ==
    ASSUME TabInv, T!RootNavigates PROVE TabInv'
<1>1. child' = T!Renewed /\ T!Lost(Children) /\ UNCHANGED <<tab, domainOn, calls>>
    BY DEF T!RootNavigates, T!publication
<1>2. \A c \in Children : /\ T!Renewed[c].is = child[c].is /\ T!Renewed[c].setup = child[c].setup
                          /\ (T!Renewed[c].issue # 0 <=> child[c].issue # 0)
    BY RenewedIs
<1>3. child' \in [Children -> Child]
    <2>1. CASE Children = {}
        BY <1>1, <2>1 DEF T!Renewed
    <2>2. CASE Children # {}
        BY <1>1, <2>2, RenewedIs
    <2> QED
        BY <2>1, <2>2
<1>4. \A c \in Children : ChildOK(child'[c], tab'.phase)
    BY <1>1, <1>2, TabFacts DEF ChildOK
<1>5. Children \in SUBSET T!Sessions
    BY TabFacts
<1>6. wanted' \in [T!Sessions -> SUBSET Prefixes] /\ demands' \in [T!Sessions -> SUBSET Prefixes]
    BY <1>1, <1>5, LostIs
<1> QED
    BY <1>1, <1>3, <1>4, <1>6, TabFacts, TabStep

LEMMA ChildAttachedKeeps ==
    ASSUME TabInv, NEW c \in Children, NEW parent \in T!Sessions \ {c}, T!ChildAttached(c, parent) PROVE TabInv'
<1>1. UNCHANGED <<tab, wanted, demands, calls, domainOn>> /\ child[c].is = "none"
    BY DEF T!ChildAttached, T!broker
<1>2. tab.phase # "gone"
    BY TabFacts DEF T!ChildAttached, T!Attached, ChildOK, T!Sessions
<1>3. PICK above \in SUBSET Children : above = (IF parent = Root THEN {} ELSE child[parent].above \cup {parent})
    BY TabFacts DEF Child, T!Sessions
<1>4. PICK k : k = [is |-> "waiting", setup |-> IF T!HasTab THEN "configuring" ELSE "none",
                    issue |-> IF T!HasTab THEN 1 ELSE 0, above |-> above]
    OBVIOUS
<1>5. k \in Child
    BY <1>4 DEF Child, Going
<1>6. child' = [child EXCEPT ![c] = k]
    BY <1>3, <1>4 DEF T!ChildAttached
<1>7. ChildOK(k, tab.phase)
    BY <1>2, <1>4, TabFacts DEF ChildOK, Going, T!HasTab, Phases
<1> QED
    BY <1>1, <1>5, <1>6, <1>7, TabFacts, OneChild

(* Steps of the setup of a child                                           *)
LEMMA SetupIs ==
    ASSUME NEW k \in Child, NEW setup \in {"none", "dropping", "over"} \cup Going,
           NEW is \in {"none", "waiting", "running", "gone"}
    PROVE  /\ [k EXCEPT !.setup = setup, !.is = is] \in Child
           /\ [k EXCEPT !.setup = setup, !.is = is].setup = setup
           /\ [k EXCEPT !.setup = setup, !.is = is].is = is
           /\ [k EXCEPT !.setup = setup, !.is = is].issue = k.issue
BY DEF Child

LEMMA SetupKeeps ==
    ASSUME TabInv, NEW c \in Children,
           T!ChildConfigured(c) \/ T!ChildEnabled(c) \/ T!ChildResumed(c) \/ T!SetupFails(c) \/ T!ChildRescued(c)
    PROVE  TabInv'
<1>1. UNCHANGED <<tab, wanted, demands, calls>>
    BY DEF T!ChildConfigured, T!ChildEnabled, T!ChildResumed, T!SetupFails, T!ChildRescued, T!publication, T!broker
<1>2. domainOn' \in [T!Sessions -> BOOLEAN]
    BY TabFacts DEF T!ChildConfigured, T!ChildEnabled, T!ChildResumed, T!SetupFails, T!ChildRescued
<1>3. PICK k \in Child : k = child[c] /\ ChildOK(k, tab.phase)
    BY TabFacts
<1>4. [k EXCEPT !.setup = k.setup, !.is = k.is] = k
    BY DEF Child
<1>5. ASSUME NEW setup \in Going, child' = [child EXCEPT ![c].setup = setup]
      PROVE  TabInv'
    <2>1. PICK f : f = [k EXCEPT !.setup = setup]
        OBVIOUS
    <2>2. f \in Child /\ f.setup = setup /\ f.is = k.is /\ f.issue = k.issue
        BY <2>1 DEF Child
    <2>3. child' = [child EXCEPT ![c] = f]
        BY <1>3, <1>5, <2>1, TabFacts
    <2>4. ChildOK(f, tab.phase)
        BY <1>3, <2>2 DEF ChildOK
    <2> QED
        BY <1>1, <1>2, <2>2, <2>3, <2>4, OneChild
<1>6. CASE T!ChildConfigured(c)
    <2>1. PICK setup \in Going : child' = [child EXCEPT ![c].setup = setup]
        BY <1>6 DEF T!ChildConfigured, T!SetupGoes, Going
    <2> QED
        BY <1>5, <2>1
<1>7. CASE T!ChildEnabled(c)
    <2>1. PICK setup \in Going : child' = [child EXCEPT ![c].setup = setup]
        BY <1>7 DEF T!ChildEnabled, T!SetupGoes, Going
    <2> QED
        BY <1>5, <2>1
<1>8. CASE T!SetupFails(c)
    <2>1. PICK setup \in Going : child' = [child EXCEPT ![c].setup = setup]
        BY <1>8 DEF T!SetupFails, T!AfterFailure, T!SetupGoes, Going
    <2> QED
        BY <1>5, <2>1
<1>9. CASE T!ChildResumed(c)
    <2>1. PICK f : f = [k EXCEPT !.setup = "over", !.is = "running"]
        OBVIOUS
    <2>2. f \in Child /\ f.is = "running" /\ f.issue = k.issue
        BY <2>1 DEF Child
    <2>3. child' = [child EXCEPT ![c] = f]
        BY <1>3, <1>9, <2>1, TabFacts DEF T!ChildResumed
    <2>4. tab.phase \notin {"withdrawing", "gone"}
        BY <1>9 DEF T!ChildResumed, T!Taken, T!HasTab
    <2>5. ChildOK(f, tab.phase)
        BY <1>3, <2>2, <2>4 DEF ChildOK
    <2> QED
        BY <1>1, <1>2, <2>2, <2>3, <2>5, OneChild
<1>10. CASE T!ChildRescued(c)
    <2>1. PICK is \in {"none", "waiting", "running", "gone"} : is = (IF T!Taken(c) THEN "running" ELSE k.is)
        BY DEF Child
    <2>2. PICK f : f = [k EXCEPT !.setup = "dropping", !.is = is]
        OBVIOUS
    <2>3. f \in Child /\ f.is = is /\ f.issue = k.issue
        BY <2>2 DEF Child
    <2>4. child' = [child EXCEPT ![c] = f]
        BY <1>3, <1>10, <2>1, <2>2, TabFacts DEF T!ChildRescued
    <2>5. T!Taken(c) => tab.phase \notin {"withdrawing", "gone"}
        BY DEF T!Taken, T!HasTab
    <2>6. ~T!Taken(c) /\ k.is = "waiting" => tab.phase \in {"withdrawing", "gone"}
        BY <1>3, TabFacts DEF T!Taken, T!HasTab, T!Attached
    <2>7. ChildOK(f, tab.phase)
        BY <1>3, <2>1, <2>3, <2>5, <2>6 DEF ChildOK
    <2> QED
        BY <1>1, <1>2, <2>3, <2>4, <2>7, OneChild
<1> QED
    BY <1>6, <1>7, <1>8, <1>9, <1>10

LEMMA DetachingKeeps ==
    ASSUME TabInv, NEW c \in Children, NEW setup \in {"none", "dropping", "over"} \cup Going, T!Detaching(c, setup),
           UNCHANGED <<tab, calls>>
    PROVE  TabInv'
<1>1. T!Below(c) \in SUBSET T!Sessions /\ T!Lost(T!Below(c))
    BY DetachingIs, TabFacts
<1>2. wanted' \in [T!Sessions -> SUBSET Prefixes] /\ demands' \in [T!Sessions -> SUBSET Prefixes]
    BY <1>1, LostIs
<1>3. \A d \in Children : ChildOK(child'[d], tab'.phase)
    BY DetachingIs, TabFacts DEF ChildOK
<1> QED
    BY <1>2, <1>3, DetachingIs, TabFacts, TabStep

(* The router forgets a child that Chrome does not detach.                 *)
LEMMA DroppedIs ==
    ASSUME TabInv, NEW c \in Children, child[c].setup = "dropping", T!Lost(T!Below(c)), UNCHANGED <<tab, calls, domainOn>>,
           child' = [d \in Children |->
             [child[d] EXCEPT !.issue = IF d \in T!Below(c) THEN 0 ELSE @,
                              !.setup = IF d = c THEN "over" ELSE @]]
    PROVE  /\ TabInv' /\ \A d \in Children \ T!Below(c) : child'[d].issue = child[d].issue
           /\ T!Below(c) \in SUBSET T!Sessions
<1>1. T!Below(c) \subseteq Children /\ T!Below(c) \in SUBSET T!Sessions
    BY TabFacts DEF T!Below
<1>2. ASSUME NEW d \in Children
      PROVE  /\ child'[d] \in Child /\ ChildOK(child'[d], tab'.phase)
             /\ d \notin T!Below(c) => child'[d].issue = child[d].issue
    <2>1. PICK k \in Child : k = child[d] /\ ChildOK(k, tab.phase)
        BY TabFacts
    <2>2. PICK issue \in Nat : issue = (IF d \in T!Below(c) THEN 0 ELSE k.issue)
        BY DEF Child
    <2>3. PICK setup \in {"none", "dropping", "over"} \cup Going : setup = (IF d = c THEN "over" ELSE k.setup)
        BY DEF Child
    <2>4. PICK f : f = [k EXCEPT !.issue = issue, !.setup = setup]
        OBVIOUS
    <2>5. f \in Child /\ f.is = k.is /\ f.issue = issue /\ f.setup = setup
        BY <2>4 DEF Child
    <2>6. child'[d] = f
        BY <2>1, <2>2, <2>3, <2>4
    <2>7. ChildOK(f, tab'.phase)
        BY <2>1, <2>2, <2>3, <2>5 DEF ChildOK, Going
    <2> QED
        BY <2>1, <2>2, <2>5, <2>6, <2>7
<1>3. child' \in [Children -> Child]
    BY <1>2
<1>4. wanted' \in [T!Sessions -> SUBSET Prefixes] /\ demands' \in [T!Sessions -> SUBSET Prefixes]
    BY <1>1, LostIs
<1> QED
    BY <1>1, <1>2, <1>3, <1>4, TabFacts, TabStep

LEMMA ChildGoesKeeps ==
    ASSUME TabInv, NEW c \in Children, T!ChildDropped(c) \/ T!ChildGone(c) PROVE TabInv'
<1>1. UNCHANGED <<tab, calls>>
    BY DEF T!ChildDropped, T!ChildGone, T!publication
<1>2. CASE T!ChildGone(c)
    <2>1. T!Detaching(c, child[c].setup) /\ child[c].setup \in {"none", "dropping", "over"} \cup Going
        BY <1>2, TabFacts DEF T!ChildGone, Child
    <2> QED
        BY <1>1, <2>1, DetachingKeeps
<1>3. CASE T!ChildDropped(c) /\ T!Detaching(c, "over")
    BY <1>1, <1>3, DetachingKeeps
<1>4. CASE T!ChildDropped(c) /\ ~T!Detaching(c, "over")
    BY <1>1, <1>4, DroppedIs DEF T!ChildDropped
<1> QED
    BY <1>2, <1>3, <1>4

LEMMA SetSubscriptionDemandIs ==
    ASSUME TabInv, NEW s \in T!Sessions, NEW p \in Prefixes, NEW on \in BOOLEAN, T!SetSubscriptionDemand(s, p, on)
    PROVE  /\ UNCHANGED <<tab, child, domainOn, offered>> /\ T!HasTab /\ T!Known(s)
           /\ T!Changed(s, p, on) \in SUBSET Prefixes
           /\ demands' = [demands EXCEPT ![s] = T!Changed(s, p, on)] /\ demands' \in [T!Sessions -> SUBSET Prefixes]
           /\ [session |-> s, prefix |-> p, on |-> on] \in DemandCall
           /\ calls' = calls \/ calls' = Append(calls, [session |-> s, prefix |-> p, on |-> on])
           /\ demands[s] = {} /\ T!Changed(s, p, on) # {} =>
                 on /\ calls' = Append(calls, [session |-> s, prefix |-> p, on |-> on])
           /\ demands[s] # {} /\ T!Changed(s, p, on) # {} => calls' = calls
           /\ calls' \in Seq(DemandCall)
<1>1. demands[s] \in SUBSET Prefixes
    BY TabFacts
<1>2. T!Changed(s, p, on) \in SUBSET Prefixes /\ (demands[s] = {} /\ T!Changed(s, p, on) # {} => on)
    BY <1>1 DEF T!Changed
<1>3. PICK o : o = [session |-> s, prefix |-> p, on |-> on]
    OBVIOUS
<1>4. o \in DemandCall
    BY <1>3 DEF DemandCall
<1>5. /\ UNCHANGED <<tab, child, domainOn, offered>> /\ T!HasTab /\ T!Known(s)
      /\ demands' = [demands EXCEPT ![s] = T!Changed(s, p, on)]
      /\ calls' = IF T!Turns(s, p, on) THEN Append(calls, o) ELSE calls
    BY <1>3 DEF T!SetSubscriptionDemand, T!publication
<1>6. T!Turns(s, p, on) <=> ((demands[s] = {} /\ T!Changed(s, p, on) # {}) \/ (demands[s] # {} /\ T!Changed(s, p, on) = {}))
    BY DEF T!Turns
<1>7. calls' \in Seq(DemandCall)
    BY <1>4, <1>5, TabFacts, AppendCall
<1>8. demands' \in [T!Sessions -> SUBSET Prefixes]
    BY <1>2, <1>5, TabFacts
<1> QED
    BY <1>2, <1>3, <1>4, <1>5, <1>6, <1>7, <1>8

LEMMA DemandKeeps ==
    ASSUME TabInv, NEW s \in T!Sessions, NEW p \in Prefixes, NEW on \in BOOLEAN,
           T!Demand(s, p, on) \/ T!LateDemand(s, p, on)
    PROVE  TabInv'
<1>1. T!SetSubscriptionDemand(s, p, on)
    BY DEF T!Demand, T!LateDemand
<1>2. wanted' \in [T!Sessions -> SUBSET Prefixes]
    <2>1. CASE T!Demand(s, p, on)
        <3>1. PICK w \in SUBSET Prefixes : w = (IF on THEN wanted[s] \cup {p} ELSE wanted[s] \ {p})
            BY TabFacts
        <3>2. wanted' = [wanted EXCEPT ![s] = w]
            BY <2>1, <3>1, TabFacts DEF T!Demand
        <3> QED
            BY <3>2, TabFacts
    <2>2. CASE T!LateDemand(s, p, on)
        BY <2>2, TabFacts DEF T!LateDemand
    <2> QED
        BY <2>1, <2>2
<1> QED
    BY ZenonT(60), <1>1, <1>2, SetSubscriptionDemandIs, TabFacts, ChildrenStay

LEMMA InTurnIs ==
    ASSUME TabInv, NEW i, T!InTurn(i)
    PROVE  /\ i \in 1 .. Len(calls) /\ calls[i] \in DemandCall /\ calls[i].session \in T!Sessions
           /\ \A j \in 1 .. i - 1 : calls[j].session # calls[i].session
<1>1. i \in 1 .. Len(calls)
    BY TabFacts, LenProperties DEF T!InTurn
<1>2. calls[i] \in DemandCall
    BY <1>1, TabFacts, ElementOfSeq
<1>3. \A j \in 1 .. i - 1 : calls[j].session # calls[i].session
    BY DEF T!InTurn
<1> QED
    BY <1>1, <1>2, <1>3 DEF DemandCall

LEMMA AnswersKeep ==
    ASSUME TabInv, NEW i, T!DemandDone(i) \/ T!DemandFails(i) PROVE TabInv'
<1>1. T!InTurn(i) /\ calls' = T!CallsWithout(i) /\ UNCHANGED <<tab, child, wanted>>
    BY DEF T!DemandDone, T!DemandFails, T!publication, T!broker
<1>2. i \in 1 .. Len(calls) /\ calls[i] \in DemandCall
    BY <1>1, InTurnIs
<1>3. calls' \in Seq(DemandCall)
    BY <1>1, <1>2, TabFacts, CallsWithoutIs
<1>4. CASE T!DemandDone(i)
    <2>1. domainOn' \in [T!Sessions -> BOOLEAN] /\ UNCHANGED demands
        BY <1>2, <1>4, TabFacts DEF T!DemandDone, DemandCall
    <2> QED
        BY <1>1, <1>3, <2>1, TabFacts, ChildrenStay
<1>5. CASE T!DemandFails(i)
    <2>1. domainOn' = domainOn
        BY <1>5 DEF T!DemandFails
    <2>2. PICK w \in SUBSET Prefixes : w = (IF calls[i].on THEN demands[Root] \ {calls[i].prefix}
                                            ELSE demands[Root] \cup {calls[i].prefix})
        BY <1>2, TabFacts DEF DemandCall
    <2>3. demands' = demands \/ demands' = [demands EXCEPT ![Root] = w]
        BY <1>5, <2>2, TabFacts DEF T!DemandFails
    <2>4. demands' \in [T!Sessions -> SUBSET Prefixes]
        BY <2>3, TabFacts
    <2> QED
        BY <1>1, <1>3, <2>1, <2>4, TabFacts, ChildrenStay
<1> QED
    BY <1>4, <1>5

(* Events, commands and the other machines                                 *)
LEMMA TabRests ==
    ASSUME TabInv, UNCHANGED <<tab, child, wanted, demands, domainOn, calls>> PROVE TabInv'
BY TabFacts, ChildrenStay

LEMMA EventsAndCommands ==
    ASSUME \/ \E c \in Children, p \in Prefixes : T!Event(c, p)
           \/ \E s \in T!Sessions : T!ExecuteCommand(s)
           \/ T!PolicyAnswers \/ T!CommandAnswered \/ T!CancelCommand
    PROVE  UNCHANGED <<tab, child, wanted, demands, domainOn, calls, offered>>
BY DEF T!Event, T!ExecuteCommand, T!PolicyAnswers, T!CommandAnswered, T!CancelCommand, T!CommandGoes,
       T!publication, T!broker, T!sessions

LEMMA TabStarts ==
    ASSUME T!TabInit PROVE TabInv
<1>1. tab \in [generation : Int, phase : Phases] /\ calls \in Seq(DemandCall)
    BY DEF T!TabInit, Phases
<1>2. /\ wanted \in [T!Sessions -> SUBSET Prefixes] /\ demands \in [T!Sessions -> SUBSET Prefixes]
      /\ domainOn \in [T!Sessions -> BOOLEAN]
    BY DEF T!TabInit
<1>3. PICK k \in Child : k = [is |-> "none", setup |-> "none", issue |-> 0, above |-> {}]
    BY DEF Child
<1>4. child = [c \in Children |-> k] /\ k.is = "none" /\ k.issue = 0
    BY <1>3 DEF T!TabInit
<1>5. child \in [Children -> Child] /\ ChildrenOK
    BY <1>4 DEF ChildrenOK, ChildOK
<1> QED
    BY <1>1, <1>2, <1>5 DEF TabInv, TabTypes

LEMMA TabGoesOn ==
    ASSUME TabInv, [MCNext]_<<machine, vars, webMcpVars, sessionVars>> PROVE TabInv'
<1>1. CASE T!TabNext
    <2>1. CASE \/ T!RenewStarts \/ T!RenewDisposed \/ T!RenewRevoked \/ T!RenewPublished \/ T!RenewFails
               \/ T!RevokeStarts \/ T!RevokeDetached
        BY <2>1, PublicationKeeps
    <2>2. CASE T!RootNavigates
        BY <2>2, RootNavigatesKeeps
    <2>3. ASSUME NEW c \in Children,
                 \/ \E parent \in T!Sessions \ {c} : T!ChildAttached(c, parent)
                 \/ T!ChildConfigured(c) \/ T!ChildEnabled(c) \/ T!ChildResumed(c)
                 \/ T!SetupFails(c) \/ T!ChildRescued(c) \/ T!ChildDropped(c) \/ T!ChildGone(c)
          PROVE  TabInv'
        BY <2>3, ChildAttachedKeeps, SetupKeeps, ChildGoesKeeps
    <2>4. ASSUME NEW s \in T!Sessions, NEW p \in Prefixes, NEW on \in BOOLEAN,
                 T!Demand(s, p, on) \/ T!LateDemand(s, p, on)
          PROVE  TabInv'
        BY <2>4, DemandKeeps
    <2>5. ASSUME NEW i \in 1 .. MaxCalls, T!DemandDone(i) \/ T!DemandFails(i) PROVE TabInv'
        BY <2>5, AnswersKeep
    <2>6. CASE \/ \E c \in Children, p \in Prefixes : T!Event(c, p)
               \/ \E s \in T!Sessions : T!ExecuteCommand(s)
               \/ T!PolicyAnswers \/ T!CommandAnswered \/ T!CancelCommand
        BY <2>6, EventsAndCommands, TabRests
    <2> QED
        BY <1>1, <2>1, <2>2, <2>3, <2>4, <2>5, <2>6 DEF T!TabNext
<1>2. CASE UNCHANGED sessionVars
    BY <1>2, TabRests DEF sessionVars
<1>3. T!TabNext \/ UNCHANGED sessionVars
    BY DEF MCNext, ScopesRun, WebMcpRuns, TabRuns
<1> QED
    BY <1>1, <1>2, <1>3

(* No frame or worker is left waiting for the debugger, whatever fails     *)
(* while it is set up, navigates, is renewed or withdrawn meanwhile        *)
(* (handleAttachedChild in selected-tab-publisher.ts).                     *)
THEOREM ChildrenAreLetRun == MCSpec => []NoChildLeftWaiting
<1>1. MCInit => TabInv
    BY TabStarts DEF MCInit
<1>2. TabInv /\ [MCNext]_<<machine, vars, webMcpVars, sessionVars>> => TabInv'
    BY TabGoesOn
<1>3. TabInv => NoChildLeftWaiting
    BY DEF TabInv, ChildrenOK, ChildOK, NoChildLeftWaiting, T!NoChildLeftWaiting, T!Setups, Going
<1> QED
    BY <1>1, <1>2, <1>3, PTL DEF MCSpec

-----------------------------------------------------------------------------
(* A tab: its demands, as long as Chrome does not refuse the domain        *)

Asked(s, q) == \E i \in 1 .. Len(q) : q[i].session = s

(* The last of the demands under way for s turns the domain on.            *)
TurnedOn(s, q) ==
    \E i \in 1 .. Len(q) : /\ q[i].session = s /\ q[i].on
                           /\ \A j \in i + 1 .. Len(q) : q[j].session # s

Provided(s, q, on) == TurnedOn(s, q) \/ (~Asked(s, q) /\ on[s])

(* The broker wants nothing of a generation that it does not serve, and    *)
(* nothing of one it serves that the publisher does not know.              *)
WantedOK ==
    /\ tab.phase = "idle" => \A s \in T!Sessions : wanted[s] \subseteq demands[s]
    /\ tab.phase = "publishing" => offered = 0
    /\ offered = 0 => \A s \in T!Sessions : wanted[s] = {}

DemandOK(s) == demands[s] # {} => Provided(s, calls, domainOn) /\ (s = Root \/ child[s].issue # 0)

DemandsOK ==
    /\ WantedOK
    /\ tab.phase \notin {"withdrawing", "gone"} => \A s \in T!Sessions : DemandOK(s)

LEMMA DemandsStep ==
    ASSUME tab'.phase = "idle" => \A s \in T!Sessions : wanted'[s] \subseteq demands'[s],
           tab'.phase = "publishing" => offered' = 0,
           offered' = 0 => \A s \in T!Sessions : wanted'[s] = {},
           tab'.phase \notin {"withdrawing", "gone"} => \A s \in T!Sessions :
              demands'[s] # {} => Provided(s, calls', domainOn') /\ (s = Root \/ child'[s].issue # 0)
    PROVE  DemandsOK'
<1>1. WantedOK'
    BY DEF WantedOK, T!Sessions
<1>2. tab'.phase \notin {"withdrawing", "gone"} => \A s \in T!Sessions : DemandOK(s)'
    BY DEF DemandOK, Provided, TurnedOn, Asked
<1> QED
    BY <1>1, <1>2 DEF DemandsOK, T!Sessions

LEMMA DemandsFacts ==
    ASSUME DemandsOK
    PROVE  /\ tab.phase = "idle" => \A s \in T!Sessions : wanted[s] \subseteq demands[s]
           /\ tab.phase = "publishing" => offered = 0
           /\ offered = 0 => \A s \in T!Sessions : wanted[s] = {}
           /\ tab.phase \notin {"withdrawing", "gone"} => \A s \in T!Sessions :
                demands[s] # {} => Provided(s, calls, domainOn) /\ (s = Root \/ child[s].issue # 0)
BY DEF DemandsOK, WantedOK, DemandOK

(* A demand that is added says what its own session gets.                  *)
LEMMA DemandAdded ==
    ASSUME NEW q \in Seq(DemandCall), NEW o \in DemandCall, NEW s, NEW on
    PROVE  /\ o.on => TurnedOn(o.session, Append(q, o))
           /\ s # o.session /\ Provided(s, q, on) => Provided(s, Append(q, o), on)
<1>1. PICK r : r = Append(q, o)
    OBVIOUS
<1>2. /\ Len(r) = Len(q) + 1 /\ Len(q) \in Nat /\ r[Len(q) + 1] = o
      /\ \A i \in 1 .. Len(q) : r[i] = q[i]
    BY <1>1, AppendCall
<1>3. ASSUME o.on PROVE TurnedOn(o.session, r)
    <2>1. Len(q) + 1 \in 1 .. Len(r) /\ \A j \in Len(q) + 1 + 1 .. Len(r) : FALSE
        BY <1>2
    <2> QED
        BY <1>2, <1>3, <2>1 DEF TurnedOn
<1>4. ASSUME s # o.session, TurnedOn(s, q) PROVE TurnedOn(s, r)
    <2>1. PICK i \in 1 .. Len(q) : q[i].session = s /\ q[i].on /\ \A j \in i + 1 .. Len(q) : q[j].session # s
        BY <1>4 DEF TurnedOn
    <2>2. i \in 1 .. Len(r) /\ r[i] = q[i]
        BY <1>2
    <2>3. ASSUME NEW j \in i + 1 .. Len(r) PROVE r[j].session # s
        <3>1. CASE j = Len(q) + 1
            BY <1>2, <1>4, <3>1
        <3>2. CASE j # Len(q) + 1
            <4>1. j \in i + 1 .. Len(q) /\ j \in 1 .. Len(q)
                BY <1>2, <3>2
            <4> QED
                BY <1>2, <2>1, <4>1
        <3> QED
            BY <3>1, <3>2
    <2> QED
        BY <2>1, <2>2, <2>3 DEF TurnedOn
<1>5. ASSUME s # o.session, ~Asked(s, q) PROVE ~Asked(s, r)
    <2>1. ASSUME NEW j \in 1 .. Len(r) PROVE r[j].session # s
        <3>1. CASE j = Len(q) + 1
            BY <1>2, <1>5, <3>1
        <3>2. CASE j # Len(q) + 1
            <4>1. j \in 1 .. Len(q)
                BY <1>2, <3>2
            <4> QED
                BY <1>2, <1>5, <4>1 DEF Asked
        <3> QED
            BY <3>1, <3>2
    <2> QED
        BY <2>1 DEF Asked
<1> QED
    BY <1>1, <1>3, <1>4, <1>5 DEF Provided

(* A demand that is answered was the first of its session.                 *)
LEMMA DemandAnswered ==
    ASSUME TabInv, NEW i, T!InTurn(i), NEW s, NEW on, NEW after, s # calls[i].session => (on[s] => after[s]),
           Provided(s, calls, on)
    PROVE  /\ s # calls[i].session => Provided(s, T!CallsWithout(i), after)
           /\ s = calls[i].session =>
                \/ TurnedOn(s, T!CallsWithout(i))
                \/ ~Asked(s, T!CallsWithout(i)) /\ calls[i].on
<1>1. PICK q \in Seq(DemandCall) : q = calls
    BY TabFacts
<1>2. PICK r : r = T!CallsWithout(i)
    OBVIOUS
<1>3. i \in 1 .. Len(q) /\ \A j \in 1 .. i - 1 : q[j].session # q[i].session
    BY <1>1, InTurnIs
<1>4. /\ Len(q) \in Nat /\ Len(r) = Len(q) - 1
      /\ \A j \in 1 .. Len(q) - 1 : r[j] = IF j < i THEN q[j] ELSE q[j + 1]
    BY <1>1, <1>2, <1>3, TabFacts, CallsWithoutIs
<1>5. ASSUME NEW m \in 1 .. Len(q), m # i, q[m].session = s, q[m].on, \A j \in m + 1 .. Len(q) : q[j].session # s
      PROVE  TurnedOn(s, r)
    <2>1. PICK l : l = (IF m < i THEN m ELSE m - 1)
        OBVIOUS
    <2>2. l \in 1 .. Len(r) /\ r[l] = q[m]
        BY <1>3, <1>4, <1>5, <2>1
    <2>3. ASSUME NEW j \in l + 1 .. Len(r) PROVE r[j].session # s
        <3>1. PICK n : n = (IF j < i THEN j ELSE j + 1)
            OBVIOUS
        <3>2. n \in m + 1 .. Len(q) /\ r[j] = q[n]
            BY <1>3, <1>4, <1>5, <2>1, <2>2, <3>1
        <3> QED
            BY <1>5, <3>2
    <2> QED
        BY <1>5, <2>2, <2>3 DEF TurnedOn
<1>6. CASE s # q[i].session
    <2>1. ASSUME TurnedOn(s, q) PROVE TurnedOn(s, r)
        <3>1. PICK m \in 1 .. Len(q) : q[m].session = s /\ q[m].on /\ \A j \in m + 1 .. Len(q) : q[j].session # s
            BY <2>1 DEF TurnedOn
        <3> QED
            BY <1>5, <1>6, <3>1
    <2>2. ASSUME ~Asked(s, q) PROVE ~Asked(s, r)
        <3>1. ASSUME NEW j \in 1 .. Len(r) PROVE r[j].session # s
            <4>1. PICK n : n = (IF j < i THEN j ELSE j + 1)
                OBVIOUS
            <4>2. n \in 1 .. Len(q) /\ r[j] = q[n]
                BY <1>3, <1>4, <4>1
            <4> QED
                BY <2>2, <4>2 DEF Asked
        <3> QED
            BY <3>1 DEF Asked
    <2> QED
        BY <1>1, <1>2, <1>6, <2>1, <2>2 DEF Provided
<1>7. CASE s = q[i].session
    <2>1. TurnedOn(s, q)
        BY <1>1, <1>3, <1>7 DEF Provided, Asked
    <2>2. PICK m \in 1 .. Len(q) : q[m].session = s /\ q[m].on /\ \A j \in m + 1 .. Len(q) : q[j].session # s
        BY <2>1 DEF TurnedOn
    <2>3. CASE m # i
        BY <1>1, <1>2, <1>5, <1>7, <2>2, <2>3
    <2>4. CASE m = i
        <3>1. ASSUME NEW j \in 1 .. Len(r) PROVE r[j].session # s
            <4>1. CASE j < i
                BY <1>3, <1>4, <1>7, <4>1
            <4>2. CASE j >= i
                <5>1. j + 1 \in m + 1 .. Len(q) /\ r[j] = q[j + 1]
                    BY <1>3, <1>4, <2>4, <4>2
                <5> QED
                    BY <2>2, <5>1
            <4>3. j < i \/ j >= i
                BY <1>3, <1>4
            <4> QED
                BY <4>1, <4>2, <4>3
        <3>2. ~Asked(s, r)
            BY <3>1 DEF Asked
        <3> QED
            BY <1>1, <1>2, <1>7, <2>2, <2>4, <3>2
    <2> QED
        BY <2>3, <2>4
<1> QED
    BY <1>1, <1>6, <1>7

LEMMA PublicationServes ==
    ASSUME TabInv, DemandsOK,
           \/ T!RenewStarts \/ T!RenewDisposed \/ T!RenewRevoked \/ T!RenewPublished \/ T!RenewFails
           \/ T!RevokeStarts \/ T!RevokeDetached
    PROVE  DemandsOK'
<1>1. CASE T!RenewStarts
    <2>1. /\ tab'.phase = "disposing" /\ wanted' = wanted /\ offered' = offered
          /\ demands' = [s \in T!Sessions |-> {}]
        BY <1>1, PublicationSteps
    <2>2. offered' = 0 => \A s \in T!Sessions : wanted'[s] = {}
        BY <2>1, DemandsFacts
    <2>3. \A s \in T!Sessions : demands'[s] = {}
        BY <2>1
    <2> QED
        BY <2>1, <2>2, <2>3, DemandsStep
<1>2. CASE T!RenewDisposed
    <2>1. /\ tab.phase = "disposing" /\ tab'.phase = "revoking" /\ wanted' = wanted /\ offered' = offered
          /\ demands' = demands /\ child' = child /\ calls' = calls /\ domainOn' = domainOn
        BY <1>2, PublicationSteps DEF T!RenewDisposed, T!sessions
    <2> QED
        BY <2>1, DemandsFacts, DemandsStep
<1>3. CASE T!RenewRevoked \/ T!RenewFails
    <2>1. /\ tab.phase \in {"revoking", "publishing"} /\ offered' = 0 /\ wanted' = [s \in T!Sessions |-> {}]
          /\ demands' = demands /\ child' = child /\ calls' = calls
        BY <1>3, PublicationSteps
    <2>2. domainOn' = domainOn
        BY <1>3 DEF T!RenewRevoked, T!RenewFails, T!sessions
    <2>3. \A s \in T!Sessions : wanted'[s] = {}
        BY <2>1
    <2>4. \A s \in T!Sessions : demands'[s] # {} =>
            Provided(s, calls', domainOn') /\ (s = Root \/ child'[s].issue # 0)
        BY <2>1, <2>2, DemandsFacts
    <2> QED
        BY <2>1, <2>3, <2>4, DemandsStep
<1>4. CASE T!RenewPublished
    <2>1. /\ tab.phase = "publishing" /\ tab'.phase = "idle" /\ wanted' = wanted
          /\ demands' = demands /\ child' = child /\ calls' = calls
        BY <1>4, PublicationSteps
    <2>2. domainOn' = domainOn
        BY <1>4 DEF T!RenewPublished, T!sessions
    <2>3. \A s \in T!Sessions : wanted'[s] = {}
        BY <2>1, DemandsFacts
    <2>4. \A s \in T!Sessions : demands'[s] # {} =>
            Provided(s, calls', domainOn') /\ (s = Root \/ child'[s].issue # 0)
        BY <2>1, <2>2, DemandsFacts
    <2> QED
        BY <2>1, <2>3, <2>4, DemandsStep
<1>5. CASE T!RevokeStarts
    <2>1. tab'.phase = "withdrawing" /\ wanted' = [s \in T!Sessions |-> {}]
        BY <1>5, PublicationSteps
    <2>2. \A s \in T!Sessions : wanted'[s] = {}
        BY <2>1
    <2> QED
        BY <2>1, <2>2, DemandsStep
<1>6. CASE T!RevokeDetached
    <2>1. tab'.phase = "gone" /\ wanted' = wanted /\ offered' = offered
        BY <1>6, PublicationSteps
    <2> QED
        BY <2>1, DemandsFacts, DemandsStep
<1> QED
    BY <1>1, <1>2, <1>3, <1>4, <1>5, <1>6

(* Sessions are lost, the others stay as they are.                         *)
LEMMA LostServes ==
    ASSUME TabInv, DemandsOK, NEW ss \in SUBSET T!Sessions, T!Lost(ss), UNCHANGED <<tab, offered, calls>>,
           \A s \in T!Sessions \ ss : /\ domainOn[s] => domainOn'[s]
                                      /\ s # Root => (child[s].issue # 0 => child'[s].issue # 0)
    PROVE  DemandsOK'
<1>1. /\ \A s \in ss : wanted'[s] = {} /\ demands'[s] = {}
      /\ \A s \in T!Sessions \ ss : wanted'[s] = wanted[s] /\ demands'[s] = demands[s]
    BY LostIs
<1>2. tab'.phase = "idle" => \A s \in T!Sessions : wanted'[s] \subseteq demands'[s]
    BY <1>1, DemandsFacts
<1>3. offered' = 0 => \A s \in T!Sessions : wanted'[s] = {}
    BY <1>1, DemandsFacts
<1>4. ASSUME tab.phase \notin {"withdrawing", "gone"}, NEW s \in T!Sessions, demands'[s] # {}
      PROVE  Provided(s, calls', domainOn') /\ (s = Root \/ child'[s].issue # 0)
    <2>1. s \notin ss /\ demands[s] # {}
        BY <1>1, <1>4
    <2>2. Provided(s, calls, domainOn) /\ (s = Root \/ child[s].issue # 0)
        BY <1>4, <2>1, DemandsFacts
    <2>3. Provided(s, calls, domainOn')
        BY <2>1, <2>2 DEF Provided
    <2> QED
        BY <2>1, <2>2, <2>3
<1> QED
    BY <1>2, <1>3, <1>4, DemandsFacts, DemandsStep

LEMMA SessionsServe ==
    ASSUME TabInv, DemandsOK, UNCHANGED <<tab, offered, wanted, demands, calls>>,
           \A s \in T!Sessions : /\ domainOn[s] => domainOn'[s]
                                 /\ s # Root => (child[s].issue # 0 => child'[s].issue # 0)
    PROVE  DemandsOK'
<1>1. ASSUME tab.phase \notin {"withdrawing", "gone"}, NEW s \in T!Sessions, demands[s] # {}
      PROVE  Provided(s, calls', domainOn') /\ (s = Root \/ child'[s].issue # 0)
    <2>1. Provided(s, calls, domainOn) /\ (s = Root \/ child[s].issue # 0)
        BY <1>1, DemandsFacts
    <2>2. Provided(s, calls, domainOn')
        BY <2>1 DEF Provided
    <2> QED
        BY <2>1, <2>2
<1> QED
    BY <1>1, DemandsFacts, DemandsStep

LEMMA ChildServes ==
    ASSUME TabInv, DemandsOK, NEW c \in Children,
           \/ \E parent \in T!Sessions \ {c} : T!ChildAttached(c, parent)
           \/ T!ChildConfigured(c) \/ T!ChildEnabled(c) \/ T!ChildResumed(c)
           \/ T!SetupFails(c) \/ T!ChildRescued(c) \/ T!ChildDropped(c) \/ T!ChildGone(c)
    PROVE  DemandsOK'
<1>1. CASE \E parent \in T!Sessions \ {c} : T!ChildAttached(c, parent)
    <2>1. PICK parent \in T!Sessions \ {c} : T!ChildAttached(c, parent)
        BY <1>1
    <2>2. UNCHANGED <<tab, offered, wanted, demands, calls, domainOn>> /\ child[c].is = "none"
        BY <2>1 DEF T!ChildAttached, T!broker
    <2>3. child[c].issue = 0
        BY <2>2, TabFacts DEF ChildOK
    <2>4. \A d \in Children \ {c} : child'[d] = child[d]
        BY <2>1, TabFacts DEF T!ChildAttached
    <2>5. \A s \in T!Sessions : s # Root => (child[s].issue # 0 => child'[s].issue # 0)
        BY <2>3, <2>4 DEF T!Sessions
    <2> QED
        BY <2>2, <2>5, SessionsServe
<1>2. CASE T!ChildConfigured(c) \/ T!ChildEnabled(c) \/ T!ChildResumed(c) \/ T!SetupFails(c) \/ T!ChildRescued(c)
    <2>1. UNCHANGED <<tab, offered, wanted, demands, calls>>
        BY <1>2 DEF T!ChildConfigured, T!ChildEnabled, T!ChildResumed, T!SetupFails, T!ChildRescued, T!publication, T!broker
    <2>2. \A s \in T!Sessions : domainOn[s] => domainOn'[s]
        BY <1>2, TabFacts DEF T!ChildConfigured, T!ChildEnabled, T!ChildResumed, T!SetupFails, T!ChildRescued
    <2>3. \A d \in Children : child'[d].issue = child[d].issue
        BY <1>2, TabFacts DEF T!ChildConfigured, T!ChildEnabled, T!ChildResumed, T!SetupFails, T!ChildRescued,
              T!SetupGoes, T!AfterFailure, Child
    <2>4. \A s \in T!Sessions : s # Root => (child[s].issue # 0 => child'[s].issue # 0)
        BY <2>3 DEF T!Sessions
    <2> QED
        BY <2>1, <2>2, <2>4, SessionsServe
<1>3. ASSUME NEW setup \in {"none", "dropping", "over"} \cup Going, T!Detaching(c, setup),
             UNCHANGED <<tab, offered, calls>>
      PROVE  DemandsOK'
    <2>1. T!Below(c) \in SUBSET T!Sessions /\ T!Lost(T!Below(c))
        BY <1>3, DetachingIs, TabFacts
    <2>2. \A s \in T!Sessions \ T!Below(c) : domainOn'[s] = domainOn[s]
        BY <1>3, DetachingIs
    <2>3. \A d \in Children \ T!Below(c) : child'[d] = child[d]
        BY <1>3, DetachingIs
    <2>4. \A s \in T!Sessions \ T!Below(c) : s # Root => (child[s].issue # 0 => child'[s].issue # 0)
        BY <2>3 DEF T!Sessions
    <2> QED
        BY <1>3, <2>1, <2>2, <2>4, LostServes
<1>4. CASE T!ChildGone(c)
    <2>1. T!Detaching(c, child[c].setup) /\ child[c].setup \in {"none", "dropping", "over"} \cup Going
        BY <1>4, TabFacts DEF T!ChildGone, Child
    <2>2. UNCHANGED <<tab, offered, calls>>
        BY <1>4 DEF T!ChildGone, T!publication
    <2> QED
        BY <1>3, <2>1, <2>2
<1>5. CASE T!ChildDropped(c)
    <2>1. UNCHANGED <<tab, offered, calls>> /\ child[c].setup = "dropping"
        BY <1>5 DEF T!ChildDropped, T!publication
    <2>2. CASE T!Detaching(c, "over")
        BY <1>3, <2>1, <2>2
    <2>3. CASE ~T!Detaching(c, "over")
        <3>1. /\ child' = [d \in Children |->
                    [child[d] EXCEPT !.issue = IF d \in T!Below(c) THEN 0 ELSE @,
                                     !.setup = IF d = c THEN "over" ELSE @]]
              /\ T!Lost(T!Below(c)) /\ UNCHANGED domainOn
            BY <1>5, <2>3 DEF T!ChildDropped
        <3>2. T!Below(c) \in SUBSET T!Sessions /\ \A d \in Children \ T!Below(c) : child'[d].issue = child[d].issue
            BY <2>1, <3>1, DroppedIs
        <3>3. \A s \in T!Sessions \ T!Below(c) : s # Root => (child[s].issue # 0 => child'[s].issue # 0)
            BY <3>2 DEF T!Sessions
        <3> QED
            BY <2>1, <3>1, <3>2, <3>3, LostServes
    <2> QED
        BY <2>2, <2>3
<1> QED
    BY <1>1, <1>2, <1>4, <1>5

LEMMA RootNavigatesServes ==
    ASSUME TabInv, DemandsOK, T!RootNavigates PROVE DemandsOK'
<1>1. T!Lost(Children) /\ UNCHANGED <<tab, offered, domainOn, calls>> /\ Children \in SUBSET T!Sessions
    BY TabFacts DEF T!RootNavigates, T!publication
<1>2. \A s \in T!Sessions \ Children : s = Root
    BY DEF T!Sessions
<1> QED
    BY <1>1, <1>2, LostServes

LEMMA DemandServes ==
    ASSUME TabInv, DemandsOK, NEW s \in T!Sessions, NEW p \in Prefixes, NEW on \in BOOLEAN,
           T!Demand(s, p, on) \/ T!LateDemand(s, p, on)
    PROVE  DemandsOK'
<1>1. T!SetSubscriptionDemand(s, p, on)
    BY DEF T!Demand, T!LateDemand
<1>2. PICK o : o = [session |-> s, prefix |-> p, on |-> on]
    OBVIOUS
<1>3. PICK new : new = T!Changed(s, p, on)
    OBVIOUS
<1>4. /\ UNCHANGED <<tab, child, domainOn, offered>> /\ T!HasTab /\ T!Known(s)
      /\ demands' = [demands EXCEPT ![s] = new] /\ o \in DemandCall
      /\ calls' = calls \/ calls' = Append(calls, o)
      /\ demands[s] = {} /\ new # {} => on /\ calls' = Append(calls, o)
      /\ demands[s] # {} /\ new # {} => calls' = calls
    BY <1>1, <1>2, <1>3, SetSubscriptionDemandIs
<1>5. demands'[s] = new /\ \A t \in T!Sessions \ {s} : demands'[t] = demands[t]
    BY <1>4, TabFacts
<1>6. o.session = s /\ o.on = on
    BY <1>2
<1>7. ASSUME NEW t \in T!Sessions, demands'[t] # {}
      PROVE  Provided(t, calls', domainOn') /\ (t = Root \/ child'[t].issue # 0)
    <2>0. tab.phase \notin {"withdrawing", "gone"}
        BY <1>4 DEF T!HasTab
    <2>1. CASE t # s
        <3>1. demands[t] # {}
            BY <1>5, <1>7, <2>1
        <3>2. Provided(t, calls, domainOn) /\ (t = Root \/ child[t].issue # 0)
            BY <2>0, <3>1, DemandsFacts
        <3>3. Provided(t, Append(calls, o), domainOn)
            BY <1>4, <1>6, <2>1, <3>2, TabFacts, DemandAdded
        <3> QED
            BY <1>4, <3>2, <3>3
    <2>2. CASE t = s
        <3>1. t = Root \/ child'[t].issue # 0
            BY <1>4, <2>2 DEF T!Known, T!Issue
        <3>2. CASE demands[s] = {}
            <4>1. on /\ calls' = Append(calls, o)
                BY <1>4, <1>5, <1>7, <2>2, <3>2
            <4>2. TurnedOn(s, Append(calls, o))
                BY <1>4, <1>6, <4>1, TabFacts, DemandAdded
            <4> QED
                BY <2>2, <3>1, <4>1, <4>2 DEF Provided
        <3>3. CASE demands[s] # {}
            <4>1. calls' = calls /\ Provided(s, calls, domainOn)
                BY <1>4, <1>5, <1>7, <2>0, <2>2, <3>3, DemandsFacts
            <4> QED
                BY <1>4, <2>2, <3>1, <4>1
        <3> QED
            BY <3>2, <3>3
    <2> QED
        BY <2>1, <2>2
<1>8. CASE T!LateDemand(s, p, on)
    <2>1. tab.phase = "publishing" /\ wanted' = wanted
        BY <1>8 DEF T!LateDemand
    <2> QED
        BY <1>4, <1>7, <2>1, DemandsFacts, DemandsStep
<1>9. CASE T!Demand(s, p, on)
    <2>1. offered # 0 /\ wanted' = [wanted EXCEPT ![s] = IF on THEN wanted[s] \cup {p} ELSE wanted[s] \ {p}]
        BY <1>9 DEF T!Demand
    <2>2. tab.phase # "publishing"
        BY <2>1, DemandsFacts
    <2>3. /\ wanted'[s] = (IF on THEN wanted[s] \cup {p} ELSE wanted[s] \ {p})
          /\ \A t \in T!Sessions \ {s} : wanted'[t] = wanted[t]
        BY <2>1, TabFacts
    <2>4. new = (IF on THEN demands[s] \cup {p} ELSE demands[s] \ {p})
        BY <1>3 DEF T!Changed
    <2>5. tab'.phase = "idle" => \A t \in T!Sessions : wanted'[t] \subseteq demands'[t]
        <3>1. ASSUME tab.phase = "idle", NEW t \in T!Sessions PROVE wanted'[t] \subseteq demands'[t]
            <4>1. wanted[t] \subseteq demands[t]
                BY <3>1, DemandsFacts
            <4>2. CASE t = s
                BY <1>5, <2>3, <2>4, <4>1, <4>2
            <4>3. CASE t # s
                BY <1>5, <2>3, <4>1, <4>3
            <4> QED
                BY <4>2, <4>3
        <3> QED
            BY <1>4, <3>1
    <2> QED
        BY <1>4, <1>7, <2>1, <2>2, <2>5, DemandsStep
<1> QED
    BY <1>8, <1>9

LEMMA AnswersServe ==
    ASSUME TabInv, DemandsOK, ~RefusesDomains, NEW i, T!DemandDone(i) \/ T!DemandFails(i) PROVE DemandsOK'
<1>1. T!InTurn(i) /\ calls' = T!CallsWithout(i) /\ UNCHANGED <<tab, child, wanted, offered>>
    BY DEF T!DemandDone, T!DemandFails, T!publication, T!broker
<1>2. PICK k \in DemandCall : k = calls[i] /\ k.session \in T!Sessions
    BY <1>1, InTurnIs
<1>3. CASE T!DemandDone(i)
    <2>1. demands' = demands /\ domainOn' = [domainOn EXCEPT ![k.session] = k.on]
        BY <1>2, <1>3 DEF T!DemandDone
    <2>2. \A s \in T!Sessions : s # k.session => domainOn'[s] = domainOn[s]
        BY <2>1, TabFacts
    <2>3. domainOn'[k.session] = k.on
        BY <1>2, <2>1, TabFacts
    <2>4. ASSUME tab.phase \notin {"withdrawing", "gone"}, NEW s \in T!Sessions, demands[s] # {}
          PROVE  Provided(s, calls', domainOn') /\ (s = Root \/ child'[s].issue # 0)
        <3>1. Provided(s, calls, domainOn) /\ (s = Root \/ child[s].issue # 0)
            BY <2>4, DemandsFacts
        <3>2. s # k.session => Provided(s, T!CallsWithout(i), domainOn')
            BY <1>1, <1>2, <2>2, <3>1, DemandAnswered
        <3>3. s = k.session => TurnedOn(s, T!CallsWithout(i)) \/ (~Asked(s, T!CallsWithout(i)) /\ k.on)
            BY <1>1, <1>2, <2>2, <3>1, DemandAnswered
        <3> QED
            BY <1>1, <2>3, <3>1, <3>2, <3>3 DEF Provided
    <2> QED
        BY <1>1, <2>1, <2>4, DemandsFacts, DemandsStep
<1>4. CASE T!DemandFails(i)
    <2>1. /\ domainOn' = domainOn /\ ~T!Attached(k.session)
          /\ k.session # Root => demands' = demands
        BY <1>2, <1>4 DEF T!DemandFails
    <2>2. CASE k.session = Root
        <3>1. tab.phase = "gone"
            BY <2>1, <2>2 DEF T!Attached
        <3> QED
            BY <1>1, <3>1, DemandsFacts, DemandsStep
    <2>3. CASE k.session # Root
        <3>1. k.session \in Children /\ child[k.session].is \notin {"waiting", "running"}
            BY <1>2, <2>1, <2>3 DEF T!Attached, T!Sessions
        <3>2. child[k.session].issue = 0
            BY <3>1, TabFacts DEF ChildOK
        <3>3. ASSUME tab.phase \notin {"withdrawing", "gone"}, NEW s \in T!Sessions, demands[s] # {}
              PROVE  Provided(s, calls', domainOn') /\ (s = Root \/ child'[s].issue # 0)
            <4>1. Provided(s, calls, domainOn) /\ (s = Root \/ child[s].issue # 0)
                BY <3>3, DemandsFacts
            <4>2. s # k.session
                BY <2>3, <3>2, <4>1
            <4>3. Provided(s, T!CallsWithout(i), domainOn)
                BY <1>1, <1>2, <4>1, <4>2, DemandAnswered
            <4> QED
                BY <1>1, <2>1, <4>1, <4>3
        <3> QED
            BY <1>1, <2>1, <2>3, <3>3, DemandsFacts, DemandsStep
    <2> QED
        BY <2>2, <2>3
<1> QED
    BY <1>3, <1>4

LEMMA DemandsStart ==
    ASSUME T!TabInit PROVE DemandsOK
BY DEF T!TabInit, DemandsOK, WantedOK, DemandOK

LEMMA DemandsRest ==
    ASSUME TabInv, DemandsOK, UNCHANGED <<tab, child, wanted, demands, domainOn, calls, offered>> PROVE DemandsOK'
BY SessionsServe

LEMMA DemandsGoOn ==
    ASSUME TabInv, DemandsOK, ~RefusesDomains, [MCNext]_<<machine, vars, webMcpVars, sessionVars>> PROVE DemandsOK'
<1>1. CASE T!TabNext
    <2>1. CASE \/ T!RenewStarts \/ T!RenewDisposed \/ T!RenewRevoked \/ T!RenewPublished \/ T!RenewFails
               \/ T!RevokeStarts \/ T!RevokeDetached
        BY <2>1, PublicationServes
    <2>2. CASE T!RootNavigates
        BY <2>2, RootNavigatesServes
    <2>3. ASSUME NEW c \in Children,
                 \/ \E parent \in T!Sessions \ {c} : T!ChildAttached(c, parent)
                 \/ T!ChildConfigured(c) \/ T!ChildEnabled(c) \/ T!ChildResumed(c)
                 \/ T!SetupFails(c) \/ T!ChildRescued(c) \/ T!ChildDropped(c) \/ T!ChildGone(c)
          PROVE  DemandsOK'
        BY <2>3, ChildServes
    <2>4. ASSUME NEW s \in T!Sessions, NEW p \in Prefixes, NEW on \in BOOLEAN,
                 T!Demand(s, p, on) \/ T!LateDemand(s, p, on)
          PROVE  DemandsOK'
        BY <2>4, DemandServes
    <2>5. ASSUME NEW i \in 1 .. MaxCalls, T!DemandDone(i) \/ T!DemandFails(i) PROVE DemandsOK'
        BY <2>5, AnswersServe
    <2>6. CASE \/ \E c \in Children, p \in Prefixes : T!Event(c, p)
               \/ \E s \in T!Sessions : T!ExecuteCommand(s)
               \/ T!PolicyAnswers \/ T!CommandAnswered \/ T!CancelCommand
        BY <2>6, EventsAndCommands, DemandsRest
    <2> QED
        BY <1>1, <2>1, <2>2, <2>3, <2>4, <2>5, <2>6 DEF T!TabNext
<1>2. CASE UNCHANGED sessionVars
    BY <1>2, DemandsRest DEF sessionVars
<1>3. T!TabNext \/ UNCHANGED sessionVars
    BY DEF MCNext, ScopesRun, WebMcpRuns, TabRuns
<1> QED
    BY <1>1, <1>2, <1>3

(* Once Chrome has answered what it was asked, every session that the      *)
(* broker's subscriptions demand something of has the domain enabled, and  *)
(* the publisher knows of each of them, in whatever order demands, answers,*)
(* renewals, navigations and the setup of children came                    *)
(* (setSubscriptionDemand in selected-tab-publisher.ts).                   *)
THEOREM DemandsAreServed == ~RefusesDomains => (MCSpec => []SubscribersServed)
<1> SUFFICES ASSUME ~RefusesDomains PROVE MCSpec => []SubscribersServed
    OBVIOUS
<1>1. MCInit => TabInv /\ DemandsOK
    BY TabStarts, DemandsStart DEF MCInit
<1>2. TabInv /\ DemandsOK /\ [MCNext]_<<machine, vars, webMcpVars, sessionVars>> => (TabInv /\ DemandsOK)'
    BY TabGoesOn, DemandsGoOn
<1>3. TabInv /\ DemandsOK => SubscribersServed
    <2> SUFFICES ASSUME TabInv, DemandsOK, T!Settled, NEW s \in T!Sessions
                 PROVE  wanted[s] \subseteq demands[s] /\ (wanted[s] # {} => domainOn[s])
        BY DEF SubscribersServed, T!SubscribersServed
    <2>1. tab.phase = "idle" /\ Len(calls) = 0
        BY DEF T!Settled
    <2>2. wanted[s] \subseteq demands[s] /\ (demands[s] # {} => Provided(s, calls, domainOn))
        BY <2>1, DemandsFacts
    <2> QED
        BY <2>1, <2>2 DEF Provided, TurnedOn
<1> QED
    BY <1>1, <1>2, <1>3, PTL DEF MCSpec

-----------------------------------------------------------------------------
(* Scopes that ended at the broker                                         *)

ScopeTypes ==
    /\ states \in Seq(SUBSET Scopes) /\ granted \in SUBSET Scopes /\ approved \in SUBSET Scopes
    /\ answer \in [Scopes -> SUBSET Scopes]
    /\ approving \in [Scopes -> {"no", "adding", "calling", "binding", "refused", "done", "failed"}]

(* A state that waits to be consumed does not have the scope.              *)
Missed(s) == \E i \in 1 .. Len(states) : s \notin states[i]

(* A scope is approved once the broker has answered; while the states are  *)
(* watched, one that has ended is in a state to be consumed, or is about   *)
(* to be given up by its own approval.                                     *)
EndIsTold(s) ==
    /\ s \in approved => approving[s] \in {"binding", "refused", "done"}
    /\ Watched /\ s \in approved \ granted => approving[s] = "refused" \/ Missed(s)

ScopesTold == ScopeTypes /\ \A s \in Scopes : EndIsTold(s)

LEMMA PushKeepsMissed ==
    ASSUME ScopeTypes, NEW g \in SUBSET Scopes, states' = Append(states, g), NEW s \in Scopes
    PROVE  /\ states' \in Seq(SUBSET Scopes)
           /\ Missed(s) \/ s \notin g => Missed(s)'
<1>1. /\ states' \in Seq(SUBSET Scopes) /\ Len(states) \in Nat /\ Len(states') = Len(states) + 1
      /\ \A i \in 1 .. Len(states) : states'[i] = states[i]
      /\ states'[Len(states) + 1] = g
    BY AppendProperties DEF ScopeTypes
<1>2. ASSUME Missed(s) PROVE Missed(s)'
  <2> PICK i \in 1 .. Len(states) : s \notin states[i]
    BY <1>2 DEF Missed
  <2>1. i \in 1 .. Len(states') /\ s \notin states'[i]
    BY <1>1
  <2> QED BY <2>1 DEF Missed
<1>3. ASSUME s \notin g PROVE Missed(s)'
  <2> DEFINE i == Len(states) + 1
  <2>1. i \in 1 .. Len(states') /\ s \notin states'[i]
    BY <1>1, <1>3
  <2> QED BY <2>1 DEF Missed
<1> QED BY <1>1, <1>2, <1>3

LEMMA TailKeepsMissed ==
    ASSUME ScopeTypes, states # <<>>, states' = Tail(states), NEW s \in Scopes,
           s \in Head(states), Missed(s)
    PROVE  Missed(s)'
<1>1. /\ Len(states) \in Nat /\ Len(states) > 0 /\ Len(states') = Len(states) - 1
      /\ \A i \in 1 .. Len(states') : states'[i] = states[i + 1]
    BY EmptySeq, LenProperties, HeadTailProperties DEF ScopeTypes
<1>2. PICK i \in 1 .. Len(states) : s \notin states[i]
    BY DEF Missed
<1>3. i # 1
    BY <1>2
<1>4. i - 1 \in 1 .. Len(states') /\ s \notin states'[i - 1]
    BY <1>1, <1>2, <1>3
<1> QED BY <1>4 DEF Missed

LEMMA ScopesRest ==
    ASSUME ScopesTold, UNCHANGED <<scopeVars, granted>>, Watched' => Watched
    PROVE  ScopesTold'
BY DEF ScopesTold, ScopeTypes, EndIsTold, Missed, scopeVars

LEMMA QuietSteps ==
    ASSUME \/ TabSteps \/ QuerySees \/ QueryAnswered
           \/ Reconnect \/ HelloAnswered \/ Report \/ RecoveryFails \/ ConnectionGone
           \/ Lose \/ Close \/ GroupUpdated \/ Commit
           \/ \E ss \in SUBSET Scopes : Move(ss)
           \/ \E kind \in {"detach", "recover"} : Detached(kind)
    PROVE  UNCHANGED <<scopeVars, granted>> /\ (Watched' => Watched)
<1> USE DEF Watched, scopeVars, linkVars, brokerVars
<1>1. CASE \/ JobStarts \/ JobProceeds \/ JobActed
           \/ \E s \in Scopes : Notify(s) \/ Notified(s)
    BY <1>1 DEF JobStarts, JobProceeds, JobActed, Notify, Notified
<1>2. CASE \/ PublishAttaches \/ PublishSent \/ PublishAnswered \/ Refresh
           \/ RevokeStarts \/ RevokeAnswered \/ RenewStarts \/ RenewSent \/ RenewAnswered
  <2>1. UNCHANGED <<scopeVars, granted, live>>
    BY <1>2 DEF PublishAttaches, PublishSent, PublishAnswered, Refresh, RevokeStarts, RevokeAnswered,
                RenewStarts, RenewSent, RenewAnswered, opUnchanged
  <2>2. phase' = phase \/ phase' \in {"renewed", "failing"}
    <3>1. ASSUME NEW ok \in BOOLEAN, EndOp(ok) PROVE phase' = phase \/ phase' \in {"renewed", "failing"}
      BY <3>1 DEF EndOp
    <3>2. ASSUME NEW at, NextStep(at) PROVE phase' = phase
      BY <3>2 DEF NextStep
    <3>3. CASE PublishAttaches
      BY <3>1, <3>2, <3>3 DEF PublishAttaches
    <3>4. CASE PublishSent
      BY <3>1, <3>2, <3>4 DEF PublishSent
    <3>5. CASE PublishAnswered
      BY <3>1, <3>2, <3>5 DEF PublishAnswered
    <3>6. CASE Refresh
      BY <3>1, <3>2, <3>6 DEF Refresh
    <3>7. CASE RevokeStarts
      <4>1. (~connection) \in BOOLEAN
        OBVIOUS
      <4> QED BY <3>1, <3>2, <3>7, <4>1 DEF RevokeStarts
    <3>8. CASE RevokeAnswered
      BY <3>8 DEF RevokeAnswered, EndOp
    <3>9. CASE RenewStarts
      BY <3>9 DEF RenewStarts, EndOp, NextStep, RenewFails
    <3>10. CASE RenewSent
      BY <3>10 DEF RenewSent, EndOp, NextStep, RenewFails
    <3>11. CASE RenewAnswered
      BY <3>11 DEF RenewAnswered, EndOp, NextStep, RenewFails
    <3> QED BY <1>2, <3>3, <3>4, <3>5, <3>6, <3>7, <3>8, <3>9, <3>10, <3>11
  <2> QED BY <2>1, <2>2
<1>3. CASE QuerySees \/ QueryAnswered \/ Close \/ GroupUpdated \/ Commit
           \/ (\E ss \in SUBSET Scopes : Move(ss))
           \/ \E kind \in {"detach", "recover"} : Detached(kind)
    BY <1>3 DEF QuerySees, QueryAnswered, Close, GroupUpdated, Commit, Move, Detached, pageUnchanged
<1>4. CASE Reconnect \/ HelloAnswered \/ Report \/ RecoveryFails \/ ConnectionGone \/ Lose
    BY <1>4 DEF Reconnect, HelloAnswered, Report, RecoveryFails, ConnectionGone, Lose
<1> QED
    BY <1>1, <1>2, <1>3, <1>4 DEF TabSteps

(* Any state the broker sends is of some scopes, and adds to what is told. *)
LEMMA PushTells ==
    ASSUME ScopeTypes, NEW g \in SUBSET Scopes, states' = Pushed(g), UNCHANGED <<phase, live>>
    PROVE  /\ states' \in Seq(SUBSET Scopes)
           /\ \A s \in Scopes : Watched' => Watched /\ (Missed(s) \/ s \notin g => Missed(s)')
<1>0. Watched' <=> Watched
    BY DEF Watched
<1>1. CASE Watched
  <2>1. states' = Append(states, g)
    BY <1>1 DEF Pushed
  <2>2. states' \in Seq(SUBSET Scopes)
    BY <2>1, AppendProperties DEF ScopeTypes
  <2>3. ASSUME NEW s \in Scopes PROVE Missed(s) \/ s \notin g => Missed(s)'
    BY <2>1, PushKeepsMissed
  <2> QED BY <1>0, <1>1, <2>2, <2>3
<1>2. CASE ~Watched
  <2>1. states' = states
    BY <1>2 DEF Pushed
  <2> QED BY <1>0, <1>2, <2>1 DEF ScopeTypes
<1> QED BY <1>1, <1>2

LEMMA ReconciliationTells ==
    ASSUME ScopesTold, Reconcile \/ Reconciled \/ GoesOffline \/ Revoked
    PROVE  ScopesTold'
<1>0. ScopeTypes /\ \A s \in Scopes : EndIsTold(s)
    BY DEF ScopesTold
<1>1. CASE Reconcile
  <2>1. ~Watched' /\ approved' = approved /\ approving' = approving
    BY <1>1 DEF Reconcile, Watched
  <2>2. ScopeTypes'
    <3>1. states' = states \/ states' = Append(states, granted)
      BY <1>1 DEF Reconcile
    <3> QED BY <1>0, <1>1, <3>1, PushKeepsMissed DEF Reconcile, ScopeTypes
  <2> QED BY <1>0, <2>1, <2>2 DEF ScopesTold, EndIsTold
<1>2. CASE Reconciled
  <2>1. states' = Append(states, granted) /\ UNCHANGED <<approved, approving, answer, granted>>
    BY <1>2 DEF Reconciled, WatchedStates, brokerVars
  <2>2. ScopeTypes'
    BY <1>0, <2>1, PushKeepsMissed DEF ScopeTypes
  <2>3. \A s \in Scopes : s \notin granted => Missed(s)'
    BY <1>0, <2>1, PushKeepsMissed DEF ScopeTypes
  <2> QED BY <1>0, <2>1, <2>2, <2>3 DEF ScopesTold, EndIsTold
<1>3. CASE GoesOffline
  <2>1. ~Watched' /\ UNCHANGED <<approved, approving, answer, states>> /\ granted' = {}
    BY <1>3 DEF GoesOffline, Watched, scopeVars, linkVars
  <2> QED BY <1>0, <2>1 DEF ScopesTold, EndIsTold, ScopeTypes
<1>4. CASE Revoked
  <2>1. ~Watched' /\ UNCHANGED <<approving, answer, states>> /\ granted' = {} /\ approved' = {}
    BY <1>4 DEF Revoked, Watched
  <2> QED BY <1>0, <2>1 DEF ScopesTold, EndIsTold, ScopeTypes
<1> QED BY <1>1, <1>2, <1>3, <1>4

LEMMA EndingsAreTold ==
    ASSUME ScopesTold, NEW s \in Scopes, Revoke(s) \/ EndScope(s)
    PROVE  ScopesTold'
<1>0. ScopeTypes /\ \A q \in Scopes : EndIsTold(q)
    BY DEF ScopesTold
<1>1. /\ granted' = granted \ {s} /\ states' = Pushed(granted') /\ UNCHANGED <<phase, live, approving, answer>>
      /\ approved' \in SUBSET approved
    BY DEF Revoke, EndScope, linkVars
<1>2. granted' \in SUBSET Scopes
    BY <1>0, <1>1 DEF ScopeTypes
<1> PICK g \in SUBSET Scopes : g = granted'
    BY <1>2
<1>3. /\ states' \in Seq(SUBSET Scopes)
      /\ \A q \in Scopes : Watched' => Watched /\ (Missed(q) \/ q \notin g => Missed(q)')
    BY <1>0, <1>1, PushTells
<1>4. ScopeTypes'
    BY <1>0, <1>1, <1>2, <1>3 DEF ScopeTypes
<1>5. \A q \in Scopes : EndIsTold(q)'
    BY <1>0, <1>1, <1>3 DEF EndIsTold
<1> QED BY <1>4, <1>5 DEF ScopesTold

LEMMA ConsumingTells ==
    ASSUME ScopesTold, ConsumeState
    PROVE  ScopesTold'
<1>0. ScopeTypes /\ \A q \in Scopes : EndIsTold(q)
    BY DEF ScopesTold
<1>1. /\ states # <<>> /\ states' = Tail(states)
      /\ UNCHANGED <<phase, live, approving, answer, granted>>
      /\ approved' \in SUBSET approved
      /\ Watched => \A q \in approved' : q \in Head(states)
    BY DEF ConsumeState, linkVars, brokerVars, Watched
<1>2. ScopeTypes'
    BY <1>0, <1>1, HeadTailProperties DEF ScopeTypes
<1>3. ASSUME NEW q \in Scopes, Watched, q \in Head(states), Missed(q) PROVE Missed(q)'
    BY <1>0, <1>1, <1>3, TailKeepsMissed
<1>4. Watched' <=> Watched
    BY <1>1 DEF Watched
<1>5. \A q \in Scopes : EndIsTold(q)'
    BY <1>0, <1>1, <1>3, <1>4 DEF EndIsTold
<1> QED BY <1>2, <1>5 DEF ScopesTold

(* An approval takes a scope that is granted, and gives up one that is not *)
(* when it was answered.                                                   *)
LEMMA ApprovalsTell ==
    ASSUME ScopesTold, NEW s \in Scopes,
           Approve(s) \/ ApproveSent(s) \/ Approved(s) \/ ApprovalEnds(s)
    PROVE  ScopesTold'
<1>0. /\ ScopeTypes /\ \A q \in Scopes : EndIsTold(q)
      /\ approving \in [Scopes -> {"no", "adding", "calling", "binding", "refused", "done", "failed"}]
    BY DEF ScopesTold, ScopeTypes
<1>a. UNCHANGED <<phase, live>>
    BY DEF Approve, ApproveSent, Approved, ApprovalEnds, linkVars
<1>1. CASE Approve(s)
  <2>1. /\ approving[s] = "no" /\ approving' = [approving EXCEPT ![s] = "adding"]
        /\ UNCHANGED <<approved, answer, states, granted>>
    BY <1>1 DEF Approve, brokerVars
  <2>2. ScopeTypes'
    BY <1>0, <2>1 DEF ScopeTypes
  <2>3. \A q \in Scopes : EndIsTold(q)'
    BY <1>0, <1>a, <2>1 DEF EndIsTold, Missed, Watched
  <2> QED BY <2>2, <2>3 DEF ScopesTold
<1>2. CASE ApproveSent(s)
  <2>1. approving[s] = "adding" /\ approved' = approved
    BY <1>2 DEF ApproveSent
  <2>2. CASE /\ granted' = granted \cup {s} /\ states' = Pushed(granted')
             /\ answer' = [answer EXCEPT ![s] = granted']
             /\ approving' = [approving EXCEPT ![s] = "calling"]
    <3>0. granted' \in SUBSET Scopes
      BY <1>0, <2>2 DEF ScopeTypes
    <3> PICK g \in SUBSET Scopes : g = granted'
      BY <3>0
    <3>1. /\ states' \in Seq(SUBSET Scopes)
          /\ \A q \in Scopes : Watched' => Watched /\ (Missed(q) \/ q \notin g => Missed(q)')
      BY <1>0, <1>a, <2>2, PushTells
    <3>2. ScopeTypes'
      BY <1>0, <2>1, <2>2, <3>0, <3>1 DEF ScopeTypes
    <3>3. \A q \in Scopes : EndIsTold(q)'
      BY <1>0, <2>1, <2>2, <3>1 DEF EndIsTold
    <3> QED BY <3>2, <3>3 DEF ScopesTold
  <2>3. CASE approving' = [approving EXCEPT ![s] = "failed"] /\ UNCHANGED <<granted, states, answer>>
    <3>2. ScopeTypes'
      BY <1>0, <2>1, <2>3 DEF ScopeTypes
    <3>3. \A q \in Scopes : EndIsTold(q)'
      BY <1>0, <1>a, <2>1, <2>3 DEF EndIsTold, Missed, Watched
    <3> QED BY <3>2, <3>3 DEF ScopesTold
  <2> QED BY <1>2, <2>2, <2>3 DEF ApproveSent, ApproveFails
<1>3. CASE Approved(s)
  <2>1. approving[s] = "calling" /\ UNCHANGED <<answer, states, granted>>
    BY <1>3 DEF Approved
  <2>2. CASE /\ approved' = approved \cup {s}
             /\ approving' = [approving EXCEPT ![s] = IF Reportable(s) THEN "binding" ELSE "refused"]
    <3>0. PICK to \in {"binding", "refused"} :
               approving' = [approving EXCEPT ![s] = to] /\ (to = "binding" => s \in granted)
      BY <2>2 DEF Reportable
    <3>2. ScopeTypes'
      BY <1>0, <2>1, <2>2, <3>0 DEF ScopeTypes
    <3>3. \A q \in Scopes : EndIsTold(q)'
      BY <1>0, <1>a, <2>1, <2>2, <3>0 DEF EndIsTold, Missed, Watched
    <3> QED BY <3>2, <3>3 DEF ScopesTold
  <2>3. CASE approving' = [approving EXCEPT ![s] = "failed"] /\ approved' = approved
    <3>2. ScopeTypes'
      BY <1>0, <2>1, <2>3 DEF ScopeTypes
    <3>3. \A q \in Scopes : EndIsTold(q)'
      BY <1>0, <1>a, <2>1, <2>3 DEF EndIsTold, Missed, Watched
    <3> QED BY <3>2, <3>3 DEF ScopesTold
  <2> QED BY <1>3, <2>2, <2>3 DEF Approved, ApproveFails
<1>4. CASE ApprovalEnds(s)
  <2>1. approving[s] \in {"binding", "refused"} /\ UNCHANGED <<answer, granted>>
    BY <1>4 DEF ApprovalEnds, brokerVars
  <2>2. CASE /\ approving[s] = "binding" /\ approving' = [approving EXCEPT ![s] = "done"]
             /\ states' = Append(states, answer[s]) /\ approved' = approved
    <3> PICK g \in SUBSET Scopes : g = answer[s]
      BY <1>0 DEF ScopeTypes
    <3>1. /\ states' \in Seq(SUBSET Scopes)
          /\ \A q \in Scopes : Missed(q) => Missed(q)'
      BY <1>0, <2>2, PushKeepsMissed DEF ScopeTypes
    <3>2. ScopeTypes'
      BY <1>0, <2>1, <2>2, <3>1 DEF ScopeTypes
    <3>3. \A q \in Scopes : EndIsTold(q)'
      BY <1>0, <1>a, <2>1, <2>2, <3>1 DEF EndIsTold, Watched
    <3> QED BY <3>2, <3>3 DEF ScopesTold
  <2>3. CASE approving' = [approving EXCEPT ![s] = "failed"] /\ approved' = approved \ {s} /\ UNCHANGED states
    <3>2. ScopeTypes'
      BY <1>0, <2>1, <2>3 DEF ScopeTypes
    <3>3. \A q \in Scopes : EndIsTold(q)'
      BY <1>0, <1>a, <2>1, <2>3 DEF EndIsTold, Missed, Watched
    <3> QED BY <3>2, <3>3 DEF ScopesTold
  <2> QED BY <1>4, <2>2, <2>3 DEF ApprovalEnds, ApproveFails
<1> QED BY <1>1, <1>2, <1>3, <1>4

(* A provider that is connected keeps no scope that has ended at the       *)
(* broker, once it has consumed what it was told: no end is missed while   *)
(* the connection is lost and reconciled, nor while an approval of the     *)
(* same scope or of another is being answered, for any number of scopes    *)
(* and losses (consumeState, reconcile and approve in agent-recovery.ts).  *)
THEOREM EndedScopesAreGivenUp == Spec => []NoScopeOutlivesItsGrant
<1>1. Init => ScopesTold
  <2> SUFFICES ASSUME Init PROVE ScopesTold
    OBVIOUS
  <2>1. ScopeTypes
    BY EmptySeq DEF Init, ScopeTypes
  <2>2. approved = {}
    BY DEF Init
  <2> QED BY <2>1, <2>2 DEF ScopesTold, EndIsTold
<1>2. ScopesTold /\ [Next]_vars => ScopesTold'
  <2> SUFFICES ASSUME ScopesTold, [Next]_vars PROVE ScopesTold'
    OBVIOUS
  <2>1. CASE UNCHANGED vars
    BY <2>1, ScopesRest DEF vars, scopeVars, brokerVars, linkVars, Watched
  <2>2. CASE \/ TabSteps \/ QuerySees \/ QueryAnswered
             \/ Reconnect \/ HelloAnswered \/ Report \/ RecoveryFails \/ ConnectionGone
             \/ Lose \/ Close \/ GroupUpdated \/ Commit
             \/ (\E ss \in SUBSET Scopes : Move(ss))
             \/ (\E kind \in {"detach", "recover"} : Detached(kind))
    BY <2>2, QuietSteps, ScopesRest
  <2>3. CASE \/ Reconcile \/ Reconciled \/ GoesOffline \/ Revoked \/ ConsumeState
             \/ \E s \in Scopes : \/ Approve(s) \/ ApproveSent(s) \/ Approved(s) \/ ApprovalEnds(s)
                                  \/ Revoke(s) \/ EndScope(s)
    BY <2>3, ReconciliationTells, ConsumingTells, ApprovalsTell, EndingsAreTold
  <2> QED
    BY <2>1, <2>2, <2>3 DEF Next, LinkSteps, ScopeSteps, Outside
<1>3. ScopesTold => NoScopeOutlivesItsGrant
  <2> SUFFICES ASSUME ScopesTold, Watched, states = <<>>,
                      \A s \in Scopes : approving[s] \in {"no", "adding", "done", "failed"},
                      NEW s \in approved
               PROVE  s \in granted
    BY DEF NoScopeOutlivesItsGrant
  <2>1. s \in Scopes /\ EndIsTold(s)
    BY DEF ScopesTold, ScopeTypes
  <2>2. ~Missed(s)
    BY EmptySeq DEF Missed
  <2> QED BY <2>1, <2>2 DEF EndIsTold
<1> QED
    BY <1>1, <1>2, <1>3, PTL DEF Spec

-----------------------------------------------------------------------------
(* The tab under the debugger, and the broker's record of it               *)

TabTarget == [id : 1..MaxPublishers, generation : Nat]
TabOperations == {"publish", "refresh", "revoke", "detach", "renew", "recoveryRenew", "recover"}
OfTheJob == {"publish", "refresh", "revoke"}

RecordTypes ==
    /\ published \in TabTarget \cup {None} /\ served \in TabTarget \cup {None}
    /\ controlled \in {None} \cup [target : TabTarget \cup {None}]
    /\ highest \in [1..MaxPublishers -> Nat] /\ publishers \in 0..MaxPublishers
    /\ ops \in Seq(TabOperations)

Publishing == Running({"publish"}, "attached") \/ Running({"publish"}, "sent")
Revoking == Running({"revoke", "detach"}, "sent")
Renewing(at) == Running(Renewals, at)
WillRevoke == \E i \in 1 .. Len(ops) : ops[i] = "revoke"

(* One operation is under way, and at most one of those queued is of the   *)
(* running job.  A publication that waits finds no target.                 *)
OpsInOrder ==
    /\ step = "idle" \/ Publishing \/ Revoking \/ Renewing("revoked") \/ Renewing("sent")
    /\ \A i, j \in 1 .. Len(ops) : ops[i] \in OfTheJob /\ ops[j] \in OfTheJob => i = j
    /\ \A i \in 1 .. Len(ops) :
         /\ ops[i] \in {"publish", "refresh"} => job = "acting"
         /\ ops[i] = "revoke" => job = "revoking"
         /\ ops[i] = "publish" => /\ publishers # 0 /\ controlled = Nothing /\ managed
                                  /\ published = None \/ Publishing

(* What is attached is published, or about to be detached; what is         *)
(* published is managed, or will be revoked; what is managed is in a scope,*)
(* or will be looked at again.                                             *)
DebuggerKept ==
    /\ attached => published # None \/ Revoking
    /\ published # None \/ Revoking => managed \/ WillRevoke
    /\ Matching = {} => due \/ job = "leaving" \/ (~managed /\ job # "keeping")

(* The publisher and the entry of the tab agree, except while a            *)
(* publication or a revocation is under way.                               *)
EntryFollows ==
    /\ Publishing \/ Renewing("revoked") \/ Renewing("sent") => published # None
    /\ Revoking => published = None
    /\ published # None => Publishing \/ controlled = [target |-> published]

StrayInv == RecordTypes /\ OpsInOrder /\ DebuggerKept /\ EntryFollows

(* The broker never serves a generation twice, and what is being renewed   *)
(* or revoked is not what it serves.                                       *)
Seen(t) == t # None => highest[t.id] >= t.generation
DirectoryKept ==
    /\ served # None => highest[served.id] = served.generation
    /\ Seen(HeldTarget)
    /\ Running({"publish"}, "sent") => Seen(published)
    /\ Renewing("sent") => Seen(Renewed(published))
    /\ live => connection
    /\ live /\ Running({"publish"}, "sent") => served \in {None, published}
    /\ live /\ Renewing("sent") => served = Renewed(published)
    /\ live /\ Revoking => HeldTarget # None /\ served # HeldTarget

(* From its report on, the broker serves nothing but what the tab holds.   *)
Reported == live /\ phase \in {"reported", "reconciled", "ready"}
ServedOrUnderWay ==
    /\ live /\ (Reported \/ phase = "renewed") => published # None \/ Revoking \/ HeldTarget = None
    /\ Reported => \/ served \in {None, HeldTarget}
                   \/ Running({"publish"}, "sent") \/ Renewing("sent")

ServedInv == StrayInv /\ DirectoryKept /\ ServedOrUnderWay

(* A target that is published is not None, nor is the entry that holds it. *)
LEMMA TargetsAreNotNone ==
    /\ None \notin TabTarget /\ Nothing # None
    /\ \A t \in TabTarget \cup {None} : [target |-> t] # None
BY ProviderAssumption DEF TabTarget, TargetId, Nothing

LEMMA OpAdded ==
    ASSUME ops \in Seq(TabOperations), NEW k \in TabOperations, ops' = Append(ops, k)
    PROVE  /\ ops' \in Seq(TabOperations) /\ ops' # <<>>
           /\ Len(ops) \in Nat /\ Len(ops') = Len(ops) + 1
           /\ \A i \in 1 .. Len(ops) : ops'[i] = ops[i]
           /\ ops'[Len(ops) + 1] = k
           /\ ops # <<>> => First' = First
BY AppendProperties, EmptySeq DEF First

LEMMA OpTaken ==
    ASSUME ops \in Seq(TabOperations), ops # <<>>, ops' = Tail(ops)
    PROVE  /\ ops' \in Seq(TabOperations)
           /\ Len(ops) \in Nat \ {0} /\ Len(ops') = Len(ops) - 1 /\ First = ops[1]
           /\ First \in TabOperations
           /\ \A i \in 1 .. Len(ops') : i + 1 \in 1 .. Len(ops) /\ ops'[i] = ops[i + 1]
<1>1. /\ Len(ops) \in Nat /\ Len(ops) # 0
    BY EmptySeq, LenProperties
<1>2. /\ ops' \in Seq(TabOperations) /\ Len(ops') = Len(ops) - 1
      /\ \A i \in 1 .. Len(ops') : ops'[i] = ops[i + 1]
    BY HeadTailProperties
<1>3. First = ops[1] /\ First \in TabOperations
    BY HeadTailProperties DEF First
<1> QED BY <1>1, <1>2, <1>3

(* The head of the queue in the words of its elements.                     *)
LEMMA FirstOfOps ==
    ASSUME ops \in Seq(TabOperations), ops # <<>>
    PROVE  1 \in 1 .. Len(ops) /\ First = ops[1] /\ First \in TabOperations
BY EmptySeq, LenProperties, HeadTailProperties DEF First

(* An operation that ends leaves the others in order.                      *)
LEMMA EndedOp ==
    ASSUME RecordTypes, OpsInOrder, ops # <<>>, NEW ok \in BOOLEAN, EndOp(ok), publishers' = publishers,
           First \notin OfTheJob =>
               /\ managed' = managed
               /\ (published = None /\ controlled = Nothing => published' = None /\ controlled' = Nothing)
    PROVE  /\ ops' \in Seq(TabOperations) /\ OpsInOrder'
           /\ ~Publishing' /\ ~Revoking' /\ ~Renewing("revoked")' /\ ~Renewing("sent")'
           /\ First # "revoke" => (WillRevoke => WillRevoke')
           /\ job' = job \/ (job # "leaving" /\ job' # "keeping")
<1>1. /\ ops' \in Seq(TabOperations) /\ step' = "idle"
      /\ Len(ops) \in Nat \ {0} /\ Len(ops') = Len(ops) - 1 /\ First = ops[1]
      /\ First \in TabOperations
      /\ \A i \in 1 .. Len(ops') : i + 1 \in 1 .. Len(ops) /\ ops'[i] = ops[i + 1]
    BY OpTaken DEF EndOp, RecordTypes
<1>2. ~Publishing' /\ ~Revoking' /\ ~Renewing("revoked")' /\ ~Renewing("sent")'
    BY <1>1 DEF Publishing, Revoking, Renewing, Running
<1>3. /\ First \notin OfTheJob => job' = job
      /\ First = "revoke" => job' = "idle"
      /\ First \in {"publish", "refresh"} => job' \in {"acted", "idle"}
    BY DEF EndOp, OfTheJob
<1>4. /\ First = "revoke" => job = "revoking"
      /\ First \in {"publish", "refresh"} => job = "acting"
    BY <1>1 DEF OpsInOrder
<1>5. job' = job \/ (job # "leaving" /\ job' # "keeping")
    BY <1>3, <1>4 DEF OfTheJob
<1>6. ASSUME First # "revoke", WillRevoke PROVE WillRevoke'
  <2> PICK i \in 1 .. Len(ops) : ops[i] = "revoke"
    BY <1>6 DEF WillRevoke
  <2>1. i - 1 \in 1 .. Len(ops') /\ ops'[i - 1] = "revoke"
    BY <1>1, <1>6
  <2> QED BY <2>1 DEF WillRevoke
<1>7. \A i, j \in 1 .. Len(ops') : ops'[i] \in OfTheJob /\ ops'[j] \in OfTheJob => i = j
  <2> SUFFICES ASSUME NEW i \in 1 .. Len(ops'), NEW j \in 1 .. Len(ops'),
                      ops'[i] \in OfTheJob, ops'[j] \in OfTheJob
               PROVE  i = j
    OBVIOUS
  <2>1. i + 1 = j + 1
    BY <1>1 DEF OpsInOrder
  <2> QED BY <2>1, <1>1
<1>8. ASSUME NEW i \in 1 .. Len(ops')
      PROVE  /\ ops'[i] \in {"publish", "refresh"} => job' = "acting"
             /\ ops'[i] = "revoke" => job' = "revoking"
             /\ ops'[i] = "publish" => publishers' # 0 /\ controlled' = Nothing /\ managed' /\ published' = None
  <2>1. i + 1 \in 1 .. Len(ops) /\ ops'[i] = ops[i + 1] /\ i + 1 # 1 /\ 1 \in 1 .. Len(ops)
    BY <1>1
  <2>2. CASE First \in OfTheJob
    <3>1. ops'[i] \notin OfTheJob
      BY <1>1, <2>1, <2>2 DEF OpsInOrder
    <3> QED BY <3>1 DEF OfTheJob
  <2>3. CASE First \notin OfTheJob
    <3>1. ~Publishing
      BY <2>3 DEF Publishing, Running, OfTheJob
    <3>2. /\ ops[i + 1] \in {"publish", "refresh"} => job = "acting"
          /\ ops[i + 1] = "revoke" => job = "revoking"
          /\ ops[i + 1] = "publish" => publishers # 0 /\ controlled = Nothing /\ managed /\ published = None
      BY <2>1, <3>1 DEF OpsInOrder
    <3> QED BY <1>3, <2>1, <2>3, <3>2
  <2> QED BY <2>2, <2>3
<1>9. OpsInOrder'
    BY <1>1, <1>7, <1>8 DEF OpsInOrder
<1> QED BY <1>1, <1>2, <1>5, <1>6, <1>9

(* An operation that goes on to its next step.                             *)
LEMMA OpGoesOn ==
    ASSUME RecordTypes, OpsInOrder, ops # <<>>, NEW at, NextStep(at), publishers' = publishers,
           Publishing' \/ Revoking' \/ Renewing("revoked")' \/ Renewing("sent")',
           managed' = managed,
           controlled = Nothing => controlled' = Nothing,
           published = None => published' = None \/ Publishing',
           Publishing => Publishing'
    PROVE  OpsInOrder' /\ ops' = ops /\ job' = job /\ step' = at /\ (WillRevoke' <=> WillRevoke)
<1>1. ops' = ops /\ job' = job /\ step' = at
    BY DEF NextStep
<1> QED BY <1>1 DEF OpsInOrder, WillRevoke

LEMMA StillMatching ==
    ASSUME DebuggerKept, UNCHANGED <<view, members, due>>, managed' => managed,
           job' = job \/ (job # "leaving" /\ job' # "keeping")
    PROVE  Matching' = {} => due' \/ job' = "leaving" \/ (~managed' /\ job' # "keeping")
BY DEF DebuggerKept, Matching

LEMMA PublishingKeeps ==
    ASSUME StrayInv, PublishAttaches \/ PublishSent \/ PublishAnswered
    PROVE  StrayInv'
<1> USE TargetsAreNotNone
<1>0. /\ RecordTypes /\ OpsInOrder /\ DebuggerKept /\ EntryFollows
      /\ ops \in Seq(TabOperations) /\ ops # <<>> /\ First = "publish"
    BY DEF StrayInv, RecordTypes, PublishAttaches, PublishSent, PublishAnswered, Running
<1>1. /\ publishers # 0 /\ controlled = Nothing /\ managed /\ (published = None \/ Publishing)
    BY <1>0, FirstOfOps DEF OpsInOrder
<1>2. UNCHANGED <<view, members, due, publishers>>
    BY DEF PublishAttaches, PublishSent, PublishAnswered, opUnchanged
<1>3. ASSUME NEW ok \in BOOLEAN, EndOp(ok), managed' => managed,
             published' = None \/ published' = published, controlled' \in {controlled} \cup {[target |-> published']},
             attached' => published' # None, published' # None => managed' /\ controlled' = [target |-> published'],
             highest' \in [1..MaxPublishers -> Nat], served' \in TabTarget \cup {None}
      PROVE  StrayInv'
  <2>1. /\ ops' \in Seq(TabOperations) /\ OpsInOrder'
        /\ ~Publishing' /\ ~Revoking' /\ ~Renewing("revoked")' /\ ~Renewing("sent")'
        /\ job' = job \/ (job # "leaving" /\ job' # "keeping")
    BY <1>0, <1>2, <1>3, EndedOp DEF OfTheJob
  <2>2. RecordTypes'
    BY <1>0, <1>2, <1>3, <2>1 DEF RecordTypes
  <2>3. EntryFollows'
    BY <1>3, <2>1 DEF EntryFollows
  <2>4. Matching' = {} => due' \/ job' = "leaving" \/ (~managed' /\ job' # "keeping")
    BY <1>0, <1>2, <1>3, <2>1, StillMatching
  <2>5. DebuggerKept'
    BY <1>3, <2>1, <2>4 DEF DebuggerKept
  <2> QED BY <2>1, <2>2, <2>3, <2>5 DEF StrayInv
<1>4. ASSUME NEW at \in {"attached", "sent"}, NextStep(at), attached' => published' # None,
             managed' = managed, controlled' = controlled, published' # None,
             highest' \in [1..MaxPublishers -> Nat], served' \in TabTarget \cup {None}, published' \in TabTarget
      PROVE  StrayInv'
  <2>0. ops' = ops /\ step' = at /\ job' = job
    BY <1>4 DEF NextStep
  <2>1. Publishing'
    BY <1>0, <2>0 DEF Publishing, Running, First
  <2>2. OpsInOrder'
    BY <1>0, <1>2, <1>4, <2>1, OpGoesOn
  <2>3. ~Revoking' /\ ~Renewing("revoked")' /\ ~Renewing("sent")'
    BY <1>0, <2>0 DEF Revoking, Renewing, Running, First, Renewals
  <2>4. RecordTypes'
    BY <1>0, <1>2, <1>4, <2>0 DEF RecordTypes
  <2>5. Matching' = {} => due' \/ job' = "leaving" \/ (~managed' /\ job' # "keeping")
    BY <1>0, <1>2, <1>4, <2>0, StillMatching
  <2>6. DebuggerKept'
    BY <1>1, <1>4, <2>3, <2>5 DEF DebuggerKept
  <2>7. EntryFollows'
    BY <1>4, <2>1, <2>3 DEF EntryFollows
  <2> QED BY <2>2, <2>4, <2>6, <2>7 DEF StrayInv
<1>5. CASE PublishAttaches
  <2>0. step = "idle" /\ UNCHANGED <<highest, served, controlled>> /\ published = None /\ ~attached
    <3>1. step = "idle" /\ UNCHANGED <<highest, served, controlled>>
      BY <1>5 DEF PublishAttaches, Running
    <3>2. ~Publishing /\ ~Revoking
      BY <3>1 DEF Publishing, Revoking, Running
    <3> QED BY <1>0, <1>1, <3>1, <3>2 DEF DebuggerKept
  <2>1. CASE /\ attached' = TRUE /\ published' = [id |-> publishers, generation |-> 1]
             /\ NextStep("attached") /\ managed' = managed
    <3>1. published' \in TabTarget
      <4>1. publishers \in 1..MaxPublishers
        BY <1>0, <1>1, ProviderAssumption DEF RecordTypes
      <4> QED BY <4>1, <2>1 DEF TabTarget
    <3> QED BY <1>0, <1>4, <2>0, <2>1, <3>1 DEF RecordTypes
  <2>2. CASE managed' = FALSE /\ EndOp(FALSE) /\ UNCHANGED <<attached, published>>
    BY <1>0, <1>3, <2>0, <2>2 DEF RecordTypes
  <2> QED BY <1>5, <2>1, <2>2 DEF PublishAttaches
<1>6. CASE PublishSent
  <2>0. step = "attached" /\ UNCHANGED <<controlled>> /\ published \in TabTarget /\ attached \in {TRUE, attached}
    <3>1. step = "attached" /\ UNCHANGED controlled /\ Publishing
      BY <1>6 DEF PublishSent, Running, Publishing
    <3> QED BY <1>0, <3>1 DEF EntryFollows, RecordTypes
  <2>1. CASE Serve(published) /\ NextStep("sent") /\ UNCHANGED <<managed, published, attached>>
    <3>1. highest' \in [1..MaxPublishers -> Nat] /\ served' \in TabTarget \cup {None}
      BY <1>0, <2>0, <2>1 DEF Serve, RecordTypes, TabTarget
    <3> QED BY <1>4, <2>0, <2>1, <3>1
  <2>2. CASE PublishUndone /\ managed' = FALSE /\ EndOp(FALSE) /\ UNCHANGED <<served, highest>>
    BY <1>0, <1>3, <2>0, <2>2 DEF PublishUndone, RecordTypes
  <2> QED BY <1>6, <2>1, <2>2 DEF PublishSent
<1>7. CASE PublishAnswered
  <2>0. step = "sent" /\ UNCHANGED <<served, highest>> /\ published \in TabTarget
    <3>1. step = "sent" /\ UNCHANGED <<served, highest>> /\ Publishing
      BY <1>7 DEF PublishAnswered, Running, Publishing
    <3> QED BY <1>0, <3>1 DEF EntryFollows, RecordTypes
  <2>1. CASE controlled' = [target |-> published] /\ EndOp(TRUE) /\ UNCHANGED <<managed, published, attached>>
    BY <1>0, <1>1, <1>3, <2>0, <2>1 DEF RecordTypes
  <2>2. CASE PublishUndone /\ managed' = FALSE /\ EndOp(FALSE) /\ UNCHANGED controlled
    BY <1>0, <1>3, <2>0, <2>2 DEF PublishUndone, RecordTypes
  <2> QED BY <1>7, <2>1, <2>2 DEF PublishAnswered
<1> QED BY <1>5, <1>6, <1>7

LEMMA RevokingKeeps ==
    ASSUME StrayInv, Refresh \/ RevokeStarts \/ RevokeAnswered
    PROVE  StrayInv'
<1> USE TargetsAreNotNone
<1>0. /\ RecordTypes /\ OpsInOrder /\ DebuggerKept /\ EntryFollows
      /\ ops \in Seq(TabOperations) /\ ops # <<>> /\ First \in {"refresh", "revoke", "detach"}
      /\ served \in TabTarget \cup {None}
    BY DEF StrayInv, RecordTypes, Refresh, RevokeStarts, RevokeAnswered, Running
<1>1. UNCHANGED <<view, members, due, publishers, managed, highest>>
    BY DEF Refresh, RevokeStarts, RevokeAnswered, opUnchanged
<1>2. /\ ~Publishing /\ ~Renewing("revoked") /\ ~Renewing("sent")
      /\ First = "revoke" => WillRevoke
    BY <1>0, FirstOfOps DEF Publishing, Renewing, Running, Renewals, WillRevoke
<1>3. ASSUME NEW ok \in BOOLEAN, EndOp(ok),
             published' = None \/ (published' = published /\ First = "refresh"),
             controlled' = controlled \/ (controlled' \in {None, Nothing} /\ published' = None),
             published = None /\ First = "detach" => controlled' \in {controlled, Nothing},
             attached' => attached /\ published' # None,
             served' \in TabTarget \cup {None}
      PROVE  StrayInv'
  <2>0. First \notin OfTheJob =>
            (controlled = Nothing /\ published = None => controlled' = Nothing /\ published' = None)
    BY <1>0, <1>3 DEF OfTheJob
  <2>1. /\ ops' \in Seq(TabOperations) /\ OpsInOrder'
        /\ ~Publishing' /\ ~Revoking' /\ ~Renewing("revoked")' /\ ~Renewing("sent")'
        /\ First # "revoke" => (WillRevoke => WillRevoke')
        /\ job' = job \/ (job # "leaving" /\ job' # "keeping")
    BY <1>0, <1>1, <1>3, <2>0, EndedOp DEF OfTheJob
  <2>2. RecordTypes'
    BY <1>0, <1>1, <1>3, <2>1 DEF RecordTypes, Nothing
  <2>3. EntryFollows'
    BY <1>0, <1>2, <1>3, <2>1 DEF EntryFollows
  <2>4. Matching' = {} => due' \/ job' = "leaving" \/ (~managed' /\ job' # "keeping")
    BY <1>0, <1>1, <2>1, StillMatching
  <2>5. DebuggerKept'
    BY <1>0, <1>1, <1>3, <2>1, <2>4 DEF DebuggerKept
  <2> QED BY <2>1, <2>2, <2>3, <2>5 DEF StrayInv
<1>4. ASSUME NextStep("sent"), First \in {"revoke", "detach"}, published # None, published' = None,
             UNCHANGED <<attached, controlled>>, served' \in TabTarget \cup {None}
      PROVE  StrayInv'
  <2>0. ops' = ops /\ step' = "sent" /\ job' = job
    BY <1>4 DEF NextStep
  <2>1. Revoking' /\ ~Publishing' /\ ~Renewing("revoked")' /\ ~Renewing("sent")' /\ (WillRevoke' <=> WillRevoke)
    BY <1>0, <1>4, <2>0 DEF Revoking, Publishing, Renewing, Running, First, Renewals, WillRevoke
  <2>2. OpsInOrder'
    BY <1>0, <1>1, <1>2, <1>4, <2>1, OpGoesOn
  <2>4. RecordTypes'
    BY <1>0, <1>1, <1>4, <2>0 DEF RecordTypes
  <2>5. Matching' = {} => due' \/ job' = "leaving" \/ (~managed' /\ job' # "keeping")
    BY <1>0, <1>1, <2>0, StillMatching
  <2>6. DebuggerKept'
    BY <1>0, <1>1, <1>4, <2>1, <2>5 DEF DebuggerKept
  <2>7. EntryFollows'
    BY <1>4, <2>1 DEF EntryFollows
  <2> QED BY <2>2, <2>4, <2>6, <2>7 DEF StrayInv
<1>5. CASE Refresh
  <2>1. EndOp(TRUE) /\ First = "refresh" /\ step = "idle" /\ UNCHANGED <<published, controlled, attached, served>>
    BY <1>5 DEF Refresh, Running
  <2>2. attached => published # None
    BY <1>0, <2>1 DEF DebuggerKept, Revoking, Running
  <2> QED BY <1>0, <1>3, <2>1, <2>2 DEF RecordTypes
<1>6. CASE RevokeStarts
  <2>0. First \in {"revoke", "detach"} /\ step = "idle"
    BY <1>6 DEF RevokeStarts, Running
  <2>1. attached => published # None
    BY <1>0, <2>0 DEF DebuggerKept, Revoking, Running
  <2>2. CASE published = None
    <3>1. /\ controlled' = IF First = "revoke" THEN None ELSE controlled
          /\ EndOp(TRUE) /\ UNCHANGED <<published, attached, served>>
      BY <1>6, <2>2 DEF RevokeStarts
    <3>2. /\ published' = None /\ (attached' => attached /\ published' # None) /\ served' \in TabTarget \cup {None}
          /\ controlled' = controlled \/ controlled' \in {None, Nothing}
          /\ First = "detach" => controlled' \in {controlled, Nothing}
      BY <1>0, <2>1, <2>2, <3>1
    <3> QED BY <1>3, <3>1, <3>2
  <2>3. CASE published # None
    <3>1. published' = None
      BY <1>6, <2>3 DEF RevokeStarts
    <3>2. CASE NextStep("sent") /\ UNCHANGED <<attached, controlled>> /\ served' \in {served, None}
      BY <1>0, <1>4, <2>0, <2>3, <3>1, <3>2 DEF RecordTypes
    <3>3. CASE /\ attached' = FALSE /\ EndOp(~connection) /\ UNCHANGED served
               /\ controlled' = controlled \/ Withdrawn
      <4>1. controlled' = controlled \/ controlled' \in {None, Nothing}
        BY <3>3 DEF Withdrawn
      <4>2. (~connection) \in BOOLEAN
        OBVIOUS
      <4> PICK ok \in BOOLEAN : ok = ~connection
        BY <4>2
      <4>3. EndOp(ok)
        BY <3>3
      <4>4. /\ attached' => attached /\ published' # None
            /\ served' \in TabTarget \cup {None}
        BY <1>0, <3>3
      <4> QED BY <1>3, <2>3, <3>1, <4>1, <4>3, <4>4
    <3> QED BY <1>6, <2>3, <3>2, <3>3 DEF RevokeStarts
  <2> QED BY <2>2, <2>3
<1>7. CASE RevokeAnswered
  <2>1. Revoking /\ First \in {"revoke", "detach"} /\ attached' = FALSE /\ EndOp(live) /\ UNCHANGED <<published, served>>
    BY <1>7 DEF RevokeAnswered, Running, Revoking
  <2>2. published = None
    BY <1>0, <2>1 DEF EntryFollows
  <2>3. /\ controlled' = controlled \/ controlled' \in {None, Nothing}
        /\ First = "detach" => controlled' \in {controlled, Nothing}
    BY <1>7, <2>1 DEF RevokeAnswered, Withdrawn
  <2>4. PICK ok \in BOOLEAN : EndOp(ok)
    <3>1. CASE live
      <4>1. EndOp(TRUE)
        BY <2>1, <3>1 DEF EndOp
      <4> QED BY <4>1
    <3>2. CASE ~live
      <4>1. EndOp(FALSE)
        BY <2>1, <3>2 DEF EndOp
      <4> QED BY <4>1
    <3> QED BY <3>1, <3>2
  <2>5. /\ published' = None /\ (attached' => attached /\ published' # None)
        /\ served' \in TabTarget \cup {None}
    BY <1>0, <2>1, <2>2
  <2> QED BY <1>3, <2>3, <2>4, <2>5
<1> QED BY <1>5, <1>6, <1>7

LEMMA RenewingKeeps ==
    ASSUME StrayInv, RenewStarts \/ RenewSent \/ RenewAnswered
    PROVE  StrayInv'
<1> USE TargetsAreNotNone
<1>0. /\ RecordTypes /\ OpsInOrder /\ DebuggerKept /\ EntryFollows
      /\ ops \in Seq(TabOperations) /\ ops # <<>> /\ First \in Renewals
      /\ served \in TabTarget \cup {None} /\ highest \in [1..MaxPublishers -> Nat]
    BY DEF StrayInv, RecordTypes, RenewStarts, RenewSent, RenewAnswered, Running
<1>1. UNCHANGED <<view, members, due, publishers, managed>>
    BY DEF RenewStarts, RenewSent, RenewAnswered, opUnchanged
<1>2. /\ ~Publishing /\ ~Revoking /\ First \notin OfTheJob /\ First # "revoke"
      /\ published # None => controlled = [target |-> published] /\ (managed \/ WillRevoke)
      /\ attached => published # None
  <2>1. ~Publishing /\ ~Revoking /\ First \notin OfTheJob /\ First # "revoke"
    BY <1>0 DEF Publishing, Revoking, Running, Renewals, OfTheJob
  <2> QED BY <1>0, <2>1 DEF EntryFollows, DebuggerKept
<1>3. ASSUME NEW ok \in BOOLEAN, EndOp(ok),
             \/ /\ published' = published /\ controlled' = controlled
             \/ /\ published' = None /\ controlled' = Nothing
             \/ /\ published # None /\ published' \in TabTarget /\ controlled' = [target |-> published'],
             attached' => published' # None,
             served' \in TabTarget \cup {None}, highest' = highest
      PROVE  StrayInv'
  <2>0. published = None => published' = None /\ controlled' \in {controlled, Nothing}
    BY <1>3
  <2>1. /\ ops' \in Seq(TabOperations) /\ OpsInOrder'
        /\ ~Publishing' /\ ~Revoking' /\ ~Renewing("revoked")' /\ ~Renewing("sent")'
        /\ (WillRevoke => WillRevoke')
        /\ job' = job \/ (job # "leaving" /\ job' # "keeping")
    BY <1>0, <1>1, <1>2, <1>3, <2>0, EndedOp
  <2>2. RecordTypes'
    BY <1>0, <1>1, <1>3, <2>1 DEF RecordTypes, Nothing
  <2>3. EntryFollows'
    BY <1>2, <1>3, <2>1 DEF EntryFollows
  <2>4. Matching' = {} => due' \/ job' = "leaving" \/ (~managed' /\ job' # "keeping")
    BY <1>0, <1>1, <2>1, StillMatching
  <2>5. DebuggerKept'
    BY <1>1, <1>2, <1>3, <2>1, <2>4 DEF DebuggerKept
  <2> QED BY <2>1, <2>2, <2>3, <2>5 DEF StrayInv
<1>4. ASSUME NEW at \in {"revoked", "sent"}, NextStep(at), published # None,
             UNCHANGED <<published, controlled>>,
             served' \in TabTarget \cup {None}, highest' \in [1..MaxPublishers -> Nat]
      PROVE  StrayInv'
  <2>0. ops' = ops /\ step' = at /\ job' = job
    BY <1>4 DEF NextStep
  <2>1. /\ Renewing("revoked")' \/ Renewing("sent")'
        /\ ~Publishing' /\ ~Revoking' /\ (WillRevoke' <=> WillRevoke)
    BY <1>0, <2>0 DEF Revoking, Publishing, Renewing, Running, First, Renewals, WillRevoke
  <2>2. OpsInOrder'
    BY <1>0, <1>1, <1>2, <1>4, <2>1, OpGoesOn
  <2>4. RecordTypes'
    BY <1>0, <1>1, <1>4, <2>0 DEF RecordTypes
  <2>5. Matching' = {} => due' \/ job' = "leaving" \/ (~managed' /\ job' # "keeping")
    BY <1>0, <1>1, <2>0, StillMatching
  <2>6. DebuggerKept'
    BY <1>1, <1>2, <1>4, <2>1, <2>5 DEF DebuggerKept
  <2>7. EntryFollows'
    BY <1>2, <1>4, <2>1 DEF EntryFollows
  <2> QED BY <2>2, <2>4, <2>6, <2>7 DEF StrayInv
<1>a. ASSUME RenewFails, highest' = highest PROVE StrayInv'
  <2>1. PICK ok \in BOOLEAN : EndOp(ok)
    BY <1>a DEF RenewFails
  <2>2. /\ \/ published' = published /\ controlled' = controlled
           \/ published' = None /\ controlled' = Nothing
        /\ attached' => published' # None
        /\ served' \in TabTarget \cup {None}
    BY <1>0, <1>2, <1>a DEF RenewFails
  <2> QED BY <1>3, <1>a, <2>1, <2>2
<1>5. CASE RenewStarts
  <2>0. highest' = highest
    BY <1>5 DEF RenewStarts
  <2>1. CASE published = None
    <3>0. (First = "recover") \in BOOLEAN
      OBVIOUS
    <3> PICK ok \in BOOLEAN : ok = (First = "recover")
      BY <3>0
    <3>1. EndOp(ok) /\ UNCHANGED <<published, attached, controlled, served>>
      BY <1>5, <2>1 DEF RenewStarts
    <3>2. (attached' => published' # None) /\ served' \in TabTarget \cup {None}
      BY <1>0, <1>2, <3>1
    <3> QED BY <1>3, <2>0, <3>1, <3>2
  <2>2. CASE published # None /\ RenewFails
    BY <1>a, <2>0, <2>2
  <2>3. CASE published # None /\ NextStep("revoked") /\ UNCHANGED <<published, controlled>> /\ served' \in {served, None}
    <3>1. served' \in TabTarget \cup {None} /\ highest' \in [1..MaxPublishers -> Nat]
      BY <1>0, <2>0, <2>3
    <3> QED BY <1>4, <2>3, <3>1
  <2> QED BY <1>5, <2>1, <2>2, <2>3 DEF RenewStarts
<1>b. ASSUME published # None
      PROVE  Renewed(published) \in TabTarget /\ Renewed(published).id = published.id
             /\ Renewed(published).generation = published.generation + 1
    BY <1>0, <1>b DEF RecordTypes, TabTarget, Renewed
<1>6. CASE RenewSent
  <2>0. published # None
    BY <1>0, <1>6 DEF RenewSent, EntryFollows, Renewing, Running
  <2>1. CASE Serve(Renewed(published)) /\ NextStep("sent") /\ UNCHANGED <<published, controlled>>
    <3>1. served' \in TabTarget \cup {None} /\ highest' \in [1..MaxPublishers -> Nat]
      <4>1. Renewed(published).generation \in Nat
        BY <1>b, <2>0 DEF TabTarget
      <4> QED BY <1>0, <1>b, <2>0, <2>1, <4>1 DEF Serve
    <3> QED BY <1>4, <2>0, <2>1, <3>1
  <2>2. CASE RenewFails /\ highest' = highest
    BY <1>a, <2>2
  <2> QED BY <1>6, <2>1, <2>2 DEF RenewSent
<1>7. CASE RenewAnswered
  <2>0. published # None /\ highest' = highest
    BY <1>0, <1>7 DEF RenewAnswered, EntryFollows, Renewing, Running
  <2>1. CASE /\ published' = Renewed(published) /\ controlled' = [target |-> Renewed(published)]
             /\ EndOp(TRUE) /\ UNCHANGED <<attached, served>>
    <3>1. /\ published' \in TabTarget /\ controlled' = [target |-> published']
          /\ attached' => published' # None
          /\ served' \in TabTarget \cup {None}
      BY <1>0, <1>b, <2>0, <2>1
    <3> QED BY <1>3, <2>0, <2>1, <3>1
  <2>2. CASE RenewFails
    BY <1>a, <2>0, <2>2
  <2> QED BY <1>7, <2>1, <2>2 DEF RenewAnswered
<1> QED BY <1>5, <1>6, <1>7

(* An operation is queued at the end: what is under way is not disturbed.  *)
LEMMA QueuedOp ==
    ASSUME RecordTypes, OpsInOrder, NEW k \in TabOperations, ops' = Append(ops, k), step' = step
    PROVE  /\ ops' \in Seq(TabOperations)
           /\ Publishing' <=> Publishing
           /\ Revoking' <=> Revoking
           /\ Renewing("revoked")' <=> Renewing("revoked")
           /\ Renewing("sent")' <=> Renewing("sent")
           /\ step' = "idle" \/ Publishing' \/ Revoking' \/ Renewing("revoked")' \/ Renewing("sent")'
           /\ WillRevoke => WillRevoke'
           /\ k = "revoke" => WillRevoke'
           /\ Running({"publish"}, "sent")' <=> Running({"publish"}, "sent")
<1>1. /\ ops' \in Seq(TabOperations) /\ ops' # <<>>
      /\ Len(ops) \in Nat /\ Len(ops') = Len(ops) + 1
      /\ \A i \in 1 .. Len(ops) : ops'[i] = ops[i]
      /\ ops'[Len(ops) + 1] = k
      /\ ops # <<>> => First' = First
    BY OpAdded DEF RecordTypes
<1>2. ASSUME NEW kinds, NEW at, at # "idle"
      PROVE  Running(kinds, at)' <=> Running(kinds, at)
  <2>1. CASE ops # <<>>
    BY <1>1, <2>1 DEF Running
  <2>2. CASE ops = <<>>
    <3>1. step = "idle"
      BY <2>2 DEF OpsInOrder, Publishing, Revoking, Renewing, Running
    <3> QED BY <1>2, <2>2, <3>1 DEF Running
  <2> QED BY <2>1, <2>2
<1>3. /\ Running({"publish"}, "attached")' <=> Running({"publish"}, "attached")
      /\ Running({"publish"}, "sent")' <=> Running({"publish"}, "sent")
      /\ Running({"revoke", "detach"}, "sent")' <=> Running({"revoke", "detach"}, "sent")
      /\ Running(Renewals, "revoked")' <=> Running(Renewals, "revoked")
      /\ Running(Renewals, "sent")' <=> Running(Renewals, "sent")
    BY <1>2
<1>4. /\ Publishing' <=> Publishing
      /\ Revoking' <=> Revoking
      /\ Renewing("revoked")' <=> Renewing("revoked")
      /\ Renewing("sent")' <=> Renewing("sent")
    BY <1>3 DEF Publishing, Revoking, Renewing, Renewals
<1>5. WillRevoke => WillRevoke'
    BY <1>1 DEF WillRevoke
<1>6. k = "revoke" => WillRevoke'
  <2>1. Len(ops) + 1 \in 1 .. Len(ops')
    BY <1>1
  <2> QED BY <1>1, <2>1 DEF WillRevoke
<1>7. step' = "idle" \/ Publishing' \/ Revoking' \/ Renewing("revoked")' \/ Renewing("sent")'
    BY <1>4 DEF OpsInOrder
<1> QED BY <1>1, <1>3, <1>4, <1>5, <1>6, <1>7

LEMMA QuietKeeps ==
    ASSUME StrayInv, UNCHANGED <<published, controlled, publishers, ops, step, managed, job>>,
           attached' => attached,
           served' \in TabTarget \cup {None}, highest' \in [1..MaxPublishers -> Nat],
           due' \/ (Matching' = Matching /\ ~due)
    PROVE  StrayInv'
<1>0. RecordTypes /\ OpsInOrder /\ DebuggerKept /\ EntryFollows
    BY DEF StrayInv
<1>1. /\ Publishing' <=> Publishing
      /\ Revoking' <=> Revoking
      /\ Renewing("revoked")' <=> Renewing("revoked")
      /\ Renewing("sent")' <=> Renewing("sent")
      /\ WillRevoke' <=> WillRevoke
    BY DEF Publishing, Revoking, Renewing, Running, First, WillRevoke
<1>2. RecordTypes'
    BY <1>0 DEF RecordTypes
<1>3. OpsInOrder'
    BY <1>0, <1>1 DEF OpsInOrder
<1>4. DebuggerKept'
    BY <1>0, <1>1 DEF DebuggerKept
<1>5. EntryFollows'
    BY <1>0, <1>1 DEF EntryFollows
<1> QED BY <1>2, <1>3, <1>4, <1>5 DEF StrayInv

(* What Chrome reports only adds to the queue.                             *)
LEMMA AddingKeeps ==
    ASSUME StrayInv, NEW k \in TabOperations \ OfTheJob, ops' = Append(ops, k),
           UNCHANGED <<published, controlled, publishers, step, managed, job, view, members, due, served, highest>>,
           attached' => attached
    PROVE  StrayInv'
<1>0. RecordTypes /\ OpsInOrder /\ DebuggerKept /\ EntryFollows
    BY DEF StrayInv
<1>1. /\ ops' \in Seq(TabOperations)
      /\ Publishing' <=> Publishing
      /\ Revoking' <=> Revoking
      /\ Renewing("revoked")' <=> Renewing("revoked")
      /\ Renewing("sent")' <=> Renewing("sent")
      /\ step' = "idle" \/ Publishing' \/ Revoking' \/ Renewing("revoked")' \/ Renewing("sent")'
      /\ WillRevoke => WillRevoke'
    BY <1>0, QueuedOp
<1>2. /\ Len(ops) \in Nat /\ Len(ops') = Len(ops) + 1
      /\ \A i \in 1 .. Len(ops) : ops'[i] = ops[i]
      /\ ops'[Len(ops) + 1] = k
    BY <1>0, OpAdded DEF RecordTypes
<1>3. \A i \in 1 .. Len(ops') : ops'[i] \in OfTheJob => i \in 1 .. Len(ops)
    BY <1>2
<1>4. RecordTypes'
    BY <1>0, <1>1 DEF RecordTypes
<1>5. \A i, j \in 1 .. Len(ops') : ops'[i] \in OfTheJob /\ ops'[j] \in OfTheJob => i = j
    BY <1>0, <1>2, <1>3 DEF OpsInOrder
<1>6. ASSUME NEW i \in 1 .. Len(ops')
      PROVE  /\ ops'[i] \in {"publish", "refresh"} => job' = "acting"
             /\ ops'[i] = "revoke" => job' = "revoking"
             /\ ops'[i] = "publish" => /\ publishers' # 0 /\ controlled' = Nothing /\ managed'
                                       /\ published' = None \/ Publishing'
  <2>1. CASE ops'[i] \in OfTheJob
    <3>1. i \in 1 .. Len(ops) /\ ops'[i] = ops[i]
      BY <1>2, <1>3, <2>1
    <3> QED BY <1>0, <1>1, <3>1 DEF OpsInOrder
  <2>2. CASE ops'[i] \notin OfTheJob
    BY <2>2 DEF OfTheJob
  <2> QED BY <2>1, <2>2
<1>7. OpsInOrder'
    BY <1>1, <1>5, <1>6 DEF OpsInOrder
<1>8. DebuggerKept'
    BY <1>0, <1>1 DEF DebuggerKept, Matching
<1>9. EntryFollows'
    BY <1>0, <1>1 DEF EntryFollows
<1> QED BY <1>4, <1>7, <1>8, <1>9 DEF StrayInv

(* The running job queues an operation when none of its own is queued.     *)
LEMMA JobQueues ==
    ASSUME RecordTypes, OpsInOrder, job \notin {"acting", "revoking"},
           NEW k \in OfTheJob, ops' = Append(ops, k), step' = step,
           job' = IF k = "revoke" THEN "revoking" ELSE "acting",
           k = "publish" => publishers' # 0 /\ controlled' = Nothing /\ managed' /\ published' = None
    PROVE  /\ ops' \in Seq(TabOperations) /\ OpsInOrder'
           /\ Publishing' <=> Publishing
           /\ Revoking' <=> Revoking
           /\ Renewing("revoked")' <=> Renewing("revoked")
           /\ Renewing("sent")' <=> Renewing("sent")
           /\ ~WillRevoke /\ ~Publishing
           /\ k = "revoke" => WillRevoke'
<1>0. k \in TabOperations
    BY DEF OfTheJob, TabOperations
<1>1. /\ ops' \in Seq(TabOperations)
      /\ Publishing' <=> Publishing
      /\ Revoking' <=> Revoking
      /\ Renewing("revoked")' <=> Renewing("revoked")
      /\ Renewing("sent")' <=> Renewing("sent")
      /\ step' = "idle" \/ Publishing' \/ Revoking' \/ Renewing("revoked")' \/ Renewing("sent")'
      /\ k = "revoke" => WillRevoke'
    BY <1>0, QueuedOp
<1>2. /\ Len(ops) \in Nat /\ Len(ops') = Len(ops) + 1
      /\ \A i \in 1 .. Len(ops) : ops'[i] = ops[i]
      /\ ops'[Len(ops) + 1] = k
    BY <1>0, OpAdded DEF RecordTypes
<1>3. \A i \in 1 .. Len(ops) : ops[i] \notin OfTheJob
    BY DEF OpsInOrder, OfTheJob
<1>4. ~WillRevoke /\ ~Publishing
  <2>1. ~WillRevoke
    BY <1>3 DEF WillRevoke, OfTheJob
  <2>2. ASSUME Publishing PROVE FALSE
    <3>1. ops # <<>> /\ First = "publish"
      BY <2>2 DEF Publishing, Running
    <3> QED BY <1>3, <3>1, FirstOfOps DEF RecordTypes, OfTheJob
  <2> QED BY <2>1, <2>2
<1>5. \A i \in 1 .. Len(ops') : ops'[i] \in OfTheJob => i = Len(ops) + 1 /\ ops'[i] = k
    BY <1>2, <1>3
<1>6. \A i, j \in 1 .. Len(ops') : ops'[i] \in OfTheJob /\ ops'[j] \in OfTheJob => i = j
    BY <1>5
<1>7. ASSUME NEW i \in 1 .. Len(ops')
      PROVE  /\ ops'[i] \in {"publish", "refresh"} => job' = "acting"
             /\ ops'[i] = "revoke" => job' = "revoking"
             /\ ops'[i] = "publish" => publishers' # 0 /\ controlled' = Nothing /\ managed' /\ published' = None
    BY <1>5 DEF OfTheJob
<1>8. OpsInOrder'
    BY <1>1, <1>6, <1>7 DEF OpsInOrder
<1> QED BY <1>1, <1>4, <1>8

(* A job that has no operation queued may change its place.                *)
LEMMA JobMoves ==
    ASSUME StrayInv, job \notin {"acting", "revoking"}, 
           UNCHANGED <<published, controlled, publishers, ops, step, managed, attached, served, highest>>,
           Matching' = {} => due' \/ job' = "leaving" \/ (~managed' /\ job' # "keeping")
    PROVE  StrayInv'
<1>0. RecordTypes /\ OpsInOrder /\ DebuggerKept /\ EntryFollows
    BY DEF StrayInv
<1>1. /\ Publishing' <=> Publishing
      /\ Revoking' <=> Revoking
      /\ Renewing("revoked")' <=> Renewing("revoked")
      /\ Renewing("sent")' <=> Renewing("sent")
      /\ WillRevoke' <=> WillRevoke
    BY DEF Publishing, Revoking, Renewing, Running, First, WillRevoke
<1>2. RecordTypes'
    BY <1>0 DEF RecordTypes
<1>3. OpsInOrder'
    BY <1>0, <1>1 DEF OpsInOrder
<1>4. DebuggerKept'
    BY <1>0, <1>1 DEF DebuggerKept
<1>5. EntryFollows'
    BY <1>0, <1>1 DEF EntryFollows
<1> QED BY <1>2, <1>3, <1>4, <1>5 DEF StrayInv

LEMMA JobsKeep ==
    ASSUME StrayInv, JobStarts \/ JobProceeds \/ JobActed
    PROVE  StrayInv'
<1> USE TargetsAreNotNone
<1>0. /\ RecordTypes /\ OpsInOrder /\ DebuggerKept /\ EntryFollows
      /\ job \in {"idle", "leaving", "keeping", "acted"}
    BY DEF StrayInv, JobStarts, JobProceeds, JobActed
<1>1. UNCHANGED <<view, members, attached, published, step, served, highest>> /\ Matching' = Matching
    BY DEF JobStarts, JobProceeds, JobActed, pageVars, tabVars, brokerVars, Matching
<1>2. ASSUME RevokesPublication, UNCHANGED <<publishers, controlled>> PROVE StrayInv'
  <2>1. CASE managed
    <3>0. job' = "revoking" /\ ops' = Append(ops, "revoke") /\ managed' = FALSE
      BY <1>2, <2>1 DEF RevokesPublication
    <3>1. /\ ops' \in Seq(TabOperations) /\ OpsInOrder'
          /\ Publishing' <=> Publishing
          /\ Revoking' <=> Revoking
          /\ Renewing("revoked")' <=> Renewing("revoked")
          /\ Renewing("sent")' <=> Renewing("sent")
          /\ WillRevoke'
      BY <1>0, <1>1, <3>0, JobQueues DEF OfTheJob
    <3>2. RecordTypes'
      BY <1>0, <1>1, <1>2, <3>1 DEF RecordTypes
    <3>3. DebuggerKept'
      BY <1>0, <1>1, <3>0, <3>1 DEF DebuggerKept
    <3>4. EntryFollows'
      BY <1>0, <1>1, <1>2, <3>1 DEF EntryFollows
    <3> QED BY <3>1, <3>2, <3>3, <3>4 DEF StrayInv
  <2>2. CASE ~managed
    <3>0. job' = "idle" /\ ops' = ops /\ managed' = FALSE
      BY <1>2, <2>2 DEF RevokesPublication
    <3>1. /\ Publishing' <=> Publishing
          /\ Revoking' <=> Revoking
          /\ Renewing("revoked")' <=> Renewing("revoked")
          /\ Renewing("sent")' <=> Renewing("sent")
          /\ WillRevoke' <=> WillRevoke
      BY <1>1, <3>0 DEF Publishing, Revoking, Renewing, Running, First, WillRevoke
    <3>2. RecordTypes'
      BY <1>0, <1>1, <1>2, <3>0 DEF RecordTypes
    <3>3. DebuggerKept'
      BY <1>0, <1>1, <2>2, <3>0, <3>1 DEF DebuggerKept
    <3>4. EntryFollows'
      BY <1>0, <1>1, <1>2, <3>1 DEF EntryFollows
    <3>5. OpsInOrder'
      BY <1>0, <1>1, <2>2, <3>0, <3>1 DEF OpsInOrder
    <3> QED BY <3>2, <3>3, <3>4, <3>5 DEF StrayInv
  <2> QED BY <2>1, <2>2
<1>3. CASE JobStarts
  <2>1. /\ UNCHANGED <<publishers, controlled, managed, ops>>
        /\ job' = IF Matching = {} THEN "leaving" ELSE "keeping"
    BY <1>3 DEF JobStarts, tabVars
  <2>2. Matching' = {} => due' \/ job' = "leaving" \/ (~managed' /\ job' # "keeping")
    BY <1>1, <2>1
  <2> QED BY <1>0, <1>1, <2>1, <2>2, JobMoves
<1>4. CASE JobProceeds
  <2>1. CASE job = "leaving"
    BY <1>2, <1>4, <2>1 DEF JobProceeds
  <2>2. CASE job # "leaving"
    <3>0. job = "keeping" /\ Publishes /\ due' = due
      BY <1>4, <2>2 DEF JobProceeds
    <3>a. Matching = {} => due
      BY <1>0, <3>0 DEF DebuggerKept
    <3>1. CASE managed
      <4>0. /\ job' = "acting" /\ ops' = Append(ops, "refresh")
            /\ UNCHANGED <<managed, publishers, controlled>>
        BY <3>0, <3>1 DEF Publishes
      <4>1. /\ ops' \in Seq(TabOperations) /\ OpsInOrder'
            /\ Publishing' <=> Publishing
            /\ Revoking' <=> Revoking
            /\ Renewing("revoked")' <=> Renewing("revoked")
            /\ Renewing("sent")' <=> Renewing("sent")
            /\ ~WillRevoke
        BY <1>0, <1>1, <4>0, JobQueues DEF OfTheJob
      <4>2. RecordTypes'
        BY <1>0, <1>1, <4>0, <4>1 DEF RecordTypes
      <4>3. DebuggerKept'
        BY <1>0, <1>1, <3>0, <3>a, <4>0, <4>1 DEF DebuggerKept
      <4>4. EntryFollows'
        BY <1>0, <1>1, <4>0, <4>1 DEF EntryFollows
      <4> QED BY <4>1, <4>2, <4>3, <4>4 DEF StrayInv
    <3>2. CASE ~managed
      <4>0. /\ publishers < MaxPublishers /\ publishers' = publishers + 1 /\ controlled' = Nothing
            /\ managed' = TRUE /\ job' = "acting" /\ ops' = Append(ops, "publish")
        BY <3>0, <3>2 DEF Publishes
      <4>a. publishers' # 0 /\ publishers' \in 0..MaxPublishers
        BY <1>0, <4>0, ProviderAssumption DEF RecordTypes
      <4>b. ~WillRevoke
        BY <1>0 DEF OpsInOrder, WillRevoke
      <4>c. published = None /\ ~Revoking
        BY <1>0, <3>2, <4>b DEF DebuggerKept
      <4>1. /\ ops' \in Seq(TabOperations) /\ OpsInOrder'
            /\ Publishing' <=> Publishing
            /\ Revoking' <=> Revoking
            /\ Renewing("revoked")' <=> Renewing("revoked")
            /\ Renewing("sent")' <=> Renewing("sent")
        BY <1>0, <1>1, <4>0, <4>a, <4>c, JobQueues DEF OfTheJob
      <4>2. RecordTypes'
        BY <1>0, <1>1, <4>0, <4>1, <4>a DEF RecordTypes, Nothing
      <4>3. DebuggerKept'
        BY <1>0, <1>1, <3>0, <3>a, <4>0, <4>1, <4>c DEF DebuggerKept
      <4>4. EntryFollows'
        BY <1>0, <1>1, <4>c, <4>1 DEF EntryFollows
      <4> QED BY <4>1, <4>2, <4>3, <4>4 DEF StrayInv
    <3> QED BY <3>1, <3>2
  <2> QED BY <2>1, <2>2
<1>5. CASE JobActed
  <2>1. CASE StillWanted
    <3>1. /\ UNCHANGED <<publishers, controlled, managed, ops>> /\ Matching # {}
      BY <1>5, <2>1 DEF JobActed, StillWanted
    <3> QED BY <1>0, <1>1, <3>1, JobMoves
  <2>2. CASE ~StillWanted
    <3>1. RevokesPublication /\ UNCHANGED <<publishers, controlled>>
      BY <1>5, <2>2 DEF JobActed
    <3> QED BY <1>2, <3>1
  <2> QED BY <2>1, <2>2
<1> QED BY <1>3, <1>4, <1>5

(* Removing scopes has the tab looked at again, if it matched one.         *)
LEMMA ScopesChange ==
    ASSUME view' = view, UNCHANGED <<members, due>> \/ (\E ss : RemoveScopes(ss))
    PROVE  due' \/ (Matching' = Matching /\ ~due)
<1>1. CASE UNCHANGED <<members, due>>
    BY <1>1 DEF Matching
<1>2. ASSUME NEW ss, RemoveScopes(ss)
      PROVE  due' \/ (Matching' = Matching /\ ~due)
  <2>1. members' = members \ ss /\ due' = (due \/ ss \cap members # {})
    BY <1>2 DEF RemoveScopes
  <2>2. CASE ss \cap members # {}
    BY <2>1, <2>2
  <2>3. CASE ss \cap members = {}
    <3>1. members' = members
      BY <2>1, <2>3
    <3>2. CASE due
      BY <2>1, <3>2
    <3>3. CASE ~due
      BY <2>1, <3>1, <3>3 DEF Matching
    <3> QED BY <3>2, <3>3
  <2> QED BY <2>2, <2>3
<1> QED BY <1>1, <1>2

LEMMA StrayInvKept ==
    ASSUME StrayInv, [Next]_vars
    PROVE  StrayInv'
<1>0. /\ RecordTypes /\ served \in TabTarget \cup {None} /\ highest \in [1..MaxPublishers -> Nat]
      /\ HeldTarget \in TabTarget \cup {None}
    BY DEF StrayInv, RecordTypes, HeldTarget
<1> DEFINE Kept == UNCHANGED <<published, controlled, publishers, ops, step, managed, job>>
<1>1. CASE UNCHANGED vars
  <2>1. Kept /\ UNCHANGED <<attached, served, highest, view, members, due>>
    BY <1>1 DEF vars, pageVars, managerVars, tabVars, brokerVars
  <2> QED BY <1>0, <2>1, QuietKeeps DEF Matching
<1>2. CASE \/ \E s \in Scopes : Notify(s) \/ Notified(s) \/ EndScope(s)
           \/ Reconnect \/ Reconcile \/ Reconciled \/ RecoveryFails \/ ConnectionGone \/ Lose
           \/ GroupUpdated \/ QuerySees
  <2>1. Kept /\ UNCHANGED <<attached, served, highest, view, members, due>>
    BY <1>2 DEF Notify, Notified, EndScope, Reconnect, Reconcile, Reconciled, RecoveryFails, ConnectionGone, Lose,
                GroupUpdated, QuerySees, pageUnchanged, pageVars, managerVars, tabVars, brokerVars
  <2> QED BY <1>0, <2>1, QuietKeeps DEF Matching
<1>3. CASE Report \/ GoesOffline
  <2>1. Kept /\ UNCHANGED <<attached, view, members, due>>
    BY <1>3 DEF Report, GoesOffline, pageVars, managerVars, tabVars
  <2>2. served' \in TabTarget \cup {None} /\ highest' \in [1..MaxPublishers -> Nat]
    <3>1. CASE GoesOffline
      BY <1>0, <3>1 DEF GoesOffline
    <3>2. ASSUME HeldTarget # None, Serve(HeldTarget) PROVE <2>2
      BY <1>0, <3>2 DEF Serve, TabTarget
    <3>3. CASE Report
      BY <1>0, <3>2, <3>3 DEF Report, Listed
    <3> QED BY <1>3, <3>1, <3>3
  <2> QED BY <1>0, <2>1, <2>2, QuietKeeps DEF Matching
<1>4. CASE \/ \E ss \in SUBSET Scopes : Move(ss)
           \/ Close \/ QueryAnswered \/ Revoked
  <2>1. Kept /\ UNCHANGED highest /\ served' \in {served, None} /\ (attached' => attached)
    BY <1>4 DEF Move, Close, QueryAnswered, Revoked, pageUnchanged, pageVars, managerVars, tabVars, brokerVars,
                noteVars, linkVars
  <2>2. due' \/ (Matching' = Matching /\ ~due)
    <3>1. CASE QueryAnswered
      BY <3>1 DEF QueryAnswered, pageUnchanged, Matching
    <3> QED BY <1>4, <3>1 DEF Move, Close, Revoked
  <2> QED BY <1>0, <2>1, <2>2, QuietKeeps
<1>5. CASE ConsumeState \/ \E s \in Scopes : Approve(s) \/ ApproveSent(s) \/ Approved(s) \/ ApprovalEnds(s) \/ Revoke(s)
  <2>1. Kept /\ UNCHANGED <<attached, served, highest, view>>
    BY <1>5 DEF ConsumeState, Approve, ApproveSent, Approved, ApprovalEnds, Revoke, pageVars, managerVars, tabVars,
                brokerVars
  <2>2. due' \/ (Matching' = Matching /\ ~due)
    <3>1. CASE ConsumeState
      <4>1. PICK ended : ended \subseteq approved /\ RemoveScopes(ended)
        BY <3>1 DEF ConsumeState
      <4> QED BY <2>1, <4>1, ScopesChange
    <3>2. ASSUME NEW s \in Scopes, ApproveSent(s) \/ Approved(s) \/ ApprovalEnds(s) \/ Revoke(s)
          PROVE  <2>2
      <4>1. UNCHANGED <<members, due>> \/ RemoveScopes({s})
        BY <3>2 DEF ApproveSent, Approved, ApprovalEnds, Revoke, ApproveFails, KeepScopes
      <4> QED BY <2>1, <4>1, ScopesChange
    <3>3. ASSUME NEW s \in Scopes, Approve(s) PROVE due'
      BY <3>3 DEF Approve
    <3> QED BY <1>5, <3>1, <3>2, <3>3
  <2> QED BY <1>0, <2>1, <2>2, QuietKeeps
<1>6. CASE \/ HelloAnswered \/ Commit
           \/ \E kind \in {"detach", "recover"} : Detached(kind)
  <2>1. /\ UNCHANGED <<published, controlled, publishers, step, managed, job, view, members, due, served, highest>>
        /\ attached' => attached
    BY <1>6 DEF HelloAnswered, Commit, Detached, pageUnchanged, pageVars, managerVars, tabVars, brokerVars, linkVars
  <2>2. ops' = ops \/ \E k \in TabOperations \ OfTheJob : ops' = Append(ops, k)
    BY <1>6 DEF HelloAnswered, Commit, Detached, TabOperations, OfTheJob
  <2>3. CASE ops' = ops
    BY <1>0, <2>1, <2>3, QuietKeeps DEF Matching
  <2>4. ASSUME NEW k \in TabOperations \ OfTheJob, ops' = Append(ops, k) PROVE StrayInv'
    BY <2>1, <2>4, AddingKeeps
  <2> QED BY <2>2, <2>3, <2>4
<1>7. CASE \/ JobStarts \/ JobProceeds \/ JobActed
           \/ PublishAttaches \/ PublishSent \/ PublishAnswered \/ Refresh
           \/ RevokeStarts \/ RevokeAnswered \/ RenewStarts \/ RenewSent \/ RenewAnswered
    BY <1>7, JobsKeep, PublishingKeeps, RevokingKeeps, RenewingKeeps
<1> QED BY <1>1, <1>2, <1>3, <1>4, <1>5, <1>6, <1>7 DEF Next, TabSteps, LinkSteps, ScopeSteps, Outside

LEMMA StrayInvInit == Init => StrayInv
<1> SUFFICES ASSUME Init PROVE StrayInv
    OBVIOUS
<1>1. /\ ops = <<>> /\ Len(ops) = 0 /\ ops \in Seq(TabOperations) /\ step = "idle" /\ attached = FALSE
      /\ published = None /\ controlled = None /\ publishers = 0 /\ served = None /\ managed = FALSE
      /\ job = "idle" /\ members = {} /\ highest = [i \in 1..MaxPublishers |-> 0]
    BY EmptySeq DEF Init
<1>2. ~Publishing /\ ~Revoking /\ ~Renewing("revoked") /\ ~Renewing("sent")
    BY <1>1 DEF Publishing, Revoking, Renewing, Running
<1>3. RecordTypes
    BY <1>1, ProviderAssumption DEF RecordTypes
<1>4. OpsInOrder
    BY <1>1 DEF OpsInOrder
<1>5. DebuggerKept
    BY <1>1, <1>2 DEF DebuggerKept
<1>6. EntryFollows
    BY <1>1, <1>2 DEF EntryFollows
<1> QED BY <1>3, <1>4, <1>5, <1>6 DEF StrayInv

(* No tab is left under the debugger, for any number of moves, losses and  *)
(* endings: whatever fails, is lost or is closed while a publication, a    *)
(* revocation or a renewal is under way, the debugger that stays attached  *)
(* is on a tab that is published and that a scope wants (publish, revoke   *)
(* and renew of createSelectedTabPublisher, tab-scope-manager.ts).         *)
THEOREM NoTabLeftDebugged == Spec => []NoStrayDebugger
<1>1. StrayInv => NoStrayDebugger
  <2> SUFFICES ASSUME StrayInv, Settled, attached
               PROVE  published # None /\ managed /\ Matching # {}
    BY DEF NoStrayDebugger
  <2>1. ops = <<>> /\ job = "idle" /\ ~due
    BY DEF Settled
  <2>2. ~Revoking /\ ~WillRevoke
    BY <2>1 DEF Revoking, Running, WillRevoke
  <2> QED BY <2>1, <2>2 DEF StrayInv, DebuggerKept
<1> QED
    BY <1>1, StrayInvInit, StrayInvKept, PTL DEF Spec

-----------------------------------------------------------------------------
(* What the broker serves                                                  *)

LEMMA Holding ==
    /\ controlled = None => HeldTarget = None
    /\ controlled = Nothing => HeldTarget = None
    /\ \A t \in TabTarget \cup {None} : controlled = [target |-> t] => HeldTarget = t
    /\ RecordTypes => HeldTarget \in TabTarget \cup {None}
BY TargetsAreNotNone DEF HeldTarget, Nothing, RecordTypes

LEMMA HoldingThen ==
    /\ controlled' = None => HeldTarget' = None
    /\ controlled' = Nothing => HeldTarget' = None
    /\ \A t \in TabTarget \cup {None} : controlled' = [target |-> t] => HeldTarget' = t
BY TargetsAreNotNone DEF HeldTarget, Nothing

(* A generation that is served stays the highest of its target.            *)
LEMMA ServingRaises ==
    ASSUME RecordTypes, served # None => highest[served.id] = served.generation,
           NEW t \in TabTarget, Serve(t), Fresh(t) \/ served = t
    PROVE  /\ served' = t /\ highest'[t.id] = t.generation /\ Seen(t)'
           /\ \A u \in TabTarget : Seen(u) => Seen(u)'
<1>0. t.id \in 1..MaxPublishers /\ t.generation \in Nat /\ t # None
    BY TargetsAreNotNone DEF TabTarget
<1>1. /\ served' = t /\ highest' = [highest EXCEPT ![t.id] = t.generation]
      /\ highest \in [1..MaxPublishers -> Nat]
    BY DEF Serve, RecordTypes
<1>2. highest[t.id] =< t.generation
    BY <1>0, <1>1 DEF Fresh
<1>3. highest'[t.id] = t.generation
    BY <1>0, <1>1
<1>4. ASSUME NEW u \in TabTarget, Seen(u) PROVE Seen(u)'
  <2>1. u.id \in 1..MaxPublishers /\ u.generation \in Nat /\ u # None
    BY TargetsAreNotNone DEF TabTarget
  <2>2. highest[u.id] >= u.generation
    BY <1>4, <2>1 DEF Seen
  <2>3. CASE u.id = t.id
    <3>1. highest'[u.id] >= u.generation
      BY <1>0, <1>1, <1>2, <1>3, <2>1, <2>2, <2>3
    <3> QED BY <3>1 DEF Seen
  <2>4. CASE u.id # t.id
    <3>1. highest'[u.id] = highest[u.id]
      BY <1>1, <2>1, <2>4
    <3> QED BY <2>2, <3>1 DEF Seen
  <2> QED BY <2>3, <2>4
<1>5. Seen(t)'
  <2>1. highest'[t.id] >= t.generation
    BY <1>0, <1>3
  <2> QED BY <2>1 DEF Seen
<1> QED BY <1>1, <1>3, <1>4, <1>5

(* Steps that change neither what is served nor what is held.              *)
LEMMA ServedQuiet ==
    ASSUME ServedInv, UNCHANGED <<highest, controlled, published>>,
           Running({"publish"}, "sent")' <=> Running({"publish"}, "sent"),
           Renewing("sent")' <=> Renewing("sent"),
           Revoking' <=> Revoking,
           served' = served \/ (~live' /\ served' = None),
           live' => live /\ connection',
           Reported' => Reported,
           live' /\ phase' = "renewed" => phase = "renewed" \/ Reported \/ HeldTarget = None
    PROVE  DirectoryKept' /\ ServedOrUnderWay'
<1>1. HeldTarget' = HeldTarget
    BY DEF HeldTarget
<1>2. DirectoryKept /\ ServedOrUnderWay
    BY DEF ServedInv
<1>3. \A t : Seen(t)' <=> Seen(t)
    BY DEF Seen
<1>4. DirectoryKept'
    BY <1>1, <1>2 DEF DirectoryKept, Seen, Renewed
<1>5. Reported' => live'
    BY DEF Reported
<1>6. ServedOrUnderWay'
    BY <1>1, <1>2, <1>5 DEF ServedOrUnderWay
<1> QED BY <1>4, <1>6

(* How the end of an operation leaves the recovery.                        *)
LEMMA EndedPhase ==
    ASSUME NEW ok \in BOOLEAN, EndOp(ok)
    PROVE  /\ phase' = phase \/ phase' = "failing" \/ (ok /\ First = "recoveryRenew" /\ phase' = "renewed")
BY DEF EndOp

LEMMA LinkServes ==
    ASSUME ServedInv, Reconnect \/ HelloAnswered \/ Report \/ Reconcile \/ Reconciled \/ RecoveryFails
                      \/ ConnectionGone \/ Lose \/ GoesOffline \/ Revoked
    PROVE  DirectoryKept' /\ ServedOrUnderWay'
<1>0. StrayInv /\ RecordTypes /\ OpsInOrder /\ EntryFollows /\ DirectoryKept /\ ServedOrUnderWay
    BY DEF ServedInv, StrayInv
<1> DEFINE SameOps == /\ Running({"publish"}, "sent")' <=> Running({"publish"}, "sent")
                      /\ Renewing("sent")' <=> Renewing("sent")
                      /\ Revoking' <=> Revoking
<1>1. ASSUME UNCHANGED <<ops, step>> PROVE SameOps
    BY <1>1 DEF Revoking, Renewing, Running, First
<1>2. CASE Reconnect
  <2>1. /\ UNCHANGED <<ops, step, served, highest, controlled, published>> /\ connection' = TRUE
        /\ phase' = "hello" /\ step \notin {"sent", "revoked"}
    BY <1>2 DEF Reconnect, tabVars, Calling
  <2>2. ~Running({"publish"}, "sent")' /\ ~Renewing("sent")' /\ ~Revoking'
    BY <2>1 DEF Running, Renewing, Revoking
  <2>3. DirectoryKept'
    BY <1>0, <2>1, <2>2 DEF DirectoryKept, Seen, HeldTarget
  <2>4. ServedOrUnderWay'
    BY <2>1 DEF ServedOrUnderWay, Reported
  <2> QED BY <2>3, <2>4
<1>3. CASE HelloAnswered
  <2>1. /\ UNCHANGED <<served, highest, controlled, published, step, live, connection>> /\ live
        /\ phase' = "renewing" \/ (phase' = "renewed" /\ HeldTarget = None)
        /\ ops' = ops \/ ops' = Append(ops, "recoveryRenew")
    BY <1>3 DEF HelloAnswered, brokerVars
  <2>2. SameOps
    BY <1>0, <1>1, <2>1, QueuedOp DEF TabOperations
  <2>3. live' => live /\ connection'
    BY <1>0, <2>1 DEF DirectoryKept
  <2>4. ~Reported'
    BY <2>1 DEF Reported
  <2> QED BY <2>1, <2>2, <2>3, <2>4, ServedQuiet
<1>4. CASE Reconcile \/ Reconciled
  <2>1. /\ UNCHANGED <<served, highest, controlled, published, ops, step, live, connection>> /\ live
        /\ phase \in {"reported", "reconciled"} /\ phase' # "renewed"
    BY <1>4 DEF Reconcile, Reconciled, brokerVars, tabVars
  <2>3. live' => live /\ connection'
    BY <1>0, <2>1 DEF DirectoryKept
  <2>4. Reported
    BY <2>1 DEF Reported
  <2> QED BY <1>1, <2>1, <2>3, <2>4, ServedQuiet
<1>5. CASE RecoveryFails \/ ConnectionGone \/ Lose \/ GoesOffline \/ Revoked
  <2>1. /\ UNCHANGED <<highest, controlled, published, ops, step>> /\ live' = FALSE
        /\ served' \in {served, None}
    <3>1. CASE ConnectionGone \/ GoesOffline
      <4>1. live' = live /\ ~live
        BY <3>1 DEF ConnectionGone, GoesOffline, linkVars
      <4>2. live' = FALSE
        BY <3>1 DEF ConnectionGone, GoesOffline, linkVars
      <4> QED BY <3>1, <4>2 DEF ConnectionGone, GoesOffline, brokerVars, tabVars
    <3> QED BY <1>5, <3>1 DEF RecoveryFails, Lose, Revoked, brokerVars, tabVars
  <2>2. ~Reported'
    BY <2>1 DEF Reported
  <2> QED BY <1>1, <2>1, <2>2, ServedQuiet
<1>6. CASE Report
  <2>0. /\ UNCHANGED <<controlled, published, ops, step, live, connection>> /\ live /\ phase = "renewed"
        /\ connection /\ HeldTarget' = HeldTarget /\ HeldTarget \in TabTarget \cup {None}
    BY <1>0, <1>6, Holding DEF Report, tabVars, DirectoryKept, HeldTarget
  <2>a. published # None \/ Revoking \/ HeldTarget = None
    BY <1>0, <2>0 DEF ServedOrUnderWay
  <2>b. SameOps
    BY <1>1, <2>0
  <2>c. Renewing("sent") => HeldTarget = published /\ published \in TabTarget
    <3> SUFFICES ASSUME Renewing("sent") PROVE HeldTarget = published /\ published \in TabTarget
      OBVIOUS
    <3>1. published # None /\ ~Publishing
      BY <1>0 DEF EntryFollows, Renewing, Publishing, Running, Renewals
    <3> QED BY <1>0, <3>1, Holding DEF EntryFollows, RecordTypes
  <2>d. Running({"publish"}, "sent") => HeldTarget = None
    <3> SUFFICES ASSUME Running({"publish"}, "sent") PROVE HeldTarget = None
      OBVIOUS
    <3>1. ops # <<>> /\ First = "publish"
      BY DEF Running
    <3>2. controlled = Nothing
      BY <1>0, <3>1, FirstOfOps DEF OpsInOrder, RecordTypes
    <3> QED BY <3>2, Holding
  <2>1. CASE HeldTarget = None /\ phase' = "reported" /\ Listed(HeldTarget)
    <3>1. served' = None /\ highest' = highest
      BY <2>1 DEF Listed
    <3>2. ~Renewing("sent") /\ ~Revoking
      BY <1>0, <2>0, <2>1, <2>c, TargetsAreNotNone DEF DirectoryKept
    <3>3. DirectoryKept'
      BY <1>0, <2>0, <2>1, <2>b, <3>1, <3>2 DEF DirectoryKept, Seen
    <3>4. ServedOrUnderWay'
      BY <2>0, <2>1, <3>1 DEF ServedOrUnderWay
    <3> QED BY <3>3, <3>4
  <2>2. CASE HeldTarget # None /\ served = HeldTarget /\ phase' = "reported" /\ Listed(HeldTarget)
    <3>0. PICK t \in TabTarget : t = HeldTarget
      BY <2>0, <2>2
    <3>1. Serve(t) /\ served = t
      BY <2>2, <3>0 DEF Listed
    <3>2. /\ served' = t /\ highest'[t.id] = t.generation /\ Seen(t)'
      BY <1>0, <3>1, ServingRaises DEF DirectoryKept
    <3>3. ~Running({"publish"}, "sent") /\ ~Revoking
      BY <1>0, <2>0, <2>2, <2>d DEF DirectoryKept
    <3>4. ~Renewing("sent")
      <4> SUFFICES ASSUME Renewing("sent") PROVE FALSE
        OBVIOUS
      <4>1. served = published /\ served = Renewed(published) /\ published \in TabTarget
        BY <1>0, <2>0, <2>2, <2>c DEF DirectoryKept
      <4>2. /\ Renewed(published).generation = published.generation + 1
            /\ published.generation \in Nat
        BY <4>1 DEF Renewed, TabTarget
      <4>3. Renewed(published) = published
        BY <4>1
      <4>4. published.generation = published.generation + 1
        BY <4>2, <4>3
      <4> QED BY <4>2, <4>4
    <3>5. DirectoryKept'
      BY <2>0, <2>b, <3>0, <3>2, <3>3, <3>4 DEF DirectoryKept, Seen
    <3>6. ServedOrUnderWay'
      BY <2>0, <2>a, <2>b, <3>0, <3>2 DEF ServedOrUnderWay
    <3> QED BY <3>5, <3>6
  <2>3. CASE phase' = "failing" /\ UNCHANGED <<served, highest>>
    <3>1. ~Reported' /\ phase' # "renewed"
      BY <2>3 DEF Reported
    <3> QED BY <2>0, <2>3, <2>b, <3>1, ServedQuiet
  <2>4. ASSUME HeldTarget # None PROVE ~Fresh(HeldTarget)
    <3> PICK t \in TabTarget : t = HeldTarget
      BY <2>0, <2>4
    <3>1. highest[t.id] >= t.generation /\ highest[t.id] \in Nat /\ t.generation \in Nat
      BY <1>0, <2>4 DEF DirectoryKept, Seen, RecordTypes, TabTarget
    <3> QED BY <3>1 DEF Fresh
  <2> QED BY <1>6, <2>1, <2>2, <2>3, <2>4 DEF Report
<1> QED BY <1>2, <1>3, <1>4, <1>5, <1>6

LEMMA JobsServe ==
    ASSUME ServedInv, JobStarts \/ JobProceeds \/ JobActed
    PROVE  DirectoryKept' /\ ServedOrUnderWay'
<1>0. /\ RecordTypes /\ OpsInOrder /\ DebuggerKept /\ DirectoryKept /\ ServedOrUnderWay
      /\ job \in {"idle", "leaving", "keeping", "acted"}
    BY DEF ServedInv, StrayInv, JobStarts, JobProceeds, JobActed
<1>1. UNCHANGED <<published, step, served, highest, live, connection, phase>>
    BY DEF JobStarts, JobProceeds, JobActed, pageVars, tabVars, brokerVars, linkVars
<1>2. ops' = ops \/ \E k \in TabOperations : ops' = Append(ops, k)
    BY DEF JobStarts, JobProceeds, JobActed, RevokesPublication, Publishes, tabVars, TabOperations
<1>3. /\ Running({"publish"}, "sent")' <=> Running({"publish"}, "sent")
      /\ Renewing("sent")' <=> Renewing("sent")
      /\ Revoking' <=> Revoking
  <2>1. CASE ops' = ops
    BY <1>1, <2>1 DEF Revoking, Renewing, Running, First
  <2>2. CASE \E k \in TabOperations : ops' = Append(ops, k)
    BY <1>0, <1>1, <2>2, QueuedOp
  <2> QED BY <1>2, <2>1, <2>2
<1>4. live' => live /\ connection'
    BY <1>0, <1>1 DEF DirectoryKept
<1>5. CASE controlled' = controlled
  <2>1. Reported' => Reported
    BY <1>1 DEF Reported
  <2> QED BY <1>1, <1>3, <1>4, <1>5, <2>1, ServedQuiet
<1>6. CASE controlled' # controlled
  <2>1. controlled' = Nothing /\ ~managed
    BY <1>6 DEF JobStarts, JobProceeds, JobActed, RevokesPublication, Publishes, tabVars
  <2>2. published = None /\ ~Revoking
    <3>1. ~WillRevoke
      BY <1>0 DEF OpsInOrder, WillRevoke
    <3> QED BY <1>0, <2>1, <3>1 DEF DebuggerKept
  <2>3. HeldTarget' = None
    BY <2>1, HoldingThen
  <2>4. DirectoryKept'
    BY <1>0, <1>1, <1>3, <2>2, <2>3 DEF DirectoryKept, Seen, Renewed
  <2>5. Reported' => Reported /\ HeldTarget = None
    BY <1>0, <1>1, <2>2 DEF ServedOrUnderWay, Reported
  <2>6. ServedOrUnderWay'
    BY <1>0, <1>1, <1>3, <2>3, <2>5 DEF ServedOrUnderWay
  <2> QED BY <2>4, <2>6
<1> QED BY <1>5, <1>6

(* Nothing of an operation is under way before its first step, nor after   *)
(* its last.                                                               *)
LEMMA PublishingServes ==
    ASSUME ServedInv, PublishAttaches \/ PublishSent \/ PublishAnswered
    PROVE  DirectoryKept' /\ ServedOrUnderWay'
<1> USE TargetsAreNotNone
<1>0. /\ RecordTypes /\ OpsInOrder /\ EntryFollows /\ DirectoryKept /\ ServedOrUnderWay
      /\ ops \in Seq(TabOperations) /\ ops # <<>> /\ First = "publish"
    BY DEF ServedInv, StrayInv, RecordTypes, PublishAttaches, PublishSent, PublishAnswered, Running
<1>1. /\ controlled = Nothing /\ HeldTarget = None /\ (published = None \/ Publishing)
      /\ ~Renewing("sent") /\ ~Revoking
  <2>1. controlled = Nothing /\ (published = None \/ Publishing)
    BY <1>0, FirstOfOps DEF OpsInOrder
  <2> QED BY <1>0, <2>1, Holding DEF Renewing, Revoking, Running, Renewals
<1>2. UNCHANGED <<live, connection>> /\ (live => connection)
    BY <1>0 DEF PublishAttaches, PublishSent, PublishAnswered, opUnchanged, DirectoryKept
<1>3. ASSUME NEW ok \in BOOLEAN, EndOp(ok)
      PROVE  /\ ~Running({"publish"}, "sent")' /\ ~Renewing("sent")' /\ ~Revoking'
             /\ Reported' => Reported
             /\ phase' = "renewed" => phase = "renewed"
  <2>1. step' = "idle" /\ (phase' = phase \/ phase' = "failing")
    BY <1>0, <1>3 DEF EndOp
  <2> QED BY <1>2, <2>1 DEF Running, Renewing, Revoking, Reported
<1>4. ASSUME NEW at, NextStep(at)
      PROVE  /\ ops' = ops /\ step' = at /\ phase' = phase /\ First' = "publish"
             /\ ~Renewing("sent")' /\ ~Revoking'
  <2>1. ops' = ops /\ step' = at /\ phase' = phase /\ First' = "publish"
    BY <1>0, <1>4 DEF NextStep, First
  <2> QED BY <2>1 DEF Running, Renewing, Revoking, Renewals
<1>5. CASE PublishAttaches
  <2>0. step = "idle" /\ UNCHANGED <<highest, served, controlled>> /\ published = None
        /\ ~Running({"publish"}, "sent") /\ HeldTarget' = None
    BY <1>1, <1>5, HoldingThen DEF PublishAttaches, Running, Publishing
  <2>1. CASE NextStep("attached")
    <3>1. ~Running({"publish"}, "sent")' /\ phase' = phase /\ ~Renewing("sent")' /\ ~Revoking'
      BY <1>4, <2>1 DEF Running
    <3>2. DirectoryKept'
      BY <1>0, <1>2, <2>0, <3>1 DEF DirectoryKept, Seen
    <3>3. ServedOrUnderWay'
      BY <1>0, <1>1, <1>2, <2>0, <3>1 DEF ServedOrUnderWay, Reported
    <3> QED BY <3>2, <3>3
  <2>2. CASE EndOp(FALSE)
    <3>1. /\ ~Running({"publish"}, "sent")' /\ ~Renewing("sent")' /\ ~Revoking'
          /\ Reported' => Reported
      BY <1>3, <2>2
    <3>2. DirectoryKept'
      BY <1>0, <1>2, <2>0, <3>1 DEF DirectoryKept, Seen
    <3>3. ServedOrUnderWay'
      BY <1>0, <1>1, <2>0, <3>1 DEF ServedOrUnderWay
    <3> QED BY <3>2, <3>3
  <2> QED BY <1>5, <2>1, <2>2 DEF PublishAttaches
<1>6. CASE PublishSent
  <2>0. step = "attached" /\ UNCHANGED controlled /\ HeldTarget' = None /\ published \in TabTarget
        /\ ~Running({"publish"}, "sent") /\ published # None
    <3>1. step = "attached" /\ UNCHANGED controlled /\ Publishing
      BY <1>6 DEF PublishSent, Running, Publishing
    <3> QED BY <1>0, <1>1, <3>1, HoldingThen DEF EntryFollows, RecordTypes, Running
  <2>1. CASE Fresh(published) /\ Serve(published) /\ NextStep("sent") /\ published' = published
    <3>0. PICK t \in TabTarget : t = published
      BY <2>0
    <3>1. /\ served' = t /\ highest'[t.id] = t.generation /\ Seen(t)'
      BY <1>0, <2>1, <3>0, ServingRaises DEF DirectoryKept
    <3>2. /\ ~Renewing("sent")' /\ ~Revoking' /\ Running({"publish"}, "sent")'
      BY <1>0, <1>4, <2>1 DEF Running
    <3>3. DirectoryKept'
      BY <1>2, <2>0, <2>1, <3>0, <3>1, <3>2 DEF DirectoryKept, Seen
    <3>4. ServedOrUnderWay'
      BY <2>0, <3>2 DEF ServedOrUnderWay
    <3> QED BY <3>3, <3>4
  <2>2. CASE PublishUndone /\ EndOp(FALSE) /\ UNCHANGED <<served, highest>>
    <3>1. /\ ~Running({"publish"}, "sent")' /\ ~Renewing("sent")' /\ ~Revoking'
          /\ Reported' => Reported
      BY <1>3, <2>2
    <3>2. DirectoryKept'
      BY <1>0, <1>2, <2>0, <2>2, <3>1 DEF DirectoryKept, Seen
    <3>3. ServedOrUnderWay'
      BY <1>0, <1>1, <2>0, <2>2, <3>1 DEF ServedOrUnderWay
    <3> QED BY <3>2, <3>3
  <2> QED BY <1>6, <2>1, <2>2 DEF PublishSent
<1>7. CASE PublishAnswered
  <2>0. UNCHANGED <<served, highest>> /\ published \in TabTarget /\ Running({"publish"}, "sent")
    <3>1. Running({"publish"}, "sent") /\ UNCHANGED <<served, highest>>
      BY <1>7 DEF PublishAnswered
    <3> QED BY <1>0, <3>1 DEF EntryFollows, RecordTypes, Publishing
  <2>1. CASE live /\ controlled' = [target |-> published] /\ EndOp(TRUE) /\ published' = published
    <3>1. /\ ~Running({"publish"}, "sent")' /\ ~Renewing("sent")' /\ ~Revoking'
      BY <1>3, <2>1
    <3>2. HeldTarget' = published /\ HeldTarget' = published'
      BY <2>0, <2>1, HoldingThen
    <3>3. DirectoryKept'
      BY <1>0, <1>2, <2>0, <2>1, <3>1, <3>2 DEF DirectoryKept, Seen
    <3>4. served \in {None, published}
      BY <1>0, <2>0, <2>1 DEF DirectoryKept
    <3>5. ServedOrUnderWay'
      BY <2>0, <2>1, <3>2, <3>4 DEF ServedOrUnderWay
    <3> QED BY <3>3, <3>5
  <2>2. CASE ~live /\ PublishUndone /\ EndOp(FALSE) /\ UNCHANGED controlled
    <3>1. /\ ~Running({"publish"}, "sent")' /\ ~Renewing("sent")' /\ ~Revoking' /\ HeldTarget' = None
          /\ ~Reported'
      BY <1>1, <1>2, <1>3, <2>2, HoldingThen DEF Reported
    <3>2. DirectoryKept'
      BY <1>0, <1>2, <2>0, <2>2, <3>1 DEF DirectoryKept, Seen
    <3>3. ServedOrUnderWay'
      BY <1>2, <2>2, <3>1 DEF ServedOrUnderWay
    <3> QED BY <3>2, <3>3
  <2> QED BY <1>7, <2>1, <2>2 DEF PublishAnswered
<1> QED BY <1>5, <1>6, <1>7

LEMMA RevokingServes ==
    ASSUME ServedInv, Refresh \/ RevokeStarts \/ RevokeAnswered
    PROVE  DirectoryKept' /\ ServedOrUnderWay'
<1> USE TargetsAreNotNone
<1>0. /\ RecordTypes /\ OpsInOrder /\ EntryFollows /\ DirectoryKept /\ ServedOrUnderWay
      /\ ops # <<>> /\ First \in {"refresh", "revoke", "detach"}
    BY DEF ServedInv, StrayInv, Refresh, RevokeStarts, RevokeAnswered, Running
<1>1. ~Running({"publish"}, "sent") /\ ~Renewing("sent") /\ ~Publishing
    BY <1>0 DEF Renewing, Running, Renewals, Publishing
<1>2. UNCHANGED <<live, connection, highest>> /\ (live => connection)
    BY <1>0 DEF Refresh, RevokeStarts, RevokeAnswered, opUnchanged, DirectoryKept
<1>3. ASSUME NEW ok, EndOp(ok)
      PROVE  /\ ~Running({"publish"}, "sent")' /\ ~Renewing("sent")' /\ ~Revoking' /\ phase' = phase
  <2>1. step' = "idle" /\ phase' = phase
    BY <1>0, <1>3 DEF EndOp
  <2> QED BY <2>1 DEF Running, Renewing, Revoking
<1>4. published # None => HeldTarget = published /\ published \in TabTarget
  <2> SUFFICES ASSUME published # None PROVE HeldTarget = published /\ published \in TabTarget
    OBVIOUS
  <2>1. controlled = [target |-> published] /\ published \in TabTarget
    BY <1>0, <1>1 DEF EntryFollows, RecordTypes
  <2> QED BY <2>1, Holding
<1>a. ASSUME NEW ok, EndOp(ok), served' = served, HeldTarget' \in {HeldTarget, None},
             live => /\ published' = published
                     /\ \/ Revoking /\ HeldTarget' = None
                        \/ ~Revoking /\ HeldTarget' = HeldTarget
                        \/ ~Revoking /\ HeldTarget' = None /\ published = None
      PROVE  DirectoryKept' /\ ServedOrUnderWay'
  <2>1. ~Running({"publish"}, "sent")' /\ ~Renewing("sent")' /\ ~Revoking' /\ phase' = phase
    BY <1>3, <1>a
  <2>2. DirectoryKept'
    BY <1>0, <1>2, <1>a, <2>1 DEF DirectoryKept, Seen
  <2>3. (Reported' => Reported) /\ (Reported => live)
    BY <1>2, <2>1 DEF Reported
  <2>4. ASSUME live', Reported' \/ phase' = "renewed" PROVE published' # None \/ HeldTarget' = None
    BY <1>0, <1>2, <1>a, <2>1, <2>3, <2>4 DEF ServedOrUnderWay
  <2>5. ASSUME Reported' PROVE served' \in {None, HeldTarget'}
    <3>1. live /\ Reported /\ served \in {None, HeldTarget}
      BY <1>0, <1>1, <2>3, <2>5 DEF ServedOrUnderWay
    <3>2. CASE Revoking
      BY <1>0, <1>a, <3>1, <3>2 DEF DirectoryKept
    <3>3. CASE ~Revoking
      BY <1>0, <1>a, <3>1, <3>3 DEF ServedOrUnderWay
    <3> QED BY <3>2, <3>3
  <2> QED BY <2>2, <2>4, <2>5 DEF ServedOrUnderWay
<1>5. CASE Refresh
  <2>1. EndOp(TRUE) /\ UNCHANGED <<served, published, controlled>> /\ ~Revoking
    BY <1>5 DEF Refresh, Revoking, Running
  <2>2. HeldTarget' = HeldTarget
    BY <2>1 DEF HeldTarget
  <2> QED BY <1>a, <2>1, <2>2
<1>6. CASE RevokeStarts
  <2>0. ~Revoking /\ step = "idle" /\ First \in {"revoke", "detach"}
    BY <1>6 DEF RevokeStarts, Revoking, Running
  <2>1. CASE published = None
    <3>1. EndOp(TRUE) /\ UNCHANGED <<served, published>> /\ controlled' \in {None, controlled}
      BY <1>6, <2>1 DEF RevokeStarts
    <3>2. HeldTarget' \in {None, HeldTarget}
      <4>1. CASE controlled' = None
        BY <4>1, HoldingThen
      <4>2. CASE controlled' = controlled
        BY <4>2 DEF HeldTarget
      <4> QED BY <3>1, <4>1, <4>2
    <3> QED BY <1>a, <2>0, <2>1, <3>1, <3>2
  <2>2. CASE published # None /\ live
    <3>1. /\ published' = None /\ served' = (IF served = published THEN None ELSE served)
          /\ NextStep("sent") /\ controlled' = controlled
      BY <1>2, <1>6, <2>2 DEF RevokeStarts
    <3>2. /\ HeldTarget' = HeldTarget /\ phase' = phase
          /\ ops' = ops /\ step' = "sent" /\ First' = First
      BY <3>1 DEF HeldTarget, NextStep, First
    <3>3. Revoking' /\ ~Running({"publish"}, "sent")' /\ ~Renewing("sent")'
      BY <1>0, <2>0, <3>2 DEF Revoking, Running, Renewing, Renewals
    <3>4. HeldTarget' # None /\ served' # HeldTarget'
      BY <1>4, <2>2, <3>1, <3>2
    <3>5. DirectoryKept'
      BY <1>0, <1>2, <3>1, <3>2, <3>3, <3>4 DEF DirectoryKept, Seen
    <3>6. Reported' => served' = None
      BY <1>0, <1>1, <1>2, <1>4, <2>2, <3>1, <3>2 DEF ServedOrUnderWay, Reported
    <3>7. ServedOrUnderWay'
      BY <3>3, <3>6 DEF ServedOrUnderWay
    <3> QED BY <3>5, <3>7
  <2>3. CASE published # None /\ ~live
    <3>1. /\ EndOp(~connection) /\ served' = served
          /\ controlled' = controlled \/ controlled' = None \/ controlled' = Nothing
      BY <1>6, <2>3 DEF RevokeStarts, Withdrawn
    <3>2. HeldTarget' \in {None, HeldTarget}
      <4>1. CASE controlled' = None \/ controlled' = Nothing
        BY <4>1, HoldingThen
      <4>2. CASE controlled' = controlled
        BY <4>2 DEF HeldTarget
      <4> QED BY <3>1, <4>1, <4>2
    <3> QED BY <1>a, <2>3, <3>1, <3>2
  <2> QED BY <2>1, <2>2, <2>3
<1>7. CASE RevokeAnswered
  <2>1. Revoking /\ EndOp(live) /\ UNCHANGED <<served, published>>
    BY <1>7 DEF RevokeAnswered, Revoking
  <2>2. /\ live => controlled' \in {None, Nothing}
        /\ ~live => controlled' = controlled
    BY <1>7 DEF RevokeAnswered, Withdrawn
  <2>3. (live => HeldTarget' = None) /\ (~live => HeldTarget' = HeldTarget)
    <3>1. CASE live
      BY <2>2, <3>1, HoldingThen
    <3>2. CASE ~live
      BY <2>2, <3>2 DEF HeldTarget
    <3> QED BY <3>1, <3>2
  <2> QED BY <1>a, <2>1, <2>3
<1> QED BY <1>5, <1>6, <1>7

LEMMA RenewingServes ==
    ASSUME ServedInv, RenewStarts \/ RenewSent \/ RenewAnswered
    PROVE  DirectoryKept' /\ ServedOrUnderWay'
<1> USE TargetsAreNotNone
<1>0. /\ RecordTypes /\ OpsInOrder /\ EntryFollows /\ DirectoryKept /\ ServedOrUnderWay
      /\ ops # <<>> /\ First \in Renewals
    BY DEF ServedInv, StrayInv, RenewStarts, RenewSent, RenewAnswered, Running
<1>1. ~Running({"publish"}, "sent") /\ ~Revoking /\ ~Publishing
    BY <1>0 DEF Revoking, Running, Renewals, Publishing
<1>2. UNCHANGED <<live, connection>> /\ (live => connection)
    BY <1>0 DEF RenewStarts, RenewSent, RenewAnswered, opUnchanged, DirectoryKept
<1>3. ASSUME NEW ok \in BOOLEAN, EndOp(ok)
      PROVE  /\ ~Running({"publish"}, "sent")' /\ ~Renewing("sent")' /\ ~Revoking'
             /\ Reported' => Reported
             /\ ok \/ (phase' = "renewed" => phase = "renewed")
  <2>1. step' = "idle"
    BY <1>3 DEF EndOp
  <2>2. phase' = phase \/ phase' = "failing" \/ (ok /\ phase' = "renewed")
    BY <1>3, EndedPhase
  <2> QED BY <1>2, <2>1, <2>2 DEF Running, Renewing, Revoking, Reported
<1>4. published # None => HeldTarget = published /\ published \in TabTarget
  <2> SUFFICES ASSUME published # None PROVE HeldTarget = published /\ published \in TabTarget
    OBVIOUS
  <2>1. controlled = [target |-> published] /\ published \in TabTarget
    BY <1>0, <1>1 DEF EntryFollows, RecordTypes
  <2> QED BY <2>1, Holding
<1>b. ASSUME published # None
      PROVE  /\ Renewed(published) \in TabTarget /\ Renewed(published).id = published.id
    BY <1>4, <1>b DEF TabTarget, Renewed
<1>5. ASSUME RenewFails, highest' = highest, ~live \/ ~Renewing("sent") PROVE DirectoryKept' /\ ServedOrUnderWay'
  <2>0. PICK ok \in BOOLEAN : EndOp(ok) /\ ~ok
    BY <1>5 DEF RenewFails
  <2>1. /\ ~Running({"publish"}, "sent")' /\ ~Renewing("sent")' /\ ~Revoking'
        /\ Reported' => Reported
        /\ phase' = "renewed" => phase = "renewed"
    BY <1>3, <2>0
  <2>2. CASE First = "recover"
    <3>1. /\ published' = None /\ controlled' = Nothing
          /\ served' = IF connection /\ live /\ served = published THEN None ELSE served
      BY <1>5, <2>2 DEF RenewFails
    <3>2. HeldTarget' = None
      BY <3>1, HoldingThen
    <3>3. DirectoryKept'
      BY <1>0, <1>2, <1>5, <2>1, <3>1, <3>2 DEF DirectoryKept, Seen
    <3>4. ASSUME Reported' PROVE served' = None
      <4>1. live /\ connection /\ Reported /\ served \in {None, HeldTarget}
        BY <1>0, <1>1, <1>2, <1>5, <2>1, <3>4 DEF ServedOrUnderWay, Reported
      <4>2. HeldTarget = None \/ HeldTarget = published
        BY <1>0, <1>1, <1>4, <4>1 DEF ServedOrUnderWay
      <4> QED BY <3>1, <4>1, <4>2
    <3>5. ServedOrUnderWay'
      BY <3>2, <3>4 DEF ServedOrUnderWay
    <3> QED BY <3>3, <3>5
  <2>3. CASE First # "recover"
    <3>1. UNCHANGED <<published, controlled, served>>
      BY <1>5, <2>3 DEF RenewFails
    <3>2. HeldTarget' = HeldTarget
      BY <3>1 DEF HeldTarget
    <3>3. DirectoryKept'
      BY <1>0, <1>2, <1>5, <2>1, <3>1, <3>2 DEF DirectoryKept, Seen
    <3>4. Reported => live
      BY DEF Reported
    <3>5. ServedOrUnderWay'
      BY <1>0, <1>1, <1>2, <1>5, <2>1, <3>1, <3>2, <3>4 DEF ServedOrUnderWay
    <3> QED BY <3>3, <3>5
  <2> QED BY <2>2, <2>3
<1>6. CASE RenewStarts
  <2>0. highest' = highest /\ step = "idle" /\ ~Renewing("sent")
    BY <1>6 DEF RenewStarts, Running, Renewing
  <2>1. CASE published = None
    <3>1. EndOp(First = "recover") /\ UNCHANGED <<published, controlled, served>>
      BY <1>6, <2>1 DEF RenewStarts
    <3>2. step' = "idle" /\ (phase' = phase \/ phase' = "failing")
      BY <3>1 DEF EndOp
    <3>3. /\ ~Running({"publish"}, "sent")' /\ ~Renewing("sent")' /\ ~Revoking'
          /\ Reported' => Reported
          /\ phase' = "renewed" => phase = "renewed"
      BY <1>2, <3>2 DEF Running, Renewing, Revoking, Reported
    <3> QED BY <1>1, <1>2, <2>0, <3>1, <3>3, ServedQuiet
  <2>2. CASE published # None /\ RenewFails
    BY <1>5, <2>0, <2>2
  <2>3. CASE /\ published # None /\ NextStep("revoked") /\ UNCHANGED <<published, controlled>>
             /\ served' = IF served = published THEN None ELSE served
    <3>1. /\ HeldTarget' = HeldTarget /\ phase' = phase /\ step' = "revoked"
      BY <2>3 DEF HeldTarget, NextStep
    <3>2. ~Running({"publish"}, "sent")' /\ ~Renewing("sent")' /\ ~Revoking'
      BY <3>1 DEF Revoking, Running, Renewing
    <3>3. DirectoryKept'
      BY <1>0, <1>2, <2>0, <2>3, <3>1, <3>2 DEF DirectoryKept, Seen
    <3>4. Reported' => served' \in {None, HeldTarget'}
      BY <1>0, <1>1, <1>2, <2>0, <2>3, <3>1 DEF ServedOrUnderWay, Reported
    <3>5. ServedOrUnderWay'
      BY <2>3, <3>4 DEF ServedOrUnderWay
    <3> QED BY <3>3, <3>5
  <2> QED BY <1>6, <2>1, <2>2, <2>3 DEF RenewStarts
<1>7. CASE RenewSent
  <2>0. published # None /\ published \in TabTarget /\ step = "revoked" /\ ~Renewing("sent")
    <3>1. Renewing("revoked") /\ step = "revoked" /\ ~Renewing("sent")
      BY <1>7 DEF RenewSent, Running, Renewing
    <3> QED BY <1>0, <1>4, <3>1 DEF EntryFollows
  <2>1. CASE live /\ Fresh(Renewed(published)) /\ Serve(Renewed(published)) /\ NextStep("sent")
             /\ UNCHANGED <<published, controlled>>
    <3>0. PICK t \in TabTarget : t = Renewed(published)
      BY <1>b, <2>0
    <3>1. /\ served' = t /\ highest'[t.id] = t.generation /\ Seen(t)'
          /\ \A u \in TabTarget : Seen(u) => Seen(u)'
      BY <1>0, <2>1, <3>0, ServingRaises DEF DirectoryKept
    <3>2. /\ HeldTarget' = HeldTarget /\ ops' = ops /\ step' = "sent" /\ Renewed(published)' = t
      BY <2>1, <3>0 DEF HeldTarget, NextStep, Renewed
    <3>3. ~Running({"publish"}, "sent")' /\ Renewing("sent")' /\ ~Revoking'
      BY <1>0, <3>2 DEF Revoking, Running, Renewing, First, Renewals
    <3>4. HeldTarget = published /\ Seen(published)
      BY <1>0, <1>4, <2>0 DEF DirectoryKept
    <3>5. Seen(published)'
      BY <2>0, <3>1, <3>4, <2>1 DEF Seen
    <3>6. DirectoryKept'
      BY <1>2, <2>1, <3>0, <3>1, <3>2, <3>3, <3>4, <3>5 DEF DirectoryKept, Seen
    <3>7. ServedOrUnderWay'
      BY <2>0, <2>1, <3>3 DEF ServedOrUnderWay
    <3> QED BY <3>6, <3>7
  <2>2. CASE RenewFails /\ highest' = highest
    BY <1>5, <2>0, <2>2
  <2> QED BY <1>7, <2>1, <2>2 DEF RenewSent
<1>8. CASE RenewAnswered
  <2>0. published # None /\ published \in TabTarget /\ Renewing("sent") /\ highest' = highest
    <3>1. Renewing("sent") /\ highest' = highest
      BY <1>8 DEF RenewAnswered, Renewing
    <3> QED BY <1>0, <1>4, <3>1 DEF EntryFollows
  <2>1. CASE /\ live /\ published' = Renewed(published) /\ controlled' = [target |-> Renewed(published)]
             /\ EndOp(TRUE) /\ served' = served
    <3>0. PICK t \in TabTarget : t = Renewed(published)
      BY <1>b, <2>0
    <3>1. /\ ~Running({"publish"}, "sent")' /\ ~Renewing("sent")' /\ ~Revoking'
      BY <1>3, <2>1
    <3>2. HeldTarget' = t /\ published' = t
      BY <2>1, <3>0, HoldingThen
    <3>3. served = t /\ Seen(t)
      BY <1>0, <2>0, <2>1, <3>0 DEF DirectoryKept
    <3>4. DirectoryKept'
      BY <1>0, <1>2, <2>0, <2>1, <3>1, <3>2, <3>3 DEF DirectoryKept, Seen
    <3>5. ServedOrUnderWay'
      BY <2>1, <3>2, <3>3 DEF ServedOrUnderWay
    <3> QED BY <3>4, <3>5
  <2>2. CASE ~live /\ RenewFails
    BY <1>5, <2>0, <2>2
  <2> QED BY <1>8, <2>1, <2>2 DEF RenewAnswered
<1> QED BY <1>6, <1>7, <1>8

LEMMA ServedInvKept ==
    ASSUME ServedInv, [Next]_vars
    PROVE  ServedInv'
<1>0. StrayInv /\ RecordTypes /\ OpsInOrder /\ DirectoryKept
    BY DEF ServedInv, StrayInv
<1>1. StrayInv'
    BY <1>0, StrayInvKept
<1>2. CASE \/ UNCHANGED vars
           \/ \E s \in Scopes : Notify(s) \/ Notified(s) \/ EndScope(s)
           \/ GroupUpdated \/ QuerySees \/ Close \/ QueryAnswered \/ ConsumeState \/ Commit
           \/ \E ss \in SUBSET Scopes : Move(ss)
           \/ \E s \in Scopes : Approve(s) \/ ApproveSent(s) \/ Approved(s) \/ ApprovalEnds(s) \/ Revoke(s)
           \/ \E kind \in {"detach", "recover"} : Detached(kind)
  <2>1. UNCHANGED <<served, highest, controlled, published, step, live, connection, phase>>
    BY <1>2 DEF vars, Notify, Notified, EndScope, GroupUpdated, QuerySees, Close, QueryAnswered, ConsumeState,
                Commit, Move, Approve, ApproveSent, Approved, ApprovalEnds, Revoke, Detached, pageUnchanged,
                tabVars, linkVars, brokerVars
  <2>2. ops' = ops \/ \E k \in TabOperations : ops' = Append(ops, k)
    BY <1>2 DEF vars, Notify, Notified, EndScope, GroupUpdated, QuerySees, Close, QueryAnswered, ConsumeState,
                Commit, Move, Approve, ApproveSent, Approved, ApprovalEnds, Revoke, Detached, tabVars,
                TabOperations
  <2>3. /\ Running({"publish"}, "sent")' <=> Running({"publish"}, "sent")
        /\ Renewing("sent")' <=> Renewing("sent")
        /\ Revoking' <=> Revoking
    <3>1. CASE ops' = ops
      BY <2>1, <3>1 DEF Revoking, Renewing, Running, First
    <3>2. CASE \E k \in TabOperations : ops' = Append(ops, k)
      BY <1>0, <2>1, <3>2, QueuedOp
    <3> QED BY <2>2, <3>1, <3>2
  <2>4. (live' => live /\ connection') /\ (Reported' => Reported)
    BY <1>0, <2>1 DEF DirectoryKept, Reported
  <2>5. DirectoryKept' /\ ServedOrUnderWay'
    BY <2>1, <2>3, <2>4, ServedQuiet
  <2> QED BY <1>1, <2>5 DEF ServedInv
<1>3. CASE \/ Reconnect \/ HelloAnswered \/ Report \/ Reconcile \/ Reconciled \/ RecoveryFails
           \/ ConnectionGone \/ Lose \/ GoesOffline \/ Revoked
    BY <1>1, <1>3, LinkServes DEF ServedInv
<1>4. CASE \/ JobStarts \/ JobProceeds \/ JobActed
           \/ PublishAttaches \/ PublishSent \/ PublishAnswered \/ Refresh
           \/ RevokeStarts \/ RevokeAnswered \/ RenewStarts \/ RenewSent \/ RenewAnswered
    BY <1>1, <1>4, JobsServe, PublishingServes, RevokingServes, RenewingServes DEF ServedInv
<1> QED BY <1>2, <1>3, <1>4 DEF Next, TabSteps, LinkSteps, ScopeSteps, Outside

(* When the provider is ready and its work is done, the broker serves no   *)
(* target but the one the provider holds, for any number of renewals,      *)
(* losses and recoveries: no generation that was renewed, revoked or       *)
(* published on a connection since lost is served again (renewAuthority,   *)
(* reconcile and the recovery of chrome.ts, agent-recovery.ts).            *)
THEOREM BrokerServesWhatIsHeld == Spec => []ServedIsHeld
<1>1. Init => ServedInv
  <2> SUFFICES ASSUME Init PROVE ServedInv
    OBVIOUS
  <2>1. /\ step = "idle" /\ published = None /\ controlled = None /\ served = None /\ connection = TRUE
    BY DEF Init
  <2>2. HeldTarget = None
    BY <2>1, Holding
  <2>3. ~Running({"publish"}, "sent") /\ ~Renewing("sent") /\ ~Revoking
    BY <2>1 DEF Revoking, Renewing, Running
  <2>4. DirectoryKept
    BY <2>1, <2>2, <2>3 DEF DirectoryKept, Seen
  <2>5. ServedOrUnderWay
    BY <2>1, <2>2 DEF ServedOrUnderWay
  <2> QED BY <2>4, <2>5, StrayInvInit DEF ServedInv
<1>2. ServedInv => ServedIsHeld
  <2> SUFFICES ASSUME ServedInv, Settled, phase = "ready", live, served # None PROVE served = HeldTarget
    BY DEF ServedIsHeld
  <2>1. Reported /\ ops = <<>>
    BY DEF Reported, Settled
  <2> QED BY <2>1 DEF ServedInv, ServedOrUnderWay, Renewing, Running
<1> QED
    BY <1>1, <1>2, ServedInvKept, PTL DEF Spec

-----------------------------------------------------------------------------
(* What the scope manager knows of the tab                                 *)

(* The view follows every event of the tab at once, and what a query saw   *)
(* is the tab as it is unless an event came after it was asked.            *)
ViewFollows ==
    /\ view = page
    /\ query = None \/ query \in [fresh : BOOLEAN, seen : {None} \cup {query.seen}]
    /\ query # None /\ query.fresh /\ query.seen # None => query.seen = page

LEMMA ViewRests ==
    ASSUME TabSteps \/ LinkSteps \/ ScopeSteps
    PROVE  UNCHANGED <<page, view, query>>
<1> USE DEF pageVars, managerVars, opUnchanged
<1>1. CASE TabSteps
  <2>1. CASE \/ JobStarts \/ JobProceeds \/ JobActed
             \/ \E s \in Scopes : Notify(s) \/ Notified(s)
    BY <2>1 DEF JobStarts, JobProceeds, JobActed, Notify, Notified
  <2>2. CASE PublishAttaches \/ PublishSent \/ PublishAnswered \/ Refresh
    BY <2>2 DEF PublishAttaches, PublishSent, PublishAnswered, Refresh
  <2>3. CASE RevokeStarts \/ RevokeAnswered \/ RenewStarts \/ RenewSent \/ RenewAnswered
    BY <2>3 DEF RevokeStarts, RevokeAnswered, RenewStarts, RenewSent, RenewAnswered
  <2> QED BY <1>1, <2>1, <2>2, <2>3 DEF TabSteps
<1>2. CASE LinkSteps
    BY <1>2 DEF LinkSteps, Reconnect, HelloAnswered, Report, Reconcile, Reconciled, RecoveryFails, ConnectionGone
<1>3. CASE ScopeSteps
    BY <1>3 DEF ScopeSteps, ConsumeState, ApproveSent, Approved, ApprovalEnds
<1> QED BY <1>1, <1>2, <1>3

LEMMA ViewKept ==
    ASSUME ViewFollows, [Next]_vars
    PROVE  ViewFollows'
<1>1. ASSUME UNCHANGED <<page, view, query>> PROVE ViewFollows'
    BY <1>1 DEF ViewFollows
<1>2. CASE UNCHANGED vars
    BY <1>1, <1>2 DEF vars, pageVars, managerVars
<1>3. CASE TabSteps \/ LinkSteps \/ ScopeSteps
    BY <1>1, <1>3, ViewRests
<1>4. CASE \/ Lose \/ GoesOffline \/ Revoked \/ Commit
           \/ \E s \in Scopes : Approve(s) \/ Revoke(s) \/ EndScope(s)
           \/ \E kind \in {"detach", "recover"} : Detached(kind)
  <2>1. UNCHANGED <<page, view, query>>
    BY <1>4 DEF Lose, GoesOffline, Revoked, Commit, Approve, Revoke, EndScope, Detached, pageVars, managerVars
  <2> QED BY <1>1, <2>1
<1>5. ASSUME view' = page', NoteChange PROVE ViewFollows'
  <2>1. CASE query = None
    BY <1>5, <2>1 DEF ViewFollows, NoteChange
  <2>2. CASE query # None
    BY <1>5, <2>2 DEF ViewFollows, NoteChange
  <2> QED BY <2>1, <2>2
<1>6. CASE Close \/ \E ss \in SUBSET Scopes : Move(ss)
    BY <1>5, <1>6 DEF Close, Move
<1>7. CASE GroupUpdated
    BY <1>7 DEF GroupUpdated, ViewFollows
<1>8. CASE QuerySees
    BY <1>8 DEF QuerySees, ViewFollows
<1>9. CASE QueryAnswered
  <2>1. query' = None /\ page' = page /\ view' = page
    BY <1>9 DEF QueryAnswered, Applicable, ViewFollows
  <2> QED BY <2>1 DEF ViewFollows
<1> QED
    BY <1>2, <1>3, <1>4, <1>6, <1>7, <1>8, <1>9 DEF Next, Outside

(* Whatever order queries are answered in among the events of the tab, no  *)
(* answer takes the scope manager back: it decides on the tab as Chrome    *)
(* shows it (onGroupUpdated, onUpdated, onRemoved).                        *)
THEOREM ViewsAreCurrent == Spec => []ViewIsCurrent
<1>1. Init => ViewFollows
    BY DEF Init, ViewFollows
<1>2. ViewFollows => ViewIsCurrent
    BY DEF ViewFollows, ViewIsCurrent
<1> QED
    BY <1>1, <1>2, ViewKept, PTL DEF Spec
=============================================================================
