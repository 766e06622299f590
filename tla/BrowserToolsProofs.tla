------------------------- MODULE BrowserToolsProofs --------------------------
(* What is proved about the element actions: for any number of calls, of   *)
(* renewals, of attempts and of leases that end early.                     *)
EXTENDS BrowserTools, TLAPS

-----------------------------------------------------------------------------
(* The inductive invariant                                                 *)

Generations == 0 .. MaxGenerations
Attempts == 0 .. MaxAttempts
Record == [kind : Kinds, at : Places, next : Position, generation : Generations,
           attempts : Attempts, dispatched : BOOLEAN, aborted : BOOLEAN,
           pressed : BOOLEAN, held : BOOLEAN, spoiled : BOOLEAN, error : Outcomes,
           outcome : Outcomes]

Flight == [call : Calls, at : Position]

ToolTypes ==
    /\ call \in [Calls -> Record] /\ lease \in Calls \cup {None} /\ generation \in Generations
    /\ flights \in Seq(Flight)
    /\ reached \in [Calls -> Seq(Position)]

(* What a call knows, by where it is                                       *)
LegOf(k) == Steps(k.kind)[k.next.step][k.next.leg]

InPlace(k) ==
    /\ k.next.step \in DOMAIN Steps(k.kind) /\ k.next.leg \in DOMAIN Steps(k.kind)[k.next.step]
    /\ k.next.input \in DOMAIN LegOf(k).inputs

(* Before input n of a leg a button has been pressed and not let go.       *)
Pressing(leg, n) ==
    \E i \in 1 .. n - 1 : /\ leg.inputs[i] = "press"
                          /\ \A j \in i + 1 .. n - 1 : leg.inputs[j] # "release"

(* It has dispatched something before it can be told of a press.           *)
KnowsDispatched(k) ==
    /\ k.at \in {"sent", "verifying", "cleanup"} \/ k.pressed => k.dispatched
    /\ k.at \in {"idle", "resolving"} => ~k.dispatched
    /\ k.at = "releasing" /\ k.error = "none" /\ ~k.aborted => ~k.dispatched

(* It knows of a press from the answer to it until it has let go.          *)
KnowsPressed(k) ==
    /\ k.at \in {"idle", "resolving", "acquiring", "probing", "verifying"} => ~k.pressed
    /\ k.at \in {"ready", "sent"} /\ k.pressed => Pressing(LegOf(k), k.next.input)
    /\ k.at = "releasing" /\ k.error \in {"none", "done"} => ~k.pressed /\ ~k.held
    /\ k.at \notin {"cleanup", "releasing", "over"} => k.held = k.pressed
    /\ k.at = "cleanup" => k.error \in {"failed", "unknown"}

(* A tool that promises that a plain failure has done nothing              *)
Careful(k) == k.kind \notin {"select", "click_at", "drag_at", "scroll_at"}

FailsUntouched(k) ==
    Careful(k) =>
        /\ k.at \in {"acquiring", "probing"} => ~k.dispatched
        /\ k.at = "releasing" /\ k.error \in {"failed", "none"} => ~k.dispatched
        /\ k.at = "cleanup" => k.error = "unknown"
        /\ k.outcome = "failed" => ~k.dispatched /\ (k.aborted \/ k.at = "over")

Sane(k) == k \in Record /\ InPlace(k) /\ KnowsDispatched(k) /\ KnowsPressed(k) /\ FailsUntouched(k)

(* The inputs of a call that the page has seen or may still see            *)
Flying(c) == {i \in DOMAIN flights : flights[i].call = c}
Inputs(c) == {reached[c][i] : i \in DOMAIN reached[c]} \cup {flights[i].at : i \in Flying(c)}
HasLetGo(c) == \E i \in DOMAIN reached[c] : reached[c][i].input = 0

Behind == {"sent", "verifying", "cleanup", "releasing", "over"}

(* They are behind the next one, those of earlier steps but for what is    *)
(* dispatched; the command that lets the button go is the last.            *)
FollowsIn(inputs, gone, k) ==
    /\ \A p \in inputs : Before(p, k.next) \/ (k.at \in Behind /\ p = k.next)
    /\ ~k.dispatched => \A p \in inputs : p.step < k.next.step
    /\ \A p \in inputs : p.input = 0 =>
          /\ k.at \in {"cleanup", "releasing", "over"} /\ k.error \in {"failed", "unknown"}
          /\ p = [k.next EXCEPT !.input = 0]
    /\ k.at \in {"releasing", "over"} /\ k.held /\ ~k.spoiled => gone

Follows(c, k) == FollowsIn(Inputs(c), HasLetGo(c), k)

(* What is on its way is in order, and comes after what was seen.          *)
InOrder(c) ==
    /\ \A i, j \in DOMAIN reached[c] :
          i < j /\ reached[c][j].input # 0 => Before(reached[c][i], reached[c][j])
    /\ \A i, j \in Flying(c) :
          i < j /\ flights[j].at.input # 0 => Before(flights[i].at, flights[j].at)
    /\ \A i \in DOMAIN reached[c] : \A j \in Flying(c) :
          flights[j].at.input # 0 => Before(reached[c][i], flights[j].at)

(* Nothing follows the command that lets the button go.                    *)
LettingIsLast(c) ==
    /\ \A i, j \in Flying(c) : flights[i].at.input = 0 => j =< i
    /\ HasLetGo(c) => Flying(c) = {} /\ button # c

CallOK(c) == Sane(call[c]) /\ Follows(c, call[c]) /\ InOrder(c) /\ LettingIsLast(c)

ToolsInv == ToolTypes /\ LeaseReturned /\ \A c \in Calls : CallOK(c)

-----------------------------------------------------------------------------
(* What the tools send                                                     *)

(* A leg has at most four inputs, and lets go of what it presses.          *)
LegOK(l) ==
    /\ Len(l.inputs) \in 1 .. 4 /\ DOMAIN l.inputs = 1 .. Len(l.inputs)
    /\ ~Pressing(l, Len(l.inputs) + 1)

LEMMA LegsLetGo ==
    /\ LegOK(ClickLeg) /\ LegOK(FillLeg) /\ LegOK(DragLeg) /\ LegOK(ClickAtLeg) /\ LegOK(DragAtLeg) /\ LegOK(ScrollAtLeg)
    /\ LegOK(SelectLegs[1]) /\ LegOK(SelectLegs[2]) /\ LegOK(SelectLegs[3])
    /\ ClickLeg.wrapped /\ FillLeg.wrapped /\ DragLeg.wrapped
<1>1. LegOK(ClickLeg)
    BY DEF ClickLeg, LegOK, Pressing
<1>2. LegOK(FillLeg)
    BY DEF FillLeg, LegOK, Pressing
<1>3. LegOK(DragLeg)
    BY DEF DragLeg, LegOK, Pressing
<1>4. LegOK(ClickAtLeg)
    BY DEF ClickAtLeg, AtLeg, LegOK, Pressing
<1>5. LegOK(DragAtLeg)
    BY DEF DragAtLeg, AtLeg, LegOK, Pressing
<1>6. LegOK(ScrollAtLeg)
    BY DEF ScrollAtLeg, AtLeg, LegOK, Pressing
<1>7. LegOK(SelectLegs[1]) /\ LegOK(SelectLegs[2])
    BY DEF SelectLegs, LegOK, Pressing
<1>8. LegOK(SelectLegs[3])
    BY DEF SelectLegs, LegOK, Pressing
<1>9. ClickLeg.wrapped /\ FillLeg.wrapped /\ DragLeg.wrapped
    BY DEF ClickLeg, FillLeg, DragLeg
<1> QED
    BY <1>1, <1>2, <1>3, <1>4, <1>5, <1>6, <1>7, <1>8, <1>9

(* A call has at most two steps of three legs; only a selection has        *)
(* several legs, and only it and the tools that act at a point report      *)
(* errors as they come.                                                    *)
LEMMA LegsAre ==
    ASSUME NEW k \in Record
    PROVE  /\ Len(Steps(k.kind)) \in 1 .. 2 /\ DOMAIN Steps(k.kind) = 1 .. Len(Steps(k.kind))
           /\ \A s \in DOMAIN Steps(k.kind) :
                /\ Len(Steps(k.kind)[s]) \in 1 .. 3 /\ DOMAIN Steps(k.kind)[s] = 1 .. Len(Steps(k.kind)[s])
                /\ \A l \in DOMAIN Steps(k.kind)[s] : LegOK(Steps(k.kind)[s][l])
                /\ Careful(k) => Len(Steps(k.kind)[s]) = 1 /\ Steps(k.kind)[s][1].wrapped
<1>0. k.kind \in {"click", "fill", "drag", "select", "batch", "click_at", "drag_at", "scroll_at"}
    BY ToolAssumption DEF Record
<1>1. CASE k.kind = "click"
    <2>1. Steps(k.kind) = << <<ClickLeg>> >>
        BY <1>1 DEF Steps
    <2> QED
        BY <2>1, LegsLetGo
<1>2. CASE k.kind = "fill"
    <2>1. Steps(k.kind) = << <<FillLeg>> >>
        BY <1>2 DEF Steps
    <2> QED
        BY <2>1, LegsLetGo
<1>3. CASE k.kind = "drag"
    <2>1. Steps(k.kind) = << <<DragLeg>> >>
        BY <1>3 DEF Steps
    <2> QED
        BY <2>1, LegsLetGo
<1>4. CASE k.kind = "select"
    <2>1. Steps(k.kind) = <<SelectLegs>> /\ ~Careful(k)
        BY <1>4 DEF Steps, Careful
    <2>2. Len(SelectLegs) = 3 /\ DOMAIN SelectLegs = 1 .. 3
        BY DEF SelectLegs
    <2> QED
        BY <2>1, <2>2, LegsLetGo
<1>5. CASE k.kind = "batch"
    <2>1. Steps(k.kind) = << <<ClickLeg>>, <<ClickLeg>> >>
        BY <1>5 DEF Steps
    <2> QED
        BY <2>1, LegsLetGo
<1>6. CASE k.kind \in {"click_at", "drag_at", "scroll_at"}
    <2>1. \E l \in {ClickAtLeg, DragAtLeg, ScrollAtLeg} : Steps(k.kind) = << <<l>> >>
        BY <1>6 DEF Steps
    <2> QED
        BY <1>6, <2>1, LegsLetGo DEF Careful
<1> QED
    BY <1>0, <1>1, <1>2, <1>3, <1>4, <1>5, <1>6

-----------------------------------------------------------------------------
(* What the operators make of the record of a call                         *)

(* The first input of the first leg of a step                              *)
LEMMA FirstOfStep ==
    ASSUME NEW n \in Position, NEW m, m = [[n EXCEPT !.leg = 1] EXCEPT !.input = 1]
    PROVE  m \in Position /\ m.step = n.step /\ m.leg = 1 /\ m.input = 1
<1>1. ASSUME NEW S, NEW L, NEW I, n \in [step : S, leg : L, input : I], 1 \in L, 1 \in I
      PROVE  m \in [step : S, leg : L, input : I] /\ m.step = n.step /\ m.leg = 1 /\ m.input = 1
    BY <1>1
<1>2. 1 \in 1 .. 3 /\ 1 \in 0 .. 4
    OBVIOUS
<1> QED
    BY <1>1, <1>2 DEF Position

LEMMA FirstOfLeg ==
    ASSUME NEW l, LegOK(l) PROVE 1 \in DOMAIN l.inputs
<1>1. ASSUME NEW n \in 1 .. 4 PROVE 1 \in 1 .. n
    OBVIOUS
<1> QED
    BY <1>1 DEF LegOK

(* Two records that differ in what the next input does not depend on       *)
SamePlan(k, m) == m.kind = k.kind /\ m.next = k.next

LEMMA RestartedIs ==
    ASSUME NEW k \in Record, Sane(k), ~k.dispatched, k.at \in {"acquiring", "releasing"}, ~k.pressed, ~k.held,
           Careful(k) => k.outcome # "failed" \/ k.aborted
    PROVE  LET m == Restarted(k)
           IN  /\ Sane(m) /\ m.at = "resolving" /\ ~m.dispatched /\ m.error = k.error
               /\ m.next.step = k.next.step /\ m.spoiled = k.spoiled
<1> DEFINE m == Restarted(k)
<1>1. /\ m.at = "resolving" /\ m.kind = k.kind /\ m.dispatched = k.dispatched
      /\ m.pressed = k.pressed /\ m.held = k.held /\ m.error = k.error /\ m.outcome = k.outcome /\ m.aborted = k.aborted
      /\ m.spoiled = k.spoiled
      /\ m.next = [[k.next EXCEPT !.leg = 1] EXCEPT !.input = 1]
    BY DEF Restarted, Record
<1>2. k.next \in Position
    BY DEF Record
<1>3. m.next \in Position /\ m.next.step = k.next.step /\ m.next.leg = 1 /\ m.next.input = 1
    BY <1>1, <1>2, FirstOfStep
<1>4. m \in Record
    <2>1. m = [[k EXCEPT !.at = "resolving"] EXCEPT !.next = m.next]
        BY <1>1 DEF Restarted, Record
    <2> QED
        BY <1>3, <2>1 DEF Record, Places
<1> HIDE DEF m
<1>5. InPlace(m)
    <2>1. /\ m.next.step \in DOMAIN Steps(m.kind)
          /\ 1 \in DOMAIN Steps(m.kind)[m.next.step]
        BY <1>1, <1>3, LegsAre DEF Sane, InPlace
    <2>2. LegOK(Steps(m.kind)[m.next.step][1])
        BY <1>1, <1>3, <2>1, LegsAre
    <2> QED
        BY <1>3, <2>1, <2>2, FirstOfLeg DEF InPlace, LegOf
<1>6. m.held = FALSE /\ m.pressed = FALSE
    BY <1>1 DEF Record
<1>7. KnowsDispatched(m) /\ KnowsPressed(m) /\ FailsUntouched(m)
    BY <1>1, <1>6 DEF Sane, KnowsDispatched, KnowsPressed, FailsUntouched, Careful
<1> QED
    BY <1>1, <1>3, <1>4, <1>5, <1>7 DEF Sane, m

(* An input fails: the leg ends, and what was pressed is let go first.     *)
LEMMA UncertainIs ==
    ASSUME NEW c \in Calls, call[c] \in Record, Sane(call[c]), call[c].at \in {"ready", "sent", "verifying"},
           call[c].dispatched \/ call[c].aborted \/ ~Careful(call[c]) \/ LegOf(call[c]).wrapped
    PROVE  LET m == Uncertain(c)
           IN  /\ Sane(m) /\ SamePlan(call[c], m) /\ m.dispatched = call[c].dispatched
               /\ m.at \in {"cleanup", "releasing"} /\ m.error \in {"failed", "unknown"}
               /\ m.at = "releasing" => ~m.held
<1> DEFINE k == call[c]
           m == Uncertain(c)
<1>1. InputError(c) \in {"failed", "unknown"} /\ (Careful(k) => InputError(c) = "unknown")
    <2>1. ASSUME Careful(k) PROVE LegOf(k).wrapped
        <3>1. /\ k \in Record /\ k.next.step \in DOMAIN Steps(k.kind)
              /\ k.next.leg \in DOMAIN Steps(k.kind)[k.next.step]
            BY DEF Sane, InPlace
        <3>2. /\ DOMAIN Steps(k.kind)[k.next.step] = 1 .. 1
              /\ Steps(k.kind)[k.next.step][1].wrapped
            BY <2>1, <3>1, LegsAre
        <3>3. k.next.leg = 1
            BY <3>1, <3>2
        <3> QED
            BY <3>2, <3>3 DEF LegOf
    <2>2. InputError(c) = IF LegOf(k).wrapped THEN "unknown" ELSE "failed"
        BY DEF InputError, Leg, LegOf
    <2> QED
        BY <2>1, <2>2
<1>2. /\ m \in Record /\ m.at = (IF k.pressed THEN "cleanup" ELSE "releasing") /\ m.error = InputError(c)
      /\ m.next = k.next /\ m.kind = k.kind /\ m.dispatched = k.dispatched
      /\ m.pressed = k.pressed /\ m.held = k.held /\ m.outcome = k.outcome /\ m.aborted = k.aborted
    BY <1>1 DEF Uncertain, Record, Places, Outcomes
<1> HIDE DEF m, k
<1>3. Sane(k) /\ k.at \in {"ready", "sent", "verifying"}
    BY DEF k
<1>4. InPlace(m)
    BY <1>2, <1>3 DEF Sane, InPlace, LegOf
<1>5. KnowsDispatched(m) /\ KnowsPressed(m) /\ FailsUntouched(m)
    BY <1>1, <1>2, <1>3 DEF Sane, KnowsDispatched, KnowsPressed, FailsUntouched, Careful
<1>6. m.at = "releasing" => ~m.held
    BY <1>2, <1>3 DEF Sane, KnowsPressed
<1> QED
    BY <1>1, <1>2, <1>4, <1>5, <1>6 DEF Sane, SamePlan, k, m

(* The next input of a leg: what was pressed stays pressed until it is let *)
(* go, and has been let go at the end.                                     *)
LEMMA StillPressing ==
    ASSUME NEW l, NEW n \in 1 .. 4, Pressing(l, n) \/ l.inputs[n] = "press", l.inputs[n] # "release"
    PROVE  Pressing(l, n + 1)
<1>1. PICK i \in 1 .. n : l.inputs[i] = "press" /\ \A j \in i + 1 .. n - 1 : l.inputs[j] # "release"
    BY DEF Pressing
<1>2. i \in 1 .. (n + 1) - 1
    BY <1>1
<1>3. \A j \in i + 1 .. (n + 1) - 1 : l.inputs[j] # "release"
    <2>1. ASSUME NEW j \in i + 1 .. (n + 1) - 1 PROVE j \in i + 1 .. n - 1 \/ j = n
        OBVIOUS
    <2> QED
        BY <1>1, <2>1
<1> QED
    BY <1>1, <1>2, <1>3 DEF Pressing

LEMMA AdvancedIs ==
    ASSUME NEW k \in Record, Sane(k), k.at = "sent", NEW m, m = Advanced(k, LegOf(k))
    PROVE  /\ Sane(m) /\ m.kind = k.kind /\ m.dispatched /\ k.dispatched
           /\ \/ m.at = "ready" /\ m.next = [k.next EXCEPT !.input = k.next.input + 1]
              \/ m.at \in {"verifying", "releasing"} /\ m.next = k.next /\ ~m.held
<1> DEFINE l == LegOf(k)
           n == k.next.input
           what == l.inputs[n]
           pressed == IF what = "press" THEN TRUE ELSE IF what = "release" THEN FALSE ELSE k.pressed
           told == [k EXCEPT !.pressed = pressed, !.held = pressed]
<1>1. /\ k.next \in Position /\ LegOK(l) /\ n \in 1 .. Len(l.inputs) /\ n \in 1 .. 4 /\ Len(l.inputs) \in 1 .. 4
      /\ k.pressed \in BOOLEAN /\ k.dispatched = TRUE
    <2>1. LegOK(l) /\ n \in DOMAIN l.inputs
        BY LegsAre DEF Sane, InPlace, LegOf
    <2>2. n \in 1 .. Len(l.inputs) /\ Len(l.inputs) \in 1 .. 4
        BY <2>1 DEF LegOK
    <2>3. \A b \in 1 .. 4 : \A a \in 1 .. b : a \in 1 .. 4
        OBVIOUS
    <2>4. n \in 1 .. 4
        BY <2>2, <2>3
    <2> QED
        BY <2>1, <2>2, <2>4 DEF Record, Sane, KnowsDispatched
<1>2. pressed \in BOOLEAN /\ (pressed => Pressing(l, n + 1))
    <2>1. k.pressed => Pressing(l, n)
        BY DEF Sane, KnowsPressed
    <2>2. pressed => (k.pressed \/ what = "press") /\ what # "release"
        OBVIOUS
    <2> QED
        BY <1>1, <2>1, <2>2, StillPressing
<1>3. told \in Record
    BY <1>2 DEF Record
<1>4. told.pressed = pressed /\ told.held = pressed /\ told.kind = k.kind /\ told.next = k.next
      /\ told.dispatched = k.dispatched /\ told.outcome = k.outcome /\ told.aborted = k.aborted
    BY DEF Record
<1> HIDE DEF told, pressed
<1>5. CASE n < Len(l.inputs)
    <2>1. m = [told EXCEPT !.at = "ready", !.next.input = @ + 1]
        BY <1>5 DEF Advanced, told, pressed
    <2>2. /\ m.at = "ready" /\ m.kind = k.kind /\ m.next = [k.next EXCEPT !.input = n + 1] /\ m.dispatched = k.dispatched
          /\ m.pressed = pressed /\ m.held = pressed /\ m.outcome = k.outcome /\ m.aborted = k.aborted
        BY <2>1, <1>3, <1>4 DEF Record
    <2>3. n + 1 \in 0 .. 4 /\ n + 1 \in 1 .. Len(l.inputs)
        <3>1. \A a, b \in 1 .. 4 : a < b => a + 1 \in 0 .. 4 /\ a + 1 \in 1 .. b
            OBVIOUS
        <3> QED
            BY <1>1, <1>5, <3>1
    <2>4. m.next \in Position /\ m.next.step = k.next.step /\ m.next.leg = k.next.leg /\ m.next.input = n + 1
        <3>1. ASSUME NEW S, NEW L, NEW I, k.next \in [step : S, leg : L, input : I], n + 1 \in I,
                     NEW q, q = [k.next EXCEPT !.input = n + 1]
              PROVE  q \in [step : S, leg : L, input : I] /\ q.step = k.next.step /\ q.leg = k.next.leg /\ q.input = n + 1
            BY <3>1
        <3> QED
            BY <1>1, <2>2, <2>3, <3>1 DEF Position
    <2>5. m \in Record
        <3>1. m = [[told EXCEPT !.at = "ready"] EXCEPT !.next = m.next]
            BY <2>1, <2>2, <1>3, <1>4 DEF Record
        <3> QED
            BY <1>3, <2>4, <3>1 DEF Record, Places
    <2>6. InPlace(m) /\ LegOf(m) = l
        BY <1>1, <2>2, <2>3, <2>4 DEF Sane, InPlace, LegOf, LegOK
    <2>7. KnowsDispatched(m) /\ KnowsPressed(m) /\ FailsUntouched(m)
        BY <1>1, <1>2, <2>2, <2>4, <2>6 DEF Sane, KnowsDispatched, KnowsPressed, FailsUntouched, Careful
    <2> QED
        BY <1>1, <2>2, <2>5, <2>6, <2>7 DEF Sane
<1>6. CASE ~(n < Len(l.inputs))
    <2>1. pressed = FALSE
        <3>1. n = Len(l.inputs)
            BY <1>1, <1>6
        <3> QED
            BY <1>1, <1>2, <3>1 DEF LegOK
    <2>2. PICK p \in {"verifying", "releasing"} : m = [told EXCEPT !.at = p, !.error = "done"]
        BY <1>6 DEF Advanced, told, pressed
    <2>3. /\ m \in Record
          /\ m.at = p /\ m.kind = k.kind /\ m.next = k.next /\ m.dispatched = k.dispatched /\ m.error = "done"
          /\ m.pressed = FALSE /\ m.held = FALSE /\ m.outcome = k.outcome /\ m.aborted = k.aborted
        BY ZenonT(60), <2>1, <2>2, <1>3, <1>4 DEF Record, Places, Outcomes
    <2>4. InPlace(m)
        BY <2>3 DEF Sane, InPlace, LegOf
    <2>5. KnowsDispatched(m) /\ KnowsPressed(m) /\ FailsUntouched(m)
        BY <1>1, <2>3 DEF Sane, KnowsDispatched, KnowsPressed, FailsUntouched, Careful
    <2> QED
        BY <1>1, <2>3, <2>4, <2>5 DEF Sane
<1> QED
    BY <1>5, <1>6

(* What follows a leg: the next leg, the next step, another attempt by a   *)
(* call that has dispatched nothing, or the end.                           *)
LEMMA FollowingIs ==
    ASSUME NEW k \in Record, Sane(k), k.at = "releasing", NEW m, m = Following(k)
    PROVE  /\ Sane(m)
           /\ \/ /\ m.at = "acquiring" /\ k.error = "done" /\ m.dispatched = k.dispatched /\ m.kind = k.kind
                 /\ m.next = [step |-> k.next.step, leg |-> k.next.leg + 1, input |-> 1]
              \/ /\ m.at = "resolving" /\ k.error = "done" /\ ~m.dispatched
                 /\ m.next.step = k.next.step + 1
              \/ m.at = "resolving" /\ k.error = "none" /\ ~m.dispatched /\ ~k.dispatched /\ m.next.step = k.next.step
              \/ /\ m.at = "over" /\ m.dispatched = k.dispatched /\ m.next = k.next
                 /\ m.held = k.held /\ m.spoiled = k.spoiled /\ m.error = k.error
<1> DEFINE steps == Steps(k.kind)
           s == k.next.step
           l == k.next.leg
<1>1. /\ k.next \in Position /\ s \in 1 .. Len(steps) /\ Len(steps) \in 1 .. 2 /\ DOMAIN steps = 1 .. Len(steps)
      /\ l \in 1 .. Len(steps[s]) /\ Len(steps[s]) \in 1 .. 3
      /\ DOMAIN steps[s] = 1 .. Len(steps[s])
    BY LegsAre DEF Sane, InPlace, Record
<1>2. CASE k.error = "done" /\ l < Len(steps[s])
    <2> DEFINE q == [step |-> s, leg |-> l + 1, input |-> 1]
    <2>1. m = [k EXCEPT !.at = "acquiring", !.error = "none", !.next = q]
        BY <1>2 DEF Following, Record
    <2>2. q \in Position /\ l + 1 \in DOMAIN steps[s]
        <3>1. \A a, b \in 1 .. 3 : a < b => a + 1 \in 1 .. 3 /\ a + 1 \in 1 .. b
            OBVIOUS
        <3>2. \A b \in 1 .. 3 : \A a \in 1 .. b : a \in 1 .. 3
            OBVIOUS
        <3>3. l + 1 \in 1 .. 3 /\ l + 1 \in 1 .. Len(steps[s])
            BY <1>1, <1>2, <3>1, <3>2
        <3> QED
            BY <1>1, <3>3 DEF Position
    <2> HIDE DEF q
    <2>3. /\ m \in Record /\ m.at = "acquiring" /\ m.next = q /\ m.kind = k.kind /\ m.dispatched = k.dispatched
          /\ m.pressed = k.pressed /\ m.held = k.held /\ m.outcome = k.outcome /\ m.aborted = k.aborted
        BY <2>1, <2>2 DEF Record, Places, Outcomes
    <2>4. InPlace(m)
        <3>1. q.step = s /\ q.leg = l + 1 /\ q.input = 1
            BY DEF q
        <3>2. 1 \in DOMAIN steps[s][l + 1].inputs
            BY <1>1, <2>2, LegsAre, FirstOfLeg
        <3> QED
            BY <1>1, <2>2, <2>3, <3>1, <3>2 DEF InPlace, LegOf
    <2>5. ~Careful(m)
        <3>1. \A a \in 1 .. 1 : ~(a < 1)
            OBVIOUS
        <3> QED
            BY <1>1, <1>2, <2>3, <3>1, LegsAre DEF Careful
    <2>6. k.pressed = FALSE /\ k.held = FALSE
        BY <1>2 DEF Sane, KnowsPressed, Record
    <2>7. KnowsDispatched(m) /\ KnowsPressed(m) /\ FailsUntouched(m)
        BY <2>3, <2>5, <2>6 DEF KnowsDispatched, KnowsPressed, FailsUntouched
    <2> QED
        BY <1>2, <2>3, <2>4, <2>7 DEF Sane, q
<1>3. CASE /\ ~(k.error = "done" /\ l < Len(steps[s]))
           /\ k.error = "done" /\ s < Len(steps) /\ ~k.aborted
    <2> DEFINE q == [step |-> s + 1, leg |-> 1, input |-> 1]
    <2>1. m = [k EXCEPT !.at = "resolving", !.error = "none", !.dispatched = FALSE, !.attempts = 0, !.next = q]
        BY <1>3 DEF Following, Record
    <2>2. q \in Position /\ s + 1 \in DOMAIN steps /\ 0 \in Attempts
        <3>1. \A b \in 1 .. 2 : \A a \in 1 .. b : a < b => a + 1 \in 1 .. 2 /\ a + 1 \in 1 .. b
            OBVIOUS
        <3>2. s + 1 \in 1 .. 2 /\ s + 1 \in 1 .. Len(steps)
            BY <1>1, <1>3, <3>1
        <3>3. q \in Position
            BY <3>2 DEF Position
        <3> QED
            BY <1>1, <3>2, <3>3, ToolAssumption DEF Attempts
    <2>3. q.step = s + 1 /\ q.leg = 1 /\ q.input = 1
        OBVIOUS
    <2> HIDE DEF q
    <2>4. /\ m \in Record /\ m.at = "resolving" /\ m.next = q /\ m.kind = k.kind /\ m.dispatched = FALSE
          /\ m.pressed = k.pressed /\ m.held = k.held /\ m.outcome = k.outcome /\ m.aborted = k.aborted
        BY <2>1, <2>2 DEF Record, Places, Outcomes
    <2>5. InPlace(m)
        <3>1. 1 \in DOMAIN steps[s + 1]
            <4>1. \A b \in 1 .. 3 : 1 \in 1 .. b
                OBVIOUS
            <4> QED
                BY <2>2, <4>1, LegsAre
        <3>2. 1 \in DOMAIN steps[s + 1][1].inputs
            BY <2>2, <3>1, LegsAre, FirstOfLeg
        <3> QED
            BY <2>2, <2>3, <2>4, <3>1, <3>2 DEF InPlace, LegOf
    <2>6. k.pressed = FALSE /\ k.held = FALSE
        BY <1>3 DEF Sane, KnowsPressed, Record
    <2>7. KnowsDispatched(m) /\ KnowsPressed(m) /\ FailsUntouched(m)
        BY <1>3, <2>4, <2>6 DEF Sane, KnowsDispatched, KnowsPressed, FailsUntouched, Careful
    <2> QED
        BY <1>3, <2>3, <2>4, <2>5, <2>7 DEF Sane
<1>4. CASE k.error = "none" /\ ~k.aborted
    <2>1. m = Restarted(k)
        BY <1>4 DEF Following
    <2>2. ~k.dispatched /\ ~k.pressed /\ ~k.held /\ (Careful(k) => k.outcome # "failed")
        BY <1>4 DEF Sane, KnowsDispatched, KnowsPressed, FailsUntouched
    <2> QED
        BY <1>4, <2>1, <2>2, RestartedIs
<1>5. CASE /\ ~(k.error = "done" /\ l < Len(steps[s]))
           /\ ~(k.error = "done" /\ s < Len(steps) /\ ~k.aborted)
           /\ ~(k.error = "none" /\ ~k.aborted)
    <2> DEFINE e == IF k.outcome # "none" THEN k.outcome ELSE IF k.error = "none" THEN "failed" ELSE k.error
    <2>1. m = [k EXCEPT !.at = "over", !.outcome = e]
        BY <1>5 DEF Following, Told, Record
    <2>2. e \in Outcomes /\ (e = "failed" => k.outcome = "failed" \/ k.error \in {"failed", "none"})
        BY DEF Outcomes, Record
    <2> HIDE DEF e
    <2>3. /\ m \in Record /\ m.at = "over" /\ m.next = k.next /\ m.kind = k.kind /\ m.dispatched = k.dispatched
          /\ m.pressed = k.pressed /\ m.held = k.held /\ m.outcome = e /\ m.aborted = k.aborted
          /\ m.spoiled = k.spoiled /\ m.error = k.error
        BY <2>1, <2>2 DEF Record, Places
    <2>4. InPlace(m)
        BY <2>3 DEF Sane, InPlace, LegOf
    <2>5. KnowsDispatched(m) /\ KnowsPressed(m) /\ FailsUntouched(m)
        BY <2>2, <2>3 DEF Sane, KnowsDispatched, KnowsPressed, FailsUntouched, Careful
    <2> QED
        BY <2>3, <2>4, <2>5 DEF Sane
<1> QED
    BY <1>2, <1>3, <1>4, <1>5

-----------------------------------------------------------------------------
(* It holds before anything is called.                                     *)
LEMMA ToolsInitially == Init => ToolsInv
<1> SUFFICES ASSUME Init PROVE ToolsInv
    OBVIOUS
<1>1. /\ 0 \in Generations /\ 0 \in Attempts /\ Start \in Position
      /\ Start.step = 1 /\ Start.leg = 1 /\ Start.input = 1
    BY ToolAssumption DEF Generations, Attempts, Start, Position
<1> DEFINE New == [kind : Kinds, at : {"idle"}, next : {Start}, generation : {0}, attempts : {0},
                   dispatched : {FALSE}, aborted : {FALSE}, pressed : {FALSE}, held : {FALSE},
                   spoiled : {FALSE}, error : {"none"}, outcome : {"none"}]
<1>2. ASSUME NEW k \in New PROVE Sane(k)
    <2>1. k \in Record
        BY <1>1 DEF Record, Places, Outcomes
    <2>2. k.next = Start /\ k.at = "idle" /\ k.dispatched = FALSE /\ k.pressed = FALSE /\ k.held = FALSE /\ k.outcome = "none"
        OBVIOUS
    <2>3. InPlace(k)
        <3>0. (\A b \in 1 .. 2 : 1 \in 1 .. b) /\ (\A b \in 1 .. 3 : 1 \in 1 .. b)
            OBVIOUS
        <3>1. 1 \in DOMAIN Steps(k.kind) /\ 1 \in DOMAIN Steps(k.kind)[1]
            BY ZenonT(60), <2>1, <3>0, LegsAre
        <3>2. 1 \in DOMAIN Steps(k.kind)[1][1].inputs
            BY <2>1, <3>1, LegsAre, FirstOfLeg
        <3> QED
            BY <1>1, <2>2, <3>1, <3>2 DEF InPlace, LegOf
    <2> QED
        BY <2>1, <2>2, <2>3 DEF Sane, KnowsDispatched, KnowsPressed, FailsUntouched
<1>3. call \in [Calls -> New]
    BY DEF Init
<1>4. ToolTypes
    <2>1. call \in [Calls -> Record]
        BY <1>2, <1>3 DEF Sane
    <2> QED
        BY <1>1, <2>1 DEF Init, ToolTypes
<1>5. LeaseReturned
    BY ToolAssumption DEF Init, LeaseReturned
<1>6. ASSUME NEW c \in Calls PROVE CallOK(c)
    <2>1. Inputs(c) = {} /\ DOMAIN reached[c] = {} /\ Flying(c) = {} /\ ~HasLetGo(c) /\ call[c].at = "idle"
        <3>1. reached[c] = <<>> /\ flights = <<>> /\ call[c].at = "idle"
            BY <1>3 DEF Init
        <3>2. DOMAIN << >> = {}
            OBVIOUS
        <3>3. DOMAIN reached[c] = {} /\ DOMAIN flights = {}
            BY <3>1, <3>2
        <3> QED
            BY <3>1, <3>3 DEF Inputs, Flying, HasLetGo
    <2> QED
        BY <1>2, <1>3, <2>1 DEF CallOK, Follows, FollowsIn, InOrder, LettingIsLast
<1> QED
    BY <1>4, <1>5, <1>6 DEF ToolsInv

-----------------------------------------------------------------------------
(* Steps of a call that touch nothing of the page                          *)

LEMMA LeaseKept ==
    ASSUME LeaseReturned, lease' \in {lease, None},
           \A d \in Calls : call'[d].at = "over" => call[d].at = "over"
    PROVE  LeaseReturned'
BY ToolAssumption DEF LeaseReturned

LEMMA CallStep ==
    ASSUME ToolsInv, NEW c \in Calls, NEW m, call' = [call EXCEPT ![c] = m],
           Sane(m), Follows(c, m), UNCHANGED page,
           lease' \in Calls \cup {None}, generation' = generation, LeaseReturned'
    PROVE  ToolsInv'
<1>1. call' \in [Calls -> Record] /\ call'[c] = m /\ \A d \in Calls \ {c} : call'[d] = call[d]
    BY DEF ToolsInv, ToolTypes, Sane
<1>2. ASSUME NEW d \in Calls PROVE CallOK(d)'
    <2>1. Sane(call'[d]) /\ Follows(d, call'[d])
        BY <1>1 DEF ToolsInv, CallOK
    <2>2. /\ UNCHANGED <<Inputs(d), HasLetGo(d), Flying(d), reached, flights, button>>
        BY DEF page, Inputs, HasLetGo, Flying
    <2>3. InOrder(d)' /\ LettingIsLast(d)'
        BY <2>2 DEF ToolsInv, CallOK, InOrder, LettingIsLast
    <2> QED
        BY <2>1, <2>2, <2>3 DEF CallOK, Follows, FollowsIn
<1> QED
    BY <1>1, <1>2 DEF ToolsInv, ToolTypes, page

(* A call that stays at its input                                          *)
LEMMA StaysAtInput ==
    ASSUME NEW c \in Calls, NEW k, NEW m, Follows(c, k), m.next = k.next,
           k.at \in Behind => m.at \in Behind,
           k.dispatched => m.dispatched,
           k.at \in {"cleanup", "releasing", "over"} /\ k.error \in {"failed", "unknown"} =>
               m.at \in {"cleanup", "releasing", "over"} /\ m.error \in {"failed", "unknown"},
           m.at \in {"releasing", "over"} /\ m.held /\ ~m.spoiled =>
               (k.at \in {"releasing", "over"} /\ k.held /\ ~k.spoiled) \/ HasLetGo(c)
    PROVE  Follows(c, m)
BY DEF Follows, FollowsIn

(* The next input of a leg, of the next leg and of the next step come      *)
(* after all that came before.                                             *)
LEMMA Later ==
    ASSUME NEW p \in Position, NEW n \in Position, NEW m \in Position
    PROVE  /\ p.step < m.step => Before(p, m)
           /\ Before(p, n) \/ p = n =>
                 /\ m.step = n.step /\ m.leg = n.leg /\ m.input = n.input + 1 => Before(p, m)
                 /\ m.step = n.step /\ m.leg = n.leg + 1 => Before(p, m)
                 /\ m.step = n.step + 1 => p.step < m.step
<1>1. /\ p.step \in Nat /\ p.leg \in Nat /\ p.input \in Nat /\ n.step \in Nat /\ n.leg \in Nat /\ n.input \in Nat
      /\ m.step \in Nat /\ m.leg \in Nat /\ m.input \in Nat
    BY DEF Position
<1> QED
    BY <1>1 DEF Before

LEMMA InputsAre ==
    ASSUME ToolTypes, NEW c \in Calls
    PROVE  Inputs(c) \subseteq Position
<1>1. \A i \in DOMAIN reached[c] : reached[c][i] \in Position
    BY DEF ToolTypes
<1>2. ASSUME NEW i \in DOMAIN flights PROVE flights[i].at \in Position
    <2>1. flights[i] \in Flight
        BY DEF ToolTypes
    <2> QED
        BY <2>1 DEF Flight
<1> QED
    BY <1>1, <1>2 DEF Inputs, Flying

(* The call finds its element and takes its lease.                         *)
LEMMA BeginSteps ==
    ASSUME ToolsInv, NEW c \in Calls, Invoke(c) \/ Abort(c) \/ Resolved(c) \/ Unresolved(c)
    PROVE  ToolsInv'
<1> DEFINE k == call[c]
<1>0. k \in Record /\ Sane(k) /\ Follows(c, k) /\ ToolTypes /\ LeaseReturned
    BY DEF ToolsInv, CallOK, Sane
<1>1. /\ UNCHANGED <<lease, generation, page>> /\ lease' \in Calls \cup {None}
    BY <1>0 DEF Invoke, Abort, Resolved, Unresolved, ToolTypes
<1>2. ASSUME NEW m, call' = [call EXCEPT ![c] = m], Sane(m), Follows(c, m), m.at = "over" => k.at = "over"
      PROVE  ToolsInv'
    <2>1. LeaseReturned'
        BY <1>0, <1>1, <1>2, LeaseKept DEF ToolTypes
    <2> QED
        BY <1>0, <1>1, <1>2, <2>1, CallStep
<1>3. CASE Invoke(c)
    <2> DEFINE m == [k EXCEPT !.at = "resolving"]
    <2>1. call' = [call EXCEPT ![c] = m] /\ k.at = "idle"
        BY <1>0, <1>3 DEF Invoke, ToolTypes
    <2>2. /\ m \in Record /\ m.at = "resolving" /\ m.next = k.next /\ m.kind = k.kind /\ m.dispatched = k.dispatched
          /\ m.pressed = k.pressed /\ m.held = k.held /\ m.outcome = k.outcome /\ m.aborted = k.aborted
          /\ m.error = k.error
        BY <1>0 DEF Record, Places
    <2> HIDE DEF m
    <2>3. InPlace(m)
        BY <1>0, <2>2 DEF Sane, InPlace, LegOf
    <2>4. KnowsDispatched(m) /\ KnowsPressed(m) /\ FailsUntouched(m)
        BY <1>0, <2>1, <2>2 DEF Sane, KnowsDispatched, KnowsPressed, FailsUntouched, Careful
    <2>5. Follows(c, m)
        BY <1>0, <2>1, <2>2, StaysAtInput DEF Behind
    <2> QED
        BY <1>2, <2>1, <2>2, <2>3, <2>4, <2>5 DEF Sane
<1>4. CASE Abort(c)
    <2> DEFINE e == IF Pointed(c) THEN k.outcome ELSE IF k.dispatched THEN "unknown" ELSE "failed"
               m == [k EXCEPT !.aborted = TRUE, !.outcome = e]
    <2>1. call' = [call EXCEPT ![c] = m] /\ k.at \notin {"idle", "over"} /\ k.outcome = "none"
        <3>1. m = IF Pointed(c) THEN [k EXCEPT !.aborted = TRUE]
                  ELSE Told([k EXCEPT !.aborted = TRUE], IF k.dispatched THEN "unknown" ELSE "failed")
            BY <1>0, <1>4 DEF Abort, Told, Record
        <3> QED
            BY <1>4, <3>1 DEF Abort
    <2>2. e \in Outcomes /\ (e = "failed" => ~k.dispatched)
        BY <1>0, <2>1 DEF Outcomes, Record
    <2> HIDE DEF e
    <2>3. /\ m \in Record /\ m.at = k.at /\ m.next = k.next /\ m.kind = k.kind /\ m.dispatched = k.dispatched
          /\ m.pressed = k.pressed /\ m.held = k.held /\ m.outcome = e /\ m.aborted = TRUE
          /\ m.error = k.error /\ m.spoiled = k.spoiled
        BY <1>0, <2>2 DEF Record
    <2> HIDE DEF m
    <2>4. InPlace(m) /\ LegOf(m) = LegOf(k)
        BY <1>0, <2>3 DEF Sane, InPlace, LegOf
    <2>5. KnowsDispatched(m) /\ KnowsPressed(m) /\ FailsUntouched(m)
        BY <1>0, <2>1, <2>2, <2>3, <2>4 DEF Sane, KnowsDispatched, KnowsPressed, FailsUntouched, Careful
    <2>6. Follows(c, m)
        BY <1>0, <2>3, StaysAtInput DEF Behind
    <2> QED
        BY <1>2, <2>1, <2>3, <2>4, <2>5, <2>6 DEF Sane
<1>5. CASE Resolved(c)
    <2> DEFINE p == IF Leased(c) THEN "probing" ELSE "acquiring"
               m == [k EXCEPT !.at = p, !.generation = generation, !.attempts = k.attempts + 1]
    <2>1. call' = [call EXCEPT ![c] = m] /\ k.at = "resolving" /\ k.attempts < MaxAttempts
        BY <1>0, <1>5 DEF Resolved, ToolTypes
    <2>2. k.attempts + 1 \in Attempts
        <3>1. k.attempts \in Attempts
            BY <1>0 DEF Record
        <3> QED
            BY <2>1, <3>1, ToolAssumption DEF Attempts
    <2>3. p \in {"probing", "acquiring"} /\ generation \in Generations
        BY <1>0 DEF ToolTypes
    <2> HIDE DEF p
    <2>4. /\ m \in Record /\ m.at = p /\ m.next = k.next /\ m.kind = k.kind /\ m.dispatched = k.dispatched
          /\ m.pressed = k.pressed /\ m.held = k.held /\ m.outcome = k.outcome /\ m.aborted = k.aborted
          /\ m.error = k.error
        BY <1>0, <2>2, <2>3 DEF Record, Places
    <2> HIDE DEF m
    <2>5. InPlace(m)
        BY <1>0, <2>4 DEF Sane, InPlace, LegOf
    <2>6. KnowsDispatched(m) /\ KnowsPressed(m) /\ FailsUntouched(m)
        BY <1>0, <2>1, <2>3, <2>4 DEF Sane, KnowsDispatched, KnowsPressed, FailsUntouched, Careful
    <2>7. Follows(c, m)
        BY <1>0, <2>1, <2>3, <2>4, StaysAtInput DEF Behind
    <2> QED
        BY <1>2, <2>1, <2>3, <2>4, <2>5, <2>6, <2>7 DEF Sane
<1>6. CASE Unresolved(c)
    <2> DEFINE m == [k EXCEPT !.at = "releasing", !.error = "failed"]
    <2>1. call' = [call EXCEPT ![c] = m] /\ k.at = "resolving"
        BY <1>0, <1>6 DEF Unresolved, ToolTypes
    <2>2. /\ m \in Record /\ m.at = "releasing" /\ m.next = k.next /\ m.kind = k.kind /\ m.dispatched = k.dispatched
          /\ m.pressed = k.pressed /\ m.held = k.held /\ m.outcome = k.outcome /\ m.aborted = k.aborted
          /\ m.error = "failed"
        BY <1>0 DEF Record, Places, Outcomes
    <2> HIDE DEF m
    <2>3. InPlace(m)
        BY <1>0, <2>2 DEF Sane, InPlace, LegOf
    <2>4. KnowsDispatched(m) /\ KnowsPressed(m) /\ FailsUntouched(m) /\ ~k.held
        BY <1>0, <2>1, <2>2 DEF Sane, KnowsDispatched, KnowsPressed, FailsUntouched, Careful
    <2>5. Follows(c, m)
        BY <1>0, <2>1, <2>2, <2>4, StaysAtInput DEF Behind
    <2> QED
        BY <1>2, <2>1, <2>2, <2>3, <2>4, <2>5 DEF Sane
<1> QED
    BY <1>3, <1>4, <1>5, <1>6

(* A call that moves to another place is at the same input still.          *)
LEMMA KeepsPlace ==
    ASSUME NEW k, NEW m, InPlace(k), m.next = k.next, m.kind = k.kind
    PROVE  InPlace(m) /\ LegOf(m) = LegOf(k)
BY DEF InPlace, LegOf

LEMMA LeaseSteps ==
    ASSUME ToolsInv, NEW c \in Calls, Acquired(c) \/ Refused(c)
    PROVE  ToolsInv'
<1> DEFINE k == call[c]
<1>0. k \in Record /\ Sane(k) /\ Follows(c, k) /\ ToolTypes /\ LeaseReturned /\ InPlace(k)
    BY DEF ToolsInv, CallOK, Sane
<1>1. CASE Acquired(c)
    <2>1. PICK p \in {"releasing", "probing", "ready"} : p = AfterLease(c)
        BY DEF AfterLease
    <2> DEFINE m == [k EXCEPT !.at = p]
    <2>2. /\ call' = [call EXCEPT ![c] = m] /\ k.at = "acquiring"
          /\ lease' = c /\ UNCHANGED <<generation, page>> /\ (p = "releasing" => k.aborted)
        BY <1>0, <1>1, <2>1 DEF Acquired, ToolTypes, AfterLease
    <2>3. /\ m \in Record /\ m.at = p /\ m.error = k.error /\ m.next = k.next /\ m.kind = k.kind
          /\ m.dispatched = k.dispatched /\ m.aborted = k.aborted /\ m.pressed = k.pressed /\ m.held = k.held
          /\ m.outcome = k.outcome
        BY <1>0 DEF Places, Record
    <2> HIDE DEF m
    <2>4. KnowsDispatched(m) /\ KnowsPressed(m) /\ FailsUntouched(m) /\ ~k.held
        BY <1>0, <2>2, <2>3 DEF Sane, KnowsDispatched, KnowsPressed, FailsUntouched, Careful
    <2>5. Follows(c, m)
        BY <1>0, <2>2, <2>3, <2>4, StaysAtInput DEF Behind
    <2>6. LeaseReturned'
        BY <1>0, <2>2, <2>3 DEF LeaseReturned, ToolTypes
    <2> QED
        BY <1>0, <2>2, <2>3, <2>4, <2>5, <2>6, KeepsPlace, CallStep DEF Sane
<1>2. CASE Refused(c)
    <2>1. PICK m : /\ call' = [call EXCEPT ![c] = m] /\ k.at = "acquiring"
                   /\ \/ ~k.dispatched /\ m = Restarted(k)
                      \/ m = [k EXCEPT !.at = "releasing", !.error = "failed"]
        BY <1>2 DEF Refused, Retries
    <2>2. UNCHANGED <<lease, generation, page>> /\ lease' \in Calls \cup {None}
        BY <1>0, <1>2 DEF Refused, ToolTypes
    <2>3. ~k.held /\ ~k.pressed /\ (Careful(k) => (k.outcome # "failed" \/ k.aborted) /\ ~k.dispatched)
        BY <1>0, <2>1 DEF Sane, KnowsPressed, FailsUntouched
    <2>4. Sane(m) /\ Follows(c, m) /\ m.at # "over"
        <3>1. CASE ~k.dispatched /\ m = Restarted(k)
            <4>1. Sane(m) /\ m.at = "resolving" /\ ~m.dispatched /\ m.next.step = k.next.step
                BY <1>0, <2>1, <2>3, <3>1, RestartedIs
            <4>2. m.next \in Position
                BY <4>1 DEF Sane, Record
            <4>3. \A q \in Inputs(c) : q.input # 0
                BY <1>0, <2>1 DEF Follows, FollowsIn
            <4>4. \A q \in Inputs(c) : q.step < m.next.step
                BY <1>0, <3>1, <4>1 DEF Follows, FollowsIn
            <4> QED
                BY <1>0, <4>1, <4>2, <4>3, <4>4, Later, InputsAre DEF Follows, FollowsIn
        <3>2. CASE m = [k EXCEPT !.at = "releasing", !.error = "failed"]
            <4>1. /\ m \in Record /\ m.at = "releasing" /\ m.error = "failed" /\ m.next = k.next /\ m.kind = k.kind
                  /\ m.dispatched = k.dispatched /\ m.aborted = k.aborted /\ m.pressed = k.pressed /\ m.held = k.held
                  /\ m.outcome = k.outcome
                BY <1>0, <3>2 DEF Record, Places, Outcomes
            <4>2. KnowsDispatched(m) /\ KnowsPressed(m) /\ FailsUntouched(m)
                BY <1>0, <2>1, <2>3, <4>1 DEF Sane, KnowsDispatched, KnowsPressed, FailsUntouched, Careful
            <4>3. Follows(c, m)
                BY <1>0, <2>1, <2>3, <4>1, StaysAtInput DEF Behind
            <4> QED
                BY <1>0, <4>1, <4>2, <4>3, KeepsPlace DEF Sane
        <3> QED
            BY <2>1, <3>1, <3>2
    <2>5. LeaseReturned'
        BY <1>0, <2>1, <2>2, <2>4, LeaseKept DEF ToolTypes
    <2> QED
        BY <2>1, <2>2, <2>4, <2>5, CallStep
<1> QED
    BY <1>1, <1>2

LEMMA ProbeSteps ==
    ASSUME ToolsInv, NEW c \in Calls, Probed(c) \/ Unready(c)
    PROVE  ToolsInv'
<1> DEFINE k == call[c]
<1>0. k \in Record /\ Sane(k) /\ Follows(c, k) /\ ToolTypes /\ LeaseReturned /\ InPlace(k)
    BY DEF ToolsInv, CallOK, Sane
<1>1. UNCHANGED <<lease, generation, page>> /\ lease' \in Calls \cup {None} /\ k.at = "probing"
    BY <1>0 DEF Probed, Unready, ToolTypes
<1>2. PICK m : /\ call' = [call EXCEPT ![c] = m]
               /\ \/ m = [k EXCEPT !.at = "ready"]
                  \/ m = [k EXCEPT !.at = "releasing", !.error = "none"] /\ ~k.dispatched
                  \/ m = [k EXCEPT !.at = "releasing", !.error = "failed"]
    <2>1. CASE Probed(c)
        BY <1>0, <2>1 DEF Probed, ToolTypes
    <2>2. CASE Unready(c)
        BY <2>2 DEF Unready, Retries
    <2> QED
        BY <2>1, <2>2
<1>3. /\ m \in Record /\ m.at \in {"ready", "releasing"} /\ m.next = k.next /\ m.kind = k.kind
      /\ m.at = "releasing" => m.error = "failed" \/ (m.error = "none" /\ ~k.dispatched)
      /\ m.dispatched = k.dispatched /\ m.aborted = k.aborted /\ m.pressed = k.pressed /\ m.held = k.held
      /\ m.outcome = k.outcome
    BY <1>0, <1>2 DEF Record, Places, Outcomes
<1>4. KnowsDispatched(m) /\ KnowsPressed(m) /\ FailsUntouched(m) /\ ~k.held
    BY <1>0, <1>1, <1>3 DEF Sane, KnowsDispatched, KnowsPressed, FailsUntouched, Careful
<1>5. Follows(c, m)
    BY <1>0, <1>1, <1>3, <1>4, StaysAtInput DEF Behind
<1>6. LeaseReturned'
    BY <1>0, <1>1, <1>2, <1>3, LeaseKept DEF ToolTypes
<1> QED
    BY <1>0, <1>1, <1>2, <1>3, <1>4, <1>5, <1>6, KeepsPlace, CallStep DEF Sane

(* An input is answered, or fails, and what it wrote is read back.         *)
LEMMA AnswerSteps ==
    ASSUME ToolsInv, NEW c \in Calls, InputAnswered(c) \/ InputFails(c) \/ Verified(c)
    PROVE  ToolsInv'
<1> DEFINE k == call[c]
<1>0. k \in Record /\ Sane(k) /\ Follows(c, k) /\ ToolTypes /\ LeaseReturned /\ InPlace(k)
    BY DEF ToolsInv, CallOK, Sane
<1>1. /\ UNCHANGED <<lease, generation, page>> /\ lease' \in Calls \cup {None}
      /\ k.at \in {"sent", "verifying"} /\ k.dispatched
    BY <1>0 DEF InputAnswered, InputFails, Verified, ToolTypes, Sane, KnowsDispatched
<1>2. PICK m : /\ call' = [call EXCEPT ![c] = m]
               /\ \/ m = Uncertain(c)
                  \/ k.at = "sent" /\ m = Advanced(k, LegOf(k))
                  \/ \E e \in {"done", "unverified"} : k.at = "verifying" /\ m = [k EXCEPT !.at = "releasing", !.error = e]
    <2>1. CASE InputAnswered(c)
        BY <2>1 DEF InputAnswered, Leg, LegOf
    <2>2. CASE InputFails(c)
        BY <2>2 DEF InputFails
    <2>3. CASE Verified(c) /\ call' # [call EXCEPT ![c] = Uncertain(c)]
        BY ZenonT(60), <1>0, <2>3 DEF Verified, ToolTypes
    <2> QED
        BY <2>1, <2>2, <2>3
<1>3. Sane(m) /\ Follows(c, m) /\ m.at # "over"
    <2>1. CASE m = Uncertain(c)
        <3>1. /\ Sane(m) /\ m.next = k.next /\ m.dispatched = k.dispatched
              /\ m.at \in {"cleanup", "releasing"} /\ m.error \in {"failed", "unknown"}
              /\ m.at = "releasing" => ~m.held
            BY <1>0, <1>1, <2>1, UncertainIs DEF SamePlan
        <3> QED
            BY <1>0, <3>1, StaysAtInput DEF Behind
    <2>2. CASE k.at = "sent" /\ m = Advanced(k, LegOf(k))
        <3>1. /\ Sane(m) /\ m.dispatched /\ k.dispatched
              /\ \/ m.at = "ready" /\ m.next = [k.next EXCEPT !.input = k.next.input + 1]
                 \/ m.at \in {"verifying", "releasing"} /\ m.next = k.next /\ ~m.held
            BY <1>0, <2>2, AdvancedIs
        <3>2. CASE m.at = "ready" /\ m.next = [k.next EXCEPT !.input = k.next.input + 1]
            <4>1. k.next \in Position /\ m.next \in Position
                BY <1>0, <3>1 DEF Sane, Record
            <4>2. m.next.step = k.next.step /\ m.next.leg = k.next.leg /\ m.next.input = k.next.input + 1
                BY <3>2, <4>1 DEF Position
            <4>3. \A p \in Inputs(c) : Before(p, m.next)
                BY <1>0, <4>1, <4>2, Later, InputsAre DEF Follows, FollowsIn
            <4> QED
                BY <1>0, <2>2, <3>1, <3>2, <4>3 DEF Follows, FollowsIn
        <3>3. CASE m.at \in {"verifying", "releasing"} /\ m.next = k.next /\ ~m.held
            BY <1>0, <2>2, <3>1, <3>3, StaysAtInput DEF Behind
        <3> QED
            BY <3>1, <3>2, <3>3
    <2>3. ASSUME NEW e \in {"done", "unverified"}, k.at = "verifying", m = [k EXCEPT !.at = "releasing", !.error = e]
          PROVE  Sane(m) /\ Follows(c, m) /\ m.at # "over"
        <3>1. /\ m \in Record /\ m.at = "releasing" /\ m.error = e /\ m.next = k.next /\ m.kind = k.kind
              /\ m.dispatched = k.dispatched /\ m.aborted = k.aborted /\ m.pressed = k.pressed /\ m.held = k.held
              /\ m.outcome = k.outcome
            BY <1>0, <2>3 DEF Record, Places, Outcomes
        <3>2. KnowsDispatched(m) /\ KnowsPressed(m) /\ FailsUntouched(m) /\ ~k.held
            BY <1>0, <2>3, <3>1 DEF Sane, KnowsDispatched, KnowsPressed, FailsUntouched, Careful
        <3>3. Follows(c, m)
            BY <1>0, <2>3, <3>1, <3>2, StaysAtInput DEF Behind
        <3> QED
            BY <1>0, <3>1, <3>2, <3>3, KeepsPlace DEF Sane
    <2> QED
        BY <1>2, <2>1, <2>2, <2>3
<1>4. LeaseReturned'
    BY <1>0, <1>1, <1>2, <1>3, LeaseKept DEF ToolTypes
<1> QED
    BY <1>1, <1>2, <1>3, <1>4, CallStep

(* The command that lets the button go is answered, or fails.              *)
LEMMA CleanupSteps ==
    ASSUME ToolsInv, NEW c \in Calls, CleanupAnswered(c) \/ CleanupFails(c)
    PROVE  ToolsInv'
<1> DEFINE k == call[c]
<1>0. k \in Record /\ Sane(k) /\ Follows(c, k) /\ ToolTypes /\ LeaseReturned /\ InPlace(k)
    BY DEF ToolsInv, CallOK, Sane
<1>1. /\ UNCHANGED <<lease, generation, page>> /\ lease' \in Calls \cup {None} /\ k.at = "cleanup"
    BY <1>0 DEF CleanupAnswered, CleanupFails, ToolTypes
<1>2. PICK m : /\ call' = [call EXCEPT ![c] = m]
               /\ \/ m = [k EXCEPT !.at = "releasing", !.pressed = FALSE] /\ HasLetGo(c)
                  \/ m = [k EXCEPT !.at = "releasing", !.spoiled = TRUE]
    <2>1. CASE CleanupAnswered(c)
        <3>1. Letting(c).input = 0
            BY <1>0 DEF Letting, Record, Position
        <3>2. HasLetGo(c)
            BY <2>1, <3>1 DEF CleanupAnswered, Saw, HasLetGo, Range
        <3> QED
            BY <1>0, <2>1, <3>2 DEF CleanupAnswered, ToolTypes
    <2>2. CASE CleanupFails(c)
        BY <1>0, <2>2 DEF CleanupFails, ToolTypes
    <2> QED
        BY <2>1, <2>2
<1>3. /\ m \in Record /\ m.at = "releasing" /\ m.error = k.error /\ m.next = k.next /\ m.kind = k.kind
      /\ m.dispatched = k.dispatched /\ m.aborted = k.aborted /\ m.held = k.held /\ m.outcome = k.outcome
      /\ m.pressed => k.pressed
      /\ HasLetGo(c) \/ m.spoiled
    BY <1>0, <1>2 DEF Record, Places
<1>4. KnowsDispatched(m) /\ KnowsPressed(m) /\ FailsUntouched(m)
    BY <1>0, <1>1, <1>3 DEF Sane, KnowsDispatched, KnowsPressed, FailsUntouched, Careful
<1>5. Follows(c, m)
    BY <1>0, <1>1, <1>3, StaysAtInput DEF Behind
<1>6. LeaseReturned'
    BY <1>0, <1>1, <1>2, <1>3, LeaseKept DEF ToolTypes
<1> QED
    BY <1>0, <1>1, <1>2, <1>3, <1>4, <1>5, <1>6, KeepsPlace, CallStep DEF Sane

(* A leg is over, and its lease returned when nothing follows under it.    *)
LEMMA ReleaseStep ==
    ASSUME ToolsInv, NEW c \in Calls, Release(c)
    PROVE  ToolsInv'
<1> DEFINE k == call[c]
           m == Following(k)
<1>0. k \in Record /\ Sane(k) /\ Follows(c, k) /\ ToolTypes /\ LeaseReturned /\ k.at = "releasing"
    BY DEF ToolsInv, CallOK, Sane, Release
<1>1. /\ call' = [call EXCEPT ![c] = m] /\ UNCHANGED <<generation, page>>
      /\ lease' \in {lease, None} /\ (lease = c /\ m.at = "over" => lease' = None)
    BY <1>0 DEF Release, ToolTypes, KeepsLease
<1> HIDE DEF m
<1>2. /\ Sane(m)
      /\ \/ /\ m.at = "acquiring" /\ k.error = "done" /\ m.dispatched = k.dispatched
            /\ m.next = [step |-> k.next.step, leg |-> k.next.leg + 1, input |-> 1]
         \/ m.at = "resolving" /\ k.error = "done" /\ ~m.dispatched /\ m.next.step = k.next.step + 1
         \/ m.at = "resolving" /\ k.error = "none" /\ ~m.dispatched /\ ~k.dispatched /\ m.next.step = k.next.step
         \/ /\ m.at = "over" /\ m.dispatched = k.dispatched /\ m.next = k.next
            /\ m.held = k.held /\ m.spoiled = k.spoiled /\ m.error = k.error
    BY <1>0, FollowingIs DEF m
<1>3. Follows(c, m)
    <2>0. k.next \in Position /\ m.next \in Position /\ Inputs(c) \subseteq Position
        BY <1>0, <1>2, InputsAre DEF Sane, Record
    <2>1. CASE m.at = "acquiring"
        <3>1. k.error = "done" /\ m.next.step = k.next.step /\ m.next.leg = k.next.leg + 1 /\ m.dispatched = k.dispatched
            BY <1>2, <2>1
        <3>2. \A p \in Inputs(c) : Before(p, m.next) /\ p.input # 0
            BY <1>0, <2>0, <3>1, Later DEF Follows, FollowsIn
        <3> QED
            BY <1>0, <2>1, <3>1, <3>2 DEF Follows, FollowsIn
    <2>2. CASE m.at = "resolving"
        <3>1. \A p \in Inputs(c) : p.step < m.next.step /\ p.input # 0
            <4>1. CASE k.error = "done" /\ m.next.step = k.next.step + 1
                BY <1>0, <2>0, <4>1, Later DEF Follows, FollowsIn
            <4>2. CASE k.error = "none" /\ ~k.dispatched /\ m.next.step = k.next.step
                BY <1>0, <4>2 DEF Follows, FollowsIn
            <4> QED
                BY <1>2, <2>2, <4>1, <4>2
        <3> QED
            BY <1>2, <2>0, <2>2, <3>1, Later DEF Follows, FollowsIn
    <2>3. CASE m.at = "over"
        BY <1>0, <1>2, <2>3, StaysAtInput DEF Behind
    <2> QED
        BY <1>2, <2>1, <2>2, <2>3
<1>4. LeaseReturned'
    <2>1. \A d \in Calls \ {c} : call'[d] = call[d]
        BY <1>0, <1>1 DEF ToolTypes
    <2>2. call'[c] = m
        BY <1>0, <1>1 DEF ToolTypes
    <2> QED
        BY <1>0, <1>1, <2>1, <2>2, ToolAssumption DEF LeaseReturned
<1> QED
    BY <1>0, <1>1, <1>2, <1>3, <1>4, CallStep DEF ToolTypes

(* The lease goes early, or the target is renewed.                         *)
LEMMA LosesLease ==
    ASSUME ToolsInv, UNCHANGED <<call, page>>, lease' = None, generation' \in Generations
    PROVE  ToolsInv'
<1>1. ToolTypes' /\ LeaseReturned'
    BY ToolAssumption DEF ToolsInv, ToolTypes, LeaseReturned, page
<1>2. ASSUME NEW c \in Calls PROVE CallOK(c)'
    BY DEF ToolsInv, CallOK, Follows, FollowsIn, InOrder, LettingIsLast, HasLetGo, Inputs, Flying, page
<1> QED
    BY <1>1, <1>2 DEF ToolsInv

-----------------------------------------------------------------------------
(* Steps of the page                                                       *)

(* A command of call c is sent.                                            *)
LEMMA Sent ==
    ASSUME flights \in Seq(Flight), NEW c \in Calls, NEW n \in Position,
           flights' = Append(flights, [call |-> c, at |-> n]), reached' = reached
    PROVE  /\ flights' \in Seq(Flight)
           /\ DOMAIN flights = 1 .. Len(flights) /\ DOMAIN flights' = 1 .. Len(flights) + 1 /\ Len(flights) \in Nat
           /\ \A i \in DOMAIN flights : flights'[i] = flights[i]
           /\ flights'[Len(flights) + 1] = [call |-> c, at |-> n]
           /\ Flying(c)' = Flying(c) \cup {Len(flights) + 1} /\ Inputs(c)' = Inputs(c) \cup {n}
           /\ \A d \in Calls \ {c} : Flying(d)' = Flying(d) /\ Inputs(d)' = Inputs(d)
           /\ \A d \in Calls : HasLetGo(d)' = HasLetGo(d)
<1>1. [call |-> c, at |-> n] \in Flight
    BY DEF Flight
<1>2. /\ flights' \in Seq(Flight)
      /\ DOMAIN flights = 1 .. Len(flights) /\ DOMAIN flights' = 1 .. Len(flights) + 1 /\ Len(flights) \in Nat
      /\ \A i \in DOMAIN flights : flights'[i] = flights[i]
      /\ flights'[Len(flights) + 1] = [call |-> c, at |-> n]
    BY <1>1
<1>3. DOMAIN flights' = DOMAIN flights \cup {Len(flights) + 1}
    BY <1>2
<1>4. /\ Flying(c)' = Flying(c) \cup {Len(flights) + 1}
      /\ \A d \in Calls \ {c} : Flying(d)' = Flying(d)
    BY <1>2, <1>3 DEF Flying
<1>5. Inputs(c)' = Inputs(c) \cup {n}
    <2>1. Flying(c) \subseteq DOMAIN flights
        BY DEF Flying
    <2> QED
        BY <1>2, <1>4, <2>1 DEF Inputs
<1>6. ASSUME NEW d \in Calls \ {c} PROVE Inputs(d)' = Inputs(d)
    <2>1. Flying(d) \subseteq DOMAIN flights
        BY DEF Flying
    <2> QED
        BY <1>2, <1>4, <2>1 DEF Inputs
<1> QED
    BY <1>2, <1>4, <1>5, <1>6 DEF HasLetGo

LEMMA SendsStep ==
    ASSUME ToolsInv, NEW c \in Calls, NEW n \in Position, NEW m,
           flights' = Append(flights, [call |-> c, at |-> n]), UNCHANGED <<reached, button, lease, generation>>,
           call' = [call EXCEPT ![c] = m], Sane(m), m.at # "over",
           ~HasLetGo(c), \A p \in Inputs(c) : p.input # 0,
           n.input # 0 => \A p \in Inputs(c) : Before(p, n),
           FollowsIn(Inputs(c) \cup {n}, FALSE, m)
    PROVE  ToolsInv'
<1>0. /\ call \in [Calls -> Record] /\ flights \in Seq(Flight) /\ ToolTypes /\ LeaseReturned
      /\ \A d \in Calls : CallOK(d)
    BY DEF ToolsInv, ToolTypes
<1>1. call' \in [Calls -> Record] /\ call'[c] = m /\ \A d \in Calls \ {c} : call'[d] = call[d]
    BY <1>0 DEF Sane
<1> DEFINE z == Len(flights) + 1
<1>2. /\ flights' \in Seq(Flight) /\ DOMAIN flights = 1 .. Len(flights) /\ Len(flights) \in Nat
      /\ \A i \in DOMAIN flights : flights'[i] = flights[i]
      /\ flights'[z] = [call |-> c, at |-> n]
      /\ Flying(c)' = Flying(c) \cup {z} /\ Inputs(c)' = Inputs(c) \cup {n}
      /\ \A d \in Calls \ {c} : Flying(d)' = Flying(d) /\ Inputs(d)' = Inputs(d)
      /\ \A d \in Calls : HasLetGo(d)' <=> HasLetGo(d)
    BY <1>0, Sent
<1>3. \A d \in Calls : Flying(d) \subseteq DOMAIN flights
    BY DEF Flying
<1>4. ASSUME NEW d \in Calls \ {c} PROVE CallOK(d)'
    <2>0. CallOK(d) /\ call'[d] = call[d] /\ reached' = reached /\ button' = button
        BY <1>0, <1>1
    <2>1. Inputs(d)' = Inputs(d) /\ Flying(d)' = Flying(d) /\ (HasLetGo(d)' <=> HasLetGo(d))
        BY <1>2
    <2>2. Sane(call[d])' /\ Follows(d, call[d])'
        BY <2>0, <2>1 DEF CallOK, Follows, FollowsIn
    <2>3. \A i \in Flying(d) : flights'[i] = flights[i]
        BY <1>2, <1>3
    <2>4. InOrder(d)'
        BY <2>0, <2>1, <2>3 DEF CallOK, InOrder
    <2>5. LettingIsLast(d)'
        BY <2>0, <2>1, <2>3 DEF CallOK, LettingIsLast
    <2> QED
        BY <2>2, <2>4, <2>5 DEF CallOK
<1>5. CallOK(c)'
    <2>0. CallOK(c) /\ reached' = reached /\ Flying(c)' = Flying(c) \cup {z} /\ ~HasLetGo(c)'
        BY <1>0, <1>2
    <2>1. /\ \A i \in Flying(c) : i \in Nat /\ i < z /\ flights'[i] = flights[i] /\ flights[i].at \in Inputs(c)
          /\ \A i \in DOMAIN reached[c] : reached[c][i] \in Inputs(c)
          /\ z \in Nat
        <3>1. \A i \in Flying(c) : flights[i].at \in Inputs(c)
            BY DEF Inputs
        <3>2. \A i \in DOMAIN reached[c] : reached[c][i] \in Inputs(c)
            BY DEF Inputs
        <3>3. \A i \in 1 .. Len(flights) : i \in Nat /\ i < z
            BY <1>2
        <3> QED
            BY <1>2, <1>3, <3>1, <3>2, <3>3
    <2>2. flights'[z].at = n
        BY <1>2
    <2> HIDE DEF z
    <2>3. InOrder(c)'
        <3>1. \A i, j \in DOMAIN reached'[c] :
                 i < j /\ reached'[c][j].input # 0 => Before(reached'[c][i], reached'[c][j])
            BY <2>0 DEF CallOK, InOrder
        <3>2. ASSUME NEW i \in Flying(c) \cup {z}, NEW j \in Flying(c) \cup {z}, i < j, flights'[j].at.input # 0
              PROVE  Before(flights'[i].at, flights'[j].at)
            <4>1. i \in Flying(c)
                BY <2>1, <3>2
            <4>2. CASE j \in Flying(c)
                BY <2>0, <2>1, <3>2, <4>1, <4>2 DEF CallOK, InOrder
            <4>3. CASE j = z
                BY <2>1, <2>2, <3>2, <4>1, <4>3
            <4> QED
                BY <4>2, <4>3
        <3>3. ASSUME NEW i \in DOMAIN reached[c], NEW j \in Flying(c) \cup {z}, flights'[j].at.input # 0
              PROVE  Before(reached[c][i], flights'[j].at)
            <4>1. CASE j \in Flying(c)
                BY <2>0, <2>1, <3>3, <4>1 DEF CallOK, InOrder
            <4>2. CASE j = z
                BY <2>1, <2>2, <3>3, <4>2
            <4> QED
                BY <4>1, <4>2
        <3> QED
            BY <2>0, <3>1, <3>2, <3>3 DEF InOrder
    <2>4. LettingIsLast(c)'
        <3>1. ASSUME NEW i \in Flying(c) \cup {z}, NEW j \in Flying(c) \cup {z}, flights'[i].at.input = 0
              PROVE  j =< i
            <4>1. i = z
                BY <2>1, <3>1
            <4> QED
                BY <2>1, <4>1
        <3> QED
            BY <2>0, <3>1 DEF LettingIsLast
    <2>5. Sane(call[c])' /\ Follows(c, call[c])'
        BY <1>1, <1>2, <2>0 DEF Follows, FollowsIn
    <2> QED
        BY <2>3, <2>4, <2>5 DEF CallOK
<1>6. LeaseReturned'
    BY <1>0, <1>1, LeaseKept
<1>7. ToolTypes'
    BY <1>0, <1>1, <1>2 DEF ToolTypes
<1> QED
    BY <1>4, <1>5, <1>6, <1>7 DEF ToolsInv

LEMMA SendStep ==
    ASSUME ToolsInv, NEW c \in Calls, Send(c)
    PROVE  ToolsInv'
<1> DEFINE k == call[c]
<1>0. k \in Record /\ Sane(k) /\ Follows(c, k) /\ ToolTypes /\ LeaseReturned /\ InPlace(k) /\ k.at = "ready"
    BY DEF ToolsInv, CallOK, Sane, Send
<1>1. UNCHANGED <<lease, generation, reached, button>> /\ lease' \in Calls \cup {None}
    BY <1>0 DEF Send, ToolTypes
<1>2. CASE ~k.aborted /\ Current(c)
    <2> DEFINE m == [k EXCEPT !.at = "sent", !.dispatched = TRUE]
               n == k.next
    <2>1. /\ call' = [call EXCEPT ![c] = m]
          /\ flights' = Append(flights, [call |-> c, at |-> n])
        BY <1>0, <1>2 DEF Send, Sendable, ToolTypes
    <2>2. /\ m \in Record /\ m.at = "sent" /\ m.error = k.error /\ m.next = k.next /\ m.kind = k.kind
          /\ m.dispatched /\ m.aborted = k.aborted /\ m.held = k.held /\ m.outcome = k.outcome
          /\ m.pressed = k.pressed
        BY <1>0 DEF Record, Places
    <2> HIDE DEF m
    <2>3. n \in Position /\ n.input # 0
        <3>1. \A b \in 1 .. 4 : \A a \in 1 .. b : a # 0
            OBVIOUS
        <3>2. LegOK(LegOf(k)) /\ n.input \in DOMAIN LegOf(k).inputs
            BY <1>0, LegsAre DEF InPlace, LegOf
        <3> QED
            BY <1>0, <3>1, <3>2 DEF Record, LegOK
    <2>4. InPlace(m) /\ LegOf(m) = LegOf(k)
        BY <1>0, <2>2, KeepsPlace
    <2>5. KnowsDispatched(m) /\ KnowsPressed(m) /\ FailsUntouched(m)
        BY <1>0, <1>2, <2>2, <2>4 DEF Sane, KnowsDispatched, KnowsPressed, FailsUntouched, Careful
    <2>6. (\A p \in Inputs(c) : p.input # 0) /\ (\A p \in Inputs(c) : Before(p, n))
        BY <1>0 DEF Follows, FollowsIn, Behind
    <2>7. ~HasLetGo(c)
        BY <2>6 DEF HasLetGo, Inputs
    <2>8. FollowsIn(Inputs(c) \cup {n}, FALSE, m)
        BY <2>2, <2>3, <2>6 DEF FollowsIn, Behind
    <2> QED
        BY <1>1, <2>1, <2>2, <2>3, <2>4, <2>5, <2>6, <2>7, <2>8, SendsStep DEF Sane
<1>3. CASE ~(~k.aborted /\ Current(c))
    <2> DEFINE u == Uncertain(c)
    <2>1. PICK m : /\ call' = [call EXCEPT ![c] = m]
                   /\ (m = u /\ k.aborted) \/ (m = [u EXCEPT !.dispatched = TRUE] /\ ~k.aborted)
        BY <1>0, <1>3 DEF Send, Sendable, ToolTypes
    <2>2. UNCHANGED page
        BY <1>3 DEF Send, Sendable, page
    <2>3. /\ u \in Record /\ u.next = k.next /\ u.kind = k.kind /\ u.dispatched = k.dispatched
          /\ u.at = (IF k.pressed THEN "cleanup" ELSE "releasing") /\ u.error = InputError(c)
          /\ u.pressed = k.pressed /\ u.held = k.held /\ u.outcome = k.outcome /\ u.aborted = k.aborted
        BY <1>0 DEF Uncertain, Record, Places, Outcomes, InputError
    <2>4. InputError(c) \in {"failed", "unknown"} /\ (Careful(k) => InputError(c) = "unknown")
        <3>1. Careful(k) => Leg(c).wrapped
            <4>1. \A a \in 1 .. 1 : a = 1
                OBVIOUS
            <4> QED
                BY <1>0, <4>1, LegsAre DEF InPlace, Leg
        <3> QED
            BY <3>1 DEF InputError
    <2> HIDE DEF u
    <2>5. /\ m \in Record /\ m.next = k.next /\ m.kind = k.kind
          /\ m.dispatched = k.dispatched \/ (m.dispatched = TRUE /\ ~k.aborted)
          /\ k.aborted \/ m.dispatched
          /\ m.at = (IF k.pressed THEN "cleanup" ELSE "releasing") /\ m.error = InputError(c)
          /\ m.pressed = k.pressed /\ m.held = k.held /\ m.outcome = k.outcome /\ m.aborted = k.aborted
        BY <2>1, <2>3 DEF Record
    <2>6. KnowsDispatched(m) /\ KnowsPressed(m) /\ (m.at = "releasing" => ~m.held)
        BY <1>0, <2>4, <2>5 DEF Sane, KnowsDispatched, KnowsPressed
    <2>7. FailsUntouched(m)
        <3>1. Careful(m) /\ m.outcome = "failed" => k.aborted /\ ~k.dispatched
            BY <1>0, <2>5 DEF Sane, FailsUntouched, Careful
        <3>2. Careful(m) => m.error = "unknown" /\ m.at \in {"cleanup", "releasing"}
            BY <2>4, <2>5 DEF Careful
        <3> QED
            BY <2>5, <3>1, <3>2 DEF FailsUntouched
    <2>8. Follows(c, m)
        BY <1>0, <2>4, <2>5, <2>6, StaysAtInput DEF Behind
    <2>9. LeaseReturned'
        BY <1>0, <1>1, <2>1, <2>5, LeaseKept DEF ToolTypes
    <2> QED
        BY <1>0, <1>1, <2>1, <2>2, <2>5, <2>6, <2>7, <2>8, <2>9, KeepsPlace, CallStep DEF Sane
<1> QED
    BY <1>2, <1>3

(* The command that lets the button go is sent.                            *)
LEMMA CleanupStep ==
    ASSUME ToolsInv, NEW c \in Calls, Cleanup(c)
    PROVE  ToolsInv'
<1> DEFINE k == call[c]
           n == Letting(c)
<1>0. k \in Record /\ Sane(k) /\ Follows(c, k) /\ ToolTypes /\ k.at = "cleanup"
    BY DEF ToolsInv, CallOK, Sane, Cleanup
<1>1. /\ flights' = Append(flights, [call |-> c, at |-> n])
      /\ UNCHANGED <<call, reached, button, lease, generation>>
    BY DEF Cleanup
<1>2. n = [k.next EXCEPT !.input = 0] /\ n \in Position /\ n.input = 0 /\ n.step = k.next.step /\ n.leg = k.next.leg
    <2>1. ASSUME NEW S, NEW L, NEW I, k.next \in [step : S, leg : L, input : I], 0 \in I,
                 NEW q, q = [k.next EXCEPT !.input = 0]
          PROVE  /\ q \in [step : S, leg : L, input : I] /\ q.input = 0
                 /\ q.step = k.next.step /\ q.leg = k.next.leg
        BY <2>1
    <2>2. 0 \in 0 .. 4 /\ k.next \in Position
        BY <1>0 DEF Record
    <2> QED
        BY <2>1, <2>2 DEF Letting, Position
<1>3. n \notin Inputs(c)
    <2>1. \A i \in DOMAIN reached[c] : reached[c][i] # n
        BY DEF Cleanup, Saw, Range
    <2>2. ASSUME NEW i \in Flying(c) PROVE flights[i].at # n
        <3>1. flights[i] \in Flight /\ flights[i].call = c /\ i \in DOMAIN flights
            BY <1>0 DEF Flying, ToolTypes
        <3>2. flights[i] = [call |-> c, at |-> flights[i].at]
            BY <3>1 DEF Flight
        <3> QED
            BY <3>1, <3>2 DEF Cleanup, Underway
    <2> QED
        BY <2>1, <2>2 DEF Inputs
<1>4. \A p \in Inputs(c) : p.input # 0
    BY <1>0, <1>2, <1>3 DEF Follows, FollowsIn
<1>5. ~HasLetGo(c)
    BY <1>4 DEF HasLetGo, Inputs
<1>6. FollowsIn(Inputs(c) \cup {n}, FALSE, k)
    <2>1. k.next.input # 0 /\ k.next.input \in Nat /\ k.next \in Position
        <3>1. \A b \in 1 .. 4 : \A a \in 1 .. b : a # 0 /\ a \in Nat
            OBVIOUS
        <3>2. LegOK(LegOf(k)) /\ k.next.input \in DOMAIN LegOf(k).inputs
            BY <1>0, LegsAre DEF Sane, InPlace, LegOf
        <3> QED
            BY <1>0, <3>1, <3>2 DEF Record, LegOK
    <2>2. Before(n, k.next)
        BY <1>2, <2>1 DEF Before
    <2>3. k.dispatched /\ k.error \in {"failed", "unknown"}
        BY <1>0 DEF Sane, KnowsDispatched, KnowsPressed
    <2> QED
        BY <1>0, <1>2, <1>4, <2>2, <2>3 DEF Follows, FollowsIn
<1>7. call' = [call EXCEPT ![c] = k] /\ k.at # "over"
    BY <1>0, <1>1 DEF ToolTypes
<1> QED
    BY <1>0, <1>1, <1>2, <1>4, <1>5, <1>6, <1>7, SendsStep

(* The oldest command is performed, or lost.                               *)
LEMMA Taken ==
    ASSUME flights \in Seq(Flight), flights # <<>>, flights' = Tail(flights)
    PROVE  /\ flights' \in Seq(Flight) /\ Head(flights) = flights[1] /\ flights[1] \in Flight
           /\ 1 \in DOMAIN flights /\ DOMAIN flights \subseteq Nat /\ \A i \in DOMAIN flights : 1 =< i
           /\ \A i \in DOMAIN flights' : i + 1 \in DOMAIN flights /\ flights'[i] = flights[i + 1] /\ i \in Nat
           /\ \A d \in Calls : \A i \in Flying(d)' : i + 1 \in Flying(d) /\ flights'[i] = flights[i + 1] /\ i \in Nat /\ i # 0
<1>1. /\ flights' \in Seq(Flight) /\ Head(flights) = flights[1] /\ Len(flights) \in Nat /\ Len(flights) > 0
      /\ Len(flights') = Len(flights) - 1 /\ DOMAIN flights = 1 .. Len(flights) /\ DOMAIN flights' = 1 .. Len(flights')
    OBVIOUS
<1>2. 1 \in DOMAIN flights /\ DOMAIN flights \subseteq Nat /\ \A i \in DOMAIN flights : 1 =< i
    BY <1>1
<1>3. flights[1] \in Flight
    BY <1>2
<1>4. ASSUME NEW i \in DOMAIN flights' PROVE i + 1 \in DOMAIN flights /\ flights'[i] = flights[i + 1] /\ i \in Nat /\ i # 0
    <2>1. i \in 1 .. Len(flights) - 1
        BY <1>1
    <2> QED
        BY <1>1, <2>1
<1>5. \A d \in Calls : Flying(d)' \subseteq DOMAIN flights'
    BY DEF Flying
<1>6. ASSUME NEW d \in Calls, NEW i \in Flying(d)' PROVE i + 1 \in Flying(d)
    BY <1>4, <1>5 DEF Flying
<1> QED
    BY <1>1, <1>2, <1>3, <1>4, <1>5, <1>6

(* With fewer inputs still to come, and more known to be let go            *)
LEMMA FollowsStill ==
    ASSUME NEW inputs, NEW fewer, fewer \subseteq inputs, NEW gone, NEW now, gone => now,
           NEW k, FollowsIn(inputs, gone, k)
    PROVE  FollowsIn(fewer, now, k)
BY DEF FollowsIn

(* What remains of the commands of a call is in order as it was.           *)
LEMMA InOrderStill ==
    ASSUME ToolTypes, NEW d \in Calls, CallOK(d), flights # <<>>, flights' = Tail(flights),
           call'[d] = call[d], reached'[d] = reached[d], HasLetGo(d) => button' # d
    PROVE  CallOK(d)'
<1>1. \A i \in Flying(d)' : i + 1 \in Flying(d) /\ flights'[i] = flights[i + 1] /\ i \in Nat /\ i # 0
    BY Taken DEF ToolTypes
<1>2. HasLetGo(d)' <=> HasLetGo(d)
    BY DEF HasLetGo
<1>3. Inputs(d)' \subseteq Inputs(d)
    BY ZenonT(60), <1>1 DEF Inputs
<1>4. Sane(call[d])' /\ Follows(d, call[d])'
    <2>1. FollowsIn(Inputs(d)', HasLetGo(d)', call[d])
        BY <1>2, <1>3 DEF CallOK, Follows, FollowsIn
    <2>2. FollowsIn(Inputs(d), HasLetGo(d), call[d])'
        BY <2>1 DEF FollowsIn
    <2> QED
        BY <2>2 DEF CallOK, Follows
<1>5. InOrder(d)'
    <2>1. \A i, j \in DOMAIN reached'[d] :
             i < j /\ reached'[d][j].input # 0 => Before(reached'[d][i], reached'[d][j])
        BY DEF CallOK, InOrder
    <2>2. ASSUME NEW i \in Flying(d)', NEW j \in Flying(d)', i < j, flights'[j].at.input # 0
          PROVE  Before(flights'[i].at, flights'[j].at)
        <3>1. i + 1 < j + 1
            BY <1>1, <2>2
        <3> QED
            BY <1>1, <2>2, <3>1 DEF CallOK, InOrder
    <2>3. ASSUME NEW i \in DOMAIN reached'[d], NEW j \in Flying(d)', flights'[j].at.input # 0
          PROVE  Before(reached'[d][i], flights'[j].at)
        BY <1>1, <2>3 DEF CallOK, InOrder
    <2> QED
        BY <2>1, <2>2, <2>3 DEF InOrder
<1>6. LettingIsLast(d)'
    <2>1. ASSUME NEW i \in Flying(d)', NEW j \in Flying(d)', flights'[i].at.input = 0
          PROVE  j =< i
        <3>1. j + 1 =< i + 1
            BY <1>1, <2>1 DEF CallOK, LettingIsLast
        <3> QED
            BY <1>1, <3>1
    <2>2. HasLetGo(d)' => Flying(d)' = {} /\ button' # d
        BY <1>1, <1>2 DEF CallOK, LettingIsLast
    <2> QED
        BY <2>1, <2>2 DEF LettingIsLast
<1> QED
    BY <1>4, <1>5, <1>6 DEF CallOK

LEMMA LoseStep ==
    ASSUME ToolsInv, Lose
    PROVE  ToolsInv'
<1>1. /\ flights # <<>> /\ flights' = Tail(flights)
      /\ UNCHANGED <<call, lease, generation, reached, button>>
    BY DEF Lose
<1>2. ToolTypes /\ LeaseReturned /\ \A d \in Calls : CallOK(d)
    BY DEF ToolsInv
<1>3. ToolTypes'
    BY <1>1, <1>2, Taken DEF ToolTypes
<1>4. ASSUME NEW d \in Calls PROVE CallOK(d)'
    <2>1. HasLetGo(d) => button # d
        BY <1>2 DEF CallOK, LettingIsLast
    <2> QED
        BY <1>1, <1>2, <2>1, InOrderStill
<1> QED
    BY <1>1, <1>2, <1>3, <1>4 DEF ToolsInv, LeaseReturned

LEMMA PerformStep ==
    ASSUME ToolsInv, Perform
    PROVE  ToolsInv'
<1>0. ToolTypes /\ LeaseReturned /\ \A d \in Calls : CallOK(d)
    BY DEF ToolsInv
<1>f. PICK f \in Flight : f = flights[1]
    BY <1>0, Taken DEF Perform, ToolTypes
<1> DEFINE c == f.call
           seen == reached[c]
<1>1. /\ flights # <<>> /\ flights' = Tail(flights) /\ Head(flights) = f
      /\ UNCHANGED <<call, lease, generation>>
      /\ reached' = [reached EXCEPT ![c] = Append(seen, f.at)] /\ button' = Held(f)
    BY <1>0, <1>f, Taken DEF Perform, ToolTypes
<1>2. f \in Flight /\ c \in Calls /\ f.at \in Position /\ 1 \in Flying(c) /\ flights' \in Seq(Flight)
      /\ \A i \in Flying(c)' : i + 1 \in Flying(c) /\ flights'[i] = flights[i + 1] /\ i \in Nat /\ i # 0
    <2>1. f \in Flight /\ 1 \in DOMAIN flights /\ flights' \in Seq(Flight)
        BY <1>0, <1>1, <1>f, Taken DEF ToolTypes
    <2>2. c \in Calls
        BY <2>1 DEF Flight
    <2> QED
        BY <1>0, <1>1, <1>f, <2>1, <2>2, Taken DEF ToolTypes, Flight, Flying
<1> HIDE DEF c
<1>3. /\ seen \in Seq(Position) /\ reached' \in [Calls -> Seq(Position)]
      /\ reached'[c] = Append(seen, f.at) /\ \A d \in Calls \ {c} : reached'[d] = reached[d]
    BY <1>0, <1>1, <1>2 DEF ToolTypes
<1>4. button' \in {c, None, button} /\ (f.at.input = 0 => button' = None)
    BY <1>1 DEF Held, c
<1>5. ASSUME NEW d \in Calls \ {c} PROVE CallOK(d)'
    <2>1. HasLetGo(d) => button' # d
        BY <1>0, <1>4, ToolAssumption DEF CallOK, LettingIsLast
    <2> QED
        BY <1>0, <1>1, <1>3, <2>1, InOrderStill
<1>6. CallOK(c)'
    <2> DEFINE z == Len(seen) + 1
    <2>0. CallOK(c) /\ call' = call
        BY <1>0, <1>1, <1>2
    <2>1. /\ DOMAIN reached'[c] = DOMAIN seen \cup {z} /\ reached'[c][z] = f.at
          /\ \A i \in DOMAIN seen : reached'[c][i] = seen[i] /\ i < z /\ i \in Nat
          /\ z \in Nat
        BY <1>3
    <2> HIDE DEF z
    <2>2. ~HasLetGo(c)
        BY <1>2, <2>0 DEF CallOK, LettingIsLast
    <2>3. HasLetGo(c)' <=> f.at.input = 0
        BY <2>1, <2>2 DEF HasLetGo
    <2>4. Inputs(c)' \subseteq Inputs(c)
        <3>1. f.at \in Inputs(c)
            BY <1>f, <1>2 DEF Inputs
        <3>2. \A i \in DOMAIN reached'[c] : reached'[c][i] \in Inputs(c)
            BY <2>1, <3>1 DEF Inputs
        <3>3. \A i \in Flying(c)' : flights'[i].at \in Inputs(c)
            BY <1>2 DEF Inputs
        <3> QED
            BY <3>2, <3>3 DEF Inputs
    <2>5. Sane(call[c])' /\ Follows(c, call[c])'
        <3>1. FollowsIn(Inputs(c)', HasLetGo(c)', call[c])
            BY <2>0, <2>2, <2>4 DEF CallOK, Follows, FollowsIn
        <3>2. Sane(call'[c]) /\ FollowsIn(Inputs(c)', HasLetGo(c)', call'[c])
            BY <2>0, <3>1 DEF CallOK
        <3> QED
            BY <3>2 DEF Follows
    <2>6. InOrder(c)'
        <3>1. ASSUME NEW i \in DOMAIN reached'[c], NEW j \in DOMAIN reached'[c], i < j, reached'[c][j].input # 0
              PROVE  Before(reached'[c][i], reached'[c][j])
            <4>1. i \in DOMAIN seen
                BY <2>1, <3>1
            <4>2. CASE j \in DOMAIN seen
                BY <2>0, <2>1, <3>1, <4>1, <4>2 DEF CallOK, InOrder
            <4>3. CASE j = z
                BY <1>f, <1>2, <2>0, <2>1, <3>1, <4>1, <4>3 DEF CallOK, InOrder
            <4> QED
                BY <2>1, <4>2, <4>3
        <3>2. ASSUME NEW i \in Flying(c)', NEW j \in Flying(c)', i < j, flights'[j].at.input # 0
              PROVE  Before(flights'[i].at, flights'[j].at)
            <4>1. i + 1 < j + 1
                BY <1>2, <3>2
            <4> QED
                BY <1>2, <2>0, <3>2, <4>1 DEF CallOK, InOrder
        <3>3. ASSUME NEW i \in DOMAIN reached'[c], NEW j \in Flying(c)', flights'[j].at.input # 0
              PROVE  Before(reached'[c][i], flights'[j].at)
            <4>1. CASE i \in DOMAIN seen
                BY <1>2, <2>0, <2>1, <3>3, <4>1 DEF CallOK, InOrder
            <4>2. CASE i = z
                <5>1. 1 < j + 1
                    BY <1>2, <3>3
                <5> QED
                    BY <1>f, <1>2, <2>0, <2>1, <3>3, <4>2, <5>1 DEF CallOK, InOrder
            <4> QED
                BY <2>1, <4>1, <4>2
        <3> QED
            BY <3>1, <3>2, <3>3 DEF InOrder
    <2>7. LettingIsLast(c)'
        <3>1. ASSUME NEW i \in Flying(c)', NEW j \in Flying(c)', flights'[i].at.input = 0
              PROVE  j =< i
            <4>1. j + 1 =< i + 1
                BY <1>2, <2>0, <3>1 DEF CallOK, LettingIsLast
            <4> QED
                BY <1>2, <3>1, <4>1
        <3>2. ASSUME f.at.input = 0 PROVE Flying(c)' = {} /\ button' # c
            <4>1. \A j \in Flying(c) : j =< 1
                BY <1>f, <1>2, <2>0, <3>2 DEF CallOK, LettingIsLast
            <4>2. \A i \in Flying(c)' : i + 1 =< 1 /\ i \in Nat /\ i # 0
                BY <1>2, <4>1
            <4>3. Flying(c)' = {}
                BY <4>2
            <4> QED
                BY <1>2, <1>4, <3>2, <4>3, ToolAssumption
        <3> QED
            BY <2>3, <3>1, <3>2 DEF LettingIsLast
    <2> QED
        BY <2>5, <2>6, <2>7 DEF CallOK
<1>7. ToolTypes' /\ LeaseReturned'
    BY <1>0, <1>1, <1>2, <1>3 DEF ToolTypes, LeaseReturned
<1> QED
    BY <1>5, <1>6, <1>7 DEF ToolsInv

LEMMA ToolsStep == ToolsInv /\ [Next]_vars => ToolsInv'
<1> SUFFICES ASSUME ToolsInv, [Next]_vars PROVE ToolsInv'
    OBVIOUS
<1>1. ASSUME NEW c \in Calls,
             \/ Invoke(c) \/ Abort(c) \/ Resolved(c) \/ Unresolved(c) \/ Acquired(c) \/ Refused(c)
             \/ Probed(c) \/ Unready(c) \/ Send(c) \/ InputAnswered(c) \/ InputFails(c) \/ Verified(c)
             \/ Cleanup(c) \/ CleanupAnswered(c) \/ CleanupFails(c) \/ Release(c)
      PROVE  ToolsInv'
    BY <1>1, BeginSteps, LeaseSteps, ProbeSteps, SendStep, AnswerSteps, CleanupStep, CleanupSteps, ReleaseStep
<1>2. generation \in Generations
    BY DEF ToolsInv, ToolTypes
<1>3. ASSUME NEW c \in Calls, BatchReturns(c) PROVE ToolsInv'
    BY <1>2, <1>3, LosesLease DEF BatchReturns
<1>4. CASE Renew
    <2>1. generation' \in Generations
        BY <1>2, <1>4, ToolAssumption DEF Renew, Generations
    <2> QED
        BY <1>4, <2>1, LosesLease DEF Renew
<1>5. CASE DropLease
    BY <1>2, <1>5, LosesLease DEF DropLease
<1>6. CASE UNCHANGED vars
    <2>1. UNCHANGED <<call, lease, generation, flights, reached, button>>
        BY <1>6 DEF vars
    <2>2. ToolTypes' /\ LeaseReturned'
        BY <2>1 DEF ToolsInv, ToolTypes, LeaseReturned
    <2>3. ASSUME NEW c \in Calls PROVE CallOK(c)'
        BY <2>1 DEF ToolsInv, CallOK, Follows, FollowsIn, InOrder, LettingIsLast, HasLetGo, Inputs, Flying
    <2> QED
        BY <2>2, <2>3 DEF ToolsInv
<1> QED
    BY <1>1, <1>3, <1>4, <1>5, <1>6, PerformStep, LoseStep DEF Next

LEMMA ToolsAlways == Spec => []ToolsInv
BY ToolsInitially, ToolsStep, PTL DEF Spec

-----------------------------------------------------------------------------
(* What is promised                                                        *)

(* A call that is over holds no lease, whichever attempt took it, whether  *)
(* it was aborted and when, and however often leases end early.            *)
THEOREM LeasesComeBack == Spec => []LeaseReturned
<1>1. ToolsInv => LeaseReturned
    BY DEF ToolsInv
<1> QED
    BY <1>1, ToolsAlways, PTL

(* No input is repeated, and the inputs of a tool reach the page in the    *)
(* order it sends them, whatever is retried, aborted or lost in between.   *)
THEOREM InputsAreOrdered == Spec => []NeverReplayed
<1>1. ToolsInv => NeverReplayed
    BY DEF ToolsInv, CallOK, InOrder, NeverReplayed
<1> QED
    BY <1>1, ToolsAlways, PTL

(* A call that is answered with a plain failure has done nothing to the    *)
(* page in the step that failed, and has nothing on its way to it.         *)
THEOREM FailureMeansUntouched == Spec => []RetryableIsUntouched
<1>1. ASSUME ToolsInv, NEW c \in Calls, call[c].kind # "select", ~Pointed(c), call[c].outcome = "failed"
      PROVE  Untouched(c)
    <2>1. ~call[c].dispatched
        BY <1>1 DEF ToolsInv, CallOK, Sane, FailsUntouched, Careful, Pointed
    <2>2. \A p \in Inputs(c) : p.step < call[c].next.step
        BY <1>1, <2>1 DEF ToolsInv, CallOK, Follows, FollowsIn
    <2> QED
        BY <2>2 DEF Inputs, Flying, Untouched, Range
<1>2. ToolsInv => RetryableIsUntouched
    BY <1>1 DEF RetryableIsUntouched
<1> QED
    BY <1>2, ToolsAlways, PTL

(* An action that is over has let go of the button or key whose press it   *)
(* was told of, unless the command that lets it go failed.                 *)
THEOREM ButtonsAreLetGo == Spec => []ButtonLetGo
<1>1. ToolsInv => ButtonLetGo
    BY DEF ToolsInv, CallOK, Follows, FollowsIn, LettingIsLast, ButtonLetGo
<1> QED
    BY <1>1, ToolsAlways, PTL
=============================================================================
