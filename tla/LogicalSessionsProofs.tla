------------------------ MODULE LogicalSessionsProofs ------------------------
(***************************************************************************)
(* What LogicalSessions guarantees for any connections, bindings and       *)
(* timing, while the store answers its calls in order: a session in use is *)
(* never deleted but by its termination, a resume credential is used once, *)
(* and an adapter with nothing left to read works with the bindings of     *)
(* the record.                                                             *)
(***************************************************************************)
EXTENDS LogicalSessions, WellFoundedInduction, TLAPS

-----------------------------------------------------------------------------
(* Types                                                                   *)

(* A set of natural numbers has a least one.                               *)
LEMMA NatMin ==
    ASSUME NEW S \in SUBSET Nat, S # {}
    PROVE  \E t \in S : \A u \in S : t =< u
<1>1. IsWellFoundedOn(OpToRel(<, Nat), Nat)
    BY NatLessThanWellFounded, Zenon
<1>2. PICK t \in S : \A u \in S : ~(<<u, t>> \in OpToRel(<, Nat))
    BY <1>1, WFMin, Zenon
<1>3. \A u \in S : ~(u < t)
    BY <1>2, Zenon DEF OpToRel
<1> QED BY <1>3

LEMMA ExpiryTimerType ==
    ASSUME NEW bindings \in SUBSET Bindings
    PROVE  ExpiryTimer(bindings) \in Nat \cup {None}
<1> DEFINE due == {ExpiryOf[b] : b \in {b \in Unexpired(bindings) : ExpiryOf[b] # None}}
<1>1. due \in SUBSET Nat
    BY SessionsAssumption DEF Unexpired
<1>2. CASE due = {}
    BY <1>2 DEF ExpiryTimer
<1>3. CASE due # {}
  <2>1. \E t \in due : \A u \in due : t =< u
    BY <1>1, <1>3, NatMin
  <2> HIDE DEF due
  <2>2. (CHOOSE t \in due : \A u \in due : t =< u) \in due
    BY <2>1
  <2>3. ExpiryTimer(bindings) = CHOOSE t \in due : \A u \in due : t =< u
    BY <1>3 DEF ExpiryTimer, due
  <2> QED BY <1>1, <2>2, <2>3
<1> QED BY <1>2, <1>3

(* A change of the record leaves an adapter with a read to make, if open.  *)
LEMMA NotifiedIs ==
    ASSUME TypeOK
    PROVE  /\ Notified \in [Connections -> Adapter]
           /\ \A c \in Connections :
                /\ Notified[c].queued <=> (adapter[c].queued \/ adapter[c].phase = "open")
                /\ Notified[c].phase = adapter[c].phase
                /\ Notified[c].available = adapter[c].available
                /\ Notified[c].bindings = adapter[c].bindings
                /\ Notified[c].read = adapter[c].read
                /\ Notified[c].timer = adapter[c].timer
<1>0. \A c \in Connections : adapter[c] \in Adapter
    BY DEF TypeOK
<1>1. ASSUME NEW c \in Connections
      PROVE  \E q \in BOOLEAN :
                /\ Notified[c] = [adapter[c] EXCEPT !.queued = q]
                /\ q <=> (adapter[c].queued \/ adapter[c].phase = "open")
  <2>1. Notified[c] = [adapter[c] EXCEPT !.queued = (adapter[c].queued \/ adapter[c].phase = "open")]
    BY DEF Notified
  <2>2. (adapter[c].queued \/ adapter[c].phase = "open") \in BOOLEAN
    BY Zenon
  <2> QED BY <2>1, <2>2, Zenon
<1>2. ASSUME NEW c \in Connections
      PROVE  /\ Notified[c] \in Adapter
             /\ Notified[c].queued <=> (adapter[c].queued \/ adapter[c].phase = "open")
             /\ Notified[c].phase = adapter[c].phase
             /\ Notified[c].available = adapter[c].available
             /\ Notified[c].bindings = adapter[c].bindings
             /\ Notified[c].read = adapter[c].read
             /\ Notified[c].timer = adapter[c].timer
  <2> PICK q \in BOOLEAN :
                /\ Notified[c] = [adapter[c] EXCEPT !.queued = q]
                /\ q <=> (adapter[c].queued \/ adapter[c].phase = "open")
    BY <1>1
  <2> QED BY <1>0 DEF Adapter
<1>3. Notified = [c \in Connections |-> Notified[c]]
    BY DEF Notified
<1>4. Notified \in [Connections -> Adapter]
    BY <1>2, <1>3
<1> QED BY <1>2, <1>4

(* What the calls that write the record do.  Some take a step of a call,   *)
(* and only ResumeWrites and Created make another connection active.       *)
Step(c, phase, seen, expiresAt) ==
    call' = [call EXCEPT ![c] = [phase |-> phase, seen |-> seen, expiresAt |-> expiresAt]]

LEMMA StepIs ==
    ASSUME TypeOK, NEW c \in Connections, NEW phase \in Phases, NEW seen \in Connections \cup {None},
           NEW expiresAt \in Deadline, Step(c, phase, seen, expiresAt)
    PROVE  /\ call' \in [Connections -> Call]
           /\ call'[c].phase = phase /\ call'[c].seen = seen /\ call'[c].expiresAt = expiresAt
           /\ \A d \in Connections \ {c} : call'[d] = call[d]
BY DEF Step, TypeOK, Call

LEMMA CallExcept ==
    ASSUME NEW w \in Call, NEW phase, NEW seen, NEW expiresAt
    PROVE  /\ [w EXCEPT !.phase = phase] = [phase |-> phase, seen |-> w.seen, expiresAt |-> w.expiresAt]
           /\ [[w EXCEPT !.seen = seen] EXCEPT !.phase = phase]
                = [phase |-> phase, seen |-> seen, expiresAt |-> w.expiresAt]
           /\ [[w EXCEPT !.phase = phase] EXCEPT !.expiresAt = expiresAt]
                = [phase |-> phase, seen |-> w.seen, expiresAt |-> expiresAt]
<1>1. w = [phase |-> w.phase, seen |-> w.seen, expiresAt |-> w.expiresAt]
    BY DEF Call
<1>2. [w EXCEPT !.phase = phase] = [phase |-> phase, seen |-> w.seen, expiresAt |-> w.expiresAt]
    BY <1>1
<1>3. [w EXCEPT !.seen = seen] = [phase |-> w.phase, seen |-> seen, expiresAt |-> w.expiresAt]
    BY <1>1
<1>4. [[phase |-> w.phase, seen |-> seen, expiresAt |-> w.expiresAt] EXCEPT !.phase = phase]
                = [phase |-> phase, seen |-> seen, expiresAt |-> w.expiresAt]
    OBVIOUS
<1>5. [[phase |-> phase, seen |-> w.seen, expiresAt |-> w.expiresAt] EXCEPT !.expiresAt = expiresAt]
                = [phase |-> phase, seen |-> w.seen, expiresAt |-> expiresAt]
    OBVIOUS
<1> HIDE <1>1
<1>6. [[w EXCEPT !.seen = seen] EXCEPT !.phase = phase]
                = [phase |-> phase, seen |-> seen, expiresAt |-> w.expiresAt]
    BY <1>3, <1>4, Zenon
<1>7. [[w EXCEPT !.phase = phase] EXCEPT !.expiresAt = expiresAt]
                = [phase |-> phase, seen |-> w.seen, expiresAt |-> expiresAt]
    BY <1>2, <1>5, Zenon
<1> QED BY <1>2, <1>6, <1>7

(* The session manager's calls, one line for each.                         *)
LEMMA CallSteps ==
    ASSUME TypeOK, NEW c \in Connections
    PROVE  /\ Create(c) => Step(c, "creating", call[c].seen, call[c].expiresAt)
           /\ \A b \in SUBSET Bindings :
                Created(c, b) => Step(c, "live", call[c].seen, call[c].expiresAt)
           /\ \A k \in Connections : Resume(c, k) =>
                \/ Step(c, "expired", k, call[c].expiresAt) /\ Expired(record)
                \/ Step(c, "resuming", k, call[c].expiresAt) /\ record.credential = k
                \/ Step(c, "over", k, call[c].expiresAt)
           /\ ExpiredDeleted(c) => Step(c, "over", call[c].seen, call[c].expiresAt)
           /\ ResumeWrites(c) =>
                \/ Rotated(c) /\ Step(c, "resumed", call[c].seen, call[c].expiresAt)
                \/ ~Rotated(c) /\ Step(c, "over", call[c].seen, call[c].expiresAt)
           /\ ResumeAnswered(c) => Step(c, "live", call[c].seen, call[c].expiresAt)
           /\ DisconnectAnswered(c) => Step(c, "over", call[c].seen, None)
<1> DEFINE w == call[c]
<1>0. w \in Call
    BY DEF TypeOK
<1>1. \A phase, seen, expiresAt :
          /\ [w EXCEPT !.phase = phase] = [phase |-> phase, seen |-> w.seen, expiresAt |-> w.expiresAt]
          /\ [[w EXCEPT !.seen = seen] EXCEPT !.phase = phase]
                = [phase |-> phase, seen |-> seen, expiresAt |-> w.expiresAt]
          /\ [[w EXCEPT !.phase = phase] EXCEPT !.expiresAt = expiresAt]
                = [phase |-> phase, seen |-> w.seen, expiresAt |-> expiresAt]
    BY <1>0, CallExcept
<1>2. call \in [Connections -> Call]
    BY DEF TypeOK
<1>3. Create(c) => Step(c, "creating", w.seen, w.expiresAt)
    BY <1>1 DEF Create, Step
<1>4. \A b \in SUBSET Bindings : Created(c, b) => Step(c, "live", w.seen, w.expiresAt)
    BY <1>1 DEF Created, Step
<1>5. ASSUME NEW k \in Connections, Resume(c, k)
      PROVE  \/ Step(c, "expired", k, w.expiresAt) /\ Expired(record)
             \/ Step(c, "resuming", k, w.expiresAt) /\ record.credential = k
             \/ Step(c, "over", k, w.expiresAt)
  <2> PICK phase : phase = IF Expired(record) THEN "expired"
                                         ELSE IF record.credential = k THEN "resuming" ELSE "over"
    OBVIOUS
  <2>1. call' = [call EXCEPT ![c] = [[w EXCEPT !.seen = k] EXCEPT !.phase = phase]]
    BY <1>2, <1>5 DEF Resume
  <2>2. Step(c, phase, k, w.expiresAt)
    BY ZenonT(60), <1>1, <2>1 DEF Step
  <2> QED BY <2>2
<1>6. ExpiredDeleted(c) => Step(c, "over", w.seen, w.expiresAt)
    BY <1>1 DEF ExpiredDeleted, Step
<1>7. ResumeWrites(c) =>
         \/ Rotated(c) /\ Step(c, "resumed", w.seen, w.expiresAt)
         \/ ~Rotated(c) /\ Step(c, "over", w.seen, w.expiresAt)
    BY <1>1 DEF ResumeWrites, Step
<1>8. ResumeAnswered(c) => Step(c, "live", w.seen, w.expiresAt)
    BY <1>1 DEF ResumeAnswered, Step
<1>9. DisconnectAnswered(c) => Step(c, "over", w.seen, None)
  <2> SUFFICES ASSUME DisconnectAnswered(c) PROVE Step(c, "over", w.seen, None)
    OBVIOUS
  <2>1. call' = [call EXCEPT ![c] = [[w EXCEPT !.phase = "over"] EXCEPT !.expiresAt = None]]
    BY <1>2 DEF DisconnectAnswered
  <2> QED BY <1>1, <2>1 DEF Step
<1> QED
    BY <1>3, <1>4, <1>5, <1>6, <1>7, <1>8, <1>9

LEMMA DisconnectStep ==
    ASSUME TypeOK, NEW c \in Connections, Disconnect(c)
    PROVE  \E expiry \in Nat \cup {NoDeadline} :
             \/ /\ record # None /\ record.active = c
                /\ Write([record EXCEPT !.active = None, !.expiresAt = expiry])
                /\ Step(c, "disconnected", call[c].seen, expiry)
             \/ /\ UNCHANGED <<record, adapter>>
                /\ Step(c, "over", call[c].seen, call[c].expiresAt)
<1> DEFINE w == call[c]
<1>0. w \in Call /\ call \in [Connections -> Call] /\ now \in Nat
    BY SessionsAssumption DEF TypeOK
<1> PICK expiry : expiry = IF ResumeWindow = NoDeadline THEN NoDeadline ELSE now + ResumeWindow
    OBVIOUS
<1>1. expiry \in Nat \cup {NoDeadline}
    BY <1>0, SessionsAssumption
<1>2. CASE record # None /\ record.active = c
  <2>1. Write([record EXCEPT !.active = None, !.expiresAt = expiry])
    BY <1>2 DEF Disconnect
  <2>2. call' = [call EXCEPT ![c] = [[w EXCEPT !.phase = "disconnected"] EXCEPT !.expiresAt = expiry]]
    BY <1>0, <1>2 DEF Disconnect
  <2>3. [[w EXCEPT !.phase = "disconnected"] EXCEPT !.expiresAt = expiry]
            = [phase |-> "disconnected", seen |-> w.seen, expiresAt |-> expiry]
    <3>1. \A phase, seen, expiresAt :
            [[w EXCEPT !.phase = phase] EXCEPT !.expiresAt = expiresAt]
                = [phase |-> phase, seen |-> w.seen, expiresAt |-> expiresAt]
      BY ZenonT(60), <1>0, CallExcept
    <3> QED BY <3>1
  <2> QED BY <1>1, <1>2, <2>1, <2>2, <2>3 DEF Step
<1>3. CASE ~(record # None /\ record.active = c)
  <2>1. UNCHANGED <<record, adapter>> /\ call' = [call EXCEPT ![c] = [w EXCEPT !.phase = "over"]]
    BY <1>3 DEF Disconnect
  <2>3. [w EXCEPT !.phase = "over"] = [phase |-> "over", seen |-> w.seen, expiresAt |-> w.expiresAt]
    BY <1>0 DEF Call
  <2> QED BY <1>1, <2>1, <2>3 DEF Step
<1> QED BY <1>2, <1>3

LEMMA WriteIs ==
    ASSUME NEW new, Write(new)
    PROVE  /\ record' = new /\ adapter' = Notified
           /\ ChangesWhileConnecting \/ \A c \in Connections : adapter[c].phase # "connecting"
BY DEF Write

(* What writes the record, and what of it.                                 *)
Writes(c) ==
    \/ \E bindings \in SUBSET Bindings : Created(c, bindings)
    \/ ExpiredDeleted(c) \/ ResumeWrites(c) \/ Disconnect(c)

Adapts(c) ==
    \/ Connect(c) \/ Connected(c) \/ RefreshReads(c) \/ Refreshed(c) \/ BindingExpires(c) \/ Close(c)

Manages(c) == Create(c) \/ (\E k \in Connections : Resume(c, k)) \/ ResumeAnswered(c) \/ DisconnectAnswered(c)

Rewrites == (\E bindings \in SUBSET Bindings : ChangeBindings(bindings)) \/ Sweep \/ Terminate

Leaves == SweepFails \/ TimerFires \/ Dispose \/ Tick

Acquires == \E c \in Connections, b \in Bindings : AcquireLease(c, b)

LEMMA NextIs ==
    ASSUME Next
    PROVE  \/ Rewrites \/ Leaves \/ Acquires
           \/ \E c \in Connections : Writes(c) \/ Adapts(c) \/ Manages(c)
BY Zenon DEF Next, Rewrites, Leaves, Acquires, Writes, Adapts, Manages, Answers, Refreshing, Sweeping

(* The record that is written is one, or none.                             *)
LEMMA WritesRecord ==
    ASSUME TypeOK, NEW c \in Connections, Writes(c)
    PROVE  /\ \/ UNCHANGED <<record, adapter>>
              \/ /\ record' = None \/ record' \in Record
                 /\ adapter' = Notified
                 /\ ChangesWhileConnecting \/ \A d \in Connections : adapter[d].phase # "connecting"
           /\ UNCHANGED <<disposed, now, timer, sweep, held>>
<1>0. record # None => record \in Record
    BY DEF TypeOK
<1>1. ASSUME NEW bindings \in SUBSET Bindings, Created(c, bindings)
      PROVE  /\ record' \in Record
             /\ adapter' = Notified
             /\ ChangesWhileConnecting \/ \A d \in Connections : adapter[d].phase # "connecting"
             /\ UNCHANGED <<disposed, now, timer, sweep, held>>
  <2>1. [active |-> c, generation |-> 1, expiresAt |-> None, credential |-> c,
              bindings |-> bindings] \in Record
    BY DEF Record, Deadline
  <2> QED BY <1>1, <2>1 DEF Created, Write
<1>2. CASE ExpiredDeleted(c)
    BY <1>2 DEF ExpiredDeleted, Write
<1>3. CASE ResumeWrites(c)
  <2>1. ASSUME Rotated(c)
        PROVE  [record EXCEPT !.active = c, !.generation = @ + 1, !.expiresAt = None,
                              !.credential = c] \in Record
    <3>1. record \in Record /\ record.generation + 1 \in Nat \ {0}
      BY <1>0, <2>1 DEF Rotated, Record
    <3> QED BY <3>1 DEF Record, Deadline
  <2> QED BY <1>3, <2>1 DEF ResumeWrites, Write
<1>4. CASE Disconnect(c)
  <2>1. PICK expiry \in Nat \cup {NoDeadline} :
             \/ /\ record # None
                /\ Write([record EXCEPT !.active = None, !.expiresAt = expiry])
             \/ UNCHANGED <<record, adapter>>
    BY <1>4, DisconnectStep
  <2>2. ASSUME record # None PROVE [record EXCEPT !.active = None, !.expiresAt = expiry] \in Record
    BY <1>0, <2>2 DEF Record, Deadline
  <2> QED BY <1>4, <2>1, <2>2 DEF Write, Disconnect
<1> QED BY <1>1, <1>2, <1>3, <1>4 DEF Writes

LEMMA RewritesRecord ==
    ASSUME TypeOK, Rewrites
    PROVE  /\ \/ UNCHANGED <<record, adapter>>
              \/ /\ record' = None \/ record' \in Record
                 /\ adapter' = Notified
                 /\ ChangesWhileConnecting \/ \A d \in Connections : adapter[d].phase # "connecting"
           /\ UNCHANGED <<disposed, now, call, held>>
           /\ timer' \in {timer, None} /\ sweep' \in {sweep, "no"}
<1>1. ASSUME NEW bindings \in SUBSET Bindings, ChangeBindings(bindings)
      PROVE  /\ record' \in Record
             /\ adapter' = Notified
             /\ ChangesWhileConnecting \/ \A d \in Connections : adapter[d].phase # "connecting"
             /\ UNCHANGED <<disposed, now, call, held, timer, sweep>>
  <2>1. [record EXCEPT !.bindings = bindings] \in Record
    BY <1>1 DEF ChangeBindings, TypeOK, Record
  <2> QED BY <1>1, <2>1 DEF ChangeBindings, Write
<1>2. CASE Sweep
    BY <1>2 DEF Sweep, Write
<1>3. CASE Terminate
    BY <1>3 DEF Terminate, Write
<1> QED BY <1>1, <1>2, <1>3 DEF Rewrites

(* An adapter's own step changes no other.                                 *)
LEMMA AdaptsIs ==
    ASSUME TypeOK, NEW c \in Connections, Adapts(c)
    PROVE  /\ adapter' \in [Connections -> Adapter]
           /\ \A d \in Connections \ {c} : adapter'[d] = adapter[d]
           /\ UNCHANGED <<disposed, now, record, timer, sweep, call>>
           /\ held' \in SUBSET held
<1> DEFINE a == adapter[c]
<1>0. a \in Adapter /\ adapter \in [Connections -> Adapter] /\ held \subseteq Connections \X Bindings
    BY DEF TypeOK
<1>1. \A bindings \in SUBSET Bindings : ExpiryTimer(bindings) \in Nat \cup {None}
    BY ExpiryTimerType
<1>2. ASSUME NEW new \in Adapter, adapter' = [adapter EXCEPT ![c] = new]
      PROVE  /\ adapter' \in [Connections -> Adapter]
             /\ \A d \in Connections \ {c} : adapter'[d] = adapter[d]
    BY <1>0, <1>2
<1>3. CASE Connect(c)
  <2>1. record \in Record
    BY <1>3 DEF Connect, ReadBy, TypeOK
  <2>2. [a EXCEPT !.phase = "connecting", !.bindings = record.bindings] \in Adapter
    BY <1>0, <2>1 DEF Adapter, Record
  <2> QED BY <1>2, <1>3, <2>2 DEF Connect
<1>4. CASE Connected(c)
  <2>1. ExpiryTimer(a.bindings) \in Nat \cup {None}
    BY <1>0, <1>1 DEF Adapter
  <2>2. [a EXCEPT !.phase = "open", !.available = TRUE, !.timer = ExpiryTimer(a.bindings)] \in Adapter
    BY <1>0, <2>1 DEF Adapter
  <2> QED BY <1>2, <1>4, <2>2 DEF Connected
<1>5. CASE RefreshReads(c)
  <2>1. PICK read \in {ReadBy(c), Unreadable} : adapter' = [adapter EXCEPT ![c] = [a EXCEPT !.queued = FALSE, !.read = read]]
    BY <1>5 DEF RefreshReads
  <2>2. read \in [done : BOOLEAN, available : BOOLEAN, bindings : SUBSET Bindings]
    <3>1. record # None => record.bindings \in SUBSET Bindings
      BY DEF TypeOK, Record
    <3>2. ReadBy(c) \in [done : BOOLEAN, available : BOOLEAN, bindings : SUBSET Bindings]
      BY <3>1 DEF ReadBy
    <3>3. Unreadable \in [done : BOOLEAN, available : BOOLEAN, bindings : SUBSET Bindings]
      BY DEF Unreadable
    <3> QED BY <2>1, <3>2, <3>3
  <2>3. [a EXCEPT !.queued = FALSE, !.read = read] \in Adapter
    BY <1>0, <2>2 DEF Adapter
  <2> QED BY <1>2, <1>5, <2>1, <2>3 DEF RefreshReads
<1>6. CASE Refreshed(c)
  <2>1. a.read.bindings \in SUBSET Bindings /\ a.read.available \in BOOLEAN
    BY <1>0 DEF Adapter
  <2>2. ExpiryTimer(a.read.bindings) \in Nat \cup {None}
    BY <1>1, <2>1
  <2>3. [a EXCEPT !.read = NoRead, !.timer = ExpiryTimer(a.read.bindings),
                  !.available = a.read.available, !.bindings = a.read.bindings] \in Adapter
    BY <1>0, <2>1, <2>2 DEF Adapter, NoRead
  <2> QED BY <1>2, <1>6, <2>3 DEF Refreshed, HeldUnder
<1>7. CASE BindingExpires(c)
  <2>1. ExpiryTimer(a.bindings) \in Nat \cup {None}
    BY <1>0, <1>1 DEF Adapter
  <2>2. [a EXCEPT !.timer = ExpiryTimer(a.bindings)] \in Adapter
    BY <1>0, <2>1 DEF Adapter
  <2> QED BY <1>2, <1>7, <2>2 DEF BindingExpires, HeldUnder
<1>8. CASE Close(c)
  <2>2. [a EXCEPT !.phase = "closed", !.timer = None] \in Adapter
    BY <1>0 DEF Adapter
  <2> QED BY <1>2, <1>8, <2>2 DEF Close
<1> QED BY <1>3, <1>4, <1>5, <1>6, <1>7, <1>8 DEF Adapts

(* A call's own step changes no other, and moves on.                       *)
Moves(c) ==
    \/ call[c].phase = "none" /\ call'[c].phase \in {"creating", "expired", "resuming", "over"}
    \/ call[c].phase = "creating" /\ call'[c].phase = "live"
    \/ call[c].phase = "expired" /\ call'[c].phase = "over"
    \/ call[c].phase = "resuming" /\ call'[c].phase \in {"resumed", "over"}
    \/ call[c].phase = "resumed" /\ call'[c].phase = "live"
    \/ call[c].phase = "live" /\ call'[c].phase \in {"disconnected", "over"}
    \/ call[c].phase = "disconnected" /\ call'[c].phase = "over"

LEMMA CallsMove ==
    ASSUME TypeOK, NEW c \in Connections, Writes(c) \/ Manages(c)
    PROVE  /\ call' \in [Connections -> Call]
           /\ \A d \in Connections \ {c} : call'[d] = call[d]
           /\ Moves(c)
           /\ call[c].phase # "none" => call'[c].seen = call[c].seen
<1> DEFINE w == call[c]
<1>0. /\ w \in Call /\ w.seen \in Connections \cup {None} /\ w.expiresAt \in Deadline
      /\ None \in Deadline /\ Nat \cup {NoDeadline} \in SUBSET Deadline
    BY DEF TypeOK, Call, Deadline
<1>1. ASSUME NEW phase \in Phases, NEW seen \in Connections \cup {None}, NEW e \in Deadline,
             Step(c, phase, seen, e)
      PROVE  /\ call' \in [Connections -> Call]
             /\ \A d \in Connections \ {c} : call'[d] = call[d]
             /\ call'[c].phase = phase /\ call'[c].seen = seen
    BY <1>1, StepIs
<1>2. {"creating", "expired", "resuming", "resumed", "live", "disconnected", "over"} \subseteq Phases
    BY DEF Phases
<1>3. CASE Create(c)
  <2>1. Step(c, "creating", w.seen, w.expiresAt) /\ w.phase = "none"
    BY <1>3, CallSteps DEF Create
  <2> QED BY <1>0, <1>1, <1>2, <2>1 DEF Moves
<1>4. ASSUME NEW b \in SUBSET Bindings, Created(c, b)
      PROVE  /\ call' \in [Connections -> Call]
             /\ \A d \in Connections \ {c} : call'[d] = call[d]
             /\ w.phase = "creating" /\ call'[c].phase = "live" /\ call'[c].seen = w.seen
  <2>1. Step(c, "live", w.seen, w.expiresAt) /\ w.phase = "creating"
    BY <1>4, CallSteps DEF Created
  <2> QED BY <1>0, <1>1, <1>2, <2>1
<1>5. ASSUME NEW k \in Connections, Resume(c, k)
      PROVE  /\ call' \in [Connections -> Call]
             /\ \A d \in Connections \ {c} : call'[d] = call[d]
             /\ w.phase = "none" /\ call'[c].phase \in {"expired", "resuming", "over"}
  <2>1. \/ Step(c, "expired", k, w.expiresAt)
        \/ Step(c, "resuming", k, w.expiresAt)
        \/ Step(c, "over", k, w.expiresAt)
    BY <1>5, CallSteps
  <2>2. w.phase = "none"
    BY <1>5 DEF Resume
  <2> QED BY <1>0, <1>1, <1>2, <2>1, <2>2
<1>6. CASE ExpiredDeleted(c)
  <2>1. Step(c, "over", w.seen, w.expiresAt) /\ w.phase = "expired"
    BY <1>6, CallSteps DEF ExpiredDeleted
  <2> QED BY <1>0, <1>1, <1>2, <2>1 DEF Moves
<1>7. CASE ResumeWrites(c)
  <2>1. Step(c, "resumed", w.seen, w.expiresAt) \/ Step(c, "over", w.seen, w.expiresAt)
    BY <1>7, CallSteps
  <2>2. w.phase = "resuming"
    BY <1>7 DEF ResumeWrites
  <2> QED BY <1>0, <1>1, <1>2, <2>1, <2>2 DEF Moves
<1>8. CASE ResumeAnswered(c)
  <2>1. Step(c, "live", w.seen, w.expiresAt) /\ w.phase = "resumed"
    BY <1>8, CallSteps DEF ResumeAnswered
  <2> QED BY <1>0, <1>1, <1>2, <2>1 DEF Moves
<1>9. CASE DisconnectAnswered(c)
  <2>1. Step(c, "over", w.seen, None) /\ w.phase = "disconnected"
    BY <1>9, CallSteps DEF DisconnectAnswered
  <2> QED BY <1>0, <1>1, <1>2, <2>1 DEF Moves
<1>10. CASE Disconnect(c)
  <2>1. PICK e \in Nat \cup {NoDeadline} :
            Step(c, "disconnected", w.seen, e) \/ Step(c, "over", w.seen, w.expiresAt)
    BY <1>10, DisconnectStep
  <2>2. w.phase = "live" /\ e \in Deadline
    BY <1>0, <1>10 DEF Disconnect
  <2> QED BY <1>0, <1>1, <1>2, <2>1, <2>2 DEF Moves
<1> QED
    BY <1>3, <1>4, <1>5, <1>6, <1>7, <1>8, <1>9, <1>10 DEF Writes, Manages, Moves

LEMMA ManagesIs ==
    ASSUME NEW c \in Connections, Manages(c)
    PROVE  /\ UNCHANGED <<disposed, now, record, sweep, adapter, held>>
           /\ timer' \in {timer, None} \/ (timer' = call[c].expiresAt /\ timer' # NoDeadline)
<1>1. CASE Create(c)
    BY <1>1 DEF Create
<1>2. CASE \E k \in Connections : Resume(c, k)
    BY <1>2 DEF Resume
<1>3. CASE ResumeAnswered(c)
    BY <1>3 DEF ResumeAnswered
<1>4. CASE DisconnectAnswered(c)
    BY <1>4 DEF DisconnectAnswered
<1> QED BY <1>1, <1>2, <1>3, <1>4 DEF Manages

LEMMA LeavesIs ==
    ASSUME TypeOK, Leaves
    PROVE  /\ UNCHANGED <<record, call, adapter, held>>
           /\ timer' \in {timer, None} /\ now' \in 0 .. MaxTime
           /\ disposed' \in BOOLEAN /\ sweep' \in {"no", "due", "failed"}
<1>1. now \in Nat /\ MaxTime \in Nat /\ now =< MaxTime
    BY SessionsAssumption DEF TypeOK
<1>2. CASE SweepFails
    BY <1>2 DEF SweepFails, TypeOK
<1>3. CASE TimerFires
    BY <1>3 DEF TimerFires, TypeOK
<1>4. CASE Dispose
    BY <1>4 DEF Dispose, TypeOK
<1>5. CASE Tick
    BY <1>1, <1>5 DEF Tick, TypeOK
<1> QED BY <1>2, <1>3, <1>4, <1>5 DEF Leaves

(* The record, the calls and the adapters keep their shape.                *)
LEMMA StepTypes == TypeOK /\ [Next]_vars => TypeOK'
<1> SUFFICES ASSUME TypeOK, [Next]_vars PROVE TypeOK'
    OBVIOUS
<1>0. Notified \in [Connections -> Adapter]
    BY NotifiedIs
<1>1. CASE UNCHANGED vars
    BY <1>1 DEF vars, TypeOK
<1>2. CASE Rewrites
    BY <1>0, <1>2, RewritesRecord DEF TypeOK
<1>3. CASE Leaves
    BY <1>3, LeavesIs DEF TypeOK
<1>4. CASE Acquires
    BY <1>4 DEF Acquires, AcquireLease, TypeOK
<1>5. ASSUME NEW c \in Connections, Writes(c) PROVE TypeOK'
  <2>1. call' \in [Connections -> Call]
    BY <1>5, CallsMove
  <2>2. /\ record' = None \/ record' \in Record
        /\ adapter' \in [Connections -> Adapter]
        /\ UNCHANGED <<disposed, now, timer, sweep, held>>
    BY <1>0, <1>5, WritesRecord DEF TypeOK
  <2> QED BY <2>1, <2>2 DEF TypeOK
<1>6. ASSUME NEW c \in Connections, Adapts(c) PROVE TypeOK'
    BY <1>6, AdaptsIs DEF TypeOK
<1>7. ASSUME NEW c \in Connections, Manages(c) PROVE TypeOK'
  <2>1. call' \in [Connections -> Call]
    BY <1>7, CallsMove
  <2>2. UNCHANGED <<disposed, now, record, sweep, adapter, held>>
    BY <1>7, ManagesIs
  <2>3. call[c].expiresAt \in Deadline /\ timer \in Nat \cup {None}
    BY DEF TypeOK, Call
  <2>4. timer' \in Nat \cup {None}
    BY <1>7, <2>3, SessionsAssumption, ManagesIs DEF Deadline
  <2> QED BY <2>1, <2>2, <2>4 DEF TypeOK
<1> QED BY <1>1, <1>2, <1>3, <1>4, <1>5, <1>6, <1>7, NextIs

LEMMA InitTypes == Init => TypeOK
<1> SUFFICES ASSUME Init PROVE TypeOK
    OBVIOUS
<1>1. call \in [Connections -> Call]
    BY DEF Init, Call, Phases, Deadline
<1>2. adapter \in [Connections -> Adapter]
    BY DEF Init, Adapter, NoRead
<1>3. now \in 0 .. MaxTime /\ held \subseteq Connections \X Bindings
    BY SessionsAssumption DEF Init
<1> QED BY <1>1, <1>2, <1>3 DEF Init, TypeOK

(* The record of the session, the manager's calls and the adapters keep    *)
(* their shape, for any timing.                                            *)
THEOREM SessionTypes == Spec => []TypeOK
<1> QED BY InitTypes, StepTypes, PTL DEF Spec

-----------------------------------------------------------------------------
(* The record of a session in use                                          *)

(* What may become of a record in a step, with the call that does it.      *)
LEMMA RecordSteps ==
    ASSUME TypeOK, [Next]_vars
    PROVE  \/ record' = record
           \/ record' = None /\ (Terminate \/ Expired(record) \/ \E c \in Connections : ExpiredDeleted(c))
           \/ /\ record \in Record /\ record' \in Record
              /\ record'.credential = record.credential
              /\ \/ record'.active = record.active
                 \/ \E c \in Connections : Disconnect(c)
           \/ \E c \in Connections, bindings \in SUBSET Bindings :
                Created(c, bindings) /\ record' \in Record /\ record'.credential = c
           \/ \E c \in Connections :
                /\ ResumeWrites(c) /\ Rotated(c) /\ record \in Record
                /\ record' \in Record /\ record'.credential = c
<1>0. record # None => record \in Record
    BY DEF TypeOK
<1>1. CASE UNCHANGED vars \/ Leaves \/ Acquires
    BY <1>1, LeavesIs DEF vars, Acquires, AcquireLease
<1>2. CASE \E c \in Connections : Adapts(c)
    BY <1>2, AdaptsIs
<1>3. CASE \E c \in Connections : Manages(c)
    BY <1>3, ManagesIs
<1>4. CASE Rewrites
  <2>1. ASSUME NEW bindings \in SUBSET Bindings, ChangeBindings(bindings)
        PROVE  /\ record \in Record /\ record' \in Record
               /\ record'.credential = record.credential /\ record'.active = record.active
    BY <1>0, <2>1 DEF ChangeBindings, Write, Record
  <2>2. CASE Sweep
    BY <2>2 DEF Sweep, Write
  <2>3. CASE Terminate
    BY <2>3 DEF Terminate, Write
  <2> QED BY <1>4, <2>1, <2>2, <2>3 DEF Rewrites
<1>5. ASSUME NEW c \in Connections, Writes(c)
      PROVE  \/ record' = record
             \/ record' = None /\ ExpiredDeleted(c)
             \/ /\ record \in Record /\ record' \in Record
                /\ record'.credential = record.credential /\ Disconnect(c)
             \/ \E bindings \in SUBSET Bindings :
                Created(c, bindings) /\ record' \in Record /\ record'.credential = c
             \/ /\ ResumeWrites(c) /\ Rotated(c) /\ record \in Record
                /\ record' \in Record /\ record'.credential = c
  <2>0. record' = record \/ record' = None \/ record' \in Record
    BY <1>5, WritesRecord
  <2>1. ASSUME NEW bindings \in SUBSET Bindings, Created(c, bindings)
        PROVE  record' \in Record /\ record'.credential = c
    <3>1. record' = [active |-> c, generation |-> 1, expiresAt |-> None, credential |-> c,
              bindings |-> bindings]
      BY <2>1 DEF Created, Write
    <3> QED BY <3>1 DEF Record, Deadline
  <2>2. CASE ExpiredDeleted(c)
    BY <2>2 DEF ExpiredDeleted, Write
  <2>3. CASE ResumeWrites(c) /\ Rotated(c)
    <3>1. record \in Record /\ record.generation + 1 \in Nat \ {0}
      BY <1>0, <2>3 DEF Rotated, Record
    <3>2. record' = [record EXCEPT !.active = c, !.generation = @ + 1, !.expiresAt = None, !.credential = c]
      BY <2>3 DEF ResumeWrites, Write
    <3> QED BY <2>3, <3>1, <3>2 DEF Record, Deadline
  <2>4. CASE ResumeWrites(c) /\ ~Rotated(c)
    BY <2>4 DEF ResumeWrites
  <2>5. CASE Disconnect(c)
    <3> PICK expiry \in Nat \cup {NoDeadline} :
             \/ record # None /\ Write([record EXCEPT !.active = None, !.expiresAt = expiry])
             \/ UNCHANGED <<record, adapter>>
      BY <2>5, DisconnectStep
    <3>1. CASE record # None /\ record' = [record EXCEPT !.active = None, !.expiresAt = expiry]
      BY <1>0, <2>5, <3>1 DEF Record, Deadline
    <3> QED BY <3>1 DEF Write
  <2> QED BY <1>5, <2>1, <2>2, <2>3, <2>4, <2>5 DEF Writes
<1> QED
    BY <1>1, <1>2, <1>3, <1>4, <1>5, NextIs

(* A call takes a step, or none does.                                      *)
LEMMA CallStepsOnly ==
    ASSUME TypeOK, [Next]_vars
    PROVE  \/ call' = call
           \/ \E c \in Connections :
                /\ Writes(c) \/ Manages(c)
                /\ Moves(c)
                /\ call[c].phase # "none" => call'[c].seen = call[c].seen
                /\ \A d \in Connections \ {c} : call'[d] = call[d]
<1>1. CASE UNCHANGED vars \/ Leaves \/ Acquires \/ Rewrites
    BY <1>1, LeavesIs, RewritesRecord DEF vars, Acquires, AcquireLease
<1>2. CASE \E c \in Connections : Adapts(c)
    BY <1>2, AdaptsIs
<1>3. CASE \E c \in Connections : Writes(c) \/ Manages(c)
    BY <1>3, CallsMove
<1> QED
    BY <1>1, <1>2, <1>3, NextIs

(* A record that was found expired belongs to nobody until it is deleted:  *)
(* nobody resumes it in between, as the store answers calls in order.      *)
ExpiredIsIdle ==
    \A c \in Connections : call[c].phase = "expired" => record = None \/ record.active = None

LEMMA ExpiredStaysIdle ==
    ASSUME ~LateAnswers, TypeOK, ExpiredIsIdle, [Next]_vars
    PROVE  ExpiredIsIdle'
<1> SUFFICES ASSUME NEW c \in Connections, call'[c].phase = "expired"
             PROVE  record' = None \/ record'.active = None
    BY DEF ExpiredIsIdle
<1>1. CASE call[c].phase = "expired"
  <2>1. record = None \/ record.active = None
    BY <1>1 DEF ExpiredIsIdle
  <2>2. ASSUME NEW d \in Connections, Overtakes(d) PROVE d = c
    BY <1>1, <2>2 DEF Overtakes
  <2>3. ASSUME Writes(c) PROVE FALSE
    <3>1. call[c].phase = "expired" /\ call'[c].phase = "over"
      BY <1>1, <2>3, CallsMove DEF Moves
    <3> QED BY <3>1
  <2>4. ASSUME NEW d \in Connections, Disconnect(d) \/ ResumeWrites(d) \/ \E b \in SUBSET Bindings : Created(d, b)
        PROVE  FALSE
    BY <2>2, <2>3, <2>4 DEF Disconnect, ResumeWrites, Created, Writes
  <2>5. None \notin Record
    BY SessionsAssumption
  <2> QED BY <2>1, <2>4, <2>5, RecordSteps
<1>2. CASE call[c].phase # "expired"
  <2>1. /\ Writes(c) \/ Manages(c)
        /\ Moves(c)
    BY <1>2, CallStepsOnly
  <2>2. call[c].phase = "none"
    BY <1>2, <2>1 DEF Moves
  <2>3. PICK k \in Connections : Resume(c, k)
    BY <2>1, <2>2 DEF Writes, Manages, Created, ExpiredDeleted, ResumeWrites, Disconnect, Create,
                      ResumeAnswered, DisconnectAnswered, TypeOK, Call
  <2>4. call'[c].phase = IF Expired(record) THEN "expired"
                         ELSE IF record.credential = k THEN "resuming" ELSE "over"
    BY <2>3 DEF Resume, TypeOK, Call
  <2>5. Expired(record) /\ record' = record
    BY <2>3, <2>4 DEF Resume
  <2> QED BY <2>5 DEF Expired
<1> QED BY <1>1, <1>2

(* A connected session is deleted by nothing but its termination, whatever *)
(* timers earlier connections left and whoever tries to resume it, as long *)
(* as the store answers calls in order.                                    *)
THEOREM LiveSessionsAreKept == ~LateAnswers => (Spec => LiveSessionKept)
<1> SUFFICES ASSUME ~LateAnswers PROVE Spec => LiveSessionKept
    OBVIOUS
<1>1. Init => TypeOK /\ ExpiredIsIdle
  <2>1. Init => ExpiredIsIdle
    BY DEF Init, ExpiredIsIdle
  <2> QED BY <2>1, InitTypes
<1>2. TypeOK /\ ExpiredIsIdle /\ [Next]_vars => (TypeOK /\ ExpiredIsIdle)'
    BY StepTypes, ExpiredStaysIdle
<1>3. TypeOK /\ ExpiredIsIdle /\ [Next]_vars
        => [record # None /\ record' = None => record.active = None \/ Terminate]_vars
  <2> SUFFICES ASSUME TypeOK, ExpiredIsIdle, [Next]_vars, record # None, record' = None
               PROVE  record.active = None \/ Terminate
    OBVIOUS
  <2>1. None \notin Record
    BY SessionsAssumption
  <2>2. Terminate \/ Expired(record) \/ \E c \in Connections : ExpiredDeleted(c)
    BY <2>1, RecordSteps
  <2> QED BY <2>2 DEF Expired, ExpiredDeleted, ExpiredIsIdle
<1> QED
    BY <1>1, <1>2, <1>3, PTL DEF Spec, LiveSessionKept

-----------------------------------------------------------------------------
(* Resume credentials                                                      *)

Took(c) == call[c].phase \in {"resumed", "live", "disconnected"} /\ call[c].seen # None

(* A credential is named by the connection it was issued to, which has     *)
(* written the record by then.                                             *)
Issued(k) == call[k].phase \in {"resumed", "live", "disconnected", "over"}

(* The credential a session was taken over with is not its credential any  *)
(* more, and was issued before: it is never issued again.                  *)
CredentialsInv ==
    /\ \A c \in Connections : call[c].phase \in {"none", "creating"} => call[c].seen = None
    /\ record # None => Issued(record.credential)
    /\ \A c \in Connections : Took(c) =>
         /\ Issued(call[c].seen)
         /\ record # None => record.credential # call[c].seen
    /\ CredentialUsedOnce

TakesOver(c) == ResumeWrites(c) /\ Rotated(c)

(* A call has taken the session over before, or does so now.               *)
LEMMA Advances ==
    ASSUME TypeOK, CredentialsInv, [Next]_vars, NEW c \in Connections
    PROVE  /\ call'[c].phase \in {"none", "creating"} => call'[c].seen = None
           /\ Issued(c) => Issued(c)'
           /\ Took(c)' => (Took(c) \/ TakesOver(c)) /\ call'[c].seen = call[c].seen
<1>1. CASE call'[c] = call[c]
    BY <1>1 DEF CredentialsInv, Issued, Took
<1>2. CASE /\ Writes(c) \/ Manages(c)
           /\ Moves(c)
           /\ call[c].phase # "none" => call'[c].seen = call[c].seen
  <2>1. Issued(c) => Issued(c)'
    BY <1>2 DEF Moves, Issued
  <2>2. call'[c].phase \in {"none", "creating"} => call[c].phase = "none" /\ Create(c)
    <3>1. ASSUME NEW k \in Connections, Resume(c, k) PROVE call'[c].phase \notin {"none", "creating"}
      BY <3>1 DEF Resume, TypeOK, Call
    <3> QED BY <1>2, <3>1 DEF Moves, Writes, Manages, Created, ExpiredDeleted, ResumeWrites, Disconnect,
                  ResumeAnswered, DisconnectAnswered
  <2>3. Create(c) => call'[c].seen = call[c].seen
    BY DEF Create, TypeOK, Call
  <2>4. Took(c)' => Took(c) \/ call[c].phase = "resuming"
    <3>1. call'[c].phase \in {"resumed", "live", "disconnected"} =>
             \/ call[c].phase = "creating"
             \/ call[c].phase = "resuming"
             \/ call[c].phase \in {"resumed", "live", "disconnected"}
      BY <1>2 DEF Moves
    <3>2. call[c].phase = "creating" => call[c].seen = None
      BY DEF CredentialsInv
    <3> QED BY <1>2, <3>1, <3>2 DEF Took
  <2>5. call[c].phase = "resuming" => ~(\E k \in Connections : Resume(c, k))
    BY DEF Resume
  <2>6. call[c].phase = "resuming" => ResumeWrites(c)
    BY <1>2, <2>5 DEF Writes, Manages, Created, ExpiredDeleted, Disconnect, Create,
                  ResumeAnswered, DisconnectAnswered
  <2>7. ResumeWrites(c) /\ ~Rotated(c) => call'[c].phase = "over"
    BY DEF ResumeWrites, TypeOK, Call
  <2>8. Took(c) => call[c].phase # "none"
    BY DEF Took
  <2>9. Took(c)' => call'[c].phase # "over"
    BY DEF Took
  <2>10. Took(c)' => (Took(c) \/ TakesOver(c)) /\ call'[c].seen = call[c].seen
    BY <1>2, <2>4, <2>6, <2>7, <2>8, <2>9 DEF TakesOver
  <2>11. call'[c].phase \in {"none", "creating"} => call'[c].seen = None
    BY <2>2, <2>3 DEF CredentialsInv
  <2> QED BY <2>1, <2>10, <2>11
<1> QED BY <1>1, <1>2, CallStepsOnly

LEMMA TakingOver ==
    ASSUME TypeOK, NEW c \in Connections, TakesOver(c)
    PROVE  /\ record' # None /\ record'.credential = c
           /\ record # None /\ record.credential = call[c].seen
           /\ call[c].phase = "resuming" /\ Issued(c)'
<1>1. record \in Record /\ record.generation + 1 \in Nat \ {0}
    BY DEF TypeOK, TakesOver, Rotated, Record
<1>2. record' = [record EXCEPT !.active = c, !.generation = @ + 1, !.expiresAt = None, !.credential = c]
    BY DEF TakesOver, ResumeWrites, Write
<1>3. record' \in Record /\ record'.credential = c
    BY <1>1, <1>2 DEF Record, Deadline
<1>4. None \notin Record
    BY SessionsAssumption
<1>5. call'[c].phase = "resumed"
    BY DEF TakesOver, ResumeWrites, TypeOK, Call
<1> QED
    BY <1>3, <1>4, <1>5 DEF TakesOver, ResumeWrites, Rotated, Issued

LEMMA CredentialsInductive ==
    ASSUME TypeOK, CredentialsInv, [Next]_vars
    PROVE  CredentialsInv'
<1>0. /\ None \notin Connections /\ None \notin Record
      /\ record # None => record \in Record /\ record.credential \in Connections
      /\ \A c \in Connections : Took(c) => call[c].seen \in Connections
    BY SessionsAssumption DEF TypeOK, Call, Record, Took
<1>1. \A c \in Connections :
           /\ call'[c].phase \in {"none", "creating"} => call'[c].seen = None
           /\ Issued(c) => Issued(c)'
           /\ Took(c)' => (Took(c) \/ TakesOver(c)) /\ call'[c].seen = call[c].seen
    BY Advances
<1>2. \A c \in Connections : TakesOver(c) =>
           /\ record' # None /\ record'.credential = c
           /\ record # None /\ record.credential = call[c].seen
           /\ call[c].phase = "resuming" /\ Issued(c)' /\ ~Issued(c)
    BY TakingOver DEF Issued
<1>3. \A c \in Connections : Took(c) =>
           /\ Issued(call[c].seen)
           /\ record # None => record.credential # call[c].seen
    BY DEF CredentialsInv
<1>4. \A c, d \in Connections : Took(c) /\ Took(d) /\ call[c].seen = call[d].seen => c = d
    BY DEF CredentialsInv, CredentialUsedOnce, Took
<1>5. record # None => Issued(record.credential)
    BY DEF CredentialsInv
<1>6. ASSUME NEW c \in Connections, TakesOver(c) PROVE CredentialsInv'
  <2>1. \A d \in Connections \ {c} : Took(d)' => Took(d)
    BY <1>1, <1>2, <1>6
  <2>2. record'.credential = c /\ call[c].seen \in Connections /\ Issued(call[c].seen) /\ ~Issued(c)
    BY <1>0, <1>2, <1>5, <1>6
  <2>3. ASSUME NEW d \in Connections, Took(d)'
        PROVE  Issued(call[d].seen)' /\ record'.credential # call'[d].seen
    <3>1. call'[d].seen = call[d].seen /\ call[d].seen \in Connections /\ Issued(call[d].seen)
      BY <1>0, <1>1, <1>3, <2>1, <2>2, <2>3
    <3>2. PICK k \in Connections : k = call[d].seen
      BY <3>1
    <3>3. Issued(k)' /\ k # c
      BY <1>1, <2>2, <3>1, <3>2
    <3> QED BY <2>2, <3>1, <3>2, <3>3 DEF Issued
  <2>4. ASSUME NEW d \in Connections, NEW e \in Connections, Took(d)', Took(e)', call'[d].seen = call'[e].seen
        PROVE  d = e
    BY <1>1, <1>2, <1>3, <1>4, <1>6, <2>1, <2>4
  <2>5. CredentialUsedOnce'
    BY <2>4 DEF CredentialUsedOnce, Took
  <2>6. Issued(record.credential)'
    BY <1>2, <1>6, <2>2 DEF Issued
  <2> QED BY <1>1, <2>3, <2>5, <2>6 DEF CredentialsInv
<1>7. ASSUME \A c \in Connections : ~TakesOver(c) PROVE CredentialsInv'
  <2>1. \A d \in Connections : Took(d)' => Took(d) /\ call'[d].seen = call[d].seen
    BY <1>1, <1>7
  <2>2. CredentialUsedOnce'
    BY <1>4, <2>1 DEF CredentialUsedOnce, Took
  <2>3. ASSUME record' # None
        PROVE  \E k \in Connections :
                  /\ record'.credential = k /\ Issued(k)'
                  /\ (record # None /\ record.credential = k) \/ ~Issued(k)
    <3>1. ASSUME NEW c \in Connections, NEW bindings \in SUBSET Bindings, Created(c, bindings)
          PROVE  ~Issued(c) /\ Issued(c)'
      BY <3>1 DEF Created, Issued, TypeOK, Call
    <3>2. \/ record # None /\ record'.credential = record.credential
          \/ \E c \in Connections, bindings \in SUBSET Bindings :
                Created(c, bindings) /\ record'.credential = c
      BY <1>0, <1>7, <2>3, RecordSteps DEF TakesOver
    <3>3. CASE record # None /\ record'.credential = record.credential
      <4>1. PICK k \in Connections : k = record.credential
        BY <1>0, <3>3
      <4>2. Issued(k)'
        BY <1>1, <1>5, <3>3, <4>1
      <4> QED BY <3>3, <4>1, <4>2
    <3>4. CASE \E c \in Connections, bindings \in SUBSET Bindings :
                Created(c, bindings) /\ record'.credential = c
      BY <3>1, <3>4
    <3> QED BY <3>2, <3>3, <3>4
  <2>4. ASSUME NEW d \in Connections, Took(d)'
        PROVE  Issued(call[d].seen)' /\ (record' # None => record'.credential # call'[d].seen)
    <3>1. call'[d].seen = call[d].seen /\ call[d].seen \in Connections /\ Issued(call[d].seen)
          /\ (record # None => record.credential # call[d].seen)
      BY <1>0, <1>3, <2>1, <2>4
    <3>2. PICK k \in Connections : k = call[d].seen
      BY <3>1
    <3>3. Issued(k)'
      BY <1>1, <3>1, <3>2
    <3> QED BY <2>3, <3>1, <3>2, <3>3 DEF Issued
  <2>5. record' # None => Issued(record.credential)'
    BY <2>3 DEF Issued
  <2> QED BY <1>1, <2>2, <2>4, <2>5 DEF CredentialsInv
<1> QED BY <1>6, <1>7

(* Of all the connections that present the same resume credential, at any  *)
(* time and concurrently, at most one takes the session over, even when    *)
(* the store answers a call after it has run later ones.                   *)
THEOREM CredentialsRotate == Spec => []CredentialUsedOnce
<1>1. Init => TypeOK /\ CredentialsInv
  <2>1. Init => CredentialsInv
    <3> SUFFICES ASSUME Init PROVE CredentialsInv
      OBVIOUS
    <3>1. \A c \in Connections : call[c].phase = "none" /\ call[c].seen = None
      BY DEF Init
    <3> QED BY <3>1 DEF Init, CredentialsInv, Took, CredentialUsedOnce
  <2> QED BY <2>1, InitTypes
<1>2. TypeOK /\ CredentialsInv /\ [Next]_vars => (TypeOK /\ CredentialsInv)'
    BY StepTypes, CredentialsInductive
<1>3. CredentialsInv => CredentialUsedOnce
    BY DEF CredentialsInv
<1> QED
    BY <1>1, <1>2, <1>3, PTL DEF Spec

-----------------------------------------------------------------------------
(* The store-backed adapters                                               *)

MatchesRecord(c, bindings) ==
    record # None /\ record.active = c /\ record.bindings = bindings

(* What an adapter has read is of the record, unless a change is announced *)
(* that it has not read yet, and it has no authority but by what it read.  *)
AdapterCurrent(c) ==
    LET a == adapter[c]
    IN  /\ a.phase = "none" => ~a.queued /\ ~a.read.done
        /\ a.phase = "connecting" =>
             ~a.queued /\ ~a.read.done /\ MatchesRecord(c, a.bindings)
        /\ a.phase = "open" /\ ~a.queued /\ a.read.done =>
             (a.read.available => MatchesRecord(c, a.read.bindings))
        /\ a.phase = "open" /\ ~a.queued /\ ~a.read.done =>
             (a.available => MatchesRecord(c, a.bindings))

AdaptersInv == \A c \in Connections : AdapterCurrent(c)

(* A change of the record is announced to every adapter that is open, and  *)
(* none is connecting.                                                     *)
LEMMA AnnouncedKeepsCurrent ==
    ASSUME TypeOK, AdaptersInv, adapter' = Notified,
           \A c \in Connections : adapter[c].phase # "connecting"
    PROVE  AdaptersInv'
<1> SUFFICES ASSUME NEW c \in Connections PROVE AdapterCurrent(c)'
    BY DEF AdaptersInv
<1>1. /\ adapter'[c].queued <=> (adapter[c].queued \/ adapter[c].phase = "open")
      /\ adapter'[c].phase = adapter[c].phase
      /\ adapter'[c].read = adapter[c].read
    BY NotifiedIs
<1>2. adapter[c].phase = "none" => ~adapter[c].queued /\ ~adapter[c].read.done
    BY DEF AdaptersInv, AdapterCurrent
<1>3. /\ adapter'[c].phase = "none" => ~adapter'[c].queued /\ ~adapter'[c].read.done
      /\ adapter'[c].phase = "open" => adapter'[c].queued
      /\ adapter'[c].phase # "connecting"
    BY <1>1, <1>2
<1> QED BY <1>3 DEF AdapterCurrent

LEMMA AdaptsKeepsCurrent ==
    ASSUME TypeOK, AdaptersInv, NEW c \in Connections, Adapts(c)
    PROVE  AdaptersInv'
<1> DEFINE a == adapter[c]
           b == adapter'[c]
<1>0. /\ adapter \in [Connections -> Adapter] /\ a \in Adapter
      /\ adapter' \in [Connections -> Adapter] /\ record' = record
      /\ \A d \in Connections \ {c} : adapter'[d] = adapter[d]
    BY AdaptsIs DEF TypeOK
<1>1. \A d \in Connections \ {c} : AdapterCurrent(d)'
    BY <1>0 DEF AdaptersInv, AdapterCurrent, MatchesRecord
<1>2. AdapterCurrent(c)
    BY DEF AdaptersInv
<1>3. CASE Connect(c)
  <2>1. /\ a.phase = "none" /\ record # None /\ record.active = c
        /\ b.phase = "connecting" /\ b.bindings = record.bindings
        /\ b.queued = a.queued /\ b.read = a.read
    BY <1>0, <1>3 DEF Connect, ReadBy, Adapter
  <2> QED BY <1>0, <1>1, <1>2, <2>1 DEF AdaptersInv, AdapterCurrent, MatchesRecord
<1>4. CASE Connected(c)
  <2>1. /\ a.phase = "connecting"
        /\ b.phase = "open" /\ b.bindings = a.bindings
        /\ b.queued = a.queued /\ b.read = a.read
    BY <1>0, <1>4 DEF Connected, Adapter
  <2> QED BY <1>0, <1>1, <1>2, <2>1 DEF AdaptersInv, AdapterCurrent, MatchesRecord
<1>5. CASE RefreshReads(c)
  <2>1. PICK read \in {ReadBy(c), Unreadable} :
            adapter' = [adapter EXCEPT ![c] = [a EXCEPT !.queued = FALSE, !.read = read]]
    BY <1>5 DEF RefreshReads
  <2>2. read.done /\ (read.available => MatchesRecord(c, read.bindings))
    BY <2>1 DEF ReadBy, Unreadable, MatchesRecord
  <2>3. /\ a.queued /\ b.phase = a.phase /\ b.queued = FALSE /\ b.read = read
    BY <1>0, <1>5, <2>1 DEF RefreshReads, Adapter
  <2> QED BY <1>0, <1>1, <1>2, <2>2, <2>3 DEF AdaptersInv, AdapterCurrent, MatchesRecord
<1>6. CASE Refreshed(c)
  <2>1. /\ a.read.done /\ b.phase = a.phase /\ b.queued = a.queued /\ b.read = NoRead
        /\ b.available = a.read.available /\ b.bindings = a.read.bindings
    BY <1>0, <1>6 DEF Refreshed, Adapter
  <2>2. ~NoRead.done
    BY DEF NoRead
  <2> QED BY <1>0, <1>1, <1>2, <2>1, <2>2 DEF AdaptersInv, AdapterCurrent, MatchesRecord
<1>7. CASE BindingExpires(c)
  <2>1. /\ b.phase = a.phase /\ b.queued = a.queued /\ b.read = a.read
        /\ b.available = a.available /\ b.bindings = a.bindings
    BY <1>0, <1>7 DEF BindingExpires, Adapter
  <2> QED BY <1>0, <1>1, <1>2, <2>1 DEF AdaptersInv, AdapterCurrent, MatchesRecord
<1>8. CASE Close(c)
  <2>1. b.phase = "closed"
    BY <1>0, <1>8 DEF Close, Adapter
  <2> QED BY <1>0, <1>1, <1>2, <2>1 DEF AdaptersInv, AdapterCurrent, MatchesRecord
<1> QED BY <1>3, <1>4, <1>5, <1>6, <1>7, <1>8 DEF Adapts

(* An adapter that has its authority, and no change left to read, works    *)
(* with the bindings of the record, as its only connection, for any number *)
(* of connections and reads that fail, as long as the record does not      *)
(* change between an adapter's first read and its subscription.            *)
THEOREM IdleAdaptersAreCurrent == ~ChangesWhileConnecting => (Spec => []IdleAdapterIsCurrent)
<1> SUFFICES ASSUME ~ChangesWhileConnecting PROVE Spec => []IdleAdapterIsCurrent
    OBVIOUS
<1>1. Init => TypeOK /\ AdaptersInv
  <2>1. Init => AdaptersInv
    <3> SUFFICES ASSUME Init PROVE AdaptersInv
      OBVIOUS
    <3>1. \A c \in Connections : adapter[c].phase = "none" /\ ~adapter[c].queued /\ ~adapter[c].read.done
      BY DEF Init, NoRead
    <3> QED BY <3>1 DEF AdaptersInv, AdapterCurrent
  <2> QED BY <2>1, InitTypes
<1>2. TypeOK /\ AdaptersInv /\ [Next]_vars => (TypeOK /\ AdaptersInv)'
  <2> SUFFICES ASSUME TypeOK, AdaptersInv, [Next]_vars PROVE AdaptersInv'
    BY StepTypes
  <2>1. CASE UNCHANGED <<record, adapter>>
    BY <2>1 DEF AdaptersInv, AdapterCurrent, MatchesRecord
  <2>2. UNCHANGED vars \/ Leaves \/ Acquires => UNCHANGED <<record, adapter>>
    BY LeavesIs DEF vars, Acquires, AcquireLease
  <2>3. CASE Rewrites
    BY <2>1, <2>3, RewritesRecord, AnnouncedKeepsCurrent
  <2>4. CASE \E c \in Connections : Writes(c)
    BY <2>1, <2>4, WritesRecord, AnnouncedKeepsCurrent
  <2>5. CASE \E c \in Connections : Adapts(c)
    BY <2>5, AdaptsKeepsCurrent
  <2>6. CASE \E c \in Connections : Manages(c)
    BY <2>1, <2>6, ManagesIs
  <2> QED BY <2>1, <2>2, <2>3, <2>4, <2>5, <2>6, NextIs
<1>3. AdaptersInv => IdleAdapterIsCurrent
    BY DEF AdaptersInv, AdapterCurrent, IdleAdapterIsCurrent, MatchesRecord
<1> QED
    BY <1>1, <1>2, <1>3, PTL DEF Spec
=============================================================================
