--------------------------- MODULE LogicalSessions ---------------------------
(***************************************************************************)
(* One logical session: its record in the authority store, the session     *)
(* manager that creates, disconnects, resumes and ends it, and the store-  *)
(* backed client adapters that read its bindings on behalf of the target   *)
(* broker.                                                                 *)
(*                                                                         *)
(* The store is asynchronous.  What a call read before an await, and what  *)
(* it does with the answer afterwards, are different actions.  With        *)
(* LateAnswers a store answers a call after it has run updates submitted   *)
(* later; the store in memory does not.                                    *)
(*                                                                         *)
(* A resume credential is named by the connection it was issued to.        *)
(***************************************************************************)
EXTENDS Naturals

CONSTANTS
    Connections,        \* transport connections, each used once
    Clients,            \* bound: those connected to the target broker as a client
    Bindings,           \* bindings the host may give the session
    ExpiryOf,           \* when each binding expires, None for never
    None,
    NoDeadline,         \* a timing option set to null
    ResumeWindow,       \* resumeWindowMilliseconds
    LateAnswers,        \* answers of the store may be overtaken
    StoreFails,         \* reads by the adapters and deletions on a timer may fail
    ChangesWhileConnecting, \* the record may change while an adapter connects
    MaxTime             \* bound on the clock

Deadline == Nat \cup {None, NoDeadline}

Record == [active : Connections \cup {None}, generation : Nat \ {0}, expiresAt : Deadline,
           credential : Connections, bindings : SUBSET Bindings]

ASSUME SessionsAssumption ==
    /\ MaxTime \in Nat /\ Clients \subseteq Connections
    /\ ResumeWindow \in Nat \cup {NoDeadline}
    /\ ExpiryOf \in [Bindings -> Nat \cup {None}]
    /\ {LateAnswers, StoreFails, ChangesWhileConnecting} \subseteq BOOLEAN
    /\ None \notin Connections \cup Nat \cup Record
    /\ NoDeadline \notin Nat /\ None # NoDeadline

VARIABLES
    disposed,
    now,
    record,     \* the session's record in the store
    timer,      \* its entry of expiryTimeouts: when it fires
    sweep,      \* the update a fired timer has submitted
    call,       \* what the manager is doing for each connection
    adapter,    \* the store-backed client of each connection
    held        \* who took a lease on the target of which binding

vars == <<disposed, now, record, timer, sweep, call, adapter, held>>

(* A call keeps the credential it read and the expiry it wrote.            *)
Phases == {"none", "creating", "expired", "resuming", "resumed", "live", "disconnected", "over"}
Call == [phase : Phases, seen : Connections \cup {None}, expiresAt : Deadline]

(* queued: a change has been announced that no read has started after.     *)
(* read: the record such a read returned, to be applied.                   *)
Adapter == [phase : {"none", "connecting", "open", "closed"}, available : BOOLEAN,
            bindings : SUBSET Bindings, queued : BOOLEAN,
            read : [done : BOOLEAN, available : BOOLEAN, bindings : SUBSET Bindings],
            timer : Nat \cup {None}]

NoRead == [done |-> FALSE, available |-> FALSE, bindings |-> {}]

Init ==
    /\ disposed = FALSE /\ now = 0
    /\ record = None /\ timer = None /\ sweep = "no"
    /\ call = [c \in Connections |-> [phase |-> "none", seen |-> None, expiresAt |-> None]]
    /\ adapter = [c \in Connections |->
          [phase |-> "none", available |-> FALSE, bindings |-> {}, queued |-> FALSE,
           read |-> NoRead, timer |-> None]]
    /\ held = {}

-----------------------------------------------------------------------------
(* The authority store                                                     *)

(* Every open adapter hears of the change.  Changes announced while one    *)
(* waits for its turn to be read count once.                               *)
Notified ==
    [c \in Connections |->
        [adapter[c] EXCEPT !.queued = @ \/ adapter[c].phase = "open"]]

Write(new) ==
    /\ ChangesWhileConnecting \/ \A c \in Connections : adapter[c].phase # "connecting"
    /\ record' = new
    /\ adapter' = Notified

(* The store answers at once: nobody overtakes a call that has written.    *)
Overtakes(c) ==
    LateAnswers \/ \A d \in Connections \ {c} : call[d].phase \notin {"expired", "resumed", "disconnected"}

Expired(r) == r.active = None /\ r.expiresAt \in Nat /\ r.expiresAt =< now

(* The host grants and revokes bindings: see GrantRequests.                *)
ChangeBindings(bindings) ==
    /\ record # None /\ bindings # record.bindings
    /\ Write([record EXCEPT !.bindings = bindings])
    /\ UNCHANGED <<disposed, now, timer, sweep, call, held>>

-----------------------------------------------------------------------------
(* The session manager                                                     *)

(* create: an identifier it generates itself is used once.                 *)
Create(c) ==
    /\ ~disposed /\ call[c].phase = "none" /\ record = None
    /\ \A d \in Connections : call[d].phase = "none"
    /\ call' = [call EXCEPT ![c].phase = "creating"]
    /\ UNCHANGED <<disposed, now, record, timer, sweep, adapter, held>>

Created(c, bindings) ==
    /\ call[c].phase = "creating"
    /\ Overtakes(c)
    /\ Write([active |-> c, generation |-> 1, expiresAt |-> None, credential |-> c,
              bindings |-> bindings])
    /\ call' = [call EXCEPT ![c].phase = "live"]
    /\ UNCHANGED <<disposed, now, timer, sweep, held>>

(* resume up to its update: an expired record is to be deleted.            *)
Resume(c, credential) ==
    /\ ~disposed /\ call[c].phase = "none" /\ record # None
    /\ Overtakes(c)
    /\ call' = [call EXCEPT ![c].seen = credential,
                            ![c].phase = IF Expired(record) THEN "expired"
                                         ELSE IF record.credential = credential THEN "resuming" ELSE "over"]
    /\ UNCHANGED <<disposed, now, record, timer, sweep, adapter, held>>

ExpiredDeleted(c) ==
    /\ call[c].phase = "expired"
    /\ Write(None)
    /\ call' = [call EXCEPT ![c].phase = "over"]
    /\ UNCHANGED <<disposed, now, timer, sweep, held>>

Rotated(c) == record # None /\ record.credential = call[c].seen

(* The updater takes the session over only if its credential is still the  *)
(* one that was read.                                                      *)
ResumeWrites(c) ==
    /\ call[c].phase = "resuming" /\ Overtakes(c)
    /\ IF Rotated(c)
       THEN /\ Write([record EXCEPT !.active = c, !.generation = @ + 1, !.expiresAt = None,
                                    !.credential = c])
            /\ call' = [call EXCEPT ![c].phase = "resumed"]
       ELSE /\ call' = [call EXCEPT ![c].phase = "over"]
            /\ UNCHANGED <<record, adapter>>
    /\ UNCHANGED <<disposed, now, timer, sweep, held>>

(* clearExpiry, once the answer has come                                   *)
ResumeAnswered(c) ==
    /\ call[c].phase = "resumed"
    /\ timer' = None
    /\ call' = [call EXCEPT ![c].phase = "live"]
    /\ UNCHANGED <<disposed, now, record, sweep, adapter, held>>

(* disconnect, called for the connection of a session in use.  MaxTime     *)
(* bounds the clock so that the resume window still ends.                  *)
Disconnect(c) ==
    LET expiry == IF ResumeWindow = NoDeadline THEN NoDeadline ELSE now + ResumeWindow
    IN  /\ expiry \in Nat => expiry =< MaxTime
        /\ ~disposed /\ call[c].phase = "live" /\ Overtakes(c)
        /\ IF record # None /\ record.active = c
           THEN /\ Write([record EXCEPT !.active = None, !.expiresAt = expiry])
                /\ call' = [call EXCEPT ![c].phase = "disconnected", ![c].expiresAt = expiry]
           ELSE /\ call' = [call EXCEPT ![c].phase = "over"]
                /\ UNCHANGED <<record, adapter>>
        /\ UNCHANGED <<disposed, now, timer, sweep, held>>

(* scheduleExpiry of the record the updater returned                       *)
DisconnectAnswered(c) ==
    /\ call[c].phase = "disconnected"
    /\ timer' = IF call[c].expiresAt = NoDeadline THEN None ELSE call[c].expiresAt
    /\ call' = [call EXCEPT ![c].phase = "over", ![c].expiresAt = None]
    /\ UNCHANGED <<disposed, now, record, sweep, adapter, held>>

TimerFires ==
    /\ timer # None /\ timer =< now
    /\ timer' = None /\ sweep' = "due"
    /\ UNCHANGED <<disposed, now, record, call, adapter, held>>

SweepAnything ==
    /\ sweep = "due"
    /\ sweep' = "no"
    /\ IF record # None THEN Write(None) ELSE UNCHANGED <<record, adapter>>
    /\ UNCHANGED <<disposed, now, timer, call, held>>

(* The timer's update deletes the record only if it has expired by then.   *)
Sweep ==
    /\ sweep = "due"
    /\ sweep' = "no"
    /\ IF record # None /\ Expired(record) THEN Write(None) ELSE UNCHANGED <<record, adapter>>
    /\ UNCHANGED <<disposed, now, timer, call, held>>

SweepFails ==
    /\ StoreFails /\ sweep = "due"
    /\ sweep' = "failed"
    /\ UNCHANGED <<disposed, now, record, timer, call, adapter, held>>

Terminate ==
    /\ record # None
    /\ timer' = None
    /\ Write(None)
    /\ UNCHANGED <<disposed, now, sweep, call, held>>

Dispose ==
    /\ ~disposed /\ disposed' = TRUE
    /\ timer' = None
    /\ UNCHANGED <<now, record, sweep, call, adapter, held>>

-----------------------------------------------------------------------------
(* The store-backed adapters and the broker's leases                       *)

Unexpired(bindings) == {b \in bindings : ExpiryOf[b] = None \/ ExpiryOf[b] > now}

(* scheduleBindingExpiry: the earliest expiry of the bindings in force     *)
ExpiryTimer(bindings) ==
    LET due == {ExpiryOf[b] : b \in {b \in Unexpired(bindings) : ExpiryOf[b] # None}}
    IN  IF due = {} THEN None ELSE CHOOSE t \in due : \A u \in due : t =< u

(* The record the store returns to the adapter of c, or why it has none    *)
ReadBy(c) ==
    IF record # None /\ record.active = c
    THEN [done |-> TRUE, available |-> TRUE, bindings |-> record.bindings]
    ELSE [done |-> TRUE, available |-> FALSE, bindings |-> {}]

Unreadable == [done |-> TRUE, available |-> FALSE, bindings |-> {}]

(* connectStoreBackedClientTargetBroker up to its await, and after it: it  *)
(* subscribes to changes only when it has what it read.                    *)
Connect(c) ==
    /\ c \in Clients /\ call[c].phase = "live" /\ adapter[c].phase = "none"
    /\ ReadBy(c).available
    /\ adapter' = [adapter EXCEPT ![c].phase = "connecting", ![c].bindings = record.bindings]
    /\ UNCHANGED <<disposed, now, record, timer, sweep, call, held>>

Connected(c) ==
    /\ adapter[c].phase = "connecting"
    /\ adapter' = [adapter EXCEPT ![c].phase = "open", ![c].available = TRUE,
                                  ![c].timer = ExpiryTimer(adapter[c].bindings)]
    /\ UNCHANGED <<disposed, now, record, timer, sweep, call, held>>

(* Reads follow one another, also those left when the adapter is closed.   *)
RefreshReads(c) ==
    /\ adapter[c].queued /\ ~adapter[c].read.done
    /\ \E read \in {ReadBy(c)} \cup (IF StoreFails THEN {Unreadable} ELSE {}) :
          adapter' = [adapter EXCEPT ![c].queued = FALSE, ![c].read = read]
    /\ UNCHANGED <<disposed, now, record, timer, sweep, call, held>>

(* refreshClientAuthority: the leases of the whole principal are judged by *)
(* what this adapter is allowed, whichever connection took them.           *)
HeldUnder(bindings) == {lease \in held : lease[2] \in Unexpired(bindings)}

RefreshOpenOnly(c) ==
    LET read == adapter[c].read
    IN  /\ read.done
        /\ adapter' = [adapter EXCEPT ![c].read = NoRead, ![c].timer = ExpiryTimer(read.bindings),
                                      ![c].bindings = IF read.available THEN read.bindings ELSE @]
        /\ held' = HeldUnder(read.bindings)
        /\ UNCHANGED <<disposed, now, record, timer, sweep, call>>

Refreshed(c) ==
    LET read == adapter[c].read
    IN  /\ read.done
        /\ adapter' = [adapter EXCEPT ![c].read = NoRead, ![c].timer = ExpiryTimer(read.bindings),
                                      ![c].available = read.available,
                                      ![c].bindings = read.bindings]
        /\ held' = HeldUnder(read.bindings)
        /\ UNCHANGED <<disposed, now, record, timer, sweep, call>>

BindingExpires(c) ==
    /\ adapter[c].timer # None /\ adapter[c].timer =< now
    /\ adapter' = [adapter EXCEPT ![c].timer = ExpiryTimer(adapter[c].bindings)]
    /\ held' = HeldUnder(IF adapter[c].available THEN adapter[c].bindings ELSE {})
    /\ UNCHANGED <<disposed, now, record, timer, sweep, call>>

(* A lease on the target of b, acquired by the connection c                *)
AcquireLease(c, b) ==
    /\ adapter[c].phase = "open" /\ adapter[c].available
    /\ b \in Unexpired(adapter[c].bindings) /\ \A d \in Connections : <<d, b>> \notin held
    /\ held' = held \cup {<<c, b>>}
    /\ UNCHANGED <<disposed, now, record, timer, sweep, call, adapter>>

(* The host closes the adapter: the broker's leases stay for its reconnect *)
(* grace period, which TargetBroker models.                                *)
Close(c) ==
    /\ adapter[c].phase = "open"
    /\ adapter' = [adapter EXCEPT ![c].phase = "closed", ![c].timer = None]
    /\ UNCHANGED <<disposed, now, record, timer, sweep, call, held>>

-----------------------------------------------------------------------------
Tick ==
    /\ now < MaxTime
    /\ now' = now + 1
    /\ UNCHANGED <<disposed, record, timer, sweep, call, adapter, held>>

Answers(c) == ExpiredDeleted(c) \/ ResumeWrites(c) \/ ResumeAnswered(c) \/ DisconnectAnswered(c)

Refreshing(c) == RefreshReads(c) \/ Refreshed(c)

Sweeping == TimerFires \/ Sweep \/ SweepFails

Next ==
    \/ \E bindings \in SUBSET Bindings : ChangeBindings(bindings)
    \/ \E c \in Connections :
          \/ Create(c) \/ \E bindings \in SUBSET Bindings : Created(c, bindings)
          \/ \E credential \in Connections : Resume(c, credential)
          \/ Disconnect(c) \/ Connect(c) \/ Close(c)
          \/ Answers(c) \/ Connected(c) \/ Refreshing(c) \/ BindingExpires(c)
          \/ \E b \in Bindings : AcquireLease(c, b)
    \/ Sweeping
    \/ Terminate \/ Dispose \/ Tick

Spec == Init /\ [][Next]_vars

(* The store answers, the clock runs and a timer that is due fires.        *)
FairSpec ==
    /\ Spec
    /\ WF_vars(Tick) /\ WF_vars(Sweeping)
    /\ \A c \in Connections : WF_vars(Answers(c))

-----------------------------------------------------------------------------
(* The record, the calls and the adapters keep the shape of AuthorityRecord*)
(* and of the local state of the manager's and the adapter's functions.    *)
TypeOK ==
    /\ disposed \in BOOLEAN /\ now \in 0 .. MaxTime
    /\ record = None \/ record \in Record
    /\ timer \in Nat \cup {None} /\ sweep \in {"no", "due", "failed"}
    /\ call \in [Connections -> Call]
    /\ adapter \in [Connections -> Adapter]
    /\ held \subseteq Connections \X Bindings

(* A resume credential is rotated after use: of all the connections that   *)
(* presented the same one, at any time and concurrently, at most one took  *)
(* the session over.                                                       *)
CredentialUsedOnce ==
    \A c, d \in Connections :
        /\ {call[c].phase, call[d].phase} \subseteq {"resumed", "live", "disconnected"}
        /\ call[c].seen # None /\ call[c].seen = call[d].seen
        => c = d

(* "A connected logical session has no inactivity expiry": a timer left    *)
(* over from an earlier disconnect, or a late attempt to resume, never     *)
(* deletes the record of a session in use; only its termination does.      *)
LiveSessionKept ==
    [][record # None /\ record' = None => record.active = None \/ Terminate]_vars

(* A session that was disconnected and is not resumed ends with its resume *)
(* window, unless the store fails to delete it.                            *)
Abandoned == record # None /\ record.active = None /\ ~disposed
SessionEnds == ResumeWindow # NoDeadline => (Abandoned ~> (~Abandoned \/ sweep = "failed"))

(* ARCHITECTURE.md: the store-backed adapter resolves the store            *)
(* "reactively instead of retaining a connection-time grant snapshot".  An *)
(* adapter that considers its authority available and has no change left   *)
(* to read works with the bindings of the record, as its only connection.  *)
IdleAdapterIsCurrent ==
    \A c \in Connections :
        /\ adapter[c].phase = "open" /\ adapter[c].available
        /\ ~adapter[c].queued /\ ~adapter[c].read.done
        => record # None /\ record.active = c /\ record.bindings = adapter[c].bindings

(* ARCHITECTURE.md: resuming "makes the newest connection the only active  *)
(* one", and a lease stays until it is released, its time is over or it    *)
(* "loses its generation, or its binding, logical session, or principal is *)
(* revoked".  So an adapter of a connection that lost the session takes no *)
(* lease from the connection that has it, on a binding still in force.     *)
FencedTakesNoLease ==
    [][\A c \in Connections :
          (Refreshed(c) \/ BindingExpires(c)) /\ record # None /\ record.active \notin {None, c}
          => {lease \in HeldUnder(record.bindings) : lease[1] = record.active} \subseteq held']_vars
=============================================================================
