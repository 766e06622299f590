------------------------- MODULE ReconnectingClient -------------------------
(***************************************************************************)
(* The reconnecting client facades over a WebSocket, the Node and the      *)
(* browser one: requests and their answers, subscriptions that are made    *)
(* again after a connection was lost, the bounded queue of target changes, *)
(* the reconnection loop and close; with the end of the broker that serves *)
(* the connection (connectClientTargetBroker).                             *)
(*                                                                         *)
(* A rejected request continues in the microtasks of the event that        *)
(* rejected it, so a step takes the loop to its next await.  A send on a   *)
(* connection that is closing fails.                                       *)
(***************************************************************************)
EXTENDS Naturals, FiniteSets

CONSTANTS
    Handles,            \* subscriptions of the user
    MaxConnections,     \* bound on connections opened; the last one stays
    MaxChanges,         \* bound on target changes sent
    Capacity            \* values the queue of target changes may hold

ASSUME ClientAssumption == {MaxConnections, MaxChanges, Capacity} \subseteq Nat \ {0}

VARIABLES
    node,       \* the Node facade, else the browser one
    conn,       \* connections opened so far, the last one is current
    up,         \* the state of the current connection
    loop,       \* reconnecting: where the loop waits
    visited,    \* subscriptions that restoreSubscriptions has passed
    manual,     \* manuallyClosed
    finished,   \* the promise closed has resolved
    handle,     \* state of a subscription
    id,         \* subscription.id: the broker's identifier as last answered
    requests,   \* requests under way
    served,     \* subscriptions open at the broker
    nextId, unread, changes,
    snapshot,   \* receivedTargetSnapshot
    lost,       \* a connection was lost while subscriptions were restored
    raced       \* subscriptions closed while they were being restored

clientVars == <<node, conn, up, loop, visited, manual, finished, handle, id, requests, served,
          nextId, unread, changes, snapshot, lost, raced>>
queueVars == <<unread, changes, snapshot>>
fixed == <<node, queueVars>>

Request == [kind : {"subscribe", "restore", "unsubscribe"}, h : Handles, id : Nat,
            phase : {"held", "sent", "ok", "refused"}]
           \cup [kind : {"list"}, phase : {"sent", "ok"}]
Subscribing == {"subscribe", "restore"}

ClientInit ==
    /\ node \in BOOLEAN
    /\ conn = 1 /\ up = "open" /\ loop = "none" /\ visited = {} /\ manual = FALSE /\ finished = FALSE
    /\ handle = [h \in Handles |-> "none"] /\ id = [h \in Handles |-> 0]
    /\ requests = {} /\ served = {} /\ nextId = 1
    /\ unread = 0 /\ changes = 0 /\ snapshot = FALSE /\ lost = FALSE /\ raced = {}

Held == {r \in requests : r.phase = "held"}
Flying == requests \ Held
Live == {h \in Handles : handle[h] = "live"}
Subscribers(reqs) == {r.h : r \in {q \in reqs : q.kind \in Subscribing}}
(* Their calls, or their event queues, end with an error.                  *)
Failing(hs) == [h \in Handles |-> IF h \in hs /\ handle[h] \in {"asked", "live"} THEN "failed" ELSE handle[h]]

-----------------------------------------------------------------------------
(* request: it is held while a reconnection is under way, and rejected at  *)
(* once when the client was closed or the connection is closing.           *)
AskedAnyway(r) == {IF loop # "none" THEN [r EXCEPT !.phase = "held"] ELSE r}
Asked(r) ==
    IF loop # "none" THEN {[r EXCEPT !.phase = "held"]}
    ELSE IF manual \/ up # "open" THEN {} ELSE {r}

Subscribe(h) ==
    /\ handle[h] = "none"
    /\ LET r == [kind |-> "subscribe", h |-> h, id |-> 0, phase |-> "sent"] IN
       /\ requests' = requests \cup Asked(r)
       /\ handle' = [handle EXCEPT ![h] = IF Asked(r) = {} THEN "failed" ELSE "asked"]
    /\ UNCHANGED <<conn, up, loop, visited, manual, finished, id, served, nextId, lost, raced, fixed>>

(* close of a subscription: the identifier to unsubscribe is the one known *)
(* now, also while the request that will replace it is under way.          *)
CloseSubscription(h) ==
    /\ handle[h] = "live"
    /\ handle' = [handle EXCEPT ![h] = "closed"]
    /\ requests' = requests \cup Asked([kind |-> "unsubscribe", h |-> h, id |-> id[h], phase |-> "sent"])
    /\ raced' = IF \E r \in requests : r.kind = "restore" /\ r.h = h THEN raced \cup {h} ELSE raced
    /\ UNCHANGED <<conn, up, loop, visited, manual, finished, id, served, nextId, lost, fixed>>

(* The broker handles a request; a subscription may be refused.            *)
BrokerAnswers(r) ==
    /\ r.phase = "sent" /\ up = "open"
    /\ \/ /\ r.kind \in Subscribing
          /\ requests' = (requests \ {r}) \cup {[r EXCEPT !.phase = "ok", !.id = nextId]}
          /\ served' = served \cup {[h |-> r.h, id |-> nextId]}
          /\ nextId' = nextId + 1
       \/ /\ r.kind \in Subscribing
          /\ requests' = (requests \ {r}) \cup {[r EXCEPT !.phase = "refused"]}
          /\ UNCHANGED <<served, nextId>>
       \/ /\ r.kind = "unsubscribe"
          /\ requests' = (requests \ {r}) \cup {[r EXCEPT !.phase = "ok"]}
          /\ served' = {x \in served : x.id # r.id}
          /\ UNCHANGED nextId
       \/ /\ r.kind = "list"
          /\ requests' = (requests \ {r}) \cup {[r EXCEPT !.phase = "ok"]}
          /\ UNCHANGED <<served, nextId>>
    /\ UNCHANGED <<conn, up, loop, visited, manual, finished, handle, id, lost, raced, fixed>>

(* receiveMessage of an answer.  The broker sends its snapshot of targets  *)
(* before any answer.                                                      *)
RenamedOnce(r) == IF id[r.h] = 0 THEN [id EXCEPT ![r.h] = r.id] ELSE id
Renamed(r) == [id EXCEPT ![r.h] = r.id]

Answered(r) ==
    /\ r.phase \in {"ok", "refused"} /\ up = "open" /\ snapshot
    /\ requests' = requests \ {r}
    /\ IF r.kind = "list" THEN loop' = "restoring" /\ visited' = {} ELSE UNCHANGED <<loop, visited>>
    /\ IF r.kind \in Subscribing
       THEN IF r.phase = "ok"
            THEN /\ id' = Renamed(r)
                 /\ handle' = IF r.kind = "subscribe" THEN [handle EXCEPT ![r.h] = "live"] ELSE handle
            ELSE handle' = Failing({r.h}) /\ UNCHANGED id
       ELSE UNCHANGED <<handle, id>>
    /\ UNCHANGED <<conn, up, manual, finished, served, nextId, lost, raced, fixed>>

(* The snapshot or a change of targets; a full queue throws, and the       *)
(* connection closes.                                                      *)
TargetsNotice ==
    /\ up = "open" /\ (snapshot => changes < MaxChanges)
    /\ changes' = IF snapshot THEN changes + 1 ELSE changes
    /\ snapshot' = TRUE
    /\ IF unread < Capacity THEN unread' = unread + 1 /\ UNCHANGED up
       ELSE conn < MaxConnections /\ up' = "closing" /\ UNCHANGED unread
    /\ UNCHANGED <<node, conn, loop, visited, manual, finished, handle, id, requests, served, nextId, lost, raced>>

(* The user reads from watchTargets.                                       *)
Watch ==
    /\ unread > 0 /\ unread' = unread - 1
    /\ UNCHANGED <<node, conn, up, loop, visited, manual, finished, handle, id, requests, served, nextId,
                   changes, snapshot, lost, raced>>

-----------------------------------------------------------------------------
(* The loop returns: requests that were held go out, or are rejected.      *)
LoopEnds(open) ==
    /\ loop' = "none"
    /\ requests' = IF open THEN {[r EXCEPT !.phase = "sent"] : r \in Held} ELSE {}

(* failPendingRequests of the closed handler, and where the loop goes      *)
Rejecting(idle) ==
    /\ handle' = IF loop = "restoring" THEN Failing(Subscribers(requests) \cup (Live \ visited))
                 ELSE Failing(Subscribers(Flying))
    /\ IF loop = "restoring" THEN LoopEnds(FALSE)
       ELSE /\ requests' = Held
            /\ loop' = CASE loop = "snapshot" -> "waiting" [] loop = "none" -> idle [] OTHER -> loop

(* The connection has closed.  Subscriptions still to be restored fail     *)
(* with it, and the loop that restored them returns: nothing reconnects.   *)
ConnectionClosed ==
    /\ up \in {"open", "closing"} /\ (conn < MaxConnections \/ manual)
    /\ up' = "closed" /\ served' = {}
    /\ Rejecting(IF manual THEN "none" ELSE "connecting")
    /\ finished' = (finished \/ manual)
    /\ lost' = (lost \/ (loop = "restoring" /\ ~manual))
    /\ UNCHANGED <<conn, visited, manual, id, nextId, raced, fixed>>

(* An attempt of reconnect                                                 *)
ClosedWhileConnecting == node /\ manual

Connected ==
    /\ loop = "connecting" /\ conn < MaxConnections
    /\ IF ClosedWhileConnecting
       THEN LoopEnds(FALSE) /\ handle' = Failing(Subscribers(Held)) /\ UNCHANGED <<conn, up, visited, snapshot>>
       ELSE /\ conn' = conn + 1 /\ up' = "open" /\ snapshot' = FALSE /\ visited' = {}
            /\ loop' = IF node THEN "snapshot" ELSE "restoring"
            /\ requests' = IF node THEN requests \cup {[kind |-> "list", phase |-> "sent"]} ELSE requests
            /\ UNCHANGED handle
    /\ UNCHANGED <<node, manual, finished, id, served, nextId, unread, changes, lost, raced>>

ConnectFailsForGood ==
    /\ loop = "connecting" /\ loop' = "none" /\ requests' = {} /\ handle' = Failing(Subscribers(requests))
    /\ UNCHANGED <<conn, up, visited, manual, finished, id, served, nextId, lost, raced, fixed>>

ConnectFails ==
    /\ loop = "connecting" /\ loop' = "waiting"
    /\ UNCHANGED <<conn, up, visited, manual, finished, handle, id, requests, served, nextId, lost, raced, fixed>>

Waited ==
    /\ loop = "waiting"
    /\ IF manual THEN LoopEnds(FALSE) /\ handle' = Failing(Subscribers(Held))
       ELSE loop' = "connecting" /\ UNCHANGED <<requests, handle>>
    /\ UNCHANGED <<conn, up, visited, manual, finished, id, served, nextId, lost, raced, fixed>>

(* restoreSubscriptions: one subscription after the other                  *)
Restorable == Live \ visited
Restoring == \E r \in requests : r.kind = "restore"

Restore(h) ==
    /\ loop = "restoring" /\ ~Restoring /\ h \in Restorable
    /\ visited' = visited \cup {h}
    /\ IF manual \/ up # "open"
       THEN handle' = Failing({h}) /\ UNCHANGED requests
       ELSE /\ requests' = requests \cup {[kind |-> "restore", h |-> h, id |-> 0, phase |-> "sent"]}
            /\ UNCHANGED handle
    /\ UNCHANGED <<conn, up, loop, manual, finished, id, served, nextId, lost, raced, fixed>>

Restored ==
    /\ loop = "restoring" /\ ~Restoring /\ Restorable = {}
    /\ LoopEnds(up = "open" /\ ~manual)
    /\ handle' = IF up = "open" /\ ~manual THEN handle ELSE Failing(Subscribers(Held))
    /\ UNCHANGED <<conn, up, visited, manual, finished, id, served, nextId, lost, raced, fixed>>

(* close of the client.  The Node facade settles everything at once, the   *)
(* browser one when its connection has closed.                             *)
Close ==
    /\ ~manual /\ manual' = TRUE
    /\ up' = IF up = "open" THEN "closing" ELSE up
    /\ IF node THEN finished' = TRUE /\ Rejecting("none")
               ELSE UNCHANGED <<finished, handle, requests, loop>>
    /\ UNCHANGED <<conn, visited, id, served, nextId, lost, raced, fixed>>

ClientNext ==
    \/ \E h \in Handles : Subscribe(h) \/ CloseSubscription(h) \/ Restore(h)
    \/ \E r \in requests : BrokerAnswers(r) \/ Answered(r)
    \/ TargetsNotice \/ Watch \/ ConnectionClosed \/ Connected \/ ConnectFails \/ Waited \/ Restored \/ Close

ClientSpec == ClientInit /\ [][ClientNext]_clientVars

(* The broker answers and sends its snapshot, the network delivers, timers *)
(* fire, a closing connection closes, attempts do not fail for ever, and   *)
(* the user reads target changes.                                          *)
ClientFairSpec ==
    /\ ClientSpec
    /\ WF_clientVars(\E r \in requests : BrokerAnswers(r)) /\ WF_clientVars(\E r \in requests : Answered(r))
    /\ WF_clientVars(TargetsNotice /\ ~snapshot) /\ WF_clientVars(Watch)
    /\ WF_clientVars(ConnectionClosed /\ up = "closing")
    /\ SF_clientVars(Connected) /\ WF_clientVars(Waited) /\ WF_clientVars(Restored) /\ WF_clientVars(\E h \in Handles : Restore(h))

-----------------------------------------------------------------------------
(* Types; and a request is held exactly while the loop runs.               *)
ClientTypeOK ==
    /\ node \in BOOLEAN /\ conn \in 1 .. MaxConnections /\ up \in {"open", "closing", "closed"}
    /\ loop \in {"none", "connecting", "snapshot", "restoring", "waiting"}
    /\ handle \in [Handles -> {"none", "asked", "live", "closed", "failed"}]
    /\ \A r \in requests : r \in Request
    /\ unread \in 0 .. Capacity /\ served \subseteq [h : Handles, id : 1 .. nextId]
    /\ (Held # {} => loop # "none")

(* Once nothing is under way, the subscriptions open at the broker are     *)
(* those of the user that are live, one each, under the identifier the     *)
(* client routes by, after any number of reconnections.  Excepted is a     *)
(* subscription closed while it was being made again: its unsubscription   *)
(* names the old identifier, and the new one stays open at the broker.     *)
SubscriptionsMatch ==
    up = "open" /\ ~manual /\ requests = {} /\ loop = "none" =>
        /\ \A h \in Live : [h |-> h, id |-> id[h]] \in served
        /\ \A x \in served : x.h \in raced \/ (x.h \in Live /\ x.id = id[x.h])

(* Every request is answered or rejected, through any reconnection.        *)
RequestsSettle == \A h \in Handles : handle[h] = "asked" ~> handle[h] # "asked"

(* A lost connection is replaced, or the client was closed; except after a *)
(* connection lost while subscriptions were being made again, when the     *)
(* loop returns without one.                                               *)
Reconnects == up # "open" ~> up = "open" \/ manual \/ lost

=============================================================================
