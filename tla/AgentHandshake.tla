--------------------------- MODULE AgentHandshake ---------------------------
(***************************************************************************)
(* How an agent reaches a broker over WebSockets: the upgrade, the three   *)
(* messages of the authentication (begin, pair, finish), the credential    *)
(* that a pairing creates on both sides, and its revocation.               *)
(*                                                                         *)
(* Both ends are here: connectAgentWebSocket of the browser and the bridge *)
(* with the credential adapter of the standalone host.  A message is       *)
(* delivered when its receiver reads the phase of its sender, and is lost  *)
(* when the receiver's socket closes first.  An adapter is asynchronous:   *)
(* a call takes effect, and is answered, in steps of their own.            *)
(* A pairing on socket s creates the credential named s.                   *)
(***************************************************************************)
EXTENDS Naturals, FiniteSets

CONSTANTS
    MaxSockets,             \* bound on connections of the agent
    MaxUnauthenticated,     \* maximumUnauthenticatedConnections
    PairingCodes            \* pairings the host allows, 1 in the standalone host

ASSUME HandshakeAssumption ==
    {MaxSockets, MaxUnauthenticated, PairingCodes} \subseteq Nat \ {0}

Sockets == 1 .. MaxSockets
Credential == 0 .. MaxSockets

VARIABLES
    stored,             \* the agent's stored credential, or 0
    agent,              \* phase of connectAgentWebSocket, by socket
    key,                \* the credential it loaded, or 0
    saving,             \* credentialStore calls under way for a new pairing
    agentSocket,        \* the agent's end
    brokerSocket,       \* the broker's end: readyState
    broker,             \* phase of the upgrade and of the authentication
    cred,               \* state.transcript.credentialId, or 0
    answered,           \* the last response sent to the agent
    op,                 \* pair or activate: asked for, done, or refused
    aborted,            \* authenticationAbortController has aborted
    provisional,        \* provisionalCredentialId is set
    generation,         \* the connection generation of an authentication
    unauthenticated,    \* unauthenticatedConnections
    registered,         \* agentConnectionsByCredential
    issued,             \* agentConnectionGenerationsByCredential
    revoked,            \* revokedCredentialIds
    revoking,           \* credentialRevocations: adapter.revoke under way
    records,            \* the credential records of the host
    codes,              \* pairings it still allows
    closing             \* the bridge was closed

agentVars == <<stored, agent, key, saving>>
adapterVars == <<op, records, codes>>
bridgeVars == <<registered, issued, revoked, revoking, closing>>
vars == <<agentVars, agentSocket, brokerSocket, broker, cred, answered, aborted, provisional,
          generation, unauthenticated, adapterVars, bridgeVars>>

AgentPhase == {"idle", "opening", "begin", "approving", "pairing", "finishing", "saving",
               "connected", "failed"}
(* Phases in which the broker waits for a message, and for something else  *)
Receiving == {"begin", "pairing", "finish"}
Awaiting == {"loading", "storing", "authenticating", "proving", "answering", "activating", "admitting"}
BrokerPhase == {"none", "upgrading", "accepted", "over"} \cup Receiving \cup Awaiting

Init ==
    /\ stored = 0 /\ codes = PairingCodes /\ closing = FALSE
    /\ agent = [s \in Sockets |-> "idle"] /\ key = [s \in Sockets |-> 0]
    /\ saving = [s \in Sockets |-> "none"]
    /\ agentSocket = [s \in Sockets |-> "none"] /\ brokerSocket = [s \in Sockets |-> "none"]
    /\ broker = [s \in Sockets |-> "none"] /\ cred = [s \in Sockets |-> 0]
    /\ answered = [s \in Sockets |-> "none"] /\ op = [s \in Sockets |-> "none"]
    /\ aborted = [s \in Sockets |-> FALSE] /\ provisional = [s \in Sockets |-> FALSE]
    /\ generation = [s \in Sockets |-> 0] /\ unauthenticated = {}
    /\ registered = [k \in Sockets |-> {}] /\ issued = [k \in Sockets |-> 0]
    /\ revoked = {} /\ revoking = {} /\ records = [k \in Sockets |-> "absent"]

-----------------------------------------------------------------------------
(* The agent.  Every await of the exchange ends with the socket.           *)
AgentOnly == UNCHANGED <<brokerSocket, broker, cred, answered, aborted, provisional, generation,
                         unauthenticated, adapterVars, bridgeVars>>
Step(s, from, to) == agent[s] = from /\ agent' = [agent EXCEPT ![s] = to]

Connect(s) ==
    /\ \A t \in 1 .. s - 1 : agent[t] # "idle"
    /\ Step(s, "idle", "opening")
    /\ key' = [key EXCEPT ![s] = stored]
    /\ UNCHANGED <<stored, saving, agentSocket>> /\ AgentOnly

Opened(s) ==
    /\ agentSocket[s] = "open" /\ Step(s, "opening", "begin")
    /\ UNCHANGED <<stored, key, saving, agentSocket>> /\ AgentOnly

BeginAnswered(s) ==
    /\ agentSocket[s] = "open" /\ answered[s] = "begin"
    /\ Step(s, "begin", IF key[s] = 0 THEN "approving" ELSE "finishing")
    /\ UNCHANGED <<stored, key, saving, agentSocket>> /\ AgentOnly

(* requestPairingCodeWithDeadline                                          *)
Approved(s) ==
    /\ Step(s, "approving", "pairing")
    /\ UNCHANGED <<stored, key, saving, agentSocket>> /\ AgentOnly

PairAnswered(s) ==
    /\ agentSocket[s] = "open" /\ answered[s] = "pair"
    /\ Step(s, "pairing", "finishing")
    /\ UNCHANGED <<stored, key, saving, agentSocket>> /\ AgentOnly

FinishAnswered(s) ==
    /\ agentSocket[s] = "open" /\ answered[s] = "finish"
    /\ Step(s, "finishing", IF key[s] = 0 THEN "saving" ELSE "connected")
    /\ saving' = [saving EXCEPT ![s] = IF key[s] = 0 THEN "save" ELSE "none"]
    /\ UNCHANGED <<stored, key, agentSocket>> /\ AgentOnly

(* A credential whose connection failed meanwhile is removed again.        *)
AfterSave(s) == IF agent[s] = "saving" THEN "none" ELSE "remove"

Saved(s) ==
    /\ saving[s] = "save"
    /\ stored' = s
    /\ saving' = [saving EXCEPT ![s] = AfterSave(s)]
    /\ agent' = [agent EXCEPT ![s] = IF @ = "saving" THEN "connected" ELSE @]
    /\ UNCHANGED <<key, agentSocket>> /\ AgentOnly

SaveFails(s) ==
    /\ saving[s] = "save"
    /\ saving' = [saving EXCEPT ![s] = "none"]
    /\ agent' = [agent EXCEPT ![s] = "failed"]
    /\ agentSocket' = [agentSocket EXCEPT ![s] = "closed"]
    /\ UNCHANGED <<stored, key>> /\ AgentOnly

CredentialRemoved(s) ==
    /\ saving[s] = "remove"
    /\ stored' = IF stored = s THEN 0 ELSE stored
    /\ saving' = [saving EXCEPT ![s] = "none"]
    /\ UNCHANGED <<agent, key, agentSocket>> /\ AgentOnly

(* A deadline passes, an error response, or an approval that is refused    *)
AgentGivesUp(s) ==
    /\ agent[s] \in {"opening", "begin", "approving", "pairing", "finishing"}
    /\ agent' = [agent EXCEPT ![s] = "failed"]
    /\ agentSocket' = [agentSocket EXCEPT ![s] = "closed"]
    /\ UNCHANGED <<stored, key, saving>> /\ AgentOnly

(* The agent's end closes: by itself, by the peer, or with the network.    *)
AgentSocketCloses(s) ==
    /\ agentSocket[s] = "open"
    /\ agentSocket' = [agentSocket EXCEPT ![s] = "closed"]
    /\ agent' = [agent EXCEPT ![s] = IF @ = "connected" THEN @ ELSE "failed"]
    /\ UNCHANGED <<stored, key, saving>> /\ AgentOnly

-----------------------------------------------------------------------------
(* The bridge.                                                             *)
Closed(ends, which) == [s \in Sockets |-> IF s \in which /\ ends[s] = "open" THEN "closing" ELSE ends[s]]
IsOpen(s) == brokerSocket[s] = "open"
Available(k) == k \notin revoked

(* revokeCredential, together with the sockets a step closes itself        *)
EndedHandshakes(k) == {t \in registered[k] : broker[t] # "accepted"}
EndedConnections(k) == registered[k]

RevokeAndClose(k, close) ==
    /\ revoked' = revoked \cup {k}
    /\ brokerSocket' = Closed(brokerSocket, EndedConnections(k) \cup close)
    /\ revoking' = revoking \cup {k}
    /\ registered' = [registered EXCEPT ![k] = {}]

(* sendAuthenticationError, and the socket closes                          *)
Fails(s) ==
    /\ broker' = [broker EXCEPT ![s] = "over"]
    /\ brokerSocket' = Closed(brokerSocket, {s})
    /\ UNCHANGED <<cred, answered, provisional, generation, registered, issued, revoked, revoking>>

Goes(s, to, response) ==
    /\ broker' = [broker EXCEPT ![s] = to]
    /\ answered' = [answered EXCEPT ![s] = response]

Upgrade(s) ==
    /\ agent[s] = "opening" /\ broker[s] = "none" /\ ~closing
    /\ Cardinality({t \in Sockets : broker[t] = "upgrading"}) + Cardinality(unauthenticated) < MaxUnauthenticated
    /\ broker' = [broker EXCEPT ![s] = "upgrading"]
    /\ UNCHANGED <<agentVars, agentSocket, brokerSocket, cred, answered, aborted, provisional,
                   generation, unauthenticated, adapterVars, bridgeVars>>

(* The origin policy answers, or the upgrade times out.                    *)
Upgraded(s) ==
    /\ broker[s] = "upgrading"
    /\ \/ /\ agent[s] = "opening"
          /\ broker' = [broker EXCEPT ![s] = "begin"]
          /\ brokerSocket' = [brokerSocket EXCEPT ![s] = "open"]
          /\ agentSocket' = [agentSocket EXCEPT ![s] = "open"]
          /\ unauthenticated' = unauthenticated \cup {s}
       \/ /\ broker' = [broker EXCEPT ![s] = "over"]
          /\ UNCHANGED <<brokerSocket, agentSocket, unauthenticated>>
    /\ UNCHANGED <<agentVars, cred, answered, aborted, provisional, generation, adapterVars, bridgeVars>>

Receives(s, phase, from) == broker[s] = phase /\ agent[s] = from /\ IsOpen(s)

ReceiveBegin(s) ==
    /\ Receives(s, "begin", "begin")
    /\ IF key[s] \in revoked
       THEN Fails(s)
       ELSE /\ IF key[s] = 0
               THEN Goes(s, "pairing", "begin") /\ cred' = [cred EXCEPT ![s] = s]
               ELSE Goes(s, "loading", "none") /\ UNCHANGED cred
            /\ UNCHANGED <<brokerSocket, provisional, generation, registered, issued, revoked, revoking>>
    /\ UNCHANGED <<agentVars, agentSocket, aborted, unauthenticated, adapterVars, closing>>

Loaded(s) ==
    /\ broker[s] = "loading"
    /\ IF IsOpen(s) /\ Available(key[s]) /\ records[key[s]] = "active"
       THEN /\ Goes(s, "finish", "begin")
            /\ cred' = [cred EXCEPT ![s] = key[s]]
            /\ registered' = [registered EXCEPT ![key[s]] = @ \cup {s}]
            /\ UNCHANGED <<brokerSocket, provisional, generation, issued, revoked, revoking>>
       ELSE Fails(s)
    /\ UNCHANGED <<agentVars, agentSocket, aborted, unauthenticated, adapterVars, closing>>

ReceivePair(s) ==
    /\ Receives(s, "pairing", "pairing")
    /\ broker' = [broker EXCEPT ![s] = "storing"]
    /\ op' = [op EXCEPT ![s] = "pair"]
    /\ UNCHANGED <<agentVars, agentSocket, brokerSocket, cred, answered, aborted, provisional,
                   generation, unauthenticated, records, codes, bridgeVars>>

(* adapter.pair of the standalone host; the code may also be wrong.        *)
PairStored(s) ==
    /\ op[s] = "pair"
    /\ \/ /\ codes > 0
          /\ codes' = codes - 1
          /\ records' = [records EXCEPT ![s] = "pending"]
          /\ op' = [op EXCEPT ![s] = "done"]
       \/ /\ op' = [op EXCEPT ![s] = "refused"]
          /\ UNCHANGED <<codes, records>>
    /\ UNCHANGED <<agentVars, agentSocket, brokerSocket, broker, cred, answered, aborted, provisional,
                   generation, unauthenticated, bridgeVars>>

(* What became of an operation nobody waits for any more: the credential   *)
(* it has made is revoked.                                                 *)
LateKept(s) == UNCHANGED <<brokerSocket, registered, revoked, revoking>>
Late(s) ==
    IF op[s] = "done" THEN RevokeAndClose(s, {})
    ELSE UNCHANGED <<brokerSocket, registered, revoked, revoking>>

PairSettles(s) ==
    /\ op[s] \in {"done", "refused"} /\ broker[s] \in {"storing", "over"} /\ ~provisional[s]
    /\ op' = [op EXCEPT ![s] = "none"]
    /\ IF broker[s] = "over"
       THEN Late(s) /\ UNCHANGED <<broker, cred, answered, provisional, generation, issued>>
       ELSE IF op[s] = "refused"
       THEN Fails(s)
       ELSE IF ~IsOpen(s)
       THEN /\ RevokeAndClose(s, {s})
            /\ broker' = [broker EXCEPT ![s] = "over"]
            /\ UNCHANGED <<cred, answered, provisional, generation, issued>>
       ELSE /\ provisional' = [provisional EXCEPT ![s] = TRUE]
            /\ IF Available(s)
               THEN /\ Goes(s, "finish", "pair")
                    /\ registered' = [registered EXCEPT ![s] = @ \cup {s}]
                    /\ UNCHANGED brokerSocket
               ELSE /\ broker' = [broker EXCEPT ![s] = "over"]
                    /\ brokerSocket' = Closed(brokerSocket, {s})
                    /\ UNCHANGED <<answered, registered>>
            /\ UNCHANGED <<cred, generation, issued, revoked, revoking>>
    /\ UNCHANGED <<agentVars, agentSocket, aborted, unauthenticated, records, codes, closing>>

(* A generation is issued before the proof of the broker is made.          *)
Proving(s) ==
    /\ broker' = [broker EXCEPT ![s] = "proving"]
    /\ issued' = [issued EXCEPT ![cred[s]] = @ + 1]
    /\ generation' = [generation EXCEPT ![s] = issued[cred[s]] + 1]
    /\ UNCHANGED <<cred, answered, provisional, brokerSocket, registered, revoked, revoking>>

ReceiveFinish(s) ==
    /\ Receives(s, "finish", "finishing")
    /\ IF ~Available(cred[s]) THEN Fails(s)
       ELSE IF provisional[s] THEN Proving(s)
       ELSE /\ broker' = [broker EXCEPT ![s] = "authenticating"]
            /\ UNCHANGED <<brokerSocket, cred, answered, provisional, generation, registered, issued, revoked, revoking>>
    /\ UNCHANGED <<agentVars, agentSocket, aborted, unauthenticated, adapterVars, closing>>

Authenticated(s) ==
    /\ broker[s] = "authenticating"
    /\ IF IsOpen(s) /\ Available(cred[s]) /\ records[cred[s]] = "active" THEN Proving(s) ELSE Fails(s)
    /\ UNCHANGED <<agentVars, agentSocket, aborted, unauthenticated, adapterVars, closing>>

Proved(s) ==
    /\ broker[s] = "proving"
    /\ IF IsOpen(s)
       THEN /\ Goes(s, "answering", "finish")
            /\ UNCHANGED <<brokerSocket, cred, provisional, generation, registered, issued, revoked, revoking>>
       ELSE Fails(s)
    /\ UNCHANGED <<agentVars, agentSocket, aborted, unauthenticated, adapterVars, closing>>

(* onAuthenticated: other connections of the credential are superseded,    *)
(* those still authenticating included; the host may then reject this one. *)
SupersededNone(s) == {}
Superseded(s) == registered[cred[s]] \ {s}

Accepts(s) ==
    \/ /\ broker' = [broker EXCEPT ![s] = "accepted"]
       /\ provisional' = [provisional EXCEPT ![s] = FALSE]
       /\ unauthenticated' = unauthenticated \ {s}
       /\ brokerSocket' = Closed(brokerSocket, Superseded(s))
       /\ UNCHANGED <<registered, revoked, revoking>>
    \/ /\ broker' = [broker EXCEPT ![s] = "over"]
       /\ IF provisional[s] THEN RevokeAndClose(s, {s} \cup Superseded(s))
          ELSE /\ brokerSocket' = Closed(brokerSocket, {s} \cup Superseded(s))
               /\ UNCHANGED <<registered, revoked, revoking>>
       /\ UNCHANGED <<provisional, unauthenticated>>

Admissible(s) == IsOpen(s) /\ Available(cred[s])

ResponseSent(s) ==
    /\ broker[s] = "answering"
    /\ IF ~Admissible(s) THEN Fails(s) /\ UNCHANGED <<op, unauthenticated>>
       ELSE /\ UNCHANGED <<cred, answered, generation, issued>>
            /\ IF provisional[s]
               THEN /\ broker' = [broker EXCEPT ![s] = "activating"]
                    /\ op' = [op EXCEPT ![s] = "activate"]
                    /\ UNCHANGED <<provisional, brokerSocket, unauthenticated, registered, revoked, revoking>>
               ELSE Accepts(s) /\ UNCHANGED op
    /\ UNCHANGED <<agentVars, agentSocket, aborted, records, codes, closing>>

(* adapter.activate of the standalone host                                 *)
ActivationStored(s) ==
    /\ op[s] = "activate"
    /\ IF records[s] = "pending"
       THEN records' = [records EXCEPT ![s] = "active"] /\ op' = [op EXCEPT ![s] = "done"]
       ELSE op' = [op EXCEPT ![s] = "refused"] /\ UNCHANGED records
    /\ UNCHANGED <<agentVars, agentSocket, brokerSocket, broker, cred, answered, aborted, provisional,
                   generation, unauthenticated, codes, bridgeVars>>

ActivationSettles(s) ==
    /\ op[s] \in {"done", "refused"} /\ broker[s] \in {"activating", "over"} /\ provisional[s]
    /\ op' = [op EXCEPT ![s] = "none"]
    /\ IF broker[s] = "over"
       THEN /\ IF aborted[s] THEN Late(s) ELSE UNCHANGED <<brokerSocket, registered, revoked, revoking>>
            /\ UNCHANGED <<broker, cred, answered, provisional, generation, issued>>
       ELSE IF op[s] = "done" /\ Admissible(s)
       THEN /\ broker' = [broker EXCEPT ![s] = "admitting"]
            /\ UNCHANGED <<brokerSocket, cred, answered, provisional, generation, registered, issued, revoked, revoking>>
       ELSE Fails(s)
    /\ UNCHANGED <<agentVars, agentSocket, aborted, unauthenticated, records, codes, closing>>

Admitted(s) ==
    /\ broker[s] = "admitting"
    /\ IF ~Admissible(s) THEN Fails(s) /\ UNCHANGED unauthenticated
       ELSE /\ UNCHANGED <<cred, answered, generation, issued>>
            /\ IF records[s] = "active" THEN Accepts(s)
               ELSE /\ broker' = [broker EXCEPT ![s] = "over"]
                    /\ RevokeAndClose(s, {s})
                    /\ UNCHANGED <<provisional, unauthenticated>>
    /\ UNCHANGED <<agentVars, agentSocket, aborted, adapterVars, closing>>

(* The deadline of the handshake, or of the pairing                        *)
TimedOut(s) ==
    /\ broker[s] \in Receiving \cup Awaiting /\ IsOpen(s)
    /\ broker' = [broker EXCEPT ![s] = "over"]
    /\ aborted' = [aborted EXCEPT ![s] = TRUE]
    /\ brokerSocket' = Closed(brokerSocket, {s})
    /\ UNCHANGED <<agentVars, agentSocket, cred, answered, provisional, generation, unauthenticated, adapterVars, bridgeVars>>

(* Too many messages wait for an authentication that the agent has seen    *)
(* completed: it fails, and aborts what it awaits only when it has closed. *)
Overflows(s) ==
    /\ broker[s] \in {"answering", "activating", "admitting"} /\ IsOpen(s)
    /\ agent[s] = "connected"
    /\ Fails(s)
    /\ UNCHANGED <<agentVars, agentSocket, aborted, unauthenticated, adapterVars, closing>>

(* The close event at the broker                                           *)
Released(s) == {s}

BrokerSocketCloses(s) ==
    /\ brokerSocket[s] \in {"open", "closing"}
    /\ unauthenticated' = unauthenticated \ Released(s)
    /\ IF broker[s] = "accepted"
       THEN /\ brokerSocket' = [brokerSocket EXCEPT ![s] = "closed"]
            /\ registered' = [k \in Sockets |-> registered[k] \ {s}]
            /\ UNCHANGED <<broker, aborted, revoked, revoking>>
       ELSE /\ broker' = [broker EXCEPT ![s] = "over"]
            /\ aborted' = [aborted EXCEPT ![s] = TRUE]
            /\ IF provisional[s]
               THEN /\ revoked' = revoked \cup {s} /\ revoking' = revoking \cup {s}
                    /\ brokerSocket' = [Closed(brokerSocket, EndedConnections(s)) EXCEPT ![s] = "closed"]
                    /\ registered' = [k \in Sockets |-> IF k = s THEN {} ELSE registered[k] \ {s}]
               ELSE /\ brokerSocket' = [brokerSocket EXCEPT ![s] = "closed"]
                    /\ registered' = [k \in Sockets |-> registered[k] \ {s}]
                    /\ UNCHANGED <<revoked, revoking>>
    /\ UNCHANGED <<agentVars, agentSocket, cred, answered, provisional, generation, adapterVars, issued, closing>>

(* adapter.revoke of the standalone host                                   *)
RevocationStored(k) ==
    /\ k \in revoking
    /\ revoking' = revoking \ {k}
    /\ records' = [records EXCEPT ![k] = "absent"]
    /\ UNCHANGED <<agentVars, agentSocket, brokerSocket, broker, cred, answered, aborted, provisional, generation,
                   unauthenticated, op, codes, registered, issued, revoked, closing>>

(* revokeAgentCredential, by the host                                      *)
HostRevokes(k) ==
    /\ records[k] # "absent"
    /\ RevokeAndClose(k, {})
    /\ UNCHANGED <<agentVars, agentSocket, broker, cred, answered, aborted, provisional, generation,
                   unauthenticated, adapterVars, issued, closing>>

CloseBridge ==
    /\ ~closing /\ closing' = TRUE
    /\ broker' = [s \in Sockets |-> IF broker[s] = "upgrading" THEN "over" ELSE broker[s]]
    /\ brokerSocket' = Closed(brokerSocket, Sockets)
    /\ UNCHANGED <<agentVars, agentSocket, cred, answered, aborted, provisional, generation,
                   unauthenticated, adapterVars, registered, issued, revoked, revoking>>

AgentNext(s) ==
    \/ Connect(s) \/ Opened(s) \/ BeginAnswered(s) \/ Approved(s) \/ PairAnswered(s) \/ FinishAnswered(s)
    \/ Saved(s) \/ SaveFails(s) \/ CredentialRemoved(s) \/ AgentGivesUp(s) \/ AgentSocketCloses(s)

BridgeNext(s) ==
    \/ Upgrade(s) \/ Upgraded(s) \/ ReceiveBegin(s) \/ Loaded(s) \/ ReceivePair(s) \/ PairStored(s)
    \/ PairSettles(s) \/ ReceiveFinish(s) \/ Authenticated(s) \/ Proved(s) \/ ResponseSent(s)
    \/ ActivationStored(s) \/ ActivationSettles(s) \/ Admitted(s) \/ TimedOut(s) \/ Overflows(s)
    \/ BrokerSocketCloses(s)
    \/ RevocationStored(s) \/ HostRevokes(s)

Next == CloseBridge \/ \E s \in Sockets : AgentNext(s) \/ BridgeNext(s)

Spec == Init /\ [][Next]_vars

(* Deadlines pass, a closing socket closes, the adapter and the agent's    *)
(* store answer.                                                           *)
FairSpec ==
    /\ Spec
    /\ \A s \in Sockets :
          /\ WF_vars(Saved(s) \/ SaveFails(s)) /\ WF_vars(CredentialRemoved(s))
          /\ WF_vars(TimedOut(s)) /\ WF_vars(BrokerSocketCloses(s) /\ ~IsOpen(s))
          /\ WF_vars(PairStored(s)) /\ WF_vars(PairSettles(s))
          /\ WF_vars(ActivationStored(s)) /\ WF_vars(ActivationSettles(s))
          /\ WF_vars(RevocationStored(s))

-----------------------------------------------------------------------------
(* A slot is taken by exactly the connections that are neither             *)
(* authenticated nor closed: none is lost or given back twice, however a   *)
(* handshake ends.  With the upgrades that still wait for the origin       *)
(* policy there are never more of them than the bridge allows.             *)
Occupying(s) == broker[s] # "accepted" /\ brokerSocket[s] \in {"open", "closing"}

SlotsAreLimited ==
    /\ unauthenticated = {s \in Sockets : Occupying(s)}
    /\ Cardinality({t \in Sockets : broker[t] = "upgrading"}) + Cardinality(unauthenticated) =< MaxUnauthenticated

(* The maps keep their types.                                              *)
TypeOK ==
    /\ stored \in Credential /\ key \in [Sockets -> Credential] /\ agent \in [Sockets -> AgentPhase]
    /\ saving \in [Sockets -> {"none", "save", "remove"}]
    /\ agentSocket \in [Sockets -> {"none", "open", "closed"}]
    /\ brokerSocket \in [Sockets -> {"none", "open", "closing", "closed"}]
    /\ broker \in [Sockets -> BrokerPhase] /\ cred \in [Sockets -> Credential]
    /\ op \in [Sockets -> {"none", "pair", "activate", "done", "refused"}]
    /\ \A s \in Sockets : generation[s] > 0 => generation[s] =< issued[cred[s]]

Served(s) == broker[s] = "accepted" /\ IsOpen(s)

(* However handshakes of one credential overlap, one connection of it is   *)
(* served at a time.                                                       *)
OneConnectionServed ==
    \A s, t \in Sockets : Served(s) /\ Served(t) /\ cred[s] = cred[t] => s = t

(* What is served has a credential that is active at the host and was not  *)
(* revoked, whichever await the revocation fell into; a closed bridge      *)
(* serves nobody.                                                          *)
ServedIsAuthorized ==
    \A s \in Sockets : Served(s) =>
        /\ Available(cred[s]) /\ records[cred[s]] = "active" /\ cred[s] \notin revoking
        /\ ~closing

(* A pairing whose connection was not accepted leaves no credential at the *)
(* host, whenever the connection went.                                     *)
AbandonedPairingRevoked ==
    \A s \in Sockets : <>[](broker[s] = "over" => records[s] = "absent")

=============================================================================
