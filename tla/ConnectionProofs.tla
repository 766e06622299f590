------------------------- MODULE ConnectionProofs --------------------------
(* What is proved about the connections of the bridge: the handshake of an *)
(* agent (AgentHandshake), the browser installation that authenticates and *)
(* is installed as provider (BrokerProviders), and the client that         *)
(* reconnects (ReconnectingClient), for any number of sockets, attempts,   *)
(* pairings, subscriptions and reconnections.                              *)
EXTENDS AgentHandshake, BrokerProviders, ReconnectingClient, FiniteSetTheorems, SequenceTheorems,
        WellFoundedInduction, TLAPS

(* A set of numbers that is not empty has a least one.                     *)
LEMMA NatMin ==
    ASSUME NEW S \in SUBSET Nat, S # {}
    PROVE  \E t \in S : \A u \in S : t =< u
<1>1. IsWellFoundedOn(OpToRel(<, Nat), Nat)
    BY NatLessThanWellFounded, Zenon
<1>2. PICK t \in S : \A u \in S : ~(<<u, t>> \in OpToRel(<, Nat))
    BY <1>1, WFMin, Zenon
<1>3. \A u \in S : ~(u < t)
    BY <1>2, Zenon DEF OpToRel
<1> QED BY <1>3

-----------------------------------------------------------------------------
(* The handshake of an agent: the inductive invariant                      *)

SocketStates == {"none", "open", "closing", "closed"}
Operations == {"none", "pair", "activate", "done", "refused"}

HandshakeTypes ==
    /\ stored \in Credential /\ key \in [Sockets -> Credential] /\ agent \in [Sockets -> AgentPhase]
    /\ brokerSocket \in [Sockets -> SocketStates]
    /\ broker \in [Sockets -> BrokerPhase] /\ cred \in [Sockets -> Credential]
    /\ op \in [Sockets -> Operations]
    /\ provisional \in [Sockets -> BOOLEAN]
    /\ registered \in [Sockets -> SUBSET Sockets]
    /\ records \in [Sockets -> {"absent", "pending", "active"}]

(* Phases before and after a connection is registered for its credential   *)
Unregistered == {"none", "upgrading", "begin", "loading", "pairing", "storing"}
Registering == {"finish", "authenticating", "proving", "answering", "activating", "admitting", "accepted"}

(* The credential of a connection is the one the agent loaded or the one   *)
(* it is pairing, and a provisional one is its own.                        *)
CredentialFollows(t) ==
    /\ broker[t] = "loading" => agent[t] # "idle" /\ key[t] \in Sockets
    /\ broker[t] \in {"pairing", "storing"} => cred[t] = t
    /\ broker[t] \in Registering => cred[t] \in Sockets
    /\ provisional[t] => cred[t] = t /\ broker[t] \notin Unregistered
    /\ broker[t] \in {"activating", "admitting"} => provisional[t]
    /\ broker[t] = "accepted" => ~provisional[t]

(* A connection the bridge may come to serve can be found by its           *)
(* credential, so that a revocation or a newer connection closes it.       *)
FoundByCredential(t) ==
    broker[t] \in Registering /\ IsOpen(t) => t \in registered[cred[t]]

(* A pairing is stored once, before anything else is.                      *)
PairedOnce(t) ==
    /\ broker[t] \in {"none", "upgrading", "begin", "pairing"} => op[t] = "none" /\ records[t] = "absent"
    /\ op[t] = "pair" => records[t] = "absent"

(* What was authenticated with an active credential has one as long as it  *)
(* is not revoked.                                                         *)
ActiveUntilRevoked(t) ==
    broker[t] \in {"proving", "answering", "accepted"} /\ ~provisional[t] /\ Available(cred[t])
        => records[cred[t]] = "active"

ServedIsAvailable(t) == Served(t) => Available(cred[t])
ClosedServesNobody(t) == closing => ~IsOpen(t) /\ broker[t] # "upgrading"

SocketOK(t) ==
    /\ CredentialFollows(t) /\ FoundByCredential(t) /\ PairedOnce(t) /\ ActiveUntilRevoked(t)
    /\ ServedIsAvailable(t) /\ ClosedServesNobody(t)

HandshakeInv ==
    /\ HandshakeTypes /\ revoking \subseteq revoked /\ OneConnectionServed
    /\ \A t \in Sockets : SocketOK(t)

(* It holds before anybody connects.                                       *)
LEMMA HandshakeInitially == Init => HandshakeInv
BY HandshakeAssumption
   DEF Operations, Init, HandshakeInv, HandshakeTypes, OneConnectionServed, Served, SocketOK, CredentialFollows,
       FoundByCredential, PairedOnce, ActiveUntilRevoked, ServedIsAvailable, ClosedServesNobody,
       Unregistered, Registering, IsOpen, Sockets, Credential, AgentPhase, BrokerPhase, SocketStates

-----------------------------------------------------------------------------
(* What the steps are made of                                              *)

(* Closing some sockets leaves exactly the others open.                    *)
LEMMA ClosedLeaves ==
    ASSUME brokerSocket \in [Sockets -> SocketStates], NEW W, brokerSocket' = Closed(brokerSocket, W)
    PROVE  /\ brokerSocket' \in [Sockets -> SocketStates]
           /\ \A t \in Sockets : IsOpen(t)' <=> IsOpen(t) /\ t \notin W
BY DEF Closed, IsOpen, SocketStates

(* A socket whose handshake a step does not touch stays in order, although *)
(* the step may close it, revoke a credential or register others.          *)
LEMMA Bystander ==
    ASSUME NEW t \in Sockets, SocketOK(t),
           broker'[t] = broker[t], cred'[t] = cred[t], provisional'[t] = provisional[t], op'[t] = op[t],
           agent'[t] = "idle" => agent[t] = "idle",
           key'[t] = key[t] \/ broker[t] # "loading",
           records'[t] \in {records[t], "absent"},
           revoked \subseteq revoked',
           IsOpen(t)' => /\ IsOpen(t) /\ (cred[t] \in revoked' => cred[t] \in revoked)
                         /\ t \in registered[cred[t]] => t \in registered'[cred[t]],
           records[cred[t]] = "active" /\ cred[t] \notin revoked' => records'[cred[t]] = "active",
           closing' => closing \/ (~IsOpen(t)' /\ broker'[t] # "upgrading")
    PROVE  SocketOK(t)'
<1>1. CredentialFollows(t)'
    BY DEF SocketOK, CredentialFollows
<1>2. FoundByCredential(t)'
    BY DEF SocketOK, FoundByCredential
<1>3. PairedOnce(t)'
    BY DEF SocketOK, PairedOnce
<1>4. ActiveUntilRevoked(t)'
    BY DEF SocketOK, ActiveUntilRevoked, Available
<1>5. ServedIsAvailable(t)' /\ ClosedServesNobody(t)'
    BY DEF SocketOK, ServedIsAvailable, ClosedServesNobody, Served, Available
<1> QED
    BY <1>1, <1>2, <1>3, <1>4, <1>5 DEF SocketOK

(* Nobody new is served, so still one connection of each credential is.    *)
LEMMA NobodyNewServed ==
    ASSUME OneConnectionServed,
           \A t \in Sockets : Served(t)' => Served(t) /\ cred'[t] = cred[t]
    PROVE  OneConnectionServed'
BY DEF OneConnectionServed

-----------------------------------------------------------------------------
(* The steps of the agent touch nothing of the bridge.                     *)
LEMMA AgentStep ==
    ASSUME HandshakeInv, NEW s \in Sockets, AgentNext(s)
    PROVE  HandshakeInv'
<1>1. /\ UNCHANGED <<brokerSocket, broker, cred, op, provisional, registered, revoked, revoking, records, closing>>
      /\ stored' \in Credential
      /\ agent' \in [Sockets -> AgentPhase] /\ key' \in [Sockets -> Credential]
      /\ \A t \in Sockets : /\ agent'[t] = "idle" => agent[t] = "idle"
                            /\ key'[t] = key[t] \/ broker[t] # "loading"
    <2>0. /\ stored \in Credential /\ agent \in [Sockets -> AgentPhase] /\ key \in [Sockets -> Credential]
          /\ \A t \in Sockets : broker[t] = "loading" => agent[t] # "idle"
          /\ s \in Credential /\ 0 \in Credential
        BY HandshakeAssumption DEF HandshakeInv, HandshakeTypes, SocketOK, CredentialFollows, Sockets, Credential
    <2>1. CASE Connect(s)
        BY <2>0, <2>1 DEF Connect, AgentOnly, Step, adapterVars, bridgeVars, AgentPhase
    <2>2. CASE Opened(s) \/ BeginAnswered(s) \/ Approved(s) \/ PairAnswered(s) \/ FinishAnswered(s)
        BY <2>0, <2>2 DEF Opened, BeginAnswered, Approved, PairAnswered, FinishAnswered, AgentOnly, Step,
                          adapterVars, bridgeVars, AgentPhase
    <2>3. CASE Saved(s) \/ SaveFails(s) \/ CredentialRemoved(s)
        BY <2>0, <2>3 DEF Saved, SaveFails, CredentialRemoved, AgentOnly, adapterVars, bridgeVars, AgentPhase
    <2>4. CASE AgentGivesUp(s) \/ AgentSocketCloses(s)
        BY <2>0, <2>4 DEF AgentGivesUp, AgentSocketCloses, AgentOnly, adapterVars, bridgeVars, AgentPhase
    <2> QED
        BY <2>1, <2>2, <2>3, <2>4 DEF AgentNext
<1>2. \A t \in Sockets : SocketOK(t)'
    BY <1>1, Bystander DEF HandshakeInv, IsOpen
<1>3. OneConnectionServed'
    BY <1>1, NobodyNewServed DEF HandshakeInv, Served, IsOpen
<1> QED
    BY <1>1, <1>2, <1>3 DEF HandshakeInv, HandshakeTypes

-----------------------------------------------------------------------------
(* A handshake fails: its socket closes, and all else stays.               *)
LEMMA HandshakeFails ==
    ASSUME HandshakeInv, NEW s \in Sockets, Fails(s),
           UNCHANGED <<agent, key, stored, records, closing>>,
           op' \in [Sockets -> Operations],
           \A t \in Sockets \ {s} : op'[t] = op[t],
           op'[s] \in {op[s], "none"}
    PROVE  HandshakeInv'
<1>0. /\ HandshakeTypes /\ (\A t \in Sockets : SocketOK(t)) /\ OneConnectionServed /\ revoking \subseteq revoked
    BY DEF HandshakeInv
<1>1. /\ broker' \in [Sockets -> BrokerPhase] /\ broker'[s] = "over"
      /\ \A t \in Sockets \ {s} : broker'[t] = broker[t]
    BY <1>0 DEF Fails, HandshakeTypes, BrokerPhase
<1>2. /\ brokerSocket' \in [Sockets -> SocketStates]
      /\ \A t \in Sockets : IsOpen(t)' <=> IsOpen(t) /\ t \notin {s}
    BY <1>0, ClosedLeaves DEF Fails, HandshakeTypes, SocketStates
<1>3. UNCHANGED <<cred, provisional, registered, revoked, revoking>>
    BY DEF Fails
<1>4. ASSUME NEW t \in Sockets \ {s} PROVE SocketOK(t)'
    BY <1>0, <1>1, <1>2, <1>3, <1>4, Bystander
<1>5. SocketOK(s)'
    BY <1>0, <1>1, <1>2, <1>3
       DEF SocketOK, CredentialFollows, FoundByCredential, PairedOnce, ActiveUntilRevoked,
           ServedIsAvailable, ClosedServesNobody, Served, Unregistered, Registering
<1>6. OneConnectionServed'
    BY <1>0, <1>1, <1>2, <1>3, NobodyNewServed DEF Served
<1> QED
    BY <1>0, <1>1, <1>2, <1>3, <1>4, <1>5, <1>6 DEF HandshakeInv, HandshakeTypes, SocketStates

(* A handshake goes on, and its connection is neither registered nor       *)
(* served by that: the conditions of the phase it reaches are what is left.*)
LEMMA GoesOn ==
    ASSUME HandshakeInv, NEW s \in Sockets, NEW p \in BrokerPhase \ {"accepted"},
           broker' = [broker EXCEPT ![s] = p],
           UNCHANGED <<agent, key, stored, brokerSocket, provisional, registered, revoked, revoking, closing, records>>,
           cred' \in [Sockets -> Credential],
           op' \in [Sockets -> Operations],
           \A t \in Sockets \ {s} : cred'[t] = cred[t] /\ op'[t] = op[t],
           CredentialFollows(s)', FoundByCredential(s)', PairedOnce(s)', ActiveUntilRevoked(s)',
           p = "upgrading" => ~closing
    PROVE  HandshakeInv'
<1>0. /\ HandshakeTypes /\ (\A t \in Sockets : SocketOK(t)) /\ OneConnectionServed /\ revoking \subseteq revoked
    BY DEF HandshakeInv
<1>1. /\ broker' \in [Sockets -> BrokerPhase] /\ broker'[s] = p
      /\ \A t \in Sockets \ {s} : broker'[t] = broker[t]
    BY <1>0 DEF HandshakeTypes
<1>2. \A t \in Sockets : IsOpen(t)' <=> IsOpen(t)
    BY DEF IsOpen
<1>3. ASSUME NEW t \in Sockets \ {s} PROVE SocketOK(t)'
    BY <1>0, <1>1, <1>2, Bystander
<1>4. SocketOK(s)'
    BY <1>0, <1>1, <1>2 DEF SocketOK, ServedIsAvailable, ClosedServesNobody, Served
<1>5. OneConnectionServed'
    BY <1>0, <1>1, <1>2, NobodyNewServed DEF Served
<1> QED
    BY <1>0, <1>1, <1>3, <1>4, <1>5 DEF HandshakeInv, HandshakeTypes

(* A credential is revoked: what is registered for it closes, and the      *)
(* handshake that led here is over.                                        *)
LEMMA Revoking ==
    ASSUME HandshakeInv, NEW s \in Sockets, NEW k \in Sockets, NEW W \in SUBSET Sockets,
           RevokeAndClose(k, W),
           broker' \in {broker, [broker EXCEPT ![s] = "over"]},
           UNCHANGED <<agent, key, stored, cred, provisional, closing, records>>,
           op' \in [Sockets -> Operations],
           \A t \in Sockets \ {s} : op'[t] = op[t],
           op'[s] \in {op[s], "none"}
    PROVE  HandshakeInv'
<1>0. /\ HandshakeTypes /\ (\A t \in Sockets : SocketOK(t)) /\ OneConnectionServed /\ revoking \subseteq revoked
    BY DEF HandshakeInv
<1>1. /\ broker' \in [Sockets -> BrokerPhase] /\ broker'[s] \in {broker[s], "over"}
      /\ \A t \in Sockets \ {s} : broker'[t] = broker[t]
    BY <1>0 DEF HandshakeTypes, BrokerPhase
<1>2. /\ brokerSocket' \in [Sockets -> SocketStates]
      /\ \A t \in Sockets : IsOpen(t)' <=> IsOpen(t) /\ t \notin registered[k] \cup W
    BY <1>0, ClosedLeaves DEF RevokeAndClose, EndedConnections, HandshakeTypes, SocketStates
<1>3. /\ revoked' = revoked \cup {k} /\ revoking' = revoking \cup {k}
      /\ registered' \in [Sockets -> SUBSET Sockets]
      /\ \A j \in Sockets : registered'[j] = IF j = k THEN {} ELSE registered[j]
    BY <1>0 DEF RevokeAndClose, HandshakeTypes
<1>4. ASSUME NEW t \in Sockets PROVE SocketOK(t)'
    <2>0. SocketOK(t) /\ op'[t] \in {op[t], "none"} /\ broker'[t] \in {broker[t], "over"}
        BY <1>0, <1>1
    <2>1. CredentialFollows(t)'
        BY <2>0, <1>1 DEF SocketOK, CredentialFollows, Unregistered, Registering
    <2>2. FoundByCredential(t)'
        BY <2>0, <1>2, <1>3 DEF SocketOK, CredentialFollows, FoundByCredential, Registering
    <2>3. PairedOnce(t)' /\ ActiveUntilRevoked(t)'
        BY <2>0, <1>3 DEF SocketOK, PairedOnce, ActiveUntilRevoked, Available
    <2>4. ServedIsAvailable(t)' /\ ClosedServesNobody(t)'
        BY <2>0, <1>2, <1>3 DEF SocketOK, ServedIsAvailable, ClosedServesNobody, Served, Available,
                                FoundByCredential, Registering
    <2> QED
        BY <2>1, <2>2, <2>3, <2>4 DEF SocketOK
<1>5. OneConnectionServed'
    BY <1>0, <1>1, <1>2, NobodyNewServed DEF Served
<1> QED
    BY <1>0, <1>1, <1>2, <1>3, <1>4, <1>5 DEF HandshakeInv, HandshakeTypes, SocketStates

(* A connection is accepted, or rejected by the host: the others of its    *)
(* credential are closed.                                                  *)
LEMMA Accepting ==
    ASSUME HandshakeInv, NEW s \in Sockets, Accepts(s), Admissible(s),
           broker[s] \in {"answering", "admitting"}, records[cred[s]] = "active" \/ ~provisional[s],
           UNCHANGED <<agent, key, stored, cred, op, closing, records>>
    PROVE  HandshakeInv'
<1>0. /\ HandshakeTypes /\ (\A t \in Sockets : SocketOK(t)) /\ OneConnectionServed /\ revoking \subseteq revoked
      /\ cred[s] \in Sockets /\ Superseded(s) \in SUBSET Sockets
    BY DEF HandshakeInv, HandshakeTypes, SocketOK, CredentialFollows, Registering, Superseded
<1>1. CASE /\ broker' = [broker EXCEPT ![s] = "accepted"]
           /\ provisional' = [provisional EXCEPT ![s] = FALSE]
           /\ brokerSocket' = Closed(brokerSocket, Superseded(s))
           /\ UNCHANGED <<registered, revoked, revoking>>
    <2>1. /\ broker' \in [Sockets -> BrokerPhase] /\ broker'[s] = "accepted"
          /\ provisional' \in [Sockets -> BOOLEAN] /\ ~provisional'[s]
          /\ \A t \in Sockets \ {s} : broker'[t] = broker[t] /\ provisional'[t] = provisional[t]
        BY <1>0, <1>1 DEF HandshakeTypes, BrokerPhase
    <2>2. /\ brokerSocket' \in [Sockets -> SocketStates]
          /\ \A t \in Sockets : IsOpen(t)' <=> IsOpen(t) /\ t \notin Superseded(s)
        BY <1>0, <1>1, ClosedLeaves DEF HandshakeTypes, SocketStates
    <2>3. ASSUME NEW t \in Sockets \ {s} PROVE SocketOK(t)'
        BY <1>0, <1>1, <2>1, <2>2, Bystander
    <2>4. SocketOK(s)'
        BY <1>0, <1>1, <2>1, <2>2
           DEF SocketOK, CredentialFollows, FoundByCredential, PairedOnce, ActiveUntilRevoked, ServedIsAvailable,
               ClosedServesNobody, Served, Unregistered, Registering, Admissible, Available
    <2>5. OneConnectionServed'
        <3>1. ASSUME NEW t \in Sockets, Served(t)', cred[t] = cred[s] PROVE t = s
            BY <1>0, <3>1, <2>1, <2>2
               DEF SocketOK, FoundByCredential, Served, Superseded, Registering
        <3>2. \A t \in Sockets \ {s} : Served(t)' => Served(t)
            BY <2>1, <2>2 DEF Served
        <3> QED
            BY <3>1, <3>2, <1>0 DEF OneConnectionServed
    <2> QED
        BY <1>0, <1>1, <2>1, <2>2, <2>3, <2>4, <2>5 DEF HandshakeInv, HandshakeTypes, SocketStates
<1>2. CASE /\ broker' = [broker EXCEPT ![s] = "over"] /\ provisional[s] /\ UNCHANGED provisional
           /\ RevokeAndClose(s, {s} \cup Superseded(s))
    BY <1>0, <1>2, Revoking DEF HandshakeTypes
<1>3. CASE /\ broker' = [broker EXCEPT ![s] = "over"] /\ UNCHANGED provisional
           /\ brokerSocket' = Closed(brokerSocket, {s} \cup Superseded(s))
           /\ UNCHANGED <<registered, revoked, revoking>>
    <2>1. /\ broker' \in [Sockets -> BrokerPhase] /\ broker'[s] = "over"
          /\ \A t \in Sockets \ {s} : broker'[t] = broker[t]
        BY <1>0, <1>3 DEF HandshakeTypes, BrokerPhase
    <2>2. /\ brokerSocket' \in [Sockets -> SocketStates]
          /\ \A t \in Sockets : IsOpen(t)' <=> IsOpen(t) /\ t \notin {s} \cup Superseded(s)
        BY <1>0, <1>3, ClosedLeaves DEF HandshakeTypes, SocketStates
    <2>3. ASSUME NEW t \in Sockets \ {s} PROVE SocketOK(t)'
        BY <1>0, <1>3, <2>1, <2>2, Bystander
    <2>4. SocketOK(s)'
        BY <1>0, <1>3, <2>1, <2>2
           DEF SocketOK, CredentialFollows, FoundByCredential, PairedOnce, ActiveUntilRevoked, ServedIsAvailable,
               ClosedServesNobody, Served, Unregistered, Registering
    <2>5. OneConnectionServed'
        BY <1>0, <1>3, <2>1, <2>2, NobodyNewServed DEF Served
    <2> QED
        BY <1>0, <1>3, <2>1, <2>2, <2>3, <2>4, <2>5 DEF HandshakeInv, HandshakeTypes, SocketStates
<1> QED
    BY <1>1, <1>2, <1>3 DEF Accepts

-----------------------------------------------------------------------------
(* The steps of the bridge                                                 *)

LEMMA UpgradeStep ==
    ASSUME HandshakeInv, NEW s \in Sockets, Upgrade(s) \/ Upgraded(s)
    PROVE  HandshakeInv'
<1>0. /\ HandshakeTypes /\ (\A t \in Sockets : SocketOK(t)) /\ OneConnectionServed /\ revoking \subseteq revoked
    BY DEF HandshakeInv
<1>1. PICK p \in {"upgrading", "begin", "over"} :
        /\ broker' = [broker EXCEPT ![s] = p] /\ broker[s] \in {"none", "upgrading"}
        /\ p # "over" => ~closing
        /\ brokerSocket' = IF p = "begin" THEN [brokerSocket EXCEPT ![s] = "open"] ELSE brokerSocket
        /\ UNCHANGED <<agent, key, stored, cred, op, provisional, registered, revoked, revoking, records, closing>>
    BY <1>0 DEF Upgrade, Upgraded, agentVars, adapterVars, bridgeVars, SocketOK, CredentialFollows, ClosedServesNobody
<1>2. /\ broker' \in [Sockets -> BrokerPhase] /\ broker'[s] = p
      /\ \A t \in Sockets \ {s} : broker'[t] = broker[t]
      /\ brokerSocket' \in [Sockets -> SocketStates]
      /\ \A t \in Sockets \ {s} : IsOpen(t)' <=> IsOpen(t)
      /\ p \in BrokerPhase \ (Registering \cup {"loading", "pairing", "storing"})
    BY <1>0, <1>1 DEF HandshakeTypes, IsOpen, SocketStates, BrokerPhase, Receiving, Registering
<1>3. ASSUME NEW t \in Sockets \ {s} PROVE SocketOK(t)'
    BY <1>0, <1>1, <1>2, Bystander
<1>4. SocketOK(s)'
    <2>0. SocketOK(s) /\ ~provisional'[s] /\ broker'[s] \in {"upgrading", "begin", "over"}
        BY <1>0, <1>1, <1>2 DEF SocketOK, CredentialFollows, Unregistered
    <2>1. CredentialFollows(s)' /\ FoundByCredential(s)' /\ ActiveUntilRevoked(s)'
        BY <2>0, <1>1 DEF CredentialFollows, FoundByCredential, ActiveUntilRevoked, Registering
    <2>2. PairedOnce(s)'
        BY <2>0, <1>1 DEF SocketOK, PairedOnce
    <2>3. ServedIsAvailable(s)' /\ ClosedServesNobody(s)'
        BY <2>0, <1>1, <1>2 DEF SocketOK, ServedIsAvailable, ClosedServesNobody, Served, IsOpen
    <2> QED
        BY <2>1, <2>2, <2>3 DEF SocketOK
<1>5. OneConnectionServed'
    BY <1>0, <1>1, <1>2, NobodyNewServed DEF Served
<1> QED
    BY <1>0, <1>1, <1>2, <1>3, <1>4, <1>5 DEF HandshakeInv, HandshakeTypes, SocketStates

LEMMA BeginStep ==
    ASSUME HandshakeInv, NEW s \in Sockets, ReceiveBegin(s)
    PROVE  HandshakeInv'
<1>0. HandshakeTypes /\ SocketOK(s) /\ s \in Credential /\ broker[s] = "begin" /\ agent[s] = "begin"
    BY DEF HandshakeInv, ReceiveBegin, Receives, Sockets, Credential
<1>1. /\ UNCHANGED <<agent, key, stored, op, records, closing>>
      /\ op' \in [Sockets -> Operations]
    BY <1>0 DEF ReceiveBegin, agentVars, adapterVars, HandshakeTypes
<1>2. CASE Fails(s)
    BY <1>0, <1>1, <1>2, HandshakeFails
<1>3. CASE key[s] = 0 /\ broker' = [broker EXCEPT ![s] = "pairing"] /\ cred' = [cred EXCEPT ![s] = s]
           /\ UNCHANGED <<brokerSocket, provisional, registered, revoked, revoking>>
    <2>1. /\ cred' \in [Sockets -> Credential] /\ cred'[s] = s /\ \A t \in Sockets \ {s} : cred'[t] = cred[t]
          /\ broker'[s] = "pairing" /\ "pairing" \in BrokerPhase \ {"accepted"}
        BY <1>0, <1>3 DEF HandshakeTypes, BrokerPhase, Receiving
    <2>2. CredentialFollows(s)' /\ FoundByCredential(s)' /\ PairedOnce(s)' /\ ActiveUntilRevoked(s)'
        BY <1>0, <1>1, <1>3, <2>1
           DEF SocketOK, CredentialFollows, FoundByCredential, PairedOnce, ActiveUntilRevoked, Unregistered, Registering
    <2> QED
        BY <1>0, <1>1, <1>3, <2>1, <2>2, GoesOn
<1>4. CASE key[s] # 0 /\ broker' = [broker EXCEPT ![s] = "loading"] /\ UNCHANGED cred
           /\ UNCHANGED <<brokerSocket, provisional, registered, revoked, revoking>>
    <2>0. key[s] \in Sockets
        <3>1. key[s] \in Credential
            BY <1>0 DEF HandshakeTypes
        <3> QED
            BY <1>4, <3>1, HandshakeAssumption DEF Credential, Sockets
    <2>1. broker'[s] = "loading" /\ "loading" \in BrokerPhase \ {"accepted"} /\ key[s] \in Sockets
        BY <1>0, <1>4, <2>0 DEF HandshakeTypes, BrokerPhase, Awaiting
    <2>2. CredentialFollows(s)' /\ FoundByCredential(s)' /\ PairedOnce(s)' /\ ActiveUntilRevoked(s)'
        BY <1>0, <1>1, <1>4, <2>1
           DEF SocketOK, CredentialFollows, FoundByCredential, PairedOnce, ActiveUntilRevoked, Unregistered, Registering
    <2> QED
        BY <1>0, <1>1, <1>4, <2>1, <2>2, GoesOn DEF HandshakeTypes
<1> QED
    BY <1>2, <1>3, <1>4 DEF ReceiveBegin, Goes

(* The credential of a connection is found in the store: the connection is *)
(* registered for it.                                                      *)
LEMMA LoadedStep ==
    ASSUME HandshakeInv, NEW s \in Sockets, Loaded(s)
    PROVE  HandshakeInv'
<1>0. /\ HandshakeTypes /\ (\A t \in Sockets : SocketOK(t)) /\ OneConnectionServed /\ revoking \subseteq revoked
      /\ broker[s] = "loading" /\ key[s] \in Sockets /\ key[s] \in Credential
    BY DEF HandshakeInv, HandshakeTypes, SocketOK, CredentialFollows, Loaded
<1>1. /\ UNCHANGED <<agent, key, stored, op, records, closing>>
      /\ op' \in [Sockets -> Operations]
    BY <1>0 DEF Loaded, agentVars, adapterVars, HandshakeTypes
<1>2. CASE Fails(s)
    BY <1>0, <1>1, <1>2, HandshakeFails
<1>3. CASE /\ broker' = [broker EXCEPT ![s] = "finish"]
           /\ cred' = [cred EXCEPT ![s] = key[s]]
           /\ registered' = [registered EXCEPT ![key[s]] = @ \cup {s}]
           /\ UNCHANGED <<brokerSocket, provisional, revoked, revoking>>
    <2>1. /\ broker' \in [Sockets -> BrokerPhase] /\ broker'[s] = "finish"
          /\ cred' \in [Sockets -> Credential] /\ cred'[s] = key[s]
          /\ \A t \in Sockets \ {s} : broker'[t] = broker[t] /\ cred'[t] = cred[t]
        BY <1>0, <1>3 DEF HandshakeTypes, BrokerPhase, Receiving
    <2>2. /\ registered' \in [Sockets -> SUBSET Sockets] /\ s \in registered'[key[s]]
          /\ \A k \in Sockets : registered[k] \subseteq registered'[k]
        BY <1>0, <1>3 DEF HandshakeTypes
    <2>3. \A t \in Sockets : IsOpen(t)' <=> IsOpen(t)
        BY <1>3 DEF IsOpen
    <2>4. ASSUME NEW t \in Sockets \ {s} PROVE SocketOK(t)'
        <3>1. broker[t] \in Registering => cred[t] \in Sockets
            BY <1>0 DEF SocketOK, CredentialFollows
        <3>2. CASE broker[t] \in Registering
            BY <1>0, <1>1, <1>3, <2>1, <2>2, <2>3, <3>1, <3>2, Bystander
        <3>3. CASE broker[t] \notin Registering
            BY <1>0, <1>1, <1>3, <2>1, <2>3, <3>3
               DEF SocketOK, CredentialFollows, FoundByCredential, PairedOnce, ActiveUntilRevoked, ServedIsAvailable,
                   ClosedServesNobody, Served, Registering
        <3> QED
            BY <3>2, <3>3
    <2>5. SocketOK(s)'
        BY <1>0, <1>1, <1>3, <2>1, <2>2, <2>3
           DEF SocketOK, CredentialFollows, FoundByCredential, PairedOnce, ActiveUntilRevoked, ServedIsAvailable,
               ClosedServesNobody, Served, Unregistered, Registering
    <2>6. OneConnectionServed'
        BY <1>0, <2>1, <2>3, NobodyNewServed DEF Served
    <2> QED
        BY <1>0, <1>1, <1>3, <2>1, <2>2, <2>4, <2>5, <2>6 DEF HandshakeInv, HandshakeTypes
<1> QED
    BY <1>2, <1>3 DEF Loaded, Goes

LEMMA PairStep ==
    ASSUME HandshakeInv, NEW s \in Sockets, ReceivePair(s)
    PROVE  HandshakeInv'
<1>0. HandshakeTypes /\ SocketOK(s) /\ broker[s] = "pairing"
    BY DEF HandshakeInv, ReceivePair, Receives
<1>1. /\ UNCHANGED <<agent, key, stored, cred, brokerSocket, provisional, registered, revoked, revoking, closing, records>>
      /\ broker' = [broker EXCEPT ![s] = "storing"] /\ broker'[s] = "storing"
      /\ op' \in [Sockets -> Operations]
      /\ \A t \in Sockets \ {s} : op'[t] = op[t]
      /\ "storing" \in BrokerPhase \ {"accepted"} /\ cred' \in [Sockets -> Credential]
    BY <1>0 DEF Operations, ReceivePair, agentVars, bridgeVars, HandshakeTypes, BrokerPhase, Awaiting
<1>2. CredentialFollows(s)' /\ FoundByCredential(s)' /\ PairedOnce(s)' /\ ActiveUntilRevoked(s)'
    BY <1>0, <1>1 DEF SocketOK, CredentialFollows, FoundByCredential, PairedOnce, ActiveUntilRevoked, Unregistered, Registering
<1> QED
    BY <1>0, <1>1, <1>2, GoesOn

(* The store answers: records of one socket's credential change.           *)
LEMMA StoreStep ==
    ASSUME HandshakeInv, NEW s \in Sockets, PairStored(s) \/ ActivationStored(s)
    PROVE  HandshakeInv'
<1>0. /\ HandshakeTypes /\ (\A t \in Sockets : SocketOK(t)) /\ OneConnectionServed /\ revoking \subseteq revoked
    BY DEF HandshakeInv
<1>1. /\ UNCHANGED <<agent, key, stored, brokerSocket, broker, cred, provisional, registered, revoked, revoking, closing>>
      /\ op' \in [Sockets -> Operations]
      /\ op[s] \in {"pair", "activate"} /\ op'[s] \in {"done", "refused"}
      /\ records' \in [Sockets -> {"absent", "pending", "active"}]
      /\ \A t \in Sockets \ {s} : op'[t] = op[t] /\ records'[t] = records[t]
      /\ records[s] = "active" => records'[s] = "active"
    BY <1>0 DEF Operations, PairStored, ActivationStored, agentVars, bridgeVars, HandshakeTypes, SocketOK, PairedOnce
<1>2. ASSUME NEW t \in Sockets \ {s} PROVE SocketOK(t)'
    <2>1. SocketOK(t) /\ records'[t] = records[t] /\ op'[t] = op[t]
        BY <1>0, <1>1
    <2>2. ActiveUntilRevoked(t)'
        BY <2>1, <1>1 DEF SocketOK, CredentialFollows, ActiveUntilRevoked, Available, Registering
    <2> QED
        BY <2>1, <2>2, <1>1
           DEF SocketOK, CredentialFollows, FoundByCredential, PairedOnce, ServedIsAvailable,
               ClosedServesNobody, Served, IsOpen, Available
<1>3. SocketOK(s)'
    <2>1. ActiveUntilRevoked(s)'
        BY <1>0, <1>1 DEF SocketOK, CredentialFollows, ActiveUntilRevoked, Available, Registering
    <2> QED
        BY <2>1, <1>0, <1>1
           DEF SocketOK, CredentialFollows, FoundByCredential, PairedOnce, ServedIsAvailable,
               ClosedServesNobody, Served, IsOpen, Available
<1>4. OneConnectionServed'
    BY <1>0, <1>1, NobodyNewServed DEF Served, IsOpen
<1> QED
    BY <1>0, <1>1, <1>2, <1>3, <1>4 DEF HandshakeInv, HandshakeTypes

(* A pairing has been stored, or has not: the connection is registered for *)
(* the new credential, or the credential is revoked again.                 *)
LEMMA PairSettlesStep ==
    ASSUME HandshakeInv, NEW s \in Sockets, PairSettles(s)
    PROVE  HandshakeInv'
<1>0. /\ HandshakeTypes /\ (\A t \in Sockets : SocketOK(t)) /\ OneConnectionServed /\ revoking \subseteq revoked
      /\ broker[s] \in {"storing", "over"} /\ (broker[s] = "storing" => cred[s] = s)
    BY DEF HandshakeInv, PairSettles, SocketOK, CredentialFollows
<1>1. /\ UNCHANGED <<agent, key, stored, records, closing>>
      /\ op' \in [Sockets -> Operations]
      /\ op'[s] = "none" /\ \A t \in Sockets \ {s} : op'[t] = op[t]
    BY <1>0 DEF Operations, PairSettles, agentVars, HandshakeTypes
<1>2. CASE Fails(s)
    BY <1>0, <1>1, <1>2, HandshakeFails
<1>3. CASE UNCHANGED <<brokerSocket, broker, cred, provisional, registered, revoked, revoking>>
    <2>1. \A t \in Sockets : op'[t] = op[t] \/ op'[t] = "none"
        BY <1>1
    <2>2. \A t \in Sockets : SocketOK(t)'
        BY <1>0, <1>1, <1>3, <2>1
           DEF SocketOK, CredentialFollows, FoundByCredential, PairedOnce, ActiveUntilRevoked, ServedIsAvailable,
               ClosedServesNobody, Served, IsOpen, Available
    <2>3. OneConnectionServed'
        BY <1>0, <1>3, NobodyNewServed DEF Served, IsOpen
    <2> QED
        BY <1>0, <1>1, <1>3, <2>2, <2>3 DEF HandshakeInv, HandshakeTypes
<1>4. CASE /\ RevokeAndClose(s, {}) \/ RevokeAndClose(s, {s})
           /\ broker' = broker \/ broker' = [broker EXCEPT ![s] = "over"]
           /\ UNCHANGED <<cred, provisional>>
    BY <1>0, <1>1, <1>4, Revoking
<1>5. CASE /\ broker[s] = "storing" /\ Available(s)
           /\ provisional' = [provisional EXCEPT ![s] = TRUE]
           /\ broker' = [broker EXCEPT ![s] = "finish"]
           /\ registered' = [registered EXCEPT ![s] = @ \cup {s}]
           /\ UNCHANGED <<brokerSocket, cred, revoked, revoking>>
    <2>1. /\ broker' \in [Sockets -> BrokerPhase] /\ broker'[s] = "finish"
          /\ provisional' \in [Sockets -> BOOLEAN] /\ provisional'[s]
          /\ \A t \in Sockets \ {s} : broker'[t] = broker[t] /\ provisional'[t] = provisional[t]
        BY <1>0, <1>5 DEF HandshakeTypes, BrokerPhase, Receiving
    <2>2. /\ registered' \in [Sockets -> SUBSET Sockets] /\ s \in registered'[s]
          /\ \A k \in Sockets : registered[k] \subseteq registered'[k]
        BY <1>0, <1>5 DEF HandshakeTypes
    <2>3. \A t \in Sockets : IsOpen(t)' <=> IsOpen(t)
        BY <1>5 DEF IsOpen
    <2>4. ASSUME NEW t \in Sockets \ {s} PROVE SocketOK(t)'
        <3>1. broker[t] \in Registering => cred[t] \in Sockets
            BY <1>0 DEF SocketOK, CredentialFollows
        <3>2. CASE broker[t] \in Registering
            BY <1>0, <1>1, <1>5, <2>1, <2>2, <2>3, <3>1, <3>2, Bystander
        <3>3. CASE broker[t] \notin Registering
            BY <1>0, <1>1, <1>5, <2>1, <2>3, <3>3
               DEF SocketOK, CredentialFollows, FoundByCredential, PairedOnce, ActiveUntilRevoked, ServedIsAvailable,
                   ClosedServesNobody, Served, Registering
        <3> QED
            BY <3>2, <3>3
    <2>5. SocketOK(s)'
        BY <1>0, <1>1, <1>5, <2>1, <2>2, <2>3
           DEF SocketOK, CredentialFollows, FoundByCredential, PairedOnce, ActiveUntilRevoked, ServedIsAvailable,
               ClosedServesNobody, Served, Unregistered, Registering
    <2>6. OneConnectionServed'
        BY <1>0, <1>5, <2>1, <2>3, NobodyNewServed DEF Served
    <2> QED
        BY <1>0, <1>1, <1>5, <2>1, <2>2, <2>4, <2>5, <2>6 DEF HandshakeInv, HandshakeTypes
<1>6. CASE /\ broker[s] = "storing"
           /\ provisional' = [provisional EXCEPT ![s] = TRUE]
           /\ broker' = [broker EXCEPT ![s] = "over"]
           /\ brokerSocket' = Closed(brokerSocket, {s})
           /\ UNCHANGED <<registered, cred, revoked, revoking>>
    <2>1. /\ broker' \in [Sockets -> BrokerPhase] /\ broker'[s] = "over"
          /\ provisional' \in [Sockets -> BOOLEAN]
          /\ \A t \in Sockets \ {s} : broker'[t] = broker[t] /\ provisional'[t] = provisional[t]
        BY <1>0, <1>6 DEF HandshakeTypes, BrokerPhase
    <2>2. /\ brokerSocket' \in [Sockets -> SocketStates]
          /\ \A t \in Sockets : IsOpen(t)' <=> IsOpen(t) /\ t \notin {s}
        BY <1>0, <1>6, ClosedLeaves DEF HandshakeTypes, SocketStates
    <2>3. ASSUME NEW t \in Sockets \ {s} PROVE SocketOK(t)'
        BY <1>0, <1>1, <1>6, <2>1, <2>2, Bystander
    <2>4. SocketOK(s)'
        BY <1>0, <1>1, <1>6, <2>1, <2>2
           DEF SocketOK, CredentialFollows, FoundByCredential, PairedOnce, ActiveUntilRevoked, ServedIsAvailable,
               ClosedServesNobody, Served, Unregistered, Registering
    <2>5. OneConnectionServed'
        BY <1>0, <1>6, <2>1, <2>2, NobodyNewServed DEF Served
    <2> QED
        BY <1>0, <1>1, <1>6, <2>1, <2>2, <2>3, <2>4, <2>5 DEF HandshakeInv, HandshakeTypes, SocketStates
<1> QED
    BY <1>0, <1>2, <1>3, <1>4, <1>5, <1>6 DEF PairSettles, Late, Goes

(* The steps that only move a handshake on, or end it                      *)
LEMMA ProofSteps ==
    ASSUME HandshakeInv, NEW s \in Sockets, ReceiveFinish(s) \/ Authenticated(s) \/ Proved(s)
    PROVE  HandshakeInv'
<1>0. /\ HandshakeTypes /\ SocketOK(s) /\ cred[s] \in Sockets
      /\ broker[s] \in {"finish", "authenticating", "proving"}
    BY DEF HandshakeInv, ReceiveFinish, Receives, Authenticated, Proved, SocketOK, CredentialFollows, Registering
<1>1. /\ UNCHANGED <<agent, key, stored, op, records, closing>>
      /\ op' \in [Sockets -> Operations]
    BY <1>0 DEF ReceiveFinish, Authenticated, Proved, agentVars, adapterVars, HandshakeTypes
<1>2. CASE Fails(s)
    BY <1>0, <1>1, <1>2, HandshakeFails
<1>3. ASSUME NEW p \in {"authenticating", "proving", "answering"}, broker' = [broker EXCEPT ![s] = p],
             p \in {"proving", "answering"} /\ ~provisional[s] /\ Available(cred[s]) => records[cred[s]] = "active",
             UNCHANGED <<cred, brokerSocket, provisional, registered, revoked, revoking>>
      PROVE  HandshakeInv'
    <2>1. broker'[s] = p /\ p \in BrokerPhase \ {"accepted"} /\ cred' \in [Sockets -> Credential]
        BY <1>0, <1>3 DEF HandshakeTypes, BrokerPhase, Awaiting
    <2>2. CredentialFollows(s)' /\ FoundByCredential(s)' /\ PairedOnce(s)' /\ ActiveUntilRevoked(s)'
        BY <1>0, <1>1, <1>3, <2>1
           DEF SocketOK, CredentialFollows, FoundByCredential, PairedOnce, ActiveUntilRevoked, Unregistered,
               Registering, IsOpen, Available
    <2> QED
        BY <1>0, <1>1, <1>3, <2>1, <2>2, GoesOn
<1>4. CASE ReceiveFinish(s) /\ ~Fails(s)
    BY <1>3, <1>4 DEF ReceiveFinish, Proving
<1>5. CASE Authenticated(s) /\ ~Fails(s)
    BY <1>3, <1>5 DEF Authenticated, Proving
<1>6. CASE Proved(s) /\ ~Fails(s)
    BY <1>0, <1>3, <1>6 DEF Proved, Goes, SocketOK, ActiveUntilRevoked
<1> QED
    BY <1>2, <1>4, <1>5, <1>6

LEMMA ResponseStep ==
    ASSUME HandshakeInv, NEW s \in Sockets, ResponseSent(s)
    PROVE  HandshakeInv'
<1>0. HandshakeTypes /\ SocketOK(s) /\ broker[s] = "answering" /\ cred[s] \in Sockets
    BY DEF HandshakeInv, ResponseSent, SocketOK, CredentialFollows, Registering
<1>1. UNCHANGED <<agent, key, stored, records, closing>>
    BY DEF ResponseSent, agentVars
<1>2. CASE Fails(s) /\ UNCHANGED op
    BY <1>0, <1>1, <1>2, HandshakeFails DEF HandshakeTypes
<1>3. CASE /\ broker' = [broker EXCEPT ![s] = "activating"] /\ provisional[s]
           /\ op' = [op EXCEPT ![s] = "activate"]
           /\ UNCHANGED <<cred, provisional, brokerSocket, registered, revoked, revoking>>
    <2>1. /\ broker'[s] = "activating" /\ "activating" \in BrokerPhase \ {"accepted"}
          /\ op' \in [Sockets -> Operations]
          /\ op'[s] = "activate" /\ \A t \in Sockets \ {s} : op'[t] = op[t]
          /\ cred' \in [Sockets -> Credential]
        BY <1>0, <1>3 DEF Operations, HandshakeTypes, BrokerPhase, Awaiting
    <2>2. CredentialFollows(s)' /\ FoundByCredential(s)' /\ PairedOnce(s)' /\ ActiveUntilRevoked(s)'
        BY <1>0, <1>1, <1>3, <2>1
           DEF SocketOK, CredentialFollows, FoundByCredential, PairedOnce, ActiveUntilRevoked, Unregistered,
               Registering, IsOpen
    <2> QED
        BY <1>0, <1>1, <1>3, <2>1, <2>2, GoesOn
<1>4. CASE Accepts(s) /\ ~provisional[s] /\ Admissible(s) /\ UNCHANGED <<op, cred>>
    BY <1>0, <1>1, <1>4, Accepting
<1> QED
    BY <1>2, <1>3, <1>4 DEF ResponseSent

LEMMA ActivationStep ==
    ASSUME HandshakeInv, NEW s \in Sockets, ActivationSettles(s)
    PROVE  HandshakeInv'
<1>0. /\ HandshakeTypes /\ (\A t \in Sockets : SocketOK(t)) /\ OneConnectionServed /\ revoking \subseteq revoked
      /\ provisional[s] /\ cred[s] = s /\ broker[s] \in {"activating", "over"}
    BY DEF HandshakeInv, ActivationSettles, SocketOK, CredentialFollows
<1>1. /\ UNCHANGED <<agent, key, stored, cred, provisional, records, closing>>
      /\ op' \in [Sockets -> Operations]
      /\ op'[s] = "none" /\ \A t \in Sockets \ {s} : op'[t] = op[t]
    BY <1>0 DEF Operations, ActivationSettles, Fails, agentVars, HandshakeTypes
<1>2. CASE Fails(s)
    BY <1>0, <1>1, <1>2, HandshakeFails
<1>3. CASE RevokeAndClose(s, {}) /\ UNCHANGED broker
    BY <1>0, <1>1, <1>3, Revoking
<1>4. CASE /\ broker' = broker \/ (broker[s] = "activating" /\ broker' = [broker EXCEPT ![s] = "admitting"])
           /\ UNCHANGED <<brokerSocket, registered, revoked, revoking>>
    <2>1. /\ broker' \in [Sockets -> BrokerPhase] /\ \A t \in Sockets \ {s} : broker'[t] = broker[t]
          /\ broker'[s] = broker[s] \/ (broker[s] = "activating" /\ broker'[s] = "admitting")
        BY <1>0, <1>4 DEF HandshakeTypes, BrokerPhase, Awaiting
    <2>2. ASSUME NEW t \in Sockets \ {s} PROVE SocketOK(t)'
        BY <1>0, <1>1, <1>4, <2>1, Bystander DEF IsOpen
    <2>3. SocketOK(s)'
        BY <1>0, <1>1, <1>4, <2>1
           DEF SocketOK, CredentialFollows, FoundByCredential, PairedOnce, ActiveUntilRevoked, ServedIsAvailable,
               ClosedServesNobody, Served, IsOpen, Unregistered, Registering
    <2>4. OneConnectionServed'
        BY <1>0, <1>1, <1>4, <2>1, NobodyNewServed DEF Served, IsOpen
    <2> QED
        BY <1>0, <1>1, <1>4, <2>1, <2>2, <2>3, <2>4 DEF HandshakeInv, HandshakeTypes
<1> QED
    BY <1>2, <1>3, <1>4 DEF ActivationSettles, Late

LEMMA AdmittedStep ==
    ASSUME HandshakeInv, NEW s \in Sockets, Admitted(s)
    PROVE  HandshakeInv'
<1>0. /\ HandshakeTypes /\ provisional[s] /\ cred[s] = s /\ broker[s] = "admitting"
    BY DEF HandshakeInv, Admitted, SocketOK, CredentialFollows
<1>1. /\ UNCHANGED <<agent, key, stored, op, records, closing>>
      /\ op' \in [Sockets -> Operations]
    BY <1>0 DEF Admitted, agentVars, adapterVars, HandshakeTypes
<1>2. CASE Fails(s)
    BY <1>0, <1>1, <1>2, HandshakeFails
<1>3. CASE Accepts(s) /\ Admissible(s) /\ records[s] = "active" /\ UNCHANGED cred
    BY <1>0, <1>1, <1>3, Accepting
<1>4. CASE RevokeAndClose(s, {s}) /\ broker' = [broker EXCEPT ![s] = "over"] /\ UNCHANGED <<cred, provisional>>
    BY <1>0, <1>1, <1>4, Revoking
<1> QED
    BY <1>2, <1>3, <1>4 DEF Admitted

LEMMA DeadlineStep ==
    ASSUME HandshakeInv, NEW s \in Sockets, TimedOut(s) \/ Overflows(s)
    PROVE  HandshakeInv'
<1>1. Fails(s) /\ UNCHANGED <<agent, key, stored, op, records, closing>>
    BY DEF TimedOut, Overflows, Fails, agentVars, adapterVars, bridgeVars
<1> QED
    BY <1>1, HandshakeFails DEF HandshakeInv, HandshakeTypes

(* A connection closes: it is registered no more, and if its pairing was   *)
(* not finished, the new credential is revoked.                            *)
LEMMA CloseStep ==
    ASSUME HandshakeInv, NEW s \in Sockets, BrokerSocketCloses(s)
    PROVE  HandshakeInv'
<1>0. /\ HandshakeTypes /\ (\A t \in Sockets : SocketOK(t)) /\ OneConnectionServed /\ revoking \subseteq revoked
    BY DEF HandshakeInv
<1>1. /\ UNCHANGED <<agent, key, stored, cred, op, provisional, records, closing>>
      /\ broker' \in [Sockets -> BrokerPhase] /\ \A t \in Sockets \ {s} : broker'[t] = broker[t]
      /\ broker'[s] = IF broker[s] = "accepted" THEN "accepted" ELSE "over"
    BY <1>0 DEF BrokerSocketCloses, agentVars, adapterVars, HandshakeTypes, BrokerPhase
<1>2. PICK W \in {{}, {s}} : /\ revoked' = revoked \cup W /\ revoking' = revoking \cup W
                             /\ registered' = [k \in Sockets |-> IF k \in W THEN {} ELSE registered[k] \ {s}]
                             /\ brokerSocket' = IF W = {} THEN [brokerSocket EXCEPT ![s] = "closed"]
                                                ELSE [Closed(brokerSocket, registered[s]) EXCEPT ![s] = "closed"]
    <2>1. CASE provisional[s] /\ broker[s] # "accepted"
        BY <2>1 DEF BrokerSocketCloses, EndedConnections
    <2>2. CASE ~(provisional[s] /\ broker[s] # "accepted")
        BY <2>2 DEF BrokerSocketCloses
    <2> QED
        BY <2>1, <2>2
<1>3. /\ brokerSocket' \in [Sockets -> SocketStates] /\ ~IsOpen(s)'
      /\ \A t \in Sockets : IsOpen(t)' => IsOpen(t) /\ (W = {s} => t \notin registered[s])
    <2>1. CASE W = {}
        BY <1>0, <1>2, <2>1 DEF HandshakeTypes, SocketStates, IsOpen
    <2>2. CASE W = {s}
        BY <1>0, <1>2, <2>2 DEF HandshakeTypes, SocketStates, IsOpen, Closed
    <2> QED
        BY <2>1, <2>2
<1>4. registered' \in [Sockets -> SUBSET Sockets]
    BY <1>0, <1>2 DEF HandshakeTypes
<1>5. ASSUME NEW t \in Sockets PROVE SocketOK(t)'
    <2>0. /\ SocketOK(t)
          /\ broker'[t] = broker[t] \/ (t = s /\ broker'[t] = "over")
          /\ broker[t] \in Registering => cred[t] \in Sockets
        BY <1>0, <1>1 DEF SocketOK, CredentialFollows
    <2>1. CredentialFollows(t)'
        BY <2>0, <1>1 DEF SocketOK, CredentialFollows, Unregistered, Registering
    <2>2. FoundByCredential(t)'
        BY <2>0, <1>0, <1>1, <1>2, <1>3 DEF SocketOK, FoundByCredential, Registering
    <2>3. PairedOnce(t)' /\ ActiveUntilRevoked(t)'
        BY <2>0, <1>1, <1>2 DEF SocketOK, PairedOnce, ActiveUntilRevoked, Available
    <2>4. ServedIsAvailable(t)' /\ ClosedServesNobody(t)'
        BY <2>0, <1>1, <1>2, <1>3 DEF SocketOK, ServedIsAvailable, ClosedServesNobody, Served, Available,
                                      FoundByCredential, Registering
    <2> QED
        BY <2>1, <2>2, <2>3, <2>4 DEF SocketOK
<1>6. OneConnectionServed'
    BY <1>0, <1>1, <1>3, NobodyNewServed DEF Served
<1> QED
    BY <1>0, <1>1, <1>2, <1>3, <1>4, <1>5, <1>6 DEF HandshakeInv, HandshakeTypes, SocketStates

(* A revocation reaches the store, and the host revokes.                   *)
LEMMA RevocationStep ==
    ASSUME HandshakeInv, NEW k \in Sockets, RevocationStored(k) \/ HostRevokes(k)
    PROVE  HandshakeInv'
<1>0. /\ HandshakeTypes /\ (\A t \in Sockets : SocketOK(t)) /\ OneConnectionServed /\ revoking \subseteq revoked
    BY DEF HandshakeInv
<1>1. CASE RevocationStored(k)
    <2>1. /\ UNCHANGED <<agent, key, stored, brokerSocket, broker, cred, op, provisional, registered, revoked, closing>>
          /\ k \in revoked /\ revoking' \subseteq revoking
          /\ records' \in [Sockets -> {"absent", "pending", "active"}]
          /\ \A t \in Sockets : records'[t] = IF t = k THEN "absent" ELSE records[t]
        BY <1>0, <1>1 DEF RevocationStored, agentVars, HandshakeTypes
    <2>2. ASSUME NEW t \in Sockets PROVE SocketOK(t)'
        <3>1. SocketOK(t) /\ records'[t] \in {records[t], "absent"}
            BY <1>0, <2>1
        <3>2. ActiveUntilRevoked(t)'
            BY <3>1, <2>1 DEF SocketOK, CredentialFollows, ActiveUntilRevoked, Available, Registering
        <3> QED
            BY <3>1, <3>2, <2>1
               DEF SocketOK, CredentialFollows, FoundByCredential, PairedOnce, ServedIsAvailable, ClosedServesNobody,
                   Served, IsOpen, Available
    <2>3. OneConnectionServed'
        BY <1>0, <2>1, NobodyNewServed DEF Served, IsOpen
    <2> QED
        BY <1>0, <2>1, <2>2, <2>3 DEF HandshakeInv, HandshakeTypes
<1>2. CASE HostRevokes(k)
    <2>1. /\ RevokeAndClose(k, {})
          /\ UNCHANGED <<agent, key, stored, broker, cred, op, provisional, records, closing>>
        BY <1>2 DEF HostRevokes, agentVars, adapterVars
    <2> QED
        BY <1>0, <2>1, Revoking DEF HandshakeTypes
<1> QED
    BY <1>1, <1>2

LEMMA CloseBridgeStep ==
    ASSUME HandshakeInv, CloseBridge
    PROVE  HandshakeInv'
<1>0. /\ HandshakeTypes /\ (\A t \in Sockets : SocketOK(t)) /\ OneConnectionServed /\ revoking \subseteq revoked
    BY DEF HandshakeInv
<1>1. /\ UNCHANGED <<agent, key, stored, cred, op, provisional, registered, revoked, revoking, records>>
      /\ broker' \in [Sockets -> BrokerPhase]
      /\ \A t \in Sockets : broker'[t] = IF broker[t] = "upgrading" THEN "over" ELSE broker[t]
    BY <1>0 DEF CloseBridge, agentVars, adapterVars, HandshakeTypes, BrokerPhase
<1>2. /\ brokerSocket' \in [Sockets -> SocketStates]
      /\ \A t \in Sockets : ~IsOpen(t)'
    BY <1>0, ClosedLeaves DEF CloseBridge, HandshakeTypes, SocketStates
<1>3. ASSUME NEW t \in Sockets PROVE SocketOK(t)'
    BY <1>0, <1>1, <1>2
       DEF SocketOK, CredentialFollows, FoundByCredential, PairedOnce, ActiveUntilRevoked, ServedIsAvailable,
           ClosedServesNobody, Served, Unregistered, Registering, Available
<1>4. OneConnectionServed'
    BY <1>2 DEF OneConnectionServed, Served
<1>5. closing' \in BOOLEAN
    BY DEF CloseBridge
<1> QED
    BY <1>0, <1>1, <1>2, <1>3, <1>4 DEF HandshakeInv, HandshakeTypes, SocketStates

-----------------------------------------------------------------------------
(* The theorems                                                            *)

(* Every step keeps the invariant.                                         *)
LEMMA HandshakeStep == HandshakeInv /\ [Next]_vars => HandshakeInv'
<1> SUFFICES ASSUME HandshakeInv, [Next]_vars PROVE HandshakeInv'
    OBVIOUS
<1>1. ASSUME NEW s \in Sockets, BridgeNext(s) PROVE HandshakeInv'
    <2>1. CASE Upgrade(s) \/ Upgraded(s)
        BY <2>1, UpgradeStep
    <2>2. CASE ReceiveBegin(s) \/ Loaded(s)
        BY <2>2, BeginStep, LoadedStep
    <2>3. CASE ReceivePair(s) \/ PairSettles(s)
        BY <2>3, PairStep, PairSettlesStep
    <2>4. CASE PairStored(s) \/ ActivationStored(s)
        BY <2>4, StoreStep
    <2>5. CASE ReceiveFinish(s) \/ Authenticated(s) \/ Proved(s)
        BY <2>5, ProofSteps
    <2>6. CASE ResponseSent(s) \/ ActivationSettles(s) \/ Admitted(s)
        BY <2>6, ResponseStep, ActivationStep, AdmittedStep
    <2>7. CASE TimedOut(s) \/ Overflows(s) \/ BrokerSocketCloses(s)
        BY <2>7, DeadlineStep, CloseStep
    <2>8. CASE RevocationStored(s) \/ HostRevokes(s)
        BY <2>8, RevocationStep
    <2> QED
        BY <1>1, <2>1, <2>2, <2>3, <2>4, <2>5, <2>6, <2>7, <2>8 DEF BridgeNext
<1>2. CASE UNCHANGED vars
    BY <1>2 DEF vars, agentVars, adapterVars, bridgeVars, HandshakeInv, HandshakeTypes, OneConnectionServed, Served,
                SocketOK, CredentialFollows, FoundByCredential, PairedOnce, ActiveUntilRevoked, ServedIsAvailable,
                ClosedServesNobody, IsOpen, Available
<1> QED
    BY <1>1, <1>2, AgentStep, CloseBridgeStep DEF Next

LEMMA HandshakeAlways == Spec => []HandshakeInv
BY HandshakeInitially, HandshakeStep, PTL DEF Spec

(* Whatever handshakes of one credential overlap, and whichever of them    *)
(* finishes first, at most one open connection of it is served: onAccepted *)
(* finds every other one in agentConnectionsByCredential.                  *)
THEOREM OneConnectionPerCredential == Spec => []OneConnectionServed
BY HandshakeAlways, PTL DEF HandshakeInv

(* A connection is served only with a credential the host holds active and *)
(* nobody revoked, into whichever await of its authentication the          *)
(* revocation fell, and never by a bridge that was closed.                 *)
THEOREM ServedWithActiveCredential == Spec => []ServedIsAuthorized
<1>1. HandshakeInv => ServedIsAuthorized
    BY DEF HandshakeInv, ServedIsAuthorized, SocketOK, ServedIsAvailable, ActiveUntilRevoked, CredentialFollows,
           ClosedServesNobody, Served, Available
<1> QED
    BY <1>1, HandshakeAlways, PTL

-----------------------------------------------------------------------------
(* The slots of the upgrades and handshakes under way                      *)

Upgrading == {t \in Sockets : broker[t] = "upgrading"}

(* Before its upgrade is answered, a connection has no socket.             *)
SlotInv ==
    /\ HandshakeInv /\ SlotsAreLimited
    /\ \A t \in Sockets : broker[t] \in {"none", "upgrading"} => brokerSocket[t] = "none"

LEMMA SocketsAreFinite ==
    ASSUME NEW S, S \subseteq Sockets
    PROVE  IsFiniteSet(S) /\ Cardinality(S) \in Nat
<1>1. MaxSockets \in Int
    BY HandshakeAssumption
<1>2. IsFiniteSet(Sockets)
    BY <1>1, FS_Interval DEF Sockets
<1> QED
    BY <1>2, FS_Subset, FS_CardinalityType

(* A step that upgrades nothing adds to neither side of the sum: it gives  *)
(* back the slots of the connections that it accepts or has closed.        *)
LEMMA SlotsGivenBack ==
    ASSUME SlotInv, HandshakeInv', NEW freed \in SUBSET Sockets,
           unauthenticated' = unauthenticated \ freed,
           \A t \in Sockets :
              /\ broker'[t] \in {"none", "upgrading"} => broker'[t] = broker[t]
              /\ brokerSocket[t] = "none" => brokerSocket'[t] = "none"
              /\ IF t \in freed THEN ~Occupying(t)' ELSE Occupying(t)' <=> Occupying(t)
    PROVE  SlotInv'
<1>1. unauthenticated' = {t \in Sockets : Occupying(t)'}
    BY DEF SlotInv, SlotsAreLimited
<1>2. /\ Upgrading' \subseteq Upgrading /\ unauthenticated' \subseteq unauthenticated
      /\ Upgrading \subseteq Sockets /\ unauthenticated \subseteq Sockets
    BY DEF Upgrading, SlotInv, SlotsAreLimited
<1>3. /\ Cardinality(Upgrading') =< Cardinality(Upgrading)
      /\ Cardinality(unauthenticated') =< Cardinality(unauthenticated)
    BY <1>2, SocketsAreFinite, FS_Subset
<1>4. {Cardinality(Upgrading'), Cardinality(Upgrading), Cardinality(unauthenticated'),
       Cardinality(unauthenticated)} \subseteq Nat
    BY <1>2, SocketsAreFinite
<1>5. Cardinality(Upgrading) + Cardinality(unauthenticated) =< MaxUnauthenticated
    BY DEF SlotInv, SlotsAreLimited, Upgrading
<1>6. Cardinality(Upgrading') + Cardinality(unauthenticated') =< MaxUnauthenticated
    BY <1>3, <1>4, <1>5, HandshakeAssumption
<1>7. SlotsAreLimited'
    BY <1>1, <1>6 DEF SlotsAreLimited, Upgrading
<1> QED
    BY <1>7 DEF SlotInv

(* An upgrade begins where there is room for it.                           *)
LEMMA SlotReserved ==
    ASSUME SlotInv, HandshakeInv', NEW s \in Sockets, Upgrade(s)
    PROVE  SlotInv'
<1>1. /\ broker' = [broker EXCEPT ![s] = "upgrading"] /\ broker[s] = "none"
      /\ UNCHANGED <<brokerSocket, unauthenticated>>
      /\ broker \in [Sockets -> BrokerPhase]
    BY DEF Upgrade, SlotInv, HandshakeInv, HandshakeTypes
<1>2. Upgrading' = Upgrading \cup {s} /\ s \notin Upgrading /\ Upgrading \subseteq Sockets
    BY <1>1 DEF Upgrading
<1>3. unauthenticated' = {t \in Sockets : Occupying(t)'} /\ unauthenticated \subseteq Sockets
    BY <1>1 DEF SlotInv, SlotsAreLimited, Occupying
<1>4. Cardinality(Upgrading') = Cardinality(Upgrading) + 1
    BY <1>2, SocketsAreFinite, FS_AddElement
<1>5. Cardinality(Upgrading) \in Nat /\ Cardinality(unauthenticated) \in Nat
    BY <1>2, <1>3, SocketsAreFinite
<1>6. Cardinality(Upgrading) + Cardinality(unauthenticated) < MaxUnauthenticated
    BY DEF Upgrade, Upgrading
<1>7. Cardinality(Upgrading') + Cardinality(unauthenticated') =< MaxUnauthenticated
    BY <1>1, <1>4, <1>5, <1>6, HandshakeAssumption
<1>8. SlotsAreLimited'
    BY <1>3, <1>7 DEF SlotsAreLimited, Upgrading
<1> QED
    BY <1>1, <1>8 DEF SlotInv

(* What it has reserved passes to its connection, or is given back.        *)
LEMMA SlotTaken ==
    ASSUME SlotInv, HandshakeInv', NEW s \in Sockets, Upgraded(s)
    PROVE  SlotInv'
<1>1. /\ broker \in [Sockets -> BrokerPhase] /\ brokerSocket \in [Sockets -> SocketStates]
      /\ broker[s] = "upgrading" /\ brokerSocket[s] = "none"
    BY DEF Upgraded, SlotInv, HandshakeInv, HandshakeTypes
<1>2. CASE /\ broker' = [broker EXCEPT ![s] = "begin"]
           /\ brokerSocket' = [brokerSocket EXCEPT ![s] = "open"]
           /\ unauthenticated' = unauthenticated \cup {s}
    <2>1. Upgrading' = Upgrading \ {s} /\ s \in Upgrading /\ Upgrading \subseteq Sockets
        BY <1>1, <1>2 DEF Upgrading
    <2>2. /\ unauthenticated' = {t \in Sockets : Occupying(t)'}
          /\ s \notin unauthenticated /\ unauthenticated \subseteq Sockets
        BY <1>1, <1>2 DEF SlotInv, SlotsAreLimited, Occupying
    <2>3. /\ Cardinality(Upgrading') = Cardinality(Upgrading) - 1
          /\ Cardinality(unauthenticated') = Cardinality(unauthenticated) + 1
        BY <1>2, <2>1, <2>2, SocketsAreFinite, FS_AddElement, FS_RemoveElement
    <2>4. Cardinality(Upgrading) \in Nat /\ Cardinality(unauthenticated) \in Nat
        BY <2>1, <2>2, SocketsAreFinite
    <2>5. Cardinality(Upgrading) + Cardinality(unauthenticated) =< MaxUnauthenticated
        BY DEF SlotInv, SlotsAreLimited, Upgrading
    <2>6. Cardinality(Upgrading') + Cardinality(unauthenticated') =< MaxUnauthenticated
        BY <2>3, <2>4, <2>5, HandshakeAssumption
    <2>7. SlotsAreLimited'
        BY <2>2, <2>6 DEF SlotsAreLimited, Upgrading
    <2> QED
        BY <1>1, <1>2, <2>7 DEF SlotInv
<1>3. CASE broker' = [broker EXCEPT ![s] = "over"] /\ UNCHANGED <<brokerSocket, unauthenticated>>
    <2>1. \A t \in Sockets : /\ broker'[t] \in {"none", "upgrading"} => broker'[t] = broker[t]
                             /\ Occupying(t)' <=> Occupying(t)
        BY <1>1, <1>3 DEF Occupying
    <2>2. /\ unauthenticated' = unauthenticated \ {} /\ {} \in SUBSET Sockets
          /\ \A t \in Sockets : IF t \in {} THEN ~Occupying(t)' ELSE Occupying(t)' <=> Occupying(t)
        BY <1>3, <2>1
    <2> QED
        BY <1>3, <2>1, <2>2, SlotsGivenBack
<1> QED
    BY <1>2, <1>3 DEF Upgraded

(* Closing some sockets gives back nothing yet.                            *)
LEMMA ClosedOccupy ==
    ASSUME brokerSocket \in [Sockets -> SocketStates], NEW W, brokerSocket' = Closed(brokerSocket, W),
           NEW t \in Sockets
    PROVE  /\ brokerSocket'[t] \in {"open", "closing"} <=> brokerSocket[t] \in {"open", "closing"}
           /\ brokerSocket[t] = "none" => brokerSocket'[t] = "none"
BY DEF Closed

(* Most steps keep every slot as it is: a handshake goes on or is over,    *)
(* sockets may begin to close, and nobody is accepted.                     *)
Underway == BrokerPhase \ {"none", "upgrading", "accepted"}

Keeping(s) ==
    /\ unauthenticated' = unauthenticated
    /\ broker' = broker \/ (broker[s] # "accepted" /\ \E p \in Underway : broker' = [broker EXCEPT ![s] = p])
    /\ brokerSocket' = brokerSocket \/ \E W \in SUBSET Sockets : brokerSocket' = Closed(brokerSocket, W)

LEMMA SlotsKept ==
    ASSUME SlotInv, HandshakeInv', NEW s \in Sockets, Keeping(s)
    PROVE  SlotInv'
<1>1. broker \in [Sockets -> BrokerPhase] /\ brokerSocket \in [Sockets -> SocketStates]
    BY DEF SlotInv, HandshakeInv, HandshakeTypes
<1>2. ASSUME NEW t \in Sockets
      PROVE  /\ broker'[t] \in {"none", "upgrading"} => broker'[t] = broker[t]
             /\ broker'[t] = "accepted" <=> broker[t] = "accepted"
    BY <1>1 DEF Keeping, Underway
<1>3. ASSUME NEW t \in Sockets
      PROVE  /\ brokerSocket'[t] \in {"open", "closing"} <=> brokerSocket[t] \in {"open", "closing"}
             /\ brokerSocket[t] = "none" => brokerSocket'[t] = "none"
    BY <1>1, ClosedOccupy DEF Keeping
<1>4. \A t \in Sockets :
         /\ broker'[t] \in {"none", "upgrading"} => broker'[t] = broker[t]
         /\ brokerSocket[t] = "none" => brokerSocket'[t] = "none"
         /\ IF t \in {} THEN ~Occupying(t)' ELSE Occupying(t)' <=> Occupying(t)
    BY <1>2, <1>3 DEF Occupying
<1>5. unauthenticated' = unauthenticated \ {} /\ {} \in SUBSET Sockets
    BY DEF Keeping
<1> QED
    BY <1>4, <1>5, SlotsGivenBack

LEMMA FailingKeeps ==
    ASSUME NEW s \in Sockets, Fails(s), broker[s] # "accepted", unauthenticated' = unauthenticated
    PROVE  Keeping(s)
<1>1. "over" \in Underway /\ {s} \in SUBSET Sockets
    BY DEF Underway, BrokerPhase
<1> QED
    BY <1>1 DEF Fails, Keeping

LEMMA RevokingKeeps ==
    ASSUME HandshakeInv, NEW s \in Sockets, NEW k \in Sockets, NEW C \in SUBSET Sockets, RevokeAndClose(k, C),
           broker' = broker \/ (broker[s] # "accepted" /\ broker' = [broker EXCEPT ![s] = "over"]),
           unauthenticated' = unauthenticated
    PROVE  Keeping(s)
<1>1. "over" \in Underway /\ registered[k] \cup C \in SUBSET Sockets
    BY DEF Underway, BrokerPhase, HandshakeInv, HandshakeTypes
<1>2. brokerSocket' = Closed(brokerSocket, registered[k] \cup C)
    BY DEF RevokeAndClose, EndedConnections
<1> QED
    BY <1>1, <1>2 DEF Keeping

LEMMA ReceivingKeeps ==
    ASSUME HandshakeInv, NEW s \in Sockets,
           ReceiveBegin(s) \/ ReceivePair(s) \/ ReceiveFinish(s) \/ Loaded(s) \/ Authenticated(s) \/ Proved(s)
    PROVE  Keeping(s)
<1>1. broker[s] # "accepted" /\ unauthenticated' = unauthenticated
    BY DEF ReceiveBegin, ReceivePair, ReceiveFinish, Loaded, Authenticated, Proved, Receives
<1>2. \/ Fails(s)
      \/ \E p \in Underway : broker' = [broker EXCEPT ![s] = p] /\ brokerSocket' = brokerSocket
    <2>1. {"pairing", "loading", "finish", "storing", "proving", "authenticating", "answering"} \subseteq Underway
        BY DEF Underway, BrokerPhase, Receiving, Awaiting
    <2>2. CASE ReceiveBegin(s) \/ Loaded(s)
        BY <2>1, <2>2 DEF ReceiveBegin, Loaded, Goes
    <2>3. CASE ReceivePair(s) \/ ReceiveFinish(s)
        BY <2>1, <2>3 DEF ReceivePair, ReceiveFinish, Proving
    <2>4. CASE Authenticated(s) \/ Proved(s)
        BY <2>1, <2>4 DEF Authenticated, Proved, Proving, Goes
    <2> QED
        BY <2>2, <2>3, <2>4
<1> QED
    BY <1>1, <1>2, FailingKeeps DEF Keeping

(* What settles late revokes a credential, and closes what is registered.  *)
LEMMA SettlingKeeps ==
    ASSUME HandshakeInv, NEW s \in Sockets, PairSettles(s) \/ ActivationSettles(s)
    PROVE  Keeping(s)
<1>1. broker[s] # "accepted" /\ unauthenticated' = unauthenticated
    BY DEF PairSettles, ActivationSettles
<1>2. \/ Fails(s)
      \/ RevokeAndClose(s, {}) /\ broker' = broker
      \/ RevokeAndClose(s, {s}) /\ broker' = [broker EXCEPT ![s] = "over"]
      \/ brokerSocket' = brokerSocket /\ broker' = broker
      \/ \E p \in {"finish", "admitting", "over"} :
            broker' = [broker EXCEPT ![s] = p] /\ brokerSocket' \in {brokerSocket, Closed(brokerSocket, {s})}
    <2>1. CASE PairSettles(s)
        BY <2>1 DEF PairSettles, Late, Goes
    <2>2. CASE ActivationSettles(s)
        BY <2>2 DEF ActivationSettles, Late
    <2> QED
        BY <2>1, <2>2
<1>3. {"finish", "admitting", "over"} \subseteq Underway /\ {s} \in SUBSET Sockets /\ {} \in SUBSET Sockets
    BY DEF Underway, BrokerPhase, Receiving, Awaiting
<1>4. CASE RevokeAndClose(s, {}) /\ broker' = broker
    BY <1>1, <1>3, <1>4, RevokingKeeps
<1>5. CASE RevokeAndClose(s, {s}) /\ broker' = [broker EXCEPT ![s] = "over"]
    BY <1>1, <1>3, <1>5, RevokingKeeps
<1>6. CASE brokerSocket' = brokerSocket /\ broker' = broker
    BY <1>1, <1>6 DEF Keeping
<1>7. CASE \E p \in {"finish", "admitting", "over"} :
              broker' = [broker EXCEPT ![s] = p] /\ brokerSocket' \in {brokerSocket, Closed(brokerSocket, {s})}
    BY <1>1, <1>3, <1>7 DEF Keeping
<1> QED
    BY <1>1, <1>2, <1>4, <1>5, <1>6, <1>7, FailingKeeps

LEMMA OthersKeep ==
    ASSUME HandshakeInv, NEW s \in Sockets,
           \/ PairStored(s) \/ ActivationStored(s) \/ RevocationStored(s) \/ HostRevokes(s)
           \/ TimedOut(s) \/ Overflows(s)
    PROVE  Keeping(s)
<1>1. "over" \in Underway /\ {s} \in SUBSET Sockets /\ {} \in SUBSET Sockets
    BY DEF Underway, BrokerPhase
<1>2. CASE PairStored(s) \/ ActivationStored(s) \/ RevocationStored(s)
    BY <1>2 DEF PairStored, ActivationStored, RevocationStored, Keeping
<1>3. CASE HostRevokes(s)
    BY <1>1, <1>3, RevokingKeeps DEF HostRevokes
<1>4. CASE TimedOut(s)
    BY <1>1, <1>4 DEF TimedOut, Keeping, Receiving, Awaiting
<1>5. CASE Overflows(s)
    BY <1>5, FailingKeeps DEF Overflows
<1> QED
    BY <1>2, <1>3, <1>4, <1>5

(* A connection that is accepted gives its slot back, once.                *)
LEMMA AcceptedGivesBack ==
    ASSUME SlotInv, HandshakeInv', NEW s \in Sockets, Accepts(s), broker[s] \in {"answering", "admitting"}
    PROVE  SlotInv'
<1>1. /\ broker \in [Sockets -> BrokerPhase] /\ brokerSocket \in [Sockets -> SocketStates]
      /\ HandshakeInv /\ Superseded(s) \in SUBSET Sockets /\ cred[s] \in Sockets
    BY DEF SlotInv, HandshakeInv, HandshakeTypes, Superseded, SocketOK, CredentialFollows, Registering
<1>2. CASE /\ broker' = [broker EXCEPT ![s] = "accepted"]
           /\ unauthenticated' = unauthenticated \ {s}
           /\ brokerSocket' = Closed(brokerSocket, Superseded(s))
    <2>1. \A t \in Sockets :
             /\ broker'[t] \in {"none", "upgrading"} => broker'[t] = broker[t]
             /\ brokerSocket[t] = "none" => brokerSocket'[t] = "none"
             /\ IF t \in {s} THEN ~Occupying(t)' ELSE Occupying(t)' <=> Occupying(t)
        BY <1>1, <1>2, ClosedOccupy DEF Occupying
    <2> QED
        BY <1>2, <2>1, SlotsGivenBack
<1>3. CASE /\ broker' = [broker EXCEPT ![s] = "over"] /\ unauthenticated' = unauthenticated
           /\ RevokeAndClose(s, {s} \cup Superseded(s))
    <2>1. Keeping(s)
        BY <1>1, <1>3, RevokingKeeps
    <2> QED
        BY <2>1, SlotsKept
<1>4. CASE /\ broker' = [broker EXCEPT ![s] = "over"] /\ unauthenticated' = unauthenticated
           /\ brokerSocket' = Closed(brokerSocket, {s} \cup Superseded(s))
    <2>1. Keeping(s)
        BY <1>1, <1>4 DEF Keeping, Underway, BrokerPhase
    <2> QED
        BY <2>1, SlotsKept
<1> QED
    BY <1>2, <1>3, <1>4 DEF Accepts

LEMMA AnsweredSlots ==
    ASSUME SlotInv, HandshakeInv', NEW s \in Sockets, ResponseSent(s) \/ Admitted(s)
    PROVE  SlotInv'
<1>1. broker[s] \in {"answering", "admitting"} /\ HandshakeInv
    BY DEF ResponseSent, Admitted, SlotInv
<1>2. CASE Accepts(s)
    BY <1>1, <1>2, AcceptedGivesBack
<1>3. CASE Fails(s) /\ unauthenticated' = unauthenticated
    BY <1>1, <1>3, FailingKeeps, SlotsKept
<1>4. CASE broker' = [broker EXCEPT ![s] = "activating"] /\ UNCHANGED <<brokerSocket, unauthenticated>>
    <2>1. Keeping(s)
        BY <1>1, <1>4 DEF Keeping, Underway, BrokerPhase, Awaiting
    <2> QED
        BY <2>1, SlotsKept
<1>5. CASE broker' = [broker EXCEPT ![s] = "over"] /\ RevokeAndClose(s, {s}) /\ unauthenticated' = unauthenticated
    <2>1. Keeping(s)
        BY <1>1, <1>5, RevokingKeeps
    <2> QED
        BY <2>1, SlotsKept
<1> QED
    BY <1>2, <1>3, <1>4, <1>5 DEF ResponseSent, Admitted

(* The close event gives the slot back, whether or not it still had one.   *)
LEMMA ClosedGivesBack ==
    ASSUME SlotInv, HandshakeInv', NEW s \in Sockets, BrokerSocketCloses(s)
    PROVE  SlotInv'
<1>1. /\ broker \in [Sockets -> BrokerPhase] /\ brokerSocket \in [Sockets -> SocketStates]
      /\ brokerSocket[s] # "none" /\ unauthenticated' = unauthenticated \ {s}
    BY DEF SlotInv, HandshakeInv, HandshakeTypes, BrokerSocketCloses, Released
<1>2. \A t \in Sockets : /\ broker'[t] \in {"none", "upgrading"} => broker'[t] = broker[t]
                         /\ t # s => broker'[t] = broker[t]
    BY <1>1 DEF BrokerSocketCloses
<1>3. /\ brokerSocket'[s] = "closed"
      /\ \A t \in Sockets \ {s} : /\ brokerSocket'[t] \in {"open", "closing"} <=> brokerSocket[t] \in {"open", "closing"}
                                  /\ brokerSocket[t] = "none" => brokerSocket'[t] = "none"
    BY <1>1 DEF BrokerSocketCloses, Closed
<1>4. \A t \in Sockets :
         /\ broker'[t] \in {"none", "upgrading"} => broker'[t] = broker[t]
         /\ brokerSocket[t] = "none" => brokerSocket'[t] = "none"
         /\ IF t \in {s} THEN ~Occupying(t)' ELSE Occupying(t)' <=> Occupying(t)
    BY <1>1, <1>2, <1>3 DEF Occupying
<1> QED
    BY <1>1, <1>4, SlotsGivenBack

LEMMA BridgeClosesSlots ==
    ASSUME SlotInv, HandshakeInv', CloseBridge
    PROVE  SlotInv'
<1>1. broker \in [Sockets -> BrokerPhase] /\ brokerSocket \in [Sockets -> SocketStates]
    BY DEF SlotInv, HandshakeInv, HandshakeTypes
<1>2. \A t \in Sockets :
         /\ broker'[t] \in {"none", "upgrading"} => broker'[t] = broker[t]
         /\ brokerSocket[t] = "none" => brokerSocket'[t] = "none"
         /\ IF t \in {} THEN ~Occupying(t)' ELSE Occupying(t)' <=> Occupying(t)
    <2>1. ASSUME NEW t \in Sockets
          PROVE  /\ broker'[t] = IF broker[t] = "upgrading" THEN "over" ELSE broker[t]
                 /\ brokerSocket'[t] \in {"open", "closing"} <=> brokerSocket[t] \in {"open", "closing"}
                 /\ brokerSocket[t] = "none" => brokerSocket'[t] = "none"
        BY <1>1, ClosedOccupy DEF CloseBridge
    <2> QED
        BY <2>1 DEF Occupying
<1>3. unauthenticated' = unauthenticated \ {} /\ {} \in SUBSET Sockets
    BY DEF CloseBridge
<1> QED
    BY <1>2, <1>3, SlotsGivenBack

(* The bridge never has more upgrades and unauthenticated connections than *)
(* it allows, and loses no slot: however a handshake ends, and whatever    *)
(* awaits, timers and close events its end falls between, the slot is      *)
(* given back exactly with the acceptance or the close of its socket.      *)
THEOREM SlotsLimited == Spec => []SlotsAreLimited
<1>1. Init => SlotInv
    <2>1. ASSUME Init PROVE SlotsAreLimited
        <3>1. Upgrading = {} /\ unauthenticated = {} /\ {s \in Sockets : Occupying(s)} = {}
            BY <2>1 DEF Init, Upgrading, Occupying
        <3> QED
            BY <3>1, FS_EmptySet, HandshakeAssumption DEF SlotsAreLimited, Upgrading
    <2> QED
        BY <2>1, HandshakeInitially DEF Init, SlotInv
<1>2. SlotInv /\ HandshakeInv' /\ [Next]_vars => SlotInv'
    <2> SUFFICES ASSUME SlotInv, HandshakeInv', [Next]_vars PROVE SlotInv'
        OBVIOUS
    <2>1. CASE CloseBridge
        BY <2>1, BridgeClosesSlots
    <2>2. ASSUME NEW s \in Sockets, AgentNext(s) PROVE SlotInv'
        <3>1. UNCHANGED <<broker, brokerSocket, unauthenticated>>
            BY <2>2 DEF AgentNext, Connect, Opened, BeginAnswered, Approved, PairAnswered, FinishAnswered, Saved,
                        SaveFails, CredentialRemoved, AgentGivesUp, AgentSocketCloses, AgentOnly
        <3> QED
            BY <3>1, SlotsKept, <2>2 DEF Keeping
    <2>3. ASSUME NEW s \in Sockets, BridgeNext(s) PROVE SlotInv'
        <3>1. HandshakeInv
            BY DEF SlotInv
        <3>2. CASE Upgrade(s) \/ Upgraded(s)
            BY <3>2, SlotReserved, SlotTaken
        <3>3. CASE ReceiveBegin(s) \/ ReceivePair(s) \/ ReceiveFinish(s) \/ Loaded(s) \/ Authenticated(s) \/ Proved(s)
            BY <3>1, <3>3, ReceivingKeeps, SlotsKept
        <3>4. CASE PairSettles(s) \/ ActivationSettles(s)
            BY <3>1, <3>4, SettlingKeeps, SlotsKept
        <3>5. CASE \/ PairStored(s) \/ ActivationStored(s) \/ RevocationStored(s) \/ HostRevokes(s)
                   \/ TimedOut(s) \/ Overflows(s)
            BY <3>1, <3>5, OthersKeep, SlotsKept
        <3>6. CASE ResponseSent(s) \/ Admitted(s) \/ BrokerSocketCloses(s)
            BY <3>6, AnsweredSlots, ClosedGivesBack
        <3> QED
            BY <2>3, <3>2, <3>3, <3>4, <3>5, <3>6 DEF BridgeNext
    <2>4. CASE UNCHANGED vars
        BY <2>4 DEF vars, SlotInv, SlotsAreLimited, Occupying
    <2> QED
        BY <2>1, <2>2, <2>3, <2>4 DEF Next
<1>3. SlotInv => SlotsAreLimited
    BY DEF SlotInv
<1> QED
    BY <1>1, <1>2, <1>3, HandshakeAlways, PTL DEF Spec

-----------------------------------------------------------------------------
(* The provider of a browser: the inductive invariant                      *)

Updates == [op : {"activate"}, attempt : Attempts]
           \cup [op : {"remove"}, credential : 0 .. MaxAttempts, task : Tasks]

ProviderTypes ==
    /\ auth \in [Attempts -> Auth] /\ paired \subseteq 0 .. MaxAttempts
    /\ updates \in Seq(Updates) /\ generations \in Nat /\ provider \in Provider

(* A generation is handed out once, and to an attempt that begins after    *)
(* the connection the provider has.                                        *)
GenerationsAreNew ==
    /\ provider.generation =< generations
    /\ \A a \in Attempts : auth[a].phase = "proving" =>
          /\ auth[a].generation \in 1 .. generations /\ auth[a].generation # provider.generation
          /\ \A b \in Attempts : auth[b].phase = "proving" /\ auth[b].generation = auth[a].generation => b = a

ProvidersInv == ProviderTypes /\ GenerationsAreNew

NewestServes ==
    /\ provider.state \notin {"connecting", "ready"} /\ provider'.state \in {"connecting", "ready"}
          => provider'.generation > provider.generation
    /\ provider'.generation \notin {0, provider.generation}
          => provider'.generation > provider.generation /\ provider'.generation = generations

LEMMA OverIsTyped == Over \in Auth /\ Over.phase = "over" /\ Unused \in Auth
<1>1. Unused \in Auth
    BY ProvidersAssumption DEF Unused, Auth
<1>2. Over \in Auth /\ Over.phase = "over"
    BY <1>1 DEF Over, Auth
<1> QED BY <1>1, <1>2

LEMMA ProvidersInitially == ProvidersInit => ProvidersInv
BY ProvidersAssumption DEF ProvidersInit, ProvidersInv, ProviderTypes, GenerationsAreNew, Auth, Unused, Provider,
                           NoProvider, Updates, Attempts

LEMMA NextTaskIsOne == IdleTasks # {} => NextTask \in Tasks
<1>1. IdleTasks \in SUBSET Tasks /\ IdleTasks \in SUBSET Nat
    BY ProvidersAssumption DEF IdleTasks
<1>2. SUFFICES ASSUME IdleTasks # {} PROVE NextTask \in Tasks
    OBVIOUS
<1>3. \E t \in IdleTasks : \A u \in IdleTasks : t =< u
    BY <1>1, <1>2, NatMin
<1>4. NextTask \in IdleTasks
    BY <1>3, Zenon DEF NextTask
<1> QED BY <1>1, <1>4

(* A step that hands out no generation and installs no provider            *)
LEMMA NothingNew ==
    ASSUME ProvidersInv, ProviderTypes', generations' = generations,
           \A a \in Attempts : auth'[a].phase = "proving" =>
              auth[a].phase = "proving" /\ auth'[a].generation = auth[a].generation,
           provider'.generation \in {0, provider.generation},
           provider'.state \in {"connecting", "ready"} => provider.state \in {"connecting", "ready"}
    PROVE  ProvidersInv' /\ NewestServes
<1>1. provider.generation \in Nat /\ provider'.generation \in Nat
    BY DEF ProvidersInv, ProviderTypes, Provider
<1>2. \A a \in Attempts : auth'[a].phase = "proving" => auth'[a].generation # provider'.generation
    BY DEF ProvidersInv, GenerationsAreNew
<1>3. GenerationsAreNew'
    BY <1>1, <1>2 DEF ProvidersInv, ProviderTypes, GenerationsAreNew
<1> QED BY <1>1, <1>3 DEF ProvidersInv, NewestServes

(* Attempts that only lose their registration                              *)
LEMMA UnregisterKeeps ==
    ASSUME ProvidersInv, NEW peers, Unregister(peers)
    PROVE  /\ auth' \in [Attempts -> Auth]
           /\ \A a \in Attempts : auth'[a].phase = auth[a].phase /\ auth'[a].generation = auth[a].generation
BY ZenonT(60) DEF ProvidersInv, ProviderTypes, Unregister, Auth

LEMMA EntryIsLost ==
    ASSUME NEW entry \in Provider
    PROVE  /\ Lost(entry) \in Provider /\ Lost(entry).generation = entry.generation
           /\ Lost(entry).state \in {"connecting", "ready"} => FALSE
           /\ Disconnected(entry) \in Provider /\ Disconnected(entry).generation = entry.generation
           /\ Disconnected(entry).state = "disconnected"
<1>1. [entry EXCEPT !.attached = FALSE] \in Provider
    BY DEF Provider
<1> QED BY ZenonT(60), <1>1 DEF Lost, Recovering, Disconnected, Provider

LEMMA UpdateQueued ==
    ASSUME ProvidersInv, NEW u \in Updates
    PROVE  /\ Append(updates, u) \in Seq(Updates)
           /\ updates # <<>> =>
                /\ Head(updates) \in Updates /\ Tail(updates) \in Seq(Updates)
                /\ Append(Tail(updates), u) \in Seq(Updates)
BY DEF ProvidersInv, ProviderTypes

LEMMA RemovingKeeps ==
    ASSUME ProvidersInv, NEW t \in Tasks, Removing(t, paired)
    PROVE  updates' \in Seq(Updates)
<1>1. CASE paired = {}
    BY <1>1 DEF Removing, ProvidersInv, ProviderTypes
<1>2. CASE paired # {}
  <2>1. PICK k \in paired : updates' = Append(updates, [op |-> "remove", credential |-> k, task |-> t])
      BY <1>2 DEF Removing
  <2>2. [op |-> "remove", credential |-> k, task |-> t] \in Updates
      BY DEF Updates, ProvidersInv, ProviderTypes
  <2> QED BY <2>1, <2>2, UpdateQueued
<1> QED BY <1>1, <1>2

(* Handing out a generation, or giving the attempt up                      *)
LEMMA GeneratedIsNew ==
    ASSUME ProvidersInv, NEW a \in Attempts, Generated(a), UNCHANGED provider,
           paired' \subseteq 0 .. MaxAttempts, updates' \in Seq(Updates)
    PROVE  ProvidersInv' /\ NewestServes
<1>0. auth[a] \in Auth /\ provider.generation \in Nat /\ generations \in Nat
    BY DEF ProvidersInv, ProviderTypes, Provider
<1>1. CASE IsCurrent(a)
  <2>1. /\ generations' = generations + 1
        /\ auth' \in [Attempts -> Auth]
        /\ auth'[a].phase = "proving" /\ auth'[a].generation = generations + 1
        /\ \A b \in Attempts \ {a} : auth'[b] = auth[b]
    <3>1. /\ generations' = generations + 1
          /\ auth' = [auth EXCEPT ![a].phase = "proving", ![a].pending = FALSE, ![a].generation = generations + 1]
        BY <1>1 DEF Generated
    <3>2. auth' = [auth EXCEPT ![a] = [auth[a] EXCEPT !.phase = "proving", !.pending = FALSE,
                                                      !.generation = generations + 1]]
        BY <3>1 DEF ProvidersInv, ProviderTypes
    <3> DEFINE r == [auth[a] EXCEPT !.phase = "proving", !.pending = FALSE, !.generation = generations + 1]
    <3>4. r \in Auth /\ r.phase = "proving" /\ r.generation = generations + 1
      <4>1. PICK g \in Nat : g = generations + 1
          BY <1>0
      <4>2. r = [auth[a] EXCEPT !.phase = "proving", !.pending = FALSE, !.generation = g]
          BY <4>1
      <4>3. /\ [auth[a] EXCEPT !.phase = "proving", !.pending = FALSE, !.generation = g] \in Auth
            /\ [auth[a] EXCEPT !.phase = "proving", !.pending = FALSE, !.generation = g].phase = "proving"
            /\ [auth[a] EXCEPT !.phase = "proving", !.pending = FALSE, !.generation = g].generation = g
          BY <1>0 DEF Auth
      <4> QED BY <4>1, <4>2, <4>3
    <3> HIDE DEF r
    <3>5. auth' = [auth EXCEPT ![a] = r] /\ auth \in [Attempts -> Auth]
        BY <3>2 DEF r, ProvidersInv, ProviderTypes
    <3> QED BY <3>1, <3>4, <3>5
  <2>2. \A b \in Attempts \ {a} : auth[b].phase = "proving" => auth[b].generation \in 1 .. generations
      BY DEF ProvidersInv, GenerationsAreNew
  <2>3. GenerationsAreNew'
    <3>1. provider'.generation =< generations'
        BY <1>0, <2>1 DEF ProvidersInv, GenerationsAreNew
    <3>2. ASSUME NEW b \in Attempts, auth'[b].phase = "proving"
          PROVE  /\ auth'[b].generation \in 1 .. generations' /\ auth'[b].generation # provider'.generation
                 /\ \A c \in Attempts : auth'[c].phase = "proving" /\ auth'[c].generation = auth'[b].generation => c = b
        BY <1>0, <2>1, <2>2, <3>2 DEF ProvidersInv, GenerationsAreNew
    <3> QED BY <3>1, <3>2 DEF GenerationsAreNew
  <2> QED BY <1>0, <2>1, <2>3 DEF ProvidersInv, ProviderTypes, NewestServes
<1>2. CASE ~IsCurrent(a)
  <2>1. auth' = [auth EXCEPT ![a] = Over] /\ generations' = generations
      BY <1>2 DEF Generated
  <2>2. ProviderTypes'
      BY <2>1, OverIsTyped DEF ProvidersInv, ProviderTypes
  <2>3. \A b \in Attempts : auth'[b].phase = "proving" => auth'[b] = auth[b]
      BY <2>1, OverIsTyped DEF ProvidersInv, ProviderTypes
  <2> QED BY <2>1, <2>2, <2>3, NothingNew
<1> QED BY <1>1, <1>2

-----------------------------------------------------------------------------
LEMMA AuthenticationStep ==
    ASSUME ProvidersInv, NEW p \in Peers,
           \/ RegisterProvider(p) \/ Invite(p) \/ ChallengeExpires(p) \/ Authenticate(p) \/ DisconnectPeer(p)
           \/ \E pairs \in BOOLEAN : Begin(p, pairs)
    PROVE  ProvidersInv' /\ NewestServes
<1>0. provider \in Provider /\ auth \in [Attempts -> Auth]
    BY DEF ProvidersInv, ProviderTypes
<1>1. CASE RegisterProvider(p)
    BY <1>1, UnregisterKeeps, NothingNew DEF RegisterProvider, ProvidersInv, ProviderTypes
<1>2. CASE Invite(p) \/ ChallengeExpires(p)
    BY <1>2, NothingNew DEF Invite, ChallengeExpires, ProvidersInv, ProviderTypes
<1>3. CASE Authenticate(p)
  <2>1. UNCHANGED <<paired, updates, generations, provider>>
      BY <1>3 DEF Authenticate
  <2>2. /\ auth' \in [Attempts -> Auth]
        /\ \A b \in Attempts : auth'[b].phase = "proving" => auth'[b] = auth[b]
    <3>1. auth' = [auth EXCEPT ![challenge[p]] = IF IsCurrent(challenge[p])
                               THEN [auth[challenge[p]] EXCEPT !.phase = "verifying", !.registration = TRUE] ELSE Over]
        BY <1>0, <1>3 DEF Authenticate
    <3>2. \A a \in Attempts : /\ [auth[a] EXCEPT !.phase = "verifying", !.registration = TRUE] \in Auth
                             /\ [auth[a] EXCEPT !.phase = "verifying", !.registration = TRUE].phase = "verifying"
        BY <1>0 DEF Auth
    <3> QED BY <1>0, <3>1, <3>2, OverIsTyped
  <2> QED BY <2>1, <2>2, NothingNew DEF ProvidersInv, ProviderTypes
<1>4. CASE DisconnectPeer(p)
  <2>1. UNCHANGED <<paired, updates, generations>> /\ Unregister({p})
        /\ provider' = IF provider.peer = p THEN Lost(provider) ELSE provider
      BY <1>4 DEF DisconnectPeer
  <2> QED BY <1>0, <2>1, UnregisterKeeps, EntryIsLost, NothingNew DEF ProvidersInv, ProviderTypes
<1>5. ASSUME NEW pairs \in BOOLEAN, Begin(p, pairs)
      PROVE  ProvidersInv' /\ NewestServes
  <2>1. UNCHANGED <<paired, updates, generations, provider>>
      BY <1>5 DEF Begin
  <2>2. PICK a \in Attempts : \E k \in IF pairs THEN {a} ELSE paired :
                auth' = [auth EXCEPT ![a] = [Unused EXCEPT !.phase = "issued", !.peer = p,
                                                           !.credential = k, !.pending = pairs]]
      BY <1>5 DEF Begin
  <2>3. PICK k \in 0 .. MaxAttempts :
                auth' = [auth EXCEPT ![a] = [Unused EXCEPT !.phase = "issued", !.peer = p,
                                                           !.credential = k, !.pending = pairs]]
    <3>1. a \in 0 .. MaxAttempts /\ paired \subseteq 0 .. MaxAttempts
        BY ProvidersAssumption DEF Attempts, ProvidersInv, ProviderTypes
    <3> QED BY <2>2, <3>1
  <2>4. /\ auth' \in [Attempts -> Auth]
        /\ \A b \in Attempts : auth'[b].phase = "proving" => auth'[b] = auth[b]
      BY <1>0, <2>3 DEF Auth, Unused
  <2> QED BY <2>1, <2>4, NothingNew DEF ProvidersInv, ProviderTypes
<1> QED BY <1>1, <1>2, <1>3, <1>4, <1>5

LEMMA ProofStep ==
    ASSUME ProvidersInv, NEW a \in Attempts, Verified(a) \/ Install(a)
    PROVE  ProvidersInv' /\ NewestServes
<1>0. provider \in Provider /\ auth \in [Attempts -> Auth] /\ generations \in Nat
    BY DEF ProvidersInv, ProviderTypes
<1>1. CASE Verified(a)
  <2>0. UNCHANGED <<paired, provider>>
      BY <1>1 DEF Verified
  <2>1. CASE ~IsCurrent(a) \/ (IF auth[a].pending THEN paired # {} ELSE auth[a].credential \notin paired)
    <3>1. auth' = [auth EXCEPT ![a] = Over] /\ UNCHANGED <<updates, generations>>
        BY <1>1, <2>1 DEF Verified
    <3>2. auth' \in [Attempts -> Auth] /\ \A b \in Attempts : auth'[b].phase = "proving" => auth'[b] = auth[b]
        BY <1>0, <3>1, OverIsTyped
    <3> QED BY <2>0, <3>1, <3>2, NothingNew DEF ProvidersInv, ProviderTypes
  <2>2. CASE /\ ~(~IsCurrent(a) \/ (IF auth[a].pending THEN paired # {} ELSE auth[a].credential \notin paired))
             /\ auth[a].pending
    <3>1. /\ auth' = [auth EXCEPT ![a].phase = "activating"] /\ UNCHANGED generations
          /\ updates' = Append(updates, [op |-> "activate", attempt |-> a])
        BY <1>1, <2>2 DEF Verified
    <3>2. [op |-> "activate", attempt |-> a] \in Updates
        BY DEF Updates
    <3> QED BY <1>0, <2>0, <3>1, <3>2, UpdateQueued, NothingNew DEF ProvidersInv, ProviderTypes, Auth
  <2>3. CASE /\ ~(~IsCurrent(a) \/ (IF auth[a].pending THEN paired # {} ELSE auth[a].credential \notin paired))
             /\ ~auth[a].pending
    <3>1. Generated(a) /\ UNCHANGED updates
        BY <1>1, <2>3 DEF Verified
    <3> QED BY <2>0, <3>1, GeneratedIsNew DEF ProvidersInv, ProviderTypes
  <2> QED BY <2>1, <2>2, <2>3
<1>2. CASE Install(a)
  <2>1. /\ auth[a].phase = "proving" /\ auth' = [auth EXCEPT ![a] = Over]
        /\ UNCHANGED <<paired, updates, generations>>
      BY <1>2 DEF Install
  <2>2. /\ auth' \in [Attempts -> Auth] /\ auth'[a].phase # "proving"
        /\ \A b \in Attempts \ {a} : auth'[b] = auth[b]
      BY <1>0, <2>1, OverIsTyped
  <2>3. CASE Installable(a)
    <3>1. /\ provider' \in Provider /\ provider'.generation = auth[a].generation
          /\ auth[a].generation = generations
      <4>1. auth[a] \in Auth /\ NoProvider \in Provider
          BY <1>0 DEF NoProvider, Provider
      <4>2. /\ provider' = [NoProvider EXCEPT !.state = "connecting", !.peer = auth[a].peer,
                                !.generation = auth[a].generation, !.attached = TRUE, !.closed = TRUE,
                                !.setup = HasAutomation]
            /\ auth[a].generation = generations
          BY <1>2, <2>3 DEF Install, Installable
      <4>3. auth[a].peer \in Peers \cup {None} /\ HasAutomation \in BOOLEAN /\ auth[a].generation \in Nat
          BY <4>1, ProvidersAssumption DEF Auth
      <4> QED BY <4>1, <4>2, <4>3 DEF Provider
    <3>2. auth[a].generation \in 1 .. generations /\ auth[a].generation # provider.generation
          /\ provider.generation =< generations /\ provider.generation \in Nat
        BY <1>0, <2>1 DEF ProvidersInv, GenerationsAreNew, Provider
    <3>3. \A b \in Attempts : auth'[b].phase = "proving" =>
             /\ auth'[b] = auth[b] /\ b # a
             /\ auth[b].generation \in 1 .. generations /\ auth[b].generation # auth[a].generation
             /\ \A c \in Attempts : auth'[c].phase = "proving" /\ auth'[c].generation = auth'[b].generation => c = b
        BY <2>1, <2>2 DEF ProvidersInv, GenerationsAreNew
    <3>4. GenerationsAreNew'
        BY <1>0, <2>1, <3>1, <3>2, <3>3 DEF GenerationsAreNew
    <3>5. NewestServes
        BY <1>0, <3>1, <3>2 DEF NewestServes
    <3> QED BY <2>1, <2>2, <3>1, <3>4, <3>5 DEF ProvidersInv, ProviderTypes
  <2>4. CASE ~Installable(a)
    <3>1. provider' = provider
        BY <1>2, <2>4 DEF Install
    <3> QED BY <2>1, <2>2, <3>1, NothingNew DEF ProvidersInv, ProviderTypes
  <2> QED BY <2>3, <2>4
<1> QED BY <1>1, <1>2

LEMMA StoreAnswersStep ==
    ASSUME ProvidersInv, Activated \/ Removed
    PROVE  ProvidersInv' /\ NewestServes
<1>0. updates \in Seq(Updates) /\ updates # <<>> /\ Head(updates) \in Updates /\ Tail(updates) \in Seq(Updates)
    BY DEF Activated, Removed, ProvidersInv, ProviderTypes
<1>1. CASE Activated
  <2>1. PICK a \in Attempts :
          /\ updates' = Tail(updates) /\ UNCHANGED provider
          /\ \/ paired' = paired \cup {auth[a].credential} /\ Generated(a)
             \/ auth' = [auth EXCEPT ![a] = Over] /\ UNCHANGED <<paired, generations>>
      BY <1>0, <1>1 DEF Activated, Updates
  <2>2. auth[a] \in Auth
      BY DEF ProvidersInv, ProviderTypes
  <2>3. CASE paired' = paired \cup {auth[a].credential} /\ Generated(a)
      BY <1>0, <2>1, <2>2, <2>3, GeneratedIsNew DEF ProvidersInv, ProviderTypes, Auth
  <2>4. CASE auth' = [auth EXCEPT ![a] = Over] /\ UNCHANGED <<paired, generations>>
    <3>1. auth' \in [Attempts -> Auth] /\ \A b \in Attempts : auth'[b].phase = "proving" => auth'[b] = auth[b]
        BY <2>4, OverIsTyped DEF ProvidersInv, ProviderTypes
    <3> QED BY <1>0, <2>1, <2>4, <3>1, NothingNew DEF ProvidersInv, ProviderTypes
  <2> QED BY <2>1, <2>3, <2>4
<1>2. CASE Removed
  <2>1. UNCHANGED <<auth, generations, provider>> /\ paired' \subseteq paired
      BY <1>2 DEF Removed, pairing
  <2>2. Head(updates).op = "remove"
      BY <1>2 DEF Removed
  <2>3. PICK t \in Tasks : t = Head(updates).task
      BY <1>0, <2>2 DEF Updates
  <2>4. \/ updates' = Tail(updates)
        \/ \E k \in 0 .. MaxAttempts : updates' = Append(Tail(updates), [op |-> "remove", credential |-> k, task |-> t])
      BY <1>2, <2>3 DEF Removed, ProvidersInv, ProviderTypes
  <2>5. \A k \in 0 .. MaxAttempts : [op |-> "remove", credential |-> k, task |-> t] \in Updates
      BY DEF Updates
  <2>6. updates' \in Seq(Updates)
      BY <1>0, <2>4, <2>5, UpdateQueued
  <2> QED BY <2>1, <2>6, NothingNew DEF ProvidersInv, ProviderTypes
<1> QED BY <1>1, <1>2

LEMMA EntryStep ==
    ASSUME ProvidersInv,
           \/ ProviderConnectionClosed \/ SetupEnds \/ SetupFails
           \/ ReconcileProvider \/ TargetsReconciled \/ ReconciliationEnds
    PROVE  ProvidersInv' /\ NewestServes
<1>0. provider \in Provider
    BY DEF ProvidersInv, ProviderTypes
<1>1. UNCHANGED <<auth, paired, updates, generations>>
    BY DEF ProviderConnectionClosed, SetupEnds, SetupFails, ReconcileProvider, TargetsReconciled, ReconciliationEnds
<1>2. /\ provider' \in Provider /\ provider'.generation = provider.generation
      /\ provider'.state \in {"connecting", "ready"} => provider.state \in {"connecting", "ready"}
  <2>1. CASE ProviderConnectionClosed
    <3>1. /\ [provider EXCEPT !.closed = FALSE] \in Provider
          /\ [provider EXCEPT !.closed = FALSE].generation = provider.generation
        BY <1>0 DEF Provider
    <3> QED BY <2>1, <3>1, EntryIsLost DEF ProviderConnectionClosed
  <2>2. CASE SetupEnds
      BY <1>0, <2>2 DEF SetupEnds, Provider
  <2>3. CASE SetupFails
    <3>1. /\ [provider EXCEPT !.setup = FALSE] \in Provider
          /\ [provider EXCEPT !.setup = FALSE].generation = provider.generation
        BY <1>0 DEF Provider
    <3> QED BY <2>3, <3>1, EntryIsLost DEF SetupFails
  <2>4. CASE ReconcileProvider
      BY <1>0, <2>4 DEF ReconcileProvider, Reconcilable, Provider
  <2>5. CASE TargetsReconciled
    <3>1. CASE Reconcilable
        BY <1>0, <2>5, <3>1 DEF TargetsReconciled, Reconcilable, Provider
    <3>2. CASE ~Reconcilable
        BY <1>0, <2>5, <3>2, EntryIsLost DEF TargetsReconciled
    <3> QED BY <3>1, <3>2
  <2>6. CASE ReconciliationEnds
    <3>1. /\ [provider EXCEPT !.reconciling = FALSE] \in Provider
          /\ [provider EXCEPT !.reconciling = FALSE].generation = provider.generation
          /\ [provider EXCEPT !.reconciling = FALSE].state = provider.state
        BY <1>0 DEF Provider
    <3> QED BY <2>6, <3>1, EntryIsLost DEF ReconciliationEnds
  <2> QED BY <2>1, <2>2, <2>3, <2>4, <2>5, <2>6
<1> QED BY <1>1, <1>2, NothingNew DEF ProvidersInv, ProviderTypes

LEMMA LeavingStep ==
    ASSUME ProvidersInv, GoesOffline \/ ForgetRegistration \/ \E forget \in BOOLEAN : DisconnectProvider(forget)
    PROVE  ProvidersInv' /\ NewestServes
<1>0. provider \in Provider
    BY DEF ProvidersInv, ProviderTypes
<1>1. CASE GoesOffline
    BY ZenonT(60), <1>0, <1>1, NothingNew DEF GoesOffline, ProvidersInv, ProviderTypes, Provider
<1>2. CASE ForgetRegistration
  <2>1. updates' \in Seq(Updates)
      BY <1>2, NextTaskIsOne, RemovingKeeps DEF ForgetRegistration
  <2> QED BY <1>2, <2>1, UnregisterKeeps, NothingNew DEF ForgetRegistration, ProvidersInv, ProviderTypes
<1>3. ASSUME NEW forget \in BOOLEAN, DisconnectProvider(forget)
      PROVE  ProvidersInv' /\ NewestServes
  <2>1. UNCHANGED <<paired, updates, generations>>
      BY <1>3 DEF DisconnectProvider
  <2>2. /\ auth' \in [Attempts -> Auth]
        /\ \A a \in Attempts : auth'[a].phase = auth[a].phase /\ auth'[a].generation = auth[a].generation
    <3>1. CASE forget
        BY <1>3, <3>1, UnregisterKeeps DEF DisconnectProvider
    <3>2. CASE ~forget
        BY <1>3, <3>2 DEF DisconnectProvider, ProvidersInv, ProviderTypes
    <3> QED BY <3>1, <3>2
  <2>3. /\ provider' \in Provider /\ provider'.generation \in {0, provider.generation}
        /\ provider'.state \notin {"connecting", "ready"}
    <3>1. CASE forget
        BY <1>3, <3>1 DEF DisconnectProvider, NoProvider, Provider
    <3>2. CASE ~forget
        BY <1>0, <1>3, <3>2, EntryIsLost DEF DisconnectProvider
    <3> QED BY <3>1, <3>2
  <2> QED BY <2>1, <2>2, <2>3, NothingNew DEF ProvidersInv, ProviderTypes
<1> QED BY <1>1, <1>2, <1>3

LEMMA CancellationStep ==
    ASSUME ProvidersInv, NEW t \in Tasks, Cancelled(t) \/ \E r \in Requests : CancelRequest(t, r)
    PROVE  ProvidersInv' /\ NewestServes
<1>1. UNCHANGED <<auth, paired, generations, provider>>
    BY DEF Cancelled, CancelRequest
<1>2. updates' \in Seq(Updates)
  <2>1. CASE Cancelled(t)
      BY <2>1, RemovingKeeps DEF Cancelled, ProvidersInv, ProviderTypes
  <2>2. CASE \E r \in Requests : CancelRequest(t, r)
      BY <2>2 DEF CancelRequest, ProvidersInv, ProviderTypes
  <2> QED BY <2>1, <2>2
<1> QED BY <1>1, <1>2, NothingNew DEF ProvidersInv, ProviderTypes

LEMMA ProvidersStep == ProvidersInv /\ [ProvidersNext]_providersVars => ProvidersInv' /\ NewestServes
<1> SUFFICES ASSUME ProvidersInv, [ProvidersNext]_providersVars PROVE ProvidersInv' /\ NewestServes
    OBVIOUS
<1>1. CASE InvitationLapses \/ \E r \in Requests : Grant(r)
    BY <1>1, NothingNew DEF InvitationLapses, Grant, ProvidersInv, ProviderTypes, pairing
<1>2. CASE UNCHANGED providersVars
    BY <1>2, NothingNew DEF providersVars, ProvidersInv, ProviderTypes
<1> QED
    BY <1>1, <1>2, AuthenticationStep, ProofStep, StoreAnswersStep, EntryStep, LeavingStep, CancellationStep
    DEF ProvidersNext

(* A connection of the browser that was lost, went offline or was          *)
(* disconnected is never served again, and an entry is only ever replaced  *)
(* by that of a newer connection, whatever authentications overlap.        *)
THEOREM LostConnectionsStayLost == ProvidersSpec => NewestConnectionServes
<1>1. ProvidersInv /\ [ProvidersNext]_providersVars => [NewestServes]_providersVars
    BY ProvidersStep
<1>2. ProvidersSpec => [][NewestServes]_providersVars
    BY <1>1, ProvidersInitially, ProvidersStep, PTL DEF ProvidersSpec
<1> QED BY <1>2 DEF NewestConnectionServes, NewestServes

-----------------------------------------------------------------------------
(* The client: what its requests and subscriptions keep, until it is closed *)

(* A subscription that is live and not being made again                    *)
Current(h) ==
    /\ handle[h] = "live"
    /\ \/ loop = "none"
       \/ loop = "restoring" /\ h \in visited /\ \A r \in requests : r.kind = "restore" => r.h # h

ClientTypes ==
    /\ up \in {"open", "closing", "closed"}
    /\ loop \in {"none", "connecting", "snapshot", "restoring", "waiting"}
    /\ handle \in [Handles -> {"none", "asked", "live", "closed", "failed"}]
    /\ id \in [Handles -> Nat] /\ nextId \in Nat \ {0}
    /\ requests \subseteq Request /\ served \subseteq [h : Handles, id : Nat \ {0}]
    /\ visited \subseteq Handles /\ raced \subseteq Handles

FollowsLoop(r) ==
    /\ r.kind = "list" => loop = "snapshot"
    /\ r.kind = "restore" =>
          /\ loop = "restoring" /\ r.h \in visited /\ r.phase # "held"
          /\ handle[r.h] \in {"live", "closed"} /\ (handle[r.h] = "closed" => r.h \in raced)
    /\ r.kind = "subscribe" => handle[r.h] = "asked"
    /\ r.kind = "unsubscribe" => handle[r.h] = "closed"
    /\ r.kind \in {"subscribe", "unsubscribe"} => (r.phase = "held" <=> loop # "none")

OneEach ==
    \A r, q \in requests :
        \/ r.kind = "list" /\ q.kind = "list"
        \/ r.kind \in Subscribing /\ q.kind \in Subscribing /\ r.h = q.h
        => r = q

IdsAreOwned ==
    /\ \A h \in Handles : id[h] < nextId
    /\ \A r \in requests : r.kind # "list" => r.id < nextId
    /\ \A x \in served :
          /\ x.id < nextId
          /\ \A h \in Handles : id[h] = x.id => h = x.h
          /\ \A r \in requests : r.kind # "list" /\ r.id = x.id => r.h = x.h

Justified(x) ==
    \/ x.h \in raced
    \/ \E r \in requests : r.kind \in Subscribing /\ r.phase = "ok" /\ r.h = x.h /\ r.id = x.id
    \/ \E r \in requests : r.kind = "unsubscribe" /\ r.phase \in {"held", "sent"} /\ r.h = x.h /\ r.id = x.id
    \/ Current(x.h) /\ x.id = id[x.h]

ServedWhileOpen ==
    /\ \A h \in Handles : Current(h) => [h |-> h, id |-> id[h]] \in served
    /\ \A r \in requests : r.kind \in Subscribing /\ r.phase = "ok" /\ handle[r.h] \in {"asked", "live"}
                              => [h |-> r.h, id |-> r.id] \in served
    /\ \A x \in served : Justified(x)

ClientInv ==
    /\ ClientTypes /\ OneEach /\ IdsAreOwned
    /\ \A r \in requests : FollowsLoop(r)
    /\ \A h \in raced : handle[h] = "closed"
    /\ loop \in {"connecting", "waiting"} => up = "closed"
    /\ up = "closed" => served = {}
    /\ up = "open" => ServedWhileOpen
OpenClientInv == manual \/ ClientInv

-----------------------------------------------------------------------------
LEMMA ClientInitially == ClientInit => OpenClientInv
BY DEF ClientInit, OpenClientInv, ClientInv, ClientTypes, OneEach, IdsAreOwned, FollowsLoop, ServedWhileOpen, Justified,
       Current

LEMMA FailingIs ==
    ASSUME ClientTypes, NEW hs
    PROVE  /\ Failing(hs) \in [Handles -> {"none", "asked", "live", "closed", "failed"}]
           /\ \A h \in Handles :
                 /\ h \notin hs => Failing(hs)[h] = handle[h]
                 /\ Failing(hs)[h] = "live" => handle[h] = "live"
                 /\ Failing(hs)[h] = "asked" => handle[h] = "asked"
                 /\ handle[h] = "closed" => Failing(hs)[h] = "closed"
                 /\ Failing(hs)[h] = "closed" => handle[h] = "closed"
BY DEF Failing, ClientTypes

(* What a request is of, and what it becomes when its phase changes        *)
LEMMA RequestIs ==
    ASSUME NEW r \in Request
    PROVE  /\ r.phase \in {"held", "sent", "ok", "refused"}
           /\ r.kind \in {"subscribe", "restore", "unsubscribe", "list"}
           /\ r.kind # "list" => r.h \in Handles /\ r.id \in Nat
           /\ r.kind = "list" => r.phase \in {"sent", "ok"}
<1>1. CASE r \in [kind : {"list"}, phase : {"sent", "ok"}]
    BY <1>1
<1>2. CASE r \in [kind : {"subscribe", "restore", "unsubscribe"}, h : Handles, id : Nat,
                  phase : {"held", "sent", "ok", "refused"}]
    BY <1>2
<1> QED BY <1>1, <1>2 DEF Request

LEMMA PhaseChanges ==
    ASSUME NEW r \in Request, NEW p \in {"held", "sent", "ok", "refused"}, r.kind # "list" \/ p = "ok"
    PROVE  /\ [r EXCEPT !.phase = p] \in Request
           /\ [r EXCEPT !.phase = p].kind = r.kind /\ [r EXCEPT !.phase = p].phase = p
           /\ r.kind # "list" => [r EXCEPT !.phase = p].h = r.h /\ [r EXCEPT !.phase = p].id = r.id
<1>1. CASE r \in [kind : {"list"}, phase : {"sent", "ok"}]
    BY <1>1 DEF Request
<1>2. CASE r \in [kind : {"subscribe", "restore", "unsubscribe"}, h : Handles, id : Nat,
                  phase : {"held", "sent", "ok", "refused"}]
    BY <1>2 DEF Request
<1> QED BY <1>1, <1>2 DEF Request

LEMMA SubscriptionAnswered ==
    ASSUME NEW r \in Request, NEW i \in Nat, r.kind \in Subscribing
    PROVE  /\ [r EXCEPT !.phase = "ok", !.id = i] \in Request
           /\ [r EXCEPT !.phase = "ok", !.id = i].kind = r.kind
           /\ [r EXCEPT !.phase = "ok", !.id = i].phase = "ok"
           /\ [r EXCEPT !.phase = "ok", !.id = i].h = r.h /\ [r EXCEPT !.phase = "ok", !.id = i].id = i
BY DEF Request, Subscribing

LEMMA HandleOfRequest ==
    ASSUME ClientInv, NEW q \in requests, q.kind # "list"
    PROVE  /\ q.kind \in {"subscribe", "restore", "unsubscribe"}
           /\ q \in Request /\ q.h \in Handles /\ q.id \in Nat /\ FollowsLoop(q)
           /\ q.kind = "subscribe" => handle[q.h] = "asked"
           /\ q.kind = "unsubscribe" => handle[q.h] = "closed"
           /\ q.kind = "restore" => handle[q.h] \in {"live", "closed"}
           /\ handle[q.h] \in {"asked", "live", "closed"}
<1>1. q \in Request /\ FollowsLoop(q)
    BY DEF ClientInv, ClientTypes
<1> QED BY <1>1, RequestIs DEF FollowsLoop

LEMMA StillFollows ==
    ASSUME NEW q \in Request, FollowsLoop(q), UNCHANGED loop, visited \subseteq visited', raced \subseteq raced',
           q.kind # "list" => handle'[q.h] = handle[q.h]
    PROVE  FollowsLoop(q)'
BY RequestIs DEF FollowsLoop

(* A step of a connection that is not open, or that stays as it was        *)
LEMMA NothingServedStep ==
    ASSUME ClientTypes', OneEach', \A r \in requests' : FollowsLoop(r)', \A h \in raced' : handle'[h] = "closed",
           IdsAreOwned', loop' \in {"connecting", "waiting"} => up' = "closed",
           up' = "closed" => served' = {}, up' # "open"
    PROVE  OpenClientInv'
BY DEF OpenClientInv, ClientInv

(* Requests go, none comes: what is left follows the loop, and its owner   *)
LEMMA FewerRequests ==
    ASSUME ClientInv, NEW rs \in SUBSET requests, requests' = rs, served' \subseteq served,
           UNCHANGED <<id, nextId>>
    PROVE  requests' \subseteq Request /\ OneEach' /\ IdsAreOwned'
BY DEF ClientInv, ClientTypes, OneEach, IdsAreOwned

-----------------------------------------------------------------------------
LEMMA SubscribeStep ==
    ASSUME ClientInv, ~manual, NEW h \in Handles, Subscribe(h)
    PROVE  ClientInv'
<1>0. /\ handle[h] = "none" /\ UNCHANGED <<up, loop, visited, id, served, nextId, raced>>
      /\ handle \in [Handles -> {"none", "asked", "live", "closed", "failed"}] /\ ClientTypes
    BY DEF Subscribe, ClientInv, ClientTypes
<1> DEFINE r == [kind |-> "subscribe", h |-> h, id |-> 0, phase |-> "sent"]
<1>1. r \in Request /\ r.kind = "subscribe" /\ r.h = h /\ r.id = 0 /\ r.phase = "sent"
    BY DEF Request
<1>2. CASE loop = "none" /\ up # "open"
  <2>1. requests' = requests /\ handle' = [handle EXCEPT ![h] = "failed"]
      BY <1>2 DEF Subscribe, Asked
  <2>2. \A q \in requests : FollowsLoop(q)'
    <3>1. \A q \in requests : q \in Request /\ FollowsLoop(q)
        BY DEF ClientInv, ClientTypes
    <3>2. \A q \in requests : q.kind # "list" => handle'[q.h] = handle[q.h]
        BY <1>0, <2>1, HandleOfRequest
    <3> QED BY <1>0, <2>1, <3>1, <3>2, StillFollows
  <2> QED BY <1>0, <1>2, <2>1, <2>2 DEF ClientInv, ClientTypes, OneEach, IdsAreOwned
<1>3. CASE ~(loop = "none" /\ up # "open")
  <2>1. PICK a \in Request :
          /\ a.kind = "subscribe" /\ a.h = h /\ a.id = 0 /\ a.phase = IF loop = "none" THEN "sent" ELSE "held"
          /\ requests' = requests \cup {a} /\ handle' = [handle EXCEPT ![h] = "asked"]
    <3>0. PICK u \in Request : u = r
        BY <1>1
    <3>1. PICK p \in {"sent", "held"} :
            /\ p = IF loop = "none" THEN "sent" ELSE "held"
            /\ requests' = requests \cup {[u EXCEPT !.phase = p]} /\ handle' = [handle EXCEPT ![h] = "asked"]
        <4>1. CASE loop = "none"
          <5>1. [u EXCEPT !.phase = "sent"] = r /\ Asked(r) = {r}
              BY <1>3, <3>0, <4>1 DEF Asked
          <5> QED BY <4>1, <5>1 DEF Subscribe
        <4>2. CASE loop # "none"
            BY <1>3, <3>0, <4>2 DEF Subscribe, Asked
        <4> QED BY <4>1, <4>2
    <3> HIDE DEF r
    <3>2. u.kind = r.kind /\ u.h = r.h /\ u.id = r.id /\ u.kind # "list"
        BY <1>1, <3>0
    <3>3. /\ [u EXCEPT !.phase = p] \in Request /\ [u EXCEPT !.phase = p].kind = u.kind
          /\ [u EXCEPT !.phase = p].phase = p
          /\ [u EXCEPT !.phase = p].h = u.h /\ [u EXCEPT !.phase = p].id = u.id
        BY <3>2 DEF Request
    <3> QED BY <1>1, <3>1, <3>2, <3>3
  <2>2. a.kind # "list" /\ a.phase \in {"sent", "held"}
      BY <2>1
  <2> HIDE DEF r
  <2>3. \A q \in requests : q \in Request /\ FollowsLoop(q) /\ (q.kind # "list" => q.h # h)
    <3>1. \A q \in requests : q \in Request /\ FollowsLoop(q)
        BY DEF ClientInv, ClientTypes
    <3> QED BY <1>0, <3>1, HandleOfRequest
  <2>4. \A q \in requests' : FollowsLoop(q)'
    <3>1. FollowsLoop(a)'
        BY <1>0, <2>1, <2>2 DEF FollowsLoop
    <3>2. \A q \in requests : FollowsLoop(q)'
      <4>1. \A q \in requests : q.kind # "list" => handle'[q.h] = handle[q.h]
          BY <1>0, <2>1, <2>3, HandleOfRequest
      <4> QED BY <1>0, <2>3, <4>1, StillFollows
    <3> QED BY <2>1, <3>1, <3>2
  <2>5. OneEach'
      BY <2>1, <2>2, <2>3 DEF ClientInv, OneEach, Subscribing
  <2>6. IdsAreOwned'
      BY <1>0, <2>1, <2>2 DEF ClientInv, IdsAreOwned, ClientTypes
  <2>7. \A k \in Handles : Current(k)' <=> Current(k)
      BY <1>0, <2>1, <2>2 DEF Current
  <2>8. ServedWhileOpen => ServedWhileOpen'
    <3> SUFFICES ASSUME ServedWhileOpen PROVE ServedWhileOpen'
        OBVIOUS
    <3>1. \A x \in served' : Justified(x)'
        BY <1>0, <2>1, <2>7 DEF ServedWhileOpen, Justified, ClientTypes
    <3>2. \A q \in requests' : q.kind \in Subscribing /\ q.phase = "ok" /\ handle'[q.h] \in {"asked", "live"}
                              => [h |-> q.h, id |-> q.id] \in served'
        BY <1>0, <2>1, <2>2, <2>3 DEF ServedWhileOpen, Subscribing
    <3> QED BY <1>0, <2>7, <3>1, <3>2 DEF ServedWhileOpen
  <2> QED BY <1>0, <2>1, <2>2, <2>4, <2>5, <2>6, <2>8 DEF ClientInv, ClientTypes
<1> QED BY <1>2, <1>3

LEMMA CloseSubscriptionStep ==
    ASSUME ClientInv, ~manual, NEW h \in Handles, CloseSubscription(h)
    PROVE  ClientInv'
<1>0. /\ handle[h] = "live" /\ UNCHANGED <<up, loop, visited, id, served, nextId>>
      /\ handle' = [handle EXCEPT ![h] = "closed"]
      /\ raced' = IF \E r \in requests : r.kind = "restore" /\ r.h = h THEN raced \cup {h} ELSE raced
      /\ handle \in [Handles -> {"none", "asked", "live", "closed", "failed"}] /\ ClientTypes
    BY DEF CloseSubscription, ClientInv, ClientTypes
<1> DEFINE r == [kind |-> "unsubscribe", h |-> h, id |-> id[h], phase |-> "sent"]
<1>1. r \in Request /\ r.kind = "unsubscribe" /\ r.h = h /\ r.id = id[h] /\ r.phase = "sent"
    BY <1>0 DEF Request, ClientTypes
<1>2. \A q \in requests : q \in Request /\ FollowsLoop(q)
    BY DEF ClientInv, ClientTypes
<1>3. \A q \in requests : FollowsLoop(q)'
  <2> SUFFICES ASSUME NEW q \in requests PROVE FollowsLoop(q)'
      OBVIOUS
  <2>1. CASE q.kind = "list"
      BY <1>0, <1>2, <2>1 DEF FollowsLoop
  <2>2. CASE q.kind # "list" /\ q.h # h
      BY <1>0, <1>2, <2>2, RequestIs DEF FollowsLoop
  <2>3. CASE q.kind # "list" /\ q.h = h
      BY <1>0, <1>2, <2>3, RequestIs DEF FollowsLoop
  <2> QED BY <2>1, <2>2, <2>3
<1>4. raced' \subseteq Handles /\ \A k \in raced' : handle'[k] = "closed"
    BY <1>0 DEF ClientInv, ClientTypes
<1>5. \A k \in Handles : k # h /\ Current(k) => Current(k)'
    <2>1. \A q \in requests' : q.kind = "restore" => q \in requests
        BY <1>1 DEF CloseSubscription, Asked
    <2> QED BY <1>0, <2>1 DEF Current
<1>6. \A k \in Handles : Current(k)' => Current(k) /\ k # h
    <2>1. requests \subseteq requests'
        BY DEF CloseSubscription
    <2> QED BY <1>0, <2>1 DEF Current
<1>7. CASE loop = "none" /\ up # "open"
  <2>1. requests' = requests
      BY <1>7 DEF CloseSubscription, Asked
  <2> QED BY <1>0, <1>3, <1>4, <1>7, <2>1 DEF ClientInv, ClientTypes, OneEach, IdsAreOwned
<1>8. CASE ~(loop = "none" /\ up # "open")
  <2>1. PICK a \in Request :
          /\ a.kind = "unsubscribe" /\ a.h = h /\ a.id = id[h] /\ a.phase = IF loop = "none" THEN "sent" ELSE "held"
          /\ requests' = requests \cup {a}
    <3>0. PICK u \in Request : u = r
        BY <1>1
    <3>1. PICK p \in {"sent", "held"} :
            /\ p = IF loop = "none" THEN "sent" ELSE "held"
            /\ requests' = requests \cup {[u EXCEPT !.phase = p]}
        <4>1. CASE loop = "none"
            BY <1>8, <3>0, <4>1 DEF CloseSubscription, Asked
        <4>2. CASE loop # "none"
            BY <1>8, <3>0, <4>2 DEF CloseSubscription, Asked
        <4> QED BY <4>1, <4>2
    <3> HIDE DEF r
    <3>2. u.kind = r.kind /\ u.h = r.h /\ u.id = r.id /\ u.kind # "list"
        BY <1>1, <3>0
    <3>3. /\ [u EXCEPT !.phase = p] \in Request /\ [u EXCEPT !.phase = p].kind = u.kind
          /\ [u EXCEPT !.phase = p].phase = p
          /\ [u EXCEPT !.phase = p].h = u.h /\ [u EXCEPT !.phase = p].id = u.id
        BY <3>2 DEF Request
    <3> QED BY <1>1, <3>1, <3>2, <3>3
  <2>2. a.kind # "list" /\ a.phase \in {"sent", "held"}
      BY <2>1
  <2> HIDE DEF r
  <2>4. \A q \in requests' : FollowsLoop(q)'
    <3>1. FollowsLoop(a)'
        BY <1>0, <2>1, <2>2 DEF FollowsLoop
    <3> QED BY <1>3, <2>1, <3>1
  <2>5. OneEach'
      BY <2>1, <2>2 DEF ClientInv, OneEach, Subscribing
  <2>6. IdsAreOwned'
      BY <1>0, <2>1, <2>2 DEF ClientInv, IdsAreOwned, ClientTypes
  <2>7. ServedWhileOpen => ServedWhileOpen'
    <3> SUFFICES ASSUME ServedWhileOpen PROVE ServedWhileOpen'
        OBVIOUS
    <3>1. \A x \in served' : Justified(x)'
        <4> SUFFICES ASSUME NEW x \in served PROVE Justified(x)'
            BY <1>0
        <4>1. CASE Current(x.h) /\ x.id = id[x.h] /\ x.h = h
            BY <1>0, <2>1, <2>2, <4>1 DEF Justified
        <4>2. CASE Current(x.h) /\ x.id = id[x.h] /\ x.h # h
            BY <1>0, <1>5, <4>2 DEF Justified, ClientTypes
        <4>3. CASE ~(Current(x.h) /\ x.id = id[x.h])
            BY <1>0, <2>1, <4>3 DEF ServedWhileOpen, Justified
        <4> QED BY <4>1, <4>2, <4>3
    <3>2. \A q \in requests' : q.kind \in Subscribing /\ q.phase = "ok" /\ handle'[q.h] \in {"asked", "live"}
                              => [h |-> q.h, id |-> q.id] \in served'
        BY <1>0, <1>2, <2>1, <2>2, RequestIs DEF ServedWhileOpen, Subscribing
    <3> QED BY <1>0, <1>6, <3>1, <3>2 DEF ServedWhileOpen
  <2> QED BY <1>0, <1>4, <2>1, <2>2, <2>4, <2>5, <2>6, <2>7 DEF ClientInv, ClientTypes
<1> QED BY <1>7, <1>8

LEMMA RestoreStep ==
    ASSUME ClientInv, ~manual, NEW h \in Handles, Restore(h)
    PROVE  ClientInv'
<1>0. /\ loop = "restoring" /\ handle[h] = "live" /\ h \notin visited /\ visited' = visited \cup {h}
      /\ \A q \in requests : q.kind # "restore"
      /\ UNCHANGED <<up, loop, id, served, nextId, raced>>
      /\ handle \in [Handles -> {"none", "asked", "live", "closed", "failed"}] /\ ClientTypes
    BY DEF Restore, Restoring, Restorable, Live, ClientInv, ClientTypes
<1>1. \A q \in requests : q \in Request /\ FollowsLoop(q)
    BY DEF ClientInv, ClientTypes
<1>2. \A q \in requests : q.kind # "list" => q.h # h
    BY <1>0, HandleOfRequest
<1>3. h \notin raced
    BY <1>0 DEF ClientInv
<1>4. CASE up # "open"
  <2>1. requests' = requests /\ handle' = Failing({h})
      BY <1>4 DEF Restore
  <2>2. \A q \in requests : FollowsLoop(q)'
    <3>1. \A q \in requests : q.kind # "list" => handle'[q.h] = handle[q.h]
        BY <1>0, <1>2, <2>1, FailingIs, HandleOfRequest
    <3> QED BY <1>0, <1>1, <3>1, StillFollows
  <2>3. \A k \in raced : handle'[k] = "closed"
      BY <1>0, <2>1, FailingIs DEF ClientInv, ClientTypes
  <2> QED BY <1>0, <1>4, <2>1, <2>2, <2>3, FailingIs DEF ClientInv, ClientTypes, OneEach, IdsAreOwned
<1>5. CASE up = "open"
  <2> DEFINE a == [kind |-> "restore", h |-> h, id |-> 0, phase |-> "sent"]
  <2>1. requests' = requests \cup {a} /\ handle' = handle
      BY <1>5 DEF Restore
  <2>2. a \in Request /\ a.kind = "restore" /\ a.h = h /\ a.id = 0 /\ a.phase = "sent"
      BY DEF Request
  <2> HIDE DEF a
  <2>4. \A q \in requests' : FollowsLoop(q)'
    <3>1. FollowsLoop(a)'
        BY <1>0, <2>1, <2>2 DEF FollowsLoop
    <3>2. \A q \in requests : FollowsLoop(q)'
        BY <1>0, <1>1, <2>1 DEF FollowsLoop
    <3> QED BY <2>1, <3>1, <3>2
  <2>5. OneEach'
    <3>1. \A q \in requests : q.kind \in Subscribing => q.kind # "list"
        BY DEF Subscribing
    <3> QED BY <1>2, <2>1, <2>2, <3>1 DEF ClientInv, OneEach
  <2>6. IdsAreOwned'
      BY <1>0, <2>1, <2>2 DEF ClientInv, IdsAreOwned, ClientTypes
  <2>7. \A k \in Handles : Current(k)' <=> Current(k)
    <3>1. ~Current(h) /\ ~Current(h)'
        BY <1>0, <2>1, <2>2 DEF Current
    <3>2. ASSUME NEW k \in Handles, k # h PROVE Current(k)' <=> Current(k)
        BY <1>0, <2>1, <2>2, <3>2 DEF Current
    <3> QED BY <3>1, <3>2
  <2>8. ServedWhileOpen => ServedWhileOpen'
    <3> SUFFICES ASSUME ServedWhileOpen PROVE ServedWhileOpen'
        OBVIOUS
    <3>1. \A x \in served' : Justified(x)'
        BY <1>0, <2>1, <2>7 DEF ServedWhileOpen, Justified, ClientTypes
    <3>2. \A q \in requests' : q.kind \in Subscribing /\ q.phase = "ok" /\ handle'[q.h] \in {"asked", "live"}
                              => [h |-> q.h, id |-> q.id] \in served'
        BY <1>0, <2>1, <2>2 DEF ServedWhileOpen
    <3> QED BY <1>0, <2>1, <2>7, <3>1, <3>2 DEF ServedWhileOpen
  <2> QED BY <1>0, <2>1, <2>2, <2>4, <2>5, <2>6, <2>8 DEF ClientInv, ClientTypes
<1> QED BY <1>4, <1>5

-----------------------------------------------------------------------------
(* The broker has handled a request                                        *)
LEMMA BrokerAnswersStep ==
    ASSUME ClientInv, ~manual, NEW r \in requests, BrokerAnswers(r)
    PROVE  ClientInv'
<1>0. /\ r.phase = "sent" /\ up = "open" /\ UNCHANGED <<up, loop, visited, handle, id, raced>>
      /\ r \in Request /\ FollowsLoop(r) /\ ClientTypes /\ ServedWhileOpen
    BY DEF BrokerAnswers, fixed, ClientInv, ClientTypes
<1>1. CASE /\ r.kind \in Subscribing
           /\ requests' = (requests \ {r}) \cup {[r EXCEPT !.phase = "ok", !.id = nextId]}
           /\ served' = served \cup {[h |-> r.h, id |-> nextId]}
           /\ nextId' = nextId + 1
  <2>1. PICK a \in Request :
          /\ a.kind = r.kind /\ a.phase = "ok" /\ a.h = r.h /\ a.id = nextId
          /\ requests' = (requests \ {r}) \cup {a}
      BY ZenonT(60), <1>0, <1>1, SubscriptionAnswered DEF ClientTypes
  <2>2. PICK y \in [h : Handles, id : Nat \ {0}] : y.h = r.h /\ y.id = nextId /\ served' = served \cup {y}
                 /\ y = [h |-> r.h, id |-> nextId]
      BY <1>0, <1>1, HandleOfRequest DEF ClientTypes, Subscribing
  <2>3. FollowsLoop(a)
      BY <1>0, <1>1, <2>1 DEF FollowsLoop, Subscribing
  <2>4. \A q \in requests' : FollowsLoop(q)'
      BY <1>0, <2>1, <2>3 DEF ClientInv, FollowsLoop
  <2>5. OneEach'
      BY <2>1, <1>1 DEF ClientInv, OneEach
  <2>6. IdsAreOwned'
    <3>1. /\ nextId \in Nat /\ nextId' = nextId + 1 /\ id' = id /\ id \in [Handles -> Nat]
          /\ \A x \in served : x.id \in Nat
          /\ \A q \in requests : q.kind # "list" => q.id \in Nat
        BY <1>0, <1>1, HandleOfRequest DEF ClientTypes
    <3>2. \A q \in requests' : q.kind # "list" => q.id < nextId' /\ (q.id = nextId => q = a)
      <4>1. \A q \in requests : q.kind # "list" => q.id \in Nat /\ q.id < nextId
        <5>1. \A q \in requests : q.kind # "list" => q.id < nextId
            BY DEF ClientInv, IdsAreOwned
        <5> QED BY <3>1, <5>1
      <4>2. \A q \in requests' : q \in requests \/ q = a
          BY <2>1
      <4> QED BY <2>1, <3>1, <4>1, <4>2
    <3>3. \A h \in Handles : id'[h] < nextId' /\ id'[h] # nextId
        BY <3>1 DEF ClientInv, IdsAreOwned
    <3>4. ASSUME NEW x \in served
          PROVE  /\ x.id < nextId' /\ x.id # nextId
                 /\ \A h \in Handles : id'[h] = x.id => h = x.h
                 /\ \A q \in requests' : q.kind # "list" /\ q.id = x.id => q.h = x.h
        BY <2>1, <3>1 DEF ClientInv, IdsAreOwned
    <3>5. /\ y.id < nextId'
          /\ \A h \in Handles : id'[h] = y.id => h = y.h
          /\ \A q \in requests' : q.kind # "list" /\ q.id = y.id => q.h = y.h
        BY <2>1, <2>2, <3>1, <3>2, <3>3
    <3> QED BY <2>2, <3>2, <3>3, <3>4, <3>5 DEF IdsAreOwned
  <2>7. \A k \in Handles : Current(k)' <=> Current(k)
      BY <1>0, <2>1 DEF Current
  <2>8. ServedWhileOpen'
    <3>1. \A x \in served' : Justified(x)'
      <4>1. Justified(y)'
          BY <1>1, <2>1, <2>2 DEF Justified
      <4>2. ASSUME NEW x \in served PROVE Justified(x)'
          BY <1>0, <1>1, <2>1, <2>7 DEF ServedWhileOpen, Justified, ClientTypes, Subscribing
      <4> QED BY <2>2, <4>1, <4>2
    <3>2. \A q \in requests' : q.kind \in Subscribing /\ q.phase = "ok" /\ handle'[q.h] \in {"asked", "live"}
                              => [h |-> q.h, id |-> q.id] \in served'
        BY <1>0, <2>1, <2>2 DEF ServedWhileOpen
    <3> QED BY <1>0, <2>2, <2>7, <3>1, <3>2 DEF ServedWhileOpen
  <2> QED BY <1>0, <1>1, <2>1, <2>2, <2>4, <2>5, <2>6, <2>8 DEF ClientInv, ClientTypes
<1>2. CASE /\ r.kind \in Subscribing
           /\ requests' = (requests \ {r}) \cup {[r EXCEPT !.phase = "refused"]}
           /\ UNCHANGED <<served, nextId>>
  <2>1. PICK a \in Request :
          /\ a.kind = r.kind /\ a.phase = "refused" /\ a.h = r.h /\ a.id = r.id
          /\ requests' = (requests \ {r}) \cup {a}
      BY <1>0, <1>2, PhaseChanges DEF Subscribing
  <2>3. FollowsLoop(a)
      BY <1>0, <1>2, <2>1 DEF FollowsLoop, Subscribing
  <2>4. \A q \in requests' : FollowsLoop(q)'
      BY <1>0, <2>1, <2>3 DEF ClientInv, FollowsLoop
  <2>5. OneEach'
      BY <2>1, <1>2 DEF ClientInv, OneEach
  <2>6. IdsAreOwned'
      BY <1>0, <1>2, <2>1 DEF ClientInv, IdsAreOwned, Subscribing
  <2>7. \A k \in Handles : Current(k)' <=> Current(k)
      BY <1>0, <2>1 DEF Current
  <2>8. ServedWhileOpen'
    <3>1. ASSUME NEW x \in served PROVE Justified(x)'
        BY <1>0, <1>2, <2>1, <2>7 DEF ServedWhileOpen, Justified, ClientTypes, Subscribing
    <3>2. \A q \in requests' : q.kind \in Subscribing /\ q.phase = "ok" /\ handle'[q.h] \in {"asked", "live"}
                              => [h |-> q.h, id |-> q.id] \in served'
        BY <1>0, <1>2, <2>1 DEF ServedWhileOpen
    <3> QED BY <1>0, <1>2, <2>7, <3>1, <3>2 DEF ServedWhileOpen
  <2> QED BY <1>0, <1>2, <2>1, <2>4, <2>5, <2>6, <2>8 DEF ClientInv, ClientTypes
<1>3. CASE /\ r.kind = "unsubscribe"
           /\ requests' = (requests \ {r}) \cup {[r EXCEPT !.phase = "ok"]}
           /\ served' = {x \in served : x.id # r.id}
           /\ UNCHANGED nextId
  <2>1. PICK a \in Request :
          /\ a.kind = r.kind /\ a.phase = "ok" /\ a.h = r.h /\ a.id = r.id
          /\ requests' = (requests \ {r}) \cup {a}
      BY <1>0, <1>3, PhaseChanges
  <2>2. handle[r.h] = "closed" /\ r.h \in Handles
      BY <1>3, HandleOfRequest
  <2>3. FollowsLoop(a)
      BY <1>0, <1>3, <2>1 DEF FollowsLoop
  <2>4. \A q \in requests' : FollowsLoop(q)'
      BY <1>0, <2>1, <2>3 DEF ClientInv, FollowsLoop
  <2>5. OneEach'
      BY <2>1, <1>3 DEF ClientInv, OneEach, Subscribing
  <2>6. IdsAreOwned'
      BY <1>0, <1>3, <2>1 DEF ClientInv, IdsAreOwned
  <2>7. \A k \in Handles : Current(k)' <=> Current(k)
      BY <1>0, <1>3, <2>1 DEF Current
  <2>8. \A x \in served : x.id = r.id => x.h = r.h
      BY <1>3 DEF ClientInv, IdsAreOwned
  <2>9. ServedWhileOpen'
    <3>1. ASSUME NEW x \in served' PROVE Justified(x)'
      <4>1. x \in served /\ x.id # r.id
          BY <1>3
      <4> QED BY <1>0, <1>3, <2>1, <2>7, <4>1 DEF ServedWhileOpen, Justified, ClientTypes, Subscribing
    <3>2. ASSUME NEW q \in requests', q.kind \in Subscribing /\ q.phase = "ok" /\ handle'[q.h] \in {"asked", "live"}
          PROVE  [h |-> q.h, id |-> q.id] \in served'
      <4>1. q \in requests
          BY <1>3, <2>1, <3>2 DEF Subscribing
      <4>2. [h |-> q.h, id |-> q.id] \in served
          BY <1>0, <3>2, <4>1 DEF ServedWhileOpen
      <4>3. q.h # r.h
          BY <1>0, <2>2, <3>2
      <4>4. [h |-> q.h, id |-> q.id].h = q.h /\ [h |-> q.h, id |-> q.id].id = q.id
          OBVIOUS
      <4> QED BY <1>3, <2>8, <4>2, <4>3, <4>4
    <3>3. ASSUME NEW k \in Handles, Current(k) PROVE [h |-> k, id |-> id[k]] \in served'
      <4>1. [h |-> k, id |-> id[k]] \in served /\ k # r.h
          BY <1>0, <2>2, <3>3 DEF ServedWhileOpen, Current
      <4>2. [h |-> k, id |-> id[k]].h = k /\ [h |-> k, id |-> id[k]].id = id[k]
          OBVIOUS
      <4> QED BY <1>3, <2>8, <4>1, <4>2
    <3> QED BY <1>0, <2>7, <3>1, <3>2, <3>3 DEF ServedWhileOpen
  <2> QED BY <1>0, <1>3, <2>1, <2>4, <2>5, <2>6, <2>9 DEF ClientInv, ClientTypes
<1>4. CASE /\ r.kind = "list"
           /\ requests' = (requests \ {r}) \cup {[r EXCEPT !.phase = "ok"]}
           /\ UNCHANGED <<served, nextId>>
  <2>1. PICK a \in Request : a.kind = "list" /\ requests' = (requests \ {r}) \cup {a}
      BY ZenonT(60), <1>0, <1>4, PhaseChanges
  <2>3. FollowsLoop(a)
      BY <1>0, <1>4, <2>1 DEF FollowsLoop
  <2>4. \A q \in requests' : FollowsLoop(q)'
      BY <1>0, <2>1, <2>3 DEF ClientInv, FollowsLoop
  <2>5. OneEach'
      BY <2>1, <1>4 DEF ClientInv, OneEach, Subscribing
  <2>6. IdsAreOwned'
      BY <1>0, <1>4, <2>1 DEF ClientInv, IdsAreOwned
  <2>7. \A k \in Handles : Current(k)' <=> Current(k)
      BY <1>0, <1>4, <2>1 DEF Current
  <2>8. ServedWhileOpen'
    <3>1. ASSUME NEW x \in served PROVE Justified(x)'
        BY <1>0, <1>4, <2>1, <2>7 DEF ServedWhileOpen, Justified, ClientTypes, Subscribing
    <3>2. \A q \in requests' : q.kind \in Subscribing /\ q.phase = "ok" /\ handle'[q.h] \in {"asked", "live"}
                              => [h |-> q.h, id |-> q.id] \in served'
        BY <1>0, <1>4, <2>1 DEF ServedWhileOpen, Subscribing
    <3> QED BY <1>0, <1>4, <2>7, <3>1, <3>2 DEF ServedWhileOpen
  <2> QED BY <1>0, <1>4, <2>1, <2>4, <2>5, <2>6, <2>8 DEF ClientInv, ClientTypes
<1> QED BY <1>1, <1>2, <1>3, <1>4 DEF BrokerAnswers

(* The client has received an answer                                       *)
LEMMA AnsweredStep ==
    ASSUME ClientInv, ~manual, NEW r \in requests, Answered(r)
    PROVE  ClientInv'
<1>0. /\ r.phase \in {"ok", "refused"} /\ up = "open" /\ UNCHANGED <<up, served, nextId, raced>>
      /\ requests' = requests \ {r}
      /\ r \in Request /\ FollowsLoop(r) /\ ClientTypes /\ ServedWhileOpen
    BY DEF Answered, fixed, ClientInv, ClientTypes
<1>1. \A q \in requests : q \in Request /\ FollowsLoop(q)
    BY DEF ClientInv, ClientTypes
<1>2. OneEach'
    BY <1>0 DEF ClientInv, OneEach
<1>3. CASE r.kind = "list"
  <2>1. loop = "snapshot" /\ loop' = "restoring" /\ visited' = {} /\ UNCHANGED <<id, handle>>
      BY <1>0, <1>3 DEF Answered, FollowsLoop, Subscribing
  <2>2. ASSUME NEW q \in requests' PROVE FollowsLoop(q)'
    <3>1. CASE q.kind = "list"
        BY <1>0, <1>3, <3>1 DEF ClientInv, OneEach
    <3>2. CASE q.kind # "list"
        BY <1>0, <1>1, <2>1, <3>2, HandleOfRequest DEF FollowsLoop
    <3> QED BY <3>1, <3>2
  <2>3. IdsAreOwned'
      BY <1>0, <2>1 DEF ClientInv, IdsAreOwned
  <2>4. \A k \in Handles : ~Current(k) /\ ~Current(k)'
      BY <2>1 DEF Current
  <2>5. ServedWhileOpen'
    <3>1. ASSUME NEW x \in served PROVE Justified(x)'
        BY <1>0, <1>3, <2>4 DEF ServedWhileOpen, Justified, Subscribing, ClientTypes
    <3> QED BY <1>0, <2>1, <2>4, <3>1 DEF ServedWhileOpen
  <2> QED BY <1>0, <1>2, <2>1, <2>2, <2>3, <2>5 DEF ClientInv, ClientTypes
<1>4. CASE r.kind = "unsubscribe"
  <2>1. UNCHANGED <<loop, visited, id, handle>>
      BY <1>0, <1>4 DEF Answered, Subscribing
  <2>2. \A q \in requests' : FollowsLoop(q)'
      BY <1>0, <1>1, <2>1 DEF FollowsLoop
  <2>3. IdsAreOwned'
      BY <1>0, <2>1 DEF ClientInv, IdsAreOwned
  <2>4. \A k \in Handles : Current(k)' <=> Current(k)
      BY <1>0, <1>4, <2>1 DEF Current
  <2>5. ServedWhileOpen'
    <3>1. ASSUME NEW x \in served PROVE Justified(x)'
        BY <1>0, <1>4, <2>1, <2>4 DEF ServedWhileOpen, Justified, Subscribing, ClientTypes
    <3> QED BY <1>0, <2>1, <2>4, <3>1 DEF ServedWhileOpen
  <2> QED BY <1>0, <1>2, <2>1, <2>2, <2>3, <2>5 DEF ClientInv, ClientTypes
<1>5. ASSUME r.kind \in Subscribing
      PROVE  ClientInv'
  <2>0. /\ UNCHANGED <<loop, visited>> /\ r.kind # "list" /\ r.h \in Handles /\ r.id \in Nat
        /\ handle[r.h] \in {"asked", "live", "closed"}
        /\ \A q \in requests' : q.kind \in Subscribing => q.h # r.h
        /\ \A q \in requests' : q.kind = "restore" => q.kind \in Subscribing
      BY <1>0, <1>5, HandleOfRequest DEF Answered, Subscribing, ClientInv, OneEach
  <2>1. ASSUME NEW h2 \in {"none", "asked", "live", "closed", "failed"},
               handle' = [handle EXCEPT ![r.h] = h2], handle[r.h] = "closed" => h2 = "closed"
        PROVE  /\ handle' \in [Handles -> {"none", "asked", "live", "closed", "failed"}]
               /\ \A h \in raced' : handle'[h] = "closed"
               /\ \A q \in requests' : FollowsLoop(q)'
    <3>1. handle' \in [Handles -> {"none", "asked", "live", "closed", "failed"}]
        BY <1>0, <2>1 DEF ClientTypes
    <3>2. \A h \in raced' : handle'[h] = "closed"
        BY <1>0, <2>1 DEF ClientInv, ClientTypes
    <3>3. ASSUME NEW q \in requests' PROVE FollowsLoop(q)'
      <4>1. CASE q.kind = "list"
          BY <1>0, <1>1, <2>0, <4>1 DEF FollowsLoop
      <4>2. CASE q.kind # "list" /\ q.h # r.h
        <5>1. handle'[q.h] = handle[q.h]
            BY <1>0, <2>1, <4>2, HandleOfRequest DEF ClientTypes
        <5> QED BY <1>0, <1>1, <2>0, <5>1, StillFollows
      <4>3. CASE q.kind # "list" /\ q.h = r.h
        <5>1. q.kind = "unsubscribe" /\ handle[q.h] = "closed"
            BY <1>0, <2>0, <4>3, HandleOfRequest DEF Subscribing
        <5>2. handle'[q.h] = handle[q.h]
            BY <1>0, <2>0, <2>1, <4>3, <5>1 DEF ClientTypes
        <5> QED BY <1>0, <1>1, <2>0, <5>2, StillFollows
      <4> QED BY <4>1, <4>2, <4>3
    <3> QED BY <3>1, <3>2, <3>3
  <2>2. CASE r.phase = "ok"
    <3>1. /\ id' = [id EXCEPT ![r.h] = r.id]
          /\ handle' = IF r.kind = "subscribe" THEN [handle EXCEPT ![r.h] = "live"] ELSE handle
        BY <1>5, <2>2, <2>0 DEF Answered, Renamed
    <3>2. PICK h2 \in {"live", "closed"} :
            /\ handle' = [handle EXCEPT ![r.h] = h2]
            /\ h2 = IF r.kind = "subscribe" THEN "live" ELSE handle[r.h]
            /\ handle[r.h] = "closed" => h2 = "closed"
      <4>1. CASE r.kind = "subscribe"
          BY <3>1, <4>1, HandleOfRequest
      <4>2. CASE r.kind = "restore"
        <5>1. handle[r.h] \in {"live", "closed"}
            BY <4>2, HandleOfRequest
        <5>2. handle' = [handle EXCEPT ![r.h] = handle[r.h]]
            BY <1>0, <3>1, <4>2 DEF ClientTypes
        <5> QED BY <4>2, <5>1, <5>2
      <4> QED BY <1>5, <4>1, <4>2 DEF Subscribing
    <3>3. /\ handle' \in [Handles -> {"none", "asked", "live", "closed", "failed"}]
          /\ \A h \in raced' : handle'[h] = "closed"
          /\ \A q \in requests' : FollowsLoop(q)'
        BY <2>1, <3>2
    <3>4. /\ id' \in [Handles -> Nat] /\ id'[r.h] = r.id
          /\ \A k \in Handles : k # r.h => id'[k] = id[k] /\ handle'[k] = handle[k]
        BY <1>0, <2>0, <3>1 DEF ClientTypes
    <3>5. IdsAreOwned'
      <4>1. \A k \in Handles : id'[k] < nextId
          BY <2>0, <3>4 DEF ClientInv, IdsAreOwned
      <4>2. \A x \in served : \A k \in Handles : id'[k] = x.id => k = x.h
          BY <2>0, <3>4 DEF ClientInv, IdsAreOwned
      <4> QED BY <1>0, <4>1, <4>2 DEF ClientInv, IdsAreOwned
    <3>6. handle'[r.h] = "live" => handle[r.h] \in {"asked", "live"}
        BY <1>0, <1>5, <2>0, <3>2, HandleOfRequest DEF Subscribing, ClientTypes
    <3>7. handle'[r.h] = "live" => Current(r.h)'
      <4> SUFFICES ASSUME handle'[r.h] = "live" PROVE Current(r.h)'
          OBVIOUS
      <4>1. CASE r.kind = "subscribe"
          BY <1>0, <2>0, <4>1 DEF FollowsLoop, Current
      <4>2. CASE r.kind = "restore"
          BY <1>0, <2>0, <4>2 DEF FollowsLoop, Current
      <4> QED BY <1>5, <4>1, <4>2 DEF Subscribing
    <3>8. ~Current(r.h)
      <4>1. CASE r.kind = "subscribe"
          BY <4>1, HandleOfRequest DEF Current
      <4>2. CASE r.kind = "restore"
          BY <1>0, <4>2 DEF FollowsLoop, Current
      <4> QED BY <1>5, <4>1, <4>2 DEF Subscribing
    <3>9. \A k \in Handles : k # r.h => (Current(k)' <=> Current(k))
        BY <1>0, <2>0, <3>4 DEF Current
    <3>10. ServedWhileOpen'
      <4>1. ASSUME NEW k \in Handles, Current(k)' PROVE [h |-> k, id |-> id'[k]] \in served'
        <5>1. CASE k = r.h
            BY <1>0, <1>5, <2>2, <3>4, <3>6, <4>1, <5>1 DEF ServedWhileOpen, Current
        <5>2. CASE k # r.h
            BY <1>0, <3>4, <3>9, <4>1, <5>2 DEF ServedWhileOpen
        <5> QED BY <5>1, <5>2
      <4>2. ASSUME NEW q \in requests', q.kind \in Subscribing, q.phase = "ok", handle'[q.h] \in {"asked", "live"}
            PROVE  [h |-> q.h, id |-> q.id] \in served'
        <5>1. q \in requests /\ q.h # r.h /\ q.kind # "list"
            BY <1>0, <2>0, <4>2 DEF Subscribing
        <5>2. q.h \in Handles
            BY <5>1, HandleOfRequest
        <5> QED BY <1>0, <3>4, <4>2, <5>1, <5>2 DEF ServedWhileOpen
      <4>3. ASSUME NEW x \in served PROVE Justified(x)'
        <5>0. Justified(x) /\ x.h \in Handles
            BY <1>0 DEF ServedWhileOpen, ClientTypes
        <5>1. CASE x.h \in raced
            BY <1>0, <5>1 DEF Justified
        <5>2. CASE r.h = x.h /\ r.id = x.id
          <6>1. CASE handle'[r.h] = "live"
              BY <3>4, <3>7, <5>2, <6>1 DEF Justified
          <6>2. CASE handle'[r.h] # "live"
            <7>1. r.kind = "restore" /\ handle[r.h] = "closed"
                BY <1>0, <1>5, <2>0, <3>2, <6>2 DEF Subscribing, ClientTypes
            <7> QED BY <1>0, <5>2, <7>1 DEF FollowsLoop, Justified
          <6> QED BY <6>1, <6>2
        <5>3. CASE \E q \in requests : /\ q.kind \in Subscribing /\ q.phase = "ok" /\ q.h = x.h /\ q.id = x.id
                                       /\ q # r
            BY <1>0, <5>3 DEF Justified
        <5>4. CASE \E q \in requests : q.kind = "unsubscribe" /\ q.phase \in {"held", "sent"} /\ q.h = x.h /\ q.id = x.id
            BY <1>0, <5>4 DEF Justified
        <5>5. CASE Current(x.h) /\ x.id = id[x.h]
            BY <3>4, <3>8, <3>9, <5>0, <5>5 DEF Justified
        <5> QED BY <5>0, <5>1, <5>2, <5>3, <5>4, <5>5 DEF Justified
      <4> QED BY <1>0, <4>1, <4>2, <4>3 DEF ServedWhileOpen
    <3> QED BY <1>0, <1>2, <2>0, <3>3, <3>4, <3>5, <3>10 DEF ClientInv, ClientTypes
  <2>3. CASE r.phase = "refused"
    <3>1. UNCHANGED id /\ handle' = Failing({r.h})
        BY <1>5, <2>3, <2>0 DEF Answered
    <3>2. PICK h2 \in {"failed", "closed"} : handle' = [handle EXCEPT ![r.h] = h2] /\ (handle[r.h] = "closed" => h2 = "closed")
        BY <1>0, <2>0, <3>1 DEF Failing, ClientTypes
    <3>3. /\ handle' \in [Handles -> {"none", "asked", "live", "closed", "failed"}]
          /\ \A h \in raced' : handle'[h] = "closed"
          /\ \A q \in requests' : FollowsLoop(q)'
        BY <2>1, <3>2
    <3>4. /\ handle'[r.h] \notin {"asked", "live"}
          /\ \A k \in Handles : k # r.h => handle'[k] = handle[k]
        BY <1>0, <2>0, <3>2 DEF ClientTypes
    <3>5. IdsAreOwned'
        BY <1>0, <3>1 DEF ClientInv, IdsAreOwned
    <3>8. ~Current(r.h) /\ ~Current(r.h)'
      <4>1. CASE r.kind = "subscribe"
          BY <3>4, <4>1, HandleOfRequest DEF Current
      <4>2. CASE r.kind = "restore"
          BY <1>0, <3>4, <4>2 DEF FollowsLoop, Current
      <4> QED BY <1>5, <4>1, <4>2 DEF Subscribing
    <3>9. \A k \in Handles : k # r.h => (Current(k)' <=> Current(k))
        BY <1>0, <2>0, <3>4 DEF Current
    <3>10. ServedWhileOpen'
      <4>1. ASSUME NEW k \in Handles, Current(k)' PROVE [h |-> k, id |-> id'[k]] \in served'
          BY <1>0, <3>1, <3>8, <3>9, <4>1 DEF ServedWhileOpen
      <4>2. ASSUME NEW q \in requests', q.kind \in Subscribing, q.phase = "ok", handle'[q.h] \in {"asked", "live"}
            PROVE  [h |-> q.h, id |-> q.id] \in served'
        <5>1. q \in requests /\ q.h # r.h /\ q.kind # "list"
            BY <1>0, <2>0, <4>2 DEF Subscribing
        <5>2. q.h \in Handles
            BY <5>1, HandleOfRequest
        <5> QED BY <1>0, <3>4, <4>2, <5>1, <5>2 DEF ServedWhileOpen
      <4>3. ASSUME NEW x \in served PROVE Justified(x)'
        <5>0. Justified(x) /\ x.h \in Handles
            BY <1>0 DEF ServedWhileOpen, ClientTypes
        <5>1. CASE x.h \in raced
            BY <1>0, <5>1 DEF Justified
        <5>3. CASE \E q \in requests : q.kind \in Subscribing /\ q.phase = "ok" /\ q.h = x.h /\ q.id = x.id
            BY <1>0, <2>3, <5>3 DEF Justified
        <5>4. CASE \E q \in requests : q.kind = "unsubscribe" /\ q.phase \in {"held", "sent"} /\ q.h = x.h /\ q.id = x.id
            BY <1>0, <2>3, <5>4 DEF Justified
        <5>5. CASE Current(x.h) /\ x.id = id[x.h]
            BY <3>1, <3>8, <3>9, <5>0, <5>5 DEF Justified
        <5> QED BY <5>0, <5>1, <5>3, <5>4, <5>5 DEF Justified
      <4> QED BY <1>0, <4>1, <4>2, <4>3 DEF ServedWhileOpen
    <3> QED BY <1>0, <1>2, <2>0, <3>1, <3>3, <3>5, <3>10 DEF ClientInv, ClientTypes
  <2> QED BY <1>0, <2>2, <2>3
<1>6. r.kind \in {"list", "unsubscribe"} \/ r.kind \in Subscribing
    BY <1>0, RequestIs DEF Subscribing
<1> QED BY <1>3, <1>4, <1>5, <1>6

-----------------------------------------------------------------------------
(* The connection has closed: what it served is gone                       *)
LEMMA ConnectionClosedStep ==
    ASSUME ClientInv, ~manual, ConnectionClosed
    PROVE  ClientInv'
<1>0. /\ up # "closed" /\ up' = "closed" /\ served' = {} /\ UNCHANGED <<visited, id, nextId, raced>>
      /\ Rejecting("connecting") /\ ClientTypes
      /\ loop \in {"none", "snapshot", "restoring"}
    BY DEF ConnectionClosed, ClientInv, ClientTypes
<1>1. \A q \in requests : q \in Request /\ FollowsLoop(q)
    BY DEF ClientInv, ClientTypes
<1>2. PICK hs : handle' = Failing(hs)
    BY <1>0 DEF Rejecting
<1>3. \A h \in raced : handle'[h] = "closed"
    BY <1>0, <1>2, FailingIs DEF ClientInv, ClientTypes
<1>4. CASE loop = "restoring"
  <2>1. loop' = "none" /\ requests' = {}
      BY <1>0, <1>4 DEF Rejecting, LoopEnds
  <2> QED BY <1>0, <1>2, <1>3, <2>1, FailingIs DEF ClientInv, ClientTypes, OneEach, IdsAreOwned
<1>5. CASE loop \in {"none", "snapshot"}
  <2>1. /\ requests' = Held /\ handle' = Failing(Subscribers(Flying))
        /\ loop' = IF loop = "snapshot" THEN "waiting" ELSE "connecting"
      BY <1>0, <1>5 DEF Rejecting
  <2>2. Held \in SUBSET requests /\ \A q \in Held : q.phase = "held" /\ q.kind # "list"
    <3>1. Held \in SUBSET requests /\ \A q \in Held : q.phase = "held"
        BY DEF Held
    <3> QED BY <1>1, <3>1, RequestIs
  <2>3. requests' \subseteq Request /\ OneEach' /\ IdsAreOwned'
      BY <1>0, <2>1, <2>2, FewerRequests
  <2>4. ASSUME NEW q \in requests' PROVE FollowsLoop(q)'
    <3>1. q \in requests /\ q.phase = "held" /\ q.kind # "list" /\ q.h \in Handles
        BY <2>1, <2>2, <2>4, HandleOfRequest
    <3>2. loop = "snapshot" /\ q.kind \in {"subscribe", "unsubscribe"}
        BY <1>1, <1>5, <3>1, HandleOfRequest DEF FollowsLoop
    <3>3. q.h \notin Subscribers(Flying)
      <4>1. \A u \in Flying : u \in requests /\ u.phase # "held"
          BY DEF Flying, Held
      <4>2. \A u \in Flying : u.kind \notin Subscribing
          BY <1>1, <3>2, <4>1, HandleOfRequest DEF FollowsLoop, Subscribing
      <4> QED BY <4>2 DEF Subscribers
    <3>4. handle'[q.h] = handle[q.h]
        BY <1>0, <2>1, <3>1, <3>3, FailingIs
    <3> QED BY <1>1, <2>1, <3>1, <3>2, <3>4 DEF FollowsLoop
  <2> QED BY <1>0, <1>2, <1>3, <2>1, <2>3, <2>4, FailingIs DEF ClientInv, ClientTypes
<1> QED BY <1>0, <1>4, <1>5

(* Requests that are held while the loop goes from one attempt to the next *)
LEMMA HeldAlone ==
    ASSUME ClientInv, loop \in {"connecting", "waiting"}
    PROVE  \A q \in requests : /\ q \in Request /\ q.phase = "held" /\ q.kind \in {"subscribe", "unsubscribe"}
                               /\ q.h \in Handles /\ FollowsLoop(q)
<1> SUFFICES ASSUME NEW q \in requests
             PROVE  /\ q \in Request /\ q.phase = "held" /\ q.kind \in {"subscribe", "unsubscribe"}
                    /\ q.h \in Handles /\ FollowsLoop(q)
    OBVIOUS
<1>1. q \in Request /\ FollowsLoop(q)
    BY DEF ClientInv, ClientTypes
<1>2. q.kind # "list"
    BY <1>1 DEF FollowsLoop
<1> QED BY <1>1, <1>2, HandleOfRequest DEF FollowsLoop

LEMMA ConnectedStep ==
    ASSUME ClientInv, ~manual, Connected
    PROVE  ClientInv'
<1>0. /\ loop = "connecting" /\ up = "closed" /\ served = {} /\ UNCHANGED <<handle, id, served, nextId, raced>>
      /\ up' = "open" /\ visited' = {}
      /\ loop' \in {"snapshot", "restoring"}
      /\ loop' = IF node THEN "snapshot" ELSE "restoring"
      /\ requests' = IF node THEN requests \cup {[kind |-> "list", phase |-> "sent"]} ELSE requests
      /\ ClientTypes
    BY DEF Connected, ClosedWhileConnecting, ClientInv
<1>1. \A q \in requests : /\ q \in Request /\ q.phase = "held" /\ q.kind \in {"subscribe", "unsubscribe"}
                          /\ q.h \in Handles /\ FollowsLoop(q)
    BY <1>0, HeldAlone
<1>2. \A q \in requests : FollowsLoop(q)'
    BY <1>0, <1>1 DEF FollowsLoop
<1>3. \A h \in Handles : ~Current(h)'
    BY <1>0 DEF Current
<1>4. CASE node
  <2>1. PICK a \in Request : a.kind = "list" /\ requests' = requests \cup {a}
    <3>1. [kind |-> "list", phase |-> "sent"] \in Request
        BY DEF Request
    <3> QED BY <1>0, <1>4, <3>1
  <2>2. FollowsLoop(a)'
      BY <1>0, <1>4, <2>1 DEF FollowsLoop
  <2>3. OneEach'
      BY <1>1, <2>1 DEF ClientInv, OneEach, Subscribing
  <2>4. IdsAreOwned'
      BY <1>0, <2>1 DEF ClientInv, IdsAreOwned
  <2>5. ServedWhileOpen'
      BY <1>0, <1>1, <1>3, <2>1 DEF ServedWhileOpen, Subscribing
  <2> QED BY <1>0, <1>2, <2>1, <2>2, <2>3, <2>4, <2>5 DEF ClientInv, ClientTypes
<1>5. CASE ~node
  <2>1. requests' = requests
      BY <1>0, <1>5
  <2>2. ServedWhileOpen'
      BY <1>0, <1>1, <1>3, <2>1 DEF ServedWhileOpen
  <2> QED BY <1>0, <1>2, <2>1, <2>2 DEF ClientInv, ClientTypes, OneEach, IdsAreOwned
<1> QED BY <1>4, <1>5

LEMMA RetryStep ==
    ASSUME ClientInv, ~manual, ConnectFails \/ Waited
    PROVE  ClientInv'
<1>0. /\ loop \in {"connecting", "waiting"} /\ loop' \in {"connecting", "waiting"} /\ up = "closed"
      /\ UNCHANGED <<up, visited, handle, id, requests, served, nextId, raced>>
    BY DEF ConnectFails, Waited, ClientInv
<1>1. \A q \in requests : FollowsLoop(q)'
    BY <1>0, HeldAlone DEF FollowsLoop
<1> QED BY <1>0, <1>1 DEF ClientInv, ClientTypes, OneEach, IdsAreOwned

(* The loop has passed every subscription: what was held goes out.         *)
LEMMA RestoredStep ==
    ASSUME ClientInv, ~manual, Restored
    PROVE  ClientInv'
<1>0. /\ loop = "restoring" /\ loop' = "none" /\ Live \subseteq visited
      /\ \A q \in requests : q.kind # "restore"
      /\ UNCHANGED <<up, visited, id, served, nextId, raced>> /\ ClientTypes
    BY DEF Restored, Restoring, Restorable, LoopEnds, ClientInv
<1>1. CASE up # "open"
  <2>1. requests' = {} /\ handle' = Failing(Subscribers(Held))
      BY <1>1 DEF Restored, LoopEnds
  <2>2. \A h \in raced : handle'[h] = "closed"
      BY <1>0, <2>1, FailingIs DEF ClientInv, ClientTypes
  <2> QED BY <1>0, <1>1, <2>1, <2>2, FailingIs DEF ClientInv, ClientTypes, OneEach, IdsAreOwned
<1>2. CASE up = "open"
  <2>1. requests' = {[r EXCEPT !.phase = "sent"] : r \in Held} /\ handle' = handle
      BY <1>2 DEF Restored, LoopEnds
  <2>2. \A q \in requests : q.kind # "list" => q.h \in Handles /\ q.kind \in {"subscribe", "unsubscribe"}
      BY <1>0, HandleOfRequest
  <2>3. \A q \in Held : q \in requests /\ q \in Request /\ FollowsLoop(q) /\ q.phase = "held" /\ q.kind # "list"
    <3>1. \A q \in Held : q \in requests /\ q \in Request /\ FollowsLoop(q) /\ q.phase = "held"
        BY DEF Held, ClientInv, ClientTypes
    <3> QED BY <3>1, RequestIs
  <2>4. \A q \in Held :
           /\ [q EXCEPT !.phase = "sent"] \in Request
           /\ [q EXCEPT !.phase = "sent"].kind = q.kind /\ [q EXCEPT !.phase = "sent"].phase = "sent"
           /\ [q EXCEPT !.phase = "sent"].h = q.h /\ [q EXCEPT !.phase = "sent"].id = q.id
      BY <2>3, PhaseChanges
  <2>5. \A u \in requests' : \E q \in Held : /\ u = [q EXCEPT !.phase = "sent"] /\ u \in Request /\ u.kind = q.kind
                                             /\ u.phase = "sent" /\ u.h = q.h /\ u.id = q.id
      BY ZenonT(60), <2>1, <2>4
  <2>6. \A u \in requests' : FollowsLoop(u)'
    <3>1. ASSUME NEW u \in requests' PROVE FollowsLoop(u)'
      <4>1. PICK q \in Held : u.kind = q.kind /\ u.phase = "sent" /\ u.h = q.h
          BY <2>5
      <4> QED BY <1>0, <2>1, <2>3, <4>1 DEF FollowsLoop
    <3> QED BY <3>1
  <2>7. OneEach'
    <3>1. ASSUME NEW u \in requests', NEW w \in requests',
                 \/ u.kind = "list" /\ w.kind = "list"
                 \/ u.kind \in Subscribing /\ w.kind \in Subscribing /\ u.h = w.h
          PROVE  u = w
      <4>1. PICK q \in Held : u = [q EXCEPT !.phase = "sent"] /\ u.kind = q.kind /\ u.h = q.h
          BY <2>5
      <4>2. PICK v \in Held : w = [v EXCEPT !.phase = "sent"] /\ w.kind = v.kind /\ w.h = v.h
          BY <2>5
      <4>3. q = v
          BY <2>3, <3>1, <4>1, <4>2 DEF ClientInv, OneEach
      <4> QED BY <4>1, <4>2, <4>3
    <3> QED BY <3>1 DEF OneEach
  <2>8. IdsAreOwned'
    <3>1. \A u \in requests' : u.kind # "list" => u.id < nextId
        BY <2>3, <2>5 DEF ClientInv, IdsAreOwned
    <3>2. ASSUME NEW x \in served, NEW u \in requests', u.kind # "list", u.id = x.id
          PROVE  u.h = x.h
      <4>1. PICK q \in Held : u.kind = q.kind /\ u.h = q.h /\ u.id = q.id
          BY <2>5
      <4> QED BY <2>3, <3>2, <4>1 DEF ClientInv, IdsAreOwned
    <3> QED BY <1>0, <3>1, <3>2 DEF ClientInv, IdsAreOwned
  <2>9. \A k \in Handles : Current(k)' <=> Current(k)
      BY <1>0, <2>1 DEF Current, Live
  <2>10. ServedWhileOpen'
    <3>1. ASSUME NEW x \in served PROVE Justified(x)'
      <4>0. Justified(x) /\ x.h \in Handles
          BY <1>0, <1>2 DEF ClientInv, ServedWhileOpen, ClientTypes
      <4>1. CASE x.h \in raced
          BY <1>0, <4>1 DEF Justified
      <4>2. CASE \E q \in requests : q.kind \in Subscribing /\ q.phase = "ok" /\ q.h = x.h /\ q.id = x.id
        <5>1. PICK q \in requests : q.kind = "subscribe" /\ q.phase = "ok"
            BY <1>0, <4>2 DEF Subscribing
        <5> QED BY <1>0, <5>1 DEF ClientInv, FollowsLoop
      <4>3. CASE \E q \in requests : q.kind = "unsubscribe" /\ q.phase \in {"held", "sent"} /\ q.h = x.h /\ q.id = x.id
        <5>1. PICK q \in requests : q.kind = "unsubscribe" /\ q.h = x.h /\ q.id = x.id
            BY <4>3
        <5>2. q.phase = "held"
            BY <1>0, <5>1 DEF ClientInv, FollowsLoop
        <5>3. q \in Held
            BY <5>2 DEF Held
        <5>4. PICK u \in requests' : u.kind = "unsubscribe" /\ u.phase = "sent" /\ u.h = x.h /\ u.id = x.id
            BY ZenonT(60), <2>1, <2>4, <5>1, <5>3
        <5> QED BY <5>4 DEF Justified
      <4>4. CASE Current(x.h) /\ x.id = id[x.h]
          BY <1>0, <2>9, <4>0, <4>4 DEF Justified
      <4> QED BY <4>0, <4>1, <4>2, <4>3, <4>4 DEF Justified
    <3>2. \A u \in requests' : u.phase # "ok"
        BY <2>5
    <3>3. \A k \in Handles : Current(k)' => [h |-> k, id |-> id'[k]] \in served'
        BY <1>0, <1>2, <2>9 DEF ClientInv, ServedWhileOpen
    <3> QED BY <1>0, <3>1, <3>2, <3>3 DEF ServedWhileOpen
  <2>11. requests' \subseteq Request
      BY <2>5
  <2> QED BY <1>0, <2>1, <2>6, <2>7, <2>8, <2>10, <2>11 DEF ClientInv, ClientTypes
<1> QED BY <1>1, <1>2

LEMMA NoticeStep ==
    ASSUME ClientInv, TargetsNotice \/ Watch
    PROVE  ClientInv'
<1>0. /\ UNCHANGED <<loop, visited, handle, id, requests, served, nextId, raced>>
      /\ up' = up \/ (up = "open" /\ up' = "closing")
    BY DEF TargetsNotice, Watch
<1>1. \A q \in requests : FollowsLoop(q)' <=> FollowsLoop(q)
    BY <1>0 DEF FollowsLoop
<1>2. \A k \in Handles : Current(k)' <=> Current(k)
    BY <1>0 DEF Current
<1>3. up' = "open" => ServedWhileOpen'
    BY <1>0, <1>2 DEF ClientInv, ClientTypes, ServedWhileOpen, Justified
<1> QED BY <1>0, <1>1, <1>3 DEF ClientInv, ClientTypes, OneEach, IdsAreOwned

LEMMA ClientStep == OpenClientInv /\ [ClientNext]_clientVars => OpenClientInv'
<1> SUFFICES ASSUME OpenClientInv, [ClientNext]_clientVars PROVE OpenClientInv'
    OBVIOUS
<1>1. CASE manual
  <2>1. manual'
      BY <1>1 DEF ClientNext, clientVars, Subscribe, CloseSubscription, Restore, BrokerAnswers, Answered, TargetsNotice, Watch,
                  ConnectionClosed, Connected, ConnectFails, Waited, Restored, Close
  <2> QED BY <2>1 DEF OpenClientInv
<1>2. CASE ~manual
  <2>0. ClientInv
      BY <1>2 DEF OpenClientInv
  <2>1. CASE Close
      BY <2>1 DEF Close, OpenClientInv
  <2>2. CASE UNCHANGED clientVars
    <3>1. up' = up /\ \A q \in requests : FollowsLoop(q)' <=> FollowsLoop(q)
        BY <2>2 DEF clientVars, FollowsLoop
    <3>2. \A k \in Handles : Current(k)' <=> Current(k)
        BY <2>2 DEF clientVars, Current
    <3>3. up' = "open" => ServedWhileOpen'
        BY <2>0, <2>2, <3>2 DEF clientVars, ClientInv, ClientTypes, ServedWhileOpen, Justified
    <3> QED BY <2>0, <2>2, <3>1, <3>3 DEF OpenClientInv, clientVars, ClientInv, ClientTypes, OneEach, IdsAreOwned
  <2>3. CASE \E h \in Handles : Subscribe(h) \/ CloseSubscription(h) \/ Restore(h)
      BY <1>2, <2>0, <2>3, SubscribeStep, CloseSubscriptionStep, RestoreStep DEF OpenClientInv
  <2>4. CASE \E r \in requests : BrokerAnswers(r) \/ Answered(r)
      BY <1>2, <2>0, <2>4, BrokerAnswersStep, AnsweredStep DEF OpenClientInv
  <2>5. CASE TargetsNotice \/ Watch \/ ConnectionClosed \/ Connected \/ ConnectFails \/ Waited \/ Restored
      BY <1>2, <2>0, <2>5, NoticeStep, ConnectionClosedStep, ConnectedStep, RetryStep, RestoredStep DEF OpenClientInv
  <2> QED BY <2>1, <2>2, <2>3, <2>4, <2>5 DEF ClientNext
<1> QED BY <1>1, <1>2

(* After any number of lost connections, and whichever requests were lost  *)
(* or held with them, the broker serves exactly the subscriptions of the   *)
(* user that are live, under the identifiers the client routes events by,  *)
(* the ones closed while they were being made again excepted.              *)
THEOREM SubscriptionsSurvive == ClientSpec => []SubscriptionsMatch
<1>1. OpenClientInv => SubscriptionsMatch
  <2> SUFFICES ASSUME OpenClientInv, up = "open", ~manual, requests = {}, loop = "none"
               PROVE  /\ \A h \in Live : [h |-> h, id |-> id[h]] \in served
                      /\ \A x \in served : x.h \in raced \/ (x.h \in Live /\ x.id = id[x.h])
      BY DEF SubscriptionsMatch
  <2>1. ClientTypes /\ ServedWhileOpen
      BY DEF OpenClientInv, ClientInv
  <2>2. \A h \in Live : h \in Handles /\ Current(h)
      BY DEF Live, Current
  <2>3. \A x \in served : x.h \in raced \/ (Current(x.h) /\ x.h \in Handles /\ x.id = id[x.h])
      BY <2>1 DEF ServedWhileOpen, Justified, ClientTypes
  <2> QED BY <2>1, <2>2, <2>3 DEF ServedWhileOpen, Live, Current
<1> QED BY <1>1, ClientInitially, ClientStep, PTL DEF ClientSpec
=============================================================================
