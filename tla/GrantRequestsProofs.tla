------------------------ MODULE GrantRequestsProofs -------------------------
(* What is proved about grant requests: for any number of requests,        *)
(* providers and targets, and a store that may fail at any update.         *)
EXTENDS GrantRequests, TLAPS

-----------------------------------------------------------------------------
(* The inductive invariant                                                 *)

RequestTypes ==
    /\ requests \in [Requests -> GrantRequest \cup {None}]
    /\ operation \in [Requests -> Operation]
    /\ revoking \in [Requests -> (SUBSET TargetIds) \cup {None}]
    /\ bindings \subseteq GrantedBinding

OtherTypes ==
    /\ disposed \in BOOLEAN /\ now \in 0 .. MaxTime
    /\ session \in {"connected", "resumable", "gone"}
    /\ connection \in [Providers -> 0 .. MaxConnection] /\ ready \subseteq Providers
    /\ directory \in [TargetIds -> Published \cup {None}]
    /\ cancelling \in [Requests -> {"no", "waiting", "failed"}]
    /\ commits \in 0 .. MaxCommit

Stored(r) == {b \in bindings : b.request = r}

OnePerTarget(bs) == \A b, c \in bs : b.target = c.target => b = c

(* One operation of a request runs at a time.                              *)
OneAtATime(q, o) == o.kind \notin {"none", "settled"} => q.completing

(* Who has claimed the request is known until the claim is released.       *)
HasClaimant(q) == q.state = "pending" \/ q.claim \in Provider

(* Every binding of the request is one it knows, and of a target that has  *)
(* not been revoked for it; while nothing is uncertain the request has the *)
(* bindings of the store.                                                  *)
KnowsStored(r, q, o, stored) ==
    /\ \A b \in q.bindings : b.request = r /\ b.id \in q.bindingIds
    /\ \A b \in stored : b.id \in q.bindingIds /\ b.target \notin q.revokedTargets
    /\ ~q.cancelled /\ o.kind \in {"none", "settled", "commit", "revoke"} => stored \subseteq q.bindings
    /\ OnePerTarget(q.bindings) /\ OnePerTarget(stored)

(* What is to be written: for the provider that holds the claim, and of no *)
(* target that has been revoked.                                           *)
KnowsCommit(r, q, o, stored) ==
    o.kind \in {"commit", "written"} =>
        /\ q.state # "pending" /\ o.provider.principal = q.claim.principal
        /\ \A b \in o.bindings : b.request = r /\ b.id \in q.bindingIds /\ b.target \notin q.revokedTargets
        /\ OnePerTarget(o.bindings)
        /\ o.kind = "written" => stored \subseteq o.bindings

(* What is being revoked: all the bindings of its targets, and nothing of  *)
(* a request that has not been granted.                                    *)
KnowsRevoked(q, o, v, stored) ==
    /\ o.kind = "revoke" => \A b \in stored : b.target \in o.targets => b.id \in o.ids
    /\ q.state # "granted" =>
          /\ q.bindings = {} /\ q.revokedTargets = {} /\ v \in {None, {}}
          /\ o.kind = "revoke" => o.targets = {}

RequestOK(r, q, o, v, stored) ==
    IF q = None THEN o = Idle /\ v = None /\ stored = {}
    ELSE /\ HasClaimant(q) /\ OneAtATime(q, o) /\ KnowsStored(r, q, o, stored)
         /\ KnowsCommit(r, q, o, stored) /\ KnowsRevoked(q, o, v, stored)

GrantInv ==
    /\ RequestTypes /\ OtherTypes
    /\ \A r \in Requests : RequestOK(r, requests[r], operation[r], revoking[r], Stored(r))

-----------------------------------------------------------------------------
(* Types                                                                   *)

LEMMA OtherTypesKept ==
    ASSUME OtherTypes, [Next]_vars PROVE OtherTypes'
<1> USE DEF environment
<1>1. ASSUME UNCHANGED <<disposed, now, environment, cancelling, commits>> PROVE OtherTypes'
    BY <1>1 DEF OtherTypes
<1>2. CASE EnvironmentStep
    <2>1. ASSUME NEW p \in Providers, ProviderConnects(p) PROVE OtherTypes'
        <3>1. connection' \in [Providers -> 0 .. MaxConnection]
            BY <2>1, BoundsAssumption DEF OtherTypes, ProviderConnects
        <3> QED
            BY <2>1, <3>1 DEF OtherTypes, ProviderConnects
    <2>2. ASSUME NEW p \in Providers, ProviderUnavailable(p) PROVE OtherTypes'
        BY <2>2 DEF OtherTypes, ProviderUnavailable
    <2>3. ASSUME NEW t \in TargetIds, NEW published \in Published \cup {None}, TargetChanges(t, published)
          PROVE  OtherTypes'
        BY <2>3 DEF OtherTypes, TargetChanges
    <2>4. ASSUME NEW next \in {"connected", "resumable", "gone"}, SessionChanges(next) PROVE OtherTypes'
        BY <2>4 DEF OtherTypes, SessionChanges
    <2>5. CASE Tick
        <3>1. now' \in 0 .. MaxTime
            BY <2>5, BoundsAssumption DEF OtherTypes, Tick
        <3> QED
            BY <2>5, <3>1 DEF OtherTypes, Tick
    <2> QED
        BY <1>2, <2>1, <2>2, <2>3, <2>4, <2>5 DEF EnvironmentStep
<1>3. ASSUME NEW r \in Requests, UNCHANGED <<disposed, now, environment, commits>>,
             \E x \in {"no", "waiting", "failed"} : cancelling' = [cancelling EXCEPT ![r] = x]
      PROVE  OtherTypes'
    BY <1>3 DEF OtherTypes
<1>4. ASSUME NEW r \in Requests, HostStep(r) PROVE OtherTypes'
    <2>1. ASSUME UNCHANGED <<disposed, now, environment, cancelling>>, commits < MaxCommit, commits' = commits + 1
          PROVE  OtherTypes'
        <3>1. commits' \in 0 .. MaxCommit
            BY <2>1, BoundsAssumption DEF OtherTypes
        <3> QED
            BY <2>1, <3>1 DEF OtherTypes
    <2>2. ASSUME NEW requested \in Requested, NEW capabilities \in Capabilities, NEW expiresAt \in Deadlines,
                 NEW bindingExpiresAt \in Deadlines,
                 Request(r, requested, capabilities, expiresAt, bindingExpiresAt)
          PROVE  OtherTypes'
        BY <1>1, <2>2 DEF Request
    <2>3. ASSUME NEW listed \in Listings, Complete(r, listed) PROVE OtherTypes'
        BY <2>1, <2>3 DEF Complete, Submit
    <2>4. ASSUME NEW listed \in Listings, NEW provider \in Provider, Reconcile(r, provider, listed) PROVE OtherTypes'
        BY <2>1, <2>4 DEF Reconcile, Submit
    <2>5. CASE Cancel(r)
        BY <1>3, <2>5 DEF Cancel
    <2>6. ASSUME NEW provider \in Provider, Claim(r, provider) PROVE OtherTypes'
        BY <1>1, <2>6 DEF Claim
    <2>7. CASE ReleaseClaim(r) \/ CommitMalformed(r)
        BY <1>1, <2>7 DEF ReleaseClaim, CommitMalformed
    <2>8. ASSUME NEW ids \in SUBSET BindingIds, RevokeBindings(r, ids) PROVE OtherTypes'
        BY <1>1, <2>8 DEF RevokeBindings
    <2> QED
        BY <1>4, <2>2, <2>3, <2>4, <2>5, <2>6, <2>7, <2>8 DEF HostStep
<1>5. ASSUME NEW r \in Requests, Answered(r) PROVE OtherTypes'
    <2>1. CASE \/ CommitWritten(r) \/ CommitRefused(r) \/ CommitUncertain(r) \/ CommitSettles(r)
               \/ CleanupWritten(r) \/ RevokeProceeds(r) \/ RevokeWritten(r) \/ RevokeFails(r)
        BY <1>1, <2>1 DEF CommitWritten, CommitRefused, CommitUncertain, CommitSettles, CleanupWritten,
            RevokeProceeds, RevokeWritten, RevokeFails
    <2>2. CASE CleanupFails(r)
        <3>1. PICK x : x = (IF cancelling[r] = "no" THEN "failed" ELSE cancelling[r])
            OBVIOUS
        <3>2. x \in {"no", "waiting", "failed"} /\ cancelling' = [cancelling EXCEPT ![r] = x]
            BY <2>2, <3>1 DEF CleanupFails, OtherTypes
        <3> QED
            BY <1>3, <2>2, <3>2 DEF CleanupFails
    <2>3. CASE CancelForgets(r) \/ CancelRemoves(r) \/ CancelFails(r)
        BY <1>3, <2>3 DEF CancelForgets, CancelRemoves, CancelFails, Forget
    <2> QED
        BY <1>5, <2>1, <2>2, <2>3 DEF Answered
<1>6. ASSUME NEW r \in Requests, Expire(r) PROVE OtherTypes'
    BY <1>3, <1>6 DEF Expire, Cancel
<1>7. CASE Dispose
    BY <1>7 DEF OtherTypes, Dispose
<1>8. CASE UNCHANGED vars
    BY <1>1, <1>8 DEF vars
<1> QED
    BY <1>2, <1>4, <1>5, <1>6, <1>7, <1>8 DEF Next

(* The request of an operation that is running                             *)
LEMMA OperationIs ==
    ASSUME NEW o \in Operation
    PROVE  /\ o.kind \in {"none", "settled", "cleanup", "commit", "written", "revoke"}
           /\ o.kind \in {"commit", "written"} => /\ o.provider \in Provider /\ o.bindings \subseteq GrantedBinding
                                                  /\ o = [kind |-> o.kind, provider |-> o.provider, bindings |-> o.bindings]
           /\ o.kind = "revoke" => o.targets \subseteq TargetIds /\ o.ids \subseteq BindingIds
BY DEF Operation

-----------------------------------------------------------------------------
(* A step of one request                                                   *)

LEMMA FewerStored ==
    ASSUME NEW r, NEW q, NEW o, NEW v, NEW stored, NEW fewer \in SUBSET stored, RequestOK(r, q, o, v, stored)
    PROVE  RequestOK(r, q, o, v, fewer)
BY DEF RequestOK, HasClaimant, KnowsStored, KnowsCommit, KnowsRevoked, OnePerTarget

(* The request is not forgotten.                                           *)
Remains(r) == requests'[r] # None

LEMMA RequestStep ==
    ASSUME GrantInv, OtherTypes', NEW r \in Requests,
           NEW q \in GrantRequest \cup {None}, requests' = [requests EXCEPT ![r] = q],
           NEW o \in Operation, operation' = [operation EXCEPT ![r] = o],
           NEW v \in (SUBSET TargetIds) \cup {None}, revoking' = [revoking EXCEPT ![r] = v],
           bindings' \subseteq GrantedBinding,
           \A s \in Requests \ {r} : Stored(s)' \subseteq Stored(s),
           RequestOK(r, q, o, v, Stored(r)')
    PROVE  GrantInv' /\ requests'[r] = q
<1>1. RequestTypes'
    BY DEF GrantInv, RequestTypes
<1>2. ASSUME NEW s \in Requests PROVE RequestOK(s, requests'[s], operation'[s], revoking'[s], Stored(s)')
    <2>1. CASE s = r
        BY <2>1 DEF GrantInv, RequestTypes
    <2>2. CASE s # r
        <3>1. requests'[s] = requests[s] /\ operation'[s] = operation[s] /\ revoking'[s] = revoking[s]
            BY <2>2 DEF GrantInv, RequestTypes
        <3> QED
            BY <2>2, <3>1, FewerStored DEF GrantInv
    <2> QED
        BY <2>1, <2>2
<1>3. \A s \in Requests : RequestOK(s, requests[s], operation[s], revoking[s], Stored(s))'
    BY <1>2 DEF RequestOK, HasClaimant, KnowsStored, KnowsCommit, KnowsRevoked, OneAtATime, OnePerTarget
<1> QED
    BY <1>1, <1>3 DEF GrantInv, RequestTypes

(* What is stored for each request after a step that only removes          *)
LEMMA StoredAfter ==
    ASSUME bindings' \subseteq bindings
    PROVE  \A s : Stored(s)' \subseteq Stored(s)
BY DEF Stored

(* The request r itself, as the invariant has it                           *)
LEMMA OneRequest ==
    ASSUME GrantInv, NEW r \in Requests
    PROVE  /\ RequestOK(r, requests[r], operation[r], revoking[r], Stored(r))
           /\ requests[r] \in GrantRequest \cup {None}
           /\ operation[r] \in Operation
           /\ revoking[r] \in (SUBSET TargetIds) \cup {None}
           /\ requests = [requests EXCEPT ![r] = requests[r]]
           /\ operation = [operation EXCEPT ![r] = operation[r]]
           /\ revoking = [revoking EXCEPT ![r] = revoking[r]]
BY DEF GrantInv, RequestTypes

LEMMA NoneIsNoRequest ==
    None \notin GrantRequest /\ None \notin Provider
BY BoundsAssumption

(* Nothing of the requests changes, and bindings may go.                   *)
LEMMA OnlyBindings ==
    ASSUME GrantInv, OtherTypes', UNCHANGED <<requests, operation, revoking>>, bindings' \subseteq bindings
    PROVE  GrantInv'
<1>1. RequestTypes'
    BY DEF GrantInv, RequestTypes
<1>2. ASSUME NEW s \in Requests PROVE RequestOK(s, requests'[s], operation'[s], revoking'[s], Stored(s)')
    BY StoredAfter, FewerStored DEF GrantInv
<1>3. \A s \in Requests : RequestOK(s, requests[s], operation[s], revoking[s], Stored(s))'
    BY <1>2 DEF RequestOK, HasClaimant, KnowsStored, KnowsCommit, KnowsRevoked, OneAtATime, OnePerTarget
<1> QED
    BY <1>1, <1>3 DEF GrantInv

LEMMA InitOK ==
    ASSUME Init PROVE GrantInv
<1>1. 0 \in 0 .. MaxTime /\ 0 \in 0 .. MaxCommit /\ 0 \in 0 .. MaxConnection
    BY BoundsAssumption
<1>2. OtherTypes
    BY <1>1 DEF Init, OtherTypes
<1>3. Idle \in Operation
    BY DEF Idle, Operation
<1>4. RequestTypes
    <2>1. requests \in [Requests -> GrantRequest \cup {None}]
        BY DEF Init
    <2>2. operation \in [Requests -> Operation]
        BY <1>3 DEF Init
    <2>3. revoking \in [Requests -> (SUBSET TargetIds) \cup {None}]
        BY DEF Init
    <2> QED
        BY <2>1, <2>2, <2>3 DEF RequestTypes, Init
<1> QED
    BY <1>2, <1>4 DEF Init, GrantInv, RequestOK, Stored

-----------------------------------------------------------------------------
(* The operations                                                          *)

LEMMA RequestKeeps ==
    ASSUME GrantInv, OtherTypes', NEW r \in Requests, NEW requested \in Requested,
           NEW capabilities \in Capabilities, NEW expiresAt \in Deadlines, NEW bindingExpiresAt \in Deadlines,
           Request(r, requested, capabilities, expiresAt, bindingExpiresAt)
    PROVE  GrantInv' /\ Remains(r)
<1>1. PICK q : q = [state |-> "pending", claim |-> None, requested |-> requested,
           capabilities |-> capabilities, expiresAt |-> expiresAt,
           bindingExpiresAt |-> bindingExpiresAt, cancelled |-> FALSE, completing |-> FALSE,
           bindings |-> {}, bindingIds |-> {}, revokedTargets |-> {}]
    OBVIOUS
<1>2. q \in GrantRequest
    BY <1>1, BoundsAssumption DEF GrantRequest
<1>3. requests[r] = None /\ requests' = [requests EXCEPT ![r] = q]
    BY <1>1 DEF Request
<1>4. UNCHANGED <<bindings, operation, revoking>>
    BY DEF Request
<1>5. operation[r] = Idle /\ revoking[r] = None /\ Stored(r) = {}
    BY <1>3, OneRequest DEF RequestOK
<1>6. Stored(r)' = {}
    BY <1>4, <1>5 DEF Stored
<1>7. RequestOK(r, q, Idle, None, {})
    BY <1>1, <1>2, NoneIsNoRequest DEF RequestOK, HasClaimant, OneAtATime, KnowsStored, KnowsCommit, KnowsRevoked, Idle, OnePerTarget
<1>8. \A s \in Requests \ {r} : Stored(s)' \subseteq Stored(s)
    BY <1>4, StoredAfter
<1>9. /\ operation' = [operation EXCEPT ![r] = Idle] /\ Idle \in Operation
      /\ revoking' = [revoking EXCEPT ![r] = None] /\ bindings' \subseteq GrantedBinding
    BY <1>4, <1>5, OneRequest DEF GrantInv, RequestTypes
<1>10. RequestOK(r, q, Idle, None, Stored(r)')
    BY <1>6, <1>7
<1>11. q \in GrantRequest \cup {None} /\ None \in (SUBSET TargetIds) \cup {None}
    BY <1>2
<1> QED
    <2>1. GrantInv' /\ requests'[r] = q
        BY <1>3, <1>8, <1>9, <1>10, <1>11, RequestStep
    <2> QED
        BY <1>2, <2>1, NoneIsNoRequest DEF Remains

(* A step that changes what a request says of itself, and no more than its *)
(* own record                                                              *)
LEMMA RecordStep ==
    ASSUME GrantInv, OtherTypes', NEW r \in Requests, requests[r] # None,
           NEW q \in GrantRequest, requests' = [requests EXCEPT ![r] = q],
           UNCHANGED <<operation, revoking>>, bindings' \subseteq bindings,
           q.completing = requests[r].completing, q.bindings = requests[r].bindings,
           q.bindingIds = requests[r].bindingIds, q.revokedTargets = requests[r].revokedTargets,
           requests[r].cancelled => q.cancelled, HasClaimant(q),
           q.state # "granted" => requests[r].state # "granted",
           \/ q.claim = requests[r].claim /\ q.state = requests[r].state
           \/ operation[r].kind \notin {"commit", "written"}
    PROVE  GrantInv' /\ Remains(r)
<1>1. PICK p \in GrantRequest : p = requests[r]
    BY OneRequest
<1>2. PICK o \in Operation : o = operation[r]
    BY OneRequest
<1>3. PICK v \in (SUBSET TargetIds) \cup {None} : v = revoking[r]
    BY OneRequest
<1>4. RequestOK(r, p, o, v, Stored(r))
    BY <1>1, <1>2, <1>3, OneRequest
<1>5. RequestOK(r, q, o, v, Stored(r))
    BY <1>1, <1>2, <1>3, <1>4, NoneIsNoRequest DEF RequestOK, HasClaimant, OneAtATime, KnowsStored, KnowsCommit, KnowsRevoked, OnePerTarget, GrantRequest
<1>6. RequestOK(r, q, o, v, Stored(r)')
    BY <1>5, StoredAfter, FewerStored
<1>7. \A s \in Requests \ {r} : Stored(s)' \subseteq Stored(s)
    BY StoredAfter
<1>8. operation' = [operation EXCEPT ![r] = o] /\ revoking' = [revoking EXCEPT ![r] = v] /\ bindings' \subseteq GrantedBinding
    BY <1>2, <1>3, OneRequest DEF GrantInv, RequestTypes
<1> QED
    <2>1. GrantInv' /\ requests'[r] = q
        BY <1>6, <1>7, <1>8, RequestStep
    <2> QED
        BY <2>1, NoneIsNoRequest DEF Remains

LEMMA ClaimKeeps ==
    ASSUME GrantInv, OtherTypes', NEW r \in Requests, NEW provider \in Provider, Claim(r, provider)
    PROVE  GrantInv' /\ Remains(r)
<1>1. PICK p \in GrantRequest : p = requests[r]
    BY OneRequest DEF Claim, Live
<1>2. PICK q : q = [p EXCEPT !.claim = provider, !.state = "claimed"]
    OBVIOUS
<1>3. q \in GrantRequest
    BY <1>2 DEF GrantRequest
<1>4. requests' = [requests EXCEPT ![r] = q]
    BY <1>1, <1>2 DEF Claim, GrantInv, RequestTypes
<1>5. p.state # "granted" /\ ~p.completing /\ requests[r] # None
    BY <1>1 DEF Claim, Live
<1>6. operation[r].kind \notin {"commit", "written"}
    BY <1>1, <1>5, OneRequest DEF RequestOK, OneAtATime
<1>7. UNCHANGED <<bindings, operation, revoking>>
    BY DEF Claim
<1>8. /\ q.completing = p.completing /\ q.bindings = p.bindings /\ q.bindingIds = p.bindingIds
      /\ q.revokedTargets = p.revokedTargets /\ q.cancelled = p.cancelled /\ HasClaimant(q)
    BY <1>2 DEF GrantRequest, HasClaimant
<1> QED
    BY <1>1, <1>3, <1>4, <1>5, <1>6, <1>7, <1>8, RecordStep

LEMMA ReleaseKeeps ==
    ASSUME GrantInv, OtherTypes', NEW r \in Requests, ReleaseClaim(r)
    PROVE  GrantInv' /\ Remains(r)
<1>1. PICK p \in GrantRequest : p = requests[r]
    BY OneRequest DEF ReleaseClaim, ClaimHeld, Live
<1>2. PICK q : q = [p EXCEPT !.claim = None, !.state = "pending"]
    OBVIOUS
<1>3. q \in GrantRequest
    BY <1>2 DEF GrantRequest
<1>4. requests' = [requests EXCEPT ![r] = q]
    BY <1>1, <1>2 DEF ReleaseClaim, GrantInv, RequestTypes
<1>5. p.state # "granted" /\ ~p.completing /\ requests[r] # None
    BY <1>1 DEF ReleaseClaim, ClaimHeld, Live
<1>6. operation[r].kind \notin {"commit", "written"}
    BY <1>1, <1>5, OneRequest DEF RequestOK, OneAtATime
<1>7. UNCHANGED <<bindings, operation, revoking>>
    BY DEF ReleaseClaim
<1>8. /\ q.completing = p.completing /\ q.bindings = p.bindings /\ q.bindingIds = p.bindingIds
      /\ q.revokedTargets = p.revokedTargets /\ q.cancelled = p.cancelled /\ HasClaimant(q)
    BY <1>2 DEF GrantRequest, HasClaimant
<1> QED
    BY <1>1, <1>3, <1>4, <1>5, <1>6, <1>7, <1>8, RecordStep

LEMMA CancelKeeps ==
    ASSUME GrantInv, OtherTypes', NEW r \in Requests, Cancel(r)
    PROVE  GrantInv' /\ Remains(r)
<1>1. PICK p \in GrantRequest : p = requests[r]
    BY OneRequest DEF Cancel
<1>2. PICK q : q = [p EXCEPT !.cancelled = TRUE]
    OBVIOUS
<1>3. q \in GrantRequest
    BY <1>2 DEF GrantRequest
<1>4. requests' = [requests EXCEPT ![r] = q]
    BY <1>1, <1>2 DEF Cancel, Cancelled, GrantInv, RequestTypes
<1>7. UNCHANGED <<bindings, operation, revoking>> /\ requests[r] # None
    BY DEF Cancel
<1>8. /\ q.completing = p.completing /\ q.bindings = p.bindings /\ q.bindingIds = p.bindingIds
      /\ q.revokedTargets = p.revokedTargets /\ q.cancelled /\ q.state = p.state /\ q.claim = p.claim
    BY <1>2 DEF GrantRequest
<1>9. HasClaimant(q)
    BY <1>1, <1>7, <1>8, OneRequest DEF RequestOK, HasClaimant
<1> QED
    BY <1>9, <1>1, <1>3, <1>4, <1>7, <1>8, RecordStep
(* What a commit submits: the binding kept or a fresh one for each target  *)
(* that was listed.                                                        *)
LEMMA CommittedFacts ==
    ASSUME GrantInv, NEW r \in Requests, requests[r] # None, commits < MaxCommit,
           NEW listed, DOMAIN listed \subseteq TargetIds, \A t \in DOMAIN listed : listed[t] \in Generations
    PROVE  /\ Committed(r, listed) \subseteq GrantedBinding
           /\ \A b \in Committed(r, listed) : b.request = r /\ b.target \in DOMAIN listed
           /\ OnePerTarget(Committed(r, listed))
<1>1. PICK q \in GrantRequest : q = requests[r]
    BY OneRequest
<1>2. /\ q.bindings \subseteq GrantedBinding /\ OnePerTarget(q.bindings)
      /\ \A b \in q.bindings : b.request = r
    BY <1>1, OneRequest, NoneIsNoRequest DEF RequestOK, KnowsStored, GrantRequest
<1>3. /\ Kept(r, listed) \subseteq q.bindings
      /\ \A b \in Kept(r, listed) : b.target \in DOMAIN listed
    BY <1>1 DEF Kept
<1>4. commits + 1 \in 1 .. MaxCommit
    BY BoundsAssumption DEF GrantInv, OtherTypes
<1>5. \A t \in DOMAIN listed : [id |-> <<commits + 1, t>>, request |-> r, target |-> t, generation |-> listed[t]] \in GrantedBinding
    BY <1>4 DEF GrantedBinding, BindingIds
<1>6. \A b \in Fresh(r, listed) : /\ b \in GrantedBinding /\ b.request = r /\ b.target \in DOMAIN listed
                                  /\ \A c \in Kept(r, listed) : b.target # c.target
    BY <1>5 DEF Fresh
<1>7. \A b, c \in Fresh(r, listed) : b.target = c.target => b = c
    BY DEF Fresh
<1> QED
    BY <1>2, <1>3, <1>6, <1>7 DEF Committed, OnePerTarget

LEMMA SubmitKeeps ==
    ASSUME GrantInv, OtherTypes', NEW r \in Requests, NEW provider \in Provider, NEW listed,
           DOMAIN listed \subseteq TargetIds, \A t \in DOMAIN listed : listed[t] \in Generations,
           Submit(r, provider, listed), Live(r), ~requests[r].completing,
           requests[r].state # "pending", requests[r].claim.principal = provider.principal,
           \A t \in DOMAIN listed : t \notin requests[r].revokedTargets,
           UNCHANGED <<bindings, revoking>>
    PROVE  GrantInv' /\ Remains(r)
<1>1. PICK p \in GrantRequest : p = requests[r]
    BY OneRequest DEF Live
<1>2. PICK o \in Operation : o = operation[r]
    BY OneRequest
<1>3. PICK v \in (SUBSET TargetIds) \cup {None} : v = revoking[r]
    BY OneRequest
<1>4. PICK bs : bs = Committed(r, listed)
    OBVIOUS
<1>5. /\ bs \subseteq GrantedBinding /\ OnePerTarget(bs)
      /\ \A b \in bs : b.request = r /\ b.target \notin p.revokedTargets
    BY <1>1, <1>4, CommittedFacts DEF Submit, Live
<1>6. PICK q : q = [p EXCEPT !.completing = TRUE, !.bindingIds = @ \cup Ids(bs)]
    OBVIOUS
<1>7. Ids(bs) \subseteq BindingIds /\ \A b \in bs : b.id \in Ids(bs)
    BY <1>5 DEF Ids, GrantedBinding
<1>8. q \in GrantRequest
    BY <1>6, <1>7 DEF GrantRequest
<1>9. requests' = [requests EXCEPT ![r] = q]
    BY <1>1, <1>4, <1>6 DEF Submit, GrantInv, RequestTypes
<1>10. PICK commit : commit = [kind |-> "commit", provider |-> provider, bindings |-> bs]
    OBVIOUS
<1>11. commit \in Operation /\ operation' = [operation EXCEPT ![r] = commit]
    BY <1>4, <1>5, <1>10 DEF Operation, Submit
<1>12. RequestOK(r, p, o, v, Stored(r)) /\ p # None /\ q # None
    BY <1>1, <1>2, <1>3, <1>8, OneRequest, NoneIsNoRequest
<1>13. /\ q.completing /\ q.bindings = p.bindings /\ q.bindingIds = p.bindingIds \cup Ids(bs)
       /\ q.revokedTargets = p.revokedTargets /\ q.cancelled = p.cancelled /\ q.state = p.state
       /\ q.claim = p.claim
    BY <1>6 DEF GrantRequest
<1>14. o.kind \in {"none", "settled"} /\ ~p.cancelled
    BY <1>1, <1>2, <1>12, OperationIs DEF RequestOK, HasClaimant, OneAtATime, Live
<1>15. HasClaimant(q) /\ OneAtATime(q, commit) /\ KnowsCommit(r, q, commit, Stored(r))
    BY <1>1, <1>5, <1>7, <1>10, <1>12, <1>13 DEF RequestOK, HasClaimant, OneAtATime, KnowsCommit
<1>16. KnowsStored(r, q, commit, Stored(r)) /\ KnowsRevoked(q, commit, v, Stored(r))
    BY <1>10, <1>12, <1>13, <1>14 DEF RequestOK, KnowsStored, KnowsRevoked
<1>17. RequestOK(r, q, commit, v, Stored(r)')
    <2>1. RequestOK(r, q, commit, v, Stored(r))
        BY <1>12, <1>15, <1>16 DEF RequestOK
    <2> QED
        BY <2>1, StoredAfter, FewerStored
<1>18. /\ revoking' = [revoking EXCEPT ![r] = v] /\ bindings' \subseteq GrantedBinding
       /\ \A s \in Requests \ {r} : Stored(s)' \subseteq Stored(s)
    BY <1>3, OneRequest, StoredAfter DEF GrantInv, RequestTypes
<1> QED
    <2>1. q \in GrantRequest \cup {None} /\ v \in (SUBSET TargetIds) \cup {None}
        BY <1>3, <1>8
    <2>2. commit \in Operation /\ operation' = [operation EXCEPT ![r] = commit]
        BY <1>11
    <2>3. revoking' = [revoking EXCEPT ![r] = v]
        BY <1>18
    <2>4. bindings' \subseteq GrantedBinding /\ \A s \in Requests \ {r} : Stored(s)' \subseteq Stored(s)
        BY <1>18
    <2>5. GrantInv' /\ requests'[r] = q
        BY <1>9, <1>17, <2>1, <2>2, <2>3, <2>4, RequestStep
    <2> QED
        BY <1>8, <2>5, NoneIsNoRequest DEF Remains

LEMMA CompleteKeeps ==
    ASSUME GrantInv, OtherTypes', NEW r \in Requests, NEW listed \in Listings, Complete(r, listed)
    PROVE  GrantInv' /\ Remains(r)
<1>1. PICK p \in GrantRequest : p = requests[r]
    BY OneRequest DEF Complete, ClaimHeld, Live
<1>2. /\ DOMAIN listed \subseteq TargetIds /\ \A t \in DOMAIN listed : listed[t] \in Generations
      /\ Live(r) /\ ~requests[r].completing /\ p.state = "claimed"
      /\ Submit(r, p.claim, listed) /\ UNCHANGED <<bindings, revoking>>
    BY <1>1 DEF Listings, Complete, ClaimHeld
<1>3. p.revokedTargets = {}
    BY <1>1, <1>2, OneRequest, NoneIsNoRequest DEF RequestOK, KnowsRevoked
<1>4. p.claim \in Provider
    BY <1>1, <1>2, OneRequest, NoneIsNoRequest DEF RequestOK, HasClaimant
<1> QED
    BY <1>1, <1>2, <1>3, <1>4, SubmitKeeps

LEMMA ReconcileKeeps ==
    ASSUME GrantInv, OtherTypes', NEW r \in Requests, NEW provider \in Provider, NEW listed \in Listings,
           Reconcile(r, provider, listed)
    PROVE  GrantInv' /\ Remains(r)
<1>1. PICK kept : kept = [t \in DOMAIN listed \ requests[r].revokedTargets |-> listed[t]]
    OBVIOUS
<1>2. /\ DOMAIN kept \subseteq TargetIds /\ \A t \in DOMAIN kept : kept[t] \in Generations
      /\ \A t \in DOMAIN kept : t \notin requests[r].revokedTargets
    BY <1>1 DEF Listings
<1>3. /\ Live(r) /\ ~requests[r].completing /\ requests[r].state # "pending" /\ requests[r].claim.principal = provider.principal
      /\ Submit(r, provider, kept) /\ UNCHANGED <<bindings, revoking>>
    BY <1>1 DEF Reconcile, Reconcilable
<1> QED
    BY <1>2, <1>3, SubmitKeeps
-----------------------------------------------------------------------------
(* The answers of the store                                                *)

LEMMA CommitWrites ==
    ASSUME GrantInv, NEW r \in Requests, operation[r].kind = "commit", Write(r)
    PROVE  /\ bindings' \subseteq GrantedBinding
           /\ \A s \in Requests \ {r} : Stored(s)' \subseteq Stored(s)
           /\ Stored(r)' \subseteq operation[r].bindings
<1>1. PICK p \in GrantRequest : p = requests[r]
    BY OneRequest, OperationIs, NoneIsNoRequest DEF RequestOK, Idle
<1>2. PICK o \in Operation : o = operation[r]
    BY OneRequest
<1>3. PICK v \in (SUBSET TargetIds) \cup {None} : v = revoking[r]
    BY OneRequest
<1>4. RequestOK(r, p, o, v, Stored(r)) /\ p # None
    BY <1>1, <1>2, <1>3, OneRequest, NoneIsNoRequest
<1>5. bindings' = {b \in bindings : b.id \notin p.bindingIds} \cup o.bindings
    BY <1>1, <1>2 DEF Write
<1>6. /\ o.bindings \subseteq GrantedBinding /\ \A b \in o.bindings : b.request = r
      /\ \A b \in Stored(r) : b.id \in p.bindingIds
    BY <1>2, <1>4, OperationIs DEF RequestOK, KnowsCommit, KnowsStored
<1>7. bindings' \subseteq GrantedBinding
    BY <1>5, <1>6 DEF GrantInv, RequestTypes
<1> QED
    BY <1>2, <1>5, <1>6, <1>7 DEF Stored

LEMMA CommitWrittenKeeps ==
    ASSUME GrantInv, OtherTypes', NEW r \in Requests, CommitWritten(r)
    PROVE  GrantInv' /\ Remains(r)
<1>0. operation[r].kind = "commit"
    BY DEF CommitWritten
<1>1. PICK p \in GrantRequest : p = requests[r]
    BY <1>0, OneRequest, OperationIs, NoneIsNoRequest DEF RequestOK, Idle
<1>2. PICK o \in Operation : o = operation[r]
    BY OneRequest
<1>3. PICK v \in (SUBSET TargetIds) \cup {None} : v = revoking[r]
    BY OneRequest
<1>4. RequestOK(r, p, o, v, Stored(r)) /\ p # None
    BY <1>1, <1>2, <1>3, OneRequest, NoneIsNoRequest
<1>5. PICK w : w = [o EXCEPT !.kind = "written"]
    OBVIOUS
<1>6. w \in Operation /\ w.kind = "written" /\ w.provider = o.provider /\ w.bindings = o.bindings
    <2>1. o.kind = "commit" /\ o.provider \in Provider /\ o.bindings \subseteq GrantedBinding
          /\ o = [kind |-> o.kind, provider |-> o.provider, bindings |-> o.bindings]
        BY <1>0, <1>2, OperationIs
    <2>2. w = [kind |-> "written", provider |-> o.provider, bindings |-> o.bindings]
        BY <1>5, <2>1
    <2> QED
        BY <2>1, <2>2 DEF Operation
<1>7. /\ operation' = [operation EXCEPT ![r] = w] /\ requests' = [requests EXCEPT ![r] = p]
      /\ revoking' = [revoking EXCEPT ![r] = v]
    BY <1>1, <1>2, <1>3, <1>5, OneRequest DEF CommitWritten
<1>8. /\ bindings' \subseteq GrantedBinding /\ \A s \in Requests \ {r} : Stored(s)' \subseteq Stored(s)
      /\ Stored(r)' \subseteq o.bindings
    BY <1>0, <1>2, CommitWrites DEF CommitWritten
<1>9. PICK stored : stored = Stored(r)'
    OBVIOUS
<1>10. RequestOK(r, p, w, v, stored)
    BY <1>0, <1>2, <1>4, <1>6, <1>8, <1>9 DEF RequestOK, HasClaimant, OneAtATime, KnowsStored, KnowsCommit, KnowsRevoked, OnePerTarget
<1> QED
    BY <1>6, <1>7, <1>8, <1>9, <1>10, RequestStep, NoneIsNoRequest DEF Remains

LEMMA CommitUncertainKeeps ==
    ASSUME GrantInv, OtherTypes', NEW r \in Requests, CommitUncertain(r)
    PROVE  GrantInv' /\ Remains(r)
<1>0. operation[r].kind = "commit"
    BY DEF CommitUncertain
<1>1. PICK p \in GrantRequest : p = requests[r]
    BY <1>0, OneRequest, OperationIs, NoneIsNoRequest DEF RequestOK, Idle
<1>2. PICK o \in Operation : o = operation[r]
    BY OneRequest
<1>3. PICK v \in (SUBSET TargetIds) \cup {None} : v = revoking[r]
    BY OneRequest
<1>4. RequestOK(r, p, o, v, Stored(r)) /\ p # None
    BY <1>1, <1>2, <1>3, OneRequest, NoneIsNoRequest
<1>5. PICK w : w = [kind |-> "cleanup"]
    OBVIOUS
<1>6. w \in Operation /\ w.kind = "cleanup"
    BY <1>5 DEF Operation
<1>7. /\ operation' = [operation EXCEPT ![r] = w] /\ requests' = [requests EXCEPT ![r] = p]
      /\ revoking' = [revoking EXCEPT ![r] = v]
    BY <1>1, <1>2, <1>3, <1>5, OneRequest DEF CommitUncertain
<1>9. PICK stored : stored = Stored(r)'
    OBVIOUS
<1>8. /\ bindings' \subseteq GrantedBinding /\ \A s \in Requests \ {r} : Stored(s)' \subseteq Stored(s)
      /\ stored \subseteq o.bindings \/ stored \subseteq Stored(r)
    <2>1. CASE UNCHANGED bindings
        BY <1>9, <2>1, StoredAfter DEF GrantInv, RequestTypes
    <2>2. CASE Write(r)
        BY <1>0, <1>2, <1>9, <2>2, CommitWrites
    <2> QED
        BY <2>1, <2>2 DEF CommitUncertain
<1>10. RequestOK(r, p, w, v, stored)
    BY <1>0, <1>2, <1>4, <1>6, <1>8 DEF RequestOK, HasClaimant, OneAtATime, KnowsStored, KnowsCommit, KnowsRevoked, OnePerTarget
<1> QED
    BY <1>6, <1>7, <1>8, <1>9, <1>10, RequestStep, NoneIsNoRequest DEF Remains

(* The end of an operation, with whatever it made of the request           *)
LEMMA EndStep ==
    ASSUME GrantInv, OtherTypes', NEW r \in Requests, requests[r] # None,
           NEW q \in GrantRequest, requests' = [requests EXCEPT ![r] = q],
           operation' = [operation EXCEPT ![r] = Idle], UNCHANGED revoking, bindings' \subseteq bindings,
           HasClaimant(q), KnowsStored(r, q, Idle, Stored(r)'),
           q.state # "granted" =>
              requests[r].state # "granted" /\ q.bindings = {} /\ q.revokedTargets = {}
    PROVE  GrantInv' /\ Remains(r)
<1>1. PICK p \in GrantRequest : p = requests[r]
    BY OneRequest
<1>2. PICK o \in Operation : o = operation[r]
    BY OneRequest
<1>3. PICK v \in (SUBSET TargetIds) \cup {None} : v = revoking[r]
    BY OneRequest
<1>4. RequestOK(r, p, o, v, Stored(r)) /\ p # None
    BY <1>1, <1>2, <1>3, OneRequest, NoneIsNoRequest
<1>5. PICK stored : stored = Stored(r)'
    OBVIOUS
<1>6. RequestOK(r, q, Idle, v, stored)
    BY <1>1, <1>2, <1>4, <1>5, NoneIsNoRequest DEF RequestOK, OneAtATime, KnowsCommit, KnowsRevoked, Idle
<1>7. /\ \A s \in Requests \ {r} : Stored(s)' \subseteq Stored(s)
      /\ revoking' = [revoking EXCEPT ![r] = v] /\ bindings' \subseteq GrantedBinding
    BY <1>3, OneRequest, StoredAfter DEF GrantInv, RequestTypes
<1>8. Idle \in Operation
    BY DEF Idle, Operation
<1> QED
    <2>1. GrantInv' /\ requests'[r] = q
        BY <1>5, <1>6, <1>7, <1>8, RequestStep
    <2> QED
        BY <2>1, NoneIsNoRequest DEF Remains

LEMMA CommitRefusedKeeps ==
    ASSUME GrantInv, OtherTypes', NEW r \in Requests, CommitRefused(r)
    PROVE  GrantInv' /\ Remains(r)
<1>0. operation[r].kind = "commit"
    BY DEF CommitRefused
<1>1. PICK p \in GrantRequest : p = requests[r]
    BY <1>0, OneRequest, OperationIs, NoneIsNoRequest DEF RequestOK, Idle
<1>2. PICK o \in Operation : o = operation[r]
    BY OneRequest
<1>3. PICK v \in (SUBSET TargetIds) \cup {None} : v = revoking[r]
    BY OneRequest
<1>4. RequestOK(r, p, o, v, Stored(r)) /\ p # None
    BY <1>1, <1>2, <1>3, OneRequest, NoneIsNoRequest
<1>5. PICK q : q = [p EXCEPT !.completing = FALSE]
    OBVIOUS
<1>6. /\ q \in GrantRequest /\ q.claim = p.claim
      /\ q.state = p.state /\ q.cancelled = p.cancelled /\ q.bindings = p.bindings
      /\ q.bindingIds = p.bindingIds /\ q.revokedTargets = p.revokedTargets
    BY <1>4, <1>5 DEF GrantRequest
<1>7. /\ requests' = [requests EXCEPT ![r] = q] /\ operation' = [operation EXCEPT ![r] = Idle]
      /\ UNCHANGED revoking /\ bindings' \subseteq bindings
    BY <1>1, <1>2, <1>5, <1>6 DEF CommitRefused, EndOperation, Without, Live, GrantRequest
<1>8. PICK stored : stored = Stored(r)'
    OBVIOUS
<1>9. stored \subseteq Stored(r)
    BY <1>7, <1>8, StoredAfter
<1>10. HasClaimant(q) /\ KnowsStored(r, q, Idle, stored)
    BY <1>0, <1>2, <1>4, <1>6, <1>9 DEF RequestOK, HasClaimant, KnowsStored, KnowsCommit, KnowsRevoked, OneAtATime, OnePerTarget, Ids
<1>11. q.state # "granted" => p.state # "granted" /\ q.bindings = {} /\ q.revokedTargets = {}
    BY <1>0, <1>2, <1>4, <1>6 DEF RequestOK, KnowsRevoked
<1> QED
    BY <1>1, <1>4, <1>6, <1>7, <1>8, <1>10, <1>11, EndStep

LEMMA CommitSettlesKeeps ==
    ASSUME GrantInv, OtherTypes', NEW r \in Requests, CommitSettles(r)
    PROVE  GrantInv' /\ Remains(r)
<1>0. operation[r].kind = "written"
    BY DEF CommitSettles
<1>1. PICK p \in GrantRequest : p = requests[r]
    BY <1>0, OneRequest, OperationIs, NoneIsNoRequest DEF RequestOK, Idle
<1>2. PICK o \in Operation : o = operation[r]
    BY OneRequest
<1>3. PICK v \in (SUBSET TargetIds) \cup {None} : v = revoking[r]
    BY OneRequest
<1>4. RequestOK(r, p, o, v, Stored(r)) /\ p # None
    BY <1>1, <1>2, <1>3, OneRequest, NoneIsNoRequest
<1>5. PICK q : q = [(IF p.cancelled THEN p
                     ELSE [p EXCEPT !.state = "granted", !.bindings = o.bindings,
                                    !.bindingIds = Ids(o.bindings)]) EXCEPT !.completing = FALSE]
    OBVIOUS
<1>6. /\ o.bindings \subseteq GrantedBinding /\ Ids(o.bindings) \subseteq BindingIds
      /\ OnePerTarget(o.bindings) /\ \A b \in o.bindings : b.request = r /\ b.target \notin p.revokedTargets
    BY <1>0, <1>2, <1>4, OperationIs DEF RequestOK, KnowsCommit, Ids, GrantedBinding
<1>7. /\ q \in GrantRequest /\ q.claim = p.claim /\ q.cancelled = p.cancelled /\ q.revokedTargets = p.revokedTargets
      /\ p.cancelled => q.state = p.state /\ q.bindings = p.bindings /\ q.bindingIds = p.bindingIds
      /\ ~p.cancelled => q.state = "granted" /\ q.bindings = o.bindings /\ q.bindingIds = Ids(o.bindings)
    BY <1>5, <1>6 DEF GrantRequest
<1>8. /\ requests' = [requests EXCEPT ![r] = q] /\ operation' = [operation EXCEPT ![r] = Idle]
      /\ UNCHANGED <<revoking, bindings>>
    BY <1>1, <1>2, <1>4, <1>5 DEF CommitSettles, EndOperation, Live
<1>9. PICK stored : stored = Stored(r)'
    OBVIOUS
<1>10. stored \subseteq Stored(r) /\ stored \subseteq o.bindings
    BY <1>0, <1>2, <1>4, <1>8, <1>9, StoredAfter DEF RequestOK, KnowsCommit
<1>11. HasClaimant(q)
    BY <1>0, <1>2, <1>4, <1>7, OperationIs DEF RequestOK, HasClaimant, KnowsCommit
<1>12. KnowsStored(r, q, Idle, stored)
    <2>1. CASE p.cancelled
        BY <1>4, <1>7, <1>10, <2>1 DEF RequestOK, KnowsStored, OnePerTarget
    <2>2. CASE ~p.cancelled
        BY <1>6, <1>7, <1>10, <2>2 DEF KnowsStored, OnePerTarget, Ids
    <2> QED
        BY <2>1, <2>2
<1>13. q.state # "granted" => p.state # "granted" /\ q.bindings = {} /\ q.revokedTargets = {}
    BY <1>0, <1>2, <1>4, <1>7 DEF RequestOK, KnowsRevoked
<1> QED
    BY <1>1, <1>4, <1>7, <1>8, <1>9, <1>11, <1>12, <1>13, EndStep

LEMMA CleanupWrittenKeeps ==
    ASSUME GrantInv, OtherTypes', NEW r \in Requests, CleanupWritten(r)
    PROVE  GrantInv' /\ Remains(r)
<1>0. operation[r].kind = "cleanup"
    BY DEF CleanupWritten
<1>1. PICK p \in GrantRequest : p = requests[r]
    BY <1>0, OneRequest, OperationIs, NoneIsNoRequest DEF RequestOK, Idle
<1>2. PICK o \in Operation : o = operation[r]
    BY OneRequest
<1>3. PICK v \in (SUBSET TargetIds) \cup {None} : v = revoking[r]
    BY OneRequest
<1>4. RequestOK(r, p, o, v, Stored(r)) /\ p # None
    BY <1>1, <1>2, <1>3, OneRequest, NoneIsNoRequest
<1>5. PICK q : q = [[p EXCEPT !.bindings = {}, !.bindingIds = {}] EXCEPT !.completing = FALSE]
    OBVIOUS
<1>6. /\ q \in GrantRequest /\ q.claim = p.claim
      /\ q.state = p.state /\ q.cancelled = p.cancelled /\ q.bindings = {}
      /\ q.bindingIds = {} /\ q.revokedTargets = p.revokedTargets
    BY <1>4, <1>5 DEF GrantRequest
<1>7. /\ requests' = [requests EXCEPT ![r] = q] /\ operation' = [operation EXCEPT ![r] = Idle]
      /\ UNCHANGED revoking /\ bindings' \subseteq bindings
    BY <1>1, <1>2, <1>5, <1>6 DEF CleanupWritten, EndOperation, Without, Live, GrantRequest
<1>8. PICK stored : stored = Stored(r)'
    OBVIOUS
<1>9. stored = {}
    BY <1>1, <1>4, <1>7, <1>8 DEF RequestOK, KnowsStored, Stored, CleanupWritten, Without
<1>10. HasClaimant(q) /\ KnowsStored(r, q, Idle, stored)
    BY <1>0, <1>2, <1>4, <1>6, <1>9 DEF RequestOK, HasClaimant, KnowsStored, KnowsCommit, KnowsRevoked, OneAtATime, OnePerTarget, Ids
<1>11. q.state # "granted" => p.state # "granted" /\ q.bindings = {} /\ q.revokedTargets = {}
    BY <1>0, <1>2, <1>4, <1>6 DEF RequestOK, KnowsRevoked
<1> QED
    BY <1>1, <1>4, <1>6, <1>7, <1>8, <1>10, <1>11, EndStep

LEMMA CleanupFailsKeeps ==
    ASSUME GrantInv, OtherTypes', NEW r \in Requests, CleanupFails(r)
    PROVE  GrantInv' /\ Remains(r)
<1>0. operation[r].kind = "cleanup"
    BY DEF CleanupFails
<1>1. PICK p \in GrantRequest : p = requests[r]
    BY <1>0, OneRequest, OperationIs, NoneIsNoRequest DEF RequestOK, Idle
<1>2. PICK o \in Operation : o = operation[r]
    BY OneRequest
<1>3. PICK v \in (SUBSET TargetIds) \cup {None} : v = revoking[r]
    BY OneRequest
<1>4. RequestOK(r, p, o, v, Stored(r)) /\ p # None
    BY <1>1, <1>2, <1>3, OneRequest, NoneIsNoRequest
<1>5. PICK q : q = [[p EXCEPT !.cancelled = TRUE] EXCEPT !.completing = FALSE]
    OBVIOUS
<1>6. /\ q \in GrantRequest /\ q.claim = p.claim
      /\ q.state = p.state /\ q.cancelled /\ q.bindings = p.bindings
      /\ q.bindingIds = p.bindingIds /\ q.revokedTargets = p.revokedTargets
    BY <1>4, <1>5 DEF GrantRequest
<1>7. /\ requests' = [requests EXCEPT ![r] = q] /\ operation' = [operation EXCEPT ![r] = Idle]
      /\ UNCHANGED revoking /\ bindings' \subseteq bindings
    BY <1>1, <1>2, <1>5, <1>6 DEF CleanupFails, EndOperation, Without, Live, GrantRequest
<1>8. PICK stored : stored = Stored(r)'
    OBVIOUS
<1>9. stored \subseteq Stored(r)
    BY <1>7, <1>8, StoredAfter
<1>10. HasClaimant(q) /\ KnowsStored(r, q, Idle, stored)
    BY <1>0, <1>2, <1>4, <1>6, <1>9 DEF RequestOK, HasClaimant, KnowsStored, KnowsCommit, KnowsRevoked, OneAtATime, OnePerTarget, Ids
<1>11. q.state # "granted" => p.state # "granted" /\ q.bindings = {} /\ q.revokedTargets = {}
    BY <1>0, <1>2, <1>4, <1>6 DEF RequestOK, KnowsRevoked
<1> QED
    BY <1>1, <1>4, <1>6, <1>7, <1>8, <1>10, <1>11, EndStep

LEMMA RevokeWrittenKeeps ==
    ASSUME GrantInv, OtherTypes', NEW r \in Requests, RevokeWritten(r)
    PROVE  GrantInv' /\ Remains(r)
<1>0. operation[r].kind = "revoke"
    BY DEF RevokeWritten
<1>1. PICK p \in GrantRequest : p = requests[r]
    BY <1>0, OneRequest, OperationIs, NoneIsNoRequest DEF RequestOK, Idle
<1>2. PICK o \in Operation : o = operation[r]
    BY OneRequest
<1>3. PICK v \in (SUBSET TargetIds) \cup {None} : v = revoking[r]
    BY OneRequest
<1>4. RequestOK(r, p, o, v, Stored(r)) /\ p # None
    BY <1>1, <1>2, <1>3, OneRequest, NoneIsNoRequest
<1>12. o.targets \subseteq TargetIds /\ o.ids \subseteq BindingIds
    BY <1>0, <1>2, OperationIs
<1>5. PICK q : q = [[p EXCEPT !.revokedTargets = @ \cup o.targets,
                              !.bindings = {b \in @ : b.id \notin o.ids},
                              !.bindingIds = @ \ o.ids] EXCEPT !.completing = FALSE]
    OBVIOUS
<1>6. /\ q \in GrantRequest /\ q.claim = p.claim
      /\ q.state = p.state /\ q.cancelled = p.cancelled /\ q.bindings = {b \in p.bindings : b.id \notin o.ids}
      /\ q.bindingIds = p.bindingIds \ o.ids /\ q.revokedTargets = p.revokedTargets \cup o.targets
    BY <1>4, <1>5, <1>12 DEF GrantRequest
<1>7. /\ requests' = [requests EXCEPT ![r] = q] /\ operation' = [operation EXCEPT ![r] = Idle]
      /\ UNCHANGED revoking /\ bindings' \subseteq bindings
    <2>1. requests' = [requests EXCEPT ![r] = q]
        BY <1>1, <1>2, <1>5 DEF RevokeWritten, EndOperation
    <2> QED
        BY <2>1 DEF RevokeWritten, EndOperation, Without
<1>8. PICK stored : stored = Stored(r)'
    OBVIOUS
<1>9. stored = {b \in Stored(r) : b.id \notin o.ids}
    BY <1>2, <1>8 DEF Stored, RevokeWritten, Without
<1>10. HasClaimant(q) /\ KnowsStored(r, q, Idle, stored)
    BY <1>0, <1>2, <1>4, <1>6, <1>9 DEF RequestOK, HasClaimant, KnowsStored, KnowsCommit, KnowsRevoked, OneAtATime, OnePerTarget, Ids
<1>11. q.state # "granted" => p.state # "granted" /\ q.bindings = {} /\ q.revokedTargets = {}
    BY <1>0, <1>2, <1>4, <1>6 DEF RequestOK, KnowsRevoked
<1> QED
    BY <1>1, <1>4, <1>6, <1>7, <1>8, <1>10, <1>11, EndStep

LEMMA RevokeFailsKeeps ==
    ASSUME GrantInv, OtherTypes', NEW r \in Requests, RevokeFails(r)
    PROVE  GrantInv' /\ Remains(r)
<1>0. operation[r].kind = "revoke"
    BY DEF RevokeFails
<1>1. PICK p \in GrantRequest : p = requests[r]
    BY <1>0, OneRequest, OperationIs, NoneIsNoRequest DEF RequestOK, Idle
<1>2. PICK o \in Operation : o = operation[r]
    BY OneRequest
<1>3. PICK v \in (SUBSET TargetIds) \cup {None} : v = revoking[r]
    BY OneRequest
<1>4. RequestOK(r, p, o, v, Stored(r)) /\ p # None
    BY <1>1, <1>2, <1>3, OneRequest, NoneIsNoRequest
<1>5. PICK q : q = [p EXCEPT !.completing = FALSE]
    OBVIOUS
<1>6. /\ q \in GrantRequest /\ q.claim = p.claim
      /\ q.state = p.state /\ q.cancelled = p.cancelled /\ q.bindings = p.bindings
      /\ q.bindingIds = p.bindingIds /\ q.revokedTargets = p.revokedTargets
    BY <1>4, <1>5 DEF GrantRequest
<1>7. /\ requests' = [requests EXCEPT ![r] = q] /\ operation' = [operation EXCEPT ![r] = Idle]
      /\ UNCHANGED revoking /\ bindings' \subseteq bindings
    BY <1>1, <1>2, <1>5, <1>6 DEF RevokeFails, EndOperation, Without, Live, GrantRequest
<1>8. PICK stored : stored = Stored(r)'
    OBVIOUS
<1>9. stored \subseteq Stored(r)
    BY <1>7, <1>8, StoredAfter
<1>10. HasClaimant(q) /\ KnowsStored(r, q, Idle, stored)
    BY <1>0, <1>2, <1>4, <1>6, <1>9 DEF RequestOK, HasClaimant, KnowsStored, KnowsCommit, KnowsRevoked, OneAtATime, OnePerTarget, Ids
<1>11. q.state # "granted" => p.state # "granted" /\ q.bindings = {} /\ q.revokedTargets = {}
    BY <1>0, <1>2, <1>4, <1>6 DEF RequestOK, KnowsRevoked
<1> QED
    BY <1>1, <1>4, <1>6, <1>7, <1>8, <1>10, <1>11, EndStep

LEMMA RevokeProceedsKeeps ==
    ASSUME GrantInv, OtherTypes', NEW r \in Requests, RevokeProceeds(r)
    PROVE  GrantInv' /\ Remains(r)
<1>0. revoking[r] # None /\ operation[r].kind = "none"
    BY DEF RevokeProceeds
<1>1. PICK p \in GrantRequest : p = requests[r]
    BY <1>0, OneRequest DEF RequestOK
<1>2. PICK o \in Operation : o = operation[r]
    BY OneRequest
<1>3. PICK v \in (SUBSET TargetIds) \cup {None} : v = revoking[r]
    BY OneRequest
<1>4. RequestOK(r, p, o, v, Stored(r)) /\ p # None
    BY <1>1, <1>2, <1>3, OneRequest, NoneIsNoRequest
<1>5. revoking' = [revoking EXCEPT ![r] = None] /\ UNCHANGED bindings
    BY DEF RevokeProceeds
<1>6. /\ \A s \in Requests \ {r} : Stored(s)' \subseteq Stored(s)
      /\ bindings' \subseteq GrantedBinding /\ Stored(r)' \subseteq Stored(r)
    BY <1>5, StoredAfter DEF GrantInv, RequestTypes
<1>7. PICK stored : stored = Stored(r)'
    OBVIOUS
<1>8. stored \subseteq Stored(r) /\ \A b \in Stored(r) : b.request = r
    BY <1>6, <1>7 DEF Stored
<1>9. CASE Live(r)
    <2>1. PICK w : w = [kind |-> "revoke", targets |-> v, ids |-> Ids({b \in p.bindings : b.target \in v})]
        OBVIOUS
    <2>2. PICK q : q = [p EXCEPT !.completing = TRUE]
        OBVIOUS
    <2>3. v \subseteq TargetIds /\ \A b \in p.bindings : b.id \in BindingIds
        BY <1>0, <1>3 DEF GrantRequest, GrantedBinding
    <2>4. Ids({b \in p.bindings : b.target \in v}) \subseteq BindingIds
        BY <2>3 DEF Ids
    <2>5. w \in Operation
        BY <2>1, <2>3, <2>4 DEF Operation
    <2>6. /\ q \in GrantRequest /\ q.completing /\ q.claim = p.claim /\ q.state = p.state
          /\ q.cancelled = p.cancelled /\ q.bindings = p.bindings
          /\ q.bindingIds = p.bindingIds /\ q.revokedTargets = p.revokedTargets
        BY <2>2 DEF GrantRequest
    <2>7. requests' = [requests EXCEPT ![r] = q] /\ operation' = [operation EXCEPT ![r] = w]
        BY <1>1, <1>3, <1>9, <2>1, <2>2 DEF RevokeProceeds, GrantInv, RequestTypes
    <2>8. /\ HasClaimant(q) /\ OneAtATime(q, w) /\ KnowsStored(r, q, w, stored) /\ KnowsCommit(r, q, w, stored)
        BY <1>0, <1>1, <1>2, <1>4, <1>8, <1>9, <2>1, <2>6
        DEF RequestOK, HasClaimant, OneAtATime, KnowsStored, KnowsCommit, OnePerTarget, Live
    <2>9. stored \subseteq p.bindings
        BY <1>0, <1>1, <1>2, <1>4, <1>8, <1>9 DEF RequestOK, KnowsStored, Live
    <2>10. KnowsRevoked(q, w, None, stored)
        <3>1. \A b \in stored : b.target \in w.targets => b.id \in w.ids
            BY <2>1, <2>9 DEF Ids
        <3>2. q.state # "granted" => q.bindings = {} /\ q.revokedTargets = {} /\ w.targets = {}
            BY <1>0, <1>3, <1>4, <2>1, <2>6 DEF RequestOK, KnowsRevoked
        <3> QED
            BY <3>1, <3>2 DEF KnowsRevoked
    <2>11. RequestOK(r, q, w, None, stored)
        BY <2>6, <2>8, <2>10, NoneIsNoRequest DEF RequestOK
    <2> QED
        BY <1>5, <1>6, <1>7, <2>5, <2>6, <2>7, <2>11, RequestStep, NoneIsNoRequest DEF Remains
<1>10. CASE ~Live(r)
    <2>1. requests' = [requests EXCEPT ![r] = p] /\ operation' = [operation EXCEPT ![r] = o]
        BY <1>1, <1>2, <1>10, OneRequest DEF RevokeProceeds
    <2>2. RequestOK(r, p, o, None, stored)
        BY <1>4, <1>8 DEF RequestOK, KnowsStored, KnowsCommit, KnowsRevoked, OnePerTarget
    <2> QED
        BY <1>5, <1>6, <1>7, <2>1, <2>2, RequestStep, NoneIsNoRequest DEF Remains
<1> QED
    BY <1>9, <1>10

(* What is cancelled is forgotten with all the bindings it knows of.       *)
LEMMA ForgetKeeps ==
    ASSUME GrantInv, OtherTypes', NEW r \in Requests, requests[r] # None, Forget(r),
           bindings' = Without(requests[r].bindingIds)
    PROVE  GrantInv'
<1>1. \A b \in Stored(r) : b.id \in requests[r].bindingIds
    BY OneRequest DEF RequestOK, KnowsStored
<1>2. bindings' \subseteq bindings /\ Stored(r)' = {}
    BY <1>1 DEF Without, Stored
<1>3. RequestOK(r, None, Idle, None, Stored(r)')
    BY <1>2 DEF RequestOK
<1>4. /\ \A s \in Requests \ {r} : Stored(s)' \subseteq Stored(s)
      /\ bindings' \subseteq GrantedBinding
    BY <1>2, StoredAfter DEF GrantInv, RequestTypes
<1>5. Idle \in Operation /\ None \in GrantRequest \cup {None} /\ None \in (SUBSET TargetIds) \cup {None}
    BY DEF Idle, Operation
<1>6. /\ requests' = [requests EXCEPT ![r] = None] /\ operation' = [operation EXCEPT ![r] = Idle]
      /\ revoking' = [revoking EXCEPT ![r] = None]
    BY DEF Forget
<1> QED
    BY <1>3, <1>4, <1>5, <1>6, RequestStep

LEMMA CancelAnswered ==
    ASSUME GrantInv, OtherTypes', NEW r \in Requests, CancelForgets(r) \/ CancelRemoves(r) \/ CancelFails(r),
           requests[r] # None
    PROVE  GrantInv'
<1>1. CASE CancelForgets(r)
    <2>1. bindings' = Without(requests[r].bindingIds)
        BY <1>1 DEF CancelForgets, Without
    <2> QED
        BY <1>1, <2>1, ForgetKeeps DEF CancelForgets
<1>2. CASE CancelRemoves(r)
    BY <1>2, ForgetKeeps DEF CancelRemoves
<1>3. CASE CancelFails(r)
    BY <1>3, OnlyBindings DEF CancelFails, Without
<1> QED
    BY <1>1, <1>2, <1>3

LEMMA MalformedKeeps ==
    ASSUME GrantInv, OtherTypes', NEW r \in Requests, CommitMalformed(r)
    PROVE  GrantInv' /\ Remains(r)
<1>0. requests[r] # None /\ ~requests[r].completing
    BY DEF CommitMalformed, ClaimHeld, Reconcilable, Live
<1>1. PICK p \in GrantRequest : p = requests[r]
    BY <1>0, OneRequest
<1>2. PICK o \in Operation : o = operation[r]
    BY OneRequest
<1>3. PICK v \in (SUBSET TargetIds) \cup {None} : v = revoking[r]
    BY OneRequest
<1>4. RequestOK(r, p, o, v, Stored(r)) /\ p # None
    BY <1>1, <1>2, <1>3, OneRequest, NoneIsNoRequest
<1>5. /\ operation' = [operation EXCEPT ![r] = Settled] /\ requests' = [requests EXCEPT ![r] = p]
      /\ revoking' = [revoking EXCEPT ![r] = v] /\ UNCHANGED bindings
    BY <1>1, <1>3, OneRequest DEF CommitMalformed
<1>6. Settled \in Operation
    BY DEF Settled, Operation
<1>7. /\ \A s \in Requests \ {r} : Stored(s)' \subseteq Stored(s)
      /\ bindings' \subseteq GrantedBinding /\ Stored(r)' \subseteq Stored(r)
    BY <1>5, StoredAfter DEF GrantInv, RequestTypes
<1>8. o.kind \in {"none", "settled"}
    BY <1>0, <1>1, <1>4 DEF RequestOK, OneAtATime
<1>9. RequestOK(r, p, Settled, v, Stored(r))
    BY <1>4, <1>8 DEF RequestOK, OneAtATime, KnowsStored, KnowsCommit, KnowsRevoked, Settled
<1>10. RequestOK(r, p, Settled, v, Stored(r)')
    BY <1>7, <1>9, FewerStored
<1> QED
    BY <1>5, <1>6, <1>7, <1>10, RequestStep, NoneIsNoRequest DEF Remains

LEMMA RevokeBindingsKeeps ==
    ASSUME GrantInv, OtherTypes', NEW r \in Requests, NEW ids \in SUBSET BindingIds, RevokeBindings(r, ids)
    PROVE  GrantInv' /\ Remains(r)
<1>1. PICK p \in GrantRequest : p = requests[r]
    BY OneRequest DEF RevokeBindings, Live
<1>2. PICK o \in Operation : o = operation[r]
    BY OneRequest
<1>3. PICK v \in (SUBSET TargetIds) \cup {None} : v = revoking[r]
    BY OneRequest
<1>4. RequestOK(r, p, o, v, Stored(r)) /\ p # None
    BY <1>1, <1>2, <1>3, OneRequest, NoneIsNoRequest
<1>5. PICK w : w = {b.target : b \in {b \in p.bindings : b.id \in ids}}
    OBVIOUS
<1>6. w \in (SUBSET TargetIds) \cup {None} /\ (p.bindings = {} => w = {})
    BY <1>5 DEF GrantRequest, GrantedBinding
<1>7. /\ operation' = [operation EXCEPT ![r] = o] /\ requests' = [requests EXCEPT ![r] = p]
      /\ revoking' = [revoking EXCEPT ![r] = w] /\ UNCHANGED bindings
    BY <1>1, <1>2, <1>5, OneRequest DEF RevokeBindings
<1>8. /\ \A s \in Requests \ {r} : Stored(s)' \subseteq Stored(s)
      /\ bindings' \subseteq GrantedBinding /\ Stored(r)' \subseteq Stored(r)
    BY <1>7, StoredAfter DEF GrantInv, RequestTypes
<1>9. RequestOK(r, p, o, w, Stored(r))
    <2>1. KnowsRevoked(p, o, w, Stored(r))
        BY <1>4, <1>6 DEF RequestOK, KnowsRevoked
    <2> QED
        BY <1>4, <2>1 DEF RequestOK
<1>10. RequestOK(r, p, o, w, Stored(r)')
    BY <1>8, <1>9, FewerStored
<1> QED
    BY <1>6, <1>7, <1>8, <1>10, RequestStep, NoneIsNoRequest DEF Remains

LEMMA DisposeKeeps ==
    ASSUME GrantInv, OtherTypes', Dispose
    PROVE  GrantInv'
<1>1. UNCHANGED <<bindings, operation, revoking>>
    BY DEF Dispose
<1>2. ASSUME NEW r \in Requests
      PROVE  /\ requests'[r] \in GrantRequest \cup {None}
             /\ RequestOK(r, requests'[r], operation[r], revoking[r], Stored(r))
    <2>1. CASE requests[r] = None
        BY <2>1, OneRequest DEF Dispose
    <2>2. CASE requests[r] # None
        <3>1. PICK p \in GrantRequest : p = requests[r]
            BY <2>2, OneRequest
        <3>2. PICK q : q = [p EXCEPT !.cancelled = TRUE]
            OBVIOUS
        <3>3. /\ q \in GrantRequest /\ q.completing = p.completing /\ q.claim = p.claim /\ q.state = p.state
              /\ q.cancelled /\ q.bindings = p.bindings
              /\ q.bindingIds = p.bindingIds /\ q.revokedTargets = p.revokedTargets
            BY <3>2 DEF GrantRequest
        <3>4. requests'[r] = q
            BY <2>2, <3>1, <3>2 DEF Dispose, Cancelled
        <3>5. RequestOK(r, q, operation[r], revoking[r], Stored(r))
            BY <2>2, <3>1, <3>3, OneRequest, NoneIsNoRequest
            DEF RequestOK, HasClaimant, OneAtATime, KnowsStored, KnowsCommit, KnowsRevoked
        <3> QED
            BY <3>3, <3>4, <3>5
    <2> QED
        BY <2>1, <2>2
<1>3. requests' = [r \in Requests |-> requests'[r]]
    BY DEF Dispose
<1>4. RequestTypes'
    BY <1>1, <1>2, <1>3 DEF GrantInv, RequestTypes
<1>5. ASSUME NEW r \in Requests PROVE RequestOK(r, requests'[r], operation'[r], revoking'[r], Stored(r)')
    BY <1>1, <1>2, StoredAfter, FewerStored
<1>6. \A r \in Requests : RequestOK(r, requests[r], operation[r], revoking[r], Stored(r))'
    BY <1>5 DEF RequestOK, HasClaimant, KnowsStored, KnowsCommit, KnowsRevoked, OneAtATime, OnePerTarget
<1> QED
    BY <1>4, <1>6 DEF GrantInv

-----------------------------------------------------------------------------
(* The invariant holds                                                     *)

(* A call of cancel that has not ended has its request.                    *)
CancelsKnown == \A r \in Requests : cancelling[r] # "no" => requests[r] # None

Inv == GrantInv /\ CancelsKnown

LEMMA StepKeepsInv ==
    ASSUME Inv, [Next]_vars PROVE Inv'
<1>1. OtherTypes'
    BY OtherTypesKept DEF Inv, GrantInv
<1>2. GrantInv
    BY DEF Inv
<1>3. ASSUME NEW r \in Requests,
             \A s \in Requests \ {r} : requests'[s] = requests[s] /\ cancelling'[s] = cancelling[s],
             Remains(r) \/ cancelling'[r] = "no"
      PROVE  CancelsKnown'
    BY <1>3 DEF Inv, CancelsKnown, Remains
<1>4. ASSUME NEW r \in Requests, NEW q, requests' = [requests EXCEPT ![r] = q],
             \/ UNCHANGED cancelling
             \/ \E x : cancelling' = [cancelling EXCEPT ![r] = x],
             Remains(r)
      PROVE  CancelsKnown'
    <2>1. \A s \in Requests \ {r} : requests'[s] = requests[s] /\ cancelling'[s] = cancelling[s]
        BY <1>4, <1>2 DEF GrantInv, RequestTypes, OtherTypes
    <2> QED
        BY <1>3, <1>4, <2>1
<1>5. ASSUME UNCHANGED <<requests, cancelling>> PROVE CancelsKnown'
    BY <1>5 DEF Inv, CancelsKnown
<1>6. CASE EnvironmentStep \/ UNCHANGED vars
    <2>1. UNCHANGED <<requests, operation, revoking, cancelling>> /\ bindings' \subseteq bindings
        BY <1>6 DEF EnvironmentStep, ProviderConnects, ProviderUnavailable, TargetChanges, SessionChanges, Tick, vars
    <2> QED
        BY <1>1, <1>2, <1>5, <2>1, OnlyBindings DEF Inv
<1>7. ASSUME NEW r \in Requests, HostStep(r) PROVE Inv'
    <2>1. ASSUME NEW requested \in Requested, NEW capabilities \in Capabilities, NEW expiresAt \in Deadlines,
                 NEW bindingExpiresAt \in Deadlines,
                 Request(r, requested, capabilities, expiresAt, bindingExpiresAt)
          PROVE  Inv'
        <3>1. GrantInv' /\ Remains(r)
            BY <1>1, <1>2, <2>1, RequestKeeps
        <3> QED
            BY <1>4, <2>1, <3>1 DEF Request, Inv
    <2>2. ASSUME NEW provider \in Provider, Claim(r, provider) PROVE Inv'
        <3>1. GrantInv' /\ Remains(r)
            BY <1>1, <1>2, <2>2, ClaimKeeps
        <3>2. \E q : requests' = [requests EXCEPT ![r] = q]
            BY <2>2 DEF Claim
        <3> QED
            BY <1>4, <2>2, <3>1, <3>2 DEF Claim, Inv
    <2>3. CASE ReleaseClaim(r)
        <3>1. GrantInv' /\ Remains(r)
            BY <1>1, <1>2, <2>3, ReleaseKeeps
        <3>2. \E q : requests' = [requests EXCEPT ![r] = q]
            BY <2>3 DEF ReleaseClaim
        <3> QED
            BY <1>4, <2>3, <3>1, <3>2 DEF ReleaseClaim, Inv
    <2>4. ASSUME NEW provider, NEW listed, Submit(r, provider, listed), UNCHANGED cancelling, GrantInv' /\ Remains(r)
          PROVE  Inv'
        <3>1. \E q : requests' = [requests EXCEPT ![r] = q]
            BY <2>4 DEF Submit
        <3> QED
            BY <1>4, <2>4, <3>1 DEF Inv
    <2>5. ASSUME NEW listed \in Listings, Complete(r, listed) PROVE Inv'
        BY <1>1, <1>2, <2>4, <2>5, CompleteKeeps DEF Complete
    <2>6. ASSUME NEW provider \in Provider, NEW listed \in Listings, Reconcile(r, provider, listed) PROVE Inv'
        BY <1>1, <1>2, <2>4, <2>6, ReconcileKeeps DEF Reconcile
    <2>7. CASE CommitMalformed(r)
        BY <1>1, <1>2, <1>5, <2>7, MalformedKeeps DEF CommitMalformed, Inv
    <2>8. ASSUME NEW ids \in SUBSET BindingIds, RevokeBindings(r, ids) PROVE Inv'
        BY <1>1, <1>2, <1>5, <2>8, RevokeBindingsKeeps DEF RevokeBindings, Inv
    <2>9. CASE Cancel(r)
        <3>1. GrantInv' /\ Remains(r)
            BY <1>1, <1>2, <2>9, CancelKeeps
        <3> QED
            BY <1>4, <2>9, <3>1 DEF Cancel, Inv
    <2> QED
        BY <1>7, <2>1, <2>2, <2>3, <2>5, <2>6, <2>7, <2>8, <2>9 DEF HostStep
<1>8. ASSUME NEW r \in Requests, Answered(r) PROVE Inv'
    <2>1. CASE CommitWritten(r)
        BY <1>1, <1>2, <1>5, <2>1, CommitWrittenKeeps DEF CommitWritten, Inv
    <2>2. CASE CommitUncertain(r)
        BY <1>1, <1>2, <1>5, <2>2, CommitUncertainKeeps DEF CommitUncertain, Inv
    <2>3. ASSUME NEW request, EndOperation(r, request), GrantInv' /\ Remains(r),
                 \/ UNCHANGED cancelling
                 \/ \E x : cancelling' = [cancelling EXCEPT ![r] = x]
          PROVE  Inv'
        BY <1>4, <2>3 DEF EndOperation, Inv
    <2>4. CASE CommitRefused(r)
        BY <1>1, <1>2, <2>3, <2>4, CommitRefusedKeeps DEF CommitRefused
    <2>5. CASE CommitSettles(r)
        BY <1>1, <1>2, <2>3, <2>5, CommitSettlesKeeps DEF CommitSettles
    <2>6. CASE CleanupWritten(r)
        BY <1>1, <1>2, <2>3, <2>6, CleanupWrittenKeeps DEF CleanupWritten
    <2>7. CASE CleanupFails(r)
        <3>1. \E x : cancelling' = [cancelling EXCEPT ![r] = x]
            BY <2>7 DEF CleanupFails
        <3> QED
            BY <1>1, <1>2, <2>3, <2>7, <3>1, CleanupFailsKeeps DEF CleanupFails
    <2>8. CASE RevokeWritten(r)
        BY <1>1, <1>2, <2>3, <2>8, RevokeWrittenKeeps DEF RevokeWritten
    <2>9. CASE RevokeFails(r)
        BY <1>1, <1>2, <2>3, <2>9, RevokeFailsKeeps DEF RevokeFails
    <2>10. CASE RevokeProceeds(r)
        <3>1. GrantInv' /\ Remains(r) /\ UNCHANGED cancelling
            BY <1>1, <1>2, <2>10, RevokeProceedsKeeps DEF RevokeProceeds
        <3>2. UNCHANGED requests \/ \E q : requests' = [requests EXCEPT ![r] = q]
            BY <2>10 DEF RevokeProceeds
        <3> QED
            BY <1>4, <1>5, <3>1, <3>2 DEF Inv
    <2>11. CASE CancelForgets(r) \/ CancelRemoves(r) \/ CancelFails(r)
        <3>1. requests[r] # None
            BY <2>11 DEF Inv, CancelsKnown, CancelForgets, CancelRemoves, CancelFails
        <3>2. GrantInv'
            BY <1>1, <1>2, <2>11, <3>1, CancelAnswered
        <3>3. CancelsKnown'
            <4>1. CASE Forget(r)
                BY <1>2, <1>3, <4>1 DEF Forget, GrantInv, RequestTypes, OtherTypes
            <4>2. CASE CancelFails(r)
                BY <1>2, <1>3, <3>1, <4>2 DEF CancelFails, GrantInv, OtherTypes, Remains
            <4> QED
                BY <2>11, <4>1, <4>2 DEF CancelForgets, CancelRemoves
        <3> QED
            BY <3>2, <3>3 DEF Inv
    <2> QED
        BY <1>8, <2>1, <2>2, <2>4, <2>5, <2>6, <2>7, <2>8, <2>9, <2>10, <2>11 DEF Answered
<1>9. ASSUME NEW r \in Requests, Expire(r) PROVE Inv'
    <2>1. HostStep(r)
        BY <1>9 DEF Expire, HostStep
    <2> QED
        BY <1>7, <2>1
<1>10. CASE Dispose
    <2>1. GrantInv'
        BY <1>1, <1>2, <1>10, DisposeKeeps
    <2>2. ASSUME NEW r \in Requests, cancelling'[r] # "no" PROVE requests'[r] # None
        <3>1. requests[r] # None
            BY <1>10, <2>2 DEF Dispose, Inv, CancelsKnown
        <3>2. Cancelled(requests[r]) \in GrantRequest
            BY <1>2, <3>1, OneRequest DEF Cancelled, GrantRequest
        <3> QED
            BY <1>10, <3>1, <3>2, NoneIsNoRequest DEF Dispose
    <2> QED
        BY <2>1, <2>2 DEF Inv, CancelsKnown
<1> QED
    BY <1>6, <1>7, <1>8, <1>9, <1>10 DEF Next

LEMMA Invariance == Spec => []Inv
<1>1. Init => Inv
    BY InitOK DEF Init, Inv, CancelsKnown
<1>2. Inv /\ [Next]_vars => Inv'
    BY StepKeepsInv
<1> QED
    BY <1>1, <1>2, PTL DEF Spec

-----------------------------------------------------------------------------
(* The theorems                                                            *)

(* What has been revoked for a request stays revoked: no commit that was   *)
(* under way when revokeBindings was called, and no reconciliation after   *)
(* it, binds the target again.                                             *)
THEOREM RevocationIsFinal == Spec => []RevokedStaysRevoked
<1>1. Inv => RevokedStaysRevoked
    <2> SUFFICES ASSUME Inv, NEW b \in bindings, requests[b.request] # None
                 PROVE  b.target \notin requests[b.request].revokedTargets
        BY DEF RevokedStaysRevoked
    <2>1. b.request \in Requests /\ b \in Stored(b.request)
        BY DEF Inv, GrantInv, RequestTypes, GrantedBinding, Stored
    <2> QED
        BY <2>1 DEF Inv, GrantInv, RequestOK, KnowsStored
<1> QED
    BY <1>1, Invariance, PTL

(* Each binding in the store is known to its request, which can therefore  *)
(* remove it: updates of the store with an unknown outcome included.       *)
THEOREM AuthorityIsRevocable == Spec => []AuthorityRevocable
<1>1. Inv => AuthorityRevocable
    <2> SUFFICES ASSUME Inv, NEW b \in bindings
                 PROVE  requests[b.request] # None /\ b.id \in requests[b.request].bindingIds
        BY DEF AuthorityRevocable
    <2>1. b.request \in Requests /\ b \in Stored(b.request)
        BY DEF Inv, GrantInv, RequestTypes, GrantedBinding, Stored
    <2> QED
        BY <2>1 DEF Inv, GrantInv, RequestOK, KnowsStored
<1> QED
    BY <1>1, Invariance, PTL

(* A request has one binding for each target at most, however often it is  *)
(* reconciled to another generation.                                       *)
THEOREM OneBindingEach == Spec => []OneBindingPerTarget
<1>1. Inv => OneBindingPerTarget
    <2> SUFFICES ASSUME Inv, NEW b \in bindings, NEW c \in bindings,
                        b.request = c.request, b.target = c.target
                 PROVE  b = c
        BY DEF OneBindingPerTarget
    <2>1. b.request \in Requests /\ b \in Stored(b.request) /\ c \in Stored(b.request)
        BY DEF Inv, GrantInv, RequestTypes, GrantedBinding, Stored
    <2> QED
        BY <2>1 DEF Inv, GrantInv, RequestOK, KnowsStored, OnePerTarget
<1> QED
    BY <1>1, Invariance, PTL

(* A commit that is written is still granted at that very moment: the      *)
(* request lives, the provider that claimed it is connected and ready, and *)
(* it publishes what is bound.                                             *)
THEOREM NothingStaleInstalled == Spec => NoStaleInstall
<1>1. ASSUME Inv, [Next]_vars, NEW b \in bindings' \ bindings
      PROVE  LET r == b.request
             IN  /\ ~disposed /\ session # "gone"
                 /\ Live(r) /\ ~Due(r)
                 /\ requests[r].claim.principal \in ready
                 /\ directory[b.target] # None
                 /\ directory[b.target].provider = requests[r].claim.principal
                 /\ directory[b.target].generation = b.generation
    <2>1. PICK r \in Requests : operation[r].kind = "commit" /\ StillGranted(r) /\ Write(r)
        <3>1. CASE EnvironmentStep \/ Dispose \/ UNCHANGED vars
            BY <1>1, <3>1 DEF EnvironmentStep, ProviderConnects, ProviderUnavailable, TargetChanges, SessionChanges,
                Tick, Dispose, vars
        <3>2. ASSUME NEW r \in Requests, HostStep(r) \/ Expire(r) PROVE FALSE
            BY <1>1, <3>2 DEF HostStep, Expire, Request, Claim, ReleaseClaim, Complete, Reconcile, CommitMalformed,
                RevokeBindings, Cancel
        <3>3. ASSUME NEW r \in Requests, Answered(r), ~(operation[r].kind = "commit" /\ StillGranted(r) /\ Write(r))
              PROVE  FALSE
            BY <1>1, <3>3 DEF Answered, CommitWritten, CommitRefused, CommitUncertain, CommitSettles, CleanupWritten,
                CleanupFails, RevokeProceeds, RevokeWritten, RevokeFails, CancelForgets, CancelRemoves, CancelFails, Without
        <3> QED
            BY <1>1, <3>1, <3>2, <3>3 DEF Next
    <2>2. b \in operation[r].bindings
        BY <1>1, <2>1 DEF Write
    <2>3. requests[r] # None
        BY <2>1 DEF StillGranted, Live
    <2>4. b.request = r /\ operation[r].provider.principal = requests[r].claim.principal
        BY <1>1, <2>1, <2>2, <2>3 DEF Inv, GrantInv, RequestOK, KnowsCommit
    <2> QED
        BY <2>1, <2>2, <2>4 DEF StillGranted, Available, Current, Grantable
<1>2. Inv /\ [Next]_vars =>
        [\A b \in bindings' \ bindings :
          LET r == b.request
          IN  /\ ~disposed /\ session # "gone"
              /\ Live(r) /\ ~Due(r)
              /\ requests[r].claim.principal \in ready
              /\ directory[b.target] # None
              /\ directory[b.target].provider = requests[r].claim.principal
              /\ directory[b.target].generation = b.generation]_vars
    BY <1>1
<1> QED
    BY <1>2, Invariance, PTL DEF Spec, NoStaleInstall

-----------------------------------------------------------------------------
(* The coordinator implements the ledger                                   *)

(* The identifiers a request may remove from the store                     *)
IdsOf(r) == IF requests[r] = None THEN {} ELSE requests[r].bindingIds

(* An identifier is known to one request only, for it names the commit     *)
(* that made it, and a request removes only identifiers it knows.          *)
Isolated ==
    /\ \A r \in Requests : \A id \in IdsOf(r) : id[1] =< commits
    /\ \A r, s \in Requests : r # s => IdsOf(r) \cap IdsOf(s) = {}
    /\ \A r \in Requests : operation[r].kind = "revoke" => operation[r].ids \subseteq IdsOf(r)

Elsewhere(r) == \A s \in Requests \ {r} : requests'[s] = requests[s] /\ operation'[s] = operation[s]

LEMMA OneChanges ==
    ASSUME GrantInv, NEW r \in Requests, HostStep(r) \/ Answered(r)
    PROVE  Elsewhere(r)
<1>1. ASSUME NEW q, requests' = [requests EXCEPT ![r] = q], UNCHANGED operation PROVE Elsewhere(r)
    BY <1>1 DEF Elsewhere, GrantInv, RequestTypes
<1>2. ASSUME NEW o, operation' = [operation EXCEPT ![r] = o], UNCHANGED requests PROVE Elsewhere(r)
    BY <1>2 DEF Elsewhere, GrantInv, RequestTypes
<1>3. ASSUME NEW q, requests' = [requests EXCEPT ![r] = q], NEW o, operation' = [operation EXCEPT ![r] = o]
      PROVE  Elsewhere(r)
    BY <1>3 DEF Elsewhere, GrantInv, RequestTypes
<1>4. ASSUME UNCHANGED <<requests, operation>> PROVE Elsewhere(r)
    BY <1>4 DEF Elsewhere
<1>5. CASE HostStep(r)
    <2>1. ASSUME NEW requested \in Requested, NEW capabilities \in Capabilities, NEW expiresAt \in Deadlines,
                 NEW bindingExpiresAt \in Deadlines,
                 Request(r, requested, capabilities, expiresAt, bindingExpiresAt)
          PROVE  Elsewhere(r)
        BY <1>1, <2>1 DEF Request
    <2>2. ASSUME NEW provider \in Provider, Claim(r, provider) PROVE Elsewhere(r)
        BY <1>1, <2>2 DEF Claim
    <2>3. CASE ReleaseClaim(r)
        BY <1>1, <2>3 DEF ReleaseClaim
    <2>4. ASSUME NEW listed \in Listings, Complete(r, listed) PROVE Elsewhere(r)
        BY <1>3, <2>4 DEF Complete, Submit
    <2>5. ASSUME NEW provider \in Provider, NEW listed \in Listings, Reconcile(r, provider, listed)
          PROVE  Elsewhere(r)
        BY <1>3, <2>5 DEF Reconcile, Submit
    <2>6. CASE CommitMalformed(r)
        BY <1>2, <2>6 DEF CommitMalformed
    <2>7. ASSUME NEW ids \in SUBSET BindingIds, RevokeBindings(r, ids) PROVE Elsewhere(r)
        BY <1>4, <2>7 DEF RevokeBindings
    <2>8. CASE Cancel(r)
        BY <1>1, <2>8 DEF Cancel
    <2> QED
        BY <1>5, <2>1, <2>2, <2>3, <2>4, <2>5, <2>6, <2>7, <2>8 DEF HostStep
<1>6. CASE Answered(r)
    <2>1. CASE CommitWritten(r) \/ CommitUncertain(r)
        BY <1>2, <2>1 DEF CommitWritten, CommitUncertain
    <2>2. CASE CommitRefused(r) \/ CommitSettles(r) \/ CleanupWritten(r) \/ CleanupFails(r)
        BY <1>3, <2>2 DEF CommitRefused, CommitSettles, CleanupWritten, CleanupFails, EndOperation
    <2>3. CASE RevokeWritten(r) \/ RevokeFails(r)
        BY <1>3, <2>3 DEF RevokeWritten, RevokeFails, EndOperation
    <2>4. CASE RevokeProceeds(r)
        BY <1>3, <1>4, <2>4 DEF RevokeProceeds
    <2>5. CASE CancelForgets(r) \/ CancelRemoves(r) \/ CancelFails(r)
        BY <1>3, <1>4, <2>5 DEF CancelForgets, CancelRemoves, CancelFails, Forget
    <2> QED
        BY <1>6, <2>1, <2>2, <2>3, <2>4, <2>5 DEF Answered
<1> QED
    BY <1>5, <1>6

(* Only a commit that is submitted adds identifiers, and they are new.     *)
Adds(r) ==
    /\ commits' = commits + 1
    /\ \A id \in IdsOf(r)' : id \in IdsOf(r) \/ id[1] = commits + 1
    /\ operation'[r].kind # "revoke"

Drops(r) ==
    /\ UNCHANGED commits
    /\ IdsOf(r)' \subseteq IdsOf(r)
    /\ operation'[r].kind = "revoke" => operation'[r].ids \subseteq IdsOf(r)'

LEMMA SubmitAdds ==
    ASSUME GrantInv, NEW r \in Requests, requests[r] # None, NEW provider, NEW listed, Submit(r, provider, listed)
    PROVE  Adds(r)
<1>1. PICK p \in GrantRequest : p = requests[r]
    BY OneRequest
<1>2. requests'[r] = [p EXCEPT !.completing = TRUE, !.bindingIds = @ \cup Ids(Committed(r, listed))]
    BY <1>1 DEF Submit, GrantInv, RequestTypes
<1>3. requests'[r].bindingIds = p.bindingIds \cup Ids(Committed(r, listed))
    BY <1>2 DEF GrantRequest
<1>4. \A b \in Kept(r, listed) : b.id \in p.bindingIds
    BY <1>1, OneRequest DEF Kept, RequestOK, KnowsStored
<1>5. \A b \in Fresh(r, listed) : b.id[1] = commits + 1
    BY DEF Fresh
<1>6. \A id \in requests'[r].bindingIds : id \in p.bindingIds \/ id[1] = commits + 1
    BY <1>3, <1>4, <1>5 DEF Ids, Committed
<1>7. operation'[r].kind = "commit" /\ commits' = commits + 1
    BY DEF Submit, GrantInv, RequestTypes
<1> QED
    BY <1>1, <1>6, <1>7 DEF Adds, IdsOf

LEMMA EndDrops ==
    ASSUME GrantInv, NEW r \in Requests, requests[r] # None, UNCHANGED commits,
           NEW q, EndOperation(r, q), q.bindingIds \subseteq requests[r].bindingIds,
           q \in GrantRequest
    PROVE  Drops(r)
<1>1. requests'[r] = [q EXCEPT !.completing = FALSE] /\ operation'[r] = Idle
    BY DEF EndOperation, GrantInv, RequestTypes
<1>2. requests'[r].bindingIds = q.bindingIds
    BY <1>1 DEF GrantRequest
<1> QED
    BY <1>1, <1>2 DEF Drops, IdsOf, Idle

LEMMA HostIdentifiers ==
    ASSUME Inv, Isolated, NEW r \in Requests, HostStep(r)
    PROVE  Adds(r) \/ Drops(r)
<1> USE DEF Drops, IdsOf
<1>1. GrantInv /\ (operation[r].kind = "revoke" => operation[r].ids \subseteq IdsOf(r))
    BY DEF Inv, Isolated
<1>2. ASSUME NEW requested \in Requested, NEW capabilities \in Capabilities, NEW expiresAt \in Deadlines,
             NEW bindingExpiresAt \in Deadlines, Request(r, requested, capabilities, expiresAt, bindingExpiresAt)
      PROVE  Drops(r)
    <2>1. operation[r].kind # "revoke"
        BY <1>1, <1>2, OneRequest DEF Request, RequestOK, Idle
    <2>2. requests'[r].bindingIds = {} /\ UNCHANGED <<operation, commits>>
        BY <1>1, <1>2 DEF Request, GrantInv, RequestTypes
    <2> QED
        BY <2>1, <2>2
<1>3. ASSUME NEW q, requests' = [requests EXCEPT ![r] = q], requests[r] # None, q # None,
             q.bindingIds = requests[r].bindingIds, UNCHANGED <<operation, commits>>
      PROVE  Drops(r)
    <2>1. requests'[r] = q
        BY <1>1, <1>3 DEF GrantInv, RequestTypes
    <2> QED
        BY <1>1, <1>3, <2>1
<1>4. ASSUME requests[r] # None, NEW q \in GrantRequest, q.bindingIds = requests[r].bindingIds,
             requests' = [requests EXCEPT ![r] = q], UNCHANGED <<operation, commits>>
      PROVE  Drops(r)
    BY <1>3, <1>4, NoneIsNoRequest
<1>5. ASSUME NEW provider \in Provider, Claim(r, provider) PROVE Drops(r)
    <2>1. PICK p \in GrantRequest : p = requests[r] /\ p # None
        BY <1>1, <1>5, OneRequest DEF Claim, Live
    <2>2. PICK q : q = [p EXCEPT !.claim = provider, !.state = "claimed"]
        OBVIOUS
    <2>3. q \in GrantRequest /\ q.bindingIds = p.bindingIds
        BY <2>2 DEF GrantRequest
    <2>4. requests' = [requests EXCEPT ![r] = q]
        BY <1>1, <1>5, <2>1, <2>2 DEF Claim, GrantInv, RequestTypes
    <2> QED
        BY <1>4, <1>5, <2>1, <2>3, <2>4 DEF Claim
<1>6. ASSUME ReleaseClaim(r) PROVE Drops(r)
    <2>1. PICK p \in GrantRequest : p = requests[r] /\ p # None
        BY <1>1, <1>6, OneRequest DEF ReleaseClaim, ClaimHeld, Live
    <2>2. PICK q : q = [p EXCEPT !.claim = None, !.state = "pending"]
        OBVIOUS
    <2>3. q \in GrantRequest /\ q.bindingIds = p.bindingIds
        BY <2>2 DEF GrantRequest
    <2>4. requests' = [requests EXCEPT ![r] = q]
        BY <1>1, <1>6, <2>1, <2>2 DEF ReleaseClaim, GrantInv, RequestTypes
    <2> QED
        BY <1>4, <1>6, <2>1, <2>3, <2>4 DEF ReleaseClaim
<1>7. ASSUME Cancel(r) PROVE Drops(r)
    <2>1. PICK p \in GrantRequest : p = requests[r] /\ p # None
        BY <1>1, <1>7, OneRequest DEF Cancel
    <2>2. PICK q : q = [p EXCEPT !.cancelled = TRUE]
        OBVIOUS
    <2>3. q \in GrantRequest /\ q.bindingIds = p.bindingIds
        BY <2>2 DEF GrantRequest
    <2>4. requests' = [requests EXCEPT ![r] = q]
        BY <1>1, <1>7, <2>1, <2>2 DEF Cancel, Cancelled, GrantInv, RequestTypes
    <2> QED
        BY <1>4, <1>7, <2>1, <2>3, <2>4 DEF Cancel
<1>8. ASSUME NEW listed \in Listings, Complete(r, listed) PROVE Adds(r)
    BY <1>1, <1>8, SubmitAdds DEF Complete, ClaimHeld, Live
<1>9. ASSUME NEW provider \in Provider, NEW listed \in Listings, Reconcile(r, provider, listed) PROVE Adds(r)
    BY <1>1, <1>9, SubmitAdds DEF Reconcile, Reconcilable, Live
<1>10. ASSUME CommitMalformed(r) PROVE Drops(r)
    <2>1. operation'[r].kind # "revoke" /\ UNCHANGED <<requests, commits>>
        BY <1>1, <1>10 DEF CommitMalformed, Settled, GrantInv, RequestTypes
    <2> QED
        BY <2>1
<1>11. ASSUME NEW ids \in SUBSET BindingIds, RevokeBindings(r, ids) PROVE Drops(r)
    BY <1>1, <1>11 DEF RevokeBindings
<1> QED
    BY <1>2, <1>5, <1>6, <1>7, <1>8, <1>9, <1>10, <1>11 DEF HostStep

LEMMA AnsweredIdentifiers ==
    ASSUME Inv, Isolated, NEW r \in Requests, Answered(r)
    PROVE  Drops(r)
<1>1. GrantInv /\ (operation[r].kind = "revoke" => operation[r].ids \subseteq IdsOf(r))
    BY DEF Inv, Isolated
<1>2. ASSUME requests[r] = None PROVE Drops(r)
    <2>1. operation[r] = Idle /\ revoking[r] = None /\ cancelling[r] = "no"
        BY <1>1, <1>2, OneRequest DEF RequestOK, Inv, CancelsKnown, GrantInv, OtherTypes
    <2> QED
        BY <1>2, <2>1 DEF Answered, CommitWritten, CommitRefused, CommitUncertain, CommitSettles, CleanupWritten,
            CleanupFails, RevokeProceeds, RevokeWritten, RevokeFails, CancelForgets, CancelRemoves, CancelFails, Idle
<1>3. ASSUME requests[r] # None PROVE Drops(r)
    <2>1. PICK p \in GrantRequest : p = requests[r]
        BY <1>1, <1>3, OneRequest
    <2>2. CASE CommitWritten(r) \/ CommitUncertain(r)
        <3>1. operation'[r].kind # "revoke" /\ UNCHANGED <<requests, commits>>
            BY <1>1, <2>2, OneRequest, OperationIs
            DEF CommitWritten, CommitUncertain, GrantInv, RequestTypes
        <3> QED
            BY <3>1 DEF Drops, IdsOf
    <2>3. CASE CommitRefused(r)
        BY <1>1, <1>3, <2>1, <2>3, EndDrops DEF CommitRefused
    <2>4. CASE CommitSettles(r)
        <3>1. Ids(operation[r].bindings) \subseteq p.bindingIds
            BY <1>1, <1>3, <2>1, <2>4, OneRequest DEF CommitSettles, RequestOK, KnowsCommit, Ids
        <3>2. operation[r].bindings \subseteq GrantedBinding
            BY <1>1, <2>4, OneRequest, OperationIs DEF CommitSettles
        <3>3. p.bindingIds \subseteq BindingIds
            BY DEF GrantRequest
        <3>4. PICK q : q = [p EXCEPT !.state = "granted", !.bindings = operation[r].bindings,
                                     !.bindingIds = Ids(operation[r].bindings)]
            OBVIOUS
        <3>5. q \in GrantRequest /\ q.bindingIds = Ids(operation[r].bindings)
            BY <3>1, <3>2, <3>3, <3>4 DEF GrantRequest
        <3>6. EndOperation(r, q) \/ EndOperation(r, p)
            BY <2>1, <2>4, <3>4 DEF CommitSettles
        <3> QED
            BY <1>1, <1>3, <2>1, <2>4, <3>1, <3>5, <3>6, EndDrops DEF CommitSettles
    <2>5. CASE CleanupWritten(r)
        <3>1. PICK q : q = [p EXCEPT !.bindings = {}, !.bindingIds = {}]
            OBVIOUS
        <3>2. q \in GrantRequest /\ q.bindingIds = {}
            BY <3>1 DEF GrantRequest
        <3>3. EndOperation(r, q) /\ UNCHANGED commits
            BY <2>1, <2>5, <3>1 DEF CleanupWritten
        <3> QED
            BY <1>1, <1>3, <3>2, <3>3, EndDrops
    <2>6. CASE CleanupFails(r)
        <3>1. PICK q : q = [p EXCEPT !.cancelled = TRUE]
            OBVIOUS
        <3>2. q \in GrantRequest /\ q.bindingIds = p.bindingIds
            BY <3>1 DEF GrantRequest
        <3>3. EndOperation(r, q) /\ UNCHANGED commits
            BY <2>1, <2>6, <3>1 DEF CleanupFails
        <3> QED
            BY <1>1, <1>3, <2>1, <3>2, <3>3, EndDrops
    <2>7. CASE RevokeProceeds(r)
        <3>1. CASE Live(r)
            <4>1. PICK bs : bs = {b \in p.bindings : b.target \in revoking[r]}
                OBVIOUS
            <4>2. operation'[r] = [kind |-> "revoke", targets |-> revoking[r], ids |-> Ids(bs)]
                BY <1>1, <2>1, <2>7, <3>1, <4>1 DEF RevokeProceeds, GrantInv, RequestTypes
            <4>3. requests'[r] = [p EXCEPT !.completing = TRUE]
                BY <1>1, <2>1, <2>7, <3>1 DEF RevokeProceeds, GrantInv, RequestTypes
            <4>4. requests'[r] \in GrantRequest /\ requests'[r].bindingIds = p.bindingIds
                BY <4>3 DEF GrantRequest
            <4>5. Ids(bs) \subseteq p.bindingIds
                BY <1>1, <1>3, <2>1, <4>1, OneRequest DEF RequestOK, KnowsStored, Ids
            <4> QED
                BY <1>3, <2>1, <2>7, <4>2, <4>4, <4>5, NoneIsNoRequest DEF Drops, IdsOf, RevokeProceeds
        <3>2. CASE ~Live(r)
            BY <1>1, <2>7, <3>2 DEF RevokeProceeds, Drops, IdsOf
        <3> QED
            BY <3>1, <3>2
    <2>8. CASE RevokeWritten(r)
        <3>1. operation[r].targets \subseteq TargetIds
            BY <1>1, <2>8, OneRequest, OperationIs DEF RevokeWritten
        <3>2. PICK q : q = [p EXCEPT !.revokedTargets = @ \cup operation[r].targets,
                                     !.bindings = {b \in @ : b.id \notin operation[r].ids},
                                     !.bindingIds = @ \ operation[r].ids]
            OBVIOUS
        <3>3. q \in GrantRequest /\ q.bindingIds \subseteq p.bindingIds
            BY <3>1, <3>2 DEF GrantRequest
        <3>4. EndOperation(r, q) /\ UNCHANGED commits
            BY <2>1, <2>8, <3>2 DEF RevokeWritten
        <3> QED
            BY <1>1, <1>3, <2>1, <3>3, <3>4, EndDrops
    <2>9. CASE RevokeFails(r)
        BY <1>1, <1>3, <2>1, <2>9, EndDrops DEF RevokeFails
    <2>10. CASE CancelForgets(r) \/ CancelRemoves(r)
        <3>1. requests'[r] = None /\ operation'[r] = Idle /\ UNCHANGED commits
            BY <1>1, <2>10 DEF CancelForgets, CancelRemoves, Forget, GrantInv, RequestTypes
        <3> QED
            BY <3>1 DEF Drops, IdsOf, Idle
    <2>11. CASE CancelFails(r)
        BY <1>1, <2>11 DEF CancelFails, Drops, IdsOf
    <2> QED
        BY <1>3, <2>2, <2>3, <2>4, <2>5, <2>6, <2>7, <2>8, <2>9, <2>10, <2>11 DEF Answered
<1> QED
    BY <1>2, <1>3

LEMMA StepKeepsIsolated ==
    ASSUME Inv, Isolated, [Next]_vars
    PROVE  Isolated'
<1>1. GrantInv /\ commits \in Nat
    BY BoundsAssumption DEF Inv, GrantInv, OtherTypes
<1>2. \A r \in Requests : IdsOf(r) \subseteq BindingIds
    BY <1>1, OneRequest DEF IdsOf, GrantRequest
<1>3. \A id \in BindingIds : id[1] \in Nat
    BY BoundsAssumption DEF BindingIds
<1>4. ASSUME UNCHANGED <<operation, commits>>, \A r \in Requests : IdsOf(r)' = IdsOf(r)
      PROVE  Isolated'
    BY <1>4 DEF Isolated
<1>5. ASSUME NEW r \in Requests, Elsewhere(r), Adds(r) \/ Drops(r)
      PROVE  Isolated'
    <2>1. \A s \in Requests \ {r} : IdsOf(s)' = IdsOf(s) /\ operation'[s] = operation[s]
        BY <1>5 DEF Elsewhere, IdsOf
    <2>2. ASSUME NEW s \in Requests, NEW id \in IdsOf(s)'
          PROVE  /\ id[1] =< commits'
                 /\ id \in IdsOf(s) \/ (s = r /\ id[1] = commits + 1)
        <3>1. id \in IdsOf(s) \/ (s = r /\ Adds(r) /\ id[1] = commits + 1)
            BY <1>5, <2>1, <2>2 DEF Adds, Drops
        <3>2. commits' = commits \/ commits' = commits + 1
            BY <1>5 DEF Adds, Drops
        <3>3. id \in IdsOf(s) => id[1] \in Nat /\ id[1] =< commits
            BY <1>2, <1>3 DEF Isolated
        <3> QED
            BY <1>1, <3>1, <3>2, <3>3 DEF Adds
    <2>3. ASSUME NEW s \in Requests, NEW u \in Requests, s # u
          PROVE  IdsOf(s)' \cap IdsOf(u)' = {}
        <3> SUFFICES ASSUME NEW id \in IdsOf(s)', id \in IdsOf(u)' PROVE FALSE
            OBVIOUS
        <3>1. ~(id \in IdsOf(s) /\ id \in IdsOf(u))
            BY <2>3 DEF Isolated
        <3>2. \A v \in Requests : id \in IdsOf(v) => id[1] \in Nat /\ id[1] =< commits
            BY <1>2, <1>3 DEF Isolated
        <3> QED
            BY <1>1, <2>2, <2>3, <3>1, <3>2
    <2>4. ASSUME NEW s \in Requests, operation'[s].kind = "revoke" PROVE operation'[s].ids \subseteq IdsOf(s)'
        BY <1>5, <2>1, <2>4 DEF Adds, Drops, Isolated
    <2> QED
        BY <2>2, <2>3, <2>4 DEF Isolated
<1>6. CASE EnvironmentStep \/ UNCHANGED vars
    <2>1. UNCHANGED <<requests, operation, commits>>
        BY <1>6 DEF EnvironmentStep, ProviderConnects, ProviderUnavailable, TargetChanges, SessionChanges, Tick, vars
    <2> QED
        BY <1>4, <2>1 DEF IdsOf
<1>7. ASSUME NEW r \in Requests, HostStep(r) \/ Answered(r) PROVE Isolated'
    BY <1>1, <1>5, <1>7, OneChanges, HostIdentifiers, AnsweredIdentifiers
<1>8. ASSUME NEW r \in Requests, Expire(r) PROVE Isolated'
    BY <1>7, <1>8 DEF Expire, HostStep
<1>9. CASE Dispose
    <2>1. ASSUME NEW r \in Requests PROVE IdsOf(r)' = IdsOf(r)
        <3>1. CASE requests[r] = None
            BY <1>9, <3>1 DEF Dispose, IdsOf
        <3>2. CASE requests[r] # None
            <4>1. PICK p \in GrantRequest : p = requests[r]
                BY <1>1, <3>2, OneRequest
            <4>2. requests'[r] = [p EXCEPT !.cancelled = TRUE]
                BY <1>9, <3>2, <4>1 DEF Dispose, Cancelled
            <4>3. requests'[r] \in GrantRequest /\ requests'[r].bindingIds = p.bindingIds
                BY <4>2 DEF GrantRequest
            <4> QED
                BY <3>2, <4>1, <4>3, NoneIsNoRequest DEF IdsOf
        <3> QED
            BY <3>1, <3>2
    <2> QED
        BY <1>4, <1>9, <2>1 DEF Dispose
<1> QED
    BY <1>6, <1>7, <1>8, <1>9 DEF Next

(* The steps of the ledger                                                 *)

LostBy(r) == IF requests[r] = None THEN {} ELSE requests[r].revokedTargets

(* Removing identifiers of one request takes nothing of another one away,  *)
(* and what a commit writes is all for its own request.                    *)
LEMMA OthersUntouched ==
    ASSUME Inv, Isolated, NEW r \in Requests, NEW ids, ids \subseteq IdsOf(r),
           NEW new, \A b \in new : b.request = r,
           bindings' = Without(ids) \cup new
    PROVE  Ledger!OthersKeepTheirs(r)
<1>1. ASSUME NEW b \in bindings, b.request # r PROVE b.id \notin ids
    <2>1. b.request \in Requests /\ b \in Stored(b.request)
        BY DEF Inv, GrantInv, RequestTypes, GrantedBinding, Stored
    <2>2. b.id \in IdsOf(b.request)
        BY <2>1 DEF Inv, GrantInv, RequestOK, KnowsStored, IdsOf
    <2> QED
        BY <1>1, <2>1, <2>2 DEF Isolated
<1> QED
    BY <1>1 DEF Ledger!OthersKeepTheirs, Without

LEMMA NothingTouched ==
    ASSUME NEW r, UNCHANGED bindings
    PROVE  Ledger!OthersKeepTheirs(r)
BY DEF Ledger!OthersKeepTheirs

(* What the invariant says of the store after a step is what the ledger    *)
(* asks of the bindings of a request.                                      *)
LEMMA ProperAfter ==
    ASSUME GrantInv', NEW r \in Requests, requests'[r] # None
    PROVE  Ledger!Proper({b \in bindings' : b.request = r}, requests'[r].revokedTargets)
<1>1. Stored(r)' = {b \in bindings' : b.request = r}
    BY DEF Stored
<1>2. RequestOK(r, requests[r], operation[r], revoking[r], Stored(r))'
    BY DEF GrantInv
<1>3. \A b \in Stored(r)' : b.target \notin requests'[r].revokedTargets
    BY <1>2 DEF RequestOK, KnowsStored
<1>4. \A b, c \in Stored(r)' : b.target = c.target => b = c
    BY <1>2 DEF RequestOK, KnowsStored, OnePerTarget
<1> QED
    BY <1>1, <1>3, <1>4 DEF Ledger!Proper

KnownAndBarredStay == \A s \in Requests : (requests'[s] = None <=> requests[s] = None) /\ LostBy(s)' = LostBy(s)

LEMMA KeptMapped ==
    ASSUME KnownAndBarredStay
    PROVE  /\ {s \in Requests : requests'[s] # None} = {s \in Requests : requests[s] # None}
           /\ Lost' = Lost
BY DEF KnownAndBarredStay, Lost, LostBy

LEMMA SettlesLedger ==
    ASSUME GrantInv', NEW r \in Requests, requests[r] # None, KnownAndBarredStay, Ledger!OthersKeepTheirs(r)
    PROVE  Ledger!Next
<1>1. requests'[r] # None /\ requests'[r].revokedTargets = Lost[r]
    BY DEF KnownAndBarredStay, LostBy, Lost
<1>2. Ledger!Proper({b \in bindings' : b.request = r}, Lost[r])
    BY <1>1, ProperAfter
<1>3. Ledger!Settle(r)
    BY <1>2, KeptMapped DEF Ledger!Settle
<1> QED
    BY <1>3 DEF Ledger!Next

(* What ends an operation without revoking anything                        *)
LEMMA EndKeepsBarred ==
    ASSUME GrantInv, NEW r \in Requests, requests[r] # None, NEW q \in GrantRequest, EndOperation(r, q),
           q.revokedTargets = requests[r].revokedTargets
    PROVE  KnownAndBarredStay
<1>1. requests'[r] = [q EXCEPT !.completing = FALSE]
    BY DEF EndOperation, GrantInv, RequestTypes
<1>2. requests'[r] \in GrantRequest /\ requests'[r].revokedTargets = q.revokedTargets
    BY <1>1 DEF GrantRequest
<1>3. \A s \in Requests \ {r} : requests'[s] = requests[s]
    BY DEF EndOperation, GrantInv, RequestTypes
<1> QED
    BY <1>2, <1>3, NoneIsNoRequest DEF KnownAndBarredStay, LostBy

LEMMA RecordKeepsBarred ==
    ASSUME GrantInv, NEW r \in Requests, requests[r] # None, NEW q \in GrantRequest,
           requests' = [requests EXCEPT ![r] = q], q.revokedTargets = requests[r].revokedTargets
    PROVE  KnownAndBarredStay
<1>1. requests'[r] = q /\ \A s \in Requests \ {r} : requests'[s] = requests[s]
    BY DEF GrantInv, RequestTypes
<1> QED
    BY <1>1, NoneIsNoRequest DEF KnownAndBarredStay, LostBy

Unseen == KnownAndBarredStay /\ UNCHANGED bindings

LEMMA UnseenStutters ==
    ASSUME Unseen PROVE UNCHANGED Ledger!ledgerVars
BY KeptMapped DEF Unseen, Ledger!ledgerVars

LEMMA HostRefines ==
    ASSUME Inv, Inv', NEW r \in Requests, HostStep(r)
    PROVE  [Ledger!Next]_(Ledger!ledgerVars)
<1>1. GrantInv
    BY DEF Inv
<1>2. ASSUME NEW requested \in Requested, NEW capabilities \in Capabilities, NEW expiresAt \in Deadlines,
             NEW bindingExpiresAt \in Deadlines, Request(r, requested, capabilities, expiresAt, bindingExpiresAt)
      PROVE  Ledger!Next
    <2>1. requests[r] = None /\ requests'[r].revokedTargets = {} /\ UNCHANGED bindings
          /\ \A s \in Requests \ {r} : requests'[s] = requests[s]
        BY <1>1, <1>2 DEF Request, GrantInv, RequestTypes
    <2>2. requests'[r] # None
        BY <1>1, <1>2, RequestKeeps, OtherTypesKept DEF Remains, Inv, GrantInv
    <2>3. {s \in Requests : requests'[s] # None} = {s \in Requests : requests[s] # None} \cup {r}
        BY <2>1, <2>2
    <2>4. Lost' = Lost
        BY <2>1, <2>2 DEF Lost
    <2>5. Ledger!Open(r)
        BY <2>1, <2>3, <2>4 DEF Ledger!Open
    <2> QED
        BY <2>5 DEF Ledger!Next
<1>3. ASSUME NEW provider \in Provider, Claim(r, provider) PROVE Unseen
    <2>1. PICK p \in GrantRequest : p = requests[r] /\ p # None
        BY <1>1, <1>3, OneRequest DEF Claim, Live
    <2>2. PICK q : q = [p EXCEPT !.claim = provider, !.state = "claimed"]
        OBVIOUS
    <2>3. q \in GrantRequest /\ q.revokedTargets = p.revokedTargets
        BY <2>2 DEF GrantRequest
    <2>4. requests' = [requests EXCEPT ![r] = q]
        BY <1>1, <1>3, <2>1, <2>2 DEF Claim, GrantInv, RequestTypes
    <2> QED
        BY <1>1, <1>3, <2>1, <2>3, <2>4, RecordKeepsBarred DEF Claim, Unseen
<1>4. ASSUME ReleaseClaim(r) PROVE Unseen
    <2>1. PICK p \in GrantRequest : p = requests[r] /\ p # None
        BY <1>1, <1>4, OneRequest DEF ReleaseClaim, ClaimHeld, Live
    <2>2. PICK q : q = [p EXCEPT !.claim = None, !.state = "pending"]
        OBVIOUS
    <2>3. q \in GrantRequest /\ q.revokedTargets = p.revokedTargets
        BY <2>2 DEF GrantRequest
    <2>4. requests' = [requests EXCEPT ![r] = q]
        BY <1>1, <1>4, <2>1, <2>2 DEF ReleaseClaim, GrantInv, RequestTypes
    <2> QED
        BY <1>1, <1>4, <2>1, <2>3, <2>4, RecordKeepsBarred DEF ReleaseClaim, Unseen
<1>5. ASSUME Cancel(r) PROVE Unseen
    <2>1. PICK p \in GrantRequest : p = requests[r] /\ p # None
        BY <1>1, <1>5, OneRequest DEF Cancel
    <2>2. PICK q : q = [p EXCEPT !.cancelled = TRUE]
        OBVIOUS
    <2>3. q \in GrantRequest /\ q.revokedTargets = p.revokedTargets
        BY <2>2 DEF GrantRequest
    <2>4. requests' = [requests EXCEPT ![r] = q]
        BY <1>1, <1>5, <2>1, <2>2 DEF Cancel, Cancelled, GrantInv, RequestTypes
    <2> QED
        BY <1>1, <1>5, <2>1, <2>3, <2>4, RecordKeepsBarred DEF Cancel, Unseen
<1>6. ASSUME NEW provider, NEW listed, Submit(r, provider, listed), requests[r] # None, UNCHANGED bindings, Remains(r)
      PROVE  Unseen
    <2>1. PICK p \in GrantRequest : p = requests[r]
        BY <1>1, <1>6, OneRequest
    <2>2. PICK bs : bs = Ids(Committed(r, listed))
        OBVIOUS
    <2>3. requests'[r] = [p EXCEPT !.completing = TRUE, !.bindingIds = @ \cup bs]
        BY <1>1, <1>6, <2>1, <2>2 DEF Submit, GrantInv, RequestTypes
    <2>4. requests'[r].revokedTargets = p.revokedTargets
        BY <2>3 DEF GrantRequest
    <2>5. \A s \in Requests \ {r} : requests'[s] = requests[s]
        BY <1>1, <1>6 DEF Submit, GrantInv, RequestTypes
    <2> QED
        BY <1>6, <2>1, <2>4, <2>5 DEF Unseen, KnownAndBarredStay, LostBy, Remains
<1>7. ASSUME NEW listed \in Listings, Complete(r, listed) PROVE Unseen
    <2>1. Remains(r)
        BY <1>1, <1>7, CompleteKeeps, OtherTypesKept DEF Inv, GrantInv
    <2> QED
        BY <1>6, <1>7, <2>1 DEF Complete, ClaimHeld, Live
<1>8. ASSUME NEW provider \in Provider, NEW listed \in Listings, Reconcile(r, provider, listed) PROVE Unseen
    <2>1. Remains(r)
        BY <1>1, <1>8, ReconcileKeeps, OtherTypesKept DEF Inv, GrantInv
    <2> QED
        BY <1>6, <1>8, <2>1 DEF Reconcile, Reconcilable, Live
<1>9. ASSUME UNCHANGED <<requests, bindings>> PROVE Unseen
    BY <1>9 DEF Unseen, KnownAndBarredStay, LostBy
<1>10. ASSUME CommitMalformed(r) PROVE Unseen
    BY <1>9, <1>10 DEF CommitMalformed
<1>11. ASSUME NEW ids \in SUBSET BindingIds, RevokeBindings(r, ids) PROVE Unseen
    BY <1>9, <1>11 DEF RevokeBindings
<1> QED
    BY <1>2, <1>3, <1>4, <1>5, <1>7, <1>8, <1>10, <1>11, UnseenStutters DEF HostStep

LEMMA AnsweredRefines ==
    ASSUME Inv, Isolated, Inv', NEW r \in Requests, Answered(r)
    PROVE  [Ledger!Next]_(Ledger!ledgerVars)
<1>1. GrantInv /\ GrantInv' /\ (operation[r].kind = "revoke" => operation[r].ids \subseteq IdsOf(r))
    BY DEF Inv, Isolated
<1>2. requests[r] # None
    <2> SUFFICES ASSUME requests[r] = None PROVE FALSE
        OBVIOUS
    <2>1. operation[r] = Idle /\ revoking[r] = None /\ cancelling[r] = "no"
        BY <1>1, OneRequest DEF RequestOK, Inv, CancelsKnown, GrantInv, OtherTypes
    <2> QED
        BY <2>1 DEF Answered, CommitWritten, CommitRefused, CommitUncertain, CommitSettles, CleanupWritten,
            CleanupFails, RevokeProceeds, RevokeWritten, RevokeFails, CancelForgets, CancelRemoves, CancelFails, Idle
<1>3. PICK p \in GrantRequest : p = requests[r]
    BY <1>1, <1>2, OneRequest
<1>4. ASSUME UNCHANGED requests PROVE KnownAndBarredStay
    BY <1>4 DEF KnownAndBarredStay, LostBy
<1>5. IdsOf(r) = p.bindingIds
    BY <1>2, <1>3 DEF IdsOf
<1>6. ASSUME NEW ids, ids \subseteq IdsOf(r), bindings' = Without(ids) PROVE Ledger!OthersKeepTheirs(r)
    <2>1. PICK none : none = {}
        OBVIOUS
    <2>2. bindings' = Without(ids) \cup none /\ \A b \in none : b.request = r
        BY <1>6, <2>1
    <2> QED
        BY <1>6, <2>2, OthersUntouched
<1>7. ASSUME operation[r].kind = "commit", Write(r) PROVE Ledger!OthersKeepTheirs(r)
    <2>1. \A b \in operation[r].bindings : b.request = r
        BY <1>1, <1>2, <1>7, OneRequest DEF RequestOK, KnowsCommit
    <2>2. bindings' = Without(IdsOf(r)) \cup operation[r].bindings
        BY <1>3, <1>5, <1>7 DEF Write, Without
    <2> QED
        BY <2>1, <2>2, OthersUntouched
<1>8. CASE CommitWritten(r) \/ CommitUncertain(r)
    <2>1. UNCHANGED requests /\ Ledger!OthersKeepTheirs(r)
        BY <1>7, <1>8, NothingTouched DEF CommitWritten, CommitUncertain
    <2> QED
        BY <1>1, <1>2, <1>4, <2>1, SettlesLedger
<1>9. CASE CommitRefused(r)
    <2>1. KnownAndBarredStay /\ UNCHANGED bindings
        BY <1>1, <1>2, <1>3, <1>9, EndKeepsBarred DEF CommitRefused
    <2> QED
        BY <2>1, UnseenStutters DEF Unseen
<1>10. CASE CommitSettles(r)
    <2>1. Ids(operation[r].bindings) \subseteq BindingIds /\ operation[r].bindings \subseteq GrantedBinding
        BY <1>1, <1>10, OneRequest, OperationIs DEF CommitSettles, Ids, GrantedBinding
    <2>2. PICK q : q = [p EXCEPT !.state = "granted", !.bindings = operation[r].bindings,
                                 !.bindingIds = Ids(operation[r].bindings)]
        OBVIOUS
    <2>3. q \in GrantRequest /\ q.revokedTargets = p.revokedTargets
        BY <2>1, <2>2 DEF GrantRequest
    <2>4. (EndOperation(r, q) \/ EndOperation(r, p)) /\ UNCHANGED bindings
        BY <1>3, <1>10, <2>2 DEF CommitSettles
    <2>5. KnownAndBarredStay
        BY <1>1, <1>2, <1>3, <2>3, <2>4, EndKeepsBarred
    <2> QED
        BY <2>4, <2>5, UnseenStutters DEF Unseen
<1>11. CASE CleanupWritten(r)
    <2>1. PICK q : q = [p EXCEPT !.bindings = {}, !.bindingIds = {}]
        OBVIOUS
    <2>2. q \in GrantRequest /\ q.revokedTargets = p.revokedTargets
        BY <2>1 DEF GrantRequest
    <2>3. EndOperation(r, q) /\ bindings' = Without(IdsOf(r))
        BY <1>3, <1>5, <1>11, <2>1 DEF CleanupWritten
    <2>4. KnownAndBarredStay
        BY <1>1, <1>2, <1>3, <2>2, <2>3, EndKeepsBarred
    <2> QED
        BY <1>1, <1>2, <1>6, <2>3, <2>4, SettlesLedger
<1>12. CASE CleanupFails(r)
    <2>1. PICK q : q = [p EXCEPT !.cancelled = TRUE]
        OBVIOUS
    <2>2. q \in GrantRequest /\ q.revokedTargets = p.revokedTargets
        BY <2>1 DEF GrantRequest
    <2>3. EndOperation(r, q) /\ (UNCHANGED bindings \/ bindings' = Without(IdsOf(r)))
        BY <1>3, <1>5, <1>12, <2>1 DEF CleanupFails
    <2>4. KnownAndBarredStay
        BY <1>1, <1>2, <1>3, <2>2, <2>3, EndKeepsBarred
    <2> QED
        BY <1>1, <1>2, <1>6, <2>3, <2>4, NothingTouched, SettlesLedger
<1>13. CASE RevokeProceeds(r)
    <2>1. UNCHANGED bindings /\ Remains(r)
        BY <1>1, <1>13, RevokeProceedsKeeps DEF RevokeProceeds, GrantInv
    <2>2. CASE Live(r)
        <3>1. requests'[r] = [p EXCEPT !.completing = TRUE]
            BY <1>1, <1>3, <1>13, <2>2 DEF RevokeProceeds, GrantInv, RequestTypes
        <3>2. requests'[r].revokedTargets = p.revokedTargets
            BY <3>1 DEF GrantRequest
        <3>3. \A s \in Requests \ {r} : requests'[s] = requests[s]
            BY <1>1, <1>13, <2>2 DEF RevokeProceeds, GrantInv, RequestTypes
        <3>4. KnownAndBarredStay
            BY <1>2, <1>3, <2>1, <3>2, <3>3 DEF KnownAndBarredStay, LostBy, Remains
        <3> QED
            BY <2>1, <3>4, UnseenStutters DEF Unseen
    <2>3. CASE ~Live(r)
        BY <1>4, <1>13, <2>1, <2>3, UnseenStutters DEF RevokeProceeds, Unseen
    <2> QED
        BY <2>2, <2>3
<1>14. CASE RevokeWritten(r)
    <2>1. PICK targets \in SUBSET TargetIds : targets = operation[r].targets
        BY <1>1, <1>14, OneRequest, OperationIs DEF RevokeWritten
    <2>2. PICK q : q = [p EXCEPT !.revokedTargets = @ \cup targets,
                                 !.bindings = {b \in @ : b.id \notin operation[r].ids},
                                 !.bindingIds = @ \ operation[r].ids]
        OBVIOUS
    <2>3. requests'[r] = [q EXCEPT !.completing = FALSE]
        BY <1>1, <1>3, <1>14, <2>1, <2>2 DEF RevokeWritten, EndOperation, GrantInv, RequestTypes
    <2>4. requests'[r] \in GrantRequest /\ requests'[r].revokedTargets = p.revokedTargets \cup targets
        <3>1. q \in GrantRequest /\ q.revokedTargets = p.revokedTargets \cup targets
            BY <2>1, <2>2 DEF GrantRequest
        <3> QED
            BY <2>3, <3>1 DEF GrantRequest
    <2>5. \A s \in Requests \ {r} : requests'[s] = requests[s]
        BY <1>1, <1>14 DEF RevokeWritten, EndOperation, GrantInv, RequestTypes
    <2>6. bindings' = Without(operation[r].ids) /\ operation[r].kind = "revoke"
        BY <1>14 DEF RevokeWritten
    <2>7. Ledger!OthersKeepTheirs(r) /\ bindings' \subseteq bindings
        BY <1>1, <1>6, <2>6 DEF Without
    <2>8. {s \in Requests : requests'[s] # None} = {s \in Requests : requests[s] # None}
        BY <1>2, <2>4, <2>5, NoneIsNoRequest
    <2>9. Lost[r] = p.revokedTargets /\ Lost'[r] = p.revokedTargets \cup targets
        BY <1>2, <1>3, <2>4, NoneIsNoRequest DEF Lost
    <2>10. Lost' = [Lost EXCEPT ![r] = @ \cup targets]
        <3>1. \A s \in Requests \ {r} : Lost'[s] = Lost[s]
            BY <2>5 DEF Lost
        <3> QED
            BY <2>9, <3>1 DEF Lost
    <2>11. Ledger!Proper({b \in bindings' : b.request = r}, Lost[r] \cup targets)
        BY <1>1, <2>4, <2>9, NoneIsNoRequest, ProperAfter
    <2>12. Ledger!Bar(r, targets)
        BY <1>2, <2>7, <2>8, <2>10, <2>11 DEF Ledger!Bar
    <2> QED
        BY <2>12 DEF Ledger!Next
<1>15. CASE RevokeFails(r)
    <2>1. KnownAndBarredStay
        BY <1>1, <1>2, <1>3, <1>15, EndKeepsBarred DEF RevokeFails
    <2>2. Ledger!OthersKeepTheirs(r)
        BY <1>1, <1>6, <1>15, NothingTouched DEF RevokeFails
    <2> QED
        BY <1>1, <1>2, <2>1, <2>2, SettlesLedger
<1>16. CASE CancelForgets(r) \/ CancelRemoves(r)
    <2>1. requests'[r] = None /\ \A s \in Requests \ {r} : requests'[s] = requests[s]
        BY <1>1, <1>16 DEF CancelForgets, CancelRemoves, Forget, GrantInv, RequestTypes
    <2>2. bindings' = Without(IdsOf(r))
        BY <1>3, <1>5, <1>16 DEF CancelForgets, CancelRemoves, Without
    <2>3. Ledger!OthersKeepTheirs(r)
        BY <1>6, <2>2
    <2>4. ASSUME NEW b \in bindings, b.request = r PROVE b.id \in IdsOf(r)
        <3>1. b \in Stored(r)
            BY <2>4 DEF Stored
        <3> QED
            BY <1>1, <1>2, <1>3, <1>5, <3>1, OneRequest DEF RequestOK, KnowsStored
    <2>5. bindings' = {b \in bindings : b.request # r}
        BY <2>2, <2>3, <2>4 DEF Without, Ledger!OthersKeepTheirs
    <2>6. {s \in Requests : requests'[s] # None} = {s \in Requests : requests[s] # None} \ {r}
        BY <2>1
    <2>7. Lost' = [Lost EXCEPT ![r] = {}]
        BY <2>1 DEF Lost
    <2>8. Ledger!Forget(r)
        BY <1>2, <2>5, <2>6, <2>7 DEF Ledger!Forget
    <2> QED
        BY <2>8 DEF Ledger!Next
<1>17. CASE CancelFails(r)
    <2>1. UNCHANGED requests /\ (UNCHANGED bindings \/ bindings' = Without(IdsOf(r)))
        BY <1>3, <1>5, <1>17 DEF CancelFails
    <2> QED
        BY <1>1, <1>2, <1>4, <1>6, <2>1, NothingTouched, SettlesLedger
<1> QED
    BY <1>8, <1>9, <1>10, <1>11, <1>12, <1>13, <1>14, <1>15, <1>16, <1>17 DEF Answered

LEMMA DisposeUnseen ==
    ASSUME GrantInv, Dispose
    PROVE  Unseen
<1>1. ASSUME NEW r \in Requests PROVE (requests'[r] = None <=> requests[r] = None) /\ LostBy(r)' = LostBy(r)
    <2>1. CASE requests[r] = None
        BY <2>1 DEF Dispose, LostBy
    <2>2. CASE requests[r] # None
        <3>1. PICK p \in GrantRequest : p = requests[r]
            BY <2>2, OneRequest
        <3>2. requests'[r] = [p EXCEPT !.cancelled = TRUE]
            BY <2>2, <3>1 DEF Dispose, Cancelled
        <3>3. requests'[r] \in GrantRequest /\ requests'[r].revokedTargets = p.revokedTargets
            BY <3>2 DEF GrantRequest
        <3> QED
            BY <2>2, <3>1, <3>3, NoneIsNoRequest DEF LostBy
    <2> QED
        BY <2>1, <2>2
<1> QED
    BY <1>1 DEF Unseen, KnownAndBarredStay, Dispose

LEMMA EnvironmentRefines ==
    ASSUME EnvironmentStep
    PROVE  [Ledger!Next]_(Ledger!ledgerVars)
<1>1. UNCHANGED requests /\ (UNCHANGED bindings \/ bindings' = {})
    BY DEF EnvironmentStep, ProviderConnects, ProviderUnavailable, TargetChanges, SessionChanges, Tick
<1>2. KnownAndBarredStay
    BY <1>1 DEF KnownAndBarredStay, LostBy
<1>3. CASE UNCHANGED bindings
    BY <1>2, <1>3, UnseenStutters DEF Unseen
<1>4. CASE bindings' = {}
    <2>1. Ledger!End
        BY <1>2, <1>4, KeptMapped DEF Ledger!End
    <2> QED
        BY <2>1 DEF Ledger!Next
<1> QED
    BY <1>1, <1>3, <1>4

(* The coordinator is a ledger of the bindings in force: for any number of *)
(* requests that approve, reconcile, revoke, cancel and expire in any      *)
(* order over a store that may fail at every update, no authority is left  *)
(* behind by a request that is gone, nothing that was revoked is bound     *)
(* again, and no request gives to another one or takes from it.            *)
THEOREM CoordinatorImplementsLedger == Spec => ImplementsLedger
<1>1. Init => Ledger!Init /\ Isolated
    <2> SUFFICES ASSUME Init PROVE Ledger!Init /\ Isolated
        OBVIOUS
    <2>1. {r \in Requests : requests[r] # None} = {} /\ Lost = [r \in Requests |-> {}]
        BY DEF Init, Lost
    <2> QED
        BY <2>1 DEF Init, Ledger!Init, Isolated, IdsOf, Idle
<1>2. Inv /\ Isolated /\ Inv' /\ [Next]_vars => [Ledger!Next]_(Ledger!ledgerVars)
    <2> SUFFICES ASSUME Inv, Isolated, Inv', [Next]_vars PROVE [Ledger!Next]_(Ledger!ledgerVars)
        OBVIOUS
    <2>1. CASE EnvironmentStep
        BY <2>1, EnvironmentRefines
    <2>2. ASSUME NEW r \in Requests, HostStep(r) PROVE [Ledger!Next]_(Ledger!ledgerVars)
        BY <2>2, HostRefines
    <2>3. ASSUME NEW r \in Requests, Answered(r) PROVE [Ledger!Next]_(Ledger!ledgerVars)
        BY <2>3, AnsweredRefines
    <2>4. ASSUME NEW r \in Requests, Expire(r) PROVE [Ledger!Next]_(Ledger!ledgerVars)
        BY <2>2, <2>4 DEF Expire, HostStep
    <2>5. CASE Dispose
        BY <2>5, DisposeUnseen, UnseenStutters DEF Inv
    <2>6. CASE UNCHANGED vars
        BY <2>6, UnseenStutters DEF vars, Unseen, KnownAndBarredStay, LostBy
    <2> QED
        BY <2>1, <2>2, <2>3, <2>4, <2>5, <2>6 DEF Next
<1>3. Inv /\ Isolated /\ [Next]_vars => Isolated'
    BY StepKeepsIsolated
<1> QED
    BY <1>1, <1>2, <1>3, Invariance, PTL DEF Spec, ImplementsLedger, Ledger!Spec
=============================================================================
