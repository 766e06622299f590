--------------------------- MODULE GrantRequests ---------------------------
(***************************************************************************)
(* The grant request coordinator: a provider claims a session's request    *)
(* for access and completes it by installing bindings in the authority     *)
(* store; later reconciliations replace the bindings, revocations take     *)
(* some away for good and a cancellation takes them all.                   *)
(*                                                                         *)
(* The store is asynchronous.  An update is submitted by one action and    *)
(* its updater runs in another; the answer is a third when anything can    *)
(* happen before the coordinator sees it.  An update may also fail, after  *)
(* having been written or not.                                             *)
(*                                                                         *)
(* All requests belong to one logical session, whose record is in the      *)
(* store.  Times are in units of the clock now.                            *)
(***************************************************************************)
EXTENDS Authorization, FiniteSets

CONSTANTS
    Requests,
    Providers,
    TargetIds,
    None,
    Capabilities,       \* the capabilities requested and published
    Requested,          \* the targets requests ask for, None for any
    Deadlines,          \* the expiries requests are made with, None included
    MalformedApprovals, \* providers may name a target twice
    StoreFails,         \* updates of the store may fail
    MaxConnection,      \* bound on provider connection generations
    MaxGeneration,      \* bound on target generations
    MaxCommit,          \* bound on the commits that are submitted
    MaxTime             \* bound on the clock

Connections == 1 .. MaxConnection
Generations == 1 .. MaxGeneration

(* A binding created by a commit is identified by the commit and its       *)
(* target: identifiers are random in the code and never repeat.            *)
BindingIds == (1 .. MaxCommit) \X TargetIds

Published == [provider : Providers, generation : Generations, capabilities : CapabilityGrant]
Provider == [principal : Providers, connection : Connections]
GrantedBinding == [id : BindingIds, request : Requests, target : TargetIds, generation : Generations]

GrantRequest == [state : {"pending", "claimed", "granted"}, claim : Provider \cup {None},
                 requested : TargetIds \cup {None}, capabilities : CapabilityGrant,
                 expiresAt : Nat \cup {None}, bindingExpiresAt : Nat \cup {None},
                 cancelled : BOOLEAN, completing : BOOLEAN,
                 bindings : SUBSET GrantedBinding, bindingIds : SUBSET BindingIds,
                 revokedTargets : SUBSET TargetIds]

(* What stored.operation refers to: a commit or a revocation, and where it *)
(* is; "settled" when the promise has settled and yet was never deleted.   *)
Operation == [kind : {"none", "settled", "cleanup"}]
             \cup [kind : {"commit", "written"}, provider : Provider, bindings : SUBSET GrantedBinding]
             \cup [kind : {"revoke"}, targets : SUBSET TargetIds, ids : SUBSET BindingIds]

ASSUME BoundsAssumption ==
    /\ {MaxConnection, MaxGeneration, MaxCommit, MaxTime} \subseteq Nat
    /\ Capabilities \subseteq CapabilityGrant
    /\ Requested \subseteq TargetIds \cup {None}
    /\ Deadlines \subseteq Nat \cup {None}
    /\ {MalformedApprovals, StoreFails} \subseteq BOOLEAN
    /\ None \notin Provider \cup GrantRequest \cup TargetIds \cup Nat \cup Published
    /\ \A targets \in SUBSET TargetIds : None # targets

VARIABLES
    disposed,
    now,
    session,       \* the session's record: connected, resumable or gone
    bindings,      \* the bindings of that record
    connection,    \* the newest connection generation of each provider, 0 if none
    ready,         \* the providers that are connected and ready
    directory,     \* the target directory
    requests,      \* the coordinator's requests map
    operation,     \* stored.operation of each request
    cancelling,    \* where the latest cancel call of each request is
    revoking,      \* the targets of a revokeBindings call waiting its turn
    commits        \* the number of commits submitted

environment == <<session, connection, ready, directory>>
vars == <<disposed, now, environment, bindings, requests, operation, cancelling, revoking, commits>>

Idle == [kind |-> "none"]
Settled == [kind |-> "settled"]

Init ==
    /\ disposed = FALSE /\ now = 0
    /\ session = "connected" /\ bindings = {}
    /\ connection = [p \in Providers |-> 0] /\ ready = {}
    /\ directory = [t \in TargetIds |-> None]
    /\ requests = [r \in Requests |-> None]
    /\ operation = [r \in Requests |-> Idle]
    /\ cancelling = [r \in Requests |-> "no"]
    /\ revoking = [r \in Requests |-> None]
    /\ commits = 0

-----------------------------------------------------------------------------
(* The session, the providers and their targets, as the host runs them     *)

ProviderConnects(p) ==
    /\ connection[p] < MaxConnection
    /\ connection' = [connection EXCEPT ![p] = @ + 1]
    /\ ready' = ready \cup {p}
    /\ UNCHANGED <<disposed, now, session, directory, bindings, requests, operation, cancelling,
                   revoking, commits>>

ProviderUnavailable(p) ==
    /\ p \in ready
    /\ ready' = ready \ {p}
    /\ UNCHANGED <<disposed, now, session, connection, directory, bindings, requests, operation,
                   cancelling, revoking, commits>>

(* A provider publishes as soon as it is connected, before it is ready.    *)
TargetChanges(t, published) ==
    /\ published # None => /\ connection[published.provider] > 0
                           /\ published.capabilities \in Capabilities
    /\ published # None /\ directory[t] # None =>
          published.generation >= directory[t].generation
    /\ directory' = [directory EXCEPT ![t] = published]
    /\ UNCHANGED <<disposed, now, session, connection, ready, bindings, requests, operation, cancelling,
                   revoking, commits>>

(* Loss, resumption or end of the session: its record goes with its end.   *)
SessionChanges(next) ==
    /\ session # "gone" /\ next # session
    /\ session' = next
    /\ bindings' = IF next = "gone" THEN {} ELSE bindings
    /\ UNCHANGED <<disposed, now, connection, ready, directory, requests, operation, cancelling,
                   revoking, commits>>

Tick ==
    /\ now < MaxTime
    /\ now' = now + 1
    /\ UNCHANGED <<disposed, environment, bindings, requests, operation, cancelling, revoking,
                   commits>>

-----------------------------------------------------------------------------
(* Making, claiming and releasing a request                                *)

Live(r) == requests[r] # None /\ ~requests[r].cancelled

(* assertProvider                                                          *)
Current(provider) ==
    provider.principal \in ready /\ connection[provider.principal] = provider.connection

(* expiresAt: a granted request lives as long as its bindings.             *)
EarlierOf(x, y) == CASE x = None -> y [] y = None -> x [] OTHER -> IF x < y THEN x ELSE y

ExpiresAt(r) ==
    IF requests[r].state = "granted" THEN requests[r].bindingExpiresAt
    ELSE EarlierOf(requests[r].expiresAt, requests[r].bindingExpiresAt)

Due(r) == ExpiresAt(r) # None /\ ExpiresAt(r) =< now

(* The provider's claim of r is a live one: getClaim.                      *)
ClaimHeld(r) ==
    /\ ~disposed /\ Live(r) /\ ~requests[r].completing
    /\ requests[r].state = "claimed"
    /\ Current(requests[r].claim)
    /\ ~Due(r)

(* The session is examined, then awaited for: when the request is made it  *)
(* was connected, and need not be any more.                                *)
Request(r, requested, capabilities, expiresAt, bindingExpiresAt) ==
    /\ ~disposed /\ requests[r] = None
    /\ requests' = [requests EXCEPT ![r] =
          [state |-> "pending", claim |-> None, requested |-> requested,
           capabilities |-> capabilities, expiresAt |-> expiresAt,
           bindingExpiresAt |-> bindingExpiresAt, cancelled |-> FALSE, completing |-> FALSE,
           bindings |-> {}, bindingIds |-> {}, revokedTargets |-> {}]]
    /\ UNCHANGED <<disposed, now, environment, bindings, operation, cancelling, revoking, commits>>

(* A claim of a provider that has been fenced may be taken over.           *)
Claim(r, provider) ==
    /\ ~disposed /\ Current(provider)
    /\ Live(r) /\ ~requests[r].completing /\ ~Due(r)
    /\ \/ requests[r].state = "pending"
       \/ requests[r].state = "claimed" /\ ~Current(requests[r].claim)
    /\ requests' = [requests EXCEPT ![r].claim = provider, ![r].state = "claimed"]
    /\ UNCHANGED <<disposed, now, environment, bindings, operation, cancelling, revoking, commits>>

ReleaseClaim(r) ==
    /\ ClaimHeld(r)
    /\ requests' = [requests EXCEPT ![r].claim = None, ![r].state = "pending"]
    /\ UNCHANGED <<disposed, now, environment, bindings, operation, cancelling, revoking, commits>>

-----------------------------------------------------------------------------
(* Committing targets                                                      *)

Ids(bs) == {b.id : b \in bs}

(* A target granted before under the same generation keeps its binding.    *)
Kept(r, listed) ==
    {b \in requests[r].bindings : b.target \in DOMAIN listed /\ listed[b.target] = b.generation}

Fresh(r, listed) ==
    {[id |-> <<commits + 1, t>>, request |-> r, target |-> t, generation |-> listed[t]] :
     t \in DOMAIN listed \ {b.target : b \in Kept(r, listed)}}

Committed(r, listed) == Kept(r, listed) \cup Fresh(r, listed)

(* commitTargets up to its update of the store                             *)
Submit(r, provider, listed) ==
    /\ commits < MaxCommit
    /\ commits' = commits + 1
    /\ operation' = [operation EXCEPT ![r] =
          [kind |-> "commit", provider |-> provider, bindings |-> Committed(r, listed)]]
    /\ requests' = [requests EXCEPT ![r].completing = TRUE,
                                    ![r].bindingIds = @ \cup Ids(Committed(r, listed))]

Complete(r, listed) ==
    /\ ClaimHeld(r) /\ listed # << >>
    /\ Submit(r, requests[r].claim, listed)
    /\ UNCHANGED <<disposed, now, environment, bindings, cancelling, revoking>>

(* The provider that was granted r, on whatever connection it has now      *)
Reconcilable(r, provider) ==
    /\ ~disposed /\ Current(provider)
    /\ Live(r) /\ ~requests[r].completing /\ ~Due(r)
    /\ requests[r].state = "granted"
    /\ requests[r].claim.principal = provider.principal

Reconcile(r, provider, listed) ==
    LET kept == [t \in DOMAIN listed \ requests[r].revokedTargets |-> listed[t]]
    IN  /\ Reconcilable(r, provider)
        /\ Submit(r, provider, kept)
        /\ UNCHANGED <<disposed, now, environment, bindings, cancelling, revoking>>

(* A list that names a target twice throws before the first await, so the  *)
(* finally block deletes stored.operation before the caller assigns it.    *)
CommitMalformed(r) ==
    /\ MalformedApprovals
    /\ ClaimHeld(r) \/ \E provider \in Provider : Reconcilable(r, provider)
    /\ operation' = [operation EXCEPT ![r] = Settled]
    /\ UNCHANGED <<disposed, now, environment, bindings, requests, cancelling, revoking, commits>>

Available(r) ==
    \/ session = "connected"
    \/ session = "resumable" /\ requests[r].state = "granted"

(* Every bound target is published by the provider with enough to offer.   *)
Grantable(r, provider, bs) ==
    \A b \in bs :
        /\ requests[r].requested \in {None, b.target}
        /\ directory[b.target] # None
        /\ directory[b.target].provider = provider.principal
        /\ directory[b.target].generation = b.generation
        /\ requests[r].capabilities.level =< directory[b.target].capabilities.level
        /\ \A m \in requests[r].capabilities.allow : Allowed(directory[b.target].capabilities, m)

(* What the updater of the store examines again                            *)
StillGrantedOnApproval(r) == ~disposed /\ session # "gone" /\ Live(r)

StillGranted(r) ==
    LET commit == operation[r]
    IN  /\ ~disposed /\ Available(r) /\ Live(r)
        /\ Current(commit.provider) /\ ~Due(r)
        /\ Grantable(r, commit.provider, commit.bindings)

Write(r) == bindings' = {b \in bindings : b.id \notin requests[r].bindingIds} \cup operation[r].bindings

CommitWritten(r) ==
    /\ operation[r].kind = "commit" /\ StillGranted(r)
    /\ Write(r)
    /\ operation' = [operation EXCEPT ![r].kind = "written"]
    /\ UNCHANGED <<disposed, now, environment, requests, cancelling, revoking, commits>>

(* The finally block                                                       *)
EndOperation(r, request) ==
    /\ requests' = [requests EXCEPT ![r] = [request EXCEPT !.completing = FALSE]]
    /\ operation' = [operation EXCEPT ![r] = Idle]

CommitRefused(r) ==
    /\ operation[r].kind = "commit" /\ ~StillGranted(r)
    /\ EndOperation(r, requests[r])
    /\ UNCHANGED <<disposed, now, environment, bindings, cancelling, revoking, commits>>

(* The store fails, having written or not: the bindings are to be removed. *)
CommitUncertain(r) ==
    /\ StoreFails
    /\ operation[r].kind = "commit"
    /\ \/ UNCHANGED bindings
       \/ StillGranted(r) /\ Write(r)
    /\ operation' = [operation EXCEPT ![r] = [kind |-> "cleanup"]]
    /\ UNCHANGED <<disposed, now, environment, requests, cancelling, revoking, commits>>

CommitSettlesForCancelled(r) ==
    /\ operation[r].kind = "written" /\ Live(r)
    /\ EndOperation(r, [requests[r] EXCEPT !.state = "granted", !.bindings = operation[r].bindings,
                                           !.bindingIds = Ids(operation[r].bindings)])
    /\ UNCHANGED <<disposed, now, environment, bindings, cancelling, revoking, commits>>

(* The coordinator sees the update done; it may have been cancelled since. *)
CommitSettles(r) ==
    /\ operation[r].kind = "written"
    /\ EndOperation(r,
          IF Live(r)
          THEN [requests[r] EXCEPT !.state = "granted", !.bindings = operation[r].bindings,
                                   !.bindingIds = Ids(operation[r].bindings)]
          ELSE requests[r])
    /\ UNCHANGED <<disposed, now, environment, bindings, cancelling, revoking, commits>>

Without(ids) == {b \in bindings : b.id \notin ids}

CleanupWritten(r) ==
    /\ operation[r].kind = "cleanup"
    /\ bindings' = Without(requests[r].bindingIds)
    /\ EndOperation(r, [requests[r] EXCEPT !.bindings = {}, !.bindingIds = {}])
    /\ UNCHANGED <<disposed, now, environment, cancelling, revoking, commits>>

(* Listeners are told that uncertain authority could not be removed.       *)
CleanupFails(r) ==
    /\ StoreFails
    /\ operation[r].kind = "cleanup"
    /\ bindings' \in {bindings, Without(requests[r].bindingIds)}
    /\ EndOperation(r, [requests[r] EXCEPT !.cancelled = TRUE])
    /\ cancelling' = [cancelling EXCEPT ![r] = IF @ = "no" THEN "failed" ELSE @]
    /\ UNCHANGED <<disposed, now, environment, revoking, commits>>

-----------------------------------------------------------------------------
(* Taking authority away                                                   *)

(* revokeBindings, up to its wait for the running operation                *)
RevokeBindings(r, ids) ==
    /\ ~disposed /\ Live(r) /\ revoking[r] = None
    /\ revoking' = [revoking EXCEPT ![r] = {b.target : b \in {b \in requests[r].bindings : b.id \in ids}}]
    /\ UNCHANGED <<disposed, now, environment, bindings, requests, operation, cancelling, commits>>

(* Its turn: it loops for as long as stored.operation is there.  The loop  *)
(* over a promise that has settled never yields to the event loop either;  *)
(* here the other calls go on.  One call per request waits at a time.      *)
RevokeAtOnce(r) ==
    /\ revoking[r] # None /\ Live(r)
    /\ bindings' = {b \in bindings : b.request = r => b.target \notin revoking[r]}
    /\ requests' = [requests EXCEPT
          ![r].bindings = {b \in @ : b.target \notin revoking[r]},
          ![r].revokedTargets = @ \cup revoking[r]]
    /\ revoking' = [revoking EXCEPT ![r] = None]
    /\ UNCHANGED <<disposed, now, environment, operation, cancelling, commits>>

RevokeProceeds(r) ==
    /\ revoking[r] # None /\ operation[r].kind = "none"
    /\ IF Live(r)
       THEN /\ operation' = [operation EXCEPT ![r] =
                  [kind |-> "revoke", targets |-> revoking[r],
                   ids |-> Ids({b \in requests[r].bindings : b.target \in revoking[r]})]]
            /\ requests' = [requests EXCEPT ![r].completing = TRUE]
       ELSE UNCHANGED <<operation, requests>>
    /\ revoking' = [revoking EXCEPT ![r] = None]
    /\ UNCHANGED <<disposed, now, environment, bindings, cancelling, commits>>

RevokeWritten(r) ==
    LET revoke == operation[r]
    IN  /\ revoke.kind = "revoke"
        /\ bindings' = Without(revoke.ids)
        /\ EndOperation(r, [requests[r] EXCEPT
              !.revokedTargets = @ \cup revoke.targets,
              !.bindings = {b \in @ : b.id \notin revoke.ids},
              !.bindingIds = @ \ revoke.ids])
        /\ UNCHANGED <<disposed, now, environment, cancelling, revoking, commits>>

RevokeFails(r) ==
    /\ StoreFails
    /\ operation[r].kind = "revoke"
    /\ bindings' \in {bindings, Without(operation[r].ids)}
    /\ EndOperation(r, requests[r])
    /\ UNCHANGED <<disposed, now, environment, cancelling, revoking, commits>>

Cancelled(request) == [request EXCEPT !.cancelled = TRUE]

(* cancel, up to its wait for the running operation                        *)
Cancel(r) ==
    /\ requests[r] # None /\ cancelling[r] \in {"no", "failed"}
    /\ requests' = [requests EXCEPT ![r] = Cancelled(@)]
    /\ cancelling' = [cancelling EXCEPT ![r] = "waiting"]
    /\ UNCHANGED <<disposed, now, environment, bindings, operation, revoking, commits>>

(* The expiry timer                                                        *)
Expire(r) == Live(r) /\ Due(r) /\ Cancel(r)

Dispose ==
    /\ ~disposed
    /\ disposed' = TRUE
    /\ requests' = [r \in Requests |-> IF requests[r] = None THEN None ELSE Cancelled(requests[r])]
    /\ cancelling' = [r \in Requests |->
          IF requests[r] # None /\ cancelling[r] \in {"no", "failed"} THEN "waiting" ELSE cancelling[r]]
    /\ UNCHANGED <<now, environment, bindings, operation, revoking, commits>>

Forget(r) ==
    /\ requests' = [requests EXCEPT ![r] = None]
    /\ cancelling' = [cancelling EXCEPT ![r] = "no"]
    /\ operation' = [operation EXCEPT ![r] = Idle]
    /\ revoking' = [revoking EXCEPT ![r] = None]

(* The operation has settled and there is nothing to remove.               *)
CancelForgets(r) ==
    /\ cancelling[r] = "waiting" /\ operation[r].kind \in {"none", "settled"}
    /\ requests[r].bindingIds = {}
    /\ Forget(r)
    /\ UNCHANGED <<disposed, now, environment, bindings, commits>>

CancelRemoves(r) ==
    /\ cancelling[r] = "waiting" /\ operation[r].kind \in {"none", "settled"}
    /\ requests[r].bindingIds # {}
    /\ bindings' = Without(requests[r].bindingIds)
    /\ Forget(r)
    /\ UNCHANGED <<disposed, now, environment, commits>>

(* The call rejects; the cancelled request is kept.                        *)
CancelFails(r) ==
    /\ StoreFails
    /\ cancelling[r] = "waiting" /\ operation[r].kind \in {"none", "settled"}
    /\ requests[r].bindingIds # {}
    /\ bindings' \in {bindings, Without(requests[r].bindingIds)}
    /\ cancelling' = [cancelling EXCEPT ![r] = "failed"]
    /\ UNCHANGED <<disposed, now, environment, requests, operation, revoking, commits>>
-----------------------------------------------------------------------------
Listings == UNION {[listed -> Generations] : listed \in SUBSET TargetIds}

EnvironmentStep ==
    \/ \E p \in Providers : ProviderConnects(p) \/ ProviderUnavailable(p)
    \/ \E t \in TargetIds, published \in Published \cup {None} : TargetChanges(t, published)
    \/ \E next \in {"connected", "resumable", "gone"} : SessionChanges(next)
    \/ Tick

HostStep(r) ==
    \/ \E requested \in Requested, capabilities \in Capabilities,
          expiresAt, bindingExpiresAt \in Deadlines :
          Request(r, requested, capabilities, expiresAt, bindingExpiresAt)
    \/ \E provider \in Provider : Claim(r, provider)
    \/ ReleaseClaim(r)
    \/ \E listed \in Listings : Complete(r, listed)
    \/ \E provider \in Provider, listed \in Listings : Reconcile(r, provider, listed)
    \/ CommitMalformed(r)
    \/ \E ids \in SUBSET BindingIds : RevokeBindings(r, ids)
    \/ Cancel(r)

(* What the store answers and what the coordinator then goes on with       *)
Answered(r) ==
    \/ CommitWritten(r) \/ CommitRefused(r) \/ CommitUncertain(r) \/ CommitSettles(r)
    \/ CleanupWritten(r) \/ CleanupFails(r)
    \/ RevokeProceeds(r) \/ RevokeWritten(r) \/ RevokeFails(r)
    \/ CancelForgets(r) \/ CancelRemoves(r) \/ CancelFails(r)

Next ==
    \/ EnvironmentStep
    \/ \E r \in Requests : HostStep(r) \/ Answered(r) \/ Expire(r)
    \/ Dispose

Spec == Init /\ [][Next]_vars

(* The store answers every update, the event loop runs every continuation, *)
(* the clock runs and the timers fire.                                     *)
FairSpec ==
    /\ Spec
    /\ WF_vars(Tick)
    /\ \A r \in Requests : WF_vars(Answered(r)) /\ WF_vars(Expire(r))
-----------------------------------------------------------------------------
(* Properties                                                              *)

(* Every variable keeps the shape that the store, the directory and the    *)
(* coordinator's StoredGrantRequest give it.                               *)
TypeOK ==
    /\ disposed \in BOOLEAN /\ now \in 0 .. MaxTime
    /\ session \in {"connected", "resumable", "gone"}
    /\ bindings \subseteq GrantedBinding
    /\ connection \in [Providers -> 0 .. MaxConnection] /\ ready \subseteq Providers
    /\ \A t \in TargetIds : directory[t] = None \/ directory[t] \in Published
    /\ \A r \in Requests : requests[r] = None \/ requests[r] \in GrantRequest
    /\ \A r \in Requests : operation[r] \in Operation
    /\ cancelling \in [Requests -> {"no", "waiting", "failed"}]
    /\ \A r \in Requests : revoking[r] = None \/ revoking[r] \subseteq TargetIds
    /\ commits \in 0 .. MaxCommit

(* No authority is out of reach: for each binding in the store there is a  *)
(* request that knows its identifier, so a later cancel, expiry or dispose *)
(* removes it.  stored.bindingIds must cover updates whose outcome nobody  *)
(* knows yet.                                                              *)
AuthorityRevocable ==
    \A b \in bindings : requests[b.request] # None /\ b.id \in requests[b.request].bindingIds

(* A target revoked for a request is not bound for it again, whatever      *)
(* reconciliation was under way when it was revoked.                       *)
RevokedStaysRevoked ==
    \A b \in bindings : requests[b.request] # None
                         => b.target \notin requests[b.request].revokedTargets

(* A request never binds two generations of one target at a time: a        *)
(* reconciliation replaces what the request had.                           *)
OneBindingPerTarget ==
    \A b, c \in bindings : b.request = c.request /\ b.target = c.target => b = c

(* Authority appears in the store only while the request is alive, its     *)
(* provider's connection is the current one and the provider publishes the *)
(* bound generation, however long ago the approval was given.              *)
NoStaleInstall ==
    [][\A b \in bindings' \ bindings :
          LET r == b.request
          IN  /\ ~disposed /\ session # "gone"
              /\ Live(r) /\ ~Due(r)
              /\ requests[r].claim.principal \in ready
              /\ directory[b.target] # None
              /\ directory[b.target].provider = requests[r].claim.principal
              /\ directory[b.target].generation = b.generation]_vars

(* A request that is cancelled or has expired goes away with its bindings, *)
(* unless the store fails to remove them and the caller is told.           *)
Overdue(r) == requests[r] # None /\ (requests[r].cancelled \/ Due(r))
OverdueRequestsEnd ==
    \A r \in Requests : Overdue(r) ~> (~Overdue(r) \/ cancelling[r] = "failed")

(* "Revokes these targets for this request, including later membership     *)
(* reconciliation": a call of revokeBindings is carried out, once what was *)
(* running has settled.                                                    *)
RevocationCompletes == \A r \in Requests : revoking[r] # None ~> revoking[r] = None
-----------------------------------------------------------------------------
(* The coordinator as a ledger of the bindings in force                    *)

Lost == [r \in Requests |-> IF requests[r] = None THEN {} ELSE requests[r].revokedTargets]

Ledger == INSTANCE GrantLedger WITH
    Targets <- TargetIds, known <- {r \in Requests : requests[r] # None},
    inForce <- bindings, barred <- Lost

(* The coordinator implements the ledger: in every order of approvals,     *)
(* reconciliations, revocations and cancellations, and whatever the store  *)
(* fails at, authority is forgotten only with its request, what has been   *)
(* revoked is not bound again, and no request touches another's bindings.  *)
ImplementsLedger == Ledger!Spec
=============================================================================
