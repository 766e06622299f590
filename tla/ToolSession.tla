----------------------------- MODULE ToolSession -----------------------------
(***************************************************************************)
(* The MCP tools that read the page or hand out artifacts, over the life   *)
(* of their tool session (packages/mcp/src/index.ts).                      *)
(*                                                                         *)
(* A call takes a lease, executes its command under it and returns it.     *)
(* When the answer is an artifact the lease goes with it: the call reads   *)
(* and releases both, hands both to its caller, or leaves the lease with   *)
(* the session, which has to return it.  Meanwhile the session is rebound  *)
(* to another connection or disposed of, the target is revoked, the lease  *)
(* expires, and the caller aborts, renews or releases what it was given.   *)
(*                                                                         *)
(* There is one principal and one target, and each call has one lease at a *)
(* time.                                                                   *)
(***************************************************************************)
EXTENDS Naturals, FiniteSets

CONSTANTS
    ToolCalls,
    MaxPublications,    \* how often the target is published
    MaxRebinds          \* how often the session is rebound

ToolSessionAssumption ==
    /\ IsFiniteSet(ToolCalls)
    /\ MaxPublications \in Nat \ {0} /\ MaxRebinds \in Nat

VARIABLES
    published,      \* the generation of the target, 0 while there is none
    latest,         \* the last one published
    session,        \* the session's connectionRevision, and whether it is disposed
    task,           \* the calls
    lease,          \* the lease of each call, at the broker
    blob,           \* the artifact of each call, in the broker's store
    retained,       \* retainedArtifacts: the calls with an entry
    dropping,       \* what is being done to give an artifact back
    references      \* elementReferences: the calls whose elements it holds

toolSessionVars ==
    <<published, latest, session, task, lease, blob, retained, dropping, references>>

(* "inspect" stands for what answers with a value only (inspect, evaluate, *)
(* handle_dialog, raw commands), "capture" for a screenshot, "body" for    *)
(* network_body, "wait" for what waits for an event, and "listen" for the  *)
(* same under a lease of the caller.                                       *)
ToolKinds == {"inspect", "find", "snapshot", "capture", "body", "webmcp", "wait", "listen"}

(* A lease is "left" when its return has failed: it has yet to expire.     *)
LeaseStates == {"none", "held", "left", "ended"}

ToolTask ==
    [kind : ToolKinds, generation : 0..MaxPublications, revision : 0..MaxRebinds, aborted : BOOLEAN,
     at : {"idle", "resolving", "leasing", "executing", "waiting", "answering", "reading", "discarding",
           "releasing", "over"},
     outcome : {"none", "done", "failed", "handed"}]
ToolLease == [is : LeaseStates, renewed : BOOLEAN, late : BOOLEAN, subscribed : BOOLEAN]

ToolSessionTypeOK ==
    /\ published \in 0..MaxPublications /\ latest \in 0..MaxPublications
    /\ session \in [revision : 0..MaxRebinds, disposed : BOOLEAN]
    /\ task \in [ToolCalls -> ToolTask] /\ lease \in [ToolCalls -> ToolLease]
    /\ blob \in [ToolCalls -> {"none", "stored", "gone"}]
    /\ retained \subseteq ToolCalls /\ references \subseteq ToolCalls
    /\ dropping \in [ToolCalls -> {"none", "discarding", "releasing"}]

ToolSessionInit ==
    /\ published = 1 /\ latest = 1
    /\ session = [revision |-> 0, disposed |-> FALSE]
    /\ task \in [ToolCalls -> [kind : ToolKinds, generation : {0}, revision : {0},
                    aborted : {FALSE}, at : {"idle"}, outcome : {"none"}]]
    /\ lease = [c \in ToolCalls |-> [is |-> "none", renewed |-> FALSE, late |-> FALSE,
                                 subscribed |-> FALSE]]
    /\ blob = [c \in ToolCalls |-> "none"]
    /\ retained = {} /\ references = {}
    /\ dropping = [c \in ToolCalls |-> "none"]

stores == <<lease, blob, retained, dropping, references>>
surroundings == <<published, latest, session>>

-----------------------------------------------------------------------------
(* The broker.                                                             *)
Live(c) == lease[c].is \in {"held", "left"}

(* deleteLease, and the subscription under it                              *)
LeasesEnd(calls) ==
    lease' = [c \in ToolCalls |->
        IF c \in calls /\ Live(c)
        THEN [lease[c] EXCEPT !.is = "ended", !.subscribed = FALSE] ELSE lease[c]]

(* The artifacts of a generation go with it.                               *)
Withdrawn ==
    /\ published # 0
    /\ published' = 0
    /\ LeasesEnd(ToolCalls)
    /\ blob' = [c \in ToolCalls |-> IF blob[c] = "stored" THEN "gone" ELSE blob[c]]
    /\ UNCHANGED <<latest, session, task, retained, dropping, references>>

Republished ==
    /\ published = 0 /\ latest < MaxPublications
    /\ published' = latest + 1 /\ latest' = latest + 1
    /\ UNCHANGED <<session, task, stores>>

(* The time for which a lease was issued is over: it expires, unless it    *)
(* has been renewed, which the session does not hear of.  A renewed lease  *)
(* expires later.                                                          *)
DeadlinePasses(c) ==
    /\ lease[c].is # "none" /\ ~lease[c].late
    /\ LET expires == Live(c) /\ ~lease[c].renewed
       IN  lease' = [lease EXCEPT ![c].late = TRUE,
                                  ![c].is = IF expires THEN "ended" ELSE @,
                                  ![c].subscribed = @ /\ ~expires]
    /\ UNCHANGED <<surroundings, task, blob, retained, dropping, references>>

RenewedExpires(c) ==
    /\ Live(c) /\ lease[c].late
    /\ LeasesEnd({c})
    /\ UNCHANGED <<surroundings, task, blob, retained, dropping, references>>

-----------------------------------------------------------------------------
(* The session.                                                            *)

(* releaseRetainedArtifacts, which does not wait for what it sends         *)
ReleaseRetained ==
    /\ retained' = {}
    /\ dropping' = [c \in ToolCalls |-> IF c \in retained THEN "releasing" ELSE dropping[c]]

(* A connection of the session ends or is replaced: the broker drops its   *)
(* leases and the session is rebound.                                      *)
RebindClient ==
    /\ ~session.disposed /\ session.revision < MaxRebinds
    /\ session' = [session EXCEPT !.revision = @ + 1]
    /\ LeasesEnd(ToolCalls) /\ ReleaseRetained
    /\ references' = {}
    /\ UNCHANGED <<published, latest, task, blob>>

(* dispose: of the tools alone, where the broker's client lives on         *)
Dispose ==
    /\ ~session.disposed
    /\ session' = [session EXCEPT !.disposed = TRUE]
    /\ ReleaseRetained
    /\ references' = {}
    /\ UNCHANGED <<published, latest, task, lease, blob>>

(* revokeTarget, which forgets the target's reference as well; listing the *)
(* targets makes a new one.                                                *)
RevokeSessionTarget ==
    /\ ~session.disposed
    /\ ReleaseRetained
    /\ references' = {}
    /\ UNCHANGED <<surroundings, task, lease, blob>>

-----------------------------------------------------------------------------
(* A call.                                                                 *)
Moves(c, at) == task' = [task EXCEPT ![c].at = at]

Call(c) ==
    /\ task[c].at = "idle" /\ ~session.disposed
    /\ task' = [task EXCEPT ![c].at = "resolving", ![c].revision = session.revision]
    /\ UNCHANGED <<surroundings, stores>>

Abort(c) ==
    /\ task[c].at \notin {"idle", "over"} /\ ~task[c].aborted
    /\ task' = [task EXCEPT ![c].aborted = TRUE]
    /\ UNCHANGED <<surroundings, stores>>

Failed(c, at) ==
    /\ task' = [task EXCEPT ![c].at = at, ![c].outcome = "failed"]
    /\ UNCHANGED <<surroundings, stores>>

(* resolveSemanticTarget; a find or snapshot drops the references so far.  *)
Resolved(c) ==
    /\ task[c].at = "resolving" /\ published # 0
    /\ task' = [task EXCEPT ![c].at = "leasing", ![c].generation = published]
    /\ references' = IF task[c].kind \in {"find", "snapshot"} THEN {} ELSE references
    /\ UNCHANGED <<surroundings, lease, blob, retained, dropping>>

Unresolved(c) == task[c].at \in {"resolving", "leasing"} /\ Failed(c, "over")

(* acquireLease, or the caller's own browser.acquire                       *)
Acquired(c) ==
    /\ task[c].at = "leasing" /\ task[c].generation = published
    /\ lease' = [lease EXCEPT ![c].is = "held", ![c].late = FALSE]
    /\ Moves(c, "executing")
    /\ UNCHANGED <<surroundings, blob, retained, dropping, references>>

(* withLease and executeArtifactCommand: the command is answered with a    *)
(* value or an artifact, fails, or is cancelled by the caller's abort.     *)
Answers(c) == IF task[c].aborted THEN "failed" ELSE "done"

AnsweredInline(c) ==
    /\ task[c].at = "executing" /\ task[c].kind \notin {"wait", "listen"} /\ Live(c)
    /\ task' = [task EXCEPT ![c].at = "releasing", ![c].outcome = Answers(c)]
    /\ UNCHANGED <<surroundings, stores>>

CommandFails(c) == task[c].at = "executing" /\ task[c].kind # "listen" /\ Failed(c, "releasing")

(* waitForEvent: it closes its subscription, but for one under the lease   *)
(* of the caller that has told of an event.                                *)
EventAwaited(c) ==
    /\ task[c].at = "executing" /\ task[c].kind \in {"wait", "listen"} /\ Live(c)
    /\ lease' = [lease EXCEPT ![c].subscribed = TRUE]
    /\ Moves(c, "waiting")
    /\ UNCHANGED <<surroundings, blob, retained, dropping, references>>

AfterWait(c, outcome) ==
    task' = IF task[c].kind = "listen"
            THEN [task EXCEPT ![c].at = "over", ![c].outcome = "handed"]
            ELSE [task EXCEPT ![c].at = "releasing", ![c].outcome = outcome]

EventTold(c) ==
    /\ task[c].at = "waiting" /\ lease[c].subscribed
    /\ lease' = [lease EXCEPT ![c].subscribed = (task[c].kind = "listen")]
    /\ AfterWait(c, "done")
    /\ UNCHANGED <<surroundings, blob, retained, dropping, references>>

WaitFails(c) ==
    /\ \/ task[c].at = "waiting"
       \/ task[c].at = "executing" /\ task[c].kind = "listen"
    /\ lease' = [lease EXCEPT ![c].subscribed = FALSE]
    /\ AfterWait(c, "failed")
    /\ UNCHANGED <<surroundings, blob, retained, dropping, references>>

(* The answer is an artifact: it is stored although the caller has         *)
(* aborted meanwhile.  The call goes on according to its kind.             *)
WithArtifact(c) ==
    IF task[c].aborted THEN "releasing"
    ELSE CASE task[c].kind \in {"snapshot", "capture"} -> "reading"
           [] task[c].kind = "body" -> "over"
           [] OTHER -> "answering"

AnsweredByArtifact(c) ==
    /\ task[c].at = "executing" /\ Live(c)
    /\ task[c].kind \in {"snapshot", "capture", "body", "webmcp"}
    /\ blob' = [blob EXCEPT ![c] = "stored"]
    /\ task' = [task EXCEPT ![c].at = WithArtifact(c),
                            ![c].outcome = IF task[c].aborted THEN "failed"
                                           ELSE IF task[c].kind = "body" THEN "handed" ELSE @]
    /\ UNCHANGED <<surroundings, lease, retained, dropping, references>>

(* readRetainedArtifact: it releases the artifact and then the lease,      *)
(* whether it could read it or not.                                        *)
Read(c) ==
    /\ task[c].at = "reading"
    /\ \E outcome \in {Answers(c), "failed"} :
         /\ outcome = "done" => Live(c) /\ blob[c] = "stored"
         /\ task' = [task EXCEPT ![c].at = "discarding", ![c].outcome = outcome]
    /\ UNCHANGED <<surroundings, stores>>

Discarded(c) ==
    /\ task[c].at = "discarding"
    /\ blob' = [blob EXCEPT ![c] = IF Live(c) THEN "gone" ELSE @]
    /\ Moves(c, "releasing")
    /\ UNCHANGED <<surroundings, lease, retained, dropping, references>>

(* The lease is returned, or that fails.  Elements are referred to when    *)
(* the answer is formatted.                                                *)
Returned(c, returned) ==
    IF returned \/ ~Live(c) THEN LeasesEnd({c}) ELSE lease' = [lease EXCEPT ![c].is = "left"]

Released(c) ==
    /\ task[c].at = "releasing"
    /\ \E returned \in BOOLEAN : Returned(c, returned)
    /\ Moves(c, "over")
    /\ references' = IF task[c].kind \in {"find", "snapshot"} /\ task[c].outcome = "done"
                     THEN references \cup {c} ELSE references
    /\ UNCHANGED <<surroundings, blob, retained, dropping>>

(* Snapshots and inspections go on with the next frame or aspect, under a  *)
(* lease of its own.                                                       *)
GoesOn(c) ==
    /\ task[c].at = "releasing" /\ task[c].outcome = "done"
    /\ \E returned \in BOOLEAN : Returned(c, returned)
    /\ task' = [task EXCEPT ![c].at = "leasing", ![c].outcome = "none"]
    /\ UNCHANGED <<surroundings, blob, retained, dropping>>

CapturesMore(c) ==
    task[c].kind = "snapshot" /\ GoesOn(c) /\ references' = references \cup {c}
InspectsMore(c) ==
    task[c].kind = "inspect" /\ GoesOn(c) /\ UNCHANGED references

(* webMcpResult: the session keeps the lease, unless it has changed since  *)
(* the call began, and drops the entries it takes to have expired.         *)
SessionChanged(c) == session.disposed \/ session.revision # task[c].revision

KeepLease(c) ==
    /\ task' = [task EXCEPT ![c].at = "over", ![c].outcome = "handed"]
    /\ retained' = {r \in retained : ~lease[r].late} \cup {c}
    /\ UNCHANGED <<surroundings, lease, blob, dropping, references>>

KeepLeaseAnyway(c) == task[c].at = "answering" /\ KeepLease(c)

WebMcpResult(c) ==
    /\ task[c].at = "answering"
    /\ IF SessionChanged(c) THEN Failed(c, "releasing") ELSE KeepLease(c)

-----------------------------------------------------------------------------
(* What the caller does with an artifact and the lease it was given.       *)
Given(c) == task[c].outcome = "handed"

(* browser.renew and browser.release                                       *)
Renew(c) ==
    /\ Given(c) /\ Live(c) /\ ~lease[c].renewed
    /\ lease' = [lease EXCEPT ![c].renewed = TRUE]
    /\ UNCHANGED <<surroundings, task, blob, retained, dropping, references>>

Release(c) ==
    /\ Given(c) /\ Live(c)
    /\ LeasesEnd({c})
    /\ UNCHANGED <<surroundings, task, blob, retained, dropping, references>>

(* browser.release_artifact: the artifact first, and then the lease, if    *)
(* the session still has it.                                               *)
ReleaseArtifact(c) ==
    /\ Given(c) /\ dropping[c] = "none" /\ blob[c] = "stored"
    /\ dropping' = [dropping EXCEPT ![c] = "discarding"]
    /\ UNCHANGED <<surroundings, task, lease, blob, retained, references>>

ArtifactReleased(c) ==
    /\ dropping[c] = "discarding" /\ Live(c)
    /\ blob' = [blob EXCEPT ![c] = "gone"]
    /\ retained' = retained \ {c}
    /\ dropping' = [dropping EXCEPT ![c] = IF c \in retained THEN "releasing" ELSE "none"]
    /\ UNCHANGED <<surroundings, task, lease, references>>

ArtifactKept(c) ==
    /\ dropping[c] = "discarding"
    /\ dropping' = [dropping EXCEPT ![c] = "none"]
    /\ UNCHANGED <<surroundings, task, lease, blob, retained, references>>

LeaseDropped(c) ==
    /\ dropping[c] = "releasing"
    /\ \E returned \in BOOLEAN : Returned(c, returned)
    /\ dropping' = [dropping EXCEPT ![c] = "none"]
    /\ UNCHANGED <<surroundings, task, blob, retained, references>>

ToolSessionNext ==
    \/ Withdrawn \/ Republished \/ RebindClient \/ Dispose \/ RevokeSessionTarget
    \/ \E c \in ToolCalls :
         \/ DeadlinePasses(c) \/ RenewedExpires(c)
         \/ Call(c) \/ Abort(c) \/ Resolved(c) \/ Unresolved(c) \/ Acquired(c)
         \/ AnsweredInline(c) \/ CommandFails(c) \/ AnsweredByArtifact(c)
         \/ EventAwaited(c) \/ EventTold(c) \/ WaitFails(c)
         \/ Read(c) \/ Discarded(c) \/ Released(c) \/ CapturesMore(c)
         \/ InspectsMore(c) \/ WebMcpResult(c)
         \/ Renew(c) \/ Release(c) \/ ReleaseArtifact(c) \/ ArtifactReleased(c)
         \/ ArtifactKept(c) \/ LeaseDropped(c)

ToolSessionSpec == ToolSessionInit /\ [][ToolSessionNext]_toolSessionVars
-----------------------------------------------------------------------------
Idle(c) == task[c].at \in {"idle", "over"} /\ dropping[c] = "none"

(* No lease is forgotten: once a call is over its lease has been returned, *)
(* or a return of it was tried, unless its caller was told of it.  When    *)
(* the session has been disposed of, this is so of the leases it had kept  *)
(* for artifacts too, whenever their calls were answered; a lease the      *)
(* caller has renewed is the caller's.  Nor is a subscription forgotten,   *)
(* but under a lease of the caller's.                                      *)
ReleasedWithSession ==
    \A c \in ToolCalls : Idle(c) =>
        /\ lease[c].is = "held" =>
              /\ Given(c)
              /\ task[c].kind = "webmcp" /\ ~lease[c].renewed
                   => c \in retained /\ ~session.disposed
        /\ lease[c].subscribed => task[c].kind = "listen"

(* The session returns the leases of its artifacts also when they have     *)
(* been renewed.                                                           *)
RenewedIsReleased ==
    \A c \in ToolCalls :
        Idle(c) /\ lease[c].is = "held" /\ task[c].kind = "webmcp" => c \in retained

(* An artifact nobody can read any more is gone.                           *)
NoArtifactIsOrphaned == \A c \in ToolCalls : Idle(c) /\ blob[c] = "stored" => Live(c)
=============================================================================
