------------------------- MODULE MCFileArtifactStore -------------------------
(* Small instances, for TLC, of the two keepers of artifacts: the store in *)
(* files and the tool session.  A behaviour is one of FileArtifactStore or *)
(* one of ToolSession: the other stays as it began.                        *)
EXTENDS FileArtifactStore, TLC

CONSTANTS a1, a2, o1, o2, t1, t2, c1, c2, ToolCalls, MaxPublications, MaxRebinds

VARIABLES machine,
    published, latest, session, task, lease, blob, retained, dropping, references

T == INSTANCE ToolSession

ASSUME MachinesAssumption == T!ToolSessionAssumption

toolSessionVars ==
    <<published, latest, session, task, lease, blob, retained, dropping, references>>

TwoOwners == a1 :> o1 @@ a2 :> o2
TwoTargets == a1 :> t1 @@ a2 :> t2

(* One call may be of WebMCP only, the other of any kind.                  *)
MCInit ==
    /\ machine \in {"files", "tools"} /\ Init /\ T!ToolSessionInit
    /\ task[c2].kind = "webmcp"
    /\ machine = "files" => task[c1].kind = "find"

FilesRun == machine = "files" /\ Next /\ UNCHANGED <<machine, toolSessionVars>>
ToolsRun == machine = "tools" /\ T!ToolSessionNext /\ UNCHANGED <<machine, vars>>

MCSpec == MCInit /\ [][FilesRun \/ ToolsRun]_<<machine, vars, toolSessionVars>>

(* The properties of the tool session, as its module states them: no lease *)
(* is forgotten, also when the session is disposed of.                     *)
ReleasedWithSession == T!ReleasedWithSession
ToolSessionTypeOK == T!ToolSessionTypeOK

(* Properties the code does not have: it returns its leases also when they *)
(* were renewed,                                                           *)
RenewedIsReleased == T!RenewedIsReleased
(* and an artifact that nobody can read any more is gone.                  *)
NoArtifactIsOrphaned == T!NoArtifactIsOrphaned
=============================================================================
