----------------------- MODULE FileArtifactStoreProofs -----------------------
(* What is proved about the two keepers of artifacts, for any sets of      *)
(* artifacts, owners and targets and any number of crashes.                *)
(*                                                                         *)
(* The accounts of the store are left out of the invariant: no step of a   *)
(* proof here depends on how many bytes there are.                         *)
EXTENDS MCFileArtifactStore, TLAPS

-----------------------------------------------------------------------------
(* The inductive invariant of the store in files                           *)

StoreTypes ==
    /\ up \in BOOLEAN
    /\ lapsed \subseteq Artifacts /\ revoked \subseteq Targets
    /\ writer \in [Artifacts -> Writer] /\ disk \in [Artifacts -> Files]
    /\ stored \subseteq Artifacts /\ salvaged \subseteq Artifacts /\ ended \subseteq Artifacts

Closing == {"open", "digesting", "data", "metadata", "written"}

(* An artifact that is not registered yet has never been available.        *)
FreshUntilRegistered ==
    \A a \in Artifacts : writer[a].phase \in Closing \cup {"none"} => a \notin stored \cup ended

(* The files on the disk are those the writer has got to.                  *)
FilesFollowWriter ==
    \A a \in Artifacts :
        /\ writer[a].phase \in {"none", "open", "digesting", "data"} => ~disk[a].bin /\ ~disk[a].json
        /\ writer[a].phase = "metadata" => disk[a].bin /\ ~disk[a].json
        /\ writer[a].phase = "written" => disk[a].bin /\ disk[a].json

(* An open store serves what is complete on the disk, but for what is      *)
(* about to be registered.                                                 *)
ServedIsComplete ==
    up => \A a \in Artifacts :
        /\ a \in stored => Loadable(a)
        /\ Loadable(a) => a \in stored \/ writer[a].phase = "written"

(* Between a crash and the next start nobody writes and nothing is served. *)
DownIsQuiet ==
    ~up => stored = {} /\ \A a \in Artifacts : writer[a].phase \in {"none", "over"}

(* The writers of a revoked target have been told.                         *)
RevokedIsSignalled ==
    \A a \in Artifacts : writer[a].phase \in Closing /\ TargetOf[a] \in revoked => writer[a].signalled

(* What the next start will find is not of a revoked target.               *)
RevokedIsOffTheDisk ==
    ~up => \A a \in Artifacts \ salvaged : Loadable(a) => TargetOf[a] \notin revoked

StoreInv ==
    /\ StoreTypes /\ FreshUntilRegistered /\ FilesFollowWriter /\ ServedIsComplete
    /\ DownIsQuiet /\ RevokedIsSignalled /\ RevokedIsOffTheDisk /\ RevokedIsGone

(* It holds of a new store.                                                *)
LEMMA StoreInitially == Init => StoreInv
BY FileArtifactsAssumption
   DEF Init, Unwritten, NoFiles, StoreInv, StoreTypes, FreshUntilRegistered, FilesFollowWriter,
       ServedIsComplete, DownIsQuiet, RevokedIsSignalled, RevokedIsOffTheDisk, RevokedIsGone,
       Phases, Writer, Files, Loadable, Closing

-----------------------------------------------------------------------------
(* What the steps do to one writer and to the files of one artifact        *)

(* A writer goes on to its next phase.                                     *)
LEMMA Advances ==
    ASSUME writer \in [Artifacts -> Writer], NEW a \in Artifacts, NEW p \in Phases,
           writer' = [writer EXCEPT ![a].phase = p]
    PROVE  /\ writer' \in [Artifacts -> Writer]
           /\ \A b \in Artifacts : /\ writer'[b].phase = IF b = a THEN p ELSE writer[b].phase
                                   /\ writer'[b].signalled = writer[b].signalled
BY DEF Writer

(* A file of an artifact appears.                                          *)
LEMMA Appears ==
    ASSUME disk \in [Artifacts -> Files], NEW a \in Artifacts
    PROVE  /\ disk' = [disk EXCEPT ![a].temporary = TRUE] =>
                 /\ disk' \in [Artifacts -> Files]
                 /\ \A b \in Artifacts : disk'[b].bin = disk[b].bin /\ disk'[b].json = disk[b].json
           /\ disk' = [disk EXCEPT ![a].bin = TRUE] =>
                 /\ disk' \in [Artifacts -> Files]
                 /\ \A b \in Artifacts : /\ disk'[b].bin = IF b = a THEN TRUE ELSE disk[b].bin
                                         /\ disk'[b].json = disk[b].json
           /\ disk' = [disk EXCEPT ![a].json = TRUE] =>
                 /\ disk' \in [Artifacts -> Files]
                 /\ \A b \in Artifacts : /\ disk'[b].json = IF b = a THEN TRUE ELSE disk[b].json
                                         /\ disk'[b].bin = disk[b].bin
<1>1. ASSUME disk' = [disk EXCEPT ![a].temporary = TRUE]
      PROVE  /\ disk' \in [Artifacts -> Files]
             /\ \A b \in Artifacts : disk'[b].bin = disk[b].bin /\ disk'[b].json = disk[b].json
    BY <1>1 DEF Files
<1>2. ASSUME disk' = [disk EXCEPT ![a].bin = TRUE]
      PROVE  /\ disk' \in [Artifacts -> Files]
             /\ \A b \in Artifacts : /\ disk'[b].bin = IF b = a THEN TRUE ELSE disk[b].bin
                                     /\ disk'[b].json = disk[b].json
    BY <1>2 DEF Files
<1>3. ASSUME disk' = [disk EXCEPT ![a].json = TRUE]
      PROVE  /\ disk' \in [Artifacts -> Files]
             /\ \A b \in Artifacts : /\ disk'[b].json = IF b = a THEN TRUE ELSE disk[b].json
                                     /\ disk'[b].bin = disk[b].bin
    BY <1>3 DEF Files
<1> QED
    BY <1>1, <1>2, <1>3

(* Files go, and the temporary one may go with them.                       *)
LEMMA Disappears ==
    ASSUME disk \in [Artifacts -> Files], NEW a \in Artifacts
    PROVE  /\ disk' = [disk EXCEPT ![a].temporary = FALSE] =>
                 /\ disk' \in [Artifacts -> Files]
                 /\ \A b \in Artifacts : disk'[b].bin = disk[b].bin /\ disk'[b].json = disk[b].json
           /\ disk' = [disk EXCEPT ![a].bin = FALSE, ![a].json = FALSE] =>
                 /\ disk' \in [Artifacts -> Files]
                 /\ ~disk'[a].bin /\ ~disk'[a].json
                 /\ \A b \in Artifacts \ {a} : disk'[b] = disk[b]
<1>1. ASSUME disk' = [disk EXCEPT ![a].temporary = FALSE]
      PROVE  /\ disk' \in [Artifacts -> Files]
             /\ \A b \in Artifacts : disk'[b].bin = disk[b].bin /\ disk'[b].json = disk[b].json
    BY <1>1 DEF Files
<1>2. ASSUME disk' = [disk EXCEPT ![a].bin = FALSE, ![a].json = FALSE]
      PROVE  /\ disk' \in [Artifacts -> Files]
             /\ ~disk'[a].bin /\ ~disk'[a].json
             /\ \A b \in Artifacts \ {a} : disk'[b] = disk[b]
    <2>1. [[disk[a] EXCEPT !.bin = FALSE] EXCEPT !.json = FALSE] \in Files
        BY DEF Files
    <2>2. disk' = [disk EXCEPT ![a] = [[disk[a] EXCEPT !.bin = FALSE] EXCEPT !.json = FALSE]]
        BY <1>2
    <2>3. ~disk'[a].bin /\ ~disk'[a].json
        BY <2>2 DEF Files
    <2> QED
        BY <2>1, <2>2, <2>3
<1> QED
    BY <1>1, <1>2

(* What is removed has neither file, and the other files stay.             *)
LEMMA RemoveLeaves ==
    ASSUME disk \in [Artifacts -> Files], NEW S, Remove(S)
    PROVE  /\ stored' = stored \ S /\ disk' \in [Artifacts -> Files]
           /\ \A b \in Artifacts : IF b \in stored \cap S THEN ~disk'[b].bin /\ ~disk'[b].json
                                   ELSE disk'[b] = disk[b]
BY DEF Remove, Left, Unlinked, Files

(* Every step keeps the types.                                             *)
LEMMA StoreTypesStep == StoreTypes /\ [Next]_vars => StoreTypes'
<1> SUFFICES ASSUME StoreTypes, [Next]_vars PROVE StoreTypes'
    OBVIOUS
<1> USE DEF StoreTypes
<1>1. ASSUME NEW a \in Artifacts, CreateWriter(a) PROVE StoreTypes'
    BY ZenonT(60), <1>1 DEF CreateWriter, Writer, Phases, store
<1>2. ASSUME NEW a \in Artifacts, Write(a) PROVE StoreTypes'
    <2>1. Remove(lapsed) /\ UNCHANGED <<up, lapsed, revoked, salvaged>> /\ ended' = ended \cup (Available \ Available')
        BY <1>2 DEF Write, Ending
    <2>2. writer' = writer \/ (writer' = [writer EXCEPT ![a].length = @ + 1] /\ Length(a) < MaxLength)
        BY <1>2 DEF Write
    <2>3. writer' \in [Artifacts -> Writer]
        BY <2>2, FileArtifactsAssumption DEF Writer, Length
    <2>4. Available \subseteq Artifacts
        BY DEF Available
    <2> QED
        BY <2>1, <2>3, <2>4, RemoveLeaves
<1>3. ASSUME NEW a \in Artifacts, Abort(a) PROVE StoreTypes'
    <2>1. PICK p \in Phases : writer' = [writer EXCEPT ![a].aborted = TRUE, ![a].reserving = FALSE, ![a].phase = p]
        BY <1>3 DEF Abort, Writer, Phases
    <2>2. writer' \in [Artifacts -> Writer]
        BY ZenonT(60), <2>1 DEF Writer
    <2> QED
        BY <1>3, <2>2 DEF Abort, store
<1>4. ASSUME NEW a \in Artifacts, Close(a) PROVE StoreTypes'
    BY <1>4 DEF Close, Writer, Phases, store
<1>5. ASSUME NEW a \in Artifacts, Digested(a) PROVE StoreTypes'
    BY <1>5, Advances, Appears DEF Digested, Phases, store
<1>6. ASSUME NEW a \in Artifacts, DataWritten(a) PROVE StoreTypes'
    BY <1>6, Advances, Appears DEF DataWritten, Phases, store
<1>7. ASSUME NEW a \in Artifacts, MetadataWritten(a) PROVE StoreTypes'
    BY <1>7, Advances, Appears DEF MetadataWritten, Phases, store
<1>8. ASSUME NEW a \in Artifacts, Registered(a) PROVE StoreTypes'
    <2>1. writer' \in [Artifacts -> Writer]
        BY <1>8, Advances DEF Registered, Phases
    <2>2. disk' \in [Artifacts -> Files] /\ stored' \subseteq Artifacts
        BY <1>8, Disappears DEF Registered, store
    <2>3. UNCHANGED <<up, lapsed, revoked, salvaged>> /\ ended' \subseteq Artifacts
        BY <1>8 DEF Registered, Ending, Available
    <2> QED
        BY <2>1, <2>2, <2>3
<1>9. ASSUME NEW a \in Artifacts, Settled(a) PROVE StoreTypes'
    <2>1. writer' \in [Artifacts -> Writer]
        BY ZenonT(60), <1>9 DEF Settled, Writer, Phases
    <2> QED
        BY <1>9, <2>1, Disappears DEF Settled, store
<1>10. ASSUME NEW a \in Artifacts, Access(a) PROVE StoreTypes'
    BY <1>10, RemoveLeaves DEF Access, Ending, Available
<1>11. ASSUME NEW a \in Artifacts, Expire(a) PROVE StoreTypes'
    BY <1>11 DEF Expire, Ending, Available, store
<1>12. ASSUME NEW t \in Targets, Revoke(t) PROVE StoreTypes'
    <2>1. writer' \in [Artifacts -> Writer]
        BY <1>12 DEF Revoke, Writer
    <2> QED
        BY <1>12, <2>1, RemoveLeaves DEF Revoke, Ending, Available
<1>13. CASE Cleanup
    BY <1>13, RemoveLeaves DEF Cleanup, Ending, Available
<1>14. CASE Crash
    <2>1. writer' \in [Artifacts -> Writer]
        BY <1>14 DEF Crash, Unwritten, Writer, Phases, Length
    <2>2. disk' \in [Artifacts -> Files]
        BY <1>14 DEF Crash, Files
    <2> QED
        BY <1>14, <2>1, <2>2 DEF Crash, Ending, Available
<1>15. CASE Restart
    BY <1>15 DEF Restart, KeptFiles, Both, NoFiles, Files, Ending, Available
<1>16. CASE UNCHANGED vars
    BY <1>16 DEF vars
<1> QED
    BY <1>1, <1>2, <1>3, <1>4, <1>5, <1>6, <1>7, <1>8, <1>9, <1>10, <1>11, <1>12, <1>13, <1>14, <1>15,
       <1>16 DEF Next

(* Every step keeps the invariant.                                         *)
LEMMA StoreStep == StoreInv /\ [Next]_vars => StoreInv'
<1> SUFFICES ASSUME StoreInv, [Next]_vars, StoreTypes' PROVE StoreInv'
    BY StoreTypesStep DEF StoreInv
<1>0. writer \in [Artifacts -> Writer] /\ disk \in [Artifacts -> Files]
    BY DEF StoreInv, StoreTypes
<1> USE DEF StoreInv, FreshUntilRegistered, FilesFollowWriter, ServedIsComplete, DownIsQuiet,
            RevokedIsSignalled, RevokedIsOffTheDisk, RevokedIsGone, Loadable, Closing
<1>1. ASSUME NEW a \in Artifacts, CreateWriter(a) PROVE StoreInv'
    <2>1. \A b \in Artifacts : /\ writer'[b].phase = IF b = a THEN "open" ELSE writer[b].phase
                               /\ writer'[b].signalled = writer[b].signalled
        BY <1>0, <1>1 DEF CreateWriter, Writer
    <2>2. up /\ writer[a].phase = "none" /\ TargetOf[a] \notin revoked /\ disk' = disk
        BY <1>1 DEF CreateWriter
    <2>3. UNCHANGED <<up, lapsed, revoked, stored, salvaged, ended>>
        BY <1>1 DEF CreateWriter, store
    <2> QED
        BY <2>1, <2>2, <2>3
<1>2. ASSUME NEW a \in Artifacts, Write(a) PROVE StoreInv'
    <2>1. /\ UNCHANGED <<up, lapsed, revoked, salvaged>> /\ ended' = ended \cup (Available \ Available')
          /\ Remove(lapsed) /\ up
        BY <1>2 DEF Write, Ending
    <2>2. \A b \in Artifacts : writer'[b].phase = writer[b].phase /\ writer'[b].signalled = writer[b].signalled
        BY <1>0, <1>2 DEF Write, Writer
    <2> QED
        BY <1>0, <2>1, <2>2, RemoveLeaves DEF Available
<1>3. ASSUME NEW a \in Artifacts, Abort(a) PROVE StoreInv'
    <2>1. \A b \in Artifacts : /\ \/ writer'[b].phase = writer[b].phase
                                  \/ writer[b].phase = "open" /\ writer'[b].phase = "over"
                               /\ writer'[b].signalled = writer[b].signalled
        BY <1>0, <1>3 DEF Abort, Writer
    <2>2. up /\ disk' = disk
        BY <1>3 DEF Abort
    <2>3. UNCHANGED <<up, lapsed, revoked, stored, salvaged, ended>>
        BY <1>3 DEF Abort, store
    <2> QED
        BY <2>1, <2>2, <2>3
<1>4. ASSUME NEW a \in Artifacts, Close(a) PROVE StoreInv'
    BY <1>0, <1>4, Advances DEF Close, store, Phases
<1>5. ASSUME NEW a \in Artifacts, Digested(a) PROVE StoreInv'
    <2>1. PICK p \in {"settling", "data"} :
             /\ writer' = [writer EXCEPT ![a].phase = p]
             /\ disk' = IF p = "settling" THEN disk ELSE [disk EXCEPT ![a].temporary = TRUE]
        BY <1>5 DEF Digested
    <2>2. \A b \in Artifacts : /\ writer'[b].phase = IF b = a THEN p ELSE writer[b].phase
                               /\ writer'[b].signalled = writer[b].signalled
        BY <1>0, <2>1, Advances DEF Phases
    <2>3. \A b \in Artifacts : disk'[b].bin = disk[b].bin /\ disk'[b].json = disk[b].json
        BY <1>0, <2>1, Appears
    <2>4. up /\ writer[a].phase = "digesting"
        BY <1>5 DEF Digested
    <2>5. UNCHANGED <<up, lapsed, revoked, stored, salvaged, ended>>
        BY <1>5 DEF Digested, store
    <2> QED
        BY <2>2, <2>3, <2>4, <2>5
<1>6. ASSUME NEW a \in Artifacts, DataWritten(a) PROVE StoreInv'
    <2>1. PICK p \in {"settling", "metadata"} :
             /\ writer' = [writer EXCEPT ![a].phase = p]
             /\ disk' = IF p = "settling" THEN disk ELSE [disk EXCEPT ![a].bin = TRUE]
        BY <1>6 DEF DataWritten
    <2>2. \A b \in Artifacts : /\ writer'[b].phase = IF b = a THEN p ELSE writer[b].phase
                               /\ writer'[b].signalled = writer[b].signalled
        BY <1>0, <2>1, Advances DEF Phases
    <2>3. \A b \in Artifacts : /\ disk'[b].bin = IF b = a /\ p = "metadata" THEN TRUE ELSE disk[b].bin
                               /\ disk'[b].json = disk[b].json
        <3>1. CASE p = "settling"
            BY <2>1, <3>1
        <3>2. CASE p = "metadata" /\ disk' = [disk EXCEPT ![a].bin = TRUE]
            BY <1>0, <3>2, Appears
        <3> QED
            BY <2>1, <3>1, <3>2
    <2>4. up /\ writer[a].phase = "data"
        BY <1>6 DEF DataWritten
    <2>5. UNCHANGED <<up, lapsed, revoked, stored, salvaged, ended>>
        BY <1>6 DEF DataWritten, store
    <2> QED
        BY ZenonT(60), <2>2, <2>3, <2>4, <2>5
<1>7. ASSUME NEW a \in Artifacts, MetadataWritten(a) PROVE StoreInv'
    <2>1. PICK p \in {"settling", "written"} :
             /\ writer' = [writer EXCEPT ![a].phase = p]
             /\ disk' = IF p = "settling" THEN disk ELSE [disk EXCEPT ![a].json = TRUE]
        BY <1>7 DEF MetadataWritten
    <2>2. \A b \in Artifacts : /\ writer'[b].phase = IF b = a THEN p ELSE writer[b].phase
                               /\ writer'[b].signalled = writer[b].signalled
        BY <1>0, <2>1, Advances DEF Phases
    <2>3. \A b \in Artifacts : /\ disk'[b].json = IF b = a /\ p = "written" THEN TRUE ELSE disk[b].json
                               /\ disk'[b].bin = disk[b].bin
        <3>1. CASE p = "settling"
            BY <2>1, <3>1
        <3>2. CASE p = "written" /\ disk' = [disk EXCEPT ![a].json = TRUE]
            BY <1>0, <3>2, Appears
        <3> QED
            BY <2>1, <3>1, <3>2
    <2>4. up /\ writer[a].phase = "metadata"
        BY <1>7 DEF MetadataWritten
    <2>5. UNCHANGED <<up, lapsed, revoked, stored, salvaged, ended>>
        BY <1>7 DEF MetadataWritten, store
    <2> QED
        BY ZenonT(60), <2>2, <2>3, <2>4, <2>5
<1>8. ASSUME NEW a \in Artifacts, Registered(a) PROVE StoreInv'
    BY SMTT(60), <1>0, <1>8, Advances, Disappears DEF Registered, Refused, Cancelled, store, Phases, Ending, Available
<1>9. ASSUME NEW a \in Artifacts, Settled(a) PROVE StoreInv'
    <2>1. \A b \in Artifacts : /\ writer'[b].phase = IF b = a THEN "over" ELSE writer[b].phase
                               /\ writer'[b].signalled = writer[b].signalled
        BY <1>0, <1>9 DEF Settled, Writer
    <2>2. \A b \in Artifacts : disk'[b].bin = disk[b].bin /\ disk'[b].json = disk[b].json
        BY <1>0, <1>9, Disappears DEF Settled
    <2>3. up /\ writer[a].phase = "settling" /\ UNCHANGED <<up, lapsed, revoked, stored, salvaged, ended>>
        BY <1>9 DEF Settled, store
    <2> QED
        BY <2>1, <2>2, <2>3
<1>10. ASSUME NEW a \in Artifacts, Access(a) PROVE StoreInv'
    BY <1>0, <1>10, RemoveLeaves DEF Access, Ending, Available
<1>11. ASSUME NEW a \in Artifacts, Expire(a) PROVE StoreInv'
    BY <1>11 DEF Expire, Ending, Available, store
<1>12. ASSUME NEW t \in Targets, Revoke(t) PROVE StoreInv'
    <2>1. /\ UNCHANGED <<up, lapsed, salvaged>> /\ ended' = ended \cup (Available \ Available')
          /\ Remove({b \in Artifacts : TargetOf[b] = t}) /\ up /\ revoked' = revoked \cup {t}
        BY <1>12 DEF Revoke, Ending
    <2>2. \A b \in Artifacts : /\ writer'[b].phase = writer[b].phase
                               /\ writer'[b].signalled = IF TargetOf[b] = t THEN TRUE ELSE writer[b].signalled
        BY <1>0, <1>12 DEF Revoke, Writer
    <2>3. stored' = {b \in stored : TargetOf[b] # t}
        BY <1>0, <2>1, RemoveLeaves DEF StoreTypes
    <2>4. \A b \in Artifacts : IF b \in stored /\ TargetOf[b] = t THEN ~disk'[b].bin /\ ~disk'[b].json
                              ELSE disk'[b] = disk[b]
        BY <1>0, <2>1, RemoveLeaves
    <2>5. Available \subseteq stored
        BY <2>1 DEF Available
    <2> QED
        BY <2>1, <2>2, <2>3, <2>4, <2>5
<1>13. CASE Cleanup
    BY <1>0, <1>13, RemoveLeaves DEF Cleanup, Ending, Available
<1>14. CASE Crash
    <2>1. PICK torn \in SUBSET stored :
             disk' = [b \in Artifacts |-> IF b \in torn THEN [disk[b] EXCEPT !.bin = FALSE] ELSE disk[b]]
        BY <1>14 DEF Crash
    <2>2. \A b \in Artifacts : disk'[b].bin = (IF b \in torn THEN FALSE ELSE disk[b].bin) /\ disk'[b].json = disk[b].json
        BY <1>0, <2>1 DEF Files
    <2>3. \A b \in Artifacts : writer'[b].phase = IF writer[b].phase = "none" THEN "none" ELSE "over"
        BY <1>14 DEF Crash, Unwritten
    <2>4. /\ up /\ ~up' /\ stored' = {} /\ UNCHANGED <<lapsed, revoked>>
          /\ salvaged' = salvaged \cup {b \in Artifacts : writer[b].phase = "written"}
          /\ ended' = ended \cup (Available \ Available')
        BY <1>14 DEF Crash, Ending
    <2> QED
        BY <2>2, <2>3, <2>4 DEF Available
<1>15. CASE Restart
    BY <1>15 DEF Restart, KeptFiles, Both, NoFiles, Ending, Available
<1>16. CASE UNCHANGED vars
    BY <1>16 DEF vars
<1> QED
    BY <1>1, <1>2, <1>3, <1>4, <1>5, <1>6, <1>7, <1>8, <1>9, <1>10, <1>11, <1>12, <1>13, <1>14, <1>15,
       <1>16 DEF Next

-----------------------------------------------------------------------------
(* The theorems about the store in files                                   *)

(* The invariant holds always.                                             *)
LEMMA StoreAlways == Spec => []StoreInv
<1> QED
    BY StoreInitially, StoreStep, PTL DEF Spec

(* Nothing of a revoked target generation can be read, also when its write *)
(* was under way at the revocation, unless a crash came in between.        *)
THEOREM RevokedArtifactsGone == Spec => []RevokedIsGone
<1>1. StoreInv => RevokedIsGone
    BY DEF StoreInv
<1> QED
    BY <1>1, StoreAlways, PTL

(* After a start the directory holds what is served and nothing else.      *)
THEOREM StartsClean == Spec => RestartIsClean
<1>1. [Next]_vars =>
        [~up /\ up' => \A a \in Artifacts :
            disk'[a] = [bin |-> a \in stored', json |-> a \in stored', temporary |-> FALSE]]_vars
    <2> SUFFICES ASSUME Next, ~up, up', NEW a \in Artifacts
                 PROVE  disk'[a] = [bin |-> a \in stored', json |-> a \in stored', temporary |-> FALSE]
        OBVIOUS
    <2>1. Restart
        BY DEF Next, CreateWriter, Write, Abort, Close, Digested, DataWritten, MetadataWritten, Registered,
               Settled, Access, Expire, Revoke, Cleanup, Crash
    <2>2. disk'[a] = IF a \in stored' THEN Both ELSE NoFiles
        BY <2>1 DEF Restart, KeptFiles
    <2>3. CASE a \in stored'
        BY <2>2, <2>3 DEF Both, NoFiles
    <2>4. CASE a \notin stored'
        <3>1. disk'[a] = [bin |-> FALSE, json |-> FALSE, temporary |-> FALSE]
            BY <2>2, <2>4 DEF NoFiles
        <3>2. (a \in stored') = FALSE
            BY <2>4
        <3> QED
            BY <3>1, <3>2
    <2> QED
        BY <2>3, <2>4
<1> QED
    BY <1>1, PTL DEF Spec, RestartIsClean

(* What becomes available has never been before: it is being registered,   *)
(* or a crash makes it what the next start will find.  And what a step     *)
(* makes unavailable it records as ended.                                  *)
LEMMA PoolStep ==
    ASSUME StoreInv, [Next]_vars
    PROVE  /\ (Available' \ Available) \cap ended = {}
           /\ ended' = ended \cup (Available \ Available')
<1> DEFINE Recorded == /\ (Available' \ Available) \cap ended = {}
                       /\ ended' = ended \cup (Available \ Available')
<1>1. ASSUME UNCHANGED <<up, lapsed, stored, ended>>, up PROVE Recorded
    BY <1>1 DEF Available
<1>2. ASSUME NEW a \in Artifacts,
             CreateWriter(a) \/ Abort(a) \/ Close(a) \/ Digested(a) \/ DataWritten(a)
                \/ MetadataWritten(a) \/ Settled(a)
      PROVE  Recorded
    BY <1>1, <1>2 DEF CreateWriter, Abort, Close, Digested, DataWritten, MetadataWritten, Settled, store
<1>3. ASSUME UNCHANGED <<up, lapsed>>, up, stored' \subseteq stored, Ending PROVE Recorded
    BY <1>3 DEF Available, Ending
<1>4. ASSUME NEW a \in Artifacts, Write(a) \/ Access(a) PROVE Recorded
    BY <1>3, <1>4 DEF Write, Access, Remove, Left
<1>5. ASSUME NEW t \in Targets, Revoke(t) PROVE Recorded
    BY <1>3, <1>5 DEF Revoke, Remove, Left
<1>6. CASE Cleanup
    BY <1>3, <1>6 DEF Cleanup, Remove, Left
<1>7. ASSUME NEW a \in Artifacts, Expire(a) PROVE Recorded
    <2>1. Available' \subseteq Available
        BY <1>7 DEF Expire, Available, store, Loadable
    <2> QED
        BY <1>7, <2>1 DEF Expire, Ending
<1>8. ASSUME NEW a \in Artifacts, Registered(a) PROVE Recorded
    <2>1. up /\ UNCHANGED <<up, lapsed>> /\ stored' \subseteq stored \cup {a} /\ writer[a].phase = "written"
        BY <1>8 DEF Registered, store
    <2>2. a \notin ended
        BY <2>1 DEF StoreInv, FreshUntilRegistered, Closing
    <2> QED
        BY <1>8, <2>1, <2>2 DEF Registered, Ending, Available
<1>9. CASE Crash
    <2>1. PICK torn \in SUBSET stored :
             disk' = [b \in Artifacts |-> IF b \in torn THEN [disk[b] EXCEPT !.bin = FALSE] ELSE disk[b]]
        BY <1>9 DEF Crash
    <2>2. \A b \in Artifacts : Loadable(b)' => Loadable(b)
        BY <2>1 DEF Loadable, StoreInv, StoreTypes, Files
    <2>3. up /\ ~up' /\ UNCHANGED lapsed /\ Ending
        BY <1>9 DEF Crash
    <2>4. ASSUME NEW b \in Available' \ Available PROVE b \notin ended
        <3>1. b \in Artifacts /\ Loadable(b) /\ b \notin stored
            BY <2>2, <2>3, <2>4 DEF Available
        <3>2. writer[b].phase = "written"
            BY <2>3, <3>1 DEF StoreInv, ServedIsComplete
        <3> QED
            BY <3>1, <3>2 DEF StoreInv, FreshUntilRegistered, Closing
    <2> QED
        BY <2>3, <2>4 DEF Ending
<1>10. CASE Restart
    <2>1. Available' = Available
        BY <1>10 DEF Restart, Available
    <2> QED
        BY <1>10, <2>1 DEF Restart, Ending
<1>11. CASE UNCHANGED vars
    BY <1>11 DEF vars, Available, Loadable
<1> QED
    BY <1>2, <1>4, <1>5, <1>6, <1>7, <1>8, <1>9, <1>10, <1>11 DEF Next

(* The store implements the abstract pool of artifacts.                    *)
THEOREM StoreImplementsPool == Spec => ImplementsPool
<1>1. Init => Pool!Init
    BY DEF Init, Pool!Init, Available
<1>2. StoreInv /\ [Next]_vars => [Pool!Next]_<<Available, ended>>
    <2> SUFFICES ASSUME StoreInv, [Next]_vars PROVE Pool!Next
        OBVIOUS
    <2> DEFINE new == Available' \ Available
               old == Available \ Available'
    <2>1. new \in SUBSET (Artifacts \ (Available \cup ended)) /\ old \in SUBSET Available
        BY PoolStep, StoreTypesStep DEF StoreInv, StoreTypes, Available
    <2>2. Available' = (Available \ old) \cup new
        OBVIOUS
    <2>3. ended' = ended \cup old
        BY PoolStep
    <2> QED
        BY <2>1, <2>2, <2>3 DEF Pool!Next, Pool!Become
<1> QED
    BY <1>1, <1>2, StoreAlways, PTL DEF Spec, ImplementsPool, Pool!Spec
-----------------------------------------------------------------------------
(* The tool session                                                        *)

(* Where the lease of a call may be held, and who knows of it: a lease the *)
(* session takes to have expired has been renewed if it is held, and one   *)
(* that went to the caller of a WebMCP call is kept by the session, until  *)
(* the caller renews it or it is being returned.                           *)
LeaseIsKnown(c) ==
    /\ lease[c].is = "held" =>
          /\ task[c].at \notin {"idle", "resolving", "leasing"}
          /\ task[c].at = "over" => task[c].outcome = "handed"
          /\ lease[c].late => lease[c].renewed
    /\ task[c].outcome = "handed" => task[c].at = "over"
    /\ lease[c].is = "held" /\ task[c].outcome = "handed" /\ task[c].kind = "webmcp"
        /\ ~lease[c].renewed /\ dropping[c] # "releasing"
          => c \in retained /\ ~session.disposed
    /\ lease[c].subscribed =>
          \/ task[c].kind = "listen"
          \/ task[c].kind = "wait" /\ task[c].at = "waiting"

(* The part of the type invariant that is needed                           *)
SessionTypes ==
    /\ published \in 0..MaxPublications /\ latest \in 0..MaxPublications
    /\ session \in [revision : 0..MaxRebinds, disposed : BOOLEAN]
    /\ task \in [ToolCalls -> T!ToolTask] /\ lease \in [ToolCalls -> T!ToolLease]
    /\ dropping \in [ToolCalls -> {"none", "discarding", "releasing"}]

SessionInv == SessionTypes /\ \A c \in ToolCalls : LeaseIsKnown(c)

(* It holds of a new session.                                              *)
LEMMA SessionInitially == T!ToolSessionInit => SessionInv
<1> SUFFICES ASSUME T!ToolSessionInit PROVE SessionInv
    OBVIOUS
<1>0. MaxPublications \in Nat \ {0} /\ MaxRebinds \in Nat
    BY MachinesAssumption DEF T!ToolSessionAssumption
<1>1. task \in [ToolCalls -> T!ToolTask]
    <2>1. task \in [ToolCalls -> [kind : T!ToolKinds, generation : {0}, revision : {0}, aborted : {FALSE},
                                  at : {"idle"}, outcome : {"none"}]]
        BY DEF T!ToolSessionInit
    <2> SUFFICES ASSUME NEW c \in ToolCalls PROVE task[c] \in T!ToolTask
        BY <2>1
    <2>2. 0 \in 0..MaxPublications /\ 0 \in 0..MaxRebinds
        BY <1>0
    <2>3. task[c] \in [kind : T!ToolKinds, generation : {0}, revision : {0}, aborted : {FALSE},
                       at : {"idle"}, outcome : {"none"}]
        BY <2>1
    <2> QED
        BY <2>2, <2>3 DEF T!ToolTask
<1>2. \A c \in ToolCalls : task[c].at = "idle" /\ task[c].outcome = "none"
    BY DEF T!ToolSessionInit
<1>3. lease \in [ToolCalls -> T!ToolLease]
    BY DEF T!ToolSessionInit, T!ToolLease, T!LeaseStates
<1>4. \A c \in ToolCalls : lease[c].is = "none" /\ ~lease[c].subscribed
    BY DEF T!ToolSessionInit
<1>5. \A c \in ToolCalls : LeaseIsKnown(c)
    <2> SUFFICES ASSUME NEW c \in ToolCalls PROVE LeaseIsKnown(c)
        OBVIOUS
    <2> QED
        BY <1>2, <1>4 DEF LeaseIsKnown
<1>6. session \in [revision : 0..MaxRebinds, disposed : BOOLEAN]
    BY <1>0 DEF T!ToolSessionInit
<1>7. published \in 0..MaxPublications /\ latest \in 0..MaxPublications
    BY <1>0 DEF T!ToolSessionInit
<1> QED
    BY <1>1, <1>3, <1>5, <1>6, <1>7 DEF T!ToolSessionInit, SessionInv, SessionTypes

(* Leases that end are not held, and the others stay.                      *)
LEMMA LeasesEndDoes ==
    ASSUME lease \in [ToolCalls -> T!ToolLease], NEW S, T!LeasesEnd(S)
    PROVE  /\ lease' \in [ToolCalls -> T!ToolLease]
           /\ \A b \in ToolCalls :
                 /\ lease'[b] = lease[b] \/ (lease'[b].is = "ended" /\ ~lease'[b].subscribed)
                 /\ b \in S => lease'[b].is # "held"
<1> SUFFICES ASSUME NEW b \in ToolCalls
             PROVE  /\ lease'[b] \in T!ToolLease
                    /\ lease'[b] = lease[b] \/ (lease'[b].is = "ended" /\ ~lease'[b].subscribed)
                    /\ b \in S => lease'[b].is # "held"
    BY DEF T!LeasesEnd
<1>1. CASE b \in S /\ T!Live(b)
    BY <1>1 DEF T!LeasesEnd, T!ToolLease, T!LeaseStates
<1>2. CASE ~(b \in S /\ T!Live(b))
    <2>1. lease'[b] = lease[b]
        BY <1>2 DEF T!LeasesEnd
    <2>2. b \in S => lease'[b].is # "held"
        BY <1>2, <2>1 DEF T!Live
    <2> QED
        BY <2>1, <2>2
<1> QED
    BY <1>1, <1>2

(* A return, whether it succeeds or fails, leaves the lease not held.      *)
LEMMA ReturnedDoes ==
    ASSUME lease \in [ToolCalls -> T!ToolLease], NEW c \in ToolCalls, NEW r \in BOOLEAN, T!Returned(c, r)
    PROVE  /\ lease' \in [ToolCalls -> T!ToolLease]
           /\ \A b \in ToolCalls : \/ lease'[b] = lease[b]
                                   \/ /\ lease'[b].is # "held"
                                      /\ lease'[b].subscribed => lease[b].subscribed
           /\ lease'[c].is # "held"
<1>1. CASE T!LeasesEnd({c})
    BY <1>1, LeasesEndDoes
<1>2. CASE lease' = [lease EXCEPT ![c].is = "left"]
    BY <1>2 DEF T!ToolLease, T!LeaseStates
<1> QED
    BY <1>1, <1>2 DEF T!Returned

(* Every step of a call, of the session or of the broker keeps the types.  *)
LEMMA SessionTypesStep ==
    ASSUME SessionTypes, T!ToolSessionNext
    PROVE  SessionTypes'
<1>0. /\ MaxPublications \in Nat \ {0} /\ MaxRebinds \in Nat
      /\ task \in [ToolCalls -> T!ToolTask] /\ lease \in [ToolCalls -> T!ToolLease]
      /\ session \in [revision : 0..MaxRebinds, disposed : BOOLEAN] /\ published \in 0..MaxPublications
    BY MachinesAssumption DEF T!ToolSessionAssumption, SessionTypes
<1>1. CASE T!Withdrawn
    BY <1>0, <1>1, LeasesEndDoes DEF T!Withdrawn, SessionTypes
<1>2. CASE T!Republished
    BY <1>0, <1>2 DEF T!Republished, T!stores, SessionTypes
<1>3. CASE T!RebindClient
    <2>1. session' \in [revision : 0..MaxRebinds, disposed : BOOLEAN]
        BY <1>0, <1>3 DEF T!RebindClient
    <2> QED
        BY <1>0, <1>3, <2>1, LeasesEndDoes DEF T!RebindClient, T!ReleaseRetained, SessionTypes
<1>4. CASE T!Dispose
    BY <1>0, <1>4 DEF T!Dispose, T!ReleaseRetained, SessionTypes
<1>5. CASE T!RevokeSessionTarget
    BY <1>0, <1>5 DEF T!RevokeSessionTarget, T!ReleaseRetained, T!surroundings, SessionTypes
<1>6. ASSUME NEW c \in ToolCalls, T!DeadlinePasses(c) PROVE SessionTypes'
    <2>0. PICK is \in {lease[c].is, "ended"}, subscribed \in BOOLEAN :
            lease' = [lease EXCEPT ![c].late = TRUE, ![c].is = is, ![c].subscribed = subscribed]
        BY <1>0, <1>6, ZenonT(60) DEF T!DeadlinePasses, T!ToolLease
    <2>1. lease' \in [ToolCalls -> T!ToolLease]
        <3>1. [[[lease[c] EXCEPT !.late = TRUE] EXCEPT !.is = is] EXCEPT !.subscribed = subscribed] \in T!ToolLease
            BY <1>0 DEF T!ToolLease, T!LeaseStates
        <3>2. lease' = [lease EXCEPT ![c] =
                  [[[lease[c] EXCEPT !.late = TRUE] EXCEPT !.is = is] EXCEPT !.subscribed = subscribed]]
            BY <2>0
        <3> QED
            BY <1>0, <3>1, <3>2
    <2> QED
        BY <1>0, <1>6, <2>1 DEF T!DeadlinePasses, T!surroundings, SessionTypes
<1>7. ASSUME NEW c \in ToolCalls, T!RenewedExpires(c) \/ T!Release(c) PROVE SessionTypes'
    BY <1>0, <1>7, LeasesEndDoes DEF T!RenewedExpires, T!Release, T!surroundings, SessionTypes
<1>8. ASSUME NEW c \in ToolCalls, T!Renew(c) PROVE SessionTypes'
    <2>1. lease' \in [ToolCalls -> T!ToolLease]
        BY <1>0, <1>8 DEF T!Renew, T!ToolLease
    <2> QED
        BY <1>0, <1>8, <2>1 DEF T!Renew, T!surroundings, SessionTypes
<1>9. ASSUME NEW c \in ToolCalls, T!Call(c) \/ T!Abort(c) \/ T!Resolved(c) PROVE SessionTypes'
    <2>1. session.revision \in 0..MaxRebinds
        BY <1>0
    <2>2. task' \in [ToolCalls -> T!ToolTask]
        <3>1. CASE T!Call(c)
            <4>1. [task[c] EXCEPT !.at = "resolving", !.revision = session.revision] \in T!ToolTask
                BY ZenonT(60), <1>0, <2>1 DEF T!ToolTask
            <4>2. task' = [task EXCEPT ![c] = [task[c] EXCEPT !.at = "resolving", !.revision = session.revision]]
                BY <1>0, <3>1 DEF T!Call
            <4> QED
                BY <1>0, <4>1, <4>2
        <3>2. CASE T!Abort(c)
            BY ZenonT(60), <1>0, <3>2 DEF T!Abort, T!ToolTask
        <3>3. CASE T!Resolved(c)
            <4>1. [task[c] EXCEPT !.at = "leasing", !.generation = published] \in T!ToolTask
                BY ZenonT(60), <1>0 DEF T!ToolTask
            <4>2. task' = [task EXCEPT ![c] = [task[c] EXCEPT !.at = "leasing", !.generation = published]]
                BY <1>0, <3>3 DEF T!Resolved
            <4> QED
                BY <1>0, <4>1, <4>2
        <3> QED
            BY <1>0, <1>9, <3>1, <3>2, <3>3
    <2> QED
        BY <1>0, <1>9, <2>2 DEF T!Call, T!Abort, T!Resolved, T!surroundings, T!stores, SessionTypes
<1>10. ASSUME NEW c \in ToolCalls,
              \/ T!Unresolved(c) \/ T!AnsweredInline(c) \/ T!CommandFails(c) \/ T!AnsweredByArtifact(c)
              \/ T!Read(c) \/ T!Discarded(c) \/ T!WebMcpResult(c)
       PROVE  SessionTypes'
    <2>1. UNCHANGED <<T!surroundings, lease, dropping>>
        BY <1>0, <1>10 DEF T!Unresolved, T!AnsweredInline, T!CommandFails, T!AnsweredByArtifact, T!Read, T!Discarded,
                     T!WebMcpResult, T!Failed, T!KeepLease, T!surroundings, T!stores
    <2>2. task' \in [ToolCalls -> T!ToolTask]
        BY <1>0, <1>10 DEF T!Unresolved, T!AnsweredInline, T!CommandFails, T!AnsweredByArtifact, T!WithArtifact, T!Read,
                     T!Discarded, T!WebMcpResult, T!Failed, T!KeepLease, T!Answers, T!Moves, T!ToolTask
    <2> QED
        BY <1>0, <2>1, <2>2 DEF T!surroundings, SessionTypes
<1>11. ASSUME NEW c \in ToolCalls,
              T!Acquired(c) \/ T!EventAwaited(c) \/ T!EventTold(c) \/ T!WaitFails(c)
       PROVE  SessionTypes'
    <2>1. task' \in [ToolCalls -> T!ToolTask]
        BY <1>0, <1>11 DEF T!Acquired, T!EventAwaited, T!EventTold, T!WaitFails, T!AfterWait, T!Moves, T!ToolTask
    <2>2. lease' \in [ToolCalls -> T!ToolLease]
        <3>1. CASE T!Acquired(c)
            BY ZenonT(60), <1>0, <3>1 DEF T!Acquired, T!ToolLease, T!LeaseStates
        <3>2. CASE T!EventAwaited(c) \/ T!WaitFails(c)
            BY ZenonT(60), <1>0, <3>2 DEF T!EventAwaited, T!WaitFails, T!ToolLease
        <3>3. CASE T!EventTold(c)
            BY ZenonT(60), <1>0, <3>3 DEF T!EventTold, T!ToolLease
        <3> QED
            BY <1>0, <1>11, <3>1, <3>2, <3>3
    <2>3. UNCHANGED <<T!surroundings, dropping>>
        BY <1>0, <1>11 DEF T!Acquired, T!EventAwaited, T!EventTold, T!WaitFails
    <2> QED
        BY <1>0, <2>1, <2>2, <2>3 DEF T!surroundings, SessionTypes
<1>12. ASSUME NEW c \in ToolCalls, T!Released(c) \/ T!CapturesMore(c) \/ T!InspectsMore(c)
       PROVE  SessionTypes'
    <2>1. task' \in [ToolCalls -> T!ToolTask]
        BY <1>0, <1>12 DEF T!Released, T!CapturesMore, T!InspectsMore, T!GoesOn, T!Moves, T!ToolTask
    <2>2. \E r \in BOOLEAN : T!Returned(c, r)
        BY <1>0, <1>12 DEF T!Released, T!CapturesMore, T!InspectsMore, T!GoesOn
    <2>3. UNCHANGED <<T!surroundings, dropping>>
        BY <1>0, <1>12 DEF T!Released, T!CapturesMore, T!InspectsMore, T!GoesOn
    <2> QED
        BY <1>0, <2>1, <2>2, <2>3, ReturnedDoes DEF T!surroundings, SessionTypes
<1>13. ASSUME NEW c \in ToolCalls, T!ReleaseArtifact(c) \/ T!ArtifactReleased(c) \/ T!ArtifactKept(c)
       PROVE  SessionTypes'
    BY <1>0, <1>13 DEF T!ReleaseArtifact, T!ArtifactReleased, T!ArtifactKept, T!surroundings, SessionTypes
<1>14. ASSUME NEW c \in ToolCalls, T!LeaseDropped(c) PROVE SessionTypes'
    BY <1>0, <1>14, ReturnedDoes DEF T!LeaseDropped, T!surroundings, SessionTypes
<1> QED
    BY <1>1, <1>2, <1>3, <1>4, <1>5, <1>6, <1>7, <1>8, <1>9, <1>10, <1>11, <1>12, <1>13, <1>14
    DEF T!ToolSessionNext

(* Every step keeps every lease known.                                     *)
LEMMA LeasesKnownStep ==
    ASSUME SessionInv, T!ToolSessionNext, NEW b \in ToolCalls
    PROVE  LeaseIsKnown(b)'
<1>0. /\ task \in [ToolCalls -> T!ToolTask] /\ lease \in [ToolCalls -> T!ToolLease]
      /\ session \in [revision : 0..MaxRebinds, disposed : BOOLEAN] /\ LeaseIsKnown(b)
      /\ dropping \in [ToolCalls -> {"none", "discarding", "releasing"}]
    BY DEF SessionInv, SessionTypes
<1> USE DEF LeaseIsKnown
<1>1. CASE T!Withdrawn \/ T!RebindClient
    <2>1. lease'[b].is # "held" /\ (lease'[b] = lease[b] \/ ~lease'[b].subscribed) /\ task' = task
        BY <1>0, <1>1, LeasesEndDoes DEF T!Withdrawn, T!RebindClient
    <2> QED
        BY <1>0, <2>1
<1>2. CASE T!Republished
    BY <1>0, <1>2 DEF T!Republished, T!stores
<1>3. CASE T!Dispose \/ T!RevokeSessionTarget
    <2>1. task' = task /\ lease' = lease /\ (b \in retained => dropping'[b] = "releasing")
        BY <1>3 DEF T!Dispose, T!RevokeSessionTarget, T!ReleaseRetained
    <2>2. b \notin retained => dropping'[b] = dropping[b]
        BY <1>3 DEF T!Dispose, T!RevokeSessionTarget, T!ReleaseRetained
    <2> QED
        BY <1>0, <2>1, <2>2
<1>4. ASSUME NEW c \in ToolCalls, T!DeadlinePasses(c) PROVE LeaseIsKnown(b)'
    <2>1. UNCHANGED <<session, task, retained, dropping>>
        BY <1>4 DEF T!DeadlinePasses, T!surroundings
    <2>2. /\ lease'[b].is = "held" => lease[b].is = "held" /\ (b = c => lease[b].renewed)
          /\ lease'[b].renewed = lease[b].renewed /\ (lease'[b].late => lease[b].late \/ b = c)
          /\ lease'[b].subscribed => lease[b].subscribed
        BY <1>0, <1>4 DEF T!DeadlinePasses, T!Live, T!ToolLease
    <2> QED
        BY <1>0, <2>1, <2>2
<1>5. ASSUME NEW c \in ToolCalls, T!RenewedExpires(c) \/ T!Release(c) PROVE LeaseIsKnown(b)'
    <2>1. UNCHANGED <<session, task, retained, dropping>>
        BY <1>5 DEF T!RenewedExpires, T!Release, T!surroundings
    <2>2. lease'[b] = lease[b] \/ (lease'[b].is # "held" /\ ~lease'[b].subscribed)
        BY <1>0, <1>5, LeasesEndDoes DEF T!RenewedExpires, T!Release
    <2> QED
        BY <1>0, <2>1, <2>2
<1>6. ASSUME NEW c \in ToolCalls, T!Renew(c) PROVE LeaseIsKnown(b)'
    <2>1. UNCHANGED <<session, task, retained, dropping>>
        BY <1>6 DEF T!Renew, T!surroundings
    <2>2. /\ lease'[b].is = lease[b].is /\ lease'[b].late = lease[b].late
          /\ lease'[b].subscribed = lease[b].subscribed /\ (lease[b].renewed => lease'[b].renewed)
        BY <1>0, <1>6 DEF T!Renew, T!ToolLease
    <2> QED
        BY <1>0, <2>1, <2>2
<1>7. ASSUME NEW c \in ToolCalls,
             \/ T!Call(c) \/ T!Abort(c) \/ T!Resolved(c) \/ T!Unresolved(c) \/ T!AnsweredInline(c)
             \/ T!CommandFails(c) \/ T!AnsweredByArtifact(c) \/ T!Read(c) \/ T!Discarded(c)
      PROVE  LeaseIsKnown(b)'
    <2>1. UNCHANGED <<session, lease, retained, dropping>>
        BY <1>7 DEF T!Call, T!Abort, T!Resolved, T!Unresolved, T!AnsweredInline, T!CommandFails,
                    T!AnsweredByArtifact, T!Read, T!Discarded, T!Failed, T!surroundings, T!stores
    <2>2. /\ task'[b].kind = task[b].kind
          /\ \/ task'[b].at = task[b].at /\ task'[b].outcome = task[b].outcome
             \/ /\ task[b].at \in {"idle", "resolving", "leasing"} /\ task'[b].at \in {"resolving", "leasing"}
                /\ task'[b].outcome = task[b].outcome
             \/ /\ task[b].at \in {"resolving", "leasing"} /\ task'[b].at = "over" /\ task'[b].outcome = "failed"
             \/ /\ task[b].at \in {"executing", "reading", "discarding"}
                /\ task'[b].at \in {"releasing", "reading", "answering", "discarding"}
                /\ task'[b].outcome \in {"done", "failed", task[b].outcome}
             \/ /\ task[b].at = "executing" /\ task[b].kind = "body"
                /\ task'[b].at = "over" /\ task'[b].outcome = "handed"
        <3>1. CASE T!Call(c) \/ T!Abort(c) \/ T!Resolved(c)
            BY <1>0, <3>1 DEF T!Call, T!Abort, T!Resolved, T!ToolTask
        <3>2. CASE T!Unresolved(c) \/ T!AnsweredInline(c) \/ T!CommandFails(c) \/ T!Read(c) \/ T!Discarded(c)
            BY <1>0, <3>2 DEF T!Unresolved, T!AnsweredInline, T!CommandFails, T!Read, T!Discarded, T!Failed,
                              T!Answers, T!Moves, T!ToolTask
        <3>3. CASE T!AnsweredByArtifact(c)
            BY ZenonT(60), <1>0, <3>3 DEF T!AnsweredByArtifact, T!WithArtifact, T!ToolTask
        <3> QED
            BY <1>7, <3>1, <3>2, <3>3
    <2> QED
        BY <1>0, <2>1, <2>2
<1>8. ASSUME NEW c \in ToolCalls, T!Acquired(c) PROVE LeaseIsKnown(b)'
    <2>1. UNCHANGED <<session, retained, dropping>>
        BY <1>8 DEF T!Acquired, T!surroundings
    <2>2. /\ task'[b].kind = task[b].kind /\ task'[b].outcome = task[b].outcome
          /\ task'[b].at = IF b = c THEN "executing" ELSE task[b].at
        BY <1>0, <1>8 DEF T!Acquired, T!Moves, T!ToolTask
    <2>3. /\ lease'[b].subscribed = lease[b].subscribed
          /\ IF b = c THEN ~lease'[b].late /\ task[b].at = "leasing" ELSE lease'[b] = lease[b]
        BY <1>0, <1>8 DEF T!Acquired, T!ToolLease
    <2> QED
        BY <1>0, <2>1, <2>2, <2>3
<1>9. ASSUME NEW c \in ToolCalls, T!EventAwaited(c) \/ T!EventTold(c) \/ T!WaitFails(c)
      PROVE  LeaseIsKnown(b)'
    <2>1. UNCHANGED <<session, retained, dropping>>
        BY <1>9 DEF T!EventAwaited, T!EventTold, T!WaitFails, T!surroundings
    <2>2. b # c => task'[b] = task[b] /\ lease'[b] = lease[b]
        BY <1>0, <1>9 DEF T!EventAwaited, T!EventTold, T!WaitFails, T!Moves, T!AfterWait
    <2>3. /\ lease'[c].is = lease[c].is /\ lease'[c].renewed = lease[c].renewed /\ lease'[c].late = lease[c].late
          /\ task'[c].kind = task[c].kind /\ task[c].at \in {"executing", "waiting"}
        BY <1>0, <1>9 DEF T!EventAwaited, T!EventTold, T!WaitFails, T!Moves, T!AfterWait, T!ToolTask, T!ToolLease
    <2>4. \/ /\ task[c].kind \in {"wait", "listen"} /\ task'[c].at = "waiting" /\ task'[c].outcome = task[c].outcome
          \/ task[c].kind = "listen" /\ task'[c].at = "over" /\ task'[c].outcome = "handed"
          \/ task'[c].at = "releasing" /\ task'[c].outcome \in {"done", "failed"} /\ ~lease'[c].subscribed
        <3>1. CASE T!EventAwaited(c)
            BY <1>0, <3>1 DEF T!EventAwaited, T!Moves, T!ToolTask
        <3>2. CASE T!EventTold(c)
            BY <1>0, <3>2 DEF T!EventTold, T!AfterWait, T!ToolTask, T!ToolLease
        <3>3. CASE T!WaitFails(c)
            BY <1>0, <3>3 DEF T!WaitFails, T!AfterWait, T!ToolTask, T!ToolLease
        <3> QED
            BY <1>9, <3>1, <3>2, <3>3
    <2> QED
        BY <1>0, <2>1, <2>2, <2>3, <2>4
<1>10. ASSUME NEW c \in ToolCalls, T!Released(c) \/ T!CapturesMore(c) \/ T!InspectsMore(c)
       PROVE  LeaseIsKnown(b)'
    <2>1. UNCHANGED <<session, retained, dropping>>
        BY <1>10 DEF T!Released, T!CapturesMore, T!InspectsMore, T!GoesOn, T!surroundings
    <2>2. /\ task'[b].kind = task[b].kind
          /\ IF b = c THEN /\ task[b].at = "releasing"
                           /\ \/ task'[b].at = "over" /\ task'[b].outcome = task[b].outcome
                              \/ task'[b].at = "leasing" /\ task'[b].outcome = "none"
             ELSE task'[b] = task[b]
        BY <1>0, <1>10 DEF T!Released, T!CapturesMore, T!InspectsMore, T!GoesOn, T!Moves, T!ToolTask
    <2>3. PICK r \in BOOLEAN : T!Returned(c, r)
        BY <1>10 DEF T!Released, T!CapturesMore, T!InspectsMore, T!GoesOn
    <2>4. /\ lease'[b] = lease[b] \/ (lease'[b].is # "held" /\ (lease'[b].subscribed => lease[b].subscribed))
          /\ b = c => lease'[b].is # "held"
        BY <1>0, <2>3, ReturnedDoes
    <2> QED
        BY <1>0, <2>1, <2>2, <2>4
<1>11. ASSUME NEW c \in ToolCalls, T!WebMcpResult(c) PROVE LeaseIsKnown(b)'
    <2>1. UNCHANGED <<session, lease, dropping>> /\ task[c].at = "answering"
        BY <1>11 DEF T!WebMcpResult, T!Failed, T!KeepLease, T!surroundings, T!stores
    <2>2. CASE T!SessionChanged(c)
        <3>1. /\ task'[b].kind = task[b].kind /\ retained' = retained
              /\ IF b = c THEN task'[b].at = "releasing" /\ task'[b].outcome = "failed" ELSE task'[b] = task[b]
            BY <1>0, <1>11, <2>2 DEF T!WebMcpResult, T!Failed, T!ToolTask, T!stores
        <3> QED
            BY <1>0, <2>1, <3>1
    <2>3. CASE ~T!SessionChanged(c)
        <3>1. /\ task'[b].kind = task[b].kind /\ ~session.disposed
              /\ IF b = c THEN task'[b].at = "over" /\ task'[b].outcome = "handed" ELSE task'[b] = task[b]
            BY <1>0, <1>11, <2>3 DEF T!WebMcpResult, T!KeepLease, T!SessionChanged, T!ToolTask
        <3>2. b \in retained' <=> b = c \/ (b \in retained /\ ~lease[b].late)
            BY <1>11, <2>3 DEF T!WebMcpResult, T!KeepLease
        <3> QED
            BY <1>0, <2>1, <3>1, <3>2
    <2> QED
        BY <2>2, <2>3
<1>12. ASSUME NEW c \in ToolCalls, T!ReleaseArtifact(c) \/ T!ArtifactReleased(c) \/ T!ArtifactKept(c)
       PROVE  LeaseIsKnown(b)'
    <2>1. UNCHANGED <<session, task, lease>>
        BY <1>12 DEF T!ReleaseArtifact, T!ArtifactReleased, T!ArtifactKept, T!surroundings
    <2>2. (b \in retained /\ b \notin retained') => dropping'[b] = "releasing"
        BY <1>0, <1>12 DEF T!ReleaseArtifact, T!ArtifactReleased, T!ArtifactKept
    <2>3. dropping'[b] # "releasing" => dropping[b] # "releasing"
        BY <1>0, <1>12 DEF T!ReleaseArtifact, T!ArtifactReleased, T!ArtifactKept
    <2> QED
        BY <1>0, <2>1, <2>2, <2>3
<1>13. ASSUME NEW c \in ToolCalls, T!LeaseDropped(c) PROVE LeaseIsKnown(b)'
    <2>1. UNCHANGED <<session, task, retained>>
        BY <1>13 DEF T!LeaseDropped, T!surroundings
    <2>2. PICK r \in BOOLEAN : T!Returned(c, r)
        BY <1>13 DEF T!LeaseDropped
    <2>3. /\ lease'[b] = lease[b] \/ (lease'[b].is # "held" /\ (lease'[b].subscribed => lease[b].subscribed))
          /\ b = c => lease'[b].is # "held"
        BY <1>0, <2>2, ReturnedDoes
    <2>4. b # c => dropping'[b] = dropping[b]
        BY <1>13 DEF T!LeaseDropped
    <2> QED
        BY <1>0, <2>1, <2>3, <2>4
<1> QED
    BY <1>1, <1>2, <1>3, <1>4, <1>5, <1>6, <1>7, <1>8, <1>9, <1>10, <1>11, <1>12, <1>13
    DEF T!ToolSessionNext

(* No lease a call has taken is forgotten, also when the session is        *)
(* disposed of, rebound or told of a revocation meanwhile.                 *)
THEOREM LeasesAreReturned == MCSpec => []ReleasedWithSession
<1>1. MCInit => SessionInv
    BY SessionInitially DEF MCInit
<1>2. SessionInv /\ [FilesRun \/ ToolsRun]_<<machine, vars, toolSessionVars>> => SessionInv'
    <2>1. ASSUME SessionInv, T!ToolSessionNext PROVE SessionInv'
        BY <2>1, SessionTypesStep, LeasesKnownStep DEF SessionInv
    <2>2. ASSUME SessionInv, UNCHANGED toolSessionVars PROVE SessionInv'
        BY <2>2 DEF SessionInv, SessionTypes, LeaseIsKnown, toolSessionVars
    <2> QED
        BY <2>1, <2>2 DEF FilesRun, ToolsRun
<1>3. SessionInv => ReleasedWithSession
    <2> SUFFICES ASSUME SessionInv, NEW c \in ToolCalls, T!Idle(c)
                 PROVE  /\ lease[c].is = "held" =>
                              /\ T!Given(c)
                              /\ task[c].kind = "webmcp" /\ ~lease[c].renewed => c \in retained /\ ~session.disposed
                        /\ lease[c].subscribed => task[c].kind = "listen"
        BY DEF ReleasedWithSession, T!ReleasedWithSession
    <2>1. LeaseIsKnown(c) /\ task[c].at \in {"idle", "over"} /\ dropping[c] = "none"
        BY DEF SessionInv, T!Idle
    <2> QED
        BY <2>1 DEF LeaseIsKnown, T!Given
<1> QED
    BY <1>1, <1>2, <1>3, PTL DEF MCSpec

=============================================================================
