-------------------------- MODULE FileArtifactStore --------------------------
(***************************************************************************)
(* The artifact store kept in a directory: writers that reserve bytes,     *)
(* write two files by way of temporary ones and register the artifact,     *)
(* expiry, release, revocation of a target, and crashes at any point with  *)
(* the recovery that reads the directory again.                            *)
(*                                                                         *)
(* An artifact stands for its identifier; each is written at most once.    *)
(* The totals of the code are the sums of the accounts kept here by owner. *)
(***************************************************************************)
EXTENDS Naturals, FiniteSetsExt

CONSTANTS
    Artifacts, Owners, Targets,
    OwnerOf, TargetOf,      \* the lease that owns an artifact and its target generation
    MaximumBytes,           \* maximumBytes
    MaximumBytesPerOwner,   \* maximumBytesPerOwner
    MaxLength,              \* bound on the bytes of one artifact
    MaxCrashes              \* bound on the crashes

ASSUME FileArtifactsAssumption ==
    /\ OwnerOf \in [Artifacts -> Owners] /\ TargetOf \in [Artifacts -> Targets]
    /\ {MaximumBytes, MaximumBytesPerOwner, MaxLength} \subseteq Nat \ {0} /\ MaxCrashes \in Nat

VARIABLES
    crashes,    \* crashes so far
    up,         \* the store is open
    lapsed,     \* artifacts whose expiry is over
    revoked,    \* target generations the broker has revoked
    writer,     \* the writer of each artifact
    stored,     \* artifacts
    used,       \* ownerBytes
    reserved,   \* reservedByOwner
    disk,       \* the files of each artifact
    salvaged,   \* found complete at a start although their write had not ended
    ended       \* once available and no more

store == <<stored, used>>
vars == <<crashes, up, lapsed, revoked, writer, stored, used, reserved, disk, salvaged, ended>>

(* "digesting" awaits the digest, "data" and "metadata" the writing of a   *)
(* file, "written" the last rename, "settling" the removal of temporaries. *)
Phases == {"none", "open", "digesting", "data", "metadata", "written", "settling", "over"}
Writer == [phase : Phases, length : 0 .. MaxLength, aborted : BOOLEAN, signalled : BOOLEAN, reserving : BOOLEAN]
Unwritten == [phase |-> "none", length |-> 0, aborted |-> FALSE, signalled |-> FALSE, reserving |-> FALSE]

Files == [bin : BOOLEAN, json : BOOLEAN, temporary : BOOLEAN]
NoFiles == [bin |-> FALSE, json |-> FALSE, temporary |-> FALSE]

Init ==
    /\ crashes = 0 /\ up = TRUE /\ lapsed = {} /\ revoked = {}
    /\ writer = [a \in Artifacts |-> Unwritten]
    /\ stored = {} /\ used = [o \in Owners |-> 0] /\ reserved = [o \in Owners |-> 0]
    /\ disk = [a \in Artifacts |-> NoFiles]
    /\ salvaged = {} /\ ended = {}

-----------------------------------------------------------------------------
Sum(account) == MapThenSumSet(LAMBDA o : account[o], Owners)
Length(a) == writer[a].length
OwnedBytes(o, artifacts) == MapThenSumSet(LAMBDA a : IF OwnerOf[a] = o THEN Length(a) ELSE 0, artifacts)

(* remove, of every artifact of a set: the map, its account and its files  *)
Left(artifacts) == stored \ artifacts
RemainingBytes(artifacts) == [o \in Owners |-> used[o] - OwnedBytes(o, stored \cap artifacts)]
StillLinked(artifacts) == disk
Unlinked(artifacts) ==
    [a \in Artifacts |-> IF a \in artifacts THEN [disk[a] EXCEPT !.bin = FALSE, !.json = FALSE] ELSE disk[a]]

Remove(artifacts) ==
    /\ stored' = Left(artifacts)
    /\ used' = RemainingBytes(artifacts)
    /\ disk' = Unlinked(stored \cap artifacts)

Cancelled(a) == writer[a].aborted \/ writer[a].signalled

(* releaseReservation, which does it once *)
Released(a) ==
    IF writer[a].reserving THEN [reserved EXCEPT ![OwnerOf[a]] = @ - Length(a)] ELSE reserved

(* What a start finds complete                                             *)
Loadable(a) == disk[a].json /\ disk[a].bin

(* A user finds an artifact that is registered; between a crash and the    *)
(* next start, the ones that start will find.                              *)
Available ==
    (IF up THEN stored ELSE {a \in Artifacts : Loadable(a)}) \ lapsed

Ending == ended' = ended \cup (Available \ Available')

-----------------------------------------------------------------------------
CreateWriter(a) ==
    /\ up /\ writer[a].phase = "none" /\ a \notin lapsed /\ TargetOf[a] \notin revoked
    /\ writer' = [writer EXCEPT ![a].phase = "open", ![a].reserving = TRUE]
    /\ UNCHANGED <<crashes, up, lapsed, revoked, store, reserved, disk, salvaged, ended>>

Fits(o, freed) ==
    /\ Sum(RemainingBytes(freed)) + Sum(reserved) + 1 =< MaximumBytes
    /\ RemainingBytes(freed)[o] + reserved[o] + 1 =< MaximumBytesPerOwner

(* write, of one byte: expired artifacts make room first.                  *)
Write(a) ==
    /\ up /\ writer[a].phase = "open" /\ ~Cancelled(a) /\ Length(a) < MaxLength
    /\ Remove(lapsed)
    /\ IF Fits(OwnerOf[a], lapsed)
       THEN /\ writer' = [writer EXCEPT ![a].length = @ + 1]
            /\ reserved' = [reserved EXCEPT ![OwnerOf[a]] = @ + 1]
       ELSE UNCHANGED <<writer, reserved>>
    /\ UNCHANGED <<crashes, up, lapsed, revoked, salvaged>>
    /\ Ending

(* abort of the writer: the reservation goes at once, even while close is  *)
(* still writing.                                                          *)
Abort(a) ==
    /\ up /\ writer[a].phase \notin {"none", "over"} /\ ~writer[a].aborted
    /\ writer' = [writer EXCEPT ![a].aborted = TRUE, ![a].reserving = FALSE,
                                ![a].phase = IF @ = "open" THEN "over" ELSE @]
    /\ reserved' = Released(a)
    /\ UNCHANGED <<crashes, up, lapsed, revoked, store, disk, salvaged, ended>>

Close(a) ==
    /\ up /\ writer[a].phase = "open" /\ ~Cancelled(a)
    /\ writer' = [writer EXCEPT ![a].phase = "digesting"]
    /\ UNCHANGED <<crashes, up, lapsed, revoked, store, reserved, disk, salvaged, ended>>

Digested(a) ==
    /\ up /\ writer[a].phase = "digesting"
    /\ IF Cancelled(a)
       THEN writer' = [writer EXCEPT ![a].phase = "settling"] /\ UNCHANGED disk
       ELSE /\ writer' = [writer EXCEPT ![a].phase = "data"]
            /\ disk' = [disk EXCEPT ![a].temporary = TRUE]
    /\ UNCHANGED <<crashes, up, lapsed, revoked, store, reserved, salvaged, ended>>

(* A file has been written and renamed into place, or it could not be.     *)
DataWritten(a) ==
    /\ up /\ writer[a].phase = "data"
    /\ \/ /\ writer' = [writer EXCEPT ![a].phase = "metadata"]
          /\ disk' = [disk EXCEPT ![a].bin = TRUE]
       \/ /\ writer' = [writer EXCEPT ![a].phase = "settling"]
          /\ UNCHANGED disk
    /\ UNCHANGED <<crashes, up, lapsed, revoked, store, reserved, salvaged, ended>>

MetadataWritten(a) ==
    /\ up /\ writer[a].phase = "metadata"
    /\ \/ /\ writer' = [writer EXCEPT ![a].phase = "written"]
          /\ disk' = [disk EXCEPT ![a].json = TRUE]
       \/ /\ writer' = [writer EXCEPT ![a].phase = "settling"]
          /\ UNCHANGED disk
    /\ UNCHANGED <<crashes, up, lapsed, revoked, store, reserved, salvaged, ended>>

RefusedIfAborted(a) == writer[a].aborted
Refused(a) == Cancelled(a)

(* The last look at the signal, and the registration of the artifact       *)
Registered(a) ==
    /\ up /\ writer[a].phase = "written"
    /\ writer' = [writer EXCEPT ![a].phase = "settling"]
    /\ IF Refused(a)
       THEN /\ disk' = [disk EXCEPT ![a].bin = FALSE, ![a].json = FALSE]
            /\ UNCHANGED store
       ELSE /\ stored' = stored \cup {a}
            /\ used' = [used EXCEPT ![OwnerOf[a]] = @ + Length(a)]
            /\ UNCHANGED disk
    /\ UNCHANGED <<crashes, up, lapsed, revoked, reserved, salvaged>>
    /\ Ending

Settled(a) ==
    /\ up /\ writer[a].phase = "settling"
    /\ writer' = [writer EXCEPT ![a].phase = "over", ![a].reserving = FALSE]
    /\ reserved' = Released(a)
    /\ disk' = [disk EXCEPT ![a].temporary = FALSE]
    /\ UNCHANGED <<crashes, up, lapsed, revoked, store, salvaged, ended>>

(* access, by read or release: one past its expiry goes either way.        *)
Access(a) ==
    /\ up /\ a \in stored
    /\ Remove({a})
    /\ UNCHANGED <<crashes, up, lapsed, revoked, writer, reserved, salvaged>>
    /\ Ending

Cleanup ==
    /\ up /\ stored \cap lapsed # {}
    /\ Remove(lapsed)
    /\ UNCHANGED <<crashes, up, lapsed, revoked, writer, reserved, salvaged>>
    /\ Ending

(* The broker revokes a target: it aborts the signals of the commands that *)
(* write on it and tells the store, in one step.                           *)
Revoke(t) ==
    /\ up /\ t \notin revoked
    /\ revoked' = revoked \cup {t}
    /\ writer' = [a \in Artifacts |-> IF TargetOf[a] = t THEN [writer[a] EXCEPT !.signalled = TRUE] ELSE writer[a]]
    /\ Remove({a \in Artifacts : TargetOf[a] = t})
    /\ UNCHANGED <<crashes, up, lapsed, reserved, salvaged>>
    /\ Ending

Expire(a) ==
    /\ a \notin lapsed
    /\ lapsed' = lapsed \cup {a}
    /\ UNCHANGED <<crashes, up, revoked, writer, store, reserved, disk, salvaged>>
    /\ Ending

-----------------------------------------------------------------------------
(* The process dies, perhaps between the two files of a removal.           *)
Crash ==
    /\ up /\ crashes < MaxCrashes
    /\ up' = FALSE /\ crashes' = crashes + 1
    /\ stored' = {} /\ used' = [o \in Owners |-> 0] /\ reserved' = [o \in Owners |-> 0]
    /\ writer' = [a \in Artifacts |->
                    IF writer[a].phase = "none" THEN writer[a]
                    ELSE [Unwritten EXCEPT !.phase = "over", !.length = Length(a)]]
    /\ \E torn \in SUBSET stored : Cardinality(torn) =< 1 /\
          disk' = [a \in Artifacts |-> IF a \in torn THEN [disk[a] EXCEPT !.bin = FALSE] ELSE disk[a]]
    /\ salvaged' = salvaged \cup {a \in Artifacts : writer[a].phase = "written"}
    /\ UNCHANGED <<lapsed, revoked>>
    /\ Ending

Both == [NoFiles EXCEPT !.bin = TRUE, !.json = TRUE]
KeptWithData(kept) == [a \in Artifacts |-> IF a \in kept THEN Both ELSE [NoFiles EXCEPT !.bin = disk[a].bin]]
KeptFiles(kept) == [a \in Artifacts |-> IF a \in kept THEN Both ELSE NoFiles]

(* initialize: what is complete and has time left is kept, all else goes.  *)
Restart ==
    LET kept == {a \in Artifacts : Loadable(a) /\ a \notin lapsed} IN
    /\ ~up
    /\ up' = TRUE
    /\ stored' = kept
    /\ used' = [o \in Owners |-> OwnedBytes(o, kept)]
    /\ disk' = KeptFiles(kept)
    /\ UNCHANGED <<crashes, lapsed, revoked, writer, reserved, salvaged>>
    /\ Ending

Next ==
    \/ \E a \in Artifacts :
          \/ CreateWriter(a) \/ Write(a) \/ Abort(a) \/ Close(a)
          \/ Digested(a) \/ DataWritten(a) \/ MetadataWritten(a) \/ Registered(a) \/ Settled(a)
          \/ Access(a) \/ Expire(a)
    \/ \E t \in Targets : Revoke(t)
    \/ Cleanup \/ Crash \/ Restart

Spec == Init /\ [][Next]_vars

-----------------------------------------------------------------------------
Reserving(o) == {a \in Artifacts : writer[a].reserving /\ OwnerOf[a] = o}

(* The maps keep their types, and the accounts, kept by increments on many *)
(* paths, are at all times the bytes of the artifacts and of the writers.  *)
TypeOK ==
    /\ up \in BOOLEAN /\ crashes \in 0 .. MaxCrashes
    /\ lapsed \subseteq Artifacts /\ revoked \subseteq Targets
    /\ writer \in [Artifacts -> Writer] /\ disk \in [Artifacts -> Files]
    /\ stored \cup salvaged \cup ended \subseteq Artifacts
    /\ used = [o \in Owners |-> OwnedBytes(o, stored)]
    /\ reserved = [o \in Owners |-> OwnedBytes(o, Reserving(o))]

(* "Total retained bytes, across all owners" and "retained bytes permitted *)
(* for one owner": registered artifacts and reservations stay within both, *)
(* but for artifacts found complete after a crash in the middle of their   *)
(* registration, whose reservation an abort may have given back before.    *)
Counted(o) == OwnedBytes(o, (stored \ salvaged) \cup Reserving(o))
Quota ==
    /\ \A o \in Owners : Counted(o) =< MaximumBytesPerOwner
    /\ MapThenSumSet(Counted, Owners) =< MaximumBytes

(* Nothing of a revoked target generation can be read, also when its write *)
(* was under way at the revocation, unless a crash came in between.        *)
RevokedIsGone == \A a \in stored \ salvaged : TargetOf[a] \notin revoked

(* Crash safety: after a start the directory holds both files of every     *)
(* artifact served and no other file, wherever the crash came.             *)
RestartIsClean ==
    [][~up /\ up' => \A a \in Artifacts : disk'[a] = [bin |-> a \in stored', json |-> a \in stored', temporary |-> FALSE]]_vars

(* The store implements the abstract pool, through crashes and restarts.   *)
Pool == INSTANCE ArtifactPool WITH available <- Available
ImplementsPool == Pool!Spec
=============================================================================
