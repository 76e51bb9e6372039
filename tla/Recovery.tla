----------------------------- MODULE Recovery ------------------------------
(***************************************************************************)
(* The recovery commands: a backup of the live database into an archive    *)
(* with a manifest, and its restore to a target.  Each command is a        *)
(* process of an operator that can be killed between any two calls of the  *)
(* file system or of a database tool, and the database is written to       *)
(* meanwhile.  An archive or a target stands for the state of the database *)
(* it holds and for whether all of it is there; the size and the checksum  *)
(* in a manifest tell any two of them apart.                               *)
(***************************************************************************)
EXTENDS Naturals

CONSTANTS
  Commands,   \* processes that run one recovery command after another
  Databases,  \* subset of {"sqlite", "postgresql"}
  Overlap,    \* whether two commands may write to the same path at once
  Nothing,    \* no file, no relations in the target database
  MaxWrites   \* bound on the writes to the live database

VARIABLES
  database,   \* the kind of database of the deployment, for good
  live,       \* the live database: the number of its last write
  archive, manifest, target,  \* what is at the three paths
  running,    \* per command: its next step and what it measured or verified
  restored    \* history: what the last restore that succeeded reported

fvars == <<database, live, archive, manifest, target, running, restored>>

Held(content, whole, by) == [content |-> content, whole |-> whole, by |-> by]
Value(file) == IF file = Nothing THEN Nothing ELSE [content |-> file.content, whole |-> file.whole]
Mixed == MaxWrites + 1   \* two dumps written into one file
Torn  == [content |-> MaxWrites + 2, whole |-> FALSE]   \* a manifest not written to its end

Idle == [pc |-> "idle", seen |-> Nothing]
At(c, pc)     == running[c].pc = pc
Goes(c, pc)   == running' = [running EXCEPT ![c].pc = pc]
Sees(c, pc, value) == running' = [running EXCEPT ![c] = [pc |-> pc, seen |-> value]]

BackupSteps  == {"dump", "dumping", "check", "measure", "describe", "cleaning"}
RestoreSteps == {"verify", "count", "copy", "copying", "probe"}
Alone(steps) == Overlap \/ \A c \in Commands : running[c].pc \notin steps

Write ==
  /\ live < MaxWrites /\ live' = live + 1
  /\ UNCHANGED <<database, archive, manifest, target, running, restored>>

-----------------------------------------------------------------------------
(* Backup.                                                                 *)

AnyOutput    == TRUE   \* Mutant: a backup may replace another.
OutputAbsent == archive = Nothing /\ manifest = Nothing

BeginBackup(c) ==
  /\ At(c, "idle") /\ Alone(BackupSteps) /\ OutputAbsent
  /\ Sees(c, "dump", Nothing)
  /\ UNCHANGED <<database, live, archive, manifest, target, restored>>

\* VACUUM INTO refuses a file that is there; pg_dump starts it anew.
Dump(c) ==
  /\ At(c, "dump")
  /\ database = "sqlite" => archive = Nothing
  /\ archive' = Held(live, FALSE, c)
  /\ Goes(c, "dumping")
  /\ UNCHANGED <<database, live, manifest, target, restored>>

\* What was removed meanwhile is written to no path; what another pg_dump started
\* anew is written to by both.
Dumped(c) ==
  /\ At(c, "dumping")
  /\ archive' = IF archive = Nothing THEN Nothing
                ELSE IF archive.by = c THEN [archive EXCEPT !.whole = TRUE]
                ELSE IF database = "sqlite" THEN archive ELSE Held(Mixed, FALSE, c)
  /\ Goes(c, "check")
  /\ UNCHANGED <<database, live, manifest, target, restored>>

\* The integrity check finds what is missing; the list of a dump stands at its beginning.
Readable(file) == file # Nothing /\ (database = "sqlite" => file.whole)

Check(c) ==
  /\ At(c, "check") /\ Readable(archive)
  /\ Goes(c, "measure")
  /\ UNCHANGED <<database, live, archive, manifest, target, restored>>

Measure(c) ==
  /\ At(c, "measure") /\ archive # Nothing
  /\ Sees(c, "describe", Value(archive))
  /\ UNCHANGED <<database, live, archive, manifest, target, restored>>

\* createManifest: a manifest that is there is not overwritten.
Describe(c) ==
  /\ At(c, "describe") /\ manifest = Nothing
  /\ manifest' \in {running[c].seen, Torn}
  /\ IF manifest' = Torn THEN Goes(c, "describe") ELSE Sees(c, "idle", Nothing)
  /\ UNCHANGED <<database, live, archive, target, restored>>

\* Any call may fail; the archive is removed, then the manifest if the dump had ended.
FailBackup(c) ==
  /\ running[c].pc \in BackupSteps \ {"cleaning"}
  /\ archive' = Nothing
  /\ IF running[c].pc \in {"dump", "dumping"} /\ database = "sqlite"
       THEN Sees(c, "idle", Nothing) ELSE Sees(c, "cleaning", Nothing)
  /\ UNCHANGED <<database, live, manifest, target, restored>>

Clean(c) ==
  /\ At(c, "cleaning")
  /\ manifest' = Nothing /\ Sees(c, "idle", Nothing)
  /\ UNCHANGED <<database, live, archive, target, restored>>

-----------------------------------------------------------------------------
(* Verification and restore.                                               *)

VouchedFor == manifest \notin {Nothing, Torn} /\ manifest = Value(archive)

\* A database of PostgreSQL is counted later.
AnyTarget    == TRUE   \* Mutant: no target is refused before the copy.
TargetAbsent == database = "sqlite" => target = Nothing

BeginRestore(c) ==
  /\ At(c, "idle") /\ Alone(RestoreSteps) /\ TargetAbsent
  /\ Sees(c, "verify", Nothing)
  /\ UNCHANGED <<database, live, archive, manifest, target, restored>>

Verify(c) ==
  /\ At(c, "verify") /\ VouchedFor /\ Readable(archive)
  /\ Sees(c, IF database = "sqlite" THEN "copy" ELSE "count", manifest)
  /\ UNCHANGED <<database, live, archive, manifest, target, restored>>

Count(c) ==
  /\ At(c, "count") /\ target = Nothing
  /\ Goes(c, "copy")
  /\ UNCHANGED <<database, live, archive, manifest, target, restored>>

\* A copy is made bit by bit where nothing is; pg_restore uses one transaction, which
\* fails on a relation that is there.
Copy(c) ==
  /\ At(c, "copy") /\ archive # Nothing /\ target = Nothing
  /\ target' = Held(archive.content, database = "postgresql" /\ archive.whole, c)
  /\ database = "postgresql" => archive.whole
  /\ Goes(c, IF database = "sqlite" THEN "copying" ELSE "probe")
  /\ UNCHANGED <<database, live, archive, manifest, restored>>

Copied(c) ==
  /\ At(c, "copying")
  /\ target' = IF target # Nothing /\ target.by = c
                 THEN [target EXCEPT !.whole = TRUE] ELSE target
  /\ Goes(c, "probe")
  /\ UNCHANGED <<database, live, archive, manifest, restored>>

Probe(c) ==
  /\ At(c, "probe") /\ target # Nothing /\ target.whole
  /\ restored' = running[c].seen
  /\ Sees(c, "idle", Nothing)
  /\ UNCHANGED <<database, live, archive, manifest, target>>

\* From the copy on, a restore of SQLite that fails removes what is at its target.
FailRestore(c) ==
  /\ running[c].pc \in RestoreSteps
  /\ target' = IF database = "sqlite" /\ running[c].pc \in {"copy", "copying", "probe"}
                 THEN Nothing ELSE target
  /\ Sees(c, "idle", Nothing)
  /\ UNCHANGED <<database, live, archive, manifest, restored>>

-----------------------------------------------------------------------------
(* The operators.                                                          *)

Kill(c) ==
  /\ ~At(c, "idle") /\ Sees(c, "idle", Nothing)
  /\ UNCHANGED <<database, live, archive, manifest, target, restored>>

\* After a command that was killed, what it left is removed: an archive that does not
\* verify with its manifest, a target that was not reported.
Discard ==
  /\ \A c \in Commands : At(c, "idle")
  /\ \/ /\ ~VouchedFor /\ <<archive, manifest>> # <<Nothing, Nothing>>
        /\ archive' = Nothing /\ manifest' = Nothing /\ UNCHANGED target
     \/ /\ target # Nothing /\ restored = Nothing
        /\ target' = Nothing /\ UNCHANGED <<archive, manifest>>
  /\ UNCHANGED <<database, live, running, restored>>

Init ==
  /\ database \in Databases /\ live = 0
  /\ archive = Nothing /\ manifest = Nothing /\ target = Nothing
  /\ running = [c \in Commands |-> Idle] /\ restored = Nothing

Next ==
  \/ Write \/ Discard
  \/ \E c \in Commands :
       \/ BeginBackup(c) \/ Dump(c) \/ Dumped(c) \/ Check(c) \/ Measure(c) \/ Describe(c)
       \/ FailBackup(c) \/ Clean(c) \/ Kill(c)
       \/ BeginRestore(c) \/ Verify(c) \/ Count(c) \/ Copy(c) \/ Copied(c) \/ Probe(c)
       \/ FailRestore(c)

Spec == Init /\ [][Next]_fvars

-----------------------------------------------------------------------------
\* If commands that write to one path do not overlap: whatever is killed where, a
\* manifest that can be read is about the archive beside it, which is whole, except
\* while a failed backup removes the two; and the target of a restore that reported
\* success is whole, holds what the manifest vouched for, and stays (the order of the
\* dump, its check and its manifest; docs/recovery-and-rollouts.md:31, :46).
RecoverySound ==
  /\ manifest \notin {Nothing, Torn} =>
       \/ VouchedFor /\ archive.whole
       \/ archive = Nothing /\ \E c \in Commands : At(c, "cleaning")
  /\ restored # Nothing => restored.whole /\ Value(target) = restored

\* docs/adr/0007-recovery-and-rollout.md:39, "restore refuses overwrite by default":
\* a target that was reported stays whatever other restores do.  Of two restores that
\* both found no target, the one whose copy comes second fails, and removes the
\* target of the first (with Overlap).
RestoreRefusesOverwrite == restored # Nothing => target # Nothing
=============================================================================
