---------------------------- MODULE StorageBackup ----------------------------
(***************************************************************************)
(* The snapshots of the object storage, internal/storage/backup.go, run by *)
(* internal/scheduler beside the uploads of ObjectStore.                   *)
(*                                                                         *)
(* A run walks the root file by file while uploads and deletions go on,    *)
(* renames its archive, writes the checksum beside it and prunes what is   *)
(* too old.  An archive is named after the second its run began.           *)
(*                                                                         *)
(* The root is walked as one directory.  Time is counted in units of the   *)
(* interval of the scheduler; the end of a run, from the rename to the     *)
(* clock of the pruning, is short: no unit begins in it.                   *)
(***************************************************************************)
EXTENDS ObjectStore

CONSTANTS
    MaxTime,   \* bound of the clock
    MaxRuns,   \* bound of the runs
    Retention  \* BACKUP_RETENTION_HOURS, in whole units: 0 is a retention shorter
               \* than a unit, not the "keep all" no configuration can ask for

ASSUME BackupAssumption ==
    /\ MaxTime \in Nat
    /\ MaxRuns \in Nat
    /\ Retention \in Nat

VARIABLES
    now,       \* the clock
    due,       \* the ticker has fired, or the scheduler has just started
    run,       \* the run of the process, or Resting
    runs,      \* how many runs have begun
    archive,   \* [names -> NoFile or the archive]
    sidecar,   \* [names -> NoFile or its .sha256]
    completed, \* history: some run has written its checksum
    reused     \* history: a run replaced the archive of another one

backupVars == <<now, due, run, runs, archive, sidecar, completed, reused>>
allVars == <<storeVars, backupVars>>

Names == 0..MaxTime
Resting == [at |-> "resting"]

BackupInit ==
    /\ StoreInit
    /\ now = 0
    /\ due = FALSE
    /\ run = Resting
    /\ runs = 0
    /\ archive = [s \in Names |-> NoFile]
    /\ sidecar = [s \in Names |-> NoFile]
    /\ completed = FALSE
    /\ reused = FALSE

-----------------------------------------------------------------------------
(* The scheduler and the life of the process *)

\* The jobs run at once when the process starts.
ProcessStart(c) ==
    /\ Start(c)
    /\ due' = TRUE
    /\ UNCHANGED <<now, run, runs, archive, sidecar, completed, reused>>

\* A unit of time.  The ticker keeps one tick while a job runs.
Tick ==
    /\ now < MaxTime
    /\ run.at \notin {"renamed", "summing"}
    /\ now' = now + 1
    /\ due' = (process = "up")
    /\ UNCHANGED <<storeVars, run, runs, archive, sidecar, completed, reused>>

\* The signal that precedes Close has ended the loop of the scheduler.
ProcessClose ==
    /\ Close
    /\ due' = FALSE
    /\ UNCHANGED <<now, run, runs, archive, sidecar, completed, reused>>

ProcessStop ==
    /\ Stop
    /\ due' = FALSE
    /\ run' = Resting
    /\ UNCHANGED <<now, runs, archive, sidecar, completed, reused>>

-----------------------------------------------------------------------------
(* BackupManager.Run *)

Entries == temps \cup {o \in Objects : Stored(o)}

\* The names of the directory, among them temporary files.  "still" (history) are
\* the objects that have been there since.
RunBegin ==
    /\ process = "up"
    /\ due
    /\ run = Resting
    /\ runs < MaxRuns
    /\ runs' = runs + 1
    /\ due' = FALSE
    /\ run' = [at |-> "walking", name |-> now, id |-> runs + 1,
               left |-> Entries, skip |-> temps,
               holds |-> [o \in Objects |-> NoFile],
               still |-> {o \in Objects : Stored(o)}]
    /\ UNCHANGED <<storeVars, now, archive, sidecar, completed, reused>>

\* The next name, unless the context has ended.  A name that has vanished, be it of
\* a temporary file, ends the run (RunFail); a temporary file is skipped.
RunVisit(o) ==
    /\ process = "up"
    /\ run.at = "walking"
    /\ o \in run.left
    /\ IF o \in run.skip THEN o \in temps ELSE Stored(o)
    /\ run' = [run EXCEPT
                 !.left = @ \ {o},
                 !.holds = IF o \in run.skip THEN @ ELSE [@ EXCEPT ![o] = files[o]]]
    /\ UNCHANGED <<storeVars, now, due, runs, archive, sidecar, completed, reused>>

\* Mutant: a walk that was cancelled counts as complete.
RunRenameCancelled ==
    /\ run.at = "walking"
    /\ archive' = [archive EXCEPT ![run.name] =
                     [state |-> "archived", id |-> run.id, holds |-> run.holds,
                      still |-> run.still, at |-> now]]
    /\ reused' = (reused \/ archive[run.name] # NoFile)
    /\ run' = [at |-> "renamed", name |-> run.name, id |-> run.id]
    /\ UNCHANGED <<storeVars, now, due, runs, sidecar, completed>>

\* Everything is written and synced; os.Rename, over an archive of the same name.
RunRename ==
    /\ run.at = "walking"
    /\ run.left = {}
    /\ archive' = [archive EXCEPT ![run.name] =
                     [state |-> "archived", id |-> run.id, holds |-> run.holds,
                      still |-> run.still, at |-> now]]
    /\ reused' = (reused \/ archive[run.name] # NoFile)
    /\ run' = [at |-> "renamed", name |-> run.name, id |-> run.id]
    /\ UNCHANGED <<storeVars, now, due, runs, sidecar, completed>>

\* os.WriteFile truncates the file, then writes it.
SumOpen ==
    /\ run.at = "renamed"
    /\ sidecar' = [sidecar EXCEPT ![run.name] = [state |-> "sum", of |-> 0, at |-> now]]
    /\ run' = [run EXCEPT !.at = "summing"]
    /\ UNCHANGED <<storeVars, now, due, runs, archive, completed, reused>>

SumWrite ==
    /\ run.at = "summing"
    /\ sidecar' = [sidecar EXCEPT ![run.name].of = run.id]
    /\ completed' = TRUE
    /\ run' = [at |-> "pruning", clock |-> now]
    /\ UNCHANGED <<storeVars, now, due, runs, archive, reused>>

\* Mutant: what is exactly as old as the retention is pruned too.
TooOldInclusive(f) == f # NoFile /\ run.clock - f.at >= Retention

TooOld(f) == f # NoFile /\ run.clock - f.at > Retention
Expired == {s \in Names : TooOld(archive[s]) \/ TooOld(sidecar[s])}

\* prune, in the order of the names: an archive, then its checksum.
PruneArchive(s) ==
    /\ run.at = "pruning"
    /\ s \in Expired /\ \A q \in Expired : s <= q
    /\ TooOld(archive[s])
    /\ archive' = [archive EXCEPT ![s] = NoFile]
    /\ UNCHANGED <<storeVars, now, due, run, runs, sidecar, completed, reused>>

PruneSum(s) ==
    /\ run.at = "pruning"
    /\ s \in Expired /\ \A q \in Expired : s <= q
    /\ ~TooOld(archive[s])
    /\ sidecar' = [sidecar EXCEPT ![s] = NoFile]
    /\ UNCHANGED <<storeVars, now, due, run, runs, archive, completed, reused>>

RunEnd ==
    /\ run.at = "pruning"
    /\ Expired = {}
    /\ run' = Resting
    /\ UNCHANGED <<storeVars, now, due, runs, archive, sidecar, completed, reused>>

\* Any error, or the end of the context: the temporary archive is removed.
RunFail ==
    /\ run # Resting
    /\ run' = Resting
    /\ UNCHANGED <<storeVars, now, due, runs, archive, sidecar, completed, reused>>

\* A step of the store; what it deletes is not there all the time.
StoreActs ==
    /\ StoreStep
    /\ run' = IF run.at = "walking"
              THEN [run EXCEPT !.still = {o \in @ : files'[o] = files[o]}]
              ELSE run
    /\ UNCHANGED <<now, due, runs, archive, sidecar, completed, reused>>

BackupNext ==
    \/ StoreActs
    \/ \E c \in Configs : ProcessStart(c)
    \/ ProcessClose \/ ProcessStop \/ Tick
    \/ RunBegin \/ (\E o \in Objects : RunVisit(o)) \/ RunRename
    \/ SumOpen \/ SumWrite
    \/ (\E s \in Names : PruneArchive(s) \/ PruneSum(s)) \/ RunEnd
    \/ RunFail

BackupSpec == BackupInit /\ [][BackupNext]_allVars

-----------------------------------------------------------------------------
Holdings == [Objects -> {NoFile} \cup FileSet]

BackupTypeOK ==
    /\ StoreTypeOK
    /\ now \in Names
    /\ due \in BOOLEAN
    /\ runs \in 0..MaxRuns
    /\ run \in {Resting}
            \cup [at : {"walking"}, name : Names, id : 1..MaxRuns, left : SUBSET Objects,
                  skip : SUBSET Objects, holds : Holdings, still : SUBSET Objects]
            \cup [at : {"renamed", "summing"}, name : Names, id : 1..MaxRuns]
            \cup [at : {"pruning"}, clock : Names]
    /\ archive \in [Names -> {NoFile}
            \cup [state : {"archived"}, id : 1..MaxRuns, holds : Holdings,
                  still : SUBSET Objects, at : Names]]
    /\ sidecar \in [Names -> {NoFile} \cup [state : {"sum"}, of : 0..MaxRuns, at : Names]]
    /\ completed \in BOOLEAN
    /\ reused \in BOOLEAN

\* An archive under its final name holds every object that was stored, unchanged,
\* from the beginning of its run to its end, whatever was uploaded, deleted or
\* interrupted meanwhile; and each object it holds is complete or was cut before.
SnapshotHoldsAll ==
    \A s \in Names : archive[s] # NoFile =>
        \A o \in Objects :
            LET f == archive[s].holds[o]
            IN /\ o \in archive[s].still => f # NoFile
               /\ f # NoFile /\ f.end = "whole" => f.frames = f.size

\* VerifyBackup
Verifies(s) ==
    /\ archive[s] # NoFile
    /\ sidecar[s] # NoFile
    /\ sidecar[s].of = archive[s].id

\* Once a run has completed there is an archive that VerifyBackup accepts, at
\* every moment from then on: later runs may fail, stop or crash anywhere, and
\* pruning never takes the last one.  The exception is a run that began in the
\* second of an earlier one and replaced its archive.
AlwaysRestorable == completed /\ ~reused => \E s \in Names : Verifies(s)
=============================================================================
