---------------------------- MODULE StorageProofs ----------------------------
(***************************************************************************)
(* Proofs about the object storage and its snapshots, for any number of    *)
(* objects, any limit, any configurations and any retention.               *)
(***************************************************************************)
EXTENDS StorageBackup, TLAPS

(* The store as the snapshots see it.                                        *)
StoreNext ==
    \/ StoreStep
    \/ \E c \in Configs : Start(c)
    \/ Close
    \/ Stop

LEMMA StoreStepOf == BackupNext => [StoreNext]_storeVars
<1> SUFFICES ASSUME BackupNext PROVE [StoreNext]_storeVars
  OBVIOUS
<1> USE DEF StoreNext
<1>1. CASE StoreActs
  BY <1>1 DEF StoreActs
<1>2. ASSUME NEW c \in Configs, ProcessStart(c) PROVE [StoreNext]_storeVars
  BY <1>2 DEF ProcessStart
<1>3. CASE ProcessClose
  BY <1>3 DEF ProcessClose
<1>4. CASE ProcessStop
  BY <1>4 DEF ProcessStop
<1>5. CASE UNCHANGED storeVars
  BY <1>5
<1> QED
  BY <1>1, <1>2, <1>3, <1>4, <1>5
     DEF BackupNext, Tick, RunBegin, RunVisit, RunRename, SumOpen, SumWrite,
         PruneArchive, PruneSum, RunEnd, RunFail

-----------------------------------------------------------------------------
(* What is on its way to the storage is what may be stored: from a production *)
(* process only what the scanner accepted, sealed with a key.  No upload      *)
(* outlives its process, and what has a final name has no temporary file.     *)
FileSound(f) ==
    /\ f.end = "whole" => f.frames = f.size
    /\ f.production => f.clean /\ f.key # "none"

UploadSound(o) ==
    /\ upload[o].at = "scanned" /\ config.production => upload[o].clean
    /\ upload[o].at \in {"sealed", "writing", "written"} => FileSound(upload[o].file)
    /\ upload[o] # Unborn /\ upload[o] # Over => process # "down"
    /\ files[o] # NoFile => upload[o] = Over /\ o \notin temps

StoreInv ==
    /\ StoreTypeOK
    /\ config.production => config.key # "none" /\ config.scanner
    /\ \A o \in Objects : UploadSound(o)
    /\ StoredIsSound

LEMMA StoreInvAlways == BackupSpec => []StoreInv
<1>1. BackupInit => StoreInv
  BY StoreAssumption
     DEF BackupInit, StoreInit, StoreInv, StoreTypeOK, UploadSound, StoredIsSound,
         Stored, NoFile, Unborn, Over, Loadable
<1>2. StoreInv /\ [StoreNext]_storeVars => StoreInv'
  <2> SUFFICES ASSUME StoreInv, [StoreNext]_storeVars PROVE StoreInv'
    OBVIOUS
  <2> USE StoreAssumption
      DEF StoreInv, StoreTypeOK, UploadSound, FileSound, StoredIsSound, Stored,
          NoFile, Deleted, Unborn, Over, FileSet, Stage, Finished
  <2>1. ASSUME NEW o \in Objects, NEW n \in 0..MaxChunks + 1, NEW clean \in BOOLEAN,
               Receive(o, n, clean)
        PROVE StoreInv'
    BY <2>1 DEF Receive
  <2>2. ASSUME NEW o \in Objects, Scan(o) PROVE StoreInv'
    BY <2>2 DEF Scan, Verdicts, Accepted
  <2>3. ASSUME NEW o \in Objects, Seal(o) PROVE StoreInv'
    BY <2>3 DEF Seal, File
  <2>4. ASSUME NEW o \in Objects, CreateTemp(o) PROVE StoreInv'
    BY <2>4 DEF CreateTemp
  <2>5. ASSUME NEW o \in Objects, WriteTemp(o) PROVE StoreInv'
    BY <2>5 DEF WriteTemp
  <2>6. ASSUME NEW o \in Objects, Publish(o) PROVE StoreInv'
    BY <2>6 DEF Publish
  <2>7. ASSUME NEW o \in Objects, UploadFail(o) PROVE StoreInv'
    BY <2>7 DEF UploadFail
  <2>8. ASSUME NEW o \in Objects, Delete(o) PROVE StoreInv'
    BY <2>8 DEF Delete
  <2>9. ASSUME NEW o \in Objects, NEW kept \in 0..MaxChunks,
               NEW end \in {"between", "torn", "headless"}, Cut(o, kept, end)
        PROVE StoreInv'
    BY <2>9 DEF Cut
  <2>10. ASSUME NEW c \in Configs, Start(c) PROVE StoreInv'
    BY <2>10 DEF Start, Loadable
  <2>11. CASE Close
    BY <2>11 DEF Close
  <2>12. CASE Stop
    BY <2>12 DEF Stop
  <2>13. CASE UNCHANGED storeVars
    BY <2>13 DEF storeVars
  <2> HIDE DEF StoreInv
  <2> QED
    BY <2>1, <2>2, <2>3, <2>4, <2>5, <2>6, <2>7, <2>8, <2>9, <2>10, <2>11, <2>12, <2>13
       DEF StoreNext, StoreStep, UploadStep
<1>3. [BackupNext]_allVars => [StoreNext]_storeVars
  BY StoreStepOf DEF allVars
<1> QED
  BY <1>1, <1>2, <1>3, PTL DEF BackupSpec

(* Wherever a process stops, a key holds all of an upload, accepted and       *)
(* sealed when production stored it.                                          *)
THEOREM StoredAlwaysSound == BackupSpec => []StoredIsSound
<1>1. StoreInv => StoredIsSound
  BY DEF StoreInv
<1> QED
  BY <1>1, StoreInvAlways, PTL

(* A read that ends without an error is whole, unless the cut was between two *)
(* fields: whatever configurations stored and cut the file before.            *)
THEOREM CleanReads == BackupSpec => []CleanReadIsWhole
<1>1. StoreInv => CleanReadIsWhole
  <2> SUFFICES ASSUME StoreInv, config.key = "key", ~config.legacy,
                      NEW o \in Objects, Stored(o),
                      Read(files[o], config.key, config.legacy).ok,
                      files[o].end # "between"
               PROVE  /\ Read(files[o], config.key, config.legacy).text
                      /\ Read(files[o], config.key, config.legacy).chunks = files[o].size
    BY Zenon DEF CleanReadIsWhole
  <2> DEFINE f == files[o]
  <2>1. f \in FileSet /\ (f.end = "whole" => f.frames = f.size)
    BY DEF StoreInv, StoreTypeOK, StoredIsSound, Stored, NoFile, Deleted
  <2>2. Enveloped(f) /\ ~(f.key # config.key /\ f.frames > 0)
    BY DEF Read, Refused
  <2>3. Read(f, config.key, config.legacy) =
           [ok |-> f.end # "torn", text |-> TRUE, chunks |-> f.frames]
    BY <2>2 DEF Read
  <2>4. f.end # "torn"
    <3> SUFFICES ASSUME f.end = "torn" PROVE FALSE
      OBVIOUS
    <3>1. Read(f, config.key, config.legacy) = [ok |-> FALSE, text |-> TRUE, chunks |-> f.frames]
      BY <2>3
    <3> QED
      BY <3>1
  <2>5. f.end = "whole"
    BY <2>1, <2>2, <2>4 DEF Enveloped, FileSet
  <2>6. /\ Read(f, config.key, config.legacy).text
        /\ Read(f, config.key, config.legacy).chunks = f.frames
    BY <2>3
  <2> QED
    BY <2>1, <2>5, <2>6
<1> QED
  BY <1>1, StoreInvAlways, PTL

-----------------------------------------------------------------------------
WalkSet ==
    [at : {"walking"}, name : Names, id : 1..MaxRuns, left : SUBSET Objects,
     skip : SUBSET Objects, holds : Holdings, still : SUBSET Objects]

ArchiveSet ==
    [state : {"archived"}, id : 1..MaxRuns, holds : Holdings, still : SUBSET Objects,
     at : Names]

(* What a step of the walk does to it: a visit, and the store under it.      *)
LEMMA VisitedWalk ==
    ASSUME BackupTypeOK, NEW o \in Objects, RunVisit(o)
    PROVE  /\ run \in WalkSet
           /\ run' \in WalkSet
           /\ run'.still = run.still
           /\ run'.skip = run.skip
           /\ run'.left = run.left \ {o}
           /\ o \in run.skip => run'.holds = run.holds
           /\ o \notin run.skip => /\ Stored(o)
                                   /\ run'.holds = [run.holds EXCEPT ![o] = files[o]]
<1> DEFINE h == IF o \in run.skip THEN run.holds ELSE [run.holds EXCEPT ![o] = files[o]]
<1>1. run \in WalkSet
  BY DEF BackupTypeOK, RunVisit, Resting, WalkSet
<1>2. run' = [run EXCEPT !.left = run.left \ {o}, !.holds = h]
  BY DEF RunVisit
<1>3. h \in Holdings
  BY <1>1 DEF WalkSet, Holdings, RunVisit, BackupTypeOK, StoreTypeOK, Stored, NoFile, Deleted
<1>4. /\ run' \in WalkSet
      /\ run'.still = run.still
      /\ run'.skip = run.skip
      /\ run'.left = run.left \ {o}
      /\ run'.holds = h
  <2> HIDE DEF h
  <2> QED
    BY <1>1, <1>2, <1>3 DEF WalkSet
<1> QED
  BY <1>1, <1>4 DEF RunVisit

LEMMA WatchedWalk ==
    ASSUME BackupTypeOK, StoreActs, run.at = "walking"
    PROVE  /\ run \in WalkSet
           /\ run' \in WalkSet
           /\ run'.skip = run.skip
           /\ run'.left = run.left
           /\ run'.holds = run.holds
           /\ run'.still = {o \in run.still : files'[o] = files[o]}
<1> DEFINE still == {o \in run.still : files'[o] = files[o]}
<1>1. run \in WalkSet
  BY DEF BackupTypeOK, Resting, WalkSet
<1>2. run' = [run EXCEPT !.still = still]
  BY DEF StoreActs
<1>3. still \in SUBSET Objects
  BY <1>1 DEF WalkSet
<1> HIDE DEF still
<1>4. /\ run' \in WalkSet
      /\ run'.skip = run.skip
      /\ run'.left = run.left
      /\ run'.holds = run.holds
      /\ run'.still = still
  BY <1>1, <1>2, <1>3 DEF WalkSet
<1> QED
  BY <1>1, <1>4 DEF still

LEMMA BegunWalk ==
    ASSUME StoreInv, BackupTypeOK, RunBegin
    PROVE  /\ run' \in WalkSet
           /\ run'.skip = temps
           /\ run'.left = Entries
           /\ run'.holds = [o \in Objects |-> NoFile]
           /\ run'.still = {o \in Objects : Stored(o)}
           /\ run'.id = runs + 1
<1>1. /\ Entries \in SUBSET Objects
      /\ temps \in SUBSET Objects
      /\ [o \in Objects |-> NoFile] \in Holdings
      /\ {o \in Objects : Stored(o)} \in SUBSET Objects
      /\ now \in Names
      /\ runs + 1 \in 1..MaxRuns
  BY BackupAssumption DEF BackupTypeOK, StoreTypeOK, Entries, Holdings, RunBegin
<1>2. run' = [at |-> "walking", name |-> now, id |-> runs + 1,
              left |-> Entries, skip |-> temps,
              holds |-> [o \in Objects |-> NoFile],
              still |-> {o \in Objects : Stored(o)}]
  BY DEF RunBegin
<1> QED
  BY <1>1, <1>2 DEF WalkSet

LEMMA RenamedArchive ==
    ASSUME BackupTypeOK, RunRename
    PROVE  /\ run \in WalkSet
           /\ run' = [at |-> "renamed", name |-> run.name, id |-> run.id]
           /\ archive' = [archive EXCEPT ![run.name] = archive'[run.name]]
           /\ archive'[run.name] \in ArchiveSet
           /\ archive'[run.name].id = run.id
           /\ archive'[run.name].holds = run.holds
           /\ archive'[run.name].still = run.still
           /\ archive'[run.name].at = now
<1>1. run \in WalkSet
  BY DEF BackupTypeOK, RunRename, Resting, WalkSet
<1> DEFINE new == [state |-> "archived", id |-> run.id, holds |-> run.holds,
                   still |-> run.still, at |-> now]
<1>2. /\ run.name \in Names
      /\ new \in ArchiveSet
      /\ new.id = run.id
      /\ new.holds = run.holds
      /\ new.still = run.still
      /\ new.at = now
  BY <1>1 DEF WalkSet, ArchiveSet, BackupTypeOK
<1>3. /\ archive' = [archive EXCEPT ![run.name] = new]
      /\ run' = [at |-> "renamed", name |-> run.name, id |-> run.id]
  BY DEF RunRename
<1> HIDE DEF new
<1>4. archive'[run.name] = new
  BY <1>2, <1>3 DEF BackupTypeOK
<1> QED
  BY <1>1, <1>2, <1>3, <1>4

(* A checksum that is being written has its file.                            *)
SumPlaced == run.at = "summing" => sidecar[run.name] # NoFile

BackupSound == BackupTypeOK /\ SumPlaced

LEMMA BackupSoundAlways == BackupSpec => []BackupSound
<1>1. BackupInit => BackupSound
  <2> SUFFICES ASSUME BackupInit PROVE BackupSound
    OBVIOUS
  <2>1. StoreTypeOK
    BY StoreAssumption DEF BackupInit, StoreInit, StoreTypeOK, Loadable
  <2>2. now \in Names /\ runs \in 0..MaxRuns
    BY BackupAssumption DEF BackupInit, Names
  <2>3. run = Resting /\ run.at # "summing"
    BY DEF BackupInit, Resting
  <2>4. due \in BOOLEAN /\ completed \in BOOLEAN /\ reused \in BOOLEAN
    BY DEF BackupInit
  <2> QED
    BY <2>1, <2>2, <2>3, <2>4 DEF BackupInit, BackupTypeOK, BackupSound, SumPlaced
<1>2. StoreInv /\ StoreInv' /\ BackupSound /\ [BackupNext]_allVars => BackupSound'
  <2> SUFFICES ASSUME StoreInv, StoreInv', BackupSound, [BackupNext]_allVars
               PROVE BackupSound'
    OBVIOUS
  <2>0. StoreTypeOK'
    BY DEF StoreInv
  <2> USE BackupAssumption DEF Names, BackupSound, SumPlaced
  <2>1. CASE StoreActs
    <3>1. CASE run.at = "walking"
      BY <2>0, <2>1, <3>1, WatchedWalk DEF BackupTypeOK, StoreActs, WalkSet
    <3>2. CASE run.at # "walking"
      BY <2>0, <2>1, <3>2 DEF BackupTypeOK, StoreActs
    <3> QED
      BY <3>1, <3>2
  <2>2. ASSUME NEW c \in Configs, ProcessStart(c) PROVE BackupSound'
    BY <2>0, <2>2 DEF ProcessStart, BackupTypeOK
  <2>3. CASE ProcessClose
    BY <2>0, <2>3 DEF ProcessClose, BackupTypeOK
  <2>4. CASE ProcessStop
    BY <2>0, <2>4 DEF ProcessStop, BackupTypeOK, Resting
  <2>5. CASE Tick
    BY <2>0, <2>5 DEF Tick, BackupTypeOK
  <2>6. CASE RunBegin
    <3>1. run' \in WalkSet
      BY <2>6, BegunWalk
    <3>2. runs' \in 0..MaxRuns
      BY <2>6 DEF RunBegin, BackupTypeOK
    <3> QED
      BY <2>0, <2>6, <3>1, <3>2 DEF RunBegin, BackupTypeOK, WalkSet
  <2>7. ASSUME NEW o \in Objects, RunVisit(o) PROVE BackupSound'
    <3>1. run' \in WalkSet
      BY <2>7, VisitedWalk
    <3> QED
      BY <2>0, <2>7, <3>1 DEF RunVisit, BackupTypeOK, WalkSet
  <2>8. CASE RunRename
    <3>1. /\ run \in WalkSet
          /\ run' = [at |-> "renamed", name |-> run.name, id |-> run.id]
          /\ archive' = [archive EXCEPT ![run.name] = archive'[run.name]]
          /\ archive'[run.name] \in ArchiveSet
      BY <2>8, RenamedArchive
    <3>2. archive' \in [Names -> {NoFile} \cup ArchiveSet]
      BY <3>1 DEF BackupTypeOK, ArchiveSet, WalkSet
    <3>3. run' \in [at : {"renamed"}, name : Names, id : 1..MaxRuns]
      BY <3>1 DEF WalkSet
    <3>4. reused' \in BOOLEAN
      BY <2>8, Zenon DEF RunRename
    <3> QED
      BY <2>0, <2>8, <3>2, <3>3, <3>4 DEF RunRename, BackupTypeOK, ArchiveSet
  <2>9. CASE SumOpen
    <3>1. /\ run \in [at : {"renamed", "summing"}, name : Names, id : 1..MaxRuns]
          /\ run' = [run EXCEPT !.at = "summing"]
          /\ sidecar' = [sidecar EXCEPT ![run.name] = [state |-> "sum", of |-> 0, at |-> now]]
      BY <2>9 DEF SumOpen, BackupTypeOK, Resting
    <3>2. /\ run' \in [at : {"summing"}, name : Names, id : 1..MaxRuns]
          /\ run'.name = run.name
      BY <3>1
    <3>3. [state |-> "sum", of |-> 0, at |-> now] \in [state : {"sum"}, of : 0..MaxRuns, at : Names]
      BY DEF BackupTypeOK
    <3>4. /\ sidecar' \in [Names -> {NoFile} \cup [state : {"sum"}, of : 0..MaxRuns, at : Names]]
          /\ sidecar'[run.name] # NoFile
      BY <3>1, <3>3 DEF BackupTypeOK, NoFile
    <3> QED
      BY <2>0, <2>9, <3>2, <3>4 DEF SumOpen, BackupTypeOK
  <2>10. CASE SumWrite
    <3>1. /\ run \in [at : {"renamed", "summing"}, name : Names, id : 1..MaxRuns]
          /\ sidecar[run.name] \in [state : {"sum"}, of : 0..MaxRuns, at : Names]
      BY <2>10 DEF SumWrite, BackupTypeOK, Resting
    <3>2. [sidecar[run.name] EXCEPT !.of = run.id] \in [state : {"sum"}, of : 0..MaxRuns, at : Names]
      BY <3>1
    <3>3. /\ sidecar' \in [Names -> {NoFile} \cup [state : {"sum"}, of : 0..MaxRuns, at : Names]]
          /\ run' \in [at : {"pruning"}, clock : Names]
      BY <2>10, <3>1, <3>2 DEF SumWrite, BackupTypeOK
    <3> QED
      BY <2>0, <2>10, <3>3 DEF SumWrite, BackupTypeOK
  <2>11. ASSUME NEW s \in Names, PruneArchive(s) PROVE BackupSound'
    BY <2>0, <2>11 DEF PruneArchive, BackupTypeOK
  <2>12. ASSUME NEW s \in Names, PruneSum(s) PROVE BackupSound'
    BY <2>0, <2>12 DEF PruneSum, BackupTypeOK
  <2>13. CASE RunEnd
    BY <2>0, <2>13 DEF RunEnd, BackupTypeOK, Resting
  <2>14. CASE RunFail
    BY <2>0, <2>14 DEF RunFail, BackupTypeOK, Resting
  <2>15. CASE UNCHANGED allVars
    BY <2>0, <2>15 DEF allVars, backupVars, BackupTypeOK
  <2> QED
    BY <2>1, <2>2, <2>3, <2>4, <2>5, <2>6, <2>7, <2>8, <2>9, <2>10, <2>11, <2>12, <2>13,
       <2>14, <2>15 DEF BackupNext
<1> QED
  BY <1>1, <1>2, StoreInvAlways, PTL DEF BackupSpec

(* No step leaves the store, a run or what the runs have left malformed.     *)
THEOREM BackupTypeCorrect == BackupSpec => []BackupTypeOK
<1> QED
  BY BackupSoundAlways, PTL DEF BackupSound

-----------------------------------------------------------------------------
Whole(f) == f # NoFile /\ f.end = "whole" => f.frames = f.size

(* A walk has what has been there since it began, or is still to visit it.   *)
WalkHolds ==
    run.at = "walking" =>
        /\ \A o \in Objects : Whole(run.holds[o])
        /\ \A o \in run.still :
              /\ files[o] # NoFile
              /\ run.holds[o] # NoFile \/ o \in run.left \ run.skip

SnapshotInv == WalkHolds /\ SnapshotHoldsAll

(* A snapshot has what was there all the time of its run, unchanged.         *)
THEOREM SnapshotsHoldAll == BackupSpec => []SnapshotHoldsAll
<1> DEFINE Base == StoreInv /\ BackupTypeOK
<1>1. BackupInit => SnapshotInv
  BY DEF BackupInit, SnapshotInv, WalkHolds, SnapshotHoldsAll, Resting
<1>2. Base /\ SnapshotInv /\ [BackupNext]_allVars => SnapshotInv'
  <2> SUFFICES ASSUME StoreInv, BackupTypeOK, SnapshotInv, [BackupNext]_allVars
               PROVE SnapshotInv'
    OBVIOUS
  <2> USE DEF SnapshotInv
  <2>1. CASE UNCHANGED <<run, archive, files>>
    BY <2>1 DEF WalkHolds, SnapshotHoldsAll, Whole
  <2>2. CASE StoreActs
    <3>1. SnapshotHoldsAll'
      BY <2>2 DEF StoreActs, SnapshotHoldsAll
    <3>2. CASE run.at = "walking"
      BY <2>2, <3>1, <3>2, WatchedWalk DEF WalkHolds, Whole, WalkSet
    <3>3. CASE run.at # "walking"
      BY <2>2, <3>1, <3>3 DEF StoreActs, WalkHolds
    <3> QED
      BY <3>2, <3>3
  <2>3. CASE run'.at # "walking" /\ UNCHANGED archive
    BY <2>3 DEF WalkHolds, SnapshotHoldsAll
  <2>4. CASE RunBegin
    <3>1. /\ run'.skip = temps
          /\ run'.left = Entries
          /\ run'.holds = [o \in Objects |-> NoFile]
          /\ run'.still = {o \in Objects : Stored(o)}
      BY <2>4, BegunWalk
    <3>2. \A o \in Objects : Stored(o) => files[o] # NoFile /\ o \in Entries /\ o \notin temps
      BY DEF StoreInv, UploadSound, Stored, NoFile, Entries
    <3>3. UNCHANGED <<files, archive>>
      BY <2>4 DEF RunBegin, storeVars
    <3> QED
      BY <3>1, <3>2, <3>3 DEF WalkHolds, Whole, SnapshotHoldsAll
  <2>5. ASSUME NEW o \in Objects, RunVisit(o) PROVE SnapshotInv'
    <3>1. /\ run \in WalkSet
          /\ run'.still = run.still
          /\ run'.skip = run.skip
          /\ run'.left = run.left \ {o}
          /\ o \in run.skip => run'.holds = run.holds
          /\ o \notin run.skip => /\ Stored(o)
                                  /\ run'.holds = [run.holds EXCEPT ![o] = files[o]]
      BY <2>5, VisitedWalk
    <3>2. Stored(o) => files[o] # NoFile /\ Whole(files[o])
      BY DEF StoreInv, StoredIsSound, Stored, NoFile, Whole
    <3>3. UNCHANGED <<files, archive>> /\ run.at = "walking"
      BY <2>5 DEF RunVisit, storeVars
    <3>4. SnapshotHoldsAll'
      BY <3>3 DEF SnapshotHoldsAll
    <3>5. run.holds \in [Objects -> {NoFile} \cup FileSet] /\ run.still \subseteq Objects
      BY <3>1 DEF WalkSet, Holdings
    <3>6. ASSUME NEW q \in Objects, q # o PROVE run'.holds[q] = run.holds[q]
      BY <3>1, <3>5, <3>6
    <3>7. Whole(run'.holds[o]) /\ (o \notin run.skip => run'.holds[o] # NoFile)
      BY <3>1, <3>2, <3>3, <3>5 DEF WalkHolds
    <3>8. \A q \in Objects : Whole(run'.holds[q])
      BY <3>3, <3>6, <3>7 DEF WalkHolds
    <3>9. \A q \in run'.still : /\ files'[q] # NoFile
                                /\ run'.holds[q] # NoFile \/ q \in run'.left \ run'.skip
      BY <3>1, <3>3, <3>5, <3>6, <3>7 DEF WalkHolds
    <3> QED
      BY <3>4, <3>8, <3>9 DEF WalkHolds
  <2>6. CASE RunRename
    <3>1. /\ run \in WalkSet
          /\ run'.at = "renamed"
          /\ archive' = [archive EXCEPT ![run.name] = archive'[run.name]]
          /\ archive'[run.name].holds = run.holds
          /\ archive'[run.name].still = run.still
      BY <2>6, RenamedArchive
    <3>2. run.at = "walking" /\ run.left = {}
      BY <2>6 DEF RunRename
    <3>3. \A o \in Objects : /\ o \in run.still => run.holds[o] # NoFile
                             /\ Whole(run.holds[o])
      BY <3>2 DEF WalkHolds
    <3>4. \A s \in Names : s # run.name => archive'[s] = archive[s]
      BY <3>1 DEF BackupTypeOK
    <3> QED
      BY <3>1, <3>3, <3>4 DEF WalkHolds, SnapshotHoldsAll, Whole
  <2>7. ASSUME NEW s \in Names, PruneArchive(s) PROVE SnapshotInv'
    <3>1. /\ archive' = [archive EXCEPT ![s] = NoFile]
          /\ run' = run /\ files' = files
      BY <2>7 DEF PruneArchive, storeVars
    <3> QED
      BY <3>1 DEF WalkHolds, SnapshotHoldsAll, BackupTypeOK, Whole
  <2> HIDE DEF SnapshotInv
  <2>8. CASE SumOpen
    <3>1. run'.at = "summing" /\ UNCHANGED archive
      BY <2>8 DEF SumOpen, BackupTypeOK, Resting
    <3> QED
      BY <2>3, <3>1
  <2>9. CASE SumWrite \/ ProcessStop \/ RunEnd \/ RunFail
    BY <2>3, <2>9 DEF SumWrite, ProcessStop, RunEnd, RunFail, Resting
  <2>10. ASSUME NEW c \in Configs, ProcessStart(c) PROVE SnapshotInv'
    BY <2>1, <2>10 DEF ProcessStart, Start
  <2>11. CASE ProcessClose \/ Tick
    BY <2>1, <2>11 DEF ProcessClose, Close, Tick, storeVars
  <2>12. ASSUME NEW s \in Names, PruneSum(s) PROVE SnapshotInv'
    BY <2>1, <2>12 DEF PruneSum, storeVars
  <2>13. CASE UNCHANGED allVars
    BY <2>1, <2>13 DEF storeVars, allVars, backupVars
  <2> QED
    BY <2>2, <2>4, <2>5, <2>6, <2>7, <2>8, <2>9, <2>10, <2>11, <2>12, <2>13 DEF BackupNext
<1>3. SnapshotInv => SnapshotHoldsAll
  BY DEF SnapshotInv
<1> QED
  BY <1>1, <1>2, <1>3, StoreInvAlways, BackupTypeCorrect, PTL DEF BackupSpec

-----------------------------------------------------------------------------
(* Checksums are those of runs that have begun; until a run writes its own    *)
(* there is none.  While it is about to, its archive is there and of now.     *)
(* Then, while it prunes, some archive verifies that is of its own time.      *)
RunInv ==
    /\ \A s \in Names : sidecar[s] # NoFile => sidecar[s].of <= runs
    /\ run.at \in {"walking", "renamed", "summing"} =>
          /\ run.id <= runs
          /\ \A s \in Names : sidecar[s] # NoFile => sidecar[s].of < run.id
    /\ run.at \in {"renamed", "summing"} =>
          /\ archive[run.name] # NoFile
          /\ archive[run.name].id = run.id
          /\ archive[run.name].at = now
    /\ run.at = "summing" => sidecar[run.name] # NoFile /\ sidecar[run.name].at = now

FreshOne ==
    run.at = "pruning" /\ ~reused =>
        \E s \in Names : Verifies(s) /\ archive[s].at = run.clock
                                     /\ sidecar[s].at = run.clock

RestoreInv == RunInv /\ FreshOne /\ AlwaysRestorable

Begun == [at : {"renamed", "summing"}, name : Names, id : 1..MaxRuns]

(* The steps that write a checksum.                                          *)
LEMMA OpenedSum ==
    ASSUME BackupTypeOK, SumOpen
    PROVE  /\ run \in Begun
           /\ run.at = "renamed"
           /\ run'.at = "summing"
           /\ run'.name = run.name
           /\ run'.id = run.id
           /\ sidecar' = [sidecar EXCEPT ![run.name] = sidecar'[run.name]]
           /\ sidecar'[run.name] = [state |-> "sum", of |-> 0, at |-> now]
           /\ UNCHANGED <<now, runs, archive, completed, reused>>
<1>1. run \in Begun
  BY DEF BackupTypeOK, SumOpen, Resting, Begun
<1>2. run' = [run EXCEPT !.at = "summing"]
  BY DEF SumOpen
<1>3. run'.at = "summing" /\ run'.name = run.name /\ run'.id = run.id
  BY <1>1, <1>2 DEF Begun
<1> QED
  BY <1>1, <1>3 DEF SumOpen, BackupTypeOK, Begun

LEMMA WrittenSum ==
    ASSUME BackupTypeOK, RunInv, SumWrite
    PROVE  /\ run \in Begun
           /\ run.at = "summing"
           /\ run'.at = "pruning"
           /\ run'.clock = now
           /\ sidecar' = [sidecar EXCEPT ![run.name] = sidecar'[run.name]]
           /\ sidecar'[run.name] # NoFile
           /\ sidecar'[run.name].of = run.id
           /\ sidecar'[run.name].at = now
           /\ UNCHANGED <<now, runs, archive, reused>>
<1>1. run \in Begun
  BY DEF BackupTypeOK, SumWrite, Resting, Begun
<1>2. /\ sidecar[run.name] \in [state : {"sum"}, of : 0..MaxRuns, at : Names]
      /\ sidecar[run.name].at = now
  BY <1>1 DEF BackupTypeOK, SumWrite, RunInv, Begun
<1>3. sidecar' = [sidecar EXCEPT ![run.name] = [sidecar[run.name] EXCEPT !.of = run.id]]
  BY DEF SumWrite
<1>4. /\ [sidecar[run.name] EXCEPT !.of = run.id].of = run.id
      /\ [sidecar[run.name] EXCEPT !.of = run.id].at = now
      /\ [sidecar[run.name] EXCEPT !.of = run.id] # NoFile
  BY <1>2 DEF NoFile
<1>5. sidecar'[run.name] = [sidecar[run.name] EXCEPT !.of = run.id]
  BY <1>1, <1>3 DEF BackupTypeOK, Begun
<1> QED
  BY <1>1, <1>3, <1>4, <1>5 DEF SumWrite

(* Once a run has completed there is always an archive that verifies.        *)
THEOREM RestorableAlways == BackupSpec => []AlwaysRestorable
<1>1. BackupInit => RestoreInv
  BY DEF BackupInit, RestoreInv, RunInv, FreshOne, AlwaysRestorable, Resting
<1>2. BackupTypeOK /\ BackupTypeOK' /\ RestoreInv /\ [BackupNext]_allVars => RestoreInv'
  <2> SUFFICES ASSUME BackupTypeOK, BackupTypeOK', RestoreInv, [BackupNext]_allVars
               PROVE RestoreInv'
    OBVIOUS
  <2> USE BackupAssumption DEF RestoreInv, RunInv, FreshOne, AlwaysRestorable, Verifies
  <2>1. CASE UNCHANGED <<run, now, runs, archive, sidecar, completed, reused>>
    BY <2>1
  <2>2. CASE StoreActs
    <3>1. UNCHANGED <<now, runs, archive, sidecar, completed, reused>>
      BY <2>2 DEF StoreActs
    <3>2. CASE run.at = "walking"
      <4>1. run'.at = "walking" /\ run'.id = run.id
        BY <2>2, <3>2 DEF StoreActs, BackupTypeOK, Resting
      <4> QED
        BY <3>1, <3>2, <4>1
    <3>3. CASE run.at # "walking"
      BY <2>1, <2>2, <3>1, <3>3 DEF StoreActs
    <3> QED
      BY <3>2, <3>3
  <2>3. CASE Tick
    BY <2>3 DEF Tick
  <2>4. CASE run' = Resting /\ UNCHANGED <<now, runs, archive, sidecar, completed, reused>>
    <3>1. run'.at \notin {"walking", "renamed", "summing", "pruning"}
      BY <2>4 DEF Resting
    <3> QED
      BY <2>4, <3>1
  <2>5. CASE RunBegin
    <3>1. /\ run'.at = "walking" /\ run'.id = runs + 1 /\ runs' = runs + 1
          /\ runs \in Nat
          /\ UNCHANGED <<now, archive, sidecar, completed, reused>>
      BY <2>5 DEF RunBegin, BackupTypeOK
    <3>2. \A s \in Names : sidecar[s] # NoFile => sidecar[s].of \in Nat
      BY DEF BackupTypeOK
    <3> QED
      BY <3>1, <3>2
  <2>6. ASSUME NEW o \in Objects, RunVisit(o) PROVE RestoreInv'
    <3>1. /\ run'.at = "walking" /\ run'.id = run.id /\ run.at = "walking"
          /\ UNCHANGED <<now, runs, archive, sidecar, completed, reused>>
      BY <2>6, VisitedWalk DEF RunVisit, WalkSet
    <3> QED
      BY <3>1
  <2>7. CASE RunRename
    <3>1. /\ run \in WalkSet
          /\ run' = [at |-> "renamed", name |-> run.name, id |-> run.id]
          /\ archive' = [archive EXCEPT ![run.name] = archive'[run.name]]
          /\ archive'[run.name] \in ArchiveSet
          /\ archive'[run.name].id = run.id
          /\ archive'[run.name].at = now
          /\ UNCHANGED <<now, runs, sidecar, completed>>
          /\ run.at = "walking"
      BY <2>7, RenamedArchive DEF RunRename
    <3>2. ~reused' => ~reused /\ archive[run.name] = NoFile
      BY <2>7, Zenon DEF RunRename
    <3>3. \A s \in Names : s # run.name => archive'[s] = archive[s]
      BY <3>1 DEF BackupTypeOK
    <3>4. AlwaysRestorable'
      BY <3>1, <3>2, <3>3
    <3>5. run.name \in Names /\ archive'[run.name] # NoFile
      BY <3>1 DEF WalkSet, ArchiveSet, NoFile
    <3> QED
      BY <3>1, <3>4, <3>5
  <2>8. CASE SumOpen
    <3>1. /\ run \in Begun
          /\ run.at = "renamed"
          /\ run'.at = "summing"
          /\ run'.name = run.name
          /\ run'.id = run.id
          /\ sidecar' = [sidecar EXCEPT ![run.name] = sidecar'[run.name]]
          /\ sidecar'[run.name] = [state |-> "sum", of |-> 0, at |-> now]
          /\ UNCHANGED <<now, runs, archive, completed, reused>>
      BY <2>8, OpenedSum
    <3>2. \A s \in Names : s # run.name => sidecar'[s] = sidecar[s]
      BY <3>1 DEF BackupTypeOK
    <3>3. /\ sidecar'[run.name] # NoFile
          /\ sidecar'[run.name].of = 0
          /\ sidecar'[run.name].at = now
          /\ run.name \in Names
          /\ run.id \in 1..MaxRuns
          /\ runs \in Nat
      BY <3>1 DEF NoFile, Begun, BackupTypeOK
    <3>4. ~Verifies(run.name)
      BY <3>1, <3>3 DEF BackupTypeOK
    <3>5. AlwaysRestorable'
      BY <3>1, <3>2, <3>4
    <3>6. RunInv'
      BY <3>1, <3>2, <3>3
    <3> QED
      BY <3>1, <3>5, <3>6
  <2>9. CASE SumWrite
    <3>1. /\ run \in Begun
          /\ run.at = "summing"
          /\ run'.at = "pruning"
          /\ run'.clock = now
          /\ sidecar' = [sidecar EXCEPT ![run.name] = sidecar'[run.name]]
          /\ sidecar'[run.name] # NoFile
          /\ sidecar'[run.name].of = run.id
          /\ sidecar'[run.name].at = now
          /\ UNCHANGED <<now, runs, archive, reused>>
      BY <2>9, WrittenSum
    <3>2. run.name \in Names /\ run.id <= runs
      BY <3>1 DEF Begun
    <3>3. \A s \in Names : s # run.name => sidecar'[s] = sidecar[s]
      BY <3>1 DEF BackupTypeOK
    <3>4. /\ archive'[run.name] # NoFile
          /\ sidecar'[run.name].of = archive'[run.name].id
          /\ archive'[run.name].at = now
      BY <3>1
    <3> QED
      BY <3>1, <3>2, <3>3, <3>4
  <2>10. ASSUME NEW s \in Names, PruneArchive(s) PROVE RestoreInv'
    <3>1. /\ archive' = [archive EXCEPT ![s] = NoFile]
          /\ run.at = "pruning"
          /\ run.clock - archive[s].at > Retention
          /\ UNCHANGED <<now, run, runs, sidecar, completed, reused>>
      BY <2>10 DEF PruneArchive, TooOld
    <3>2. run.clock \in Nat
      BY <3>1 DEF BackupTypeOK, Names, Resting
    <3>3. archive[s].at # run.clock
      BY <3>1, <3>2
    <3>4. \A q \in Names : q # s => archive'[q] = archive[q]
      BY <3>1 DEF BackupTypeOK
    <3> QED
      BY <3>1, <3>3, <3>4
  <2>11. ASSUME NEW s \in Names, PruneSum(s) PROVE RestoreInv'
    <3>1. /\ sidecar' = [sidecar EXCEPT ![s] = NoFile]
          /\ run.at = "pruning"
          /\ run.clock - sidecar[s].at > Retention
          /\ UNCHANGED <<now, run, runs, archive, completed, reused>>
      BY <2>11 DEF PruneSum, TooOld, Expired
    <3>2. run.clock \in Nat
      BY <3>1 DEF BackupTypeOK, Names, Resting
    <3>3. sidecar[s].at # run.clock
      BY <3>1, <3>2
    <3>4. sidecar'[s] = NoFile /\ \A q \in Names : q # s => sidecar'[q] = sidecar[q]
      BY <3>1 DEF BackupTypeOK
    <3> QED
      BY <3>1, <3>3, <3>4
  <2> HIDE DEF RestoreInv
  <2>12. CASE ProcessStop \/ RunEnd \/ RunFail
    BY <2>4, <2>12 DEF ProcessStop, RunEnd, RunFail
  <2>13. ASSUME NEW c \in Configs, ProcessStart(c) PROVE RestoreInv'
    BY <2>1, <2>13 DEF ProcessStart
  <2>14. CASE ProcessClose
    BY <2>1, <2>14 DEF ProcessClose
  <2>15. CASE UNCHANGED allVars
    BY <2>1, <2>15 DEF allVars, backupVars
  <2> QED
    BY <2>2, <2>3, <2>5, <2>6, <2>7, <2>8, <2>9, <2>10, <2>11, <2>12, <2>13, <2>14, <2>15
       DEF BackupNext
<1>3. RestoreInv => AlwaysRestorable
  BY DEF RestoreInv
<1> QED
  BY <1>1, <1>2, <1>3, BackupTypeCorrect, PTL DEF BackupSpec
=============================================================================
