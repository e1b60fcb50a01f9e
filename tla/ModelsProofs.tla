---------------------------- MODULE ModelsProofs ----------------------------
(***************************************************************************)
(* What training, the registry, the backup and the restore keep, for every *)
(* number of jobs, label horizon and way of splitting.                     *)
(***************************************************************************)
EXTENDS Models, FiniteSetTheorems, WellFoundedInduction, TLAPS

-----------------------------------------------------------------------------
(* The strengthening.                                                      *)

\* The tracker follows the task, and the task works on the latest number.
JobIsTracked ==
  /\ tracker.running <=> job.pc # "none"
  /\ job.pc # "none" => up /\ job.id = tracker.jobs /\ job.id \in Versions
  /\ job.outcome = "SUCCEEDED" => job.pc = "finish"

\* What the job has still to write is not there yet.
NothingAhead ==
  ~restored =>
    /\ \A v \in Versions : v > tracker.jobs => registry[v] = "none" /\ runs[v] = "none"
    /\ job.pc \in {"record", "build", "train", "register"} => registry[job.id] = "none"
    /\ job.pc = "record" => runs[job.id] = "none"

\* What the job has written is there.
WhatIsDone ==
  ~restored =>
    /\ job.pc = "register" => disk[job.id] = Files
    /\ job.outcome = "SUCCEEDED" => registry[job.id] # "none"

\* A backup holds rows the registry still has, and once the trees are
\* archived, their files.
ArchiveCovers ==
  backup # NoBackup \/ tool # "idle" =>
    /\ ~restored => \A v \in Versions : backup.dump.registry[v] # "none" => registry[v] # "none"
    /\ backup.manifest \/ tool = "archived" =>
         \A v \in Versions : backup.dump.registry[v] # "none" => backup.trees[v] = Files

\* Only a restore clears the tree, and it leaves its backup where it was.
RestoreIsRecorded ==
  /\ restored => tool \notin {"dumped", "archived"} /\ backup # NoBackup
  /\ tool \in {"restored", "cleared"} => restored

IInv ==
  /\ TypeOK /\ JobIsTracked /\ NothingAhead /\ WhatIsDone /\ ArchiveCovers
  /\ RestoreIsRecorded /\ CompletedRunIsDurable /\ ProductionIsChecked

-----------------------------------------------------------------------------
(* The split of the training frame.                                        *)

\* The rows of a split end a label horizon before the next split begins
\* (_trim_boundary): no window of a label crosses the boundary.
LEMMA SplitIsLeakFree ==
  ASSUME NEW n \in Nat,
         NEW i \in Split(n).train, NEW j \in Split(n).validation, NEW k \in Split(n).test
  PROVE  j \notin LabelWindow(i) /\ k \notin LabelWindow(i) /\ k \notin LabelWindow(j)
<1> DEFINE labelled == n - LabelHorizon
           trainEnd == (labelled * TrainFraction) \div 100
           width    == (labelled * ValidationFraction) \div 100
<1>1. /\ i \in Trimmed(1, trainEnd)
      /\ j \in Trimmed(trainEnd + 1, trainEnd + width)
      /\ k \in LabelledRows(n) /\ k \notin 1..(trainEnd + width)
  BY DEF Split
<1>2. labelled \in Nat
  BY <1>1, TrainingDataAssumption DEF LabelledRows
<1>3. labelled * TrainFraction \in Nat /\ labelled * ValidationFraction \in Nat
  <2> HIDE DEF labelled
  <2> QED BY <1>2, TrainingDataAssumption
<1>4. trainEnd \in Nat /\ width \in Nat
  <2> DEFINE a == labelled * TrainFraction
             b == labelled * ValidationFraction
  <2>1. a \in Nat /\ b \in Nat
    BY <1>3
  <2> HIDE DEF a, b
  <2>2. a \div 100 \in Nat /\ b \div 100 \in Nat
    BY <2>1
  <2> QED BY <2>2 DEF a, b
<1> HIDE DEF trainEnd, width
<1> QED BY <1>1, <1>4, TrainingDataAssumption DEF Trimmed, LabelledRows, LabelWindow

-----------------------------------------------------------------------------
(* The initial state, and the actions one by one.                          *)

LEMMA NoJobIsTyped == NoJob \in JobStates
<1>1. Split(0) \in {Split(n) : n \in RowCounts \cup {0}}
  OBVIOUS
<1>2. 0 \in 0..MaxJobs
  BY ModelsAssumption
<1> HIDE DEF Split
<1> QED BY <1>1, <1>2 DEF NoJob, JobStates, Outcomes

LEMMA Initially ==
  ASSUME Init
  PROVE  IInv
<1> USE DEF Init
<1>1. TypeOK
  <2>1. /\ registry \in [Versions -> Statuses \cup {"none"}]
        /\ runs \in [Versions -> Outcomes \cup {"none", "RUNNING"}]
        /\ disk \in [Versions -> SUBSET Files]
    OBVIOUS
  <2>2. tracker \in [running : BOOLEAN, outcome : Outcomes \cup {"none"}, jobs : 0..MaxJobs]
    BY ModelsAssumption
  <2>3. DOMAIN signals = Bars
    OBVIOUS
  <2> QED BY <2>1, <2>2, <2>3, NoJobIsTyped DEF TypeOK
<1>2. JobIsTracked /\ NothingAhead /\ WhatIsDone
  BY DEF NoJob, JobIsTracked, NothingAhead, WhatIsDone
<1>3. ArchiveCovers /\ RestoreIsRecorded
  BY DEF ArchiveCovers, RestoreIsRecorded
<1>4. CompletedRunIsDurable /\ ProductionIsChecked
  BY DEF CompletedRunIsDurable, ProductionIsChecked
<1> QED BY <1>1, <1>2, <1>3, <1>4 DEF IInv

kept == <<registry, runs, disk, up, tracker, job, operator>>

\* Requests, predictions and signals touch nothing the invariant is about.
LEMMA QuietStep ==
  ASSUME IInv, UNCHANGED kept, DOMAIN signals' = Bars
  PROVE  IInv'
<1> USE DEF IInv, kept, operator
<1>1. TypeOK'
  BY DEF TypeOK, BackupOK
<1>2. JobIsTracked' /\ NothingAhead' /\ WhatIsDone'
  BY DEF JobIsTracked, NothingAhead, WhatIsDone
<1>3. ArchiveCovers' /\ RestoreIsRecorded'
  BY DEF ArchiveCovers, RestoreIsRecorded
<1>4. CompletedRunIsDurable' /\ ProductionIsChecked'
  BY DEF CompletedRunIsDurable, ProductionIsChecked
<1> QED BY <1>1, <1>2, <1>3, <1>4

QuietAction ==
  \/ \E row \in FeatureRows : StoreFeatures(row)
  \/ RequestSignal \/ (\E v \in Versions : RequestPrediction(v))
  \/ RequestStep \/ CannotPredict \/ RequestFails

LEMMA QuietActions ==
  ASSUME IInv, QuietAction
  PROVE  IInv'
<1> USE DEF server, operator, database, kept, Ask, Await, Answer, ReadOnly, Request
<1>1. DOMAIN signals = Bars
  BY DEF IInv, TypeOK
<1>2. CASE \E row \in FeatureRows : StoreFeatures(row)
  BY <1>1, <1>2, QuietStep DEF StoreFeatures
<1>3. CASE RequestSignal \/ (\E v \in Versions : RequestPrediction(v))
  BY <1>1, <1>3, QuietStep DEF RequestSignal, RequestPrediction
<1>4. CASE SelectVersion \/ LoadModel \/ RefuseModel \/ Predict \/ StorePrediction
  BY <1>1, <1>4, QuietStep DEF SelectVersion, LoadModel, RefuseModel, Predict, StorePrediction
<1>5. CASE PersistSignal
  BY <1>1, <1>5, QuietStep DEF PersistSignal
<1>6. CASE CannotPredict \/ RequestFails
  BY <1>1, <1>6, QuietStep DEF CannotPredict, RequestFails
<1> QED BY <1>2, <1>3, <1>4, <1>5, <1>6 DEF QuietAction, RequestStep

\* The rows a started server keeps in production have their model file.
LEMMA StartupKeeps ==
  ASSUME IInv, NEW databaseUp \in BOOLEAN, Startup(databaseUp)
  PROVE  IInv'
<1> USE DEF IInv, Startup
<1>1. TypeOK'
  BY DEF TypeOK, BackupOK, Statuses
<1>2. \A v \in Versions : /\ registry'[v] = "none" <=> registry[v] = "none"
                          /\ databaseUp /\ registry'[v] = "PRODUCTION" => "model.txt" \in disk[v]
  BY DEF TypeOK, BrokenProduction
<1>3. JobIsTracked' /\ RestoreIsRecorded'
  BY DEF JobIsTracked, RestoreIsRecorded
<1>4. NothingAhead' /\ WhatIsDone'
  BY <1>2 DEF NothingAhead, WhatIsDone, JobIsTracked
<1>5. ArchiveCovers'
  BY <1>2 DEF ArchiveCovers
<1>6. CompletedRunIsDurable' /\ ProductionIsChecked'
  BY <1>2 DEF CompletedRunIsDurable, ProductionIsChecked
<1> QED BY <1>1, <1>3, <1>4, <1>5, <1>6

\* A stopped process forgets its job; the version it was writing has no row.
LEMMA StoppedKeeps ==
  ASSUME IInv, Crash \/ CrashWhileSaving
  PROVE  IInv'
<1> USE DEF IInv, Stopped
<1>1. /\ UNCHANGED <<database, tool, backup, restored>> /\ Stopped
      /\ disk' \in [Versions -> SUBSET Files]
      /\ ~restored => \A v \in Versions : registry[v] # "none" => disk'[v] = disk[v]
  BY DEF Crash, CrashWhileSaving, TypeOK, JobIsTracked, NothingAhead, Files
<1> USE DEF database
<1>2. TypeOK'
  BY <1>1, NoJobIsTyped DEF TypeOK, BackupOK, Outcomes
<1>3. JobIsTracked' /\ NothingAhead' /\ WhatIsDone'
  BY <1>1 DEF NoJob, JobIsTracked, NothingAhead, WhatIsDone
<1>4. ArchiveCovers' /\ RestoreIsRecorded'
  BY <1>1 DEF ArchiveCovers, RestoreIsRecorded
<1>5. CompletedRunIsDurable' /\ ProductionIsChecked'
  BY <1>1 DEF CompletedRunIsDurable, ProductionIsChecked
<1> QED BY <1>2, <1>3, <1>4, <1>5

LEMMA StartKeeps ==
  ASSUME IInv, StartTraining
  PROVE  IInv'
<1> USE DEF IInv, StartTraining, Job, operator
<1> DEFINE next == [NoJob EXCEPT !.pc = "record", !.id = tracker.jobs + 1]
<1>1. /\ tracker.jobs + 1 \in 0..MaxJobs /\ tracker.jobs + 1 \in Versions
      /\ tracker.jobs \in Int
  BY ModelsAssumption DEF TypeOK, Versions
<1>2. next \in JobStates /\ next.id = tracker.jobs + 1 /\ next.pc = "record"
      /\ next.outcome = "FAILED"
  BY <1>1, NoJobIsTyped DEF JobStates, NoJob
<1> HIDE DEF next
<1>3. job' = next
  BY DEF next
<1> USE DEF database
<1>4. TypeOK'
  BY <1>1, <1>2, <1>3 DEF TypeOK, BackupOK
<1>5. JobIsTracked'
  BY <1>1, <1>2, <1>3 DEF TypeOK, JobIsTracked
<1>6. NothingAhead'
  BY <1>1, <1>2, <1>3 DEF TypeOK, NothingAhead, Versions
<1>7. WhatIsDone' /\ ArchiveCovers' /\ RestoreIsRecorded'
  BY <1>2, <1>3 DEF WhatIsDone, ArchiveCovers, RestoreIsRecorded
<1>8. CompletedRunIsDurable' /\ ProductionIsChecked'
  BY DEF TypeOK, CompletedRunIsDurable, ProductionIsChecked
<1> QED BY <1>4, <1>5, <1>6, <1>7, <1>8

LEMMA RecordKeeps ==
  ASSUME IInv, RecordRun
  PROVE  IInv'
<1> USE DEF IInv, RecordRun, Job, operator
<1>1. job.id \in Versions /\ job.id = tracker.jobs /\ tracker.running
  BY DEF JobIsTracked
<1>2. job' \in JobStates /\ job'.id = job.id /\ job'.pc = "build"
      /\ job'.outcome = job.outcome
  BY DEF TypeOK, JobStates
<1>3. runs' \in [Versions -> Outcomes \cup {"none", "RUNNING"}]
      /\ \A v \in Versions : runs'[v] = runs[v] \/ (v = job.id /\ runs'[v] = "RUNNING")
  BY <1>1 DEF TypeOK
<1>4. TypeOK'
  BY <1>2, <1>3 DEF TypeOK, BackupOK
<1>5. JobIsTracked' /\ WhatIsDone' /\ ArchiveCovers' /\ RestoreIsRecorded'
  BY <1>2 DEF JobIsTracked, WhatIsDone, ArchiveCovers, RestoreIsRecorded
<1>6. NothingAhead'
  BY <1>1, <1>2, <1>3 DEF TypeOK, NothingAhead, Versions
<1>7. CompletedRunIsDurable' /\ ProductionIsChecked'
  BY <1>1, <1>3 DEF TypeOK, CompletedRunIsDurable, ProductionIsChecked
<1> QED BY <1>4, <1>5, <1>6, <1>7

\* Building the frame and failing move the job and nothing else.
LEMMA MoveKeeps ==
  ASSUME IInv, BuildFrame \/ JobFails
  PROVE  IInv'
<1> USE DEF IInv, Job, operator, database
<1>1. /\ job.pc \in {"build", "train", "register"}
      /\ UNCHANGED <<database, disk, tracker, up, operator>>
  BY DEF BuildFrame, JobFails
<1>2. job' \in JobStates
  <2>1. CASE JobFails
    BY <2>1 DEF JobFails, TypeOK, JobStates, Outcomes
  <2>2. CASE BuildFrame
    <3>1. PICK n \in RowCounts :
            Job([job EXCEPT !.frame = Split(n),
                            !.pc = IF Insufficient(Split(n)) THEN "finish" ELSE "train"])
      BY <2>2 DEF BuildFrame
    <3>2. Split(n) \in {Split(m) : m \in RowCounts \cup {0}}
      OBVIOUS
    <3> HIDE DEF Split, Insufficient
    <3> QED BY <3>1, <3>2 DEF TypeOK, JobStates
  <2> QED BY <2>1, <2>2
<1>3. /\ job'.id = job.id /\ job'.pc \in {"train", "finish"} /\ job'.outcome = "FAILED"
      /\ job'.pc = "train" => job.pc = "build"
  <2>1. job.pc = "build" => job.outcome = "FAILED"
    BY DEF JobIsTracked, TypeOK, JobStates, Outcomes
  <2> QED BY <2>1 DEF BuildFrame, JobFails, TypeOK, JobStates
<1>4. TypeOK'
  BY <1>1, <1>2 DEF TypeOK, BackupOK
<1>5. JobIsTracked' /\ NothingAhead' /\ WhatIsDone'
  BY <1>1, <1>3 DEF JobIsTracked, NothingAhead, WhatIsDone
<1>6. ArchiveCovers' /\ RestoreIsRecorded'
  BY <1>1 DEF ArchiveCovers, RestoreIsRecorded
<1>7. CompletedRunIsDurable' /\ ProductionIsChecked'
  BY <1>1 DEF CompletedRunIsDurable, ProductionIsChecked
<1> QED BY <1>4, <1>5, <1>6, <1>7

LEMMA SaveKeeps ==
  ASSUME IInv, TrainAndSave
  PROVE  IInv'
<1> USE DEF IInv, TrainAndSave, Job, operator, database
<1>1. job.id \in Versions
  BY DEF JobIsTracked
<1>2. job' \in JobStates /\ job'.id = job.id /\ job'.pc = "register"
      /\ job'.outcome = job.outcome /\ job.outcome # "SUCCEEDED"
  BY DEF TypeOK, JobStates, JobIsTracked
<1>3. disk' \in [Versions -> SUBSET Files] /\ disk'[job.id] = Files
      /\ \A v \in Versions : disk'[v] = disk[v] \/ disk'[v] = Files
  BY <1>1 DEF TypeOK
<1>4. TypeOK'
  BY <1>2, <1>3 DEF TypeOK, BackupOK
<1>5. JobIsTracked' /\ NothingAhead' /\ WhatIsDone'
  BY <1>2, <1>3 DEF JobIsTracked, NothingAhead, WhatIsDone
<1>6. ArchiveCovers' /\ RestoreIsRecorded'
  BY DEF ArchiveCovers, RestoreIsRecorded
<1>7. CompletedRunIsDurable' /\ ProductionIsChecked'
  BY <1>3 DEF CompletedRunIsDurable, ProductionIsChecked, Files
<1> QED BY <1>4, <1>5, <1>6, <1>7

\* The row is added when the files are there.
LEMMA RegisterKeeps ==
  ASSUME IInv, Register
  PROVE  IInv'
<1> USE DEF IInv, Register, Job, operator
<1>1. job.id \in Versions /\ job.id = tracker.jobs /\ tracker.running
  BY DEF JobIsTracked
<1>2. job' \in JobStates /\ job'.id = job.id /\ job'.pc = "finish"
  BY DEF TypeOK, JobStates, Outcomes
<1>3. /\ registry' \in [Versions -> Statuses \cup {"none"}]
      /\ registry'[job.id] \in {"VALIDATED", "CANDIDATE"}
      /\ \A v \in Versions : v # job.id => registry'[v] = registry[v]
  BY <1>1 DEF TypeOK, Statuses
<1>4. TypeOK'
  BY <1>2, <1>3 DEF TypeOK, BackupOK
<1>5. JobIsTracked' /\ WhatIsDone' /\ RestoreIsRecorded'
  BY <1>2, <1>3 DEF JobIsTracked, WhatIsDone, RestoreIsRecorded
<1>6. NothingAhead'
  BY <1>1, <1>2, <1>3 DEF TypeOK, NothingAhead, Versions
<1>7. ArchiveCovers'
  <2>1. \A v \in Versions : registry[v] # "none" => registry'[v] # "none"
    BY <1>3
  <2> QED BY <2>1 DEF ArchiveCovers
<1>8. CompletedRunIsDurable'
  <2>1. ~restored => disk[job.id] = Files
    BY DEF WhatIsDone
  <2> QED BY <1>1, <1>3, <2>1 DEF CompletedRunIsDurable
<1>9. ProductionIsChecked'
  BY <1>3 DEF ProductionIsChecked
<1> QED BY <1>4, <1>5, <1>6, <1>7, <1>8, <1>9

\* The run is called a success after its version is registered, and the
\* tracker says what the row says.
LEMMA FinishKeeps ==
  ASSUME IInv, RecordFails \/ (\E committed \in BOOLEAN : FinishRun(committed))
  PROVE  IInv'
<1> USE DEF IInv, Job, operator
<1>1. /\ job.pc # "none" /\ job.id \in Versions /\ job.id = tracker.jobs
      /\ job.outcome \in Outcomes /\ job' = NoJob
      /\ UNCHANGED <<registry, signals, disk, up, operator>>
  BY DEF RecordFails, FinishRun, JobIsTracked, TypeOK, JobStates, database
<1>2. /\ runs' \in [Versions -> Outcomes \cup {"none", "RUNNING"}]
      /\ \A v \in Versions : runs'[v] = runs[v] \/ (v = job.id /\ runs'[v] = job.outcome)
  BY <1>1 DEF RecordFails, FinishRun, TypeOK, database
<1>3. /\ tracker' \in [running : BOOLEAN, outcome : Outcomes \cup {"none"}, jobs : 0..MaxJobs]
      /\ tracker'.jobs = tracker.jobs /\ ~tracker'.running
      /\ tracker'.outcome = "SUCCEEDED" => runs'[job.id] = "SUCCEEDED"
  BY <1>1 DEF RecordFails, FinishRun, TypeOK, Outcomes
<1>4. TypeOK'
  BY <1>1, <1>2, <1>3, NoJobIsTyped DEF TypeOK, BackupOK
<1>5. JobIsTracked' /\ WhatIsDone'
  BY <1>1, <1>3 DEF NoJob, JobIsTracked, WhatIsDone
<1>6. NothingAhead'
  BY <1>1, <1>2, <1>3 DEF NoJob, NothingAhead, Versions, TypeOK
<1>7. ArchiveCovers' /\ RestoreIsRecorded' /\ ProductionIsChecked'
  BY <1>1 DEF ArchiveCovers, RestoreIsRecorded, ProductionIsChecked
<1>8. CompletedRunIsDurable'
  <2>1. ~restored /\ job.outcome = "SUCCEEDED" => registry[job.id] # "none"
    BY DEF WhatIsDone
  <2> QED BY <1>1, <1>2, <1>3, <2>1 DEF CompletedRunIsDurable
<1> QED BY <1>4, <1>5, <1>6, <1>7, <1>8

LEMMA PromoteKeeps ==
  ASSUME IInv, NEW v \in Versions, Promote(v)
  PROVE  IInv'
<1> USE DEF IInv, Promote, server, operator
<1>1. /\ registry' \in [Versions -> Statuses \cup {"none"}]
      /\ \A w \in Versions : /\ registry'[w] = "none" <=> registry[w] = "none"
                             /\ registry'[w] = "PRODUCTION" =>
                                  registry[w] = "PRODUCTION" \/ disk[w] = Files
  BY DEF TypeOK, Statuses
<1>2. TypeOK'
  BY <1>1 DEF TypeOK, BackupOK
<1>3. JobIsTracked' /\ NothingAhead' /\ WhatIsDone' /\ RestoreIsRecorded'
  BY <1>1 DEF JobIsTracked, NothingAhead, WhatIsDone, RestoreIsRecorded
<1>4. ArchiveCovers'
  BY <1>1 DEF ArchiveCovers
<1>5. CompletedRunIsDurable' /\ ProductionIsChecked'
  BY <1>1 DEF CompletedRunIsDurable, ProductionIsChecked, Files
<1> QED BY <1>2, <1>3, <1>4, <1>5

\* The trees are archived after the dump: what the dump registers is on disk.
LEMMA BackupKeeps ==
  ASSUME IInv, BackupDatabase \/ ArchiveTrees \/ WriteManifest \/ BackupFails
  PROVE  IInv'
<1> USE DEF IInv, database, server
<1>1. UNCHANGED <<registry, runs, signals, disk, up, tracker, job, checked, restored>>
  BY DEF BackupDatabase, ArchiveTrees, WriteManifest, BackupFails
<1>2. ~restored /\ (tool # "idle" \/ backup = NoBackup)
  BY DEF BackupDatabase, ArchiveTrees, WriteManifest, BackupFails, RestoreIsRecorded
<1>3. TypeOK'
  <2>1. (backup # NoBackup \/ tool # "idle" => BackupOK)'
    <3>1. CASE BackupDatabase
      BY <1>1, <3>1 DEF BackupDatabase, Dump, TypeOK, BackupOK
    <3>2. CASE ArchiveTrees \/ WriteManifest
      BY <1>1, <3>2 DEF ArchiveTrees, WriteManifest, TypeOK, BackupOK
    <3>3. CASE BackupFails
      BY <3>3 DEF BackupFails
    <3> QED BY <3>1, <3>2, <3>3
  <2>2. tool' \in {"idle", "dumped", "archived", "restored", "cleared"}
    BY DEF BackupDatabase, ArchiveTrees, WriteManifest, BackupFails
  <2> QED BY <1>1, <2>1, <2>2 DEF TypeOK
<1>4. JobIsTracked' /\ NothingAhead' /\ WhatIsDone'
  BY <1>1 DEF JobIsTracked, NothingAhead, WhatIsDone
<1>5. RestoreIsRecorded'
  BY <1>1, <1>2 DEF RestoreIsRecorded, BackupDatabase, ArchiveTrees, WriteManifest, BackupFails
<1>6. ArchiveCovers'
  <2>1. CASE BackupDatabase
    BY <1>1, <2>1 DEF BackupDatabase, Dump, ArchiveCovers
  <2>2. CASE ArchiveTrees
    <3>1. \A v \in Versions : backup.dump.registry[v] # "none" => disk[v] = Files
      BY <1>2, <2>2 DEF ArchiveTrees, ArchiveCovers, CompletedRunIsDurable
    <3>2. backup'.dump = backup.dump /\ backup'.trees = disk
      BY <2>2 DEF ArchiveTrees, TypeOK, BackupOK
    <3> QED BY <1>1, <1>2, <2>2, <3>1, <3>2 DEF ArchiveTrees, ArchiveCovers, RestoreIsRecorded
  <2>3. CASE WriteManifest
    <3>1. backup'.dump = backup.dump /\ backup'.trees = backup.trees
      BY <2>3 DEF WriteManifest, TypeOK, BackupOK
    <3> QED BY <1>1, <1>2, <2>3, <3>1 DEF WriteManifest, ArchiveCovers
  <2>4. CASE BackupFails
    BY <2>4 DEF BackupFails, ArchiveCovers
  <2> QED BY <2>1, <2>2, <2>3, <2>4
<1>7. CompletedRunIsDurable' /\ ProductionIsChecked'
  BY <1>1 DEF CompletedRunIsDurable, ProductionIsChecked
<1> QED BY <1>3, <1>4, <1>5, <1>6, <1>7

\* A restore may leave anything of its backup behind, and says so.
LEMMA RestoreKeeps ==
  ASSUME IInv, RestoreDatabase \/ ClearTrees \/ ExtractTrees
  PROVE  IInv'
<1> USE DEF IInv, server
<1>1. restored' /\ ~checked' /\ UNCHANGED <<up, tracker, job, backup>>
  BY DEF RestoreDatabase, ClearTrees, ExtractTrees, RestoreIsRecorded, TypeOK
<1>2. backup # NoBackup \/ tool # "idle"
  BY DEF RestoreDatabase, ClearTrees, ExtractTrees
<1>3. TypeOK'
  <2>1. CASE RestoreDatabase
    BY <1>1, <1>2, <2>1 DEF RestoreDatabase, TypeOK, BackupOK, database
  <2>2. CASE ClearTrees \/ ExtractTrees
    BY <1>1, <1>2, <2>2 DEF ClearTrees, ExtractTrees, TypeOK, BackupOK, database
  <2> QED BY <2>1, <2>2
<1>4. JobIsTracked' /\ NothingAhead' /\ WhatIsDone'
  BY <1>1 DEF JobIsTracked, NothingAhead, WhatIsDone
<1>5. ArchiveCovers' /\ RestoreIsRecorded'
  BY <1>1, <1>2
  DEF RestoreDatabase, ClearTrees, ExtractTrees, ArchiveCovers, RestoreIsRecorded, TypeOK
<1>6. CompletedRunIsDurable' /\ ProductionIsChecked'
  BY <1>1 DEF CompletedRunIsDurable, ProductionIsChecked
<1> QED BY <1>3, <1>4, <1>5, <1>6

LEMMA ToolStopKeeps ==
  ASSUME IInv, ToolStops
  PROVE  IInv'
<1> USE DEF IInv, ToolStops, server, database
<1>1. TypeOK'
  BY DEF TypeOK, BackupOK
<1>2. JobIsTracked' /\ NothingAhead' /\ WhatIsDone'
  BY DEF JobIsTracked, NothingAhead, WhatIsDone
<1>3. ArchiveCovers' /\ RestoreIsRecorded'
  BY DEF ArchiveCovers, RestoreIsRecorded
<1>4. CompletedRunIsDurable' /\ ProductionIsChecked'
  BY DEF CompletedRunIsDurable, ProductionIsChecked
<1> QED BY <1>1, <1>2, <1>3, <1>4

-----------------------------------------------------------------------------
(* The theorems.                                                           *)

LEMMA EveryStepKeeps ==
  ASSUME IInv, [Next]_vars
  PROVE  IInv'
<1>1. CASE UNCHANGED vars
  <2>1. DOMAIN signals = Bars
    BY DEF IInv, TypeOK
  <2> QED BY <1>1, <2>1, QuietStep DEF vars, database, server, operator, kept
<1>2. CASE Next
  BY <1>2, QuietActions, StartupKeeps, StoppedKeeps, StartKeeps, RecordKeeps, MoveKeeps,
     SaveKeeps, RegisterKeeps, FinishKeeps, PromoteKeeps, BackupKeeps, RestoreKeeps,
     ToolStopKeeps
  DEF Next, TrainingStep, QuietAction
<1> QED BY <1>1, <1>2

\* The strengthening is an invariant of training, the registry, backup and
\* restore.
THEOREM ModelsInductive == Spec => []IInv
<1>1. Init => IInv
  BY Initially
<1>2. IInv /\ [Next]_vars => IInv'
  BY EveryStepKeeps
<1> QED BY <1>1, <1>2, PTL DEF Spec

\* The state keeps its types.
THEOREM ModelsTypeCorrect == Spec => []TypeOK
<1>1. IInv => TypeOK
  BY DEF IInv
<1> QED BY <1>1, ModelsInductive, PTL

\* A completed run is durable (run_training_job, TrainingJobTracker): a run
\* that succeeded has its version, and a version has all its files, however
\* jobs, crashes and backups interleave.
THEOREM RunsAreDurable == Spec => []CompletedRunIsDurable
<1>1. IInv => CompletedRunIsDurable
  BY DEF IInv
<1> QED BY <1>1, ModelsInductive, PTL

\* A backup that says it is complete has the files of every version its dump
\* registers, although training goes on while it is taken (cmd_backup).
THEOREM BackupsAreSelfContained == Spec => []BackupIsSelfContained
<1>1. IInv => BackupIsSelfContained
  BY DEF IInv, ArchiveCovers, BackupIsSelfContained
<1> QED BY <1>1, ModelsInductive, PTL

\* After a startup that could check, no version in production lacks its model
\* file (demote_broken_production_models), until the next restore.
THEOREM ProductionHasItsFiles == Spec => []ProductionIsChecked
<1>1. IInv => ProductionIsChecked
  BY DEF IInv
<1> QED BY <1>1, ModelsInductive, PTL

\* No label of a split is computed from a close of a later split
\* (chronological_split), for every horizon, fractions and number of rows.
THEOREM FramesDoNotLeak == Spec => []SplitsDoNotLeak
<1>1. IInv => SplitsDoNotLeak
  <2> SUFFICES ASSUME IInv PROVE SplitsDoNotLeak
    OBVIOUS
  <2>1. PICK n \in RowCounts \cup {0} : job.frame = Split(n)
    BY DEF IInv, TypeOK, JobStates
  <2>2. n \in Nat
    BY ModelsAssumption
  <2> HIDE DEF Split
  <2> QED BY <2>1, <2>2, SplitIsLeakFree DEF SplitsDoNotLeak
<1> QED BY <1>1, ModelsInductive, PTL

-----------------------------------------------------------------------------
(* Sums over a finite set, along the order in which CHOOSE picks.          *)

\* A non-empty set of naturals has a least element.
LEMMA LeastElement ==
  ASSUME NEW T, T \subseteq Nat, T # {}
  PROVE  \E m \in T : \A k \in T : m <= k
<1> DEFINE R == {ss \in Nat \X Nat : ss[1] < ss[2]}
<1>1. IsWellFoundedOn(R, Nat) BY NatLessThanWellFounded DEF OpToRel
<1>2. \A k, m \in T : <<k, m>> \notin R => m <= k OBVIOUS
<1> HIDE DEF R
<1> QED BY <1>1, <1>2, WFMin, Zenon

Picked(t) == CHOOSE x \in t : TRUE

\* The function that sums f over the subsets of a set, as the equation that
\* defines it.
Adds(s, f, sets) ==
  \A t \in sets : s[t] = IF t = {} THEN 0 ELSE f[Picked(t)] + s[t \ {Picked(t)}]

LEMMA WithoutPicked ==
  ASSUME NEW S, IsFiniteSet(S), NEW t \in SUBSET S
  PROVE  /\ Cardinality(t) \in Nat /\ Cardinality(t) <= Cardinality(S)
         /\ Cardinality(t) = 0 <=> t = {}
         /\ t # {} => /\ Picked(t) \in S /\ t \ {Picked(t)} \in SUBSET S
                      /\ Cardinality(t \ {Picked(t)}) = Cardinality(t) - 1
<1>1. IsFiniteSet(t) /\ Cardinality(t) <= Cardinality(S) BY FS_Subset
<1>2. Cardinality(t) \in Nat /\ (Cardinality(t) = 0 <=> t = {})
  BY <1>1, FS_CardinalityType, FS_EmptySet
<1>3. t # {} => Picked(t) \in t BY DEF Picked
<1>4. t # {} => Cardinality(t \ {Picked(t)}) = Cardinality(t) - 1
  BY <1>1, <1>3, FS_RemoveElement
<1> QED BY <1>1, <1>2, <1>3, <1>4

LEMMA AddsExist ==
  ASSUME NEW S, IsFiniteSet(S), NEW f \in [S -> Int]
  PROVE  \E s \in [SUBSET S -> Int] : Adds(s, f, SUBSET S)
<1> DEFINE Small(n) == {t \in SUBSET S : Cardinality(t) <= n}
           T == {n \in Nat : ~ \E s \in [Small(n) -> Int] : Adds(s, f, Small(n))}
<1>1. \A t \in SUBSET S : /\ Cardinality(t) \in Nat /\ Cardinality(t) <= Cardinality(S)
                          /\ Cardinality(t) = 0 <=> t = {}
                          /\ t # {} => /\ Picked(t) \in S /\ t \ {Picked(t)} \in SUBSET S
                                       /\ Cardinality(t \ {Picked(t)}) = Cardinality(t) - 1
  BY WithoutPicked
<1>2. T = {}
  <2> SUFFICES ASSUME T # {} PROVE FALSE OBVIOUS
  <2>1. PICK n \in T : \A k \in T : n <= k
    <3>1. T \subseteq Nat OBVIOUS
    <3> HIDE DEF T
    <3> QED BY <3>1, LeastElement
  <2>2. n # 0
    <3>1. \A t \in Small(0) : t = {}
      <4> SUFFICES ASSUME NEW t \in Small(0) PROVE t = {} OBVIOUS
      <4>1. t \in SUBSET S /\ Cardinality(t) <= 0 OBVIOUS
      <4>2. Cardinality(t) \in Nat /\ (Cardinality(t) = 0 <=> t = {}) BY <1>1, <4>1
      <4> QED BY <4>1, <4>2
    <3>2. [t \in Small(0) |-> 0] \in [Small(0) -> Int] OBVIOUS
    <3>3. Adds([t \in Small(0) |-> 0], f, Small(0)) BY <3>1 DEF Adds
    <3> QED BY <3>2, <3>3
  <2>3. n - 1 \in Nat /\ n - 1 \notin T
    <3>1. n \in Nat OBVIOUS
    <3> HIDE DEF T
    <3> QED BY <2>1, <2>2, <3>1
  <2>4. PICK s \in [Small(n - 1) -> Int] : Adds(s, f, Small(n - 1)) BY <2>3
  <2> DEFINE g == [t \in Small(n) |->
                     IF t = {} THEN 0 ELSE f[Picked(t)] + s[t \ {Picked(t)}]]
  <2>5. ASSUME NEW t \in Small(n), t # {}
        PROVE  /\ t \ {Picked(t)} \in Small(n - 1) /\ t \ {Picked(t)} \in Small(n)
               /\ Picked(t) \in S
    <3>1. t \in SUBSET S /\ Cardinality(t) <= n /\ Cardinality(t) \in Nat BY <1>1
    <3>2. /\ Picked(t) \in S /\ t \ {Picked(t)} \in SUBSET S
          /\ Cardinality(t \ {Picked(t)}) = Cardinality(t) - 1
      BY <1>1, <2>5, <3>1
    <3>3. n \in Nat OBVIOUS
    <3>4. Cardinality(t \ {Picked(t)}) <= n - 1 /\ Cardinality(t \ {Picked(t)}) <= n
      BY <3>1, <3>2, <3>3
    <3> QED BY <3>2, <3>4
  <2>6. g \in [Small(n) -> Int]
    <3>1. ASSUME NEW t \in Small(n), t # {}
          PROVE  f[Picked(t)] + s[t \ {Picked(t)}] \in Int
      <4>1. f[Picked(t)] \in Int BY <2>5, <3>1
      <4>2. s[t \ {Picked(t)}] \in Int BY <2>4, <2>5, <3>1
      <4> QED BY <4>1, <4>2
    <3>2. \A t \in Small(n) :
            (IF t = {} THEN 0 ELSE f[Picked(t)] + s[t \ {Picked(t)}]) \in Int
      BY <3>1
    <3> HIDE DEF Small
    <3> QED BY <3>2, Zenon
  <2>7. Adds(g, f, Small(n))
    <3> SUFFICES ASSUME NEW t \in Small(n), t # {}
                 PROVE  g[t] = f[Picked(t)] + g[t \ {Picked(t)}]
      BY DEF Adds
    <3>1. t \ {Picked(t)} \in Small(n - 1) /\ t \ {Picked(t)} \in Small(n) BY <2>5
    <3> DEFINE u == t \ {Picked(t)}
    <3>2. s[u] = IF u = {} THEN 0 ELSE f[Picked(u)] + s[u \ {Picked(u)}]
      BY <2>4, <3>1 DEF Adds
    <3>3. g[u] = s[u] BY <3>1, <3>2
    <3> QED BY <3>3
  <2> HIDE DEF g
  <2> QED BY <2>1, <2>6, <2>7
<1>3. Cardinality(S) \in Nat BY FS_CardinalityType
<1>4. Small(Cardinality(S)) = SUBSET S BY <1>1
<1>5. \E s \in [Small(Cardinality(S)) -> Int] : Adds(s, f, Small(Cardinality(S)))
  BY <1>2, <1>3
<1> HIDE DEF Small
<1> QED BY <1>4, <1>5

\* Whatever adds up integers is an integer.
LEMMA AddsType ==
  ASSUME NEW S, IsFiniteSet(S), NEW f \in [S -> Int], NEW s, Adds(s, f, SUBSET S),
         NEW v \in SUBSET S
  PROVE  s[v] \in Int
<1> DEFINE T == {n \in Nat : \E u \in SUBSET S : Cardinality(u) = n /\ s[u] \notin Int}
<1> SUFFICES ASSUME s[v] \notin Int PROVE FALSE OBVIOUS
<1>1. T # {}
  <2>1. Cardinality(v) \in Nat BY WithoutPicked
  <2> QED BY <2>1
<1>2. PICK n \in T : \A k \in T : n <= k
  <2>1. T \subseteq Nat OBVIOUS
  <2> HIDE DEF T
  <2> QED BY <1>1, <2>1, LeastElement
<1>3. PICK u \in SUBSET S : Cardinality(u) = n /\ s[u] \notin Int BY <1>2
<1>4. s[u] = IF u = {} THEN 0 ELSE f[Picked(u)] + s[u \ {Picked(u)}]
  BY DEF Adds
<1>5. u # {} BY <1>3, <1>4
<1>6. /\ Picked(u) \in S /\ u \ {Picked(u)} \in SUBSET S
      /\ Cardinality(u \ {Picked(u)}) = n - 1
      /\ Cardinality(u \ {Picked(u)}) \in Nat
  <2>1. /\ Picked(u) \in S /\ u \ {Picked(u)} \in SUBSET S
        /\ Cardinality(u \ {Picked(u)}) = n - 1
    BY <1>3, <1>5, WithoutPicked
  <2>2. PICK w \in SUBSET S : w = u \ {Picked(u)} BY <2>1
  <2>3. Cardinality(w) \in Nat BY WithoutPicked
  <2> QED BY <2>1, <2>2, <2>3
<1>7. n - 1 \notin T
  <2>1. n \in Nat OBVIOUS
  <2> QED BY <1>2, <2>1
<1>8. s[u \ {Picked(u)}] \in Int BY <1>6, <1>7
<1>9. f[Picked(u)] \in Int BY <1>6
<1> QED BY <1>3, <1>4, <1>5, <1>8, <1>9

\* A bound on every part, by a multiple of its weight, is one on the sums.
LEMMA AddsBelow ==
  ASSUME NEW S, IsFiniteSet(S), NEW f \in [S -> Int], NEW g \in [S -> Int],
         NEW s, Adds(s, f, SUBSET S), NEW t, Adds(t, g, SUBSET S),
         NEW a \in Int, NEW c \in Int, \A k \in S : a * f[k] <= c * g[k]
  PROVE  a * s[S] <= c * t[S]
<1> DEFINE T == {n \in Nat : \E u \in SUBSET S :
                               Cardinality(u) = n /\ ~(a * s[u] <= c * t[u])}
<1> SUFFICES ASSUME ~(a * s[S] <= c * t[S]) PROVE FALSE OBVIOUS
<1>1. T # {}
  <2>1. Cardinality(S) \in Nat BY WithoutPicked
  <2> QED BY <2>1
<1>2. PICK n \in T : \A k \in T : n <= k
  <2>1. T \subseteq Nat OBVIOUS
  <2> HIDE DEF T
  <2> QED BY <1>1, <2>1, LeastElement
<1>3. PICK u \in SUBSET S : Cardinality(u) = n /\ ~(a * s[u] <= c * t[u]) BY <1>2
<1>4. /\ s[u] = IF u = {} THEN 0 ELSE f[Picked(u)] + s[u \ {Picked(u)}]
      /\ t[u] = IF u = {} THEN 0 ELSE g[Picked(u)] + t[u \ {Picked(u)}]
  BY DEF Adds
<1>5. u # {} BY <1>3, <1>4
<1>6. /\ Picked(u) \in S /\ u \ {Picked(u)} \in SUBSET S
      /\ Cardinality(u \ {Picked(u)}) = n - 1
  <2> HIDE DEF T
  <2> QED BY <1>3, <1>5, WithoutPicked
<1>7. PICK v \in SUBSET S : v = u \ {Picked(u)} BY <1>6
<1>8. a * s[v] <= c * t[v]
  <2>1. n \in Nat /\ n - 1 \in Int OBVIOUS
  <2>2. Cardinality(v) \in Nat BY WithoutPicked
  <2>3. n - 1 \in Nat /\ n - 1 \notin T BY <1>2, <1>6, <1>7, <2>1, <2>2
  <2> QED BY <1>6, <1>7, <2>3
<1>9. PICK p \in Int, x \in Int, q \in Int, y \in Int :
        p = f[Picked(u)] /\ x = s[v] /\ q = g[Picked(u)] /\ y = t[v]
  BY <1>6, AddsType
<1>10. a * p <= c * q BY <1>6, <1>9
<1>11. a * (p + x) = a * p + a * x /\ c * (q + y) = c * q + c * y OBVIOUS
<1>12. a * p \in Int /\ a * x \in Int /\ c * q \in Int /\ c * y \in Int OBVIOUS
<1>13. a * (p + x) <= c * (q + y) BY <1>8, <1>9, <1>10, <1>11, <1>12
<1> QED BY <1>3, <1>4, <1>5, <1>7, <1>9, <1>13

-----------------------------------------------------------------------------
(* Scores and the fusion, for every feature row, model and weights.        *)

\* What a component is worth, and what a request carries.
ScoreType == [score : Int, confidence : Int]
ComponentType == [score : Int, confidence : Int, active : BOOLEAN]

LEMMA WeightType == \A k : Weight(k) \in Nat
BY SignalFusionAssumption DEF Weight

\* The parts fuse adds up, and their sums.
Weights(S) == [k \in S |-> Weight(k)]
Scores(c, S) == [k \in S |-> c[k].score * Weight(k)]
Confidences(c, S) == [k \in S |-> c[k].confidence * Weight(k)]
ScoreSum(c, S) == MapThenSumSet(LAMBDA k : c[k].score * Weight(k), S)
ConfidenceSum(c, S) == MapThenSumSet(LAMBDA k : c[k].confidence * Weight(k), S)
SumOf(f, S) == MapThenSumSet(LAMBDA k : f[k], S)

LEMMA WeightsAdd ==
  ASSUME NEW S, IsFiniteSet(S)
  PROVE  \E s : /\ Adds(s, Weights(S), SUBSET S)
                /\ MapThenSumSet(LAMBDA k : Weight(k), S) = s[S]
<1> DEFINE f == [k \in S |-> Weight(k)]
           iter == CHOOSE iter : iter = [s \in SUBSET S |->
                     IF s = {} THEN 0
                     ELSE LET x == CHOOSE x \in s : TRUE
                          IN  Weight(x) + iter[s \ {x}]]
<1>1. f \in [S -> Int] BY WeightType
<1>2. PICK s \in [SUBSET S -> Int] : Adds(s, f, SUBSET S) BY <1>1, AddsExist
<1>3. s = [t \in SUBSET S |-> IF t = {} THEN 0
                              ELSE LET x == CHOOSE x \in t : TRUE
                                   IN  Weight(x) + s[t \ {x}]]
  BY <1>2 DEF Adds, Picked
<1>4. iter = [t \in SUBSET S |-> IF t = {} THEN 0
                                 ELSE LET x == CHOOSE x \in t : TRUE
                                      IN  Weight(x) + iter[t \ {x}]]
  BY <1>3
<1>5. Adds(iter, f, SUBSET S) BY <1>4 DEF Adds, Picked
<1>6. MapThenSumSet(LAMBDA k : Weight(k), S) = iter[S]
  BY DEF MapThenSumSet, MapThenFoldSet
<1> HIDE DEF iter
<1> QED BY <1>5, <1>6 DEF Weights

LEMMA ScoresAdd ==
  ASSUME NEW S, IsFiniteSet(S), NEW c, \A k \in S : c[k].score \in Int
  PROVE  \E s : Adds(s, Scores(c, S), SUBSET S) /\ ScoreSum(c, S) = s[S]
<1> DEFINE f == [k \in S |-> c[k].score * Weight(k)]
           iter == CHOOSE iter : iter = [s \in SUBSET S |->
                     IF s = {} THEN 0
                     ELSE LET x == CHOOSE x \in s : TRUE
                          IN  c[x].score * Weight(x) + iter[s \ {x}]]
<1>1. f \in [S -> Int]
  <2>1. \A a \in Int, b \in Nat : a * b \in Int OBVIOUS
  <2>2. \A k \in S : c[k].score * Weight(k) \in Int BY <2>1, WeightType
  <2> QED BY <2>2
<1>2. PICK s \in [SUBSET S -> Int] : Adds(s, f, SUBSET S) BY <1>1, AddsExist
<1>3. s = [t \in SUBSET S |-> IF t = {} THEN 0
                              ELSE LET x == CHOOSE x \in t : TRUE
                                   IN  c[x].score * Weight(x) + s[t \ {x}]]
  BY <1>2 DEF Adds, Picked
<1>4. iter = [t \in SUBSET S |-> IF t = {} THEN 0
                                 ELSE LET x == CHOOSE x \in t : TRUE
                                      IN  c[x].score * Weight(x) + iter[t \ {x}]]
  BY <1>3
<1>5. Adds(iter, f, SUBSET S) BY <1>4 DEF Adds, Picked
<1>6. ScoreSum(c, S) = iter[S]
  BY DEF ScoreSum, MapThenSumSet, MapThenFoldSet
<1> HIDE DEF iter
<1> QED BY <1>5, <1>6 DEF Scores

LEMMA ConfidencesAdd ==
  ASSUME NEW S, IsFiniteSet(S), NEW c, \A k \in S : c[k].confidence \in Int
  PROVE  \E s : Adds(s, Confidences(c, S), SUBSET S) /\ ConfidenceSum(c, S) = s[S]
<1> DEFINE f == [k \in S |-> c[k].confidence * Weight(k)]
           iter == CHOOSE iter : iter = [s \in SUBSET S |->
                     IF s = {} THEN 0
                     ELSE LET x == CHOOSE x \in s : TRUE
                          IN  c[x].confidence * Weight(x) + iter[s \ {x}]]
<1>1. f \in [S -> Int]
  <2>1. \A a \in Int, b \in Nat : a * b \in Int OBVIOUS
  <2>2. \A k \in S : c[k].confidence * Weight(k) \in Int BY <2>1, WeightType
  <2> QED BY <2>2
<1>2. PICK s \in [SUBSET S -> Int] : Adds(s, f, SUBSET S) BY <1>1, AddsExist
<1>3. s = [t \in SUBSET S |-> IF t = {} THEN 0
                              ELSE LET x == CHOOSE x \in t : TRUE
                                   IN  c[x].confidence * Weight(x) + s[t \ {x}]]
  BY <1>2 DEF Adds, Picked
<1>4. iter = [t \in SUBSET S |-> IF t = {} THEN 0
                                 ELSE LET x == CHOOSE x \in t : TRUE
                                      IN  c[x].confidence * Weight(x) + iter[t \ {x}]]
  BY <1>3
<1>5. Adds(iter, f, SUBSET S) BY <1>4 DEF Adds, Picked
<1>6. ConfidenceSum(c, S) = iter[S]
  BY DEF ConfidenceSum, MapThenSumSet, MapThenFoldSet
<1> HIDE DEF iter
<1> QED BY <1>5, <1>6 DEF Confidences

\* The other two sums have integer parts and are integers.
LEMMA SubSignalsSumType ==
  ASSUME NEW S, IsFiniteSet(S), NEW f, \A k \in S : f[k] \in Int
  PROVE  SumOf(f, S) \in Int
<1> DEFINE g == [k \in S |-> f[k]]
           iter == CHOOSE iter : iter = [s \in SUBSET S |->
                     IF s = {} THEN 0
                     ELSE LET x == CHOOSE x \in s : TRUE IN f[x] + iter[s \ {x}]]
<1>1. PICK s \in [SUBSET S -> Int] : Adds(s, g, SUBSET S)
  <2>1. g \in [S -> Int] OBVIOUS
  <2> QED BY <2>1, AddsExist
<1>2. s = [t \in SUBSET S |-> IF t = {} THEN 0
                              ELSE LET x == CHOOSE x \in t : TRUE
                                   IN  f[x] + s[t \ {x}]]
  BY <1>1 DEF Adds, Picked
<1>3. iter = [t \in SUBSET S |-> IF t = {} THEN 0
                                 ELSE LET x == CHOOSE x \in t : TRUE
                                      IN  f[x] + iter[t \ {x}]]
  BY <1>2
<1>4. Adds(iter, g, SUBSET S) BY <1>3 DEF Adds, Picked
<1>5. SumOf(f, S) = iter[S] BY DEF SumOf, MapThenSumSet, MapThenFoldSet
<1> HIDE DEF iter
<1>6. g \in [S -> Int] OBVIOUS
<1>7. iter[S] \in Int BY <1>4, <1>6, AddsType
<1> QED BY <1>5, <1>7

LEMMA PairsSumType ==
  ASSUME NEW S, IsFiniteSet(S), \A p \in S : p[2] \in Int
  PROVE  MapThenSumSet(LAMBDA p : p[2], S) \in Int
<1> DEFINE g == [p \in S |-> p[2]]
           iter == CHOOSE iter : iter = [s \in SUBSET S |->
                     IF s = {} THEN 0
                     ELSE LET x == CHOOSE x \in s : TRUE IN x[2] + iter[s \ {x}]]
<1>1. PICK s \in [SUBSET S -> Int] : Adds(s, g, SUBSET S)
  <2>1. g \in [S -> Int] OBVIOUS
  <2> QED BY <2>1, AddsExist
<1>2. s = [t \in SUBSET S |-> IF t = {} THEN 0
                              ELSE LET x == CHOOSE x \in t : TRUE
                                   IN  x[2] + s[t \ {x}]]
  BY <1>1 DEF Adds, Picked
<1>3. iter = [t \in SUBSET S |-> IF t = {} THEN 0
                                 ELSE LET x == CHOOSE x \in t : TRUE
                                      IN  x[2] + iter[t \ {x}]]
  BY <1>2
<1>4. Adds(iter, g, SUBSET S) BY <1>3 DEF Adds, Picked
<1>5. MapThenSumSet(LAMBDA p : p[2], S) = iter[S] BY DEF MapThenSumSet, MapThenFoldSet
<1> HIDE DEF iter
<1>6. g \in [S -> Int] OBVIOUS
<1>7. iter[S] \in Int BY <1>4, <1>6, AddsType
<1> QED BY <1>5, <1>7

\* The four sub-signals are integers, or cannot be computed.
LEMMA SubSignalType ==
  ASSUME NEW f \in FeatureType
  PROVE  /\ Trend(f) \in Int \cup {None} /\ Momentum(f) \in Int \cup {None}
         /\ DirectionalMovement(f) \in Int \cup {None} /\ Structure(f) \in Int \cup {None}
<1>0. \A x \in Int : Lean(x) \in Int BY DEF Lean, Clamp
<1>1. Trend(f) \in Int \cup {None}
  <2>1. CASE None \in {f.sma_20, f.sma_50} \/ f.sma_50 = 0 BY <2>1 DEF Trend
  <2>2. CASE ~(None \in {f.sma_20, f.sma_50} \/ f.sma_50 = 0)
    <3>1. PICK a \in Nat, b \in Nat \ {0} : a = f.sma_20 /\ b = f.sma_50
      BY <2>2 DEF FeatureType
    <3>2. ((a - b) * 5000) \div b \in Int OBVIOUS
    <3> QED BY <1>0, <2>2, <3>1, <3>2 DEF Trend
  <2> QED BY <2>1, <2>2
<1>2. DirectionalMovement(f) \in Int \cup {None}
  <2>1. CASE None \in {f.plus_di, f.minus_di} BY <2>1 DEF DirectionalMovement
  <2>2. CASE None \notin {f.plus_di, f.minus_di}
    <3>1. PICK p \in Nat, m \in Nat : p = f.plus_di /\ m = f.minus_di
      BY <2>2 DEF FeatureType
    <3>2. CASE p + m = 0 BY <2>2, <3>1, <3>2 DEF DirectionalMovement
    <3>3. CASE p + m # 0
      <4>1. PICK strength \in Int :
              strength = IF f.adx = None THEN 40 ELSE Clamp(0, 40, f.adx)
        BY DEF FeatureType, Clamp
      <4>2. PICK n \in Int : n = (p - m) * 100 * strength OBVIOUS
      <4>3. PICK d \in Nat \ {0} : d = (p + m) * 40 BY <3>3
      <4>4. n \div d \in Int OBVIOUS
      <4> QED BY <2>2, <3>1, <3>3, <4>1, <4>2, <4>3, <4>4 DEF DirectionalMovement
    <3> QED BY <3>2, <3>3
  <2> QED BY <2>1, <2>2
<1>3. Structure(f) \in Int \cup {None}
  <2> DEFINE base == CASE f.structure_trend = "BULLISH" -> 100
                       [] f.structure_trend = "BEARISH" -> -100
                       [] OTHER -> 0
             Points(event, points) == IF event \in f.events THEN points ELSE 0
             rising  == {"is_higher_high", "is_higher_low"} \cap f.events # {}
             falling == {"is_lower_high", "is_lower_low"} \cap f.events # {}
             failed  == IF "false_breakout" \in f.events
                        THEN Points("breakdown", 30) - Points("breakout", 30) ELSE 0
             event   == (IF rising THEN 50 ELSE 0) - (IF falling THEN 50 ELSE 0)
                        + Points("break_of_structure", base \div 2) + failed
  <2>1. base \in Int
    <3>1. "BULLISH" # "BEARISH" OBVIOUS
    <3> QED BY <3>1
  <2>2. Structure(f) = IF f.structure_trend = None /\ event = 0 THEN None
                       ELSE Lean(base + event)
    BY DEF Structure
  <2> HIDE DEF base
  <2>3. base \div 2 \in Int BY <2>1
  <2>4. event \in Int BY <2>3
  <2> HIDE DEF event
  <2> QED BY <1>0, <2>1, <2>2, <2>4
<1>4. Momentum(f) \in Int \cup {None}
  <2> DEFINE rsi   == IF f.rsi_14 = None THEN {}
                      ELSE {<<"rsi", Lean((f.rsi_14 - 50) * 2)>>}
             macd  == IF None \in {f.macd, f.macd_histogram} \/ f.macd = 0 THEN {}
                      ELSE {<<"macd", Lean((f.macd_histogram * 100) \div Magnitude(f.macd))>>}
             parts == rsi \cup macd
  <2>0. ASSUME NEW name, NEW x \in Int
        PROVE  IsFiniteSet({<<name, x>>}) /\ \A p \in {<<name, x>>} : p[2] \in Int
    <3>1. PICK pair : pair = <<name, x>> OBVIOUS
    <3>2. IsFiniteSet({pair}) BY FS_Singleton
    <3> QED BY <3>1, <3>2
  <2>1. IsFiniteSet(rsi) /\ \A p \in rsi : p[2] \in Int
    <3>1. CASE f.rsi_14 = None BY <3>1, FS_EmptySet
    <3>2. CASE f.rsi_14 # None
      <4>1. PICK x \in Int : x = Lean((f.rsi_14 - 50) * 2)
        BY <1>0, <3>2 DEF FeatureType
      <4>2. rsi = {<<"rsi", x>>} BY <3>2, <4>1
      <4> QED BY <2>0, <4>2
    <3> QED BY <3>1, <3>2
  <2>2. IsFiniteSet(macd) /\ \A p \in macd : p[2] \in Int
    <3>1. CASE None \in {f.macd, f.macd_histogram} \/ f.macd = 0
      BY <3>1, FS_EmptySet
    <3>2. CASE ~(None \in {f.macd, f.macd_histogram} \/ f.macd = 0)
      <4>1. PICK m \in Int \ {0}, h \in Int : m = f.macd /\ h = f.macd_histogram
        BY <3>2 DEF FeatureType
      <4>2. PICK d \in Nat \ {0} : d = Magnitude(m) BY DEF Magnitude
      <4>3. (h * 100) \div d \in Int OBVIOUS
      <4>4. PICK x \in Int : x = Lean((f.macd_histogram * 100) \div Magnitude(f.macd))
        BY <1>0, <4>1, <4>2, <4>3
      <4>5. macd = {<<"macd", x>>} BY <3>2, <4>4
      <4> QED BY <2>0, <4>5
    <3> QED BY <3>1, <3>2
  <2>3. Momentum(f) = IF parts = {} THEN None
                      ELSE MapThenSumSet(LAMBDA p : p[2], parts) \div Cardinality(parts)
    BY DEF Momentum
  <2> HIDE DEF rsi, macd
  <2>4. IsFiniteSet(parts) /\ \A p \in parts : p[2] \in Int BY <2>1, <2>2, FS_Union
  <2> HIDE DEF parts
  <2>5. MapThenSumSet(LAMBDA p : p[2], parts) \in Int BY <2>4, PairsSumType
  <2>6. parts # {} => Cardinality(parts) \in Nat \ {0}
    BY <2>4, FS_CardinalityType, FS_EmptySet
  <2> QED BY <2>3, <2>5, <2>6
<1> QED BY <1>1, <1>2, <1>3, <1>4

\* Any feature row has a score, and any row of probabilities
\* (compute_technical_score, fusion_score_from_probabilities).
LEMMA TechnicalScoreType ==
  ASSUME NEW f \in FeatureType
  PROVE  TechnicalScore(f) \in ScoreType
<1> DEFINE sub       == SubSignals(f)
           names     == {"trend", "momentum", "directional", "structure"}
           available == {s \in DOMAIN sub : sub[s] # None}
           sum       == MapThenSumSet(LAMBDA s : sub[s], available)
           raw       == sum \div Cardinality(available)
           penalty   == VolatilityPenalty(f)
           cut       == (Magnitude(raw) * Cardinality(available) * penalty)
                          \div (Cardinality(DOMAIN sub) * 100)
<1>1. DOMAIN sub = names BY DEF SubSignals
<1>2. \A s \in names : sub[s] \in Int \cup {None}
  BY SubSignalType DEF SubSignals
<1>3. IsFiniteSet(names)
  <2>1. IsFiniteSet({"trend"}) /\ IsFiniteSet({"momentum"})
        /\ IsFiniteSet({"directional"}) /\ IsFiniteSet({"structure"})
    BY FS_Singleton
  <2>2. IsFiniteSet({"trend"} \cup {"momentum"})
        /\ IsFiniteSet({"directional"} \cup {"structure"})
    BY <2>1, FS_Union
  <2>3. IsFiniteSet(({"trend"} \cup {"momentum"}) \cup ({"directional"} \cup {"structure"}))
    BY <2>2, FS_Union
  <2>4. names = ({"trend"} \cup {"momentum"}) \cup ({"directional"} \cup {"structure"})
    OBVIOUS
  <2> QED BY <2>3, <2>4
<1>4. Cardinality(DOMAIN sub) \in Nat \ {0}
  BY <1>1, <1>3, FS_CardinalityType, FS_EmptySet
<1>5. IsFiniteSet(available)
  <2>1. available \subseteq names BY <1>1
  <2> HIDE DEF available, names
  <2> QED BY <1>3, <2>1, FS_Subset
<1>6. \A s \in available : sub[s] \in Int BY <1>1, <1>2
<1>7. available # {} => Cardinality(available) \in Nat \ {0}
  BY <1>5, FS_CardinalityType, FS_EmptySet
<1>8. penalty \in Int BY DEF VolatilityPenalty, FeatureType
<1>9. TechnicalScore(f)
        = IF available = {} THEN [score |-> 50, confidence |-> 0]
          ELSE [score |-> Clamp(0, 100, (raw + 100) \div 2), confidence |-> cut]
  BY DEF TechnicalScore
<1> HIDE DEF available, sub, penalty
<1>10. sum \in Int
  <2>1. SumOf(sub, available) \in Int BY <1>5, <1>6, SubSignalsSumType
  <2> QED BY <2>1 DEF SumOf
<1> HIDE DEF sum
<1>11. CASE available = {} BY <1>9, <1>11 DEF ScoreType
<1>12. CASE available # {}
  <2>1. PICK n \in Nat \ {0} : n = Cardinality(available) BY <1>7, <1>12
  <2>2. PICK r \in Int : r = raw BY <1>10, <2>1
  <2>3. PICK d \in Nat \ {0} : d = Cardinality(DOMAIN sub) * 100 BY <1>4
  <2>4. PICK m \in Int : m = Magnitude(raw) BY <2>2 DEF Magnitude
  <2>5. PICK v \in Int : v = m * n * penalty BY <1>8
  <2>6. v \div d \in Int OBVIOUS
  <2>7. cut \in Int BY <2>1, <2>3, <2>4, <2>5, <2>6
  <2>8. Clamp(0, 100, (raw + 100) \div 2) \in Int
    <3>1. PICK h \in Int : h = (r + 100) \div 2 OBVIOUS
    <3> QED BY <2>2, <3>1 DEF Clamp
  <2> HIDE DEF cut, raw
  <2> QED BY <1>9, <1>12, <2>7, <2>8 DEF ScoreType
<1> QED BY <1>11, <1>12

LEMMA ModelScoreType ==
  ASSUME NEW proba \in ProbabilityType
  PROVE  ModelScore(proba) \in ScoreType
<1>1. PICK u \in 0..100, n \in 0..100, d \in 0..100 :
        u = proba.up /\ n = proba.neutral /\ d = proba.down
  BY DEF ProbabilityType
<1>2. \E m \in {u, n, d} : \A x \in {u, n, d} : m >= x OBVIOUS
<1>3. Max({u, n, d}) \in {u, n, d} BY <1>2 DEF Max
<1>4. Max({u, n, d}) \in Int BY <1>3
<1>5. (u - d + 100) \div 2 \in Int OBVIOUS
<1> QED BY <1>1, <1>4, <1>5 DEF ModelScore, ScoreType

\* A trade has a component behind it that is confident enough, and one that
\* leans its way by the margin.
TradeIsBacked(row) ==
  LET active == {k \in DOMAIN row.components : row.components[k].active}
      Leaning(k) ==
        LET lean == row.components[k].score - 50
        IN  IF row.action = "BUY" THEN lean > 0 /\ lean >= ActionMargin
            ELSE lean <= -ActionMargin
  IN  row.action \in {"BUY", "SELL"} =>
        /\ \E k \in active : row.components[k].confidence >= MinConfidence
        /\ \E k \in active : Leaning(k)

\* The averages of fuse hide neither a weak component nor a contrary one.
LEMMA FusedTradeIsBacked ==
  ASSUME NEW K, IsFiniteSet(K), NEW c \in [K -> ComponentType],
         Fuse(c) \in {"BUY", "SELL"}
  PROVE  LET active == {k \in K : c[k].active}
         IN  /\ \E k \in active : c[k].confidence >= MinConfidence
             /\ Fuse(c) = "BUY" => \E k \in active : /\ c[k].score - 50 > 0
                                                     /\ c[k].score - 50 >= ActionMargin
             /\ Fuse(c) = "SELL" => \E k \in active : c[k].score - 50 <= -ActionMargin
<1> DEFINE active == {k \in K : c[k].active}
<1>1. IsFiniteSet(active)
  <2>1. active \subseteq K OBVIOUS
  <2> HIDE DEF active
  <2> QED BY <2>1, FS_Subset
<1>2. \A k \in active : c[k].score \in Int /\ c[k].confidence \in Int
  BY DEF ComponentType
<1>3. active = {k \in DOMAIN c : c[k].active} OBVIOUS
<1> HIDE DEF active
<1>4. /\ Weights(active) \in [active -> Int] /\ Scores(c, active) \in [active -> Int]
      /\ Confidences(c, active) \in [active -> Int]
  <2>1. \A a \in Int, b \in Nat : a * b \in Int OBVIOUS
  <2>2. \A k \in active : /\ Weight(k) \in Nat /\ c[k].score * Weight(k) \in Int
                          /\ c[k].confidence * Weight(k) \in Int
    BY <1>2, <2>1, WeightType
  <2> QED BY <2>2 DEF Weights, Scores, Confidences
<1>5. PICK w : /\ Adds(w, Weights(active), SUBSET active)
               /\ MapThenSumSet(LAMBDA k : Weight(k), active) = w[active]
  BY <1>1, WeightsAdd
<1>6. PICK s : Adds(s, Scores(c, active), SUBSET active) /\ ScoreSum(c, active) = s[active]
  BY <1>1, <1>2, ScoresAdd
<1>7. PICK e : /\ Adds(e, Confidences(c, active), SUBSET active)
               /\ ConfidenceSum(c, active) = e[active]
  BY <1>1, <1>2, ConfidencesAdd
<1>8. PICK total \in Int, score \in Int, confidence \in Int :
        total = w[active] /\ score = s[active] /\ confidence = e[active]
  BY <1>1, <1>4, <1>5, <1>6, <1>7, AddsType
<1>9. Fuse(c) = IF total = 0 THEN "NO_VALID_SETUP"
                ELSE IF \/ confidence < MinConfidence * total
                        \/ Magnitude(score - 50 * total) < ActionMargin * total THEN "WAIT"
                ELSE IF score > 50 * total THEN "BUY" ELSE "SELL"
  BY <1>3, <1>5, <1>6, <1>7, <1>8 DEF Fuse, ScoreSum, ConfidenceSum
<1>10. /\ total # 0 /\ ~(confidence < MinConfidence * total)
       /\ ~(Magnitude(score - 50 * total) < ActionMargin * total)
       /\ Fuse(c) = "BUY" <=> score > 50 * total
  BY <1>9
<1>11. total > 0
  <2>1. \A k \in active : (-1) * Weights(active)[k] <= 0 * Weights(active)[k]
    BY WeightType DEF Weights
  <2>2. (-1) * w[active] <= 0 * w[active] BY <1>1, <1>4, <1>5, <2>1, AddsBelow
  <2> QED BY <1>8, <1>10, <2>2
<1>12. \A a, b, x, y \in Int : x >= 0 /\ a <= b => a * x <= b * x
  <2> SUFFICES ASSUME NEW a \in Int, NEW b \in Int, NEW x \in Int, x >= 0, a <= b
               PROVE  a * x <= b * x
    OBVIOUS
  <2>1. (b - a) * x \in Nat OBVIOUS
  <2>2. b * x = a * x + (b - a) * x OBVIOUS
  <2>3. a * x \in Int OBVIOUS
  <2> QED BY <2>1, <2>2, <2>3
<1>13. ASSUME NEW m \in Int, \A k \in active : c[k].confidence <= m
       PROVE  confidence <= m * total
  <2>1. ASSUME NEW k \in active
        PROVE  1 * Confidences(c, active)[k] <= m * Weights(active)[k]
    <3>1. c[k].confidence * Weight(k) <= m * Weight(k) BY <1>2, <1>12, <1>13, WeightType
    <3>2. PICK x \in Int : x = c[k].confidence * Weight(k)
      BY <1>4 DEF Confidences
    <3> QED BY <3>1, <3>2 DEF Confidences, Weights
  <2>2. 1 * e[active] <= m * w[active]
    BY <1>1, <1>4, <1>5, <1>7, <2>1, AddsBelow
  <2> QED BY <1>8, <2>2
<1>14. ASSUME NEW m \in Int, \A k \in active : c[k].score <= m
       PROVE  score <= m * total
  <2>1. ASSUME NEW k \in active
        PROVE  1 * Scores(c, active)[k] <= m * Weights(active)[k]
    <3>1. c[k].score * Weight(k) <= m * Weight(k) BY <1>2, <1>12, <1>14, WeightType
    <3>2. PICK x \in Int : x = c[k].score * Weight(k)
      BY <1>4 DEF Scores
    <3> QED BY <3>1, <3>2 DEF Scores, Weights
  <2>2. 1 * s[active] <= m * w[active]
    <3>1. 1 \in Int OBVIOUS
    <3>2. \A k \in active : 1 * Scores(c, active)[k] <= m * Weights(active)[k] BY <2>1
    <3> QED BY <1>1, <1>4, <1>5, <1>6, <3>1, <3>2, AddsBelow
  <2> QED BY <1>8, <2>2
<1>15. ASSUME NEW m \in Int, \A k \in active : m <= c[k].score
       PROVE  m * total <= score
  <2>1. ASSUME NEW k \in active
        PROVE  (-1) * Scores(c, active)[k] <= (-m) * Weights(active)[k]
    <3>1. m * Weight(k) <= c[k].score * Weight(k) BY <1>2, <1>12, <1>15, WeightType
    <3>2. PICK x \in Int, y \in Int : x = c[k].score * Weight(k) /\ y = m * Weight(k)
      BY <1>4, WeightType DEF Scores
    <3>3. (-m) * Weight(k) = -y BY <3>2, WeightType
    <3> QED BY <3>1, <3>2, <3>3 DEF Scores, Weights
  <2>2. (-1) * s[active] <= (-m) * w[active]
    <3>1. -m \in Int /\ -1 \in Int OBVIOUS
    <3> QED BY <1>1, <1>4, <1>5, <1>6, <2>1, <3>1, AddsBelow
  <2>3. PICK y \in Int : y = m * total OBVIOUS
  <2>4. (-m) * total = -y BY <2>3
  <2> QED BY <1>8, <2>2, <2>3, <2>4
<1>16. \E k \in active : c[k].confidence >= MinConfidence
  <2> SUFFICES ASSUME ~ \E k \in active : c[k].confidence >= MinConfidence PROVE FALSE
    OBVIOUS
  <2>1. PICK x \in Int : x = MinConfidence * total BY SignalFusionAssumption
  <2>2. MinConfidence \in Int /\ MinConfidence - 1 \in Int BY SignalFusionAssumption
  <2>3. \A k \in active : c[k].confidence <= MinConfidence - 1 BY <1>2, <2>2
  <2>4. confidence <= (MinConfidence - 1) * total BY <1>13, <2>2, <2>3
  <2>5. (MinConfidence - 1) * total = x - total BY <2>1, <2>2
  <2> QED BY <1>10, <1>11, <2>1, <2>4, <2>5
<1>17. ActionMargin \in Nat BY SignalFusionAssumption
<1>18. PICK x \in Int : x = ActionMargin * total BY <1>17
<1>19. ASSUME Fuse(c) = "BUY"
       PROVE  \E k \in active : c[k].score - 50 > 0 /\ c[k].score - 50 >= ActionMargin
  <2> SUFFICES ASSUME ~ \E k \in active : /\ c[k].score - 50 > 0
                                          /\ c[k].score - 50 >= ActionMargin
               PROVE  FALSE
    OBVIOUS
  <2>1. score > 50 * total /\ score - 50 * total >= x
    BY <1>10, <1>18, <1>19 DEF Magnitude
  <2>2. CASE ActionMargin = 0
    <3>1. \A k \in active : c[k].score <= 50 BY <1>2, <2>2
    <3> QED BY <1>14, <2>1, <3>1
  <2>3. CASE ActionMargin > 0
    <3>1. \A k \in active : c[k].score <= 49 + ActionMargin BY <1>2, <1>17, <2>3
    <3>2. 49 + ActionMargin \in Int BY <1>17
    <3>3. score <= (49 + ActionMargin) * total BY <1>14, <3>1, <3>2
    <3>4. (49 + ActionMargin) * total = 49 * total + x BY <1>17, <1>18
    <3> QED BY <1>11, <2>1, <3>3, <3>4
  <2> QED BY <1>17, <2>2, <2>3
<1>20. ASSUME Fuse(c) = "SELL"
       PROVE  \E k \in active : c[k].score - 50 <= -ActionMargin
  <2> SUFFICES ASSUME ~ \E k \in active : c[k].score - 50 <= -ActionMargin
               PROVE  FALSE
    OBVIOUS
  <2>1. ~(score > 50 * total) BY <1>10, <1>20
  <2>2. 50 * total - score >= x BY <1>10, <1>18, <2>1 DEF Magnitude
  <2>3. \A k \in active : 51 - ActionMargin <= c[k].score BY <1>2, <1>17
  <2>4. 51 - ActionMargin \in Int BY <1>17
  <2>5. (51 - ActionMargin) * total <= score BY <1>15, <2>3, <2>4
  <2>6. (51 - ActionMargin) * total = 51 * total - x BY <1>17, <1>18
  <2> QED BY <1>11, <2>2, <2>5, <2>6
<1> QED BY <1>16, <1>19, <1>20 DEF active

-----------------------------------------------------------------------------
(* The signals: what the requests, the features and a backup carry.        *)

RequestType ==
  [pc : {"none", "select", "load", "predict", "store", "persist"},
   kind : {"signal", "predict"}, bar : 0..MaxBars,
   version : Versions \cup {NoVersion}, input : 0..MaxBars,
   technical : ScoreType, model : ComponentType]

FeaturesOK(rows) == rows \in Seq(FeatureRows) /\ Len(rows) <= MaxBars

TradesAreBacked(rows) == \A b \in Bars : rows[b] # NoSignal => TradeIsBacked(rows[b])

\* The model's part of a row is a stored prediction of that bar or a later one.
PredictionIsStored ==
  ~restored => \A b \in Bars :
    LET row == signals[b]
    IN  /\ row # NoSignal
        /\ "LIGHTGBM" \in DOMAIN row.components /\ row.components["LIGHTGBM"].active
        => <<row.version, row.input>> \in predictions /\ row.input >= b

\* What a request will write is so already when it gets there.
RequestFollows ==
  /\ request.kind = "predict" => request.pc \in {"load", "predict", "store"}
  /\ request.pc # "none" /\ request.kind = "signal" => request.bar \in Bars
  /\ request.pc \in {"none", "select", "load", "predict"} => ~request.model.active
  /\ ~restored =>
       /\ request.pc # "none" => request.bar <= Len(features)
       /\ request.pc = "store" => request.input >= request.bar
       /\ request.pc = "persist" /\ request.model.active =>
            <<request.version, request.input>> \in predictions
            /\ request.input >= request.bar

DumpIsBacked ==
  backup # NoBackup \/ tool # "idle" =>
    FeaturesOK(backup.dump.features) /\ TradesAreBacked(backup.dump.signals)

SignalsInv ==
  /\ FeaturesOK(features) /\ request \in RequestType
  /\ RequestFollows /\ PredictionIsStored /\ TradesAreBacked(signals) /\ DumpIsBacked

LEMMA NoRequestIsTyped ==
  /\ NoRequest \in RequestType
  /\ NoRequest.pc = "none" /\ NoRequest.kind = "signal" /\ ~NoRequest.model.active
<1>1. 0 \in 0..MaxBars BY ModelsAssumption
<1>2. [score |-> 50, confidence |-> 0] \in ScoreType BY DEF ScoreType
<1>3. [score |-> 50, confidence |-> 0, active |-> FALSE] \in ComponentType
  BY DEF ComponentType
<1> QED BY <1>1, <1>2, <1>3 DEF NoRequest, RequestType

LEMMA SignalsInitially ==
  ASSUME Init
  PROVE  SignalsInv
<1> USE DEF Init
<1>1. FeaturesOK(features) BY ModelsAssumption DEF FeaturesOK
<1>2. request \in RequestType /\ RequestFollows BY NoRequestIsTyped DEF RequestFollows
<1>3. PredictionIsStored /\ TradesAreBacked(signals) /\ DumpIsBacked
  BY DEF PredictionIsStored, TradesAreBacked, DumpIsBacked
<1> QED BY <1>1, <1>2, <1>3 DEF SignalsInv

carried == <<features, predictions, signals, restored, tool, backup>>

\* Training and the registry touch nothing this invariant is about.
LEMMA SignalsUntouched ==
  ASSUME SignalsInv, UNCHANGED carried, UNCHANGED request
  PROVE  SignalsInv'
<1> USE DEF SignalsInv, carried
<1>1. FeaturesOK(features)' /\ request' \in RequestType /\ TradesAreBacked(signals)'
  BY DEF FeaturesOK, TradesAreBacked
<1>2. RequestFollows' /\ PredictionIsStored' /\ DumpIsBacked'
  BY DEF RequestFollows, PredictionIsStored, DumpIsBacked
<1> QED BY <1>1, <1>2

\* A request that only moves on needs a look at itself alone.
LEMMA RequestMoves ==
  ASSUME SignalsInv, UNCHANGED carried, request' \in RequestType, RequestFollows'
  PROVE  SignalsInv'
<1> USE DEF SignalsInv, carried
<1>1. FeaturesOK(features)' /\ TradesAreBacked(signals)'
  BY DEF FeaturesOK, TradesAreBacked
<1>2. PredictionIsStored' /\ DumpIsBacked'
  BY DEF PredictionIsStored, DumpIsBacked
<1> QED BY <1>1, <1>2

LEMMA RequestEnds ==
  ASSUME SignalsInv, UNCHANGED carried, request' = NoRequest
  PROVE  SignalsInv'
BY NoRequestIsTyped, RequestMoves DEF RequestFollows

LEMMA StoreFeaturesKeeps ==
  ASSUME SignalsInv, NEW row \in FeatureRows, StoreFeatures(row)
  PROVE  SignalsInv'
<1> USE DEF SignalsInv, StoreFeatures, server, operator
<1>1. /\ features' = Append(features, row) /\ features \in Seq(FeatureRows)
      /\ Len(features) < MaxBars
  BY DEF FeaturesOK
<1>2. FeaturesOK(features)' /\ Len(features)' >= Len(features)
  BY <1>1, ModelsAssumption DEF FeaturesOK
<1>3. request' \in RequestType /\ TradesAreBacked(signals)' BY DEF TradesAreBacked
<1>4. RequestFollows'
  <2>1. request.bar \in Int /\ Len(features) \in Int /\ Len(features)' \in Int
    BY <1>1, <1>2 DEF RequestType, FeaturesOK
  <2> QED BY <1>2, <2>1 DEF RequestFollows
<1>5. PredictionIsStored' /\ DumpIsBacked' BY DEF PredictionIsStored, DumpIsBacked
<1> QED BY <1>2, <1>3, <1>4, <1>5

\* The signal is anchored to the latest row there is.
LEMMA RequestSignalKeeps ==
  ASSUME SignalsInv, RequestSignal
  PROVE  SignalsInv'
<1> USE DEF RequestSignal, Ask, Request, ReadOnly, database, operator
<1> DEFINE n == Len(features)
           t == TechnicalScore(features[n])
<1>1. UNCHANGED carried BY DEF carried
<1>2. n \in 1..MaxBars /\ features[n] \in FeatureRows
  <2>1. features \in Seq(FeatureRows) /\ features # <<>> /\ n <= MaxBars
    BY DEF SignalsInv, FeaturesOK
  <2> QED BY <2>1, ModelsAssumption
<1>3. t \in ScoreType BY <1>2, TechnicalScoreType, ModelsAssumption
<1>4. request' = [NoRequest EXCEPT !.pc = "select", !.bar = n, !.technical = t] OBVIOUS
<1> HIDE DEF t, n
<1>5. /\ request' \in RequestType /\ request'.pc = "select" /\ request'.kind = "signal"
      /\ request'.bar = n /\ ~request'.model.active
  <2>1. PICK m \in 0..MaxBars, u \in ScoreType : m = n /\ u = t BY <1>2, <1>3
  <2>2. PICK r \in RequestType :
          r = NoRequest /\ r.kind = "signal" /\ ~r.model.active
    BY NoRequestIsTyped
  <2> DEFINE q == [r EXCEPT !.pc = "select", !.bar = m, !.technical = u]
  <2>3. request' = q BY <1>4, <2>1, <2>2
  <2>4. /\ q \in RequestType /\ q.pc = "select" /\ q.kind = r.kind
        /\ q.bar = m /\ q.model = r.model
    BY DEF RequestType
  <2> HIDE DEF RequestSignal, q
  <2> QED BY <2>1, <2>2, <2>3, <2>4
<1>6. RequestFollows' BY <1>1, <1>2, <1>5 DEF RequestFollows, Bars, carried, n
<1> QED BY <1>1, <1>5, <1>6, RequestMoves

LEMMA RequestPredictionKeeps ==
  ASSUME SignalsInv, NEW v \in Versions, RequestPrediction(v)
  PROVE  SignalsInv'
<1> USE DEF RequestPrediction, Ask, Request, ReadOnly, database, operator
<1>1. UNCHANGED carried BY DEF carried
<1>2. request' = [NoRequest EXCEPT !.pc = "load", !.kind = "predict", !.version = v]
  OBVIOUS
<1>3. /\ request' \in RequestType /\ request'.pc = "load" /\ request'.kind = "predict"
      /\ request'.bar = 0 /\ ~request'.model.active
  <2>1. PICK r \in RequestType : r = NoRequest /\ r.bar = 0 /\ ~r.model.active
    BY NoRequestIsTyped DEF NoRequest
  <2> DEFINE q == [r EXCEPT !.pc = "load", !.kind = "predict", !.version = v]
  <2>2. request' = q BY <1>2, <2>1
  <2>3. /\ q \in RequestType /\ q.pc = "load" /\ q.kind = "predict"
        /\ q.bar = r.bar /\ q.model = r.model
    BY DEF RequestType
  <2> HIDE DEF RequestPrediction, q
  <2> QED BY <2>1, <2>2, <2>3
<1>4. Len(features) \in Nat BY DEF SignalsInv, FeaturesOK
<1>5. RequestFollows' BY <1>1, <1>3, <1>4 DEF RequestFollows, carried
<1> QED BY <1>1, <1>3, <1>5, RequestMoves

LEMMA SelectVersionKeeps ==
  ASSUME SignalsInv, SelectVersion
  PROVE  SignalsInv'
<1> USE DEF SelectVersion, Await, Request, ReadOnly, database, operator
<1>1. UNCHANGED carried BY DEF carried
<1>2. PICK r \in RequestType : r = request BY DEF SignalsInv
<1>3. BestVersion \in Versions \cup {NoVersion}
  <2> DEFINE With(status) == {v \in Versions : registry[v] = status}
  <2>1. ASSUME NEW S \in SUBSET Versions, S # {}
        PROVE  Max(S) \in Versions
    <3> DEFINE T == {n \in Nat : \E v \in S : n = MaxJobs - v}
    <3>1. MaxJobs \in Nat BY ModelsAssumption
    <3>2. T \subseteq Nat /\ T # {} BY <2>1, <3>1 DEF Versions
    <3>3. PICK n \in T : \A k \in T : n <= k
      <4> HIDE DEF T
      <4> QED BY <3>2, LeastElement
    <3>4. PICK v \in S : n = MaxJobs - v BY <3>3
    <3>5. ASSUME NEW w \in S PROVE v >= w
      <4>1. w \in 1..MaxJobs /\ v \in 1..MaxJobs BY DEF Versions
      <4>2. MaxJobs - w \in T BY <3>1, <4>1
      <4> QED BY <3>1, <3>3, <3>4, <4>1, <4>2
    <3> QED BY <3>4, <3>5 DEF Max
  <2>2. With("VALIDATED") \in SUBSET Versions /\ With("CANDIDATE") \in SUBSET Versions
    OBVIOUS
  <2> QED BY <2>1, <2>2 DEF BestVersion
<1>4. PICK v \in Versions \cup {NoVersion} : v = BestVersion BY <1>3
<1>5. request' = [r EXCEPT !.version = v,
                           !.pc = IF v = NoVersion THEN "persist" ELSE "load"]
  BY <1>2, <1>4
<1>6. /\ request' \in RequestType /\ request'.pc \in {"persist", "load"}
      /\ request'.kind = r.kind /\ request'.bar = r.bar /\ request'.model = r.model
  BY <1>5 DEF RequestType
<1>7. request.pc = "select" OBVIOUS
<1>8. RequestFollows'
  BY <1>1, <1>2, <1>6, <1>7 DEF SignalsInv, RequestFollows, carried
<1> QED BY <1>1, <1>6, <1>8, RequestMoves

LEMMA LoadModelKeeps ==
  ASSUME SignalsInv, LoadModel
  PROVE  SignalsInv'
<1> USE DEF LoadModel, Await, Request, ReadOnly, database, operator
<1>1. UNCHANGED carried BY DEF carried
<1>2. PICK r \in RequestType : r = request BY DEF SignalsInv
<1>3. request' = [r EXCEPT !.pc = "predict"] BY <1>2
<1>4. /\ request' \in RequestType /\ request'.pc = "predict"
      /\ request'.kind = r.kind /\ request'.bar = r.bar /\ request'.model = r.model
  BY <1>3 DEF RequestType
<1>5. request.pc = "load" OBVIOUS
<1>6. RequestFollows'
  BY <1>1, <1>2, <1>4, <1>5 DEF SignalsInv, RequestFollows, carried
<1> QED BY <1>1, <1>4, <1>6, RequestMoves

\* The model looks at the latest row, which is the signal's or a later one.
LEMMA PredictKeeps ==
  ASSUME SignalsInv, Predict
  PROVE  SignalsInv'
<1> USE DEF Request, ReadOnly, database, operator
<1>1. UNCHANGED carried /\ request.pc = "predict" /\ features # <<>>
  BY DEF Predict, Await, carried
<1>2. PICK proba \in Probabilities :
        request' = [request EXCEPT !.pc = "store", !.input = Len(features),
                                   !.model = Active(ModelScore(proba))]
  BY DEF Predict, Await
<1>3. PICK r \in RequestType : r = request BY DEF SignalsInv
<1>4. PICK n \in 0..MaxBars : n = Len(features)
  BY ModelsAssumption DEF SignalsInv, FeaturesOK
<1>5. PICK m \in ComponentType : m = Active(ModelScore(proba))
  <2>1. ModelScore(proba) \in ScoreType BY ModelScoreType, ModelsAssumption
  <2>2. PICK u \in ScoreType : u = ModelScore(proba) BY <2>1
  <2>3. Active(u) \in ComponentType BY DEF Active, ScoreType, ComponentType
  <2> QED BY <2>2, <2>3
<1>6. request' = [r EXCEPT !.pc = "store", !.input = n, !.model = m]
  BY <1>2, <1>3, <1>4, <1>5
<1>7. /\ request' \in RequestType /\ request'.pc = "store" /\ request'.input = n
      /\ request'.kind = r.kind /\ request'.bar = r.bar
  BY <1>6 DEF RequestType
<1>8. RequestFollows'
  BY <1>1, <1>3, <1>4, <1>7 DEF SignalsInv, RequestFollows, carried
<1> QED BY <1>1, <1>7, <1>8, RequestMoves

LEMMA CannotPredictKeeps ==
  ASSUME SignalsInv, CannotPredict
  PROVE  SignalsInv'
<1> USE DEF Request, ReadOnly, database, operator
<1>1. UNCHANGED carried /\ request.pc = "predict"
  BY DEF CannotPredict, Await, carried
<1>2. PICK r \in RequestType : r = request BY DEF SignalsInv
<1>3. CASE request.kind # "signal"
  BY <1>1, <1>3, RequestEnds DEF CannotPredict, Await
<1>4. CASE request.kind = "signal"
  <2>1. request' = [r EXCEPT !.pc = "persist"] BY <1>2, <1>4 DEF CannotPredict, Await
  <2>2. /\ request' \in RequestType /\ request'.pc = "persist"
        /\ request'.kind = r.kind /\ request'.bar = r.bar /\ request'.model = r.model
    BY <2>1 DEF RequestType
  <2>3. RequestFollows'
    BY <1>1, <1>2, <1>4, <2>2 DEF SignalsInv, RequestFollows, carried
  <2> QED BY <1>1, <2>2, <2>3, RequestMoves
<1> QED BY <1>3, <1>4

LEMMA StorePredictionKeeps ==
  ASSUME SignalsInv, StorePrediction
  PROVE  SignalsInv'
<1> USE DEF Request, operator
<1>1. /\ request.pc = "store"
      /\ predictions' = predictions \cup {<<request.version, request.input>>}
      /\ UNCHANGED <<registry, runs, features, signals, tool, backup, restored>>
  BY DEF StorePrediction, Await
<1>2. PICK r \in RequestType : r = request BY DEF SignalsInv
<1>3. request' \in RequestType /\ RequestFollows'
  <2>1. CASE request.kind # "signal"
    <3>1. request' = NoRequest BY <2>1 DEF StorePrediction, Await
    <3> QED BY <3>1, NoRequestIsTyped DEF RequestFollows
  <2>2. CASE request.kind = "signal"
    <3>1. request' = [r EXCEPT !.pc = "persist"]
      BY <1>2, <2>2 DEF StorePrediction, Await
    <3>2. /\ request' \in RequestType /\ request'.pc = "persist"
          /\ request'.kind = r.kind /\ request'.bar = r.bar /\ request'.model = r.model
          /\ request'.version = r.version /\ request'.input = r.input
      BY <3>1 DEF RequestType
    <3>3. <<r.version, r.input>> \in predictions' BY <1>1, <1>2
    <3> QED BY <1>1, <1>2, <2>2, <3>2, <3>3 DEF SignalsInv, RequestFollows
  <2> QED BY <2>1, <2>2
<1>4. PredictionIsStored' BY <1>1 DEF SignalsInv, PredictionIsStored
<1>5. FeaturesOK(features)' /\ TradesAreBacked(signals)' /\ DumpIsBacked'
  BY <1>1 DEF SignalsInv, FeaturesOK, TradesAreBacked, DumpIsBacked
<1> QED BY <1>3, <1>4, <1>5 DEF SignalsInv

\* The row of the signal is backed by its components, and the model's part by
\* the prediction that was stored before it.
LEMMA PersistSignalKeeps ==
  ASSUME SignalsInv, DOMAIN signals = Bars, PersistSignal
  PROVE  SignalsInv'
<1> USE DEF Answer, Await, Request, operator
<1> DEFINE kinds == {"TECHNICAL", "LIGHTGBM"}
           parts == Components(request)
           row == [action |-> Fuse(parts), components |-> parts,
                   version |-> request.version, input |-> request.input]
<1>1. /\ request.pc = "persist" /\ request' = NoRequest
      /\ signals' = [signals EXCEPT ![request.bar] = row]
      /\ UNCHANGED <<registry, runs, features, predictions, tool, backup, restored>>
  BY DEF PersistSignal
<1>2. request \in RequestType /\ RequestFollows BY DEF SignalsInv
<1>3. request.bar \in Bars BY <1>1, <1>2 DEF RequestFollows, RequestType
<1>4. /\ parts \in [kinds -> ComponentType] /\ DOMAIN parts = kinds
      /\ parts["LIGHTGBM"] = request.model
  <2>1. request.model \in ComponentType BY <1>2 DEF RequestType
  <2>2. Active(request.technical) \in ComponentType
    BY <1>2 DEF RequestType, Active, ScoreType, ComponentType
  <2> QED BY <2>1, <2>2 DEF Components
<1> HIDE DEF parts
<1>5. TradeIsBacked(row)
  <2>1. IsFiniteSet(kinds)
    <3>1. IsFiniteSet({"TECHNICAL"}) /\ IsFiniteSet({"LIGHTGBM"}) BY FS_Singleton
    <3>2. IsFiniteSet({"TECHNICAL"} \cup {"LIGHTGBM"}) BY <3>1, FS_Union
    <3>3. kinds = {"TECHNICAL"} \cup {"LIGHTGBM"} OBVIOUS
    <3> QED BY <3>2, <3>3
  <2> HIDE DEF kinds
  <2> SUFFICES ASSUME Fuse(parts) \in {"BUY", "SELL"} PROVE TradeIsBacked(row)
    BY DEF TradeIsBacked
  <2> DEFINE active == {k \in kinds : parts[k].active}
  <2>2. /\ \E k \in active : parts[k].confidence >= MinConfidence
        /\ Fuse(parts) = "BUY" => \E k \in active : /\ parts[k].score - 50 > 0
                                                    /\ parts[k].score - 50 >= ActionMargin
        /\ Fuse(parts) = "SELL" => \E k \in active : parts[k].score - 50 <= -ActionMargin
    BY <1>4, <2>1, FusedTradeIsBacked
  <2>3. row.action = Fuse(parts) /\ row.components = parts OBVIOUS
  <2>4. active = {k \in DOMAIN row.components : row.components[k].active}
    BY <1>4, <2>3
  <2> HIDE DEF row, active
  <2> QED BY <2>2, <2>3, <2>4 DEF TradeIsBacked
<1>6. ~restored /\ row.components["LIGHTGBM"].active
        => <<row.version, row.input>> \in predictions /\ row.input >= request.bar
  BY <1>1, <1>2, <1>4 DEF RequestFollows
<1> HIDE DEF row
<1>7. /\ signals'[request.bar] = row
      /\ \A b \in Bars : b # request.bar => signals'[b] = signals[b]
  BY <1>1, <1>3
<1>8. TradesAreBacked(signals)' BY <1>5, <1>7 DEF SignalsInv, TradesAreBacked
<1>9. PredictionIsStored' BY <1>1, <1>6, <1>7 DEF SignalsInv, PredictionIsStored
<1>10. request' \in RequestType /\ RequestFollows'
  BY <1>1, NoRequestIsTyped DEF RequestFollows
<1>11. FeaturesOK(features)' /\ DumpIsBacked'
  BY <1>1 DEF SignalsInv, FeaturesOK, DumpIsBacked
<1> QED BY <1>8, <1>9, <1>10, <1>11 DEF SignalsInv

\* A dump is what the database holds, and a restore brings back a dump.
LEMMA ToolKeepsSignals ==
  ASSUME IInv, SignalsInv,
         \/ BackupDatabase \/ ArchiveTrees \/ WriteManifest \/ BackupFails
         \/ RestoreDatabase \/ ClearTrees \/ ExtractTrees \/ ToolStops
  PROVE  SignalsInv'
<1> USE DEF database, server
<1>1. backup # NoBackup \/ tool # "idle" =>
        backup = [dump |-> backup.dump, trees |-> backup.trees,
                  manifest |-> backup.manifest]
  BY DEF IInv, TypeOK, BackupOK
<1>2. CASE BackupDatabase
  <2>1. /\ backup'.dump = Dump /\ UNCHANGED <<database, request, restored>>
    BY <1>2 DEF BackupDatabase
  <2>2. DumpIsBacked' BY <2>1 DEF SignalsInv, DumpIsBacked, Dump
  <2> QED BY <2>1, <2>2
    DEF SignalsInv, FeaturesOK, RequestFollows, PredictionIsStored, TradesAreBacked
<1>3. CASE ArchiveTrees \/ WriteManifest \/ BackupFails \/ ClearTrees \/ ExtractTrees
           \/ ToolStops
  <2>1. /\ UNCHANGED <<database, request, restored>>
        /\ backup'.dump = backup.dump \/ (backup' = NoBackup /\ tool' = "idle")
        /\ backup' # NoBackup \/ tool' # "idle" => backup # NoBackup \/ tool # "idle"
    BY <1>1, <1>3
    DEF ArchiveTrees, WriteManifest, BackupFails, ClearTrees, ExtractTrees, ToolStops
  <2>2. DumpIsBacked' BY <2>1 DEF SignalsInv, DumpIsBacked
  <2> QED BY <2>1, <2>2
    DEF SignalsInv, FeaturesOK, RequestFollows, PredictionIsStored, TradesAreBacked
<1>4. CASE RestoreDatabase
  <2>1. /\ features' = backup.dump.features /\ signals' = backup.dump.signals
        /\ restored' /\ backup # NoBackup /\ UNCHANGED <<request, backup>>
    BY <1>4 DEF RestoreDatabase
  <2>2. FeaturesOK(features)' /\ TradesAreBacked(signals)' /\ DumpIsBacked'
    BY <2>1 DEF SignalsInv, DumpIsBacked
  <2>3. RequestFollows' /\ PredictionIsStored'
    BY <2>1 DEF SignalsInv, RequestFollows, PredictionIsStored
  <2> QED BY <2>1, <2>2, <2>3 DEF SignalsInv
<1> QED BY <1>2, <1>3, <1>4

LEMMA EveryStepKeepsSignals ==
  ASSUME IInv, SignalsInv, [Next]_vars
  PROVE  SignalsInv'
<1>1. CASE UNCHANGED vars
  BY <1>1, SignalsUntouched DEF vars, carried, database, server, operator
<1>2. CASE \/ \E databaseUp \in BOOLEAN : Startup(databaseUp)
           \/ StartTraining \/ TrainingStep \/ JobFails \/ RecordFails
           \/ \E v \in Versions : Promote(v)
  <2>1. UNCHANGED carried /\ UNCHANGED request
    BY <1>2
    DEF Startup, StartTraining, TrainingStep, RecordRun, BuildFrame, TrainAndSave,
        Register, FinishRun, JobFails, RecordFails, Promote, Job, carried, database,
        server, operator
  <2> QED BY <2>1, SignalsUntouched
<1>3. CASE Crash \/ CrashWhileSaving \/ RequestFails \/ RefuseModel
  <2>1. UNCHANGED carried /\ request' = NoRequest
    BY <1>3
    DEF Crash, CrashWhileSaving, RequestFails, RefuseModel, Stopped, Answer, Await,
        Request, ReadOnly, carried, database, operator
  <2> QED BY <2>1, RequestEnds
<1>4. CASE \E row \in FeatureRows : StoreFeatures(row)
  BY <1>4, StoreFeaturesKeeps
<1>5. CASE RequestSignal \/ (\E v \in Versions : RequestPrediction(v))
  BY <1>5, RequestSignalKeeps, RequestPredictionKeeps
<1>6. CASE SelectVersion \/ LoadModel \/ Predict \/ CannotPredict
  BY <1>6, SelectVersionKeeps, LoadModelKeeps, PredictKeeps, CannotPredictKeeps
<1>7. CASE StorePrediction \/ PersistSignal
  <2>1. DOMAIN signals = Bars BY DEF IInv, TypeOK
  <2> QED BY <1>7, <2>1, StorePredictionKeeps, PersistSignalKeeps
<1>8. CASE \/ BackupDatabase \/ ArchiveTrees \/ WriteManifest \/ BackupFails
           \/ RestoreDatabase \/ ClearTrees \/ ExtractTrees \/ ToolStops
  BY <1>8, ToolKeepsSignals
<1> QED
  BY <1>1, <1>2, <1>3, <1>4, <1>5, <1>6, <1>7, <1>8 DEF Next, RequestStep

\* A stored signal can be explained (generate_signal, fuse): the model's part
\* is a stored prediction about its bar or a later one, and a trade is backed
\* by a component that is confident enough and one that leans its way by the
\* margin, whatever the weights, thresholds, features and predictions.
THEOREM SignalsAreExplained == Spec => []SignalIsExplained
<1>1. Init => SignalsInv
  BY SignalsInitially
<1>2. IInv /\ SignalsInv /\ [Next]_vars => SignalsInv'
  BY EveryStepKeepsSignals
<1>3. SignalsInv => SignalIsExplained
  <2> SUFFICES ASSUME SignalsInv, NEW b \in Bars, signals[b] # NoSignal
               PROVE  LET row    == signals[b]
                          active == {k \in DOMAIN row.components : row.components[k].active}
                      IN  ~restored /\ "LIGHTGBM" \in active =>
                            <<row.version, row.input>> \in predictions /\ row.input >= b
    BY DEF SignalsInv, TradesAreBacked, TradeIsBacked, SignalIsExplained
  <2> QED BY DEF SignalsInv, PredictionIsStored
<1> QED BY <1>1, <1>2, <1>3, ModelsInductive, PTL DEF Spec
=============================================================================
