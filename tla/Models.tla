------------------------------- MODULE Models -------------------------------
(***************************************************************************)
(* The models of one symbol and timeframe: training (ml/training.py), the  *)
(* registry and its check at startup (ml/registry.py, lifespan.py),        *)
(* inference (ml/prediction.py), signals (signals/service.py), and the     *)
(* backup and restore of both the database and the artifact directory      *)
(* (scripts/manage.py), which run beside the server as another process.    *)
(*                                                                         *)
(* A version is named after the moment its job built it, so a job and the  *)
(* version it may produce share a number.  Bars are numbered from 1.  An   *)
(* action is what runs between two awaits.                                 *)
(***************************************************************************)
EXTENDS TrainingData, SignalFusion, Sequences

CONSTANTS
  NoVersion, NoBackup,
  RowCounts,           \* rows the training frame may find
  FeatureRows,         \* what a technical_features row may hold
  Probabilities,       \* what a model may predict
  MaxJobs, MaxBars, MaxRequests   \* bounds

ASSUME ModelsAssumption ==
  /\ MaxJobs \in Nat /\ MaxBars \in Nat /\ MaxRequests \in Nat /\ RowCounts \subseteq Nat
  /\ NoVersion \notin 1..MaxJobs
  /\ FeatureRows \subseteq FeatureType /\ Probabilities \subseteq ProbabilityType

VARIABLES
  registry,     \* model_versions: version -> status
  runs,         \* training_runs: job -> status
  features,     \* technical_features: the row of each bar
  predictions,  \* model_predictions: <<version, bar>>
  signals,      \* signals and signal_components: bar -> row
  disk,         \* models/: version -> the files that are whole
  up,           \* the server is running
  tracker,      \* TrainingJobTracker
  job,          \* the training task
  request,      \* a request for a signal or a prediction
  asked,        \* requests so far, for the bound
  tool,         \* where manage.py backup or restore is
  backup,       \* the staging directory
  checked,      \* the registry was verified and no restore has run since
  restored      \* a restore has run

database == <<registry, runs, features, predictions, signals>>
server == <<up, tracker, job, request, asked>>
operator == <<tool, backup, checked, restored>>
vars == <<database, disk, server, operator>>

Versions == 1..MaxJobs
Bars == 1..MaxBars
Files == {"model.txt", "feature_columns.json"}

NoSignal == [action |-> "none"]
NoJob == [pc |-> "none", id |-> 0, frame |-> Split(0), outcome |-> "FAILED"]
NoRequest == [pc |-> "none", kind |-> "signal", bar |-> 0, version |-> NoVersion,
              input |-> 0, technical |-> [score |-> 50, confidence |-> 0],
              model |-> [score |-> 50, confidence |-> 0, active |-> FALSE]]

Init ==
  /\ registry = [v \in Versions |-> "none"] /\ runs = [j \in Versions |-> "none"]
  /\ features = <<>> /\ predictions = {}
  /\ signals = [b \in Bars |-> NoSignal]
  /\ disk = [v \in Versions |-> {}]
  /\ up = FALSE /\ tracker = [running |-> FALSE, outcome |-> "none", jobs |-> 0]
  /\ job = NoJob /\ request = NoRequest /\ asked = 0
  /\ tool = "idle" /\ backup = NoBackup
  /\ checked = FALSE /\ restored = FALSE

-----------------------------------------------------------------------------
(* The process: lifespan and _startup_checks.                              *)

\* verify_registry_artifacts: the model file and its checksum, for the rows
\* not archived.  The file of the columns is not looked at.
BrokenProduction ==
  {v \in Versions : registry[v] = "PRODUCTION" /\ "model.txt" \notin disk[v]}

\* Mutant: the broken rows are reported and left in production.
StartupReporting(databaseUp) ==
  /\ ~up /\ up' = TRUE /\ checked' = databaseUp
  /\ UNCHANGED <<database, disk, tracker, job, request, asked, tool, backup, restored>>

\* demote_broken_production_models.  A failed check is recorded and the
\* server starts all the same.
Startup(databaseUp) ==
  /\ ~up /\ up' = TRUE /\ checked' = databaseUp
  /\ registry' = [v \in Versions |->
       IF databaseUp /\ v \in BrokenProduction THEN "REJECTED" ELSE registry[v]]
  /\ UNCHANGED <<runs, features, predictions, signals, disk, tracker, job,
                 request, asked, tool, backup, restored>>

\* The trackers and the tasks live in memory; the job counter is the clock.
Stopped ==
  /\ up /\ up' = FALSE /\ checked' = FALSE
  /\ tracker' = [tracker EXCEPT !.running = FALSE, !.outcome = "none"]
  /\ job' = NoJob /\ request' = NoRequest

Crash == Stopped /\ UNCHANGED <<database, disk, asked, tool, backup, restored>>

-----------------------------------------------------------------------------
(* Training: start_training, _run_and_track, run_training_job.             *)

Job(next) == job' = next /\ UNCHANGED <<up, request, asked, operator>>

StartTraining ==
  /\ up /\ ~tracker.running /\ tracker.jobs < MaxJobs
  /\ tracker' = [tracker EXCEPT !.running = TRUE, !.jobs = @ + 1]
  /\ Job([NoJob EXCEPT !.pc = "record", !.id = tracker.jobs + 1])
  /\ UNCHANGED <<database, disk>>

RecordRun ==
  /\ job.pc = "record"
  /\ runs' = [runs EXCEPT ![job.id] = "RUNNING"]
  /\ Job([job EXCEPT !.pc = "build"])
  /\ UNCHANGED <<registry, features, predictions, signals, disk, tracker>>

\* build_training_frame; too few rows fail the job, they do not break it.
BuildFrame ==
  /\ job.pc = "build"
  /\ \E n \in RowCounts :
       Job([job EXCEPT !.frame = Split(n),
                       !.pc = IF Insufficient(Split(n)) THEN "finish" ELSE "train"])
  /\ UNCHANGED <<database, disk, tracker>>

\* Mutant: the contract of the columns is not written.
TrainAndSaveBoosterOnly ==
  /\ job.pc = "train"
  /\ disk' = [disk EXCEPT ![job.id] = {"model.txt"}]
  /\ Job([job EXCEPT !.pc = "register"])
  /\ UNCHANGED <<database, tracker>>

\* train, evaluate and save run without an await.
TrainAndSave ==
  /\ job.pc = "train"
  /\ disk' = [disk EXCEPT ![job.id] = Files]
  /\ Job([job EXCEPT !.pc = "register"])
  /\ UNCHANGED <<database, tracker>>

CrashWhileSaving ==
  /\ job.pc = "train"
  /\ disk' = [disk EXCEPT ![job.id] = {"model.txt"}]
  /\ Stopped
  /\ UNCHANGED <<database, asked, tool, backup, restored>>

\* passes_minimum_bar decides the status: the metrics are the environment's.
Register ==
  /\ job.pc = "register"
  /\ \E status \in {"VALIDATED", "CANDIDATE"} :
       registry' = [registry EXCEPT ![job.id] = status]
  /\ Job([job EXCEPT !.pc = "finish", !.outcome = "SUCCEEDED"])
  /\ UNCHANGED <<runs, features, predictions, signals, disk, tracker>>

\* Any exception of the job becomes its outcome.
JobFails ==
  /\ job.pc \in {"build", "train", "register"}
  /\ Job([job EXCEPT !.pc = "finish", !.outcome = "FAILED"])
  /\ UNCHANGED <<database, disk, tracker>>

\* Mutant: the tracker is only released when the commit succeeds.
FinishRunLeaking(committed) ==
  /\ job.pc = "finish"
  /\ committed => runs[job.id] # "none"
  /\ runs' = IF committed THEN [runs EXCEPT ![job.id] = job.outcome] ELSE runs
  /\ tracker' = [tracker EXCEPT !.running = ~committed]
  /\ Job(NoJob)
  /\ UNCHANGED <<registry, features, predictions, signals, disk>>

\* The run's own row is updated.  A restore may have taken it away, and a
\* session that failed in a flush refuses the commit: the row stays RUNNING.
FinishRun(committed) ==
  /\ job.pc = "finish"
  /\ committed => runs[job.id] # "none"
  /\ runs' = IF committed THEN [runs EXCEPT ![job.id] = job.outcome] ELSE runs
  /\ tracker' = [tracker EXCEPT !.running = FALSE,
                   !.outcome = IF committed THEN job.outcome ELSE "FAILED"]
  /\ Job(NoJob)
  /\ UNCHANGED <<registry, features, predictions, signals, disk>>

\* The insert of the run failed: no row was written.
RecordFails ==
  /\ job.pc = "record"
  /\ tracker' = [tracker EXCEPT !.running = FALSE, !.outcome = "FAILED"]
  /\ Job(NoJob)
  /\ UNCHANGED <<database, disk>>

TrainingStep ==
  \/ RecordRun \/ BuildFrame \/ TrainAndSave \/ Register
  \/ \E committed \in BOOLEAN : FinishRun(committed)

-----------------------------------------------------------------------------
(* Signals and predictions: generate_signal and predict_latest.            *)

Request(next) == request' = next /\ UNCHANGED <<disk, up, tracker, job, operator>>
Active(result) ==
  [score |-> result.score, confidence |-> result.confidence, active |-> TRUE]
Ask(next) ==
  /\ asked < MaxRequests /\ backup = NoBackup /\ asked' = asked + 1
  /\ Request(next)
Await(next) == Request(next) /\ UNCHANGED asked
Answer == Await(NoRequest)
ReadOnly == UNCHANGED database

\* Bound: a behaviour stores bars and asks, or takes backups, not both.
\* compute_and_store_all stores the row of the next bar.
StoreFeatures(row) ==
  /\ up /\ Len(features) < MaxBars /\ backup = NoBackup
  /\ features' = Append(features, row)
  /\ UNCHANGED <<registry, runs, predictions, signals, disk, server, operator>>

\* _technical_component anchors the signal to the latest row.
RequestSignal ==
  /\ up /\ request.pc = "none" /\ features # <<>>
  /\ Ask([NoRequest EXCEPT !.pc = "select", !.bar = Len(features),
                               !.technical = TechnicalScore(features[Len(features)])])
  /\ ReadOnly

RequestPrediction(v) ==
  /\ up /\ request.pc = "none"
  /\ Ask([NoRequest EXCEPT !.pc = "load", !.kind = "predict", !.version = v])
  /\ ReadOnly

\* _best_lightgbm_version: a validated one, else a candidate; the latest.
BestVersion ==
  LET With(status) == {v \in Versions : registry[v] = status}
  IN  IF With("VALIDATED") # {} THEN Max(With("VALIDATED"))
      ELSE IF With("CANDIDATE") # {} THEN Max(With("CANDIDATE")) ELSE NoVersion

SelectVersion ==
  /\ request.pc = "select"
  /\ Await([request EXCEPT !.version = BestVersion,
                             !.pc = IF BestVersion = NoVersion THEN "persist" ELSE "load"])
  /\ ReadOnly

\* predict_latest reads the registry and loads the artifact.
LoadModel ==
  /\ request.pc = "load"
  /\ registry[request.version] # "none" /\ disk[request.version] = Files
  /\ Await([request EXCEPT !.pc = "predict"])
  /\ ReadOnly

\* No such row, or an incomplete artifact: the request fails, the signal too.
RefuseModel ==
  /\ request.pc = "load"
  /\ registry[request.version] = "none" \/ disk[request.version] # Files
  /\ Answer /\ ReadOnly

\* It reads the latest feature row again, and that may be a later one.
Predict ==
  /\ request.pc = "predict" /\ features # <<>>
  /\ \E proba \in Probabilities :
       Await([request EXCEPT !.pc = "store", !.input = Len(features),
                  !.model = Active(ModelScore(proba))])
  /\ ReadOnly

\* No row, or a model's input is missing in it: nothing is predicted.
CannotPredict ==
  /\ request.pc = "predict"
  /\ Await(IF request.kind = "signal" THEN [request EXCEPT !.pc = "persist"]
             ELSE NoRequest)
  /\ ReadOnly

\* Mutant: the session is not committed.
StorePredictionUncommitted ==
  /\ request.pc = "store"
  /\ Await(IF request.kind = "signal" THEN [request EXCEPT !.pc = "persist"]
           ELSE NoRequest)
  /\ ReadOnly

StorePrediction ==
  /\ request.pc = "store"
  /\ predictions' = predictions \cup {<<request.version, request.input>>}
  /\ Await(IF request.kind = "signal" THEN [request EXCEPT !.pc = "persist"]
             ELSE NoRequest)
  /\ UNCHANGED <<registry, runs, features, signals>>

Components(r) ==
  [TECHNICAL |-> Active(r.technical), LIGHTGBM |-> r.model]

\* _persist: the row of the bar and its components, in one transaction.
PersistSignal ==
  /\ request.pc = "persist"
  /\ signals' = [signals EXCEPT ![request.bar] =
       [action |-> Fuse(Components(request)), components |-> Components(request),
        version |-> request.version, input |-> request.input]]
  /\ Answer
  /\ UNCHANGED <<registry, runs, features, predictions>>

RequestFails ==
  /\ request.pc # "none" /\ Answer /\ ReadOnly

RequestStep ==
  \/ SelectVersion \/ LoadModel \/ RefuseModel \/ Predict
  \/ StorePrediction \/ PersistSignal

\* external: an operator promotes a version he has tried out.
Promote(v) ==
  /\ registry[v] = "VALIDATED" /\ disk[v] = Files
  /\ registry' = [registry EXCEPT ![v] = "PRODUCTION"]
  /\ UNCHANGED <<runs, features, predictions, signals, disk, server, operator>>

-----------------------------------------------------------------------------
(* manage.py backup and restore, one at a time and under one name.         *)

Dump == [registry |-> registry, runs |-> runs, features |-> features,
         predictions |-> predictions, signals |-> signals]

\* Mutant: the manifest is written when the directory is made.
BackupManifestFirst ==
  /\ tool = "idle" /\ backup = NoBackup /\ features = <<>>   \* bound
  /\ tool' = "dumped"
  /\ backup' = [dump |-> Dump, trees |-> [v \in Versions |-> {}], manifest |-> TRUE]
  /\ UNCHANGED <<database, disk, server, checked, restored>>

\* cmd_backup: the directory is made and pg_dump takes its snapshot.
BackupDatabase ==
  /\ tool = "idle" /\ backup = NoBackup /\ features = <<>>   \* bound
  /\ tool' = "dumped"
  /\ backup' = [dump |-> Dump, trees |-> [v \in Versions |-> {}], manifest |-> FALSE]
  /\ UNCHANGED <<database, disk, server, checked, restored>>

ArchiveTrees ==
  /\ tool = "dumped"
  /\ tool' = "archived" /\ backup' = [backup EXCEPT !.trees = disk]
  /\ UNCHANGED <<database, disk, server, checked, restored>>

WriteManifest ==
  /\ tool = "archived"
  /\ tool' = "idle" /\ backup' = [backup EXCEPT !.manifest = TRUE]
  /\ UNCHANGED <<database, disk, server, checked, restored>>

\* A step failed: the partial directory is removed.
BackupFails ==
  /\ tool \in {"dumped", "archived"}
  /\ tool' = "idle" /\ backup' = NoBackup
  /\ UNCHANGED <<database, disk, server, checked, restored>>

\* cmd_restore refuses a backup without a manifest.  Bound: one restore.
RestoreDatabase ==
  /\ tool = "idle" /\ backup # NoBackup /\ backup.manifest /\ ~restored
  /\ tool' = "restored" /\ restored' = TRUE /\ checked' = FALSE
  /\ registry' = backup.dump.registry /\ runs' = backup.dump.runs
  /\ features' = backup.dump.features
  /\ predictions' = backup.dump.predictions /\ signals' = backup.dump.signals
  /\ UNCHANGED <<disk, server, backup>>

ClearTrees ==
  /\ tool = "restored" /\ tool' = "cleared" /\ checked' = FALSE
  /\ disk' = [v \in Versions |-> {}]
  /\ UNCHANGED <<database, server, backup, restored>>

ExtractTrees ==
  /\ tool = "cleared" /\ tool' = "idle" /\ checked' = FALSE
  /\ disk' = backup.trees
  /\ UNCHANGED <<database, server, backup, restored>>

\* Killed, or a command failed during a restore: what was done stays.
ToolStops ==
  /\ tool # "idle" /\ tool' = "idle"
  /\ UNCHANGED <<database, disk, server, backup, checked, restored>>

-----------------------------------------------------------------------------

Next ==
  \/ \E databaseUp \in BOOLEAN : Startup(databaseUp)
  \/ Crash
  \/ StartTraining \/ TrainingStep \/ CrashWhileSaving \/ JobFails \/ RecordFails
  \/ \E row \in FeatureRows : StoreFeatures(row)
  \/ RequestSignal \/ (\E v \in Versions : RequestPrediction(v))
  \/ RequestStep \/ CannotPredict \/ RequestFails
  \/ \E v \in Versions : Promote(v)
  \/ BackupDatabase \/ ArchiveTrees \/ WriteManifest \/ BackupFails
  \/ RestoreDatabase \/ ClearTrees \/ ExtractTrees \/ ToolStops

Spec == Init /\ [][Next]_vars

\* The event loop runs every task that is ready.
Fairness == WF_vars(TrainingStep) /\ WF_vars(RequestStep \/ CannotPredict)
FairSpec == Spec /\ Fairness

-----------------------------------------------------------------------------
(* Properties.                                                             *)

Statuses == {"CANDIDATE", "VALIDATED", "PRODUCTION", "REJECTED"}
Outcomes == {"SUCCEEDED", "FAILED"}

JobStates ==
  [pc : {"none", "record", "build", "train", "register", "finish"}, id : 0..MaxJobs,
   outcome : Outcomes, frame : {Split(n) : n \in RowCounts \cup {0}}]

BackupOK ==
  /\ backup = [dump |-> backup.dump, trees |-> backup.trees, manifest |-> backup.manifest]
  /\ backup.dump.registry \in [Versions -> Statuses \cup {"none"}]
  /\ backup.dump.runs \in [Versions -> Outcomes \cup {"none", "RUNNING"}]
  /\ DOMAIN backup.dump.signals = Bars
  /\ backup.trees \in [Versions -> SUBSET Files] /\ backup.manifest \in BOOLEAN

TypeOK ==
  /\ registry \in [Versions -> Statuses \cup {"none"}]
  /\ runs \in [Versions -> Outcomes \cup {"none", "RUNNING"}]
  /\ DOMAIN signals = Bars
  /\ disk \in [Versions -> SUBSET Files]
  /\ up \in BOOLEAN /\ checked \in BOOLEAN /\ restored \in BOOLEAN
  /\ tracker \in [running : BOOLEAN, outcome : Outcomes \cup {"none"}, jobs : 0..MaxJobs]
  /\ job \in JobStates
  /\ tool \in {"idle", "dumped", "archived", "restored", "cleared"}
  /\ backup # NoBackup \/ tool # "idle" => BackupOK

\* No label of a split is computed from a close of the next one, whatever
\* the number of rows (_trim_boundary, chronological_split).
SplitsDoNotLeak ==
  \A i \in job.frame.train, j \in job.frame.validation, k \in job.frame.test :
    /\ j \notin LabelWindow(i)
    /\ k \notin LabelWindow(i) /\ k \notin LabelWindow(j)

\* A completed run is durable (TrainingJobTracker): its version is in the
\* registry, every registered version has all its files, and what the
\* tracker calls a success is one in training_runs.  A crash between the
\* files, the row and the run leaves files without a row, never the reverse.
CompletedRunIsDurable ==
  ~restored =>
    /\ \A j \in Versions : /\ runs[j] = "SUCCEEDED" => registry[j] # "none"
                           /\ registry[j] # "none" => disk[j] = Files
    /\ ~tracker.running /\ tracker.outcome = "SUCCEEDED"
         => runs[tracker.jobs] = "SUCCEEDED"

\* A backup with a manifest holds the files of every version its dump
\* registers, although training goes on while it is taken (cmd_backup).
BackupIsSelfContained ==
  backup # NoBackup =>
    (backup.manifest => \A v \in Versions :
       backup.dump.registry[v] # "none" => backup.trees[v] = Files)

\* A restore cut short leaves rows without artifacts; once the server has
\* started and checked, none of them is in production (startup, registry).
ProductionIsChecked ==
  checked => \A v \in Versions :
    registry[v] = "PRODUCTION" => "model.txt" \in disk[v]

\* A stored signal can be explained.  The model's part of it is a stored
\* prediction, and never looks at an older bar than the signal's
\* (generate_signal reads the features before predict_latest does, so it may
\* look at a newer one).  A signal that asks for a trade has an active
\* component that leans its way by the margin and one that is confident enough:
\* the averages of fuse hide neither.  With a zero margin neutral is a SELL.
SignalIsExplained ==
  \A b \in {x \in Bars : signals[x] # NoSignal} :
    LET row    == signals[b]
        active == {k \in DOMAIN row.components : row.components[k].active}
        Leaning(k) ==
          LET lean == row.components[k].score - 50
          IN  IF row.action = "BUY" THEN lean > 0 /\ lean >= ActionMargin
              ELSE lean <= -ActionMargin
    IN  /\ ~restored /\ "LIGHTGBM" \in active =>
             <<row.version, row.input>> \in predictions /\ row.input >= b
        /\ row.action \in {"BUY", "SELL"} =>
             /\ \E k \in active : row.components[k].confidence >= MinConfidence
             /\ \E k \in active : Leaning(k)

\* A training job and a request come to an end, whatever fails on the way.
JobsEnd ==
  /\ tracker.running ~> ~tracker.running
  /\ request.pc # "none" ~> request.pc = "none"
=============================================================================
