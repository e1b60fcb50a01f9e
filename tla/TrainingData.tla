---------------------------- MODULE TrainingData ----------------------------
(***************************************************************************)
(* The labelled rows a model is trained on (ml/labeling.py,                *)
(* ml/dataset.py).  Rows are numbered in the order of open_time, fractions *)
(* are percentages.                                                        *)
(***************************************************************************)
EXTENDS Integers, FiniteSets

CONSTANTS
  LabelHorizon,         \* label_horizon: how many bars ahead a label looks
  TrainFraction,        \* train_fraction, in percent
  ValidationFraction,   \* validation_fraction, in percent
  MinTrainingRows       \* min_training_rows

ASSUME TrainingDataAssumption ==
  /\ LabelHorizon \in Nat \ {0} /\ MinTrainingRows \in Nat \ {0}
  /\ TrainFraction \in 1..99 /\ ValidationFraction \in 1..99
  /\ TrainFraction + ValidationFraction < 100

\* make_labels: the last rows have no bar LabelHorizon ahead and no label.
LabelledRows(n) == {i \in 1..n : i + LabelHorizon <= n}

\* The rows whose closes the label of row i is computed from.
LabelWindow(i) == i..(i + LabelHorizon)

\* Mutant: the trim drops one row too few.
TrimmedShort(first, end) == {i \in first..end : i <= end - LabelHorizon + 1}

\* _trim_boundary: the last rows before a boundary are dropped.
Trimmed(first, end) == {i \in first..end : i <= end - LabelHorizon}

\* chronological_split of the rows that have features and a closed candle.
Split(n) ==
  LET labelled      == n - LabelHorizon
      trainEnd      == (labelled * TrainFraction) \div 100
      validationEnd == trainEnd + (labelled * ValidationFraction) \div 100
  IN  [train      |-> Trimmed(1, trainEnd),
       validation |-> Trimmed(trainEnd + 1, validationEnd),
       test       |-> LabelledRows(n) \ (1..validationEnd)]

\* The frame is refused before it reaches the trainer.
Insufficient(frame) ==
  \/ frame.train = {} \/ frame.validation = {} \/ frame.test = {}
  \/ Cardinality(frame.train) < MinTrainingRows
=============================================================================
