---------------------------- MODULE LocalTraining ----------------------------
(***************************************************************************)
(* The training a board does between two models (federatedlearning.c of    *)
(* the ESP32): replaceNeuralNetwork and NeuralNetworkTraining, which reads *)
(* the data set from its beginning in every epoch.  What is in a line or a *)
(* sample is the number of the row it comes from, 0 before any was read.   *)
(* What a sample does to the network is module BackPropagation.            *)
(***************************************************************************)
EXTENDS Naturals, Sequences, FiniteSetsExt

CONSTANTS
  DataSets,   \* what the file may be: fields of each row, the index among them
  Fields,     \* fields the code reads of a row after its index
  Cells,      \* input and output neurons: places in trainingsample
  Epochs,     \* neuralnetwork->epoch
  PerEpoch,   \* neuralnetwork->percentualtraining
  MaxRounds   \* bound: models received

ASSUME DataSetsAssumption == \A d \in DataSets : d \in Seq(Nat)
ASSUME CountsAssumption ==
  {Fields, Cells, Epochs, PerEpoch, MaxRounds} \subseteq Nat /\ PerEpoch > 0
\* trainingsample has room for what is read into it.
ASSUME RoomAssumption == Fields <= Cells

VARIABLES
  rows,       \* the data set of this board
  doing,      \* idle, opening, reading, sending
  round, TrainingCycle, count,
  cursor,     \* rows read since the file was opened
  line,       \* the row in the buffer and the fields strtok finds in it
  trainingsample,
  trained,    \* the samples since the model was received
  trainingscounter

trainVars == <<rows, doing, round, TrainingCycle, count, cursor, line, trainingsample, trained,
               trainingscounter>>

NoLine == [row |-> 0, fields |-> 1]

TrainInit ==
  /\ rows \in DataSets /\ doing = "idle" /\ round = 0
  /\ TrainingCycle = 0 /\ count = 0 /\ cursor = 0 /\ line = NoLine
  /\ trainingsample = [c \in 1..Cells |-> 0]
  /\ trained = <<>> /\ trainingscounter = 0

-----------------------------------------------------------------------------
\* Slip: the counter of the last model is kept.
KeepsCounter == trainingscounter

NewCounter == 0

\* replaceNeuralNetwork, and NeuralNetworkTraining up to its first loop
ReplaceNeuralNetwork ==
  /\ doing = "idle" /\ round < MaxRounds
  /\ round' = round + 1
  /\ trainingscounter' = NewCounter
  /\ trained' = <<>>
  /\ TrainingCycle' = 0 /\ line' = NoLine /\ trainingsample' = [c \in 1..Cells |-> 0]
  /\ doing' = "opening"
  /\ UNCHANGED <<rows, count, cursor>>

Beginning == 0

OpenFile ==
  /\ doing = "opening" /\ TrainingCycle < Epochs
  /\ count' = 0 /\ cursor' = Beginning
  /\ doing' = "reading"
  /\ UNCHANGED <<rows, round, TrainingCycle, line, trainingsample, trained, trainingscounter>>

\* fopen fails, which ends the training where it is.
OpenFails ==
  /\ doing = "opening" /\ TrainingCycle < Epochs
  /\ doing' = "sending"
  /\ UNCHANGED <<rows, round, TrainingCycle, count, cursor, line, trainingsample, trained,
                 trainingscounter>>

\* fgets leaves the buffer as it is at the end of the file, and strtok has cut it
\* after the first field by then.
NextLine == IF cursor < Len(rows) THEN [row |-> cursor + 1, fields |-> rows[cursor + 1]]
                                  ELSE [line EXCEPT !.fields = 1]

\* The fields after the index, as far as there are any; the others stay.
Filled(l) == [c \in 1..Cells |-> IF c <= Fields /\ c + 1 <= l.fields THEN l.row
                                 ELSE trainingsample[c]]

\* Slip: a read at the end of the file is counted.
CountsEveryRead == cursor + 1

RowsRead == IF cursor < Len(rows) THEN cursor + 1 ELSE cursor

TrainSample ==
  /\ doing = "reading" /\ count < PerEpoch
  /\ line' = NextLine
  /\ cursor' = RowsRead
  /\ trainingsample' = Filled(NextLine)
  /\ trained' = Append(trained, Filled(NextLine))
  /\ count' = count + 1
  /\ UNCHANGED <<rows, doing, round, TrainingCycle, trainingscounter>>

EpochIsDone == count = PerEpoch

CloseFile ==
  /\ doing = "reading" /\ EpochIsDone
  /\ TrainingCycle' = TrainingCycle + 1
  /\ doing' = "opening"
  /\ UNCHANGED <<rows, round, count, cursor, line, trainingsample, trained, trainingscounter>>

CountTraining ==
  /\ doing = "opening" /\ TrainingCycle = Epochs
  /\ trainingscounter' = Epochs * PerEpoch
  /\ doing' = "sending"
  /\ UNCHANGED <<rows, round, TrainingCycle, count, cursor, line, trainingsample, trained>>

\* websocket_send_local_model
SendModel ==
  /\ doing = "sending"
  /\ doing' = "idle"
  /\ UNCHANGED <<rows, round, TrainingCycle, count, cursor, line, trainingsample, trained,
                 trainingscounter>>

TrainNext == ReplaceNeuralNetwork \/ OpenFile \/ OpenFails \/ TrainSample \/ CloseFile
               \/ CountTraining \/ SendModel

TrainSpec == TrainInit /\ [][TrainNext]_trainVars

-----------------------------------------------------------------------------
TrainTypeOK ==
  /\ rows \in DataSets /\ doing \in {"idle", "opening", "reading", "sending"}
  /\ round \in 0..MaxRounds /\ TrainingCycle \in 0..Epochs /\ count \in 0..PerEpoch
  /\ cursor \in 0..Len(rows) /\ line \in [row : 0..Len(rows), fields : Nat]
  /\ trainingsample \in [1..Cells -> 0..Len(rows)] /\ trained \in Seq([1..Cells -> 0..Len(rows)])
  /\ Len(trained) <= Epochs * PerEpoch /\ trainingscounter \in {0, Epochs * PerEpoch}

\* Every epoch trains the rows of the file from the first one on, and the last one
\* again for every row that is missing.  A cell is of the nearest row up to there
\* that has it: of the row itself when rows are whole, so that a label belongs to
\* its inputs, and of an earlier sample where a row is too short.
SamplesAreTheRows ==
  \A k \in DOMAIN trained, c \in 1..Fields :
    LET nth == ((k - 1) % PerEpoch) + 1
        having == {r \in DOMAIN rows : r <= nth /\ rows[r] > c}
    IN  having # {} => trained[k][c] = Max(having)

\* The weight a model carries to the server is the number of samples it was
\* trained with; a training that was cut short, by a file that is gone, counts for
\* nothing although the model has moved.
CounterIsTheTraining ==
  doing = "sending" =>
    trainingscounter = IF Len(trained) = Epochs * PerEpoch THEN Len(trained) ELSE 0

\* What a model was trained with, sample by sample and in number.
TrainedAsCounted == SamplesAreTheRows /\ CounterIsTheTraining
=============================================================================
