---------------------------- MODULE TrainingProofs ----------------------------
(***************************************************************************)
(* What a board trains a model with, sample by sample and in number, for   *)
(* every data set, every number of epochs, of samples and of fields; the   *)
(* memory a sample takes and how it moves the biases and weights, for      *)
(* networks of every shape; what the hidden neuron of the FPGA computes,   *)
(* for any number of inputs; and the parts of a board side by side.        *)
(***************************************************************************)
EXTENDS MCBoard, BoardClientProofs, Recursion

RowSamples == [1..Cells -> 0..Len(rows)]

\* Rows up to the nth that have the field c after the index.
Having(n, c) == {r \in DOMAIN rows : r <= n /\ rows[r] > c}

\* The samples since the model was received, and how far the counter is behind them.
CountInv ==
  /\ doing = "opening" => Len(trained) = TrainingCycle * PerEpoch /\ trainingscounter = 0
  /\ doing = "reading" =>
       /\ Len(trained) = TrainingCycle * PerEpoch + count /\ trainingscounter = 0
       /\ TrainingCycle < Epochs

\* The file is read a row a sample, to its end; a cell has the nearest row read since
\* the file was opened that has its field.
ReadingInv ==
  doing = "reading" =>
    /\ count <= Len(rows) => cursor = count
    /\ count > Len(rows) => cursor = Len(rows) /\ line.fields = 1
    /\ \A c \in 1..Fields : Having(count, c) # {} => trainingsample[c] = Max(Having(count, c))

\* SamplesAreTheRows, with the row of a sample named.
SamplesInv ==
  \A k \in 1..Len(trained), c \in 1..Fields :
    Having(((k - 1) % PerEpoch) + 1, c) # {} =>
      trained[k][c] = Max(Having(((k - 1) % PerEpoch) + 1, c))

TrainInv == TrainTypeOK /\ CountInv /\ ReadingInv /\ SamplesInv /\ CounterIsTheTraining
-----------------------------------------------------------------------------
(* Rows, places and numbers. *)

LEMMA CountsAreNat ==
  /\ Fields \in Nat /\ Cells \in Nat /\ Epochs \in Nat /\ PerEpoch \in Nat /\ MaxRounds \in Nat
  /\ PerEpoch > 0 /\ Fields <= Cells
PROOF BY CountsAssumption, RoomAssumption

USE CountsAreNat

LEMMA MaxIsLast ==
  ASSUME NEW S, S \subseteq Nat, NEW m \in S, \A r \in S : r <= m
  PROVE  Max(S) = m
PROOF
<1>1. \A r \in S : m >= r
  OBVIOUS
<1>2. \E x \in S : \A r \in S : x >= r
  BY <1>1
<1>3. Max(S) \in S /\ \A r \in S : Max(S) >= r
  BY <1>2, Zenon DEF Max
<1>4. Max(S) \in Nat /\ m \in Nat /\ Max(S) >= m /\ m >= Max(S)
  BY <1>1, <1>3
<1> QED BY <1>4

\* Where a sample is in its epoch.
LEMMA PlaceInEpoch ==
  ASSUME NEW p \in Nat, NEW q \in Nat, NEW r \in 0..(p - 1)
  PROVE  (q * p + r) % p = r
PROOF OBVIOUS

LEMMA EpochsBelow ==
  ASSUME NEW p \in Nat, p > 0, NEW q \in Nat, NEW m \in Nat, q < m
  PROVE  q * p \in Nat /\ m * p \in Nat /\ q * p + p <= m * p /\ q * p + p = (q + 1) * p
PROOF
<1>1. PICK d \in Nat : m = (q + 1) + d
  <2>1. m - (q + 1) \in Nat /\ m = (q + 1) + (m - (q + 1))
    OBVIOUS
  <2> QED BY <2>1
<1>2. m * p = q * p + p + d * p
  BY <1>1
<1>3. d * p \in Nat /\ q * p \in Nat /\ m * p \in Nat /\ (q + 1) * p = q * p + p
  OBVIOUS
<1> QED BY <1>2, <1>3

LEMMA RowsAreSeq ==
  ASSUME TrainTypeOK
  PROVE  rows \in Seq(Nat) /\ Len(rows) \in Nat /\ DOMAIN rows = 1..Len(rows)
PROOF
<1>1. rows \in Seq(Nat)
  BY DataSetsAssumption DEF TrainTypeOK
<1> QED BY <1>1, LenProperties

\* A line that is read, at the end of the file too.
LEMMA NextLineRead ==
  ASSUME TrainTypeOK
  PROVE  /\ NextLine \in [row : 0..Len(rows), fields : Nat] /\ Filled(NextLine) \in RowSamples
         /\ RowsRead \in 0..Len(rows)
PROOF
<1>1. NextLine \in [row : 0..Len(rows), fields : Nat]
  <2>1. CASE cursor < Len(rows)
    <3>1. cursor + 1 \in 1..Len(rows)
      BY <2>1, RowsAreSeq DEF TrainTypeOK
    <3>2. rows[cursor + 1] \in Nat
      BY <3>1, RowsAreSeq, ElementOfSeq
    <3> QED BY <2>1, <3>1, <3>2 DEF NextLine
  <2>2. CASE ~(cursor < Len(rows))
    BY <2>2 DEF NextLine, TrainTypeOK
  <2> QED BY <2>1, <2>2
<1>2. Filled(NextLine) \in RowSamples
  <2>1. NextLine.row \in 0..Len(rows)
    BY <1>1
  <2>2. trainingsample \in RowSamples
    BY DEF TrainTypeOK, RowSamples
  <2> QED BY <2>1, <2>2 DEF Filled, RowSamples
<1>3. RowsRead \in 0..Len(rows)
  BY RowsAreSeq DEF RowsRead, TrainTypeOK
<1> QED BY <1>1, <1>2, <1>3

\* The next sample has the nearest row up to its own in every cell.
LEMMA NextCell ==
  ASSUME TrainTypeOK, ReadingInv, doing = "reading", NEW c \in 1..Fields,
         Having(count + 1, c) # {}
  PROVE  Filled(NextLine)[c] = Max(Having(count + 1, c))
PROOF
<1>1. /\ rows \in Seq(Nat) /\ Len(rows) \in Nat /\ DOMAIN rows = 1..Len(rows)
      /\ cursor \in 0..Len(rows) /\ count \in Nat
  <2>1. rows \in Seq(Nat) /\ Len(rows) \in Nat /\ DOMAIN rows = 1..Len(rows)
    BY RowsAreSeq
  <2>2. cursor \in 0..Len(rows) /\ count \in 0..PerEpoch
    BY Zenon DEF TrainTypeOK
  <2>3. count \in Nat
    BY <2>2, CountsAssumption
  <2> QED BY <2>1, <2>2, <2>3
<1>a. PICK m \in Nat : m = Len(rows)
  BY <1>1
<1>b. cursor \in 0..m /\ count \in Nat
  BY <1>1, <1>a
<1>2. (count <= m => cursor = count) /\ (count > m => cursor = m)
  BY <1>a DEF ReadingInv
<1>3. c \in 1..Cells /\ c \in Nat /\ c >= 1
  OBVIOUS
<1>4. Filled(NextLine)[c] = IF c + 1 <= NextLine.fields THEN NextLine.row ELSE trainingsample[c]
  BY <1>3 DEF Filled
<1>5. Having(count, c) # {} => trainingsample[c] = Max(Having(count, c))
  BY DEF ReadingInv
<1>6. CASE cursor < Len(rows)
  <2>1. cursor = count /\ count + 1 \in 1..Len(rows)
    <3>1. cursor < m
      BY <1>6, <1>a
    <3>2. cursor = count /\ count + 1 \in 1..m
      BY <1>2, <1>b, <3>1
    <3> QED BY <1>a, <3>2
  <2>2. NextLine.row = count + 1 /\ NextLine.fields = rows[count + 1] /\ rows[count + 1] \in Nat
    BY <1>1, <1>6, <2>1, ElementOfSeq DEF NextLine
  <2>3. CASE rows[count + 1] > c
    <3>1. Filled(NextLine)[c] = count + 1
      BY <1>3, <1>4, <2>2, <2>3
    <3>2. /\ count + 1 \in Having(count + 1, c) /\ Having(count + 1, c) \subseteq Nat
          /\ \A r \in Having(count + 1, c) : r <= count + 1
      BY <1>1, <2>1, <2>3 DEF Having
    <3> QED BY <3>1, <3>2, MaxIsLast
  <2>4. CASE ~(rows[count + 1] > c)
    <3>1. Filled(NextLine)[c] = trainingsample[c]
      BY <1>3, <1>4, <2>2, <2>4
    <3>2. Having(count + 1, c) = Having(count, c)
      <4>1. ASSUME NEW r \in DOMAIN rows, rows[r] > c PROVE r <= count + 1 <=> r <= count
        BY <1>1, <2>4, <4>1
      <4> QED BY <4>1 DEF Having
    <3> QED BY <1>5, <3>1, <3>2
  <2> QED BY <2>3, <2>4
<1>7. CASE ~(cursor < Len(rows))
  <2>1. count >= Len(rows)
    <3>1. ~(cursor < m)
      BY <1>7, <1>a
    <3>2. count >= m
      BY <1>2, <1>b, <3>1
    <3> QED BY <1>a, <3>2
  <2>2. NextLine.fields = 1
    BY <1>7 DEF NextLine, TrainTypeOK
  <2>3. Filled(NextLine)[c] = trainingsample[c]
    BY <1>3, <1>4, <2>2
  <2>4. Having(count + 1, c) = Having(count, c)
    <3>1. ASSUME NEW r \in DOMAIN rows PROVE r <= count + 1 <=> r <= count
      BY <1>1, <2>1
    <3> QED BY <3>1 DEF Having
  <2> QED BY <1>5, <2>3, <2>4
<1> QED BY <1>6, <1>7

LEMMA NewSampleFits ==
  ASSUME TrainTypeOK, CountInv, doing = "reading", count < PerEpoch
  PROVE  /\ Append(trained, Filled(NextLine)) \in Seq(RowSamples)
         /\ Len(Append(trained, Filled(NextLine))) = Len(trained) + 1
         /\ Len(trained) \in Nat /\ Len(trained) + 1 <= Epochs * PerEpoch
PROOF
<1>1. trained \in Seq(RowSamples) /\ Filled(NextLine) \in RowSamples
  BY NextLineRead DEF TrainTypeOK, RowSamples
<1>2. /\ Append(trained, Filled(NextLine)) \in Seq(RowSamples)
      /\ Len(Append(trained, Filled(NextLine))) = Len(trained) + 1
  BY <1>1, AppendProperties
<1>3. /\ Len(trained) = TrainingCycle * PerEpoch + count /\ TrainingCycle \in Nat
      /\ TrainingCycle < Epochs /\ count \in Nat
  BY DEF CountInv, TrainTypeOK
<1>4. /\ TrainingCycle * PerEpoch \in Nat /\ Epochs * PerEpoch \in Nat
      /\ TrainingCycle * PerEpoch + PerEpoch <= Epochs * PerEpoch
  BY <1>3, EpochsBelow
<1> QED BY <1>2, <1>3, <1>4

LEMMA TrainInitial == TrainInit => TrainInv
PROOF
<1> SUFFICES ASSUME TrainInit PROVE TrainInv
  OBVIOUS
<1>1. rows \in Seq(Nat) /\ Len(rows) \in Nat
  BY DataSetsAssumption, LenProperties DEF TrainInit
<1>2. trained = <<>> /\ trained \in Seq(RowSamples) /\ Len(trained) = 0 /\ doing = "idle"
  BY DEF TrainInit
<1>3. Epochs * PerEpoch \in Nat
  OBVIOUS
<1>4. TrainTypeOK
  <2>1. line \in [row : 0..Len(rows), fields : Nat]
    BY <1>1 DEF TrainInit, NoLine
  <2>2. trainingsample \in [1..Cells -> 0..Len(rows)]
    BY <1>1 DEF TrainInit
  <2>3. /\ rows \in DataSets /\ round = 0 /\ TrainingCycle = 0 /\ count = 0 /\ cursor = 0
        /\ trainingscounter = 0
    BY DEF TrainInit
  <2> QED BY <1>1, <1>2, <1>3, <2>1, <2>2, <2>3 DEF TrainTypeOK, RowSamples
<1> QED BY <1>2, <1>4 DEF TrainInv, CountInv, ReadingInv, SamplesInv, CounterIsTheTraining

\* A sample keeps the counts, and is of the row that its place in the epoch says.
LEMMA SampleStep ==
  ASSUME TrainInv, TrainSample
  PROVE  TrainInv'
PROOF
<1>a. TrainTypeOK /\ CountInv /\ ReadingInv /\ SamplesInv /\ doing = "reading" /\ count < PerEpoch
  BY DEF TrainInv, TrainSample
<1>b. /\ line' = NextLine /\ cursor' = RowsRead /\ trainingsample' = Filled(NextLine)
      /\ trained' = Append(trained, Filled(NextLine)) /\ count' = count + 1
      /\ UNCHANGED <<rows, doing, round, TrainingCycle, trainingscounter>>
  BY DEF TrainSample
<1>c. /\ Len(rows) \in Nat /\ cursor \in 0..Len(rows) /\ count \in Nat /\ TrainingCycle \in Nat
      /\ Len(trained) = TrainingCycle * PerEpoch + count
      /\ trained \in Seq(RowSamples)
  BY <1>a, RowsAreSeq DEF TrainTypeOK, CountInv, RowSamples
<1>d. /\ trained' \in Seq(RowSamples) /\ Len(trained') = Len(trained) + 1 /\ Len(trained) \in Nat
      /\ Len(trained) + 1 <= Epochs * PerEpoch
  BY <1>a, <1>b, NewSampleFits
<1>e. Filled(NextLine) \in RowSamples
  BY <1>a, NextLineRead
<1>f. /\ \A k \in 1..Len(trained) : trained'[k] = trained[k]
      /\ trained'[Len(trained) + 1] = Filled(NextLine)
  BY <1>b, <1>c, <1>e, AppendProperties
<1>1. TrainTypeOK'
  <2>1. /\ NextLine \in [row : 0..Len(rows), fields : Nat] /\ Filled(NextLine) \in RowSamples
        /\ RowsRead \in 0..Len(rows)
    BY <1>a, NextLineRead
  <2>2. count' \in 0..PerEpoch
    BY <1>a, <1>b, <1>c
  <2> QED BY <1>a, <1>b, <1>d, <2>1, <2>2 DEF TrainTypeOK, RowSamples
<1>2. CountInv'
  <2>1. Len(trained') = TrainingCycle * PerEpoch + (count + 1)
    BY <1>c, <1>d
  <2> QED BY <1>a, <1>b, <2>1 DEF CountInv
<1>3. ReadingInv'
  <2>1. count' <= Len(rows') => cursor' = count'
    BY <1>a, <1>b, <1>c DEF ReadingInv, RowsRead
  <2>2. count' > Len(rows') => cursor' = Len(rows') /\ line'.fields = 1
    <3> SUFFICES ASSUME count + 1 > Len(rows) PROVE cursor' = Len(rows) /\ line'.fields = 1
      BY <1>b
    <3>1. cursor = Len(rows)
      BY <1>a, <1>c DEF ReadingInv
    <3>2. cursor' = cursor /\ line' = [line EXCEPT !.fields = 1]
      BY <1>b, <1>c, <3>1 DEF RowsRead, NextLine
    <3>3. line \in [row : 0..Len(rows), fields : Nat]
      BY <1>a DEF TrainTypeOK
    <3> QED BY <3>1, <3>2, <3>3
  <2>3. ASSUME NEW c \in 1..Fields, Having(count + 1, c) # {}
        PROVE  Filled(NextLine)[c] = Max(Having(count + 1, c))
    BY <1>a, <2>3, NextCell
  <2>4. \A c : Having(count, c)' = Having(count + 1, c)
    BY <1>b DEF Having
  <2> QED BY <1>b, <2>1, <2>2, <2>3, <2>4 DEF ReadingInv
<1>4. SamplesInv'
  <2>1. \A n, c : Having(n, c)' = Having(n, c)
    BY <1>b DEF Having
  <2>2. ASSUME NEW k \in 1..Len(trained'), NEW c \in 1..Fields,
               Having(((k - 1) % PerEpoch) + 1, c) # {}
        PROVE  trained'[k][c] = Max(Having(((k - 1) % PerEpoch) + 1, c))
    <3>1. CASE k \in 1..Len(trained)
      <4>1. trained'[k] = trained[k]
        BY <1>f, <3>1
      <4> QED BY <1>a, <2>2, <3>1, <4>1 DEF SamplesInv
    <3>2. CASE k = Len(trained) + 1
      <4>1. trained'[k] = Filled(NextLine)
        BY <1>f, <3>2
      <4>2. (k - 1) % PerEpoch = count
        <5>1. k - 1 = TrainingCycle * PerEpoch + count /\ count \in 0..(PerEpoch - 1)
          BY <1>a, <1>c, <1>d, <3>2
        <5> QED BY <1>c, <5>1, PlaceInEpoch
      <4> QED BY <1>a, <2>2, <4>1, <4>2, NextCell
    <3> QED BY <1>d, <3>1, <3>2
  <2> QED BY <2>1, <2>2 DEF SamplesInv
<1>5. CounterIsTheTraining'
  BY <1>a, <1>b DEF CounterIsTheTraining
<1> QED BY <1>1, <1>2, <1>3, <1>4, <1>5 DEF TrainInv

\* A step that reads no sample.
LEMMA TrainStep ==
  ASSUME TrainInv, [TrainNext]_trainVars
  PROVE  TrainInv'
PROOF
<1>a. TrainTypeOK /\ CountInv /\ ReadingInv /\ SamplesInv /\ CounterIsTheTraining
  BY DEF TrainInv
<1>b. Epochs * PerEpoch \in Nat
  OBVIOUS
<1>c. rows \in Seq(Nat) /\ Len(rows) \in Nat /\ Len(trained) \in Nat
  BY <1>a, RowsAreSeq, LenProperties DEF TrainTypeOK
<1>1. ASSUME UNCHANGED <<rows, trained>>
      PROVE  SamplesInv'
  <2>1. \A n, c : Having(n, c)' = Having(n, c)
    BY <1>1 DEF Having
  <2> QED BY <1>a, <1>1, <2>1 DEF SamplesInv
<1>2. CASE ReplaceNeuralNetwork
  <2>1. trained' = <<>> /\ trained' \in Seq([1..Cells -> 0..Len(rows)]) /\ Len(trained') = 0
    BY <1>2 DEF ReplaceNeuralNetwork
  <2>2. /\ line' \in [row : 0..Len(rows), fields : Nat]
        /\ trainingsample' \in [1..Cells -> 0..Len(rows)]
    BY <1>2, <1>c DEF ReplaceNeuralNetwork, NoLine
  <2>3. /\ doing' = "opening" /\ TrainingCycle' = 0 /\ trainingscounter' = 0
        /\ round' \in 0..MaxRounds /\ UNCHANGED <<rows, count, cursor>>
    BY <1>2, <1>a DEF ReplaceNeuralNetwork, NewCounter, TrainTypeOK
  <2>4. TrainTypeOK'
    BY <1>a, <1>b, <2>1, <2>2, <2>3 DEF TrainTypeOK
  <2> QED BY <2>1, <2>3, <2>4 DEF TrainInv, CountInv, ReadingInv, SamplesInv, CounterIsTheTraining
<1>3. CASE OpenFile
  <2>1. /\ doing = "opening" /\ TrainingCycle < Epochs /\ count' = 0 /\ cursor' = 0
        /\ doing' = "reading"
        /\ UNCHANGED <<rows, round, TrainingCycle, line, trainingsample, trained, trainingscounter>>
    BY <1>3 DEF OpenFile, Beginning
  <2>2. TrainTypeOK'
    BY <1>a, <1>c, <2>1 DEF TrainTypeOK
  <2>3. CountInv'
    BY <1>a, <2>1 DEF CountInv, TrainTypeOK
  <2>4. ReadingInv'
    <3>1. ASSUME NEW c \in 1..Fields PROVE Having(count, c)' = {}
      BY <1>c, <2>1, LenProperties DEF Having
    <3> QED BY <1>c, <2>1, <3>1 DEF ReadingInv
  <2> QED BY <1>1, <2>1, <2>2, <2>3, <2>4 DEF TrainInv, CounterIsTheTraining
<1>4. CASE OpenFails
  <2>1. /\ doing = "opening" /\ TrainingCycle < Epochs /\ doing' = "sending"
        /\ UNCHANGED <<rows, round, TrainingCycle, count, cursor, line, trainingsample, trained,
                       trainingscounter>>
    BY <1>4 DEF OpenFails
  <2>2. TrainTypeOK'
    BY <1>a, <2>1 DEF TrainTypeOK
  <2>3. Len(trained) # Epochs * PerEpoch /\ trainingscounter = 0
    <3>1. Len(trained) = TrainingCycle * PerEpoch /\ trainingscounter = 0 /\ TrainingCycle \in Nat
      BY <1>a, <2>1 DEF CountInv, TrainTypeOK
    <3>2. /\ TrainingCycle * PerEpoch \in Nat
          /\ TrainingCycle * PerEpoch + PerEpoch <= Epochs * PerEpoch
      BY <2>1, <3>1, EpochsBelow
    <3> QED BY <1>b, <3>1, <3>2
  <2> QED BY <1>1, <2>1, <2>2, <2>3 DEF TrainInv, CountInv, ReadingInv, CounterIsTheTraining
<1>5. CASE TrainSample
  BY <1>5, SampleStep
<1>6. CASE CloseFile
  <2>1. /\ doing = "reading" /\ count = PerEpoch /\ TrainingCycle' = TrainingCycle + 1
        /\ doing' = "opening"
        /\ UNCHANGED <<rows, round, count, cursor, line, trainingsample, trained, trainingscounter>>
    BY <1>6 DEF CloseFile, EpochIsDone
  <2>2. /\ Len(trained) = TrainingCycle * PerEpoch + PerEpoch /\ trainingscounter = 0
        /\ TrainingCycle < Epochs /\ TrainingCycle \in Nat
    BY <1>a, <2>1 DEF CountInv, TrainTypeOK
  <2>3. Len(trained) = (TrainingCycle + 1) * PerEpoch
    BY <2>2, EpochsBelow
  <2>4. TrainTypeOK'
    BY <1>a, <2>1, <2>2 DEF TrainTypeOK
  <2> QED BY <1>1, <2>1, <2>2, <2>3, <2>4 DEF TrainInv, CountInv, ReadingInv, CounterIsTheTraining
<1>7. CASE CountTraining
  <2>1. /\ doing = "opening" /\ TrainingCycle = Epochs /\ trainingscounter' = Epochs * PerEpoch
        /\ doing' = "sending"
        /\ UNCHANGED <<rows, round, TrainingCycle, count, cursor, line, trainingsample, trained>>
    BY <1>7 DEF CountTraining
  <2>2. Len(trained) = Epochs * PerEpoch
    BY <1>a, <2>1 DEF CountInv
  <2>3. TrainTypeOK'
    BY <1>a, <2>1 DEF TrainTypeOK
  <2> QED BY <1>1, <2>1, <2>2, <2>3 DEF TrainInv, CountInv, ReadingInv, CounterIsTheTraining
<1>8. CASE SendModel
  <2>1. /\ doing' = "idle"
        /\ UNCHANGED <<rows, round, TrainingCycle, count, cursor, line, trainingsample, trained,
                       trainingscounter>>
    BY <1>8 DEF SendModel
  <2>2. TrainTypeOK'
    BY <1>a, <2>1 DEF TrainTypeOK
  <2> QED BY <1>1, <2>1, <2>2 DEF TrainInv, CountInv, ReadingInv, CounterIsTheTraining
<1>9. CASE UNCHANGED trainVars
  <2>1. UNCHANGED <<rows, doing, round, TrainingCycle, count, cursor, line, trainingsample, trained,
                    trainingscounter>>
    BY <1>9 DEF trainVars
  <2>2. TrainTypeOK' /\ CountInv' /\ CounterIsTheTraining'
    BY <1>a, <2>1 DEF TrainTypeOK, CountInv, CounterIsTheTraining
  <2>3. ReadingInv'
    BY <1>a, <2>1 DEF ReadingInv, Having
  <2> QED BY <1>1, <2>1, <2>2, <2>3 DEF TrainInv
<1> QED BY <1>2, <1>3, <1>4, <1>5, <1>6, <1>7, <1>8, <1>9 DEF TrainNext

LEMMA TrainedIsCounted == TrainInv => TrainedAsCounted
PROOF
<1> SUFFICES ASSUME TrainInv PROVE SamplesAreTheRows
  BY DEF TrainInv, TrainedAsCounted
<1>1. TrainTypeOK /\ SamplesInv
  BY DEF TrainInv
<1>2. DOMAIN trained = 1..Len(trained)
  BY <1>1, LenProperties DEF TrainTypeOK
<1> QED BY <1>1, <1>2 DEF SamplesInv, SamplesAreTheRows, Having

-----------------------------------------------------------------------------
\* What is in a line, a sample and the counters while a board trains.
THEOREM TrainTypeCorrect == TrainSpec => []TrainTypeOK
PROOF
<1>1. TrainInv => TrainTypeOK
  BY DEF TrainInv
<1> QED BY <1>1, TrainInitial, TrainStep, PTL DEF TrainSpec

\* A model is trained with the rows of the file in their order, epoch by epoch, and its
\* weight at the server is the number of its samples, or 0 when the training was cut
\* short.
THEOREM TrainedWithTheRows == TrainSpec => []TrainedAsCounted
PROOF BY TrainInitial, TrainStep, TrainedIsCounted, PTL DEF TrainSpec

-----------------------------------------------------------------------------
(* The memory of one sample. *)

Size(l) == net.shape[l]

\* Layers from l on that are not as large as the hidden layer above them.
Differs(l) == \E m \in l..(Depth - 2) : Size(m) # Size(m + 1)

ShapeInv == net.shape \in Seq(Nat \ {0}) /\ Depth \in Nat /\ Depth > 1 /\ layer \in 0..Depth

\* Nothing is kept before the last layer and after the return; between, the deltas of
\* the layer above and the matrix of its weights, a line for each neuron of the layer.
BlocksInv ==
  /\ lines \in Nat
  /\ layer \in {0, Depth} => lines = 0 /\ live = 0
  /\ lines > 0 => lines = Size(layer) /\ live = 2 + lines /\ layer \in 1..(Depth - 1)
  /\ lines = 0 => live = 0 /\ layer \in {0, 1, Depth}

\* The number kept of the deltas is right for the last layer only: above the others it
\* is that of the layer in turn.
DeltasInv ==
  lines > 0 =>
    /\ Len(deltas) = Size(layer + 1) /\ columns = Size(layer + 1)
    /\ number = IF layer = Depth - 1 THEN Size(Depth) ELSE Size(layer)

OutsideInv ==
  /\ outside # {} => Differs(layer + 1) /\ layer \in 1..(Depth - 1)
  /\ layer \in 1..(Depth - 1) =>
       \A m \in (layer + 1)..(Depth - 2) :
         /\ Size(m) > Size(m + 1) => "copied" \in outside
         /\ Size(m) < Size(m + 1) => "used" \in outside

MemoryInv == ShapeInv /\ BlocksInv /\ DeltasInv /\ OutsideInv
LEMMA SizesArePositive ==
  ASSUME ShapeInv, NEW l \in 1..Depth
  PROVE  Size(l) \in Nat /\ Size(l) > 0
PROOF
<1>1. net.shape \in Seq(Nat \ {0}) /\ l \in 1..Len(net.shape)
  BY DEF ShapeInv, Depth
<1>2. net.shape[l] \in Nat \ {0}
  BY <1>1, ElementOfSeq
<1> QED BY <1>2 DEF Size

LEMMA MemoryInitial == SgdInit => MemoryInv
PROOF
<1> SUFFICES ASSUME SgdInit PROVE MemoryInv
  OBVIOUS
<1>1. net.shape \in Seq(Nat \ {0}) /\ Len(net.shape) \in Nat /\ Len(net.shape) > 1
  BY NetworksAssumption, LenProperties DEF SgdInit
<1>2. layer = 0 /\ lines = 0 /\ live = 0 /\ outside = {}
  BY DEF SgdInit
<1>3. ShapeInv
  BY <1>1, <1>2 DEF ShapeInv, Depth
<1> QED BY <1>2, <1>3 DEF MemoryInv, BlocksInv, DeltasInv, OutsideInv, ShapeInv

LEMMA LastLayerStep ==
  ASSUME MemoryInv, LastLayer
  PROVE  MemoryInv'
PROOF
<1>a. /\ Depth \in Nat /\ Depth > 1 /\ layer = Depth /\ outside = {} /\ ShapeInv
  BY DEF MemoryInv, ShapeInv, OutsideInv, LastLayer
<1>b. /\ net' = net /\ outside' = outside /\ lines' = Size(layer - 1) /\ layer' = layer - 1
      /\ number' = Size(layer) /\ columns' = Size(layer) /\ live' = 2 + Size(layer - 1)
  BY DEF LastLayer, Descend, Size
<1>c. deltas' = [i \in 1..Size(layer) |-> value[layer][i] - Label[i]]
  BY DEF LastLayer, Descend, Size, Neurons
<1>d. /\ Size(Depth) \in Nat /\ Size(Depth - 1) \in Nat /\ Size(Depth - 1) > 0
  BY <1>a, SizesArePositive
<1>e. Depth' = Depth /\ (\A l : Size(l)' = Size(l))
  BY <1>b DEF Depth, Size
<1>1. ShapeInv'
  BY <1>a, <1>b, <1>e DEF ShapeInv
<1>2. BlocksInv'
  <2>1. layer' = Depth - 1 /\ Depth - 1 \in 1..(Depth' - 1)
    BY <1>a, <1>b, <1>e
  <2> QED BY <1>a, <1>b, <1>d, <1>e, <2>1 DEF BlocksInv, Size
<1>3. DeltasInv'
  <2>1. Len(deltas') = Size(Depth)
    BY <1>a, <1>c, <1>d
  <2>2. layer' = Depth' - 1 /\ layer' + 1 = Depth
    BY <1>a, <1>b, <1>e
  <2> QED BY <1>a, <1>b, <1>e, <2>1, <2>2 DEF DeltasInv, Size
<1>4. OutsideInv'
  BY <1>a, <1>b, <1>e DEF OutsideInv
<1> QED BY <1>1, <1>2, <1>3, <1>4 DEF MemoryInv

LEMMA HiddenLayerStep ==
  ASSUME MemoryInv, NEW g \in Garbage, HiddenLayer(g)
  PROVE  MemoryInv'
PROOF
<1>a. /\ Depth \in Nat /\ layer \in 2..(Depth - 1)
      /\ ShapeInv /\ BlocksInv /\ DeltasInv /\ OutsideInv
  BY DEF MemoryInv, ShapeInv, HiddenLayer
<1>b. /\ net' = net /\ lines' = Size(layer - 1) /\ layer' = layer - 1 /\ columns' = lines
      /\ number' = Size(layer - 1) /\ live' = live - FreeMatrix + (1 + Size(layer - 1))
      /\ outside' = outside \cup (IF number > Len(deltas) THEN {"copied"} ELSE {})
                            \cup (IF columns > number THEN {"used"} ELSE {})
  BY DEF HiddenLayer, Descend, Size, NumberOfDeltas
<1>c. DOMAIN deltas' = 1..lines
  BY DEF HiddenLayer, Descend
<1>d. /\ Size(layer) \in Nat /\ Size(layer) > 0 /\ Size(layer - 1) \in Nat /\ Size(layer - 1) > 0
      /\ Size(layer + 1) \in Nat
  BY <1>a, SizesArePositive
<1>e. Depth' = Depth /\ (\A l : Size(l)' = Size(l))
  BY <1>b DEF Depth, Size
<1>f. lines = Size(layer) /\ live = 2 + lines
  <2>1. lines # 0 /\ lines > 0
    BY <1>a DEF BlocksInv
  <2> QED BY <1>a, <2>1 DEF BlocksInv
<1>g. /\ Len(deltas) = Size(layer + 1) /\ columns = Size(layer + 1)
      /\ number = IF layer = Depth - 1 THEN Size(Depth) ELSE Size(layer)
  BY <1>a, <1>d, <1>f DEF DeltasInv
<1>1. ShapeInv'
  BY <1>a, <1>b, <1>e DEF ShapeInv
<1>2. BlocksInv'
  <2>1. layer' \in 1..(Depth' - 1) /\ layer' # 0 /\ layer' # Depth'
    BY <1>a, <1>b, <1>e
  <2>2. lines' = Size(layer)' /\ lines' \in Nat /\ lines' > 0
    BY <1>b, <1>d, <1>e DEF Size
  <2>3. live' = 2 + lines'
    BY <1>b, <1>d, <1>f DEF FreeMatrix
  <2> QED BY <2>1, <2>2, <2>3 DEF BlocksInv
<1>3. DeltasInv'
  <2>1. Len(deltas') = Size(layer)
    BY <1>c, <1>d, <1>f
  <2> QED BY <1>a, <1>b, <1>d, <1>e, <1>f, <2>1 DEF DeltasInv
<1>4. OutsideInv'
  <2>1. CASE layer = Depth - 1
    <3>1. outside' = outside
      BY <1>a, <1>b, <1>d, <1>g, <2>1
    <3>2. outside = {}
      BY <1>a, <2>1 DEF OutsideInv, Differs
    <3>3. layer' + 1 = Depth - 1 /\ layer' = Depth - 2
      BY <1>a, <1>b, <2>1
    <3> QED BY <1>a, <1>e, <3>1, <3>2, <3>3 DEF OutsideInv
  <2>2. CASE layer # Depth - 1
    <3>1. /\ "copied" \in outside' <=> "copied" \in outside \/ Size(layer) > Size(layer + 1)
          /\ "used" \in outside' <=> "used" \in outside \/ Size(layer) < Size(layer + 1)
          /\ outside \subseteq outside'
          /\ Size(layer) = Size(layer + 1) => outside' = outside
      BY <1>b, <1>d, <1>g, <2>2
    <3>2. layer \in layer..(Depth - 2) /\ layer' + 1 = layer
      BY <1>a, <1>b, <2>2
    <3>3. ASSUME outside' # {} PROVE Differs(layer)
      <4>1. CASE Size(layer) # Size(layer + 1)
        BY <3>2, <4>1 DEF Differs
      <4>2. CASE Size(layer) = Size(layer + 1)
        <5>1. Differs(layer + 1)
          BY <1>a, <3>1, <3>3, <4>2 DEF OutsideInv
        <5> QED BY <1>a, <5>1 DEF Differs
      <4> QED BY <4>1, <4>2
    <3>4. ASSUME NEW m \in layer..(Depth - 2)
          PROVE  /\ Size(m) > Size(m + 1) => "copied" \in outside'
                 /\ Size(m) < Size(m + 1) => "used" \in outside'
      <4>1. CASE m = layer
        BY <3>1, <4>1
      <4>2. CASE m \in (layer + 1)..(Depth - 2)
        BY <1>a, <3>1, <4>2 DEF OutsideInv
      <4> QED BY <1>a, <4>1, <4>2
    <3> QED BY <1>a, <1>b, <1>e, <3>2, <3>3, <3>4 DEF OutsideInv, Differs
  <2> QED BY <2>1, <2>2
<1> QED BY <1>1, <1>2, <1>3, <1>4 DEF MemoryInv

LEMMA MemoryStep ==
  ASSUME MemoryInv, [SgdNext]_sgdVars
  PROVE  MemoryInv'
PROOF
<1>a. ShapeInv /\ BlocksInv /\ DeltasInv /\ OutsideInv
  BY DEF MemoryInv
<1>1. CASE FeedFoward
  <2>1. /\ layer = 0 /\ layer' = Depth
        /\ UNCHANGED <<net, lines, live, outside, deltas, columns, number>>
    BY <1>1 DEF FeedFoward
  <2>2. lines = 0 /\ live = 0 /\ outside = {} /\ Depth' = Depth
    BY <1>a, <2>1 DEF BlocksInv, OutsideInv, ShapeInv, Depth
  <2> QED BY <1>a, <2>1, <2>2 DEF MemoryInv, ShapeInv, BlocksInv, DeltasInv, OutsideInv
<1>2. CASE LastLayer
  BY <1>2, LastLayerStep
<1>3. ASSUME NEW g \in Garbage, HiddenLayer(g) PROVE MemoryInv'
  BY <1>3, HiddenLayerStep
<1>4. CASE Return
  <2>1. /\ layer = 1 /\ lines > 0 /\ live' = live - FreeMatrix - 1 /\ lines' = 0
        /\ UNCHANGED <<net, layer, outside>>
    BY <1>4 DEF Return
  <2>2. Depth' = Depth /\ (\A l : Size(l)' = Size(l)) /\ Size(1) \in Nat
    BY <1>a, <2>1, SizesArePositive DEF Depth, Size, ShapeInv
  <2>3. live' = 0
    BY <1>a, <2>1, <2>2 DEF BlocksInv, FreeMatrix
  <2>4. ShapeInv'
    BY <1>a, <2>1, <2>2 DEF ShapeInv
  <2>5. BlocksInv' /\ DeltasInv'
    <3>1. layer' = 1 /\ lines' = 0 /\ live' = 0
      BY <2>1, <2>3
    <3> QED BY <3>1 DEF BlocksInv, DeltasInv
  <2>6. OutsideInv'
    BY <1>a, <2>1, <2>2 DEF OutsideInv, Differs
  <2> QED BY <2>4, <2>5, <2>6 DEF MemoryInv
<1>5. CASE UNCHANGED sgdVars
  BY <1>5 DEF sgdVars, MemoryInv, ShapeInv, BlocksInv, DeltasInv, OutsideInv, Differs, Size, Depth
<1> QED BY <1>1, <1>2, <1>3, <1>4, <1>5 DEF SgdNext

\* A layer l of the property is the one above the layer m of the invariant.
LEMMA MemoryIsKnown == MemoryInv => MemoryOfDeltas
PROOF
<1> SUFFICES ASSUME MemoryInv PROVE MemoryOfDeltas
  OBVIOUS
<1>a. Depth \in Nat /\ Depth > 1 /\ ShapeInv /\ BlocksInv /\ OutsideInv
  BY DEF MemoryInv, ShapeInv
<1>1. NoBlockIsLeft
  BY <1>a DEF NoBlockIsLeft, BlocksInv
<1>2. ASSUME layer = 1, NEW l \in 3..(Depth - 1)
      PROVE  /\ net.shape[l - 1] > net.shape[l] => "copied" \in outside
             /\ net.shape[l - 1] < net.shape[l] => "used" \in outside
             /\ outside # {} => \E m \in 3..(Depth - 1) : net.shape[m - 1] # net.shape[m]
  <2>1. l - 1 \in (layer + 1)..(Depth - 2) /\ (l - 1) + 1 = l /\ layer \in 1..(Depth - 1)
    BY <1>a, <1>2
  <2>2. /\ Size(l - 1) > Size(l) => "copied" \in outside
        /\ Size(l - 1) < Size(l) => "used" \in outside
    BY <1>a, <2>1 DEF OutsideInv
  <2>3. ASSUME outside # {}
        PROVE  \E m \in 3..(Depth - 1) : net.shape[m - 1] # net.shape[m]
    <3>1. PICK m \in 2..(Depth - 2) : Size(m) # Size(m + 1)
      BY <1>a, <1>2, <2>3 DEF OutsideInv, Differs
    <3>2. m + 1 \in 3..(Depth - 1) /\ (m + 1) - 1 = m
      BY <1>a
    <3> QED BY <3>1, <3>2 DEF Size
  <2> QED BY <2>2, <2>3 DEF Size
<1>3. OutsideExactly
  BY <1>2 DEF OutsideExactly, Trained
<1> QED BY <1>1, <1>3 DEF MemoryOfDeltas

\* The reads outside the blocks of the deltas are known from the shape of the network,
\* and a sample leaves no block behind, for networks of every depth and shape.
THEOREM MemoryOfASample == SgdSpec => []MemoryOfDeltas
PROOF BY MemoryInitial, MemoryStep, MemoryIsKnown, PTL DEF SgdSpec

-----------------------------------------------------------------------------
(* Sums, and the activations of a network. *)

\* What a loop adds up, term by term.
LEMMA SumIsRecursive ==
  ASSUME NEW n \in Nat, NEW f \in [1..n -> Int]
  PROVE  \E s \in [0..n -> Int] : /\ s[0] = 0 /\ Sum(f, n) = s[n]
                                  /\ \A k \in 1..n : s[k] = s[k - 1] + f[k]
PROOF
<1> DEFINE advance == [x \in (1..n) \X Int |-> x[2] + f[x[1]]]
<1>1. advance \in [(1..n) \X Int -> Int]
  OBVIOUS
<1>a. \A k \in 1..n, v \in Int : advance[<<k, v>>] = v + f[k]
  OBVIOUS
<1> HIDE DEF advance
<1>2. PICK s \in Recursions(Int, 0, n, advance) : TRUE
  <2>1. Recursions(Int, 0, n, advance) # {}
    <3>1. 0 \in Int
      OBVIOUS
    <3> QED BY <1>1, <3>1, RecursionExists
  <2> QED BY <2>1, Zenon
<1>3. s \in [0..n -> Int] /\ s[0] = 0 /\ \A k \in 1..n : s[k] = s[k - 1] + f[k]
  <2>1. ASSUME NEW k \in 1..n PROVE s[k] = s[k - 1] + f[k]
    <3>1. k - 1 \in 0..n /\ s[k - 1] \in Int
      BY <1>2 DEF Recursions
    <3> QED BY <1>2, <1>a, <3>1 DEF Recursions
  <2> QED BY <1>2, <2>1 DEF Recursions
<1> DEFINE sum == CHOOSE t : t = [k \in 0..n |-> IF k = 0 THEN 0 ELSE t[k - 1] + f[k]]
<1>4. s = [k \in 0..n |-> IF k = 0 THEN 0 ELSE s[k - 1] + f[k]]
  BY <1>3
<1>5. sum = [k \in 0..n |-> IF k = 0 THEN 0 ELSE sum[k - 1] + f[k]]
  BY <1>4, Zenon
<1>6. Sum(f, n) = sum[n]
  BY Zenon DEF Sum
<1> HIDE DEF sum
<1>7. sum[0] = 0 /\ \A k \in 1..n : sum[k] = sum[k - 1] + f[k]
  BY <1>5
<1> DEFINE S == {k \in 0..n : sum[k] = s[k]}
<1>8. 0 \in S /\ \A k \in 1..n : k - 1 \in S => k \in S
  BY <1>3, <1>7
<1> HIDE DEF S
<1>9. 0..n \subseteq S
  BY <1>8, BoundedInduction
<1>10. Sum(f, n) = s[n]
  BY <1>6, <1>9 DEF S
<1> QED BY <1>3, <1>10

LEMMA SumIsInt ==
  ASSUME NEW n \in Nat, NEW f \in [1..n -> Int]
  PROVE  Sum(f, n) \in Int
PROOF BY SumIsRecursive

\* A factor of every term is one of the sum.
LEMMA SumScales ==
  ASSUME NEW n \in Nat, NEW f \in [1..n -> Int], NEW g \in [1..n -> Int], NEW c \in Int,
         \A k \in 1..n : g[k] = f[k] * c
  PROVE  Sum(g, n) = Sum(f, n) * c
PROOF
<1>1. PICK s \in [0..n -> Int] : /\ s[0] = 0 /\ Sum(f, n) = s[n]
                                 /\ \A k \in 1..n : s[k] = s[k - 1] + f[k]
  BY SumIsRecursive
<1>2. PICK t \in [0..n -> Int] : /\ t[0] = 0 /\ Sum(g, n) = t[n]
                                 /\ \A k \in 1..n : t[k] = t[k - 1] + g[k]
  BY SumIsRecursive
<1> DEFINE S == {k \in 0..n : t[k] = s[k] * c}
<1>3. 0 \in S
  BY <1>1, <1>2
<1>4. ASSUME NEW k \in 1..n, k - 1 \in S PROVE k \in S
  <2>1. t[k - 1] = s[k - 1] * c /\ s[k - 1] \in Int /\ f[k] \in Int /\ k - 1 \in 0..n
    BY <1>4
  <2>2. (s[k - 1] + f[k]) * c = s[k - 1] * c + f[k] * c
    BY <2>1
  <2> QED BY <1>1, <1>2, <2>1, <2>2
<1> HIDE DEF S
<1>5. 0..n \subseteq S
  BY <1>3, <1>4, BoundedInduction
<1> QED BY <1>1, <1>2, <1>5 DEF S

-----------------------------------------------------------------------------
\* The activations of a layer are numbers when those of the layer below are.
LEMMA LayerOfNumbers ==
  ASSUME NEW l, NEW below, Size(l - 1) \in Nat, below \in [Neurons(l - 1) -> Int],
         bias[l] \in [Neurons(l) -> Int],
         weight[l] \in [Neurons(l) -> [Neurons(l - 1) -> Int]]
  PROVE  ActivationsAbove(l, below) \in [Neurons(l) -> Int]
PROOF
<1> DEFINE w(i) == [j \in Neurons(l - 1) |-> weight[l][i][j] * below[j]]
<1>1. ASSUME NEW i \in Neurons(l)
      PROVE  ActivationFunctionCalculaton(bias[l][i] + Sum(w(i), Size(l - 1))) \in Int
  <2>1. \A j \in Neurons(l - 1) : weight[l][i][j] \in Int /\ below[j] \in Int
    OBVIOUS
  <2>2. w(i) \in [1..Size(l - 1) -> Int]
    BY <2>1 DEF Neurons, Size
  <2> HIDE DEF w
  <2>3. Sum(w(i), Size(l - 1)) \in Int
    BY <2>2, SumIsInt
  <2>4. bias[l][i] + Sum(w(i), Size(l - 1)) \in Int
    BY <2>3
  <2> QED BY <2>4 DEF ActivationFunctionCalculaton
<1> QED BY <1>1 DEF ActivationsAbove, Size

\* The layers of the network and its sample.
NumbersInv ==
  /\ DOMAIN bias = 2..Depth /\ DOMAIN weight = 2..Depth
  /\ \A l \in 2..Depth : /\ bias[l] \in [Neurons(l) -> Int]
                         /\ weight[l] \in [Neurons(l) -> [Neurons(l - 1) -> Int]]
  /\ \A i \in Neurons(1) : input[i] \in Int

LEMMA ActivationsAreNumbers ==
  ASSUME NumbersInv, net.shape \in Seq(Nat \ {0}), Depth \in Nat, Depth > 1
  PROVE  \A l \in 1..Depth : Activations[l] \in [Neurons(l) -> Int]
PROOF
<1> DEFINE D == Depth
           n == D - 1
           first == [i \in Neurons(1) |-> input[i]]
           V == UNION {[Neurons(l) -> Int] : l \in 1..D}
           advance == [x \in (1..n) \X V |->
                      IF x[2] \in [Neurons(x[1]) -> Int] THEN ActivationsAbove(x[1] + 1, x[2])
                      ELSE first]
<1>1. D \in Nat /\ D > 1 /\ n \in Nat
  OBVIOUS
<1>2. \A l \in 1..D : Size(l) \in Nat
  <2> SUFFICES ASSUME NEW l \in 1..D PROVE Size(l) \in Nat
    OBVIOUS
  <2>1. net.shape[l] \in Nat \ {0}
    BY ElementOfSeq DEF Depth
  <2> QED BY <2>1 DEF Size
<1>3. first \in [Neurons(1) -> Int] /\ first \in V
  <2>1. first \in [Neurons(1) -> Int]
    BY DEF NumbersInv
  <2> HIDE DEF first
  <2> QED BY <1>1, <2>1
<1>4. ASSUME NEW k \in 1..n, NEW v \in [Neurons(k) -> Int]
      PROVE  ActivationsAbove(k + 1, v) \in [Neurons(k + 1) -> Int]
  <2>1. k + 1 \in 2..D /\ (k + 1) - 1 = k /\ k \in 1..D
    BY <1>1
  <2>2. bias[k + 1] \in [Neurons(k + 1) -> Int]
        /\ weight[k + 1] \in [Neurons(k + 1) -> [Neurons(k) -> Int]]
    <3>1. /\ bias[k + 1] \in [Neurons(k + 1) -> Int]
          /\ weight[k + 1] \in [Neurons(k + 1) -> [Neurons((k + 1) - 1) -> Int]]
      BY <2>1 DEF NumbersInv
    <3> QED BY <2>1, <3>1
  <2> QED BY <1>2, <2>1, <2>2, LayerOfNumbers
<1> HIDE DEF D, n, first
<1>5. \A k \in 1..n : k \in 1..D /\ k + 1 \in 1..D
  BY <1>1 DEF n
<1>6. advance \in [(1..n) \X V -> V]
  <2> SUFFICES ASSUME NEW x \in (1..n) \X V
               PROVE  (IF x[2] \in [Neurons(x[1]) -> Int] THEN ActivationsAbove(x[1] + 1, x[2])
                       ELSE first) \in V
    BY Zenon
  <2>1. CASE x[2] \in [Neurons(x[1]) -> Int]
    <3>1. ActivationsAbove(x[1] + 1, x[2]) \in [Neurons(x[1] + 1) -> Int] /\ x[1] + 1 \in 1..D
      BY <1>4, <1>5, <2>1
    <3>2. ActivationsAbove(x[1] + 1, x[2]) \in V
      BY <3>1, Zenon
    <3> QED BY <2>1, <3>2, Zenon
  <2>2. CASE x[2] \notin [Neurons(x[1]) -> Int]
    BY <1>3, <2>2, Zenon
  <2> QED BY <2>1, <2>2
<1>7. \A k \in 1..n, v \in V :
        v \in [Neurons(k) -> Int] => advance[<<k, v>>] = ActivationsAbove(k + 1, v)
  <2> HIDE DEF V
  <2> QED OBVIOUS
<1> HIDE DEF advance
<1>8. PICK f \in Recursions(V, first, n, advance) : TRUE
  <2> HIDE DEF V
  <2> QED BY <1>1, <1>3, <1>6, RecursionExists
<1> HIDE DEF V
<1>9. f \in [0..n -> V] /\ f[0] = first /\ \A k \in 1..n : f[k] = advance[<<k, f[k - 1]>>]
  BY <1>8 DEF Recursions
<1> DEFINE S == {k \in 0..n : f[k] \in [Neurons(k + 1) -> Int]}
<1>10. 0 \in S
  BY <1>1, <1>3, <1>9
<1>11. ASSUME NEW k \in 1..n, k - 1 \in S PROVE k \in S /\ f[k] = ActivationsAbove(k + 1, f[k - 1])
  <2>1. k - 1 \in 0..n /\ (k - 1) + 1 = k /\ f[k - 1] \in V
    BY <1>1, <1>9
  <2>2. f[k - 1] \in [Neurons(k) -> Int]
    BY <1>11, <2>1
  <2>3. f[k] = ActivationsAbove(k + 1, f[k - 1])
    BY <1>7, <1>9, <2>1, <2>2
  <2>4. f[k] \in [Neurons(k + 1) -> Int]
    BY <1>4, <2>2, <2>3
  <2> QED BY <2>3, <2>4
<1>12. 0..n \subseteq S
  <2>1. \A k \in 1..n : k - 1 \in S => k \in S
    BY <1>11
  <2> HIDE DEF S
  <2> QED BY <1>1, <1>10, <2>1, BoundedInduction
<1>13. \A k \in 1..n : f[k] = ActivationsAbove(k + 1, f[k - 1]) /\ k - 1 \in 0..n
  <2> SUFFICES ASSUME NEW k \in 1..n
               PROVE  f[k] = ActivationsAbove(k + 1, f[k - 1]) /\ k - 1 \in 0..n
    OBVIOUS
  <2>1. k - 1 \in 0..n
    BY <1>1
  <2>2. k - 1 \in S
    BY <1>12, <2>1
  <2> QED BY <1>11, <2>1, <2>2
<1> DEFINE all == [l \in 1..D |-> f[l - 1]]
<1>14. all = [l \in 1..D |-> IF l = 1 THEN first ELSE ActivationsAbove(l, all[l - 1])]
  <2>1. ASSUME NEW l \in 1..D, l # 1 PROVE f[l - 1] = ActivationsAbove(l, all[l - 1])
    <3>1. l - 1 \in 1..n /\ (l - 1) + 1 = l /\ l - 1 \in 1..D
      BY <1>1, <2>1 DEF n
    <3>2. all[l - 1] = f[(l - 1) - 1]
      BY <3>1
    <3> HIDE DEF all
    <3> QED BY <1>13, <3>1, <3>2
  <2>2. all[1] = first
    BY <1>1, <1>9
  <2>3. \A l \in 1..D : all[l] = IF l = 1 THEN first ELSE ActivationsAbove(l, all[l - 1])
    BY <2>1, <2>2
  <2> QED BY <2>3
<1> HIDE DEF all, S
<1>15. Activations = [l \in 1..D |-> IF l = 1 THEN first
                                     ELSE ActivationsAbove(l, Activations[l - 1])]
  BY <1>14, Zenon DEF Activations, D, first
<1>16. \A l \in 2..D : Activations[l] = ActivationsAbove(l, Activations[l - 1])
  <2> SUFFICES ASSUME NEW l \in 2..D PROVE Activations[l] = ActivationsAbove(l, Activations[l - 1])
    OBVIOUS
  <2>1. l \in 1..D /\ l # 1
    BY <1>1
  <2> DEFINE A == Activations
  <2>2. A = [m \in 1..D |-> IF m = 1 THEN first ELSE ActivationsAbove(m, A[m - 1])]
    BY <1>15
  <2> HIDE DEF A
  <2>3. A[l] = ActivationsAbove(l, A[l - 1])
    BY <2>1, <2>2
  <2> QED BY <2>3 DEF A
<1>17. Activations[1] = first
  <2> DEFINE A == Activations
  <2>2. A = [m \in 1..D |-> IF m = 1 THEN first ELSE ActivationsAbove(m, A[m - 1])]
    BY <1>15
  <2> HIDE DEF A
  <2>3. A[1] = first
    BY <1>1, <2>2
  <2> QED BY <2>3 DEF A
<1> DEFINE T == {k \in 0..n : Activations[k + 1] \in [Neurons(k + 1) -> Int]}
<1>18. 0 \in T
  BY <1>1, <1>3, <1>17
<1>19. ASSUME NEW k \in 1..n, k - 1 \in T PROVE k \in T
  <2>1. k + 1 \in 2..D /\ (k + 1) - 1 = k /\ (k - 1) + 1 = k
    BY <1>1 DEF n
  <2>2. Activations[k] \in [Neurons(k) -> Int]
    BY <1>19, <2>1
  <2>3. Activations[k + 1] = ActivationsAbove(k + 1, Activations[k])
    BY <1>16, <2>1
  <2>4. Activations[k + 1] \in [Neurons(k + 1) -> Int]
    BY <1>4, <2>2, <2>3
  <2> QED BY <2>4
<1> HIDE DEF T
<1>20. 0..n \subseteq T
  BY <1>1, <1>18, <1>19, BoundedInduction
<1> QED
  <2> SUFFICES ASSUME NEW l \in 1..D PROVE Activations[l] \in [Neurons(l) -> Int]
    BY DEF D
  <2>1. l - 1 \in 0..n /\ (l - 1) + 1 = l
    BY <1>1 DEF n
  <2>2. l - 1 \in T
    BY <1>20, <2>1
  <2> QED BY <2>1, <2>2 DEF T

-----------------------------------------------------------------------------
(* What a sample does to the biases and the weights. *)

ValuesInv == layer > 0 => \A l \in 1..Depth : value[l] \in [Neurons(l) -> Int]

\* The layers from the one in turn down are as they were.  The deltas that are kept
\* moved the biases of the layer above, and the matrix has its new weights.
MovesInv ==
  /\ \A l \in 2..Depth :
       layer = 0 \/ l <= layer => bias[l] = net.bias[l] /\ weight[l] = net.weight[l]
  /\ lines > 0 =>
       /\ deltas \in [Neurons(layer + 1) -> Int]
       /\ \A i \in Neurons(layer + 1) : Moved(layer + 1, i) = deltas[i] * Alpha
       /\ DOMAIN weights = Neurons(layer)
       /\ \A j \in Neurons(layer), i \in Neurons(layer + 1) :
            weights[j][i] = weight[layer + 1][i][j]

Reg(w) == StochasticGradientDescentCalculation(w, 0, 0)

FromLabels == \A i \in Neurons(Depth) : Moved(Depth, i) = Alpha * (value[Depth][i] - Label[i])
FromAbove(l) == \A i \in Neurons(l) : Moved(l, i) = IF value[l][i] > 0 THEN HandedDown(l, i) ELSE 0
Stepped(l) ==
  \A i \in Neurons(l), j \in Neurons(l - 1) :
    weight[l][i][j] = net.weight[l][i][j] + Reg(net.weight[l][i][j]) - Moved(l, i) * value[l - 1][j]

\* DeltasFollowTheChain, for the layers that are done.
ChainInv ==
  layer > 0 =>
    /\ layer < Depth => FromLabels
    /\ ~Narrows => \A l \in (layer + 1)..(Depth - 1) : FromAbove(l)
    /\ \A l \in (layer + 1)..Depth : Stepped(l)

\* The invariant that is inductive.
SgdInv == MemoryInv /\ SgdTypeOK /\ ValuesInv /\ MovesInv /\ ChainInv

LEMMA SgdConstants == Alpha \in Int /\ Lambda \in Int /\ Garbage \subseteq Int /\ Garbage # {}
PROOF BY NumbersAssumption

\* Weights and regularization.
LEMMA Regularized ==
  ASSUME regularization \in 0..2, NEW w \in Int, NEW o \in Int, NEW d \in Int
  PROVE  /\ Reg(w) \in Int
         /\ w + StochasticGradientDescentCalculation(w, o, d) = w + Reg(w) - (d * Alpha) * o
PROOF
<1> DEFINE r == CASE regularization = 0 -> 0
                  [] regularization = 1 -> Sign(w)
                  [] regularization = 2 -> 2 * Lambda * w
<1>1. r \in Int
  <2>1. 2 * Lambda * w \in Int
    BY SgdConstants
  <2> QED BY <2>1 DEF Sign
<1>2. Reg(w) = -Alpha * (0 * 0 + r)
  BY DEF Reg, StochasticGradientDescentCalculation
<1>3. StochasticGradientDescentCalculation(w, o, d) = -Alpha * (d * o + r)
  BY DEF StochasticGradientDescentCalculation
<1> HIDE DEF r
<1>4. -Alpha * (d * o + r) = -Alpha * (0 * 0 + r) - (d * Alpha) * o
  BY SgdConstants, <1>1
<1>5. -Alpha * (0 * 0 + r) \in Int /\ (d * Alpha) * o \in Int
  BY SgdConstants, <1>1
<1> QED BY <1>2, <1>3, <1>4, <1>5

\* A sample leaves the layers as they are: what is said of one stays said.
LEMMA LayerStands ==
  ASSUME NEW l, NEW i, bias'[l] = bias[l], net' = net
  PROVE  Moved(l, i)' = Moved(l, i)
PROOF BY DEF Moved

LEMMA HandedDownStands ==
  ASSUME NEW l, NEW i, bias'[l + 1] = bias[l + 1], weight'[l + 1] = weight[l + 1], net' = net
  PROVE  HandedDown(l, i)' = HandedDown(l, i)
PROOF
<1> DEFINE terms == [j \in Neurons(l + 1) |-> Moved(l + 1, j) * weight[l + 1][j][i]]
<1>1. terms' = terms
  BY DEF Moved, Neurons
<1>2. net.shape[l + 1]' = net.shape[l + 1]
  OBVIOUS
<1>3. HandedDown(l, i) = Sum(terms, net.shape[l + 1])
  BY DEF HandedDown
<1>4. HandedDown(l, i)' = Sum(terms', net.shape[l + 1]')
  BY DEF HandedDown
<1> QED BY <1>1, <1>2, <1>3, <1>4

\* A layer that is moved by deltas which are numbers and follow the chain.
LEMMA DescendStep ==
  ASSUME SgdInv, MemoryInv', NEW L \in Nat, layer = L, L \in 2..Depth,
         NEW d \in [Neurons(L) -> Int], Descend(d), live' \in Int,
         outside' \subseteq {"copied", "used"},
         L = Depth => \A i \in Neurons(L) : d[i] = value[L][i] - Label[i],
         L < Depth /\ ~Narrows =>
           \A i \in Neurons(L) : d[i] * Alpha = IF value[L][i] > 0 THEN HandedDown(L, i) ELSE 0
  PROVE  SgdInv'
PROOF
<1> USE SgdConstants
<1>a. /\ net' = net /\ layer' = L - 1 /\ lines' = Size(L - 1) /\ deltas' = d /\ value' = value
      /\ UNCHANGED <<input, kind, regularization>>
  BY DEF Descend, Size
<1>b. /\ Depth' = Depth /\ Depth \in Nat /\ Depth > 1 /\ ShapeInv
      /\ (\A l : Size(l)' = Size(l)) /\ (\A l : Neurons(l)' = Neurons(l)) /\ Narrows' = Narrows
  BY <1>a DEF SgdInv, MemoryInv, ShapeInv, Depth, Size, Neurons, Narrows
<1>c. /\ DOMAIN bias = 2..Depth /\ DOMAIN weight = 2..Depth
      /\ \A l \in 2..Depth : /\ bias[l] \in [Neurons(l) -> Int]
                             /\ weight[l] \in [Neurons(l) -> [Neurons(l - 1) -> Int]]
  BY DEF SgdInv, SgdTypeOK
<1>d. \A l \in 1..Depth : value[l] \in [Neurons(l) -> Int]
  BY DEF SgdInv, ValuesInv
<1>e. bias[L] = net.bias[L] /\ weight[L] = net.weight[L]
  BY DEF SgdInv, MovesInv
<1>f. regularization \in 0..2
  BY NumbersAssumption DEF SgdInv, SgdTypeOK
<1> DEFINE new == [i \in Neurons(L) |-> [j \in Neurons(L - 1) |->
                     weight[L][i][j] + StochasticGradientDescentCalculation(
                                         weight[L][i][j], value[L - 1][j], d[i])]]
<1>g. /\ bias' = [bias EXCEPT ![L] = [i \in Neurons(L) |-> @[i] - d[i] * Alpha]]
      /\ weight' = [weight EXCEPT ![L] = new]
      /\ weights' = [j \in Neurons(L - 1) |-> [i \in Neurons(L) |-> new[i][j]]]
  BY DEF Descend, WeightsBelow
<1>1. \A i \in Neurons(L), j \in Neurons(L - 1) :
        /\ new[i][j] = weight[L][i][j] + Reg(weight[L][i][j]) - (d[i] * Alpha) * value[L - 1][j]
        /\ new[i][j] \in Int
  <2> SUFFICES ASSUME NEW i \in Neurons(L), NEW j \in Neurons(L - 1)
               PROVE  /\ new[i][j] = weight[L][i][j] + Reg(weight[L][i][j])
                                       - (d[i] * Alpha) * value[L - 1][j]
                      /\ new[i][j] \in Int
    OBVIOUS
  <2>1. L - 1 \in 1..Depth
    BY <1>b
  <2>2. weight[L][i][j] \in Int /\ value[L - 1][j] \in Int /\ d[i] \in Int
    BY <1>c, <1>d, <2>1
  <2>3. new[i][j] = weight[L][i][j] + StochasticGradientDescentCalculation(
                                        weight[L][i][j], value[L - 1][j], d[i])
    OBVIOUS
  <2> HIDE DEF new
  <2>4. /\ new[i][j] = weight[L][i][j] + Reg(weight[L][i][j]) - (d[i] * Alpha) * value[L - 1][j]
        /\ Reg(weight[L][i][j]) \in Int
    <3>1. PICK w \in Int, o \in Int, e \in Int :
            w = weight[L][i][j] /\ o = value[L - 1][j] /\ e = d[i]
      BY <2>2
    <3>2. Reg(w) \in Int
      BY <1>f, Regularized
    <3>3. w + StochasticGradientDescentCalculation(w, o, e) = w + Reg(w) - (e * Alpha) * o
      BY <1>f, Regularized
    <3> QED BY <2>3, <3>1, <3>2, <3>3, Zenon
  <2>5. (d[i] * Alpha) * value[L - 1][j] \in Int
    <3>1. d[i] * Alpha \in Int
      BY <2>2
    <3> QED BY <2>2, <3>1
  <2> QED BY <2>2, <2>4, <2>5
<1>2. new \in [Neurons(L) -> [Neurons(L - 1) -> Int]]
  BY <1>1
<1> HIDE DEF new
<1>3. /\ bias'[L] = [i \in Neurons(L) |-> bias[L][i] - d[i] * Alpha] /\ weight'[L] = new
      /\ \A l \in 2..Depth : l # L => bias'[l] = bias[l] /\ weight'[l] = weight[l]
      /\ DOMAIN bias' = 2..Depth /\ DOMAIN weight' = 2..Depth
  BY <1>c, <1>g
<1>4. \A i \in Neurons(L) : bias'[L][i] \in Int /\ Moved(L, i)' = d[i] * Alpha
  <2> SUFFICES ASSUME NEW i \in Neurons(L)
               PROVE  bias'[L][i] \in Int /\ Moved(L, i)' = d[i] * Alpha
    OBVIOUS
  <2>1. bias[L][i] \in Int /\ d[i] \in Int
    BY <1>c
  <2>2. bias'[L][i] = bias[L][i] - d[i] * Alpha
    BY <1>3
  <2>3. d[i] * Alpha \in Int
    BY <2>1
  <2> QED BY <1>a, <1>e, <2>1, <2>2, <2>3 DEF Moved
<1>5. SgdTypeOK'
  <2>1. ASSUME NEW l \in 2..Depth
        PROVE  /\ bias'[l] \in [Neurons(l) -> Int]
               /\ weight'[l] \in [Neurons(l) -> [Neurons(l - 1) -> Int]]
    <3>1. CASE l = L
      BY <1>2, <1>3, <1>4, <3>1
    <3>2. CASE l # L
      BY <1>c, <1>3, <3>2
    <3> QED BY <3>1, <3>2
  <2>2. DOMAIN deltas' = Neurons(L) /\ DOMAIN weights' = Neurons(L - 1) /\ layer' + 1 = L
    BY <1>a, <1>g
  <2>3. layer' \in 0..Depth
    BY <1>a, <1>b
  <2>4. /\ net \in Networks /\ input \in Inputs /\ kind \in Kinds /\ regularization \in Penalties
    BY DEF SgdInv, SgdTypeOK
  <2> QED BY <1>a, <1>b, <1>3, <2>1, <2>2, <2>3, <2>4 DEF SgdTypeOK
<1>6. ValuesInv'
  BY <1>a, <1>b, <1>d DEF ValuesInv
<1>7. MovesInv'
  <2>1. ASSUME NEW l \in 2..Depth, l <= L - 1
        PROVE  bias'[l] = net.bias[l] /\ weight'[l] = net.weight[l]
    <3>1. l # L /\ l <= layer
      BY <2>1
    <3> QED BY <1>3, <3>1 DEF SgdInv, MovesInv
  <2>2. layer' # 0 /\ layer' + 1 = L
    BY <1>a
  <2>3. DOMAIN weights' = Neurons(L - 1)
        /\ \A j \in Neurons(L - 1), i \in Neurons(L) : weights'[j][i] = weight'[L][i][j]
    BY <1>g, <1>3
  <2> QED BY <1>a, <1>b, <1>4, <2>1, <2>2, <2>3 DEF MovesInv
<1>8. ChainInv'
  <2>1. L < Depth => FromLabels
    BY DEF SgdInv, ChainInv
  <2>2. ~Narrows => \A l \in (L + 1)..(Depth - 1) : FromAbove(l)
    BY DEF SgdInv, ChainInv
  <2>3. \A l \in (L + 1)..Depth : Stepped(l)
    BY DEF SgdInv, ChainInv
  <2>4. \A l \in (L + 1)..Depth : \A i : Moved(l, i)' = Moved(l, i)
    <3> SUFFICES ASSUME NEW l \in (L + 1)..Depth, NEW i PROVE Moved(l, i)' = Moved(l, i)
      OBVIOUS
    <3>1. l \in 2..Depth /\ l # L
      BY <1>b
    <3> QED BY <1>a, <1>3, <3>1, LayerStands
  <2>5. \A l \in L..(Depth - 1) : \A i : HandedDown(l, i)' = HandedDown(l, i)
    <3> SUFFICES ASSUME NEW l \in L..(Depth - 1), NEW i PROVE HandedDown(l, i)' = HandedDown(l, i)
      OBVIOUS
    <3>1. l + 1 \in 2..Depth /\ l + 1 # L
      BY <1>b
    <3> QED BY <1>a, <1>3, <3>1, HandedDownStands
  <2>6. \A w : Reg(w)' = Reg(w)
    BY <1>a DEF Reg, StochasticGradientDescentCalculation, Sign
  <2>7. FromLabels'
    <3>1. CASE L = Depth
      <4>1. ASSUME NEW i \in Neurons(L)
            PROVE  Moved(L, i)' = Alpha * (value[L][i] - Label[i])
        <5>1. d[i] \in Int /\ d[i] * Alpha = Alpha * d[i]
          OBVIOUS
        <5> QED BY <1>4, <3>1, <5>1
      <4> QED BY <1>a, <1>b, <3>1, <4>1 DEF FromLabels, Moved
    <3>2. CASE L # Depth
      <4>1. Depth \in (L + 1)..Depth
        BY <1>b, <3>2
      <4>2. \A i : Moved(Depth, i)' = Moved(Depth, i)
        <5> SUFFICES ASSUME NEW i PROVE Moved(Depth, i)' = Moved(Depth, i)
          OBVIOUS
        <5>1. bias'[Depth] = bias[Depth]
          BY <1>3, <1>b, <3>2
        <5> QED BY <1>a, <1>b, <5>1 DEF Moved
      <4> QED BY <1>a, <1>b, <2>1, <3>2, <4>2 DEF FromLabels
    <3> QED BY <3>1, <3>2
  <2>8. ASSUME ~Narrows, NEW l \in L..(Depth - 1) PROVE FromAbove(l)'
    <3>1. CASE l = L
      BY <1>a, <1>b, <1>4, <2>5, <2>8, <3>1 DEF FromAbove
    <3>2. CASE l # L
      <4>1. l \in (L + 1)..(Depth - 1) /\ l \in (L + 1)..Depth
        BY <1>b, <3>2
      <4>2. FromAbove(l)
        BY <2>2, <2>8, <4>1
      <4> QED BY <1>a, <1>b, <2>4, <2>5, <4>1, <4>2 DEF FromAbove
    <3> QED BY <3>1, <3>2
  <2>9. ASSUME NEW l \in L..Depth PROVE Stepped(l)'
    <3>1. CASE l = L
      BY <1>a, <1>b, <1>e, <1>1, <1>3, <1>4, <2>6, <3>1 DEF Stepped
    <3>2. CASE l # L
      <4>1. l \in (L + 1)..Depth /\ l \in 2..Depth
        BY <1>b, <3>2
      <4>2. Stepped(l)
        BY <2>3, <4>1
      <4> QED BY <1>a, <1>b, <1>3, <2>4, <2>6, <3>2, <4>1, <4>2 DEF Stepped
    <3> QED BY <3>1, <3>2
  <2>10. layer' + 1 = L /\ layer' > 0
    BY <1>a
  <2> QED BY <1>b, <2>7, <2>8, <2>9, <2>10 DEF ChainInv
<1> QED BY <1>5, <1>6, <1>7, <1>8 DEF SgdInv

LEMMA InputsAreNumbers ==
  ASSUME MemoryInv, SgdTypeOK
  PROVE  NumbersInv
PROOF
<1>1. net \in Networks /\ input \in Inputs /\ net.shape[1] = Size(1)
  BY DEF SgdTypeOK, Size
<1>2. \A i \in Neurons(1) : input[i] \in Int
  BY <1>1, SamplesAssumption DEF Neurons
<1> QED BY <1>2 DEF NumbersInv, SgdTypeOK

LEMMA SgdInitial == SgdInit => SgdInv
PROOF
<1> SUFFICES ASSUME SgdInit PROVE SgdInv
  OBVIOUS
<1>1. /\ net \in Networks /\ weight = net.weight /\ bias = net.bias /\ layer = 0 /\ lines = 0
      /\ live = 0 /\ outside = {}
  BY DEF SgdInit
<1>2. MemoryInv
  BY MemoryInitial
<1>3. SgdTypeOK
  <2>1. /\ DOMAIN bias = 2..Depth /\ DOMAIN weight = 2..Depth
        /\ \A l \in 2..Depth : /\ bias[l] \in [Neurons(l) -> Int]
                               /\ weight[l] \in [Neurons(l) -> [Neurons(l - 1) -> Int]]
    BY <1>1, NetworksAssumption DEF Depth, Neurons
  <2>2. layer \in 0..Depth
    BY <1>2 DEF MemoryInv, ShapeInv
  <2> QED BY <1>1, <2>1, <2>2 DEF SgdTypeOK, SgdInit
<1>4. ValuesInv /\ MovesInv /\ ChainInv
  BY <1>1 DEF ValuesInv, MovesInv, ChainInv
<1> QED BY <1>2, <1>3, <1>4 DEF SgdInv

LEMMA FeedStep ==
  ASSUME SgdInv, MemoryInv', FeedFoward
  PROVE  SgdInv'
PROOF
<1>1. /\ layer = 0 /\ value' = Activations /\ layer' = Depth
      /\ UNCHANGED <<net, input, kind, regularization, weight, bias, deltas, lines, weights, live,
                     outside>>
  BY DEF FeedFoward
<1>2. /\ Depth \in Nat /\ Depth > 1 /\ net.shape \in Seq(Nat \ {0}) /\ lines = 0 /\ MemoryInv
      /\ SgdTypeOK /\ MovesInv
  BY <1>1 DEF SgdInv, MemoryInv, ShapeInv, BlocksInv
<1>3. Depth' = Depth /\ (\A l : Neurons(l)' = Neurons(l))
  BY <1>1 DEF Depth, Neurons
<1>4. \A l \in 1..Depth : Activations[l] \in [Neurons(l) -> Int]
  BY <1>2, InputsAreNumbers, ActivationsAreNumbers
<1>5. SgdTypeOK'
  <2>1. layer' \in 0..Depth
    BY <1>1, <1>2
  <2> QED BY <1>1, <1>2, <1>3, <2>1 DEF SgdTypeOK
<1>6. ValuesInv'
  BY <1>1, <1>3, <1>4 DEF ValuesInv
<1>7. MovesInv'
  BY <1>1, <1>2, <1>3 DEF MovesInv
<1>8. ChainInv'
  <2>1. layer' = Depth' /\ Depth' \in Nat
    BY <1>1, <1>2, <1>3
  <2>2. /\ ~(layer' < Depth')
        /\ \A l : l \notin (layer' + 1)..(Depth' - 1) /\ l \notin (layer' + 1)..Depth'
    BY <2>1
  <2> QED BY <2>2, Zenon DEF ChainInv
<1> QED BY <1>5, <1>6, <1>7, <1>8 DEF SgdInv

\* The deltas of the last layer are the differences from the labels.
LEMMA LastLayerChain ==
  ASSUME SgdInv, MemoryInv', LastLayer
  PROVE  SgdInv'
PROOF
<1>1. MemoryInv /\ Depth \in Nat /\ Depth > 1 /\ layer = Depth /\ ValuesInv
      /\ net \in Networks /\ outside \subseteq {"copied", "used"}
  BY DEF SgdInv, SgdTypeOK, MemoryInv, ShapeInv, LastLayer
<1>2. PICK L \in Nat : L = layer
  BY <1>1
<1>3. L \in 2..Depth /\ L = Depth
  BY <1>1, <1>2
<1>4. \A i \in Neurons(L) : value[L][i] \in Int /\ Label[i] \in Int
  <2>1. value[L] \in [Neurons(L) -> Int]
    BY <1>1, <1>3 DEF ValuesInv
  <2>2. \A i \in Neurons(L) : Label[i] \in Int
    BY <1>1, <1>3, SamplesAssumption DEF Neurons, Depth
  <2> QED BY <2>1, <2>2
<1>5. PICK d \in [Neurons(L) -> Int] : d = [i \in Neurons(L) |-> value[L][i] - Label[i]]
  <2>1. [i \in Neurons(L) |-> value[L][i] - Label[i]] \in [Neurons(L) -> Int]
    BY <1>4
  <2> QED BY <2>1
<1>6. Descend(d) /\ outside' = outside
  BY <1>2, <1>5 DEF LastLayer
<1>7. live' \in Int
  <2>1. Size(Depth - 1) \in Nat
    BY <1>1, SizesArePositive DEF MemoryInv
  <2> QED BY <1>1, <2>1 DEF LastLayer, Size
<1>8. ~(L < Depth) /\ \A i \in Neurons(L) : d[i] = value[L][i] - Label[i]
  BY <1>1, <1>3, <1>5
<1> QED BY <1>1, <1>2, <1>3, <1>6, <1>7, <1>8, DescendStep

\* Where no layer narrows, the deltas that are read are those of the layer above.
LEMMA HiddenLayerChain ==
  ASSUME SgdInv, MemoryInv', NEW g \in Garbage, HiddenLayer(g)
  PROVE  SgdInv'
PROOF
<1> USE SgdConstants
<1>a. /\ MemoryInv /\ Depth \in Nat /\ Depth > 1 /\ layer \in 2..(Depth - 1) /\ ShapeInv
      /\ ValuesInv /\ MovesInv /\ SgdTypeOK /\ BlocksInv /\ DeltasInv
  BY DEF SgdInv, MemoryInv, ShapeInv, HiddenLayer
<1>b. PICK L \in Nat : L = layer
  BY <1>a
<1>c. L \in 2..(Depth - 1) /\ L \in 2..Depth /\ L + 1 \in 2..Depth /\ L < Depth
  BY <1>a, <1>b
<1>d. /\ Size(L) \in Nat /\ Size(L + 1) \in Nat /\ Size(L - 1) \in Nat
  BY <1>a, <1>c, SizesArePositive
<1>e. lines > 0 /\ lines = Size(L) /\ live = 2 + lines
  <2>1. lines # 0 /\ lines > 0
    BY <1>a DEF BlocksInv
  <2> QED BY <1>a, <1>b, <2>1 DEF BlocksInv
<1>f. /\ Len(deltas) = Size(L + 1) /\ columns = Size(L + 1)
      /\ number = IF L = Depth - 1 THEN Size(Depth) ELSE Size(L)
  BY <1>a, <1>b, <1>e DEF DeltasInv
<1>g. /\ deltas \in [1..Size(L + 1) -> Int]
      /\ \A i \in Neurons(L + 1) : Moved(L + 1, i) = deltas[i] * Alpha
      /\ \A j \in Neurons(L), i \in Neurons(L + 1) : weights[j][i] = weight[L + 1][i][j]
  BY <1>a, <1>b, <1>e DEF MovesInv, Neurons, Size
<1>h. number \in Nat
  <2>1. Size(Depth) \in Nat
    BY <1>a, SizesArePositive
  <2> QED BY <1>d, <1>f, <2>1
<1>i. weight[L + 1] \in [Neurons(L + 1) -> [Neurons(L) -> Int]]
  <2>1. weight[L + 1] \in [Neurons(L + 1) -> [Neurons((L + 1) - 1) -> Int]]
    BY <1>a, <1>c DEF SgdTypeOK
  <2>2. (L + 1) - 1 = L
    OBVIOUS
  <2> QED BY <2>1, <2>2
<1>j. \A j \in Neurons(L), i \in Neurons(L + 1) : weights[j][i] \in Int
  BY <1>g, <1>i
<1> DEFINE deltafunctionsaux == [j \in 1..number |-> IF j <= Len(deltas) THEN deltas[j] ELSE g]
           Above(j) == IF j <= number THEN deltafunctionsaux[j] ELSE g
           terms(i) == [j \in 1..columns |-> Above(j) * weights[i][j]]
           slope(i) == ActivationFunctionDerivativeCalculation(value[L][i])
           delta == [i \in 1..lines |-> Sum(terms(i), columns) * slope(i)]
<1>1. Descend(delta) /\ live' = live - FreeMatrix + (1 + Size(L - 1))
  BY <1>b DEF HiddenLayer, Size
<1>2. \A j \in 1..Size(L + 1) : Above(j) \in Int
  <2>1. \A j \in 1..Size(L + 1) : j <= number => Above(j) = deltas[j]
    BY <1>d, <1>f, <1>h
  <2>2. \A j \in 1..Size(L + 1) : ~(j <= number) => Above(j) = g
    BY <1>d, <1>f, <1>h
  <2> HIDE DEF Above
  <2> QED BY <1>g, <2>1, <2>2
<1>3. ~Narrows => \A j \in 1..Size(L + 1) : Above(j) = deltas[j]
  <2> SUFFICES ASSUME ~Narrows, NEW j \in 1..Size(L + 1) PROVE Above(j) = deltas[j]
    OBVIOUS
  <2>1. Size(L + 1) <= number
    <3>1. CASE L = Depth - 1
      <4>1. L + 1 = Depth
        BY <1>a, <3>1
      <4> QED BY <1>d, <1>f, <3>1, <4>1
    <3>2. CASE L # Depth - 1
      <4>1. L + 1 \in 3..(Depth - 1) /\ (L + 1) - 1 = L
        BY <1>a, <1>c, <3>2
      <4>2. ~(Size(L) < Size(L + 1))
        BY <4>1 DEF Narrows, Size
      <4> QED BY <1>d, <1>f, <3>2, <4>2
    <3> QED BY <3>1, <3>2
  <2> QED BY <1>d, <1>f, <1>h, <2>1
<1> HIDE DEF Above
<1>4. \A i \in Neurons(L) : terms(i) \in [1..Size(L + 1) -> Int]
  <2>1. \A i \in Neurons(L), j \in 1..Size(L + 1) : Above(j) * weights[i][j] \in Int
    BY <1>2, <1>j DEF Neurons, Size
  <2> QED BY <1>f, <2>1
<1>5. \A i \in Neurons(L) : Sum(terms(i), Size(L + 1)) \in Int
  <2> SUFFICES ASSUME NEW i \in Neurons(L) PROVE Sum(terms(i), Size(L + 1)) \in Int
    OBVIOUS
  <2>1. terms(i) \in [1..Size(L + 1) -> Int]
    BY <1>4
  <2> HIDE DEF terms
  <2> QED BY <1>d, <2>1, SumIsInt
<1>6. \A i \in Neurons(L) : /\ slope(i) = IF value[L][i] > 0 THEN 1 ELSE 0
                            /\ delta[i] = Sum(terms(i), Size(L + 1)) * slope(i)
  <2>1. Neurons(L) = 1..lines
    BY <1>e DEF Neurons, Size
  <2>2. \A i \in 1..lines : delta[i] = Sum(terms(i), columns) * slope(i)
    BY Zenon
  <2> HIDE DEF delta, terms
  <2> QED BY <1>f, <2>1, <2>2 DEF ActivationFunctionDerivativeCalculation
<1>7. delta \in [Neurons(L) -> Int]
  <2>1. \A i \in Neurons(L) : delta[i] \in Int
    <3> HIDE DEF delta, terms
    <3> SUFFICES ASSUME NEW i \in Neurons(L) PROVE delta[i] \in Int
      OBVIOUS
    <3>1. slope(i) \in Int
      BY <1>6
    <3> HIDE DEF slope
    <3> QED BY <1>5, <1>6, <3>1
  <2>2. DOMAIN delta = Neurons(L) /\ delta = [i \in Neurons(L) |-> delta[i]]
    <3>1. Neurons(L) = 1..lines
      BY <1>e DEF Neurons, Size
    <3>2. delta = [i \in 1..lines |-> delta[i]]
      BY Zenon
    <3> QED BY <3>1, <3>2, Zenon
  <2> HIDE DEF delta
  <2> QED BY <2>1, <2>2
<1>8. ~Narrows => \A i \in Neurons(L) : Sum(terms(i), Size(L + 1)) * Alpha = HandedDown(L, i)
  <2> SUFFICES ASSUME ~Narrows, NEW i \in Neurons(L)
               PROVE  Sum(terms(i), Size(L + 1)) * Alpha = HandedDown(L, i)
    OBVIOUS
  <2> DEFINE handed == [j \in Neurons(L + 1) |-> Moved(L + 1, j) * weight[L + 1][j][i]]
  <2>1. \A j \in 1..Size(L + 1) :
          /\ terms(i)[j] = deltas[j] * weights[i][j]
          /\ handed[j] = (deltas[j] * Alpha) * weights[i][j]
          /\ deltas[j] \in Int /\ weights[i][j] \in Int
    <3> SUFFICES ASSUME NEW j \in 1..Size(L + 1)
                 PROVE  /\ terms(i)[j] = deltas[j] * weights[i][j]
                        /\ handed[j] = (deltas[j] * Alpha) * weights[i][j]
                        /\ deltas[j] \in Int /\ weights[i][j] \in Int
      OBVIOUS
    <3>1. j \in Neurons(L + 1)
      BY DEF Neurons, Size
    <3>2. deltas[j] \in Int /\ weights[i][j] \in Int /\ weights[i][j] = weight[L + 1][j][i]
          /\ Moved(L + 1, j) = deltas[j] * Alpha
      BY <1>g, <1>j, <3>1
    <3>3. terms(i)[j] = deltas[j] * weights[i][j]
      BY <1>3, <1>f
    <3> QED BY <3>1, <3>2, <3>3
  <2>2. \A j \in 1..Size(L + 1) : handed[j] = terms(i)[j] * Alpha /\ handed[j] \in Int
    <3> HIDE DEF terms, handed
    <3> SUFFICES ASSUME NEW j \in 1..Size(L + 1)
                 PROVE  handed[j] = terms(i)[j] * Alpha /\ handed[j] \in Int
      OBVIOUS
    <3>1. /\ terms(i)[j] = deltas[j] * weights[i][j]
          /\ handed[j] = (deltas[j] * Alpha) * weights[i][j]
          /\ deltas[j] \in Int /\ weights[i][j] \in Int
      BY <2>1
    <3>2. (deltas[j] * Alpha) * weights[i][j] = (deltas[j] * weights[i][j]) * Alpha
      BY <3>1
    <3>3. (deltas[j] * weights[i][j]) * Alpha \in Int
      BY <3>1
    <3> QED BY <3>1, <3>2, <3>3
  <2>3. handed \in [1..Size(L + 1) -> Int]
    <3>1. Neurons(L + 1) = 1..Size(L + 1)
      BY DEF Neurons, Size
    <3>2. handed = [j \in Neurons(L + 1) |-> handed[j]]
      BY Zenon
    <3> HIDE DEF handed
    <3> QED BY <2>2, <3>1, <3>2
  <2>4. HandedDown(L, i) = Sum(handed, Size(L + 1))
    BY DEF HandedDown, Size
  <2>5. terms(i) \in [1..Size(L + 1) -> Int]
    BY <1>4
  <2> HIDE DEF terms, handed
  <2>6. Sum(handed, Size(L + 1)) = Sum(terms(i), Size(L + 1)) * Alpha
    BY <1>d, <2>2, <2>3, <2>5, SumScales
  <2> QED BY <2>4, <2>6
<1> HIDE DEF terms
<1>9. ~Narrows =>
        \A i \in Neurons(L) : delta[i] * Alpha = IF value[L][i] > 0 THEN HandedDown(L, i) ELSE 0
  <2> SUFFICES ASSUME ~Narrows, NEW i \in Neurons(L)
               PROVE  delta[i] * Alpha = IF value[L][i] > 0 THEN HandedDown(L, i) ELSE 0
    OBVIOUS
  <2> HIDE DEF delta, slope
  <2>1. delta[i] = Sum(terms(i), Size(L + 1)) * (IF value[L][i] > 0 THEN 1 ELSE 0)
    BY <1>6
  <2>2. Sum(terms(i), Size(L + 1)) \in Int
    BY <1>5
  <2>3. Sum(terms(i), Size(L + 1)) * Alpha = HandedDown(L, i)
    BY <1>8
  <2> QED BY <2>1, <2>2, <2>3
<1> HIDE DEF delta
<1>10. PICK d \in [Neurons(L) -> Int] : d = delta
  BY <1>7
<1>11. live' \in Int
  BY <1>1, <1>d, <1>e DEF FreeMatrix
<1>12. outside' \subseteq {"copied", "used"}
  BY <1>a DEF HiddenLayer, SgdTypeOK
<1>13. Descend(d)
  BY <1>1, <1>10
<1> QED BY <1>9, <1>10, <1>11, <1>12, <1>13, <1>a, <1>b, <1>c, DescendStep

\* What is said of the layers that are done holds as long as the network stands.
LEMMA ChainStands ==
  ASSUME ChainInv, UNCHANGED <<net, regularization, weight, bias, value, layer>>
  PROVE  ChainInv'
PROOF
<1>1. /\ Depth' = Depth /\ (\A l : Neurons(l)' = Neurons(l)) /\ Narrows' = Narrows
      /\ (\A l, i : Moved(l, i)' = Moved(l, i)) /\ (\A l, i : HandedDown(l, i)' = HandedDown(l, i))
      /\ (\A w : Reg(w)' = Reg(w))
  <2>1. Depth' = Depth /\ (\A l : Neurons(l)' = Neurons(l)) /\ Narrows' = Narrows
    BY DEF Depth, Neurons, Narrows
  <2>2. \A l, i : Moved(l, i)' = Moved(l, i)
    BY DEF Moved
  <2>3. \A l, i : HandedDown(l, i)' = HandedDown(l, i)
    <3> SUFFICES ASSUME NEW l, NEW i PROVE HandedDown(l, i)' = HandedDown(l, i)
      OBVIOUS
    <3> QED BY HandedDownStands
  <2>4. \A w : Reg(w)' = Reg(w)
    BY DEF Reg, StochasticGradientDescentCalculation, Sign
  <2> QED BY <2>1, <2>2, <2>3, <2>4
<1>2. FromLabels' <=> FromLabels
  BY <1>1 DEF FromLabels
<1>3. \A l : FromAbove(l)' <=> FromAbove(l)
  BY <1>1 DEF FromAbove
<1>4. \A l : Stepped(l)' <=> Stepped(l)
  BY <1>1 DEF Stepped
<1> QED BY <1>1, <1>2, <1>3, <1>4 DEF ChainInv

LEMMA ReturnChain ==
  ASSUME SgdInv, MemoryInv', Return
  PROVE  SgdInv'
PROOF
<1>1. /\ layer = 1 /\ lines > 0 /\ live' = live - FreeMatrix - 1 /\ lines' = 0
      /\ UNCHANGED <<net, input, kind, regularization, weight, bias, value, layer, outside>>
  BY DEF Return
<1>2. Depth' = Depth /\ (\A l : Neurons(l)' = Neurons(l)) /\ \A l, i : Moved(l, i)' = Moved(l, i)
  BY <1>1 DEF Depth, Neurons, Moved
<1>3. lines \in Nat /\ live \in Int
  BY DEF SgdInv, SgdTypeOK, MemoryInv, BlocksInv
<1>4. SgdTypeOK'
  <2>1. live' \in Int
    BY <1>1, <1>3 DEF FreeMatrix
  <2> QED BY <1>1, <1>2, <2>1 DEF SgdTypeOK, SgdInv
<1>5. ValuesInv' /\ MovesInv'
  BY <1>1, <1>2 DEF ValuesInv, MovesInv, SgdInv
<1>6. ChainInv'
  BY <1>1, ChainStands DEF SgdInv
<1> QED BY <1>4, <1>5, <1>6 DEF SgdInv

LEMMA SgdStep == SgdInv /\ [SgdNext]_sgdVars => SgdInv'
PROOF
<1> SUFFICES ASSUME SgdInv, [SgdNext]_sgdVars PROVE SgdInv'
  OBVIOUS
<1>1. MemoryInv'
  BY MemoryStep DEF SgdInv
<1>2. CASE UNCHANGED sgdVars
  <2>1. ChainInv'
    BY <1>2, ChainStands DEF SgdInv, sgdVars
  <2>2. SgdTypeOK'
    BY <1>2 DEF SgdInv, SgdTypeOK, sgdVars, Depth, Neurons
  <2>3. ValuesInv'
    BY <1>2 DEF SgdInv, ValuesInv, sgdVars, Depth, Neurons
  <2>4. MovesInv'
    BY <1>2 DEF SgdInv, MovesInv, sgdVars, Depth, Neurons, Moved
  <2> QED BY <1>1, <2>1, <2>2, <2>3, <2>4 DEF SgdInv
<1> QED BY <1>1, <1>2, FeedStep, LastLayerChain, HiddenLayerChain, ReturnChain DEF SgdNext

LEMMA ChainIsFollowed == SgdInv => DeltasFollowTheChain
PROOF
<1> SUFFICES ASSUME SgdInv, layer = 1, ~Narrows PROVE DeltasFollowTheChain
  BY DEF DeltasFollowTheChain, Trained
<1>1. Depth \in Nat /\ Depth > 1
  BY DEF SgdInv, MemoryInv, ShapeInv
<1>2. FromLabels /\ (\A l \in 2..(Depth - 1) : FromAbove(l)) /\ \A l \in 2..Depth : Stepped(l)
  BY <1>1 DEF SgdInv, ChainInv
<1> QED BY <1>2 DEF DeltasFollowTheChain, FromLabels, FromAbove, Stepped, Reg

\* What a sample works with has its type throughout, for networks of every shape.
THEOREM SgdTypeCorrect == SgdSpec => []SgdTypeOK
PROOF
<1>1. SgdInv => SgdTypeOK
  BY DEF SgdInv
<1> QED BY <1>1, SgdInitial, SgdStep, PTL DEF SgdSpec

\* Every layer takes its deltas from those of the layer above with the weights it has
\* by then, for networks of every depth in which no hidden layer is smaller than the
\* hidden layer above it, and for whatever is found outside the blocks.
THEOREM DeltasAreTheChain == SgdSpec => []DeltasFollowTheChain
PROOF BY SgdInitial, SgdStep, ChainIsFollowed, PTL DEF SgdSpec

-----------------------------------------------------------------------------
(* The hidden neuron of the FPGA.                                          *)

\* Z is enabled while the inputs are counted.  In a feedforward that is whole, index is
\* as many edges further on as Z has been enabled for.
ControlInv ==
  /\ feedforward = 1 => z_counter = 0
  /\ feedforward = 2 => enable_Z = 1
  /\ index = 0 => Z = 0
  /\ whole /\ feedforward # 2 => enable_Z = 0
  /\ whole /\ ~simulated =>
       index = (begin + (IF feedforward = 2 THEN z_counter ELSE 1)) % (NUM_INPUTS + 1)

\* What is read is the weight at the address: in the FPGA while nothing is written, in a
\* simulator from the edge that moves the address for a feedforward.
LatchInv ==
  write_enable = 0 /\ (~simulated \/ (feedforward # 0 /\ ~careless)) =>
    MEM_OUT = Read(mem, data_counter)

\* With a careful driver only the weight at the address is behind, until it is written.
WeightsInv ==
  ~careless =>
    /\ write_enable = 0 \/ backpropagation = 0 => mem = expected
    /\ write_enable = 1 => /\ data_counter \in Address
                           /\ MEM_OUT + Step * Input[data_counter] = expected[data_counter]
                           /\ \A d \in Address \ {data_counter} : mem[d] = expected[d]

\* The first n products that Z adds to nothing.
Partial(ahead, n) ==
  IF ahead THEN IF n = 0 THEN 0 ELSE expected[0] * Input[0] + WeightedInputs(expected)[n - 1]
  ELSE WeightedInputs(expected)[n]

\* A feedforward that began with an empty accumulator, edge by edge.
Sums(ahead, n) ==
  /\ due = ReLU(Partial(ahead, NUM_INPUTS) + Bias)
  /\ z_counter < NUM_INPUTS => data_counter = z_counter
  /\ n <= NUM_INPUTS => index = n /\ Z = Partial(ahead, n)
  /\ n > NUM_INPUTS => /\ index = n - (NUM_INPUTS + 1)
                       /\ Z_RELU = Partial(ahead, NUM_INPUTS) + Bias

Careful == whole /\ begin = 0 /\ ~careless

SumInv ==
  Careful /\ feedforward = 2 =>
    /\ write_enable = 0 \/ z_counter = 0
    /\ write_enable = 0 => Sums(FALSE, z_counter) \/ Sums(TRUE, z_counter + 1)

\* What such a feedforward has given stays until the next one.
AnswerInv ==
  /\ Careful /\ feedforward = 3 => ReLU(Z_RELU) = due
  /\ Careful /\ feedforward \in {0, 1} => a = due

NeuronInv == NeuronTypeOK /\ updates \in Nat /\ ControlInv /\ LatchInv /\ WeightsInv /\ SumInv
               /\ AnswerInv

-----------------------------------------------------------------------------
LEMMA NeuronConstants ==
  /\ NUM_INPUTS \in Nat /\ 1 < NUM_INPUTS /\ AddressSpace \in Nat /\ NUM_INPUTS <= AddressSpace
  /\ Bias \in Int /\ Step \in Int /\ Unknown \in Int /\ Input \in [Address -> Int]
BY NeuronAssumption DEF Address

LEMMA NeuronTypes ==
  ASSUME NeuronTypeOK
  PROVE  /\ write_enable \in 0..1 /\ enable_Z \in 0..1 /\ deltafunction \in 0..1
         /\ backpropagation \in 0..1 /\ feedforward \in 0..3
         /\ data_counter \in 0..AddressSpace /\ z_counter \in 0..(NUM_INPUTS + 1)
         /\ index \in 0..NUM_INPUTS /\ begin \in 0..NUM_INPUTS
         /\ mem \in [Address -> Int] /\ expected \in [Address -> Int] /\ due \in Int
         /\ MEM_OUT \in Int /\ Z \in Int /\ Z_RELU \in Int /\ a \in Int /\ weight_out \in Int
         /\ simulated \in BOOLEAN /\ whole \in BOOLEAN /\ careless \in BOOLEAN
BY DEF NeuronTypeOK

\* The remainder goes on by one and comes round.
LEMMA NextRemainder ==
  ASSUME NEW k \in Nat, NEW m \in Nat \ {0}
  PROVE  (k + 1) % m = IF k % m = m - 1 THEN 0 ELSE (k % m) + 1
PROOF
<1>1. \A q \in Nat, r \in 0..(m - 1) : (m * q + r) % m = r
  OBVIOUS
<1> DEFINE q == k \div m
           r == k % m
<1>2. q \in Nat /\ r \in 0..(m - 1) /\ k = m * q + r
  OBVIOUS
<1> HIDE DEF q, r
<1>3. CASE r = m - 1
  <2>1. k + 1 = m * (q + 1) + 0
    BY <1>2, <1>3
  <2>2. (m * (q + 1) + 0) % m = 0
    BY <1>1, <1>2
  <2> QED BY <1>3, <2>1, <2>2 DEF r
<1>4. CASE r # m - 1
  <2>1. k + 1 = m * q + (r + 1) /\ r + 1 \in 0..(m - 1)
    BY <1>2, <1>4
  <2>2. (m * q + (r + 1)) % m = r + 1
    BY <1>1, <1>2, <2>1
  <2> QED BY <1>4, <2>1, <2>2 DEF r
<1> QED BY <1>3, <1>4

LEMMA OneTurn ==
  ASSUME NEW k \in Nat, NEW m \in Nat \ {0}
  PROVE  (k + m) % m = k % m
PROOF
<1>1. \A q \in Nat, r \in 0..(m - 1) : (m * q + r) % m = r
  OBVIOUS
<1> DEFINE q == k \div m
           r == k % m
<1>2. q \in Nat /\ r \in 0..(m - 1) /\ k = m * q + r
  OBVIOUS
<1> HIDE DEF q, r
<1>3. k + m = m * (q + 1) + r
  BY <1>2
<1>4. (m * (q + 1) + r) % m = r
  BY <1>1, <1>2
<1> QED BY <1>3, <1>4 DEF r

LEMMA SumOfInputs ==
  ASSUME NEW w \in [Address -> Int]
  PROVE  /\ WeightedInputs(w)[0] = 0
         /\ \A n \in 0..(NUM_INPUTS - 1) :
              WeightedInputs(w)[n + 1] = WeightedInputs(w)[n] + w[n] * Input[n]
         /\ \A n \in 0..NUM_INPUTS : WeightedInputs(w)[n] \in Int
PROOF
<1> DEFINE N == NUM_INPUTS
           s == WeightedInputs(w)
           advance == [x \in (1..N) \X Int |-> x[2] + w[x[1] - 1] * Input[x[1] - 1]]
<1>1. N \in Nat /\ N > 0 /\ \A n \in 1..N : w[n - 1] * Input[n - 1] \in Int
  <2>1. \A n \in 1..N : w[n - 1] \in Int /\ Input[n - 1] \in Int
    BY NeuronConstants DEF Address
  <2> QED BY <2>1, NeuronConstants
<1> HIDE DEF N
<1>2. advance \in [(1..N) \X Int -> Int]
  BY <1>1
<1>3. \A k \in 1..N, v \in Int : advance[<<k, v>>] = v + w[k - 1] * Input[k - 1]
  OBVIOUS
<1> HIDE DEF advance
<1>4. PICK f \in Recursions(Int, 0, N, advance) : TRUE
  <2>1. 0 \in Int
    OBVIOUS
  <2> QED BY <1>1, <1>2, <2>1, RecursionExists
<1>5. f = [n \in 0..N |-> IF n = 0 THEN 0 ELSE f[n - 1] + w[n - 1] * Input[n - 1]]
  <2>1. ASSUME NEW k \in 1..N PROVE f[k] = f[k - 1] + w[k - 1] * Input[k - 1]
    <3>1. k - 1 \in 0..N /\ f[k - 1] \in Int
      BY <1>1 DEF Recursions
    <3>2. advance[<<k, f[k - 1]>>] = f[k - 1] + w[k - 1] * Input[k - 1]
      BY <1>3, <3>1
    <3> QED BY <1>4, <3>2 DEF Recursions
  <2> QED BY <1>1, <1>4, <2>1 DEF Recursions
<1>6. s = [n \in 0..N |-> IF n = 0 THEN 0 ELSE s[n - 1] + w[n - 1] * Input[n - 1]]
  BY <1>5, Zenon DEF WeightedInputs, N
<1> HIDE DEF s
<1>7. s[0] = 0 /\ \A n \in 1..N : s[n] = s[n - 1] + w[n - 1] * Input[n - 1]
  BY <1>1, <1>6
<1>8. \A n \in 0..N : s[n] \in Int
  <2> DEFINE S == {n \in 0..N : s[n] \in Int}
  <2>1. 0 \in S
    BY <1>1, <1>7
  <2>2. \A k \in 1..N : k - 1 \in S => k \in S
    BY <1>1, <1>7
  <2> HIDE DEF S
  <2>3. 0..N \subseteq S
    BY <1>1, <2>1, <2>2, BoundedInduction
  <2> QED BY <2>3 DEF S
<1>9. ASSUME NEW n \in 0..(N - 1) PROVE s[n + 1] = s[n] + w[n] * Input[n]
  <2>1. n + 1 \in 1..N /\ (n + 1) - 1 = n
    BY <1>1
  <2> QED BY <1>7, <2>1
<1> QED BY <1>7, <1>8, <1>9 DEF s, N

-----------------------------------------------------------------------------
(* What an edge does to the accumulator and to the memory.                 *)

LEMMA EdgeTypes ==
  ASSUME NeuronInv, NEW ahead \in BOOLEAN, Clock(ahead), data_counter' \in 0..AddressSpace
  PROVE  /\ mem' \in [Address -> Int] /\ MEM_OUT' \in Int /\ Z' \in Int /\ Z_RELU' \in Int
         /\ index' \in 0..NUM_INPUTS /\ (index' = 0 => Z' = 0) /\ simulated' = simulated
PROOF
<1> USE NeuronConstants, NeuronTypes DEF NeuronInv
<1>1. MUX_OUT \in Int
  BY DEF MUX_OUT
<1>2. MEM_OUT * MUX_OUT \in Int /\ Step * MUX_OUT \in Int
  BY <1>1
<1>3. \/ UNCHANGED zVars
      \/ index < NUM_INPUTS /\ Z' = Z + MEM_OUT * MUX_OUT /\ index' = index + 1 /\ Z_RELU' = Z_RELU
      \/ index = NUM_INPUTS /\ Z_RELU' = Z + Bias /\ Z' = 0 /\ index' = 0
  <2>1. index < NUM_INPUTS \/ index = NUM_INPUTS
    OBVIOUS
  <2>2. NUM_INPUTS \in Nat /\ (index = NUM_INPUTS => ~(index < NUM_INPUTS))
    OBVIOUS
  <2> DEFINE on == IF ahead THEN enable_Z' ELSE enable_Z
  <2>3. IF on = 0 THEN UNCHANGED zVars
        ELSE IF index < NUM_INPUTS
             THEN Z' = Z + MEM_OUT * MUX_OUT /\ index' = index + 1 /\ UNCHANGED Z_RELU
             ELSE Z_RELU' = Z + Bias /\ Z' = 0 /\ index' = 0
    BY Zenon DEF Clock, ZEdge
  <2> HIDE DEF on
  <2> QED BY <2>1, <2>2, <2>3, Zenon
<1>4. Z' \in Int /\ Z_RELU' \in Int /\ index' \in 0..NUM_INPUTS /\ (index' = 0 => Z' = 0)
  BY <1>2, <1>3 DEF zVars, ControlInv
<1> DEFINE at == IF ahead THEN data_counter' ELSE data_counter
<1>5. mem' = mem \/ (at \in Address /\ mem' = [mem EXCEPT ![at] = MEM_OUT + Step * MUX_OUT])
  <2> DEFINE written == IF ahead THEN write_enable' ELSE write_enable
  <2>1. mem' = IF written = 1 /\ at \in Address
               THEN [mem EXCEPT ![at] = MEM_OUT + Step * MUX_OUT] ELSE mem
    BY DEF Clock, MemoryEdge
  <2> HIDE DEF at, written
  <2> QED BY <2>1
<1>6. mem' \in [Address -> Int]
  <2> HIDE DEF at
  <2> QED BY <1>2, <1>5
<1>7. MEM_OUT' = Read(mem', data_counter') \/ MEM_OUT' = MEM_OUT
  BY DEF Clock, MemoryEdge
<1>8. MEM_OUT' \in Int
  BY <1>6, <1>7 DEF Read
<1> QED BY <1>4, <1>6, <1>8 DEF Clock

LEMMA AccumulatorStands ==
  ASSUME NEW ahead \in BOOLEAN, Clock(ahead), enable_Z = 0, ahead => enable_Z' = 0
  PROVE  UNCHANGED zVars
BY DEF Clock, ZEdge

LEMMA AccumulatorGoesOn ==
  ASSUME NeuronInv, NEW ahead \in BOOLEAN, Clock(ahead),
         ahead => enable_Z' = 1, ~ahead => enable_Z = 1
  PROVE  \/ index < NUM_INPUTS /\ Z' = Z + MEM_OUT * MUX_OUT /\ index' = index + 1 /\ Z_RELU' = Z_RELU
         \/ index = NUM_INPUTS /\ Z_RELU' = Z + Bias /\ Z' = 0 /\ index' = 0
BY NeuronConstants, NeuronTypes DEF NeuronInv, Clock, ZEdge

LEMMA MemoryStands ==
  ASSUME NEW ahead \in BOOLEAN, Clock(ahead), write_enable = 0, ahead => write_enable' = 0
  PROVE  mem' = mem
BY DEF Clock, MemoryEdge

\* The weight at the address, written again and again, comes to the same.
LEMMA MemoryIsWritten ==
  ASSUME NeuronInv, NEW ahead \in BOOLEAN, Clock(ahead), write_enable = 1, ~careless,
         UNCHANGED data_counter, ahead => write_enable' = 1
  PROVE  mem' = expected
PROOF
<1> USE NeuronTypes DEF NeuronInv
<1>1. /\ data_counter \in Address /\ MEM_OUT + Step * Input[data_counter] = expected[data_counter]
      /\ \A d \in Address \ {data_counter} : mem[d] = expected[d]
  BY DEF WeightsInv
<1>2. mem' = [mem EXCEPT ![data_counter] = MEM_OUT + Step * Input[data_counter]]
  BY <1>1 DEF Clock, MemoryEdge, MUX_OUT
<1>3. mem \in [Address -> Int] /\ expected \in [Address -> Int]
  OBVIOUS
<1>4. DOMAIN mem' = Address /\ \A d \in Address : mem'[d] = expected[d]
  BY <1>1, <1>2, <1>3
<1> QED BY <1>2, <1>3, <1>4

\* An edge that moves no address.
LEMMA AddressStands ==
  ASSUME NeuronInv, NEW ahead \in BOOLEAN, Clock(ahead),
         UNCHANGED <<data_counter, write_enable, expected>>, careless' = careless,
         feedforward' # 0 => feedforward # 0
  PROVE  WeightsInv' /\ LatchInv' /\ (~careless /\ write_enable = 0 => mem' = mem)
PROOF
<1> USE NeuronConstants, NeuronTypes DEF NeuronInv
<1>1. write_enable = 0 => mem' = mem
  BY MemoryStands
<1>2. ~careless => mem' = expected
  BY <1>1, MemoryIsWritten DEF WeightsInv
<1>3. write_enable = 1 => MEM_OUT' = MEM_OUT
  BY DEF Clock, MemoryEdge
<1>4. WeightsInv'
  BY <1>2, <1>3 DEF WeightsInv
<1>5. LatchInv'
  <2>1. CASE ~simulated
    BY <2>1 DEF Clock, MemoryEdge, LatchInv
  <2>2. CASE simulated
    <3>1. write_enable = 0 => mem' = mem /\ MEM_OUT' = MEM_OUT
      BY <1>1, <2>2 DEF Clock, MemoryEdge
    <3> QED BY <2>2, <3>1 DEF LatchInv, Clock, Read
  <2> QED BY <2>1, <2>2
<1> QED BY <1>1, <1>4, <1>5

\* An edge that moves one.
LEMMA AddressMoves ==
  ASSUME NeuronInv, NEW ahead \in BOOLEAN, Clock(ahead), NEW d \in 0..AddressSpace,
         data_counter' = d, UNCHANGED <<write_enable, expected>>,
         careless' = (careless \/ IsWrongMove(d))
  PROVE  /\ WeightsInv' /\ LatchInv'
         /\ careless' \in BOOLEAN /\ (careless => careless')
         /\ ~careless' => ~careless /\ write_enable = 0 /\ mem' = mem /\ MEM_OUT' = Read(mem, d)
PROOF
<1> USE NeuronConstants, NeuronTypes DEF NeuronInv
<1>1. /\ careless' \in BOOLEAN /\ (careless => careless')
      /\ ~careless' => ~careless /\ write_enable # 1 /\ (d # data_counter \/ MEM_OUT = Read(mem, d))
  BY Zenon DEF IsWrongMove
<1>2. write_enable = 0 => mem' = mem
  BY MemoryStands
<1>3. ~careless' => MEM_OUT' = Read(mem, d)
  BY <1>1, <1>2 DEF Clock, MemoryEdge
<1>4. WeightsInv'
  BY <1>1, <1>2 DEF WeightsInv
<1>5. LatchInv'
  <2>1. CASE ~simulated
    BY <2>1 DEF Clock, MemoryEdge, LatchInv
  <2>2. CASE ~careless'
    BY <1>1, <1>2, <1>3, <2>2 DEF LatchInv, Read
  <2> QED BY <2>1, <2>2 DEF LatchInv, Clock
<1> QED BY <1>1, <1>2, <1>3, <1>4, <1>5

-----------------------------------------------------------------------------
LEMMA NeuronInitial == NeuronInit => NeuronInv
PROOF
<1> SUFFICES ASSUME NeuronInit PROVE NeuronInv
  OBVIOUS
<1> USE NeuronConstants DEF NeuronInit
<1>1. mem \in [Address -> Int] /\ MEM_OUT \in Int
  BY DEF Read
<1>2. NeuronTypeOK
  <2>1. careless \in BOOLEAN /\ whole \in BOOLEAN /\ simulated \in BOOLEAN
    BY Zenon
  <2>2. data_counter \in 0..AddressSpace
    OBVIOUS
  <2> QED BY <1>1, <2>1, <2>2 DEF NeuronTypeOK
<1>3. ControlInv /\ LatchInv /\ WeightsInv /\ SumInv /\ AnswerInv
  BY DEF ControlInv, LatchInv, WeightsInv, SumInv, AnswerInv, Careful
<1> QED BY <1>2, <1>3 DEF NeuronInv

LEMMA InitialiseStep ==
  ASSUME NeuronInv, NEW ahead \in Orders, Initialise(ahead)
  PROVE  NeuronInv'
PROOF
<1> USE NeuronConstants, NeuronTypes DEF NeuronInv
<1>1. /\ feedforward = 0 /\ data_counter' = 0 /\ z_counter' = 0 /\ feedforward' = 1
      /\ careless' = (careless \/ IsWrongMove(0)) /\ (whole' <=> whole) /\ whole' \in BOOLEAN
      /\ UNCHANGED <<write_enable, enable_Z, deltafunction, backpropagation, a, weight_out,
                     begin, due, updates, expected>>
      /\ Clock(ahead) /\ ahead \in BOOLEAN
  BY Zenon DEF Initialise, Drives, updateVars, Orders
<1>2. WeightsInv' /\ LatchInv' /\ careless' \in BOOLEAN /\ (careless => careless')
  BY <1>1, AddressMoves
<1>3. /\ mem' \in [Address -> Int] /\ MEM_OUT' \in Int /\ Z' \in Int /\ Z_RELU' \in Int
      /\ index' \in 0..NUM_INPUTS /\ (index' = 0 => Z' = 0) /\ simulated' = simulated
  BY <1>1, EdgeTypes
<1>4. NeuronTypeOK'
  BY <1>1, <1>2, <1>3 DEF NeuronTypeOK
<1>5. whole' => enable_Z = 0 /\ UNCHANGED zVars
  BY <1>1, AccumulatorStands DEF ControlInv
<1>6. ControlInv'
  BY <1>1, <1>3, <1>5 DEF ControlInv, zVars
<1>7. SumInv' /\ AnswerInv'
  BY <1>1, <1>2 DEF SumInv, AnswerInv, Careful
<1> QED BY <1>1, <1>2, <1>4, <1>6, <1>7

LEMMA EnableZStep ==
  ASSUME NeuronInv, NEW ahead \in Orders, EnableZ(ahead)
  PROVE  NeuronInv'
PROOF
<1> USE NeuronConstants, NeuronTypes DEF NeuronInv
<1>1. /\ feedforward = 1 /\ enable_Z' = 1 /\ feedforward' = 2 /\ begin' = index
      /\ due' = ReLU(Summed(expected, ahead) + Bias)
      /\ UNCHANGED <<write_enable, data_counter, z_counter, deltafunction, backpropagation, a,
                     weight_out, updates, expected, careless>>
      /\ Clock(ahead) /\ z_counter = 0
  BY DEF EnableZ, updateVars, ControlInv
<1>2. /\ (whole' => enable_Z = 0 /\ data_counter = 0) /\ whole' \in BOOLEAN
      /\ ahead \in BOOLEAN /\ (~simulated => ~ahead)
  BY Zenon DEF EnableZ, Orders
<1>3. WeightsInv' /\ LatchInv' /\ (~careless /\ write_enable = 0 => mem' = mem)
  BY <1>1, <1>2, AddressStands
<1>4. /\ mem' \in [Address -> Int] /\ MEM_OUT' \in Int /\ Z' \in Int /\ Z_RELU' \in Int
      /\ index' \in 0..NUM_INPUTS /\ (index' = 0 => Z' = 0) /\ simulated' = simulated
  BY <1>1, <1>2, EdgeTypes
<1>5. /\ WeightedInputs(expected)[0] = 0 /\ expected[0] * Input[0] \in Int
      /\ \A n \in 0..NUM_INPUTS : WeightedInputs(expected)[n] \in Int
  <2>1. expected[0] \in Int /\ Input[0] \in Int
    BY DEF Address
  <2> QED BY <2>1, SumOfInputs
<1>6. Summed(expected, ahead) = Partial(ahead, NUM_INPUTS) /\ Partial(ahead, NUM_INPUTS) \in Int
  BY <1>2, <1>5 DEF Summed, Partial
<1>7. due' \in Int
  BY <1>1, <1>6 DEF ReLU
<1>8. NeuronTypeOK'
  BY <1>1, <1>2, <1>4, <1>7 DEF NeuronTypeOK
<1>9. whole' /\ ~ahead => UNCHANGED zVars
  BY <1>1, <1>2, AccumulatorStands
<1>10. ControlInv'
  <2>1. index % (NUM_INPUTS + 1) = index
    OBVIOUS
  <2>2. whole' /\ ~simulated' => index' = (begin' + z_counter') % (NUM_INPUTS + 1)
    BY <1>1, <1>2, <1>4, <1>9, <2>1 DEF zVars
  <2> QED BY <1>1, <1>4, <2>2 DEF ControlInv
<1>11. SumInv'
  <2> SUFFICES ASSUME Careful', write_enable = 0
               PROVE  Sums(FALSE, z_counter)' \/ Sums(TRUE, z_counter + 1)'
    BY <1>1 DEF SumInv
  <2>1. ~careless /\ index = 0 /\ Z = 0 /\ data_counter = 0 /\ enable_Z = 0 /\ mem' = expected
    BY <1>1, <1>2, <1>3 DEF Careful, ControlInv, WeightsInv
  <2>2. WeightedInputs(expected)' = WeightedInputs(expected) /\ expected' = expected
    BY <1>1 DEF WeightedInputs
  <2>3. CASE ~ahead
    <3>1. due' = ReLU(Partial(FALSE, NUM_INPUTS) + Bias)
      BY <1>1, <1>5, <2>3 DEF Summed, Partial
    <3>2. Partial(FALSE, 0) = 0
      BY <1>5 DEF Partial
    <3>3. UNCHANGED <<Z, index>>
      BY <1>2, <1>9, <2>3, Zenon DEF zVars, Careful
    <3> QED BY <1>1, <1>5, <2>1, <2>2, <3>1, <3>2, <3>3 DEF Sums, Partial
  <2>4. CASE ahead
    <3>1. due' = ReLU(Partial(TRUE, NUM_INPUTS) + Bias)
      BY <1>1, <1>5, <2>4 DEF Summed, Partial
    <3>2. MEM_OUT = expected[0] /\ MUX_OUT = Input[0]
      <4>1. 0 \in Address /\ mem = expected /\ MEM_OUT = Read(mem, 0)
        BY <1>1, <2>1 DEF LatchInv, WeightsInv, Address
      <4> QED BY <2>1, <4>1 DEF Read, MUX_OUT
    <3>3. Z' = Z + MEM_OUT * MUX_OUT /\ index' = 1
      <4>1. \/ index < NUM_INPUTS /\ Z' = Z + MEM_OUT * MUX_OUT /\ index' = index + 1
            \/ index = NUM_INPUTS
        BY <1>1, <1>2, <2>4, AccumulatorGoesOn
      <4> QED BY <2>1, <4>1
    <3>4. Partial(TRUE, 1) = expected[0] * Input[0]
      BY <1>5 DEF Partial
    <3>5. Z' = Partial(TRUE, 1)
      <4>1. \A x \in Int : 0 + x = x
        OBVIOUS
      <4>2. Z' = 0 + expected[0] * Input[0]
        BY <2>1, <3>2, <3>3, Zenon
      <4> QED BY <1>5, <3>4, <4>1, <4>2, Zenon
    <3> QED BY <1>1, <1>5, <2>1, <2>2, <3>1, <3>3, <3>5 DEF Sums, Partial
  <2> QED BY <2>3, <2>4
<1>12. AnswerInv'
  BY <1>1 DEF AnswerInv
<1> QED BY <1>1, <1>3, <1>8, <1>10, <1>11, <1>12

\* An edge of the feedforward that counts, and the one after the last input.
LEMMA CountInputsStep ==
  ASSUME NeuronInv, NEW ahead \in Orders, CountInputs(ahead)
  PROVE  NeuronInv'
PROOF
<1> USE NeuronConstants, NeuronTypes DEF NeuronInv
<1>1. /\ feedforward = 2 /\ enable_Z = 1 /\ Clock(ahead) /\ ahead \in BOOLEAN
      /\ UNCHANGED <<write_enable, deltafunction, backpropagation, a, weight_out, updates, expected>>
  BY DEF CountInputs, updateVars, ControlInv, Orders
<1>2. z_counter <= NUM_INPUTS =>
        /\ z_counter' = z_counter + 1 /\ data_counter' = NextAddress
        /\ careless' = (careless \/ IsWrongMove(NextAddress))
        /\ (whole' <=> whole) /\ whole' \in BOOLEAN /\ UNCHANGED <<begin, due>>
        /\ enable_Z' = 1 /\ feedforward' = 2
  <2> SUFFICES ASSUME z_counter <= NUM_INPUTS
               PROVE  /\ z_counter' = z_counter + 1 /\ data_counter' = NextAddress
                      /\ careless' = (careless \/ IsWrongMove(NextAddress))
                      /\ (whole' <=> whole) /\ whole' \in BOOLEAN /\ UNCHANGED <<begin, due>>
                      /\ enable_Z' = 1 /\ feedforward' = 2
    OBVIOUS
  <2>1. z_counter' = z_counter + 1 /\ data_counter' = NextAddress /\ Drives({}, IsWrongMove(NextAddress))
        /\ UNCHANGED <<enable_Z, feedforward>>
    BY DEF CountInputs, KeepsCounting
  <2>2. /\ careless' = (careless \/ IsWrongMove(NextAddress))
        /\ (whole' <=> whole) /\ whole' \in BOOLEAN /\ UNCHANGED <<begin, due>>
    BY <2>1, Zenon DEF Drives
  <2> QED BY <1>1, <2>1, <2>2
<1>3. z_counter > NUM_INPUTS =>
        /\ z_counter' = z_counter /\ data_counter' = data_counter
        /\ UNCHANGED <<begin, whole, due, careless>>
        /\ enable_Z' = 0 /\ feedforward' = 3 /\ z_counter = NUM_INPUTS + 1
  BY DEF CountInputs, KeepsCounting, driverVars
<1>4. NextAddress \in 0..AddressSpace
  BY DEF NextAddress
<1>5. WeightsInv' /\ LatchInv' /\ careless' \in BOOLEAN /\ (careless => careless')
      /\ (z_counter <= NUM_INPUTS /\ ~careless' =>
            write_enable = 0 /\ mem' = mem /\ MEM_OUT' = Read(mem, NextAddress))
      /\ (z_counter > NUM_INPUTS /\ ~careless' => (write_enable = 0 => mem' = mem))
  <2>1. CASE z_counter <= NUM_INPUTS
    BY <1>1, <1>2, <1>4, <2>1, AddressMoves
  <2>2. CASE z_counter > NUM_INPUTS
    BY <1>1, <1>3, <2>2, AddressStands
  <2> QED BY <2>1, <2>2
<1>6. /\ mem' \in [Address -> Int] /\ MEM_OUT' \in Int /\ Z' \in Int /\ Z_RELU' \in Int
      /\ index' \in 0..NUM_INPUTS /\ (index' = 0 => Z' = 0) /\ simulated' = simulated
      /\ data_counter' \in 0..AddressSpace
  BY <1>1, <1>2, <1>3, <1>4, EdgeTypes
<1>7. NeuronTypeOK'
  BY <1>1, <1>2, <1>3, <1>5, <1>6 DEF NeuronTypeOK
<1>8. ControlInv'
  <2> SUFFICES ASSUME whole', ~simulated
               PROVE  index' = (begin' + (IF feedforward' = 2 THEN z_counter' ELSE 1)) % (NUM_INPUTS + 1)
    BY <1>1, <1>2, <1>3, <1>6 DEF ControlInv
  <2>1. ~ahead
    BY Zenon DEF Orders
  <2>2. index' = (IF index = NUM_INPUTS THEN 0 ELSE index + 1)
    BY <1>1, <2>1, AccumulatorGoesOn
  <2>3. whole /\ begin' = begin /\ index = (begin + z_counter) % (NUM_INPUTS + 1)
    <3>1. z_counter <= NUM_INPUTS \/ z_counter > NUM_INPUTS
      OBVIOUS
    <3>2. whole /\ begin' = begin
      BY <1>2, <1>3, <3>1, Zenon
    <3> QED BY <1>1, <3>2, Zenon DEF ControlInv
  <2>4. index' = (begin + z_counter + 1) % (NUM_INPUTS + 1)
    <3> DEFINE k == begin + z_counter
               m == NUM_INPUTS + 1
    <3>1. k \in Nat /\ m \in Nat \ {0} /\ m - 1 = NUM_INPUTS
      OBVIOUS
    <3> HIDE DEF k, m
    <3>2. (k + 1) % m = IF k % m = m - 1 THEN 0 ELSE (k % m) + 1
      BY <3>1, NextRemainder
    <3> QED BY <2>2, <2>3, <3>1, <3>2 DEF k, m
  <2>5. CASE z_counter <= NUM_INPUTS
    <3>1. begin + z_counter + 1 = begin' + z_counter'
      BY <1>2, <2>3, <2>5
    <3> QED BY <1>2, <2>4, <2>5, <3>1
  <2>6. CASE z_counter > NUM_INPUTS
    <3>1. (begin + 1 + (NUM_INPUTS + 1)) % (NUM_INPUTS + 1) = (begin + 1) % (NUM_INPUTS + 1)
      <4>1. begin + 1 \in Nat /\ NUM_INPUTS + 1 \in Nat \ {0}
        OBVIOUS
      <4> QED BY <4>1, OneTurn
    <3>2. begin + z_counter + 1 = begin + 1 + (NUM_INPUTS + 1)
      BY <1>3, <2>6
    <3> QED BY <1>3, <2>3, <2>4, <2>6, <3>1, <3>2
  <2> QED BY <2>5, <2>6
<1>9. Careful' => Careful
  <2>1. UNCHANGED begin /\ (whole' => whole)
    BY <1>2, <1>3
  <2> QED BY <1>5, <2>1 DEF Careful
<1>10. WeightedInputs(expected)' = WeightedInputs(expected) /\ expected' = expected
  BY <1>1 DEF WeightedInputs
<1>11. ASSUME Careful', z_counter <= NUM_INPUTS PROVE SumInv'
  <2>1. Careful /\ write_enable = 0 /\ mem = expected /\ MEM_OUT = Read(mem, data_counter)
    BY <1>1, <1>5, <1>9, <1>11 DEF WeightsInv, LatchInv, Careful
  <2>2. Sums(FALSE, z_counter) \/ Sums(TRUE, z_counter + 1)
    BY <1>1, <2>1 DEF SumInv
  <2>3. z_counter < NUM_INPUTS =>
          /\ data_counter = z_counter
          /\ MEM_OUT * MUX_OUT = expected[z_counter] * Input[z_counter]
          /\ WeightedInputs(expected)[z_counter + 1]
               = WeightedInputs(expected)[z_counter] + expected[z_counter] * Input[z_counter]
          /\ expected[z_counter] * Input[z_counter] \in Int
    <3> SUFFICES ASSUME z_counter < NUM_INPUTS
                 PROVE  /\ data_counter = z_counter
                        /\ MEM_OUT * MUX_OUT = expected[z_counter] * Input[z_counter]
                        /\ WeightedInputs(expected)[z_counter + 1]
                             = WeightedInputs(expected)[z_counter] + expected[z_counter] * Input[z_counter]
                        /\ expected[z_counter] * Input[z_counter] \in Int
      OBVIOUS
    <3>1. data_counter = z_counter /\ z_counter \in Address
      <4>1. ASSUME NEW early, NEW n, Sums(early, n) PROVE data_counter = z_counter
        BY <4>1 DEF Sums
      <4>2. data_counter = z_counter
        BY <2>2, <4>1, Zenon
      <4>3. z_counter \in Address
        BY DEF Address
      <4> QED BY <4>2, <4>3
    <3>2. MEM_OUT = expected[z_counter] /\ MUX_OUT = Input[z_counter]
      BY <2>1, <3>1 DEF Read, MUX_OUT
    <3>3. z_counter \in 0..(NUM_INPUTS - 1)
      OBVIOUS
    <3>4. expected[z_counter] \in Int /\ Input[z_counter] \in Int
      BY <3>1
    <3> QED BY <3>1, <3>2, <3>3, <3>4, SumOfInputs
  <2>4. z_counter + 1 < NUM_INPUTS => data_counter' = z_counter + 1
    BY <1>2, <1>11, <2>3 DEF NextAddress
  <2>5. \A k \in 0..NUM_INPUTS : WeightedInputs(expected)[k] \in Int
    BY SumOfInputs
  <2>6. \/ index < NUM_INPUTS /\ Z' = Z + MEM_OUT * MUX_OUT /\ index' = index + 1 /\ Z_RELU' = Z_RELU
        \/ index = NUM_INPUTS /\ Z_RELU' = Z + Bias /\ Z' = 0 /\ index' = 0
    BY <1>1, <1>2, <1>11, AccumulatorGoesOn
  <2>7. /\ z_counter' = z_counter + 1 /\ due' = due
        /\ z_counter' < NUM_INPUTS => data_counter' = z_counter'
    BY <1>2, <1>11, <2>4
  <2>8. expected[0] * Input[0] \in Int
    <3>1. expected[0] \in Int /\ Input[0] \in Int
      BY DEF Address
    <3> QED BY <3>1
  <2>9. CASE Sums(FALSE, z_counter)
    <3>1. z_counter < NUM_INPUTS => Z' = WeightedInputs(expected)[z_counter + 1] /\ index' = z_counter + 1
      BY <2>3, <2>6, <2>9 DEF Sums, Partial
    <3>2. z_counter = NUM_INPUTS =>
            index' = 0 /\ Z_RELU' = WeightedInputs(expected)[NUM_INPUTS] + Bias
      BY <2>6, <2>9 DEF Sums, Partial
    <3>3. due = ReLU(WeightedInputs(expected)[NUM_INPUTS] + Bias)
      BY <2>9 DEF Sums, Partial
    <3>4. Sums(FALSE, z_counter)'
      BY <1>10, <1>11, <2>7, <3>1, <3>2, <3>3 DEF Sums, Partial
    <3> QED BY <1>1, <2>1, <3>4 DEF SumInv
  <2>10. CASE Sums(TRUE, z_counter + 1)
    <3>1. z_counter + 1 # 0 /\ (z_counter + 1) - 1 = z_counter
      OBVIOUS
    <3>2. z_counter + 1 < NUM_INPUTS =>
            Z' = expected[0] * Input[0] + WeightedInputs(expected)[z_counter + 1] /\ index' = z_counter + 2
      <4> SUFFICES ASSUME z_counter + 1 < NUM_INPUTS
                   PROVE  /\ Z' = expected[0] * Input[0] + WeightedInputs(expected)[z_counter + 1]
                          /\ index' = z_counter + 2
        OBVIOUS
      <4>1. index = z_counter + 1 /\ Z = expected[0] * Input[0] + WeightedInputs(expected)[z_counter]
        BY <2>10, <3>1 DEF Sums, Partial
      <4>2. /\ Z' = Z + expected[z_counter] * Input[z_counter] /\ index' = z_counter + 2
            /\ WeightedInputs(expected)[z_counter + 1]
                 = WeightedInputs(expected)[z_counter] + expected[z_counter] * Input[z_counter]
            /\ expected[z_counter] * Input[z_counter] \in Int
        BY <2>3, <2>6, <4>1
      <4>3. WeightedInputs(expected)[z_counter] \in Int
        BY <2>5
      <4> QED BY <2>8, <4>1, <4>2, <4>3
    <3>3. z_counter + 1 = NUM_INPUTS =>
            /\ index' = 0
            /\ Z_RELU' = expected[0] * Input[0] + WeightedInputs(expected)[NUM_INPUTS - 1] + Bias
      BY <2>6, <2>10, <3>1 DEF Sums, Partial
    <3>4. z_counter = NUM_INPUTS =>
            /\ index' = 1
            /\ Z_RELU' = expected[0] * Input[0] + WeightedInputs(expected)[NUM_INPUTS - 1] + Bias
      <4> SUFFICES ASSUME z_counter = NUM_INPUTS
                   PROVE  /\ index' = 1
                          /\ Z_RELU' = expected[0] * Input[0] + WeightedInputs(expected)[NUM_INPUTS - 1] + Bias
        OBVIOUS
      <4>1. index = 0 /\ Z_RELU = expected[0] * Input[0] + WeightedInputs(expected)[NUM_INPUTS - 1] + Bias
        BY <2>10, <3>1 DEF Sums, Partial
      <4> QED BY <2>6, <4>1
    <3>5. due = ReLU(expected[0] * Input[0] + WeightedInputs(expected)[NUM_INPUTS - 1] + Bias)
      BY <2>10 DEF Sums, Partial
    <3>6. (z_counter + 1 + 1) - 1 = z_counter + 1 /\ z_counter + 1 + 1 = z_counter + 2
      OBVIOUS
    <3>7. Sums(TRUE, z_counter + 1)'
      BY <1>10, <1>11, <2>7, <3>2, <3>3, <3>4, <3>5, <3>6 DEF Sums, Partial
    <3> QED BY <1>1, <2>1, <3>7 DEF SumInv
  <2> QED BY <2>2, <2>9, <2>10
<1>12. SumInv'
  <2>1. CASE z_counter > NUM_INPUTS
    BY <1>3, <2>1 DEF SumInv
  <2>2. CASE ~Careful'
    BY <2>2 DEF SumInv
  <2> QED BY <1>11, <2>1, <2>2
<1>13. ASSUME Careful', z_counter > NUM_INPUTS PROVE ReLU(Z_RELU') = due'
  <2>1. Careful /\ write_enable = 0 /\ z_counter = NUM_INPUTS + 1
    BY <1>1, <1>3, <1>9, <1>13 DEF SumInv
  <2>2. Sums(FALSE, NUM_INPUTS + 1) \/ Sums(TRUE, NUM_INPUTS + 2)
    <3>1. NUM_INPUTS + 1 + 1 = NUM_INPUTS + 2
      OBVIOUS
    <3> QED BY <1>1, <2>1, <3>1 DEF SumInv
  <2>3. due = ReLU(Z_RELU) /\ index < NUM_INPUTS
    <3>1. ASSUME NEW early, NEW n \in {NUM_INPUTS + 1, NUM_INPUTS + 2}, Sums(early, n)
          PROVE  due = ReLU(Z_RELU) /\ index < NUM_INPUTS
      BY <3>1 DEF Sums
    <3> QED BY <2>2, <3>1
  <2>4. Z_RELU' = Z_RELU
    BY <1>1, <2>3 DEF Clock, ZEdge, zVars
  <2> QED BY <1>3, <1>13, <2>3, <2>4
<1>14. AnswerInv'
  BY <1>2, <1>3, <1>13 DEF AnswerInv
<1> QED BY <1>1, <1>5, <1>7, <1>8, <1>12, <1>14

LEMMA ActivateStep ==
  ASSUME NeuronInv, NEW ahead \in Orders, Activate(ahead)
  PROVE  NeuronInv'
PROOF
<1> USE NeuronConstants, NeuronTypes DEF NeuronInv
<1>1. /\ feedforward = 3 /\ a' = ReLU(Z_RELU) /\ feedforward' = 0
      /\ UNCHANGED <<write_enable, data_counter, enable_Z, z_counter, deltafunction, backpropagation,
                     weight_out, begin, whole, due, careless, updates, expected>>
      /\ Clock(ahead) /\ ahead \in BOOLEAN
  BY DEF Activate, RELU_OUT, driverVars, updateVars, Orders
<1>2. WeightsInv' /\ LatchInv'
  BY <1>1, AddressStands
<1>3. /\ mem' \in [Address -> Int] /\ MEM_OUT' \in Int /\ Z' \in Int /\ Z_RELU' \in Int
      /\ index' \in 0..NUM_INPUTS /\ (index' = 0 => Z' = 0) /\ simulated' = simulated
  BY <1>1, EdgeTypes
<1>4. NeuronTypeOK'
  BY <1>1, <1>3 DEF NeuronTypeOK, ReLU
<1>5. whole => enable_Z = 0 /\ UNCHANGED zVars
  BY <1>1, AccumulatorStands DEF ControlInv
<1>6. ControlInv'
  BY <1>1, <1>3, <1>5 DEF ControlInv, zVars
<1>7. SumInv' /\ AnswerInv'
  BY <1>1 DEF SumInv, AnswerInv, Careful
<1> QED BY <1>1, <1>2, <1>4, <1>6, <1>7

\* What the driver does besides a feedforward: if it breaks one off, that is not whole.
LEMMA OtherStep ==
  ASSUME NeuronInv, NEW ahead \in BOOLEAN, Clock(ahead),
         feedforward' \in {0, feedforward},
         whole' \in BOOLEAN, careless' \in BOOLEAN, careless => careless',
         whole' => whole /\ feedforward # 2 /\ (feedforward = 3 => feedforward' = 3),
         data_counter' \in 0..AddressSpace, write_enable' \in 0..1,
         deltafunction' \in 0..1, backpropagation' \in 0..1, weight_out' \in Int,
         updates' \in Nat, expected' \in [Address -> Int],
         UNCHANGED <<enable_Z, z_counter, a, begin, due>>,
         WeightsInv', LatchInv'
  PROVE  NeuronInv'
PROOF
<1> USE NeuronConstants, NeuronTypes DEF NeuronInv
<1>1. /\ mem' \in [Address -> Int] /\ MEM_OUT' \in Int /\ Z' \in Int /\ Z_RELU' \in Int
      /\ index' \in 0..NUM_INPUTS /\ (index' = 0 => Z' = 0) /\ simulated' = simulated
  BY EdgeTypes
<1>2. NeuronTypeOK'
  BY <1>1 DEF NeuronTypeOK
<1>3. whole' => enable_Z = 0 /\ UNCHANGED zVars
  BY AccumulatorStands DEF ControlInv
<1>4. ControlInv'
  BY <1>1, <1>3 DEF ControlInv, zVars
<1>5. Careful' => Careful /\ feedforward # 2 /\ UNCHANGED <<Z_RELU, a, due>>
  BY <1>3, Zenon DEF Careful, zVars
<1>6. Careful' => feedforward' # 2 /\ (feedforward' = 3 => feedforward = 3)
                  /\ (feedforward' \in {0, 1} => feedforward \in {0, 1})
  <2>1. Careful' => whole'
    BY DEF Careful
  <2> QED BY <2>1
<1>7. SumInv' /\ AnswerInv'
  BY <1>5, <1>6 DEF SumInv, AnswerInv
<1> QED BY <1>2, <1>4, <1>7

LEMMA SetAddressStep ==
  ASSUME NeuronInv, NEW d \in Address, NEW ahead \in Orders, SetAddress(d, ahead)
  PROVE  NeuronInv'
PROOF
<1> USE NeuronConstants, NeuronTypes DEF NeuronInv
<1>1. /\ data_counter' = d /\ deltafunction' = 1 /\ Clock(ahead) /\ ahead \in BOOLEAN
      /\ careless' = (careless \/ IsWrongMove(d))
      /\ (whole' <=> whole /\ feedforward \notin {2}) /\ whole' \in BOOLEAN
      /\ UNCHANGED <<write_enable, enable_Z, z_counter, feedforward, backpropagation, a, weight_out,
                     begin, due, updates, expected>>
  BY Zenon DEF SetAddress, Drives, updateVars, Orders
<1>2. d \in 0..AddressSpace
  BY DEF Address
<1>3. WeightsInv' /\ LatchInv' /\ careless' \in BOOLEAN /\ (careless => careless')
  BY <1>1, <1>2, AddressMoves
<1> QED BY <1>1, <1>2, <1>3, OtherStep

\* The second edge of an operation on the memory, and an edge that is none's.
LEMMA StandingStep ==
  ASSUME NeuronInv, NEW ahead \in Orders, Clock(ahead), Drives({2}, FALSE),
         weight_out' \in Int, deltafunction' \in 0..1, backpropagation' \in 0..1,
         UNCHANGED <<write_enable, data_counter, enable_Z, z_counter, feedforward, a, updateVars>>
  PROVE  NeuronInv'
PROOF
<1> USE NeuronConstants, NeuronTypes DEF NeuronInv
<1>1. /\ careless' = careless /\ ahead \in BOOLEAN
      /\ (whole' <=> whole /\ feedforward \notin {2}) /\ whole' \in BOOLEAN
      /\ UNCHANGED <<begin, due, updates, expected>>
  <2>1. (careless' <=> careless) /\ careless' \in BOOLEAN
    BY Zenon DEF Drives
  <2>2. /\ ahead \in BOOLEAN
        /\ (whole' <=> whole /\ feedforward \notin {2}) /\ whole' \in BOOLEAN
        /\ UNCHANGED <<begin, due, updates, expected>>
    BY Zenon DEF Drives, updateVars, Orders
  <2> QED BY <2>1, <2>2
<1>2. WeightsInv' /\ LatchInv'
  BY <1>1, AddressStands
<1> QED BY <1>1, <1>2, OtherStep

\* The weight of the address that is read is the one that is moved.
LEMMA SetWriteAddressStep ==
  ASSUME NeuronInv, NEW d \in Address, NEW ahead \in Orders, SetWriteAddress(d, ahead)
  PROVE  NeuronInv'
PROOF
<1> USE NeuronConstants, NeuronTypes DEF NeuronInv
<1>1. /\ data_counter' = d /\ write_enable' = 1 /\ backpropagation' = 1
      /\ updates' = updates + 1 /\ expected' = [expected EXCEPT ![d] = @ + Step * Input[d]]
      /\ UNCHANGED <<enable_Z, z_counter, feedforward, deltafunction, a, weight_out, begin, due>>
      /\ Clock(ahead) /\ ahead \in BOOLEAN
  BY DEF SetWriteAddress, WriteEnabled, Drives, Orders
<1>2. /\ (whole' <=> whole /\ feedforward \notin {2}) /\ whole' \in BOOLEAN
      /\ careless' \in BOOLEAN /\ (careless => careless')
      /\ ~careless' => ~careless /\ write_enable # 1 /\ d = data_counter
                         /\ (d # data_counter \/ MEM_OUT = Read(mem, d))
  BY Zenon DEF SetWriteAddress, Drives, IsWrongMove
<1>3. ~careless' => write_enable = 0 /\ mem = expected /\ MEM_OUT = mem[d] /\ MUX_OUT = Input[d]
  BY <1>1, <1>2 DEF WeightsInv, Read, MUX_OUT
<1>4. MEM_OUT' = MEM_OUT
  BY <1>1 DEF Clock, MemoryEdge
<1>5. Step * Input[d] \in Int /\ expected' \in [Address -> Int]
  <2>1. Step * Input[d] \in Int
    OBVIOUS
  <2> QED BY <1>1, <2>1
<1>6. ~careless' => mem' \in {expected, [expected EXCEPT ![d] = @ + Step * Input[d]]}
  BY <1>1, <1>2, <1>3 DEF Clock, MemoryEdge
<1>7. WeightsInv'
  BY <1>1, <1>2, <1>3, <1>4, <1>5, <1>6 DEF WeightsInv
<1>8. LatchInv'
  BY <1>1 DEF LatchInv
<1>9. d \in 0..AddressSpace
  BY DEF Address
<1> QED BY <1>1, <1>2, <1>5, <1>7, <1>8, <1>9, OtherStep

\* The idle state writes what there is to write once more, or leaves it at that.
LEMMA IdleStep ==
  ASSUME NeuronInv, NEW ahead \in Orders, Idle(ahead)
  PROVE  NeuronInv'
PROOF
<1> USE NeuronConstants, NeuronTypes DEF NeuronInv
<1>1. /\ feedforward' = 0 /\ deltafunction' = 0 /\ backpropagation' = 0 /\ write_enable' = 0
      /\ UNCHANGED <<data_counter, enable_Z, z_counter, a, weight_out, begin, due, updates, expected>>
      /\ Clock(ahead)
  BY DEF Idle, Drives, updateVars
<1>2. /\ (whole' <=> whole /\ feedforward \notin {2, 3}) /\ whole' \in BOOLEAN
      /\ careless' \in BOOLEAN /\ (careless => careless')
      /\ ~careless' => ~careless /\ (simulated => backpropagation # 1)
      /\ ahead \in BOOLEAN /\ (~simulated => ~ahead)
  BY Zenon DEF Idle, Drives, Orders
<1>3. ~careless' => mem' = expected
  <2> SUFFICES ASSUME ~careless' PROVE mem' = expected
    OBVIOUS
  <2>1. CASE write_enable = 0
    BY <1>1, <1>2, <2>1, MemoryStands DEF WeightsInv
  <2>2. CASE write_enable = 1 /\ ~ahead
    BY <1>1, <1>2, <2>2, MemoryIsWritten
  <2>3. CASE ahead
    BY <1>1, <1>2, <2>3 DEF Clock, MemoryEdge, WeightsInv
  <2> QED BY <2>1, <2>2, <2>3
<1>4. WeightsInv'
  BY <1>1, <1>3 DEF WeightsInv
<1>5. LatchInv'
  BY <1>1 DEF LatchInv, Clock, MemoryEdge
<1> QED BY <1>1, <1>2, <1>4, <1>5, OtherStep

LEMMA NeuronStep == NeuronInv /\ [NeuronNext]_neuronVars => NeuronInv'
PROOF
<1> SUFFICES ASSUME NeuronInv, [NeuronNext]_neuronVars PROVE NeuronInv'
  OBVIOUS
<1> USE NeuronTypes DEF NeuronInv
<1>1. ASSUME NEW ahead \in Orders, ReadWeight(ahead) PROVE NeuronInv'
  <2>1. /\ weight_out' \in Int /\ deltafunction' \in 0..1 /\ backpropagation' \in 0..1
    BY <1>1 DEF ReadWeight
  <2>2. /\ Clock(ahead) /\ Drives({2}, FALSE)
        /\ UNCHANGED <<write_enable, data_counter, enable_Z, z_counter, feedforward, a, updateVars>>
    BY <1>1, Zenon DEF ReadWeight
  <2> HIDE DEF NeuronInv
  <2> QED BY <2>1, <2>2, StandingStep
<1>2. ASSUME NEW ahead \in Orders, WriteWeight(ahead) PROVE NeuronInv'
  <2>1. /\ weight_out' \in Int /\ deltafunction' \in 0..1 /\ backpropagation' \in 0..1
    BY <1>2 DEF WriteWeight
  <2>2. /\ Clock(ahead) /\ Drives({2}, FALSE)
        /\ UNCHANGED <<write_enable, data_counter, enable_Z, z_counter, feedforward, a, updateVars>>
    BY <1>2, Zenon DEF WriteWeight
  <2> HIDE DEF NeuronInv
  <2> QED BY <2>1, <2>2, StandingStep
<1>3. ASSUME NEW ahead \in Orders, Disabled(ahead) PROVE NeuronInv'
  BY <1>3, StandingStep DEF Disabled, stateVars, updateVars
<1>4. CASE UNCHANGED neuronVars
  <2> USE <1>4 DEF neuronVars, memoryVars, zVars, stateVars, driverVars, updateVars
  <2>1. NeuronTypeOK' /\ updates' \in Nat /\ ControlInv' /\ LatchInv' /\ WeightsInv'
    BY DEF NeuronTypeOK, ControlInv, LatchInv, WeightsInv, Read
  <2>2. Careful' = Careful /\ AnswerInv'
    BY DEF Careful, AnswerInv
  <2>3. WeightedInputs(expected)' = WeightedInputs(expected)
    BY DEF WeightedInputs
  <2>4. (Sums(FALSE, z_counter) => Sums(FALSE, z_counter)')
        /\ (Sums(TRUE, z_counter + 1) => Sums(TRUE, z_counter + 1)')
    BY <2>3 DEF Sums, Partial
  <2>5. SumInv'
    BY <2>2, <2>4 DEF SumInv
  <2> QED BY <2>1, <2>2, <2>5
<1>5. CASE NeuronNext
  <2> PICK ahead \in Orders :
        \/ Initialise(ahead) \/ EnableZ(ahead) \/ CountInputs(ahead) \/ Activate(ahead)
        \/ (\E d \in Address : SetAddress(d, ahead) \/ SetWriteAddress(d, ahead))
        \/ ReadWeight(ahead) \/ WriteWeight(ahead) \/ Idle(ahead) \/ Disabled(ahead)
    BY <1>5 DEF NeuronNext
  <2>1. ASSUME NEW d \in Address, SetAddress(d, ahead) \/ SetWriteAddress(d, ahead)
        PROVE  NeuronInv'
    <3> HIDE DEF NeuronInv
    <3> QED BY <2>1, SetAddressStep, SetWriteAddressStep
  <2> HIDE DEF NeuronInv
  <2> QED BY <1>1, <1>2, <1>3, <2>1, InitialiseStep, EnableZStep, CountInputsStep, ActivateStep, IdleStep
<1> QED BY <1>4, <1>5

\* The registers of the neuron and its memory keep their types, whatever it is told.
THEOREM NeuronTypeCorrect == NeuronSpec => []NeuronTypeOK
PROOF
<1>1. NeuronInv => NeuronTypeOK
  BY DEF NeuronInv
<1> QED BY <1>1, NeuronInitial, NeuronStep, PTL DEF NeuronSpec

\* In the FPGA and in a simulator, and wherever the driver breaks off what it has begun:
\* a feedforward that is whole leaves the accumulator one input further on, one that
\* begins with an empty accumulator gives what it should, and a careful driver moves
\* every weight by its own steps.
THEOREM NeuronIsRight == NeuronSpec => []NeuronRunsRight
PROOF
<1>1. NeuronInv => NeuronRunsRight
  <2> SUFFICES ASSUME NeuronInv PROVE NeuronRunsRight
    OBVIOUS
  <2>1. EveryRunLeavesOneInput
    BY DEF NeuronInv, ControlInv, EveryRunLeavesOneInput
  <2>2. AlignedRunIsRight
    <3>1. feedforward \in 0..3
      BY NeuronTypes DEF NeuronInv
    <3> QED BY <3>1 DEF NeuronInv, AnswerInv, AlignedRunIsRight, Careful
  <2>3. UpdatesOwnWeight
    BY DEF NeuronInv, WeightsInv, UpdatesOwnWeight
  <2> QED BY <2>1, <2>2, <2>3 DEF NeuronRunsRight
<1> QED BY <1>1, NeuronInitial, NeuronStep, PTL DEF NeuronSpec

-----------------------------------------------------------------------------
(* The parts of a board side by side. *)

\* What each part keeps.
BoardInv == AliveInv /\ ConfigInv /\ FetchInv /\ SgdInv /\ TrainInv /\ NeuronInv

\* Of the fairness of a part only its steps matter here.
LEMMA BoardSteps == FairBoardSpec => InitBoard /\ [][NextBoard]_boardVars
PROOF BY DEF FairBoardSpec

LEMMA BoardInitial == InitBoard => BoardInv
PROOF BY AliveInitial, ConfigInitial, FetchInitial, SgdInitial, TrainInitial, NeuronInitial
      DEF InitBoard, BoardInv

\* A step of the board is one of the part that was chosen, and none of the others.
LEMMA PartSteps ==
  [NextBoard]_boardVars =>
    /\ [AliveNext]_kaVars /\ [ConfigNext]_cfgVars /\ [FetchNext]_fetchVars
    /\ [SgdNext]_sgdVars /\ [TrainNext]_trainVars /\ [NeuronNext]_neuronVars
PROOF BY Zenon DEF NextBoard, Only, boardVars

LEMMA BoardStep == BoardInv /\ [NextBoard]_boardVars => BoardInv'
PROOF
<1> SUFFICES ASSUME BoardInv, [NextBoard]_boardVars PROVE BoardInv'
  OBVIOUS
<1>1. AliveInv /\ ConfigInv /\ FetchInv /\ SgdInv /\ TrainInv /\ NeuronInv
  BY DEF BoardInv
<1>2. AliveInv'
  BY <1>1, PartSteps, TypeStep, PongStep, SilenceStep, StaysStep DEF AliveInv
<1>3. ConfigInv' /\ FetchInv'
  BY <1>1, PartSteps, ConfigStepKeeps, FetchStep
<1>4. SgdInv' /\ TrainInv' /\ NeuronInv'
  BY <1>1, PartSteps, SgdStep, TrainStep, NeuronStep
<1> QED BY <1>2, <1>3, <1>4 DEF BoardInv

\* Whichever part of a board runs, the variables of all of them keep their types: the
\* keep-alive, the configuration of the client, its HTTP client, the training of a
\* sample and of a data set, and the neuron of the FPGA.
THEOREM BoardTypeCorrect == FairBoardSpec => []BoardTypeOK
PROOF
<1>1. BoardInv => BoardTypeOK
  BY DEF BoardInv, BoardTypeOK, AliveInv, ConfigInv, FetchInv, SgdInv, TrainInv, NeuronInv
<1> QED BY <1>1, BoardSteps, BoardInitial, BoardStep, PTL

=============================================================================
