------------------------------- MODULE FedAvg -------------------------------
(***************************************************************************)
(* The arithmetic of AggregationModel: local models are summed, weighted   *)
(* by their training counters, into nodecontrol->neuralnetwork; at the end *)
(* of a round the sum is divided in place, copied to the published model   *)
(* and set to zero for the next round.  Values are exact rationals; a      *)
(* denominator 0 stands for a float that is not a number.                  *)
(***************************************************************************)
EXTENDS Integers, Sequences

CONSTANTS
  Layer,       \* the layers of the network
  Neurons,     \* neurons of each layer
  Models,      \* local models: functions from parameters to integers
  Counters,    \* trainingscounter values of a local model, 0 when its board
               \* has no training file
  InteractionCycle,  \* nodecontrol->interactioncycle
  MaxReceived  \* bound: local models of one round

ASSUME NeuronsAssumption == Neurons \in Nat \ {0}
ASSUME CountersAssumption == Counters \subseteq Nat

VARIABLES
  accumulator,       \* nodecontrol->neuralnetwork
  trainingscounter,  \* sum of the counters of this round
  published,         \* the global model
  currentinteraction,  \* rounds closed
  received,          \* the <<model, counter>> pairs summed in this round
  averaged           \* those of the last round that was closed

avgVars == <<accumulator, trainingscounter, published, currentinteraction,
             received, averaged>>

\* Each neuron is represented by its bias and one of its weights.
Parameter == Layer \X (1..Neurons) \X {"bias", "weight"}

ASSUME ModelsAssumption == Models \subseteq [Parameter -> Int]

Value == [num : Int, den : Nat]
Number(i) == [num |-> i, den |-> 1]
NotANumber == [num |-> 0, den |-> 0]
IsNumber(v) == v.den # 0
Same(v, w) == IsNumber(v) /\ IsNumber(w) /\ v.num * w.den = w.num * v.den

AddScaled(v, w, c) ==
  [num |-> v.num * w.den + w.num * c * v.den, den |-> v.den * w.den]
Divide(v, c) == [v EXCEPT !.den = @ * c]

FederatedAveragingSum(network, model, c) ==
  [p \in Parameter |-> AddScaled(network[p], model[p], c)]

FederatedAveraging(network, c) == [p \in Parameter |-> Divide(network[p], c)]

\* Parameters SetNeuralNetworkZeroWeightValue reaches: every weight, but the
\* bias of the first neuron of a layer only, as the assignment stands before
\* the loop over its neurons.
IsReset(p) == p[3] = "weight" \/ p[2] = 1

\* Slip: the whole bias loop is forgotten.
ZeroWeightsOnly(network) ==
  [p \in Parameter |-> IF p[3] = "weight" THEN Number(0) ELSE network[p]]

SetNeuralNetworkZeroWeightValue(network) ==
  [p \in Parameter |-> IF IsReset(p) THEN Number(0) ELSE network[p]]

\* InitializeNeuralNetWork: zero weights and biases in the accumulator.  The
\* published model starts with random weights, here with one of Models.
AvgInit ==
  /\ accumulator = [p \in Parameter |-> Number(0)]
  /\ trainingscounter = 0
  /\ \E m \in Models : published = [p \in Parameter |-> Number(m[p])]
  /\ currentinteraction = 0
  /\ received = <<>>
  /\ averaged = <<>>

\* A board that trains on a published parameter that is not a number sends one
\* that is none either; a board that still has an older model need not.
LocalModels ==
  {[p \in Parameter |-> Number(m[p])] : m \in Models} \cup
  (IF \A p \in Parameter : IsNumber(published[p]) THEN {}
   ELSE {[p \in Parameter |-> NotANumber]})

\* The model is added to the sum; it is not the last one of its round ...
SumModel(model, c) ==
  /\ accumulator' = FederatedAveragingSum(accumulator, model, c)
  /\ trainingscounter' = trainingscounter + c
  /\ received' = Append(received, <<model, c>>)
  /\ Len(received') < MaxReceived
  /\ UNCHANGED <<published, currentinteraction, averaged>>

\* ... or it is.
CloseRound(model, c) ==
  /\ published' = FederatedAveraging(FederatedAveragingSum(accumulator, model, c),
                                     trainingscounter + c)
  /\ accumulator' = SetNeuralNetworkZeroWeightValue(published')
  /\ trainingscounter' = 0
  /\ currentinteraction' = currentinteraction + 1
  /\ averaged' = Append(received, <<model, c>>)
  /\ received' = <<>>

AvgNext ==
  /\ currentinteraction < InteractionCycle
  /\ \E model \in LocalModels, c \in Counters :
       SumModel(model, c) \/ CloseRound(model, c)

AvgSpec == AvgInit /\ [][AvgNext]_avgVars

-----------------------------------------------------------------------------
AvgTypeOK ==
  /\ accumulator \in [Parameter -> Value]
  /\ trainingscounter \in Nat
  /\ published \in [Parameter -> Value]

\* The sums over the models of a round, up to the nth.
Trainings(round) ==
  LET total[n \in 0..Len(round)] == IF n = 0 THEN 0 ELSE total[n - 1] + round[n][2]
  IN  total
WeightedSums(p, round) ==
  LET sum[n \in 0..Len(round)] ==
        IF n = 0 THEN Number(0) ELSE AddScaled(sum[n - 1], round[n][1][p], round[n][2])
  IN  sum

TotalTrainings(round) == Trainings(round)[Len(round)]
WeightedSum(p, round) == WeightedSums(p, round)[Len(round)]

HasAverage(p) ==
  /\ TotalTrainings(averaged) > 0
  /\ \A i \in DOMAIN averaged : IsNumber(averaged[i][1][p])
AverageOf(p) == Divide(WeightedSum(p, averaged), TotalTrainings(averaged))

\* FedAvg: what the server publishes at the end of a round is the average of
\* the models of that round and of no other, weighted by their trainings, for
\* every weight and every first bias.  Only a round in which nobody trained or
\* somebody's value was no number publishes what is no number, and the next
\* round gets over it.
PublishesWeightedAverage ==
  averaged # <<>> =>
    \A p \in Parameter :
      IsReset(p) => IF HasAverage(p) THEN Same(published[p], AverageOf(p))
                                     ELSE ~IsNumber(published[p])

\* AggregationModel: "set 0 the neural network" after every round.
AccumulatorIsZeroed ==
  received = <<>> => \A p \in Parameter : Same(accumulator[p], Number(0))

=============================================================================
