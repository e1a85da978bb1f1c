--------------------------- MODULE BackPropagation ---------------------------
(***************************************************************************)
(* One sample of the training of a board (federatedlearning.c of the ESP32 *)
(* and, line by line the same, main.c of the stand-alone trainer):         *)
(* FeedFoward, then BackPropagation from the last layer down, with the     *)
(* blocks it keeps the deltas and the weights of the layer above in.       *)
(* Numbers are integers, which Perceptron and ReLU layers and whole        *)
(* learning rates keep them; a value read from outside a block is any of   *)
(* Garbage.                                                                *)
(***************************************************************************)
EXTENDS Integers, Sequences

CONSTANTS
  Networks,   \* what may be trained: neurons of the layers, weights and biases
  Inputs,     \* activations of the first layer, a function of the neuron
  Label,      \* what each output neuron should say, a function of the neuron
  Kinds,      \* activationfunctiontype of the layers: 1 Perceptron, 2 ReLU
  Penalties,  \* neuralnetwork->regularization
  Alpha, Lambda,
  Garbage     \* values found outside a block

ASSUME NumbersAssumption ==
  /\ {Alpha, Lambda} \cup Garbage \subseteq Int /\ Garbage # {}
  /\ Kinds \subseteq 1..2 /\ Penalties \subseteq 0..2
\* A layer has neurons, and there is one above the inputs; a bias and the weights of
\* the layer below belong to every neuron of the others.
ASSUME NetworksAssumption ==
  \A n \in Networks :
    /\ n.shape \in Seq(Nat \ {0}) /\ Len(n.shape) > 1
    /\ DOMAIN n.bias = 2..Len(n.shape) /\ DOMAIN n.weight = 2..Len(n.shape)
    /\ \A l \in 2..Len(n.shape) :
         /\ n.bias[l] \in [1..n.shape[l] -> Int]
         /\ n.weight[l] \in [1..n.shape[l] -> [1..n.shape[l - 1] -> Int]]
\* A sample gives every input neuron a value, and every output neuron a label.
ASSUME SamplesAssumption ==
  \A n \in Networks :
    /\ \A x \in Inputs, i \in 1..n.shape[1] : x[i] \in Int
    /\ \A i \in 1..n.shape[Len(n.shape)] : Label[i] \in Int

VARIABLES
  net,         \* the network before the sample
  input, kind, regularization,
  weight, bias,
  value,       \* activationfunctionvalue
  layer,       \* the layer in turn; 0 before FeedFoward, 1 when it is done
  deltas,      \* deltafunctions
  number,      \* deltafunctionsnumber
  lines, columns, weights,   \* the matrix of the layer above
  live,        \* blocks allocated and not freed
  outside      \* reads outside a block: "copied" into another, or "used"

sgdVars == <<net, input, kind, regularization, weight, bias, value, layer, deltas, number, lines,
             columns, weights, live, outside>>

Depth == Len(net.shape)
Neurons(l) == 1..net.shape[l]
\* What a loop adds up, f of 1 to f of n.
Sum(f, n) == LET sum[k \in 0..n] == IF k = 0 THEN 0 ELSE sum[k - 1] + f[k] IN sum[n]

SgdInit ==
  /\ net \in Networks /\ input \in Inputs /\ kind \in Kinds /\ regularization \in Penalties
  /\ weight = net.weight /\ bias = net.bias
  /\ value = <<>> /\ layer = 0
  /\ deltas = <<>> /\ number = 0 /\ lines = 0 /\ columns = 0 /\ weights = <<>>
  /\ live = 0 /\ outside = {}

-----------------------------------------------------------------------------
ActivationFunctionCalculaton(z) == IF z <= 0 THEN 0 ELSE IF kind = 1 THEN 1 ELSE z

\* Slip: the layer below is taken for active where it is not.
AlwaysActive(a) == 1

ActivationFunctionDerivativeCalculation(a) == IF a > 0 THEN 1 ELSE 0

\* The activations of a layer, from those of the layer below.
ActivationsAbove(l, below) ==
  [i \in Neurons(l) |->
     ActivationFunctionCalculaton(
       bias[l][i] + Sum([j \in Neurons(l - 1) |-> weight[l][i][j] * below[j]], net.shape[l - 1]))]

Activations[l \in 1..Depth] ==
  IF l = 1 THEN [i \in Neurons(1) |-> input[i]] ELSE ActivationsAbove(l, Activations[l - 1])

FeedFoward ==
  /\ layer = 0
  /\ value' = Activations
  /\ layer' = Depth
  /\ UNCHANGED <<net, input, kind, regularization, weight, bias, deltas, number, lines, columns,
                 weights, live, outside>>

-----------------------------------------------------------------------------
Sign(w) == IF w > 0 THEN 1 ELSE IF w = 0 THEN 0 ELSE -1

StochasticGradientDescentCalculation(w, output, delta) ==
  -Alpha * (delta * output + (CASE regularization = 0 -> 0
                                [] regularization = 1 -> Sign(w)
                                [] regularization = 2 -> 2 * Lambda * w))

WeightsBelow(new) == [j \in Neurons(layer - 1) |-> [i \in Neurons(layer) |-> new[i][j]]]

\* Both halves of the function: bias and weights of the layer in turn are moved by
\* the deltas d, and the new weights are kept for the layer below.
Descend(d) ==
  LET new == [i \in Neurons(layer) |-> [j \in Neurons(layer - 1) |->
                weight[layer][i][j] + StochasticGradientDescentCalculation(
                                        weight[layer][i][j], value[layer - 1][j], d[i])]]
  IN  /\ bias' = [bias EXCEPT ![layer] = [i \in Neurons(layer) |-> @[i] - d[i] * Alpha]]
      /\ weight' = [weight EXCEPT ![layer] = new]
      /\ weights' = WeightsBelow(new)
      /\ deltas' = d
      /\ lines' = net.shape[layer - 1]
      /\ layer' = layer - 1
      /\ UNCHANGED <<net, input, kind, regularization, value>>

LastLayer ==
  /\ layer = Depth
  /\ Descend([i \in Neurons(layer) |-> value[layer][i] - Label[i]])
  /\ number' = net.shape[layer]
  /\ columns' = net.shape[layer]
  /\ live' = 2 + net.shape[layer - 1]
  /\ UNCHANGED outside

\* Slip: the deltas are counted by the layer they belong to.
NumberOfThisLayer == net.shape[layer]

\* deltafunctionsnumber = weightslines, which is the layer below by then.
NumberOfDeltas == net.shape[layer - 1]

\* Blocks freeMatrix frees.
FreeMatrix == 1 + lines

HiddenLayer(g) ==
  /\ layer \in 2..(Depth - 1)
  /\ LET deltafunctionsaux == [j \in 1..number |-> IF j <= Len(deltas) THEN deltas[j] ELSE g]
         Above(j) == IF j <= number THEN deltafunctionsaux[j] ELSE g
         Delta(i) == Sum([j \in 1..columns |-> Above(j) * weights[i][j]], columns)
                       * ActivationFunctionDerivativeCalculation(value[layer][i])
     IN  Descend([i \in 1..lines |-> Delta(i)])
  /\ outside' = outside \cup (IF number > Len(deltas) THEN {"copied"} ELSE {})
                        \cup (IF columns > number THEN {"used"} ELSE {})
  /\ columns' = lines
  /\ number' = NumberOfDeltas
  /\ live' = live - FreeMatrix + (1 + net.shape[layer - 1])

\* The matrix and the deltas are freed.
Return ==
  /\ layer = 1 /\ lines > 0
  /\ live' = live - FreeMatrix - 1
  /\ lines' = 0 /\ columns' = 0 /\ weights' = <<>> /\ deltas' = <<>>
  /\ UNCHANGED <<net, input, kind, regularization, weight, bias, value, layer, number, outside>>

SgdNext == FeedFoward \/ LastLayer \/ (\E g \in Garbage : HiddenLayer(g)) \/ Return

SgdSpec == SgdInit /\ [][SgdNext]_sgdVars

-----------------------------------------------------------------------------
Trained == layer = 1

SgdTypeOK ==
  /\ net \in Networks /\ input \in Inputs /\ kind \in Kinds /\ regularization \in Penalties
  /\ layer \in 0..Depth /\ live \in Int /\ outside \subseteq {"copied", "used"}
  /\ lines > 0 => DOMAIN deltas = Neurons(layer + 1) /\ DOMAIN weights = Neurons(layer)
  /\ DOMAIN bias = 2..Depth /\ DOMAIN weight = 2..Depth
  /\ \A l \in 2..Depth : /\ bias[l] \in [Neurons(l) -> Int]
                         /\ weight[l] \in [Neurons(l) -> [Neurons(l - 1) -> Int]]

\* How far a bias was moved, which is by its delta.
Moved(l, i) == net.bias[l][i] - bias[l][i]

\* What the layer above hands down, over the weights it has by then.
HandedDown(l, i) ==
  Sum([j \in Neurons(l + 1) |-> Moved(l + 1, j) * weight[l + 1][j][i]], net.shape[l + 1])

\* A hidden layer has fewer neurons than the hidden layer above it.
Narrows == \E l \in 3..(Depth - 1) : net.shape[l - 1] < net.shape[l]

\* Every layer takes its deltas from those of the layer above, with the weights
\* that layer has after its own step, as long as no hidden layer has fewer neurons
\* than the hidden layer above it.
DeltasFollowTheChain ==
  LET Reg(w) == StochasticGradientDescentCalculation(w, 0, 0)
  IN  Trained /\ ~Narrows =>
        /\ \A i \in Neurons(Depth) : Moved(Depth, i) = Alpha * (value[Depth][i] - Label[i])
        /\ \A l \in 2..(Depth - 1) : \A i \in Neurons(l) :
             Moved(l, i) = IF value[l][i] > 0 THEN HandedDown(l, i) ELSE 0
        /\ \A l \in 2..Depth : \A i \in Neurons(l), j \in Neurons(l - 1) :
             weight[l][i][j] = net.weight[l][i][j] + Reg(net.weight[l][i][j])
                                 - Moved(l, i) * value[l - 1][j]

\* The deltas are read outside their block exactly when two neighbouring hidden
\* layers differ in size: copied along when the lower one is the larger, and used
\* when it is the smaller.  Three layers, or equal ones, are safe.
OutsideExactly ==
  Trained => \A l \in 3..(Depth - 1) :
    /\ net.shape[l - 1] > net.shape[l] => "copied" \in outside
    /\ net.shape[l - 1] < net.shape[l] => "used" \in outside
    /\ outside # {} => \E m \in 3..(Depth - 1) : net.shape[m - 1] # net.shape[m]

\* A sample leaves no block behind, whatever the sizes.
NoBlockIsLeft == (Trained /\ lines = 0) => live = 0

\* The memory of one sample: which reads leave a block is known from the shape of
\* the network, and no block is left.
MemoryOfDeltas == OutsideExactly /\ NoBlockIsLeft
=============================================================================
