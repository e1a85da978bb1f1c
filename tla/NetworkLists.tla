----------------------------- MODULE NetworkLists -----------------------------
(***************************************************************************)
(* The networks of the server in memory: a network is a list of layers, a  *)
(* layer a list of neurons, a neuron a list of weights, every node with a  *)
(* next and a previous pointer and its parent with a first and a last one. *)
(* InitializeNeuralNetWork and JSONToFederatedLearning build such lists,   *)
(* AggregationModel frees the global one and publishes a copy of the sum.  *)
(* One step is the handling of one node.                                   *)
(***************************************************************************)
EXTENDS Naturals, Sequences, FiniteSets

CONSTANTS
  Shapes,      \* the LayerConfig lists: neurons of each layer
  Rounds,      \* nodecontrol->interactioncycle
  HeapSize     \* bound: nodes in memory

\* A list of one node is a different matter: the copy makes it its own successor.
ASSUME ShapesAssumption ==
  \A s \in Shapes : s \in Seq(Nat \ {0, 1}) /\ Len(s) > 1
ASSUME HeapAssumption == HeapSize \in Nat

VARIABLES
  shape,     \* the one that was configured
  heap,      \* what is at an address
  global,    \* federatedlearninginstance->neuralnetwork
  control,   \* nodecontrol->neuralnetwork
  client,    \* clientmodel->neuralnetwork of the model in work
  doing,     \* the function that runs, and its local variables
  average,   \* what control held when it was averaged
  round,
  misuse     \* a freed node was read, written or freed

listVars == <<shape, heap, global, control, client, doing, average, round, misuse>>

Address == 1..HeapSize
NULL == 0
Freed == [kind |-> "free"]
NewNode(kind, value) == [kind |-> kind, value |-> value, first |-> NULL, last |-> NULL,
                      next |-> NULL, previous |-> NULL]

Allocated == {a \in Address : heap[a] # Freed}
\* An address that is free, as long as there are any.
Room == Allocated # Address
Malloc == CHOOSE a \in Address : heap[a] = Freed

\* Weights of a neuron of layer i: the neurons of the layer before.
WeightsIn(i) == IF i = 1 THEN 0 ELSE shape[i - 1]

Idle == [proc |-> "idle"]
Serving == doing = Idle

InitLists ==
  /\ shape \in Shapes
  /\ heap = [a \in Address |-> Freed]
  /\ global = NULL /\ control = NULL /\ client = NULL
  /\ doing = Idle /\ average = <<>> /\ round = 0 /\ misuse = FALSE

-----------------------------------------------------------------------------
(* Building: every new node is linked to its parent before it is filled.   *)

Link(h, parent, a) ==
  IF h[parent].last = NULL
  THEN [h EXCEPT ![parent].first = a, ![parent].last = a]
  ELSE [h EXCEPT ![h[parent].last].next = a, ![a].previous = h[parent].last,
                 ![parent].last = a]

Grow(parent, kind) ==
  /\ Room
  /\ heap' = Link([heap EXCEPT ![Malloc] = NewNode(kind, 0)], parent, Malloc)

\* getFederatedLearningInstance and setFederatedLearningGlobalModel: the global
\* network first, then the one the local models are summed in.
CreateNetwork ==
  /\ Serving /\ Room /\ (global = NULL \/ control = NULL)
  /\ heap' = [heap EXCEPT ![Malloc] = NewNode("network", 0)]
  /\ IF global = NULL
     THEN global' = Malloc /\ UNCHANGED control
     ELSE control' = Malloc /\ UNCHANGED global
  /\ doing' = [proc |-> "build", network |-> Malloc, layers |-> 0, neurons |-> 0,
               weights |-> 0]
  /\ UNCHANGED <<shape, client, average, round, misuse>>

\* handle_clint_model_message: the model of a board is made a network of its own.
ReceiveModel ==
  /\ Serving /\ Room /\ control # NULL /\ client = NULL /\ round < Rounds
  /\ heap' = [heap EXCEPT ![Malloc] = NewNode("network", 0)]
  /\ client' = Malloc
  /\ doing' = [proc |-> "build", network |-> Malloc, layers |-> 0, neurons |-> 0,
               weights |-> 0]
  /\ UNCHANGED <<shape, global, control, average, round, misuse>>

NeuronIsFull == doing.neurons # 0 => doing.weights = WeightsIn(doing.layers)
LayerIsFull == doing.layers # 0 => doing.neurons = shape[doing.layers] /\ NeuronIsFull

BuildLayer ==
  /\ doing.proc = "build" /\ LayerIsFull /\ doing.layers < Len(shape)
  /\ Grow(doing.network, "layer")
  /\ doing' = [doing EXCEPT !.layers = @ + 1, !.neurons = 0, !.weights = 0]
  /\ UNCHANGED <<shape, global, control, client, average, round, misuse>>

BuildNeuron ==
  /\ doing.proc = "build" /\ doing.layers > 0
  /\ NeuronIsFull /\ doing.neurons < shape[doing.layers]
  /\ Grow(heap[doing.network].last, "neuron")
  /\ doing' = [doing EXCEPT !.neurons = @ + 1, !.weights = 0]
  /\ UNCHANGED <<shape, global, control, client, average, round, misuse>>

BuildWeight ==
  /\ doing.proc = "build" /\ ~NeuronIsFull
  /\ Grow(heap[heap[doing.network].last].last, "weight")
  /\ doing' = [doing EXCEPT !.weights = @ + 1]
  /\ UNCHANGED <<shape, global, control, client, average, round, misuse>>

Built ==
  /\ doing.proc = "build" /\ LayerIsFull /\ doing.layers = Len(shape)
  /\ doing' = Idle
  /\ UNCHANGED <<shape, heap, global, control, client, average, round, misuse>>

-----------------------------------------------------------------------------
(* Walks: the nodes of a list, at most HeapSize of them, and the biases and *)
(* weights of a network.                                                    *)

ListFrom(h, a) ==
  LET from[most \in 0..HeapSize] == [b \in 0..HeapSize |->
        IF b = NULL \/ most = 0 THEN <<>>
        ELSE <<b>> \o (IF h[b] = Freed THEN <<>> ELSE from[most - 1][h[b].next])]
  IN from[HeapSize][a]

ListOf(h, a) == IF h[a] = Freed THEN <<>> ELSE ListFrom(h, h[a].first)

ValuesOf(h, a) == [i \in DOMAIN ListOf(h, a) |-> h[ListOf(h, a)[i]].value]
ContentOf(h, network) ==
  [i \in DOMAIN ListOf(h, network) |->
    LET layer == ListOf(h, network)[i] IN
    [j \in DOMAIN ListOf(h, layer) |->
      LET neuron == ListOf(h, layer)[j] IN <<h[neuron].value, ValuesOf(h, neuron)>>]]

Elements(s) == {s[i] : i \in DOMAIN s}
Below(h, nodes) == UNION {Elements(ListOf(h, a)) : a \in nodes}
NodesOf(h, network) ==
  LET layers == Below(h, {network})
      neurons == Below(h, layers)
  IN {network} \cup layers \cup neurons \cup Below(h, neurons)

-----------------------------------------------------------------------------
(* AggregationModel.                                                        *)

\* FederatedAveragingSum and FederatedAveraging leave a value in every bias and
\* weight of the sum; the model that was summed is not freed.
Average ==
  /\ Serving /\ client # NULL
  /\ LET parameters == {a \in NodesOf(heap, control) : heap[a].kind \in {"neuron", "weight"}}
     IN heap' = [a \in Address |-> IF a \in parameters
                                   THEN [heap[a] EXCEPT !.value = a + HeapSize * round]
                                   ELSE heap[a]]
  /\ average' = ContentOf(heap', control)
  /\ client' = NULL
  /\ doing' = [proc |-> "free", network |-> global, layer |-> heap[global].first,
               neuron |-> NULL, weight |-> NULL, descended |-> FALSE]
  /\ UNCHANGED <<shape, global, control, round, misuse>>

\* The next pointer is read before the node is freed; a node that is free already
\* makes both undefined.
After(a) == IF heap[a] = Freed THEN NULL ELSE heap[a].next
Misuses(a) == misuse' = (misuse \/ heap[a] = Freed)
FreeNode(a) == heap' = [heap EXCEPT ![a] = Freed] /\ Misuses(a)

FreeWeight ==
  /\ doing.proc = "free" /\ doing.weight # NULL
  /\ FreeNode(doing.weight)
  /\ doing' = [doing EXCEPT !.weight = After(doing.weight)]
  /\ UNCHANGED <<shape, global, control, client, average, round>>

FirstOf(a) == IF a = NULL \/ heap[a] = Freed THEN NULL ELSE heap[a].first

\* The layer's neurons come first, each after its weights.
EnterLayer ==
  /\ doing.proc = "free" /\ doing.layer # NULL /\ ~doing.descended
  /\ doing' = [doing EXCEPT !.neuron = FirstOf(doing.layer),
                            !.weight = FirstOf(FirstOf(doing.layer)), !.descended = TRUE]
  /\ Misuses(doing.layer)
  /\ UNCHANGED <<shape, heap, global, control, client, average, round>>

FreeNeuron ==
  /\ doing.proc = "free" /\ doing.descended /\ doing.neuron # NULL /\ doing.weight = NULL
  /\ FreeNode(doing.neuron)
  /\ doing' = [doing EXCEPT !.neuron = After(doing.neuron),
                            !.weight = FirstOf(After(doing.neuron))]
  /\ UNCHANGED <<shape, global, control, client, average, round>>

\* Slip: nextlayer is read after the layer was freed.
FreeLayerFirst ==
  /\ doing.proc = "free" /\ doing.descended /\ doing.neuron = NULL
  /\ heap' = [heap EXCEPT ![doing.layer] = Freed]
  /\ doing' = [doing EXCEPT !.layer = After(doing.layer), !.descended = FALSE]
  /\ misuse' = TRUE
  /\ UNCHANGED <<shape, global, control, client, average, round>>

FreeLayer ==
  /\ doing.proc = "free" /\ doing.descended /\ doing.neuron = NULL
  /\ FreeNode(doing.layer)
  /\ doing' = [doing EXCEPT !.layer = After(doing.layer), !.descended = FALSE]
  /\ UNCHANGED <<shape, global, control, client, average, round>>

\* The network itself goes last, and the copy begins.
FreeNetwork ==
  /\ doing.proc = "free" /\ doing.layer = NULL
  /\ FreeNode(doing.network)
  /\ doing' = [proc |-> "copy", network |-> NULL, layer |-> NULL, neuron |-> NULL,
               currentlayer |-> NULL, currentneuron |-> NULL, currentweight |-> NULL]
  /\ UNCHANGED <<shape, global, control, client, average, round>>

-----------------------------------------------------------------------------
(* Copying: a new node is filled before it is linked to its parent.  The    *)
(* four lines behind the test for the first node run for the first, too.    *)

\* Slip: the first pointer is set for every node that is linked.
LinkCopyOver(h, parent, a) ==
  LET last == IF h[parent].first = NULL THEN a ELSE h[parent].last
  IN [h EXCEPT ![parent].first = a, ![a].next = NULL, ![a].previous = last,
               ![last].next = a, ![parent].last = a]

LinkCopy(h, parent, a) ==
  LET last == IF h[parent].first = NULL THEN a ELSE h[parent].last
  IN [h EXCEPT ![parent].first = IF @ = NULL THEN a ELSE @, ![a].next = NULL,
               ![a].previous = last, ![last].next = a, ![parent].last = a]

CopyNetwork ==
  /\ doing.proc = "copy" /\ Room /\ doing.network = NULL
  /\ heap' = [heap EXCEPT ![Malloc] = NewNode("network", heap[control].value)]
  /\ doing' = [doing EXCEPT !.network = Malloc, !.currentlayer = heap[control].first]
  /\ UNCHANGED <<shape, global, control, client, average, round, misuse>>

CopyLayer ==
  /\ doing.proc = "copy" /\ Room /\ doing.layer = NULL /\ doing.currentlayer # NULL
  /\ heap' = [heap EXCEPT ![Malloc] = NewNode("layer", heap[doing.currentlayer].value)]
  /\ doing' = [doing EXCEPT !.layer = Malloc,
                            !.currentneuron = heap[doing.currentlayer].first]
  /\ UNCHANGED <<shape, global, control, client, average, round, misuse>>

CopyNeuron ==
  /\ doing.proc = "copy" /\ Room /\ doing.layer # NULL /\ doing.neuron = NULL
  /\ doing.currentneuron # NULL
  /\ heap' = [heap EXCEPT ![Malloc] = NewNode("neuron", heap[doing.currentneuron].value)]
  /\ doing' = [doing EXCEPT !.neuron = Malloc,
                            !.currentweight = heap[doing.currentneuron].first]
  /\ UNCHANGED <<shape, global, control, client, average, round, misuse>>

CopyWeight ==
  /\ doing.proc = "copy" /\ Room /\ doing.neuron # NULL /\ doing.currentweight # NULL
  /\ heap' = LinkCopy([heap EXCEPT ![Malloc] = NewNode("weight", heap[doing.currentweight].value)],
                      doing.neuron, Malloc)
  /\ doing' = [doing EXCEPT !.currentweight = heap[doing.currentweight].next]
  /\ UNCHANGED <<shape, global, control, client, average, round, misuse>>

NeuronCopied ==
  /\ doing.proc = "copy" /\ doing.neuron # NULL /\ doing.currentweight = NULL
  /\ heap' = LinkCopy(heap, doing.layer, doing.neuron)
  /\ doing' = [doing EXCEPT !.neuron = NULL, !.currentneuron = heap[doing.currentneuron].next]
  /\ UNCHANGED <<shape, global, control, client, average, round, misuse>>

LayerCopied ==
  /\ doing.proc = "copy" /\ doing.layer # NULL /\ doing.neuron = NULL
  /\ doing.currentneuron = NULL
  /\ heap' = LinkCopy(heap, doing.network, doing.layer)
  /\ doing' = [doing EXCEPT !.layer = NULL, !.currentlayer = heap[doing.currentlayer].next]
  /\ UNCHANGED <<shape, global, control, client, average, round, misuse>>

\* SetNeuralNetworkZeroWeightValue and the next round.
Publish ==
  /\ doing.proc = "copy" /\ doing.network # NULL /\ doing.layer = NULL
  /\ doing.currentlayer = NULL
  /\ global' = doing.network
  /\ heap' = [a \in Address |-> IF a \in NodesOf(heap, control) /\ heap[a].kind = "weight"
                                THEN [heap[a] EXCEPT !.value = 0] ELSE heap[a]]
  /\ doing' = Idle
  /\ round' = round + 1
  /\ UNCHANGED <<shape, control, client, average, misuse>>

Building == BuildLayer \/ BuildNeuron \/ BuildWeight \/ Built
Freeing == EnterLayer \/ FreeWeight \/ FreeNeuron \/ FreeLayer \/ FreeNetwork
Copying == CopyNetwork \/ CopyLayer \/ CopyNeuron \/ CopyWeight \/ NeuronCopied
           \/ LayerCopied \/ Publish

NextLists == CreateNetwork \/ ReceiveModel \/ Average \/ Building \/ Freeing \/ Copying
ListsSpec == InitLists /\ [][NextLists]_listVars

-----------------------------------------------------------------------------
\* Every node is linked to nodes of its own kind, and to those of the kind below
\* it as their parent; what a pointer names has been freed or is such a node.
IsKind(a, kind) == a = NULL \/ heap[a] = Freed \/ heap[a].kind = kind
BelowKind == [network |-> "layer", layer |-> "neuron", neuron |-> "weight", weight |-> "none"]

ListsTypeOK ==
  \A a \in Allocated :
    /\ \A b \in {heap[a].next, heap[a].previous} : IsKind(b, heap[a].kind)
    /\ \A b \in {heap[a].first, heap[a].last} : IsKind(b, BelowKind[heap[a].kind])

\* The network that is published is, bias by bias and weight by weight, what the
\* sum held when AggregationModel divided it: CopyNeuralNetwork neither drops nor
\* repeats nor reorders a node, and its lists end.
PublishedCopyIsExact ==
  Serving /\ round > 0 => ContentOf(heap, global) = average

\* freeNeuralNetwork reads no node it has freed and frees none twice, although
\* every next pointer it follows is in a node it is about to free.
NothingFreedIsUsed == ~misuse

\* Between two models the global network and the sum share no node, and whatever
\* else is allocated belongs to the models the boards have sent: those are never
\* freed (handle_clint_model_message), but AggregationModel leaks nothing of its own.
OnlyClientModelsLeak ==
  Serving /\ client = NULL /\ control # NULL =>
    LET own == NodesOf(heap, global) \cup NodesOf(heap, control)
    IN /\ NodesOf(heap, global) \cap NodesOf(heap, control) = {}
       /\ own \subseteq Allocated
       /\ 2 * Cardinality(Allocated \ own) = round * Cardinality(own)

\* After any number of rounds of free, copy and publish the networks are those they
\* should be, and no others.
NetworksAreWhole == PublishedCopyIsExact /\ OnlyClientModelsLeak
=============================================================================
