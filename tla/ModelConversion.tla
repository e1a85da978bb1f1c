--------------------------- MODULE ModelConversion ---------------------------
(***************************************************************************)
(* JSONConverter.c of the server and of the board: a FederatedLearning     *)
(* becomes a JSON tree for the wire and a new one on the other side, from  *)
(* the server to a board and back.  An item that cannot be allocated is    *)
(* not added, without a word; a number that is not finite is printed as    *)
(* null; and what is not in the tree as it should be is not assigned.      *)
(***************************************************************************)
EXTENDS Integers, Sequences, SequencesExt

CONSTANTS
  Published,    \* global models of the server
  Trained,      \* what a training makes of a weight
  Unset,        \* a model value: what a number in malloc'd memory is
  NotFinite,    \* NaN and the infinities, which an average or a training may come to
  MaxMessages   \* bound: models sent, in either direction

ASSUME MessagesAssumption == MaxMessages \in Nat
ASSUME FiniteAssumption == \A x \in NotFinite : x \notin Int

\* A FederatedLearning; nodecontrol is not converted.  A pointer of malloc'd memory that
\* was not assigned is no field at all.
Learning(status, counter, network) ==
  [globalmodelstatus |-> status, trainingscounter |-> counter, neuralnetwork |-> network]

VARIABLES
  instance,     \* the instance of the server
  local,        \* the instance of the board
  downloaded,   \* what getglobalmodel returned
  message,      \* the tree on its way
  missing,      \* the item of it that was not allocated, None
  origin,       \* the model it was made from
  clientmodel,  \* what the server made of it
  step,         \* whose turn it is
  messages

conversionVars == <<instance, local, downloaded, message, missing, origin, clientmodel, step,
                    messages>>

Place(at, name) == [at |-> at, name |-> name]
None == Place(<<>>, "none")

Settings == {"epoch", "alpha", "regularization", "lambda", "percentualtraining",
             "lossfunctiontype"}

\* The lists of a network, layer by layer and neuron by neuron.
IsList(s) == Len(s) \in Nat /\ s = [i \in 1..Len(s) |-> s[i]]
IsNeuron(n) ==
  /\ n = [neurontype |-> n.neurontype, weights |-> n.weights, bias |-> n.bias,
          weightsArray |-> n.weightsArray]
  /\ IsList(n.weightsArray)
IsLayer(l) ==
  /\ l = [activationfunctiontype |-> l.activationfunctiontype, neurons |-> l.neurons,
          neuronsArray |-> l.neuronsArray]
  /\ IsList(l.neuronsArray) /\ \A j \in DOMAIN l.neuronsArray : IsNeuron(l.neuronsArray[j])
IsNetwork(n) ==
  /\ n = [x \in Settings \cup {"layers", "layersArray"} |-> n[x]] /\ n.layers \in Nat
  /\ IsList(n.layersArray) /\ \A i \in DOMAIN n.layersArray : IsLayer(n.layersArray[i])
IsModel(m) ==
  /\ m = Learning(m.globalmodelstatus, m.trainingscounter, m.neuralnetwork)
  /\ m.globalmodelstatus \in Nat /\ m.trainingscounter \in Nat /\ IsNetwork(m.neuralnetwork)

ASSUME PublishedAssumption == \A m \in Published : IsModel(m)

\* The items of the tree of a model: members of an object, and elements of an array,
\* with the numbers of the layer, the neuron and the weight they are about.
Places(m) ==
  LET layers == m.neuralnetwork.layersArray
      neurons(i) == layers[i].neuronsArray IN
  {Place(<<>>, n) : n \in {"globalmodelstatus", "trainingscounter", "neuralnetwork", "layers",
                           "layersArray"} \cup Settings}
  \cup (UNION {{Place(<<i>>, n) : n \in {"element", "activationfunctiontype", "neurons",
                                         "neuronsArray"}} : i \in DOMAIN layers})
  \cup (UNION {UNION {{Place(<<i, j>>, n) : n \in {"element", "neurontype", "weights", "bias",
                                                   "weightsArray"}}
                      \cup {Place(<<i, j, k>>, "element") : k \in DOMAIN neurons(i)[j].weightsArray}
                      : j \in DOMAIN neurons(i)} : i \in DOMAIN layers})

-----------------------------------------------------------------------------
(* To JSON: an object is a function from the names it has.                 *)

\* A number as the other side parses what was printed.
Item(x) ==
  [type |-> IF x \in NotFinite THEN "null" ELSE "number",
   valuedouble |-> IF x \in NotFinite THEN 0 ELSE x]

\* The members of an object, but for one that is lost.
Members(object, at, gone) ==
  [n \in {x \in DOMAIN object : Place(at, x) # gone} |-> object[n]]

\* The elements of an array, but for one that is lost.
ElementsOf(array, at, gone) ==
  IF \E i \in DOMAIN array : gone = Place(at \o <<i>>, "element")
  THEN RemoveAt(array, Last(gone.at)) ELSE array

NeuronToJSON(neuron, at, gone) ==
  LET weights == [k \in DOMAIN neuron.weightsArray |-> Item(neuron.weightsArray[k])] IN
  Members([neurontype |-> neuron.neurontype, weights |-> Item(neuron.weights),
           bias |-> Item(neuron.bias), weightsArray |-> ElementsOf(weights, at, gone)], at, gone)

LayerToJSON(layer, at, gone) ==
  LET neurons == [j \in DOMAIN layer.neuronsArray |->
                    NeuronToJSON(layer.neuronsArray[j], at \o <<j>>, gone)] IN
  Members([activationfunctiontype |-> Item(layer.activationfunctiontype),
           neurons |-> Item(layer.neurons), neuronsArray |-> ElementsOf(neurons, at, gone)],
          at, gone)

NetworkToJSON(network, gone) ==
  LET layers == [i \in DOMAIN network.layersArray |->
                   LayerToJSON(network.layersArray[i], <<i>>, gone)] IN
  Members([n \in DOMAIN network |-> IF n = "layersArray" THEN ElementsOf(layers, <<>>, gone)
                                     ELSE Item(network[n])], <<>>, gone)

FederatedLearningToJSON(m, gone) ==
  Members([globalmodelstatus |-> Item(m.globalmodelstatus),
           trainingscounter |-> Item(m.trainingscounter),
           neuralnetwork |-> NetworkToJSON(m.neuralnetwork, gone)], <<>>, gone)

-----------------------------------------------------------------------------
(* From JSON.                                                              *)

Get(object, name, otherwise) == IF name \in DOMAIN object THEN object[name] ELSE otherwise

GetNumber(json, name, otherwise) ==
  IF name \in DOMAIN json /\ json[name].type = "number" THEN json[name].valuedouble ELSE otherwise

\* A weight is taken from the item whatever its type.
NeuronFromJSON(json) ==
  LET weights == Get(json, "weightsArray", <<>>) IN
  [neurontype |-> Get(json, "neurontype", Unset), weights |-> GetNumber(json, "weights", Unset),
   bias |-> GetNumber(json, "bias", Unset),
   weightsArray |-> [k \in DOMAIN weights |-> weights[k].valuedouble]]

\* Slip: the board does not read it either.
TypeIsNotRead(side, json) == Unset

\* The server does not read the type of a layer, and has no use for it.
TypeOfLayer(side, json) ==
  IF side = "board" THEN GetNumber(json, "activationfunctiontype", Unset) ELSE Unset

LayerFromJSON(side, json) ==
  LET neurons == Get(json, "neuronsArray", <<>>) IN
  [activationfunctiontype |-> TypeOfLayer(side, json), neurons |-> GetNumber(json, "neurons", Unset),
   neuronsArray |-> [j \in DOMAIN neurons |-> NeuronFromJSON(neurons[j])]]

\* The lists are read only behind the number of layers.
Lists(json) ==
  IF "layers" \in DOMAIN json /\ json.layers.type = "number"
  THEN {"layersArray"} \cap DOMAIN json ELSE {}

NetworkFromJSON(side, json) ==
  [n \in Settings \cup {"layers"} \cup Lists(json) |->
     IF n = "layersArray"
     THEN [i \in DOMAIN json.layersArray |-> LayerFromJSON(side, json.layersArray[i])]
     ELSE GetNumber(json, n, Unset)]

StatusAndCounter(json) ==
  [globalmodelstatus |-> GetNumber(json, "globalmodelstatus", 0),
   trainingscounter |-> GetNumber(json, "trainingscounter", 0)]

JSONToFederatedLearning(side, json) ==
  LET head == StatusAndCounter(json) IN
  IF "neuralnetwork" \in DOMAIN json
  THEN Learning(head.globalmodelstatus, head.trainingscounter,
                NetworkFromJSON(side, json.neuralnetwork))
  ELSE head
-----------------------------------------------------------------------------
InitConversion ==
  /\ instance \in Published
  /\ local = Learning(0, 0, Unset) /\ downloaded = Unset /\ message = Unset /\ missing = None
  /\ origin = Unset /\ clientmodel = Unset /\ step = "get" /\ messages = 0

Send(m, next) ==
  /\ messages < MaxMessages /\ messages' = messages + 1
  /\ \E gone \in {None} \cup Places(m) :
       missing' = gone /\ message' = FederatedLearningToJSON(m, gone)
  /\ origin' = m
  /\ step' = next

\* handle_get_globalmodel.
SendGlobalModel ==
  /\ step = "get"
  /\ Send(instance, "download")
  /\ UNCHANGED <<instance, local, downloaded, clientmodel>>

\* getglobalmodel.
Download ==
  /\ step = "download"
  /\ downloaded' = JSONToFederatedLearning("board", message)
  /\ step' = "replace"
  /\ UNCHANGED <<instance, local, message, missing, origin, clientmodel, messages>>

HasNetwork(m) == "neuralnetwork" \in DOMAIN m
HasLists(m) == HasNetwork(m) /\ "layersArray" \in DOMAIN m.neuralnetwork

\* Of a training, only that every weight is another.
NeuronTrained(n) == [n EXCEPT !.weightsArray = [k \in DOMAIN @ |-> Trained[@[k]]]]
LayerTrained(l) == [l EXCEPT !.neuronsArray = [j \in DOMAIN @ |-> NeuronTrained(@[j])]]
NetworkTrained(n) == [n EXCEPT !.layersArray = [i \in DOMAIN @ |-> LayerTrained(@[i])]]

\* replaceNeuralNetwork and NeuralNetworkTraining; the board follows a pointer that was
\* not assigned when the network or its layers are missing, and goes no further here.
ReplaceAndTrain ==
  /\ step = "replace" /\ HasLists(downloaded)
  /\ local' = Learning(local.globalmodelstatus, 1, NetworkTrained(downloaded.neuralnetwork))
  /\ step' = "upload"
  /\ UNCHANGED <<instance, downloaded, message, missing, origin, clientmodel, messages>>

\* websocket_send_local_model.
SendLocalModel ==
  /\ step = "upload"
  /\ Send(local, "receive")
  /\ UNCHANGED <<instance, local, downloaded, clientmodel>>

\* handle_clint_model_message, up to the aggregation.
ReceiveLocalModel ==
  /\ step = "receive"
  /\ clientmodel' = JSONToFederatedLearning("server", message)
  /\ step' = "aggregate"
  /\ UNCHANGED <<instance, local, downloaded, message, missing, origin, messages>>

\* The round ends with another global model.
NextGlobalModel ==
  /\ step = "aggregate" /\ HasLists(clientmodel)
  /\ instance' \in Published
  /\ step' = "get"
  /\ UNCHANGED <<local, downloaded, message, missing, origin, clientmodel, messages>>

ConversionNext ==
  \/ SendGlobalModel \/ Download \/ ReplaceAndTrain
  \/ SendLocalModel \/ ReceiveLocalModel \/ NextGlobalModel

ConversionSpec == InitConversion /\ [][ConversionNext]_conversionVars

-----------------------------------------------------------------------------
ConversionTypeOK ==
  /\ missing = None \/ missing \in Places(origin)
  /\ step \in {"get", "download", "replace", "upload", "receive", "aggregate"}
  /\ \A m \in {downloaded, clientmodel} \ {Unset} : m.trainingscounter \in Nat

\* A model of finite numbers comes as it was sent.  Of one that is not, a weight comes
\* as 0, and a bias or a setting as what malloc left.
Arrives(x) == IF x \in NotFinite THEN Unset ELSE x
NeuronArrives(n) ==
  [neurontype |-> n.neurontype, weights |-> Arrives(n.weights), bias |-> Arrives(n.bias),
   weightsArray |-> [k \in DOMAIN n.weightsArray |->
                       IF n.weightsArray[k] \in NotFinite THEN 0 ELSE n.weightsArray[k]]]
LayerArrives(l) ==
  [activationfunctiontype |-> Arrives(l.activationfunctiontype), neurons |-> Arrives(l.neurons),
   neuronsArray |-> [j \in DOMAIN l.neuronsArray |-> NeuronArrives(l.neuronsArray[j])]]
NetworkArrives(n) ==
  [x \in DOMAIN n |-> IF x = "layersArray" THEN [i \in DOMAIN n[x] |-> LayerArrives(n[x][i])]
                      ELSE Arrives(n[x])]
ModelArrives(m) == [m EXCEPT !.neuralnetwork = NetworkArrives(@)]

\* A board trains the model that the server has published, down to the type of each
\* layer, the order of its neurons and the order of their weights, but for the numbers
\* that are not finite.
BoardHasTheGlobalModel ==
  step = "replace" /\ missing = None => downloaded = ModelArrives(origin)

WithoutTypes(m) ==
  [m EXCEPT !.neuralnetwork.layersArray =
     [i \in DOMAIN @ |-> [@[i] EXCEPT !.activationfunctiontype = Unset]]]

\* The server adds up the model that the board has trained: besides numbers that are not
\* finite, only the types of the layers do not come back, and the server keeps its own.
ServerHasTheLocalModel ==
  step = "aggregate" /\ missing = None => clientmodel = WithoutTypes(ModelArrives(origin))

Whole(m) ==
  LET layers == m.neuralnetwork.layersArray IN
  /\ m.neuralnetwork.layers = Len(layers)
  /\ \A i \in DOMAIN layers :
       /\ layers[i].neurons = Len(layers[i].neuronsArray)
       /\ \A j \in DOMAIN layers[i].neuronsArray :
            layers[i].neuronsArray[j].weights = Len(layers[i].neuronsArray[j].weightsArray)

\* What the converters leave to tell that a list has been cut short on its way: the
\* counts that travel beside it, which nobody compares.
Arrived == IF step = "replace" THEN downloaded ELSE clientmodel
CountsTellOfAHole ==
  step \in {"replace", "aggregate"} /\ Whole(origin) /\ HasLists(Arrived)
    /\ missing.name = "element"
    => ~Whole(Arrived)

\* A model on its way from the server to a board and back: whole when every item was
\* allocated, and otherwise short of what its own counts say.
ModelsSurviveTheTrip ==
  BoardHasTheGlobalModel /\ ServerHasTheLocalModel /\ CountsTellOfAHole
=============================================================================
