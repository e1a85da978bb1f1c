--------------------------- MODULE FederatedServer ---------------------------
(***************************************************************************)
(* The central server: the FederatedLearning singleton and the two threads *)
(* main() starts on it.  The HTTP thread serves one connection at a time;  *)
(* the WebSocket thread takes local models up one at a time.  No lock      *)
(* orders the two (singletonMutex only guards the construction of the      *)
(* singleton), so every access of one thread that the other can observe is *)
(* a step of its own.                                                      *)
(***************************************************************************)
EXTENDS FederatedWire, FiniteSets, Sequences

CONSTANTS
  ClientNodes,        \* nodecontrol->clientnodes
  InteractionCycle,   \* nodecontrol->interactioncycle
  Counters            \* what a local model says it was trained with

ASSUME ClientNodesAssumption == ClientNodes \in Nat \ {0}
ASSUME InteractionCycleAssumption == InteractionCycle \in Nat
ASSUME CountersAssumption == Counters \subseteq Nat

VARIABLES
  registered,             \* the client list: firstclientnode, nextclientnode...
  clientnodesregistered,  \* its length as the code counts it
  interaction,            \* interaction[n]: ClientNode.interaction of n
  currentinteraction,     \* the federated round
  globalmodelstatus,      \* 0 or 1
  trainingscounter,       \* divisor of the average
  summed,                 \* models in nodecontrol->neuralnetwork: <<n, its counter>>
  neuralnetwork,          \* the published model: is it allocated, its version
  http,                   \* the HTTP thread
  websocket,              \* the WebSocket thread
  told,                   \* told[n]: round whose model was last announced to n
  crashed                 \* the process died of undefined behaviour

roundVars == <<registered, clientnodesregistered, interaction,
               currentinteraction, trainingscounter, summed>>
serverVars == <<roundVars, globalmodelstatus, neuralnetwork, http, websocket,
                told, crashed>>

\* A thread between two events.
IdleHttp == [at |-> "accept", node |-> NoNode, seen |-> 0, open |-> TRUE]
IdleWebsocket == [at |-> "service", node |-> NoNode]

InitServer ==
  /\ registered = {}
  /\ clientnodesregistered = 0
  /\ interaction = [n \in Node |-> 0]
  /\ currentinteraction = 0
  /\ globalmodelstatus = 0
  /\ trainingscounter = 0
  /\ summed = <<>>
  /\ neuralnetwork = [live |-> TRUE, version |-> 0]
  /\ http = IdleHttp
  /\ websocket = IdleWebsocket
  /\ told = [n \in Node |-> 0]
  /\ crashed = FALSE

-----------------------------------------------------------------------------
(* The HTTP thread.                                                         *)

\* accept() returned the connection of n, whose request names the endpoint.
Accepts(n, endpoint) ==
  /\ ~crashed
  /\ http.at = "accept"
  /\ Waiting(n, endpoint)

\* write() and close(): the answer is lost if n is no longer connected.
Respond(kind, version) ==
  /\ reply' = IF http.open
              THEN [reply EXCEPT ![http.node] = Answer(kind, version)]
              ELSE reply
  /\ http' = IdleHttp
  /\ UNCHANGED <<request, uplinkState>>

RespondAtOnce(n, kind) ==
  /\ reply' = [reply EXCEPT ![n] = Answer(kind, 0)]
  /\ UNCHANGED <<request, uplinkState, http>>

\* Slip: the list is not searched for the address.
IsAdmittedUnsearched(n) == clientnodesregistered # ClientNodes

\* handle_get_noderegister adds a board the list does not hold, up to the limit.
IsAdmitted(n) ==
  /\ clientnodesregistered # ClientNodes
  /\ n \notin registered

\* Slip: a board that registers again starts over at interaction 0.
HandleNodeRegisterStartsOver(n) ==
  /\ Accepts(n, "noderegister")
  /\ registered' = IF IsAdmitted(n) THEN registered \cup {n} ELSE registered
  /\ clientnodesregistered' = Cardinality(registered')
  /\ interaction' = [interaction EXCEPT ![n] = 0]
  /\ globalmodelstatus' = IF clientnodesregistered' = ClientNodes
                          THEN 1 ELSE globalmodelstatus
  /\ RespondAtOnce(n, "registered")
  /\ UNCHANGED <<currentinteraction, trainingscounter, summed, neuralnetwork,
                 websocket, told, crashed>>

\* The whole handler is one step: registered and clientnodesregistered only
\* change here, and no model is under way before the list is full.
HandleNodeRegister(n) ==
  /\ Accepts(n, "noderegister")
  /\ IF IsAdmitted(n)
     THEN /\ registered' = registered \cup {n}
          /\ clientnodesregistered' = clientnodesregistered + 1
          /\ interaction' = [interaction EXCEPT ![n] = 0]
     ELSE UNCHANGED <<registered, clientnodesregistered, interaction>>
  /\ globalmodelstatus' = IF clientnodesregistered' = ClientNodes
                          THEN 1 ELSE globalmodelstatus
  /\ RespondAtOnce(n, "registered")
  /\ UNCHANGED <<currentinteraction, trainingscounter, summed, neuralnetwork,
                 websocket, told, crashed>>

\* Slip: the status handler does not test registered.
CanBeServedUnlisted(n) == clientnodesregistered = ClientNodes

\* handle_get_checkmodelstatus: a node of a complete list goes on to the
\* comparison with its interaction loaded, any other is answered 0.
CanBeServed(n) ==
  /\ clientnodesregistered = ClientNodes
  /\ n \in registered

LoadInteraction(n) ==
  /\ Accepts(n, "checkglobalmodel")
  /\ IF CanBeServed(n)
     THEN /\ http' = [at |-> "compare", node |-> n, seen |-> interaction[n],
                      open |-> TRUE]
          /\ UNCHANGED wireVars
     ELSE RespondAtOnce(n, "no")
  /\ UNCHANGED <<roundVars, globalmodelstatus, neuralnetwork, websocket, told,
                 crashed>>

CompareInteraction ==
  /\ ~crashed
  /\ http.at = "compare"
  /\ IF http.seen = currentinteraction
     THEN http' = [http EXCEPT !.at = "status"] /\ UNCHANGED wireVars
     ELSE Respond("no", 0)
  /\ UNCHANGED <<roundVars, globalmodelstatus, neuralnetwork, websocket, told,
                 crashed>>

LoadStatus ==
  /\ ~crashed
  /\ http.at = "status"
  /\ IF globalmodelstatus = 1
     THEN /\ Respond("yes", 0)
          /\ told' = [told EXCEPT ![http.node] = http.seen]
     ELSE Respond("no", 0) /\ UNCHANGED told
  /\ UNCHANGED <<roundVars, globalmodelstatus, neuralnetwork, websocket,
                 crashed>>

\* handle_get_globalmodel walks the layers, neurons and weights of the
\* published model.  The walk is torn if the model is, or gets, freed.
BeginTraversal(n) ==
  /\ Accepts(n, "getglobalmodel")
  /\ http' = [at |-> IF neuralnetwork.live THEN "traverse" ELSE "torn",
              node |-> n, seen |-> neuralnetwork.version, open |-> TRUE]
  /\ UNCHANGED <<wireVars, roundVars, globalmodelstatus, neuralnetwork,
                 websocket, told, crashed>>

EndTraversal ==
  /\ ~crashed
  /\ http.at = "traverse"
  /\ Respond("model", http.seen)
  /\ UNCHANGED <<roundVars, globalmodelstatus, neuralnetwork, websocket, told,
                 crashed>>

\* Reading freed memory: it may still hold the old model, yield a text that is
\* no JSON, or kill the process.
EndTornTraversal ==
  /\ ~crashed
  /\ http.at = "torn"
  /\ \/ Respond("model", http.seen) /\ UNCHANGED crashed
     \/ Respond("garbled", 0) /\ UNCHANGED crashed
     \/ crashed' = TRUE /\ UNCHANGED <<wireVars, http>>
  /\ UNCHANGED <<roundVars, globalmodelstatus, neuralnetwork, websocket, told>>

-----------------------------------------------------------------------------
(* The WebSocket thread: handle_clint_model_message and AggregationModel.   *)

WebsocketAt(place) == ~crashed /\ websocket.at = place
WebsocketGoes(place) == websocket' = [websocket EXCEPT !.at = place]
WebsocketReturns == websocket' = IdleWebsocket

\* The sender is looked up by its address; a sender the list does not hold is
\* a null pointer here.
ReceiveModel(n) ==
  /\ WebsocketAt("service")
  /\ uplink[n] > 0
  /\ uplink' = [uplink EXCEPT ![n] = @ - 1]
  /\ interaction' = [interaction EXCEPT ![n] = @ + 1]
  /\ websocket' = [at |-> "aggregate", node |-> n]
  /\ crashed' = (n \notin registered)
  /\ UNCHANGED <<request, reply, jammed, registered, clientnodesregistered,
                 currentinteraction, globalmodelstatus, trainingscounter,
                 summed, neuralnetwork, http, told>>

\* FederatedAveragingSum and the counter: the model weighs as many trainings as
\* its board says, which are none when its data set could not be opened.
AddModel(c) ==
  /\ summed' = Append(summed, <<websocket.node, c>>)
  /\ trainingscounter' = trainingscounter + c

\* Slip: currentinteraction > interactioncycle.
SumModelOnceMore ==
  /\ WebsocketAt("aggregate")
  /\ globalmodelstatus' = 0
  /\ IF currentinteraction > InteractionCycle
     THEN /\ WebsocketReturns
          /\ UNCHANGED <<summed, trainingscounter>>
     ELSE /\ WebsocketGoes("check")
          /\ \E c \in Counters : AddModel(c)
  /\ UNCHANGED <<wireVars, registered, clientnodesregistered, interaction,
                 currentinteraction, neuralnetwork, http, told, crashed>>

\* AggregationModel up to the loop over the nodes: nothing is summed once the
\* last round is over.
SumModel ==
  /\ WebsocketAt("aggregate")
  /\ globalmodelstatus' = 0
  /\ IF currentinteraction >= InteractionCycle
     THEN /\ WebsocketReturns
          /\ UNCHANGED <<summed, trainingscounter>>
     ELSE /\ WebsocketGoes("check")
          /\ \E c \in Counters : AddModel(c)
  /\ UNCHANGED <<wireVars, registered, clientnodesregistered, interaction,
                 currentinteraction, neuralnetwork, http, told, crashed>>

\* Slips: the round closes on the first model; a node ahead counts as missing.
EveryNodeMissing == \A n \in registered : interaction[n] = currentinteraction
SomeNodeElsewhere == \E n \in registered : interaction[n] # currentinteraction + 1

\* "check if all nodes sent the local model"
SomeNodeMissing == \E n \in registered : interaction[n] = currentinteraction

\* Slip: the early return leaves the status at 0.
CheckAllSentStaysShut ==
  /\ WebsocketAt("check")
  /\ globalmodelstatus' = 0
  /\ IF SomeNodeMissing THEN WebsocketReturns ELSE WebsocketGoes("average")
  /\ UNCHANGED <<wireVars, roundVars, neuralnetwork, http, told, crashed>>

CheckAllSent ==
  /\ WebsocketAt("check")
  /\ IF SomeNodeMissing
     THEN globalmodelstatus' = 1 /\ WebsocketReturns
     ELSE globalmodelstatus' = 0 /\ WebsocketGoes("average")
  /\ UNCHANGED <<wireVars, roundVars, neuralnetwork, http, told, crashed>>

\* Slip: the training counter is not set to 0.
AverageAndKeepCounter ==
  /\ WebsocketAt("average")
  /\ neuralnetwork' = [neuralnetwork EXCEPT !.live = FALSE]
  /\ http' = IF http.at = "traverse" THEN [http EXCEPT !.at = "torn"] ELSE http
  /\ WebsocketGoes("copy")
  /\ UNCHANGED <<wireVars, roundVars, globalmodelstatus, told, crashed>>

\* FederatedAveraging divides, then freeNeuralNetwork takes the published
\* model away from under a walk the HTTP thread may be in.
AverageAndFree ==
  /\ WebsocketAt("average")
  /\ trainingscounter' = 0
  /\ neuralnetwork' = [neuralnetwork EXCEPT !.live = FALSE]
  /\ http' = IF http.at = "traverse" THEN [http EXCEPT !.at = "torn"] ELSE http
  /\ WebsocketGoes("copy")
  /\ UNCHANGED <<wireVars, registered, clientnodesregistered, interaction,
                 currentinteraction, summed, globalmodelstatus, told, crashed>>

\* Slip: the old global model is copied instead of the average.
CopyOldModel ==
  /\ WebsocketAt("copy")
  /\ neuralnetwork' = [neuralnetwork EXCEPT !.live = TRUE]
  /\ summed' = <<>>
  /\ WebsocketGoes("advance")
  /\ UNCHANGED <<wireVars, registered, clientnodesregistered, interaction,
                 currentinteraction, trainingscounter, globalmodelstatus, http,
                 told, crashed>>

\* CopyNeuralNetwork publishes the average and the sums start over.
CopyAndReset ==
  /\ WebsocketAt("copy")
  /\ neuralnetwork' = [live |-> TRUE, version |-> neuralnetwork.version + 1]
  /\ summed' = <<>>
  /\ WebsocketGoes("advance")
  /\ UNCHANGED <<wireVars, registered, clientnodesregistered, interaction,
                 currentinteraction, trainingscounter, globalmodelstatus, http,
                 told, crashed>>

AdvanceInteraction ==
  /\ WebsocketAt("advance")
  /\ currentinteraction' = currentinteraction + 1
  /\ WebsocketGoes("open")
  /\ UNCHANGED <<wireVars, registered, clientnodesregistered, interaction,
                 trainingscounter, summed, globalmodelstatus, neuralnetwork,
                 http, told, crashed>>

\* Slip: globalmodelstatus++ instead of = 1.
OpenRoundCounts ==
  /\ WebsocketAt("open")
  /\ globalmodelstatus' = globalmodelstatus + 1
  /\ WebsocketReturns
  /\ UNCHANGED <<wireVars, roundVars, neuralnetwork, http, told, crashed>>

OpenRound ==
  /\ WebsocketAt("open")
  /\ globalmodelstatus' = 1
  /\ WebsocketReturns
  /\ UNCHANGED <<wireVars, roundVars, neuralnetwork, http, told, crashed>>

-----------------------------------------------------------------------------
HttpThread ==
  \/ \E n \in Node : \/ HandleNodeRegister(n)
                     \/ LoadInteraction(n)
                     \/ BeginTraversal(n)
  \/ CompareInteraction
  \/ LoadStatus
  \/ EndTraversal
  \/ EndTornTraversal

WebsocketThread ==
  \/ \E n \in Node : ReceiveModel(n)
  \/ SumModel
  \/ CheckAllSent
  \/ AverageAndFree
  \/ CopyAndReset
  \/ AdvanceInteraction
  \/ OpenRound

ServerTypeOK ==
  /\ registered \in SUBSET Node
  /\ clientnodesregistered \in Nat
  /\ interaction \in [Node -> Nat]
  /\ currentinteraction \in Nat
  /\ globalmodelstatus \in {0, 1}
  /\ trainingscounter \in Nat
  /\ summed \in Seq(Node \X Counters)
  /\ neuralnetwork \in [live : BOOLEAN, version : Nat]
  /\ http \in [at : {"accept", "compare", "status", "traverse", "torn"},
               node : Node \cup {NoNode}, seen : Nat, open : BOOLEAN]
  /\ websocket \in [at : {"service", "aggregate", "check", "average", "copy",
                          "advance", "open"},
                    node : Node \cup {NoNode}]
  /\ websocket.at # "service" => websocket.node \in Node
  /\ told \in [Node -> Nat]
  /\ crashed \in BOOLEAN

=============================================================================
