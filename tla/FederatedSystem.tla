--------------------------- MODULE FederatedSystem ---------------------------
(***************************************************************************)
(* The boards and the central server together.  Every step is one step of  *)
(* a board, of the HTTP thread or of the WebSocket thread, the loss of a   *)
(* local model, or a fault: a call that times out, a board that loses      *)
(* power.  Operators reset boards whose program has ended.                 *)
(***************************************************************************)
EXTENDS FederatedServer, EdgeNode

CONSTANT MaxFaults   \* bound: faults of one behaviour

ASSUME MaxFaultsAssumption == MaxFaults \in Nat

VARIABLE faults      \* faults so far

vars == <<wireVars, serverVars, nodeVars, faults>>

Init ==
  /\ InitWire
  /\ InitServer
  /\ InitNodes
  /\ faults = 0

HttpStep == HttpThread /\ UNCHANGED <<nodeVars, faults>>
WebsocketStep == WebsocketThread /\ UNCHANGED <<nodeVars, faults>>
BoardStep(n) == NodeStep(n) /\ UNCHANGED <<serverVars, faults>>
OperatorStep(n) == Restart(n) /\ UNCHANGED <<serverVars, faults>>
NetworkStep(n) == LoseModel(n) /\ UNCHANGED <<serverVars, nodeVars, faults>>

\* n no longer reads the connection the HTTP thread may be serving.
LosesConnection(n) ==
  /\ http' = IF http.node = n THEN [http EXCEPT !.open = FALSE] ELSE http
  /\ UNCHANGED <<roundVars, globalmodelstatus, neuralnetwork, websocket, told,
                 crashed>>

Fault(n) ==
  /\ faults < MaxFaults
  /\ faults' = faults + 1
  /\ CallGivenUp(n) \/ CallRetried(n) \/ PowerOff(n)
  /\ LosesConnection(n)

Next ==
  \/ HttpStep
  \/ WebsocketStep
  \/ \E n \in Node : BoardStep(n) \/ OperatorStep(n) \/ NetworkStep(n)
                     \/ Fault(n)

Spec == Init /\ [][Next]_vars

(* Fairness.  Both threads loop for ever; accept() and lws_service() take   *)
(* connections and messages in the order they arrive, so that none waits    *)
(* for ever behind others; the task of a board runs.  An upload that is     *)
(* tried again and again gets through in the end, and so does a model of a  *)
(* board that sends one again and again.  Nothing promises that a board is  *)
(* ever reset.                                                              *)
Accept(n) == HandleNodeRegister(n) \/ LoadInteraction(n) \/ BeginTraversal(n)

Fairness ==
  /\ WF_vars(HttpStep)
  /\ WF_vars(WebsocketStep)
  /\ \A n \in Node : /\ WF_vars(BoardStep(n))
                     /\ SF_vars(Accept(n) /\ UNCHANGED <<nodeVars, faults>>)
                     /\ SF_vars(SendLocalModel(n) /\ UNCHANGED <<serverVars, faults>>)
                     /\ SF_vars(ReceiveModel(n) /\ UNCHANGED <<nodeVars, faults>>)

FairSpec == Spec /\ Fairness

\* Somebody keeps resetting the boards that have stopped.
AttendedSpec == FairSpec /\ \A n \in Node : WF_vars(OperatorStep(n))

-----------------------------------------------------------------------------
TypeOK ==
  /\ WireTypeOK
  /\ ServerTypeOK
  /\ NodeTypeOK
  /\ faults \in 0..MaxFaults

ListIsFull == clientnodesregistered = ClientNodes
RoundsLeft == currentinteraction < InteractionCycle
Sent(n) == interaction[n] > currentinteraction
Closing == websocket.at \in {"average", "copy", "advance"}

\* Nobody joins twice and nobody joins a full list: the count the two handlers
\* compare with clientnodes is the length of the list (httphandlers.c).
RegistrationExact ==
  /\ clientnodesregistered = Cardinality(registered)
  /\ clientnodesregistered <= ClientNodes

\* handle_clint_model_message dereferences the node it has looked up without a
\* test: a model can only come from a listed node, and only once the list is
\* full, whatever the boards, their resets and the retries of their calls did.
NoOrphanModel ==
  \A n \in Node :
    (uplink[n] > 0 \/ pc[n] = "training" \/ websocket.node = n)
      => n \in registered /\ ListIsFull

\* The round number never passes a node: no node is at a round the server has
\* left, and while a round closes every node has sent its model of that round.
RoundBehindEveryNode ==
  \A n \in registered :
    /\ interaction[n] >= currentinteraction
    /\ Closing => Sent(n)

\* A round is never left unclosed once every node has sent its model: between
\* two messages somebody's model is still missing.  No later message would
\* close it, as no node would be told to train.
NoStalledRound ==
  websocket.at = "service" /\ ListIsFull /\ RoundsLeft
    => \E n \in registered : ~Sent(n)

\* Between two messages a full list and a round to run mean that the status is
\* 1: a node that has to send its model is not told to go away.
RestingServerIsOpen ==
  websocket.at = "service" /\ ListIsFull /\ RoundsLeft => globalmodelstatus = 1

\* The model a board trains on is not older than the round it was told to join:
\* AggregationModel publishes the average before it advances the round, and
\* the two handlers the board calls in between lock nothing.
ServedModelIsFresh ==
  \A n \in Node : pc[n] = "training" => base[n] >= told[n]

\* The counters of the models, added up one after the other.
Trainings(models) ==
  LET total[i \in 0..Len(models)] ==
        IF i = 0 THEN 0 ELSE total[i - 1] + models[i][2]
  IN  total
TotalTrainings(models) == Trainings(models)[Len(models)]

\* FederatedAveraging divides by the trainings of the models that are in the sum
\* and of no others: sum and counter start over together although two statements
\* of the handler, with the publication in between, reset them.
DivisorMatchesSum ==
  websocket.at # "copy" => trainingscounter = TotalTrainings(summed)

\* After the last round the published model never changes nor goes away again,
\* although boards are still told once to train and their models still arrive.
FinalModelFrozen ==
  [][~RoundsLeft => UNCHANGED neuralnetwork]_vars

\* The list, the count of models of each node and the round number are all
\* that the promise of FederatedRounds speaks of.
Rounds == INSTANCE FederatedRounds WITH
  Member <- Node, Limit <- ClientNodes, Rounds <- InteractionCycle,
  members <- registered, sent <- interaction, round <- currentinteraction

\* The two threads, the boards and every fault together implement the promise:
\* a node joins once, only listed nodes of a full list deliver, a round closes
\* exactly when it can, and AggregationModel closes it before the WebSocket
\* thread takes up another model.
ImplementsRounds == Rounds!RoundsSpec

\* Every round is run (README, Federated Rounds), unless the process dies or an
\* upload was cut off between two fragments: no reset helps after that.
EveryRoundRuns == <>(~RoundsLeft \/ crashed \/ jammed)

-----------------------------------------------------------------------------
(* What the documentation and the comments say and the code does not do.    *)

\* README, Model Distribution: once the list is full every node of it gets the
\* global model.
ModelReachesEveryNode ==
  (<>ListIsFull) => \A n \in Node : <>(pc[n] = "training" \/ crashed)

\* AggregationModel: "check if all nodes sent the local model" before averaging:
\* the average holds a model of every node.
EveryNodeInAverage ==
  websocket.at = "average" => \A n \in registered : \E i \in DOMAIN summed : summed[i][1] = n

\* handle_get_checkmodelstatus: "global model avaliable": a board that was told
\* so and fetches the model reads one that is allocated to the end.
AnnouncedModelIsAvailable == http.at # "torn"

=============================================================================
