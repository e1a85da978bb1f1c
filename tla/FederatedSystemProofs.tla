------------------------ MODULE FederatedSystemProofs ------------------------
(***************************************************************************)
(* Proofs about FederatedSystem for every set of boards, every number of   *)
(* client nodes and every number of rounds.  The inductive invariant IInv  *)
(* adds to the checked invariants what every step in between relies on.    *)
(***************************************************************************)
EXTENDS FederatedSystem, Recursion, FiniteSetTheorems, SequenceTheorems, TLAPS

\* n holds, carries or was promised something only a listed node may have.
Involved(n) ==
  \/ uplink[n] > 0
  \/ pc[n] = "training"
  \/ websocket.node = n
  \/ request[n] = "getglobalmodel"
  \/ reply[n].kind = "yes"
  \/ http.node = n /\ http.at \in {"compare", "status"}

ListInv ==
  /\ IsFiniteSet(registered)
  /\ RegistrationExact

InvolvedInv ==
  \A n \in Node : Involved(n) => n \in registered /\ ListIsFull

\* A busy thread serves a board.
BusyInv ==
  /\ websocket.at # "service" => websocket.node \in Node
  /\ http.at # "accept" => http.node \in Node

\* Where a round stands, place by place in AggregationModel.
RoundInv ==
  /\ ~ListIsFull => currentinteraction = 0
  /\ websocket.at \in {"check", "average", "copy", "advance"} => RoundsLeft
  /\ \A n \in registered : interaction[n] >= currentinteraction
  /\ websocket.at \in {"service", "open"} /\ ListIsFull /\ RoundsLeft
       => \E n \in registered : ~Sent(n)
  /\ websocket.at \in {"aggregate", "check"} /\ RoundsLeft
       => \/ \E n \in registered : ~Sent(n)
          \/ interaction[websocket.node] = currentinteraction + 1
  /\ Closing => /\ interaction[websocket.node] = currentinteraction + 1
                /\ \A n \in registered : Sent(n)

IInv == TypeOK /\ ListInv /\ InvolvedInv /\ BusyInv /\ RoundInv

-----------------------------------------------------------------------------
USE ClientNodesAssumption, InteractionCycleAssumption, NodeAssumption,
    CountersAssumption, MaxInFlightAssumption, MaxFaultsAssumption
    DEF uplinkState

(* What a step can change.                                                  *)

\* A step of the two threads leaves the boards alone, and conversely.
LEMMA StepCases ==
  ASSUME Next
  PROVE  \/ HttpThread /\ UNCHANGED <<nodeVars, faults>>
         \/ WebsocketThread /\ UNCHANGED <<nodeVars, faults>>
         \/ \E n \in Node : /\ NodeStep(n) \/ Restart(n)
                            /\ UNCHANGED <<serverVars, faults>>
         \/ \E n \in Node : /\ LoseModel(n)
                            /\ UNCHANGED <<serverVars, nodeVars, faults>>
         \/ \E n \in Node : Fault(n)
  BY DEF Next, HttpStep, WebsocketStep, BoardStep, OperatorStep, NetworkStep

LEMMA TypeInit == Init => TypeOK
PROOF
<1> SUFFICES ASSUME Init PROVE TypeOK
  OBVIOUS
<1>1. WireTypeOK
  BY DEF Init, InitWire, WireTypeOK, Answer, NoReply, ReplyKind, Endpoint
<1>2. ServerTypeOK
  <2>1. <<>> \in Seq(Node \X Counters)
    OBVIOUS
  <2> QED BY <2>1 DEF Init, InitServer, ServerTypeOK, IdleHttp, IdleWebsocket
<1>3. NodeTypeOK
  BY DEF Init, InitNodes, NodeTypeOK
<1>4. faults \in 0..MaxFaults
  BY DEF Init
<1> QED BY <1>1, <1>2, <1>3, <1>4 DEF TypeOK

\* Sending, retrying or ending a call keeps the types of the wire.
LEMMA CallType ==
  ASSUME NEW n \in Node, NEW endpoint \in Endpoint \cup {"none"},
         WireTypeOK, Call(n, endpoint), uplink' \in [Node -> Nat],
         jammed' \in BOOLEAN
  PROVE  WireTypeOK'
  BY DEF WireTypeOK, Call, NoReply, Answer, ReplyKind

LEMMA RespondType ==
  ASSUME NEW kind \in ReplyKind, NEW version \in Nat, TypeOK,
         Respond(kind, version)
  PROVE  WireTypeOK' /\ http' = IdleHttp
  BY DEF Respond, TypeOK, WireTypeOK, Answer, ReplyKind

LEMMA HttpType ==
  ASSUME TypeOK, HttpThread, UNCHANGED <<nodeVars, faults>>
  PROVE  TypeOK'
PROOF
<1> USE DEF TypeOK, ServerTypeOK, roundVars
<1>0. NodeTypeOK' /\ faults' \in 0..MaxFaults
  BY DEF NodeTypeOK, nodeVars
<1>i. IdleHttp \in [at : {"accept", "compare", "status", "traverse", "torn"},
                    node : Node \cup {NoNode}, seen : Nat, open : BOOLEAN]
  BY DEF IdleHttp
<1>1. ASSUME NEW n \in Node, HandleNodeRegister(n) PROVE TypeOK'
  <2>1. WireTypeOK'
    BY <1>1 DEF HandleNodeRegister, RespondAtOnce, WireTypeOK, Answer, ReplyKind
  <2>2. ServerTypeOK'
    BY <1>1, SMTT(30) DEF HandleNodeRegister, RespondAtOnce, IsAdmitted
  <2> QED BY <1>0, <2>1, <2>2
<1>2. ASSUME NEW n \in Node, LoadInteraction(n) PROVE TypeOK'
  <2>1. WireTypeOK'
    <3>1. UNCHANGED <<request, uplink, jammed>>
      BY <1>2 DEF LoadInteraction, RespondAtOnce, wireVars
    <3>2. UNCHANGED reply \/ reply' = [reply EXCEPT ![n] = Answer("no", 0)]
      BY <1>2, Zenon DEF LoadInteraction, RespondAtOnce, wireVars
    <3>3. reply' \in [Node -> [kind : ReplyKind, version : Nat]]
      <4>1. Answer("no", 0) \in [kind : ReplyKind, version : Nat]
        BY DEF Answer, ReplyKind
      <4>2. reply \in [Node -> [kind : ReplyKind, version : Nat]]
        BY DEF WireTypeOK
      <4> QED BY <3>2, <4>1, <4>2
    <3> QED BY <3>1, <3>3 DEF WireTypeOK
  <2>2. CASE CanBeServed(n)
    <3>1. http' \in [at : {"accept", "compare", "status", "traverse", "torn"},
                     node : Node \cup {NoNode}, seen : Nat, open : BOOLEAN]
      <4>1. http' = [at |-> "compare", node |-> n, seen |-> interaction[n],
                     open |-> TRUE]
        BY <1>2, <2>2 DEF LoadInteraction
      <4>2. interaction[n] \in Nat
        OBVIOUS
      <4> QED BY <4>1, <4>2
    <3> QED BY <1>0, <1>2, <2>1, <3>1 DEF LoadInteraction
  <2>3. CASE ~CanBeServed(n)
    BY <1>0, <1>2, <2>1, <2>3 DEF LoadInteraction, RespondAtOnce
  <2> QED BY <2>2, <2>3
<1>3. ASSUME NEW n \in Node, BeginTraversal(n) PROVE TypeOK'
  <2>1. WireTypeOK'
    BY <1>3 DEF BeginTraversal, wireVars, WireTypeOK
  <2>2. ServerTypeOK'
    BY <1>3 DEF BeginTraversal
  <2> QED BY <1>0, <2>1, <2>2
<1>4. CASE CompareInteraction
  <2>1. WireTypeOK' /\ http' \in {IdleHttp, [http EXCEPT !.at = "status"]}
    BY <1>4, RespondType DEF CompareInteraction, wireVars, WireTypeOK, ReplyKind
  <2> QED BY <1>4, <1>0, <1>i, <2>1 DEF CompareInteraction
<1>5. CASE LoadStatus
  <2>1. WireTypeOK' /\ http' = IdleHttp
    BY <1>5, RespondType DEF LoadStatus, ReplyKind
  <2>2. told' \in [Node -> Nat]
    BY <1>5 DEF LoadStatus
  <2> QED BY <1>5, <1>0, <1>i, <2>1, <2>2 DEF LoadStatus
<1>6. CASE EndTraversal
  <2>1. WireTypeOK' /\ http' = IdleHttp
    BY <1>6, RespondType DEF EndTraversal, ReplyKind
  <2> QED BY <1>6, <1>0, <1>i, <2>1 DEF EndTraversal
<1>7. CASE EndTornTraversal
  <2>1. WireTypeOK' /\ http' \in {IdleHttp, http} /\ crashed' \in BOOLEAN
    BY <1>7, RespondType DEF EndTornTraversal, wireVars, WireTypeOK, ReplyKind
  <2> QED BY <1>7, <1>0, <1>i, <2>1 DEF EndTornTraversal
<1> QED BY <1>1, <1>2, <1>3, <1>4, <1>5, <1>6, <1>7 DEF HttpThread

LEMMA WebsocketType ==
  ASSUME TypeOK, WebsocketThread, UNCHANGED <<nodeVars, faults>>
  PROVE  TypeOK'
PROOF
<1> USE DEF TypeOK, ServerTypeOK, roundVars, WebsocketAt, WebsocketGoes
<1>0. NodeTypeOK' /\ faults' \in 0..MaxFaults
  BY DEF NodeTypeOK, nodeVars
<1>i. /\ IdleWebsocket \in [at : {"service", "aggregate", "check", "average",
                                 "copy", "advance", "open"},
                            node : Node \cup {NoNode}]
      /\ IdleWebsocket.at = "service"
  BY DEF IdleWebsocket
<1>1. ASSUME NEW n \in Node, ReceiveModel(n) PROVE TypeOK'
  <2>1. WireTypeOK'
    <3>1. UNCHANGED <<request, reply, jammed>>
      BY <1>1 DEF ReceiveModel
    <3>2. uplink' \in [Node -> Nat]
      <4>1. uplink \in [Node -> Nat] /\ uplink[n] > 0 /\ uplink' = [uplink EXCEPT ![n] = @ - 1]
        BY <1>1 DEF ReceiveModel, WireTypeOK
      <4>2. uplink[n] - 1 \in Nat
        BY <4>1
      <4> HIDE DEF TypeOK, ServerTypeOK
      <4> QED BY <4>1, <4>2
    <3> QED BY <3>1, <3>2 DEF WireTypeOK
  <2>2. ServerTypeOK'
    BY <1>1 DEF ReceiveModel
  <2> QED BY <1>0, <2>1, <2>2
<1>2. CASE ~\E n \in Node : ReceiveModel(n)
  <2>1. WireTypeOK'
    BY <1>2 DEF WebsocketThread, SumModel, CheckAllSent, AverageAndFree,
          CopyAndReset, AdvanceInteraction, OpenRound, wireVars, WireTypeOK
  <2>2. CASE SumModel
    <3>2. CASE currentinteraction >= InteractionCycle
      BY <2>2, <2>1, <3>2, <1>0, <1>i DEF SumModel, WebsocketReturns
    <3>3. CASE ~(currentinteraction >= InteractionCycle)
      <4>1. PICK c \in Counters : AddModel(c)
        BY <2>2, <3>3 DEF SumModel
      <4>2. websocket.node \in Node /\ websocket' = [websocket EXCEPT !.at = "check"]
        BY <2>2, <3>3 DEF SumModel
      <4>3. summed' \in Seq(Node \X Counters)
        <5>1. <<websocket.node, c>> \in Node \X Counters
          BY <4>2
        <5> QED BY <4>1, <5>1, AppendProperties DEF AddModel
      <4>4. trainingscounter' \in Nat
        BY <4>1 DEF AddModel
      <4> QED BY <2>2, <2>1, <4>2, <4>3, <4>4, <1>0 DEF SumModel
    <3> QED BY <3>2, <3>3
  <2>3. CASE CheckAllSent
    <3>1. CASE SomeNodeMissing
      BY <2>3, <2>1, <3>1, <1>0, <1>i DEF CheckAllSent, WebsocketReturns
    <3>2. CASE ~SomeNodeMissing
      BY <2>3, <2>1, <3>2, <1>0 DEF CheckAllSent
    <3> QED BY <3>1, <3>2
  <2>4. CASE AverageAndFree
    BY <2>4, <2>1, <1>0 DEF AverageAndFree
  <2>5. CASE CopyAndReset
    <3>1. summed' \in Seq(Node \X Counters)
      BY <2>5 DEF CopyAndReset
    <3>2. neuralnetwork' \in [live : BOOLEAN, version : Nat]
      <4>1. neuralnetwork \in [live : BOOLEAN, version : Nat]
        OBVIOUS
      <4>2. neuralnetwork' = [live |-> TRUE, version |-> neuralnetwork.version + 1]
        BY <2>5 DEF CopyAndReset
      <4> HIDE DEF TypeOK, ServerTypeOK
      <4> QED BY <4>1, <4>2
    <3>3. websocket' = [websocket EXCEPT !.at = "advance"] /\ websocket.node \in Node
      BY <2>5 DEF CopyAndReset
    <3>4. /\ websocket' \in [at : {"service", "aggregate", "check", "average", "copy",
                                 "advance", "open"},
                           node : Node \cup {NoNode}]
          /\ websocket'.node \in Node
      <4>1. websocket \in [at : {"service", "aggregate", "check", "average", "copy",
                                "advance", "open"},
                          node : Node \cup {NoNode}]
        OBVIOUS
      <4> HIDE DEF TypeOK, ServerTypeOK
      <4> QED BY <3>3, <4>1
    <3>5. UNCHANGED <<registered, clientnodesregistered, interaction, currentinteraction,
                      trainingscounter, globalmodelstatus, http, told, crashed>>
      BY <2>5 DEF CopyAndReset
    <3>6. ServerTypeOK'
      BY <3>1, <3>2, <3>4, <3>5
    <3> QED BY <2>1, <3>6, <1>0
  <2>6. CASE AdvanceInteraction
    <3>1. UNCHANGED <<registered, clientnodesregistered, interaction, trainingscounter, summed,
                      globalmodelstatus, neuralnetwork, http, told, crashed>>
      BY <2>6 DEF AdvanceInteraction
    <3>2. currentinteraction' \in Nat
      <4>1. currentinteraction \in Nat
        OBVIOUS
      <4>2. currentinteraction' = currentinteraction + 1
        BY <2>6 DEF AdvanceInteraction
      <4> HIDE DEF TypeOK, ServerTypeOK
      <4> QED BY <4>1, <4>2
    <3>3. websocket' = [websocket EXCEPT !.at = "open"] /\ websocket.node \in Node
      BY <2>6 DEF AdvanceInteraction
    <3>4. /\ websocket' \in [at : {"service", "aggregate", "check", "average", "copy",
                                 "advance", "open"},
                           node : Node \cup {NoNode}]
          /\ websocket'.node \in Node
      <4>1. websocket \in [at : {"service", "aggregate", "check", "average", "copy",
                                "advance", "open"},
                          node : Node \cup {NoNode}]
        OBVIOUS
      <4> HIDE DEF TypeOK, ServerTypeOK
      <4> QED BY <3>3, <4>1
    <3>5. ServerTypeOK'
      BY <3>1, <3>2, <3>4
    <3> QED BY <2>1, <3>5, <1>0
  <2>7. CASE OpenRound
    BY <2>7, <2>1, <1>0, <1>i DEF OpenRound, WebsocketReturns
  <2> QED
    BY <1>2, <2>2, <2>3, <2>4, <2>5, <2>6, <2>7 DEF WebsocketThread
<1> QED BY <1>1, <1>2

\* What a board does by itself keeps the types of its own state and the wire.
LEMMA BoardType ==
  ASSUME TypeOK, NEW n \in Node,
         NodeStep(n) \/ Restart(n) \/ CallGivenUp(n)
           \/ CallRetried(n) \/ PowerOff(n)
  PROVE  WireTypeOK' /\ NodeTypeOK'
PROOF
<1> USE DEF TypeOK, NodeTypeOK, nodeVars
<1>1. uplink' \in [Node -> Nat] /\ jammed' \in BOOLEAN
  <2>1. uplink' \in [Node -> Nat]
    BY DEF NodeStep, Restart, DropLocalModel, CutOffLocalModel, CallGivenUp, CallRetried,
       PowerOff, NodeRegister, GlobalModelStatus, GlobalModel, SendLocalModel, WireTypeOK
  <2>2. jammed' \in {jammed, TRUE, jammed \/ pc[n] = "training"}
    BY DEF NodeStep, Restart, DropLocalModel, CutOffLocalModel, CallGivenUp, CallRetried,
       PowerOff, NodeRegister, GlobalModelStatus, GlobalModel, SendLocalModel
  <2>3. jammed' \in BOOLEAN
    BY <2>2, Zenon DEF WireTypeOK
  <2> QED BY <2>1, <2>3
<1>2. \E endpoint \in Endpoint \cup {"none"} : Call(n, endpoint)
  BY DEF NodeStep, Restart, DropLocalModel, CutOffLocalModel, CallGivenUp, CallRetried,
     PowerOff, NodeRegister, GlobalModelStatus, GlobalModel, SendLocalModel, PollAgain,
         BreakLoop, HangUp, Endpoint, WireTypeOK
<1>3. WireTypeOK'
  BY <1>1, <1>2, CallType
<1>4. pc' \in [Node -> {"off", "calling", "training"}]
  BY DEF NodeStep, Restart, DropLocalModel, CutOffLocalModel, CallGivenUp, CallRetried,
     PowerOff, NodeRegister, GlobalModelStatus, GlobalModel, SendLocalModel, PollAgain,
         BreakLoop
<1>5. base' \in [Node -> Nat]
  BY DEF NodeStep, Restart, DropLocalModel, CutOffLocalModel, CallGivenUp, CallRetried,
     PowerOff, NodeRegister, GlobalModelStatus, GlobalModel, SendLocalModel, PollAgain,
         WireTypeOK
<1> QED BY <1>3, <1>4, <1>5

LEMMA FaultType ==
  ASSUME TypeOK, NEW n \in Node, Fault(n)
  PROVE  TypeOK'
PROOF
<1>1. WireTypeOK' /\ NodeTypeOK'
  BY BoardType DEF Fault
<1>2. faults' \in 0..MaxFaults
  BY DEF Fault, TypeOK
<1>3. ServerTypeOK'
  <2>1. UNCHANGED <<roundVars, globalmodelstatus, neuralnetwork, websocket, told, crashed>>
    BY DEF Fault, LosesConnection, serverVars
  <2>2. http' = http \/ http' = [http EXCEPT !.open = FALSE]
    BY DEF Fault, LosesConnection, serverVars
  <2>3. http' \in [at : {"accept", "compare", "status", "traverse", "torn"},
                  node : Node \cup {NoNode}, seen : Nat, open : BOOLEAN]
    BY <2>2 DEF TypeOK, ServerTypeOK
  <2> QED BY <2>1, <2>3 DEF TypeOK, ServerTypeOK, roundVars
<1> QED BY <1>1, <1>2, <1>3 DEF TypeOK

LEMMA TypeStep ==
  ASSUME TypeOK, [Next]_vars
  PROVE  TypeOK'
PROOF
<1>1. CASE UNCHANGED vars
  <2>1. WireTypeOK' /\ NodeTypeOK'
    BY <1>1 DEF vars, wireVars, nodeVars, TypeOK, WireTypeOK, NodeTypeOK, uplinkState
  <2>2. ServerTypeOK' /\ faults' \in 0..MaxFaults
    BY <1>1 DEF vars, serverVars, roundVars, TypeOK, ServerTypeOK
  <2> QED BY <2>1, <2>2 DEF TypeOK
<1>2. ASSUME NEW n \in Node, NodeStep(n) \/ Restart(n),
             UNCHANGED <<serverVars, faults>>
      PROVE  TypeOK'
  <2>1. WireTypeOK' /\ NodeTypeOK'
    BY <1>2, BoardType
  <2>2. ServerTypeOK' /\ faults' \in 0..MaxFaults
    BY <1>2 DEF TypeOK, ServerTypeOK, serverVars, roundVars
  <2> QED BY <2>1, <2>2 DEF TypeOK
<1>3. ASSUME NEW n \in Node, LoseModel(n), UNCHANGED <<serverVars, nodeVars, faults>>
      PROVE  TypeOK'
  <2>1. UNCHANGED <<request, reply>> /\ jammed' \in {jammed, TRUE}
        /\ uplink' = [uplink EXCEPT ![n] = @ - 1] /\ uplink[n] > 0
    BY <1>3 DEF LoseModel
  <2>2. jammed' \in BOOLEAN
    BY <2>1, Zenon DEF TypeOK, WireTypeOK
  <2>3. uplink' \in [Node -> Nat]
    BY <2>1 DEF TypeOK, WireTypeOK
  <2>4. WireTypeOK'
    BY <2>1, <2>2, <2>3 DEF TypeOK, WireTypeOK
  <2>5. ServerTypeOK' /\ NodeTypeOK' /\ faults' \in 0..MaxFaults
    BY <1>3 DEF TypeOK, ServerTypeOK, NodeTypeOK, serverVars, roundVars, nodeVars
  <2> QED BY <2>4, <2>5 DEF TypeOK
<1> QED BY <1>1, <1>2, <1>3, StepCases, HttpType, WebsocketType, FaultType

\* Every value the shared state takes has its type, whatever the boards, the
\* threads and the faults do: no counter goes below zero, no thread is ever
\* outside the places the model gives it.
THEOREM TypeCorrect == Spec => []TypeOK
PROOF
<1>1. Init => TypeOK
  BY TypeInit
<1>2. TypeOK /\ [Next]_vars => TypeOK'
  BY TypeStep
<1> QED BY <1>1, <1>2, PTL DEF Spec

-----------------------------------------------------------------------------
(* The rounds.                                                              *)

roundState == <<registered, clientnodesregistered, interaction,
                currentinteraction, websocket>>

\* Only a registration and the WebSocket thread move the rounds.
LEMMA RoundFrame ==
  ASSUME [Next]_vars
  PROVE  \/ \E n \in Node : HandleNodeRegister(n)
         \/ WebsocketThread
         \/ UNCHANGED roundState
  BY StepCases DEF vars, roundState, serverVars, roundVars, HttpThread,
     LoadInteraction, CompareInteraction, LoadStatus, BeginTraversal,
     EndTraversal, EndTornTraversal, Fault, LosesConnection

\* The WebSocket thread never touches the list of nodes.
LEMMA WebsocketFrame ==
  ASSUME WebsocketThread
  PROVE  UNCHANGED <<registered, clientnodesregistered>>
  BY DEF WebsocketThread, ReceiveModel, SumModel, CheckAllSent, AverageAndFree,
         CopyAndReset, AdvanceInteraction, OpenRound, roundVars

LEMMA ListStep ==
  ASSUME TypeOK, ListInv, [Next]_vars
  PROVE  ListInv'
PROOF
<1> USE DEF ListInv, RegistrationExact
<1>1. ASSUME NEW n \in Node, HandleNodeRegister(n) PROVE ListInv'
  <2>1. CASE IsAdmitted(n)
    <3>1. registered' = registered \cup {n} /\ n \notin registered
          /\ clientnodesregistered' = clientnodesregistered + 1
          /\ clientnodesregistered # ClientNodes
      BY <1>1, <2>1 DEF HandleNodeRegister, IsAdmitted
    <3>2. IsFiniteSet(registered')
          /\ Cardinality(registered') = Cardinality(registered) + 1
      BY <3>1, FS_AddElement
    <3>3. clientnodesregistered \in Nat /\ ClientNodes \in Nat
      BY ClientNodesAssumption DEF TypeOK, ServerTypeOK
    <3> QED BY <3>1, <3>2, <3>3
  <2>2. CASE ~IsAdmitted(n)
    BY <1>1, <2>2 DEF HandleNodeRegister
  <2> QED BY <2>1, <2>2
<1>2. CASE UNCHANGED <<registered, clientnodesregistered>>
  BY <1>2
<1> QED BY <1>1, <1>2, RoundFrame, WebsocketFrame DEF roundState

\* A registration can only admit a board while no model is under way.
LEMMA RegisterRound ==
  ASSUME IInv, NEW n \in Node, HandleNodeRegister(n)
  PROVE  RoundInv'
PROOF
<1> USE DEF RoundInv, Sent, RoundsLeft, ListIsFull, Closing
<1>t. /\ interaction \in [Node -> Nat] /\ currentinteraction \in Nat
      /\ registered \subseteq Node
  BY DEF IInv, TypeOK, ServerTypeOK
<1>1. UNCHANGED <<currentinteraction, websocket>>
  BY DEF HandleNodeRegister
<1>2. CASE IsAdmitted(n)
  <2>1. /\ ~ListIsFull
        /\ registered' = registered \cup {n}
        /\ interaction' = [interaction EXCEPT ![n] = 0]
    BY <1>2 DEF HandleNodeRegister, IsAdmitted
  <2>2. websocket.at = "service" /\ currentinteraction = 0
    BY <2>1 DEF IInv, BusyInv, InvolvedInv, Involved
  <2>3. \A m \in registered' : interaction'[m] >= currentinteraction'
    BY <1>t, <1>1, <2>1, <2>2
  <2>4. n \in registered' /\ ~(interaction'[n] > currentinteraction')
    BY <1>t, <1>1, <2>1, <2>2
  <2> QED BY <1>1, <2>2, <2>3, <2>4
<1>3. CASE ~IsAdmitted(n)
  BY <1>1, <1>3 DEF HandleNodeRegister, IInv
<1> QED BY <1>2, <1>3

LEMMA WebsocketRound ==
  ASSUME IInv, WebsocketThread
  PROVE  RoundInv'
PROOF
<1> USE DEF RoundInv, Sent, RoundsLeft, ListIsFull, Closing, WebsocketAt,
            WebsocketGoes
<1>t. /\ interaction \in [Node -> Nat] /\ currentinteraction \in Nat
      /\ registered \subseteq Node /\ InteractionCycle \in Nat
      /\ websocket \in [at : {"service", "aggregate", "check", "average",
                              "copy", "advance", "open"},
                        node : Node \cup {NoNode}]
  BY InteractionCycleAssumption DEF IInv, TypeOK, ServerTypeOK
<1>r. RoundInv /\ UNCHANGED <<registered, clientnodesregistered>>
  BY WebsocketFrame DEF IInv
<1>b. websocket.at # "service"
        => websocket.node \in registered /\ ListIsFull
  BY DEF IInv, BusyInv, InvolvedInv, Involved
<1>1. ASSUME NEW n \in Node, ReceiveModel(n) PROVE RoundInv'
  <2>1. /\ websocket.at = "service" /\ n \in registered /\ ListIsFull
        /\ interaction' = [interaction EXCEPT ![n] = @ + 1]
        /\ websocket' = [at |-> "aggregate", node |-> n]
        /\ currentinteraction' = currentinteraction
    BY <1>1 DEF ReceiveModel, IInv, InvolvedInv, Involved
  <2>2. \A m \in registered' : interaction'[m] >= currentinteraction'
    BY <1>t, <1>r, <2>1
  <2>3. ASSUME RoundsLeft
        PROVE  \/ \E m \in registered' : ~(interaction'[m] > currentinteraction')
               \/ interaction'[websocket'.node] = currentinteraction' + 1
    <3>1. PICK m \in registered : ~(interaction[m] > currentinteraction)
      BY <2>1, <2>3, <1>r
    <3>2. CASE m = n
      BY <1>t, <1>r, <2>1, <3>1, <3>2
    <3>3. CASE m # n
      BY <1>t, <1>r, <2>1, <3>1, <3>3
    <3> QED BY <3>2, <3>3
  <2> QED BY <1>r, <2>1, <2>2, <2>3
<1>2. CASE SumModel
  BY <1>2, <1>t, <1>r, <1>b DEF SumModel, WebsocketReturns, IdleWebsocket
<1>3. CASE CheckAllSent
  <2>1. UNCHANGED <<interaction, currentinteraction>> /\ websocket.at = "check"
    BY <1>3 DEF CheckAllSent, roundVars
  <2>2. CASE SomeNodeMissing
    <3>1. \E m \in registered : ~(interaction[m] > currentinteraction)
      BY <1>t, <2>2 DEF SomeNodeMissing
    <3>2. websocket' = IdleWebsocket
      BY <1>3, <2>2 DEF CheckAllSent, WebsocketReturns
    <3> QED BY <1>r, <1>b, <2>1, <3>1, <3>2 DEF IdleWebsocket
  <2>3. CASE ~SomeNodeMissing
    <3>1. \A m \in registered : interaction[m] > currentinteraction
      BY <1>t, <1>r, <2>3 DEF SomeNodeMissing
    <3>2. websocket' = [websocket EXCEPT !.at = "average"]
      BY <1>3, <2>3 DEF CheckAllSent
    <3>3. websocket'.at = "average" /\ websocket'.node = websocket.node
      BY <3>2, <1>t
    <3>4. RoundsLeft /\ interaction[websocket.node] = currentinteraction + 1
      BY <1>r, <2>1, <3>1
    <3> QED BY <1>r, <1>b, <2>1, <3>1, <3>3, <3>4
  <2> QED BY <2>2, <2>3
<1>4. CASE AverageAndFree
  BY <1>4, <1>t, <1>r, <1>b DEF AverageAndFree
<1>5. CASE CopyAndReset
  BY <1>5, <1>t, <1>r, <1>b DEF CopyAndReset
<1>6. CASE AdvanceInteraction
  <2>1. /\ websocket.at = "advance" /\ UNCHANGED interaction
        /\ currentinteraction' = currentinteraction + 1
        /\ websocket'.at = "open" /\ websocket'.node = websocket.node
    BY <1>6, <1>t DEF AdvanceInteraction
  <2>2. \A m \in registered' : interaction'[m] >= currentinteraction'
    BY <1>t, <1>r, <2>1
  <2>3. websocket.node \in registered'
        /\ ~(interaction'[websocket.node] > currentinteraction')
    BY <1>t, <1>r, <1>b, <2>1
  <2> QED BY <1>r, <1>b, <2>1, <2>2, <2>3
<1>7. CASE OpenRound
  BY <1>7, <1>t, <1>r, <1>b DEF OpenRound, WebsocketReturns, IdleWebsocket,
     roundVars
<1> QED
  BY <1>1, <1>2, <1>3, <1>4, <1>5, <1>6, <1>7 DEF WebsocketThread

LEMMA RoundStep ==
  ASSUME IInv, [Next]_vars
  PROVE  RoundInv'
PROOF
<1>1. CASE UNCHANGED roundState
  BY <1>1 DEF IInv, RoundInv, roundState, Sent, RoundsLeft, ListIsFull, Closing
<1> QED BY <1>1, RoundFrame, RegisterRound, WebsocketRound

-----------------------------------------------------------------------------
(* Only listed nodes of a full list get to train and to send.               *)

LEMMA ListGrows ==
  ASSUME TypeOK, [Next]_vars
  PROVE  registered \subseteq registered' /\ (ListIsFull => ListIsFull')
  BY RoundFrame, WebsocketFrame
     DEF HandleNodeRegister, IsAdmitted, roundState, ListIsFull

\* The answer to a status call is the only way in.
LEMMA InvolvedHttp ==
  ASSUME IInv, HttpThread, UNCHANGED nodeVars, NEW n \in Node, Involved(n)'
  PROVE  Involved(n) \/ CanBeServed(n)
PROOF
<1> USE DEF Involved, nodeVars
<1>t. TypeOK /\ reply \in [Node -> [kind : ReplyKind, version : Nat]]
  BY DEF IInv, TypeOK, WireTypeOK
<1>b. http.at # "accept" => http.node \in Node
  BY DEF IInv, BusyInv
<1>h. http \in [at : {"accept", "compare", "status", "traverse", "torn"},
               node : Node \cup {NoNode}, seen : Nat, open : BOOLEAN]
  BY <1>t DEF TypeOK, ServerTypeOK
<1>1. ASSUME NEW m \in Node, HandleNodeRegister(m) PROVE Involved(n)
  BY <1>1, <1>t DEF HandleNodeRegister, RespondAtOnce, Answer
<1>2. ASSUME NEW m \in Node, LoadInteraction(m)
      PROVE  Involved(n) \/ CanBeServed(n)
  <2>1. UNCHANGED <<uplink, websocket, request>>
    BY <1>2 DEF LoadInteraction, RespondAtOnce, wireVars
  <2>2. CASE CanBeServed(m)
    BY <1>2, <2>1, <2>2 DEF LoadInteraction, wireVars
  <2>3. CASE ~CanBeServed(m)
    BY <1>2, <1>t, <2>1, <2>3 DEF LoadInteraction, RespondAtOnce, Answer
  <2> QED BY <2>2, <2>3
<1>3. ASSUME NEW m \in Node, BeginTraversal(m) PROVE Involved(n)
  BY <1>3 DEF BeginTraversal, wireVars
<1>4. ASSUME NEW kind, NEW version, Respond(kind, version),
             http.at # "accept", kind = "yes" => http.at = "status",
             UNCHANGED websocket
      PROVE  Involved(n)
  <2>1. UNCHANGED <<uplink, request>> /\ http'.at = "accept"
    BY <1>4 DEF Respond, IdleHttp
  <2>2. CASE reply'[n].kind = "yes" /\ reply'[n] # reply[n]
    BY <1>4, <1>t, <1>b, <2>2 DEF Respond, Answer
  <2>3. CASE reply'[n].kind # "yes" \/ reply'[n] = reply[n]
    BY <2>1, <2>3, <1>4
  <2> QED BY <2>2, <2>3
<1>5. CASE CompareInteraction
  <2>1. CASE http.seen = currentinteraction
    BY <1>5, <2>1, <1>h DEF CompareInteraction, wireVars
  <2>2. CASE http.seen # currentinteraction
    <3>1. Respond("no", 0) /\ http.at = "compare" /\ UNCHANGED websocket
      BY <1>5, <2>2 DEF CompareInteraction
    <3> QED BY <3>1, <1>4
  <2> QED BY <2>1, <2>2
<1>6. CASE LoadStatus
  <2>1. /\ Respond("yes", 0) \/ Respond("no", 0)
        /\ http.at = "status" /\ UNCHANGED websocket
    BY <1>6 DEF LoadStatus
  <2> QED BY <2>1, <1>4
<1>7. CASE EndTraversal
  <2>1. /\ Respond("model", http.seen)
        /\ http.at = "traverse" /\ UNCHANGED websocket
    BY <1>7 DEF EndTraversal
  <2> QED BY <2>1, <1>4
<1>8. CASE EndTornTraversal
  <2>1. http.at = "torn" /\ UNCHANGED websocket
    BY <1>8 DEF EndTornTraversal
  <2>2. CASE Respond("model", http.seen) \/ Respond("garbled", 0)
    BY <2>1, <2>2, <1>4
  <2>3. CASE UNCHANGED <<wireVars, http>>
    BY <2>1, <2>3 DEF wireVars
  <2> QED BY <1>8, <2>2, <2>3 DEF EndTornTraversal
<1> QED
  BY <1>1, <1>2, <1>3, <1>5, <1>6, <1>7, <1>8 DEF HttpThread

LEMMA InvolvedWebsocket ==
  ASSUME IInv, WebsocketThread, UNCHANGED nodeVars, NEW n \in Node, Involved(n)'
  PROVE  Involved(n)
PROOF
<1> USE DEF Involved, nodeVars, WebsocketGoes, WebsocketReturns
<1>t. /\ uplink \in [Node -> Nat]
      /\ websocket \in [at : {"service", "aggregate", "check", "average",
                              "copy", "advance", "open"},
                        node : Node \cup {NoNode}]
      /\ http \in [at : {"accept", "compare", "status", "traverse", "torn"},
                   node : Node \cup {NoNode}, seen : Nat, open : BOOLEAN]
  BY DEF IInv, TypeOK, WireTypeOK, ServerTypeOK
<1>1. ASSUME NEW m \in Node, ReceiveModel(m) PROVE Involved(n)
  BY <1>1, <1>t DEF ReceiveModel
<1>2. CASE ~\E m \in Node : ReceiveModel(m)
  <2>1. UNCHANGED wireVars
    BY <1>2 DEF WebsocketThread, SumModel, CheckAllSent, AverageAndFree,
          CopyAndReset, AdvanceInteraction, OpenRound
  <2>2. websocket'.node \in {websocket.node, NoNode}
    BY <1>2, <1>t DEF WebsocketThread, SumModel, CheckAllSent, AverageAndFree,
          CopyAndReset, AdvanceInteraction, OpenRound, IdleWebsocket
  <2>3. http' = http \/ http'.at = "torn"
    BY <1>2, <1>t DEF WebsocketThread, SumModel, CheckAllSent, AverageAndFree,
          CopyAndReset, AdvanceInteraction, OpenRound
  <2> QED BY <2>1, <2>2, <2>3, NodeAssumption DEF wireVars
<1> QED BY <1>1, <1>2

\* A board goes from the answer "yes" to the model, to training, to sending.
LEMMA InvolvedBoard ==
  ASSUME IInv, NEW m \in Node, NEW n \in Node, Involved(n)',
         \/ NodeStep(m) \/ Restart(m)
         \/ CallGivenUp(m) \/ CallRetried(m) \/ PowerOff(m),
         UNCHANGED websocket, http'.node = http.node, http'.at = http.at
  PROVE  Involved(n)
PROOF
<1> USE DEF Involved, nodeVars, Call, HangUp, BreakLoop, NoReply, Answer
<1>t. /\ uplink \in [Node -> Nat]
      /\ request \in [Node -> Endpoint \cup {"none"}]
      /\ reply \in [Node -> [kind : ReplyKind, version : Nat]]
      /\ pc \in [Node -> {"off", "calling", "training"}]
  BY DEF IInv, TypeOK, WireTypeOK, NodeTypeOK
<1>1. CASE n # m
  <2>1. /\ uplink'[n] = uplink[n] /\ pc'[n] = pc[n]
        /\ request'[n] = request[n] /\ reply'[n] = reply[n]
    BY <1>1, <1>t DEF NodeStep, Restart, DropLocalModel, CutOffLocalModel, CallGivenUp,
       CallRetried, PowerOff, NodeRegister, GlobalModelStatus, GlobalModel,
       SendLocalModel, PollAgain
  <2> QED BY <2>1
<1>2. CASE n = m
  <2>1. CASE NodeRegister(m)
    BY <1>t, <1>2, <2>1 DEF NodeRegister
  <2>2. CASE GlobalModelStatus(m)
    BY <1>t, <1>2, <2>2 DEF GlobalModelStatus, Answered
  <2>3. CASE GlobalModel(m)
    BY <1>t, <1>2, <2>3 DEF GlobalModel, Answered
  <2>4. CASE PollAgain(m)
    BY <1>t, <1>2, <2>4 DEF PollAgain
  <2>5. CASE Restart(m) \/ CallGivenUp(m)
    BY <1>t, <1>2, <2>5 DEF Restart, CallGivenUp
  <2>6. CASE CallRetried(m)
    BY <1>t, <1>2, <2>6 DEF CallRetried
  <2>7. CASE PowerOff(m)
    BY <1>t, <1>2, <2>7 DEF PowerOff
  <2> QED BY <2>1, <2>2, <2>3, <2>4, <2>5, <2>6, <2>7
        DEF NodeStep, SendLocalModel, DropLocalModel, CutOffLocalModel
<1> QED BY <1>1, <1>2

LEMMA InvolvedStep ==
  ASSUME IInv, [Next]_vars
  PROVE  InvolvedInv'
PROOF
<1>1. ASSUME NEW n \in Node, Involved(n)' PROVE Involved(n) \/ CanBeServed(n)
  <2>1. CASE UNCHANGED vars
    BY <1>1, <2>1 DEF vars, wireVars, serverVars, nodeVars, Involved
  <2>2. CASE HttpThread /\ UNCHANGED <<nodeVars, faults>>
    BY <1>1, <2>2, InvolvedHttp
  <2>3. CASE WebsocketThread /\ UNCHANGED <<nodeVars, faults>>
    BY <1>1, <2>3, InvolvedWebsocket
  <2>4. ASSUME NEW m \in Node, NodeStep(m) \/ Restart(m),
               UNCHANGED <<serverVars, faults>>
        PROVE  Involved(n)
    BY <1>1, <2>4, InvolvedBoard DEF serverVars
  <2>5. ASSUME NEW m \in Node, Fault(m) PROVE Involved(n)
    <3>1. /\ UNCHANGED websocket
          /\ http'.node = http.node /\ http'.at = http.at
      BY <2>5 DEF Fault, LosesConnection, serverVars, IInv, TypeOK, ServerTypeOK
    <3> QED BY <1>1, <2>5, <3>1, InvolvedBoard DEF Fault
  <2>6. ASSUME NEW m \in Node, LoseModel(m), UNCHANGED <<serverVars, nodeVars, faults>>
        PROVE  Involved(n)
    BY <1>1, <2>6 DEF LoseModel, Involved, serverVars, nodeVars, IInv, TypeOK, WireTypeOK
  <2> QED BY <2>1, <2>2, <2>3, <2>4, <2>5, <2>6, StepCases
<1>2. registered \subseteq registered' /\ (ListIsFull => ListIsFull')
  BY ListGrows DEF IInv
<1>3. ASSUME NEW n \in Node, Involved(n)' PROVE n \in registered' /\ ListIsFull'
  BY <1>1, <1>2, <1>3 DEF IInv, InvolvedInv, CanBeServed, ListIsFull
<1> QED BY <1>3 DEF InvolvedInv

LEMMA BusyStep ==
  ASSUME IInv, [Next]_vars
  PROVE  BusyInv'
PROOF
<1> USE DEF BusyInv
<1>t. /\ BusyInv
      /\ websocket \in [at : {"service", "aggregate", "check", "average",
                              "copy", "advance", "open"},
                        node : Node \cup {NoNode}]
      /\ http \in [at : {"accept", "compare", "status", "traverse", "torn"},
                   node : Node \cup {NoNode}, seen : Nat, open : BOOLEAN]
  BY DEF IInv, TypeOK, ServerTypeOK
<1>1. CASE UNCHANGED <<http, websocket>>
  BY <1>1, <1>t
<1>2. CASE HttpThread /\ UNCHANGED <<nodeVars, faults>>
  <2>1. UNCHANGED websocket
    BY <1>2 DEF HttpThread, HandleNodeRegister, LoadInteraction, EndTraversal,
       CompareInteraction, LoadStatus, BeginTraversal, EndTornTraversal
  <2>2. http'.at # "accept" => http'.node \in Node
    BY <1>2, <1>t DEF HttpThread, HandleNodeRegister, LoadInteraction,
       EndTraversal, CompareInteraction, LoadStatus, BeginTraversal,
       EndTornTraversal, RespondAtOnce, Respond, IdleHttp, wireVars
  <2> QED BY <2>1, <2>2, <1>t
<1>3. CASE WebsocketThread /\ UNCHANGED <<nodeVars, faults>>
  BY <1>3, <1>t DEF WebsocketThread, ReceiveModel, SumModel, CheckAllSent,
     AverageAndFree, CopyAndReset, AdvanceInteraction, OpenRound, WebsocketAt,
     WebsocketGoes, WebsocketReturns, IdleWebsocket
<1>4. ASSUME NEW m \in Node, Fault(m) PROVE BusyInv'
  BY <1>4, <1>t DEF Fault, LosesConnection, serverVars
<1> QED BY <1>1, <1>2, <1>3, <1>4, StepCases DEF vars, serverVars

LEMMA IInvInit == Init => IInv
PROOF
<1> SUFFICES ASSUME Init PROVE IInv
  OBVIOUS
<1>1. TypeOK
  BY TypeInit
<1>2. ListInv
  BY FS_EmptySet, ClientNodesAssumption
     DEF ListInv, RegistrationExact, Init, InitServer
<1>3. InvolvedInv /\ BusyInv
  BY NodeAssumption DEF InvolvedInv, BusyInv, Involved, Init, InitServer,
     InitWire, InitNodes, IdleHttp, IdleWebsocket, NoReply, Answer
<1>4. RoundInv
  BY ClientNodesAssumption DEF RoundInv, Init, InitServer, IdleWebsocket,
     ListIsFull, Closing
<1> QED BY <1>1, <1>2, <1>3, <1>4 DEF IInv

LEMMA IInvStep == IInv /\ [Next]_vars => IInv'
  BY TypeStep, ListStep, InvolvedStep, BusyStep, RoundStep DEF IInv

\* The invariant the safety theorems rest on.
THEOREM Invariant == Spec => []IInv
PROOF
<1>1. Init => IInv
  BY IInvInit
<1>2. IInv /\ [Next]_vars => IInv'
  BY IInvStep
<1> QED BY <1>1, <1>2, PTL DEF Spec

-----------------------------------------------------------------------------
(* What the invariant gives.                                                *)

\* No board joins twice and none joins a full list, for any number of boards
\* and however their registrations are retried or repeated.
THEOREM RegistrationIsExact == Spec => []RegistrationExact
PROOF
<1>1. IInv => RegistrationExact
  BY DEF IInv, ListInv
<1> QED BY <1>1, Invariant, PTL

\* A model that reaches the server, or is on its way, is a listed node's: the
\* lookup in handle_clint_model_message never yields a null pointer.
THEOREM ModelsHaveOwners == Spec => []NoOrphanModel
PROOF
<1>1. IInv => NoOrphanModel
  BY DEF IInv, InvolvedInv, Involved, NoOrphanModel
<1> QED BY <1>1, Invariant, PTL

\* The round number passes no node, and a closing round has a model of each.
THEOREM RoundsWaitForNodes == Spec => []RoundBehindEveryNode
PROOF
<1>1. IInv => RoundBehindEveryNode
  BY DEF IInv, RoundInv, RoundBehindEveryNode
<1> QED BY <1>1, Invariant, PTL

\* AggregationModel leaves no round unclosed that it could have closed.
THEOREM RoundsAreClosed == Spec => []NoStalledRound
PROOF
<1>1. IInv => NoStalledRound
  BY DEF IInv, RoundInv, NoStalledRound
<1> QED BY <1>1, Invariant, PTL

-----------------------------------------------------------------------------
(* What the boards are told and given: the status between two messages, the *)
(* version of the model a board trains on, the model after the last round,  *)
(* what an average is divided by, and the rounds as a whole, which          *)
(* implement FederatedRounds.                                               *)

\* Registering again puts the status to 1, and no other step of the HTTP thread
\* touches it.
LEMMA OpenStep ==
  ASSUME IInv, RestingServerIsOpen, [Next]_vars
  PROVE  RestingServerIsOpen'
PROOF
<1> USE DEF RestingServerIsOpen, RoundsLeft, ListIsFull
<1>1. ASSUME NEW n \in Node, HandleNodeRegister(n) PROVE RestingServerIsOpen'
  BY <1>1 DEF HandleNodeRegister
<1>2. CASE WebsocketThread
  <2>1. websocket \in [at : {"service", "aggregate", "check", "average",
                            "copy", "advance", "open"},
                       node : Node \cup {NoNode}]
    BY DEF IInv, TypeOK, ServerTypeOK
  <2>2. CASE SumModel
    BY <2>1, <2>2, InteractionCycleAssumption
       DEF SumModel, WebsocketGoes, IInv, TypeOK, ServerTypeOK
  <2>3. CASE CheckAllSent
    BY <2>1, <2>3 DEF CheckAllSent, WebsocketGoes
  <2>4. CASE OpenRound
    BY <2>4 DEF OpenRound
  <2>5. CASE (\E n \in Node : ReceiveModel(n)) \/ AverageAndFree
             \/ CopyAndReset \/ AdvanceInteraction
    BY <2>1, <2>5 DEF ReceiveModel, AverageAndFree, CopyAndReset,
       AdvanceInteraction, WebsocketGoes
  <2> QED BY <1>2, <2>2, <2>3, <2>4, <2>5 DEF WebsocketThread
<1>3. CASE UNCHANGED <<registered, clientnodesregistered, currentinteraction,
                       websocket, globalmodelstatus>>
  BY <1>3
<1>4. \/ \E n \in Node : HandleNodeRegister(n)
      \/ WebsocketThread
      \/ UNCHANGED <<registered, clientnodesregistered, currentinteraction,
                     websocket, globalmodelstatus>>
  BY StepCases DEF vars, serverVars, roundVars, HttpThread, LoadInteraction,
     CompareInteraction, LoadStatus, BeginTraversal, EndTraversal,
     EndTornTraversal, Fault, LosesConnection
<1> QED BY <1>1, <1>2, <1>3, <1>4

\* Between two messages nobody who has to send a model is told to go away.
THEOREM ServerReopens == Spec => []RestingServerIsOpen
PROOF
<1>1. Init => RestingServerIsOpen
  BY ClientNodesAssumption
     DEF Init, InitServer, RestingServerIsOpen, ListIsFull
<1>2. IInv /\ RestingServerIsOpen /\ [Next]_vars => RestingServerIsOpen'
  BY OpenStep
<1> QED BY <1>1, <1>2, Invariant, PTL DEF Spec

-----------------------------------------------------------------------------
LEMMA FrozenStep ==
  ASSUME IInv, [Next]_vars, ~RoundsLeft
  PROVE  UNCHANGED neuralnetwork
  BY StepCases DEF IInv, RoundInv, vars, serverVars, HttpThread,
     HandleNodeRegister, LoadInteraction, CompareInteraction, LoadStatus,
     BeginTraversal, EndTraversal, EndTornTraversal, Fault, LosesConnection,
     WebsocketThread, WebsocketAt, ReceiveModel, SumModel, CheckAllSent,
     AverageAndFree, CopyAndReset, AdvanceInteraction, OpenRound

\* Once the last round is over the published model is final.
THEOREM FinalModelIsFrozen == Spec => FinalModelFrozen
PROOF
<1>1. IInv /\ [Next]_vars => [~RoundsLeft => UNCHANGED neuralnetwork]_vars
  BY FrozenStep
<1> QED BY <1>1, Invariant, PTL DEF Spec, FinalModelFrozen

-----------------------------------------------------------------------------
(* The age of the model a board trains on.                                  *)

\* The published model is one round ahead between copy and advance only.
VersionInv ==
  neuralnetwork.version =
    currentinteraction + (IF websocket.at = "advance" THEN 1 ELSE 0)

ToldInv ==
  /\ \A n \in Node : told[n] <= currentinteraction
  /\ http.at = "status" => http.seen <= currentinteraction

\* A board that is being served has no answer yet and does not train.
ServeInv ==
  /\ http.at # "accept" =>
       reply[http.node].kind = "none" /\ pc[http.node] # "training"
  /\ \A n \in Node : pc[n] = "training" => request[n] = "none"

GivenInv ==
  /\ http.at \in {"traverse", "torn"} => http.seen >= told[http.node]
  /\ \A n \in Node : reply[n].kind = "model" => reply[n].version >= told[n]
  /\ ServedModelIsFresh

FreshInv == VersionInv /\ ToldInv /\ ServeInv /\ GivenInv

LEMMA FreshTypes ==
  ASSUME IInv
  PROVE  /\ request \in [Node -> Endpoint \cup {"none"}]
         /\ reply \in [Node -> [kind : ReplyKind, version : Nat]]
         /\ pc \in [Node -> {"off", "calling", "training"}]
         /\ base \in [Node -> Nat] /\ told \in [Node -> Nat]
         /\ currentinteraction \in Nat
         /\ neuralnetwork \in [live : BOOLEAN, version : Nat]
         /\ http \in [at : {"accept", "compare", "status", "traverse", "torn"},
                      node : Node \cup {NoNode}, seen : Nat, open : BOOLEAN]
         /\ websocket \in [at : {"service", "aggregate", "check", "average",
                                 "copy", "advance", "open"},
                           node : Node \cup {NoNode}]
         /\ http.at # "accept" => http.node \in Node
  BY DEF IInv, TypeOK, WireTypeOK, ServerTypeOK, NodeTypeOK, BusyInv

LEMMA FreshWebsocket ==
  ASSUME IInv, FreshInv, WebsocketThread, UNCHANGED <<nodeVars, faults>>
  PROVE  FreshInv'
PROOF
<1> USE FreshTypes DEF FreshInv, WebsocketAt, WebsocketGoes, WebsocketReturns,
                       IdleWebsocket
<1>1. UNCHANGED <<request, reply, pc, base, told>>
  BY DEF WebsocketThread, ReceiveModel, SumModel, CheckAllSent, AverageAndFree,
     CopyAndReset, AdvanceInteraction, OpenRound, wireVars, nodeVars
<1>2. /\ http'.node = http.node /\ http'.seen = http.seen
      /\ \/ http'.at = http.at
         \/ http.at = "traverse" /\ http'.at = "torn"
  <2>1. http' = http \/ (http.at = "traverse" /\ http' = [http EXCEPT !.at = "torn"])
    BY DEF WebsocketThread, ReceiveModel, SumModel, CheckAllSent,
       AverageAndFree, CopyAndReset, AdvanceInteraction, OpenRound
  <2> QED BY <2>1
<1>3. currentinteraction' \in Nat /\ currentinteraction' >= currentinteraction
  BY DEF WebsocketThread, ReceiveModel, SumModel, CheckAllSent, AverageAndFree,
     CopyAndReset, AdvanceInteraction, OpenRound, roundVars
<1>4. VersionInv'
  <2>1. CASE CopyAndReset
    BY <2>1 DEF VersionInv, CopyAndReset
  <2>2. CASE AdvanceInteraction
    BY <2>2 DEF VersionInv, AdvanceInteraction
  <2>3. CASE (\E n \in Node : ReceiveModel(n)) \/ SumModel \/ CheckAllSent
             \/ AverageAndFree \/ OpenRound
    BY <2>3 DEF VersionInv, ReceiveModel, SumModel, CheckAllSent,
       AverageAndFree, OpenRound, roundVars
  <2> QED BY <2>1, <2>2, <2>3 DEF WebsocketThread
<1>5. ToldInv'
  <2>1. \A n \in Node : told[n] \in Nat /\ told[n] <= currentinteraction
    BY DEF ToldInv
  <2>2. http'.at = "status" => http'.seen \in Nat /\ http'.seen <= currentinteraction
    BY <1>2 DEF ToldInv
  <2> QED BY <1>1, <1>3, <2>1, <2>2 DEF ToldInv
<1>6. ServeInv'
  BY <1>1, <1>2 DEF ServeInv
<1>7. GivenInv'
  BY <1>1, <1>2 DEF GivenInv, ServedModelIsFresh
<1> QED BY <1>4, <1>5, <1>6, <1>7

\* The HTTP thread writes the answer of the board it serves, and only told of
\* that board can change.
LEMMA FreshRespond ==
  ASSUME IInv, FreshInv, NEW kind, NEW version \in Nat, Respond(kind, version),
         UNCHANGED nodeVars, http.at # "accept",
         \A n \in Node \ {http.node} : told'[n] = told[n],
         kind = "model" => /\ http.at \in {"traverse", "torn"}
                           /\ version = http.seen /\ UNCHANGED told
  PROVE  ServeInv' /\ GivenInv'
PROOF
<1> USE FreshTypes DEF FreshInv, Respond, IdleHttp, Answer, nodeVars
<1>1. ServeInv'
  BY DEF ServeInv
<1>2. http'.at = "accept"
  OBVIOUS
<1>3. ASSUME NEW n \in Node, reply'[n].kind = "model"
      PROVE  reply'[n].version >= told'[n]
  <2>1. CASE n # http.node
    BY <1>3, <2>1 DEF GivenInv
  <2>2. CASE n = http.node /\ kind = "model" /\ http.open
    BY <2>2 DEF GivenInv
  <2>3. CASE n = http.node /\ ~(kind = "model" /\ http.open)
    BY <1>3, <2>3 DEF ServeInv
  <2> QED BY <2>1, <2>2, <2>3
<1>4. ServedModelIsFresh'
  BY DEF ServedModelIsFresh, GivenInv, ServeInv
<1> QED BY <1>1, <1>2, <1>3, <1>4 DEF GivenInv

LEMMA FreshHttp ==
  ASSUME IInv, FreshInv, HttpThread, UNCHANGED <<nodeVars, faults>>
  PROVE  FreshInv'
PROOF
<1> USE FreshTypes DEF FreshInv
<1>1. UNCHANGED <<currentinteraction, neuralnetwork, websocket>>
  BY DEF HttpThread, HandleNodeRegister, LoadInteraction, CompareInteraction,
     LoadStatus, BeginTraversal, EndTraversal, EndTornTraversal, roundVars
<1>v. VersionInv'
  BY <1>1 DEF VersionInv
<1>2. ASSUME NEW n \in Node, RespondAtOnce(n, "registered") \/ RespondAtOnce(n, "no"),
             http.at = "accept", UNCHANGED <<told, nodeVars>>
      PROVE  FreshInv'
  <2>1. ServeInv'
    BY <1>2 DEF RespondAtOnce, ServeInv, nodeVars
  <2>2. GivenInv'
    <3>1. \A m \in Node : reply'[m].kind = "model" => reply'[m] = reply[m]
      BY <1>2 DEF RespondAtOnce, Answer
    <3>2. http'.at = "accept" /\ UNCHANGED <<pc, base, told>>
      BY <1>2 DEF RespondAtOnce, nodeVars
    <3> QED BY <3>1, <3>2 DEF GivenInv, ServedModelIsFresh
  <2>3. ToldInv'
    BY <1>1, <1>2 DEF RespondAtOnce, ToldInv
  <2> QED BY <1>v, <2>1, <2>2, <2>3
<1>3. ASSUME NEW n \in Node, HandleNodeRegister(n) PROVE FreshInv'
  BY <1>2, <1>3 DEF HandleNodeRegister, Accepts
<1>4. ASSUME NEW n \in Node, NEW place \in {"compare", "traverse", "torn"},
             NEW seen \in Nat, NEW endpoint \in Endpoint, Accepts(n, endpoint),
             http' = [at |-> place, node |-> n, seen |-> seen, open |-> TRUE],
             place # "compare" => seen = neuralnetwork.version,
             UNCHANGED <<wireVars, nodeVars, told>>
      PROVE  FreshInv'
  <2>1. UNCHANGED <<request, reply, pc, base, told>>
        /\ http'.at = place /\ http'.node = n /\ http'.seen = seen
    BY <1>4 DEF wireVars, nodeVars
  <2>2. reply[n].kind = "none" /\ request[n] # "none"
    BY <1>4 DEF Accepts, Waiting, NoReply, Answer, Endpoint
  <2>3. ServeInv'
    BY <2>1, <2>2 DEF ServeInv
  <2>4. ToldInv'
    BY <1>1, <1>4, <2>1 DEF ToldInv
  <2>5. neuralnetwork.version >= told[n]
    BY DEF VersionInv, ToldInv
  <2>6. GivenInv'
    BY <1>4, <2>1, <2>5 DEF GivenInv, ServedModelIsFresh
  <2> QED BY <1>v, <2>3, <2>4, <2>6
<1>5. ASSUME NEW n \in Node, LoadInteraction(n) PROVE FreshInv'
  <2>1. Accepts(n, "checkglobalmodel") /\ UNCHANGED <<told, nodeVars>>
    BY <1>5 DEF LoadInteraction
  <2>2. interaction[n] \in Nat
    BY DEF IInv, TypeOK, ServerTypeOK
  <2>3. CASE CanBeServed(n)
    BY <1>4, <1>5, <2>1, <2>2, <2>3 DEF LoadInteraction, Endpoint
  <2>4. CASE ~CanBeServed(n)
    BY <1>2, <1>5, <2>1, <2>4 DEF LoadInteraction, Accepts
  <2> QED BY <2>3, <2>4
<1>6. ASSUME NEW n \in Node, BeginTraversal(n) PROVE FreshInv'
  BY <1>4, <1>6 DEF BeginTraversal, Endpoint
<1>7. CASE CompareInteraction
  <2>1. CASE http.seen = currentinteraction
    <3>1. UNCHANGED <<request, reply, pc, base, told>>
          /\ http'.at = "status" /\ http'.node = http.node
          /\ http'.seen = http.seen /\ http.at = "compare"
      BY <1>7, <2>1 DEF CompareInteraction, wireVars, nodeVars
    <3> QED BY <1>1, <1>v, <2>1, <3>1
            DEF ToldInv, ServeInv, GivenInv, ServedModelIsFresh
  <2>2. CASE http.seen # currentinteraction
    <3>1. Respond("no", 0) /\ http.at = "compare" /\ UNCHANGED told
      BY <1>7, <2>2 DEF CompareInteraction
    <3>2. ServeInv' /\ GivenInv'
      BY <3>1, FreshRespond
    <3>3. ToldInv'
      BY <1>1, <3>1 DEF ToldInv, Respond, IdleHttp
    <3> QED BY <1>v, <3>2, <3>3
  <2> QED BY <2>1, <2>2
<1>8. CASE LoadStatus
  <2>1. /\ Respond("yes", 0) \/ Respond("no", 0)
        /\ http.at = "status"
        /\ told' = told \/ told' = [told EXCEPT ![http.node] = http.seen]
    BY <1>8 DEF LoadStatus
  <2>2. ServeInv' /\ GivenInv'
    BY <2>1, FreshRespond
  <2>3. ToldInv'
    BY <1>1, <2>1 DEF ToldInv, Respond, IdleHttp
  <2> QED BY <1>v, <2>2, <2>3
<1>9. CASE EndTraversal \/ EndTornTraversal
  <2>1. /\ http.at \in {"traverse", "torn"} /\ UNCHANGED told
        /\ \/ Respond("model", http.seen)
           \/ Respond("garbled", 0)
           \/ UNCHANGED <<wireVars, http>>
    BY <1>9 DEF EndTraversal, EndTornTraversal
  <2>2. CASE Respond("model", http.seen) \/ Respond("garbled", 0)
    <3>1. ServeInv' /\ GivenInv'
      BY <2>1, <2>2, FreshRespond
    <3>2. ToldInv'
      BY <1>1, <2>1, <2>2 DEF ToldInv, Respond, IdleHttp
    <3> QED BY <1>v, <3>1, <3>2
  <2>3. CASE UNCHANGED <<wireVars, http>>
    BY <1>1, <1>v, <2>1, <2>3 DEF wireVars, nodeVars, ToldInv, ServeInv,
       GivenInv, ServedModelIsFresh
  <2> QED BY <2>1, <2>2, <2>3
<1> QED BY <1>3, <1>5, <1>6, <1>7, <1>8, <1>9 DEF HttpThread

\* A board only moves on from an answer, and forgets it with the next call.
LEMMA FreshBoard ==
  ASSUME IInv, FreshInv, NEW m \in Node,
         \/ NodeStep(m) \/ Restart(m)
         \/ CallGivenUp(m) \/ CallRetried(m) \/ PowerOff(m),
         UNCHANGED <<currentinteraction, neuralnetwork, websocket, told>>,
         http'.node = http.node, http'.at = http.at, http'.seen = http.seen
  PROVE  FreshInv'
PROOF
<1> USE FreshTypes DEF FreshInv, Call, HangUp, BreakLoop, NoReply, Answer,
                       nodeVars
<1>1. VersionInv' /\ ToldInv'
  BY DEF VersionInv, ToldInv
<1>2. \E endpoint : Call(m, endpoint)
  BY DEF NodeStep, Restart, DropLocalModel, CutOffLocalModel, CallGivenUp, CallRetried,
     PowerOff, NodeRegister, GlobalModelStatus, GlobalModel, SendLocalModel, PollAgain
<1>3. /\ reply'[m].kind = "none"
      /\ \A n \in Node \ {m} : reply'[n] = reply[n] /\ request'[n] = request[n]
  BY <1>2
<1>4. \A n \in Node \ {m} : pc'[n] = pc[n] /\ base'[n] = base[n]
  BY DEF NodeStep, Restart, DropLocalModel, CutOffLocalModel, CallGivenUp, CallRetried,
     PowerOff, NodeRegister, GlobalModelStatus, GlobalModel, SendLocalModel, PollAgain
<1>5. ASSUME pc'[m] = "training"
      PROVE  /\ Answered(m, "getglobalmodel", "model")
             /\ base'[m] = reply[m].version /\ request'[m] = "none"
  <2>1. CASE Restart(m) \/ PowerOff(m) \/ PollAgain(m)
    BY <1>5, <2>1 DEF Restart, PowerOff, PollAgain
  <2>2. CASE CallGivenUp(m) \/ CallRetried(m) \/ NodeRegister(m)
             \/ GlobalModelStatus(m)
    BY <1>5, <2>2 DEF CallGivenUp, CallRetried, NodeRegister, ServeInv,
       GlobalModelStatus, Answered
  <2>3. CASE GlobalModel(m)
    BY <1>5, <2>3 DEF GlobalModel, Answered, ServeInv
  <2> QED BY <2>1, <2>2, <2>3 DEF NodeStep, SendLocalModel, DropLocalModel, CutOffLocalModel
<1>6. ServeInv'
  BY <1>3, <1>4, <1>5 DEF ServeInv, Answered
<1>7. GivenInv'
  <2>1. ServedModelIsFresh'
    BY <1>4, <1>5 DEF ServedModelIsFresh, GivenInv, Answered
  <2> QED BY <1>3, <2>1 DEF GivenInv
<1> QED BY <1>1, <1>6, <1>7

LEMMA FreshStep ==
  ASSUME IInv, FreshInv, [Next]_vars
  PROVE  FreshInv'
PROOF
<1>1. CASE UNCHANGED vars
  BY <1>1 DEF vars, wireVars, serverVars, roundVars, nodeVars, FreshInv,
     VersionInv, ToldInv, ServeInv, GivenInv, ServedModelIsFresh
<1>2. ASSUME NEW m \in Node, NodeStep(m) \/ Restart(m),
             UNCHANGED <<serverVars, faults>>
      PROVE  FreshInv'
  BY <1>2, FreshBoard DEF serverVars, roundVars
<1>3. ASSUME NEW m \in Node, Fault(m) PROVE FreshInv'
  <2>1. /\ UNCHANGED <<currentinteraction, neuralnetwork, websocket, told>>
        /\ http'.node = http.node /\ http'.at = http.at
        /\ http'.seen = http.seen
    BY <1>3, FreshTypes DEF Fault, LosesConnection, serverVars, roundVars
  <2> QED BY <1>3, <2>1, FreshBoard DEF Fault
<1>4. ASSUME NEW m \in Node, LoseModel(m), UNCHANGED <<serverVars, nodeVars, faults>>
      PROVE  FreshInv'
  BY <1>4 DEF LoseModel, serverVars, roundVars, nodeVars, FreshInv, VersionInv, ToldInv, ServeInv,
              GivenInv, ServedModelIsFresh
<1> QED BY <1>1, <1>2, <1>3, <1>4, StepCases, FreshHttp, FreshWebsocket

\* A board never trains on a model older than the round it was told to join,
\* though the WebSocket thread may close rounds between the two answers and
\* calls are retried, abandoned and repeated after a reset.
THEOREM ServedModelsAreFresh == Spec => []ServedModelIsFresh
PROOF
<1>1. Init => FreshInv
  BY DEF Init, InitServer, InitNodes, InitWire, IdleHttp, IdleWebsocket,
     NoReply, Answer, FreshInv, VersionInv, ToldInv, ServeInv, GivenInv,
     ServedModelIsFresh
<1>2. IInv /\ FreshInv /\ [Next]_vars => FreshInv'
  BY FreshStep
<1>3. FreshInv => ServedModelIsFresh
  BY DEF FreshInv, GivenInv
<1> QED BY <1>1, <1>2, <1>3, Invariant, PTL DEF Spec

-----------------------------------------------------------------------------
(* The divisor of the average.                                              *)

Summand == Node \X Counters

LEMMA SummandsOf ==
  ASSUME NEW r \in Seq(Summand)
  PROVE  Len(r) \in Nat /\ \A i \in 1..Len(r) : r[i] \in Summand /\ r[i][2] \in Nat
PROOF
<1>1. \A i \in 1..Len(r) : r[i] \in Summand
  BY ElementOfSeq
<1> QED BY <1>1, LenProperties DEF Summand

\* The total is what its recursive definition says.
LEMMA TrainingsAdd ==
  ASSUME NEW r \in Seq(Summand)
  PROVE  /\ Trainings(r)[0] = 0
         /\ \A i \in 1..Len(r) : Trainings(r)[i] = Trainings(r)[i - 1] + r[i][2]
PROOF
<1>1. Len(r) \in Nat /\ \A i \in 1..Len(r) : r[i][2] \in Nat
  BY SummandsOf
<1> DEFINE adds == [x \in (1..Len(r)) \X Nat |-> x[2] + r[x[1]][2]]
<1>2. adds \in [(1..Len(r)) \X Nat -> Nat]
  BY <1>1
<1>3. \A k \in 1..Len(r), v \in Nat : adds[<<k, v>>] = v + r[k][2]
  OBVIOUS
<1> HIDE DEF adds
<1>4. PICK f \in Recursions(Nat, 0, Len(r), adds) : TRUE
  <2>1. 0 \in Nat
    OBVIOUS
  <2>2. Recursions(Nat, 0, Len(r), adds) # {}
    BY <1>1, <1>2, <2>1, RecursionExists
  <2> QED BY <2>2, Zenon
<1>5. f = [i \in 0..Len(r) |-> IF i = 0 THEN 0 ELSE f[i - 1] + r[i][2]]
  <2>1. f \in [0..Len(r) -> Nat] /\ f[0] = 0
    BY <1>4 DEF Recursions
  <2>2. ASSUME NEW k \in 1..Len(r) PROVE f[k] = f[k - 1] + r[k][2]
    <3>1. f[k - 1] \in Nat
      BY <1>1, <2>1
    <3>2. f[k] = adds[<<k, f[k - 1]>>]
      BY <1>4 DEF Recursions
    <3> QED BY <1>3, <3>1, <3>2
  <2> QED BY <1>1, <2>1, <2>2
<1>6. Trainings(r) = [i \in 0..Len(r) |-> IF i = 0 THEN 0 ELSE Trainings(r)[i - 1] + r[i][2]]
  BY <1>5, Zenon DEF Trainings
<1> QED BY <1>1, <1>6

LEMMA NoTraining == TotalTrainings(<<>>) = 0
PROOF
<1>1. <<>> \in Seq(Summand) /\ Len(<<>>) = 0
  OBVIOUS
<1> QED BY <1>1, TrainingsAdd, Zenon DEF TotalTrainings

\* One model more.
LEMMA OneMoreTraining ==
  ASSUME NEW r \in Seq(Summand), NEW x \in Summand
  PROVE  TotalTrainings(Append(r, x)) = TotalTrainings(r) + x[2]
PROOF
<1> DEFINE s == Append(r, x)
           S == {i \in 0..Len(r) : Trainings(s)[i] = Trainings(r)[i]}
<1>1. /\ Len(r) \in Nat /\ s \in Seq(Summand) /\ Len(s) = Len(r) + 1 /\ s[Len(r) + 1] = x
      /\ \A i \in 1..Len(r) : s[i] = r[i]
  BY SummandsOf, AppendProperties
<1> HIDE DEF s
<1>2. 0 \in S
  BY <1>1, TrainingsAdd
<1>3. ASSUME NEW k \in 1..Len(r), k - 1 \in S PROVE k \in S
  <2>1. Trainings(r)[k] = Trainings(r)[k - 1] + r[k][2]
    BY <1>1, TrainingsAdd
  <2>2. k \in 1..Len(s) /\ Trainings(s)[k] = Trainings(s)[k - 1] + s[k][2]
    BY <1>1, TrainingsAdd
  <2> QED BY <1>1, <1>3, <2>1, <2>2
<1> HIDE DEF S
<1>4. 0..Len(r) \subseteq S
  BY <1>1, <1>2, <1>3, BoundedInduction
<1>5. Trainings(s)[Len(r)] = Trainings(r)[Len(r)]
  BY <1>1, <1>4 DEF S
<1>6. Trainings(s)[Len(s)] = Trainings(s)[Len(s) - 1] + s[Len(s)][2]
  <2>1. Len(s) \in 1..Len(s)
    BY <1>1
  <2> QED BY <1>1, <2>1, TrainingsAdd
<1> QED BY <1>1, <1>5, <1>6 DEF TotalTrainings, s

\* The counter is 0 from its reset to that of the sum.
SumInv ==
  IF websocket.at = "copy" THEN trainingscounter = 0
                           ELSE trainingscounter = TotalTrainings(summed)

\* Nothing but AggregationModel touches the sum and the counter.
LEMMA SumStep ==
  ASSUME IInv, SumInv, [Next]_vars
  PROVE  SumInv'
PROOF
<1> USE DEF WebsocketAt, WebsocketGoes, WebsocketReturns, IdleWebsocket
<1>t. /\ summed \in Seq(Summand) /\ trainingscounter \in Nat
      /\ websocket \in [at : {"service", "aggregate", "check", "average",
                              "copy", "advance", "open"},
                        node : Node \cup {NoNode}]
  BY DEF IInv, TypeOK, ServerTypeOK, Summand
<1>1. \/ WebsocketThread
      \/ UNCHANGED <<summed, trainingscounter, websocket>>
  BY StepCases DEF vars, serverVars, roundVars, HttpThread, HandleNodeRegister,
     LoadInteraction, CompareInteraction, LoadStatus, BeginTraversal, EndTraversal,
     EndTornTraversal, Fault, LosesConnection
<1>2. CASE UNCHANGED <<summed, trainingscounter, websocket>>
  BY <1>2 DEF SumInv
<1>3. CASE SumModel /\ ~(currentinteraction >= InteractionCycle)
  <2>1. /\ websocket.at = "aggregate" /\ websocket'.at = "check"
        /\ \E c \in Counters : AddModel(c)
    BY <1>3, <1>t DEF SumModel
  <2>2. PICK c \in Counters : AddModel(c)
    BY <2>1
  <2>3. <<websocket.node, c>> \in Summand
    BY <2>1 DEF IInv, BusyInv, Summand
  <2>4. TotalTrainings(summed') = TotalTrainings(summed) + c
    BY <1>t, <2>2, <2>3, OneMoreTraining DEF AddModel
  <2> QED BY <2>1, <2>2, <2>4 DEF SumInv, AddModel
<1>4. CASE SumModel /\ currentinteraction >= InteractionCycle
  BY <1>4 DEF SumModel, SumInv
<1>5. CASE \/ \E n \in Node : ReceiveModel(n)
           \/ CheckAllSent \/ OpenRound \/ AdvanceInteraction
  BY <1>5, <1>t DEF ReceiveModel, CheckAllSent, OpenRound, AdvanceInteraction, roundVars,
     SumInv
<1>6. CASE AverageAndFree
  BY <1>6, <1>t DEF AverageAndFree, SumInv
<1>7. CASE CopyAndReset
  <2>1. /\ websocket.at = "copy" /\ websocket'.at = "advance" /\ summed' = <<>>
        /\ trainingscounter' = 0
    BY <1>7, <1>t DEF CopyAndReset, SumInv
  <2> QED BY <2>1, NoTraining DEF SumInv
<1> QED BY <1>1, <1>2, <1>3, <1>4, <1>5, <1>6, <1>7 DEF WebsocketThread

\* The average is divided by the counters of the models that are in the sum, added
\* up as they came: no training of a round is counted in the next, and none twice.
\* How many they are is for the boards to say, and may be none.
THEOREM DivisorIsTheTrainings == Spec => []DivisorMatchesSum
PROOF
<1>1. Init => SumInv
  BY NoTraining DEF Init, InitServer, IdleWebsocket, SumInv
<1>2. IInv /\ SumInv /\ [Next]_vars => SumInv'
  BY SumStep
<1>3. SumInv => DivisorMatchesSum
  BY DEF SumInv, DivisorMatchesSum
<1> QED BY <1>1, <1>2, <1>3, Invariant, PTL DEF Spec

-----------------------------------------------------------------------------
(***************************************************************************)
(* FederatedSystem implements FederatedRounds: its threads, boards and     *)
(* faults take the list, the counts of models and the round number only    *)
(* through steps the abstract specification allows.                        *)
(***************************************************************************)

\* The instance has a copy of Cardinality of its own.
LEMMA SameCardinality == \A S : Rounds!Cardinality(S) = Cardinality(S)
  BY DEF Cardinality, Rounds!Cardinality

LEMMA InitImplements == Init => Rounds!RoundsInit
  BY DEF Init, InitServer, Rounds!RoundsInit

\* A registration is a Join or changes nothing the promise speaks of.
LEMMA RegisterImplements ==
  ASSUME IInv, NEW n \in Node, HandleNodeRegister(n)
  PROVE  [Rounds!RoundsNext]_(Rounds!roundsVars)
PROOF
<1>1. clientnodesregistered = Cardinality(registered)
  BY DEF IInv, ListInv, RegistrationExact
<1>2. CASE IsAdmitted(n)
  <2>1. Rounds!Join(n)
    BY <1>1, <1>2, SameCardinality
       DEF HandleNodeRegister, IsAdmitted, Rounds!Join, Rounds!IsComplete
  <2> QED BY <2>1 DEF Rounds!RoundsNext
<1>3. CASE ~IsAdmitted(n)
  BY <1>3 DEF HandleNodeRegister, Rounds!roundsVars
<1> QED BY <1>2, <1>3

\* Taking up a message is a Deliver: it is the message of a member, and no
\* round is waiting to be closed.
LEMMA ReceiveImplements ==
  ASSUME IInv, NEW n \in Node, ReceiveModel(n)
  PROVE  Rounds!Deliver(n)
PROOF
<1>1. /\ websocket.at = "service" /\ n \in registered /\ ListIsFull
      /\ interaction' = [interaction EXCEPT ![n] = @ + 1]
      /\ UNCHANGED <<registered, currentinteraction>>
  BY DEF ReceiveModel, WebsocketAt, IInv, InvolvedInv, Involved
<1>2. Rounds!IsComplete
  BY <1>1, SameCardinality
     DEF Rounds!IsComplete, ListIsFull, IInv, ListInv, RegistrationExact
<1>3. ~Rounds!CanClose
  BY <1>1 DEF Rounds!CanClose, IInv, RoundInv, RoundsLeft, Sent
<1> QED BY <1>1, <1>2, <1>3 DEF Rounds!Deliver

\* Advancing the round is a CloseRound: every member has sent its model.
LEMMA AdvanceImplements ==
  ASSUME IInv, AdvanceInteraction
  PROVE  Rounds!CloseRound
PROOF
<1>1. /\ websocket.at = "advance"
      /\ currentinteraction' = currentinteraction + 1
      /\ UNCHANGED <<registered, interaction>>
  BY DEF AdvanceInteraction, WebsocketAt
<1>2. ListIsFull /\ RoundsLeft /\ \A m \in registered : Sent(m)
  BY <1>1 DEF IInv, BusyInv, InvolvedInv, Involved, RoundInv, Closing
<1>3. Rounds!CanClose
  BY <1>2, SameCardinality
     DEF Rounds!CanClose, Rounds!IsComplete, ListIsFull, RoundsLeft, Sent, IInv,
         ListInv, RegistrationExact
<1> QED BY <1>1, <1>3 DEF Rounds!CloseRound

LEMMA StepImplements ==
  ASSUME IInv, [Next]_vars
  PROVE  [Rounds!RoundsNext]_(Rounds!roundsVars)
PROOF
<1>1. ASSUME NEW n \in Node, HandleNodeRegister(n)
      PROVE  [Rounds!RoundsNext]_(Rounds!roundsVars)
  BY <1>1, RegisterImplements
<1>2. CASE WebsocketThread
  <2>1. CASE \E n \in Node : ReceiveModel(n)
    BY <2>1, ReceiveImplements DEF Rounds!RoundsNext
  <2>2. CASE AdvanceInteraction
    BY <2>2, AdvanceImplements DEF Rounds!RoundsNext
  <2>3. CASE SumModel \/ CheckAllSent \/ AverageAndFree \/ CopyAndReset
             \/ OpenRound
    BY <2>3 DEF SumModel, CheckAllSent, AverageAndFree, CopyAndReset, OpenRound,
       roundVars, Rounds!roundsVars
  <2> QED BY <1>2, <2>1, <2>2, <2>3 DEF WebsocketThread
<1>3. CASE UNCHANGED roundState
  BY <1>3 DEF roundState, Rounds!roundsVars
<1> QED BY <1>1, <1>2, <1>3, RoundFrame

\* The detailed system implements the promise of FederatedRounds, for every set
\* of boards, every limit and every number of rounds.
THEOREM SystemImplementsRounds == Spec => ImplementsRounds
PROOF
<1>1. Init => Rounds!RoundsInit
  BY InitImplements
<1>2. IInv /\ [Next]_vars => [Rounds!RoundsNext]_(Rounds!roundsVars)
  BY StepImplements
<1> QED BY <1>1, <1>2, Invariant, PTL DEF Spec, ImplementsRounds, Rounds!RoundsSpec
=============================================================================
