------------------------ MODULE WebsocketClientProofs ------------------------
(***************************************************************************)
(* The WebSocket client of a board keeps its connections apart, for any    *)
(* number of sessions, connections, fragments and frames on their way,     *)
(* with and without reconnection.                                          *)
(***************************************************************************)
EXTENDS WebsocketClient, TLAPS

Alive == {"begun", "top", "locked", "pinged", "tail", "polling", "waiting"}

\* The lock is held where the code holds it.
LockInv ==
  /\ lock = "user" <=> user = "writing"
  /\ lock = "task" <=> task \in {"locked", "pinged"}

\* The task and the bits: one task, which has not set STOPPED_BIT while it runs.
TaskInv ==
  /\ leaving + (IF task = "none" THEN 0 ELSE 1) <= starts
  /\ task = "none" => transport = 0
  /\ leaving > 0 /\ task # "none" => overlapped
  /\ task \in {"created", "begun"} => state = "UNKNOW" /\ user # "writing"
  /\ "STOPPED" \in status_bits =>
       task = "none" \/ (task \in {"created", "begun"} /\ user = "starting")
  /\ task = "waiting" => state # "CONNECTED" /\ user # "writing"

\* A client that does not run has been stopped, or has lost its connection for good.
RunInv ==
  ~run /\ task \in Alive =>
    user = "stopping" \/ (~AutoReconnect /\ task # "begun" /\ state \in {"WAIT_TIMEOUT", "UNKNOW"})

\* The connection and what is being written to it.
WritingInv ==
  /\ state = "WAIT_TIMEOUT" => transport = 0
  /\ user \in {"locking", "writing"} => writing.left >= 1
  /\ user = "writing" => state \notin {"INIT", "CLOSING"}
  /\ user = "writing" /\ transport # 0 =>
       /\ writing.on = transport
       /\ state = "UNKNOW" => overlapped
       /\ IF writing.kind = "CLOSE" THEN peer.seen = 0 ELSE peer.seen + writing.left <= Fragments
  /\ user # "writing" /\ transport # 0 /\ peer.seen > 0 => state # "CONNECTED" /\ overlapped

PollInv == task \in {"top", "locked", "pinged"} /\ state = "CONNECTED" => polled = transport

ClientInv == WsTypeOK /\ LockInv /\ TaskInv /\ RunInv /\ WritingInv /\ PollInv

PeerType ==
  [open : BOOLEAN, gotClose : BOOLEAN, sentClose : BOOLEAN, seen : 0..(Fragments - 1)]

WritingType ==
  [kind : {"TEXT", "CLOSE"}, left : 0..Fragments, on : 0..MaxConnections]

USE FragmentsAssumption, SwitchAssumption, BoundsAssumption

LEMMA ClientInitial == InitClient => ClientInv
PROOF
<1> SUFFICES ASSUME InitClient PROVE ClientInv
  OBVIOUS
<1>1. inbox \in Seq(Frame) /\ Len(inbox) = 0
  BY DEF InitClient, Frame
<1>2. /\ peer \in PeerType
      /\ writing \in [kind : {"TEXT", "CLOSE"}, left : 0..Fragments, on : 0..MaxConnections]
  BY DEF InitClient, NoPeer, Nothing, PeerType
<1>3. /\ user = "idle" /\ task = "none" /\ transport = 0 /\ leaving = 0 /\ lock = "free"
      /\ state = "UNKNOW" /\ status_bits = {} /\ starts = 0
  BY DEF InitClient
<1>4. WsTypeOK
  <2>1. 0 \in 0..MaxConnections /\ 0 \in 0..MaxStarts /\ 0 \in -1..1 /\ 0 \in 0..0 /\ 0 <= MaxFrames
    BY DEF BoundsAssumption
  <2>2. connections = 0 /\ read_select = 0 /\ polled = 0 /\ memory = "live" /\ run = FALSE
        /\ selected_for_destroying = FALSE /\ overlapped = FALSE
    BY DEF InitClient
  <2> QED BY <1>1, <1>2, <1>3, <2>1, <2>2 DEF WsTypeOK, State, PeerType
<1>5. LockInv /\ TaskInv /\ RunInv /\ WritingInv /\ PollInv
  BY <1>3 DEF LockInv, TaskInv, RunInv, WritingInv, PollInv, Alive
<1> QED BY <1>4, <1>5 DEF ClientInv

\* A step of esp_websocket_client_task, to its STOPPED_BIT.
LEMMA TaskStep ==
  ASSUME ClientInv, TaskRuns
  PROVE  ClientInv'
PROOF
<1> USE DEF ClientInv, WsTypeOK, State, Frame, LockInv, TaskInv, RunInv, WritingInv, PollInv, Alive
<1>1. ASSUME TaskBegins PROVE ClientInv'
  BY <1>1 DEF TaskBegins, At, linkVars, userVars, startVars
<1>2. ASSUME TaskSetsUp PROVE ClientInv'
  BY <1>2 DEF TaskSetsUp, ClearBits, At, linkVars, userVars, startVars
<1>3. ASSUME TaskTakesLock PROVE ClientInv'
  BY <1>3 DEF TaskTakesLock, LockIsFree, At, linkVars, userVars, startVars
<1>4. ASSUME TaskSeesStop PROVE ClientInv'
  BY <1>4 DEF TaskSeesStop, At, LeavesLoop, clientVars, linkVars, userVars, startVars
<1>5. ASSUME Connect PROVE ClientInv'
  <2>1. /\ peer' = [open |-> TRUE, gotClose |-> FALSE, sentClose |-> FALSE, seen |-> 0]
        /\ peer' \in PeerType /\ inbox' \in Seq(Frame) /\ Len(inbox') = 0
    <3>1. peer' = [open |-> TRUE, gotClose |-> FALSE, sentClose |-> FALSE, seen |-> 0]
      BY <1>5, Zenon DEF Connect, NoPeer
    <3>2. inbox' = <<>>
      BY <1>5, Zenon DEF Connect
    <3> QED BY <3>1, <3>2 DEF PeerType
  <2>2. WsTypeOK'
    <3>1. /\ connections' = connections + 1 /\ transport' = connections + 1
          /\ connections' <= MaxConnections /\ state' = "CONNECTED" /\ lock' = "free"
          /\ task' = "tail"
          /\ UNCHANGED <<memory, selected_for_destroying, read_select, polled, leaving, user, starts,
                         overlapped, writing, run, status_bits>>
      BY <1>5 DEF Connect, Case, At, userVars, startVars
    <3>2. transport' \in 0..connections' /\ connections' \in 0..MaxConnections
      BY <3>1
    <3>3. inbox' \in Seq(Frame) /\ Len(inbox') <= MaxFrames
      BY <2>1
    <3>4. WsTypeOK
      OBVIOUS
    <3> HIDE DEF ClientInv, LockInv, TaskInv, RunInv, WritingInv, PollInv
    <3> QED BY <2>1, <3>1, <3>2, <3>3, <3>4 DEF PeerType
  <2>3. LockInv' /\ TaskInv' /\ RunInv' /\ WritingInv' /\ PollInv'
    BY <1>5, <2>1 DEF Connect, NoPeer, Case, At, userVars, startVars
  <2> QED BY <2>2, <2>3
<1>6. ASSUME ConnectFails PROVE ClientInv'
  BY <1>6 DEF ConnectFails, Case, At, userVars, startVars
<1>7. ASSUME Ping PROVE ClientInv'
  <2>1. peer' = peer /\ inbox' \in Seq(Frame) /\ Len(inbox') <= MaxFrames
    <3>1. inbox \in Seq(Frame) /\ Len(inbox) \in Nat /\ Len(inbox) <= MaxFrames /\ "PONG" \in Frame
      OBVIOUS
    <3>2. /\ peer' = peer
          /\ (inbox' = Append(inbox, "PONG") /\ Len(inbox) < MaxFrames) \/ inbox' = inbox
      BY <1>7 DEF Ping, SendControl
    <3> QED BY <3>1, <3>2, SMTT(30) DEF Frame
  <2>2. WsTypeOK'
    BY <1>7, <2>1 DEF Ping, SendControl, At, ClosingNotInitiated, clientVars, userVars,
           startVars, Writable, PeerType
  <2>3. LockInv' /\ TaskInv' /\ RunInv' /\ WritingInv' /\ PollInv'
    BY <1>7, <2>1 DEF Ping, SendControl, At, ClosingNotInitiated, clientVars, userVars,
           startVars, Writable
  <2> QED BY <2>2, <2>3
<1>8. ASSUME PongTimesOut PROVE ClientInv'
  BY <1>8 DEF PongTimesOut, Abort, ClosingNotInitiated, CaseConnected, At, userVars, startVars
<1>9. ASSUME NothingToRead PROVE ClientInv'
  BY <1>9 DEF NothingToRead, CaseConnected, linkVars, At, userVars, startVars
<1>10. ASSUME Receive PROVE ClientInv'
  BY <1>10 DEF Receive, CaseConnected, At, userVars, startVars
<1>11. ASSUME ReadTimesOut PROVE ClientInv'
  BY <1>11 DEF ReadTimesOut, CaseConnected, linkVars, At, userVars, startVars
<1>12. ASSUME ReadFails PROVE ClientInv'
  BY <1>12 DEF ReadFails, Abort, CaseConnected, At, userVars, startVars
<1>13. ASSUME WaitForReconnect PROVE ClientInv'
  BY <1>13 DEF WaitForReconnect, Case, linkVars, At, userVars, startVars
<1>14. ASSUME Reconnect PROVE ClientInv'
  BY <1>14 DEF Reconnect, Case, linkVars, At, userVars, startVars
<1>15. ASSUME Closing PROVE ClientInv'
  <2>1. peer' \in PeerType /\ peer'.seen = peer.seen /\ inbox' = inbox
    BY <1>15 DEF Closing, Case, Echo, SendControl, ClosingNotInitiated, Writable, At, userVars,
           startVars, PeerType
  <2>2. WsTypeOK'
    BY <1>15, <2>1 DEF Closing, Case, Echo, SendControl, ClosingNotInitiated, Writable, At,
           userVars, startVars, PeerType
  <2>3. LockInv' /\ TaskInv' /\ RunInv' /\ WritingInv' /\ PollInv'
    BY <1>15, <2>1 DEF Closing, Case, Echo, SendControl, ClosingNotInitiated, Writable, At,
           userVars, startVars
  <2> QED BY <2>2, <2>3
<1>16. ASSUME DefaultState PROVE ClientInv'
  BY <1>16 DEF DefaultState, Case, linkVars, At, userVars, startVars
<1>17. ASSUME StartsPoll PROVE ClientInv'
  BY <1>17 DEF StartsPoll, GoesTo, At, clientVars, linkVars, userVars, startVars
<1>18. ASSUME WaitsForClose PROVE ClientInv'
  BY <1>18 DEF WaitsForClose, ClosingNotInitiated, GoesTo, At, clientVars, linkVars, userVars,
         startVars
<1>19. ASSUME GoesRound PROVE ClientInv'
  BY <1>19 DEF GoesRound, ClosingNotInitiated, GoesTo, At, clientVars, linkVars, userVars,
         startVars
<1>20. ASSUME PollReturns PROVE ClientInv'
  BY <1>20 DEF PollReturns, At, clientVars, linkVars, userVars, startVars
<1>21. ASSUME PollFails PROVE ClientInv'
  BY <1>21 DEF PollFails, Abort, At, userVars, startVars
<1>22. ASSUME StillOpen PROVE ClientInv'
  BY <1>22 DEF StillOpen, At, clientVars, linkVars, userVars, startVars
<1>23. ASSUME ConnectionClosed PROVE ClientInv'
  <2>1. WsTypeOK'
    BY <1>23 DEF ConnectionClosed, At, userVars, startVars
  <2>2. LockInv' /\ TaskInv' /\ RunInv' /\ WritingInv' /\ PollInv'
    BY <1>23 DEF ConnectionClosed, At, userVars, startVars
  <2> QED BY <2>1, <2>2
<1>24. ASSUME Exit PROVE ClientInv'
  BY <1>24 DEF Exit, At, userVars, startVars
<1> QED BY <1>1, <1>2, <1>3, <1>4, <1>5, <1>6, <1>7, <1>8, <1>9, <1>10, <1>11, <1>12, <1>13,
           <1>14, <1>15, <1>16, <1>17, <1>18, <1>19, <1>20, <1>21, <1>22, <1>23, <1>24 DEF
           TaskRuns

\* The running flag cleared, the application waits for STOPPED_BIT.
LEMMA StopRunningTyped ==
  ASSUME WsTypeOK, StopRunning, user' = "stopping",
         UNCHANGED <<memory, state, status_bits, lock, selected_for_destroying, linkVars, taskVars,
                     starts, writing>>
  PROVE  WsTypeOK'
PROOF
<1>1. run' = FALSE /\ overlapped' \in BOOLEAN
  BY Zenon DEF StopRunning
<1>2. UNCHANGED <<memory, state, status_bits, lock, selected_for_destroying, transport, connections,
                  peer, inbox, task, read_select, polled, leaving, starts, writing>>
  BY DEF linkVars, taskVars
<1> QED BY <1>1, <1>2, ZenonT(30) DEF WsTypeOK

\* A step of a call the application has made.
LEMMA CallStep ==
  ASSUME ClientInv, CallRuns
  PROVE  ClientInv'
PROOF
<1> USE DEF ClientInv, WsTypeOK, State, Frame, LockInv, TaskInv, RunInv, WritingInv, PollInv, Alive
<1>1. ASSUME EndStart PROVE ClientInv'
  BY <1>1 DEF EndStart, Free, ClearBits, linkVars, taskVars
<1>2. ASSUME Lock PROVE ClientInv'
  <2>1. CASE state = "CONNECTED"
    <3>1. writing' = [writing EXCEPT !.on = transport]
      BY <1>2, <2>1, Zenon DEF Lock
    <3>2. writing' \in WritingType /\ writing'.kind = writing.kind /\ writing'.left = writing.left
          /\ writing'.on = transport
      <4>1. writing \in WritingType /\ transport \in 0..MaxConnections
        BY DEF WritingType, BoundsAssumption
      <4> HIDE DEF ClientInv, WsTypeOK, LockInv, TaskInv, RunInv, WritingInv, PollInv
      <4> QED BY <3>1, <4>1 DEF WritingType
    <3>3. /\ user = "locking" /\ user' = "writing" /\ lock = "free" /\ lock' = "user"
          /\ UNCHANGED <<memory, state, run, status_bits, selected_for_destroying, transport,
                         connections, peer, inbox, task, read_select, polled, leaving, starts,
                         overlapped>>
      BY <1>2, <2>1 DEF Lock, Free, LockIsFree, linkVars, taskVars, startVars
    <3>4. WsTypeOK'
      <4>1. WsTypeOK
        OBVIOUS
      <4> HIDE DEF ClientInv, LockInv, TaskInv, RunInv, WritingInv, PollInv
      <4> QED BY <3>2, <3>3, <4>1 DEF WritingType
    <3> QED BY <2>1, <3>2, <3>3, <3>4
  <2>2. CASE state # "CONNECTED"
    <3>1. writing' = Nothing /\ user' = AfterSend
      BY <1>2, <2>2, Zenon DEF Lock
    <3>2. writing' \in WritingType /\ user' \in {"idle", "closeSent"}
      BY <3>1 DEF Nothing, WritingType, AfterSend
    <3>3. /\ user = "locking"
          /\ UNCHANGED <<memory, state, run, status_bits, lock, selected_for_destroying, transport,
                         connections, peer, inbox, task, read_select, polled, leaving, starts,
                         overlapped>>
      BY <1>2, <2>2 DEF Lock, Free, linkVars, taskVars, startVars
    <3>4. WsTypeOK'
      <4>1. WsTypeOK
        OBVIOUS
      <4> HIDE DEF ClientInv, LockInv, TaskInv, RunInv, WritingInv, PollInv
      <4> QED BY <3>2, <3>3, <4>1 DEF WritingType
    <3> QED BY <3>2, <3>3, <3>4
  <2> QED BY <2>1, <2>2
<1>3. ASSUME WriteFragment PROVE ClientInv'
  <2>1. CASE writing.kind = "CLOSE"
    <3>1. peer' \in PeerType /\ peer'.seen = peer.seen
      BY <1>3, <2>1 DEF WriteFragment, Nothing, Writable, Free, AfterSend, LastFragment,
             taskVars, startVars, PeerType
    <3>2. writing' \in WritingType
      <4>1. /\ user = "writing" /\ writing.left \in 1..Fragments /\ writing \in WritingType
            /\ writing' = IF LastFragment THEN Nothing
                          ELSE [writing EXCEPT !.left = writing.left - 1]
        BY <1>3 DEF WriteFragment, Free, WritingType
      <4>2. CASE LastFragment
        BY <4>1, <4>2 DEF Nothing, WritingType
      <4>3. CASE ~LastFragment
        <5>1. writing.left - 1 \in 0..Fragments
          BY <4>1, <4>3, SMTT(30) DEF LastFragment
        <5> QED BY <4>1, <4>3, <5>1 DEF WritingType
      <4> QED BY <4>2, <4>3
    <3>3. WsTypeOK'
      BY <1>3, <2>1, <3>1, <3>2 DEF WriteFragment, Free, AfterSend, taskVars, startVars, PeerType,
             WritingType
    <3>4. LockInv' /\ TaskInv' /\ RunInv' /\ WritingInv' /\ PollInv'
      BY <1>3, <2>1, <3>1 DEF WriteFragment, Nothing, Writable, Free, AfterSend, LastFragment,
             taskVars, startVars
    <3> QED BY <3>3, <3>4
  <2>2. CASE writing.kind = "TEXT"
    <3>1. /\ peer' \in PeerType
          /\ peer'.seen = IF LastFragment THEN 0 ELSE peer.seen + 1
      <4>1. /\ peer' = [peer EXCEPT !.seen = IF LastFragment THEN 0 ELSE peer.seen + 1]
            /\ user = "writing" /\ transport # 0 /\ peer \in PeerType
        BY <1>3, <2>2 DEF WriteFragment, Writable, Free, PeerType
      <4>2. writing.left >= 1 /\ peer.seen + writing.left <= Fragments
        BY <2>2, <4>1
      <4>3. (IF LastFragment THEN 0 ELSE peer.seen + 1) \in 0..(Fragments - 1)
        BY <4>1, <4>2, SMTT(30) DEF LastFragment, PeerType
      <4> QED BY <4>1, <4>3 DEF PeerType
    <3>2. writing' \in WritingType
      <4>1. /\ user = "writing" /\ writing.left \in 1..Fragments /\ writing \in WritingType
            /\ writing' = IF LastFragment THEN Nothing
                          ELSE [writing EXCEPT !.left = writing.left - 1]
        BY <1>3 DEF WriteFragment, Free, WritingType
      <4>2. CASE LastFragment
        BY <4>1, <4>2 DEF Nothing, WritingType
      <4>3. CASE ~LastFragment
        <5>1. writing.left - 1 \in 0..Fragments
          BY <4>1, <4>3, SMTT(30) DEF LastFragment
        <5> QED BY <4>1, <4>3, <5>1 DEF WritingType
      <4> QED BY <4>2, <4>3
    <3>3. WsTypeOK'
      BY <1>3, <2>2, <3>1, <3>2 DEF WriteFragment, Free, AfterSend, taskVars, startVars, PeerType,
             WritingType
    <3>4. LockInv' /\ TaskInv' /\ RunInv' /\ WritingInv' /\ PollInv'
      BY <1>3, <2>2, <3>1, SMTT(30) DEF WriteFragment, Nothing, Writable, Free, AfterSend, LastFragment,
             taskVars, startVars
    <3> QED BY <3>3, <3>4
  <2> QED BY <2>1, <2>2
<1>4. ASSUME WriteFails PROVE ClientInv'
  BY <1>4 DEF WriteFails, Nothing, Abort, Free, AfterSend, taskVars, startVars
<1>5. ASSUME StopReturns PROVE ClientInv'
  BY <1>5 DEF StopReturns, Free, TaskHasStopped, linkVars, taskVars, startVars
<1>6. ASSUME SetCloseBit PROVE ClientInv'
  BY <1>6 DEF SetCloseBit, Free, linkVars, taskVars, startVars
<1>7. ASSUME CloseReturns PROVE ClientInv'
  BY <1>7 DEF CloseReturns, Free, TaskHasStopped, clientVars, linkVars, taskVars, startVars
<1>8. ASSUME CloseTimesOut PROVE ClientInv'
  <2>1. WsTypeOK'
    BY <1>8, StopRunningTyped DEF CloseTimesOut
  <2>2. LockInv' /\ TaskInv' /\ RunInv' /\ WritingInv' /\ PollInv'
    BY <1>8 DEF CloseTimesOut, Free, StopRunning, linkVars, taskVars
  <2> QED BY <2>1, <2>2
<1> QED BY <1>1, <1>2, <1>3, <1>4, <1>5, <1>6, <1>7, <1>8 DEF CallRuns

\* A call of the application.
LEMMA CallsStep ==
  ASSUME ClientInv, Calls
  PROVE  ClientInv'
PROOF
<1> USE DEF ClientInv, WsTypeOK, State, Frame, LockInv, TaskInv, RunInv, WritingInv, PollInv, Alive
<1>1. ASSUME Start PROVE ClientInv'
  <2>1. WsTypeOK'
    BY <1>1 DEF Start, Free, CreateTransport, clientVars
  <2>2. LockInv' /\ TaskInv' /\ RunInv' /\ WritingInv' /\ PollInv'
    <3>1. /\ leaving \in Nat /\ task = "none" /\ task' = "created" /\ user' = "starting"
          /\ starts' = starts + 1 /\ state' = "UNKNOW" /\ transport' = 0
          /\ overlapped' = (overlapped \/ leaving > 0)
          /\ UNCHANGED <<leaving, status_bits, lock, run>>
      BY <1>1 DEF Start, Free, CreateTransport, clientVars
    <3>2. leaving + 1 <= starts'
      <4>1. leaving \in Nat /\ starts \in Nat /\ leaving + 0 <= starts
        BY <3>1 DEF BoundsAssumption
      <4> HIDE DEF ClientInv
      <4> QED BY <3>1, <4>1
    <3>3. TaskInv'
      BY <3>1, <3>2
    <3>4. LockInv' /\ RunInv' /\ PollInv'
      BY <1>1, <3>1 DEF Start, Free
    <3>5. WritingInv'
      BY <1>1, <3>1 DEF Start, Free
    <3> QED BY <3>3, <3>4, <3>5
  <2> QED BY <2>1, <2>2
<1>2. ASSUME Stop PROVE ClientInv'
  <2>1. WsTypeOK'
    BY <1>2, StopRunningTyped DEF Stop
  <2>2. LockInv' /\ TaskInv' /\ RunInv' /\ WritingInv' /\ PollInv'
    BY <1>2 DEF Stop, Free, StopRunning, linkVars, taskVars
  <2> QED BY <2>1, <2>2
<1>3. ASSUME Destroy PROVE ClientInv'
  BY <1>3 DEF Destroy, Free, FreeResources, taskVars, startVars
<1>4. ASSUME DestroyOnExit PROVE ClientInv'
  BY <1>4 DEF DestroyOnExit, Free, linkVars, taskVars, startVars
<1>5. ASSUME NEW kind \in {"TEXT", "CLOSE"}, Send(kind) PROVE ClientInv'
  BY <1>5 DEF Send, Free, clientVars, linkVars, taskVars, startVars
<1>6. ASSUME StartTwice PROVE ClientInv'
  BY <1>6 DEF StartTwice, Free, linkVars, taskVars
<1> QED BY <1>1, <1>2, <1>3, <1>4, <1>5, <1>6 DEF Calls

\* The other end of the connection, and the last statements of a task.
LEMMA ServerStep ==
  ASSUME ClientInv, Server \/ Leave
  PROVE  ClientInv'
PROOF
<1> USE DEF ClientInv, WsTypeOK, State, Frame, LockInv, TaskInv, RunInv, WritingInv, PollInv, Alive
<1>1. ASSUME PeerCloses PROVE ClientInv'
  <2>1. peer' \in PeerType /\ peer'.seen = peer.seen
    BY <1>1 DEF PeerCloses, clientVars, taskVars, userVars, startVars, PeerType
  <2>2. WsTypeOK'
    BY <1>1, <2>1 DEF PeerCloses, clientVars, taskVars, userVars, startVars, PeerType
  <2>3. LockInv' /\ TaskInv' /\ RunInv' /\ WritingInv' /\ PollInv'
    BY <1>1, <2>1 DEF PeerCloses, clientVars, taskVars, userVars, startVars
  <2> QED BY <2>2, <2>3
<1>2. ASSUME NEW kind \in {"TEXT", "PING", "CLOSE"}, PeerSends(kind) PROVE ClientInv'
  <2>1. /\ peer' \in PeerType /\ peer'.seen = peer.seen
        /\ inbox' \in Seq(Frame) /\ Len(inbox') <= MaxFrames
    <3>1. inbox \in Seq(Frame) /\ Len(inbox) \in Nat /\ peer \in PeerType /\ kind \in Frame
      BY <1>2 DEF PeerType
    <3>2. /\ inbox' = Append(inbox, kind) /\ Len(inbox) < MaxFrames
          /\ peer' = [peer EXCEPT !.sentClose = (kind = "CLOSE")]
      BY <1>2, Zenon DEF PeerSends
    <3>3. peer' \in PeerType /\ peer'.seen = peer.seen
      BY <3>1, <3>2 DEF PeerType
    <3>4. inbox' \in Seq(Frame) /\ Len(inbox') <= MaxFrames
      <4> HIDE DEF ClientInv, Frame
      <4> QED BY <3>1, <3>2 DEF BoundsAssumption
    <3> QED BY <3>3, <3>4
  <2>2. WsTypeOK'
    BY <1>2, <2>1 DEF PeerSends, clientVars, taskVars, userVars, startVars, PeerType
  <2>3. LockInv' /\ TaskInv' /\ RunInv' /\ WritingInv' /\ PollInv'
    BY <1>2, <2>1 DEF PeerSends, clientVars, taskVars, userVars, startVars
  <2> QED BY <2>2, <2>3
<1>3. ASSUME Leave PROVE ClientInv'
  BY <1>3 DEF Leave, FreeResources, userVars, startVars
<1> QED BY <1>1, <1>2, <1>3 DEF Server

LEMMA ClientStep == ClientInv /\ [NextClient]_wsVars => ClientInv'
PROOF
<1> SUFFICES ASSUME ClientInv, [NextClient]_wsVars PROVE ClientInv'
  OBVIOUS
<1>1. CASE UNCHANGED wsVars
  BY <1>1 DEF wsVars, clientVars, linkVars, taskVars, userVars, startVars, ClientInv, WsTypeOK,
       LockInv, TaskInv, RunInv, WritingInv, PollInv
<1>2. CASE NextClient
  BY <1>2, TaskStep, CallStep, CallsStep, ServerStep DEF NextClient
<1> QED BY <1>1, <1>2

\* The types, and the bounds of the fragments a server has seen of a text.
THEOREM ClientTypeCorrect == ClientSpec => []WsTypeOK
PROOF
<1>1. ClientInv => WsTypeOK
  BY DEF ClientInv
<1> QED BY <1>1, ClientInitial, ClientStep, PTL DEF ClientSpec

\* A text is written to one connection, a text that was cut off is never followed
\* by another one, and what is read was polled on the connection it is read from.
THEOREM ClientKeepsConnectionsApart == ClientSpec => []ConnectionsAreKeptApart
PROOF
<1>1. ClientInv => ConnectionsAreKeptApart
  BY DEF ClientInv, WsTypeOK, LockInv, WritingInv, PollInv, ConnectionsAreKeptApart,
         OneConnectionPerMessage, CutOffTextEndsConnection, ReadsWhatItPolled, Writable
<1> QED BY <1>1, ClientInitial, ClientStep, PTL DEF ClientSpec
=============================================================================
