--------------------------- MODULE WebsocketClient ---------------------------
(***************************************************************************)
(* The client a board uploads its model with (esp_websocket_client.c): the *)
(* application that starts, sends, closes, stops and destroys it, the task *)
(* xTaskCreate gives it, the recursive lock and the event group the two    *)
(* share, and the server at the other end of the connection.               *)
(*                                                                         *)
(* What one of the two does while it holds the lock is one step, except    *)
(* for a message, which is written fragment by fragment: the task polls,   *)
(* and gives a connection up, without the lock.  A connection is known by  *)
(* its number, and 0 is a closed transport.  Ping intervals and time-outs  *)
(* are choices here; module KeepAlive has the clock.                       *)
(***************************************************************************)
EXTENDS Integers, Sequences

CONSTANTS
  Fragments,       \* pieces of buffer_size one model text is written in
  AutoReconnect,   \* config->auto_reconnect
  MaxStarts,       \* bound: calls of esp_websocket_client_start
  ServerCloses,    \* the server closes TCP within a second of the CLOSE frames
  MaxConnections,  \* bound: connections the server accepts
  MaxFrames        \* bound: frames on their way to the client

ASSUME FragmentsAssumption == Fragments \in Nat \ {0}
ASSUME SwitchAssumption == AutoReconnect \in BOOLEAN /\ ServerCloses \in BOOLEAN
ASSUME BoundsAssumption == MaxStarts \in Nat /\ MaxConnections \in Nat /\ MaxFrames \in Nat

State == {"UNKNOW", "INIT", "CONNECTED", "WAIT_TIMEOUT", "CLOSING"}
Frame == {"TEXT", "PING", "PONG", "CLOSE"}

VARIABLES
  memory,       \* the client: live, freed by destroy_and_free_resources, or shared by
                \* two tasks
  state, run, status_bits, lock, selected_for_destroying,
  transport,    \* number of the open connection, 0 when it is closed
  connections,  \* connections made so far
  task,         \* where esp_websocket_client_task is
  read_select,  \* what its last poll returned
  polled,       \* the connection of that poll
  leaving,      \* tasks past xEventGroupSetBits(STOPPED_BIT), not yet deleted
  user,         \* where the application is
  starts,
  writing,      \* the message being written: its kind, fragments left, connection
  peer,         \* the server's end: open, CLOSE seen, CLOSE sent, fragments seen
  inbox,        \* frames on their way to the client
  overlapped    \* start has met a task of the last session, which had not ended yet, or
                \* the end of its own, whose STOPPED_BIT it has cleared; or stop has met
                \* a task that had not begun

clientVars == <<memory, state, run, status_bits, lock, selected_for_destroying>>
linkVars   == <<transport, connections, peer, inbox>>
taskVars   == <<task, read_select, polled, leaving>>
startVars  == <<starts, overlapped>>
userVars   == <<user, startVars, writing>>
wsVars == <<clientVars, linkVars, taskVars, userVars>>

NoPeer == [open |-> FALSE, gotClose |-> FALSE, sentClose |-> FALSE, seen |-> 0]
Nothing == [kind |-> "TEXT", left |-> 0, on |-> 0]

\* esp_websocket_client_init
InitClient ==
  /\ memory = "live" /\ state = "UNKNOW" /\ run = FALSE /\ status_bits = {}
  /\ lock = "free" /\ selected_for_destroying = FALSE
  /\ transport = 0 /\ connections = 0
  /\ task = "none" /\ read_select = 0 /\ polled = 0 /\ leaving = 0
  /\ user = "idle" /\ starts = 0 /\ writing = Nothing
  /\ peer = NoPeer /\ inbox = <<>> /\ overlapped = FALSE

-----------------------------------------------------------------------------
\* esp_websocket_client_abort_connection, of whoever calls it.
Abort ==
  IF state = "UNKNOW" THEN UNCHANGED <<transport, state>>
  ELSE /\ transport' = 0
       /\ state' = "WAIT_TIMEOUT"

\* The connection is up as far as a write can tell.
Writable == transport # 0 /\ peer.open

\* esp_transport_ws_send_raw of a frame that is no part of a message.
SendControl(kind) ==
  IF Writable
  THEN /\ peer' = IF kind = "CLOSE" THEN [peer EXCEPT !.gotClose = TRUE] ELSE peer
       /\ inbox' = IF kind = "PING" /\ Len(inbox) < MaxFrames THEN Append(inbox, "PONG")
                                                               ELSE inbox
  ELSE UNCHANGED <<peer, inbox>>

-----------------------------------------------------------------------------
(* The application. *)

Free(at) == user = at /\ memory = "live"

\* esp_websocket_client_create_transport: the list of the last session goes, and
\* what it still had open.
CreateTransport == transport' = 0

\* esp_websocket_client_start up to and including xTaskCreate.
Start ==
  /\ Free("idle")
  /\ state = "UNKNOW"
  /\ task = "none"
  /\ starts < MaxStarts
  /\ starts' = starts + 1
  /\ CreateTransport
  /\ task' = "created"
  /\ user' = "starting"
  /\ overlapped' = (overlapped \/ leaving > 0)
  /\ UNCHANGED <<clientVars, connections, peer, inbox, read_select, polled, leaving, writing>>

\* Another start before the task of the last one has ended: the state alone is looked
\* at, which is UNKNOW before a task has set it and at the end of one, too.  From here
\* two tasks share the client, and are not followed any further.
StartTwice ==
  /\ Free("idle")
  /\ state = "UNKNOW"
  /\ task # "none"
  /\ starts < MaxStarts
  /\ starts' = starts + 1
  /\ memory' = "shared"
  /\ overlapped' = TRUE
  /\ UNCHANGED <<state, run, status_bits, lock, selected_for_destroying, linkVars, taskVars, user,
                 writing>>

ClearBits == status_bits' = {}

\* ... and its last statement.
EndStart ==
  /\ Free("starting")
  /\ ClearBits
  /\ user' = "idle"
  /\ overlapped' = (overlapped \/ (task = "none" /\ "STOPPED" \in status_bits))
  /\ UNCHANGED <<memory, state, run, lock, selected_for_destroying, linkVars, taskVars, starts,
                 writing>>

\* esp_websocket_client_send_with_opcode asks for the lock.
Send(kind) ==
  /\ Free("idle")
  /\ starts > 0
  /\ kind = "CLOSE" => run
  /\ user' = "locking"
  /\ writing' = [kind |-> kind, left |-> IF kind = "CLOSE" THEN 1 ELSE Fragments, on |-> 0]
  /\ UNCHANGED <<clientVars, linkVars, taskVars, startVars>>

\* Where the application goes on when the lock is given back.
AfterSend == IF writing.kind = "CLOSE" THEN "closeSent" ELSE "idle"

\* Slip: the lock is not asked for.
LockAtAnyTime == TRUE

LockIsFree == lock = "free"

Lock ==
  /\ Free("locking")
  /\ LockIsFree
  /\ IF state = "CONNECTED"
     THEN lock' = "user" /\ user' = "writing" /\ writing' = [writing EXCEPT !.on = transport]
     ELSE user' = AfterSend /\ writing' = Nothing /\ UNCHANGED lock
  /\ UNCHANGED <<memory, state, run, status_bits, selected_for_destroying, linkVars, taskVars,
                 startVars>>

\* Slip: widx <= len.
PastLastFragment == writing.left = 0

LastFragment == writing.left = 1

\* One turn of the loop of esp_websocket_client_send_with_exact_opcode.
WriteFragment ==
  /\ Free("writing")
  /\ Writable
  /\ LET done == LastFragment
     IN  /\ user' = IF done THEN AfterSend ELSE "writing"
         /\ lock' = IF done THEN "free" ELSE lock
         /\ writing' = IF done THEN Nothing ELSE [writing EXCEPT !.left = @ - 1]
         /\ peer' = IF writing.kind = "CLOSE" THEN [peer EXCEPT !.gotClose = TRUE]
                    ELSE [peer EXCEPT !.seen = IF done THEN 0 ELSE @ + 1]
  /\ UNCHANGED <<memory, state, run, status_bits, selected_for_destroying, transport,
                 connections, inbox, taskVars, startVars>>

\* The write fails: the connection is given up with the lock held.
WriteFails ==
  /\ Free("writing")
  /\ Abort
  /\ lock' = "free"
  /\ user' = AfterSend
  /\ writing' = Nothing
  /\ UNCHANGED <<memory, run, status_bits, selected_for_destroying, connections, peer, inbox,
                 taskVars, startVars>>

\* A task that has not begun sets run again and does not see the stop.
StopRunning == run' = FALSE /\ overlapped' = (overlapped \/ task = "created")

\* esp_websocket_client_stop: nothing happens unless the task has set run.
Stop ==
  /\ Free("idle")
  /\ run
  /\ StopRunning
  /\ user' = "stopping"
  /\ UNCHANGED <<memory, state, status_bits, lock, selected_for_destroying, linkVars, taskVars,
                 starts, writing>>

TaskHasStopped == "STOPPED" \in status_bits

StopReturns ==
  /\ Free("stopping")
  /\ TaskHasStopped
  /\ state' = "UNKNOW"
  /\ user' = "idle"
  /\ UNCHANGED <<memory, run, status_bits, lock, selected_for_destroying, linkVars, taskVars,
                 startVars, writing>>

\* esp_websocket_client_close_with_optional_body after the CLOSE frame.
SetCloseBit ==
  /\ Free("closeSent")
  /\ status_bits' = status_bits \cup {"CLOSE_FRAME_SENT"}
  /\ user' = "closing"
  /\ UNCHANGED <<memory, state, run, lock, selected_for_destroying, linkVars, taskVars, startVars,
                 writing>>

CloseReturns ==
  /\ Free("closing")
  /\ TaskHasStopped
  /\ user' = "idle"
  /\ UNCHANGED <<clientVars, linkVars, taskVars, startVars, writing>>

CloseTimesOut ==
  /\ Free("closing")
  /\ StopRunning
  /\ user' = "stopping"
  /\ UNCHANGED <<memory, state, status_bits, lock, selected_for_destroying, linkVars, taskVars,
                 starts, writing>>

\* destroy_and_free_resources.
FreeResources == memory' = "freed" /\ transport' = 0

\* esp_websocket_client_destroy of a client that does not run; one that does is
\* stopped first, which is Stop.
Destroy ==
  /\ Free("idle")
  /\ ~run
  /\ FreeResources
  /\ user' = "gone"
  /\ UNCHANGED <<state, run, status_bits, lock, selected_for_destroying, connections, peer,
                 inbox, taskVars, startVars, writing>>

\* esp_websocket_client_destroy_on_exit: the handle is not used any more.
DestroyOnExit ==
  /\ Free("idle")
  /\ run
  /\ selected_for_destroying' = TRUE
  /\ user' = "gone"
  /\ UNCHANGED <<memory, state, run, status_bits, lock, linkVars, taskVars, startVars, writing>>

-----------------------------------------------------------------------------
(* esp_websocket_client_task. *)

At(place) == task = place /\ memory = "live"

\* From the first statement of the task to its loop, in two steps: run is set
\* before the state and the bits are.
TaskBegins ==
  /\ At("created")
  /\ run' = TRUE
  /\ task' = "begun"
  /\ UNCHANGED <<memory, state, status_bits, lock, selected_for_destroying, linkVars,
                 read_select, polled, leaving, userVars>>

TaskSetsUp ==
  /\ At("begun")
  /\ state' = "INIT"
  /\ ClearBits
  /\ read_select' = 0
  /\ task' = "top"
  /\ UNCHANGED <<memory, run, lock, selected_for_destroying, linkVars, polled, leaving, userVars>>

TaskTakesLock ==
  /\ At("top")
  /\ run
  /\ LockIsFree
  /\ lock' = "task"
  /\ task' = "locked"
  /\ UNCHANGED <<memory, state, run, status_bits, selected_for_destroying, linkVars, read_select,
                 polled, leaving, userVars>>

LeavesLoop == ~run

TaskSeesStop ==
  /\ At("top")
  /\ LeavesLoop
  /\ task' = "exit"
  /\ UNCHANGED <<clientVars, linkVars, read_select, polled, leaving, userVars>>

\* The switch on the state, up to and including xSemaphoreGiveRecursive.
Case(s) ==
  /\ At("locked")
  /\ state = s
  /\ lock' = "free"
  /\ task' = "tail"
  /\ UNCHANGED <<memory, selected_for_destroying, read_select, polled, leaving, userVars>>

Connect ==
  /\ Case("INIT")
  /\ connections < MaxConnections
  /\ connections' = connections + 1
  /\ transport' = connections + 1
  /\ peer' = [NoPeer EXCEPT !.open = TRUE]
  /\ inbox' = <<>>
  /\ state' = "CONNECTED"
  /\ UNCHANGED <<run, status_bits>>

ConnectFails ==
  /\ Case("INIT")
  /\ transport' = 0
  /\ state' = "WAIT_TIMEOUT"
  /\ UNCHANGED <<run, status_bits, connections, peer, inbox>>

ClosingNotInitiated == "CLOSE_FRAME_SENT" \notin status_bits

Ping ==
  /\ At("locked") /\ state = "CONNECTED"
  /\ ClosingNotInitiated
  /\ SendControl("PING")
  /\ task' = "pinged"
  /\ UNCHANGED <<clientVars, transport, connections, read_select, polled, leaving, userVars>>

\* ... and the rest of the case, with the PING sent or not due.
CaseConnected ==
  /\ At("locked") \/ At("pinged")
  /\ state = "CONNECTED"
  /\ lock' = "free"
  /\ task' = "tail"
  /\ UNCHANGED <<memory, run, status_bits, selected_for_destroying, read_select, polled, leaving,
                 userVars>>

PongTimesOut ==
  /\ CaseConnected
  /\ ClosingNotInitiated
  /\ Abort
  /\ UNCHANGED <<connections, peer, inbox>>

NothingToRead ==
  /\ CaseConnected
  /\ read_select = 0
  /\ UNCHANGED <<state, linkVars>>

\* esp_websocket_client_recv of the next frame.
Receive ==
  /\ CaseConnected
  /\ read_select = 1
  /\ inbox # <<>>
  /\ inbox' = Tail(inbox)
  /\ state' = IF Head(inbox) = "CLOSE" THEN "CLOSING" ELSE state
  /\ UNCHANGED <<transport, connections, peer>>

\* The read times out, or the connection was lost.
ReadTimesOut ==
  /\ CaseConnected
  /\ read_select = 1
  /\ inbox = <<>> /\ peer.open
  /\ UNCHANGED <<state, linkVars>>

ReadFails ==
  /\ CaseConnected
  /\ read_select = 1
  /\ Abort
  /\ UNCHANGED <<connections, peer, inbox>>

WaitForReconnect ==
  /\ Case("WAIT_TIMEOUT")
  /\ run' = (run /\ AutoReconnect)
  /\ UNCHANGED <<state, status_bits, linkVars>>

Reconnect ==
  /\ AutoReconnect
  /\ Case("WAIT_TIMEOUT")
  /\ state' = "INIT"
  /\ UNCHANGED <<run, status_bits, linkVars>>

\* Slip: CLOSE is echoed but the bit is not set.
EchoesOnly == UNCHANGED status_bits /\ SendControl("CLOSE")

Echo == IF ClosingNotInitiated
        THEN SendControl("CLOSE") /\ status_bits' = status_bits \cup {"CLOSE_FRAME_SENT"}
        ELSE UNCHANGED <<status_bits, peer, inbox>>

Closing ==
  /\ Case("CLOSING")
  /\ Echo
  /\ UNCHANGED <<state, run, transport, connections>>

DefaultState ==
  /\ Case("UNKNOW")
  /\ UNCHANGED <<state, run, status_bits, linkVars>>

\* After the lock is given back: the state is read again.
GoesTo(place) ==
  /\ At("tail")
  /\ task' = place
  /\ UNCHANGED <<clientVars, linkVars, read_select, polled, leaving, userVars>>

StartsPoll == state = "CONNECTED" /\ GoesTo("polling")

WaitsForClose == state = "CLOSING" /\ ~ClosingNotInitiated /\ GoesTo("waiting")

GoesRound ==
  /\ state \in {"INIT", "WAIT_TIMEOUT", "UNKNOW"} \/ (state = "CLOSING" /\ ClosingNotInitiated)
  /\ GoesTo("top")

\* Bytes of a frame that is not complete make the connection readable as well.
PollReturns ==
  /\ At("polling")
  /\ transport # 0
  /\ read_select' \in IF inbox # <<>> \/ ~peer.open THEN {1} ELSE {0, 1}
  /\ polled' = transport
  /\ task' = "top"
  /\ UNCHANGED <<clientVars, linkVars, leaving, userVars>>

\* The connection is lost, or was closed under the poll.
PollFails ==
  /\ At("polling")
  /\ read_select' = -1
  /\ polled' = transport
  /\ Abort
  /\ task' = "top"
  /\ UNCHANGED <<memory, run, status_bits, lock, selected_for_destroying, connections, peer,
                 inbox, leaving, userVars>>

\* esp_transport_ws_poll_connection_closed returns 0 while the server keeps the
\* connection: the break meant for the switch leaves the loop.
StillOpen ==
  /\ At("waiting")
  /\ transport # 0 /\ peer.open
  /\ ~ServerCloses
  /\ task' = "exit"
  /\ UNCHANGED <<clientVars, linkVars, read_select, polled, leaving, userVars>>

ConnectionClosed ==
  /\ At("waiting")
  /\ transport = 0 \/ ~peer.open
  /\ run' = FALSE
  /\ state' = "UNKNOW"
  /\ task' = "exit"
  /\ UNCHANGED <<memory, status_bits, lock, selected_for_destroying, transport, connections, peer,
                 inbox, read_select, polled, leaving, userVars>>

\* The end of the task, in two steps: who waits for STOPPED_BIT goes on before
\* the task has read the client for the last time.
Exit ==
  /\ At("exit")
  /\ transport' = 0
  /\ status_bits' = status_bits \cup {"STOPPED"}
  /\ leaving' = leaving + 1
  /\ task' = "none"
  /\ UNCHANGED <<memory, state, run, lock, selected_for_destroying, connections, peer,
                 inbox, read_select, polled, userVars>>

Leave ==
  /\ leaving > 0 /\ memory = "live"
  /\ leaving' = leaving - 1
  /\ state' = "UNKNOW"
  /\ IF selected_for_destroying THEN FreeResources ELSE UNCHANGED <<memory, transport>>
  /\ UNCHANGED <<run, status_bits, lock, selected_for_destroying, connections, peer, inbox,
                 task, read_select, polled, userVars>>

-----------------------------------------------------------------------------
(* The server at the other end. *)

PeerSends(kind) ==
  /\ transport # 0 /\ peer.open /\ ~peer.sentClose
  /\ Len(inbox) < MaxFrames
  /\ inbox' = Append(inbox, kind)
  /\ peer' = [peer EXCEPT !.sentClose = (kind = "CLOSE")]
  /\ UNCHANGED <<clientVars, transport, connections, taskVars, userVars>>

PeerCloses ==
  /\ transport # 0 /\ peer.open
  /\ peer' = [peer EXCEPT !.open = FALSE]
  /\ UNCHANGED <<clientVars, transport, connections, inbox, taskVars, userVars>>

-----------------------------------------------------------------------------
TaskRuns ==
  \/ TaskBegins \/ TaskSetsUp \/ TaskTakesLock \/ TaskSeesStop \/ Connect \/ ConnectFails \/ Ping
  \/ PongTimesOut \/ NothingToRead \/ Receive \/ ReadTimesOut \/ ReadFails \/ WaitForReconnect
  \/ Reconnect \/ Closing \/ DefaultState \/ StartsPoll \/ WaitsForClose \/ GoesRound \/ PollReturns
  \/ PollFails \/ StillOpen \/ ConnectionClosed \/ Exit

\* What a call of the application does until it returns.
CallRuns ==
  \/ EndStart \/ Lock \/ WriteFragment \/ WriteFails \/ StopReturns \/ SetCloseBit \/ CloseReturns
  \/ CloseTimesOut

Calls ==
  \/ Start \/ StartTwice \/ Stop \/ Destroy \/ DestroyOnExit
  \/ \E kind \in {"TEXT", "CLOSE"} : Send(kind)

Server == PeerCloses \/ \E kind \in {"TEXT", "PING", "CLOSE"} : PeerSends(kind)

NextClient == TaskRuns \/ Leave \/ CallRuns \/ Calls \/ Server

ClientSpec == InitClient /\ [][NextClient]_wsVars

\* Both threads of the board are scheduled.  A waiting sender gets the lock: the
\* task gives it back in every turn and polls, or sleeps, for a second without
\* it.  The wait for a reconnection passes.  A call of close has a time-out.  The
\* server ends a connection it has sent CLOSE on.
ClientFairness ==
  /\ WF_wsVars(TaskRuns) /\ WF_wsVars(Leave)
  /\ WF_wsVars(EndStart \/ WriteFragment \/ WriteFails \/ SetCloseBit \/ CloseTimesOut)
  /\ WF_wsVars(StopReturns)
  /\ SF_wsVars(Lock) /\ SF_wsVars(Reconnect)
  /\ WF_wsVars(PeerCloses /\ peer.sentClose)

FairClientSpec == ClientSpec /\ ClientFairness

-----------------------------------------------------------------------------
WsTypeOK ==
  /\ memory \in {"live", "freed", "shared"} /\ state \in State /\ run \in BOOLEAN
  /\ status_bits \subseteq {"STOPPED", "CLOSE_FRAME_SENT"}
  /\ lock \in {"free", "task", "user"} /\ selected_for_destroying \in BOOLEAN
  /\ transport \in 0..connections /\ connections \in 0..MaxConnections
  /\ task \in {"none", "created", "begun", "top", "locked", "pinged", "tail", "polling", "waiting",
               "exit"}
  /\ read_select \in -1..1 /\ polled \in 0..MaxConnections /\ leaving \in 0..MaxStarts
  /\ user \in {"idle", "starting", "locking", "writing", "closeSent", "closing", "stopping", "gone"}
  /\ starts \in 0..MaxStarts
  /\ writing \in [kind : {"TEXT", "CLOSE"}, left : 0..Fragments, on : 0..MaxConnections]
  /\ peer \in [open : BOOLEAN, gotClose : BOOLEAN, sentClose : BOOLEAN, seen : 0..(Fragments - 1)]
  /\ inbox \in Seq(Frame) /\ Len(inbox) <= MaxFrames /\ overlapped \in BOOLEAN

\* The fragments of one model text reach the server on one connection, although
\* the task gives a connection up while the application writes to it: what can
\* still be written goes to the connection the text began on.
OneConnectionPerMessage == user = "writing" /\ Writable => writing.on = transport

\* A server that has seen a part of a text sees the rest, or the connection is
\* given up: a text that was cut off is never followed by another one, unless the
\* end of the last task has set the state of this session to UNKNOW, in which
\* nothing is given up.
CutOffTextEndsConnection ==
  ~overlapped /\ peer.seen > 0 /\ transport # 0 => user = "writing" /\ writing.on = transport

\* What the task reads was polled on the connection it reads from, whatever was
\* given up and reconnected since.
ReadsWhatItPolled ==
  task \in {"locked", "pinged"} /\ state = "CONNECTED" => polled = transport

\* esp_websocket_client_stop returns, and so does close, unless start has cleared
\* the bit they wait for or the task sets run after them.
CallsReturn ==
  user \in {"stopping", "closing", "closeSent"} ~> (user \in {"idle", "gone"} \/ overlapped)

\* A lost connection is tried again for as long as the client runs.  With two
\* tasks at once the client may forget that it waits for a reconnection.
TriesAgain ==
  (AutoReconnect /\ state = "WAIT_TIMEOUT") ~> (state = "INIT" \/ ~run \/ overlapped)

\* A connection the server has asked to close ends, if only one task is there.
HandshakeEnds == state = "CLOSING" ~> (transport = 0 \/ overlapped)

\* The task gives a connection up and opens the next one without the lock, while
\* the application may be writing: every text, every poll and every read keeps to
\* the connection it began on.
ConnectionsAreKeptApart ==
  OneConnectionPerMessage /\ CutOffTextEndsConnection /\ ReadsWhatItPolled

\* Whatever the two ends do, a call returns, a lost connection is tried again and a
\* closing handshake ends, as long as start and stop meet a task neither at its end
\* nor before its beginning.
NothingIsStuck == CallsReturn /\ TriesAgain /\ HandshakeEnds
=============================================================================
