------------------------------- MODULE EdgeNode -------------------------------
(***************************************************************************)
(* The program of one ESP32 board: app_main registers the board, then      *)
(* deep_learning asks for the status, fetches the global model, trains on  *)
(* it and pushes the result, until the status is 0.  A board whose         *)
(* app_main has returned does nothing until it is reset.                   *)
(***************************************************************************)
EXTENDS FederatedWire

VARIABLES
  pc,     \* pc[n]: "off" (app_main returned), "calling" or "training"
  base    \* base[n]: version of the global model n trains on, else 0

nodeVars == <<pc, base>>

InitNodes ==
  /\ pc = [n \in Node |-> "calling"]
  /\ base = [n \in Node |-> 0]

\* Reset and button: app_main runs again and registers the board.
Restart(n) ==
  /\ pc[n] = "off"
  /\ pc' = [pc EXCEPT ![n] = "calling"]
  /\ Call(n, "noderegister")
  /\ UNCHANGED <<base, uplinkState>>

\* getregisternode prints the answer and does not look at it.
NodeRegister(n) ==
  /\ Answered(n, "noderegister", "registered")
  /\ Call(n, "checkglobalmodel")
  /\ UNCHANGED <<pc, base, uplinkState>>

\* deep_learning breaks out of its loop on status 0.
BreakLoop(n) ==
  /\ pc' = [pc EXCEPT ![n] = "off"]
  /\ HangUp(n)

GlobalModelStatus(n) ==
  /\ \/ /\ Answered(n, "checkglobalmodel", "yes")
        /\ Call(n, "getglobalmodel")
        /\ UNCHANGED pc
     \/ /\ Answered(n, "checkglobalmodel", "no")
        /\ BreakLoop(n)
  /\ UNCHANGED <<base, uplinkState>>

\* global_model asks again while the answer does not parse; then
\* replaceNeuralNetwork installs the model and the training starts.
GlobalModel(n) ==
  /\ \/ /\ Answered(n, "getglobalmodel", "model")
        /\ base' = [base EXCEPT ![n] = reply[n].version]
        /\ pc' = [pc EXCEPT ![n] = "training"]
        /\ HangUp(n)
     \/ /\ Answered(n, "getglobalmodel", "garbled")
        /\ Call(n, "getglobalmodel")
        /\ UNCHANGED nodeVars
  /\ UNCHANGED uplinkState

PollAgain(n) ==
  /\ pc[n] = "training"
  /\ pc' = [pc EXCEPT ![n] = "calling"]
  /\ Call(n, "checkglobalmodel")
  /\ base' = [base EXCEPT ![n] = 0]

\* NeuralNetworkTraining, then websocket_send_local_model with a connection
\* that lasts to the last fragment.  Behind the beginning of another model no
\* text is ever complete again.
SendLocalModel(n) ==
  /\ PollAgain(n)
  /\ uplink[n] < MaxInFlight
  /\ uplink' = IF jammed THEN uplink ELSE [uplink EXCEPT ![n] = @ + 1]
  /\ UNCHANGED jammed

\* esp_websocket_client_is_connected is still false: the model is dropped
\* without a word and the loop goes on.
DropLocalModel(n) == PollAgain(n) /\ UNCHANGED uplinkState

\* The write fails after some fragments, which nobody looks at either.
CutOffLocalModel(n) ==
  /\ PollAgain(n)
  /\ jammed' = TRUE
  /\ UNCHANGED uplink

\* perform_get_request fails: no answer came, or it came too late.  After
\* MAX_RETRIES it leaves no response ...
CallGivenUp(n) ==
  /\ \/ request[n] = "noderegister" /\ Call(n, "checkglobalmodel") /\ UNCHANGED pc
     \/ request[n] = "checkglobalmodel" /\ BreakLoop(n)
     \/ request[n] = "getglobalmodel" /\ Call(n, "getglobalmodel") /\ UNCHANGED pc
  /\ UNCHANGED <<base, uplinkState>>

\* ... and before that it sends the request again.
CallRetried(n) ==
  /\ request[n] # "none"
  /\ Call(n, request[n])
  /\ UNCHANGED <<nodeVars, uplinkState>>

\* At any time, and so in the middle of an upload.
PowerOff(n) ==
  /\ pc[n] # "off"
  /\ BreakLoop(n)
  /\ base' = [base EXCEPT ![n] = 0]
  /\ jammed' \in {jammed, jammed \/ pc[n] = "training"}
  /\ UNCHANGED uplink

NodeStep(n) ==
  \/ NodeRegister(n)
  \/ GlobalModelStatus(n)
  \/ GlobalModel(n)
  \/ SendLocalModel(n)
  \/ DropLocalModel(n)
  \/ CutOffLocalModel(n)

NodeTypeOK ==
  /\ pc \in [Node -> {"off", "calling", "training"}]
  /\ base \in [Node -> Nat]

=============================================================================
