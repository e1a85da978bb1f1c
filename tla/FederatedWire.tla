---------------------------- MODULE FederatedWire ----------------------------
(***************************************************************************)
(* What the edge nodes and the central server share: one blocking HTTP     *)
(* call per node (httpclient.c performs one request at a time) and the     *)
(* local models a node has pushed over its WebSocket that the server has   *)
(* not taken up yet.  All uploads go through one buffer of the server,     *)
(* received_json; ModelUplink says what becomes of them there.             *)
(***************************************************************************)
EXTENDS Naturals

CONSTANTS
  Node,         \* the boards, identified by the IP address the server sees
  NoNode,       \* "no board": an idle server thread serves it
  MaxInFlight   \* bound: models of one board under way at the same time

ASSUME NodeAssumption == NoNode \notin Node
ASSUME MaxInFlightAssumption == MaxInFlight \in Nat \ {0}

VARIABLES
  request,      \* request[n]: the endpoint node n is blocked on, or "none"
  reply,        \* reply[n]: what the server wrote back to that request
  uplink,       \* uplink[n]: local models of n sent and not yet handled
  jammed        \* received_json begins with a model whose end never comes

uplinkState == <<uplink, jammed>>
wireVars == <<request, reply, uplinkState>>

Endpoint == {"noderegister", "checkglobalmodel", "getglobalmodel"}

\* A reply is a kind and, for a model, the version of the model it carries.
ReplyKind == {"none", "registered", "yes", "no", "model", "garbled"}
Answer(kind, version) == [kind |-> kind, version |-> version]
NoReply == Answer("none", 0)

WireTypeOK ==
  /\ request \in [Node -> Endpoint \cup {"none"}]
  /\ reply \in [Node -> [kind : ReplyKind, version : Nat]]
  /\ uplink \in [Node -> Nat]
  /\ jammed \in BOOLEAN

InitWire ==
  /\ request = [n \in Node |-> "noderegister"]
  /\ reply = [n \in Node |-> NoReply]
  /\ uplink = [n \in Node |-> 0]
  /\ jammed = FALSE

\* perform_get_request(endpoint): issue a call and wait for its answer.
Call(n, endpoint) ==
  /\ request' = [request EXCEPT ![n] = endpoint]
  /\ reply' = [reply EXCEPT ![n] = NoReply]

\* The call of n is over and no other follows.
HangUp(n) == Call(n, "none")

Waiting(n, endpoint) == request[n] = endpoint /\ reply[n] = NoReply
Answered(n, endpoint, kind) == request[n] = endpoint /\ reply[n].kind = kind

\* A model does not arrive: its session ends, or is refused, before or between
\* two fragments, or it shares a text with another.  What there is of it stays
\* in received_json.
LoseModel(n) ==
  /\ uplink[n] > 0
  /\ uplink' = [uplink EXCEPT ![n] = @ - 1]
  /\ jammed' \in {jammed, TRUE}
  /\ UNCHANGED <<request, reply>>

=============================================================================
