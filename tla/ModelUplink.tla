----------------------------- MODULE ModelUplink -----------------------------
(***************************************************************************)
(* How local models reach the server (websocketserver.c).  A board opens a *)
(* session for one model and its text arrives in fragments.  callback_echo *)
(* appends the fragments of every session to the one static received_json  *)
(* until its braces balance, then queues the text under the address of the *)
(* session; handle_message empties the queue after each lws_service.       *)
(*                                                                         *)
(* A text is a sequence of fragments <<n, k, i>>, the i-th of the k-th     *)
(* model of n, all of the same size.  A model starts with a brace that its *)
(* last fragment closes.                                                   *)
(***************************************************************************)
EXTENDS Naturals, FiniteSets, Sequences, SequencesExt

CONSTANTS
  Node,
  Fragments,     \* fragments of one model
  MaxJsonSize,   \* MAX_JSON_SIZE in fragments
  MaxModels      \* bound: models one board sends

ASSUME FragmentsAssumption == Fragments \in Nat \ {0}
ASSUME MaxJsonSizeAssumption == MaxJsonSize \in Nat
ASSUME MaxModelsAssumption == MaxModels \in Nat

VARIABLES
  sent,           \* sent[n]: sessions n has opened, one for each model
  session,        \* boards with an open session
  arrived,        \* arrived[n]: fragments of that session the server has seen
  received_json,  \* text received and not yet complete
  buffer,         \* the list of client_message: texts and their ip_id
  handling,       \* the thread is in handle_message, not in lws_service
  delivered,      \* the models handed to AggregationModel: <<ip, n, k>>
  lost,           \* the models that will never be: <<n, k>>
  rejected,       \* those refused with "Received message too big"
  disturbed       \* a session died or two sessions overlapped

uplinkVars == <<sent, session, arrived, received_json, buffer, handling, delivered, lost,
                rejected, disturbed>>

InitUplink ==
  /\ sent = [n \in Node |-> 0]
  /\ session = {}
  /\ arrived = [n \in Node |-> 0]
  /\ received_json = <<>>
  /\ buffer = <<>>
  /\ handling = FALSE
  /\ delivered = <<>>
  /\ lost = {}
  /\ rejected = {}
  /\ disturbed = FALSE

ModelsIn(text) == {<<text[i][1], text[i][2]>> : i \in DOMAIN text}

\* Slip: the last fragment of any model completes the text.
EndsModel(text) == text # <<>> /\ Last(text)[3] = Fragments

\* The braces balance when every model that has begun has ended.
IsCompleteJson(text) ==
  text # <<>> /\ \A m \in ModelsIn(text) :
    Contains(text, <<m[1], m[2], Fragments>>)

\* Slip: what follows or interrupts the first model does not matter.
ParsesFirst(text) == text # <<>>

\* cJSON_Parse accepts a text that is one model and nothing else.
Parses(text) == Cardinality(ModelsIn(text)) = 1

\* websocket_send_local_model connects for its next model.
OpenSession(n) ==
  /\ n \notin session
  /\ sent[n] < MaxModels
  /\ sent' = [sent EXCEPT ![n] = @ + 1]
  /\ session' = session \cup {n}
  /\ arrived' = [arrived EXCEPT ![n] = 0]
  /\ UNCHANGED <<received_json, buffer, handling, delivered, lost, rejected,
                 disturbed>>

\* The address a text is queued under: that of the session of its last fragment.
QueueEntry(text, n) == [message |-> text, ip_id |-> n]

\* Slip: a message that finds the list not empty replaces it.
InsertAlone(entry) == <<entry>>

InsertMessage(entry) == Append(buffer, entry)

\* Slip: the length of the fragment itself is not counted.
IsTooBigAlready(text) == Len(text) > MaxJsonSize

\* received_json_len + len > MAX_JSON_SIZE
IsTooBig(text) == Len(text) + 1 > MaxJsonSize

\* LWS_CALLBACK_RECEIVE: returning -1 closes the session, received_json stays.
ReceiveFragment(n) ==
  /\ ~handling
  /\ n \in session
  /\ LET i == arrived[n] + 1
         text == Append(received_json, <<n, sent[n], i>>)
     IN  IF IsTooBig(received_json)
         THEN /\ session' = session \ {n}
              /\ lost' = lost \cup {<<n, sent[n]>>}
              /\ rejected' = rejected \cup {<<n, sent[n]>>}
              /\ UNCHANGED <<arrived, received_json, buffer, disturbed>>
         ELSE /\ arrived' = [arrived EXCEPT ![n] = i]
              /\ session' = IF i = Fragments THEN session \ {n} ELSE session
              /\ IF IsCompleteJson(text)
                 THEN /\ buffer' = InsertMessage(QueueEntry(text, n))
                      /\ received_json' = <<>>
                 ELSE received_json' = text /\ UNCHANGED buffer
              /\ disturbed' = (disturbed \/ Cardinality(ModelsIn(text)) > 1)
              /\ UNCHANGED <<lost, rejected>>
  /\ UNCHANGED <<sent, handling, delivered>>

\* The connection breaks while the model is being sent.  callback_echo has no
\* case for a closed session.
SessionDies(n) ==
  /\ ~handling
  /\ n \in session
  /\ session' = session \ {n}
  /\ lost' = lost \cup {<<n, sent[n]>>}
  /\ disturbed' = TRUE
  /\ UNCHANGED <<sent, arrived, received_json, buffer, handling, delivered,
                 rejected>>

\* lws_service returns, handle_message takes over ...
HandleMessage ==
  /\ ~handling
  /\ buffer # <<>>
  /\ handling' = TRUE
  /\ UNCHANGED <<sent, session, arrived, received_json, buffer, delivered, lost,
                 rejected, disturbed>>

\* ... and removes messages from the front until the buffer is empty.
NextMessage == Head(buffer)

RemoveMessage ==
  /\ handling
  /\ buffer' = Tail(buffer)
  /\ handling' = (buffer' # <<>>)
  /\ LET text == NextMessage.message
     IN  IF Parses(text)
         THEN /\ delivered' = Append(delivered, <<NextMessage.ip_id, text[1][1],
                                                  text[1][2]>>)
              /\ UNCHANGED lost
         ELSE /\ lost' = lost \cup ModelsIn(text)
              /\ UNCHANGED delivered
  /\ UNCHANGED <<sent, session, arrived, received_json, rejected, disturbed>>

UplinkStep ==
  \/ \E n \in Node : OpenSession(n) \/ ReceiveFragment(n) \/ SessionDies(n)
  \/ HandleMessage
  \/ RemoveMessage

-----------------------------------------------------------------------------
ModelUplinkSpec == InitUplink /\ [][UplinkStep]_uplinkVars

\* The service loop goes round, and lws_service serves every session.
UplinkFairness ==
  /\ WF_uplinkVars(HandleMessage \/ RemoveMessage)
  /\ \A n \in Node : SF_uplinkVars(ReceiveFragment(n))

FairModelUplinkSpec == ModelUplinkSpec /\ UplinkFairness

-----------------------------------------------------------------------------
UplinkTypeOK ==
  /\ sent \in [Node -> 0..MaxModels]
  /\ session \in SUBSET Node
  /\ arrived \in [Node -> 0..Fragments]
  /\ Len(received_json) <= MaxJsonSize
  /\ handling => buffer # <<>>
  /\ \A i \in DOMAIN buffer :
       DOMAIN buffer[i] = {"message", "ip_id"} /\ buffer[i].ip_id \in Node

\* A model that is aggregated is counted for the node that sent it, although
\* all sessions share one buffer and the sender is the session that happened
\* to complete the text.
CreditedToSender ==
  \A i \in DOMAIN delivered : delivered[i][1] = delivered[i][2]

\* The models of a node are aggregated in the order it sent them, and none
\* twice.
DeliveredOnceInOrder ==
  \A i, j \in DOMAIN delivered :
    i < j /\ delivered[i][2] = delivered[j][2]
      => delivered[i][3] < delivered[j][3]

\* What the server aggregates is what the boards have sent: nothing for the wrong
\* board, nothing twice and nothing before its time.
DeliveredAsSent == CreditedToSender /\ DeliveredOnceInOrder

IsSettled(n, k) == <<n, k>> \in lost \/ Contains(delivered, <<n, n, k>>)

\* As long as no session dies and no two overlap, every model that was sent is
\* aggregated in the end: nothing else loses one.
UndisturbedModelsArrive ==
  \A n \in Node, k \in 1..MaxModels :
    sent[n] >= k ~> disturbed \/ Contains(delivered, <<n, n, k>>)

Unsettled(n) == {k \in 1..sent[n] : ~IsSettled(n, k)}

\* received_json has part of a model whose end never comes: nothing resets it.
Jammed == \E m \in ModelsIn(received_json) : m \in lost

IsQueued(m) == \E i \in DOMAIN buffer : m \in ModelsIn(buffer[i].message)

\* The models of a board that can still be aggregated: behind a part without an
\* end, only those queued before it came.
Pending(n) == {k \in Unsettled(n) : Jammed => IsQueued(<<n, k>>)}

\* The sessions, the shared text and the queue are an uplink that hands a model
\* to AggregationModel once, for the board that sent it, or loses it, and that
\* one lost model may jam for good.
Uplink == INSTANCE LossyUplink WITH
  inflight <- [n \in Node |-> Cardinality(Pending(n))],
  taken <- [i \in DOMAIN delivered |-> delivered[i][1]],
  jammed <- Jammed

\* What FederatedSystem takes for granted of its uplink.
ImplementsLossyUplink == Uplink!LinkSpec

\* "Received message too big" is said of messages that are too big.
RejectedModelsAreTooBig == rejected # {} => Fragments > MaxJsonSize

=============================================================================
