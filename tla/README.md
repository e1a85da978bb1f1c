# Verification of FederatedEdgeComputing

TLA+ models of the federated learning system in this repository, the TLC runs
that check them and the TLAPS proofs about them. A central server (C, Linux)
keeps a global neural network; boards (ESP32) fetch it over HTTP, train it on
their data and push the result over a WebSocket; the server averages the local
models of a round and starts the next one.

## Inventory

| Component | State it keeps | Operations | Hard part |
|---|---|---|---|
| HTTP endpoints (`httphandlers.c`, `httpserver.c`) | none of its own; reads and writes the `FederatedLearning` singleton | `handle_get_noderegister`, `handle_get_checkmodelstatus`, `handle_get_globalmodel` | runs in a thread of its own, one connection at a time, without a lock against the other thread |
| Aggregation (`websockethandlers.c`, `AggregationModel`) | client list with an `interaction` per node, `currentinteraction`, `globalmodelstatus`, `trainingscounter`, the sum, the published model | `handle_clint_model_message`, `AggregationModel` | the round closes in several steps that the HTTP thread sees; models arrive late, twice or not at all |
| Federated averaging (`FederatedAveragingSum`, `FederatedAveraging`, `SetNeuralNetworkZeroWeightValue`) | the sum and its divisor | sum, divide in place, copy, zero | a round nobody trained in; what is left for the next round |
| WebSocket sessions (`websocketserver.c`) | one static `received_json`, the list of messages | `callback_echo`, `insert_buffer_client_message`, `remove_buffer_client_message` | fragments of several sessions, dead sessions, a full buffer |
| Board program (`ESP32/main/main.c`) | where `app_main` is, the model it trains | register, ask, fetch, train, send, ask again | resets, power loss, one answer for "not yet" and "no more" |
| Board HTTP client (`httpclient.c`) | `response_buffer` | `perform_get_request` with retries | a call whose handler ran but whose answer was lost |
| Board upload (`websocketclient.c`) | nothing of its own: a client for one model | init, start, send if connected, stop, destroy | start is asynchronous, a model is dropped silently |
| WebSocket client (`esp_websocket_client.c`, vendored) | `state`, `run`, `status_bits`, the lock, the transport, its task | start, send, close, stop, destroy; the task connects, reads, pings, reconnects | a task and an application around one connection, with and without the lock |
| Board training (`components/federatedlearning`) | the network, the CSV cursor, `trainingscounter` | `replaceNeuralNetwork`, `NeuralNetworkTraining`, `FeedFoward`, `BackPropagation` | number of samples, sizes of the layers |
| Network lists (`InitializeNeuralNetWork`, `CopyNeuralNetwork`, `freeNeuralNetwork`) | linked lists | build, copy, free | lists of one element, pointers shared between two networks |
| JSON conversion (`JSONConverter.c` on both sides) | none | `FederatedLearningToJSON`, `JSONToFederatedLearning` | two writers and two readers that have to agree; items that could not be made |
| cJSON (`cJSON.c`, vendored twice, the same code) | items, the parse buffer, the print buffer | parse, print, add, detach, insert, replace, delete, duplicate, compare | text that ends anywhere, memory that runs out anywhere, lists linked in two directions |
| Metrics (`PerformanceMetrics`) | counters | count a row, print the ratios | short files, names of the false answers |
| FPGA neuron (`neuron.v`, `layer.v`, `miscellaneous.v`) | registers of the hidden and softmax neurons | state machines clocked together | counters and states that advance on one edge |
| Stand-alone trainer, FPGA arithmetic, data set tools, board configuration, CP210X driver | - | - | sequential, bit level, I/O or third party |

What makes the components correct: boards are registered once and up to the
limit; a model is counted for its sender, once; a round closes exactly when
every listed node has sent its model and nothing else is handled before; what
is published is the weighted average of the round; a board that still has to
send is not told to stop and never trains on a model older than the round it
was told to join; the last model stays; every round is run. Below that: a model
text keeps to one connection and is followed by no other when it was cut off; a
call of the HTTP client returns what the server said in that call; the counter
of a model is the number of samples it was trained with; a published network
shares nothing with the sum; a converter and its counterpart are inverse; the
parser accepts exactly JSON and leaves nothing behind otherwise.

## Modules

`FederatedWire` - the one outstanding HTTP call of each board and its answer,
the number of local models of each board that are under way, and `jammed`: the
text all uplinks share begins with a part of a model whose end never comes.
`LoseModel` is a model that does not arrive, with or without such a part.

`FederatedServer` - the singleton and the two server threads. `registered`,
`interaction`, `currentinteraction`, `globalmodelstatus`, `trainingscounter`,
`neuralnetwork` carry the names of the code; `summed` is the sequence of the models
that are in `nodecontrol->neuralnetwork`, each with its sender and the
`trainingscounter` it came with, which is one of `Counters` and may be 0 (the board could
not open its data set); `http.at` and `websocket.at` are the program counters. The granularity follows what the other thread can see:

* `HandleNodeRegister` is one step, as what it reads only changes in it and
  what it writes is read by the WebSocket thread only once the list is full.
* the status handler is three steps, one for each of `interaction`,
  `currentinteraction` and `globalmodelstatus` it loads in
  `httphandlers.c:122`.
* `FederatedLearningToJSON` is a beginning and an end, and the end is
  `EndTornTraversal` when `freeNeuralNetwork` came in between: the answer may
  still be the old model, be no JSON, or the process dies.
* `AggregationModel` is six steps, at its writes of the status, at the check of
  the nodes, at `freeNeuralNetwork`, at the publication and at the advance.

`EdgeNode` - the program of one board. `Restart` is the operator's reset,
`SendLocalModel` an upload with a connection that lasts to its end, `DropLocalModel`
a model not sent as the connection is not up, `CutOffLocalModel` one whose connection
ends between two fragments, which jams the uplink. The three are alternatives of
every upload and not faults: none of them is bounded. `CallGivenUp`/`CallRetried`
are the ends of a failing attempt of `perform_get_request`, whether or not the
handler ran, `PowerOff` is a power loss, also in the middle of an upload.

`FederatedSystem` - the composition, the losses of the network (unbounded), the faults
(bounded by `MaxFaults`: time-outs of calls, power losses), the fairness and the
properties. `FederatedRounds` - the abstract specification: members join, send
models, and the round closes as soon as it can, before any other model is
taken up. `FederatedSystem` implements it with the list, the interactions and
the round number as its three variables.

`FedAvg` - the arithmetic of a round over exact rationals, parameter by
parameter, with denominator 0 for a float that is not a number. The models
are functions from parameters to integers (`ModelsAssumption`).

`ModelUplink` - sessions, fragments, the shared text, the message list and the
service loop of the WebSocket thread. `LossyUplink` - what `FederatedSystem`
assumes of its uplink; `ModelUplink` implements it. `Lose` is any number of models lost
together, also of one board, as a text that a third session holds up collects
whole models and is thrown away whole; it is a sequence of `LoseModel` in
`FederatedSystem`. A loss may jam the uplink (`Jammed`): `received_json`, which nothing
resets, has a part of a lost model, and what is sent from then on is never
delivered, whoever sends it. What was queued before still is.

`NetworkLists` - layers, neurons and weights as nodes with two pointers, built,
copied and freed node by node, through the rounds of a server. A model value
of `FederatedServer` is such a list.

`ModelConversion` - a model through `FederatedLearningToJSON` and
`JSONToFederatedLearning` of the server and of a board and back, with one item of
the tree not allocated (or none). What is not in the tree is not assigned: such
a field holds `Unset`. `Item` is a number as the other side parses what was printed: NaN and
the infinities (`NotFinite`) are printed as `null`, behind which `GetNumber` assigns nothing
and a weight, whose type is not looked at, is 0. The digits of finite numbers are
not modelled.

`Metrics` - `PerformanceMetrics` of the server and of the stand-alone trainer.

`WebsocketClient` - the application, the task and the server at the other end.
A step is what is done under the lock, except for a text, which is written
fragment by fragment; aborts, polls and the end of the task are steps of their
own, as they happen without it. `Exit` and `Leave` are the two halves of the end
of the task, as `stop` goes on between them. `StartTwice` is a start that meets a
task of the last one, which the code lets happen as it tests the state only; the
client is then `"shared"` by two tasks, and the model follows it no further. `KeepAlive` has its clock (PING
interval, PONG time-out, lock), `ClientConfig` the blocks it owns. The
fragments `WebsocketClient` writes are those `ModelUplink` receives, and its
stop without a connection is the `DropLocalModel` of `EdgeNode`.

`HttpFetch` - `perform_get_request` piece by piece, with the static buffer, and the
parse of its callers. A whole call of it is the `Call` ... `CallGivenUp` of
`EdgeNode`.

`LocalTraining` - `replaceNeuralNetwork` and `NeuralNetworkTraining`: the epochs over
the file, with samples named by the row they come from. `BackPropagation` - what
one of them does to the weights, with the blocks the deltas and the weights of
the layer above are kept in, and what is read outside of them. The stand-alone
trainer has the same two functions.

`HiddenNeuron` - the neuron of the FPGA, an action for each rising edge: the state
machines, the accumulator `Z`, the memory and its latch. What the driver asks for
changes at any edge, also half way through an operation: `tb_hidden_neuron.v`, the
only driver there is, does so. The blocks exchange their registers with blocking
assignments, so that there are two neurons. In the FPGA each block sees what was
before the edge. In a simulation (`simulated`) the block of `hidden_neuron` runs `ahead` of
the others or behind them, differently at each edge if the simulator likes, and `Z`
may then add the first input twice and never the last one (`Summed`). This is the 3.5
in place of 5.0 that `hidden_neuron_analysis.md` and `z_module_analysis.py` record for the
first feedforward of the testbench; the block of the neuron ahead, the testbench gives
3.5, 12.0, 9.5 and 6.0 as the analysis has them.

`CJsonParser` (recursive descent as a stack of frames), `CJsonStrings` (escapes,
in two passes each), `CJsonList` (calls of the library on a heap of items) and
`CJsonPrinter` (the growing buffer) model cJSON, and `CJsonGrammar` is the JSON of
RFC 8259, which the parser is compared with. `CJsonList` begins with an empty heap, or
with objects as earlier calls have made them (`Given`). `CJsonGrammar`, `CJsonList` and
`CJsonPrinter` are the only modules with recursive operators; what proofs are about
is recursive functions (`WeightedInputs`, `Trainings`, `WeightedSums`, `ListFrom`,
`Scan`, `Meaning`).

The MC modules instantiate these for TLC. `MCServer`, `MCBoard` and `MCCJson` put
parts of one program that share no state into one instance: its variable
`part` chooses which part a behaviour is of, and the others stand still, so that
the states of the instance are the sum of those of its parts and not their
product. Fairness is assumed of the part that is chosen. The definitions
introduced by "Slip" are plausible mistakes in the code: each property is known
to fail when one of them takes the place of the definition that follows it.

## Runs

| Run | What it asks | Result |
|---|---|---|
| `two_nodes` | two boards, two rounds, up to two models of a board under way, one fault, any number of lost models. Rounds, status, age of the served model, final model, and the implementation of `FederatedRounds` | holds |
| `limit` | three boards for a list of two, one round, one fault, counters of 0 and 1: exact registration, no model without an owner, divisor and sum | holds |
| `attended` | two boards, two rounds, any number of lost models, operators reset stopped boards: every round runs, or an upload is cut off | holds |
| `client` | the WebSocket client over two sessions and two connections: texts and connections, polls and reads, calls that return, reconnection, the closing handshake | holds |
| `board` | the parts of a board: time-outs of the keep-alive, blocks of the client under failing allocations, the HTTP client, back-propagation over 63 small networks, local training over files of up to three rows, the FPGA neuron and its simulation with a driver that breaks off what it began | holds |
| `server` | the parts of the server: the shared fragment buffer and `LossyUplink`, the weighted average, the lists of networks, both JSON converters with numbers that are not finite, the metrics | holds |
| `cjson` | the parser over all texts of up to four lexemes and the neighbours of three longer ones, strings to escapes and back, five calls on up to four items, one more on pairs of objects of up to three members in different orders, the printer with buffers that grow with and without `realloc`, or must not, the empty one included | holds |
| `distribution` | two boards, no fault, no reset: each gets the model once the list is full | fails |
| `every_node` | the average of a round holds a model of every node | fails |
| `available` | a model announced as available is allocated until it was read | fails |
| `fedavg_zero` | the sum is zero after every round | fails |
| `uplink_reject` | only a model that is too big is refused as too big | fails |

The failing runs are disagreements between the code and its documents:

* `distribution`: `deep_learning` stops on the first status 0, so a board that
  registers before the last one is gone when the list is full (README, Model
  Distribution).
* `every_node`: `interaction` is counted when the model is taken up, not when it
  is sent. A board that asks in between trains and sends again; its second
  model counts for the next round although it was summed into this one.
* `available`: `freeNeuralNetwork` runs under the HTTP thread's walk.
* `fedavg_zero`: `SetNeuralNetworkZeroWeightValue` sets the first bias of a layer
  to 0 only; the other averages leak into the next sum. `PublishesWeightedAverage`
  therefore speaks of the weights and first biases (`IsReset`).
* `uplink_reject`: `received_json` is shared and survives its session.

Every round is run only in `attended`, where operators reset the boards that
stopped: the status is 0 while a model is aggregated and while a node is ahead,
and a board that asks then leaves its loop.

Properties of one hazard that belong together are conjunctions of named parts
(`ConnectionsAreKeptApart`, `NothingIsStuck`, `ListsAreSound`, `PrintIsWhole`, ...).
What holds does so with exceptions the code has, which the parts name:

* `EveryRoundRuns` excuses the end of the process and a jammed uplink. One upload that is
  cut off between two fragments leaves its part in `received_json`; the braces of the
  texts behind it never balance, they are refused once the buffer is full, and no
  round closes again, however often boards are reset.
* `DivisorMatchesSum`: the divisor is the sum of the trainings of the models in the
  sum. It may be 0; what is divided by it then is in `FedAvg`.
* `overlapped` in `client`. `esp_websocket_client_stop` returns on `STOPPED_BIT`,
  which the task sets before it sets the state to UNKNOW. A start in between
  gives the client two tasks, and the last act of the old one puts the new
  session into a state in which nothing is aborted or tried again. Start also
  clears the bits after it has created the task; a task that ended by then has
  lost its `STOPPED_BIT`, and the next stop waits for ever. So does a stop that
  clears `run` before the task it is for has begun, which happens when `run` was
  left set by a session that ended on an open connection: the task sets it
  again. A start beside a task that has not ended makes a second one, and is where
  the behaviours of the model end. The upload of a board destroys its client after
  one session, so that it meets none of these.
* `CallReturns` speaks of a server that can be reached. An attempt that fails
  within `TIMEOUT_MS` is not counted, and a server that is gone is tried for
  ever.
* `CallIsAnswered` is exact for calls no attempt has `spoiled`: what a broken
  attempt left in `response_buffer` stays in front of the answer of the next.
* `DeltasFollowTheChain` is what the code computes: the delta of a hidden neuron
  is taken from the weights of the layer above as they are after their own step.
  `OutsideExactly` tells the reads
  outside of a block, which happen in the layers that are smaller than the one
  above or below.
* `MetricsOfTheRows`: the server counts a missed positive row as a false positive,
  so that its precision is the recall; the trainer does not.
* `EveryRunLeavesOneInput`: `Z` is enabled for one edge more than a sum takes, so that in
  the FPGA only every fifth run of a neuron of four inputs begins with an empty
  sum. A feedforward that was interrupted promises nothing (`whole`): an idle edge
  half way leaves `Z` enabled for good.
* `AlignedRunIsRight` says of a simulation what it computes (`Summed`), which need not be
  the weighted sum; `UpdatesOwnWeight` is for a driver that reads a weight before it
  moves it and another one before it reads it again (`careless` is any other).
* `BoardHasTheGlobalModel` and `ServerHasTheLocalModel` are exact for finite numbers. Of
  others a weight comes as 0, and a bias or a setting as what `malloc` left. The types
  of the layers do not come back from a board.
* `WritesInsideTheBuffer`: `ensure` without `realloc` copies `offset + 1` bytes, one more than a
  buffer of `cJSON_PrintBuffered(item, 0, ...)` has.
* `DestroyFreesAll` allows two blocks to be lost (`Lost`): the host of the URI when
  the configuration gives a host as well, and the user information of the URI when
  the password or the user name cannot be copied from it.
* `NamesAreFreedOnce` allows a reference to be lost that got no name.

### Bounds

`MaxInFlight` (2) is what lets a board have a second model under way before the
first is taken up, the cause of every case in which a node is a round ahead;
`attended` uses 1 to keep the liveness graph small, where a stale load of
`interaction` still produces such a node. Two rounds show a round that begins
with what another left, and the end of the last. `MaxFaults` (1) lets each kind
of fault happen at every place; models that are dropped, cut off or lost on their
way are no faults and, like resets, not bounded. `attended` has no faults besides
(`MaxFaults` 0), as what it asks is about the losses. The counters of models matter to the
divisor only, so `Counters` is 0 and 1 in `limit` and 1 elsewhere. Three boards are needed
only for the limit. In `FedAvg` the rounds are `InteractionCycle` itself (3) and
`MaxReceived` (2) bounds the models of a round. In `ModelUplink` `MaxModels` (3)
bounds the models of a board, and room for three models lets two sessions
overlap without filling the buffer as well as fill it, and two models of one
board be lost in one text. `uplink_reject` has room for two and a half. The example
model `fedlearning.json` stands in a similar proportion to `MAX_JSON_SIZE` once
it is printed with layout.

`client` has two starts, as what goes wrong does so between two sessions, two
connections for one reconnection, and texts of two fragments, the least that
can be cut. `KeepAlive` has the interval shorter than the time-out, as the code's
own defaults, and a time-out that is just long enough for a PONG behind another
frame and senders that keep the lock for two seconds each time
(`ResponsiveServerStays` says how long that is). `HttpFetch` has three retries as the code has and bodies of two
pieces in a buffer of three, so that a spoiled buffer fits and the next
allocation fails. `BackPropagation` has seven shapes, in which a layer is
smaller, larger and as large as its neighbours, and nine patterns of weights; the
learning rate is 2, so that a delta and the step it makes are not the same number.
`LocalTraining` has all files of up to three rows of one to three fields, two
epochs of three samples and two models. `HiddenNeuron` has two inputs, so that its
accumulator comes round in three runs, and as many addresses (`AddressSpace`; the read
beyond the inputs is in the proofs only); its driver breaks off or mistreats one
operation (`MaxBreaks`), moves one weight, and runs feedforwards without a bound. `NetworkLists` has layers of
two and three neurons (`ShapesAssumption`: a list of one is copied into a ring) and
two rounds. `ModelConversion` has every place an item can be missing at, in
models with and without a number that is not finite. `CJsonList` finds memory for four
items (`MaxItems`), as a list whose middle one leaves needs three and its parent, in
five calls from an empty heap. `Given` has, besides, every pair of objects of up to three
members out of four names, two of which differ in their case only, and two values;
the members of one are in the order of the alphabet, and one call follows.
`CJsonPrinter` has sizes of buffers around those of the texts, 0 included, and a small
`INT_MAX`; `CJsonParser` a nesting limit of 2.

Deadlock is not checked: a server that died of a torn walk leaves the boards
waiting, and the rounds, calls, messages and models of the other instances are
finite.

### Fairness

Both server threads loop for ever and a board's task runs, hence weak fairness
of each. `accept` and `lws_service` serve connections in arrival order, hence
strong fairness for serving each board's call and taking up each board's
model. Strong fairness of `SendLocalModel`, and of taking a model up although it may be lost,
is the usual assumption on a lossy channel: who sends again and again gets through
in the end. It is one on the network and not on the code. Nothing in the code resets a board; `AttendedSpec` adds that, as what an
operator does, and only `attended` uses it. `UplinkFairness` is the service loop.

In `client` the task and the calls of the application are scheduled; a sender
that waits for the lock gets it, as the task polls for a second or sleeps
without it in every turn (strong fairness of `Lock`); the wait for a reconnection
passes. In `KeepAlive` time passes, the task gets its turns and a sender gets its
text written. `FetchFairness`: an attempt ends one way or another, and a server
that is `Reachable` takes a connection, and gets a piece or an end through, now
and then.

## Proofs

Eight modules hold theorems that TLAPS checks for every value of the constants:

| Module | About |
|---|---|
| `FederatedSystemProofs` | types, list, rounds of the system, the abstract rounds, the models that are served, the divisor of the average |
| `WebsocketClientProofs` | texts, polls and reads of the WebSocket client |
| `BoardClientProofs` | HTTP client, keep-alive and blocks of the clients of a board |
| `TrainingProofs` | training over a file, the memory and the steps of a sample, the FPGA neuron; the parts of a board side by side |
| `ServerPartsProofs` | the uplink and its abstract specification, the weighted average, the metrics, a model through JSON; the parts of the server side by side |
| `NetworkListsProofs` | the networks in memory: built, freed and copied node by node |
| `CJsonProofs` | the strings of cJSON, the memory of its parser |
| `Recursion` | induction and recursion over the natural numbers |

### The system

`FederatedSystemProofs` holds for every set of boards, every `ClientNodes` above 0,
every `InteractionCycle`, every bound; no assumption is made beyond the types of the constants and `NoNode` not being a board. Boards
may be infinitely many.

* `TypeCorrect`: the type invariant, proved thread by thread.
* `Invariant`: `IInv`, the inductive invariant. It adds to the type invariant
  - `ListInv`, the count is the size of the list;
  - `InvolvedInv`, whoever has a model under way, is training, is fetching, was
    answered "yes" or has passed the guard of the status handler is in a full
    list. The answer "yes" is the only way in, and the list never shrinks;
  - `BusyInv`, a busy thread serves a board;
  - `RoundInv`, where a round stands at each place of `AggregationModel`. What
    makes it inductive is that the node whose model is handled is at most one
    ahead when nobody else is missing, so that it is the one missing after
    the advance.
* `RegistrationIsExact`, `ModelsHaveOwners`, `RoundsWaitForNodes`,
  `RoundsAreClosed` follow from it.
* `SystemImplementsRounds`: initial states and steps of `FederatedSystem` are
  those of `FederatedRounds` or stutter: a registration is a `Join`, taking up
  a model a `Deliver`, `AdvanceInteraction` a `CloseRound`.
* `ServerReopens`, `FinalModelIsFrozen` and `ServedModelsAreFresh`. The last one
  needs an invariant of its own, `FreshInv`: the published version is the round
  or, between copy and advance, one more; what a board is told is never ahead
  of the round; the HTTP thread reads the version after it told the board;
  and a board being served has no older answer to act on.
* `DivisorIsTheTrainings`: `SumInv` says that the counter is the sum of the trainings of
  the models in the sum, except between the two resets. That a model more adds its
  own trainings to those of the sequence is by recursion over it (`Recursion`).

### The uplink

`ServerPartsProofs` proves for every number of boards, fragments and models and any
room of `received_json`:

* `UplinkTypeCorrect`, and `ModelsAreDeliveredAsSent`: the right board, its order,
  nothing twice. The invariant `UplinkInv` follows a model from its session over
  the shared text and the queue to `AggregationModel`: `OrderInv` says that the
  models of a board in each of these places were all sent before those in the
  places before it. That is inductive because a text is queued only when
  every model in it has ended, so that none of it can come later (`EndInv`).
* `UplinkImplementsLossyUplink`: every step is one of
  `LossyUplink` or stutters. `LostInv` adds that a lost model is in no queued text
  and never gets an end, so that no model is both lost and delivered. A model that can
  still be delivered is `Pending`: once a lost one is in `received_json` only those queued
  before are, and as the lost one stays there the uplink stays jammed.

### The clients of a board

`WebsocketClientProofs` proves for any number of sessions, connections, fragments and
frames, with and without reconnection, `ClientTypeCorrect` and
`ClientKeepsConnectionsApart`. Its invariant: who holds the lock is where the code
holds it (`LockInv`); a task has not set `STOPPED_BIT` while it runs, has the state
UNKNOW before its first turn and leaves no connection (`TaskInv`); a client that
does not run is being stopped, or waits without reconnection (`RunInv`), so that
nobody destroys it under a read; a text that is written keeps the state out of
INIT and CLOSING (`WritingInv`).

`BoardClientProofs`:

* `FetchTypeCorrect` and `CallsAreAnswered` for any number of retries and pieces and
  any buffer: until an attempt is broken off in a body, the buffer holds exactly
  the pieces received of what the server is saying (`BufferInv`); afterwards all
  that is left is that every piece in it is of this call. Assumed: at least one
  retry (`RetriesAssumption`).
* `AliveTypeCorrect` and `OnlySilence` for every interval, time-out, time of an
  answer, time of a sender and any number of frames in the socket. `ReadIn(p)` bounds
  the time until the frame at p is read, by what is left of the lock now and one
  sender for each frame before it; `PongInv` says that the PONG that is waited for
  is on its way or will be read in time, `SilenceInv` bounds the silence by what is
  left of each of its three parts (frames to read, the interval to the PING, the
  time-out). The bound of `SilenceIsBounded` is one `Hold` above the first one
  this project had, which TLC refutes for an interval of 6, a time-out of 9 and a
  sender of 6: a sender can also come in before the poll that finds a frame.
* `ConfigTypeCorrect` and `DestroyFrees` for every configuration and every URI:
  a pointer has its block, and there is nothing besides but what is lost so far
  (`OwnedInv`); a pointer is there by a step of the initialisation that is done
  (`MadeInv`), so that what is not freed before it is taken was never taken, the
  host excepted (`TakenOnce`); no string is there without the configuration that it
  is freed by (`StringsInv`).

### The training and the neuron

`TrainingProofs`:

* `TrainTypeCorrect` and `TrainedWithTheRows` for every file, every number of epochs,
  of samples in an epoch and of fields: `ReadingInv` has the cursor at the count of the epoch
  until the file is over, and every cell of the sample at the nearest row that has
  its field.
* `MemoryOfASample` for every network of at least two layers, of any sizes:
  what is kept between two layers are the deltas of the layer above and the matrix
  of its weights (`BlocksInv`), and `number` is the size of the layer above only for
  the last one (`DeltasInv`), which is where the reads outside come from.
* `SgdTypeCorrect` and `DeltasAreTheChain` for every network of at least two layers, of
  any sizes and with any numbers for biases and weights. The memory is one part of
  it: as long as no hidden layer is the smaller one, the deltas that are read are
  those of the layer above and the matrix is what its weights are by then
  (`MemoryInv`). The other part is what has moved so far: the layers below the one
  in hand have not (`MovesInv`), those above have, each by its deltas, which are
  the chain over the layer above it (`ChainInv`); a step below leaves what the
  chain above was made of. The activations are of the sizes of their layers
  (`ValuesInv`), which the sums over them need. Assumed of the constants: networks
  are of integers, of the sizes they say, and samples have one number for each
  input (`NetworksAssumption`, `SamplesAssumption`).
* `NeuronTypeCorrect`, and `NeuronIsRight` for every number of inputs, weights, steps, runs and
  interruptions, in the FPGA and in every order of a simulation: in a feedforward that is
  whole, `index` is as many edges on as `Z` was enabled for (`ControlInv`); what is
  read is the weight at the address (`LatchInv`), and of a careful driver only that one
  is behind, while it is written (`WeightsInv`); the accumulator that began empty is a
  prefix of the weighted sum (`SumInv`), and the answer stays (`AnswerInv`).
* `BoardTypeCorrect` for every value of all these constants: the parts share no state,
  so a step of one leaves the invariants of the others as they are.

### The parts of the server

`ServerPartsProofs` has, besides the uplink:

* `AveragesAreValues` and `FederatedAverage` for every set of parameters, models and
  trainings: the sum is that of the round so far (`RoundInv`), the published model
  the average of the round before (`AverageInv`). That what the reset leaves is
  without effect on the weights and first biases is part of it.
* `MetricsTypeCorrect` and `PrintsTheRatios` for every file that is not empty and every
  number of rows to count: the four counts are the sizes of the sets of rows they
  stand for, with those the server exchanges exchanged (`CountsInv`).
* `ModelsArrive` and `ConversionTypeCorrect` for every set of models whose lists are
  lists (`PublishedAssumption`), of any size, and any training of their weights. What
  is under way is a model less one item of its own tree (`SentInv`) and what has
  arrived was made of it (`ArrivedInv`); the rest is about the two converters in
  sequence, an object at a time. `NeuronTrip`, `LayerTrip`, `NetworkTrip` and
  `ModelTrip` say what becomes of each when anything is missing: if there are
  layers at all, it is a model again, so that the board can train it and send it
  back. A number that is not finite is never taken for one that is: the sizes of lists
  are integers, of which none is (`FiniteAssumption`). `BoardTrip` and `ServerTrip`
  have nothing missing, `CutTrip` an element of
  one of the three kinds of arrays, which leaves that array one shorter than the
  count in front of it, and everything above it as long as it was.
* `ServerPartsTypeCorrect` for every value of all the constants: the parts share no
  state, and each keeps its types, the networks in memory by the theorems below.

### The networks in memory

`NetworkListsProofs` is about `NetworkLists`. It holds for every list of layers of at least two neurons
(`ShapesAssumption`), any number of rounds and any heap. A step that allocates waits
for a free node (`Room`), as the heap is the bound of the model: what the code does
when `malloc` fails is not modelled.

* `NothingFreedIsEverUsed`. The order of `freeNeuralNetwork` is right in a proper
  tree, but the copy makes lists that are none for a while: a first node is its own
  successor, and filled nodes are in no list yet. The inductive invariant `ListsInv`
  does without trees, reachability and lengths. It says of one or two nodes at a time
  (`Sound`) that
  - a next pointer leads to a node of the same kind that is not freed (`NextRight`),
    a first pointer to one of the kind below, the lists that are being freed
    excepted (`FirstRight`, `Cut`);
  - at most one pointer leads to a node, besides its own (`Unshared`), so that whoever
    reads the next pointer of a node it is about to free is the last to know the
    next one;
  - a node is its own successor only as the one node of a list that is not complete
    (`Loops`, `Partial`), and a complete list has at least two (`NoSingles`): the second
    node takes the loop away. A layer of one neuron would keep it, and the next
    `freeNeuralNetwork` would free that neuron twice;
  - a list that grows knows its last node (`PartialRight`), and nothing points to a
    node that is not linked yet (`Apart`).

  `BuildInv`, `FreeInv` and `CopyInv` tie the local variables of the function that runs
  to this: the counters of a build to the lists they count, the three cursors of
  `freeNeuralNetwork` to nodes nobody but their parent points to (`NextToFree`), those
  of `CopyNeuralNetwork` to nodes of the sum with another one behind the first.
* `ListsInvariant` is the invariant itself: every node any step touches is
  there, also those that are read by the build and the copy, which `misuse` does not
  count.
* The lemmas in front (`AddKeepsSound`, `AttachKeepsSound`, `CompleteKeepsSound`,
  `FreeKeepsSound`, `ValuesKeepSound`) say what allocating, linking, completing, freeing and
  assigning do to `Sound` in any heap; each step of the model is one or two of them.
* `NetworksStayWhole`: the published network is bias by bias and weight by weight the
  average, it shares no node with the sum, and besides the two there are the models of the
  boards, one for each round, which `AggregationModel` never frees. `ListsTypeCorrect`:
  every pointer, the previous and last ones included, has the kind of node it is for.
  `ListsInv` looks at two nodes at a time and cannot say either. `NetworksInv` gives each
  node a site, which is a role (`"global"`, `"control"`, `"client"`) and the numbers of the layer,
  the neuron and the weight, with 0 for "itself", and says that there is a placement
  of the sites at addresses such that
  - the pointers of a node are at its neighbours' addresses, no two sites are at one
    address, and the live nodes are those at the sites that are occupied and the lost ones,
    which are linked only to each other (`Trees`);
  - the occupied sites are the complete networks between two calls (`RestingAt`), the
    sites up to the one that was added last in a build (`GrowingAt`), what is left from the
    cursors of `freeNeuralNetwork` on (`LeavingAt`), and in a copy the sum and its image as
    far as it was made, less the links to a node that is not complete yet
    (`SpreadingAt`);
  - the values at the sites of the published network are those of the average, in a
    copy as far as they have been assigned (`Content`, `Spread`), and the lost nodes are as
    many as one model for each round (`Lost`).

  `AddSite`, `LinkSite`, `FreeSite`, `TreesLose` say what allocating, linking, freeing and
  forgetting a model do to a placement. The property itself speaks of walks along next pointers
  (`NodesOf`, `ContentOf`): `ListFromChain` shows that a walk from the first node of a chain is
  the chain, and `NodesAre` and `ContentIs` put the walks through a network and its
  sites together. A heap without a single node has no placement, and
  nothing ever begins in it (`Barren`).

### cJSON

`CJsonProofs`:

* `StringsAreSafe` for every set of strings and of texts of bytes. `StringsInv` has three
  layers. `RoomInv`: what is written so far, and what the scan has left to step over,
  fit what the first pass measured; for a text that is read this needs that an escape
  of six or twelve characters is stepped over in twos, so that the pass counts a
  backslash less for each of them, or not at all if the escape ends the step
  (`WithinJump`), and that UTF-8 is never longer than that. `BackInv`: reading back a
  printed string has read a prefix of it, from the position up to which the prefix
  was printed (`ReadsBack`). `MeaningInv`: what is written, followed by the meaning of the
  rest, is the meaning of the text (`ReadsTheMeaning`); what utf16_literal_to_utf8 puts
  together by shifts and masks is what `Spread` says of the code point. Codes that are no
  number are left out by `WellFormed`, as parse_hex4 takes them for 0.
* `ParserTypeCorrect` and `ParsingKeepsMemory` for all texts, any limit of nesting, with and
  without allocations that fail. `ParseInv` ties three counts to each other: the levels
  that are open (`DepthInv`), the blocks the frames own (`HeldBy`: a running total over
  the frames ends at the number of blocks, so that the last frame that fails leaves
  none), and the lexemes that are behind the offset (`PlaceInv`: one item for each
  value and one string for each string and name, where the item of a value is there
  before the value and that of an element is not). Every place keeps the offset on a
  character, as what is looked for is never the null character and the skipping of
  blanks steps back to it (`SkipsBlanks`). `TrimmedHolds` carries the count over to the text
  between the mark and the end.

### Induction

The induction theorems of the library take an operator, which no prover installed
here can instantiate. `Recursion` states induction and the existence of a function
defined by recursion with a set in the place of the operator, and proves both from
`NatLessThanWellFounded` and `WFMin`. The proofs about sums use `BoundedInduction` for
the set of numbers up to which two sums agree, and `RecursionExists` for the functions
that define them; `DescentExists` and `DownwardInduction` are the same from the end of a
text, for functions that jump ahead.

### Model-checked only

Liveness, which is out of the prover's reach: `EveryRoundRuns`, `NothingIsStuck`,
`SilentServerIsDropped`, `CallReturns`, `UndisturbedModelsArrive` and the fairness they
rest on. `AcceptsExactlyJson`, `ListsAreSound`, `CompareIsEquality`, `PrintIsWhole` and the
type invariant `CJsonTypeOK` of cJSON: a grammar, the reach of pointers and trees, which
are recursive operators, and what they say of every input is induction over data. Every
other safety property of a passing run is a theorem.

The inductive invariants were also checked by TLC on the instances of the runs before
they were proved, except `NetworksInv`, whose placements are too many to enumerate.

## Left out

In `FederatedSystem` texts, JSON and HTTP syntax are values; a spliced text is
taken not to parse, though a splice exactly between two elements might. An HTTP
connection that a board gave up and the server has not accepted yet is never
served; served late, it could only repeat a registration or an answer nobody
reads. A freed model that is being read is one of three outcomes; no order of
the individual weights is modelled. Start-up (sockets, WiFi, files) is left out.

Addresses are model values, so that the 15 bytes of `ip_id` (an address of 15
characters needs 16) are not seen. Floats are exact rationals or integers;
sigmoid and softmax, which leave neither, are not in `BackPropagation`. The text
of a number is one lexeme in `CJsonParser` and `CJsonStrings` is apart from it;
`cJSON_Minify`, `cJSON_InitHooks`, `cJSON_SetValuestring` and the type tests, which
the system does not call, are left out, as are partial sends, `set_headers` and
the POST of the board's clients. `cJSON.h:162` asks for five bytes more than the
text in `cJSON_PrintPreallocated`; `SizeSuffices` shows that they are enough.

Not modelled: the softmax neuron and the wiring of the layers of the FPGA; its
IEEE 754 operators (`alu.v`), which are functions of 64 bits without state; the
stand-alone trainer's reading of its files; the data set tools, one-shot
converters of a file; the board configuration, which is pins and start-up; the
CP210X driver, which is kernel code of the USB bridge and not called by the
system.

## Plan

1. Done: the system (`FederatedWire`, `FederatedServer`, `EdgeNode`,
   `FederatedSystem`, `FederatedRounds`, `FedAvg`, `ModelUplink`, `LossyUplink`), its
   proofs, the clients of a board, its training, the conversions, the metrics,
   cJSON and the FPGA neuron.
2. Done: proofs of the uplink with its refinement, of the safety of
   `WebsocketClient` and of `HttpFetch`.
3. Done: proofs of the divisor, the keep-alive and the blocks of the client, the
   training with the chain of its deltas, the neuron, the weighted average, the
   metrics, the conversion of a model and the networks in memory.
4. Done: proofs of the strings of cJSON and of the memory of its parser, and that the
   networks in memory stay whole.
5. `HttpFetch` and `WebsocketClient` as implementations of the calls and the
   send-or-drop of `EdgeNode`; lists of one element in `NetworkLists`; the
   softmax neuron.
