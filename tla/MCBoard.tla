------------------------------- MODULE MCBoard -------------------------------
(***************************************************************************)
(* Instances of the parts of a board that do not share state: the keep-    *)
(* alive and the configuration of its WebSocket client, its HTTP client,   *)
(* the training of a sample and of a data set, and the neuron of the FPGA. *)
(* A behaviour is one of the part that it chooses; the others stand still. *)
(***************************************************************************)
EXTENDS KeepAlive, ClientConfig, HttpFetch, BackPropagation, LocalTraining, HiddenNeuron

VARIABLE part

boardVars == <<part, kaVars, cfgVars, fetchVars, sgdVars, trainVars, neuronVars>>

\* Everything an application can give, and the parts of the URI of the board.
FullConfig == (Strings \ {"scheme", "auth"}) \cup {"if_name"}
BoardUri == {"scheme", "host", "path", "userinfo"}

\* Small networks of several shapes, with weights -1, 0 and 1.
Weighted(s, m, n) ==
  [shape  |-> s,
   weight |-> [l \in 2..Len(s) |-> [i \in 1..s[l] |-> [j \in 1..s[l - 1] |->
                 ((m * l + n * i + j) % 3) - 1]]],
   bias   |-> [l \in 2..Len(s) |-> [i \in 1..s[l] |-> ((l + i + m) % 3) - 1]]]
SmallNetworks ==
  {Weighted(s, m, n) : s \in {<<2, 2>>, <<2, 3, 1>>, <<1, 2, 2, 2>>, <<2, 3, 2, 2>>,
                              <<2, 1, 2, 2>>, <<1, 3, 2, 1, 2>>, <<1, 1, 2, 1, 1>>},
                       m \in 0..2, n \in 0..2}
Samples == {<<1, 1>>, <<-1, 1>>}
FirstClass == <<1, 0>>
Leftovers == {-3, 5}

ShortFiles == UNION {[1..n -> 1..3] : n \in 0..3}

InputData == [d \in 0..1 |-> <<2, -1>>[d + 1]]

InitBoard ==
  /\ part \in {"keep_alive", "config", "fetch", "sgd", "training", "neuron"}
  /\ AliveInit /\ ConfigInit /\ FetchInit
  /\ SgdInit /\ (part # "sgd" =>
       <<net, input, kind, regularization>> =
         <<CHOOSE n \in Networks : TRUE, CHOOSE i \in Inputs : TRUE, 1, 0>>)
  /\ TrainInit /\ (part # "training" => rows = <<>>)
  /\ NeuronInit /\ (part # "neuron" => ~simulated /\ data_counter = 0)

Only(p, vars) == part = p /\ UNCHANGED vars

NextBoard ==
  /\ UNCHANGED part
  /\ \/ /\ Only("keep_alive", <<cfgVars, fetchVars, sgdVars, trainVars, neuronVars>>)
        /\ AliveNext
     \/ /\ Only("config", <<kaVars, fetchVars, sgdVars, trainVars, neuronVars>>)
        /\ ConfigNext
     \/ /\ Only("fetch", <<kaVars, cfgVars, sgdVars, trainVars, neuronVars>>)
        /\ FetchNext
     \/ /\ Only("sgd", <<kaVars, cfgVars, fetchVars, trainVars, neuronVars>>)
        /\ SgdNext
     \/ /\ Only("training", <<kaVars, cfgVars, fetchVars, sgdVars, neuronVars>>)
        /\ TrainNext
     \/ /\ Only("neuron", <<kaVars, cfgVars, fetchVars, sgdVars, trainVars>>)
        /\ NeuronNext

\* The fairness of the part that a behaviour is one of.
FairBoardSpec ==
  /\ InitBoard /\ [][NextBoard]_boardVars
  /\ part = "keep_alive" => AliveFairness
  /\ part = "fetch" => FetchFairness

\* The type invariant of every part of a board.
BoardTypeOK ==
  KeepAliveTypeOK /\ ConfigTypeOK /\ FetchTypeOK /\ SgdTypeOK /\ TrainTypeOK /\ NeuronTypeOK
=============================================================================
