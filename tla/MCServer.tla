------------------------------ MODULE MCServer ------------------------------
(***************************************************************************)
(* Instances of the parts of the server that do not share state: the       *)
(* buffer of the sessions, the averaging, the lists of a network, the      *)
(* conversion of a model to JSON and back, and the evaluation.  A          *)
(* behaviour is one of the part that it chooses; the others stand still.   *)
(***************************************************************************)
EXTENDS MCModelUplink, MCFedAvg, NetworkLists, ModelConversion, Metrics

CONSTANT nan   \* a number that is not finite

VARIABLE part

serverPartVars == <<part, uplinkVars, avgVars, listVars, conversionVars, metricsVars>>

ThreeShapes == {<<3, 2, 2>>, <<2, 3>>, <<2, 2, 3, 2>>}

\* A network of a shape, its weights w and what follows it; or with some of its numbers
\* not finite, as after a round of no trainings.
Layered(s, w, finite) ==
  LET number(x) == IF x = 2 /\ ~finite THEN nan ELSE x IN
  [epoch |-> 2, alpha |-> 1, regularization |-> 0, lambda |-> number(2), percentualtraining |-> 3,
   lossfunctiontype |-> 2, layers |-> Len(s),
   layersArray |-> [i \in DOMAIN s |->
     LET weights == IF i = 1 THEN 0 ELSE s[i - 1] IN
     [activationfunctiontype |-> IF i = 1 THEN 0 ELSE IF i = Len(s) THEN 4 ELSE 2,
      neurons |-> s[i],
      neuronsArray |-> [j \in 1..s[i] |->
        [neurontype |-> IF i = 1 THEN "INPUT" ELSE IF i = Len(s) THEN "OUTPUT" ELSE "HIDDEN",
         weights |-> weights, bias |-> number(j),
         weightsArray |-> [k \in 1..weights |-> number((w + j + k) % 3)]]]]]]
SmallModel == Learning(1, 0, Layered(<<2, 2>>, 0, TRUE))
GlobalModels == {SmallModel, Learning(1, 0, Layered(<<1, 2, 1>>, 1, FALSE))}

\* Training leads to numbers that are not finite, and not back.
NextWeight == [w \in 0..2 \cup {nan} |-> IF w \in 0..1 THEN w + 1 ELSE nan]

ShortEvaluations == UNION {[1..n -> [label : {0, 1}, output : 0..2]] : n \in 1..3}

InitServerPart ==
  /\ part \in {"uplink", "average", "lists", "conversion", "metrics"}
  /\ InitUplink
  /\ AvgInit /\ (part # "average" => published = [p \in Parameter |-> Number(Rank(p))])
  /\ InitLists /\ (part # "lists" => shape = <<2, 3>>)
  /\ InitConversion /\ (part # "conversion" => instance = SmallModel)
  /\ MetricsInit
  /\ part # "metrics" => program = "server" /\ file = <<[label |-> 0, output |-> 0]>>

StandStill(p, vars) == part = p /\ UNCHANGED <<part, vars>>

NextServerPart ==
  \/ /\ StandStill("uplink", <<avgVars, listVars, conversionVars, metricsVars>>)
     /\ UplinkStep
  \/ /\ StandStill("average", <<uplinkVars, listVars, conversionVars, metricsVars>>)
     /\ AvgNext
  \/ /\ StandStill("lists", <<uplinkVars, avgVars, conversionVars, metricsVars>>)
     /\ NextLists
  \/ /\ StandStill("conversion", <<uplinkVars, avgVars, listVars, metricsVars>>)
     /\ ConversionNext
  \/ /\ StandStill("metrics", <<uplinkVars, avgVars, listVars, conversionVars>>)
     /\ MetricsNext

\* The fairness of the part that a behaviour is one of.
FairServerPartSpec ==
  /\ InitServerPart /\ [][NextServerPart]_serverPartVars
  /\ part = "uplink" => UplinkFairness

\* The type invariant of every part of the server.
ServerPartsTypeOK ==
  UplinkTypeOK /\ AvgTypeOK /\ ListsTypeOK /\ ConversionTypeOK /\ MetricsTypeOK
=============================================================================
