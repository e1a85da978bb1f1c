-------------------------- MODULE ServerPartsProofs --------------------------
(***************************************************************************)
(* The parts of the server: what AggregationModel publishes at the end of  *)
(* a round, for any models, counters and number of boards; what            *)
(* PerformanceMetrics prints, for any file of rows, any number of rows     *)
(* that are asked for and any threshold; what is left of a model, of any   *)
(* size, that JSONConverter.c takes to a board and back; that the buffer   *)
(* of the sessions hands a model to AggregationModel for the board that    *)
(* sent it; and, with the networks in memory, that each part leaves the    *)
(* others their types.                                                     *)
(***************************************************************************)
EXTENDS MCServer, NetworkListsProofs, Recursion, FiniteSetTheorems,
        SequenceTheorems

\* A model that was summed, and the trainings it counts for.
Summand == [Parameter -> Value] \X Nat

\* What is summed is the sum of the round so far, parameter by parameter, and what is
\* published the average of the round before.
RoundInv ==
  /\ trainingscounter = TotalTrainings(received)
  /\ \A p \in Parameter : IsReset(p) => accumulator[p] = WeightedSum(p, received)
AverageInv ==
  averaged # <<>> => \A p \in Parameter : IsReset(p) => published[p] = AverageOf(p)
HistoryInv == received \in Seq(Summand) /\ averaged \in Seq(Summand)

AvgInv == AvgTypeOK /\ HistoryInv /\ RoundInv /\ AverageInv

-----------------------------------------------------------------------------
LEMMA SummandsOf ==
  ASSUME NEW r \in Seq(Summand)
  PROVE  /\ Len(r) \in Nat /\ DOMAIN r = 1..Len(r)
         /\ \A n \in 1..Len(r) : r[n] \in Summand /\ r[n][1] \in [Parameter -> Value] /\ r[n][2] \in Nat
PROOF
<1>1. \A n \in 1..Len(r) : r[n] \in Summand
  BY ElementOfSeq
<1> QED BY <1>1, LenProperties DEF Summand

LEMMA AddScaledType ==
  ASSUME NEW v \in Value, NEW w \in Value, NEW c \in Nat
  PROVE  /\ AddScaled(v, w, c) \in Value
         /\ IsNumber(AddScaled(v, w, c)) <=> IsNumber(v) /\ IsNumber(w)
PROOF
<1>1. v.num \in Int /\ v.den \in Nat /\ w.num \in Int /\ w.den \in Nat
  BY DEF Value
<1>2. \A i \in Int, j \in Int : i * j \in Int
  OBVIOUS
<1>3. \A i \in Nat, j \in Nat : i * j \in Nat /\ (i * j # 0 <=> i # 0 /\ j # 0)
  OBVIOUS
<1>4. v.num * w.den + w.num * c * v.den \in Int
  <2>1. v.num * w.den \in Int /\ w.num * c \in Int
    BY <1>1, <1>2
  <2>2. w.num * c * v.den \in Int
    BY <1>1, <1>2, <2>1
  <2> QED BY <2>1, <2>2
<1> QED BY <1>1, <1>3, <1>4 DEF AddScaled, Value, IsNumber

LEMMA NumberType == \A i \in Int : Number(i) \in Value /\ IsNumber(Number(i))
  BY DEF Number, Value, IsNumber

-----------------------------------------------------------------------------
(* The sums of a round are what their recursive definitions say.           *)

LEMMA TrainingsAdd ==
  ASSUME NEW r \in Seq(Summand)
  PROVE  /\ Trainings(r) = [n \in 0..Len(r) |-> IF n = 0 THEN 0 ELSE Trainings(r)[n - 1] + r[n][2]]
         /\ Trainings(r) \in [0..Len(r) -> Nat]
PROOF
<1>1. Len(r) \in Nat /\ \A n \in 1..Len(r) : r[n][2] \in Nat
  BY SummandsOf
<1> DEFINE adds == [x \in (1..Len(r)) \X Nat |-> x[2] + r[x[1]][2]]
<1>2. adds \in [(1..Len(r)) \X Nat -> Nat]
  BY <1>1
<1>3. \A k \in 1..Len(r), v \in Nat : adds[<<k, v>>] = v + r[k][2]
  OBVIOUS
<1> HIDE DEF adds
<1>4. PICK f \in Recursions(Nat, 0, Len(r), adds) : TRUE
  <2>1. Recursions(Nat, 0, Len(r), adds) # {}
    <3>1. 0 \in Nat
      OBVIOUS
    <3> QED BY <1>1, <1>2, <3>1, RecursionExists
  <2> QED BY <2>1, Zenon
<1>5. f = [n \in 0..Len(r) |-> IF n = 0 THEN 0 ELSE f[n - 1] + r[n][2]]
  <2>1. f \in [0..Len(r) -> Nat] /\ f[0] = 0
    BY <1>4 DEF Recursions
  <2>2. \A k \in 1..Len(r) : f[k] = adds[<<k, f[k - 1]>>]
    BY <1>4 DEF Recursions
  <2>3. ASSUME NEW k \in 1..Len(r) PROVE f[k] = f[k - 1] + r[k][2]
    <3>1. k - 1 \in 0..Len(r)
      BY <1>1
    <3>2. f[k - 1] \in Nat
      BY <2>1, <3>1
    <3> QED BY <1>3, <2>2, <3>2
  <2> QED BY <1>1, <2>1, <2>3
<1>6. Trainings(r) = [n \in 0..Len(r) |-> IF n = 0 THEN 0 ELSE Trainings(r)[n - 1] + r[n][2]]
  BY <1>5, Zenon DEF Trainings
<1>7. Trainings(r) \in [0..Len(r) -> Nat]
  <2> DEFINE S == {n \in 0..Len(r) : Trainings(r)[n] \in Nat}
  <2>1. 0 \in S
    BY <1>1, <1>6
  <2>2. \A k \in 1..Len(r) : k - 1 \in S => k \in S
    BY <1>1, <1>6
  <2> HIDE DEF S
  <2>3. 0..Len(r) \subseteq S
    BY <1>1, <2>1, <2>2, BoundedInduction
  <2> QED BY <1>6, <2>3 DEF S
<1> QED BY <1>6, <1>7

\* A sum is a number when every model in it has one.
LEMMA WeightedSumsAdd ==
  ASSUME NEW r \in Seq(Summand), NEW p \in Parameter
  PROVE  /\ WeightedSums(p, r) =
              [n \in 0..Len(r) |-> IF n = 0 THEN Number(0)
                                   ELSE AddScaled(WeightedSums(p, r)[n - 1], r[n][1][p], r[n][2])]
         /\ WeightedSums(p, r) \in [0..Len(r) -> Value]
         /\ \A n \in 0..Len(r) :
              IsNumber(WeightedSums(p, r)[n]) <=> \A i \in 1..n : IsNumber(r[i][1][p])
PROOF
<1> DEFINE w == WeightedSums(p, r)
<1>1. Len(r) \in Nat /\ \A n \in 1..Len(r) : r[n][1][p] \in Value /\ r[n][2] \in Nat
  BY SummandsOf
<1> DEFINE adds == [x \in (1..Len(r)) \X Value |-> AddScaled(x[2], r[x[1]][1][p], r[x[1]][2])]
<1>2. adds \in [(1..Len(r)) \X Value -> Value]
  BY <1>1, AddScaledType
<1>3. \A k \in 1..Len(r), v \in Value : adds[<<k, v>>] = AddScaled(v, r[k][1][p], r[k][2])
  OBVIOUS
<1> HIDE DEF adds
<1>4. PICK f \in Recursions(Value, Number(0), Len(r), adds) : TRUE
  <2>1. Number(0) \in Value
    BY NumberType
  <2> QED BY <1>1, <1>2, <2>1, RecursionExists
<1>5. f = [n \in 0..Len(r) |-> IF n = 0 THEN Number(0) ELSE AddScaled(f[n - 1], r[n][1][p], r[n][2])]
  <2>1. f \in [0..Len(r) -> Value] /\ f[0] = Number(0)
    BY <1>4 DEF Recursions
  <2>2. \A k \in 1..Len(r) : f[k] = adds[<<k, f[k - 1]>>]
    BY <1>4 DEF Recursions
  <2>3. ASSUME NEW k \in 1..Len(r) PROVE f[k] = AddScaled(f[k - 1], r[k][1][p], r[k][2])
    <3>1. k - 1 \in 0..Len(r)
      BY <1>1
    <3>2. f[k - 1] \in Value
      BY <2>1, <3>1
    <3> QED BY <1>3, <2>2, <3>2
  <2> QED BY <1>1, <2>1, <2>3
<1>6. w = [n \in 0..Len(r) |-> IF n = 0 THEN Number(0) ELSE AddScaled(w[n - 1], r[n][1][p], r[n][2])]
  BY <1>5, Zenon DEF WeightedSums
<1> HIDE DEF w
<1>7. w[0] = Number(0) /\ \A n \in 1..Len(r) : w[n] = AddScaled(w[n - 1], r[n][1][p], r[n][2])
  BY <1>1, <1>6
<1> DEFINE S == {n \in 0..Len(r) : w[n] \in Value /\ (IsNumber(w[n]) <=> \A i \in 1..n : IsNumber(r[i][1][p]))}
<1>8. 0 \in S
  BY <1>1, <1>7, NumberType
<1>9. ASSUME NEW k \in 1..Len(r), k - 1 \in S PROVE k \in S
  <2>1. w[k] = AddScaled(w[k - 1], r[k][1][p], r[k][2]) /\ w[k - 1] \in Value
    BY <1>7, <1>9
  <2>2. w[k] \in Value /\ (IsNumber(w[k]) <=> IsNumber(w[k - 1]) /\ IsNumber(r[k][1][p]))
    <3>1. r[k][1][p] \in Value /\ r[k][2] \in Nat
      BY <1>1
    <3> DEFINE v == AddScaled(w[k - 1], r[k][1][p], r[k][2])
    <3>2. v \in Value /\ (IsNumber(v) <=> IsNumber(w[k - 1]) /\ IsNumber(r[k][1][p]))
      BY <2>1, <3>1, AddScaledType
    <3> QED BY <2>1, <3>2, Zenon
  <2>3. 1..k = 1..(k - 1) \cup {k}
    BY <1>1
  <2>4. IsNumber(w[k - 1]) <=> \A i \in 1..(k - 1) : IsNumber(r[i][1][p])
    BY <1>9
  <2>5. k \in 0..Len(r)
    BY <1>1
  <2> QED BY <2>2, <2>3, <2>4, <2>5, Zenon
<1> HIDE DEF S
<1>10. 0..Len(r) \subseteq S
  BY <1>1, <1>8, <1>9, BoundedInduction
<1> QED BY <1>6, <1>10 DEF S, w

\* One model more.
LEMMA OneMoreTraining ==
  ASSUME NEW r \in Seq(Summand), NEW x \in Summand
  PROVE  TotalTrainings(Append(r, x)) = TotalTrainings(r) + x[2]
PROOF
<1> DEFINE s == Append(r, x)
           S == {n \in 0..Len(r) : Trainings(s)[n] = Trainings(r)[n]}
<1>1. /\ Len(r) \in Nat /\ s \in Seq(Summand) /\ Len(s) = Len(r) + 1 /\ s[Len(r) + 1] = x
      /\ \A n \in 1..Len(r) : s[n] = r[n]
  BY SummandsOf, AppendProperties
<1> HIDE DEF s
<1>2. /\ Trainings(r)[0] = 0
      /\ \A n \in 1..Len(r) : Trainings(r)[n] = Trainings(r)[n - 1] + r[n][2]
  BY <1>1, TrainingsAdd
<1>3. /\ Trainings(s)[0] = 0
      /\ \A n \in 1..(Len(r) + 1) : Trainings(s)[n] = Trainings(s)[n - 1] + s[n][2]
  BY <1>1, TrainingsAdd
<1>4. 0 \in S
  BY <1>1, <1>2, <1>3
<1>5. \A k \in 1..Len(r) : k - 1 \in S => k \in S
  BY <1>1, <1>2, <1>3
<1> HIDE DEF S
<1>6. 0..Len(r) \subseteq S
  BY <1>1, <1>4, <1>5, BoundedInduction
<1>7. Trainings(s)[Len(r)] = Trainings(r)[Len(r)]
  BY <1>1, <1>6 DEF S
<1>8. Trainings(s)[Len(r) + 1] = Trainings(s)[Len(r)] + x[2]
  BY <1>1, <1>3
<1> QED BY <1>1, <1>7, <1>8 DEF TotalTrainings, s

LEMMA OneMoreSummand ==
  ASSUME NEW r \in Seq(Summand), NEW x \in Summand, NEW p \in Parameter
  PROVE  WeightedSum(p, Append(r, x)) = AddScaled(WeightedSum(p, r), x[1][p], x[2])
PROOF
<1> DEFINE s == Append(r, x)
           S == {n \in 0..Len(r) : WeightedSums(p, s)[n] = WeightedSums(p, r)[n]}
<1>1. /\ Len(r) \in Nat /\ s \in Seq(Summand) /\ Len(s) = Len(r) + 1 /\ s[Len(r) + 1] = x
      /\ \A n \in 1..Len(r) : s[n] = r[n]
  BY SummandsOf, AppendProperties
<1> HIDE DEF s
<1>2. /\ WeightedSums(p, r)[0] = Number(0)
      /\ \A n \in 1..Len(r) :
           WeightedSums(p, r)[n] = AddScaled(WeightedSums(p, r)[n - 1], r[n][1][p], r[n][2])
  <2>1. WeightedSums(p, r) =
          [n \in 0..Len(r) |-> IF n = 0 THEN Number(0)
                               ELSE AddScaled(WeightedSums(p, r)[n - 1], r[n][1][p], r[n][2])]
    BY WeightedSumsAdd
  <2> QED BY <1>1, <2>1
<1>3. /\ WeightedSums(p, s)[0] = Number(0)
      /\ \A n \in 1..(Len(r) + 1) :
           WeightedSums(p, s)[n] = AddScaled(WeightedSums(p, s)[n - 1], s[n][1][p], s[n][2])
  <2>1. WeightedSums(p, s) =
          [n \in 0..Len(s) |-> IF n = 0 THEN Number(0)
                               ELSE AddScaled(WeightedSums(p, s)[n - 1], s[n][1][p], s[n][2])]
    BY <1>1, WeightedSumsAdd
  <2> QED BY <1>1, <2>1
<1>4. 0 \in S
  BY <1>1, <1>2, <1>3
<1>5. ASSUME NEW k \in 1..Len(r), k - 1 \in S PROVE k \in S
  <2>1. /\ WeightedSums(p, r)[k] = AddScaled(WeightedSums(p, r)[k - 1], r[k][1][p], r[k][2])
        /\ WeightedSums(p, s)[k] = AddScaled(WeightedSums(p, s)[k - 1], s[k][1][p], s[k][2])
    BY <1>1, <1>2, <1>3
  <2>2. s[k] = r[k] /\ WeightedSums(p, s)[k - 1] = WeightedSums(p, r)[k - 1]
    BY <1>1, <1>5
  <2> QED BY <1>1, <2>1, <2>2
<1> HIDE DEF S
<1>6. 0..Len(r) \subseteq S
  BY <1>1, <1>4, <1>5, BoundedInduction
<1>7. WeightedSums(p, s)[Len(r)] = WeightedSums(p, r)[Len(r)]
  BY <1>1, <1>6 DEF S
<1>8. WeightedSums(p, s)[Len(r) + 1] = AddScaled(WeightedSums(p, s)[Len(r)], x[1][p], x[2])
  BY <1>1, <1>3
<1> QED BY <1>1, <1>7, <1>8 DEF WeightedSum, s

LEMMA SumsStartEmpty ==
  ASSUME NEW r \in Seq(Summand)
  PROVE  Trainings(r)[0] = 0 /\ \A p \in Parameter : WeightedSums(p, r)[0] = Number(0)
PROOF
<1>1. Len(r) \in Nat
  BY SummandsOf
<1>2. Trainings(r)[0] = 0
  BY <1>1, TrainingsAdd
<1>3. ASSUME NEW p \in Parameter PROVE WeightedSums(p, r)[0] = Number(0)
  BY <1>1, WeightedSumsAdd
<1> QED BY <1>2, <1>3

LEMMA EmptyRound ==
  ASSUME NEW r \in Seq(Summand), r = <<>>
  PROVE  TotalTrainings(r) = 0 /\ \A p \in Parameter : WeightedSum(p, r) = Number(0)
PROOF
<1>1. Len(r) = 0
  OBVIOUS
<1> QED BY <1>1, SumsStartEmpty, Zenon DEF TotalTrainings, WeightedSum

LEMMA TotalType == \A r \in Seq(Summand) : TotalTrainings(r) \in Nat
  BY TrainingsAdd, SummandsOf DEF TotalTrainings

LEMMA SumType ==
  ASSUME NEW r \in Seq(Summand), NEW p \in Parameter
  PROVE  /\ WeightedSum(p, r) \in Value
         /\ IsNumber(WeightedSum(p, r)) <=> \A i \in DOMAIN r : IsNumber(r[i][1][p])
PROOF
<1>1. Len(r) \in 0..Len(r) /\ DOMAIN r = 1..Len(r)
  BY SummandsOf
<1>2. /\ WeightedSums(p, r)[Len(r)] \in Value
      /\ IsNumber(WeightedSums(p, r)[Len(r)]) <=> \A i \in 1..Len(r) : IsNumber(r[i][1][p])
  BY <1>1, WeightedSumsAdd
<1> QED BY <1>1, <1>2, Zenon DEF WeightedSum

-----------------------------------------------------------------------------
LEMMA ModelsAreValues ==
  ASSUME NEW m \in LocalModels
  PROVE  m \in [Parameter -> Value]
BY ModelsAssumption, NumberType DEF LocalModels, NotANumber, Value

LEMMA CountersAreNumbers == \A c \in Counters : c \in Nat
  BY CountersAssumption

LEMMA SumModelStep ==
  ASSUME AvgInv, NEW m \in LocalModels, NEW c \in Counters, SumModel(m, c)
  PROVE  AvgInv'
PROOF
<1>1. m \in [Parameter -> Value] /\ c \in Nat /\ <<m, c>> \in Summand
  BY ModelsAreValues, CountersAreNumbers DEF Summand
<1>2. received \in Seq(Summand) /\ averaged \in Seq(Summand) /\ accumulator \in [Parameter -> Value]
  BY DEF AvgInv, HistoryInv, AvgTypeOK
<1>3. /\ accumulator' = [p \in Parameter |-> AddScaled(accumulator[p], m[p], c)]
      /\ trainingscounter' = trainingscounter + c /\ received' = Append(received, <<m, c>>)
      /\ UNCHANGED <<published, averaged>>
  BY DEF SumModel, FederatedAveragingSum
<1>4. AvgTypeOK'
  BY <1>1, <1>2, <1>3, AddScaledType DEF AvgInv, AvgTypeOK
<1>5. HistoryInv'
  BY <1>1, <1>2, <1>3, AppendProperties DEF HistoryInv
<1>6. RoundInv'
  <2>1. TotalTrainings(received)' = TotalTrainings(Append(received, <<m, c>>))
    BY <1>3
  <2>2. ASSUME NEW p \in Parameter, IsReset(p) PROVE accumulator'[p] = WeightedSum(p, received')
    BY <1>1, <1>2, <1>3, <2>2, OneMoreSummand DEF AvgInv, RoundInv
  <2>3. trainingscounter' = TotalTrainings(received')
    BY <1>1, <1>2, <1>3, OneMoreTraining DEF AvgInv, RoundInv
  <2> QED BY <2>2, <2>3 DEF RoundInv
<1>7. AverageInv'
  BY <1>3 DEF AvgInv, AverageInv, AverageOf
<1> QED BY <1>4, <1>5, <1>6, <1>7 DEF AvgInv

LEMMA CloseRoundStep ==
  ASSUME AvgInv, NEW m \in LocalModels, NEW c \in Counters, CloseRound(m, c)
  PROVE  AvgInv'
PROOF
<1>1. m \in [Parameter -> Value] /\ c \in Nat /\ <<m, c>> \in Summand
  BY ModelsAreValues, CountersAreNumbers DEF Summand
<1>2. received \in Seq(Summand) /\ averaged \in Seq(Summand) /\ accumulator \in [Parameter -> Value]
      /\ trainingscounter \in Nat
  BY DEF AvgInv, HistoryInv, AvgTypeOK
<1>3. /\ published' = [p \in Parameter |->
                         Divide(AddScaled(accumulator[p], m[p], c), trainingscounter + c)]
      /\ accumulator' = SetNeuralNetworkZeroWeightValue(published')
      /\ trainingscounter' = 0 /\ received' = <<>> /\ averaged' = Append(received, <<m, c>>)
  BY DEF CloseRound, FederatedAveraging, FederatedAveragingSum
<1>4. AvgTypeOK'
  <2>1. \A v \in Value, k \in Nat : Divide(v, k) \in Value
    BY DEF Value, Divide
  <2>2. published' \in [Parameter -> Value]
    BY <1>1, <1>2, <1>3, <2>1, AddScaledType
  <2>3. accumulator' \in [Parameter -> Value]
    BY <1>3, <2>2, NumberType DEF SetNeuralNetworkZeroWeightValue
  <2> QED BY <1>3, <2>2, <2>3 DEF AvgTypeOK
<1>5. HistoryInv'
  BY <1>1, <1>2, <1>3, AppendProperties DEF HistoryInv
<1>6. RoundInv'
  BY <1>3, <1>5, EmptyRound DEF RoundInv, HistoryInv, SetNeuralNetworkZeroWeightValue
<1>7. AverageInv'
  <2>1. TotalTrainings(averaged') = trainingscounter + c
    BY <1>1, <1>2, <1>3, OneMoreTraining DEF AvgInv, RoundInv
  <2>2. ASSUME NEW p \in Parameter, IsReset(p)
        PROVE  published'[p] = Divide(WeightedSum(p, averaged'), TotalTrainings(averaged'))
    BY <1>1, <1>2, <1>3, <2>1, <2>2, OneMoreSummand DEF AvgInv, RoundInv
  <2> QED BY <2>2 DEF AverageInv, AverageOf
<1> QED BY <1>4, <1>5, <1>6, <1>7 DEF AvgInv

LEMMA AvgInitial == AvgInit => AvgInv
PROOF
<1> SUFFICES ASSUME AvgInit PROVE AvgInv
  OBVIOUS
<1>1. HistoryInv
  BY DEF AvgInit, HistoryInv
<1>2. AvgTypeOK
  BY NumberType, ModelsAssumption DEF AvgInit, AvgTypeOK
<1>3. RoundInv
  BY <1>1, EmptyRound DEF AvgInit, RoundInv, HistoryInv
<1>4. AverageInv
  BY DEF AvgInit, AverageInv
<1> QED BY <1>1, <1>2, <1>3, <1>4 DEF AvgInv

LEMMA AvgStep == AvgInv /\ [AvgNext]_avgVars => AvgInv'
PROOF
<1>1. AvgInv /\ AvgNext => AvgInv'
  BY SumModelStep, CloseRoundStep DEF AvgNext
<1>2. AvgInv /\ UNCHANGED avgVars => AvgInv'
  BY DEF avgVars, AvgInv, AvgTypeOK, HistoryInv, RoundInv, AverageInv, AverageOf
<1> QED BY <1>1, <1>2

LEMMA AvgInvariant == AvgSpec => []AvgInv
  BY AvgInitial, AvgStep, PTL DEF AvgSpec

\* The sum and the published model are numbers, or no numbers, in every parameter.
THEOREM AveragesAreValues == AvgSpec => []AvgTypeOK
PROOF
<1>1. AvgInv => AvgTypeOK
  BY DEF AvgInv
<1> QED BY <1>1, AvgInvariant, PTL

\* The server publishes the average of the models of the round, weighted by their
\* trainings, and no number when there is no such average.
THEOREM FederatedAverage == AvgSpec => []PublishesWeightedAverage
PROOF
<1>1. AvgInv => PublishesWeightedAverage
  <2> SUFFICES ASSUME AvgInv, averaged # <<>>, NEW p \in Parameter, IsReset(p)
               PROVE  IF HasAverage(p) THEN Same(published[p], AverageOf(p))
                                       ELSE ~IsNumber(published[p])
    BY DEF PublishesWeightedAverage
  <2> DEFINE sum == WeightedSum(p, averaged)
             count == TotalTrainings(averaged)
  <2>1. published[p] = Divide(sum, count) /\ AverageOf(p) = Divide(sum, count)
    BY DEF AvgInv, AverageInv, AverageOf
  <2>2. count \in Nat /\ sum \in Value
        /\ (IsNumber(sum) <=> \A i \in DOMAIN averaged : IsNumber(averaged[i][1][p]))
    BY TotalType, SumType DEF AvgInv, HistoryInv
  <2>3. HasAverage(p) <=> count > 0 /\ IsNumber(sum)
    BY <2>2 DEF HasAverage
  <2> HIDE DEF sum, count
  <2>4. /\ Divide(sum, count).den = sum.den * count
        /\ Divide(sum, count).num \in Int /\ sum.den \in Nat
    BY <2>2 DEF Divide, Value
  <2>5. sum.den * count # 0 <=> sum.den # 0 /\ count # 0
    BY <2>2, <2>4
  <2>6. IsNumber(Divide(sum, count)) <=> HasAverage(p)
    BY <2>2, <2>3, <2>4, <2>5 DEF IsNumber
  <2> QED BY <2>1, <2>6 DEF Same
<1> QED BY <1>1, AvgInvariant, PTL

-----------------------------------------------------------------------------
(* The evaluation of the global model.                                     *)

Evaluated == [label : {0, 1}, output : Int]

\* The kth row of f that is counted: the last one over and over when f is short.
RowAt(f, k) == f[IF k <= Len(f) THEN k ELSE Len(f)]

IsClear(f) == \A k \in DOMAIN f : f[k].output # Threshold

\* The row has a label in l, and its output is on a side of the threshold in sides.
IsOf(r, l, sides) == r.label \in l /\ (r.output > Threshold) \in sides

RowsUpTo(f, n, l, sides) == {k \in 1..n : IsOf(RowAt(f, k), l, sides)}

HowMany(f, n, l, sides) == Cardinality(RowsUpTo(f, n, l, sides))

ReadInv ==
  /\ program \in {"server", "trainer"} /\ file \in Evaluations
  /\ next \in 1..(Len(file) + 1) /\ counted \in 0..PercentualEvaluation

\* How far a program is in the file, and the row it has in its buffer.
PlaceInv ==
  /\ counted < Len(file) => next = counted + 1
  /\ counted >= Len(file) => next = Len(file) + 1
  /\ program = "trainer" => counted <= Len(file)
  /\ row = RowAt(file, IF counted = 0 THEN 1 ELSE counted)

NumbersInv ==
  /\ truepositive \in Nat /\ truenegative \in Nat /\ falsepositive \in Nat /\ falsenegative \in Nat
  /\ truepositive + truenegative + falsepositive + falsenegative = counted
  /\ total = counted

\* Labels of 1 that were missed and labels of 0 that were raised, as a program has them.
Missed == IF program = "server" THEN falsepositive ELSE falsenegative
Raised == IF program = "server" THEN falsenegative ELSE falsepositive

\* The two counts of hits, and the four sums that a ratio is divided by.
AreTheCounts(f, n, tp, tn, missed, raised) ==
  /\ tp = HowMany(f, n, {1}, {TRUE})
  /\ tn = HowMany(f, n, {0}, {FALSE})
  /\ tp + missed = HowMany(f, n, {1}, BOOLEAN)
  /\ tn + raised = HowMany(f, n, {0}, BOOLEAN)
  /\ tp + raised = HowMany(f, n, {0, 1}, {TRUE})
  /\ tn + missed = HowMany(f, n, {0, 1}, {FALSE})

CountsInv ==
  IsClear(file) => AreTheCounts(file, counted, truepositive, truenegative, Missed, Raised)

PrintedInv ==
  printed # NotPrinted =>
    /\ ~HasRow
    /\ printed = [accuracy |-> Accuracy, precision |-> Precision, recall |-> Recall,
                  specificity |-> Specificity, f1 |-> F1Score]

MetricsInv == ReadInv /\ PlaceInv /\ NumbersInv /\ CountsInv /\ PrintedInv

-----------------------------------------------------------------------------
LEMMA Bounds == PercentualEvaluation \in Nat /\ Threshold \in Int
  BY EvaluationBound

LEMMA FileIsRows ==
  ASSUME NEW f \in Evaluations
  PROVE  /\ f \in Seq(Evaluated) /\ Len(f) \in Nat /\ Len(f) > 0 /\ DOMAIN f = 1..Len(f)
         /\ \A k \in Nat \ {0} : RowAt(f, k) \in Evaluated
PROOF
<1>1. f \in Seq(Evaluated) /\ f # <<>>
  BY EvaluationsAssumption DEF Evaluated
<1>2. Len(f) \in Nat /\ DOMAIN f = 1..Len(f) /\ \A i \in 1..Len(f) : f[i] \in Evaluated
  BY <1>1, ElementOfSeq, LenProperties
<1>3. Len(f) > 0
  BY <1>1, <1>2, EmptySeq
<1> QED BY <1>1, <1>2, <1>3 DEF RowAt

LEMMA ClearRow ==
  ASSUME NEW f \in Evaluations, IsClear(f), NEW k \in Nat \ {0}
  PROVE  RowAt(f, k).output # Threshold
BY FileIsRows DEF IsClear, RowAt

LEMMA RowsAreFinite ==
  ASSUME NEW f, NEW n \in Nat, NEW l, NEW sides
  PROVE  IsFiniteSet(RowsUpTo(f, n, l, sides)) /\ HowMany(f, n, l, sides) \in Nat
PROOF
<1>1. IsFiniteSet(1..n)
  BY FS_Interval
<1>2. RowsUpTo(f, n, l, sides) \subseteq 1..n
  BY DEF RowsUpTo
<1>3. IsFiniteSet(RowsUpTo(f, n, l, sides))
  BY <1>1, <1>2, FS_Subset
<1> QED BY <1>3, FS_CardinalityType DEF HowMany

LEMMA NoRowYet ==
  ASSUME NEW f, NEW l, NEW sides
  PROVE  HowMany(f, 0, l, sides) = 0
PROOF
<1>1. RowsUpTo(f, 0, l, sides) = {}
  BY DEF RowsUpTo
<1> QED BY <1>1, FS_EmptySet DEF HowMany

LEMMA OneMoreRow ==
  ASSUME NEW f, NEW n \in Nat, NEW l, NEW sides
  PROVE  /\ IsOf(RowAt(f, n + 1), l, sides) => HowMany(f, n + 1, l, sides) = HowMany(f, n, l, sides) + 1
         /\ ~IsOf(RowAt(f, n + 1), l, sides) => HowMany(f, n + 1, l, sides) = HowMany(f, n, l, sides)
PROOF
<1> DEFINE S == RowsUpTo(f, n, l, sides)
<1>1. 1..(n + 1) = 1..n \cup {n + 1} /\ n + 1 \notin 1..n
  OBVIOUS
<1>2. CASE IsOf(RowAt(f, n + 1), l, sides)
  <2>1. RowsUpTo(f, n + 1, l, sides) = S \cup {n + 1}
    BY <1>1, <1>2, Zenon DEF RowsUpTo
  <2>2. n + 1 \notin S
    BY <1>1, Zenon DEF RowsUpTo
  <2>3. IsFiniteSet(S)
    BY RowsAreFinite
  <2>4. Cardinality(S \cup {n + 1}) = Cardinality(S) + 1
    BY <2>2, <2>3, FS_AddElement, Zenon
  <2> QED BY <1>2, <2>1, <2>4, Zenon DEF HowMany
<1>3. CASE ~IsOf(RowAt(f, n + 1), l, sides)
  <2>1. RowsUpTo(f, n + 1, l, sides) = S
    BY <1>1, <1>3, Zenon DEF RowsUpTo
  <2> QED BY <1>3, <2>1, Zenon DEF HowMany
<1> QED BY <1>2, <1>3

\* What the sets of labels and sides say of a row.
LEMMA RowIsOf ==
  ASSUME NEW r \in Evaluated
  PROVE  /\ IsOf(r, {1}, {TRUE}) <=> r.label = 1 /\ r.output > Threshold
         /\ IsOf(r, {0}, {FALSE}) <=> r.label = 0 /\ ~(r.output > Threshold)
         /\ IsOf(r, {1}, BOOLEAN) <=> r.label = 1
         /\ IsOf(r, {0}, BOOLEAN) <=> r.label = 0
         /\ IsOf(r, {0, 1}, {TRUE}) <=> r.output > Threshold
         /\ IsOf(r, {0, 1}, {FALSE}) <=> ~(r.output > Threshold)
PROOF
<1>1. r.label \in {0, 1}
  BY DEF Evaluated
<1>2. (r.output > Threshold) \in BOOLEAN
  OBVIOUS
<1>3. ((r.output > Threshold) \in {TRUE}) <=> r.output > Threshold
  BY <1>2
<1>4. ((r.output > Threshold) \in {FALSE}) <=> ~(r.output > Threshold)
  BY <1>2
<1>5. r.label \in {1} <=> r.label = 1
  OBVIOUS
<1>6. r.label \in {0} <=> r.label = 0
  OBVIOUS
<1> QED BY <1>1, <1>2, <1>3, <1>4, <1>5, <1>6, Zenon DEF IsOf

\* One row more, that does not lie on the threshold.
LEMMA OneMoreCount ==
  ASSUME NEW f \in Evaluations, NEW n \in Nat, RowAt(f, n + 1).output # Threshold,
         NEW tp \in Nat, NEW tn \in Nat, NEW missed \in Nat, NEW raised \in Nat,
         AreTheCounts(f, n, tp, tn, missed, raised)
  PROVE  LET r == RowAt(f, n + 1)
             positive == r.label = 1
             hit == IF positive THEN r.output > Threshold ELSE r.output < Threshold
         IN  AreTheCounts(f, n + 1, Count(tp, positive /\ hit), Count(tn, ~positive /\ hit),
                          Count(missed, positive /\ ~hit), Count(raised, ~positive /\ ~hit))
PROOF
<1> DEFINE r == RowAt(f, n + 1)
<1>1. r \in Evaluated /\ r.label \in {0, 1} /\ r.output \in Int /\ r.output # Threshold
  BY FileIsRows DEF Evaluated
<1>2. \A l, sides : /\ IsOf(r, l, sides) => HowMany(f, n + 1, l, sides) = HowMany(f, n, l, sides) + 1
                    /\ ~IsOf(r, l, sides) => HowMany(f, n + 1, l, sides) = HowMany(f, n, l, sides)
  BY OneMoreRow
<1>3. \A l, sides : HowMany(f, n, l, sides) \in Nat
  BY RowsAreFinite
<1> USE Bounds DEF AreTheCounts, Count
<1>4. CASE r.label = 1 /\ r.output > Threshold
  BY <1>1, <1>2, <1>4, RowIsOf
<1>5. CASE r.label = 1 /\ r.output < Threshold
  BY <1>1, <1>2, <1>5, RowIsOf
<1>6. CASE r.label = 0 /\ r.output > Threshold
  BY <1>1, <1>2, <1>6, RowIsOf
<1>7. CASE r.label = 0 /\ r.output < Threshold
  BY <1>1, <1>2, <1>7, RowIsOf
<1> QED BY <1>1, <1>4, <1>5, <1>6, <1>7

-----------------------------------------------------------------------------
LEMMA MetricsInitial == MetricsInit => MetricsInv
PROOF
<1> SUFFICES ASSUME MetricsInit PROVE MetricsInv
  OBVIOUS
<1>1. file \in Evaluations /\ Len(file) \in Nat /\ Len(file) > 0
  BY FileIsRows DEF MetricsInit
<1>2. ReadInv
  BY <1>1, Bounds DEF ReadInv, MetricsInit
<1>3. PlaceInv
  BY <1>1 DEF PlaceInv, MetricsInit, RowAt
<1>4. NumbersInv
  BY DEF NumbersInv, MetricsInit
<1>5. CountsInv
  BY NoRowYet DEF CountsInv, AreTheCounts, MetricsInit, Missed, Raised
<1>6. PrintedInv
  BY DEF PrintedInv, MetricsInit
<1> QED BY <1>2, <1>3, <1>4, <1>5, <1>6 DEF MetricsInv

LEMMA CountRowStep == MetricsInv /\ CountRow => MetricsInv'
PROOF
<1> SUFFICES ASSUME MetricsInv, CountRow PROVE MetricsInv'
  OBVIOUS
<1> DEFINE r == RowAt(file, counted + 1)
           positive == r.label = 1
           hit == IF positive THEN r.output > Threshold ELSE r.output < Threshold
<1>1. file \in Evaluations /\ Len(file) \in Nat /\ Len(file) > 0
  BY FileIsRows DEF MetricsInv, ReadInv
<1>2. counted \in Nat /\ counted < PercentualEvaluation /\ HasRow
  BY Bounds DEF MetricsInv, ReadInv, CountRow, HasRow
<1>3. r = IF next <= Len(file) THEN file[next] ELSE row
  BY <1>1, <1>2 DEF MetricsInv, PlaceInv, RowAt
<1>4. r \in Evaluated /\ r.label \in {0, 1} /\ r.output \in Int
  BY <1>1, <1>2, FileIsRows DEF Evaluated
<1>5. /\ total' = total + 1 /\ counted' = counted + 1 /\ row' = r
      /\ next' = (IF next <= Len(file) THEN next + 1 ELSE next)
      /\ program' = program /\ file' = file /\ printed' = printed /\ printed = NotPrinted
  BY <1>3, Zenon DEF CountRow, TotalWith
<1>6. /\ truepositive' = Count(truepositive, positive /\ hit)
      /\ truenegative' = Count(truenegative, ~positive /\ hit)
      /\ Missed' = Count(Missed, positive /\ ~hit)
      /\ Raised' = Count(Raised, ~positive /\ ~hit)
  BY <1>3, <1>5 DEF CountRow, Missed, Raised, MetricsInv, ReadInv
<1>7. /\ falsepositive' = IF program = "server" THEN Missed' ELSE Raised'
      /\ falsenegative' = IF program = "server" THEN Raised' ELSE Missed'
  BY <1>5 DEF Missed, Raised
<1>8. ReadInv'
  BY <1>1, <1>2, <1>5, Bounds DEF MetricsInv, ReadInv
<1>9. PlaceInv'
  BY <1>1, <1>2, <1>5 DEF MetricsInv, PlaceInv, ReadInv, HasRow
<1>10. NumbersInv'
  <2>1. /\ truepositive \in Nat /\ truenegative \in Nat /\ Missed \in Nat /\ Raised \in Nat
        /\ truepositive + truenegative + Missed + Raised = counted /\ total = counted
    BY DEF MetricsInv, NumbersInv, Missed, Raised
  <2>2. /\ truepositive' \in Nat /\ truenegative' \in Nat /\ Missed' \in Nat /\ Raised' \in Nat
        /\ truepositive' + truenegative' + Missed' + Raised' = counted + 1
    <3> HIDE DEF positive, hit
    <3> QED BY <1>2, <1>6, <2>1 DEF Count
  <2>3. total' = counted + 1 /\ counted' = counted + 1
    BY <1>5, <2>1
  <2>4. /\ falsepositive' \in Nat /\ falsenegative' \in Nat
        /\ truepositive' + truenegative' + falsepositive' + falsenegative' = counted + 1
    <3>1. \/ falsepositive' = Missed' /\ falsenegative' = Raised'
          \/ falsepositive' = Raised' /\ falsenegative' = Missed'
      BY <1>7
    <3> QED BY <2>2, <3>1
  <2> QED BY <2>2, <2>3, <2>4 DEF NumbersInv
<1>11. CountsInv'
  <2> SUFFICES ASSUME IsClear(file)
               PROVE  AreTheCounts(file, counted + 1, truepositive', truenegative', Missed', Raised')
    BY <1>5 DEF CountsInv
  <2>1. AreTheCounts(file, counted, truepositive, truenegative, Missed, Raised)
    BY DEF MetricsInv, CountsInv
  <2>2. r.output # Threshold
    BY <1>1, <1>2, ClearRow
  <2>3. truepositive \in Nat /\ truenegative \in Nat /\ Missed \in Nat /\ Raised \in Nat
    BY DEF MetricsInv, NumbersInv, Missed, Raised
  <2> QED BY <1>1, <1>2, <1>6, <2>1, <2>2, <2>3, OneMoreCount
<1>12. PrintedInv'
  BY <1>5 DEF PrintedInv, NotPrinted
<1> QED BY <1>8, <1>9, <1>10, <1>11, <1>12 DEF MetricsInv

LEMMA MetricsStep == MetricsInv /\ [MetricsNext]_metricsVars => MetricsInv'
PROOF
<1> SUFFICES ASSUME MetricsInv, [MetricsNext]_metricsVars PROVE MetricsInv'
  OBVIOUS
<1> USE DEF MetricsInv, ReadInv, PlaceInv, NumbersInv, CountsInv, PrintedInv, Missed, Raised
<1>1. CASE CountRow
  BY <1>1, CountRowStep
<1>2. CASE PrintMetrics
  BY <1>2 DEF PrintMetrics, HasRow, Accuracy, Precision, Recall, Specificity, F1Score
<1>3. CASE UNCHANGED metricsVars
  BY <1>3 DEF metricsVars, HasRow, Accuracy, Precision, Recall, Specificity, F1Score
<1> QED BY <1>1, <1>2, <1>3 DEF MetricsNext

LEMMA MetricsInvariant == MetricsSpec => []MetricsInv
  BY MetricsInitial, MetricsStep, PTL DEF MetricsSpec

-----------------------------------------------------------------------------
LEMMA MetricsAreTyped == MetricsInv => MetricsTypeOK
PROOF BY DEF MetricsInv, ReadInv, NumbersInv, MetricsTypeOK

\* The programs stay in the file and never count more rows than they were asked
\* to, and every row that they count goes into one of the four counts.
THEOREM MetricsTypeCorrect == MetricsSpec => []MetricsTypeOK
PROOF BY MetricsAreTyped, MetricsInvariant, PTL

\* 2PR / (P + R) is 2TP / (2TP + FP + FN) when there is a hit.
LEMMA HarmonicMean ==
  ASSUME NEW t \in Nat, NEW p \in Nat, NEW r \in Nat, t <= p, t <= r
  PROVE  SameRatio(IF p = 0 \/ r = 0 THEN <<0, 0>> ELSE <<2 * t * t, t * r + t * p>>,
                   IF t = 0 THEN <<0, 0>> ELSE <<2 * t, p + r>>)
PROOF
<1>1. CASE t = 0
  BY <1>1 DEF SameRatio
<1>2. CASE t > 0
  <2>1. p > 0 /\ r > 0 /\ p + r > 0
    BY <1>2
  <2>2. t * r > 0 /\ t * p > 0 /\ t * r \in Int /\ t * p \in Int
    BY <1>2, <2>1
  <2>3. (2 * t * t) * (p + r) = (2 * t) * (t * r + t * p)
    BY SMTT(60)
  <2> QED BY <1>2, <2>1, <2>2, <2>3 DEF SameRatio
<1> QED BY <1>1, <1>2

\* Both programs print the ratios of the rows they were to count, with the server
\* calling recall what is the precision and the precision what is the recall.
THEOREM PrintsTheRatios == MetricsSpec => []MetricsOfTheRows
PROOF
<1>1. MetricsInv => MetricsOfTheRows
  <2> SUFFICES ASSUME MetricsInv, printed # NotPrinted, IsClear(file)
               PROVE  MetricsOfTheRows
    BY DEF MetricsOfTheRows, IsClear
  <2> DEFINE n == IF program = "server" \/ Len(file) >= PercentualEvaluation
                  THEN PercentualEvaluation ELSE Len(file)
             tp == HowMany(file, n, {1}, {TRUE})
             tn == HowMany(file, n, {0}, {FALSE})
             precision == <<tp, HowMany(file, n, {0, 1}, {TRUE})>>
             recall == <<tp, HowMany(file, n, {1}, BOOLEAN)>>
             specificity == <<tn, IF program = "server" THEN HowMany(file, n, {0, 1}, {FALSE})
                                  ELSE HowMany(file, n, {0}, BOOLEAN)>>
  <2>1. program \in {"server", "trainer"} /\ Len(file) \in Nat
    BY FileIsRows DEF MetricsInv, ReadInv
  <2>2. counted = n
    BY <2>1, Bounds DEF MetricsInv, ReadInv, PlaceInv, PrintedInv, HasRow
  <2>3. AreTheCounts(file, n, truepositive, truenegative, Missed, Raised)
    BY <2>2 DEF MetricsInv, CountsInv
  <2>4. /\ truepositive \in Nat /\ truenegative \in Nat /\ falsepositive \in Nat
        /\ falsenegative \in Nat
        /\ truenegative + truepositive + falsenegative + falsepositive = n
    BY <2>2 DEF MetricsInv, NumbersInv
  <2>5. printed = [accuracy |-> Accuracy, precision |-> Precision, recall |-> Recall,
                   specificity |-> Specificity, f1 |-> F1Score]
    BY DEF MetricsInv, PrintedInv
  <2>6. printed.accuracy = <<tp + tn, n>>
    <3>1. truepositive = tp /\ truenegative = tn
      BY <2>3 DEF AreTheCounts
    <3> HIDE DEF tp, tn, n
    <3>2. truenegative + truepositive = tp + tn
      BY <2>4, <3>1
    <3>3. printed.accuracy = Accuracy
      BY <2>5
    <3> QED BY <2>4, <3>2, <3>3 DEF Accuracy
  <2>7. printed.precision = IF program = "server" THEN recall ELSE precision
    BY <2>3, <2>5 DEF AreTheCounts, Precision, Missed, Raised
  <2>8. printed.recall = IF program = "server" THEN precision ELSE recall
    BY <2>3, <2>5 DEF AreTheCounts, Recall, Missed, Raised
  <2>9. printed.specificity = specificity
    BY <2>3, <2>5 DEF AreTheCounts, Specificity, Missed, Raised
  <2>10. SameRatio(printed.f1, IF tp = 0 THEN <<0, 0>> ELSE <<2 * tp, precision[2] + recall[2]>>)
    <3> DEFINE p == truepositive + falsepositive
               r == truepositive + falsenegative
    <3>1. p \in Nat /\ r \in Nat /\ truepositive <= p /\ truepositive <= r
      BY <2>4
    <3>2. printed.f1 = IF p = 0 \/ r = 0 THEN <<0, 0>>
                       ELSE <<2 * truepositive * truepositive, truepositive * r + truepositive * p>>
      BY <2>5 DEF F1Score, Precision, Recall
    <3>3. tp = truepositive /\ precision[2] + recall[2] = p + r
      <4>1. /\ tp = truepositive
            /\ precision[2] = truepositive + Raised /\ recall[2] = truepositive + Missed
        BY <2>3 DEF AreTheCounts
      <4>2. Missed + Raised = falsepositive + falsenegative /\ Missed \in Nat /\ Raised \in Nat
        BY <2>4 DEF Missed, Raised
      <4> HIDE DEF tp, precision, recall
      <4> QED BY <2>4, <4>1, <4>2
    <3> HIDE DEF p, r
    <3>4. SameRatio(printed.f1, IF truepositive = 0 THEN <<0, 0>> ELSE <<2 * truepositive, p + r>>)
      BY <2>4, <3>1, <3>2, HarmonicMean
    <3> QED BY <3>3, <3>4
  <2>11. \A l, sides : HowMany(file, n, l, sides) \in Nat
    BY <2>2, RowsAreFinite DEF MetricsInv, ReadInv
  <2>12. n \in Nat
    BY <2>1, Bounds
  <2>13. \A a \in Nat, b \in Nat : SameRatio(<<a, b>>, <<a, b>>)
    BY DEF SameRatio
  <2>14. tp + tn \in Nat
    BY <2>11
  <2>15. SameRatio(printed.accuracy, <<tp + tn, n>>)
    BY <2>6, <2>12, <2>13, <2>14
  <2>16. SameRatio(printed.precision, IF program = "server" THEN recall ELSE precision)
    BY <2>7, <2>11, <2>13
  <2>17. SameRatio(printed.recall, IF program = "server" THEN precision ELSE recall)
    BY <2>8, <2>11, <2>13
  <2>18. SameRatio(printed.specificity, specificity)
    BY <2>9, <2>11, <2>13
  <2> QED BY <2>10, <2>15, <2>16, <2>17, <2>18, Zenon
          DEF MetricsOfTheRows, HowMany, RowsUpTo, IsOf, RowAt
<1> QED BY <1>1, MetricsInvariant, PTL

-----------------------------------------------------------------------------
(* A model on its way through the converters.                              *)

\* What becomes of a model, when an item of its tree is gone or none is.
Trip(side, m, gone) == JSONToFederatedLearning(side, FederatedLearningToJSON(m, gone))

\* What is on its way is a model, less an item of its own; and what has arrived was made of
\* what was sent.
SentInv ==
  step \in {"download", "replace", "receive", "aggregate"} =>
    /\ IsModel(origin) /\ missing \in {None} \cup Places(origin)
    /\ message = FederatedLearningToJSON(origin, missing)
ArrivedInv ==
  /\ step = "replace" => downloaded = JSONToFederatedLearning("board", message)
  /\ step = "aggregate" => clientmodel = JSONToFederatedLearning("server", message)

ConversionInv ==
  /\ IsModel(instance) /\ (step = "upload" => IsModel(local)) /\ SentInv /\ ArrivedInv
  /\ local.globalmodelstatus \in Nat

LEMMA ListsAreSequences ==
  ASSUME NEW s, IsList(s)
  PROVE  /\ DOMAIN s = 1..Len(s) /\ Len(s) \in Nat
         /\ s \in Seq({s[i] : i \in 1..Len(s)})
PROOF
<1> DEFINE S == {s[i] : i \in 1..Len(s)}
           n == Len(s)
<1>1. n \in Nat /\ s = [i \in 1..n |-> s[i]]
  BY DEF IsList
<1>2. \A i \in 1..n : s[i] \in S
  OBVIOUS
<1> HIDE DEF S
<1>3. s \in [1..n -> S]
  BY <1>1, <1>2
<1>4. s \in Seq(S)
  BY <1>1, <1>3
<1> QED BY <1>1, <1>3, <1>4 DEF S

LEMMA MappedList ==
  ASSUME NEW s, IsList(s), NEW t, t = [i \in DOMAIN s |-> t[i]]
  PROVE  IsList(t) /\ Len(t) = Len(s) /\ DOMAIN t = DOMAIN s
PROOF
<1>1. DOMAIN s = 1..Len(s) /\ Len(s) \in Nat
  BY ListsAreSequences
<1>2. t = [i \in 1..Len(s) |-> t[i]]
  BY <1>1
<1>3. Len(t) = Len(s)
  BY <1>1, <1>2
<1> QED BY <1>1, <1>2, <1>3 DEF IsList

\* The array without its ith element.
LEMMA Removed ==
  ASSUME NEW s, IsList(s), NEW i \in DOMAIN s
  PROVE  /\ IsList(RemoveAt(s, i)) /\ Len(RemoveAt(s, i)) = Len(s) - 1
         /\ \A k \in DOMAIN RemoveAt(s, i) : \E l \in DOMAIN s : RemoveAt(s, i)[k] = s[l]
PROOF
<1> DEFINE S == {s[k] : k \in 1..Len(s)}
           n == Len(s)
           front == SubSeq(s, 1, i - 1)
           back == SubSeq(s, i + 1, n)
           r == front \o back
<1>1. n \in Nat /\ i \in 1..n /\ s \in Seq(S) /\ DOMAIN s = 1..n
  BY ListsAreSequences
<1>2. \A x \in S : \E l \in DOMAIN s : x = s[l]
  BY <1>1
<1> HIDE DEF S
<1>3. front \in Seq(S) /\ Len(front) = i - 1
  <2>1. i - 1 \in 0..n
    BY <1>1
  <2>2. \A k \in 1..(i - 1) : s[k] \in S
    BY <1>1, ElementOfSeq
  <2>3. front = [k \in 1..(i - 1) |-> s[k]]
    BY <1>1
  <2>4. front \in [1..(i - 1) -> S]
    BY <2>2, <2>3
  <2> HIDE DEF front
  <2> QED BY <1>1, <2>1, <2>4
<1>4. back \in Seq(S) /\ Len(back) = n - i
  <2>1. n - i \in Nat
    BY <1>1
  <2>2. \A k \in 1..(n - i) : k + i \in 1..n /\ s[k + i] \in S
    BY <1>1, ElementOfSeq
  <2>3. back = [k \in 1..(n - i) |-> s[k + i]]
    BY <1>1
  <2>4. back \in [1..(n - i) -> S]
    BY <2>2, <2>3
  <2> HIDE DEF back
  <2> QED BY <2>1, <2>4
<1> HIDE DEF front, back
<1>5. r \in Seq(S) /\ Len(r) = n - 1
  <2>1. r \in Seq(S) /\ Len(r) = Len(front) + Len(back)
    BY <1>3, <1>4, ConcatProperties
  <2> QED BY <1>1, <1>3, <1>4, <2>1
<1> HIDE DEF r
<1>6. \A k \in DOMAIN r : r[k] \in S
  BY <1>5, LenProperties, ElementOfSeq
<1>7. IsList(r)
  BY <1>1, <1>5, LenProperties DEF IsList
<1>8. RemoveAt(s, i) = r
  BY DEF RemoveAt, r, front, back
<1> QED BY <1>2, <1>5, <1>6, <1>7, <1>8

\* An array is sent as it is, or without the element that is lost.
LEMMA ElementIsLost ==
  ASSUME NEW a, IsList(a), NEW at \in Seq(Nat), NEW gone, NEW i \in DOMAIN a,
         gone = Place(at \o <<i>>, "element")
  PROVE  ElementsOf(a, at, gone) = RemoveAt(a, i)
PROOF
<1>1. gone.at = at \o <<i>>
  BY DEF Place
<1>2. i \in Nat
  BY ListsAreSequences
<1>3. Last(at \o <<i>>) = i
  <2>1. <<i>> \in Seq(Nat) /\ Len(<<i>>) = 1
    BY <1>2
  <2>2. Len(at) \in Nat
    BY LenProperties
  <2>3. Len(at \o <<i>>) = Len(at) + 1 /\ (at \o <<i>>)[Len(at) + 1] = i
    BY <2>1, <2>2, ConcatProperties
  <2> QED BY <2>3 DEF Last
<1> QED BY <1>1, <1>3 DEF ElementsOf

LEMMA ArrayIsShorter ==
  ASSUME NEW a, IsList(a), NEW at \in Seq(Nat), NEW gone, NEW i \in DOMAIN a,
         gone = Place(at \o <<i>>, "element")
  PROVE  Len(ElementsOf(a, at, gone)) = Len(a) - 1
PROOF BY ElementIsLost, Removed

LEMMA ArrayIsWhole ==
  ASSUME NEW a, NEW at, NEW gone, \A i \in DOMAIN a : gone # Place(at \o <<i>>, "element")
  PROVE  ElementsOf(a, at, gone) = a
PROOF BY DEF ElementsOf

LEMMA ArrayIsSent ==
  ASSUME NEW a, IsList(a), NEW at \in Seq(Nat), NEW gone
  PROVE  IsList(ElementsOf(a, at, gone))
PROOF
<1>1. CASE \A i \in DOMAIN a : gone # Place(at \o <<i>>, "element")
  <2>1. ElementsOf(a, at, gone) = a
    BY <1>1 DEF ElementsOf
  <2> QED BY <2>1
<1>2. ASSUME NEW i \in DOMAIN a, gone = Place(at \o <<i>>, "element")
      PROVE  IsList(ElementsOf(a, at, gone))
  <2>1. ElementsOf(a, at, gone) = RemoveAt(a, i)
    BY <1>2, ElementIsLost
  <2>2. IsList(RemoveAt(a, i))
    BY Removed
  <2> QED BY <2>1, <2>2
<1> QED BY <1>1, <1>2

LEMMA ElementsAreSent ==
  ASSUME NEW a, IsList(a), NEW at \in Seq(Nat), NEW gone
  PROVE  \A k \in DOMAIN ElementsOf(a, at, gone) :
           \E l \in DOMAIN a : ElementsOf(a, at, gone)[k] = a[l]
PROOF
<1> DEFINE e == ElementsOf(a, at, gone)
<1>1. CASE \A i \in DOMAIN a : gone # Place(at \o <<i>>, "element")
  <2>1. e = a
    BY <1>1 DEF ElementsOf
  <2> HIDE DEF e
  <2>2. \A k \in DOMAIN e : \E l \in DOMAIN a : e[k] = a[l]
    BY <2>1, Zenon
  <2> QED BY <2>2 DEF e
<1>2. ASSUME NEW i \in DOMAIN a, gone = Place(at \o <<i>>, "element")
      PROVE  \A k \in DOMAIN e : \E l \in DOMAIN a : e[k] = a[l]
  <2>1. e = RemoveAt(a, i)
    BY <1>2, ElementIsLost
  <2> HIDE DEF e
  <2>2. \A k \in DOMAIN RemoveAt(a, i) : \E l \in DOMAIN a : RemoveAt(a, i)[k] = a[l]
    BY Removed
  <2> QED BY <2>1, <2>2, Zenon
<1> QED BY <1>1, <1>2

LEMMA ObjectIsSent ==
  ASSUME NEW object, NEW at, NEW gone, object = [n \in DOMAIN object |-> object[n]]
  PROVE  /\ DOMAIN Members(object, at, gone) \subseteq DOMAIN object
         /\ \A n \in DOMAIN Members(object, at, gone) : Members(object, at, gone)[n] = object[n]
         /\ (\A n \in DOMAIN object : n # gone.name) => Members(object, at, gone) = object
PROOF BY DEF Members, Place

\* No number or list of a model has the name of what is lost, if anything is, but an
\* element.
Names == {"globalmodelstatus", "trainingscounter", "neuralnetwork", "layers", "layersArray",
          "activationfunctiontype", "neurons", "neuronsArray", "neurontype", "weights", "bias",
          "weightsArray"} \cup Settings
LEMMA NamesOfNoElement == "none" \notin Names /\ "element" \notin Names
PROOF BY DEF Names, Settings

\* A number that is read.
LEMMA ItemIsRead ==
  ASSUME NEW x
  PROVE  /\ Item(x).type = "number" <=> x \notin NotFinite
         /\ Item(x).valuedouble = IF x \in NotFinite THEN 0 ELSE x
PROOF BY DEF Item

LEMMA NumberIsRead ==
  ASSUME NEW json, NEW name \in DOMAIN json, NEW x, json[name] = Item(x), NEW otherwise
  PROVE  GetNumber(json, name, otherwise) = IF x \in NotFinite THEN otherwise ELSE x
PROOF BY ItemIsRead DEF GetNumber

\* The array of the weights of a neuron, in the tree, and what is read out of one.
WeightItems(n) == [k \in DOMAIN n.weightsArray |-> Item(n.weightsArray[k])]
WeightsSent(n, at, gone) == ElementsOf(WeightItems(n), at, gone)
WeightsRead(list) == [k \in DOMAIN list |-> list[k].valuedouble]

LEMMA WeightItemsAreAList ==
  ASSUME NEW n, IsNeuron(n)
  PROVE  /\ IsList(WeightItems(n)) /\ DOMAIN WeightItems(n) = DOMAIN n.weightsArray
         /\ Len(WeightItems(n)) = Len(n.weightsArray)
PROOF
<1> DEFINE items == WeightItems(n)
<1>1. items = [k \in DOMAIN n.weightsArray |-> items[k]]
  BY DEF WeightItems
<1>2. IsList(n.weightsArray)
  BY DEF IsNeuron
<1> HIDE DEF items
<1>3. IsList(items) /\ Len(items) = Len(n.weightsArray) /\ DOMAIN items = DOMAIN n.weightsArray
  BY <1>1, <1>2, MappedList
<1> QED BY <1>3 DEF items

LEMMA WeightsReadAreAList ==
  ASSUME NEW list, IsList(list)
  PROVE  IsList(WeightsRead(list)) /\ Len(WeightsRead(list)) = Len(list)
PROOF
<1> DEFINE read == WeightsRead(list)
<1>1. read = [k \in DOMAIN list |-> read[k]]
  BY DEF WeightsRead
<1> HIDE DEF read
<1>2. IsList(read) /\ Len(read) = Len(list)
  BY <1>1, MappedList
<1> QED BY <1>2 DEF read

LEMMA NeuronTrip ==
  ASSUME NEW n, IsNeuron(n), NEW at \in Seq(Nat), NEW gone
  PROVE  /\ IsNeuron(NeuronFromJSON(NeuronToJSON(n, at, gone)))
         /\ gone.name \notin Names =>
              NeuronFromJSON(NeuronToJSON(n, at, gone)) =
                [neurontype |-> n.neurontype, weights |-> Arrives(n.weights),
                 bias |-> Arrives(n.bias), weightsArray |-> WeightsRead(WeightsSent(n, at, gone))]
PROOF
<1> DEFINE list == WeightsSent(n, at, gone)
           posted == [neurontype |-> n.neurontype, weights |-> Item(n.weights),
                      bias |-> Item(n.bias), weightsArray |-> list]
           json == Members(posted, at, gone)
           read == Get(json, "weightsArray", <<>>)
<1>1. IsList(list)
  BY WeightItemsAreAList, ArrayIsSent DEF WeightsSent
<1>3. NeuronToJSON(n, at, gone) = json
  BY Zenon DEF NeuronToJSON, WeightsSent, WeightItems
<1> HIDE DEF list
<1>4. /\ DOMAIN json \subseteq DOMAIN posted /\ (\A x \in DOMAIN json : json[x] = posted[x])
      /\ (\A x \in DOMAIN posted : x # gone.name) => json = posted
  <2>1. posted = [x \in DOMAIN posted |-> posted[x]]
    OBVIOUS
  <2> HIDE DEF posted
  <2> QED BY <2>1, ObjectIsSent
<1> HIDE DEF json
<1>2. NeuronFromJSON(json) =
        [neurontype |-> Get(json, "neurontype", Unset),
         weights |-> GetNumber(json, "weights", Unset), bias |-> GetNumber(json, "bias", Unset),
         weightsArray |-> WeightsRead(read)]
  BY Zenon DEF NeuronFromJSON, WeightsRead
<1>5. IsNeuron(NeuronFromJSON(json))
  <2>1. read = list \/ read = <<>>
    BY <1>4 DEF Get
  <2>2. IsList(<<>>)
    BY DEF IsList
  <2>3. IsList(read)
    BY <1>1, <2>1, <2>2
  <2> HIDE DEF read
  <2>4. IsList(WeightsRead(read))
    BY <2>3, WeightsReadAreAList
  <2> QED BY <1>2, <2>4 DEF IsNeuron
<1>6. ASSUME gone.name \notin Names
      PROVE  NeuronFromJSON(json) =
               [neurontype |-> n.neurontype, weights |-> Arrives(n.weights),
                bias |-> Arrives(n.bias), weightsArray |-> WeightsRead(list)]
  <2>1. json = posted
    BY <1>4, <1>6 DEF Names
  <2>2. Get(json, "neurontype", Unset) = n.neurontype /\ read = list
    BY <2>1 DEF Get
  <2>3. /\ "weights" \in DOMAIN json /\ json["weights"] = Item(n.weights)
        /\ "bias" \in DOMAIN json /\ json["bias"] = Item(n.bias)
    BY <2>1
  <2>4. /\ GetNumber(json, "weights", Unset) = Arrives(n.weights)
        /\ GetNumber(json, "bias", Unset) = Arrives(n.bias)
    BY <2>3, NumberIsRead DEF Arrives
  <2> HIDE DEF read
  <2> QED BY <1>2, <2>2, <2>4
<1> QED BY <1>3, <1>5, <1>6 DEF list

\* The array of the neurons of a layer, in the tree.
NeuronObjects(l, i, gone) ==
  [j \in DOMAIN l.neuronsArray |-> NeuronToJSON(l.neuronsArray[j], <<i>> \o <<j>>, gone)]
NeuronsSent(l, i, gone) == ElementsOf(NeuronObjects(l, i, gone), <<i>>, gone)

LEMMA LayerTrip ==
  ASSUME NEW l, IsLayer(l), NEW i \in Nat, NEW side, NEW gone
  PROVE  LET t == LayerFromJSON(side, LayerToJSON(l, <<i>>, gone)) IN
         /\ IsLayer(t)
         /\ gone.name \notin Names =>
              t = [activationfunctiontype |-> IF side = "board" THEN Arrives(l.activationfunctiontype)
                                              ELSE Unset,
                   neurons |-> Arrives(l.neurons),
                   neuronsArray |-> [j \in DOMAIN NeuronsSent(l, i, gone) |->
                                       NeuronFromJSON(NeuronsSent(l, i, gone)[j])]]
PROOF
<1> DEFINE objects == NeuronObjects(l, i, gone)
           list == NeuronsSent(l, i, gone)
           posted == [activationfunctiontype |-> Item(l.activationfunctiontype),
                      neurons |-> Item(l.neurons), neuronsArray |-> list]
           json == Members(posted, <<i>>, gone)
           neurons == Get(json, "neuronsArray", <<>>)
           parsed == [j \in DOMAIN neurons |-> NeuronFromJSON(neurons[j])]
<1>1. IsList(objects) /\ DOMAIN objects = DOMAIN l.neuronsArray
  <2>1. objects = [j \in DOMAIN l.neuronsArray |-> objects[j]]
    BY DEF NeuronObjects
  <2>2. IsList(l.neuronsArray)
    BY DEF IsLayer
  <2> HIDE DEF objects
  <2> QED BY <2>1, <2>2, MappedList
<1>2. \A j \in DOMAIN objects : IsNeuron(NeuronFromJSON(objects[j]))
  <2> SUFFICES ASSUME NEW j \in DOMAIN objects PROVE IsNeuron(NeuronFromJSON(objects[j]))
    OBVIOUS
  <2>1. IsNeuron(l.neuronsArray[j]) /\ j \in Nat
    <3>1. j \in DOMAIN l.neuronsArray /\ IsList(l.neuronsArray)
      BY <1>1 DEF IsLayer
    <3> QED BY <3>1, ListsAreSequences DEF IsLayer
  <2>2. objects[j] = NeuronToJSON(l.neuronsArray[j], <<i>> \o <<j>>, gone)
    BY <1>1 DEF NeuronObjects
  <2>3. <<i>> \o <<j>> \in Seq(Nat)
    BY <2>1
  <2> HIDE DEF objects
  <2> QED BY <2>1, <2>2, <2>3, NeuronTrip
<1>3. IsList(list) /\ \A k \in DOMAIN list : \E j \in DOMAIN objects : list[k] = objects[j]
  <2>1. <<i>> \in Seq(Nat)
    OBVIOUS
  <2>2. PICK at \in Seq(Nat) : at = <<i>>
    BY <2>1
  <2>3. list = ElementsOf(objects, at, gone)
    BY <2>2 DEF NeuronsSent
  <2> HIDE DEF objects, list
  <2>4. IsList(list)
    BY <1>1, <2>3, ArrayIsSent
  <2>5. \A k \in DOMAIN ElementsOf(objects, at, gone) :
          \E j \in DOMAIN objects : ElementsOf(objects, at, gone)[k] = objects[j]
    BY <1>1, ElementsAreSent
  <2> QED BY <2>3, <2>4, <2>5, Zenon
<1>4. LayerToJSON(l, <<i>>, gone) = json
  BY Zenon DEF LayerToJSON, NeuronsSent, NeuronObjects
<1> HIDE DEF objects, list
<1>5. /\ DOMAIN json \subseteq DOMAIN posted /\ (\A x \in DOMAIN json : json[x] = posted[x])
      /\ (\A x \in DOMAIN posted : x # gone.name) => json = posted
  <2>1. posted = [x \in DOMAIN posted |-> posted[x]]
    OBVIOUS
  <2> HIDE DEF posted
  <2> QED BY <2>1, ObjectIsSent
<1> HIDE DEF json
<1>6. LayerFromJSON(side, json) =
        [activationfunctiontype |-> TypeOfLayer(side, json),
         neurons |-> GetNumber(json, "neurons", Unset), neuronsArray |-> parsed]
  BY Zenon DEF LayerFromJSON
<1>7. IsLayer(LayerFromJSON(side, json))
  <2>1. neurons = list \/ neurons = <<>>
    BY <1>5 DEF Get
  <2>2. IsList(<<>>) /\ DOMAIN <<>> = {}
    BY DEF IsList
  <2>3. IsList(neurons)
    BY <1>3, <2>1, <2>2
  <2>4. \A k \in DOMAIN neurons : IsNeuron(NeuronFromJSON(neurons[k]))
    <3>1. \A k \in DOMAIN list : IsNeuron(NeuronFromJSON(list[k]))
      BY <1>2, <1>3
    <3> QED BY <2>1, <2>2, <3>1
  <2> HIDE DEF neurons
  <2>5. parsed = [j \in DOMAIN neurons |-> parsed[j]]
    OBVIOUS
  <2>6. \A k \in DOMAIN neurons : IsNeuron(parsed[k])
    BY <2>4
  <2> HIDE DEF parsed
  <2>7. IsList(parsed) /\ DOMAIN parsed = DOMAIN neurons
    BY <2>3, <2>5, MappedList
  <2> QED BY <1>6, <2>6, <2>7 DEF IsLayer
<1>8. ASSUME gone.name \notin Names
      PROVE  LayerFromJSON(side, json) =
               [activationfunctiontype |-> IF side = "board" THEN Arrives(l.activationfunctiontype)
                                           ELSE Unset,
                neurons |-> Arrives(l.neurons),
                neuronsArray |-> [j \in DOMAIN list |-> NeuronFromJSON(list[j])]]
  <2>1. json = posted
    BY <1>5, <1>8 DEF Names
  <2>2. neurons = list
    BY <2>1 DEF Get
  <2>3. /\ "neurons" \in DOMAIN json /\ json["neurons"] = Item(l.neurons)
        /\ "activationfunctiontype" \in DOMAIN json
        /\ json["activationfunctiontype"] = Item(l.activationfunctiontype)
    BY <2>1
  <2>4. /\ GetNumber(json, "neurons", Unset) = Arrives(l.neurons)
        /\ GetNumber(json, "activationfunctiontype", Unset) = Arrives(l.activationfunctiontype)
    BY <2>3, NumberIsRead DEF Arrives
  <2>5. TypeOfLayer(side, json) = IF side = "board" THEN Arrives(l.activationfunctiontype) ELSE Unset
    BY <2>4 DEF TypeOfLayer
  <2> HIDE DEF neurons
  <2> QED BY <1>6, <2>2, <2>4, <2>5
<1> QED BY <1>4, <1>7, <1>8 DEF list

-----------------------------------------------------------------------------
LayerObjects(n, gone) ==
  [i \in DOMAIN n.layersArray |-> LayerToJSON(n.layersArray[i], <<i>>, gone)]
LayersSent(n, gone) == ElementsOf(LayerObjects(n, gone), <<>>, gone)

LayersFrom(side, list) == [i \in DOMAIN list |-> LayerFromJSON(side, list[i])]
Fields == Settings \cup {"layers", "layersArray"}

LEMMA NetworkTrip ==
  ASSUME NEW n, IsNetwork(n), NEW side, NEW gone
  PROVE  LET t == NetworkFromJSON(side, NetworkToJSON(n, gone)) IN
         /\ "layersArray" \in DOMAIN t => IsNetwork(t)
         /\ gone.name \notin Names =>
              t = [x \in Fields |-> IF x = "layersArray"
                                    THEN LayersFrom(side, LayersSent(n, gone)) ELSE Arrives(n[x])]
PROOF
<1> DEFINE objects == LayerObjects(n, gone)
           list == LayersSent(n, gone)
           posted == [x \in Fields |-> IF x = "layersArray" THEN list ELSE Item(n[x])]
           json == Members(posted, <<>>, gone)
           parsed == LayersFrom(side, list)
<1>a. /\ "layersArray" \in Fields /\ "layers" \in Fields
      /\ "layersArray" \notin Settings \cup {"layers"}
  BY DEF Fields, Settings
<1>b. Fields = (Settings \cup {"layers"}) \cup {"layersArray"}
  BY DEF Fields
<1>1. IsList(objects) /\ DOMAIN objects = DOMAIN n.layersArray
  <2>1. objects = [j \in DOMAIN n.layersArray |-> objects[j]]
    BY DEF LayerObjects
  <2>2. IsList(n.layersArray)
    BY DEF IsNetwork
  <2> HIDE DEF objects
  <2> QED BY <2>1, <2>2, MappedList
<1>2. \A i \in DOMAIN objects : IsLayer(LayerFromJSON(side, objects[i]))
  <2> SUFFICES ASSUME NEW i \in DOMAIN objects PROVE IsLayer(LayerFromJSON(side, objects[i]))
    OBVIOUS
  <2>1. IsLayer(n.layersArray[i]) /\ i \in Nat
    <3>1. i \in DOMAIN n.layersArray /\ IsList(n.layersArray)
      BY <1>1 DEF IsNetwork
    <3> QED BY <3>1, ListsAreSequences DEF IsNetwork
  <2>2. objects[i] = LayerToJSON(n.layersArray[i], <<i>>, gone)
    BY <1>1 DEF LayerObjects
  <2> HIDE DEF objects
  <2> QED BY <2>1, <2>2, LayerTrip
<1>3. IsList(list) /\ \A k \in DOMAIN list : \E j \in DOMAIN objects : list[k] = objects[j]
  <2>1. <<>> \in Seq(Nat)
    OBVIOUS
  <2>2. PICK at \in Seq(Nat) : at = <<>>
    BY <2>1
  <2>3. list = ElementsOf(objects, at, gone)
    BY <2>2 DEF LayersSent
  <2> HIDE DEF objects, list
  <2>4. IsList(list)
    BY <1>1, <2>3, ArrayIsSent
  <2>5. \A k \in DOMAIN ElementsOf(objects, at, gone) :
          \E j \in DOMAIN objects : ElementsOf(objects, at, gone)[k] = objects[j]
    BY <1>1, ElementsAreSent
  <2> QED BY <2>3, <2>4, <2>5, Zenon
<1>4. NetworkToJSON(n, gone) = json
  <2>1. DOMAIN n = Fields
    BY DEF IsNetwork, Fields
  <2>2. NetworkToJSON(n, gone) =
          Members([x \in DOMAIN n |-> IF x = "layersArray" THEN list ELSE Item(n[x])], <<>>, gone)
    BY Zenon DEF NetworkToJSON, LayersSent, LayerObjects
  <2> HIDE DEF list
  <2> QED BY <2>1, <2>2, Zenon
<1> HIDE DEF objects, list
<1>5. /\ DOMAIN json \subseteq Fields /\ (\A x \in DOMAIN json : json[x] = posted[x])
      /\ (\A x \in Fields : x # gone.name) => json = posted
  <2>1. posted = [x \in DOMAIN posted |-> posted[x]] /\ DOMAIN posted = Fields
    OBVIOUS
  <2> HIDE DEF posted
  <2> QED BY <2>1, ObjectIsSent
<1>6. posted["layersArray"] = list /\ \A x \in Fields : x # "layersArray" => posted[x] = Item(n[x])
  BY <1>a
<1> HIDE DEF json, posted
<1>c. IsList(parsed) /\ \A i \in DOMAIN parsed : IsLayer(parsed[i])
  <2>1. parsed = [i \in DOMAIN list |-> parsed[i]]
    BY DEF LayersFrom
  <2>2. \A i \in DOMAIN list : IsLayer(parsed[i])
    <3>1. \A i \in DOMAIN list : IsLayer(LayerFromJSON(side, list[i]))
      BY <1>2, <1>3
    <3> QED BY <3>1 DEF LayersFrom
  <2> HIDE DEF parsed
  <2>3. IsList(parsed) /\ DOMAIN parsed = DOMAIN list
    BY <1>3, <2>1, MappedList
  <2> QED BY <2>2, <2>3
<1>7. ASSUME "layersArray" \in DOMAIN NetworkFromJSON(side, json)
      PROVE  /\ NetworkFromJSON(side, json) =
                  [x \in Fields |-> IF x = "layersArray" THEN parsed ELSE GetNumber(json, x, Unset)]
  <2>1. DOMAIN NetworkFromJSON(side, json) = (Settings \cup {"layers"}) \cup Lists(json)
    BY DEF NetworkFromJSON
  <2>2. "layersArray" \in Lists(json)
    BY <1>7, <1>a, <2>1
  <2>3. Lists(json) = {"layersArray"} /\ "layersArray" \in DOMAIN json
    BY <2>2 DEF Lists
  <2>4. json["layersArray"] = list
    BY <1>5, <1>6, <2>3
  <2>5. [i \in DOMAIN json.layersArray |-> LayerFromJSON(side, json.layersArray[i])] = parsed
    BY <2>4 DEF LayersFrom
  <2>6. NetworkFromJSON(side, json) =
          [x \in Fields |-> IF x = "layersArray"
             THEN [i \in DOMAIN json.layersArray |-> LayerFromJSON(side, json.layersArray[i])]
             ELSE GetNumber(json, x, Unset)]
    BY <1>b, <2>3 DEF NetworkFromJSON
  <2> HIDE DEF parsed
  <2> QED BY <2>5, <2>6
<1>8. ASSUME "layersArray" \in DOMAIN NetworkFromJSON(side, json)
      PROVE  IsNetwork(NetworkFromJSON(side, json))
  <2> DEFINE t == NetworkFromJSON(side, json)
  <2>1. t = [x \in Fields |-> IF x = "layersArray" THEN parsed ELSE GetNumber(json, x, Unset)]
    BY <1>7, <1>8
  <2> HIDE DEF t, parsed
  <2>2. t = [x \in Settings \cup {"layers", "layersArray"} |-> t[x]] /\ t["layersArray"] = parsed
    BY <1>a, <2>1 DEF Fields
  <2>3. t.layersArray = parsed
    BY <2>2
  <2>5. t.layers \in Nat
    <3>1. "layers" \in DOMAIN json /\ json.layers.type = "number"
      BY <1>8, <1>a DEF NetworkFromJSON, Lists
    <3>2. json.layers = Item(n.layers)
      BY <1>5, <1>6, <1>a, <3>1
    <3>3. GetNumber(json, "layers", Unset) = n.layers
      BY <3>1, <3>2, ItemIsRead DEF GetNumber
    <3> QED BY <1>a, <2>1, <3>3 DEF IsNetwork
  <2>4. IsNetwork(t)
    BY <1>c, <2>2, <2>3, <2>5 DEF IsNetwork
  <2> QED BY <2>4 DEF t
<1>9. ASSUME gone.name \notin Names
      PROVE  NetworkFromJSON(side, json) =
               [x \in Fields |-> IF x = "layersArray" THEN parsed ELSE Arrives(n[x])]
  <2>1. json = posted /\ DOMAIN posted = Fields
    BY <1>5, <1>9 DEF Names, Fields, posted
  <2>2. "layersArray" \in DOMAIN NetworkFromJSON(side, json)
    <3>1. json.layers = Item(n.layers)
      BY <1>a, <1>6, <2>1
    <3>2. json.layers.type = "number"
      BY <3>1, ItemIsRead, FiniteAssumption DEF IsNetwork
    <3> QED BY <1>a, <2>1, <3>2 DEF NetworkFromJSON, Lists
  <2>3. \A x \in Fields : x # "layersArray" => GetNumber(json, x, Unset) = Arrives(n[x])
    <3> SUFFICES ASSUME NEW x \in Fields, x # "layersArray"
                 PROVE  GetNumber(json, x, Unset) = Arrives(n[x])
      OBVIOUS
    <3>1. x \in DOMAIN json /\ json[x] = Item(n[x])
      BY <1>6, <2>1
    <3> QED BY <3>1, NumberIsRead DEF Arrives
  <2> HIDE DEF parsed
  <2> QED BY <1>7, <2>2, <2>3
<1> QED BY <1>4, <1>8, <1>9 DEF parsed, list

LEMMA ModelTrip ==
  ASSUME NEW m, IsModel(m), NEW side, NEW gone
  PROVE  /\ HasLists(Trip(side, m, gone)) => IsModel(Trip(side, m, gone))
         /\ gone.name \notin Names =>
              Trip(side, m, gone) =
                Learning(m.globalmodelstatus, m.trainingscounter,
                         NetworkFromJSON(side, NetworkToJSON(m.neuralnetwork, gone)))
PROOF
<1> DEFINE tree == NetworkToJSON(m.neuralnetwork, gone)
           network == NetworkFromJSON(side, tree)
           posted == [globalmodelstatus |-> Item(m.globalmodelstatus),
                      trainingscounter |-> Item(m.trainingscounter), neuralnetwork |-> tree]
           json == Members(posted, <<>>, gone)
           t == JSONToFederatedLearning(side, json)
<1>1. FederatedLearningToJSON(m, gone) = json
  BY Zenon DEF FederatedLearningToJSON
<1> HIDE DEF tree
<1>2. /\ DOMAIN json \subseteq DOMAIN posted /\ (\A x \in DOMAIN json : json[x] = posted[x])
      /\ (\A x \in DOMAIN posted : x # gone.name) => json = posted
  <2>1. posted = [x \in DOMAIN posted |-> posted[x]]
    OBVIOUS
  <2> HIDE DEF posted
  <2> QED BY <2>1, ObjectIsSent
<1> HIDE DEF json
<1>5. /\ StatusAndCounter(json).globalmodelstatus \in {0, m.globalmodelstatus}
      /\ StatusAndCounter(json).trainingscounter \in {0, m.trainingscounter}
  <2>1. ASSUME NEW name \in {"globalmodelstatus", "trainingscounter"}
        PROVE  GetNumber(json, name, 0) \in {0, m[name]}
    <3>1. CASE name \in DOMAIN json
      <4>1. json[name] = Item(m[name])
        BY <1>2, <3>1
      <4> QED BY <3>1, <4>1, NumberIsRead
    <3>2. CASE name \notin DOMAIN json
      BY <3>2 DEF GetNumber
    <3> QED BY <3>1, <3>2
  <2> QED BY <2>1 DEF StatusAndCounter
<1>3. ASSUME HasLists(t) PROVE IsModel(t)
  <2>1. "neuralnetwork" \in DOMAIN t /\ "layersArray" \in DOMAIN t.neuralnetwork
    BY <1>3 DEF HasLists, HasNetwork
  <2>2. "neuralnetwork" \in DOMAIN json
    <3>1. "neuralnetwork" \notin DOMAIN StatusAndCounter(json)
      BY DEF StatusAndCounter
    <3>2. CASE "neuralnetwork" \notin DOMAIN json
      <4>1. t = StatusAndCounter(json)
        BY <3>2 DEF JSONToFederatedLearning
      <4> QED BY <2>1, <3>1, <4>1
    <3> QED BY <3>2
  <2>3. json.neuralnetwork = tree
    BY <1>2, <2>2
  <2>4. t = Learning(StatusAndCounter(json).globalmodelstatus,
                     StatusAndCounter(json).trainingscounter, network)
    BY <2>2, <2>3 DEF JSONToFederatedLearning
  <2>5. t.neuralnetwork = network
    BY <2>4 DEF Learning
  <2>6. IsNetwork(network)
    BY <2>1, <2>5, NetworkTrip DEF IsModel, tree
  <2>7. /\ StatusAndCounter(json).globalmodelstatus \in Nat
        /\ StatusAndCounter(json).trainingscounter \in Nat
    BY <1>5 DEF IsModel
  <2> HIDE DEF t, network
  <2> QED BY <2>4, <2>5, <2>6, <2>7 DEF IsModel, Learning
<1>4. ASSUME gone.name \notin Names
      PROVE  t = Learning(m.globalmodelstatus, m.trainingscounter, network)
  <2>1. json = posted
    BY <1>2, <1>4 DEF Names
  <2>4. /\ "globalmodelstatus" \in DOMAIN json
         /\ json["globalmodelstatus"] = Item(m.globalmodelstatus)
         /\ "trainingscounter" \in DOMAIN json
         /\ json["trainingscounter"] = Item(m.trainingscounter)
         /\ "neuralnetwork" \in DOMAIN json /\ json.neuralnetwork = tree
    BY <2>1
  <2>5. m.globalmodelstatus \notin NotFinite /\ m.trainingscounter \notin NotFinite
    BY FiniteAssumption DEF IsModel
  <2>2. /\ "neuralnetwork" \in DOMAIN json /\ json.neuralnetwork = tree
        /\ GetNumber(json, "globalmodelstatus", 0) = m.globalmodelstatus
        /\ GetNumber(json, "trainingscounter", 0) = m.trainingscounter
    BY <2>4, <2>5, NumberIsRead
  <2>3. /\ StatusAndCounter(json).globalmodelstatus = m.globalmodelstatus
        /\ StatusAndCounter(json).trainingscounter = m.trainingscounter
    BY <2>2 DEF StatusAndCounter
  <2> HIDE DEF posted
  <2> QED BY <2>2, <2>3 DEF JSONToFederatedLearning
<1> QED BY <1>1, <1>3, <1>4 DEF Trip, tree

-----------------------------------------------------------------------------
(* Nothing lost: what arrives is what was sent.                            *)

LEMMA NeuronWhole ==
  ASSUME NEW n, IsNeuron(n), NEW at \in Seq(Nat)
  PROVE  NeuronFromJSON(NeuronToJSON(n, at, None)) = NeuronArrives(n)
PROOF
<1> DEFINE read == [k \in DOMAIN n.weightsArray |-> IF n.weightsArray[k] \in NotFinite THEN 0
                                                   ELSE n.weightsArray[k]]
<1>1. None.name \notin Names
  BY NamesOfNoElement DEF None, Place
<1>2. WeightsSent(n, at, None) = WeightItems(n)
  BY DEF WeightsSent, ElementsOf, None, Place
<1>3. WeightsRead(WeightItems(n)) = read
  <2>1. DOMAIN WeightItems(n) = DOMAIN n.weightsArray
    BY DEF WeightItems
  <2>2. \A k \in DOMAIN n.weightsArray : WeightItems(n)[k].valuedouble = read[k]
    BY ItemIsRead DEF WeightItems
  <2> QED BY <2>1, <2>2 DEF WeightsRead
<1>4. NeuronFromJSON(NeuronToJSON(n, at, None)) =
        [neurontype |-> n.neurontype, weights |-> Arrives(n.weights), bias |-> Arrives(n.bias),
         weightsArray |-> read]
  <2>1. NeuronFromJSON(NeuronToJSON(n, at, None)) =
          [neurontype |-> n.neurontype, weights |-> Arrives(n.weights), bias |-> Arrives(n.bias),
           weightsArray |-> WeightsRead(WeightsSent(n, at, None))]
    BY <1>1, NeuronTrip
  <2> HIDE DEF read
  <2> QED BY <1>2, <1>3, <2>1
<1> QED BY <1>4 DEF NeuronArrives

\* The layers that arrive on a side.
NeuronsArrive(l) == [j \in DOMAIN l.neuronsArray |-> NeuronArrives(l.neuronsArray[j])]
Typed(side, l) ==
  [activationfunctiontype |-> IF side = "board" THEN Arrives(l.activationfunctiontype) ELSE Unset,
   neurons |-> Arrives(l.neurons), neuronsArray |-> NeuronsArrive(l)]

LEMMA LayerWhole ==
  ASSUME NEW l, IsLayer(l), NEW i \in Nat, NEW side
  PROVE  LayerFromJSON(side, LayerToJSON(l, <<i>>, None)) = Typed(side, l)
PROOF
<1> DEFINE objects == NeuronObjects(l, i, None)
<1>1. None.name \notin Names
  BY NamesOfNoElement DEF None, Place
<1>2. NeuronsSent(l, i, None) = objects
  BY DEF NeuronsSent, ElementsOf, None, Place
<1>3. DOMAIN objects = DOMAIN l.neuronsArray
  BY DEF NeuronObjects
<1>4. \A j \in DOMAIN l.neuronsArray : NeuronFromJSON(objects[j]) = NeuronArrives(l.neuronsArray[j])
  <2> SUFFICES ASSUME NEW j \in DOMAIN l.neuronsArray
               PROVE  NeuronFromJSON(objects[j]) = NeuronArrives(l.neuronsArray[j])
    OBVIOUS
  <2>1. IsNeuron(l.neuronsArray[j]) /\ j \in Nat
    BY ListsAreSequences DEF IsLayer
  <2>2. objects[j] = NeuronToJSON(l.neuronsArray[j], <<i>> \o <<j>>, None)
    BY DEF NeuronObjects
  <2>3. <<i>> \o <<j>> \in Seq(Nat)
    BY <2>1
  <2> HIDE DEF objects
  <2> QED BY <2>1, <2>2, <2>3, NeuronWhole
<1> HIDE DEF objects
<1>6. [j \in DOMAIN objects |-> NeuronFromJSON(objects[j])] = NeuronsArrive(l)
  BY <1>3, <1>4 DEF NeuronsArrive
<1>7. LayerFromJSON(side, LayerToJSON(l, <<i>>, None)) =
        [activationfunctiontype |-> IF side = "board" THEN Arrives(l.activationfunctiontype)
                                    ELSE Unset,
         neurons |-> Arrives(l.neurons),
         neuronsArray |-> [j \in DOMAIN NeuronsSent(l, i, None) |->
                             NeuronFromJSON(NeuronsSent(l, i, None)[j])]]
  BY <1>1, LayerTrip
<1> QED BY <1>2, <1>6, <1>7 DEF Typed

LEMMA WholeTrip ==
  ASSUME NEW m, IsModel(m), NEW side
  PROVE  Trip(side, m, None) =
           [m EXCEPT !.neuralnetwork = [x \in DOMAIN @ |->
              IF x = "layersArray" THEN [i \in DOMAIN @[x] |-> Typed(side, @[x][i])]
              ELSE Arrives(@[x])]]
PROOF
<1> DEFINE n == m.neuralnetwork
           objects == LayerObjects(n, None)
           typed == [i \in DOMAIN n.layersArray |-> Typed(side, n.layersArray[i])]
           network == [x \in Fields |-> IF x = "layersArray" THEN typed ELSE Arrives(n[x])]
<1>1. None.name \notin Names
  BY NamesOfNoElement DEF None, Place
<1>2. IsNetwork(n) /\ m = Learning(m.globalmodelstatus, m.trainingscounter, n)
  BY DEF IsModel
<1> HIDE DEF n
<1>3. LayersSent(n, None) = objects
  BY DEF LayersSent, ElementsOf, None, Place
<1>4. DOMAIN objects = DOMAIN n.layersArray
  BY DEF LayerObjects
<1>5. \A i \in DOMAIN n.layersArray :
        LayerFromJSON(side, objects[i]) = Typed(side, n.layersArray[i])
  <2> SUFFICES ASSUME NEW i \in DOMAIN n.layersArray
               PROVE  LayerFromJSON(side, objects[i]) = Typed(side, n.layersArray[i])
    OBVIOUS
  <2>a. IsList(n.layersArray) /\ IsLayer(n.layersArray[i])
    BY <1>2 DEF IsNetwork
  <2>b. DOMAIN n.layersArray = 1..Len(n.layersArray)
    BY <2>a, ListsAreSequences
  <2>1. IsLayer(n.layersArray[i]) /\ i \in Nat
    BY <2>a, <2>b
  <2>2. objects[i] = LayerToJSON(n.layersArray[i], <<i>>, None)
    BY DEF LayerObjects
  <2> HIDE DEF objects
  <2> QED BY <2>1, <2>2, LayerWhole
<1> HIDE DEF objects
<1>6. LayersFrom(side, objects) = typed
  BY <1>4, <1>5 DEF LayersFrom
<1>7. Trip(side, m, None) = Learning(m.globalmodelstatus, m.trainingscounter,
                                     NetworkFromJSON(side, NetworkToJSON(n, None)))
  BY <1>1, ModelTrip DEF n
<1>8. NetworkFromJSON(side, NetworkToJSON(n, None)) = network
  <2>1. NetworkFromJSON(side, NetworkToJSON(n, None)) =
          [x \in Fields |-> IF x = "layersArray"
                            THEN LayersFrom(side, LayersSent(n, None)) ELSE Arrives(n[x])]
    BY <1>1, <1>2, NetworkTrip
  <2> QED BY <1>3, <1>6, <2>1
<1>9. network = [x \in DOMAIN n |->
                   IF x = "layersArray" THEN [i \in DOMAIN n[x] |-> Typed(side, n[x][i])]
                   ELSE Arrives(n[x])]
  BY <1>2 DEF IsNetwork, Fields
<1>10. Learning(m.globalmodelstatus, m.trainingscounter, network) =
         [m EXCEPT !.neuralnetwork = network]
  <2> HIDE DEF network
  <2>1. m = [globalmodelstatus |-> m.globalmodelstatus,
             trainingscounter |-> m.trainingscounter, neuralnetwork |-> n]
    BY <1>2 DEF Learning
  <2> QED BY <2>1 DEF Learning
<1> HIDE DEF network
<1>11. Trip(side, m, None) = [m EXCEPT !.neuralnetwork = network]
  BY <1>7, <1>8, <1>10
<1> QED BY <1>9, <1>11 DEF n

LEMMA BoardTrip ==
  ASSUME NEW m, IsModel(m)
  PROVE  Trip("board", m, None) = ModelArrives(m)
PROOF
<1> DEFINE n == m.neuralnetwork
<1>1. \A l : IsLayer(l) => Typed("board", l) = LayerArrives(l)
  <2> SUFFICES ASSUME NEW l, IsLayer(l) PROVE Typed("board", l) = LayerArrives(l)
    OBVIOUS
  <2> QED BY DEF Typed, LayerArrives, NeuronsArrive
<1>2. \A i \in DOMAIN n.layersArray :
        Typed("board", n.layersArray[i]) = LayerArrives(n.layersArray[i])
  BY <1>1 DEF IsModel, IsNetwork
<1>3. [i \in DOMAIN n.layersArray |-> Typed("board", n.layersArray[i])] =
        [i \in DOMAIN n.layersArray |-> LayerArrives(n.layersArray[i])]
  <2> HIDE DEF n
  <2> QED BY <1>2, Zenon
<1>4. [x \in DOMAIN n |-> IF x = "layersArray"
                          THEN [i \in DOMAIN n[x] |-> Typed("board", n[x][i])] ELSE Arrives(n[x])]
        = NetworkArrives(n)
  <2> HIDE DEF n
  <2> QED BY <1>3 DEF NetworkArrives
<1>5. Trip("board", m, None) = [m EXCEPT !.neuralnetwork = NetworkArrives(n)]
  BY <1>4, WholeTrip
<1> QED BY <1>5 DEF ModelArrives

LEMMA ServerTrip ==
  ASSUME NEW m, IsModel(m)
  PROVE  Trip("server", m, None) = WithoutTypes(ModelArrives(m))
PROOF
<1> DEFINE n == m.neuralnetwork
           reached == NetworkArrives(n)
           list == [i \in DOMAIN reached.layersArray |->
                      [reached.layersArray[i] EXCEPT !.activationfunctiontype = Unset]]
           typed == [x \in DOMAIN n |-> IF x = "layersArray"
                       THEN [i \in DOMAIN n[x] |-> Typed("server", n[x][i])] ELSE Arrives(n[x])]
<1>1. \A l : IsLayer(l) =>
        Typed("server", l) = [LayerArrives(l) EXCEPT !.activationfunctiontype = Unset]
  <2> SUFFICES ASSUME NEW l, IsLayer(l)
               PROVE  Typed("server", l) = [LayerArrives(l) EXCEPT !.activationfunctiontype = Unset]
    OBVIOUS
  <2>1. LayerArrives(l) = [activationfunctiontype |-> Arrives(l.activationfunctiontype),
                           neurons |-> Arrives(l.neurons), neuronsArray |-> NeuronsArrive(l)]
    BY DEF LayerArrives, NeuronsArrive
  <2> QED BY <2>1 DEF Typed
<1>2. IsNetwork(n) /\ DOMAIN n = Fields /\ "layersArray" \in Fields
  BY DEF IsModel, IsNetwork, Fields
<1> HIDE DEF n
<1>3. reached.layersArray = [i \in DOMAIN n.layersArray |-> LayerArrives(n.layersArray[i])]
  BY <1>2 DEF NetworkArrives
<1>4. list = [i \in DOMAIN n.layersArray |-> Typed("server", n.layersArray[i])]
  <2>1. \A i \in DOMAIN n.layersArray : IsLayer(n.layersArray[i])
    BY <1>2 DEF IsNetwork
  <2> HIDE DEF reached
  <2>2. DOMAIN reached.layersArray = DOMAIN n.layersArray
    BY <1>3
  <2>3. ASSUME NEW i \in DOMAIN n.layersArray
        PROVE  [reached.layersArray[i] EXCEPT !.activationfunctiontype = Unset] =
                 Typed("server", n.layersArray[i])
    <3>1. reached.layersArray[i] = LayerArrives(n.layersArray[i])
      BY <1>3
    <3> QED BY <1>1, <2>1, <3>1
  <2> QED BY <2>2, <2>3, Zenon
<1> HIDE DEF list
<1>5. typed = [reached EXCEPT !.layersArray = list]
  <2>1. DOMAIN reached = DOMAIN n /\ \A x \in DOMAIN n : x # "layersArray" => reached[x] = Arrives(n[x])
    BY DEF NetworkArrives
  <2>2. reached = [x \in DOMAIN n |-> reached[x]]
    BY DEF NetworkArrives
  <2> HIDE DEF reached
  <2> QED BY <1>2, <1>4, <2>1, <2>2
<1>6. Trip("server", m, None) = [m EXCEPT !.neuralnetwork = typed]
  BY WholeTrip DEF n
<1> HIDE DEF reached, typed
<1>7. WithoutTypes(ModelArrives(m)) =
        [m EXCEPT !.neuralnetwork = [reached EXCEPT !.layersArray = list]]
  <2>1. m = Learning(m.globalmodelstatus, m.trainingscounter, n)
    BY DEF IsModel, n
  <2>2. ModelArrives(m) = [m EXCEPT !.neuralnetwork = reached]
    BY DEF ModelArrives, reached, n
  <2>3. ModelArrives(m) = Learning(m.globalmodelstatus, m.trainingscounter, reached)
    BY <2>1, <2>2 DEF Learning
  <2>4. WithoutTypes(ModelArrives(m)) =
          [ModelArrives(m) EXCEPT !.neuralnetwork =
             [ModelArrives(m).neuralnetwork EXCEPT !.layersArray =
                [i \in DOMAIN ModelArrives(m).neuralnetwork.layersArray |->
                   [ModelArrives(m).neuralnetwork.layersArray[i]
                      EXCEPT !.activationfunctiontype = Unset]]]]
    BY DEF WithoutTypes
  <2>5. ModelArrives(m).neuralnetwork = reached
    BY <2>3 DEF Learning
  <2>6. WithoutTypes(ModelArrives(m)) =
          [ModelArrives(m) EXCEPT !.neuralnetwork = [reached EXCEPT !.layersArray = list]]
    BY <2>4, <2>5 DEF list
  <2> QED BY <2>1, <2>3, <2>6 DEF Learning
<1> QED BY <1>5, <1>6, <1>7

-----------------------------------------------------------------------------
(* An element lost: the counts tell.                                       *)

LEMMA PlaceFields ==
  ASSUME NEW at, NEW name
  PROVE  Place(at, name).at = at /\ Place(at, name).name = name
PROOF BY DEF Place

LEMMA FieldsOf ==
  \A p, at, name : p = Place(at, name) => p.at = at /\ p.name = name
PROOF BY PlaceFields

LEMMA Paths ==
  ASSUME NEW i \in Nat, NEW j \in Nat, NEW k \in Nat
  PROVE  /\ <<>> \o <<i>> = <<i>> /\ <<i>> \o <<j>> = <<i, j>>
         /\ <<i>> \o <<j>> \o <<k>> = <<i, j, k>>
PROOF
<1>1. <<>> \o <<i>> = <<i>>
  OBVIOUS
<1>2. <<i>> \o <<j>> = <<i, j>>
  <2>1. /\ <<i>> \o <<j>> \in Seq(Nat) /\ Len(<<i>> \o <<j>>) = 2
        /\ (<<i>> \o <<j>>)[1] = i /\ (<<i>> \o <<j>>)[2] = j
    OBVIOUS
  <2>2. <<i, j>> \in Seq(Nat) /\ Len(<<i, j>>) = 2 /\ <<i, j>>[1] = i /\ <<i, j>>[2] = j
    OBVIOUS
  <2>3. \A s, t \in Seq(Nat) : Len(s) = 2 /\ Len(t) = 2 /\ s[1] = t[1] /\ s[2] = t[2] => s = t
    <3> SUFFICES ASSUME NEW s \in Seq(Nat), NEW t \in Seq(Nat), Len(s) = 2, Len(t) = 2,
                        s[1] = t[1], s[2] = t[2]
                 PROVE  s = t
      OBVIOUS
    <3>1. \A x \in 1..2 : s[x] = t[x]
      OBVIOUS
    <3> QED BY <3>1, SeqEqual
  <2> QED BY <2>1, <2>2, <2>3
<1>3. <<i, j>> \o <<k>> = <<i, j, k>>
  <2>1. /\ <<i, j>> \o <<k>> \in Seq(Nat) /\ Len(<<i, j>> \o <<k>>) = 3
        /\ (<<i, j>> \o <<k>>)[1] = i /\ (<<i, j>> \o <<k>>)[2] = j
        /\ (<<i, j>> \o <<k>>)[3] = k
    OBVIOUS
  <2>2. /\ <<i, j, k>> \in Seq(Nat) /\ Len(<<i, j, k>>) = 3
        /\ <<i, j, k>>[1] = i /\ <<i, j, k>>[2] = j /\ <<i, j, k>>[3] = k
    OBVIOUS
  <2>3. \A s, t \in Seq(Nat) :
          Len(s) = 3 /\ Len(t) = 3 /\ s[1] = t[1] /\ s[2] = t[2] /\ s[3] = t[3] => s = t
    <3> SUFFICES ASSUME NEW s \in Seq(Nat), NEW t \in Seq(Nat), Len(s) = 3, Len(t) = 3,
                        s[1] = t[1], s[2] = t[2], s[3] = t[3]
                 PROVE  s = t
      OBVIOUS
    <3>1. \A x \in 1..3 : s[x] = t[x]
      OBVIOUS
    <3> QED BY <3>1, SeqEqual
  <2> QED BY <2>1, <2>2, <2>3
<1> QED BY <1>1, <1>2, <1>3

LEMMA NeuronCut ==
  ASSUME NEW n, IsNeuron(n), NEW at \in Seq(Nat), NEW gone, NEW k \in DOMAIN n.weightsArray,
         gone = Place(at \o <<k>>, "element"), n.weights = Len(n.weightsArray)
  PROVE  LET t == NeuronFromJSON(NeuronToJSON(n, at, gone)) IN t.weights # Len(t.weightsArray)
PROOF
<1>1. gone.name \notin Names
  BY NamesOfNoElement DEF Place
<1>2. NeuronFromJSON(NeuronToJSON(n, at, gone)) =
        [neurontype |-> n.neurontype, weights |-> Arrives(n.weights), bias |-> Arrives(n.bias),
         weightsArray |-> WeightsRead(WeightsSent(n, at, gone))]
  BY <1>1, NeuronTrip
<1>3. IsList(n.weightsArray)
  BY DEF IsNeuron
<1>4. IsList(WeightsSent(n, at, gone)) /\ Len(WeightsSent(n, at, gone)) = Len(n.weightsArray) - 1
  <2>1. PICK items : items = WeightItems(n)
    OBVIOUS
  <2>2. IsList(items) /\ k \in DOMAIN items /\ Len(items) = Len(n.weightsArray)
    BY <2>1, WeightItemsAreAList
  <2>3. WeightsSent(n, at, gone) = ElementsOf(items, at, gone)
    BY <2>1 DEF WeightsSent
  <2>4. Len(ElementsOf(items, at, gone)) = Len(items) - 1
    BY <2>2, ArrayIsShorter
  <2>5. IsList(ElementsOf(items, at, gone))
    BY <2>2, ArrayIsSent
  <2> QED BY <2>2, <2>3, <2>4, <2>5
<1>5. Len(n.weightsArray) \in Nat
  BY <1>3 DEF IsList
<1>6. Arrives(n.weights) = n.weights
  BY <1>5, FiniteAssumption DEF Arrives
<1>7. Len(WeightsRead(WeightsSent(n, at, gone))) = Len(n.weightsArray) - 1
  BY <1>4, WeightsReadAreAList
<1> QED BY <1>2, <1>5, <1>6, <1>7

\* What a layer's own counts say.
LayerCounts(l) ==
  /\ l.neurons = Len(l.neuronsArray)
  /\ \A j \in DOMAIN l.neuronsArray :
       l.neuronsArray[j].weights = Len(l.neuronsArray[j].weightsArray)

\* The places of the elements of a layer, below its own.
LayerElements(l, i) ==
  {Place(<<i>> \o <<j>>, "element") : j \in DOMAIN l.neuronsArray}
  \cup UNION {{Place(<<i>> \o <<j>> \o <<k>>, "element") :
                 k \in DOMAIN l.neuronsArray[j].weightsArray}
              : j \in DOMAIN l.neuronsArray}

LEMMA LayerCut ==
  ASSUME NEW l, IsLayer(l), LayerCounts(l), NEW i \in Nat, NEW side,
         NEW gone \in LayerElements(l, i)
  PROVE  ~LayerCounts(LayerFromJSON(side, LayerToJSON(l, <<i>>, gone)))
PROOF
<1> DEFINE t == LayerFromJSON(side, LayerToJSON(l, <<i>>, gone))
           objects == NeuronObjects(l, i, gone)
           list == NeuronsSent(l, i, gone)
           neurons == [j \in DOMAIN list |-> NeuronFromJSON(list[j])]
<1>9. \/ \E j \in DOMAIN l.neuronsArray : gone = Place(<<i>> \o <<j>>, "element")
      \/ \E j \in DOMAIN l.neuronsArray : \E k \in DOMAIN l.neuronsArray[j].weightsArray :
           gone = Place(<<i>> \o <<j>> \o <<k>>, "element")
  BY DEF LayerElements
<1>1. gone.name \notin Names
  <2>1. gone.name = "element"
    BY <1>9, FieldsOf, Zenon
  <2> QED BY <2>1, NamesOfNoElement
<1>2. t.neurons = l.neurons /\ t.neuronsArray = neurons
  <2>1. t = [activationfunctiontype |-> IF side = "board" THEN Arrives(l.activationfunctiontype)
                                        ELSE Unset,
             neurons |-> Arrives(l.neurons), neuronsArray |-> neurons]
    BY <1>1, LayerTrip
  <2>2. l.neurons \in Nat
    BY ListsAreSequences DEF IsLayer, LayerCounts
  <2>3. Arrives(l.neurons) = l.neurons
    BY <2>2, FiniteAssumption DEF Arrives
  <2> HIDE DEF t, neurons
  <2> QED BY <2>1, <2>3
<1>3. /\ IsList(objects) /\ DOMAIN objects = DOMAIN l.neuronsArray
      /\ Len(objects) = Len(l.neuronsArray)
  <2>1. objects = [j \in DOMAIN l.neuronsArray |-> objects[j]]
    BY DEF NeuronObjects
  <2>2. IsList(l.neuronsArray)
    BY DEF IsLayer
  <2> HIDE DEF objects
  <2> QED BY <2>1, <2>2, MappedList
<1>4. IsList(l.neuronsArray) /\ Len(l.neuronsArray) \in Nat /\ DOMAIN l.neuronsArray \subseteq Nat
  BY ListsAreSequences DEF IsLayer
<1>5. \A j \in DOMAIN l.neuronsArray :
        objects[j] = NeuronToJSON(l.neuronsArray[j], <<i>> \o <<j>>, gone)
  BY DEF NeuronObjects
<1>6. list = ElementsOf(objects, <<i>>, gone)
  BY DEF NeuronsSent
<1> HIDE DEF objects
<1>7. CASE \E j \in DOMAIN l.neuronsArray : gone = Place(<<i>> \o <<j>>, "element")
  <2>1. PICK j \in DOMAIN l.neuronsArray : gone = Place(<<i>> \o <<j>>, "element")
    BY <1>7
  <2>b. <<i>> \in Seq(Nat)
    OBVIOUS
  <2>2. PICK at \in Seq(Nat) : at = <<i>>
    BY <2>b
  <2>3. gone = Place(at \o <<j>>, "element") /\ j \in DOMAIN objects
    BY <2>1, <2>2, <1>3
  <2>4. Len(ElementsOf(objects, at, gone)) = Len(objects) - 1
    BY <1>3, <2>3, ArrayIsShorter
  <2>5. Len(list) = Len(l.neuronsArray) - 1
    BY <1>3, <1>6, <2>2, <2>4
  <2>6. IsList(list)
    BY <1>3, <1>6, <2>2, ArrayIsSent
  <2> HIDE DEF list
  <2>7. Len(neurons) = Len(list)
    <3>1. neurons = [j_1 \in DOMAIN list |-> neurons[j_1]]
      OBVIOUS
    <3> HIDE DEF neurons
    <3> QED BY <2>6, <3>1, MappedList
  <2> HIDE DEF neurons, t
  <2> QED BY <1>2, <1>4, <2>5, <2>7 DEF LayerCounts, t
<1>8. CASE \E j \in DOMAIN l.neuronsArray : \E k \in DOMAIN l.neuronsArray[j].weightsArray :
             gone = Place(<<i>> \o <<j>> \o <<k>>, "element")
  <2>a. PICK j \in DOMAIN l.neuronsArray : \E k \in DOMAIN l.neuronsArray[j].weightsArray :
          gone = Place(<<i>> \o <<j>> \o <<k>>, "element")
    BY <1>8
  <2>1. PICK k \in DOMAIN l.neuronsArray[j].weightsArray :
          gone = Place(<<i>> \o <<j>> \o <<k>>, "element")
    BY <2>a
  <2>2. j \in Nat
    BY <1>4
  <2>3. /\ IsNeuron(l.neuronsArray[j])
        /\ l.neuronsArray[j].weights = Len(l.neuronsArray[j].weightsArray)
    BY DEF IsLayer, LayerCounts
  <2>4. k \in Nat
    BY <2>3, ListsAreSequences DEF IsNeuron
  <2>5. list = objects
    <3>1. gone.at = <<i>> \o <<j>> \o <<k>>
      BY <2>1, PlaceFields
    <3>2. Len(gone.at) = 3
      <4>1. gone.at = <<i, j, k>>
        BY <2>2, <2>4, <3>1, Paths
      <4> QED BY <4>1
    <3>3. \A h \in DOMAIN objects : Len(<<i>> \o <<h>>) = 2
      <4>1. \A h \in DOMAIN objects : h \in Nat
        BY <1>3, <1>4
      <4> QED BY <4>1
    <3>4. \A h \in DOMAIN objects : gone.at # <<i>> \o <<h>>
      BY <3>2, <3>3
    <3>5. \A h \in DOMAIN objects : gone # Place(<<i>> \o <<h>>, "element")
      BY <3>4, FieldsOf, Zenon
    <3>6. ~\E h \in DOMAIN objects : gone = Place(<<i>> \o <<h>>, "element")
      BY <3>5
    <3>7. ElementsOf(objects, <<i>>, gone) = objects
      BY <3>6, Zenon DEF ElementsOf
    <3> QED BY <1>6, <3>7, Zenon
  <2>c. <<i>> \o <<j>> \in Seq(Nat)
    BY <2>2
  <2>6. PICK at \in Seq(Nat) : at = <<i>> \o <<j>>
    BY <2>c
  <2>7. gone = Place(at \o <<k>>, "element")
    BY <2>1, <2>6
  <2> DEFINE n == NeuronFromJSON(NeuronToJSON(l.neuronsArray[j], at, gone))
  <2>8. n.weights # Len(n.weightsArray)
    <3>1. PICK s : s = l.neuronsArray[j]
      OBVIOUS
    <3>2. IsNeuron(s) /\ k \in DOMAIN s.weightsArray /\ s.weights = Len(s.weightsArray)
      BY <2>1, <2>3, <3>1
    <3>3. LET r == NeuronFromJSON(NeuronToJSON(s, at, gone)) IN r.weights # Len(r.weightsArray)
      BY <2>7, <3>2, NeuronCut
    <3> QED BY <3>1, <3>3
  <2>9. neurons[j] = n
    BY <1>3, <1>5, <2>5, <2>6
  <2>10. j \in DOMAIN neurons
    BY <1>3, <2>5
  <2> HIDE DEF neurons, t, n
  <2> QED BY <1>2, <2>8, <2>9, <2>10 DEF LayerCounts, t
<1> QED BY <1>7, <1>8, <1>9

LEMMA ElementsOfAModel ==
  ASSUME NEW m, IsModel(m), NEW gone \in Places(m), gone.name = "element"
  PROVE  \E i \in DOMAIN m.neuralnetwork.layersArray :
           \/ gone = Place(<<>> \o <<i>>, "element")
           \/ gone \in LayerElements(m.neuralnetwork.layersArray[i], i)
PROOF
<1> DEFINE layers == m.neuralnetwork.layersArray
<1>1. /\ DOMAIN layers \subseteq Nat
      /\ \A i \in DOMAIN layers :
           /\ DOMAIN layers[i].neuronsArray \subseteq Nat
           /\ \A j \in DOMAIN layers[i].neuronsArray :
                DOMAIN layers[i].neuronsArray[j].weightsArray \subseteq Nat
  <2>1. \A s : IsList(s) => DOMAIN s \subseteq Nat
    BY ListsAreSequences
  <2> QED BY <2>1 DEF IsModel, IsNetwork, IsLayer, IsNeuron
<1>2. \/ gone \in {Place(<<>>, n) : n \in {"globalmodelstatus", "trainingscounter", "neuralnetwork",
                                           "layers", "layersArray"} \cup Settings}
      \/ \E i \in DOMAIN layers :
           \E n \in {"element", "activationfunctiontype", "neurons", "neuronsArray"} :
             gone = Place(<<i>>, n)
      \/ \E i \in DOMAIN layers : \E j \in DOMAIN layers[i].neuronsArray :
           \/ \E n \in {"element", "neurontype", "weights", "bias", "weightsArray"} :
                gone = Place(<<i, j>>, n)
           \/ \E k \in DOMAIN layers[i].neuronsArray[j].weightsArray :
                gone = Place(<<i, j, k>>, "element")
  <2> DEFINE root == {Place(<<>>, n) :
                        n \in {"globalmodelstatus", "trainingscounter", "neuralnetwork",
                               "layers", "layersArray"} \cup Settings}
             below == UNION {{Place(<<i>>, n) :
                                n \in {"element", "activationfunctiontype", "neurons",
                                       "neuronsArray"}} : i \in DOMAIN layers}
             members(i, j) == {Place(<<i, j>>, n) :
                                 n \in {"element", "neurontype", "weights", "bias",
                                        "weightsArray"}}
             elements(i, j) == {Place(<<i, j, k>>, "element") :
                                  k \in DOMAIN layers[i].neuronsArray[j].weightsArray}
             of(i) == UNION {members(i, j) \cup elements(i, j) :
                               j \in DOMAIN layers[i].neuronsArray}
             deepest == UNION {of(i) : i \in DOMAIN layers}
  <2>1. Places(m) = root \cup below \cup deepest
    BY DEF Places
  <2>2. gone \in root \/ gone \in below \/ gone \in deepest
    <3> HIDE DEF root, below, deepest
    <3> QED BY <2>1
  <2> HIDE DEF layers
  <2>3. gone \in below =>
          \E i \in DOMAIN layers :
            \E n \in {"element", "activationfunctiontype", "neurons", "neuronsArray"} :
              gone = Place(<<i>>, n)
    OBVIOUS
  <2>4. ASSUME gone \in deepest
        PROVE  \E i \in DOMAIN layers : \E j \in DOMAIN layers[i].neuronsArray :
                 gone \in members(i, j) \cup elements(i, j)
    <3>1. PICK i \in DOMAIN layers : gone \in of(i)
      <4> HIDE DEF of
      <4> QED BY <2>4
    <3>2. \E j \in DOMAIN layers[i].neuronsArray : gone \in members(i, j) \cup elements(i, j)
      <4> HIDE DEF members, elements
      <4> QED BY <3>1
    <3> HIDE DEF members, elements
    <3> QED BY <3>2
  <2>5. \A i, j : gone \in members(i, j) \cup elements(i, j) =>
          \/ \E n \in {"element", "neurontype", "weights", "bias", "weightsArray"} :
               gone = Place(<<i, j>>, n)
          \/ \E k \in DOMAIN layers[i].neuronsArray[j].weightsArray :
               gone = Place(<<i, j, k>>, "element")
    OBVIOUS
  <2> HIDE DEF below, deepest, members, elements
  <2> QED BY <2>2, <2>3, <2>4, <2>5
<1> HIDE DEF layers
<1>3. gone \notin {Place(<<>>, n) : n \in {"globalmodelstatus", "trainingscounter", "neuralnetwork",
                                           "layers", "layersArray"} \cup Settings}
  BY DEF Place, Settings
<1>4. ASSUME NEW i \in DOMAIN layers, NEW n, gone = Place(<<i>>, n)
      PROVE  gone = Place(<<>> \o <<i>>, "element")
  <2>1. <<>> \o <<i>> = <<i>>
    BY <1>1
  <2>2. n = "element"
    BY <1>4 DEF Place
  <2> QED BY <1>4, <2>1, <2>2
<1>5. ASSUME NEW i \in DOMAIN layers, NEW j \in DOMAIN layers[i].neuronsArray, NEW n,
             gone = Place(<<i, j>>, n)
      PROVE  gone \in LayerElements(layers[i], i)
  <2>1. i \in Nat /\ j \in Nat
    BY <1>1
  <2>2. <<i>> \o <<j>> = <<i, j>> /\ n = "element"
    BY <1>5, <2>1, Paths, PlaceFields
  <2> QED BY <1>5, <2>2 DEF LayerElements
<1>6. ASSUME NEW i \in DOMAIN layers, NEW j \in DOMAIN layers[i].neuronsArray,
             NEW k \in DOMAIN layers[i].neuronsArray[j].weightsArray,
             gone = Place(<<i, j, k>>, "element")
      PROVE  gone \in LayerElements(layers[i], i)
  <2>1. i \in Nat /\ j \in Nat /\ k \in Nat
    BY <1>1
  <2>2. <<i>> \o <<j>> \o <<k>> = <<i, j, k>>
    BY <2>1, Paths
  <2>3. gone = Place(<<i>> \o <<j>> \o <<k>>, "element")
    BY <1>6, <2>2, Zenon
  <2> QED BY <2>3 DEF LayerElements
<1>7. \E i \in DOMAIN layers :
        \/ gone = Place(<<>> \o <<i>>, "element") \/ gone \in LayerElements(layers[i], i)
  BY <1>2, <1>3, <1>4, <1>5, <1>6
<1> QED BY <1>7 DEF layers

LEMMA CutTrip ==
  ASSUME NEW m, IsModel(m), Whole(m), NEW side, NEW gone \in Places(m), gone.name = "element"
  PROVE  ~Whole(Trip(side, m, gone))
PROOF
<1> DEFINE n == m.neuralnetwork
           objects == LayerObjects(n, gone)
           list == LayersSent(n, gone)
           layers == LayersFrom(side, list)
           t == Trip(side, m, gone)
<1>1. gone.name \notin Names
  BY NamesOfNoElement
<1>2. IsNetwork(n) /\ IsList(n.layersArray) /\ DOMAIN n.layersArray \subseteq Nat
  <2>1. IsNetwork(n)
    BY DEF IsModel
  <2>2. IsList(n.layersArray)
    BY <2>1 DEF IsNetwork
  <2>3. DOMAIN n.layersArray = 1..Len(n.layersArray)
    BY <2>2, ListsAreSequences
  <2> QED BY <2>1, <2>2, <2>3
<1>3. /\ n.layers = Len(n.layersArray) /\ Len(n.layersArray) \in Nat
      /\ \A i \in DOMAIN n.layersArray : LayerCounts(n.layersArray[i])
  BY <1>2 DEF Whole, LayerCounts, IsList
<1>4. PICK i \in DOMAIN n.layersArray :
        \/ gone = Place(<<>> \o <<i>>, "element") \/ gone \in LayerElements(n.layersArray[i], i)
  BY ElementsOfAModel
<1>5. t.neuralnetwork.layers = n.layers /\ t.neuralnetwork.layersArray = layers
  <2>1. t = Learning(m.globalmodelstatus, m.trainingscounter,
                     NetworkFromJSON(side, NetworkToJSON(n, gone)))
    BY <1>1, ModelTrip
  <2>2. NetworkFromJSON(side, NetworkToJSON(n, gone)) =
          [x \in Fields |-> IF x = "layersArray" THEN layers ELSE Arrives(n[x])]
    BY <1>1, <1>2, NetworkTrip
  <2>3. Arrives(n.layers) = n.layers
    BY <1>3, FiniteAssumption DEF Arrives
  <2> HIDE DEF t, layers, n
  <2> QED BY <2>1, <2>2, <2>3 DEF Learning, Fields
<1>6. ~Whole(t) <=> ~(/\ n.layers = Len(layers)
                      /\ \A h \in DOMAIN layers : LayerCounts(layers[h]))
  <2> HIDE DEF layers, n, t
  <2> QED BY <1>5 DEF Whole, LayerCounts
<1> HIDE DEF t, n
<1>7. /\ IsList(objects) /\ DOMAIN objects = DOMAIN n.layersArray
      /\ Len(objects) = Len(n.layersArray)
  <2>1. objects = [j \in DOMAIN n.layersArray |-> objects[j]]
    BY DEF LayerObjects
  <2> HIDE DEF objects
  <2> QED BY <1>2, <2>1, MappedList
<1>8. \A h \in DOMAIN n.layersArray : objects[h] = LayerToJSON(n.layersArray[h], <<h>>, gone)
  BY DEF LayerObjects
<1>9. list = ElementsOf(objects, <<>>, gone)
  BY DEF LayersSent
<1> HIDE DEF objects
<1>10. CASE gone = Place(<<>> \o <<i>>, "element")
  <2>a. <<>> \in Seq(Nat)
    OBVIOUS
  <2>1. PICK at \in Seq(Nat) : at = <<>>
    BY <2>a
  <2>2. gone = Place(at \o <<i>>, "element") /\ i \in DOMAIN objects
    BY <1>7, <1>10, <2>1
  <2>3. Len(ElementsOf(objects, at, gone)) = Len(objects) - 1
    BY <1>7, <2>2, ArrayIsShorter
  <2>4. IsList(list) /\ Len(list) = Len(n.layersArray) - 1
    BY <1>7, <1>9, <2>1, <2>3, ArrayIsSent
  <2> HIDE DEF list
  <2>5. Len(layers) = Len(list)
    <3>1. layers = [j \in DOMAIN list |-> layers[j]]
      BY DEF LayersFrom
    <3> HIDE DEF layers
    <3> QED BY <2>4, <3>1, MappedList
  <2> HIDE DEF layers
  <2> QED BY <1>3, <1>6, <2>4, <2>5 DEF t
<1>11. CASE gone \in LayerElements(n.layersArray[i], i)
  <2>1. PICK l : l = n.layersArray[i]
    OBVIOUS
  <2>2. IsLayer(l) /\ LayerCounts(l) /\ i \in Nat
    BY <1>2, <1>3, <2>1 DEF IsNetwork
  <2>3. list = objects
    <3>1. DOMAIN l.neuronsArray \subseteq Nat
      BY <2>2, ListsAreSequences DEF IsLayer
    <3>2. \A j \in DOMAIN l.neuronsArray : DOMAIN l.neuronsArray[j].weightsArray \subseteq Nat
      <4>1. \A s : IsList(s) => DOMAIN s \subseteq Nat
        BY ListsAreSequences
      <4> QED BY <2>2, <4>1 DEF IsLayer, IsNeuron
    <3>3. ASSUME NEW j \in DOMAIN l.neuronsArray, gone = Place(<<i>> \o <<j>>, "element")
          PROVE  Len(gone.at) = 2
      <4>1. gone.at = <<i>> \o <<j>>
        BY <3>3, FieldsOf
      <4>2. j \in Nat
        BY <3>1
      <4> QED BY <2>2, <4>1, <4>2
    <3>4. ASSUME NEW j \in DOMAIN l.neuronsArray, NEW k \in DOMAIN l.neuronsArray[j].weightsArray,
                 gone = Place(<<i>> \o <<j>> \o <<k>>, "element")
          PROVE  Len(gone.at) = 3
      <4>1. gone.at = <<i>> \o <<j>> \o <<k>>
        BY <3>4, FieldsOf
      <4>2. j \in Nat /\ k \in Nat
        BY <3>1, <3>2
      <4>3. gone.at = <<i, j, k>>
        BY <2>2, <4>1, <4>2, Paths
      <4> QED BY <4>3
    <3>5. \E j \in DOMAIN l.neuronsArray :
            \/ gone = Place(<<i>> \o <<j>>, "element")
            \/ \E k \in DOMAIN l.neuronsArray[j].weightsArray :
                 gone = Place(<<i>> \o <<j>> \o <<k>>, "element")
      BY <1>11, <2>1 DEF LayerElements
    <3>6. Len(gone.at) \in {2, 3}
      BY <3>3, <3>4, <3>5
    <3>7. \A h \in DOMAIN objects : Len(<<>> \o <<h>>) = 1
      BY <1>2, <1>7
    <3>8. \A h \in DOMAIN objects : gone # Place(<<>> \o <<h>>, "element")
      BY <3>6, <3>7 DEF Place
    <3> QED BY <1>9, <3>8 DEF ElementsOf
  <2>4. layers[i] = LayerFromJSON(side, LayerToJSON(l, <<i>>, gone)) /\ i \in DOMAIN layers
    BY <1>7, <1>8, <2>1, <2>3 DEF LayersFrom
  <2>5. ~LayerCounts(LayerFromJSON(side, LayerToJSON(l, <<i>>, gone)))
    BY <1>11, <2>1, <2>2, LayerCut
  <2> HIDE DEF layers, list
  <2> QED BY <1>6, <2>4, <2>5 DEF t
<1> QED BY <1>4, <1>10, <1>11

LEMMA TrainedNetwork ==
  ASSUME NEW n, IsNetwork(n)
  PROVE  IsNetwork(NetworkTrained(n))
PROOF
<1>1. \A s : IsNeuron(s) => IsNeuron(NeuronTrained(s))
  <2> SUFFICES ASSUME NEW s, IsNeuron(s) PROVE IsNeuron(NeuronTrained(s))
    OBVIOUS
  <2> DEFINE w == [k \in DOMAIN s.weightsArray |-> Trained[s.weightsArray[k]]]
  <2>1. NeuronTrained(s) = [neurontype |-> s.neurontype, weights |-> s.weights, bias |-> s.bias,
                            weightsArray |-> w]
    BY DEF IsNeuron, NeuronTrained
  <2>2. w = [k \in DOMAIN s.weightsArray |-> w[k]]
    OBVIOUS
  <2> HIDE DEF w
  <2>3. IsList(w)
    BY <2>2, MappedList DEF IsNeuron
  <2> QED BY <2>1, <2>3 DEF IsNeuron
<1>2. \A l : IsLayer(l) => IsLayer(LayerTrained(l))
  <2> SUFFICES ASSUME NEW l, IsLayer(l) PROVE IsLayer(LayerTrained(l))
    OBVIOUS
  <2> DEFINE w == [j \in DOMAIN l.neuronsArray |-> NeuronTrained(l.neuronsArray[j])]
  <2>1. LayerTrained(l) = [activationfunctiontype |-> l.activationfunctiontype,
                           neurons |-> l.neurons, neuronsArray |-> w]
    BY DEF IsLayer, LayerTrained
  <2>2. w = [j \in DOMAIN l.neuronsArray |-> w[j]]
    OBVIOUS
  <2>3. \A j \in DOMAIN l.neuronsArray : IsNeuron(w[j])
    BY <1>1 DEF IsLayer
  <2> HIDE DEF w
  <2>4. IsList(w) /\ DOMAIN w = DOMAIN l.neuronsArray
    BY <2>2, MappedList DEF IsLayer
  <2> QED BY <2>1, <2>3, <2>4 DEF IsLayer
<1> DEFINE w == [i \in DOMAIN n.layersArray |-> LayerTrained(n.layersArray[i])]
           t == NetworkTrained(n)
<1>3. t = [n EXCEPT !.layersArray = w]
  BY DEF NetworkTrained
<1>4. w = [i \in DOMAIN n.layersArray |-> w[i]]
  OBVIOUS
<1>5. \A i \in DOMAIN n.layersArray : IsLayer(w[i])
  BY <1>2 DEF IsNetwork
<1> HIDE DEF w, t
<1>6. IsList(w) /\ DOMAIN w = DOMAIN n.layersArray
  BY <1>4, MappedList DEF IsNetwork
<1>7. /\ t.layersArray = w /\ t = [x \in Settings \cup {"layers", "layersArray"} |-> t[x]]
      /\ t.layers \in Nat
  BY <1>3 DEF IsNetwork
<1> QED BY <1>5, <1>6, <1>7 DEF IsNetwork, t

LEMMA ConversionInit == InitConversion => ConversionInv
PROOF BY PublishedAssumption DEF InitConversion, ConversionInv, SentInv, ArrivedInv, Learning

LEMMA ConversionStep == ConversionInv /\ [ConversionNext]_conversionVars => ConversionInv'
PROOF
<1> SUFFICES ASSUME ConversionInv, [ConversionNext]_conversionVars PROVE ConversionInv'
  OBVIOUS
<1>1. CASE SendGlobalModel
  <2>0. local'.globalmodelstatus \in Nat
    BY <1>1 DEF SendGlobalModel, ConversionInv
  <2>1. IsModel(instance) /\ instance' = instance /\ step' = "download"
    BY <1>1 DEF SendGlobalModel, Send, ConversionInv
  <2>2. SentInv'
    BY <1>1, <2>1 DEF SendGlobalModel, Send, SentInv
  <2> QED BY <2>0, <2>1, <2>2 DEF ConversionInv, ArrivedInv
<1>2. CASE Download
  <2>0. local'.globalmodelstatus \in Nat
    BY <1>2 DEF Download, ConversionInv
  <2>1. /\ instance' = instance /\ step = "download" /\ step' = "replace"
        /\ UNCHANGED <<message, missing, origin>>
        /\ downloaded' = JSONToFederatedLearning("board", message)
    BY <1>2 DEF Download
  <2>2. SentInv'
    BY <2>1 DEF ConversionInv, SentInv
  <2> QED BY <2>0, <2>1, <2>2 DEF ConversionInv, ArrivedInv
<1>3. CASE ReplaceAndTrain
  <2>1. /\ instance' = instance /\ step' = "upload" /\ step = "replace" /\ HasLists(downloaded)
        /\ local' = Learning(local.globalmodelstatus, 1, NetworkTrained(downloaded.neuralnetwork))
    BY <1>3 DEF ReplaceAndTrain
  <2>2. IsModel(downloaded)
    <3>1. IsModel(origin) /\ downloaded = Trip("board", origin, missing)
      BY <2>1 DEF ConversionInv, SentInv, ArrivedInv, Trip
    <3> QED BY <2>1, <3>1, ModelTrip
  <2>3. IsNetwork(NetworkTrained(downloaded.neuralnetwork))
    <3>1. PICK n : n = downloaded.neuralnetwork
      OBVIOUS
    <3>2. IsNetwork(n)
      BY <2>2, <3>1 DEF IsModel
    <3> QED BY <3>1, <3>2, TrainedNetwork
  <2>4. IsModel(local')
    <3>1. PICK n : n = NetworkTrained(downloaded.neuralnetwork)
      OBVIOUS
    <3>2. IsNetwork(n) /\ local' = Learning(local.globalmodelstatus, 1, n)
      BY <2>1, <2>3, <3>1
    <3> QED BY <3>2 DEF IsModel, Learning, ConversionInv
  <2>5. local'.globalmodelstatus \in Nat
    BY <2>1 DEF Learning, ConversionInv
  <2> QED BY <2>1, <2>4, <2>5 DEF ConversionInv, SentInv, ArrivedInv
<1>4. CASE SendLocalModel
  <2>0. local'.globalmodelstatus \in Nat
    BY <1>4 DEF SendLocalModel, ConversionInv
  <2>1. IsModel(instance) /\ instance' = instance /\ step' = "receive" /\ IsModel(local)
    BY <1>4 DEF SendLocalModel, Send, ConversionInv
  <2>2. SentInv'
    BY <1>4, <2>1 DEF SendLocalModel, Send, SentInv
  <2> QED BY <2>0, <2>1, <2>2 DEF ConversionInv, ArrivedInv
<1>5. CASE ReceiveLocalModel
  <2>0. local'.globalmodelstatus \in Nat
    BY <1>5 DEF ReceiveLocalModel, ConversionInv
  <2>1. /\ instance' = instance /\ step = "receive" /\ step' = "aggregate"
        /\ UNCHANGED <<message, missing, origin>>
        /\ clientmodel' = JSONToFederatedLearning("server", message)
    BY <1>5 DEF ReceiveLocalModel
  <2>2. SentInv'
    BY <2>1 DEF ConversionInv, SentInv
  <2> QED BY <2>0, <2>1, <2>2 DEF ConversionInv, ArrivedInv
<1>6. CASE NextGlobalModel
  <2>0. local'.globalmodelstatus \in Nat
    BY <1>6 DEF NextGlobalModel, ConversionInv
  <2>1. IsModel(instance') /\ step' = "get"
    BY <1>6, PublishedAssumption DEF NextGlobalModel
  <2> QED BY <2>0, <2>1 DEF ConversionInv, SentInv, ArrivedInv
<1>7. CASE UNCHANGED conversionVars
  BY <1>7 DEF conversionVars, ConversionInv, SentInv, ArrivedInv
<1> QED BY <1>1, <1>2, <1>3, <1>4, <1>5, <1>6, <1>7 DEF ConversionNext

LEMMA WhatArrives == ConversionInv => ModelsSurviveTheTrip
PROOF
<1> SUFFICES ASSUME ConversionInv PROVE ModelsSurviveTheTrip
  OBVIOUS
<1>1. ASSUME step = "replace"
      PROVE  /\ IsModel(origin) /\ missing \in {None} \cup Places(origin)
             /\ downloaded = Trip("board", origin, missing)
  BY <1>1 DEF ConversionInv, SentInv, ArrivedInv, Trip
<1>2. ASSUME step = "aggregate"
      PROVE  /\ IsModel(origin) /\ missing \in {None} \cup Places(origin)
             /\ clientmodel = Trip("server", origin, missing)
  BY <1>2 DEF ConversionInv, SentInv, ArrivedInv, Trip
<1>3. BoardHasTheGlobalModel
  BY <1>1, BoardTrip DEF BoardHasTheGlobalModel
<1>4. ServerHasTheLocalModel
  BY <1>2, ServerTrip DEF ServerHasTheLocalModel
<1>5. CountsTellOfAHole
  <2> SUFFICES ASSUME step \in {"replace", "aggregate"}, Whole(origin), missing.name = "element"
               PROVE  ~Whole(Arrived)
    BY DEF CountsTellOfAHole
  <2>1. None.name # "element"
    BY DEF None, Place
  <2>2. CASE step = "replace"
    <3>1. missing \in Places(origin) /\ Arrived = Trip("board", origin, missing)
      BY <1>1, <2>1, <2>2 DEF Arrived
    <3> QED BY <1>1, <2>2, <3>1, CutTrip
  <2>3. CASE step = "aggregate"
    <3>1. missing \in Places(origin) /\ Arrived = Trip("server", origin, missing)
      BY <1>2, <2>1, <2>3 DEF Arrived
    <3> QED BY <1>2, <2>3, <3>1, CutTrip
  <2> QED BY <2>2, <2>3
<1> QED BY <1>3, <1>4, <1>5 DEF ModelsSurviveTheTrip

\* A board trains the model that the server has published and the server adds up the model
\* that the board has trained, if every item of the tree was allocated; and when an element
\* of an array was not, the counts that have arrived beside the arrays tell
\* (FederatedLearningToJSON, JSONToFederatedLearning).
THEOREM ModelsArrive == ConversionSpec => []ModelsSurviveTheTrip
PROOF BY ConversionInit, ConversionStep, WhatArrives, PTL DEF ConversionSpec

-----------------------------------------------------------------------------
\* The counters of what is sent are numbers, and so are those of what arrives.
CounterInv ==
  /\ ConversionTypeOK
  /\ instance.trainingscounter \in Nat /\ local.trainingscounter \in Nat
  /\ step \in {"download", "receive"} => origin.trainingscounter \in Nat

LEMMA Counted ==
  ASSUME NEW m, IsModel(m), m.trainingscounter \in Nat, NEW side, NEW gone
  PROVE  Trip(side, m, gone).trainingscounter \in Nat
PROOF
<1> DEFINE posted == [globalmodelstatus |-> Item(m.globalmodelstatus),
                      trainingscounter |-> Item(m.trainingscounter),
                      neuralnetwork |-> NetworkToJSON(m.neuralnetwork, gone)]
           json == Members(posted, <<>>, gone)
<1>1. FederatedLearningToJSON(m, gone) = json
  BY Zenon DEF FederatedLearningToJSON
<1>2. posted.trainingscounter = Item(m.trainingscounter)
  OBVIOUS
<1> HIDE DEF posted
<1>3. GetNumber(json, "trainingscounter", 0) \in Nat
  <2>1. "trainingscounter" \in DOMAIN json => json.trainingscounter = Item(m.trainingscounter)
    BY <1>2 DEF Members
  <2> QED BY <2>1, ItemIsRead DEF GetNumber
<1> HIDE DEF json
<1>4. StatusAndCounter(json).trainingscounter \in Nat
  BY <1>3 DEF StatusAndCounter
<1>5. JSONToFederatedLearning(side, json).trainingscounter =
        StatusAndCounter(json).trainingscounter
  BY DEF JSONToFederatedLearning, Learning
<1> QED BY <1>1, <1>4, <1>5 DEF Trip

LEMMA CounterInit == InitConversion => CounterInv
PROOF
<1> SUFFICES ASSUME InitConversion PROVE CounterInv
  OBVIOUS
<1>1. instance.trainingscounter \in Nat
  BY PublishedAssumption DEF InitConversion, IsModel
<1>2. local.trainingscounter \in Nat
  BY DEF InitConversion, Learning
<1>3. ConversionTypeOK
  BY DEF InitConversion, ConversionTypeOK
<1> QED BY <1>1, <1>2, <1>3 DEF InitConversion, CounterInv

LEMMA CounterStep ==
  ConversionInv /\ CounterInv /\ [ConversionNext]_conversionVars => CounterInv'
PROOF
<1> SUFFICES ASSUME ConversionInv, CounterInv, [ConversionNext]_conversionVars PROVE CounterInv'
  OBVIOUS
<1>1. CASE SendGlobalModel
  BY <1>1 DEF SendGlobalModel, Send, CounterInv, ConversionTypeOK
<1>2. CASE Download
  <2>1. downloaded' = Trip("board", origin, missing) /\ IsModel(origin)
    BY <1>2 DEF Download, ConversionInv, SentInv, Trip
  <2>2. downloaded'.trainingscounter \in Nat
    BY <1>2, <2>1, Counted DEF Download, CounterInv
  <2> QED BY <1>2, <2>2 DEF Download, CounterInv, ConversionTypeOK
<1>3. CASE ReplaceAndTrain
  BY <1>3 DEF ReplaceAndTrain, CounterInv, ConversionTypeOK, Learning
<1>4. CASE SendLocalModel
  BY <1>4 DEF SendLocalModel, Send, CounterInv, ConversionTypeOK
<1>5. CASE ReceiveLocalModel
  <2>1. clientmodel' = Trip("server", origin, missing) /\ IsModel(origin)
    BY <1>5 DEF ReceiveLocalModel, ConversionInv, SentInv, Trip
  <2>2. clientmodel'.trainingscounter \in Nat
    BY <1>5, <2>1, Counted DEF ReceiveLocalModel, CounterInv
  <2> QED BY <1>5, <2>2 DEF ReceiveLocalModel, CounterInv, ConversionTypeOK
<1>6. CASE NextGlobalModel
  <2>1. instance'.trainingscounter \in Nat
    BY <1>6, PublishedAssumption DEF NextGlobalModel, IsModel
  <2> QED BY <1>6, <2>1 DEF NextGlobalModel, CounterInv, ConversionTypeOK
<1>7. CASE UNCHANGED conversionVars
  BY <1>7 DEF conversionVars, CounterInv, ConversionTypeOK
<1> QED BY <1>1, <1>2, <1>3, <1>4, <1>5, <1>6, <1>7 DEF ConversionNext

\* What is missing is an item of the tree that was sent, and the counter of trainings that
\* is read out of a tree is a number, whichever item of it is missing.
THEOREM ConversionTypeCorrect == ConversionSpec => []ConversionTypeOK
PROOF
<1>1. CounterInv => ConversionTypeOK
  BY DEF CounterInv
<1> QED BY <1>1, ConversionInit, ConversionStep, CounterInit, CounterStep, PTL DEF ConversionSpec

-----------------------------------------------------------------------------
(***************************************************************************)
(* The uplink hands a model to AggregationModel for the board that sent it *)
(* and in the order of that board, for any number of boards, fragments and *)
(* models and any room, although all sessions share one text, and the      *)
(* uplink implements LossyUplink.                                          *)
(***************************************************************************)

Fragment == Node \X Nat \X Nat

\* For each board, all its models in S were sent before all its models in T.
Earlier(S, T) == \A x \in S, y \in T : x[1] = y[1] => x[2] < y[2]

Queued(i) == ModelsIn(buffer[i].message)

Taken == {<<delivered[i][2], delivered[i][3]>> : i \in DOMAIN delivered}

\* What an open session is sending.
Current == {<<n, sent[n]>> : n \in session}

Sent == {x \in Node \X Nat : x[2] \in 1..sent[x[1]]}

ShapeInv ==
  /\ sent \in [Node -> 0..MaxModels] /\ session \in SUBSET Node
  /\ arrived \in [Node -> 0..Fragments] /\ \A n \in session : arrived[n] < Fragments /\ sent[n] > 0
  /\ received_json \in Seq(Fragment) /\ Len(received_json) <= MaxJsonSize
  /\ buffer \in Seq([message : Seq(Fragment) \ {<<>>}, ip_id : Node])
  /\ handling => buffer # <<>>
  /\ delivered \in Seq(Node \X Node \X Nat)

\* A text is queued under the board of its last fragment.
CreditInv ==
  /\ \A i \in DOMAIN buffer : Last(buffer[i].message)[1] = buffer[i].ip_id
  /\ CreditedToSender

\* Models stay in the order they were sent in, from the sessions over the shared
\* text and the queue to AggregationModel, and no model is in two of these places.
OrderInv ==
  /\ DeliveredOnceInOrder
  /\ \A i \in DOMAIN buffer :
       /\ Earlier(Taken, Queued(i)) /\ Earlier(Queued(i), ModelsIn(received_json))
       /\ Earlier(Queued(i), Current) /\ Queued(i) \subseteq Sent
  /\ \A i, j \in DOMAIN buffer : i < j => Earlier(Queued(i), Queued(j))
  /\ Earlier(Taken, ModelsIn(received_json)) /\ Earlier(Taken, Current) /\ Taken \subseteq Sent
  /\ ModelsIn(received_json) \subseteq Sent

\* The last fragment of a model ends its session.
EndInv == \A n \in session : ~Contains(received_json, <<n, sent[n], Fragments>>)

UplinkInv == ShapeInv /\ CreditInv /\ OrderInv /\ EndInv

USE FragmentsAssumption, MaxJsonSizeAssumption, MaxModelsAssumption

\* The models of a text are boards and numbers, and every fragment is of one.
LEMMA ModelsInText ==
  ASSUME NEW text \in Seq(Fragment)
  PROVE  /\ ModelsIn(text) \subseteq Node \X Nat
         /\ \A i \in DOMAIN text : <<text[i][1], text[i][2]>> \in ModelsIn(text)
         /\ IsFiniteSet(ModelsIn(text))
PROOF
<1>1. \A i \in DOMAIN text : text[i] \in Fragment
  OBVIOUS
<1>2. \A i \in DOMAIN text : text[i][1] \in Node /\ text[i][2] \in Nat
  BY <1>1 DEF Fragment
<1>3. ModelsIn(text) \subseteq Node \X Nat
  BY <1>2 DEF ModelsIn
<1>4. \A i \in DOMAIN text : <<text[i][1], text[i][2]>> \in ModelsIn(text)
  BY DEF ModelsIn
<1>5. IsFiniteSet(ModelsIn(text))
  <2>1. IsFiniteSet(1..Len(text)) /\ DOMAIN text = 1..Len(text)
    BY FS_Interval
  <2> DEFINE modelOf == [i \in 1..Len(text) |-> <<text[i][1], text[i][2]>>]
  <2>2. modelOf \in Surjection(1..Len(text), ModelsIn(text))
    BY <2>1 DEF ModelsIn, Surjection
  <2> QED BY <2>1, <2>2, FS_Surjection
<1> QED BY <1>3, <1>4, <1>5

\* One more fragment, one more model at the most.
LEMMA ModelsInAppend ==
  ASSUME NEW text \in Seq(Fragment), NEW f \in Fragment
  PROVE  /\ Append(text, f) \in Seq(Fragment) /\ Append(text, f) # <<>>
         /\ ModelsIn(Append(text, f)) = ModelsIn(text) \cup {<<f[1], f[2]>>}
         /\ Last(Append(text, f)) = f
PROOF
<1> DEFINE longer == Append(text, f)
<1>1. /\ longer \in Seq(Fragment) /\ Len(longer) = Len(text) + 1 /\ Len(text) \in Nat
      /\ DOMAIN longer = 1..(Len(text) + 1) /\ DOMAIN text = 1..Len(text)
      /\ \A i \in 1..Len(text) : longer[i] = text[i]
      /\ longer[Len(text) + 1] = f
  OBVIOUS
<1> HIDE DEF longer
<1>2. longer # <<>>
  BY <1>1
<1>3. ModelsIn(longer) \subseteq ModelsIn(text) \cup {<<f[1], f[2]>>}
  <2> SUFFICES ASSUME NEW i \in 1..(Len(text) + 1)
               PROVE  <<longer[i][1], longer[i][2]>> \in ModelsIn(text) \cup {<<f[1], f[2]>>}
    BY <1>1 DEF ModelsIn
  <2>1. i \in 1..Len(text) \/ i = Len(text) + 1
    BY <1>1
  <2> QED BY <1>1, <2>1 DEF ModelsIn
<1>4. ModelsIn(text) \cup {<<f[1], f[2]>>} \subseteq ModelsIn(longer)
  <2>1. ASSUME NEW i \in 1..Len(text) PROVE <<text[i][1], text[i][2]>> \in ModelsIn(longer)
    <3>1. i \in DOMAIN longer /\ longer[i] = text[i]
      BY <1>1
    <3> QED BY <3>1 DEF ModelsIn
  <2>2. <<f[1], f[2]>> \in ModelsIn(longer)
    <3>1. Len(text) + 1 \in DOMAIN longer
      BY <1>1
    <3> QED BY <1>1, <3>1 DEF ModelsIn
  <2> QED BY <1>1, <2>1, <2>2 DEF ModelsIn
<1>5. Last(longer) = f
  BY <1>1 DEF Last
<1> QED BY <1>1, <1>2, <1>3, <1>4, <1>5 DEF longer

LEMMA ModelsInNothing == ModelsIn(<<>>) = {}
BY DEF ModelsIn

\* A text that parses is of one model, which is the one of its last fragment too.
LEMMA OneModel ==
  ASSUME NEW text \in Seq(Fragment) \ {<<>>}, Parses(text)
  PROVE  /\ ModelsIn(text) = {<<text[1][1], text[1][2]>>}
         /\ Last(text)[1] = text[1][1]
         /\ text[1][1] \in Node /\ text[1][2] \in Nat
PROOF
<1>1. Len(text) \in Nat \ {0} /\ 1 \in DOMAIN text /\ Len(text) \in DOMAIN text
  OBVIOUS
<1>2. PICK x : ModelsIn(text) = {x}
  BY ModelsInText, FS_Singleton DEF Parses
<1>3. <<text[1][1], text[1][2]>> = x /\ <<Last(text)[1], Last(text)[2]>> = x
  BY <1>1, <1>2, ModelsInText DEF Last
<1>4. <<text[1][1], text[1][2]>> \in Node \X Nat
  BY <1>1, ModelsInText
<1> QED BY <1>2, <1>3, <1>4

-----------------------------------------------------------------------------
LEMMA UplinkInitial == InitUplink => UplinkInv
PROOF
<1> SUFFICES ASSUME InitUplink PROVE UplinkInv
  OBVIOUS
<1>1. DOMAIN buffer = {} /\ DOMAIN delivered = {} /\ received_json = <<>> /\ session = {}
  BY DEF InitUplink
<1>2. ShapeInv
  <2>1. /\ sent \in [Node -> 0..MaxModels] /\ arrived \in [Node -> 0..Fragments]
        /\ Len(received_json) <= MaxJsonSize
    BY DEF InitUplink
  <2>2. /\ received_json \in Seq(Fragment) /\ delivered \in Seq(Node \X Node \X Nat)
        /\ buffer \in Seq([message : Seq(Fragment) \ {<<>>}, ip_id : Node])
    BY DEF InitUplink
  <2> QED BY <1>1, <2>1, <2>2 DEF InitUplink, ShapeInv
<1>3. CreditInv
  BY <1>1 DEF CreditInv, CreditedToSender
<1>4. Taken = {} /\ ModelsIn(received_json) = {} /\ Current = {}
  BY <1>1, ModelsInNothing DEF Taken, Current
<1>5. OrderInv
  BY <1>1, <1>4 DEF OrderInv, DeliveredOnceInOrder, Earlier
<1>6. EndInv
  BY <1>1 DEF EndInv
<1> QED BY <1>2, <1>3, <1>5, <1>6 DEF UplinkInv

\* A step that leaves the text, the queue and the models alone, where a session may
\* end and a board may open its next.
LEMMA SessionStep ==
  ASSUME UplinkInv, UNCHANGED <<received_json, buffer, delivered>>,
         \/ /\ UNCHANGED sent /\ session' \subseteq session /\ UNCHANGED arrived
            /\ handling' => buffer # <<>>
         \/ \E n \in Node : OpenSession(n)
  PROVE  UplinkInv'
PROOF
<1>1. CASE /\ UNCHANGED sent /\ session' \subseteq session /\ UNCHANGED arrived
           /\ handling' => buffer # <<>>
  <2>1. ShapeInv' /\ CreditInv' /\ EndInv'
    BY <1>1 DEF UplinkInv, ShapeInv, CreditInv, CreditedToSender, EndInv
  <2>2. Taken' = Taken /\ Sent' = Sent /\ \A i : Queued(i)' = Queued(i)
    BY <1>1 DEF Taken, Sent, Queued, ModelsIn
  <2>3. Current' \subseteq Current
    BY <1>1 DEF Current
  <2>4. OrderInv'
    BY <1>1, <2>2, <2>3 DEF UplinkInv, OrderInv, DeliveredOnceInOrder, Earlier, ModelsIn
  <2> QED BY <2>1, <2>4 DEF UplinkInv
<1>2. ASSUME NEW n \in Node, OpenSession(n) PROVE UplinkInv'
  <2>1. /\ sent' = [sent EXCEPT ![n] = @ + 1] /\ session' = session \cup {n} /\ n \notin session
        /\ arrived' = [arrived EXCEPT ![n] = 0] /\ sent[n] < MaxModels /\ UNCHANGED handling
        /\ sent \in [Node -> 0..MaxModels] /\ session \subseteq Node
    BY <1>2 DEF OpenSession, UplinkInv, ShapeInv
  <2>2. ShapeInv' /\ CreditInv'
    <3>1. /\ sent' \in [Node -> 0..MaxModels] /\ arrived' \in [Node -> 0..Fragments]
          /\ \A m \in session' : arrived'[m] < Fragments /\ sent'[m] > 0
      <4>1. arrived \in [Node -> 0..Fragments] /\ \A m \in session : arrived[m] < Fragments /\ sent[m] > 0
        BY DEF UplinkInv, ShapeInv
      <4>2. sent' \in [Node -> 0..MaxModels] /\ sent'[n] > 0
        BY <2>1
      <4>3. arrived' \in [Node -> 0..Fragments] /\ arrived'[n] < Fragments
        BY <2>1, <4>1
      <4>4. ASSUME NEW m \in session \ {n} PROVE arrived'[m] < Fragments /\ sent'[m] > 0
        BY <2>1, <4>1
      <4> QED BY <2>1, <4>2, <4>3, <4>4
    <3> QED BY <2>1, <3>1 DEF UplinkInv, ShapeInv, CreditInv, CreditedToSender
  <2>3. Taken' = Taken /\ ModelsIn(received_json)' = ModelsIn(received_json)
        /\ \A i : Queued(i)' = Queued(i)
    BY DEF Taken, Queued, ModelsIn
  <2>4. /\ sent'[n] = sent[n] + 1 /\ sent[n] \in Nat
        /\ \A m \in Node \ {n} : sent'[m] = sent[m]
    BY <2>1
  <2>5. Sent \subseteq Sent'
    BY <2>1, <2>4 DEF Sent
  <2>6. Current' \subseteq Current \cup {<<n, sent[n] + 1>>}
    BY <2>1, <2>4 DEF Current
  <2>7. \A x \in Sent : x[1] = n => x[2] < sent[n] + 1
    BY <2>4 DEF Sent
  <2>8. \A S \in SUBSET Sent : Earlier(S, Current) => Earlier(S, Current')
    BY <2>6, <2>7 DEF Earlier
  <2>9. OrderInv'
    BY <2>3, <2>5, <2>8 DEF UplinkInv, OrderInv, DeliveredOnceInOrder
  <2>10. EndInv'
    <3> SUFFICES ASSUME NEW m \in session', Contains(received_json, <<m, sent'[m], Fragments>>)
                 PROVE  FALSE
      BY DEF EndInv
    <3>1. <<m, sent'[m]>> \in ModelsIn(received_json)
      BY DEF Contains, ModelsIn
    <3>2. m # n
      <4>1. <<m, sent'[m]>> \in Sent
        BY <3>1 DEF UplinkInv, OrderInv
      <4> QED BY <2>4, <2>7, <4>1
    <3> QED BY <2>1, <2>4, <3>2 DEF UplinkInv, EndInv
  <2> QED BY <2>2, <2>9, <2>10 DEF UplinkInv
<1> QED BY <1>1, <1>2

\* A fragment arrives: the text grows, or is complete and joins the queue.
LEMMA FragmentStep ==
  ASSUME UplinkInv, NEW n \in Node, ReceiveFragment(n)
  PROVE  UplinkInv'
PROOF
<1> DEFINE f == <<n, sent[n], arrived[n] + 1>>
           text == Append(received_json, f)
<1>1. /\ n \in session /\ ~handling /\ UNCHANGED <<sent, handling, delivered>>
      /\ sent[n] \in Nat \ {0} /\ arrived[n] + 1 \in 1..Fragments /\ received_json \in Seq(Fragment)
  BY DEF ReceiveFragment, UplinkInv, ShapeInv
<1>2. f \in Fragment /\ f[1] = n /\ f[2] = sent[n] /\ f[3] = arrived[n] + 1
  BY <1>1 DEF Fragment
<1>3. /\ text \in Seq(Fragment) \ {<<>>} /\ Last(text) = f
      /\ ModelsIn(text) = ModelsIn(received_json) \cup {<<n, sent[n]>>}
  <2> HIDE DEF f
  <2> QED BY <1>1, <1>2, ModelsInAppend
<1>4. CASE IsTooBig(received_json)
  <2>1. session' \subseteq session /\ UNCHANGED <<arrived, received_json, buffer>>
    BY <1>4 DEF ReceiveFragment
  <2> QED BY <1>1, <2>1, SessionStep
<1>5. CASE ~IsTooBig(received_json)
  <2>1. /\ arrived' = [arrived EXCEPT ![n] = arrived[n] + 1]
        /\ session' = IF arrived[n] + 1 = Fragments THEN session \ {n} ELSE session
        /\ IF IsCompleteJson(text)
           THEN /\ buffer' = Append(buffer, [message |-> text, ip_id |-> n])
                /\ received_json' = <<>>
           ELSE received_json' = text /\ UNCHANGED buffer
    BY <1>5 DEF ReceiveFragment, InsertMessage, QueueEntry
  <2>2. <<n, sent[n]>> \in Current
    BY <1>1 DEF Current
  <2>3. Current' \subseteq Current /\ Taken' = Taken /\ Sent' = Sent
    BY <1>1, <2>1 DEF Current, Taken, Sent
  <2>4. /\ Earlier(Taken, ModelsIn(text)) /\ ModelsIn(text) \subseteq Sent
        /\ \A i \in DOMAIN buffer : Earlier(Queued(i), ModelsIn(text))
    <3>1. <<n, sent[n]>> \in Sent
      BY <1>1 DEF Sent
    <3> QED BY <1>3, <2>2, <3>1 DEF UplinkInv, OrderInv, Earlier
  <2>5. /\ arrived' \in [Node -> 0..Fragments] /\ session' \subseteq Node
        /\ \A m \in session' : arrived'[m] < Fragments /\ sent[m] > 0
    BY <1>1, <2>1, SMTT(30) DEF UplinkInv, ShapeInv
  <2>6. ASSUME NEW m \in session'
        PROVE  ~Contains(text, <<m, sent[m], Fragments>>)
    <3> SUFFICES ASSUME NEW i \in 1..Len(text), text[i] = <<m, sent[m], Fragments>>
                 PROVE  FALSE
      BY DEF Contains
    <3>1. Len(text) = Len(received_json) + 1 /\ Len(received_json) \in Nat
      BY <1>1
    <3>2. CASE i \in 1..Len(received_json)
      <4>1. received_json[i] = text[i]
        BY <1>1, <3>2
      <4>2. m \in session
        BY <2>1
      <4> QED BY <3>2, <4>1, <4>2 DEF UplinkInv, EndInv, Contains
    <3>3. CASE i = Len(received_json) + 1
      <4>1. f = <<m, sent[m], Fragments>>
        BY <1>1, <3>3
      <4>2. n = m /\ arrived[n] + 1 = Fragments
        BY <4>1
      <4> QED BY <2>1, <4>2
    <3> QED BY <3>1, <3>2, <3>3
  <2>7. CASE ~IsCompleteJson(text)
    <3> HIDE DEF text
    <3>1. received_json' = text /\ UNCHANGED buffer
      BY <2>1, <2>7
    <3>2. ShapeInv'
      <4>1. Len(text) <= MaxJsonSize
        <5>1. Len(text) = Len(received_json) + 1 /\ Len(received_json) \in Nat
          BY <1>1 DEF text
        <5> QED BY <1>5, <5>1 DEF IsTooBig
      <4> QED BY <1>1, <1>3, <2>5, <3>1, <4>1 DEF UplinkInv, ShapeInv
    <3>3. CreditInv'
      BY <1>1, <3>1 DEF UplinkInv, CreditInv, CreditedToSender
    <3>4. ModelsIn(received_json)' = ModelsIn(text) /\ \A i : Queued(i)' = Queued(i)
      BY <3>1 DEF Queued, ModelsIn
    <3>5. OrderInv'
      BY <1>1, <2>3, <2>4, <3>1, <3>4 DEF UplinkInv, OrderInv, DeliveredOnceInOrder, Earlier
    <3>6. EndInv'
      BY <1>1, <2>6, <3>1 DEF EndInv
    <3> QED BY <3>2, <3>3, <3>5, <3>6 DEF UplinkInv
  <2>8. CASE IsCompleteJson(text)
    <3> DEFINE entry == [message |-> text, ip_id |-> n]
    <3> PICK last : last = Len(buffer) + 1
      OBVIOUS
    <3>1. /\ received_json' = <<>> /\ entry.message = text /\ entry.ip_id = n
          /\ entry \in [message : Seq(Fragment) \ {<<>>}, ip_id : Node]
          /\ buffer' = Append(buffer, entry)
          /\ buffer \in Seq([message : Seq(Fragment) \ {<<>>}, ip_id : Node])
      BY <1>3, <2>1, <2>8 DEF UplinkInv, ShapeInv
    <3> HIDE DEF text, entry
    <3>2. /\ buffer' \in Seq([message : Seq(Fragment) \ {<<>>}, ip_id : Node])
          /\ Len(buffer) \in Nat /\ DOMAIN buffer = 1..Len(buffer) /\ DOMAIN buffer' = 1..last
          /\ \A i \in DOMAIN buffer : buffer'[i] = buffer[i]
          /\ buffer'[last] = entry /\ buffer' # <<>>
      BY <3>1
    <3>3. \A i \in DOMAIN buffer' : i \in DOMAIN buffer \/ i = last
      BY <3>2
    <3>4. /\ ModelsIn(received_json)' = {} /\ Queued(last)' = ModelsIn(text)
          /\ \A i \in DOMAIN buffer : Queued(i)' = Queued(i)
      <4>1. ModelsIn(received_json)' = {}
        BY <3>1, ModelsInNothing DEF ModelsIn
      <4>2. Queued(last)' = ModelsIn(text)
        BY <3>1, <3>2 DEF Queued, ModelsIn
      <4>3. \A i \in DOMAIN buffer : Queued(i)' = Queued(i)
        BY <3>2 DEF Queued, ModelsIn
      <4> QED BY <4>1, <4>2, <4>3
    <3>5. ShapeInv'
      <4>1. received_json' \in Seq(Fragment) /\ Len(received_json') <= MaxJsonSize
        BY <3>1
      <4> QED BY <1>1, <2>5, <3>2, <4>1 DEF UplinkInv, ShapeInv
    <3>6. CreditInv'
      BY <1>1, <1>2, <1>3, <3>1, <3>2, <3>3 DEF UplinkInv, CreditInv, CreditedToSender
    <3>7. Earlier(ModelsIn(text), Current')
      <4> SUFFICES ASSUME NEW x \in ModelsIn(text), NEW m \in session', x[1] = m
                   PROVE  x[2] < sent[m]
        BY <1>1 DEF Earlier, Current
      <4>1. x \in Node \X Nat /\ x[2] <= sent[m] /\ sent[m] \in Nat
        BY <2>4, <2>5, ShapeInv DEF Sent, UplinkInv, ShapeInv
      <4>2. x[2] # sent[m]
        BY <2>6, <2>8, <4>1 DEF IsCompleteJson
      <4> QED BY <4>1, <4>2
    <3>8. OrderInv'
      <4>1. DeliveredOnceInOrder' /\ Earlier(Taken, Current)' /\ (Taken \subseteq Sent)'
        BY <1>1, <2>3 DEF UplinkInv, OrderInv, DeliveredOnceInOrder, Earlier
      <4>2. /\ Earlier(Taken, ModelsIn(received_json))' /\ (ModelsIn(received_json) \subseteq Sent)'
            /\ \A i \in DOMAIN buffer' : Earlier(Queued(i)', ModelsIn(received_json)')
        BY <3>4 DEF Earlier
      <4>3. \A i \in DOMAIN buffer' :
              Earlier(Taken', Queued(i)') /\ Earlier(Queued(i)', Current') /\ Queued(i)' \subseteq Sent'
        <5> SUFFICES ASSUME NEW i \in DOMAIN buffer'
                     PROVE  /\ Earlier(Taken', Queued(i)') /\ Earlier(Queued(i)', Current')
                            /\ Queued(i)' \subseteq Sent'
          OBVIOUS
        <5>1. CASE i \in DOMAIN buffer
          BY <2>3, <3>4, <5>1 DEF UplinkInv, OrderInv, Earlier
        <5>2. CASE i = last
          BY <2>3, <2>4, <3>4, <3>7, <5>2
        <5> QED BY <3>3, <5>1, <5>2
      <4>4. \A i, j \in DOMAIN buffer' : i < j => Earlier(Queued(i)', Queued(j)')
        <5> SUFFICES ASSUME NEW i \in DOMAIN buffer', NEW j \in DOMAIN buffer', i < j
                     PROVE  Earlier(Queued(i)', Queued(j)')
          OBVIOUS
        <5>1. i \in DOMAIN buffer
          BY <3>2
        <5>2. CASE j \in DOMAIN buffer
          BY <3>4, <5>1, <5>2 DEF UplinkInv, OrderInv
        <5>3. CASE j = last
          BY <2>4, <3>4, <5>1, <5>3
        <5> QED BY <3>3, <5>2, <5>3
      <4> QED BY <4>1, <4>2, <4>3, <4>4 DEF OrderInv, Earlier
    <3>9. EndInv'
      BY <3>1 DEF EndInv, Contains
    <3> QED BY <3>5, <3>6, <3>8, <3>9 DEF UplinkInv
  <2> QED BY <2>7, <2>8
<1> QED BY <1>4, <1>5

\* The first text leaves the queue, and is aggregated when it parses.
LEMMA RemoveStep ==
  ASSUME UplinkInv, RemoveMessage
  PROVE  UplinkInv'
PROOF
<1> DEFINE text == buffer[1].message
           model == <<text[1][1], text[1][2]>>
           queue == [message : Seq(Fragment) \ {<<>>}, ip_id : Node]
<1>1. /\ handling /\ buffer \in Seq(queue) /\ buffer # <<>> /\ buffer' = Tail(buffer)
      /\ handling' = (buffer' # <<>>) /\ NextMessage = buffer[1]
      /\ UNCHANGED <<sent, session, arrived, received_json>>
  BY DEF RemoveMessage, UplinkInv, ShapeInv, NextMessage
<1>2. /\ 1 \in DOMAIN buffer /\ Len(buffer) \in Nat \ {0} /\ DOMAIN buffer = 1..Len(buffer)
      /\ buffer' \in Seq(queue) /\ DOMAIN buffer' = 1..(Len(buffer) - 1)
      /\ \A i \in DOMAIN buffer' : i + 1 \in DOMAIN buffer /\ buffer'[i] = buffer[i + 1]
  <2> HIDE DEF queue
  <2> QED BY <1>1
<1>3. text \in Seq(Fragment) \ {<<>>} /\ Queued(1) = ModelsIn(text) /\ buffer[1] \in queue
  <2>1. buffer[1] \in queue
    <3> HIDE DEF queue
    <3> QED BY <1>1, <1>2
  <2> QED BY <2>1 DEF Queued
<1>4. \A i \in DOMAIN buffer' : Queued(i)' = Queued(i + 1)
  BY <1>2 DEF Queued, ModelsIn
<1>5. /\ Current' = Current /\ Sent' = Sent /\ ModelsIn(received_json)' = ModelsIn(received_json)
  BY <1>1 DEF Current, Sent, ModelsIn
<1>6. EndInv'
  BY <1>1 DEF UplinkInv, EndInv
<1>7. /\ \A i \in DOMAIN buffer' :
           /\ Earlier(Queued(i)', ModelsIn(received_json)') /\ Earlier(Queued(i)', Current')
           /\ Queued(i)' \subseteq Sent'
           /\ Earlier(Taken, Queued(i)') /\ Earlier(Queued(1), Queued(i)')
      /\ \A i, j \in DOMAIN buffer' : i < j => Earlier(Queued(i)', Queued(j)')
  BY <1>2, <1>4, <1>5, SMTT(30) DEF UplinkInv, OrderInv
<1>8. CASE Parses(text)
  <2> DEFINE entry == <<buffer[1].ip_id, text[1][1], text[1][2]>>
             last == Len(delivered) + 1
  <2>1. delivered' = Append(delivered, entry)
    BY <1>1, <1>8 DEF RemoveMessage
  <2>2. /\ ModelsIn(text) = {model} /\ buffer[1].ip_id = text[1][1]
        /\ text[1][1] \in Node /\ text[1][2] \in Nat
    BY <1>2, <1>3, <1>8, OneModel DEF UplinkInv, CreditInv
  <2>3. /\ entry \in Node \X Node \X Nat /\ entry[1] = entry[2] /\ <<entry[2], entry[3]>> = model
        /\ delivered \in Seq(Node \X Node \X Nat)
    BY <1>3, <2>2 DEF UplinkInv, ShapeInv
  <2> HIDE DEF entry, text, model
  <2>4. /\ delivered' \in Seq(Node \X Node \X Nat) /\ Len(delivered) \in Nat
        /\ DOMAIN delivered = 1..Len(delivered) /\ DOMAIN delivered' = 1..last
        /\ \A i \in DOMAIN delivered : delivered'[i] = delivered[i]
        /\ delivered'[last] = entry
    BY <2>1, <2>3
  <2>5. \A i \in DOMAIN delivered' : i \in DOMAIN delivered \/ i = last
    BY <2>4
  <2>6. Taken' = Taken \cup {model}
    <3>1. Taken' \subseteq Taken \cup {model}
      BY <2>3, <2>4, <2>5 DEF Taken
    <3>2. Taken \subseteq Taken' /\ model \in Taken'
      <4>1. last \in DOMAIN delivered' /\ DOMAIN delivered \subseteq DOMAIN delivered'
        BY <2>4
      <4> QED BY <2>3, <2>4, <4>1 DEF Taken
    <3> QED BY <3>1, <3>2
  <2>7. ShapeInv'
    BY <1>1, <1>2, <2>4 DEF UplinkInv, ShapeInv
  <2>8. CreditInv'
    <3>1. CreditedToSender'
      <4>1. \A i \in DOMAIN delivered : delivered[i][1] = delivered[i][2]
        BY Zenon DEF UplinkInv, CreditInv, CreditedToSender
      <4>2. \A i \in DOMAIN delivered' : delivered'[i][1] = delivered'[i][2]
        BY <2>3, <2>4, <2>5, <4>1
      <4> QED BY <4>2, Zenon DEF CreditedToSender
    <3>2. \A i \in DOMAIN buffer' : Last(buffer'[i].message)[1] = buffer'[i].ip_id
      <4>1. \A i \in DOMAIN buffer : Last(buffer[i].message)[1] = buffer[i].ip_id
        BY Zenon DEF UplinkInv, CreditInv
      <4> QED BY <1>2, <4>1
    <3> QED BY <3>1, <3>2, Zenon DEF CreditInv
  <2>9. Earlier(Taken, {model}) /\ Earlier({model}, ModelsIn(received_json)) /\ Earlier({model}, Current)
        /\ model \in Sent /\ \A i \in DOMAIN buffer' : Earlier({model}, Queued(i)')
    <3>1. 1 \in DOMAIN buffer /\ Queued(1) = {model}
      BY <1>2, <1>3, <2>2
    <3>2. /\ Earlier(Taken, Queued(1)) /\ Earlier(Queued(1), ModelsIn(received_json))
          /\ Earlier(Queued(1), Current) /\ Queued(1) \subseteq Sent
      BY <3>1, Zenon DEF UplinkInv, OrderInv
    <3>3. \A i \in DOMAIN buffer' : Earlier(Queued(1), Queued(i)')
      BY <1>7, Zenon
    <3> HIDE DEF queue, last
    <3> QED BY <3>1, <3>2, <3>3
  <2>10. DeliveredOnceInOrder'
    <3> SUFFICES ASSUME NEW i \in DOMAIN delivered', NEW j \in DOMAIN delivered', i < j,
                        delivered'[i][2] = delivered'[j][2]
                 PROVE  delivered'[i][3] < delivered'[j][3]
      BY DEF DeliveredOnceInOrder
    <3>1. i \in DOMAIN delivered
      BY <2>4
    <3>2. CASE j \in DOMAIN delivered
      BY <2>4, <3>1, <3>2 DEF UplinkInv, OrderInv, DeliveredOnceInOrder
    <3>3. CASE j = last
      <4>1. <<delivered[i][2], delivered[i][3]>> \in Taken
        BY <3>1 DEF Taken
      <4>2. delivered[i][2] = entry[2] => delivered[i][3] < entry[3]
        BY <2>3, <2>9, <4>1 DEF Earlier
      <4> QED BY <2>4, <3>1, <3>3, <4>2
    <3> QED BY <2>5, <3>2, <3>3
  <2>11. OrderInv'
    <3>1. /\ Earlier(Taken, ModelsIn(received_json))' /\ Earlier(Taken, Current)'
          /\ (Taken \subseteq Sent)' /\ (ModelsIn(received_json) \subseteq Sent)'
          /\ \A i \in DOMAIN buffer' : Earlier(Taken', Queued(i)')
      BY <1>5, <1>7, <2>6, <2>9 DEF UplinkInv, OrderInv, Earlier
    <3> QED BY <1>7, <2>10, <3>1 DEF OrderInv, Earlier
  <2> QED BY <1>6, <2>7, <2>8, <2>11 DEF UplinkInv
<1>9. CASE ~Parses(text)
  <2>1. UNCHANGED delivered
    BY <1>1, <1>9 DEF RemoveMessage
  <2>2. ShapeInv' /\ CreditInv'
    BY <1>1, <1>2, <2>1 DEF UplinkInv, ShapeInv, CreditInv, CreditedToSender
  <2>3. Taken' = Taken
    BY <2>1 DEF Taken
  <2>4. OrderInv'
    BY <1>5, <1>7, <2>1, <2>3 DEF UplinkInv, OrderInv, DeliveredOnceInOrder, Earlier
  <2> QED BY <1>6, <2>2, <2>4 DEF UplinkInv
<1> QED BY <1>8, <1>9

LEMMA UplinkInductive == UplinkInv /\ [UplinkStep]_uplinkVars => UplinkInv'
PROOF
<1> SUFFICES ASSUME UplinkInv, [UplinkStep]_uplinkVars PROVE UplinkInv'
  OBVIOUS
<1>1. ASSUME NEW n \in Node, OpenSession(n) PROVE UplinkInv'
  BY <1>1, SessionStep DEF OpenSession
<1>2. ASSUME NEW n \in Node, ReceiveFragment(n) PROVE UplinkInv'
  BY <1>2, FragmentStep
<1>3. ASSUME NEW n \in Node, SessionDies(n) PROVE UplinkInv'
  BY <1>3, SessionStep DEF SessionDies
<1>4. CASE HandleMessage
  BY <1>4, SessionStep DEF HandleMessage
<1>5. CASE RemoveMessage
  BY <1>5, RemoveStep
<1>6. CASE UNCHANGED uplinkVars
  BY <1>6, SessionStep DEF uplinkVars, UplinkInv, ShapeInv
<1> QED BY <1>1, <1>2, <1>3, <1>4, <1>5, <1>6 DEF UplinkStep

LEMMA UplinkIsTyped == UplinkInv => UplinkTypeOK
PROOF
<1> SUFFICES ASSUME UplinkInv PROVE UplinkTypeOK
  OBVIOUS
<1>1. \A i \in DOMAIN buffer : buffer[i] \in [message : Seq(Fragment) \ {<<>>}, ip_id : Node]
  <2> DEFINE queue == [message : Seq(Fragment) \ {<<>>}, ip_id : Node]
  <2>1. buffer \in Seq(queue)
    BY DEF UplinkInv, ShapeInv
  <2> HIDE DEF queue
  <2>2. \A i \in DOMAIN buffer : buffer[i] \in queue
    BY <2>1
  <2> QED BY <2>2 DEF queue
<1>2. \A i \in DOMAIN buffer : DOMAIN buffer[i] = {"message", "ip_id"} /\ buffer[i].ip_id \in Node
  BY <1>1
<1> QED BY <1>2 DEF UplinkInv, ShapeInv, UplinkTypeOK

\* The types, and the room of received_json, which no fragment exceeds.
THEOREM UplinkTypeCorrect == ModelUplinkSpec => []UplinkTypeOK
PROOF BY UplinkIsTyped, UplinkInitial, UplinkInductive, PTL DEF ModelUplinkSpec

\* A model is aggregated for the board that sent it, and the models of a board in the
\* order it sent them, none twice.
THEOREM ModelsAreDeliveredAsSent == ModelUplinkSpec => []DeliveredAsSent
PROOF
<1>1. UplinkInv => DeliveredAsSent
  BY DEF UplinkInv, CreditInv, OrderInv, DeliveredAsSent
<1> QED BY <1>1, UplinkInitial, UplinkInductive, PTL DEF ModelUplinkSpec

-----------------------------------------------------------------------------
(***************************************************************************)
(* The sessions, the shared text and the queue implement LossyUplink: what *)
(* a board has sent is delivered once, for that board, or lost.            *)
(***************************************************************************)

\* A model that is lost is in no queued text, is not being sent, and the text that
\* has parts of it will never have its end.
LostInv ==
  /\ lost \subseteq Sent /\ lost \cap Current = {}
  /\ \A i \in DOMAIN buffer : lost \cap Queued(i) = {}
  /\ \A x \in lost : ~Contains(received_json, <<x[1], x[2], Fragments>>)

LossInv == UplinkInv /\ LostInv


\* Models of which one follows the other are not the same.
LEMMA BelowIsDisjoint ==
  ASSUME NEW S, S \subseteq Node \X Nat, NEW T, Earlier(S, T)
  PROVE  S \cap T = {}
BY DEF Earlier

LEMMA LossInitial == InitUplink => LossInv
PROOF
<1> SUFFICES ASSUME InitUplink PROVE LossInv
  OBVIOUS
<1>1. lost = {}
  BY DEF InitUplink
<1> QED BY <1>1, UplinkInitial DEF LossInv, LostInv

LEMMA LossOpen ==
  ASSUME LossInv, NEW n \in Node, OpenSession(n)
  PROVE  LostInv'
PROOF
<1>1. /\ sent' = [sent EXCEPT ![n] = @ + 1] /\ session' = session \cup {n} /\ n \notin session
      /\ UNCHANGED <<received_json, buffer, lost>>
      /\ sent \in [Node -> 0..MaxModels] /\ session \subseteq Node
  BY DEF OpenSession, LossInv, UplinkInv, ShapeInv
<1>2. /\ sent'[n] = sent[n] + 1 /\ sent[n] \in Nat
      /\ \A m \in Node \ {n} : sent'[m] = sent[m]
  BY <1>1
<1>3. Sent \subseteq Sent' /\ Current' \subseteq Current \cup {<<n, sent[n] + 1>>}
  BY <1>1, <1>2 DEF Sent, Current
<1>4. <<n, sent[n] + 1>> \notin Sent
  BY <1>2 DEF Sent
<1>5. \A i : Queued(i)' = Queued(i)
  BY <1>1 DEF Queued, ModelsIn
<1> QED BY <1>1, <1>3, <1>4, <1>5 DEF LossInv, LostInv

\* A session ends before the last fragment of its model.
LEMMA LossOfCurrent ==
  ASSUME LossInv, NEW n \in session, session' = session \ {n}, lost' = lost \cup {<<n, sent[n]>>},
         UNCHANGED <<sent, received_json, buffer>>
  PROVE  LostInv'
PROOF
<1>1. n \in Node /\ sent[n] \in Nat /\ sent[n] > 0
  BY DEF LossInv, UplinkInv, ShapeInv
<1>2. Sent' = Sent /\ <<n, sent[n]>> \in Current /\ <<n, sent[n]>> \in Sent
  BY <1>1 DEF Sent, Current
<1>3. Current' = Current \ {<<n, sent[n]>>} /\ \A i : Queued(i)' = Queued(i)
  BY DEF Current, Queued, ModelsIn
<1>4. \A i \in DOMAIN buffer : <<n, sent[n]>> \notin Queued(i)
  BY <1>1, <1>2 DEF LossInv, UplinkInv, OrderInv, Earlier
<1>5. ~Contains(received_json, <<n, sent[n], Fragments>>)
  BY DEF LossInv, UplinkInv, EndInv
<1> QED BY <1>2, <1>3, <1>4, <1>5 DEF LossInv, LostInv

\* No fragment of an open session ends a model that is lost.
LEMMA NoLostEnd ==
  ASSUME LossInv, NEW n \in session
  PROVE  LET text == Append(received_json, <<n, sent[n], arrived[n] + 1>>)
         IN  \A x \in lost : ~Contains(text, <<x[1], x[2], Fragments>>)
PROOF
<1> DEFINE f == <<n, sent[n], arrived[n] + 1>>
           text == Append(received_json, f)
<1>1. n \in Node /\ sent[n] \in Nat \ {0} /\ received_json \in Seq(Fragment)
  BY DEF LossInv, UplinkInv, ShapeInv
<1>2. f[1] = n /\ f[2] = sent[n] /\ <<n, sent[n]>> \in Current
  BY <1>1 DEF Current
<1> SUFFICES ASSUME NEW x \in lost, NEW i \in 1..Len(text), text[i] = <<x[1], x[2], Fragments>>
             PROVE  FALSE
  BY DEF Contains
<1>3. Len(text) = Len(received_json) + 1 /\ Len(received_json) \in Nat
  BY <1>1
<1>4. CASE i \in 1..Len(received_json)
  <2>1. received_json[i] = text[i]
    BY <1>1, <1>4
  <2> QED BY <1>4, <2>1 DEF LossInv, LostInv, Contains
<1>5. CASE i = Len(received_json) + 1
  <2>1. f = <<x[1], x[2], Fragments>>
    BY <1>1, <1>5
  <2>2. x \in Node \X Nat /\ x[1] = n /\ x[2] = sent[n]
    BY <2>1 DEF LossInv, LostInv, Sent
  <2>3. x = <<n, sent[n]>>
    BY <2>2
  <2> QED BY <1>2, <2>3 DEF LossInv, LostInv
<1> QED BY <1>3, <1>4, <1>5

LEMMA LossFragment ==
  ASSUME LossInv, NEW n \in Node, ReceiveFragment(n)
  PROVE  LostInv'
PROOF
<1> DEFINE f == <<n, sent[n], arrived[n] + 1>>
           text == Append(received_json, f)
<1>1. /\ n \in session /\ UNCHANGED sent
      /\ sent[n] \in Nat \ {0} /\ arrived[n] + 1 \in 1..Fragments /\ received_json \in Seq(Fragment)
  BY DEF ReceiveFragment, LossInv, UplinkInv, ShapeInv
<1>2. f \in Fragment /\ f[1] = n /\ f[2] = sent[n] /\ f[3] = arrived[n] + 1
  BY <1>1 DEF Fragment
<1>3. Sent' = Sent /\ <<n, sent[n]>> \in Current /\ <<n, sent[n]>> \in Sent
  BY <1>1 DEF Sent, Current
<1>4. CASE IsTooBig(received_json)
  <2>1. /\ session' = session \ {n} /\ lost' = lost \cup {<<n, sent[n]>>}
        /\ UNCHANGED <<received_json, buffer>>
    BY <1>4 DEF ReceiveFragment
  <2> QED BY <1>1, <2>1, LossOfCurrent
<1>5. CASE ~IsTooBig(received_json)
  <2>1. /\ session' \subseteq session /\ UNCHANGED lost
        /\ IF IsCompleteJson(text)
           THEN /\ buffer' = Append(buffer, [message |-> text, ip_id |-> n])
                /\ received_json' = <<>>
           ELSE received_json' = text /\ UNCHANGED buffer
    BY <1>5 DEF ReceiveFragment, InsertMessage, QueueEntry
  <2>2. lost' \subseteq Sent' /\ lost' \cap Current' = {}
    BY <1>1, <1>3, <2>1 DEF LossInv, LostInv, Current
  <2>3. \A x \in lost : ~Contains(text, <<x[1], x[2], Fragments>>)
    BY <1>1, NoLostEnd
  <2> HIDE DEF text
  <2>4. CASE ~IsCompleteJson(text)
    <3>1. received_json' = text /\ UNCHANGED <<buffer, lost>>
      BY <2>1, <2>4
    <3>2. \A i : Queued(i)' = Queued(i)
      BY <3>1 DEF Queued, ModelsIn
    <3> QED BY <2>2, <2>3, <3>1, <3>2 DEF LossInv, LostInv
  <2>5. CASE IsCompleteJson(text)
    <3> DEFINE entry == [message |-> text, ip_id |-> n]
    <3> PICK last : last = Len(buffer) + 1
      OBVIOUS
    <3>1. /\ received_json' = <<>> /\ buffer' = Append(buffer, entry) /\ entry.message = text
          /\ buffer \in Seq([message : Seq(Fragment) \ {<<>>}, ip_id : Node])
      BY <2>1, <2>5 DEF LossInv, UplinkInv, ShapeInv
    <3> HIDE DEF entry
    <3>2. /\ \A i \in DOMAIN buffer' : i \in DOMAIN buffer \/ i = last
          /\ \A i \in DOMAIN buffer : buffer'[i] = buffer[i]
          /\ buffer'[last] = entry
      BY <3>1
    <3>3. Queued(last)' = ModelsIn(text) /\ \A i \in DOMAIN buffer : Queued(i)' = Queued(i)
      BY <3>1, <3>2 DEF Queued, ModelsIn
    <3>4. lost \cap ModelsIn(text) = {}
      BY <2>3, <2>5 DEF IsCompleteJson
    <3>5. \A i \in DOMAIN buffer' : lost' \cap Queued(i)' = {}
      BY <2>1, <3>2, <3>3, <3>4 DEF LossInv, LostInv
    <3>6. \A x \in lost' : ~Contains(received_json', <<x[1], x[2], Fragments>>)
      BY <3>1 DEF Contains
    <3> QED BY <2>2, <3>5, <3>6 DEF LostInv
  <2> QED BY <2>4, <2>5
<1> QED BY <1>4, <1>5

LEMMA LossRemove ==
  ASSUME LossInv, RemoveMessage
  PROVE  LostInv'
PROOF
<1> DEFINE text == buffer[1].message
           queue == [message : Seq(Fragment) \ {<<>>}, ip_id : Node]
<1>1. /\ buffer \in Seq(queue) /\ buffer # <<>> /\ buffer' = Tail(buffer) /\ NextMessage = buffer[1]
      /\ UNCHANGED <<sent, session, received_json>>
  BY DEF RemoveMessage, LossInv, UplinkInv, ShapeInv, NextMessage
<1>2. /\ 1 \in DOMAIN buffer /\ buffer[1] \in queue
      /\ \A i \in DOMAIN buffer' : i + 1 \in DOMAIN buffer /\ 1 < i + 1 /\ buffer'[i] = buffer[i + 1]
  <2> HIDE DEF queue
  <2> QED BY <1>1
<1>3. /\ Queued(1) = ModelsIn(text) /\ Queued(1) \subseteq Node \X Nat
      /\ \A i \in DOMAIN buffer' : Queued(i)' = Queued(i + 1)
  <2>1. text \in Seq(Fragment)
    BY <1>2
  <2> QED BY <1>2, <2>1, ModelsInText, ZenonT(30) DEF Queued, ModelsIn
<1>4. Sent' = Sent /\ Current' = Current
  BY <1>1 DEF Sent, Current
<1>5. \A i \in DOMAIN buffer' : lost \cap Queued(i)' = {}
  BY <1>2, <1>3 DEF LossInv, LostInv
<1>6. CASE UNCHANGED lost
  BY <1>1, <1>4, <1>5, <1>6 DEF LossInv, LostInv
<1>7. CASE lost' = lost \cup Queued(1)
  <2>1. /\ Queued(1) \subseteq Sent /\ Queued(1) \cap Current = {}
        /\ Queued(1) \cap ModelsIn(received_json) = {}
    BY <1>2, <1>3, BelowIsDisjoint DEF LossInv, UplinkInv, OrderInv
  <2>2. \A i \in DOMAIN buffer' : Queued(1) \cap Queued(i)' = {}
    BY <1>2, <1>3, BelowIsDisjoint DEF LossInv, UplinkInv, OrderInv
  <2>3. ASSUME NEW x \in Queued(1) PROVE ~Contains(received_json, <<x[1], x[2], Fragments>>)
    <3>1. Contains(received_json, <<x[1], x[2], Fragments>>) => <<x[1], x[2]>> \in ModelsIn(received_json)
      BY DEF Contains, ModelsIn
    <3>2. x = <<x[1], x[2]>>
      BY <1>3, <2>3
    <3> QED BY <2>1, <2>3, <3>1, <3>2
  <2> QED BY <1>1, <1>4, <1>5, <1>7, <2>1, <2>2, <2>3 DEF LossInv, LostInv
<1>8. lost' = lost \cup Queued(1) \/ UNCHANGED lost
  BY <1>1, <1>3 DEF RemoveMessage
<1> QED BY <1>6, <1>7, <1>8

LEMMA LossStep == LossInv /\ [UplinkStep]_uplinkVars => LossInv'
PROOF
<1> SUFFICES ASSUME LossInv, [UplinkStep]_uplinkVars PROVE LostInv'
  BY UplinkInductive DEF LossInv
<1>1. ASSUME NEW n \in Node, OpenSession(n) PROVE LostInv'
  BY <1>1, LossOpen
<1>2. ASSUME NEW n \in Node, ReceiveFragment(n) PROVE LostInv'
  BY <1>2, LossFragment
<1>3. ASSUME NEW n \in Node, SessionDies(n) PROVE LostInv'
  BY <1>3, LossOfCurrent DEF SessionDies
<1>4. CASE RemoveMessage
  BY <1>4, LossRemove
<1>5. CASE HandleMessage \/ UNCHANGED uplinkVars
  <2>1. UNCHANGED <<sent, session, received_json, buffer, lost>>
    BY <1>5 DEF HandleMessage, uplinkVars
  <2>2. Sent' = Sent /\ Current' = Current /\ \A i : Queued(i)' = Queued(i)
    BY <2>1 DEF Sent, Current, Queued, ModelsIn
  <2> QED BY <2>1, <2>2 DEF LossInv, LostInv
<1> QED BY <1>1, <1>2, <1>3, <1>4, <1>5 DEF UplinkStep

-----------------------------------------------------------------------------
\* What a board has under way, in terms of the sets of the invariant.
Remaining(n) == {k \in 1..sent[n] : <<n, k>> \notin lost \cup Taken}

LEMMA UnsettledIsLeft == LossInv => \A n \in Node : Unsettled(n) = Remaining(n)
PROOF
<1> SUFFICES ASSUME LossInv, NEW n \in Node PROVE Unsettled(n) = Remaining(n)
  OBVIOUS
<1>1. /\ delivered \in Seq(Node \X Node \X Nat)
      /\ \A i \in DOMAIN delivered : delivered[i][1] = delivered[i][2]
  BY DEF LossInv, UplinkInv, ShapeInv, CreditInv, CreditedToSender
<1>2. \A i \in DOMAIN delivered :
        /\ i \in 1..Len(delivered)
        /\ delivered[i] = <<delivered[i][1], delivered[i][2], delivered[i][3]>>
  <2> SUFFICES ASSUME NEW i \in DOMAIN delivered
               PROVE  /\ i \in 1..Len(delivered)
                      /\ delivered[i] = <<delivered[i][1], delivered[i][2], delivered[i][3]>>
    OBVIOUS
  <2>1. delivered[i] \in Node \X Node \X Nat /\ i \in 1..Len(delivered)
    BY <1>1
  <2> QED BY <2>1
<1>3. ASSUME NEW k \in 1..sent[n]
      PROVE  Contains(delivered, <<n, n, k>>) <=> <<n, k>> \in Taken
  <2>1. ASSUME NEW i \in 1..Len(delivered), delivered[i] = <<n, n, k>> PROVE <<n, k>> \in Taken
    BY <1>1, <2>1 DEF Taken
  <2>2. ASSUME NEW i \in DOMAIN delivered, <<delivered[i][2], delivered[i][3]>> = <<n, k>>
        PROVE  Contains(delivered, <<n, n, k>>)
    BY <1>1, <1>2, <2>2 DEF Contains
  <2> QED BY <2>1, <2>2 DEF Contains, Taken
<1> QED BY <1>3 DEF Unsettled, Remaining, IsSettled

LEMMA UnsettledIsLeftNext ==
  ASSUME LossInv'
  PROVE  \A n \in Node : Unsettled(n)' = Remaining(n)'
PROOF
<1>1. (LossInv => \A n \in Node : Unsettled(n) = Remaining(n))'
  BY UnsettledIsLeft, PTL
<1> QED BY <1>1

LEMMA OneLess ==
  ASSUME NEW S, NEW x \in S, IsFiniteSet(S)
  PROVE  Cardinality(S \ {x}) = Cardinality(S) - 1
BY FS_RemoveElement

LEMMA UnderWayIsFinite ==
  ASSUME LossInv, NEW n \in Node
  PROVE  IsFiniteSet(Remaining(n)) /\ Cardinality(Remaining(n)) \in Nat
PROOF
<1>1. sent[n] \in Nat
  BY DEF LossInv, UplinkInv, ShapeInv
<1>2. IsFiniteSet(1..sent[n])
  BY <1>1, FS_Interval
<1>3. IsFiniteSet(Remaining(n))
  BY <1>2, FS_Subset DEF Remaining
<1> QED BY <1>3, FS_CardinalityType

\* Of that, what a part without an end does not hold up.
Due(n) == {k \in Remaining(n) : Jammed => IsQueued(<<n, k>>)}

LEMMA PendingIsLeft ==
  ASSUME LossInv, LossInv'
  PROVE  \A n \in Node : Pending(n) = Due(n) /\ Pending(n)' = Due(n)'
PROOF
<1>1. \A n \in Node : Unsettled(n) = Remaining(n) /\ Unsettled(n)' = Remaining(n)'
  BY UnsettledIsLeft, UnsettledIsLeftNext
<1> QED BY <1>1 DEF Pending, Due

LEMMA LeftIsFinite ==
  ASSUME LossInv, NEW n \in Node
  PROVE  IsFiniteSet(Due(n)) /\ Cardinality(Due(n)) \in Nat
PROOF
<1>1. Due(n) \subseteq Remaining(n)
  BY DEF Due
<1> QED BY <1>1, UnderWayIsFinite, FS_Subset, FS_CardinalityType

\* Boards may lose what is under way, several models together, and jam the uplink.
LEMMA LosesSome ==
  ASSUME LossInv, LossInv', UNCHANGED delivered, Jammed => Jammed',
         \A n \in Node : Due(n)' \subseteq Due(n)
  PROVE  Uplink!Lose
PROOF
<1>1. \A n \in Node : Pending(n) = Due(n) /\ Pending(n)' = Due(n)'
  BY PendingIsLeft
<1>2. \A n \in Node : Cardinality(Due(n)') \in Nat /\ Cardinality(Due(n)') <= Cardinality(Due(n))
  BY LeftIsFinite, FS_Subset, FS_CardinalityType
<1>3. Jammed' \in {Jammed, TRUE}
  BY DEF Jammed
<1> QED BY <1>1, <1>2, <1>3 DEF Uplink!Lose

\* A part without an end stays, and nothing more is queued behind it.
LEMMA JamStays ==
  ASSUME LossInv, NEW n \in Node, ReceiveFragment(n) \/ SessionDies(n), Jammed
  PROVE  Jammed' /\ UNCHANGED buffer
PROOF
<1> PICK m \in ModelsIn(received_json) : m \in lost
  BY DEF Jammed
<1>1. lost \subseteq lost'
  BY DEF ReceiveFragment, SessionDies
<1>2. CASE UNCHANGED <<received_json, buffer>>
  BY <1>1, <1>2 DEF Jammed, ModelsIn
<1>3. CASE ReceiveFragment(n) /\ ~IsTooBig(received_json)
  <2> DEFINE text == Append(received_json, <<n, sent[n], arrived[n] + 1>>)
  <2>1. n \in session /\ received_json \in Seq(Fragment)
    BY <1>3 DEF ReceiveFragment, LossInv, UplinkInv, ShapeInv
  <2>2. ~Contains(text, <<m[1], m[2], Fragments>>)
    BY <2>1, NoLostEnd
  <2>3. m \in ModelsIn(text)
    <3> PICK i \in DOMAIN received_json : m = <<received_json[i][1], received_json[i][2]>>
      BY DEF ModelsIn
    <3>1. i \in DOMAIN text /\ text[i] = received_json[i]
      BY <2>1
    <3> QED BY <3>1 DEF ModelsIn
  <2>4. ~IsCompleteJson(text)
    BY <2>2, <2>3 DEF IsCompleteJson
  <2>5. received_json' = text /\ UNCHANGED buffer
    BY <1>3, <2>4 DEF ReceiveFragment
  <2>6. ModelsIn(received_json)' = ModelsIn(text)
    BY <2>5 DEF ModelsIn
  <2> QED BY <1>1, <2>3, <2>5, <2>6 DEF Jammed
<1> QED BY <1>2, <1>3 DEF ReceiveFragment, SessionDies

\* A board sends one more model.  Jammed, it might as well not.
LEMMA OpenSends ==
  ASSUME LossInv, LossInv', NEW n \in Node, OpenSession(n)
  PROVE  Uplink!Send(n) \/ UNCHANGED Uplink!linkVars
PROOF
<1>1. /\ sent' = [sent EXCEPT ![n] = @ + 1] /\ UNCHANGED <<delivered, lost>>
      /\ sent \in [Node -> 0..MaxModels]
  BY DEF OpenSession, LossInv, UplinkInv, ShapeInv
<1>2. sent'[n] = sent[n] + 1 /\ sent[n] \in Nat /\ \A m \in Node \ {n} : sent'[m] = sent[m]
  BY <1>1
<1>3. Taken' = Taken
  BY <1>1 DEF Taken
<1>4. <<n, sent[n] + 1>> \notin lost \cup Taken
  <2>1. <<n, sent[n] + 1>> \notin Sent
    BY <1>2 DEF Sent
  <2> QED BY <2>1 DEF LossInv, LostInv, UplinkInv, OrderInv
<1>5. Remaining(n)' = Remaining(n) \cup {sent[n] + 1} /\ sent[n] + 1 \notin Remaining(n)
  BY <1>1, <1>2, <1>3, <1>4 DEF Remaining
<1>6. \A m \in Node \ {n} : Remaining(m)' = Remaining(m)
  BY <1>1, <1>2, <1>3 DEF Remaining
<1>7. /\ Jammed' = Jammed
      /\ \A m \in Node, k \in Nat : IsQueued(<<m, k>>)' = IsQueued(<<m, k>>)
      /\ ~IsQueued(<<n, sent[n] + 1>>)
  <2>1. UNCHANGED <<received_json, buffer, lost>>
    BY DEF OpenSession
  <2>2. <<n, sent[n] + 1>> \notin Sent
    BY <1>2 DEF Sent
  <2>3. ~IsQueued(<<n, sent[n] + 1>>)
    BY <2>2 DEF LossInv, UplinkInv, OrderInv, IsQueued, Queued
  <2> QED BY <2>1, <2>3 DEF Jammed, IsQueued, ModelsIn
<1>8. \A m \in Node : Pending(m) = Due(m) /\ Pending(m)' = Due(m)'
  BY PendingIsLeft
<1>9. \A m \in Node : Remaining(m) \subseteq Nat
  BY <1>1 DEF Remaining
<1>10. UNCHANGED [i \in DOMAIN delivered |-> delivered[i][1]]
  BY <1>1
<1>11. \A m \in Node \ {n} : Due(m)' = Due(m)
  BY <1>6, <1>7, <1>9 DEF Due
<1>12. CASE ~Jammed
  <2>1. Due(n) = Remaining(n) /\ Due(n)' = Remaining(n)'
    BY <1>7, <1>12 DEF Due
  <2>2. IsFiniteSet(Remaining(n))
    BY UnderWayIsFinite
  <2>3. Cardinality(Remaining(n)') = Cardinality(Remaining(n)) + 1
    BY <1>5, <2>2, FS_AddElement
  <2>4. Cardinality(Pending(n)') = Cardinality(Pending(n)) + 1
    <3>1. Pending(n) = Remaining(n) /\ Pending(n)' = Remaining(n)'
      BY <1>8, <2>1
    <3> QED BY <2>3, <3>1
  <2>5. \A m \in Node \ {n} : Pending(m)' = Pending(m)
    BY <1>8, <1>11
  <2> DEFINE inflight == [m \in Node |-> Cardinality(Pending(m))]
  <2>6. inflight' = [inflight EXCEPT ![n] = @ + 1]
    BY <2>4, <2>5
  <2> HIDE DEF inflight
  <2> QED BY <1>7, <1>10, <1>12, <2>6 DEF Uplink!Send, inflight
<1>13. CASE Jammed
  <2>1. Due(n)' = Due(n)
    <3>1. /\ Due(n) = {k \in Remaining(n) : IsQueued(<<n, k>>)}
          /\ Due(n)' = {k \in Remaining(n)' : IsQueued(<<n, k>>)'}
      BY <1>7, <1>13 DEF Due
    <3>2. ASSUME NEW k \in Remaining(n)', IsQueued(<<n, k>>)' PROVE k \in Remaining(n) /\ IsQueued(<<n, k>>)
      <4>1. k \in Nat
        BY <1>2, <1>5, <1>9
      <4>2. IsQueued(<<n, k>>)
        BY <1>7, <3>2, <4>1
      <4> QED BY <1>5, <1>7, <3>2, <4>2
    <3>3. ASSUME NEW k \in Remaining(n), IsQueued(<<n, k>>) PROVE k \in Remaining(n)' /\ IsQueued(<<n, k>>)'
      BY <1>5, <1>7, <1>9, <3>3
    <3> HIDE DEF Due, IsQueued, Remaining
    <3> QED BY <3>1, <3>2, <3>3
  <2>2. \A m \in Node : Pending(m)' = Pending(m)
    BY <1>8, <1>11, <2>1
  <2>3. UNCHANGED [m \in Node |-> Cardinality(Pending(m))]
    BY <2>2
  <2> QED BY <1>7, <1>10, <2>3 DEF Uplink!linkVars
<1> QED BY <1>12, <1>13

\* AggregationModel gets one model that was under way.
LEMMA ParsedDelivers ==
  ASSUME LossInv, LossInv', RemoveMessage, Parses(buffer[1].message)
  PROVE  \E n \in Node : Uplink!Deliver(n)
PROOF
<1> DEFINE text == buffer[1].message
           entry == <<buffer[1].ip_id, text[1][1], text[1][2]>>
           queue == [message : Seq(Fragment) \ {<<>>}, ip_id : Node]
<1>1. /\ buffer \in Seq(queue) /\ buffer # <<>> /\ NextMessage = buffer[1]
      /\ delivered \in Seq(Node \X Node \X Nat)
  BY DEF RemoveMessage, LossInv, UplinkInv, ShapeInv, NextMessage
<1>2. 1 \in DOMAIN buffer /\ buffer[1] \in queue
  <2> HIDE DEF queue
  <2> QED BY <1>1
<1>3. UNCHANGED <<sent, lost>> /\ delivered' = Append(delivered, entry)
  BY <1>1 DEF RemoveMessage
<1>4. /\ Queued(1) = {<<text[1][1], text[1][2]>>} /\ buffer[1].ip_id = text[1][1]
      /\ text[1][1] \in Node /\ text[1][2] \in Nat
  BY <1>2, OneModel DEF LossInv, UplinkInv, CreditInv, Queued
<1> PICK n \in Node, k \in Nat : n = text[1][1] /\ k = text[1][2]
  BY <1>4
<1>5. /\ entry = <<n, n, k>> /\ Queued(1) = {<<n, k>>} /\ delivered' = Append(delivered, <<n, n, k>>)
  BY <1>3, <1>4
<1>6. /\ Len(delivered) \in Nat /\ DOMAIN delivered = 1..Len(delivered)
      /\ Len(delivered') = Len(delivered) + 1 /\ DOMAIN delivered' = 1..(Len(delivered) + 1)
      /\ \A i \in 1..Len(delivered) : delivered'[i] = delivered[i]
      /\ delivered'[Len(delivered) + 1] = <<n, n, k>>
  BY <1>1, <1>5
<1>7. Taken' = Taken \cup {<<n, k>>}
  <2>1. Taken' \subseteq Taken \cup {<<n, k>>}
    <3> SUFFICES ASSUME NEW i \in 1..(Len(delivered) + 1)
                 PROVE  <<delivered'[i][2], delivered'[i][3]>> \in Taken \cup {<<n, k>>}
      BY <1>6 DEF Taken
    <3>1. i \in 1..Len(delivered) \/ i = Len(delivered) + 1
      BY <1>6
    <3> QED BY <1>6, <3>1 DEF Taken
  <2>2. Taken \subseteq Taken' /\ <<n, k>> \in Taken'
    <3>1. Len(delivered) + 1 \in DOMAIN delivered' /\ DOMAIN delivered \subseteq DOMAIN delivered'
      BY <1>6
    <3> QED BY <1>6, <3>1 DEF Taken
  <2> QED BY <2>1, <2>2
<1>8. <<n, k>> \notin lost \cup Taken /\ k \in 1..sent[n]
  <2>1. lost \cap Queued(1) = {} /\ Earlier(Taken, Queued(1)) /\ Queued(1) \subseteq Sent
    BY <1>2 DEF LossInv, LostInv, UplinkInv, OrderInv
  <2> QED BY <1>5, <2>1 DEF Earlier, Sent
<1>9. k \in Remaining(n) /\ Remaining(n)' = Remaining(n) \ {k} /\ \A m \in Node \ {n} : Remaining(m)' = Remaining(m)
  BY <1>3, <1>7, <1>8 DEF Remaining
<1>10. /\ Jammed' = Jammed /\ IsQueued(<<n, k>>)
       /\ \A m \in Node, j \in Nat : <<m, j>> # <<n, k>> => IsQueued(<<m, j>>)' = IsQueued(<<m, j>>)
  <2>1. UNCHANGED received_json /\ buffer' = Tail(buffer)
    BY DEF RemoveMessage
  <2>2. /\ \A i \in DOMAIN buffer' : i + 1 \in DOMAIN buffer /\ buffer'[i] = buffer[i + 1]
        /\ \A i \in DOMAIN buffer : i = 1 \/ (i - 1 \in DOMAIN buffer' /\ buffer'[i - 1] = buffer[i])
    <3> HIDE DEF queue
    <3>1. /\ Len(buffer) \in Nat /\ Len(buffer) > 0 /\ DOMAIN buffer = 1..Len(buffer)
          /\ DOMAIN buffer' = 1..(Len(buffer) - 1)
          /\ \A h \in 1..(Len(buffer) - 1) : buffer'[h] = buffer[h + 1]
      BY <1>1, <2>1
    <3>2. \A i \in 1..Len(buffer) : i = 1 \/ (i - 1 \in 1..(Len(buffer) - 1) /\ (i - 1) + 1 = i)
      BY <3>1
    <3>3. \A i \in 1..(Len(buffer) - 1) : i + 1 \in 1..Len(buffer)
      BY <3>1
    <3> QED BY <3>1, <3>2, <3>3
  <2>3. ModelsIn(buffer[1].message) = {<<n, k>>}
    BY <1>5 DEF Queued
  <2>4. ASSUME NEW m \in Node, NEW j \in Nat, <<m, j>> # <<n, k>>
        PROVE  IsQueued(<<m, j>>)' = IsQueued(<<m, j>>)
    <3>1. ASSUME NEW i \in DOMAIN buffer, <<m, j>> \in ModelsIn(buffer[i].message)
          PROVE  \E h \in DOMAIN buffer' : <<m, j>> \in ModelsIn(buffer'[h].message)
      <4>1. i # 1
        BY <2>3, <2>4, <3>1
      <4>2. i - 1 \in DOMAIN buffer' /\ buffer'[i - 1] = buffer[i]
        BY <2>2, <4>1
      <4> QED BY <3>1, <4>2
    <3>2. ASSUME NEW h \in DOMAIN buffer', <<m, j>> \in ModelsIn(buffer'[h].message)
          PROVE  \E i \in DOMAIN buffer : <<m, j>> \in ModelsIn(buffer[i].message)
      BY <2>2, <3>2
    <3> QED BY <3>1, <3>2 DEF IsQueued, ModelsIn
  <2>5. Jammed' = Jammed
    BY <1>3, <2>1 DEF Jammed, ModelsIn
  <2>6. <<n, k>> \in ModelsIn(buffer[1].message)
    BY <2>3
  <2> QED BY <1>2, <2>4, <2>5, <2>6 DEF IsQueued
<1>11. \A m \in Node : Remaining(m) \subseteq Nat
  <2>1. sent \in [Node -> 0..MaxModels]
    BY DEF LossInv, UplinkInv, ShapeInv
  <2> QED BY <2>1 DEF Remaining
<1>12. k \in Due(n) /\ Due(n)' = Due(n) \ {k} /\ \A m \in Node \ {n} : Due(m)' = Due(m)
  <2>1. k \in Due(n)
    BY <1>9, <1>10 DEF Due
  <2>2. Due(n)' = Due(n) \ {k}
    BY <1>9, <1>10, <1>11 DEF Due
  <2>3. \A m \in Node \ {n} : Due(m)' = Due(m)
    BY <1>9, <1>10, <1>11 DEF Due
  <2> QED BY <2>1, <2>2, <2>3
<1>15. Cardinality(Due(n)') = Cardinality(Due(n)) - 1 /\ Cardinality(Due(n)) > 0
  <2>1. IsFiniteSet(Due(n)) /\ Cardinality(Due(n)) \in Nat
    BY LeftIsFinite
  <2>2. Cardinality(Due(n)) # 0
    BY <1>12, <2>1, FS_EmptySet
  <2>3. Cardinality(Due(n) \ {k}) = Cardinality(Due(n)) - 1
    BY <1>12, <2>1, OneLess
  <2> QED BY <1>12, <2>1, <2>2, <2>3
<1>16. \A m \in Node : Pending(m) = Due(m) /\ Pending(m)' = Due(m)'
  BY PendingIsLeft
<1>13. [i \in DOMAIN delivered' |-> delivered'[i][1]]
         = Append([i \in DOMAIN delivered |-> delivered[i][1]], n)
  <2> DEFINE before == [i \in DOMAIN delivered |-> delivered[i][1]]
             after == [i \in DOMAIN delivered' |-> delivered'[i][1]]
  <2>1. before \in [1..Len(delivered) -> Node]
    <3>1. \A i \in DOMAIN delivered : delivered[i] \in Node \X Node \X Nat
      BY <1>1
    <3> QED BY <1>6, <3>1
  <2>2. before \in Seq(Node) /\ Len(before) = Len(delivered)
    BY <1>6, <2>1, SeqDef
  <2>3. after \in [1..(Len(delivered) + 1) -> Node] /\ after[Len(delivered) + 1] = n
        /\ \A i \in 1..Len(delivered) : after[i] = before[i]
    <3>1. \A i \in 1..Len(delivered) : after[i] = before[i]
      BY <1>6
    <3>2. after[Len(delivered) + 1] = n
      BY <1>6
    <3>3. ASSUME NEW i \in 1..(Len(delivered) + 1) PROVE after[i] \in Node
      <4>1. i \in 1..Len(delivered) \/ i = Len(delivered) + 1
        BY <1>6
      <4> HIDE DEF after, before
      <4> QED BY <2>1, <3>1, <3>2, <4>1
    <3> QED BY <1>6, <3>1, <3>2, <3>3
  <2>4. after \in Seq(Node) /\ Len(after) = Len(delivered) + 1
    <3> HIDE DEF after
    <3>1. Len(delivered) + 1 \in Nat
      BY <1>6
    <3>2. after \in Seq(Node)
      BY <2>3, <3>1, SeqDef
    <3> QED BY <2>3, <3>1, <3>2, LenProperties
  <2> HIDE DEF before, after
  <2>5. /\ Append(before, n) \in Seq(Node) /\ Len(Append(before, n)) = Len(delivered) + 1
        /\ \A i \in 1..(Len(delivered) + 1) : after[i] = Append(before, n)[i]
    BY <1>6, <2>2, <2>3
  <2>6. after = Append(before, n)
    BY <2>4, <2>5, SeqEqual
  <2> QED BY <2>6 DEF before, after
<1>14. Uplink!Deliver(n)
  <2> DEFINE inflight == [m \in Node |-> Cardinality(Pending(m))]
  <2>1. inflight[n] > 0
    BY <1>15, <1>16
  <2>2. inflight' = [inflight EXCEPT ![n] = @ - 1]
    BY <1>12, <1>15, <1>16
  <2> HIDE DEF inflight
  <2> QED BY <1>10, <1>13, <2>1, <2>2 DEF Uplink!Deliver, inflight
<1> QED BY <1>14

LEMMA UplinkStepIsLinkStep ==
  ASSUME LossInv, LossInv', [UplinkStep]_uplinkVars
  PROVE  [Uplink!LinkNext]_Uplink!linkVars
PROOF
<1>1. ASSUME NEW n \in Node, OpenSession(n) PROVE [Uplink!LinkNext]_Uplink!linkVars
  BY <1>1, OpenSends DEF Uplink!LinkNext
<1>2. ASSUME UNCHANGED <<sent, delivered>>, lost \subseteq lost',
             \A n \in Node : Remaining(n)' \subseteq Remaining(n) => Due(n)' \subseteq Due(n),
             Jammed => Jammed'
      PROVE  Uplink!LinkNext
  <2>1. Taken' = Taken
    BY <1>2 DEF Taken
  <2>2. \A n \in Node : Remaining(n)' \subseteq Remaining(n)
    BY <1>2, <2>1 DEF Remaining
  <2> QED BY <1>2, <2>2, LosesSome DEF Uplink!LinkNext
<1>3. ASSUME NEW n \in Node, ReceiveFragment(n) \/ SessionDies(n) PROVE Uplink!LinkNext
  <2>1. UNCHANGED <<sent, delivered>> /\ lost \subseteq lost'
    BY <1>3 DEF ReceiveFragment, SessionDies
  <2>2. Jammed => Jammed' /\ UNCHANGED buffer
    BY <1>3, JamStays
  <2>3. \A m \in Node : Remaining(m)' \subseteq Remaining(m) => Due(m)' \subseteq Due(m)
    BY <2>2 DEF Due, IsQueued, ModelsIn
  <2> QED BY <1>2, <2>1, <2>2, <2>3
<1>4. CASE HandleMessage \/ UNCHANGED uplinkVars
  <2>1. UNCHANGED <<sent, delivered, lost, received_json, buffer>>
    BY <1>4 DEF HandleMessage, uplinkVars
  <2>2. Jammed' = Jammed /\ \A m : IsQueued(m)' = IsQueued(m)
    BY <2>1 DEF Jammed, IsQueued, ModelsIn
  <2>3. \A m \in Node : Remaining(m)' \subseteq Remaining(m) => Due(m)' \subseteq Due(m)
    BY <2>2 DEF Due
  <2> QED BY <1>2, <2>1, <2>2, <2>3
<1>5. CASE RemoveMessage
  <2>1. NextMessage = buffer[1]
    BY DEF NextMessage, LossInv, UplinkInv, ShapeInv
  <2>2. CASE Parses(buffer[1].message)
    BY <1>5, <2>2, ParsedDelivers DEF Uplink!LinkNext
  <2>3. CASE ~Parses(buffer[1].message)
    <3>1. /\ UNCHANGED <<sent, delivered, received_json>> /\ lost \subseteq lost'
          /\ buffer' = Tail(buffer) /\ buffer # <<>>
          /\ buffer \in Seq([message : Seq(Fragment) \ {<<>>}, ip_id : Node])
      BY <1>5, <2>1, <2>3 DEF RemoveMessage, LossInv, UplinkInv, ShapeInv
    <3>2. Jammed => Jammed'
      BY <3>1 DEF Jammed, ModelsIn
    <3>3. \A i \in DOMAIN buffer' : i + 1 \in DOMAIN buffer /\ buffer'[i] = buffer[i + 1]
      <4> DEFINE queue == [message : Seq(Fragment) \ {<<>>}, ip_id : Node]
      <4>1. buffer \in Seq(queue)
        BY <3>1
      <4> HIDE DEF queue
      <4> QED BY <3>1, <4>1
    <3>4. \A m : IsQueued(m)' => IsQueued(m)
      BY <3>3 DEF IsQueued, ModelsIn
    <3>5. \A m \in Node : Remaining(m)' \subseteq Remaining(m) => Due(m)' \subseteq Due(m)
      BY <3>2, <3>4 DEF Due
    <3> QED BY <1>2, <3>1, <3>2, <3>5
  <2> QED BY <2>2, <2>3
<1> QED BY <1>1, <1>3, <1>4, <1>5 DEF UplinkStep

LEMMA LinkInitial == InitUplink => Uplink!LinkInit
PROOF
<1> SUFFICES ASSUME InitUplink PROVE Uplink!LinkInit
  OBVIOUS
<1>1. \A n \in Node : Pending(n) = {}
  BY DEF InitUplink, Unsettled, Pending
<1>2. [n \in Node |-> Cardinality(Pending(n))] = [n \in Node |-> 0]
  BY <1>1, FS_EmptySet
<1>3. [i \in DOMAIN delivered |-> delivered[i][1]] = <<>>
  BY DEF InitUplink
<1>4. Jammed = FALSE
  BY DEF InitUplink, Jammed
<1> QED BY <1>2, <1>3, <1>4 DEF Uplink!LinkInit

\* What FederatedSystem takes for granted of its uplink holds of websocketserver.c.
THEOREM UplinkImplementsLossyUplink == ModelUplinkSpec => ImplementsLossyUplink
PROOF
<1>1. LossInv /\ LossInv' /\ [UplinkStep]_uplinkVars => [Uplink!LinkNext]_Uplink!linkVars
  BY UplinkStepIsLinkStep
<1> QED BY <1>1, LinkInitial, LossInitial, LossStep, PTL
        DEF ModelUplinkSpec, ImplementsLossyUplink, Uplink!LinkSpec


-----------------------------------------------------------------------------
(* The parts of the server side by side. *)

\* What each part keeps.
ServerPartsInv ==
  UplinkInv /\ AvgInv /\ ListsInv /\ NetworksInv /\ ConversionInv /\ CounterInv /\ MetricsInv

\* Of the fairness of a part only its steps matter here.
LEMMA ServerPartSteps == FairServerPartSpec => InitServerPart /\ [][NextServerPart]_serverPartVars
PROOF BY DEF FairServerPartSpec

LEMMA ServerPartsInitial == InitServerPart => ServerPartsInv
PROOF BY UplinkInitial, AvgInitial, ListsInitially, NetworksInitially, ConversionInit, CounterInit,
         MetricsInitial DEF InitServerPart, ServerPartsInv

\* A step is one of the part that was chosen, and none of the others.
LEMMA OnePartSteps ==
  [NextServerPart]_serverPartVars =>
    /\ [UplinkStep]_uplinkVars /\ [AvgNext]_avgVars /\ [NextLists]_listVars
    /\ [ConversionNext]_conversionVars /\ [MetricsNext]_metricsVars
PROOF BY Zenon DEF NextServerPart, StandStill, serverPartVars

LEMMA ServerPartsStep == ServerPartsInv /\ [NextServerPart]_serverPartVars => ServerPartsInv'
PROOF
<1> SUFFICES ASSUME ServerPartsInv, [NextServerPart]_serverPartVars PROVE ServerPartsInv'
  OBVIOUS
<1>1. /\ UplinkInv /\ AvgInv /\ ListsInv /\ NetworksInv
      /\ ConversionInv /\ CounterInv /\ MetricsInv
  BY DEF ServerPartsInv
<1>2. UplinkInv' /\ AvgInv'
  BY <1>1, OnePartSteps, UplinkInductive, AvgStep
<1>3. ListsInv' /\ NetworksInv'
  BY <1>1, OnePartSteps, ListsStep, NetworksStep
<1>4. ConversionInv' /\ CounterInv' /\ MetricsInv'
  BY <1>1, OnePartSteps, ConversionStep, CounterStep, MetricsStep
<1> QED BY <1>2, <1>3, <1>4 DEF ServerPartsInv

\* Whichever part of the server runs, the variables of all of them keep their types: the
\* buffer of the sessions, the sums, the networks in memory, the models on their way to
\* a board and back, and the counts of an evaluation.
THEOREM ServerPartsTypeCorrect == FairServerPartSpec => []ServerPartsTypeOK
PROOF
<1>1. ServerPartsInv => ServerPartsTypeOK
  BY UplinkIsTyped, NetworksAreTyped, MetricsAreTyped
     DEF ServerPartsInv, ServerPartsTypeOK, AvgInv, CounterInv
<1> QED BY <1>1, ServerPartSteps, ServerPartsInitial, ServerPartsStep, PTL

=============================================================================
