------------------------------- MODULE Metrics -------------------------------
(***************************************************************************)
(* The evaluation of the global model: PerformanceMetrics of the server    *)
(* (federatedlearning.c), and the one of the stand-alone trainer           *)
(* (DeepLearning/main.c), which end a short file and name the false        *)
(* answers differently.  A row is what the one output neuron should say    *)
(* and what FeedFoward makes it say; a ratio is a numerator and a          *)
(* denominator, which is 0 for a float that is not a number.               *)
(***************************************************************************)
EXTENDS Integers, Sequences, FiniteSets

CONSTANTS
  Evaluations,   \* sets of rows: datasetevaluation.csv
  PercentualEvaluation,
  Threshold

ASSUME EvaluationsAssumption ==
  \A e \in Evaluations : e # <<>> /\ e \in Seq([label : {0, 1}, output : Int])
ASSUME EvaluationBound == PercentualEvaluation \in Nat /\ Threshold \in Int

VARIABLES
  program,   \* "server" or "trainer"
  file, next,
  row,       \* the row that was read last
  truepositive, falsepositive, truenegative, falsenegative, total,
  counted,   \* rows counted
  printed    \* the ratios, once they are printed

metricsVars == <<program, file, next, row, truepositive, falsepositive, truenegative,
                 falsenegative, total, counted, printed>>

NotPrinted == [accuracy |-> <<0, 0>>]

MetricsInit ==
  /\ program \in {"server", "trainer"} /\ file \in Evaluations
  /\ next = 1 /\ row = file[1] /\ counted = 0 /\ printed = NotPrinted
  /\ truepositive = 0 /\ falsepositive = 0 /\ truenegative = 0 /\ falsenegative = 0 /\ total = 0

-----------------------------------------------------------------------------
\* Slip: both programs go on at the end of the file.
GoesOn == counted < PercentualEvaluation

\* The server does not look at what fgets returns, and counts the last row again.
HasRow == counted < PercentualEvaluation /\ (program = "trainer" => next <= Len(file))

Count(n, happens) == IF happens THEN n + 1 ELSE n

TotalWith(positive) == total + 1

CountRow ==
  /\ printed = NotPrinted /\ HasRow
  /\ LET r == IF next <= Len(file) THEN file[next] ELSE row
         positive == r.label = 1
         hit == IF positive THEN r.output > Threshold ELSE r.output < Threshold
         \* a label of 1 that was missed: falsepositive on the server
         missed == positive /\ ~hit
         raised == ~positive /\ ~hit
     IN  /\ total' = TotalWith(positive)
         /\ truepositive' = Count(truepositive, positive /\ hit)
         /\ truenegative' = Count(truenegative, ~positive /\ hit)
         /\ falsepositive' = Count(falsepositive, IF program = "server" THEN missed ELSE raised)
         /\ falsenegative' = Count(falsenegative, IF program = "server" THEN raised ELSE missed)
         /\ row' = r
  /\ next' = IF next <= Len(file) THEN next + 1 ELSE next
  /\ counted' = counted + 1
  /\ UNCHANGED <<program, file, printed>>

Accuracy == <<truenegative + truepositive,
              truenegative + truepositive + falsenegative + falsepositive>>
Precision == <<truepositive, truepositive + falsepositive>>
Recall == <<truepositive, truepositive + falsenegative>>
Specificity == <<truenegative, truenegative + falsepositive>>

\* 2PR / (P + R), where a ratio that is not a number makes the score one.
F1Score ==
  LET p == Precision
      r == Recall
  IN  IF p[2] = 0 \/ r[2] = 0 THEN <<0, 0>>
      ELSE <<2 * p[1] * r[1], p[1] * r[2] + r[1] * p[2]>>

PrintMetrics ==
  /\ printed = NotPrinted /\ ~HasRow
  /\ printed' = [accuracy |-> Accuracy, precision |-> Precision, recall |-> Recall,
                 specificity |-> Specificity, f1 |-> F1Score]
  /\ UNCHANGED <<program, file, next, row, truepositive, falsepositive, truenegative,
                 falsenegative, total, counted>>

MetricsNext == CountRow \/ PrintMetrics

MetricsSpec == MetricsInit /\ [][MetricsNext]_metricsVars

-----------------------------------------------------------------------------
MetricsTypeOK ==
  /\ program \in {"server", "trainer"} /\ file \in Evaluations /\ next \in 1..(Len(file) + 1)
  /\ counted \in 0..PercentualEvaluation
  /\ {truepositive, falsepositive, truenegative, falsenegative} \subseteq 0..counted
  /\ total = truepositive + falsepositive + truenegative + falsenegative

SameRatio(p, q) == (p[2] = 0) = (q[2] = 0) /\ p[1] * q[2] = q[1] * p[2]

\* The ratios printed, against their definitions over the rows that should be
\* counted, when no output lies on the threshold.  The trainer prints them all.
\* The accuracy of the server is right; what it prints as precision is the recall
\* and what it prints as recall the precision, which leaves the F1 score alone,
\* and its specificity is the share of negative answers that are right.
MetricsOfTheRows ==
  LET n == IF program = "server" \/ Len(file) >= PercentualEvaluation THEN PercentualEvaluation
           ELSE Len(file)
      Row(k) == file[IF k <= Len(file) THEN k ELSE Len(file)]
      Rows(l, positive) == Cardinality({k \in 1..n : /\ Row(k).label \in l
                                                     /\ (Row(k).output > Threshold) \in positive})
      tp == Rows({1}, {TRUE})
      tn == Rows({0}, {FALSE})
      precision == <<tp, Rows({0, 1}, {TRUE})>>
      recall == <<tp, Rows({1}, BOOLEAN)>>
  IN  printed # NotPrinted /\ (\A k \in DOMAIN file : file[k].output # Threshold) =>
        /\ SameRatio(printed.accuracy, <<tp + tn, n>>)
        /\ SameRatio(printed.precision, IF program = "server" THEN recall ELSE precision)
        /\ SameRatio(printed.recall, IF program = "server" THEN precision ELSE recall)
        /\ SameRatio(printed.specificity,
                <<tn, IF program = "server" THEN Rows({0, 1}, {FALSE}) ELSE Rows({0}, BOOLEAN)>>)
        \* 2TP / (2TP + FP + FN), not a number without a hit
        /\ SameRatio(printed.f1, IF tp = 0 THEN <<0, 0>> ELSE <<2 * tp, precision[2] + recall[2]>>)
=============================================================================
