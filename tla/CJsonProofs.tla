----------------------------- MODULE CJsonProofs -----------------------------
(***************************************************************************)
(* Proofs about the JSON library, for every string and every text.         *)
(***************************************************************************)
EXTENDS CJsonStrings, CJsonParser, Recursion, SequenceTheorems, FiniteSetTheorems

-----------------------------------------------------------------------------
(* The first pass of parse_string.                                         *)

\* The pass from each position on is what the pass from a later one makes it.
LEMMA ScanFrom ==
  ASSUME NEW s \in Seq(Byte)
  PROVE  \A i \in 1..(Len(s) + 2) :
           /\ Scan(s)[i].end \in Nat /\ Scan(s)[i].skipped \in Nat
           /\ i > Len(s) => Scan(s)[i].end = 0 /\ Scan(s)[i].skipped = 0
           /\ i <= Len(s) =>
                /\ s[i] = Quote => Scan(s)[i].end = i /\ Scan(s)[i].skipped = 0
                /\ s[i] = Backslash => /\ Scan(s)[i].end = Scan(s)[i + 2].end
                                       /\ Scan(s)[i].skipped = Scan(s)[i + 2].skipped + 1
                /\ s[i] # Quote /\ s[i] # Backslash => Scan(s)[i] = Scan(s)[i + 1]
PROOF
<1> DEFINE n == Len(s)
           V == [end : Nat, skipped : Nat]
           b == [end |-> 0, skipped |-> 0]
           jump == [i \in 1..n |-> IF s[i] = Backslash THEN i + 2 ELSE i + 1]
           Next1(i, v) == IF s[i] = Quote THEN [end |-> i, skipped |-> 0]
                          ELSE IF s[i] = Backslash
                            THEN [end |-> v.end, skipped |-> v.skipped + 1]
                          ELSE v
           step == [x \in (1..n) \X V |-> Next1(x[1], x[2])]
           m == n + 2
<1>1. n \in Nat /\ m \in Nat /\ n <= m /\ b \in V
  BY LenProperties
<1>2. jump \in [1..n -> 1..m] /\ \A i \in 1..n : jump[i] > i
  BY <1>1
<1>3. \A i \in 1..n, v \in V : Next1(i, v) \in V
  BY <1>1
<1>4. \A i \in 1..n, v \in V : step[<<i, v>>] = Next1(i, v)
  <2> HIDE DEF Next1, V
  <2> QED OBVIOUS
<1>5. step \in [(1..n) \X V -> V]
  <2> HIDE DEF Next1, V
  <2> QED BY <1>3
<1>6. \A i \in 1..n : jump[i] = IF s[i] = Backslash THEN i + 2 ELSE i + 1
  OBVIOUS
<1> HIDE DEF step, jump, V, b, n, m
<1>7. Descents(V, b, n, m, jump, step) # {}
  BY <1>1, <1>2, <1>5, DescentExists
<1>8. PICK f \in Descents(V, b, n, m, jump, step) : TRUE
  BY <1>7
<1>9. f \in [1..m -> V] /\ \A i \in 1..m : f[i] = IF i > n THEN b ELSE step[<<i, f[jump[i]]>>]
  BY <1>8 DEF Descents
<1> DEFINE At(g, i) == IF i > n THEN b
                       ELSE IF s[i] = Quote THEN [end |-> i, skipped |-> 0]
                       ELSE IF s[i] = Backslash
                         THEN [end |-> g[i + 2].end, skipped |-> g[i + 2].skipped + 1]
                       ELSE g[i + 1]
<1>10. \A i \in 1..m : f[i] = At(f, i)
  <2> SUFFICES ASSUME NEW i \in 1..m PROVE f[i] = At(f, i)
    OBVIOUS
  <2>1. CASE i > n
    BY <1>9, <2>1
  <2>2. CASE i \in 1..n
    <3>1. jump[i] \in 1..m /\ f[jump[i]] \in V
      BY <1>2, <1>9, <2>2
    <3>2. f[i] = step[<<i, f[jump[i]]>>] /\ ~(i > n)
      BY <1>1, <1>9, <2>2
    <3>3. f[i] = Next1(i, f[jump[i]])
      BY <1>4, <2>2, <3>1, <3>2
    <3> QED BY <1>6, <2>2, <3>2, <3>3, Zenon
  <2> QED BY <1>1, <2>1, <2>2
<1>11. f = [i \in 1..m |-> At(f, i)]
  <2> HIDE DEF At
  <2> QED BY <1>9, <1>10
<1>12. Scan(s) = [i \in 1..m |-> At(Scan(s), i)]
  BY <1>11, Zenon DEF Scan, m, n, b
<1>13. \A i \in 1..m : Scan(s)[i] = At(Scan(s), i)
  <2> HIDE DEF At
  <2> QED BY <1>12
<1> DEFINE S == {i \in 1..m : Scan(s)[i] \in V}
<1>14. \A i \in 1..m : (\A j \in (i + 1)..m : j \in S) => i \in S
  <2> SUFFICES ASSUME NEW i \in 1..m, \A j \in (i + 1)..m : j \in S PROVE Scan(s)[i] \in V
    OBVIOUS
  <2>1. CASE i > n
    BY <1>1, <1>13, <2>1
  <2>2. CASE i \in 1..n
    <3>1. i + 1 \in (i + 1)..m /\ i + 2 \in (i + 1)..m /\ ~(i > n)
      BY <1>1, <2>2 DEF m
    <3>2. Scan(s)[i + 1] \in V /\ Scan(s)[i + 2] \in V
      BY <3>1
    <3>3. At(Scan(s), i) \in V
      <4>1. i \in Nat
        BY <2>2
      <4> QED BY <3>1, <3>2, <4>1 DEF V
    <3> QED BY <1>13, <3>3
  <2> QED BY <1>1, <2>1, <2>2
<1> HIDE DEF S
<1>15. 1..m \subseteq S
  BY <1>1, <1>14, DownwardInduction
<1>16. \A i \in 1..m : Scan(s)[i] \in V
  BY <1>15 DEF S
<1> SUFFICES ASSUME NEW i \in 1..m
             PROVE  /\ Scan(s)[i].end \in Nat /\ Scan(s)[i].skipped \in Nat
                    /\ i > n => Scan(s)[i].end = 0 /\ Scan(s)[i].skipped = 0
                    /\ i <= n =>
                         /\ s[i] = Quote => Scan(s)[i].end = i /\ Scan(s)[i].skipped = 0
                         /\ s[i] = Backslash =>
                              /\ Scan(s)[i].end = Scan(s)[i + 2].end
                              /\ Scan(s)[i].skipped = Scan(s)[i + 2].skipped + 1
                         /\ s[i] # Quote /\ s[i] # Backslash => Scan(s)[i] = Scan(s)[i + 1]
  BY DEF m, n
<1>17. i \in Nat /\ (i > n <=> ~(i <= n)) /\ Quote # Backslash
  BY <1>1 DEF Quote, Backslash
<1>18. Scan(s)[i].end \in Nat /\ Scan(s)[i].skipped \in Nat
  BY <1>16 DEF V
<1>19. Scan(s)[i] = At(Scan(s), i)
  BY <1>13
<1>20. CASE i > n
  BY <1>17, <1>18, <1>19, <1>20 DEF b
<1>21. CASE i <= n /\ s[i] = Quote
  BY <1>17, <1>18, <1>19, <1>21
<1>22. CASE i <= n /\ s[i] = Backslash
  BY <1>17, <1>18, <1>19, <1>22
<1>23. CASE i <= n /\ s[i] # Quote /\ s[i] # Backslash
  BY <1>17, <1>18, <1>19, <1>23
<1> QED BY <1>17, <1>20, <1>21, <1>22, <1>23

\* A position from which the pass finds the closing quote that it finds from the first.
Boundary(s, i) == i \in 1..Len(s) /\ Scan(s)[i].end = EndOf(s)

\* The pass goes on by one character, or by two at a backslash.
LEMMA ScanGoesOn ==
  ASSUME NEW s \in Seq(Byte), EndOf(s) # 0, NEW i \in Nat, Boundary(s, i), i # EndOf(s)
  PROVE  /\ s[i] # Quote
         /\ s[i] = Backslash => /\ Boundary(s, i + 2)
                                /\ Scan(s)[i].skipped = Scan(s)[i + 2].skipped + 1
         /\ s[i] # Backslash => /\ Boundary(s, i + 1)
                                /\ Scan(s)[i].skipped = Scan(s)[i + 1].skipped
PROOF
<1>1. Len(s) \in Nat /\ i \in 1..Len(s) /\ Scan(s)[i].end = EndOf(s)
  BY LenProperties DEF Boundary
<1>2. \A j \in 1..(Len(s) + 2) : Scan(s)[j].end = EndOf(s) => j \in 1..Len(s)
  BY <1>1, ScanFrom
<1>3. i \in 1..(Len(s) + 2) /\ i + 1 \in 1..(Len(s) + 2) /\ i + 2 \in 1..(Len(s) + 2)
  BY <1>1
<1>4. /\ s[i] # Quote
      /\ s[i] = Backslash => /\ Scan(s)[i].end = Scan(s)[i + 2].end
                             /\ Scan(s)[i].skipped = Scan(s)[i + 2].skipped + 1
      /\ s[i] # Backslash => Scan(s)[i] = Scan(s)[i + 1]
  BY <1>1, <1>3, ScanFrom
<1> QED BY <1>1, <1>2, <1>3, <1>4 DEF Boundary

\* The closing quote is behind every such position, and each backslash that is stepped
\* over takes two characters.
LEMMA ScanEnds ==
  ASSUME NEW s \in Seq(Byte), EndOf(s) # 0
  PROVE  /\ EndOf(s) \in 1..Len(s) /\ Boundary(s, 1) /\ Boundary(s, EndOf(s))
         /\ Scan(s)[EndOf(s)].skipped = 0 /\ s[EndOf(s)] = Quote
         /\ \A i \in Nat : Boundary(s, i) =>
              /\ Scan(s)[i].skipped \in Nat /\ i <= EndOf(s)
              /\ 2 * Scan(s)[i].skipped <= EndOf(s) - i
PROOF
<1> DEFINE m == Len(s) + 2
           e == EndOf(s)
           Good(i) == Scan(s)[i].end = e =>
                        /\ i <= e /\ e <= Len(s) /\ s[e] = Quote
                        /\ Scan(s)[e].end = e /\ Scan(s)[e].skipped = 0
                        /\ 2 * Scan(s)[i].skipped <= e - i
           S == {i \in 1..m : Good(i)}
<1>1. m \in Nat /\ Len(s) \in Nat /\ 1 \in 1..m /\ m = Len(s) + 2
  BY LenProperties
<1> HIDE DEF m
<1>2. e \in Nat /\ e # 0 /\ e = Scan(s)[1].end
  <2>1. Scan(s)[1].end \in Nat
    BY <1>1, ScanFrom
  <2> QED BY <2>1 DEF EndOf
<1> HIDE DEF e
<1>3. \A j \in 1..m : Scan(s)[j].skipped \in Nat /\ Scan(s)[j].end \in Nat
  BY <1>1, ScanFrom
<1>4. \A i \in 1..m : (\A j \in (i + 1)..m : j \in S) => i \in S
  <2> SUFFICES ASSUME NEW i \in 1..m, \A j \in (i + 1)..m : Good(j), Scan(s)[i].end = e
               PROVE  Good(i)
    OBVIOUS
  <2>1. i \in 1..Len(s)
    BY <1>1, <1>2, ScanFrom
  <2>2. /\ s[i] = Quote => Scan(s)[i].end = i /\ Scan(s)[i].skipped = 0
        /\ s[i] = Backslash => /\ Scan(s)[i].end = Scan(s)[i + 2].end
                               /\ Scan(s)[i].skipped = Scan(s)[i + 2].skipped + 1
        /\ s[i] # Quote /\ s[i] # Backslash => Scan(s)[i] = Scan(s)[i + 1]
    BY <1>1, <2>1, ScanFrom
  <2>3. CASE s[i] = Quote
    <3>1. e = i /\ Scan(s)[e].end = e /\ Scan(s)[e].skipped = 0 /\ s[e] = Quote
      BY <2>2, <2>3
    <3>2. i <= e /\ e <= Len(s) /\ 2 * 0 <= e - i
      BY <1>1, <1>2, <2>1, <3>1
    <3> QED BY <3>1, <3>2
  <2>4. CASE s[i] = Backslash
    <3>1. i + 2 \in (i + 1)..m /\ i + 2 \in 1..m
      BY <1>1, <2>1
    <3>2. Good(i + 2) /\ Scan(s)[i + 2].end = e
      BY <2>2, <2>4, <3>1
    <3>3. Scan(s)[i].skipped \in Nat /\ Scan(s)[i + 2].skipped \in Nat
      BY <1>3, <3>1
    <3>4. i <= e /\ 2 * Scan(s)[i].skipped <= e - i
      <4> DEFINE x == Scan(s)[i].skipped
                 y == Scan(s)[i + 2].skipped
      <4>1. x \in Nat /\ y \in Nat /\ x = y + 1 /\ i + 2 <= e /\ 2 * y <= e - (i + 2)
        BY <2>2, <2>4, <3>2, <3>3
      <4> HIDE DEF x, y
      <4>2. i <= e /\ 2 * x <= e - i
        BY <1>2, <2>1, <4>1
      <4> QED BY <4>2 DEF x
    <3> QED BY <3>2, <3>4
  <2>5. CASE s[i] # Quote /\ s[i] # Backslash
    <3>1. i + 1 \in (i + 1)..m /\ i + 1 \in 1..m
      BY <1>1, <2>1
    <3>2. Good(i + 1) /\ Scan(s)[i + 1].end = e
      BY <2>2, <2>5, <3>1
    <3>3. Scan(s)[i].skipped \in Nat /\ Scan(s)[i].skipped = Scan(s)[i + 1].skipped
      BY <1>3, <2>2, <2>5
    <3>4. i <= e /\ 2 * Scan(s)[i].skipped <= e - i
      BY <1>2, <2>1, <3>2, <3>3, SMTT(25)
    <3> QED BY <3>2, <3>4
  <2> QED BY <2>3, <2>4, <2>5
<1> HIDE DEF S
<1>5. 1..m \subseteq S
  BY <1>1, <1>4, DownwardInduction
<1>6. \A i \in 1..m : Good(i)
  BY <1>5 DEF S
<1>7. e \in 1..Len(s) /\ Scan(s)[e].end = e /\ Scan(s)[e].skipped = 0 /\ s[e] = Quote /\ 1 <= Len(s)
  BY <1>1, <1>2, <1>6
<1>8. \A i \in 1..Len(s) : i \in 1..m
  BY <1>1
<1>9. \A i \in Nat : Boundary(s, i) =>
              /\ Scan(s)[i].skipped \in Nat /\ i <= e
              /\ 2 * Scan(s)[i].skipped <= e - i
  BY <1>3, <1>6, <1>8 DEF Boundary, e
<1> QED BY <1>1, <1>2, <1>7, <1>9 DEF Boundary, e

\* From one such position the pass reaches another at or right behind any later one, and
\* has stepped over a backslash for every two characters at most.
LEMMA ScanReaches ==
  ASSUME NEW s \in Seq(Byte), EndOf(s) # 0, NEW i \in Nat, Boundary(s, i),
         NEW j \in i..EndOf(s)
  PROVE  \E b \in {j, j + 1} :
           /\ Boundary(s, b) /\ b <= EndOf(s)
           /\ 2 * (Scan(s)[i].skipped - Scan(s)[b].skipped) <= b - i
PROOF
<1> DEFINE e == EndOf(s)
           Near(k, b) == /\ Boundary(s, b) /\ b <= e
                         /\ 2 * (Scan(s)[i].skipped - Scan(s)[b].skipped) <= b - i
           S == {k \in 0..(e - i) : Near(k, i + k) \/ Near(k, i + k + 1)}
<1>1. e \in Nat /\ e - i \in Nat /\ i \in Nat /\ Boundary(s, i) /\ i <= e
  BY ScanEnds
<1>2. \A b \in Nat : Boundary(s, b) => Scan(s)[b].skipped \in Nat /\ b <= e
  BY ScanEnds
<1>3. \A b \in Nat : Boundary(s, b) /\ b # e =>
        \/ Boundary(s, b + 2) /\ Scan(s)[b].skipped = Scan(s)[b + 2].skipped + 1
        \/ Boundary(s, b + 1) /\ Scan(s)[b].skipped = Scan(s)[b + 1].skipped
  BY ScanGoesOn
<1> HIDE DEF e
<1>4. 0 \in S
  BY <1>1, <1>2
<1>5. \A k \in 1..(e - i) : k - 1 \in S => k \in S
  <2> SUFFICES ASSUME NEW k \in 1..(e - i), k - 1 \in S PROVE Near(k, i + k) \/ Near(k, i + k + 1)
    BY <1>1
  <2>1. i + (k - 1) + 1 = i + k /\ i + (k - 1) \in Nat /\ i + k <= e /\ i + k + 1 = i + (k - 1) + 2
    BY <1>1
  <2>2. CASE Near(k - 1, i + (k - 1) + 1)
    BY <2>1, <2>2
  <2>3. CASE Near(k - 1, i + (k - 1))
    <3> DEFINE b == i + (k - 1)
    <3>1. b \in Nat /\ b # e /\ b + 1 = i + k /\ b + 2 = i + k + 1 /\ i + k \in Nat /\ i + k + 1 \in Nat
      BY <1>1, <2>1, SMTT(25)
    <3> HIDE DEF b
    <3>2. Boundary(s, b) /\ 2 * (Scan(s)[i].skipped - Scan(s)[b].skipped) <= b - i
      BY <2>3 DEF b
    <3>3. Scan(s)[i].skipped \in Nat /\ Scan(s)[b].skipped \in Nat
      BY <1>1, <1>2, <3>1, <3>2
    <3>4. CASE Boundary(s, b + 2) /\ Scan(s)[b].skipped = Scan(s)[b + 2].skipped + 1
      <4>1. Boundary(s, i + k + 1) /\ Scan(s)[b].skipped = Scan(s)[i + k + 1].skipped + 1
        BY <3>1, <3>4
      <4>2. Scan(s)[i + k + 1].skipped \in Nat /\ i + k + 1 <= e
        BY <1>2, <3>1, <4>1
      <4>3. 2 * (Scan(s)[i].skipped - Scan(s)[i + k + 1].skipped) <= (i + k + 1) - i
        <5> DEFINE x == Scan(s)[i].skipped
                   y == Scan(s)[i + k + 1].skipped
                   z == Scan(s)[b].skipped
        <5>1. x \in Nat /\ y \in Nat /\ z = y + 1 /\ 2 * (x - z) <= b - i
          BY <3>2, <3>3, <4>1, <4>2
        <5> HIDE DEF x, y, z
        <5>2. 2 * (x - y) <= (i + k + 1) - i
          BY <1>1, <3>1, <5>1, SMTT(30)
        <5> QED BY <5>2 DEF x, y
      <4> QED BY <4>1, <4>2, <4>3
    <3>5. CASE Boundary(s, b + 1) /\ Scan(s)[b].skipped = Scan(s)[b + 1].skipped
      <4>1. Boundary(s, i + k) /\ Scan(s)[b].skipped = Scan(s)[i + k].skipped
        BY <3>1, <3>5
      <4>2. Scan(s)[i + k].skipped \in Nat /\ i + k <= e
        BY <1>2, <3>1, <4>1
      <4>3. 2 * (Scan(s)[i].skipped - Scan(s)[i + k].skipped) <= (i + k) - i
        BY <1>1, <3>1, <3>2, <3>3, <4>1, <4>2, SMTT(25)
      <4> QED BY <4>1, <4>2, <4>3
    <3> QED BY <1>3, <3>1, <3>2, <3>4, <3>5
  <2> QED BY <2>2, <2>3
<1> HIDE DEF S
<1>6. 0..(e - i) \subseteq S
  BY <1>1, <1>4, <1>5, BoundedInduction
<1>7. j - i \in 0..(e - i) /\ i + (j - i) = j
  BY <1>1 DEF e
<1>8. Near(j - i, i + (j - i)) \/ Near(j - i, i + (j - i) + 1)
  BY <1>6, <1>7 DEF S
<1> QED BY <1>7, <1>8 DEF e

-----------------------------------------------------------------------------
(* The characters that are escaped, and what they are escaped by.          *)

LEMMA Letters ==
  /\ \A c : HasLetter(c) <=> c \in {8, 9, 10, 12, 13}
  /\ \A l : IsLetter(l) <=> l \in {98, 102, 110, 114, 116}
  /\ Letter(8) = 98 /\ Letter(12) = 102 /\ Letter(10) = 110 /\ Letter(13) = 114 /\ Letter(9) = 116
  /\ FromLetter(98) = 8 /\ FromLetter(102) = 12 /\ FromLetter(110) = 10
  /\ FromLetter(114) = 13 /\ FromLetter(116) = 9
PROOF
<1> DEFINE K == {"b", "f", "n", "r", "t"}
<1>1. DOMAIN Short = K /\ DOMAIN LetterOf = K
  BY DEF Short, LetterOf
<1>2. /\ Short["b"] = 8 /\ Short["f"] = 12 /\ Short["n"] = 10 /\ Short["r"] = 13 /\ Short["t"] = 9
      /\ LetterOf["b"] = 98 /\ LetterOf["f"] = 102 /\ LetterOf["n"] = 110
      /\ LetterOf["r"] = 114 /\ LetterOf["t"] = 116
  BY DEF Short, LetterOf
<1>3. \A k \in K : \A j \in K : Short[k] = Short[j] => k = j
  BY <1>2
<1>4. \A k \in K : \A j \in K : LetterOf[k] = LetterOf[j] => k = j
  BY <1>2
<1>5. \A k \in K : (CHOOSE j \in K : Short[j] = Short[k]) = k
  BY <1>3
<1>6. \A k \in K : (CHOOSE j \in K : LetterOf[j] = LetterOf[k]) = k
  BY <1>4
<1>7. \A k \in K : Letter(Short[k]) = LetterOf[k] /\ FromLetter(LetterOf[k]) = Short[k]
  <2> SUFFICES ASSUME NEW k \in K
               PROVE  Letter(Short[k]) = LetterOf[k] /\ FromLetter(LetterOf[k]) = Short[k]
    OBVIOUS
  <2>1. (CHOOSE j \in DOMAIN Short : Short[j] = Short[k]) = k
    BY <1>1, <1>5, Zenon
  <2>2. (CHOOSE j \in DOMAIN LetterOf : LetterOf[j] = LetterOf[k]) = k
    BY <1>1, <1>6, Zenon
  <2> QED BY <2>1, <2>2, Zenon DEF Letter, FromLetter
<1>8. \A c : HasLetter(c) <=> c \in {8, 9, 10, 12, 13}
  BY <1>1, <1>2 DEF HasLetter
<1>9. \A l : IsLetter(l) <=> l \in {98, 102, 110, 114, 116}
  BY <1>1, <1>2 DEF IsLetter
<1> QED BY <1>2, <1>7, <1>8, <1>9

\* Four digits of a number below 32 are that number.
LEMMA HexDigits ==
  ASSUME NEW c \in 0..31
  PROVE  /\ Hex4(c) = <<48, 48, IF c < 16 THEN 48 ELSE 49, HexDigit(c % 16)>>
         /\ HexDigit(c % 16) \in 48..57 \cup 97..102
         /\ HexValue(HexDigit(c % 16)) = c % 16
PROOF
<1>1. c \div 4096 = 0 /\ c \div 256 = 0 /\ c \div 16 = (IF c < 16 THEN 0 ELSE 1) /\ c % 16 \in 0..15
  OBVIOUS
<1>2. \A n \in 0..15 : HexDigit(n) \in 48..57 \cup 97..102 /\ HexValue(HexDigit(n)) = n
  BY DEF HexDigit, HexValue
<1>3. HexDigit(0) = 48 /\ HexDigit(1) = 49 /\ 0 % 16 = 0 /\ 1 % 16 = 1
  BY DEF HexDigit
<1> QED BY <1>1, <1>2, <1>3 DEF Hex4

LEMMA TwoAndFour ==
  ASSUME NEW a \in Byte, NEW b \in Byte,
         NEW c \in Byte, NEW d \in Byte, NEW e \in Byte, NEW f \in Byte
  PROVE  <<a, b>> \o <<c, d, e, f>> = <<a, b, c, d, e, f>>
PROOF
<1> DEFINE s == <<a, b>> \o <<c, d, e, f>>
           t == <<a, b, c, d, e, f>>
<1>1. <<a, b>> \in Seq(Byte) /\ <<c, d, e, f>> \in Seq(Byte) /\ t \in Seq(Byte) /\ Len(t) = 6
  OBVIOUS
<1>2. s \in Seq(Byte) /\ Len(s) = 6
      /\ \A i \in 1..6 : s[i] = IF i <= 2 THEN <<a, b>>[i] ELSE <<c, d, e, f>>[i - 2]
  BY <1>1, ConcatProperties
<1> HIDE DEF s
<1>3. \A i \in 1..6 : s[i] = t[i]
  BY <1>2
<1> HIDE DEF t
<1> QED BY <1>1, <1>2, <1>3, SeqEqual DEF s, t

\* A character becomes itself, itself or a letter behind a backslash, or a literal of
\* four digits; that is as many characters as the first pass counts.
LEMMA EscapedIs ==
  ASSUME NEW c \in Byte
  PROVE  /\ Escaped(c) \in Seq(Byte) /\ Len(Escaped(c)) = 1 + Extra(c) /\ Extra(c) \in Nat
         /\ \/ c > 31 /\ c \notin {Quote, Backslash} /\ Escaped(c) = <<c>>
            \/ c \in {Quote, Backslash} /\ Escaped(c) = <<Backslash, c>>
            \/ /\ c \in {8, 9, 10, 12, 13} /\ Escaped(c) = <<Backslash, Letter(c)>>
               /\ IsLetter(Letter(c)) /\ FromLetter(Letter(c)) = c
            \/ /\ c \in 1..31
               /\ Escaped(c) = <<Backslash, u, 48, 48, IF c < 16 THEN 48 ELSE 49, HexDigit(c % 16)>>
PROOF
<1> USE DEF Byte, Quote, Backslash, u
<1>1. CASE c > 31 /\ c \notin {Quote, Backslash}
  <2>1. Escaped(c) = <<c>> /\ Extra(c) = 0
    BY <1>1, Letters DEF Escaped, Extra
  <2> QED BY <1>1, <2>1
<1>2. CASE c \in {Quote, Backslash}
  <2>1. Escaped(c) = <<Backslash, c>> /\ Extra(c) = 1
    BY <1>2 DEF Escaped, Extra
  <2> QED BY <1>2, <2>1
<1>3. CASE c \in {8, 9, 10, 12, 13}
  <2>1. Escaped(c) = <<Backslash, Letter(c)>> /\ Extra(c) = 1
    BY <1>3, Letters DEF Escaped, Extra
  <2>2. Letter(c) \in Byte /\ IsLetter(Letter(c)) /\ FromLetter(Letter(c)) = c
    BY <1>3, Letters
  <2> QED BY <1>3, <2>1, <2>2
<1>4. CASE c \in 1..31 /\ c \notin {8, 9, 10, 12, 13}
  <2> DEFINE h == HexDigit(c % 16)
             g == IF c < 16 THEN 48 ELSE 49
  <2>1. Hex4(c) = <<48, 48, g, h>> /\ h \in Byte /\ g \in Byte
    <3>1. c \in 0..31
      BY <1>4
    <3>2. Hex4(c) = <<48, 48, g, h>> /\ h \in 48..57 \cup 97..102
      BY <3>1, HexDigits
    <3>3. g \in {48, 49}
      OBVIOUS
    <3> HIDE DEF g, h
    <3> QED BY <3>2, <3>3
  <2> HIDE DEF g, h
  <2>2. Escaped(c) = <<Backslash, u>> \o Hex4(c) /\ Extra(c) = 5
    <3>1. ~(c > 31) /\ c < 32 /\ c \notin {Quote, Backslash} /\ ~HasLetter(c)
      BY <1>4, Letters
    <3> QED BY <3>1, Zenon DEF Escaped, Extra
  <2>3. <<Backslash, u>> \o <<48, 48, g, h>> = <<Backslash, u, 48, 48, g, h>>
    <3> HIDE DEF Byte
    <3>1. Backslash \in Byte /\ u \in Byte /\ 48 \in Byte
      BY DEF Byte
    <3> QED BY <2>1, <3>1, TwoAndFour
  <2>4. Escaped(c) = <<Backslash, u, 48, 48, g, h>>
    BY <2>1, <2>2, <2>3
  <2>5. Escaped(c) \in Seq(Byte) /\ Len(Escaped(c)) = 6
    BY <2>1, <2>4
  <2>6. c \in 1..31 /\ 6 = 1 + Extra(c) /\ Extra(c) \in Nat
    BY <1>4, <2>2
  <2> QED BY <2>4, <2>5, <2>6 DEF g, h
<1> QED BY <1>1, <1>2, <1>3, <1>4

-----------------------------------------------------------------------------
(* A printed string, character by character.                               *)

\* What has been written of a string after each of its characters, between the quotes.
Printed(s) ==
  LET printed[n \in 0..Len(s)] ==
        IF n = 0 THEN <<>> ELSE printed[n - 1] \o Escaped(s[n])
  IN printed

LEMMA NeedIs ==
  ASSUME NEW s \in Seq(Byte)
  PROVE  /\ Need(s) \in [0..Len(s) -> Nat] /\ Need(s)[0] = 0
         /\ \A k \in 1..Len(s) : Need(s)[k] = Need(s)[k - 1] + 1 + Extra(s[k])
PROOF
<1> DEFINE n == Len(s)
           step == [x \in (1..n) \X Nat |-> x[2] + 1 + Extra(s[x[1]])]
<1>1. n \in Nat /\ 0 \in Nat /\ \A k \in 1..n : Extra(s[k]) \in Nat
  BY LenProperties, ElementOfSeq, EscapedIs
<1>2. step \in [(1..n) \X Nat -> Nat]
  BY <1>1
<1>3. \A k \in 1..n, v \in Nat : step[<<k, v>>] = v + 1 + Extra(s[k])
  OBVIOUS
<1> HIDE DEF step, n
<1>4. Recursions(Nat, 0, n, step) # {}
  BY <1>1, <1>2, RecursionExists
<1>5. PICK f \in Recursions(Nat, 0, n, step) : TRUE
  BY <1>4
<1>6. f \in [0..n -> Nat] /\ f[0] = 0 /\ \A k \in 1..n : f[k] = step[<<k, f[k - 1]>>]
  BY <1>5 DEF Recursions
<1> DEFINE At(g, k) == IF k = 0 THEN 0 ELSE g[k - 1] + 1 + Extra(s[k])
<1>7. \A k \in 0..n : f[k] = At(f, k)
  <2> SUFFICES ASSUME NEW k \in 1..n PROVE f[k] = At(f, k)
    BY <1>1, <1>6
  <2>1. k - 1 \in 0..n /\ k # 0
    BY <1>1
  <2>2. f[k - 1] \in Nat
    BY <1>6, <2>1
  <2>3. f[k] = f[k - 1] + 1 + Extra(s[k])
    BY <1>3, <1>6, <2>2
  <2> QED BY <2>1, <2>3
<1>8. f = [k \in 0..n |-> At(f, k)]
  <2> HIDE DEF At
  <2> QED BY <1>6, <1>7
<1>9. Need(s) = [k \in 0..n |-> At(Need(s), k)]
  BY <1>8, Zenon DEF Need, n
<1>10. \A k \in 0..n : Need(s)[k] = At(Need(s), k)
  <2> HIDE DEF At
  <2> QED BY <1>9
<1>11. 0 \in 0..n /\ \A k \in 1..n : k \in 0..n /\ k # 0
  BY <1>1
<1>12. Need(s)[0] = 0 /\ \A k \in 1..n : Need(s)[k] = Need(s)[k - 1] + 1 + Extra(s[k])
  BY <1>10, <1>11
<1> DEFINE S == {k \in 0..n : Need(s)[k] \in Nat}
<1>13. 0 \in S /\ \A k \in 1..n : k - 1 \in S => k \in S
  BY <1>1, <1>12, SMTT(25)
<1> HIDE DEF S
<1>14. 0..n \subseteq S
  BY <1>1, <1>13, BoundedInduction
<1>15. Need(s) \in [0..n -> Nat]
  <2>1. \A k \in 0..n : Need(s)[k] \in Nat
    BY <1>14 DEF S
  <2> HIDE DEF At
  <2> QED BY <1>9, <2>1
<1> QED BY <1>12, <1>15 DEF n

LEMMA PrintedIs ==
  ASSUME NEW s \in Seq(Byte)
  PROVE  /\ Printed(s) \in [0..Len(s) -> Seq(Byte)] /\ Printed(s)[0] = <<>>
         /\ \A k \in 1..Len(s) : Printed(s)[k] = Printed(s)[k - 1] \o Escaped(s[k])
         /\ \A k \in 0..Len(s) : Len(Printed(s)[k]) = Need(s)[k]
PROOF
<1> DEFINE n == Len(s)
           B == Seq(Byte)
           step == [x \in (1..n) \X B |-> x[2] \o Escaped(s[x[1]])]
<1>1. n \in Nat /\ <<>> \in B
  BY LenProperties
<1>2. \A k \in 1..n : s[k] \in Byte /\ Escaped(s[k]) \in B
  BY ElementOfSeq, EscapedIs
<1>3. \A k \in 1..n, v \in B : v \o Escaped(s[k]) \in B
  BY <1>2, ConcatProperties
<1>4. step \in [(1..n) \X B -> B]
  <2> HIDE DEF B
  <2> QED BY <1>3
<1>5. \A k \in 1..n, v \in B : step[<<k, v>>] = v \o Escaped(s[k])
  <2> HIDE DEF B
  <2> QED OBVIOUS
<1> HIDE DEF step, n, B
<1>6. Recursions(B, <<>>, n, step) # {}
  BY <1>1, <1>4, RecursionExists
<1>7. PICK f \in Recursions(B, <<>>, n, step) : TRUE
  BY <1>6
<1>8. f \in [0..n -> B] /\ f[0] = <<>> /\ \A k \in 1..n : f[k] = step[<<k, f[k - 1]>>]
  BY <1>7 DEF Recursions
<1> DEFINE At(g, k) == IF k = 0 THEN <<>> ELSE g[k - 1] \o Escaped(s[k])
<1>9. \A k \in 0..n : f[k] = At(f, k)
  <2>1. \A k \in 1..n : k - 1 \in 0..n /\ k # 0
    BY <1>1
  <2>2. \A k \in 1..n : f[k] = f[k - 1] \o Escaped(s[k])
    BY <1>5, <1>8, <2>1
  <2>3. \A k \in 0..n : k = 0 \/ k \in 1..n
    BY <1>1
  <2> QED BY <1>8, <2>1, <2>2, <2>3
<1>10. f = [k \in 0..n |-> At(f, k)]
  <2> HIDE DEF At
  <2> QED BY <1>8, <1>9
<1>11. Printed(s) = [k \in 0..n |-> At(Printed(s), k)]
  BY <1>10, Zenon DEF Printed, n
<1>12. \A k \in 0..n : Printed(s)[k] = At(Printed(s), k)
  <2> HIDE DEF At
  <2> QED BY <1>11
<1>13. 0 \in 0..n /\ \A k \in 1..n : k \in 0..n /\ k # 0
  BY <1>1
<1>14. Printed(s)[0] = <<>> /\ \A k \in 1..n : Printed(s)[k] = Printed(s)[k - 1] \o Escaped(s[k])
  BY <1>12, <1>13
<1> DEFINE S == {k \in 0..n : Printed(s)[k] \in B /\ Len(Printed(s)[k]) = Need(s)[k]}
<1>15. 0 \in S
  BY <1>1, <1>13, <1>14, NeedIs
<1>16. ASSUME NEW k \in 1..n, k - 1 \in S PROVE k \in S
  <2>1. Printed(s)[k - 1] \in Seq(Byte) /\ Escaped(s[k]) \in Seq(Byte)
    BY <1>2, <1>16 DEF B
  <2>2. Printed(s)[k] \in B /\ Len(Printed(s)[k]) = Len(Printed(s)[k - 1]) + Len(Escaped(s[k]))
    BY <1>14, <2>1, ConcatProperties DEF B
  <2>3. Len(Printed(s)[k - 1]) = Need(s)[k - 1] /\ Len(Escaped(s[k])) = 1 + Extra(s[k])
        /\ Extra(s[k]) \in Nat /\ Need(s)[k - 1] \in Nat
    <3>1. k - 1 \in 0..n
      BY <1>1
    <3> QED BY <1>2, <1>16, <3>1, EscapedIs, NeedIs DEF n
  <2>4. Need(s)[k] = Need(s)[k - 1] + 1 + Extra(s[k])
    BY NeedIs DEF n
  <2>5. Len(Printed(s)[k]) = Need(s)[k]
    BY <2>2, <2>3, <2>4, SMTT(25)
  <2> HIDE DEF At
  <2> QED BY <1>13, <2>2, <2>5
<1> HIDE DEF S
<1>17. 0..n \subseteq S
  BY <1>1, <1>15, <1>16, BoundedInduction
<1>18. \A k \in 0..n : Printed(s)[k] \in B /\ Len(Printed(s)[k]) = Need(s)[k]
  BY <1>17 DEF S
<1>19. Printed(s) \in [0..n -> B]
  <2> HIDE DEF At
  <2> QED BY <1>11, <1>18
<1> QED BY <1>14, <1>18, <1>19 DEF n, B

\* What is written of a string begins with what is written of its first characters.
LEMMA PrintedBegins ==
  ASSUME NEW s \in Seq(Byte)
  PROVE  \A k \in 0..Len(s) :
           /\ Need(s)[k] <= Measured(s) /\ (k < Len(s) => Need(s)[k] < Measured(s))
           /\ \A i \in 1..Need(s)[k] : Printed(s)[k][i] = Printed(s)[Len(s)][i]
PROOF
<1> DEFINE n == Len(s)
           P(k) == Printed(s)[k]
           N(k) == Need(s)[k]
           Good(k) == /\ N(k) <= N(n) /\ (k < n => N(k) < N(n))
                      /\ \A i \in 1..N(k) : P(k)[i] = P(n)[i]
           S == {j \in 0..n : Good(n - j)}
<1>1. n \in Nat
  BY LenProperties
<1>2. \A k \in 0..n : P(k) \in Seq(Byte) /\ Len(P(k)) = N(k) /\ N(k) \in Nat
  BY PrintedIs, NeedIs
<1>3. \A k \in 1..n : /\ N(k) = N(k - 1) + 1 + Extra(s[k]) /\ Extra(s[k]) \in Nat
                      /\ P(k) = P(k - 1) \o Escaped(s[k]) /\ Escaped(s[k]) \in Seq(Byte)
                      /\ Len(Escaped(s[k])) = 1 + Extra(s[k])
  BY PrintedIs, NeedIs, EscapedIs, ElementOfSeq
<1> HIDE DEF n, P, N
<1>4. 0 \in S
  BY <1>1, <1>2
<1>5. ASSUME NEW j \in 1..n, j - 1 \in S PROVE j \in S
  <2> DEFINE k == n - j
  <2>1. k \in 0..n /\ k + 1 \in 1..n /\ n - (j - 1) = k + 1 /\ k < n /\ (k + 1) - 1 = k
        /\ k + 1 \in 0..n /\ j \in 0..n
    BY <1>1
  <2> HIDE DEF k
  <2>2. Good(k + 1)
    BY <1>5, <2>1
  <2>3. N(k + 1) = N(k) + 1 + Extra(s[k + 1]) /\ Extra(s[k + 1]) \in Nat /\ N(k) \in Nat
    BY <1>2, <1>3, <2>1
  <2>4. N(k) < N(n) /\ N(k) <= N(n) /\ N(n) \in Nat
    <3>1. N(n) \in Nat
      BY <1>1, <1>2
    <3> QED BY <2>2, <2>3, <3>1
  <2>5. \A i \in 1..N(k) : P(k)[i] = P(n)[i]
    <3> SUFFICES ASSUME NEW i \in 1..N(k) PROVE P(k)[i] = P(n)[i]
      OBVIOUS
    <3>1. P(k + 1)[i] = P(n)[i]
      BY <2>2, <2>3
    <3>2. P(k) \in Seq(Byte) /\ Escaped(s[k + 1]) \in Seq(Byte) /\ Len(P(k)) = N(k)
          /\ P(k + 1) = P(k) \o Escaped(s[k + 1])
      BY <1>2, <1>3, <2>1
    <3>3. i \in 1..(Len(P(k)) + Len(Escaped(s[k + 1]))) /\ i <= Len(P(k))
      BY <2>3, <3>2, LenProperties
    <3>4. P(k + 1)[i] = P(k)[i]
      BY <3>2, <3>3, ConcatProperties
    <3> QED BY <3>1, <3>4
  <2>6. Good(k)
    BY <2>4, <2>5
  <2> QED BY <2>1, <2>6 DEF k
<1> HIDE DEF S
<1>6. 0..n \subseteq S
  BY <1>1, <1>4, <1>5, BoundedInduction
<1>7. ASSUME NEW k \in 0..n PROVE Good(k)
  <2>1. n - k \in 0..n /\ n - (n - k) = k
    BY <1>1
  <2> QED BY <1>6, <2>1 DEF S
<1> QED BY <1>7 DEF n, N, P, Measured

\* The characters of a printed string that stand for one character of the string.
LEMMA PrintedAt ==
  ASSUME NEW s \in Seq(Byte), NEW k \in 1..Len(s)
  PROVE  /\ Need(s)[k - 1] \in Nat /\ Need(s)[k] = Need(s)[k - 1] + Len(Escaped(s[k]))
         /\ Need(s)[k] <= Measured(s) /\ Measured(s) \in Nat
         /\ Len(Escaped(s[k])) \in Nat
         /\ \A i \in 1..Len(Escaped(s[k])) :
              Printed(s)[Len(s)][Need(s)[k - 1] + i] = Escaped(s[k])[i]
PROOF
<1>1. Len(s) \in Nat /\ k - 1 \in 0..Len(s) /\ k \in 0..Len(s) /\ Len(s) \in 0..Len(s) /\ s[k] \in Byte
  BY LenProperties, ElementOfSeq
<1>2. /\ Need(s)[k - 1] \in Nat /\ Need(s)[k] = Need(s)[k - 1] + 1 + Extra(s[k])
      /\ Len(Escaped(s[k])) = 1 + Extra(s[k]) /\ Extra(s[k]) \in Nat /\ Measured(s) \in Nat
      /\ Escaped(s[k]) \in Seq(Byte)
  BY <1>1, NeedIs, EscapedIs DEF Measured
<1>3. Need(s)[k] = Need(s)[k - 1] + Len(Escaped(s[k])) /\ Need(s)[k] <= Measured(s)
  <2>1. Need(s)[k] <= Measured(s)
    BY <1>1, PrintedBegins
  <2> QED BY <1>2, <2>1
<1>4. /\ Printed(s)[k] = Printed(s)[k - 1] \o Escaped(s[k])
      /\ Printed(s)[k - 1] \in Seq(Byte) /\ Len(Printed(s)[k - 1]) = Need(s)[k - 1]
  BY <1>1, PrintedIs
<1>5. ASSUME NEW i \in 1..Len(Escaped(s[k]))
      PROVE  Printed(s)[Len(s)][Need(s)[k - 1] + i] = Escaped(s[k])[i]
  <2> DEFINE j == Need(s)[k - 1] + i
  <2>1. j \in 1..Need(s)[k] /\ ~(j <= Need(s)[k - 1]) /\ j - Need(s)[k - 1] = i
    BY <1>2, <1>3, SMTT(25)
  <2> HIDE DEF j
  <2>2. Printed(s)[k][j] = Printed(s)[Len(s)][j]
    BY <1>1, <2>1, PrintedBegins
  <2>3. j \in 1..(Len(Printed(s)[k - 1]) + Len(Escaped(s[k])))
    BY <1>3, <1>4, <2>1
  <2>4. Printed(s)[k][j] = Escaped(s[k])[i]
    <3> DEFINE p == Printed(s)[k - 1]
               e == Escaped(s[k])
    <3>1. p \in Seq(Byte) /\ e \in Seq(Byte) /\ Printed(s)[k] = p \o e
          /\ j \in 1..(Len(p) + Len(e)) /\ ~(j <= Len(p)) /\ j - Len(p) = i
      BY <1>2, <1>4, <2>1, <2>3
    <3>2. (p \o e)[j] = IF j <= Len(p) THEN p[j] ELSE e[j - Len(p)]
      BY <3>1, ConcatProperties
    <3> HIDE DEF p, e
    <3>3. Printed(s)[k][j] = e[i]
      BY <3>1, <3>2
    <3> QED BY <3>3 DEF e
  <2> QED BY <2>2, <2>4 DEF j
<1> QED BY <1>2, <1>3, <1>5

-----------------------------------------------------------------------------
(* Hexadecimal digits and UTF-8.                                           *)

LEMMA HexIs ==
  \A c \in Byte : IsHex(c) => HexValue(c) \in 0..15 /\ c \notin {Quote, Backslash}
BY DEF Byte, IsHex, HexValue, Quote, Backslash

\* The pass of parse_string goes through four digits one by one.
LEMMA ScanDigits ==
  ASSUME NEW s \in Seq(Byte), NEW i \in 1..Len(s), i + 3 <= Len(s),
         \A k \in 0..3 : IsHex(s[i + k])
  PROVE  Scan(s)[i] = Scan(s)[i + 4]
PROOF
<1>1. Len(s) \in Nat /\ i \in Nat
  BY LenProperties
<1>2. \A k \in 0..3 : i + k \in 1..Len(s) /\ i + k \in 1..(Len(s) + 2)
  BY <1>1
<1>3. \A k \in 0..3 : s[i + k] \in Byte /\ s[i + k] # Quote /\ s[i + k] # Backslash
  BY <1>2, ElementOfSeq, HexIs
<1>4. \A k \in 0..3 : Scan(s)[i + k] = Scan(s)[i + k + 1]
  <2> SUFFICES ASSUME NEW k \in 0..3 PROVE Scan(s)[i + k] = Scan(s)[i + k + 1]
    OBVIOUS
  <2> DEFINE j == i + k
  <2>1. j \in 1..(Len(s) + 2) /\ j <= Len(s) /\ s[j] # Quote /\ s[j] # Backslash
    BY <1>1, <1>2, <1>3
  <2> HIDE DEF j
  <2>2. Scan(s)[j] = Scan(s)[j + 1]
    BY <2>1, ScanFrom
  <2> QED BY <2>2 DEF j
<1>5. i + 0 = i /\ i + 0 + 1 = i + 1 /\ i + 1 + 1 = i + 2 /\ i + 2 + 1 = i + 3 /\ i + 3 + 1 = i + 4
  BY <1>1
<1>6. 0 \in 0..3 /\ 1 \in 0..3 /\ 2 \in 0..3 /\ 3 \in 0..3
  OBVIOUS
<1> QED BY <1>4, <1>5, <1>6

\* The code points below this one take one literal.
Supplementary == 65536

\* A code point becomes the bytes that its bits are spread over.
LEMMA Utf8Is ==
  ASSUME NEW c \in Nat
  PROVE  /\ Utf8(c) \in Seq(Nat) /\ Utf8(c) = Spread(c)
         /\ Len(Utf8(c)) \in 1..4 /\ (c < Supplementary => Len(Utf8(c)) \in 1..3)
         /\ c < 128 => Utf8(c) = <<c>>
PROOF
<1> USE DEF Supplementary
<1>1. CASE c < 128
  <2>1. Utf8(c) = <<c>> /\ ByteCount(c) = 1
    BY <1>1, SMT DEF Utf8, ByteCount
  <2>2. Spread(c) = [i \in 1..1 |-> 0 + c \div 1]
    BY <2>1, SMT DEF Spread, Marks, Sixes
  <2>3. Spread(c) = <<c>>
    BY <2>2, SMT
  <2> QED BY <1>1, <2>1, <2>3, SMT
<1>2. CASE c >= 128 /\ c < 2048
  <2> DEFINE a == 192 + c \div 64
             b == 128 + (c % 64)
  <2>1. Utf8(c) = <<a, b>> /\ ByteCount(c) = 2 /\ a \in Nat /\ b \in Nat
    <3>1. ~(c < 128) /\ c < 2048
      BY <1>2
    <3>2. Utf8(c) = <<a, b>> /\ ByteCount(c) = 2
      BY <3>1, SMT DEF Utf8, ByteCount, Continuation
    <3>3. c \div 64 \in Nat /\ c % 64 \in Nat
      BY SMT
    <3> QED BY <3>2, <3>3
  <2>2. c \div 1 = c
    BY SMT
  <2>3. Spread(c) = [i \in 1..2 |-> IF i = 1 THEN a ELSE 128 + ((c \div Sixes[3 - i]) % 64)]
    BY <2>1, SMT DEF Spread, Marks, Sixes
  <2>4. Sixes[1] = 1
    BY SMT DEF Sixes
  <2>5. Spread(c) = [i \in 1..2 |-> IF i = 1 THEN a ELSE b]
    <3>1. \A i \in 1..2 : i = 1 \/ 3 - i = 1
      OBVIOUS
    <3>2. \A i \in 1..2 : i # 1 => 128 + ((c \div Sixes[3 - i]) % 64) = b
      BY <2>2, <2>4, <3>1, SMT
    <3> HIDE DEF a, b
    <3> QED BY <2>3, <3>2, SMT
  <2> HIDE DEF a, b
  <2>6. Spread(c) = <<a, b>>
    BY <2>5, SMT
  <2> QED BY <1>2, <2>1, <2>6, SMT
<1>3. CASE c >= 2048 /\ c < 65536
  <2> DEFINE a == 224 + c \div 4096
             b == 128 + ((c \div 64) % 64)
             d == 128 + (c % 64)
  <2>1. Utf8(c) = <<a, b, d>> /\ ByteCount(c) = 3 /\ a \in Nat /\ b \in Nat /\ d \in Nat
    <3>1. ~(c < 128) /\ ~(c < 2048) /\ c < 65536
      BY <1>3, SMT
    <3>2. Utf8(c) = <<a, b, d>> /\ ByteCount(c) = 3
      BY <3>1, SMT DEF Utf8, ByteCount, Continuation
    <3>3. c \div 4096 \in Nat /\ c \div 64 \in Nat /\ c % 64 \in Nat
      BY SMT
    <3>4. (c \div 64) % 64 \in Nat
      BY <3>3, SMT
    <3> QED BY <3>2, <3>3, <3>4, SMT
  <2>2. c \div 1 = c /\ Sixes[1] = 1 /\ Sixes[2] = 64
    BY SMT DEF Sixes
  <2>3. Spread(c) = [i \in 1..3 |-> IF i = 1 THEN a ELSE 128 + ((c \div Sixes[4 - i]) % 64)]
    BY <2>1, SMT DEF Spread, Marks, Sixes
  <2>4. Spread(c) = [i \in 1..3 |-> IF i = 1 THEN a ELSE IF i = 2 THEN b ELSE d]
    <3>1. \A i \in 1..3 : i = 1 \/ (i = 2 /\ 4 - i = 2) \/ (i = 3 /\ 4 - i = 1)
      BY SMT
    <3>2. \A i \in 1..3 : i # 1 => 128 + ((c \div Sixes[4 - i]) % 64) = IF i = 2 THEN b ELSE d
      BY <2>2, <3>1, SMT
    <3> HIDE DEF a, b, d
    <3> QED BY <2>3, <3>2, SMT
  <2> HIDE DEF a, b, d
  <2>5. Spread(c) = <<a, b, d>>
    BY <2>4, SMT
  <2> QED BY <1>3, <2>1, <2>5, SMT
<1>4. CASE c >= 65536
  <2> DEFINE a == 240 + c \div 262144
             b == 128 + ((c \div 4096) % 64)
             d == 128 + ((c \div 64) % 64)
             e == 128 + (c % 64)
  <2>1. Utf8(c) = <<a, b, d, e>> /\ ByteCount(c) = 4 /\ a \in Nat /\ b \in Nat /\ d \in Nat /\ e \in Nat
    <3>1. ~(c < 128) /\ ~(c < 2048) /\ ~(c < 65536)
      BY <1>4, SMT
    <3>2. Utf8(c) = <<a, b, d, e>> /\ ByteCount(c) = 4
      BY <3>1, SMT DEF Utf8, ByteCount, Continuation
    <3>3. c \div 262144 \in Nat /\ c \div 4096 \in Nat /\ c \div 64 \in Nat /\ c % 64 \in Nat
      BY SMT
    <3>4. (c \div 64) % 64 \in Nat /\ (c \div 4096) % 64 \in Nat
      BY <3>3, SMT
    <3> QED BY <3>2, <3>3, <3>4, SMT
  <2>2. c \div 1 = c /\ Sixes[1] = 1 /\ Sixes[2] = 64 /\ Sixes[3] = 4096
    BY SMT DEF Sixes
  <2>3. Spread(c) = [i \in 1..4 |-> IF i = 1 THEN a ELSE 128 + ((c \div Sixes[5 - i]) % 64)]
    BY <2>1, SMT DEF Spread, Marks, Sixes
  <2>4. Spread(c) = [i \in 1..4 |-> IF i = 1 THEN a ELSE IF i = 2 THEN b ELSE IF i = 3 THEN d ELSE e]
    <3>1. \A i \in 1..4 : \/ i = 1
                          \/ i = 2 /\ 5 - i = 3
                          \/ i = 3 /\ 5 - i = 2
                          \/ i = 4 /\ 5 - i = 1
      BY SMT
    <3>2. \A i \in 1..4 : i # 1 => 128 + ((c \div Sixes[5 - i]) % 64) =
                                     IF i = 2 THEN b ELSE IF i = 3 THEN d ELSE e
      BY <2>2, <3>1, SMT
    <3> HIDE DEF a, b, d, e
    <3> QED BY <2>3, <3>2, SMT
  <2> HIDE DEF a, b, d, e
  <2>5. Spread(c) = <<a, b, d, e>>
    BY <2>4, SMT
  <2> QED BY <1>4, <2>1, <2>5, SMT
<1> QED BY <1>1, <1>2, <1>3, <1>4, SMT

\* A literal is a number of 16 bits, which parse_hex4 and Unit agree on.
LEMMA CodeIs ==
  ASSUME input \in Seq(Byte), NEW i \in Nat, i > 0, i + 3 <= Len(input)
  PROVE  /\ Code(i) \in Nat /\ Code(i) < Supplementary
         /\ Code(i) # 0 => \A k \in 0..3 : IsHex(input[i + k])
         /\ \A s : /\ Len(s) \in Nat /\ i + 3 <= Len(s)
                   /\ \A k \in 0..3 : s[i + k] = input[i + k] /\ IsHex(input[i + k])
                   => Unit(s, i) = Code(i)
PROOF
<1> USE DEF Supplementary
<1>1. \A k \in 0..3 : input[i + k] \in Byte
  BY LenProperties, ElementOfSeq, SMT
<1>2. CASE \A k \in 0..3 : IsHex(input[i + k])
  <2> DEFINE a == HexValue(input[i])
             b == HexValue(input[i + 1])
             c == HexValue(input[i + 2])
             d == HexValue(input[i + 3])
  <2>1. /\ i + 0 = i /\ 0 \in 0..3 /\ 1 \in 0..3 /\ 2 \in 0..3 /\ 3 \in 0..3
    BY SMT
  <2>2. a \in 0..15 /\ b \in 0..15 /\ c \in 0..15 /\ d \in 0..15
    <3>1. \A k \in 0..3 : HexValue(input[i + k]) \in 0..15
      BY <1>1, <1>2, HexIs, Zenon
    <3> QED BY <2>1, <3>1, SMT
  <2>3. Code(i) = a * 4096 + b * 256 + c * 16 + d
    BY <1>2, SMT DEF Code
  <2>4. ASSUME NEW s, Len(s) \in Nat, i + 3 <= Len(s), \A k \in 0..3 : s[i + k] = input[i + k]
        PROVE  Unit(s, i) = 16 * (16 * (16 * a + b) + c) + d
    <3>1. s[i] = input[i] /\ s[i + 1] = input[i + 1] /\ s[i + 2] = input[i + 2]
          /\ s[i + 3] = input[i + 3]
      BY <2>1, <2>4, SMT
    <3>2. ~(i + 3 > Len(s))
      BY <2>4, SMT
    <3> QED BY <3>1, <3>2, Zenon DEF Unit
  <2> HIDE DEF a, b, c, d
  <2>5. 16 * (16 * (16 * a + b) + c) + d = a * 4096 + b * 256 + c * 16 + d
        /\ a * 4096 + b * 256 + c * 16 + d \in Nat /\ a * 4096 + b * 256 + c * 16 + d < 65536
    BY <2>2, SMT
  <2> QED BY <1>2, <2>3, <2>4, <2>5, SMT
<1>3. CASE ~\A k \in 0..3 : IsHex(input[i + k])
  <2>1. Code(i) = 0
    BY <1>3, SMT DEF Code
  <2> QED BY <1>3, <2>1, SMT
<1> QED BY <1>2, <1>3, SMT

\* What is read of a printed string: the pass finds the quote that was printed behind it,
\* and looks at each character of the string from its first one on.
LEMMA PrintedScans ==
  ASSUME NEW s \in Seq(Byte), NEW t, t = Append(Printed(s)[Len(s)], Quote)
  PROVE  /\ t \in Seq(Byte) /\ Len(t) = Measured(s) + 1 /\ EndOf(t) = Measured(s) + 1
         /\ \A i \in 1..Measured(s) : t[i] = Printed(s)[Len(s)][i]
PROOF
<1> DEFINE n == Len(s)
           m == Measured(s)
           N(k) == Need(s)[k]
           S == {k \in 0..n : Scan(t)[N(k) + 1].end = m + 1}
           T == {j \in 0..n : n - j \in S}
<1>1. n \in Nat /\ m \in Nat /\ m = N(n) /\ N(0) = 0
  BY LenProperties, NeedIs DEF Measured
<1>2. Printed(s)[n] \in Seq(Byte) /\ Len(Printed(s)[n]) = m /\ Quote \in Byte
  <2>1. n \in 0..n
    BY <1>1
  <2>2. Printed(s)[n] \in Seq(Byte) /\ Len(Printed(s)[n]) = m
    BY <2>1, PrintedIs DEF Measured
  <2> QED BY <2>2 DEF Quote, Byte
<1>3. /\ t \in Seq(Byte) /\ Len(t) = m + 1 /\ t[m + 1] = Quote
      /\ \A i \in 1..m : t[i] = Printed(s)[n][i]
  BY <1>1, <1>2, AppendProperties
<1>4. \A k \in 1..n :
        /\ N(k - 1) \in Nat /\ N(k) = N(k - 1) + Len(Escaped(s[k])) /\ N(k) <= m
        /\ Len(Escaped(s[k])) \in Nat
        /\ \A i \in 1..Len(Escaped(s[k])) : t[N(k - 1) + i] = Escaped(s[k])[i]
  <2> SUFFICES ASSUME NEW k \in 1..n
               PROVE  /\ N(k - 1) \in Nat /\ N(k) = N(k - 1) + Len(Escaped(s[k])) /\ N(k) <= m
                      /\ Len(Escaped(s[k])) \in Nat
                      /\ \A i \in 1..Len(Escaped(s[k])) : t[N(k - 1) + i] = Escaped(s[k])[i]
    OBVIOUS
  <2>1. /\ N(k - 1) \in Nat /\ N(k) = N(k - 1) + Len(Escaped(s[k])) /\ N(k) <= m
        /\ Len(Escaped(s[k])) \in Nat
        /\ \A i \in 1..Len(Escaped(s[k])) : Printed(s)[n][N(k - 1) + i] = Escaped(s[k])[i]
    BY PrintedAt
  <2> HIDE DEF N, m
  <2>2. \A i \in 1..Len(Escaped(s[k])) : N(k - 1) + i \in 1..m
    BY <1>1, <2>1
  <2> QED BY <1>3, <2>1, <2>2
<1> HIDE DEF n, m, N
<1>5. n \in S
  <2>1. m + 1 \in 1..(Len(t) + 2) /\ m + 1 <= Len(t) /\ n \in 0..n
    BY <1>1, <1>3
  <2>2. Scan(t)[m + 1].end = m + 1
    BY <1>3, <2>1, ScanFrom
  <2> QED BY <1>1, <2>1, <2>2
<1>6. ASSUME NEW k \in 1..n, k \in S PROVE k - 1 \in S
  <2> DEFINE i == N(k - 1) + 1
             e == Escaped(s[k])
  <2>1. /\ i \in Nat /\ i > 0 /\ Len(e) \in Nat /\ N(k) + 1 = i + Len(e) /\ i + Len(e) <= m + 1
        /\ k - 1 \in 0..n
    <3>1. N(k - 1) \in Nat /\ N(k) = N(k - 1) + Len(e) /\ N(k) <= m /\ Len(e) \in Nat
      BY <1>4
    <3> HIDE DEF e
    <3> QED BY <1>1, <3>1
  <2>2. \A j \in 1..Len(e) : t[i + j - 1] = e[j]
    <3>1. \A j \in 1..Len(e) : i + j - 1 = N(k - 1) + j
      BY <1>4
    <3> QED BY <1>4, <3>1
  <2>3. Scan(t)[i + Len(e)].end = m + 1
    BY <1>6, <2>1
  <2> HIDE DEF i
  <2>4. \A j \in 1..(m + 1) :
          /\ t[j] = Backslash => Scan(t)[j].end = Scan(t)[j + 2].end
          /\ t[j] # Quote /\ t[j] # Backslash => Scan(t)[j].end = Scan(t)[j + 1].end
    <3>1. \A j \in 1..(m + 1) : j \in 1..(Len(t) + 2) /\ j <= Len(t)
      BY <1>1, <1>3
    <3> QED BY <1>3, <3>1, ScanFrom
  <2>5. s[k] \in Byte /\ Quote # Backslash
    BY ElementOfSeq DEF n, Quote, Backslash
  <2>6. CASE s[k] > 31 /\ s[k] \notin {Quote, Backslash} /\ e = <<s[k]>>
    <3>1. Len(e) = 1 /\ e[1] = s[k] /\ i \in 1..(m + 1)
      BY <1>1, <2>1, <2>6
    <3>2. t[i] = s[k]
      <4>1. 1 \in 1..Len(e) /\ i + 1 - 1 = i
        BY <2>1, <3>1
      <4> QED BY <2>2, <3>1, <4>1
    <3> QED BY <2>1, <2>3, <2>4, <2>6, <3>1, <3>2 DEF i
  <2>7. ASSUME NEW c, e = <<Backslash, c>> PROVE k - 1 \in S
    <3>1. Len(e) = 2 /\ e[1] = Backslash /\ i \in 1..(m + 1)
      BY <1>1, <2>1, <2>7
    <3>2. t[i] = Backslash
      <4>1. 1 \in 1..Len(e) /\ i + 1 - 1 = i
        BY <2>1, <3>1
      <4> QED BY <2>2, <3>1, <4>1
    <3> QED BY <2>1, <2>3, <2>4, <3>1, <3>2 DEF i
  <2>8. CASE /\ s[k] \in 1..31
             /\ e = <<Backslash, u, 48, 48, IF s[k] < 16 THEN 48 ELSE 49, HexDigit(s[k] % 16)>>
    <3> DEFINE g == IF s[k] < 16 THEN 48 ELSE 49
               h == HexDigit(s[k] % 16)
    <3>1. g \in 48..57 /\ h \in 48..57 \cup 97..102
      <4>1. s[k] \in 0..31
        BY <2>8
      <4>2. h \in 48..57 \cup 97..102
        BY <4>1, HexDigits
      <4>3. g \in {48, 49}
        OBVIOUS
      <4> HIDE DEF g, h
      <4> QED BY <4>2, <4>3
    <3> HIDE DEF g, h
    <3>2. e = <<Backslash, u, 48, 48, g, h>>
      BY <2>8 DEF g, h
    <3>3. Len(e) = 6 /\ e[1] = Backslash /\ e[3] = 48 /\ e[4] = 48 /\ e[5] = g /\ e[6] = h
      BY <3>2
    <3>4. i \in 1..(m + 1) /\ i + 2 \in 1..(m + 1) /\ i + 2 + 3 <= m + 1
      BY <1>1, <2>1, <3>3
    <3>5. t[i] = Backslash /\ t[i + 2] = 48 /\ t[i + 3] = 48 /\ t[i + 4] = g /\ t[i + 5] = h
      <4>1. i + 1 - 1 = i /\ i + 3 - 1 = i + 2 /\ i + 4 - 1 = i + 3 /\ i + 5 - 1 = i + 4
            /\ i + 6 - 1 = i + 5
        BY <2>1
      <4>2. 1 \in 1..Len(e) /\ 3 \in 1..Len(e) /\ 4 \in 1..Len(e) /\ 5 \in 1..Len(e) /\ 6 \in 1..Len(e)
        BY <3>3
      <4>3. /\ t[i + 1 - 1] = e[1] /\ t[i + 3 - 1] = e[3] /\ t[i + 4 - 1] = e[4]
            /\ t[i + 5 - 1] = e[5] /\ t[i + 6 - 1] = e[6]
        <5> HIDE DEF e
        <5> QED BY <2>2, <4>2
      <4> HIDE DEF e
      <4> QED BY <3>3, <4>1, <4>3
    <3>6. \A j \in 0..3 : IsHex(t[i + 2 + j])
      <4>1. \A j \in 0..3 : j = 0 \/ j = 1 \/ j = 2 \/ j = 3
        OBVIOUS
      <4>2. i + 2 + 0 = i + 2 /\ i + 2 + 1 = i + 3 /\ i + 2 + 2 = i + 4 /\ i + 2 + 3 = i + 5
        BY <2>1
      <4>3. IsHex(t[i + 2]) /\ IsHex(t[i + 3]) /\ IsHex(t[i + 4]) /\ IsHex(t[i + 5])
        BY <3>1, <3>5 DEF IsHex
      <4> QED BY <4>1, <4>2, <4>3
    <3>7. Scan(t)[i + 2] = Scan(t)[i + 2 + 4] /\ i + 2 + 4 = i + Len(e)
      <4>1. i + 2 \in 1..Len(t) /\ i + 2 + 3 <= Len(t) /\ i + 2 + 4 = i + 6
        BY <1>1, <1>3, <2>1, <3>4
      <4>2. Scan(t)[i + 2] = Scan(t)[i + 2 + 4]
        BY <1>3, <3>6, <4>1, ScanDigits
      <4> QED BY <3>3, <4>1, <4>2
    <3>8. Scan(t)[i].end = m + 1
      <4>1. Scan(t)[i + 2].end = m + 1
        BY <2>3, <3>7
      <4>2. Scan(t)[i].end = Scan(t)[i + 2].end
        BY <2>4, <3>4, <3>5
      <4> QED BY <4>1, <4>2
    <3> QED BY <2>1, <3>8 DEF i
  <2> QED BY <2>5, <2>6, <2>7, <2>8, EscapedIs
<1> HIDE DEF S
<1>7. 0 \in T /\ \A j \in 1..n : j - 1 \in T => j \in T
  <2>1. 0 \in T
    BY <1>1, <1>5
  <2>2. ASSUME NEW j \in 1..n, j - 1 \in T PROVE j \in T
    <3>1. n - (j - 1) \in 1..n /\ (n - (j - 1)) - 1 = n - j /\ n - (j - 1) \in S /\ j \in 0..n
      BY <1>1, <2>2
    <3> QED BY <1>6, <3>1
  <2> QED BY <2>1, <2>2
<1> HIDE DEF T
<1>8. 0..n \subseteq T
  BY <1>1, <1>7, BoundedInduction
<1>9. 0 \in S
  <2>1. n \in T /\ n - n = 0
    BY <1>1, <1>8
  <2> QED BY <2>1 DEF T
<1> QED BY <1>1, <1>3, <1>9 DEF S, EndOf, m, n

-----------------------------------------------------------------------------
(* What is read fits the bytes that the first pass has asked for.          *)

\* The text is read up to position i and n bytes are written: with the backslashes that
\* the first pass has stepped over up to there, or by the next position, they are not
\* more than the characters that are read.  A literal of wrong digits can make the second
\* pass step over the closing quote, by one.
Within(t, i, n) ==
  \/ i = EndOf(t) + 1 /\ n + Scan(t)[1].skipped <= EndOf(t)
  \/ \E b \in {i, i + 1} :
       Boundary(t, b) /\ n + (Scan(t)[1].skipped - Scan(t)[b].skipped) <= i - 1

LEMMA WithinStarts ==
  ASSUME NEW t \in Seq(Byte), EndOf(t) # 0
  PROVE  Within(t, 1, 0)
PROOF
<1>1. Boundary(t, 1) /\ Scan(t)[1].skipped \in Nat
  BY ScanEnds
<1>2. 0 + (Scan(t)[1].skipped - Scan(t)[1].skipped) <= 1 - 1 /\ 1 \in {1, 1 + 1}
  BY <1>1
<1> QED BY <1>1, <1>2, Zenon DEF Within

LEMMA WithinPlain ==
  ASSUME NEW t \in Seq(Byte), EndOf(t) # 0, NEW i \in Nat, i < EndOf(t), NEW n \in Nat,
         Within(t, i, n), t[i] # Backslash
  PROVE  Within(t, i + 1, n + 1)
PROOF
<1> DEFINE e == EndOf(t)
           k(b) == Scan(t)[b].skipped
<1>1. e \in Nat /\ k(1) \in Nat
  BY ScanEnds
<1>2. PICK b \in {i, i + 1} : Boundary(t, b) /\ n + (k(1) - k(b)) <= i - 1
  BY <1>1 DEF Within
<1>3. b \in Nat /\ k(b) \in Nat
  <2>1. b \in Nat
    OBVIOUS
  <2> QED BY <1>2, <2>1, ScanEnds
<1>4. \E c \in {i + 1, i + 1 + 1} : Boundary(t, c) /\ k(c) = k(b)
  <2>1. CASE b = i
    <3>1. Boundary(t, i + 1) /\ Scan(t)[i].skipped = Scan(t)[i + 1].skipped
      BY <1>1, <1>2, <2>1, ScanGoesOn
    <3> QED BY <2>1, <3>1
  <2>2. CASE b = i + 1
    BY <1>2, <2>2
  <2> QED BY <2>1, <2>2
<1>5. PICK c \in {i + 1, i + 1 + 1} : Boundary(t, c) /\ k(c) = k(b)
  BY <1>4
<1>6. (n + 1) + (k(1) - k(c)) <= (i + 1) - 1
  <2> DEFINE x == k(1)
             y == k(b)
             z == k(c)
  <2>1. x \in Nat /\ y \in Nat /\ z = y /\ n + (x - y) <= i - 1
    BY <1>1, <1>2, <1>3, <1>5
  <2> HIDE DEF x, y, z
  <2>2. (n + 1) + (x - z) <= (i + 1) - 1
    BY <2>1
  <2> QED BY <2>2 DEF x, z
<1> QED BY <1>5, <1>6 DEF Within

LEMMA WithinJump ==
  ASSUME NEW t \in Seq(Byte), EndOf(t) # 0, NEW i \in Nat, i < EndOf(t), NEW n \in Nat,
         Within(t, i, n), t[i] = Backslash, NEW w \in {2, 6, 12}, NEW l \in Nat, 2 * l <= w,
         w > 2 => i + w <= EndOf(t)
  PROVE  Within(t, i + w, n + l)
PROOF
<1> DEFINE e == EndOf(t)
           k(b) == Scan(t)[b].skipped
<1>1. e \in Nat /\ k(1) \in Nat /\ k(e) = 0 /\ i < e /\ (w > 2 => i + w <= e)
  BY ScanEnds
<1>2. PICK b \in {i, i + 1} : Boundary(t, b) /\ n + (k(1) - k(b)) <= i - 1
  BY <1>1 DEF Within
<1>3. b \in Nat /\ k(b) \in Nat
  <2>1. b \in Nat
    OBVIOUS
  <2> QED BY <1>2, <2>1, ScanEnds
<1>4. CASE i + w <= e
  <2>1. i + w \in b..e
    <3> HIDE DEF e, k
    <3> QED BY <1>1, <1>3, <1>4
  <2>2. PICK c \in {i + w, i + w + 1} : Boundary(t, c) /\ 2 * (k(b) - k(c)) <= c - b
    BY <1>2, <1>3, <2>1, ScanReaches
  <2>3. c \in Nat /\ k(c) \in Nat
    <3>1. c \in Nat
      OBVIOUS
    <3> QED BY <2>2, <3>1, ScanEnds
  <2>4. (n + l) + (k(1) - k(c)) <= (i + w) - 1
    <3> DEFINE x == k(1)
               y == k(b)
               z == k(c)
    <3>1. x \in Nat /\ y \in Nat /\ z \in Nat /\ n + (x - y) <= i - 1 /\ 2 * (y - z) <= c - b
      BY <1>1, <1>2, <1>3, <2>2, <2>3
    <3> HIDE DEF x, y, z
    <3>2. c - b <= w + 1
      BY <1>3, <2>3
    <3>3. 2 * (y - z) <= w + 1
      BY <1>3, <2>3, <3>1, <3>2
    <3>4. (y - z) + l <= w
      BY <3>1, <3>3
    <3>5. (n + l) + (x - z) <= (i + w) - 1
      BY <3>1, <3>4
    <3> QED BY <3>5 DEF x, z
  <2> QED BY <2>2, <2>4 DEF Within
<1>5. CASE ~(i + w <= e)
  <2>1. w = 2 /\ i + 1 = e /\ i + w = e + 1
    <3> HIDE DEF e, k
    <3> QED BY <1>1, <1>5
  <2>2. b = e
    <3>1. CASE b = i
      <4>1. Boundary(t, i + 2)
        BY <1>1, <1>2, <3>1, ScanGoesOn
      <4>2. i + 2 <= e
        BY <4>1, ScanEnds
      <4> QED BY <1>1, <2>1, <4>2
    <3>2. CASE b = i + 1
      BY <2>1, <3>2
    <3> QED BY <3>1, <3>2
  <2>3. (n + l) + k(1) <= e
    <3> DEFINE x == k(1)
    <3>1. x \in Nat /\ n + (x - 0) <= i - 1 /\ l <= 1
      BY <1>1, <1>2, <2>1, <2>2
    <3> HIDE DEF x, e
    <3>2. (n + l) + x <= e
      BY <1>1, <2>1, <3>1
    <3> QED BY <3>2 DEF x
  <2> QED BY <2>1, <2>3 DEF Within
<1> QED BY <1>4, <1>5

\* Then the bytes and the null character have room.
LEMMA WithinFits ==
  ASSUME NEW t \in Seq(Byte), EndOf(t) # 0, NEW i \in Nat, NEW n \in Nat, Within(t, i, n)
  PROVE  n + 1 <= Room(t) + 1 /\ Room(t) \in Nat
PROOF
<1> DEFINE e == EndOf(t)
           k(b) == Scan(t)[b].skipped
<1>1. e \in Nat /\ k(1) \in Nat /\ 2 * k(1) <= e - 1
  <2>1. e \in 1..Len(t) /\ Boundary(t, 1)
    BY ScanEnds
  <2>2. Len(t) \in Nat /\ 1 \in Nat
    BY LenProperties
  <2>3. k(1) \in Nat /\ 2 * k(1) <= e - 1
    BY <2>1, <2>2, ScanEnds
  <2> HIDE DEF e, k
  <2> QED BY <2>1, <2>2, <2>3
<1>2. Room(t) = e - k(1)
  BY DEF Room
<1>3. ASSUME n + k(1) <= e PROVE n + 1 <= Room(t) + 1 /\ Room(t) \in Nat
  <2> DEFINE x == k(1)
             r == Room(t)
  <2>1. x \in Nat /\ 2 * x <= e - 1 /\ r = e - x /\ n + x <= e /\ e \in Nat
    BY <1>1, <1>2, <1>3
  <2> HIDE DEF x, r, e
  <2>2. n + 1 <= r + 1 /\ r \in Nat
    BY <2>1
  <2> QED BY <2>2 DEF r
<1>4. ASSUME NEW b \in {i, i + 1}, Boundary(t, b), n + (k(1) - k(b)) <= i - 1
      PROVE  n + k(1) <= e
  <2>1. b \in Nat
    OBVIOUS
  <2>2. k(b) \in Nat /\ 2 * k(b) <= e - b
    BY <1>4, <2>1, ScanEnds
  <2> DEFINE x == k(1)
             y == k(b)
  <2>3. x \in Nat /\ y \in Nat /\ 2 * y <= e - b /\ n + (x - y) <= i - 1 /\ b >= i
    BY <1>1, <1>4, <2>2
  <2> HIDE DEF x, y, e
  <2>4. n + x <= e
    BY <1>1, <2>1, <2>3
  <2> QED BY <2>4 DEF x
<1> HIDE DEF e, k
<1> QED BY <1>3, <1>4 DEF Within, e, k

-----------------------------------------------------------------------------
(* What a text means.                                                      *)

\* The values the meaning of a text is made of: numbers, and what would stand behind a
\* text that ends in a backslash.
Values(s) == Int \cup {s[Len(s) + 1]}

LEMMA StandsIs ==
  ASSUME NEW s \in Seq(Byte), NEW i \in 1..Len(s)
  PROVE  Stands(s, i) \in Seq(Values(s)) /\ Width(s, i) \in 1..12
PROOF
<1> DEFINE Bytes == \A x \in Byte : x \in Int
<1>a. Bytes
  BY DEF Byte
<1>b. \A j \in 1..Len(s) : s[j] \in Int
  BY <1>a, ElementOfSeq
<1> HIDE DEF Bytes
<1>1. Len(s) \in Nat /\ s[i] \in Int
  BY <1>b, LenProperties
<1>2. \A j \in 1..Len(s) : HexValue(s[j]) \in Int
  <2> SUFFICES ASSUME NEW j \in 1..Len(s) PROVE HexValue(s[j]) \in Int
    OBVIOUS
  <2>1. s[j] \in Int
    BY <1>b
  <2> QED BY <2>1 DEF HexValue
<1>3. \A j \in Nat : j > 0 => Unit(s, j) \in Int
  <2> SUFFICES ASSUME NEW j \in Nat, j > 0 PROVE Unit(s, j) \in Int
    OBVIOUS
  <2>1. CASE j + 3 > Len(s)
    BY <2>1 DEF Unit
  <2>2. CASE ~(j + 3 > Len(s))
    <3> DEFINE a == HexValue(s[j])
               b == HexValue(s[j + 1])
               c == HexValue(s[j + 2])
               d == HexValue(s[j + 3])
    <3>1. j \in 1..Len(s) /\ j + 1 \in 1..Len(s) /\ j + 2 \in 1..Len(s) /\ j + 3 \in 1..Len(s)
      BY <1>1, <2>2
    <3>2. a \in Int /\ b \in Int /\ c \in Int /\ d \in Int
      BY <1>2, <3>1
    <3>3. Unit(s, j) = 16 * (16 * (16 * a + b) + c) + d
      BY <2>2, Zenon DEF Unit
    <3> HIDE DEF a, b, c, d
    <3> QED BY <3>2, <3>3
  <2> QED BY <2>1, <2>2
<1>4. CodePoint(s, i) \in Int
  <2>1. i + 2 \in Nat /\ i + 8 \in Nat /\ i + 2 > 0 /\ i + 8 > 0
    OBVIOUS
  <2>2. Unit(s, i + 2) \in Int /\ Unit(s, i + 8) \in Int
    BY <1>3, <2>1
  <2>3. \A x \in Int : x % 1024 \in Int
    BY SMT
  <2>4. 65536 + 1024 * (Unit(s, i + 2) % 1024) + (Unit(s, i + 8) % 1024) \in Int
    BY <2>2, <2>3, SMT
  <2> DEFINE x == 65536 + 1024 * (Unit(s, i + 2) % 1024) + (Unit(s, i + 8) % 1024)
             y == Unit(s, i + 2)
  <2>5. CodePoint(s, i) = IF IsTwo(s, i) THEN x ELSE y
    BY SMT DEF CodePoint
  <2> HIDE DEF x, y
  <2>6. x \in Int /\ y \in Int
    BY <2>2, <2>4, SMT DEF x, y
  <2> QED BY <2>5, <2>6
<1>5. \A c \in Int : Spread(c) \in Seq(Int)
  <2> SUFFICES ASSUME NEW c \in Int PROVE Spread(c) \in Seq(Int)
    OBVIOUS
  <2> DEFINE n == ByteCount(c)
             At(j) == IF j = 1 THEN Marks[n] + c \div Sixes[n]
                      ELSE 128 + ((c \div Sixes[n + 1 - j]) % 64)
  <2>1. n \in 1..4
    BY DEF ByteCount
  <2>2. \A k \in 1..4 : Marks[k] \in Int /\ Sixes[k] \in Int /\ Sixes[k] > 0
    BY SMT DEF Marks, Sixes
  <2>3. \A k \in 1..4 : c \div Sixes[k] \in Int
    <3>1. Sixes[1] = 1 /\ Sixes[2] = 64 /\ Sixes[3] = 4096 /\ Sixes[4] = 262144
      BY SMT DEF Sixes
    <3>2. c \div 1 \in Int /\ c \div 64 \in Int /\ c \div 4096 \in Int /\ c \div 262144 \in Int
      BY SMT
    <3>3. \A k \in 1..4 : k = 1 \/ k = 2 \/ k = 3 \/ k = 4
      OBVIOUS
    <3> QED BY <3>1, <3>2, <3>3, SMT
  <2>4. \A x \in Int : x % 64 \in Int
    OBVIOUS
  <2> HIDE DEF n
  <2>5. \A j \in 1..n : At(j) \in Int
    <3> SUFFICES ASSUME NEW j \in 1..n PROVE At(j) \in Int
      OBVIOUS
    <3>1. n + 1 - j \in 1..4
      BY <2>1
    <3>2. c \div Sixes[n + 1 - j] \in Int /\ c \div Sixes[n] \in Int /\ Marks[n] \in Int
      BY <2>1, <2>2, <2>3, <3>1
    <3> QED BY <2>4, <3>2
  <2>6. Spread(c) = [j \in 1..n |-> At(j)]
    BY DEF Spread, n
  <2> HIDE DEF At
  <2>7. Spread(c) \in [1..n -> Int]
    BY <2>5, <2>6
  <2> QED BY <2>1, <2>7
<1>6. \A x \in Seq(Int) : x \in Seq(Values(s))
  BY SeqMonotonic DEF Values
<1>7. Stands(s, i) \in Seq(Values(s))
  <2>1. CASE s[i] # Backslash
    <3>1. Stands(s, i) = <<s[i]>>
      BY <2>1 DEF Stands
    <3> QED BY <1>1, <3>1 DEF Values
  <2>2. CASE s[i] = Backslash /\ IsLiteral(s, i)
    <3>1. Stands(s, i) = Spread(CodePoint(s, i))
      BY <2>2 DEF Stands
    <3> QED BY <1>4, <1>5, <1>6, <3>1
  <2>3. CASE s[i] = Backslash /\ ~IsLiteral(s, i) /\ IsLetter(s[i + 1])
    <3>1. Stands(s, i) = <<FromLetter(s[i + 1])>>
      BY <2>3 DEF Stands
    <3>2. FromLetter(s[i + 1]) \in Int
      BY <2>3, Letters
    <3> QED BY <3>1, <3>2 DEF Values
  <2>4. CASE s[i] = Backslash /\ ~IsLiteral(s, i) /\ ~IsLetter(s[i + 1])
    <3>1. Stands(s, i) = <<s[i + 1]>>
      BY <2>4 DEF Stands
    <3>2. s[i + 1] \in Values(s)
      <4>1. i + 1 \in 1..Len(s) \/ i = Len(s)
        BY <1>1
      <4> QED BY <1>b, <4>1 DEF Values
    <3> QED BY <3>1, <3>2
  <2> QED BY <2>1, <2>2, <2>3, <2>4
<1>8. Width(s, i) \in 1..12
  BY DEF Width
<1> QED BY <1>7, <1>8

\* A text means what it stands for at a position, and what it means behind that.
LEMMA MeaningFrom ==
  ASSUME NEW s \in Seq(Byte)
  PROVE  \A i \in 1..(Len(s) + 12) :
           /\ Meaning(s)[i] \in Seq(Values(s))
           /\ i > Len(s) => Meaning(s)[i] = <<>>
           /\ i <= Len(s) => Meaning(s)[i] = Stands(s, i) \o Meaning(s)[i + Width(s, i)]
PROOF
<1> DEFINE n == Len(s)
           m == n + 12
           V == Seq(Values(s))
           jump == [i \in 1..n |-> i + Width(s, i)]
           step == [x \in (1..n) \X V |-> Stands(s, x[1]) \o x[2]]
<1>1. n \in Nat /\ m \in Nat /\ n <= m /\ m = n + 12 /\ <<>> \in V
  BY LenProperties
<1>2. \A i \in 1..n : Stands(s, i) \in V
  BY StandsIs
<1>w. \A i \in 1..n : i + Width(s, i) \in (i + 1)..m /\ i + Width(s, i) \in 1..m
  <2> SUFFICES ASSUME NEW i \in 1..n
               PROVE  i + Width(s, i) \in (i + 1)..m /\ i + Width(s, i) \in 1..m
    OBVIOUS
  <2>1. Width(s, i) \in 1..12
    BY StandsIs
  <2> DEFINE w == Width(s, i)
  <2>2. w \in 1..12 /\ n \in Nat /\ m = n + 12 /\ i \in 1..n
    BY <1>1, <2>1
  <2> HIDE DEF m, n, V, w
  <2>3. i + w \in (i + 1)..m /\ i + w \in 1..m
    BY <2>2
  <2> QED BY <2>3 DEF w
<1>3. jump \in [1..n -> 1..m] /\ \A i \in 1..n : jump[i] > i /\ jump[i] = i + Width(s, i)
  <2> HIDE DEF m, n, V
  <2>1. \A i \in 1..n : jump[i] = i + Width(s, i)
    OBVIOUS
  <2>2. jump \in [1..n -> 1..m]
    BY <1>w
  <2>3. \A i \in 1..n : jump[i] > i
    BY <1>1, <1>w, <2>1
  <2> QED BY <2>1, <2>2, <2>3
<1>4. \A i \in 1..n, v \in V : Stands(s, i) \o v \in V
  BY <1>2, ConcatProperties
<1>5. step \in [(1..n) \X V -> V]
  <2> HIDE DEF V
  <2> QED BY <1>4
<1>6. \A i \in 1..n, v \in V : step[<<i, v>>] = Stands(s, i) \o v
  <2> HIDE DEF V
  <2> QED OBVIOUS
<1> HIDE DEF step, jump, V, n, m
<1>7. Descents(V, <<>>, n, m, jump, step) # {}
  BY <1>1, <1>3, <1>5, DescentExists
<1>8. PICK f \in Descents(V, <<>>, n, m, jump, step) : TRUE
  BY <1>7
<1>9. f \in [1..m -> V]
      /\ \A i \in 1..m : f[i] = IF i > n THEN <<>> ELSE step[<<i, f[jump[i]]>>]
  BY <1>8 DEF Descents
<1> DEFINE At(g, i) == IF i > n THEN <<>> ELSE Stands(s, i) \o g[i + Width(s, i)]
<1>10. \A i \in 1..m : f[i] = At(f, i)
  <2> SUFFICES ASSUME NEW i \in 1..m PROVE f[i] = At(f, i)
    OBVIOUS
  <2>1. CASE i > n
    BY <1>9, <2>1
  <2>2. CASE i \in 1..n
    <3>1. jump[i] \in 1..m /\ f[jump[i]] \in V
      BY <1>3, <1>9, <2>2
    <3>2. f[i] = step[<<i, f[jump[i]]>>] /\ ~(i > n)
      BY <1>1, <1>9, <2>2
    <3>3. f[i] = Stands(s, i) \o f[jump[i]]
      BY <1>6, <2>2, <3>1, <3>2
    <3> QED BY <1>3, <2>2, <3>2, <3>3, Zenon
  <2> QED BY <1>1, <2>1, <2>2
<1>11. f = [i \in 1..m |-> At(f, i)]
  <2> HIDE DEF At
  <2> QED BY <1>9, <1>10
<1>12. Meaning(s) = [i \in 1..m |-> At(Meaning(s), i)]
  BY <1>11, Zenon DEF Meaning, m, n
<1>13. \A i \in 1..m : Meaning(s)[i] = At(Meaning(s), i)
  <2> HIDE DEF At
  <2> QED BY <1>12
<1> DEFINE S == {i \in 1..m : Meaning(s)[i] \in V}
<1>14. \A i \in 1..m : (\A j \in (i + 1)..m : j \in S) => i \in S
  <2> SUFFICES ASSUME NEW i \in 1..m, \A j \in (i + 1)..m : j \in S PROVE Meaning(s)[i] \in V
    OBVIOUS
  <2>1. CASE i > n
    BY <1>1, <1>13, <2>1
  <2>2. CASE i \in 1..n
    <3>1. i + Width(s, i) \in (i + 1)..m /\ ~(i > n)
      BY <1>1, <1>w, <2>2
    <3>2. Meaning(s)[i + Width(s, i)] \in V
      BY <3>1
    <3>3. Meaning(s)[i] = Stands(s, i) \o Meaning(s)[i + Width(s, i)]
      BY <1>13, <3>1
    <3> QED BY <1>4, <2>2, <3>2, <3>3
  <2> QED BY <1>1, <2>1, <2>2
<1> HIDE DEF S
<1>15. 1..m \subseteq S
  BY <1>1, <1>14, DownwardInduction
<1>16. \A i \in 1..m : Meaning(s)[i] \in V
  BY <1>15 DEF S
<1>17. \A i \in 1..m : i > n => Meaning(s)[i] = <<>>
  BY <1>13
<1>18. \A i \in 1..m : i <= n => Meaning(s)[i] = Stands(s, i) \o Meaning(s)[i + Width(s, i)]
  <2>1. \A i \in 1..m : i <= n => ~(i > n)
    BY <1>1
  <2> QED BY <1>13, <2>1
<1> QED BY <1>16, <1>17, <1>18 DEF V, m, n

-----------------------------------------------------------------------------
(* One step of parse_string.                                               *)

StringTypes ==
  /\ string \in Seq(Byte) /\ input \in Seq(Byte) /\ at \in Nat /\ at > 0
  /\ output \in Seq(Nat) /\ room \in Nat
  /\ doing \in {"print", "parse", "done", "failed"}

LEMMA BytesAreNumbers == Byte \subseteq Nat
BY DEF Byte

LEMMA SmallIsNoSurrogate == \A c \in Nat : c < 128 => c \notin High /\ c \notin Low
PROOF
<1>1. \A c \in Nat : c < 128 => c \notin High
  BY SMT DEF High
<1>2. \A c \in Nat : c < 128 => c \notin Low
  BY SMT DEF Low
<1> QED BY <1>1, <1>2, Zenon

LEMMA SurrogatesAre ==
  /\ \A c \in High : c \in Nat /\ c >= 55296 /\ c < 56320 /\ c % 1024 = c - 55296
  /\ \A c \in Low : c \in Nat /\ c >= 56320 /\ c < 57344 /\ c % 1024 = c - 56320
PROOF
<1>1. \A c \in High : c \in Nat /\ c >= 55296 /\ c < 56320
  BY SMT DEF High
<1>2. \A c \in Low : c \in Nat /\ c >= 56320 /\ c < 57344
  BY SMT DEF Low
<1>3. \A c \in Nat : c >= 55296 /\ c < 56320 => c % 1024 = c - 55296
  BY SMT
<1>4. \A c \in Nat : c >= 56320 /\ c < 57344 => c % 1024 = c - 56320
  BY SMT
<1> QED BY <1>1, <1>2, <1>3, <1>4, SMT

\* Two literals that belong together make a code point above 65535.
LEMMA PairCodeIs ==
  ASSUME Code(at + 2) \in High, Code(at + 8) \in Low
  PROVE  PairCode \in Nat
PROOF
<1> DEFINE h == Code(at + 2)
           l == Code(at + 8)
<1>1. h \in Nat /\ h >= 55296 /\ l \in Nat /\ l >= 56320
  BY SurrogatesAre, SMT
<1>2. PairCode = 65536 + (h - 55296) * 1024 + (l - 56320)
  BY SMT DEF PairCode
<1> HIDE DEF h, l
<1> QED BY <1>1, <1>2, SMT

\* A letter is neither the quote, the backslash, the slash nor the u.
LEMMA LettersAreOther ==
  \A l : IsLetter(l) => l \in Nat /\ l # u /\ l \notin {Quote, Backslash, 47}
BY Letters DEF u, Quote, Backslash

LEMMA LettersAreNumbers == \A l : IsLetter(l) => FromLetter(l) \in Nat
PROOF
<1> SUFFICES ASSUME NEW l, IsLetter(l) PROVE FromLetter(l) \in Nat
  OBVIOUS
<1>1. l \in {98, 102, 110, 114, 116}
  BY Letters
<1> QED BY <1>1, Letters

LEMMA MarksDiffer ==
  u # Quote /\ u # Backslash /\ Quote # Backslash /\ u # 47 /\ 47 \notin {Quote, Backslash}
BY DEF u, Quote, Backslash

\* A step reads a character and writes it, or reads an escape and writes half as many
\* bytes at most; it goes past the closing quote at a backslash before it only.
LEMMA ReadsOn ==
  ASSUME StringTypes, EndOf(input) # 0, ReadCharacter
  PROVE  /\ at < EndOf(input) /\ output' \in Seq(Nat) /\ at' \in Nat /\ at' > 0
         /\ \/ input[at] # Backslash /\ at' = at + 1 /\ Len(output') = Len(output) + 1
            \/ /\ input[at] = Backslash
               /\ \E w \in {2, 6, 12}, l \in Nat :
                    /\ at' = at + w /\ (w > 2 => at + w <= EndOf(input)) /\ 2 * l <= w
                    /\ Len(output') = Len(output) + l
PROOF
<1>1. input \in Seq(Byte) /\ at \in Nat /\ at > 0 /\ output \in Seq(Nat) /\ Len(output) \in Nat
      /\ Len(input) \in Nat
  BY LenProperties DEF StringTypes
<1>2. EndOf(input) \in 1..Len(input) /\ at < EndOf(input)
  BY <1>1, ScanEnds DEF ReadCharacter, End
<1>3. \A i \in 1..EndOf(input) : input[i] \in Nat
  <2>1. \A i \in 1..EndOf(input) : i \in 1..Len(input)
    BY <1>1, <1>2
  <2>2. \A i \in 1..Len(input) : input[i] \in Byte
    BY <1>1, ElementOfSeq
  <2> QED BY <2>1, <2>2, BytesAreNumbers
<1>4. at \in 1..EndOf(input) /\ at + 1 \in 1..EndOf(input)
  BY <1>1, <1>2
<1>5. input[at] \in Nat /\ input[at + 1] \in Nat
  BY <1>3, <1>4
<1>6. \A v \in Nat : Append(output, v) \in Seq(Nat) /\ Len(Append(output, v)) = Len(output) + 1
  BY <1>1, AppendProperties
<1>7. CASE input[at] # Backslash
  <2>1. output' = Append(output, input[at]) /\ at' = at + 1
    BY <1>7 DEF ReadCharacter
  <2> QED BY <1>1, <1>2, <1>5, <1>6, <1>7, <2>1
<1>8. ASSUME NEW v \in Nat, input[at] = Backslash, output' = Append(output, v), at' = at + 2
      PROVE  /\ output' \in Seq(Nat) /\ at' \in Nat /\ at' > 0
             /\ \E w \in {2, 6, 12}, l \in Nat :
                    /\ at' = at + w /\ (w > 2 => at + w <= EndOf(input)) /\ 2 * l <= w
                    /\ Len(output') = Len(output) + l
  <2>1. output' \in Seq(Nat) /\ at' \in Nat /\ at' > 0 /\ Len(output') = Len(output) + 1
    BY <1>1, <1>6, <1>8
  <2>2. 2 \in {2, 6, 12} /\ 1 \in Nat /\ ~(2 > 2) /\ 2 * 1 <= 2
    OBVIOUS
  <2> QED BY <1>8, <2>1, <2>2
<1>9. ASSUME NEW c \in Nat, NEW w \in {6, 12}, input[at] = Backslash,
             output' = output \o Utf8(c), at' = at + w, at + w <= EndOf(input),
             w = 6 => c < Supplementary
      PROVE  /\ output' \in Seq(Nat) /\ at' \in Nat /\ at' > 0
             /\ \E v \in {2, 6, 12}, l \in Nat :
                    /\ at' = at + v /\ (v > 2 => at + v <= EndOf(input)) /\ 2 * l <= v
                    /\ Len(output') = Len(output) + l
  <2> DEFINE l == Len(Utf8(c))
  <2>1. Utf8(c) \in Seq(Nat) /\ l \in 1..4 /\ (c < Supplementary => l \in 1..3)
    BY Utf8Is
  <2>2. output' \in Seq(Nat) /\ Len(output') = Len(output) + l
    BY <1>1, <1>9, <2>1, ConcatProperties
  <2> HIDE DEF l
  <2>3. (w = 6 \/ w = 12) /\ (w = 6 => l \in 1..3)
    BY <1>9, <2>1, SMT
  <2>4. 2 * l <= w /\ l \in Nat /\ w \in {2, 6, 12} /\ at' \in Nat /\ at' > 0
    <3>1. at' = at + w
      BY <1>9
    <3> QED BY <1>1, <2>1, <2>3, <3>1
  <2>5. at' = at + w /\ at + w <= EndOf(input)
    BY <1>9
  <2> HIDE <1>9
  <2> QED BY <2>2, <2>4, <2>5
<1>10. CASE input[at] = Backslash
  <2>1. \/ /\ IsLetter(input[at + 1])
           /\ output' = Append(output, FromLetter(input[at + 1])) /\ at' = at + 2
        \/ output' = Append(output, input[at + 1]) /\ at' = at + 2
        \/ /\ IsSingle /\ output' = output \o Utf8(Code(at + 2)) /\ at' = at + 6
        \/ /\ IsPair /\ output' = output \o Utf8(PairCode) /\ at' = at + 12
    BY <1>10, Zenon DEF ReadCharacter
  <2>2. ASSUME IsLetter(input[at + 1]) PROVE FromLetter(input[at + 1]) \in Nat
    BY <2>2, LettersAreNumbers, Zenon
  <2>3. ASSUME IsSingle
        PROVE  Code(at + 2) \in Nat /\ Code(at + 2) < Supplementary /\ at + 6 <= EndOf(input)
    <3>1. at + 6 <= EndOf(input) /\ at + 2 \in Nat /\ at + 2 > 0 /\ at + 2 + 3 <= Len(input)
      <4>1. EndOf(input) - at >= 6
        BY <2>3, Zenon DEF IsSingle, End
      <4>2. EndOf(input) \in Nat /\ EndOf(input) <= Len(input)
        BY <1>1, <1>2
      <4> DEFINE e == EndOf(input)
                 m == Len(input)
      <4>3. e - at >= 6 /\ e \in Nat /\ m \in Nat /\ e <= m /\ at \in Nat
        BY <1>1, <4>1, <4>2
      <4> HIDE DEF e, m
      <4>4. at + 6 <= e /\ at + 2 \in Nat /\ at + 2 > 0 /\ at + 2 + 3 <= m
        BY <4>3
      <4> QED BY <4>4 DEF e, m
    <3>2. Code(at + 2) \in Nat /\ Code(at + 2) < Supplementary
      BY <1>1, <3>1, CodeIs
    <3> QED BY <3>1, <3>2, Zenon
  <2>4. ASSUME IsPair PROVE PairCode \in Nat /\ at + 12 <= EndOf(input)
    <3>1. at + 12 <= EndOf(input) /\ Code(at + 2) \in High /\ Code(at + 8) \in Low
      <4>1. EndOf(input) - at >= 12 /\ Code(at + 2) \in High /\ Code(at + 8) \in Low
        BY <2>4, Zenon DEF IsPair, End
      <4>2. EndOf(input) \in Nat
        BY <1>2
      <4> QED BY <1>1, <4>1, <4>2, SMT
    <3> QED BY <3>1, PairCodeIs, Zenon
  <2>5. CASE /\ IsLetter(input[at + 1])
             /\ output' = Append(output, FromLetter(input[at + 1])) /\ at' = at + 2
    BY <1>2, <1>8, <1>10, <2>2, <2>5, Zenon
  <2>6. CASE output' = Append(output, input[at + 1]) /\ at' = at + 2
    BY <1>2, <1>5, <1>8, <1>10, <2>6, Zenon
  <2>7. CASE IsSingle /\ output' = output \o Utf8(Code(at + 2)) /\ at' = at + 6
    <3> DEFINE c == Code(at + 2)
    <3>1. c \in Nat /\ c < Supplementary /\ at + 6 <= EndOf(input) /\ 6 \in {6, 12}
      BY <2>3, <2>7, Zenon
    <3> HIDE DEF c
    <3>2. output' = output \o Utf8(c) /\ at' = at + 6 /\ input[at] = Backslash
      BY <1>10, <2>7 DEF c
    <3> QED BY <1>2, <1>9, <3>1, <3>2, Zenon
  <2>8. CASE IsPair /\ output' = output \o Utf8(PairCode) /\ at' = at + 12
    <3> DEFINE c == PairCode
    <3>1. c \in Nat /\ at + 12 <= EndOf(input) /\ 12 \in {6, 12}
      BY <2>4, <2>8, Zenon
    <3>2. 12 # 6
      BY SMT
    <3> HIDE DEF c
    <3>3. output' = output \o Utf8(c) /\ at' = at + 12 /\ input[at] = Backslash
      BY <1>10, <2>8 DEF c
    <3> QED BY <1>2, <1>9, <3>1, <3>2, <3>3, Zenon
  <2> QED BY <2>1, <2>5, <2>6, <2>7, <2>8, Zenon
<1> QED BY <1>7, <1>10, Zenon

\* The text has these characters where it is read.
Shows(e) == \A i \in 1..Len(e) : input[at + i - 1] = e[i]

\* The second pass knows every escape that print_string_ptr writes, and reads the
\* character back.
LEMMA ReadsEscape ==
  ASSUME at \in Nat, at > 0, output \in Seq(Nat), End \in Nat, NEW c \in Byte,
         NEW e, e = Escaped(c), at + Len(e) <= End, Shows(e)
  PROVE  ~ReadFails /\ (ReadCharacter => at' = at + Len(e) /\ output' = Append(output, c))
PROOF
<1>8. c \in Nat
  BY BytesAreNumbers
<1>9. CASE c > 31 /\ c \notin {Quote, Backslash} /\ e = <<c>>
  <2>1. Len(e) = 1 /\ input[at] = c
    <3>1. Len(e) = 1 /\ e[1] = c /\ 1 \in 1..Len(e) /\ at + 1 - 1 = at
      BY <1>9
    <3>2. input[at + 1 - 1] = e[1]
      BY <3>1 DEF Shows
    <3> QED BY <3>1, <3>2
  <2>2. input[at] # Backslash
    BY <1>9, <2>1
  <2> QED BY <2>1, <2>2 DEF ReadCharacter, ReadFails
<1>10. ASSUME NEW l \in Nat, e = <<Backslash, l>>, l # u, l \in {Quote, Backslash} \/ IsLetter(l),
              l \in {Quote, Backslash} => l = c,
              IsLetter(l) => FromLetter(l) = c
       PROVE  ~ReadFails /\ (ReadCharacter => at' = at + Len(e) /\ output' = Append(output, c))
  <2>1. Len(e) = 2 /\ input[at] = Backslash /\ input[at + 1] = l
    <3>1. Len(e) = 2 /\ e[1] = Backslash /\ e[2] = l /\ 1 \in 1..Len(e) /\ 2 \in 1..Len(e)
          /\ at + 1 - 1 = at /\ at + 2 - 1 = at + 1
      BY <1>10
    <3>2. input[at + 1 - 1] = e[1] /\ input[at + 2 - 1] = e[2]
      BY <3>1 DEF Shows
    <3> QED BY <3>1, <3>2
  <2>2. IsLetter(l) => l \notin {Quote, Backslash, 47}
    BY LettersAreOther, Zenon
  <2>3. ~ReadFails
    BY <1>10, <2>1, Zenon DEF ReadFails, IsUnknown
  <2>4. ASSUME ReadCharacter PROVE at' = at + 2 /\ output' = Append(output, c)
    <3>1. \/ IsLetter(l) /\ output' = Append(output, FromLetter(l)) /\ at' = at + 2
          \/ l \in {Quote, Backslash, 47} /\ output' = Append(output, l) /\ at' = at + 2
      BY <1>10, <2>1, <2>4, Zenon DEF ReadCharacter
    <3>2. l = 47 => FALSE
      BY <1>10, <2>2, MarksDiffer, Zenon
    <3> QED BY <1>10, <2>2, <3>1, <3>2, Zenon
  <2> QED BY <2>1, <2>3, <2>4
<1>11. CASE c \in {Quote, Backslash} /\ e = <<Backslash, c>>
  <2>1. c # u /\ ~IsLetter(c)
    BY <1>11, LettersAreOther, MarksDiffer, Zenon
  <2> QED BY <1>8, <1>10, <1>11, <2>1
<1>12. CASE /\ c \in {8, 9, 10, 12, 13} /\ e = <<Backslash, Letter(c)>>
            /\ IsLetter(Letter(c)) /\ FromLetter(Letter(c)) = c
  <2> DEFINE l == Letter(c)
  <2>1. l \in Nat /\ l # u /\ l \notin {Quote, Backslash} /\ IsLetter(l) /\ FromLetter(l) = c
    BY <1>12, LettersAreOther, Zenon
  <2>2. e = <<Backslash, l>>
    BY <1>12
  <2> HIDE DEF l
  <2> QED BY <1>10, <2>1, <2>2, Zenon
<1>13. CASE /\ c \in 1..31
            /\ e = <<Backslash, u, 48, 48, IF c < 16 THEN 48 ELSE 49, HexDigit(c % 16)>>
  <2> DEFINE g == IF c < 16 THEN 48 ELSE 49
             h == HexDigit(c % 16)
  <2>1. g \in {48, 49} /\ (c < 16 <=> g = 48) /\ h \in 48..57 \cup 97..102 /\ HexValue(h) = c % 16
    <3>1. c \in 0..31
      BY <1>13
    <3>2. h \in 48..57 \cup 97..102 /\ HexValue(h) = c % 16
      BY <3>1, HexDigits
    <3>3. g \in {48, 49} /\ (c < 16 <=> g = 48)
      OBVIOUS
    <3> HIDE DEF g, h
    <3> QED BY <3>2, <3>3
  <2>2. e = <<Backslash, u, 48, 48, g, h>>
    BY <1>13 DEF g, h
  <2> HIDE DEF g, h
  <2>3. /\ Len(e) = 6 /\ input[at] = Backslash /\ input[at + 1] = u
        /\ input[at + 2] = 48 /\ input[at + 3] = 48 /\ input[at + 4] = g /\ input[at + 5] = h
    <3>1. /\ Len(e) = 6 /\ e[1] = Backslash /\ e[2] = u /\ e[3] = 48 /\ e[4] = 48
          /\ e[5] = g /\ e[6] = h
      BY <2>2
    <3>2. /\ at + 1 - 1 = at /\ at + 2 - 1 = at + 1 /\ at + 3 - 1 = at + 2
          /\ at + 4 - 1 = at + 3 /\ at + 5 - 1 = at + 4 /\ at + 6 - 1 = at + 5
      OBVIOUS
    <3>3. /\ input[at + 1 - 1] = e[1] /\ input[at + 2 - 1] = e[2] /\ input[at + 3 - 1] = e[3]
          /\ input[at + 4 - 1] = e[4] /\ input[at + 5 - 1] = e[5] /\ input[at + 6 - 1] = e[6]
      BY <3>1 DEF Shows
    <3> QED BY <3>1, <3>2, <3>3
  <2>4. Code(at + 2) = c
    <3>1. IsHex(48) /\ IsHex(g) /\ IsHex(h) /\ HexValue(48) = 0 /\ (g = 49 => HexValue(g) = 1)
      BY <2>1 DEF IsHex, HexValue
    <3>2. /\ at + 2 + 0 = at + 2 /\ at + 2 + 1 = at + 3 /\ at + 2 + 2 = at + 4
          /\ at + 2 + 3 = at + 5 /\ \A j \in 0..3 : j = 0 \/ j = 1 \/ j = 2 \/ j = 3
      OBVIOUS
    <3>3. \A j \in 0..3 : IsHex(input[at + 2 + j])
      BY <2>3, <3>1, <3>2
    <3>4. Code(at + 2) = HexValue(48) * 4096 + HexValue(48) * 256 + HexValue(g) * 16 + HexValue(h)
      BY <2>3, <3>2, <3>3, SMT DEF Code
    <3>5. HexValue(g) * 16 + HexValue(h) = c
      <4> DEFINE x == HexValue(g)
                 y == HexValue(h)
      <4>1. c \in 1..31 /\ y = c % 16 /\ (c < 16 => x = 0) /\ (~(c < 16) => x = 1)
        BY <1>13, <2>1, <3>1
      <4> HIDE DEF x, y
      <4>2. x * 16 + y = c
        <5>1. \A k \in 1..31 : (k < 16 => k % 16 = k) /\ (~(k < 16) => k % 16 = k - 16)
          BY SMT
        <5>2. (c < 16 => y = c) /\ (~(c < 16) => y = c - 16)
          BY <4>1, <5>1
        <5>3. (c < 16 => x = 0 /\ y = c) /\ (~(c < 16) => x = 1 /\ y = c - 16) /\ c \in Nat
          BY <1>8, <4>1, <5>2
        <5> QED BY <5>3
      <4> QED BY <4>2 DEF x, y
    <3>6. HexValue(48) * 4096 + HexValue(48) * 256 + HexValue(g) * 16 + HexValue(h) = c
      <4> DEFINE x == HexValue(g)
                 y == HexValue(h)
                 z == HexValue(48)
      <4>1. x \in Nat /\ y \in Nat /\ z = 0 /\ x * 16 + y = c
        <5>1. x \in {0, 1} /\ y \in Nat
          BY <1>8, <2>1, <3>1
        <5> QED BY <3>1, <3>5, <5>1
      <4> HIDE DEF x, y, z
      <4>2. z * 4096 + z * 256 + x * 16 + y = c
        BY <4>1
      <4> QED BY <4>2 DEF x, y, z
    <3> QED BY <3>4, <3>6, SMT
  <2>5. IsSingle
    <3>1. End - at >= 6
      BY <2>3
    <3>2. c \notin High \cup Low
      <4>1. c < 128
        BY <1>13
      <4> QED BY <1>8, <4>1, SmallIsNoSurrogate
    <3> QED BY <2>4, <3>1, <3>2 DEF IsSingle
  <2>6. ~IsLetter(u) /\ u \notin {Quote, Backslash, 47}
    BY LettersAreOther, MarksDiffer, Zenon
  <2>7. ~ReadFails
    BY <2>3, <2>5, <2>6, Zenon DEF ReadFails, IsUnknown
  <2>8. ASSUME ReadCharacter PROVE at' = at + 6 /\ output' = Append(output, c)
    <3>1. ~IsPair
      <4>1. c \notin High
        <5>1. c < 128
          BY <1>13
        <5> QED BY <1>8, <5>1, SmallIsNoSurrogate
      <4> QED BY <2>4, <4>1, Zenon DEF IsPair
    <3>2. output' = output \o Utf8(Code(at + 2)) /\ at' = at + 6
      BY <2>3, <2>6, <2>8, <3>1, Zenon DEF ReadCharacter
    <3>3. Utf8(c) = <<c>>
      <4>1. c < 128
        BY <1>13
      <4> QED BY <1>8, <4>1, Utf8Is
    <3>4. Append(output, c) = output \o <<c>>
      BY <1>8, AppendIsConcat
    <3> QED BY <2>4, <3>2, <3>3, <3>4
  <2> QED BY <2>3, <2>7, <2>8
<1> QED BY <1>8, <1>9, <1>11, <1>12, <1>13, EscapedIs

\* At a character that was printed, the second pass knows the escape, and reads the
\* character back.
LEMMA ReadsBack ==
  ASSUME StringTypes, doing = "parse",
         input = Append(Printed(string)[Len(string)], Quote),
         NEW k \in 0..Len(string), at = Need(string)[k] + 1, at < End
  PROVE  /\ k + 1 \in 1..Len(string) /\ ~ReadFails
         /\ ReadCharacter => /\ at' = Need(string)[k + 1] + 1
                             /\ output' = Append(output, string[k + 1])
PROOF
<1> DEFINE n == Len(string)
           c == string[k + 1]
           e == Escaped(c)
           m == Measured(string)
<1>1. string \in Seq(Byte) /\ input \in Seq(Byte) /\ n \in Nat /\ at \in Nat /\ at > 0 /\ k \in 0..n
      /\ output \in Seq(Nat)
  BY LenProperties DEF StringTypes
<1>a. \A i \in 1..m : input[i] = Printed(string)[n][i]
  BY <1>1, PrintedScans
<1>2. End = m + 1 /\ m \in Nat
  <2>1. n \in 0..n
    BY <1>1
  <2>2. m \in Nat
    BY <1>1, <2>1, NeedIs DEF Measured
  <2>3. End = m + 1
    BY <1>1, PrintedScans DEF End
  <2> QED BY <2>2, <2>3
<1>3. k # n
  <2>1. k = n => at = m + 1
    BY DEF Measured
  <2> HIDE DEF m, n
  <2> QED BY <1>1, <1>2, <2>1
<1>4. k + 1 \in 1..n /\ (k + 1) - 1 = k /\ k + 1 \in 0..n
  BY <1>1, <1>3
<1>5. /\ Need(string)[k] \in Nat /\ Need(string)[k + 1] = Need(string)[k] + Len(e)
      /\ Need(string)[k + 1] <= m /\ m \in Nat /\ Len(e) \in Nat
      /\ \A i \in 1..Len(e) : Printed(string)[n][Need(string)[k] + i] = e[i]
  <2> DEFINE j == k + 1
  <2>1. j \in 1..Len(string) /\ j - 1 = k
    BY <1>4
  <2> HIDE DEF j, n, m
  <2>2. /\ Need(string)[j - 1] \in Nat
        /\ Need(string)[j] = Need(string)[j - 1] + Len(Escaped(string[j]))
        /\ Need(string)[j] <= Measured(string) /\ Measured(string) \in Nat
        /\ Len(Escaped(string[j])) \in Nat
        /\ \A i \in 1..Len(Escaped(string[j])) :
             Printed(string)[Len(string)][Need(string)[j - 1] + i] = Escaped(string[j])[i]
    BY <1>1, <2>1, PrintedAt
  <2> QED BY <2>1, <2>2 DEF j, n, m
<1> HIDE DEF n, m
<1>6. at + Len(e) <= End /\ Need(string)[k + 1] + 1 = at + Len(e)
  <2> DEFINE x == Need(string)[k]
             y == Need(string)[k + 1]
             l == Len(e)
  <2>1. x \in Nat /\ y = x + l /\ y <= m /\ m \in Nat /\ l \in Nat /\ at = x + 1 /\ End = m + 1
    BY <1>2, <1>5
  <2> HIDE DEF x, y, l
  <2>2. at + l <= End /\ y + 1 = at + l
    BY <2>1
  <2> QED BY <2>2 DEF y, l
<1>7. \A i \in 1..Len(e) : input[at + i - 1] = e[i]
  <2> SUFFICES ASSUME NEW i \in 1..Len(e) PROVE input[at + i - 1] = e[i]
    OBVIOUS
  <2> DEFINE x == Need(string)[k]
             y == Need(string)[k + 1]
             l == Len(e)
  <2>1. x \in Nat /\ y = x + l /\ y <= m /\ m \in Nat /\ l \in Nat /\ at = x + 1 /\ i \in 1..l
    BY <1>5
  <2> HIDE DEF l, y, x, e
  <2>2. x + i \in 1..m /\ at + i - 1 = x + i
    BY <2>1
  <2>3. Printed(string)[n][x + i] = e[i]
    BY <1>5 DEF x
  <2>4. input[x + i] = Printed(string)[n][x + i]
    BY <1>a, <2>2
  <2> QED BY <2>2, <2>3, <2>4, Zenon DEF l
<1>8. c \in Byte /\ c \in Nat /\ End \in Nat
  <2>1. c \in Byte
    BY <1>1, <1>4, ElementOfSeq DEF n
  <2>2. c \in Nat
    BY <2>1, BytesAreNumbers
  <2>3. End \in Nat
    <3> HIDE DEF c, e
    <3> QED BY <1>2
  <2> QED BY <2>1, <2>2, <2>3
<1>9. ~ReadFails /\ (ReadCharacter => at' = at + Len(e) /\ output' = Append(output, c))
  <2> HIDE DEF e, c
  <2>1. at \in Nat /\ at > 0 /\ output \in Seq(Nat) /\ End \in Nat /\ c \in Byte
    BY <1>1, <1>8
  <2>2. Shows(e)
    BY <1>7 DEF Shows
  <2> QED BY <1>6, <2>1, <2>2, ReadsEscape DEF e
<1> QED BY <1>4, <1>6, <1>9 DEF n

\* The text between the quotes.
Body(t) == SubSeq(t, 1, EndOf(t) - 1)

LEMMA BodyIs ==
  ASSUME NEW t \in Seq(Byte), EndOf(t) # 0
  PROVE  /\ Body(t) \in Seq(Byte) /\ Len(Body(t)) = EndOf(t) - 1
         /\ \A i \in 1..(EndOf(t) - 1) : Body(t)[i] = t[i]
PROOF
<1> DEFINE e == EndOf(t) - 1
<1>1. EndOf(t) \in 1..Len(t) /\ Len(t) \in Nat
  BY ScanEnds, LenProperties
<1>2. e \in Nat /\ e \in Int /\ 1 \in Int /\ \A i \in 1..e : i \in 1..Len(t)
  BY <1>1
<1>3. \A i \in 1..e : t[i] \in Byte
  BY <1>2, ElementOfSeq
<1> HIDE DEF e
<1>4. /\ SubSeq(t, 1, e) \in Seq(Byte) /\ Len(SubSeq(t, 1, e)) = IF 1 <= e THEN e - 1 + 1 ELSE 0
      /\ \A i \in 1..(e - 1 + 1) : SubSeq(t, 1, e)[i] = t[1 + i - 1]
  BY <1>2, <1>3, SubSeqProperties
<1>5. (IF 1 <= e THEN e - 1 + 1 ELSE 0) = e /\ e - 1 + 1 = e /\ \A i \in 1..e : 1 + i - 1 = i
  BY <1>2
<1>6. SubSeq(t, 1, e) \in Seq(Byte) /\ Len(SubSeq(t, 1, e)) = e
  BY <1>4, <1>5
<1>7. \A i \in 1..e : SubSeq(t, 1, e)[i] = t[i]
  BY <1>4, <1>5
<1> QED BY <1>6, <1>7, Zenon DEF Body, e

\* The literal at a position of a text whose literals all have their digits.
LEMMA LiteralDigits ==
  ASSUME input \in Seq(Byte), EndOf(input) # 0, WellFormed(input), NEW i \in Nat, i > 0,
         input[i] = Backslash, input[i + 1] = u, i + 6 <= EndOf(input)
  PROVE  /\ Unit(Body(input), i + 2) = Code(i + 2)
         /\ Scan(input)[i + 2] = Scan(input)[i + 6]
PROOF
<1> DEFINE e == EndOf(input)
           s == Body(input)
<1>1. e \in 1..Len(input) /\ Len(input) \in Nat /\ DOMAIN input = 1..Len(input)
  BY ScanEnds, LenProperties
<1>2. i + 6 <= e
  OBVIOUS
<1>3. \A k \in 0..3 : IsHex(input[i + 2 + k])
  <2>1. i + 1 \in DOMAIN input /\ i + 1 > 1 /\ (i + 1) - 1 = i
    BY <1>1, <1>2
  <2>2. \A k \in 1..4 : IsHex(input[i + 1 + k])
    <3>1. input[i + 1] = u /\ input[(i + 1) - 1] = Backslash
      BY <2>1
    <3> QED BY <2>1, <3>1, Zenon DEF WellFormed
  <2>3. \A k \in 0..3 : k + 1 \in 1..4 /\ i + 1 + (k + 1) = i + 2 + k
    OBVIOUS
  <2> QED BY <2>2, <2>3
<1>4. Len(s) = e - 1 /\ \A k \in 0..3 : s[i + 2 + k] = input[i + 2 + k]
  <2>1. \A k \in 0..3 : i + 2 + k \in 1..(e - 1)
    BY <1>1, <1>2
  <2> QED BY <2>1, BodyIs
<1> HIDE DEF e, s
<1>5. Unit(s, i + 2) = Code(i + 2)
  <2> DEFINE j == i + 2
  <2>1. j \in Nat /\ j > 0 /\ j + 3 <= Len(input) /\ Len(s) \in Nat /\ j + 3 <= Len(s)
    BY <1>1, <1>2, <1>4
  <2>2. \A k \in 0..3 : s[j + k] = input[j + k] /\ IsHex(input[j + k])
    BY <1>3, <1>4
  <2> HIDE DEF j
  <2>3. Unit(s, j) = Code(j)
    BY <2>1, <2>2, CodeIs
  <2> QED BY <2>3 DEF j
<1>6. Scan(input)[i + 2] = Scan(input)[i + 6]
  <2>1. i + 2 \in 1..Len(input) /\ i + 2 + 3 <= Len(input) /\ i + 2 + 4 = i + 6
    BY <1>1, <1>2
  <2>2. Scan(input)[i + 2] = Scan(input)[i + 2 + 4]
    BY <1>3, <2>1, ScanDigits
  <2> QED BY <2>1, <2>2
<1> QED BY <1>5, <1>6 DEF s

\* From a position that the first pass has stopped at, the second pass reads what the
\* text stands for there and goes to the next such position.
LEMMA ReadsTheMeaning ==
  ASSUME StringTypes, EndOf(input) # 0, WellFormed(input), Boundary(input, at), at < End,
         ReadCharacter
  PROVE  /\ at \in 1..Len(Body(input)) /\ Boundary(input, at')
         /\ output' = output \o Stands(Body(input), at) /\ at' = at + Width(Body(input), at)
PROOF
<1> DEFINE s == Body(input)
           e == EndOf(input)
<1>1. /\ input \in Seq(Byte) /\ at \in Nat /\ at > 0 /\ output \in Seq(Nat) /\ at < e /\ e = End
  BY DEF StringTypes, End
<1>2. e \in Nat /\ e \in 1..Len(input) /\ Len(input) \in Nat
  BY <1>1, ScanEnds, LenProperties
<1>3. s \in Seq(Byte) /\ Len(s) = e - 1 /\ \A i \in 1..(e - 1) : s[i] = input[i]
  BY <1>1, BodyIs
<1>4. /\ input[at] = Backslash => Boundary(input, at + 2)
      /\ input[at] # Backslash => Boundary(input, at + 1)
  BY <1>1, <1>2, ScanGoesOn
<1>5. \A b \in Nat : Boundary(input, b) => b <= e
  BY <1>1, ScanEnds
<1>6. at \in 1..Len(s) /\ s[at] = input[at] /\ input[at] \in Nat
  <2>1. at \in 1..(e - 1) /\ at \in 1..Len(input)
    BY <1>1, <1>2
  <2>2. input[at] \in Byte
    BY <1>1, <2>1, ElementOfSeq
  <2> QED BY <1>3, <2>1, <2>2, BytesAreNumbers
<1>7. ASSUME input[at] = Backslash PROVE s[at + 1] = input[at + 1] /\ input[at + 1] \in Nat
  <2>1. at + 1 \in 1..(e - 1) /\ at + 1 \in 1..Len(input)
    <3>1. at + 2 <= e
      BY <1>1, <1>4, <1>5, <1>7
    <3> HIDE DEF e
    <3> QED BY <1>1, <1>2, <3>1
  <2>2. input[at + 1] \in Byte
    BY <1>1, <2>1, ElementOfSeq
  <2> QED BY <1>3, <2>1, <2>2, BytesAreNumbers
<1> HIDE DEF s, e
<1>8. \A v \in Nat : Append(output, v) = output \o <<v>>
  BY <1>1, AppendIsConcat
<1>9. ASSUME at' = at + Width(s, at), output' = output \o Stands(s, at),
             Boundary(input, at + Width(s, at))
      PROVE  /\ at \in 1..Len(s) /\ Boundary(input, at')
             /\ output' = output \o Stands(s, at) /\ at' = at + Width(s, at)
  BY <1>6, <1>9, Zenon
<1>10. CASE input[at] # Backslash
  <2>1. output' = Append(output, input[at]) /\ at' = at + 1
    BY <1>10 DEF ReadCharacter
  <2>2. Stands(s, at) = <<input[at]>> /\ Width(s, at) = 1
    BY <1>6, <1>10 DEF Stands, Width
  <2>3. output' = output \o Stands(s, at)
    BY <1>6, <1>8, <2>1, <2>2
  <2> QED BY <1>4, <1>9, <1>10, <2>1, <2>2, <2>3 DEF s
<1>11. CASE input[at] = Backslash
  <2>1. \/ /\ IsLetter(input[at + 1])
           /\ output' = Append(output, FromLetter(input[at + 1])) /\ at' = at + 2
        \/ /\ input[at + 1] \in {Quote, Backslash, 47}
           /\ output' = Append(output, input[at + 1]) /\ at' = at + 2
        \/ /\ input[at + 1] = u /\ IsSingle
           /\ output' = output \o Utf8(Code(at + 2)) /\ at' = at + 6
        \/ /\ input[at + 1] = u /\ IsPair
           /\ output' = output \o Utf8(PairCode) /\ at' = at + 12
    BY <1>11, Zenon DEF ReadCharacter
  <2>2. s[at] = Backslash /\ s[at + 1] = input[at + 1] /\ (IsLiteral(s, at) <=> input[at + 1] = u)
    BY <1>6, <1>7, <1>11, Zenon DEF IsLiteral
  <2>3. CASE /\ IsLetter(input[at + 1])
             /\ output' = Append(output, FromLetter(input[at + 1])) /\ at' = at + 2
    <3>1. ~IsLiteral(s, at) /\ FromLetter(input[at + 1]) \in Nat
      <4>1. FromLetter(input[at + 1]) \in Nat
        BY <2>3, LettersAreNumbers, Zenon
      <4> QED BY <2>2, <2>3, <4>1, LettersAreOther, Zenon
    <3>2. Stands(s, at) = <<FromLetter(input[at + 1])>> /\ Width(s, at) = 2
      BY <2>2, <2>3, <3>1, Zenon DEF Stands, Width
    <3>3. output' = output \o Stands(s, at)
      BY <1>8, <2>3, <3>1, <3>2, Zenon
    <3> QED BY <1>4, <1>9, <1>11, <2>3, <3>2, <3>3, Zenon DEF s
  <2>4. CASE /\ input[at + 1] \in {Quote, Backslash, 47}
             /\ output' = Append(output, input[at + 1]) /\ at' = at + 2
    <3>1. ~IsLiteral(s, at) /\ ~IsLetter(input[at + 1])
      BY <2>2, <2>4, LettersAreOther, MarksDiffer, Zenon
    <3>2. Stands(s, at) = <<input[at + 1]>> /\ Width(s, at) = 2
      BY <2>2, <3>1, Zenon DEF Stands, Width
    <3>3. output' = output \o Stands(s, at)
      BY <1>7, <1>8, <1>11, <2>4, <3>2, Zenon
    <3> QED BY <1>4, <1>9, <1>11, <2>4, <3>2, <3>3, Zenon DEF s
  <2>5. ASSUME NEW i \in Nat, i > 0, input[i] = Backslash, input[i + 1] = u, i + 6 <= e,
               Boundary(input, i)
        PROVE  Unit(s, i + 2) = Code(i + 2) /\ Boundary(input, i + 6)
    <3>1. Unit(s, i + 2) = Code(i + 2) /\ Scan(input)[i + 2] = Scan(input)[i + 6]
      BY <1>1, <2>5, LiteralDigits DEF s, e
    <3>2. i # e
      BY <1>2, <2>5
    <3>3. Boundary(input, i + 2)
      BY <1>1, <2>5, <3>2, ScanGoesOn DEF e
    <3>4. i + 6 \in 1..Len(input)
      BY <1>2, <2>5
    <3> QED BY <3>1, <3>3, <3>4, Zenon DEF Boundary
  <2>6. CASE /\ input[at + 1] = u /\ IsSingle
             /\ output' = output \o Utf8(Code(at + 2)) /\ at' = at + 6
    <3>1. at + 6 <= e /\ Code(at + 2) \notin High
      <4>1. End - at >= 6 /\ Code(at + 2) \notin High
        BY <2>6, Zenon DEF IsSingle
      <4> QED BY <1>1, <1>2, <4>1, SMT
    <3>2. Unit(s, at + 2) = Code(at + 2) /\ Boundary(input, at + 6)
      BY <1>1, <1>11, <2>5, <2>6, <3>1, Zenon
    <3>3. CodePoint(s, at) = Code(at + 2) /\ ~IsTwo(s, at)
      <4>1. ~IsTwo(s, at)
        BY <3>1, <3>2, Zenon DEF IsTwo
      <4>2. CodePoint(s, at) = Unit(s, at + 2)
        BY <4>1, SMT DEF CodePoint
      <4> QED BY <3>2, <4>1, <4>2, Zenon
    <3>4. Code(at + 2) \in Nat
      <4>1. at + 2 \in Nat /\ at + 2 > 0 /\ at + 2 + 3 <= Len(input)
        BY <1>1, <1>2, <3>1, SMT
      <4> QED BY <1>1, <4>1, CodeIs
    <3>5. Stands(s, at) = Utf8(Code(at + 2)) /\ Width(s, at) = 6
      <4>1. Stands(s, at) = Spread(CodePoint(s, at)) /\ Width(s, at) = 6
        BY <2>2, <2>6, <3>3, Zenon DEF Stands, Width
      <4> QED BY <3>3, <3>4, <4>1, Utf8Is
    <3> QED BY <1>9, <2>6, <3>2, <3>5, Zenon DEF s
  <2>7. CASE /\ input[at + 1] = u /\ IsPair
             /\ output' = output \o Utf8(PairCode) /\ at' = at + 12
    <3>1. /\ at + 12 <= e /\ Code(at + 2) \in High /\ Code(at + 8) \in Low
          /\ input[at + 6] = Backslash /\ input[at + 7] = u
      <4>1. /\ End - at >= 12 /\ Code(at + 2) \in High /\ Code(at + 8) \in Low
            /\ input[at + 6] = Backslash /\ input[at + 7] = u
        BY <2>7, Zenon DEF IsPair
      <4>2. at + 12 <= e
        BY <1>1, <1>2, <4>1, SMT
      <4> QED BY <4>1, <4>2, Zenon
    <3>2. Unit(s, at + 2) = Code(at + 2) /\ Boundary(input, at + 6)
      <4>1. at + 6 <= e
        <5>1. at + 12 <= e
          BY <3>1
        <5> QED BY <1>1, <1>2, <5>1
      <4> QED BY <1>1, <1>11, <2>5, <2>7, <4>1, Zenon
    <3>3. Unit(s, at + 8) = Code(at + 8) /\ Boundary(input, at + 12)
      <4> DEFINE i == at + 6
      <4>1. i \in Nat /\ i > 0 /\ i + 1 = at + 7 /\ i + 2 = at + 8 /\ i + 6 = at + 12
        BY <1>1, SMT
      <4>2. Boundary(input, i) /\ input[i] = Backslash
        BY <3>1, <3>2, Zenon
      <4> HIDE DEF i
      <4>3. input[i + 1] = u /\ i + 6 <= e
        BY <3>1, <4>1
      <4>4. Unit(s, i + 2) = Code(i + 2) /\ Boundary(input, i + 6)
        BY <2>5, <4>1, <4>2, <4>3, Zenon
      <4> QED BY <4>1, <4>4
    <3>4. CodePoint(s, at) = PairCode /\ IsTwo(s, at)
      <4> DEFINE h == Code(at + 2)
                 l == Code(at + 8)
      <4>1. IsTwo(s, at)
        BY <3>1, <3>2, Zenon DEF IsTwo
      <4>2. CodePoint(s, at) = 65536 + 1024 * (h % 1024) + (l % 1024)
        BY <3>2, <3>3, <4>1, SMT DEF CodePoint
      <4>3. PairCode = 65536 + (h - 55296) * 1024 + (l - 56320)
        BY SMT DEF PairCode
      <4>4. h \in Nat /\ l \in Nat /\ h % 1024 = h - 55296 /\ l % 1024 = l - 56320
        BY <3>1, SurrogatesAre, SMT
      <4> HIDE DEF h, l
      <4>5. 65536 + 1024 * (h % 1024) + (l % 1024) = 65536 + (h - 55296) * 1024 + (l - 56320)
        BY <4>4, SMT
      <4> QED BY <4>1, <4>2, <4>3, <4>5, SMT
    <3>5. PairCode \in Nat
      BY <3>1, PairCodeIs
    <3>6. Stands(s, at) = Utf8(PairCode) /\ Width(s, at) = 12
      <4>1. Stands(s, at) = Spread(CodePoint(s, at)) /\ Width(s, at) = 12
        BY <2>2, <2>7, <3>4, Zenon DEF Stands, Width
      <4> QED BY <3>4, <3>5, <4>1, Utf8Is
    <3> QED BY <1>9, <2>7, <3>3, <3>6, Zenon DEF s
  <2> QED BY <2>1, <2>3, <2>4, <2>6, <2>7, Zenon
<1> QED BY <1>10, <1>11, Zenon

-----------------------------------------------------------------------------
(* The invariant.                                                          *)

Reading == doing \in {"parse", "done"}

\* While a string is printed, its first characters have been, behind a quote.
PrintInv ==
  doing = "print" =>
    /\ input = string /\ at <= Len(string) + 1 /\ room = Measured(string) + 3
    /\ output = <<Quote>> \o Printed(string)[at - 1]

\* While a text is read, what has been written and what is left fit the room.
RoomInv ==
  /\ Reading =>
       /\ EndOf(input) # 0 /\ room = Room(input) + 1 /\ Within(input, at, Len(output))
  /\ doing = "done" => at >= End

\* While a printed string is read, its first characters have been.
BackInv ==
  doing # "print" /\ string # <<>> =>
    /\ input = Append(Printed(string)[Len(string)], Quote) /\ doing # "failed"
    /\ \E k \in 0..Len(string) :
         /\ at = Need(string)[k] + 1 /\ output = SubSeq(string, 1, k)
         /\ doing = "done" => k = Len(string)

\* While a text is read whose literals have their digits, what has been written and what
\* the rest means are what the text means.
MeaningInv ==
  Reading /\ WellFormed(input) =>
    /\ Boundary(input, at)
    /\ output \o Meaning(Body(input))[at] = Meaning(Body(input))[1]

StringsInv == StringTypes /\ PrintInv /\ RoomInv /\ BackInv /\ MeaningInv

\* When a text is read from its start: nothing is written, and all of it is left.
LEMMA ReadingStarts ==
  ASSUME NEW t \in Seq(Byte), EndOf(t) # 0
  PROVE  /\ Within(t, 1, Len(<<>>)) /\ Boundary(t, 1) /\ Room(t) \in Nat
         /\ <<>> \o Meaning(Body(t))[1] = Meaning(Body(t))[1]
PROOF
<1>1. Within(t, 1, 0) /\ Len(<<>>) = 0
  BY WithinStarts
<1>2. Room(t) \in Nat
  BY <1>1, WithinFits
<1>3. Boundary(t, 1)
  BY ScanEnds
<1>4. Body(t) \in Seq(Byte)
  BY BodyIs
<1>5. 1 \in 1..(Len(Body(t)) + 12)
  <2>1. Len(Body(t)) \in Nat
    BY <1>4, LenProperties
  <2> QED BY <2>1
<1>6. Meaning(Body(t))[1] \in Seq(Values(Body(t)))
  BY <1>4, <1>5, MeaningFrom
<1>7. <<>> \o Meaning(Body(t))[1] = Meaning(Body(t))[1]
  BY <1>6, ConcatEmptySeq
<1> QED BY <1>1, <1>2, <1>3, <1>7

LEMMA StringsInvHolds == InitStrings => StringsInv
PROOF
<1> SUFFICES ASSUME InitStrings PROVE StringsInv
  OBVIOUS
<1>1. <<>> \in Seq(Byte) /\ <<>> \in Seq(Nat) /\ Quote \in Nat
  BY DEF Quote
<1>2. ASSUME NEW s \in Strings, BeginPrint(s) PROVE StringsInv
  <2>1. /\ string = s /\ input = s /\ at = 1 /\ output = <<Quote>> /\ room = Measured(s) + 3
        /\ doing = "print" /\ s \in Seq(Byte)
    BY <1>2, BytesAssumption DEF BeginPrint
  <2>2. Len(s) \in Nat /\ Measured(s) \in Nat /\ Printed(s)[0] = <<>>
    <3>1. Len(s) \in Nat /\ Len(s) \in 0..Len(s)
      BY <2>1, LenProperties
    <3> QED BY <2>1, <3>1, NeedIs, PrintedIs DEF Measured
  <2>3. StringTypes
    <3>1. <<Quote>> \in Seq(Nat) /\ Measured(s) + 3 \in Nat
      BY <1>1, <2>2
    <3> QED BY <2>1, <3>1 DEF StringTypes
  <2>4. PrintInv
    <3>1. <<Quote>> \in Seq(Nat)
      BY <1>1
    <3>2. <<Quote>> \o <<>> = <<Quote>> /\ 1 - 1 = 0 /\ 1 <= Len(s) + 1
      BY <2>2, <3>1, ConcatEmptySeq
    <3> QED BY <2>1, <2>2, <3>2 DEF PrintInv
  <2> QED BY <2>1, <2>3, <2>4 DEF StringsInv, RoomInv, BackInv, MeaningInv, Reading
<1>3. ASSUME NEW t \in Literals16,
             string = <<>>, input = t, at = 1, output = <<>>,
             IF EndOf(t) = 0 THEN doing = "failed" /\ room = 0
             ELSE doing = "parse" /\ room = Room(t) + 1
      PROVE  StringsInv
  <2>1. t \in Seq(Byte)
    BY BytesAssumption
  <2>2. CASE EndOf(t) = 0
    <3>1. doing = "failed" /\ room = 0
      BY <1>3, <2>2
    <3> QED BY <1>1, <1>3, <2>1, <3>1
            DEF StringsInv, StringTypes, PrintInv, RoomInv, BackInv, MeaningInv, Reading
  <2>3. CASE EndOf(t) # 0
    <3>1. doing = "parse" /\ room = Room(t) + 1
      BY <1>3, <2>3
    <3>2. /\ Within(t, 1, Len(<<>>)) /\ Boundary(t, 1) /\ Room(t) \in Nat
          /\ <<>> \o Meaning(Body(t))[1] = Meaning(Body(t))[1]
      BY <2>1, <2>3, ReadingStarts
    <3>3. StringTypes
      BY <1>1, <1>3, <2>1, <3>1, <3>2 DEF StringTypes
    <3>4. RoomInv /\ MeaningInv
      BY <1>3, <2>3, <3>1, <3>2 DEF RoomInv, MeaningInv
    <3> QED BY <1>3, <3>1, <3>3, <3>4 DEF StringsInv, PrintInv, BackInv
  <2> QED BY <2>2, <2>3
<1> QED BY <1>2, <1>3 DEF InitStrings

LEMMA PrintCharacterKeeps == StringsInv /\ PrintCharacter => StringsInv'
PROOF
<1> SUFFICES ASSUME StringsInv, PrintCharacter PROVE StringsInv'
  OBVIOUS
<1>1. /\ string \in Seq(Byte) /\ at \in Nat /\ at > 0 /\ output \in Seq(Nat) /\ room \in Nat
      /\ input \in Seq(Byte)
  BY DEF StringsInv, StringTypes
<1>2. /\ doing = "print" /\ input = string /\ at <= Len(string) /\ room = Measured(string) + 3
      /\ output = <<Quote>> \o Printed(string)[at - 1]
  BY DEF StringsInv, PrintInv, PrintCharacter
<1>3. /\ output' = output \o Escaped(string[at]) /\ at' = at + 1 /\ string' = string
      /\ input' = input /\ room' = room /\ doing' = doing
  BY <1>2 DEF PrintCharacter
<1>4. /\ Len(string) \in Nat /\ at \in 1..Len(string) /\ at - 1 \in 0..Len(string)
      /\ (at + 1) - 1 = at
  BY <1>1, <1>2, LenProperties
<1>5. string[at] \in Byte /\ Escaped(string[at]) \in Seq(Byte)
  BY <1>1, <1>4, ElementOfSeq, EscapedIs
<1>6. Printed(string)[at - 1] \in Seq(Byte)
      /\ Printed(string)[at] = Printed(string)[at - 1] \o Escaped(string[at])
  BY <1>1, <1>4, PrintedIs
<1>7. output' = <<Quote>> \o Printed(string)[at]
  <2>1. <<Quote>> \in Seq(Byte)
    BY DEF Quote, Byte
  <2>2. (<<Quote>> \o Printed(string)[at - 1]) \o Escaped(string[at])
        = <<Quote>> \o (Printed(string)[at - 1] \o Escaped(string[at]))
    <3> DEFINE x == <<Quote>>
               y == Printed(string)[at - 1]
               z == Escaped(string[at])
    <3>1. x \in Seq(Byte) /\ y \in Seq(Byte) /\ z \in Seq(Byte)
      BY <1>5, <1>6, <2>1
    <3> HIDE DEF x, y, z
    <3>2. (x \o y) \o z = x \o (y \o z)
      BY <3>1, Associates, SMT
    <3> QED BY <3>2 DEF x, y, z
  <2> QED BY <1>2, <1>3, <1>6, <2>2, Zenon
<1>8. output' \in Seq(Nat)
  <2>1. Escaped(string[at]) \in Seq(Nat)
    BY <1>5, BytesAreNumbers, SeqMonotonic
  <2> QED BY <1>1, <1>3, <2>1, ConcatProperties
<1>9. StringTypes'
  BY <1>1, <1>2, <1>3, <1>4, <1>8 DEF StringTypes
<1>10. PrintInv'
  <2>1. at' <= Len(string) + 1 /\ at' - 1 = at
    BY <1>3, <1>4
  <2> QED BY <1>2, <1>3, <1>7, <2>1 DEF PrintInv
<1> QED BY <1>2, <1>3, <1>9, <1>10 DEF StringsInv, RoomInv, BackInv, MeaningInv, Reading

LEMMA PrintEndsKeeps == StringsInv /\ PrintEnds => StringsInv'
PROOF
<1> SUFFICES ASSUME StringsInv, PrintEnds PROVE StringsInv'
  OBVIOUS
<1> DEFINE n == Len(string)
           p == Printed(string)[n]
           t == Append(p, Quote)
<1>1. /\ string \in Seq(Byte) /\ at \in Nat /\ at > 0 /\ n \in Nat /\ n \in 0..n
  BY LenProperties DEF StringsInv, StringTypes
<1>2. /\ doing = "print" /\ at = n + 1 /\ output = <<Quote>> \o Printed(string)[at - 1]
  BY <1>1 DEF StringsInv, PrintInv, PrintEnds
<1>3. p \in Seq(Byte)
  BY <1>1, PrintedIs
<1>4. Tail(output) = p
  <2>1. output = <<Quote>> \o p /\ <<Quote>> \in Seq(Byte) /\ Len(<<Quote>>) = 1
    <3>1. at - 1 = n
      BY <1>1, <1>2
    <3> QED BY <1>2, <3>1 DEF Quote, Byte
  <2> HIDE DEF p, n
  <2>2. /\ output \in Seq(Byte) /\ Len(output) = 1 + Len(p) /\ Len(p) \in Nat
        /\ \A i \in 1..(1 + Len(p)) : output[i] = IF i <= 1 THEN <<Quote>>[i] ELSE p[i - 1]
    BY <1>3, <2>1, ConcatProperties, LenProperties
  <2>3. output # <<>>
    BY <2>2
  <2>4. /\ Tail(output) \in Seq(Byte) /\ Len(Tail(output)) = Len(output) - 1
        /\ \A i \in 1..Len(Tail(output)) : Tail(output)[i] = output[i + 1]
    BY <2>2, <2>3, HeadTailProperties
  <2>5. Len(Tail(output)) = Len(p) /\ \A i \in 1..Len(p) : Tail(output)[i] = output[i + 1]
    BY <2>2, <2>4
  <2>6. \A i \in 1..Len(p) : output[i + 1] = p[i]
    <3> SUFFICES ASSUME NEW i \in 1..Len(p) PROVE output[i + 1] = p[i]
      OBVIOUS
    <3>1. i + 1 \in 1..(1 + Len(p)) /\ ~(i + 1 <= 1) /\ (i + 1) - 1 = i
      BY <2>2
    <3> QED BY <2>2, <3>1
  <2> QED BY <1>3, <2>4, <2>5, <2>6, SeqEqual
<1>5. BeginParseOf(t) /\ string' = string
  BY <1>4 DEF PrintEnds
<1> HIDE DEF p
<1>6. t \in Seq(Byte) /\ EndOf(t) # 0 /\ t = Append(Printed(string)[Len(string)], Quote)
  <2>1. t = Append(Printed(string)[Len(string)], Quote)
    BY DEF p
  <2>2. t \in Seq(Byte) /\ EndOf(t) = Measured(string) + 1
    BY <1>1, <2>1, PrintedScans
  <2>3. Measured(string) \in Nat
    BY <1>1, NeedIs DEF Measured
  <2> QED BY <2>1, <2>2, <2>3
<1> HIDE DEF t
<1>7. input' = t /\ at' = 1 /\ output' = <<>> /\ doing' = "parse" /\ room' = Room(t) + 1
  BY <1>5, <1>6 DEF BeginParseOf
<1>8. /\ Within(t, 1, Len(<<>>)) /\ Boundary(t, 1) /\ Room(t) \in Nat
      /\ <<>> \o Meaning(Body(t))[1] = Meaning(Body(t))[1]
  BY <1>6, ReadingStarts
<1>9. StringTypes'
  <2>1. <<>> \in Seq(Nat) /\ Room(t) + 1 \in Nat
    BY <1>8
  <2> QED BY <1>1, <1>5, <1>6, <1>7, <2>1 DEF StringTypes
<1>10. PrintInv'
  BY <1>7 DEF PrintInv
<1>11. RoomInv'
  BY <1>6, <1>7, <1>8 DEF RoomInv
<1>12. MeaningInv'
  BY <1>7, <1>8 DEF MeaningInv
<1>13. BackInv'
  <2>1. Need(string)[0] = 0 /\ SubSeq(string, 1, 0) = <<>> /\ 0 \in 0..n
    <3>1. 0 < 1 /\ 0 \in Int /\ 1 \in Int
      OBVIOUS
    <3>2. SubSeq(string, 1, 0) = <<>>
      BY <3>1, SubSeqEmpty
    <3> QED BY <1>1, <3>2, NeedIs
  <2>2. at' = Need(string)[0] + 1 /\ output' = SubSeq(string, 1, 0) /\ doing' # "done"
        /\ doing' # "failed"
    BY <1>7, <2>1
  <2> QED BY <1>5, <1>6, <1>7, <2>1, <2>2 DEF BackInv, n
<1> QED BY <1>9, <1>10, <1>11, <1>12, <1>13 DEF StringsInv

LEMMA ReadCharacterKeeps == StringsInv /\ ReadCharacter => StringsInv'
PROOF
<1> SUFFICES ASSUME StringsInv, ReadCharacter PROVE StringsInv'
  OBVIOUS
<1>1. StringTypes /\ doing = "parse" /\ at < EndOf(input) /\ EndOf(input) # 0
      /\ room = Room(input) + 1 /\ Within(input, at, Len(output))
  BY DEF StringsInv, ReadCharacter, End, RoomInv, Reading
<1>2. /\ string \in Seq(Byte) /\ input \in Seq(Byte) /\ at \in Nat /\ at > 0
      /\ output \in Seq(Nat) /\ room \in Nat /\ Len(output) \in Nat
  BY <1>1, LenProperties DEF StringTypes
<1>3. string' = string /\ input' = input /\ room' = room /\ doing' = doing
  BY DEF ReadCharacter
<1>4. /\ output' \in Seq(Nat) /\ at' \in Nat /\ at' > 0
      /\ \/ input[at] # Backslash /\ at' = at + 1 /\ Len(output') = Len(output) + 1
         \/ /\ input[at] = Backslash
            /\ \E w \in {2, 6, 12}, l \in Nat :
                 /\ at' = at + w /\ (w > 2 => at + w <= EndOf(input)) /\ 2 * l <= w
                 /\ Len(output') = Len(output) + l
  BY <1>1, ReadsOn
<1>5. StringTypes'
  BY <1>1, <1>2, <1>3, <1>4 DEF StringTypes
<1>6. PrintInv'
  BY <1>1, <1>3 DEF PrintInv
<1>7. Within(input, at', Len(output'))
  <2>1. CASE input[at] # Backslash /\ at' = at + 1 /\ Len(output') = Len(output) + 1
    <3>1. Within(input, at + 1, Len(output) + 1)
      BY <1>1, <1>2, <2>1, WithinPlain
    <3> QED BY <2>1, <3>1
  <2>2. ASSUME input[at] = Backslash, NEW w \in {2, 6, 12}, NEW l \in Nat,
               at' = at + w, w > 2 => at + w <= EndOf(input), 2 * l <= w,
               Len(output') = Len(output) + l
        PROVE  Within(input, at', Len(output'))
    <3>1. Within(input, at + w, Len(output) + l)
      BY <1>1, <1>2, <2>2, WithinJump
    <3> QED BY <2>2, <3>1
  <2> QED BY <1>4, <2>1, <2>2
<1>8. RoomInv'
  BY <1>1, <1>3, <1>7 DEF RoomInv
<1>9. MeaningInv'
  <2> SUFFICES ASSUME WellFormed(input)
               PROVE  /\ Boundary(input, at')
                      /\ output' \o Meaning(Body(input))[at'] = Meaning(Body(input))[1]
    BY <1>3, Zenon DEF MeaningInv
  <2> DEFINE s == Body(input)
             V == Values(s)
  <2>1. Boundary(input, at) /\ output \o Meaning(s)[at] = Meaning(s)[1]
    BY <1>1 DEF StringsInv, MeaningInv, Reading
  <2>2. /\ at \in 1..Len(s) /\ Boundary(input, at')
        /\ output' = output \o Stands(s, at) /\ at' = at + Width(s, at)
    <3>1. at < End
      BY <1>1 DEF End
    <3> QED BY <1>1, <2>1, <3>1, ReadsTheMeaning
  <2>3. s \in Seq(Byte) /\ Len(s) \in Nat
    <3>1. s \in Seq(Byte)
      BY <1>1, <1>2, BodyIs
    <3> QED BY <3>1, LenProperties
  <2> HIDE DEF s
  <2>4. Stands(s, at) \in Seq(V) /\ Width(s, at) \in 1..12
    BY <2>2, <2>3, StandsIs
  <2>5. at \in 1..(Len(s) + 12) /\ at + Width(s, at) \in 1..(Len(s) + 12)
    <3> DEFINE w == Width(s, at)
    <3>1. w \in 1..12 /\ at \in 1..Len(s)
      BY <2>2, <2>4
    <3> HIDE DEF w
    <3>2. at \in 1..(Len(s) + 12) /\ at + w \in 1..(Len(s) + 12)
      BY <2>3, <3>1
    <3> QED BY <3>2 DEF w
  <2>6. /\ Meaning(s)[at] = Stands(s, at) \o Meaning(s)[at + Width(s, at)]
        /\ Meaning(s)[at + Width(s, at)] \in Seq(V)
    <3>1. at <= Len(s)
      BY <2>2
    <3> QED BY <2>3, <2>5, <3>1, MeaningFrom
  <2>7. output \in Seq(V)
    <3>1. Nat \subseteq V
      BY DEF Values
    <3> QED BY <1>2, <3>1, SeqMonotonic
  <2> HIDE DEF V
  <2>8. (output \o Stands(s, at)) \o Meaning(s)[at + Width(s, at)]
        = output \o (Stands(s, at) \o Meaning(s)[at + Width(s, at)])
    <3> DEFINE x == output
               y == Stands(s, at)
               z == Meaning(s)[at + Width(s, at)]
    <3>1. x \in Seq(V) /\ y \in Seq(V) /\ z \in Seq(V)
      BY <2>4, <2>6, <2>7
    <3> HIDE DEF x, y, z
    <3>2. (x \o y) \o z = x \o (y \o z)
      BY <3>1, Associates, SMT
    <3> QED BY <3>2 DEF x, y, z
  <2>9. output' \o Meaning(s)[at'] = Meaning(s)[1]
    BY <2>1, <2>2, <2>6, <2>8, Zenon
  <2> QED BY <2>2, <2>9 DEF s
<1>10. BackInv'
  <2> SUFFICES ASSUME string # <<>>
               PROVE  /\ input = Append(Printed(string)[Len(string)], Quote)
                      /\ \E k \in 0..Len(string) :
                           at' = Need(string)[k] + 1 /\ output' = SubSeq(string, 1, k)
    BY <1>1, <1>3 DEF BackInv
  <2>1. input = Append(Printed(string)[Len(string)], Quote)
        /\ \E k \in 0..Len(string) :
             at = Need(string)[k] + 1 /\ output = SubSeq(string, 1, k)
    BY <1>1 DEF StringsInv, BackInv
  <2>2. PICK k \in 0..Len(string) : at = Need(string)[k] + 1 /\ output = SubSeq(string, 1, k)
    BY <2>1
  <2>3. /\ k + 1 \in 1..Len(string) /\ at' = Need(string)[k + 1] + 1
        /\ output' = Append(output, string[k + 1])
    <3>1. at < End
      BY <1>1 DEF End
    <3> QED BY <1>1, <2>1, <2>2, <3>1, ReadsBack
  <2>4. Len(string) \in Nat /\ k + 1 \in 0..Len(string) /\ (k + 1) - 1 = k
    BY <1>2, <2>3, LenProperties
  <2>5. output' = SubSeq(string, 1, k + 1)
    <3>1. 1 \in 1..Len(string) /\ k + 1 \in 1..Len(string)
      BY <2>3, <2>4
    <3>2. SubSeq(string, 1, k + 1) = SubSeq(string, 1, (k + 1) - 1) \o <<string[k + 1]>>
      BY <1>2, <3>1, SubSeqRecursiveSecond
    <3>3. string[k + 1] \in Nat
      <4>1. string[k + 1] \in Byte
        BY <1>2, <2>3, ElementOfSeq
      <4> QED BY <4>1, BytesAreNumbers
    <3>4. Append(output, string[k + 1]) = output \o <<string[k + 1]>>
      BY <1>2, <3>3, AppendIsConcat
    <3>5. SubSeq(string, 1, (k + 1) - 1) = output
      BY <2>2, <2>4
    <3> QED BY <2>3, <3>2, <3>4, <3>5, Zenon
  <2> QED BY <2>1, <2>3, <2>4, <2>5
<1> QED BY <1>5, <1>6, <1>8, <1>9, <1>10 DEF StringsInv

LEMMA ReadFailsKeeps == StringsInv /\ ReadFails => StringsInv'
PROOF
<1> SUFFICES ASSUME StringsInv, ReadFails PROVE StringsInv'
  OBVIOUS
<1>1. /\ doing = "parse" /\ at < End /\ doing' = "failed" /\ string' = string /\ input' = input
      /\ at' = at /\ output' = output /\ room' = room
  BY DEF ReadFails
<1>2. StringTypes
  BY DEF StringsInv
<1>3. StringTypes'
  BY <1>1, <1>2 DEF StringTypes
<1>4. string = <<>>
  <2> SUFFICES ASSUME string # <<>> PROVE FALSE
    OBVIOUS
  <2>1. input = Append(Printed(string)[Len(string)], Quote)
        /\ \E k \in 0..Len(string) : at = Need(string)[k] + 1
    BY <1>1 DEF StringsInv, BackInv
  <2>2. PICK k \in 0..Len(string) : at = Need(string)[k] + 1
    BY <2>1
  <2> QED BY <1>1, <1>2, <2>1, <2>2, ReadsBack
<1> QED BY <1>1, <1>3, <1>4 DEF StringsInv, PrintInv, RoomInv, BackInv, MeaningInv, Reading

LEMMA ReadEndsKeeps == StringsInv /\ ReadEnds => StringsInv'
PROOF
<1> SUFFICES ASSUME StringsInv, ReadEnds PROVE StringsInv'
  OBVIOUS
<1>1. /\ doing = "parse" /\ at >= End /\ doing' = "done" /\ string' = string /\ input' = input
      /\ at' = at /\ output' = output /\ room' = room
  BY DEF ReadEnds
<1>2. StringTypes /\ StringTypes'
  BY <1>1 DEF StringsInv, StringTypes
<1>3. RoomInv'
  BY <1>1 DEF StringsInv, RoomInv, Reading, End
<1>4. MeaningInv' /\ PrintInv'
  BY <1>1 DEF StringsInv, MeaningInv, PrintInv, Reading
<1>5. BackInv'
  <2> SUFFICES ASSUME string # <<>>
               PROVE  /\ input = Append(Printed(string)[Len(string)], Quote)
                      /\ at = Need(string)[Len(string)] + 1
                      /\ output = SubSeq(string, 1, Len(string)) /\ Len(string) \in 0..Len(string)
    BY <1>1 DEF BackInv
  <2>1. /\ string \in Seq(Byte) /\ Len(string) \in Nat /\ at \in Nat
        /\ input = Append(Printed(string)[Len(string)], Quote)
        /\ \E k \in 0..Len(string) : at = Need(string)[k] + 1 /\ output = SubSeq(string, 1, k)
    BY <1>1, <1>2, LenProperties DEF StringsInv, BackInv, StringTypes
  <2>2. PICK k \in 0..Len(string) : at = Need(string)[k] + 1 /\ output = SubSeq(string, 1, k)
    BY <2>1
  <2>3. k = Len(string)
    <3> DEFINE x == Need(string)[k]
               m == Measured(string)
    <3>1. End = m + 1
      BY <2>1, PrintedScans DEF End
    <3>2. k < Len(string) => x < m
      BY <2>1, PrintedBegins
    <3>3. x \in Nat /\ m \in Nat
      <4>1. Len(string) \in 0..Len(string)
        BY <2>1
      <4> QED BY <2>1, <4>1, NeedIs DEF Measured
    <3>4. at = x + 1 /\ at >= End
      BY <1>1, <2>2
    <3> HIDE DEF x, m
    <3> QED BY <2>1, <3>1, <3>2, <3>3, <3>4
  <2> QED BY <2>1, <2>2, <2>3
<1> QED BY <1>2, <1>3, <1>4, <1>5 DEF StringsInv

LEMMA StringsInvIsInductive == StringsInv /\ [NextString]_stringVars => StringsInv'
PROOF
<1>1. StringsInv /\ UNCHANGED stringVars => StringsInv'
  BY Zenon DEF stringVars, StringsInv, StringTypes, PrintInv, RoomInv, BackInv, MeaningInv,
               Reading, End
<1> QED BY <1>1, PrintCharacterKeeps, PrintEndsKeeps, ReadCharacterKeeps, ReadFailsKeeps,
           ReadEndsKeeps DEF NextString

LEMMA StringsInvIsEnough == StringsInv => StringsSurvive
PROOF
<1> SUFFICES ASSUME StringsInv PROVE StringsSurvive
  OBVIOUS
<1>1. /\ string \in Seq(Byte) /\ input \in Seq(Byte) /\ at \in Nat /\ output \in Seq(Nat)
      /\ doing \in {"print", "parse", "done", "failed"} /\ Len(output) \in Nat /\ at > 0
      /\ Len(string) \in Nat
  BY LenProperties DEF StringsInv, StringTypes
<1>2. FitsTheRoom
  <2>1. CASE doing = "print"
    <3> DEFINE p == Printed(string)[at - 1]
    <3>1. at - 1 \in 0..Len(string) /\ room = Measured(string) + 3 /\ output = <<Quote>> \o p
      <4>1. at <= Len(string) + 1 /\ room = Measured(string) + 3 /\ output = <<Quote>> \o p
        BY <2>1 DEF StringsInv, PrintInv
      <4> QED BY <1>1, <4>1
    <3>2. p \in Seq(Byte) /\ Len(p) = Need(string)[at - 1]
      BY <1>1, <3>1, PrintedIs
    <3>3. Need(string)[at - 1] <= Measured(string) /\ Need(string)[at - 1] \in Nat
          /\ Measured(string) \in Nat
      <4>1. Len(string) \in 0..Len(string)
        BY <1>1
      <4> QED BY <1>1, <3>1, <4>1, PrintedBegins, NeedIs DEF Measured
    <3>4. <<Quote>> \in Seq(Byte) /\ Len(<<Quote>>) = 1
      BY DEF Quote, Byte
    <3> HIDE DEF p
    <3>5. Len(output) = 1 + Len(p)
      BY <3>1, <3>2, <3>4, ConcatProperties
    <3>6. Len(output) + 2 <= room
      <4> DEFINE x == Need(string)[at - 1]
                 m == Measured(string)
                 l == Len(output)
      <4>1. x \in Nat /\ m \in Nat /\ x <= m /\ l = 1 + x /\ room = m + 3
        BY <3>1, <3>2, <3>3, <3>5
      <4> HIDE DEF x, m, l
      <4>2. l + 2 <= room
        BY <4>1
      <4> QED BY <4>2 DEF l
    <3> QED BY <2>1, <3>6 DEF FitsTheRoom
  <2>2. CASE Reading
    <3>1. EndOf(input) # 0 /\ room = Room(input) + 1 /\ Within(input, at, Len(output))
      BY <2>2 DEF StringsInv, RoomInv
    <3>2. Len(output) + 1 <= room
      BY <1>1, <3>1, WithinFits
    <3> QED BY <2>2, <3>2 DEF FitsTheRoom, Reading
  <2> QED BY <1>1, <2>1, <2>2 DEF FitsTheRoom, Reading
<1>3. ReadsWhatItPrinted
  <2>1. ASSUME string # <<>> PROVE doing # "failed"
    BY <2>1 DEF StringsInv, BackInv
  <2>2. ASSUME doing = "done", string # <<>> PROVE output = string
    <3>1. output = SubSeq(string, 1, Len(string))
      BY <2>2 DEF StringsInv, BackInv
    <3> QED BY <1>1, <3>1, SubSeqFull
  <2> QED BY <2>1, <2>2 DEF ReadsWhatItPrinted
<1>4. DecodesUtf16
  <2> SUFFICES ASSUME doing = "done", WellFormed(input) PROVE output = Meaning(Body(input))[1]
    BY DEF DecodesUtf16, Body, End
  <2> DEFINE s == Body(input)
  <2>1. /\ EndOf(input) # 0 /\ at >= EndOf(input) /\ Boundary(input, at)
        /\ output \o Meaning(s)[at] = Meaning(s)[1]
    BY DEF StringsInv, RoomInv, MeaningInv, Reading, End
  <2>2. at = EndOf(input) /\ EndOf(input) \in Nat
    <3>1. at <= EndOf(input) /\ EndOf(input) \in 1..Len(input)
      BY <1>1, <2>1, ScanEnds
    <3> QED BY <1>1, <2>1, <3>1
  <2>3. s \in Seq(Byte) /\ Len(s) = EndOf(input) - 1
    BY <1>1, <2>1, BodyIs
  <2> HIDE DEF s
  <2>4. at \in 1..(Len(s) + 12) /\ at > Len(s)
    BY <1>1, <2>2, <2>3
  <2>5. Meaning(s)[at] = <<>>
    BY <2>3, <2>4, MeaningFrom
  <2>6. output \o <<>> = output
    BY <1>1, ConcatEmptySeq
  <2> QED BY <2>1, <2>5, <2>6, Zenon DEF s
<1> QED BY <1>2, <1>3, <1>4 DEF StringsSurvive

\* Whatever the string and whatever the text: the second pass of print_string_ptr and of
\* parse_string stays within the bytes its first pass has asked for; a string that was
\* printed is read back as it was, and never refused; and a text whose literals have
\* their digits becomes the UTF-8 of what it stands for.
THEOREM StringsAreSafe == StringsSpec => []StringsSurvive
PROOF
<1>1. InitStrings => StringsInv
  BY StringsInvHolds
<1>2. StringsInv /\ [NextString]_stringVars => StringsInv'
  BY StringsInvIsInductive
<1>3. StringsInv => StringsSurvive
  BY StringsInvIsEnough
<1> QED BY <1>1, <1>2, <1>3, PTL DEF StringsSpec

-----------------------------------------------------------------------------
(* The parser.  The blocks of a parse are counted by the lexemes that are  *)
(* behind it: an item for each value, a string for each string and name.   *)

Owners == Literals \cup {"[", "{", "string"}
Spots(s, a, m, L) == {i \in a..m : s[i] \in L}
Weighs(s, a, m) ==
  Cardinality(Spots(s, a, m, Owners)) + Cardinality(Spots(s, a, m, {"string"}))
  - Cardinality(Spots(s, a, m, {":"}))
One(c, L) == IF c \in L THEN 1 ELSE 0
Weight(c) == One(c, Owners) + One(c, {"string"}) - One(c, {":"})

LEMMA SpotsAreCounted ==
  ASSUME NEW s, NEW a \in Int, NEW m \in Int, NEW L
  PROVE  IsFiniteSet(Spots(s, a, m, L)) /\ Cardinality(Spots(s, a, m, L)) \in Nat
PROOF
<1>1. IsFiniteSet(a..m)
  BY FS_Interval
<1>2. Spots(s, a, m, L) \in SUBSET (a..m)
  BY DEF Spots
<1>3. IsFiniteSet(Spots(s, a, m, L))
  BY <1>1, <1>2, FS_Subset
<1> QED BY <1>3, FS_CardinalityType

LEMMA SpotsStep ==
  ASSUME NEW s, NEW a \in Int, NEW m \in Int, a <= m, NEW L
  PROVE  Cardinality(Spots(s, a, m, L)) = Cardinality(Spots(s, a, m - 1, L)) + One(s[m], L)
PROOF
<1> DEFINE S == Spots(s, a, m - 1, L)
<1>1. m - 1 \in Int /\ m \notin a..(m - 1) /\ a..m = (a..(m - 1)) \cup {m}
  OBVIOUS
<1>2. IsFiniteSet(S) /\ m \notin S
  BY <1>1, SpotsAreCounted DEF Spots
<1>3. CASE s[m] \in L
  <2>1. Spots(s, a, m, L) = S \cup {m}
    BY <1>1, <1>3 DEF Spots
  <2>2. Cardinality(S \cup {m}) = Cardinality(S) + 1
    BY <1>2, FS_AddElement
  <2> QED BY <1>3, <2>1, <2>2 DEF One
<1>4. CASE s[m] \notin L
  <2>1. Spots(s, a, m, L) = S
    BY <1>1, <1>4 DEF Spots
  <2>2. Cardinality(S) \in Nat
    BY <1>1, SpotsAreCounted
  <2> QED BY <1>4, <2>1, <2>2 DEF One
<1> QED BY <1>3, <1>4

LEMMA WeighsIs ==
  ASSUME NEW s, NEW a \in Int, NEW m \in Int
  PROVE  Weighs(s, a, m) \in Int
PROOF
<1>1. \A L : Cardinality(Spots(s, a, m, L)) \in Nat
  BY SpotsAreCounted
<1> QED BY <1>1 DEF Weighs

LEMMA WeighsStep ==
  ASSUME NEW s, NEW a \in Int, NEW m \in Int, a <= m
  PROVE  Weighs(s, a, m) = Weighs(s, a, m - 1) + Weight(s[m])
PROOF
<1> DEFINE N(k, L) == Cardinality(Spots(s, a, k, L))
<1>1. \A L : N(m, L) = N(m - 1, L) + One(s[m], L)
  BY SpotsStep
<1>2. m - 1 \in Int
  OBVIOUS
<1>3. \A L : N(m, L) \in Nat /\ N(m - 1, L) \in Nat
  BY <1>2, SpotsAreCounted
<1>4. \A L : One(s[m], L) \in Nat
  BY DEF One
<1>5. /\ Weighs(s, a, m) = N(m, Owners) + N(m, {"string"}) - N(m, {":"})
      /\ Weighs(s, a, m - 1) = N(m - 1, Owners) + N(m - 1, {"string"}) - N(m - 1, {":"})
  BY DEF Weighs
<1> HIDE DEF N
<1> QED BY <1>1, <1>3, <1>4, <1>5 DEF Weight

LEMMA WeighsNothing ==
  ASSUME NEW s, NEW a \in Int
  PROVE  Weighs(s, a, a - 1) = 0
PROOF
<1>1. a..(a - 1) = {}
  OBVIOUS
<1>2. \A L : Spots(s, a, a - 1, L) = {}
  BY <1>1 DEF Spots
<1>3. Cardinality({}) = 0
  BY FS_EmptySet
<1> QED BY <1>2, <1>3 DEF Weighs

LEMMA RangesSplit ==
  ASSUME NEW a \in Int, NEW m \in Int, NEW n \in Int, m <= n
  PROVE  /\ \A i \in a..n : i \in a..m \/ i \in (m + 1)..n
         /\ \A i \in a..m : i \in a..n
OBVIOUS

LEMMA WeighsOver ==
  ASSUME NEW s, NEW a \in Int, NEW m \in Int, NEW n \in Int, m <= n,
         \A i \in (m + 1)..n : s[i] \in Blanks
  PROVE  Weighs(s, a, n) = Weighs(s, a, m)
PROOF
<1>1. \A i \in (m + 1)..n : s[i] \notin Owners \cup {"string", ":"}
  BY Zenon DEF Owners, Literals, Blanks, Space, NUL
<1>2. ASSUME NEW L, L \subseteq Owners \cup {"string", ":"}
      PROVE  Spots(s, a, n, L) = Spots(s, a, m, L)
  <2>1. \A i \in (m + 1)..n : s[i] \notin L
    BY <1>1, <1>2
  <2>2. (\A i \in a..n : i \in a..m \/ i \in (m + 1)..n) /\ (\A i \in a..m : i \in a..n)
    BY RangesSplit
  <2> QED BY <2>1, <2>2 DEF Spots
<1>3. /\ Spots(s, a, n, Owners) = Spots(s, a, m, Owners)
      /\ Spots(s, a, n, {"string"}) = Spots(s, a, m, {"string"})
      /\ Spots(s, a, n, {":"}) = Spots(s, a, m, {":"})
  BY <1>2
<1> QED BY <1>3 DEF Weighs

LEMMA Weights ==
  /\ \A c \in Literals \cup {"[", "{"} : Weight(c) = 1
  /\ Weight("string") = 2 /\ Weight(":") = -1
  /\ \A c \in {"]", "}", ","} : Weight(c) = 0
BY DEF Weight, One, Owners, Literals

-----------------------------------------------------------------------------
(* The frames hold the blocks: a running total of what they own ends at    *)
(* the number of blocks.                                                   *)

Frame == [kind : {"root", "array", "object"}, blocks : Nat]
HeldBy(f, b) ==
  \E total \in [0..Len(f) -> Int] :
    /\ total[0] = 0 /\ total[Len(f)] = b
    /\ \A i \in 1..Len(f) : total[i] = total[i - 1] + f[i].blocks

LEMMA NoneHolds == \A b : HeldBy(<<>>, b) => b = 0
BY EmptySeq DEF HeldBy

LEMMA NoneIsHeld == HeldBy(<<>>, 0)
PROOF
<1>1. Len(<<>>) = 0
  BY EmptySeq
<1> DEFINE total == [i \in 0..0 |-> 0]
<1>2. total \in [0..0 -> Int] /\ total[0] = 0 /\ 1..0 = {}
  OBVIOUS
<1> QED BY <1>1, <1>2 DEF HeldBy

LEMMA AppendHolds ==
  ASSUME NEW f \in Seq(Frame), NEW b, NEW e \in Frame, HeldBy(f, b)
  PROVE  b \in Int /\ HeldBy(Append(f, e), b + e.blocks)
PROOF
<1> DEFINE n == Len(f)
           g == Append(f, e)
<1>1. n \in Nat /\ e.blocks \in Nat
  BY LenProperties DEF Frame
<1>2. Len(g) = n + 1 /\ g[n + 1] = e /\ \A i \in 1..n : g[i] = f[i]
  BY AppendProperties
<1>3. PICK total \in [0..n -> Int] :
        /\ total[0] = 0 /\ total[n] = b
        /\ \A i \in 1..n : total[i] = total[i - 1] + f[i].blocks
  BY DEF HeldBy
<1>4. b \in Int
  BY <1>1, <1>3
<1> DEFINE t == [i \in 0..(n + 1) |-> IF i = n + 1 THEN b + e.blocks ELSE total[i]]
<1> HIDE DEF n, g
<1>5. t \in [0..(n + 1) -> Int]
  BY <1>1, <1>3, <1>4
<1>6. t[0] = 0 /\ t[n + 1] = b + e.blocks
  BY <1>1, <1>3
<1>7. ASSUME NEW i \in 1..(n + 1) PROVE t[i] = t[i - 1] + g[i].blocks
  <2>1. CASE i = n + 1
    <3>1. t[i] = b + e.blocks /\ t[i - 1] = total[n] /\ g[i].blocks = e.blocks
      BY <1>1, <1>2, <2>1
    <3> QED BY <1>3, <3>1
  <2>2. CASE i # n + 1
    <3>1. i \in 1..n /\ i - 1 \in 0..n /\ i \in 0..n /\ i - 1 # n + 1
      BY <1>1, <2>2
    <3>2. t[i] = total[i] /\ t[i - 1] = total[i - 1] /\ g[i] = f[i]
      BY <1>1, <1>2, <2>2, <3>1
    <3> QED BY <1>3, <3>1, <3>2
  <2> QED BY <2>1, <2>2
<1> HIDE DEF t
<1>8. HeldBy(g, b + e.blocks)
  BY <1>2, <1>5, <1>6, <1>7 DEF HeldBy
<1> QED BY <1>4, <1>8 DEF g

LEMMA FrontHolds ==
  ASSUME NEW f \in Seq(Frame), f # <<>>, NEW b, HeldBy(f, b)
  PROVE  HeldBy(Front(f), b - f[Len(f)].blocks)
PROOF
<1> DEFINE n == Len(f) - 1
           g == Front(f)
<1>1. n \in Nat /\ Len(f) = n + 1 /\ f[n + 1].blocks \in Nat
  <2>1. Len(f) \in Nat \ {0}
    BY EmptySeq
  <2>2. f[Len(f)] \in Frame
    BY <2>1, ElementOfSeq
  <2> QED BY <2>1, <2>2 DEF Frame
<1>2. Len(g) = n /\ \A i \in 1..n : g[i] = f[i]
  <2>1. \A i \in 1..n : f[i] \in Frame
    BY <1>1, ElementOfSeq
  <2> QED BY <1>1, <2>1, SubSeqProperties DEF Front
<1>3. PICK total \in [0..Len(f) -> Int] :
        /\ total[0] = 0 /\ total[Len(f)] = b
        /\ \A i \in 1..Len(f) : total[i] = total[i - 1] + f[i].blocks
  BY DEF HeldBy
<1> DEFINE t == [i \in 0..n |-> total[i]]
<1> HIDE DEF n, g
<1>4. t \in [0..n -> Int] /\ t[0] = 0 /\ \A i \in 0..n : t[i] = total[i]
  BY <1>1, <1>3
<1>5. total[n + 1] = total[n] + f[n + 1].blocks /\ total[n] \in Int
  <2>1. n + 1 \in 1..Len(f) /\ (n + 1) - 1 = n /\ n \in 0..Len(f)
    BY <1>1
  <2> QED BY <1>3, <2>1
<1>6. t[n] = b - f[Len(f)].blocks
  BY <1>1, <1>3, <1>4, <1>5
<1>7. ASSUME NEW i \in 1..n PROVE t[i] = t[i - 1] + g[i].blocks
  <2>1. i \in 0..n /\ i - 1 \in 0..n /\ i \in 1..Len(f)
    BY <1>1
  <2> QED BY <1>2, <1>3, <1>4, <2>1
<1> HIDE DEF t
<1>8. HeldBy(g, b - f[Len(f)].blocks)
  BY <1>2, <1>4, <1>6, <1>7 DEF HeldBy
<1> QED BY <1>8 DEF g

LEMMA LastHolds ==
  ASSUME NEW f \in Seq(Frame), f # <<>>, NEW b, HeldBy(f, b), NEW m \in Nat
  PROVE  HeldBy([f EXCEPT ![Len(f)].blocks = @ + m], b + m)
PROOF
<1> DEFINE n == Len(f) - 1
           g == [f EXCEPT ![Len(f)].blocks = @ + m]
<1>1. n \in Nat /\ Len(f) = n + 1 /\ f[n + 1] \in Frame
  <2>1. Len(f) \in Nat \ {0}
    BY EmptySeq
  <2>2. f[Len(f)] \in Frame
    BY <2>1, ElementOfSeq
  <2> QED BY <2>1, <2>2
<1>2. /\ Len(g) = n + 1 /\ \A i \in 1..n : g[i] = f[i]
      /\ g[n + 1].blocks = f[n + 1].blocks + m
  <2>1. f \in [1..(n + 1) -> Frame] /\ n + 1 \in 1..(n + 1)
    BY <1>1, LenProperties
  <2>2. [f[n + 1] EXCEPT !.blocks = @ + m] \in Frame
    BY <1>1 DEF Frame
  <2>3. g = [f EXCEPT ![n + 1] = [f[n + 1] EXCEPT !.blocks = @ + m]]
    BY <1>1
  <2>4. Len(g) = Len(f)
    BY <1>1, <2>1, <2>2, <2>3, ExceptSeq
  <2>5. [f[n + 1] EXCEPT !.blocks = @ + m].blocks = f[n + 1].blocks + m
    BY <1>1 DEF Frame
  <2> QED BY <1>1, <2>1, <2>3, <2>4, <2>5
<1>3. PICK total \in [0..(n + 1) -> Int] :
        /\ total[0] = 0 /\ total[n + 1] = b
        /\ \A i \in 1..(n + 1) : total[i] = total[i - 1] + f[i].blocks
  BY <1>1 DEF HeldBy
<1> DEFINE t == [i \in 0..(n + 1) |-> IF i = n + 1 THEN b + m ELSE total[i]]
<1> HIDE DEF n, g
<1>4. b \in Int /\ f[n + 1].blocks \in Nat
  BY <1>1, <1>3 DEF Frame
<1>5. t \in [0..(n + 1) -> Int] /\ t[0] = 0 /\ t[n + 1] = b + m
  BY <1>1, <1>3, <1>4
<1>6. ASSUME NEW i \in 1..(n + 1) PROVE t[i] = t[i - 1] + g[i].blocks
  <2>1. CASE i = n + 1
    <3>1. n + 1 \in 1..(n + 1) /\ (n + 1) - 1 = n /\ n \in 0..(n + 1) /\ n # n + 1
      BY <1>1
    <3>2. t[i] = b + m /\ t[i - 1] = total[n] /\ total[n] \in Int
      BY <1>3, <2>1, <3>1
    <3>3. b = total[n] + f[n + 1].blocks
      BY <1>3, <3>1
    <3> QED BY <1>2, <1>4, <2>1, <3>2, <3>3
  <2>2. CASE i # n + 1
    <3>1. i \in 1..n /\ i - 1 \in 0..(n + 1) /\ i \in 0..(n + 1) /\ i - 1 # n + 1
      BY <1>1, <2>2
    <3>2. t[i] = total[i] /\ t[i - 1] = total[i - 1] /\ g[i] = f[i]
      BY <1>1, <1>2, <2>2, <3>1
    <3> QED BY <1>3, <3>1, <3>2
  <2> QED BY <2>1, <2>2
<1> HIDE DEF t
<1>7. HeldBy(g, b + m)
  BY <1>2, <1>5, <1>6 DEF HeldBy
<1> QED BY <1>7 DEF g

LEMMA FrontIs ==
  ASSUME NEW f \in Seq(Frame), f # <<>>
  PROVE  /\ Front(f) \in Seq(Frame) /\ Len(Front(f)) = Len(f) - 1 /\ Len(f) \in Nat \ {0}
         /\ f[Len(f)] \in Frame
         /\ \A i \in 1..(Len(f) - 1) : Front(f)[i] = f[i]
PROOF
<1>1. Len(f) \in Nat \ {0}
  BY EmptySeq
<1>2. \A i \in 1..(Len(f) - 1) : f[i] \in Frame
  BY <1>1, ElementOfSeq
<1>3. f[Len(f)] \in Frame
  BY <1>1, ElementOfSeq
<1> DEFINE n == Len(f) - 1
<1>4. n \in Nat
  BY <1>1
<1> HIDE DEF n
<1>5. /\ SubSeq(f, 1, n) \in Seq(Frame) /\ Len(SubSeq(f, 1, n)) = n
      /\ \A i \in 1..n : SubSeq(f, 1, n)[i] = f[i]
  <2>1. \A i \in 1..n : f[i] \in Frame
    BY <1>2 DEF n
  <2> QED BY <1>4, <2>1, SubSeqProperties
<1> QED BY <1>1, <1>3, <1>5 DEF n, Front

LEMMA OwningIs ==
  ASSUME NEW f \in Seq(Frame), f # <<>>, NEW m \in Nat
  PROVE  /\ [f EXCEPT ![Len(f)].blocks = @ + m] \in Seq(Frame)
         /\ Len([f EXCEPT ![Len(f)].blocks = @ + m]) = Len(f)
         /\ \A i \in 1..Len(f) : [f EXCEPT ![Len(f)].blocks = @ + m][i].kind = f[i].kind
PROOF
<1> DEFINE n == Len(f)
           e == [f[n] EXCEPT !.blocks = @ + m]
<1>1. n \in Nat /\ n \in 1..n /\ f[n] \in Frame
  BY FrontIs
<1>2. e \in Frame /\ e.kind = f[n].kind
  BY <1>1 DEF Frame
<1>3. [f EXCEPT ![n].blocks = @ + m] = [f EXCEPT ![n] = e]
  OBVIOUS
<1> HIDE DEF e
<1> QED BY <1>1, <1>2, <1>3, ExceptSeq

-----------------------------------------------------------------------------
(* The invariant.                                                           *)

\* What a parse has behind it.
Tally(m) == Weighs(text, AfterBom, m)

ParseTypes ==
  /\ text \in Seq(Lexeme \cup {NUL}) /\ text # <<>> /\ text[length] = NUL
  /\ offset \in Nat /\ offset >= 1 /\ depth \in Nat
  /\ frames \in Seq(Frame) /\ blocks \in Int
  /\ parsing \in {"begin", "value", "name", "element", "after", "parsed", "fail"}

\* The outermost frame is the caller's, and each list adds a frame and a level.
DepthInv ==
  /\ depth <= NestingLimit
  /\ parsing = "begin" => frames = <<>> /\ depth = 0
  /\ parsing \notin {"begin", "fail"} =>
       frames # <<>> /\ frames[1].kind = "root" /\ depth = Len(frames) - 1

\* Before a value or a name the item for it is there; before an element it is not, and
\* the offset is one before it.
PlaceInv ==
  /\ parsing \in {"value", "name"} =>
       offset \in AfterBom..length /\ blocks = Tally(offset - 1) + 1
  /\ parsing = "element" => offset \in AfterBom..(length - 1) /\ blocks = Tally(offset)
  /\ parsing \in {"after", "parsed"} =>
       offset \in AfterBom..length /\ blocks = Tally(offset - 1)

ParseInv == ParseTypes /\ DepthInv /\ HeldBy(frames, blocks) /\ PlaceInv

LEMMA TextIs ==
  ASSUME ParseTypes
  PROVE  /\ length \in Nat /\ length >= 1 /\ AfterBom \in {1, 2} /\ AfterBom <= length
         /\ \A o \in 1..length : text[o] # NUL => o < length
PROOF
<1>1. length \in Nat \ {0}
  BY EmptySeq DEF ParseTypes, length
<1>2. AfterBom \in {1, 2} /\ AfterBom <= length
  BY <1>1 DEF AfterBom
<1>3. ASSUME NEW o \in 1..length, text[o] # NUL PROVE o < length
  BY <1>1, <1>3 DEF ParseTypes
<1> QED BY <1>1, <1>2, <1>3

\* Skipping leaves the offset on a character, and only blanks behind it.
LEMMA SkipsBlanks ==
  ASSUME ParseTypes, NEW o \in 1..length
  PROVE  /\ SkipWhitespace(o) \in o..length
         /\ \A i \in o..(SkipWhitespace(o) - 1) : text[i] \in Blanks
PROOF
<1> DEFINE Solid(p) == p <= length => text[p] \notin Blanks
           T == {p \in o..(length + 1) : Solid(p)}
           First(p) == (\A i \in o..(p - 1) : text[i] \in Blanks) /\ Solid(p)
<1>1. length \in Nat /\ o \in Nat /\ o <= length
  BY TextIs
<1>2. T \subseteq Nat /\ T # {}
  <2>1. length + 1 \in o..(length + 1) /\ Solid(length + 1)
    BY <1>1
  <2>2. \A r \in o..(length + 1) : r \in Nat
    BY <1>1
  <2> HIDE DEF Solid
  <2> QED BY <2>1, <2>2
<1>3. PICK q \in T : \A k \in T : q <= k
  <2> HIDE DEF T
  <2> QED BY <1>2, LeastNumber
<1>4. q \in o..(length + 1) /\ First(q)
  <2>1. q \in o..(length + 1) /\ Solid(q)
    BY <1>3
  <2>2. ASSUME NEW i \in o..(q - 1) PROVE text[i] \in Blanks
    <3>1. i \in o..(length + 1) /\ i <= length /\ ~(q <= i)
      <4> HIDE DEF Solid
      <4> QED BY <1>1, <2>1
    <3>2. i \notin T
      BY <1>3, <3>1
    <3> QED BY <3>1, <3>2
  <2> QED BY <2>1, <2>2
<1> DEFINE p == PastBlanks(o)
<1>5. p \in o..(length + 1) /\ First(p)
  <2>1. p = CHOOSE r \in o..(length + 1) : First(r)
    BY DEF PastBlanks, CanAccess
  <2> HIDE DEF First, p
  <2> QED BY <1>4, <2>1
<1>6. SkipWhitespace(o) = IF p = length + 1 THEN length ELSE p
  BY <1>1 DEF SkipWhitespace, CanAccess
<1> HIDE DEF p, First
<1>7. p \in o..(length + 1)
  BY <1>5
<1>8. SkipWhitespace(o) \in o..length /\ SkipWhitespace(o) <= p
  BY <1>1, <1>6, <1>7
<1>9. ASSUME NEW i \in o..(SkipWhitespace(o) - 1) PROVE text[i] \in Blanks
  <2>1. i \in o..(p - 1)
    <3> DEFINE w == SkipWhitespace(o)
    <3>1. w \in o..length /\ w <= p /\ i \in o..(w - 1)
      BY <1>8
    <3> HIDE DEF w
    <3> QED BY <1>1, <1>7, <3>1
  <2> QED BY <1>5, <2>1 DEF First
<1> QED BY <1>8, <1>9

LEMMA SkipsNothing ==
  ASSUME ParseTypes, NEW o \in AfterBom..length
  PROVE  /\ SkipWhitespace(o) \in o..length
         /\ Tally(SkipWhitespace(o) - 1) = Tally(o - 1)
PROOF
<1> DEFINE p == SkipWhitespace(o)
           a == AfterBom
<1>1. length \in Nat /\ a \in {1, 2} /\ o \in a..length /\ o \in 1..length
  BY TextIs
<1>2. p \in o..length /\ \A i \in o..(p - 1) : text[i] \in Blanks
  BY <1>1, SkipsBlanks
<1>3. p \in o..length
  BY <1>2
<1> HIDE DEF p, a
<1>4. a \in Int /\ o - 1 \in Int /\ p - 1 \in Int /\ o - 1 <= p - 1 /\ (o - 1) + 1 = o
  BY <1>1, <1>3
<1>5. Weighs(text, a, p - 1) = Weighs(text, a, o - 1)
  <2>1. \A i \in ((o - 1) + 1)..(p - 1) : text[i] \in Blanks
    BY <1>2, <1>4
  <2> QED BY <1>4, <2>1, WeighsOver
<1> QED BY <1>2, <1>5 DEF p, a, Tally

LEMMA TallyStep ==
  ASSUME ParseTypes, NEW o \in AfterBom..length
  PROVE  Tally(o) = Tally(o - 1) + Weight(text[o]) /\ Tally(o - 1) \in Int
PROOF
<1>1. AfterBom \in Int /\ o \in Int /\ AfterBom <= o /\ o - 1 \in Int
  BY TextIs
<1> QED BY <1>1, WeighsStep, WeighsIs DEF Tally

-----------------------------------------------------------------------------
(* One step.                                                                *)

LEMMA TypesNext ==
  ASSUME ParseTypes, text' = text, offset' \in Nat, offset' >= 1, depth' \in Nat,
         frames' \in Seq(Frame), blocks' \in Int,
         parsing' \in {"begin", "value", "name", "element", "after", "parsed", "fail"}
  PROVE  ParseTypes'
BY DEF ParseTypes, length

LEMMA PlaceNext ==
  ASSUME text' = text,
         parsing' \in {"value", "name"} =>
           offset' \in AfterBom..length /\ blocks' = Tally(offset' - 1) + 1,
         parsing' = "element" => offset' \in AfterBom..(length - 1) /\ blocks' = Tally(offset'),
         parsing' \in {"after", "parsed"} =>
           offset' \in AfterBom..length /\ blocks' = Tally(offset' - 1)
  PROVE  PlaceInv'
PROOF
<1>1. length' = length
  BY DEF length
<1>2. AfterBom' = AfterBom
  BY <1>1 DEF AfterBom
<1> QED BY <1>1, <1>2 DEF PlaceInv, Tally

\* The offset is on a character before a value, a name and an element.
LEMMA OnACharacter ==
  ASSUME ParseInv, parsing \in {"value", "name", "element", "after", "parsed"}
  PROVE  /\ offset \in AfterBom..length /\ AfterBom \in {1, 2} /\ length \in Nat
         /\ Tally(offset - 1) \in Int /\ Tally(offset) = Tally(offset - 1) + Weight(Current)
         /\ Current # NUL => offset < length
PROOF
<1>1. ParseTypes /\ length \in Nat /\ AfterBom \in {1, 2} /\ AfterBom <= length
  BY TextIs DEF ParseInv
<1>2. offset \in AfterBom..length
  BY <1>1 DEF ParseInv, PlaceInv
<1>3. Tally(offset - 1) \in Int /\ Tally(offset) = Tally(offset - 1) + Weight(Current)
  BY <1>1, <1>2, TallyStep DEF Current
<1>4. Current # NUL => offset < length
  <2>1. offset \in 1..length
    BY <1>1, <1>2
  <2> QED BY <1>1, <2>1, TextIs DEF Current
<1> QED BY <1>1, <1>2, <1>3, <1>4

\* Whatever fails leaves its frames to Fail.
LEMMA FailingKeeps ==
  ASSUME ParseInv, text' = text, offset' \in Nat, offset' >= 1, parsing' = "fail",
         depth' = depth, frames' = frames, blocks' = blocks
  PROVE  ParseInv'
PROOF
<1>1. ParseTypes'
  BY TypesNext DEF ParseInv, ParseTypes
<1>2. PlaceInv'
  BY PlaceNext
<1>3. DepthInv'
  BY DEF ParseInv, DepthInv
<1> QED BY <1>1, <1>2, <1>3 DEF ParseInv

LEMMA RunsOutOfMemoryKeeps == ParseInv /\ RunsOutOfMemory => ParseInv'
PROOF
<1> SUFFICES ASSUME ParseInv, RunsOutOfMemory PROVE ParseInv'
  OBVIOUS
<1>1. offset' \in Nat /\ offset' >= 1
  BY DEF RunsOutOfMemory, BehindTheQuote, ParseInv, ParseTypes
<1> QED BY <1>1, FailingKeeps DEF RunsOutOfMemory

LEMMA NestsTooDeepKeeps == ParseInv /\ NestsTooDeep => ParseInv'
BY FailingKeeps DEF NestsTooDeep, ParseInv, ParseTypes

LEMMA NoValueKeeps == ParseInv /\ NoValue => ParseInv'
BY FailingKeeps DEF NoValue, ParseInv, ParseTypes

LEMMA NoNameKeeps == ParseInv /\ NoName => ParseInv'
BY FailingKeeps DEF NoName, BehindTheQuote, ParseInv, ParseTypes

LEMMA BeginParseKeeps == ParseInv /\ BeginParse => ParseInv'
PROOF
<1> SUFFICES ASSUME ParseInv, BeginParse PROVE ParseInv'
  OBVIOUS
<1> DEFINE e == [kind |-> "root", blocks |-> 1]
<1>1. /\ text' = text /\ frames' = <<e>> /\ blocks' = 1 /\ depth' = depth
      /\ offset' = SkipWhitespace(AfterBom) /\ parsing' = "value"
  BY DEF BeginParse
<1>2. ParseTypes /\ frames = <<>> /\ depth = 0 /\ depth <= NestingLimit /\ HeldBy(frames, blocks)
  BY DEF ParseInv, DepthInv, BeginParse
<1>3. AfterBom \in AfterBom..length /\ AfterBom \in {1, 2} /\ length \in Nat
  BY <1>2, TextIs
<1>4. offset' \in AfterBom..length /\ Tally(offset' - 1) = Tally(AfterBom - 1)
  BY <1>1, <1>2, <1>3, SkipsNothing
<1>5. Tally(AfterBom - 1) = 0
  BY <1>3, WeighsNothing DEF Tally
<1>6. e \in Frame /\ e.kind = "root" /\ e.blocks = 1
  BY DEF Frame
<1>7. <<e>> \in Seq(Frame) /\ Len(<<e>>) = 1 /\ <<e>>[1] = e /\ <<e>> # <<>>
  BY <1>6
<1>8. HeldBy(frames', blocks')
  <2>1. Append(<<>>, e) = <<e>> /\ <<>> \in Seq(Frame)
    OBVIOUS
  <2> HIDE DEF e
  <2>2. HeldBy(Append(<<>>, e), 0 + e.blocks)
    BY <1>6, <2>1, NoneIsHeld, AppendHolds
  <2> QED BY <1>1, <1>6, <2>1, <2>2
<1> HIDE DEF e
<1>9. ParseTypes'
  <2>1. offset' \in Nat /\ offset' >= 1
    BY <1>3, <1>4
  <2> QED BY <1>1, <1>2, <1>7, <2>1, TypesNext
<1>10. DepthInv'
  BY <1>1, <1>2, <1>6, <1>7 DEF DepthInv
<1>11. PlaceInv'
  BY <1>1, <1>4, <1>5, PlaceNext
<1> QED BY <1>8, <1>9, <1>10, <1>11 DEF ParseInv

\* The frames stay, as many as they are.
LEMMA DepthStays ==
  ASSUME DepthInv, depth' = depth, frames # <<>>, frames' # <<>>,
         frames'[1].kind = frames[1].kind, Len(frames') = Len(frames),
         parsing \notin {"begin", "fail"}, parsing' # "begin"
  PROVE  DepthInv'
BY DEF DepthInv

\* One more block for the list that is parsed.
LEMMA OwningOne ==
  ASSUME ParseInv, parsing \notin {"begin", "fail"}, frames' = Owning(1), blocks' = blocks + 1,
         depth' = depth, parsing' # "begin"
  PROVE  /\ frames' \in Seq(Frame) /\ blocks' \in Int /\ HeldBy(frames', blocks') /\ DepthInv'
PROOF
<1>1. /\ frames \in Seq(Frame) /\ frames # <<>> /\ blocks \in Int /\ HeldBy(frames, blocks)
      /\ DepthInv
  BY DEF ParseInv, ParseTypes, DepthInv
<1>2. frames' = [frames EXCEPT ![Len(frames)].blocks = @ + 1]
  BY DEF Owning
<1>3. /\ frames' \in Seq(Frame) /\ Len(frames') = Len(frames)
      /\ \A i \in 1..Len(frames) : frames'[i].kind = frames[i].kind
  <2> DEFINE Owned(n) == [frames EXCEPT ![Len(frames)].blocks = @ + n]
  <2>1. \A n \in Nat : /\ Owned(n) \in Seq(Frame) /\ Len(Owned(n)) = Len(frames)
                       /\ \A i \in 1..Len(frames) : Owned(n)[i].kind = frames[i].kind
    BY <1>1, OwningIs
  <2>2. frames' = Owned(1)
    BY <1>2
  <2> HIDE DEF Owned
  <2> QED BY <2>1, <2>2
<1>4. HeldBy(frames', blocks')
  BY <1>1, <1>2, LastHolds
<1>5. Len(frames) \in Nat \ {0} /\ 1 \in 1..Len(frames)
  BY <1>1, FrontIs
<1>6. frames' # <<>>
  BY <1>3, <1>5, EmptySeq
<1>7. DepthInv'
  BY <1>1, <1>3, <1>5, <1>6, DepthStays
<1> QED BY <1>1, <1>3, <1>4, <1>7

LEMMA ParseLiteralKeeps == ParseInv /\ ParseLiteral => ParseInv'
PROOF
<1> SUFFICES ASSUME ParseInv, ParseLiteral PROVE ParseInv'
  OBVIOUS
<1>1. /\ parsing = "value" /\ Current \in Literals /\ text' = text /\ frames' = frames
      /\ blocks' = blocks /\ depth' = depth /\ offset' = offset + 1 /\ parsing' = "after"
  BY DEF ParseLiteral
<1>2. Current # NUL /\ Weight(Current) = 1
  BY <1>1, Weights DEF Literals, NUL
<1>3. /\ offset \in AfterBom..length /\ AfterBom \in {1, 2} /\ length \in Nat
      /\ Tally(offset - 1) \in Int /\ Tally(offset) = Tally(offset - 1) + 1 /\ offset < length
  BY <1>1, <1>2, OnACharacter
<1>4. offset' \in AfterBom..length /\ offset' \in Nat /\ offset' >= 1 /\ offset' - 1 = offset
  BY <1>1, <1>3
<1>5. ParseTypes /\ DepthInv /\ HeldBy(frames, blocks) /\ blocks = Tally(offset - 1) + 1
  BY <1>1 DEF ParseInv, PlaceInv
<1>6. ParseTypes'
  BY <1>1, <1>4, <1>5, TypesNext DEF ParseTypes
<1>7. DepthInv'
  BY <1>1, <1>5, DepthStays DEF DepthInv
<1>8. PlaceInv'
  <2>1. blocks' = Tally(offset' - 1)
    BY <1>1, <1>3, <1>4, <1>5
  <2> QED BY <1>1, <1>4, <2>1, PlaceNext
<1> QED BY <1>1, <1>5, <1>6, <1>7, <1>8 DEF ParseInv

LEMMA ParseStringKeeps == ParseInv /\ ParseString => ParseInv'
PROOF
<1> SUFFICES ASSUME ParseInv, ParseString PROVE ParseInv'
  OBVIOUS
<1>1. /\ parsing = "value" /\ Current = "string" /\ text' = text /\ frames' = Owning(1)
      /\ blocks' = blocks + 1 /\ depth' = depth /\ offset' = offset + 1 /\ parsing' = "after"
  BY DEF ParseString
<1>2. Current # NUL /\ Weight(Current) = 2
  BY <1>1, Weights DEF NUL
<1>3. /\ offset \in AfterBom..length /\ AfterBom \in {1, 2} /\ length \in Nat
      /\ Tally(offset - 1) \in Int /\ Tally(offset) = Tally(offset - 1) + 2 /\ offset < length
  BY <1>1, <1>2, OnACharacter
<1>4. offset' \in AfterBom..length /\ offset' \in Nat /\ offset' >= 1 /\ offset' - 1 = offset
  BY <1>1, <1>3
<1>5. ParseTypes /\ blocks = Tally(offset - 1) + 1
  BY <1>1 DEF ParseInv, PlaceInv
<1>6. frames' \in Seq(Frame) /\ blocks' \in Int /\ HeldBy(frames', blocks') /\ DepthInv'
  BY <1>1, OwningOne
<1>7. ParseTypes'
  <2>1. depth' \in Nat
    BY <1>1, <1>5 DEF ParseTypes
  <2> QED BY <1>1, <1>4, <1>5, <1>6, <2>1, TypesNext
<1>8. PlaceInv'
  <2>1. blocks' = Tally(offset' - 1)
    BY <1>1, <1>3, <1>4, <1>5
  <2> QED BY <1>1, <1>4, <2>1, PlaceNext
<1> QED BY <1>6, <1>7, <1>8 DEF ParseInv

LEMMA NextElementKeeps == ParseInv /\ NextElement => ParseInv'
PROOF
<1> SUFFICES ASSUME ParseInv, NextElement PROVE ParseInv'
  OBVIOUS
<1>1. /\ parsing = "element" /\ text' = text /\ frames' = Owning(1) /\ blocks' = blocks + 1
      /\ depth' = depth /\ offset' = SkipWhitespace(offset + 1)
      /\ parsing' \in {"name", "value"}
  BY DEF NextElement
<1>2. ParseTypes /\ offset \in AfterBom..(length - 1) /\ blocks = Tally(offset)
  BY <1>1 DEF ParseInv, PlaceInv
<1>3. AfterBom \in {1, 2} /\ length \in Nat
  BY <1>2, TextIs
<1>4. offset + 1 \in AfterBom..length /\ (offset + 1) - 1 = offset
  BY <1>2, <1>3
<1>5. offset' \in (offset + 1)..length /\ Tally(offset' - 1) = Tally(offset)
  BY <1>1, <1>2, <1>4, SkipsNothing
<1>6. offset' \in AfterBom..length /\ offset' \in Nat /\ offset' >= 1
  <2>1. offset' \in (offset + 1)..length
    BY <1>5
  <2> QED BY <1>2, <1>3, <2>1
<1>7. frames' \in Seq(Frame) /\ blocks' \in Int /\ HeldBy(frames', blocks') /\ DepthInv'
  BY <1>1, OwningOne
<1>8. ParseTypes'
  <2>1. depth' \in Nat
    BY <1>1, <1>2 DEF ParseTypes
  <2> QED BY <1>1, <1>2, <1>6, <1>7, <2>1, TypesNext
<1>9. PlaceInv'
  <2>1. blocks' = Tally(offset' - 1) + 1
    BY <1>1, <1>2, <1>5
  <2> QED BY <1>1, <1>6, <2>1, PlaceNext
<1> QED BY <1>7, <1>8, <1>9 DEF ParseInv

LEMMA ParseNameKeeps == ParseInv /\ ParseName => ParseInv'
PROOF
<1> SUFFICES ASSUME ParseInv, ParseName PROVE ParseInv'
  OBVIOUS
<1> DEFINE o == SkipWhitespace(offset + 1)
<1>1. /\ parsing = "name" /\ Current = "string" /\ text' = text /\ frames' = Owning(1)
      /\ blocks' = blocks + 1 /\ depth' = depth
      /\ IF text[o] = ":" THEN offset' = SkipWhitespace(o + 1) /\ parsing' = "value"
         ELSE offset' = o /\ parsing' = "fail"
  BY DEF ParseName
<1>2. Current # NUL /\ Weight(Current) = 2
  BY <1>1, Weights DEF NUL
<1>3. /\ offset \in AfterBom..length /\ AfterBom \in {1, 2} /\ length \in Nat
      /\ Tally(offset - 1) \in Int /\ Tally(offset) = Tally(offset - 1) + 2 /\ offset < length
  BY <1>1, <1>2, OnACharacter
<1>4. ParseTypes /\ blocks = Tally(offset - 1) + 1
  BY <1>1 DEF ParseInv, PlaceInv
<1>5. offset + 1 \in AfterBom..length /\ (offset + 1) - 1 = offset
  BY <1>3
<1>6. o \in (offset + 1)..length /\ Tally(o - 1) = Tally(offset)
  BY <1>4, <1>5, SkipsNothing
<1> HIDE DEF o
<1>7. o \in AfterBom..length /\ o \in 1..length
  BY <1>3, <1>6
<1>8. CASE text[o] = ":"
  <2>1. Weight(text[o]) = -1 /\ text[o] # NUL
    BY <1>8, Weights DEF NUL
  <2>2. Tally(o) = Tally(o - 1) - 1
    <3>1. Tally(o) = Tally(o - 1) + Weight(text[o]) /\ Tally(o - 1) \in Int
      BY <1>4, <1>7, TallyStep
    <3> QED BY <2>1, <3>1
  <2>3. o < length
    BY <1>4, <1>7, <2>1, TextIs
  <2>4. o + 1 \in AfterBom..length /\ (o + 1) - 1 = o
    BY <1>3, <1>7, <2>3
  <2>5. offset' \in (o + 1)..length /\ Tally(offset' - 1) = Tally(o)
    BY <1>1, <1>4, <1>8, <2>4, SkipsNothing
  <2>6. offset' \in AfterBom..length /\ offset' \in Nat /\ offset' >= 1
    <3>1. offset' \in (o + 1)..length
      BY <2>5
    <3> QED BY <1>3, <1>7, <3>1
  <2>7. parsing' = "value"
    BY <1>1, <1>8
  <2>8. blocks' = Tally(offset' - 1) + 1
    BY <1>1, <1>3, <1>4, <1>6, <2>2, <2>5
  <2>9. PlaceInv'
    BY <1>1, <2>6, <2>7, <2>8, PlaceNext
  <2>10. frames' \in Seq(Frame) /\ blocks' \in Int /\ HeldBy(frames', blocks') /\ DepthInv'
    BY <1>1, <2>7, OwningOne
  <2>11. ParseTypes'
    <3>1. depth' \in Nat
      BY <1>1, <1>4 DEF ParseTypes
    <3> QED BY <1>1, <1>4, <2>6, <2>7, <2>10, <3>1, TypesNext
  <2> QED BY <2>9, <2>10, <2>11 DEF ParseInv
<1>9. CASE text[o] # ":"
  <2>1. offset' = o /\ parsing' = "fail"
    BY <1>1, <1>9
  <2>2. offset' \in Nat /\ offset' >= 1
    BY <1>3, <1>7, <2>1
  <2>3. PlaceInv'
    BY <1>1, <2>1, PlaceNext
  <2>4. frames' \in Seq(Frame) /\ blocks' \in Int /\ HeldBy(frames', blocks') /\ DepthInv'
    BY <1>1, <2>1, OwningOne
  <2>5. ParseTypes'
    <3>1. depth' \in Nat
      BY <1>1, <1>4 DEF ParseTypes
    <3> QED BY <1>1, <1>4, <2>1, <2>2, <2>4, <3>1, TypesNext
  <2> QED BY <2>3, <2>4, <2>5 DEF ParseInv
<1> QED BY <1>8, <1>9

LEMMA OpenListKeeps ==
  ASSUME NEW kind \in {"array", "object"} PROVE ParseInv /\ OpenList(kind) => ParseInv'
PROOF
<1> SUFFICES ASSUME ParseInv, OpenList(kind) PROVE ParseInv'
  OBVIOUS
<1> DEFINE o == SkipWhitespace(offset + 1)
           e == [kind |-> kind, blocks |-> 0]
<1>1. /\ parsing = "value" /\ Current = Opens(kind) /\ depth < NestingLimit
      /\ text' = text /\ blocks' = blocks
      /\ IF text[o] = Closes(kind)
         THEN offset' = o + 1 /\ parsing' = "after" /\ depth' = depth /\ frames' = frames
         ELSE /\ offset' = o - 1 /\ parsing' = "element" /\ depth' = depth + 1
              /\ frames' = Append(frames, e)
  BY DEF OpenList
<1>2. Opens(kind) \in {"[", "{"} /\ Closes(kind) \in {"]", "}"}
  BY DEF Opens, Closes
<1>3. Current # NUL /\ Weight(Current) = 1
  BY <1>1, <1>2, Weights DEF NUL
<1>4. /\ offset \in AfterBom..length /\ AfterBom \in {1, 2} /\ length \in Nat
      /\ Tally(offset - 1) \in Int /\ Tally(offset) = Tally(offset - 1) + 1 /\ offset < length
  BY <1>1, <1>3, OnACharacter
<1>5. ParseTypes /\ DepthInv /\ HeldBy(frames, blocks) /\ blocks = Tally(offset - 1) + 1
  BY <1>1 DEF ParseInv, PlaceInv
<1>6. offset + 1 \in AfterBom..length /\ (offset + 1) - 1 = offset
  BY <1>4
<1>7. o \in (offset + 1)..length /\ Tally(o - 1) = Tally(offset)
  BY <1>5, <1>6, SkipsNothing
<1> HIDE DEF o
<1>8. o \in AfterBom..length /\ o \in 1..length /\ o - 1 \in AfterBom..(length - 1)
  BY <1>4, <1>7
<1>9. blocks = Tally(o - 1)
  BY <1>4, <1>5, <1>7
<1>10. depth \in Nat /\ frames \in Seq(Frame) /\ blocks \in Int
  BY <1>5 DEF ParseTypes
<1>11. frames # <<>> /\ frames[1].kind = "root" /\ depth = Len(frames) - 1
  BY <1>1, <1>5 DEF DepthInv
<1>12. CASE text[o] = Closes(kind)
  <2>1. /\ offset' = o + 1 /\ parsing' = "after" /\ depth' = depth /\ frames' = frames
    BY <1>1, <1>12
  <2>2. Weight(text[o]) = 0 /\ text[o] # NUL
    BY <1>2, <1>12, Weights DEF NUL
  <2>3. Tally(o) = Tally(o - 1)
    <3>1. Tally(o) = Tally(o - 1) + Weight(text[o]) /\ Tally(o - 1) \in Int
      BY <1>5, <1>8, TallyStep
    <3> QED BY <2>2, <3>1
  <2>4. o < length
    BY <1>5, <1>8, <2>2, TextIs
  <2>5. offset' \in AfterBom..length /\ offset' \in Nat /\ offset' >= 1 /\ offset' - 1 = o
    BY <1>4, <1>8, <2>1, <2>4
  <2>6. ParseTypes'
    BY <1>1, <1>5, <1>10, <2>1, <2>5, TypesNext
  <2>7. DepthInv'
    BY <1>1, <1>5, <1>11, <2>1, DepthStays
  <2>8. PlaceInv'
    <3>1. blocks' = Tally(offset' - 1)
      BY <1>1, <1>9, <2>3, <2>5
    <3> QED BY <1>1, <2>1, <2>5, <3>1, PlaceNext
  <2> QED BY <1>1, <1>5, <2>1, <2>6, <2>7, <2>8 DEF ParseInv
<1>13. CASE text[o] # Closes(kind)
  <2>1. /\ offset' = o - 1 /\ parsing' = "element" /\ depth' = depth + 1
        /\ frames' = Append(frames, e)
    BY <1>1, <1>13
  <2>2. e \in Frame /\ e.blocks = 0
    BY DEF Frame
  <2> HIDE DEF e
  <2>3. HeldBy(frames', blocks')
    <3>1. HeldBy(Append(frames, e), blocks + e.blocks)
      BY <1>5, <1>10, <2>2, AppendHolds
    <3>2. blocks + e.blocks = blocks
      BY <1>10, <2>2
    <3> QED BY <1>1, <2>1, <3>1, <3>2
  <2>4. Len(frames) \in Nat \ {0} /\ 1 \in 1..Len(frames)
    BY <1>10, <1>11, FrontIs
  <2>5. /\ frames' \in Seq(Frame) /\ frames' # <<>> /\ Len(frames') = Len(frames) + 1
        /\ frames'[1] = frames[1]
    BY <1>10, <2>1, <2>2, <2>4, AppendProperties
  <2>6. offset' \in AfterBom..(length - 1) /\ offset' \in Nat /\ offset' >= 1
    BY <1>4, <1>8, <2>1
  <2>7. ParseTypes'
    <3>1. depth' \in Nat
      BY <1>10, <2>1
    <3> QED BY <1>1, <1>5, <1>10, <2>1, <2>5, <2>6, <3>1, TypesNext
  <2>8. DepthInv'
    <3>1. depth' <= NestingLimit
      BY <1>1, <1>10, <2>1, ParserAssumption
    <3>2. depth' = Len(frames') - 1
      BY <1>11, <2>1, <2>4, <2>5
    <3> QED BY <1>11, <2>1, <2>5, <3>1, <3>2 DEF DepthInv
  <2>9. PlaceInv'
    <3>1. blocks' = Tally(offset')
      BY <1>1, <1>9, <2>1
    <3> QED BY <1>1, <2>1, <2>6, <3>1, PlaceNext
  <2> QED BY <2>3, <2>7, <2>8, <2>9 DEF ParseInv
<1> QED BY <1>12, <1>13

\* A list that closes hands its blocks to the frame below.
LEMMA CloseListKeeps ==
  ASSUME ParseInv, parsing = "after", Top.kind # "root", NEW o \in 1..length,
         o < length, blocks = Tally(o), o \in AfterBom..length,
         text' = text, blocks' = blocks, CloseList(o)
  PROVE  ParseInv'
PROOF
<1>1. /\ offset' = o + 1 /\ parsing' = "after" /\ depth' = depth - 1
      /\ frames' = [Front(frames) EXCEPT ![Len(frames) - 1].blocks = @ + Top.blocks]
  BY DEF CloseList
<1>2. ParseTypes /\ DepthInv /\ HeldBy(frames, blocks)
  BY DEF ParseInv
<1>3. length \in Nat /\ AfterBom \in {1, 2}
  BY <1>2, TextIs
<1>4. depth \in Nat /\ frames \in Seq(Frame) /\ blocks \in Int
  BY <1>2 DEF ParseTypes
<1>5. frames # <<>> /\ frames[1].kind = "root" /\ depth = Len(frames) - 1
      /\ depth <= NestingLimit
  BY <1>2 DEF DepthInv
<1> DEFINE f == Front(frames)
           m == Top.blocks
<1>6. /\ f \in Seq(Frame) /\ Len(f) = Len(frames) - 1 /\ Len(frames) \in Nat \ {0}
      /\ frames[Len(frames)] \in Frame
      /\ \A i \in 1..(Len(frames) - 1) : f[i] = frames[i]
  BY <1>4, <1>5, FrontIs
<1>7. Len(frames) # 1
  BY <1>5 DEF Top
<1>8. Len(f) \in Nat /\ 1 \in 1..Len(f) /\ 1 \in 1..(Len(frames) - 1)
  BY <1>6, <1>7
<1>9. f # <<>> /\ f[1] = frames[1]
  BY <1>6, <1>8, EmptySeq
<1>10. m \in Nat /\ m = frames[Len(frames)].blocks
  BY <1>6 DEF Top, Frame
<1>11. HeldBy(f, blocks - m)
  BY <1>2, <1>4, <1>5, <1>10, FrontHolds
<1>12. frames' = [f EXCEPT ![Len(f)].blocks = @ + m]
  BY <1>1, <1>6
<1> HIDE DEF f, m
<1>13. HeldBy(frames', (blocks - m) + m)
  BY <1>6, <1>9, <1>10, <1>11, <1>12, LastHolds
<1>14. (blocks - m) + m = blocks
  BY <1>4, <1>10
<1>15. /\ frames' \in Seq(Frame) /\ Len(frames') = Len(f)
       /\ \A i \in 1..Len(f) : frames'[i].kind = f[i].kind
  BY <1>6, <1>9, <1>10, <1>12, OwningIs
<1>16. frames' # <<>>
  BY <1>8, <1>15, EmptySeq
<1>17. ParseTypes'
  <2>1. depth' \in Nat
    BY <1>1, <1>4, <1>5, <1>6, <1>7
  <2>2. offset' \in Nat /\ offset' >= 1
    BY <1>1, <1>3
  <2> QED BY <1>1, <1>2, <1>4, <1>15, <2>1, <2>2, TypesNext
<1>18. DepthInv'
  <2>1. depth' <= NestingLimit
    BY <1>1, <1>4, <1>5, ParserAssumption
  <2>2. depth' = Len(frames') - 1
    BY <1>1, <1>5, <1>6, <1>15
  <2>3. frames'[1].kind = "root"
    BY <1>5, <1>8, <1>9, <1>15
  <2> QED BY <1>1, <1>16, <2>1, <2>2, <2>3 DEF DepthInv
<1>19. PlaceInv'
  <2>1. offset' \in AfterBom..length /\ offset' - 1 = o
    BY <1>1, <1>3
  <2>2. blocks' = Tally(offset' - 1)
    BY <2>1
  <2> QED BY <1>1, <2>1, <2>2, PlaceNext
<1> QED BY <1>13, <1>14, <1>17, <1>18, <1>19 DEF ParseInv

LEMMA AfterElementKeeps == ParseInv /\ AfterElement => ParseInv'
PROOF
<1> SUFFICES ASSUME ParseInv, AfterElement PROVE ParseInv'
  OBVIOUS
<1> DEFINE o == SkipWhitespace(offset)
<1>1. /\ parsing = "after" /\ Top.kind # "root" /\ text' = text /\ blocks' = blocks
      /\ \/ /\ text[o] = "," /\ offset' = o /\ parsing' = "element"
            /\ depth' = depth /\ frames' = frames
         \/ text[o] = Closes(Top.kind) /\ CloseList(o)
         \/ offset' = o /\ parsing' = "fail" /\ depth' = depth /\ frames' = frames
  BY DEF AfterElement
<1>2. ParseTypes /\ DepthInv /\ HeldBy(frames, blocks) /\ blocks = Tally(offset - 1)
  BY <1>1 DEF ParseInv, PlaceInv
<1>3. offset \in AfterBom..length /\ AfterBom \in {1, 2} /\ length \in Nat
  BY <1>1, OnACharacter
<1>4. o \in offset..length /\ Tally(o - 1) = blocks
  BY <1>2, <1>3, SkipsNothing
<1> HIDE DEF o
<1>5. o \in AfterBom..length /\ o \in 1..length
  BY <1>3, <1>4
<1>6. depth \in Nat /\ frames \in Seq(Frame) /\ blocks \in Int
  BY <1>2 DEF ParseTypes
<1>7. ASSUME text[o] \in {"]", "}", ","} PROVE o < length /\ Tally(o) = blocks
  <2>1. Weight(text[o]) = 0 /\ text[o] # NUL
    BY <1>7, Weights DEF NUL
  <2>2. Tally(o) = Tally(o - 1) + Weight(text[o]) /\ Tally(o - 1) \in Int
    BY <1>2, <1>5, TallyStep
  <2>3. o < length
    BY <1>2, <1>5, <2>1, TextIs
  <2> QED BY <1>4, <2>1, <2>2, <2>3
<1>8. CASE /\ text[o] = "," /\ offset' = o /\ parsing' = "element"
           /\ depth' = depth /\ frames' = frames
  <2>1. o < length /\ Tally(o) = blocks
    <3>1. text[o] \in {"]", "}", ","}
      BY <1>8
    <3> QED BY <1>7, <3>1
  <2>2. offset' \in AfterBom..(length - 1) /\ offset' \in Nat /\ offset' >= 1
    <3>1. o < length
      BY <2>1
    <3>2. o \in AfterBom..(length - 1) /\ o \in Nat /\ o >= 1
      BY <1>3, <1>5, <3>1
    <3> QED BY <1>8, <3>2
  <2>3. ParseTypes'
    BY <1>1, <1>2, <1>6, <1>8, <2>2, TypesNext
  <2>4. DepthInv'
    <3>1. frames # <<>>
      BY <1>1, <1>2 DEF DepthInv
    <3> QED BY <1>1, <1>2, <1>8, <3>1, DepthStays
  <2>5. PlaceInv'
    BY <1>1, <1>8, <2>1, <2>2, PlaceNext
  <2> QED BY <1>1, <1>2, <1>8, <2>3, <2>4, <2>5 DEF ParseInv
<1>9. CASE text[o] = Closes(Top.kind) /\ CloseList(o)
  <2>1. text[o] \in {"]", "}", ","}
    BY <1>9 DEF Closes
  <2>2. o < length /\ Tally(o) = blocks
    BY <1>7, <2>1
  <2> QED BY <1>1, <1>5, <1>9, <2>2, CloseListKeeps
<1>10. CASE offset' = o /\ parsing' = "fail" /\ depth' = depth /\ frames' = frames
  <2>1. offset' \in Nat /\ offset' >= 1
    BY <1>5, <1>10
  <2> QED BY <1>1, <1>10, <2>1, FailingKeeps
<1> QED BY <1>1, <1>8, <1>9, <1>10

LEMMA ParseSucceedsKeeps == ParseInv /\ ParseSucceeds => ParseInv'
PROOF
<1> SUFFICES ASSUME ParseInv, ParseSucceeds PROVE ParseInv'
  OBVIOUS
<1>1. /\ parsing = "after" /\ parsing' = "parsed" /\ text' = text /\ offset' = offset
      /\ depth' = depth /\ frames' = frames /\ blocks' = blocks
  BY DEF ParseSucceeds
<1>2. ParseTypes'
  BY <1>1, TypesNext DEF ParseInv, ParseTypes
<1>3. DepthInv'
  BY <1>1 DEF ParseInv, DepthInv
<1>4. PlaceInv'
  BY <1>1, PlaceNext DEF ParseInv, PlaceInv
<1> QED BY <1>1, <1>2, <1>3, <1>4 DEF ParseInv

LEMMA FailKeeps == ParseInv /\ Fail => ParseInv'
PROOF
<1> SUFFICES ASSUME ParseInv, Fail PROVE ParseInv'
  OBVIOUS
<1>1. /\ parsing = "fail" /\ frames # <<>> /\ frames' = Front(frames)
      /\ blocks' = blocks - Top.blocks
      /\ text' = text /\ offset' = offset /\ depth' = depth /\ parsing' = parsing
  BY DEF Fail
<1>2. ParseTypes /\ frames \in Seq(Frame) /\ blocks \in Int /\ HeldBy(frames, blocks)
      /\ depth <= NestingLimit
  BY DEF ParseInv, ParseTypes, DepthInv
<1>3. frames' \in Seq(Frame) /\ frames[Len(frames)] \in Frame
  BY <1>1, <1>2, FrontIs
<1>4. Top.blocks \in Nat
  BY <1>3 DEF Top, Frame
<1>5. HeldBy(frames', blocks')
  BY <1>1, <1>2, FrontHolds DEF Top
<1>6. ParseTypes'
  <2>1. blocks' \in Int
    BY <1>1, <1>2, <1>4
  <2>2. offset' \in Nat /\ offset' >= 1 /\ depth' \in Nat
    BY <1>1, <1>2 DEF ParseTypes
  <2> QED BY <1>1, <1>2, <1>3, <2>1, <2>2, TypesNext
<1>7. DepthInv'
  BY <1>1, <1>2 DEF DepthInv
<1>8. PlaceInv'
  BY <1>1, PlaceNext
<1> QED BY <1>5, <1>6, <1>7, <1>8 DEF ParseInv

LEMMA StandingKeeps == ParseInv /\ UNCHANGED parseVars => ParseInv'
PROOF
<1> SUFFICES ASSUME ParseInv, UNCHANGED parseVars PROVE ParseInv'
  OBVIOUS
<1>1. /\ text' = text /\ offset' = offset /\ depth' = depth /\ frames' = frames
      /\ parsing' = parsing /\ blocks' = blocks
  BY DEF parseVars
<1>2. ParseTypes'
  BY <1>1, TypesNext DEF ParseInv, ParseTypes
<1>3. DepthInv'
  BY <1>1 DEF ParseInv, DepthInv
<1>4. PlaceInv'
  BY <1>1, PlaceNext DEF ParseInv, PlaceInv
<1> QED BY <1>1, <1>2, <1>3, <1>4 DEF ParseInv

LEMMA ParsingStarts == InitParse => ParseInv
PROOF
<1> SUFFICES ASSUME InitParse PROVE ParseInv
  OBVIOUS
<1>1. PICK t \in Texts : text = Append(t, NUL)
  BY DEF InitParse
<1>2. /\ offset = 1 /\ depth = 0 /\ frames = <<>> /\ parsing = "begin" /\ blocks = 0
  BY DEF InitParse
<1> DEFINE S == Lexeme \cup {NUL}
<1>3. t \in Seq(S) /\ NUL \in S
  <2>1. t \in Seq(Lexeme)
    BY <1>1, ParserAssumption
  <2>2. Lexeme \subseteq S /\ NUL \in S
    OBVIOUS
  <2> HIDE DEF S
  <2> QED BY <2>1, <2>2, SeqMonotonic
<1>4. text \in Seq(S) /\ text # <<>> /\ text[Len(text)] = NUL
  <2> HIDE DEF S
  <2> QED BY <1>1, <1>3, AppendProperties
<1>5. ParseTypes
  <2>1. <<>> \in Seq(Frame)
    OBVIOUS
  <2> QED BY <1>2, <1>4, <2>1 DEF ParseTypes, length
<1>6. DepthInv
  BY <1>2, ParserAssumption DEF DepthInv
<1>7. PlaceInv
  BY <1>2 DEF PlaceInv
<1> QED BY <1>2, <1>5, <1>6, <1>7, NoneIsHeld DEF ParseInv

LEMMA ParseInvIsInductive == ParseInv /\ [NextParse]_parseVars => ParseInv'
BY RunsOutOfMemoryKeeps, BeginParseKeeps, ParseLiteralKeeps, ParseStringKeeps, OpenListKeeps,
   NestsTooDeepKeeps, NoValueKeeps, NextElementKeeps, ParseNameKeeps, NoNameKeeps,
   AfterElementKeeps, ParseSucceedsKeeps, FailKeeps, StandingKeeps DEF NextParse

LEMMA ParseInvHolds == ParserSpec => []ParseInv
BY ParsingStarts, ParseInvIsInductive, PTL DEF ParserSpec

-----------------------------------------------------------------------------
(* What a trimmed text holds.                                               *)

LEMMA CountIsSpots ==
  ASSUME NEW S, NEW s \in Seq(S), NEW a \in 1..(Len(s) + 1), NEW m \in (a - 1)..Len(s), NEW L
  PROVE  Count(SubSeq(s, a, m), L) = Cardinality(Spots(s, a, m, L))
PROOF
<1> DEFINE t == SubSeq(s, a, m)
           n == m - a + 1
<1>1. Len(s) \in Nat
  BY LenProperties
<1>2. a \in Int /\ m \in Int /\ n \in Nat /\ a..m \subseteq 1..Len(s)
      /\ (IF a <= m THEN m - a + 1 ELSE 0) = n
  BY <1>1
<1>3. \A i \in a..m : s[i] \in S
  BY <1>2, ElementOfSeq
<1>4. t \in Seq(S) /\ Len(t) = n /\ \A i \in 1..n : t[i] = s[a + i - 1]
  <2> HIDE DEF n
  <2>1. /\ t \in Seq(S) /\ Len(t) = IF a <= m THEN m - a + 1 ELSE 0
        /\ \A i \in 1..(m - a + 1) : t[i] = s[a + i - 1]
    BY <1>2, <1>3, SubSeqProperties
  <2> QED BY <1>2, <2>1 DEF n
<1>5. DOMAIN t = 1..n
  BY <1>4, LenProperties
<1> DEFINE A == {i \in 1..n : t[i] \in L}
           B == Spots(s, a, m, L)
           f == [i \in A |-> a + i - 1]
<1> HIDE DEF t
<1>6. f \in Bijection(A, B)
  <2>1. ASSUME NEW i \in A PROVE f[i] \in B /\ f[i] = a + i - 1 /\ i \in Int
    <3>1. i \in 1..n /\ t[i] \in L
      OBVIOUS
    <3>2. a + i - 1 \in a..m /\ i \in Int
      BY <1>2, <3>1
    <3>3. s[a + i - 1] \in L
      BY <1>4, <3>1
    <3> QED BY <3>2, <3>3 DEF Spots
  <2>2. \A i, j \in A : f[i] = f[j] => i = j
    <3> SUFFICES ASSUME NEW i \in A, NEW j \in A, f[i] = f[j] PROVE i = j
      OBVIOUS
    <3>1. f[i] = a + i - 1 /\ i \in Int /\ f[j] = a + j - 1 /\ j \in Int
      BY <2>1
    <3>2. a + i - 1 = a + j - 1
      BY <3>1
    <3> HIDE DEF A
    <3> QED BY <1>2, <3>1, <3>2
  <2>3. ASSUME NEW k \in B PROVE \E i \in A : f[i] = k
    <3>1. k \in a..m /\ s[k] \in L
      BY DEF Spots
    <3>2. k - a + 1 \in 1..n /\ a + (k - a + 1) - 1 = k
      BY <1>2, <3>1
    <3>3. t[k - a + 1] = s[k]
      BY <1>4, <3>2
    <3>4. k - a + 1 \in A
      BY <3>1, <3>2, <3>3
    <3> QED BY <3>2, <3>4
  <2>4. f \in [A -> B]
    BY <2>1
  <2> HIDE DEF A, B, f
  <2> QED BY <2>2, <2>3, <2>4 DEF Bijection, Injection, Surjection, IsInjective
<1>7. IsFiniteSet(A)
  <2>1. IsFiniteSet(1..n)
    BY <1>2, FS_Interval
  <2> QED BY <2>1, FS_Subset
<1>8. Cardinality(B) = Cardinality(A)
  <2>1. ExistsBijection(A, B)
    BY <1>6 DEF ExistsBijection
  <2> HIDE DEF A, B
  <2> QED BY <1>7, <2>1, FS_Bijection
<1> QED BY <1>5, <1>8 DEF Count, t

LEMMA SolidEnds ==
  ASSUME NEW n \in Nat, NEW T, T \subseteq 1..n, T # {}
  PROVE  (\E i \in T : \A j \in T : i <= j) /\ (\E i \in T : \A j \in T : i >= j)
PROOF
<1>1. T \subseteq Nat
  OBVIOUS
<1>2. \E i \in T : \A j \in T : i <= j
  BY <1>1, LeastNumber
<1> DEFINE U == {k \in 0..n : n - k \in T}
<1>3. U \subseteq Nat /\ U # {}
  <2>1. PICK i \in T : TRUE
    OBVIOUS
  <2>2. i \in 1..n /\ n - i \in 0..n /\ n - (n - i) = i
    OBVIOUS
  <2>3. n - i \in U
    BY <2>2
  <2>4. \A k \in 0..n : k \in Nat
    OBVIOUS
  <2> QED BY <2>3, <2>4
<1>4. PICK k \in U : \A j \in U : k <= j
  <2> HIDE DEF U
  <2> QED BY <1>3, LeastNumber
<1>5. ASSUME NEW j \in T PROVE n - k >= j
  <2>1. j \in 1..n /\ n - j \in 0..n /\ n - (n - j) = j
    OBVIOUS
  <2>2. n - j \in U /\ k \in 0..n
    BY <2>1
  <2>3. k <= n - j
    BY <1>4, <2>2
  <2> QED BY <2>1, <2>2, <2>3
<1>6. n - k \in T
  OBVIOUS
<1> QED BY <1>2, <1>5, <1>6

\* Trimming takes away blanks only, so that it leaves as many of any other lexeme.
LEMMA TrimmedHolds ==
  ASSUME NEW S, NEW s \in Seq(S), NEW a \in 1..(Len(s) + 1), NEW m \in (a - 1)..Len(s),
         NEW L, Space \notin L
  PROVE  Count(Trimmed(SubSeq(s, a, m)), L) = Cardinality(Spots(s, a, m, L))
PROOF
<1> DEFINE t == SubSeq(s, a, m)
           n == m - a + 1
           solid == {i \in DOMAIN t : t[i] # Space}
           least == CHOOSE i \in solid : \A j \in solid : i <= j
           most == CHOOSE i \in solid : \A j \in solid : i >= j
<1>1. Len(s) \in Nat
  BY LenProperties
<1>2. a \in Int /\ m \in Int /\ n \in Nat /\ (\A i \in a..m : i \in 1..Len(s))
      /\ (IF a <= m THEN m - a + 1 ELSE 0) = n
  BY <1>1
<1>3. \A i \in a..m : s[i] \in S
  BY <1>2, ElementOfSeq
<1>4. t \in Seq(S) /\ Len(t) = n /\ (\A i \in 1..n : t[i] = s[a + i - 1]) /\ DOMAIN t = 1..n
  <2> HIDE DEF n
  <2>1. /\ t \in Seq(S) /\ Len(t) = IF a <= m THEN m - a + 1 ELSE 0
        /\ \A i \in 1..(m - a + 1) : t[i] = s[a + i - 1]
    BY <1>2, <1>3, SubSeqProperties
  <2>2. DOMAIN t = 1..Len(t)
    BY <2>1, LenProperties
  <2> QED BY <1>2, <2>1, <2>2 DEF n
<1>5. Trimmed(t) = IF Blank(t) THEN <<>> ELSE SubSeq(t, least, most)
  BY DEF Trimmed
<1>6. ASSUME NEW i \in a..m, s[i] \in L
      PROVE  i - a + 1 \in 1..n /\ t[i - a + 1] = s[i] /\ i - a + 1 \in solid
  <2>1. i - a + 1 \in 1..n /\ a + (i - a + 1) - 1 = i
    BY <1>2
  <2>2. t[i - a + 1] = s[i]
    BY <1>4, <2>1
  <2>3. s[i] # Space
    BY <1>6
  <2> QED BY <1>4, <2>1, <2>2, <2>3
<1> HIDE DEF t, n
<1>7. CASE Blank(t)
  <2>1. solid = {}
    BY <1>7 DEF Blank
  <2>2. Spots(s, a, m, L) = {}
    BY <1>6, <2>1 DEF Spots
  <2>3. Count(<<>>, L) = Cardinality({})
    <3>1. DOMAIN <<>> = {}
      OBVIOUS
    <3> QED BY <3>1 DEF Count
  <2> QED BY <1>5, <1>7, <2>2, <2>3 DEF t
<1>8. CASE ~Blank(t)
  <2>1. solid \subseteq 1..n /\ solid # {}
    BY <1>4, <1>8 DEF Blank
  <2> HIDE DEF solid
  <2>2. (\E i \in solid : \A j \in solid : i <= j) /\ (\E i \in solid : \A j \in solid : i >= j)
    BY <1>2, <2>1, SolidEnds
  <2>3. /\ least \in solid /\ most \in solid
        /\ \A j \in solid : least <= j /\ j <= most
    <3>1. least \in solid /\ \A j \in solid : least <= j
      BY <2>2
    <3>2. most \in solid /\ \A j \in solid : most >= j
      BY <2>2
    <3>3. \A j \in solid : j \in Int
      BY <2>1
    <3> HIDE DEF least, most
    <3> QED BY <3>1, <3>2, <3>3
  <2> HIDE DEF least, most
  <2>4. least \in 1..n /\ most \in 1..n /\ least <= most
    BY <2>1, <2>3
  <2> DEFINE b == a + least - 1
             e == a + most - 1
  <2>5. /\ b \in a..m /\ e \in a..m /\ b <= e /\ a \in 1..Len(s) /\ m \in 1..Len(s)
        /\ b \in 1..(Len(s) + 1) /\ e \in (b - 1)..Len(s) /\ b \in Int /\ e \in Int
    <3>1. n = m - a + 1
      BY DEF n
    <3> QED BY <1>1, <1>2, <2>4, <3>1
  <2>6. SubSeq(t, least, most) = SubSeq(s, b, e)
    <3>1. least \in 1..(m - a + 1) /\ most \in 1..(m - a + 1)
      BY <2>4 DEF n
    <3> HIDE DEF n
    <3>2. a \in 1..Len(s) /\ m \in 1..Len(s)
      BY <2>5
    <3> QED BY <1>4, <3>1, <3>2, SubSeqOfSubSeq DEF t
  <2> HIDE DEF b, e
  <2>7. Count(SubSeq(s, b, e), L) = Cardinality(Spots(s, b, e, L))
    <3>1. b \in 1..(Len(s) + 1) /\ e \in (b - 1)..Len(s)
      BY <2>5
    <3> QED BY <3>1, CountIsSpots
  <2>8. Spots(s, b, e, L) = Spots(s, a, m, L)
    <3>1. ASSUME NEW i \in a..m, s[i] \in L PROVE i \in b..e
      <4>1. i - a + 1 \in solid
        BY <1>6, <3>1
      <4>2. least <= i - a + 1 /\ i - a + 1 <= most
        BY <2>3, <4>1
      <4>3. least \in Int /\ most \in Int
        BY <2>4
      <4> QED BY <1>2, <4>2, <4>3 DEF b, e
    <3>2. ASSUME NEW i \in b..e PROVE i \in a..m
      <4>1. b \in a..m /\ e \in a..m
        BY <2>5
      <4> QED BY <1>2, <4>1
    <3> QED BY <3>1, <3>2 DEF Spots
  <2> QED BY <1>5, <1>8, <2>6, <2>7, <2>8 DEF t
<1> QED BY <1>7, <1>8

-----------------------------------------------------------------------------
(* What a parse may rely on.                                                *)

\* For any texts, any limit of nesting, and with or without allocations that fail: the
\* depth of a parse is the number of its open lists and within the limit.
THEOREM ParserTypeCorrect == ParserSpec => []ParserTypeOK
PROOF
<1>1. ParseInv => ParserTypeOK
  BY DEF ParseInv, DepthInv, ParserTypeOK
<1> QED BY <1>1, ParseInvHolds, PTL

LEMMA InsideTheText == ParseInv => ReadsInsideTheText
PROOF
<1> SUFFICES ASSUME ParseInv PROVE ReadsInsideTheText
  OBVIOUS
<1>1. ASSUME parsing \in {"value", "name", "element"} PROVE CanAccess(offset)
  <2>1. offset \in AfterBom..length /\ AfterBom \in {1, 2} /\ length \in Nat
    BY <1>1, OnACharacter
  <2> QED BY <2>1 DEF CanAccess
<1>2. ErrorPosition \in DOMAIN text
  <2>1. ParseTypes
    BY DEF ParseInv
  <2>2. length \in Nat /\ length >= 1 /\ offset \in Nat /\ offset >= 1
    BY <2>1, TextIs DEF ParseTypes
  <2>3. ErrorPosition \in 1..length
    BY <2>2 DEF ErrorPosition, CanAccess
  <2>4. DOMAIN text = 1..length
    BY <2>1, LenProperties DEF ParseTypes, length
  <2> QED BY <2>3, <2>4
<1> QED BY <1>1, <1>2 DEF ReadsInsideTheText

LEMMA BlocksAreCounted == ParseInv => NoBlockIsLost
PROOF
<1> SUFFICES ASSUME ParseInv PROVE NoBlockIsLost
  OBVIOUS
<1>1. ASSUME Rejected PROVE blocks = 0
  BY <1>1, NoneHolds DEF Rejected, ParseInv
<1>2. ASSUME parsing = "parsed"
      PROVE  blocks = Count(Before(offset), Owners) + Count(Before(offset), {"string"})
                      - Count(Before(offset), {":"})
  <2>1. blocks = Weighs(text, AfterBom, offset - 1)
    BY <1>2 DEF ParseInv, PlaceInv, Tally
  <2>2. offset \in AfterBom..length /\ AfterBom \in {1, 2} /\ length \in Nat
    BY <1>2, OnACharacter
  <2>3. AfterBom \in 1..(length + 1) /\ offset - 1 \in (AfterBom - 1)..length
    BY <2>2
  <2>4. text \in Seq(Lexeme \cup {NUL})
    BY DEF ParseInv, ParseTypes
  <2>5. ASSUME NEW L, Space \notin L
        PROVE  Count(Before(offset), L) = Cardinality(Spots(text, AfterBom, offset - 1, L))
    <3> DEFINE a == AfterBom
               m == offset - 1
    <3>1. a \in 1..(Len(text) + 1) /\ m \in (a - 1)..Len(text)
      BY <2>3 DEF length
    <3>2. Before(offset) = Trimmed(SubSeq(text, a, m))
      BY DEF Before
    <3> HIDE DEF a, m
    <3>3. Count(Trimmed(SubSeq(text, a, m)), L) = Cardinality(Spots(text, a, m, L))
      BY <2>4, <2>5, <3>1, TrimmedHolds
    <3> QED BY <3>2, <3>3 DEF a, m
  <2>6. Space \notin Owners /\ Space \notin {"string"} /\ Space \notin {":"}
    BY Zenon DEF Owners, Literals, Space
  <2> QED BY <2>1, <2>5, <2>6 DEF Weighs
<1> QED BY <1>1, <1>2 DEF NoBlockIsLost, Owners

\* For any texts, any limit of nesting, and with or without allocations that fail: the
\* parser looks at characters of its text only, a text that is rejected leaves no block
\* behind, and one that is accepted an item for each value and a string for each string
\* and name.
THEOREM ParsingKeepsMemory == ParserSpec => []ParserKeepsItsMemory
PROOF
<1>1. ParseInv => ParserKeepsItsMemory
  BY InsideTheText, BlocksAreCounted DEF ParserKeepsItsMemory
<1> QED BY <1>1, ParseInvHolds, PTL

=============================================================================
