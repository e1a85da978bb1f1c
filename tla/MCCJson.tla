------------------------------- MODULE MCCJson -------------------------------
(***************************************************************************)
(* Instances of cJSON's parser, its strings, its trees and its printer.  A *)
(* behaviour is one of the part that it chooses; the others stand still.   *)
(***************************************************************************)
EXTENDS CJsonGrammar, CJsonStrings, CJsonList, CJsonPrinter

VARIABLE part

jsonVars == <<part, parseVars, stringVars, listVars, printVars>>

-----------------------------------------------------------------------------
Lexemes == {"[", "]", "{", "}", ",", ":", "number", "string", " ", "junk"}

\* Longer texts, and what is left of them when one lexeme is replaced or left out.
Long == {<<"{", "string", ":", "[", "number", ",", "null", "]", ",", "string", ":", "{", "}", "}">>,
         <<"[", "{", "string", ":", "string", "}", ",", "[", "]", "]">>,
         <<"[", "[", "[", "true", "]", "]", "]">>,
         <<"bom", " ", "{", " ", "string", " ", ":", " ", "false", " ", "}", " ">>}
Changed(t) == {[t EXCEPT ![i] = c] : i \in DOMAIN t, c \in Lexemes}
              \cup {RemoveAt(t, i) : i \in DOMAIN t}
              \cup {SubSeq(t, 1, i) : i \in DOMAIN t}
ManyTexts == UNION {[1..n -> Lexemes] : n \in 0..4} \cup UNION {Changed(t) : t \in Long}
             \cup {<<"bom">>, <<"bom", "number">>}

-----------------------------------------------------------------------------
\* Every kind of character, and the code points around each bound of UTF-8 and UTF-16.
Bytes == {65, 34, 92, 47, 10, 7, 31, 117, 195}
ShortStrings == UNION {[1..n -> Bytes] : n \in 1..4}
Literal16(n) == <<Backslash, u>> \o Hex4(n)
CodeUnits == {0, 65, 127, 128, 2047, 2048, 55295, 55296, 56319, 56320, 57343, 57344, 65535}
Pieces16 == {Literal16(n) : n \in CodeUnits}
            \cup {<<65>>, <<Backslash, 110>>, <<Backslash, 65>>, <<Backslash, u, 49>>,
                  <<Backslash, u, 49, 50, 51, 71>>,
                  <<Backslash, u, 49, 50, 51, Backslash>>, <<Quote>>, <<Backslash>>}
TwoPieces == {a \o b \o c : a \in Pieces16, b \in Pieces16, c \in {<<Quote>>, <<>>, <<65, Quote>>}}

-----------------------------------------------------------------------------
FoldNames == [k \in {"a", "A", "b", "c"} |-> IF k = "A" THEN "a" ELSE k]

\* Two objects of up to three members with different names; those of one are in the
\* order of the alphabet, and those of the other in every order.
Member(n, k) == [name |-> n, kind |-> k]
SomeMembers == {Member("a", "number"), Member("A", "number"), Member("b", "number"),
                Member("c", "number"), Member("c", "array")}
MemberLists == {s \in UNION {[1..n -> SomeMembers] : n \in 0..3} :
                  \A i, j \in DOMAIN s : FoldNames[s[i].name] = FoldNames[s[j].name] => i = j}
Alphabet == [k \in {"a", "A", "b", "c"} |-> CASE k = "b" -> 2 [] k = "c" -> 3 [] OTHER -> 1]
InAlphabet(s) == \A i, j \in DOMAIN s : i < j => Alphabet[s[i].name] < Alphabet[s[j].name]
TwoObjects == {<<>>} \cup {<<s, t>> : s \in {x \in MemberLists : InAlphabet(x)}, t \in MemberLists}

-----------------------------------------------------------------------------
Plain(t) == [kind |-> "plain", text |-> t]
StringItem(t) == [kind |-> "string", text |-> t]
Arr(s) == [kind |-> "array", items |-> s]
Obj(n, s) == [kind |-> "object", names |-> n, items |-> s]
One == Plain(<<"1">>)
Null == Plain(<<"n", "u", "l", "l">>)
SmallItems == {One, Null, StringItem(<<>>), StringItem(<<"a", "b">>), Arr(<<>>), Obj(<<>>, <<>>)}
MiddleItems ==
  SmallItems
  \cup {Arr(<<a>>) : a \in SmallItems}
  \cup {Obj(<<<<"k">>>>, <<a>>) : a \in SmallItems}
  \cup {Arr(<<a, b>>) : a, b \in SmallItems}
  \cup {Obj(<<<<"k">>, <<>>>>, <<a, b>>) : a, b \in SmallItems}
ManyItems ==
  MiddleItems
  \cup {Obj(<<<<"k">>>>, <<a>>) : a \in MiddleItems}
  \cup {Arr(<<a, One>>) : a \in MiddleItems}

-----------------------------------------------------------------------------
\* A part that is not looked at.
ParserRests == text = <<NUL>> /\ offset = 1 /\ depth = 0 /\ frames = <<>> /\ parsing = "begin"
               /\ blocks = 0 /\ outOfMemory = FALSE
StringsRest == BeginPrint(<<65>>)
ListsRest == heap = [n \in Node |-> Free] /\ loose = {} /\ kids = [n \in Node |-> <<>>]
             /\ keyBlocks = 0 /\ calls = 0
PrinterRests == item = One /\ format = FALSE /\ call = "print" /\ realloc = TRUE /\ pieces = <<>>
                /\ buffer = <<>> /\ p_offset = 0 /\ overrun = FALSE /\ overread = {}
                /\ printed = "busy" /\ memory = 1

InitJson ==
  /\ part \in {"parser", "strings", "lists", "printer"}
  /\ IF part = "parser" THEN InitParse ELSE ParserRests
  /\ IF part = "strings" THEN InitStrings ELSE StringsRest
  /\ IF part = "lists" THEN InitList ELSE ListsRest
  /\ IF part = "printer" THEN InitPrint ELSE PrinterRests

StandStill(p, vars) == part = p /\ UNCHANGED <<part, vars>>

NextJson ==
  \/ StandStill("parser", <<stringVars, listVars, printVars>>) /\ NextParse
  \/ StandStill("strings", <<parseVars, listVars, printVars>>) /\ NextString
  \/ StandStill("lists", <<parseVars, stringVars, printVars>>) /\ ListNext
  \/ StandStill("printer", <<parseVars, stringVars, listVars>>) /\ PrintNext

JsonSpec == InitJson /\ [][NextJson]_jsonVars

\* The type invariant of every part of cJSON.
CJsonTypeOK ==
  ParserTypeOK /\ ListTypeOK /\ PrinterTypeOK
=============================================================================
