----------------------------- MODULE CJsonStrings -----------------------------
(***************************************************************************)
(* Strings in cJSON: print_string_ptr escapes one, parse_string reads one  *)
(* back, with utf16_literal_to_utf8 for \u.  Both measure the output in a  *)
(* pass of its own and fill it in a second one, a character at a step.     *)
(* Characters are the bytes they are.                                      *)
(***************************************************************************)
EXTENDS Integers, Sequences

CONSTANTS
  Strings,    \* strings that are printed and read back
  Literals16  \* texts between quotes that are read only

\* Characters are bytes; the null character ends a text and is not one of it.
Byte == 1..255
ASSUME BytesAssumption == Strings \subseteq Seq(Byte) /\ Literals16 \subseteq Seq(Byte)

VARIABLES
  string,     \* the string that was printed, <<>> when a text is read only
  input, at,  \* what is read, and where: input_pointer
  output,     \* what was written: output_pointer is behind it
  room,       \* bytes the first pass has asked for
  doing       \* print, parse, done, failed

stringVars == <<string, input, at, output, room, doing>>

Quote == 34
Backslash == 92
Short == [b |-> 8, f |-> 12, n |-> 10, r |-> 13, t |-> 9]
LetterOf == [b |-> 98, f |-> 102, n |-> 110, r |-> 114, t |-> 116]
u == 117

HasLetter(c) == \E k \in DOMAIN Short : Short[k] = c
Letter(c) == LetterOf[CHOOSE k \in DOMAIN Short : Short[k] = c]
FromLetter(l) == Short[CHOOSE k \in DOMAIN LetterOf : LetterOf[k] = l]
IsLetter(l) == \E k \in DOMAIN LetterOf : LetterOf[k] = l

HexDigit(n) == IF n < 10 THEN 48 + n ELSE 87 + n
Hex4(n) == <<HexDigit(n \div 4096), HexDigit((n \div 256) % 16),
             HexDigit((n \div 16) % 16), HexDigit(n % 16)>>

-----------------------------------------------------------------------------
(* print_string_ptr.                                                        *)

\* Slip: a control character counts as the four digits.
ExtraShort(c) ==
  IF c \in {Quote, Backslash} \/ HasLetter(c) THEN 1 ELSE IF c < 32 THEN 4 ELSE 0

\* Characters a character needs on top of its own.
Extra(c) ==
  IF c \in {Quote, Backslash} \/ HasLetter(c) THEN 1 ELSE IF c < 32 THEN 5 ELSE 0

\* What the first n characters of a string need.
Need(s) ==
  LET need[n \in 0..Len(s)] == IF n = 0 THEN 0 ELSE need[n - 1] + 1 + Extra(s[n])
  IN need
Measured(s) == Need(s)[Len(s)]

Escaped(c) ==
  IF c > 31 /\ c \notin {Quote, Backslash} THEN <<c>>
  ELSE IF c \in {Quote, Backslash} THEN <<Backslash, c>>
  ELSE IF HasLetter(c) THEN <<Backslash, Letter(c)>>
  ELSE <<Backslash, u>> \o Hex4(c)

\* The quotes and the null character are added to what the pass has counted.
BeginPrint(s) ==
  /\ string = s /\ input = s /\ at = 1 /\ output = <<Quote>>
  /\ room = Measured(s) + 3 /\ doing = "print"

PrintCharacter ==
  /\ doing = "print" /\ at <= Len(input)
  /\ output' = output \o Escaped(input[at])
  /\ at' = at + 1
  /\ UNCHANGED <<string, input, room, doing>>

-----------------------------------------------------------------------------
(* parse_string, from the character behind the opening quote.               *)

\* From each position, the closing quote, which is the first that no backslash stands
\* before, and the number of backslashes the pass steps over.
Scan(s) ==
  LET from[i \in 1..(Len(s) + 2)] ==
        IF i > Len(s) THEN [end |-> 0, skipped |-> 0]
        ELSE IF s[i] = Quote THEN [end |-> i, skipped |-> 0]
        ELSE IF s[i] = Backslash
          THEN [end |-> from[i + 2].end, skipped |-> from[i + 2].skipped + 1]
        ELSE from[i + 1]
  IN from

EndOf(s) == Scan(s)[1].end
End == EndOf(input)

\* allocation_length counts the opening quote.
Room(s) == EndOf(s) - Scan(s)[1].skipped

BeginParseOf(s) ==
  /\ input' = s /\ at' = 1 /\ output' = <<>>
  /\ IF EndOf(s) = 0
     THEN doing' = "failed" /\ room' = 0
     ELSE doing' = "parse" /\ room' = Room(s) + 1

PrintEnds ==
  /\ doing = "print" /\ at > Len(input)
  /\ BeginParseOf(Append(Tail(output), Quote))
  /\ UNCHANGED string

IsHex(c) == c \in 48..57 \/ c \in 65..70 \/ c \in 97..102
HexValue(c) == IF c <= 57 THEN c - 48 ELSE IF c <= 70 THEN c - 55 ELSE c - 87

\* parse_hex4: a digit that is none makes the whole code 0.
Code(i) ==
  IF \A k \in 0..3 : IsHex(input[i + k])
  THEN HexValue(input[i]) * 4096 + HexValue(input[i + 1]) * 256
       + HexValue(input[i + 2]) * 16 + HexValue(input[i + 3])
  ELSE 0

Continuation(c) == 128 + (c % 64)

Utf8(c) ==
  IF c < 128 THEN <<c>>
  ELSE IF c < 2048 THEN <<192 + c \div 64, Continuation(c)>>
  ELSE IF c < 65536 THEN <<224 + c \div 4096, Continuation(c \div 64), Continuation(c)>>
  ELSE <<240 + c \div 262144, Continuation(c \div 4096), Continuation(c \div 64),
         Continuation(c)>>

High == 55296..56319
Low == 56320..57343

\* utf16_literal_to_utf8: a literal of six characters, or two that make one
\* code point; none of them reaches past the closing quote.
IsSingle == End - at >= 6 /\ Code(at + 2) \notin High \cup Low
IsPair ==
  /\ End - at >= 12
  /\ Code(at + 2) \in High
  /\ input[at + 6] = Backslash /\ input[at + 7] = u
  /\ Code(at + 8) \in Low
PairCode == 65536 + (Code(at + 2) - 55296) * 1024 + (Code(at + 8) - 56320)

ReadCharacter ==
  /\ doing = "parse" /\ at < End
  /\ IF input[at] # Backslash
     THEN output' = Append(output, input[at]) /\ at' = at + 1
     ELSE \/ /\ IsLetter(input[at + 1])
             /\ output' = Append(output, FromLetter(input[at + 1])) /\ at' = at + 2
          \/ /\ input[at + 1] \in {Quote, Backslash, 47}
             /\ output' = Append(output, input[at + 1]) /\ at' = at + 2
          \/ /\ input[at + 1] = u /\ IsSingle
             /\ output' = output \o Utf8(Code(at + 2)) /\ at' = at + 6
          \/ /\ input[at + 1] = u /\ End - at >= 6 /\ IsPair
             /\ output' = output \o Utf8(PairCode) /\ at' = at + 12
  /\ UNCHANGED <<string, input, room, doing>>

IsUnknown ==
  \/ input[at + 1] = u /\ ~IsSingle /\ ~(End - at >= 6 /\ IsPair)
  \/ ~IsLetter(input[at + 1]) /\ input[at + 1] \notin {Quote, Backslash, 47, u}

ReadFails ==
  /\ doing = "parse" /\ at < End /\ input[at] = Backslash /\ IsUnknown
  /\ doing' = "failed"
  /\ UNCHANGED <<string, input, at, output, room>>

ReadEnds ==
  /\ doing = "parse" /\ at >= End
  /\ doing' = "done"
  /\ UNCHANGED <<string, input, at, output, room>>

InitStrings ==
  \/ \E s \in Strings : BeginPrint(s)
  \/ \E t \in Literals16 :
       /\ string = <<>> /\ input = t /\ at = 1 /\ output = <<>>
       /\ IF EndOf(t) = 0 THEN doing = "failed" /\ room = 0
          ELSE doing = "parse" /\ room = Room(t) + 1

NextString == PrintCharacter \/ PrintEnds \/ ReadCharacter \/ ReadFails \/ ReadEnds
StringsSpec == InitStrings /\ [][NextString]_stringVars

-----------------------------------------------------------------------------
(* What an escaped text means, from its end.                                *)

Unit(s, i) ==
  IF i + 3 > Len(s) THEN 0
  ELSE 16 * (16 * (16 * HexValue(s[i]) + HexValue(s[i + 1])) + HexValue(s[i + 2]))
       + HexValue(s[i + 3])
IsLiteral(s, i) == s[i] = Backslash /\ s[i + 1] = u
IsTwo(s, i) == Unit(s, i + 2) \in High
CodePoint(s, i) ==
  IF IsTwo(s, i) THEN 65536 + 1024 * (Unit(s, i + 2) % 1024) + (Unit(s, i + 8) % 1024)
  ELSE Unit(s, i + 2)

\* The bytes of a code point: a mark and its upper bits, then six bits to a byte.
Sixes == <<1, 64, 4096, 262144>>
Marks == <<0, 192, 224, 240>>
ByteCount(c) == IF c < 128 THEN 1 ELSE IF c < 2048 THEN 2 ELSE IF c < 65536 THEN 3 ELSE 4
Spread(c) ==
  [i \in 1..ByteCount(c) |->
    IF i = 1 THEN Marks[ByteCount(c)] + c \div Sixes[ByteCount(c)]
    ELSE 128 + ((c \div Sixes[ByteCount(c) + 1 - i]) % 64)]

\* What the text stands for at a position, and how many of its characters that takes.
Stands(s, i) ==
  IF s[i] # Backslash THEN <<s[i]>>
  ELSE IF IsLiteral(s, i) THEN Spread(CodePoint(s, i))
  ELSE IF IsLetter(s[i + 1]) THEN <<FromLetter(s[i + 1])>> ELSE <<s[i + 1]>>
Width(s, i) ==
  IF s[i] # Backslash THEN 1 ELSE IF ~IsLiteral(s, i) THEN 2 ELSE IF IsTwo(s, i) THEN 12 ELSE 6

\* From each position.
Meaning(s) ==
  LET from[i \in 1..(Len(s) + 12)] ==
        IF i > Len(s) THEN <<>> ELSE Stands(s, i) \o from[i + Width(s, i)]
  IN from

WellFormed(s) == \A i \in DOMAIN s : s[i] = u /\ i > 1 /\ s[i - 1] = Backslash =>
                   i + 4 <= Len(s) /\ \A k \in 1..4 : IsHex(s[i + k])

-----------------------------------------------------------------------------
\* The second pass of neither function writes past what its first pass has counted:
\* an escape that grows on its way out and a literal that shrinks on its way in are
\* measured for what they become.
FitsTheRoom == doing # "failed" => Len(output) + (IF doing = "print" THEN 2 ELSE 1) <= room

\* A string that was printed is read back as it was.
ReadsWhatItPrinted ==
  /\ string # <<>> => doing # "failed"
  /\ doing = "done" /\ string # <<>> => output = string

\* The literals of a text become the UTF-8 of their code points; a surrogate without
\* its partner and an unknown escape are refused.  parse_hex4 cannot tell a code that
\* is no number from 0, so texts with one are left out.
DecodesUtf16 ==
  doing = "done" /\ WellFormed(input) => output = Meaning(SubSeq(input, 1, End - 1))[1]

\* Both passes agree, and what is written is read back.
StringsSurvive == FitsTheRoom /\ ReadsWhatItPrinted /\ DecodesUtf16
=============================================================================
