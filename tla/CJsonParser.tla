----------------------------- MODULE CJsonParser -----------------------------
(***************************************************************************)
(* cJSON_Parse: a recursive-descent parser over a text that ends with a    *)
(* null character.  The recursion of parse_value, parse_array and          *)
(* parse_object is a stack of frames; a frame owns the blocks that are     *)
(* reachable from the head of its list.  A character of the text is a      *)
(* lexeme here: a number, a literal or a string is one of them, what is    *)
(* inside a string is the matter of CJsonStrings.                          *)
(***************************************************************************)
EXTENDS Naturals, Sequences, FiniteSets, SequencesExt

CONSTANTS
  Texts,          \* texts that are parsed, without the null character
  NestingLimit,   \* CJSON_NESTING_LIMIT
  MallocMayFail   \* bound: an allocation of the parse may return NULL

NUL == "0"
Space == " "
Literals == {"number", "null", "true", "false"}

\* "bom" is the mark at the beginning of a UTF-8 file, "junk" a character JSON has no use for.
Lexeme == Literals \cup {"string", "[", "]", "{", "}", ",", ":", Space, "bom", "junk"}

ASSUME ParserAssumption ==
  Texts \subseteq Seq(Lexeme) /\ NestingLimit \in Nat /\ MallocMayFail \in BOOLEAN

VARIABLES
  text,       \* buffer.content
  offset,     \* buffer.offset, counted from 1
  depth,      \* buffer.depth
  frames,     \* parse_array and parse_object calls under way, below them the caller
  parsing,    \* what is done next
  blocks,     \* allocated and not freed
  outOfMemory

parseVars == <<text, offset, depth, frames, parsing, blocks, outOfMemory>>

\* What is skipped: characters up to 32, which the null character is one of.
Blanks == {Space, NUL}

length == Len(text)
CanAccess(o) == o <= length
Current == text[offset]

\* The first character from o on that is above 32.
PastBlanks(o) ==
  CHOOSE p \in o..(length + 1) :
    /\ \A i \in o..(p - 1) : text[i] \in Blanks
    /\ CanAccess(p) => text[p] \notin Blanks

\* buffer_skip_whitespace: the end of the text is stepped back from.
SkipWhitespace(o) ==
  IF CanAccess(o) /\ PastBlanks(o) = length + 1 THEN length
  ELSE IF CanAccess(o) THEN PastBlanks(o) ELSE o

\* skip_utf8_bom: only when something follows it.
AfterBom == IF text[1] = "bom" /\ length > 2 THEN 2 ELSE 1

Top == frames[Len(frames)]
Owning(n) == [frames EXCEPT ![Len(frames)].blocks = @ + n]

InitParse ==
  /\ text \in {Append(t, NUL) : t \in Texts}
  /\ offset = 1 /\ depth = 0 /\ frames = <<>> /\ parsing = "begin"
  /\ blocks = 0 /\ outOfMemory = FALSE

\* parse_string leaves the offset behind the first character when it fails.
BehindTheQuote == IF parsing \in {"value", "name"} THEN offset + 1 ELSE offset

\* An allocation that fails makes the call it is in fail.
RunsOutOfMemory ==
  /\ MallocMayFail /\ parsing \in {"begin", "element", "value", "name"}
  /\ parsing = "begin" \/ parsing = "element" \/ Current = "string"
  /\ ~outOfMemory /\ outOfMemory' = TRUE
  /\ parsing' = "fail" /\ offset' = BehindTheQuote
  /\ UNCHANGED <<text, depth, frames, blocks>>

\* cJSON_ParseWithLengthOpts: the root item.
BeginParse ==
  /\ parsing = "begin"
  /\ frames' = <<[kind |-> "root", blocks |-> 1]>>
  /\ blocks' = 1
  /\ offset' = SkipWhitespace(AfterBom)
  /\ parsing' = "value"
  /\ UNCHANGED <<text, depth, outOfMemory>>

ParseLiteral ==
  /\ parsing = "value" /\ Current \in Literals
  /\ offset' = offset + 1
  /\ parsing' = "after"
  /\ UNCHANGED <<text, depth, frames, blocks, outOfMemory>>

ParseString ==
  /\ parsing = "value" /\ Current = "string"
  /\ frames' = Owning(1) /\ blocks' = blocks + 1
  /\ offset' = offset + 1
  /\ parsing' = "after"
  /\ UNCHANGED <<text, depth, outOfMemory>>

Opens(kind) == IF kind = "array" THEN "[" ELSE "{"

\* Slip: the test of parse_array, copied to parse_object.
ClosesLikeAnArray(kind) == "]"

Closes(kind) == IF kind = "array" THEN "]" ELSE "}"

\* parse_array and parse_object up to their loop: an empty list is done at once, else
\* the offset steps back before the first element.
OpenList(kind) ==
  /\ parsing = "value" /\ Current = Opens(kind) /\ depth < NestingLimit
  /\ LET o == SkipWhitespace(offset + 1) IN
       IF text[o] = Closes(kind)
       THEN /\ offset' = o + 1 /\ parsing' = "after"
            /\ UNCHANGED <<depth, frames>>
       ELSE /\ offset' = o - 1 /\ parsing' = "element"
            /\ depth' = depth + 1
            /\ frames' = Append(frames, [kind |-> kind, blocks |-> 0])
  /\ UNCHANGED <<text, blocks, outOfMemory>>

NestsTooDeep ==
  /\ parsing = "value" /\ Current \in {"[", "{"} /\ depth >= NestingLimit
  /\ parsing' = "fail"
  /\ UNCHANGED <<text, offset, depth, frames, blocks, outOfMemory>>

NoValue ==
  /\ parsing = "value" /\ Current \notin Literals \cup {"string", "[", "{"}
  /\ parsing' = "fail"
  /\ UNCHANGED <<text, offset, depth, frames, blocks, outOfMemory>>

\* The body of the loop: a new item, linked to the list before its value is parsed.
NextElement ==
  /\ parsing = "element"
  /\ frames' = Owning(1) /\ blocks' = blocks + 1
  /\ offset' = SkipWhitespace(offset + 1)
  /\ parsing' = IF Top.kind = "object" THEN "name" ELSE "value"
  /\ UNCHANGED <<text, depth, outOfMemory>>

\* The name of a member, and the colon behind it.
ParseName ==
  /\ parsing = "name" /\ Current = "string"
  /\ frames' = Owning(1) /\ blocks' = blocks + 1
  /\ LET o == SkipWhitespace(offset + 1) IN
       IF text[o] = ":"
       THEN offset' = SkipWhitespace(o + 1) /\ parsing' = "value"
       ELSE offset' = o /\ parsing' = "fail"
  /\ UNCHANGED <<text, depth, outOfMemory>>

NoName ==
  /\ parsing = "name" /\ Current # "string"
  /\ parsing' = "fail" /\ offset' = BehindTheQuote
  /\ UNCHANGED <<text, depth, frames, blocks, outOfMemory>>

\* The list becomes the child of the item it was parsed for.
CloseList(o) ==
  /\ offset' = o + 1 /\ parsing' = "after"
  /\ depth' = depth - 1
  /\ frames' = [Front(frames) EXCEPT ![Len(frames) - 1].blocks = @ + Top.blocks]

AfterElement ==
  /\ parsing = "after" /\ Top.kind # "root"
  /\ LET o == SkipWhitespace(offset) IN
       CASE text[o] = "," -> offset' = o /\ parsing' = "element" /\ UNCHANGED <<depth, frames>>
         [] text[o] = Closes(Top.kind) -> CloseList(o)
         [] OTHER -> offset' = o /\ parsing' = "fail" /\ UNCHANGED <<depth, frames>>
  /\ UNCHANGED <<text, blocks, outOfMemory>>

\* cJSON_Parse does not require the text to end behind the value.
ParseSucceeds ==
  /\ parsing = "after" /\ Top.kind = "root"
  /\ parsing' = "parsed"
  /\ UNCHANGED <<text, offset, depth, frames, blocks, outOfMemory>>

\* Slip: a call that fails leaves its list to its caller, which does not know it.
FailLeaks ==
  /\ parsing = "fail" /\ frames # <<>>
  /\ frames' = Front(frames)
  /\ blocks' = IF Top.kind = "root" THEN blocks - Top.blocks ELSE blocks
  /\ UNCHANGED <<text, offset, depth, parsing, outOfMemory>>

\* Each call that fails deletes the list it has built so far, the outermost one the
\* root item.
Fail ==
  /\ parsing = "fail" /\ frames # <<>>
  /\ frames' = Front(frames)
  /\ blocks' = blocks - Top.blocks
  /\ UNCHANGED <<text, offset, depth, parsing, outOfMemory>>

\* What cJSON_GetErrorPtr points to.
Rejected == parsing = "fail" /\ frames = <<>>
ErrorPosition == IF CanAccess(offset) THEN offset ELSE length

NextParse ==
  \/ RunsOutOfMemory \/ BeginParse \/ ParseLiteral \/ ParseString
  \/ \E kind \in {"array", "object"} : OpenList(kind)
  \/ NestsTooDeep \/ NoValue \/ NextElement \/ ParseName \/ NoName
  \/ AfterElement \/ ParseSucceeds \/ Fail
ParserSpec == InitParse /\ [][NextParse]_parseVars

-----------------------------------------------------------------------------
(* What a text holds.                                                       *)

Blank(s) == \A i \in DOMAIN s : s[i] = Space
Trimmed(s) ==
  IF Blank(s) THEN <<>>
  ELSE LET solid == {i \in DOMAIN s : s[i] # Space}
       IN SubSeq(s, CHOOSE i \in solid : \A j \in solid : i <= j,
                    CHOOSE i \in solid : \A j \in solid : i >= j)

Count(s, lexemes) == Cardinality({i \in DOMAIN s : s[i] \in lexemes})
Nesting(s) == {Count(SubSeq(s, 1, i), {"[", "{"}) - Count(SubSeq(s, 1, i), {"]", "}"})
               : i \in DOMAIN s}
WithinLimit(s) == \A n \in Nesting(s) : n <= NestingLimit
Before(o) == Trimmed(SubSeq(text, AfterBom, o - 1))

-----------------------------------------------------------------------------
\* The depth is the number of lists that are open, and never past the limit.
ParserTypeOK ==
  /\ depth <= NestingLimit
  /\ parsing \notin {"fail", "parsed", "begin"} => depth = Len(frames) - 1

\* Every character the parser looks at, and the one it reports an error at, is inside
\* the text, although parse_array, parse_string and parse_object look at the current
\* one without a test: each step that moves the offset leaves it on a character.
ReadsInsideTheText ==
  /\ parsing \in {"value", "name", "element"} => CanAccess(offset)
  /\ Rejected => ErrorPosition \in DOMAIN text

\* A text that is rejected, for whatever reason and at whatever depth, leaves no block
\* behind; one that is accepted has an item for each value and a string for each name
\* and each string.
NoBlockIsLost ==
  /\ Rejected => blocks = 0
  /\ parsing = "parsed" =>
       LET s == Before(offset) IN
       blocks = Count(s, Literals \cup {"[", "{", "string"})
                + Count(s, {"string"}) - Count(s, {":"})

\* A parse neither looks outside of its text nor leaves blocks behind when it fails.
ParserKeepsItsMemory == ReadsInsideTheText /\ NoBlockIsLost
=============================================================================
