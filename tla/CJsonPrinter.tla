----------------------------- MODULE CJsonPrinter -----------------------------
(***************************************************************************)
(* cJSON_Print, cJSON_PrintBuffered and cJSON_PrintPreallocated.  An item  *)
(* is printed piece by piece into one buffer: ensure makes room for the    *)
(* piece, the piece is written at the offset, and the offset is moved past *)
(* it, by its length where that is known and by update_offset, which looks *)
(* for the null character, where a value was printed.  The recursion over  *)
(* the item is unrolled into the sequence of these pieces; escapes are the *)
(* matter of CJsonStrings, and here a string is its characters.            *)
(***************************************************************************)
EXTENDS Integers, Sequences, SequencesExt

CONSTANTS
  Items,           \* items that are printed
  DefaultSize,     \* default_buffer_size of print
  PrintSizes,      \* prebuffer of cJSON_PrintBuffered, length of PrintPreallocated
  INT_MAX,
  PrintMayFail     \* bound: an allocation of the print may return NULL

ASSUME PrintAssumption ==
  /\ {DefaultSize, INT_MAX} \subseteq Nat \ {0} /\ PrintSizes \subseteq 0..INT_MAX
  /\ DefaultSize <= INT_MAX
  /\ PrintMayFail \in BOOLEAN

VARIABLES
  item, format,  \* what is printed, and how
  call,          \* print, buffered, preallocated
  realloc,       \* hooks.reallocate is there
  pieces,        \* what is left to be done
  buffer,        \* contents of p.buffer, p.length long
  p_offset,
  memory,        \* blocks the call has allocated and not freed
  printed,       \* busy, done, failed, noMemory
  overrun,       \* it has written beyond the buffer, or looked for its end there
  overread       \* lengths of the buffers it has copied more from than they hold

printVars == <<item, format, call, realloc, pieces, buffer, p_offset, memory, printed, overrun,
               overread>>

End0 == "0"       \* the null character
Unset == "?"      \* what a byte of fresh memory holds

-----------------------------------------------------------------------------
Put(needed, text, move) == [needed |-> needed, text |-> text, move |-> move]
update_offset == Put(0, <<>>, 0)

Tabs(n) == [i \in 1..n |-> "tab"]
If(condition, s) == IF condition THEN s ELSE <<>>

\* print_value for what has no parts, and print_string_ptr: the null character is
\* written and ensured, the offset stays.
Whole(text) == <<Put(Len(text) + 1, Append(text, End0), 0)>>

Quoted(s) == <<"quote">> \o s \o <<"quote">>

\* Slip: the tabs before a closing bracket are forgotten.
NeedsBracketOnly(depth, fmt) == 2

ClosingNeed(depth, fmt) == IF fmt THEN depth + 2 ELSE 2

\* The bytes ensured for a separator of a list, beside the null character.
Separator(fmt) == IF fmt THEN 2 ELSE 1

RECURSIVE PrintValue(_, _, _)

print_array(array, depth, fmt) ==
  <<Put(1, <<"[">>, 1)>>
  \o FlattenSeq([i \in DOMAIN array.items |->
       PrintValue(array.items[i], depth + 1, fmt) \o <<update_offset>>
       \o If(i < Len(array.items),
             <<Put(Separator(fmt) + 1, <<",">> \o If(fmt, <<" ">>) \o <<End0>>,
                   Separator(fmt))>>)])
  \o <<Put(2, <<"]", End0>>, 0)>>

\* The depth is one more between the brackets than around them.
print_object(object, depth, fmt) ==
  <<Put(Separator(fmt) + 1, <<"{">> \o If(fmt, <<"newline">>), Separator(fmt))>>
  \o FlattenSeq([i \in DOMAIN object.items |->
       LET last == i = Len(object.items)
           tail == (IF fmt THEN 1 ELSE 0) + (IF last THEN 0 ELSE 1) IN
       If(fmt, <<Put(depth + 1, Tabs(depth + 1), depth + 1)>>)
       \o Whole(Quoted(object.names[i])) \o <<update_offset>>
       \o <<Put(Separator(fmt), <<":">> \o If(fmt, <<"tab">>), Separator(fmt))>>
       \o PrintValue(object.items[i], depth + 1, fmt) \o <<update_offset>>
       \o <<Put(tail + 1, If(~last, <<",">>) \o If(fmt, <<"newline">>) \o <<End0>>, tail)>>])
  \o <<Put(ClosingNeed(depth, fmt), If(fmt, Tabs(depth)) \o <<"}", End0>>, 0)>>

PrintValue(i, depth, fmt) ==
  CASE i.kind = "array"  -> print_array(i, depth, fmt)
    [] i.kind = "object" -> print_object(i, depth, fmt)
    [] i.kind = "string" -> Whole(Quoted(i.text))
    [] i.kind = "plain"  -> Whole(i.text)   \* null, true, false, a number, raw

-----------------------------------------------------------------------------
InitPrint ==
  /\ item \in Items /\ format \in BOOLEAN /\ realloc \in BOOLEAN
  /\ \/ call = "print" /\ \E n \in {DefaultSize} : buffer = [i \in 1..n |-> Unset]
     \/ call \in {"buffered", "preallocated"} /\ \E n \in PrintSizes :
          buffer = [i \in 1..n |-> Unset]
  /\ pieces = PrintValue(item, 0, format) \o If(call = "print", <<update_offset>>)
  /\ p_offset = 0 /\ overrun = FALSE /\ overread = {} /\ printed = "busy"
  /\ memory = IF call = "preallocated" THEN 0 ELSE 1

Piece == Head(pieces)
Total == Piece.needed + p_offset + 1
Offset_ok == Len(buffer) = 0 \/ p_offset < Len(buffer)

Fits == Offset_ok /\ Total <= Len(buffer)

MayGrow == Offset_ok /\ ~Fits /\ call # "preallocated" /\ Total <= INT_MAX
\* Slip: the size is doubled whatever it is.
Doubles == 2 * Total

NewSize == IF Total > INT_MAX \div 2 THEN INT_MAX ELSE 2 * Total

\* The bytes the larger buffer takes over: all that the old one had, or what is printed
\* and one more, which an empty buffer does not have.
Copied == IF realloc THEN Len(buffer) ELSE p_offset + 1
Moved(n) ==
  [i \in 1..n |-> IF i <= Copied /\ i \in DOMAIN buffer THEN buffer[i] ELSE Unset]

WithText(b) ==
  [i \in DOMAIN b |-> IF i \in (p_offset + 1)..(p_offset + Len(Piece.text))
                      THEN Piece.text[i - p_offset] ELSE b[i]]

Working == printed = "busy" /\ pieces # <<>>
Writing == Working /\ Piece # update_offset

Write(b) ==
  /\ buffer' = WithText(b)
  /\ overrun' = (overrun \/ p_offset + Len(Piece.text) > Len(b))
  /\ p_offset' = p_offset + Piece.move
  /\ pieces' = Tail(pieces)

WriteThere ==
  /\ Writing /\ Fits
  /\ Write(buffer)
  /\ UNCHANGED <<item, format, call, realloc, memory, printed, overread>>

WriteAfterGrowth ==
  /\ Writing /\ MayGrow
  /\ Write(Moved(NewSize))
  /\ overread' = overread \cup ({Len(buffer)} \cap 0..(Copied - 1))
  /\ UNCHANGED <<item, format, call, realloc, memory, printed>>

\* The buffer is freed once, by ensure or by the call.
FreesBuffer == memory - 1

Fails(why) ==
  /\ printed' = why
  /\ memory' = IF call = "preallocated" THEN memory ELSE FreesBuffer
  /\ UNCHANGED <<item, format, call, realloc, pieces, buffer, p_offset, overrun, overread>>

NoRoom == Writing /\ ~Fits /\ ~MayGrow /\ Fails("failed")
GrowthFails == Writing /\ MayGrow /\ PrintMayFail /\ Fails("noMemory")

\* The next null character, wherever it is.
Strlen == {i \in (p_offset + 1)..Len(buffer) : buffer[i] = End0}

UpdateOffset ==
  /\ Working /\ Piece = update_offset
  /\ IF Strlen = {} THEN overrun' = TRUE /\ UNCHANGED p_offset
     ELSE p_offset' = Min(Strlen) - 1 /\ UNCHANGED overrun
  /\ pieces' = Tail(pieces)
  /\ UNCHANGED <<item, format, call, realloc, buffer, memory, printed, overread>>

\* print returns a block of the size of the text, the others their buffer.
PrintReturns ==
  /\ printed = "busy" /\ pieces = <<>>
  /\ printed' = "done"
  /\ IF call = "print"
     THEN /\ buffer' = [i \in 1..(p_offset + 1) |-> IF i <= p_offset THEN buffer[i] ELSE End0]
          /\ overrun' = (overrun \/ p_offset + 1 > Len(buffer))
     ELSE UNCHANGED <<buffer, overrun>>
  /\ UNCHANGED <<item, format, call, realloc, pieces, p_offset, memory, overread>>

LastAllocationFails ==
  /\ printed = "busy" /\ pieces = <<>> /\ call = "print" /\ PrintMayFail
  /\ Fails("noMemory")

PrintNext ==
  \/ WriteThere \/ WriteAfterGrowth \/ NoRoom \/ GrowthFails \/ UpdateOffset
  \/ PrintReturns \/ LastAllocationFails

PrintSpec == InitPrint /\ [][PrintNext]_printVars

-----------------------------------------------------------------------------
\* The text of an item, as a whole.
RECURSIVE Text(_, _, _)
Text(i, depth, fmt) ==
  LET comma(n) == If(n < Len(i.items), <<",">>)
      break == If(fmt, <<"newline">>) IN
  CASE i.kind = "plain"  -> i.text
    [] i.kind = "string" -> Quoted(i.text)
    [] i.kind = "array"  ->
         <<"[">> \o FlattenSeq([n \in DOMAIN i.items |->
                      Text(i.items[n], depth + 1, fmt) \o comma(n)
                      \o If(fmt /\ n < Len(i.items), <<" ">>)]) \o <<"]">>
    [] i.kind = "object" ->
         <<"{">> \o break \o FlattenSeq([n \in DOMAIN i.items |->
                      If(fmt, Tabs(depth + 1)) \o Quoted(i.names[n]) \o <<":">>
                      \o If(fmt, <<"tab">>) \o Text(i.items[n], depth + 1, fmt)
                      \o comma(n) \o break]) \o If(fmt, Tabs(depth)) \o <<"}">>

WholeText == Text(item, 0, format)

PrinterTypeOK ==
  /\ printed \in {"busy", "done", "failed", "noMemory"} /\ memory \in Int
  /\ p_offset \in Nat /\ overrun \in BOOLEAN /\ overread \subseteq Nat
  /\ Range(buffer) \subseteq STRING /\ Len(buffer) <= INT_MAX

\* Every piece lies within the room that ensure has found for it, update_offset finds a
\* null character behind every value, and a buffer that is replaced without realloc is
\* copied up to its end at most: only of an empty one, which cJSON_PrintBuffered may be
\* asked for, is a byte copied that it does not have.
WritesInsideTheBuffer == ~overrun /\ overread \subseteq {0}

\* Whatever the sizes the buffer went through, what a call returns is the text.
PrintsTheText ==
  printed = "done" => SubSeq(buffer, 1, Len(WholeText) + 1) = Append(WholeText, End0)

\* cJSON.h:162: five bytes more than the text needs are always enough for
\* cJSON_PrintPreallocated; a call that may grow its buffer succeeds unless memory
\* or the largest size comes to its end.
SizeSuffices ==
  printed = "failed" =>
    IF call = "preallocated" THEN Len(buffer) < Len(WholeText) + 1 + 5
    ELSE Len(WholeText) + 1 + 5 > INT_MAX

\* A call that fails has freed its buffer, one that does not has one block to return.
OneBlockIsReturned ==
  printed # "busy" =>
    memory = IF printed = "done" /\ call # "preallocated" THEN 1 ELSE 0

\* A print returns the whole text in a block of its own, or nothing and no block,
\* and fails only for want of room.
PrintIsWhole == WritesInsideTheBuffer /\ PrintsTheText /\ SizeSuffices /\ OneBlockIsReturned
=============================================================================
