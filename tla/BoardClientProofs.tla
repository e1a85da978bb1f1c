-------------------------- MODULE BoardClientProofs --------------------------
(***************************************************************************)
(* The clients of the board: what a GET returns, for any number of retries *)
(* and pieces, any buffer and any answers; that only silence ends a        *)
(* WebSocket connection, for every interval, time-out, time of an answer   *)
(* and of a sender, and any number of frames that wait to be read; and     *)
(* what a destroy of the client frees, for every configuration.            *)
(***************************************************************************)
EXTENDS HttpFetch, KeepAlive, ClientConfig, SequenceTheorems, TLAPS

-----------------------------------------------------------------------------
(* HttpFetch: the answer of the server to this call. *)

\* The buffer holds the first n pieces of what the server says, and nothing else.
Holds(n) == Len(buffer) = n /\ \A i \in 1..n : buffer[i] = [of |-> said, piece |-> i]

\* While nothing was left by an attempt that failed, what the buffer holds is known
\* at every place of a call.
BufferInv ==
  ~spoiled =>
    /\ place = "trying" => buffer = <<>>
    /\ place = "receiving" => Holds(next - 1)
    /\ place = "parsing" => IF retries < MaxRetries THEN Holds(Pieces) ELSE buffer = <<>>

FetchInv ==
  /\ FetchTypeOK
  /\ place \in {"trying", "receiving"} => retries < MaxRetries
  /\ place = "receiving" => said \in served
  /\ \A i \in 1..Len(buffer) : buffer[i].of \in served
  /\ BufferInv

USE PiecesAssumption, ValuesAssumption, BufferAssumption, RetriesAssumption

LEMMA FetchInitial == FetchInit => FetchInv
PROOF
<1> SUFFICES ASSUME FetchInit PROVE FetchInv
  OBVIOUS
<1>1. buffer \in Seq([of : Values, piece : 1..Pieces]) /\ Len(buffer) = 0
  BY DEF FetchInit
<1>2. FetchTypeOK
  <2>1. calls \in 0..MaxCalls /\ retries \in 0..MaxRetries /\ next \in 1..(Pieces + 1)
    BY DEF FetchInit, PiecesAssumption, RetriesAssumption
  <2>2. Len(buffer) <= MaxBuffer
    BY <1>1 DEF BufferAssumption
  <2> QED BY <1>1, <2>1, <2>2 DEF FetchInit, FetchTypeOK
<1>3. \A i \in 1..Len(buffer) : buffer[i].of \in served
  BY <1>1
<1>4. place = "idle"
  BY DEF FetchInit
<1> QED BY <1>2, <1>3, <1>4 DEF FetchInv, BufferInv

LEMMA ReceivesStep ==
  ASSUME FetchInv, Receives
  PROVE  FetchInv'
PROOF
<1> DEFINE piece == [of |-> said, piece |-> next]
<1>1. /\ said \in Values /\ said \in served /\ next \in 1..Pieces
      /\ buffer \in Seq([of : Values, piece : 1..Pieces]) /\ Len(buffer) \in Nat
      /\ place = "receiving" /\ place' = place /\ said' = said /\ served' = served
      /\ next' = next + 1 /\ next' \in 1..(Pieces + 1)
      /\ UNCHANGED <<calls, retries, result>>
  BY DEF FetchInv, FetchTypeOK, Receives
<1>2. piece \in [of : Values, piece : 1..Pieces]
  BY <1>1
<1>3. CASE Len(buffer) < MaxBuffer /\ buffer' = Append(buffer, piece) /\ UNCHANGED spoiled
  <2>1. /\ buffer' \in Seq([of : Values, piece : 1..Pieces])
        /\ Len(buffer') = Len(buffer) + 1
        /\ \A i \in 1..Len(buffer) : buffer'[i] = buffer[i]
        /\ buffer'[Len(buffer) + 1] = piece
    <3> HIDE DEF piece
    <3> QED BY <1>1, <1>2, <1>3
  <2>2. Len(buffer') <= MaxBuffer
    BY <1>1, <1>3, <2>1
  <2>3. \A i \in 1..Len(buffer') : buffer'[i].of \in served'
    <3> TAKE i \in 1..Len(buffer')
    <3>1. i \in 1..Len(buffer) \/ i = Len(buffer) + 1
      BY <1>1, <2>1
    <3>2. CASE i \in 1..Len(buffer)
      <4>1. buffer[i].of \in served
        BY <3>2 DEF FetchInv
      <4> QED BY <4>1, <3>2, <2>1, <1>1
    <3>3. CASE i = Len(buffer) + 1
      <4>1. piece.of = said
        OBVIOUS
      <4> HIDE DEF piece
      <4> QED BY <4>1, <3>3, <2>1, <1>1
    <3> QED BY <3>1, <3>2, <3>3
  <2>4. BufferInv'
    <3> SUFFICES ASSUME ~spoiled' PROVE Holds(next - 1)'
      BY <1>1 DEF BufferInv
    <3>1. Holds(next - 1)
      BY <1>1, <1>3 DEF FetchInv, BufferInv
    <3>2. Len(buffer') = next
      BY <1>1, <2>1, <3>1 DEF Holds
    <3>3. ASSUME NEW i \in 1..next PROVE buffer'[i] = [of |-> said, piece |-> i]
      <4>1. CASE i = next
        BY <1>1, <2>1, <3>1, <4>1 DEF Holds
      <4>2. CASE i # next
        <5>1. i \in 1..(next - 1) /\ Len(buffer) = next - 1
          BY <1>1, <3>1, <3>3, <4>2 DEF Holds
        <5>2. buffer'[i] = buffer[i] /\ buffer[i] = [of |-> said, piece |-> i]
          BY <2>1, <3>1, <5>1 DEF Holds
        <5> QED BY <5>2
      <4> QED BY <4>1, <4>2
    <3> QED BY <1>1, <3>2, <3>3 DEF Holds
  <2> QED BY <1>1, <1>3, <2>1, <2>2, <2>3, <2>4 DEF FetchInv, FetchTypeOK
<1>4. CASE Len(buffer) = MaxBuffer /\ spoiled' = TRUE /\ UNCHANGED buffer
  BY <1>1, <1>4 DEF FetchInv, FetchTypeOK, BufferInv
<1> QED BY <1>3, <1>4 DEF Receives

LEMMA FailureStep ==
  ASSUME FetchInv, FailsLate \/ FailsEarly
  PROVE  FetchInv'
PROOF
<1>1. /\ place \in {"trying", "receiving"} /\ retries \in 0..MaxRetries /\ retries < MaxRetries
      /\ spoiled' = (spoiled \/ (place = "receiving" /\ next > 1))
      /\ UNCHANGED <<calls, said, next, buffer, result, served>>
  BY DEF FetchInv, FetchTypeOK, FailsLate, FailsEarly, Fails
<1>2. ASSUME ~spoiled' PROVE buffer = <<>>
  <2>1. next \in 1..(Pieces + 1) /\ spoiled \in BOOLEAN
    BY DEF FetchInv, FetchTypeOK
  <2>2. ~spoiled /\ (place = "receiving" => next = 1)
    <3>1. spoiled' = (spoiled \/ (place = "receiving" /\ next > 1)) /\ ~spoiled'
      BY <1>1, <1>2
    <3>2. ~spoiled /\ ~(place = "receiving" /\ next > 1)
      BY <3>1, Zenon
    <3> QED BY <2>1, <3>2
  <2>3. CASE place = "trying"
    BY <2>2, <2>3 DEF FetchInv, BufferInv
  <2>4. CASE place = "receiving"
    <3>1. Len(buffer) = 0
      BY <2>2, <2>4 DEF FetchInv, BufferInv, Holds
    <3>2. buffer \in Seq([of : Values, piece : 1..Pieces])
      BY DEF FetchInv, FetchTypeOK
    <3> QED BY <3>1, <3>2, EmptySeq
  <2> QED BY <1>1, <2>3, <2>4
<1>3. CASE FailsLate
  <2>1. /\ retries' = retries + 1 /\ retries' \in 0..MaxRetries
        /\ place' \in {"trying", "parsing"}
        /\ place' = "trying" => retries' < MaxRetries
        /\ place' = "parsing" => retries' = MaxRetries
    BY <1>1, <1>3 DEF FailsLate, AfterTry
  <2>2. BufferInv'
    BY <1>1, <1>2, <2>1 DEF BufferInv
  <2> QED BY <1>1, <2>1, <2>2 DEF FetchInv, FetchTypeOK
<1>4. CASE FailsEarly
  <2>1. place' = "trying" /\ retries' = retries
    BY <1>4 DEF FailsEarly
  <2>2. BufferInv'
    BY <1>1, <1>2, <2>1 DEF BufferInv
  <2> QED BY <1>1, <2>1, <2>2 DEF FetchInv, FetchTypeOK
<1> QED BY <1>3, <1>4

\* What a call returns, once the invariant tells what the buffer holds.
LEMMA ParseResult ==
  ASSUME FetchInv, Parse
  PROVE  /\ result' \in served \cup {0}
         /\ ~spoiled => result' = (IF retries < MaxRetries THEN said ELSE 0)
PROOF
<1>1. /\ place = "parsing" /\ result' = (IF Whole THEN buffer[Pieces].of ELSE 0)
      /\ Pieces \in Nat \ {0} /\ Len(buffer) \in Nat /\ retries \in 0..MaxRetries
  BY DEF Parse, FetchInv, FetchTypeOK
<1>2. Whole => Pieces \in 1..Len(buffer)
  BY <1>1 DEF Whole
<1>3. result' \in served \cup {0}
  BY <1>1, <1>2 DEF FetchInv
<1>4. ASSUME ~spoiled, retries < MaxRetries PROVE result' = said
  <2>1. Holds(Pieces)
    BY <1>1, <1>4 DEF FetchInv, BufferInv
  <2>2. Whole /\ buffer[Pieces].of = said
    BY <1>1, <2>1 DEF Holds, Whole
  <2> QED BY <1>1, <2>2
<1>5. ASSUME ~spoiled, ~(retries < MaxRetries) PROVE result' = 0
  <2>1. buffer = <<>>
    BY <1>1, <1>5 DEF FetchInv, BufferInv
  <2>2. ~Whole
    BY <1>1, <2>1 DEF Whole
  <2> QED BY <1>1, <2>2
<1> QED BY <1>3, <1>4, <1>5

LEMMA FetchStep == FetchInv /\ [FetchNext]_fetchVars => FetchInv'
PROOF
<1> SUFFICES ASSUME FetchInv, [FetchNext]_fetchVars PROVE FetchInv'
  OBVIOUS
<1>1. CASE Call
  <2>1. buffer' \in Seq([of : Values, piece : 1..Pieces]) /\ Len(buffer') = 0 /\ buffer' = <<>>
    BY <1>1 DEF Call, EmptyBuffer
  <2>2. /\ place' = "trying" /\ retries' = 0 /\ calls' = calls + 1 /\ calls < MaxCalls
        /\ served' = {} /\ spoiled' = FALSE /\ UNCHANGED <<said, next, result>>
    BY <1>1 DEF Call
  <2>3. FetchTypeOK'
    <3>1. calls' \in 0..MaxCalls /\ retries' \in 0..MaxRetries /\ Len(buffer') <= MaxBuffer
      BY <2>1, <2>2 DEF FetchInv, FetchTypeOK, RetriesAssumption, BufferAssumption
    <3> QED BY <2>1, <2>2, <3>1 DEF FetchInv, FetchTypeOK
  <2>4. retries' < MaxRetries
    BY <2>2 DEF RetriesAssumption
  <2>5. \A i \in 1..Len(buffer') : buffer'[i].of \in served'
    BY <2>1
  <2>6. BufferInv'
    BY <2>1, <2>2 DEF BufferInv
  <2> QED BY <2>2, <2>3, <2>4, <2>5, <2>6 DEF FetchInv
<1>2. CASE Connects
  <2>1. PICK v \in Values : said' = v /\ served' = served \cup {v}
    BY <1>2 DEF Connects
  <2>2. /\ place = "trying" /\ place' = "receiving" /\ next' = 1
        /\ UNCHANGED <<calls, retries, buffer, result, spoiled>>
    BY <1>2 DEF Connects
  <2>3. BufferInv'
    <3> SUFFICES ASSUME ~spoiled' PROVE Holds(next - 1)'
      BY <2>2 DEF BufferInv
    <3>1. buffer' = <<>>
      BY <2>2 DEF FetchInv, BufferInv
    <3> QED BY <2>2, <3>1 DEF Holds
  <2> QED BY <2>1, <2>2, <2>3 DEF FetchInv, FetchTypeOK
<1>3. CASE Receives
  BY <1>3, ReceivesStep
<1>4. CASE Succeeds
  <2>1. /\ place = "receiving" /\ place' = "parsing" /\ next = Pieces + 1
        /\ retries < MaxRetries
        /\ UNCHANGED <<calls, retries, said, next, buffer, result, served, spoiled>>
    BY <1>4 DEF Succeeds, BodyIsRead, FetchInv
  <2>2. BufferInv'
    BY <2>1 DEF FetchInv, BufferInv, Holds
  <2> QED BY <2>1, <2>2 DEF FetchInv, FetchTypeOK
<1>5. CASE FailsLate \/ FailsEarly
  BY <1>5, FailureStep
<1>6. CASE Parse
  <2>1. result' \in Values \cup {0}
    BY <1>6, ParseResult DEF FetchInv, FetchTypeOK
  <2> QED BY <1>6, <2>1 DEF Parse, FetchInv, FetchTypeOK, BufferInv
<1>7. CASE UNCHANGED fetchVars
  BY <1>7 DEF fetchVars, FetchInv, FetchTypeOK, BufferInv, Holds
<1> QED BY <1>1, <1>2, <1>3, <1>4, <1>5, <1>6, <1>7 DEF FetchNext

\* The types, and the room of the buffer, which realloc keeps.
THEOREM FetchTypeCorrect == FetchSpec => []FetchTypeOK
PROOF
<1>1. FetchInv => FetchTypeOK
  BY DEF FetchInv
<1> QED BY <1>1, FetchInitial, FetchStep, PTL DEF FetchSpec

\* getglobalmodelstatus, getregisternode and getglobalmodel return what the server
\* said in this very call, exactly so when no attempt was broken off in a body.
THEOREM CallsAreAnswered == FetchSpec => CallIsAnswered
PROOF
<1> DEFINE Answered ==
      place = "parsing" =>
        /\ result' \in served \cup {0}
        /\ ~spoiled => result' = (IF retries < MaxRetries THEN said ELSE 0)
<1>1. FetchInv /\ [FetchNext]_fetchVars => [Answered]_fetchVars
  <2> SUFFICES ASSUME FetchInv, FetchNext, place = "parsing" PROVE Parse
    BY ParseResult
  <2> QED BY DEF FetchNext, Call, Connects, Receives, Succeeds, FailsLate, FailsEarly, Fails
<1> QED BY <1>1, FetchInitial, FetchStep, PTL DEF FetchSpec, CallIsAnswered

-----------------------------------------------------------------------------
(* KeepAlive: the clock of the WebSocket client. *)

Frames == {"PONG", "TEXT"}

\* What the sender that has the lock may still take.
LockLeft == IF kept > 0 THEN Hold + 1 - kept ELSE 0

\* What senders may still take before the frame at p is read: the poll finds the
\* first frame at once, and every turn that reads one is preceded by a sender.
ReadIn(p) == IF polling THEN p * Hold ELSE LockLeft + (p - read_select) * Hold

ReadAll == (MaxFrames + 1) * Hold
PingSent == ReadAll + Interval + 1 + Hold

\* A sender gets the lock while the task polls.
LockInv == up /\ polling => kept <= 1

\* While a PONG is waited for it is on its way, or will be read in time.
PongInv ==
  alive /\ up /\ wait_for_pong_resp =>
    \/ transit # <<>> /\ sincePong <= transit[1]
    \/ \E p \in 1..Len(arrived) : arrived[p] = "PONG" /\ sincePong + ReadIn(p) <= Answer + ReadAll

\* A poll begins before the PING is due and before the time-out.
PollInv ==
  up /\ polling => sincePing <= Interval /\ (wait_for_pong_resp => sincePong <= Timeout)

\* The silence while frames are left to read, until the PING, and until the time-out.
UnreadSilence == arrived # <<>> => silence + ReadIn(Len(arrived)) <= ReadAll

QuietSilence ==
  arrived = <<>> /\ ~wait_for_pong_resp =>
    IF sincePing <= Interval THEN silence <= ReadAll + sincePing
                             ELSE silence + LockLeft <= PingSent

WaitingSilence ==
  arrived = <<>> /\ wait_for_pong_resp =>
    IF sincePong <= Timeout THEN silence <= PingSent + sincePong
                            ELSE silence + LockLeft <= PingSent + Timeout + 1 + Hold

SilenceInv == up /\ Timeout > 0 => UnreadSilence /\ QuietSilence /\ WaitingSilence

AliveInv == KeepAliveTypeOK /\ LockInv /\ PollInv /\ PongInv /\ SilenceInv /\ ResponsiveServerStays

LEMMA TimesAreNat ==
  Interval \in Nat /\ Timeout \in Nat /\ Answer \in Nat /\ Hold \in Nat /\ MaxFrames \in Nat
PROOF BY TimesAssumption

USE TimesAreNat, MayDieAssumption

-----------------------------------------------------------------------------
(* Time until a frame is read. *)

LEMMA ProductIsNat == ASSUME NEW p \in Nat, NEW h \in Nat PROVE p * h \in Nat
PROOF OBVIOUS

\* Frames further ahead take no less time.
LEMMA ProductGrows ==
  ASSUME NEW p \in Nat, NEW q \in Nat, p <= q, NEW h \in Nat
  PROVE  p * h <= q * h
PROOF
<1>1. PICK d \in Nat : q = p + d
  <2>1. q - p \in Nat /\ q = p + (q - p)
    OBVIOUS
  <2> QED BY <2>1
<1>2. q * h = p * h + d * h
  BY <1>1
<1>3. p * h \in Nat /\ q * h \in Nat /\ d * h \in Nat
  BY ProductIsNat
<1> QED BY <1>2, <1>3

LEMMA OneFrameMore ==
  ASSUME NEW p \in Nat, NEW h \in Nat
  PROVE  (p + 1) * h = p * h + h
PROOF OBVIOUS

LEMMA OneFrameLess ==
  ASSUME NEW p \in Nat, NEW h \in Nat, p > 0
  PROVE  p * h = (p - 1) * h + h /\ (p - 1) * h \in Nat
PROOF
<1>1. PICK q \in Nat : p = q + 1
  <2>1. p - 1 \in Nat /\ p = (p - 1) + 1
    OBVIOUS
  <2> QED BY <2>1
<1>2. p - 1 = q
  BY <1>1
<1> QED BY <1>1, <1>2, OneFrameMore, ProductIsNat

\* No frame is read later than all of them.
LEMMA ReadInBounded ==
  ASSUME KeepAliveTypeOK, NEW p \in 1..MaxFrames
  PROVE  ReadIn(p) \in Nat /\ ReadIn(p) <= ReadAll /\ LockLeft \in 0..Hold
PROOF
<1>1. LockLeft \in 0..Hold
  BY DEF LockLeft, KeepAliveTypeOK
<1>2. /\ p * Hold \in Nat /\ p * Hold = (p - 1) * Hold + Hold /\ (p - 1) * Hold \in Nat
      /\ p * Hold <= MaxFrames * Hold /\ ReadAll = MaxFrames * Hold + Hold
      /\ MaxFrames * Hold \in Nat
  BY ProductIsNat, ProductGrows, OneFrameLess, OneFrameMore DEF ReadAll
<1>3. CASE polling
  BY <1>2, <1>1, <1>3 DEF ReadIn
<1>4. CASE ~polling /\ read_select = 0
  BY <1>1, <1>2, <1>4 DEF ReadIn
<1>5. CASE ~polling /\ read_select = 1
  BY <1>1, <1>2, <1>5 DEF ReadIn
<1> QED BY <1>3, <1>4, <1>5 DEF KeepAliveTypeOK

LEMMA LockTakesLess ==
  ASSUME NEW h \in Nat, NEW k \in 0..h, NEW m \in Nat
  PROVE  k + m \in Nat /\ k + m <= m + h
PROOF OBVIOUS

\* A poll that finds a frame costs no time.
LEMMA ReadInFound ==
  ASSUME KeepAliveTypeOK, LockInv, PollFinds, NEW p \in 1..MaxFrames
  PROVE  ReadIn(p)' \in Nat /\ ReadIn(p)' <= ReadIn(p)
PROOF
<1>1. polling /\ ~polling' /\ read_select' = 1 /\ kept' = kept /\ kept \in 0..1
  BY DEF PollFinds, LockInv, KeepAliveTypeOK
<1>2. LockLeft' \in 0..Hold
  BY <1>1 DEF LockLeft
<1>3. ReadIn(p) = p * Hold /\ ReadIn(p)' = LockLeft' + (p - 1) * Hold
  BY <1>1 DEF ReadIn
<1>4. (p - 1) * Hold \in Nat /\ p * Hold = (p - 1) * Hold + Hold
  BY OneFrameLess
<1> QED BY <1>2, <1>3, <1>4, LockTakesLess

LEMMA ReadInFreed ==
  ASSUME KeepAliveTypeOK, kept' = 0, UNCHANGED <<polling, read_select>>, NEW p \in 1..MaxFrames
  PROVE  ReadIn(p)' \in Nat /\ ReadIn(p)' <= ReadIn(p) /\ LockLeft' = 0
PROOF
<1>1. LockLeft' = 0 /\ LockLeft \in 0..Hold
  BY ReadInBounded DEF LockLeft
<1>2. p * Hold \in Nat /\ (p - read_select) * Hold \in Nat
  <2>1. p - read_select \in Nat
    BY DEF KeepAliveTypeOK
  <2> QED BY <2>1, ProductIsNat
<1> QED BY <1>1, <1>2 DEF ReadIn

\* A second that passes for a sender is a second less.
LEMMA ReadInTicks ==
  ASSUME KeepAliveTypeOK, Tick, ~polling, NEW p \in 1..MaxFrames
  PROVE  ReadIn(p)' \in Nat /\ ReadIn(p) = ReadIn(p)' + 1 /\ LockLeft = LockLeft' + 1
PROOF
<1>1. ~polling' /\ read_select' = read_select /\ kept > 0 /\ kept <= Hold /\ kept' = kept + 1
  BY DEF Tick, PollResult
<1>2. LockLeft = LockLeft' + 1 /\ LockLeft' \in Nat
  <2>1. kept \in 1..Hold /\ Hold \in Nat
    BY <1>1 DEF KeepAliveTypeOK
  <2>2. LockLeft = Hold + 1 - kept /\ LockLeft' = Hold + 1 - (kept + 1)
    BY <1>1, <2>1 DEF LockLeft
  <2> QED BY <2>1, <2>2
<1>3. ReadIn(p) = LockLeft + (p - read_select) * Hold
      /\ ReadIn(p)' = LockLeft' + (p - read_select) * Hold
  BY <1>1 DEF ReadIn
<1>4. (p - read_select) * Hold \in Nat
  <2>1. p - read_select \in Nat
    BY DEF KeepAliveTypeOK
  <2> QED BY <2>1, ProductIsNat
<1> QED BY <1>2, <1>3, <1>4

\* A turn that reads a frame brings the others forward.
LEMMA ReadInTurn ==
  ASSUME KeepAliveTypeOK, Turn, polling', NEW p \in 1..MaxFrames
  PROVE  /\ LockLeft = 0 /\ LockLeft' = 0
         /\ read_select = 0 => ReadIn(p)' = ReadIn(p)
         /\ read_select = 1 /\ p > 1 => ReadIn(p - 1)' = ReadIn(p)
         /\ read_select = 1 => ReadIn(1) = 0
PROOF
<1>1. ~polling /\ kept = 0 /\ kept' = 0
  BY DEF Turn
<1>2. LockLeft = 0 /\ LockLeft' = 0
  BY <1>1 DEF LockLeft
<1>3. ReadIn(p) = (p - read_select) * Hold /\ ReadIn(1) = (1 - read_select) * Hold
  <2>1. (p - read_select) * Hold \in Nat /\ (1 - read_select) * Hold \in Nat
    <3>1. p - read_select \in Nat /\ 1 - read_select \in Nat
      BY DEF KeepAliveTypeOK
    <3> QED BY <3>1, ProductIsNat
  <2> QED BY <1>1, <1>2, <2>1 DEF ReadIn
<1>4. ReadIn(p)' = p * Hold /\ ReadIn(p - 1)' = (p - 1) * Hold
  BY DEF ReadIn
<1> QED BY <1>2, <1>3, <1>4

-----------------------------------------------------------------------------
(* The PONGs on their way. *)

LEMMA AllOlder ==
  ASSUME NEW m \in Nat, NEW s \in Seq(0..m), \A i \in 1..Len(s) : s[i] < m
  PROVE  [i \in 1..Len(s) |-> s[i] + 1] \in Seq(0..m)
PROOF
<1>1. Len(s) \in Nat
  OBVIOUS
<1>2. ASSUME NEW i \in 1..Len(s) PROVE s[i] + 1 \in 0..m
  <2>1. s[i] \in 0..m
    BY ElementOfSeq
  <2>2. s[i] < m
    OBVIOUS
  <2> QED BY <2>1, <2>2
<1>3. [i \in 1..Len(s) |-> s[i] + 1] \in [1..Len(s) -> 0..m]
  BY <1>2
<1> QED BY <1>1, <1>3, SeqDef

-----------------------------------------------------------------------------
(* Types, the lock and the poll. *)

LEMMA LongestIsNat == Longest \in Nat
PROOF
<1>1. MaxFrames + 3 \in Nat /\ (MaxFrames + 3) * Hold \in Nat
  BY ProductIsNat
<1> QED BY <1>1 DEF Longest

LEMMA AliveInitial == AliveInit => AliveInv
PROOF
<1> SUFFICES ASSUME AliveInit PROVE AliveInv
  OBVIOUS
<1>1. KeepAliveTypeOK
  <2>1. /\ arrived = <<>> /\ arrived \in Seq(Frames) /\ Len(arrived) = 0
        /\ transit \in Seq(0..Answer)
    BY DEF AliveInit
  <2>2. {up, wait_for_pong_resp, polling, alive} \subseteq BOOLEAN
    BY Zenon DEF AliveInit
  <2>3. /\ read_select = 0 /\ sincePing = 0 /\ sincePong = 0 /\ kept = 0 /\ silence = 0
        /\ polling
    BY DEF AliveInit
  <2> QED BY <2>1, <2>2, <2>3, LongestIsNat DEF Frames, KeepAliveTypeOK
<1>2. LockInv /\ PollInv /\ PongInv /\ ResponsiveServerStays
  BY DEF AliveInit, LockInv, PollInv, PongInv, ResponsiveServerStays
<1>3. SilenceInv
  BY ProductIsNat DEF AliveInit, SilenceInv, UnreadSilence, QuietSilence, WaitingSilence, ReadAll
<1> QED BY <1>1, <1>2, <1>3 DEF AliveInv

\* A clock that stops counting at cap.
LEMMA ClockRuns ==
  ASSUME NEW cap \in Nat, NEW n \in 0..cap
  PROVE  Capped(n, cap) \in 0..cap /\ Capped(n, cap) <= n + 1
PROOF BY DEF Capped

LEMMA TypeStep ==
  ASSUME KeepAliveTypeOK, LockInv, PollInv, [AliveNext]_kaVars
  PROVE  KeepAliveTypeOK' /\ LockInv' /\ PollInv'
PROOF
<1>1. ASSUME Turn PROVE KeepAliveTypeOK' /\ LockInv' /\ PollInv'
  <2>1. PongAge(PingIsDue) \in 0..(Timeout + 1) /\ WaitsForPong(PingIsDue) \in BOOLEAN
    BY DEF PongAge, PingIsDue, WaitsForPong, KeepAliveTypeOK
  <2>2. read_select # 0 => arrived # <<>>
    BY <1>1 DEF Turn, KeepAliveTypeOK
  <2>3. arrived' \in Seq(Frames) /\ Len(arrived') <= MaxFrames
    <3>1. arrived' = arrived \/ (arrived # <<>> /\ arrived' = Tail(arrived))
      BY <1>1, <2>2 DEF Turn
    <3>2. arrived \in Seq(Frames) /\ Len(arrived) <= MaxFrames
      BY DEF Frames, KeepAliveTypeOK
    <3>3. CASE arrived' = arrived
      BY <3>2, <3>3
    <3>4. CASE arrived # <<>> /\ arrived' = Tail(arrived)
      BY <3>2, <3>4, HeadTailProperties, LenProperties
    <3> QED BY <3>1, <3>3, <3>4
  <2>4. transit' \in Seq(0..Answer)
    <3>1. transit' = transit \/ transit' = Append(transit, 0)
      BY <1>1 DEF Turn
    <3>2. transit \in Seq(0..Answer) /\ 0 \in 0..Answer
      BY DEF KeepAliveTypeOK
    <3>3. Append(transit, 0) \in Seq(0..Answer)
      BY <3>2, AppendProperties
    <3> QED BY <3>1, <3>2, <3>3
  <2>5. /\ up' \in BOOLEAN /\ polling' \in BOOLEAN /\ wait_for_pong_resp' \in BOOLEAN
        /\ sincePing' \in 0..(Interval + 1) /\ sincePong' \in 0..(Timeout + 1)
        /\ polling' = up' /\ UNCHANGED <<read_select, kept, alive, silence>> /\ kept = 0
    BY <1>1, <2>1 DEF Turn, KeepAliveTypeOK
  <2>6. up' => sincePing' <= Interval
    BY <1>1 DEF Turn, PingIsDue, KeepAliveTypeOK
  <2>7. up' /\ wait_for_pong_resp' => sincePong' <= Timeout
    BY <1>1, <2>1 DEF Turn, KeepAliveTypeOK
  <2> QED BY <2>3, <2>4, <2>5, <2>6, <2>7 DEF Frames, KeepAliveTypeOK, LockInv, PollInv
<1>2. ASSUME PollFinds PROVE KeepAliveTypeOK' /\ LockInv' /\ PollInv'
  <2>1. polling' = FALSE /\ read_select' = 1 /\ arrived' # <<>>
    BY <1>2 DEF PollFinds
  <2>2. polling' \in BOOLEAN
    BY <2>1, Zenon
  <2>3. UNCHANGED <<up, sincePing, sincePong, wait_for_pong_resp, transit, arrived, kept, alive,
                    silence>>
    BY <1>2 DEF PollFinds
  <2> QED BY <2>1, <2>2, <2>3 DEF KeepAliveTypeOK, LockInv, PollInv
<1>3. ASSUME Tick PROVE KeepAliveTypeOK' /\ LockInv' /\ PollInv'
  <2>1. transit' \in Seq(0..Answer)
    <3>1. /\ transit' = [i \in 1..Len(transit) |-> transit[i] + 1]
          /\ \A i \in 1..Len(transit) : transit[i] < Answer
      BY <1>3 DEF Tick, KeepAliveTypeOK
    <3>2. transit \in Seq(0..Answer) /\ Answer \in Nat
      BY DEF KeepAliveTypeOK
    <3> QED BY <3>1, <3>2, AllOlder
  <2>2. /\ sincePing' \in 0..(Interval + 1) /\ sincePong' \in 0..(Timeout + 1)
        /\ silence' \in 0..Longest
    <3>1. /\ sincePing' = Capped(sincePing, Interval + 1)
          /\ sincePong' = Capped(sincePong, Timeout + 1)
          /\ silence' = Capped(silence, Longest)
      BY <1>3 DEF Tick, KeepAliveTypeOK
    <3>2. /\ Interval + 1 \in Nat /\ Timeout + 1 \in Nat /\ sincePing \in 0..(Interval + 1)
          /\ sincePong \in 0..(Timeout + 1) /\ silence \in 0..Longest
      BY DEF KeepAliveTypeOK
    <3> QED BY <3>1, <3>2, ClockRuns, LongestIsNat
  <2>3. kept' \in 0..(Hold + 1) /\ polling' = FALSE /\ UNCHANGED <<up, wait_for_pong_resp, arrived, alive>>
    BY <1>3 DEF Tick, KeepAliveTypeOK
  <2>4. read_select' \in 0..1 /\ (read_select' = 1 /\ up' => arrived' # <<>>)
    BY <1>3 DEF Tick, PollResult, KeepAliveTypeOK
  <2> QED BY <2>1, <2>2, <2>3, <2>4 DEF KeepAliveTypeOK, LockInv, PollInv
<1>4. ASSUME NEW frame \in Frames, Arrives(frame), transit' \in Seq(0..Answer)
      PROVE  KeepAliveTypeOK' /\ LockInv' /\ PollInv'
  <2>1. arrived \in Seq(Frames) /\ arrived' = Append(arrived, frame) /\ Len(arrived) < MaxFrames
    BY <1>4 DEF Arrives, Frames, KeepAliveTypeOK
  <2>2. arrived' \in Seq(Frames) /\ arrived' # <<>> /\ Len(arrived') = Len(arrived) + 1
    BY <2>1, <1>4, AppendProperties
  <2>3. /\ UNCHANGED <<up, sincePing, sincePong, wait_for_pong_resp, read_select, polling, kept,
                       alive>>
        /\ silence' = 0
    BY <1>4 DEF Arrives
  <2>4. Len(arrived') <= MaxFrames
    BY <2>1, <2>2, LenProperties
  <2> QED BY <1>4, <2>2, <2>3, <2>4, LongestIsNat DEF Frames, KeepAliveTypeOK, LockInv, PollInv
<1>5. ASSUME PongArrives PROVE KeepAliveTypeOK' /\ LockInv' /\ PollInv'
  <2>1. transit' \in Seq(0..Answer)
    BY <1>5, HeadTailProperties DEF PongArrives, KeepAliveTypeOK
  <2> QED BY <1>4, <1>5, <2>1 DEF PongArrives, Frames
<1>6. ASSUME TextArrives PROVE KeepAliveTypeOK' /\ LockInv' /\ PollInv'
  BY <1>4, <1>6 DEF TextArrives, Frames, KeepAliveTypeOK
<1>7. ASSUME SenderLocks PROVE KeepAliveTypeOK' /\ LockInv' /\ PollInv'
  BY <1>7 DEF SenderLocks, KeepAliveTypeOK, LockInv, PollInv
<1>8. ASSUME SenderUnlocks PROVE KeepAliveTypeOK' /\ LockInv' /\ PollInv'
  BY <1>8 DEF SenderUnlocks, KeepAliveTypeOK, LockInv, PollInv
<1>9. ASSUME ServerDies PROVE KeepAliveTypeOK' /\ LockInv' /\ PollInv'
  BY <1>9 DEF ServerDies, KeepAliveTypeOK, LockInv, PollInv
<1>10. ASSUME UNCHANGED kaVars PROVE KeepAliveTypeOK' /\ LockInv' /\ PollInv'
  BY <1>10 DEF kaVars, KeepAliveTypeOK, LockInv, PollInv
<1> QED BY <1>1, <1>2, <1>3, <1>5, <1>6, <1>7, <1>8, <1>9, <1>10 DEF AliveNext

-----------------------------------------------------------------------------
(* The PONG that is waited for. *)

LEMMA ReadAllIsNat == ReadAll \in Nat /\ ReadAll' = ReadAll
PROOF BY ProductIsNat DEF ReadAll

LEMMA TypeFacts ==
  ASSUME KeepAliveTypeOK
  PROVE  /\ arrived \in Seq(Frames) /\ Len(arrived) \in Nat /\ Len(arrived) <= MaxFrames
         /\ transit \in Seq(0..Answer) /\ Len(transit) \in Nat
         /\ sincePong \in Nat /\ sincePong \in 0..(Timeout + 1) /\ Timeout + 1 \in Nat
         /\ sincePing \in Nat /\ sincePing \in 0..(Interval + 1) /\ Interval + 1 \in Nat
         /\ silence \in Nat /\ silence \in 0..Longest /\ read_select \in 0..1
PROOF
<1>1. Longest \in Nat /\ arrived \in Seq(Frames)
  BY LongestIsNat DEF KeepAliveTypeOK, Frames
<1>2. Len(arrived) \in Nat /\ Len(transit) \in Nat
  BY <1>1, LenProperties DEF KeepAliveTypeOK
<1> QED BY <1>1, <1>2, SMTT(30) DEF KeepAliveTypeOK

LEMMA PongStep ==
  ASSUME KeepAliveTypeOK, LockInv, PongInv, [AliveNext]_kaVars
  PROVE  PongInv'
PROOF
<1> SUFFICES ASSUME alive', up', wait_for_pong_resp'
             PROVE  \/ transit' # <<>> /\ sincePong' <= transit'[1]
                    \/ \E p \in 1..Len(arrived') :
                         arrived'[p] = "PONG" /\ sincePong' + ReadIn(p)' <= Answer + ReadAll
  BY ReadAllIsNat DEF PongInv
<1> DEFINE Coming == transit # <<>> /\ sincePong <= transit[1]
           ReadyAt(p) == arrived[p] = "PONG" /\ sincePong + ReadIn(p) <= Answer + ReadAll
           Ready == \E p \in 1..Len(arrived) : ReadyAt(p)
<1> HIDE DEF ReadyAt
<1>a. /\ arrived \in Seq(Frames) /\ Len(arrived) \in Nat /\ Len(arrived) <= MaxFrames
      /\ transit \in Seq(0..Answer) /\ Len(transit) \in Nat /\ sincePong \in Nat
      /\ read_select \in 0..1 /\ sincePong \in 0..(Timeout + 1)
      /\ ReadAll \in Nat /\ ReadAll' = ReadAll
  BY TypeFacts, ReadAllIsNat
<1>b. alive /\ up /\ wait_for_pong_resp => Coming \/ Ready
  BY DEF PongInv, ReadyAt
<1>c. ASSUME NEW p \in 1..Len(arrived) PROVE p \in 1..MaxFrames /\ ReadIn(p) \in Nat
  BY <1>a, ReadInBounded
<1>1. ASSUME Turn PROVE Coming' \/ Ready'
  <2>1. alive /\ up /\ polling' /\ UNCHANGED read_select
    BY <1>1 DEF Turn
  <2>2. CASE ~wait_for_pong_resp
    <3>1. PingIsDue /\ sincePong' = 0 /\ transit' = Append(transit, 0)
      BY <1>1, <2>1, <2>2 DEF Turn, WaitsForPong, PongAge
    <3>2. transit' # <<>> /\ transit'[1] \in Nat
      <4>1. transit' \in Seq(0..Answer) /\ transit' # <<>> /\ 1 \in 1..Len(transit')
        BY <1>a, <3>1, AppendProperties
      <4>2. transit'[1] \in 0..Answer
        BY <4>1, ElementOfSeq
      <4> QED BY <4>1, <4>2
    <3> QED BY <3>1, <3>2
  <2>3. CASE wait_for_pong_resp
    <3>1. sincePong' = sincePong
      BY <1>1, <2>3 DEF Turn, PongAge
    <3>2. CASE Coming
      <4>1. transit' = transit \/ transit' = Append(transit, 0)
        BY <1>1 DEF Turn
      <4>2. Append(transit, 0) # <<>> /\ Append(transit, 0)[1] = transit[1]
        <5>1. 1 \in 1..Len(transit)
          BY <1>a, <3>2
        <5>2. 0 \in 0..Answer
          OBVIOUS
        <5> QED BY <1>a, <5>1, <5>2, AppendProperties
      <4> QED BY <3>1, <3>2, <4>1, <4>2
    <3>3. ASSUME NEW p \in 1..Len(arrived), ReadyAt(p) PROVE Ready'
      <4>1. CASE read_select = 0
        <5>1. arrived' = arrived
          BY <1>1, <4>1 DEF Turn
        <5>2. ReadIn(p)' = ReadIn(p)
          BY <1>1, <1>c, <2>1, <4>1, ReadInTurn
        <5> QED BY <3>1, <3>3, <5>1, <5>2 DEF ReadyAt
      <4>2. CASE read_select = 1
        <5>1. arrived # <<>> /\ arrived' = Tail(arrived) /\ Head(arrived) # "PONG"
          <6>1. arrived # <<>>
            BY <1>1, <4>2 DEF Turn, KeepAliveTypeOK
          <6>2. read_select # 0
            BY <4>2
          <6>3. Head(arrived) # "PONG" /\ arrived' = Tail(arrived)
            BY <1>1, <2>1, <6>2, Zenon DEF Turn
          <6> QED BY <6>1, <6>3
        <5>2. p # 1
          BY <5>1, <3>3, <1>a DEF ReadyAt
        <5>3. p - 1 \in 1..Len(arrived') /\ arrived'[p - 1] = arrived[p]
          BY <1>a, <5>1, <5>2, HeadTailProperties
        <5>4. ReadIn(p - 1)' = ReadIn(p)
          BY <1>1, <1>c, <2>1, <4>2, <5>2, ReadInTurn
        <5>5. ReadyAt(p - 1)'
          BY <3>1, <3>3, <5>3, <5>4 DEF ReadyAt
        <5> QED BY <5>3, <5>5
      <4> QED BY <1>a, <4>1, <4>2
    <3> QED BY <1>b, <2>1, <2>3, <3>2, <3>3
  <2> QED BY <2>2, <2>3
<1>2. ASSUME PollFinds PROVE Coming' \/ Ready'
  <2>1. UNCHANGED <<alive, up, wait_for_pong_resp, transit, sincePong, arrived>>
    BY <1>2 DEF PollFinds
  <2>2. ASSUME NEW p \in 1..Len(arrived), ReadyAt(p) PROVE Ready'
    <3>1. ReadIn(p)' <= ReadIn(p) /\ ReadIn(p) \in Nat /\ ReadIn(p)' \in Nat
      BY <1>2, <1>c, ReadInFound
    <3>2. ReadyAt(p)'
      BY <1>a, <2>1, <2>2, <3>1 DEF ReadyAt
    <3> QED BY <2>1, <3>2
  <2> QED BY <1>b, <2>1, <2>2
<1>3. ASSUME Tick PROVE Coming' \/ Ready'
  <2>a. UNCHANGED <<alive, up, wait_for_pong_resp, arrived>>
    BY <1>3 DEF Tick
  <2>1. sincePong' \in Nat /\ sincePong' <= sincePong + 1
    <3>1. sincePong' = Capped(sincePong, Timeout + 1)
      BY <1>3 DEF Tick
    <3>2. Timeout + 1 \in Nat
      OBVIOUS
    <3>3. Capped(sincePong, Timeout + 1) \in 0..(Timeout + 1)
          /\ Capped(sincePong, Timeout + 1) <= sincePong + 1
      BY <1>a, <3>2, ClockRuns
    <3> QED BY <3>1, <3>2, <3>3
  <2>2. CASE Coming
    <3>1. 1 \in 1..Len(transit) /\ transit[1] \in Nat
      <4>1. 1 \in 1..Len(transit)
        BY <1>a, <2>2
      <4> QED BY <1>a, <4>1, ElementOfSeq
    <3>2. transit' = [i \in 1..Len(transit) |-> transit[i] + 1]
      BY <1>3 DEF Tick
    <3>3. transit'[1] = transit[1] + 1 /\ 1 \in DOMAIN transit'
      BY <3>1, <3>2
    <3>4. transit' # <<>>
      BY <3>3
    <3> QED BY <1>a, <2>a, <2>1, <2>2, <3>1, <3>3, <3>4
  <2>3. ASSUME NEW p \in 1..Len(arrived), ReadyAt(p) PROVE Ready'
    <3>1. ~polling
      BY <1>3, <1>a, <2>3 DEF Tick
    <3>2. ReadIn(p)' \in Nat /\ ReadIn(p) = ReadIn(p)' + 1
      BY <1>3, <1>c, <3>1, ReadInTicks
    <3>3. ReadyAt(p)'
      BY <1>a, <2>a, <2>1, <2>3, <3>2 DEF ReadyAt
    <3> QED BY <2>a, <3>3
  <2> QED BY <1>b, <2>a, <2>2, <2>3
<1>4. ASSUME NEW frame \in Frames, Arrives(frame), NEW p \in 1..Len(arrived), ReadyAt(p)
      PROVE  Ready'
  <2>1. /\ arrived' = Append(arrived, frame)
        /\ UNCHANGED <<sincePong, polling, kept, read_select>>
    BY <1>4 DEF Arrives
  <2>2. p \in 1..Len(arrived') /\ arrived'[p] = arrived[p]
    BY <1>a, <2>1, AppendProperties
  <2>3. ReadIn(p)' = ReadIn(p)
    BY <2>1 DEF ReadIn, LockLeft
  <2>4. ReadyAt(p)'
    BY <1>4, <1>a, <2>1, <2>2, <2>3 DEF ReadyAt
  <2> QED BY <2>2, <2>4
<1>5. ASSUME PongArrives PROVE Coming' \/ Ready'
  <2>1. Arrives("PONG") /\ transit # <<>> /\ transit' = Tail(transit) /\ "PONG" \in Frames
    BY <1>5 DEF PongArrives, Frames
  <2>2. /\ arrived' = Append(arrived, "PONG") /\ Len(arrived) < MaxFrames
        /\ UNCHANGED <<alive, up, wait_for_pong_resp, sincePong, polling, kept, read_select>>
    BY <1>5, <2>1 DEF Arrives, PongArrives
  <2>3. CASE Coming
    <3>1. transit[1] \in 0..Answer
      <4>1. 1 \in 1..Len(transit)
        BY <1>a, <2>1
      <4> QED BY <1>a, <4>1, ElementOfSeq
    <3>2. PICK last \in 1..MaxFrames : last = Len(arrived) + 1
      BY <1>a, <2>2
    <3>3. last \in 1..Len(arrived') /\ arrived'[last] = "PONG"
      BY <1>a, <2>1, <2>2, <3>2, AppendProperties
    <3>4. ReadIn(last)' = ReadIn(last)
      BY <2>2 DEF ReadIn, LockLeft
    <3>5. ReadIn(last) \in Nat /\ ReadIn(last) <= ReadAll
      BY <3>2, ReadInBounded
    <3>6. sincePong + ReadIn(last) <= Answer + ReadAll
      BY <1>a, <2>3, <3>1, <3>5
    <3>7. ReadyAt(last)'
      BY <1>a, <2>2, <3>3, <3>4, <3>6 DEF ReadyAt
    <3> QED BY <3>3, <3>7
  <2> QED BY <1>4, <1>b, <2>1, <2>2, <2>3
<1>6. ASSUME TextArrives PROVE Coming' \/ Ready'
  <2>1. Arrives("TEXT") /\ transit' = transit /\ "TEXT" \in Frames
    BY <1>6 DEF TextArrives, Frames
  <2>2. UNCHANGED <<alive, up, wait_for_pong_resp, sincePong>>
    BY <1>6, <2>1 DEF Arrives, TextArrives
  <2> QED BY <1>4, <1>b, <2>1, <2>2
<1>7. ASSUME SenderLocks PROVE Coming' \/ Ready'
  <2>1. UNCHANGED <<alive, up, wait_for_pong_resp, sincePong, transit, arrived, polling, read_select>>
        /\ polling
    BY <1>7 DEF SenderLocks
  <2>2. \A p \in 1..Len(arrived) : ReadyAt(p) => ReadyAt(p)'
    BY <1>a, <2>1 DEF ReadyAt, ReadIn
  <2> QED BY <1>b, <2>1, <2>2
<1>8. ASSUME SenderUnlocks PROVE Coming' \/ Ready'
  <2>1. /\ UNCHANGED <<alive, up, wait_for_pong_resp, sincePong, transit, arrived, polling, read_select>>
        /\ kept' = 0
    BY <1>8 DEF SenderUnlocks
  <2>2. ASSUME NEW p \in 1..Len(arrived), ReadyAt(p) PROVE ReadyAt(p)'
    <3>1. ReadIn(p)' \in Nat /\ ReadIn(p)' <= ReadIn(p)
      BY <1>c, <2>1, ReadInFreed
    <3> QED BY <1>a, <1>c, <2>1, <2>2, <3>1 DEF ReadyAt
  <2> QED BY <1>b, <2>1, <2>2
<1>9. ASSUME ServerDies PROVE Coming' \/ Ready'
  BY <1>9 DEF ServerDies
<1>10. ASSUME UNCHANGED kaVars PROVE Coming' \/ Ready'
  <2>1. UNCHANGED <<alive, up, wait_for_pong_resp, sincePong, transit, arrived, polling, kept, read_select>>
    BY <1>10 DEF kaVars
  <2>2. \A p \in 1..Len(arrived) : ReadyAt(p) => ReadyAt(p)'
    BY <1>a, <2>1 DEF ReadyAt, ReadIn, LockLeft
  <2> QED BY <1>b, <2>1, <2>2
<1>11. Coming' \/ Ready'
  BY <1>1, <1>2, <1>3, <1>5, <1>6, <1>7, <1>8, <1>9, <1>10 DEF AliveNext
<1> QED BY <1>11, <1>a DEF ReadyAt

\* The time-out passes only when the PONG is later than the server is in any case.
LEMMA StaysStep ==
  ASSUME KeepAliveTypeOK, PongInv, ResponsiveServerStays, [AliveNext]_kaVars
  PROVE  ResponsiveServerStays'
PROOF
<1> SUFFICES ASSUME alive', Answer + ReadAll <= Timeout
             PROVE  up'
  BY DEF ResponsiveServerStays, ReadAll
<1>a. alive => up
  BY DEF ResponsiveServerStays, ReadAll
<1>1. ASSUME Turn PROVE up'
  <2>1. alive /\ up
    BY <1>1 DEF Turn
  <2>2. SUFFICES ASSUME PongAge(PingIsDue) > Timeout, WaitsForPong(PingIsDue) PROVE FALSE
    BY <1>1, Zenon DEF Turn
  <2>3. wait_for_pong_resp /\ sincePong > Timeout
    BY <2>2 DEF PongAge, WaitsForPong
  <2>4. CASE transit # <<>> /\ sincePong <= transit[1]
    <3>1. 1 \in 1..Len(transit)
      BY <2>4, TypeFacts
    <3>2. transit[1] \in 0..Answer
      BY <3>1, TypeFacts, ElementOfSeq
    <3> QED BY <2>3, <2>4, <3>2, TypeFacts, ReadAllIsNat
  <2>5. ASSUME NEW p \in 1..Len(arrived), sincePong + ReadIn(p) <= Answer + ReadAll PROVE FALSE
    <3>1. p \in 1..MaxFrames
      BY TypeFacts
    <3>2. ReadIn(p) \in Nat
      BY <3>1, ReadInBounded
    <3>3. sincePong \in Nat /\ ReadAll \in Nat
      BY TypeFacts, ReadAllIsNat
    <3> QED BY <2>3, <2>5, <3>2, <3>3
  <2> QED BY <2>1, <2>3, <2>4, <2>5 DEF PongInv
<1>2. ASSUME AliveNext, ~Turn PROVE UNCHANGED up /\ (alive' => alive)
  BY <1>2 DEF AliveNext, PollFinds, Tick, PongArrives, TextArrives, Arrives, SenderLocks,
     SenderUnlocks, ServerDies
<1>3. ASSUME UNCHANGED kaVars PROVE up'
  BY <1>3, <1>a DEF kaVars
<1> QED BY <1>a, <1>1, <1>2, <1>3

-----------------------------------------------------------------------------
(* The silence of a server that is not given up. *)

LEMMA PingSentIsNat ==
  PingSent = ReadAll + Interval + 1 + Hold /\ PingSent \in Nat /\ PingSent' = PingSent
PROOF BY ReadAllIsNat DEF PingSent

LEMMA LockLeftIsNat == KeepAliveTypeOK => LockLeft \in 0..Hold
PROOF BY DEF KeepAliveTypeOK, LockLeft

LEMMA NoLess == ASSUME NEW m \in Nat, NEW n \in Nat, m <= n, NEW c \in Nat PROVE m <= n + c
PROOF OBVIOUS

LEMMA SilenceTurn ==
  ASSUME KeepAliveTypeOK, SilenceInv, Turn, up', Timeout > 0
  PROVE  UnreadSilence' /\ QuietSilence' /\ WaitingSilence'
PROOF
<1>a. up /\ UnreadSilence /\ QuietSilence /\ WaitingSilence
  BY DEF Turn, SilenceInv
<1>b. /\ arrived \in Seq(Frames) /\ Len(arrived) \in Nat /\ Len(arrived) <= MaxFrames
      /\ sincePong \in Nat /\ sincePing \in Nat /\ silence \in Nat /\ read_select \in 0..1
      /\ ReadAll \in Nat /\ ReadAll' = ReadAll /\ PingSent \in Nat /\ PingSent' = PingSent
      /\ PingSent = ReadAll + Interval + 1 + Hold
  BY TypeFacts, ReadAllIsNat, PingSentIsNat
<1>c. /\ UNCHANGED <<read_select, kept, alive, silence>> /\ polling' /\ kept = 0
      /\ read_select = 1 => arrived # <<>> /\ arrived' = Tail(arrived) /\ sincePing' = 0
      /\ read_select = 0 => arrived' = arrived
  BY DEF Turn, KeepAliveTypeOK
<1>d. LockLeft = 0 /\ LockLeft' = 0
  BY <1>c DEF LockLeft
\* In a turn that is not the last the time-out has not passed.
<1>e. wait_for_pong_resp' => sincePong' <= Timeout
  <2>1. /\ sincePong' = PongAge(PingIsDue)
        /\ ~(PongAge(PingIsDue) > Timeout /\ WaitsForPong(PingIsDue))
        /\ wait_for_pong_resp' => WaitsForPong(PingIsDue)
    BY Zenon DEF Turn
  <2>2. PongAge(PingIsDue) \in Nat
    BY <1>b DEF PongAge
  <2> QED BY <2>1, <2>2
<1>f. sincePong' = PongAge(PingIsDue)
  BY DEF Turn
<1>1. CASE arrived' # <<>>
  <2>1. CASE read_select = 0
    <3>1. Len(arrived) \in 1..MaxFrames
      BY <1>1, <1>b, <1>c, <2>1
    <3>2. ReadIn(Len(arrived))' = ReadIn(Len(arrived))
      BY <1>c, <2>1, <3>1 DEF ReadIn, LockLeft
    <3> QED BY <1>1, <1>a, <1>b, <1>c, <2>1, <3>2 DEF UnreadSilence, QuietSilence, WaitingSilence
  <2>2. CASE read_select = 1
    <3>1. PICK last \in 1..MaxFrames : last = Len(arrived)
      BY <1>b, <1>c, <2>2
    <3>2. Len(arrived') = last - 1 /\ last > 1
      BY <1>1, <1>b, <1>c, <2>2, <3>1, HeadTailProperties
    <3>3. ReadIn(last - 1)' = ReadIn(last)
      BY <1>c, <2>2, <3>2, ReadInTurn
    <3>4. silence + ReadIn(last) <= ReadAll
      BY <1>a, <1>c, <2>2, <3>1 DEF UnreadSilence
    <3> QED BY <1>1, <1>b, <1>c, <3>2, <3>3, <3>4 DEF UnreadSilence, QuietSilence, WaitingSilence
  <2> QED BY <1>b, <2>1, <2>2
<1>2. CASE arrived' = <<>> /\ read_select = 1
  <2>1. PICK last \in 1..MaxFrames : last = Len(arrived)
    BY <1>b, <1>c, <1>2
  <2>2. last = 1
    <3>1. Len(arrived') = last - 1
      BY <1>b, <1>c, <1>2, <2>1, HeadTailProperties
    <3>2. Len(arrived') = 0
      BY <1>2
    <3> QED BY <3>1, <3>2
  <2>3. ReadIn(1) = 0
    BY <1>c, <1>2, <2>1, ReadInTurn
  <2>4. silence <= ReadAll
    BY <1>a, <1>b, <1>c, <1>2, <2>1, <2>2, <2>3 DEF UnreadSilence
  <2>5. sincePong' \in Nat /\ sincePing' = 0 /\ silence' = silence
    <3>1. PongAge(PingIsDue) \in Nat
      BY <1>b DEF PongAge
    <3> QED BY <1>c, <1>f, <1>2, <3>1
  <2>6. silence' <= ReadAll + 0
    BY <1>b, <2>4, <2>5
  <2>7. silence' <= PingSent + sincePong'
    <3>1. silence <= PingSent
      BY <1>b, <2>4
    <3>2. silence' <= PingSent /\ silence' \in Nat /\ PingSent \in Nat /\ sincePong' \in Nat
      BY <1>b, <2>5, <3>1
    <3> QED BY <3>2, NoLess
  <2>8. QuietSilence'
    BY <1>b, <2>5, <2>6 DEF QuietSilence
  <2>9. WaitingSilence'
    BY <1>b, <1>e, <2>7 DEF WaitingSilence
  <2> QED BY <1>2, <2>8, <2>9 DEF UnreadSilence
<1>3. CASE arrived' = <<>> /\ read_select = 0
  <2>1. arrived = <<>> /\ silence' = silence
    BY <1>c, <1>3
  <2>2. CASE wait_for_pong_resp
    <3>1. sincePong' = sincePong /\ wait_for_pong_resp'
      BY <1>3, <2>2 DEF Turn, PongAge, WaitsForPong
    <3> QED BY <1>3, <1>a, <1>b, <1>e, <2>1, <2>2, <3>1
            DEF UnreadSilence, QuietSilence, WaitingSilence
  <2>3. CASE ~wait_for_pong_resp /\ PingIsDue
    <3>1. sincePong' = 0 /\ wait_for_pong_resp'
      BY <1>3, <2>3 DEF Turn, PongAge, WaitsForPong
    <3>2. silence <= PingSent
      BY <1>a, <1>b, <1>d, <2>1, <2>3 DEF QuietSilence, PingIsDue
    <3> QED BY <1>3, <1>b, <2>1, <3>1, <3>2 DEF UnreadSilence, QuietSilence, WaitingSilence
  <2>4. CASE ~wait_for_pong_resp /\ ~PingIsDue
    <3>1. sincePing' = sincePing
      BY <1>3, <1>b, <2>4 DEF Turn
    <3>2. ~wait_for_pong_resp'
      BY <2>4, Zenon DEF Turn, WaitsForPong
    <3>3. sincePing <= Interval
      BY <1>b, <2>4 DEF PingIsDue
    <3> QED BY <1>3, <1>a, <1>b, <2>1, <2>4, <3>1, <3>2, <3>3 DEF UnreadSilence, QuietSilence, WaitingSilence
  <2> QED BY <2>2, <2>3, <2>4
<1> QED BY <1>1, <1>2, <1>3, <1>b

\* A second of silence, while the time that is left counts down, while a clock counts
\* up, and when a clock runs out and a sender has just got the lock.
LEMMA CountsDown ==
  ASSUME NEW s \in Nat, NEW t \in Nat, t <= s + 1, NEW k \in Nat, NEW m \in Nat, s + (k + 1) <= m
  PROVE  t + k <= m
PROOF OBVIOUS

LEMMA CountsUp ==
  ASSUME NEW s \in Nat, NEW t \in Nat, t <= s + 1, NEW c \in Nat, NEW m \in Nat, s <= m + c
  PROVE  t <= m + (c + 1)
PROOF OBVIOUS

LEMMA RunsOut ==
  ASSUME NEW s \in Nat, NEW t \in Nat, t <= s + 1, NEW c \in Nat, NEW m \in Nat, s <= m + c,
         NEW n \in Nat, c <= n, NEW k \in Nat, NEW h \in Nat, k <= h
  PROVE  t + k <= m + n + 1 + h
PROOF OBVIOUS

LEMMA SilenceTick ==
  ASSUME KeepAliveTypeOK, PollInv, SilenceInv, Tick, Timeout > 0
  PROVE  UnreadSilence' /\ QuietSilence' /\ WaitingSilence'
PROOF
<1>a. UnreadSilence /\ QuietSilence /\ WaitingSilence
  BY DEF Tick, SilenceInv
<1>b. /\ arrived \in Seq(Frames) /\ Len(arrived) \in Nat /\ Len(arrived) <= MaxFrames
      /\ sincePong \in 0..(Timeout + 1) /\ sincePing \in 0..(Interval + 1)
      /\ silence \in 0..Longest /\ Longest \in Nat
      /\ ReadAll \in Nat /\ ReadAll' = ReadAll /\ PingSent \in Nat /\ PingSent' = PingSent
      /\ PingSent = ReadAll + Interval + 1 + Hold
  BY TypeFacts, ReadAllIsNat, PingSentIsNat, LongestIsNat
<1>c. /\ UNCHANGED <<up, wait_for_pong_resp, arrived>> /\ up
      /\ sincePing' = Capped(sincePing, Interval + 1)
      /\ sincePong' = Capped(sincePong, Timeout + 1)
      /\ silence' = Capped(silence, Longest)
      /\ polling => arrived = <<>>
  BY DEF Tick
<1>d. silence \in Nat /\ silence' \in Nat /\ silence' <= silence + 1
  BY <1>b, <1>c, ClockRuns
<1>e. /\ LockLeft \in 0..Hold /\ LockLeft' \in 0..Hold
      /\ ~polling => LockLeft = LockLeft' + 1
  <2>1. LockLeft \in 0..Hold
    BY LockLeftIsNat
  <2>2. /\ kept \in 0..Hold /\ Hold \in Nat /\ kept' = IF kept > 0 THEN kept + 1 ELSE 0
        /\ polling \/ kept > 0
    BY DEF Tick, KeepAliveTypeOK
  <2>3. LockLeft' \in 0..Hold
    BY <2>2 DEF LockLeft
  <2>4. ASSUME ~polling PROVE LockLeft = LockLeft' + 1
    BY <2>2, <2>4 DEF LockLeft
  <2> QED BY <2>1, <2>3, <2>4
<1>f. /\ ReadAll \in Nat /\ PingSent = ReadAll + Interval + 1 + Hold /\ sincePing \in Nat
      /\ PingSent \in Nat /\ PingSent + Timeout + 1 + Hold \in Nat
      /\ sincePong \in Nat /\ LockLeft \in Nat /\ LockLeft' \in Nat /\ LockLeft' <= Hold
  BY <1>e, TypeFacts, ReadAllIsNat, PingSentIsNat
<1>1. UnreadSilence'
  <2> SUFFICES ASSUME arrived # <<>> PROVE silence' + ReadIn(Len(arrived))' <= ReadAll
    BY <1>b, <1>c DEF UnreadSilence
  <2>1. PICK last \in 1..MaxFrames : last = Len(arrived)
    BY <1>b
  <2>2. ReadIn(last)' \in Nat /\ ReadIn(last) = ReadIn(last)' + 1
    BY <1>c, ReadInTicks
  <2>3. ReadIn(Len(arrived))' = ReadIn(last)'
    BY <1>c, <2>1 DEF ReadIn
  <2>4. silence + ReadIn(last) <= ReadAll
    BY <1>a, <2>1 DEF UnreadSilence
  <2>5. silence' + ReadIn(last)' <= ReadAll
    BY <1>d, <1>f, <2>2, <2>4, CountsDown
  <2> QED BY <2>3, <2>5
<1>2. QuietSilence'
  <2> SUFFICES ASSUME arrived = <<>>, ~wait_for_pong_resp
               PROVE  IF sincePing' <= Interval THEN silence' <= ReadAll + sincePing'
                                                ELSE silence' + LockLeft' <= PingSent
    BY <1>b, <1>c DEF QuietSilence
  <2>1. CASE sincePing <= Interval
    <3>1. sincePing' = sincePing + 1
      BY <1>b, <1>c, <2>1 DEF Capped
    <3>2. silence <= ReadAll + sincePing
      BY <1>a, <2>1 DEF QuietSilence
    <3>3. silence' <= ReadAll + (sincePing + 1)
      BY <1>d, <1>f, <3>2, CountsUp
    <3>4. silence' + LockLeft' <= ReadAll + Interval + 1 + Hold
      BY <1>d, <1>f, <2>1, <3>2, RunsOut
    <3> QED BY <1>f, <3>1, <3>3, <3>4
  <2>2. CASE sincePing > Interval
    <3>1. sincePing' = Interval + 1
      BY <1>b, <1>c, <2>2 DEF Capped
    <3>2. silence + LockLeft <= PingSent
      BY <1>a, <1>b, <2>2 DEF QuietSilence
    <3>3. ~polling
      BY <1>b, <1>c, <2>2 DEF PollInv
    <3>4. silence' + LockLeft' <= PingSent
      <4>1. LockLeft = LockLeft' + 1
        BY <1>e, <3>3
      <4>2. silence + (LockLeft' + 1) <= PingSent
        BY <3>2, <4>1
      <4>3. LockLeft' \in Nat /\ PingSent \in Nat
        BY <1>f
      <4> QED BY <1>d, <4>2, <4>3, CountsDown
    <3> QED BY <3>1, <3>4
  <2> QED BY <1>b, <2>1, <2>2
<1>3. WaitingSilence'
  <2> SUFFICES ASSUME arrived = <<>>, wait_for_pong_resp
               PROVE  IF sincePong' <= Timeout
                        THEN silence' <= PingSent + sincePong'
                        ELSE silence' + LockLeft' <= PingSent + Timeout + 1 + Hold
    BY <1>b, <1>c DEF WaitingSilence
  <2>1. CASE sincePong <= Timeout
    <3>1. sincePong' = sincePong + 1
      BY <1>b, <1>c, <2>1 DEF Capped
    <3>2. silence <= PingSent + sincePong
      BY <1>a, <2>1 DEF WaitingSilence
    <3>3. silence' <= PingSent + (sincePong + 1)
      BY <1>d, <1>f, <3>2, CountsUp
    <3>4. silence' + LockLeft' <= PingSent + Timeout + 1 + Hold
      BY <1>d, <1>f, <2>1, <3>2, RunsOut
    <3> QED BY <1>f, <3>1, <3>3, <3>4
  <2>2. CASE sincePong > Timeout
    <3>1. sincePong' = Timeout + 1
      BY <1>b, <1>c, <2>2 DEF Capped
    <3>2. silence + LockLeft <= PingSent + Timeout + 1 + Hold
      BY <1>a, <1>b, <2>2 DEF WaitingSilence
    <3>3. ~polling
      BY <1>b, <1>c, <2>2 DEF PollInv
    <3>4. silence' + LockLeft' <= PingSent + Timeout + 1 + Hold
      <4>1. LockLeft = LockLeft' + 1
        BY <1>e, <3>3
      <4>2. silence + (LockLeft' + 1) <= PingSent + Timeout + 1 + Hold
        BY <3>2, <4>1
      <4>3. LockLeft' \in Nat /\ PingSent + Timeout + 1 + Hold \in Nat
        BY <1>f
      <4> QED BY <1>d, <4>2, <4>3, CountsDown
    <3> QED BY <3>1, <3>4
  <2> QED BY <1>b, <2>1, <2>2
<1> QED BY <1>1, <1>2, <1>3

LEMMA SilenceStep ==
  ASSUME KeepAliveTypeOK, LockInv, PollInv, SilenceInv, [AliveNext]_kaVars
  PROVE  SilenceInv'
PROOF
<1> SUFFICES ASSUME up', Timeout > 0 PROVE UnreadSilence' /\ QuietSilence' /\ WaitingSilence'
  BY DEF SilenceInv
<1>a. up => UnreadSilence /\ QuietSilence /\ WaitingSilence
  BY DEF SilenceInv
<1>b. /\ arrived \in Seq(Frames) /\ Len(arrived) \in Nat /\ Len(arrived) <= MaxFrames
      /\ silence \in Nat /\ ReadAll \in Nat /\ ReadAll' = ReadAll /\ PingSent \in Nat
      /\ PingSent' = PingSent
  BY TypeFacts, ReadAllIsNat, PingSentIsNat
<1>c. arrived # <<>> => Len(arrived) \in 1..MaxFrames
  BY <1>b
<1>1. CASE Turn
  BY <1>1, SilenceTurn
<1>2. CASE PollFinds
  <2>1. UNCHANGED <<up, wait_for_pong_resp, arrived, silence>> /\ arrived # <<>> /\ up
    BY <1>2 DEF PollFinds
  <2>2. PICK last \in 1..MaxFrames : last = Len(arrived)
    BY <1>c, <2>1
  <2>3. ReadIn(last)' \in Nat /\ ReadIn(last)' <= ReadIn(last) /\ ReadIn(last) \in Nat
    BY <1>2, ReadInFound, ReadInBounded
  <2>4. ReadIn(Len(arrived))' = ReadIn(last)'
    BY <2>1, <2>2 DEF ReadIn
  <2> QED BY <1>a, <1>b, <2>1, <2>2, <2>3, <2>4 DEF UnreadSilence, QuietSilence, WaitingSilence
<1>3. CASE Tick
  BY <1>3, SilenceTick
<1>4. ASSUME NEW frame \in Frames, Arrives(frame)
      PROVE  UnreadSilence' /\ QuietSilence' /\ WaitingSilence'
  <2>1. /\ arrived' = Append(arrived, frame) /\ Len(arrived) < MaxFrames /\ silence' = 0
        /\ UNCHANGED <<polling, kept, read_select>>
    BY <1>4 DEF Arrives
  <2>2. PICK last \in 1..MaxFrames : last = Len(arrived) + 1
    BY <1>b, <2>1
  <2>3. arrived' # <<>> /\ Len(arrived') = last
    BY <1>b, <2>1, <2>2, AppendProperties
  <2>4. ReadIn(last) \in Nat /\ ReadIn(last) <= ReadAll
    BY ReadInBounded
  <2>5. ReadIn(Len(arrived))' = ReadIn(last)
    BY <2>1, <2>3 DEF ReadIn, LockLeft
  <2> QED BY <1>b, <2>1, <2>3, <2>4, <2>5 DEF UnreadSilence, QuietSilence, WaitingSilence
<1>5. CASE PongArrives
  BY <1>4, <1>5 DEF PongArrives, Frames
<1>6. CASE TextArrives
  BY <1>4, <1>6 DEF TextArrives, Frames
<1>7. CASE SenderLocks
  <2>1. /\ UNCHANGED <<sincePing, sincePong, wait_for_pong_resp, arrived, silence, polling,
                       read_select>>
        /\ polling /\ up
    BY <1>7 DEF SenderLocks
  <2>2. sincePing <= Interval /\ (wait_for_pong_resp => sincePong <= Timeout)
    BY <2>1 DEF PollInv
  <2>3. ReadIn(Len(arrived))' = ReadIn(Len(arrived))
    BY <2>1 DEF ReadIn
  <2> QED BY <1>a, <1>b, <2>1, <2>2, <2>3 DEF UnreadSilence, QuietSilence, WaitingSilence
<1>8. CASE SenderUnlocks
  <2>1. /\ UNCHANGED <<up, sincePing, sincePong, wait_for_pong_resp, arrived, silence, polling,
                       read_select>>
        /\ kept' = 0
    BY <1>8 DEF SenderUnlocks
  <2>2. UnreadSilence'
    <3> SUFFICES ASSUME arrived # <<>> PROVE silence + ReadIn(Len(arrived))' <= ReadAll
      BY <1>b, <2>1 DEF UnreadSilence
    <3>1. PICK last \in 1..MaxFrames : last = Len(arrived)
      BY <1>c
    <3>2. ReadIn(last)' \in Nat /\ ReadIn(last)' <= ReadIn(last) /\ ReadIn(last) \in Nat
      BY <2>1, ReadInFreed, ReadInBounded
    <3>3. ReadIn(Len(arrived))' = ReadIn(last)'
      BY <2>1, <3>1 DEF ReadIn
    <3> QED BY <1>a, <1>b, <2>1, <3>1, <3>2, <3>3 DEF UnreadSilence
  <2>3. LockLeft' = 0 /\ LockLeft \in 0..Hold
    BY <2>1, LockLeftIsNat DEF LockLeft
  <2>4. QuietSilence' /\ WaitingSilence'
    BY <1>a, <1>b, <2>1, <2>3 DEF QuietSilence, WaitingSilence
  <2> QED BY <2>2, <2>4
<1>9. CASE ServerDies \/ UNCHANGED kaVars
  <2>1. UNCHANGED <<up, sincePing, sincePong, wait_for_pong_resp, arrived, silence, polling,
                    read_select, kept>>
    BY <1>9 DEF ServerDies, kaVars
  <2> QED BY <1>a, <1>b, <2>1
          DEF UnreadSilence, QuietSilence, WaitingSilence, ReadIn, LockLeft
<1> QED BY <1>1, <1>2, <1>3, <1>5, <1>6, <1>7, <1>8, <1>9 DEF AliveNext

-----------------------------------------------------------------------------
\* The types of the clocks and of the frames between the client and the server, and a
\* frame to be read wherever the poll has found one.
THEOREM AliveTypeCorrect == AliveSpec => []KeepAliveTypeOK
PROOF
<1>1. AliveInit => AliveInv
  BY AliveInitial
<1>2. AliveInv /\ [AliveNext]_kaVars => AliveInv'
  BY TypeStep, PongStep, SilenceStep, StaysStep DEF AliveInv
<1>3. AliveInv => KeepAliveTypeOK
  BY DEF AliveInv
<1> QED BY <1>1, <1>2, <1>3, PTL DEF AliveSpec

\* What is said of the silence gives the longest one: the frames that are left, the
\* interval, the time-out, and a sender before the PING and one at the end.
LEMMA SilenceBound == AliveInv => SilenceIsBounded
PROOF
<1> SUFFICES ASSUME AliveInv, up, Timeout > 0
             PROVE  silence <= Interval + Timeout + 2 + (ReadAll + Hold + Hold)
  <2>1. (MaxFrames + 3) * Hold = ReadAll + Hold + Hold
    BY DEF ReadAll
  <2> QED BY <2>1 DEF SilenceIsBounded
<1>1. /\ KeepAliveTypeOK /\ UnreadSilence /\ QuietSilence /\ WaitingSilence
  BY DEF AliveInv, SilenceInv
<1>2. /\ ReadAll \in Nat /\ PingSent = ReadAll + Interval + 1 + Hold /\ LockLeft \in 0..Hold
      /\ silence \in Nat /\ sincePing \in Nat /\ sincePong \in Nat
  BY <1>1, ReadAllIsNat, PingSentIsNat, LockLeftIsNat, TypeFacts
<1>3. CASE arrived # <<>>
  <2>1. ReadIn(Len(arrived)) \in Nat
    <3>1. Len(arrived) \in 1..MaxFrames
      BY <1>1, <1>3, TypeFacts
    <3> QED BY <1>1, <3>1, ReadInBounded
  <2>2. silence + ReadIn(Len(arrived)) <= ReadAll
    BY <1>1, <1>3 DEF UnreadSilence
  <2> QED BY <1>2, <2>1, <2>2
<1>4. CASE arrived = <<>> /\ ~wait_for_pong_resp
  BY <1>1, <1>2, <1>4 DEF QuietSilence
<1>5. CASE arrived = <<>> /\ wait_for_pong_resp
  BY <1>1, <1>2, <1>5 DEF WaitingSilence
<1> QED BY <1>3, <1>4, <1>5

\* A connection is given up because of the server's silence and only because of it: a
\* server that answers in time is never left, whatever the senders do with the lock,
\* and one that is silent is left in bounded time.
THEOREM OnlySilence == AliveSpec => []OnlySilenceEndsIt
PROOF
<1>1. AliveInit => AliveInv
  BY AliveInitial
<1>2. AliveInv /\ [AliveNext]_kaVars => AliveInv'
  BY TypeStep, PongStep, SilenceStep, StaysStep DEF AliveInv
<1>3. AliveInv => OnlySilenceEndsIt
  BY SilenceBound DEF AliveInv, OnlySilenceEndsIt
<1> QED BY <1>1, <1>2, <1>3, PTL DEF AliveSpec

-----------------------------------------------------------------------------
(* ClientConfig: the blocks of the WebSocket client. *)

\* The step that takes the host of the configuration, and the one before the strings.
HostStep == 12
ConfigStep == 5

\* A pointer has its block, and besides these there is only what is lost: the host
\* once the second one was taken or not found, the user information with the client.
Over == {"destroyed", "asserted"}
LostSoFar(n) ==
  /\ Lost(n)
  /\ n = "host" => phase # "init" \/ step > HostStep
  /\ n = "user_info" => phase \in Over
OwnedInv ==
  \A n \in Names :
    /\ n \in held => blocks[n] >= 1
    /\ blocks[n] <= (IF n \in held THEN 1 ELSE 0) + (IF LostSoFar(n) THEN 1 ELSE 0)

\* While the client is made, a pointer is there by a step that is done.
MadeInv ==
  phase = "init" =>
    /\ step <= Len(InitSteps) /\ Needed(InitSteps[step])
    /\ \A n \in held : \E i \in 1..(step - 1) : Needed(InitSteps[i]) /\ InitSteps[i].name = n

\* No string without the configuration that a destroy frees it by.
StringsInv ==
  /\ held \cap Strings # {} \/ phase = "ready" => "config" \in held
  /\ phase = "init" /\ step > ConfigStep => "config" \in held

\* What a destroy leaves is lost.
EndInv ==
  /\ phase \in Over => held = {}
  /\ "user_info" \in held => Lost("user_info")

ConfigInv == ConfigTypeOK /\ OwnedInv /\ MadeInv /\ StringsInv /\ EndInv

LEMMA StepsAre ==
  /\ Len(InitSteps) = 24
  /\ InitSteps[1] = Alloc("client", "kept", "always")
  /\ InitSteps[2] = Alloc("event_handle", "kept", "always")
  /\ InitSteps[3] = Alloc("if_name", "kept", "config")
  /\ InitSteps[4] = Alloc("lock", "kept", "always")
  /\ InitSteps[5] = Alloc("config", "kept", "always")
  /\ InitSteps[6] = Alloc("scheme", "freed", "uri")
  /\ InitSteps[7] = Alloc("host", "freed", "uri")
  /\ InitSteps[8] = Alloc("path", "freed", "uri")
  /\ InitSteps[9] = Alloc("user_info", "kept", "userinfo")
  /\ InitSteps[10] = Alloc("password", "freed", "userinfo")
  /\ InitSteps[11] = Alloc("username", "freed", "userinfo")
  /\ InitSteps[12] = Alloc("host", "kept", "config")
  /\ InitSteps[13] = Alloc("username", "freed", "config")
  /\ InitSteps[14] = Alloc("password", "freed", "config")
  /\ InitSteps[15] = Alloc("auth", "freed", "credentials")
  /\ InitSteps[16] = Alloc("uri", "freed", "config")
  /\ InitSteps[17] = Alloc("path", "freed", "config")
  /\ InitSteps[18] = Alloc("subprotocol", "freed", "config")
  /\ InitSteps[19] = Alloc("user_agent", "freed", "config")
  /\ InitSteps[20] = Alloc("headers", "freed", "config")
  /\ InitSteps[21] = Alloc("scheme", "kept", "no_scheme")
  /\ InitSteps[22] = Alloc("rx_buffer", "kept", "always")
  /\ InitSteps[23] = Alloc("tx_buffer", "kept", "always")
  /\ InitSteps[24] = Alloc("status_bits", "kept", "always")
BY DEF InitSteps, UriSteps, ConfigSteps

\* What is taken a second time was freed, but for a host that is lost: the scheme of
\* the URI and the one that is taken without it exclude each other.
LEMMA TakenOnce ==
  ASSUME NEW k \in 1..24, NEW i \in 1..(k - 1), Needed(InitSteps[k]), Needed(InitSteps[i]),
         InitSteps[i].name = InitSteps[k].name, InitSteps[k].old = "kept"
  PROVE  k = HostStep /\ Lost("host")
<1>1. k \in {1, 2, 3, 4, 5, 9, 12, 21, 22, 23, 24}
  BY StepsAre DEF Alloc
<1>2. CASE k = 12
  <2>1. i = 7 BY <1>2, StepsAre DEF Alloc
  <2>2. InUri("host") /\ InConfig("host") BY <1>2, <2>1, StepsAre DEF Alloc, Needed
  <2> QED BY <1>2, <2>2 DEF HostStep, Lost
<1>3. CASE k = 21
  <2>1. i = 6 BY <1>3, StepsAre DEF Alloc
  <2> QED BY <1>3, <2>1, StepsAre DEF Alloc, Needed
<1>4. CASE k \in {1, 2, 3, 4, 5, 9}
  BY <1>4, StepsAre DEF Alloc
<1>5. CASE k \in {22, 23, 24}
  BY <1>5, StepsAre DEF Alloc
<1> QED BY <1>1, <1>2, <1>3, <1>4, <1>5

LEMMA StepFacts ==
  ASSUME NEW k \in 1..24
  PROVE  /\ InitSteps[k].name \in Names \ Transports
         /\ InitSteps[k].name = "client" <=> k = 1
         /\ InitSteps[k].name = "event_handle" <=> k = 2
         /\ InitSteps[k].name = "config" <=> k = ConfigStep
         /\ InitSteps[k].name = "host" <=> k \in {7, HostStep}
         /\ InitSteps[k].name = "user_info" <=> k = 9
         /\ InitSteps[k].name \in Strings \cup {"user_info"} => k > ConfigStep
BY StepsAre DEF Alloc, Names, Strings, Handles, Transports, ConfigStep, HostStep
LEMMA StepOld ==
  ASSUME NEW k \in 1..24
  PROVE  /\ InitSteps[k].old \in {"freed", "kept"}
         /\ k \in {9, HostStep} => InitSteps[k].old = "kept"
         /\ k = 7 => InitSteps[k].old = "freed"
BY StepsAre DEF Alloc, HostStep

LEMMA LostIsBoolean == \A n : Lost(n) \/ ~Lost(n)
OBVIOUS

\* One name, whatever its block was: what a free and an allocation leave.
LEMMA OneBlock ==
  ASSUME NEW b \in Nat, NEW l \in 0..1, NEW m \in 0..1
  PROVE  /\ b >= 1 /\ b <= 1 + l /\ l <= m => (b - 1) + 1 >= 1 /\ (b - 1) + 1 <= 1 + m /\ (b - 1) + 1 \in Nat
         /\ b <= 0 + l /\ l <= m => b + 1 >= 1 /\ b + 1 <= 1 + m /\ b + 1 \in Nat
         /\ b <= 1 + l /\ l = 0 /\ m = 1 => b + 1 >= 1 /\ b + 1 <= 1 + m /\ b + 1 \in Nat
OBVIOUS

LEMMA Later ==
  ASSUME NEW a \in 1..24, NEW b \in (a + 1)..25
  PROVE  /\ a \in 1..(b - 1) /\ \A i \in 1..(a - 1) : i \in 1..(b - 1)
         /\ a < 5 /\ 5 < b => 5 \in (a + 1)..(b - 1)
         /\ a < 24 /\ 24 < b => 24 \in (a + 1)..(b - 1)
         /\ ~(5 < b) => b <= 5
         /\ ~(24 < b) => b <= 24
OBVIOUS

LEMMA ConfigInitial == ConfigInit => ConfigInv
<1> SUFFICES ASSUME ConfigInit PROVE ConfigInv OBVIOUS
<1> USE DEF ConfigInit
<1>1. ConfigTypeOK BY BoundsAssumption, StepsAre DEF ConfigTypeOK
<1>2. OwnedInv BY DEF OwnedInv
<1>3. MadeInv BY StepsAre DEF MadeInv, Needed, Alloc
<1>4. StringsInv BY DEF StringsInv, ConfigStep
<1>5. EndInv BY DEF EndInv
<1> QED BY <1>1, <1>2, <1>3, <1>4, <1>5 DEF ConfigInv

LEMMA AllocateStep == ConfigInv /\ Allocate => ConfigInv'
<1> SUFFICES ASSUME ConfigInv, Allocate PROVE ConfigInv' OBVIOUS
<1> DEFINE s == InitSteps[step]
           h == IF s.name = "username" THEN held \ {"user_info"} ELSE held
           b == IF s.name = "username" /\ "user_info" \in held
                THEN [blocks EXCEPT !["user_info"] = 0] ELSE blocks
           later == step'
<1>1. /\ phase = "init" /\ step \in 1..24 /\ Take(b, h, s)
      /\ phase' = IF step = 24 THEN "ready" ELSE "init"
      /\ step' \in (step + 1)..25 /\ (step' <= 24 => Needed(InitSteps[step']))
      /\ UNCHANGED <<starts, headers>>
  BY StepsAre DEF Allocate, ConfigInv, ConfigTypeOK
<1>17. (step < ConfigStep => step' <= ConfigStep) /\ (step < 24 => step' <= 24)
  <2>1. \A i \in (step + 1)..(step' - 1) : ~Needed(InitSteps[i]) BY DEF Allocate
  <2>2. Needed(InitSteps[5]) /\ Needed(InitSteps[24]) BY StepsAre DEF Alloc, Needed
  <2>3. ASSUME step < 5, 5 < step' PROVE FALSE
    <3>1. 5 \in (step + 1)..(step' - 1) BY <1>1, <2>3, Later
    <3> QED BY <2>1, <2>2, <3>1
  <2>4. ASSUME step < 24, 24 < step' PROVE FALSE
    <3>1. 24 \in (step + 1)..(step' - 1) BY <1>1, <2>4, Later
    <3> QED BY <2>1, <2>2, <3>1
  <2> QED BY <1>1, <2>3, <2>4, Later DEF ConfigStep
<1>2. s.name \in Names /\ s.name \notin Transports /\ s.old \in {"freed", "kept"}
  BY <1>1, StepFacts, StepOld
<1>3. Needed(s) /\ \A n \in held : \E i \in 1..(step - 1) : Needed(InitSteps[i]) /\ InitSteps[i].name = n
  BY <1>1 DEF ConfigInv, MadeInv
<1>4. s.old = "kept" /\ s.name \in held => step = HostStep /\ Lost("host") /\ s.name = "host"
  <2> SUFFICES ASSUME s.old = "kept", s.name \in held
               PROVE  step = HostStep /\ Lost("host") /\ s.name = "host"
    OBVIOUS
  <2>1. PICK i \in 1..(step - 1) : Needed(InitSteps[i]) /\ InitSteps[i].name = s.name
    BY <1>3
  <2>2. step = HostStep /\ Lost("host")
    BY <2>1, <1>1, <1>3, TakenOnce
  <2> QED BY <2>2, <1>1, StepFacts DEF HostStep
<1>5. \A n \in Names : /\ blocks[n] \in Nat
                       /\ n \in held => blocks[n] >= 1
                       /\ blocks[n] <= (IF n \in held THEN 1 ELSE 0) + (IF LostSoFar(n) THEN 1 ELSE 0)
  BY DEF ConfigInv, ConfigTypeOK, OwnedInv
<1>6. b \in [Names -> Nat] /\ h \subseteq held /\ "user_info" \in Names
  BY DEF ConfigInv, ConfigTypeOK, Names
<1>7. \A n \in Names : /\ b[n] \in Nat
                       /\ n \in h => b[n] >= 1
                       /\ b[n] <= (IF n \in h THEN 1 ELSE 0) + (IF LostSoFar(n) THEN 1 ELSE 0)
  BY <1>5, <1>6 DEF ConfigInv, ConfigTypeOK
<1>8. /\ blocks' = [b EXCEPT ![s.name] = (IF s.old = "freed" /\ s.name \in h THEN @ - 1 ELSE @) + 1]
      /\ held' = h \cup {s.name}
  BY <1>1 DEF Take
<1>9. \A n \in Names : LostSoFar(n) => LostSoFar(n)'
  BY <1>1 DEF LostSoFar, Lost, HostStep, Over
<1>10. step = HostStep /\ Lost("host") => LostSoFar("host")' /\ ~LostSoFar("host")
  BY <1>1 DEF LostSoFar, Lost, HostStep
<1> HIDE DEF s, h, b
<1>11. ASSUME NEW n \in Names, n = s.name
       PROVE  /\ n \in held' /\ blocks'[n] >= 1 /\ blocks'[n] \in Nat
              /\ blocks'[n] <= 1 + (IF LostSoFar(n)' THEN 1 ELSE 0)
  <2> DEFINE l == IF LostSoFar(n) THEN 1 ELSE 0
             m == IF LostSoFar(n)' THEN 1 ELSE 0
  <2>1. l \in 0..1 /\ m \in 0..1 /\ l <= m BY <1>9
  <2>2. b[n] \in Nat /\ (n \in h => b[n] >= 1) /\ b[n] <= (IF n \in h THEN 1 ELSE 0) + l
    BY <1>7
  <2>3. step = HostStep /\ Lost("host") /\ n = "host" => l = 0 /\ m = 1 BY <1>10
  <2>4. blocks'[n] = (IF s.old = "freed" /\ s.name \in h THEN b[n] - 1 ELSE b[n]) + 1
    BY <1>6, <1>8, <1>11
  <2> HIDE DEF l, m
  <2>8. n \in held' BY <1>8, <1>11
  <2>5. CASE s.old = "freed" /\ n \in h
    <3>1. blocks'[n] = (b[n] - 1) + 1 BY <2>4, <2>5, <1>11
    <3>2. b[n] \in Nat /\ b[n] >= 1 /\ b[n] <= 1 + l BY <2>2, <2>5
    <3> QED BY <2>1, <2>8, <3>1, <3>2, OneBlock DEF m
  <2>6. CASE n \notin h
    <3>1. blocks'[n] = b[n] + 1 BY <2>4, <2>6, <1>11
    <3>2. b[n] \in Nat /\ b[n] <= 0 + l BY <2>2, <2>6
    <3> QED BY <2>1, <2>8, <3>1, <3>2, OneBlock DEF m
  <2>7. CASE s.old = "kept" /\ n \in h
    <3>1. l = 0 /\ m = 1 BY <1>4, <1>6, <1>11, <2>3, <2>7
    <3> QED BY <2>2, <2>4, <2>7, <3>1, <1>8, <1>11 DEF m
  <2> QED BY <1>2, <2>5, <2>6, <2>7, <1>11 DEF m
<1>12. ASSUME NEW n \in Names, n # s.name
       PROVE  /\ n \in held' <=> n \in h
              /\ blocks'[n] = b[n]
  BY <1>6, <1>8, <1>12
<1>13. OwnedInv'
  <2> SUFFICES ASSUME NEW n \in Names
               PROVE  /\ n \in held' => blocks'[n] >= 1
                      /\ blocks'[n] <= (IF n \in held' THEN 1 ELSE 0) + (IF LostSoFar(n)' THEN 1 ELSE 0)
    BY DEF OwnedInv
  <2>1. CASE n = s.name BY <2>1, <1>11
  <2>2. CASE n # s.name BY <2>2, <1>7, <1>9, <1>12
  <2> QED BY <2>1, <2>2
<1>14. ConfigTypeOK'
  <2>1. blocks' \in [Names -> Nat]
    <3>1. blocks' = [n \in Names |-> blocks'[n]] BY <1>6, <1>8
    <3>2. \A n \in Names : blocks'[n] \in Nat BY <1>7, <1>11, <1>12
    <3> QED BY <3>1, <3>2
  <2>2. held' \subseteq Names BY <1>2, <1>6, <1>8 DEF ConfigInv, ConfigTypeOK
  <2> QED BY <1>1, <2>1, <2>2, StepsAre DEF ConfigInv, ConfigTypeOK
<1>15. MadeInv'
  <2> SUFFICES ASSUME phase' = "init"
               PROVE  /\ step' <= 24 /\ Needed(InitSteps[step'])
                      /\ \A n \in held' : \E i \in 1..(step' - 1) :
                           Needed(InitSteps[i]) /\ InitSteps[i].name = n
    BY StepsAre DEF MadeInv
  <2>3. step < 24 BY <1>1
  <2>4. step' <= 24 BY <1>17, <2>3
  <2>1. step' \in (step + 1)..24 /\ Needed(InitSteps[step']) BY <1>1, <2>4
  <2>2. ASSUME NEW n \in held'
        PROVE  \E i \in 1..(step' - 1) : Needed(InitSteps[i]) /\ InitSteps[i].name = n
    <3>1. CASE n \in held
      <4>1. PICK i \in 1..(step - 1) : Needed(InitSteps[i]) /\ InitSteps[i].name = n
        BY <1>3, <3>1
      <4>2. i \in 1..(step' - 1) BY <1>1, <4>1, Later
      <4> QED BY <4>1, <4>2
    <3>2. CASE n = s.name
      <4>1. step \in 1..(step' - 1) BY <1>1, Later
      <4> QED BY <1>3, <3>2, <4>1 DEF s
    <3> QED BY <1>6, <1>8, <2>2, <3>1, <3>2
  <2> QED BY <2>2, <2>1, <2>4
<1>16. StringsInv'
  <2>1. "config" \in h <=> "config" \in held BY DEF h
  <2>2. CASE step > ConfigStep
    <3>1. "config" \in held BY <1>1, <2>2 DEF ConfigInv, StringsInv
    <3> QED BY <1>8, <2>1, <3>1 DEF StringsInv
  <2>3. CASE step = ConfigStep
    <3>1. s.name = "config" BY <1>1, <2>3, StepFacts DEF s
    <3> QED BY <1>8, <3>1 DEF StringsInv
  <2>4. CASE step < ConfigStep
    <3>1. held \cap Strings = {}
      <4> SUFFICES ASSUME NEW n \in held, n \in Strings PROVE FALSE OBVIOUS
      <4>1. PICK i \in 1..(step - 1) : InitSteps[i].name = n BY <1>3
      <4>2. i \in 1..24 /\ ~(i > ConfigStep) BY <1>1, <2>4 DEF ConfigStep
      <4> QED BY <4>1, <4>2, StepFacts
    <3>2. s.name \notin Strings
      <4>1. ~(step > ConfigStep) BY <1>1, <2>4 DEF ConfigStep
      <4> QED BY <1>1, <4>1, StepFacts DEF s
    <3>3. ~(step' > ConfigStep) BY <1>1, <1>17, <2>4 DEF ConfigStep
    <3>4. held' \cap Strings = {} BY <1>6, <1>8, <3>1, <3>2
    <3>5. phase' # "ready" BY <1>1, <2>4 DEF ConfigStep
    <3> QED BY <3>3, <3>4, <3>5 DEF StringsInv
  <2> QED BY <1>1, <2>2, <2>3, <2>4 DEF ConfigStep
<1>18. EndInv'
  <2>1. s.name = "user_info" => Lost("user_info")
    BY <1>1, <1>3, StepFacts, StepsAre DEF Needed, Alloc, Lost, s
  <2>2. "user_info" \in held' => Lost("user_info")'
    BY <1>6, <1>8, <2>1 DEF ConfigInv, EndInv, Lost
  <2> QED BY <1>1, <2>2 DEF EndInv, Over
<1> QED BY <1>13, <1>14, <1>15, <1>16, <1>18 DEF ConfigInv

LEMMA FailsStep == ConfigInv /\ AllocationFails => ConfigInv'
<1> SUFFICES ASSUME ConfigInv, AllocationFails PROVE ConfigInv' OBVIOUS
<1> DEFINE s == InitSteps[step]
<1>1. /\ phase = "init" /\ step \in 1..24
      /\ blocks' = IF s.name = "event_handle" THEN [blocks EXCEPT !["client"] = 0]
                   ELSE IF s.old = "freed" /\ s.name \in held THEN [blocks EXCEPT ![s.name] = @ - 1]
                   ELSE blocks
      /\ held' = IF s.name = "event_handle" THEN {} ELSE held \ {s.name}
      /\ phase' = IF s.name \in {"client", "event_handle"} THEN "destroyed" ELSE "fail"
      /\ UNCHANGED <<step, starts, headers>>
  BY StepsAre DEF AllocationFails, ConfigInv, ConfigTypeOK, MadeInv
<1>2. \A n \in held : \E i \in 1..(step - 1) : Needed(InitSteps[i]) /\ InitSteps[i].name = n
  BY <1>1 DEF ConfigInv, MadeInv
<1>3. s.name \in Names /\ s.old \in {"freed", "kept"} /\ Needed(s)
  BY <1>1, StepFacts, StepOld DEF ConfigInv, MadeInv
<1>4. s.old = "kept" /\ s.name \in held => step = HostStep /\ Lost("host") /\ s.name = "host"
  BY <1>1, <1>2, <1>3, TakenOnce, StepFacts
<1>5. \A n \in Names : /\ blocks[n] \in Nat
                       /\ n \in held => blocks[n] >= 1
                       /\ blocks[n] <= (IF n \in held THEN 1 ELSE 0) + (IF LostSoFar(n) THEN 1 ELSE 0)
  BY DEF ConfigInv, ConfigTypeOK, OwnedInv
<1>6. blocks \in [Names -> Nat] /\ held \subseteq Names
  BY DEF ConfigInv, ConfigTypeOK
<1>7. /\ \A n \in Names : LostSoFar(n) => LostSoFar(n)'
      /\ Lost("host") => LostSoFar("host")'
  BY <1>1 DEF LostSoFar, Lost, Over
<1>8. s.name = "event_handle" => step = 2 /\ held \subseteq {"client"}
  <2> SUFFICES ASSUME s.name = "event_handle", NEW n \in held PROVE step = 2 /\ n = "client"
    BY <1>1, StepFacts
  <2>1. step = 2 BY <1>1, StepFacts
  <2>2. PICK i \in 1..(step - 1) : InitSteps[i].name = n BY <1>2
  <2> QED BY <2>1, <2>2, StepsAre DEF Alloc
<1>9. "client" \in Names /\ "config" \notin Strings BY DEF Names, Handles, Strings
<1> HIDE DEF s
<1>10. ASSUME NEW n \in Names
       PROVE  /\ blocks'[n] \in Nat
              /\ n \in held' => blocks'[n] >= 1
              /\ blocks'[n] <= (IF n \in held' THEN 1 ELSE 0) + (IF LostSoFar(n)' THEN 1 ELSE 0)
  <2> DEFINE l == IF LostSoFar(n) THEN 1 ELSE 0
             m == IF LostSoFar(n)' THEN 1 ELSE 0
  <2>1. l \in 0..1 /\ m \in 0..1 /\ l <= m BY <1>7
  <2>2. blocks[n] \in Nat /\ (n \in held => blocks[n] >= 1) /\ blocks[n] <= (IF n \in held THEN 1 ELSE 0) + l
    BY <1>5
  <2>3. s.old = "kept" /\ n = s.name /\ n \in held => m = 1 BY <1>4, <1>7
  <2> HIDE DEF l, m
  <2>4. CASE s.name = "event_handle"
    <3>1. n \notin held' BY <1>1, <2>4
    <3>2. CASE n = "client"
      <4>1. blocks'[n] = 0 BY <1>1, <1>6, <1>9, <2>4, <3>2
      <4> QED BY <2>1, <3>1, <4>1 DEF m
    <3>3. CASE n # "client"
      <4>1. blocks'[n] = blocks[n] /\ n \notin held BY <1>1, <1>6, <1>8, <2>4, <3>3
      <4> QED BY <2>1, <2>2, <3>1, <4>1 DEF m
    <3> QED BY <3>2, <3>3
  <2>5. CASE s.name # "event_handle" /\ n # s.name
    <3>1. blocks'[n] = blocks[n] /\ (n \in held' <=> n \in held) BY <1>1, <1>6, <2>5
    <3> QED BY <2>1, <2>2, <3>1 DEF m
  <2>6. CASE s.name # "event_handle" /\ n = s.name
    <3>1. n \notin held' BY <1>1, <2>6
    <3>2. CASE s.old = "freed" /\ n \in held
      <4>1. blocks'[n] = blocks[n] - 1 BY <1>1, <1>6, <2>6, <3>2
      <4> QED BY <2>1, <2>2, <3>1, <3>2, <4>1 DEF m
    <3>3. CASE ~(s.old = "freed" /\ n \in held)
      <4>1. blocks'[n] = blocks[n] BY <1>1, <1>6, <2>6, <3>3
      <4>2. n \in held => m = 1 /\ l = 0
        <5>1. n \in held => s.old = "kept" BY <1>3, <3>3
        <5>2. step = HostStep => ~LostSoFar("host") BY <1>1 DEF LostSoFar, HostStep
        <5> QED BY <1>4, <2>3, <2>6, <5>1, <5>2 DEF l
      <4> QED BY <2>1, <2>2, <2>3, <3>1, <3>3, <4>1, <4>2 DEF m
    <3> QED BY <3>2, <3>3
  <2> QED BY <2>4, <2>5, <2>6
<1>11. blocks' \in [Names -> Nat]
  <2>1. blocks' = [n \in Names |-> blocks'[n]] BY <1>1, <1>6
  <2> QED BY <2>1, <1>10
<1>12. ConfigTypeOK'
  <2>1. held' \subseteq Names BY <1>1, <1>6
  <2> QED BY <1>1, <1>11, <2>1 DEF ConfigInv, ConfigTypeOK
<1>13. OwnedInv' BY <1>7, <1>10 DEF OwnedInv
<1>14. MadeInv' BY <1>1 DEF MadeInv
<1>15. StringsInv'
  <2>1. CASE s.name = "config"
    <3>1. step = ConfigStep BY <1>1, <2>1, StepFacts DEF s
    <3>2. held \cap Strings = {}
      <4> SUFFICES ASSUME NEW n \in held, n \in Strings PROVE FALSE OBVIOUS
      <4>1. PICK i \in 1..(step - 1) : InitSteps[i].name = n BY <1>2
      <4>2. i \in 1..24 /\ ~(i > ConfigStep) BY <1>1, <3>1 DEF ConfigStep
      <4> QED BY <4>1, <4>2, StepFacts
    <3> QED BY <1>1, <2>1, <3>2 DEF StringsInv
  <2>2. CASE s.name # "config"
    <3>1. held \cap Strings # {} => "config" \in held BY DEF ConfigInv, StringsInv
    <3> QED BY <1>1, <2>2, <3>1 DEF StringsInv
  <2> QED BY <2>1, <2>2
<1>16. EndInv'
  <2>1. step = 1 => held = {}
    <3> SUFFICES ASSUME step = 1, NEW n \in held PROVE FALSE OBVIOUS
    <3> QED BY <1>2
  <2>2. s.name = "client" => step = 1 BY <1>1, StepFacts DEF s
  <2>3. phase' \in Over => held' = {} BY <1>1, <2>1, <2>2 DEF Over
  <2>4. "user_info" \in held' => Lost("user_info")' BY <1>1 DEF ConfigInv, EndInv, Lost
  <2> QED BY <2>3, <2>4 DEF EndInv
<1> QED BY <1>12, <1>13, <1>14, <1>15, <1>16 DEF ConfigInv

LEMMA TransportsStep ==
  ASSUME ConfigInv, phase = "ready", NEW made \in SUBSET Transports,
         blocks' = [n \in Names |-> IF n \in made THEN 1 ELSE IF n \in Transports THEN 0 ELSE blocks[n]],
         held' = (held \ Transports) \cup made,
         starts < MaxStarts, starts' = starts + 1, UNCHANGED <<step, phase, headers>>
  PROVE  ConfigInv'
<1>1. /\ blocks \in [Names -> Nat] /\ held \subseteq Names
      /\ \A n \in Names : /\ n \in held => blocks[n] >= 1
                          /\ blocks[n] <= (IF n \in held THEN 1 ELSE 0) + (IF LostSoFar(n) THEN 1 ELSE 0)
  BY DEF ConfigInv, ConfigTypeOK, OwnedInv
<1>2. "config" \notin Transports /\ \A n \in Transports : n \notin Strings /\ n # "user_info" /\ n \in Names
  BY DEF Transports, Strings, Names
<1>3. \A n \in Names : LostSoFar(n)' <=> LostSoFar(n) BY DEF LostSoFar, Lost
<1>4. blocks' \in [Names -> Nat] BY <1>1
<1>5. held' \subseteq Names BY <1>1, <1>2
<1>6. starts' \in 0..MaxStarts BY BoundsAssumption DEF ConfigInv, ConfigTypeOK
<1>7. ConfigTypeOK' BY <1>4, <1>5, <1>6 DEF ConfigInv, ConfigTypeOK
<1>8. OwnedInv'
  <2> SUFFICES ASSUME NEW n \in Names
               PROVE  /\ n \in held' => blocks'[n] >= 1
                      /\ blocks'[n] <= (IF n \in held' THEN 1 ELSE 0) + (IF LostSoFar(n)' THEN 1 ELSE 0)
    BY DEF OwnedInv
  <2>1. CASE n \in made
    <3>1. blocks'[n] = 1 /\ n \in held' BY <2>1
    <3> QED BY <3>1
  <2>2. CASE n \in Transports \ made
    <3>1. blocks'[n] = 0 /\ n \notin held' BY <2>2
    <3> QED BY <3>1
  <2>3. CASE n \notin Transports
    <3>1. blocks'[n] = blocks[n] /\ (n \in held' <=> n \in held) BY <2>3
    <3> QED BY <1>1, <1>3, <3>1
  <2> QED BY <2>1, <2>2, <2>3
<1>9. MadeInv' BY DEF MadeInv
<1>10. StringsInv'
  <2>1. "config" \in held BY DEF ConfigInv, StringsInv
  <2>2. "config" \in held' BY <1>2, <2>1
  <2> QED BY <2>2 DEF StringsInv
<1>11. EndInv' BY <1>2 DEF ConfigInv, EndInv, Over, Lost
<1> QED BY <1>7, <1>8, <1>9, <1>10, <1>11 DEF ConfigInv

LEMMA HeaderStep == ConfigInv /\ AppendHeader => ConfigInv'
<1> SUFFICES ASSUME ConfigInv, AppendHeader PROVE ConfigInv' OBVIOUS
<1>1. /\ blocks \in [Names -> Nat] /\ held \subseteq Names
      /\ \A n \in Names : /\ n \in held => blocks[n] >= 1
                          /\ blocks[n] <= (IF n \in held THEN 1 ELSE 0) + (IF LostSoFar(n) THEN 1 ELSE 0)
  BY DEF ConfigInv, ConfigTypeOK, OwnedInv
<1>2. /\ phase = "ready" /\ headers < MaxHeaders
      /\ blocks' = [blocks EXCEPT !["headers"] = (IF "headers" \in held THEN @ - 1 ELSE @) + 1]
      /\ held' = held \cup {"headers"}
      /\ headers' = headers + 1 /\ UNCHANGED <<step, phase, starts>>
  BY DEF AppendHeader, Take, NewHeaders, Alloc
<1>3. "headers" \in Names BY DEF Names, Strings
<1>4. \A n \in Names : LostSoFar(n)' <=> LostSoFar(n) BY <1>2 DEF LostSoFar, Lost
<1>5. ASSUME NEW n \in Names
      PROVE  /\ blocks'[n] \in Nat
             /\ n \in held' => blocks'[n] >= 1
             /\ blocks'[n] <= (IF n \in held' THEN 1 ELSE 0) + (IF LostSoFar(n)' THEN 1 ELSE 0)
  <2> DEFINE l == IF LostSoFar(n) THEN 1 ELSE 0
  <2>1. l \in 0..1 /\ l = IF LostSoFar(n)' THEN 1 ELSE 0 BY <1>4
  <2>2. blocks[n] \in Nat /\ (n \in held => blocks[n] >= 1)
        /\ blocks[n] <= (IF n \in held THEN 1 ELSE 0) + l
    BY <1>1
  <2> HIDE DEF l
  <2>3. CASE n # "headers"
    <3>1. blocks'[n] = blocks[n] /\ (n \in held' <=> n \in held) BY <1>1, <1>2, <2>3
    <3> QED BY <2>1, <2>2, <3>1
  <2>4. CASE n = "headers" /\ n \in held
    <3>1. blocks'[n] = (blocks[n] - 1) + 1 /\ n \in held' BY <1>1, <1>2, <2>4
    <3>2. (blocks[n] - 1) + 1 = blocks[n] BY <2>2
    <3> QED BY <2>1, <2>2, <2>4, <3>1, <3>2
  <2>5. CASE n = "headers" /\ n \notin held
    <3>1. blocks'[n] = blocks[n] + 1 /\ n \in held' BY <1>1, <1>2, <2>5
    <3>2. blocks[n] <= 0 + l BY <2>2, <2>5
    <3> QED BY <2>1, <2>2, <3>1, <3>2, OneBlock
  <2> QED BY <2>3, <2>4, <2>5
<1>6. ConfigTypeOK'
  <2>1. blocks' = [n \in Names |-> blocks'[n]] BY <1>1, <1>2
  <2>2. blocks' \in [Names -> Nat] BY <1>5, <2>1
  <2>3. headers' \in 0..MaxHeaders BY <1>2, BoundsAssumption DEF ConfigInv, ConfigTypeOK
  <2> QED BY <1>1, <1>2, <1>3, <2>2, <2>3 DEF ConfigInv, ConfigTypeOK
<1>7. OwnedInv' BY <1>5 DEF OwnedInv
<1>8. MadeInv' BY <1>2 DEF MadeInv
<1>9. StringsInv' BY <1>2 DEF ConfigInv, StringsInv
<1>10. EndInv' BY <1>2 DEF ConfigInv, EndInv, Over, Lost
<1> QED BY <1>6, <1>7, <1>8, <1>9, <1>10 DEF ConfigInv

\* Only the user information has a pointer that a destroy does not follow.
LEMMA DeletesAll == ConfigInv => \A n \in held : n # "user_info" => n \in Deleted
<1> SUFFICES ASSUME ConfigInv, NEW n \in held, n # "user_info" PROVE n \in Deleted
  OBVIOUS
<1>1. n \in Names BY DEF ConfigInv, ConfigTypeOK
<1>2. n \in Strings => "config" \in held BY DEF ConfigInv, StringsInv
<1>3. CASE n \in Strings \/ n = "config"
  <2>1. n \in ConfigStrings BY <1>2, <1>3 DEF ConfigStrings
  <2> QED BY <2>1 DEF Deleted
<1>4. CASE n \notin Strings /\ n # "config"
  <2>1. n \in Transports \cup (Handles \ {"config"}) BY <1>1, <1>4 DEF Names
  <2> QED BY <2>1 DEF Deleted
<1> QED BY <1>3, <1>4


LEMMA DestroyStep == ConfigInv /\ Destroy => ConfigInv'
<1> SUFFICES ASSUME ConfigInv, Destroy PROVE ConfigInv' OBVIOUS
<1>1. /\ phase \in {"ready", "fail"}
      /\ blocks' = [n \in Names |-> IF n \in Deleted THEN blocks[n] - 1 ELSE blocks[n]]
      /\ held' = {} /\ phase' \in Over /\ UNCHANGED <<step, starts, headers>>
  BY DEF Destroy, Over
<1>2. /\ blocks \in [Names -> Nat] /\ held \subseteq Names
      /\ \A n \in Names : /\ n \in held => blocks[n] >= 1
                          /\ blocks[n] <= (IF n \in held THEN 1 ELSE 0) + (IF LostSoFar(n) THEN 1 ELSE 0)
  BY DEF ConfigInv, ConfigTypeOK, OwnedInv
<1>3. \A n \in Names : LostSoFar(n) => LostSoFar(n)'
  BY <1>1 DEF LostSoFar, Lost, Over
<1>4. "user_info" \in held => LostSoFar("user_info")' /\ ~LostSoFar("user_info")
  BY <1>1 DEF ConfigInv, EndInv, LostSoFar, Lost, Over
<1>5. \A n \in Deleted : n \in held BY DEF Deleted
<1>6. ASSUME NEW n \in Names
      PROVE  blocks'[n] \in Nat /\ blocks'[n] <= (IF LostSoFar(n)' THEN 1 ELSE 0)
  <2> DEFINE l == IF LostSoFar(n) THEN 1 ELSE 0
             m == IF LostSoFar(n)' THEN 1 ELSE 0
  <2>1. l \in 0..1 /\ m \in 0..1 /\ l <= m BY <1>3
  <2>2. blocks[n] \in Nat /\ (n \in held => blocks[n] >= 1)
        /\ blocks[n] <= (IF n \in held THEN 1 ELSE 0) + l
    BY <1>2
  <2>3. n = "user_info" /\ n \in held => m = 1 /\ l = 0 BY <1>4
  <2> HIDE DEF l, m
  <2>4. CASE n \in Deleted
    <3>1. blocks'[n] = blocks[n] - 1 /\ n \in held BY <1>1, <1>5, <2>4
    <3> QED BY <2>1, <2>2, <3>1 DEF m
  <2>5. CASE n \notin Deleted
    <3>1. blocks'[n] = blocks[n] BY <1>1, <2>5
    <3>2. n \in held => n = "user_info" BY <2>5, DeletesAll
    <3> QED BY <2>1, <2>2, <2>3, <3>1, <3>2 DEF m
  <2> QED BY <2>4, <2>5
<1>7. ConfigTypeOK'
  <2>1. blocks' = [n \in Names |-> blocks'[n]] BY <1>1
  <2>2. blocks' \in [Names -> Nat] BY <1>6, <2>1
  <2> QED BY <1>1, <2>2 DEF ConfigInv, ConfigTypeOK, Over
<1>8. OwnedInv' BY <1>1, <1>6 DEF OwnedInv
<1>9. MadeInv' BY <1>1 DEF MadeInv, Over
<1>10. StringsInv' BY <1>1 DEF StringsInv, Over
<1>11. EndInv' BY <1>1 DEF EndInv
<1> QED BY <1>7, <1>8, <1>9, <1>10, <1>11 DEF ConfigInv

LEMMA ConfigStepKeeps == ConfigInv /\ [ConfigNext]_cfgVars => ConfigInv'
<1> SUFFICES ASSUME ConfigInv, [ConfigNext]_cfgVars PROVE ConfigInv' OBVIOUS
<1>1. CASE Allocate BY <1>1, AllocateStep
<1>2. CASE AllocationFails BY <1>2, FailsStep
<1>3. CASE CreateTransport
  <2>1. blocks' = [n \in Names |-> IF n \in Transports THEN 1 ELSE IF n \in Transports THEN 0
                                   ELSE blocks[n]]
    BY <1>3 DEF CreateTransport, NewTransports
  <2>2. held' = (held \ Transports) \cup Transports BY <1>3 DEF CreateTransport
  <2> QED BY <1>3, <2>1, <2>2, TransportsStep DEF CreateTransport
<1>4. CASE CreateTransportFails
  <2>1. PICK made \in {{}, {"transport_list"}, {"transport_list", "base"}} :
          /\ blocks' = [n \in Names |-> IF n \in made THEN 1 ELSE IF n \in Transports THEN 0
                                        ELSE blocks[n]]
          /\ held' = (held \ Transports) \cup made
    BY <1>4 DEF CreateTransportFails
  <2>2. made \in SUBSET Transports BY DEF Transports
  <2> QED BY <1>4, <2>1, <2>2, TransportsStep DEF CreateTransportFails
<1>5. CASE AppendHeader BY <1>5, HeaderStep
<1>6. CASE Destroy BY <1>6, DestroyStep
<1>7. CASE UNCHANGED cfgVars
  BY <1>7 DEF cfgVars, ConfigInv, ConfigTypeOK, OwnedInv, MadeInv, StringsInv, EndInv,
              LostSoFar, Lost
<1> QED BY <1>1, <1>2, <1>3, <1>4, <1>5, <1>6, <1>7 DEF ConfigNext

\* The configuration of the WebSocket client has its types, whatever is given, and
\* however many starts and headers there are.
THEOREM ConfigTypeCorrect == ConfigSpec => []ConfigTypeOK
<1>1. ConfigInv => ConfigTypeOK BY DEF ConfigInv
<1> QED BY <1>1, ConfigInitial, ConfigStepKeeps, PTL DEF ConfigSpec

\* esp_websocket_client_destroy frees all that esp_websocket_client_init, set_config,
\* create_transport and append_header allocated, whichever of them failed, but for
\* what is lost before.
THEOREM DestroyFrees == ConfigSpec => []DestroyFreesAll
<1>1. ConfigInv => DestroyFreesAll
  <2> SUFFICES ASSUME ConfigInv, phase = "destroyed", NEW n \in Names
               PROVE  blocks[n] <= (IF Lost(n) THEN 1 ELSE 0)
    BY DEF DestroyFreesAll
  <2>1. held = {} BY DEF ConfigInv, EndInv, Over
  <2>2. LostSoFar(n) => Lost(n) BY DEF LostSoFar
  <2>3. blocks[n] \in Nat /\ blocks[n] <= 0 + (IF LostSoFar(n) THEN 1 ELSE 0)
    BY <2>1 DEF ConfigInv, ConfigTypeOK, OwnedInv
  <2> QED BY <2>2, <2>3
<1> QED BY <1>1, ConfigInitial, ConfigStepKeeps, PTL DEF ConfigSpec
=============================================================================
