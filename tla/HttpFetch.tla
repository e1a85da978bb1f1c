------------------------------ MODULE HttpFetch ------------------------------
(***************************************************************************)
(* A GET of the board (httpclient.c): perform_get_request with its retries *)
(* and the event handler that collects the body in response_buffer, then   *)
(* the parse of getglobalmodelstatus, getregisternode or getglobalmodel.   *)
(* A body is a number of pieces, cut anywhere in its text; an attempt may  *)
(* break after any of them, at once or after TIMEOUT_MS.                   *)
(***************************************************************************)
EXTENDS Naturals, Sequences

CONSTANTS
  MaxRetries,   \* MAX_RETRIES
  Pieces,       \* pieces of a body
  Values,       \* what the server may answer, none of them 0
  Reachable,    \* the server takes connections: no attempt is refused for ever
  MaxCalls,     \* bound: calls
  MaxBuffer     \* pieces the buffer can grow to: the next allocation fails

ASSUME PiecesAssumption == Pieces \in Nat \ {0}
ASSUME ValuesAssumption == 0 \notin Values
ASSUME BufferAssumption == MaxBuffer \in Nat
ASSUME RetriesAssumption == MaxRetries \in Nat \ {0} /\ MaxCalls \in Nat
ASSUME ReachableAssumption == Reachable \in BOOLEAN

VARIABLES
  place,    \* idle, trying, receiving, parsing
  calls,
  retries,
  said,     \* what the server answers to the attempt
  next,     \* next piece of that answer
  buffer,   \* response_buffer: the pieces in it
  result,   \* what the last call returned: a value of the server, or 0 or NULL
  served,   \* values the server began to send in the call
  spoiled   \* a piece was left by an attempt that failed, or was lost

fetchVars == <<place, calls, retries, said, next, buffer, result, served, spoiled>>

FetchInit ==
  /\ place = "idle" /\ calls = 0 /\ retries = 0 /\ said = 0 /\ next = 1
  /\ buffer = <<>> /\ result = 0 /\ served = {} /\ spoiled = FALSE

-----------------------------------------------------------------------------
\* Slip: the buffer of the last call is used on.
KeepsBuffer == buffer

EmptyBuffer == <<>>

\* perform_get_request up to its loop
Call ==
  /\ place = "idle" /\ calls < MaxCalls
  /\ calls' = calls + 1
  /\ buffer' = EmptyBuffer
  /\ retries' = 0
  /\ place' = "trying"
  /\ served' = {} /\ spoiled' = FALSE
  /\ UNCHANGED <<said, next, result>>

\* esp_http_client_perform reaches the server.
Connects ==
  /\ place = "trying"
  /\ \E v \in Values : said' = v /\ served' = served \cup {v}
  /\ next' = 1
  /\ place' = "receiving"
  /\ UNCHANGED <<calls, retries, buffer, result, spoiled>>

\* client_event_get_handler on HTTP_EVENT_ON_DATA: the piece is appended, or lost
\* when realloc fails, which does not end the attempt.
Receives ==
  /\ place = "receiving" /\ next <= Pieces
  /\ next' = next + 1
  /\ \/ /\ Len(buffer) < MaxBuffer
        /\ buffer' = Append(buffer, [of |-> said, piece |-> next])
        /\ UNCHANGED spoiled
     \/ /\ Len(buffer) = MaxBuffer
        /\ spoiled' = TRUE
        /\ UNCHANGED buffer
  /\ UNCHANGED <<place, calls, retries, said, result, served>>

\* Slip: the attempt waits for a piece after the last.
WaitsForMore == next = Pieces + 2

BodyIsRead == next = Pieces + 1

Succeeds ==
  /\ place = "receiving" /\ BodyIsRead
  /\ place' = "parsing"
  /\ UNCHANGED <<calls, retries, said, next, buffer, result, served, spoiled>>

AfterTry(r) == IF r = MaxRetries THEN "parsing" ELSE "trying"

Fails ==
  /\ place \in {"trying", "receiving"}
  /\ spoiled' = (spoiled \/ (place = "receiving" /\ next > 1))
  /\ UNCHANGED <<calls, said, next, buffer, result, served>>

\* The attempt fails after TIMEOUT_MS ...
FailsLate ==
  /\ Fails
  /\ retries' = retries + 1
  /\ place' = AfterTry(retries + 1)

\* ... or before, and is not counted.
FailsEarly ==
  /\ Fails
  /\ place' = "trying"
  /\ UNCHANGED retries

\* cJSON_Parse reads the first value of the text and leaves the rest: the pieces
\* of a body in their order, from whichever attempts they are.
Whole == Len(buffer) >= Pieces /\ \A i \in 1..Pieces : buffer[i].piece = i

Parse ==
  /\ place = "parsing"
  /\ result' = IF Whole THEN buffer[Pieces].of ELSE 0
  /\ place' = "idle"
  /\ UNCHANGED <<calls, retries, said, next, buffer, served, spoiled>>

FetchNext == Call \/ Connects \/ Receives \/ Succeeds \/ FailsLate \/ FailsEarly \/ Parse

FetchSpec == FetchInit /\ [][FetchNext]_fetchVars

\* The board waits in esp_http_client_perform, which ends one way or another; a
\* server that can be reached is reached, and heard, now and then.
FetchFairness ==
  /\ WF_fetchVars(Connects \/ Receives \/ Succeeds \/ FailsLate \/ FailsEarly)
  /\ WF_fetchVars(Parse)
  /\ Reachable => /\ SF_fetchVars(Connects)
                  /\ \A n \in 1..Pieces : SF_fetchVars(next = n /\ Receives)
                  /\ SF_fetchVars(Succeeds)

FairFetchSpec == FetchSpec /\ FetchFairness

-----------------------------------------------------------------------------
FetchTypeOK ==
  /\ place \in {"idle", "trying", "receiving", "parsing"}
  /\ calls \in 0..MaxCalls /\ retries \in 0..MaxRetries
  /\ said \in Values \cup {0} /\ next \in 1..(Pieces + 1)
  /\ buffer \in Seq([of : Values, piece : 1..Pieces]) /\ Len(buffer) <= MaxBuffer
  /\ result \in Values \cup {0} /\ served \subseteq Values /\ spoiled \in BOOLEAN

\* A call returns what the server said during that call, never what an earlier one
\* had left in the buffer, or nothing.  When no attempt left a part of a body, it
\* returns the answer of the attempt that succeeded, and nothing when it gave up.
CallIsAnswered ==
  [][ place = "parsing" =>
        /\ result' \in served \cup {0}
        /\ ~spoiled => result' = (IF retries < MaxRetries THEN said ELSE 0) ]_fetchVars

\* A call of a server that can be reached returns.
CallReturns == (Reachable /\ place # "idle") ~> place = "idle"
=============================================================================
