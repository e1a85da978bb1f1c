------------------------------ MODULE KeepAlive ------------------------------
(***************************************************************************)
(* The clock of the websocket client (esp_websocket_client.c, the          *)
(* CONNECTED case of esp_websocket_client_task and the poll after it): a   *)
(* PING when nothing was read for ping_interval_sec, the connection given  *)
(* up when no PONG was read for pingpong_timeout_sec.  One unit of time is *)
(* the second the task polls for.  Ticks are counted from the moment they  *)
(* are compared with, and no further than the comparison can tell.         *)
(***************************************************************************)
EXTENDS Naturals, Sequences

CONSTANTS
  Interval,  \* config->ping_interval_sec
  Timeout,   \* config->pingpong_timeout_sec
  Answer,    \* longest time between a PING and the arrival of its PONG
  MayDie,    \* the server may stop answering
  Hold,      \* longest time a sender keeps the lock
  MaxFrames  \* bound: frames that have arrived and are not read

ASSUME TimesAssumption == {Interval, Timeout, Answer, Hold, MaxFrames} \subseteq Nat
ASSUME MayDieAssumption == MayDie \in BOOLEAN

VARIABLES
  up,        \* the connection is not given up
  sincePing, \* now - ping_tick_ms
  sincePong, \* now - pingpong_tick_ms
  wait_for_pong_resp,
  read_select,
  polling,   \* the task polls, and has done so for less than a second
  transit,   \* ages of the PONG frames on their way
  arrived,   \* frames that can be read
  kept,      \* time a sender has kept the lock, 0 when nobody has
  alive,     \* the server answers
  silence    \* time since the last frame of the server arrived

kaVars == <<up, sincePing, sincePong, wait_for_pong_resp, read_select, polling, transit, arrived,
            kept, alive, silence>>

Capped(n, cap) == IF n < cap THEN n + 1 ELSE n
Longest == Interval + Timeout + (MaxFrames + 3) * Hold + 8

AliveInit ==
  /\ up = TRUE /\ sincePing = 0 /\ sincePong = 0 /\ wait_for_pong_resp = FALSE
  /\ read_select = 0 /\ polling = TRUE
  /\ transit = <<>> /\ arrived = <<>> /\ kept = 0 /\ alive = TRUE /\ silence = 0

-----------------------------------------------------------------------------
PingIsDue == sincePing > Interval

\* Slip: the time-out runs from the last PING.
TimeoutFromLastPing(sends) == IF sends THEN 0 ELSE sincePong

\* Slip: the time-out runs from the first PING of the connection.
TimeoutFromFirstPing(sends) == sincePong

\* now - pingpong_tick_ms once the PING was sent, or was not due.
PongAge(sends) == IF sends /\ ~wait_for_pong_resp THEN 0 ELSE sincePong

WaitsForPong(sends) == wait_for_pong_resp \/ (sends /\ Timeout # 0)

\* The CONNECTED case in one turn of the loop: PING, time-out, one frame read.
Turn ==
  /\ up /\ ~polling /\ kept = 0
  /\ LET sends == PingIsDue
         late == PongAge(sends) > Timeout /\ WaitsForPong(sends)
         reads == ~late /\ read_select # 0
         frame == Head(arrived)
     IN  /\ up' = ~late
         /\ sincePong' = PongAge(sends)
         /\ sincePing' = IF sends \/ reads THEN 0 ELSE sincePing
         /\ wait_for_pong_resp' = (WaitsForPong(sends) /\ ~(reads /\ frame = "PONG"))
         /\ arrived' = IF reads THEN Tail(arrived) ELSE arrived
         /\ transit' = IF sends /\ alive THEN Append(transit, 0) ELSE transit
         /\ polling' = ~late
  /\ UNCHANGED <<read_select, kept, alive, silence>>

\* esp_transport_poll_read returns with the first frame ...
PollFinds ==
  /\ up /\ polling /\ arrived # <<>>
  /\ read_select' = 1
  /\ polling' = FALSE
  /\ UNCHANGED <<up, sincePing, sincePong, wait_for_pong_resp, transit, arrived, kept, alive,
                 silence>>

PollResult == IF polling THEN 0 ELSE read_select

\* ... or after a second without one: the tick ends the poll.
Tick ==
  /\ up
  /\ polling \/ kept > 0
  /\ polling => arrived = <<>>
  /\ kept <= Hold
  /\ \A i \in 1..Len(transit) : transit[i] < Answer
  /\ read_select' = PollResult
  /\ polling' = FALSE
  /\ transit' = [i \in 1..Len(transit) |-> transit[i] + 1]
  /\ kept' = IF kept > 0 THEN kept + 1 ELSE 0
  /\ sincePing' = Capped(sincePing, Interval + 1)
  /\ sincePong' = Capped(sincePong, Timeout + 1)
  /\ silence' = Capped(silence, Longest)
  /\ UNCHANGED <<up, wait_for_pong_resp, arrived, alive>>

Arrives(frame) ==
  /\ up /\ Len(arrived) < MaxFrames
  /\ arrived' = Append(arrived, frame)
  /\ silence' = 0
  /\ UNCHANGED <<up, sincePing, sincePong, wait_for_pong_resp, read_select, polling, kept, alive>>

PongArrives == transit # <<>> /\ Arrives("PONG") /\ transit' = Tail(transit)

TextArrives == alive /\ Arrives("TEXT") /\ UNCHANGED transit

\* esp_websocket_client_send_text: the lock is kept until the text is written.  A
\* task that waits for it goes first.
SenderLocks ==
  /\ up /\ Hold > 0 /\ kept = 0 /\ polling
  /\ kept' = 1
  /\ UNCHANGED <<up, sincePing, sincePong, wait_for_pong_resp, read_select, polling, transit,
                 arrived, alive, silence>>

SenderUnlocks ==
  /\ kept > 0
  /\ kept' = 0
  /\ UNCHANGED <<up, sincePing, sincePong, wait_for_pong_resp, read_select, polling, transit,
                 arrived, alive, silence>>

ServerDies ==
  /\ MayDie /\ alive
  /\ alive' = FALSE
  /\ UNCHANGED <<up, sincePing, sincePong, wait_for_pong_resp, read_select, polling, transit,
                 arrived, kept, silence>>

AliveNext == Turn \/ PollFinds \/ Tick \/ PongArrives \/ TextArrives \/ SenderLocks \/ SenderUnlocks
               \/ ServerDies

AliveSpec == AliveInit /\ [][AliveNext]_kaVars

\* Time passes, the task is scheduled, a sender gets its text written.
AliveFairness == WF_kaVars(Tick) /\ WF_kaVars(Turn \/ PollFinds)
                 /\ WF_kaVars(SenderUnlocks) /\ WF_kaVars(PongArrives)
FairAliveSpec == AliveSpec /\ AliveFairness

-----------------------------------------------------------------------------
\* ... where a frame the poll has found is there to be read.
KeepAliveTypeOK ==
  /\ {up, wait_for_pong_resp, polling, alive} \subseteq BOOLEAN /\ read_select \in 0..1
  /\ sincePing \in 0..(Interval + 1) /\ sincePong \in 0..(Timeout + 1)
  /\ transit \in Seq(0..Answer) /\ arrived \in Seq({"PONG", "TEXT"})
  /\ Len(arrived) <= MaxFrames /\ kept \in 0..(Hold + 1) /\ silence \in 0..Longest
  /\ ~polling /\ read_select = 1 /\ up => arrived # <<>>

\* A server that answers in time is never given up, the time being what is left
\* when senders keep the lock before every frame that is read, and once before the
\* poll that finds the first.
ResponsiveServerStays == (alive /\ Answer + (MaxFrames + 1) * Hold <= Timeout) => up

\* A server that sends nothing any more is given up in the end ...
SilentServerIsDropped == ~alive ~> ~up

\* ... and after no more than the interval, the time-out, a second late for each, and
\* what the senders take before every frame that is left is read, once before the poll
\* that finds the first, before the PING and before the time-out is seen.
SilenceIsBounded ==
  up /\ Timeout > 0 => silence <= Interval + Timeout + 2 + (MaxFrames + 3) * Hold

\* A connection is given up because of the server's silence, and only because of it:
\* in time, and in spite of senders that keep the lock.
OnlySilenceEndsIt == ResponsiveServerStays /\ SilenceIsBounded
=============================================================================
