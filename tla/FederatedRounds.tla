--------------------------- MODULE FederatedRounds ---------------------------
(***************************************************************************)
(* What the server promises about the federated rounds, without threads,   *)
(* calls or models: members join until their number is reached; each sends *)
(* local models; a round closes when every member has sent its model of    *)
(* that round, and before any other model is taken up.                     *)
(***************************************************************************)
EXTENDS Naturals, FiniteSets

CONSTANTS
  Member,   \* who may join
  Limit,    \* members of a complete federation
  Rounds    \* rounds to run

VARIABLES
  members,  \* who has joined
  sent,     \* sent[m]: local models taken up from m
  round     \* rounds closed

roundsVars == <<members, sent, round>>

RoundsInit ==
  /\ members = {}
  /\ sent = [m \in Member |-> 0]
  /\ round = 0

IsComplete == Cardinality(members) = Limit
CanClose == IsComplete /\ round < Rounds /\ \A m \in members : sent[m] > round

Join(m) ==
  /\ ~IsComplete
  /\ m \notin members
  /\ members' = members \cup {m}
  /\ sent' = [sent EXCEPT ![m] = 0]
  /\ UNCHANGED round

Deliver(m) ==
  /\ IsComplete
  /\ m \in members
  /\ ~CanClose
  /\ sent' = [sent EXCEPT ![m] = @ + 1]
  /\ UNCHANGED <<members, round>>

CloseRound ==
  /\ CanClose
  /\ round' = round + 1
  /\ UNCHANGED <<members, sent>>

RoundsNext ==
  \/ \E m \in Member : Join(m) \/ Deliver(m)
  \/ CloseRound

RoundsSpec == RoundsInit /\ [][RoundsNext]_roundsVars

=============================================================================
