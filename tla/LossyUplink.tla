---------------------------- MODULE LossyUplink ----------------------------
(***************************************************************************)
(* The uplink FederatedSystem counts on: a board has some models under     *)
(* way; each is delivered once, as a model of that board, or lost.         *)
(* Several can be lost together, and a loss may jam the uplink: what is    *)
(* sent from then on never arrives.                                        *)
(***************************************************************************)
EXTENDS Naturals, Sequences

CONSTANT Node

VARIABLES
  inflight,   \* inflight[n]: models of n sent, not delivered, not lost
  taken,      \* the boards whose models were delivered, in order
  jammed      \* no model sent from now on is delivered

linkVars == <<inflight, taken, jammed>>

LinkInit ==
  /\ inflight = [n \in Node |-> 0]
  /\ taken = <<>>
  /\ jammed = FALSE

Send(n) ==
  /\ ~jammed
  /\ inflight' = [inflight EXCEPT ![n] = @ + 1]
  /\ UNCHANGED <<taken, jammed>>

Deliver(n) ==
  /\ inflight[n] > 0
  /\ inflight' = [inflight EXCEPT ![n] = @ - 1]
  /\ taken' = Append(taken, n)
  /\ UNCHANGED jammed

Lose ==
  /\ inflight' \in [Node -> Nat]
  /\ \A n \in Node : inflight'[n] <= inflight[n]
  /\ jammed' \in {jammed, TRUE}
  /\ UNCHANGED taken

LinkNext ==
  \/ \E n \in Node : Send(n) \/ Deliver(n)
  \/ Lose

LinkSpec == LinkInit /\ [][LinkNext]_linkVars

=============================================================================
