----------------------------- MODULE NocNetwork -----------------------------
(***************************************************************************)
(* What a network on chip promises its users: a flow, the flits one source *)
(* sends to one destination on one virtual channel, is a FIFO channel that *)
(* loses, repeats and reorders nothing.  Nothing is promised across flows; *)
(* several may move in one step.  A flow's flits are numbered from 1.      *)
(***************************************************************************)
EXTENDS Naturals, Sequences

CONSTANT Flow

VARIABLES
  inflight,     \* per flow: the flits sent and not yet received, in order
  delivered     \* per flow: the flits received, in order

vars == <<inflight, delivered>>

Init ==
  /\ inflight = [f \in Flow |-> <<>>]
  /\ delivered = [f \in Flow |-> <<>>]

Send(f) ==
  /\ inflight'[f] = Append(inflight[f], Len(delivered[f]) + Len(inflight[f]) + 1)
  /\ delivered'[f] = delivered[f]

Deliver(f) ==
  /\ inflight[f] # <<>>
  /\ delivered'[f] = Append(delivered[f], Head(inflight[f]))
  /\ inflight'[f] = Tail(inflight[f])

Rest(f) == inflight'[f] = inflight[f] /\ delivered'[f] = delivered[f]

Next ==
  /\ inflight' \in [Flow -> Seq(Nat)] /\ delivered' \in [Flow -> Seq(Nat)]
  /\ \A f \in Flow : Send(f) \/ Deliver(f) \/ Rest(f)

Spec == Init /\ [][Next]_vars
=============================================================================
