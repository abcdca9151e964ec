------------------------------ MODULE RdvFifo ------------------------------
(***************************************************************************)
(* What a buffer in a ready/valid channel promises, one step per clock     *)
(* cycle: a queue of at most Capacity data.  In a cycle at most one datum  *)
(* is accepted from the producer (xin is <<d>> or <<>>) and at most one is *)
(* delivered to the consumer (xout), and what is delivered is the oldest   *)
(* datum accepted and not yet delivered, the one accepted in the same      *)
(* cycle included.  Nothing is lost, duplicated, reordered or made up.     *)
(***************************************************************************)
EXTENDS Naturals, Sequences

CONSTANTS Data, Capacity

VARIABLES q, xin, xout

Transfers == {<<>>} \cup {<<d>> : d \in Data}

(* What the queue holds once the cycle's datum has been accepted. *)
Offered == q \o xin

(* The transfers a cycle may make. *)
Cycle ==
  /\ xin \in Transfers
  /\ xout \in Transfers
  /\ xout # <<>> => Offered # <<>> /\ xout = <<Head(Offered)>>

(* What is left of it at the clock edge. *)
Left == IF xout = <<>> THEN Offered ELSE Tail(Offered)

Init == q = <<>> /\ Cycle

Next ==
  /\ q' = Left
  /\ Len(q') <= Capacity
  /\ Cycle'

Spec == Init /\ [][Next]_<<q, xin, xout>>
=============================================================================
