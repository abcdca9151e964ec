----------------------------- MODULE RdvBuffer -----------------------------
(***************************************************************************)
(* One buffer of kind Kind between a producer and a consumer that raise    *)
(* valid and ready as they like, one step per clock cycle.  The variables  *)
(* are the buffer's registers and the three wires driven from outside; the *)
(* wires the buffer drives are operators of them.  The producer is assumed *)
(* nothing of: it may withdraw a datum it offered (valid may fall without  *)
(* a transfer), as the logic in front of an output buffer may.             *)
(***************************************************************************)
EXTENDS RdvBuffers, Naturals

CONSTANTS
  Kind,   \* options.flop_inputs_kind() or options.flop_outputs_kind()
  Data,   \* the data of the channel
  Zero    \* the value a data register is reset to

ASSUME RdvAssumption == Kind \in {"flop", "skid", "zero"} /\ Zero \in Data

VARIABLES
  buf,         \* the registers
  from_valid, from_data, to_ready

vars == <<buf, from_valid, from_data, to_ready>>

to_valid == ToValid(Kind, buf, from_valid)
to_data  == ToData(Kind, buf, from_data)
from_rdy == FromRdy(Kind, buf, from_valid, to_ready)

(* What producer and consumer drive during a cycle. *)
Drive ==
  /\ from_valid \in BOOLEAN
  /\ from_data \in Data
  /\ to_ready \in BOOLEAN

Init == buf = ResetBuffer(Zero) /\ Drive

Clock ==
  /\ buf' = NextBuffer(Kind, buf, from_valid, from_data, to_ready)
  /\ from_valid' \in BOOLEAN
  /\ from_data' \in Data
  /\ to_ready' \in BOOLEAN

Spec == Init /\ [][Clock]_vars

-----------------------------------------------------------------------------
(* What the registers hold, oldest first. *)
Contents ==
  CASE Kind = "flop" -> IF buf.valid THEN <<buf.data>> ELSE <<>>
    [] Kind = "skid" -> (IF buf.valid_skid THEN <<buf.skid>> ELSE <<>>)
                          \o (IF buf.valid THEN <<buf.data>> ELSE <<>>)
    [] Kind = "zero" -> IF buf.valid_skid THEN <<buf.skid>> ELSE <<>>

Capacity == IF Kind = "skid" THEN 2 ELSE 1

Accepted  == IF from_valid /\ from_rdy THEN <<from_data>> ELSE <<>>
Delivered == IF to_valid /\ to_ready THEN <<to_data>> ELSE <<>>

(* The registers and the wires have their types. *)
TypeOK ==
  /\ buf \in Buffers(Data)
  /\ from_valid \in BOOLEAN
  /\ from_data \in Data
  /\ to_ready \in BOOLEAN

(* The skid register of a skid buffer is only full while the register in   *)
(* front of it is: the load enables of the two never leave a datum in the  *)
(* skid register alone, so the buffer never holds a gap.                   *)
SkidBehindData == Kind = "skid" /\ buf.valid_skid => buf.valid

(* A buffer with room for a datum takes the datum it is offered: no kind   *)
(* of buffer throttles its producer while it could hold more.              *)
AcceptsWhileRoom ==
  from_valid /\ Len(Contents) < Capacity => from_rdy

(* The ready/valid discipline towards the consumer: a datum presented and  *)
(* not taken is presented, unchanged, in the next cycle, whatever the      *)
(* producer does meanwhile, even if it withdraws the datum.                *)
HeldUntilTaken ==
  [][to_valid /\ ~to_ready => to_valid' /\ to_data' = to_data]_vars

Fifo == INSTANCE RdvFifo WITH q <- Contents, xin <- Accepted, xout <- Delivered

(* Seen at its ports the buffer is a FIFO of one datum (flop, zero         *)
(* latency) or two (skid): every datum for which valid and ready were high *)
(* at the input is delivered at the output once, in order, and no other.   *)
ImplementsFifo == Fifo!Spec
=============================================================================
