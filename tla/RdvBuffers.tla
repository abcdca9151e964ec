----------------------------- MODULE RdvBuffers -----------------------------
(***************************************************************************)
(* The three buffers block conversion can insert into a data/valid/ready   *)
(* (RDV) channel of a generated block (codegen/block_conversion.cc):       *)
(*                                                                         *)
(*   "flop"  AddRegisterToRDVNodes           one register, ready passes    *)
(*   "skid"  AddSkidBufferToRDVNodes         two registers, ready is cut   *)
(*   "zero"  AddZeroLatencyBufferToRDVNodes  one register, data passes     *)
(*                                                                         *)
(* "none" is an unbuffered channel.  A buffer's registers are the record b *)
(* (the "flop" uses valid and data, "zero" the skid pair, "skid" both      *)
(* pairs).  Its input wires are fv and fd, from_valid and from_data, and   *)
(* tr, to_is_ready.  Wires are operators of the registers and the inputs;  *)
(* NextBuffer is what the registers hold after the clock edge.             *)
(***************************************************************************)
EXTENDS Sequences

Kinds == {"none", "flop", "skid", "zero"}

Buffers(Data) ==
  [valid : BOOLEAN, data : Data, valid_skid : BOOLEAN, skid : Data]

(* Every register is reset to the zero of its type: AddRegisterAfterNode. *)
ResetBuffer(zero) ==
  [valid |-> FALSE, data |-> zero, valid_skid |-> FALSE, skid |-> zero]

-----------------------------------------------------------------------------
(* The wires towards the consumer. *)

ToValid(kind, b, fv) ==
  CASE kind = "none" -> fv
    [] kind = "flop" -> b.valid
    [] kind = "skid" -> b.valid \/ b.valid_skid
    [] kind = "zero" -> fv \/ b.valid_skid

(* A flaw to catch: the newer of two buffered data is presented first. *)
ToDataNewestFirst(kind, b, fd) ==
  CASE kind = "none" -> fd
    [] kind = "flop" -> b.data
    [] kind = "skid" -> IF b.valid THEN b.data ELSE b.skid
    [] kind = "zero" -> IF b.valid_skid THEN b.skid ELSE fd

ToData(kind, b, fd) ==
  CASE kind = "none" -> fd
    [] kind = "flop" -> b.data
    [] kind = "skid" -> IF b.valid_skid THEN b.skid ELSE b.data
    [] kind = "zero" -> IF b.valid_skid THEN b.skid ELSE fd

(* A flaw to catch: the producer is told ready whatever the buffer holds. *)
FromRdyAlways(kind, b, fv, tr) ==
  CASE kind = "none" -> tr
    [] kind = "flop" -> fv
    [] kind \in {"skid", "zero"} -> TRUE

(* A flaw to catch: a buffer reports ready only once it has run empty. *)
FromRdyOnlyWhenEmpty(kind, b, fv, tr) ==
  CASE kind = "none" -> tr
    [] kind = "flop" -> fv /\ ~b.valid /\ tr
    [] kind = "skid" -> ~b.valid_skid /\ ~b.valid
    [] kind = "zero" -> ~b.valid_skid /\ tr

(* The wire towards the producer. *)
FromRdy(kind, b, fv, tr) ==
  CASE kind = "none" -> tr
    [] kind = "flop" -> fv /\ (tr \/ ~b.valid)
    [] kind \in {"skid", "zero"} -> ~b.valid_skid

-----------------------------------------------------------------------------
(* The clock edge, one operator per buffer.                                *)

(* valid_load_en = to_ready or not valid; data_load_en = it and from_valid *)
NextFlop(b, fv, fd, tr) ==
  LET valid_load_en == tr \/ ~b.valid
  IN  [b EXCEPT !.valid = IF valid_load_en THEN fv ELSE @,
                !.data  = IF fv /\ valid_load_en THEN fd ELSE @]

(* A flaw to catch: data_is_sent_to with from_skid_rdy the wrong way       *)
(* round, so that the register in front is cleared while skid is full.     *)
NextSkidWrongPolarity(b, fv, fd, tr) ==
  LET input_ready_and_valid == fv /\ ~b.valid_skid
      skid_data_load_en     == b.valid /\ input_ready_and_valid /\ ~tr
      skid_valid_set_zero   == b.valid_skid /\ tr
  IN  [valid      |-> IF \/ b.valid /\ (tr \/ b.valid_skid)
                         \/ input_ready_and_valid
                        THEN fv ELSE b.valid,
       data       |-> IF input_ready_and_valid THEN fd ELSE b.data,
       valid_skid |-> IF skid_data_load_en \/ skid_valid_set_zero
                        THEN ~b.valid_skid ELSE b.valid_skid,
       skid       |-> IF skid_data_load_en THEN b.data ELSE b.skid]

(* skid_valid toggles when it is loaded. *)
NextSkid(b, fv, fd, tr) ==
  LET input_ready_and_valid == fv /\ ~b.valid_skid
      data_is_sent_to       == b.valid /\ tr /\ ~b.valid_skid
      skid_data_load_en     == b.valid /\ input_ready_and_valid /\ ~tr
      skid_valid_set_zero   == b.valid_skid /\ tr
  IN  [valid      |-> IF data_is_sent_to \/ input_ready_and_valid
                        THEN fv ELSE b.valid,
       data       |-> IF input_ready_and_valid THEN fd ELSE b.data,
       valid_skid |-> IF skid_data_load_en \/ skid_valid_set_zero
                        THEN ~b.valid_skid ELSE b.valid_skid,
       skid       |-> IF skid_data_load_en THEN b.data ELSE b.skid]

NextZeroLatency(b, fv, fd, tr) ==
  LET skid_data_load_en   == fv /\ ~b.valid_skid /\ ~tr
      skid_valid_set_zero == b.valid_skid /\ tr
  IN  [b EXCEPT !.valid_skid = IF skid_data_load_en \/ skid_valid_set_zero
                                 THEN ~@ ELSE @,
                !.skid       = IF skid_data_load_en THEN fd ELSE @]

NextBuffer(kind, b, fv, fd, tr) ==
  CASE kind = "none" -> b
    [] kind = "flop" -> NextFlop(b, fv, fd, tr)
    [] kind = "skid" -> NextSkid(b, fv, fd, tr)
    [] kind = "zero" -> NextZeroLatency(b, fv, fd, tr)
=============================================================================
