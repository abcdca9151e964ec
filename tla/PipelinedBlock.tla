--------------------------- MODULE PipelinedBlock ---------------------------
(***************************************************************************)
(* The block ProcToPipelinedBlock generates for a proc: a pipeline of N    *)
(* stages under bubble flow control (codegen/block_conversion.cc).  An     *)
(* iteration of the proc is an activation that enters at stage 0 and moves *)
(* from stage to stage through the pipeline registers; a stage receives,   *)
(* sends, reads and writes state elements as the schedule placed them.     *)
(*                                                                         *)
(* One step is one clock cycle.  The variables are the block's registers,  *)
(* the wires its neighbours drive (ivalid, oready), the wires              *)
(* data_load_enable, which the other wires are operators of, and records   *)
(* of what crossed the ports (consumed, produced), of what the             *)
(* non-blocking receives gave (polled) and of how many activations have    *)
(* left stage 0 (entered).                                                 *)
(*                                                                         *)
(* The proc is a parameter: the stages of its operations, the predicates   *)
(* of its receives and sends and its next-state functions.  The j-th datum *)
(* of every input channel is the number j, and a send sends all that the   *)
(* activation knows, so that any datum that is lost, repeated, swapped or  *)
(* computed from the wrong state shows in what is produced.                *)
(***************************************************************************)
EXTENDS RdvBuffers, Naturals, FiniteSets, SequencesExt

CONSTANTS
  N,                    \* schedule.length(): the number of stages
  Ins, Outs, Elems,     \* input channels, output channels, state elements
  NonBlocking,          \* the input channels whose receive does not wait
  RecvStage, SendStage, \* the stage of each channel's receive or send
  RecvOrder,            \* receives in the order of their dependences
  ReadStage, WriteStage,\* the stages of each state element's read and write
  RecvPred(_, _), SendPred(_, _), NextState(_, _),
  InitState,            \* GetInitValueElement of every state element
  InKind, OutKind,      \* flop_inputs_kind, flop_outputs_kind, or "none"
  MutuallyExclusive,    \* AreStreamingOutputsMutuallyExclusive(proc)
  Unknown,              \* what an activation has not yet read or received
  MaxIn, MaxOut         \* bounds: data offered and taken on each channel

Stages == 0..(N - 1)

ASSUME BlockAssumption ==
  /\ N \in Nat \ {0}
  /\ NonBlocking \subseteq Ins
  /\ RecvStage \in [Ins -> Stages] /\ SendStage \in [Outs -> Stages]
  /\ IsFiniteSet(Ins) /\ RecvOrder \in [Ins -> 0..(Cardinality(Ins) - 1)]
  /\ \A i, j \in Ins : RecvStage[i] < RecvStage[j] => RecvOrder[i] < RecvOrder[j]
  /\ ReadStage \in [Elems -> Stages] /\ WriteStage \in [Elems -> Stages]
  /\ \A e \in Elems : ReadStage[e] <= WriteStage[e]
  /\ {InKind, OutKind} \subseteq Kinds
  /\ MutuallyExclusive \in BOOLEAN
  /\ Unknown \notin Nat
  /\ MaxIn \in Nat /\ MaxOut \in Nat

VARIABLES
  pipeline_valid,   \* valid registers; stage 0 has none and is always valid
  pipeline_reg,     \* the activation in each stage's data registers
  state_reg,        \* state registers
  reg_full,         \* whether a state register holds a value no one has read
  has_been_sent,    \* one-shot registers
  ibuf, obuf,       \* buffers at the ports
  ivalid, oready,   \* port_valid of input, port_ready of output channels
  data_load_enable, \* per stage: the activation leaves it at the clock edge
  consumed,         \* data taken from each input port
  produced,         \* data delivered at each output port
  polled,           \* what each activation took by non-blocking receives
  entered           \* activations that have left stage 0

registers ==
  <<pipeline_valid, pipeline_reg, state_reg, reg_full, has_been_sent, ibuf, obuf>>
vars ==
  <<registers, ivalid, oready, data_load_enable, consumed, produced, polled, entered>>

NoData == 0     \* the zero that a receive not taken is gated to

(* The data registers out of reset: nothing in them is used. *)
Fresh == [s |-> [e \in Elems |-> Unknown], x |-> [i \in Ins |-> Unknown]]

(* AddOneShotOutputLogic is applied to all outputs or to none. *)
OneShot == Cardinality(Outs) > 1 /\ ~MutuallyExclusive

(* State elements written in a later stage than they are read in. *)
Backedges == {e \in Elems : WriteStage[e] > ReadStage[e]}

RecvsAt(n)  == {i \in Ins : RecvStage[i] = n}
SendsAt(n)  == {k \in Outs : SendStage[k] = n}
ReadsAt(n)  == {e \in Elems : ReadStage[e] = n}

-----------------------------------------------------------------------------
(* What a stage computes. *)

in_valid(i) == ToValid(InKind, ibuf[i], ivalid[i])
in_data(i)  == ToData(InKind, ibuf[i], consumed[i] + 1)

(* The activation in stage n with the state read there. *)
WithState(n) ==
  [pipeline_reg[n] EXCEPT
     !.s = [e \in Elems |-> IF e \in ReadsAt(n) THEN state_reg[e] ELSE @[e]]]

(* A flaw to catch: a non-blocking receive takes the port's data for valid. *)
AtPortUnchecked == [i \in Ins |-> in_data(i)]

(* What a receive would give: a non-blocking one whatever is there, or     *)
(* zero.                                                                   *)
at_port ==
  [i \in Ins |-> IF i \in NonBlocking /\ ~in_valid(i) THEN NoData ELSE in_data(i)]

(* a after the receives C, of which those in taken were made.              *)
WithReceived(a, C, taken, data) ==
  [a EXCEPT !.x = [i \in Ins |->
     IF i \in C THEN IF i \in taken THEN data[i] ELSE NoData ELSE @[i]]]

(* Those of the receives C that an activation makes: the predicate of each *)
(* may depend on what the ones before it gave, in the same stage too.      *)
Before(i) == {j \in Ins : RecvOrder[j] < RecvOrder[i]}

IsTaken(a, C, data, taken) ==
  \A i \in C :
    i \in taken <=> RecvPred(i, WithReceived(a, C \cap Before(i), taken, data))

Receiving(a, C, data) == CHOOSE taken \in SUBSET C : IsTaken(a, C, data, taken)

Receives(i) ==
  LET n == RecvStage[i]
  IN  i \in Receiving(WithState(n), RecvsAt(n), at_port)

Received(i) == IF Receives(i) THEN at_port[i] ELSE NoData

(* The activation in stage n with what is received there.                  *)
Activation(n) ==
  [WithState(n) EXCEPT
     !.x = [i \in Ins |-> IF i \in RecvsAt(n) THEN Received(i) ELSE @[i]]]

Sends(k) == SendPred(k, Activation(SendStage[k]))

-----------------------------------------------------------------------------
(* Flow control: the wires of every stage. *)

(* A non-blocking receive is always valid to the rest of the logic. *)
signal_valid(i) == i \in NonBlocking \/ in_valid(i)

all_active_inputs_valid(n) ==
  \A i \in RecvsAt(n) : Receives(i) => signal_valid(i)

all_active_states_valid(n) ==
  \A e \in Backedges : ReadStage[e] = n => reg_full[e]

all_active_states_ready(n) ==
  \A e \in Backedges : WriteStage[e] = n => ~reg_full[e]

stage_valid(n) == pipeline_valid[n] /\ all_active_states_valid(n)

(* A flaw to catch: a stage advances only into a stage that is just being  *)
(* left, so that bubbles are never filled.                                 *)
NextStageOpenNoBubble(n) == n < N - 1 => data_load_enable[n + 1]

next_stage_open(n) ==
  n < N - 1 => data_load_enable[n + 1] \/ ~pipeline_valid[n + 1]

(* The valid of a send before one-shot logic and output buffer. *)
send_valid(k) ==
  LET n == SendStage[k]
  IN  all_active_inputs_valid(n) /\ stage_valid(n) /\ next_stage_open(n) /\ Sends(k)

(* ... and after the one-shot logic: valid_and_not_has_been_sent. *)
from_valid(k) == send_valid(k) /\ ~(OneShot /\ has_been_sent[k])

to_is_ready(k) == FromRdy(OutKind, obuf[k], from_valid(k), oready[k])

has_sent_or_is_ready(k) == to_is_ready(k) \/ (OneShot /\ has_been_sent[k])

all_active_outputs_ready(n) ==
  \A k \in SendsAt(n) : Sends(k) => has_sent_or_is_ready(k)

stage_done(n) ==
  /\ stage_valid(n)
  /\ all_active_inputs_valid(n)
  /\ all_active_outputs_ready(n)
  /\ all_active_states_ready(n)

(* The wires settle: data_load_enable[n] = enable[n] and stage_done[n].    *)
Settled ==
  \A n \in Stages : data_load_enable[n] = (next_stage_open(n) /\ stage_done(n))

(* The wires at the ports. *)
in_ready(i)  == data_load_enable[RecvStage[i]] /\ Receives(i)
port_ready(i) == FromRdy(InKind, ibuf[i], ivalid[i], in_ready(i))
port_valid(k) == ToValid(OutKind, obuf[k], from_valid(k))
port_data(k)  == ToData(OutKind, obuf[k], Activation(SendStage[k]))

(* A flaw to catch: idle looks at the ports only, not at the pipeline. *)
IdleAtPorts ==
  /\ \A i \in Ins : ~ivalid[i] /\ ~in_valid(i)
  /\ \A k \in Outs : ~port_valid(k)

(* The NOR of all valids.  That of a non-blocking receive is the literal 1: *)
(* with one of them idle is never up.                                      *)
idle ==
  /\ \A n \in Stages \ {0} : ~stage_valid(n)
  /\ \A i \in Ins :
       i \notin NonBlocking /\ ~ivalid[i] /\ (InKind # "none" => ~in_valid(i))
  /\ \A k \in Outs : ~port_valid(k)

-----------------------------------------------------------------------------
(* The clock edge. *)

(* Two flaws to catch: the full bit follows the writes only, or the reads. *)
NextFullNeverTaken(e) == reg_full[e] \/ data_load_enable[WriteStage[e]]
NextFullNeverReturned(e) == reg_full[e] /\ ~data_load_enable[ReadStage[e]]

NextFull(e) ==
  IF data_load_enable[ReadStage[e]] \/ data_load_enable[WriteStage[e]]
    THEN data_load_enable[WriteStage[e]]
    ELSE reg_full[e]

(* Two flaws to catch: the one-shot register is not set by a transfer, and *)
(* it is set by a datum that is presented but not taken.                   *)
NextSentNever(k) == FALSE

NextSentOnValid(k) ==
  LET stage_load == send_valid(k) /\ all_active_outputs_ready(SendStage[k])
  IN  IF from_valid(k) \/ stage_load THEN ~stage_load ELSE has_been_sent[k]

NextSent(k) ==
  LET valid_and_ready_txfr == from_valid(k) /\ to_is_ready(k)
      stage_load == send_valid(k) /\ all_active_outputs_ready(SendStage[k])
  IN  IF valid_and_ready_txfr \/ stage_load THEN ~stage_load ELSE has_been_sent[k]

(* A flaw to catch: the write waits for the stage that reads the state. *)
NextStateRegWrongEnable(e) ==
  IF data_load_enable[WriteStage[e]] /\ data_load_enable[ReadStage[e]]
    THEN NextState(e, Activation(WriteStage[e]))
    ELSE state_reg[e]

NextStateReg(e) ==
  IF data_load_enable[WriteStage[e]]
    THEN NextState(e, Activation(WriteStage[e]))
    ELSE state_reg[e]

NextPipelineReg(n) ==
  IF n > 0 /\ data_load_enable[n - 1] THEN Activation(n - 1) ELSE pipeline_reg[n]

(* A flaw to catch: a valid register follows the stage it belongs to, not  *)
(* the stage before.                                                       *)
NextPipelineValidOffByOne(n) ==
  IF next_stage_open(n) THEN stage_done(n) ELSE pipeline_valid[n]

NextPipelineValid(n) ==
  IF n > 0 /\ next_stage_open(n - 1) THEN stage_done(n - 1) ELSE pipeline_valid[n]

Edge ==
  /\ pipeline_valid' = [n \in Stages |-> NextPipelineValid(n)]
  /\ pipeline_reg' = [n \in Stages |-> NextPipelineReg(n)]
  /\ state_reg' = [e \in Elems |-> NextStateReg(e)]
  /\ reg_full' = [e \in Elems |-> IF e \in Backedges THEN NextFull(e) ELSE TRUE]
  /\ has_been_sent' = [k \in Outs |-> OneShot /\ NextSent(k)]
  /\ ibuf' = [i \in Ins |->
       NextBuffer(InKind, ibuf[i], ivalid[i], consumed[i] + 1, in_ready(i))]
  /\ obuf' = [k \in Outs |->
       NextBuffer(OutKind, obuf[k], from_valid(k), Activation(SendStage[k]), oready[k])]

(* What crosses the ports in the cycle. *)
Transfer ==
  /\ consumed' = [i \in Ins |->
       consumed[i] + IF ivalid[i] /\ port_ready(i) THEN 1 ELSE 0]
  /\ produced' = [k \in Outs |->
       produced[k] \o IF port_valid(k) /\ oready[k] THEN <<port_data(k)>> ELSE <<>>]
  /\ polled' = [i \in NonBlocking |->
       polled[i] \o IF data_load_enable[RecvStage[i]] THEN <<Received(i)>> ELSE <<>>]
  /\ entered' = entered + IF data_load_enable[0] THEN 1 ELSE 0

(* The neighbours: a producer keeps valid up until its datum is taken, a   *)
(* consumer raises and lowers ready as it likes.                           *)
Neighbours ==
  /\ ivalid' \in [Ins -> BOOLEAN]
  /\ \A i \in Ins : IF ivalid[i] /\ ~port_ready(i) THEN ivalid'[i]
                    ELSE ivalid'[i] => consumed'[i] < MaxIn
  /\ oready' \in [Outs -> BOOLEAN]
  /\ \A k \in Outs : oready'[k] => Len(produced'[k]) < MaxOut

(* Out of reset. *)
Reset ==
  /\ pipeline_valid = [n \in Stages |-> n = 0]
  /\ pipeline_reg = [n \in Stages |-> Fresh]
  /\ state_reg = InitState
  /\ reg_full = [e \in Elems |-> TRUE]
  /\ has_been_sent = [k \in Outs |-> FALSE]
  /\ ibuf = [i \in Ins |-> ResetBuffer(NoData)]
  /\ obuf = [k \in Outs |-> ResetBuffer(Fresh)]

Init ==
  /\ Reset
  /\ ivalid \in [Ins -> BOOLEAN] /\ \A i \in Ins : ivalid[i] => MaxIn > 0
  /\ oready \in [Outs -> BOOLEAN] /\ \A k \in Outs : oready[k] => MaxOut > 0
  /\ consumed = [i \in Ins |-> 0]
  /\ produced = [k \in Outs |-> <<>>]
  /\ polled = [i \in NonBlocking |-> <<>>]
  /\ entered = 0
  /\ data_load_enable \in [Stages -> BOOLEAN] /\ Settled

Clock ==
  /\ Edge
  /\ Transfer
  /\ Neighbours
  /\ data_load_enable' \in [Stages -> BOOLEAN] /\ Settled'

Spec == Init /\ [][Clock]_vars

(* The clock runs.  Every producer offers what it has left, every consumer *)
(* takes what it still wants, time and again, but not all at once.         *)
FairNeighbours ==
  /\ \A i \in Ins : []<>(ivalid[i] \/ consumed[i] = MaxIn)
  /\ \A k \in Outs : []<>(oready[k] \/ Len(produced[k]) = MaxOut)

FairSpec == Spec /\ WF_vars(Clock)

-----------------------------------------------------------------------------
(* The proc as it is meant: one iteration after the other.                 *)

(* What iteration a knows in stage n. *)
KnownAt(n, a) ==
  [s |-> [e \in Elems |-> IF ReadStage[e] <= n THEN a.s[e] ELSE Unknown],
   x |-> [i \in Ins |-> IF RecvStage[i] <= n THEN a.x[i] ELSE Unknown]]

(* Before the first iteration: st.s are the states, st.used[i] counts the  *)
(* data of i received so far, st.sent[k] is what has been sent on k.       *)
Start ==
  [s |-> InitState, used |-> [i \in Ins |-> 0], sent |-> [k \in Outs |-> <<>>]]

(* An iteration from st; found[i] says whether a non-blocking receive      *)
(* finds a datum.                                                          *)
Iteration(st, found) ==
  LET a == [Fresh EXCEPT !.s = st.s]
      data == [i \in Ins |->
                 IF i \in NonBlocking /\ ~found[i] THEN NoData ELSE st.used[i] + 1]
  IN  WithReceived(a, Ins, Receiving(a, Ins, data), data)

After(st, a) ==
  [s    |-> [e \in Elems |-> NextState(e, a)],
   used |-> [i \in Ins |-> IF a.x[i] = NoData THEN st.used[i] ELSE a.x[i]],
   sent |-> [k \in Outs |->
               LET datum == KnownAt(SendStage[k], a)
               IN  IF SendPred(k, datum) THEN Append(st.sent[k], datum)
                   ELSE st.sent[k]]]

(* The proc after j iterations, the non-blocking receives of the j-th      *)
(* finding data as finds[j] says.  (The sets of one element, and the       *)
(* comparison, make TLC compute every iteration once.)                     *)
Sequential(finds) ==
  LET run[j \in Nat] ==
        IF j = 0 THEN Start
        ELSE CHOOSE next \in {After(st, Iteration(st, finds[j])) : st \in {run[j - 1]}} :
               next = next
  IN  run

(* What the activations' non-blocking receives have found, and, for those  *)
(* an activation has not left the stage of, what they are to find.         *)
Found(open) ==
  [j \in Nat |-> [i \in NonBlocking |->
     IF j \in DOMAIN polled[i] THEN polled[i][j] # NoData ELSE open[i]]]

(* What the iterations send that the producers' data suffice for, of as    *)
(* many as the neighbours' data and wishes can start.                      *)
MaxIters == Cardinality(Ins) * MaxIn + Cardinality(Outs) * MaxOut + N + 2

AffordableSends ==
  LET run == Sequential([j \in Nat |-> [i \in NonBlocking |-> TRUE]])
  IN  run[Cardinality({j \in 1..MaxIters : \A i \in Ins : run[j].used[i] <= MaxIn})].sent

-----------------------------------------------------------------------------
(* Every register and wire has its type. *)
Activations ==
  [s : [Elems -> Nat \cup {Unknown}], x : [Ins -> Nat \cup {Unknown}]]

TypeOK ==
  /\ pipeline_valid \in [Stages -> BOOLEAN] /\ pipeline_valid[0]
  /\ pipeline_reg \in [Stages -> Activations]
  /\ state_reg \in [Elems -> Nat]
  /\ reg_full \in [Elems -> BOOLEAN]
  /\ has_been_sent \in [Outs -> BOOLEAN]
  /\ ibuf \in [Ins -> Buffers(Nat)]
  /\ obuf \in [Outs -> Buffers(Activations)]
  /\ ivalid \in [Ins -> BOOLEAN] /\ oready \in [Outs -> BOOLEAN]
  /\ data_load_enable \in [Stages -> BOOLEAN]
  /\ consumed \in [Ins -> Nat]
  /\ produced \in [Outs -> Seq(Activations)]
  /\ polled \in [NonBlocking -> Seq(Nat)]
  /\ entered \in Nat

(* The pipeline computes what the proc does iteration by iteration: what   *)
(* has been delivered on each output channel is a prefix of what the       *)
(* sequential proc sends there in the iterations that have begun, with no  *)
(* send lost, repeated, reordered, or made from another iteration's state  *)
(* or datum, however the neighbours stall the pipeline.  Where the data's  *)
(* times of arrival decide what a non-blocking receive gives, there is one *)
(* result of it in every iteration, the one the activation takes along, or *)
(* either one while it is still in the stage of the receive, and all sends, *)
(* next states and predicates of the iteration are made from it            *)
(* (HandleReceiveNode passes data and valid on as wires).                  *)
OutputsAreSequential ==
  \E open \in [NonBlocking -> BOOLEAN] :
    \A k \in Outs :
      IsPrefix(produced[k], Sequential(Found(open))[entered + 1].sent[k])

(* The full bit of a state element with a backedge is exactly "no          *)
(* activation between the read and the write": an activation that has read *)
(* the state owns it until it writes it back, and is alone in owning it.   *)
InFlight(e) == {n \in (ReadStage[e] + 1)..WriteStage[e] : pipeline_valid[n]}

StateHasOneOwner ==
  \A e \in Backedges :
    /\ reg_full[e] <=> InFlight(e) = {}
    /\ \A m, n \in InFlight(e) : m = n

(* states_ready never stalls a stage: valids and one-shot registers leave  *)
(* all_active_states_ready out, although stage_done waits for it, so a     *)
(* stage whose sends were taken must be free to finish.                    *)
WriteNeverStalls ==
  \A n \in Stages : stage_valid(n) => all_active_states_ready(n)

(* The block keeps the ready/valid discipline it relies on: an output port *)
(* that presents a datum presents it until it is taken.                    *)
PortsHold ==
  [][\A k \in Outs : port_valid(k) /\ ~oready[k] =>
       port_valid(k)' /\ port_data(k)' = port_data(k)]_vars

(* idle is the NOR of stage valids (which a missing state pulls down) and  *)
(* of the ports' valids; yet it is only up when no pipeline register and   *)
(* no buffer holds anything (and never in a block that polls).             *)
IdleMeansEmpty ==
  idle => /\ \A n \in Stages \ {0} : ~pipeline_valid[n]
          /\ \A i \in Ins : ~ibuf[i].valid /\ ~ibuf[i].valid_skid
          /\ \A k \in Outs : ~obuf[k].valid /\ ~obuf[k].valid_skid

(* The pipeline drains: if producers and consumers are each ready time and *)
(* again, never necessarily together, everything the proc sends for the    *)
(* data it is given comes out.                                             *)
EverythingComesOut ==
  FairNeighbours =>
    <>(\A k \in Outs :
         Len(produced[k]) = MaxOut
         \/ Len(produced[k]) >= Len(AffordableSends[k]))
=============================================================================
