------------------------ MODULE PipelinedBlock_proofs ------------------------
(***************************************************************************)
(* The state backedges of a pipelined block are safe for every proc, every *)
(* schedule and every depth of the pipeline.  The argument is about the    *)
(* wires data_load_enable alone: what the stages compute, and what the     *)
(* neighbours do, only decides which of them are up.                       *)
(***************************************************************************)
EXTENDS PipelinedBlock, SequenceTheorems, FiniteSetTheorems, WellFoundedInduction,
        TLAPS

-----------------------------------------------------------------------------
(***************************************************************************)
(* The receives of a stage.                                                *)
(***************************************************************************)

(* Induction up to b: what holds of 0 and passes from k to k + 1 holds of  *)
(* 0..b.                                                                   *)
LEMMA UpTo ==
  ASSUME NEW b \in Nat, NEW S, 0 \in S,
         \A k \in 0 .. b : k < b /\ k \in S => k + 1 \in S
  PROVE  \A k \in 0 .. b : k \in S
<1> DEFINE T == {k \in 0 .. b : k \notin S}
           R == OpToRel(<, Nat)
<1>1. IsWellFoundedOn(R, Nat)  BY NatLessThanWellFounded, Zenon
<1>2. \A p, q \in Nat : q < p => <<q, p>> \in R  BY Zenon DEF OpToRel
<1>3. T \subseteq Nat  OBVIOUS
<1> HIDE DEF R, T
<1>4. ASSUME T # {} PROVE FALSE
  <2>1. PICK m \in T : \A q \in T : <<q, m>> \notin R
    BY <1>1, <1>3, <1>4, WFMin
  <2>2. m \in 0 .. b /\ m \notin S /\ m \in Nat  BY <2>1, <1>3 DEF T
  <2>3. m # 0  BY <2>2
  <2>4. m - 1 \in 0 .. b /\ m - 1 \in Nat /\ m - 1 < m /\ m - 1 < b /\ (m - 1) + 1 = m
    BY <2>2, <2>3
  <2>5. m - 1 \notin T  BY <1>2, <2>1, <2>2, <2>4
  <2>6. m - 1 \in S  BY <2>4, <2>5 DEF T
  <2> QED BY <2>2, <2>4, <2>6
<1> QED BY <1>4 DEF T

(* The same for all naturals. *)
LEMMA OverNat ==
  ASSUME NEW S, 0 \in S, \A k \in Nat : k \in S => k + 1 \in S
  PROVE  \A k \in Nat : k \in S
<1> SUFFICES ASSUME NEW b \in Nat PROVE b \in S  OBVIOUS
<1>1. \A k \in 0 .. b : k \in S  BY UpTo
<1>2. b \in 0 .. b  OBVIOUS
<1> QED BY <1>1, <1>2

(* The order of the receives is bounded. *)
LEMMA OrderBound ==
  /\ Cardinality(Ins) \in Nat
  /\ \A i \in Ins : RecvOrder[i] \in Nat /\ RecvOrder[i] < Cardinality(Ins)
<1>1. Cardinality(Ins) \in Nat  BY BlockAssumption, FS_CardinalityType
<1>2. \A i \in Ins : RecvOrder[i] \in 0..(Cardinality(Ins) - 1)
  BY BlockAssumption
<1> QED BY <1>1, <1>2

(* What the receives D gave depends on which of them were made and on      *)
(* their data.                                                             *)
LEMMA ReceivedSame ==
  ASSUME NEW a, NEW D, NEW t1, NEW t2, NEW d1, NEW d2,
         \A j \in D : (j \in t1 <=> j \in t2) /\ (j \in t1 => d1[j] = d2[j])
  PROVE  WithReceived(a, D, t1, d1) = WithReceived(a, D, t2, d2)
<1> DEFINE X(t, d) == [i \in Ins |->
             IF i \in D THEN IF i \in t THEN d[i] ELSE NoData ELSE a.x[i]]
<1>1. X(t1, d1) = X(t2, d2)  OBVIOUS
<1>2. /\ WithReceived(a, D, t1, d1) = [a EXCEPT !.x = X(t1, d1)]
      /\ WithReceived(a, D, t2, d2) = [a EXCEPT !.x = X(t2, d2)]
  BY DEF WithReceived
<1> HIDE DEF X
<1> QED BY <1>1, <1>2

(* There is an answer to which receives are made: each is asked after the  *)
(* ones its predicate may depend on.                                       *)
LEMMA ReceivingIs ==
  ASSUME NEW a, NEW C \in SUBSET Ins, NEW data
  PROVE  /\ Receiving(a, C, data) \in SUBSET C
         /\ IsTaken(a, C, data, Receiving(a, C, data))
<1> DEFINE Asks(i, T) == RecvPred(i, WithReceived(a, C \cap Before(i), T, data))
           Answers(r, T) == \A i \in C : RecvOrder[i] < r => (i \in T <=> Asks(i, T))
           S == {r \in Nat : \E T \in SUBSET C : Answers(r, T)}
<1>0. \A i \in C : RecvOrder[i] \in Nat /\ RecvOrder[i] < Cardinality(Ins)
  BY OrderBound
<1>1. 0 \in S
  <2>1. Answers(0, {})  BY <1>0
  <2> QED BY <2>1
<1>2. ASSUME NEW r \in Nat, r \in S PROVE r + 1 \in S
  <2>1. PICK T \in SUBSET C : Answers(r, T)  BY <1>2
  <2> DEFINE U == {i \in C : IF RecvOrder[i] = r THEN Asks(i, T) ELSE i \in T}
  <2>2. ASSUME NEW i \in C, RecvOrder[i] < r + 1 PROVE Asks(i, U) <=> Asks(i, T)
    <3>1. \A j \in C \cap Before(i) : RecvOrder[j] # r
      BY <1>0, <2>2 DEF Before
    <3>2. \A j \in C \cap Before(i) : j \in U <=> j \in T  BY <3>1
    <3> HIDE DEF U
    <3>3. WithReceived(a, C \cap Before(i), U, data)
            = WithReceived(a, C \cap Before(i), T, data)
      BY <3>2, ReceivedSame
    <3> QED BY <3>3
  <2>3. ASSUME NEW i \in C, RecvOrder[i] < r + 1 PROVE i \in U <=> Asks(i, U)
    <3>1. RecvOrder[i] = r \/ RecvOrder[i] < r  BY <1>0, <2>3
    <3>2. i \in U <=> Asks(i, T)
      <4> HIDE DEF Asks
      <4>1. CASE RecvOrder[i] = r  BY <4>1
      <4>2. CASE RecvOrder[i] # r  BY <2>1, <3>1, <4>2
      <4> QED BY <4>1, <4>2
    <3> HIDE DEF Asks, U
    <3> QED BY <2>2, <2>3, <3>2
  <2>4. U \in SUBSET C /\ Answers(r + 1, U)  BY <2>3
  <2> HIDE DEF Answers, U
  <2>5. \E T2 \in SUBSET C : Answers(r + 1, T2)  BY <2>4
  <2> QED BY <2>5
<1> HIDE DEF S
<1>3. Cardinality(Ins) \in S  BY <1>1, <1>2, OrderBound, OverNat
<1>4. PICK T \in SUBSET C : Answers(Cardinality(Ins), T)  BY <1>3 DEF S
<1>5. IsTaken(a, C, data, T)  BY <1>0, <1>4 DEF IsTaken
<1> QED BY <1>5 DEF Receiving

(* It does not depend on data that are not received. *)
LEMMA ReceivingAgrees ==
  ASSUME NEW a, NEW C \in SUBSET Ins, NEW d1, NEW d2,
         \A i \in Receiving(a, C, d1) : d1[i] = d2[i]
  PROVE  Receiving(a, C, d2) = Receiving(a, C, d1)
<1> DEFINE t1 == Receiving(a, C, d1)
           t2 == Receiving(a, C, d2)
           S == {r \in Nat : \A i \in C : RecvOrder[i] < r => (i \in t1 <=> i \in t2)}
<1>0. \A i \in C : RecvOrder[i] \in Nat /\ RecvOrder[i] < Cardinality(Ins)
  BY OrderBound
<1>1. /\ t1 \in SUBSET C /\ IsTaken(a, C, d1, t1)
      /\ t2 \in SUBSET C /\ IsTaken(a, C, d2, t2)
  BY ReceivingIs
<1>d. \A i \in t1 : d1[i] = d2[i]  OBVIOUS
<1> HIDE DEF t1, t2
<1>2. 0 \in S  BY <1>0
<1>3. ASSUME NEW r \in Nat, r \in S PROVE r + 1 \in S
  <2> SUFFICES ASSUME NEW i \in C, RecvOrder[i] < r + 1 PROVE i \in t1 <=> i \in t2
    OBVIOUS
  <2>1. \A j \in C \cap Before(i) : j \in t1 <=> j \in t2
    BY <1>0, <1>3 DEF Before
  <2>2. WithReceived(a, C \cap Before(i), t1, d1)
          = WithReceived(a, C \cap Before(i), t2, d2)
    BY <1>d, <2>1, ReceivedSame
  <2>3. /\ i \in t1 <=> RecvPred(i, WithReceived(a, C \cap Before(i), t1, d1))
        /\ i \in t2 <=> RecvPred(i, WithReceived(a, C \cap Before(i), t2, d2))
    BY <1>1 DEF IsTaken
  <2> QED BY <2>2, <2>3
<1> HIDE DEF S
<1>4. Cardinality(Ins) \in S  BY <1>2, <1>3, OrderBound, OverNat
<1>5. t1 = t2  BY <1>0, <1>1, <1>4 DEF S
<1> QED BY <1>5 DEF t1, t2

-----------------------------------------------------------------------------
(***************************************************************************)
(* State backedges.                                                        *)
(***************************************************************************)

(* The inductive invariant: StateHasOneOwner needs to know that the wires  *)
(* are settled, for the full bit follows data_load_enable.                 *)
Wired ==
  /\ pipeline_valid \in [Stages -> BOOLEAN] /\ pipeline_valid[0]
  /\ reg_full \in [Elems -> BOOLEAN]
  /\ data_load_enable \in [Stages -> BOOLEAN]
  /\ Settled

OwnerInv == Wired /\ StateHasOneOwner

(* A state element with a backedge is read in one stage and written in a   *)
(* later one.                                                              *)
LEMMA BackedgeStages ==
  ASSUME NEW e \in Backedges
  PROVE  /\ e \in Elems
         /\ ReadStage[e] \in Stages /\ WriteStage[e] \in Stages
         /\ ReadStage[e] \in Nat /\ WriteStage[e] \in Nat /\ N \in Nat
         /\ ReadStage[e] < WriteStage[e]
         /\ (ReadStage[e] + 1)..WriteStage[e] \subseteq Stages \ {0}
<1>1. /\ e \in Elems /\ WriteStage[e] > ReadStage[e]
  BY DEF Backedges
<1>2. /\ ReadStage[e] \in Stages /\ WriteStage[e] \in Stages /\ N \in Nat
  BY <1>1, BlockAssumption
<1> QED BY <1>1, <1>2 DEF Stages

(* What a stage that is left tells: it held an activation, the next stage  *)
(* is free or is left too, the state it reads is there, the state it       *)
(* writes is not.                                                          *)
LEMMA LoadEnables ==
  ASSUME Wired, NEW n \in Stages
  PROVE  /\ data_load_enable[n] = (next_stage_open(n) /\ stage_done(n))
         /\ data_load_enable[n] =>
              /\ pipeline_valid[n]
              /\ \A e \in Backedges : ReadStage[e] = n => reg_full[e]
              /\ \A e \in Backedges : WriteStage[e] = n => ~reg_full[e]
<1>1. data_load_enable[n] = (next_stage_open(n) /\ stage_done(n))
  BY DEF Wired, Settled
<1> QED BY <1>1 DEF stage_done, stage_valid, all_active_states_valid,
                    all_active_states_ready

(* A stage is occupied after the clock edge if the stage before it was     *)
(* left, or if it was occupied and was not left.                           *)
LEMMA NextValid ==
  ASSUME Wired, Clock, NEW n \in Stages, n # 0
  PROVE  pipeline_valid'[n] =
           (data_load_enable[n - 1] \/ (pipeline_valid[n] /\ ~data_load_enable[n]))
<1>0. /\ n - 1 \in Stages /\ n > 0 /\ n - 1 < N - 1 /\ (n - 1) + 1 = n
  BY BlockAssumption DEF Stages
<1>1. pipeline_valid'[n] = NextPipelineValid(n)
  BY DEF Clock, Edge
<1>2. NextPipelineValid(n) =
        IF next_stage_open(n - 1) THEN stage_done(n - 1) ELSE pipeline_valid[n]
  BY <1>0 DEF NextPipelineValid
<1>3. next_stage_open(n - 1) <=> (data_load_enable[n] \/ ~pipeline_valid[n])
  BY <1>0 DEF next_stage_open
<1>4. data_load_enable[n - 1] <=> (next_stage_open(n - 1) /\ stage_done(n - 1))
  BY <1>0, LoadEnables
<1>5. /\ data_load_enable[n] \in BOOLEAN /\ pipeline_valid[n] \in BOOLEAN
      /\ data_load_enable[n - 1] \in BOOLEAN
  BY <1>0 DEF Wired
<1>6. stage_done(n - 1) \in BOOLEAN
  BY DEF stage_done
<1>7. CASE next_stage_open(n - 1)
  <2>1. pipeline_valid'[n] = stage_done(n - 1)
    BY <1>1, <1>2, <1>7
  <2>2. data_load_enable[n - 1] = stage_done(n - 1)
    BY <1>4, <1>5, <1>6, <1>7
  <2>3. ~(pipeline_valid[n] /\ ~data_load_enable[n])
    BY <1>3, <1>7
  <2> QED BY <2>1, <2>2, <2>3, <1>5
<1>8. CASE ~next_stage_open(n - 1)
  <2>1. pipeline_valid'[n] = pipeline_valid[n]
    BY <1>1, <1>2, <1>8
  <2>2. ~data_load_enable[n - 1] /\ pipeline_valid[n] /\ ~data_load_enable[n]
    BY <1>3, <1>4, <1>8
  <2> QED BY <2>1, <2>2, <1>5
<1> QED BY <1>7, <1>8

(* Registers keep their types and the wires settle again. *)
LEMMA WiredStep ==
  ASSUME Wired, Clock
  PROVE  Wired'
<1>1. pipeline_valid' \in [Stages -> BOOLEAN]
  <2>1. ASSUME NEW n \in Stages
        PROVE  NextPipelineValid(n) \in BOOLEAN
    BY DEF NextPipelineValid, stage_done, Wired
  <2> QED BY <2>1 DEF Clock, Edge
<1>2. pipeline_valid'[0]
  <2>1. 0 \in Stages
    BY BlockAssumption DEF Stages
  <2>2. NextPipelineValid(0) = pipeline_valid[0]
    BY DEF NextPipelineValid
  <2> QED BY <2>1, <2>2 DEF Clock, Edge, Wired
<1>3. reg_full' \in [Elems -> BOOLEAN]
  <2>1. ASSUME NEW e \in Elems
        PROVE  NextFull(e) \in BOOLEAN
    BY BlockAssumption DEF NextFull, Wired
  <2> QED BY <2>1 DEF Clock, Edge
<1>4. data_load_enable' \in [Stages -> BOOLEAN] /\ Settled'
  BY DEF Clock
<1> QED BY <1>1, <1>2, <1>3, <1>4 DEF Wired

(* A clock cycle hands a state over or leaves it where it is.  While the   *)
(* register is full nobody is between read and write, and only the reading *)
(* stage can let an activation in; while it is empty the reading stage is  *)
(* shut, and the owner advances by a stage, stays, or writes and is gone.  *)
LEMMA OwnerStep ==
  ASSUME OwnerInv, Clock, NEW e \in Backedges
  PROVE  /\ reg_full'[e] <=> InFlight(e)' = {}
         /\ \A m, n \in InFlight(e)' : m = n
<1> DEFINE r == ReadStage[e]
           w == WriteStage[e]
           Between == (r + 1)..w
<1>t. /\ e \in Elems /\ r \in Stages /\ w \in Stages
      /\ r \in Nat /\ w \in Nat /\ r < w /\ Between \subseteq Stages \ {0}
  BY BackedgeStages
<1>w. Wired
  BY DEF OwnerInv
<1>L. /\ data_load_enable[r] => reg_full[e]
      /\ data_load_enable[w] => ~reg_full[e]
      /\ \A n \in Between : data_load_enable[n] => pipeline_valid[n]
  BY <1>t, <1>w, LoadEnables
<1>b. /\ reg_full[e] \in BOOLEAN
      /\ data_load_enable[r] \in BOOLEAN /\ data_load_enable[w] \in BOOLEAN
  BY <1>t, <1>w DEF Wired
<1>f. reg_full'[e] = IF data_load_enable[r] \/ data_load_enable[w]
                       THEN data_load_enable[w] ELSE reg_full[e]
  BY <1>t DEF Clock, Edge, NextFull
<1>v. \A n \in Between :
        pipeline_valid'[n] <=>
          (data_load_enable[n - 1] \/ (pipeline_valid[n] /\ ~data_load_enable[n]))
  BY <1>t, <1>w, NextValid
<1>i. /\ InFlight(e) = {n \in Between : pipeline_valid[n]}
      /\ InFlight(e)' = {n \in Between : pipeline_valid'[n]}
  BY DEF InFlight
<1>o. /\ reg_full[e] <=> InFlight(e) = {}
      /\ \A m, n \in InFlight(e) : m = n
  BY DEF OwnerInv, StateHasOneOwner
<1>p. \A n \in Between : n \in Nat /\ n # r /\ (n - 1 = r \/ n - 1 \in Between)
  BY <1>t
<1> HIDE DEF r, w, Between
<1>1. CASE reg_full[e]
  <2>1. \A n \in Between : ~pipeline_valid[n] /\ ~data_load_enable[n]
    BY <1>1, <1>o, <1>i, <1>L
  <2>2. \A n \in Between : pipeline_valid'[n] <=> (n - 1 = r /\ data_load_enable[r])
    BY <2>1, <1>v, <1>p
  <2>3. CASE data_load_enable[r]
    <3>1. r + 1 \in Between /\ (r + 1) - 1 = r
      BY <1>t DEF Between
    <3>2. \A n \in Between : n - 1 = r => n = r + 1
      BY <1>t, <1>p
    <3>3. InFlight(e)' = {r + 1}
      BY <1>i, <2>2, <2>3, <3>1, <3>2
    <3>4. ~reg_full'[e]
      BY <1>f, <1>L, <1>1, <2>3
    <3> QED BY <3>3, <3>4
  <2>4. CASE ~data_load_enable[r]
    <3>1. InFlight(e)' = {}
      BY <1>i, <2>2, <2>4
    <3>2. reg_full'[e]
      BY <1>f, <1>L, <1>1, <2>4
    <3> QED BY <3>1, <3>2
  <2> QED BY <2>3, <2>4
<1>2. CASE ~reg_full[e]
  <2>1. ~data_load_enable[r]
    BY <1>2, <1>L
  <2>2. PICK m \in Between : pipeline_valid[m]
    BY <1>2, <1>o, <1>i
  <2>3. \A n \in Between : (pipeline_valid[n] => n = m) /\ (data_load_enable[n] => n = m)
    BY <2>2, <1>o, <1>i, <1>L
  <2>4. \A n \in Between : data_load_enable[n - 1] => n - 1 = m
    BY <2>1, <2>3, <1>p
  <2>5. CASE data_load_enable[m]
    <3>1. \A n \in Between : pipeline_valid'[n] <=> n - 1 = m
      BY <2>2, <2>3, <2>4, <2>5, <1>v
    <3>2. CASE m = w
      <4>1. \A n \in Between : n - 1 # m
        BY <3>2, <1>t DEF Between
      <4>2. InFlight(e)' = {}
        BY <4>1, <3>1, <1>i
      <4>3. reg_full'[e]
        BY <3>2, <2>5, <1>f, <1>b
      <4> QED BY <4>2, <4>3
    <3>3. CASE m # w
      <4>1. m + 1 \in Between /\ (m + 1) - 1 = m
        BY <3>3, <2>2, <1>t DEF Between
      <4>2. \A n \in Between : n - 1 = m => n = m + 1
        BY <1>p, <2>2
      <4>3. InFlight(e)' = {m + 1}
        BY <4>1, <4>2, <3>1, <1>i
      <4>4. w \in Between
        BY <1>t DEF Between
      <4>5. ~reg_full'[e]
        BY <4>4, <3>3, <2>1, <2>3, <1>2, <1>f
      <4> QED BY <4>3, <4>5
    <3> QED BY <3>2, <3>3
  <2>6. CASE ~data_load_enable[m]
    <3>1. \A n \in Between : ~data_load_enable[n - 1] /\ ~data_load_enable[n]
      BY <2>3, <2>4, <2>6
    <3>2. InFlight(e)' = {m}
      BY <3>1, <2>2, <2>3, <1>v, <1>i
    <3>3. w \in Between
      BY <1>t DEF Between
    <3>4. ~reg_full'[e]
      BY <3>1, <3>3, <2>1, <1>2, <1>f
    <3> QED BY <3>2, <3>4
  <2> QED BY <2>5, <2>6
<1> QED BY <1>1, <1>2

(* While no register and no port changes, no wire does. *)
LEMMA SettledStutters ==
  ASSUME Settled, UNCHANGED vars
  PROVE  Settled'
<1> USE DEF vars, registers
<1>1. /\ \A i \in Ins : in_valid(i)' = in_valid(i) /\ in_data(i)' = in_data(i)
      /\ \A n \in Stages : next_stage_open(n)' = next_stage_open(n)
      /\ \A n \in Stages : stage_valid(n)' = stage_valid(n)
      /\ \A n \in Stages : all_active_states_ready(n)' = all_active_states_ready(n)
  BY DEF in_valid, in_data, ToValid, ToData, next_stage_open, stage_valid,
         all_active_states_valid, all_active_states_ready
<1>2. \A n \in Stages : WithState(n)' = WithState(n)
  BY DEF WithState
<1>p. at_port' = at_port  BY <1>1 DEF at_port
<1>3. \A i \in Ins : Receives(i)' = Receives(i)
  BY <1>2, <1>p, BlockAssumption DEF Receives
<1>r. \A i \in Ins : Received(i)' = Received(i)
  BY <1>3, <1>p DEF Received
<1>4. \A n \in Stages : Activation(n)' = Activation(n)
  BY <1>2, <1>r DEF Activation, RecvsAt
<1>5. \A k \in Outs : Sends(k)' = Sends(k)
  BY <1>4, BlockAssumption DEF Sends
<1>6. \A n \in Stages : all_active_inputs_valid(n)' = all_active_inputs_valid(n)
  BY <1>1, <1>3 DEF all_active_inputs_valid, signal_valid, RecvsAt
<1>7. \A k \in Outs : has_sent_or_is_ready(k)' = has_sent_or_is_ready(k)
  BY <1>1, <1>5, <1>6, BlockAssumption
     DEF has_sent_or_is_ready, to_is_ready, FromRdy, from_valid, send_valid
<1>8. \A n \in Stages : all_active_outputs_ready(n)' = all_active_outputs_ready(n)
  BY <1>5, <1>7 DEF all_active_outputs_ready, SendsAt
<1>9. \A n \in Stages : stage_done(n)' = stage_done(n)
  BY <1>1, <1>6, <1>8 DEF stage_done
<1> QED BY <1>1, <1>9 DEF Settled

(* The invariant holds out of reset. *)
LEMMA OwnerInit == Init => OwnerInv
<1> SUFFICES ASSUME Init PROVE OwnerInv
  OBVIOUS
<1>1. Wired
  <2>1. 0 \in Stages
    BY BlockAssumption DEF Stages
  <2>2. \A n \in Stages : pipeline_valid[n] = (n = 0)
    BY DEF Init, Reset
  <2>3. /\ pipeline_valid \in [Stages -> BOOLEAN]
        /\ reg_full \in [Elems -> BOOLEAN]
    BY DEF Init, Reset
  <2>4. data_load_enable \in [Stages -> BOOLEAN] /\ Settled
    BY DEF Init
  <2> QED BY <2>1, <2>2, <2>3, <2>4 DEF Wired
<1>2. \A e \in Backedges : reg_full[e] /\ InFlight(e) = {}
  <2> SUFFICES ASSUME NEW e \in Backedges
               PROVE  reg_full[e] /\ InFlight(e) = {}
    OBVIOUS
  <2>1. /\ e \in Elems
        /\ \A n \in (ReadStage[e] + 1)..WriteStage[e] : n \in Stages /\ n # 0
    BY BackedgeStages
  <2>2. reg_full[e] /\ \A n \in Stages : pipeline_valid[n] = (n = 0)
    BY <2>1 DEF Init, Reset
  <2> QED BY <2>1, <2>2 DEF InFlight
<1> QED BY <1>1, <1>2 DEF OwnerInv, StateHasOneOwner

(* The clock edge keeps it. *)
LEMMA OwnerInvStep == OwnerInv /\ [Clock]_vars => OwnerInv'
<1> SUFFICES ASSUME OwnerInv, [Clock]_vars PROVE OwnerInv'
  OBVIOUS
<1>1. CASE Clock
  <2>1. Wired'
    BY <1>1, WiredStep DEF OwnerInv
  <2>2. StateHasOneOwner'
    BY <1>1, OwnerStep DEF StateHasOneOwner
  <2> QED BY <2>1, <2>2 DEF OwnerInv
<1>2. CASE UNCHANGED vars
  <2>1. Settled'
    BY <1>2, SettledStutters DEF OwnerInv, Wired
  <2>2. Wired'
    BY <1>2, <2>1 DEF OwnerInv, Wired, vars, registers
  <2>3. StateHasOneOwner'
    BY <1>2 DEF OwnerInv, StateHasOneOwner, InFlight, vars, registers
  <2> QED BY <2>2, <2>3 DEF OwnerInv
<1> QED BY <1>1, <1>2

(* So it always holds. *)
LEMMA OwnerInvHolds == Spec => []OwnerInv
BY OwnerInit, OwnerInvStep, PTL DEF Spec

(* Whatever the proc, the schedule and the depth of the pipeline: the full *)
(* bit of a state register with a backedge is up exactly when no           *)
(* activation is between reading and writing it, and at most one ever is   *)
(* (the reg_full logic of UpdatePipelineWithBubbleFlowControl).            *)
THEOREM StateOwnership == Spec => []StateHasOneOwner
<1>1. OwnerInv => StateHasOneOwner
  BY DEF OwnerInv
<1> QED BY <1>1, OwnerInvHolds, PTL

(* Whatever the proc, the schedule and the depth of the pipeline: a stage  *)
(* that is valid finds the register it writes empty, so that stage_done's  *)
(* states_ready, which valids and one-shot logic leave out, never stalls.  *)
THEOREM WritesNeverStall == Spec => []WriteNeverStalls
<1>1. OwnerInv => WriteNeverStalls
  <2> SUFFICES ASSUME OwnerInv, NEW n \in Stages, stage_valid(n),
                      NEW e \in Backedges, WriteStage[e] = n
               PROVE  ~reg_full[e]
    BY DEF WriteNeverStalls, all_active_states_ready
  <2>1. n \in (ReadStage[e] + 1)..WriteStage[e]
    BY BackedgeStages
  <2>2. pipeline_valid[n]
    BY DEF stage_valid
  <2>3. n \in InFlight(e)
    BY <2>1, <2>2 DEF InFlight
  <2> QED BY <2>3 DEF OwnerInv, StateHasOneOwner
<1> QED BY <1>1, OwnerInvHolds, PTL
-----------------------------------------------------------------------------
(***************************************************************************)
(* The buffers at the ports.                                               *)
(***************************************************************************)

(* The fields of a buffer, whatever the data are. *)
IsBuffer(b) ==
  /\ b = [valid |-> b.valid, data |-> b.data, valid_skid |-> b.valid_skid,
          skid |-> b.skid]
  /\ b.valid \in BOOLEAN /\ b.valid_skid \in BOOLEAN

(* A kind of buffer that lacks a register never has it full. *)
UnusedEmpty(kind, b) ==
  /\ kind \in {"none", "zero"} => ~b.valid
  /\ kind \in {"none", "flop"} => ~b.valid_skid

(* The registers of a skid buffer after the clock edge, one by one. *)
LEMMA SkidEdge ==
  ASSUME NEW b, NEW fv, NEW fd, NEW tr
  PROVE  LET c == NextSkid(b, fv, fd, tr)
         IN  /\ c.valid = IF (b.valid /\ tr /\ ~b.valid_skid)
                             \/ (fv /\ ~b.valid_skid) THEN fv ELSE b.valid
             /\ c.data = IF fv /\ ~b.valid_skid THEN fd ELSE b.data
             /\ c.valid_skid = IF (b.valid /\ (fv /\ ~b.valid_skid) /\ ~tr)
                                  \/ (b.valid_skid /\ tr)
                                 THEN ~b.valid_skid ELSE b.valid_skid
             /\ c.skid = IF b.valid /\ (fv /\ ~b.valid_skid) /\ ~tr
                           THEN b.data ELSE b.skid
             /\ c = [valid |-> c.valid, data |-> c.data,
                     valid_skid |-> c.valid_skid, skid |-> c.skid]
BY DEF NextSkid

(* The clock edge keeps both. *)
LEMMA BufferStep ==
  ASSUME NEW kind \in Kinds, NEW b, IsBuffer(b), UnusedEmpty(kind, b),
         NEW fv \in BOOLEAN, NEW fd, NEW tr \in BOOLEAN
  PROVE  /\ IsBuffer(NextBuffer(kind, b, fv, fd, tr))
         /\ UnusedEmpty(kind, NextBuffer(kind, b, fv, fd, tr))
<1> DEFINE c == NextBuffer(kind, b, fv, fd, tr)
<1>1. CASE kind = "none"
  BY <1>1 DEF NextBuffer
<1>2. CASE kind = "flop"
  <2>1. c = NextFlop(b, fv, fd, tr)  BY <1>2 DEF NextBuffer
  <2>2. /\ c.valid \in BOOLEAN /\ c.valid_skid = b.valid_skid
        /\ c = [valid |-> c.valid, data |-> c.data,
                valid_skid |-> c.valid_skid, skid |-> c.skid]
    BY <2>1 DEF NextFlop, IsBuffer
  <2> HIDE DEF c
  <2>3. IsBuffer(c) /\ UnusedEmpty(kind, c)
    BY <1>2, <2>2 DEF IsBuffer, UnusedEmpty
  <2> QED BY <2>3 DEF c
<1>3. CASE kind = "skid"
  <2>1. c = NextSkid(b, fv, fd, tr)  BY <1>3 DEF NextBuffer
  <2>2. /\ c.valid \in BOOLEAN /\ c.valid_skid \in BOOLEAN
        /\ c = [valid |-> c.valid, data |-> c.data,
                valid_skid |-> c.valid_skid, skid |-> c.skid]
    <3>1. /\ c.valid = IF (b.valid /\ tr /\ ~b.valid_skid)
                          \/ (fv /\ ~b.valid_skid) THEN fv ELSE b.valid
          /\ c.valid_skid = IF (b.valid /\ (fv /\ ~b.valid_skid) /\ ~tr)
                               \/ (b.valid_skid /\ tr)
                              THEN ~b.valid_skid ELSE b.valid_skid
          /\ c = [valid |-> c.valid, data |-> c.data,
                  valid_skid |-> c.valid_skid, skid |-> c.skid]
      BY <2>1, SkidEdge
    <3> HIDE DEF c
    <3> QED BY <3>1 DEF IsBuffer
  <2> HIDE DEF c
  <2>3. IsBuffer(c) /\ UnusedEmpty(kind, c)
    BY <1>3, <2>2 DEF IsBuffer, UnusedEmpty
  <2> QED BY <2>3 DEF c
<1>4. CASE kind = "zero"
  <2>1. c = NextZeroLatency(b, fv, fd, tr)  BY <1>4 DEF NextBuffer
  <2>2. /\ c.valid = b.valid /\ c.valid_skid \in BOOLEAN
        /\ c = [valid |-> c.valid, data |-> c.data,
                valid_skid |-> c.valid_skid, skid |-> c.skid]
    BY <2>1 DEF NextZeroLatency, IsBuffer
  <2> HIDE DEF c
  <2>3. IsBuffer(c) /\ UnusedEmpty(kind, c)
    BY <1>4, <2>2 DEF IsBuffer, UnusedEmpty
  <2> QED BY <2>3 DEF c
<1> QED BY <1>1, <1>2, <1>3, <1>4 DEF Kinds

(* A buffer presents a datum that is not taken in the next cycle again,    *)
(* whatever its producer does then.                                        *)
LEMMA BufferHolds ==
  ASSUME NEW kind \in Kinds \ {"none"}, NEW b, IsBuffer(b),
         NEW fv \in BOOLEAN, NEW fd, ToValid(kind, b, fv),
         NEW tr \in BOOLEAN, ~tr, NEW fv2 \in BOOLEAN, NEW fd2
  PROVE  LET c == NextBuffer(kind, b, fv, fd, tr)
         IN  /\ ToValid(kind, c, fv2)
             /\ ToData(kind, c, fd2) = ToData(kind, b, fd)
<1> DEFINE c == NextBuffer(kind, b, fv, fd, tr)
<1>1. CASE kind = "flop"
  <2>1. c = NextFlop(b, fv, fd, tr) /\ b.valid
    BY <1>1 DEF NextBuffer, ToValid
  <2>2. c.valid = TRUE /\ c.data = b.data
    BY <2>1 DEF NextFlop, IsBuffer
  <2> HIDE DEF c
  <2>3. ToValid(kind, c, fv2) /\ ToData(kind, c, fd2) = ToData(kind, b, fd)
    BY <1>1, <2>2 DEF ToValid, ToData
  <2> QED BY <2>3 DEF c
<1>2. CASE kind = "skid"
  <2>1. /\ c = NextSkid(b, fv, fd, tr)
        /\ b.valid \/ b.valid_skid
    BY <1>2 DEF NextBuffer, ToValid
  <2>2. /\ b.valid_skid => c.valid_skid /\ c.skid = b.skid
        /\ ~b.valid_skid /\ fv => c.valid_skid /\ c.skid = b.data
        /\ ~b.valid_skid /\ ~fv =>
             c.valid = b.valid /\ ~c.valid_skid /\ c.data = b.data
    <3>1. /\ c.valid = IF (b.valid /\ tr /\ ~b.valid_skid)
                          \/ (fv /\ ~b.valid_skid) THEN fv ELSE b.valid
          /\ c.data = IF fv /\ ~b.valid_skid THEN fd ELSE b.data
          /\ c.valid_skid = IF (b.valid /\ (fv /\ ~b.valid_skid) /\ ~tr)
                               \/ (b.valid_skid /\ tr)
                              THEN ~b.valid_skid ELSE b.valid_skid
          /\ c.skid = IF b.valid /\ (fv /\ ~b.valid_skid) /\ ~tr
                        THEN b.data ELSE b.skid
      BY <2>1, SkidEdge
    <3> HIDE DEF c
    <3> QED BY <2>1, <3>1 DEF IsBuffer
  <2> HIDE DEF c
  <2>3. ToValid(kind, c, fv2) /\ ToData(kind, c, fd2) = ToData(kind, b, fd)
    BY <1>2, <2>1, <2>2 DEF ToValid, ToData, IsBuffer
  <2> QED BY <2>3 DEF c
<1>3. CASE kind = "zero"
  <2>1. /\ c = NextZeroLatency(b, fv, fd, tr)
        /\ fv \/ b.valid_skid
    BY <1>3 DEF NextBuffer, ToValid
  <2>2. /\ b.valid_skid => c.valid_skid /\ c.skid = b.skid
        /\ ~b.valid_skid => c.valid_skid /\ c.skid = fd
    BY <2>1 DEF NextZeroLatency, IsBuffer
  <2> HIDE DEF c
  <2>3. ToValid(kind, c, fv2) /\ ToData(kind, c, fd2) = ToData(kind, b, fd)
    BY <1>3, <2>1, <2>2 DEF ToValid, ToData, IsBuffer
  <2> QED BY <2>3 DEF c
<1> QED BY <1>1, <1>2, <1>3 DEF Kinds

(* The inductive invariant: the ports' buffers are well formed. *)
PortsInv ==
  /\ OwnerInv
  /\ \A i \in Ins : IsBuffer(ibuf[i]) /\ UnusedEmpty(InKind, ibuf[i])
  /\ \A k \in Outs : IsBuffer(obuf[k]) /\ UnusedEmpty(OutKind, obuf[k])
  /\ ivalid \in [Ins -> BOOLEAN] /\ oready \in [Outs -> BOOLEAN]
  /\ consumed \in [Ins -> Nat]

(* They are out of reset. *)
LEMMA PortsInvInit == Init => PortsInv
<1> SUFFICES ASSUME Init PROVE PortsInv  OBVIOUS
<1>1. \A z : /\ IsBuffer(ResetBuffer(z))
             /\ \A kind : UnusedEmpty(kind, ResetBuffer(z))
  BY DEF IsBuffer, UnusedEmpty, ResetBuffer
<1>2. OwnerInv  BY OwnerInit
<1> QED BY <1>1, <1>2 DEF Init, Reset, PortsInv

(* A clock cycle keeps them so. *)
LEMMA PortsInvStep == PortsInv /\ [Clock]_vars => PortsInv'
<1> SUFFICES ASSUME PortsInv, [Clock]_vars PROVE PortsInv'  OBVIOUS
<1>0. OwnerInv'  BY OwnerInvStep DEF PortsInv
<1>1. CASE UNCHANGED vars
  BY <1>0, <1>1 DEF PortsInv, vars, registers
<1>2. CASE Clock
  <2>1. \A i \in Ins : IsBuffer(ibuf'[i]) /\ UnusedEmpty(InKind, ibuf'[i])
    <3> SUFFICES ASSUME NEW i \in Ins
                 PROVE  IsBuffer(ibuf'[i]) /\ UnusedEmpty(InKind, ibuf'[i])
      OBVIOUS
    <3>1. ibuf'[i] = NextBuffer(InKind, ibuf[i], ivalid[i], consumed[i] + 1,
                                in_ready(i))
      BY <1>2 DEF Clock, Edge
    <3>2. in_ready(i) \in BOOLEAN  BY DEF in_ready
    <3>3. ivalid[i] \in BOOLEAN  BY DEF PortsInv
    <3> QED BY <3>1, <3>2, <3>3, BufferStep, BlockAssumption DEF PortsInv
  <2>2. \A k \in Outs : IsBuffer(obuf'[k]) /\ UnusedEmpty(OutKind, obuf'[k])
    <3> SUFFICES ASSUME NEW k \in Outs
                 PROVE  IsBuffer(obuf'[k]) /\ UnusedEmpty(OutKind, obuf'[k])
      OBVIOUS
    <3>1. obuf'[k] = NextBuffer(OutKind, obuf[k], from_valid(k),
                                Activation(SendStage[k]), oready[k])
      BY <1>2 DEF Clock, Edge
    <3>2. from_valid(k) \in BOOLEAN  BY DEF from_valid
    <3>3. oready[k] \in BOOLEAN  BY DEF PortsInv
    <3> QED BY <3>1, <3>2, <3>3, BufferStep, BlockAssumption DEF PortsInv
  <2>3. ivalid' \in [Ins -> BOOLEAN] /\ oready' \in [Outs -> BOOLEAN]
    BY <1>2 DEF Clock, Neighbours
  <2>4. consumed' \in [Ins -> Nat]
    BY <1>2 DEF Clock, Transfer, PortsInv
  <2> QED BY <1>0, <2>1, <2>2, <2>3, <2>4 DEF PortsInv
<1> QED BY <1>1, <1>2

(* They always are. *)
LEMMA PortsInvHolds == Spec => []PortsInv
BY PortsInvInit, PortsInvStep, PTL DEF Spec

-----------------------------------------------------------------------------
(***************************************************************************)
(* The idle signal.                                                        *)
(***************************************************************************)

(* A set of stages that is not empty has a last one. *)
LEMMA LastStage ==
  ASSUME NEW S \in SUBSET Stages, S # {}
  PROVE  \E m \in S : \A n \in S : n <= m
<1> DEFINE T == {N - n : n \in S}
<1>1. N \in Nat /\ \A n \in S : n \in Nat /\ N - n \in Nat
  BY BlockAssumption DEF Stages
<1>2. T \subseteq Nat /\ T # {}  BY <1>1
<1>3. \E x \in T : \A y \in T : ~(<<y, x>> \in OpToRel(<, Nat))
  BY <1>2, NatLessThanWellFounded, WFMin
<1>4. PICK x \in T : \A y \in T : ~(y < x)
  BY <1>2, <1>3 DEF OpToRel
<1>5. PICK m \in S : x = N - m  OBVIOUS
<1>6. \A n \in S : ~(N - n < N - m)  BY <1>4, <1>5
<1> QED BY <1>1, <1>6

(* Whatever the proc, the schedule and the buffers: when the idle output   *)
(* is up nothing is left in the block, although a stage that misses a      *)
(* state does not count as valid (AddIdleOutput).  The last occupied stage *)
(* misses none: the state's owner would be in a later stage.  A block with *)
(* a non-blocking receive is never idle to this output, empty or not.      *)
THEOREM IdleBlockIsEmpty == Spec => []IdleMeansEmpty
<1>1. PortsInv => IdleMeansEmpty
  <2> SUFFICES ASSUME PortsInv, idle
               PROVE  /\ \A n \in Stages \ {0} : ~pipeline_valid[n]
                      /\ \A i \in Ins : ~ibuf[i].valid /\ ~ibuf[i].valid_skid
                      /\ \A k \in Outs : ~obuf[k].valid /\ ~obuf[k].valid_skid
    BY DEF IdleMeansEmpty
  <2>1. \A n \in Stages \ {0} : ~pipeline_valid[n]
    <3> DEFINE S == {n \in Stages \ {0} : pipeline_valid[n]}
    <3> SUFFICES ASSUME S # {} PROVE FALSE  OBVIOUS
    <3>1. PICK m \in S : \A n \in S : n <= m
      BY LastStage
    <3>2. ~stage_valid(m)  BY DEF idle
    <3>3. PICK e \in Backedges : ReadStage[e] = m /\ ~reg_full[e]
      BY <3>2 DEF stage_valid, all_active_states_valid
    <3>4. PICK n \in (ReadStage[e] + 1)..WriteStage[e] : pipeline_valid[n]
      BY <3>3 DEF PortsInv, OwnerInv, StateHasOneOwner, InFlight
    <3>5. n \in S /\ n > m  BY <3>3, <3>4, BackedgeStages
    <3>6. m \in Nat /\ n \in Nat  BY <3>5 DEF Stages
    <3> QED BY <3>1, <3>5, <3>6
  <2>2. ASSUME NEW kind \in Kinds, NEW b, UnusedEmpty(kind, b), NEW fv,
               kind # "none" => ~ToValid(kind, b, fv)
        PROVE  ~b.valid /\ ~b.valid_skid
    BY <2>2 DEF UnusedEmpty, ToValid, Kinds
  <2>3. \A i \in Ins : ~ibuf[i].valid /\ ~ibuf[i].valid_skid
    BY <2>2, BlockAssumption DEF PortsInv, idle, in_valid
  <2>4. \A k \in Outs : ~obuf[k].valid /\ ~obuf[k].valid_skid
    BY <2>2, BlockAssumption DEF PortsInv, idle, port_valid
  <2> QED BY <2>1, <2>3, <2>4
<1> QED BY <1>1, PortsInvHolds, PTL

-----------------------------------------------------------------------------
(***************************************************************************)
(* The ready/valid discipline at the output ports.                         *)
(***************************************************************************)

(* An unbuffered output is computed in the cycle it is presented in, also  *)
(* from what its stage receives: no receive there may change its mind.     *)
SendsSeeNoPolls ==
  OutKind = "none" =>
    \A k \in Outs, i \in NonBlocking : RecvStage[i] # SendStage[k]

(* An input of a stage that is not left stays as it is. *)
LEMMA InputHolds ==
  ASSUME PortsInv, Clock, NEW i \in Ins, in_valid(i), ~in_ready(i)
  PROVE  in_valid(i)' /\ in_data(i)' = in_data(i)
<1>0. /\ ivalid[i] \in BOOLEAN /\ ivalid'[i] \in BOOLEAN /\ InKind \in Kinds
      /\ IsBuffer(ibuf[i]) /\ in_ready(i) \in BOOLEAN
  BY BlockAssumption DEF PortsInv, Clock, Neighbours, in_ready
<1>1. ibuf'[i] = NextBuffer(InKind, ibuf[i], ivalid[i], consumed[i] + 1,
                            in_ready(i))
  BY DEF Clock, Edge
<1>2. CASE InKind = "none"
  <2>1. ivalid[i] /\ ~port_ready(i)
    BY <1>2 DEF in_valid, ToValid, port_ready, FromRdy
  <2>2. ivalid'[i]  BY <2>1 DEF Clock, Neighbours
  <2>3. consumed'[i] = consumed[i] + 0
    BY <2>1 DEF Clock, Transfer
  <2>4. /\ in_data(i) = consumed[i] + 1 /\ in_data(i)' = consumed'[i] + 1
        /\ in_valid(i)' = ivalid'[i]
    BY <1>2 DEF in_data, in_valid, ToData, ToValid
  <2>5. consumed[i] + 0 = consumed[i]  BY DEF PortsInv
  <2> QED BY <2>2, <2>3, <2>4, <2>5
<1>3. CASE InKind # "none"
  <2>1. ToValid(InKind, ibuf[i], ivalid[i])  BY DEF in_valid
  <2>2. /\ ToValid(InKind, ibuf'[i], ivalid'[i])
        /\ ToData(InKind, ibuf'[i], consumed'[i] + 1)
             = ToData(InKind, ibuf[i], consumed[i] + 1)
    BY <1>0, <1>1, <1>3, <2>1, BufferHolds
  <2> QED BY <2>2 DEF in_valid, in_data
<1> QED BY <1>2, <1>3

(* A stage that is ready to send and is not left computes the same in the  *)
(* next cycle: nothing enters it, the states it read are still its own and *)
(* its inputs hold.                                                        *)
LEMMA StalledStage ==
  ASSUME PortsInv, Clock, NEW n \in Stages,
         stage_valid(n), all_active_inputs_valid(n), next_stage_open(n),
         ~data_load_enable[n],
         \A i \in RecvsAt(n) : i \notin NonBlocking
  PROVE  /\ stage_valid(n)' /\ all_active_inputs_valid(n)'
         /\ next_stage_open(n)' /\ Activation(n)' = Activation(n)
<1>w. Wired /\ Wired'  BY WiredStep DEF PortsInv, OwnerInv
<1>n. n \in Nat /\ N \in Nat /\ n < N  BY BlockAssumption DEF Stages
<1>v. pipeline_valid[n]  BY DEF stage_valid
<1>1. pipeline_reg'[n] = pipeline_reg[n]
  <2>1. pipeline_reg'[n] = NextPipelineReg(n)  BY DEF Clock, Edge
  <2>2. n > 0 => ~data_load_enable[n - 1]
    <3> SUFFICES ASSUME n > 0 PROVE ~data_load_enable[n - 1]  OBVIOUS
    <3>1. n - 1 \in Stages /\ n - 1 < N - 1 /\ (n - 1) + 1 = n
      BY <1>n DEF Stages
    <3>2. ~next_stage_open(n - 1)
      BY <1>v, <3>1 DEF next_stage_open
    <3> QED BY <1>w, <3>1, <3>2, LoadEnables
  <2> QED BY <2>1, <2>2 DEF NextPipelineReg
<1>2. pipeline_valid'[n]
  <2>1. CASE n = 0  BY <1>w, <2>1 DEF Wired
  <2>2. CASE n # 0
    <3>1. pipeline_valid'[n] = (data_load_enable[n - 1]
                                \/ (pipeline_valid[n] /\ ~data_load_enable[n]))
      BY <1>w, <2>2, NextValid
    <3> QED BY <1>v, <3>1
  <2> QED BY <2>1, <2>2
<1>3. \A e \in ReadsAt(n) :
         /\ ~data_load_enable[WriteStage[e]]
         /\ e \in Backedges => reg_full[e]
  <2> SUFFICES ASSUME NEW e \in ReadsAt(n)
               PROVE  /\ ~data_load_enable[WriteStage[e]]
                      /\ e \in Backedges => reg_full[e]
    OBVIOUS
  <2>1. e \in Elems /\ ReadStage[e] = n  BY DEF ReadsAt
  <2>2. /\ WriteStage[e] \in Stages /\ WriteStage[e] \in Nat
        /\ n <= WriteStage[e]
    BY <2>1, BlockAssumption DEF Stages
  <2>3. CASE e \in Backedges
    <3>1. reg_full[e]
      BY <2>1, <2>3 DEF stage_valid, all_active_states_valid
    <3> QED BY <1>w, <2>2, <2>3, <3>1, LoadEnables
  <2>4. CASE e \notin Backedges
    <3>1. WriteStage[e] = n
      BY <1>n, <2>1, <2>2, <2>4 DEF Backedges
    <3> QED BY <2>4, <3>1
  <2> QED BY <2>3, <2>4
<1>4. \A e \in ReadsAt(n) : state_reg'[e] = state_reg[e]
  BY <1>3 DEF ReadsAt, Clock, Edge, NextStateReg
<1>5. all_active_states_valid(n)'
  <2> SUFFICES ASSUME NEW e \in Backedges, ReadStage[e] = n
               PROVE  reg_full'[e]
    BY DEF all_active_states_valid
  <2>1. e \in ReadsAt(n) /\ e \in Elems  BY DEF ReadsAt, Backedges
  <2>2. reg_full'[e] = NextFull(e)  BY <2>1 DEF Clock, Edge
  <2> QED BY <1>3, <2>1, <2>2 DEF NextFull
<1>6. WithState(n)' = WithState(n)
  BY <1>1, <1>4 DEF WithState
<1>7. stage_valid(n)'  BY <1>2, <1>5 DEF stage_valid
<1> DEFINE taking == Receiving(WithState(n), RecvsAt(n), at_port)
<1>r. \A i \in RecvsAt(n) : i \in Ins /\ (Receives(i) <=> i \in taking)
  BY DEF Receives, RecvsAt
<1>9. \A i \in RecvsAt(n) :
         Receives(i) => in_valid(i)' /\ in_data(i)' = in_data(i)
  <2> SUFFICES ASSUME NEW i \in RecvsAt(n), Receives(i)
               PROVE  in_valid(i)' /\ in_data(i)' = in_data(i)
    OBVIOUS
  <2>1. i \in Ins /\ RecvStage[i] = n  BY DEF RecvsAt
  <2>2. in_valid(i)  BY DEF all_active_inputs_valid, signal_valid
  <2>3. ~in_ready(i)  BY <2>1 DEF in_ready
  <2> QED BY <2>1, <2>2, <2>3, InputHolds
<1>p. \A i \in RecvsAt(n) : Receives(i) => at_port'[i] = at_port[i]
  BY <1>9, <1>r DEF at_port
<1>8. \A i \in RecvsAt(n) : Receives(i)' = Receives(i)
  <2>1. RecvsAt(n) \in SUBSET Ins /\ taking \in SUBSET RecvsAt(n)
    BY ReceivingIs DEF RecvsAt
  <2>2. \A i \in taking : at_port[i] = at_port'[i]
    BY <1>p, <1>r, <2>1
  <2>3. PICK w, d : w = WithState(n) /\ d = at_port'  OBVIOUS
  <2>4. Receiving(w, RecvsAt(n), d) = taking
    BY <2>1, <2>2, <2>3, ReceivingAgrees
  <2>5. ASSUME NEW i \in RecvsAt(n) PROVE Receives(i)' = (i \in Receiving(w, RecvsAt(n), d))
    BY <1>6, <2>3 DEF Receives, RecvsAt
  <2>6. ASSUME NEW i \in RecvsAt(n) PROVE Receives(i) = (i \in taking)
    BY DEF Receives, RecvsAt
  <2> QED BY <2>4, <2>5, <2>6
<1>10. all_active_inputs_valid(n)'
  BY <1>8, <1>9 DEF all_active_inputs_valid, signal_valid
<1>11. \A i \in RecvsAt(n) : Received(i)' = Received(i)
  BY <1>8, <1>p DEF Received
<1>12. Activation(n)' = Activation(n)
  BY <1>6, <1>11 DEF Activation
<1>13. next_stage_open(n)'
  <2> SUFFICES ASSUME n < N - 1 PROVE ~pipeline_valid'[n + 1]
    BY DEF next_stage_open
  <2>1. n + 1 \in Stages /\ n + 1 # 0 /\ (n + 1) - 1 = n
    BY <1>n DEF Stages
  <2>2. pipeline_valid'[n + 1] =
          (data_load_enable[(n + 1) - 1]
           \/ (pipeline_valid[n + 1] /\ ~data_load_enable[n + 1]))
    BY <1>w, <2>1, NextValid
  <2>3. data_load_enable[n + 1] \/ ~pipeline_valid[n + 1]
    BY DEF next_stage_open
  <2> QED BY <2>1, <2>2, <2>3
<1> QED BY <1>7, <1>10, <1>12, <1>13

(* An output port that presents a datum nobody takes presents it again. *)
LEMMA OutputHolds ==
  ASSUME SendsSeeNoPolls, PortsInv, Clock, NEW k \in Outs,
         port_valid(k), ~oready[k]
  PROVE  port_valid(k)' /\ port_data(k)' = port_data(k)
<1> DEFINE n == SendStage[k]
<1>0. /\ n \in Stages /\ OutKind \in Kinds /\ oready[k] \in BOOLEAN
      /\ IsBuffer(obuf[k])
      /\ from_valid(k) \in BOOLEAN /\ from_valid(k)' \in BOOLEAN
  BY BlockAssumption DEF PortsInv, from_valid
<1>1. CASE OutKind = "none"
  <2>1. from_valid(k) /\ ~to_is_ready(k)
    BY <1>1 DEF port_valid, ToValid, to_is_ready, FromRdy
  <2>2. /\ all_active_inputs_valid(n) /\ stage_valid(n)
        /\ next_stage_open(n) /\ Sends(k)
        /\ ~(OneShot /\ has_been_sent[k])
    BY <2>1 DEF from_valid, send_valid
  <2>3. ~all_active_outputs_ready(n)
    BY <2>1, <2>2 DEF all_active_outputs_ready, has_sent_or_is_ready, SendsAt
  <2>4. ~data_load_enable[n]
    BY <1>0, <2>3, LoadEnables DEF PortsInv, OwnerInv, stage_done
  <2>5. \A i \in RecvsAt(n) : i \notin NonBlocking
    BY <1>1 DEF SendsSeeNoPolls, RecvsAt
  <2>6. /\ stage_valid(n)' /\ all_active_inputs_valid(n)'
        /\ next_stage_open(n)' /\ Activation(n)' = Activation(n)
    BY <1>0, <2>2, <2>4, <2>5, StalledStage
  <2>7. Sends(k)'  BY <2>2, <2>6 DEF Sends
  <2>8. ~(OneShot /\ has_been_sent'[k])
    <3>1. has_been_sent'[k] = (OneShot /\ NextSent(k))
      BY DEF Clock, Edge
    <3>2. NextSent(k) = has_been_sent[k]
      BY <2>1, <2>3 DEF NextSent
    <3> QED BY <2>2, <3>1, <3>2
  <2>9. from_valid(k)'
    BY <2>6, <2>7, <2>8 DEF from_valid, send_valid, OneShot
  <2> QED BY <1>1, <2>6, <2>9 DEF port_valid, port_data, ToValid, ToData
<1>2. CASE OutKind # "none"
  <2>1. obuf'[k] = NextBuffer(OutKind, obuf[k], from_valid(k), Activation(n),
                              oready[k])
    BY DEF Clock, Edge
  <2>2. ToValid(OutKind, obuf[k], from_valid(k))  BY DEF port_valid
  <2>3. PICK fv, fd : fv \in BOOLEAN /\ fv = from_valid(k)' /\ fd = Activation(n)'
    BY <1>0
  <2>4. /\ ToValid(OutKind, obuf'[k], fv)
        /\ ToData(OutKind, obuf'[k], fd) = ToData(OutKind, obuf[k], Activation(n))
    BY <1>0, <1>2, <2>1, <2>2, <2>3, BufferHolds
  <2> QED BY <2>3, <2>4 DEF port_valid, port_data
<1> QED BY <1>1, <1>2

(* Whatever the proc, the schedule and the neighbours: a datum presented   *)
(* at an output port stays, unchanged, until it is taken, if the port is   *)
(* buffered or no non-blocking receive shares a stage with a send.         *)
THEOREM OutputPortsHold ==
  ASSUME SendsSeeNoPolls
  PROVE  Spec => PortsHold
<1>1. PortsInv /\ [Clock]_vars =>
        [\A k \in Outs : port_valid(k) /\ ~oready[k] =>
           port_valid(k)' /\ port_data(k)' = port_data(k)]_vars
  BY OutputHolds
<1> QED BY <1>1, PortsInvHolds, PTL DEF Spec, PortsHold

-----------------------------------------------------------------------------
(***************************************************************************)
(* Types: nothing unknown is ever used.  V is the set of values of the     *)
(* state elements.                                                         *)
(***************************************************************************)

(* a is an activation that has read and received what the schedule places  *)
(* in the stages up to n.                                                  *)
Knows(V, n, a) ==
  /\ a \in Activations
  /\ \A e \in Elems : ReadStage[e] <= n => a.s[e] \in V
  /\ \A i \in Ins : RecvStage[i] <= n => a.x[i] \in Nat

(* The proc maps values of its states to values of its states. *)
StatesIn(V) ==
  /\ V \subseteq Nat
  /\ InitState \in [Elems -> V]
  /\ \A e \in Elems, a \in Activations :
       Knows(V, WriteStage[e], a) => NextState(e, a) \in V

(* Every occupied stage holds what the stages before it read and received. *)
Informed(V) ==
  \A n \in Stages \ {0} : pipeline_valid[n] => Knows(V, n - 1, pipeline_reg[n])

TypeInv(V) ==
  /\ TypeOK /\ Settled
  /\ state_reg \in [Elems -> V]
  /\ Informed(V)

(* The buffers keep data of their type. *)
LEMMA BufferType ==
  ASSUME NEW D, NEW kind \in Kinds, NEW b \in Buffers(D),
         NEW fv \in BOOLEAN, NEW fd \in D, NEW tr \in BOOLEAN
  PROVE  /\ NextBuffer(kind, b, fv, fd, tr) \in Buffers(D)
         /\ ToData(kind, b, fd) \in D
<1>0. /\ b.valid \in BOOLEAN /\ b.valid_skid \in BOOLEAN
      /\ b.data \in D /\ b.skid \in D
  BY DEF Buffers
<1>1. ToData(kind, b, fd) \in D  BY <1>0 DEF ToData, Kinds
<1>2. CASE kind = "none"  BY <1>1, <1>2 DEF NextBuffer
<1>3. CASE kind = "flop"
  <2>1. NextFlop(b, fv, fd, tr) \in Buffers(D)
    BY <1>0 DEF NextFlop, Buffers
  <2> QED BY <1>1, <1>3, <2>1 DEF NextBuffer
<1>4. CASE kind = "skid"
  <2> DEFINE c == NextSkid(b, fv, fd, tr)
  <2>1. /\ c.valid = IF (b.valid /\ tr /\ ~b.valid_skid)
                        \/ (fv /\ ~b.valid_skid) THEN fv ELSE b.valid
        /\ c.data = IF fv /\ ~b.valid_skid THEN fd ELSE b.data
        /\ c.valid_skid = IF (b.valid /\ (fv /\ ~b.valid_skid) /\ ~tr)
                             \/ (b.valid_skid /\ tr)
                            THEN ~b.valid_skid ELSE b.valid_skid
        /\ c.skid = IF b.valid /\ (fv /\ ~b.valid_skid) /\ ~tr
                      THEN b.data ELSE b.skid
        /\ c = [valid |-> c.valid, data |-> c.data,
                valid_skid |-> c.valid_skid, skid |-> c.skid]
    BY SkidEdge
  <2> HIDE DEF c
  <2>2. /\ c.valid \in BOOLEAN /\ c.valid_skid \in BOOLEAN
        /\ c.data \in D /\ c.skid \in D
    BY <1>0, <2>1
  <2>3. c \in Buffers(D)  BY <2>1, <2>2 DEF Buffers
  <2> QED BY <1>1, <1>4, <2>3 DEF NextBuffer, c
<1>5. CASE kind = "zero"
  <2>1. NextZeroLatency(b, fv, fd, tr) \in Buffers(D)
    BY <1>0 DEF NextZeroLatency, Buffers
  <2> QED BY <1>1, <1>5, <2>1 DEF NextBuffer
<1> QED BY <1>2, <1>3, <1>4, <1>5 DEF Kinds

(* What a stage hands on is an activation, and one that knows what the     *)
(* stage read and received if the stage is occupied.                       *)
LEMMA ActivationType ==
  ASSUME NEW V, StatesIn(V), TypeInv(V), NEW n \in Stages
  PROVE  /\ Activation(n) \in Activations
         /\ pipeline_valid[n] => Knows(V, n, Activation(n))
         /\ \A i \in Ins : Received(i) \in Nat
<1> DEFINE a == Activation(n)
           r == pipeline_reg[n]
<1>0. /\ V \subseteq Nat /\ InKind \in Kinds /\ n \in Nat /\ 0 \in Nat
      /\ \A e \in Elems : ReadStage[e] \in Nat
      /\ \A i \in Ins : RecvStage[i] \in Nat
  BY BlockAssumption DEF StatesIn, Stages
<1>1. r \in Activations /\ state_reg \in [Elems -> V]
  BY DEF TypeInv, TypeOK
<1>2. \A i \in Ins : Received(i) \in Nat
  <2> SUFFICES ASSUME NEW i \in Ins PROVE Received(i) \in Nat  OBVIOUS
  <2>1. ibuf[i] \in Buffers(Nat) /\ consumed[i] + 1 \in Nat
    BY DEF TypeInv, TypeOK
  <2>2. in_data(i) \in Nat  BY <1>0, <2>1, BufferType DEF in_data
  <2> QED BY <2>2 DEF Received, at_port, NoData
<1>3. /\ a.s = [e \in Elems |-> IF e \in ReadsAt(n) THEN state_reg[e] ELSE r.s[e]]
      /\ a.x = [i \in Ins |-> IF i \in RecvsAt(n) THEN Received(i) ELSE r.x[i]]
      /\ a = [s |-> a.s, x |-> a.x]
  <2> DEFINE w  == WithState(n)
             ws == [e \in Elems |-> IF e \in ReadsAt(n) THEN state_reg[e] ELSE r.s[e]]
             ax == [i \in Ins |-> IF i \in RecvsAt(n) THEN Received(i) ELSE w.x[i]]
  <2>1. r = [s |-> r.s, x |-> r.x]  BY <1>1 DEF Activations
  <2>2. w = [r EXCEPT !.s = ws]  BY DEF WithState
  <2>3. a = [w EXCEPT !.x = ax]  BY DEF Activation
  <2> HIDE DEF w, ws, ax, a, r
  <2>4. w = [s |-> ws, x |-> r.x]  BY <2>1, <2>2
  <2>5. a = [s |-> ws, x |-> ax]  BY <2>3, <2>4
  <2>6. a.s = ws /\ a.x = ax /\ w.x = r.x /\ a = [s |-> a.s, x |-> a.x]
    BY <2>4, <2>5
  <2> QED BY <2>6 DEF ws, ax
<1> HIDE DEF a
<1>4. a.s \in [Elems -> Nat \cup {Unknown}]
  BY <1>0, <1>1, <1>3 DEF Activations
<1>5. a.x \in [Ins -> Nat \cup {Unknown}]
  BY <1>1, <1>2, <1>3 DEF Activations
<1>6. a \in Activations  BY <1>3, <1>4, <1>5 DEF Activations
<1>7. ASSUME pipeline_valid[n] PROVE Knows(V, n, a)
  <2>1. n # 0 => Knows(V, n - 1, r)  BY <1>7 DEF TypeInv, Informed
  <2>2. ASSUME NEW e \in Elems, ReadStage[e] <= n PROVE a.s[e] \in V
    <3>1. CASE ReadStage[e] = n
      BY <1>1, <1>3, <3>1 DEF ReadsAt
    <3>2. CASE ReadStage[e] # n
      <4>1. n # 0 /\ ReadStage[e] <= n - 1  BY <1>0, <2>2, <3>2
      <4>2. r.s[e] \in V  BY <2>1, <4>1 DEF Knows
      <4> QED BY <1>3, <3>2, <4>2 DEF ReadsAt
    <3> QED BY <3>1, <3>2
  <2>3. ASSUME NEW i \in Ins, RecvStage[i] <= n PROVE a.x[i] \in Nat
    <3>1. CASE RecvStage[i] = n
      BY <1>2, <1>3, <3>1 DEF RecvsAt
    <3>2. CASE RecvStage[i] # n
      <4>1. n # 0 /\ RecvStage[i] <= n - 1  BY <1>0, <2>3, <3>2
      <4>2. r.x[i] \in Nat  BY <2>1, <4>1 DEF Knows
      <4> QED BY <1>3, <3>2, <4>2 DEF RecvsAt
    <3> QED BY <3>1, <3>2
  <2> QED BY <1>6, <2>2, <2>3 DEF Knows
<1> QED BY <1>2, <1>6, <1>7 DEF a

(* The types are right out of reset. *)
LEMMA TypeInvInit ==
  ASSUME NEW V, StatesIn(V), Init
  PROVE  TypeInv(V)
<1>1. Wired  BY OwnerInit DEF OwnerInv
<1>2. Fresh \in Activations  BY DEF Fresh, Activations
<1>3. \A D : \A z \in D : ResetBuffer(z) \in Buffers(D)
  BY DEF ResetBuffer, Buffers
<1>4. pipeline_reg \in [Stages -> Activations] /\ has_been_sent \in [Outs -> BOOLEAN]
  BY <1>2 DEF Init, Reset
<1>5. ibuf \in [Ins -> Buffers(Nat)] /\ obuf \in [Outs -> Buffers(Activations)]
  BY <1>2, <1>3 DEF Init, Reset, NoData
<1>6. state_reg \in [Elems -> V] /\ state_reg \in [Elems -> Nat]
  BY DEF Init, Reset, StatesIn
<1>7. /\ ivalid \in [Ins -> BOOLEAN] /\ oready \in [Outs -> BOOLEAN]
      /\ consumed \in [Ins -> Nat] /\ produced \in [Outs -> Seq(Activations)]
      /\ polled \in [NonBlocking -> Seq(Nat)] /\ entered \in Nat
  BY DEF Init
<1>8. Informed(V)  BY DEF Informed, Init, Reset
<1> QED BY <1>1, <1>4, <1>5, <1>6, <1>7, <1>8 DEF TypeInv, TypeOK, Wired

(* A clock cycle keeps them. *)
LEMMA TypeInvStep ==
  ASSUME NEW V, StatesIn(V), TypeInv(V), [Clock]_vars
  PROVE  TypeInv(V)'
<1>1. CASE UNCHANGED vars
  <2>1. Settled'  BY <1>1, SettledStutters DEF TypeInv
  <2>2. TypeOK'  BY <1>1 DEF TypeInv, TypeOK, vars, registers
  <2>3. state_reg' \in [Elems -> V] /\ Informed(V)'
    BY <1>1 DEF TypeInv, Informed, Knows, vars, registers
  <2> QED BY <2>1, <2>2, <2>3 DEF TypeInv
<1>2. CASE Clock
  <2>w. Wired /\ Wired'
    BY <1>2, WiredStep DEF TypeInv, TypeOK, Wired
  <2>k. /\ {InKind, OutKind} \subseteq Kinds /\ N \in Nat
        /\ \A e \in Elems : WriteStage[e] \in Stages
        /\ \A k \in Outs : SendStage[k] \in Stages
        /\ \A i \in Ins : RecvStage[i] \in Stages
        /\ NonBlocking \subseteq Ins /\ 0 \in Stages
    BY BlockAssumption DEF Stages
  <2>a. \A n \in Stages : /\ Activation(n) \in Activations
                          /\ pipeline_valid[n] => Knows(V, n, Activation(n))
    BY ActivationType
  <2>r. \A i \in Ins : Received(i) \in Nat
    BY <2>k, ActivationType
  <2>p. \A n \in Stages : n > 0 => n - 1 \in Stages
    BY <2>k DEF Stages
  <2>1. pipeline_reg' \in [Stages -> Activations]
    <3>1. \A n \in Stages : NextPipelineReg(n) \in Activations
      BY <2>a, <2>p DEF NextPipelineReg, TypeInv, TypeOK
    <3> QED BY <1>2, <3>1 DEF Clock, Edge
  <2>2. state_reg' \in [Elems -> V]
    <3>1. ASSUME NEW e \in Elems PROVE NextStateReg(e) \in V
      <4>1. data_load_enable[WriteStage[e]] => pipeline_valid[WriteStage[e]]
        BY <2>k, <2>w, LoadEnables
      <4>2. data_load_enable[WriteStage[e]] =>
               NextState(e, Activation(WriteStage[e])) \in V
        BY <2>a, <2>k, <4>1 DEF StatesIn
      <4> QED BY <4>2 DEF NextStateReg, TypeInv
    <3> QED BY <1>2, <3>1 DEF Clock, Edge
  <2>3. has_been_sent' \in [Outs -> BOOLEAN]
    BY <1>2 DEF Clock, Edge
  <2>4. ibuf' \in [Ins -> Buffers(Nat)]
    <3>1. ASSUME NEW i \in Ins
          PROVE  NextBuffer(InKind, ibuf[i], ivalid[i], consumed[i] + 1,
                            in_ready(i)) \in Buffers(Nat)
      <4>1. /\ ibuf[i] \in Buffers(Nat) /\ ivalid[i] \in BOOLEAN
            /\ consumed[i] + 1 \in Nat /\ in_ready(i) \in BOOLEAN
        BY DEF TypeInv, TypeOK, in_ready
      <4> QED BY <2>k, <4>1, BufferType
    <3> QED BY <1>2, <3>1 DEF Clock, Edge
  <2>5. obuf' \in [Outs -> Buffers(Activations)]
    <3>1. ASSUME NEW k \in Outs
          PROVE  NextBuffer(OutKind, obuf[k], from_valid(k),
                            Activation(SendStage[k]), oready[k])
                   \in Buffers(Activations)
      <4>1. /\ obuf[k] \in Buffers(Activations) /\ oready[k] \in BOOLEAN
            /\ from_valid(k) \in BOOLEAN
        BY DEF TypeInv, TypeOK, from_valid
      <4> QED BY <2>a, <2>k, <4>1, BufferType
    <3> QED BY <1>2, <3>1 DEF Clock, Edge
  <2>6. consumed' \in [Ins -> Nat] /\ entered' \in Nat
    BY <1>2 DEF Clock, Transfer, TypeInv, TypeOK
  <2>7. produced' \in [Outs -> Seq(Activations)]
    <3>1. ASSUME NEW k \in Outs
          PROVE  produced[k] \o (IF port_valid(k) /\ oready[k]
                                  THEN <<port_data(k)>> ELSE <<>>)
                   \in Seq(Activations)
      <4>1. /\ produced[k] \in Seq(Activations) /\ oready[k] \in BOOLEAN
            /\ obuf[k] \in Buffers(Activations)
        BY DEF TypeInv, TypeOK
      <4>2. port_data(k) \in Activations
        BY <2>a, <2>k, <4>1, BufferType DEF port_data
      <4>3. <<port_data(k)>> \in Seq(Activations)  BY <4>2
      <4>4. <<>> \in Seq(Activations)  OBVIOUS
      <4> QED BY <4>1, <4>3, <4>4, ConcatProperties
    <3> QED BY <1>2, <3>1 DEF Clock, Transfer
  <2>8. polled' \in [NonBlocking -> Seq(Nat)]
    <3>1. ASSUME NEW i \in NonBlocking
          PROVE  polled[i] \o (IF data_load_enable[RecvStage[i]]
                                THEN <<Received(i)>> ELSE <<>>) \in Seq(Nat)
      <4>1. polled[i] \in Seq(Nat) /\ Received(i) \in Nat
        BY <2>k, <2>r DEF TypeInv, TypeOK
      <4>2. <<Received(i)>> \in Seq(Nat)  BY <4>1
      <4>3. <<>> \in Seq(Nat)  OBVIOUS
      <4> QED BY <4>1, <4>2, <4>3, ConcatProperties
    <3> QED BY <1>2, <3>1 DEF Clock, Transfer
  <2>9. ivalid' \in [Ins -> BOOLEAN] /\ oready' \in [Outs -> BOOLEAN]
    BY <1>2 DEF Clock, Neighbours
  <2>10. state_reg' \in [Elems -> Nat]  BY <2>2 DEF StatesIn
  <2>11. TypeOK'
    BY <2>w, <2>1, <2>3, <2>4, <2>5, <2>6, <2>7, <2>8, <2>9, <2>10
    DEF TypeOK, Wired
  <2>12. ASSUME NEW n \in Stages \ {0}, pipeline_valid'[n]
         PROVE  Knows(V, n - 1, pipeline_reg'[n])
    <3>1. n > 0 /\ n - 1 \in Stages  BY <2>k DEF Stages
    <3>2. pipeline_reg'[n] = NextPipelineReg(n)
      BY <1>2 DEF Clock, Edge
    <3>3. CASE data_load_enable[n - 1]
      <4>1. pipeline_valid[n - 1]  BY <2>w, <3>1, <3>3, LoadEnables
      <4>2. pipeline_reg'[n] = Activation(n - 1)
        BY <3>1, <3>2, <3>3 DEF NextPipelineReg
      <4>3. Knows(V, n - 1, Activation(n - 1))  BY <2>a, <3>1, <4>1
      <4> QED BY <4>2, <4>3
    <3>4. CASE ~data_load_enable[n - 1]
      <4>1. pipeline_valid[n]  BY <1>2, <2>w, <2>12, <3>4, NextValid
      <4>2. pipeline_reg'[n] = pipeline_reg[n]
        BY <3>2, <3>4 DEF NextPipelineReg
      <4>3. Knows(V, n - 1, pipeline_reg[n])
        BY <4>1 DEF TypeInv, Informed
      <4> QED BY <4>2, <4>3
    <3> QED BY <3>3, <3>4
  <2>13. Informed(V)'  BY <2>12 DEF Informed, Knows
  <2> QED BY <2>w, <2>2, <2>11, <2>13 DEF TypeInv, Wired
<1> QED BY <1>1, <1>2

(* Every register, wire and record of the block keeps its type, for every  *)
(* proc that maps the values V of its states to V.                         *)
THEOREM BlockTypes ==
  ASSUME NEW V, StatesIn(V)
  PROVE  Spec => []TypeOK
<1>1. Init => TypeInv(V)  BY TypeInvInit
<1>2. TypeInv(V) /\ [Clock]_vars => TypeInv(V)'  BY TypeInvStep
<1>3. TypeInv(V) => TypeOK  BY DEF TypeInv
<1> QED BY <1>1, <1>2, <1>3, PTL DEF Spec

(* Nothing unknown is used: an activation that occupies a stage carries    *)
(* the states and the data of all receives that the schedule places before *)
(* it, so that what it sends and writes is computed from values it has.    *)
THEOREM StagesAreInformed ==
  ASSUME NEW V, StatesIn(V)
  PROVE  Spec => []Informed(V)
<1>1. Init => TypeInv(V)  BY TypeInvInit
<1>2. TypeInv(V) /\ [Clock]_vars => TypeInv(V)'  BY TypeInvStep
<1>3. TypeInv(V) => Informed(V)  BY DEF TypeInv
<1> QED BY <1>1, <1>2, <1>3, PTL DEF Spec

=============================================================================
