-------------------------- MODULE RdvBuffer_proofs --------------------------
(***************************************************************************)
(* RdvBuffer keeps its promises for every kind of buffer and every set of  *)
(* data.  The inductive invariant is the type invariant and SkidBehindData *)
(* (without it a skid buffer could hold its only datum in the skid         *)
(* register and would then be a place short).                              *)
(***************************************************************************)
EXTENDS RdvBuffer, SequenceTheorems, TLAPS

(* What the clock edge does to the registers of each kind of buffer. *)
LEMMA FlopStep ==
  ASSUME NEW b \in Buffers(Data), NEW fv \in BOOLEAN, NEW fd \in Data,
         NEW tr \in BOOLEAN
  PROVE  LET c == NextBuffer("flop", b, fv, fd, tr) IN
         /\ c \in Buffers(Data)
         /\ c.valid = IF tr \/ ~b.valid THEN fv ELSE b.valid
         /\ c.data = IF fv /\ (tr \/ ~b.valid) THEN fd ELSE b.data
<1>1. NextBuffer("flop", b, fv, fd, tr) = NextFlop(b, fv, fd, tr)
  BY DEF NextBuffer
<1> QED BY <1>1 DEF NextFlop, Buffers

(* The registers of the skid buffer after the clock edge. *)
LEMMA SkidStep ==
  ASSUME NEW b \in Buffers(Data), NEW fv \in BOOLEAN, NEW fd \in Data,
         NEW tr \in BOOLEAN
  PROVE  LET c == NextBuffer("skid", b, fv, fd, tr) IN
         /\ c \in Buffers(Data)
         /\ c.valid = IF ~b.valid_skid /\ (fv \/ (b.valid /\ tr)) THEN fv ELSE b.valid
         /\ c.data = IF fv /\ ~b.valid_skid THEN fd ELSE b.data
         /\ c.valid_skid = IF b.valid_skid THEN ~tr ELSE b.valid /\ fv /\ ~tr
         /\ c.skid = IF b.valid /\ fv /\ ~b.valid_skid /\ ~tr THEN b.data ELSE b.skid
<1>1. NextBuffer("skid", b, fv, fd, tr) = NextSkid(b, fv, fd, tr)
  BY DEF NextBuffer
<1> DEFINE c == NextSkid(b, fv, fd, tr)
<1>2. b.valid \in BOOLEAN /\ b.valid_skid \in BOOLEAN /\ b.data \in Data /\ b.skid \in Data
  BY DEF Buffers
<1>3. c.valid = IF (b.valid /\ tr /\ ~b.valid_skid) \/ (fv /\ ~b.valid_skid)
                  THEN fv ELSE b.valid
  BY DEF NextSkid
<1>4. c.data = IF fv /\ ~b.valid_skid THEN fd ELSE b.data
  BY DEF NextSkid
<1>5. c.valid_skid = IF (b.valid /\ (fv /\ ~b.valid_skid) /\ ~tr) \/ (b.valid_skid /\ tr)
                       THEN ~b.valid_skid ELSE b.valid_skid
  BY DEF NextSkid
<1>6. c.skid = IF b.valid /\ (fv /\ ~b.valid_skid) /\ ~tr THEN b.data ELSE b.skid
  BY DEF NextSkid
<1>7. c = [valid |-> c.valid, data |-> c.data, valid_skid |-> c.valid_skid, skid |-> c.skid]
  BY DEF NextSkid
<1> HIDE DEF c
<1>8. c.valid_skid = IF b.valid_skid THEN ~tr ELSE b.valid /\ fv /\ ~tr
  BY <1>2, <1>5
<1>9. c \in Buffers(Data)
  BY <1>2, <1>3, <1>4, <1>6, <1>7, <1>8 DEF Buffers
<1>10. c.valid = IF ~b.valid_skid /\ (fv \/ (b.valid /\ tr)) THEN fv ELSE b.valid
  BY <1>2, <1>3
<1>11. c.skid = IF b.valid /\ fv /\ ~b.valid_skid /\ ~tr THEN b.data ELSE b.skid
  BY <1>2, <1>6
<1> QED BY <1>1, <1>4, <1>8, <1>9, <1>10, <1>11 DEF c

(* The registers of the zero-latency buffer after the clock edge. *)
LEMMA ZeroLatencyStep ==
  ASSUME NEW b \in Buffers(Data), NEW fv \in BOOLEAN, NEW fd \in Data,
         NEW tr \in BOOLEAN
  PROVE  LET c == NextBuffer("zero", b, fv, fd, tr) IN
         /\ c \in Buffers(Data)
         /\ c.valid_skid = IF b.valid_skid THEN ~tr ELSE fv /\ ~tr
         /\ c.skid = IF fv /\ ~b.valid_skid /\ ~tr THEN fd ELSE b.skid
<1>1. NextBuffer("zero", b, fv, fd, tr) = NextZeroLatency(b, fv, fd, tr)
  BY DEF NextBuffer
<1> QED BY <1>1 DEF NextZeroLatency, Buffers

-----------------------------------------------------------------------------
Inv == TypeOK /\ SkidBehindData

(* The clock edge keeps the invariant. *)
LEMMA InvStep == Inv /\ [Clock]_vars => Inv'
<1> SUFFICES ASSUME Inv, [Clock]_vars PROVE Inv'
  OBVIOUS
<1>1. CASE UNCHANGED vars
  BY <1>1 DEF Inv, TypeOK, SkidBehindData, vars
<1>2. CASE Clock
  <2> USE <1>2 DEF Clock, Inv, TypeOK, SkidBehindData
  <2>1. CASE Kind = "flop"
    BY <2>1, FlopStep
  <2>2. CASE Kind = "skid"
    <3>1. buf' \in Buffers(Data)
      BY <2>2, SkidStep
    <3>2. buf'.valid_skid => buf'.valid
      BY <2>2, SkidStep DEF Buffers
    <3> QED BY <3>1, <3>2
  <2>3. CASE Kind = "zero"
    BY <2>3, ZeroLatencyStep
  <2> QED BY <2>1, <2>2, <2>3, RdvAssumption
<1> QED BY <1>1, <1>2

(* So it always holds. *)
LEMMA InvHolds == Spec => []Inv
<1>1. Init => Inv
  BY RdvAssumption DEF Init, Drive, Inv, TypeOK, SkidBehindData, Buffers, ResetBuffer
<1> QED BY <1>1, InvStep, PTL DEF Spec

(* In every state of every run the registers and wires have their types,   *)
(* and a skid register is only full behind a full data register.           *)
THEOREM SkidInvariant == Spec => [](TypeOK /\ SkidBehindData)
BY InvHolds, PTL DEF Inv

-----------------------------------------------------------------------------
(* The wires and contents of each kind, in a state that satisfies Inv. *)
LEMMA OfFlop ==
  ASSUME Inv, Kind = "flop"
  PROVE  /\ to_valid = buf.valid
         /\ to_data = buf.data
         /\ from_rdy = (from_valid /\ (to_ready \/ ~buf.valid))
         /\ Contents = IF buf.valid THEN <<buf.data>> ELSE <<>>
         /\ Capacity = 1
BY DEF to_valid, to_data, from_rdy, ToValid, ToData, FromRdy, Contents, Capacity

(* Two data, one after the other. *)
LEMMA PairOfTwo ==
  ASSUME NEW a \in Data, NEW b \in Data
  PROVE  <<a>> \o <<b>> = <<a, b>>
<1> DEFINE s == <<a>> \o <<b>>
<1>1. <<a>> \in Seq(Data) /\ <<b>> \in Seq(Data) /\ <<a, b>> \in Seq(Data)
  OBVIOUS
<1>2. s \in Seq(Data) /\ Len(s) = 2 /\ s[1] = a /\ s[2] = b
  BY <1>1, ConcatProperties
<1> HIDE DEF s
<1>3. s = <<a, b>>
  BY <1>1, <1>2, SeqEqual
<1> QED BY <1>3 DEF s

(* The wires and the contents of a skid buffer. *)
LEMMA OfSkid ==
  ASSUME Inv, Kind = "skid"
  PROVE  /\ to_valid = (buf.valid \/ buf.valid_skid)
         /\ to_data = IF buf.valid_skid THEN buf.skid ELSE buf.data
         /\ from_rdy = ~buf.valid_skid
         /\ Contents = IF ~buf.valid THEN <<>>
                       ELSE IF ~buf.valid_skid THEN <<buf.data>>
                       ELSE <<buf.skid, buf.data>>
         /\ Capacity = 2
<1>1. Contents = (IF buf.valid_skid THEN <<buf.skid>> ELSE <<>>)
                    \o (IF buf.valid THEN <<buf.data>> ELSE <<>>)
  BY DEF Contents
<1>2. ASSUME NEW a, NEW b
      PROVE  <<>> \o <<>> = <<>> /\ <<>> \o <<a>> = <<a>>
  OBVIOUS
<1>3. ASSUME NEW a \in Data, NEW b \in Data
      PROVE  <<a>> \o <<b>> = <<a, b>>
  BY PairOfTwo
<1>4. buf.skid \in Data /\ buf.data \in Data
  BY DEF Inv, TypeOK, Buffers
<1>5. Contents = IF ~buf.valid THEN <<>>
                 ELSE IF ~buf.valid_skid THEN <<buf.data>>
                 ELSE <<buf.skid, buf.data>>
  BY <1>1, <1>2, <1>3, <1>4 DEF Inv, SkidBehindData
<1> QED BY <1>5 DEF to_valid, to_data, from_rdy, ToValid, ToData, FromRdy, Capacity

(* ... and its contents after the clock edge. *)
LEMMA OfSkidNext ==
  ASSUME Inv', Kind = "skid"
  PROVE  Contents' = IF ~buf'.valid THEN <<>>
                     ELSE IF ~buf'.valid_skid THEN <<buf'.data>>
                     ELSE <<buf'.skid, buf'.data>>
<1>1. Contents' = (IF buf'.valid_skid THEN <<buf'.skid>> ELSE <<>>)
                    \o (IF buf'.valid THEN <<buf'.data>> ELSE <<>>)
  BY DEF Contents
<1>2. ASSUME NEW a, NEW b
      PROVE  <<>> \o <<>> = <<>> /\ <<>> \o <<a>> = <<a>>
  OBVIOUS
<1>3. ASSUME NEW a \in Data, NEW b \in Data
      PROVE  <<a>> \o <<b>> = <<a, b>>
  BY PairOfTwo
<1>4. buf'.skid \in Data /\ buf'.data \in Data
  BY DEF Inv, TypeOK, Buffers
<1> QED BY <1>1, <1>2, <1>3, <1>4 DEF Inv, SkidBehindData

(* The wires and the contents of a zero-latency buffer. *)
LEMMA OfZeroLatency ==
  ASSUME Inv, Kind = "zero"
  PROVE  /\ to_valid = (from_valid \/ buf.valid_skid)
         /\ to_data = IF buf.valid_skid THEN buf.skid ELSE from_data
         /\ from_rdy = ~buf.valid_skid
         /\ Contents = IF buf.valid_skid THEN <<buf.skid>> ELSE <<>>
         /\ Capacity = 1
BY DEF to_valid, to_data, from_rdy, ToValid, ToData, FromRdy, Contents, Capacity

-----------------------------------------------------------------------------
LEMMA RoomIsAccepted == Inv => AcceptsWhileRoom
<1> SUFFICES ASSUME Inv, from_valid, Len(Contents) < Capacity PROVE from_rdy
  BY DEF AcceptsWhileRoom
<1>0. /\ Len(<<buf.data>>) = 1 /\ Len(<<buf.skid>>) = 1
      /\ Len(<<buf.skid, buf.data>>) = 2
  OBVIOUS
<1>1. CASE Kind = "flop"
  <2>1. ~buf.valid
    BY <1>0, <1>1, OfFlop
  <2> QED BY <2>1, <1>1, OfFlop
<1>2. CASE Kind = "skid"
  <2>1. ~buf.valid_skid
    BY <1>0, <1>2, OfSkid DEF Inv, SkidBehindData
  <2> QED BY <2>1, <1>2, OfSkid
<1>3. CASE Kind = "zero"
  <2>1. ~buf.valid_skid
    BY <1>0, <1>3, OfZeroLatency
  <2> QED BY <2>1, <1>3, OfZeroLatency
<1> QED BY <1>1, <1>2, <1>3, RdvAssumption

(* No kind of buffer refuses a datum it has room for. *)
THEOREM AcceptsWhenever == Spec => []AcceptsWhileRoom
BY InvHolds, RoomIsAccepted, PTL

-----------------------------------------------------------------------------
(* The registers after a clock edge. *)
LEMMA FlopRegs ==
  ASSUME Inv, Clock, Kind = "flop"
  PROVE  /\ buf'.valid = IF to_ready \/ ~buf.valid THEN from_valid ELSE buf.valid
         /\ buf'.data = IF from_valid /\ (to_ready \/ ~buf.valid)
                          THEN from_data ELSE buf.data
<1>1. buf' = NextBuffer("flop", buf, from_valid, from_data, to_ready)
  BY DEF Clock
<1>2. /\ buf \in Buffers(Data) /\ from_valid \in BOOLEAN
      /\ from_data \in Data /\ to_ready \in BOOLEAN
  BY DEF Inv, TypeOK
<1> QED BY <1>1, <1>2, FlopStep

(* What the clock edge does to the registers of a skid buffer in use. *)
LEMMA SkidRegs ==
  ASSUME Inv, Clock, Kind = "skid"
  PROVE  /\ buf'.valid = IF ~buf.valid_skid /\ (from_valid \/ (buf.valid /\ to_ready))
                           THEN from_valid ELSE buf.valid
         /\ buf'.data = IF from_valid /\ ~buf.valid_skid THEN from_data ELSE buf.data
         /\ buf'.valid_skid = IF buf.valid_skid THEN ~to_ready
                              ELSE buf.valid /\ from_valid /\ ~to_ready
         /\ buf'.skid = IF buf.valid /\ from_valid /\ ~buf.valid_skid /\ ~to_ready
                          THEN buf.data ELSE buf.skid
<1>1. buf' = NextBuffer("skid", buf, from_valid, from_data, to_ready)
  BY DEF Clock
<1>2. /\ buf \in Buffers(Data) /\ from_valid \in BOOLEAN
      /\ from_data \in Data /\ to_ready \in BOOLEAN
  BY DEF Inv, TypeOK
<1>3. buf'.valid = IF ~buf.valid_skid /\ (from_valid \/ (buf.valid /\ to_ready))
                     THEN from_valid ELSE buf.valid
  BY <1>1, <1>2, SkidStep
<1>4. buf'.data = IF from_valid /\ ~buf.valid_skid THEN from_data ELSE buf.data
  BY <1>1, <1>2, SkidStep
<1>5. buf'.valid_skid = IF buf.valid_skid THEN ~to_ready
                        ELSE buf.valid /\ from_valid /\ ~to_ready
  BY <1>1, <1>2, SkidStep
<1>6. buf'.skid = IF buf.valid /\ from_valid /\ ~buf.valid_skid /\ ~to_ready
                    THEN buf.data ELSE buf.skid
  BY <1>1, <1>2, SkidStep
<1> QED BY <1>3, <1>4, <1>5, <1>6

(* ... and to those of a zero-latency buffer. *)
LEMMA ZeroLatencyRegs ==
  ASSUME Inv, Clock, Kind = "zero"
  PROVE  /\ buf'.valid_skid = IF buf.valid_skid THEN ~to_ready
                              ELSE from_valid /\ ~to_ready
         /\ buf'.skid = IF from_valid /\ ~buf.valid_skid /\ ~to_ready
                          THEN from_data ELSE buf.skid
<1>1. buf' = NextBuffer("zero", buf, from_valid, from_data, to_ready)
  BY DEF Clock
<1>2. /\ buf \in Buffers(Data) /\ from_valid \in BOOLEAN
      /\ from_data \in Data /\ to_ready \in BOOLEAN
  BY DEF Inv, TypeOK
<1> QED BY <1>1, <1>2, ZeroLatencyStep

(* What is presented and not taken is presented again. *)
LEMMA HoldsStep ==
  ASSUME Inv, Clock, to_valid, ~to_ready
  PROVE  to_valid' /\ to_data' = to_data
<1>t. /\ from_valid \in BOOLEAN /\ to_ready \in BOOLEAN
      /\ buf.valid \in BOOLEAN /\ buf.valid_skid \in BOOLEAN
  BY DEF Inv, TypeOK, Buffers
<1>1. CASE Kind = "flop"
  <2>1. to_valid' = buf'.valid /\ to_data' = buf'.data
    BY <1>1 DEF to_valid, to_data, ToValid, ToData
  <2>2. buf.valid /\ to_data = buf.data
    BY <1>1, OfFlop
  <2> QED BY <2>1, <2>2, <1>1, FlopRegs
<1>2. CASE Kind = "skid"
  <2>1. /\ to_valid' = (buf'.valid \/ buf'.valid_skid)
        /\ to_data' = IF buf'.valid_skid THEN buf'.skid ELSE buf'.data
    BY <1>2 DEF to_valid, to_data, ToValid, ToData
  <2>2. buf.valid /\ to_data = IF buf.valid_skid THEN buf.skid ELSE buf.data
    BY <1>2, OfSkid DEF Inv, SkidBehindData
  <2> QED BY <2>1, <2>2, <1>t, <1>2, SkidRegs
<1>3. CASE Kind = "zero"
  <2>1. /\ to_valid' = (from_valid' \/ buf'.valid_skid)
        /\ to_data' = IF buf'.valid_skid THEN buf'.skid ELSE from_data'
    BY <1>3 DEF to_valid, to_data, ToValid, ToData
  <2>2. /\ from_valid \/ buf.valid_skid
        /\ to_data = IF buf.valid_skid THEN buf.skid ELSE from_data
    BY <1>3, OfZeroLatency
  <2> QED BY <2>1, <2>2, <1>t, <1>3, ZeroLatencyRegs
<1> QED BY <1>1, <1>2, <1>3, RdvAssumption

(* A datum presented to the consumer stays until the consumer takes it.    *)
THEOREM PresentedDataAreHeld == Spec => HeldUntilTaken
<1>1. Inv /\ [Clock]_vars =>
        [to_valid /\ ~to_ready => to_valid' /\ to_data' = to_data]_vars
  BY HoldsStep
<1> QED BY <1>1, InvHolds, PTL DEF Spec, HeldUntilTaken

-----------------------------------------------------------------------------
(* Every cycle is one a FIFO may make. *)
LEMMA CycleOK == Inv => Fifo!Cycle
<1> SUFFICES ASSUME Inv PROVE Fifo!Cycle
  OBVIOUS
<1>t. /\ from_valid \in BOOLEAN /\ from_data \in Data /\ to_ready \in BOOLEAN
      /\ buf.valid \in BOOLEAN /\ buf.valid_skid \in BOOLEAN
      /\ buf.data \in Data /\ buf.skid \in Data
  BY DEF Inv, TypeOK, Buffers
<1>1. Accepted \in Fifo!Transfers
  BY <1>t DEF Accepted, Fifo!Transfers
<1>2. to_data \in Data
  BY <1>t, OfFlop, OfSkid, OfZeroLatency, RdvAssumption
<1>3. Delivered \in Fifo!Transfers
  BY <1>2 DEF Delivered, Fifo!Transfers
<1>4. ASSUME Delivered # <<>>
      PROVE  Contents \o Accepted # <<>> /\ to_data = Head(Contents \o Accepted)
  <2>1. to_valid /\ to_ready
    BY <1>4 DEF Delivered
  <2>2. Accepted = <<>> \/ Accepted = <<from_data>>
    BY DEF Accepted
  <2>3. ASSUME NEW a \in Data, NEW r \in Seq(Data), NEW t \in Seq(Data), r = <<a>> \/ \E b \in Data : r = <<a, b>>
        PROVE  r \o t # <<>> /\ Head(r \o t) = a
    <3>1. Len(r) >= 1 /\ r[1] = a
      BY <2>3
    <3>2. r \o t \in Seq(Data) /\ Len(r \o t) >= 1 /\ (r \o t)[1] = a
      BY <3>1, ConcatProperties, LenProperties
    <3> QED BY <3>2, HeadTailProperties
  <2>4. Accepted \in Seq(Data)
    <3>1. <<>> \in Seq(Data) /\ <<from_data>> \in Seq(Data)
      BY <1>t
    <3> QED BY <3>1, <2>2
  <2>5. CASE Contents = <<>>
    <3>a. Kind # "flop"
      BY <2>1, <2>5, OfFlop
    <3>b. Kind # "skid"
      BY <2>1, <2>5, OfSkid DEF Inv, SkidBehindData
    <3>1. Kind = "zero" /\ ~buf.valid_skid /\ from_valid
      BY <3>a, <3>b, <2>1, <2>5, OfZeroLatency, RdvAssumption
    <3>2. Accepted = <<from_data>> /\ to_data = from_data
      BY <3>1, OfZeroLatency DEF Accepted
    <3> QED BY <3>2, <2>5
  <2>6. CASE Contents # <<>>
    <3>1. \/ Contents = <<to_data>>
          \/ \E b \in Data : Contents = <<to_data, b>>
      <4>1. CASE Kind = "flop"
        BY <4>1, <2>6, OfFlop
      <4>2. CASE Kind = "skid"
        BY <4>2, <2>6, <1>t, OfSkid
      <4>3. CASE Kind = "zero"
        BY <4>3, <2>6, OfZeroLatency
      <4> QED BY <4>1, <4>2, <4>3, RdvAssumption
    <3>2. Contents \in Seq(Data)
      <4>1. ASSUME NEW b \in Data
            PROVE  <<to_data>> \in Seq(Data) /\ <<to_data, b>> \in Seq(Data)
        BY <1>2
      <4> QED BY <3>1, <4>1, <1>2
    <3> QED BY <3>1, <3>2, <2>3, <2>4, <1>2
  <2> QED BY <2>5, <2>6
<1>5. Delivered # <<>> => Delivered = <<to_data>>
  BY DEF Delivered
<1> QED BY <1>1, <1>3, <1>4, <1>5 DEF Fifo!Cycle, Fifo!Offered

(* The clock edge leaves in the registers what a FIFO would be left with. *)
LEMMA LeftOK == Inv /\ Clock => Contents' = Fifo!Left /\ Len(Contents') <= Capacity
<1> SUFFICES ASSUME Inv, Clock
             PROVE  Contents' = Fifo!Left /\ Len(Contents') <= Capacity
  OBVIOUS
<1>t. /\ from_valid \in BOOLEAN /\ from_data \in Data /\ to_ready \in BOOLEAN
      /\ buf.valid \in BOOLEAN /\ buf.valid_skid \in BOOLEAN
      /\ buf.data \in Data /\ buf.skid \in Data
  BY DEF Inv, TypeOK, Buffers
<1>i. Inv'
  BY InvStep
<1>l. Fifo!Left = IF Delivered = <<>> THEN Contents \o Accepted
                  ELSE Tail(Contents \o Accepted)
  BY DEF Fifo!Left, Fifo!Offered
<1>s. ASSUME NEW a \in Data, NEW b \in Data
      PROVE  /\ <<>> \o <<>> = <<>> /\ <<>> \o <<a>> = <<a>> /\ <<a>> \o <<>> = <<a>>
             /\ <<a, b>> \o <<>> = <<a, b>>
             /\ Tail(<<a>>) = <<>> /\ Tail(<<a, b>>) = <<b>> /\ <<a>> # <<>>
             /\ Len(<<>>) = 0 /\ Len(<<a>>) = 1 /\ Len(<<a, b>>) = 2
  OBVIOUS
<1>c. ASSUME NEW a \in Data, NEW b \in Data
      PROVE  <<a>> \o <<b>> = <<a, b>>
  BY PairOfTwo
<1>1. CASE Kind = "flop"
  <2>1. Contents' = IF buf'.valid THEN <<buf'.data>> ELSE <<>>
    BY <1>1 DEF Contents
  <2>2. CASE buf.valid /\ ~to_ready
    <3>1. Contents = <<buf.data>> /\ Accepted = <<>> /\ Delivered = <<>>
      BY <2>2, <1>1, OfFlop DEF Accepted, Delivered
    <3>2. Contents' = <<buf.data>>
      BY <2>1, <2>2, <1>1, FlopRegs
    <3> QED BY <3>1, <3>2, <1>l, <1>s, <1>t, <1>1, OfFlop
  <2>3. CASE buf.valid /\ to_ready
    <3>1. Contents = <<buf.data>> /\ Delivered = <<buf.data>>
      BY <2>3, <1>1, OfFlop DEF Delivered
    <3>2. Accepted = IF from_valid THEN <<from_data>> ELSE <<>>
      BY <2>3, <1>1, OfFlop DEF Accepted
    <3>3. Contents' = IF from_valid THEN <<from_data>> ELSE <<>>
      BY <2>1, <2>3, <1>1, FlopRegs
    <3>4. CASE from_valid
      <4>1. Contents \o Accepted = <<buf.data, from_data>>
        BY <3>1, <3>2, <3>4, <1>c, <1>t
      <4>2. Fifo!Left = <<from_data>>
        BY <4>1, <3>1, <1>l, <1>s, <1>t
      <4> QED BY <4>2, <3>3, <3>4, <1>s, <1>t, <1>1, OfFlop
    <3>5. CASE ~from_valid
      <4>1. Contents \o Accepted = <<buf.data>>
        BY <3>1, <3>2, <3>5, <1>s, <1>t
      <4>2. Fifo!Left = <<>>
        BY <4>1, <3>1, <1>l, <1>s, <1>t
      <4> QED BY <4>2, <3>3, <3>5, <1>s, <1>t, <1>1, OfFlop
    <3> QED BY <3>4, <3>5, <1>t
  <2>4. CASE ~buf.valid
    <3>1. Contents = <<>> /\ Delivered = <<>>
      BY <2>4, <1>1, OfFlop DEF Delivered
    <3>2. Accepted = IF from_valid THEN <<from_data>> ELSE <<>>
      BY <2>4, <1>1, OfFlop DEF Accepted
    <3>3. Contents' = IF from_valid THEN <<from_data>> ELSE <<>>
      BY <2>1, <2>4, <1>1, FlopRegs
    <3> QED BY <3>1, <3>2, <3>3, <1>l, <1>s, <1>t, <1>1, OfFlop
  <2> QED BY <2>2, <2>3, <2>4
<1>2. CASE Kind = "skid"
  <2>1. Contents' = IF ~buf'.valid THEN <<>>
                    ELSE IF ~buf'.valid_skid THEN <<buf'.data>>
                    ELSE <<buf'.skid, buf'.data>>
    BY <1>2, <1>i, OfSkidNext
  <2>2. CASE buf.valid_skid
    <3>1. /\ Contents = <<buf.skid, buf.data>> /\ Accepted = <<>>
          /\ Delivered = IF to_ready THEN <<buf.skid>> ELSE <<>>
      BY <2>2, <1>2, OfSkid DEF Accepted, Delivered, Inv, SkidBehindData
    <3>2. Contents' = IF to_ready THEN <<buf.data>> ELSE <<buf.skid, buf.data>>
      BY <2>1, <2>2, <1>2, <1>t, SkidRegs DEF Inv, SkidBehindData
    <3> QED BY <3>1, <3>2, <1>l, <1>s, <1>t, <1>2, OfSkid
  <2>3. CASE ~buf.valid_skid /\ buf.valid
    <3>1. /\ Contents = <<buf.data>>
          /\ Accepted = IF from_valid THEN <<from_data>> ELSE <<>>
          /\ Delivered = IF to_ready THEN <<buf.data>> ELSE <<>>
      BY <2>3, <1>2, OfSkid DEF Accepted, Delivered
    <3>2. CASE from_valid
      <4>1. Contents' = IF to_ready THEN <<from_data>> ELSE <<buf.data, from_data>>
        BY <2>1, <2>3, <3>2, <1>2, <1>t, SkidRegs
      <4>2. Contents \o Accepted = <<buf.data, from_data>>
        BY <3>1, <3>2, <1>c, <1>t
      <4>3. CASE to_ready
        <5>1. Fifo!Left = <<from_data>>
          BY <4>2, <4>3, <3>1, <1>l, <1>s, <1>t
        <5> QED BY <5>1, <4>1, <4>3, <1>s, <1>t, <1>2, OfSkid
      <4>4. CASE ~to_ready
        <5>1. Fifo!Left = <<buf.data, from_data>>
          BY <4>2, <4>4, <3>1, <1>l, <1>s, <1>t
        <5> QED BY <5>1, <4>1, <4>4, <1>s, <1>t, <1>2, OfSkid
      <4> QED BY <4>3, <4>4, <1>t
    <3>3. CASE ~from_valid
      <4>1. Contents' = IF to_ready THEN <<>> ELSE <<buf.data>>
        BY <2>1, <2>3, <3>3, <1>2, <1>t, SkidRegs
      <4> QED BY <3>1, <3>3, <4>1, <1>l, <1>s, <1>t, <1>2, OfSkid
    <3> QED BY <3>2, <3>3
  <2>4. CASE ~buf.valid_skid /\ ~buf.valid
    <3>1. /\ Contents = <<>> /\ Delivered = <<>>
          /\ Accepted = IF from_valid THEN <<from_data>> ELSE <<>>
      BY <2>4, <1>2, OfSkid DEF Accepted, Delivered
    <3>2. Contents' = IF from_valid THEN <<from_data>> ELSE <<>>
      BY <2>1, <2>4, <1>2, <1>t, SkidRegs
    <3> QED BY <3>1, <3>2, <1>l, <1>s, <1>t, <1>2, OfSkid
  <2> QED BY <2>2, <2>3, <2>4
<1>3. CASE Kind = "zero"
  <2>1. Contents' = IF buf'.valid_skid THEN <<buf'.skid>> ELSE <<>>
    BY <1>3 DEF Contents
  <2>2. CASE buf.valid_skid
    <3>1. /\ Contents = <<buf.skid>> /\ Accepted = <<>>
          /\ Delivered = IF to_ready THEN <<buf.skid>> ELSE <<>>
      BY <2>2, <1>3, OfZeroLatency DEF Accepted, Delivered
    <3>2. Contents' = IF to_ready THEN <<>> ELSE <<buf.skid>>
      BY <2>1, <2>2, <1>3, <1>t, ZeroLatencyRegs
    <3> QED BY <3>1, <3>2, <1>l, <1>s, <1>t, <1>3, OfZeroLatency
  <2>3. CASE ~buf.valid_skid
    <3>1. /\ Contents = <<>>
          /\ Accepted = IF from_valid THEN <<from_data>> ELSE <<>>
          /\ Delivered = IF from_valid /\ to_ready THEN <<from_data>> ELSE <<>>
      BY <2>3, <1>3, OfZeroLatency DEF Accepted, Delivered
    <3>2. Contents' = IF from_valid /\ ~to_ready THEN <<from_data>> ELSE <<>>
      BY <2>1, <2>3, <1>3, <1>t, ZeroLatencyRegs
    <3> QED BY <3>1, <3>2, <1>l, <1>s, <1>t, <1>3, OfZeroLatency
  <2> QED BY <2>2, <2>3
<1> QED BY <1>1, <1>2, <1>3, RdvAssumption

(* At its ports every buffer is a FIFO of its capacity: no datum is lost,  *)
(* duplicated, reordered or made up, for every behaviour of the producer   *)
(* and the consumer and every set of data.                                 *)
THEOREM BuffersAreFifos == Spec => ImplementsFifo
<1>1. Init => Fifo!Init
  <2> SUFFICES ASSUME Init PROVE Fifo!Init
    OBVIOUS
  <2>1. Inv
    BY RdvAssumption DEF Init, Drive, Inv, TypeOK, SkidBehindData, Buffers, ResetBuffer
  <2>2. Contents = <<>>
    BY <2>1, OfFlop, OfSkid, OfZeroLatency, RdvAssumption DEF Init, ResetBuffer
  <2> QED BY <2>1, <2>2, CycleOK DEF Fifo!Init
<1>2. Inv /\ [Clock]_vars => [Fifo!Next]_<<Contents, Accepted, Delivered>>
  <2>1. ASSUME Inv, Clock PROVE Fifo!Next
    <3>1. Fifo!Cycle'
      BY <2>1, InvStep, CycleOK, PTL
    <3> QED BY <2>1, <3>1, LeftOK DEF Fifo!Next
  <2>2. UNCHANGED vars => UNCHANGED <<Contents, Accepted, Delivered>>
    BY DEF vars, Contents, Accepted, Delivered, from_rdy, to_valid, to_data
  <2> QED BY <2>1, <2>2
<1> QED BY <1>1, <1>2, InvHolds, PTL DEF Spec, ImplementsFifo, Fifo!Spec
=============================================================================
