---------------------- MODULE SerialProcRuntime_proofs ----------------------
(***************************************************************************)
(* The runtime keeps its promises for every network of procs, every number *)
(* of procs and channels, every mixture of evaluators and every client.    *)
(*                                                                         *)
(* Typing and the refinement of ProcNetwork need nothing else.  What the   *)
(* scheduler promises needs blocked_procs to have a place for everyone who *)
(* may wait, that is, one receiving proc per channel: with two of them the *)
(* second to block displaces the first.  What a call reports of the        *)
(* queues needs in addition that nobody fills, from another thread, a      *)
(* queue that a proc was found waiting for.                                *)
(***************************************************************************)
EXTENDS SerialProcRuntime, SequenceTheorems, FiniteSetTheorems, TLAPS

\* All receives on a channel belong to one proc.
OneReceiverPerChannel ==
    \A p, q \in Proc : \A m \in DOMAIN Program[p], n \in DOMAIN Program[q] :
        /\ Program[p][m].op = "receive" /\ Program[q][n].op = "receive"
        /\ Program[p][m].ch = Program[q][n].ch
        => p = q

\* No blocking receive is on a channel that the client may write to while a
\* call is running.
NoConcurrentInput ==
    ConcurrentClient =>
        \A p \in Proc : \A n \in DOMAIN Program[p] :
            ~(/\ Program[p][n].op = "receive" /\ Program[p][n].blocking
              /\ Program[p][n].ch \in Input)

Ticking == phase \in {"schedule", "execute", "returned"}

InReady(p)   == \E n \in DOMAIN ready : ready[n] = p
InBlocked(p) == \E ch \in DOMAIN blocked : blocked[ch] = p

\* The continuation of p is at a receive on ch.
AtReceive(p, ch) ==
    /\ node_index[p] <= Len(Program[p])
    /\ Program[p][node_index[p]].op = "receive"
    /\ Program[p][node_index[p]].ch = ch

(***************************************************************************)
(* The inductive invariant of the scheduler.  That a waiting proc is at a  *)
(* receive on the channel it waits for is what keeps cur from displacing   *)
(* another proc: the two would receive from the same channel.              *)
(***************************************************************************)
OnePlace ==
    /\ \A m, n \in DOMAIN ready : ready[m] = ready[n] => m = n
    /\ \A c, d \in DOMAIN blocked : blocked[c] = blocked[d] => c = d
    /\ \A p \in Proc :
          /\ InReady(p) \/ InBlocked(p) \/ p = cur \/ p \in completed
          /\ InReady(p) => ~InBlocked(p) /\ p # cur /\ p \notin completed
          /\ InBlocked(p) => p # cur /\ p \notin completed
          /\ p = cur => p \notin completed

WaitersAtReceives ==
    /\ \A ch \in DOMAIN blocked : AtReceive(blocked[ch], ch)
    /\ phase = "returned" /\ tick.state = "blocked" =>
          AtReceive(cur, tick.channel)

SchedInv == TypeOK /\ (Ticking => OnePlace /\ WaitersAtReceives)

(***************************************************************************)
(* The strengthening for what is reported: a waiting proc waits for an     *)
(* empty channel, except between a send on the channel and the scheduler's *)
(* reaction to it; and the progress flags account for every completion.    *)
(***************************************************************************)
\* The continuation of p says that p cannot go on: ch is empty.
IsWaiting(p, ch) ==
    /\ AtReceive(p, ch)
    /\ Program[p][node_index[p]].blocking
    /\ Holds(Program[p][node_index[p]].pred, state[p], got[p])
    /\ queue[ch] = <<>>

WaitersWait ==
    /\ \A ch \in DOMAIN blocked :
          \/ IsWaiting(blocked[ch], ch)
          \/ phase = "returned" /\ tick.state = "sent" /\ tick.channel = ch
    /\ phase = "returned" /\ tick.state = "blocked" =>
          IsWaiting(cur, tick.channel)

ProgressRecorded ==
    /\ completed # {} => progress
    /\ \A p \in completed : ProcHasIoOperations(p) => progress_io
    /\ phase = "returned" /\ tick.state = "completed" => tick.progress

ReportInv == Ticking => WaitersWait /\ ProgressRecorded

-----------------------------------------------------------------------------
(***************************************************************************)
(* Lemmas about the operators of the model.                                *)
(***************************************************************************)

\* What RuntimeAssumption says of one node of a proc.
LEMMA NodeType ==
  ASSUME NEW p \in Proc
  PROVE  /\ Len(Program[p]) \in Nat /\ DOMAIN Program[p] = 1 .. Len(Program[p])
         /\ \A n \in 1 .. Len(Program[p]) :
               Program[p][n].op \in {"send", "receive"} =>
                   /\ Program[p][n].ch \in Channel
                   /\ Program[p][n].blocking \in BOOLEAN
<1>1. Program[p] \in Seq(Range(Program[p]))  BY RuntimeAssumption
<1>2. Len(Program[p]) \in Nat /\ DOMAIN Program[p] = 1 .. Len(Program[p])
  BY <1>1, LenProperties
<1> QED BY <1>2, RuntimeAssumption

\* What the procs compute has the type of the channels and of the state.
LEMMA ComputationType ==
  ASSUME NEW p \in Proc, NEW s \in State, NEW g \in Value \cup {Nothing}
  PROVE  SendData(p, s, g) \in Value /\ NextState(p, s, g) \in State
BY RuntimeAssumption

\* Queue operations keep queues of values.
LEMMA QueueType ==
  ASSUME NEW ch \in Channel, NEW q \in Seq(Value)
  PROVE  /\ \A v \in Value : /\ Pushed(ch, q, v) \in Seq(Value)
                             /\ Pushed(ch, q, v) # <<>>
         /\ q # <<>> => Head(q) \in Value /\ Popped(ch, q) \in Seq(Value)
<1>1. ASSUME NEW v \in Value
      PROVE  /\ Pushed(ch, q, v) \in Seq(Value)
             /\ Pushed(ch, q, v) # <<>>
  <2>1. <<v>> \in Seq(Value) /\ <<v>> # <<>>  OBVIOUS
  <2>2. Append(q, v) \in Seq(Value) /\ Append(q, v) # <<>>
    BY AppendProperties
  <2> QED BY <2>1, <2>2 DEF Pushed
<1>2. ASSUME q # <<>>
      PROVE  Head(q) \in Value /\ Popped(ch, q) \in Seq(Value)
  BY <1>2, HeadTailProperties DEF Popped
<1> QED BY <1>1, <1>2

-----------------------------------------------------------------------------
(***************************************************************************)
(* Types.                                                                  *)
(***************************************************************************)

TickResult == [state    : {"none", "sent", "blocked", "completed"},
               channel  : Channel \cup {Nothing},
               progress : BOOLEAN]

\* The parts of TypeOK that an evaluator's exit changes.
ExitTypeOK ==
    /\ phase \in {"idle", "loop", "schedule", "execute", "returned"}
    /\ result \in {"none", "running", "ok", "deadlock", "deadline_exceeded",
                   "invalid_argument", "assertion_failed"}
    /\ phase \in {"execute", "returned"} <=> cur \in Proc
    /\ tick \in TickResult
    /\ phase = "returned" => \/ tick.state = "completed"
                             \/ /\ tick.state \in {"sent", "blocked"}
                                /\ tick.channel \in Channel

\* Whether an evaluator returns a result or an error, the fields it sets
\* have their types.
LEMMA ExitType ==
  ASSUME TypeOK, phase = "execute",
         NEW outcome \in {"sent", "blocked", "completed"},
         NEW ch \in Channel \cup {Nothing},
         outcome = "completed" \/ ch \in Channel,
         NEW progressed \in BOOLEAN,
         Exit(outcome, ch, progressed)
  PROVE  ExitTypeOK' /\ phase' # "execute"
<1>1. CASE events[cur] /\ cur \notin Jit
  <2>1. phase' = "idle" /\ result' = "assertion_failed"
        /\ cur' = NoProc /\ tick' = NoTick
    BY <1>1 DEF Exit, Return
  <2>2. NoTick \in TickResult  BY DEF NoTick, TickResult
  <2> QED BY <2>1, <2>2, RuntimeAssumption DEF ExitTypeOK
<1>2. CASE ~(events[cur] /\ cur \notin Jit)
  <2>1. /\ tick' = [state |-> outcome, channel |-> ch,
                    progress |-> progressed]
        /\ phase' = "returned" /\ cur' = cur /\ result' = result
    BY <1>2 DEF Exit
  <2>2. tick' \in TickResult
        /\ tick'.state = outcome /\ tick'.channel = ch
    BY <2>1 DEF TickResult
  <2> QED BY <2>1, <2>2 DEF ExitTypeOK, TypeOK
<1> QED BY <1>1, <1>2

\* The parts of TypeOK that only an evaluator changes.
ContinuationsTypeOK ==
    /\ queue \in [Channel -> Seq(Value)]
    /\ node_index \in [Proc -> Nat]
    /\ \A p \in Proc : node_index[p] \in 1 .. Len(Program[p]) + 1
    /\ state \in [Proc -> State]
    /\ got \in [Proc -> Value \cup {Nothing}]
    /\ events \in [Proc -> BOOLEAN]
    /\ continuation_point \in [Proc -> Nat]

\* The parts of TypeOK that the scheduling loop changes.
SchedulerTypeOK ==
    /\ ready \in Seq(Proc)
    /\ blocked \in UNION {[S -> Proc] : S \in SUBSET Channel}
    /\ progress \in BOOLEAN /\ progress_io \in BOOLEAN
    /\ completed \subseteq Proc

\* TypeOK, part by part.
LEMMA TypeParts ==
  TypeOK <=> /\ ContinuationsTypeOK /\ ExitTypeOK /\ SchedulerTypeOK
             /\ ticks \in Nat
             /\ phase = "execute" => i \in 1 .. Len(Program[cur]) + 1
BY DEF TypeOK, ContinuationsTypeOK, ExitTypeOK, SchedulerTypeOK, TickResult

\* ... and after a step.
LEMMA TypePartsNext ==
  TypeOK' <=> /\ ContinuationsTypeOK' /\ ExitTypeOK' /\ SchedulerTypeOK'
              /\ ticks' \in Nat
              /\ phase' = "execute" => i' \in 1 .. Len(Program[cur']) + 1
BY DEF TypeOK, ContinuationsTypeOK, ExitTypeOK, SchedulerTypeOK, TickResult

\* The client's actions keep the types.
LEMMA ClientType == TypeOK /\ Client => TypeOK'
<1> SUFFICES ASSUME TypeOK, Client PROVE TypeOK'  OBVIOUS
<1>0. /\ ContinuationsTypeOK /\ ExitTypeOK /\ SchedulerTypeOK
      /\ ticks \in Nat
      /\ phase = "execute" => i \in 1 .. Len(Program[cur]) + 1
  BY TypeParts
<1>a. UNCHANGED scheduler => SchedulerTypeOK'
  BY <1>0 DEF SchedulerTypeOK, scheduler
<1>b. UNCHANGED <<queue, continuations>> => ContinuationsTypeOK'
  BY <1>0 DEF ContinuationsTypeOK, continuations
<1>1. ASSUME NEW c, StartCall(c) PROVE TypeOK'
  <2>1. ExitTypeOK' /\ ticks' \in Nat /\ phase' # "execute"
    BY <1>0, <1>1 DEF StartCall, Idle, ExitTypeOK, evaluator
  <2> QED BY <1>1, <1>a, <1>b, <2>1, TypePartsNext DEF StartCall
<1>2. ASSUME NEW counts, NEW max, TickUntilOutput(counts, max) PROVE TypeOK'
  <2>1. CASE Idle /\ result' = "invalid_argument"
             /\ UNCHANGED <<queue, continuations, call, ticks, phase,
                            scheduler, evaluator>>
    <3>1. ExitTypeOK' /\ ticks' \in Nat /\ phase' # "execute"
      BY <1>0, <2>1 DEF Idle, ExitTypeOK, evaluator
    <3> QED BY <2>1, <1>a, <1>b, <3>1, TypePartsNext
  <2> QED BY <1>1, <1>2, <2>1 DEF TickUntilOutput
<1>3. ASSUME Idle, UNCHANGED <<queue, caller, phase, scheduler, evaluator>>,
             ContinuationsTypeOK'
      PROVE  TypeOK'
  <2>1. ExitTypeOK' /\ ticks' \in Nat /\ phase' # "execute"
    BY <1>0, <1>3 DEF Idle, ExitTypeOK, evaluator, caller
  <2> QED BY <1>3, <1>a, <2>1, TypePartsNext
<1>4. CASE ResetState
  <2>1. ContinuationsTypeOK'
    BY <1>0, <1>4, NodeType, RuntimeAssumption
    DEF ResetState, ContinuationsTypeOK
  <2> QED BY <1>3, <1>4, <2>1 DEF ResetState
<1>5. CASE ClearInterpreterEvents
  <2>1. ContinuationsTypeOK'
    BY <1>0, <1>5 DEF ClearInterpreterEvents, ContinuationsTypeOK
  <2> QED BY <1>3, <1>5, <2>1 DEF ClearInterpreterEvents
<1>6. ASSUME NEW ch \in Channel, NEW q \in Seq(Value),
             queue' = [queue EXCEPT ![ch] = q],
             UNCHANGED <<continuations, caller, phase, scheduler, evaluator>>
      PROVE  TypeOK'
  <2>1. ContinuationsTypeOK'
    BY <1>0, <1>6 DEF ContinuationsTypeOK, continuations
  <2>2. /\ ExitTypeOK' /\ ticks' \in Nat
        /\ phase' = "execute" => i' \in 1 .. Len(Program[cur']) + 1
    BY <1>0, <1>6 DEF ExitTypeOK, evaluator, caller
  <2> QED BY <1>6, <1>a, <2>1, <2>2, TypePartsNext
<1>7. ASSUME NEW ch \in Input, NEW v \in Value, ClientWrite(ch, v)
      PROVE  TypeOK'
  <2>1. ch \in Channel /\ queue[ch] \in Seq(Value)
    BY <1>0, RuntimeAssumption DEF ContinuationsTypeOK
  <2>2. Pushed(ch, queue[ch], v) \in Seq(Value)  BY <2>1, QueueType
  <2> QED BY <1>6, <1>7, <2>1, <2>2 DEF ClientWrite
<1>8. ASSUME NEW ch \in Output, ClientRead(ch) PROVE TypeOK'
  <2>1. ch \in Channel /\ queue[ch] \in Seq(Value) /\ queue[ch] # <<>>
    BY <1>0, <1>8, RuntimeAssumption DEF ContinuationsTypeOK, ClientRead
  <2>2. Popped(ch, queue[ch]) \in Seq(Value)  BY <2>1, QueueType
  <2> QED BY <1>6, <1>8, <2>1, <2>2 DEF ClientRead
<1> QED BY <1>1, <1>2, <1>4, <1>5, <1>7, <1>8
        DEF Client, Tick, TickUntilBlocked

\* So do the loops around TickInternal and the scheduling loop.
LEMMA LoopType == TypeOK /\ (Loop \/ TickInternalEnd \/ Dispatch) => TypeOK'
<1> SUFFICES ASSUME TypeOK, Loop \/ TickInternalEnd \/ Dispatch PROVE TypeOK'
  OBVIOUS
<1>0. /\ ContinuationsTypeOK /\ ExitTypeOK /\ SchedulerTypeOK
      /\ ticks \in Nat
      /\ phase = "execute" => i \in 1 .. Len(Program[cur]) + 1
  BY TypeParts
<1>a. UNCHANGED scheduler => SchedulerTypeOK'
  BY <1>0 DEF SchedulerTypeOK, scheduler
<1>b. UNCHANGED <<queue, continuations>> => ContinuationsTypeOK'
  BY <1>0 DEF ContinuationsTypeOK, continuations
<1>c. ASSUME phase \in {"loop", "schedule"},
             phase' \in {"idle", "loop", "schedule"},
             \/ result' = result
             \/ result' \in {"ok", "deadlock", "deadline_exceeded"},
             UNCHANGED evaluator
      PROVE  ExitTypeOK' /\ phase' # "execute"
  BY <1>0, <1>c DEF ExitTypeOK, evaluator
<1>1. CASE Loop
  <2>1. ExitTypeOK' /\ phase' # "execute"
    BY <1>1, <1>c DEF Loop, Return, TickInternalStart
  <2>2. TickInternalStart => SchedulerTypeOK'
    <3> SUFFICES ASSUME TickInternalStart PROVE SchedulerTypeOK'  OBVIOUS
    <3>1. blocked' \in [{} -> Proc]  BY DEF TickInternalStart
    <3> QED BY <3>1, RuntimeAssumption DEF TickInternalStart, SchedulerTypeOK
  <2>3. SchedulerTypeOK'  BY <1>1, <1>a, <2>2 DEF Loop
  <2>4. ticks' = ticks /\ UNCHANGED <<queue, continuations>>
    BY <1>1 DEF Loop
  <2> QED BY <1>0, <1>b, <2>1, <2>3, <2>4, TypePartsNext
<1>2. CASE TickInternalEnd
  <2>1. ExitTypeOK' /\ phase' # "execute"
    BY <1>2, <1>c DEF TickInternalEnd, Return
  <2>2. ticks' \in Nat  BY <1>0, <1>2 DEF TickInternalEnd
  <2> QED BY <1>2, <1>a, <1>b, <2>1, <2>2, TypePartsNext DEF TickInternalEnd
<1>3. CASE Dispatch
  <2>1. ready \in Seq(Proc) /\ ready # <<>>
    BY <1>0, <1>3 DEF SchedulerTypeOK, Dispatch
  <2>2. Head(ready) \in Proc /\ Tail(ready) \in Seq(Proc)
    BY <2>1, HeadTailProperties
  <2>3. SchedulerTypeOK'
    BY <1>0, <1>3, <2>2 DEF SchedulerTypeOK, Dispatch
  <2>4. NoTick \in TickResult  BY DEF NoTick, TickResult
  <2>5. ExitTypeOK'
    BY <1>0, <1>3, <2>2, <2>4 DEF ExitTypeOK, Dispatch, caller
  <2>6. i' \in 1 .. Len(Program[cur']) + 1
    BY <1>0, <1>3, <2>2 DEF ContinuationsTypeOK, Dispatch
  <2>7. ticks' = ticks /\ UNCHANGED <<queue, continuations>>
    BY <1>3 DEF Dispatch, caller
  <2> QED BY <1>0, <1>b, <2>3, <2>5, <2>6, <2>7, TypePartsNext
<1> QED BY <1>1, <1>2, <1>3

\* What Reschedule leaves is a list of procs and a map from channels to them.
LEMMA RescheduleType ==
  ASSUME TypeOK, phase = "returned", Reschedule
  PROVE  /\ ready' \in Seq(Proc)
         /\ blocked' \in UNION {[S -> Proc] : S \in SUBSET Channel}
<1>0. /\ ready \in Seq(Proc) /\ cur \in Proc
      /\ DOMAIN blocked \subseteq Channel
      /\ blocked \in [DOMAIN blocked -> Proc]
  BY DEF TypeOK
<1>1. CASE tick.state = "sent"
  <2>1. \A q \in Proc : ready \o <<q, cur>> \in Seq(Proc)
    BY <1>0, ConcatProperties
  <2>2. Append(ready, cur) \in Seq(Proc)  BY <1>0, AppendProperties
  <2>3. ready' \in Seq(Proc)  BY <1>0, <1>1, <2>1, <2>2 DEF Reschedule
  <2>4. blocked' \in [DOMAIN blocked \ {tick.channel} -> Proc]
    BY <1>0, <1>1 DEF Reschedule, Restrict
  <2> QED BY <1>0, <2>3, <2>4
<1>2. CASE tick.state = "blocked"
  <2>1. tick.channel \in Channel  BY <1>2 DEF TypeOK
  <2>2. blocked' \in [DOMAIN blocked \cup {tick.channel} -> Proc]
    BY <1>0, <1>2 DEF Reschedule
  <2> QED BY <1>0, <1>2, <2>1, <2>2 DEF Reschedule
<1>3. CASE tick.state = "completed"
  BY <1>0, <1>3 DEF Reschedule
<1> QED BY <1>1, <1>2, <1>3 DEF Reschedule

\* The end of a proc's tick keeps the types.
LEMMA TickReturnedType == TypeOK /\ TickReturned => TypeOK'
<1> SUFFICES ASSUME TypeOK, TickReturned PROVE TypeOK'  OBVIOUS
<1>0. /\ ContinuationsTypeOK /\ ExitTypeOK /\ SchedulerTypeOK
      /\ ticks \in Nat
  BY TypeParts
<1>1. /\ ready' \in Seq(Proc)
      /\ blocked' \in UNION {[S -> Proc] : S \in SUBSET Channel}
  BY RescheduleType DEF TickReturned
<1>2. cur \in Proc /\ tick.progress \in BOOLEAN
  BY <1>0 DEF ExitTypeOK, TickReturned, TickResult
<1>3. progress' \in BOOLEAN /\ progress_io' \in BOOLEAN
  BY <1>0, <1>2 DEF SchedulerTypeOK, TickReturned, Accumulated
<1>4. completed' \subseteq Proc
  BY <1>0, <1>2 DEF SchedulerTypeOK, TickReturned
<1>5. SchedulerTypeOK'  BY <1>1, <1>3, <1>4 DEF SchedulerTypeOK
<1>6. ExitTypeOK' /\ phase' # "execute"
  BY <1>0, RuntimeAssumption DEF ExitTypeOK, TickReturned, caller
<1>7. ContinuationsTypeOK' /\ ticks' = ticks
  BY <1>0 DEF ContinuationsTypeOK, TickReturned, continuations, caller
<1> QED BY <1>0, <1>5, <1>6, <1>7, TypePartsNext

\* So do the evaluators.
LEMMA EvaluatorType ==
  TypeOK /\ (HandleReceive \/ HandleSend \/ HandleOther \/ Complete) => TypeOK'
<1> SUFFICES ASSUME TypeOK,
                    HandleReceive \/ HandleSend \/ HandleOther \/ Complete
             PROVE  TypeOK'
  OBVIOUS
<1>0. /\ ContinuationsTypeOK /\ ExitTypeOK /\ SchedulerTypeOK
      /\ ticks \in Nat /\ phase = "execute" /\ cur \in Proc
      /\ Len(Program[cur]) \in Nat
      /\ i \in 1 .. Len(Program[cur]) + 1
  <2>1. phase = "execute"
    BY DEF HandleReceive, HandleSend, HandleOther, Complete
  <2>2. cur \in Proc  BY <2>1 DEF TypeOK
  <2> QED BY <2>1, <2>2, TypeParts, NodeType
<1>1. SchedulerTypeOK' /\ ticks' \in Nat
  BY <1>0 DEF SchedulerTypeOK, scheduler, HandleReceive, HandleSend,
              HandleOther, Complete
<1>2. GoOn /\ i <= Len(Program[cur]) =>
         /\ ExitTypeOK' /\ i' \in 1 .. Len(Program[cur']) + 1
         /\ node_index' = node_index
  BY <1>0 DEF GoOn, ExitTypeOK
<1>p. continuation_point' \in [Proc -> Nat]
  <2>1. continuation_point \in [Proc -> Nat] /\ i \in Nat
    BY <1>0 DEF ContinuationsTypeOK
  <2>2. GoOn \/ ContinueFrom(i) \/ ContinueFrom(0)
    BY DEF HandleReceive, HandleSend, HandleOther, Complete
  <2>3. ASSUME NEW n \in Nat, ContinueFrom(n)
        PROVE  continuation_point' \in [Proc -> Nat]
    BY <1>0, <2>1, <2>3 DEF ContinueFrom
  <2> QED BY <2>1, <2>2, <2>3 DEF GoOn
<1>3. CASE HandleReceive
  <2>1. /\ i \in 1 .. Len(Program[cur]) /\ Node.op = "receive"
        /\ Node.ch \in Channel /\ queue[Node.ch] \in Seq(Value)
    BY <1>0, <1>3, NodeType DEF HandleReceive, Node, ContinuationsTypeOK
  <2>2. state' = state /\ events' = events  BY <1>3 DEF HandleReceive
  <2>3. CASE /\ Active /\ queue[Node.ch] # <<>>
             /\ got' = [got EXCEPT ![cur] = Head(queue[Node.ch])]
             /\ queue' = [queue EXCEPT ![Node.ch] = Popped(Node.ch, @)]
             /\ GoOn
    <3>1. /\ Head(queue[Node.ch]) \in Value
          /\ Popped(Node.ch, queue[Node.ch]) \in Seq(Value)
      BY <2>1, <2>3, QueueType
    <3>2. ContinuationsTypeOK'
      BY <1>0, <1>p, <1>2, <2>1, <2>2, <2>3, <3>1 DEF ContinuationsTypeOK
    <3> QED BY <1>1, <1>2, <2>1, <2>3, <3>2, TypePartsNext
  <2>4. CASE /\ got' = [got EXCEPT
                           ![cur] = IF Node.blocking THEN Zero ELSE Nothing]
             /\ GoOn
             /\ UNCHANGED queue
    <3>1. ContinuationsTypeOK'
      BY <1>0, <1>p, <1>2, <2>1, <2>2, <2>4, RuntimeAssumption
      DEF ContinuationsTypeOK
    <3> QED BY <1>1, <1>2, <2>1, <2>4, <3>1, TypePartsNext
  <2>5. CASE /\ node_index' = [node_index EXCEPT ![cur] = i]
             /\ Exit("blocked", Node.ch, Progressed)
             /\ UNCHANGED <<queue, got, i>>
    <3>1. ContinuationsTypeOK'
      BY <1>0, <1>p, <2>1, <2>2, <2>5 DEF ContinuationsTypeOK
    <3>2. ExitTypeOK' /\ phase' # "execute"
      BY <1>0, <2>1, <2>5, ExitType DEF Progressed
    <3> QED BY <1>1, <3>1, <3>2, TypePartsNext
  <2> QED BY <1>3, <2>3, <2>4, <2>5 DEF HandleReceive
<1>4. CASE HandleSend
  <2>1. /\ i \in 1 .. Len(Program[cur]) /\ Node.op = "send"
        /\ Node.ch \in Channel /\ queue[Node.ch] \in Seq(Value)
    BY <1>0, <1>4, NodeType DEF HandleSend, Node, ContinuationsTypeOK
  <2>2. state' = state /\ events' = events /\ got' = got
    BY <1>4 DEF HandleSend
  <2>3. CASE /\ queue' = [queue EXCEPT ![Node.ch] =
                   Pushed(Node.ch, @, SendData(cur, state[cur], got[cur]))]
             /\ node_index' = [node_index EXCEPT ![cur] = ResumeAfterSend]
             /\ Exit("sent", Node.ch, TRUE)
    <3>1. SendData(cur, state[cur], got[cur]) \in Value
      BY <1>0, ComputationType DEF ContinuationsTypeOK
    <3>2. Pushed(Node.ch, queue[Node.ch],
                 SendData(cur, state[cur], got[cur])) \in Seq(Value)
      BY <2>1, <3>1, QueueType
    <3>3. ContinuationsTypeOK'
      BY <1>0, <1>p, <2>1, <2>2, <2>3, <3>2
      DEF ContinuationsTypeOK, ResumeAfterSend
    <3>4. ExitTypeOK' /\ phase' # "execute"
      BY <1>0, <2>1, <2>3, ExitType
    <3> QED BY <1>1, <3>3, <3>4, TypePartsNext
  <2>4. CASE GoOn /\ UNCHANGED queue
    <3>1. ContinuationsTypeOK'
      BY <1>0, <1>p, <1>2, <2>1, <2>2, <2>4 DEF ContinuationsTypeOK
    <3> QED BY <1>1, <1>2, <2>1, <2>4, <3>1, TypePartsNext
  <2> QED BY <1>4, <2>3, <2>4 DEF HandleSend
<1>5. CASE HandleOther
  <2>1. (events[cur] \/ (Node.op = "assert" /\ ~Active)) \in BOOLEAN
    BY <1>0 DEF ContinuationsTypeOK
  <2>2. events' \in [Proc -> BOOLEAN]
    BY <1>0, <1>5, <2>1 DEF HandleOther, ContinuationsTypeOK
  <2>3. ContinuationsTypeOK'
    BY <1>0, <1>p, <1>2, <1>5, <2>2 DEF ContinuationsTypeOK, HandleOther
  <2> QED BY <1>1, <1>2, <1>5, <2>3, TypePartsNext DEF HandleOther
<1>6. CASE Complete
  <2>1. NextState(cur, state[cur], got[cur]) \in State
    BY <1>0, ComputationType DEF ContinuationsTypeOK
  <2>2. \A p \in Proc : 1 \in 1 .. Len(Program[p]) + 1  BY NodeType
  <2>3. ContinuationsTypeOK'
    BY <1>0, <1>p, <1>6, <2>1, <2>2 DEF ContinuationsTypeOK, Complete
  <2>4. ExitTypeOK' /\ phase' # "execute"
    BY <1>0, <1>6, ExitType DEF Complete
  <2> QED BY <1>1, <2>3, <2>4, TypePartsNext
<1> QED BY <1>3, <1>4, <1>5, <1>6

\* The types are right in the beginning.
LEMMA TypeInit == Init => TypeOK
<1> SUFFICES ASSUME Init PROVE TypeOK  OBVIOUS
<1>1. ContinuationsTypeOK
  BY NodeType, RuntimeAssumption DEF Init, ContinuationsTypeOK
<1>2. NoTick \in TickResult  BY DEF NoTick, TickResult
<1>3. ExitTypeOK  BY <1>2, RuntimeAssumption DEF Init, ExitTypeOK
<1>4. blocked \in [{} -> Proc] /\ ready \in Seq(Proc)  BY DEF Init
<1>5. SchedulerTypeOK  BY <1>4 DEF Init, SchedulerTypeOK
<1> QED BY <1>1, <1>3, <1>5, TypeParts DEF Init

\* Every step keeps the types.
LEMMA TypeStep == TypeOK /\ [Next]_vars => TypeOK'
<1>1. TypeOK /\ UNCHANGED vars => TypeOK'
  BY DEF TypeOK, vars, continuations, caller, scheduler, evaluator
<1> QED BY <1>1, ClientType, LoopType, TickReturnedType, EvaluatorType
        DEF Next, Runtime

\* Queues, continuations, scheduler and TickResults keep their types in every
\* run of the runtime; in particular a continuation is never beyond the end
\* of its proc, and a proc that was reported to have sent or blocked did so
\* on a channel.
THEOREM RuntimeTypes == Spec => []TypeOK
BY TypeInit, TypeStep, PTL DEF Spec

-----------------------------------------------------------------------------
(***************************************************************************)
(* Scheduling.                                                             *)
(***************************************************************************)

\* An evaluator touches the continuation of its own proc only, and leaves it
\* at a receive when it reports that it waits there.
LEMMA EvaluatorSteps ==
  ASSUME TypeOK, HandleReceive \/ HandleSend \/ HandleOther \/ Complete
  PROVE  /\ phase = "execute" /\ cur \in Proc /\ UNCHANGED scheduler
         /\ \A p \in Proc : p # cur => node_index'[p] = node_index[p]
         /\ \/ phase' = "idle"
            \/ phase' = "execute" /\ cur' = cur
            \/ /\ phase' = "returned" /\ cur' = cur
               /\ tick'.state = "blocked" => AtReceive(cur, tick.channel)'
<1>1. phase = "execute" /\ cur \in Proc
  BY DEF HandleReceive, HandleSend, HandleOther, Complete, TypeOK
<1>2. /\ node_index \in [Proc -> Nat] /\ Len(Program[cur]) \in Nat
      /\ i \in 1 .. Len(Program[cur]) + 1
  BY <1>1, NodeType DEF TypeOK
<1>3. UNCHANGED scheduler
  BY DEF HandleReceive, HandleSend, HandleOther, Complete
<1>4. \A p \in Proc : p # cur => node_index'[p] = node_index[p]
  BY <1>1, <1>2 DEF HandleReceive, HandleSend, HandleOther, Complete, GoOn
<1>5. ASSUME NEW o, NEW ch, NEW b, Exit(o, ch, b)
      PROVE  \/ phase' = "idle"
             \/ /\ phase' = "returned" /\ cur' = cur
                /\ tick'.state = o /\ tick'.channel = ch
  BY <1>5 DEF Exit, Return
<1>6. GoOn => phase' = "execute" /\ cur' = cur
  BY <1>1 DEF GoOn
<1>7. CASE HandleReceive
  <2>1. CASE /\ node_index' = [node_index EXCEPT ![cur] = i]
             /\ Exit("blocked", Node.ch, Progressed)
    <3>1. i <= Len(Program[cur]) /\ Node.op = "receive"
      BY <1>7 DEF HandleReceive
    <3>2. node_index'[cur] = i  BY <1>1, <1>2, <2>1
    <3>3. cur' = cur /\ tick'.channel = Node.ch =>
             AtReceive(cur, tick.channel)'
      BY <3>1, <3>2 DEF AtReceive, Node
    <3> QED BY <1>1, <1>3, <1>4, <1>5, <2>1, <3>3
  <2> QED BY <1>1, <1>3, <1>4, <1>6, <1>7, <2>1 DEF HandleReceive
<1>8. CASE HandleSend
  BY <1>1, <1>3, <1>4, <1>5, <1>6, <1>8 DEF HandleSend
<1>9. CASE HandleOther
  BY <1>1, <1>3, <1>4, <1>6, <1>9 DEF HandleOther
<1>10. CASE Complete
  BY <1>1, <1>3, <1>4, <1>5, <1>10 DEF Complete
<1> QED BY <1>7, <1>8, <1>9, <1>10

\* The scheduler's reaction to a TickResult.
LEMMA TickReturnedSched ==
  ASSUME OneReceiverPerChannel, SchedInv, TickReturned
  PROVE  OnePlace' /\ WaitersAtReceives'
<1>0. /\ OnePlace /\ WaitersAtReceives /\ TypeOK
      /\ phase = "returned" /\ cur \in Proc /\ cur' = NoProc
      /\ phase' = "schedule" /\ node_index' = node_index
      /\ NoProc \notin Proc
  BY RuntimeAssumption
  DEF SchedInv, Ticking, TickReturned, TypeOK, continuations
<1>1. /\ ready \in Seq(Proc) /\ DOMAIN blocked \subseteq Channel
      /\ blocked \in [DOMAIN blocked -> Proc]
      /\ Len(ready) \in Nat /\ DOMAIN ready = 1 .. Len(ready)
  BY <1>0 DEF TypeOK
<1>2. CASE tick.state = "sent"
  <2> DEFINE ch == tick.channel
  <2>0. completed' = completed  BY <1>2 DEF TickReturned
  <2>1. blocked' = [c \in DOMAIN blocked \ {ch} |-> blocked[c]]
    BY <1>2 DEF TickReturned, Reschedule, Restrict
  <2>2. WaitersAtReceives'
    BY <1>0, <2>1 DEF WaitersAtReceives, AtReceive
  <2>3. CASE ch \in DOMAIN blocked
    <3> DEFINE w == blocked[ch]
               L == Len(ready)
    <3>1. ready' = ready \o <<w, cur>>
      BY <1>2, <2>3 DEF TickReturned, Reschedule
    <3>2. /\ Len(ready') = L + 2 /\ DOMAIN ready' = 1 .. L + 2
          /\ \A n \in 1 .. L : ready'[n] = ready[n]
          /\ ready'[L + 1] = w /\ ready'[L + 2] = cur
      BY <1>0, <1>1, <2>3, <3>1
    <3>3. InBlocked(w) /\ ~InReady(w) /\ w # cur /\ w \in Proc
      BY <1>0, <1>1, <2>3 DEF OnePlace, InBlocked
    <3>4. \A p \in Proc : InReady(p)' <=> InReady(p) \/ p = w \/ p = cur
      <4> SUFFICES ASSUME NEW p \in Proc
                   PROVE  InReady(p)' <=> InReady(p) \/ p = w \/ p = cur
        OBVIOUS
      <4> HIDE DEF w
      <4>1. InReady(p)' <=> \E n \in 1 .. L + 2 : ready'[n] = p
        BY <3>2 DEF InReady
      <4>2. InReady(p) <=> \E n \in 1 .. L : ready[n] = p
        BY <1>1 DEF InReady
      <4> QED BY <1>1, <3>2, <4>1, <4>2
    <3>5. \A p \in Proc : InBlocked(p)' <=> InBlocked(p) /\ p # w
      BY <1>0, <1>1, <2>1, <2>3 DEF InBlocked, OnePlace
    <3>6. \A m, n \in DOMAIN ready' : ready'[m] = ready'[n] => m = n
      <4>1. \A n \in 1 .. L : ready[n] # w /\ ready[n] # cur
        BY <1>0, <1>1, <3>3 DEF OnePlace, InReady
      <4>2. \A m, n \in 1 .. L : ready[m] = ready[n] => m = n
        BY <1>0, <1>1 DEF OnePlace
      <4> HIDE DEF w
      <4> QED BY <1>1, <3>2, <3>3, <4>1, <4>2
    <3>7. \A c, d \in DOMAIN blocked' : blocked'[c] = blocked'[d] => c = d
      BY <1>0, <2>1 DEF OnePlace
    <3> HIDE DEF w
    <3>8. \A p \in Proc :
             /\ InReady(p)' \/ InBlocked(p)' \/ p = cur' \/ p \in completed'
             /\ InReady(p)' => ~InBlocked(p)' /\ p # cur' /\ p \notin completed'
             /\ InBlocked(p)' => p # cur' /\ p \notin completed'
             /\ p = cur' => p \notin completed'
      BY <1>0, <2>0, <3>3, <3>4, <3>5 DEF OnePlace
    <3> QED BY <2>2, <3>6, <3>7, <3>8 DEF OnePlace
  <2>4. CASE ch \notin DOMAIN blocked
    <3> DEFINE L == Len(ready)
    <3>1. ready' = Append(ready, cur) /\ blocked' = blocked
      BY <1>1, <1>2, <2>1, <2>4 DEF TickReturned, Reschedule
    <3>2. /\ Len(ready') = L + 1 /\ DOMAIN ready' = 1 .. L + 1
          /\ \A n \in 1 .. L : ready'[n] = ready[n]
          /\ ready'[L + 1] = cur
      BY <1>0, <1>1, <3>1
    <3>3. \A p \in Proc : InReady(p)' <=> InReady(p) \/ p = cur
      <4> SUFFICES ASSUME NEW p \in Proc
                   PROVE  InReady(p)' <=> InReady(p) \/ p = cur
        OBVIOUS
      <4>1. InReady(p)' <=> \E n \in 1 .. L + 1 : ready'[n] = p
        BY <3>2 DEF InReady
      <4>2. InReady(p) <=> \E n \in 1 .. L : ready[n] = p
        BY <1>1 DEF InReady
      <4> QED BY <1>1, <3>2, <4>1, <4>2
    <3>4. \A p \in Proc : InBlocked(p)' <=> InBlocked(p)
      BY <3>1 DEF InBlocked
    <3>5. \A m, n \in DOMAIN ready' : ready'[m] = ready'[n] => m = n
      <4>1. \A n \in 1 .. L : ready[n] # cur
        BY <1>0, <1>1 DEF OnePlace, InReady
      <4>2. \A m, n \in 1 .. L : ready[m] = ready[n] => m = n
        BY <1>0, <1>1 DEF OnePlace
      <4> QED BY <1>1, <3>2, <4>1, <4>2
    <3>6. \A p \in Proc :
             /\ InReady(p)' \/ InBlocked(p)' \/ p = cur' \/ p \in completed'
             /\ InReady(p)' => ~InBlocked(p)' /\ p # cur' /\ p \notin completed'
             /\ InBlocked(p)' => p # cur' /\ p \notin completed'
             /\ p = cur' => p \notin completed'
      BY <1>0, <2>0, <3>3, <3>4 DEF OnePlace
    <3> QED BY <1>0, <2>2, <3>1, <3>5, <3>6 DEF OnePlace
  <2> QED BY <2>3, <2>4
<1>3. CASE tick.state = "blocked"
  <2> DEFINE ch == tick.channel
  <2>0. ready' = ready /\ completed' = completed
    BY <1>3 DEF TickReturned, Reschedule
  <2>1. blocked' = [c \in DOMAIN blocked \cup {ch} |->
                      IF c = ch THEN cur ELSE blocked[c]]
    BY <1>3 DEF TickReturned, Reschedule
  <2>2. AtReceive(cur, ch)  BY <1>0, <1>3 DEF WaitersAtReceives
  <2>3. ch \notin DOMAIN blocked
    <3> SUFFICES ASSUME ch \in DOMAIN blocked PROVE FALSE  OBVIOUS
    <3> DEFINE w == blocked[ch]
    <3>1. w \in Proc /\ AtReceive(w, ch)
      BY <1>0, <1>1 DEF WaitersAtReceives
    <3>2. w # cur  BY <1>0, <1>1 DEF OnePlace, InBlocked
    <3> HIDE DEF w
    <3>3. /\ node_index[w] \in DOMAIN Program[w]
          /\ node_index[cur] \in DOMAIN Program[cur]
      BY <1>0, <2>2, <3>1, NodeType DEF AtReceive, TypeOK
    <3> QED BY <1>0, <2>2, <3>1, <3>2, <3>3
            DEF OneReceiverPerChannel, AtReceive
  <2>4. \A p \in Proc : InBlocked(p)' <=> InBlocked(p) \/ p = cur
    BY <2>1, <2>3 DEF InBlocked
  <2>5. \A c, d \in DOMAIN blocked' : blocked'[c] = blocked'[d] => c = d
    <3>1. \A c \in DOMAIN blocked : blocked[c] # cur
      BY <1>0 DEF OnePlace, InBlocked
    <3> QED BY <1>0, <2>1, <2>3, <3>1 DEF OnePlace
  <2>6. \A p \in Proc : InReady(p)' <=> InReady(p)
    BY <2>0 DEF InReady
  <2>7. \A p \in Proc :
           /\ InReady(p)' \/ InBlocked(p)' \/ p = cur' \/ p \in completed'
           /\ InReady(p)' => ~InBlocked(p)' /\ p # cur' /\ p \notin completed'
           /\ InBlocked(p)' => p # cur' /\ p \notin completed'
           /\ p = cur' => p \notin completed'
    BY <1>0, <2>0, <2>4, <2>6 DEF OnePlace
  <2>8. OnePlace'  BY <1>0, <2>0, <2>5, <2>7 DEF OnePlace
  <2>9. WaitersAtReceives'
    BY <1>0, <2>1, <2>2 DEF WaitersAtReceives, AtReceive
  <2> QED BY <2>8, <2>9
<1>4. CASE tick.state = "completed"
  <2>1. /\ ready' = ready /\ blocked' = blocked
        /\ completed' = completed \cup {cur}
    BY <1>4 DEF TickReturned, Reschedule
  <2>2. OnePlace'  BY <1>0, <2>1 DEF OnePlace, InReady, InBlocked
  <2>3. WaitersAtReceives'
    BY <1>0, <2>1 DEF WaitersAtReceives, AtReceive
  <2> QED BY <2>2, <2>3
<1> QED BY <1>0, <1>2, <1>3, <1>4 DEF TypeOK

\* Every step keeps the invariant of the scheduler.
LEMMA SchedStep ==
  ASSUME OneReceiverPerChannel, SchedInv, [Next]_vars
  PROVE  SchedInv'
<1>0. TypeOK /\ TypeOK'  BY TypeStep DEF SchedInv
<1>1. SUFFICES ASSUME Ticking' PROVE OnePlace' /\ WaitersAtReceives'
  BY <1>0 DEF SchedInv
<1>2. ASSUME UNCHANGED <<continuations, phase, scheduler, evaluator>>
      PROVE  OnePlace' /\ WaitersAtReceives'
  <2>1. Ticking  BY <1>1, <1>2 DEF Ticking
  <2> QED BY <1>2, <2>1
          DEF SchedInv, OnePlace, WaitersAtReceives, InReady, InBlocked,
              AtReceive, continuations, scheduler, evaluator
<1>3. CASE UNCHANGED vars  BY <1>2, <1>3 DEF vars
<1>4. CASE Client
  <2>1. \A c : ~StartCall(c)  BY <1>1 DEF StartCall, Ticking
  <2>2. ~(Idle /\ UNCHANGED phase)  BY <1>1 DEF Idle, Ticking
  <2>3. \E ch \in Channel :
           \/ \E v \in Value : ClientWrite(ch, v)
           \/ ClientRead(ch)
    BY <1>4, <2>1, <2>2, RuntimeAssumption
    DEF Client, Tick, TickUntilBlocked, TickUntilOutput, ResetState,
        ClearInterpreterEvents
  <2> QED BY <1>2, <2>3 DEF ClientWrite, ClientRead
<1>5. CASE Loop
  <2>1. TickInternalStart /\ UNCHANGED cur /\ phase = "loop"
    BY <1>1, <1>5 DEF Loop, Return, Ticking, evaluator
  <2>2. cur \notin Proc  BY <1>0, <2>1 DEF TypeOK
  <2>3. /\ \A m, n \in DOMAIN ready' : ready'[m] = ready'[n] => m = n
        /\ \A p \in Proc : InReady(p)'
    BY <2>1, RuntimeAssumption
    DEF TickInternalStart, IsInjective, InReady, Proc, Range
  <2>4. blocked' = <<>> /\ completed' = {} /\ phase' = "schedule"
    BY <2>1 DEF TickInternalStart
  <2>5. DOMAIN blocked' = {}  BY <2>4
  <2>6. \A p \in Proc : ~InBlocked(p)'  BY <2>5 DEF InBlocked
  <2>7. OnePlace'  BY <2>1, <2>2, <2>3, <2>4, <2>5, <2>6 DEF OnePlace
  <2>8. WaitersAtReceives'  BY <2>4, <2>5 DEF WaitersAtReceives
  <2> QED BY <2>7, <2>8
<1>6. CASE TickInternalEnd
  BY <1>1, <1>6 DEF TickInternalEnd, Return, Ticking
<1>7. CASE Dispatch
  <2>1. /\ Ticking /\ phase' = "execute" /\ ready # <<>>
        /\ cur' = Head(ready) /\ ready' = Tail(ready)
        /\ blocked' = blocked /\ completed' = completed
        /\ node_index' = node_index
    BY <1>7 DEF Dispatch, Ticking, continuations
  <2>2. OnePlace /\ WaitersAtReceives  BY <2>1 DEF SchedInv
  <2>3. cur \notin Proc /\ ready \in Seq(Proc)
    BY <1>0, <1>7 DEF TypeOK, Dispatch
  <2>4. /\ Len(ready) \in Nat \ {0} /\ DOMAIN ready = 1 .. Len(ready)
        /\ DOMAIN ready' = 1 .. Len(ready) - 1 /\ cur' = ready[1]
        /\ \A n \in 1 .. Len(ready) - 1 : ready'[n] = ready[n + 1]
    BY <2>1, <2>3
  <2>5. \A p \in Proc : InReady(p)' <=> InReady(p) /\ p # cur'
    <3> SUFFICES ASSUME NEW p \in Proc
                 PROVE  InReady(p)' <=> InReady(p) /\ p # cur'
      OBVIOUS
    <3>1. ASSUME InReady(p)' PROVE InReady(p) /\ p # cur'
      <4>1. PICK n \in 1 .. Len(ready) - 1 : ready[n + 1] = p
        BY <2>4, <3>1 DEF InReady
      <4>2. n + 1 \in DOMAIN ready /\ 1 \in DOMAIN ready /\ n + 1 # 1
        BY <2>4
      <4> QED BY <2>2, <2>4, <4>1, <4>2 DEF OnePlace, InReady
    <3>2. ASSUME InReady(p), p # cur' PROVE InReady(p)'
      <4>1. PICK n \in 1 .. Len(ready) : ready[n] = p
        BY <2>4, <3>2 DEF InReady
      <4>2. n - 1 \in 1 .. Len(ready) - 1 /\ (n - 1) + 1 = n
        BY <2>4, <3>2, <4>1
      <4> QED BY <2>4, <4>1, <4>2 DEF InReady
    <3> QED BY <3>1, <3>2
  <2>6. \A m, n \in DOMAIN ready' : ready'[m] = ready'[n] => m = n
    <3> SUFFICES ASSUME NEW m \in DOMAIN ready', NEW n \in DOMAIN ready',
                        ready'[m] = ready'[n]
                 PROVE  m = n
      OBVIOUS
    <3>1. m + 1 \in DOMAIN ready /\ n + 1 \in DOMAIN ready
      BY <2>4
    <3>2. ready[m + 1] = ready[n + 1]  BY <2>4
    <3>3. m + 1 = n + 1  BY <2>2, <3>1, <3>2 DEF OnePlace
    <3> QED BY <2>4, <3>3
  <2>7. \A p \in Proc : InBlocked(p)' <=> InBlocked(p)
    BY <2>1 DEF InBlocked
  <2>8. InReady(cur') /\ cur' \in Proc
    <3>1. 1 \in DOMAIN ready  BY <2>4
    <3> QED BY <2>1, <2>3, <2>4, <3>1, HeadTailProperties DEF InReady
  <2>9. OnePlace'
    BY <2>1, <2>2, <2>3, <2>5, <2>6, <2>7, <2>8 DEF OnePlace
  <2>10. WaitersAtReceives'
    BY <2>1, <2>2 DEF WaitersAtReceives, AtReceive
  <2> QED BY <2>9, <2>10
<1>8. CASE TickReturned  BY <1>8, TickReturnedSched
<1>9. CASE HandleReceive \/ HandleSend \/ HandleOther \/ Complete
  <2>1. /\ phase = "execute" /\ cur \in Proc /\ cur' = cur
        /\ ready' = ready /\ blocked' = blocked /\ completed' = completed
        /\ \A p \in Proc : p # cur => node_index'[p] = node_index[p]
        /\ phase' = "returned" /\ tick'.state = "blocked" =>
              AtReceive(cur, tick.channel)'
    BY <1>0, <1>1, <1>9, EvaluatorSteps DEF Ticking, scheduler
  <2>2. OnePlace /\ WaitersAtReceives
    BY <2>1 DEF SchedInv, Ticking
  <2>3. OnePlace'  BY <2>1, <2>2 DEF OnePlace, InReady, InBlocked
  <2>4. \A ch \in DOMAIN blocked : blocked[ch] \in Proc /\ blocked[ch] # cur
    BY <1>0, <2>1, <2>2 DEF OnePlace, InBlocked, TypeOK
  <2>5. WaitersAtReceives'
    BY <2>1, <2>2, <2>4 DEF WaitersAtReceives, AtReceive
  <2> QED BY <2>3, <2>5
<1> QED BY <1>3, <1>4, <1>5, <1>6, <1>7, <1>8, <1>9 DEF Next, Runtime

\* The invariant says of every proc what ScheduledOnce says in numbers.
LEMMA SchedInvImpliesScheduledOnce == SchedInv => ScheduledOnce
<1> SUFFICES ASSUME SchedInv, Ticking, NEW p \in Proc
             PROVE  Cardinality({n \in DOMAIN ready : ready[n] = p})
                    + Cardinality({ch \in DOMAIN blocked : blocked[ch] = p})
                    + Cardinality({p} \cap {cur})
                    + Cardinality({p} \cap completed) = 1
  BY DEF ScheduledOnce, Ticking
<1> DEFINE R == {n \in DOMAIN ready : ready[n] = p}
           B == {ch \in DOMAIN blocked : blocked[ch] = p}
           U == {p} \cap {cur}
           C == {p} \cap completed
<1>0. OnePlace  BY DEF SchedInv
<1>1. /\ Cardinality(R) = IF InReady(p) THEN 1 ELSE 0
  <2>1. CASE InReady(p)
    <3>1. PICK n \in DOMAIN ready : ready[n] = p  BY <2>1 DEF InReady
    <3>2. R = {n}  BY <1>0, <3>1 DEF OnePlace
    <3> QED BY <2>1, <3>2, FS_Singleton
  <2>2. CASE ~InReady(p)
    <3>1. R = {}  BY <2>2 DEF InReady
    <3> QED BY <2>2, <3>1, FS_EmptySet
  <2> QED BY <2>1, <2>2
<1>2. Cardinality(B) = IF InBlocked(p) THEN 1 ELSE 0
  <2>1. CASE InBlocked(p)
    <3>1. PICK ch \in DOMAIN blocked : blocked[ch] = p
      BY <2>1 DEF InBlocked
    <3>2. B = {ch}  BY <1>0, <3>1 DEF OnePlace
    <3> QED BY <2>1, <3>2, FS_Singleton
  <2>2. CASE ~InBlocked(p)
    <3>1. B = {}  BY <2>2 DEF InBlocked
    <3> QED BY <2>2, <3>1, FS_EmptySet
  <2> QED BY <2>1, <2>2
<1>3. Cardinality(U) = IF p = cur THEN 1 ELSE 0
  <2>1. p = cur => U = {p}  OBVIOUS
  <2>2. p # cur => U = {}  OBVIOUS
  <2> HIDE DEF U
  <2> QED BY <2>1, <2>2, FS_Singleton, FS_EmptySet
<1>4. Cardinality(C) = IF p \in completed THEN 1 ELSE 0
  <2>1. p \in completed => C = {p}  OBVIOUS
  <2>2. p \notin completed => C = {}  OBVIOUS
  <2> HIDE DEF C
  <2> QED BY <2>1, <2>2, FS_Singleton, FS_EmptySet
<1> HIDE DEF R, B, U, C
<1>5. /\ InReady(p) \/ InBlocked(p) \/ p = cur \/ p \in completed
      /\ InReady(p) => ~InBlocked(p) /\ p # cur /\ p \notin completed
      /\ InBlocked(p) => p # cur /\ p \notin completed
      /\ p = cur => p \notin completed
  BY <1>0 DEF OnePlace
<1>6. Cardinality(R) + Cardinality(B) + Cardinality(U) + Cardinality(C) = 1
  BY <1>1, <1>2, <1>3, <1>4, <1>5
<1> QED BY <1>6 DEF R, B, U, C

\* The scheduler's invariant holds in the beginning.
LEMMA SchedInit == Init => SchedInv
BY TypeInit DEF Init, SchedInv, Ticking

\* If every channel has one receiving proc, blocked_procs never drops a proc:
\* throughout a TickInternal each proc is ready, waiting, being ticked or
\* done, in exactly one place and once.
THEOREM ProcsAreScheduledOnce ==
  ASSUME OneReceiverPerChannel
  PROVE  Spec => []ScheduledOnce
<1>1. SchedInv /\ [Next]_vars => SchedInv'  BY SchedStep
<1> QED BY <1>1, SchedInit, SchedInvImpliesScheduledOnce, PTL DEF Spec

-----------------------------------------------------------------------------
(***************************************************************************)
(* The refinement: every step of the runtime is a node executed by one     *)
(* proc of the network, something the world does, or invisible.            *)
(***************************************************************************)

\* The node p executes next, as Network sees it.
NetPc == [p \in Proc |-> IF p = cur /\ phase = "execute"
                         THEN i ELSE node_index[p]]

\* The variables of the network under the mapping.
LEMMA NetVars == Network!vars = <<queue, NetPc, state, got>>
BY DEF Network!vars, NetPc

\* ... and after a step.
LEMMA NetVarsNext == Network!vars' = <<queue', NetPc', state', got'>>
BY DEF Network!vars, NetPc

\* A step of the proc that is ticking moves its place and nobody else's.
LEMMA NetPcStep ==
  ASSUME TypeOK, phase = "execute", NEW n,
         \/ phase' = "execute" /\ cur' = cur /\ i' = n
            /\ node_index' = node_index
         \/ phase' # "execute"
            /\ node_index' = [node_index EXCEPT ![cur] = n]
  PROVE  NetPc' = [NetPc EXCEPT ![cur] = n]
<1>1. cur \in Proc /\ node_index \in [Proc -> Nat]  BY DEF TypeOK
<1>2. \A p \in Proc : NetPc[p] = IF p = cur THEN i ELSE node_index[p]
  BY DEF NetPc
<1>3. \A p \in Proc : NetPc'[p] = IF p = cur THEN n ELSE node_index[p]
  BY <1>1 DEF NetPc
<1> QED BY <1>1, <1>2, <1>3 DEF NetPc

\* The evaluators, node by node.
LEMMA EvaluatorRefines ==
  ASSUME TypeOK, HandleReceive \/ HandleSend \/ HandleOther \/ Complete
  PROVE  Network!Next \/ UNCHANGED Network!vars
<1>1. phase = "execute" /\ cur \in Proc
  BY DEF HandleReceive, HandleSend, HandleOther, Complete, TypeOK
<1>c. PICK c \in Proc : c = cur  BY <1>1
<1>2. /\ NetPc[cur] = i /\ i \in Nat /\ Len(Program[cur]) \in Nat
      /\ node_index \in [Proc -> Nat] /\ got \in [Proc -> Value \cup {Nothing}]
      /\ state \in [Proc -> State] /\ queue \in [Channel -> Seq(Value)]
  BY <1>1, NodeType DEF NetPc, TypeOK
<1>3. GoOn => NetPc' = [NetPc EXCEPT ![cur] = i + 1]
  BY <1>1, NetPcStep DEF GoOn
<1>4. ASSUME NEW o, NEW ch, NEW b, Exit(o, ch, b) PROVE phase' # "execute"
  BY <1>4 DEF Exit, Return
<1>5. ASSUME i <= Len(Program[cur]), state' = state,
             NetPc' = [NetPc EXCEPT ![cur] = i + 1],
             Network!Receive(c) \/ Network!Send(c) \/ Network!Compute(c)
      PROVE  Network!Next
  <2>1. Network!ExecuteNode(c)
    BY <1>c, <1>2, <1>5 DEF Network!ExecuteNode, NetPc
  <2>2. \E p \in Proc : Network!ExecuteNode(p) \/ Network!NextIteration(p)
    BY <2>1
  <2> QED BY <2>2 DEF Network!Next
<1>6. CASE HandleReceive
  <2>1. i <= Len(Program[cur]) /\ Node.op = "receive" /\ state' = state
    BY <1>6 DEF HandleReceive
  <2>2. CASE /\ Active /\ queue[Node.ch] # <<>>
             /\ got' = [got EXCEPT ![cur] = Head(queue[Node.ch])]
             /\ queue' = [queue EXCEPT ![Node.ch] = Popped(Node.ch, @)]
             /\ GoOn
    <3>1. Network!Receive(c)
      BY <1>c, <1>2, <2>1, <2>2
      DEF Network!Receive, Network!Popped, Popped, Active, Node, NetPc
    <3> QED BY <1>3, <1>5, <2>1, <2>2, <3>1
  <2>3. CASE /\ ~Active \/ (queue[Node.ch] = <<>> /\ ~Node.blocking)
             /\ got' = [got EXCEPT
                           ![cur] = IF Node.blocking THEN Zero ELSE Nothing]
             /\ GoOn
             /\ UNCHANGED queue
    <3>1. Network!Receive(c)
      BY <1>c, <1>2, <2>1, <2>3 DEF Network!Receive, Active, Node, NetPc
    <3> QED BY <1>3, <1>5, <2>1, <2>3, <3>1
  <2>4. CASE /\ node_index' = [node_index EXCEPT ![cur] = i]
             /\ Exit("blocked", Node.ch, Progressed)
             /\ UNCHANGED <<queue, got, i>>
    <3>1. NetPc' = [NetPc EXCEPT ![cur] = i]
      BY <1>1, <1>4, <2>4, NetPcStep
    <3>2. NetPc' = NetPc  BY <1>2, <3>1 DEF NetPc
    <3> QED BY <2>1, <2>4, <3>2, NetVars, NetVarsNext
  <2> QED BY <1>6, <2>2, <2>3, <2>4 DEF HandleReceive
<1>7. CASE HandleSend
  <2>1. /\ i <= Len(Program[cur]) /\ Node.op = "send"
        /\ state' = state /\ got' = got
    BY <1>7 DEF HandleSend
  <2>2. CASE /\ Active
             /\ queue' = [queue EXCEPT ![Node.ch] =
                   Pushed(Node.ch, @, SendData(cur, state[cur], got[cur]))]
             /\ node_index' = [node_index EXCEPT ![cur] = ResumeAfterSend]
             /\ Exit("sent", Node.ch, TRUE)
    <3>1. NetPc' = [NetPc EXCEPT ![cur] = i + 1]
      BY <1>1, <1>4, <2>2, NetPcStep DEF ResumeAfterSend
    <3>2. Network!Send(c)
      BY <1>c, <1>2, <2>1, <2>2
      DEF Network!Send, Network!Pushed, Pushed, Active, Node, NetPc
    <3> QED BY <1>5, <2>1, <3>1, <3>2
  <2>3. CASE ~Active /\ GoOn /\ UNCHANGED queue
    <3>1. Network!Send(c)
      BY <1>c, <1>2, <2>1, <2>3 DEF Network!Send, Active, Node, NetPc
    <3> QED BY <1>3, <1>5, <2>1, <2>3, <3>1
  <2> QED BY <1>7, <2>2, <2>3 DEF HandleSend
<1>8. CASE HandleOther
  <2>1. Network!Compute(c)
    BY <1>c, <1>2, <1>8 DEF HandleOther, Network!Compute, Node, NetPc
  <2> QED BY <1>3, <1>5, <1>8, <2>1 DEF HandleOther
<1>9. CASE Complete
  <2>1. NetPc' = [NetPc EXCEPT ![cur] = 1]
    BY <1>1, <1>4, <1>9, NetPcStep DEF Complete
  <2>2. Network!NextIteration(c)
    BY <1>c, <1>2, <1>9, <2>1 DEF Complete, Network!NextIteration, NetPc
  <2>3. \E p \in Proc : Network!ExecuteNode(p) \/ Network!NextIteration(p)
    BY <2>2
  <2> QED BY <2>3 DEF Network!Next
<1> QED BY <1>6, <1>7, <1>8, <1>9

\* Every step of the runtime is a step of the network or none.
LEMMA StepRefines ==
  ASSUME TypeOK, [Next]_vars
  PROVE  [Network!Next]_(Network!vars)
<1>1. ASSUME UNCHANGED <<queue, continuations>>,
             \/ UNCHANGED <<phase, cur, i>>
             \/ phase # "execute" /\ phase' # "execute"
      PROVE  UNCHANGED Network!vars
  <2>1. NetPc' = NetPc  BY <1>1 DEF NetPc, continuations
  <2> QED BY <1>1, <2>1, NetVars, NetVarsNext DEF continuations
<1>2. CASE UNCHANGED vars  BY <1>1, <1>2 DEF vars, evaluator
<1>3. CASE Client
  <2>1. ASSUME NEW c, StartCall(c) PROVE UNCHANGED Network!vars
    BY <1>1, <2>1 DEF StartCall, Idle
  <2>2. ASSUME NEW counts, NEW max, TickUntilOutput(counts, max)
        PROVE  UNCHANGED Network!vars
    BY <1>1, <2>1, <2>2 DEF TickUntilOutput, evaluator
  <2>3. ASSUME ResetState PROVE Network!Restart
    <3>1. NetPc' = [p \in Proc |-> 1]
      BY <2>3 DEF ResetState, Idle, NetPc
    <3> QED BY <2>3, <3>1 DEF ResetState, Network!Restart, NetPc
  <2>4. ASSUME ClearInterpreterEvents PROVE UNCHANGED Network!vars
    <3>1. NetPc' = NetPc  BY <2>4 DEF ClearInterpreterEvents, Idle, NetPc
    <3> QED BY <2>4, <3>1, NetVars, NetVarsNext DEF ClearInterpreterEvents
  <2>5. ASSUME NEW ch \in Input, NEW v \in Value, ClientWrite(ch, v)
        PROVE  Network!WorldWrites(ch, v)
    <3>1. NetPc' = NetPc
      BY <2>5 DEF ClientWrite, NetPc, continuations, evaluator
    <3> QED BY <2>5, <3>1
            DEF ClientWrite, Network!WorldWrites, Network!Pushed, Pushed,
                continuations, NetPc
  <2>6. ASSUME NEW ch \in Output, ClientRead(ch) PROVE Network!WorldReads(ch)
    <3>1. NetPc' = NetPc
      BY <2>6 DEF ClientRead, NetPc, continuations, evaluator
    <3> QED BY <2>6, <3>1
            DEF ClientRead, Network!WorldReads, Network!Popped, Popped,
                continuations, NetPc
  <2> QED BY <1>3, <2>1, <2>2, <2>3, <2>4, <2>5, <2>6
          DEF Client, Tick, TickUntilBlocked, Network!Next
<1>4. CASE Loop
  BY <1>1, <1>4 DEF Loop, Return, TickInternalStart
<1>5. CASE TickInternalEnd
  BY <1>1, <1>5 DEF TickInternalEnd, Return
<1>6. CASE Dispatch
  <2>1. NetPc' = NetPc  BY <1>6 DEF Dispatch, NetPc, continuations
  <2> QED BY <1>6, <2>1, NetVars, NetVarsNext DEF Dispatch, continuations
<1>7. CASE TickReturned  BY <1>1, <1>7 DEF TickReturned
<1>8. CASE HandleReceive \/ HandleSend \/ HandleOther \/ Complete
  BY <1>8, EvaluatorRefines
<1> QED BY <1>2, <1>3, <1>4, <1>5, <1>6, <1>7, <1>8 DEF Next, Runtime

\* However the evaluators leave and resume procs and in whatever order the
\* runtime schedules them, every proc executes its nodes in order, each once
\* per iteration, on queues that lose, repeat and reorder nothing; and this
\* for every network, also when channels have several receivers.
THEOREM RuntimeImplementsProcNetwork == Spec => ImplementsProcNetwork
<1>1. Init => Network!Init
  <2> SUFFICES ASSUME Init PROVE Network!Init  OBVIOUS
  <2>1. NetPc = [p \in Proc |-> 1]  BY DEF Init, NetPc
  <2> QED BY <2>1 DEF Init, Network!Init, NetPc
<1>2. TypeOK /\ [Next]_vars => [Network!Next]_(Network!vars)
  BY StepRefines
<1> QED BY <1>1, <1>2, RuntimeTypes, PTL
        DEF Spec, ImplementsProcNetwork, Network!Spec

-----------------------------------------------------------------------------
(***************************************************************************)
(* Wake-ups and reports.                                                   *)
(***************************************************************************)

\* What an evaluator does to the rest of the world: it fills an empty queue
\* only by a send, which it reports; when it reports that its proc waits,
\* the proc does; and a completed iteration is progress.
LEMMA EvaluatorEffects ==
  ASSUME TypeOK, HandleReceive \/ HandleSend \/ HandleOther \/ Complete
  PROVE  /\ \A p \in Proc :
               p # cur => state'[p] = state[p] /\ got'[p] = got[p]
         /\ \A ch \in Channel : queue[ch] = <<>> =>
               \/ queue'[ch] = <<>>
               \/ phase' = "idle"
               \/ /\ phase' = "returned"
                  /\ tick'.state = "sent" /\ tick'.channel = ch
         /\ phase' = "returned" /\ tick'.state = "blocked" =>
               IsWaiting(cur, tick.channel)'
         /\ phase' = "returned" /\ tick'.state = "completed" =>
               tick'.progress
<1>1. phase = "execute" /\ cur \in Proc
  BY DEF HandleReceive, HandleSend, HandleOther, Complete, TypeOK
<1>2. /\ node_index \in [Proc -> Nat] /\ got \in [Proc -> Value \cup {Nothing}]
      /\ state \in [Proc -> State] /\ queue \in [Channel -> Seq(Value)]
      /\ Len(Program[cur]) \in Nat /\ i \in 1 .. Len(Program[cur]) + 1
  BY <1>1, NodeType DEF TypeOK
<1>3. \A p \in Proc : p # cur => state'[p] = state[p] /\ got'[p] = got[p]
  BY <1>1, <1>2 DEF HandleReceive, HandleSend, HandleOther, Complete
<1>4. ASSUME NEW o, NEW ch, NEW b, Exit(o, ch, b)
      PROVE  \/ phase' = "idle"
             \/ /\ phase' = "returned" /\ cur' = cur
                /\ tick'.state = o /\ tick'.channel = ch
  BY <1>4 DEF Exit, Return
<1>5. GoOn => phase' = "execute"  BY <1>1 DEF GoOn
<1>6. CASE HandleReceive
  <2>1. /\ i \in 1 .. Len(Program[cur]) /\ Node.op = "receive"
        /\ Node.ch \in Channel /\ state' = state
    BY <1>1, <1>2, <1>6, NodeType DEF HandleReceive, Node
  <2>2. CASE /\ Active /\ queue[Node.ch] # <<>>
             /\ queue' = [queue EXCEPT ![Node.ch] = Popped(Node.ch, @)]
             /\ GoOn
    <3>1. \A ch \in Channel : queue[ch] = <<>> => queue'[ch] = <<>>
      BY <1>2, <2>1, <2>2
    <3> QED BY <1>3, <1>5, <2>2, <3>1
  <2>3. CASE GoOn /\ UNCHANGED queue
    BY <1>3, <1>5, <2>3
  <2>4. CASE /\ Active /\ queue[Node.ch] = <<>> /\ Node.blocking
             /\ node_index' = [node_index EXCEPT ![cur] = i]
             /\ Exit("blocked", Node.ch, Progressed)
             /\ UNCHANGED <<queue, got, i>>
    <3>1. node_index'[cur] = i  BY <1>1, <1>2, <2>4
    <3>2. cur' = cur /\ tick'.channel = Node.ch =>
             IsWaiting(cur, tick.channel)'
      BY <1>1, <1>2, <2>1, <2>4, <3>1 DEF IsWaiting, AtReceive, Node, Active
    <3> QED BY <1>3, <1>4, <2>4, <3>2
  <2> QED BY <1>6, <2>2, <2>3, <2>4 DEF HandleReceive
<1>7. CASE HandleSend
  <2>1. CASE /\ queue' = [queue EXCEPT ![Node.ch] =
                   Pushed(Node.ch, @, SendData(cur, state[cur], got[cur]))]
             /\ Exit("sent", Node.ch, TRUE)
    <3>1. \A ch \in Channel : ch # Node.ch => queue'[ch] = queue[ch]
      BY <1>2, <2>1
    <3>2. \/ phase' = "idle"
          \/ /\ phase' = "returned"
             /\ tick'.state = "sent" /\ tick'.channel = Node.ch
      BY <2>1 DEF Exit, Return
    <3> QED BY <1>3, <3>1, <3>2
  <2>2. CASE GoOn /\ UNCHANGED queue
    BY <1>3, <1>5, <2>2
  <2> QED BY <1>7, <2>1, <2>2 DEF HandleSend
<1>8. CASE HandleOther  BY <1>3, <1>5, <1>8 DEF HandleOther
<1>9. CASE Complete
  <2>1. queue' = queue /\ Exit("completed", Nothing, TRUE)
    BY <1>9 DEF Complete
  <2>2. \/ phase' = "idle"
        \/ phase' = "returned" /\ tick'.state = "completed"
    BY <1>4, <2>1
  <2>3. phase' = "returned" => tick'.progress
    <3>1. phase' = "returned" =>
             tick' = [state |-> "completed", channel |-> Nothing,
                      progress |-> TRUE]
      BY <2>1 DEF Exit, Return
    <3> QED BY <3>1
  <2> QED BY <1>3, <2>1, <2>2, <2>3
<1> QED BY <1>6, <1>7, <1>8, <1>9

\* Every step keeps what the reports rest on.
LEMMA ReportStep ==
  ASSUME OneReceiverPerChannel, NoConcurrentInput, SchedInv, ReportInv,
         [Next]_vars
  PROVE  ReportInv'
<1>0. TypeOK /\ SchedInv'  BY SchedStep DEF SchedInv
<1>1. SUFFICES ASSUME Ticking' PROVE WaitersWait' /\ ProgressRecorded'
  BY DEF ReportInv
<1>d. /\ DOMAIN blocked \subseteq Channel
      /\ \A ch \in DOMAIN blocked : blocked[ch] \in Proc
      /\ queue \in [Channel -> Seq(Value)]
      /\ phase = "returned" => cur \in Proc
  BY <1>0 DEF TypeOK
<1>2. ASSUME UNCHANGED <<continuations, phase, scheduler, evaluator>>,
             \A ch \in Channel, p \in Proc :
                IsWaiting(p, ch) => queue'[ch] = <<>>,
             Ticking
      PROVE  WaitersWait' /\ ProgressRecorded'
  <2>1. WaitersWait /\ ProgressRecorded  BY <1>2 DEF ReportInv
  <2>2. /\ node_index' = node_index /\ state' = state /\ got' = got
        /\ blocked' = blocked /\ tick' = tick /\ cur' = cur
        /\ phase' = phase /\ completed' = completed
        /\ progress' = progress /\ progress_io' = progress_io
    BY <1>2 DEF continuations, scheduler, evaluator
  <2>3. \A ch \in Channel, p \in Proc : IsWaiting(p, ch) => IsWaiting(p, ch)'
    BY <1>2, <2>2 DEF IsWaiting, AtReceive
  <2>4. phase = "returned" /\ tick.state = "blocked" =>
           tick.channel \in Channel
    BY <1>0 DEF TypeOK
  <2>5. phase = "returned" /\ tick.state = "blocked" =>
           IsWaiting(cur, tick.channel)'
    BY <1>2, <1>d, <2>1, <2>2, <2>4 DEF WaitersWait, IsWaiting, AtReceive
  <2>6. \A ch \in DOMAIN blocked :
           \/ /\ AtReceive(blocked[ch], ch)'
              /\ IsWaiting(blocked[ch], ch)'
           \/ phase = "returned" /\ tick.state = "sent" /\ tick.channel = ch
    BY <1>2, <1>d, <2>1, <2>2 DEF WaitersWait, IsWaiting, AtReceive
  <2>7. WaitersWait'  BY <2>2, <2>5, <2>6 DEF WaitersWait
  <2>8. ProgressRecorded'
    BY <2>1, <2>2 DEF ProgressRecorded, ProcHasIoOperations
  <2> QED BY <2>7, <2>8
<1>3. CASE UNCHANGED vars
  <2>1. Ticking /\ queue' = queue  BY <1>1, <1>3 DEF Ticking, vars
  <2> QED BY <1>2, <1>3, <2>1 DEF vars, IsWaiting
<1>4. CASE Client
  <2>1. \A c : ~StartCall(c)  BY <1>1 DEF StartCall, Ticking
  <2>2. ~(Idle /\ UNCHANGED phase)  BY <1>1 DEF Idle, Ticking
  <2>3. CASE \E ch \in Input, v \in Value : ClientWrite(ch, v)
    <3>1. PICK in \in Input, v \in Value : ClientWrite(in, v)  BY <2>3
    <3>2. /\ ConcurrentClient /\ in \in Channel /\ Ticking
          /\ queue' = [queue EXCEPT ![in] = Pushed(in, @, v)]
      BY <1>1, <2>2, <3>1, RuntimeAssumption DEF ClientWrite, Ticking
    <3>3. \A ch \in Channel, p \in Proc : IsWaiting(p, ch) => ch # in
      <4> SUFFICES ASSUME NEW ch \in Channel, NEW p \in Proc,
                          IsWaiting(p, ch)
                   PROVE  ch # in
        OBVIOUS
      <4>1. node_index[p] \in DOMAIN Program[p]
        BY <1>0, NodeType DEF IsWaiting, AtReceive, TypeOK
      <4> QED BY <3>2, <4>1 DEF NoConcurrentInput, IsWaiting, AtReceive
    <3>4. \A ch \in Channel, p \in Proc :
             IsWaiting(p, ch) => queue'[ch] = <<>>
      BY <1>d, <3>2, <3>3 DEF IsWaiting
    <3> QED BY <1>2, <3>1, <3>2, <3>4 DEF ClientWrite
  <2>4. CASE \E ch \in Output : ClientRead(ch)
    <3>1. PICK out \in Output : ClientRead(out)  BY <2>4
    <3>2. /\ out \in Channel /\ Ticking /\ queue[out] # <<>>
          /\ queue' = [queue EXCEPT ![out] = Popped(out, @)]
      BY <1>1, <3>1, RuntimeAssumption DEF ClientRead, Ticking
    <3>3. \A ch \in Channel, p \in Proc :
             IsWaiting(p, ch) => queue'[ch] = <<>>
      BY <1>d, <3>2 DEF IsWaiting
    <3> QED BY <1>2, <3>1, <3>2, <3>3 DEF ClientRead
  <2> QED BY <1>4, <2>1, <2>2, <2>3, <2>4
          DEF Client, Tick, TickUntilBlocked, TickUntilOutput, ResetState,
              ClearInterpreterEvents
<1>5. CASE Loop
  <2>1. TickInternalStart
    BY <1>1, <1>5 DEF Loop, Return, Ticking
  <2>2. DOMAIN blocked' = {} /\ completed' = {} /\ phase' = "schedule"
    BY <2>1 DEF TickInternalStart
  <2> QED BY <2>2 DEF WaitersWait, ProgressRecorded
<1>6. CASE TickInternalEnd
  BY <1>1, <1>6 DEF TickInternalEnd, Return, Ticking
<1>7. CASE Dispatch
  <2>1. /\ Ticking /\ phase = "schedule" /\ phase' = "execute"
        /\ blocked' = blocked /\ completed' = completed
        /\ progress' = progress /\ progress_io' = progress_io
        /\ queue' = queue /\ node_index' = node_index
        /\ state' = state /\ got' = got
    BY <1>7 DEF Dispatch, Ticking, continuations
  <2>2. WaitersWait /\ ProgressRecorded  BY <2>1 DEF ReportInv
  <2>3. WaitersWait'
    BY <2>1, <2>2 DEF WaitersWait, IsWaiting, AtReceive
  <2>4. ProgressRecorded'
    BY <2>1, <2>2 DEF ProgressRecorded, ProcHasIoOperations
  <2> QED BY <2>3, <2>4
<1>8. CASE TickReturned
  <2>1. /\ Ticking /\ phase = "returned" /\ phase' = "schedule"
        /\ queue' = queue /\ node_index' = node_index
        /\ state' = state /\ got' = got /\ Reschedule
    BY <1>8 DEF TickReturned, Ticking, continuations
  <2>2. WaitersWait /\ ProgressRecorded  BY <2>1 DEF ReportInv
  <2>3. \A ch \in DOMAIN blocked' :
           \/ /\ ch \in DOMAIN blocked /\ blocked'[ch] = blocked[ch]
              /\ ~(tick.state = "sent" /\ tick.channel = ch)
           \/ /\ tick.state = "blocked" /\ ch = tick.channel
              /\ blocked'[ch] = cur
    BY <2>1 DEF Reschedule, Restrict
  <2>4. \A ch \in DOMAIN blocked' : IsWaiting(blocked[ch], ch)'
    BY <2>1, <2>2, <2>3 DEF WaitersWait, IsWaiting, AtReceive
  <2>5. WaitersWait'  BY <2>1, <2>4 DEF WaitersWait
  <2>6. ProgressRecorded'
    BY <1>8, <2>1, <2>2
    DEF TickReturned, ProgressRecorded, Accumulated, ProcHasIoOperations
  <2> QED BY <2>5, <2>6
<1>9. CASE HandleReceive \/ HandleSend \/ HandleOther \/ Complete
  <2>1. /\ phase = "execute" /\ cur \in Proc /\ cur' = cur
        /\ blocked' = blocked /\ completed' = completed
        /\ progress' = progress /\ progress_io' = progress_io
        /\ phase' # "idle"
        /\ \A p \in Proc : p # cur => node_index'[p] = node_index[p]
    BY <1>0, <1>1, <1>9, EvaluatorSteps DEF Ticking, scheduler
  <2>2. OnePlace /\ WaitersWait /\ ProgressRecorded
    BY <2>1 DEF SchedInv, ReportInv, Ticking
  <2>3. \A ch \in DOMAIN blocked : blocked[ch] # cur
    BY <2>1, <2>2 DEF OnePlace, InBlocked
  <2>4. \A ch \in DOMAIN blocked :
           \/ IsWaiting(blocked[ch], ch)'
           \/ /\ phase' = "returned"
              /\ tick'.state = "sent" /\ tick'.channel = ch
    <3> SUFFICES ASSUME NEW ch \in DOMAIN blocked
                 PROVE  \/ IsWaiting(blocked[ch], ch)'
                        \/ /\ phase' = "returned"
                           /\ tick'.state = "sent" /\ tick'.channel = ch
      OBVIOUS
    <3>1. PICK p \in Proc : p = blocked[ch]  BY <1>d
    <3>2. IsWaiting(p, ch) /\ p # cur /\ ch \in Channel
      BY <1>d, <2>1, <2>2, <2>3, <3>1 DEF WaitersWait
    <3>3. /\ node_index'[p] = node_index[p] /\ state'[p] = state[p]
          /\ got'[p] = got[p]
      BY <1>0, <1>9, <2>1, <3>2, EvaluatorEffects
    <3>4. \/ queue'[ch] = <<>>
          \/ /\ phase' = "returned"
             /\ tick'.state = "sent" /\ tick'.channel = ch
      BY <1>0, <1>9, <2>1, <3>2, EvaluatorEffects DEF IsWaiting
    <3>5. blocked'[ch] = p  BY <2>1, <3>1
    <3> QED BY <3>2, <3>3, <3>4, <3>5 DEF IsWaiting, AtReceive
  <2>5. WaitersWait'
    BY <1>0, <1>9, <2>1, <2>4, EvaluatorEffects DEF WaitersWait
  <2>6. ProgressRecorded'
    BY <1>0, <1>9, <2>1, <2>2, EvaluatorEffects
    DEF ProgressRecorded, ProcHasIoOperations
  <2> QED BY <2>5, <2>6
<1> QED BY <1>3, <1>4, <1>5, <1>6, <1>7, <1>8, <1>9 DEF Next, Runtime

\* Outside a tick the continuations are all Network knows of the procs.
LEMMA WaitingIsWaits ==
  ASSUME TypeOK, phase # "execute", NEW p \in Proc, NEW ch \in Channel,
         IsWaiting(p, ch)
  PROVE  Waits(p)
<1>1. NetPc[p] = node_index[p]  BY DEF NetPc
<1>2. Network!WaitsOn(p, ch)
  BY <1>1 DEF Network!WaitsOn, NetPc, IsWaiting, AtReceive
<1> QED BY <1>2 DEF Waits

\* When ready_procs is empty, who has not completed waits.
LEMMA DoneOrWaiting ==
  ASSUME SchedInv, ReportInv, phase = "schedule", ready = <<>>
  PROVE  \A p \in Proc : p \in completed \/ Waits(p)
<1> SUFFICES ASSUME NEW p \in Proc, p \notin completed PROVE Waits(p)
  OBVIOUS
<1>1. TypeOK /\ OnePlace /\ WaitersWait
  BY DEF SchedInv, ReportInv, Ticking
<1>2. p # cur /\ ~InReady(p)  BY <1>1 DEF TypeOK, InReady
<1>3. PICK ch \in DOMAIN blocked : blocked[ch] = p
  BY <1>1, <1>2 DEF OnePlace, InBlocked
<1>4. ch \in Channel  BY <1>1, <1>3 DEF TypeOK
<1>5. IsWaiting(p, ch)  BY <1>1, <1>3 DEF WaitersWait
<1> QED BY <1>1, <1>4, <1>5, WaitingIsWaits

\* The invariant of the reports holds together with the scheduler's.
LEMMA ReportInvHolds ==
  ASSUME OneReceiverPerChannel, NoConcurrentInput
  PROVE  Spec => [](SchedInv /\ ReportInv)
<1>1. Init => SchedInv /\ ReportInv
  BY SchedInit DEF Init, ReportInv, Ticking
<1>2. SchedInv /\ ReportInv /\ [Next]_vars => SchedInv' /\ ReportInv'
  BY SchedStep, ReportStep
<1> QED BY <1>1, <1>2, PTL DEF Spec

\* If every channel has one receiving proc, and nobody writes from another
\* thread to a queue a proc may wait for, then TickInternal ends only when
\* every proc has completed its iteration or waits for an empty channel.
THEOREM NoWakeupIsLost ==
  ASSUME OneReceiverPerChannel, NoConcurrentInput
  PROVE  Spec => []NoLostWakeup
<1>1. SchedInv /\ ReportInv => NoLostWakeup
  BY DoneOrWaiting DEF NoLostWakeup
<1> QED BY <1>1, ReportInvHolds, PTL

\* A TickInternalEnd that returns to the client tells the truth.
LEMMA ReportsTrueStep ==
  ASSUME SchedInv, ReportInv, TickInternalEnd, Idle'
  PROVE  /\ result' = "deadlock" => \A p \in Proc : Waits(p)
         /\ result' = "ok" /\ call.kind = "TickUntilBlocked" =>
               \A p \in Proc : ProcHasIoOperations(p) => Waits(p)
<1>0. phase = "schedule" /\ ready = <<>>  BY DEF TickInternalEnd
<1>1. \A p \in Proc : p \in completed \/ Waits(p)
  BY <1>0, DoneOrWaiting
<1>2. ProgressRecorded  BY <1>0 DEF ReportInv, Ticking
<1>3. ASSUME result' = "deadlock" PROVE \A p \in Proc : Waits(p)
  <2>1. ~progress  BY <1>3 DEF TickInternalEnd, Return, Idle
  <2>2. completed = {}  BY <1>2, <2>1 DEF ProgressRecorded
  <2> QED BY <1>1, <2>2
<1>4. ASSUME result' = "ok", call.kind = "TickUntilBlocked"
      PROVE  \A p \in Proc : ProcHasIoOperations(p) => Waits(p)
  <2>1. ~progress_io  BY <1>4 DEF TickInternalEnd, Return, Idle
  <2> QED BY <1>1, <1>2, <2>1 DEF ProgressRecorded
<1> QED BY <1>3, <1>4

\* Under the same conditions the calls report what is the case: after a
\* deadlock no proc of the network can move, and when TickUntilBlocked is
\* back every proc that sends or receives waits.
THEOREM ReportsAreTrueAlways ==
  ASSUME OneReceiverPerChannel, NoConcurrentInput
  PROVE  Spec => ReportsAreTrue
<1>1. SchedInv /\ ReportInv =>
         [TickInternalEnd /\ Idle' =>
            /\ result' = "deadlock" => \A p \in Proc : Waits(p)
            /\ result' = "ok" /\ call.kind = "TickUntilBlocked" =>
                  \A p \in Proc : ProcHasIoOperations(p) => Waits(p)]_vars
  BY ReportsTrueStep
<1> QED BY <1>1, ReportInvHolds, PTL DEF ReportsAreTrue
=============================================================================
