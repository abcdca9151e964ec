-------------------------- MODULE SerialProcRuntime -------------------------
(***************************************************************************)
(* The runtime that executes a network of procs on one thread              *)
(* (xls/interpreter/serial_proc_runtime, proc_runtime), with the           *)
(* evaluators it drives: the interpreter (proc_interpreter) and the JIT    *)
(* (jit/proc_jit), which leave a proc in the middle of an iteration        *)
(* whenever it sends or has to wait and resume it from a continuation.     *)
(*                                                                         *)
(* The client owns the runtime: it calls Tick, TickUntilBlocked,           *)
(* TickUntilOutput, ResetState and ClearInterpreterEvents one at a time    *)
(* (the class is thread-compatible), and writes to and reads from the      *)
(* channel queues.  Queues are thread-safe, so with ConcurrentClient       *)
(* another thread of the client uses them while a call is running.         *)
(*                                                                         *)
(* A queue operation of a node is one step, and so is every turn of the    *)
(* scheduling loop.  No channel the procs send on has a generator, so that *)
(* a send never fails; a generator on an input channel is one way for the  *)
(* client to write.                                                        *)
(***************************************************************************)
EXTENDS Integers, Sequences, FiniteSets, Functions

CONSTANTS
    ProcOrder,        \* package_->procs(), a sequence
    Jit,              \* the procs that have a ProcJit evaluator
    Channel, SingleValued,
    Input, Output,    \* the receive-only and the send-only channels
    Program, Value, Zero, Nothing,
    State, InitState, \* the type of the procs' state, its initial value
    Holds(_, _, _), SendData(_, _, _), NextState(_, _, _),
    OutputCounts,     \* arguments for TickUntilOutput: channel -> count
    BlockedLimits,    \* values of max_ticks for TickUntilBlocked
    OutputLimits,     \* values of max_ticks for TickUntilOutput
    NoProc,           \* no proc is ticking
    NoLimit,          \* std::nullopt as a max_ticks
    ConcurrentClient, \* does the client use queues while a call runs?
    MaxQueue          \* bound: the client lets no queue grow beyond this

Proc == Range(ProcOrder)

ASSUME RuntimeAssumption ==
    /\ ProcOrder \in Seq(Proc) /\ IsInjective(ProcOrder)
    /\ Jit \subseteq Proc /\ NoProc \notin Proc
    /\ Input \subseteq Channel /\ Output \subseteq Channel
    /\ Input \cap Output = {}
    /\ SingleValued \subseteq Channel
    /\ Zero \in Value /\ Nothing \notin Value
    /\ \A p \in Proc :
          /\ Program[p] \in Seq(Range(Program[p]))
          /\ \A n \in DOMAIN Program[p] :
                Program[p][n].op \in {"send", "receive"} =>
                    /\ Program[p][n].ch \in Channel
                    /\ Program[p][n].blocking \in BOOLEAN
          /\ \A s \in State, g \in Value \cup {Nothing} :
                /\ SendData(p, s, g) \in Value
                /\ NextState(p, s, g) \in State
    /\ InitState \in State
    /\ ConcurrentClient \in BOOLEAN
    /\ MaxQueue \in Nat \ {0}

VARIABLES
    queue,       \* the queue of every channel
    node_index,  \* continuations: the node a proc resumes at
    state,       \* continuations: state at the start of the iteration
    got,         \* continuations: the value of the last receive executed
    events,      \* continuations: has an assertion failed?
    continuation_point, \* JIT: the node a proc was left at, 0 at the start
    call,        \* the client's call being executed, or the last one
    phase,       \* where the runtime is in that call
    ticks,       \* TickUntil*: calls of TickInternal so far
    result,      \* status of the last call
    ready,       \* TickInternal: ready_procs
    blocked,     \* TickInternal: blocked_procs, a function on channels
    progress,    \* TickInternal: progress_made
    progress_io, \* TickInternal: progress_made_on_io_procs
    cur,         \* the proc whose evaluator is ticking
    i,           \* ProcInterpreter::Tick: index of the node to execute
    tick,        \* the TickResult of cur
    completed    \* procs that completed an iteration in this TickInternal

continuations == <<node_index, state, got, events, continuation_point>>
caller        == <<call, ticks, result>>
scheduler     == <<ready, blocked, progress, progress_io, completed>>
evaluator     == <<cur, i, tick>>
vars == <<queue, continuations, caller, phase, scheduler, evaluator>>

Idle == phase = "idle"

NoTick == [state |-> "none", channel |-> Nothing, progress |-> FALSE]
NoCall == [kind |-> "none", counts |-> <<>>, max |-> NoLimit]

\* ProcEvaluator::ProcHasIoOperations
ProcHasIoOperations(p) ==
    \E n \in DOMAIN Program[p] : Program[p][n].op \in {"send", "receive"}

Pushed(ch, q, v) == IF ch \in SingleValued THEN <<v>> ELSE Append(q, v)
Popped(ch, q)    == IF ch \in SingleValued THEN q ELSE Tail(q)

Init ==
    /\ queue = [ch \in Channel |-> <<>>]
    /\ node_index = [p \in Proc |-> 1]
    /\ state = [p \in Proc |-> InitState]
    /\ got = [p \in Proc |-> Nothing]
    /\ events = [p \in Proc |-> FALSE]
    /\ continuation_point = [p \in Proc |-> 0]
    /\ call = NoCall /\ phase = "idle" /\ ticks = 0 /\ result = "none"
    /\ ready = <<>> /\ blocked = <<>> /\ progress = FALSE
    /\ progress_io = FALSE /\ completed = {}
    /\ cur = NoProc /\ i = 0 /\ tick = NoTick

-----------------------------------------------------------------------------
(***************************************************************************)
(* The client.                                                             *)
(***************************************************************************)

\* The client's bound: it starts no call when a queue has grown too long.
RoomInQueues == \A ch \in Channel : Len(queue[ch]) < MaxQueue

StartCall(c) ==
    /\ Idle /\ RoomInQueues
    /\ call' = c
    /\ ticks' = 0
    /\ phase' = "loop"
    /\ result' = "running"
    /\ UNCHANGED <<queue, continuations, scheduler, evaluator>>

Tick == StartCall([kind |-> "Tick", counts |-> <<>>, max |-> NoLimit])

TickUntilBlocked(max) ==
    StartCall([kind |-> "TickUntilBlocked", counts |-> <<>>, max |-> max])

BadCounts(counts) ==
    \E ch \in DOMAIN counts :
        ch \notin Output \/ (ch \in SingleValued /\ counts[ch] > 1)

TickUntilOutput(counts, max) ==
    \/ /\ ~BadCounts(counts)
       /\ StartCall([kind |-> "TickUntilOutput", counts |-> counts,
                     max |-> max])
    \/ /\ Idle /\ BadCounts(counts)
       /\ result' = "invalid_argument"
       /\ UNCHANGED <<queue, continuations, call, ticks, phase, scheduler,
                      evaluator>>

\* Every proc gets a new continuation, events included; queues are kept.
ResetState ==
    /\ Idle
    /\ node_index' = [p \in Proc |-> 1]
    /\ state' = [p \in Proc |-> InitState]
    /\ got' = [p \in Proc |-> Nothing]
    /\ events' = [p \in Proc |-> FALSE]
    /\ continuation_point' = [p \in Proc |-> 0]
    /\ UNCHANGED <<queue, caller, phase, scheduler, evaluator>>

ClearInterpreterEvents ==
    /\ Idle
    /\ events' = [p \in Proc |-> FALSE]
    /\ UNCHANGED <<queue, node_index, state, got, continuation_point, caller,
                   phase, scheduler, evaluator>>

ClientWrite(ch, v) ==
    /\ Idle \/ ConcurrentClient
    /\ Len(queue[ch]) < MaxQueue
    /\ queue' = [queue EXCEPT ![ch] = Pushed(ch, @, v)]
    /\ UNCHANGED <<continuations, caller, phase, scheduler, evaluator>>

ClientRead(ch) ==
    /\ Idle \/ ConcurrentClient
    /\ queue[ch] # <<>>
    /\ queue' = [queue EXCEPT ![ch] = Popped(ch, @)]
    /\ UNCHANGED <<continuations, caller, phase, scheduler, evaluator>>

-----------------------------------------------------------------------------
(***************************************************************************)
(* The loops of Tick, TickUntilBlocked and TickUntilOutput around          *)
(* TickInternal.                                                           *)
(***************************************************************************)

NeedsMoreOutput ==
    \E ch \in DOMAIN call.counts : Len(queue[ch]) < call.counts[ch]

LimitReached == call.max # NoLimit /\ ticks >= call.max

Return(status) ==
    /\ phase' = "idle"
    /\ result' = status

\* All procs become ready, in the order of the package.
TickInternalStart ==
    /\ ready' = ProcOrder
    /\ blocked' = <<>>
    /\ progress' = FALSE /\ progress_io' = FALSE
    /\ completed' = {}
    /\ phase' = "schedule"

Loop ==
    /\ phase = "loop"
    /\ \/ /\ call.kind = "TickUntilOutput" /\ ~NeedsMoreOutput
          /\ Return("ok")
          /\ UNCHANGED scheduler
       \/ /\ \/ call.kind = "TickUntilOutput" /\ NeedsMoreOutput
             \/ call.kind = "TickUntilBlocked"
          /\ LimitReached
          /\ Return("deadline_exceeded")
          /\ UNCHANGED scheduler
       \/ /\ \/ call.kind = "TickUntilOutput" /\ NeedsMoreOutput
             \/ call.kind # "TickUntilOutput"
          /\ ~LimitReached
          /\ TickInternalStart
          /\ UNCHANGED result
    /\ UNCHANGED <<queue, continuations, call, ticks, evaluator>>

\* TickInternal is back: ready_procs is empty.
TickInternalEnd ==
    /\ phase = "schedule" /\ ready = <<>>
    /\ \/ /\ call.kind \in {"Tick", "TickUntilOutput"} /\ ~progress
          /\ Return("deadlock")
          /\ UNCHANGED ticks
       \/ /\ call.kind = "Tick" /\ progress
          /\ Return("ok")
          /\ UNCHANGED ticks
       \/ /\ call.kind = "TickUntilBlocked" /\ ~progress_io
          /\ Return("ok")
          /\ UNCHANGED ticks
       \/ /\ \/ call.kind = "TickUntilOutput" /\ progress
             \/ call.kind = "TickUntilBlocked" /\ progress_io
          /\ ticks' = ticks + 1
          /\ phase' = "loop"
          /\ UNCHANGED result
    /\ UNCHANGED <<queue, continuations, call, scheduler, evaluator>>

-----------------------------------------------------------------------------
(***************************************************************************)
(* TickInternal: the scheduling loop.                                      *)
(***************************************************************************)

\* The first ready proc resumes at the point its continuation names.
Dispatch ==
    /\ phase = "schedule" /\ ready # <<>>
    /\ cur' = Head(ready)
    /\ ready' = Tail(ready)
    /\ i' = node_index[Head(ready)]
    /\ tick' = NoTick
    /\ phase' = "execute"
    /\ UNCHANGED <<queue, continuations, caller, blocked, progress,
                   progress_io, completed>>

\* Mutant of Reschedule: a send does not wake the proc that waits for it.
RescheduleWithoutWakeup ==
    /\ ready' = IF tick.state = "sent" THEN Append(ready, cur) ELSE ready
    /\ blocked' = IF tick.state = "blocked"
                  THEN [ch \in DOMAIN blocked \cup {tick.channel} |->
                          IF ch = tick.channel THEN cur ELSE blocked[ch]]
                  ELSE blocked

\* Mutant of Reschedule: a proc that completed is ready again.
RescheduleCompleted ==
    /\ ready' = IF tick.state # "blocked" THEN Append(ready, cur) ELSE ready
    /\ UNCHANGED blocked

\* Mutant of Reschedule: a proc that waits is tried again and again.
RescheduleBlocked ==
    /\ ready' = IF tick.state # "completed" THEN Append(ready, cur) ELSE ready
    /\ UNCHANGED blocked

(***************************************************************************)
(* What becomes of cur: after a send it is ready again, behind the proc    *)
(* that waits for the channel; at a receive it waits; else it is done for  *)
(* this TickInternal.  blocked_procs holds one proc per channel.           *)
(***************************************************************************)
Reschedule ==
    \/ /\ tick.state = "sent"
       /\ ready' = IF tick.channel \in DOMAIN blocked
                   THEN ready \o <<blocked[tick.channel], cur>>
                   ELSE Append(ready, cur)
       /\ blocked' = Restrict(blocked, DOMAIN blocked \ {tick.channel})
    \/ /\ tick.state = "blocked"
       /\ blocked' = [ch \in DOMAIN blocked \cup {tick.channel} |->
                        IF ch = tick.channel THEN cur ELSE blocked[ch]]
       /\ UNCHANGED ready
    \/ /\ tick.state = "completed"
       /\ UNCHANGED <<ready, blocked>>

\* Mutant of Accumulated: only the proc ticked last counts.
LastOnly(so_far, new) == new

Accumulated(so_far, new) == so_far \/ new

\* The evaluator returned a TickResult.
TickReturned ==
    /\ phase = "returned"
    /\ Reschedule
    /\ progress' = Accumulated(progress, tick.progress)
    /\ progress_io' = Accumulated(progress_io,
                         tick.progress /\ ProcHasIoOperations(cur))
    /\ completed' = IF tick.state = "completed"
                    THEN completed \cup {cur} ELSE completed
    /\ cur' = NoProc
    /\ phase' = "schedule"
    /\ UNCHANGED <<queue, continuations, caller, i, tick>>

-----------------------------------------------------------------------------
(***************************************************************************)
(* The evaluators: ProcInterpreter::Tick, ProcJit::Tick.                   *)
(***************************************************************************)

Node == Program[cur][i]

Active == Holds(Node.pred, state[cur], got[cur])

(***************************************************************************)
(* The evaluator leaves cur with a result.  The interpreter then turns a   *)
(* failed assertion into an error, which ends the whole call; the JIT does *)
(* not look at the events.                                                 *)
(***************************************************************************)
Exit(outcome, ch, progressed) ==
    IF events[cur] /\ cur \notin Jit
    THEN /\ Return("assertion_failed")
         /\ cur' = NoProc /\ tick' = NoTick
    ELSE /\ tick' = [state |-> outcome, channel |-> ch,
                     progress |-> progressed]
         /\ phase' = "returned"
         /\ UNCHANGED <<cur, result>>

\* The evaluator goes on with the next node.
GoOn ==
    /\ i' = i + 1
    /\ UNCHANGED <<cur, tick, phase, result, node_index, continuation_point>>

\* A JIT proc is left at node n; an interpreted one has no such point.
ContinueFrom(n) ==
    continuation_point' =
        [continuation_point EXCEPT ![cur] = IF cur \in Jit THEN n ELSE @]

\* Has cur moved, now that it waits at node i?  The interpreter compares
\* with the node it resumed at, the JIT with the one it was left at, which
\* after a send is the send.
Progressed ==
    i # IF cur \in Jit THEN continuation_point[cur] ELSE node_index[cur]

HandleReceive ==
    /\ phase = "execute" /\ i <= Len(Program[cur]) /\ Node.op = "receive"
    /\ \/ /\ Active /\ queue[Node.ch] # <<>>
          /\ got' = [got EXCEPT ![cur] = Head(queue[Node.ch])]
          /\ queue' = [queue EXCEPT ![Node.ch] = Popped(Node.ch, @)]
          /\ GoOn
       \/ /\ ~Active \/ (queue[Node.ch] = <<>> /\ ~Node.blocking)
          /\ got' = [got EXCEPT
                        ![cur] = IF Node.blocking THEN Zero ELSE Nothing]
          /\ GoOn
          /\ UNCHANGED queue
       \/ /\ Active /\ queue[Node.ch] = <<>> /\ Node.blocking
          /\ node_index' = [node_index EXCEPT ![cur] = i]
          /\ ContinueFrom(i)
          /\ Exit("blocked", Node.ch, Progressed)
          /\ UNCHANGED <<queue, got, i>>
    /\ UNCHANGED <<state, events, call, ticks, scheduler>>

\* Mutant of ResumeAfterSend: execution resumes at the send itself.
ResumeAtSend == i

\* Mutant of ResumeAfterSend: the node behind the send is skipped.
ResumeTooLate == i + 2

\* Execution resumes after the send.
ResumeAfterSend == i + 1

HandleSend ==
    /\ phase = "execute" /\ i <= Len(Program[cur]) /\ Node.op = "send"
    /\ \/ /\ Active
          /\ queue' = [queue EXCEPT ![Node.ch] =
                          Pushed(Node.ch, @, SendData(cur, state[cur], got[cur]))]
          /\ node_index' = [node_index EXCEPT ![cur] = ResumeAfterSend]
          /\ ContinueFrom(i)
          /\ Exit("sent", Node.ch, TRUE)
          /\ UNCHANGED i
       \/ /\ ~Active
          /\ GoOn
          /\ UNCHANGED queue
    /\ UNCHANGED <<state, got, events, call, ticks, scheduler>>

\* Any other node; an assertion whose condition is false leaves an event.
HandleOther ==
    /\ phase = "execute" /\ i <= Len(Program[cur])
    /\ Node.op \notin {"send", "receive"}
    /\ events' = [events EXCEPT
                     ![cur] = @ \/ (Node.op = "assert" /\ ~Active)]
    /\ GoOn
    /\ UNCHANGED <<queue, state, got, call, ticks, scheduler>>

\* All nodes are executed: the continuation moves to the next iteration.
Complete ==
    /\ phase = "execute" /\ i > Len(Program[cur])
    /\ node_index' = [node_index EXCEPT ![cur] = 1]
    /\ ContinueFrom(0)
    /\ state' = [state EXCEPT ![cur] = NextState(cur, @, got[cur])]
    /\ got' = [got EXCEPT ![cur] = Nothing]
    /\ Exit("completed", Nothing, TRUE)
    /\ UNCHANGED <<queue, events, call, ticks, scheduler, i>>

-----------------------------------------------------------------------------

Client ==
    \/ Tick
    \/ \E max \in BlockedLimits : TickUntilBlocked(max)
    \/ \E counts \in OutputCounts, max \in OutputLimits :
          TickUntilOutput(counts, max)
    \/ ResetState
    \/ ClearInterpreterEvents
    \/ \E ch \in Input, v \in Value : ClientWrite(ch, v)
    \/ \E ch \in Output : ClientRead(ch)

Runtime ==
    \/ Loop \/ TickInternalEnd \/ Dispatch \/ TickReturned
    \/ HandleReceive \/ HandleSend \/ HandleOther \/ Complete

Next == Client \/ Runtime

Spec == Init /\ [][Next]_vars

\* The thread that called the runtime keeps running until the call is over.
FairSpec == Spec /\ WF_vars(Runtime)

-----------------------------------------------------------------------------

TypeOK ==
    /\ queue \in [Channel -> Seq(Value)]
    /\ node_index \in [Proc -> Nat]
    /\ \A p \in Proc : node_index[p] \in 1 .. Len(Program[p]) + 1
    /\ state \in [Proc -> State]
    /\ got \in [Proc -> Value \cup {Nothing}]
    /\ events \in [Proc -> BOOLEAN]
    /\ continuation_point \in [Proc -> Nat]
    /\ phase \in {"idle", "loop", "schedule", "execute", "returned"}
    /\ result \in {"none", "running", "ok", "deadlock", "deadline_exceeded",
                   "invalid_argument", "assertion_failed"}
    /\ ticks \in Nat
    /\ ready \in Seq(Proc)
    /\ blocked \in UNION {[S -> Proc] : S \in SUBSET Channel}
    /\ progress \in BOOLEAN /\ progress_io \in BOOLEAN
    /\ completed \subseteq Proc
    /\ phase \in {"execute", "returned"} <=> cur \in Proc
    /\ phase = "execute" => i \in 1 .. Len(Program[cur]) + 1
    /\ tick \in [state    : {"none", "sent", "blocked", "completed"},
                channel  : Channel \cup {Nothing},
                progress : BOOLEAN]
    /\ phase = "returned" => \/ tick.state = "completed"
                             \/ /\ tick.state \in {"sent", "blocked"}
                                /\ tick.channel \in Channel

(***************************************************************************)
(* However the runtime slices the execution of the procs into ticks, and   *)
(* wherever an evaluator leaves and resumes a proc (after a send, at a     *)
(* receive, after an error), every proc executes its nodes in order and    *)
(* each of them exactly once per iteration: no value is lost, delivered    *)
(* twice or reordered, and a restart affects the procs only.               *)
(***************************************************************************)
Network ==
    INSTANCE ProcNetwork WITH
        pc <- [p \in Proc |-> IF p = cur /\ phase = "execute"
                              THEN i ELSE node_index[p]]

ImplementsProcNetwork == Network!Spec

\* p waits at a receive for a channel that is empty.
Waits(p) == \E ch \in Channel : Network!WaitsOn(p, ch)

(***************************************************************************)
(* A proc is scheduled at most once at a time: it is either in ready_procs *)
(* once, or waiting in blocked_procs for one channel, or being ticked, or  *)
(* it has completed the iteration of this TickInternal.                    *)
(***************************************************************************)
ScheduledOnce ==
    phase \in {"schedule", "execute", "returned"} =>
        \A p \in Proc :
            Cardinality({n \in DOMAIN ready : ready[n] = p})
            + Cardinality({ch \in DOMAIN blocked : blocked[ch] = p})
            + Cardinality({p} \cap {cur})
            + Cardinality({p} \cap completed) = 1

(***************************************************************************)
(* No wakeup is lost: when TickInternal runs out of ready procs, every     *)
(* proc has completed its iteration or waits for a channel that is empty.  *)
(* (SerialProcRuntime::TickInternal; one receiver per channel.)            *)
(***************************************************************************)
NoLostWakeup ==
    phase = "schedule" /\ ready = <<>> =>
        \A p \in Proc : p \in completed \/ Waits(p)

(***************************************************************************)
(* The calls say what is the case: a reported deadlock means that no proc  *)
(* of the network can execute a node, and TickUntilBlocked returns only    *)
(* when every proc with sends or receives waits for an empty channel.      *)
(* (ProcRuntime::Tick: "This is necessarily a deadlock".)                  *)
(***************************************************************************)
ReportsAreTrue ==
    [][TickInternalEnd /\ Idle' =>
          /\ result' = "deadlock" => \A p \in Proc : Waits(p)
          /\ result' = "ok" /\ call.kind = "TickUntilBlocked" =>
                \A p \in Proc : ProcHasIoOperations(p) => Waits(p)]_vars

(***************************************************************************)
(* A network without conditional sends and receives and without inputs     *)
(* executes exactly one iteration of every proc in each TickInternal.      *)
(* (The comment on ProcRuntime::Tick.)                                     *)
(***************************************************************************)
EveryProcCompletes ==
    phase = "schedule" /\ ready = <<>> => completed = Proc

(***************************************************************************)
(* Every call returns: the procs that wake each other up in TickInternal   *)
(* come to an end, and so do the loops around it.                          *)
(***************************************************************************)
CallReturns == (phase # "idle") ~> (phase = "idle")
=============================================================================
