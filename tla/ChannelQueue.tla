---------------------------- MODULE ChannelQueue ----------------------------
(***************************************************************************)
(* The channel queue of the IR interpreter (xls/interpreter/channel_queue):*)
(* the queue behind one channel between procs, or between a proc and the   *)
(* world.  A streaming channel is an unbounded FIFO, a single-value        *)
(* channel a register that is overwritten by writes and not consumed by    *)
(* reads.  Every operation holds mutex_ from its first to its last line    *)
(* and is therefore one action, whichever thread calls it.                 *)
(*                                                                         *)
(* The module is also what the JIT's queue (module JitChannelQueue)        *)
(* promises to be.                                                         *)
(***************************************************************************)
EXTENDS Integers, Sequences

CONSTANTS
    Value,        \* the values that conform to the channel's type
    AlienValue,   \* values of another type, which Write refuses
    Nothing,      \* std::nullopt
    SingleValue,  \* channel_->kind() == ChannelKind::kSingleValue
    MaxElements   \* bound: no write when this many elements are queued

VARIABLES
    queue,      \* queue_
    generator,  \* generator_.has_value()
    ret         \* what the last operation returned

vars == <<queue, generator, ret>>

Ok(v)      == [status |-> "ok", value |-> v]
Error(why) == [status |-> why, value |-> Nothing]

Init ==
    /\ queue = <<>>
    /\ generator = FALSE
    /\ ret = Ok(Nothing)

-----------------------------------------------------------------------------

\* WriteInternal: push_back, or overwrite the front of a single-value queue.
Pushed(q, v) == IF SingleValue THEN <<v>> ELSE Append(q, v)

\* ReadInternal on a non-empty queue: pop_front unless single-value.
Popped(q) == IF SingleValue THEN q ELSE Tail(q)

AttachGenerator ==
    /\ \/ /\ generator \/ SingleValue
          /\ ret' = Error("internal")
          /\ UNCHANGED generator
       \/ /\ ~generator /\ ~SingleValue
          /\ generator' = TRUE
          /\ ret' = Ok(Nothing)
    /\ UNCHANGED queue

Write(v) ==
    /\ Len(queue) < MaxElements
    /\ \/ /\ generator
          /\ ret' = Error("internal")
          /\ UNCHANGED queue
       \/ /\ ~generator /\ v \notin Value
          /\ ret' = Error("invalid_argument")
          /\ UNCHANGED queue
       \/ /\ ~generator /\ v \in Value
          /\ queue' = Pushed(queue, v)
          /\ ret' = Ok(Nothing)
    /\ UNCHANGED generator

(***************************************************************************)
(* JitChannelQueue::WriteRaw, which only the queue of the JIT has.  Unlike *)
(* Write it looks at neither the generator nor the type of the value.      *)
(***************************************************************************)
WriteRaw(v) ==
    /\ Len(queue) < MaxElements
    /\ queue' = Pushed(queue, v)
    /\ ret' = Ok(Nothing)
    /\ UNCHANGED generator

(***************************************************************************)
(* Read.  An attached generator is called first and yields gen: a value,   *)
(* which is queued behind what is already there, or Nothing.               *)
(***************************************************************************)
Read(gen) ==
    LET q == IF generator /\ gen # Nothing THEN Pushed(queue, gen) ELSE queue
    IN  /\ \/ /\ q = <<>>
              /\ ret' = Ok(Nothing)
              /\ queue' = q
           \/ /\ q # <<>>
              /\ ret' = Ok(Head(q))
              /\ queue' = Popped(q)
        /\ UNCHANGED generator

Next ==
    \/ AttachGenerator
    \/ \E v \in Value \cup AlienValue : Write(v)
    \/ \E v \in Value : WriteRaw(v)
    \/ \E gen \in Value \cup {Nothing} : Read(gen)

Spec == Init /\ [][Next]_vars
=============================================================================
