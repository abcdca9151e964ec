-------------------------- MODULE JitChannelQueue ---------------------------
(***************************************************************************)
(* ThreadSafeJitChannelQueue (xls/jit/jit_channel_queue): a channel queue  *)
(* whose elements live in a ByteQueue.  The interpreter's entry points     *)
(* Write, Read and AttachGenerator are those of the base class, with       *)
(* WriteInternal and ReadInternal overridden; compiled procs call WriteRaw *)
(* and ReadRaw.  Every operation runs under mutex_.                        *)
(***************************************************************************)
EXTENDS ByteQueue

CONSTANTS Value, AlienValue, Nothing, MaxElements

ASSUME JitQueueAssumption ==
    /\ SingleValue \in BOOLEAN
    /\ MaxElements \in Nat \ {0}
    /\ Nothing \notin Value
    /\ AlienValue \cap Value = {}

VARIABLES
    byte_queue,  \* byte_queue_
    generator,   \* generator_.has_value()
    ret          \* what the last operation returned

vars == <<byte_queue, generator, ret>>

Ok(v)      == [status |-> "ok", value |-> v]
Error(why) == [status |-> why, value |-> Nothing]

Init ==
    /\ byte_queue = NewByteQueue
    /\ generator = FALSE
    /\ ret = Ok(Nothing)

AttachGenerator ==
    /\ \/ /\ generator \/ SingleValue
          /\ ret' = Error("internal")
          /\ UNCHANGED generator
       \/ /\ ~generator /\ ~SingleValue
          /\ generator' = TRUE
          /\ ret' = Ok(Nothing)
    /\ UNCHANGED byte_queue

Write(v) ==
    /\ byte_queue.used < MaxElements
    /\ \/ /\ generator
          /\ ret' = Error("internal")
          /\ UNCHANGED byte_queue
       \/ /\ ~generator /\ v \notin Value
          /\ ret' = Error("invalid_argument")
          /\ UNCHANGED byte_queue
       \/ /\ ~generator /\ v \in Value
          /\ byte_queue' = ByteQueueWrite(byte_queue, v)
          /\ ret' = Ok(Nothing)
    /\ UNCHANGED generator

WriteRaw(v) ==
    /\ byte_queue.used < MaxElements
    /\ byte_queue' = ByteQueueWrite(byte_queue, v)
    /\ ret' = Ok(Nothing)
    /\ UNCHANGED generator

\* Read and ReadRaw, which differ in the form of the value they hand over.
Read(gen) ==
    LET q == IF generator /\ gen # Nothing
             THEN ByteQueueWrite(byte_queue, gen) ELSE byte_queue
    IN  /\ \/ /\ q.used = 0
              /\ ret' = Ok(Nothing)
              /\ byte_queue' = q
           \/ /\ q.used # 0
              /\ ret' = Ok(ByteQueueFront(q))
              /\ byte_queue' = ByteQueueRead(q)
        /\ UNCHANGED generator

Next ==
    \/ AttachGenerator
    \/ \E v \in Value \cup AlienValue : Write(v)
    \/ \E v \in Value : WriteRaw(v)
    \/ \E gen \in Value \cup {Nothing} : Read(gen)

Spec == Init /\ [][Next]_vars

-----------------------------------------------------------------------------

ByteQueueType(q) ==
    q \in [buffer : [0 .. Capacity(q.bytes) - 1 -> Value \cup {Zero}],
           bytes  : Nat \ {0},
           used   : Nat,
           read   : Nat,
           write  : Nat]

TypeOK ==
    /\ ByteQueueType(byte_queue)
    /\ generator \in BOOLEAN
    /\ ret \in [status : {"ok", "internal", "invalid_argument"},
                value  : Value \cup {Nothing}]

Ring(q) ==
    /\ q.read < Capacity(q.bytes)
    /\ q.used <= Capacity(q.bytes)
    /\ IF SingleValue
       THEN q.read = 0 /\ q.write = 0 /\ q.used <= 1
       ELSE q.write = Slot(q, q.used)
    /\ \A k \in 0 .. q.used - 1 : q.buffer[Slot(q, k)] \in Value

(***************************************************************************)
(* The read index, the element count and the write index always agree:     *)
(* the write index is the slot behind the newest element, also after the   *)
(* buffer was doubled with the read index in the middle, and every queued  *)
(* slot holds a value that was written.  (ByteQueue::Write, Read, Resize)  *)
(***************************************************************************)
RingOK == Ring(byte_queue)

(***************************************************************************)
(* Every copy the code makes without a bounds check stays inside           *)
(* circular_buffer_: the memcpy of Write and Read, and the move Resize     *)
(* would make in this state.                                               *)
(***************************************************************************)
CopiesInBounds ==
    LET q == byte_queue
    IN  /\ (q.read + 1) * AllocatedElementSize <= q.bytes
        /\ (q.write + 1) * AllocatedElementSize <= q.bytes
        /\ (q.used + q.read) * AllocatedElementSize <= 2 * q.bytes

(***************************************************************************)
(* The ring buffer is not observable: seen through its operations the JIT  *)
(* queue is the deque of the interpreter's ChannelQueue, so that a proc    *)
(* network reads the same values in the same order under both back ends.   *)
(***************************************************************************)
Queue == INSTANCE ChannelQueue WITH queue <- Contents(byte_queue)

ImplementsChannelQueue == Queue!Spec
=============================================================================
