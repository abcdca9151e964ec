----------------------------- MODULE ByteQueue ------------------------------
(***************************************************************************)
(* ByteQueue (xls/jit/jit_channel_queue): the growing ring buffer in which *)
(* a JIT channel queue keeps its elements.  The operators are functions    *)
(* from the state of a ByteQueue object, a record, to its next state.      *)
(*                                                                         *)
(* Every index of the code is a multiple of allocated_element_size_.  The  *)
(* model counts in elements: used, read and write stand for bytes_used_,   *)
(* read_index_ and write_index_ divided by AllocatedElementSize, and       *)
(* Capacity(bytes) for max_byte_count_ divided by it.  The size of         *)
(* circular_buffer_ itself stays in bytes, since it need not be a multiple *)
(* of the element size.                                                    *)
(***************************************************************************)
EXTENDS Integers, Sequences

CONSTANTS
    ElementSize,  \* channel_element_size_, in bytes
    SingleValue,  \* is_single_value_
    Zero          \* the content of a slot nothing was written to

MaxAlign        == 16   \* alignof(std::max_align_t)
kInitBufferSize == 128

RoundUpToNearest(n, m) == ((n + m - 1) \div m) * m

AllocatedElementSize ==
    LET size == RoundUpToNearest(ElementSize, MaxAlign)
    IN  IF size = 0 THEN 1 ELSE size

\* The values of 1 << k: 1 is an int, hence k < 31.
PowersOfTwo == {2^k : k \in 0..30} \cap Nat

\* 1 << CeilOfLog2(n)
PowerOfTwoAtLeast(n) ==
    CHOOSE p \in PowersOfTwo :
        p >= n /\ \A q \in PowersOfTwo : q >= n => p <= q

ASSUME ElementSizeAssumption ==
    /\ ElementSize \in Nat
    /\ \E p \in PowersOfTwo : p >= AllocatedElementSize

Capacity(bytes) == bytes \div AllocatedElementSize

\* Mutant of Wrap: the index is compared with one slot too many.
WrapLate(i, capacity) == IF i = capacity + 1 THEN 0 ELSE i

\* Index i moved back to the start of the buffer when it has run off its end.
Wrap(i, capacity) == IF i = capacity THEN 0 ELSE i

-----------------------------------------------------------------------------

\* The constructor.
NewByteQueue ==
    LET size  == PowerOfTwoAtLeast(AllocatedElementSize)
        bytes == IF size > kInitBufferSize THEN size ELSE kInitBufferSize
    IN  [buffer |-> [i \in 0 .. Capacity(bytes) - 1 |-> Zero],
         bytes  |-> bytes,
         used   |-> 0,
         read   |-> 0,
         write  |-> 0]

\* Mutant of Resize: the elements in front of the read index stay there.
ResizeWithoutMove(q) ==
    LET bytes == 2 * q.bytes
    IN  [buffer |-> [i \in 0 .. Capacity(bytes) - 1 |->
                        IF i < Capacity(q.bytes) THEN q.buffer[i] ELSE Zero],
         bytes  |-> bytes, used |-> q.used, read |-> q.read,
         write  |-> Wrap(q.used + q.read, Capacity(bytes))]

\* Mutant of Resize: the write index is not realigned.
ResizeWithoutRealign(q) ==
    [ResizeWithoutMove(q) EXCEPT !.write = q.write]

(***************************************************************************)
(* Resize: double the buffer, move the elements in front of the read index *)
(* (the newest ones) behind the others and put the write index after them. *)
(***************************************************************************)
Resize(q) ==
    LET bytes == 2 * q.bytes
    IN  [buffer |-> [i \in 0 .. Capacity(bytes) - 1 |->
                        IF i \in q.used .. q.used + q.read - 1
                        THEN q.buffer[i - q.used]
                        ELSE IF i < Capacity(q.bytes) THEN q.buffer[i]
                        ELSE Zero],
         bytes  |-> bytes,
         used   |-> q.used,
         read   |-> q.read,
         write  |-> Wrap(q.used + q.read, Capacity(bytes))]

ByteQueueWrite(q, v) ==
    LET r == IF q.used = Capacity(q.bytes) /\ ~SingleValue
             THEN Resize(q) ELSE q
        stored == [r.buffer EXCEPT ![r.write] = v]
    IN  IF SingleValue
        THEN [r EXCEPT !.buffer = stored, !.used = 1]
        ELSE [r EXCEPT !.buffer = stored,
                       !.used   = r.used + 1,
                       !.write  = Wrap(r.write + 1, Capacity(r.bytes))]

\* What Read copies out of a queue that is not empty, and what it leaves.
ByteQueueFront(q) == q.buffer[q.read]

\* Mutant of Read: the element count is decremented twice.
ByteQueueReadUnchecked(q) ==
    [q EXCEPT !.used = q.used - 2,
              !.read = Wrap(q.read + 1, Capacity(q.bytes))]

ByteQueueRead(q) ==
    IF SingleValue THEN q
    ELSE [q EXCEPT !.used = q.used - 1,
                   !.read = Wrap(q.read + 1, Capacity(q.bytes))]

-----------------------------------------------------------------------------

\* The slot of the k-th queued element, k = 0 being the oldest.
Slot(q, k) ==
    IF q.read + k < Capacity(q.bytes)
    THEN q.read + k
    ELSE q.read + k - Capacity(q.bytes)

\* The queued elements, oldest first.
Contents(q) == [k \in 1 .. q.used |-> q.buffer[Slot(q, k - 1)]]
=============================================================================
