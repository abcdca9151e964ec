----------------------- MODULE JitChannelQueue_proofs -----------------------
(***************************************************************************)
(* Proofs about the ring buffer of the JIT channel queue, for every        *)
(* element size, both channel kinds and any number of queued elements.     *)
(***************************************************************************)
EXTENDS JitChannelQueue, NaturalsInduction, WellFoundedInduction, TLAPS

\* The allocated size of an element is positive, also for an empty tuple.
LEMMA AllocatedPositive == AllocatedElementSize \in Nat \ {0}
<1> DEFINE size == RoundUpToNearest(ElementSize, MaxAlign)
<1>1. size \in Nat
  BY ElementSizeAssumption DEF RoundUpToNearest, MaxAlign
<1> QED BY <1>1 DEF AllocatedElementSize

\* Doubling the buffer at least doubles the slots it holds.
LEMMA CapacityDoubles ==
  ASSUME NEW b \in Nat
  PROVE  /\ Capacity(b) \in Nat
         /\ Capacity(2 * b) \in Nat
         /\ Capacity(2 * b) >= 2 * Capacity(b)
<1> DEFINE A == AllocatedElementSize
           c == b \div A
           d == (2 * b) \div A
<1>1. A \in Nat \ {0}  BY AllocatedPositive
<1> HIDE DEF A
<1>2. c \in Nat /\ d \in Nat  BY <1>1
<1>3. c * A <= b  BY <1>1
<1>4. 2 * b < (d + 1) * A  BY <1>1
<1> HIDE DEF c, d
<1>5. (2 * c) * A < (d + 1) * A
  <2>1. (2 * c) * A = 2 * (c * A)  BY <1>1, <1>2
  <2>2. c * A \in Nat /\ (d + 1) * A \in Nat BY <1>1, <1>2
  <2> QED BY <2>1, <2>2, <1>3, <1>4
<1>6. 2 * c < d + 1  BY <1>1, <1>2, <1>5
<1> QED BY <1>2, <1>6 DEF Capacity, A, c, d

\* The buffer the constructor allocates holds at least one element.
LEMMA NewByteQueueHasRoom ==
  /\ NewByteQueue.bytes \in Nat \ {0}
  /\ Capacity(NewByteQueue.bytes) \in Nat \ {0}
<1> DEFINE A == AllocatedElementSize
           T == {p \in PowersOfTwo : p >= A}
<1>1. A \in Nat \ {0}  BY AllocatedPositive
<1>2. T \subseteq Nat /\ T # {}  BY ElementSizeAssumption DEF PowersOfTwo
<1> DEFINE R == OpToRel(<, Nat)
<1>3. IsWellFoundedOn(R, Nat)  BY NatLessThanWellFounded, Zenon
<1>4. \A p, q \in Nat : q < p => <<q, p>> \in R
  BY Zenon DEF OpToRel
<1> HIDE DEF R, T
<1>5. \E p \in T : \A q \in T : <<q, p>> \notin R
  BY <1>2, <1>3, WFMin
<1> USE DEF T
<1>6. \E p \in PowersOfTwo :
         p >= A /\ \A q \in PowersOfTwo : q >= A => p <= q
  <2>1. PICK p \in T : \A q \in T : <<q, p>> \notin R  BY <1>5
  <2>2. \A q \in PowersOfTwo : q >= A => p <= q
    <3> SUFFICES ASSUME NEW q \in PowersOfTwo, q >= A  PROVE p <= q
      OBVIOUS
    <3>1. q \in T  OBVIOUS
    <3>2. p \in Nat /\ q \in Nat  BY <1>2, <2>1, <3>1
    <3>3. ~(q < p)  BY <1>4, <2>1, <3>1, <3>2, Zenon
    <3> QED BY <3>2, <3>3
  <2> QED BY <2>1, <2>2
<1> DEFINE size == PowerOfTwoAtLeast(A)
<1>7. size \in Nat /\ size >= A
  BY <1>6 DEF PowerOfTwoAtLeast, PowersOfTwo
<1> HIDE DEF size
<1> DEFINE bytes == IF size > kInitBufferSize THEN size ELSE kInitBufferSize
<1>8. bytes \in Nat \ {0} /\ bytes >= A
  BY <1>1, <1>7 DEF kInitBufferSize
<1>9. NewByteQueue.bytes = bytes
  BY DEF NewByteQueue, bytes, size, A
<1> HIDE DEF bytes
<1>10. bytes \div A \in Nat \ {0}
  BY <1>1, <1>8
<1> QED BY <1>8, <1>9, <1>10 DEF Capacity, A

-----------------------------------------------------------------------------
(***************************************************************************)
(* The operations of ByteQueue on a well-formed ring.                      *)
(***************************************************************************)

\* The number of slots is a natural number, and slots are inside the buffer.
LEMMA SlotInBuffer ==
  ASSUME NEW q, ByteQueueType(q), Ring(q), NEW k \in 0 .. q.used
  PROVE  /\ Capacity(q.bytes) \in Nat
         /\ Slot(q, k) \in 0 .. Capacity(q.bytes) - 1
<1>1. q.bytes \in Nat /\ q.used \in Nat /\ q.read \in Nat
  BY DEF ByteQueueType
<1>2. Capacity(q.bytes) \in Nat  BY <1>1, CapacityDoubles
<1>3. q.read < Capacity(q.bytes) /\ q.used <= Capacity(q.bytes)  BY DEF Ring
<1> QED BY <1>1, <1>2, <1>3 DEF Slot

\* A well-formed ring holds a sequence of values.
LEMMA ContentsType ==
  ASSUME NEW q, ByteQueueType(q), Ring(q)
  PROVE  Contents(q) \in Seq(Value) /\ Len(Contents(q)) = q.used
<1>1. q.used \in Nat  BY DEF ByteQueueType
<1>2. \A k \in 1 .. q.used : q.buffer[Slot(q, k - 1)] \in Value
  BY <1>1 DEF Ring
<1> QED BY <1>1, <1>2 DEF Contents

\* Resize keeps the elements and their order and makes room for another one.
LEMMA ResizeOK ==
  ASSUME NEW q, ByteQueueType(q), Ring(q), ~SingleValue,
         q.used = Capacity(q.bytes)
  PROVE  /\ ByteQueueType(Resize(q))
         /\ Ring(Resize(q))
         /\ Resize(q).used = q.used
         /\ Resize(q).used < Capacity(Resize(q).bytes)
         /\ Contents(Resize(q)) = Contents(q)
<1> DEFINE c == Capacity(q.bytes)
           d == Capacity(2 * q.bytes)
           r == Resize(q)
<1>1. /\ q.bytes \in Nat \ {0} /\ q.used \in Nat /\ q.read \in Nat
      /\ q.buffer \in [0 .. c - 1 -> Value \cup {Zero}]
  BY DEF ByteQueueType
<1>2. c \in Nat /\ d \in Nat /\ d >= 2 * c  BY <1>1, CapacityDoubles
<1>3. q.read < c /\ q.used = c  BY DEF Ring
<1>4. /\ r.bytes = 2 * q.bytes /\ r.used = c /\ r.read = q.read
      /\ r.write = q.read + c
      /\ r.buffer = [i \in 0 .. d - 1 |->
                        IF i \in c .. c + q.read - 1 THEN q.buffer[i - c]
                        ELSE IF i < c THEN q.buffer[i] ELSE Zero]
  BY <1>1, <1>2, <1>3 DEF Resize, Wrap
<1>5. r \in [buffer : [0 .. d - 1 -> Value \cup {Zero}], bytes : Nat \ {0},
             used : Nat, read : Nat, write : Nat]
  <2>1. [i \in 0 .. d - 1 |->
                        IF i \in c .. c + q.read - 1 THEN q.buffer[i - c]
                        ELSE IF i < c THEN q.buffer[i] ELSE Zero]
         \in [0 .. d - 1 -> Value \cup {Zero}]
    <3> HIDE DEF c, d
    <3> SUFFICES ASSUME NEW i \in 0 .. d - 1
                 PROVE  (IF i \in c .. c + q.read - 1 THEN q.buffer[i - c]
                         ELSE IF i < c THEN q.buffer[i] ELSE Zero)
                        \in Value \cup {Zero}
      OBVIOUS
    <3>1. CASE i \in c .. c + q.read - 1
      <4>1. i - c \in 0 .. c - 1  BY <1>1, <1>2, <1>3, <3>1
      <4> QED BY <1>1, <3>1, <4>1
    <3>2. CASE i \notin c .. c + q.read - 1 /\ i < c
      <4>1. i \in 0 .. c - 1  BY <1>2, <3>2
      <4> QED BY <1>1, <3>2, <4>1
    <3>3. CASE i \notin c .. c + q.read - 1 /\ ~(i < c)
      BY <3>3
    <3> QED BY <3>1, <3>2, <3>3
  <2>2. r = [buffer |-> r.buffer, bytes |-> r.bytes, used |-> r.used,
             read |-> r.read, write |-> r.write]
    BY DEF Resize
  <2>3. r.bytes \in Nat \ {0} /\ r.used \in Nat /\ r.read \in Nat
        /\ r.write \in Nat
    BY <1>1, <1>2, <1>3, <1>4
  <2>4. r.buffer \in [0 .. d - 1 -> Value \cup {Zero}]  BY <1>4, <2>1
  <2> HIDE DEF r, d
  <2> QED BY <2>2, <2>3, <2>4
<1>6. Capacity(r.bytes) = d  BY <1>4
<1>7. \A k \in 0 .. c : Slot(r, k) = q.read + k
  BY <1>1, <1>2, <1>3, <1>4, <1>6 DEF Slot
<1>8. \A k \in 0 .. c - 1 : r.buffer[Slot(r, k)] = q.buffer[Slot(q, k)]
  <2> SUFFICES ASSUME NEW k \in 0 .. c - 1
               PROVE  r.buffer[q.read + k] = q.buffer[Slot(q, k)]
    BY <1>2, <1>7
  <2> HIDE DEF r, c, d
  <2>1. q.read + k \in 0 .. d - 1  BY <1>1, <1>2, <1>3
  <2>2. CASE q.read + k < c
    <3>1. Slot(q, k) = q.read + k  BY <2>2 DEF Slot, c
    <3> QED BY <1>1, <1>2, <1>3, <1>4, <2>1, <2>2, <3>1
  <2>3. CASE ~(q.read + k < c)
    <3>1. Slot(q, k) = q.read + k - c  BY <2>3 DEF Slot, c
    <3>2. q.read + k \in c .. c + q.read - 1  BY <1>1, <1>2, <1>3, <2>3
    <3> QED BY <1>1, <1>2, <1>4, <2>1, <3>1, <3>2
  <2> QED BY <2>2, <2>3
<1>9. \A k \in 0 .. c - 1 : q.buffer[Slot(q, k)] \in Value
  BY <1>3 DEF Ring
<1>10. Contents(r) = Contents(q)
  <2> HIDE DEF r, c
  <2>1. \A k \in 1 .. c :
           r.buffer[Slot(r, k - 1)] = q.buffer[Slot(q, k - 1)]
    BY <1>2, <1>8
  <2> QED BY <1>3, <1>4, <2>1 DEF Contents
<1>11. ByteQueueType(r)  BY <1>5, <1>6 DEF ByteQueueType
<1>12. Ring(r)
  <2> HIDE DEF r, c, d
  <2>1. \A k \in 0 .. r.used - 1 : r.buffer[Slot(r, k)] \in Value
    BY <1>4, <1>8, <1>9
  <2>2. r.write = Slot(r, r.used)  BY <1>1, <1>2, <1>4, <1>7
  <2>3. r.read < d /\ r.used <= d  BY <1>1, <1>2, <1>3, <1>4
  <2> QED BY <1>6, <2>1, <2>2, <2>3 DEF Ring
<1>13. r.used = q.used /\ r.used < d  BY <1>1, <1>2, <1>3, <1>4
<1> QED BY <1>6, <1>10, <1>11, <1>12, <1>13

\* Write on a queue with room, and on a single-value queue, appends.
LEMMA StoreOK ==
  ASSUME NEW q, ByteQueueType(q), Ring(q), NEW v \in Value,
         SingleValue \/ q.used < Capacity(q.bytes),
         NEW w,
         w = IF SingleValue
             THEN [q EXCEPT !.buffer = [q.buffer EXCEPT ![q.write] = v],
                            !.used = 1]
             ELSE [q EXCEPT !.buffer = [q.buffer EXCEPT ![q.write] = v],
                            !.used   = q.used + 1,
                            !.write  = Wrap(q.write + 1, Capacity(q.bytes))]
  PROVE  /\ ByteQueueType(w)
         /\ Ring(w)
         /\ Contents(w) = Queue!Pushed(Contents(q), v)
<1> DEFINE c == Capacity(q.bytes)
           n == IF SingleValue THEN 1 ELSE q.used + 1
           pos == IF SingleValue THEN q.write ELSE Wrap(q.write + 1, c)
<1>1. /\ q.bytes \in Nat \ {0} /\ q.used \in Nat /\ q.read \in Nat
      /\ q.write \in Nat
      /\ q.buffer \in [0 .. c - 1 -> Value \cup {Zero}]
      /\ q = [buffer |-> q.buffer, bytes |-> q.bytes, used |-> q.used,
              read |-> q.read, write |-> q.write]
  BY DEF ByteQueueType
<1>2. c \in Nat  BY <1>1, CapacityDoubles
<1>3. q.read < c /\ q.used <= c  BY DEF Ring
<1>4. SingleValue => q.read = 0 /\ q.write = 0 /\ q.used <= 1  BY DEF Ring
<1>5. ~SingleValue => q.write = Slot(q, q.used) /\ q.used < c  BY DEF Ring
<1>6. q.write \in 0 .. c - 1
  BY <1>1, <1>2, <1>3, <1>4, <1>5, SlotInBuffer
<1>7. w = [buffer |-> [q.buffer EXCEPT ![q.write] = v], bytes |-> q.bytes,
           used |-> n, read |-> q.read, write |-> pos]
  <2>1. CASE SingleValue  BY <1>1, <2>1
  <2>2. CASE ~SingleValue  BY <1>1, <2>2
  <2> QED BY <2>1, <2>2
<1>8. /\ w.buffer = [q.buffer EXCEPT ![q.write] = v] /\ w.bytes = q.bytes
      /\ w.used = n /\ w.read = q.read /\ w.write = pos
  BY <1>7
<1>9. n \in Nat /\ n <= c /\ pos \in Nat
  BY <1>1, <1>2, <1>3, <1>4, <1>5 DEF Wrap
<1>10. ByteQueueType(w)
  <2>1. w.buffer \in [0 .. c - 1 -> Value \cup {Zero}]  BY <1>1, <1>8
  <2> HIDE DEF n, pos
  <2> QED BY <1>1, <1>7, <1>8, <1>9, <2>1 DEF ByteQueueType
<1>11. \A k \in 0 .. c : Slot(w, k) = Slot(q, k)  BY <1>8 DEF Slot
<1>12. ~SingleValue => /\ pos = Slot(q, n)
                       /\ \A k \in 0 .. q.used - 1 : Slot(q, k) # q.write
  BY <1>1, <1>2, <1>3, <1>5 DEF Slot, Wrap
<1>13. \A k \in 0 .. n - 1 :
         w.buffer[Slot(w, k)] =
           IF SingleValue \/ k = q.used THEN v ELSE q.buffer[Slot(q, k)]
  <2> SUFFICES ASSUME NEW k \in 0 .. n - 1
               PROVE  w.buffer[Slot(q, k)] =
                         IF SingleValue \/ k = q.used THEN v
                         ELSE q.buffer[Slot(q, k)]
    BY <1>2, <1>9, <1>11
  <2>1. CASE SingleValue
    <3>1. Slot(q, k) = q.write  BY <1>2, <1>3, <1>4, <2>1 DEF Slot
    <3> QED BY <1>1, <1>6, <1>8, <2>1, <3>1
  <2>2. CASE ~SingleValue /\ k = q.used
    BY <1>1, <1>5, <1>6, <1>8, <2>2
  <2>3. CASE ~SingleValue /\ k # q.used
    <3>1. k \in 0 .. q.used - 1  BY <1>1, <2>3
    <3>2. Slot(q, k) # q.write  BY <1>12, <2>3, <3>1
    <3>3. Slot(q, k) \in 0 .. c - 1  BY <1>1, <3>1, SlotInBuffer
    <3> QED BY <1>1, <1>8, <2>3, <3>2, <3>3
  <2> QED BY <2>1, <2>2, <2>3
<1>14. \A k \in 0 .. q.used - 1 : q.buffer[Slot(q, k)] \in Value
  BY DEF Ring
<1>15. Ring(w)
  <2>1. \A k \in 0 .. w.used - 1 : w.buffer[Slot(w, k)] \in Value
    BY <1>1, <1>8, <1>13, <1>14
  <2>2. IF SingleValue
        THEN w.read = 0 /\ w.write = 0 /\ w.used <= 1
        ELSE w.write = Slot(w, w.used)
    BY <1>4, <1>8, <1>9, <1>11, <1>12
  <2> QED BY <1>2, <1>3, <1>8, <1>9, <2>1, <2>2 DEF Ring
<1>16. Contents(w) = Queue!Pushed(Contents(q), v)
  <2>1. Contents(q) \in Seq(Value) /\ Len(Contents(q)) = q.used
    BY ContentsType
  <2>2. Contents(w) \in Seq(Value) /\ Len(Contents(w)) = n
    BY <1>8, <1>10, <1>15, ContentsType
  <2>3. \A k \in 1 .. n : Contents(w)[k] = w.buffer[Slot(w, k - 1)]
    BY <1>8 DEF Contents
  <2>4. \A k \in 1 .. q.used : Contents(q)[k] = q.buffer[Slot(q, k - 1)]
    BY DEF Contents
  <2>5. \A k \in 1 .. n :
           Contents(w)[k] = IF SingleValue \/ k = q.used + 1 THEN v
                            ELSE Contents(q)[k]
    BY <1>1, <1>9, <1>13, <2>3, <2>4
  <2> DEFINE cw == Contents(w)
             cq == Contents(q)
  <2> HIDE DEF cw, cq
  <2>6. CASE SingleValue
    BY <2>2, <2>5, <2>6 DEF Queue!Pushed, cw
  <2>7. CASE ~SingleValue
    <3>1. cw \in Seq(Value) /\ Len(cw) = q.used + 1
      BY <2>2, <2>7 DEF cw
    <3>2. cq \in Seq(Value) /\ Len(cq) = q.used  BY <2>1 DEF cq
    <3>3. \A k \in 1 .. q.used + 1 :
             cw[k] = IF k = q.used + 1 THEN v ELSE cq[k]
      BY <2>5, <2>7 DEF cw, cq
    <3>4. cw = Append(cq, v)  BY <1>1, <3>1, <3>2, <3>3
    <3> QED BY <2>7, <3>4 DEF Queue!Pushed, cw, cq
  <2> QED BY <2>6, <2>7
<1> QED BY <1>10, <1>15, <1>16

\* Write, with the Resize it may start with.
LEMMA ByteQueueWriteOK ==
  ASSUME NEW q, ByteQueueType(q), Ring(q), NEW v \in Value
  PROVE  /\ ByteQueueType(ByteQueueWrite(q, v))
         /\ Ring(ByteQueueWrite(q, v))
         /\ Contents(ByteQueueWrite(q, v)) = Queue!Pushed(Contents(q), v)
<1> DEFINE full == q.used = Capacity(q.bytes) /\ ~SingleValue
           r == IF full THEN Resize(q) ELSE q
           w == ByteQueueWrite(q, v)
<1>1. /\ ByteQueueType(r) /\ Ring(r) /\ Contents(r) = Contents(q)
      /\ SingleValue \/ r.used < Capacity(r.bytes)
  <2>1. CASE full  BY <2>1, ResizeOK
  <2>2. CASE ~full
    <3>1. q.used \in Nat /\ Capacity(q.bytes) \in Nat
      BY CapacityDoubles DEF ByteQueueType
    <3>2. q.used <= Capacity(q.bytes)  BY DEF Ring
    <3> QED BY <2>2, <3>1, <3>2
  <2> QED BY <2>1, <2>2
<1>2. w = IF SingleValue
          THEN [r EXCEPT !.buffer = [r.buffer EXCEPT ![r.write] = v],
                         !.used = 1]
          ELSE [r EXCEPT !.buffer = [r.buffer EXCEPT ![r.write] = v],
                         !.used   = r.used + 1,
                         !.write  = Wrap(r.write + 1, Capacity(r.bytes))]
  BY DEF ByteQueueWrite
<1> HIDE DEF r, w
<1>3. /\ ByteQueueType(w) /\ Ring(w)
      /\ Contents(w) = Queue!Pushed(Contents(r), v)
  BY <1>1, <1>2, StoreOK
<1> QED BY <1>1, <1>3 DEF w

\* Moving the read index by one slot moves every later slot by one position.
LEMMA SlotShift ==
  ASSUME NEW q, NEW r, Capacity(q.bytes) \in Nat,
         Capacity(r.bytes) = Capacity(q.bytes),
         q.read \in Nat, q.read < Capacity(q.bytes),
         r.read = Wrap(q.read + 1, Capacity(q.bytes)),
         NEW k \in Nat, k < Capacity(q.bytes)
  PROVE  Slot(r, k) = Slot(q, k + 1)
<1>1. CASE q.read + 1 = Capacity(q.bytes)
  <2>1. r.read = 0  BY <1>1 DEF Wrap
  <2> QED BY <1>1, <2>1 DEF Slot
<1>2. CASE q.read + 1 # Capacity(q.bytes)
  <2>1. r.read = q.read + 1  BY <1>2 DEF Wrap
  <2> QED BY <1>2, <2>1 DEF Slot
<1> QED BY <1>1, <1>2

\* Read hands over the oldest element and, if streaming, removes it.
LEMMA ByteQueueReadOK ==
  ASSUME NEW q, ByteQueueType(q), Ring(q), q.used # 0
  PROVE  /\ ByteQueueType(ByteQueueRead(q))
         /\ Ring(ByteQueueRead(q))
         /\ Contents(q) # <<>>
         /\ ByteQueueFront(q) = Head(Contents(q))
         /\ ByteQueueFront(q) \in Value
         /\ Contents(ByteQueueRead(q)) = Queue!Popped(Contents(q))
<1> DEFINE c == Capacity(q.bytes)
           cq == Contents(q)
<1>1. /\ q.bytes \in Nat \ {0} /\ q.used \in Nat /\ q.read \in Nat
      /\ q.write \in Nat
      /\ q.buffer \in [0 .. c - 1 -> Value \cup {Zero}]
      /\ q = [buffer |-> q.buffer, bytes |-> q.bytes, used |-> q.used,
              read |-> q.read, write |-> q.write]
  BY DEF ByteQueueType
<1>2. c \in Nat  BY <1>1, CapacityDoubles
<1>3. q.read < c /\ q.used <= c  BY DEF Ring
<1>4. cq \in Seq(Value) /\ Len(cq) = q.used  BY ContentsType
<1>5. \A k \in 1 .. q.used : cq[k] = q.buffer[Slot(q, k - 1)]
  BY DEF Contents
<1>6. Slot(q, 0) = q.read  BY <1>1, <1>2, <1>3 DEF Slot
<1>7. cq # <<>> /\ ByteQueueFront(q) = Head(cq) /\ Head(cq) \in Value
  <2> HIDE DEF cq
  <2>1. 1 \in 1 .. q.used  BY <1>1
  <2>2. cq[1] = q.buffer[q.read]  BY <1>5, <1>6, <2>1
  <2> QED BY <1>1, <1>4, <2>1, <2>2 DEF ByteQueueFront
<1>8. CASE SingleValue
  BY <1>7, <1>8 DEF ByteQueueRead, Queue!Popped
<1>9. CASE ~SingleValue
  <2> DEFINE r == ByteQueueRead(q)
             cr == Contents(r)
  <2>1. r = [buffer |-> q.buffer, bytes |-> q.bytes, used |-> q.used - 1,
             read |-> Wrap(q.read + 1, c), write |-> q.write]
    BY <1>1, <1>9 DEF ByteQueueRead
  <2>2. /\ r.buffer = q.buffer /\ r.bytes = q.bytes
        /\ r.used = q.used - 1 /\ r.read = Wrap(q.read + 1, c)
        /\ r.write = q.write
    BY <2>1
  <2> HIDE DEF r
  <2>3. r.used \in Nat /\ r.read \in Nat /\ r.read < c
    BY <1>1, <1>2, <1>3, <2>2 DEF Wrap
  <2>4. ByteQueueType(r)  BY <1>1, <2>1, <2>2, <2>3 DEF ByteQueueType
  <2>5. \A k \in 0 .. q.used - 1 : Slot(r, k) = Slot(q, k + 1)
    <3> SUFFICES ASSUME NEW k \in 0 .. q.used - 1
                 PROVE  Slot(r, k) = Slot(q, k + 1)
      OBVIOUS
    <3>1. k \in Nat /\ k < c  BY <1>1, <1>2, <1>3
    <3> QED BY <1>1, <1>2, <1>3, <2>2, <3>1, SlotShift
  <2>6. Ring(r)
    <3>1. q.write = Slot(q, q.used)  BY <1>9 DEF Ring
    <3>2. r.write = Slot(r, r.used)  BY <1>1, <2>2, <2>5, <3>1
    <3>3. \A k \in 0 .. q.used - 1 : q.buffer[Slot(q, k)] \in Value
      BY DEF Ring
    <3>4. \A k \in 0 .. r.used - 1 : r.buffer[Slot(r, k)] \in Value
      BY <1>1, <2>2, <2>5, <3>3
    <3>5. Capacity(r.bytes) = c  BY <2>2
    <3>6. r.used <= c  BY <1>1, <1>2, <1>3, <2>2
    <3> QED BY <1>9, <2>3, <3>2, <3>4, <3>5, <3>6 DEF Ring
  <2>7. cr = Tail(cq)
    <3>1. cr \in Seq(Value) /\ Len(cr) = q.used - 1
      BY <2>2, <2>4, <2>6, ContentsType
    <3>2. \A k \in 1 .. q.used - 1 : cr[k] = r.buffer[Slot(r, k - 1)]
      BY <2>2 DEF Contents
    <3>3. \A k \in 1 .. q.used - 1 : cr[k] = cq[k + 1]
      <4> SUFFICES ASSUME NEW k \in 1 .. q.used - 1
                   PROVE  cr[k] = cq[k + 1]
        OBVIOUS
      <4> HIDE DEF cr, cq
      <4>1. k - 1 \in 0 .. q.used - 1 /\ k + 1 \in 1 .. q.used
            /\ (k - 1) + 1 = (k + 1) - 1
        BY <1>1
      <4>2. Slot(r, k - 1) = Slot(q, (k + 1) - 1)  BY <2>5, <4>1
      <4> QED BY <1>5, <2>2, <3>2, <4>1, <4>2
    <3> HIDE DEF cr, cq
    <3> QED BY <1>1, <1>4, <3>1, <3>3
  <2> QED BY <1>7, <1>9, <2>4, <2>6, <2>7 DEF Queue!Popped, r
<1> QED BY <1>8, <1>9

-----------------------------------------------------------------------------
(***************************************************************************)
(* The invariants of JitChannelQueue and its refinement.                   *)
(***************************************************************************)

Inv == TypeOK /\ RingOK

\* The queue the constructor makes is an empty, well-formed ring.
LEMMA NewByteQueueOK ==
  /\ ByteQueueType(NewByteQueue)
  /\ Ring(NewByteQueue)
  /\ Contents(NewByteQueue) = <<>>
<1> DEFINE q == NewByteQueue
           c == Capacity(q.bytes)
<1>1. q.bytes \in Nat \ {0} /\ c \in Nat \ {0}  BY NewByteQueueHasRoom
<1>2. /\ q.used = 0 /\ q.read = 0 /\ q.write = 0
      /\ q.buffer = [i \in 0 .. c - 1 |-> Zero]
      /\ q = [buffer |-> q.buffer, bytes |-> q.bytes, used |-> q.used,
              read |-> q.read, write |-> q.write]
  BY DEF NewByteQueue
<1> HIDE DEF q
<1>3. ByteQueueType(q)  BY <1>1, <1>2 DEF ByteQueueType
<1>4. Ring(q)  BY <1>1, <1>2 DEF Ring, Slot
<1>5. Contents(q) = <<>>
  <2>1. Contents(q) \in Seq(Value) /\ Len(Contents(q)) = 0
    BY <1>2, <1>3, <1>4, ContentsType
  <2> QED BY <2>1
<1> QED BY <1>3, <1>4, <1>5 DEF q

\* The initial state maps to the initial state of ChannelQueue.
LEMMA InitRefines == Init => Inv /\ Queue!Init
<1> SUFFICES ASSUME Init PROVE Inv /\ Queue!Init  OBVIOUS
<1>1. ByteQueueType(byte_queue) /\ Ring(byte_queue)
      /\ Contents(byte_queue) = <<>>
  BY NewByteQueueOK DEF Init
<1>2. ret \in [status : {"ok", "internal", "invalid_argument"},
               value  : Value \cup {Nothing}]
  BY DEF Init, Ok
<1> QED BY <1>1, <1>2 DEF Init, Inv, TypeOK, RingOK, Queue!Init, Ok, Queue!Ok

\* Every operation keeps the invariant and is the same operation of
\* ChannelQueue on the queued elements.
LEMMA NextRefines == Inv /\ [Next]_vars => Inv' /\ [Queue!Next]_(Queue!vars)
<1> SUFFICES ASSUME Inv, [Next]_vars
             PROVE  Inv' /\ [Queue!Next]_(Queue!vars)
  OBVIOUS
<1> DEFINE Ret == [status : {"ok", "internal", "invalid_argument"},
                   value  : Value \cup {Nothing}]
<1>0. /\ ByteQueueType(byte_queue) /\ Ring(byte_queue)
      /\ generator \in BOOLEAN /\ ret \in Ret
      /\ Contents(byte_queue) \in Seq(Value)
      /\ Len(Contents(byte_queue)) = byte_queue.used
  BY ContentsType DEF Inv, TypeOK, RingOK
<1>1. \A v \in Value \cup {Nothing} : Ok(v) \in Ret /\ Ok(v) = Queue!Ok(v)
  BY DEF Ok, Queue!Ok
<1>2. \A e \in {"internal", "invalid_argument"} :
         Error(e) \in Ret /\ Error(e) = Queue!Error(e)
  BY DEF Error, Queue!Error
<1> HIDE DEF Ret
<1>3. ASSUME ByteQueueType(byte_queue'), Ring(byte_queue'),
             generator' \in BOOLEAN, ret' \in Ret
      PROVE  Inv'
  BY <1>3 DEF Inv, TypeOK, RingOK, Ret
<1>4. CASE AttachGenerator
  <2>1. Queue!AttachGenerator
    BY <1>1, <1>2, <1>4 DEF AttachGenerator, Queue!AttachGenerator
  <2>2. byte_queue' = byte_queue /\ generator' \in BOOLEAN
    BY <1>0, <1>4, Zenon DEF AttachGenerator
  <2>3. ret' \in Ret  BY <1>1, <1>2, <1>4 DEF AttachGenerator
  <2> QED BY <1>0, <1>3, <2>1, <2>2, <2>3 DEF Queue!Next
<1>5. ASSUME NEW v \in Value \cup AlienValue, Write(v)
      PROVE  Inv' /\ Queue!Write(v)
  <2>1. Len(Contents(byte_queue)) < MaxElements
        /\ generator' = generator
    BY <1>0, <1>5 DEF Write
  <2>2. CASE generator /\ ret' = Error("internal") /\ UNCHANGED byte_queue
    BY <1>0, <1>2, <1>3, <2>1, <2>2 DEF Queue!Write
  <2>3. CASE ~generator /\ v \notin Value
             /\ ret' = Error("invalid_argument") /\ UNCHANGED byte_queue
    BY <1>0, <1>2, <1>3, <2>1, <2>3 DEF Queue!Write
  <2>4. CASE ~generator /\ v \in Value /\ ret' = Ok(Nothing)
             /\ byte_queue' = ByteQueueWrite(byte_queue, v)
    <3>1. /\ ByteQueueType(byte_queue') /\ Ring(byte_queue')
          /\ Contents(byte_queue') = Queue!Pushed(Contents(byte_queue), v)
      BY <1>0, <2>4, ByteQueueWriteOK
    <3> QED BY <1>0, <1>1, <1>3, <2>1, <2>4, <3>1 DEF Queue!Write
  <2> QED BY <1>5, <2>2, <2>3, <2>4 DEF Write
<1>6. ASSUME NEW v \in Value, WriteRaw(v)
      PROVE  Inv' /\ Queue!WriteRaw(v)
  <2>1. /\ ByteQueueType(byte_queue') /\ Ring(byte_queue')
        /\ Contents(byte_queue') = Queue!Pushed(Contents(byte_queue), v)
    BY <1>0, <1>6, ByteQueueWriteOK DEF WriteRaw
  <2>2. /\ Len(Contents(byte_queue)) < MaxElements
        /\ generator' = generator /\ ret' = Ok(Nothing)
    BY <1>0, <1>6 DEF WriteRaw
  <2> QED BY <1>0, <1>1, <1>3, <2>1, <2>2 DEF Queue!WriteRaw
<1>7. ASSUME NEW gen \in Value \cup {Nothing}, Read(gen)
      PROVE  Inv' /\ Queue!Read(gen)
  <2> DEFINE calls == generator /\ gen # Nothing
             q == IF calls THEN ByteQueueWrite(byte_queue, gen)
                  ELSE byte_queue
             aq == IF calls THEN Queue!Pushed(Contents(byte_queue), gen)
                   ELSE Contents(byte_queue)
  <2>1. /\ ByteQueueType(q) /\ Ring(q) /\ Contents(q) = aq
    <3>1. CASE calls
      <4>1. gen \in Value  BY <3>1
      <4> QED BY <1>0, <3>1, <4>1, ByteQueueWriteOK
    <3>2. CASE ~calls  BY <1>0, <3>2
    <3> QED BY <3>1, <3>2
  <2>2. aq \in Seq(Value) /\ Len(aq) = q.used  BY <2>1, ContentsType
  <2>3. /\ generator' = generator
        /\ \/ q.used = 0 /\ ret' = Ok(Nothing) /\ byte_queue' = q
           \/ q.used # 0 /\ ret' = Ok(ByteQueueFront(q))
              /\ byte_queue' = ByteQueueRead(q)
    BY <1>7 DEF Read
  <2> HIDE DEF q
  <2>4. CASE q.used = 0 /\ ret' = Ok(Nothing) /\ byte_queue' = q
    <3>1. aq = <<>>  BY <2>2, <2>4
    <3>2. Queue!Read(gen)
      BY <1>1, <2>1, <2>3, <2>4, <3>1 DEF Queue!Read
    <3> QED BY <1>0, <1>1, <1>3, <2>1, <2>3, <2>4, <3>2
  <2>5. CASE q.used # 0 /\ ret' = Ok(ByteQueueFront(q))
             /\ byte_queue' = ByteQueueRead(q)
    <3>1. /\ ByteQueueType(byte_queue') /\ Ring(byte_queue') /\ aq # <<>>
          /\ ByteQueueFront(q) = Head(aq) /\ ByteQueueFront(q) \in Value
          /\ Contents(byte_queue') = Queue!Popped(aq)
      BY <2>1, <2>5, ByteQueueReadOK
    <3>2. ret' \in Ret /\ ret' = Queue!Ok(Head(aq))
      BY <1>1, <2>5, <3>1
    <3>3. Queue!Read(gen)  BY <2>3, <3>1, <3>2 DEF Queue!Read
    <3> QED BY <1>0, <1>3, <2>3, <3>1, <3>2, <3>3
  <2> QED BY <2>3, <2>4, <2>5
<1>8. CASE UNCHANGED vars
  BY <1>0, <1>3, <1>8 DEF vars, Queue!vars
<1> QED BY <1>4, <1>5, <1>6, <1>7, <1>8 DEF Next, Queue!Next

\* The JIT queue's fields keep their types and its read index, write index
\* and element count always agree, through every Write, Read and Resize.
THEOREM RingInvariant == Spec => [](TypeOK /\ RingOK)
<1>1. Init => Inv  BY InitRefines
<1>2. Inv /\ [Next]_vars => Inv'  BY NextRefines
<1> QED BY <1>1, <1>2, PTL DEF Spec, Inv

\* The buffer holds values and empty slots, indices are numbers, and every
\* operation returns one of its statuses with a value or nothing.
THEOREM QueueTypes == Spec => []TypeOK
BY RingInvariant, PTL

\* No memcpy or move of the JIT queue leaves circular_buffer_.
THEOREM CopiesStayInBounds == Spec => []CopiesInBounds
<1>1. Inv => CopiesInBounds
  <2> SUFFICES ASSUME Inv PROVE CopiesInBounds  OBVIOUS
  <2> DEFINE q == byte_queue
             c == Capacity(q.bytes)
             A == AllocatedElementSize
  <2>1. /\ q.bytes \in Nat /\ q.used \in Nat /\ q.read \in Nat
        /\ q.write \in Nat
    BY DEF Inv, TypeOK, ByteQueueType
  <2>2. q.read < c /\ q.used <= c  BY DEF Inv, RingOK, Ring
  <2>3. q.write \in 0 .. c - 1
    <3>1. ByteQueueType(q) /\ Ring(q)  BY DEF Inv, TypeOK, RingOK
    <3>2. SingleValue => q.write = 0  BY <3>1 DEF Ring
    <3>3. ~SingleValue => q.write = Slot(q, q.used)  BY <3>1 DEF Ring
    <3>4. Slot(q, q.used) \in 0 .. c - 1  BY <2>1, <3>1, SlotInBuffer
    <3>5. c \in Nat  BY <2>1, CapacityDoubles
    <3> QED BY <2>1, <2>2, <3>2, <3>3, <3>4, <3>5
  <2>4. A \in Nat \ {0} /\ c \in Nat
    BY <2>1, AllocatedPositive, CapacityDoubles
  <2>5. c * A <= q.bytes
    <3> HIDE DEF A
    <3> QED BY <2>1, <2>4 DEF Capacity, A
  <2> HIDE DEF q, c, A
  <2>6. \A m \in Nat : m <= c => m * A <= c * A  BY <2>4
  <2>7. \A m \in Nat : m <= 2 * c => m * A <= (2 * c) * A  BY <2>4
  <2>8. (2 * c) * A = 2 * (c * A) /\ c * A \in Nat  BY <2>4
  <2>9. (q.read + 1) * A <= c * A /\ (q.write + 1) * A <= c * A
    BY <2>1, <2>2, <2>3, <2>4, <2>6
  <2>10. (q.used + q.read) * A <= 2 * (c * A)
    BY <2>1, <2>2, <2>4, <2>7, <2>8
  <2>11. /\ (q.read + 1) * A \in Nat /\ (q.write + 1) * A \in Nat
         /\ (q.used + q.read) * A \in Nat
    BY <2>1, <2>4
  <2>12. /\ (q.read + 1) * A <= q.bytes /\ (q.write + 1) * A <= q.bytes
         /\ (q.used + q.read) * A <= 2 * q.bytes
    BY <2>1, <2>5, <2>8, <2>9, <2>10, <2>11
  <2> QED BY <2>12 DEF CopiesInBounds, q, A
<1> QED BY <1>1, RingInvariant, PTL DEF Inv

\* A JIT queue is a ChannelQueue: the same values in the same order, with
\* the same results, for every element size and both kinds of channel.
THEOREM JitQueueImplementsChannelQueue == Spec => ImplementsChannelQueue
<1>1. Init => Inv /\ Queue!Init  BY InitRefines
<1>2. Inv /\ [Next]_vars => Inv' /\ [Queue!Next]_(Queue!vars)
  BY NextRefines
<1> QED BY <1>1, <1>2, PTL DEF Spec, ImplementsChannelQueue, Queue!Spec
=============================================================================
