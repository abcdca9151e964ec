------------------------ MODULE JitPartition_proofs ------------------------
(***************************************************************************)
(* Proofs about the compiled proc, for every proc of any number of nodes   *)
(* and every maximal partition size: the partitions and buffers satisfy    *)
(* the checks of the compiler, and however often an activation returns     *)
(* early, it calls every node function once, on values of its own.         *)
(***************************************************************************)
EXTENDS JitPartition, FiniteSetTheorems, WellFoundedInduction, TLAPS

\* Induction up to b: what holds of 0 and passes from k to k + 1 holds of 0..b.
LEMMA UpTo ==
  ASSUME NEW b \in Nat, NEW S, 0 \in S,
         \A k \in 0 .. b : k < b /\ k \in S => k + 1 \in S
  PROVE  \A k \in 0 .. b : k \in S
<1> DEFINE T == {k \in 0 .. b : k \notin S}
           R == OpToRel(<, Nat)
<1>1. IsWellFoundedOn(R, Nat)  BY NatLessThanWellFounded, Zenon
<1>2. \A p, q \in Nat : q < p => <<q, p>> \in R  BY Zenon DEF OpToRel
<1>3. T \subseteq Nat  OBVIOUS
<1> HIDE DEF R, T
<1>4. ASSUME T # {} PROVE FALSE
  <2>1. PICK m \in T : \A q \in T : <<q, m>> \notin R
    BY <1>1, <1>3, <1>4, WFMin
  <2>2. m \in 0 .. b /\ m \notin S /\ m \in Nat  BY <2>1, <1>3 DEF T
  <2>3. m # 0  BY <2>2
  <2>4. m - 1 \in 0 .. b /\ m - 1 \in Nat /\ m - 1 < m /\ m - 1 < b /\ (m - 1) + 1 = m
    BY <2>2, <2>3
  <2>5. m - 1 \notin T  BY <1>2, <2>1, <2>2, <2>4
  <2>6. m - 1 \in S  BY <2>4, <2>5 DEF T
  <2> QED BY <2>2, <2>4, <2>6
<1> QED BY <1>4 DEF T

\* A nonempty set of naturals has a least element, and Min is it.
LEMMA MinIsLeast ==
  ASSUME NEW S \in SUBSET Nat, S # {}
  PROVE  Min(S) \in S /\ \A y \in S : Min(S) <= y
<1> DEFINE R == OpToRel(<, Nat)
<1>1. IsWellFoundedOn(R, Nat)  BY NatLessThanWellFounded, Zenon
<1>2. \A p, q \in Nat : q < p => <<q, p>> \in R  BY Zenon DEF OpToRel
<1> HIDE DEF R
<1>3. PICK m \in S : \A q \in S : <<q, m>> \notin R  BY <1>1, WFMin
<1>4. \A y \in S : m <= y
  <2> SUFFICES ASSUME NEW y \in S PROVE m <= y  OBVIOUS
  <2>1. ~(y < m)  BY <1>2, <1>3
  <2> QED BY <2>1
<1> QED BY <1>3, <1>4 DEF Min

-----------------------------------------------------------------------------
(***************************************************************************)
(* Partitions.                                                             *)
(***************************************************************************)

(* The procs that are compiled: operands come before their users, and      *)
(* params and literals have none.                                          *)
ProcOK ==
  /\ proc.kind \in [Node -> Kind]
  /\ proc.operands \in [Node -> SUBSET Node]
  /\ \A n \in Node : \A x \in proc.operands[n] : x < n
  /\ \A n \in Node : IsA(n, {"param", "array_literal", "bits_literal"})
                     => proc.operands[n] = {}
  /\ proc.next \in [Param -> Node]

(* The loop over the nodes after n of them: partitions only grow, and an   *)
(* early exit is alone and behind the current partition.                   *)
AssignInv(a, n) ==
  /\ a.map \in [Node -> Nat] /\ a.current \in Nat /\ a.size \in Nat
  /\ a.current <= n
  /\ a.size # 0 => a.current < n
  /\ \A m \in 1..n : a.map[m] <= a.current
  /\ \A m \in 1..n : IsEarlyExitPoint(m) \/ a.size = 0 => a.map[m] < a.current
  /\ \A m, k \in 1..n : m <= k => a.map[m] <= a.map[k]
  /\ \A m, k \in 1..n : IsEarlyExitPoint(m) /\ a.map[m] = a.map[k] => m = k

\* The recursive definition of Assigned has a solution, so it unfolds.
LEMMA AssignedUnfolds ==
  \A n \in 0..N :
    Assigned[n] =
      IF n = 0 THEN [map |-> [m \in Node |-> 0], current |-> 0, size |-> 0]
      ELSE AssignPartition(Assigned[n - 1], n)
<1> DEFINE z == [map |-> [m \in Node |-> 0], current |-> 0, size |-> 0]
           F(f, k) == [n \in 0..k |-> IF n = 0 THEN z ELSE AssignPartition(f[n - 1], n)]
           S == {k \in 0..N : \E f : f = F(f, k)}
<1>0. N \in Nat  BY JitPartitionAssumption
<1> HIDE DEF z
<1>1. 0 \in S
  <2> DEFINE f == [n \in 0..0 |-> z]
  <2>1. f = F(f, 0)  OBVIOUS
  <2>2. 0 \in 0..N  BY <1>0
  <2> HIDE DEF f, F
  <2> QED BY <2>1, <2>2
<1>2. ASSUME NEW k \in 0..N, k < N, k \in S PROVE k + 1 \in S
  <2>1. PICK f : f = F(f, k)  BY <1>2
  <2> DEFINE g == [n \in 0..(k + 1) |->
                     IF n <= k THEN f[n] ELSE AssignPartition(f[k], k + 1)]
  <2>2. \A n \in 0..(k + 1) : g[n] = IF n = 0 THEN z ELSE AssignPartition(g[n - 1], n)
    <3> SUFFICES ASSUME NEW n \in 0..(k + 1)
                 PROVE  g[n] = IF n = 0 THEN z ELSE AssignPartition(g[n - 1], n)
      OBVIOUS
    <3>1. CASE n = 0
      <4>1. g[n] = f[0]  BY <3>1
      <4>2. f[0] = z  BY <2>1
      <4> QED BY <3>1, <4>1, <4>2
    <3>2. CASE n # 0 /\ n <= k
      <4>1. n - 1 \in 0..k /\ n \in 0..k  BY <3>2
      <4>2. g[n] = f[n] /\ g[n - 1] = f[n - 1]  BY <4>1
      <4>3. f[n] = AssignPartition(f[n - 1], n)  BY <2>1, <3>2, <4>1
      <4> QED BY <3>2, <4>2, <4>3
    <3>3. CASE n = k + 1
      <4>1. g[n] = AssignPartition(f[k], n)  BY <3>3
      <4>2. n # 0 /\ n - 1 = k /\ g[k] = f[k]  BY <3>3
      <4> QED BY <4>1, <4>2
    <3> QED BY <3>1, <3>2, <3>3
  <2>3. g = F(g, k + 1)  BY <2>2
  <2> HIDE DEF g
  <2>4. k + 1 \in 0..N  BY <1>0, <1>2
  <2> QED BY <2>3, <2>4
<1>3. N \in S
  <2> HIDE DEF S
  <2>1. \A k \in 0 .. N : k \in S  BY <1>0, <1>1, <1>2, UpTo
  <2> QED BY <1>0, <2>1
<1>4. Assigned = CHOOSE f : f = F(f, N)  BY Zenon DEF Assigned, z
<1>5. Assigned = F(Assigned, N)
  <2> HIDE DEF F
  <2>1. \E f : f = F(f, N)  BY <1>3
  <2> QED BY <1>4, <2>1, Zenon
<1> HIDE DEF F
<1>6. \A n \in 0..N : F(Assigned, N)[n] = IF n = 0 THEN z ELSE AssignPartition(Assigned[n - 1], n)
  BY DEF F
<1> QED BY <1>5, <1>6 DEF z

\* Assigning a partition to node n keeps the loop's invariant.
LEMMA AssignStep ==
  ASSUME ProcOK, NEW n \in Node, NEW a, AssignInv(a, n - 1)
  PROVE  AssignInv(AssignPartition(a, n), n)
<1>0. N \in Nat /\ MaxPartitionSize \in Nat /\ n \in Nat /\ n >= 1 /\ n <= N
  BY JitPartitionAssumption DEF Node
<1>1. /\ a.map \in [Node -> Nat] /\ a.current \in Nat /\ a.size \in Nat
      /\ a.current <= n - 1 /\ (a.size # 0 => a.current < n - 1)
  BY DEF AssignInv
<1>2. ASSUME NEW p \in Nat, NEW c \in Nat, NEW s \in Nat,
             IF IsEarlyExitPoint(n)
               THEN p = (IF a.size # 0 THEN a.current + 1 ELSE a.current)
               ELSE p = a.current,
             IF IsEarlyExitPoint(n) \/ a.size + 1 > MaxPartitionSize
               THEN c = p + 1 /\ s = 0 ELSE c = p /\ s = a.size + 1
      PROVE  AssignInv([map |-> [a.map EXCEPT ![n] = p], current |-> c, size |-> s], n)
  <2> DEFINE b == [map |-> [a.map EXCEPT ![n] = p], current |-> c, size |-> s]
  <2>1. b.map = [a.map EXCEPT ![n] = p] /\ b.current = c /\ b.size = s  OBVIOUS
  <2> HIDE DEF b
  <2>2. /\ b.map \in [Node -> Nat] /\ b.map[n] = p
        /\ \A m \in 1..(n - 1) : b.map[m] = a.map[m] /\ a.map[m] \in Nat
    BY <1>0, <1>1, <2>1 DEF Node
  <2>3. \A m \in 1..n : m \in 1..(n - 1) \/ m = n  BY <1>0
  <2>4. \A m \in 1..(n - 1) : /\ a.map[m] <= a.current
                              /\ IsEarlyExitPoint(m) \/ a.size = 0
                                 => a.map[m] < a.current
    BY DEF AssignInv
  <2>5. /\ p <= c /\ c <= n /\ (s # 0 => c < n)
        /\ IsEarlyExitPoint(n) \/ s = 0 => p < c
        /\ a.current <= p
        /\ IsEarlyExitPoint(n) => a.size = 0 \/ a.current < p
    BY <1>0, <1>1, <1>2
  <2>6. \A m \in 1..(n - 1) : /\ a.map[m] <= p
                              /\ IsEarlyExitPoint(m) \/ IsEarlyExitPoint(n)
                                 => a.map[m] < p
    BY <1>1, <2>2, <2>4, <2>5
  <2>7. \A m \in 1..n : b.map[m] <= b.current
    BY <2>1, <2>2, <2>3, <2>5, <2>6
  <2>8. \A m \in 1..n : IsEarlyExitPoint(m) \/ b.size = 0 => b.map[m] < b.current
    BY <2>1, <2>2, <2>3, <2>5, <2>6
  <2>9. \A m, k \in 1..n : m <= k => b.map[m] <= b.map[k]
    <3> SUFFICES ASSUME NEW m \in 1..n, NEW k \in 1..n, m <= k
                 PROVE  b.map[m] <= b.map[k]
      OBVIOUS
    <3>1. CASE k = n  BY <2>2, <2>3, <2>6, <3>1
    <3>2. CASE k # n
      <4>1. m \in 1..(n - 1) /\ k \in 1..(n - 1)  BY <1>0, <3>2
      <4> QED BY <2>2, <4>1 DEF AssignInv
    <3> QED BY <3>1, <3>2
  <2>10. \A m, k \in 1..n : IsEarlyExitPoint(m) /\ b.map[m] = b.map[k] => m = k
    <3> SUFFICES ASSUME NEW m \in 1..n, NEW k \in 1..n,
                        IsEarlyExitPoint(m), b.map[m] = b.map[k], m # k
                 PROVE  FALSE
      OBVIOUS
    <3>1. CASE k = n  BY <2>2, <2>3, <2>6, <3>1
    <3>2. CASE m = n  BY <2>2, <2>3, <2>6, <3>2
    <3>3. CASE m \in 1..(n - 1) /\ k \in 1..(n - 1)
      BY <2>2, <3>3 DEF AssignInv
    <3> QED BY <2>3, <3>1, <3>2, <3>3
  <2> QED BY <2>1, <2>2, <2>5, <2>7, <2>8, <2>9, <2>10 DEF AssignInv, b
<1>3. CASE IsEarlyExitPoint(n)
  <2> DEFINE p == IF a.size # 0 THEN a.current + 1 ELSE a.current
  <2>1. AssignPartition(a, n) =
          [map |-> [a.map EXCEPT ![n] = p], current |-> p + 1, size |-> 0]
    BY <1>3 DEF AssignPartition
  <2>2. p \in Nat /\ p + 1 \in Nat  BY <1>1
  <2>3. AssignInv([map |-> [a.map EXCEPT ![n] = p], current |-> p + 1, size |-> 0], n)
    BY <1>2, <1>3, <2>2
  <2> QED BY <2>1, <2>3
<1>4. CASE ~IsEarlyExitPoint(n) /\ a.size + 1 > MaxPartitionSize
  <2>1. AssignPartition(a, n) =
          [map |-> [a.map EXCEPT ![n] = a.current], current |-> a.current + 1, size |-> 0]
    BY <1>4 DEF AssignPartition
  <2>2. AssignInv([map |-> [a.map EXCEPT ![n] = a.current],
                   current |-> a.current + 1, size |-> 0], n)
    BY <1>1, <1>2, <1>4
  <2> QED BY <2>1, <2>2
<1>5. CASE ~IsEarlyExitPoint(n) /\ ~(a.size + 1 > MaxPartitionSize)
  <2>1. AssignPartition(a, n) =
          [map |-> [a.map EXCEPT ![n] = a.current], current |-> a.current, size |-> a.size + 1]
    BY <1>5 DEF AssignPartition
  <2>2. AssignInv([map |-> [a.map EXCEPT ![n] = a.current],
                   current |-> a.current, size |-> a.size + 1], n)
    BY <1>1, <1>2, <1>5
  <2> QED BY <2>1, <2>2
<1> QED BY <1>3, <1>4, <1>5

\* After the loop its invariant holds of all nodes.
LEMMA AssignedAll ==
  ASSUME ProcOK
  PROVE  AssignInv(Assigned[N], N)
<1> DEFINE S == {k \in 0..N : AssignInv(Assigned[k], k)}
<1>0. N \in Nat  BY JitPartitionAssumption
<1>1. 0 \in S
  <2> DEFINE z == [map |-> [m \in Node |-> 0], current |-> 0, size |-> 0]
  <2>1. Assigned[0] = z  BY <1>0, AssignedUnfolds
  <2>2. z.map = [m \in Node |-> 0] /\ z.current = 0 /\ z.size = 0  OBVIOUS
  <2> HIDE DEF z
  <2>3. AssignInv(z, 0)  BY <2>2 DEF AssignInv
  <2> QED BY <1>0, <2>1, <2>3
<1>2. ASSUME NEW k \in 0..N, k < N, k \in S PROVE k + 1 \in S
  <2>1. k + 1 \in 0..N /\ k + 1 \in Node /\ k + 1 # 0 /\ (k + 1) - 1 = k
    BY <1>0, <1>2 DEF Node
  <2>2. Assigned[k + 1] = AssignPartition(Assigned[k], k + 1)
    BY <2>1, AssignedUnfolds
  <2>3. AssignInv(Assigned[k], (k + 1) - 1)  BY <1>2, <2>1
  <2>4. AssignInv(AssignPartition(Assigned[k], k + 1), k + 1)
    BY <2>1, <2>3, AssignStep
  <2> QED BY <2>1, <2>2, <2>4
<1> HIDE DEF S
<1>3. \A k \in 0 .. N : k \in S  BY <1>0, <1>1, <1>2, UpTo
<1> QED BY <1>0, <1>3 DEF S

(* What the rest of the compiler relies on: the partitions are numbered    *)
(* from 0 to last, no node is before its operands, and an early exit is    *)
(* alone and not last, so that execution can resume after it.              *)
PartitionOK(ps) ==
  /\ ps.map \in [Node -> 0..N] /\ ps.last \in 0..N
  /\ \A n \in Node : ps.map[n] <= ps.last
  /\ \A n \in Node : \A x \in proc.operands[n] : ps.map[x] <= ps.map[n]
  /\ \A n \in Node : IsEarlyExitPoint(n) => ps.map[n] < ps.last
  /\ \A n, m \in Node : IsEarlyExitPoint(n) /\ ps.map[n] = ps.map[m] => n = m

\* PartitionFunctionBase divides every proc in that way, moved literals included.
LEMMA PartitionsAreOK ==
  ASSUME ProcOK
  PROVE  PartitionOK(PartitionFunctionBase)
<1> DEFINE a  == Assigned[N]
           L  == {"array_literal", "bits_literal"}
           ps == [map  |-> [n \in Node |-> IF IsA(n, L) THEN LiteralPartition(n, a.map)
                                           ELSE a.map[n]],
                  last |-> a.current]
<1>0. N \in Nat /\ Node = 1..N  BY JitPartitionAssumption DEF Node
<1>1. AssignInv(a, N)  BY AssignedAll
<1>2. PartitionFunctionBase = ps  BY DEF PartitionFunctionBase
<1> HIDE DEF a
<1>3. /\ ps.map = [n \in Node |-> IF IsA(n, L) THEN LiteralPartition(n, a.map)
                                  ELSE a.map[n]]
      /\ ps.last = a.current
  OBVIOUS
<1> HIDE DEF ps
<1>4. /\ a.map \in [Node -> Nat] /\ a.current \in Nat /\ a.current <= N
      /\ \A m \in Node : a.map[m] <= a.current
      /\ \A m \in Node : IsEarlyExitPoint(m) => a.map[m] < a.current
      /\ \A m, k \in Node : m <= k => a.map[m] <= a.map[k]
      /\ \A m, k \in Node : IsEarlyExitPoint(m) /\ a.map[m] = a.map[k] => m = k
  BY <1>0, <1>1 DEF AssignInv
<1>5. ASSUME NEW n \in Node, ~IsA(n, L) PROVE ps.map[n] = a.map[n]
  BY <1>3, <1>5
<1>6. \A n \in Node : IsEarlyExitPoint(n) => ~IsA(n, L)
  BY DEF IsEarlyExitPoint, IsA
<1>7. \A n \in Node : \A x \in proc.operands[n] : ~IsA(n, L) /\ x \in Node /\ x <= n
  BY <1>0 DEF ProcOK, IsA
\* A literal joins a partition of some node, at its first user or before,
\* which is no early exit partition.
<1>8. ASSUME NEW n \in Node, IsA(n, L)
      PROVE  /\ \E m \in Node : ps.map[n] = a.map[m]
             /\ \A u \in Node : n \in proc.operands[u] => ps.map[n] <= a.map[u]
             /\ \A m \in Node : IsEarlyExitPoint(m) => ps.map[n] # a.map[m]
  <2> DEFINE U == {a.map[u] : u \in Users(n)}
  <2>1. ps.map[n] = LiteralPartition(n, a.map)  BY <1>3, <1>8
  <2>2. /\ \A u \in Node : n \in proc.operands[u] => a.map[n] <= a.map[u]
        /\ \A m \in Node : IsEarlyExitPoint(m) => a.map[n] # a.map[m]
    BY <1>4, <1>6, <1>7, <1>8
  <2>3. CASE ps.map[n] = a.map[n]  BY <2>2, <2>3
  <2>4. CASE ps.map[n] # a.map[n]
    <3>1. /\ Users(n) # {}
          /\ ~\E m \in Node : IsEarlyExitPoint(m) /\ a.map[m] = Min(U)
          /\ ps.map[n] = Min(U)
      BY <2>1, <2>4 DEF LiteralPartition
    <3>2. U \in SUBSET Nat /\ U # {}  BY <1>4, <3>1 DEF Users
    <3> DEFINE least == Min(U)
    <3>3. least \in U /\ \A y \in U : least <= y  BY <3>2, MinIsLeast
    <3> HIDE DEF least
    <3>4. \A u \in Node : n \in proc.operands[u] => least <= a.map[u]
      BY <3>3 DEF Users
    <3>5. \E m \in Node : least = a.map[m]  BY <3>3 DEF Users
    <3> QED BY <3>1, <3>4, <3>5 DEF least
  <2> QED BY <2>3, <2>4
<1>9. \A n \in Node : \E m \in Node : ps.map[n] = a.map[m]
  BY <1>5, <1>8
<1>10. /\ ps.map \in [Node -> 0..N] /\ ps.last \in 0..N
       /\ \A n \in Node : ps.map[n] <= ps.last
  <2>1. \A n \in Node : ps.map[n] \in 0..N /\ ps.map[n] <= ps.last
    <3> SUFFICES ASSUME NEW n \in Node PROVE ps.map[n] \in 0..N /\ ps.map[n] <= ps.last
      OBVIOUS
    <3>1. PICK m \in Node : ps.map[n] = a.map[m]  BY <1>9
    <3>2. a.map[m] \in Nat /\ a.map[m] <= a.current  BY <1>4
    <3>3. ps.last = a.current  BY <1>3
    <3> QED BY <1>0, <1>4, <3>1, <3>2, <3>3
  <2>2. ps.map = [n \in Node |-> ps.map[n]]  BY <1>3
  <2> HIDE DEF L
  <2> QED BY <1>0, <1>3, <1>4, <2>1, <2>2
<1>11. \A n \in Node : \A x \in proc.operands[n] : ps.map[x] <= ps.map[n]
  <2> SUFFICES ASSUME NEW n \in Node, NEW x \in proc.operands[n]
               PROVE  ps.map[x] <= ps.map[n]
    OBVIOUS
  <2>1. ~IsA(n, L) /\ x \in Node /\ x <= n  BY <1>7
  <2>2. CASE IsA(x, L)  BY <1>5, <1>8, <2>1, <2>2
  <2>3. CASE ~IsA(x, L)  BY <1>4, <1>5, <2>1, <2>3
  <2> QED BY <2>2, <2>3
<1>12. \A n \in Node : IsEarlyExitPoint(n) => ps.map[n] < ps.last
  BY <1>3, <1>4, <1>5, <1>6
<1>13. \A n, m \in Node : IsEarlyExitPoint(n) /\ ps.map[n] = ps.map[m] => n = m
  <2> SUFFICES ASSUME NEW n \in Node, NEW m \in Node,
                      IsEarlyExitPoint(n), ps.map[n] = ps.map[m]
               PROVE  n = m
    OBVIOUS
  <2>1. ps.map[n] = a.map[n]  BY <1>5, <1>6
  <2>2. ~IsA(m, L)  BY <1>8, <2>1
  <2> QED BY <1>4, <1>5, <2>1, <2>2
<1> QED BY <1>2, <1>10, <1>11, <1>12, <1>13 DEF PartitionOK

(* The buffers of the nodes are those AllocateBuffers chose. *)
AllocOK(ps, alloc) == alloc = [n \in Node |-> AllocateBuffer(n, ps)]

\* No XLS_RET_CHECK of BuildPartitionFunction fails on these partitions.
LEMMA BuildChecksPass ==
  ASSUME ProcOK, NEW ps, PartitionOK(ps), NEW alloc, AllocOK(ps, alloc)
  PROVE  BuildChecks(ps, alloc)
<1>1. ASSUME NEW n \in Node, NEW x \in Node, x \in proc.operands[n],
             ~ShouldMaterializeAtUse(x), ps.map[x] # ps.map[n],
             ~IsInputNode(x), ~IsOutputNode(x)
      PROVE  alloc[x] = "kTempBlock"
  <2>1. n \in Users(x)  BY <1>1 DEF Users
  <2> QED BY <1>1, <2>1 DEF AllocOK, AllocateBuffer
<1>2. \A n, m \in Node : IsEarlyExitPoint(n) /\ ps.map[n] = ps.map[m] => n = m
  BY DEF PartitionOK
<1> QED BY <1>1, <1>2 DEF BuildChecks

-----------------------------------------------------------------------------
(***************************************************************************)
(* Early exits.                                                            *)
(***************************************************************************)

CodeOK == PartitionOK(code) /\ AllocOK(code, code.alloc)

\* The node of an early exit partition is the exit, and it is alone.
LEMMA ExitNodes ==
  ASSUME ProcOK, CodeOK, NEW p \in ExitPartitions
  PROVE  /\ ExitNode(p) \in Node /\ IsEarlyExitPoint(ExitNode(p))
         /\ \A n \in Node : code.map[n] = p <=> n = ExitNode(p)
         /\ p \in Nat /\ p < code.last
<1>1. PICK n \in Node : IsEarlyExitPoint(n) /\ code.map[n] = p
  BY DEF ExitPartitions
<1>2. ExitNode(p) \in Node /\ code.map[ExitNode(p)] = p
  BY <1>1 DEF ExitNode
<1>3. \A m \in Node : code.map[m] = p => m = n
  BY <1>1 DEF CodeOK, PartitionOK
<1>4. p \in Nat /\ p < code.last
  BY <1>1 DEF CodeOK, PartitionOK
<1> QED BY <1>1, <1>2, <1>3, <1>4

\* Early exit points are numbered from 1 in the order of their partitions.
LEMMA ExitIds ==
  ASSUME ProcOK, CodeOK
  PROVE  /\ Cardinality(ExitPartitions) \in Nat
         /\ \A p \in ExitPartitions : ExitId(p) \in 1..Cardinality(ExitPartitions)
         /\ \A p, q \in ExitPartitions : p < q => ExitId(p) < ExitId(q)
<1> DEFINE E == ExitPartitions
           Below(p) == {q \in E : q <= p}
<1>0. N \in Nat  BY JitPartitionAssumption
<1>1. E \subseteq 0..N  BY DEF ExitPartitions, CodeOK, PartitionOK
<1>2. IsFiniteSet(E)
  <2>1. IsFiniteSet(0..N)  BY <1>0, FS_Interval
  <2> QED BY <1>1, <2>1, FS_Subset
<1>3. Cardinality(E) \in Nat  BY <1>2, FS_CardinalityType
<1> HIDE DEF E
<1>4. ASSUME NEW p \in E
      PROVE  /\ IsFiniteSet(Below(p)) /\ Cardinality(Below(p)) \in Nat
             /\ Cardinality(Below(p)) <= Cardinality(E)
             /\ Cardinality(Below(p)) # 0
  <2>1. Below(p) \subseteq E /\ p \in Below(p)  BY <1>0, <1>1
  <2> HIDE DEF Below
  <2>2. IsFiniteSet(Below(p)) /\ Cardinality(Below(p)) <= Cardinality(E)
    BY <1>2, <2>1, FS_Subset
  <2>3. Cardinality(Below(p)) \in Nat  BY <2>2, FS_CardinalityType
  <2>4. Cardinality(Below(p)) # 0  BY <2>1, <2>2, FS_EmptySet
  <2> QED BY <2>2, <2>3, <2>4
<1>5. ASSUME NEW p \in E, NEW q \in E, p < q
      PROVE  Cardinality(Below(p)) < Cardinality(Below(q))
  <2>0. \A r \in E : r \in Nat  BY <1>0, <1>1
  <2>1. Below(p) \subseteq Below(q)
    <3>1. \A r \in E : r <= p => r <= q  BY <2>0, <1>5
    <3> QED BY <3>1
  <2>2. q \in Below(q) /\ q \notin Below(p)  BY <1>0, <1>1, <1>5
  <2>3. Below(p) # Below(q)  BY <2>2
  <2>4. IsFiniteSet(Below(q)) /\ Cardinality(Below(q)) \in Nat /\ Cardinality(Below(p)) \in Nat
    BY <1>4
  <2> HIDE DEF Below
  <2>5. Cardinality(Below(p)) <= Cardinality(Below(q))
        /\ (Cardinality(Below(p)) = Cardinality(Below(q)) => Below(p) = Below(q))
    BY <2>1, <2>4, FS_Subset
  <2> QED BY <2>3, <2>4, <2>5
<1>6. \A p \in E : ExitId(p) = Cardinality(Below(p))
  BY DEF ExitId, E
<1> HIDE DEF Below
<1>7. \A p \in E : ExitId(p) \in 1..Cardinality(E)  BY <1>3, <1>4, <1>6
<1>8. \A p, q \in E : p < q => ExitId(p) < ExitId(q)  BY <1>5, <1>6
<1> QED BY <1>3, <1>7, <1>8 DEF E

\* Different resume points have different numbers.
LEMMA ResumeIds ==
  ASSUME ProcOK, CodeOK
  PROVE  \A p, q \in ResumePartitions : ResumeId(p) = ResumeId(q) => p = q
<1> DEFINE R == ResumePartitions
           Less(p) == {q \in R : q < p}
<1>0. N \in Nat /\ code.last \in 0..N  BY JitPartitionAssumption DEF CodeOK, PartitionOK
<1>1. R \subseteq 0..N
  <2> SUFFICES ASSUME NEW p \in ExitPartitions PROVE ResumePartition(p) \in 0..N
    BY DEF ResumePartitions
  <2>1. p \in Nat /\ p < code.last  BY ExitNodes
  <2> QED BY <1>0, <2>1 DEF ResumePartition
<1>2. IsFiniteSet(R)
  <2>1. IsFiniteSet(0..N)  BY <1>0, FS_Interval
  <2> QED BY <1>1, <2>1, FS_Subset
<1> HIDE DEF R
<1>3. ASSUME NEW p \in R
      PROVE  IsFiniteSet(Less(p)) /\ Cardinality(Less(p)) \in Nat
  <2>1. Less(p) \subseteq R  OBVIOUS
  <2> HIDE DEF Less
  <2> QED BY <1>2, <2>1, FS_Subset, FS_CardinalityType
<1>4. ASSUME NEW p \in R, NEW q \in R, p < q
      PROVE  Cardinality(Less(p)) < Cardinality(Less(q))
  <2>0. \A r \in R : r \in Nat  BY <1>0, <1>1
  <2>1. Less(p) \subseteq Less(q)
    <3>1. \A r \in R : r < p => r < q  BY <2>0, <1>4
    <3> QED BY <3>1
  <2>2. p \in Less(q) /\ p \notin Less(p)  BY <2>0, <1>4
  <2>3. Less(p) # Less(q)  BY <2>2
  <2>4. IsFiniteSet(Less(q)) /\ Cardinality(Less(q)) \in Nat /\ Cardinality(Less(p)) \in Nat
    BY <1>3
  <2> HIDE DEF Less
  <2>5. Cardinality(Less(p)) <= Cardinality(Less(q))
        /\ (Cardinality(Less(p)) = Cardinality(Less(q)) => Less(p) = Less(q))
    BY <2>1, <2>4, FS_Subset
  <2> QED BY <2>3, <2>4, <2>5
<1>5. \A p \in R : ResumeId(p) = Cardinality(Less(p))
  BY DEF ResumeId, R
<1> HIDE DEF Less
<1>6. SUFFICES ASSUME NEW p \in R, NEW q \in R, ResumeId(p) = ResumeId(q), p # q
               PROVE  FALSE
  BY DEF R
<1>7. p \in Nat /\ q \in Nat  BY <1>0, <1>1
<1>8. p < q \/ q < p  BY <1>6, <1>7
<1> QED BY <1>3, <1>4, <1>5, <1>6, <1>8

\* A send is resumed after its partition, a receive at it.
LEMMA Resumes ==
  ASSUME ProcOK, CodeOK, NEW p \in ExitPartitions
  PROVE  /\ ResumeAt(0) = 0
         /\ ExitId(p) # 0
         /\ ResumeAt(ExitId(p)) = IF IsA(ExitNode(p), {"send"}) THEN p + 1 ELSE p
         /\ \A q \in ExitPartitions : ExitId(q) = ExitId(p) => q = p
<1>1. \A q \in ExitPartitions : ExitId(q) = ExitId(p) => q = p
  <2> SUFFICES ASSUME NEW q \in ExitPartitions, ExitId(q) = ExitId(p), q # p
               PROVE  FALSE
    OBVIOUS
  <2>1. q \in Nat /\ p \in Nat  BY ExitNodes
  <2>2. ExitId(p) \in Nat /\ ExitId(q) \in Nat  BY ExitIds
  <2>3. p < q \/ q < p  BY <2>1
  <2> QED BY <2>2, <2>3, ExitIds
<1>2. ExitId(p) # 0  BY ExitIds
<1>3. (CHOOSE q \in ExitPartitions : ExitId(q) = ExitId(p)) = p
  BY <1>1
<1>4. PICK r : r = ResumePartition(p)  OBVIOUS
<1>5. r \in ResumePartitions  BY <1>4 DEF ResumePartitions
<1>6. ResumeBlock(ResumeId(r)) = r
  BY <1>5, ResumeIds DEF ResumeBlock
<1>7. ResumeAt(ExitId(p)) = r  BY <1>2, <1>3, <1>4, <1>6 DEF ResumeAt
<1> QED BY <1>1, <1>2, <1>4, <1>7
        DEF ResumeAt, ResumePartition, ExecutionContinuesAfterNode

-----------------------------------------------------------------------------
(***************************************************************************)
(* Node functions.                                                         *)
(***************************************************************************)

InputsCurrent == input \in [Param -> Age] /\ \A p \in Param : input[p] = "now"

(* When partition p is being executed up to node k, n is behind. *)
Behind(n, p, k) == code.map[n] < p \/ (code.map[n] = p /\ n <= k)

(* The memory then: the nodes behind, and only they, have been computed    *)
(* once and from current values, and their buffers have current values,    *)
(* those on the stack as long as the partition lasts.                      *)
MemoryOK(m, p, k) ==
  /\ m = [output |-> m.output, temp |-> m.temp, stack |-> m.stack, computed |-> m.computed]
  /\ m.output \in [Param -> Age] /\ m.temp \in [Node -> Age] /\ m.stack \in [Node -> Age]
  /\ m.computed = [n \in Node |-> IF Emitted(n) /\ Behind(n, p, k) THEN <<"now">> ELSE <<>>]
  /\ \A q \in Param : Behind(proc.next[q], p, k) => m.output[q] = "now"
  /\ \A n \in Node : code.alloc[n] = "kTempBlock" /\ Behind(n, p, k) => m.temp[n] = "now"
  /\ \A n \in Node : code.alloc[n] = "kAlloca" /\ code.map[n] = p /\ n <= k
                     => m.stack[n] = "now"

\* Every operand of the node to be called is in a buffer with a current value.
LEMMA LoadsAreCurrent ==
  ASSUME ProcOK, CodeOK, InputsCurrent, NEW m, NEW n \in Node,
         MemoryOK(m, code.map[n], n - 1), NEW x \in proc.operands[n]
  PROVE  Load(m, x) = "now"
<1>0. N \in Nat /\ n \in Nat  BY JitPartitionAssumption DEF Node
<1>1. x \in Node /\ x < n /\ code.map[x] <= code.map[n]
  BY DEF ProcOK, CodeOK, PartitionOK
<1>2. code.map[x] \in Nat /\ code.map[n] \in Nat /\ x \in Nat
  BY <1>0, <1>1 DEF CodeOK, PartitionOK, Node
<1>3. Behind(x, code.map[n], n - 1)  BY <1>0, <1>1, <1>2 DEF Behind
<1>4. code.alloc[x] = AllocateBuffer(x, code)  BY <1>1 DEF CodeOK, AllocOK
<1>5. CASE ShouldMaterializeAtUse(x)  BY <1>5 DEF Load
<1>6. CASE ~ShouldMaterializeAtUse(x) /\ IsInputNode(x)
  <2>1. input[x] = "now"  BY <1>6 DEF InputsCurrent, IsInputNode
  <2> QED BY <1>6, <2>1 DEF Load
<1>7. CASE ~ShouldMaterializeAtUse(x) /\ ~IsInputNode(x) /\ IsOutputNode(x)
  <2> DEFINE Q == {p \in Param : proc.next[p] = x}
             q == Min(Q)
  <2>1. Q \in SUBSET Nat /\ Q # {}
    BY <1>0, <1>7 DEF IsOutputNode, Param, Node
  <2>2. q \in Q  BY <2>1, MinIsLeast
  <2>3. m.output[q] = "now"
    <3> HIDE DEF q
    <3>1. q \in Param /\ proc.next[q] = x  BY <2>2
    <3> QED BY <1>3, <3>1 DEF MemoryOK
  <2>4. Load(m, x) = m.output[q]
    BY <1>7 DEF Load
  <2> QED BY <2>3, <2>4
<1>8. CASE ~ShouldMaterializeAtUse(x) /\ ~IsInputNode(x) /\ ~IsOutputNode(x)
  <2>1. CASE \A u \in Users(x) : code.map[u] = code.map[x]
    <3>1. code.alloc[x] = "kAlloca"  BY <1>4, <1>8, <2>1 DEF AllocateBuffer
    <3>2. n \in Users(x)  BY DEF Users
    <3>3. code.map[x] = code.map[n] /\ x <= n - 1  BY <1>0, <1>1, <1>2, <2>1, <3>2
    <3>4. m.stack[x] = "now"  BY <1>1, <3>1, <3>3 DEF MemoryOK
    <3> QED BY <1>8, <3>1, <3>4 DEF Load
  <2>2. CASE ~\A u \in Users(x) : code.map[u] = code.map[x]
    <3>1. code.alloc[x] = "kTempBlock"  BY <1>4, <1>8, <2>2 DEF AllocateBuffer
    <3>2. m.temp[x] = "now"  BY <1>1, <1>3, <3>1 DEF MemoryOK
    <3> QED BY <1>8, <3>1, <3>2 DEF Load
  <2> QED BY <2>1, <2>2
<1> QED BY <1>5, <1>6, <1>7, <1>8

\* Calling the next node of the partition puts it behind.
LEMMA CallNodeStep ==
  ASSUME ProcOK, CodeOK, InputsCurrent, NEW m, NEW n \in Node,
         MemoryOK(m, code.map[n], n - 1)
  PROVE  MemoryOK(CallNode(m, n), code.map[n], n)
<1> DEFINE p == code.map[n]
           c == CallNode(m, n)
<1>0. N \in Nat /\ n \in Nat /\ p \in Nat
  BY JitPartitionAssumption DEF Node, CodeOK, PartitionOK
<1>1. \A x \in Node : /\ Behind(x, p, n) <=> Behind(x, p, n - 1) \/ x = n
                      /\ code.map[x] = p /\ x <= n <=> code.map[x] = p /\ (x <= n - 1 \/ x = n)
                      /\ x = n => ~Behind(x, p, n - 1)
  <2> SUFFICES ASSUME NEW x \in Node
               PROVE  /\ Behind(x, p, n) <=> Behind(x, p, n - 1) \/ x = n
                      /\ code.map[x] = p /\ x <= n <=> code.map[x] = p /\ (x <= n - 1 \/ x = n)
                      /\ x = n => ~Behind(x, p, n - 1)
    OBVIOUS
  <2>1. x \in Nat /\ code.map[x] \in Nat
    BY <1>0 DEF Node, CodeOK, PartitionOK
  <2>2. x <= n <=> x <= n - 1 \/ x = n  BY <1>0, <2>1
  <2>3. x = n => ~(x <= n - 1) /\ ~(code.map[x] < p)  BY <1>0
  <2> QED BY <2>2, <2>3 DEF Behind
<1>2. \A x \in Node : Emitted(x) => code.alloc[x] \in {"kNone", "kAlloca", "kTempBlock"}
  BY DEF CodeOK, AllocOK, AllocateBuffer
<1>3. /\ m.output \in [Param -> Age] /\ m.temp \in [Node -> Age] /\ m.stack \in [Node -> Age]
      /\ m.computed = [x \in Node |-> IF Emitted(x) /\ Behind(x, p, n - 1)
                                        THEN <<"now">> ELSE <<>>]
      /\ \A q \in Param : Behind(proc.next[q], p, n - 1) => m.output[q] = "now"
      /\ \A x \in Node : code.alloc[x] = "kTempBlock" /\ Behind(x, p, n - 1) => m.temp[x] = "now"
      /\ \A x \in Node : code.alloc[x] = "kAlloca" /\ code.map[x] = p /\ x <= n - 1
                         => m.stack[x] = "now"
  BY DEF MemoryOK
<1>4. \A q \in Param : proc.next[q] \in Node  BY DEF ProcOK
<1>5. ASSUME NEW age \in Age, age = "now"
      PROVE  /\ Outputs(m, n, age) \in [Param -> Age]
             /\ \A q \in Param : Behind(proc.next[q], p, n) => Outputs(m, n, age)[q] = "now"
  BY <1>1, <1>3, <1>4, <1>5 DEF Outputs
<1>6. CASE IsInputNode(n)
  <2> DEFINE o == Outputs(m, n, input[n])
  <2>1. input[n] \in Age /\ input[n] = "now"  BY <1>6 DEF IsInputNode, InputsCurrent
  <2>2. o \in [Param -> Age] /\ \A q \in Param : Behind(proc.next[q], p, n) => o[q] = "now"
    BY <1>5, <2>1
  <2>3. c = [m EXCEPT !.output = o]  BY <1>6 DEF CallNode
  <2>4. ~Emitted(n) /\ code.alloc[n] = "kNone"
    BY <1>6 DEF Emitted, CodeOK, AllocOK, AllocateBuffer
  <2> HIDE DEF o, c, p
  <2> SUFFICES MemoryOK(c, p, n)  BY DEF c, p
  <2>5. c.output = o /\ c.temp = m.temp /\ c.stack = m.stack /\ c.computed = m.computed
    BY <2>3 DEF MemoryOK
  <2>6. c = [output |-> c.output, temp |-> c.temp, stack |-> c.stack, computed |-> c.computed]
    <3>1. m = [output |-> m.output, temp |-> m.temp, stack |-> m.stack, computed |-> m.computed]
      BY DEF MemoryOK
    <3>2. c = [output |-> o, temp |-> m.temp, stack |-> m.stack, computed |-> m.computed]
      BY <2>3, <3>1
    <3> QED BY <3>2
  <2> QED BY <1>1, <1>3, <2>2, <2>4, <2>5, <2>6 DEF MemoryOK
<1>7. CASE ~IsInputNode(n) /\ ~Emitted(n)
  <2>1. c = m  BY <1>7 DEF CallNode
  <2>2. /\ ~IsOutputNode(n) /\ ShouldMaterializeAtUse(n)  BY <1>7 DEF Emitted
  <2>3. code.alloc[n] = "kNone" /\ \A q \in Param : proc.next[q] # n
    BY <2>2 DEF CodeOK, AllocOK, AllocateBuffer, IsOutputNode
  <2> HIDE DEF c, p
  <2> SUFFICES MemoryOK(c, p, n)  BY DEF c, p
  <2> QED BY <1>1, <1>3, <1>4, <1>7, <2>1, <2>3 DEF MemoryOK
<1>8. CASE ~IsInputNode(n) /\ Emitted(n)
  <2> DEFINE o == Outputs(m, n, "now")
  <2>1. \A x \in proc.operands[n] : Load(m, x) = "now"  BY LoadsAreCurrent
  <2>2. c = [output   |-> o,
             temp     |-> IF code.alloc[n] = "kTempBlock"
                            THEN [m.temp EXCEPT ![n] = "now"] ELSE m.temp,
             stack    |-> IF code.alloc[n] = "kAlloca"
                            THEN [m.stack EXCEPT ![n] = "now"] ELSE m.stack,
             computed |-> [m.computed EXCEPT ![n] = Append(@, "now")]]
    BY <1>8, <2>1 DEF CallNode
  <2>3. o \in [Param -> Age] /\ \A q \in Param : Behind(proc.next[q], p, n) => o[q] = "now"
    BY <1>5 DEF Age
  <2> HIDE DEF o, c, p
  <2> SUFFICES MemoryOK(c, p, n)  BY DEF c, p
  <2>4. /\ c.output = o
        /\ c.temp = IF code.alloc[n] = "kTempBlock"
                      THEN [m.temp EXCEPT ![n] = "now"] ELSE m.temp
        /\ c.stack = IF code.alloc[n] = "kAlloca"
                       THEN [m.stack EXCEPT ![n] = "now"] ELSE m.stack
        /\ c.computed = [m.computed EXCEPT ![n] = Append(@, "now")]
    BY <2>2
  <2>5. /\ c.temp \in [Node -> Age]
        /\ \A x \in Node : code.alloc[x] = "kTempBlock" /\ Behind(x, p, n) => c.temp[x] = "now"
    BY <1>1, <1>3, <2>4 DEF Age
  <2>6. /\ c.stack \in [Node -> Age]
        /\ \A x \in Node : code.alloc[x] = "kAlloca" /\ code.map[x] = p /\ x <= n
                           => c.stack[x] = "now"
    BY <1>1, <1>3, <2>4 DEF Age
  <2>7. c.computed = [x \in Node |-> IF Emitted(x) /\ Behind(x, p, n) THEN <<"now">> ELSE <<>>]
    <3>1. m.computed[n] = <<>>  BY <1>1, <1>3
    <3>2. Append(m.computed[n], "now") = <<"now">>  BY <3>1
    <3>3. c.computed = [m.computed EXCEPT ![n] = <<"now">>]  BY <2>4, <3>2
    <3> QED BY <1>1, <1>3, <1>8, <3>3
  <2>8. c = [output |-> c.output, temp |-> c.temp, stack |-> c.stack, computed |-> c.computed]
    BY <2>2
  <2> QED BY <2>3, <2>4, <2>5, <2>6, <2>7, <2>8 DEF MemoryOK
<1> QED BY <1>6, <1>7, <1>8

\* The recursive definition of Called has a solution, so it unfolds.
LEMMA CalledUnfolds ==
  \A n \in 0..N :
    Called[n] =
      IF n = 0 THEN Memory
      ELSE IF code.map[n] = pc THEN CallNode(Called[n - 1], n) ELSE Called[n - 1]
<1> DEFINE step(m, n) == IF code.map[n] = pc THEN CallNode(m, n) ELSE m
           F(f, k) == [n \in 0..k |-> IF n = 0 THEN Memory ELSE step(f[n - 1], n)]
           S == {k \in 0..N : \E f : f = F(f, k)}
<1>0. N \in Nat  BY JitPartitionAssumption
<1> HIDE DEF step
<1>1. 0 \in S
  <2> DEFINE f == [n \in 0..0 |-> Memory]
  <2>1. f = F(f, 0)  OBVIOUS
  <2>2. 0 \in 0..N  BY <1>0
  <2> HIDE DEF f, F
  <2> QED BY <2>1, <2>2
<1>2. ASSUME NEW k \in 0..N, k < N, k \in S PROVE k + 1 \in S
  <2>1. PICK f : f = F(f, k)  BY <1>2
  <2> DEFINE g == [n \in 0..(k + 1) |-> IF n <= k THEN f[n] ELSE step(f[k], k + 1)]
  <2>2. \A n \in 0..(k + 1) : g[n] = IF n = 0 THEN Memory ELSE step(g[n - 1], n)
    <3> SUFFICES ASSUME NEW n \in 0..(k + 1)
                 PROVE  g[n] = IF n = 0 THEN Memory ELSE step(g[n - 1], n)
      OBVIOUS
    <3>1. CASE n = 0
      <4>1. g[n] = f[0]  BY <3>1
      <4>2. f[0] = Memory  BY <2>1
      <4> QED BY <3>1, <4>1, <4>2
    <3>2. CASE n # 0 /\ n <= k
      <4>1. n - 1 \in 0..k /\ n \in 0..k  BY <3>2
      <4>2. g[n] = f[n] /\ g[n - 1] = f[n - 1]  BY <4>1
      <4>3. f[n] = step(f[n - 1], n)  BY <2>1, <3>2, <4>1
      <4> QED BY <3>2, <4>2, <4>3
    <3>3. CASE n = k + 1
      <4>1. g[n] = step(f[k], n)  BY <3>3
      <4>2. n # 0 /\ n - 1 = k /\ g[k] = f[k]  BY <3>3
      <4> QED BY <4>1, <4>2
    <3> QED BY <3>1, <3>2, <3>3
  <2>3. g = F(g, k + 1)  BY <2>2
  <2> HIDE DEF g
  <2>4. k + 1 \in 0..N  BY <1>0, <1>2
  <2> QED BY <2>3, <2>4
<1>3. N \in S
  <2> HIDE DEF S
  <2>1. \A k \in 0 .. N : k \in S  BY <1>0, <1>1, <1>2, UpTo
  <2> QED BY <1>0, <2>1
<1>4. Called = CHOOSE f : f = F(f, N)  BY Zenon DEF Called, step
<1>5. Called = F(Called, N)
  <2> HIDE DEF F
  <2>1. \E f : f = F(f, N)  BY <1>3
  <2> QED BY <1>4, <2>1, Zenon
<1> HIDE DEF F
<1>6. \A n \in 0..N : F(Called, N)[n] = IF n = 0 THEN Memory ELSE step(Called[n - 1], n)
  BY DEF F
<1> QED BY <1>5, <1>6 DEF step

\* A partition function puts all nodes of its partition behind.
LEMMA PartitionCalled ==
  ASSUME ProcOK, CodeOK, InputsCurrent, MemoryOK(Memory, pc, 0)
  PROVE  MemoryOK(Called[N], pc, N)
<1> DEFINE S == {k \in 0..N : MemoryOK(Called[k], pc, k)}
<1>0. N \in Nat  BY JitPartitionAssumption
<1>1. 0 \in S
  <2>1. Called[0] = Memory  BY <1>0, CalledUnfolds
  <2> QED BY <1>0, <2>1
<1>2. ASSUME NEW k \in 0..N, k < N, k \in S PROVE k + 1 \in S
  <2>1. k + 1 \in 0..N /\ k + 1 \in Node /\ k + 1 # 0 /\ (k + 1) - 1 = k
    BY <1>0, <1>2 DEF Node
  <2>2. Called[k + 1] = IF code.map[k + 1] = pc THEN CallNode(Called[k], k + 1) ELSE Called[k]
    BY <2>1, CalledUnfolds
  <2>3. MemoryOK(Called[k], pc, k)  BY <1>2
  <2>4. CASE code.map[k + 1] = pc
    <3>1. PICK m : m = Called[k]  OBVIOUS
    <3>2. MemoryOK(m, code.map[k + 1], (k + 1) - 1)  BY <2>1, <2>3, <2>4, <3>1
    <3>3. MemoryOK(CallNode(m, k + 1), code.map[k + 1], k + 1)
      BY <2>1, <3>2, CallNodeStep
    <3> QED BY <2>1, <2>2, <2>4, <3>1, <3>3
  <2>5. CASE code.map[k + 1] # pc
    <3>1. PICK m, p : m = Called[k] /\ p = pc  OBVIOUS
    <3>2. \A n \in Node : /\ Behind(n, p, k + 1) <=> Behind(n, p, k)
                          /\ code.map[n] = p /\ n <= k + 1 <=> code.map[n] = p /\ n <= k
      <4> SUFFICES ASSUME NEW n \in Node, code.map[n] = p
                   PROVE  n <= k + 1 <=> n <= k
        BY DEF Behind
      <4>1. n # k + 1 /\ n \in Nat  BY <1>0, <2>5, <3>1 DEF Node
      <4> QED BY <4>1
    <3>3. MemoryOK(m, p, k + 1)
      <4>1. MemoryOK(m, p, k)  BY <2>3, <3>1
      <4>2. \A q \in Param : proc.next[q] \in Node  BY DEF ProcOK
      <4> QED BY <3>2, <4>1, <4>2 DEF MemoryOK
    <3> QED BY <2>1, <2>2, <2>5, <3>1, <3>3
  <2> QED BY <2>4, <2>5
<1> HIDE DEF S
<1>3. \A k \in 0 .. N : k \in S  BY <1>0, <1>1, <1>2, UpTo
<1> QED BY <1>0, <1>3 DEF S

\* So does the function of an early exit partition, which has one node.
LEMMA ExitNodeCalled ==
  ASSUME ProcOK, CodeOK, InputsCurrent, NEW p \in ExitPartitions, MemoryOK(Memory, p, 0)
  PROVE  MemoryOK(CallNode(Memory, ExitNode(p)), p, N)
<1>0. N \in Nat  BY JitPartitionAssumption
<1>1. PICK n : n = ExitNode(p)  OBVIOUS
<1>2. PICK m : m = Memory  OBVIOUS
<1>3. n \in Node /\ n \in Nat /\ code.map[n] = p /\ \A x \in Node : code.map[x] = p <=> x = n
  BY <1>0, <1>1, ExitNodes DEF Node
<1>4. \A x \in Node : x \in Nat /\ x # 0 /\ x <= N  BY <1>0 DEF Node
<1>5. \A q \in Param : proc.next[q] \in Node  BY DEF ProcOK
<1>6. MemoryOK(m, code.map[n], n - 1)
  <2>1. \A x \in Node : /\ Behind(x, p, n - 1) <=> Behind(x, p, 0)
                        /\ ~(code.map[x] = p /\ x <= n - 1)
    BY <1>3, <1>4 DEF Behind
  <2>2. MemoryOK(m, p, 0)  BY <1>2
  <2> QED BY <1>3, <1>5, <2>1, <2>2 DEF MemoryOK
<1>7. MemoryOK(CallNode(m, n), p, n)  BY <1>3, <1>6, CallNodeStep
<1>8. PICK c : c = CallNode(m, n)  OBVIOUS
<1>9. MemoryOK(c, p, N)
  <2>1. \A x \in Node : /\ Behind(x, p, N) <=> Behind(x, p, n)
                        /\ code.map[x] = p /\ x <= N <=> code.map[x] = p /\ x <= n
    BY <1>3, <1>4 DEF Behind
  <2>2. MemoryOK(c, p, n)  BY <1>7, <1>8
  <2> QED BY <1>5, <2>1, <2>2 DEF MemoryOK
<1> QED BY <1>1, <1>2, <1>8, <1>9

-----------------------------------------------------------------------------
(***************************************************************************)
(* The invariant: all partitions before the position have been executed    *)
(* once, and what later ones need of them has survived.                    *)
(***************************************************************************)

(* Nothing has been computed yet. *)
Fresh ==
  /\ output \in [Param -> Age] /\ temp \in [Node -> Age]
  /\ computed = [n \in Node |-> <<>>]

Cursor ==
  /\ pc \in {None} \cup 0..(code.last + 1)
  /\ continuation_point = 0 \/ \E q \in ExitPartitions : continuation_point = ExitId(q)
  /\ pc # None => ResumeAt(continuation_point) <= pc

JitInv ==
  /\ ProcOK /\ InputsCurrent /\ disabled \subseteq Node
  /\ \/ /\ status = "source" /\ pc = None /\ continuation_point = 0 /\ Fresh
        /\ code.map \in [Node -> 0..N] /\ code.last \in 0..N
        /\ code.map \in [Node -> 0..code.last]
        /\ code.alloc \in [Node -> {"kNone", "kAlloca", "kTempBlock"}]
     \/ status = "ready" /\ CodeOK /\ Cursor /\ MemoryOK(Memory, Position, 0)

\* What the code determines does not change while it is executed.
LEMMA SameCode ==
  ASSUME UNCHANGED <<proc, code>>
  PROVE  /\ ProcOK' <=> ProcOK
         /\ CodeOK' <=> CodeOK
         /\ Param' = Param
         /\ ExitPartitions' = ExitPartitions
         /\ \A q : ExitId(q)' = ExitId(q)
         /\ \A id : ResumeAt(id)' = ResumeAt(id)
<1>1. Param' = Param  BY DEF Param, IsA
<1>2. ProcOK' <=> ProcOK  BY DEF ProcOK, Param, IsA
<1>3. CodeOK' <=> CodeOK
  BY DEF CodeOK, PartitionOK, AllocOK, AllocateBuffer, IsEarlyExitPoint, IsInputNode,
         IsOutputNode, ShouldMaterializeAtUse, Users, Param, IsA
<1>4. ExitPartitions' = ExitPartitions  BY DEF ExitPartitions, IsEarlyExitPoint, IsA
<1>5. \A q : ExitId(q)' = ExitId(q)  BY <1>4 DEF ExitId
<1>6. \A id : ResumeAt(id)' = ResumeAt(id)
  BY DEF ResumeAt, ResumeBlock, ResumeId, ResumePartitions, ResumePartition, ExitId,
         ExitPartitions, ExitNode, IsEarlyExitPoint, ExecutionContinuesAfterNode, IsA
<1> QED BY <1>1, <1>2, <1>3, <1>4, <1>5, <1>6

\* At the beginning of an activation nothing is behind.
LEMMA FreshMemory ==
  ASSUME Fresh', (ProcOK /\ CodeOK)'
  PROVE  MemoryOK(Memory, 0, 0)'
<1>0. \A n \in Node : n \in Nat /\ n # 0
  BY JitPartitionAssumption DEF Node
<1>1. \A n \in Node : ~Behind(n, 0, 0)'
  BY <1>0 DEF Behind, CodeOK, PartitionOK
<1>2. \A q \in Param' : (proc.next[q])' \in Node  BY DEF ProcOK
<1>3. /\ Memory' = [output |-> output', temp |-> temp', computed |-> computed',
                    stack |-> [n \in Node |-> "old"]]
  BY DEF Memory
<1>4. /\ Memory'.output = output' /\ Memory'.temp = temp' /\ Memory'.computed = computed'
      /\ Memory'.stack = [n \in Node |-> "old"]
      /\ Memory' = [output |-> Memory'.output, temp |-> Memory'.temp,
                    stack |-> Memory'.stack, computed |-> Memory'.computed]
  BY <1>3
<1>5. Memory'.computed = [n \in Node |-> IF Emitted(n)' /\ Behind(n, 0, 0)'
                                           THEN <<"now">> ELSE <<>>]
  BY <1>1, <1>4 DEF Fresh
<1>6. /\ Memory'.output \in [Param' -> Age] /\ Memory'.temp \in [Node -> Age]
      /\ Memory'.stack \in [Node -> Age]
  BY <1>4 DEF Fresh, Age
<1>7. \A n \in Node : ~(n <= 0)  BY <1>0
<1> QED BY <1>1, <1>2, <1>4, <1>5, <1>6, <1>7 DEF MemoryOK

\* What the memory of a partition function leaves in the buffers is what
\* the next partition starts from.
LEMMA KeepStep ==
  ASSUME ProcOK, CodeOK, NEW m, NEW p \in Nat, MemoryOK(m, p, N),
         Keep(m), UNCHANGED <<proc, code>>
  PROVE  MemoryOK(Memory, p + 1, 0)'
<1>0. \A n \in Node : n \in Nat /\ n # 0 /\ n <= N /\ code.map[n] \in Nat
  BY JitPartitionAssumption DEF Node, CodeOK, PartitionOK
<1>1. \A n \in Node : Behind(n, p + 1, 0)' <=> Behind(n, p, N)
  BY <1>0 DEF Behind
<1>2. \A n \in Node : Emitted(n)' <=> Emitted(n)
  BY DEF Emitted, IsInputNode, IsOutputNode, ShouldMaterializeAtUse, Param, IsA
<1>3. Param' = Param  BY SameCode
<1>4. \A q \in Param : proc.next[q] \in Node  BY DEF ProcOK
<1>5. Memory' = [output |-> m.output, temp |-> m.temp, computed |-> m.computed,
                 stack |-> [n \in Node |-> "old"]]
  BY DEF Memory, Keep
<1>6. /\ Memory'.output = m.output /\ Memory'.temp = m.temp /\ Memory'.computed = m.computed
      /\ Memory'.stack = [n \in Node |-> "old"]
      /\ Memory' = [output |-> Memory'.output, temp |-> Memory'.temp,
                    stack |-> Memory'.stack, computed |-> Memory'.computed]
  BY <1>5
<1>7. m.computed = [n \in Node |-> IF Emitted(n) /\ Behind(n, p, N) THEN <<"now">> ELSE <<>>]
  BY DEF MemoryOK
<1>8. Memory'.computed = [n \in Node |-> IF Emitted(n)' /\ Behind(n, p + 1, 0)'
                                           THEN <<"now">> ELSE <<>>]
  BY <1>1, <1>2, <1>6, <1>7
<1>9. /\ Memory'.output \in [Param' -> Age] /\ Memory'.temp \in [Node -> Age]
      /\ Memory'.stack \in [Node -> Age]
  BY <1>3, <1>6 DEF MemoryOK, Age
<1>10. \A q \in Param' : Behind(proc.next[q], p + 1, 0)' => Memory'.output[q] = "now"
  BY <1>1, <1>3, <1>4, <1>6 DEF MemoryOK
<1>11. \A n \in Node : (code.alloc[n])' = "kTempBlock" /\ Behind(n, p + 1, 0)'
                       => Memory'.temp[n] = "now"
  BY <1>1, <1>6 DEF MemoryOK
<1>12. \A n \in Node : ~(n <= 0)  BY <1>0
<1> QED BY <1>6, <1>8, <1>9, <1>10, <1>11, <1>12 DEF MemoryOK

\* JitInv holds of a proc before it is compiled.
LEMMA JitInvInit ==
  ASSUME Init
  PROVE  JitInv
<1>0. PICK g \in Proc :
        \E next \in [{n \in Node : g.kind[n] = "param"} -> Node] :
          /\ proc = [kind |-> g.kind, operands |-> g.operands, next |-> next]
          /\ input = [p \in DOMAIN next |-> "now"]
          /\ output = [p \in DOMAIN next |-> "old"]
  BY DEF Init
<1>1. PICK next \in [{n \in Node : g.kind[n] = "param"} -> Node] :
        /\ proc = [kind |-> g.kind, operands |-> g.operands, next |-> next]
        /\ input = [p \in DOMAIN next |-> "now"]
        /\ output = [p \in DOMAIN next |-> "old"]
  BY <1>0
<1>2. /\ g.kind \in [Node -> Kind] /\ g.operands \in [Node -> SUBSET Node]
      /\ \A n \in Node : g.operands[n] \subseteq 1..(n - 1)
      /\ \A n \in Node : g.kind[n] \in {"param", "array_literal", "bits_literal"}
                         => g.operands[n] = {}
  BY DEF Proc
<1>3. proc.kind = g.kind /\ proc.operands = g.operands /\ proc.next = next  BY <1>1
<1>4. Param = {n \in Node : g.kind[n] = "param"} /\ DOMAIN next = Param
  BY <1>3 DEF Param, IsA
<1>5. ProcOK
  <2>1. \A n \in Node : \A x \in g.operands[n] : x < n
    BY <1>2, JitPartitionAssumption DEF Node
  <2> QED BY <1>2, <1>3, <1>4, <2>1 DEF ProcOK, IsA
<1>6. InputsCurrent  BY <1>1, <1>4 DEF InputsCurrent, Age
<1>7. Fresh  BY <1>1, <1>4 DEF Fresh, Init, Age
<1>8. /\ code.map = [n \in Node |-> 0] /\ code.last = 0
      /\ code.alloc = [n \in Node |-> "kNone"]
  BY DEF Init
<1>9. /\ code.map \in [Node -> 0..N] /\ code.last \in 0..N
      /\ code.map \in [Node -> 0..code.last]
      /\ code.alloc \in [Node -> {"kNone", "kAlloca", "kTempBlock"}]
  BY <1>8, JitPartitionAssumption
<1>10. status = "source" /\ pc = None /\ continuation_point = 0 /\ disabled \subseteq Node
  BY DEF Init
<1> QED BY <1>5, <1>6, <1>7, <1>9, <1>10 DEF JitInv

\* The compiler's checks pass, and the proc is ready to start.
LEMMA BuildStep ==
  ASSUME JitInv, BuildFunction
  PROVE  JitInv'
<1> DEFINE ps == PartitionFunctionBase
           alloc == [n \in Node |-> AllocateBuffer(n, ps)]
<1>1. /\ code' = [map |-> ps.map, last |-> ps.last, alloc |-> alloc]
      /\ status' = IF BuildChecks(ps, alloc) THEN "ready" ELSE "failed"
      /\ UNCHANGED <<proc, pc, continuation_point, input, output, temp, disabled, computed>>
  BY DEF BuildFunction
<1>2. ProcOK /\ InputsCurrent /\ disabled \subseteq Node /\ pc = None
      /\ continuation_point = 0 /\ Fresh
  BY DEF JitInv, BuildFunction
<1>3. PartitionOK(ps)  BY <1>2, PartitionsAreOK
<1>4. AllocOK(ps, alloc)  BY DEF AllocOK
<1>5. BuildChecks(ps, alloc)  BY <1>2, <1>3, <1>4, BuildChecksPass
<1>6. status' = "ready"  BY <1>1, <1>5
<1>7. PICK q, al : q = ps /\ al = alloc  OBVIOUS
<1>8. code'.map = q.map /\ code'.last = q.last /\ code'.alloc = al
  BY <1>1, <1>7
<1>9. CodeOK'
  <2>1. PartitionOK(code)'
    BY <1>1, <1>3, <1>7, <1>8 DEF PartitionOK, IsEarlyExitPoint, IsA
  <2>2. \A n \in Node : AllocateBuffer(n, code)' = AllocateBuffer(n, q)
    BY <1>1, <1>8 DEF AllocateBuffer, IsInputNode, IsOutputNode, ShouldMaterializeAtUse,
                      Users, Param, IsA
  <2>3. al = [n \in Node |-> AllocateBuffer(n, q)]  BY <1>7
  <2>4. AllocOK(code, code.alloc)'
    BY <1>8, <2>2, <2>3 DEF AllocOK
  <2> QED BY <2>1, <2>4 DEF CodeOK
<1>10. ProcOK' /\ InputsCurrent' /\ (disabled \subseteq Node)' /\ Fresh'
  BY <1>1, <1>2 DEF ProcOK, InputsCurrent, Fresh, Param, IsA
<1>11. MemoryOK(Memory, 0, 0)'  BY <1>9, <1>10, FreshMemory
<1>12. Position' = 0
  BY <1>1, <1>2, <1>6 DEF Position, ResumeAt
<1>13. Cursor'  BY <1>1, <1>2 DEF Cursor
<1>14. MemoryOK(Memory, Position, 0)'
  BY <1>11, <1>12 DEF MemoryOK
<1> QED BY <1>6, <1>9, <1>10, <1>13, <1>14 DEF JitInv

\* Execution resumes at a partition.
LEMMA ResumeRange ==
  ASSUME ProcOK, CodeOK, Cursor
  PROVE  ResumeAt(continuation_point) \in 0..code.last
<1>1. code.last \in Nat  BY DEF CodeOK, PartitionOK
<1>2. CASE continuation_point = 0  BY <1>1, <1>2 DEF ResumeAt
<1>3. CASE continuation_point # 0
  <2>1. PICK q \in ExitPartitions : continuation_point = ExitId(q)  BY <1>3 DEF Cursor
  <2>2. q \in Nat /\ q < code.last  BY ExitNodes
  <2>3. ResumeAt(ExitId(q)) = IF IsA(ExitNode(q), {"send"}) THEN q + 1 ELSE q  BY Resumes
  <2> QED BY <1>1, <2>1, <2>2, <2>3
<1> QED BY <1>2, <1>3

\* Memory that is not touched stays as it is.
LEMMA SameMemory ==
  ASSUME NEW p, MemoryOK(Memory, p, 0), UNCHANGED <<proc, code, output, temp, computed>>
  PROVE  MemoryOK(Memory, p, 0)'
BY DEF MemoryOK, Memory, Behind, Emitted, IsInputNode, IsOutputNode,
       ShouldMaterializeAtUse, Param, IsA

\* Starting or resuming the proc keeps JitInv.
LEMMA TickStep ==
  ASSUME JitInv, Tick
  PROVE  JitInv'
<1>1. /\ ProcOK /\ InputsCurrent /\ disabled \subseteq Node
      /\ status = "ready" /\ pc = None /\ CodeOK /\ Cursor /\ MemoryOK(Memory, Position, 0)
  BY DEF JitInv, Tick
<1>2. /\ UNCHANGED <<proc, code, status, continuation_point, input, output, temp, computed>>
      /\ pc' = ResumeAt(continuation_point)
  BY DEF Tick
<1>3. PICK p : p = ResumeAt(continuation_point)  OBVIOUS
<1>4. p \in 0..code.last /\ p # None  BY <1>1, <1>3, ResumeRange DEF None, CodeOK, PartitionOK
<1>5. Position = p /\ Position' = p
  BY <1>1, <1>2, <1>3, <1>4 DEF Position
<1>6. MemoryOK(Memory, Position, 0)'
  <2>1. MemoryOK(Memory, p, 0)  BY <1>1, <1>5
  <2>2. MemoryOK(Memory, p, 0)'  BY <1>2, <2>1, SameMemory
  <2> QED BY <1>5, <2>2 DEF MemoryOK
<1>7. ProcOK' /\ CodeOK' /\ ExitPartitions' = ExitPartitions
  BY <1>1, <1>2, SameCode
<1>8. Cursor'
  <2>1. PICK id : id = continuation_point  OBVIOUS
  <2>2. ResumeAt(continuation_point)' = p
    <3>1. ResumeAt(id)' = ResumeAt(id)  BY <1>2, SameCode
    <3> QED BY <1>2, <1>3, <2>1, <3>1 DEF ResumeAt
  <2>3. continuation_point' = 0 \/ \E q \in ExitPartitions' : continuation_point' = ExitId(q)'
    <3>1. \A q : ExitId(q)' = ExitId(q)  BY <1>2, SameCode
    <3> QED BY <1>1, <1>2, <1>7, <3>1 DEF Cursor
  <2>4. pc' \in 0..(code'.last + 1) /\ p <= p
    <3>1. code.last \in Nat  BY <1>1 DEF CodeOK, PartitionOK
    <3>2. p \in 0..(code.last + 1) /\ p <= p  BY <1>4, <3>1
    <3> QED BY <1>2, <1>3, <3>2
  <2> QED BY <1>2, <1>3, <2>2, <2>3, <2>4 DEF Cursor
<1>9. InputsCurrent' /\ (disabled \subseteq Node)'
  <2>1. Param' = Param  BY <1>2, SameCode
  <2>2. (disabled \subseteq Node)'  BY <1>1 DEF Tick
  <2> QED BY <1>1, <1>2, <2>1, <2>2 DEF InputsCurrent
<1> QED BY <1>1, <1>2, <1>6, <1>7, <1>8, <1>9 DEF JitInv

\* When all nodes of the partition are behind, the next partition starts.
LEMMA ContinueStep ==
  ASSUME JitInv, pc \in 0..code.last, status = "ready", NEW m, MemoryOK(m, pc, N),
         Continue(m), UNCHANGED <<proc, code, status>>
  PROVE  JitInv'
<1>1. /\ ProcOK /\ InputsCurrent /\ disabled \subseteq Node /\ CodeOK /\ Cursor
  BY DEF JitInv
<1>2. ProcOK' /\ CodeOK' /\ ExitPartitions' = ExitPartitions /\ Param' = Param
  BY <1>1, SameCode
<1>3. PICK p : p = pc  OBVIOUS
<1>4. p \in Nat /\ p <= code.last /\ code.last \in Nat
  BY <1>1, <1>3 DEF CodeOK, PartitionOK
<1>5. PICK id : id = continuation_point  OBVIOUS
<1>6. ResumeAt(id)' = ResumeAt(id) /\ ResumeAt(id) <= p /\ ResumeAt(id) \in Nat
  BY <1>1, <1>3, <1>4, <1>5, SameCode, ResumeRange DEF Cursor, None
<1>7. /\ pc' = p + 1 /\ Keep(m) /\ UNCHANGED <<continuation_point, input, disabled>>
  BY <1>3 DEF Continue
<1>8. MemoryOK(Memory, p + 1, 0)'
  <2>1. MemoryOK(m, p, N)  BY <1>3
  <2> QED BY <1>1, <1>4, <1>7, <2>1, KeepStep
<1>9. p + 1 # None /\ p + 1 \in 0..(code'.last + 1)  BY <1>4 DEF None
<1>10. Position' = p + 1  BY <1>7, <1>9 DEF Position
<1>11. MemoryOK(Memory, Position, 0)'  BY <1>8, <1>10 DEF MemoryOK
<1>12. Cursor'
  <2>1. ResumeAt(continuation_point)' <= p + 1
    <3>1. ResumeAt(continuation_point)' = ResumeAt(id)'
      BY <1>5, <1>7 DEF ResumeAt
    <3> QED BY <1>4, <1>6, <3>1
  <2>2. continuation_point' = 0 \/ \E q \in ExitPartitions' : continuation_point' = ExitId(q)'
    <3>1. \A q : ExitId(q)' = ExitId(q)  BY SameCode
    <3> QED BY <1>1, <1>2, <1>7, <3>1 DEF Cursor
  <2> QED BY <1>7, <1>9, <2>1, <2>2 DEF Cursor
<1>13. InputsCurrent' /\ (disabled \subseteq Node)'
  BY <1>1, <1>2, <1>7 DEF InputsCurrent
<1> QED BY <1>2, <1>11, <1>12, <1>13 DEF JitInv

\* When all partitions are behind, the next activation starts from what this
\* one left as the values of the params.
LEMMA NextTickStep ==
  ASSUME JitInv, NextTick
  PROVE  JitInv'
<1>1. status = "ready" /\ ProcOK /\ CodeOK /\ MemoryOK(Memory, Position, 0)
  <2>1. CASE status = "source"
    <3>1. pc = -1 /\ code.last \in Nat  BY <2>1 DEF JitInv, None
    <3> QED BY <3>1 DEF NextTick
  <2> QED BY <2>1 DEF JitInv
<1>2. /\ pc' = None /\ continuation_point' = 0 /\ input' = output
      /\ output' = [q \in Param |-> "old"] /\ temp' = [n \in Node |-> "old"]
      /\ disabled' = {} /\ computed' = [n \in Node |-> <<>>]
      /\ UNCHANGED <<proc, code, status>> /\ pc = code.last + 1
  BY DEF NextTick
<1>3. ProcOK' /\ CodeOK' /\ ExitPartitions' = ExitPartitions /\ Param' = Param
  BY <1>1, <1>2, SameCode
<1>4. code.last \in Nat /\ pc # None  BY <1>1, <1>2 DEF CodeOK, PartitionOK, None
<1>5. Fresh'  BY <1>2, <1>3 DEF Fresh, Age
<1>6. MemoryOK(Memory, 0, 0)'  BY <1>3, <1>5, FreshMemory
<1>7. InputsCurrent'
  <2>1. Position = code.last + 1  BY <1>1, <1>2, <1>4 DEF Position
  <2>2. \A n \in Node : Behind(n, Position, 0)
    BY <1>1, <1>4, <2>1, JitPartitionAssumption DEF Behind, CodeOK, PartitionOK
  <2>3. Memory.output = output  BY DEF Memory
  <2>4. \A q \in Param : output[q] = "now"
    BY <1>1, <2>2, <2>3 DEF MemoryOK, ProcOK
  <2>5. output \in [Param -> Age]  BY <1>1, <2>3 DEF MemoryOK
  <2> QED BY <1>2, <1>3, <2>4, <2>5 DEF InputsCurrent
<1>8. Position' = 0  BY <1>1, <1>2 DEF Position, ResumeAt
<1>9. MemoryOK(Memory, Position, 0)'  BY <1>6, <1>8 DEF MemoryOK
<1>10. Cursor'  BY <1>2 DEF Cursor
<1> QED BY <1>1, <1>2, <1>3, <1>7, <1>9, <1>10 DEF JitInv

\* After an early exit the next Tick resumes where it was left, if what the
\* buffers then hold fits that place.
LEMMA EarlyExitStep ==
  ASSUME JitInv, status = "ready", NEW p \in ExitPartitions, p = pc, NEW m, NEW ok, ok,
         EarlyExit(m, ok), UNCHANGED <<proc, code>>,
         MemoryOK(Memory, IF IsA(ExitNode(p), {"send"}) THEN p + 1 ELSE p, 0)'
  PROVE  JitInv'
<1>1. /\ ProcOK /\ InputsCurrent /\ disabled \subseteq Node /\ CodeOK
  BY DEF JitInv
<1>2. ProcOK' /\ CodeOK' /\ ExitPartitions' = ExitPartitions /\ Param' = Param
  BY <1>1, SameCode
<1>3. PICK id : id = ExitId(p)  OBVIOUS
<1>4. /\ pc' = None /\ continuation_point' = id /\ status' = "ready"
      /\ UNCHANGED <<input, disabled>>
  BY <1>3 DEF EarlyExit
<1>5. PICK r : r = IF IsA(ExitNode(p), {"send"}) THEN p + 1 ELSE p  OBVIOUS
<1>6. ResumeAt(id) = r  BY <1>1, <1>3, <1>5, Resumes
<1>7. ResumeAt(continuation_point)' = r
  <2>1. ResumeAt(id)' = ResumeAt(id)  BY SameCode
  <2> QED BY <1>4, <1>6, <2>1 DEF ResumeAt
<1>8. Position' = r  BY <1>4, <1>7 DEF Position
<1>9. MemoryOK(Memory, Position, 0)'
  <2>1. r = (IF IsA(ExitNode(p), {"send"}) THEN p + 1 ELSE p)'
    BY <1>5 DEF IsA, ExitNode
  <2> QED BY <1>8, <2>1 DEF MemoryOK
<1>10. Cursor'
  <2>1. \A q : ExitId(q)' = ExitId(q)  BY SameCode
  <2>2. \E q \in ExitPartitions' : continuation_point' = ExitId(q)'
    BY <1>2, <1>3, <1>4, <2>1
  <2> QED BY <1>4, <2>2 DEF Cursor
<1>11. InputsCurrent' /\ (disabled \subseteq Node)'
  BY <1>1, <1>2, <1>4 DEF InputsCurrent
<1> QED BY <1>2, <1>4, <1>9, <1>10, <1>11 DEF JitInv

\* Calling an ordinary partition keeps JitInv.
LEMMA CallPartitionStep ==
  ASSUME JitInv, CallPartition
  PROVE  JitInv'
<1>1. /\ ProcOK /\ InputsCurrent /\ status = "ready" /\ CodeOK /\ pc # None
      /\ MemoryOK(Memory, Position, 0)
  <2>1. pc \in 0..code.last  BY DEF CallPartition
  <2>2. CASE status = "source"
    <3>1. pc = -1 /\ code.last \in Nat  BY <2>2 DEF JitInv, None
    <3> QED BY <2>1, <3>1
  <2>3. CASE status = "ready"
    <3>1. CodeOK /\ code.last \in Nat  BY <2>3 DEF JitInv, CodeOK, PartitionOK
    <3> QED BY <2>1, <2>3, <3>1 DEF JitInv, None
  <2> QED BY <2>2, <2>3 DEF JitInv
<1>2. Position = pc  BY <1>1 DEF Position
<1>3. MemoryOK(Called[N], pc, N)  BY <1>1, <1>2, PartitionCalled
<1>4. PICK m : m = Called[N]  OBVIOUS
<1>5. MemoryOK(m, pc, N)  BY <1>3, <1>4
<1>6. Continue(m) /\ UNCHANGED <<proc, code, status>> /\ pc \in 0..code.last
  BY <1>4 DEF CallPartition, Continue, Keep
<1> QED BY <1>1, <1>5, <1>6, ContinueStep

\* A tick that sends did not start from the send it exits at.
LEMMA SendsMoveOn ==
  ASSUME JitInv, status = "ready", pc \in ExitPartitions, IsA(ExitNode(pc), {"send"})
  PROVE  ExitId(pc) # continuation_point
<1> SUFFICES ASSUME ExitId(pc) = continuation_point PROVE FALSE  OBVIOUS
<1>1. ProcOK /\ CodeOK /\ Cursor  BY DEF JitInv
<1>2. PICK p \in ExitPartitions : p = pc  OBVIOUS
<1>3. p \in Nat  BY <1>1, ExitNodes
<1>4. ResumeAt(ExitId(p)) = p + 1  BY <1>1, <1>2, Resumes
<1>5. ResumeAt(ExitId(p)) <= p
  BY <1>1, <1>2, <1>3 DEF Cursor, None
<1> QED BY <1>3, <1>4, <1>5

\* Calling the partition of a send, and leaving after it, keeps JitInv.
LEMMA CallSendStep ==
  ASSUME JitInv, CallSend
  PROVE  JitInv'
<1>0. pc \in ExitPartitions /\ IsA(ExitNode(pc), {"send"})  BY DEF CallSend
<1>1. PICK p \in ExitPartitions : p = pc  BY <1>0
<1>2. status = "ready" /\ ProcOK /\ InputsCurrent /\ CodeOK /\ MemoryOK(Memory, Position, 0)
  <2>1. status = "ready"
    <3>1. CASE status = "source"
      <4>1. pc = None /\ code.map \in [Node -> 0..N]  BY <3>1 DEF JitInv
      <4>2. pc \in 0..N  BY <1>0, <4>1 DEF ExitPartitions
      <4> QED BY <4>1, <4>2, JitPartitionAssumption DEF None
    <3> QED BY <3>1 DEF JitInv
  <2> QED BY <2>1 DEF JitInv
<1>3. p \in Nat /\ pc # None /\ pc \in 0..code.last
  <2>1. p \in Nat /\ p < code.last /\ code.last \in Nat
    BY <1>2, ExitNodes DEF CodeOK, PartitionOK
  <2> QED BY <1>1, <2>1 DEF None
<1>4. Position = p  BY <1>1, <1>2, <1>3 DEF Position
<1>5. PICK m : m = CallNode(Memory, ExitNode(p))  OBVIOUS
<1>6. MemoryOK(m, p, N)
  <2>1. MemoryOK(Memory, p, 0)  BY <1>2, <1>4
  <2> QED BY <1>2, <1>5, <2>1, ExitNodeCalled
<1>7. CASE ExitNode(pc) \notin disabled
  <2>1. PICK ok \in BOOLEAN : ok <=> ExitId(pc) # continuation_point  OBVIOUS
  <2>2. ok  BY <1>0, <1>2, <2>1, SendsMoveOn
  <2>3. EarlyExit(m, ok) /\ UNCHANGED <<proc, code>>
    BY <1>1, <1>5, <1>7, <2>1 DEF CallSend, EarlyExit, Keep
  <2>4. MemoryOK(Memory, p + 1, 0)'
    BY <1>2, <1>3, <1>6, <2>3, KeepStep DEF EarlyExit
  <2>5. MemoryOK(Memory, IF IsA(ExitNode(p), {"send"}) THEN p + 1 ELSE p, 0)'
    <3>1. IsA(ExitNode(p), {"send"})'
      BY <1>0, <1>1, <2>3 DEF IsA, ExitNode
    <3> QED BY <2>4, <3>1 DEF MemoryOK
  <2> QED BY <1>1, <1>2, <2>2, <2>3, <2>5, EarlyExitStep
<1>8. CASE ExitNode(pc) \in disabled
  <2>1. Continue(m) /\ UNCHANGED <<proc, code, status>>
    BY <1>1, <1>5, <1>8 DEF CallSend, Continue, Keep
  <2>2. MemoryOK(m, pc, N)  BY <1>1, <1>6
  <2> QED BY <1>2, <1>3, <2>1, <2>2, ContinueStep
<1> QED BY <1>7, <1>8

\* Calling the partition of a receive, with data or without, keeps JitInv.
LEMMA CallReceiveStep ==
  ASSUME JitInv, NEW hasData \in BOOLEAN, CallReceive(hasData)
  PROVE  JitInv'
<1>0. pc \in ExitPartitions /\ IsA(ExitNode(pc), {"receive"})  BY DEF CallReceive
<1>1. PICK p \in ExitPartitions : p = pc  BY <1>0
<1>2. status = "ready" /\ ProcOK /\ InputsCurrent /\ CodeOK /\ MemoryOK(Memory, Position, 0)
  <2>1. status = "ready"
    <3>1. CASE status = "source"
      <4>1. pc = None /\ code.map \in [Node -> 0..N]  BY <3>1 DEF JitInv
      <4>2. pc \in 0..N  BY <1>0, <4>1 DEF ExitPartitions
      <4> QED BY <4>1, <4>2, JitPartitionAssumption DEF None
    <3> QED BY <3>1 DEF JitInv
  <2> QED BY <2>1 DEF JitInv
<1>3. p \in Nat /\ pc # None /\ pc \in 0..code.last
  <2>1. p \in Nat /\ p < code.last /\ code.last \in Nat
    BY <1>2, ExitNodes DEF CodeOK, PartitionOK
  <2> QED BY <1>1, <2>1 DEF None
<1>4. Position = p  BY <1>1, <1>2, <1>3 DEF Position
<1>5. PICK n : n = ExitNode(p)  OBVIOUS
<1>6. PICK blocks \in BOOLEAN :
        blocks <=> ReceiveBlocks(n \notin disabled, n \notin disabled /\ hasData)
  OBVIOUS
<1>7. CASE blocks
  <2>1. PICK m : m = Memory  OBVIOUS
  <2>2. EarlyExit(m, TRUE) /\ UNCHANGED <<proc, code>>
    BY <1>1, <1>5, <1>6, <1>7, <2>1 DEF CallReceive, EarlyExit, Keep
  <2>3. UNCHANGED <<output, temp, computed>>
    <3>1. m.output = output /\ m.temp = temp /\ m.computed = computed
      BY <2>1 DEF Memory
    <3> QED BY <2>2, <3>1 DEF EarlyExit, Keep
  <2>4. MemoryOK(Memory, p, 0)'
    <3>1. MemoryOK(Memory, p, 0)  BY <1>2, <1>4
    <3> QED BY <2>2, <2>3, <3>1, SameMemory
  <2>5. MemoryOK(Memory, IF IsA(ExitNode(p), {"send"}) THEN p + 1 ELSE p, 0)'
    <3>1. ~IsA(ExitNode(p), {"send"})'
      BY <1>0, <1>1, <2>2 DEF IsA, ExitNode
    <3> QED BY <2>4, <3>1 DEF MemoryOK
  <2> QED BY <1>1, <1>2, <2>2, <2>5, EarlyExitStep
<1>8. CASE ~blocks
  <2>1. PICK m : m = CallNode(Memory, ExitNode(p))  OBVIOUS
  <2>2. MemoryOK(m, pc, N)
    <3>1. MemoryOK(Memory, p, 0)  BY <1>2, <1>4
    <3> QED BY <1>1, <1>2, <2>1, <3>1, ExitNodeCalled
  <2>3. Continue(m) /\ UNCHANGED <<proc, code, status>>
    BY <1>1, <1>5, <1>6, <1>8, <2>1 DEF CallReceive, Continue, Keep
  <2> QED BY <1>2, <1>3, <2>2, <2>3, ContinueStep
<1> QED BY <1>7, <1>8

\* JitInv holds while nothing changes.
LEMMA JitInvStutter ==
  ASSUME JitInv, UNCHANGED vars
  PROVE  JitInv'
<1>1. /\ ProcOK' /\ Param' = Param /\ ExitPartitions' = ExitPartitions
      /\ \A q : ExitId(q)' = ExitId(q) /\ \A id : ResumeAt(id)' = ResumeAt(id)
      /\ CodeOK' <=> CodeOK
  BY SameCode DEF vars, JitInv
<1>2. UNCHANGED <<proc, code, status, pc, continuation_point, input, output, temp,
                  disabled, computed>>
  BY DEF vars
<1>3. PICK id : id = continuation_point  OBVIOUS
<1>4. ResumeAt(continuation_point)' = ResumeAt(continuation_point)
  <2>1. ResumeAt(id)' = ResumeAt(id)  BY <1>2, SameCode
  <2> QED BY <1>2, <1>3, <2>1 DEF ResumeAt
<1>5. InputsCurrent' /\ (disabled \subseteq Node)'
  BY <1>1, <1>2 DEF JitInv, InputsCurrent
<1>6. CASE status = "source"
  <2>1. Fresh'  BY <1>1, <1>2, <1>6 DEF JitInv, Fresh
  <2> QED BY <1>1, <1>2, <1>5, <1>6, <2>1 DEF JitInv
<1>7. CASE status = "ready"
  <2>1. Cursor'  BY <1>1, <1>2, <1>4, <1>7 DEF JitInv, Cursor
  <2>2. PICK p : p = Position  OBVIOUS
  <2>3. Position' = p  BY <1>2, <1>4, <2>2 DEF Position
  <2>4. MemoryOK(Memory, p, 0)'
    BY <1>2, <1>7, <2>2, SameMemory DEF JitInv
  <2>5. MemoryOK(Memory, Position, 0)'  BY <2>3, <2>4 DEF MemoryOK
  <2> QED BY <1>1, <1>2, <1>5, <1>7, <2>1, <2>5 DEF JitInv
<1> QED BY <1>6, <1>7 DEF JitInv

\* The invariant of the compiled proc, of which the theorems are consequences.
THEOREM CompiledProcInvariant == Spec => []JitInv
<1>1. Init => JitInv  BY JitInvInit
<1>2. JitInv /\ [Next]_vars => JitInv'
  <2> SUFFICES ASSUME JitInv, [Next]_vars PROVE JitInv'  OBVIOUS
  <2>1. CASE BuildFunction  BY <2>1, BuildStep
  <2>2. CASE Tick  BY <2>2, TickStep
  <2>3. CASE CallPartition  BY <2>3, CallPartitionStep
  <2>n. CASE NextTick  BY <2>n, NextTickStep
  <2>4. CASE CallSend  BY <2>4, CallSendStep
  <2>5. CASE \E hasData \in BOOLEAN : CallReceive(hasData)  BY <2>5, CallReceiveStep
  <2>6. CASE UNCHANGED vars  BY <2>6, JitInvStutter
  <2> QED BY <2>1, <2>2, <2>3, <2>n, <2>4, <2>5, <2>6 DEF Next
<1> QED BY <1>1, <1>2, PTL DEF Spec

-----------------------------------------------------------------------------
\* Partitions, buffers and continuation keep their types: in particular every
\* node gets a partition that exists, moved literals included, and the
\* continuation point is 0 or the number of an early exit point.
THEOREM CompiledProcTypes == Spec => []TypeOK
<1>1. JitInv => TypeOK
  <2> SUFFICES ASSUME JitInv PROVE TypeOK  OBVIOUS
  <2>0. N \in Nat  BY JitPartitionAssumption
  <2>1. /\ proc.kind \in [Node -> Kind] /\ proc.operands \in [Node -> SUBSET Node]
        /\ proc.next \in [Param -> Node] /\ input \in [Param -> Age] /\ disabled \subseteq Node
    BY DEF JitInv, ProcOK, InputsCurrent
  <2>2. CASE status = "source"
    <3>1. /\ pc = None /\ continuation_point = 0 /\ Fresh
          /\ code.map \in [Node -> 0..N] /\ code.last \in 0..N
          /\ code.map \in [Node -> 0..code.last]
          /\ code.alloc \in [Node -> {"kNone", "kAlloca", "kTempBlock"}]
      BY <2>2 DEF JitInv
    <3>2. continuation_point \in 0..Cardinality(ExitPartitions)
      <4>1. ExitPartitions \subseteq 0..N  BY <3>1 DEF ExitPartitions
      <4>2. IsFiniteSet(0..N)  BY <2>0, FS_Interval
      <4>3. IsFiniteSet(ExitPartitions)  BY <4>1, <4>2, FS_Subset
      <4>4. Cardinality(ExitPartitions) \in Nat  BY <4>3, FS_CardinalityType
      <4> QED BY <3>1, <4>4
    <3>3. computed \in [Node -> Seq(Age)]  BY <3>1 DEF Fresh
    <3> QED BY <2>0, <2>1, <2>2, <3>1, <3>2, <3>3 DEF TypeOK, Fresh
  <2>3. CASE status = "ready"
    <3>1. CodeOK /\ Cursor /\ ProcOK /\ MemoryOK(Memory, Position, 0)  BY <2>3 DEF JitInv
    <3>2. /\ code.map \in [Node -> 0..code.last] /\ code.last \in 0..N
          /\ code.alloc \in [Node -> {"kNone", "kAlloca", "kTempBlock"}]
      BY <3>1 DEF CodeOK, PartitionOK, AllocOK, AllocateBuffer
    <3>3. continuation_point \in 0..Cardinality(ExitPartitions)
      BY <3>1, ExitIds DEF Cursor
    <3>4. /\ Memory.output = output /\ Memory.temp = temp /\ Memory.computed = computed
      BY DEF Memory
    <3>5. <<"now">> \in Seq(Age) /\ <<>> \in Seq(Age)  BY DEF Age
    <3>6. output \in [Param -> Age] /\ temp \in [Node -> Age] /\ computed \in [Node -> Seq(Age)]
      BY <3>1, <3>4, <3>5 DEF MemoryOK
    <3>7. pc \in {None} \cup 0..(code.last + 1)  BY <3>1 DEF Cursor
    <3> QED BY <2>0, <2>1, <2>3, <3>2, <3>3, <3>6, <3>7 DEF TypeOK
  <2> QED BY <2>2, <2>3 DEF JitInv
<1> QED BY <1>1, CompiledProcInvariant, PTL

\* No XLS_RET_CHECK of BuildPartitionFunction or of ProcJit::Tick fails, for
\* any proc: operands have buffers where they are used, early exits are alone,
\* and a tick that sent has moved on.
THEOREM CompilerChecksHold == Spec => []ChecksHold
<1>1. JitInv => ChecksHold  BY DEF JitInv, ChecksHold
<1> QED BY <1>1, CompiledProcInvariant, PTL

\* Node functions work on values of their own activation only, and params have
\* the values the activation before computed, however often Tick returned early.
THEOREM CompiledValuesAreCurrent == Spec => []ValuesAreCurrent
<1>1. JitInv => ValuesAreCurrent
  <2> SUFFICES ASSUME JitInv PROVE ValuesAreCurrent  OBVIOUS
  <2>1. \A p \in Param : input[p] = "now"  BY DEF JitInv, InputsCurrent
  <2>2. \A n \in Node : computed[n] \in {<<>>, <<"now">>}
    <3>1. CASE status = "source"  BY <3>1 DEF JitInv, Fresh
    <3>2. CASE status = "ready"
      <4>1. MemoryOK(Memory, Position, 0)  BY <3>2 DEF JitInv
      <4>2. Memory.computed = computed  BY DEF Memory
      <4> QED BY <4>1, <4>2 DEF MemoryOK
    <3> QED BY <3>1, <3>2 DEF JitInv
  <2>3. Range(<<>>) \subseteq {"now"} /\ Range(<<"now">>) \subseteq {"now"}
    BY DEF Range
  <2> QED BY <2>1, <2>2, <2>3 DEF ValuesAreCurrent
<1> QED BY <1>1, CompiledProcInvariant, PTL

\* At every moment of an activation the node functions of the partitions before
\* the position have been called exactly once and the others not at all.
THEOREM NodesExecuteOnce == Spec => []ExecutedOnce
<1>1. JitInv => ExecutedOnce
  <2> SUFFICES ASSUME JitInv, status = "ready", NEW n \in Node, Emitted(n)
               PROVE  Len(computed[n]) = IF code.map[n] < Position THEN 1 ELSE 0
    BY DEF ExecutedOnce
  <2>1. MemoryOK(Memory, Position, 0)  BY DEF JitInv
  <2>2. Memory.computed = computed  BY DEF Memory
  <2>3. ~(n <= 0)  BY JitPartitionAssumption DEF Node
  <2>4. Behind(n, Position, 0) <=> code.map[n] < Position  BY <2>3 DEF Behind
  <2>5. computed[n] = IF code.map[n] < Position THEN <<"now">> ELSE <<>>
    BY <2>1, <2>2, <2>4 DEF MemoryOK
  <2>6. Len(<<"now">>) = 1 /\ Len(<<>>) = 0  OBVIOUS
  <2> QED BY <2>5, <2>6
<1> QED BY <1>1, CompiledProcInvariant, PTL
=============================================================================
