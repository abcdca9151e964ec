------------------- MODULE PipelinedBlockSequential_proofs -------------------
(***************************************************************************)
(* A pipelined block sends what its proc sends, iteration by iteration,    *)
(* for every proc, schedule, depth, buffering and behaviour of the         *)
(* neighbours.  The invariant counts the activations that have left each   *)
(* stage: stage n works on iteration left[n] + 1, and every register holds *)
(* what the sequential run has for the iteration its stage has come to.    *)
(***************************************************************************)
EXTENDS PipelinedBlock_proofs

-----------------------------------------------------------------------------
(***************************************************************************)
(* The sequential run.                                                     *)
(***************************************************************************)

(* One step of the run, and the run's recursion on a set of numbers. *)
Following(F, st, j) == After(st, Iteration(st, F[j]))

RunOver(F, J, g) ==
  [j \in J |-> IF j = 0 THEN Start
               ELSE CHOOSE next \in {After(st, Iteration(st, F[j])) : st \in {g[j - 1]}} :
                      next = next]

(* The recursion, without the sets of one element. *)
LEMMA RunOverAt ==
  ASSUME NEW F, NEW J \in SUBSET Nat, NEW g, g = RunOver(F, J, g)
  PROVE  \A j \in J : g[j] = IF j = 0 THEN Start ELSE Following(F, g[j - 1], j)
<1> SUFFICES ASSUME NEW j \in J
             PROVE  g[j] = IF j = 0 THEN Start ELSE Following(F, g[j - 1], j)
  OBVIOUS
<1> DEFINE S == {After(st, Iteration(st, F[j])) : st \in {g[j - 1]}}
<1>1. RunOver(F, J, g)[j] = IF j = 0 THEN Start ELSE CHOOSE next \in S : next = next
  BY DEF RunOver
<1>2. S = {Following(F, g[j - 1], j)}  BY Zenon DEF Following
<1> HIDE DEF S
<1>3. (CHOOSE next \in S : next = next) = Following(F, g[j - 1], j)
  BY <1>2
<1> QED BY <1>1, <1>3

(* ... and back. *)
LEMMA RunOverIs ==
  ASSUME NEW F, NEW J \in SUBSET Nat, NEW g,
         g = [j \in J |-> IF j = 0 THEN Start ELSE Following(F, g[j - 1], j)]
  PROVE  g = RunOver(F, J, g)
<1>1. ASSUME NEW j \in J
      PROVE  Following(F, g[j - 1], j) =
               CHOOSE next \in {After(st, Iteration(st, F[j])) : st \in {g[j - 1]}} :
                 next = next
  <2> DEFINE S == {After(st, Iteration(st, F[j])) : st \in {g[j - 1]}}
  <2>1. S = {Following(F, g[j - 1], j)}  BY Zenon DEF Following
  <2> HIDE DEF S
  <2>2. (CHOOSE next \in S : next = next) = Following(F, g[j - 1], j)
    BY <2>1
  <2> QED BY <2>2 DEF S
<1>2. \A j \in J : g[j] = RunOver(F, J, g)[j]
  BY <1>1 DEF RunOver
<1> QED BY <1>2 DEF RunOver

(* Runs of n and of n + 1 iterations agree on the first n. *)
LEMMA RunsAgree ==
  ASSUME NEW F, NEW n \in Nat, NEW g, NEW h,
         g = RunOver(F, 0..n, g), h = RunOver(F, 0..(n + 1), h)
  PROVE  g[n] = h[n]
<1> DEFINE S == {j \in 0..n : g[j] = h[j]}
<1>0. 0..n \subseteq Nat /\ 0..(n + 1) \subseteq Nat  OBVIOUS
<1>1. \A j \in 0..n : g[j] = IF j = 0 THEN Start ELSE Following(F, g[j - 1], j)
  BY <1>0, RunOverAt
<1>2. \A j \in 0..(n + 1) : h[j] = IF j = 0 THEN Start ELSE Following(F, h[j - 1], j)
  BY <1>0, RunOverAt
<1>3. 0 \in S
  <2>1. 0 \in 0..n /\ 0 \in 0..(n + 1)  OBVIOUS
  <2> QED BY <1>1, <1>2, <2>1
<1>4. ASSUME NEW k \in 0..n, k < n, k \in S PROVE k + 1 \in S
  <2>1. /\ k + 1 \in 0..n /\ k + 1 \in 0..(n + 1) /\ k + 1 # 0 /\ (k + 1) - 1 = k
        /\ g[k] = h[k]
    BY <1>4
  <2>2. g[k + 1] = Following(F, g[k], k + 1)  BY <1>1, <2>1
  <2>3. h[k + 1] = Following(F, h[k], k + 1)  BY <1>2, <2>1
  <2> QED BY <2>1, <2>2, <2>3
<1> HIDE DEF S
<1>5. \A k \in 0..n : k \in S  BY <1>3, <1>4, UpTo
<1>6. n \in 0..n  OBVIOUS
<1>7. n \in S  BY <1>5, <1>6
<1> QED BY <1>7 DEF S

(* There is a run of any number of iterations. *)
LEMMA RunsExist ==
  ASSUME NEW F
  PROVE  \A n \in Nat : \E g : g = RunOver(F, 0..n, g)
<1> DEFINE S == {n \in Nat : \E g : g = RunOver(F, 0..n, g)}
<1>1. 0 \in S
  <2> DEFINE g == [j \in 0..0 |-> Start]
  <2>1. \A j \in 0..0 : j = 0  OBVIOUS
  <2>2. g = [j \in 0..0 |-> IF j = 0 THEN Start ELSE Following(F, g[j - 1], j)]
    BY <2>1
  <2> HIDE DEF g
  <2>3. g = RunOver(F, 0..0, g)  BY <2>2, RunOverIs
  <2> QED BY <2>3
<1>2. ASSUME NEW k \in Nat, k \in S PROVE k + 1 \in S
  <2>1. PICK g : g = RunOver(F, 0..k, g)  BY <1>2
  <2>2. \A j \in 0..k : g[j] = IF j = 0 THEN Start ELSE Following(F, g[j - 1], j)
    <3>1. 0..k \subseteq Nat  OBVIOUS
    <3> QED BY <2>1, <3>1, RunOverAt
  <2> DEFINE h == [j \in 0..(k + 1) |-> IF j = k + 1 THEN Following(F, g[k], k + 1) ELSE g[j]]
  <2>3. \A j \in 0..(k + 1) :
          h[j] = IF j = 0 THEN Start ELSE Following(F, h[j - 1], j)
    <3> SUFFICES ASSUME NEW j \in 0..(k + 1)
                 PROVE  h[j] = IF j = 0 THEN Start ELSE Following(F, h[j - 1], j)
      OBVIOUS
    <3>1. CASE j = k + 1
      <4>1. j # 0 /\ j - 1 = k /\ k \in 0..(k + 1) /\ k # k + 1  BY <3>1
      <4>2. h[j] = Following(F, g[k], j)  BY <3>1
      <4>3. h[j - 1] = g[k]  BY <4>1
      <4> QED BY <4>1, <4>2, <4>3
    <3>2. CASE j # k + 1
      <4>1. j \in 0..k  BY <3>2
      <4>2. h[j] = g[j]  BY <3>2
      <4>3. CASE j = 0  BY <2>2, <4>1, <4>2, <4>3
      <4>4. CASE j # 0
        <5>1. j - 1 \in 0..(k + 1) /\ j - 1 # k + 1  BY <4>1, <4>4
        <5>2. h[j - 1] = g[j - 1]  BY <5>1
        <5> QED BY <2>2, <4>1, <4>2, <4>4, <5>2
      <4> QED BY <4>3, <4>4
    <3> QED BY <3>1, <3>2
  <2>4. h = [j \in 0..(k + 1) |-> IF j = 0 THEN Start ELSE Following(F, h[j - 1], j)]
    BY <2>3
  <2> HIDE DEF h
  <2>5. 0..(k + 1) \subseteq Nat /\ k + 1 \in Nat  OBVIOUS
  <2>6. h = RunOver(F, 0..(k + 1), h)  BY <2>4, <2>5, RunOverIs
  <2> QED BY <2>5, <2>6
<1> HIDE DEF S
<1>3. \A n \in Nat : n \in S  BY <1>1, <1>2, OverNat
<1> QED BY <1>3 DEF S

(* The sequential run is what its recursive definition says. *)
LEMMA SequentialUnfolds ==
  ASSUME NEW F
  PROVE  /\ Sequential(F)[0] = Start
         /\ \A j \in Nat : Sequential(F)[j + 1] = Following(F, Sequential(F)[j], j + 1)
<1> DEFINE G(n) == CHOOSE g : g = RunOver(F, 0..n, g)
           f == [n \in Nat |-> G(n)[n]]
<1>1. ASSUME NEW n \in Nat PROVE G(n) = RunOver(F, 0..n, G(n))
  <2>1. \E g : g = RunOver(F, 0..n, g)  BY RunsExist
  <2> QED BY <2>1, Zenon
<1> HIDE DEF G
<1>2. \A n \in Nat : f[n] = IF n = 0 THEN Start ELSE Following(F, f[n - 1], n)
  <2> SUFFICES ASSUME NEW n \in Nat
               PROVE  f[n] = IF n = 0 THEN Start ELSE Following(F, f[n - 1], n)
    OBVIOUS
  <2>1. G(n)[n] = IF n = 0 THEN Start ELSE Following(F, G(n)[n - 1], n)
    <3>1. n \in 0..n /\ 0..n \subseteq Nat  OBVIOUS
    <3>2. G(n) = RunOver(F, 0..n, G(n))  BY <1>1
    <3> QED BY <3>1, <3>2, RunOverAt
  <2>2. ASSUME n # 0 PROVE G(n)[n - 1] = G(n - 1)[n - 1]
    <3>1. n - 1 \in Nat /\ (n - 1) + 1 = n  BY <2>2
    <3>2. G(n - 1) = RunOver(F, 0..(n - 1), G(n - 1))  BY <1>1, <3>1
    <3>3. G(n) = RunOver(F, 0..((n - 1) + 1), G(n))  BY <1>1, <3>1
    <3> QED BY <3>1, <3>2, <3>3, RunsAgree
  <2>3. n # 0 => n - 1 \in Nat  OBVIOUS
  <2> QED BY <2>1, <2>2, <2>3
<1>3. f = [n \in Nat |-> IF n = 0 THEN Start ELSE Following(F, f[n - 1], n)]
  BY <1>2
<1> HIDE DEF f
<1>4. f = RunOver(F, Nat, f)  BY <1>3, RunOverIs
<1> DEFINE r == Sequential(F)
<1>5. r = CHOOSE g : g = RunOver(F, Nat, g)  BY Zenon DEF Sequential, RunOver
<1>6. r = RunOver(F, Nat, r)
  <2> HIDE DEF r
  <2>1. \E g : g = RunOver(F, Nat, g)  BY <1>4
  <2> QED BY <1>5, <2>1, Zenon
<1> HIDE DEF r
<1>7. \A j \in Nat : r[j] = IF j = 0 THEN Start ELSE Following(F, r[j - 1], j)
  BY <1>6, RunOverAt
<1>8. r[0] = Start  BY <1>7
<1>9. ASSUME NEW j \in Nat PROVE r[j + 1] = Following(F, r[j], j + 1)
  <2>1. j + 1 \in Nat /\ j + 1 # 0 /\ (j + 1) - 1 = j  OBVIOUS
  <2> QED BY <1>7, <2>1
<1> QED BY <1>8, <1>9 DEF r

-----------------------------------------------------------------------------
(***************************************************************************)
(* What the proc is assumed to be.                                         *)
(***************************************************************************)

(* A schedule places an operation where its operands are: a next state     *)
(* depends on what the stage that writes it knows, and the predicate of a  *)
(* receive on the states read up to the stage of the receive and on what   *)
(* was received before it (RecvOrder), in the same stage or earlier.       *)
Scheduled ==
  /\ \A e \in Elems, a, b \in Activations :
       KnownAt(WriteStage[e], a) = KnownAt(WriteStage[e], b)
         => NextState(e, a) = NextState(e, b)
  /\ \A i \in Ins, a, b \in Activations :
       KnownAt(RecvStage[i], a).s = KnownAt(RecvStage[i], b).s /\ a.x = b.x
         => RecvPred(i, a) = RecvPred(i, b)

(* What lets a block send a datum once: one-shot logic, if no receive of   *)
(* the stage may change its mind after a datum was taken; or never two     *)
(* sends of one iteration in a stage, so that none waits for another.      *)
SendsAreSingle ==
  IF OneShot
    THEN \A k \in Outs, i \in NonBlocking : RecvStage[i] # SendStage[k]
    ELSE \A k, l \in Outs, a \in Activations :
           SendStage[k] = SendStage[l] /\ SendPred(k, a) /\ SendPred(l, a) => k = l

(* What the non-blocking receives may find, iteration by iteration. *)
Finds == [Nat -> [NonBlocking -> BOOLEAN]]

(* The iteration after the first j. *)
Iterate(F, j) == Iteration(Sequential(F)[j], F[j + 1])

(* What iteration a knows when it comes to receive i. *)
Seen(i, a) ==
  [s |-> a.s, x |-> [k \in Ins |-> IF k \in Before(i) THEN a.x[k] ELSE Unknown]]

(* The fields of an iteration. *)
LEMMA IterationFields ==
  ASSUME NEW st, NEW found
  PROVE  LET a == Iteration(st, found)
         IN  /\ a.s = st.s
             /\ \A i \in Ins :
                  a.x[i] = IF RecvPred(i, Seen(i, a)) /\ (i \in NonBlocking => found[i])
                             THEN st.used[i] + 1 ELSE NoData
             /\ a.x = [i \in Ins |-> a.x[i]]
             /\ a = [s |-> a.s, x |-> a.x]
<1> DEFINE w == [s |-> st.s, x |-> Fresh.x]
           data == [i \in Ins |->
                      IF i \in NonBlocking /\ ~found[i] THEN NoData ELSE st.used[i] + 1]
           T == Receiving(w, Ins, data)
           X == [i \in Ins |-> IF i \in T THEN data[i] ELSE NoData]
           a == Iteration(st, found)
<1>1. [Fresh EXCEPT !.s = st.s] = w  BY DEF Fresh
<1>2. a = WithReceived(w, Ins, T, data)
  <2>1. a = WithReceived([Fresh EXCEPT !.s = st.s], Ins,
                         Receiving([Fresh EXCEPT !.s = st.s], Ins, data), data)
    BY DEF Iteration
  <2> HIDE DEF a, w, data
  <2> QED BY <1>1, <2>1
<1>3. a = [w EXCEPT !.x = [i \in Ins |->
             IF i \in Ins THEN IF i \in T THEN data[i] ELSE NoData ELSE w.x[i]]]
  <2> HIDE DEF a, w, data, T
  <2> QED BY <1>2 DEF WithReceived
<1>4. T \in SUBSET Ins /\ IsTaken(w, Ins, data, T)  BY ReceivingIs
<1>5. \A i \in Ins : data[i] = IF i \in NonBlocking /\ ~found[i] THEN NoData
                               ELSE st.used[i] + 1
  OBVIOUS
<1>6. \A i \in Ins : w.x[i] = Unknown  BY DEF Fresh
<1>7. w = [s |-> st.s, x |-> w.x]  OBVIOUS
<1> HIDE DEF a, w, data, T
<1>8. a = [w EXCEPT !.x = X]
  <2>1. X = [i \in Ins |-> IF i \in Ins THEN IF i \in T THEN data[i] ELSE NoData ELSE w.x[i]]
    OBVIOUS
  <2> HIDE DEF X
  <2> QED BY <1>3, <2>1
<1>9. a.s = st.s /\ a.x = X /\ a = [s |-> a.s, x |-> a.x]
  <2> HIDE DEF X
  <2>1. a = [s |-> st.s, x |-> X]  BY <1>7, <1>8
  <2> QED BY <2>1
<1>10. ASSUME NEW i \in Ins PROVE i \in T <=> RecvPred(i, Seen(i, a))
  <2> DEFINE Y == [k \in Ins |-> IF k \in Ins \cap Before(i)
                                  THEN IF k \in T THEN data[k] ELSE NoData ELSE w.x[k]]
             Z == [k \in Ins |-> IF k \in Before(i) THEN a.x[k] ELSE Unknown]
  <2>1. WithReceived(w, Ins \cap Before(i), T, data) = [w EXCEPT !.x = Y]
    BY DEF WithReceived
  <2>2. Y = Z  BY <1>6, <1>9
  <2>3. Seen(i, a) = [s |-> a.s, x |-> Z]  BY DEF Seen
  <2> HIDE DEF Y, Z
  <2>4. WithReceived(w, Ins \cap Before(i), T, data) = Seen(i, a)
    BY <1>7, <1>9, <2>1, <2>2, <2>3
  <2> QED BY <1>4, <2>4 DEF IsTaken
<1>11. ASSUME NEW i \in Ins
       PROVE  a.x[i] = IF RecvPred(i, Seen(i, a)) /\ (i \in NonBlocking => found[i])
                         THEN st.used[i] + 1 ELSE NoData
  <2>1. a.x[i] = IF i \in T THEN data[i] ELSE NoData  BY <1>9
  <2> HIDE DEF X
  <2> QED BY <1>5, <1>10, <2>1
<1>12. a.x = [i \in Ins |-> a.x[i]]  BY <1>9
<1> QED BY <1>9, <1>11, <1>12 DEF a

(* A state of the sequential run. *)
Runs(V) ==
  [s : [Elems -> V], used : [Ins -> Nat], sent : [Outs -> Seq(Activations)]]

(* An iteration from such a state is an activation that knows everything,  *)
(* and leads to such a state.                                              *)
LEMMA IterationType ==
  ASSUME NEW V, StatesIn(V), NEW st \in Runs(V), NEW found
  PROVE  /\ Iteration(st, found) \in Activations
         /\ Iteration(st, found).x \in [Ins -> Nat]
         /\ After(st, Iteration(st, found)) \in Runs(V)
         /\ \A n \in Stages : KnownAt(n, Iteration(st, found)) \in Activations
<1> DEFINE a == Iteration(st, found)
           b == After(st, a)
<1>0. V \subseteq Nat /\ Unknown \notin Nat  BY BlockAssumption DEF StatesIn
<1>1. /\ a.s = st.s
      /\ \A i \in Ins :
           a.x[i] = IF RecvPred(i, Seen(i, a)) /\ (i \in NonBlocking => found[i])
                      THEN st.used[i] + 1 ELSE NoData
      /\ a.x = [i \in Ins |-> a.x[i]]
      /\ a = [s |-> a.s, x |-> a.x]
  BY IterationFields
<1>2. /\ st.s \in [Elems -> V] /\ st.used \in [Ins -> Nat]
      /\ st.sent \in [Outs -> Seq(Activations)]
  BY DEF Runs
<1> HIDE DEF a
<1>3. a.x \in [Ins -> Nat]
  <2>1. \A i \in Ins : a.x[i] \in Nat  BY <1>1, <1>2 DEF NoData
  <2> QED BY <1>1, <2>1
<1>4. a \in Activations  BY <1>0, <1>1, <1>2, <1>3 DEF Activations
<1>5. \A n \in Stages : KnownAt(n, a) \in Activations
  BY <1>4 DEF KnownAt, Activations
<1>6. b.s \in [Elems -> V]
  <2>1. \A e \in Elems : Knows(V, WriteStage[e], a)
    BY <1>1, <1>2, <1>3, <1>4 DEF Knows
  <2>2. \A e \in Elems : NextState(e, a) \in V
    BY <1>4, <2>1 DEF StatesIn
  <2> QED BY <2>2 DEF After
<1>7. b.used \in [Ins -> Nat]  BY <1>2, <1>3 DEF After
<1>8. b.sent \in [Outs -> Seq(Activations)]
  <2>1. ASSUME NEW k \in Outs PROVE b.sent[k] \in Seq(Activations)
    <3>1. KnownAt(SendStage[k], a) \in Activations  BY <1>5, BlockAssumption
    <3>2. st.sent[k] \in Seq(Activations)  BY <1>2
    <3>3. Append(st.sent[k], KnownAt(SendStage[k], a)) \in Seq(Activations)
      BY <3>1, <3>2
    <3> QED BY <3>2, <3>3 DEF After
  <2>2. b.sent = [k \in Outs |-> b.sent[k]]  BY DEF After
  <2> QED BY <2>1, <2>2
<1>9. b = [s |-> b.s, used |-> b.used, sent |-> b.sent]  BY DEF After
<1> HIDE DEF b
<1>10. b \in Runs(V)  BY <1>6, <1>7, <1>8, <1>9 DEF Runs
<1> QED BY <1>3, <1>4, <1>5, <1>10 DEF a, b

(* The sequential run has its type throughout. *)
LEMMA SequentialType ==
  ASSUME NEW V, StatesIn(V), NEW F
  PROVE  \A j \in Nat : Sequential(F)[j] \in Runs(V)
<1> DEFINE S == {j \in Nat : Sequential(F)[j] \in Runs(V)}
<1>1. 0 \in S
  <2>1. Sequential(F)[0] = Start  BY SequentialUnfolds
  <2>2. [k \in Outs |-> <<>>] \in [Outs -> Seq(Activations)]  OBVIOUS
  <2>3. Start \in Runs(V)  BY <2>2 DEF Start, Runs, StatesIn
  <2> QED BY <2>1, <2>3
<1>2. ASSUME NEW k \in Nat, k \in S PROVE k + 1 \in S
  <2>1. Sequential(F)[k + 1] = Following(F, Sequential(F)[k], k + 1)
    BY SequentialUnfolds
  <2>2. Sequential(F)[k] \in Runs(V)  BY <1>2
  <2>3. Following(F, Sequential(F)[k], k + 1) \in Runs(V)
    BY <2>2, IterationType DEF Following
  <2> QED BY <2>1, <2>3
<1> HIDE DEF S
<1>3. \A j \in Nat : j \in S  BY <1>1, <1>2, OverNat
<1> QED BY <1>3 DEF S

(* What the iteration after the first j is, and what it leads to. *)
Iterated(V, F, j) ==
  LET a  == Iterate(F, j)
      st == Sequential(F)[j]
      nx == Sequential(F)[j + 1]
  IN  /\ st \in Runs(V) /\ a \in Activations
      /\ a.s = st.s /\ a.x \in [Ins -> Nat]
      /\ \A n \in Stages : KnownAt(n, a) \in Activations
      /\ \A i \in Ins :
           a.x[i] = IF RecvPred(i, Seen(i, a)) /\ (i \in NonBlocking => F[j + 1][i])
                      THEN st.used[i] + 1 ELSE NoData
      /\ \A e \in Elems : nx.s[e] = NextState(e, a)
      /\ \A i \in Ins :
           nx.used[i] = IF a.x[i] = NoData THEN st.used[i] ELSE a.x[i]
      /\ \A k \in Outs :
           nx.sent[k] = IF SendPred(k, KnownAt(SendStage[k], a))
                          THEN Append(st.sent[k], KnownAt(SendStage[k], a))
                          ELSE st.sent[k]

(* The iteration is that. *)
LEMMA IterateIs ==
  ASSUME NEW V, StatesIn(V), NEW F, NEW j \in Nat
  PROVE  Iterated(V, F, j)
<1> DEFINE a  == Iterate(F, j)
           st == Sequential(F)[j]
           nx == Sequential(F)[j + 1]
<1>1. st \in Runs(V)  BY SequentialType
<1>2. nx = After(st, a)  BY SequentialUnfolds DEF Following, Iterate
<1>3. /\ a \in Activations /\ a.x \in [Ins -> Nat]
      /\ \A n \in Stages : KnownAt(n, a) \in Activations
  BY <1>1, IterationType DEF Iterate
<1>4. /\ a.s = st.s
      /\ \A i \in Ins :
           a.x[i] = IF RecvPred(i, Seen(i, a)) /\ (i \in NonBlocking => F[j + 1][i])
                      THEN st.used[i] + 1 ELSE NoData
  <2>1. PICK found : found = F[j + 1]  OBVIOUS
  <2> DEFINE b == Iteration(st, found)
  <2>2. a = b  BY <2>1 DEF Iterate
  <2> HIDE DEF a, st
  <2>3. /\ b.s = st.s
        /\ \A i \in Ins :
             b.x[i] = IF RecvPred(i, Seen(i, b)) /\ (i \in NonBlocking => found[i])
                        THEN st.used[i] + 1 ELSE NoData
    BY IterationFields
  <2> HIDE DEF b
  <2> QED BY <2>1, <2>2, <2>3
<1> HIDE DEF a, st, nx
<1>5. /\ \A e \in Elems : nx.s[e] = NextState(e, a)
      /\ \A i \in Ins : nx.used[i] = IF a.x[i] = NoData THEN st.used[i] ELSE a.x[i]
      /\ \A k \in Outs : nx.sent[k] = IF SendPred(k, KnownAt(SendStage[k], a))
                                      THEN Append(st.sent[k], KnownAt(SendStage[k], a))
                                      ELSE st.sent[k]
  BY <1>2 DEF After
<1> QED BY <1>1, <1>3, <1>4, <1>5 DEF Iterated, a, st, nx

(* t goes on from s. *)
GoesOn(s, t) == \E r \in Seq(Activations) : t = s \o r

(* What a sequence goes on from is a prefix of it. *)
LEMMA GoesOnIsPrefix ==
  ASSUME NEW s \in Seq(Activations), NEW t, GoesOn(s, t)
  PROVE  IsPrefix(s, t)
<1>1. PICK r \in Seq(Activations) : t = s \o r  BY DEF GoesOn
<1>2. /\ t \in Seq(Activations) /\ Len(t) = Len(s) + Len(r)
      /\ \A i \in 1..Len(s) : t[i] = s[i]
  BY <1>1, ConcatProperties
<1>3. Len(s) \in Nat /\ Len(r) \in Nat  OBVIOUS
<1>4. Len(s) <= Len(t)  BY <1>2, <1>3
<1> QED BY <1>2, <1>3, <1>4 DEF IsPrefix

(* Going on is transitive. *)
LEMMA GoesOnTransitive ==
  ASSUME NEW s \in Seq(Activations), NEW t, NEW u, GoesOn(s, t), GoesOn(t, u)
  PROVE  GoesOn(s, u)
<1>1. PICK q \in Seq(Activations) : t = s \o q  BY DEF GoesOn
<1>2. PICK r \in Seq(Activations) : u = t \o r  BY DEF GoesOn
<1>3. u = s \o (q \o r)  BY <1>1, <1>2, ConcatAssociative
<1>4. q \o r \in Seq(Activations)  BY ConcatProperties
<1> QED BY <1>3, <1>4 DEF GoesOn

(* A send puts one datum at the end. *)
LEMMA OneMoreSent ==
  ASSUME NEW s \in Seq(Activations), NEW a \in Activations
  PROVE  Append(s, a) = s \o <<a>> /\ <<a>> \in Seq(Activations)
<1>1. <<a>> \in Seq(Activations) /\ Len(<<a>>) = 1 /\ <<a>>[1] = a  OBVIOUS
<1>2. Append(s, a) = s \o <<a>>  BY <1>1
<1> QED BY <1>1, <1>2

(* What the run has sent only grows. *)
LEMMA SentGrows ==
  ASSUME NEW V, StatesIn(V), NEW F, NEW k \in Outs,
         NEW m \in Nat, NEW n \in Nat, m <= n
  PROVE  GoesOn(Sequential(F)[m].sent[k], Sequential(F)[n].sent[k])
<1> DEFINE sent(j) == Sequential(F)[j].sent[k]
           S == {d \in Nat : GoesOn(sent(m), sent(m + d))}
<1>1. ASSUME NEW j \in Nat
      PROVE  sent(j) \in Seq(Activations) /\ GoesOn(sent(j), sent(j + 1))
  <2> DEFINE d == KnownAt(SendStage[k], Iterate(F, j))
  <2>0. SendStage[k] \in Stages  BY BlockAssumption
  <2>1. /\ Sequential(F)[j] \in Runs(V) /\ d \in Activations
        /\ sent(j + 1) = IF SendPred(k, d) THEN Append(sent(j), d) ELSE sent(j)
    <3>1. Iterated(V, F, j)  BY IterateIs
    <3> QED BY <2>0, <3>1 DEF Iterated
  <2>2. sent(j) \in Seq(Activations)  BY <2>1 DEF Runs
  <2> HIDE DEF sent, d
  <2>3. Append(sent(j), d) = sent(j) \o <<d>> /\ <<d>> \in Seq(Activations)
    BY <2>1, <2>2, OneMoreSent
  <2>4. sent(j) = sent(j) \o <<>> /\ <<>> \in Seq(Activations)
    BY <2>2, ConcatEmptySeq
  <2>5. CASE SendPred(k, d)  BY <2>1, <2>2, <2>3, <2>5 DEF GoesOn
  <2>6. CASE ~SendPred(k, d)  BY <2>1, <2>2, <2>4, <2>6 DEF GoesOn
  <2> QED BY <2>2, <2>5, <2>6
<1> HIDE DEF sent
<1>2. 0 \in S
  <2>1. sent(m) = sent(m) \o <<>> /\ <<>> \in Seq(Activations) /\ m + 0 = m
    BY <1>1, ConcatEmptySeq
  <2> QED BY <2>1 DEF GoesOn
<1>3. ASSUME NEW d \in Nat, d \in S PROVE d + 1 \in S
  <2>1. m + d \in Nat /\ (m + d) + 1 = m + (d + 1) /\ d + 1 \in Nat  OBVIOUS
  <2>2. GoesOn(sent(m), sent(m + d)) /\ GoesOn(sent(m + d), sent(m + (d + 1)))
    BY <1>1, <1>3, <2>1
  <2>3. GoesOn(sent(m), sent(m + (d + 1)))
    BY <1>1, <2>2, GoesOnTransitive
  <2> QED BY <2>1, <2>3
<1> HIDE DEF S
<1>4. \A d \in Nat : d \in S  BY <1>2, <1>3, OverNat
<1>5. n - m \in Nat /\ m + (n - m) = n  OBVIOUS
<1>6. n - m \in S  BY <1>4, <1>5
<1> QED BY <1>5, <1>6 DEF S, sent

-----------------------------------------------------------------------------
(***************************************************************************)
(* The buffers at the ports are queues.                                    *)
(***************************************************************************)

(* What a buffer holds, the oldest first. *)
Held(b) ==
  (IF b.valid_skid THEN <<b.skid>> ELSE <<>>) \o (IF b.valid THEN <<b.data>> ELSE <<>>)

(* A buffer at an input, where the data are numbers: it holds those after  *)
(* u, up to c.                                                             *)
Numbered(b, u, c) ==
  /\ b.valid_skid => b.skid = u + 1
  /\ b.valid => b.data = u + (IF b.valid_skid THEN 2 ELSE 1)
  /\ c = u + (IF b.valid_skid THEN 1 ELSE 0) + (IF b.valid THEN 1 ELSE 0)

(* The registers after the clock edge, for every kind of buffer in use. *)
LEMMA BufferEdge ==
  ASSUME NEW kind \in Kinds, NEW b, IsBuffer(b), UnusedEmpty(kind, b),
         NEW fv \in BOOLEAN, NEW fd, NEW tr \in BOOLEAN
  PROVE  LET c == NextBuffer(kind, b, fv, fd, tr)
         IN  /\ c.valid \in BOOLEAN /\ c.valid_skid \in BOOLEAN
             /\ kind = "none" => c = b
             /\ kind = "flop" =>
                  /\ c.valid = (IF tr \/ ~b.valid THEN fv ELSE b.valid)
                  /\ c.data = (IF fv /\ (tr \/ ~b.valid) THEN fd ELSE b.data)
                  /\ ~c.valid_skid
             /\ kind = "skid" =>
                  /\ c.valid = (IF (b.valid /\ tr /\ ~b.valid_skid)
                                   \/ (fv /\ ~b.valid_skid) THEN fv ELSE b.valid)
                  /\ c.data = (IF fv /\ ~b.valid_skid THEN fd ELSE b.data)
                  /\ c.valid_skid = (IF b.valid_skid THEN ~tr
                                     ELSE b.valid /\ fv /\ ~tr)
                  /\ c.skid = (IF b.valid /\ (fv /\ ~b.valid_skid) /\ ~tr
                               THEN b.data ELSE b.skid)
             /\ kind = "zero" =>
                  /\ ~c.valid
                  /\ c.valid_skid = (IF b.valid_skid THEN ~tr ELSE fv /\ ~tr)
                  /\ c.skid = (IF fv /\ ~b.valid_skid /\ ~tr THEN fd ELSE b.skid)
<1> DEFINE c == NextBuffer(kind, b, fv, fd, tr)
<1>0. /\ b.valid \in BOOLEAN /\ b.valid_skid \in BOOLEAN
      /\ c.valid \in BOOLEAN /\ c.valid_skid \in BOOLEAN
      /\ UnusedEmpty(kind, c)
  BY BufferStep DEF IsBuffer
<1>1. CASE kind = "none"
  BY <1>0, <1>1 DEF NextBuffer
<1>2. CASE kind = "flop"
  <2>1. c = NextFlop(b, fv, fd, tr)  BY <1>2 DEF NextBuffer
  <2>2. /\ c.valid = (IF tr \/ ~b.valid THEN fv ELSE b.valid)
        /\ c.data = (IF fv /\ (tr \/ ~b.valid) THEN fd ELSE b.data)
    BY <2>1 DEF NextFlop, IsBuffer
  <2>3. ~c.valid_skid  BY <1>0, <1>2 DEF UnusedEmpty
  <2> QED BY <1>0, <1>2, <2>2, <2>3
<1>3. CASE kind = "skid"
  <2>1. c = NextSkid(b, fv, fd, tr)  BY <1>3 DEF NextBuffer
  <2>2. /\ c.valid = (IF (b.valid /\ tr /\ ~b.valid_skid)
                         \/ (fv /\ ~b.valid_skid) THEN fv ELSE b.valid)
        /\ c.data = (IF fv /\ ~b.valid_skid THEN fd ELSE b.data)
        /\ c.valid_skid = (IF (b.valid /\ (fv /\ ~b.valid_skid) /\ ~tr)
                              \/ (b.valid_skid /\ tr)
                             THEN ~b.valid_skid ELSE b.valid_skid)
        /\ c.skid = (IF b.valid /\ (fv /\ ~b.valid_skid) /\ ~tr
                        THEN b.data ELSE b.skid)
    BY <2>1, SkidEdge
  <2> HIDE DEF c
  <2>3. c.valid_skid = (IF b.valid_skid THEN ~tr ELSE b.valid /\ fv /\ ~tr)
    BY <1>0, <2>2
  <2>4. /\ kind = "skid" =>
            /\ c.valid = (IF (b.valid /\ tr /\ ~b.valid_skid)
                             \/ (fv /\ ~b.valid_skid) THEN fv ELSE b.valid)
            /\ c.data = (IF fv /\ ~b.valid_skid THEN fd ELSE b.data)
            /\ c.valid_skid = (IF b.valid_skid THEN ~tr
                                  ELSE b.valid /\ fv /\ ~tr)
            /\ c.skid = (IF b.valid /\ (fv /\ ~b.valid_skid) /\ ~tr
                          THEN b.data ELSE b.skid)
    BY <2>2, <2>3
  <2> QED BY <1>0, <1>3, <2>4 DEF c
<1>4. CASE kind = "zero"
  <2>1. c = NextZeroLatency(b, fv, fd, tr)  BY <1>4 DEF NextBuffer
  <2>2. /\ c.valid_skid = (IF b.valid_skid THEN ~tr ELSE fv /\ ~tr)
        /\ c.skid = (IF fv /\ ~b.valid_skid /\ ~tr THEN fd ELSE b.skid)
    BY <1>0, <2>1 DEF NextZeroLatency, IsBuffer
  <2>3. ~c.valid  BY <1>0, <1>4 DEF UnusedEmpty
  <2> QED BY <1>0, <1>4, <2>2, <2>3
<1> QED BY <1>1, <1>2, <1>3, <1>4 DEF Kinds

(* A buffer at an input presents the next number, and holds the ones after *)
(* it when that is taken.                                                  *)
LEMMA InputQueue ==
  ASSUME NEW kind \in Kinds, NEW b, IsBuffer(b), UnusedEmpty(kind, b),
         NEW fv \in BOOLEAN, NEW tr \in BOOLEAN,
         NEW u \in Nat, NEW c \in Nat, Numbered(b, u, c)
  PROVE  /\ ToValid(kind, b, fv) => ToData(kind, b, c + 1) = u + 1
         /\ Numbered(NextBuffer(kind, b, fv, c + 1, tr),
                     IF ToValid(kind, b, fv) /\ tr THEN u + 1 ELSE u,
                     IF fv /\ FromRdy(kind, b, fv, tr) THEN c + 1 ELSE c)
<1> DEFINE d == NextBuffer(kind, b, fv, c + 1, tr)
           u2 == IF ToValid(kind, b, fv) /\ tr THEN u + 1 ELSE u
           c2 == IF fv /\ FromRdy(kind, b, fv, tr) THEN c + 1 ELSE c
<1>0. /\ b.valid \in BOOLEAN /\ b.valid_skid \in BOOLEAN
      /\ d.valid \in BOOLEAN /\ d.valid_skid \in BOOLEAN
  BY BufferStep DEF IsBuffer
<1>1. /\ b.valid_skid => b.skid = u + 1
      /\ b.valid => b.data = u + (IF b.valid_skid THEN 2 ELSE 1)
      /\ c = u + (IF b.valid_skid THEN 1 ELSE 0) + (IF b.valid THEN 1 ELSE 0)
  BY DEF Numbered
<1>2. CASE kind = "none"
  <2>1. d = b /\ ~b.valid /\ ~b.valid_skid
    BY <1>2, BufferEdge DEF UnusedEmpty
  <2>2. c = u  BY <1>1, <2>1
  <2>3. u2 = c2  BY <1>2, <2>2 DEF ToValid, FromRdy
  <2>4. u2 \in Nat  OBVIOUS
  <2> HIDE DEF d, u2, c2
  <2>5. Numbered(d, u2, c2)  BY <2>1, <2>3, <2>4 DEF Numbered
  <2> QED BY <1>2, <2>2, <2>5 DEF d, u2, c2, ToData
<1>3. CASE kind = "flop"
  <2>1. /\ ~b.valid_skid /\ ~d.valid_skid
        /\ d.valid = (IF tr \/ ~b.valid THEN fv ELSE b.valid)
        /\ d.data = (IF fv /\ (tr \/ ~b.valid) THEN c + 1 ELSE b.data)
    BY <1>3, BufferEdge DEF UnusedEmpty
  <2>2. /\ u2 = IF b.valid /\ tr THEN u + 1 ELSE u
        /\ c2 = IF fv /\ (tr \/ ~b.valid) THEN c + 1 ELSE c
    BY <1>3 DEF ToValid, FromRdy
  <2> HIDE DEF d, u2, c2
  <2>3. Numbered(d, u2, c2)  BY <1>0, <1>1, <2>1, <2>2 DEF Numbered
  <2>4. ToValid(kind, b, fv) => ToData(kind, b, c + 1) = u + 1
    BY <1>1, <1>3, <2>1 DEF ToValid, ToData
  <2> QED BY <2>3, <2>4 DEF d, u2, c2
<1>4. CASE kind = "skid"
  <2>1. /\ d.valid = (IF (b.valid /\ tr /\ ~b.valid_skid)
                         \/ (fv /\ ~b.valid_skid) THEN fv ELSE b.valid)
        /\ d.data = (IF fv /\ ~b.valid_skid THEN c + 1 ELSE b.data)
        /\ d.valid_skid = (IF b.valid_skid THEN ~tr ELSE b.valid /\ fv /\ ~tr)
        /\ d.skid = (IF b.valid /\ (fv /\ ~b.valid_skid) /\ ~tr
                        THEN b.data ELSE b.skid)
    BY <1>4, BufferEdge
  <2>2. /\ u2 = IF (b.valid \/ b.valid_skid) /\ tr THEN u + 1 ELSE u
        /\ c2 = IF fv /\ ~b.valid_skid THEN c + 1 ELSE c
    BY <1>4 DEF ToValid, FromRdy
  <2> HIDE DEF d, u2, c2
  <2>3. Numbered(d, u2, c2)
    <3>1. CASE b.valid_skid
      <4>1. /\ d.valid = b.valid /\ d.data = b.data /\ d.skid = b.skid
            /\ (tr => ~d.valid_skid) /\ (~tr => d.valid_skid)
            /\ c2 = c /\ u2 = IF tr THEN u + 1 ELSE u
        BY <1>0, <2>1, <2>2, <3>1
      <4>2. CASE tr  BY <1>0, <1>1, <3>1, <4>1, <4>2 DEF Numbered
      <4>3. CASE ~tr  BY <1>0, <1>1, <3>1, <4>1, <4>3 DEF Numbered
      <4> QED BY <4>2, <4>3
    <3>2. CASE ~b.valid_skid /\ tr
      BY <1>0, <1>1, <2>1, <2>2, <3>2 DEF Numbered
    <3>3. CASE ~b.valid_skid /\ ~tr /\ b.valid
      BY <1>0, <1>1, <2>1, <2>2, <3>3 DEF Numbered
    <3>4. CASE ~b.valid_skid /\ ~tr /\ ~b.valid
      BY <1>0, <1>1, <2>1, <2>2, <3>4 DEF Numbered
    <3> QED BY <3>1, <3>2, <3>3, <3>4
  <2>4. ToValid(kind, b, fv) => ToData(kind, b, c + 1) = u + 1
    BY <1>0, <1>1, <1>4 DEF ToValid, ToData
  <2> QED BY <2>3, <2>4 DEF d, u2, c2
<1>5. CASE kind = "zero"
  <2>1. /\ ~b.valid /\ ~d.valid
        /\ d.valid_skid = (IF b.valid_skid THEN ~tr ELSE fv /\ ~tr)
        /\ d.skid = (IF fv /\ ~b.valid_skid /\ ~tr THEN c + 1 ELSE b.skid)
    BY <1>5, BufferEdge DEF UnusedEmpty
  <2>2. /\ u2 = IF (fv \/ b.valid_skid) /\ tr THEN u + 1 ELSE u
        /\ c2 = IF fv /\ ~b.valid_skid THEN c + 1 ELSE c
    BY <1>5 DEF ToValid, FromRdy
  <2> HIDE DEF d, u2, c2
  <2>3. Numbered(d, u2, c2)  BY <1>0, <1>1, <2>1, <2>2 DEF Numbered
  <2>4. ToValid(kind, b, fv) => ToData(kind, b, c + 1) = u + 1
    BY <1>0, <1>1, <1>5, <2>1 DEF ToValid, ToData
  <2> QED BY <2>3, <2>4 DEF d, u2, c2
<1> QED BY <1>2, <1>3, <1>4, <1>5 DEF Kinds

(* Short sequences of activations. *)
LEMMA ShortSequences ==
  /\ \A x, y \in Activations : <<x>> \o <<y>> = <<x, y>>
  /\ \A x \in Activations : <<x>> \o <<>> = <<x>> /\ <<>> \o <<x>> = <<x>>
  /\ \A x, y \in Activations : <<x, y>> \o <<>> = <<x, y>> /\ <<>> \o <<x, y>> = <<x, y>>
  /\ \A x, y \in Activations : <<x, y>> \in Seq(Activations)
  /\ \A x \in Activations : <<x>> \in Seq(Activations)
  /\ <<>> \o <<>> = <<>>
<1>1. \A x, y \in Activations : <<x, y>> \in Seq(Activations)  OBVIOUS
<1>2. \A x \in Activations : <<x>> \in Seq(Activations)  OBVIOUS
<1>3. <<>> \in Seq(Activations)  OBVIOUS
<1>4. \A s \in Seq(Activations) : s \o <<>> = s /\ <<>> \o s = s
  BY ConcatEmptySeq
<1>5. ASSUME NEW x \in Activations, NEW y \in Activations
      PROVE  <<x>> \o <<y>> = <<x, y>>
  <2> DEFINE s == <<x>> \o <<y>>
  <2>1. s \in Seq(Activations) /\ Len(s) = 2 /\ s[1] = x /\ s[2] = y
    BY <1>2, ConcatProperties
  <2>2. <<x, y>> \in Seq(Activations) /\ Len(<<x, y>>) = 2
        /\ <<x, y>>[1] = x /\ <<x, y>>[2] = y
    OBVIOUS
  <2> HIDE DEF s
  <2>3. \A i \in 1..2 : s[i] = <<x, y>>[i]  BY <2>1, <2>2
  <2>4. s = <<x, y>>  BY <2>1, <2>2, <2>3, SeqEqual
  <2> QED BY <2>4 DEF s
<1> QED BY <1>1, <1>2, <1>3, <1>4, <1>5

(* What a buffer holds, case by case. *)
LEMMA HeldIs ==
  ASSUME NEW b \in Buffers(Activations)
  PROVE  /\ Held(b) = IF b.valid_skid
                        THEN IF b.valid THEN <<b.skid, b.data>> ELSE <<b.skid>>
                        ELSE IF b.valid THEN <<b.data>> ELSE <<>>
         /\ Held(b) \in Seq(Activations)
<1>1. /\ b.valid \in BOOLEAN /\ b.valid_skid \in BOOLEAN
      /\ b.data \in Activations /\ b.skid \in Activations
  BY DEF Buffers
<1>2. /\ <<b.skid>> \o <<b.data>> = <<b.skid, b.data>>
      /\ <<b.skid>> \o <<>> = <<b.skid>> /\ <<>> \o <<b.data>> = <<b.data>>
      /\ <<>> \o <<>> = <<>>
      /\ <<b.skid, b.data>> \in Seq(Activations)
      /\ <<b.skid>> \in Seq(Activations) /\ <<b.data>> \in Seq(Activations)
  BY <1>1, ShortSequences
<1>3. <<>> \in Seq(Activations)  OBVIOUS
<1>4. CASE b.valid_skid /\ b.valid  BY <1>2, <1>4 DEF Held
<1>5. CASE b.valid_skid /\ ~b.valid  BY <1>2, <1>5 DEF Held
<1>6. CASE ~b.valid_skid /\ b.valid  BY <1>2, <1>6 DEF Held
<1>7. CASE ~b.valid_skid /\ ~b.valid  BY <1>2, <1>3, <1>7 DEF Held
<1> QED BY <1>4, <1>5, <1>6, <1>7

(* What leaves a buffer, and what it holds then, is what it held and what  *)
(* came in.                                                                *)
LEMMA BufferIsQueue ==
  ASSUME NEW kind \in Kinds, NEW b \in Buffers(Activations), UnusedEmpty(kind, b),
         NEW fv \in BOOLEAN, NEW fd \in Activations, NEW tr \in BOOLEAN
  PROVE  (IF ToValid(kind, b, fv) /\ tr THEN <<ToData(kind, b, fd)>> ELSE <<>>)
           \o Held(NextBuffer(kind, b, fv, fd, tr))
         = Held(b) \o (IF fv /\ FromRdy(kind, b, fv, tr) THEN <<fd>> ELSE <<>>)
<1> DEFINE c == NextBuffer(kind, b, fv, fd, tr)
           out == IF ToValid(kind, b, fv) /\ tr THEN <<ToData(kind, b, fd)>> ELSE <<>>
           in == IF fv /\ FromRdy(kind, b, fv, tr) THEN <<fd>> ELSE <<>>
<1>0. /\ b.valid \in BOOLEAN /\ b.valid_skid \in BOOLEAN
      /\ b.data \in Activations /\ b.skid \in Activations
      /\ IsBuffer(b)
  BY DEF Buffers, IsBuffer
<1>1. c \in Buffers(Activations)  BY BufferType
<1>2. /\ c.valid \in BOOLEAN /\ c.valid_skid \in BOOLEAN
      /\ c.data \in Activations /\ c.skid \in Activations
  BY <1>1 DEF Buffers
<1>3. Held(b) = IF b.valid_skid
                  THEN IF b.valid THEN <<b.skid, b.data>> ELSE <<b.skid>>
                  ELSE IF b.valid THEN <<b.data>> ELSE <<>>
  BY HeldIs
<1>4. Held(c) = IF c.valid_skid
                  THEN IF c.valid THEN <<c.skid, c.data>> ELSE <<c.skid>>
                  ELSE IF c.valid THEN <<c.data>> ELSE <<>>
  BY <1>1, HeldIs
<1>5. CASE kind = "none"
  <2>1. c = b /\ ~b.valid /\ ~b.valid_skid
    BY <1>0, <1>5, BufferEdge DEF UnusedEmpty
  <2>2. Held(b) = <<>> /\ Held(c) = <<>>  BY <1>3, <2>1
  <2>3. out = in /\ out \in Seq(Activations)
    BY <1>5 DEF ToValid, ToData, FromRdy
  <2> HIDE DEF c, out, in
  <2>4. out \o Held(c) = Held(b) \o in
    BY <2>2, <2>3, ConcatEmptySeq
  <2> QED BY <2>4 DEF c, out, in
<1>6. CASE kind = "flop"
  <2>1. /\ ~b.valid_skid /\ ~c.valid_skid
        /\ c.valid = (IF tr \/ ~b.valid THEN fv ELSE b.valid)
        /\ c.data = (IF fv /\ (tr \/ ~b.valid) THEN fd ELSE b.data)
    BY <1>0, <1>6, BufferEdge DEF UnusedEmpty
  <2>2. /\ out = IF b.valid /\ tr THEN <<b.data>> ELSE <<>>
        /\ in = IF fv /\ (tr \/ ~b.valid) THEN <<fd>> ELSE <<>>
    BY <1>6 DEF ToValid, ToData, FromRdy
  <2> HIDE DEF c, out, in
  <2>3. out \o Held(c) = Held(b) \o in
    BY <1>0, <1>2, <1>3, <1>4, <2>1, <2>2, ShortSequences
  <2> QED BY <2>3 DEF c, out, in
<1>7. CASE kind = "skid"
  <2>1. /\ c.valid = (IF (b.valid /\ tr /\ ~b.valid_skid)
                         \/ (fv /\ ~b.valid_skid) THEN fv ELSE b.valid)
        /\ c.data = (IF fv /\ ~b.valid_skid THEN fd ELSE b.data)
        /\ c.valid_skid = (IF b.valid_skid THEN ~tr ELSE b.valid /\ fv /\ ~tr)
        /\ c.skid = (IF b.valid /\ (fv /\ ~b.valid_skid) /\ ~tr
                        THEN b.data ELSE b.skid)
    BY <1>0, <1>7, BufferEdge
  <2>2. /\ out = IF (b.valid \/ b.valid_skid) /\ tr
                   THEN <<IF b.valid_skid THEN b.skid ELSE b.data>> ELSE <<>>
        /\ in = IF fv /\ ~b.valid_skid THEN <<fd>> ELSE <<>>
    BY <1>7 DEF ToValid, ToData, FromRdy
  <2> HIDE DEF c, out, in
  <2>3. out \o Held(c) = Held(b) \o in
    <3>1. CASE b.valid_skid
      <4>1. /\ c.valid = b.valid /\ c.data = b.data /\ c.skid = b.skid
            /\ (tr => ~c.valid_skid) /\ (~tr => c.valid_skid) /\ in = <<>>
            /\ out = IF tr THEN <<b.skid>> ELSE <<>>
        BY <1>0, <2>1, <2>2, <3>1
      <4>2. CASE tr
        <5>1. Held(c) = IF b.valid THEN <<b.data>> ELSE <<>>
          BY <1>4, <4>1, <4>2
        <5>2. out = <<b.skid>>  BY <4>1, <4>2
        <5>3. CASE b.valid
          <6>1. Held(c) = <<b.data>> /\ Held(b) = <<b.skid, b.data>>
            BY <1>3, <3>1, <5>1, <5>3
          <6>2. /\ <<b.skid>> \o <<b.data>> = <<b.skid, b.data>>
                /\ <<b.skid, b.data>> \o <<>> = <<b.skid, b.data>>
            BY <1>0, ShortSequences
          <6> QED BY <4>1, <5>2, <6>1, <6>2
        <5>4. CASE ~b.valid
          <6>1. Held(c) = <<>> /\ Held(b) = <<b.skid>>
            BY <1>3, <3>1, <5>1, <5>4
          <6> QED BY <4>1, <5>2, <6>1
        <5> QED BY <5>3, <5>4
      <4>3. CASE ~tr
        <5>1. Held(c) = Held(b)  BY <1>3, <1>4, <3>1, <4>1, <4>3
        <5>2. Held(b) \in Seq(Activations)  BY HeldIs
        <5> QED BY <4>1, <4>3, <5>1, <5>2, ConcatEmptySeq
      <4> QED BY <4>2, <4>3
    <3>2. CASE ~b.valid_skid /\ b.valid
      <4>1. Held(b) = <<b.data>>  BY <1>3, <3>2
      <4>2. CASE fv /\ tr
        <5>1. out = <<b.data>> /\ in = <<fd>> /\ Held(c) = <<fd>>
          BY <1>2, <1>4, <2>1, <2>2, <3>2, <4>2
        <5> QED BY <4>1, <5>1
      <4>3. CASE fv /\ ~tr
        <5>1. out = <<>> /\ in = <<fd>> /\ Held(c) = <<b.data, fd>>
          BY <1>2, <1>4, <2>1, <2>2, <3>2, <4>3
        <5> QED BY <1>0, <4>1, <5>1, ShortSequences
      <4>4. CASE ~fv /\ tr
        <5>1. out = <<b.data>> /\ in = <<>> /\ Held(c) = <<>>
          BY <1>2, <1>4, <2>1, <2>2, <3>2, <4>4
        <5> QED BY <4>1, <5>1
      <4>5. CASE ~fv /\ ~tr
        <5>1. out = <<>> /\ in = <<>> /\ Held(c) = <<b.data>>
          BY <1>2, <1>4, <2>1, <2>2, <3>2, <4>5
        <5> QED BY <1>0, <4>1, <5>1, ShortSequences
      <4> QED BY <4>2, <4>3, <4>4, <4>5
    <3>3. CASE ~b.valid_skid /\ ~b.valid
      BY <1>0, <1>2, <1>3, <1>4, <2>1, <2>2, <3>3, ShortSequences
    <3> QED BY <3>1, <3>2, <3>3
  <2> QED BY <2>3 DEF c, out, in
<1>8. CASE kind = "zero"
  <2>1. /\ ~b.valid /\ ~c.valid
        /\ c.valid_skid = (IF b.valid_skid THEN ~tr ELSE fv /\ ~tr)
        /\ c.skid = (IF fv /\ ~b.valid_skid /\ ~tr THEN fd ELSE b.skid)
    BY <1>0, <1>8, BufferEdge DEF UnusedEmpty
  <2>2. /\ out = IF (fv \/ b.valid_skid) /\ tr
                   THEN <<IF b.valid_skid THEN b.skid ELSE fd>> ELSE <<>>
        /\ in = IF fv /\ ~b.valid_skid THEN <<fd>> ELSE <<>>
    BY <1>8 DEF ToValid, ToData, FromRdy
  <2> HIDE DEF c, out, in
  <2>3. out \o Held(c) = Held(b) \o in
    BY <1>0, <1>2, <1>3, <1>4, <2>1, <2>2, ShortSequences
  <2> QED BY <2>3 DEF c, out, in
<1> QED BY <1>5, <1>6, <1>7, <1>8 DEF Kinds

-----------------------------------------------------------------------------
(***************************************************************************)
(* The invariant.  left[n] counts the activations that have left stage n,  *)
(* so that stage n works on iteration left[n] + 1.                         *)
(***************************************************************************)

(* A stage is one iteration behind the one before it if it is occupied;    *)
(* reader and writer of a state are one apart while the state is in        *)
(* flight; an iteration polls once.                                        *)
Counts(left) ==
  /\ left \in [Stages -> Nat] /\ left[0] = entered
  /\ \A n \in Stages \ {0} :
       left[n - 1] = left[n] + (IF pipeline_valid[n] THEN 1 ELSE 0)
  /\ \A n \in Stages : left[n] <= left[0]
  /\ \A e \in Elems :
       left[ReadStage[e]] = left[WriteStage[e]] + (IF reg_full[e] THEN 0 ELSE 1)
  /\ \A i \in NonBlocking : Len(polled[i]) = left[RecvStage[i]]

(* What iteration a brings into stage n. *)
KnownBefore(n, a) ==
  [s |-> [e \in Elems |-> IF ReadStage[e] < n THEN a.s[e] ELSE Unknown],
   x |-> [i \in Ins |-> IF RecvStage[i] < n THEN a.x[i] ELSE Unknown]]

StagesFollow(F, left) ==
  \A n \in Stages :
    pipeline_valid[n] => pipeline_reg[n] = KnownBefore(n, Iterate(F, left[n]))

StatesFollow(F, left) ==
  \A e \in Elems : state_reg[e] = Sequential(F)[left[WriteStage[e]]].s[e]

InputsFollow(F, left) ==
  \A i \in Ins :
    Numbered(ibuf[i], Sequential(F)[left[RecvStage[i]]].used[i], consumed[i])

(* What one-shot logic has sent ahead of the stage. *)
SentAhead(F, left, k) ==
  IF has_been_sent[k]
    THEN <<KnownAt(SendStage[k], Iterate(F, left[SendStage[k]]))>> ELSE <<>>

OutputsFollow(F, left) ==
  \A k \in Outs :
    produced[k] \o Held(obuf[k])
      = Sequential(F)[left[SendStage[k]]].sent[k] \o SentAhead(F, left, k)

Follows(F, left) ==
  /\ Counts(left)
  /\ StagesFollow(F, left) /\ StatesFollow(F, left)
  /\ InputsFollow(F, left) /\ OutputsFollow(F, left)

(* F is what the polls so far have found. *)
Agrees(F) ==
  \A i \in NonBlocking : \A j \in 1..Len(polled[i]) :
    F[j][i] = (polled[i][j] # NoData)

(* A one-shot register is only up while its stage could send. *)
SentInv == \A k \in Outs : has_been_sent[k] => OneShot /\ send_valid(k)

SequentialInv(V) ==
  /\ TypeInv(V) /\ PortsInv /\ SentInv
  /\ \A F \in Finds : Agrees(F) => \E left \in [Stages -> Nat] : Follows(F, left)

-----------------------------------------------------------------------------
(* The counts after a clock cycle. *)
LeftNext(left, next) ==
  next = [n \in Stages |-> IF data_load_enable[n] THEN left[n] + 1 ELSE left[n]]

(* Every stage that is left counts one more. *)
LEMMA LeftNextIs ==
  ASSUME NEW left \in [Stages -> Nat], NEW next, LeftNext(left, next)
  PROVE  /\ next \in [Stages -> Nat]
         /\ \A n \in Stages : data_load_enable[n] => next[n] = left[n] + 1
         /\ \A n \in Stages : ~data_load_enable[n] => next[n] = left[n]
BY DEF LeftNext

(* A clock cycle keeps the counts. *)
LEMMA CountsStep ==
  ASSUME OwnerInv, polled \in [NonBlocking -> Seq(Nat)],
         \A i \in Ins : Received(i) \in Nat,
         Clock, NEW left, Counts(left), NEW next, LeftNext(left, next)
  PROVE  Counts(next)'
<1>w. Wired  BY DEF OwnerInv
<1>0. /\ 0 \in Stages /\ N \in Nat /\ NonBlocking \subseteq Ins
      /\ \A n \in Stages : n \in Nat
      /\ \A n \in Stages \ {0} : n - 1 \in Stages
      /\ \A e \in Elems : ReadStage[e] \in Stages /\ WriteStage[e] \in Stages
      /\ \A i \in Ins : RecvStage[i] \in Stages
      /\ \A n \in Stages : data_load_enable[n] \in BOOLEAN /\ pipeline_valid[n] \in BOOLEAN
  BY <1>w, BlockAssumption DEF Stages, Wired
<1>1. /\ left \in [Stages -> Nat] /\ left[0] = entered
      /\ \A n \in Stages \ {0} :
           left[n - 1] = left[n] + (IF pipeline_valid[n] THEN 1 ELSE 0)
      /\ \A n \in Stages : left[n] <= left[0]
  BY DEF Counts
<1>2. /\ next \in [Stages -> Nat]
      /\ \A n \in Stages : data_load_enable[n] => next[n] = left[n] + 1
      /\ \A n \in Stages : ~data_load_enable[n] => next[n] = left[n]
  BY <1>1, LeftNextIs
<1>3. next[0] = entered'
  <2>1. entered' = entered + (IF data_load_enable[0] THEN 1 ELSE 0)
    BY DEF Clock, Transfer
  <2>2. entered \in Nat  BY <1>0, <1>1
  <2>3. CASE data_load_enable[0]
    BY <1>0, <1>1, <1>2, <2>1, <2>3
  <2>4. CASE ~data_load_enable[0]
    <3>1. entered' = entered + 0  BY <2>1, <2>4
    <3> QED BY <1>0, <1>1, <1>2, <2>2, <2>4, <3>1
  <2> QED BY <2>3, <2>4
<1>4. ASSUME NEW n \in Stages \ {0}
      PROVE  next[n - 1] = next[n] + (IF pipeline_valid'[n] THEN 1 ELSE 0)
  <2>1. pipeline_valid'[n] =
          (data_load_enable[n - 1] \/ (pipeline_valid[n] /\ ~data_load_enable[n]))
    BY <1>w, NextValid
  <2>2. data_load_enable[n] => pipeline_valid[n]  BY <1>w, LoadEnables
  <2>3. data_load_enable[n - 1] => data_load_enable[n] \/ ~pipeline_valid[n]
    <3>1. n - 1 \in Stages /\ n - 1 < N - 1 /\ (n - 1) + 1 = n
      BY <1>0 DEF Stages
    <3>2. data_load_enable[n - 1] => next_stage_open(n - 1)
      BY <1>w, <3>1, LoadEnables
    <3> QED BY <3>1, <3>2 DEF next_stage_open
  <2>4. /\ left[n - 1] = left[n] + (IF pipeline_valid[n] THEN 1 ELSE 0)
        /\ left[n] \in Nat /\ n - 1 \in Stages
    BY <1>0, <1>1
  <2>5. CASE data_load_enable[n - 1] /\ data_load_enable[n]
    <3>1. left[n - 1] = left[n] + 1 /\ pipeline_valid'[n]
      BY <2>1, <2>2, <2>4, <2>5
    <3>2. next[n - 1] = left[n - 1] + 1 /\ next[n] = left[n] + 1
      BY <1>2, <2>4, <2>5
    <3> QED BY <2>4, <3>1, <3>2
  <2>6. CASE data_load_enable[n - 1] /\ ~data_load_enable[n]
    <3>1. left[n - 1] = left[n] + 0 /\ pipeline_valid'[n]
      BY <2>1, <2>3, <2>4, <2>6
    <3>2. next[n - 1] = left[n - 1] + 1 /\ next[n] = left[n]
      BY <1>2, <2>4, <2>6
    <3> QED BY <2>4, <3>1, <3>2
  <2>7. CASE ~data_load_enable[n - 1] /\ data_load_enable[n]
    <3>1. left[n - 1] = left[n] + 1 /\ ~pipeline_valid'[n]
      BY <2>1, <2>2, <2>4, <2>7
    <3>2. next[n - 1] = left[n - 1] /\ next[n] = left[n] + 1
      BY <1>2, <2>4, <2>7
    <3> QED BY <2>4, <3>1, <3>2
  <2>8. CASE ~data_load_enable[n - 1] /\ ~data_load_enable[n]
    <3>1. pipeline_valid'[n] = pipeline_valid[n]
      BY <1>0, <2>1, <2>8
    <3>2. next[n - 1] = left[n - 1] /\ next[n] = left[n]
      BY <1>2, <2>4, <2>8
    <3> QED BY <2>4, <3>1, <3>2
  <2> QED BY <2>5, <2>6, <2>7, <2>8
<1>5. ASSUME NEW n \in Stages PROVE next[n] <= next[0]
  <2>0. /\ left[n] \in Nat /\ left[0] \in Nat /\ next[n] \in Nat /\ next[0] \in Nat
        /\ left[n] <= left[0] /\ left[0] <= next[0]
    <3>1. /\ left[n] \in Nat /\ left[0] \in Nat /\ next[n] \in Nat /\ next[0] \in Nat
          /\ left[n] <= left[0]
      BY <1>0, <1>1, <1>2
    <3>2. next[0] = left[0] + 1 \/ next[0] = left[0]  BY <1>0, <1>2
    <3> QED BY <3>1, <3>2
  <2>1. CASE n = 0  BY <2>0, <2>1
  <2>2. CASE n # 0 /\ data_load_enable[n]
    <3>1. pipeline_valid[n]  BY <1>w, <2>2, LoadEnables
    <3>2. left[n - 1] = left[n] + 1 /\ left[n - 1] <= left[0]
      BY <1>0, <1>1, <2>2, <3>1
    <3>3. next[n] = left[n] + 1  BY <1>2, <2>2
    <3> QED BY <2>0, <3>2, <3>3
  <2>3. CASE ~data_load_enable[n]
    <3>1. next[n] = left[n]  BY <1>2, <2>3
    <3> QED BY <2>0, <3>1
  <2> QED BY <2>1, <2>2, <2>3
<1>6. ASSUME NEW e \in Elems
      PROVE  next[ReadStage[e]]
               = next[WriteStage[e]] + (IF reg_full'[e] THEN 0 ELSE 1)
  <2> DEFINE r == ReadStage[e]
             w == WriteStage[e]
  <2>0. r \in Stages /\ w \in Stages  BY <1>0
  <2>1. left[r] = left[w] + (IF reg_full[e] THEN 0 ELSE 1)  BY DEF Counts
  <2>2. left[r] \in Nat /\ left[w] \in Nat  BY <1>1, <2>0
  <2>n. /\ data_load_enable[r] => next[r] = left[r] + 1
        /\ ~data_load_enable[r] => next[r] = left[r]
        /\ data_load_enable[w] => next[w] = left[w] + 1
        /\ ~data_load_enable[w] => next[w] = left[w]
    BY <1>2, <2>0
  <2>3. CASE e \in Backedges
    <3>1. reg_full'[e] = IF data_load_enable[r] \/ data_load_enable[w]
                           THEN data_load_enable[w] ELSE reg_full[e]
      BY <2>3 DEF Clock, Edge, NextFull
    <3>2. /\ data_load_enable[r] => reg_full[e]
          /\ data_load_enable[w] => ~reg_full[e]
      BY <1>w, <2>0, <2>3, LoadEnables
    <3> HIDE DEF r, w
    <3>3. CASE data_load_enable[r]
      <4>1. /\ reg_full[e] /\ ~data_load_enable[w] /\ ~reg_full'[e]
        BY <3>1, <3>2, <3>3
      <4>2. left[r] = left[w] + 0  BY <2>1, <4>1
      <4>3. next[r] = left[r] + 1 /\ next[w] = left[w]  BY <2>n, <3>3, <4>1
      <4> QED BY <2>2, <4>1, <4>2, <4>3 DEF r, w
    <3>4. CASE ~data_load_enable[r] /\ data_load_enable[w]
      <4>1. ~reg_full[e] /\ reg_full'[e]  BY <3>1, <3>2, <3>4
      <4>2. left[r] = left[w] + 1  BY <2>1, <4>1
      <4>3. next[r] = left[r] /\ next[w] = left[w] + 1  BY <2>n, <3>4
      <4> QED BY <2>2, <4>1, <4>2, <4>3 DEF r, w
    <3>5. CASE ~data_load_enable[r] /\ ~data_load_enable[w]
      <4>1. reg_full'[e] = reg_full[e]  BY <3>1, <3>5
      <4>2. next[r] = left[r] /\ next[w] = left[w]  BY <2>n, <3>5
      <4> QED BY <2>1, <4>1, <4>2 DEF r, w
    <3> QED BY <3>3, <3>4, <3>5
  <2>4. CASE e \notin Backedges
    <3>1. r = w
      <4>1. r \in Nat /\ w \in Nat /\ r <= w  BY <1>0, <2>0, BlockAssumption
      <4>2. ~(w > r)  BY <2>4 DEF Backedges
      <4> QED BY <4>1, <4>2
    <3>2. reg_full'[e]  BY <2>4 DEF Clock, Edge
    <3>3. next[w] \in Nat  BY <1>2, <2>0
    <3> QED BY <3>1, <3>2, <3>3
  <2> QED BY <2>3, <2>4
<1>7. ASSUME NEW i \in NonBlocking PROVE Len(polled'[i]) = next[RecvStage[i]]
  <2> DEFINE n == RecvStage[i]
  <2>0. n \in Stages /\ Len(polled[i]) = left[n] /\ left[n] \in Nat
        /\ polled[i] \in Seq(Nat) /\ Received(i) \in Nat
    BY <1>0, <1>1 DEF Counts
  <2>1. polled'[i] = polled[i] \o (IF data_load_enable[n] THEN <<Received(i)>> ELSE <<>>)
    BY DEF Clock, Transfer
  <2> HIDE DEF n
  <2>2. CASE data_load_enable[n]
    <3>1. <<Received(i)>> \in Seq(Nat) /\ Len(<<Received(i)>>) = 1
      BY <2>0
    <3>2. Len(polled[i] \o <<Received(i)>>) = Len(polled[i]) + 1
      BY <2>0, <3>1, ConcatProperties
    <3>3. next[n] = left[n] + 1  BY <1>2, <2>0, <2>2
    <3> QED BY <2>0, <2>1, <2>2, <3>2, <3>3 DEF n
  <2>3. CASE ~data_load_enable[n]
    <3>1. polled'[i] = polled[i]  BY <2>0, <2>1, <2>3, ConcatEmptySeq
    <3>2. next[n] = left[n]  BY <1>2, <2>0, <2>3
    <3> QED BY <2>0, <3>1, <3>2 DEF n
  <2> QED BY <2>2, <2>3
<1> QED BY <1>2, <1>3, <1>4, <1>5, <1>6, <1>7 DEF Counts

(* A state that a stage reads, and that is there, is the one its iteration *)
(* starts from.                                                            *)
LEMMA StateIsCurrent ==
  ASSUME NEW F, NEW left, Counts(left), StatesFollow(F, left),
         NEW n \in Stages, all_active_states_valid(n),
         NEW e \in ReadsAt(n), Wired
  PROVE  state_reg[e] = Sequential(F)[left[n]].s[e]
<1>1. e \in Elems /\ ReadStage[e] = n /\ WriteStage[e] \in Stages
  BY BlockAssumption DEF ReadsAt
<1>2. left[n] = left[WriteStage[e]] + (IF reg_full[e] THEN 0 ELSE 1)
  BY <1>1 DEF Counts
<1>3. left[n] = left[WriteStage[e]]
  <2>1. CASE e \in Backedges
    <3>1. reg_full[e]  BY <1>1, <2>1 DEF all_active_states_valid
    <3>2. left[n] = left[WriteStage[e]] + 0  BY <1>2, <3>1
    <3>3. left[WriteStage[e]] \in Nat  BY <1>1 DEF Counts
    <3> QED BY <3>2, <3>3
  <2>2. CASE e \notin Backedges
    <3>1. n \in Nat /\ WriteStage[e] \in Nat /\ n <= WriteStage[e]
      BY <1>1, BlockAssumption DEF Stages
    <3>2. n = WriteStage[e]  BY <1>1, <2>2, <3>1 DEF Backedges
    <3> QED BY <3>2
  <2> QED BY <2>1, <2>2
<1> QED BY <1>1, <1>3 DEF StatesFollow

(* The polls of stage n find what F says. *)
PollsAgree(F, left, n) ==
  \A i \in RecvsAt(n) : i \in NonBlocking =>
    F[left[n] + 1][i] = (Received(i) # NoData)

(* A stage that has its states and its inputs computes what its iteration  *)
(* knows there.                                                            *)
LEMMA ActivationIs ==
  ASSUME NEW V, StatesIn(V), Scheduled, TypeInv(V), PortsInv,
         NEW F, NEW left, Follows(F, left), NEW n \in Stages,
         pipeline_valid[n], all_active_states_valid(n), all_active_inputs_valid(n),
         PollsAgree(F, left, n)
  PROVE  /\ Activation(n) = KnownAt(n, Iterate(F, left[n]))
         /\ \A i \in RecvsAt(n) :
              Received(i) = Iterate(F, left[n]).x[i]
<1> DEFINE j == left[n]
           a == Iterate(F, j)
           st == Sequential(F)[j]
           r == pipeline_reg[n]
           w == WithState(n)
           taking == Receiving(w, RecvsAt(n), at_port)
           ws == [e \in Elems |-> IF e \in ReadsAt(n) THEN state_reg[e] ELSE r.s[e]]
<1>0. /\ j \in Nat /\ n \in Nat /\ Counts(left)
      /\ \A e \in Elems : ReadStage[e] \in Nat
      /\ \A i \in Ins : RecvStage[i] \in Nat
      /\ Unknown \notin Nat
  BY BlockAssumption DEF Follows, Counts, Stages
<1>1. Iterated(V, F, j)  BY <1>0, IterateIs
<1>2. /\ st \in Runs(V) /\ a \in Activations /\ a.s = st.s /\ a.x \in [Ins -> Nat]
      /\ \A i \in Ins :
           a.x[i] = IF RecvPred(i, Seen(i, a)) /\ (i \in NonBlocking => F[j + 1][i])
                      THEN st.used[i] + 1 ELSE NoData
  BY <1>1 DEF Iterated
<1>3. r = KnownBefore(n, a)  BY DEF Follows, StagesFollow
<1>4. /\ r.s = [e \in Elems |-> IF ReadStage[e] < n THEN a.s[e] ELSE Unknown]
      /\ r.x = [i \in Ins |-> IF RecvStage[i] < n THEN a.x[i] ELSE Unknown]
      /\ r = [s |-> r.s, x |-> r.x]
  BY <1>3 DEF KnownBefore
<1>5. w = [s |-> ws, x |-> r.x]
  <2>1. w = [r EXCEPT !.s = ws]  BY DEF WithState
  <2> HIDE DEF w, ws, r
  <2> QED BY <1>4, <2>1
<1>6. ws = [e \in Elems |-> IF ReadStage[e] <= n THEN a.s[e] ELSE Unknown]
  <2>1. ASSUME NEW e \in Elems
        PROVE  ws[e] = IF ReadStage[e] <= n THEN a.s[e] ELSE Unknown
    <3>1. CASE ReadStage[e] = n
      <4>1. e \in ReadsAt(n)  BY <3>1 DEF ReadsAt
      <4>2. state_reg[e] = st.s[e]
        BY <4>1, StateIsCurrent DEF Follows, PortsInv, OwnerInv
      <4> QED BY <1>0, <1>2, <3>1, <4>1, <4>2
    <3>2. CASE ReadStage[e] # n
      <4>1. e \notin ReadsAt(n)  BY <3>2 DEF ReadsAt
      <4>2. ws[e] = IF ReadStage[e] < n THEN a.s[e] ELSE Unknown
        BY <1>4, <4>1
      <4>3. ReadStage[e] < n <=> ReadStage[e] <= n  BY <1>0, <3>2
      <4> QED BY <4>2, <4>3
    <3> QED BY <3>1, <3>2
  <2> HIDE DEF a, r
  <2> QED BY <2>1
<1>7. /\ ws \in [Elems -> Nat \cup {Unknown}] /\ a.s \in [Elems -> Nat]
      /\ \A e \in Elems : ReadStage[e] <= n => ws[e] = a.s[e]
  <2>1. st.s \in [Elems -> V] /\ V \subseteq Nat  BY <1>2 DEF Runs, StatesIn
  <2>2. a.s \in [Elems -> Nat]  BY <1>2, <2>1
  <2> HIDE DEF ws
  <2> QED BY <1>6, <2>2
<1>t. /\ RecvsAt(n) \in SUBSET Ins /\ taking \in SUBSET RecvsAt(n)
      /\ IsTaken(w, RecvsAt(n), at_port, taking)
  BY ReceivingIs DEF RecvsAt
<1>u. \A i \in RecvsAt(n) :
        /\ Receives(i) <=> i \in taking
        /\ Received(i) = IF i \in taking THEN at_port[i] ELSE NoData
  BY DEF Receives, Received, RecvsAt
<1>8. ASSUME NEW i \in RecvsAt(n),
             \A k \in RecvsAt(n) \cap Before(i) : Received(k) = a.x[k]
      PROVE  Receives(i) <=> RecvPred(i, Seen(i, a))
  <2> DEFINE C == RecvsAt(n) \cap Before(i)
             b == WithReceived(w, C, taking, at_port)
             Y == [k \in Ins |-> IF k \in C THEN IF k \in taking THEN at_port[k] ELSE NoData
                                 ELSE w.x[k]]
             Z == [k \in Ins |-> IF k \in Before(i) THEN a.x[k] ELSE Unknown]
  <2>1. i \in Ins /\ RecvStage[i] = n  BY DEF RecvsAt
  <2>2. b = [w EXCEPT !.x = Y]  BY DEF WithReceived
  <2>3. ASSUME NEW k \in Ins PROVE Y[k] = Z[k]
    <3>1. w.x[k] = IF RecvStage[k] < n THEN a.x[k] ELSE Unknown  BY <1>4, <1>5
    <3>2. k \in C => Y[k] = Received(k) /\ Received(k) = a.x[k]
      <4> HIDE DEF a, w, taking
      <4> QED BY <1>8, <1>u
    <3>3. /\ RecvStage[k] < n => k \in Before(i)
          /\ n < RecvStage[k] => k \notin Before(i)
      BY <2>1, BlockAssumption, OrderBound DEF Before
    <3>4. RecvStage[k] = n <=> k \in RecvsAt(n)  BY DEF RecvsAt
    <3>5. RecvStage[k] \in Nat /\ n \in Nat  BY <1>0
    <3>6. k \notin C => Y[k] = w.x[k]  OBVIOUS
    <3>7. Z[k] = IF k \in Before(i) THEN a.x[k] ELSE Unknown  OBVIOUS
    <3> HIDE DEF Y, Z, w, a
    <3> QED BY <3>1, <3>2, <3>3, <3>4, <3>5, <3>6, <3>7
  <2>4. Y = Z
    <3> HIDE DEF w, a, taking
    <3> QED BY <2>3
  <2>5. Z \in [Ins -> Nat \cup {Unknown}]
    <3> HIDE DEF a
    <3> QED BY <1>2
  <2>6. Seen(i, a) = [s |-> a.s, x |-> Z]  BY DEF Seen
  <2> HIDE DEF w, ws, a, Y, Z, b
  <2>7. b = [s |-> ws, x |-> Z]  BY <1>5, <2>2, <2>4
  <2>8. b \in Activations /\ Seen(i, a) \in Activations
    BY <1>7, <2>5, <2>6, <2>7 DEF Activations
  <2>9. KnownAt(n, b).s = KnownAt(n, Seen(i, a)).s
    <3>1. b.s = ws /\ Seen(i, a).s = a.s  BY <2>6, <2>7
    <3>2. KnownAt(n, b).s = [e \in Elems |-> IF ReadStage[e] <= n THEN b.s[e] ELSE Unknown]
      BY DEF KnownAt
    <3>3. KnownAt(n, Seen(i, a)).s
            = [e \in Elems |-> IF ReadStage[e] <= n THEN Seen(i, a).s[e] ELSE Unknown]
      BY DEF KnownAt
    <3> QED BY <1>7, <3>1, <3>2, <3>3
  <2>10. b.x = Seen(i, a).x  BY <2>6, <2>7
  <2>11. RecvPred(i, b) = RecvPred(i, Seen(i, a))
    BY <2>1, <2>8, <2>9, <2>10 DEF Scheduled
  <2>12. i \in taking <=> RecvPred(i, b)  BY <1>t DEF IsTaken, b
  <2> QED BY <1>u, <2>11, <2>12
<1> DEFINE S == {o \in Nat : \A i \in RecvsAt(n) :
                               RecvOrder[i] < o => Received(i) = a.x[i]}
<1>v. ASSUME NEW i \in RecvsAt(n), Receives(i) <=> RecvPred(i, Seen(i, a))
      PROVE  Received(i) = a.x[i]
  <2>1. i \in Ins /\ RecvStage[i] = n  BY DEF RecvsAt
  <2>2. Receives(i) <=> RecvPred(i, Seen(i, a))  BY <1>v
  <2>3. a.x[i] = IF RecvPred(i, Seen(i, a)) /\ (i \in NonBlocking => F[j + 1][i])
                   THEN st.used[i] + 1 ELSE NoData
    BY <1>2, <2>1
  <2>4. in_valid(i) => in_data(i) = st.used[i] + 1
    <3>1. Numbered(ibuf[i], st.used[i], consumed[i])
      BY <2>1 DEF Follows, InputsFollow
    <3>2. /\ st.used[i] \in Nat /\ consumed[i] \in Nat /\ ivalid[i] \in BOOLEAN
          /\ IsBuffer(ibuf[i]) /\ UnusedEmpty(InKind, ibuf[i]) /\ InKind \in Kinds
      BY <1>2, <2>1, BlockAssumption DEF Runs, PortsInv
    <3> QED BY <3>1, <3>2, InputQueue DEF in_valid, in_data
  <2>5. st.used[i] + 1 # NoData /\ st.used[i] + 1 \in Nat
    BY <1>2, <2>1 DEF Runs, NoData
  <2>6. Received(i) = IF Receives(i) /\ (i \in NonBlocking => in_valid(i))
                        THEN in_data(i) ELSE NoData
    BY <2>1 DEF Received, at_port
  <2>7. CASE ~Receives(i)  BY <2>2, <2>3, <2>6, <2>7
  <2>8. CASE Receives(i) /\ i \notin NonBlocking
    <3>1. in_valid(i)  BY <2>8 DEF all_active_inputs_valid, signal_valid
    <3> QED BY <2>2, <2>3, <2>4, <2>6, <2>8, <3>1
  <2>9. CASE Receives(i) /\ i \in NonBlocking
    <3>1. F[j + 1][i] = (Received(i) # NoData)  BY <2>9 DEF PollsAgree
    <3>2. CASE in_valid(i)
      <4>1. Received(i) = st.used[i] + 1  BY <2>4, <2>6, <2>9, <3>2
      <4>2. F[j + 1][i]  BY <2>5, <3>1, <4>1
      <4> QED BY <2>2, <2>3, <2>9, <4>1, <4>2
    <3>3. CASE ~in_valid(i)
      <4>1. Received(i) = NoData  BY <2>6, <2>9, <3>3
      <4>2. ~F[j + 1][i]  BY <3>1, <4>1
      <4> QED BY <2>2, <2>3, <2>9, <4>1, <4>2
    <3> QED BY <3>2, <3>3
  <2> QED BY <2>7, <2>8, <2>9
<1>9. ASSUME NEW i \in RecvsAt(n) PROVE Received(i) = a.x[i]
  <2> HIDE DEF a, w, r, ws, taking
  <2>0. \A k \in RecvsAt(n) : RecvOrder[k] \in Nat  BY <1>t, OrderBound
  <2>1. 0 \in S  BY <2>0
  <2>2. ASSUME NEW o \in Nat, o \in S PROVE o + 1 \in S
    <3> SUFFICES ASSUME NEW k \in RecvsAt(n), RecvOrder[k] < o + 1
                 PROVE  Received(k) = a.x[k]
      OBVIOUS
    <3>1. \A l \in RecvsAt(n) \cap Before(k) : Received(l) = a.x[l]
      BY <2>0, <2>2 DEF Before
    <3> QED BY <1>8, <1>v, <3>1
  <2> HIDE DEF S
  <2>3. RecvOrder[i] + 1 \in S  BY <2>0, <2>1, <2>2, OverNat
  <2> QED BY <2>0, <2>3 DEF S
<1>10. Activation(n) = KnownAt(n, a)
  <2> DEFINE ax == [i \in Ins |-> IF i \in RecvsAt(n) THEN Received(i) ELSE w.x[i]]
             kx == [i \in Ins |-> IF RecvStage[i] <= n THEN a.x[i] ELSE Unknown]
  <2>1. Activation(n) = [w EXCEPT !.x = ax]  BY DEF Activation
  <2>2. ASSUME NEW i \in Ins PROVE ax[i] = kx[i]
    <3>1. CASE RecvStage[i] = n
      <4>1. i \in RecvsAt(n)  BY <3>1 DEF RecvsAt
      <4> QED BY <1>0, <1>9, <3>1, <4>1
    <3>2. CASE RecvStage[i] # n
      <4>1. i \notin RecvsAt(n)  BY <3>2 DEF RecvsAt
      <4>2. w.x = r.x  BY <1>5
      <4>3. r.x[i] = IF RecvStage[i] < n THEN a.x[i] ELSE Unknown  BY <1>4
      <4>4. RecvStage[i] < n <=> RecvStage[i] <= n  BY <1>0, <3>2
      <4> QED BY <4>1, <4>2, <4>3, <4>4
    <3> QED BY <3>1, <3>2
  <2>3. ax = kx  BY <2>2
  <2>4. KnownAt(n, a) = [s |-> [e \in Elems |-> IF ReadStage[e] <= n THEN a.s[e] ELSE Unknown],
                         x |-> kx]
    BY DEF KnownAt
  <2> HIDE DEF w, ws, ax, kx, a
  <2>5. Activation(n) = [s |-> ws, x |-> kx]  BY <1>5, <2>1, <2>3
  <2> QED BY <1>6, <2>4, <2>5
<1> QED BY <1>9, <1>10

-----------------------------------------------------------------------------
(* A datum for k leaves the pipeline in this cycle. *)
Taken(k) == from_valid(k) /\ to_is_ready(k)

(* One-shot logic is only in use where no poll can change what is sent. *)
LEMMA NoPolls ==
  ASSUME SendsAreSingle, OneShot, NEW k \in Outs
  PROVE  \A i \in RecvsAt(SendStage[k]) : i \notin NonBlocking
BY DEF SendsAreSingle, RecvsAt

(* A stage that has all it needs, and whose outputs are ready, is left:    *)
(* the states it writes are free.                                          *)
LEMMA ReadyStageIsLeft ==
  ASSUME OwnerInv, NEW n \in Stages, stage_valid(n), all_active_inputs_valid(n),
         next_stage_open(n), all_active_outputs_ready(n)
  PROVE  data_load_enable[n]
<1>1. all_active_states_ready(n)
  <2> SUFFICES ASSUME NEW e \in Backedges, WriteStage[e] = n PROVE ~reg_full[e]
    BY DEF all_active_states_ready
  <2>1. n \in (ReadStage[e] + 1)..WriteStage[e]  BY BackedgeStages
  <2>2. n \in InFlight(e)  BY <2>1 DEF InFlight, stage_valid
  <2> QED BY <2>2 DEF OwnerInv, StateHasOneOwner
<1>2. stage_done(n)  BY <1>1 DEF stage_done
<1> QED BY <1>2, LoadEnables DEF OwnerInv

(* What one-shot logic does in a cycle: a stage that is left has sent once *)
(* what it sends, and its register is cleared; in a stage that is not left *)
(* the register remembers what was taken.                                  *)
LEMMA SendOnce ==
  ASSUME NEW V, StatesIn(V), TypeInv(V), PortsInv, SentInv, SendsAreSingle, Clock,
         NEW k \in Outs
  PROVE  /\ Taken(k) \/ has_been_sent[k] => send_valid(k)
         /\ Taken(k) => ~has_been_sent[k]
         /\ data_load_enable[SendStage[k]] =>
              /\ ~has_been_sent'[k]
              /\ Sends(k) => Taken(k) \/ has_been_sent[k]
         /\ ~data_load_enable[SendStage[k]] =>
              /\ has_been_sent'[k] <=> Taken(k) \/ has_been_sent[k]
              /\ Taken(k) \/ has_been_sent[k] => OneShot
<1> DEFINE n == SendStage[k]
<1>0. /\ n \in Stages /\ k \in SendsAt(n) /\ OwnerInv /\ Wired
      /\ has_been_sent[k] \in BOOLEAN /\ data_load_enable[n] \in BOOLEAN
  BY BlockAssumption DEF SendsAt, PortsInv, OwnerInv, TypeInv, TypeOK
<1>1. has_been_sent[k] => OneShot /\ send_valid(k)  BY DEF SentInv
<1>2. Taken(k) => send_valid(k) /\ ~has_been_sent[k] /\ to_is_ready(k)
  BY <1>1 DEF Taken, from_valid
<1>3. has_been_sent'[k] <=> (OneShot /\ NextSent(k))
  BY DEF Clock, Edge
<1>4. send_valid(k) <=> /\ all_active_inputs_valid(n) /\ stage_valid(n)
                        /\ next_stage_open(n) /\ Sends(k)
  BY DEF send_valid
<1>5. NextSent(k) = IF Taken(k) \/ (send_valid(k) /\ all_active_outputs_ready(n))
                      THEN ~(send_valid(k) /\ all_active_outputs_ready(n))
                      ELSE has_been_sent[k]
  BY DEF NextSent, Taken
<1>6. CASE data_load_enable[n]
  <2>1. /\ next_stage_open(n) /\ stage_valid(n) /\ all_active_inputs_valid(n)
        /\ all_active_outputs_ready(n)
    BY <1>0, <1>6, LoadEnables DEF stage_done
  <2>2. Sends(k) => send_valid(k) /\ has_sent_or_is_ready(k)
    BY <1>0, <1>4, <2>1 DEF all_active_outputs_ready
  <2>3. Sends(k) => Taken(k) \/ has_been_sent[k]
    BY <1>0, <2>2 DEF has_sent_or_is_ready, Taken, from_valid
  <2>4. ~has_been_sent'[k]
    <3>1. CASE send_valid(k)  BY <1>3, <1>5, <2>1, <3>1
    <3>2. CASE ~send_valid(k)
      <4>1. ~Taken(k) /\ ~has_been_sent[k]  BY <1>1, <1>2, <3>2
      <4> QED BY <1>3, <1>5, <3>2, <4>1
    <3> QED BY <3>1, <3>2
  <2> QED BY <1>1, <1>2, <1>6, <2>3, <2>4
<1>7. CASE ~data_load_enable[n]
  <2>1. send_valid(k) => ~all_active_outputs_ready(n)
    BY <1>0, <1>4, <1>7, ReadyStageIsLeft
  <2>2. ASSUME Taken(k) PROVE OneShot
    <3> SUFFICES ASSUME ~OneShot PROVE FALSE  OBVIOUS
    <3>1. Activation(n) \in Activations  BY <1>0, ActivationType
    <3>2. Sends(k) /\ to_is_ready(k)  BY <1>2, <1>4, <2>2
    <3>3. ASSUME NEW l \in SendsAt(n), Sends(l) PROVE l = k
      <4>1. l \in Outs /\ SendStage[l] = n  BY DEF SendsAt
      <4>2. SendPred(l, Activation(n)) /\ SendPred(k, Activation(n))
        BY <3>2, <3>3, <4>1 DEF Sends
      <4> QED BY <3>1, <4>1, <4>2 DEF SendsAreSingle
    <3>4. all_active_outputs_ready(n)
      BY <3>2, <3>3 DEF all_active_outputs_ready, has_sent_or_is_ready
    <3> QED BY <1>2, <2>1, <2>2, <3>4
  <2>3. has_been_sent'[k] <=> Taken(k) \/ has_been_sent[k]
    BY <1>0, <1>1, <1>2, <1>3, <1>5, <2>1, <2>2
  <2> QED BY <1>1, <1>2, <1>7, <2>2, <2>3
<1> QED BY <1>0, <1>6, <1>7

(* A one-shot register is up only while its stage stalls with the send it  *)
(* has made.                                                               *)
LEMMA SentInvStep ==
  ASSUME NEW V, StatesIn(V), TypeInv(V), PortsInv, SentInv, SendsAreSingle,
         [Clock]_vars
  PROVE  SentInv'
<1>1. CASE UNCHANGED vars
  <2> SUFFICES ASSUME NEW k \in Outs, has_been_sent'[k]
               PROVE  OneShot /\ send_valid(k)'
    BY DEF SentInv, OneShot
  <2>1. has_been_sent[k]  BY <1>1 DEF vars, registers
  <2>2. OneShot /\ send_valid(k)  BY <2>1 DEF SentInv
  <2> DEFINE n == SendStage[k]
  <2>3. n \in Stages  BY BlockAssumption
  <2>4. send_valid(k)'
    <3> USE <1>1 DEF vars, registers
    <3>1. /\ \A i \in Ins : in_valid(i)' = in_valid(i) /\ in_data(i)' = in_data(i)
          /\ next_stage_open(n)' = next_stage_open(n)
          /\ stage_valid(n)' = stage_valid(n)
      BY DEF in_valid, in_data, ToValid, ToData, next_stage_open, stage_valid,
             all_active_states_valid
    <3>2. \A m \in Stages : WithState(m)' = WithState(m)  BY DEF WithState
    <3>p. at_port' = at_port  BY <3>1 DEF at_port
    <3>3. \A i \in Ins : Receives(i)' = Receives(i)
      BY <3>2, <3>p, BlockAssumption DEF Receives
    <3>4. \A i \in Ins : Received(i)' = Received(i)
      BY <3>3, <3>p DEF Received
    <3>5. Activation(n)' = Activation(n)
      BY <2>3, <3>2, <3>4 DEF Activation, RecvsAt
    <3>6. Sends(k)' = Sends(k)  BY <3>5 DEF Sends
    <3>7. all_active_inputs_valid(n)' = all_active_inputs_valid(n)
      BY <3>1, <3>3 DEF all_active_inputs_valid, signal_valid, RecvsAt
    <3> QED BY <2>2, <3>1, <3>6, <3>7 DEF send_valid
  <2> QED BY <2>2, <2>4
<1>2. CASE Clock
  <2> SUFFICES ASSUME NEW k \in Outs, has_been_sent'[k]
               PROVE  OneShot /\ send_valid(k)'
    BY DEF SentInv, OneShot
  <2> DEFINE n == SendStage[k]
  <2>0. n \in Stages  BY BlockAssumption
  <2>1. ~data_load_enable[n] /\ OneShot /\ send_valid(k)
    BY <1>2, SendOnce
  <2>2. \A i \in RecvsAt(n) : i \notin NonBlocking  BY <2>1, NoPolls
  <2>3. /\ stage_valid(n) /\ all_active_inputs_valid(n) /\ next_stage_open(n)
        /\ Sends(k)
    BY <2>1 DEF send_valid
  <2>4. /\ stage_valid(n)' /\ all_active_inputs_valid(n)'
        /\ next_stage_open(n)' /\ Activation(n)' = Activation(n)
    BY <1>2, <2>0, <2>1, <2>2, <2>3, StalledStage
  <2>5. Sends(k)'  BY <2>3, <2>4 DEF Sends
  <2>6. send_valid(k)'  BY <2>4, <2>5 DEF send_valid
  <2> QED BY <2>1, <2>6
<1> QED BY <1>1, <1>2

-----------------------------------------------------------------------------
(***************************************************************************)
(* A clock cycle keeps the invariant.                                      *)
(***************************************************************************)

(* What is known of the polls after a cycle was known before it. *)
LEMMA PollsAreKept ==
  ASSUME NEW V, StatesIn(V), TypeInv(V), Clock, NEW F, Agrees(F)'
  PROVE  Agrees(F)
<1> SUFFICES ASSUME NEW i \in NonBlocking, NEW j \in 1..Len(polled[i])
             PROVE  F[j][i] = (polled[i][j] # NoData)
  BY DEF Agrees
<1> DEFINE r == IF data_load_enable[RecvStage[i]] THEN <<Received(i)>> ELSE <<>>
<1>1. r \in Seq(Nat)
  <2>1. i \in Ins /\ RecvStage[i] \in Stages  BY BlockAssumption
  <2>2. Received(i) \in Nat  BY <2>1, ActivationType
  <2>3. <<Received(i)>> \in Seq(Nat)  BY <2>2
  <2>4. <<>> \in Seq(Nat)  OBVIOUS
  <2> QED BY <2>3, <2>4
<1>2. polled'[i] = polled[i] \o r  BY DEF Clock, Transfer
<1>3. polled[i] \in Seq(Nat)  BY DEF TypeInv, TypeOK
<1> HIDE DEF r
<1>4. /\ Len(polled'[i]) = Len(polled[i]) + Len(r)
      /\ \A m \in 1..Len(polled[i]) : polled'[i][m] = polled[i][m]
  BY <1>1, <1>2, <1>3, ConcatProperties
<1>5. Len(r) \in Nat /\ Len(polled[i]) \in Nat  BY <1>1, <1>3
<1>6. j \in 1..Len(polled'[i])  BY <1>4, <1>5
<1>7. F[j][i] = (polled'[i][j] # NoData)  BY <1>6 DEF Agrees
<1> QED BY <1>4, <1>7

(* ... and tells what the polls of the stages that are left have found. *)
LEMMA PollsAreRecorded ==
  ASSUME NEW V, StatesIn(V), TypeInv(V), Clock,
         NEW F, NEW left, Counts(left), Agrees(F)'
  PROVE  \A n \in Stages : data_load_enable[n] => PollsAgree(F, left, n)
<1> SUFFICES ASSUME NEW n \in Stages, data_load_enable[n],
                    NEW i \in RecvsAt(n), i \in NonBlocking
             PROVE  F[left[n] + 1][i] = (Received(i) # NoData)
  BY DEF PollsAgree
<1>1. i \in Ins /\ RecvStage[i] = n  BY DEF RecvsAt
<1>2. Received(i) \in Nat  BY <1>1, ActivationType
<1>3. /\ polled[i] \in Seq(Nat) /\ Len(polled[i]) = left[n] /\ left[n] \in Nat
  BY <1>1 DEF TypeInv, TypeOK, Counts
<1>4. polled'[i] = polled[i] \o <<Received(i)>>
  BY <1>1 DEF Clock, Transfer
<1>5. /\ <<Received(i)>> \in Seq(Nat)
      /\ Len(<<Received(i)>>) = 1 /\ <<Received(i)>>[1] = Received(i)
  BY <1>2
<1>6. /\ Len(polled'[i]) = Len(polled[i]) + 1
      /\ \A m \in 1..1 : polled'[i][Len(polled[i]) + m] = <<Received(i)>>[m]
  BY <1>3, <1>4, <1>5, ConcatProperties
<1>7. /\ polled'[i][left[n] + 1] = Received(i)
      /\ left[n] + 1 \in 1..Len(polled'[i])
  BY <1>3, <1>5, <1>6
<1>8. F[left[n] + 1][i] = (polled'[i][left[n] + 1] # NoData)
  BY <1>7 DEF Agrees
<1> QED BY <1>7, <1>8

(* What all that follows starts from. *)
Working(V, F, left) ==
  /\ StatesIn(V) /\ Scheduled /\ SendsAreSingle
  /\ TypeInv(V) /\ PortsInv /\ SentInv
  /\ Follows(F, left)

(* A stage that is left computes what its iteration knows there. *)
LEMMA LeavingActivation ==
  ASSUME NEW V, NEW F, NEW left, Working(V, F, left), Clock, Agrees(F)',
         NEW n \in Stages, data_load_enable[n]
  PROVE  /\ Activation(n) = KnownAt(n, Iterate(F, left[n]))
         /\ \A i \in RecvsAt(n) : Received(i) = Iterate(F, left[n]).x[i]
<1>1. /\ pipeline_valid[n] /\ all_active_states_valid(n) /\ all_active_inputs_valid(n)
  BY LoadEnables DEF Working, PortsInv, OwnerInv, stage_done, stage_valid
<1>2. PollsAgree(F, left, n)
  BY PollsAreRecorded DEF Working, Follows
<1> QED BY <1>1, <1>2, ActivationIs DEF Working

(* So does a stage that has sent ahead. *)
LEMMA SendingActivation ==
  ASSUME NEW V, NEW F, NEW left, Working(V, F, left), OneShot,
         NEW k \in Outs, send_valid(k)
  PROVE  Activation(SendStage[k]) = KnownAt(SendStage[k], Iterate(F, left[SendStage[k]]))
<1> DEFINE n == SendStage[k]
<1>0. n \in Stages  BY BlockAssumption
<1>1. /\ pipeline_valid[n] /\ all_active_states_valid(n) /\ all_active_inputs_valid(n)
  BY DEF send_valid, stage_valid
<1>2. PollsAgree(F, left, n)  BY NoPolls DEF Working, PollsAgree
<1> HIDE DEF n
<1>3. Activation(n) = KnownAt(n, Iterate(F, left[n]))
  BY <1>0, <1>1, <1>2, ActivationIs DEF Working
<1> QED BY <1>3 DEF n

(* The pipeline registers follow. *)
LEMMA StagesStep ==
  ASSUME NEW V, NEW F, NEW left, Working(V, F, left), Clock, Agrees(F)',
         NEW next, LeftNext(left, next)
  PROVE  StagesFollow(F, next)'
<1>0. /\ Wired /\ Wired' /\ Counts(left) /\ left \in [Stages -> Nat] /\ N \in Nat
      /\ StagesFollow(F, left)
      /\ \A e \in Elems : ReadStage[e] \in Nat
      /\ \A i \in Ins : RecvStage[i] \in Nat
  <2>1. PortsInv /\ Follows(F, left)  BY DEF Working
  <2>2. Wired /\ Wired'  BY <2>1, WiredStep DEF PortsInv, OwnerInv
  <2>3. Counts(left) /\ StagesFollow(F, left)  BY <2>1 DEF Follows
  <2>4. left \in [Stages -> Nat]  BY <2>3 DEF Counts
  <2>5. /\ N \in Nat
        /\ \A e \in Elems : ReadStage[e] \in Nat
        /\ \A i \in Ins : RecvStage[i] \in Nat
    BY BlockAssumption DEF Stages
  <2> QED BY <2>2, <2>3, <2>4, <2>5
<1>1. /\ \A n \in Stages : data_load_enable[n] => next[n] = left[n] + 1
      /\ \A n \in Stages : ~data_load_enable[n] => next[n] = left[n]
  BY <1>0, LeftNextIs
<1> SUFFICES ASSUME NEW n \in Stages, pipeline_valid'[n]
             PROVE  pipeline_reg'[n] = KnownBefore(n, Iterate(F, next[n]))
  BY DEF StagesFollow
<1>2. pipeline_reg'[n] = NextPipelineReg(n)  BY DEF Clock, Edge
<1>3. CASE n = 0
  <2>1. pipeline_reg'[n] = pipeline_reg[n]
    BY <1>2, <1>3 DEF NextPipelineReg
  <2>2. pipeline_valid[n]  BY <1>0, <1>3 DEF Wired
  <2>3. pipeline_reg[n] = KnownBefore(n, Iterate(F, left[n]))
    BY <1>0, <2>2 DEF StagesFollow
  <2>4. \A e \in Elems : ~(ReadStage[e] < n)  BY <1>0, <1>3
  <2>5. \A i \in Ins : ~(RecvStage[i] < n)  BY <1>0, <1>3
  <2>6. \A a : KnownBefore(n, a) = Fresh
    BY <2>4, <2>5 DEF KnownBefore, Fresh
  <2> QED BY <2>1, <2>3, <2>6
<1>4. CASE n # 0 /\ data_load_enable[n - 1]
  <2>0. /\ n \in Nat /\ n > 0 /\ n - 1 \in Stages /\ n - 1 < N - 1 /\ (n - 1) + 1 = n
    BY <1>0, <1>4 DEF Stages
  <2> DEFINE a == Iterate(F, left[n - 1])
  <2>1. pipeline_reg'[n] = Activation(n - 1)
    BY <1>2, <1>4, <2>0 DEF NextPipelineReg
  <2>2. Activation(n - 1) = KnownAt(n - 1, a)
    BY <1>4, <2>0, LeavingActivation
  <2>3. next[n] = left[n - 1]
    <3>1. left[n - 1] = left[n] + (IF pipeline_valid[n] THEN 1 ELSE 0)
      BY <1>0, <1>4 DEF Counts
    <3>2. left[n] \in Nat  BY <1>0
    <3>3. CASE data_load_enable[n]
      <4>1. pipeline_valid[n]  BY <1>0, <3>3, LoadEnables
      <4> QED BY <1>1, <3>1, <3>3, <4>1
    <3>4. CASE ~data_load_enable[n]
      <4>1. next_stage_open(n - 1)  BY <1>0, <1>4, <2>0, LoadEnables
      <4>2. ~pipeline_valid[n]  BY <2>0, <3>4, <4>1 DEF next_stage_open
      <4>3. left[n - 1] = left[n] + 0  BY <3>1, <4>2
      <4> QED BY <1>1, <3>2, <3>4, <4>3
    <3> QED BY <3>3, <3>4
  <2>4. KnownAt(n - 1, a) = KnownBefore(n, a)
    <3> HIDE DEF a
    <3>1. \A e \in Elems : ReadStage[e] <= n - 1 <=> ReadStage[e] < n
      BY <1>0, <2>0
    <3>2. \A i \in Ins : RecvStage[i] <= n - 1 <=> RecvStage[i] < n
      BY <1>0, <2>0
    <3> QED BY <3>1, <3>2 DEF KnownAt, KnownBefore
  <2> QED BY <2>1, <2>2, <2>3, <2>4
<1>5. CASE n # 0 /\ ~data_load_enable[n - 1]
  <2>1. pipeline_valid[n] /\ ~data_load_enable[n]  BY <1>0, <1>5, NextValid
  <2>2. pipeline_reg'[n] = pipeline_reg[n]  BY <1>2, <1>5 DEF NextPipelineReg
  <2>3. next[n] = left[n]  BY <1>1, <2>1
  <2> QED BY <1>0, <2>1, <2>2, <2>3 DEF StagesFollow
<1> QED BY <1>3, <1>4, <1>5

(* The state registers follow. *)
LEMMA StatesStep ==
  ASSUME NEW V, NEW F, NEW left, Working(V, F, left), Clock, Agrees(F)',
         NEW next, LeftNext(left, next)
  PROVE  StatesFollow(F, next)'
<1>0. Counts(left) /\ left \in [Stages -> Nat] /\ StatesFollow(F, left) /\ StatesIn(V)
  BY DEF Working, Follows, Counts
<1> SUFFICES ASSUME NEW e \in Elems
             PROVE  state_reg'[e] = Sequential(F)[next[WriteStage[e]]].s[e]
  BY DEF StatesFollow
<1> DEFINE n == WriteStage[e]
           a == Iterate(F, left[n])
<1>1. n \in Stages /\ left[n] \in Nat  BY <1>0, BlockAssumption
<1>2. state_reg'[e] = NextStateReg(e)  BY DEF Clock, Edge
<1>3. CASE data_load_enable[n]
  <2>1. state_reg'[e] = NextState(e, Activation(n))
    BY <1>2, <1>3 DEF NextStateReg
  <2>2. Activation(n) = KnownAt(n, a)  BY <1>1, <1>3, LeavingActivation
  <2>3. Iterated(V, F, left[n])  BY <1>0, <1>1, IterateIs
  <2>4. /\ a \in Activations /\ KnownAt(n, a) \in Activations
        /\ Sequential(F)[left[n] + 1].s[e] = NextState(e, a)
    BY <1>1, <2>3 DEF Iterated
  <2>5. KnownAt(n, KnownAt(n, a)) = KnownAt(n, a)
    <3> HIDE DEF a
    <3> QED BY DEF KnownAt
  <2>6. NextState(e, KnownAt(n, a)) = NextState(e, a)
    <3> HIDE DEF a
    <3> QED BY <2>4, <2>5 DEF Scheduled, Working
  <2>7. next[n] = left[n] + 1  BY <1>0, <1>1, <1>3, LeftNextIs
  <2> QED BY <2>1, <2>2, <2>4, <2>6, <2>7
<1>4. CASE ~data_load_enable[n]
  <2>1. state_reg'[e] = state_reg[e]  BY <1>2, <1>4 DEF NextStateReg
  <2>2. next[n] = left[n]  BY <1>0, <1>1, <1>4, LeftNextIs
  <2> QED BY <1>0, <2>1, <2>2 DEF StatesFollow
<1> QED BY <1>3, <1>4

(* The buffers at the inputs follow: a receive takes the next datum, or    *)
(* none.                                                                   *)
LEMMA InputsStep ==
  ASSUME NEW V, NEW F, NEW left, Working(V, F, left), Clock, Agrees(F)',
         NEW next, LeftNext(left, next)
  PROVE  InputsFollow(F, next)'
<1>0. /\ Counts(left) /\ left \in [Stages -> Nat] /\ InputsFollow(F, left) /\ StatesIn(V)
      /\ PortsInv /\ Wired
  BY DEF Working, Follows, Counts, PortsInv, OwnerInv
<1> SUFFICES ASSUME NEW i \in Ins
             PROVE  Numbered(ibuf'[i], Sequential(F)[next[RecvStage[i]]].used[i], consumed'[i])
  BY DEF InputsFollow
<1> DEFINE n == RecvStage[i]
           u == Sequential(F)[left[n]].used[i]
           c == consumed[i]
           a == Iterate(F, left[n])
           u2 == IF in_valid(i) /\ in_ready(i) THEN u + 1 ELSE u
           c2 == IF ivalid[i] /\ port_ready(i) THEN c + 1 ELSE c
<1>1. /\ n \in Stages /\ left[n] \in Nat /\ i \in RecvsAt(n) /\ InKind \in Kinds
      /\ c \in Nat /\ ivalid[i] \in BOOLEAN /\ in_ready(i) \in BOOLEAN
      /\ IsBuffer(ibuf[i]) /\ UnusedEmpty(InKind, ibuf[i])
  BY <1>0, BlockAssumption DEF RecvsAt, PortsInv, in_ready
<1>2. Iterated(V, F, left[n])  BY <1>0, <1>1, IterateIs
<1>3. u \in Nat  BY <1>2 DEF Iterated, Runs
<1>4. Numbered(ibuf[i], u, c)  BY <1>0 DEF InputsFollow
<1>5. /\ in_valid(i) => in_data(i) = u + 1
      /\ Numbered(NextBuffer(InKind, ibuf[i], ivalid[i], c + 1, in_ready(i)), u2, c2)
  <2> HIDE DEF u, c
  <2> QED BY <1>1, <1>3, <1>4, InputQueue DEF in_valid, in_data, port_ready, c
<1>6. ibuf'[i] = NextBuffer(InKind, ibuf[i], ivalid[i], c + 1, in_ready(i))
  BY DEF Clock, Edge
<1>7. consumed'[i] = c2
  <2>1. consumed'[i] = c + (IF ivalid[i] /\ port_ready(i) THEN 1 ELSE 0)
    BY DEF Clock, Transfer
  <2> HIDE DEF c
  <2>2. CASE ivalid[i] /\ port_ready(i)  BY <2>1, <2>2
  <2>3. CASE ~(ivalid[i] /\ port_ready(i))
    <3>1. consumed'[i] = c + 0  BY <2>1, <2>3
    <3> QED BY <1>1, <2>3, <3>1
  <2> QED BY <2>2, <2>3
<1>8. Sequential(F)[next[n]].used[i] = u2
  <2>1. CASE ~data_load_enable[n]
    <3>1. next[n] = left[n]  BY <1>0, <1>1, <2>1, LeftNextIs
    <3>2. ~in_ready(i)  BY <2>1 DEF in_ready
    <3> QED BY <3>1, <3>2
  <2>2. CASE data_load_enable[n]
    <3>1. next[n] = left[n] + 1  BY <1>0, <1>1, <2>2, LeftNextIs
    <3>2. Received(i) = a.x[i]  BY <1>1, <2>2, LeavingActivation
    <3>3. Sequential(F)[left[n] + 1].used[i] = IF a.x[i] = NoData THEN u ELSE a.x[i]
      BY <1>2 DEF Iterated
    <3>4. in_ready(i) <=> Receives(i)  BY <2>2 DEF in_ready
    <3>5. Receives(i) => i \in NonBlocking \/ in_valid(i)
      BY <1>0, <1>1, <2>2, LoadEnables
      DEF stage_done, all_active_inputs_valid, signal_valid
    <3> HIDE DEF a, u
    <3>6. CASE in_valid(i) /\ Receives(i)
      <4>1. Received(i) = u + 1  BY <1>5, <3>6 DEF Received, at_port
      <4>2. u + 1 # NoData  BY <1>3 DEF NoData
      <4> QED BY <3>1, <3>2, <3>3, <3>4, <3>6, <4>1, <4>2
    <3>7. CASE ~(in_valid(i) /\ Receives(i))
      <4>1. Received(i) = NoData  BY <3>5, <3>7 DEF Received, at_port
      <4> QED BY <3>1, <3>2, <3>3, <3>4, <3>7, <4>1
    <3> QED BY <3>6, <3>7
  <2> QED BY <2>1, <2>2
<1> HIDE DEF u2, c2
<1> QED BY <1>5, <1>6, <1>7, <1>8

(* The buffers at the outputs follow: what was delivered and what is yet   *)
(* to be delivered is what was sent.                                       *)
LEMMA OutputsStep ==
  ASSUME NEW V, NEW F, NEW left, Working(V, F, left), Clock, Agrees(F)',
         NEW next, LeftNext(left, next)
  PROVE  OutputsFollow(F, next)'
<1>0. /\ Counts(left) /\ left \in [Stages -> Nat] /\ OutputsFollow(F, left) /\ StatesIn(V)
      /\ PortsInv /\ TypeInv(V) /\ SentInv /\ SendsAreSingle
  BY DEF Working, Follows, Counts
<1> SUFFICES ASSUME NEW k \in Outs
             PROVE  produced'[k] \o Held(obuf'[k])
                      = Sequential(F)[next[SendStage[k]]].sent[k]
                          \o SentAhead(F, next, k)'
  BY DEF OutputsFollow
<1> DEFINE n == SendStage[k]
           d == KnownAt(n, Iterate(F, left[n]))
           sent == Sequential(F)[left[n]].sent[k]
           ahead == SentAhead(F, left, k)
           out == IF port_valid(k) /\ oready[k] THEN <<port_data(k)>> ELSE <<>>
           in == IF Taken(k) THEN <<Activation(n)>> ELSE <<>>
<1>1. /\ n \in Stages /\ left[n] \in Nat /\ OutKind \in Kinds
      /\ oready[k] \in BOOLEAN /\ from_valid(k) \in BOOLEAN
      /\ UnusedEmpty(OutKind, obuf[k]) /\ obuf[k] \in Buffers(Activations)
      /\ produced[k] \in Seq(Activations) /\ has_been_sent[k] \in BOOLEAN
  BY <1>0, BlockAssumption DEF PortsInv, TypeInv, TypeOK, from_valid
<1>2. Iterated(V, F, left[n])  BY <1>0, <1>1, IterateIs
<1>3. /\ sent \in Seq(Activations) /\ d \in Activations
      /\ Sequential(F)[left[n] + 1].sent[k]
           = IF SendPred(k, d) THEN Append(sent, d) ELSE sent
  BY <1>1, <1>2 DEF Iterated, Runs
<1>4. Activation(n) \in Activations  BY <1>0, <1>1, ActivationType
<1>5. /\ obuf'[k] = NextBuffer(OutKind, obuf[k], from_valid(k), Activation(n), oready[k])
      /\ produced'[k] = produced[k] \o out
  BY DEF Clock, Edge, Transfer
<1>6. out \o Held(obuf'[k]) = Held(obuf[k]) \o in
  <2>1. (IF ToValid(OutKind, obuf[k], from_valid(k)) /\ oready[k]
           THEN <<ToData(OutKind, obuf[k], Activation(n))>> ELSE <<>>)
          \o Held(NextBuffer(OutKind, obuf[k], from_valid(k), Activation(n), oready[k]))
        = Held(obuf[k]) \o
            (IF from_valid(k) /\ FromRdy(OutKind, obuf[k], from_valid(k), oready[k])
               THEN <<Activation(n)>> ELSE <<>>)
    BY <1>1, <1>4, BufferIsQueue
  <2>2. /\ Taken(k) = (from_valid(k) /\ FromRdy(OutKind, obuf[k], from_valid(k), oready[k]))
        /\ port_valid(k) = ToValid(OutKind, obuf[k], from_valid(k))
        /\ port_data(k) = ToData(OutKind, obuf[k], Activation(n))
    BY DEF port_valid, port_data, Taken, to_is_ready
  <2> QED BY <1>5, <2>1, <2>2
<1>7. /\ Held(obuf[k]) \in Seq(Activations) /\ Held(obuf'[k]) \in Seq(Activations)
      /\ out \in Seq(Activations) /\ in \in Seq(Activations) /\ <<>> \in Seq(Activations)
      /\ <<d>> \in Seq(Activations)
  <2>1. obuf'[k] \in Buffers(Activations)  BY <1>1, <1>4, <1>5, BufferType
  <2>2. port_data(k) \in Activations
    BY <1>1, <1>4, BufferType DEF port_data
  <2>3. <<>> \in Seq(Activations)  OBVIOUS
  <2>4. \A x \in Activations : <<x>> \in Seq(Activations)  OBVIOUS
  <2> HIDE DEF d
  <2> QED BY <1>1, <1>3, <1>4, <2>1, <2>2, <2>3, <2>4, HeldIs
<1>8. produced[k] \o Held(obuf[k]) = sent \o ahead
  BY <1>0 DEF OutputsFollow
<1>9. ahead = IF has_been_sent[k] THEN <<d>> ELSE <<>>
  BY DEF SentAhead
<1>10. SentAhead(F, next, k)' =
         IF has_been_sent'[k] THEN <<KnownAt(n, Iterate(F, next[n]))>> ELSE <<>>
  BY DEF SentAhead
<1>11. /\ Taken(k) \/ has_been_sent[k] => send_valid(k)
       /\ Taken(k) => ~has_been_sent[k]
       /\ data_load_enable[n] =>
            /\ ~has_been_sent'[k]
            /\ Sends(k) => Taken(k) \/ has_been_sent[k]
       /\ ~data_load_enable[n] =>
            /\ has_been_sent'[k] <=> Taken(k) \/ has_been_sent[k]
            /\ Taken(k) \/ has_been_sent[k] => OneShot
  BY <1>0, SendOnce
<1>12. Taken(k) => Activation(n) = d
  <2>1. CASE data_load_enable[n]  BY <1>1, <2>1, LeavingActivation
  <2>2. CASE ~data_load_enable[n]  BY <1>11, <2>2, SendingActivation
  <2> QED BY <2>1, <2>2
<1>13. in = IF Taken(k) THEN <<d>> ELSE <<>>  BY <1>12
<1>14. Taken(k) \/ has_been_sent[k] => Sends(k)  BY <1>11 DEF send_valid
<1>15. data_load_enable[n] => (Sends(k) <=> SendPred(k, d))
  BY <1>1, LeavingActivation DEF Sends
<1>16. /\ data_load_enable[n] => next[n] = left[n] + 1
       /\ ~data_load_enable[n] => next[n] = left[n]
  BY <1>0, <1>1, LeftNextIs
<1> HIDE DEF d, sent, ahead, out, in, n
<1>17. produced'[k] \o Held(obuf'[k]) = (sent \o ahead) \o in
  <2>0. \A p, q, r \in Seq(Activations) : (p \o q) \o r = p \o (q \o r)
    BY ConcatAssociative
  <2>1. (produced[k] \o out) \o Held(obuf'[k]) = produced[k] \o (out \o Held(obuf'[k]))
    BY <1>1, <1>7, <2>0, Zenon
  <2>2. (produced[k] \o Held(obuf[k])) \o in = produced[k] \o (Held(obuf[k]) \o in)
    BY <1>1, <1>7, <2>0, Zenon
  <2> QED BY <1>5, <1>6, <1>8, <2>1, <2>2
<1>18. /\ sent \o <<>> = sent
       /\ sent \o <<d>> \in Seq(Activations)
       /\ (sent \o <<d>>) \o <<>> = sent \o <<d>>
       /\ Append(sent, d) = sent \o <<d>>
  <2>1. sent \o <<d>> \in Seq(Activations)  BY <1>3, <1>7, ConcatProperties
  <2> QED BY <1>3, <2>1, ConcatEmptySeq, OneMoreSent
<1>19. CASE data_load_enable[n]
  <2>1. SentAhead(F, next, k)' = <<>> /\ next[n] = left[n] + 1
    BY <1>10, <1>11, <1>16, <1>19
  <2>2. CASE Sends(k)
    <3>1. Sequential(F)[next[n]].sent[k] = sent \o <<d>>
      BY <1>3, <1>15, <1>18, <1>19, <2>1, <2>2
    <3>2. CASE Taken(k)
      <4>1. ahead = <<>> /\ in = <<d>>  BY <1>9, <1>11, <1>13, <3>2
      <4> QED BY <1>17, <1>18, <2>1, <3>1, <4>1 DEF n
    <3>3. CASE ~Taken(k)
      <4>1. ahead = <<d>> /\ in = <<>>  BY <1>9, <1>11, <1>13, <1>19, <2>2, <3>3
      <4> QED BY <1>17, <1>18, <2>1, <3>1, <4>1 DEF n
    <3> QED BY <3>2, <3>3
  <2>3. CASE ~Sends(k)
    <3>1. ahead = <<>> /\ in = <<>>  BY <1>9, <1>13, <1>14, <2>3
    <3>2. Sequential(F)[next[n]].sent[k] = sent
      BY <1>3, <1>15, <1>19, <2>1, <2>3
    <3> QED BY <1>17, <1>18, <2>1, <3>1, <3>2 DEF n
  <2> QED BY <2>2, <2>3
<1>20. CASE ~data_load_enable[n]
  <2>1. /\ Sequential(F)[next[n]].sent[k] = sent
        /\ KnownAt(n, Iterate(F, next[n])) = d
    BY <1>16, <1>20 DEF sent, d
  <2>2. SentAhead(F, next, k)' = IF Taken(k) \/ has_been_sent[k] THEN <<d>> ELSE <<>>
    BY <1>10, <1>11, <1>20, <2>1
  <2>3. CASE Taken(k)
    <3>1. ahead = <<>> /\ in = <<d>> /\ SentAhead(F, next, k)' = <<d>>
      BY <1>9, <1>11, <1>13, <2>2, <2>3
    <3> QED BY <1>17, <1>18, <2>1, <3>1 DEF n
  <2>4. CASE ~Taken(k) /\ has_been_sent[k]
    <3>1. ahead = <<d>> /\ in = <<>> /\ SentAhead(F, next, k)' = <<d>>
      BY <1>9, <1>13, <2>2, <2>4
    <3> QED BY <1>17, <1>18, <2>1, <3>1 DEF n
  <2>5. CASE ~Taken(k) /\ ~has_been_sent[k]
    <3>1. ahead = <<>> /\ in = <<>> /\ SentAhead(F, next, k)' = <<>>
      BY <1>9, <1>13, <2>2, <2>5
    <3> QED BY <1>17, <1>18, <2>1, <3>1 DEF n
  <2> QED BY <2>3, <2>4, <2>5
<1> QED BY <1>19, <1>20

-----------------------------------------------------------------------------
(***************************************************************************)
(* The invariant holds, and says that the outputs are sequential.          *)
(***************************************************************************)

(* Out of reset every stage is at the first iteration. *)
LEMMA SequentialInit ==
  ASSUME NEW V, StatesIn(V), Init
  PROVE  SequentialInv(V)
<1>1. TypeInv(V)  BY TypeInvInit
<1>2. PortsInv  BY PortsInvInit
<1>3. SentInv  BY DEF SentInv, Init, Reset
<1>4. ASSUME NEW F PROVE \E left \in [Stages -> Nat] : Follows(F, left)
  <2> DEFINE left == [n \in Stages |-> 0]
  <2>0. /\ left \in [Stages -> Nat] /\ 0 \in Stages /\ N \in Nat
        /\ \A n \in Stages \ {0} : n - 1 \in Stages
        /\ \A e \in Elems : ReadStage[e] \in Stages /\ WriteStage[e] \in Stages
        /\ \A i \in Ins : RecvStage[i] \in Stages
        /\ \A k \in Outs : SendStage[k] \in Stages
        /\ NonBlocking \subseteq Ins
        /\ \A e \in Elems : ~(ReadStage[e] < 0)
        /\ \A i \in Ins : ~(RecvStage[i] < 0)
    BY BlockAssumption DEF Stages
  <2>1. \A n \in Stages : left[n] = 0  OBVIOUS
  <2> HIDE DEF left
  <2>2. Sequential(F)[0] = Start  BY SequentialUnfolds
  <2>3. Counts(left)
    <3>1. \A n \in Stages \ {0} : ~pipeline_valid[n]  BY DEF Init, Reset
    <3>2. \A e \in Elems : reg_full[e]  BY DEF Init, Reset
    <3>3. \A i \in NonBlocking : Len(polled[i]) = 0  BY DEF Init
    <3>4. entered = 0  BY DEF Init
    <3> QED BY <2>0, <2>1, <3>1, <3>2, <3>3, <3>4 DEF Counts
  <2>4. StagesFollow(F, left)
    <3>1. \A n \in Stages : pipeline_valid[n] = (n = 0) /\ pipeline_reg[n] = Fresh
      BY DEF Init, Reset
    <3>2. \A a : KnownBefore(0, a) = Fresh
      BY <2>0 DEF KnownBefore, Fresh
    <3> QED BY <3>1, <3>2 DEF StagesFollow
  <2>5. StatesFollow(F, left)
    BY <2>0, <2>1, <2>2 DEF StatesFollow, Start, Init, Reset
  <2>6. InputsFollow(F, left)
    <3>1. Numbered(ResetBuffer(NoData), 0, 0)  BY DEF Numbered, ResetBuffer
    <3>2. \A i \in Ins : ibuf[i] = ResetBuffer(NoData) /\ consumed[i] = 0
      BY DEF Init, Reset
    <3>3. \A i \in Ins : Start.used[i] = 0  BY DEF Start
    <3> QED BY <2>0, <2>1, <2>2, <3>1, <3>2, <3>3 DEF InputsFollow
  <2>7. OutputsFollow(F, left)
    <3>1. Held(ResetBuffer(Fresh)) = <<>> \o <<>>  BY DEF Held, ResetBuffer
    <3>2. Held(ResetBuffer(Fresh)) = <<>>  BY <3>1, ShortSequences
    <3>3. \A k \in Outs : /\ obuf[k] = ResetBuffer(Fresh) /\ produced[k] = <<>>
                          /\ ~has_been_sent[k]
      BY DEF Init, Reset
    <3>4. \A k \in Outs : Start.sent[k] = <<>>  BY DEF Start
    <3>5. \A k \in Outs : SentAhead(F, left, k) = <<>>  BY <3>3 DEF SentAhead
    <3> QED BY <2>0, <2>1, <2>2, <3>2, <3>3, <3>4, <3>5 DEF OutputsFollow
  <2>8. Follows(F, left)
    BY <2>3, <2>4, <2>5, <2>6, <2>7 DEF Follows
  <2> QED BY <2>0, <2>8
<1> QED BY <1>1, <1>2, <1>3, <1>4 DEF SequentialInv

(* While nothing changes every stage stays where it is. *)
LEMMA FollowsStutters ==
  ASSUME UNCHANGED vars, NEW F, NEW left, Follows(F, left)
  PROVE  Follows(F, left)'
<1> USE DEF vars, registers
<1>1. Counts(left)'  BY DEF Follows, Counts
<1>2. StagesFollow(F, left)'  BY DEF Follows, StagesFollow
<1>3. StatesFollow(F, left)'  BY DEF Follows, StatesFollow
<1>4. InputsFollow(F, left)'  BY DEF Follows, InputsFollow
<1>5. OutputsFollow(F, left)'  BY DEF Follows, OutputsFollow, SentAhead
<1> QED BY <1>1, <1>2, <1>3, <1>4, <1>5 DEF Follows

(* A clock cycle keeps the invariant: every stage that is left goes on to  *)
(* its next iteration.                                                     *)
LEMMA SequentialStep ==
  ASSUME NEW V, StatesIn(V), Scheduled, SendsAreSingle,
         SequentialInv(V), [Clock]_vars
  PROVE  SequentialInv(V)'
<1>0. TypeInv(V) /\ PortsInv /\ SentInv  BY DEF SequentialInv
<1>1. TypeInv(V)'  BY <1>0, TypeInvStep
<1>2. PortsInv'  BY <1>0, PortsInvStep
<1>3. SentInv'  BY <1>0, SentInvStep
<1>4. ASSUME NEW F \in Finds, Agrees(F)'
      PROVE  \E left \in [Stages -> Nat] : Follows(F, left)'
  <2>1. CASE UNCHANGED vars
    <3>1. Agrees(F)  BY <1>4, <2>1 DEF Agrees, vars, registers
    <3>2. PICK left \in [Stages -> Nat] : Follows(F, left)
      BY <3>1 DEF SequentialInv
    <3>3. Follows(F, left)'  BY <2>1, <3>2, FollowsStutters
    <3> QED BY <3>3
  <2>2. CASE Clock
    <3>1. Agrees(F)  BY <1>0, <1>4, <2>2, PollsAreKept
    <3>2. PICK left \in [Stages -> Nat] : Follows(F, left)
      BY <3>1 DEF SequentialInv
    <3>3. Working(V, F, left)  BY <1>0, <3>2 DEF Working
    <3>4. PICK next : LeftNext(left, next)  BY DEF LeftNext
    <3>5. next \in [Stages -> Nat]  BY <3>4, LeftNextIs
    <3>6. Counts(next)'
      <4>1. OwnerInv /\ Counts(left)  BY <1>0, <3>2 DEF PortsInv, Follows
      <4>2. polled \in [NonBlocking -> Seq(Nat)]  BY <1>0 DEF TypeInv, TypeOK
      <4>3. 0 \in Stages  BY BlockAssumption DEF Stages
      <4>4. \A i \in Ins : Received(i) \in Nat  BY <1>0, <4>3, ActivationType
      <4> QED BY <2>2, <3>4, <4>1, <4>2, <4>4, CountsStep
    <3>7. StagesFollow(F, next)'  BY <1>4, <2>2, <3>3, <3>4, StagesStep
    <3>8. StatesFollow(F, next)'  BY <1>4, <2>2, <3>3, <3>4, StatesStep
    <3>9. InputsFollow(F, next)'  BY <1>4, <2>2, <3>3, <3>4, InputsStep
    <3>10. OutputsFollow(F, next)'  BY <1>4, <2>2, <3>3, <3>4, OutputsStep
    <3>11. Follows(F, next)'  BY <3>6, <3>7, <3>8, <3>9, <3>10 DEF Follows
    <3> QED BY <3>5, <3>11
  <2> QED BY <2>1, <2>2
<1> QED BY <1>1, <1>2, <1>3, <1>4 DEF SequentialInv

(* What the invariant says of the outputs. *)
LEMMA SequentialOutputs ==
  ASSUME NEW V, StatesIn(V), Scheduled, SendsAreSingle, SequentialInv(V)
  PROVE  OutputsAreSequential
<1>0. TypeInv(V) /\ PortsInv /\ SentInv  BY DEF SequentialInv
<1> DEFINE open == [i \in NonBlocking |-> TRUE]
<1>1. Found(open) \in Finds /\ open \in [NonBlocking -> BOOLEAN]  BY DEF Found, Finds
<1>2. Agrees(Found(open))
  <2> SUFFICES ASSUME NEW i \in NonBlocking, NEW j \in 1..Len(polled[i])
               PROVE  Found(open)[j][i] = (polled[i][j] # NoData)
    BY DEF Agrees
  <2>1. polled[i] \in Seq(Nat)  BY <1>0 DEF TypeInv, TypeOK
  <2>2. j \in Nat /\ j \in DOMAIN polled[i]  BY <2>1
  <2> QED BY <2>2 DEF Found
<1>3. PICK F : F = Found(open)  OBVIOUS
<1>4. PICK left \in [Stages -> Nat] : Follows(F, left)
  BY <1>1, <1>2, <1>3 DEF SequentialInv
<1>5. Working(V, F, left)  BY <1>0, <1>4 DEF Working
<1> SUFFICES ASSUME NEW k \in Outs
             PROVE  IsPrefix(produced[k], Sequential(F)[entered + 1].sent[k])
  BY <1>1, <1>3 DEF OutputsAreSequential
<1> DEFINE n == SendStage[k]
           d == KnownAt(n, Iterate(F, left[n]))
           sent(j) == Sequential(F)[j].sent[k]
           ahead == SentAhead(F, left, k)
<1>6. /\ n \in Stages /\ left[n] \in Nat /\ left[n] <= entered /\ entered \in Nat
      /\ produced[k] \in Seq(Activations) /\ obuf[k] \in Buffers(Activations)
      /\ has_been_sent[k] \in BOOLEAN
  BY <1>0, <1>4, BlockAssumption DEF Follows, Counts, TypeInv, TypeOK
<1>7. Iterated(V, F, left[n])  BY <1>6, IterateIs
<1>8. /\ sent(left[n]) \in Seq(Activations) /\ d \in Activations
      /\ sent(left[n] + 1)
           = IF SendPred(k, d) THEN Append(sent(left[n]), d) ELSE sent(left[n])
  BY <1>6, <1>7 DEF Iterated, Runs
<1>9. Held(obuf[k]) \in Seq(Activations)  BY <1>6, HeldIs
<1>10. produced[k] \o Held(obuf[k]) = sent(left[n]) \o ahead
  BY <1>4 DEF Follows, OutputsFollow
<1>11. ahead = IF has_been_sent[k] THEN <<d>> ELSE <<>>  BY DEF SentAhead
<1>12. has_been_sent[k] => SendPred(k, d)
  <2> SUFFICES ASSUME has_been_sent[k] PROVE SendPred(k, d)  OBVIOUS
  <2>1. OneShot /\ send_valid(k)  BY <1>0 DEF SentInv
  <2>2. Activation(n) = d  BY <1>5, <2>1, SendingActivation
  <2>3. SendPred(k, Activation(n))  BY <2>1 DEF send_valid, Sends
  <2> QED BY <2>2, <2>3
<1>13. GoesOn(sent(left[n]), sent(left[n] + 1))
  <2>1. left[n] + 1 \in Nat /\ left[n] <= left[n] + 1  BY <1>6
  <2> QED BY <1>6, <2>1, SentGrows
<1>14. GoesOn(sent(left[n] + 1), sent(entered + 1))
  <2>1. left[n] + 1 \in Nat /\ entered + 1 \in Nat /\ left[n] + 1 <= entered + 1
    BY <1>6
  <2> QED BY <2>1, SentGrows
<1> HIDE DEF n, d, sent, ahead
<1>15. GoesOn(produced[k], sent(left[n]) \o ahead)
  BY <1>9, <1>10 DEF GoesOn
<1>16. GoesOn(sent(left[n]) \o ahead, sent(left[n] + 1))
  <2>1. CASE has_been_sent[k]
    <3>1. sent(left[n] + 1) = sent(left[n]) \o <<d>>
      BY <1>8, <1>12, <2>1, OneMoreSent
    <3>2. sent(left[n]) \o <<d>> \in Seq(Activations)
      <4>1. <<d>> \in Seq(Activations)  BY <1>8
      <4> QED BY <1>8, <4>1, ConcatProperties
    <3>3. sent(left[n] + 1) = (sent(left[n]) \o <<d>>) \o <<>>
      BY <3>1, <3>2, ConcatEmptySeq
    <3>4. <<>> \in Seq(Activations)  OBVIOUS
    <3> QED BY <1>11, <2>1, <3>3, <3>4 DEF GoesOn
  <2>2. CASE ~has_been_sent[k]
    <3>1. sent(left[n]) \o ahead = sent(left[n])
      BY <1>8, <1>11, <2>2, ConcatEmptySeq
    <3> QED BY <1>13, <3>1
  <2> QED BY <2>1, <2>2
<1>17. GoesOn(produced[k], sent(left[n] + 1))
  BY <1>6, <1>15, <1>16, GoesOnTransitive
<1>18. GoesOn(produced[k], sent(entered + 1))
  BY <1>6, <1>14, <1>17, GoesOnTransitive
<1>19. IsPrefix(produced[k], sent(entered + 1))
  BY <1>6, <1>18, GoesOnIsPrefix
<1> QED BY <1>19 DEF sent

(* Whatever the proc, its schedule, the depth of the pipeline, the buffers *)
(* at the ports and the neighbours: what a block delivers is what its proc *)
(* sends when its iterations are run one after the other, the non-blocking *)
(* receives finding what they found in the pipeline.  The proc maps the    *)
(* values V of its states to V.  Scheduled: a next state may depend on all *)
(* that is known in its stage, the predicate of a receive on the states    *)
(* read up to its stage and on whatever is received before it, in the same *)
(* stage too.  SendsAreSingle: a stage whose sends are taken one by one    *)
(* (one-shot logic) makes no non-blocking receive.                         *)
THEOREM PipelineIsSequential ==
  ASSUME NEW V, StatesIn(V), Scheduled, SendsAreSingle
  PROVE  Spec => []OutputsAreSequential
<1>1. Init => SequentialInv(V)  BY SequentialInit
<1>2. SequentialInv(V) /\ [Clock]_vars => SequentialInv(V)'  BY SequentialStep
<1>3. SequentialInv(V) => OutputsAreSequential  BY SequentialOutputs
<1> QED BY <1>1, <1>2, <1>3, PTL DEF Spec
=============================================================================
