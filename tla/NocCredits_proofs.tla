------------------------- MODULE NocCredits_proofs -------------------------
(***************************************************************************)
(* Credits and flits in the simulator of networks on chip: how they are    *)
(* counted within a cycle, and that the propagations of sources, links and *)
(* sinks neither lose nor gain any.  NocSimulator_proofs has the routers,  *)
(* the cycle and the theorems.                                             *)
(*                                                                         *)
(* RunCycle is one step of the specification and hundreds of propagations  *)
(* of the code.  CycleInv holds after each of them: it counts, for a link  *)
(* and a virtual channel, what the propagations of this cycle have handed  *)
(* over and what they have not yet taken, by the time stamps.              *)
(***************************************************************************)
EXTENDS NocSimulator, FiniteSetTheorems, FunctionTheorems, WellFoundedInduction,
        TLAPS

(* Everything that can carry a time stamp. *)
Stamp ==
  {Fwd(c) : c \in Connection} \cup {Rev(c, vc) : c \in Connection, vc \in VC}
  \cup {Pushed(l, vc) : l \in Link, vc \in VC}
  \cup {Update(c, vc) : c \in Connection, vc \in VC}
  \cup {Credited(r) : r \in Router}
  \cup {ForwardDone(x) : x \in Component} \cup {ReverseDone(x) : x \in Component}

(* The simulators, between propagations. *)
Net ==
  [forward_channels      : [Connection -> FlitOrBubble],
   reverse_channels      : [Connection -> [VC -> Nat]],
   forward_data_stages   : [Link -> Seq(FlitOrBubble)],
   reverse_credit_stages : [Link -> [VC -> Seq(Nat)]],
   data_to_send          : [Source -> [VC -> Seq(Flit)]],
   credit                : [Connection -> [VC -> Nat]],
   credit_update         : [Connection -> [VC -> Nat]],
   input_buffers         : [Connection -> [VC -> Seq(Flit)]],
   input_credit_to_send  : [Connection -> [VC -> 0..1]],
   received_traffic      : [Sink -> Seq(Flit)],
   current               : SUBSET Stamp,
   cycle                 : -1..2]

(* x sends to y over l. *)
IsPath(x, l, y) ==
  In[l][1] \in Range(Out[x]) /\ Out[l][1] \in Range(In[y])

FlitOf(flit, vc) == IF IsFlit(flit) /\ flit.vc = vc THEN 1 ELSE 0

(* x has added the credit updates of the last cycle to its credits. *)
TakenUp(cur, x) == (IF x \in Source THEN ForwardDone(x) ELSE Credited(x)) \in cur

(* The credits of the connection c and the VC that its sender x holds or   *)
(* has been handed.                                                        *)
AtSender(n, cur, x, c, vc) ==
  n.credit[c][vc]
  + (IF Update(c, vc) \in cur \/ ~TakenUp(cur, x) THEN n.credit_update[c][vc] ELSE 0)
  + (IF Rev(c, vc) \in cur /\ Update(c, vc) \notin cur
       THEN n.reverse_channels[c][vc] ELSE 0)

(* The flits and credits in the stages of link l or handed to it. *)
OnLink(n, cur, l, vc) ==
  SumOf(n.reverse_credit_stages[l][vc])
  + (IF Rev(Out[l][1], vc) \in cur /\ Pushed(l, vc) \notin cur
       THEN n.reverse_channels[Out[l][1]][vc] ELSE 0)
  + FlitsOn(n.forward_data_stages[l], vc)
  + (IF Fwd(In[l][1]) \in cur /\ ForwardDone(l) \notin cur
       THEN FlitOf(n.forward_channels[In[l][1]], vc) ELSE 0)

(* The flits from c that its receiver y keeps or has been handed, and the  *)
(* credits that y has not yet returned.                                    *)
AtReceiver(n, cur, y, c, vc) ==
  Len(n.input_buffers[c][vc])
  + (IF Fwd(c) \in cur /\ ForwardDone(y) \notin cur
       THEN FlitOf(n.forward_channels[c], vc) ELSE 0)
  + (IF ForwardDone(y) \in cur /\ Rev(c, vc) \notin cur
       THEN n.input_credit_to_send[c][vc] ELSE 0)

Count(n, cur, x, l, y, vc) ==
  AtSender(n, cur, x, In[l][1], vc) + OnLink(n, cur, l, vc)
  + AtReceiver(n, cur, y, Out[l][1], vc)

(* In cycle 0 there is nothing until the receiver has sent the depth. *)
Accounted(n, cur) ==
  \A x \in Source \cup Router, l \in Link, y \in Router \cup Sink, vc \in VC :
    IsPath(x, l, y) =>
      Count(n, cur, x, l, y, vc)
      = IF n.cycle = 0 /\ Rev(Out[l][1], vc) \notin cur THEN 0 ELSE Depth[Out[l][1]][vc]

(* The order in which the stamps of a cycle are set. *)
SenderStamps(cur) ==
  /\ \A s \in Source : \A c \in Range(Out[s]) :
       /\ Fwd(c) \in cur => ForwardDone(s) \in cur
       /\ \A vc \in VC : Update(c, vc) \in cur => ForwardDone(s) \in cur
  /\ \A r \in Router : ForwardDone(r) \in cur => Credited(r) \in cur
  /\ \A r \in Router : \A c \in Range(Out[r]), vc \in VC :
       Update(c, vc) \in cur => Credited(r) \in cur
  /\ \A c \in Connection, vc \in VC : Update(c, vc) \in cur => Rev(c, vc) \in cur
  /\ \A x \in Source \cup Router : ReverseDone(x) \in cur =>
       \A c \in Range(Out[x]), vc \in VC : Update(c, vc) \in cur

LinkStamps(cur) ==
  \A l \in Link :
    /\ ForwardDone(l) \in cur => Fwd(In[l][1]) \in cur
    /\ ForwardStages[l] = 0 /\ Fwd(Out[l][1]) \in cur => ForwardDone(l) \in cur
    /\ \A vc \in VC :
         /\ Pushed(l, vc) \in cur => Rev(Out[l][1], vc) \in cur
         /\ ReverseStages[l] = 0 /\ Rev(In[l][1], vc) \in cur => Pushed(l, vc) \in cur
         /\ ReverseDone(l) \in cur => Pushed(l, vc) \in cur

ReceiverStamps(cur) ==
  \A y \in Router \cup Sink : \A c \in Range(In[y]) :
    /\ ForwardDone(y) \in cur => Fwd(c) \in cur
    /\ \A vc \in VC : Rev(c, vc) \in cur => ForwardDone(y) \in cur

(* What a router has put on its reverse channels in this cycle stays. *)
ReturnsKept(n, cur) ==
  \A r \in Router : \A c \in Range(In[r]), vc \in VC :
    Rev(c, vc) \in cur =>
      n.reverse_channels[c][vc] =
        IF n.cycle = 0 THEN Depth[c][vc] ELSE n.input_credit_to_send[c][vc]

(* A source queues a flit by its VC. *)
QueuedByVC(n) ==
  \A s \in Source, vc \in VC :
    \A i \in DOMAIN n.data_to_send[s][vc] : n.data_to_send[s][vc][i].vc = vc

(* After every propagation of a cycle. *)
CycleInv(n) ==
  /\ n.cycle # -1
  /\ SenderStamps(n.current) /\ LinkStamps(n.current) /\ ReceiverStamps(n.current)
  /\ ReturnsKept(n, n.current)
  /\ QueuedByVC(n)
  /\ Accounted(n, n.current)

-----------------------------------------------------------------------------
(***************************************************************************)
(* Induction, recursion, division, sums.                                   *)
(***************************************************************************)

\* Induction up to b: what holds of 0 and passes from k to k + 1 holds of 0..b.
LEMMA UpTo ==
  ASSUME NEW b \in Nat, NEW S, 0 \in S,
         \A k \in 0 .. b : k < b /\ k \in S => k + 1 \in S
  PROVE  \A k \in 0 .. b : k \in S
<1> DEFINE T == {k \in 0 .. b : k \notin S}
           R == OpToRel(<, Nat)
<1>1. IsWellFoundedOn(R, Nat)  BY NatLessThanWellFounded, Zenon
<1>2. \A p, q \in Nat : q < p => <<q, p>> \in R  BY Zenon DEF OpToRel
<1>3. T \subseteq Nat  OBVIOUS
<1> HIDE DEF R, T
<1>4. ASSUME T # {} PROVE FALSE
  <2>1. PICK m \in T : \A q \in T : <<q, m>> \notin R
    BY <1>1, <1>3, <1>4, WFMin
  <2>2. m \in 0 .. b /\ m \notin S /\ m \in Nat  BY <2>1, <1>3 DEF T
  <2>3. m # 0  BY <2>2
  <2>4. m - 1 \in 0 .. b /\ m - 1 \in Nat /\ m - 1 < m /\ m - 1 < b /\ (m - 1) + 1 = m
    BY <2>2, <2>3
  <2>5. m - 1 \notin T  BY <1>2, <2>1, <2>2, <2>4
  <2>6. m - 1 \in S  BY <2>4, <2>5 DEF T
  <2> QED BY <2>2, <2>4, <2>6
<1> QED BY <1>4 DEF T

\* Steps from one set of S to the next, and what they lead to from z.
Steps(step, b, S) == \A k \in 1..b : step[k] \in [S[k - 1] -> S[k]]

Follows(f, b, S, z, step) ==
  /\ f = [k \in 0..b |-> f[k]] /\ \A k \in 0..b : f[k] \in S[k]
  /\ f[0] = z
  /\ \A k \in 1..b : f[k] = step[k][f[k - 1]]

\* A recursion from z over b such steps has a solution.
LEMMA Recursion ==
  ASSUME NEW b \in Nat, NEW S, NEW z \in S[0], NEW step, Steps(step, b, S)
  PROVE  \E f : Follows(f, b, S, z, step)
<1> DEFINE T == {n \in 0..b : \E f : Follows(f, n, S, z, step)}
<1>1. 0 \in T
  <2> DEFINE f == [k \in 0..0 |-> z]
  <2>1. Follows(f, 0, S, z, step)  BY DEF Follows
  <2> HIDE DEF f
  <2> QED BY <2>1
<1>2. ASSUME NEW n \in 0..b, n < b, n \in T PROVE n + 1 \in T
  <2>1. PICK f : Follows(f, n, S, z, step)  BY <1>2
  <2> DEFINE g == [k \in 0..(n + 1) |-> IF k <= n THEN f[k] ELSE step[n + 1][f[n]]]
  <2>2. n + 1 \in 1..b /\ n \in 0..n /\ (n + 1) - 1 = n  BY <1>2
  <2>3. step[n + 1][f[n]] \in S[n + 1]
    <3>1. step[n + 1] \in [S[n] -> S[n + 1]]  BY <2>2 DEF Steps
    <3>2. f[n] \in S[n]  BY <2>1, <2>2 DEF Follows
    <3> QED BY <3>1, <3>2
  <2>4. \A k \in 0..(n + 1) : g[k] \in S[k]
    <3> SUFFICES ASSUME NEW k \in 0..(n + 1) PROVE g[k] \in S[k]  OBVIOUS
    <3>1. CASE k <= n
      <4>1. k \in 0..n /\ g[k] = f[k]  BY <3>1
      <4> QED BY <2>1, <4>1 DEF Follows
    <3>2. CASE ~(k <= n)
      <4>1. k = n + 1 /\ g[k] = step[n + 1][f[n]]  BY <3>2
      <4> QED BY <2>3, <4>1
    <3> QED BY <3>1, <3>2
  <2>5. g[0] = z  BY <2>1 DEF Follows
  <2>6. ASSUME NEW k \in 1..(n + 1) PROVE g[k] = step[k][g[k - 1]]
    <3>1. CASE k <= n
      <4>1. k \in 1..n /\ k - 1 <= n /\ k - 1 \in 0..(n + 1) /\ k \in 0..(n + 1)  BY <3>1
      <4>2. g[k] = f[k] /\ g[k - 1] = f[k - 1]  BY <3>1, <4>1
      <4>3. f[k] = step[k][f[k - 1]]  BY <2>1, <4>1 DEF Follows
      <4> QED BY <4>2, <4>3
    <3>2. CASE k = n + 1
      <4>1. k - 1 = n /\ ~(k <= n) /\ k - 1 <= n  BY <3>2, <1>2
      <4>2. g[k] = step[k][f[n]] /\ g[k - 1] = f[n]  BY <3>2, <4>1
      <4> QED BY <4>2
    <3> QED BY <3>1, <3>2
  <2>7. g = [k \in 0..(n + 1) |-> g[k]]  OBVIOUS
  <2> HIDE DEF g
  <2>8. Follows(g, n + 1, S, z, step)  BY <2>4, <2>5, <2>6, <2>7 DEF Follows
  <2> QED BY <2>2, <2>8
<1>3. \A k \in 0..b : k \in T
  <2> HIDE DEF T
  <2> QED BY <1>1, <1>2, UpTo
<1> QED BY <1>3

\* A nonempty set of naturals has a least element, and Min is it.
LEMMA MinIsLeast ==
  ASSUME NEW S \in SUBSET Nat, S # {}
  PROVE  Min(S) \in S /\ \A y \in S : Min(S) <= y
<1> DEFINE R == OpToRel(<, Nat)
<1>1. IsWellFoundedOn(R, Nat)  BY NatLessThanWellFounded, Zenon
<1>2. \A p, q \in Nat : q < p => <<q, p>> \in R  BY Zenon DEF OpToRel
<1> HIDE DEF R
<1>3. PICK m \in S : \A q \in S : <<q, m>> \notin R  BY <1>1, WFMin
<1>4. \A y \in S : m <= y
  <2> SUFFICES ASSUME NEW y \in S PROVE m <= y  OBVIOUS
  <2>1. ~(y < m)  BY <1>2, <1>3
  <2> QED BY <2>1
<1> QED BY <1>3, <1>4 DEF Min

\* Quotient and remainder.
LEMMA DivMod ==
  ASSUME NEW m \in Nat \ {0}, NEW k \in Nat
  PROVE  /\ k \div m \in Nat /\ k % m \in 0..(m - 1)
         /\ k = m * (k \div m) + (k % m)
BY Z3

\* A product grows with its factor.
LEMMA TimesMonotonic ==
  ASSUME NEW m \in Nat, NEW v \in Nat, NEW q \in Nat, q >= v
  PROVE  m * q >= m * v
<1>1. PICK d \in Nat : q = v + d  BY Z3
<1>2. m * q = m * v + m * d  BY <1>1, Z3
<1>3. m * d >= 0  BY Z3
<1> QED BY <1>2, <1>3, Z3

\* The quotient of a number below v * m is below v.
LEMMA DivBelow ==
  ASSUME NEW m \in Nat \ {0}, NEW v \in Nat, NEW k \in Nat, k < v * m
  PROVE  k \div m \in 0..(v - 1)
<1> DEFINE q == k \div m
           r == k % m
<1>1. q \in Nat /\ r \in Nat /\ k = m * q + r
  <2>1. k \div m \in Nat /\ k % m \in 0..(m - 1) /\ k = m * (k \div m) + (k % m)
    BY DivMod
  <2> QED BY <2>1
<1> HIDE DEF q, r
<1>2. m * v = v * m /\ m * v \in Int /\ m * q \in Int  BY <1>1, Z3
<1>3. ASSUME q >= v PROVE FALSE
  <2>1. m * q >= m * v  BY <1>1, <1>3, TimesMonotonic
  <2> QED BY <1>1, <1>2, <2>1
<1>4. q \in 0..(v - 1)  BY <1>1, <1>3
<1> QED BY <1>4 DEF q

\* The partial sums of a sequence.
PartialSums(f, s) ==
  /\ f \in [0..Len(s) -> Int] /\ f[0] = 0
  /\ \A k \in 1..Len(s) : f[k] = f[k - 1] + s[k]

\* SumOf is the last of them, and never negative.
LEMMA SumOfIs ==
  ASSUME NEW s \in Seq(Nat)
  PROVE  /\ SumOf(s) \in Nat
         /\ \E f : PartialSums(f, s)
         /\ \A f : PartialSums(f, s) => SumOf(s) = f[Len(s)]
<1> DEFINE b == Len(s)
           step == [k \in 1..b |-> [x \in Nat |-> x + s[k]]]
           F(f) == [k \in 0..b |-> IF k = 0 THEN 0 ELSE f[k - 1] + s[k]]
<1>1. b \in Nat /\ \A k \in 1..b : s[k] \in Nat  OBVIOUS
<1>2. SumOf(s) = (CHOOSE f : f = F(f))[b]  BY Zenon DEF SumOf
<1> HIDE DEF b
<1>3. step \in [1..b -> [Nat -> Nat]]  BY <1>1
<1>4. PICK g \in [0..b -> Nat] : g[0] = 0 /\ \A k \in 1..b : g[k] = step[k][g[k - 1]]
  <2> DEFINE S == [k \in 0..b |-> Nat]
  <2>1. \A k \in 1..b : k \in 0..b /\ k - 1 \in 0..b  BY <1>1
  <2>2. Steps(step, b, S)  BY <1>3, <2>1 DEF Steps
  <2>3. 0 \in S[0] /\ \A k \in 0..b : S[k] = Nat  BY <1>1
  <2> HIDE DEF step, S
  <2>4. PICK g : Follows(g, b, S, 0, step)  BY <1>1, <2>2, <2>3, Recursion
  <2>5. g \in [0..b -> Nat]  BY <2>3, <2>4 DEF Follows
  <2> QED BY <2>4, <2>5 DEF Follows
<1>5. \A k \in 1..b : k - 1 \in 0..b  BY <1>1
<1>6. \A k \in 1..b : g[k] = g[k - 1] + s[k]
  <2> SUFFICES ASSUME NEW k \in 1..b PROVE g[k] = g[k - 1] + s[k]  OBVIOUS
  <2>1. g[k - 1] \in Nat  BY <1>4, <1>5
  <2> QED BY <1>4, <2>1
<1> HIDE DEF step
<1>7. g = F(g)  BY <1>4, <1>6
<1> DEFINE c == CHOOSE f : f = F(f)
<1>8. c = F(c)
  <2> HIDE DEF F
  <2> QED BY <1>7, Zenon
<1>9. ASSUME NEW f, NEW h,
             f[0] = h[0], \A k \in 1..b : f[k] = f[k - 1] + s[k],
             \A k \in 1..b : h[k] = h[k - 1] + s[k]
      PROVE  f[b] = h[b]
  <2> DEFINE T == {k \in 0..b : f[k] = h[k]}
  <2>1. 0 \in T  BY <1>1, <1>9
  <2>2. ASSUME NEW k \in 0..b, k < b, k \in T PROVE k + 1 \in T
    <3>1. k + 1 \in 1..b /\ (k + 1) - 1 = k  BY <1>1, <2>2
    <3>2. f[k + 1] = f[k] + s[k + 1] /\ h[k + 1] = h[k] + s[k + 1]  BY <1>9, <3>1
    <3>3. f[k] = h[k]  BY <2>2
    <3>4. k + 1 \in 0..b  BY <3>1
    <3> QED BY <3>2, <3>3, <3>4
  <2> HIDE DEF T
  <2>3. \A k \in 0..b : k \in T  BY <1>1, <2>1, <2>2, UpTo
  <2> QED BY <1>1, <2>3 DEF T
<1>10. c[0] = 0 /\ \A k \in 1..b : c[k] = c[k - 1] + s[k]
  <2> HIDE DEF c
  <2>1. \A k \in 0..b : c[k] = IF k = 0 THEN 0 ELSE c[k - 1] + s[k]  BY <1>8
  <2>2. 0 \in 0..b /\ \A k \in 1..b : k \in 0..b /\ k # 0  BY <1>1
  <2> QED BY <2>1, <2>2
<1> HIDE DEF c
<1>11. SumOf(s) = c[b]  BY <1>2 DEF c
<1>12. c[b] = g[b]  BY <1>4, <1>6, <1>9, <1>10
<1>13. SumOf(s) \in Nat  BY <1>1, <1>4, <1>11, <1>12
<1>14. PartialSums(g, s)
  <2>1. g \in [0..b -> Int]  BY <1>4
  <2> QED BY <2>1, <1>4, <1>6 DEF PartialSums, b
<1>15. ASSUME NEW f, PartialSums(f, s) PROVE SumOf(s) = f[Len(s)]
  <2>1. f[0] = 0 /\ \A k \in 1..b : f[k] = f[k - 1] + s[k]
    BY <1>15 DEF PartialSums, b
  <2>2. c[b] = f[b]  BY <1>9, <1>10, <2>1
  <2> QED BY <1>11, <2>2 DEF b
<1> QED BY <1>13, <1>14, <1>15

\* No credits add up to 0.
LEMMA SumOfEmpty == SumOf(<<>>) = 0
<1> DEFINE f == [k \in 0..0 |-> 0]
<1>1. <<>> \in Seq(Nat) /\ Len(<<>>) = 0  OBVIOUS
<1>2. PartialSums(f, <<>>)  BY <1>1 DEF PartialSums
<1>3. f[0] = 0  OBVIOUS
<1> HIDE DEF f
<1> QED BY <1>1, <1>2, <1>3, SumOfIs

\* What is appended is added.
LEMMA SumOfAppend ==
  ASSUME NEW s \in Seq(Nat), NEW x \in Nat
  PROVE  SumOf(Append(s, x)) = SumOf(s) + x
<1>1. PICK f : PartialSums(f, s)  BY SumOfIs
<1> DEFINE b == Len(s)
           t == Append(s, x)
           g == [k \in 0..(b + 1) |-> IF k <= b THEN f[k] ELSE f[b] + x]
<1>2. b \in Nat /\ t \in Seq(Nat) /\ Len(t) = b + 1 /\ t[b + 1] = x
      /\ \A k \in 1..b : t[k] = s[k]
  OBVIOUS
<1>3. f \in [0..b -> Int] /\ f[0] = 0 /\ \A k \in 1..b : f[k] = f[k - 1] + s[k]
  BY <1>1 DEF PartialSums
<1>4. SumOf(s) = f[b]  BY <1>1, SumOfIs
<1> HIDE DEF b, t
<1>5. f[b] \in Int  BY <1>2, <1>3
<1>6. g \in [0..(b + 1) -> Int]  BY <1>2, <1>3, <1>5
<1>7. g[0] = 0 /\ g[b + 1] = f[b] + x  BY <1>2, <1>3
<1>8. ASSUME NEW k \in 1..(b + 1) PROVE g[k] = g[k - 1] + t[k]
  <2>1. CASE k <= b
    <3>1. k \in 1..b /\ k - 1 \in 0..(b + 1) /\ k - 1 <= b /\ k \in 0..(b + 1)  BY <1>2, <2>1
    <3>2. g[k] = f[k] /\ g[k - 1] = f[k - 1]  BY <2>1, <3>1
    <3> QED BY <1>2, <1>3, <3>1, <3>2
  <2>2. CASE k = b + 1
    <3>1. k - 1 = b /\ b \in 0..(b + 1) /\ b <= b  BY <1>2, <2>2
    <3>2. g[b] = f[b]  BY <3>1
    <3> QED BY <1>2, <1>7, <2>2, <3>1, <3>2
  <2> QED BY <1>2, <2>1, <2>2
<1> HIDE DEF g
<1>9. PartialSums(g, t)  BY <1>2, <1>6, <1>7, <1>8 DEF PartialSums
<1>10. SumOf(t) = g[b + 1]  BY <1>2, <1>9, SumOfIs
<1> QED BY <1>4, <1>7, <1>10 DEF t

\* What leaves at the head is taken off.
LEMMA SumOfTail ==
  ASSUME NEW s \in Seq(Nat), s # <<>>
  PROVE  SumOf(s) = Head(s) + SumOf(Tail(s))
<1>1. PICK f : PartialSums(f, s)  BY SumOfIs
<1> DEFINE b == Len(s)
           t == Tail(s)
           g == [k \in 0..(b - 1) |-> f[k + 1] - s[1]]
<1>2. b \in Nat /\ b >= 1 /\ t \in Seq(Nat) /\ Len(t) = b - 1 /\ Head(s) = s[1]
      /\ s[1] \in Nat /\ (\A k \in 1..(b - 1) : t[k] = s[k + 1])
      /\ \A k \in 1..b : s[k] \in Nat
  OBVIOUS
<1>3. f \in [0..b -> Int] /\ f[0] = 0 /\ \A k \in 1..b : f[k] = f[k - 1] + s[k]
  BY <1>1 DEF PartialSums
<1>4. SumOf(s) = f[b]  BY <1>1, SumOfIs
<1> HIDE DEF b, t
<1>5. g \in [0..(b - 1) -> Int]
  <2> SUFFICES ASSUME NEW k \in 0..(b - 1) PROVE f[k + 1] - s[1] \in Int  OBVIOUS
  <2>1. k + 1 \in 0..b  BY <1>2
  <2>2. f[k + 1] \in Int  BY <1>3, <2>1
  <2> QED BY <1>2, <2>2
<1>6. g[0] = 0
  <2>1. 1 \in 1..b /\ 0 \in 0..(b - 1)  BY <1>2
  <2>2. f[1] = f[0] + s[1]  BY <1>3, <2>1
  <2>3. g[0] = f[1] - s[1]  BY <2>1
  <2> QED BY <1>2, <1>3, <2>2, <2>3
<1>7. g[b - 1] = f[b] - s[1] /\ f[b] \in Int
  <2>1. b - 1 \in 0..(b - 1) /\ (b - 1) + 1 = b /\ b \in 0..b  BY <1>2
  <2> QED BY <1>3, <2>1
<1>8. ASSUME NEW k \in 1..(b - 1) PROVE g[k] = g[k - 1] + t[k]
  <2>1. k \in 0..(b - 1) /\ k - 1 \in 0..(b - 1) /\ (k - 1) + 1 = k /\ k + 1 \in 1..b
        /\ (k + 1) - 1 = k /\ k \in 0..b
    BY <1>2
  <2>2. g[k] = f[k + 1] - s[1] /\ g[k - 1] = f[k] - s[1]  BY <2>1
  <2>3. f[k + 1] = f[k] + s[k + 1] /\ t[k] = s[k + 1]  BY <1>2, <1>3, <2>1
  <2>4. f[k] \in Int  BY <1>3, <2>1
  <2>5. s[k + 1] \in Int /\ s[1] \in Int  BY <1>2, <2>1
  <2> HIDE DEF g
  <2>6. (f[k] + s[k + 1]) - s[1] = (f[k] - s[1]) + s[k + 1]  BY <2>4, <2>5
  <2> QED BY <2>2, <2>3, <2>6, Zenon
<1> HIDE DEF g
<1>9. PartialSums(g, t)  BY <1>2, <1>5, <1>6, <1>8 DEF PartialSums
<1>10. SumOf(t) = g[b - 1]  BY <1>2, <1>9, SumOfIs
<1> QED BY <1>2, <1>4, <1>7, <1>10 DEF t

\* A flit counts for its VC only, a bubble for none.
LEMMA FlitOfType == \A x, vc : FlitOf(x, vc) \in {0, 1}
BY DEF FlitOf

\* There are no flits in an empty pipeline.
LEMMA FlitsOnEmpty == \A vc : FlitsOn(<<>>, vc) = 0
<1> SUFFICES ASSUME NEW vc PROVE FlitsOn(<<>>, vc) = 0  OBVIOUS
<1> DEFINE S == {i \in DOMAIN <<>> : IsFlit(<<>>[i]) /\ <<>>[i].vc = vc}
<1>1. S = {}  OBVIOUS
<1>2. FlitsOn(<<>>, vc) = Cardinality(S)  BY DEF FlitsOn
<1> HIDE DEF S
<1> QED BY <1>1, <1>2, FS_EmptySet

\* What enters a pipeline is counted.
LEMMA FlitsOnAppend ==
  ASSUME NEW s \in Seq(FlitOrBubble), NEW x \in FlitOrBubble, NEW vc
  PROVE  FlitsOn(s, vc) \in Nat /\ FlitsOn(Append(s, x), vc) = FlitsOn(s, vc) + FlitOf(x, vc)
<1> DEFINE P(t) == {i \in DOMAIN t : IsFlit(t[i]) /\ t[i].vc = vc}
           b == Len(s)
           t == Append(s, x)
<1>1. b \in Nat /\ DOMAIN s = 1..b /\ DOMAIN t = 1..(b + 1) /\ t[b + 1] = x
      /\ \A k \in 1..b : t[k] = s[k]
  OBVIOUS
<1>2. FlitsOn(s, vc) = Cardinality(P(s)) /\ FlitsOn(t, vc) = Cardinality(P(t))
  BY DEF FlitsOn
<1> HIDE DEF b, t
<1>3. IsFiniteSet(P(s))
  <2>1. IsFiniteSet(1..b)  BY <1>1, FS_Interval
  <2>2. P(s) \subseteq 1..b  BY <1>1
  <2> HIDE DEF P
  <2> QED BY <2>1, <2>2, FS_Subset
<1>4. Cardinality(P(s)) \in Nat
  <2> HIDE DEF P
  <2> QED BY <1>3, FS_CardinalityType
<1>5. CASE IsFlit(x) /\ x.vc = vc
  <2>1. P(t) = P(s) \cup {b + 1}  BY <1>1, <1>5
  <2>2. b + 1 \notin P(s)  BY <1>1
  <2>3. FlitOf(x, vc) = 1  BY <1>5 DEF FlitOf
  <2> HIDE DEF P
  <2>4. Cardinality(P(t)) = Cardinality(P(s)) + 1  BY <1>3, <2>1, <2>2, FS_AddElement
  <2> QED BY <1>2, <1>4, <2>3, <2>4 DEF t
<1>6. CASE ~(IsFlit(x) /\ x.vc = vc)
  <2>1. P(t) = P(s)  BY <1>1, <1>6
  <2>2. FlitOf(x, vc) = 0  BY <1>6 DEF FlitOf
  <2> HIDE DEF P
  <2> QED BY <1>2, <1>4, <2>1, <2>2 DEF t
<1> QED BY <1>5, <1>6

\* What leaves a pipeline is counted no more.
LEMMA FlitsOnTail ==
  ASSUME NEW s \in Seq(FlitOrBubble), s # <<>>, NEW vc
  PROVE  FlitsOn(s, vc) = FlitOf(Head(s), vc) + FlitsOn(Tail(s), vc)
<1> DEFINE P(t) == {i \in DOMAIN t : IsFlit(t[i]) /\ t[i].vc = vc}
           b == Len(s)
           t == Tail(s)
           up == [i \in P(t) |-> i + 1]
<1>1. b \in Nat /\ b >= 1 /\ DOMAIN s = 1..b /\ DOMAIN t = 1..(b - 1) /\ Head(s) = s[1]
      /\ \A k \in 1..(b - 1) : t[k] = s[k + 1]
  OBVIOUS
<1>2. FlitsOn(s, vc) = Cardinality(P(s)) /\ FlitsOn(t, vc) = Cardinality(P(t))
  BY DEF FlitsOn
<1> HIDE DEF b, t
<1>3. IsFiniteSet(P(t))
  <2>1. IsFiniteSet(1..(b - 1))  BY <1>1, FS_Interval
  <2>2. P(t) \subseteq 1..(b - 1)  BY <1>1
  <2> HIDE DEF P
  <2> QED BY <2>1, <2>2, FS_Subset
<1>4. Cardinality(P(t)) \in Nat
  <2> HIDE DEF P
  <2> QED BY <1>3, FS_CardinalityType
<1>5. up \in Bijection(P(t), P(s) \ {1})
  <2>1. \A i \in P(t) : i \in Int /\ i + 1 \in P(s) \ {1}
    <3> SUFFICES ASSUME NEW i \in P(t) PROVE i \in Int /\ i + 1 \in P(s) \ {1}
      OBVIOUS
    <3>1. i \in 1..(b - 1) /\ IsFlit(t[i]) /\ t[i].vc = vc /\ t[i] = s[i + 1]  BY <1>1
    <3>2. i + 1 \in 1..b /\ i + 1 # 1  BY <1>1, <3>1
    <3> QED BY <1>1, <3>1, <3>2
  <2>2. \A j \in P(s) \ {1} : j - 1 \in P(t) /\ (j - 1) + 1 = j
    <3> SUFFICES ASSUME NEW j \in P(s) \ {1} PROVE j - 1 \in P(t) /\ (j - 1) + 1 = j
      OBVIOUS
    <3>1. j \in 1..b /\ j # 1 /\ IsFlit(s[j]) /\ s[j].vc = vc  BY <1>1
    <3>2. j - 1 \in 1..(b - 1) /\ (j - 1) + 1 = j  BY <1>1, <3>1
    <3>3. t[j - 1] = s[j]  BY <1>1, <3>2
    <3> QED BY <1>1, <3>1, <3>2, <3>3
  <2> HIDE DEF P
  <2>3. up \in [P(t) -> P(s) \ {1}]  BY <2>1
  <2>4. \A i, j \in P(t) : up[i] = up[j] => i = j  BY <2>1
  <2>5. \A j \in P(s) \ {1} : \E i \in P(t) : up[i] = j  BY <2>2
  <2> HIDE DEF up
  <2> QED BY <2>3, <2>4, <2>5, Fun_IsBij
<1>6. IsFiniteSet(P(s) \ {1}) /\ Cardinality(P(s) \ {1}) = Cardinality(P(t))
  <2> HIDE DEF P, up
  <2>1. ExistsBijection(P(t), P(s) \ {1})  BY <1>5 DEF ExistsBijection
  <2> QED BY <1>3, <2>1, FS_Bijection
<1>7. CASE IsFlit(s[1]) /\ s[1].vc = vc
  <2>1. P(s) = (P(s) \ {1}) \cup {1}  BY <1>1, <1>7
  <2>2. FlitOf(s[1], vc) = 1  BY <1>7 DEF FlitOf
  <2> HIDE DEF P
  <2>3. Cardinality((P(s) \ {1}) \cup {1}) = Cardinality(P(s) \ {1}) + 1
    BY <1>6, FS_AddElement
  <2>4. FlitsOn(s, vc) = 1 + FlitsOn(t, vc)
    <3>1. Cardinality(P(s)) = Cardinality((P(s) \ {1}) \cup {1})  BY <2>1, Zenon
    <3> QED BY <1>2, <1>4, <1>6, <2>3, <3>1
  <2> QED BY <1>1, <2>2, <2>4 DEF t
<1>8. CASE ~(IsFlit(s[1]) /\ s[1].vc = vc)
  <2>1. P(s) = P(s) \ {1}  BY <1>1, <1>8
  <2>2. FlitOf(s[1], vc) = 0  BY <1>8 DEF FlitOf
  <2> HIDE DEF P
  <2>3. FlitsOn(s, vc) = 0 + FlitsOn(t, vc)
    <3>1. Cardinality(P(s)) = Cardinality(P(s) \ {1})  BY <2>1, Zenon
    <3> QED BY <1>2, <1>4, <1>6, <3>1
  <2> QED BY <1>1, <2>2, <2>3 DEF t
<1> QED BY <1>7, <1>8

-----------------------------------------------------------------------------
(***************************************************************************)
(* Stamps and wiring.                                                      *)
(***************************************************************************)

\* Stamps of different kinds, or of different things, are different.
LEMMA StampFields ==
  /\ \A c : Fwd(c)[1] = "forward_channels" /\ Fwd(c)[2] = c
  /\ \A c, vc : Rev(c, vc)[1] = "reverse_channels" /\ Rev(c, vc)[2] = c /\ Rev(c, vc)[3] = vc
  /\ \A l, vc : /\ Pushed(l, vc)[1] = "internal_reverse_propagated"
                 /\ Pushed(l, vc)[2] = l /\ Pushed(l, vc)[3] = vc
  /\ \A c, vc : /\ Update(c, vc)[1] = "credit_update"
                 /\ Update(c, vc)[2] = c /\ Update(c, vc)[3] = vc
  /\ \A r : Credited(r)[1] = "internal_propagated" /\ Credited(r)[2] = r
  /\ \A x : ForwardDone(x)[1] = "forward_propagated" /\ ForwardDone(x)[2] = x
  /\ \A x : ReverseDone(x)[1] = "reverse_propagated" /\ ReverseDone(x)[2] = x
BY DEF Fwd, Rev, Pushed, Update, Credited, ForwardDone, ReverseDone

\* What may carry a stamp.
LEMMA StampTypes ==
  /\ \A c \in Connection : Fwd(c) \in Stamp
  /\ \A c \in Connection, vc \in VC : Rev(c, vc) \in Stamp /\ Update(c, vc) \in Stamp
  /\ \A l \in Link, vc \in VC : Pushed(l, vc) \in Stamp
  /\ \A r \in Router : Credited(r) \in Stamp
  /\ \A x \in Component : ForwardDone(x) \in Stamp /\ ReverseDone(x) \in Stamp
BY DEF Stamp

(* Only the stamps given, by their kind, are new in m. *)
NewStamps(n, m, fwd, rev, pushed, update, credited, fdone, rdone) ==
  /\ \A c : Fwd(c) \in m.current <=> Fwd(c) \in n.current \/ c \in fwd
  /\ \A c, vc : Rev(c, vc) \in m.current <=> Rev(c, vc) \in n.current \/ <<c, vc>> \in rev
  /\ \A l, vc : Pushed(l, vc) \in m.current
                <=> Pushed(l, vc) \in n.current \/ <<l, vc>> \in pushed
  /\ \A c, vc : Update(c, vc) \in m.current
                <=> Update(c, vc) \in n.current \/ <<c, vc>> \in update
  /\ \A r : Credited(r) \in m.current <=> Credited(r) \in n.current \/ r \in credited
  /\ \A x : ForwardDone(x) \in m.current <=> ForwardDone(x) \in n.current \/ x \in fdone
  /\ \A x : ReverseDone(x) \in m.current <=> ReverseDone(x) \in n.current \/ x \in rdone

\* Ports and their connections.
LEMMA Ports ==
  /\ \A x \in Component : Range(In[x]) \subseteq Connection /\ Range(Out[x]) \subseteq Connection
  /\ \A l \in Link : /\ In[l][1] \in Connection /\ Out[l][1] \in Connection
                     /\ Range(In[l]) = {In[l][1]} /\ Range(Out[l]) = {Out[l][1]}
  /\ \A s \in Source : Out[s][1] \in Connection /\ Range(Out[s]) = {Out[s][1]} /\ Range(In[s]) = {}
  /\ \A k \in Sink : In[k][1] \in Connection /\ Range(In[k]) = {In[k][1]} /\ Range(Out[k]) = {}
<1>1. \A x \in Component : In[x] \in Seq(Connection) /\ Out[x] \in Seq(Connection)
  BY NocAssumption
<1>2. ASSUME NEW q \in Seq(Connection) PROVE Range(q) \subseteq Connection
  BY DEF Range
<1>3. ASSUME NEW q \in Seq(Connection), Len(q) = 1
      PROVE  q[1] \in Connection /\ Range(q) = {q[1]}
  BY <1>3 DEF Range
<1>4. Range(<<>>) = {}  BY DEF Range
<1>5. Link \subseteq Component /\ Source \subseteq Component /\ Sink \subseteq Component
  BY DEF Component
<1>6. \A l \in Link : Len(In[l]) = 1 /\ Len(Out[l]) = 1  BY WiringAssumption
<1>7. \A s \in Source : In[s] = <<>> /\ Len(Out[s]) = 1  BY WiringAssumption
<1>8. \A k \in Sink : Len(In[k]) = 1 /\ Out[k] = <<>>  BY WiringAssumption
<1>9. \A l \in Link : /\ In[l][1] \in Connection /\ Out[l][1] \in Connection
                     /\ Range(In[l]) = {In[l][1]} /\ Range(Out[l]) = {Out[l][1]}
  BY <1>1, <1>3, <1>5, <1>6
<1>10. \A s \in Source : Out[s][1] \in Connection /\ Range(Out[s]) = {Out[s][1]} /\ Range(In[s]) = {}
  BY <1>1, <1>3, <1>4, <1>5, <1>7
<1>11. \A k \in Sink : In[k][1] \in Connection /\ Range(In[k]) = {In[k][1]} /\ Range(Out[k]) = {}
  BY <1>1, <1>3, <1>4, <1>5, <1>8
<1> QED BY <1>1, <1>2, <1>9, <1>10, <1>11

\* A component is of one kind.
LEMMA Kinds ==
  /\ \A x \in Source : x \in Component /\ x \notin Link /\ x \notin Router /\ x \notin Sink
  /\ \A x \in Link : x \in Component /\ x \notin Source /\ x \notin Router /\ x \notin Sink
  /\ \A x \in Router : x \in Component /\ x \notin Source /\ x \notin Link /\ x \notin Sink
  /\ \A x \in Sink : x \in Component /\ x \notin Source /\ x \notin Link /\ x \notin Router
BY WiringAssumption DEF Component

\* A connection has one sender and one receiver.
LEMMA Ends ==
  /\ \A x, y \in Component : \A c : c \in Range(In[x]) /\ c \in Range(In[y]) => x = y
  /\ \A x, y \in Component : \A c : c \in Range(Out[x]) /\ c \in Range(Out[y]) => x = y
<1>1. \A x, y \in Component : x # y => Range(In[x]) \cap Range(In[y]) = {}
                                     /\ Range(Out[x]) \cap Range(Out[y]) = {}
  BY WiringAssumption
<1> QED BY <1>1

\* A flit is no bubble.
LEMMA FlitsAreFlits ==
  /\ \A x \in Flit : IsFlit(x) /\ x \in FlitOrBubble /\ x.vc \in VC /\ x.flow.dest \in Sink
  /\ \A x \in FlitOrBubble : IsFlit(x) => x \in Flit
  /\ Bubble \in FlitOrBubble /\ ~IsFlit(Bubble)
<1>1. Bubble \notin Flit
  <2>1. DOMAIN Bubble = {"type"}  BY DEF Bubble
  <2>2. \A x \in Flit : DOMAIN x = {"flow", "seq", "vc"}  BY DEF Flit
  <2> QED BY <2>1, <2>2
<1>2. \A x \in Flit : x.vc \in VC /\ x.flow.dest \in Sink  BY DEF Flit, Flow
<1> QED BY <1>1, <1>2 DEF FlitOrBubble, IsFlit

\* Fields and their types.
NetFields ==
  {"forward_channels", "reverse_channels", "forward_data_stages", "reverse_credit_stages",
   "data_to_send", "credit", "credit_update", "input_buffers", "input_credit_to_send",
   "received_traffic", "current", "cycle"}

FieldTypes(m) ==
  /\ m.forward_channels \in [Connection -> FlitOrBubble]
  /\ m.reverse_channels \in [Connection -> [VC -> Nat]]
  /\ m.forward_data_stages \in [Link -> Seq(FlitOrBubble)]
  /\ m.reverse_credit_stages \in [Link -> [VC -> Seq(Nat)]]
  /\ m.data_to_send \in [Source -> [VC -> Seq(Flit)]]
  /\ m.credit \in [Connection -> [VC -> Nat]]
  /\ m.credit_update \in [Connection -> [VC -> Nat]]
  /\ m.input_buffers \in [Connection -> [VC -> Seq(Flit)]]
  /\ m.input_credit_to_send \in [Connection -> [VC -> 0..1]]
  /\ m.received_traffic \in [Sink -> Seq(Flit)]
  /\ m.current \in SUBSET Stamp
  /\ m.cycle \in -1..2

\* A simulator is a record of these fields and types.
LEMMA NetIsRecord ==
  \A n \in Net : n = [f \in NetFields |-> n[f]] /\ DOMAIN n = NetFields /\ FieldTypes(n)
BY DEF Net, NetFields, FieldTypes

\* And a record of these fields and types is a simulator.
LEMMA RecordIsNet ==
  ASSUME NEW m, m = [f \in NetFields |-> m[f]], FieldTypes(m)
  PROVE  m \in Net
<1> DEFINE r == [forward_channels |-> m.forward_channels,
                 reverse_channels |-> m.reverse_channels,
                 forward_data_stages |-> m.forward_data_stages,
                 reverse_credit_stages |-> m.reverse_credit_stages,
                 data_to_send |-> m.data_to_send,
                 credit |-> m.credit,
                 credit_update |-> m.credit_update,
                 input_buffers |-> m.input_buffers,
                 input_credit_to_send |-> m.input_credit_to_send,
                 received_traffic |-> m.received_traffic,
                 current |-> m.current,
                 cycle |-> m.cycle]
<1>1. m = r  BY DEF NetFields
<1>2. r \in Net  BY DEF FieldTypes, Net
<1> QED BY <1>1, <1>2, Zenon

\* What is counted are numbers.
LEMMA CountTypes ==
  ASSUME NEW n \in Net, NEW cur, NEW vc \in VC
  PROVE  /\ \A x : \A c \in Connection :
              AtSender(n, cur, x, c, vc) \in Nat /\ AtReceiver(n, cur, x, c, vc) \in Nat
         /\ \A l \in Link : /\ SumOf(n.reverse_credit_stages[l][vc]) \in Nat
                            /\ FlitsOn(n.forward_data_stages[l], vc) \in Nat
                            /\ OnLink(n, cur, l, vc) \in Nat
<1>1. \A c \in Connection : /\ n.credit[c][vc] \in Nat /\ n.credit_update[c][vc] \in Nat
                            /\ n.reverse_channels[c][vc] \in Nat
  BY DEF Net
<1>4. \A c \in Connection : n.input_credit_to_send[c][vc] \in Nat
  <2>1. \A c \in Connection : n.input_credit_to_send[c][vc] \in 0..1  BY DEF Net
  <2> QED BY <2>1
<1>5. \A c \in Connection : Len(n.input_buffers[c][vc]) \in Nat
  <2> SUFFICES ASSUME NEW c \in Connection PROVE Len(n.input_buffers[c][vc]) \in Nat
    OBVIOUS
  <2>1. n.input_buffers[c][vc] \in Seq(Flit)  BY DEF Net
  <2> QED BY <2>1
<1>2. \A l \in Link : /\ SumOf(n.reverse_credit_stages[l][vc]) \in Nat
                     /\ FlitsOn(n.forward_data_stages[l], vc) \in Nat
  <2> SUFFICES ASSUME NEW l \in Link
               PROVE  /\ SumOf(n.reverse_credit_stages[l][vc]) \in Nat
                      /\ FlitsOn(n.forward_data_stages[l], vc) \in Nat
    OBVIOUS
  <2>1. n.reverse_credit_stages[l][vc] \in Seq(Nat)  BY DEF Net
  <2>2. n.forward_data_stages[l] \in Seq(FlitOrBubble)  BY DEF Net
  <2>3. Bubble \in FlitOrBubble  BY FlitsAreFlits
  <2> QED BY <2>1, <2>2, <2>3, SumOfIs, FlitsOnAppend
<1>3. \A l \in Link : In[l][1] \in Connection /\ Out[l][1] \in Connection  BY Ports
<1>6. \A x : \A c \in Connection : AtSender(n, cur, x, c, vc) \in Nat
  BY <1>1 DEF AtSender
<1>7. \A x : \A c \in Connection : AtReceiver(n, cur, x, c, vc) \in Nat
  BY <1>4, <1>5, FlitOfType DEF AtReceiver
<1>8. \A l \in Link : OnLink(n, cur, l, vc) \in Nat
  BY <1>1, <1>2, <1>3, FlitOfType DEF OnLink
<1> QED BY <1>2, <1>6, <1>7, <1>8

(* From n, with the stamps cn, to m nothing is lost or gained on a path. *)
Balanced(n, cn, m, cm) ==
  \A x \in Source \cup Router, l \in Link, y \in Router \cup Sink, vc \in VC :
    IsPath(x, l, y) =>
      /\ Count(m, cm, x, l, y, vc) = Count(n, cn, x, l, y, vc)
      /\ m.cycle = n.cycle
      /\ Rev(Out[l][1], vc) \in cm <=> Rev(Out[l][1], vc) \in cn

\* The accounts are kept by what neither loses nor gains.
LEMMA BalancedOK ==
  ASSUME NEW n, NEW m, NEW cn, NEW cm, Accounted(n, cn), Balanced(n, cn, m, cm)
  PROVE  Accounted(m, cm)
BY DEF Accounted, Balanced

-----------------------------------------------------------------------------
(***************************************************************************)
(* Sources.                                                                *)
(***************************************************************************)

(* The source s has taken up the updates, has sent flit (or a bubble), and *)
(* has spent a credit if and only if it sent a flit on that VC.            *)
SourceSends(n, m, s, flit, have) ==
  /\ flit \in FlitOrBubble /\ have \in [VC -> Nat]
  /\ \A vc \in VC : have[vc] + FlitOf(flit, vc)
                      = n.credit[Out[s][1]][vc] + n.credit_update[Out[s][1]][vc]
  /\ m.forward_channels = [n.forward_channels EXCEPT ![Out[s][1]] = flit]
  /\ m.credit = [n.credit EXCEPT ![Out[s][1]] = have]
  /\ m.reverse_channels = n.reverse_channels
  /\ m.forward_data_stages = n.forward_data_stages
  /\ m.reverse_credit_stages = n.reverse_credit_stages
  /\ m.credit_update = n.credit_update
  /\ m.input_buffers = n.input_buffers
  /\ m.input_credit_to_send = n.input_credit_to_send
  /\ m.cycle = n.cycle
  /\ m.current = n.current \cup {Fwd(Out[s][1]), ForwardDone(s)}

\* This is what the forward propagation of a source does.
LEMMA SrcForwardEffect ==
  ASSUME NEW n \in Net, QueuedByVC(n), NEW s \in Source, NEW m, m = SrcForward(n, s)
  PROVE  /\ \E flit, have : SourceSends(n, m, s, flit, have)
         /\ m \in Net /\ QueuedByVC(m)
<1> DEFINE c    == Out[s][1]
           have == [vc \in VC |-> n.credit[c][vc] + n.credit_update[c][vc]]
           able == {vc \in VC : n.data_to_send[s][vc] # <<>> /\ have[vc] > 0}
           cur  == n.current \cup {Fwd(c), ForwardDone(s)}
           done == [n EXCEPT !.current = cur]
<1>1. c \in Connection  BY Ports
<1>2. have \in [VC -> Nat]  BY <1>1 DEF Net
<1>3. cur \subseteq Stamp
  <2>1. s \in Component  BY Kinds
  <2> QED BY <1>1, <2>1, StampTypes DEF Net
<1> HIDE DEF cur
<1>4. CASE able = {}
  <2>1. m = [done EXCEPT !.forward_channels[c] = Bubble, !.credit[c] = have]
    BY <1>4 DEF SrcForward, cur
  <2> HIDE DEF c, have
  <2>2. m \in Net
    <3>1. m = [f \in NetFields |-> m[f]]  BY <2>1, NetIsRecord
    <3>2. FieldTypes(m)  BY <1>1, <1>2, <1>3, <2>1, FlitsAreFlits DEF FieldTypes, Net
    <3> QED BY <3>1, <3>2, RecordIsNet
  <2>3. SourceSends(n, m, s, Bubble, have)
    <3>1. \A vc \in VC : have[vc] + FlitOf(Bubble, vc)
                      = n.credit[c][vc] + n.credit_update[c][vc]
      BY <1>1, FlitsAreFlits DEF FlitOf, have, Net
    <3> QED BY <1>2, <2>1, <3>1, FlitsAreFlits DEF SourceSends, c, cur, Net
  <2>4. QueuedByVC(m)  BY <2>1 DEF QueuedByVC, Net
  <2> QED BY <2>2, <2>3, <2>4
<1>5. CASE able # {}
  <2> DEFINE v    == Min(able)
             q    == n.data_to_send[s][v]
             flit == Head(q)
             left == [have EXCEPT ![v] = @ - 1]
  <2>1. m = [done EXCEPT !.forward_channels[c] = flit, !.credit[c] = left,
                         !.data_to_send[s][v] = Tail(@)]
    BY <1>5 DEF SrcForward, cur
  <2>2. v \in able
    <3>1. able \subseteq Nat  BY NocAssumption DEF VC
    <3> HIDE DEF able
    <3> QED BY <1>5, <3>1, MinIsLeast
  <2>3. v \in VC /\ q # <<>> /\ have[v] > 0  BY <2>2
  <2> HIDE DEF able, v, c
  <2>4. q \in Seq(Flit) /\ \A i \in DOMAIN q : q[i].vc = v
    BY <2>3 DEF Net, QueuedByVC
  <2>5. flit \in Flit /\ Tail(q) \in Seq(Flit) /\ flit.vc = v
        /\ \A i \in DOMAIN Tail(q) : Tail(q)[i].vc = v
    <3> HIDE DEF q
    <3>1. flit \in Flit /\ Tail(q) \in Seq(Flit)  BY <2>3, <2>4
    <3>2. flit = q[1] /\ 1 \in DOMAIN q  BY <2>3, <2>4
    <3>3. \A i \in DOMAIN Tail(q) : i + 1 \in DOMAIN q /\ Tail(q)[i] = q[i + 1]
      BY <2>3, <2>4
    <3> QED BY <2>4, <3>1, <3>2, <3>3
  <2>6. left \in [VC -> Nat]  BY <1>2, <2>3
  <2>7. \A vc \in VC : left[vc] + FlitOf(flit, vc)
                       = n.credit[c][vc] + n.credit_update[c][vc]
    <3>1. \A vc \in VC : have[vc] \in Nat
                         /\ have[vc] = n.credit[c][vc] + n.credit_update[c][vc]
      BY <1>2
    <3>2. IsFlit(flit)  BY <2>5, FlitsAreFlits
    <3>3. \A vc \in VC : left[vc] = IF vc = v THEN have[vc] - 1 ELSE have[vc]  BY <1>2
    <3>4. \A vc \in VC : FlitOf(flit, vc) = IF vc = v THEN 1 ELSE 0
      BY <2>5, <3>2 DEF FlitOf
    <3> HIDE DEF have, flit, left
    <3> QED BY <3>1, <3>3, <3>4
  <2>8. m.data_to_send = [n.data_to_send EXCEPT ![s][v] = Tail(q)]
    BY <2>1 DEF Net
  <2> HIDE DEF have, left, flit, q
  <2>9. m.data_to_send \in [Source -> [VC -> Seq(Flit)]]
    BY <2>3, <2>5, <2>8 DEF Net
  <2>10. m \in Net
    <3>1. m = [f \in NetFields |-> m[f]]  BY <2>1, NetIsRecord
    <3>2. FieldTypes(m)
      BY <1>1, <1>3, <2>1, <2>5, <2>6, <2>9, FlitsAreFlits DEF FieldTypes, Net
    <3> QED BY <3>1, <3>2, RecordIsNet
  <2>11. SourceSends(n, m, s, flit, left)
    BY <2>1, <2>5, <2>6, <2>7, FlitsAreFlits DEF SourceSends, c, cur, Net
  <2>12. QueuedByVC(m)
    <3> SUFFICES ASSUME NEW t \in Source, NEW vc \in VC,
                        NEW i \in DOMAIN m.data_to_send[t][vc]
                 PROVE  m.data_to_send[t][vc][i].vc = vc
      BY DEF QueuedByVC
    <3>1. CASE t = s /\ vc = v
      <4>1. m.data_to_send[t][vc] = Tail(q)  BY <2>3, <2>8, <3>1 DEF Net
      <4> QED BY <2>5, <3>1, <4>1
    <3>2. CASE ~(t = s /\ vc = v)
      <4>1. m.data_to_send[t][vc] = n.data_to_send[t][vc]  BY <2>3, <2>8, <3>2 DEF Net
      <4> QED BY <4>1 DEF QueuedByVC
    <3> QED BY <3>1, <3>2
  <2> QED BY <2>10, <2>11, <2>12
<1> QED BY <1>4, <1>5

\* The forward propagation of a source keeps the invariant.
LEMMA SrcForwardOK ==
  ASSUME NEW n \in Net, CycleInv(n), NEW s \in Source, ForwardDone(s) \notin n.current,
         NEW m, m = SrcForward(n, s)
  PROVE  m \in Net /\ CycleInv(m)
<1> DEFINE c == Out[s][1]
<1>0. QueuedByVC(n)  BY DEF CycleInv
<1>1. m \in Net /\ QueuedByVC(m)  BY <1>0, SrcForwardEffect
<1>2. PICK flit, have : SourceSends(n, m, s, flit, have)  BY <1>0, SrcForwardEffect
<1>3. NewStamps(n, m, {c}, {}, {}, {}, {}, {s}, {})
  BY <1>2, StampFields DEF SourceSends, NewStamps
<1>4. SenderStamps(m.current)
  BY <1>3, Ports, Ends, Kinds DEF SenderStamps, CycleInv, NewStamps
<1>5. LinkStamps(m.current)
  <2>1. LinkStamps(n.current)  BY DEF CycleInv
  <2>2. ASSUME NEW l \in Link PROVE Out[l][1] # c
    <3>1. l \in Component /\ l # s /\ s \in Component /\ Out[l][1] \in Range(Out[l])
          /\ c \in Range(Out[s])
      BY Ports, Kinds
    <3> QED BY <3>1, Ends
  <2> QED BY <1>3, <2>1, <2>2, Kinds DEF LinkStamps, NewStamps
<1>6. ReceiverStamps(m.current)
  BY <1>3, Ports, Ends, Kinds DEF ReceiverStamps, CycleInv, NewStamps
<1>7. ReturnsKept(m, m.current)
  BY <1>2, <1>3 DEF ReturnsKept, CycleInv, NewStamps, SourceSends
<1>8. Accounted(m, m.current)
  <2>1. ASSUME NEW x \in Source \cup Router, NEW l \in Link,
               NEW y \in Router \cup Sink, NEW vc \in VC, IsPath(x, l, y)
        PROVE  /\ Count(m, m.current, x, l, y, vc) = Count(n, n.current, x, l, y, vc)
               /\ m.cycle = n.cycle
               /\ Rev(Out[l][1], vc) \in m.current <=> Rev(Out[l][1], vc) \in n.current
    <3> DEFINE a == In[l][1]
               b == Out[l][1]
    <3>1. a \in Connection /\ b \in Connection /\ c \in Connection /\ b # c
          /\ (x = s => a = c) /\ (x # s => a # c) /\ y # s /\ l # s
      BY <2>1, Ports, Ends, Kinds DEF IsPath
    <3>2. m.cycle = n.cycle /\ (Rev(b, vc) \in m.current <=> Rev(b, vc) \in n.current)
      BY <1>2, <1>3 DEF SourceSends, NewStamps
    <3> HIDE DEF a, b, c
    <3>3. AtReceiver(m, m.current, y, b, vc) = AtReceiver(n, n.current, y, b, vc)
      <4>1. m.forward_channels[b] = n.forward_channels[b]
            /\ m.input_buffers = n.input_buffers
            /\ m.input_credit_to_send = n.input_credit_to_send
        BY <1>2, <3>1 DEF SourceSends, c, Net
      <4>2. (Fwd(b) \in m.current <=> Fwd(b) \in n.current)
            /\ (ForwardDone(y) \in m.current <=> ForwardDone(y) \in n.current)
        BY <1>3, <3>1 DEF NewStamps
      <4> QED BY <3>2, <4>1, <4>2 DEF AtReceiver
    <3>4. CASE x = s
      <4>1. AtSender(m, m.current, x, a, vc) + FlitOf(flit, vc) = AtSender(n, n.current, x, a, vc)
        <5>1. m.credit[a][vc] = have[vc] /\ m.credit_update = n.credit_update
              /\ m.reverse_channels = n.reverse_channels
          BY <1>2, <3>1, <3>4 DEF SourceSends, c, Net
        <5>2. have[vc] + FlitOf(flit, vc) = n.credit[a][vc] + n.credit_update[a][vc]
          BY <1>2, <3>1, <3>4 DEF SourceSends, c
        <5>3. Update(a, vc) \notin n.current /\ Update(a, vc) \notin m.current
              /\ (Rev(a, vc) \in m.current <=> Rev(a, vc) \in n.current)
          BY <1>3, <3>1, <3>4, Ports DEF NewStamps, CycleInv, SenderStamps, c
        <5>4. TakenUp(m.current, x) /\ ~TakenUp(n.current, x)
          BY <1>3, <3>4 DEF TakenUp, NewStamps
        <5>5. have[vc] \in Nat /\ n.credit[a][vc] \in Nat /\ n.credit_update[a][vc] \in Nat
              /\ n.reverse_channels[a][vc] \in Nat
          BY <1>2, <3>1 DEF SourceSends, Net
        <5> QED BY <5>1, <5>2, <5>3, <5>4, <5>5, FlitOfType DEF AtSender
      <4>2. OnLink(m, m.current, l, vc) = OnLink(n, n.current, l, vc) + FlitOf(flit, vc)
        <5>1. m.forward_channels[a] = flit /\ m.reverse_channels = n.reverse_channels
              /\ m.forward_data_stages = n.forward_data_stages
              /\ m.reverse_credit_stages = n.reverse_credit_stages
          BY <1>2, <3>1, <3>4 DEF SourceSends, c, Net
        <5>2. Fwd(a) \notin n.current /\ Fwd(a) \in m.current
              /\ ForwardDone(l) \notin n.current /\ ForwardDone(l) \notin m.current
          BY <1>3, <3>1, <3>4, Ports
             DEF NewStamps, CycleInv, SenderStamps, LinkStamps, a, c
        <5>3. (Pushed(l, vc) \in m.current <=> Pushed(l, vc) \in n.current)
          BY <1>3 DEF NewStamps
        <5>4. SumOf(n.reverse_credit_stages[l][vc]) \in Nat
              /\ FlitsOn(n.forward_data_stages[l], vc) \in Nat
              /\ n.reverse_channels[b][vc] \in Nat
          BY <3>1, CountTypes DEF Net
        <5> QED BY <3>2, <5>1, <5>2, <5>3, <5>4, FlitOfType DEF OnLink, a, b
      <4> QED BY <3>1, <3>2, <3>3, <4>1, <4>2, <1>1, CountTypes, FlitOfType
             DEF Count, a, b
    <3>5. CASE x # s
      <4>1. AtSender(m, m.current, x, a, vc) = AtSender(n, n.current, x, a, vc)
        BY <1>2, <1>3, <3>1, <3>5 DEF AtSender, TakenUp, SourceSends, NewStamps, c, Net
      <4>2. OnLink(m, m.current, l, vc) = OnLink(n, n.current, l, vc)
        BY <1>2, <1>3, <3>1, <3>5 DEF OnLink, SourceSends, NewStamps, c, a, b, Net
      <4> QED BY <3>2, <3>3, <4>1, <4>2 DEF Count, a, b
    <3> QED BY <3>4, <3>5
  <2>2. Balanced(n, n.current, m, m.current)  BY <2>1 DEF Balanced
  <2> QED BY <2>2, BalancedOK DEF CycleInv
<1>9. m.cycle # -1  BY <1>2 DEF SourceSends, CycleInv
<1> QED BY <1>9, <1>1, <1>4, <1>5, <1>6, <1>7, <1>8 DEF CycleInv

(* The credits that have arrived on connections cs and are not yet noted. *)
Fresh(n, cs) ==
  {x \in cs \X VC : Rev(x[1], x[2]) \in n.current /\ Update(x[1], x[2]) \notin n.current}

(* Only credit updates, and their stamps, differ in m. *)
Receives(n, m, cs) ==
  /\ m.forward_channels = n.forward_channels
  /\ m.reverse_channels = n.reverse_channels
  /\ m.forward_data_stages = n.forward_data_stages
  /\ m.reverse_credit_stages = n.reverse_credit_stages
  /\ m.data_to_send = n.data_to_send
  /\ m.credit = n.credit
  /\ m.input_buffers = n.input_buffers
  /\ m.input_credit_to_send = n.input_credit_to_send
  /\ m.received_traffic = n.received_traffic
  /\ m.cycle = n.cycle
  /\ \A c \in Connection, vc \in VC :
       m.credit_update[c][vc] = IF <<c, vc>> \in Fresh(n, cs) THEN n.reverse_channels[c][vc]
                                ELSE n.credit_update[c][vc]
  /\ m.current = n.current \cup {Update(x[1], x[2]) : x \in Fresh(n, cs)}

\* Receiving credits changes updates and their stamps only.
LEMMA ReceiveCreditEffect ==
  ASSUME NEW n \in Net, NEW cs \in SUBSET Connection, NEW m, m = ReceiveCredit(n, cs)
  PROVE  m \in Net /\ Receives(n, m, cs)
<1> DEFINE fresh == Fresh(n, cs)
           cu  == [c \in Connection |-> [vc \in VC |->
                     IF <<c, vc>> \in fresh THEN n.reverse_channels[c][vc]
                     ELSE n.credit_update[c][vc]]]
           cur == n.current \cup {Update(x[1], x[2]) : x \in fresh}
<1>1. m = [n EXCEPT !.credit_update = cu, !.current = cur]
  BY DEF ReceiveCredit, Fresh
<1>2. cu \in [Connection -> [VC -> Nat]]  BY DEF Net
<1>3. cur \subseteq Stamp
  <2>1. \A x \in fresh : x[1] \in Connection /\ x[2] \in VC  BY DEF Fresh
  <2> QED BY <2>1, StampTypes DEF Net
<1>4. \A c \in Connection, vc \in VC :
        cu[c][vc] = IF <<c, vc>> \in fresh THEN n.reverse_channels[c][vc]
                    ELSE n.credit_update[c][vc]
  OBVIOUS
<1> HIDE DEF cu
<1>5. m.credit_update = cu /\ m.current = cur
  <2> HIDE DEF cur
  <2> QED BY <1>1 DEF Net
<1>6. m \in Net
  <2> HIDE DEF cur
  <2>1. m = [f \in NetFields |-> m[f]]  BY <1>1, NetIsRecord
  <2>2. FieldTypes(m)  BY <1>1, <1>2, <1>3 DEF FieldTypes, Net
  <2> QED BY <2>1, <2>2, RecordIsNet
<1>7. /\ m.forward_channels = n.forward_channels
      /\ m.reverse_channels = n.reverse_channels
      /\ m.forward_data_stages = n.forward_data_stages
      /\ m.reverse_credit_stages = n.reverse_credit_stages
      /\ m.data_to_send = n.data_to_send
      /\ m.credit = n.credit
      /\ m.input_buffers = n.input_buffers
      /\ m.input_credit_to_send = n.input_credit_to_send
      /\ m.received_traffic = n.received_traffic
      /\ m.cycle = n.cycle
  <2> HIDE DEF cur
  <2> QED BY <1>1 DEF Net
<1> QED BY <1>4, <1>5, <1>6, <1>7 DEF Receives

\* The reverse propagation of a source keeps the invariant.
LEMMA SrcReverseOK ==
  ASSUME NEW n \in Net, CycleInv(n), NEW s \in Source, ForwardDone(s) \in n.current,
         NEW m, m = SrcReverse(n, s)
  PROVE  m \in Net /\ CycleInv(m)
<1> DEFINE cs == Range(Out[s])
           c == Out[s][1]
           fresh == Fresh(n, cs)
           done == AllCreditsHere(n, cs)
<1>0. s \in Component /\ c \in Connection /\ cs = {c} /\ cs \subseteq Connection
  BY Kinds, Ports
<1>1. PICK k : k = ReceiveCredit(n, cs)  OBVIOUS
<1>2. k \in Net /\ Receives(n, k, cs)  BY <1>0, <1>1, ReceiveCreditEffect
<1>3. m = [k EXCEPT !.current = @ \cup DoneIf(done, ReverseDone(s))]
  BY <1>1 DEF SrcReverse
<1> HIDE DEF fresh, cs, c, done
<1>4. m.current = n.current \cup {Update(x[1], x[2]) : x \in fresh}
                            \cup DoneIf(done, ReverseDone(s))
  <2>1. m.current = k.current \cup DoneIf(done, ReverseDone(s))  BY <1>2, <1>3 DEF Net
  <2> QED BY <1>2, <2>1 DEF Receives, fresh
<1>5. m \in Net
  <2>1. m = [f \in NetFields |-> m[f]]  BY <1>2, <1>3, NetIsRecord
  <2>2. DoneIf(done, ReverseDone(s)) \subseteq Stamp  BY <1>0, StampTypes DEF DoneIf
  <2>3. FieldTypes(m)  BY <1>2, <1>3, <2>2 DEF FieldTypes, Net
  <2> QED BY <2>1, <2>3, RecordIsNet
<1>6. /\ m.forward_channels = n.forward_channels
      /\ m.credit = n.credit
      /\ m.reverse_channels = n.reverse_channels
      /\ m.forward_data_stages = n.forward_data_stages
      /\ m.reverse_credit_stages = n.reverse_credit_stages
      /\ m.data_to_send = n.data_to_send
      /\ m.credit_update = k.credit_update
      /\ m.input_buffers = n.input_buffers
      /\ m.input_credit_to_send = n.input_credit_to_send
      /\ m.cycle = n.cycle
  BY <1>2, <1>3 DEF Receives, Net
<1>7. \A d, vc : <<d, vc>> \in fresh
                 <=> d = c /\ vc \in VC /\ Rev(d, vc) \in n.current /\ Update(d, vc) \notin n.current
  BY <1>0 DEF fresh, Fresh
<1>8. NewStamps(n, m, {}, {}, {}, fresh, {}, {}, IF done THEN {s} ELSE {})
  BY <1>4, StampFields DEF NewStamps, DoneIf, fresh, Fresh
<1>9. SenderStamps(m.current)
  <2>1. done => \A vc \in VC : Rev(c, vc) \in n.current  BY <1>0 DEF done, AllCreditsHere
  <2> QED BY <1>0, <1>7, <1>8, <2>1, Ports, Ends, Kinds
          DEF SenderStamps, CycleInv, NewStamps, cs
<1>10. LinkStamps(m.current) /\ ReceiverStamps(m.current)
  BY <1>8, Kinds DEF LinkStamps, ReceiverStamps, CycleInv, NewStamps
<1>11. ReturnsKept(m, m.current) /\ QueuedByVC(m)
  BY <1>6, <1>8 DEF ReturnsKept, QueuedByVC, CycleInv, NewStamps
<1>12. ASSUME NEW x \in Source \cup Router, NEW l \in Link,
              NEW y \in Router \cup Sink, NEW vc \in VC, IsPath(x, l, y)
       PROVE  /\ Count(m, m.current, x, l, y, vc) = Count(n, n.current, x, l, y, vc)
              /\ m.cycle = n.cycle
              /\ Rev(Out[l][1], vc) \in m.current <=> Rev(Out[l][1], vc) \in n.current
  <2> DEFINE a == In[l][1]
             b == Out[l][1]
  <2>1. a \in Connection /\ b \in Connection /\ (x = s => a = c) /\ (x # s => a # c)
    BY <1>0, <1>12, Ports, Ends, Kinds DEF IsPath, cs
  <2> HIDE DEF a, b
  <2>2. AtReceiver(m, m.current, y, b, vc) = AtReceiver(n, n.current, y, b, vc)
    BY <1>6, <1>8 DEF AtReceiver, NewStamps
  <2>3. OnLink(m, m.current, l, vc) = OnLink(n, n.current, l, vc)
    BY <1>6, <1>8 DEF OnLink, NewStamps
  <2>4. TakenUp(m.current, x) <=> TakenUp(n.current, x)
    BY <1>8 DEF TakenUp, NewStamps
  <2>6. m.credit_update[a][vc] = IF <<a, vc>> \in fresh THEN n.reverse_channels[a][vc]
                                 ELSE n.credit_update[a][vc]
    BY <1>2, <1>6, <2>1 DEF Receives, fresh
  <2>7. m.credit[a][vc] = n.credit[a][vc] /\ m.reverse_channels[a][vc] = n.reverse_channels[a][vc]
        /\ (Rev(a, vc) \in m.current <=> Rev(a, vc) \in n.current)
    BY <1>6, <1>8 DEF NewStamps
  <2>5. AtSender(m, m.current, x, a, vc) = AtSender(n, n.current, x, a, vc)
    <3>1. CASE x = s
      <4>1. TakenUp(n.current, x)  BY <3>1 DEF TakenUp
      <4>2. <<a, vc>> \in fresh <=> Rev(a, vc) \in n.current /\ Update(a, vc) \notin n.current
        BY <1>7, <2>1, <3>1
      <4>3. Update(a, vc) \in m.current <=> Update(a, vc) \in n.current \/ Rev(a, vc) \in n.current
        BY <1>8, <4>2 DEF NewStamps
      <4>4. n.credit[a][vc] \in Nat /\ n.credit_update[a][vc] \in Nat
            /\ n.reverse_channels[a][vc] \in Nat
        BY <2>1 DEF Net
      <4> QED BY <2>4, <2>6, <2>7, <4>1, <4>2, <4>3, <4>4 DEF AtSender
    <3>2. CASE x # s
      <4>1. <<a, vc>> \notin fresh  BY <1>7, <2>1, <3>2
      <4>2. Update(a, vc) \in m.current <=> Update(a, vc) \in n.current
        BY <1>8, <4>1 DEF NewStamps
      <4> QED BY <2>4, <2>6, <2>7, <4>1, <4>2 DEF AtSender
    <3> QED BY <3>1, <3>2
  <2> QED BY <1>6, <1>8, <2>2, <2>3, <2>5 DEF Count, NewStamps, a, b
<1>13. Balanced(n, n.current, m, m.current)  BY <1>12 DEF Balanced
<1>14. Accounted(m, m.current)  BY <1>13, BalancedOK DEF CycleInv
<1>15. m.cycle # -1  BY <1>6 DEF CycleInv
<1> QED BY <1>15, <1>5, <1>9, <1>10, <1>11, <1>14 DEF CycleInv

-----------------------------------------------------------------------------
(***************************************************************************)
(* Links.                                                                  *)
(***************************************************************************)

(* One propagation of a pipeline of k stages: the stamps in and out tell   *)
(* whether the ends are of this cycle.                                     *)
Moves(k, st, out, cur) == out \notin cur /\ Len(st) >= k
Rest(k, st, out, cur) == IF Moves(k, st, out, cur) THEN Tail(st) ELSE st

PipelineIs(p, k, st, from, in, to, out, nothing, cur) ==
  /\ k = 0 => /\ p.to = IF in \in cur THEN from ELSE to
              /\ p.isSet <=> in \in cur
              /\ p.stages = st
  /\ k # 0 => /\ p.to = IF out \in cur THEN to
                         ELSE IF Moves(k, st, out, cur) THEN Head(st) ELSE nothing
              /\ p.isSet
              /\ p.stages = IF in \in cur THEN Append(Rest(k, st, out, cur), from)
                            ELSE Rest(k, st, out, cur)

\* This is what SimplePipelineImpl::TryPropagation does.
LEMMA PipelineUnfolds ==
  ASSUME NEW k, NEW st, NEW from, NEW in, NEW to, NEW out, NEW nothing, NEW cur
  PROVE  PipelineIs(Pipeline(k, st, from, in \in cur, to, out \in cur, nothing),
                    k, st, from, in, to, out, nothing, cur)
BY DEF Pipeline, PipelineIs, Rest, Moves

FlitsKept(p, st, from, in, to, out, cur, vc) ==
  /\ p.to \in FlitOrBubble /\ p.stages \in Seq(FlitOrBubble)
  /\ out \in cur => p.isSet
  /\ FlitsOn(p.stages, vc) + (IF p.isSet THEN FlitOf(p.to, vc) ELSE 0)
     = FlitsOn(st, vc) + (IF in \in cur THEN FlitOf(from, vc) ELSE 0)
       + (IF out \in cur THEN FlitOf(to, vc) ELSE 0)

\* A pipeline neither loses nor makes flits.
LEMMA PipelineFlits ==
  ASSUME NEW k \in Nat, NEW st \in Seq(FlitOrBubble), NEW from \in FlitOrBubble, NEW in,
         NEW to \in FlitOrBubble, NEW out, NEW cur, NEW p, NEW vc,
         PipelineIs(p, k, st, from, in, to, out, Bubble, cur),
         k = 0 => out \notin cur
  PROVE  FlitsKept(p, st, from, in, to, out, cur, vc)
<1> USE DEF FlitsKept
<1>1. Bubble \in FlitOrBubble /\ FlitOf(Bubble, vc) = 0  BY FlitsAreFlits DEF FlitOf
<1>2. FlitsOn(st, vc) \in Nat  BY <1>1, FlitsOnAppend
<1>3. \A x : FlitOf(x, vc) \in Nat  BY FlitOfType
<1>4. CASE k = 0
  BY <1>2, <1>3, <1>4 DEF PipelineIs
<1>5. CASE k # 0
  <2> DEFINE moves == Moves(k, st, out, cur)
             rest  == Rest(k, st, out, cur)
             gone  == IF moves THEN FlitOf(Head(st), vc) ELSE 0
  <2>1. moves => st # <<>> /\ out \notin cur  BY <1>5 DEF Moves
  <2>2. rest \in Seq(FlitOrBubble) /\ FlitsOn(st, vc) = gone + FlitsOn(rest, vc)
    <3>1. CASE moves
      <4>1. Tail(st) \in Seq(FlitOrBubble)  BY <2>1, <3>1
      <4>2. FlitsOn(st, vc) = FlitOf(Head(st), vc) + FlitsOn(Tail(st), vc)
        BY <2>1, <3>1, FlitsOnTail
      <4> QED BY <3>1, <4>1, <4>2 DEF Rest
    <3>2. CASE ~moves
      BY <1>2, <3>2 DEF Rest
    <3> QED BY <3>1, <3>2
  <2>3. moves => Head(st) \in FlitOrBubble  BY <2>1
  <2>4. p.to \in FlitOrBubble /\ p.isSet
        /\ FlitOf(p.to, vc) = gone + (IF out \in cur THEN FlitOf(to, vc) ELSE 0)
    <3> HIDE DEF moves
    <3> QED BY <1>1, <1>3, <1>5, <2>1, <2>3 DEF PipelineIs, moves
  <2> HIDE DEF rest
  <2>5. FlitsOn(rest, vc) \in Nat /\ Append(rest, from) \in Seq(FlitOrBubble)
        /\ FlitsOn(Append(rest, from), vc) = FlitsOn(rest, vc) + FlitOf(from, vc)
    BY <2>2, FlitsOnAppend
  <2>6. p.stages \in Seq(FlitOrBubble)
        /\ FlitsOn(p.stages, vc) = FlitsOn(rest, vc) + (IF in \in cur THEN FlitOf(from, vc) ELSE 0)
    <3>1. p.stages = IF in \in cur THEN Append(rest, from) ELSE rest
      BY <1>5 DEF PipelineIs, rest
    <3>2. CASE in \in cur  BY <2>5, <3>1, <3>2
    <3>3. CASE in \notin cur
      <4>1. p.stages = rest  BY <3>1, <3>3
      <4> QED BY <2>2, <2>5, <3>3, <4>1
    <3> QED BY <3>2, <3>3
  <2>7. gone \in Nat  BY <1>3
  <2> HIDE DEF gone
  <2> QED BY <1>3, <2>2, <2>4, <2>5, <2>6, <2>7
<1> QED BY <1>4, <1>5

\* The forward propagation of a link keeps the invariant.
LEMMA LinkForwardOK ==
  ASSUME NEW n \in Net, CycleInv(n), NEW l \in Link, ForwardDone(l) \notin n.current,
         NEW m, m = LinkForward(n, l)
  PROVE  m \in Net /\ CycleInv(m)
<1> DEFINE a == In[l][1]
           b == Out[l][1]
           new == IF Fwd(a) \in n.current THEN {l} ELSE {}
<1>1. PICK p : p = Pipeline(ForwardStages[l], n.forward_data_stages[l],
                            n.forward_channels[a], Fwd(a) \in n.current,
                            n.forward_channels[b], Fwd(b) \in n.current, Bubble)
  OBVIOUS
<1>2. m = [n EXCEPT !.forward_channels[b] = p.to,
                    !.forward_data_stages[l] = p.stages,
                    !.current = @ \cup DoneIf(p.isSet, Fwd(b))
                                  \cup DoneIf(Fwd(a) \in n.current, ForwardDone(l))]
  BY <1>1 DEF LinkForward
<1>3. PipelineIs(p, ForwardStages[l], n.forward_data_stages[l], n.forward_channels[a], Fwd(a),
                 n.forward_channels[b], Fwd(b), Bubble, n.current)
  BY <1>1, PipelineUnfolds
<1>4. a \in Connection /\ b \in Connection /\ l \in Component
      /\ a \in Range(In[l]) /\ b \in Range(Out[l])
  BY Ports, Kinds
<1> HIDE DEF a, b
<1>5. ForwardStages[l] \in Nat /\ n.forward_data_stages[l] \in Seq(FlitOrBubble)
      /\ n.forward_channels[a] \in FlitOrBubble /\ n.forward_channels[b] \in FlitOrBubble
      /\ (ForwardStages[l] = 0 => Fwd(b) \notin n.current)
  BY <1>4, NocAssumption DEF Net, CycleInv, LinkStamps, b
<1>6. p.to \in FlitOrBubble /\ p.stages \in Seq(FlitOrBubble)
      /\ (Fwd(b) \in n.current => p.isSet)
      /\ \A vc \in VC :
           FlitsOn(p.stages, vc) + (IF p.isSet THEN FlitOf(p.to, vc) ELSE 0)
           = FlitsOn(n.forward_data_stages[l], vc)
             + (IF Fwd(a) \in n.current THEN FlitOf(n.forward_channels[a], vc) ELSE 0)
             + (IF Fwd(b) \in n.current THEN FlitOf(n.forward_channels[b], vc) ELSE 0)
  <2>1. \A vc \in VC : FlitsKept(p, n.forward_data_stages[l], n.forward_channels[a], Fwd(a),
                                 n.forward_channels[b], Fwd(b), n.current, vc)
    BY <1>3, <1>5, PipelineFlits
  <2>2. 0 \in VC  BY NocAssumption DEF VC
  <2> QED BY <2>1, <2>2 DEF FlitsKept
<1>7. m \in Net
  <2>1. m = [f \in NetFields |-> m[f]]  BY <1>2, NetIsRecord
  <2>2. DoneIf(p.isSet, Fwd(b)) \subseteq Stamp
        /\ DoneIf(Fwd(a) \in n.current, ForwardDone(l)) \subseteq Stamp
    BY <1>4, StampTypes DEF DoneIf
  <2>3. FieldTypes(m)  BY <1>2, <1>4, <1>6, <2>2 DEF FieldTypes, Net
  <2> QED BY <2>1, <2>3, RecordIsNet
<1>8. /\ m.forward_channels = [n.forward_channels EXCEPT ![b] = p.to]
      /\ m.forward_data_stages = [n.forward_data_stages EXCEPT ![l] = p.stages]
      /\ m.credit = n.credit
      /\ m.reverse_channels = n.reverse_channels
      /\ m.reverse_credit_stages = n.reverse_credit_stages
      /\ m.data_to_send = n.data_to_send
      /\ m.credit_update = n.credit_update
      /\ m.input_buffers = n.input_buffers
      /\ m.input_credit_to_send = n.input_credit_to_send
      /\ m.cycle = n.cycle
      /\ m.current = n.current \cup DoneIf(p.isSet, Fwd(b))
                                \cup DoneIf(Fwd(a) \in n.current, ForwardDone(l))
  BY <1>2 DEF Net
<1>9. NewStamps(n, m, IF p.isSet THEN {b} ELSE {}, {}, {}, {}, {}, new, {})
  BY <1>8, StampFields DEF NewStamps, DoneIf
<1>10. SenderStamps(m.current)
  BY <1>4, <1>9, Ports, Ends, Kinds DEF SenderStamps, CycleInv, NewStamps
<1>11. LinkStamps(m.current)
  <2>1. ForwardStages[l] = 0 /\ p.isSet => Fwd(a) \in n.current  BY <1>3 DEF PipelineIs
  <2> QED BY <1>4, <1>9, <2>1, Ports, Ends, Kinds DEF LinkStamps, CycleInv, NewStamps, a, b
<1>12. ReceiverStamps(m.current)
  BY <1>9, Kinds DEF ReceiverStamps, CycleInv, NewStamps
<1>13. ReturnsKept(m, m.current) /\ QueuedByVC(m)
  BY <1>8, <1>9 DEF ReturnsKept, QueuedByVC, CycleInv, NewStamps
<1>14. ASSUME NEW x \in Source \cup Router, NEW k \in Link,
              NEW y \in Router \cup Sink, NEW vc \in VC, IsPath(x, k, y)
       PROVE  /\ Count(m, m.current, x, k, y, vc) = Count(n, n.current, x, k, y, vc)
              /\ m.cycle = n.cycle
              /\ Rev(Out[k][1], vc) \in m.current <=> Rev(Out[k][1], vc) \in n.current
  <2> DEFINE a2 == In[k][1]
             b2 == Out[k][1]
  <2>1. a2 \in Connection /\ b2 \in Connection /\ a2 # b
        /\ (k = l => a2 = a /\ b2 = b) /\ (k # l => b2 # b) /\ x # l /\ y # l
    BY <1>4, <1>14, Ports, Ends, Kinds DEF IsPath, a, b
  <2>2. m.cycle = n.cycle /\ (Rev(b2, vc) \in m.current <=> Rev(b2, vc) \in n.current)
    BY <1>8, <1>9 DEF NewStamps
  <2> HIDE DEF a2, b2
  <2>3. AtSender(m, m.current, x, a2, vc) = AtSender(n, n.current, x, a2, vc)
    BY <1>8, <1>9, <2>1 DEF AtSender, TakenUp, NewStamps
  <2>4. CASE k # l
    <3>1. AtReceiver(m, m.current, y, b2, vc) = AtReceiver(n, n.current, y, b2, vc)
      BY <1>8, <1>9, <2>1, <2>4 DEF AtReceiver, NewStamps, Net
    <3>2. OnLink(m, m.current, k, vc) = OnLink(n, n.current, k, vc)
      BY <1>8, <1>9, <2>1, <2>4 DEF OnLink, NewStamps, Net, a2, b2
    <3> QED BY <2>2, <2>3, <3>1, <3>2 DEF Count, a2, b2
  <2>5. CASE k = l
    <3> DEFINE in  == IF Fwd(a) \in n.current THEN FlitOf(n.forward_channels[a], vc) ELSE 0
               out == IF Fwd(b) \in n.current THEN FlitOf(n.forward_channels[b], vc) ELSE 0
               put == IF p.isSet THEN FlitOf(p.to, vc) ELSE 0
               sent == FlitsOn(n.forward_data_stages[l], vc)
               kept == FlitsOn(p.stages, vc)
    <3>1. kept + put = sent + in + out  BY <1>6
    <3>2. in \in Nat /\ out \in Nat /\ put \in Nat /\ sent \in Nat /\ kept \in Nat
      <4>1. in \in Nat /\ out \in Nat /\ put \in Nat  BY FlitOfType
      <4>2. sent \in Nat  BY CountTypes
      <4>3. m.forward_data_stages[l] = p.stages  BY <1>8 DEF Net
      <4>4. kept \in Nat  BY <1>7, <4>3, CountTypes
      <4> QED BY <4>1, <4>2, <4>4
    <3>3. OnLink(m, m.current, l, vc) + sent + in = OnLink(n, n.current, l, vc) + kept
      <4>1. m.forward_data_stages[l] = p.stages /\ m.reverse_credit_stages = n.reverse_credit_stages
            /\ m.reverse_channels = n.reverse_channels
        BY <1>8 DEF Net
      <4>2. ~(Fwd(a) \in m.current /\ ForwardDone(l) \notin m.current)
            /\ (Rev(b, vc) \in m.current <=> Rev(b, vc) \in n.current)
            /\ (Pushed(l, vc) \in m.current <=> Pushed(l, vc) \in n.current)
        BY <1>9, <2>1, <2>5 DEF NewStamps
      <4>3. SumOf(n.reverse_credit_stages[l][vc]) \in Nat /\ n.reverse_channels[b][vc] \in Nat
        BY <1>4, CountTypes DEF Net
      <4>4. OnLink(n, n.current, l, vc) =
              SumOf(n.reverse_credit_stages[l][vc])
              + (IF Rev(b, vc) \in n.current /\ Pushed(l, vc) \notin n.current
                   THEN n.reverse_channels[b][vc] ELSE 0)
              + sent + in
        BY DEF OnLink, a, b
      <4>5. OnLink(m, m.current, l, vc) =
              SumOf(n.reverse_credit_stages[l][vc])
              + (IF Rev(b, vc) \in n.current /\ Pushed(l, vc) \notin n.current
                   THEN n.reverse_channels[b][vc] ELSE 0)
              + kept + 0
        BY <4>1, <4>2 DEF OnLink, a, b
      <4> HIDE DEF sent, in, kept
      <4> QED BY <3>2, <4>3, <4>4, <4>5
    <3>4. AtReceiver(m, m.current, y, b, vc) + out = AtReceiver(n, n.current, y, b, vc) + put
      <4>1. m.forward_channels[b] = p.to /\ m.input_buffers = n.input_buffers
            /\ m.input_credit_to_send = n.input_credit_to_send
        BY <1>4, <1>8 DEF Net
      <4>2. (ForwardDone(y) \in m.current <=> ForwardDone(y) \in n.current)
            /\ (Fwd(b) \in m.current <=> p.isSet)
            /\ (Rev(b, vc) \in m.current <=> Rev(b, vc) \in n.current)
        BY <1>6, <1>9, <2>1 DEF NewStamps
      <4>3. ForwardDone(y) \in n.current => Fwd(b) \in n.current /\ p.to = n.forward_channels[b]
        <5>1. ForwardDone(y) \in n.current => Fwd(b) \in n.current
          BY <1>14, <2>1, <2>5 DEF CycleInv, ReceiverStamps, IsPath, b2
        <5> QED BY <1>3, <1>5, <5>1 DEF PipelineIs
      <4>4. n.input_credit_to_send[b][vc] \in Nat /\ Len(n.input_buffers[b][vc]) \in Nat
        <5>1. n.input_credit_to_send[b][vc] \in 0..1 /\ n.input_buffers[b][vc] \in Seq(Flit)
          BY <1>4 DEF Net
        <5> QED BY <5>1
      <4>5. CASE ForwardDone(y) \in n.current
        BY <1>6, <4>1, <4>2, <4>3, <4>4, <4>5, FlitOfType DEF AtReceiver
      <4>6. CASE ForwardDone(y) \notin n.current
        BY <4>1, <4>2, <4>4, <4>6, FlitOfType DEF AtReceiver
      <4> QED BY <4>5, <4>6
    <3>5. AtSender(n, n.current, x, a, vc) \in Nat
          /\ OnLink(n, n.current, l, vc) \in Nat /\ OnLink(m, m.current, l, vc) \in Nat
          /\ AtReceiver(n, n.current, y, b, vc) \in Nat /\ AtReceiver(m, m.current, y, b, vc) \in Nat
      BY <1>4, <1>7, CountTypes
    <3> HIDE DEF sent, in, kept, put, out
    <3>6. AtSender(m, m.current, x, a, vc) + OnLink(m, m.current, l, vc)
          + AtReceiver(m, m.current, y, b, vc)
          = AtSender(n, n.current, x, a, vc) + OnLink(n, n.current, l, vc)
            + AtReceiver(n, n.current, y, b, vc)
      BY <2>1, <2>3, <2>5, <3>1, <3>2, <3>3, <3>4, <3>5
    <3> QED BY <2>1, <2>2, <2>5, <3>6 DEF Count, a2, b2
  <2> QED BY <2>4, <2>5
<1>15. Balanced(n, n.current, m, m.current)  BY <1>14 DEF Balanced
<1>16. Accounted(m, m.current)  BY <1>15, BalancedOK DEF CycleInv
<1>17. m.cycle # -1  BY <1>8 DEF CycleInv
<1> QED BY <1>17, <1>7, <1>10, <1>11, <1>12, <1>13, <1>16 DEF CycleInv

CreditsKept(p, st, from, in, to, out, cur) ==
  /\ p.to \in Nat /\ p.stages \in Seq(Nat)
  /\ out \in cur => p.isSet /\ p.to = to
  /\ SumOf(p.stages) + (IF p.isSet THEN p.to ELSE 0)
     = SumOf(st) + (IF in \in cur THEN from ELSE 0) + (IF out \in cur THEN to ELSE 0)

\* A pipeline neither loses nor makes credits.
LEMMA PipelineCredits ==
  ASSUME NEW k \in Nat, NEW st \in Seq(Nat), NEW from \in Nat, NEW in,
         NEW to \in Nat, NEW out, NEW cur, NEW p,
         PipelineIs(p, k, st, from, in, to, out, 0, cur),
         k = 0 => out \notin cur
  PROVE  CreditsKept(p, st, from, in, to, out, cur)
<1> USE DEF CreditsKept
<1>1. SumOf(st) \in Nat  BY SumOfIs
<1>2. CASE k = 0
  BY <1>1, <1>2 DEF PipelineIs
<1>3. CASE k # 0
  <2> DEFINE moves == Moves(k, st, out, cur)
             rest  == Rest(k, st, out, cur)
             gone  == IF moves THEN Head(st) ELSE 0
  <2>1. moves => st # <<>> /\ out \notin cur  BY <1>3 DEF Moves
  <2>2. moves => Head(st) \in Nat  BY <2>1
  <2>3. rest \in Seq(Nat) /\ SumOf(st) = gone + SumOf(rest)
    <3>1. CASE moves
      <4>1. Tail(st) \in Seq(Nat)  BY <2>1, <3>1
      <4>2. SumOf(st) = Head(st) + SumOf(Tail(st))  BY <2>1, <3>1, SumOfTail
      <4> QED BY <3>1, <4>1, <4>2 DEF Rest
    <3>2. CASE ~moves
      BY <1>1, <3>2 DEF Rest
    <3> QED BY <3>1, <3>2
  <2>4. p.to \in Nat /\ p.isSet /\ p.to = gone + (IF out \in cur THEN to ELSE 0)
    <3> HIDE DEF moves
    <3> QED BY <1>3, <2>1, <2>2 DEF PipelineIs, moves
  <2> HIDE DEF rest
  <2>5. SumOf(rest) \in Nat /\ Append(rest, from) \in Seq(Nat)
        /\ SumOf(Append(rest, from)) = SumOf(rest) + from
    BY <2>3, SumOfIs, SumOfAppend
  <2>6. p.stages \in Seq(Nat)
        /\ SumOf(p.stages) = SumOf(rest) + (IF in \in cur THEN from ELSE 0)
    <3>1. p.stages = IF in \in cur THEN Append(rest, from) ELSE rest
      BY <1>3 DEF PipelineIs, rest
    <3>2. CASE in \in cur  BY <2>5, <3>1, <3>2
    <3>3. CASE in \notin cur
      <4>1. p.stages = rest  BY <3>1, <3>3
      <4> QED BY <2>3, <2>5, <3>3, <4>1
    <3> QED BY <3>2, <3>3
  <2>7. gone \in Nat /\ (out \in cur => gone = 0)  BY <2>1, <2>2
  <2> HIDE DEF gone
  <2> QED BY <2>3, <2>4, <2>5, <2>6, <2>7
<1> QED BY <1>2, <1>3

\* The reverse propagation of a link keeps the invariant.
LEMMA LinkReverseOK ==
  ASSUME NEW n \in Net, CycleInv(n), NEW l \in Link, NEW m, m = LinkReverse(n, l)
  PROVE  m \in Net /\ CycleInv(m)
<1> DEFINE a == In[l][1]
           b == Out[l][1]
           todo == {vc \in VC : Pushed(l, vc) \notin n.current}
           all == AllCreditsHere(n, {b})
<1>1. PICK p : p = [vc \in VC |->
         Pipeline(ReverseStages[l], n.reverse_credit_stages[l][vc],
                  n.reverse_channels[b][vc], Rev(b, vc) \in n.current,
                  n.reverse_channels[a][vc], Rev(a, vc) \in n.current, 0)]
  OBVIOUS
<1> DEFINE rc == [vc \in VC |-> IF vc \in todo THEN p[vc].to ELSE n.reverse_channels[a][vc]]
           st == [vc \in VC |-> IF vc \in todo THEN p[vc].stages
                                ELSE n.reverse_credit_stages[l][vc]]
           cur == n.current \cup {Rev(a, vc) : vc \in {v \in todo : p[v].isSet}}
                    \cup {Pushed(l, vc) : vc \in {v \in todo : Rev(b, v) \in n.current}}
                    \cup DoneIf(all, ReverseDone(l))
<1>2. m = [n EXCEPT !.reverse_channels[a] = rc, !.reverse_credit_stages[l] = st,
                    !.current = cur]
  BY <1>1 DEF LinkReverse
<1>3. \A vc \in VC :
        PipelineIs(p[vc], ReverseStages[l], n.reverse_credit_stages[l][vc],
                   n.reverse_channels[b][vc], Rev(b, vc),
                   n.reverse_channels[a][vc], Rev(a, vc), 0, n.current)
  BY <1>1, PipelineUnfolds
<1>4. a \in Connection /\ b \in Connection /\ l \in Component
      /\ a \in Range(In[l]) /\ b \in Range(Out[l])
  BY Ports, Kinds
<1>5. \A vc \in VC : vc \in todo /\ ReverseStages[l] = 0 => Rev(a, vc) \notin n.current
  BY DEF CycleInv, LinkStamps
<1>6. \A vc \in todo : CreditsKept(p[vc], n.reverse_credit_stages[l][vc],
                                  n.reverse_channels[b][vc], Rev(b, vc),
                                  n.reverse_channels[a][vc], Rev(a, vc), n.current)
  <2> SUFFICES ASSUME NEW vc \in todo
               PROVE  CreditsKept(p[vc], n.reverse_credit_stages[l][vc],
                                  n.reverse_channels[b][vc], Rev(b, vc),
                                  n.reverse_channels[a][vc], Rev(a, vc), n.current)
    OBVIOUS
  <2> HIDE DEF a, b
  <2>1. n.reverse_credit_stages[l][vc] \in Seq(Nat) /\ n.reverse_channels[b][vc] \in Nat
        /\ n.reverse_channels[a][vc] \in Nat /\ ReverseStages[l] \in Nat
    BY <1>4, NocAssumption DEF Net
  <2> QED BY <1>3, <1>5, <2>1, PipelineCredits
<1> HIDE DEF a, b, all
<1>7. rc \in [VC -> Nat] /\ st \in [VC -> Seq(Nat)]
  BY <1>4, <1>6 DEF CreditsKept, Net
<1>8. cur \subseteq Stamp
  BY <1>4, StampTypes DEF DoneIf, Net
<1>9. /\ \A vc \in VC : rc[vc] = IF vc \in todo THEN p[vc].to ELSE n.reverse_channels[a][vc]
      /\ \A vc \in VC : st[vc] = IF vc \in todo THEN p[vc].stages
                                ELSE n.reverse_credit_stages[l][vc]
  OBVIOUS
<1> HIDE DEF rc, st, cur
<1>10. m \in Net
  <2>1. m = [f \in NetFields |-> m[f]]  BY <1>2, NetIsRecord
  <2>2. FieldTypes(m)  BY <1>2, <1>4, <1>7, <1>8 DEF FieldTypes, Net
  <2> QED BY <2>1, <2>2, RecordIsNet
<1>11. /\ m.reverse_channels = [n.reverse_channels EXCEPT ![a] = rc]
       /\ m.reverse_credit_stages = [n.reverse_credit_stages EXCEPT ![l] = st]
       /\ m.forward_channels = n.forward_channels
       /\ m.forward_data_stages = n.forward_data_stages
       /\ m.credit = n.credit
       /\ m.data_to_send = n.data_to_send
       /\ m.credit_update = n.credit_update
       /\ m.input_buffers = n.input_buffers
       /\ m.input_credit_to_send = n.input_credit_to_send
       /\ m.cycle = n.cycle
       /\ m.current = cur
  BY <1>2 DEF Net
<1> DEFINE rev == {<<a, vc>> : vc \in {v \in todo : p[v].isSet}}
           pushed == {<<l, vc>> : vc \in {v \in todo : Rev(b, v) \in n.current}}
<1>12. NewStamps(n, m, {}, rev, pushed, {}, {}, {}, IF all THEN {l} ELSE {})
  BY <1>11, StampFields DEF NewStamps, DoneIf, cur
<1>13. /\ \A c, vc : <<c, vc>> \in rev <=> c = a /\ vc \in todo /\ p[vc].isSet
       /\ \A c, vc : <<c, vc>> \in pushed <=> c = l /\ vc \in todo /\ Rev(b, vc) \in n.current
  OBVIOUS
<1>14. \A vc : vc \in todo <=> vc \in VC /\ Pushed(l, vc) \notin n.current  OBVIOUS
<1> HIDE DEF rev, pushed, todo
<1>22. /\ \A c, vc : Rev(c, vc) \in m.current
                     <=> Rev(c, vc) \in n.current \/ (c = a /\ vc \in todo /\ p[vc].isSet)
       /\ \A k, vc : Pushed(k, vc) \in m.current
                     <=> \/ Pushed(k, vc) \in n.current
                         \/ k = l /\ vc \in todo /\ Rev(b, vc) \in n.current
       /\ \A x : ReverseDone(x) \in m.current <=> ReverseDone(x) \in n.current \/ (x = l /\ all)
       /\ \A x : ForwardDone(x) \in m.current <=> ForwardDone(x) \in n.current
       /\ \A c : Fwd(c) \in m.current <=> Fwd(c) \in n.current
  BY <1>12, <1>13 DEF NewStamps
<1>15. SenderStamps(m.current)
  BY <1>12, <1>13, Kinds DEF SenderStamps, CycleInv, NewStamps
<1>16. LinkStamps(m.current)
  <2>1. all => \A vc \in VC : Rev(b, vc) \in n.current  BY DEF all, AllCreditsHere
  <2>2. \A vc \in VC : ReverseStages[l] = 0 /\ p[vc].isSet => Rev(b, vc) \in n.current
    BY <1>3 DEF PipelineIs
  <2> SUFFICES ASSUME NEW k \in Link, NEW vc \in VC
               PROVE  /\ ForwardDone(k) \in m.current => Fwd(In[k][1]) \in m.current
                      /\ ForwardStages[k] = 0 /\ Fwd(Out[k][1]) \in m.current
                         => ForwardDone(k) \in m.current
                      /\ Pushed(k, vc) \in m.current => Rev(Out[k][1], vc) \in m.current
                      /\ ReverseStages[k] = 0 /\ Rev(In[k][1], vc) \in m.current
                         => Pushed(k, vc) \in m.current
                      /\ ReverseDone(k) \in m.current => Pushed(k, vc) \in m.current
    <3>1. 0 \in VC  BY NocAssumption DEF VC
    <3> QED BY <3>1, Zenon DEF LinkStamps
  <2>3. /\ ForwardDone(k) \in n.current => Fwd(In[k][1]) \in n.current
        /\ ForwardStages[k] = 0 /\ Fwd(Out[k][1]) \in n.current => ForwardDone(k) \in n.current
        /\ Pushed(k, vc) \in n.current => Rev(Out[k][1], vc) \in n.current
        /\ ReverseStages[k] = 0 /\ Rev(In[k][1], vc) \in n.current => Pushed(k, vc) \in n.current
        /\ ReverseDone(k) \in n.current => Pushed(k, vc) \in n.current
    BY DEF CycleInv, LinkStamps
  <2>4. In[k][1] = a => k = l  BY <1>4, Ports, Ends, Kinds
  <2>5. CASE k = l  BY <1>14, <1>22, <2>1, <2>2, <2>3, <2>5 DEF b
  <2>6. CASE k # l  BY <1>22, <2>3, <2>4, <2>6
  <2> QED BY <2>5, <2>6
<1>17. ReceiverStamps(m.current)
  <2>1. \A y \in Router \cup Sink : \A c \in Range(In[y]) : c # a
    BY <1>4, Ends, Kinds
  <2> QED BY <1>22, <2>1 DEF ReceiverStamps, CycleInv
<1>18. ReturnsKept(m, m.current) /\ QueuedByVC(m)
  <2>1. \A r \in Router : \A c \in Range(In[r]) : c # a /\ c \in Connection
    BY <1>4, Ends, Kinds, Ports
  <2>2. \A c \in Connection : c # a => m.reverse_channels[c] = n.reverse_channels[c]
    BY <1>11 DEF Net
  <2>3. QueuedByVC(m)  BY <1>11 DEF QueuedByVC, CycleInv
  <2> QED BY <1>11, <1>22, <2>1, <2>2, <2>3 DEF ReturnsKept, CycleInv
<1>19. ASSUME NEW x \in Source \cup Router, NEW k \in Link,
              NEW y \in Router \cup Sink, NEW vc \in VC, IsPath(x, k, y)
       PROVE  /\ Count(m, m.current, x, k, y, vc) = Count(n, n.current, x, k, y, vc)
              /\ m.cycle = n.cycle
              /\ Rev(Out[k][1], vc) \in m.current <=> Rev(Out[k][1], vc) \in n.current
  <2> DEFINE a2 == In[k][1]
             b2 == Out[k][1]
  <2>1. a2 \in Connection /\ b2 \in Connection /\ b2 # a
        /\ (k = l => a2 = a /\ b2 = b) /\ (k # l => a2 # a) /\ x # l /\ y # l
    BY <1>4, <1>19, Ports, Ends, Kinds DEF IsPath, a, b
  <2>2. m.cycle = n.cycle /\ (Rev(b2, vc) \in m.current <=> Rev(b2, vc) \in n.current)
    BY <1>11, <1>12, <1>13, <2>1 DEF NewStamps
  <2> HIDE DEF a2, b2
  <2>3. AtReceiver(m, m.current, y, b2, vc) = AtReceiver(n, n.current, y, b2, vc)
    BY <1>11, <1>12, <2>2 DEF AtReceiver, NewStamps
  <2>4. m.reverse_channels[b2] = n.reverse_channels[b2]  BY <1>11, <2>1 DEF Net
  <2>5. CASE k # l \/ vc \notin todo
    <3>1. m.reverse_channels[a2][vc] = n.reverse_channels[a2][vc]
          /\ m.reverse_credit_stages[k][vc] = n.reverse_credit_stages[k][vc]
      BY <1>9, <1>11, <2>1, <2>5 DEF Net
    <3>2. (Rev(a2, vc) \in m.current <=> Rev(a2, vc) \in n.current)
          /\ (Pushed(k, vc) \in m.current <=> Pushed(k, vc) \in n.current)
      BY <1>22, <2>1, <2>5
    <3>3. AtSender(m, m.current, x, a2, vc) = AtSender(n, n.current, x, a2, vc)
      BY <1>11, <1>12, <3>1, <3>2 DEF AtSender, TakenUp, NewStamps
    <3>4. OnLink(m, m.current, k, vc) = OnLink(n, n.current, k, vc)
      BY <1>11, <1>12, <2>2, <2>4, <3>1, <3>2 DEF OnLink, NewStamps, b2
    <3> QED BY <2>2, <2>3, <3>3, <3>4 DEF Count, a2, b2
  <2>6. CASE k = l /\ vc \in todo
    <3> DEFINE in   == IF Rev(b, vc) \in n.current THEN n.reverse_channels[b][vc] ELSE 0
               out  == IF Rev(a, vc) \in n.current THEN n.reverse_channels[a][vc] ELSE 0
               put  == IF p[vc].isSet THEN p[vc].to ELSE 0
               sent == SumOf(n.reverse_credit_stages[l][vc])
               kept == SumOf(p[vc].stages)
    <3>1. kept + put = sent + in + out  BY <1>6, <2>6 DEF CreditsKept
    <3>2. in \in Nat /\ out \in Nat /\ put \in Nat /\ sent \in Nat /\ kept \in Nat
      <4>1. in \in Nat /\ out \in Nat  BY <1>4 DEF Net
      <4>2. put \in Nat  BY <1>6, <2>6 DEF CreditsKept
      <4>3. sent \in Nat  BY CountTypes
      <4>4. p[vc].stages \in Seq(Nat)  BY <1>6, <2>6 DEF CreditsKept
      <4>5. kept \in Nat  BY <4>4, SumOfIs
      <4> QED BY <4>1, <4>2, <4>3, <4>5
    <3>3. OnLink(m, m.current, l, vc) + sent + in = OnLink(n, n.current, l, vc) + kept
      <4> DEFINE flits == FlitsOn(n.forward_data_stages[l], vc)
                 flit  == IF Fwd(a) \in n.current /\ ForwardDone(l) \notin n.current
                            THEN FlitOf(n.forward_channels[a], vc) ELSE 0
      <4>1. m.reverse_credit_stages[l][vc] = p[vc].stages
        BY <1>9, <1>11, <2>6 DEF Net
      <4>2. ~(Rev(b, vc) \in m.current /\ Pushed(l, vc) \notin m.current)
            /\ Pushed(l, vc) \notin n.current
            /\ (Fwd(a) \in m.current <=> Fwd(a) \in n.current)
            /\ (ForwardDone(l) \in m.current <=> ForwardDone(l) \in n.current)
        BY <1>12, <1>13, <1>14, <2>1, <2>2, <2>6 DEF NewStamps
      <4>3. flits \in Nat /\ flit \in Nat
        <5>1. flits \in Nat  BY CountTypes
        <5>2. flit \in Nat  BY FlitOfType
        <5> QED BY <5>1, <5>2
      <4>4. OnLink(n, n.current, l, vc) = sent + in + flits + flit
        BY <4>2 DEF OnLink, a, b
      <4>5. OnLink(m, m.current, l, vc) = kept + 0 + flits + flit
        BY <1>11, <4>1, <4>2 DEF OnLink, a, b
      <4> HIDE DEF sent, in, kept, flits, flit
      <4> QED BY <3>2, <4>3, <4>4, <4>5
    <3>4. AtSender(m, m.current, x, a, vc) + out = AtSender(n, n.current, x, a, vc) + put
      <4>1. m.reverse_channels[a][vc] = p[vc].to  BY <1>4, <1>9, <1>11, <2>6 DEF Net
      <4>2. (TakenUp(m.current, x) <=> TakenUp(n.current, x))
            /\ (Update(a, vc) \in m.current <=> Update(a, vc) \in n.current)
        BY <1>12 DEF NewStamps, TakenUp
      <4>3. (Rev(a, vc) \in m.current <=> p[vc].isSet)
            /\ (Rev(a, vc) \in n.current => p[vc].isSet /\ p[vc].to = n.reverse_channels[a][vc])
        BY <1>6, <1>12, <1>13, <2>6 DEF NewStamps, CreditsKept
      <4>4. Update(a, vc) \in n.current => Rev(a, vc) \in n.current
        BY <1>4 DEF CycleInv, SenderStamps
      <4>5. n.credit[a][vc] \in Nat /\ n.credit_update[a][vc] \in Nat
            /\ n.reverse_channels[a][vc] \in Nat /\ p[vc].to \in Nat
        BY <1>4, <1>6, <2>6 DEF Net, CreditsKept
      <4> QED BY <1>11, <4>1, <4>2, <4>3, <4>4, <4>5 DEF AtSender
    <3>5. AtSender(n, n.current, x, a, vc) \in Nat /\ AtSender(m, m.current, x, a, vc) \in Nat
          /\ OnLink(n, n.current, l, vc) \in Nat /\ OnLink(m, m.current, l, vc) \in Nat
          /\ AtReceiver(n, n.current, y, b, vc) \in Nat
      BY <1>4, <1>10, CountTypes
    <3> HIDE DEF sent, in, kept, put, out
    <3>6. AtSender(m, m.current, x, a, vc) + OnLink(m, m.current, l, vc)
          + AtReceiver(m, m.current, y, b, vc)
          = AtSender(n, n.current, x, a, vc) + OnLink(n, n.current, l, vc)
            + AtReceiver(n, n.current, y, b, vc)
      BY <2>1, <2>3, <2>6, <3>1, <3>2, <3>3, <3>4, <3>5
    <3> QED BY <2>1, <2>2, <2>6, <3>6 DEF Count, a2, b2
  <2> QED BY <2>5, <2>6
<1>20. Balanced(n, n.current, m, m.current)  BY <1>19 DEF Balanced
<1>21. Accounted(m, m.current)  BY <1>20, BalancedOK DEF CycleInv
<1>23. m.cycle # -1  BY <1>11 DEF CycleInv
<1> QED BY <1>23, <1>10, <1>15, <1>16, <1>17, <1>18, <1>21 DEF CycleInv

-----------------------------------------------------------------------------
(***************************************************************************)
(* Sinks.                                                                  *)
(***************************************************************************)

\* The forward propagation of a sink keeps the invariant.
LEMMA SinkForwardOK ==
  ASSUME NEW n \in Net, CycleInv(n), NEW k \in Sink, ForwardDone(k) \notin n.current,
         NEW m, m = SinkForward(n, k)
  PROVE  m \in Net /\ CycleInv(m)
<1> DEFINE c == In[k][1]
           flit == n.forward_channels[c]
           got == IF IsFlit(flit) THEN Append(n.received_traffic[k], flit)
                  ELSE n.received_traffic[k]
           rc == SinkCredit(n, c)
           cur == n.current \cup {Rev(c, vc) : vc \in VC} \cup {ForwardDone(k)}
<1>1. CASE Fwd(c) \notin n.current
  <2>1. m = n  BY <1>1 DEF SinkForward
  <2> QED BY <2>1
<1>2. CASE Fwd(c) \in n.current
  <2>1. m = [n EXCEPT !.received_traffic[k] = got, !.reverse_channels[c] = rc,
                      !.current = cur]
    BY <1>2 DEF SinkForward
  <2>a. c \in Connection /\ k \in Component /\ c \in Range(In[k]) /\ k \in Router \cup Sink
    BY Ports, Kinds
  <2>2. c \in Connection /\ k \in Component /\ c \in Range(In[k]) /\ k \in Router \cup Sink
        /\ \A vc \in VC : Depth[c][vc] \in Nat
    <3> HIDE DEF c
    <3> QED BY <2>a, NocAssumption
  <2> HIDE DEF c
  <2>3. \A vc \in VC : rc[vc] = IF n.cycle = 0 THEN Depth[c][vc] ELSE FlitOf(flit, vc)
    BY DEF SinkCredit, FlitOf
  <2>4. rc \in [VC -> Nat]
    <3>1. rc = [vc \in VC |-> rc[vc]]  BY DEF SinkCredit
    <3> HIDE DEF rc
    <3>2. \A vc \in VC : rc[vc] \in Nat  BY <2>2, <2>3, FlitOfType
    <3> QED BY <3>1, <3>2
  <2> HIDE DEF rc
  <2>5. got \in Seq(Flit)
    <3>1. flit \in FlitOrBubble /\ n.received_traffic[k] \in Seq(Flit)  BY <2>2 DEF Net
    <3> QED BY <3>1, FlitsAreFlits
  <2>6. cur \subseteq Stamp  BY <2>2, StampTypes DEF Net
  <2> HIDE DEF got
  <2>7. m \in Net
    <3> HIDE DEF cur
    <3>1. m = [f \in NetFields |-> m[f]]  BY <2>1, NetIsRecord
    <3>2. FieldTypes(m)  BY <2>1, <2>2, <2>4, <2>5, <2>6 DEF FieldTypes, Net
    <3> QED BY <3>1, <3>2, RecordIsNet
  <2>8. /\ m.reverse_channels = [n.reverse_channels EXCEPT ![c] = rc]
        /\ m.forward_channels = n.forward_channels
        /\ m.forward_data_stages = n.forward_data_stages
        /\ m.reverse_credit_stages = n.reverse_credit_stages
        /\ m.credit = n.credit
        /\ m.data_to_send = n.data_to_send
        /\ m.credit_update = n.credit_update
        /\ m.input_buffers = n.input_buffers
        /\ m.input_credit_to_send = n.input_credit_to_send
        /\ m.cycle = n.cycle
        /\ m.current = cur
    <3> HIDE DEF cur
    <3> QED BY <2>1 DEF Net
  <2>9. NewStamps(n, m, {}, {<<c, vc>> : vc \in VC}, {}, {}, {}, {k}, {})
    BY <2>8, StampFields DEF NewStamps
  <2> HIDE DEF cur
  <2>10. \A d, vc : Rev(d, vc) \in m.current <=> Rev(d, vc) \in n.current \/ (d = c /\ vc \in VC)
    BY <2>9 DEF NewStamps
  <2>11. SenderStamps(m.current)
    BY <2>9, <2>10, Kinds DEF SenderStamps, CycleInv, NewStamps
  <2>12. LinkStamps(m.current)
    <3>1. \A l \in Link : In[l][1] # c  BY <2>2, Ports, Ends, Kinds
    <3> QED BY <2>9, <2>10, <3>1, Kinds DEF LinkStamps, CycleInv, NewStamps
  <2>13. ReceiverStamps(m.current)
    <3>1. \A y \in Router \cup Sink : c \in Range(In[y]) => y = k  BY <2>2, Ends, Kinds
    <3>2. \A d \in Range(In[k]) : d = c  BY Ports DEF c
    <3> QED BY <1>2, <2>9, <2>10, <3>1, <3>2 DEF ReceiverStamps, CycleInv, NewStamps
  <2>14. ReturnsKept(m, m.current) /\ QueuedByVC(m)
    <3>1. \A r \in Router : \A d \in Range(In[r]) : d # c /\ d \in Connection
      BY <2>2, Ends, Kinds, Ports
    <3>2. \A d \in Connection : d # c => m.reverse_channels[d] = n.reverse_channels[d]
      BY <2>8 DEF Net
    <3>3. QueuedByVC(m)  BY <2>8 DEF QueuedByVC, CycleInv
    <3> QED BY <2>8, <2>10, <3>1, <3>2, <3>3 DEF ReturnsKept, CycleInv
  <2>15. ASSUME NEW x \in Source \cup Router, NEW l \in Link,
                NEW y \in Router \cup Sink, NEW vc \in VC, IsPath(x, l, y)
         PROVE  Count(m, m.current, x, l, y, vc)
                = IF m.cycle = 0 /\ Rev(Out[l][1], vc) \notin m.current THEN 0
                  ELSE Depth[Out[l][1]][vc]
    <3> DEFINE a == In[l][1]
               b == Out[l][1]
    <3>1. a \in Connection /\ b \in Connection /\ a # c /\ (y = k => b = c) /\ (y # k => b # c)
          /\ x # k /\ l # k
      BY <2>2, <2>15, Ports, Ends, Kinds DEF IsPath, c
    <3>2. Count(n, n.current, x, l, y, vc)
          = IF n.cycle = 0 /\ Rev(b, vc) \notin n.current THEN 0 ELSE Depth[b][vc]
      BY <2>15 DEF CycleInv, Accounted
    <3> HIDE DEF a, b
    <3>3. AtSender(m, m.current, x, a, vc) = AtSender(n, n.current, x, a, vc)
      <4>1. m.reverse_channels[a] = n.reverse_channels[a]  BY <2>8, <3>1 DEF Net
      <4>2. Rev(a, vc) \in m.current <=> Rev(a, vc) \in n.current  BY <2>10, <3>1
      <4> QED BY <2>8, <2>9, <3>1, <4>1, <4>2 DEF AtSender, TakenUp, NewStamps
    <3>4. CASE y # k
      <4>1. m.reverse_channels[b] = n.reverse_channels[b]  BY <2>8, <3>1, <3>4 DEF Net
      <4>2. Rev(b, vc) \in m.current <=> Rev(b, vc) \in n.current  BY <2>10, <3>1, <3>4
      <4>3. OnLink(m, m.current, l, vc) = OnLink(n, n.current, l, vc)
        BY <2>8, <2>9, <3>1, <4>1, <4>2 DEF OnLink, NewStamps, a, b
      <4>4. AtReceiver(m, m.current, y, b, vc) = AtReceiver(n, n.current, y, b, vc)
        BY <2>8, <2>9, <3>4, <4>2 DEF AtReceiver, NewStamps
      <4>5. Count(m, m.current, x, l, y, vc) = Count(n, n.current, x, l, y, vc)
        BY <3>3, <4>3, <4>4 DEF Count, a, b
      <4> QED BY <2>8, <3>2, <4>2, <4>5 DEF b
    <3>5. CASE y = k
      <4> DEFINE f == FlitOf(flit, vc)
                 returned == IF n.cycle = 0 THEN Depth[c][vc] ELSE f
      <4>1. b = c  BY <3>1, <3>5
      <4>2. Rev(b, vc) \in m.current /\ Rev(b, vc) \notin n.current
            /\ Pushed(l, vc) \notin n.current /\ Pushed(l, vc) \notin m.current
        <5>1. Rev(b, vc) \notin n.current  BY <2>2, <4>1 DEF CycleInv, ReceiverStamps
        <5> QED BY <2>9, <2>10, <4>1, <5>1 DEF CycleInv, LinkStamps, NewStamps, b
      <4>3. f \in Nat /\ returned \in Nat  BY <2>2, FlitOfType
      <4>4. OnLink(m, m.current, l, vc) = OnLink(n, n.current, l, vc) + returned
        <5> DEFINE flits == FlitsOn(n.forward_data_stages[l], vc)
                   sum   == SumOf(n.reverse_credit_stages[l][vc])
                   here  == IF Fwd(a) \in n.current /\ ForwardDone(l) \notin n.current
                            THEN FlitOf(n.forward_channels[a], vc) ELSE 0
        <5>1. flits \in Nat /\ sum \in Nat  BY CountTypes
        <5>2. here \in Nat  BY FlitOfType
        <5>3. m.reverse_channels[b][vc] = returned  BY <2>3, <2>8, <3>1, <4>1 DEF Net
        <5>4. OnLink(n, n.current, l, vc) = sum + 0 + flits + here
          BY <4>2 DEF OnLink, a, b
        <5>5. (Fwd(a) \in m.current <=> Fwd(a) \in n.current)
              /\ (ForwardDone(l) \in m.current <=> ForwardDone(l) \in n.current)
          BY <2>9, <3>1 DEF NewStamps
        <5>6. OnLink(m, m.current, l, vc) = sum + returned + flits + here
          BY <2>8, <4>2, <5>3, <5>5 DEF OnLink, a, b
        <5> HIDE DEF flits, sum, here, returned
        <5> QED BY <4>3, <5>1, <5>2, <5>4, <5>6
      <4>5. AtReceiver(m, m.current, y, b, vc) + f = AtReceiver(n, n.current, y, b, vc)
        <5>1. Len(n.input_buffers[b][vc]) \in Nat
          <6>1. n.input_buffers[b][vc] \in Seq(Flit)  BY <3>1 DEF Net
          <6> QED BY <6>1
        <5>2. ForwardDone(y) \in m.current /\ ForwardDone(y) \notin n.current /\ Fwd(b) \in n.current
          BY <1>2, <2>9, <3>5, <4>1 DEF NewStamps
        <5>3. AtReceiver(n, n.current, y, b, vc) = Len(n.input_buffers[b][vc]) + f + 0
          BY <4>1, <5>2 DEF AtReceiver
        <5>4. AtReceiver(m, m.current, y, b, vc) = Len(n.input_buffers[b][vc]) + 0 + 0
          BY <2>8, <4>2, <5>2 DEF AtReceiver
        <5> HIDE DEF f
        <5> QED BY <4>3, <5>1, <5>3, <5>4
      <4>6. AtSender(n, n.current, x, a, vc) \in Nat
            /\ OnLink(n, n.current, l, vc) \in Nat
            /\ AtReceiver(n, n.current, y, b, vc) \in Nat /\ AtReceiver(m, m.current, y, b, vc) \in Nat
        BY <2>7, <3>1, CountTypes
      <4>7. Count(m, m.current, x, l, y, vc)
            = AtSender(n, n.current, x, a, vc) + (OnLink(n, n.current, l, vc) + returned)
              + AtReceiver(m, m.current, y, b, vc)
        BY <3>3, <4>4 DEF Count, a, b
      <4>8. Count(n, n.current, x, l, y, vc)
            = AtSender(n, n.current, x, a, vc) + OnLink(n, n.current, l, vc)
              + AtReceiver(n, n.current, y, b, vc)
        BY DEF Count, a, b
      <4>9. n.cycle = 0 => returned = Depth[b][vc]  BY <4>1
      <4>10. n.cycle # 0 => returned = f  OBVIOUS
      <4> HIDE DEF returned, f
      <4>11. Depth[b][vc] \in Nat  BY <2>2, <4>1
      <4>12. Count(m, m.current, x, l, y, vc) = Depth[b][vc]
        <5>1. CASE n.cycle = 0
          <6>1. /\ AtSender(n, n.current, x, a, vc) = 0 /\ OnLink(n, n.current, l, vc) = 0
                /\ AtReceiver(n, n.current, y, b, vc) = 0
            BY <3>2, <4>2, <4>6, <4>8, <5>1
          <6>2. AtReceiver(m, m.current, y, b, vc) = 0  BY <4>3, <4>5, <4>6, <6>1
          <6> QED BY <4>7, <4>9, <4>11, <5>1, <6>1, <6>2
        <5>2. CASE n.cycle # 0
          BY <3>2, <4>2, <4>3, <4>5, <4>6, <4>7, <4>8, <4>10, <4>11, <5>2
        <5> QED BY <5>1, <5>2
      <4> QED BY <4>2, <4>12 DEF b
    <3> QED BY <3>4, <3>5
  <2>16. Accounted(m, m.current)  BY <2>15 DEF Accounted
  <2>17. m.cycle # -1  BY <2>8 DEF CycleInv
  <2> QED BY <2>17, <2>7, <2>11, <2>12, <2>13, <2>14, <2>16 DEF CycleInv
<1> QED BY <1>1, <1>2

\* The reverse propagation of a sink keeps the invariant.
LEMMA SinkReverseOK ==
  ASSUME NEW n \in Net, CycleInv(n), NEW k \in Sink, NEW m, m = SinkReverse(n, k)
  PROVE  m \in Net /\ CycleInv(m)
<1> DEFINE cur == n.current \cup {ReverseDone(k)}
<1>1. m = [n EXCEPT !.current = cur]  BY DEF SinkReverse
<1>2. cur \subseteq Stamp
  <2>1. k \in Component  BY Kinds
  <2> QED BY <2>1, StampTypes DEF Net
<1>3. m \in Net
  <2> HIDE DEF cur
  <2>1. m = [f \in NetFields |-> m[f]]  BY <1>1, NetIsRecord
  <2>2. FieldTypes(m)  BY <1>1, <1>2 DEF FieldTypes, Net
  <2> QED BY <2>1, <2>2, RecordIsNet
<1>4. /\ m.reverse_channels = n.reverse_channels
      /\ m.forward_channels = n.forward_channels
      /\ m.forward_data_stages = n.forward_data_stages
      /\ m.reverse_credit_stages = n.reverse_credit_stages
      /\ m.credit = n.credit
      /\ m.data_to_send = n.data_to_send
      /\ m.credit_update = n.credit_update
      /\ m.input_buffers = n.input_buffers
      /\ m.input_credit_to_send = n.input_credit_to_send
      /\ m.cycle = n.cycle
      /\ m.current = cur
  <2> HIDE DEF cur
  <2> QED BY <1>1 DEF Net
<1>5. NewStamps(n, m, {}, {}, {}, {}, {}, {}, {k})
  BY <1>4, StampFields DEF NewStamps
<1>6. SenderStamps(m.current)  BY <1>5, Kinds DEF SenderStamps, CycleInv, NewStamps
<1>7. LinkStamps(m.current)  BY <1>5, Kinds DEF LinkStamps, CycleInv, NewStamps
<1>8. ReceiverStamps(m.current)  BY <1>5 DEF ReceiverStamps, CycleInv, NewStamps
<1>9. ReturnsKept(m, m.current) /\ QueuedByVC(m)
  BY <1>4, <1>5 DEF ReturnsKept, QueuedByVC, CycleInv, NewStamps
<1>10. Balanced(n, n.current, m, m.current)
  <2> SUFFICES ASSUME NEW x \in Source \cup Router, NEW l \in Link,
                      NEW y \in Router \cup Sink, NEW vc \in VC, IsPath(x, l, y)
               PROVE  /\ Count(m, m.current, x, l, y, vc) = Count(n, n.current, x, l, y, vc)
                      /\ m.cycle = n.cycle
                      /\ Rev(Out[l][1], vc) \in m.current <=> Rev(Out[l][1], vc) \in n.current
    BY DEF Balanced
  <2>1. AtSender(m, m.current, x, In[l][1], vc) = AtSender(n, n.current, x, In[l][1], vc)
    BY <1>4, <1>5 DEF AtSender, TakenUp, NewStamps
  <2>2. OnLink(m, m.current, l, vc) = OnLink(n, n.current, l, vc)
    BY <1>4, <1>5 DEF OnLink, NewStamps
  <2>3. AtReceiver(m, m.current, y, Out[l][1], vc) = AtReceiver(n, n.current, y, Out[l][1], vc)
    BY <1>4, <1>5 DEF AtReceiver, NewStamps
  <2> QED BY <1>4, <1>5, <2>1, <2>2, <2>3 DEF Count, NewStamps
<1>11. Accounted(m, m.current)  BY <1>10, BalancedOK DEF CycleInv
<1>12. m.cycle # -1  BY <1>4 DEF CycleInv
<1> QED BY <1>12, <1>3, <1>6, <1>7, <1>8, <1>9, <1>11 DEF CycleInv
=============================================================================
