------------------------ MODULE NocSimulator_proofs ------------------------
(***************************************************************************)
(* Proofs about the simulator of networks on chip, for every network, any  *)
(* number of virtual channels and pipeline stages and every order of the   *)
(* components: types are kept, and between cycles the credits of every     *)
(* link and virtual channel are all accounted for.  The propagations of    *)
(* routers come first, then the ticks of a cycle, then the specification.  *)
(***************************************************************************)
EXTENDS NocCredits_proofs

(***************************************************************************)
(* Routers.                                                                *)
(***************************************************************************)

\* Taking up the updates keeps the invariant.
LEMMA ReplenishOK ==
  ASSUME NEW n \in Net, CycleInv(n), NEW r \in Router, NEW m, m = Replenish(n, r)
  PROVE  /\ m \in Net /\ CycleInv(m) /\ Credited(r) \in m.current
         /\ \A c : Fwd(c) \in m.current <=> Fwd(c) \in n.current
         /\ \A x : ForwardDone(x) \in m.current <=> ForwardDone(x) \in n.current
<1> DEFINE outs == Range(Out[r])
           credit == [c \in Connection |-> [vc \in VC |->
                        n.credit[c][vc] + IF c \in outs THEN n.credit_update[c][vc] ELSE 0]]
           cur == n.current \cup {Credited(r)}
<1>1. CASE Credited(r) \in n.current
  <2>1. m = n  BY <1>1 DEF Replenish
  <2> QED BY <1>1, <2>1
<1>2. CASE Credited(r) \notin n.current
  <2>1. m = [n EXCEPT !.credit = credit, !.current = cur]  BY <1>2 DEF Replenish
  <2>2. credit \in [Connection -> [VC -> Nat]]
    <3> SUFFICES ASSUME NEW c \in Connection, NEW vc \in VC
                 PROVE  n.credit[c][vc] + (IF c \in outs THEN n.credit_update[c][vc] ELSE 0) \in Nat
      OBVIOUS
    <3>1. n.credit[c][vc] \in Nat /\ n.credit_update[c][vc] \in Nat  BY DEF Net
    <3> QED BY <3>1
  <2>3. cur \subseteq Stamp  BY StampTypes DEF Net
  <2>4. \A c \in Connection, vc \in VC :
          credit[c][vc] = n.credit[c][vc] + IF c \in outs THEN n.credit_update[c][vc] ELSE 0
    OBVIOUS
  <2> HIDE DEF credit, outs
  <2>5. m \in Net
    <3> HIDE DEF cur
    <3>1. m = [f \in NetFields |-> m[f]]  BY <2>1, NetIsRecord
    <3>2. FieldTypes(m)  BY <2>1, <2>2, <2>3 DEF FieldTypes, Net
    <3> QED BY <3>1, <3>2, RecordIsNet
  <2>6. /\ m.reverse_channels = n.reverse_channels
        /\ m.forward_channels = n.forward_channels
        /\ m.forward_data_stages = n.forward_data_stages
        /\ m.reverse_credit_stages = n.reverse_credit_stages
        /\ m.credit = credit
        /\ m.data_to_send = n.data_to_send
        /\ m.credit_update = n.credit_update
        /\ m.input_buffers = n.input_buffers
        /\ m.input_credit_to_send = n.input_credit_to_send
        /\ m.cycle = n.cycle
        /\ m.current = cur
    <3> HIDE DEF cur
    <3> QED BY <2>1 DEF Net
  <2>7. NewStamps(n, m, {}, {}, {}, {}, {r}, {}, {})
    BY <2>6, StampFields DEF NewStamps
  <2>8. SenderStamps(m.current)  BY <2>7 DEF SenderStamps, CycleInv, NewStamps
  <2>9. LinkStamps(m.current)  BY <2>7 DEF LinkStamps, CycleInv, NewStamps
  <2>10. ReceiverStamps(m.current)  BY <2>7 DEF ReceiverStamps, CycleInv, NewStamps
  <2>11. ReturnsKept(m, m.current) /\ QueuedByVC(m)
    BY <2>6, <2>7 DEF ReturnsKept, QueuedByVC, CycleInv, NewStamps
  <2>12. Balanced(n, n.current, m, m.current)
    <3> SUFFICES ASSUME NEW x \in Source \cup Router, NEW l \in Link,
                        NEW y \in Router \cup Sink, NEW vc \in VC, IsPath(x, l, y)
                 PROVE  /\ Count(m, m.current, x, l, y, vc) = Count(n, n.current, x, l, y, vc)
                        /\ m.cycle = n.cycle
                        /\ Rev(Out[l][1], vc) \in m.current <=> Rev(Out[l][1], vc) \in n.current
      BY DEF Balanced
    <3> DEFINE a == In[l][1]
    <3>1. a \in Connection /\ (x = r <=> a \in outs)
      BY Ports, Ends, Kinds DEF IsPath, outs
    <3> HIDE DEF a
    <3>2. OnLink(m, m.current, l, vc) = OnLink(n, n.current, l, vc)
      BY <2>6, <2>7 DEF OnLink, NewStamps
    <3>3. AtReceiver(m, m.current, y, Out[l][1], vc) = AtReceiver(n, n.current, y, Out[l][1], vc)
      BY <2>6, <2>7 DEF AtReceiver, NewStamps
    <3>4. AtSender(m, m.current, x, a, vc) = AtSender(n, n.current, x, a, vc)
      <4>1. n.credit[a][vc] \in Nat /\ n.credit_update[a][vc] \in Nat
            /\ n.reverse_channels[a][vc] \in Nat
        BY <3>1 DEF Net
      <4>2. (Update(a, vc) \in m.current <=> Update(a, vc) \in n.current)
            /\ (Rev(a, vc) \in m.current <=> Rev(a, vc) \in n.current)
        BY <2>7 DEF NewStamps
      <4>3. CASE x = r
        <5>1. Update(a, vc) \notin n.current
          BY <1>2, <3>1, <4>3 DEF CycleInv, SenderStamps, outs
        <5>2. TakenUp(m.current, x) /\ ~TakenUp(n.current, x)
          BY <1>2, <2>7, <4>3, Kinds DEF TakenUp, NewStamps
        <5>3. m.credit[a][vc] = n.credit[a][vc] + n.credit_update[a][vc]
          BY <2>4, <2>6, <3>1, <4>3
        <5> QED BY <2>6, <4>1, <4>2, <5>1, <5>2, <5>3 DEF AtSender
      <4>4. CASE x # r
        <5>1. TakenUp(m.current, x) <=> TakenUp(n.current, x)
          BY <2>7, <4>4 DEF TakenUp, NewStamps
        <5>2. m.credit[a][vc] = n.credit[a][vc]  BY <2>4, <2>6, <3>1, <4>1, <4>4
        <5> QED BY <2>6, <4>2, <5>1, <5>2 DEF AtSender
      <4> QED BY <4>3, <4>4
    <3> QED BY <2>6, <2>7, <3>2, <3>3, <3>4 DEF Count, NewStamps, a
  <2>13. Accounted(m, m.current)  BY <2>12, BalancedOK DEF CycleInv
  <2>15. m.cycle # -1  BY <2>6 DEF CycleInv
  <2>14. CycleInv(m)  BY <2>15, <2>8, <2>9, <2>10, <2>11, <2>13 DEF CycleInv
  <2> QED BY <2>5, <2>7, <2>14 DEF NewStamps
<1> QED BY <1>1, <1>2

(* While router r moves flits: it has what has arrived in its buffers, and *)
(* counts as done.                                                         *)
Routing(cur, r) == cur \cup {ForwardDone(r)}

MidInv(n, r) ==
  /\ n.cycle # -1
  /\ SenderStamps(n.current) /\ LinkStamps(n.current) /\ ReceiverStamps(n.current)
  /\ ReturnsKept(n, n.current)
  /\ QueuedByVC(n)
  /\ Credited(r) \in n.current /\ ForwardDone(r) \notin n.current
  /\ \A c \in Range(In[r]) : Fwd(c) \in n.current
  /\ Accounted(n, Routing(n.current, r))

\* The stamp of the router is the only one added.
LEMMA RoutingStamps ==
  ASSUME NEW cur, NEW r
  PROVE  /\ \A c : Fwd(c) \in Routing(cur, r) <=> Fwd(c) \in cur
         /\ \A c, vc : /\ Rev(c, vc) \in Routing(cur, r) <=> Rev(c, vc) \in cur
                       /\ Update(c, vc) \in Routing(cur, r) <=> Update(c, vc) \in cur
         /\ \A l, vc : Pushed(l, vc) \in Routing(cur, r) <=> Pushed(l, vc) \in cur
         /\ \A x : Credited(x) \in Routing(cur, r) <=> Credited(x) \in cur
         /\ \A x : ForwardDone(x) \in Routing(cur, r) <=> ForwardDone(x) \in cur \/ x = r
BY StampFields DEF Routing

\* What has arrived goes to the buffers.
LEMMA AcceptOK ==
  ASSUME NEW n \in Net, CycleInv(n), NEW r \in Router, Credited(r) \in n.current,
         ForwardDone(r) \notin n.current, \A c \in Range(In[r]) : Fwd(c) \in n.current,
         NEW m, m = Accept(n, r)
  PROVE  /\ m \in Net /\ MidInv(m, r)
         /\ \A c \in Range(In[r]), vc \in VC : m.input_credit_to_send[c][vc] = 0
<1> DEFINE ins == Range(In[r])
           Arrives(c, vc) == /\ c \in ins
                             /\ IsFlit(n.forward_channels[c]) /\ n.forward_channels[c].vc = vc
           ib == [c \in Connection |-> [vc \in VC |->
                    IF Arrives(c, vc) THEN Append(n.input_buffers[c][vc], n.forward_channels[c])
                    ELSE n.input_buffers[c][vc]]]
           ics == [c \in Connection |-> [vc \in VC |->
                     IF c \in ins THEN 0 ELSE n.input_credit_to_send[c][vc]]]
<1>1. m = [n EXCEPT !.input_buffers = ib, !.input_credit_to_send = ics]  BY DEF Accept
<1>2. ib \in [Connection -> [VC -> Seq(Flit)]]
  <2> SUFFICES ASSUME NEW c \in Connection, NEW vc \in VC
               PROVE  (IF Arrives(c, vc) THEN Append(n.input_buffers[c][vc], n.forward_channels[c])
                       ELSE n.input_buffers[c][vc]) \in Seq(Flit)
    OBVIOUS
  <2>1. n.input_buffers[c][vc] \in Seq(Flit) /\ n.forward_channels[c] \in FlitOrBubble
    BY DEF Net
  <2> QED BY <2>1, FlitsAreFlits
<1>3. ics \in [Connection -> [VC -> 0..1]]
  <2> SUFFICES ASSUME NEW c \in Connection, NEW vc \in VC
               PROVE  (IF c \in ins THEN 0 ELSE n.input_credit_to_send[c][vc]) \in 0..1
    OBVIOUS
  <2>1. n.input_credit_to_send[c][vc] \in 0..1  BY DEF Net
  <2> QED BY <2>1
<1>4. \A c \in Connection, vc \in VC :
        ics[c][vc] = IF c \in ins THEN 0 ELSE n.input_credit_to_send[c][vc]
  OBVIOUS
<1>5. \A c \in Connection, vc \in VC :
        c \in ins => Len(ib[c][vc]) = Len(n.input_buffers[c][vc]) + FlitOf(n.forward_channels[c], vc)
  <2> SUFFICES ASSUME NEW c \in Connection, NEW vc \in VC, c \in ins
               PROVE  Len(ib[c][vc])
                      = Len(n.input_buffers[c][vc]) + FlitOf(n.forward_channels[c], vc)
    OBVIOUS
  <2>1. n.input_buffers[c][vc] \in Seq(Flit) /\ n.forward_channels[c] \in FlitOrBubble
    BY DEF Net
  <2>2. Len(n.input_buffers[c][vc]) \in Nat  BY <2>1
  <2>3. CASE Arrives(c, vc)
    <3>1. ib[c][vc] = Append(n.input_buffers[c][vc], n.forward_channels[c])  BY <2>3
    <3>2. FlitOf(n.forward_channels[c], vc) = 1  BY <2>3 DEF FlitOf
    <3>3. n.forward_channels[c] \in Flit  BY <2>1, <2>3, FlitsAreFlits
    <3> HIDE DEF ib
    <3>4. Len(Append(n.input_buffers[c][vc], n.forward_channels[c]))
          = Len(n.input_buffers[c][vc]) + 1
      BY <2>1, <3>3
    <3> QED BY <3>1, <3>2, <3>4
  <2>4. CASE ~Arrives(c, vc)
    <3>1. ib[c][vc] = n.input_buffers[c][vc]  BY <2>4
    <3>2. FlitOf(n.forward_channels[c], vc) = 0  BY <2>4 DEF FlitOf
    <3> HIDE DEF ib
    <3> QED BY <2>2, <3>1, <3>2
  <2> QED BY <2>3, <2>4
<1>6. \A c \in Connection, vc \in VC : c \notin ins => ib[c][vc] = n.input_buffers[c][vc]
  OBVIOUS
<1> HIDE DEF ib, ics
<1>7. m \in Net
  <2>1. m = [f \in NetFields |-> m[f]]  BY <1>1, NetIsRecord
  <2>2. FieldTypes(m)  BY <1>1, <1>2, <1>3 DEF FieldTypes, Net
  <2> QED BY <2>1, <2>2, RecordIsNet
<1>8. /\ m.reverse_channels = n.reverse_channels
      /\ m.forward_channels = n.forward_channels
      /\ m.forward_data_stages = n.forward_data_stages
      /\ m.reverse_credit_stages = n.reverse_credit_stages
      /\ m.credit = n.credit
      /\ m.data_to_send = n.data_to_send
      /\ m.credit_update = n.credit_update
      /\ m.input_buffers = ib
      /\ m.input_credit_to_send = ics
      /\ m.cycle = n.cycle
      /\ m.current = n.current
  BY <1>1 DEF Net
<1>9. ins \subseteq Connection /\ r \in Component  BY Ports, Kinds
<1>10. \A c \in ins, vc \in VC : Rev(c, vc) \notin n.current
  BY DEF CycleInv, ReceiverStamps
<1>11. ReturnsKept(m, m.current)
  <2> SUFFICES ASSUME NEW q \in Router, NEW c \in Range(In[q]), NEW vc \in VC,
                      Rev(c, vc) \in n.current
               PROVE  n.reverse_channels[c][vc] = IF n.cycle = 0 THEN Depth[c][vc] ELSE ics[c][vc]
    BY <1>8 DEF ReturnsKept
  <2>1. c \notin ins /\ c \in Connection  BY <1>10, Ports, Kinds
  <2> QED BY <1>4, <2>1 DEF CycleInv, ReturnsKept
<1>12. QueuedByVC(m)  BY <1>8 DEF QueuedByVC, CycleInv
<1> DEFINE cm == Routing(n.current, r)
<1>13. Balanced(n, n.current, m, cm)
  <2> SUFFICES ASSUME NEW x \in Source \cup Router, NEW l \in Link,
                      NEW y \in Router \cup Sink, NEW vc \in VC, IsPath(x, l, y)
               PROVE  /\ Count(m, cm, x, l, y, vc) = Count(n, n.current, x, l, y, vc)
                      /\ m.cycle = n.cycle
                      /\ Rev(Out[l][1], vc) \in cm <=> Rev(Out[l][1], vc) \in n.current
    BY DEF Balanced
  <2> DEFINE a == In[l][1]
             b == Out[l][1]
  <2>1. b \in Connection /\ (y = r <=> b \in ins) /\ l # r /\ (x \in Source => x # r)
    BY <1>9, Ports, Ends, Kinds DEF IsPath
  <2> HIDE DEF a, b, ins
  <2>2. AtSender(m, cm, x, a, vc) = AtSender(n, n.current, x, a, vc)
    BY <1>8, <2>1, RoutingStamps DEF AtSender, TakenUp
  <2>3. OnLink(m, cm, l, vc) = OnLink(n, n.current, l, vc)
    BY <1>8, <2>1, RoutingStamps DEF OnLink
  <2>4. Rev(b, vc) \in cm <=> Rev(b, vc) \in n.current  BY RoutingStamps
  <2>5. AtReceiver(m, cm, y, b, vc) = AtReceiver(n, n.current, y, b, vc)
    <3>1. CASE y = r
      <4>1. ForwardDone(y) \in cm /\ ForwardDone(y) \notin n.current /\ Fwd(b) \in n.current
            /\ Rev(b, vc) \notin n.current
        BY <1>10, <2>1, <3>1, RoutingStamps DEF ins
      <4>2. m.input_credit_to_send[b][vc] = 0
            /\ Len(m.input_buffers[b][vc])
               = Len(n.input_buffers[b][vc]) + FlitOf(n.forward_channels[b], vc)
        BY <1>4, <1>5, <1>8, <2>1, <3>1
      <4>3. n.input_buffers[b][vc] \in Seq(Flit)  BY <2>1 DEF Net
      <4>4. Len(n.input_buffers[b][vc]) \in Nat  BY <4>3
      <4>5. AtReceiver(m, cm, y, b, vc) = Len(m.input_buffers[b][vc]) + 0 + 0
        BY <2>4, <4>1, <4>2 DEF AtReceiver
      <4>6. AtReceiver(n, n.current, y, b, vc)
            = Len(n.input_buffers[b][vc]) + FlitOf(n.forward_channels[b], vc) + 0
        BY <4>1 DEF AtReceiver
      <4> QED BY <4>2, <4>4, <4>5, <4>6, FlitOfType
    <3>2. CASE y # r
      <4>1. m.input_credit_to_send[b][vc] = n.input_credit_to_send[b][vc]
            /\ m.input_buffers[b][vc] = n.input_buffers[b][vc]
        BY <1>4, <1>6, <1>8, <2>1, <3>2
      <4>2. ForwardDone(y) \in cm <=> ForwardDone(y) \in n.current
        BY <3>2, RoutingStamps
      <4>3. Fwd(b) \in cm <=> Fwd(b) \in n.current  BY RoutingStamps
      <4> HIDE DEF cm
      <4> QED BY <1>8, <2>4, <4>1, <4>2, <4>3 DEF AtReceiver
    <3> QED BY <3>1, <3>2
  <2> HIDE DEF cm
  <2> QED BY <1>8, <2>2, <2>3, <2>4, <2>5 DEF Count, a, b
<1>14. Accounted(m, cm)  BY <1>13, BalancedOK DEF CycleInv
<1>15. MidInv(m, r)  BY <1>8, <1>11, <1>12, <1>14 DEF MidInv, CycleInv
<1>16. \A c \in ins, vc \in VC : m.input_credit_to_send[c][vc] = 0
  BY <1>4, <1>8, <1>9
<1> QED BY <1>7, <1>15, <1>16

\* Bubbles go to the outputs that are left, and the router is done.
LEMMA FillOutputsOK ==
  ASSUME NEW n \in Net, NEW r \in Router, MidInv(n, r), NEW m, m = FillOutputs(n, r)
  PROVE  m \in Net /\ CycleInv(m)
<1> DEFINE left == {c \in Range(Out[r]) : Fwd(c) \notin n.current}
           fc == [c \in Connection |-> IF c \in left THEN Bubble ELSE n.forward_channels[c]]
           cur == n.current \cup {Fwd(c) : c \in left} \cup {ForwardDone(r)}
<1>1. m = [n EXCEPT !.forward_channels = fc, !.current = cur]  BY DEF FillOutputs
<1>2. fc \in [Connection -> FlitOrBubble]  BY FlitsAreFlits DEF Net
<1>3. r \in Component /\ Range(Out[r]) \subseteq Connection  BY Kinds, Ports
<1>4. cur \subseteq Stamp  BY <1>3, StampTypes DEF Net
<1>5. \A c \in Connection : fc[c] = IF c \in left THEN Bubble ELSE n.forward_channels[c]
  OBVIOUS
<1>6. \A c : c \in left <=> c \in Range(Out[r]) /\ Fwd(c) \notin n.current  OBVIOUS
<1> HIDE DEF fc
<1>7. m \in Net
  <2> HIDE DEF cur
  <2>1. m = [f \in NetFields |-> m[f]]  BY <1>1, NetIsRecord
  <2>2. FieldTypes(m)  BY <1>1, <1>2, <1>4 DEF FieldTypes, Net
  <2> QED BY <2>1, <2>2, RecordIsNet
<1>8. /\ m.reverse_channels = n.reverse_channels
      /\ m.forward_channels = fc
      /\ m.forward_data_stages = n.forward_data_stages
      /\ m.reverse_credit_stages = n.reverse_credit_stages
      /\ m.credit = n.credit
      /\ m.data_to_send = n.data_to_send
      /\ m.credit_update = n.credit_update
      /\ m.input_buffers = n.input_buffers
      /\ m.input_credit_to_send = n.input_credit_to_send
      /\ m.cycle = n.cycle
      /\ m.current = cur
  <2> HIDE DEF cur
  <2> QED BY <1>1 DEF Net
<1>9. NewStamps(n, m, left, {}, {}, {}, {}, {r}, {})
  BY <1>8, StampFields DEF NewStamps
<1> HIDE DEF left, cur
<1>10. SenderStamps(m.current)
  <2>1. \A s \in Source : \A c \in Range(Out[s]) : c \notin left
    BY <1>3, <1>6, Ends, Kinds
  <2> QED BY <1>9, <2>1, Kinds DEF SenderStamps, MidInv, NewStamps
<1>11. LinkStamps(m.current)
  <2>1. \A l \in Link : Out[l][1] \notin left  BY <1>3, <1>6, Ports, Ends, Kinds
  <2> QED BY <1>9, <2>1, Kinds DEF LinkStamps, MidInv, NewStamps
<1>12. ReceiverStamps(m.current)
  BY <1>9 DEF ReceiverStamps, MidInv, NewStamps
<1>13. ReturnsKept(m, m.current) /\ QueuedByVC(m)
  BY <1>8, <1>9 DEF ReturnsKept, QueuedByVC, MidInv, NewStamps
<1> DEFINE cn == Routing(n.current, r)
<1>14. Balanced(n, cn, m, m.current)
  <2> SUFFICES ASSUME NEW x \in Source \cup Router, NEW l \in Link,
                      NEW y \in Router \cup Sink, NEW vc \in VC, IsPath(x, l, y)
               PROVE  /\ Count(m, m.current, x, l, y, vc) = Count(n, cn, x, l, y, vc)
                      /\ m.cycle = n.cycle
                      /\ Rev(Out[l][1], vc) \in m.current <=> Rev(Out[l][1], vc) \in cn
    BY DEF Balanced
  <2> DEFINE a == In[l][1]
             b == Out[l][1]
  <2>1. a \in Connection /\ b \in Connection /\ b \notin left /\ l # r /\ (x \in Source => x # r)
    BY <1>3, <1>6, Ports, Ends, Kinds DEF IsPath
  <2> HIDE DEF a, b
  <2>2. AtSender(m, m.current, x, a, vc) = AtSender(n, cn, x, a, vc)
    BY <1>8, <1>9, <2>1, RoutingStamps DEF AtSender, TakenUp, NewStamps
  <2>3. Rev(b, vc) \in m.current <=> Rev(b, vc) \in cn  BY <1>9, RoutingStamps DEF NewStamps
  <2>4. OnLink(m, m.current, l, vc) = OnLink(n, cn, l, vc)
    <3> DEFINE here(k, cur2) == IF Fwd(a) \in cur2 /\ ForwardDone(l) \notin cur2
                                 THEN FlitOf(k.forward_channels[a], vc) ELSE 0
    <3>1. (ForwardDone(l) \in m.current <=> ForwardDone(l) \in cn)
          /\ (Pushed(l, vc) \in m.current <=> Pushed(l, vc) \in cn)
          /\ (Fwd(a) \in m.current <=> Fwd(a) \in cn \/ a \in left)
      BY <1>9, <2>1, RoutingStamps DEF NewStamps
    <3>2. a \in left => Fwd(a) \notin cn  BY <1>6, RoutingStamps
    <3>3. m.forward_channels[a] = IF a \in left THEN Bubble ELSE n.forward_channels[a]
      BY <1>5, <1>8, <2>1
    <3>4. FlitOf(Bubble, vc) = 0  BY FlitsAreFlits DEF FlitOf
    <3>5. here(m, m.current) = here(n, cn)  BY <3>1, <3>2, <3>3, <3>4
    <3>6. OnLink(m, m.current, l, vc)
          = SumOf(n.reverse_credit_stages[l][vc])
            + (IF Rev(b, vc) \in m.current /\ Pushed(l, vc) \notin m.current
                 THEN n.reverse_channels[b][vc] ELSE 0)
            + FlitsOn(n.forward_data_stages[l], vc) + here(m, m.current)
      BY <1>8 DEF OnLink, a, b
    <3>7. OnLink(n, cn, l, vc)
          = SumOf(n.reverse_credit_stages[l][vc])
            + (IF Rev(b, vc) \in cn /\ Pushed(l, vc) \notin cn
                 THEN n.reverse_channels[b][vc] ELSE 0)
            + FlitsOn(n.forward_data_stages[l], vc) + here(n, cn)
      BY DEF OnLink, a, b
    <3> HIDE DEF here, cn
    <3> QED BY <2>3, <3>1, <3>5, <3>6, <3>7
  <2>5. AtReceiver(m, m.current, y, b, vc) = AtReceiver(n, cn, y, b, vc)
    <3>1. (ForwardDone(y) \in m.current <=> ForwardDone(y) \in cn)
          /\ (Fwd(b) \in m.current <=> Fwd(b) \in cn)
      BY <1>9, <2>1, RoutingStamps DEF NewStamps
    <3>2. m.forward_channels[b] = n.forward_channels[b]  BY <1>5, <1>8, <2>1
    <3> HIDE DEF cn
    <3> QED BY <1>8, <2>3, <3>1, <3>2 DEF AtReceiver
  <2> HIDE DEF cn
  <2> QED BY <1>8, <2>2, <2>3, <2>4, <2>5 DEF Count, a, b
<1>15. Accounted(n, cn)  BY DEF MidInv
<1>16. Accounted(m, m.current)
  <2> HIDE DEF cn
  <2> QED BY <1>14, <1>15, BalancedOK
<1>17. m.cycle # -1  BY <1>8 DEF MidInv
<1> QED BY <1>17, <1>7, <1>10, <1>11, <1>12, <1>13, <1>16 DEF CycleInv

(* The head of input buffer x, with its VC, has gone to output o. *)
Routed(n, m, x, o, flit) ==
  /\ m.forward_channels = [n.forward_channels EXCEPT ![o.c] = flit]
  /\ \A c \in Connection, vc \in VC :
       /\ m.credit[c][vc] + (IF c = o.c /\ vc = o.vc THEN 1 ELSE 0) = n.credit[c][vc]
       /\ Len(m.input_buffers[c][vc]) + (IF c = x.c /\ vc = x.vc THEN 1 ELSE 0)
          = Len(n.input_buffers[c][vc])
       /\ m.input_credit_to_send[c][vc]
          = n.input_credit_to_send[c][vc] + (IF c = x.c /\ vc = x.vc THEN 1 ELSE 0)
  /\ m.current = n.current \cup {Fwd(o.c)}
  /\ m.reverse_channels = n.reverse_channels
  /\ m.forward_data_stages = n.forward_data_stages
  /\ m.reverse_credit_stages = n.reverse_credit_stages
  /\ m.data_to_send = n.data_to_send
  /\ m.credit_update = n.credit_update
  /\ m.cycle = n.cycle

\* What routing the head of a buffer does: nothing, or a credit is spent, a
\* flit leaves the buffer and a credit is to be returned.
LEMMA RouteHeadEffect ==
  ASSUME NEW n \in Net, NEW r \in Router, NEW x, x.c \in Range(In[r]), x.vc \in VC,
         n.input_credit_to_send[x.c][x.vc] = 0, NEW m, m = RouteHead(n, x)
  PROVE  \/ m = n
         \/ /\ m \in Net
            /\ \E o, flit : /\ o.c \in Range(Out[r]) /\ o.vc \in VC
                            /\ flit \in Flit /\ flit.vc = o.vc
                            /\ Fwd(o.c) \notin n.current /\ Routed(n, m, x, o, flit)
<1> DEFINE c == x.c
           v == x.vc
           q == n.input_buffers[c][v]
           o == Route(c, v, Head(q).flow.dest)
           flit == [Head(q) EXCEPT !.vc = o.vc]
           fc == [n.forward_channels EXCEPT ![o.c] = flit]
           cr == [n.credit EXCEPT ![o.c][o.vc] = @ - 1]
           ics == [n.input_credit_to_send EXCEPT ![c][v] = @ + 1]
           ib == [n.input_buffers EXCEPT ![c][v] = Tail(@)]
           cur == n.current \cup {Fwd(o.c)}
<1>1. CASE q = <<>> \/ ~CanRoute(n, o)
  BY <1>1 DEF RouteHead
<1>2. CASE q # <<>> /\ CanRoute(n, o)
  <2>1. c \in Connection /\ v \in VC /\ r \in Component /\ Range(Out[r]) \subseteq Connection
    BY Ports, Kinds
  <2>2. q \in Seq(Flit) /\ q # <<>>  BY <1>2, <2>1 DEF Net
  <2>3. Head(q) \in Flit /\ Tail(q) \in Seq(Flit) /\ Len(Tail(q)) + 1 = Len(q)
    <3> HIDE DEF q
    <3> QED BY <2>2
  <2>4. o \in [c : Range(Out[r]), vc : VC]
    <3>1. Head(q).flow.dest \in Sink  BY <2>3, FlitsAreFlits
    <3> QED BY <2>1, <3>1, WiringAssumption
  <2>5. o.c \in Range(Out[r]) /\ o.c \in Connection /\ o.vc \in VC  BY <2>1, <2>4
  <2>6. n.credit[o.c][o.vc] > 0 /\ Fwd(o.c) \notin n.current  BY <1>2 DEF CanRoute
  <2>7. m = [n EXCEPT !.forward_channels = fc, !.credit = cr, !.input_credit_to_send = ics,
                      !.input_buffers = ib, !.current = cur]
    BY <1>2 DEF RouteHead
  <2> HIDE DEF o, q
  <2>8. flit \in Flit /\ flit.vc = o.vc  BY <2>3, <2>5 DEF Flit
  <2> HIDE DEF flit
  <2>9. fc \in [Connection -> FlitOrBubble]
    <3>1. flit \in FlitOrBubble  BY <2>8, FlitsAreFlits
    <3> QED BY <3>1 DEF Net
  <2>10. cr \in [Connection -> [VC -> Nat]]
    <3>1. n.credit \in [Connection -> [VC -> Nat]]  BY DEF Net
    <3>2. n.credit[o.c][o.vc] \in Nat  BY <2>5, <3>1
    <3>3. n.credit[o.c][o.vc] - 1 \in Nat  BY <2>6, <3>2
    <3> QED BY <2>5, <3>1, <3>3
  <2>11. ics \in [Connection -> [VC -> 0..1]]
    <3>1. n.input_credit_to_send \in [Connection -> [VC -> 0..1]]  BY DEF Net
    <3>2. n.input_credit_to_send[c][v] + 1 \in 0..1  OBVIOUS
    <3> QED BY <2>1, <3>1, <3>2
  <2>12. ib \in [Connection -> [VC -> Seq(Flit)]]
    <3>1. n.input_buffers \in [Connection -> [VC -> Seq(Flit)]]  BY DEF Net
    <3>2. Tail(n.input_buffers[c][v]) \in Seq(Flit)  BY <2>3 DEF q
    <3> QED BY <2>1, <3>1, <3>2
  <2>13. cur \subseteq Stamp  BY <2>5, StampTypes DEF Net
  <2>14. ASSUME NEW d \in Connection, NEW vc \in VC
         PROVE  /\ cr[d][vc] + (IF d = o.c /\ vc = o.vc THEN 1 ELSE 0) = n.credit[d][vc]
                /\ Len(ib[d][vc]) + (IF d = c /\ vc = v THEN 1 ELSE 0)
                   = Len(n.input_buffers[d][vc])
                /\ ics[d][vc] = n.input_credit_to_send[d][vc]
                                + (IF d = c /\ vc = v THEN 1 ELSE 0)
    <3>1. n.credit \in [Connection -> [VC -> Nat]] /\ n.credit[d][vc] \in Nat  BY DEF Net
    <3>2. cr[d][vc] = IF d = o.c /\ vc = o.vc THEN n.credit[d][vc] - 1 ELSE n.credit[d][vc]
      BY <2>5, <3>1
    <3>3. cr[d][vc] + (IF d = o.c /\ vc = o.vc THEN 1 ELSE 0) = n.credit[d][vc]
      <4> HIDE DEF cr
      <4> QED BY <3>1, <3>2
    <3>4. n.input_credit_to_send \in [Connection -> [VC -> 0..1]]  BY DEF Net
    <3>5. n.input_credit_to_send[d][vc] \in 0..1  BY <3>4
    <3>6. ics[d][vc] = IF d = c /\ vc = v THEN n.input_credit_to_send[d][vc] + 1
                       ELSE n.input_credit_to_send[d][vc]
      BY <2>1, <3>4
    <3>7. ics[d][vc] = n.input_credit_to_send[d][vc] + (IF d = c /\ vc = v THEN 1 ELSE 0)
      <4> HIDE DEF ics
      <4> QED BY <3>5, <3>6
    <3>8. n.input_buffers \in [Connection -> [VC -> Seq(Flit)]]  BY DEF Net
    <3>9. ib[d][vc] = IF d = c /\ vc = v THEN Tail(q) ELSE n.input_buffers[d][vc]
      BY <2>1, <3>8 DEF q
    <3>10. Len(n.input_buffers[d][vc]) \in Nat
      <4>1. n.input_buffers[d][vc] \in Seq(Flit)  BY <3>8
      <4> QED BY <4>1
    <3>11. Len(ib[d][vc]) + (IF d = c /\ vc = v THEN 1 ELSE 0) = Len(n.input_buffers[d][vc])
      <4> HIDE DEF ib
      <4>1. d = c /\ vc = v => n.input_buffers[d][vc] = q  BY DEF q
      <4> HIDE DEF c, v
      <4> QED BY <2>3, <3>9, <3>10, <4>1
    <3> QED BY <3>3, <3>7, <3>11
  <2> HIDE DEF fc, cr, ics, ib
  <2>15. m \in Net
    <3> HIDE DEF cur
    <3>1. m = [f \in NetFields |-> m[f]]  BY <2>7, NetIsRecord
    <3>2. FieldTypes(m)  BY <2>7, <2>9, <2>10, <2>11, <2>12, <2>13 DEF FieldTypes, Net
    <3> QED BY <3>1, <3>2, RecordIsNet
  <2>16. /\ m.forward_channels = fc
         /\ m.credit = cr
         /\ m.input_buffers = ib
         /\ m.input_credit_to_send = ics
         /\ m.current = cur
         /\ m.reverse_channels = n.reverse_channels
         /\ m.forward_data_stages = n.forward_data_stages
         /\ m.reverse_credit_stages = n.reverse_credit_stages
         /\ m.data_to_send = n.data_to_send
         /\ m.credit_update = n.credit_update
         /\ m.cycle = n.cycle
    <3> HIDE DEF cur
    <3> QED BY <2>7 DEF Net
  <2>17. \A d \in Connection, vc \in VC :
           /\ m.credit[d][vc] + (IF d = o.c /\ vc = o.vc THEN 1 ELSE 0) = n.credit[d][vc]
           /\ Len(m.input_buffers[d][vc]) + (IF d = x.c /\ vc = x.vc THEN 1 ELSE 0)
              = Len(n.input_buffers[d][vc])
           /\ m.input_credit_to_send[d][vc]
              = n.input_credit_to_send[d][vc] + (IF d = x.c /\ vc = x.vc THEN 1 ELSE 0)
    BY <2>14, <2>16, Zenon
  <2>18. Routed(n, m, x, o, flit)  BY <2>16, <2>17, Zenon DEF Routed, fc, cur
  <2> QED BY <2>5, <2>6, <2>8, <2>15, <2>18
<1> QED BY <1>1, <1>2

\* Routing the head of a buffer keeps the invariant.
LEMMA RouteHeadOK ==
  ASSUME NEW n \in Net, NEW r \in Router, MidInv(n, r), NEW x, x.c \in Range(In[r]), x.vc \in VC,
         n.input_credit_to_send[x.c][x.vc] = 0, NEW m, m = RouteHead(n, x)
  PROVE  /\ m \in Net /\ MidInv(m, r)
         /\ \A c \in Connection, vc \in VC :
              c # x.c \/ vc # x.vc => m.input_credit_to_send[c][vc] = n.input_credit_to_send[c][vc]
<1>1. CASE m = n  BY <1>1
<1>2. CASE m # n
  <2>1. m \in Net  BY <1>2, RouteHeadEffect
  <2>2. PICK o, flit : /\ o.c \in Range(Out[r]) /\ o.vc \in VC
                       /\ flit \in Flit /\ flit.vc = o.vc
                       /\ Fwd(o.c) \notin n.current /\ Routed(n, m, x, o, flit)
    BY <1>2, RouteHeadEffect
  <2> DEFINE ins == Range(In[r])
             outs == Range(Out[r])
  <2>3. ins \subseteq Connection /\ outs \subseteq Connection /\ r \in Component
    BY Ports, Kinds
  <2>4. NewStamps(n, m, {o.c}, {}, {}, {}, {}, {}, {})
    BY <2>2, StampFields DEF NewStamps, Routed
  <2>5. \A c \in ins, vc \in VC : Rev(c, vc) \notin n.current
    BY DEF MidInv, ReceiverStamps
  <2>6. SenderStamps(m.current)
    <3>1. \A s \in Source : \A c \in Range(Out[s]) : c # o.c
      BY <2>2, <2>3, Ends, Kinds
    <3> QED BY <2>4, <3>1, Kinds DEF SenderStamps, MidInv, NewStamps
  <2>7. LinkStamps(m.current)
    <3>1. ASSUME NEW l \in Link PROVE Out[l][1] # o.c
      <4>1. l \in Component /\ l # r /\ Out[l][1] \in Range(Out[l])  BY Ports, Kinds
      <4> QED BY <2>2, <2>3, <4>1, Ends
    <3> QED BY <2>4, <3>1, Kinds DEF LinkStamps, MidInv, NewStamps
  <2>8. ReceiverStamps(m.current)
    BY <2>4 DEF ReceiverStamps, MidInv, NewStamps
  <2>9. \A c \in Connection, vc \in VC :
          c # x.c \/ vc # x.vc => m.input_credit_to_send[c][vc] = n.input_credit_to_send[c][vc]
    <3> SUFFICES ASSUME NEW c \in Connection, NEW vc \in VC, c # x.c \/ vc # x.vc
                 PROVE  m.input_credit_to_send[c][vc] = n.input_credit_to_send[c][vc]
      OBVIOUS
    <3>1. m.input_credit_to_send[c][vc] = n.input_credit_to_send[c][vc] + 0
      BY <2>2 DEF Routed
    <3>2. n.input_credit_to_send[c][vc] \in 0..1  BY DEF Net
    <3> QED BY <3>1, <3>2
  <2>10. ReturnsKept(m, m.current)
    <3> SUFFICES ASSUME NEW q \in Router, NEW c \in Range(In[q]), NEW vc \in VC,
                        Rev(c, vc) \in n.current
                 PROVE  m.reverse_channels[c][vc]
                        = IF m.cycle = 0 THEN Depth[c][vc] ELSE m.input_credit_to_send[c][vc]
      BY <2>4 DEF ReturnsKept, NewStamps
    <3>1. c \notin ins /\ c \in Connection  BY <2>5, Ports, Kinds
    <3>2. c # x.c  BY <3>1
    <3>3. m.input_credit_to_send[c][vc] = n.input_credit_to_send[c][vc]  BY <2>9, <3>1, <3>2
    <3> QED BY <2>2, <3>3 DEF MidInv, ReturnsKept, Routed
  <2>11. QueuedByVC(m)  BY <2>2 DEF QueuedByVC, MidInv, Routed
  <2> DEFINE cn == Routing(n.current, r)
             cm == Routing(m.current, r)
  <2>12. /\ \A c : Fwd(c) \in cm <=> Fwd(c) \in cn \/ c = o.c
         /\ \A c, vc : /\ Rev(c, vc) \in cm <=> Rev(c, vc) \in cn
                       /\ Update(c, vc) \in cm <=> Update(c, vc) \in cn
         /\ \A l, vc : Pushed(l, vc) \in cm <=> Pushed(l, vc) \in cn
         /\ \A z : Credited(z) \in cm <=> Credited(z) \in cn
         /\ \A z : ForwardDone(z) \in cm <=> ForwardDone(z) \in cn
         /\ Fwd(o.c) \notin cn /\ ForwardDone(r) \in cn
         /\ \A c \in ins, vc \in VC : Rev(c, vc) \notin cn
    BY <2>2, <2>4, <2>5, RoutingStamps DEF NewStamps
  <2>13. LinkStamps(cn)
    BY RoutingStamps, StampFields, Kinds DEF LinkStamps, MidInv, Routing
  <2> HIDE DEF cn, cm
  <2>14. Balanced(n, cn, m, cm)
    <3> SUFFICES ASSUME NEW p \in Source \cup Router, NEW l \in Link,
                        NEW y \in Router \cup Sink, NEW vc \in VC, IsPath(p, l, y)
                 PROVE  /\ Count(m, cm, p, l, y, vc) = Count(n, cn, p, l, y, vc)
                        /\ m.cycle = n.cycle
                        /\ Rev(Out[l][1], vc) \in cm <=> Rev(Out[l][1], vc) \in cn
      BY DEF Balanced
    <3> DEFINE a == In[l][1]
               b == Out[l][1]
               sent == IF a = o.c THEN FlitOf(flit, vc) ELSE 0
    <3>1. a \in Connection /\ b \in Connection /\ b # o.c /\ (b = x.c => y = r)
      BY <2>2, <2>3, Ports, Ends, Kinds DEF IsPath
    <3> HIDE DEF a, b
    <3>2. Rev(b, vc) \in cm <=> Rev(b, vc) \in cn  BY <2>12
    <3>3. sent = IF a = o.c /\ vc = o.vc THEN 1 ELSE 0
      BY <2>2, FlitsAreFlits DEF FlitOf
    <3>4. sent \in Nat  BY <3>3
    <3> HIDE DEF sent
    <3>5. AtSender(m, cm, p, a, vc) + sent = AtSender(n, cn, p, a, vc)
      <4>1. m.credit[a][vc] + sent = n.credit[a][vc]  BY <2>2, <3>1, <3>3 DEF Routed
      <4>2. n.credit[a][vc] \in Nat /\ n.credit_update[a][vc] \in Nat
            /\ n.reverse_channels[a][vc] \in Nat /\ m.credit[a][vc] \in Nat
        BY <2>1, <3>1 DEF Net
      <4>3. m.credit_update = n.credit_update /\ m.reverse_channels = n.reverse_channels
        BY <2>2 DEF Routed
      <4>4. (TakenUp(cm, p) <=> TakenUp(cn, p)) /\ (Update(a, vc) \in cm <=> Update(a, vc) \in cn)
            /\ (Rev(a, vc) \in cm <=> Rev(a, vc) \in cn)
        BY <2>12 DEF TakenUp
      <4> QED BY <3>4, <4>1, <4>2, <4>3, <4>4 DEF AtSender
    <3>6. OnLink(m, cm, l, vc) = OnLink(n, cn, l, vc) + sent
      <4> DEFINE sum == SumOf(n.reverse_credit_stages[l][vc])
                 flits == FlitsOn(n.forward_data_stages[l], vc)
                 in == IF Rev(b, vc) \in cn /\ Pushed(l, vc) \notin cn
                       THEN n.reverse_channels[b][vc] ELSE 0
                 here(k, cur) == IF Fwd(a) \in cur /\ ForwardDone(l) \notin cur
                                 THEN FlitOf(k.forward_channels[a], vc) ELSE 0
      <4>1. sum \in Nat /\ flits \in Nat  BY CountTypes
      <4>2. in \in Nat  BY <3>1 DEF Net
      <4>3. here(n, cn) \in Nat  BY FlitOfType
      <4>4. here(m, cm) = here(n, cn) + sent
        <5>1. CASE a = o.c
          <6>1. Fwd(a) \in cm /\ Fwd(a) \notin cn  BY <2>12, <5>1
          <6>2. ForwardDone(l) \notin cn /\ ForwardDone(l) \notin cm
            BY <2>12, <2>13, <6>1 DEF LinkStamps, a
          <6>3. m.forward_channels[a] = flit  BY <2>2, <3>1, <5>1 DEF Routed, Net
          <6>4. here(m, cm) = FlitOf(flit, vc) /\ here(n, cn) = 0  BY <6>1, <6>2, <6>3
          <6> QED BY <3>4, <5>1, <6>4 DEF sent
        <5>2. CASE a # o.c
          <6>1. m.forward_channels[a] = n.forward_channels[a]
            BY <2>2, <3>1, <5>2 DEF Routed, Net
          <6>2. (Fwd(a) \in cm <=> Fwd(a) \in cn) /\ (ForwardDone(l) \in cm <=> ForwardDone(l) \in cn)
            BY <2>12, <5>2
          <6>3. here(m, cm) = here(n, cn)  BY <6>1, <6>2
          <6> HIDE DEF here
          <6> QED BY <4>3, <5>2, <6>3 DEF sent
        <5> QED BY <5>1, <5>2
      <4>5. OnLink(n, cn, l, vc) = sum + in + flits + here(n, cn)
        BY DEF OnLink, a, b
      <4>6. OnLink(m, cm, l, vc) = sum + in + flits + here(m, cm)
        <5>1. m.reverse_channels = n.reverse_channels
              /\ m.forward_data_stages = n.forward_data_stages
              /\ m.reverse_credit_stages = n.reverse_credit_stages
          BY <2>2 DEF Routed
        <5>2. Pushed(l, vc) \in cm <=> Pushed(l, vc) \in cn  BY <2>12
        <5> QED BY <3>2, <5>1, <5>2 DEF OnLink, a, b
      <4> HIDE DEF sum, flits, in, here
      <4> QED BY <3>4, <4>1, <4>2, <4>3, <4>4, <4>5, <4>6
    <3>7. AtReceiver(m, cm, y, b, vc) = AtReceiver(n, cn, y, b, vc)
      <4> DEFINE got == IF b = x.c /\ vc = x.vc THEN 1 ELSE 0
                 here == IF Fwd(b) \in cn /\ ForwardDone(y) \notin cn
                         THEN FlitOf(n.forward_channels[b], vc) ELSE 0
      <4>1. Len(m.input_buffers[b][vc]) + got = Len(n.input_buffers[b][vc])
            /\ m.input_credit_to_send[b][vc] = n.input_credit_to_send[b][vc] + got
        BY <2>2, <3>1 DEF Routed
      <4>2. m.forward_channels[b] = n.forward_channels[b]
        BY <2>2, <3>1 DEF Routed, Net
      <4>3. (Fwd(b) \in cm <=> Fwd(b) \in cn) /\ (ForwardDone(y) \in cm <=> ForwardDone(y) \in cn)
        BY <2>12, <3>1
      <4>4. Len(m.input_buffers[b][vc]) \in Nat /\ n.input_credit_to_send[b][vc] \in Nat
        <5>1. m.input_buffers[b][vc] \in Seq(Flit) /\ n.input_credit_to_send[b][vc] \in 0..1
          BY <2>1, <3>1 DEF Net
        <5> QED BY <5>1
      <4>5. here \in Nat  BY FlitOfType
      <4>6. CASE b = x.c
        <5>1. ForwardDone(y) \in cn /\ Rev(b, vc) \notin cn  BY <2>12, <3>1, <4>6
        <5>2. AtReceiver(n, cn, y, b, vc)
              = Len(n.input_buffers[b][vc]) + here + n.input_credit_to_send[b][vc]
          BY <5>1 DEF AtReceiver
        <5>3. AtReceiver(m, cm, y, b, vc)
              = Len(m.input_buffers[b][vc]) + here + m.input_credit_to_send[b][vc]
          BY <3>2, <4>2, <4>3, <5>1 DEF AtReceiver
        <5>4. got \in Nat  OBVIOUS
        <5>5. \A i, j, k, g \in Nat : (i + g) + j + k = i + j + (k + g)  OBVIOUS
        <5> HIDE DEF here, got
        <5>6. (Len(m.input_buffers[b][vc]) + got) + here + n.input_credit_to_send[b][vc]
              = Len(m.input_buffers[b][vc]) + here + (n.input_credit_to_send[b][vc] + got)
          BY <4>4, <4>5, <5>4, <5>5
        <5> QED BY <4>1, <5>2, <5>3, <5>6, Zenon
      <4>7. CASE b # x.c
        <5>1. got = 0  BY <4>7
        <5>2. Len(m.input_buffers[b][vc]) = Len(n.input_buffers[b][vc])
              /\ m.input_credit_to_send[b][vc] = n.input_credit_to_send[b][vc]
          <6> HIDE DEF got
          <6> QED BY <4>1, <4>4, <5>1
        <5> DEFINE back == IF ForwardDone(y) \in cn /\ Rev(b, vc) \notin cn
                           THEN n.input_credit_to_send[b][vc] ELSE 0
        <5>3. AtReceiver(n, cn, y, b, vc) = Len(n.input_buffers[b][vc]) + here + back
          BY DEF AtReceiver
        <5>4. AtReceiver(m, cm, y, b, vc) = Len(m.input_buffers[b][vc]) + here + back
          BY <3>2, <4>2, <4>3, <5>2 DEF AtReceiver
        <5> HIDE DEF here, back
        <5> QED BY <5>2, <5>3, <5>4
      <4> QED BY <4>6, <4>7
    <3>8. AtSender(n, cn, p, a, vc) \in Nat /\ AtSender(m, cm, p, a, vc) \in Nat
          /\ OnLink(n, cn, l, vc) \in Nat /\ AtReceiver(n, cn, y, b, vc) \in Nat
      BY <2>1, <3>1, CountTypes
    <3>9. AtSender(m, cm, p, a, vc) + OnLink(m, cm, l, vc) + AtReceiver(m, cm, y, b, vc)
          = AtSender(n, cn, p, a, vc) + OnLink(n, cn, l, vc) + AtReceiver(n, cn, y, b, vc)
      BY <3>4, <3>5, <3>6, <3>7, <3>8
    <3>10. Count(m, cm, p, l, y, vc) = Count(n, cn, p, l, y, vc)
      BY <3>9 DEF Count, a, b
    <3>11. m.cycle = n.cycle  BY <2>2 DEF Routed
    <3> QED BY <3>2, <3>10, <3>11 DEF b
  <2>15. Accounted(m, cm)
    <3>1. Accounted(n, cn)  BY DEF MidInv, cn
    <3> QED BY <2>14, <3>1, BalancedOK
  <2>16. Credited(r) \in m.current /\ ForwardDone(r) \notin m.current
         /\ \A c \in ins : Fwd(c) \in m.current
    BY <2>4 DEF MidInv, NewStamps
  <2>18. m.cycle # -1  BY <2>2 DEF MidInv, Routed
  <2>17. MidInv(m, r)
    BY <2>18, <2>6, <2>7, <2>8, <2>10, <2>11, <2>15, <2>16 DEF MidInv, cm
  <2> QED BY <2>1, <2>9, <2>17
<1> QED BY <1>1, <1>2

\* The input buffers of a router, each once.
LEMMA PriorityIs ==
  ASSUME NEW r \in Router, NEW xs, xs = Priority(r)
  PROVE  /\ Len(xs) \in Nat
         /\ \A k \in 1..Len(xs) : xs[k].c \in Range(In[r]) /\ xs[k].vc \in VC
         /\ \A j, k \in 1..Len(xs) : xs[j].c = xs[k].c /\ xs[j].vc = xs[k].vc => j = k
<1> DEFINE q == In[r]
           L == Len(q)
           N == NumVC * L
<1>1. r \in Component  BY Kinds
<1>2. q \in Seq(Connection) /\ NumVC \in Nat \ {0}  BY <1>1, NocAssumption
<1>3. L \in Nat /\ DOMAIN q = 1..L /\ \A i \in 1..L : q[i] \in Range(q)
  BY <1>2 DEF Range
<1>4. \A i, j \in 1..L : q[i] = q[j] => i = j  BY <1>3, WiringAssumption
<1> HIDE DEF q, L
<1>5. N \in Nat /\ (L = 0 => N = 0)  BY <1>2, <1>3, Z3
<1>6. xs = [k \in 1..N |-> [c |-> q[((k - 1) % L) + 1], vc |-> (k - 1) \div L]]
  BY DEF Priority, q, L
<1> HIDE DEF N
<1>7. Len(xs) = N  BY <1>5, <1>6
<1>8. \A k \in 1..N : xs[k].c = q[((k - 1) % L) + 1] /\ xs[k].vc = (k - 1) \div L
  BY <1>6
<1>9. ASSUME NEW k \in 1..N
      PROVE  /\ L \in Nat \ {0} /\ k - 1 \in Nat /\ (k - 1) \div L \in VC
             /\ ((k - 1) % L) + 1 \in 1..L
             /\ k - 1 = L * ((k - 1) \div L) + ((k - 1) % L)
  <2>1. L \in Nat \ {0} /\ k - 1 \in Nat /\ k - 1 < N  BY <1>3, <1>5, <1>9
  <2>2. k - 1 < NumVC * L  BY <2>1 DEF N
  <2>3. (k - 1) \div L \in 0..(NumVC - 1)  BY <1>2, <2>1, <2>2, DivBelow
  <2>4. (k - 1) % L \in 0..(L - 1) /\ k - 1 = L * ((k - 1) \div L) + ((k - 1) % L)
    BY <2>1, DivMod
  <2> DEFINE i == (k - 1) % L
  <2>5. i \in 0..(L - 1)  BY <2>4
  <2> HIDE DEF i
  <2>6. i + 1 \in 1..L  BY <2>1, <2>5
  <2> QED BY <2>1, <2>3, <2>4, <2>6 DEF VC, i
<1>10. \A k \in 1..N : xs[k].c \in Range(q) /\ xs[k].vc \in VC
  BY <1>3, <1>8, <1>9
<1>11. ASSUME NEW j \in 1..N, NEW k \in 1..N, xs[j].c = xs[k].c, xs[j].vc = xs[k].vc
       PROVE  j = k
  <2>1. ((j - 1) % L) + 1 \in 1..L /\ ((k - 1) % L) + 1 \in 1..L
        /\ j - 1 = L * ((j - 1) \div L) + ((j - 1) % L)
        /\ k - 1 = L * ((k - 1) \div L) + ((k - 1) % L)
        /\ j - 1 \in Nat /\ k - 1 \in Nat /\ L \in Nat \ {0}
    BY <1>9
  <2>2. ((j - 1) % L) + 1 = ((k - 1) % L) + 1 /\ (j - 1) \div L = (k - 1) \div L
    BY <1>4, <1>8, <1>11, <2>1
  <2>3. (j - 1) % L \in Nat /\ (k - 1) % L \in Nat
    <3>1. (j - 1) % L \in 0..(L - 1) /\ (k - 1) % L \in 0..(L - 1)  BY <2>1, DivMod
    <3> QED BY <2>1, <3>1
  <2>4. (j - 1) % L = (k - 1) % L
    <3> DEFINE u == (j - 1) % L
               w == (k - 1) % L
    <3>1. u \in Nat /\ w \in Nat /\ u + 1 = w + 1  BY <2>2, <2>3
    <3> HIDE DEF u, w
    <3>2. u = w  BY <3>1
    <3> QED BY <3>2 DEF u, w
  <2>5. j - 1 = k - 1  BY <2>1, <2>2, <2>4, Zenon
  <2> QED BY <2>5
<1> QED BY <1>5, <1>7, <1>10, <1>11 DEF q

\* Apply is application.
LEMMA ApplyIs ==
  /\ \A n, x : Apply(RouteHead, n, x) = RouteHead(n, x)
  /\ \A n, x : Apply(Accept, n, x) = Accept(n, x)
  /\ \A n, x : Apply(FillOutputs, n, x) = FillOutputs(n, x)
  /\ \A n, x : Apply(TickReverse, n, x) = TickReverse(n, x)
  /\ \A n, x : Apply(TickComponent, n, x) = TickComponent(n, x)
  /\ \A n, x : Apply(Tick, n, x) = Tick(n, x)
BY DEF Apply

\* A router serves its input buffers one after the other.
LEMMA RouteAllOK ==
  ASSUME NEW n \in Net, NEW r \in Router, MidInv(n, r),
         \A c \in Range(In[r]), vc \in VC : n.input_credit_to_send[c][vc] = 0,
         NEW m, m = Fold(RouteHead, n, Priority(r))
  PROVE  m \in Net /\ MidInv(m, r)
<1> DEFINE xs == Priority(r)
           b == Len(xs)
           S == [k \in 0..b |-> {p \in Net : /\ MidInv(p, r)
                                            /\ \A j \in (k + 1)..b :
                                                 p.input_credit_to_send[xs[j].c][xs[j].vc] = 0}]
           step == [k \in 1..b |-> [p \in S[k - 1] |-> RouteHead(p, xs[k])]]
           F(f) == [k \in 0..b |-> IF k = 0 THEN n ELSE Apply(RouteHead, f[k - 1], xs[k])]
<1>1. /\ b \in Nat
      /\ \A k \in 1..b : xs[k].c \in Range(In[r]) /\ xs[k].vc \in VC /\ xs[k].c \in Connection
      /\ \A j, k \in 1..b : xs[j].c = xs[k].c /\ xs[j].vc = xs[k].vc => j = k
  BY PriorityIs, Ports, Kinds
<1>2. m = (CHOOSE f : f = F(f))[b]  BY Zenon DEF Fold
<1> HIDE DEF xs, b
<1>3. n \in S[0]  BY <1>1
<1>4. ASSUME NEW k \in 1..b, NEW p \in S[k - 1] PROVE RouteHead(p, xs[k]) \in S[k]
  <2>1. k - 1 \in 0..b /\ k \in 0..b /\ k \in ((k - 1) + 1)..b
        /\ \A j \in (k + 1)..b : j \in ((k - 1) + 1)..b /\ j \in 1..b /\ j # k
    BY <1>1
  <2>2. p \in Net /\ MidInv(p, r)
        /\ \A j \in ((k - 1) + 1)..b : p.input_credit_to_send[xs[j].c][xs[j].vc] = 0
    BY <2>1
  <2> HIDE DEF S
  <2>3. p.input_credit_to_send[xs[k].c][xs[k].vc] = 0  BY <2>1, <2>2
  <2>4. PICK q : q = RouteHead(p, xs[k])  OBVIOUS
  <2>5. /\ q \in Net /\ MidInv(q, r)
        /\ \A c \in Connection, vc \in VC :
             c # xs[k].c \/ vc # xs[k].vc => q.input_credit_to_send[c][vc] = p.input_credit_to_send[c][vc]
    BY <1>1, <2>2, <2>3, <2>4, RouteHeadOK
  <2>6. \A j \in (k + 1)..b : q.input_credit_to_send[xs[j].c][xs[j].vc] = 0
    BY <1>1, <2>1, <2>2, <2>5
  <2> QED BY <2>1, <2>4, <2>5, <2>6 DEF S
<1> HIDE DEF S
<1>5. Steps(step, b, S)  BY <1>4 DEF Steps
<1>6. \A k \in 1..b : \A p \in S[k - 1] : step[k][p] = RouteHead(p, xs[k])  OBVIOUS
<1> HIDE DEF step
<1>7. PICK g : Follows(g, b, S, n, step)  BY <1>1, <1>3, <1>5, Recursion
<1>8. g = F(g)
  <2>1. \A k \in 1..b : k - 1 \in 0..b  BY <1>1
  <2>2. \A k \in 1..b : g[k] = RouteHead(g[k - 1], xs[k])
    BY <1>6, <1>7, <2>1 DEF Follows
  <2>5. \A k \in 1..b : g[k] = Apply(RouteHead, g[k - 1], xs[k])
    BY <2>2, ApplyIs, Zenon
  <2>6. \A k \in 0..b : k = 0 \/ k \in 1..b  BY <1>1
  <2>7. g[0] = n  BY <1>7 DEF Follows
  <2>3. \A k \in 0..b : g[k] = IF k = 0 THEN n ELSE Apply(RouteHead, g[k - 1], xs[k])
    BY <2>5, <2>6, <2>7, Zenon
  <2>4. g = [k \in 0..b |-> g[k]]  BY <1>7 DEF Follows
  <2> QED BY <2>3, <2>4
<1> DEFINE h == CHOOSE f : f = F(f)
<1>9. h = F(h)
  <2> HIDE DEF F
  <2> QED BY <1>8, Zenon
<1>10. m = h[b]  BY <1>2
<1> HIDE DEF h
<1>11. \A k \in 0..b : h[k] = IF k = 0 THEN n ELSE RouteHead(h[k - 1], xs[k])
  BY <1>9, ApplyIs
<1> DEFINE T == {k \in 0..b : h[k] \in S[k]}
<1>12. 0 \in T  BY <1>1, <1>3, <1>11
<1>13. ASSUME NEW k \in 0..b, k < b, k \in T PROVE k + 1 \in T
  <2>1. k + 1 \in 1..b /\ k + 1 \in 0..b /\ (k + 1) - 1 = k /\ k + 1 # 0  BY <1>1, <1>13
  <2>2. h[k + 1] = RouteHead(h[k], xs[k + 1])  BY <1>11, <2>1
  <2>3. h[k] \in S[(k + 1) - 1]  BY <1>13, <2>1
  <2>4. RouteHead(h[k], xs[k + 1]) \in S[k + 1]  BY <1>4, <2>1, <2>3
  <2> QED BY <2>1, <2>2, <2>4
<1> HIDE DEF T
<1>14. b \in T  BY <1>1, <1>12, <1>13, UpTo
<1>15. h[b] \in S[b]  BY <1>14 DEF T
<1> QED BY <1>1, <1>10, <1>15 DEF S

\* The forward propagation of a router keeps the invariant.
LEMMA RouterForwardOK ==
  ASSUME NEW n \in Net, CycleInv(n), NEW r \in Router, ForwardDone(r) \notin n.current,
         NEW m, m = RouterForward(n, r)
  PROVE  m \in Net /\ CycleInv(m)
<1>1. PICK k : k = Replenish(n, r)  OBVIOUS
<1>2. /\ k \in Net /\ CycleInv(k) /\ Credited(r) \in k.current
      /\ \A c : Fwd(c) \in k.current <=> Fwd(c) \in n.current
      /\ \A x : ForwardDone(x) \in k.current <=> ForwardDone(x) \in n.current
  BY <1>1, ReplenishOK
<1>3. CASE \A c \in Range(In[r]) : Fwd(c) \in n.current
  <2>1. PICK p : p = Accept(k, r)  OBVIOUS
  <2>2. /\ p \in Net /\ MidInv(p, r)
        /\ \A c \in Range(In[r]), vc \in VC : p.input_credit_to_send[c][vc] = 0
    BY <1>2, <1>3, <2>1, AcceptOK
  <2>3. PICK q : q = Fold(RouteHead, p, Priority(r))  OBVIOUS
  <2>4. q \in Net /\ MidInv(q, r)  BY <2>2, <2>3, RouteAllOK
  <2>5. m = FillOutputs(q, r)
    <3>1. m = Apply(FillOutputs,
                    Fold(RouteHead, Apply(Accept, Replenish(n, r), r), Priority(r)), r)
      BY <1>3, Zenon DEF RouterForward
    <3>2. Apply(Accept, Replenish(n, r), r) = p  BY <1>1, <2>1, ApplyIs, Zenon
    <3>3. m = Apply(FillOutputs, q, r)  BY <2>3, <3>1, <3>2, Zenon
    <3> QED BY <3>3, ApplyIs, Zenon
  <2> QED BY <2>4, <2>5, FillOutputsOK
<1>4. CASE ~ \A c \in Range(In[r]) : Fwd(c) \in n.current
  <2>1. m = Replenish(n, r)  BY <1>4, Zenon DEF RouterForward
  <2> QED BY <1>1, <1>2, <2>1
<1> QED BY <1>3, <1>4

\* The reverse propagation of a router keeps the invariant.
LEMMA RouterReverseOK ==
  ASSUME NEW n \in Net, CycleInv(n), NEW r \in Router, NEW m, m = RouterReverse(n, r)
  PROVE  m \in Net /\ CycleInv(m)
<1>1. CASE ForwardDone(r) \notin n.current
  <2>1. m = n  BY <1>1 DEF RouterReverse
  <2> QED BY <2>1
<1>2. CASE ForwardDone(r) \in n.current
  <2> DEFINE ins == Range(In[r])
             outs == Range(Out[r])
             fresh == Fresh(n, outs)
             all == AllCreditsHere(n, outs)
             rc == [c \in Connection |->
                      IF c \notin ins THEN n.reverse_channels[c]
                      ELSE IF n.cycle = 0 THEN Depth[c]
                      ELSE n.input_credit_to_send[c]]
  <2>1. r \in Component /\ r \in Router \cup Sink /\ r \in Source \cup Router
        /\ ins \subseteq Connection /\ outs \subseteq Connection
    BY Ports, Kinds
  <2>2. PICK k : k = ReceiveCredit(n, outs)  OBVIOUS
  <2>3. k \in Net /\ Receives(n, k, outs)  BY <2>1, <2>2, ReceiveCreditEffect
  <2> DEFINE cur == k.current \cup {Rev(c, vc) : c \in ins, vc \in VC}
                    \cup DoneIf(all, ReverseDone(r))
  <2>4. k.reverse_channels = n.reverse_channels  BY <2>3 DEF Receives
  <2>5. m = [k EXCEPT !.reverse_channels = rc, !.current = cur]
    BY <1>2, <2>2, <2>4 DEF RouterReverse
  <2>6. rc \in [Connection -> [VC -> Nat]]
    <3> SUFFICES ASSUME NEW c \in Connection
                 PROVE  (IF c \notin ins THEN n.reverse_channels[c]
                         ELSE IF n.cycle = 0 THEN Depth[c]
                         ELSE n.input_credit_to_send[c]) \in [VC -> Nat]
      OBVIOUS
    <3>1. n.reverse_channels[c] \in [VC -> Nat] /\ n.input_credit_to_send[c] \in [VC -> 0..1]
          /\ Depth[c] \in [VC -> Nat]
      BY NocAssumption DEF Net
    <3>2. n.input_credit_to_send[c] \in [VC -> Nat]
      <4>1. 0..1 \subseteq Nat  OBVIOUS
      <4> QED BY <3>1, <4>1
    <3> QED BY <3>1, <3>2
  <2>7. cur \subseteq Stamp
    <3>1. k.current \subseteq Stamp  BY <2>3 DEF Net
    <3>2. DoneIf(all, ReverseDone(r)) \subseteq Stamp  BY <2>1, StampTypes DEF DoneIf
    <3> QED BY <2>1, <3>1, <3>2, StampTypes
  <2>8. /\ \A c \in Connection : c \notin ins => rc[c] = n.reverse_channels[c]
        /\ \A c \in ins, vc \in VC :
             rc[c][vc] = IF n.cycle = 0 THEN Depth[c][vc] ELSE n.input_credit_to_send[c][vc]
    BY <2>1
  <2> HIDE DEF rc
  <2>9. m \in Net
    <3> HIDE DEF cur
    <3>1. m = [f \in NetFields |-> m[f]]  BY <2>3, <2>5, NetIsRecord
    <3>2. FieldTypes(m)  BY <2>3, <2>5, <2>6, <2>7 DEF FieldTypes, Net
    <3> QED BY <3>1, <3>2, RecordIsNet
  <2>10. /\ m.reverse_channels = rc
         /\ m.forward_channels = n.forward_channels
         /\ m.forward_data_stages = n.forward_data_stages
         /\ m.reverse_credit_stages = n.reverse_credit_stages
         /\ m.credit = n.credit
         /\ m.data_to_send = n.data_to_send
         /\ m.credit_update = k.credit_update
         /\ m.input_buffers = n.input_buffers
         /\ m.input_credit_to_send = n.input_credit_to_send
         /\ m.cycle = n.cycle
         /\ m.current = cur
    <3> HIDE DEF cur
    <3> QED BY <2>3, <2>5 DEF Receives, Net
  <2>11. m.current = n.current \cup {Update(x[1], x[2]) : x \in fresh}
                               \cup {Rev(c, vc) : c \in ins, vc \in VC}
                               \cup DoneIf(all, ReverseDone(r))
    BY <2>3, <2>10 DEF Receives
  <2>12. \A c, vc : <<c, vc>> \in fresh
                    <=> c \in outs /\ vc \in VC /\ Rev(c, vc) \in n.current
                        /\ Update(c, vc) \notin n.current
    BY DEF Fresh
  <2>13. NewStamps(n, m, {}, {<<c, vc>> : c \in ins, vc \in VC}, {}, fresh, {}, {},
                   IF all THEN {r} ELSE {})
    <3> HIDE DEF ins, outs, all, cur
    <3> QED BY <2>11, StampFields DEF NewStamps, DoneIf, Fresh
  <2> HIDE DEF cur
  <2>14. /\ \A c, vc : Rev(c, vc) \in m.current
                       <=> Rev(c, vc) \in n.current \/ (c \in ins /\ vc \in VC)
         /\ \A c, vc : Update(c, vc) \in m.current
                       <=> \/ Update(c, vc) \in n.current
                           \/ c \in outs /\ vc \in VC /\ Rev(c, vc) \in n.current
         /\ \A x : ReverseDone(x) \in m.current <=> ReverseDone(x) \in n.current \/ (x = r /\ all)
         /\ \A x : ForwardDone(x) \in m.current <=> ForwardDone(x) \in n.current
         /\ \A x : Credited(x) \in m.current <=> Credited(x) \in n.current
         /\ \A c : Fwd(c) \in m.current <=> Fwd(c) \in n.current
         /\ \A l, vc : Pushed(l, vc) \in m.current <=> Pushed(l, vc) \in n.current
    <3> DEFINE sent == {<<c, vc>> : c \in ins, vc \in VC}
    <3>1. \A c, vc : <<c, vc>> \in sent <=> c \in ins /\ vc \in VC  OBVIOUS
    <3>2. NewStamps(n, m, {}, sent, {}, fresh, {}, {}, IF all THEN {r} ELSE {})  BY <2>13
    <3> HIDE DEF sent, ins, outs, fresh, all
    <3>3. \A c, vc : Rev(c, vc) \in m.current
                     <=> Rev(c, vc) \in n.current \/ (c \in ins /\ vc \in VC)
      BY <3>1, <3>2, Zenon DEF NewStamps
    <3>4. \A c, vc : Update(c, vc) \in m.current
                     <=> \/ Update(c, vc) \in n.current
                         \/ c \in outs /\ vc \in VC /\ Rev(c, vc) \in n.current
      BY <2>12, <3>2, Zenon DEF NewStamps
    <3>5. \A x : ReverseDone(x) \in m.current <=> ReverseDone(x) \in n.current \/ (x = r /\ all)
      BY <3>2 DEF NewStamps
    <3> QED BY <3>2, <3>3, <3>4, <3>5 DEF NewStamps
  <2>15. Credited(r) \in n.current  BY <1>2 DEF CycleInv, SenderStamps
  <2>16. all => \A c \in outs, vc \in VC : Rev(c, vc) \in n.current  BY DEF AllCreditsHere
  <2> HIDE DEF fresh, all
  <2>17. SenderStamps(m.current)
    <3>1. SenderStamps(n.current)  BY DEF CycleInv
    <3>2. \A s \in Source : \A c \in Range(Out[s]) : c \notin outs
      BY <2>1, Ends, Kinds
    <3>3. \A q \in Router : \A c \in Range(Out[q]) : c \in outs => q = r
      BY <2>1, Ends, Kinds
    <3> HIDE DEF outs, ins
    <3>4. \A s \in Source : \A c \in Range(Out[s]) :
            /\ Fwd(c) \in m.current => ForwardDone(s) \in m.current
            /\ \A vc \in VC : Update(c, vc) \in m.current => ForwardDone(s) \in m.current
      BY <2>14, <3>1, <3>2 DEF SenderStamps
    <3>5. \A q \in Router : ForwardDone(q) \in m.current => Credited(q) \in m.current
      BY <2>14, <3>1 DEF SenderStamps
    <3>6. \A q \in Router : \A c \in Range(Out[q]), vc \in VC :
            Update(c, vc) \in m.current => Credited(q) \in m.current
      BY <2>14, <2>15, <3>1, <3>3 DEF SenderStamps
    <3>7. \A c \in Connection, vc \in VC : Update(c, vc) \in m.current => Rev(c, vc) \in m.current
      BY <2>14, <3>1 DEF SenderStamps
    <3>8. \A x \in Source \cup Router : ReverseDone(x) \in m.current =>
            \A c \in Range(Out[x]), vc \in VC : Update(c, vc) \in m.current
      BY <2>14, <2>16, <3>1 DEF SenderStamps, outs
    <3> QED BY <3>4, <3>5, <3>6, <3>7, <3>8 DEF SenderStamps
  <2>18. LinkStamps(m.current)
    <3>1. ASSUME NEW l \in Link PROVE In[l][1] \notin ins /\ l # r
      <4>1. l \in Component /\ l # r /\ In[l][1] \in Range(In[l])  BY Ports, Kinds
      <4> QED BY <2>1, <4>1, Ends
    <3>2. LinkStamps(n.current)  BY DEF CycleInv
    <3> HIDE DEF ins
    <3> QED BY <2>14, <3>1, <3>2 DEF LinkStamps
  <2>19. ReceiverStamps(m.current)
    <3>1. \A y \in Router \cup Sink : \A c \in Range(In[y]) : c \in ins => y = r
      BY <2>1, Ends, Kinds
    <3>2. ReceiverStamps(n.current)  BY DEF CycleInv
    <3> HIDE DEF ins
    <3> QED BY <1>2, <2>14, <3>1, <3>2 DEF ReceiverStamps
  <2>20. ReturnsKept(m, m.current)
    <3> SUFFICES ASSUME NEW q \in Router, NEW c \in Range(In[q]), NEW vc \in VC,
                        Rev(c, vc) \in m.current
                 PROVE  rc[c][vc] = IF n.cycle = 0 THEN Depth[c][vc] ELSE n.input_credit_to_send[c][vc]
      BY <2>10 DEF ReturnsKept
    <3>1. CASE c \in ins  BY <2>8, <3>1
    <3>2. CASE c \notin ins
      <4>1. Rev(c, vc) \in n.current /\ c \in Connection  BY <2>14, <3>2, Ports, Kinds
      <4>2. rc[c] = n.reverse_channels[c]  BY <2>8, <3>2, <4>1
      <4> QED BY <4>1, <4>2 DEF CycleInv, ReturnsKept
    <3> QED BY <3>1, <3>2
  <2>21. QueuedByVC(m)  BY <2>10 DEF QueuedByVC, CycleInv
  <2>22. ASSUME NEW x \in Source \cup Router, NEW l \in Link,
                NEW y \in Router \cup Sink, NEW vc \in VC, IsPath(x, l, y)
         PROVE  Count(m, m.current, x, l, y, vc)
                = IF m.cycle = 0 /\ Rev(Out[l][1], vc) \notin m.current THEN 0
                  ELSE Depth[Out[l][1]][vc]
    <3> DEFINE a == In[l][1]
               b == Out[l][1]
    <3>1. a \in Connection /\ b \in Connection /\ l \in Component /\ l # r
          /\ a \in Range(In[l]) /\ b \in Range(Out[l])
      BY Ports, Kinds
    <3>2. a \notin ins /\ b \notin outs /\ (x = r <=> a \in outs) /\ (y = r <=> b \in ins)
      BY <2>1, <2>22, <3>1, Ends, Kinds DEF IsPath
    <3>3. Count(n, n.current, x, l, y, vc)
          = IF n.cycle = 0 /\ Rev(b, vc) \notin n.current THEN 0 ELSE Depth[b][vc]
      BY <2>22 DEF CycleInv, Accounted
    <3> HIDE DEF a, b, ins, outs
    <3>4. AtSender(m, m.current, x, a, vc) = AtSender(n, n.current, x, a, vc)
      <4>1. m.reverse_channels[a] = n.reverse_channels[a] /\ m.credit[a][vc] = n.credit[a][vc]
        BY <2>8, <2>10, <3>1, <3>2
      <4>2. (Rev(a, vc) \in m.current <=> Rev(a, vc) \in n.current)
            /\ (TakenUp(m.current, x) <=> TakenUp(n.current, x))
        BY <2>14, <3>2 DEF TakenUp
      <4>3. m.credit_update[a][vc] = IF <<a, vc>> \in fresh THEN n.reverse_channels[a][vc]
                                     ELSE n.credit_update[a][vc]
        BY <2>3, <2>10, <3>1 DEF Receives, fresh
      <4>4. n.credit[a][vc] \in Nat /\ n.credit_update[a][vc] \in Nat
            /\ n.reverse_channels[a][vc] \in Nat
        BY <3>1 DEF Net
      <4>5. CASE x = r
        <5>1. TakenUp(n.current, x)  BY <2>15, <4>5, Kinds DEF TakenUp
        <5>2. <<a, vc>> \in fresh <=> Rev(a, vc) \in n.current /\ Update(a, vc) \notin n.current
          BY <2>12, <3>2, <4>5
        <5>3. Update(a, vc) \in m.current <=> Update(a, vc) \in n.current \/ Rev(a, vc) \in n.current
          BY <2>14, <3>2, <4>5
        <5> QED BY <4>1, <4>2, <4>3, <4>4, <5>1, <5>2, <5>3 DEF AtSender
      <4>6. CASE x # r
        <5>1. <<a, vc>> \notin fresh  BY <2>12, <3>2, <4>6
        <5>2. Update(a, vc) \in m.current <=> Update(a, vc) \in n.current
          BY <2>14, <3>2, <4>6
        <5> QED BY <4>1, <4>2, <4>3, <5>1, <5>2 DEF AtSender
      <4> QED BY <4>5, <4>6
    <3>5. CASE y # r \/ Rev(b, vc) \in n.current
      <4>1. Rev(b, vc) \in m.current <=> Rev(b, vc) \in n.current  BY <2>14, <3>2, <3>5
      <4>2. m.reverse_channels[b][vc] = n.reverse_channels[b][vc]
        <5>1. CASE b \notin ins
          BY <2>8, <2>10, <3>1, <5>1
        <5>2. CASE b \in ins
          <6>1. Rev(b, vc) \in n.current  BY <3>2, <3>5, <5>2
          <6>2. n.reverse_channels[b][vc]
                = IF n.cycle = 0 THEN Depth[b][vc] ELSE n.input_credit_to_send[b][vc]
            BY <5>2, <6>1 DEF CycleInv, ReturnsKept, ins
          <6> QED BY <2>8, <2>10, <5>2, <6>2
        <5> QED BY <5>1, <5>2
      <4>3. OnLink(m, m.current, l, vc) = OnLink(n, n.current, l, vc)
        BY <2>10, <2>14, <4>1, <4>2 DEF OnLink, b
      <4>4. AtReceiver(m, m.current, y, b, vc) = AtReceiver(n, n.current, y, b, vc)
        BY <2>10, <2>14, <4>1 DEF AtReceiver
      <4>5. Count(m, m.current, x, l, y, vc) = Count(n, n.current, x, l, y, vc)
        BY <3>4, <4>3, <4>4 DEF Count, a, b
      <4> QED BY <2>10, <3>3, <4>1, <4>5 DEF b
    <3>6. CASE y = r /\ Rev(b, vc) \notin n.current
      <4> DEFINE f == n.input_credit_to_send[b][vc]
                 returned == IF n.cycle = 0 THEN Depth[b][vc] ELSE f
      <4>1. b \in ins /\ ForwardDone(y) \in n.current /\ ForwardDone(y) \in m.current
        BY <1>2, <2>14, <3>2, <3>6
      <4>2. Rev(b, vc) \in m.current /\ Rev(b, vc) \notin n.current
            /\ Pushed(l, vc) \notin n.current /\ Pushed(l, vc) \notin m.current
        BY <2>14, <3>6, <4>1 DEF CycleInv, LinkStamps, b
      <4>3. f \in Nat /\ returned \in Nat /\ Depth[b][vc] \in Nat
        <5>1. f \in 0..1 /\ Depth[b][vc] \in Nat  BY <3>1, NocAssumption DEF Net
        <5> QED BY <5>1
      <4>4. OnLink(m, m.current, l, vc) = OnLink(n, n.current, l, vc) + returned
        <5> DEFINE flits == FlitsOn(n.forward_data_stages[l], vc)
                   sum   == SumOf(n.reverse_credit_stages[l][vc])
                   here  == IF Fwd(a) \in n.current /\ ForwardDone(l) \notin n.current
                            THEN FlitOf(n.forward_channels[a], vc) ELSE 0
        <5>1. flits \in Nat /\ sum \in Nat  BY CountTypes
        <5>2. here \in Nat  BY FlitOfType
        <5>3. m.reverse_channels[b][vc] = returned  BY <2>8, <2>10, <4>1
        <5>4. OnLink(n, n.current, l, vc) = sum + 0 + flits + here
          BY <4>2 DEF OnLink, a, b
        <5>5. (Fwd(a) \in m.current <=> Fwd(a) \in n.current)
              /\ (ForwardDone(l) \in m.current <=> ForwardDone(l) \in n.current)
          BY <2>14
        <5> HIDE DEF returned
        <5>6. OnLink(m, m.current, l, vc) = sum + returned + flits + here
          BY <2>10, <4>2, <5>3, <5>5 DEF OnLink, a, b
        <5> HIDE DEF flits, sum, here
        <5> QED BY <4>3, <5>1, <5>2, <5>4, <5>6
      <4>5. AtReceiver(m, m.current, y, b, vc) + f = AtReceiver(n, n.current, y, b, vc)
        <5>1. Len(n.input_buffers[b][vc]) \in Nat
          <6>1. n.input_buffers[b][vc] \in Seq(Flit)  BY <3>1 DEF Net
          <6> QED BY <6>1
        <5>2. AtReceiver(n, n.current, y, b, vc) = Len(n.input_buffers[b][vc]) + 0 + f
          BY <4>1, <4>2 DEF AtReceiver
        <5>3. AtReceiver(m, m.current, y, b, vc) = Len(n.input_buffers[b][vc]) + 0 + 0
          BY <2>10, <4>1, <4>2 DEF AtReceiver
        <5> HIDE DEF f
        <5> QED BY <4>3, <5>1, <5>2, <5>3
      <4>6. AtSender(n, n.current, x, a, vc) \in Nat
            /\ OnLink(n, n.current, l, vc) \in Nat
            /\ AtReceiver(n, n.current, y, b, vc) \in Nat /\ AtReceiver(m, m.current, y, b, vc) \in Nat
        BY <2>9, <3>1, CountTypes
      <4>7. Count(m, m.current, x, l, y, vc)
            = AtSender(n, n.current, x, a, vc) + (OnLink(n, n.current, l, vc) + returned)
              + AtReceiver(m, m.current, y, b, vc)
        <5> HIDE DEF returned
        <5> QED BY <3>4, <4>4 DEF Count, a, b
      <4>8. Count(n, n.current, x, l, y, vc)
            = AtSender(n, n.current, x, a, vc) + OnLink(n, n.current, l, vc)
              + AtReceiver(n, n.current, y, b, vc)
        BY DEF Count, a, b
      <4>9. n.cycle = 0 => returned = Depth[b][vc]  OBVIOUS
      <4>10. n.cycle # 0 => returned = f  OBVIOUS
      <4> HIDE DEF returned, f
      <4>11. Count(m, m.current, x, l, y, vc) = Depth[b][vc]
        <5>1. CASE n.cycle = 0
          <6>1. /\ AtSender(n, n.current, x, a, vc) = 0 /\ OnLink(n, n.current, l, vc) = 0
                /\ AtReceiver(n, n.current, y, b, vc) = 0
            BY <3>3, <4>2, <4>6, <4>8, <5>1
          <6>2. AtReceiver(m, m.current, y, b, vc) = 0  BY <4>3, <4>5, <4>6, <6>1
          <6> QED BY <4>3, <4>7, <4>9, <5>1, <6>1, <6>2
        <5>2. CASE n.cycle # 0
          BY <3>3, <4>2, <4>3, <4>5, <4>6, <4>7, <4>8, <4>10, <5>2
        <5> QED BY <5>1, <5>2
      <4> QED BY <4>2, <4>11 DEF b
    <3> QED BY <3>5, <3>6
  <2>23. Accounted(m, m.current)  BY <2>22 DEF Accounted
  <2>24. m.cycle # -1  BY <2>10 DEF CycleInv
  <2> QED BY <2>9, <2>17, <2>18, <2>19, <2>20, <2>21, <2>23, <2>24 DEF CycleInv
<1> QED BY <1>1, <1>2

-----------------------------------------------------------------------------
(***************************************************************************)
(* Ticks and cycles.                                                       *)
(***************************************************************************)

\* The forward propagation of a component keeps the invariant, and a source
\* is done after it.
LEMMA TickForwardOK ==
  ASSUME NEW n \in Net, CycleInv(n), NEW x \in Component, NEW m, m = TickForward(n, x)
  PROVE  m \in Net /\ CycleInv(m) /\ (x \in Source => ForwardDone(x) \in m.current)
<1>1. CASE ForwardDone(x) \in n.current
  <2>1. m = n  BY <1>1 DEF TickForward
  <2> QED BY <1>1, <2>1
<1>2. CASE ForwardDone(x) \notin n.current
  <2>1. m = TryForward(n, x)  BY <1>2 DEF TickForward
  <2>2. CASE x \in Source
    <3>1. m = SrcForward(n, x)  BY <2>1, <2>2, Kinds DEF TryForward
    <3>2. m \in Net /\ CycleInv(m)  BY <1>2, <2>2, <3>1, SrcForwardOK
    <3>3. QueuedByVC(n)  BY DEF CycleInv
    <3>4. PICK flit, have : SourceSends(n, m, x, flit, have)
      BY <2>2, <3>1, <3>3, SrcForwardEffect
    <3>5. ForwardDone(x) \in m.current  BY <3>4 DEF SourceSends
    <3> QED BY <3>2, <3>5
  <2>3. CASE x \in Link
    <3>1. m = LinkForward(n, x) /\ x \notin Source  BY <2>1, <2>3, Kinds DEF TryForward
    <3> QED BY <1>2, <2>3, <3>1, LinkForwardOK
  <2>4. CASE x \in Router
    <3>1. m = RouterForward(n, x) /\ x \notin Source  BY <2>1, <2>4, Kinds DEF TryForward
    <3> QED BY <1>2, <2>4, <3>1, RouterForwardOK
  <2>5. CASE x \in Sink
    <3>1. m = SinkForward(n, x) /\ x \notin Source  BY <2>1, <2>5, Kinds DEF TryForward
    <3> QED BY <1>2, <2>5, <3>1, SinkForwardOK
  <2> QED BY <2>2, <2>3, <2>4, <2>5 DEF Component
<1> QED BY <1>1, <1>2

\* The reverse propagation of a component keeps the invariant.
LEMMA TickReverseOK ==
  ASSUME NEW n \in Net, CycleInv(n), NEW x \in Component,
         x \in Source => ForwardDone(x) \in n.current, NEW m, m = TickReverse(n, x)
  PROVE  m \in Net /\ CycleInv(m)
<1>1. CASE ReverseDone(x) \in n.current
  <2>1. m = n  BY <1>1 DEF TickReverse
  <2> QED BY <2>1
<1>2. CASE ReverseDone(x) \notin n.current
  <2>1. m = TryReverse(n, x)  BY <1>2 DEF TickReverse
  <2>2. CASE x \in Source
    <3>1. m = SrcReverse(n, x)  BY <2>1, <2>2, Kinds DEF TryReverse
    <3> QED BY <2>2, <3>1, SrcReverseOK
  <2>3. CASE x \in Link
    <3>1. m = LinkReverse(n, x)  BY <2>1, <2>3, Kinds DEF TryReverse
    <3> QED BY <1>2, <2>3, <3>1, LinkReverseOK
  <2>4. CASE x \in Router
    <3>1. m = RouterReverse(n, x)  BY <2>1, <2>4, Kinds DEF TryReverse
    <3> QED BY <2>4, <3>1, RouterReverseOK
  <2>5. CASE x \in Sink
    <3>1. m = SinkReverse(n, x)  BY <2>1, <2>5, Kinds DEF TryReverse
    <3> QED BY <2>5, <3>1, SinkReverseOK
  <2> QED BY <2>2, <2>3, <2>4, <2>5 DEF Component
<1> QED BY <1>1, <1>2

\* The states a cycle goes through.
InCycle == {n \in Net : CycleInv(n)}

\* The tick of a component stays among them.
LEMMA TickComponentOK ==
  ASSUME NEW n \in InCycle, NEW x \in Component
  PROVE  TickComponent(n, x) \in InCycle
<1>1. PICK k : k = TickForward(n, x)  OBVIOUS
<1>2. k \in Net /\ CycleInv(k) /\ (x \in Source => ForwardDone(x) \in k.current)
  BY <1>1, TickForwardOK DEF InCycle
<1>3. PICK m : m = TickReverse(k, x)  OBVIOUS
<1>4. m \in Net /\ CycleInv(m)  BY <1>2, <1>3, TickReverseOK
<1>5. TickComponent(n, x) = m  BY <1>1, <1>3, ApplyIs, Zenon DEF TickComponent
<1> QED BY <1>4, <1>5 DEF InCycle

\* A tick stays among them, in whatever order it visits the components.
LEMMA TickOK ==
  ASSUME NEW n \in InCycle, NEW order \in Seq(Component)
  PROVE  Tick(n, order) \in InCycle
<1> DEFINE b == Len(order)
           S == [k \in 0..b |-> InCycle]
           step == [k \in 1..b |-> [p \in InCycle |-> TickComponent(p, order[k])]]
           F(f) == [k \in 0..b |-> IF k = 0 THEN n ELSE Apply(TickComponent, f[k - 1], order[k])]
<1>1. b \in Nat /\ \A k \in 1..b : order[k] \in Component  OBVIOUS
<1>2. CASE Converged(n)  BY <1>2 DEF Tick
<1>3. CASE ~Converged(n)
  <2>1. Tick(n, order) = (CHOOSE f : f = F(f))[b]  BY <1>3, Zenon DEF Tick, Fold
  <2> HIDE DEF b
  <2>2. \A k \in 1..b : k - 1 \in 0..b /\ k \in 0..b  BY <1>1
  <2>3. \A k \in 0..b : S[k] = InCycle  OBVIOUS
  <2>4. \A k \in 1..b, p \in InCycle : TickComponent(p, order[k]) \in InCycle
    BY <1>1, TickComponentOK
  <2> HIDE DEF S
  <2>5. Steps(step, b, S)  BY <2>2, <2>3, <2>4 DEF Steps
  <2>6. \A k \in 1..b, p \in InCycle : step[k][p] = TickComponent(p, order[k])  OBVIOUS
  <2> HIDE DEF step
  <2>7. 0 \in 0..b /\ n \in S[0]  BY <1>1, <2>3
  <2>8. PICK g : Follows(g, b, S, n, step)  BY <1>1, <2>5, <2>7, Recursion
  <2>9. g = F(g)
    <3>1. \A k \in 1..b : g[k] = TickComponent(g[k - 1], order[k])
      BY <2>2, <2>3, <2>6, <2>8 DEF Follows
    <3>2. \A k \in 1..b : g[k] = Apply(TickComponent, g[k - 1], order[k])
      BY <3>1, ApplyIs, Zenon
    <3>3. \A k \in 0..b : k = 0 \/ k \in 1..b  BY <1>1
    <3>4. g[0] = n  BY <2>8 DEF Follows
    <3>5. \A k \in 0..b : g[k] = IF k = 0 THEN n ELSE Apply(TickComponent, g[k - 1], order[k])
      BY <3>2, <3>3, <3>4, Zenon
    <3>6. g = [k \in 0..b |-> g[k]]  BY <2>8 DEF Follows
    <3> QED BY <3>5, <3>6
  <2> DEFINE h == CHOOSE f : f = F(f)
  <2>10. h = F(h)
    <3> HIDE DEF F
    <3> QED BY <2>9, Zenon
  <2>11. Tick(n, order) = h[b]  BY <2>1
  <2> HIDE DEF h
  <2>12. \A k \in 0..b : h[k] = IF k = 0 THEN n ELSE TickComponent(h[k - 1], order[k])
    BY <2>10, ApplyIs
  <2> DEFINE T == {k \in 0..b : h[k] \in InCycle}
  <2>13. 0 \in T  BY <2>7, <2>12
  <2>14. ASSUME NEW k \in 0..b, k < b, k \in T PROVE k + 1 \in T
    <3>1. k + 1 \in 1..b /\ k + 1 \in 0..b /\ (k + 1) - 1 = k /\ k + 1 # 0  BY <1>1, <2>14
    <3>2. h[k + 1] = TickComponent(h[k], order[k + 1])  BY <2>12, <3>1
    <3>3. h[k] \in InCycle  BY <2>14
    <3>4. h[k + 1] \in InCycle  BY <2>4, <3>1, <3>2, <3>3
    <3> QED BY <3>1, <3>4
  <2> HIDE DEF T
  <2>15. \A k \in 0..b : k \in T  BY <1>1, <2>13, <2>14, UpTo
  <2>16. b \in T  BY <1>1, <2>15
  <2> QED BY <2>11, <2>16 DEF T
<1> QED BY <1>2, <1>3

\* So do the ticks of a cycle.
LEMMA TicksOfCycleOK ==
  ASSUME NEW n \in InCycle, NEW order \in Seq(Component)
  PROVE  TicksOfCycle(n, order) \in InCycle
<1> DEFINE xs == [i \in 1..(MaxTicks - 1) |-> order]
           b == Len(xs)
           S == [k \in 0..b |-> InCycle]
           step == [k \in 1..b |-> [p \in InCycle |-> Tick(p, xs[k])]]
           F(f) == [k \in 0..b |-> IF k = 0 THEN n ELSE Apply(Tick, f[k - 1], xs[k])]
<1>1. b \in Nat /\ \A k \in 1..b : xs[k] \in Seq(Component)
  <2>1. MaxTicks \in Nat  BY NocAssumption
  <2>2. CASE MaxTicks = 0
    <3>1. 1..(MaxTicks - 1) = {}  BY <2>2
    <3>2. xs = <<>>  BY <3>1
    <3> HIDE DEF xs
    <3> QED BY <3>2
  <2>3. CASE MaxTicks # 0
    <3>1. MaxTicks - 1 \in Nat  BY <2>1, <2>3
    <3>2. b = MaxTicks - 1  BY <3>1
    <3> QED BY <3>1, <3>2
  <2> QED BY <2>2, <2>3
<1> HIDE DEF xs
<1>2. TicksOfCycle(n, order) = (CHOOSE f : f = F(f))[b]
  BY Zenon DEF TicksOfCycle, Fold, xs
<1> HIDE DEF b
<1>3. \A k \in 1..b : k - 1 \in 0..b /\ k \in 0..b  BY <1>1
<1>4. \A k \in 0..b : S[k] = InCycle  OBVIOUS
<1>5. \A k \in 1..b, p \in InCycle : Tick(p, xs[k]) \in InCycle  BY <1>1, TickOK
<1> HIDE DEF S
<1>6. Steps(step, b, S)  BY <1>3, <1>4, <1>5 DEF Steps
<1>7. \A k \in 1..b, p \in InCycle : step[k][p] = Tick(p, xs[k])  OBVIOUS
<1> HIDE DEF step
<1>8. 0 \in 0..b /\ n \in S[0]  BY <1>1, <1>4
<1>9. PICK g : Follows(g, b, S, n, step)  BY <1>1, <1>6, <1>8, Recursion
<1>10. g = F(g)
  <2>1. \A k \in 1..b : g[k] = Tick(g[k - 1], xs[k])  BY <1>3, <1>4, <1>7, <1>9 DEF Follows
  <2>2. \A k \in 1..b : g[k] = Apply(Tick, g[k - 1], xs[k])  BY <2>1, ApplyIs, Zenon
  <2>3. \A k \in 0..b : k = 0 \/ k \in 1..b  BY <1>1
  <2>4. g[0] = n  BY <1>9 DEF Follows
  <2>5. \A k \in 0..b : g[k] = IF k = 0 THEN n ELSE Apply(Tick, g[k - 1], xs[k])
    BY <2>2, <2>3, <2>4, Zenon
  <2>6. g = [k \in 0..b |-> g[k]]  BY <1>9 DEF Follows
  <2> QED BY <2>5, <2>6
<1> DEFINE h == CHOOSE f : f = F(f)
<1>11. h = F(h)
  <2> HIDE DEF F
  <2> QED BY <1>10, Zenon
<1>12. TicksOfCycle(n, order) = h[b]  BY <1>2
<1> HIDE DEF h
<1>13. \A k \in 0..b : h[k] = IF k = 0 THEN n ELSE Tick(h[k - 1], xs[k])
  BY <1>11, ApplyIs
<1> DEFINE T == {k \in 0..b : h[k] \in InCycle}
<1>14. 0 \in T  BY <1>8, <1>13
<1>15. ASSUME NEW k \in 0..b, k < b, k \in T PROVE k + 1 \in T
  <2>1. k + 1 \in 1..b /\ k + 1 \in 0..b /\ (k + 1) - 1 = k /\ k + 1 # 0  BY <1>1, <1>15
  <2>2. h[k + 1] = Tick(h[k], xs[k + 1])  BY <1>13, <2>1
  <2>3. h[k] \in InCycle  BY <1>15
  <2>4. h[k + 1] \in InCycle  BY <1>5, <2>1, <2>2, <2>3
  <2> QED BY <2>1, <2>4
<1> HIDE DEF T
<1>16. \A k \in 0..b : k \in T  BY <1>1, <1>14, <1>15, UpTo
<1>17. b \in T  BY <1>1, <1>16
<1> QED BY <1>12, <1>17 DEF T

(* The accounts between cycles. *)
Settled(n) ==
  \A x \in Source \cup Router, l \in Link, y \in Router \cup Sink, vc \in VC :
    IsPath(x, l, y) =>
      Count(n, {}, x, l, y, vc) = IF n.cycle = -1 THEN 0 ELSE Depth[Out[l][1]][vc]

\* Between cycles there are no stamps: what is counted.
LEMMA CountBetween ==
  ASSUME NEW n, NEW x, NEW l, NEW y, NEW vc
  PROVE  Count(n, {}, x, l, y, vc)
         = (n.credit[In[l][1]][vc] + n.credit_update[In[l][1]][vc] + 0)
           + (SumOf(n.reverse_credit_stages[l][vc]) + 0
              + FlitsOn(n.forward_data_stages[l], vc) + 0)
           + (Len(n.input_buffers[Out[l][1]][vc]) + 0 + 0)
<1>1. AtSender(n, {}, x, In[l][1], vc)
      = n.credit[In[l][1]][vc] + n.credit_update[In[l][1]][vc] + 0
  BY DEF AtSender, TakenUp
<1>2. OnLink(n, {}, l, vc)
      = SumOf(n.reverse_credit_stages[l][vc]) + 0 + FlitsOn(n.forward_data_stages[l], vc) + 0
  BY DEF OnLink
<1>3. AtReceiver(n, {}, y, Out[l][1], vc) = Len(n.input_buffers[Out[l][1]][vc]) + 0 + 0
  BY DEF AtReceiver
<1> QED BY <1>1, <1>2, <1>3 DEF Count

\* It does not depend on the cycle, on stamps or on what is queued.
LEMMA CountSame ==
  ASSUME NEW n, NEW m, m.credit = n.credit, m.credit_update = n.credit_update,
         m.reverse_credit_stages = n.reverse_credit_stages,
         m.forward_data_stages = n.forward_data_stages, m.input_buffers = n.input_buffers
  PROVE  \A x, l, y, vc : Count(m, {}, x, l, y, vc) = Count(n, {}, x, l, y, vc)
BY CountBetween

\* A cycle starts with the accounts settled.
LEMMA NewCycleOK ==
  ASSUME NEW n \in Net, QueuedByVC(n), Settled(n)
  PROVE  NewCycle(n) \in InCycle
<1> DEFINE cycle == IF n.cycle < 2 THEN n.cycle + 1 ELSE 1
<1>1. PICK m : m = NewCycle(n)  OBVIOUS
<1>2. m = [n EXCEPT !.cycle = cycle, !.current = {}]  BY <1>1 DEF NewCycle
<1>3. n.cycle \in -1..2  BY DEF Net
<1>4. cycle \in -1..2 /\ cycle # -1 /\ (cycle = 0 <=> n.cycle = -1)  BY <1>3
<1> HIDE DEF cycle
<1>5. m \in Net
  <2>1. m = [f \in NetFields |-> m[f]]  BY <1>2, NetIsRecord
  <2>2. {} \subseteq Stamp  OBVIOUS
  <2>3. FieldTypes(m)  BY <1>2, <1>4, <2>2 DEF FieldTypes, Net
  <2> QED BY <2>1, <2>3, RecordIsNet
<1>6. /\ m.reverse_channels = n.reverse_channels
      /\ m.forward_channels = n.forward_channels
      /\ m.forward_data_stages = n.forward_data_stages
      /\ m.reverse_credit_stages = n.reverse_credit_stages
      /\ m.credit = n.credit
      /\ m.data_to_send = n.data_to_send
      /\ m.credit_update = n.credit_update
      /\ m.input_buffers = n.input_buffers
      /\ m.input_credit_to_send = n.input_credit_to_send
      /\ m.cycle = cycle
      /\ m.current = {}
  BY <1>2 DEF Net
<1>7. SenderStamps(m.current) /\ LinkStamps(m.current) /\ ReceiverStamps(m.current)
  BY <1>6 DEF SenderStamps, LinkStamps, ReceiverStamps
<1>8. ReturnsKept(m, m.current) /\ QueuedByVC(m)
  BY <1>6 DEF ReturnsKept, QueuedByVC
<1>9. Accounted(m, m.current)
  <2> SUFFICES ASSUME NEW x \in Source \cup Router, NEW l \in Link,
                      NEW y \in Router \cup Sink, NEW vc \in VC, IsPath(x, l, y)
               PROVE  Count(m, {}, x, l, y, vc)
                      = IF cycle = 0 /\ Rev(Out[l][1], vc) \notin {} THEN 0 ELSE Depth[Out[l][1]][vc]
    BY <1>6 DEF Accounted
  <2>1. Count(m, {}, x, l, y, vc) = Count(n, {}, x, l, y, vc)
    BY <1>6, CountSame
  <2>2. Count(n, {}, x, l, y, vc) = IF n.cycle = -1 THEN 0 ELSE Depth[Out[l][1]][vc]
    BY DEF Settled
  <2> QED BY <1>4, <2>1, <2>2
<1>10. CycleInv(m)  BY <1>4, <1>6, <1>7, <1>8, <1>9 DEF CycleInv
<1> QED BY <1>1, <1>5, <1>10 DEF InCycle

EndOfCycle(n) == [n EXCEPT !.current = {}]

\* When all components have propagated, nothing is left on the channels and
\* the accounts are settled.
LEMMA ConvergedOK ==
  ASSUME NEW n \in InCycle, Converged(n), NEW m, m = EndOfCycle(n)
  PROVE  m \in Net /\ QueuedByVC(m) /\ Settled(m) /\ m.current = {}
<1>1. n \in Net /\ CycleInv(n)  BY DEF InCycle
<1>2. m \in Net
  <2>1. m = [f \in NetFields |-> m[f]]  BY <1>1, NetIsRecord DEF EndOfCycle
  <2>2. {} \subseteq Stamp  OBVIOUS
  <2>3. FieldTypes(m)  BY <1>1, <2>2 DEF FieldTypes, Net, EndOfCycle
  <2> QED BY <2>1, <2>3, RecordIsNet
<1>3. /\ m.forward_data_stages = n.forward_data_stages
      /\ m.reverse_credit_stages = n.reverse_credit_stages
      /\ m.credit = n.credit
      /\ m.data_to_send = n.data_to_send
      /\ m.credit_update = n.credit_update
      /\ m.input_buffers = n.input_buffers
      /\ m.cycle = n.cycle
      /\ m.current = {}
  BY <1>1 DEF Net, EndOfCycle
<1>4. QueuedByVC(m)  BY <1>1, <1>3 DEF QueuedByVC, CycleInv
<1>5. Settled(m)
  <2> SUFFICES ASSUME NEW x \in Source \cup Router, NEW l \in Link,
                      NEW y \in Router \cup Sink, NEW vc \in VC, IsPath(x, l, y)
               PROVE  Count(m, {}, x, l, y, vc) = Depth[Out[l][1]][vc]
    BY <1>1, <1>3 DEF Settled, CycleInv
  <2> DEFINE a == In[l][1]
             b == Out[l][1]
             cur == n.current
  <2>1. x \in Component /\ l \in Component /\ y \in Component /\ a \in Range(Out[x])
    BY Kinds DEF IsPath
  <2>2. ForwardDone(l) \in cur /\ ForwardDone(y) \in cur /\ ReverseDone(x) \in cur
        /\ ReverseDone(l) \in cur
    BY <2>1 DEF Converged
  <2>3. Update(a, vc) \in cur  BY <1>1, <2>1, <2>2 DEF CycleInv, SenderStamps
  <2>4. Pushed(l, vc) \in cur /\ Rev(b, vc) \in cur
    BY <1>1, <2>2 DEF CycleInv, LinkStamps
  <2>5. Count(n, cur, x, l, y, vc) = Depth[b][vc]
    BY <1>1, <2>4 DEF CycleInv, Accounted
  <2>10. Count(n, {}, x, l, y, vc)
         = (n.credit[a][vc] + n.credit_update[a][vc] + 0)
           + (SumOf(n.reverse_credit_stages[l][vc]) + 0
              + FlitsOn(n.forward_data_stages[l], vc) + 0)
           + (Len(n.input_buffers[b][vc]) + 0 + 0)
    BY CountBetween
  <2>11. Count(m, {}, x, l, y, vc) = Count(n, {}, x, l, y, vc)  BY <1>3, CountSame
  <2> HIDE DEF a, b, cur
  <2>6. AtSender(n, cur, x, a, vc) = n.credit[a][vc] + n.credit_update[a][vc] + 0
    BY <2>3 DEF AtSender
  <2>7. OnLink(n, cur, l, vc)
        = SumOf(n.reverse_credit_stages[l][vc]) + 0 + FlitsOn(n.forward_data_stages[l], vc) + 0
    BY <2>2, <2>4 DEF OnLink, b
  <2>8. AtReceiver(n, cur, y, b, vc) = Len(n.input_buffers[b][vc]) + 0 + 0
    BY <2>2, <2>4 DEF AtReceiver
  <2>9. Count(n, cur, x, l, y, vc) = Count(m, {}, x, l, y, vc)
    <3>2. Count(n, cur, x, l, y, vc)
          = AtSender(n, cur, x, a, vc) + OnLink(n, cur, l, vc) + AtReceiver(n, cur, y, b, vc)
      BY DEF Count, a, b
    <3> QED BY <2>6, <2>7, <2>8, <2>10, <2>11, <3>2
  <2> QED BY <2>5, <2>9 DEF b
<1> QED BY <1>2, <1>3, <1>4, <1>5

-----------------------------------------------------------------------------
(***************************************************************************)
(* The specification.                                                      *)
(***************************************************************************)

NocInv ==
  /\ net \in Net /\ injected \in [Flow -> Nat] /\ status \in {"ok", "unable to converge"}
  /\ status = "ok" => net.current = {} /\ QueuedByVC(net) /\ Settled(net)

\* At first there is nothing to account for.
LEMMA InitOK == Init => NocInv
<1> SUFFICES ASSUME Init PROVE NocInv  OBVIOUS
<1>1. net \in Net
  <2>1. <<>> \in Seq(FlitOrBubble) /\ <<>> \in Seq(Nat) /\ <<>> \in Seq(Flit)  OBVIOUS
  <2>2. Bubble \in FlitOrBubble  BY FlitsAreFlits
  <2>3. 0 \in Nat /\ 0 \in 0..1 /\ -1 \in -1..2  OBVIOUS
  <2> QED BY <2>1, <2>2, <2>3 DEF Init, Net
<1>2. injected \in [Flow -> Nat] /\ status = "ok" /\ net.current = {} /\ net.cycle = -1
  BY DEF Init
<1>3. QueuedByVC(net)  BY DEF Init, QueuedByVC
<1>4. Settled(net)
  <2> SUFFICES ASSUME NEW x \in Source \cup Router, NEW l \in Link,
                      NEW y \in Router \cup Sink, NEW vc \in VC, IsPath(x, l, y)
               PROVE  Count(net, {}, x, l, y, vc) = 0
    BY <1>2 DEF Settled
  <2> DEFINE a == In[l][1]
             b == Out[l][1]
  <2>1. a \in Connection /\ b \in Connection  BY Ports
  <2>2. net.credit[a][vc] = 0 /\ net.credit_update[a][vc] = 0
        /\ net.reverse_credit_stages[l][vc] = <<>> /\ net.forward_data_stages[l] = <<>>
        /\ net.input_buffers[b][vc] = <<>>
    BY <2>1 DEF Init
  <2>3. SumOf(<<>>) = 0 /\ FlitsOn(<<>>, vc) = 0 /\ Len(<<>>) = 0
    BY SumOfEmpty, FlitsOnEmpty
  <2>4. Count(net, {}, x, l, y, vc)
        = (net.credit[a][vc] + net.credit_update[a][vc] + 0)
          + (SumOf(net.reverse_credit_stages[l][vc]) + 0
             + FlitsOn(net.forward_data_stages[l], vc) + 0)
          + (Len(net.input_buffers[b][vc]) + 0 + 0)
    BY CountBetween
  <2> HIDE DEF a, b
  <2> QED BY <2>2, <2>3, <2>4
<1> QED BY <1>1, <1>2, <1>3, <1>4 DEF NocInv

\* A flit given to a source keeps the invariant.
LEMMA InjectOK == NocInv /\ Inject => NocInv'
<1> SUFFICES ASSUME NocInv, Inject PROVE NocInv'  OBVIOUS
<1>1. PICK s \in Source, v \in VC, d \in Sink : SendFlitAtTime(s, v, d)  BY DEF Inject
<1>a. CASE UNCHANGED vars
  BY <1>a DEF NocInv, vars
<1> SUFFICES ASSUME ~UNCHANGED vars PROVE NocInv'  BY <1>a
<1> DEFINE f == [source |-> s, vc |-> v, dest |-> d]
           flit == [flow |-> f, seq |-> injected[f] + 1, vc |-> v]
           q == Append(net.data_to_send[s][v], flit)
           dts == [net.data_to_send EXCEPT ![s][v] = q]
<1>2. f \in Flow  BY DEF Flow
<1> HIDE DEF f
<1>3. injected[f] \in Nat /\ injected \in [Flow -> Nat]  BY <1>2 DEF NocInv
<1>4. flit \in Flit /\ flit.vc = v  BY <1>2, <1>3 DEF Flit
<1>5. net' = [net EXCEPT !.data_to_send = dts]
  BY <1>1 DEF SendFlitAtTime, f
<1>6. injected' \in [Flow -> Nat] /\ status' = status
  <2>1. injected' = [injected EXCEPT ![f] = @ + 1] /\ status' = status
    BY <1>1 DEF SendFlitAtTime, f
  <2>2. injected[f] + 1 \in Nat  BY <1>3
  <2>3. injected' = [injected EXCEPT ![f] = injected[f] + 1]  BY <2>1
  <2> QED BY <1>3, <2>1, <2>2, <2>3
<1> HIDE DEF flit
<1>7. net.data_to_send \in [Source -> [VC -> Seq(Flit)]] /\ net \in Net  BY DEF NocInv, Net
<1>8. q \in Seq(Flit)
  <2>1. net.data_to_send[s][v] \in Seq(Flit)  BY <1>7
  <2> QED BY <1>4, <2>1
<1>9. \A t \in Source, vc \in VC :
        dts[t][vc] = IF t = s /\ vc = v THEN q ELSE net.data_to_send[t][vc]
  <2> HIDE DEF q
  <2> QED BY <1>7
<1>10. dts \in [Source -> [VC -> Seq(Flit)]]
  <2> HIDE DEF q
  <2> QED BY <1>7, <1>8
<1> HIDE DEF dts
<1>11. net' \in Net
  <2>1. net' = [g \in NetFields |-> net'[g]]  BY <1>5, <1>7, NetIsRecord
  <2>2. FieldTypes(net')  BY <1>5, <1>7, <1>10 DEF FieldTypes, Net
  <2> QED BY <2>1, <2>2, RecordIsNet
<1>12. /\ net'.forward_data_stages = net.forward_data_stages
       /\ net'.reverse_credit_stages = net.reverse_credit_stages
       /\ net'.credit = net.credit
       /\ net'.credit_update = net.credit_update
       /\ net'.input_buffers = net.input_buffers
       /\ net'.cycle = net.cycle
       /\ net'.current = net.current
       /\ net'.data_to_send = dts
  BY <1>5, <1>7 DEF Net
<1>13. QueuedByVC(net) => QueuedByVC(net')
  <2> SUFFICES ASSUME QueuedByVC(net), NEW t \in Source, NEW vc \in VC,
                      NEW i \in DOMAIN dts[t][vc]
               PROVE  dts[t][vc][i].vc = vc
    BY <1>12 DEF QueuedByVC
  <2>1. CASE t = s /\ vc = v
    <3>1. dts[t][vc] = q  BY <1>9, <2>1
    <3>2. net.data_to_send[s][v] \in Seq(Flit)  BY <1>7
    <3>3. \/ i \in DOMAIN net.data_to_send[s][v] /\ q[i] = net.data_to_send[s][v][i]
          \/ q[i] = flit
      BY <1>4, <3>1, <3>2
    <3> QED BY <1>4, <2>1, <3>1, <3>3 DEF QueuedByVC
  <2>2. CASE ~(t = s /\ vc = v)
    <3>1. dts[t][vc] = net.data_to_send[t][vc]  BY <1>9, <2>2
    <3> QED BY <3>1 DEF QueuedByVC
  <2> QED BY <2>1, <2>2
<1>14. Settled(net) => Settled(net')
  <2> SUFFICES ASSUME NEW x, NEW l, NEW y, NEW vc
               PROVE  Count(net', {}, x, l, y, vc) = Count(net, {}, x, l, y, vc)
    BY <1>12 DEF Settled
  <2> QED BY <1>12, CountSame
<1>15. status' = "ok" => net'.current = {} /\ QueuedByVC(net') /\ Settled(net')
  BY <1>6, <1>12, <1>13, <1>14 DEF NocInv
<1> QED BY <1>6, <1>11, <1>15 DEF NocInv

\* A cycle keeps the invariant, whether it converges or not.
LEMMA RunCycleOK == NocInv /\ RunCycle => NocInv'
<1> SUFFICES ASSUME NocInv, RunCycle PROVE NocInv'  OBVIOUS
<1>1. NewCycle(net) \in InCycle  BY NewCycleOK DEF NocInv, RunCycle
<1>2. Order \in Seq(Component)  BY NocAssumption
<1>3. PICK end : /\ end = TicksOfCycle(NewCycle(net), Order)
                 /\ \/ /\ Converged(end)
                       /\ net' = [end EXCEPT !.current = {}]
                       /\ UNCHANGED status
                    \/ /\ ~Converged(end)
                       /\ net' = end
                       /\ status' = "unable to converge"
  BY DEF RunCycle
<1>4. end \in InCycle  BY <1>1, <1>2, <1>3, TicksOfCycleOK
<1>5. injected' = injected  BY DEF RunCycle
<1>6. CASE Converged(end) /\ net' = [end EXCEPT !.current = {}] /\ status' = status
  <2>1. PICK m : m = EndOfCycle(end)  OBVIOUS
  <2>2. m \in Net /\ QueuedByVC(m) /\ Settled(m) /\ m.current = {}
    BY <1>4, <1>6, <2>1, ConvergedOK
  <2>3. net' = m  BY <1>6, <2>1 DEF EndOfCycle
  <2> QED BY <1>5, <1>6, <2>2, <2>3 DEF NocInv
<1>7. CASE net' = end /\ status' = "unable to converge"
  BY <1>4, <1>5, <1>7 DEF NocInv, InCycle
<1> QED BY <1>3, <1>6, <1>7

\* The invariant holds.
LEMMA NocInvariant == Spec => []NocInv
<1>1. NocInv /\ [Next]_vars => NocInv'
  <2> SUFFICES ASSUME NocInv, [Next]_vars PROVE NocInv'  OBVIOUS
  <2>1. CASE Inject  BY <2>1, InjectOK
  <2>2. CASE RunCycle  BY <2>2, RunCycleOK
  <2>3. CASE UNCHANGED vars
    <3>1. net' = net /\ injected' = injected /\ status' = status  BY <2>3 DEF vars
    <3> QED BY <3>1 DEF NocInv
  <2> QED BY <2>1, <2>2, <2>3 DEF Next
<1> QED BY InitOK, <1>1, PTL DEF Spec

\* The simulator's state is of its types, in every network and with any
\* traffic: no credit counter of a source or a router goes below zero, and a
\* router returns at most one credit for a port and VC in a cycle.
THEOREM SimulatorTypes == Spec => []TypeOK
<1>1. NocInv => TypeOK
  <2> SUFFICES ASSUME NocInv PROVE TypeOK  OBVIOUS
  <2>1. FieldTypes(net)  BY NetIsRecord DEF NocInv
  <2> QED BY <2>1 DEF NocInv, TypeOK, FieldTypes
<1> QED BY NocInvariant, <1>1, PTL

\* Between cycles the credits of every link and VC are all accounted for, in
\* every network, whatever the pipeline stages, the routes, the traffic and
\* the order in which Tick visits the components.
THEOREM CreditsAreConserved == Spec => []CreditsConserved
<1>1. NocInv => CreditsConserved
  <2> SUFFICES ASSUME NocInv, status = "ok", net.cycle >= 0, NEW l \in Link, NEW vc \in VC
               PROVE  net.credit[In[l][1]][vc] + net.credit_update[In[l][1]][vc]
                      + SumOf(net.reverse_credit_stages[l][vc])
                      + FlitsOn(net.forward_data_stages[l], vc)
                      + Len(net.input_buffers[Out[l][1]][vc]) = Depth[Out[l][1]][vc]
    BY DEF CreditsConserved
  <2> DEFINE a == In[l][1]
             b == Out[l][1]
             sum == SumOf(net.reverse_credit_stages[l][vc])
             flits == FlitsOn(net.forward_data_stages[l], vc)
             len == Len(net.input_buffers[b][vc])
  <2>1. PICK x \in Source \cup Router : a \in Range(Out[x])  BY WiringAssumption
  <2>2. PICK y \in Router \cup Sink : b \in Range(In[y])  BY WiringAssumption
  <2>3. Count(net, {}, x, l, y, vc) = Depth[b][vc]
    <3>1. IsPath(x, l, y)  BY <2>1, <2>2 DEF IsPath
    <3>2. net.cycle # -1  OBVIOUS
    <3> QED BY <3>1, <3>2 DEF NocInv, Settled
  <2>4. net.credit[a][vc] \in Nat /\ net.credit_update[a][vc] \in Nat
    BY Ports DEF NocInv, Net
  <2>5. sum \in Nat /\ flits \in Nat  BY CountTypes DEF NocInv
  <2>6. len \in Nat
    <3>1. net.input_buffers[b][vc] \in Seq(Flit)  BY Ports DEF NocInv, Net
    <3> QED BY <3>1
  <2>7. Count(net, {}, x, l, y, vc)
        = (net.credit[a][vc] + net.credit_update[a][vc] + 0) + (sum + 0 + flits + 0)
          + (len + 0 + 0)
    BY CountBetween
  <2> HIDE DEF a, b, sum, flits, len
  <2>8. net.credit[a][vc] + net.credit_update[a][vc] + sum + flits + len = Depth[b][vc]
    BY <2>3, <2>4, <2>5, <2>6, <2>7
  <2> QED BY <2>8 DEF a, b, sum, flits, len
<1> QED BY NocInvariant, <1>1, PTL

(* Between cycles a sender's credits and the flits in the receiver's       *)
(* buffer do not exceed its depth.                                         *)
BuffersBounded ==
  status = "ok" /\ net.cycle >= 0 =>
    \A l \in Link, vc \in VC :
      net.credit[In[l][1]][vc] + Len(net.input_buffers[Out[l][1]][vc]) <= Depth[Out[l][1]][vc]

\* No input buffer of a router overflows, which nothing in its
\* TryForwardPropagation checks, and no sender believes in room that the
\* receiver does not have.
THEOREM NoBufferOverflows == Spec => []BuffersBounded
<1>1. TypeOK /\ CreditsConserved => BuffersBounded
  <2> SUFFICES ASSUME TypeOK, CreditsConserved, status = "ok", net.cycle >= 0,
                      NEW l \in Link, NEW vc \in VC
               PROVE  net.credit[In[l][1]][vc] + Len(net.input_buffers[Out[l][1]][vc])
                      <= Depth[Out[l][1]][vc]
    BY DEF BuffersBounded
  <2> DEFINE a == In[l][1]
             b == Out[l][1]
             sum == SumOf(net.reverse_credit_stages[l][vc])
             flits == FlitsOn(net.forward_data_stages[l], vc)
             len == Len(net.input_buffers[b][vc])
  <2>1. net.credit[a][vc] + net.credit_update[a][vc] + sum + flits + len = Depth[b][vc]
    BY DEF CreditsConserved
  <2>2. a \in Connection /\ b \in Connection  BY Ports
  <2>3. net.credit[a][vc] \in Nat /\ net.credit_update[a][vc] \in Nat  BY <2>2 DEF TypeOK
  <2>4. sum \in Nat
    <3>1. net.reverse_credit_stages[l][vc] \in Seq(Nat)  BY DEF TypeOK
    <3> QED BY <3>1, SumOfIs
  <2>5. flits \in Nat
    <3>1. net.forward_data_stages[l] \in Seq(FlitOrBubble)  BY DEF TypeOK
    <3> QED BY <3>1, FlitsAreFlits, FlitsOnAppend
  <2>6. len \in Nat
    <3>1. net.input_buffers[b][vc] \in Seq(Flit)  BY <2>2 DEF TypeOK
    <3> HIDE DEF b
    <3> QED BY <3>1
  <2> HIDE DEF a, b, sum, flits, len
  <2>7. net.credit[a][vc] + len <= Depth[b][vc]  BY <2>1, <2>3, <2>4, <2>5, <2>6
  <2> QED BY <2>7 DEF a, b, len
<1> QED BY SimulatorTypes, CreditsAreConserved, <1>1, PTL
=============================================================================
