---------------------------- MODULE NocSimulator ----------------------------
(***************************************************************************)
(* The cycle-accurate simulator of networks on chip                        *)
(* (noc/simulation/sim_objects): sources, links, input-buffered routers    *)
(* with virtual channels, and sinks, joined by connections.  Flits travel  *)
(* forward, credits travel backward; a sender spends a credit for every    *)
(* flit and gets it back when the receiver has made room.                  *)
(*                                                                         *)
(* A step is a call of RunCycle or of SendFlitAtTime.  RunCycle ticks all  *)
(* components, one after the other and time and again, until all have      *)
(* propagated what belongs to the cycle in both directions.  Within it,    *)
(* every TryForwardPropagation and TryReversePropagation maps a state of   *)
(* the simulator (n, a record) to the next.                                *)
(*                                                                         *)
(* Time stamps are only ever tested for being of the current cycle: the    *)
(* set n.current holds what is, and is emptied when cycle_ is incremented. *)
(***************************************************************************)
EXTENDS Integers, Sequences, FiniteSets, SequencesExt

CONSTANTS
  Source, Link, Router, Sink,   \* network components
  Connection,
  In, Out,        \* component -> its connections, in the order of port indices
  NumVC,          \* the most virtual channels a port has
  VCCount,        \* connection -> virtual channels of its ports
  ForwardStages, ReverseStages, \* link -> pipeline stages
  Depth,          \* connection, vc -> depth of the buffer at the far end
  Route(_, _, _), \* routing table: connection, vc, destination -> output
  Order,          \* the order in which Tick visits the components
  OtherOrders,    \* orders that should make no difference
  MaxTicks,       \* max_ticks of RunCycle
  MaxFlits        \* bound: flits the sources are given

VC == 0..(NumVC - 1)
Component == Source \cup Link \cup Router \cup Sink

ASSUME NocAssumption ==
  /\ NumVC \in Nat \ {0}
  /\ In \in [Component -> Seq(Connection)] /\ Out \in [Component -> Seq(Connection)]
  /\ ForwardStages \in [Link -> Nat] /\ ReverseStages \in [Link -> Nat]
  /\ VCCount \in [Connection -> 1..NumVC]
  /\ Depth \in [Connection -> [VC -> Nat]]
  /\ \A c \in Connection, vc \in VC : vc >= VCCount[c] => Depth[c][vc] = 0
  /\ \A o \in OtherOrders \cup {Order} :
       o \in Seq(Component) /\ Range(o) = Component /\ Len(o) = Cardinality(Component)
  /\ MaxTicks \in Nat /\ MaxFlits \in Nat

(* What the graph builder builds: a connection joins an output port to an  *)
(* input port, one of them a link's, and a link has one of each.  The      *)
(* ports along a link have the same VCs.  Every router has a route for     *)
(* every flit, to a VC that exists, or the program stops.                  *)
ASSUME WiringAssumption ==
  /\ Source \cap (Link \cup Router \cup Sink) = {}
  /\ Link \cap (Router \cup Sink) = {} /\ Router \cap Sink = {}
  /\ \A l \in Link : /\ Len(In[l]) = 1 /\ Len(Out[l]) = 1
                     /\ VCCount[In[l][1]] = VCCount[Out[l][1]]
  /\ \A s \in Source : In[s] = <<>> /\ Len(Out[s]) = 1
  /\ \A k \in Sink : Len(In[k]) = 1 /\ Out[k] = <<>>
  /\ \A x, y \in Component : x # y => /\ Range(In[x]) \cap Range(In[y]) = {}
                                     /\ Range(Out[x]) \cap Range(Out[y]) = {}
  /\ \A r \in Router : \A i, j \in DOMAIN In[r] : In[r][i] = In[r][j] => i = j
  /\ \A l \in Link : /\ \E x \in Source \cup Router : In[l][1] \in Range(Out[x])
                     /\ \E y \in Router \cup Sink : Out[l][1] \in Range(In[y])
  /\ \A r \in Router, vc \in VC, d \in Sink : \A c \in Range(In[r]) :
       /\ Route(c, vc, d) \in [c : Range(Out[r]), vc : VC]
       /\ vc < VCCount[c] => Route(c, vc, d).vc < VCCount[Route(c, vc, d).c]

Flow == [source : Source, vc : VC, dest : Sink]

(* vc is where the flit travels now, flow.vc where it was sent.            *)
Flit == [flow : Flow, seq : Nat \ {0}, vc : VC]
Bubble == [type |-> "kInvalid"]
IsFlit(x) == x # Bubble

VARIABLES
  net,       \* the simulator, see TypeOK
  injected,  \* flow -> number of flits given to SendFlitAtTime
  status     \* of the last RunCycle

vars == <<net, injected, status>>

(* What carries a time stamp. *)
Fwd(c)         == <<"forward_channels", c>>
Rev(c, vc)     == <<"reverse_channels", c, vc>>
Pushed(l, vc)  == <<"internal_reverse_propagated", l, vc>>
Update(c, vc)  == <<"credit_update", c, vc>>
Credited(r)    == <<"internal_propagated", r>>
ForwardDone(x) == <<"forward_propagated", x>>
ReverseDone(x) == <<"reverse_propagated", x>>

AllCreditsHere(n, cs) == \A c \in cs, vc \in VC : Rev(c, vc) \in n.current

DoneIf(ok, stamp) == IF ok THEN {stamp} ELSE {}

(* Op(n, x), written so that TLC evaluates n once however often Op uses it. *)
Apply(Op(_, _), n, x) == CHOOSE m \in {Op(k, x) : k \in {n}} : TRUE

Fold(Op(_, _), n, xs) ==
  LET f[k \in 0..Len(xs)] == IF k = 0 THEN n ELSE Apply(Op, f[k - 1], xs[k])
  IN  f[Len(xs)]

-----------------------------------------------------------------------------
(* Sources. *)

SrcForward(n, s) ==
  LET c    == Out[s][1]
      have == [vc \in VC |-> n.credit[c][vc] + n.credit_update[c][vc]]
      able == {vc \in VC : n.data_to_send[s][vc] # <<>> /\ have[vc] > 0}
      done == [n EXCEPT !.current = @ \cup {Fwd(c), ForwardDone(s)}]
  IN  IF able = {}
        THEN [done EXCEPT !.forward_channels[c] = Bubble, !.credit[c] = have]
        ELSE LET vc == Min(able)
             IN  [done EXCEPT
                    !.forward_channels[c] = Head(n.data_to_send[s][vc]),
                    !.credit[c] = [have EXCEPT ![vc] = @ - 1],
                    !.data_to_send[s][vc] = Tail(@)]

(* A flaw to catch: an update is taken over before it has arrived. *)
ReceiveCreditEarly(n, cs) ==
  LET fresh == {x \in cs \X VC : Update(x[1], x[2]) \notin n.current}
  IN  [n EXCEPT
         !.credit_update = [c \in Connection |-> [vc \in VC |->
            IF <<c, vc>> \in fresh THEN n.reverse_channels[c][vc] ELSE @[c][vc]]],
         !.current = @ \cup {Update(x[1], x[2]) : x \in fresh}]

(* Credits arriving on the connections cs are noted once per cycle, for    *)
(* the next one.                                                           *)
ReceiveCredit(n, cs) ==
  LET fresh == {x \in cs \X VC : /\ Rev(x[1], x[2]) \in n.current
                                 /\ Update(x[1], x[2]) \notin n.current}
  IN  [n EXCEPT
         !.credit_update = [c \in Connection |-> [vc \in VC |->
            IF <<c, vc>> \in fresh THEN n.reverse_channels[c][vc] ELSE @[c][vc]]],
         !.current = @ \cup {Update(x[1], x[2]) : x \in fresh}]

SrcReverse(n, s) ==
  [ReceiveCredit(n, Range(Out[s])) EXCEPT
     !.current = @ \cup DoneIf(AllCreditsHere(n, Range(Out[s])), ReverseDone(s))]

-----------------------------------------------------------------------------
(* Links: SimplePipelineImpl::TryPropagation, from one channel to another  *)
(* through k stages.  isNew: the input is of this cycle; wasSet: so is the *)
(* output.                                                                 *)

Pipeline(k, stages, from, isNew, to, wasSet, nothing) ==
  LET moves == ~wasSet /\ Len(stages) >= k
      rest  == IF moves THEN Tail(stages) ELSE stages
  IN  IF k = 0
        THEN [to |-> IF isNew THEN from ELSE to, isSet |-> isNew, stages |-> stages]
        ELSE [to     |-> IF wasSet THEN to ELSE IF moves THEN Head(stages) ELSE nothing,
              isSet  |-> TRUE,
              stages |-> IF isNew THEN Append(rest, from) ELSE rest]

LinkForward(n, l) ==
  LET a == In[l][1]
      b == Out[l][1]
      p == Pipeline(ForwardStages[l], n.forward_data_stages[l],
                    n.forward_channels[a], Fwd(a) \in n.current,
                    n.forward_channels[b], Fwd(b) \in n.current, Bubble)
  IN  [n EXCEPT
         !.forward_channels[b] = p.to,
         !.forward_data_stages[l] = p.stages,
         !.current = @ \cup DoneIf(p.isSet, Fwd(b))
                       \cup DoneIf(Fwd(a) \in n.current, ForwardDone(l))]

LinkReverse(n, l) ==
  LET a == In[l][1]
      b == Out[l][1]
      todo == {vc \in VC : Pushed(l, vc) \notin n.current}
      p == [vc \in VC |->
              Pipeline(ReverseStages[l], n.reverse_credit_stages[l][vc],
                       n.reverse_channels[b][vc], Rev(b, vc) \in n.current,
                       n.reverse_channels[a][vc], Rev(a, vc) \in n.current, 0)]
  IN  [n EXCEPT
         !.reverse_channels[a] = [vc \in VC |-> IF vc \in todo THEN p[vc].to ELSE @[vc]],
         !.reverse_credit_stages[l] =
            [vc \in VC |-> IF vc \in todo THEN p[vc].stages ELSE @[vc]],
         !.current =
            @ \cup {Rev(a, vc) : vc \in {v \in todo : p[v].isSet}}
              \cup {Pushed(l, vc) : vc \in {v \in todo : Rev(b, v) \in n.current}}
              \cup DoneIf(AllCreditsHere(n, {b}), ReverseDone(l))]

-----------------------------------------------------------------------------
(* Routers. *)

(* The input buffers, least vc first and then least port index; where a    *)
(* port has fewer VCs than another, a buffer that stays empty stands for   *)
(* the one it does not have.                                               *)
Priority(r) ==
  [k \in 1..(NumVC * Len(In[r])) |->
     [c  |-> In[r][((k - 1) % Len(In[r])) + 1],
      vc |-> (k - 1) \div Len(In[r])]]

(* Two flaws to catch: credits are not looked at, or the last one is kept. *)
CanRouteNoCredit(n, o) == Fwd(o.c) \notin n.current
CanRouteKeepsOne(n, o) == n.credit[o.c][o.vc] > 1 /\ Fwd(o.c) \notin n.current

(* The head of buffer x goes to its output if there is a credit and no     *)
(* other flit has taken the output in this cycle.                          *)
CanRoute(n, o) == n.credit[o.c][o.vc] > 0 /\ Fwd(o.c) \notin n.current

RouteHead(n, x) ==
  LET q == n.input_buffers[x.c][x.vc]
  IN  IF q = <<>> THEN n
      ELSE LET o == Route(x.c, x.vc, Head(q).flow.dest)
           IN  IF ~CanRoute(n, o) THEN n
               ELSE [n EXCEPT
                       !.forward_channels[o.c] = [Head(q) EXCEPT !.vc = o.vc],
                       !.credit[o.c][o.vc] = @ - 1,
                       !.input_credit_to_send[x.c][x.vc] = @ + 1,
                       !.input_buffers[x.c][x.vc] = Tail(@),
                       !.current = @ \cup {Fwd(o.c)}]

(* The credits of the outputs, with the updates, once per cycle. *)
Replenish(n, r) ==
  IF Credited(r) \in n.current THEN n
  ELSE [n EXCEPT
          !.credit = [c \in Connection |-> [vc \in VC |->
             @[c][vc] + IF c \in Range(Out[r]) THEN n.credit_update[c][vc] ELSE 0]],
          !.current = @ \cup {Credited(r)}]

(* What arrived goes to the buffers; a flit may leave in the same cycle. *)
Accept(n, r) ==
  [n EXCEPT
     !.input_buffers = [c \in Connection |-> [vc \in VC |->
        IF /\ c \in Range(In[r])
           /\ IsFlit(n.forward_channels[c]) /\ n.forward_channels[c].vc = vc
          THEN Append(@[c][vc], n.forward_channels[c]) ELSE @[c][vc]]],
     !.input_credit_to_send = [c \in Connection |-> [vc \in VC |->
        IF c \in Range(In[r]) THEN 0 ELSE @[c][vc]]]]

(* Bubbles go to the outputs that are left. *)
FillOutputs(n, r) ==
  LET left == {c \in Range(Out[r]) : Fwd(c) \notin n.current}
  IN  [n EXCEPT
         !.forward_channels = [c \in Connection |-> IF c \in left THEN Bubble ELSE @[c]],
         !.current = @ \cup {Fwd(c) : c \in left} \cup {ForwardDone(r)}]

RouterForward(n, r) ==
  IF \A c \in Range(In[r]) : Fwd(c) \in n.current
    THEN Apply(FillOutputs,
               Fold(RouteHead, Apply(Accept, Replenish(n, r), r), Priority(r)), r)
    ELSE Replenish(n, r)

(* Upon reset (cycle 0) a full update of credits is sent. *)
RouterReverse(n, r) ==
  IF ForwardDone(r) \notin n.current THEN n
  ELSE [ReceiveCredit(n, Range(Out[r])) EXCEPT
          !.reverse_channels = [c \in Connection |->
             IF c \notin Range(In[r]) THEN @[c]
             ELSE IF n.cycle = 0 THEN Depth[c]
             ELSE n.input_credit_to_send[c]],
          !.current =
             @ \cup {Rev(c, vc) : c \in Range(In[r]), vc \in VC}
               \cup DoneIf(AllCreditsHere(n, Range(Out[r])), ReverseDone(r))]

-----------------------------------------------------------------------------
(* Sinks take every flit at once and return its credit.  Their reverse     *)
(* propagation has nothing to do.                                          *)

(* A flaw to catch: a credit for a flit that arrives is not returned. *)
SinkCreditForgotten(n, c) ==
  [vc \in VC |-> IF n.cycle = 0 THEN Depth[c][vc] ELSE 0]

SinkCredit(n, c) ==
  LET x == n.forward_channels[c]
  IN  [vc \in VC |-> IF n.cycle = 0 THEN Depth[c][vc]
                     ELSE IF IsFlit(x) /\ x.vc = vc THEN 1 ELSE 0]

(* A flaw to catch: only the last flit received is kept. *)
SinkForwardOverwrites(n, k) ==
  LET c == In[k][1]
      x == n.forward_channels[c]
  IN  IF Fwd(c) \notin n.current THEN n
      ELSE [n EXCEPT
              !.received_traffic[k] = IF IsFlit(x) THEN <<x>> ELSE @,
              !.reverse_channels[c] = SinkCredit(n, c),
              !.current = @ \cup {Rev(c, vc) : vc \in VC} \cup {ForwardDone(k)}]

SinkForward(n, k) ==
  LET c == In[k][1]
      x == n.forward_channels[c]
  IN  IF Fwd(c) \notin n.current THEN n
      ELSE [n EXCEPT
              !.received_traffic[k] = IF IsFlit(x) THEN Append(@, x) ELSE @,
              !.reverse_channels[c] = SinkCredit(n, c),
              !.current = @ \cup {Rev(c, vc) : vc \in VC} \cup {ForwardDone(k)}]

SinkReverse(n, k) == [n EXCEPT !.current = @ \cup {ReverseDone(k)}]

-----------------------------------------------------------------------------
(* Tick and RunCycle. *)

TryForward(n, x) ==
  CASE x \in Source -> SrcForward(n, x)
    [] x \in Link   -> LinkForward(n, x)
    [] x \in Router -> RouterForward(n, x)
    [] x \in Sink   -> SinkForward(n, x)

TryReverse(n, x) ==
  CASE x \in Source -> SrcReverse(n, x)
    [] x \in Link   -> LinkReverse(n, x)
    [] x \in Router -> RouterReverse(n, x)
    [] x \in Sink   -> SinkReverse(n, x)

TickForward(n, x) == IF ForwardDone(x) \in n.current THEN n ELSE TryForward(n, x)
TickReverse(n, x) == IF ReverseDone(x) \in n.current THEN n ELSE TryReverse(n, x)

TickComponent(n, x) == Apply(TickReverse, TickForward(n, x), x)

Converged(n) ==
  \A x \in Component : ForwardDone(x) \in n.current /\ ReverseDone(x) \in n.current

(* Tick after tick until all have converged, at most max_ticks - 1. *)
Tick(n, order) == IF Converged(n) THEN n ELSE Fold(TickComponent, n, order)

TicksOfCycle(n, order) == Fold(Tick, n, [i \in 1..(MaxTicks - 1) |-> order])

(* ++cycle_, folded to -1, 0, 1, 2, 1, 2...: the code only tells cycle 0   *)
(* from the others.                                                        *)
NewCycle(n) == [n EXCEPT !.cycle = IF @ < 2 THEN @ + 1 ELSE 1, !.current = {}]

RunCycle ==
  /\ status = "ok"
  /\ \E end \in {TicksOfCycle(NewCycle(net), Order)} :
       \/ /\ Converged(end)
          /\ net' = [end EXCEPT !.current = {}]
          /\ UNCHANGED status
       \/ /\ ~Converged(end)
          /\ net' = end
          /\ status' = "unable to converge"
  /\ UNCHANGED injected

(* SendFlitAtTime: by the client between cycles, or by a pre-cycle service *)
(* (the traffic injector) before the ticks.  A flit scheduled ahead stops  *)
(* all that follow it in its queue, so the model queues it when its time   *)
(* has come.                                                               *)
SendFlitAtTime(s, vc, d) ==
  LET f    == [source |-> s, vc |-> vc, dest |-> d]
      flit == [flow |-> f, seq |-> injected[f] + 1, vc |-> vc]
  IN  \/ /\ vc < VCCount[Out[s][1]]
         /\ net' = [net EXCEPT !.data_to_send[s][vc] = Append(@, flit)]
         /\ injected' = [injected EXCEPT ![f] = @ + 1]
         /\ UNCHANGED status
      \/ /\ vc >= VCCount[Out[s][1]]    \* OutOfRangeError
         /\ UNCHANGED vars

Inject ==
  /\ MapThenSumSet(LAMBDA f : injected[f], Flow) < MaxFlits
  /\ \E s \in Source, vc \in VC, d \in Sink : SendFlitAtTime(s, vc, d)

Init ==
  /\ net = [forward_channels      |-> [c \in Connection |-> Bubble],
            reverse_channels      |-> [c \in Connection |-> [vc \in VC |-> 0]],
            forward_data_stages   |-> [l \in Link |-> <<>>],
            reverse_credit_stages |-> [l \in Link |-> [vc \in VC |-> <<>>]],
            data_to_send          |-> [s \in Source |-> [vc \in VC |-> <<>>]],
            credit                |-> [c \in Connection |-> [vc \in VC |-> 0]],
            credit_update         |-> [c \in Connection |-> [vc \in VC |-> 0]],
            input_buffers         |-> [c \in Connection |-> [vc \in VC |-> <<>>]],
            input_credit_to_send  |-> [c \in Connection |-> [vc \in VC |-> 0]],
            received_traffic      |-> [k \in Sink |-> <<>>],
            current               |-> {},
            cycle                 |-> -1]
  /\ injected = [f \in Flow |-> 0]
  /\ status = "ok"

Next == Inject \/ RunCycle

Spec == Init /\ [][Next]_vars

(* The client keeps calling RunCycle as long as it succeeds: weak fairness *)
(* of RunCycle, which is enabled as long as status is "ok" and which alone *)
(* changes the cycle.                                                      *)
CycleAdvances == net'.cycle # net.cycle

FairSpec == Spec /\ (<>[](status # "ok") \/ []<><<CycleAdvances>>_net)

-----------------------------------------------------------------------------
(* The simulator's state.  A channel holds a flit or a bubble, or a credit *)
(* per VC (an invalid metadata flit is 0); credits and buffers are kept by *)
(* the connection they are about.                                          *)
FlitOrBubble == Flit \cup {Bubble}

TypeOK ==
  /\ net.forward_channels \in [Connection -> FlitOrBubble]
  /\ net.reverse_channels \in [Connection -> [VC -> Nat]]
  /\ net.forward_data_stages \in [Link -> Seq(FlitOrBubble)]
  /\ net.reverse_credit_stages \in [Link -> [VC -> Seq(Nat)]]
  /\ net.data_to_send \in [Source -> [VC -> Seq(Flit)]]
  /\ net.credit \in [Connection -> [VC -> Nat]]
  /\ net.credit_update \in [Connection -> [VC -> Nat]]
  /\ net.input_buffers \in [Connection -> [VC -> Seq(Flit)]]
  /\ net.input_credit_to_send \in [Connection -> [VC -> 0..1]]
  /\ net.received_traffic \in [Sink -> Seq(Flit)]
  /\ net.cycle \in -1..2
  /\ status = "ok" => net.current = {}
  /\ injected \in [Flow -> Nat]
  /\ status \in {"ok", "unable to converge"}

(* Between cycles the credits of a link and VC are all accounted for: the  *)
(* sender's, the ones noted for the next cycle or on their way back, and   *)
(* one for every flit on the way or in the receiver's buffer, add up to    *)
(* the buffer's depth.  So no input buffer overflows, which nothing in     *)
(* TryForwardPropagation checks, and no credit is lost for good.           *)
FlitsOn(stages, vc) ==
  Cardinality({i \in DOMAIN stages : IsFlit(stages[i]) /\ stages[i].vc = vc})

SumOf(credits) ==
  LET f[k \in 0..Len(credits)] == IF k = 0 THEN 0 ELSE f[k - 1] + credits[k]
  IN  f[Len(credits)]

CreditsConserved ==
  status = "ok" /\ net.cycle >= 0 =>
    \A l \in Link, vc \in VC :
      LET a == In[l][1]
          b == Out[l][1]
      IN  net.credit[a][vc] + net.credit_update[a][vc]
          + SumOf(net.reverse_credit_stages[l][vc])
          + FlitsOn(net.forward_data_stages[l], vc)
          + Len(net.input_buffers[b][vc]) = Depth[b][vc]

(* What a cycle does does not depend on the order in which Tick visits the *)
(* components: it always converges, and to the same state.  Components see *)
(* what their neighbours did in this cycle or what is left of the last, so *)
(* every test of a time stamp matters here.                                *)
OrderIndependent ==
  \A end \in {TicksOfCycle(NewCycle(net), Order)} :
    Converged(end) /\ \A o \in OtherOrders : TicksOfCycle(NewCycle(net), o) = end

(* The network is a FIFO channel per flow, whatever the traffic: between   *)
(* cycles the flits a source was given and the destination has not         *)
(* received are in the queues, pipeline stages and buffers, and they       *)
(* arrive in order.                                                        *)
ReceivedSeqs(f) ==
  LET mine == SelectSeq(net.received_traffic[f.dest], LAMBDA x : x.flow = f)
  IN  [i \in DOMAIN mine |-> mine[i].seq]

FlitsInNetwork ==
  UNION {Range(net.data_to_send[s][vc]) : s \in Source, vc \in VC}
  \cup (UNION {Range(net.forward_data_stages[l]) : l \in Link} \ {Bubble})
  \cup UNION {Range(net.input_buffers[c][vc]) : c \in Connection, vc \in VC}

Network == INSTANCE NocNetwork WITH
  inflight  <- LET flits == FlitsInNetwork
               IN  [f \in Flow |->
                      SetToSortSeq({x.seq : x \in {y \in flits : y.flow = f}}, <)],
  delivered <- [f \in Flow |-> ReceivedSeqs(f)]

LosslessNetwork == Network!Spec

(* When the traffic comes to an end every flit arrives: the sources are    *)
(* given MaxFlits flits at most, in whatever cycles, and however the flits *)
(* are held up by each other, by the fixed priority of ports and VCs and   *)
(* by credits on their way, none is stuck for good.  Under traffic that    *)
(* never ends the fixed priority does starve: a source (and a router) that *)
(* can send on VC 0 in every cycle never serves VC 1.                      *)
EveryFlitArrives ==
  \A f \in Flow, n \in 1..MaxFlits :
    injected[f] >= n ~> Len(ReceivedSeqs(f)) >= n
=============================================================================
