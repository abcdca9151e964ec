--------------------------- MODULE MCNocSimulator ---------------------------
(***************************************************************************)
(* A tree of two routers: A takes what s0 and s1 send and passes it to the *)
(* sink k0 or to B, which passes it to the sink k1.                        *)
(*                                                                         *)
(*        s0 --l0--> A --l2--> k0                                          *)
(*        s1 --l1--> A --l3--> B --l4--> k1                                *)
(*                                                                         *)
(* Links with and without pipeline stages in each direction; l4 returns    *)
(* credits later than they are needed, so that B and A have to wait.       *)
(***************************************************************************)
EXTENDS NocSimulator

TreeIn ==
  [x \in {"s0", "s1", "l0", "l1", "l2", "l3", "l4", "A", "B", "k0", "k1"} |->
     CASE x \in {"s0", "s1"} -> <<>>
       [] x = "l0" -> <<"s0.l0">>
       [] x = "l1" -> <<"s1.l1">>
       [] x = "A"  -> <<"l0.A", "l1.A">>
       [] x = "l2" -> <<"A.l2">>
       [] x = "l3" -> <<"A.l3">>
       [] x = "B"  -> <<"l3.B">>
       [] x = "l4" -> <<"B.l4">>
       [] x = "k0" -> <<"l2.k0">>
       [] x = "k1" -> <<"l4.k1">>]

TreeOut ==
  [x \in {"s0", "s1", "l0", "l1", "l2", "l3", "l4", "A", "B", "k0", "k1"} |->
     CASE x \in {"k0", "k1"} -> <<>>
       [] x = "s0" -> <<"s0.l0">>
       [] x = "s1" -> <<"s1.l1">>
       [] x = "l0" -> <<"l0.A">>
       [] x = "l1" -> <<"l1.A">>
       [] x = "A"  -> <<"A.l2", "A.l3">>
       [] x = "l2" -> <<"l2.k0">>
       [] x = "l3" -> <<"l3.B">>
       [] x = "B"  -> <<"B.l4">>
       [] x = "l4" -> <<"l4.k1">>]

TreeConnections ==
  {"s0.l0", "s1.l1", "l0.A", "l1.A", "A.l2", "A.l3", "l2.k0", "l3.B", "B.l4", "l4.k1"}

TreeForward == [l \in {"l0", "l1", "l2", "l3", "l4"} |->
                  CASE l = "l3" -> 2 [] l = "l0" -> 1 [] OTHER -> 0]
TreeReverse == [l \in {"l0", "l1", "l2", "l3", "l4"} |->
                  CASE l = "l4" -> 2 [] l = "l0" -> 1 [] OTHER -> 0]

(* s0 has one virtual channel, with room for two flits at A; everywhere    *)
(* else there are two, with room for one.                                  *)
TreeVCs   == [c \in TreeConnections |-> IF c \in {"s0.l0", "l0.A"} THEN 1 ELSE 2]
TreeDepth == [c \in TreeConnections |-> [vc \in {0, 1} |->
                CASE c \notin {"s0.l0", "l0.A"} -> 1 [] vc = 0 -> 2 [] vc = 1 -> 0]]

(* DistributedRoutingTableBuilderForTrees keeps the vc. *)
TreeRoute(c, vc, d) ==
  [c  |-> IF c = "l3.B" THEN "B.l4" ELSE IF d = "k0" THEN "A.l2" ELSE "A.l3",
   vc |-> vc]

(* Sources, links, routers and sinks, each in the order of creation; and   *)
(* the other way round.                                                    *)
TreeOrder == <<"s0", "s1", "l0", "l1", "l2", "l3", "l4", "A", "B", "k0", "k1">>
TreeOthers ==
  {<<"k1", "k0", "B", "A", "l4", "l3", "l2", "l1", "l0", "s1", "s0">>}
=============================================================================
