-------------------------- MODULE MCPipelinedBlock --------------------------
(***************************************************************************)
(* Procs for TLC to pipeline, each chosen to exercise one part of the flow *)
(* control.  Predicates and next states look at parities only.             *)
(***************************************************************************)
EXTENDS PipelinedBlock

Always(c, a) == TRUE

(* Backedge: counts in "cnt", read in stage 0 and written in stage 1; adds *)
(* up what it receives in stage 1 in "acc", read in stage 1 and written in *)
(* stage 2.  Sends in stage 0 when cnt is even and in stage 3 always.      *)
BackedgeRecv  == [i \in {"a"} |-> 1]
BackedgeOrder == [i \in {"a"} |-> 0]
BackedgeSend  == [early |-> 0, late |-> 3]
BackedgeRead  == [cnt |-> 0, acc |-> 1]
BackedgeWrite == [cnt |-> 1, acc |-> 2]
BackedgeInit  == [cnt |-> 0, acc |-> 0]
BackedgeSendPred(k, a) == k = "early" => a.s["cnt"] % 2 = 0
BackedgeNext(e, a) ==
  CASE e = "cnt" -> (a.s["cnt"] + 1) % 4
    [] e = "acc" -> (a.s["acc"] + a.x["a"]) % 4

(* Fork: in every iteration one datum from "a" and, in the same stage, one *)
(* from "b" if a's is odd; sent on in stage 1 on "p" always and on "o" if  *)
(* a's is odd; a third send, always, in stage 2.  The state is written in  *)
(* the stage that reads it.                                                *)
ForkRecv  == [a |-> 0, b |-> 0]
ForkOrder == [a |-> 0, b |-> 1]
ForkRecvPred(i, a) == i = "b" => a.x["a"] % 2 = 1
ForkSend  == [o |-> 1, p |-> 1, q |-> 2]
ForkStage == [acc |-> 0]
ForkInit  == [acc |-> 1]
ForkSendPred(k, a) == k = "o" => a.x["a"] % 2 = 1
ForkNext(e, a) == (a.s["acc"] + a.x["a"]) % 4

(* Merge: takes from "a" and "b" in turn, from "b" only if there is        *)
(* something, sends what came from "a" on "o" and the rest on "p": the     *)
(* sends exclude each other.  The turn is read in stage 0 and written in   *)
(* stage 1.                                                                *)
MergeRecv  == [a |-> 0, b |-> 0]
MergeSend  == [o |-> 1, p |-> 1]
MergeRead  == [turn |-> 0]
MergeWrite == [turn |-> 1]
MergeInit  == [turn |-> 0]
MergeRecvPred(i, a) == (i = "a") = (a.s["turn"] = 0)
MergeSendPred(k, a) == (k = "o") = (a.s["turn"] = 0)
MergeNext(e, a) == 1 - a.s["turn"]

(* Poll: tells on "o" and on "p", in the stage of the receive, what a      *)
(* non-blocking receive gave.                                              *)
PollRecv == [a |-> 0]
PollSend == [o |-> 0, p |-> 0]
NoElems  == [e \in {} |-> 0]
PollNext(e, a) == 0
=============================================================================
