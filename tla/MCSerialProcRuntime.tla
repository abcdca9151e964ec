------------------------ MODULE MCSerialProcRuntime -------------------------
(***************************************************************************)
(* Proc networks for SerialProcRuntime.  Channel values and states are 0   *)
(* and 1; a proc flips its state in every iteration.                       *)
(***************************************************************************)
EXTENDS SerialProcRuntime

CONSTANTS p1, p2, p3, in, mid, back, out, config

Param           == [op |-> "param", ch |-> Nothing, pred |-> "always",
                    blocking |-> FALSE]
RecvIf(ch, c)   == [op |-> "receive", ch |-> ch, pred |-> c, blocking |-> TRUE]
Recv(ch)        == RecvIf(ch, "always")
RecvNonBlock(ch) == [op |-> "receive", ch |-> ch, pred |-> "always",
                     blocking |-> FALSE]
SendIf(ch, c)   == [op |-> "send", ch |-> ch, pred |-> c, blocking |-> FALSE]
Send(ch)        == SendIf(ch, "always")
Assert_(c)      == [op |-> "assert", ch |-> Nothing, pred |-> c,
                    blocking |-> FALSE]

MCHolds(c, st, g) ==
    CASE c = "always" -> TRUE
      [] c = "odd"    -> st = 1
      [] c = "even"   -> st = 0
      [] c = "valid"  -> g # Nothing
      [] c = "zero"   -> g # 1

MCSendData(p, st, g)  == IF g = Nothing THEN st ELSE (st + g) % 2
MCNextState(p, st, g) == 1 - st

Bits == {0, 1}

(***************************************************************************)
(* A pipeline with a feedback channel: p2 stands before p1 in the package  *)
(* and so waits in every tick until p1 sends; in every second iteration it *)
(* receives what it sent itself.  p3 waits for p2 in every second          *)
(* iteration and runs freely in the others.  Unless an input arrives, each *)
(* proc waits in the end for the next: a deadlock, but only when p3 has    *)
(* nothing left to do.                                                     *)
(***************************************************************************)
PipelineOrder   == <<p3, p2, p1>>
PipelineProgram ==
    [p \in {p1, p2, p3} |->
        CASE p = p1 -> <<Param, Recv(in), Send(mid)>>
          [] p = p2 -> <<Param, Recv(mid), RecvIf(back, "odd"),
                         Send(out), SendIf(back, "even"), Send(config)>>
          [] p = p3 -> <<Param, RecvIf(config, "odd")>>]
PipelineCounts  == {[ch \in {out} |-> 1], [ch \in {mid} |-> 1]}

(***************************************************************************)
(* A proc that polls and one that waits for it: p1 forwards what a         *)
(* non-blocking receive finds and counts on a single-value channel, and    *)
(* its assertion fails for half of the inputs, before it sends.  p2 stands *)
(* before p1 in the package, copies the count to a single-value output and *)
(* then waits for p1.  No proc waits for a channel the client writes.      *)
(***************************************************************************)
PollOrder   == <<p2, p1>>
PollProgram ==
    [p \in {p1, p2} |->
        CASE p = p1 -> <<Param, RecvNonBlock(in), Assert_("zero"),
                         SendIf(mid, "valid"), Send(config)>>
          [] p = p2 -> <<Param, Recv(config), Send(out), Recv(mid)>>]
PollCounts  == {[ch \in {out} |-> 1], [ch \in {out} |-> 2]}

(***************************************************************************)
(* Two receivers on one channel, no conditional node, no input.            *)
(***************************************************************************)
SharedOrder   == <<p1, p2, p3>>
SharedProgram ==
    [p \in {p1, p2, p3} |->
        CASE p \in {p1, p2} -> <<Param, Recv(mid)>>
          [] p = p3 -> <<Param, Send(mid), Send(mid)>>]
=============================================================================
