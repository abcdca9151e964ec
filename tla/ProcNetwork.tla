----------------------------- MODULE ProcNetwork ----------------------------
(***************************************************************************)
(* What a network of procs is, whoever runs it: every proc executes the    *)
(* nodes of its body in order, over and over, at its own pace; a blocking  *)
(* receive waits for its channel, everything else can always go on.  The   *)
(* evaluators of XLS (interpreter and JIT) and the runtimes that schedule  *)
(* them are implementations of this module.                                *)
(*                                                                         *)
(* The computation inside a proc is abstract: a proc has one state element *)
(* and remembers what its last receive delivered.  SendData, NextState and *)
(* Holds (does the predicate of a node hold?) are parameters.              *)
(***************************************************************************)
EXTENDS Integers, Sequences

CONSTANTS
    Proc,           \* the procs of the package
    Channel,        \* its channels
    Input, Output,  \* the channels the world writes to, and reads from
    SingleValued,   \* the channels of kind kSingleValue
    Program,        \* for every proc its nodes in topological order
    Value,          \* the values sent on channels
    Zero,           \* the zero of the channel type, a member of Value
    Nothing,        \* a receive that has not delivered anything
    InitState,      \* initial value of the state element of a proc
    Holds(_, _, _), \* predicate, state, received: is the node active?
    SendData(_, _, _),
    NextState(_, _, _)

VARIABLES
    queue,  \* the queue of each channel
    pc,     \* the node each proc executes next
    state,  \* the state element of each proc
    got     \* what each proc received last in this iteration

vars == <<queue, pc, state, got>>

Pushed(ch, q, v) == IF ch \in SingleValued THEN <<v>> ELSE Append(q, v)
Popped(ch, q)    == IF ch \in SingleValued THEN q ELSE Tail(q)

Init ==
    /\ queue = [ch \in Channel |-> <<>>]
    /\ pc = [p \in Proc |-> 1]
    /\ state = [p \in Proc |-> InitState]
    /\ got = [p \in Proc |-> Nothing]

\* p executes a receive: of the head of the queue, or of nothing at all.
Receive(p) ==
    LET node   == Program[p][pc[p]]
        active == Holds(node.pred, state[p], got[p])
    IN  /\ node.op = "receive"
        /\ \/ /\ active
              /\ queue[node.ch] # <<>>
              /\ got' = [got EXCEPT ![p] = Head(queue[node.ch])]
              /\ queue' = [queue EXCEPT ![node.ch] = Popped(node.ch, @)]
           \/ /\ active => queue[node.ch] = <<>> /\ ~node.blocking
              /\ got' = [got EXCEPT
                            ![p] = IF node.blocking THEN Zero ELSE Nothing]
              /\ UNCHANGED queue

Send(p) ==
    LET node == Program[p][pc[p]]
    IN  /\ node.op = "send"
        /\ queue' =
              IF Holds(node.pred, state[p], got[p])
              THEN [queue EXCEPT ![node.ch] =
                       Pushed(node.ch, @, SendData(p, state[p], got[p]))]
              ELSE queue
        /\ UNCHANGED got

\* Nodes that neither send nor receive.
Compute(p) ==
    /\ Program[p][pc[p]].op \notin {"send", "receive"}
    /\ UNCHANGED <<queue, got>>

ExecuteNode(p) ==
    /\ pc[p] <= Len(Program[p])
    /\ Receive(p) \/ Send(p) \/ Compute(p)
    /\ pc' = [pc EXCEPT ![p] = @ + 1]
    /\ UNCHANGED state

\* The iteration is over: the next one starts from the next state.
NextIteration(p) ==
    /\ pc[p] > Len(Program[p])
    /\ pc' = [pc EXCEPT ![p] = 1]
    /\ state' = [state EXCEPT ![p] = NextState(p, state[p], got[p])]
    /\ got' = [got EXCEPT ![p] = Nothing]
    /\ UNCHANGED queue

\* The owner of the network restarts the procs; channels keep their content.
Restart ==
    /\ pc' = [p \in Proc |-> 1]
    /\ state' = [p \in Proc |-> InitState]
    /\ got' = [p \in Proc |-> Nothing]
    /\ UNCHANGED queue

\* The world on the other side of a channel writes, or reads.
WorldWrites(ch, v) ==
    /\ queue' = [queue EXCEPT ![ch] = Pushed(ch, @, v)]
    /\ UNCHANGED <<pc, state, got>>

WorldReads(ch) ==
    /\ queue[ch] # <<>>
    /\ queue' = [queue EXCEPT ![ch] = Popped(ch, @)]
    /\ UNCHANGED <<pc, state, got>>

Next ==
    \/ \E p \in Proc : ExecuteNode(p) \/ NextIteration(p)
    \/ Restart
    \/ \E ch \in Input, v \in Value : WorldWrites(ch, v)
    \/ \E ch \in Output : WorldReads(ch)

Spec == Init /\ [][Next]_vars

-----------------------------------------------------------------------------

\* p cannot move: it waits at a blocking receive on an empty channel.
WaitsOn(p, ch) ==
    /\ pc[p] <= Len(Program[p])
    /\ LET node == Program[p][pc[p]]
       IN  /\ node.op = "receive" /\ node.blocking /\ node.ch = ch
           /\ Holds(node.pred, state[p], got[p])
           /\ queue[ch] = <<>>
=============================================================================
