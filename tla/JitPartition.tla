---------------------------- MODULE JitPartition ----------------------------
(***************************************************************************)
(* How the JIT compiles a proc (jit/function_base_jit): its nodes are      *)
(* divided into partitions, each an LLVM function; a send or a blocking    *)
(* receive has a partition of its own, at which the compiled proc may      *)
(* return early and be resumed by the next ProcJit::Tick.  A value needed  *)
(* after a return must be in a buffer that survives it.                    *)
(*                                                                         *)
(* The proc is any proc of N nodes.  Of a value only its age is kept:      *)
(* "now" for one computed from this activation's values alone, "old" for   *)
(* anything else, uninitialized memory included.                           *)
(***************************************************************************)
EXTENDS Integers, FiniteSets, SequencesExt

CONSTANTS
  N,                  \* number of nodes
  MaxPartitionSize    \* kMaxPartitionSize

ASSUME JitPartitionAssumption == N \in Nat \ {0} /\ MaxPartitionSize \in Nat

Node  == 1..N         \* in the order of TopoSort
Kind  == {"param", "array_literal", "bits_literal", "op", "receive", "send"}
Age   == {"now", "old"}
None  == -1

VARIABLES
  proc,               \* the proc: kind and operands of its nodes; next, the
                      \* node whose value is the next value of a param
  code,               \* what it is compiled to, see Code
  status,             \* "source", "ready" or, when an XLS_RET_CHECK fails, "failed"
  pc,                 \* the partition to be called next, or None between calls
  continuation_point, \* of the ProcJitContinuation, with its buffers:
  input, output,      \*   params -> age of their value and of their next value
  temp,               \*   node -> age of what the temp buffer has for it
  disabled,           \* sends and receives with a false predicate in this activation
  computed            \* history: node -> ages of what it computed in this activation

vars == <<proc, code, status, pc, continuation_point, input, output, temp,
          disabled, computed>>

IsA(n, kinds) == proc.kind[n] \in kinds
Param == {n \in Node : IsA(n, {"param"})}
Users(n) == {m \in Node : n \in proc.operands[m]}

(* Only literals of bits type are materialized where they are used. *)
ShouldMaterializeAtUse(n) == IsA(n, {"bits_literal"})

IsInputNode(n)  == n \in Param
IsOutputNode(n) == \E p \in Param : proc.next[p] = n

-----------------------------------------------------------------------------
(* Partitioning. *)

IsEarlyExitPoint(n) == IsA(n, {"receive", "send"})

(* A flaw to catch: a send is taken up again where it left. *)
ExecutionNeverContinuesAfterNode(n) == FALSE

ExecutionContinuesAfterNode(n) == IsA(n, {"send"})

(* a: the partitions so far, the current one and its size. *)
AssignPartition(a, n) ==
  IF IsEarlyExitPoint(n)
    THEN LET p == IF a.size # 0 THEN a.current + 1 ELSE a.current
         IN  [map |-> [a.map EXCEPT ![n] = p], current |-> p + 1, size |-> 0]
    ELSE LET full == a.size + 1 > MaxPartitionSize
         IN  [map     |-> [a.map EXCEPT ![n] = a.current],
              current |-> IF full THEN a.current + 1 ELSE a.current,
              size    |-> IF full THEN 0 ELSE a.size + 1]

(* Two flaws to catch: a literal joins its last user; one without users    *)
(* joins the partition after the last.                                     *)
LiteralPartitionLast(n, map) ==
  IF Users(n) = {} THEN map[n]
  ELSE LET last == Max({map[u] : u \in Users(n)})
       IN  IF \E m \in Node : IsEarlyExitPoint(m) /\ map[m] = last
             THEN map[n] ELSE last

LiteralPartitionUnused(n, map) == IF Users(n) = {} THEN N + 2 ELSE map[n]

(* Literals move down to their first user, but not to an early exit. *)
LiteralPartition(n, map) ==
  IF Users(n) = {} THEN map[n]
  ELSE LET first == Min({map[u] : u \in Users(n)})
       IN  IF \E m \in Node : IsEarlyExitPoint(m) /\ map[m] = first
             THEN map[n] ELSE first

(* The partitions after the first n nodes. *)
Assigned[n \in 0..N] ==
  IF n = 0 THEN [map |-> [m \in Node |-> 0], current |-> 0, size |-> 0]
  ELSE AssignPartition(Assigned[n - 1], n)

PartitionFunctionBase ==
  LET a == Assigned[N]
  IN  [map  |-> [n \in Node |-> IF IsA(n, {"array_literal", "bits_literal"})
                                  THEN LiteralPartition(n, a.map) ELSE a.map[n]],
       last |-> a.current]

-----------------------------------------------------------------------------
(* Buffers.  ps: what PartitionFunctionBase returned. *)

(* A flaw to catch: one use in the partition is enough for the stack. *)
AllocateBufferForSomeUse(n, ps) ==
  IF IsInputNode(n) \/ IsOutputNode(n) \/ ShouldMaterializeAtUse(n) THEN "kNone"
  ELSE IF Users(n) = {} \/ \E u \in Users(n) : ps.map[u] = ps.map[n] THEN "kAlloca"
  ELSE "kTempBlock"

AllocateBuffer(n, ps) ==
  IF IsInputNode(n) \/ IsOutputNode(n) \/ ShouldMaterializeAtUse(n) THEN "kNone"
  ELSE IF \A u \in Users(n) : ps.map[u] = ps.map[n] THEN "kAlloca"
  ELSE "kTempBlock"

(* A node function is emitted for n. *)
Emitted(n) == ~IsInputNode(n) /\ (IsOutputNode(n) \/ ~ShouldMaterializeAtUse(n))

(* The checks of BuildPartitionFunction: an operand is computed before in  *)
(* the same partition, or it is an input, an output or in the temp block;  *)
(* and early exits are alone.                                              *)
BuildChecks(ps, alloc) ==
  /\ \A n \in Node, x \in Node :
       Emitted(n) /\ x \in proc.operands[n] /\ ~ShouldMaterializeAtUse(x)
       => \/ ps.map[x] = ps.map[n]
          \/ IsInputNode(x) \/ IsOutputNode(x)
          \/ alloc[x] = "kTempBlock"
  /\ \A n, m \in Node : IsEarlyExitPoint(n) /\ ps.map[n] = ps.map[m] => n = m

BuildFunction ==
  /\ status = "source"
  /\ LET ps    == PartitionFunctionBase
         alloc == [n \in Node |-> AllocateBuffer(n, ps)]
     IN  /\ code' = [map |-> ps.map, last |-> ps.last, alloc |-> alloc]
         /\ status' = IF BuildChecks(ps, alloc) THEN "ready" ELSE "failed"
  /\ UNCHANGED <<proc, pc, continuation_point, input, output, temp, disabled, computed>>

-----------------------------------------------------------------------------
(* Execution. *)

ExitPartitions == {code.map[n] : n \in {m \in Node : IsEarlyExitPoint(m)}}

(* The node of an early exit partition. *)
ExitNode(p) == CHOOSE n \in Node : code.map[n] = p

(* Where execution goes on after an early exit of partition p. *)
ResumePartition(p) == IF ExecutionContinuesAfterNode(ExitNode(p)) THEN p + 1 ELSE p

ResumePartitions == {ResumePartition(p) : p \in ExitPartitions}

(* Early exit points are numbered from 1, as 0 is the beginning of the     *)
(* proc, and resume points, which may be fewer, from 0.                    *)
ExitId(p) == Cardinality({q \in ExitPartitions : q <= p})

ResumeId(p) == Cardinality({q \in ResumePartitions : q < p})

(* The switch at the entry of the compiled proc: from the number of an     *)
(* early exit point, through its resume_point_id, to a block.              *)
ResumeBlock(id) == CHOOSE q \in ResumePartitions : ResumeId(q) = id

ResumeAt(id) ==
  IF id = 0 THEN 0
  ELSE LET p == CHOOSE q \in ExitPartitions : ExitId(q) = id
       IN  ResumeBlock(ResumeId(ResumePartition(p)))

(* m: the memory a partition function works on: the buffers of the         *)
(* continuation, its own stack, and the history.                           *)
Memory == [output |-> output, temp |-> temp, computed |-> computed,
           stack |-> [n \in Node |-> "old"]]

Load(m, x) ==
  IF ShouldMaterializeAtUse(x) THEN "now"
  ELSE IF IsInputNode(x) THEN input[x]
  ELSE IF IsOutputNode(x) THEN m.output[Min({p \in Param : proc.next[p] = x})]
  ELSE IF code.alloc[x] = "kTempBlock" THEN m.temp[x] ELSE m.stack[x]

Outputs(m, n, age) == [p \in Param |-> IF proc.next[p] = n THEN age ELSE m.output[p]]

(* The call of a node function, or for a param the copy to its outputs. *)
CallNode(m, n) ==
  LET age == IF \A x \in proc.operands[n] : Load(m, x) = "now" THEN "now" ELSE "old"
  IN  IF IsInputNode(n) THEN [m EXCEPT !.output = Outputs(m, n, input[n])]
      ELSE IF ~Emitted(n) THEN m
      ELSE [output   |-> Outputs(m, n, age),
            temp     |-> IF code.alloc[n] = "kTempBlock"
                           THEN [m.temp EXCEPT ![n] = age] ELSE m.temp,
            stack    |-> IF code.alloc[n] = "kAlloca"
                           THEN [m.stack EXCEPT ![n] = age] ELSE m.stack,
            computed |-> [m.computed EXCEPT ![n] = Append(@, age)]]

(* The partition's function, up to node n: its nodes in topological order. *)
Called[n \in 0..N] ==
  IF n = 0 THEN Memory
  ELSE IF code.map[n] = pc THEN CallNode(Called[n - 1], n) ELSE Called[n - 1]

Keep(m) == output' = m.output /\ temp' = m.temp /\ computed' = m.computed

(* ProcJit::Tick calls the compiled proc, for a new activation or to go on *)
(* with the last.                                                          *)
Tick ==
  /\ status = "ready" /\ pc = None
  /\ pc' = ResumeAt(continuation_point)
  /\ disabled' \in IF continuation_point = 0
                     THEN SUBSET {n \in Node : IsEarlyExitPoint(n)} ELSE {disabled}
  /\ UNCHANGED <<proc, code, status, continuation_point, input, output, temp, computed>>

(* On to the next partition. *)
Continue(m) ==
  /\ pc' = pc + 1
  /\ Keep(m)
  /\ UNCHANGED <<continuation_point, input, disabled>>

CallPartition ==
  /\ pc \in 0..code.last /\ pc \notin ExitPartitions
  /\ Continue(Called[N])
  /\ UNCHANGED <<proc, code, status>>

(* After the last partition the activation is complete: NextTick swaps the *)
(* input and output buffers.                                               *)
NextTick ==
  /\ pc = code.last + 1
  /\ pc' = None
  /\ continuation_point' = 0
  /\ input' = output
  /\ output' = [p \in Param |-> "old"]
  /\ temp' = [n \in Node |-> "old"]
  /\ disabled' = {}
  /\ computed' = [n \in Node |-> <<>>]
  /\ UNCHANGED <<proc, code, status>>

(* The Tick returns with an early exit. *)
EarlyExit(m, ok) ==
  /\ pc' = None
  /\ continuation_point' = ExitId(pc)
  /\ status' = IF ok THEN status ELSE "failed"
  /\ Keep(m)
  /\ UNCHANGED <<input, disabled>>

(* A send with a true predicate returns early, and must not have started   *)
(* from the same point.                                                    *)
CallSend ==
  /\ pc \in ExitPartitions
  /\ LET n == ExitNode(pc)
         m == CallNode(Memory, n)
     IN  /\ IsA(n, {"send"})
         /\ IF n \notin disabled
              THEN EarlyExit(m, ExitId(pc) # continuation_point)
              ELSE Continue(m) /\ UNCHANGED status
  /\ UNCHANGED <<proc, code>>

(* A flaw to catch: not receiving is taken for being blocked. *)
ReceiveBlocksUnlessFired(predicate, fired) == ~fired

(* What the node function of a blocking receive returns. *)
ReceiveBlocks(predicate, fired) == predicate /\ ~fired

(* The receive is tried; hasData: the queue has something for it. *)
CallReceive(hasData) ==
  /\ pc \in ExitPartitions
  /\ LET n == ExitNode(pc)
     IN  /\ IsA(n, {"receive"})
         /\ IF ReceiveBlocks(n \notin disabled, n \notin disabled /\ hasData)
              THEN EarlyExit(Memory, TRUE)
              ELSE Continue(CallNode(Memory, n)) /\ UNCHANGED status
  /\ UNCHANGED <<proc, code>>

-----------------------------------------------------------------------------
(* All procs of N nodes: a proc has a param (the token), and sends and     *)
(* receives have a token operand.                                          *)
Proc ==
  {g \in [kind     : {k \in [Node -> Kind] : "param" \in Range(k)},
          operands : {o \in [Node -> SUBSET Node] : \A n \in Node : o[n] \subseteq 1..(n - 1)}] :
     \A n \in Node :
       /\ g.kind[n] \in {"param", "array_literal", "bits_literal"} => g.operands[n] = {}
       /\ g.kind[n] \in {"receive", "send"} => g.operands[n] # {}}

Init ==
  /\ \E g \in Proc :
       \E next \in [{n \in Node : g.kind[n] = "param"} -> Node] :
         /\ proc = [kind |-> g.kind, operands |-> g.operands, next |-> next]
         /\ input = [p \in DOMAIN next |-> "now"]
         /\ output = [p \in DOMAIN next |-> "old"]
  /\ code = [map |-> [n \in Node |-> 0], last |-> 0, alloc |-> [n \in Node |-> "kNone"]]
  /\ status = "source"
  /\ pc = None
  /\ continuation_point = 0
  /\ temp = [n \in Node |-> "old"]
  /\ disabled = {}
  /\ computed = [n \in Node |-> <<>>]

Next ==
  \/ BuildFunction
  \/ Tick
  \/ CallPartition
  \/ NextTick
  \/ CallSend
  \/ \E hasData \in BOOLEAN : CallReceive(hasData)

Spec == Init /\ [][Next]_vars

(* The proc is ticked again and again: weak fairness of Next, all of whose *)
(* steps but the first, BuildFunction, change pc.  And whoever is to send  *)
(* to the proc does so in the end.                                         *)
FairSpec ==
  /\ Spec
  /\ []<><<Next>>_pc
  /\ SF_vars(CallReceive(TRUE))

-----------------------------------------------------------------------------
(* One type invariant; buffers are kept by the node they are for. *)
TypeOK ==
  /\ proc.kind \in [Node -> Kind] /\ proc.operands \in [Node -> SUBSET Node]
  /\ proc.next \in [Param -> Node]
  /\ code.last \in 0..N /\ code.map \in [Node -> 0..code.last]
  /\ code.alloc \in [Node -> {"kNone", "kAlloca", "kTempBlock"}]
  /\ status \in {"source", "ready", "failed"}
  /\ pc \in {None} \cup 0..(code.last + 1)
  /\ continuation_point \in 0..Cardinality(ExitPartitions)
  /\ input \in [Param -> Age] /\ output \in [Param -> Age]
  /\ temp \in [Node -> Age] /\ disabled \subseteq Node
  /\ computed \in [Node -> Seq(Age)]

(* No XLS_RET_CHECK of BuildPartitionFunction or of ProcJit::Tick fails:   *)
(* whatever the proc, every operand has a buffer where it is used, early   *)
(* exits are alone in their partitions, and a tick that sent has moved on. *)
ChecksHold == status # "failed"

(* Everything a node function computes, and every param's value, comes     *)
(* from this activation: nothing is lost by an early exit, and nothing     *)
(* left in the temp block by the activation before is used.                *)
ValuesAreCurrent ==
  /\ \A n \in Node : Range(computed[n]) \subseteq {"now"}
  /\ \A p \in Param : input[p] = "now"

(* Where the activation is: all partitions before Position have run. *)
Position ==
  IF status = "source" THEN 0 ELSE IF pc # None THEN pc ELSE ResumeAt(continuation_point)

(* However often it returns early, an activation calls each node function  *)
(* exactly once, so nothing is sent or received twice or left out.         *)
ExecutedOnce ==
  status = "ready" =>
    \A n \in Node : Emitted(n) =>
      Len(computed[n]) = IF code.map[n] < Position THEN 1 ELSE 0

(* Every activation completes, when every receive is served in the end. *)
ActivationsComplete == []<>(pc = None /\ continuation_point = 0)
=============================================================================
