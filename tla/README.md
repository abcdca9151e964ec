# A verification project for XLS

XLS compiles programs written in DSLX (or C++) to Verilog.  Between the two is
an IR whose unit of concurrency is the *proc*: a process with state that
receives and sends on channels, over and over.  What a network of procs means
is implemented several times in this repository: by an interpreter and a JIT
under a runtime that schedules them, and by the hardware that code generation
makes of a proc; a simulator of networks on chip moves the data between them.
This project models those implementations in TLA+, states
what makes them correct, checks it on small instances with TLC and proves part
of it, for every value of the parameters, with TLAPS.

Paths below are relative to `src/xls/`.

## The system

| Part | State it keeps | Operations | Hard because |
|---|---|---|---|
| Channel queues, `interpreter/channel_queue.*` | a deque, a generator, under a mutex | `Write`, `Read`, `AttachGenerator`, `WriteRaw`, `ReadRaw` | several threads; two kinds of channel |
| JIT channel queues, `jit/jit_channel_queue.*` | a byte ring buffer that doubles when full | the same | unchecked copies; wrap-around, slack and doubling at every read position |
| Proc evaluators, `interpreter/proc_interpreter.*`, `jit/proc_jit.*` | a continuation per proc | `Tick` | leave and resume a proc after each send and at each receive |
| Serial proc runtime, `interpreter/serial_proc_runtime.*`, `proc_runtime.*` | ready list, blocked map, progress flags | `Tick`, `TickUntilBlocked`, `TickUntilOutput`, `ResetState`, `ClearInterpreterEvents` | wake-ups, deadlock detection, termination, errors in mid-tick |
| Ready/valid buffers, `codegen/block_conversion.cc` | valid and data registers | one clock cycle | back-pressure at the limit |
| Pipelined blocks, `codegen/block_conversion.cc` | pipeline, state, full-bit and one-shot registers | one clock cycle | all stages advance at once; state crosses stages backwards; several outputs taken at different times |
| JIT compilation of procs, `jit/function_base_jit.cc`, `jit/proc_jit.cc` | partitions, buffers, a continuation | `PartitionFunctionBase`, `BuildFunction`, `Tick` | values that live across an early exit; where execution resumes |
| NoC simulator, `noc/simulation/sim_objects.*` | credits, flits in flight, virtual-channel buffers | `RunCycle`, ticked to convergence; `SendFlitAtTime` | credit conservation, order of ticks, fixed priorities |
| NoC packets, `noc/simulation/packetizer.*` | partial packets, a map from sources to stores | `AcceptNewPacket`, `ComputeNextFlit`, `AcceptNewFlit` | flits of several sources interleave |
| Passes, scheduling, DSLX, IR, codegen of text, solvers, netlist, tools, ... | compiler data structures | rewrites | sequential; see "Not modelled" |

The parts interact as follows.  A runtime owns one evaluator and one
continuation per proc; an evaluator executes the nodes of a proc in
topological order and calls `Write` and `Read` of the channel queues; the
client of the runtime writes inputs to and reads outputs from the same queues,
possibly from another thread.  Block conversion takes a proc and a pipeline
schedule, places every node in its stage, adds the flow-control logic, and then
inserts the buffers that the options ask for between the logic and the ports.
The compiled proc of the JIT is what its evaluator's `Tick` calls.  NoC traffic
is cut into flits by a depacketizer, carried by the simulator and put together
by a packetizer.

What makes each part correct:

* a queue delivers what was written, in order, once (streaming), or the last
  value, any number of times (single value), and the JIT's byte queue cannot be
  told from the interpreter's deque;
* the runtime executes every proc as if it ran on its own, loses no wake-up,
  reports a deadlock only when there is one, and every call returns;
* a buffer is a FIFO of its capacity and keeps the ready/valid discipline;
* a pipelined block produces what the proc, run one iteration after the other,
  produces, whatever its neighbours do, and it drains;
* a compiled proc executes every node once per activation, from values of that
  activation, however often it returns early;
* the NoC is a lossless FIFO per flow, no buffer overflows, a cycle means the
  same in whatever order the components are ticked, and once the traffic ends
  every flit arrives;
* a packet is received as it was sent.

`PROJECT.json` lists under `hazards` the places in the code where these can go
wrong in ways a unit test would hardly reach, each with its properties.

## Modules

| Module | What it is |
|---|---|
| `ChannelQueue` | the interpreter's queue; also the abstract specification of the JIT's |
| `ByteQueue` | the JIT's ring buffer as operators (constructor, `Write`, `Read`, `Resize`) |
| `JitChannelQueue` | the thread-safe JIT queue around it, as a state machine; its refinement of `ChannelQueue` |
| `JitChannelQueue_proofs` | proofs |
| `ProcNetwork` | abstract specification: every proc executes its nodes in order at its own pace |
| `SerialProcRuntime`, `MCSerialProcRuntime` | runtime, interpreter and JIT evaluators, the client; its refinement of `ProcNetwork` |
| `SerialProcRuntime_proofs` | proofs |
| `RdvBuffers` | flop, skid and zero-latency buffer as operators: wires, and next register values |
| `RdvFifo` | abstract specification: a bounded FIFO with at most one datum in and one out per cycle |
| `RdvBuffer`, `MCRdvBuffer` | one buffer between arbitrary neighbours; its refinement of `RdvFifo` |
| `RdvBuffer_proofs` | proofs |
| `PipelinedBlock`, `MCPipelinedBlock` | the block made of a proc, with `RdvBuffers` at its ports; the sequential proc as a reference |
| `PipelinedBlock_proofs`, `PipelinedBlockSequential_proofs` | proofs |
| `JitPartition` | the compilation of a proc to partitions, its buffers and early exits, and `ProcJit::Tick` |
| `JitPartition_proofs` | proofs |
| `NocNetwork` | abstract specification: a FIFO channel per flow |
| `NocSimulator`, `MCNocSimulator` | sources, links, routers and sinks, ticked to convergence; its refinement of `NocNetwork` |
| `NocCredits_proofs`, `NocSimulator_proofs` | proofs |
| `Packetizer` | depacketizers at the sources, the packetizer at a sink |

Definitions keep the names of the code; the `map` of `PROJECT.json` gives the
lines each stands for.  A definition that a comment calls a mutant, or a flaw
to catch, is not part of the model: substituted for its neighbour, it makes one
of the properties fail, which shows that the property can.

### Channel queues

Every operation of a queue holds `mutex_` throughout, so an operation is one
action whichever thread calls it.  `ByteQueue` models the buffer slot by slot,
not byte by byte: an element is written at a multiple of the allocated element
size, and slot numbers are those multiples.  Sizes themselves are modelled
exactly: rounding to 16 bytes, the power of two of the initial buffer, the
slack that remains at its end and the capacity recomputed at each doubling,
because that is where an index can go wrong.  A generator delivers any value
or, having run out, none.  `WriteRaw`, unlike `Write`, does not look for a
generator; the models say so, and the refinement holds with it.
The thread-unsafe queue runs the same code without the lock.

### Runtime

A step is one node of a proc or one turn of the scheduling loop; a client with
`ConcurrentClient` uses the queues between any two steps.  The computation in
a proc is a parameter (`Holds`, `SendData`, `NextState`); a proc has one state
element, with values in `State`, and remembers its last receive.  Both evaluators are modelled, with
their differences: the interpreter turns a failed assertion into an error that
ends the whole call, the JIT does not look at events when it returns; and a proc
that waits has made progress, to the interpreter, if it is at another node than
the one it resumed at, and to the JIT if it left at another point than the last
time (`continuation_point`), so that a JIT proc that waits right after a send
counts as having moved.  No
channel that procs send on has a generator, so that sends cannot fail.  The
variable `completed` is a history variable.

### Buffers and pipelined blocks

A step is one clock cycle.  Registers are variables; wires are operators of
registers and of the wires the neighbours drive.  The exception is
`data_load_enable`, on which other wires depend in both directions between
stages: it is a variable constrained by `Settled`, the equations the code
generates, which have one solution because stage n depends on stage n + 1 only.
Block conversion *generates* this logic, so "the code does X" here means that
the code inserts the gate that does X; each operator is mapped to the function
that inserts it.

The proc is a parameter: the stage of each receive, send, state read and state
write, the predicates and the next-state function.  The j-th datum on an input
is the number j, and a send sends all the activation knows (its state and what
it received), so that anything lost, repeated, swapped or computed from another
iteration's values shows in what is produced.  `RecvOrder` is the order of the
receives' dependences: the predicate of a receive may look at the states and at
whatever was received before, in an earlier stage or in the same one, and
`Receiving` works out which of a stage's receives are made.  The neighbours keep the
ready/valid protocol (valid stays until the transfer) and are otherwise
arbitrary.  Modelled options: `flop_inputs`/`flop_outputs` with their kinds,
`gate_recvs` on, `add_idle_output`, a reset before the run.  For one stage
(`UpdateSingleStagePipelineWithFlowControl`) the general equations with N = 1
apply.  A non-blocking receive is always valid to the flow control and gives
whatever is at its port, or nothing; the history variable `polled` records what
each activation took along when it left the stage.  `entered` is another
history variable and counts the activations that have left stage 0.  The
reference is `Sequential`, a recursive function: the states, the data received
and all that was sent after j iterations of the proc, run one after the other,
the non-blocking receives finding data when `polled` says they did.
`OutputsAreSequential` compares what was delivered with what that run sends in
the iterations that have begun.  What an activation will take along from a poll
whose stage it has not left is open: some result, the same for all outputs, must
explain what was delivered so far.

`idle` is the NOR the code builds, and `AddIdleOutput` puts an input's
`signal_valid` into it, which is the literal 1 for a non-blocking receive
(`codegen/block_conversion.cc:1622`, `2193`).  So a block with one is never
idle, although `docs_src/codegen_options.md:284` makes `idle` the NOR of the
valids of the input channels and of the registers.  `IdleMeansEmpty` says
nothing of such a block; it is checked for `block_backedge`, which has none.

### JIT compilation of procs

`BuildFunction` is one step: `PartitionFunctionBase` (the loop over the nodes,
which splits by size and sets early exits apart, then the literals moved down to
their first users), the allocation of a buffer for every node (temp block, stack
or none) and the checks of `BuildPartitionFunction`.  The loops over nodes are
recursive functions (`Assigned`, `Called`), so that they can be reasoned about.
Then every
call of a partition function is a step, so that a `Tick` may end between any
two, and `NextTick`, which swaps the buffers, is one.  Early exits are numbered
from 1 and resume points from 0 (`ExitId`, `ResumeId`), and `ResumeAt` is the
switch at the entry of the compiled proc that leads from the one to the other;
a send and a receive right behind it share a resume point.  Of a value only its age matters: "now" if it was computed from this
activation's values alone, "old" for everything else, leftovers of the last
activation and uninitialized memory included.  The proc is not a parameter:
Init chooses any proc of N nodes, with parameters, literals, operations, sends
and blocking receives in any order, any operands and any next-state nodes; there
is a parameter somewhere, and sends and receives have a token among their
operands.  A non-blocking
receive never returns early and is an operation here.  The history variable
`computed` holds what each node function computed.

### NoC simulator and packets

A step is a whole `RunCycle`, because nothing can come between its ticks; the
ticks are functions of a record `net`, one operator per `TryForwardPropagation`
or `TryReversePropagation`, folded over the components and repeated up to
`max_ticks`.  Time stamps are only compared with the current cycle, so the set
`net.current` of what carries the current one stands for them; the cycle number
is folded since only cycle 0 (reset, the full credit update) is special.
Topology, virtual channels per port (`VCCount`), depths per virtual channel,
pipeline stages and the routing function are parameters;
`WiringAssumption` says what every network of the graph builder
(`network_graph_builder.cc`, `BuildLink`) satisfies, that the ports at the two
ends of a link have the same virtual channels, and that a router has a
route for every flit, without which the program stops (`sim_objects.cc:822`);
an entry of the routing table that no flit asks for may be any of the router's
outputs.
Ports have at least one virtual channel; `SendFlitAtTime` refuses a flit for one
that its source does not have.  Utilisation statistics and the record
of a flit's route are left out.  A flit enters its source's queue at the time
it is scheduled for: a flit scheduled ahead would only hold up those behind it.

In `Packetizer` the network between is a FIFO per source, which is what
`NocSimulator` is shown to be; a flit carries which bits of which packet it
stands for.

## Runs

| Run | Question | Bounds, and why they suffice |
|---|---|---|
| `jit_queue_48` | Does the ring buffer stay consistent, in bounds and equivalent to the deque? | 33-byte elements (48 allocated): capacities 2, 5, 10 with slack; 6 elements force two doublings at every read position |
| `runtime_pipeline` | Scheduling, wake-ups, deadlock reports, termination with and without a limit, refinement | three procs, feedback, a conditional receive that blocks for good when no configuration comes, JIT and interpreter mixed; a waiting proc stands before its sender in every tick |
| `runtime_poll` | Are errors in mid-iteration and a second client thread harmless? | a proc that polls its input, asserts and then sends on two channels, and a JIT proc before it in the package that waits for both in turn; single-value channels; an assertion that fails for half of the inputs, so that a call ends between a send and the wake-up of its receiver.  No proc waits for a channel the client writes |
| `runtime_shared_channel` | The finding below | two receivers and one sender |
| `rdv_skid` | Is a skid buffer a two-place FIFO? | four data, so that two buffered and one arriving differ |
| `block_backedge` | Do states that cross stages backwards have one owner, and is the result sequential? | four stages, two overlapping backedges, one-shot sends in two stages; enough data for the pipeline to fill, stall and drain several times |
| `block_fork` | Several sends per stage, several receives per stage | three sends, two zero-latency input buffers, one receive that is made only for some data of the other in the same stage; 5 data per channel |
| `block_merge` | Predicated receives, one non-blocking, exclusive sends, buffers on both sides | skid buffers in, flops out, a state across a stage; 4 data per channel |
| `block_poll` | A finding, see below | a non-blocking receive and two sends in one stage |
| `jit_partition` | Does every value survive the early exits, is every node executed once, does every activation complete? | all procs of 4 nodes, `MaxPartitionSize` 1, that is partitions of two nodes at most, since the code begins a new one only when the size exceeds the bound: enough for a value to cross an exit, for two exits in a row, for a split after an exit, and for outputs that are inputs |
| `noc_tree` | Credits, order of ticks, losslessness, arrival | two routers, two sources, of which one has one virtual channel and the other two, and two sinks; links with and without stages in either direction; buffers of depth 1 and, on one channel, 2, and 3 flits in all, so that flits compete for an output and wait for credits at both routers; 9 ticks, more than any cycle needs in either order |
| `packetizer_interleaved` | A finding, see below | two sources, packets of one and of several flits |

The bounds are `MaxElements`, `MaxQueue`, the tick limits, `MaxIn` and
`MaxOut`, `MaxFlits`, `MaxPackets` and N of `JitPartition`.  They cap how much
the world offers or takes; nothing inside a component is cut off by them.
A single-value JIT queue has no run: the three theorems about the queue cover
it, and `runtime_poll` uses single-value channels.

### Fairness

`FairSpec` of the runtime says that the thread that made a call keeps running
until it returns; the client owes nothing.  `CallReturns` therefore shows
termination of the scheduling loop itself.  (`TickUntilOutput` without a limit
is checked in `runtime_pipeline`, whose network outputs or blocks: with a proc
that always makes progress and never outputs the call does not return, and the
code does not say it would.)  `FairSpec` of the block says that the clock runs.
`EverythingComesOut` assumes in addition that every producer offers what it has
and every consumer becomes ready time and again, each by itself and never
necessarily in the same cycle as another: without that a neighbour can stall
any ready/valid channel for ever.

`FairSpec` of `JitPartition` says that the proc is ticked again and again (the
runtime does that) and that whoever sends to a waiting receive does so in the
end, a strong fairness since the receive is only tried within a tick.
`FairSpec` of `NocSimulator` says that the client keeps calling `RunCycle`
while it succeeds.  `EveryFlitArrives` is about traffic that ends, here after
`MaxFlits` flits: sources and routers serve virtual channels and ports by fixed
priority (`noc/simulation/sim_objects.cc:619`, `803`), so that a source with
something to send on VC 0, and a credit for it, in every cycle never sends on
VC 1.  In both, weak fairness is written as "time and again a step
that changes pc, or the cycle": such a step is enabled in every state from
which the system is meant to go on, so the two forms say the same.

### Findings

`runtime_shared_channel` finds `EveryProcCompletes`, the comment on
`ProcRuntime::Tick` (`interpreter/proc_runtime.h:41`: without conditional sends
and receives a `Tick` executes "exactly one iteration for all procs"), violated
when two procs receive from one channel: `blocked_procs` holds one proc per
channel, the second to block replaces the first, and the first is not woken in
that tick though its value is there.  It is tried again in the next `Tick`, so
nothing is lost.

`block_poll` finds that a non-blocking receive can have two results in one
iteration.  Its data and valid are wires, also while its stage waits for its
outputs (`codegen/block_conversion.cc:2193`).  With two sends in that stage,
one is taken while the port is empty and tells that nothing came; in the next
cycle a datum is at the port, the other is taken and tells of it, and the
activation leaves: no one result of the receive explains both.  `docs_src/ir_semantics.md:421` gives a
receive one result.  `block_merge` shows that a receive whose stage has no
sends is safe.

`packetizer_interleaved` finds packets torn when the flits of two sources
interleave: `DeallocatePartialPacketStore` erases the map entry whose source
index is the number of the store (`noc/simulation/packetizer.cc:51`), so a
completed packet makes another source's partial packet unreachable and keeps
its own entry.

## Proofs

All theorems are for every value of the constants that the named assumptions
allow (`JitQueueAssumption` and those of `ByteQueue`, `RuntimeAssumption`,
`RdvAssumption`, `BlockAssumption`, `JitPartitionAssumption`, `NocAssumption`
and `WiringAssumption`): any network of procs, any schedule, any proc, any NoC,
any sizes.  What a theorem needs beyond them is a
hypothesis in its statement.

* **`JitChannelQueue_proofs`**: `RingInvariant`, `QueueTypes`,
  `CopiesStayInBounds`, `JitQueueImplementsChannelQueue`.  The invariant says
  that the write index is the read index plus the number of elements, modulo
  the capacity.  The lemmas show for each operation of the buffer what it does
  to the sequence of its contents; the hard one is `ResizeOK`: moving the
  elements in front of the read index to behind the old end keeps the sequence.
  The refinement then follows operation by operation.
* **`SerialProcRuntime_proofs`**: `RuntimeTypes` and
  `RuntimeImplementsProcNetwork` hold for every network and client, shared
  channels and concurrent clients included: whatever the scheduler does, each
  proc executes its nodes in order.  `ProcsAreScheduledOnce` needs
  `OneReceiverPerChannel`, which the verifier only demands of procs meant for
  code generation; `runtime_shared_channel` shows what happens without it.  Its
  invariant `SchedInv` says that a proc is in one place (ready, waiting, being
  ticked, done) and that a waiting proc stands at a receive on the channel it
  waits for, which is why nobody displaces it.  `NoWakeupIsLost` and
  `ReportsAreTrueAlways` need in addition `NoConcurrentInput`: a client thread
  that writes to a channel a proc waits for wakes nobody, and the code does not
  claim it does.  `ReportInv` says that a waiting proc's channel is empty,
  except between a send and the scheduler's reaction to it, and that progress
  flags account for every completion.
* **`RdvBuffer_proofs`**: `SkidInvariant`, `AcceptsWhenever`,
  `PresentedDataAreHeld`, `BuffersAreFifos`.  The only strengthening needed is
  `SkidBehindData`: without it the skid buffer's contents are not a queue.
  `CycleOK` shows that the transfers of a cycle are those of a FIFO, `LeftOK`
  that the clock edge leaves what a FIFO would be left with.
* **`PipelinedBlock_proofs`**, for any number of stages, any schedule and any
  proc:
  * `StateOwnership` and `WritesNeverStall`.  The inductive invariant
    `OwnerInv` adds to `StateHasOneOwner` that the wires are settled.
    `LoadEnables` and `NextValid` reduce a cycle to "which stages are left";
    `OwnerStep` is then the argument by cases: with the register full nobody is
    between read and write and only the reading stage can let somebody in; with
    it empty the reading stage is shut and the owner moves on, stays, or writes.
  * `IdleBlockIsEmpty`.  A stage that misses a state does not count as valid, so
    `idle` could hide it.  But the last occupied stage misses none, for the
    state's owner would be in a later stage; hence if no stage counts as valid
    none is occupied.  For a block that polls the theorem holds because its
    `idle` never rises (see above).
  * `OutputPortsHold`, if ports are buffered or no non-blocking receive shares a
    stage with a send (`SendsSeeNoPolls`; `block_poll` shows the other case).
    `StalledStage` shows that all a stage computes stays as it is while one of
    its sends waits.
  * `BlockTypes` and `StagesAreInformed`, for a set V of states that the proc's
    next-state functions map to itself.  Registers start out unknown; the
    theorems say that nothing unknown is ever used in an occupied stage.
* **`PipelinedBlockSequential_proofs`**: `PipelineIsSequential`, for any number
  of stages, any proc, any schedule, any buffers and any neighbours: the block
  delivers what the proc sends, iteration by iteration.  Its hypotheses are
  about the proc: `StatesIn(V)` as above; `Scheduled`, that a next state depends
  on what is known in its stage, and the predicate of a receive on the states
  read up to its stage and on what was received before it, in an earlier stage
  or in the same; and `SendsAreSingle`, that one-shot logic is not used in a stage that polls
  (`block_poll` is what happens otherwise) and that sends without one-shot logic
  exclude each other where they share a stage (`MutuallyExclusive` says so, or
  there is one output only).  The procs of `block_backedge`, `block_fork` and
  `block_merge` satisfy them, that of `block_poll` does not.
  The invariant `Follows(F, left)` says where each part of the pipeline has come
  to: left[n] activations have left stage n, so stage n works on iteration
  left[n] + 1 and holds what that iteration knows before it (`StagesFollow`); a
  state register holds the state after as many iterations as have left the
  stage that writes it (`StatesFollow`); an input buffer holds the data that
  follow those received (`InputsFollow`); and what was delivered, then what the
  output buffer holds, is what these iterations sent, and the datum that
  one-shot logic has sent ahead (`OutputsFollow`).  The counts differ by one
  exactly between neighbours of which the later one is occupied, and between
  reader and writer of a state in flight (`Counts`): that is where `OwnerInv`
  comes in.  What polls find is not known in advance, so the invariant is stated
  for every `F` in `Finds` that agrees with the polls so far.
  `ActivationIs` shows that a stage with states and inputs computes what its
  iteration knows there, receive by receive in their order, `SendOnce` that a stage that is left has sent each
  datum once, `InputQueue` and `BufferIsQueue` that every kind of buffer is a
  queue; then there is a lemma per register (`StagesStep`, `StatesStep`,
  `InputsStep`, `OutputsStep`).  `SequentialUnfolds` first shows that the
  recursive function has a solution.
* **`JitPartition_proofs`**: `CompiledProcTypes`, `CompilerChecksHold`,
  `CompiledValuesAreCurrent`, `NodesExecuteOnce`, for every proc of any number
  of nodes and every maximal partition size.  `AssignedAll` is the invariant of
  the loop of `PartitionFunctionBase` (partitions only grow; an early exit is
  alone and behind the current partition); `PartitionsAreOK` shows that moving
  literals keeps it.  `LoadsAreCurrent` is the heart: an operand is in no later
  partition than its user, so it is behind, and if its user is in another
  partition AllocateBuffers put it in the temp block.  The invariant `JitInv`
  then says that the partitions before the position, and only they, have been
  executed once and from current values, and where the position is after an
  early exit; `ExitIds` and `ResumeIds` show that the two numberings name every
  exit and every resume point once, so that the switch finds it.  The two recursive functions are shown to have a solution
  (`AssignedUnfolds`, `CalledUnfolds`) before anything is said about them, and
  the inductions over nodes are instances of `UpTo`, a least counterexample.

* **`NocCredits_proofs`** and **`NocSimulator_proofs`**: `SimulatorTypes`,
  `CreditsAreConserved` and its corollary `NoBufferOverflows`, for every network
  that the graph builder wires (`WiringAssumption`), whatever its pipeline
  stages, routes and traffic, and for every order in which `Tick` visits the
  components.  A cycle is one step of the specification, so the argument is an
  induction over the propagations within it.  `CycleInv` holds after each: the
  sender's credits, the link's stages and the receiver's buffer, together with
  what is on a channel and, by the time stamps, handed over but not yet taken,
  add up to the depth (in cycle 0, to nothing until the receiver has sent the
  depth).  It needs the order in which the stamps of a cycle are set
  (`SenderStamps`, `LinkStamps`, `ReceiverStamps`) and that a router's repeated
  reverse propagation puts the same credits on its channels (`ReturnsKept`).
  There is one lemma per propagation (`SrcForwardOK` to `RouterReverseOK`);
  within a router, `MidInv` is kept by every flit it moves (`RouteHeadOK`), for
  `Priority` names each buffer once.  `ConvergedOK` shows that once all
  components are done the channels no longer count.  Folds are recursive
  functions, shown to have a solution by `Recursion`.  The types rest on the
  same argument: that a router owes at most one credit per port and VC is part
  of it.  A cycle that does not converge ends the simulation and keeps its types.

Only model-checked: of the NoC, that a cycle always converges and does not
depend on the order of ticks (`OrderIndependent`), and that the network is a FIFO
per flow (`LosslessNetwork`); and liveness (`CallReturns`, `EverythingComesOut`,
`ActivationsComplete`, `EveryFlitArrives`), which the prover does not do.

## Plan

Done: queues, runtime, buffers, pipelined blocks with blocking and
non-blocking receives, compiled procs, the NoC simulator and its packets, and
the theorems above.  Next, in this order:

1. **Losslessness of the NoC**: the order of the flits of a flow, by the same
   induction over the propagations of a cycle as `CreditsAreConserved`.
2. **Reset in mid-run** (with `reset_data_path` off the ready wires rise during
   reset) and the combinational block.
3. Channel legalisation's adapter proc; the UART in `uncore_rtl`; union-find
   and min-cut as pure algorithms.

## Not modelled

Reset in mid-run; single-value channels of blocks (wires without flow control);
functions as pipelines (no flow control); the scheduler that produces a
pipeline schedule (its result is a parameter; what is assumed of it is that no
state is written before it is read, that receives follow what they depend on
and, in `PipelineIsSequential`, that operands are there where they are used); NoC configuration, routing-table
construction and traffic models (they give `NocSimulator` its parameters and
its inputs), its statistics, and ports without virtual channels; what a node
computes, in every evaluator; generation of LLVM IR and Verilog; the DSLX front
end, IR, optimisation passes, solvers, netlists, delay models and tools, which
are sequential transformations of data structures whose correctness is about
bit-vector semantics and graph rewrites and not about the order of events.
`PROJECT.json` lists each with its reason.
