# A verification project for FlowGraph

FlowGraph (`src/`) is a Go library that runs graphs of nodes: a Pregel engine executes vertices in
supersteps on a pool of work-stealing workers, channels carry messages between goroutines or across
restarts, checkpoint savers keep execution states, and a layer of use cases puts them together. This
directory holds TLA+ models of the parts whose behaviour depends on interleavings, failures and
restarts, or whose data is easy to get wrong, the TLC configurations that check them, and TLAPS proofs
of what the runs check, for every value of the constants, wherever the provers can do it.

Run `tlc -config X.cfg M` for the pairs in the table of runs below, and `tlapm M.tla` for the modules
whose name ends in `Proofs`.

## 1. Inventory

| Component | State | Operations | Interacts with | What is hard | What makes it correct |
|---|---|---|---|---|---|
| Pregel engine, `core/pregel/engine.go` | vertex states, active flags, retry counters, the counter of collected results | `Run`, its supersteps, retries, roll back, `Stop`, `Stats` | scheduler (tasks out, results back on a channel per superstep), aggregator, checkpoints | workers change state maps in place while `Run` times out and rolls back; retries re-enter the queues | each vertex of a superstep is executed once and its final result read once; nothing runs across a barrier; a failed superstep leaves no trace; `Run` and `Stop` return |
| Work-stealing scheduler, `scheduler.go` | one bounded queue per worker, a round-robin counter, a context | `Schedule`, `worker`, `stealWork`, `Stop` | engine | thieves, owners and the engine meet on the queues; `Schedule` blocks on a full queue | tasks are neither lost nor doubled, workers never wait for `Run`, they all exit |
| Checkpoint manager and retry handler, `recovery.go` | checkpoints by superstep | `SaveCheckpoint`, `LoadCheckpoint`, `HandleError` | engine | retention counts | the checkpoint of the running superstep exists; retries are bounded |
| Message aggregator, combiners and vertex programs, `message.go`, `vertex.go` | messages by target; the programs are pure | `AddMessage`, `GetMessages`, `Clear`, `RemoveMessagesForVertex`; `Combine`; `Compute` | engine | when it is cleared; what a program can tell from a combined message | messages belong to the superstep they are read in; a program computes the same with and without its combiner |
| Cache-optimized engine, `cache_optimizer.go` | partitions, and what the engine has | `Run` | scheduler | batches applied partition by partition, errors and timeouts in between, old tasks | a superstep is atomic: done by all active vertices or not at all |
| Streamer, streaming engine, `streaming.go` | a bounded event channel, a flag, a consumer goroutine | `Start`, `EmitEvent`, `Stop` | engine, Pregel executor | emitting after `Stop`, starting again | events are handled in order, or dropped, or left |
| Superstep barrier, `superstep.go` | a wait group | `AddVertex`, `CompleteVertex`, `Wait` | nobody | – | – |
| In-memory channel, `core/channel/inmemory.go` | a Go channel and a closed flag | `Send`, `Receive`, `Close` | all layers | the flag is read under a lock and used after it | a bounded FIFO queue until `Close` |
| Buffered channel, `buffered.go` | a slice, a closed flag, the current notify channel | `Send`, `Receive`, `Close`, `Clear` | all layers | a hand-made condition variable | a bounded FIFO queue; nobody sleeps beside what it waits for |
| Persistent channel, `persistent.go` | message files, an index file, queue, counter and size in memory | open, `Send`, `Receive`, `Close`, `Cleanup`, retention, clean-up loop | file system | two kinds of file change one after the other; crashes, failed writes | accepted messages survive; order, limits and sizes hold after a restart |
| Branch manager, `app/usecases/branch_manager.go` | branches, join points | `CreateBranch`, `CreateJoinPoint`, `CompleteBranch`, timeout, cancel, clean-up | callers' goroutines, the timer | three critical sections per report | a join completes when its strategy says so, its handler is called once |
| In-memory saver, `adapters/repository/memory/checkpoint.go` | checkpoints, times to live, access order, size, each with its own protection | `Save`, `Load`, `List`, `Delete`, eviction, clean-up goroutine | checkpoint services | operations interleave between the four places | size accounting, nothing lives for ever, expired entries go |
| Graph executor, `executor.go` | registry of executions | `Execute`, `Resume`, `Stop`, `GetStatus` | repository, checkpoint service | registry entries on error paths, graphs that change while they run, what a resume starts from | the registry agrees with what runs; checked graphs end; step counts match states |
| Streaming executor, event bus, `streaming_executor.go` | subscribers, metrics | `Execute`, `Resume`, `Stop`, `Publish` | graph executor | a goroutine for each event and subscriber; a nil response | metrics agree with the executions whatever the order of events |
| Pregel graph executor, `pregel_executor.go` | registry, an engine and a streamer for each call | `Execute`, `Resume`, `Stop` | engine, streamer | every node runs on its own copy of the input; states merged in random order | the output has something of every node |
| Interrupt manager, `interrupt_manager.go` | interrupts | `RequestInterrupt`, `RespondToInterrupt` | saver, people | status read and written without the lock | one answer for each interrupt |
| State services, `services/state.go`, `enhanced_state.go` | state copies, channels, hooks | save, load, update, clean up | channels, hooks | copies made without the lock, live maps on channels | a loaded state is one that was stored |
| Checkpoint services, `services/checkpoint.go`, `streaming_checkpoint.go` | – | create, load, list | savers | what survives a saver | a resumed execution goes on from what was saved |
| Graph entities, repository, validation, evaluator, processor (`core/graph`, `adapters/repository/graph`, `pkg/validation/graph.go`, `evaluator.go`, `processor.go`) | graphs, shared by pointer | add, save, get, validate; evaluate, process | executors | cycle detection; placeholders for nodes | `hasCycle` is exact |
| Reducers, `core/channel/reducers.go` | none | `Reduce` | callers | slices that share an array | a reduction changes nothing its caller holds |
| Serialization, field validation, facade, prebuilt graphs, metrics, commands, examples, SQL savers | none of their own, or the database's | – | – | – | see `components` in PROJECT.json |

How they interact: an executor asks the repository for a graph, runs its nodes either itself or as the
vertices of a Pregel engine, and saves its state through a checkpoint service into a saver. The engine
gives tasks to the scheduler's queues and reads their results from one channel per superstep. Services
publish state changes and events on channels. Goroutines share memory under mutexes; nothing is
distributed. Only the persistent channel and the SQL savers outlive the process.

The hazards, each with its line and the properties that watch it, are in PROJECT.json.

## 2. Plan

Modules, in order; those with a mark are written.

1. ✓ `CheckpointManager`, `PregelEngine`, `PregelEngineProofs`
2. ✓ `MessageChannel` (the abstract channel), `BufferedChannel` and `BufferedChannelProofs`,
   `InMemoryChannel`
3. ✓ `PersistentChannel`, `BranchManager`, `InMemorySaver`
4. ✓ `WorkflowGraph`, `GraphExecutor` (with the repository and the checkpoint service), and
   `StreamingExecutor`, which composes it with the event bus
5. ✓ `VertexPrograms`, `MessageAggregator`, `AtomicSupersteps` (the abstract engine) and
   `CacheOptimizedEngine`
6. ✓ `Streamer`, and `PregelGraphExecutor`, which composes it with `GraphExecutor`'s state
7. ✓ `StateService`, `InterruptManager`, `Reducers`
8. ✓ `BranchManagerProofs`, `PersistentChannelProofs` and `InMemorySaverProofs` (with `SumTheorems`),
   `ServicesProofs`, `ExecutorProofs`
9. ✓ `SumTheorems` on folds and recursive functions, and with it the cycle check, the reducers, the cached
   engine's refinement, the metrics, the Pregel executor's output and the combiners

The MC modules instantiate one component or composition each, but for `MCServices`, which has nine small
ones that share no state (section 3).

Abstract specifications: `MessageChannel` for the channels, `AtomicSupersteps` for an engine without
messages. An atomic map for the saver would have to leave out eviction, and says no more than
`SizeIsAccounted` and `WillExpire`.

## 3. The modules and the code

### PregelEngine, CheckpointManager

`pc` is the position of the goroutine in `Run`: `loop` (the head of the superstep loop), `schedule`,
`collect`, `reschedule`, `recover`, and `done` or `failed` once it returned. `batch`, `toSchedule`,
`collected` and `errs` are the locals of `executeSuperstep` and `scheduleVertexTasks`; `states`,
`active`, `halted`, `retryAttempts`, `inbox`, `checkpoints` are fields of `Engine`. `queues`, `counter`,
`wstate`, `wtask` and `sched` are the scheduler. One action is one step another goroutine can see:

| Action | Code |
|---|---|
| `Run`, `BeginSuperstep`, `EndRun` | `Run`, `initActiveVertices`, head of `runStep` with `SaveCheckpoint`, `getActiveVertices` |
| `ScheduleVertex`, `SchedulePanics` | one turn of `scheduleVertexTasks`; blocked while the queue is full; a send on the queues `Stop` has closed |
| `ReceiveResult`: `HandleSuccess`, `HandleRetry`, `HandleGiveUp` | a turn of the receive loop, `handleVertexResult` |
| `Reschedule` | the `Schedule` call of a retry, which may block as well |
| `TimeOut`, `SuperstepFailed`, `Recover`, `EndSuperstep` | the context branch of the select, the errors at the end, `runStep`'s roll back and its orderly end with `Clear` |
| `TakeOwn`, `OwnQueueEmpty`, `Steal`, `StealNothing`, `WorkerExit` | `worker`, `stealWork` |
| `MutateInPlace`, `FinishOk`, `FinishFailed` | a vertex program that writes into the map it was given (as `GraphVertexProgram.Compute` does), the end of `executeTask` |
| `StopCancel`, `StopClose` | `Stop` before and after `wg.Wait` |

Go's references are the delicate part: a task holds the state map and the result channel it was created
with. The engine drops both together, when it rolls a superstep back; `epoch` counts the roll backs, and
a task of an earlier epoch still executes, but what it writes and sends reaches nobody. `runs`, `done`,
`fails` and `stepStart` are history variables no guard reads.

### MessageChannel, BufferedChannel, InMemoryChannel

`MessageChannel` is the contract of the `Channel` interface: a bounded FIFO queue with calls that are
invoked and return, take effect at one step in between, and fail when it is closed or they give up.
`BufferedChannel` adds what the code does to get there: the mutex sections of `Send` and `Receive`, the
notify channel each waiter picks up under the mutex (`signal` replaces it and closes the old one) and
the wait outside the mutex. Its refinement mapping is the identity on queue and flag and hides the
waiting. `InMemoryChannel` splits `Send` and `Receive` at the point where the code has released the lock
after reading `closed` and has not reached its select yet (`selecting`).

### PersistentChannel

The disk is `files` and `index`; the rest is memory and is lost in a `Crash`. Operations hold the mutex
throughout, so at most one is under way; `todo` is what is left of it, one element for each change of the
disk, so a crash or a failed write can come between any two. `Open` is `loadIndex` with its three
cases. `RemoveOldest` is one turn of any of the three retention loops, with the save of the index it
makes each time as the next step. File names sort by digits; `Radix` is their base, smaller than ten in
the models so that the order of names departs from that of numbers with few files.

### BranchManager

One join point, its branches, the callers of `CompleteBranch` between its three critical sections, and
the timer. `handled` counts the calls of the completion handler. `CreateBranchSpec` and the evaluation
of branch conditions, which only decide whether `CreateBranch` succeeds, are left out.

### InMemorySaver

`checkpoints`, `ttlMap`, `accessOrder` and `currentSize` are the four places; `proc[p].at` is the next
place a goroutine visits. `orderOwner` is the goroutine that holds `orderMutex` for more than one step,
which only `evictLRU` does. Expiry is a step of the environment. IDs may be saved again at any
time; `saved` is history: `again` says that one was, and `torn` are the IDs stored in the middle of a deletion
that will take their time to live (section 7, `checkpoint.go:368`).

### WorkflowGraph, GraphExecutor, StreamingExecutor

`WorkflowGraph` has no state: graphs as records, `AddNode` and `AddEdge` with the checks they make, the
validation with `hasCycle` as the recursive function it is (`Visited` is a turn of its loop over the edges,
`Searched` the search from one node, `HasCycle` the searches from all nodes in some order, as the code
ranges over a map), the evaluator (`NextEdges`) and the processor (`Processed`). A state map is reduced to the keys that conditions read (`status`, `error`) and the marker
each type of node leaves (`by`).

`GraphExecutor` adds the heap of graphs (`heap`: builders, the repository and executions share pointers),
`repo`, `registry`, `checkpoints` and, for each call, `exec[e]`: where it is (`pc`), its graph, state,
configuration and steps. An action is the part of a call between two points where another goroutine can
come in: `Execute` or `Resume` up to the registration, `ResumeValidate`, `StartGraph` (the second read of
the repository), `RunNode`, `NodeFails`, `EndGraph`, besides `Stop`, the builder's `AddNode`, `AddEdge`,
`SaveGraph`, and the deletion of a checkpoint. `LoadedConfigs` is what is left of a configuration after a
saver: every saver under `src/` turns it into something `LoadCheckpoint`'s type assertion does not accept, or
keeps it (a saver that stores the Go value), so both are tried. `applied` and `resumes` of a checkpoint
are history.

`StreamingExecutor` adds the event bus around it: `published[e]` is how many of the events of its response
(`EventsOf`) the call has published, `inflight` the bag of events whose goroutines have not run (`HandleEvent` takes one out), `eventCounts`, `nodeDurations` and
`executionTimes` the fields of `MetricsSubscriber`.

### VertexPrograms, MessageAggregator, CacheOptimizedEngine, AtomicSupersteps

`VertexPrograms` translates the three programs and the five combiners; each loop over messages is a fold
(`Total`, `BestOf`, the distance in `ShortestPath`). `MessageAggregator` is the map from targets to messages,
with `MailSpec` for its behaviours alone. `CacheOptimizedEngine` is the loop of the second engine with real programs:
`engine.inFlight` are tasks whose worker has not finished, `results` the channel, `batch` what was
received and not applied. `ProcessBatch` takes the partitions in any order (a Go map) and stops at the
first error; `Applied` are the results before it. A task of a superstep that was rolled back writes to maps nobody looks at any more, as in
`PregelEngine`. `AtomicSupersteps` is what a caller may rely on; the refinement mapping shows the states
saved at the start of a superstep until it ends (`ShownStates`, `ShownActive`, `ShownResult`).

### Streamer, PregelGraphExecutor

`streamer[s]` is the channel, the flag, how many goroutines wait for events (`idle`) and which events
handlers have in hand (`held`); panics end the process. `PregelGraphExecutor` reuses the variables of
`GraphExecutor` for registry, repository and calls, and has in `bsp[e]` the engine of a call: a state for
each node, who is active, what the superstep still has to execute. That a superstep is a barrier and
fails as a whole is taken from `PregelEngine`; messages between nodes are left out, because the engine
discards them (7.1). Each event of the engine is an `EmitEvent` in the same step. Its assumption gives the
types of the checkpoints there are before it starts.

### StateService, InterruptManager, Reducers

`StateService` has both services: maps are objects of a heap, so who shares which map is explicit, and a
copy is made key by key (`CopyKey`), without the mutex in the enhanced service. `InterruptManager` splits
`RespondToInterrupt` at each unsynchronized read or write of the interrupt. `Reducers` has slices as
pieces of arrays with a capacity; `held` are the values a caller has.

### MCServices

Nine components that share nothing are checked in one run: `focus` is chosen at the start and names the
one whose actions are taken, the others stay in an initial state. Every property is an invariant or an
action property of one component, so the run checks what nine runs would.

## 4. The runs

| Run | Module, configuration | What is checked | Result |
|---|---|---|---|
| `engine_safety` | `MCPregelEngine`, `PregelEngine_safety.cfg` | `TypeOK`, `ExactlyOnce`, `Barrier`, `ResultsNeverBlock`, `AllOrNothing`, `RetryBudget` | hold (about 2 million states) |
| `engine_live` | `PregelEngine_live.cfg` | `NoMessageOvertakes`, `CallsReturn` | hold |
| `engine_delivery` | `PregelEngine_delivery.cfg` | `MessagesReachNextSuperstep` | violated, see 7.1 |
| `buffered` | `MCBufferedChannel`, `BufferedChannel.cfg` | `TypeOK`, `NoLostWakeup`, `ImplementsMessageChannel`, `WaitersServed` | hold |
| `inmemory_panic` | `MCInMemoryChannel`, `InMemoryChannel_panic.cfg` | `NoPanic` | violated, see 7.2 |
| `persistent` | `MCPersistentChannel`, `PersistentChannel.cfg` | `TypeOK`, `AcceptedIsDurable`, `QueueInOrder`, `SizeIsExact`, `NewestIsKept` | hold (1.7 million states) |
| `persistent_crash` | `PersistentChannel_crash.cfg` | `HeadIsReadable` | violated, see 7.3 |
| `branch` | `MCBranchManager`, `BranchManager.cfg` | `TypeOK`, `JoinIsComplete`, `HandledOnce`, `WaitEnds` | hold |
| `saver` | `MCInMemorySaver`, `InMemorySaver_safety.cfg` | `TypeOK`, `SizeIsAccounted`, `WillExpire`, `ExpiredAreRemoved` | hold |
| `saver_evict` | `InMemorySaver_evict.cfg` | `EvictionProceeds` | violated, see 7.4 |
| `execution` | `MCExecutor`, `Executor.cfg` | `RegistryMatches`, `AcyclicVisitsOnce`, `CheckpointCountsSteps`, `MetricsAddUp` | hold |
| `services` | `MCServices`, `Services.cfg` | `ImplementsAtomicSupersteps`, `CombiningIsTransparent`, `HandledInOrder`, `OutputIsComplete`, `LoadIsSnapshot`, `RespondOnce`, `CycleCheckIsExact`, `ReduceIsPure`, `ImplementsWhileOpen` | hold |

Each property that holds has a mutant in PROJECT.json: an operator beside the definition it replaces, marked
"Mutant" in its comment, that changes the model the way a plausible bug would change the code, and
breaks that property.

What the runs show, beyond the names:

* Counting results is enough. The engine's only barrier is `collected`; it survives retries, stealing
  and two workers on one-slot queues. After a timeout it no longer holds, and it is the roll back, which
  replaces every state map, that keeps the old tasks from doing harm (`Barrier`, `AllOrNothing`).
* No message overtakes the barrier on its way to a vertex that executes for the first time in a superstep,
  because results are handled only when every task has been scheduled; a retry is the one way around it,
  and only for messages of peers that have succeeded (`NoMessageOvertakes`; that it happens is in section 7).
* The result channel needs no more than one slot per active vertex although retries send again
  (`ResultsNeverBlock`), which is why neither `Run` nor `Stop` can be held up by it.
* The notify channel of the buffered channel is a correct condition variable: a waiter that sleeps waits
  for something that has not happened (`NoLostWakeup`), for `Send`, `Receive`, `Close` and `Clear`.
* The in-memory channel's stale flag does no harm until `Close` (`ImplementsWhileOpen`). After it, a Send may
  panic (7.2) and a Receive may return the zero message without an error (`ReceiveZero`).
* Whatever races for a checkpoint, an ID that is saved again included, it keeps a time to live or is removed,
  with one exception: a Save in the middle of a deletion of its ID (`WillExpire`; section 7,
  `checkpoint.go:368`).
* Writing the message file before the index, and the index by rename, keeps every accepted message over
  crashes and failed writes; a number is not reused while its file is owed (`AcceptedIsDurable`,
  `QueueInOrder`).
* Eviction never reaches the message that is being sent as long as the size is exact (`NewestIsKept`).
* Re-reading the status in the third critical section is what makes the join handler run once.
* The registry of the sequential executor is exact but for one early return, and a graph that was checked
  and left alone is walked without coming back; both survive `Stop`, `Resume` and other calls at any
  moment. Metrics are right although events are handled in any order, because the counts commute.
* The cached engine's batches and partitions are invisible: it implements atomic supersteps, with errors
  in the middle of a batch as well, because the roll back replaces every map.
* PageRank and shortest paths cannot tell messages from the sum or the minimum of them.
* Two answers to an interrupt may overlap, and then both are accepted; but none that begins after one was
  accepted is.
* The three colours of `hasCycle` are exact on every graph of three nodes (and of any number, section 6).

### Bounds

* Engine: two vertices and two workers with one-slot queues, so that queues fill, `Schedule` blocks and
  both workers steal; two supersteps (three for liveness) so that there is a barrier between two real
  supersteps; one retry, so that a vertex fails, succeeds on retry or is given up; two calls of `Run` in
  the safety run, so that tasks left behind by a timeout meet the next `Run`. One checkpoint is kept
  (ten in the code), so that cleaning up happens. The safety run has two vertex states and no messages,
  the liveness run messages and one state: no guard of the engine relates the two.
* Buffered and in-memory channel: three goroutines, two of one kind against one of the other in every
  combination, capacity two, two messages and an invalid one. Calls repeat without bound.
* Persistent channel: `MaxId` bounds the number of Sends to four: two more than fit, so retention acts
  and acts again. `MaxMessages` is 2, `MaxSize` 3 with messages of one or two bytes, so that one Send
  evicts several; `Radix` is 3, so that recovery confuses the order. Crashes, failed writes and damage
  are unbounded.
* Branch manager: two branches and two callers, each branch reported up to twice (`Reports`), all
  strategies, with and without timeout.
* Saver: two callers and the cleaner on two IDs of different sizes, of which both together exceed the
  limit; `MaxSaves` bounds the Saves to two, of one ID or of both. Two Saves and the deletions between them
  are what it takes for an ID to be saved again while it is loaded, expires or is deleted.
* Executor: two calls, one graph of up to two nodes and two edges that may still be edited, at most three
  steps, a checkpoint every second step and at most one checkpoint, one subscriber. Two calls are enough
  for each to find the registry, the graph and the checkpoint of the other; three steps for a cycle to be
  gone through and a checkpoint to be resumed from in the middle.
* Services: an engine of three vertices, two partitions, batches of two and two calls of `Run` (a batch
  is left over, a partition has two vertices, an old task meets a new run); up to three messages; every
  graph of three nodes and up to five edges in every order of insertion for `hasCycle`; three small
  graphs for the Pregel executor, each of which may get a node or an edge while it runs; a streamer with
  two slots and six events; two clients and keys for the state service; three answers to an interrupt;
  two reductions, one on the result of the other, over values that share arrays.

`CHECK_DEADLOCK FALSE` is set where the bounds on calls or the end of `Run` let the system stop, and in
the saver's runs because an eviction stops it.

### Fairness

* Engine: weak fairness of the `Run` goroutine, of each worker and of `Stop`. Each is a Go goroutine that
  is runnable as long as its action is enabled, and Go's scheduler is preemptive. `Compute` is assumed to
  return. Timeouts are never fair: `CallsReturn` does not rely on one.
* Buffered channel: weak fairness of every step of a call under way but `GiveUp`: a call need not time
  out or be cancelled. New calls are not fair, so a sender's peer need not come.
* Branch manager: weak fairness of a caller between its critical sections (the handler is assumed to
  return) and of the timer, which fires once its time is over.
* Saver: weak fairness of calls under way and of the clean-up ticker. After `Close` of the saver the
  ticker has stopped and `ExpiredAreRemoved` is not claimed.
* The execution and services runs assume none. That calls of an executor return is not claimed: nothing in
  the model can hold one up.

## 5. Only model-checked

* Liveness (`CallsReturn`, `WaitersServed`, `WaitEnds`, `ExpiredAreRemoved`): the provers have no rule for
  fairness here.

Every other property of a passing run is a theorem of section 6.

## 6. What is proved

For all values of the constants that satisfy the `ASSUME` of the module (finite sets of vertices, branches,
goroutines and checkpoint IDs, positive numbers of workers and slots, and so on). Further hypotheses are
in the statements of the theorems, and named below.

`PregelEngineProofs`:

* `Invariance`: `Spec => []Inv`. `Barrier` is not inductive: it says that no live task is left when
  `collected` has reached `Cardinality(batch)`, and to know that one has to know where the other tasks
  are. `Inv` adds `Counting` (`collected` is the number of vertices whose result was final, `done`),
  `Exclusive` (a live task or result is of a vertex that is neither waiting to be scheduled nor done, and
  no two are of the same vertex), `NoFuture` (no task is of an epoch to come) and `Checkpointed` (while a
  superstep executes, its checkpoint exists and holds the states it began with). When `collected` reaches
  the size of the batch, a cardinality argument gives `done = batch`, so there is nothing left that a
  live task could be of.
* `TypeCorrect`, `BarrierHolds`, `FailureIsAllOrNothing`: `TypeOK`, `Barrier` and `AllOrNothing` follow.
* `FullInvariance`: `Exclusive` says that no vertex is in two places, not that it is in one. `FullInv` adds
  that none gets lost (a vertex of the batch that is not done is still to be scheduled, or has a live task
  or result), what a stopped scheduler may still do, and for the first `Run` of an engine how often each
  vertex failed, whose messages the aggregator has (`FirstRunMail`) and what tasks hold of them.
* `ExecutedExactlyOnce`: no vertex is lost and none is twice somewhere. `SendingNeverBlocks`: the results in
  the channel and those still to come are of different vertices of the batch, so an injection into the
  batch shows that there is room. `RetriesAreBudgeted` follows from the part about the first `Run`.
* `MailWaitsForTheBarrier`: while tasks are scheduled nothing has been collected, so `done` and with it the
  aggregator are empty (`FirstRunMail`); the task of a retry is made when the vertex has failed, and gets
  messages of vertices in `done` that are not given up, which they stay for the rest of the superstep.

`BufferedChannelProofs`:

* `TypeCorrect` and `NoWakeupIsLost`: `TypeOK /\ NoLostWakeup` is inductive as it stands; every change
  of queue or flag signals, so it leaves nobody on the current notify channel.
* `Refinement`: `Spec => ImplementsMessageChannel`, from the type invariant: each step is the step of the
  abstract channel with the same name, or changes nothing it shows.

`BranchManagerProofs`:

* `HandlerRunsOnce`: a completed join point has exactly one call of the handler, under way or over, and no
  other has any (`Handling`); a caller in its third critical section finds the status changed by whoever was
  first.
* `JoinWaitsForAll`: a branch that reported once is either waiting for the second critical section or counted
  once (`CountedOnce`), and a condition that was met stays so until somebody acts on it (`ConditionMet`);
  counting with a bijection turns the number of reports into the set the strategy asks for.

`PersistentChannelProofs`:

* `Invariance`. The invariants relate disk and memory between operations, but an operation is a list of
  disk changes (`todo`) any of which a crash may cut off. `Inv` therefore says, for each list an operation
  can be left with (`StepsInOrder`), what disk and memory have in common meanwhile: which file the index does
  not have yet, or has no longer. A crash empties the list and the memory, and what is left is what `Open`
  makes sense of. `OpenRecover` sorts the files of the disk, any number of them: of the orders of a finite set
  (`SetToSeqs`) one is by name. How the damage of an index is repaired is part of the invariant.
* `AcceptedStaysDurable`, `QueueStaysInOrder`, `SizeStaysExact` follow.
* `SendKeepsItsMessage` is an action property, and has the hypothesis that every message is at most as big
  as `MaxSize` (`AllFit`): with the message alone in the channel, neither limit asks for more.

`SumTheorems`: the models sum over sets, fold over sequences and have a recursive function, and no theorem of
induction over them can be used. Two arguments take its place.

* `SumFunctionOnSet` is shown to be the cardinality of a set with as many elements for each `x` as its weight;
  what is wanted of sums (`SizeIsExact`, `SizeIsAccounted`, `MetricsAddUp`) is then known of cardinalities.
  That the two are the same takes well-foundedness of the subsets of a finite set: a smallest set where
  they differ cannot exist.
* `FoldLeft`, `FlattenSeq` and recursive functions are some function that satisfies an equation, of
  which nothing is known until there is one. `RecursionOnNumbers` and `RecursionOnSubsets` show that there is,
  for any equation whose right-hand side is given by functions of one set: there is no smallest number, and no
  smallest set, up to which there is none. `FoldSteps` turns a fold into the row of its intermediate results,
  and `UpTo` goes along such a row. `SetIsListed` is what is used of `SetToSeq`.

`InMemorySaverProofs`:

* `TypeCorrect`, with an invariant that says who holds `orderMutex`.
* `EveryCheckpointWillExpire`: `FullInv` adds who may know an ID that was never saved, or is being saved for
  the first time (`NotYetStored`), and that a deletion which is past `LoadAndDelete` finds its ID either not
  stored or torn (`TornIsKnown`). So when it removes the time to live, no checkpoint that is not torn has lost
  one.
* `SizeAccounting`, until an ID is saved again (7, `checkpoint.go:133`): each size still to be added or taken
  off belongs to one visit that is still to be made.

`ServicesProofs`:

* `AnsweredOnce`: whoever was told before a call began had decided the interrupt, which stays decided
  (`Decided`), and only accepted answers are on the channel; what a call without a rival has recorded and
  decided is followed from one of its steps to the next (`Alone`).
* `WhileOpen`, a refinement, step by step, as long as the in-memory channel is open: its flag is tested in
  one critical section and used later, and the invariant has what a call in between may rely on.
* `EventsInOrder`, of the order only for a streamer started once: the events in the channel are consecutive and come after all that was taken out; a
  cardinality argument over the events handled, held, dropped and waiting gives the count.
* `LoadsAreSnapshots`: what has been copied so far is what the stored map still has, unless somebody updates
  that very map. The invariant says who holds the mutex (`Locked`) and that a stored map is a copy and no
  client's own (`StateTypes`), so that clients who go on changing their maps cannot reach it.
* `ReducesPurely`: the elements of a held value stay those it was given, because an append allocates a new array
  or writes behind the lengths of all values but those noted in `touched`; the invariant ties each value to an
  array that is long enough (`Fits`) and to its `meaning`. `AppendsAreExact` says what an append returns.
* `SuperstepsAreAtomic`: the cached engine implements `AtomicSupersteps`. The invariant (`Collecting`,
  `Superstepped`) says that each scheduled vertex is in exactly one of: with a worker, among the results, in the
  batch, applied; what was applied is `Compute` on the saved states. When all results are in, the states
  are those of one atomic superstep, in whatever order partitions and batches came; an error or a
  timeout is an `Abort` because the saved states are what was shown all the time.
* `OutputsAreComplete`, under `Keyed`: the graphs callers begin with keep each node under its own ID, as
  `AddNode` does. A vertex that ran has left its marker in its state (`HasRun`), and after the first superstep
  all have; of the states merged in some order, the marker of the last one that has any stays (`MergeSteps`,
  `MergedMarkers`). Graphs may grow meanwhile (`GrewTo`).
* `CombiningChangesNothing`: `SumOfFloats` and `SumIsKept` for PageRank, and for shortest paths `MinIsOne`
  (the combiner gives one of the messages, none better, unless all are as far as the initial value) and
  `MinIsEnough`, which needs that no distance is more than the one `ShortestPathVertex` begins with
  (`MessageAggregatorAssumption`).

`ExecutorProofs`, about the executor as the streaming executor runs it:

* `Invariance`. `IInv` has the objects, the registry, and for each call that `applied = current + resumes`,
  that a configuration with both checks implies a `validated` graph that passed them, and that its `steps` are
  a walk along edges of the graph it runs, which the node to come continues. The walk survives `AddEdge` by
  callers since edges only grow.
* `RegistryStaysTrue`, `CheckpointsLagByOne` follow, and `SecondGetFindsGraph`, which says that the second
  read of the repository, whose result the code uses without a test, finds a graph.
* `CycleCheckFindsCycles`: `hasCycle` is exact for graphs of any size, under the hypothesis that the edges of
  the graphs callers begin with join their nodes (`Joined`): `ValidateCoreGraph` refuses others before it
  comes to `hasCycle`, and `AddEdge` adds none. First, the recursion has a solution: each search leaves fewer
  nodes white (`SearchShrinks`), so there is no smallest number of white nodes up to which there is no search
  (`DfsExists`), and `HasCycle` uses one (`SolutionIsSearch`). Then what a search says is right
  (`SolutionIsRight`): while it lasts, there is a way along edges from every gray node to the one it is at, so an
  edge to a gray node closes a cycle; and if it meets none, no black node is on a cycle (`Safe`), so that in the
  end, when all nodes are black, there is none.
* `CheckedGraphsAreWalkedOnce`: a node visited twice gives a set of nodes each of which has an edge into the
  set, the definition of a cycle that `hasCycle` is compared with; a graph that was checked and is unchanged has
  none. Here no hypothesis is needed, since the checked graph passed `ValidateCoreGraph`.
* `MetricsAgree`: each event is published once and handled once for each subscription. `MInv` counts: of each
  type, the events handled and the goroutines still to run are `subscriptions` times those published (`Tallied`,
  and the same for the visits of a node), and what was published is known from the stage of each call
  (`Publishes`). When no goroutine is left, a bijection between the published events and the steps in the
  responses gives `MetricsAddUp`.

## 7. What the documentation says and the code does not do

With a run that shows it:

1. *Messages are cleared before they are read* (`engine.go:145`): `runStep` calls `Clear` after the
   superstep that filled the aggregator, so the next superstep finds it empty, except for retries.
2. *Send panics when it races Close* (`inmemory.go:75`).
3. *A crash in Receive blocks a persistent channel* (`persistent.go:214`): the index lists a file that was
   removed, and every later `Receive` returns the same error.
4. *Eviction waits for itself* (memory `checkpoint.go:427`): `evictLRU` calls `delete` with `orderMutex` held.

Met while modelling, in the models as the code has them, and the reason for the conditions in the
properties:

* `engine.go:213`: a retry reads its messages again, and may get what peers that have finished sent in the same
  superstep, which its first attempt did not get, against the BSP barrier of `engine.go:6`.
  `NoMessageOvertakes` allows a retry that, and nothing else; TLC violates it without the exception.
  `engine.go:207`: `retryAttempts` is not reset when a vertex is given up and the aggregator not cleared when
  a superstep fails, so `RetryBudget` and `NoMessageOvertakes` are claimed for the first `Run` of an engine.
* `recovery.go:111` keeps one checkpoint more than `maxCheckpoints`; "Keep last 10" says `recovery.go:57`.
* `inmemory.go:91`: `Receive` on a closed and drained channel returns the zero message and no error
  (`ReceiveZero`).
* `persistent.go:172`: when saving the index fails, `Send` removes the file but neither the entry nor
  its size. `SizeIsExact` and `NewestIsKept` are therefore claimed until that happens; with
  `evict_oldest` the size left over makes later Sends evict the message they add.
  `persistent.go:217`: `Receive` returns the error of a failed save instead of the message it has removed.
  `persistent.go:367`: closing is saved, so a channel closed in good order cannot be read after a restart.
  `persistent.go:129`: without `evict_oldest` a Send that starts below the limit may end above it.
  `persistent.go:510`: recovery sorts by file name and brings back files whose Send was cut short, so
  `QueueInOrder` is claimed until a recovery.
* `branch_manager.go:380`: a branch reported twice counts for two; `JoinIsComplete` is claimed for
  branches reported once. `branch_manager.go:381`: a late branch still changes the results of a join
  point that has completed, while the handler may be reading them.
* `checkpoint.go:108` (memory saver): two Saves may pass the limit together; `:133`: saving an ID again adds
  its size and does not subtract that of the checkpoint it replaces, so `SizeIsAccounted` is claimed until an
  ID is saved again; `:153`: an entry that is saved again while its predecessor is found expired is deleted at
  once. `:368`: when an ID is saved again between `LoadAndDelete` and `ttlMap.Delete` of a deletion of it, the
  deletion takes the time to live of the new checkpoint. `isExpired` then says no and `cleanupExpired` does
  not find the ID, so the checkpoint stays until somebody deletes, evicts or saves it again. The model calls
  it torn (`saved.torn`); `WillExpire` and `ExpiredAreRemoved` except torn checkpoints, and TLC violates both
  without that: Delete, `LoadAndDelete`, then Save, `Store` and `SetTTL` of the same ID, then `DeleteTTL`.
* `executor.go:234`: `Resume` starts at the entry point with the state of the checkpoint, so nodes before it
  run again; `executor.go:281`: a checkpoint counts one step less than its state has gone through, and one
  more for each resume. `executor.go:167`: after a failed validation a resumed execution stays
  registered. `executor.go:206`: `Stop` deletes the registry entry and nothing else. `executor.go:231`: the
  graph that runs is read again after the one that was validated. The context and the timeout of a
  request are not looked at. IDs are times in nanoseconds and may collide.
* `checkpoint.go:77` (services): the configuration is lost with the savers that serialize, so `Resume` then
  neither validates nor keeps `MaxSteps`.
* `evaluator.go:54`: the nodes `GetNextNodes` returns are placeholders, all of type "function".
  The input recorded for a step is the state after it.
* `streaming_executor.go:146`: a refused request has a nil response, and the caller gets a panic.
  `Resume` publishes no events of nodes and no end; `Stop` publishes "stopped" when there is nothing to stop.
* `cache_optimizer.go:326`: messages are stamped and never queued, so vertices of this engine get none; part
  of a failed batch is applied before the roll back; after it halted a second `Run` does nothing.
* `engine.go` uses `SumCombiner` for every program, which is wrong for shortest paths. `vertex.go:130`:
  PageRank's new state has no "edges", so a vertex sends in its first superstep only, and `vertex.go:133`
  panics without an int "iteration". `message.go:139`: the minimum of values of a million and more is the
  first of them.
* `streaming.go:94`: `Start`, `Stop`, `Start`, `Stop` panics, and so does an event after `Stop` and a second
  `StreamingEngine.Run`; after `Stop` handlers may get empty events; after a restart two consumers may
  swap events; a handler that calls `Stop` waits for itself. `StreamingEngine` has a streamer of its own
  that the engine does not send to, so its handlers get nothing.
* `pregel_executor.go`: neither engine nor streamer is stopped, so their goroutines stay, and the handler
  goes on appending to the steps of a response that was returned; every node runs on the input in the
  first superstep; nodes with successors never halt, so such graphs run until `MaxSteps`; the states are
  merged in random order (`:255`); no checkpoint is created; `Resume` without a graph stays registered
  (`:322`).
* `enhanced_state.go:101`: the message carries the live map of the caller; `:84` and `:92` read hooks and
  channels without the lock; `:106`: the state is kept when the broadcast fails; `:125`: the copy is made
  without the lock and may be torn by `UpdateState`, or the runtime ends the process; `:182`: hooks are
  called with the mutex held, so one that calls back waits for itself.
* `interrupt_manager.go:144`: two overlapping answers may both be accepted, and the delivered one need not
  be the recorded one. Nothing under `src/` receives the answer, and the timeout is not used.
* `reducers.go:61`: appending to a slice with spare capacity writes over what an earlier append to it has
  returned; elements of another type panic.

## 8. What is not modelled

Left out for good: serialization, field and HTTP validation, metrics, the commands, examples and prebuilt
graphs, which have no state of their own or call libraries; the SQL savers, whose operations are single
statements of a database; the superstep barrier, which nothing uses; `StreamingCheckpointService`, which no
executor is given; `Engine.Stats`, whose nested read lock may block for ever beside a writer
(`engine.go:299`) but is not called while an engine runs; `MergeReducer` on nested maps; and within modelled
components, statistics and other operations that only read, formatting and logging. Nested values of vertex
states and the concurrent access to Go maps themselves (a data race the Go runtime may report) are below the
grain of the models.
