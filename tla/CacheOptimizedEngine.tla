-------------------------- MODULE CacheOptimizedEngine --------------------------
(***************************************************************************)
(* CacheOptimizedEngine (internal/core/pregel/cache_optimizer.go): the     *)
(* second engine, over the same scheduler as PregelEngine.  It collects    *)
(* results in batches and applies a batch partition by partition, retries  *)
(* nothing, and gives up on the first error of a batch, when other results *)
(* of it may have been applied.                                            *)
(*                                                                         *)
(* How workers come by tasks is PregelEngine's subject; here a task that   *)
(* is in flight finishes at any time.  The messages of a result are        *)
(* stamped with the next superstep and dropped, so programs never get any. *)
(* processPartition and its message buffers are not called by Run and left *)
(* out.                                                                    *)
(***************************************************************************)
EXTENDS VertexPrograms, FiniteSetsExt

CONSTANTS
    MaxSupersteps,
    NumPartitions,       \* the number of CPUs
    BlockSize,           \* 8 in the code
    BatchSize,           \* 32 in the code
    FirstStates,         \* FirstStates[p][v]: the initial state of v under program p
    MaxRuns              \* bound on the calls of Run

ASSUME CacheOptimizedAssumption ==
    /\ Vertices # {} /\ IsFiniteSet(Vertices)
    /\ \A p \in DOMAIN FirstStates : FirstStates[p] = [v \in Vertices |-> FirstStates[p][v]]
    /\ {MaxSupersteps, MaxRuns} \subseteq Nat
    /\ {NumPartitions, BlockSize, BatchSize} \subseteq Nat \ {0}

VARIABLE engine

(* partitionVertices: the vertices in turn, each into the last block of the next
   partition.  A block is begun at every BlockSize-th vertex, in the partition of
   that vertex. *)
Partitioned(list) ==
    LET add(parts, i) ==
            LET p == ((i - 1) % NumPartitions) + 1
                blocks == IF parts[p] = <<>> \/ (i > 1 /\ (i - 1) % BlockSize = 0)
                          THEN Append(parts[p], <<>>) ELSE parts[p]
            IN  [parts EXCEPT ![p] = [blocks EXCEPT ![Len(blocks)] = Append(@, list[i])]]
    IN  FoldLeft(add, [p \in 1 .. NumPartitions |-> <<>>], [i \in DOMAIN list |-> i])

(* getVertexPartition: 1 is also the answer for a vertex that is in no block *)
PartitionOf(v) ==
    LET holds == {p \in 1 .. NumPartitions :
                     \E b \in DOMAIN engine.partitions[p] : v \in ToSet(engine.partitions[p][b])}
    IN  IF holds = {} THEN 1 ELSE Min(holds)

(* a map is ranged over in any order *)
Orders(S) == {list \in [1 .. Cardinality(S) -> S] : ToSet(list) = S}

(* NewCacheOptimizedEngine.  `scheduled' are the vertices of the superstep, `batch'
   the results waiting to be applied, `saved' the checkpoint of the superstep. *)
NewEngine(p, list) ==
    [program |-> p, partitions |-> Partitioned(list), pc |-> "new", runs |-> 0,
     step |-> 0, states |-> FirstStates[p], active |-> [v \in Vertices |-> FALSE],
     halted |-> FALSE, saved |-> FirstStates[p], scheduled |-> {}, inFlight |-> {},
     results |-> {}, batch |-> <<>>, collected |-> 0]

EngineInit == \E p \in DOMAIN FirstStates, list \in Orders(Vertices) : engine = NewEngine(p, list)

(* Run, which may be called again *)
RunOptimized ==
    /\ engine.pc \in {"new", "done", "failed"} /\ engine.runs < MaxRuns
    /\ engine' = [engine EXCEPT !.pc = "loop", !.runs = @ + 1, !.step = 0,
                                !.active = [v \in Vertices |-> TRUE]]

(* runOptimizedStep and executeSuperstepOptimized, up to the last Schedule.  What
   an abandoned superstep left in flight answers on a channel nobody reads. *)
BeginOptimizedStep ==
    LET now == {v \in Vertices : engine.active[v]} IN
    /\ engine.pc = "loop" /\ engine.step < MaxSupersteps /\ ~engine.halted
    /\ engine' = [engine EXCEPT !.pc = "collect", !.saved = engine.states, !.scheduled = now,
                                !.inFlight = now, !.results = {}, !.batch = <<>>, !.collected = 0]

WorkerFinishes(v, failed) ==
    /\ engine.pc = "collect" /\ v \in engine.inFlight
    /\ engine' = [engine EXCEPT !.inFlight = @ \ {v},
                                !.results = @ \cup {[vertex |-> v, failed |-> failed]}]

(* processBatchOptimized: the results partition by partition, which come in any order,
   up to the first error.  rank[p] is the turn of partition p. *)
Applied(batch, rank) ==
    LET turn(i) == rank[PartitionOf(batch[i].vertex)]
        before(i, j) == turn(i) < turn(j) \/ (turn(i) = turn(j) /\ i < j)
    IN  {batch[i].vertex : i \in {k \in DOMAIN batch :
                                    \A j \in DOMAIN batch : batch[j].failed => before(k, j)}}

(* Mutant: results of a batch after an error are skipped, and the error with them *)
ProcessBatch_SkipsErrors(e, batch, rank) ==
    LET applied == Applied(batch, rank)
        outcome(v) == Compute(e.program, v, e.saved[v], <<>>)
    IN  [e EXCEPT !.states = [v \in Vertices |-> IF v \in applied THEN outcome(v).state ELSE @[v]],
                  !.active = [v \in Vertices |-> IF v \in applied THEN ~outcome(v).halt ELSE @[v]],
                  !.batch = <<>>]

ProcessBatch(e, batch, rank) ==
    LET applied == Applied(batch, rank)
        outcome(v) == Compute(e.program, v, e.saved[v], <<>>)
    IN  [e EXCEPT !.states = [v \in Vertices |-> IF v \in applied THEN outcome(v).state ELSE @[v]],
                  !.active = [v \in Vertices |-> IF v \in applied THEN ~outcome(v).halt ELSE @[v]],
                  !.batch = <<>>,
                  !.pc = IF \E i \in DOMAIN batch : batch[i].failed THEN "recover" ELSE @]

(* collectResultsOptimized: a batch is applied when it is full, and the last one as
   it is.  The number of results to wait for is read after scheduling, when it
   still is that of the scheduled vertices. *)
CollectResult(r) ==
    LET batch == Append(engine.batch, r)
        last == engine.collected + 1 = Cardinality(engine.scheduled)
        received == [engine EXCEPT !.results = @ \ {r}, !.collected = @ + 1,
                                   !.pc = IF last THEN "end" ELSE "collect", !.batch = batch]
    IN  /\ engine.pc = "collect" /\ r \in engine.results
        /\ IF last \/ Len(batch) >= BatchSize
           THEN \E rank \in Orders(1 .. NumPartitions) : engine' = ProcessBatch(received, batch, rank)
           ELSE engine' = received

TimeOutOptimized == engine.pc = "collect" /\ engine' = [engine EXCEPT !.pc = "recover"]

RecoverOptimized ==
    /\ engine.pc = "recover"
    /\ engine' = [engine EXCEPT !.pc = "failed", !.states = engine.saved, !.scheduled = {},
                                !.inFlight = {}, !.results = {}, !.batch = <<>>, !.collected = 0]

EndOptimizedStep ==
    /\ engine.pc = "end"
    /\ engine' = [engine EXCEPT !.pc = "loop", !.step = @ + 1,
                                !.halted = \A v \in Vertices : ~engine.active[v],
                                !.saved = engine.states, !.scheduled = {}, !.collected = 0]

EndOptimizedRun ==
    /\ engine.pc = "loop" /\ (engine.step = MaxSupersteps \/ engine.halted)
    /\ engine' = [engine EXCEPT !.pc = "done"]

EngineNext ==
    \/ RunOptimized \/ BeginOptimizedStep
    \/ \E v \in Vertices, failed \in BOOLEAN : WorkerFinishes(v, failed)
    \/ \E r \in engine.results : CollectResult(r)
    \/ TimeOutOptimized \/ RecoverOptimized
    \/ EndOptimizedStep \/ EndOptimizedRun

EngineSpec == EngineInit /\ [][EngineNext]_engine

--------------------------------------------------------------------------------
(* Properties *)

(* A superstep takes effect when it ends; until then its caller has the states and
   the votes of the one before. *)
InStep == engine.pc \in {"collect", "recover", "end"}

ShownStates == IF InStep THEN engine.saved ELSE engine.states
ShownActive == IF InStep THEN [v \in Vertices |-> v \in engine.scheduled] ELSE engine.active
ShownResult ==
    CASE engine.pc = "new" -> "none"
      [] engine.pc = "done" -> "ok"
      [] engine.pc = "failed" -> "failed"
      [] OTHER -> "running"

Atomic == INSTANCE AtomicSupersteps WITH
    program <- engine.program,
    states <- ShownStates,
    active <- ShownActive,
    halted <- engine.halted,
    step <- engine.step,
    result <- ShownResult

(* Whatever the order of results, batches and partitions, with errors in the middle
   of a batch, with timeouts and when Run is called again after one, a superstep is
   atomic: all active vertices once on the states before it, or no effect on the
   states (processBatchOptimized, collectResultsOptimized, runOptimizedStep). *)
ImplementsAtomicSupersteps == Atomic!AtomicSpec
================================================================================
