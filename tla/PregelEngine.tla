----------------------------- MODULE PregelEngine ------------------------------
(***************************************************************************)
(* The Pregel engine of internal/core/pregel: Engine.Run and its superstep *)
(* loop (engine.go), the work-stealing scheduler that executes the vertex  *)
(* tasks (scheduler.go), the message aggregator (message.go), the retry    *)
(* handler and the checkpoints (recovery.go).                              *)
(*                                                                         *)
(* Three kinds of goroutine interleave: the caller of Run (variable pc),   *)
(* the workers of the scheduler (wstate, wtask) and the caller of Stop     *)
(* (sched).  They meet in the bounded queues of the scheduler, in the      *)
(* result channel of the current superstep and in the vertex states, which *)
(* a vertex program may change in place while it computes.                 *)
(*                                                                         *)
(* Data.  A vertex state is a member of Vals.  A message is its sender and *)
(* the superstep it is stamped with; its payload is left out, and a        *)
(* combined message is the set of messages it combines.  A vertex program  *)
(* is any program: Compute may fail, or return any state, any halt vote    *)
(* and messages to any set of targets in Outboxes.                         *)
(*                                                                         *)
(* References.  A task holds a reference to the state map of its vertex    *)
(* and to the result channel of its superstep.  Both are dropped by the    *)
(* engine together, when a failed superstep is rolled back; epoch counts   *)
(* the rollbacks, and a task of an earlier epoch is an orphan: what it     *)
(* writes and what it sends reaches nobody.                                *)
(***************************************************************************)
EXTENDS Integers, Sequences, FiniteSets, CheckpointManager

CONSTANTS
    Vertices,        \* the vertex IDs
    NumWorkers,      \* Config.Parallelism after NewEngine's defaults
    QueueCapacity,   \* Config.QueueCapacity after NewEngine's default
    MaxSupersteps,   \* Config.MaxSupersteps
    MaxRetries,      \* Config.RetryPolicy.MaxRetries
    MaxCheckpoints,  \* CheckpointManager.maxCheckpoints (10 in the code)
    Vals, InitVal,   \* vertex states and the initial one
    Outboxes,        \* the target sets a Compute may choose from
    MayTimeOut,      \* Config.Timeout > 0, or the context can be cancelled
    MayStop,         \* somebody may call Stop while Run is active
    MaxRuns,         \* bound on the number of calls of Run
    NoTask           \* what a worker holds when it executes nothing

ASSUME EngineAssumption ==
    /\ IsFiniteSet(Vertices)
    /\ NumWorkers \in Nat \ {0}
    /\ QueueCapacity \in Nat \ {0}
    /\ MaxSupersteps \in Nat
    /\ MaxRetries \in Nat
    /\ MaxCheckpoints \in Nat
    /\ InitVal \in Vals
    /\ Outboxes \subseteq SUBSET Vertices
    /\ MayTimeOut \in BOOLEAN
    /\ MayStop \in BOOLEAN
    /\ MaxRuns \in Nat

Workers == 0 .. NumWorkers - 1

(* Message: From and Step; the target is the aggregator's key *)
Message == [from : Vertices, step : Nat]

(* VertexTask: the State and Result references are the epoch *)
VertexTask == [vertex : Vertices, messages : SUBSET Message, epoch : Nat]

(* VertexResult: Messages is the set of targets *)
VertexResult == [vertex : Vertices, err : BOOLEAN, state : Vals,
                 halt : BOOLEAN, out : SUBSET Vertices]

VARIABLES
    \* the goroutine that calls Run
    pc,             \* where it is
    step,           \* the loop variable of Run
    batch,          \* activeVertices in executeSuperstep
    toSchedule,     \* the part of batch scheduleVertexTasks has not reached
    rescheduling,   \* the vertices whose retry is about to be scheduled
    collected,      \* executeSuperstep's counter
    errs,           \* the vertices whose error executeSuperstep recorded
    \* the fields of Engine
    states,         \* VertexStates
    active,         \* ActiveVertices
    halted,         \* Halted
    retryAttempts,
    inbox,          \* MessageAggregator.messages
    checkpoints,    \* CheckpointManager.checkpoints
    epoch,          \* identity of the maps in VertexStates
    \* the scheduler
    queues, counter, results,
    wstate, wtask,  \* the workers
    sched,          \* "running", or how far Stop has come
    \* history: no action's guard reads these
    runs,           \* calls of Run so far (bounded by MaxRuns)
    done,           \* vertices of batch whose result was final
    fails,          \* failed executions of a vertex in this superstep
    stepStart       \* VertexStates when the superstep began

engineVars == <<pc, step, batch, toSchedule, rescheduling, collected, errs>>
fieldVars  == <<states, active, halted, retryAttempts, inbox, checkpoints, epoch>>
schedVars  == <<queues, counter, results, wstate, wtask, sched>>
histVars   == <<runs, done, fails, stepStart>>
vars == <<engineVars, fieldVars, schedVars, histVars>>

--------------------------------------------------------------------------------
(* NewEngine: nothing active yet, the workers started *)
Init ==
    /\ pc = "idle" /\ step = 0
    /\ batch = {} /\ toSchedule = {} /\ rescheduling = {}
    /\ collected = 0 /\ errs = {}
    /\ states = [v \in Vertices |-> InitVal]
    /\ active = [v \in Vertices |-> FALSE]
    /\ halted = FALSE
    /\ retryAttempts = [v \in Vertices |-> 0]
    /\ inbox = [v \in Vertices |-> {}]
    /\ checkpoints = NoCheckpoints
    /\ epoch = 0
    /\ queues = [w \in Workers |-> <<>>]
    /\ counter = 0
    /\ results = <<>>
    /\ wstate = [w \in Workers |-> "poll"]
    /\ wtask = [w \in Workers |-> NoTask]
    /\ sched = "running"
    /\ runs = 0 /\ done = {}
    /\ fails = [v \in Vertices |-> 0]
    /\ stepStart = [v \in Vertices |-> InitVal]

(* getActiveVertices; its order is a map's, so tasks are scheduled in any
   order.  hasActiveVertices is the test that this set is not empty. *)
getActiveVertices == {v \in Vertices : active[v]}

(* Run, up to the loop: initActiveVertices.  Halted, retryAttempts and the
   aggregator keep what an earlier Run left in them. *)
Run ==
    /\ pc \in {"idle", "done", "failed"}
    /\ runs < MaxRuns
    /\ active' = [v \in Vertices |-> TRUE]
    /\ step' = 0
    /\ runs' = runs + 1
    /\ pc' = "loop"
    /\ UNCHANGED <<batch, toSchedule, rescheduling, collected, errs, states,
                   halted, retryAttempts, inbox, checkpoints, epoch, schedVars,
                   done, fails, stepStart>>

(* runStep up to scheduleVertexTasks: SaveCheckpoint, the snapshot of the
   active vertices and a fresh result channel with room for all of them *)
BeginSuperstep ==
    /\ pc = "loop"
    /\ step < MaxSupersteps /\ ~halted
    /\ checkpoints' = SaveCheckpoint(checkpoints, step, states, MaxCheckpoints)
    /\ batch' = getActiveVertices
    /\ toSchedule' = batch'
    /\ collected' = 0 /\ errs' = {}
    /\ results' = <<>>
    /\ done' = {}
    /\ fails' = [v \in Vertices |-> 0]
    /\ stepStart' = states
    /\ pc' = IF batch' = {} THEN "collect" ELSE "schedule"
    /\ UNCHANGED <<step, rescheduling, states, active, halted, retryAttempts,
                   inbox, epoch, queues, counter, wstate, wtask, sched, runs>>

(* Run leaves its loop and returns nil *)
EndRun ==
    /\ pc = "loop"
    /\ step >= MaxSupersteps \/ halted
    /\ pc' = "done"
    /\ UNCHANGED <<step, batch, toSchedule, rescheduling, collected, errs,
                   fieldVars, schedVars, histVars>>

(* The task scheduleVertexTasks and handleVertexResult build for v: its
   messages are read from the aggregator at this moment *)
TaskFor(v) == [vertex |-> v, messages |-> inbox[v], epoch |-> epoch]

(* Mutant: the send never waits for room *)
ScheduleNoWait(task) ==
    LET worker == (counter + 1) % NumWorkers
    IN  /\ sched # "closed"
        /\ counter' = worker
        /\ queues' = [queues EXCEPT ![worker] = Append(@, task)]
        /\ UNCHANGED <<results, wstate, wtask, sched>>

(* Mutant: a select with a default drops the task when the queue is full *)
ScheduleOrDrop(task) ==
    LET worker == (counter + 1) % NumWorkers
    IN  /\ sched # "closed"
        /\ counter' = worker
        /\ queues' = IF Len(queues[worker]) < QueueCapacity
                     THEN [queues EXCEPT ![worker] = Append(@, task)]
                     ELSE queues
        /\ UNCHANGED <<results, wstate, wtask, sched>>

(* WorkStealingScheduler.Schedule: round robin; the send blocks while the
   queue is full (the disjunct is disabled) and panics once Stop closed it.
   The counter is kept modulo the number of workers. *)
Schedule(task) ==
    LET worker == (counter + 1) % NumWorkers
    IN  /\ sched # "closed"
        /\ Len(queues[worker]) < QueueCapacity
        /\ counter' = worker
        /\ queues' = [queues EXCEPT ![worker] = Append(@, task)]
        /\ UNCHANGED <<results, wstate, wtask, sched>>

(* scheduleVertexTasks, one vertex *)
ScheduleVertex(v) ==
    /\ pc = "schedule" /\ v \in toSchedule
    /\ Schedule(TaskFor(v))
    /\ toSchedule' = toSchedule \ {v}
    /\ pc' = IF toSchedule' = {} THEN "collect" ELSE "schedule"
    /\ UNCHANGED <<step, batch, rescheduling, collected, errs, fieldVars, histVars>>

(* Schedule after Stop: send on a closed channel *)
SchedulePanics ==
    /\ pc \in {"schedule", "reschedule"}
    /\ sched = "closed"
    /\ pc' = "panicked"
    /\ UNCHANGED <<step, batch, toSchedule, rescheduling, collected, errs,
                   fieldVars, schedVars, histVars>>

--------------------------------------------------------------------------------
(* executeSuperstep's loop and handleVertexResult *)

(* Mutants: the loop over the results ends one result early, one too late *)
CollectOneLess == pc = "collect" /\ collected < Cardinality(batch) - 1
CollectOneMore == pc = "collect" /\ collected <= Cardinality(batch)

(* Mutant: results are already handled while tasks are still being scheduled *)
CollectEarly == pc \in {"schedule", "collect"} /\ collected < Cardinality(batch)

Collecting == pc = "collect" /\ collected < Cardinality(batch)

ReceiveResult(r) ==
    /\ Collecting
    /\ results # <<>> /\ r = Head(results)
    /\ results' = Tail(results)
    /\ collected' = collected + 1
    /\ UNCHANGED <<step, batch, toSchedule, halted, checkpoints, epoch,
                   queues, counter, wstate, wtask, sched, runs, stepStart>>

(* Mutant: a success does not give the retries back *)
SuccessKeepsAttempts(r) ==
    /\ ReceiveResult(r)
    /\ ~r.err
    /\ states' = [states EXCEPT ![r.vertex] = r.state]
    /\ active' = [active EXCEPT ![r.vertex] = ~r.halt]
    /\ inbox' = [v \in Vertices |->
                    IF v \in r.out
                    THEN inbox[v] \cup {[from |-> r.vertex, step |-> step + 1]}
                    ELSE inbox[v]]
    /\ done' = done \cup {r.vertex}
    /\ UNCHANGED <<pc, rescheduling, errs, fails, retryAttempts>>

(* the success path: state, halt vote, retry budget, outgoing messages
   stamped for the next superstep *)
HandleSuccess(r) ==
    /\ ReceiveResult(r)
    /\ ~r.err
    /\ states' = [states EXCEPT ![r.vertex] = r.state]
    /\ active' = [active EXCEPT ![r.vertex] = ~r.halt]
    /\ retryAttempts' = [retryAttempts EXCEPT ![r.vertex] = 0]
    /\ inbox' = [v \in Vertices |->
                    IF v \in r.out
                    THEN inbox[v] \cup {[from |-> r.vertex, step |-> step + 1]}
                    ELSE inbox[v]]
    /\ done' = done \cup {r.vertex}
    /\ UNCHANGED <<pc, rescheduling, errs, fails>>

(* HandleError decides to retry (the backoff is time only) *)
RetryAllowed(v) == retryAttempts[v] < MaxRetries

(* the error path with a retry left: the task is built and scheduled in
   Reschedule, which may have to wait for the queue *)
HandleRetry(r) ==
    /\ ReceiveResult(r)
    /\ r.err /\ RetryAllowed(r.vertex)
    /\ retryAttempts' = [retryAttempts EXCEPT ![r.vertex] = @ + 1]
    /\ fails' = [fails EXCEPT ![r.vertex] = @ + 1]
    /\ rescheduling' = {r.vertex}
    /\ pc' = "reschedule"
    /\ UNCHANGED <<errs, states, active, inbox, done>>

(* the error path without one: the error is recorded, the others are still
   collected *)
HandleGiveUp(r) ==
    /\ ReceiveResult(r)
    /\ r.err /\ ~RetryAllowed(r.vertex)
    /\ errs' = errs \cup {r.vertex}
    /\ fails' = [fails EXCEPT ![r.vertex] = @ + 1]
    /\ done' = done \cup {r.vertex}
    /\ UNCHANGED <<pc, rescheduling, states, active, retryAttempts, inbox>>

(* Mutant: the collected-- of a retry is forgotten *)
RescheduleCounted(v) ==
    /\ pc = "reschedule" /\ v \in rescheduling
    /\ Schedule(TaskFor(v))
    /\ rescheduling' = {}
    /\ pc' = "collect"
    /\ UNCHANGED <<step, batch, toSchedule, collected, errs, fieldVars, histVars>>

Reschedule(v) ==
    /\ pc = "reschedule" /\ v \in rescheduling
    /\ Schedule(TaskFor(v))
    /\ rescheduling' = {}
    /\ collected' = collected - 1
    /\ pc' = "collect"
    /\ UNCHANGED <<step, batch, toSchedule, errs, fieldVars, histVars>>

(* ctx.Done() is ready: executeSuperstep returns without waiting for the
   tasks that are still queued or executing *)
TimeOut ==
    /\ MayTimeOut
    /\ Collecting
    /\ pc' = "recover"
    /\ UNCHANGED <<step, batch, toSchedule, rescheduling, collected, errs,
                   fieldVars, schedVars, histVars>>

(* every result is in and one of them was an error *)
SuperstepFailed ==
    /\ pc = "collect" /\ ~Collecting
    /\ errs # {}
    /\ pc' = "recover"
    /\ UNCHANGED <<step, batch, toSchedule, rescheduling, collected, errs,
                   fieldVars, schedVars, histVars>>

(* Mutant: the checkpoint is copied back into the maps the tasks still hold *)
RecoverInPlace ==
    /\ pc = "recover"
    /\ states' = LoadCheckpoint(checkpoints, step)
    /\ pc' = "failed"
    /\ UNCHANGED <<step, batch, toSchedule, rescheduling, collected, errs, epoch,
                   active, halted, retryAttempts, inbox, checkpoints,
                   schedVars, histVars>>

(* runStep's error path; Run returns the error.  Only the vertex states are
   rolled back. *)
Recover ==
    /\ pc = "recover"
    /\ IF HasCheckpoint(checkpoints, step)
       THEN /\ states' = LoadCheckpoint(checkpoints, step)
            /\ epoch' = epoch + 1
       ELSE UNCHANGED <<states, epoch>>
    /\ pc' = "failed"
    /\ UNCHANGED <<step, batch, toSchedule, rescheduling, collected, errs,
                   active, halted, retryAttempts, inbox, checkpoints,
                   schedVars, histVars>>

(* the end of a successful runStep: halt vote, Clear of the aggregator, and
   the loop's step++ *)
EndSuperstep ==
    /\ pc = "collect" /\ ~Collecting
    /\ errs = {}
    /\ halted' = IF getActiveVertices = {} THEN TRUE ELSE halted
    /\ inbox' = [v \in Vertices |-> {}]
    /\ step' = step + 1
    /\ pc' = "loop"
    /\ UNCHANGED <<batch, toSchedule, rescheduling, collected, errs, states,
                   active, retryAttempts, checkpoints, epoch, schedVars, histVars>>

--------------------------------------------------------------------------------
(* The workers *)

Take(w, q) ==
    /\ queues[q] # <<>>
    /\ wtask' = [wtask EXCEPT ![w] = Head(queues[q])]
    /\ queues' = [queues EXCEPT ![q] = Tail(@)]
    /\ wstate' = [wstate EXCEPT ![w] = "busy"]
    /\ UNCHANGED <<engineVars, fieldVars, counter, results, sched, histVars>>

Goto(w, s) ==
    /\ wstate' = [wstate EXCEPT ![w] = s]
    /\ UNCHANGED <<engineVars, fieldVars, queues, counter, results, wtask, sched,
                   histVars>>

(* worker: the select's case for its own queue *)
TakeOwn(w) == wstate[w] = "poll" /\ Take(w, w)

(* worker: the select's default, chosen when no other case is ready *)
OwnQueueEmpty(w) ==
    /\ wstate[w] = "poll"
    /\ queues[w] = <<>> /\ sched = "running"
    /\ Goto(w, "steal")

(* stealWork: a task of another worker's queue *)
Steal(w) ==
    /\ wstate[w] = "steal"
    /\ \E q \in Workers \ {w} : Take(w, q)

(* stealWork: nothing found at the moment each queue was looked at *)
StealNothing(w) ==
    /\ wstate[w] = "steal"
    /\ Goto(w, "poll")

(* worker: ctx.Done().  When its queue is not empty either, select chooses *)
WorkerExit(w) ==
    /\ wstate[w] = "poll"
    /\ sched # "running"
    /\ Goto(w, "exited")

(* A vertex program changes the state map it was given, in place, before it
   returns.  An orphan does this to a map nobody reads any more. *)
MutateInPlace(w, val) ==
    /\ wstate[w] = "busy" /\ wtask[w].epoch = epoch
    /\ states' = [states EXCEPT ![wtask[w].vertex] = val]
    /\ UNCHANGED <<engineVars, active, halted, retryAttempts, inbox, checkpoints,
                   epoch, schedVars, histVars>>

(* executeTask: Compute returns and the result is sent.  The result channel
   of the current superstep has room for Cardinality(batch) results. *)
Finish(w, r) ==
    /\ wstate[w] = "busy" /\ r.vertex = wtask[w].vertex
    /\ IF wtask[w].epoch = epoch
       THEN /\ Len(results) < Cardinality(batch)
            /\ results' = Append(results, r)
       ELSE results' = results
    /\ wstate' = [wstate EXCEPT ![w] = "poll"]
    /\ wtask' = [wtask EXCEPT ![w] = NoTask]
    /\ UNCHANGED <<engineVars, fieldVars, queues, counter, sched, histVars>>

(* the results Compute can have; what it returns with an error is ignored *)
ComputeOk(v, val, halt, out) ==
    [vertex |-> v, err |-> FALSE, state |-> val, halt |-> halt, out |-> out]
ComputeFailed(v) ==
    [vertex |-> v, err |-> TRUE, state |-> InitVal, halt |-> TRUE, out |-> {}]

FinishOk(w) ==
    \E val \in Vals, halt \in BOOLEAN, out \in Outboxes :
        wstate[w] = "busy" /\ Finish(w, ComputeOk(wtask[w].vertex, val, halt, out))
FinishFailed(w) ==
    wstate[w] = "busy" /\ Finish(w, ComputeFailed(wtask[w].vertex))

--------------------------------------------------------------------------------
(* WorkStealingScheduler.Stop, called by Engine.Stop *)

StopCancel ==
    /\ MayStop
    /\ sched = "running"
    /\ sched' = "cancelled"
    /\ UNCHANGED <<engineVars, fieldVars, queues, counter, results, wstate, wtask,
                   histVars>>

(* after wg.Wait: the queues are closed, what is left in them is dropped *)
StopClose ==
    /\ sched = "cancelled"
    /\ \A w \in Workers : wstate[w] = "exited"
    /\ sched' = "closed"
    /\ UNCHANGED <<engineVars, fieldVars, queues, counter, results, wstate, wtask,
                   histVars>>

--------------------------------------------------------------------------------
EngineStep ==
    \/ BeginSuperstep
    \/ EndRun
    \/ \E v \in Vertices : ScheduleVertex(v)
    \/ SchedulePanics
    \/ \E r \in {results[i] : i \in DOMAIN results} :
          HandleSuccess(r) \/ HandleRetry(r) \/ HandleGiveUp(r)
    \/ \E v \in Vertices : Reschedule(v)
    \/ SuperstepFailed
    \/ Recover
    \/ EndSuperstep

WorkerStep(w) ==
    \/ TakeOwn(w)
    \/ OwnQueueEmpty(w)
    \/ Steal(w)
    \/ StealNothing(w)
    \/ WorkerExit(w)
    \/ FinishOk(w)
    \/ FinishFailed(w)

Next ==
    \/ Run
    \/ EngineStep
    \/ TimeOut
    \/ \E w \in Workers : WorkerStep(w)
    \/ \E w \in Workers, val \in Vals : MutateInPlace(w, val)
    \/ StopCancel
    \/ StopClose

Spec == Init /\ [][Next]_vars

(* The Go scheduler runs every goroutine that can run; Compute returns.  A
   worker that finds work in its own queue or another one takes it. *)
FairSpec ==
    /\ Spec
    /\ WF_vars(EngineStep)
    /\ \A w \in Workers : WF_vars(WorkerStep(w))
    /\ WF_vars(StopClose)

--------------------------------------------------------------------------------
(* Properties *)

TypeOK ==
    /\ pc \in {"idle", "loop", "schedule", "collect", "reschedule", "recover",
               "done", "failed", "panicked"}
    /\ step \in Nat
    /\ batch \subseteq Vertices /\ toSchedule \subseteq Vertices
    /\ rescheduling \subseteq Vertices /\ errs \subseteq Vertices
    /\ collected \in Nat
    /\ states \in [Vertices -> Vals]
    /\ active \in [Vertices -> BOOLEAN]
    /\ halted \in BOOLEAN
    /\ retryAttempts \in [Vertices -> 0 .. MaxRetries]
    /\ inbox \in [Vertices -> SUBSET Message]
    /\ DOMAIN checkpoints \subseteq Nat
    /\ \A s \in DOMAIN checkpoints : checkpoints[s] \in [Vertices -> Vals]
    /\ epoch \in Nat
    /\ queues \in [Workers -> Seq(VertexTask)]
    /\ \A w \in Workers : Len(queues[w]) <= QueueCapacity
    /\ counter \in Workers
    /\ results \in Seq(VertexResult)
    /\ wstate \in [Workers -> {"poll", "steal", "busy", "exited"}]
    /\ wtask \in [Workers -> VertexTask \cup {NoTask}]
    /\ \A w \in Workers : wstate[w] = "busy" => wtask[w] \in VertexTask
    /\ sched \in {"running", "cancelled", "closed"}
    /\ runs \in Nat
    /\ done \subseteq Vertices
    /\ fails \in [Vertices -> Nat]
    /\ stepStart \in [Vertices -> Vals]

(* The places that can hold the one execution of v a superstep owes: not yet
   scheduled, in a queue, in a worker, in the result channel, about to be
   scheduled again, or collected for good.  Orphans are not counted. *)
Places(v) ==
    {<<"toSchedule", 0, 0>> : x \in toSchedule \cap {v}}
    \cup {<<"rescheduling", 0, 0>> : x \in rescheduling \cap {v}}
    \cup {<<"done", 0, 0>> : x \in done \cap {v}}
    \cup {<<"results", 0, i>> : i \in {j \in DOMAIN results : results[j].vertex = v}}
    \cup {<<"worker", w, 0>> : w \in {u \in Workers : /\ wstate[u] = "busy"
                                                    /\ wtask[u].vertex = v
                                                    /\ wtask[u].epoch = epoch}}
    \cup UNION {{<<"queue", w, i>> : i \in {j \in DOMAIN queues[w] :
                                              /\ queues[w][j].vertex = v
                                              /\ queues[w][j].epoch = epoch}} :
                w \in Workers}

InSuperstep == pc \in {"schedule", "collect", "reschedule"}

(* While a superstep runs, every vertex of its batch is in exactly one place
   and no other vertex is in any: no execution is lost between the queues, the
   thieves and the result channel, and none is done twice, so two workers never
   share a vertex's state map (scheduler.go worker/stealWork, engine.go
   executeSuperstep's collected-- on a retry). *)
ExactlyOnce ==
    InSuperstep =>
        \A v \in Vertices : IF v \in batch THEN Cardinality(Places(v)) = 1
                                           ELSE Places(v) = {}

(* A task whose state map and result channel the engine still uses *)
Live(task) == task.epoch = epoch

(* The BSP barrier: between supersteps, and after Run returned, no worker and
   no queue holds a task that can still change a vertex state or send a result
   the engine would read.  Counting results (collected) is all executeSuperstep
   does to establish this; after a timeout it is the roll back that does. *)
Barrier ==
    pc \in {"idle", "loop", "done", "failed"} =>
        /\ \A w \in Workers : wstate[w] = "busy" => ~Live(wtask[w])
        /\ \A w \in Workers : \A i \in DOMAIN queues[w] : ~Live(queues[w][i])

(* executeTask's send never blocks: the result channel has room for every
   execution still under way, retries included, so a worker is never held up by
   a Run that has stopped receiving (engine.go, make(chan VertexResult, n)). *)
ResultsNeverBlock ==
    \A w \in Workers :
        wstate[w] = "busy" /\ Live(wtask[w]) => Len(results) < Cardinality(batch)

(* A failed superstep leaves the vertex states as they were when it began, and
   they stay so until Run is called again, whatever the tasks still executing
   after a timeout do to the maps they hold (runStep's error path). *)
AllOrNothing == pc = "failed" => states = stepStart

(* On a fresh engine a vertex is given up exactly when it failed MaxRetries + 1
   times in the superstep (HandleError).  Only for the first Run: retryAttempts
   is not reset when a vertex is given up, see README. *)
RetryBudget ==
    runs = 1 => \A v \in Vertices :
        /\ fails[v] <= MaxRetries + 1
        /\ v \in errs <=> fails[v] = MaxRetries + 1

(* What a task was given to read, and who may have sent it *)
InTime(task) ==
    \A m \in task.messages :
        \/ m.step <= step
        \/ m.step = step + 1 /\ fails[task.vertex] > 0 /\ m.from \in done \ errs

LiveIn(w, i) == i \in DOMAIN queues[w] /\ Live(queues[w][i])
LiveOn(w) == wstate[w] = "busy" /\ Live(wtask[w])

(* No message overtakes the barrier on its way to a vertex that executes for the
   first time in a superstep: however early its peers finish, the messages they send
   in that superstep are not in its task, because results are handled only when every
   task is scheduled.  A retried task, whose messages are read again, can see such
   messages, but only of peers that have succeeded for good and are not given up
   (scheduleVertexTasks, executeSuperstep, handleVertexResult).  On a fresh engine: a
   failed Run leaves messages behind that the next one reads. *)
NoMessageOvertakes ==
    runs = 1 => \A w \in Workers :
        /\ \A i \in DOMAIN queues[w] : LiveIn(w, i) => InTime(queues[w][i])
        /\ LiveOn(w) => InTime(wtask[w])

(* Calls return.  Run does if Compute does and nobody calls Stop, without counting
   on a timeout: bounded retries, a queue that always drains, no result lost
   (executeSuperstep, worker, stealWork).  Stop does even when the Run it interrupts
   has timed out, waits for results nobody will send or is blocked on a full queue
   (ws.wg.Wait in Stop). *)
CallsReturn ==
    /\ pc = "loop" ~> (pc \in {"done", "failed"} \/ sched # "running")
    /\ sched = "cancelled" ~> sched = "closed"

--------------------------------------------------------------------------------
(* The inductive invariant behind Barrier and AllOrNothing *)

Executing == pc \in {"schedule", "collect", "reschedule", "recover"}

(* where the engine's own bookkeeping says a vertex of the batch is; collected
   counts the vertices that are done, and the one being rescheduled *)
Counting ==
    /\ Executing => /\ toSchedule \cup rescheduling \cup done \subseteq batch
                    /\ toSchedule \cap done = {} /\ rescheduling \cap done = {}
    /\ pc \notin {"reschedule", "panicked"} => rescheduling = {}
    /\ pc = "schedule" => done = {} /\ collected = 0
    /\ pc = "collect" => toSchedule = {} /\ collected = Cardinality(done)
    /\ pc = "reschedule" =>
           /\ toSchedule = {}
           /\ \E v \in Vertices : rescheduling = {v}
           /\ collected = Cardinality(done) + 1

(* no task belongs to an epoch to come *)
NoFuture ==
    /\ \A w \in Workers : wstate[w] = "busy" => wtask[w].epoch <= epoch
    /\ \A w \in Workers : \A i \in DOMAIN queues[w] : queues[w][i].epoch <= epoch

(* the vertices the scheduler or the result channel must hold *)
Owed == batch \ (toSchedule \cup rescheduling \cup done)

(* a live task or a result is of an owed vertex, and no two are of the same *)
HeldOwed ==
    /\ \A w \in Workers : \A i \in DOMAIN queues[w] :
           LiveIn(w, i) => queues[w][i].vertex \in Owed
    /\ \A w \in Workers : LiveOn(w) => wtask[w].vertex \in Owed
    /\ \A i \in DOMAIN results : results[i].vertex \in Owed
QueueQueue ==
    \A u, w \in Workers : \A i \in DOMAIN queues[u], j \in DOMAIN queues[w] :
        LiveIn(u, i) /\ LiveIn(w, j) /\ queues[u][i].vertex = queues[w][j].vertex
            => u = w /\ i = j
QueueWorker ==
    \A u, w \in Workers : \A i \in DOMAIN queues[u] :
        LiveIn(u, i) /\ LiveOn(w) => queues[u][i].vertex # wtask[w].vertex
QueueResult ==
    \A u \in Workers : \A i \in DOMAIN queues[u], j \in DOMAIN results :
        LiveIn(u, i) => queues[u][i].vertex # results[j].vertex
WorkerWorker ==
    \A u, w \in Workers :
        LiveOn(u) /\ LiveOn(w) /\ wtask[u].vertex = wtask[w].vertex => u = w
WorkerResult ==
    \A w \in Workers : \A j \in DOMAIN results :
        LiveOn(w) => wtask[w].vertex # results[j].vertex
ResultResult ==
    \A i, j \in DOMAIN results : results[i].vertex = results[j].vertex => i = j

Held == /\ HeldOwed /\ QueueQueue /\ QueueWorker /\ QueueResult
        /\ WorkerWorker /\ WorkerResult /\ ResultResult
Exclusive == Executing => Held

(* the checkpoint a failed superstep will be rolled back to *)
Checkpointed ==
    Executing => /\ HasCheckpoint(checkpoints, step)
                 /\ LoadCheckpoint(checkpoints, step) = stepStart

Inv == /\ TypeOK /\ Counting /\ NoFuture /\ Exclusive /\ Checkpointed
       /\ Barrier /\ AllOrNothing

(* What ExactlyOnce needs beside it: no owed execution is lost *)
IsHeld(v) ==
    \/ \E w \in Workers : \E i \in DOMAIN queues[w] : LiveIn(w, i) /\ queues[w][i].vertex = v
    \/ \E w \in Workers : LiveOn(w) /\ wtask[w].vertex = v
    \/ \E i \in DOMAIN results : results[i].vertex = v
NothingLost == InSuperstep => \A v \in Owed : IsHeld(v)

(* What ResultsNeverBlock needs beside it: the panic finds no worker any more *)
Stopped ==
    /\ pc = "panicked" => sched = "closed"
    /\ sched = "closed" => \A w \in Workers : wstate[w] = "exited"

(* The retries and the mail of the first Run: before it, between its supersteps, and
   within one by the vertices that are done, given up and neither *)
Unused ==
    runs = 0 => /\ pc = "idle" /\ step = 0 /\ errs = {}
                /\ \A v \in Vertices : fails[v] = 0 /\ retryAttempts[v] = 0 /\ inbox[v] = {}
FirstRunBetween ==
    runs = 1 /\ pc = "loop" =>
        /\ errs = {}
        /\ \A v \in Vertices : /\ retryAttempts[v] = 0 /\ inbox[v] = {}
                               /\ fails[v] <= MaxRetries
FirstRunWithin ==
    runs = 1 /\ Executing =>
        /\ errs \subseteq done
        /\ \A v \in Vertices : IF v \in errs THEN fails[v] = MaxRetries + 1
                               ELSE /\ fails[v] <= MaxRetries
                                    /\ v \in done => retryAttempts[v] = 0
                                    /\ v \notin done => fails[v] = retryAttempts[v]
                                    /\ v \notin batch => retryAttempts[v] = 0
        /\ \A v \in rescheduling : fails[v] > 0

(* ... whose mail is all of this superstep, since the last one's has been cleared *)
FirstRunMail ==
    runs = 1 => \A v \in Vertices : \A m \in inbox[v] :
                    m.step = step + 1 /\ m.from \in done \ errs

FirstRun == Unused /\ FirstRunBetween /\ FirstRunWithin /\ RetryBudget /\ FirstRunMail

(* the whole inductive invariant *)
FullInv == Inv /\ NothingLost /\ Stopped /\ FirstRun /\ NoMessageOvertakes

--------------------------------------------------------------------------------
(* What the documentation says and the code does not do *)

(* "Message-passing between vertices": what a vertex was sent in one superstep
   is in the aggregator when the next one begins, if it is still active. *)
MessagesReachNextSuperstep ==
    [][step' = step + 1 =>
         \A v \in Vertices : active[v] =>
             {m \in inbox[v] : m.step = step'} \subseteq inbox'[v]]_vars

================================================================================
