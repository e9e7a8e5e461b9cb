--------------------------- MODULE PregelEngineProofs --------------------------
(***************************************************************************)
(* Theorems about the Pregel engine, for every set of vertices, number of  *)
(* workers, queue capacity, number of supersteps, retries and Run calls.   *)
(***************************************************************************)
EXTENDS PregelEngine, FiniteSetTheorems, TLAPS

(* The definitions every step of the proofs expands *)
USE DEF Workers, engineVars, fieldVars, schedVars, histVars, vars

(* A round-robin choice is a worker: the only fact about % that is needed *)
LEMMA RoundRobin ==
    ASSUME EngineAssumption, NEW c \in Workers
    PROVE  (c + 1) % NumWorkers \in Workers
BY DEF EngineAssumption

(* What Schedule does to the scheduler's state *)
LEMMA ScheduleType ==
    ASSUME EngineAssumption, TypeOK, NEW task \in VertexTask, Schedule(task)
    PROVE  /\ counter' \in Workers
           /\ queues' \in [Workers -> Seq(VertexTask)]
           /\ \A w \in Workers : Len(queues'[w]) <= QueueCapacity
<1> DEFINE worker == (counter + 1) % NumWorkers
<1>1. worker \in Workers
  BY RoundRobin DEF TypeOK
<1>2. Append(queues[worker], task) \in Seq(VertexTask)
  BY <1>1 DEF TypeOK
<1>3. Len(queues[worker]) < QueueCapacity /\ Len(queues[worker]) \in Nat
  BY <1>1 DEF Schedule, TypeOK
<1>4. Len(Append(queues[worker], task)) <= QueueCapacity
  BY <1>1, <1>3 DEF TypeOK, EngineAssumption
<1> HIDE DEF worker
<1>5. counter' = worker /\ queues' = [queues EXCEPT ![worker] = Append(@, task)]
  BY DEF Schedule, worker
<1> QED
  BY <1>1, <1>2, <1>4, <1>5 DEF TypeOK

(* What taking a task from a queue does *)
LEMMA TakeType ==
    ASSUME EngineAssumption, TypeOK, NEW w \in Workers, NEW q \in Workers, Take(w, q),
           wstate[w] # "busy"
    PROVE  TypeOK'
<1>1. queues[q] \in Seq(VertexTask) /\ queues[q] # <<>>
  BY DEF Take, TypeOK
<1>2. /\ Head(queues[q]) \in VertexTask
      /\ Tail(queues[q]) \in Seq(VertexTask)
      /\ Len(Tail(queues[q])) <= Len(queues[q])
  BY <1>1
<1>3. Len(Tail(queues[q])) <= QueueCapacity
  BY <1>1, <1>2 DEF TypeOK, EngineAssumption
<1>4. queues' \in [Workers -> Seq(VertexTask)]
  BY <1>2 DEF Take, TypeOK
<1>5. \A u \in Workers : Len(queues'[u]) <= QueueCapacity
  BY <1>3 DEF Take, TypeOK
<1>6. /\ wstate' \in [Workers -> {"poll", "steal", "busy", "exited"}]
      /\ wtask' \in [Workers -> VertexTask \cup {NoTask}]
      /\ \A u \in Workers : wstate'[u] = "busy" => wtask'[u] \in VertexTask
  BY <1>2 DEF Take, TypeOK
<1> QED
  BY <1>4, <1>5, <1>6 DEF Take, TypeOK

LEMMA TaskForType ==
    ASSUME TypeOK, NEW v \in Vertices
    PROVE  TaskFor(v) \in VertexTask
BY DEF TypeOK, TaskFor, VertexTask

(* SaveCheckpoint returns a map from supersteps to vertex states that has the
   superstep it was called for, with the states it was given *)
LEMMA SaveCheckpointType ==
    ASSUME NEW cps, NEW s \in Nat, NEW st \in [Vertices -> Vals], NEW max \in Nat,
           DOMAIN cps \subseteq Nat,
           \A t \in DOMAIN cps : cps[t] \in [Vertices -> Vals]
    PROVE  LET new == SaveCheckpoint(cps, s, st, max)
           IN  /\ DOMAIN new \subseteq Nat
               /\ \A t \in DOMAIN new : new[t] \in [Vertices -> Vals]
               /\ s \in DOMAIN new
               /\ new[s] = st
BY DEF SaveCheckpoint, cleanupOldCheckpoints

LEMMA InitType ==
    ASSUME EngineAssumption, Init
    PROVE  TypeOK
<1>1. /\ <<>> \in Seq(VertexTask) /\ <<>> \in Seq(VertexResult)
      /\ Len(<<>>) <= QueueCapacity
  BY DEF EngineAssumption
<1>2. /\ queues \in [Workers -> Seq(VertexTask)]
      /\ \A w \in Workers : Len(queues[w]) <= QueueCapacity
      /\ results \in Seq(VertexResult)
  BY <1>1 DEF Init
<1>3. DOMAIN checkpoints = {}
  BY DEF Init, NoCheckpoints
<1>4. 0 \in Workers /\ 0 \in 0 .. MaxRetries
  BY DEF EngineAssumption
<1>5. /\ retryAttempts \in [Vertices -> 0 .. MaxRetries]
      /\ fails \in [Vertices -> Nat]
      /\ states \in [Vertices -> Vals] /\ stepStart \in [Vertices -> Vals]
      /\ active \in [Vertices -> BOOLEAN]
      /\ inbox \in [Vertices -> SUBSET Message]
  BY <1>4 DEF Init, EngineAssumption
<1> QED
  BY <1>2, <1>3, <1>4, <1>5 DEF Init, TypeOK

LEMMA ResultType ==
    ASSUME TypeOK, NEW r, ReceiveResult(r)
    PROVE  /\ r \in VertexResult
           /\ results' \in Seq(VertexResult)
BY DEF TypeOK, ReceiveResult

LEMMA FinishResult ==
    ASSUME EngineAssumption, TypeOK, NEW w \in Workers, FinishOk(w) \/ FinishFailed(w)
    PROVE  \E r \in VertexResult : Finish(w, r)
<1>1. wstate[w] = "busy" => wtask[w].vertex \in Vertices
  BY DEF TypeOK, VertexTask
<1>2. CASE FinishOk(w)
  BY <1>1, <1>2 DEF FinishOk, ComputeOk, VertexResult, EngineAssumption
<1>3. CASE FinishFailed(w)
  BY <1>1, <1>3 DEF FinishFailed, ComputeFailed, VertexResult, EngineAssumption
<1> QED
  BY <1>2, <1>3

LEMMA FinishType ==
    ASSUME TypeOK, NEW w \in Workers, NEW r \in VertexResult, Finish(w, r)
    PROVE  TypeOK'
<1>1. results' \in Seq(VertexResult)
  <2>1. results' = results \/ results' = Append(results, r)
    BY DEF Finish
  <2>2. results \in Seq(VertexResult)
    BY DEF TypeOK
  <2>3. Append(results, r) \in Seq(VertexResult)
    BY <2>2
  <2> QED
    BY <2>1, <2>2, <2>3
<1> QED
  BY <1>1 DEF TypeOK, Finish

(* Every step leads from a well-typed state to one; that collected does not go
   below zero needs to know that a vertex to reschedule has been counted *)
LEMMA NextType ==
    ASSUME EngineAssumption, TypeOK, [Next]_vars, pc = "reschedule" => collected > 0
    PROVE  TypeOK'
<1>1. CASE Run
  BY <1>1 DEF Run, TypeOK
<1>2. CASE BeginSuperstep
  <2>1. /\ DOMAIN checkpoints' \subseteq Nat
        /\ \A s \in DOMAIN checkpoints' : checkpoints'[s] \in [Vertices -> Vals]
    BY <1>2, SaveCheckpointType DEF BeginSuperstep, TypeOK, EngineAssumption
  <2>2. <<>> \in Seq(VertexResult)
    OBVIOUS
  <2> QED
    BY <1>2, <2>1, <2>2 DEF BeginSuperstep, getActiveVertices, TypeOK
<1>3. CASE EndRun
  BY <1>3 DEF EndRun, TypeOK
<1>4. ASSUME NEW v \in Vertices, ScheduleVertex(v) PROVE TypeOK'
  <2>1. Schedule(TaskFor(v)) /\ TaskFor(v) \in VertexTask
    BY <1>4, TaskForType DEF ScheduleVertex
  <2>2. UNCHANGED <<results, wstate, wtask, sched>>
    BY <2>1 DEF Schedule
  <2> QED
    BY <1>4, <2>1, <2>2, ScheduleType DEF ScheduleVertex, TypeOK
<1>5. CASE SchedulePanics
  BY <1>5 DEF SchedulePanics, TypeOK
<1>6. ASSUME NEW r, HandleSuccess(r) PROVE TypeOK'
  <2>1. ReceiveResult(r) /\ r \in VertexResult /\ results' \in Seq(VertexResult)
    BY <1>6, ResultType DEF HandleSuccess
  <2>2. /\ r.vertex \in Vertices /\ r.state \in Vals /\ r.halt \in BOOLEAN
    BY <2>1 DEF VertexResult
  <2>3. [from |-> r.vertex, step |-> step + 1] \in Message
    BY <2>2 DEF Message, TypeOK
  <2>4. inbox' \in [Vertices -> SUBSET Message]
    BY <1>6, <2>3 DEF HandleSuccess, TypeOK
  <2>5. /\ states' \in [Vertices -> Vals]
        /\ active' \in [Vertices -> BOOLEAN]
        /\ retryAttempts' \in [Vertices -> 0 .. MaxRetries]
    BY <1>6, <2>2 DEF HandleSuccess, TypeOK, EngineAssumption
  <2> QED
    BY <1>6, <2>1, <2>2, <2>4, <2>5, SMTT(20) DEF HandleSuccess, ReceiveResult, TypeOK
<1>7. ASSUME NEW r, HandleRetry(r) PROVE TypeOK'
  <2>1. ReceiveResult(r) /\ r \in VertexResult /\ results' \in Seq(VertexResult)
    BY <1>7, ResultType DEF HandleRetry
  <2>2. r.vertex \in Vertices
    BY <2>1 DEF VertexResult
  <2>3. /\ retryAttempts' \in [Vertices -> 0 .. MaxRetries]
        /\ fails' \in [Vertices -> Nat]
    <3>1. /\ retryAttempts[r.vertex] \in 0 .. MaxRetries
          /\ retryAttempts[r.vertex] < MaxRetries
          /\ fails[r.vertex] + 1 \in Nat
      BY <1>7, <2>2 DEF HandleRetry, RetryAllowed, TypeOK
    <3>2. retryAttempts[r.vertex] + 1 \in 0 .. MaxRetries
      BY <3>1 DEF EngineAssumption
    <3> QED
      BY <1>7, <2>2, <3>1, <3>2 DEF HandleRetry, TypeOK
  <2>4. rescheduling' \subseteq Vertices /\ pc' = "reschedule" /\ collected' \in Nat
    BY <1>7, <2>1, <2>2 DEF HandleRetry, ReceiveResult, TypeOK
  <2>5. UNCHANGED <<step, batch, toSchedule, halted, checkpoints, epoch, queues, counter,
                    wstate, wtask, sched, runs, stepStart, errs, states, active, inbox, done>>
    BY <1>7, <2>1 DEF HandleRetry, ReceiveResult
  <2> QED
    BY <2>1, <2>3, <2>4, <2>5 DEF TypeOK
<1>8. ASSUME NEW r, HandleGiveUp(r) PROVE TypeOK'
  <2>1. ReceiveResult(r) /\ r \in VertexResult /\ results' \in Seq(VertexResult)
    BY <1>8, ResultType DEF HandleGiveUp
  <2>2. r.vertex \in Vertices
    BY <2>1 DEF VertexResult
  <2> QED
    <3>1. fails' \in [Vertices -> Nat] /\ errs' \subseteq Vertices /\ done' \subseteq Vertices
      BY <1>8, <2>2 DEF HandleGiveUp, TypeOK
    <3>2. collected' \in Nat
      BY <2>1 DEF ReceiveResult, TypeOK
    <3>3. UNCHANGED <<step, batch, toSchedule, halted, checkpoints, epoch, queues, counter,
                      wstate, wtask, sched, runs, stepStart, pc, rescheduling, states,
                      active, retryAttempts, inbox>>
      BY <1>8, <2>1 DEF HandleGiveUp, ReceiveResult
    <3> QED
      BY <2>1, <3>1, <3>2, <3>3 DEF TypeOK
<1>9. ASSUME NEW v \in Vertices, Reschedule(v) PROVE TypeOK'
  <2>1. Schedule(TaskFor(v)) /\ TaskFor(v) \in VertexTask
    BY <1>9, TaskForType DEF Reschedule
  <2>2. UNCHANGED <<results, wstate, wtask, sched>>
    BY <2>1 DEF Schedule
  <2>3. collected' \in Nat
    \* a vertex to reschedule was counted when its result was received
    BY <1>9 DEF Reschedule, TypeOK
  <2> QED
    BY <1>9, <2>1, <2>2, <2>3, ScheduleType DEF Reschedule, TypeOK
<1>10. CASE TimeOut
  BY <1>10 DEF TimeOut, TypeOK
<1>11. CASE SuperstepFailed
  BY <1>11 DEF SuperstepFailed, TypeOK
<1>12. CASE Recover
  <2>1. states' \in [Vertices -> Vals] /\ epoch' \in Nat
    <3>1. CASE HasCheckpoint(checkpoints, step)
      BY <1>12, <3>1 DEF Recover, HasCheckpoint, LoadCheckpoint, TypeOK
    <3>2. CASE ~HasCheckpoint(checkpoints, step)
      BY <1>12, <3>2 DEF Recover, TypeOK
    <3> QED
      BY <3>1, <3>2
  <2> QED
    BY <1>12, <2>1 DEF Recover, TypeOK
<1>13. CASE EndSuperstep
  <2>1. halted' \in BOOLEAN
    BY <1>13, Zenon DEF EndSuperstep, TypeOK
  <2>2. inbox' \in [Vertices -> SUBSET Message] /\ step' \in Nat /\ pc' = "loop"
    BY <1>13 DEF EndSuperstep, TypeOK
  <2>3. UNCHANGED <<batch, toSchedule, rescheduling, collected, errs, states, active,
                    retryAttempts, checkpoints, epoch, queues, counter, results, wstate,
                    wtask, sched, runs, done, fails, stepStart>>
    BY <1>13 DEF EndSuperstep
  <2> QED
    BY <2>1, <2>2, <2>3 DEF TypeOK
<1>14. ASSUME NEW w \in Workers, TakeOwn(w) \/ Steal(w) PROVE TypeOK'
  BY <1>14, TakeType DEF TakeOwn, Steal
<1>15. ASSUME NEW w \in Workers, OwnQueueEmpty(w) \/ StealNothing(w) \/ WorkerExit(w)
       PROVE  TypeOK'
  BY <1>15, ZenonT(40) DEF OwnQueueEmpty, StealNothing, WorkerExit, Goto, TypeOK
<1>16. ASSUME NEW w \in Workers, NEW val \in Vals, MutateInPlace(w, val) PROVE TypeOK'
  BY <1>16 DEF MutateInPlace, TypeOK
<1>17. ASSUME NEW w \in Workers, FinishOk(w) \/ FinishFailed(w) PROVE TypeOK'
  BY <1>17, FinishResult, FinishType
<1>18. CASE StopCancel \/ StopClose
  BY <1>18 DEF StopCancel, StopClose, TypeOK
<1>19. CASE UNCHANGED vars
  BY <1>19 DEF TypeOK
<1> QED
  BY <1>1, <1>2, <1>3, <1>4, <1>5, <1>6, <1>7, <1>8, <1>9, <1>10, <1>11, <1>12, <1>13,
     <1>14, <1>15, <1>16, <1>17, <1>18, <1>19
     DEF Next, EngineStep, WorkerStep


--------------------------------------------------------------------------------
(* Facts about sequences *)

LEMMA TailElement ==
    ASSUME NEW S, NEW s \in Seq(S), s # <<>>
    PROVE  /\ Head(s) = s[1] /\ 1 \in DOMAIN s
           /\ \A i \in DOMAIN Tail(s) :
                 i \in Nat /\ i + 1 \in DOMAIN s /\ i + 1 # 1 /\ Tail(s)[i] = s[i + 1]
OBVIOUS

LEMMA AppendElement ==
    ASSUME NEW S, NEW s \in Seq(S), NEW e \in S
    PROVE  \A i \in DOMAIN Append(s, e) :
              \/ i \in DOMAIN s /\ Append(s, e)[i] = s[i]
              \/ i = Len(s) + 1 /\ i \notin DOMAIN s /\ Append(s, e)[i] = e
OBVIOUS

--------------------------------------------------------------------------------
(* How the moves of a task between the places keep Held *)

(* the new task's vertex was owed to nobody and is owed now *)
LEMMA ScheduleHeld ==
    ASSUME EngineAssumption, TypeOK, Held, NEW v \in Vertices, Schedule(TaskFor(v)),
           v \in batch, v \notin done, epoch' = epoch, batch' = batch, done' = done,
           v \in toSchedule \cup rescheduling,
           toSchedule' \cup rescheduling' = (toSchedule \cup rescheduling) \ {v}
    PROVE  Held'
<1> DEFINE worker == (counter + 1) % NumWorkers
           task == TaskFor(v)
<1>1. worker \in Workers
  BY RoundRobin DEF TypeOK
<1>2. task \in VertexTask /\ task.vertex = v /\ task.epoch = epoch
  BY TaskForType DEF TaskFor
<1>3. queues' = [queues EXCEPT ![worker] = Append(queues[worker], task)]
  BY DEF Schedule
<1>4. UNCHANGED <<results, wstate, wtask>>
  BY DEF Schedule
<1> HIDE DEF worker, task
<1>5. v \notin Owed /\ Owed' = Owed \cup {v}
  BY DEF Owed
<1>6. ASSUME NEW u \in Workers, NEW i \in DOMAIN queues'[u]
      PROVE  \/ i \in DOMAIN queues[u] /\ queues'[u][i] = queues[u][i]
             \/ u = worker /\ i = Len(queues[worker]) + 1 /\ queues'[u][i] = task
  <2>1. CASE u = worker
    BY <1>1, <1>2, <1>3, <2>1, AppendElement DEF TypeOK
  <2>2. CASE u # worker
    BY <1>1, <1>3, <2>2 DEF TypeOK
  <2> QED
    BY <2>1, <2>2
<1>7. HeldOwed'
  BY <1>2, <1>4, <1>5, <1>6 DEF Held, HeldOwed, LiveIn, LiveOn, Live
<1>8. QueueQueue'
  BY <1>2, <1>5, <1>6 DEF Held, HeldOwed, QueueQueue, LiveIn, Live
<1>9. QueueWorker' /\ QueueResult'
  BY <1>2, <1>4, <1>5, <1>6, SMTT(20) DEF Held, HeldOwed, QueueWorker, QueueResult, LiveIn, LiveOn, Live
<1>10. WorkerWorker' /\ WorkerResult' /\ ResultResult'
  BY <1>4 DEF Held, WorkerWorker, WorkerResult, ResultResult, LiveOn, Live
<1> QED
  BY <1>7, <1>8, <1>9, <1>10 DEF Held

(* a task moves from the head of a queue to a worker that was not busy *)
LEMMA TakeHeld ==
    ASSUME TypeOK, Held, NEW w \in Workers, NEW q \in Workers, Take(w, q), wstate[w] # "busy"
    PROVE  Held'
<1>1. queues[q] \in Seq(VertexTask) /\ queues[q] # <<>>
  BY DEF Take, TypeOK
<1>2. /\ wtask'[w] = queues[q][1] /\ 1 \in DOMAIN queues[q]
      /\ \A u \in Workers : u # w => wtask'[u] = wtask[u] /\ wstate'[u] = wstate[u]
  BY <1>1, TailElement DEF Take, TypeOK
<1>3. /\ epoch' = epoch /\ results' = results /\ Owed' = Owed
  BY DEF Take, Owed
<1>4. ASSUME NEW u \in Workers, NEW i \in DOMAIN queues'[u]
      PROVE  \/ u # q /\ i \in DOMAIN queues[u] /\ queues'[u][i] = queues[u][i]
             \/ /\ u = q /\ i \in Nat /\ i + 1 \in DOMAIN queues[u] /\ i + 1 # 1
                /\ queues'[u][i] = queues[u][i + 1]
  <2>1. CASE u = q
    BY <1>1, <2>1, TailElement DEF Take, TypeOK
  <2>2. CASE u # q
    BY <2>2 DEF Take, TypeOK
  <2> QED
    BY <2>1, <2>2
<1>5. HeldOwed'
  BY <1>2, <1>3, <1>4 DEF Held, HeldOwed, LiveIn, LiveOn, Live
<1>6. QueueQueue'
  BY <1>3, <1>4, SMTT(20) DEF Held, QueueQueue, LiveIn, Live
<1>7. QueueWorker'
  BY <1>2, <1>3, <1>4 DEF Held, QueueQueue, QueueWorker, LiveIn, LiveOn, Live
<1>8. QueueResult'
  BY <1>3, <1>4 DEF Held, QueueResult, LiveIn, Live
<1>9. WorkerWorker'
  BY <1>2, <1>3 DEF Held, WorkerWorker, QueueWorker, LiveIn, LiveOn, Live
<1>10. WorkerResult' /\ ResultResult'
  BY <1>2, <1>3 DEF Held, WorkerResult, ResultResult, QueueResult, LiveIn, LiveOn, Live
<1> QED
  BY <1>5, <1>6, <1>7, <1>8, <1>9, <1>10 DEF Held

(* a live task becomes a result; an orphan disappears *)
LEMMA FinishHeld ==
    ASSUME TypeOK, Held, NEW w \in Workers, NEW r \in VertexResult, Finish(w, r)
    PROVE  Held'
<1>1. /\ epoch' = epoch /\ queues' = queues /\ Owed' = Owed
      /\ wstate[w] = "busy" /\ r.vertex = wtask[w].vertex
      /\ wstate'[w] # "busy"
      /\ \A u \in Workers : u # w => wtask'[u] = wtask[u] /\ wstate'[u] = wstate[u]
  BY DEF Finish, Owed, TypeOK
<1>2. ASSUME NEW i \in DOMAIN results'
      PROVE  \/ i \in DOMAIN results /\ results'[i] = results[i]
             \/ i = Len(results) + 1 /\ LiveOn(w) /\ results'[i].vertex = wtask[w].vertex
  <2>1. CASE wtask[w].epoch = epoch
    BY <1>1, <2>1, AppendElement DEF Finish, TypeOK, LiveOn, Live
  <2>2. CASE wtask[w].epoch # epoch
    BY <2>2 DEF Finish
  <2> QED
    BY <2>1, <2>2
<1>3. HeldOwed'
  BY <1>1, <1>2 DEF Held, HeldOwed, LiveIn, LiveOn, Live
<1>4. QueueQueue' /\ QueueWorker' /\ WorkerWorker'
  BY <1>1 DEF Held, QueueQueue, QueueWorker, WorkerWorker, LiveIn, LiveOn, Live
<1>5. QueueResult'
  BY <1>1, <1>2 DEF Held, QueueResult, QueueWorker, LiveIn, LiveOn, Live
<1>6. WorkerResult'
  BY <1>1, <1>2 DEF Held, WorkerResult, WorkerWorker, LiveOn, Live
<1>7. ResultResult'
  BY <1>1, <1>2 DEF Held, WorkerResult, ResultResult, LiveOn, Live
<1> QED
  BY <1>3, <1>4, <1>5, <1>6, <1>7 DEF Held

(* a result leaves the channel and its vertex is owed no longer *)
LEMMA ReceiveHeld ==
    ASSUME TypeOK, Held, NEW r, ReceiveResult(r), Owed' = Owed \ {r.vertex}
    PROVE  Held'
<1>1. results \in Seq(VertexResult) /\ results # <<>>
  BY DEF ReceiveResult, TypeOK
<1>2. /\ 1 \in DOMAIN results /\ r = results[1]
      /\ \A i \in DOMAIN results' :
            i + 1 \in DOMAIN results /\ i + 1 # 1 /\ i \in Nat /\ results'[i] = results[i + 1]
  BY <1>1, TailElement DEF ReceiveResult
<1>3. UNCHANGED <<epoch, queues, wstate, wtask>>
  BY DEF ReceiveResult
<1>4. HeldOwed'
  BY <1>2, <1>3 DEF Held, HeldOwed, QueueResult, WorkerResult, ResultResult, LiveIn, LiveOn, Live
<1>5. QueueQueue' /\ QueueWorker' /\ WorkerWorker'
  BY <1>3 DEF Held, QueueQueue, QueueWorker, WorkerWorker, LiveIn, LiveOn, Live
<1>6. QueueResult' /\ WorkerResult' /\ ResultResult'
  BY <1>2, <1>3 DEF Held, QueueResult, WorkerResult, ResultResult, LiveIn, LiveOn, Live
<1> QED
  BY <1>4, <1>5, <1>6 DEF Held

--------------------------------------------------------------------------------
(* Counting results is enough for the barrier *)

LEMMA FiniteBatch ==
    ASSUME EngineAssumption, TypeOK
    PROVE  /\ IsFiniteSet(batch) /\ Cardinality(batch) \in Nat
           /\ IsFiniteSet(done) /\ Cardinality(done) \in Nat
BY FS_Subset, FS_CardinalityType DEF TypeOK, EngineAssumption

(* executeSuperstep leaves its loop when every vertex of the batch is done *)
LEMMA AllDone ==
    ASSUME EngineAssumption, Inv, pc = "collect", ~Collecting
    PROVE  done = batch
<1>1. done \subseteq batch /\ collected = Cardinality(done)
  BY DEF Inv, Counting, Executing
<1>2. Cardinality(done) >= Cardinality(batch)
  BY <1>1, FiniteBatch DEF Collecting, Inv
<1> QED
  BY <1>1, <1>2, FiniteBatch, FS_Subset DEF Inv

(* then nothing of the superstep is left anywhere *)
LEMMA AllCollected ==
    ASSUME EngineAssumption, Inv, pc = "collect", ~Collecting
    PROVE  /\ \A w \in Workers : ~LiveOn(w)
           /\ \A w \in Workers : \A i \in DOMAIN queues[w] : ~LiveIn(w, i)
<1>1. Owed = {}
  BY AllDone DEF Owed
<1> QED
  BY <1>1 DEF Inv, Exclusive, Executing, Held, HeldOwed

(* a vertex whose result arrives is of the batch and was not done before *)
LEMMA ReceivedOwed ==
    ASSUME Inv, NEW r, ReceiveResult(r)
    PROVE  r.vertex \in Owed /\ r.vertex \in Vertices
<1>1. results \in Seq(VertexResult) /\ results # <<>> /\ r = Head(results)
  BY DEF ReceiveResult, Inv, TypeOK
<1>2. r = results[1] /\ 1 \in DOMAIN results
  BY <1>1, TailElement
<1>3. pc = "collect"
  BY DEF ReceiveResult, Collecting
<1> QED
  BY <1>1, <1>2, <1>3, ResultType DEF Inv, Exclusive, Executing, Held, HeldOwed, VertexResult

(* one more vertex is done *)
LEMMA OneMoreDone ==
    ASSUME EngineAssumption, TypeOK, NEW v \in Vertices, v \notin done
    PROVE  Cardinality(done \cup {v}) = Cardinality(done) + 1
BY FiniteBatch, FS_AddElement

--------------------------------------------------------------------------------
(* The inductive invariant *)

LEMMA InitInv == ASSUME EngineAssumption, Init PROVE Inv
<1>1. TypeOK
  BY InitType
<1>2. \A w \in Workers : wstate[w] # "busy" /\ queues[w] = <<>>
  BY DEF Init
<1>3. Counting /\ Exclusive /\ Checkpointed /\ AllOrNothing
  BY DEF Init, Counting, Exclusive, Checkpointed, AllOrNothing, Executing
<1>4. NoFuture /\ Barrier
  BY <1>2 DEF NoFuture, Barrier
<1> QED
  BY <1>1, <1>3, <1>4 DEF Inv

(* a step that changes no queue, no worker's task, no result and no bookkeeping,
   and starts no superstep *)
LEMMA QuietStep ==
    ASSUME Inv, TypeOK',
           UNCHANGED <<queues, wtask, results, epoch, batch, toSchedule, rescheduling, done,
                       collected, checkpoints, stepStart>>,
           step' = step \/ pc' = "loop",
           \A w \in Workers : wstate'[w] = "busy" <=> wstate[w] = "busy",
           \/ pc' = pc /\ (pc = "failed" => states' = states)
           \/ pc = "collect" /\ pc' = "recover"
           \/ pc' = "panicked"
           \/ pc \in {"idle", "loop", "done", "failed"} /\ pc' \in {"loop", "done"}
    PROVE  Inv'
<1>1. Executing' => Executing
  BY DEF Executing
<1>2. Counting'
  BY <1>1 DEF Inv, Counting, Executing
<1>3. NoFuture'
  BY DEF Inv, NoFuture
<1>4. Held => Held'
  BY DEF Held, HeldOwed, QueueQueue, QueueWorker, QueueResult, WorkerWorker, WorkerResult,
         ResultResult, LiveIn, LiveOn, Live, Owed
<1>5. Exclusive' /\ Checkpointed'
  BY <1>1, <1>4 DEF Inv, Exclusive, Checkpointed, Executing
<1>6. Barrier' /\ AllOrNothing'
  BY DEF Inv, Barrier, AllOrNothing, Live, Executing
<1> QED
  BY <1>2, <1>3, <1>5, <1>6 DEF Inv

(* scheduling a vertex, the first time or again *)
LEMMA ScheduleInv ==
    ASSUME EngineAssumption, Inv, TypeOK', NEW v \in Vertices, Schedule(TaskFor(v)),
           Executing, Executing', pc \in {"schedule", "reschedule"}, Counting',
           v \in toSchedule \cup rescheduling,
           toSchedule' \cup rescheduling' = (toSchedule \cup rescheduling) \ {v},
           UNCHANGED <<step, batch, done, epoch, checkpoints, stepStart>>
    PROVE  Inv'
<1>1. v \in batch /\ v \notin done
  BY DEF Inv, Counting
<1>2. Held'
  BY <1>1, ScheduleHeld DEF Inv, Exclusive
<1>3. NoFuture'
  <2> DEFINE worker == (counter + 1) % NumWorkers
  <2>1. worker \in Workers
    BY RoundRobin DEF Inv, TypeOK
  <2>2. TaskFor(v) \in VertexTask /\ TaskFor(v).epoch <= epoch
    <3>1. epoch \in Nat /\ TaskFor(v).epoch = epoch
      BY DEF Inv, TaskFor, TypeOK
    <3> QED
      BY <3>1, TaskForType DEF Inv
  <2>3. queues' = [queues EXCEPT ![worker] = Append(queues[worker], TaskFor(v))]
    BY DEF Schedule
  <2>4. UNCHANGED <<wstate, wtask>>
    BY DEF Schedule
  <2> HIDE DEF worker
  <2>5. ASSUME NEW u \in Workers, NEW i \in DOMAIN queues'[u]
        PROVE  queues'[u][i].epoch <= epoch
    <3>1. CASE u = worker
      <4>1. queues[u] \in Seq(VertexTask) /\ queues'[u] = Append(queues[u], TaskFor(v))
        BY <2>1, <2>3, <3>1 DEF Inv, TypeOK
      <4>2. \/ i \in DOMAIN queues[u] /\ queues'[u][i] = queues[u][i]
            \/ queues'[u][i] = TaskFor(v)
        BY <2>2, <4>1, AppendElement
      <4> QED
        BY <2>2, <4>2 DEF Inv, NoFuture
    <3>2. CASE u # worker
      BY <2>3, <3>2 DEF Inv, NoFuture, TypeOK
    <3> QED
      BY <3>1, <3>2
  <2> QED
    BY <2>4, <2>5 DEF Inv, NoFuture
<1>4. Checkpointed' /\ Exclusive'
  BY <1>2 DEF Inv, Checkpointed, Exclusive
<1>5. Barrier' /\ AllOrNothing'
  BY DEF Executing, Barrier, AllOrNothing
<1> QED
  BY <1>2, <1>3, <1>4, <1>5 DEF Inv

(* a worker takes a task *)
LEMMA TakeInv ==
    ASSUME EngineAssumption, Inv, TypeOK', NEW w \in Workers, NEW q \in Workers,
           Take(w, q), wstate[w] # "busy"
    PROVE  Inv'
<1>1. UNCHANGED <<engineVars, fieldVars, histVars, results>>
  BY DEF Take
<1>2. queues[q] \in Seq(VertexTask) /\ queues[q] # <<>>
  BY DEF Take, Inv, TypeOK
<1>3. 1 \in DOMAIN queues[q] /\ wtask'[w] = queues[q][1]
  BY <1>2, TailElement DEF Take, Inv, TypeOK
<1>4. \A u \in Workers : u # w => wtask'[u] = wtask[u] /\ wstate'[u] = wstate[u]
  BY DEF Take, Inv, TypeOK
<1>5. ASSUME NEW u \in Workers, NEW i \in DOMAIN queues'[u]
      PROVE  \E j \in DOMAIN queues[u] : queues'[u][i] = queues[u][j]
  <2>1. CASE u = q
    BY <1>2, <2>1, TailElement, SMTT(20) DEF Take, Inv, TypeOK
  <2>2. CASE u # q
    BY <2>2 DEF Take, Inv, TypeOK
  <2> QED
    BY <2>1, <2>2
<1>6. NoFuture'
  BY <1>1, <1>3, <1>4, <1>5 DEF Inv, NoFuture
<1>7. Barrier'
  BY <1>1, <1>3, <1>4, <1>5 DEF Inv, Barrier, Live
<1>8. Exclusive'
  BY <1>1, TakeHeld DEF Inv, Exclusive, Executing
<1>9. Counting' /\ Checkpointed' /\ AllOrNothing'
  BY <1>1 DEF Inv, Counting, Checkpointed, AllOrNothing, Executing
<1> QED
  BY <1>6, <1>7, <1>8, <1>9 DEF Inv

(* a worker finishes a task *)
LEMMA FinishInv ==
    ASSUME EngineAssumption, Inv, TypeOK', NEW w \in Workers, NEW r \in VertexResult,
           Finish(w, r)
    PROVE  Inv'
<1>1. /\ UNCHANGED <<engineVars, fieldVars, histVars, queues>>
      /\ wstate'[w] # "busy"
      /\ \A u \in Workers : u # w => wtask'[u] = wtask[u] /\ wstate'[u] = wstate[u]
  BY DEF Finish, Inv, TypeOK
<1>2. NoFuture' /\ Barrier'
  BY <1>1 DEF Inv, NoFuture, Barrier, Live
<1>3. Exclusive'
  BY <1>1, FinishHeld DEF Inv, Exclusive, Executing
<1>4. Counting' /\ Checkpointed' /\ AllOrNothing'
  BY <1>1 DEF Inv, Counting, Checkpointed, AllOrNothing, Executing
<1> QED
  BY <1>2, <1>3, <1>4 DEF Inv

(* a result is received; its vertex is done, or is to be rescheduled *)
LEMMA ReceiveInv ==
    ASSUME EngineAssumption, Inv, TypeOK', NEW r, ReceiveResult(r), Counting',
           Executing', Owed' = Owed \ {r.vertex}
    PROVE  Inv'
<1>1. /\ pc = "collect"
      /\ UNCHANGED <<step, checkpoints, epoch, queues, wstate, wtask, stepStart>>
  BY DEF ReceiveResult, Collecting
<1>2. NoFuture'
  BY <1>1 DEF Inv, NoFuture
<1>3. Exclusive' /\ Checkpointed'
  BY <1>1, ReceiveHeld DEF Inv, Exclusive, Checkpointed, Executing
<1>4. Barrier' /\ AllOrNothing'
  BY DEF Barrier, AllOrNothing, Executing
<1> QED
  BY <1>2, <1>3, <1>4 DEF Inv

LEMMA NextInv ==
    ASSUME EngineAssumption, Inv, [Next]_vars
    PROVE  Inv'
<1>0. TypeOK'
  <2>1. pc = "reschedule" => collected > 0
    BY FiniteBatch DEF Inv, Counting
  <2> QED
    BY <2>1, NextType DEF Inv
<1>1. CASE Run
  BY <1>0, <1>1, QuietStep DEF Run
<1>2. CASE BeginSuperstep
  <2>1. /\ pc = "loop" /\ pc' \in {"collect", "schedule"}
        /\ toSchedule' = batch' /\ done' = {} /\ rescheduling' = rescheduling
        /\ collected' = 0 /\ results' = <<>> /\ stepStart' = states
        /\ checkpoints' = SaveCheckpoint(checkpoints, step, states, MaxCheckpoints)
        /\ UNCHANGED <<step, epoch, queues, wstate, wtask>>
        /\ pc' = "collect" => batch' = {}
    BY <1>2 DEF BeginSuperstep
  <2>2. Checkpointed'
    <3>0. /\ step \in Nat /\ states \in [Vertices -> Vals] /\ MaxCheckpoints \in Nat
          /\ DOMAIN checkpoints \subseteq Nat
          /\ \A t \in DOMAIN checkpoints : checkpoints[t] \in [Vertices -> Vals]
      BY DEF Inv, TypeOK, EngineAssumption
    <3>1. step \in DOMAIN checkpoints' /\ checkpoints'[step] = states
      BY <2>1, <3>0, SaveCheckpointType
    <3> QED
      BY <2>1, <3>1 DEF Checkpointed, HasCheckpoint, LoadCheckpoint
  <2>3. \A w \in Workers : ~LiveOn(w) /\ \A i \in DOMAIN queues[w] : ~LiveIn(w, i)
    BY <2>1 DEF Inv, Barrier, LiveOn, LiveIn
  <2>4. Held'
    <3>1. DOMAIN results' = {}
      BY <2>1
    <3>2. \A w \in Workers : ~LiveOn(w)' /\ \A i \in DOMAIN queues'[w] : ~LiveIn(w, i)'
      BY <2>1, <2>3 DEF LiveOn, LiveIn, Live
    <3> QED
      BY <3>1, <3>2 DEF Held, HeldOwed, QueueQueue, QueueWorker, QueueResult, WorkerWorker,
         WorkerResult, ResultResult
  <2>5. Counting'
    BY <2>1, FS_EmptySet DEF Inv, Counting, Executing
  <2> QED
    BY <1>0, <2>1, <2>2, <2>4, <2>5 DEF Inv, NoFuture, Exclusive, Barrier, AllOrNothing
<1>3. CASE EndRun
  BY <1>0, <1>3, QuietStep DEF EndRun
<1>4. ASSUME NEW v \in Vertices, ScheduleVertex(v) PROVE Inv'
  <2>1. Counting'
    BY <1>4, FS_EmptySet DEF ScheduleVertex, Inv, Counting, Executing
  <2> QED
    BY <1>0, <1>4, <2>1, ScheduleInv DEF ScheduleVertex, Executing, Inv, Counting
<1>5. CASE SchedulePanics
  BY <1>0, <1>5, QuietStep DEF SchedulePanics, Executing
<1>6. ASSUME NEW r, HandleSuccess(r) PROVE Inv'
  <2>1. ReceiveResult(r) /\ pc = "collect" /\ r.vertex \in Owed /\ r.vertex \in Vertices
    BY <1>6, ReceivedOwed DEF HandleSuccess, ReceiveResult, Collecting
  <2>2. Cardinality(done \cup {r.vertex}) = Cardinality(done) + 1
    BY <2>1, OneMoreDone DEF Owed, Inv
  <2>3. Counting' /\ Executing' /\ Owed' = Owed \ {r.vertex}
    BY <1>6, <2>1, <2>2 DEF HandleSuccess, ReceiveResult, Inv, Counting, Executing, Owed
  <2> QED
    BY <1>0, <2>1, <2>3, ReceiveInv
<1>7. ASSUME NEW r, HandleRetry(r) PROVE Inv'
  <2>1. ReceiveResult(r) /\ pc = "collect" /\ r.vertex \in Owed /\ r.vertex \in Vertices
    BY <1>7, ReceivedOwed DEF HandleRetry, ReceiveResult, Collecting
  <2>2. Counting' /\ Executing' /\ Owed' = Owed \ {r.vertex}
    BY <1>7, <2>1 DEF HandleRetry, ReceiveResult, Inv, Counting, Executing, Owed
  <2> QED
    BY <1>0, <2>1, <2>2, ReceiveInv
<1>8. ASSUME NEW r, HandleGiveUp(r) PROVE Inv'
  <2>1. ReceiveResult(r) /\ pc = "collect" /\ r.vertex \in Owed /\ r.vertex \in Vertices
    BY <1>8, ReceivedOwed DEF HandleGiveUp, ReceiveResult, Collecting
  <2>2. Cardinality(done \cup {r.vertex}) = Cardinality(done) + 1
    BY <2>1, OneMoreDone DEF Owed, Inv
  <2>3. Counting' /\ Executing' /\ Owed' = Owed \ {r.vertex}
    BY <1>8, <2>1, <2>2 DEF HandleGiveUp, ReceiveResult, Inv, Counting, Executing, Owed
  <2> QED
    BY <1>0, <2>1, <2>3, ReceiveInv
<1>9. ASSUME NEW v \in Vertices, Reschedule(v) PROVE Inv'
  <2>1. Counting'
    BY <1>9, FiniteBatch DEF Reschedule, Inv, Counting, Executing
  <2> QED
    BY <1>0, <1>9, <2>1, ScheduleInv DEF Reschedule, Executing, Inv, Counting
<1>10. CASE TimeOut
  BY <1>0, <1>10, QuietStep DEF TimeOut, Collecting, Executing
<1>11. CASE SuperstepFailed
  BY <1>0, <1>11, QuietStep DEF SuperstepFailed, Executing
<1>12. CASE Recover
  <2>1. HasCheckpoint(checkpoints, step) /\ LoadCheckpoint(checkpoints, step) = stepStart
    BY <1>12 DEF Recover, Inv, Checkpointed, Executing
  <2>2. /\ epoch' = epoch + 1 /\ states' = stepStart /\ pc' = "failed"
        /\ UNCHANGED <<queues, wstate, wtask, stepStart>>
    BY <1>12, <2>1 DEF Recover
  <2>3. \A w \in Workers : /\ wstate[w] = "busy" => wtask[w].epoch \in Nat
                           /\ queues[w] \in Seq(VertexTask)
                           /\ \A i \in DOMAIN queues[w] : queues[w][i].epoch \in Nat
    <3>1. ASSUME NEW w \in Workers
          PROVE  /\ wstate[w] = "busy" => wtask[w] \in VertexTask
                 /\ queues[w] \in Seq(VertexTask)
      BY DEF Inv, TypeOK
    <3>2. ASSUME NEW w \in Workers, NEW i \in DOMAIN queues[w]
          PROVE  queues[w][i] \in VertexTask
      BY <3>1
    <3> QED
      BY <3>1, <3>2 DEF VertexTask
  <2>4. NoFuture' /\ Barrier'
    <3>1. epoch \in Nat
      BY DEF Inv, TypeOK
    <3>2. \A w \in Workers : wstate'[w] = "busy" =>
             wtask'[w].epoch <= epoch' /\ wtask'[w].epoch # epoch'
      BY <2>2, <2>3, <3>1 DEF Inv, NoFuture
    <3>3. \A w \in Workers : \A i \in DOMAIN queues'[w] :
             queues'[w][i].epoch <= epoch' /\ queues'[w][i].epoch # epoch'
      BY <2>2, <2>3, <3>1 DEF Inv, NoFuture
    <3> QED
      BY <3>2, <3>3 DEF NoFuture, Barrier, Live
  <2>5. Counting' /\ Exclusive' /\ Checkpointed' /\ AllOrNothing'
    <3>1. rescheduling' = {}
      BY <1>12 DEF Recover, Inv, Counting
    <3> QED
      BY <2>2, <3>1 DEF Counting, Exclusive, Checkpointed, AllOrNothing, Executing
  <2> QED
    BY <1>0, <2>4, <2>5 DEF Inv
<1>13. CASE EndSuperstep
  <2>1. /\ pc = "collect" /\ pc' = "loop" /\ ~Collecting
        /\ UNCHANGED <<queues, wstate, wtask, epoch>>
    BY <1>13 DEF EndSuperstep
  <2>2. Barrier'
    BY <2>1, AllCollected DEF Barrier, LiveOn, LiveIn, Live
  <2>3. NoFuture'
    BY <2>1 DEF Inv, NoFuture
  <2>4. rescheduling' = {}
    BY <1>13 DEF EndSuperstep, Inv, Counting
  <2> QED
    BY <1>0, <2>1, <2>2, <2>3, <2>4 DEF Inv, Counting, Exclusive, Checkpointed, AllOrNothing, Executing
<1>14. ASSUME NEW w \in Workers, TakeOwn(w) \/ Steal(w) PROVE Inv'
  BY <1>0, <1>14, TakeInv DEF TakeOwn, Steal
<1>15. ASSUME NEW w \in Workers, OwnQueueEmpty(w) \/ StealNothing(w) \/ WorkerExit(w)
       PROVE  Inv'
  <2>1. \A u \in Workers : wstate'[u] = "busy" <=> wstate[u] = "busy"
    BY <1>15 DEF OwnQueueEmpty, StealNothing, WorkerExit, Goto, Inv, TypeOK
  <2> QED
    BY <1>0, <1>15, <2>1, QuietStep DEF OwnQueueEmpty, StealNothing, WorkerExit, Goto
<1>16. ASSUME NEW w \in Workers, NEW val \in Vals, MutateInPlace(w, val) PROVE Inv'
  <2>1. pc # "failed"
    BY <1>16 DEF MutateInPlace, Inv, Barrier, Live
  <2> QED
    BY <1>0, <1>16, <2>1, QuietStep DEF MutateInPlace
<1>17. ASSUME NEW w \in Workers, FinishOk(w) \/ FinishFailed(w) PROVE Inv'
  <2>1. PICK r \in VertexResult : Finish(w, r)
    BY <1>17, FinishResult DEF Inv
  <2> QED
    BY <1>0, <2>1, FinishInv
<1>18. CASE StopCancel \/ StopClose
  BY <1>0, <1>18, QuietStep DEF StopCancel, StopClose
<1>19. CASE UNCHANGED vars
  BY <1>0, <1>19, QuietStep
<1> QED
  BY <1>1, <1>2, <1>3, <1>4, <1>5, <1>6, <1>7, <1>8, <1>9, <1>10, <1>11, <1>12, <1>13,
     <1>14, <1>15, <1>16, <1>17, <1>18, <1>19
     DEF Next, EngineStep, WorkerStep

--------------------------------------------------------------------------------
(* The result channel has room *)

(* a panic finds the scheduler closed, and a closed scheduler has no worker left *)
LEMMA NextStopped ==
    ASSUME TypeOK, Stopped, [Next]_vars
    PROVE  Stopped'
<1>1. CASE pc' = pc /\ UNCHANGED <<sched, wstate>>
  BY <1>1 DEF Stopped
<1>2. CASE SchedulePanics
  BY <1>2 DEF SchedulePanics, Stopped
<1>3. CASE pc' # "panicked" /\ UNCHANGED <<sched, wstate>>
  BY <1>3 DEF Stopped
<1>4. ASSUME NEW w \in Workers, WorkerStep(w) PROVE Stopped'
  <2>1. wstate[w] # "exited" /\ UNCHANGED <<pc, sched>>
    BY <1>4 DEF WorkerStep, TakeOwn, OwnQueueEmpty, Steal, StealNothing, WorkerExit, FinishOk,
                FinishFailed, Take, Goto, Finish
  <2> QED
    BY <2>1 DEF Stopped
<1>5. CASE StopCancel \/ StopClose
  BY <1>5 DEF StopCancel, StopClose, Stopped
<1>6. Run => pc' # "panicked" /\ UNCHANGED <<sched, wstate>>
  BY DEF Run
<1>7. EngineStep /\ ~SchedulePanics =>
          (pc' = pc \/ pc' # "panicked") /\ UNCHANGED <<sched, wstate>>
  BY DEF EngineStep, BeginSuperstep, EndRun, ScheduleVertex, Reschedule, Schedule,
         HandleSuccess, HandleRetry, HandleGiveUp, ReceiveResult, SuperstepFailed, Recover,
         EndSuperstep
<1>8. ASSUME TimeOut \/ \E w \in Workers, val \in Vals : MutateInPlace(w, val)
      PROVE  (pc' = pc \/ pc' # "panicked") /\ UNCHANGED <<sched, wstate>>
  BY <1>8 DEF TimeOut, MutateInPlace
<1> QED
  BY <1>1, <1>2, <1>3, <1>4, <1>5, <1>6, <1>7, <1>8 DEF Next

(* a live task is of a vertex of the batch that is in no result, and no two results
   are of the same vertex *)
LEMMA RoomForResult ==
    ASSUME EngineAssumption, Inv, Stopped
    PROVE  ResultsNeverBlock
<1> SUFFICES ASSUME NEW w \in Workers, LiveOn(w)
             PROVE  Len(results) < Cardinality(batch)
  BY DEF ResultsNeverBlock, LiveOn
<1>1. Executing
  <2>1. pc # "panicked"
    BY DEF Stopped, LiveOn
  <2>2. pc \notin {"idle", "loop", "done", "failed"}
    BY DEF Inv, Barrier, LiveOn
  <2> QED
    BY <2>1, <2>2 DEF Inv, TypeOK, Executing
<1> DEFINE x == wtask[w].vertex
           others == batch \ {x}
           f == [i \in 1 .. Len(results) |-> results[i].vertex]
<1>2. results \in Seq(VertexResult) /\ DOMAIN results = 1 .. Len(results) /\ Len(results) \in Nat
  BY DEF Inv, TypeOK
<1>3. x \in batch /\ x \in Owed
  BY <1>1 DEF Inv, Exclusive, Held, HeldOwed, Owed
<1>4. \A i \in DOMAIN results : results[i].vertex \in others
  BY <1>1 DEF Inv, Exclusive, Held, HeldOwed, WorkerResult, Owed
<1>5. f \in Injection(1 .. Len(results), others)
  <2>1. f \in [1 .. Len(results) -> others]
    BY <1>2, <1>4
  <2>2. \A i, j \in 1 .. Len(results) : f[i] = f[j] => i = j
    BY <1>1, <1>2 DEF Inv, Exclusive, Held, ResultResult
  <2> QED
    BY <2>1, <2>2 DEF Injection, IsInjective
<1> HIDE DEF x, others, f
<1>6. /\ IsFiniteSet(others) /\ Cardinality(others) = Cardinality(batch) - 1
      /\ Cardinality(batch) \in Nat
  BY <1>3, FiniteBatch, FS_RemoveElement DEF others, Inv
<1>7. Cardinality(1 .. Len(results)) <= Cardinality(others)
  BY <1>5, <1>6, FS_Injection
<1>8. Cardinality(1 .. Len(results)) = Len(results)
  <2>1. 1 \in Int /\ Len(results) \in Int
    BY <1>2
  <2>2. Cardinality(1 .. Len(results)) = IF 1 > Len(results) THEN 0 ELSE Len(results) - 1 + 1
    BY <2>1, FS_Interval, Zenon
  <2> QED
    BY <1>2, <2>2
<1> QED
  BY <1>2, <1>6, <1>7, <1>8

--------------------------------------------------------------------------------
(* Nothing is lost *)

LEMMA TailKeeps ==
    ASSUME NEW S, NEW s \in Seq(S), s # <<>>
    PROVE  \A i \in DOMAIN s : i = 1 \/ (i - 1 \in DOMAIN Tail(s) /\ Tail(s)[i - 1] = s[i])
OBVIOUS

LEMMA AppendKeeps ==
    ASSUME NEW S, NEW s \in Seq(S), NEW e \in S
    PROVE  /\ Len(s) + 1 \in DOMAIN Append(s, e) /\ Append(s, e)[Len(s) + 1] = e
           /\ \A i \in DOMAIN s : i \in DOMAIN Append(s, e) /\ Append(s, e)[i] = s[i]
OBVIOUS

(* a scheduled vertex is held, and the others stay so *)
LEMMA ScheduleHolds ==
    ASSUME EngineAssumption, TypeOK, NEW v \in Vertices, Schedule(TaskFor(v)), epoch' = epoch
    PROVE  /\ IsHeld(v)'
           /\ \A x : IsHeld(x) => IsHeld(x)'
<1> DEFINE worker == (counter + 1) % NumWorkers
           task == TaskFor(v)
<1>1. worker \in Workers
  BY RoundRobin DEF TypeOK
<1>2. task \in VertexTask /\ task.vertex = v /\ task.epoch = epoch
  BY TaskForType DEF TaskFor
<1>3. /\ queues' = [queues EXCEPT ![worker] = Append(queues[worker], task)]
      /\ UNCHANGED <<results, wstate, wtask>>
  BY DEF Schedule
<1> HIDE DEF worker, task
<1>4. queues[worker] \in Seq(VertexTask) /\ queues'[worker] = Append(queues[worker], task)
  BY <1>1, <1>3 DEF TypeOK
<1>5. IsHeld(v)'
  <2>1. \E i \in DOMAIN queues'[worker] : queues'[worker][i] = task
    BY <1>2, <1>4, AppendKeeps
  <2> QED
    BY <1>1, <1>2, <2>1 DEF IsHeld, LiveIn, Live
<1>6. ASSUME NEW u \in Workers, NEW i \in DOMAIN queues[u]
      PROVE  i \in DOMAIN queues'[u] /\ queues'[u][i] = queues[u][i]
  <2>1. CASE u = worker
    BY <1>2, <1>4, <2>1, AppendKeeps
  <2>2. CASE u # worker
    BY <1>3, <2>2 DEF TypeOK
  <2> QED
    BY <2>1, <2>2
<1>7. \A x : IsHeld(x) => IsHeld(x)'
  BY <1>3, <1>6 DEF IsHeld, LiveIn, LiveOn, Live
<1> QED
  BY <1>5, <1>7

(* a task that is taken is still held, by the worker now *)
LEMMA TakeHolds ==
    ASSUME TypeOK, NEW w \in Workers, NEW q \in Workers, Take(w, q), wstate[w] # "busy"
    PROVE  \A x : IsHeld(x) => IsHeld(x)'
<1>1. queues[q] \in Seq(VertexTask) /\ queues[q] # <<>>
  BY DEF Take, TypeOK
<1>2. /\ wtask'[w] = queues[q][1] /\ wstate'[w] = "busy"
      /\ \A u \in Workers : u # w => wtask'[u] = wtask[u] /\ wstate'[u] = wstate[u]
      /\ UNCHANGED <<results, epoch>>
  BY <1>1, TailElement DEF Take, TypeOK
<1>3. ASSUME NEW u \in Workers, NEW i \in DOMAIN queues[u]
      PROVE  \/ u = q /\ i = 1
             \/ \E j \in DOMAIN queues'[u] : queues'[u][j] = queues[u][i]
  <2>1. CASE u = q
    <3>1. queues'[u] = Tail(queues[q])
      BY <2>1 DEF Take, TypeOK
    <3>2. i \in DOMAIN queues[q]
      BY <2>1
    <3>3. i = 1 \/ (i - 1 \in DOMAIN Tail(queues[q]) /\ Tail(queues[q])[i - 1] = queues[q][i])
      BY <1>1, <3>2, TailKeeps
    <3>4. CASE i = 1
      BY <2>1, <3>4
    <3>5. CASE i # 1
      <4>1. i - 1 \in DOMAIN queues'[u] /\ queues'[u][i - 1] = queues[u][i]
        BY <2>1, <3>1, <3>3, <3>5
      <4> QED
        BY <4>1
    <3> QED
      BY <3>4, <3>5
  <2>2. CASE u # q
    BY <2>2 DEF Take, TypeOK
  <2> QED
    BY <2>1, <2>2
<1>4. \A u \in Workers : LiveOn(u) => LiveOn(u)' /\ wtask'[u] = wtask[u]
  BY <1>2 DEF LiveOn, Live
<1> QED
  BY <1>2, <1>3, <1>4 DEF IsHeld, LiveIn, LiveOn, Live

(* a task that is finished is still held, as a result now *)
LEMMA FinishHolds ==
    ASSUME TypeOK, NEW w \in Workers, NEW r \in VertexResult, Finish(w, r)
    PROVE  \A x : IsHeld(x) => IsHeld(x)'
<1>1. /\ UNCHANGED <<queues, epoch>> /\ r.vertex = wtask[w].vertex
      /\ \A u \in Workers : u # w => wtask'[u] = wtask[u] /\ wstate'[u] = wstate[u]
  BY DEF Finish, TypeOK
<1>2. results \in Seq(VertexResult)
  BY DEF TypeOK
<1>3. LiveOn(w) => \E i \in DOMAIN results' : results'[i].vertex = wtask[w].vertex
  BY <1>1, <1>2, AppendKeeps DEF Finish, LiveOn, Live
<1>4. \A i \in DOMAIN results : i \in DOMAIN results' /\ results'[i] = results[i]
  BY <1>2, AppendKeeps DEF Finish
<1> QED
  BY <1>1, <1>3, <1>4 DEF IsHeld, LiveIn, LiveOn, Live

(* receiving a result lets go of its vertex only *)
LEMMA ReceiveHolds ==
    ASSUME TypeOK, NEW r, ReceiveResult(r)
    PROVE  \A x : x # r.vertex /\ IsHeld(x) => IsHeld(x)'
<1>1. results \in Seq(VertexResult) /\ results # <<>> /\ results' = Tail(results)
  BY DEF ReceiveResult, TypeOK
<1>2. r = results[1] /\ UNCHANGED <<queues, epoch, wstate, wtask>>
  BY <1>1, TailElement DEF ReceiveResult
<1>3. \A i \in DOMAIN results : i = 1 \/ \E j \in DOMAIN results' : results'[j] = results[i]
  BY <1>1, TailKeeps
<1> QED
  BY <1>2, <1>3 DEF IsHeld, LiveIn, LiveOn, Live

LEMMA NextNothingLost ==
    ASSUME EngineAssumption, Inv, NothingLost, [Next]_vars
    PROVE  NothingLost'
<1>1. CASE Run
  BY <1>1 DEF Run, NothingLost, InSuperstep
<1>2. CASE BeginSuperstep
  BY <1>2 DEF BeginSuperstep, NothingLost, Owed
<1>3. CASE EndRun \/ SchedulePanics \/ TimeOut \/ SuperstepFailed \/ Recover \/ EndSuperstep
  BY <1>3 DEF EndRun, SchedulePanics, TimeOut, SuperstepFailed, Recover, EndSuperstep,
              NothingLost, InSuperstep
<1>4. ASSUME NEW v \in Vertices, ScheduleVertex(v) \/ Reschedule(v) PROVE NothingLost'
  <2>1. InSuperstep /\ Schedule(TaskFor(v)) /\ UNCHANGED <<epoch, batch, done>>
    BY <1>4 DEF ScheduleVertex, Reschedule, InSuperstep
  <2>2. \A x \in Owed' : x \in Owed \/ x = v
    BY <1>4 DEF ScheduleVertex, Reschedule, Owed, Inv, Counting
  <2> QED
    BY <2>1, <2>2, ScheduleHolds DEF Inv, NothingLost
<1>5. ASSUME NEW r, HandleSuccess(r) \/ HandleRetry(r) \/ HandleGiveUp(r) PROVE NothingLost'
  <2>1. ReceiveResult(r) /\ InSuperstep
    BY <1>5 DEF HandleSuccess, HandleRetry, HandleGiveUp, ReceiveResult, Collecting, InSuperstep
  <2>2. Owed' \subseteq Owed \ {r.vertex}
    <3>1. rescheduling = {} /\ UNCHANGED <<batch, toSchedule>>
      BY <2>1 DEF ReceiveResult, Collecting, Inv, Counting
    <3> QED
      BY <1>5, <3>1 DEF HandleSuccess, HandleRetry, HandleGiveUp, Owed
  <2> QED
    BY <2>1, <2>2, ReceiveHolds DEF Inv, NothingLost
<1>6. ASSUME NEW w \in Workers, TakeOwn(w) \/ Steal(w) PROVE NothingLost'
  <2>1. PICK q \in Workers : Take(w, q) /\ wstate[w] # "busy"
    BY <1>6 DEF TakeOwn, Steal
  <2>2. InSuperstep' = InSuperstep /\ Owed' = Owed
    BY <2>1 DEF Take, InSuperstep, Owed
  <2> QED
    BY <2>1, <2>2, TakeHolds DEF Inv, NothingLost
<1>7. ASSUME NEW w \in Workers, FinishOk(w) \/ FinishFailed(w) PROVE NothingLost'
  <2>1. PICK r \in VertexResult : Finish(w, r)
    BY <1>7, FinishResult DEF Inv
  <2>2. InSuperstep' = InSuperstep /\ Owed' = Owed
    BY <2>1 DEF Finish, InSuperstep, Owed
  <2> QED
    BY <2>1, <2>2, FinishHolds DEF Inv, NothingLost
<1>8. ASSUME UNCHANGED <<queues, results, epoch, wtask, batch, toSchedule, rescheduling, done, pc>>,
             \A w \in Workers : wstate[w] = "busy" => wstate'[w] = "busy"
      PROVE  NothingLost'
  <2>1. \A x : IsHeld(x) => IsHeld(x)'
    BY <1>8 DEF IsHeld, LiveIn, LiveOn, Live
  <2> QED
    BY <1>8, <2>1 DEF NothingLost, InSuperstep, Owed
<1>9. ASSUME NEW w \in Workers, OwnQueueEmpty(w) \/ StealNothing(w) \/ WorkerExit(w)
      PROVE  NothingLost'
  <2>1. \A u \in Workers : wstate[u] = "busy" => wstate'[u] = "busy"
    BY <1>9 DEF OwnQueueEmpty, StealNothing, WorkerExit, Goto, Inv, TypeOK
  <2> QED
    BY <1>8, <1>9, <2>1 DEF OwnQueueEmpty, StealNothing, WorkerExit, Goto
<1>10. ASSUME NEW w \in Workers, NEW val \in Vals, MutateInPlace(w, val) PROVE NothingLost'
  BY <1>8, <1>10 DEF MutateInPlace
<1>11. CASE StopCancel \/ StopClose \/ UNCHANGED vars
  BY <1>8, <1>11 DEF StopCancel, StopClose
<1> QED
  BY <1>1, <1>2, <1>3, <1>4, <1>5, <1>6, <1>7, <1>9, <1>10, <1>11
     DEF Next, EngineStep, WorkerStep

--------------------------------------------------------------------------------
(* Exactly once *)

LEMMA OneElement ==
    ASSUME NEW S, NEW e, e \in S, \A x \in S : x = e
    PROVE  Cardinality(S) = 1
<1>1. S = {e}
  OBVIOUS
<1> QED
  BY <1>1, FS_Singleton

(* every place of Places, named by what holds v there *)
LEMMA PlacesAre ==
    ASSUME NEW v, NEW p
    PROVE  p \in Places(v) <=>
              \/ p = <<"toSchedule", 0, 0>> /\ v \in toSchedule
              \/ p = <<"rescheduling", 0, 0>> /\ v \in rescheduling
              \/ p = <<"done", 0, 0>> /\ v \in done
              \/ \E i \in DOMAIN results : p = <<"results", 0, i>> /\ results[i].vertex = v
              \/ \E w \in Workers : p = <<"worker", w, 0>> /\ LiveOn(w) /\ wtask[w].vertex = v
              \/ \E w \in Workers : \E i \in DOMAIN queues[w] :
                    p = <<"queue", w, i>> /\ LiveIn(w, i) /\ queues[w][i].vertex = v
BY DEF Places, LiveOn, LiveIn, Live

LEMMA InExactlyOnePlace ==
    ASSUME EngineAssumption, Inv, NothingLost
    PROVE  ExactlyOnce
<1> SUFFICES ASSUME InSuperstep, NEW v \in Vertices
             PROVE  IF v \in batch THEN Cardinality(Places(v)) = 1 ELSE Places(v) = {}
  BY DEF ExactlyOnce
<1>1. Held
  BY DEF Inv, Exclusive, Executing, InSuperstep
<1>2. /\ toSchedule \cup rescheduling \cup done \subseteq batch
      /\ toSchedule \cap done = {} /\ rescheduling \cap done = {}
      /\ toSchedule = {} \/ rescheduling = {}
  BY DEF Inv, Counting, Executing, InSuperstep
<1>3. CASE v \notin batch
  <2>1. ~IsHeld(v)
    BY <1>1, <1>3 DEF Held, HeldOwed, IsHeld, Owed
  <2> QED
    BY <1>2, <1>3, <2>1, PlacesAre DEF IsHeld
<1>4. CASE v \in batch /\ v \notin Owed
  <2>1. ~IsHeld(v)
    BY <1>1, <1>4 DEF Held, HeldOwed, IsHeld
  <2>2. \A p, q \in Places(v) : p = q
    BY <1>2, <2>1, PlacesAre DEF IsHeld
  <2>3. \E p : p \in Places(v)
    BY <1>4, PlacesAre DEF Owed
  <2> QED
    BY <1>4, <2>2, <2>3, OneElement
<1>5. CASE v \in Owed
  <2>1. v \notin toSchedule /\ v \notin rescheduling /\ v \notin done /\ v \in batch
    BY <1>5 DEF Owed
  <2>2. IsHeld(v)
    BY <1>5 DEF NothingLost
  <2>3. PICK p : p \in Places(v)
    BY <2>2, PlacesAre DEF IsHeld
  <2>4. ASSUME NEW i \in DOMAIN results, results[i].vertex = v,
               NEW q \in Places(v)
        PROVE  q = <<"results", 0, i>>
    <3>1. \A w \in Workers : ~(LiveOn(w) /\ wtask[w].vertex = v)
      BY <1>1, <2>4 DEF Held, WorkerResult
    <3>2. \A w \in Workers : \A j \in DOMAIN queues[w] : ~(LiveIn(w, j) /\ queues[w][j].vertex = v)
      BY <1>1, <2>4 DEF Held, QueueResult
    <3>3. \A j \in DOMAIN results : results[j].vertex = v => j = i
      BY <1>1, <2>4 DEF Held, ResultResult
    <3> QED
      BY <2>1, <2>4, <3>1, <3>2, <3>3, PlacesAre
  <2>5. ASSUME NEW w \in Workers, LiveOn(w), wtask[w].vertex = v, NEW q \in Places(v)
        PROVE  q = <<"worker", w, 0>>
    <3>1. \A j \in DOMAIN results : results[j].vertex # v
      BY <1>1, <2>5 DEF Held, WorkerResult
    <3>2. \A u \in Workers : \A j \in DOMAIN queues[u] : ~(LiveIn(u, j) /\ queues[u][j].vertex = v)
      BY <1>1, <2>5 DEF Held, QueueWorker
    <3>3. \A u \in Workers : LiveOn(u) /\ wtask[u].vertex = v => u = w
      BY <1>1, <2>5 DEF Held, WorkerWorker
    <3> QED
      BY <2>1, <2>5, <3>1, <3>2, <3>3, PlacesAre
  <2>6. ASSUME NEW w \in Workers, NEW i \in DOMAIN queues[w], LiveIn(w, i),
               queues[w][i].vertex = v, NEW q \in Places(v)
        PROVE  q = <<"queue", w, i>>
    <3>1. \A j \in DOMAIN results : results[j].vertex # v
      BY <1>1, <2>6 DEF Held, QueueResult
    <3>2. \A u \in Workers : ~(LiveOn(u) /\ wtask[u].vertex = v)
      BY <1>1, <2>6 DEF Held, QueueWorker
    <3>3. \A u \in Workers : \A j \in DOMAIN queues[u] :
             LiveIn(u, j) /\ queues[u][j].vertex = v => u = w /\ j = i
      BY <1>1, <2>6 DEF Held, QueueQueue
    <3> QED
      BY <2>1, <2>6, <3>1, <3>2, <3>3, PlacesAre
  <2>7. \A q \in Places(v) : q = p
    BY <2>2, <2>3, <2>4, <2>5, <2>6 DEF IsHeld
  <2> QED
    BY <2>1, <2>3, <2>7, OneElement
<1> QED
  BY <1>3, <1>4, <1>5 DEF Owed

--------------------------------------------------------------------------------
(* The retries and the mail of the first Run *)

(* a step that touches neither *)
LEMMA FirstRunKept ==
    ASSUME FirstRun,
           UNCHANGED <<runs, step, errs, fails, retryAttempts, inbox, done, batch>>,
           rescheduling' \subseteq rescheduling,
           Executing' => Executing, pc' = "loop" => pc = "loop", pc' = pc \/ pc # "idle"
    PROVE  FirstRun'
BY DEF FirstRun, Unused, FirstRunBetween, FirstRunWithin, RetryBudget, FirstRunMail

(* what is known of the vertex whose result is received *)
LEMMA ReceivedInFirstRun ==
    ASSUME EngineAssumption, Inv, FirstRun, NEW r, ReceiveResult(r), runs = 1
    PROVE  /\ r.vertex \in Vertices /\ r.vertex \in batch
           /\ r.vertex \notin done /\ r.vertex \notin errs
           /\ fails[r.vertex] = retryAttempts[r.vertex]
           /\ fails[r.vertex] \in Nat /\ fails[r.vertex] <= MaxRetries
<1>1. r.vertex \in Owed /\ r.vertex \in Vertices /\ Executing
  BY ReceivedOwed DEF ReceiveResult, Collecting, Executing
<1>2. r.vertex \notin errs
  BY <1>1 DEF Owed, FirstRun, FirstRunWithin
<1> QED
  BY <1>1, <1>2 DEF Owed, FirstRun, FirstRunWithin, Inv, TypeOK

LEMMA NextFirstRun ==
    ASSUME EngineAssumption, Inv, Inv', FirstRun, [Next]_vars
    PROVE  FirstRun'
<1>0. runs \in Nat /\ MaxRetries \in Nat /\ step \in Nat
  BY DEF Inv, TypeOK, EngineAssumption
<1>1. CASE Run
  BY <1>0, <1>1 DEF Run, FirstRun, Unused, FirstRunBetween, FirstRunWithin, RetryBudget,
                    FirstRunMail, Executing
<1>2. CASE BeginSuperstep
  <2>1. /\ pc = "loop" /\ pc' \in {"collect", "schedule"}
        /\ errs' = {} /\ done' = {} /\ fails' = [v \in Vertices |-> 0]
        /\ UNCHANGED <<runs, retryAttempts, inbox, step>>
    BY <1>2 DEF BeginSuperstep
  <2>2. runs # 0
    BY <2>1 DEF FirstRun, Unused
  <2>3. FirstRunWithin'
    <3>1. rescheduling' = {}
      BY <1>2 DEF BeginSuperstep, Inv, Counting
    <3> QED
      BY <1>0, <2>1, <3>1 DEF FirstRun, FirstRunBetween, FirstRunWithin
  <2>4. FirstRunMail'
    BY <2>1 DEF FirstRun, FirstRunBetween, FirstRunMail
  <2>5. RetryBudget'
    BY <1>0, <2>1 DEF RetryBudget
  <2> QED
    BY <2>1, <2>2, <2>3, <2>4, <2>5 DEF FirstRun, Unused, FirstRunBetween
<1>3. CASE EndRun \/ SchedulePanics \/ TimeOut \/ SuperstepFailed \/ Recover
  BY <1>3, FirstRunKept DEF EndRun, SchedulePanics, TimeOut, SuperstepFailed, Recover,
                            Collecting, Executing
<1>4. ASSUME NEW v \in Vertices, ScheduleVertex(v) \/ Reschedule(v) PROVE FirstRun'
  BY <1>4, FirstRunKept DEF ScheduleVertex, Reschedule, Executing
<1>5. ASSUME NEW r, HandleSuccess(r) \/ HandleRetry(r) \/ HandleGiveUp(r) PROVE FirstRun'
  <2>1. /\ ReceiveResult(r) /\ pc = "collect" /\ Executing /\ Executing'
        /\ pc' # "loop" /\ UNCHANGED <<runs, batch, step>> /\ rescheduling = {}
    BY <1>5 DEF HandleSuccess, HandleRetry, HandleGiveUp, ReceiveResult, Collecting, Executing,
                Inv, Counting
  <2>2. runs # 0
    BY <2>1 DEF FirstRun, Unused
  <2>3. CASE runs # 1
    BY <2>1, <2>2, <2>3 DEF FirstRun, Unused, FirstRunBetween, FirstRunWithin, RetryBudget,
                            FirstRunMail
  <2>4. CASE runs = 1
    <3>1. /\ r.vertex \in Vertices /\ r.vertex \in batch
          /\ r.vertex \notin done /\ r.vertex \notin errs
          /\ fails[r.vertex] = retryAttempts[r.vertex]
          /\ fails[r.vertex] \in Nat /\ fails[r.vertex] <= MaxRetries
      BY <2>1, <2>4, ReceivedInFirstRun
    <3>2. /\ retryAttempts \in [Vertices -> 0 .. MaxRetries] /\ fails \in [Vertices -> Nat]
          /\ inbox \in [Vertices -> SUBSET Message]
      BY DEF Inv, TypeOK
    <3>3. FirstRunWithin' /\ FirstRunMail'
      <4>1. CASE HandleSuccess(r)
        <5>1. FirstRunWithin'
          BY <2>1, <2>4, <3>1, <3>2, <4>1 DEF HandleSuccess, FirstRun, FirstRunWithin
        <5>2. FirstRunMail'
          BY <2>1, <2>4, <3>1, <4>1 DEF HandleSuccess, FirstRun, FirstRunMail
        <5> QED
          BY <5>1, <5>2
      <4>2. CASE HandleRetry(r)
        <5>1. FirstRunWithin'
          BY <1>0, <2>1, <2>4, <3>1, <3>2, <4>2
             DEF HandleRetry, RetryAllowed, FirstRun, FirstRunWithin
        <5>2. FirstRunMail'
          BY <2>1, <2>4, <4>2 DEF HandleRetry, FirstRun, FirstRunMail
        <5> QED
          BY <5>1, <5>2
      <4>3. CASE HandleGiveUp(r)
        <5>1. fails[r.vertex] = MaxRetries
          BY <1>0, <3>1, <3>2, <4>3 DEF HandleGiveUp, RetryAllowed
        <5>2. FirstRunWithin'
          BY <1>0, <2>1, <2>4, <3>1, <3>2, <4>3, <5>1
             DEF HandleGiveUp, FirstRun, FirstRunWithin
        <5>3. FirstRunMail'
          BY <2>1, <2>4, <3>1, <4>3 DEF HandleGiveUp, FirstRun, FirstRunMail
        <5> QED
          BY <5>2, <5>3
      <4> QED
        BY <1>5, <4>1, <4>2, <4>3
    <3>4. RetryBudget'
      <4>1. \A v \in Vertices : fails'[v] \in Nat
        BY DEF Inv, TypeOK
      <4> QED
        BY <1>0, <2>1, <3>3, <4>1 DEF FirstRunWithin, RetryBudget
    <3> QED
      BY <2>1, <2>2, <3>3, <3>4 DEF FirstRun, Unused, FirstRunBetween
  <2> QED
    BY <2>3, <2>4
<1>6. CASE EndSuperstep
  <2>1. /\ pc = "collect" /\ ~Collecting /\ Executing /\ ~Executing'
        /\ errs = {} /\ inbox' = [v \in Vertices |-> {}]
        /\ UNCHANGED <<runs, errs, fails, retryAttempts, done>>
    BY <1>6 DEF EndSuperstep, Executing
  <2>2. done = batch
    BY <2>1, AllDone
  <2>3. FirstRunBetween'
    BY <2>1, <2>2 DEF FirstRun, FirstRunWithin, FirstRunBetween
  <2>4. RetryBudget' /\ FirstRunMail'
    BY <2>1 DEF FirstRun, RetryBudget, FirstRunMail
  <2> QED
    BY <2>1, <2>3, <2>4 DEF FirstRun, Unused, FirstRunWithin
<1>7. ASSUME NEW w \in Workers, WorkerStep(w) PROVE FirstRun'
  <2>1. UNCHANGED <<engineVars, fieldVars, histVars>>
    BY <1>7 DEF WorkerStep, TakeOwn, OwnQueueEmpty, Steal, StealNothing, WorkerExit, FinishOk,
                FinishFailed, Take, Goto, Finish
  <2> QED
    BY <2>1, FirstRunKept DEF Executing
<1>8. ASSUME NEW w \in Workers, NEW val \in Vals, MutateInPlace(w, val) PROVE FirstRun'
  BY <1>8, FirstRunKept DEF MutateInPlace, Executing
<1>9. CASE StopCancel \/ StopClose \/ UNCHANGED vars
  BY <1>9, FirstRunKept DEF StopCancel, StopClose, Executing
<1> QED
  BY <1>1, <1>2, <1>3, <1>4, <1>5, <1>6, <1>7, <1>8, <1>9 DEF Next, EngineStep

--------------------------------------------------------------------------------
(* No message overtakes the barrier *)

(* what a task was given stays in time while the superstep goes on *)
Ongoing ==
    /\ step' = step /\ runs' = runs
    /\ done \ errs \subseteq done' \ errs'
    /\ \A v \in Vertices : fails[v] > 0 => fails'[v] > 0

Later(task) ==
    \A m \in task.messages :
        \/ m.step <= step'
        \/ m.step = step' + 1 /\ fails'[task.vertex] > 0 /\ m.from \in done' \ errs'

LEMMA StaysInTime ==
    ASSUME Ongoing
    PROVE  \A task \in VertexTask : InTime(task) => Later(task)
<1>1. \A task \in VertexTask : task.vertex \in Vertices
  BY DEF VertexTask
<1> QED
  BY <1>1, Zenon DEF Ongoing, InTime, Later

(* the tasks before a step, and what has to be shown of those after it *)
LEMMA TasksInTime ==
    ASSUME TypeOK, NoMessageOvertakes, Ongoing, runs = 1, NEW w \in Workers
    PROVE  /\ \A i \in DOMAIN queues[w] : LiveIn(w, i) => Later(queues[w][i])
           /\ LiveOn(w) => Later(wtask[w])
<1>1. \A i \in DOMAIN queues[w] : queues[w][i] \in VertexTask
  <2>1. queues[w] \in Seq(VertexTask)
    BY DEF TypeOK
  <2> QED
    BY <2>1
<1>2. LiveOn(w) => wtask[w] \in VertexTask
  BY DEF TypeOK, LiveOn
<1> QED
  BY <1>1, <1>2, StaysInTime DEF NoMessageOvertakes

LEMMA LaterIsEnough ==
    ASSUME runs' = 1 => \A w \in Workers :
               /\ \A i \in DOMAIN queues'[w] :
                     queues'[w][i].epoch = epoch' => Later(queues'[w][i])
               /\ wstate'[w] = "busy" /\ wtask'[w].epoch = epoch' => Later(wtask'[w])
    PROVE  NoMessageOvertakes'
BY DEF NoMessageOvertakes, LiveIn, LiveOn, Live, InTime, Later

(* a step that moves no task *)
LEMMA TasksKept ==
    ASSUME TypeOK, NoMessageOvertakes, Ongoing, UNCHANGED <<queues, wtask, epoch>>,
           \A w \in Workers : wstate'[w] = "busy" => wstate[w] = "busy"
    PROVE  NoMessageOvertakes'
<1>1. ASSUME runs' = 1, NEW w \in Workers
      PROVE  /\ \A i \in DOMAIN queues'[w] :
                   queues'[w][i].epoch = epoch' => Later(queues'[w][i])
             /\ wstate'[w] = "busy" /\ wtask'[w].epoch = epoch' => Later(wtask'[w])
  <2>1. runs = 1
    BY <1>1 DEF Ongoing
  <2>2. /\ \A i \in DOMAIN queues[w] : LiveIn(w, i) => Later(queues[w][i])
        /\ LiveOn(w) => Later(wtask[w])
    BY <2>1, TasksInTime
  <2> QED
    BY <2>2 DEF LiveIn, LiveOn, Live
<1> QED
  BY <1>1, LaterIsEnough

(* after a step that leaves no live task *)
LEMMA NoTasksLeft ==
    ASSUME Barrier', pc' \in {"idle", "loop", "done", "failed"}
    PROVE  NoMessageOvertakes'
BY DEF Barrier, NoMessageOvertakes, LiveIn, LiveOn, Live

(* a task scheduled with mail that is in time *)
LEMMA ScheduledInTime ==
    ASSUME EngineAssumption, TypeOK, NoMessageOvertakes, Ongoing, NEW v \in Vertices,
           Schedule(TaskFor(v)), epoch' = epoch, runs = 1 => Later(TaskFor(v))
    PROVE  NoMessageOvertakes'
<1> DEFINE worker == (counter + 1) % NumWorkers
           task == TaskFor(v)
<1>1. worker \in Workers
  BY RoundRobin DEF TypeOK
<1>2. task \in VertexTask
  BY TaskForType
<1>3. /\ queues' = [queues EXCEPT ![worker] = Append(queues[worker], task)]
      /\ UNCHANGED <<wstate, wtask>>
  BY DEF Schedule
<1>4. runs = 1 => Later(task)
  OBVIOUS
<1> HIDE DEF worker, task
<1>5. ASSUME NEW w \in Workers, NEW i \in DOMAIN queues'[w]
      PROVE  \/ i \in DOMAIN queues[w] /\ queues'[w][i] = queues[w][i]
             \/ queues'[w][i] = task
  <2>1. CASE w = worker
    BY <1>1, <1>2, <1>3, <2>1, AppendElement DEF TypeOK
  <2>2. CASE w # worker
    BY <1>1, <1>3, <2>2 DEF TypeOK
  <2> QED
    BY <2>1, <2>2
<1>6. ASSUME runs' = 1, NEW w \in Workers
      PROVE  /\ \A i \in DOMAIN queues'[w] :
                   queues'[w][i].epoch = epoch' => Later(queues'[w][i])
             /\ wstate'[w] = "busy" /\ wtask'[w].epoch = epoch' => Later(wtask'[w])
  <2>1. runs = 1
    BY <1>6 DEF Ongoing
  <2>2. /\ \A i \in DOMAIN queues[w] : LiveIn(w, i) => Later(queues[w][i])
        /\ LiveOn(w) => Later(wtask[w])
    BY <2>1, TasksInTime
  <2>3. wstate'[w] = "busy" /\ wtask'[w].epoch = epoch' => Later(wtask'[w])
    BY <1>3, <2>2 DEF LiveOn, Live
  <2>4. ASSUME NEW i \in DOMAIN queues'[w], queues'[w][i].epoch = epoch'
        PROVE  Later(queues'[w][i])
    <3>1. CASE i \in DOMAIN queues[w] /\ queues'[w][i] = queues[w][i]
      BY <2>2, <2>4, <3>1 DEF LiveIn, Live
    <3>2. CASE queues'[w][i] = task
      BY <1>4, <2>1, <3>2
    <3> QED
      BY <1>5, <3>1, <3>2
  <2> QED
    BY <2>3, <2>4
<1> QED
  BY <1>6, LaterIsEnough

(* a task that a worker takes stays what it was *)
LEMMA TakenInTime ==
    ASSUME TypeOK, NoMessageOvertakes, NEW w \in Workers, NEW q \in Workers, Take(w, q)
    PROVE  NoMessageOvertakes'
<1>1. queues[q] \in Seq(VertexTask) /\ queues[q] # <<>>
  BY DEF Take, TypeOK
<1>2. /\ wtask'[w] = queues[q][1] /\ 1 \in DOMAIN queues[q]
      /\ \A u \in Workers : u # w => wtask'[u] = wtask[u] /\ wstate'[u] = wstate[u]
  BY <1>1, TailElement DEF Take, TypeOK
<1>3. Ongoing /\ epoch' = epoch
  BY DEF Take, Ongoing, engineVars, fieldVars, histVars
<1>4. ASSUME NEW u \in Workers, NEW i \in DOMAIN queues'[u]
      PROVE  \E j \in DOMAIN queues[u] : queues'[u][i] = queues[u][j]
  <2>1. CASE u = q
    BY <1>1, <2>1, TailElement DEF Take, TypeOK
  <2>2. CASE u # q
    BY <2>2 DEF Take, TypeOK
  <2> QED
    BY <2>1, <2>2
<1>5. ASSUME runs' = 1, NEW u \in Workers
      PROVE  /\ \A i \in DOMAIN queues'[u] :
                   queues'[u][i].epoch = epoch' => Later(queues'[u][i])
             /\ wstate'[u] = "busy" /\ wtask'[u].epoch = epoch' => Later(wtask'[u])
  <2>1. runs = 1
    BY <1>3, <1>5 DEF Ongoing
  <2>2. \A x \in Workers : /\ \A i \in DOMAIN queues[x] : LiveIn(x, i) => Later(queues[x][i])
                           /\ LiveOn(x) => Later(wtask[x])
    BY <1>3, <2>1, TasksInTime
  <2>3. \A i \in DOMAIN queues'[u] : queues'[u][i].epoch = epoch' => Later(queues'[u][i])
    BY <1>3, <1>4, <2>2 DEF LiveIn, Live
  <2>4. wstate'[u] = "busy" /\ wtask'[u].epoch = epoch' => Later(wtask'[u])
    BY <1>2, <1>3, <2>2 DEF LiveIn, LiveOn, Live
  <2> QED
    BY <2>3, <2>4
<1> QED
  BY <1>5, LaterIsEnough

LEMMA NextInTime ==
    ASSUME EngineAssumption, Inv, Inv', FirstRun, NoMessageOvertakes, [Next]_vars
    PROVE  NoMessageOvertakes'
<1>0. TypeOK /\ Barrier' /\ runs \in Nat /\ step \in Nat
  BY DEF Inv, TypeOK
<1>1. CASE Run \/ EndRun \/ EndSuperstep
  BY <1>0, <1>1, NoTasksLeft DEF Run, EndRun, EndSuperstep
<1>2. CASE BeginSuperstep
  <2>1. /\ pc = "loop" /\ UNCHANGED <<queues, wtask, wstate, epoch>>
    BY <1>2 DEF BeginSuperstep
  <2> QED
    BY <2>1 DEF Inv, Barrier, NoMessageOvertakes, LiveIn, LiveOn, Live
<1>3. CASE SchedulePanics \/ TimeOut \/ SuperstepFailed
  BY <1>0, <1>3, TasksKept DEF SchedulePanics, TimeOut, SuperstepFailed, Ongoing
<1>4. CASE Recover
  BY <1>0, <1>4, NoTasksLeft DEF Recover
<1>5. ASSUME NEW v \in Vertices, ScheduleVertex(v) PROVE NoMessageOvertakes'
  <2>1. Schedule(TaskFor(v)) /\ Ongoing /\ epoch' = epoch /\ pc = "schedule"
    BY <1>5 DEF ScheduleVertex, Ongoing
  <2>2. done = {}
    BY <2>1 DEF Inv, Counting
  <2>3. runs = 1 => Later(TaskFor(v))
    BY <2>2 DEF FirstRun, FirstRunMail, TaskFor, Later
  <2> QED
    BY <1>0, <2>1, <2>3, ScheduledInTime
<1>6. ASSUME NEW v \in Vertices, Reschedule(v) PROVE NoMessageOvertakes'
  <2>1. /\ Schedule(TaskFor(v)) /\ Ongoing /\ epoch' = epoch /\ v \in rescheduling
        /\ Executing /\ UNCHANGED <<step, done, errs, fails>>
    BY <1>6 DEF Reschedule, Ongoing, Executing
  <2>2. runs = 1 => Later(TaskFor(v))
    BY <2>1 DEF FirstRun, FirstRunMail, FirstRunWithin, TaskFor, Later
  <2> QED
    BY <1>0, <2>1, <2>2, ScheduledInTime
<1>7. ASSUME NEW r, HandleSuccess(r) \/ HandleRetry(r) \/ HandleGiveUp(r) PROVE NoMessageOvertakes'
  <2>1. ReceiveResult(r) /\ UNCHANGED <<step, runs, queues, wtask, wstate, epoch>>
    BY <1>7 DEF HandleSuccess, HandleRetry, HandleGiveUp, ReceiveResult
  <2>2. r.vertex \notin done /\ r.vertex \in Vertices
    BY <2>1, ReceivedOwed DEF Owed
  <2>3. fails \in [Vertices -> Nat]
    BY <1>0 DEF TypeOK
  <2>4. Ongoing
    <3>1. CASE HandleSuccess(r)
      BY <2>1, <3>1 DEF HandleSuccess, Ongoing, FirstRun, FirstRunWithin
    <3>2. CASE HandleRetry(r)
      BY <2>1, <2>3, <3>2 DEF HandleRetry, Ongoing
    <3>3. CASE HandleGiveUp(r)
      BY <2>1, <2>2, <2>3, <3>3 DEF HandleGiveUp, Ongoing
    <3> QED
      BY <1>7, <3>1, <3>2, <3>3
  <2> QED
    BY <1>0, <2>1, <2>4, TasksKept
<1>8. ASSUME NEW w \in Workers, TakeOwn(w) \/ Steal(w) PROVE NoMessageOvertakes'
  BY <1>0, <1>8, TakenInTime DEF TakeOwn, Steal
<1>9. ASSUME NEW w \in Workers, OwnQueueEmpty(w) \/ StealNothing(w) \/ WorkerExit(w)
      PROVE  NoMessageOvertakes'
  <2>1. /\ UNCHANGED <<engineVars, fieldVars, histVars, queues, wtask>>
        /\ \A u \in Workers : wstate'[u] = "busy" => wstate[u] = "busy"
    BY <1>0, <1>9 DEF OwnQueueEmpty, StealNothing, WorkerExit, Goto, TypeOK
  <2> QED
    BY <1>0, <2>1, TasksKept DEF Ongoing, engineVars, fieldVars, histVars
<1>10. ASSUME NEW w \in Workers, FinishOk(w) \/ FinishFailed(w) PROVE NoMessageOvertakes'
  <2>1. PICK r \in VertexResult : Finish(w, r)
    BY <1>0, <1>10, FinishResult
  <2>2. /\ UNCHANGED <<queues, epoch>> /\ Ongoing /\ wstate'[w] # "busy"
        /\ \A u \in Workers : u # w => wtask'[u] = wtask[u] /\ wstate'[u] = wstate[u]
    BY <1>0, <2>1 DEF Finish, TypeOK, Ongoing, engineVars, fieldVars, histVars
  <2>3. ASSUME runs' = 1, NEW u \in Workers
        PROVE  /\ \A i \in DOMAIN queues'[u] :
                     queues'[u][i].epoch = epoch' => Later(queues'[u][i])
               /\ wstate'[u] = "busy" /\ wtask'[u].epoch = epoch' => Later(wtask'[u])
    <3>1. runs = 1
      BY <2>2, <2>3 DEF Ongoing
    <3>2. /\ \A i \in DOMAIN queues[u] : LiveIn(u, i) => Later(queues[u][i])
          /\ LiveOn(u) => Later(wtask[u])
      BY <1>0, <2>2, <3>1, TasksInTime
    <3> QED
      BY <2>2, <3>2 DEF LiveIn, LiveOn, Live
  <2> QED
    BY <2>3, LaterIsEnough
<1>11. ASSUME NEW w \in Workers, NEW val \in Vals, MutateInPlace(w, val) PROVE NoMessageOvertakes'
  BY <1>0, <1>11, TasksKept DEF MutateInPlace, Ongoing, engineVars, schedVars, histVars
<1>12. CASE StopCancel \/ StopClose \/ UNCHANGED vars
  BY <1>0, <1>12, TasksKept DEF StopCancel, StopClose, Ongoing, vars, engineVars, fieldVars,
                                schedVars, histVars
<1> QED
  BY <1>1, <1>2, <1>3, <1>4, <1>5, <1>6, <1>7, <1>8, <1>9, <1>10, <1>11, <1>12
     DEF Next, EngineStep, WorkerStep

LEMMA InitFullInv == ASSUME EngineAssumption, Init PROVE FullInv
<1>1. Inv
  BY InitInv
<1>2. NothingLost /\ Stopped
  BY DEF Init, NothingLost, InSuperstep, Stopped
<1>3. FirstRun
  BY DEF Init, EngineAssumption, FirstRun, Unused, FirstRunBetween, FirstRunWithin, RetryBudget,
         FirstRunMail
<1>4. NoMessageOvertakes
  BY DEF Init, NoMessageOvertakes
<1> QED
  BY <1>1, <1>2, <1>3, <1>4 DEF FullInv

LEMMA NextFullInv == ASSUME EngineAssumption, FullInv, [Next]_vars PROVE FullInv'
<1>1. Inv'
  BY NextInv DEF FullInv
<1> QED
  BY <1>1, NextNothingLost, NextStopped, NextFirstRun, NextInTime DEF FullInv, Inv

--------------------------------------------------------------------------------
(* The theorems *)

(* Every reachable state satisfies the inductive invariant. *)
THEOREM Invariance == EngineAssumption => (Spec => []Inv)
<1> SUFFICES ASSUME EngineAssumption PROVE Spec => []Inv
  OBVIOUS
<1>1. Init => Inv
  BY InitInv
<1>2. Inv /\ [Next]_vars => Inv'
  BY NextInv
<1> QED
  BY <1>1, <1>2, PTL DEF Spec

(* Every reachable state is well typed; in particular no queue grows beyond its
   capacity and no vertex uses more than MaxRetries retries
   (scheduler.go Schedule, recovery.go HandleError). *)
THEOREM TypeCorrect == EngineAssumption => (Spec => []TypeOK)
<1>1. Inv => TypeOK
  BY DEF Inv
<1> QED
  BY <1>1, Invariance, PTL

(* The BSP barrier of executeSuperstep, whatever the number of vertices, workers
   and retries: between supersteps and after Run returned, no task can still
   change a vertex state or send a result the engine would read. *)
THEOREM BarrierHolds == EngineAssumption => (Spec => []Barrier)
<1>1. Inv => Barrier
  BY DEF Inv
<1> QED
  BY <1>1, Invariance, PTL

(* A failed superstep is rolled back as a whole and stays so until the next Run
   (runStep's error path), even while the tasks of a timed-out superstep run. *)
THEOREM FailureIsAllOrNothing == EngineAssumption => (Spec => []AllOrNothing)
<1>1. Inv => AllOrNothing
  BY DEF Inv
<1> QED
  BY <1>1, Invariance, PTL

(* Every reachable state satisfies the whole inductive invariant, the parts about lost
   executions, a stopped scheduler and the first Run included. *)
THEOREM FullInvariance == EngineAssumption => (Spec => []FullInv)
<1> SUFFICES ASSUME EngineAssumption PROVE Spec => []FullInv
  OBVIOUS
<1>1. Init => FullInv
  BY InitFullInv
<1>2. FullInv /\ [Next]_vars => FullInv'
  BY NextFullInv
<1> QED
  BY <1>1, <1>2, PTL DEF Spec

(* While a superstep runs, every vertex of its batch is in exactly one place and no
   other vertex in any: between the queues, the thieves and the result channel no
   execution is lost and none is done twice (scheduler.go worker, stealWork;
   engine.go executeSuperstep). *)
THEOREM ExecutedExactlyOnce == EngineAssumption => (Spec => []ExactlyOnce)
<1> SUFFICES ASSUME EngineAssumption PROVE Spec => []ExactlyOnce
  OBVIOUS
<1>1. FullInv => ExactlyOnce
  BY InExactlyOnePlace DEF FullInv
<1> QED
  BY <1>1, FullInvariance, PTL

(* The result channel, made with room for the batch, has room for every result still
   to come, retries included: executeTask never blocks on it, not even after a timeout
   or a Stop (engine.go executeSuperstep, scheduler.go executeTask). *)
THEOREM SendingNeverBlocks == EngineAssumption => (Spec => []ResultsNeverBlock)
<1> SUFFICES ASSUME EngineAssumption PROVE Spec => []ResultsNeverBlock
  OBVIOUS
<1>1. FullInv => ResultsNeverBlock
  BY RoomForResult DEF FullInv
<1> QED
  BY <1>1, FullInvariance, PTL

(* In the first Run of an engine a vertex is given up exactly when it failed
   MaxRetries + 1 times in the superstep (recovery.go HandleError). *)
THEOREM RetriesAreBudgeted == EngineAssumption => (Spec => []RetryBudget)
<1>1. FullInv => RetryBudget
  BY DEF FullInv, FirstRun
<1> QED
  BY <1>1, FullInvariance, PTL

(* In the first Run of an engine no message of a superstep reaches a vertex that executes
   for the first time in it, and a retried one only if its sender has succeeded for good:
   a task's mail is read when it is scheduled, and no result is handled before every task
   is (engine.go scheduleVertexTasks, executeSuperstep, handleVertexResult). *)
THEOREM MailWaitsForTheBarrier == EngineAssumption => (Spec => []NoMessageOvertakes)
<1>1. FullInv => NoMessageOvertakes
  BY DEF FullInv
<1> QED
  BY <1>1, FullInvariance, PTL

================================================================================
