-------------------------- MODULE PregelGraphExecutor --------------------------
(***************************************************************************)
(* PregelGraphExecutor (internal/app/usecases/pregel_executor.go): a graph *)
(* as a Pregel run, every node a vertex with the input as its own state.   *)
(* It has the repository, the registry and the checkpoint service in       *)
(* common with GraphExecutor, whose operators it uses, and an engine and a *)
(* Streamer for each call.                                                 *)
(*                                                                         *)
(* The engine is seen as its supersteps: the vertices of one compute in    *)
(* any order (PregelEngine says why nothing else can happen), each on the  *)
(* graph object as it is at that time, and without messages, because the   *)
(* engine drops those of a superstep at its end.  The retries of a failing *)
(* node fail as well: whether it can be processed is a matter of its type. *)
(* Of the events of a run, execution_start and vertex_start are left out.  *)
(***************************************************************************)
EXTENDS GraphExecutor, Streamer, FiniteSetsExt

CONSTANTS
    PriorCheckpoints     \* checkpoints that another executor has left in the saver

ASSUME PregelGraphExecutorAssumption ==
    PriorCheckpoints \subseteq
        [step : Nat, state : States, config : Config, applied : Nat, resumes : Nat]

VARIABLE bsp             \* bsp[e]: the engine of the call, and the output of its response

pregelVars == <<vars, streamer, bsp>>

NoRun == [states |-> [n \in {} |-> EmptyState], active |-> {}, pending |-> {}, failed |-> FALSE,
          step |-> 0, halted |-> FALSE, output |-> EmptyState,
          graph |-> NoGraph, given |-> EmptyState]         \* history: what the run began with

PregelInit ==
    /\ heap \in [Graphs -> Literals]
    /\ repo \in {NoGraph} \cup Graphs
    /\ repo # NoGraph => CoreGraphIsValid(heap[repo], FALSE)
    /\ registry = {} /\ exec = [e \in Executions |-> Idle]
    /\ checkpoints = PriorCheckpoints
    /\ StreamerInit
    /\ bsp = [e \in Executions |-> NoRun]

(* Mutant: only the entry point is active at first *)
Launched_EntryOnly(state) ==
    [NoRun EXCEPT !.states = [n \in DOMAIN heap[repo].nodes |-> state], !.active = {heap[repo].entry},
                  !.graph = repo, !.given = state]

(* executeWithPregelEngine: all nodes are vertices and active *)
Launched(state) ==
    [NoRun EXCEPT !.states = [n \in DOMAIN heap[repo].nodes |-> state],
                  !.active = DOMAIN heap[repo].nodes,
                  !.graph = repo, !.given = state]

(* Execute, up to the first superstep.  The graph that is validated is the one
   that runs. *)
PregelExecute(e, request, input) ==
    LET config == WithDefaults(request.config)
        accepted == request.valid /\ repo # NoGraph /\ Approved(config)
    IN  /\ exec[e].pc = "idle"
        /\ exec' = [exec EXCEPT ![e] =
              IF accepted
              THEN [Idle EXCEPT !.pc = "run", !.op = "execute", !.config = config,
                                !.graph = repo, !.status = "running"]
              ELSE [Idle EXCEPT !.pc = "returned", !.op = "execute"]]
        /\ registry' = registry \cup (IF accepted THEN {e} ELSE {})
        /\ IF accepted
           THEN /\ bsp' = [bsp EXCEPT ![e] = Launched(input)]
                /\ Set(e, Started(streamer[e]))
           ELSE UNCHANGED <<bsp, streamer>>
        /\ UNCHANGED <<heap, repo, checkpoints>>

(* Resume does not validate; without a graph it returns and stays registered *)
PregelResume(e, c, loaded, request) ==
    LET config == [loaded EXCEPT !.maxSteps = IF request.config.maxSteps > 0 THEN request.config.maxSteps ELSE @]
    IN  /\ exec[e].pc = "idle" /\ c \in checkpoints
        /\ registry' = registry \cup {e}
        /\ IF repo = NoGraph
           THEN /\ exec' = [exec EXCEPT ![e] = [Idle EXCEPT !.pc = "returned", !.op = "resume"]]
                /\ UNCHANGED <<bsp, streamer>>
           ELSE /\ exec' = [exec EXCEPT ![e] = [Idle EXCEPT !.pc = "run", !.op = "resume",
                                !.config = config, !.graph = repo, !.status = "running"]]
                /\ bsp' = [bsp EXCEPT ![e] = Launched(c.state)]
                /\ Set(e, Started(streamer[e]))
        /\ UNCHANGED <<heap, repo, checkpoints>>

GoesOn(e) == bsp[e].step < MaxStepsOrDefault(exec[e].config) /\ ~bsp[e].halted

BeginPregelStep(e) ==
    /\ exec[e].pc = "run" /\ GoesOn(e)
    /\ exec' = [exec EXCEPT ![e].pc = "superstep"]
    /\ bsp' = [bsp EXCEPT ![e].pending = bsp[e].active]
    /\ Set(e, EmitEvent(streamer[e]))
    /\ UNCHANGED <<heap, repo, registry, checkpoints>>

(* GraphVertexProgram.Compute: a node whose edges lead on stays active *)
ComputeNode(e, n) ==
    LET g == heap[exec[e].graph]
        state == Processed(g.nodes[n], bsp[e].states[n])
        goesOn == NextEdges(g.nodes[n], g.edges, state) # {}
        computed == [bsp[e] EXCEPT !.pending = @ \ {n}]
    IN  /\ exec[e].pc = "superstep" /\ n \in bsp[e].pending
        /\ bsp' = [bsp EXCEPT ![e] =
              IF CanProcess(g.nodes[n])
              THEN [computed EXCEPT !.states[n] = state,
                                    !.active = IF goesOn THEN @ ELSE @ \ {n}]
              ELSE [computed EXCEPT !.failed = TRUE]]
        /\ Set(e, EmitEvent(streamer[e]))
        /\ UNCHANGED vars

EndPregelStep(e) ==
    /\ exec[e].pc = "superstep" /\ bsp[e].pending = {} /\ ~bsp[e].failed
    /\ exec' = [exec EXCEPT ![e].pc = "run"]
    /\ bsp' = [bsp EXCEPT ![e].step = @ + 1, ![e].halted = bsp[e].active = {}]
    /\ Set(e, EmitEvent(streamer[e]))
    /\ UNCHANGED <<heap, repo, registry, checkpoints>>

(* A failed node fails the superstep, and so does a timeout before all results are
   in.  The rest of the superstep makes no difference to the response. *)
PregelFails(e) ==
    /\ exec[e].pc = "superstep"
    /\ bsp[e].failed \/ bsp[e].pending # {}
    /\ Return(e, "failed")
    /\ Set(e, EmitEvent(streamer[e]))
    /\ UNCHANGED bsp

(* The maps of all vertices into one, in any order: a key has the value of the
   last vertex that has it *)
Merged(states) ==
    LET over(s, t) == [status |-> IF t.status = "absent" THEN s.status ELSE t.status,
                       error |-> IF t.error = "absent" THEN s.error ELSE t.error,
                       by |-> [p \in Processors |-> IF t.by[p] = NoId THEN s.by[p] ELSE t.by[p]]]
        all == DOMAIN states
    IN  {FoldLeft(over, EmptyState, [i \in DOMAIN order |-> states[order[i]]]) :
            order \in {f \in [1 .. Cardinality(all) -> all] : ToSet(f) = all}}

PregelReturns(e) ==
    /\ exec[e].pc = "run" /\ ~GoesOn(e)
    /\ Return(e, "completed")
    /\ \E output \in Merged(bsp[e].states) : bsp' = [bsp EXCEPT ![e].output = output]
    /\ Set(e, EmitEvent(streamer[e]))

PregelRuns(e) ==
    \/ BeginPregelStep(e) \/ EndPregelStep(e) \/ PregelFails(e) \/ PregelReturns(e)
    \/ \E n \in bsp[e].pending : ComputeNode(e, n)
    \/ StreamerRuns(e) /\ UNCHANGED <<vars, bsp>>

PregelCall(e) ==
    \E r \in Requests :
        \/ \E i \in Inputs : PregelExecute(e, r, i)
        \/ \E c \in checkpoints : \E loaded \in LoadedConfigs(c) : PregelResume(e, c, loaded, r)

PregelNext ==
    \/ \E e \in Executions : PregelRuns(e) \/ PregelCall(e)
    \/ (Edit \/ \E e \in Executions : Stop(e)) /\ UNCHANGED <<streamer, bsp>>

PregelSpec == PregelInit /\ [][PregelNext]_pregelVars

--------------------------------------------------------------------------------
(* Properties *)

(* The output of a completed execution has something of every node: the marker of
   each type of node is that of a node of this type, and it is there if the graph
   had such a node when the call began, whatever order the states are merged in,
   however often nodes ran and whatever was added to the graph meanwhile.  A marker
   may only be the one that was given with the input instead of a node's (Execute,
   executeWithPregelEngine, Compute). *)
OutputIsComplete ==
    \A e \in Executions :
        exec[e].status = "completed" =>
            \A p \in Processors :
                LET ran == {n \in DOMAIN bsp[e].states : heap[bsp[e].graph].nodes[n].type = p}
                    given == bsp[e].given.by[p]
                IN  bsp[e].output.by[p] \in ran \cup (IF ran = {} \/ given # NoId THEN {given} ELSE {})
================================================================================
