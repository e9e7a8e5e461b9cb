----------------------------- MODULE GraphExecutor -----------------------------
(***************************************************************************)
(* DefaultGraphExecutor (internal/app/usecases/executor.go) with the graph *)
(* repository, the checkpoint service and a checkpoint saver behind it.    *)
(*                                                                         *)
(* Each member of Executions is one call of Execute or Resume, on a        *)
(* goroutine of its own; the callers also Stop executions, and whoever     *)
(* built a graph still holds the pointer the repository keeps.  One action *)
(* is the part of a call between two points where others can interfere: up *)
(* to the registration, the second read of the repository, one node, the   *)
(* removal from the registry.                                              *)
(*                                                                         *)
(* There is one graph ID.  A checkpoint is identified with its contents:   *)
(* IDs hold the time in nanoseconds, and which of two equal checkpoints is *)
(* resumed makes no difference.                                            *)
(***************************************************************************)
EXTENDS WorkflowGraph, FiniteSets

CONSTANTS
    Executions,
    Graphs, NoGraph,         \* the graph objects callers build
    NodeChoices,             \* what AddNode is called with
    EdgeChoices,             \* what AddEdge is called with
    Literals,                \* the graphs callers begin with, which nothing has checked
    MaxEdges,                \* bound on the edges of a graph
    Requests, Inputs,        \* what Execute is called with
    DefaultMaxSteps,         \* 100 in the code
    DefaultEvery,            \* 10 in the code
    KeepsConfig,             \* whether a loaded checkpoint has its configuration
    MaxCheckpoints           \* bound on the checkpoints kept; Save fails beyond it

Config == [maxSteps : Nat, every : Nat, validate : BOOLEAN, cycles : BOOLEAN]
ZeroConfig == [maxSteps |-> 0, every |-> 0, validate |-> FALSE, cycles |-> FALSE]

ASSUME GraphExecutorAssumption ==
    /\ NoGraph \notin Graphs
    /\ NodeChoices \subseteq Node /\ EdgeChoices \subseteq Edge
    /\ \A g \in Literals : IsGraph(g)
    /\ Requests \subseteq [valid : BOOLEAN, config : Config]
    /\ Inputs \subseteq States
    /\ {DefaultMaxSteps, DefaultEvery} \subseteq Nat \ {0}
    /\ KeepsConfig \subseteq BOOLEAN
    /\ {MaxEdges, MaxCheckpoints} \subseteq Nat

VARIABLES
    heap,          \* heap[g]: the graph object
    repo,          \* the object the repository holds under the graph ID
    registry,      \* the keys of the executions map
    exec,          \* exec[e]: the call, its ExecutionContext and its response
    checkpoints    \* what the saver holds

vars == <<heap, repo, registry, exec, checkpoints>>

NoNode == [id |-> NoId, named |-> FALSE, type |-> "", branches |-> FALSE]
EmptyState == [status |-> "absent", error |-> "absent", by |-> [p \in Processors |-> NoId]]
EmptyGraph == [named |-> TRUE, entry |-> NoId, nodes |-> [i \in {} |-> NoNode], edges |-> <<>>]

(* `applied' and `resumes' record how many nodes the state has gone        *)
(* through, and how often its execution was resumed; `validated' is the    *)
(* graph a validation approved.  No guard reads them.                      *)
Idle == [pc |-> "idle", op |-> "none", config |-> ZeroConfig, graph |-> NoGraph, node |-> NoNode,
         step |-> 0, current |-> 0, state |-> EmptyState, steps |-> <<>>, status |-> "none",
         validated |-> EmptyGraph, applied |-> 0, resumes |-> 0]

Init ==
    /\ heap \in [Graphs -> Literals]
    /\ repo = NoGraph
    /\ registry = {}
    /\ exec = [e \in Executions |-> Idle]
    /\ checkpoints = {}

----------------------------------------------------------------------------
(* Whoever holds a graph changes it, also after it was saved. *)

AddNode(g, n) ==
    /\ heap' = [heap EXCEPT ![g] = NodeAdded(@, n)]
    /\ UNCHANGED <<repo, registry, exec, checkpoints>>

AddEdge(g, e) ==
    /\ Len(heap[g].edges) < MaxEdges
    /\ heap' = [heap EXCEPT ![g] = EdgeAdded(@, e)]
    /\ UNCHANGED <<repo, registry, exec, checkpoints>>

(* the repository's Save keeps the pointer *)
SaveGraph(g) ==
    /\ CoreGraphIsValid(heap[g], FALSE)
    /\ repo' = g
    /\ UNCHANGED <<heap, registry, exec, checkpoints>>
----------------------------------------------------------------------------

MaxStepsOrDefault(config) == IF config.maxSteps > 0 THEN config.maxSteps ELSE DefaultMaxSteps

(* ExecutionRequest.Validate: the defaults, and validation always on *)
WithDefaults(c) ==
    [c EXCEPT !.maxSteps = MaxStepsOrDefault(c),
              !.every = IF @ = 0 THEN DefaultEvery ELSE @,
              !.validate = TRUE]

(* Mutant: the options are not passed on *)
Approved_NoOptions(config) ==
    config.validate => repo # NoGraph /\ CoreGraphIsValid(heap[repo], FALSE)

Approved(config) ==
    config.validate => repo # NoGraph /\ CoreGraphIsValid(heap[repo], config.cycles)

(* Execute, up to the registration; a refused request is answered with a   *)
(* nil response and never registered                                       *)
Execute(e, request, input) ==
    LET config == WithDefaults(request.config)
        accepted == request.valid /\ Approved(config)
    IN  /\ exec[e].pc = "idle"
        /\ exec' = [exec EXCEPT ![e] =
              IF accepted
              THEN [Idle EXCEPT !.pc = "start", !.op = "execute", !.config = config,
                                !.state = input, !.status = "running", !.validated = heap[repo]]
              ELSE [Idle EXCEPT !.pc = "returned", !.op = "execute"]]
        /\ registry' = registry \cup (IF accepted THEN {e} ELSE {})
        /\ UNCHANGED <<heap, repo, checkpoints>>

(* LoadCheckpoint: after a trip through a serializer the type assertion on *)
(* the configuration fails and leaves it zero, which is so for each saver  *)
(* of this repository; another CheckpointManager may keep it.              *)
LoadedConfigs(c) == {IF keeps THEN c.config ELSE ZeroConfig : keeps \in KeepsConfig}

(* Resume, up to the registration: of a checkpoint that is there ... *)
Resume(e, c, loaded, request) ==
    LET config == [loaded EXCEPT
            !.maxSteps = IF request.config.maxSteps > 0 THEN request.config.maxSteps ELSE @,
            !.every = IF @ = 0 THEN 1 ELSE @]
    IN  /\ exec[e].pc = "idle" /\ c \in checkpoints
        /\ exec' = [exec EXCEPT ![e] =
              [Idle EXCEPT !.pc = "validate", !.op = "resume", !.config = config,
                           !.current = c.step, !.state = c.state, !.status = "running",
                           !.applied = c.applied, !.resumes = c.resumes + 1]]
        /\ registry' = registry \cup {e}
        /\ UNCHANGED <<heap, repo, checkpoints>>

(* ... or of one that is not *)
ResumeMissing(e) ==
    /\ exec[e].pc = "idle"
    /\ exec' = [exec EXCEPT ![e] = [Idle EXCEPT !.pc = "returned", !.op = "resume"]]
    /\ UNCHANGED <<heap, repo, registry, checkpoints>>

(* Resume returns on a graph it does not approve without unregistering *)
ResumeValidate(e) ==
    /\ exec[e].pc = "validate"
    /\ exec' = [exec EXCEPT
          ![e].pc = IF Approved(exec[e].config) THEN "start" ELSE "returned",
          ![e].status = IF Approved(exec[e].config) THEN @ ELSE "none",
          ![e].validated = heap[repo]]
    /\ UNCHANGED <<heap, repo, registry, checkpoints>>

(* executeGraph: the second Get, which finds a graph since none is ever    *)
(* removed.  A resumed execution starts at the entry point as well.        *)
StartGraph(e) ==
    LET g == heap[repo]
    IN  /\ exec[e].pc = "start"
        /\ exec' = [exec EXCEPT ![e].pc = "run", ![e].graph = repo,
                        ![e].node = IF g.entry \in DOMAIN g.nodes THEN g.nodes[g.entry] ELSE NoNode]
        /\ UNCHANGED <<heap, repo, registry, checkpoints>>

MayRun(e) ==
    exec[e].pc = "run" /\ exec[e].node # NoNode /\ exec[e].step < MaxStepsOrDefault(exec[e].config)

CheckpointDue(e) == exec[e].step % exec[e].config.every = 0

(* Mutant: the checkpoint of a resumed execution starts to count again *)
NewCheckpoint_Recounts(e, state) ==
    [step |-> exec[e].step, state |-> state, config |-> exec[e].config,
     applied |-> exec[e].applied + 1, resumes |-> exec[e].resumes]

(* CreateCheckpoint, between the node and CurrentStep++ *)
NewCheckpoint(e, state) ==
    [step |-> exec[e].current, state |-> state, config |-> exec[e].config,
     applied |-> exec[e].applied + 1, resumes |-> exec[e].resumes]

(* runSequentialStep and the turn of the loop around it.  The error of the *)
(* checkpoint service is dropped.                                          *)
RunNode(e) ==
    LET x == exec[e]
        state == Processed(x.node, x.state)
        edges == heap[x.graph].edges
        next == NextEdges(x.node, edges, state)
    IN  /\ MayRun(e) /\ CanProcess(x.node)
        /\ exec' = [exec EXCEPT ![e] =
              [x EXCEPT !.state = state, !.step = @ + 1, !.current = @ + 1, !.applied = @ + 1,
                        !.steps = Append(@, x.node.id),
                        !.node = IF next = {} THEN NoNode ELSE Placeholder(edges[Min(next)].target)]]
        /\ \/ /\ CheckpointDue(e) /\ Cardinality(checkpoints) < MaxCheckpoints
              /\ checkpoints' = checkpoints \cup {NewCheckpoint(e, state)}
           \/ UNCHANGED checkpoints           \* not due, or Save has failed
        /\ UNCHANGED <<heap, repo, registry>>

(* Mutant: a failed execution is answered before its entry is removed *)
Return_KeepsFailed(e, status) ==
    /\ exec' = [exec EXCEPT ![e] = [Idle EXCEPT !.pc = "returned", !.op = exec[e].op,
                                        !.status = status, !.steps = exec[e].steps]]
    /\ registry' = IF status = "failed" THEN registry ELSE registry \ {e}
    /\ UNCHANGED <<heap, repo, checkpoints>>

(* The end of Execute and Resume: the response gets its status and the     *)
(* execution is unregistered                                               *)
Return(e, status) ==
    /\ exec' = [exec EXCEPT ![e] = [Idle EXCEPT !.pc = "returned", !.op = exec[e].op,
                                        !.status = status, !.steps = exec[e].steps]]
    /\ registry' = registry \ {e}
    /\ UNCHANGED <<heap, repo, checkpoints>>

NodeFails(e) == MayRun(e) /\ ~CanProcess(exec[e].node) /\ Return(e, "failed")

(* the loop ends without an error, also when MaxSteps has cut it short *)
EndGraph(e) == exec[e].pc = "run" /\ ~MayRun(e) /\ Return(e, "completed")

(* Stop only forgets the execution.  With nothing to forget it is an error *)
(* and changes nothing.                                                    *)
Stop(e) ==
    /\ e \in registry
    /\ registry' = registry \ {e}
    /\ UNCHANGED <<heap, repo, exec, checkpoints>>

(* GetStatus: whatever is registered is running *)
GetStatus(e) == IF e \in registry THEN "running" ELSE "not found"

DeleteCheckpoint(c) ==
    /\ checkpoints' = checkpoints \ {c}
    /\ UNCHANGED <<heap, repo, registry, exec>>

RunStep(e) ==
    ResumeValidate(e) \/ StartGraph(e) \/ RunNode(e) \/ NodeFails(e) \/ EndGraph(e)

Edit ==
    \E g \in Graphs :
        \/ \E n \in NodeChoices : AddNode(g, n)
        \/ \E x \in EdgeChoices : AddEdge(g, x)
        \/ SaveGraph(g)

Call(e, requests, inputs) ==
    \/ \E r \in requests, i \in inputs : Execute(e, r, i)
    \/ \E r \in requests, c \in checkpoints :
          \E loaded \in LoadedConfigs(c) : Resume(e, c, loaded, r)
    \/ ResumeMissing(e)

----------------------------------------------------------------------------
(* Properties *)

Active(e) == exec[e].pc \in {"validate", "start", "run"}

(* What GetStatus calls running is a call that has not returned, on every  *)
(* way out of Execute and Resume and whatever Stop does meanwhile, with    *)
(* one exception: a Resume that came back from an invalid graph            *)
(* (executor.go:154-167) stays registered.                                 *)
RegistryMatches ==
    \A e \in Executions :
        GetStatus(e) = "running" =>
            \/ Active(e)
            \/ exec[e].pc = "returned" /\ exec[e].op = "resume" /\ exec[e].status = "none"

(* What the cycle check of ValidateCoreGraph is for: an execution whose    *)
(* graph was checked and has not changed since does not come to a node     *)
(* twice, wherever its conditions lead it, on Execute and on Resume.  The  *)
(* repository is read again after the validation and hands out the pointer *)
(* a caller may still add edges to, so without the condition it may.       *)
AcyclicVisitsOnce ==
    \A e \in Executions :
        LET x == exec[e]
        IN  /\ x.graph # NoGraph /\ x.config.validate /\ x.config.cycles
            /\ heap[x.graph] = x.validated
            => \A i, j \in DOMAIN x.steps : x.steps[i] = x.steps[j] => i = j

(* The step count of a checkpoint against the nodes its state has gone     *)
(* through: one more than counted, since the checkpoint is written before  *)
(* CurrentStep++, and one more again for each Resume that went on from     *)
(* such a checkpoint (executor.go:281, checkpoint.go:37).                  *)
CheckpointCountsSteps ==
    \A c \in checkpoints : c.applied = c.step + 1 + c.resumes

(* hasCycle, which walks a graph by colours from any of its nodes, finds a *)
(* cycle exactly when there is one, in whatever order edges were added and *)
(* wherever paths meet.                                                    *)
CycleCheckIsExact == \A g \in Graphs : HasCycle(heap[g]) <=> CycleExists(heap[g])
================================================================================
