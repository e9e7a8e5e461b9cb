----------------------------- MODULE WorkflowGraph -----------------------------
(***************************************************************************)
(* Workflow graphs (internal/core/graph), their validation                 *)
(* (pkg/validation/graph.go) and the two pure services the executors step  *)
(* through them with: the edge evaluator and the node processor            *)
(* (internal/app/usecases/evaluator.go, processor.go).                     *)
(*                                                                         *)
(* A graph is a record of its entry point, its nodes (a function of their  *)
(* IDs) and the sequence of its edges.  Names are reduced to whether they  *)
(* are empty.  Recursion is written as a recursive function, so that       *)
(* modules with proofs can use this one.                                   *)
(***************************************************************************)
EXTENDS Naturals, Sequences, FiniteSets, SequencesExt

CONSTANTS NodeIds, NoId      \* NoId is the empty string

ASSUME WorkflowGraphAssumption == NoId \notin NodeIds

Ids == NodeIds \cup {NoId}
NodeTypes == {"function", "tool", "agent", "conditional", "subgraph"}
EdgeTypes == {"default", "conditional", "error"}
Conditions == {"", "always", "never", "success", "failure", "has_error", "no_error"}

Node == [id : Ids, named : BOOLEAN, type : NodeTypes \cup {""}, branches : BOOLEAN]
(* An edge whose Type is empty is read as a default edge from the start;   *)
(* in the code the first Edge.Validate writes that into the edge.          *)
Edge == [source : Ids, target : Ids, type : EdgeTypes, condition : Conditions]

(* a Graph object, which nothing need have checked *)
IsGraph(g) ==
    /\ DOMAIN g.nodes \subseteq Ids /\ IsFiniteSet(DOMAIN g.nodes)
    /\ g \in [named : BOOLEAN, entry : Ids, nodes : [DOMAIN g.nodes -> Node], edges : Seq(Edge)]

NodeIsValid(n) ==
    /\ n.id # NoId /\ n.named /\ n.type # ""
    /\ n.type = "conditional" => n.branches

EdgeIsValid(e) ==
    /\ e.source # NoId /\ e.target # NoId
    /\ e.source # e.target

SameEdge(e, f) ==
    /\ e.source = f.source /\ e.target = f.target
    /\ e.type = f.type /\ e.condition = f.condition

----------------------------------------------------------------------------
(* The methods of Graph.  An operation that fails leaves the graph alone. *)

NodeAdded(g, n) ==
    IF NodeIsValid(n) /\ n.id \notin DOMAIN g.nodes
    THEN [g EXCEPT !.nodes = [i \in DOMAIN @ \cup {n.id} |-> IF i = n.id THEN n ELSE @[i]]]
    ELSE g

EdgeAdded(g, e) ==
    IF /\ EdgeIsValid(e)
       /\ {e.source, e.target} \subseteq DOMAIN g.nodes
       /\ \A i \in DOMAIN g.edges : ~SameEdge(g.edges[i], e)
    THEN [g EXCEPT !.edges = Append(@, e)]
    ELSE g

GraphIsValid(g) == g.named /\ g.entry # NoId /\ g.entry \in DOMAIN g.nodes

Colouring == [Ids -> {"white", "gray", "black"}]

(* Mutant: a node that was seen before closes a cycle *)
Visited_TwoColours(search, u, r, e) ==
    IF e.source # u \/ r.cycle THEN r
    ELSE IF r.colour[e.target] # "white" THEN [r EXCEPT !.cycle = TRUE]
    ELSE search[e.target][r.colour]

(* hasCycle: depth-first search.  A search maps the colours it finds to    *)
(* those it leaves, and to whether it met a gray node.  One turn of the    *)
(* loop over the edges of u ...                                            *)
Visited(search, u, r, e) ==
    IF e.source # u \/ r.cycle \/ r.colour[e.target] = "black" THEN r
    ELSE IF r.colour[e.target] = "gray" THEN [r EXCEPT !.cycle = TRUE]
    ELSE search[e.target][r.colour]

(* ... the search that starts from u, ...                                  *)
Searched(g, search, u, before) ==
    LET after == FoldLeft(LAMBDA r, e : Visited(search, u, r, e),
                          [cycle |-> FALSE, colour |-> [before EXCEPT ![u] = "gray"]], g.edges)
    IN  IF after.cycle THEN after ELSE [after EXCEPT !.colour[u] = "black"]

(* ... and the searches from all nodes, in some order, that are still     *)
(* white.                                                                 *)
HasCycle(g) ==
    LET dfs[u \in Ids] == [before \in Colouring |-> Searched(g, dfs, u, before)]
        root(r, u) == IF r.cycle \/ r.colour[u] # "white" THEN r ELSE dfs[u][r.colour]
    IN  FoldLeft(root, [cycle |-> FALSE, colour |-> [n \in Ids |-> "white"]],
                 SetToSeq(DOMAIN g.nodes)).cycle

(* ValidateCoreGraph *)
CoreGraphIsValid(g, checkCycles) ==
    /\ GraphIsValid(g)
    /\ \A i \in DOMAIN g.nodes : NodeIsValid(g.nodes[i])
    /\ \A i \in DOMAIN g.edges :
          /\ EdgeIsValid(g.edges[i])
          /\ {g.edges[i].source, g.edges[i].target} \subseteq DOMAIN g.nodes
          /\ \A j \in 1..(i - 1) : ~SameEdge(g.edges[j], g.edges[i])
    /\ checkCycles => ~HasCycle(g)

(* The reference hasCycle is compared with: a finite graph has a cycle iff *)
(* some of its nodes each have an edge to one of them.                     *)
CycleExists(g) ==
    \E S \in (SUBSET DOMAIN g.nodes) \ {{}} :
        \A u \in S : \E i \in DOMAIN g.edges : g.edges[i].source = u /\ g.edges[i].target \in S

----------------------------------------------------------------------------
(* The state map an execution carries: the two keys conditions look at     *)
(* ("absent" when there is no such key, "nil" for a nil value), and who    *)
(* wrote the marker of each kind of processor last.                        *)

Processors == NodeTypes \ {"subgraph"}      \* the types NewDefaultNodeProcessor registers

States == [status : {"absent", "success", "failure", "failed", "other"},
           error : {"absent", "nil", "value"},
           by : [Processors -> Ids]]

(* Evaluate, evaluateSimpleCondition: unknown conditions hold *)
Evaluate(e, s) ==
    /\ e.condition # "never"
    /\ e.condition = "has_error" => s.error = "value"
    /\ e.condition = "no_error" => s.error # "value"
    /\ e.condition = "success" => s.status = "success"
    /\ e.condition = "failure" => s.status \in {"failure", "failed"}

(* GetNextNodes follows the edges that lead on from n, in their order, ... *)
NextEdges(n, edges, s) == {i \in DOMAIN edges : edges[i].source = n.id /\ Evaluate(edges[i], s)}

(* ... and builds new nodes: whatever node the target is, a function *)
Placeholder(id) == [id |-> id, named |-> TRUE, type |-> "function", branches |-> FALSE]

CanProcess(n) == n.type \in Processors

(* Process: a copy of the input with the marker of the node's type *)
Processed(n, s) == [s EXCEPT !.by[n.type] = n.id]
================================================================================
