------------------------------- MODULE MCServices -------------------------------
(***************************************************************************)
(* Small instances, for TLC, of the components that have nothing to do     *)
(* with each other.  A behaviour is one of the component that `focus'      *)
(* names; the others stay in one of their initial states.                  *)
(***************************************************************************)
EXTENDS CacheOptimizedEngine, MessageAggregator, PregelGraphExecutor, StateService,
        InterruptManager, Reducers, InMemoryChannel

CONSTANTS a, b, c, e1, g1, c1, c2, k1, k2

VARIABLE focus

(* The programs of CacheOptimizedEngine on a path of three vertices; what the
   aggregator is given *)
MCFirst == [p \in Programs |-> [v \in Vertices |->
    CASE p = "counter" -> [neighbors |-> <<b>>]
      [] p = "rank" -> [edges |-> <<b>>, iteration |-> 0]
      [] p = "path" -> [edges |-> (b :> 2)]]]
MCProgramStates == [
    counter |-> {[neighbors |-> <<b>>], [neighbors |-> <<b>>, count |-> 1]},
    rank |-> {[edges |-> <<b>>, iteration |-> 0], [rank |-> 120, edges |-> <<>>, iteration |-> 0]},
    path |-> {[distance |-> d, edges |-> (b :> 2)] : d \in {0, 2, Infinity}}]
MCMail == {Value("float", 0), Value("float", 1), Value("float", Infinity), Value("int", 2), Value("other", 0)}

(* Graphs: an agent, a conditional and two tools, with a way back *)
MCNode(i, t) == [id |-> i, named |-> TRUE, type |-> t, branches |-> t = "conditional"]
MCEdge(s, t, q) == [source |-> s, target |-> t, type |-> "default", condition |-> q]
MCGraph(entry, types, edges) ==
    [named |-> TRUE, entry |-> entry, nodes |-> [i \in DOMAIN types |-> MCNode(i, types[i])], edges |-> edges]
MCTriangle == MCGraph(a, [i \in {a, b, c} |-> "tool"], <<>>)
MCRunnable == {MCGraph(a, (a :> "tool" @@ b :> "tool"), <<MCEdge(a, b, "success")>>),
               MCGraph(a, (a :> "agent" @@ b :> "conditional"), <<MCEdge(a, b, ""), MCEdge(b, a, "")>>),
               MCGraph(a, (a :> "function" @@ b :> "subgraph"), <<>>)}
MCLiterals == MCRunnable \cup {MCTriangle}
MCNodeChoices == {MCNode(c, "agent")}
MCEdgeChoices == {MCEdge(s, t, "") : s \in {a, b, c}, t \in {a, b, c}}
MCConfig(m) == [maxSteps |-> m, every |-> 0, validate |-> FALSE, cycles |-> FALSE]
MCRequests == {[valid |-> TRUE, config |-> MCConfig(0)], [valid |-> TRUE, config |-> MCConfig(1)],
               [valid |-> FALSE, config |-> MCConfig(0)]}
MCInput == [EmptyState EXCEPT !.status = "success"]
MCInputs == {[MCInput EXCEPT !.by["tool"] = c]}
MCPrior == {[step |-> 1, state |-> [MCInput EXCEPT !.by["agent"] = c], config |-> MCConfig(2),
             applied |-> 2, resumes |-> 0]}

(* Slices with room for one more, without, and of no elements *)
MCArrays == <<<<Scalar("int", 1), Unset, Unset>>, <<Scalar("string", 1)>>>>
MCHeld == <<Slice(1, 1), Slice(2, 1), Scalar("int", 1), Scalar("int", 2), Scalar("string", 2), Absent>>

Focuses == {"engine", "mail", "graph", "pregel", "streamer", "state", "interrupt", "reducers", "channel"}

ServicesSymmetry == {f @@ g : f \in Permutations({c1, c2}), g \in Permutations({k1, k2})}

(* Bounds of this instance: the messages of all vertices together, and what is added
   to the graph of a run while it goes on, a node or an edge *)
MailTotal == MapThenSumSet(LAMBDA v : Len(aggregated[v]), Vertices)
MayRunAs(g) ==
    \E r \in MCRunnable :
        /\ g.nodes[a] = r.nodes[a]
        /\ \/ g.edges = r.edges
           \/ /\ g.nodes = r.nodes
              /\ \E t \in {a, c} : g.edges = Append(r.edges, MCEdge(b, t, ""))

graphVars == <<vars, bsp>>

ServicesInit ==
    /\ focus \in Focuses
    /\ IF focus = "engine" THEN EngineInit ELSE engine = NewEngine("counter", SetToSeq(Vertices))
    /\ MailInit
    /\ IF focus = "pregel" THEN PregelInit /\ heap \in [Graphs -> MCRunnable]
       ELSE /\ heap = [g \in Graphs |-> MCTriangle] /\ repo = NoGraph /\ registry = {}
            /\ exec = [e \in Executions |-> Idle] /\ checkpoints = {}
            /\ bsp = [e \in Executions |-> NoRun] /\ StreamerInit
    /\ IF focus = "state" THEN StateInit ELSE StateInit /\ ~enhanced
    /\ InterruptInit
    /\ ReducersInit
    /\ InMemoryInit

ServicesNext ==
    /\ UNCHANGED focus
    /\ IF focus = "engine" THEN EngineNext ELSE UNCHANGED engine
    /\ IF focus = "mail" THEN MailNext /\ MailTotal' <= MaxMail ELSE UNCHANGED aggregated
    /\ CASE focus = "pregel" -> PregelNext /\ \A g \in Graphs : MayRunAs(heap'[g])
         [] focus = "graph" -> Edit /\ UNCHANGED <<bsp, streamer>>
         [] focus = "streamer" -> StreamerNext /\ UNCHANGED graphVars
         [] OTHER -> UNCHANGED pregelVars
    /\ IF focus = "state" THEN StateNext ELSE UNCHANGED stateVars
    /\ IF focus = "interrupt" THEN InterruptNext ELSE UNCHANGED interruptVars
    /\ IF focus = "reducers" THEN ReducersNext ELSE UNCHANGED reducerVars
    /\ IF focus = "channel" THEN InMemoryNext ELSE UNCHANGED inMemoryVars

servicesVars == <<focus, engine, aggregated, pregelVars, stateVars, interruptVars, reducerVars,
                  inMemoryVars>>
ServicesSpec == ServicesInit /\ [][ServicesNext]_servicesVars
================================================================================
