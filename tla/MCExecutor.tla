---- MODULE MCExecutor ----
(* A small instance of StreamingExecutor for TLC. *)
EXTENDS StreamingExecutor

CONSTANTS a, b, e1, e2, g1

MCNode(i, t) == [id |-> i, named |-> TRUE, type |-> t, branches |-> FALSE]
MCEdge(s, t, q) == [source |-> s, target |-> t, type |-> "default", condition |-> q]
MCNodeChoices == {MCNode(b, "tool")}
MCEdgeChoices == {MCEdge(a, b, "success"), MCEdge(a, b, "failure"), MCEdge(b, a, "")}
MCGraph(n, es) == [named |-> TRUE, entry |-> n.id, nodes |-> [i \in {n.id} |-> n], edges |-> es]
MCLiterals == {MCGraph(MCNode(a, "function"), <<>>), MCGraph(MCNode(a, "subgraph"), <<>>),
               MCGraph(MCNode(a, "function"), <<MCEdge(a, b, "success")>>)}
MCConfig(m, n, cy) == [maxSteps |-> m, every |-> n, validate |-> FALSE, cycles |-> cy]
MCRequests == {[valid |-> TRUE, config |-> MCConfig(0, 0, TRUE)], [valid |-> TRUE, config |-> MCConfig(1, 1, FALSE)],
               [valid |-> FALSE, config |-> MCConfig(0, 0, FALSE)]}
MCInputs == {[EmptyState EXCEPT !.status = "success"]}
MCSymmetry == Permutations(Executions)
====
