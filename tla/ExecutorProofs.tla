----------------------------- MODULE ExecutorProofs -----------------------------
(***************************************************************************)
(* Proofs about the executor, also when it is called through the streaming *)
(* executor: the registry, the step counts of checkpoints, that an         *)
(* execution whose graph was checked for cycles visits no node twice, and  *)
(* that the metrics of the event bus add up.                               *)
(*                                                                         *)
(* The check for cycles is itself a recursion over the graph, and is shown *)
(* to find a cycle exactly when there is one.                              *)
(***************************************************************************)
EXTENDS StreamingExecutor, SumTheorems, SequenceTheorems

(* An edge of g leads from u to v. *)
Leads(g, u, v) == \E i \in DOMAIN g.edges : g.edges[i].source = u /\ g.edges[i].target = v

(* Every edge of g is between its nodes. *)
Joined(g) ==
    \A i \in DOMAIN g.edges : {g.edges[i].source, g.edges[i].target} \subseteq DOMAIN g.nodes

(* What a call has done is a walk along edges of the graph g it runs: any  *)
(* edge a caller adds meanwhile leaves it one.                             *)
Walks(x, g) ==
    /\ \A k \in 1 .. Len(x.steps) - 1 : Leads(g, x.steps[k], x.steps[k + 1])
    /\ x.steps # <<>> /\ x.node # NoNode => Leads(g, x.steps[Len(x.steps)], x.node.id)

(* The record of one call, by itself. *)
CallIsSound(x) ==
    /\ DOMAIN x = DOMAIN Idle
    /\ x.current \in Nat /\ x.applied \in Nat /\ x.resumes \in Nat
    /\ x.applied = x.current + x.resumes
    /\ x.steps \in Seq(Ids) /\ x.node.id \in Ids
    /\ x.graph \in Graphs \cup {NoGraph}
    /\ x.graph # NoGraph => x.pc = "run"
    /\ x.pc = "run" => x.graph # NoGraph
    /\ x.pc \in {"idle", "start", "validate"} => x.steps = <<>>
    /\ x.pc = "validate" => x.op = "resume"
    /\ (x.pc \in {"start", "run"} /\ x.config.validate /\ x.config.cycles)
          => CoreGraphIsValid(x.validated, TRUE)

CallWalks(x, h) == x.graph # NoGraph => Walks(x, h[x.graph])

Objects ==
    /\ DOMAIN heap = Graphs /\ repo \in Graphs \cup {NoGraph}
    /\ \A g \in Graphs : IsGraph(heap[g])

(* The second Get of executeGraph finds a graph: none is ever removed, and *)
(* there is no call under way, and no checkpoint, before the first Save.   *)
GraphIsThere ==
    /\ \A e \in Executions : Active(e) => repo # NoGraph
    /\ checkpoints # {} => repo # NoGraph

Calls ==
    /\ DOMAIN exec = Executions
    /\ \A e \in Executions : CallIsSound(exec[e]) /\ CallWalks(exec[e], heap)

Counted(c) ==
    /\ c.step \in Nat /\ c.applied \in Nat /\ c.resumes \in Nat
    /\ c.applied = c.step + 1 + c.resumes

IInv ==
    /\ Objects /\ GraphIsThere /\ Calls /\ RegistryMatches
    /\ \A c \in checkpoints : Counted(c)

----------------------------------------------------------------------------
(* Operators of the model *)

LEMMA MinIsMember ==
    ASSUME NEW n \in Nat, NEW S \in SUBSET (1 .. n), S # {}
    PROVE  Min(S) \in S
BY LeastNumber DEF Min

(* What AddNode and AddEdge do to a graph leaves it one, and every edge it *)
(* had is still there.                                                     *)
LEMMA NodeAddedIsGraph ==
    ASSUME NEW g, NEW n \in Node, IsGraph(g)
    PROVE  IsGraph(NodeAdded(g, n)) /\ NodeAdded(g, n).edges = g.edges
<1>1. IsFiniteSet(DOMAIN g.nodes) /\ IsFiniteSet(DOMAIN g.nodes \cup {n.id})
  <2>1. IsFiniteSet(DOMAIN g.nodes)
    BY DEF IsGraph
  <2> QED
    BY <2>1, FS_AddElement, Zenon
<1> QED
  BY <1>1 DEF IsGraph, NodeAdded, Node

LEMMA EdgeAddedIsGraph ==
    ASSUME NEW g, NEW e \in Edge, IsGraph(g)
    PROVE  /\ IsGraph(EdgeAdded(g, e))
           /\ \A u, v : Leads(g, u, v) => Leads(EdgeAdded(g, e), u, v)
<1>1. IsGraph(EdgeAdded(g, e))
  <2>1. g.edges \in Seq(Edge) /\ Append(g.edges, e) \in Seq(Edge)
    BY DEF IsGraph
  <2>2. CASE EdgeAdded(g, e) = [g EXCEPT !.edges = Append(@, e)]
    BY <2>1, <2>2 DEF IsGraph
  <2> QED
    BY <2>2 DEF EdgeAdded
<1>2. \A i \in DOMAIN g.edges :
          i \in DOMAIN EdgeAdded(g, e).edges /\ EdgeAdded(g, e).edges[i] = g.edges[i]
  BY DEF IsGraph, EdgeAdded
<1> QED
  BY <1>1, <1>2 DEF Leads

(* The first edge that leads on does lead on, to the placeholder. *)
LEMMA NextNodeIsLedTo ==
    ASSUME NEW g, IsGraph(g), NEW n, NEW s, NextEdges(n, g.edges, s) # {}
    PROVE  LET m == Min(NextEdges(n, g.edges, s))
           IN  g.edges[m].target \in Ids /\ Leads(g, n.id, g.edges[m].target)
<1> DEFINE S == NextEdges(n, g.edges, s)
<1>1. Len(g.edges) \in Nat /\ S \in SUBSET (1 .. Len(g.edges))
  BY DEF IsGraph, NextEdges
<1>2. Min(S) \in S
  BY <1>1, MinIsMember
<1>3. Min(S) \in DOMAIN g.edges /\ g.edges[Min(S)].source = n.id
  BY <1>2 DEF NextEdges
<1>4. g.edges[Min(S)] \in Edge
  BY <1>1, <1>3 DEF IsGraph
<1> QED
  BY <1>3, <1>4 DEF Leads, Ids, Edge

(* ValidateCoreGraph with the check for cycles is the strongest there is. *)
LEMMA CheckedForCycles ==
    ASSUME NEW g, NEW check, CoreGraphIsValid(g, check), check
    PROVE  CoreGraphIsValid(g, TRUE)
BY DEF CoreGraphIsValid

----------------------------------------------------------------------------
(* hasCycle.  Its recursion ends because each call colours a node that was *)
(* white.  Its result is right because of what holds whenever a node is    *)
(* searched: from each gray node there is a way to it, so that an edge to  *)
(* a gray node closes a cycle, and no black node is on a cycle, since all  *)
(* its edges led to nodes that were black before.                          *)

Result == [cycle : BOOLEAN, colour : Colouring]
White(g, c) == {n \in DOMAIN g.nodes : c[n] = "white"}

(* The search of v from c colours at least v. *)
Shrinks(g, f, v, c) == f[v][c] \in Result /\ White(g, f[v][c].colour) \subseteq White(g, c) \ {v}

(* so do the searches with their white nodes among X. *)
ShrinksWithin(g, f, X) ==
    \A v \in DOMAIN g.nodes : \A c \in Colouring :
       (v \in White(g, c) /\ White(g, c) \subseteq X) => Shrinks(g, f, v, c)

(* a result whose white nodes are among X *)
Within(g, X) == {r \in Result : White(g, r.colour) \subseteq X}

(* The results of the turns of the loop over the edges *)
Turns(g, f, u, before, r, X) ==
    /\ r \in [0 .. Len(g.edges) -> Within(g, X)]
    /\ r[0] = [cycle |-> FALSE, colour |-> [before EXCEPT ![u] = "gray"]]
    /\ \A k \in 1 .. Len(g.edges) : r[k] = Visited(f, u, r[k - 1], g.edges[k])

Ended(after, u) == IF after.cycle THEN after ELSE [after EXCEPT !.colour[u] = "black"]

LEMMA TurnsOfLoop ==
    ASSUME NEW g, IsGraph(g), Joined(g), NEW f, NEW u \in Ids, NEW before \in Colouring,
           NEW X, X = White(g, before) \ {u},
           ShrinksWithin(g, f, X)
    PROVE  \E r : /\ Turns(g, f, u, before, r, X)
                  /\ Searched(g, f, u, before) = Ended(r[Len(g.edges)], u)
<1> DEFINE n == Len(g.edges)
           A == Within(g, X)
           base == [cycle |-> FALSE, colour |-> [before EXCEPT ![u] = "gray"]]
           Solves(h) == h = [s \in SUBSET DOMAIN g.edges |->
                               IF s = {} THEN base
                               ELSE Visited(f, u, h[s \ {Max(s)}], g.edges[Max(s)])]
           h == CHOOSE k : Solves(k)
           F == [i \in 1 .. n |-> [r \in A |-> Visited(f, u, r, g.edges[i])]]
<1>1. Searched(g, f, u, before) = Ended(h[DOMAIN g.edges], u)
  BY Zenon DEF Searched, FoldLeft, MapThenFoldSet, Ended
<1>2. /\ n \in Nat /\ DOMAIN g.edges = 1 .. n
      /\ \A i \in 1 .. n : /\ g.edges[i] \in Edge
                           /\ g.edges[i].source \in DOMAIN g.nodes /\ g.edges[i].target \in DOMAIN g.nodes
  <2>1. g.edges \in Seq(Edge)
    BY DEF IsGraph
  <2>2. n \in Nat /\ DOMAIN g.edges = 1 .. n /\ \A i \in 1 .. n : g.edges[i] \in Edge
    BY <2>1
  <2> HIDE DEF n
  <2> QED
    BY <2>2 DEF Joined
<1> HIDE DEF n
<1>3. \A r : r \in A <=> r \in Result /\ White(g, r.colour) \subseteq X
  BY DEF Within
<1>4. ASSUME NEW r \in A, NEW i \in 1 .. n
      PROVE  Visited(f, u, r, g.edges[i]) \in A
  <2> DEFINE v == g.edges[i].target
  <2>1. v \in DOMAIN g.nodes /\ v \in Ids /\ r \in Result /\ White(g, r.colour) \subseteq X
        /\ r.colour \in Colouring /\ r.colour[v] \in {"white", "gray", "black"}
    <3>1. v \in DOMAIN g.nodes /\ v \in Ids
      BY <1>2 DEF IsGraph
    <3>2. r \in Result /\ White(g, r.colour) \subseteq X
      BY <1>3
    <3>3. r.colour \in Colouring
      BY <3>2 DEF Result
    <3> HIDE DEF v
    <3> QED
      BY <3>1, <3>2, <3>3 DEF Colouring
  <2>2. CASE Visited(f, u, r, g.edges[i]) = r
    BY <2>2
  <2>3. CASE Visited(f, u, r, g.edges[i]) = [r EXCEPT !.cycle = TRUE]
    <3>1. [r EXCEPT !.cycle = TRUE] \in Result /\ [r EXCEPT !.cycle = TRUE].colour = r.colour
      BY <2>1 DEF Result
    <3> QED
      BY <1>3, <2>1, <2>3, <3>1, Zenon
  <2>4. CASE r.colour[v] = "white" /\ Visited(f, u, r, g.edges[i]) = f[v][r.colour]
    <3>1. v \in White(g, r.colour)
      BY <2>1, <2>4 DEF White
    <3>2. f[v][r.colour] \in Result /\ White(g, f[v][r.colour].colour) \subseteq White(g, r.colour)
      BY <2>1, <3>1 DEF Shrinks, ShrinksWithin
    <3> QED
      BY <1>3, <2>1, <2>4, <3>2
  <2> QED
    BY <2>1, <2>2, <2>3, <2>4 DEF Visited
<1>5. base \in A
  <2>1. base \in Result /\ base.colour = [before EXCEPT ![u] = "gray"]
    BY DEF Result, Colouring
  <2>2. \A w \in DOMAIN g.nodes : base.colour[w] = IF w = u THEN "gray" ELSE before[w]
    BY <2>1 DEF Colouring, IsGraph
  <2> HIDE DEF base
  <2>3. White(g, base.colour) \subseteq X
    BY <2>2 DEF White
  <2> QED
    BY <1>3, <2>1, <2>3
<1> HIDE DEF A, base
<1>6. \E k : Solves(k)
  <2>1. F \in [1 .. n -> [A -> A]]
    BY <1>4
  <2>2. PICK k : FoldsBy(k, A, 1 .. n, base, F)
    <3> HIDE DEF F
    <3> QED
      BY <1>2, <1>5, <2>1, RecursionOnSubsets
  <2>3. ASSUME NEW s \in SUBSET (1 .. n)
        PROVE  k[s] = IF s = {} THEN base ELSE Visited(f, u, k[s \ {Max(s)}], g.edges[Max(s)])
    <3>1. CASE s = {}
      BY <2>2, <3>1 DEF FoldsBy
    <3>2. CASE s # {}
      <4>1. Max(s) \in 1 .. n /\ k[s \ {Max(s)}] \in A
        <5>1. Max(s) \in s
          BY <1>2, <3>2, GreatestNumber
        <5> QED
          BY <2>2, <5>1 DEF FoldsBy
      <4>2. k[s] = F[Max(s)][k[s \ {Max(s)}]]
        BY <2>2, <3>2 DEF FoldsBy
      <4> QED
        BY <3>2, <4>1, <4>2
    <3> QED
      BY <3>1, <3>2
  <2>4. k = [s \in SUBSET (1 .. n) |-> k[s]]
    BY <2>2 DEF FoldsBy
  <2>5. Solves(k)
    BY <1>2, <2>3, <2>4
  <2> HIDE DEF Solves
  <2> QED
    BY <2>5
<1>7. Solves(h)
  <2> HIDE DEF Solves
  <2> QED
    BY <1>6, Zenon
<1> HIDE DEF h
<1>8. \A s \in SUBSET (1 .. n) :
         h[s] = IF s = {} THEN base ELSE Visited(f, u, h[s \ {Max(s)}], g.edges[Max(s)])
  BY <1>2, <1>7
<1> DEFINE r == [k \in 0 .. n |-> h[1 .. k]]
<1>9. r[0] = base
  <2>1. 1 .. 0 = {} /\ 0 \in 0 .. n /\ {} \in SUBSET (1 .. n)
    BY <1>2
  <2> QED
    BY <1>8, <2>1
<1>10. ASSUME NEW k \in 1 .. n
       PROVE  r[k] = Visited(f, u, r[k - 1], g.edges[k])
  <2>1. /\ 1 .. k \in SUBSET (1 .. n) /\ 1 .. k # {}
        /\ Max(1 .. k) = k /\ (1 .. k) \ {k} = 1 .. (k - 1)
    BY <1>2, LastNumber
  <2>2. h[1 .. k] = Visited(f, u, h[1 .. (k - 1)], g.edges[k])
    BY <1>8, <2>1
  <2>3. k \in 0 .. n /\ k - 1 \in 0 .. n
    BY <1>2
  <2> QED
    BY <2>2, <2>3
<1>11. r \in [0 .. n -> A]
  <2> DEFINE B == {k \in 1 .. n : r[k] \notin A}
  <2>1. DOMAIN r = 0 .. n /\ r = [k \in 0 .. n |-> r[k]]
    OBVIOUS
  <2> HIDE DEF r
  <2>2. B = {}
    <3> SUFFICES ASSUME B # {}
                 PROVE  FALSE
      OBVIOUS
    <3>1. PICK m \in B : \A j \in B : m <= j
      <4>1. B \in SUBSET (1 .. n)
        OBVIOUS
      <4> HIDE DEF B
      <4> QED
        BY <1>2, <4>1, LeastNumber
    <3>2. m \in 1 .. n /\ r[m] \notin A
      OBVIOUS
    <3>3. r[m - 1] \in A
      <4>1. CASE m = 1
        BY <1>5, <1>9, <4>1
      <4>2. CASE m # 1
        <5>1. m - 1 \in 1 .. n /\ ~ (m <= m - 1)
          BY <1>2, <3>2, <4>2
        <5> QED
          BY <3>1, <5>1
      <4> QED
        BY <4>1, <4>2
    <3>4. r[m] = Visited(f, u, r[m - 1], g.edges[m])
      BY <1>10, <3>2
    <3> QED
      BY <1>4, <3>2, <3>3, <3>4
  <2>3. \A k \in 0 .. n : r[k] \in A
    <3>1. \A k \in 0 .. n : k = 0 \/ k \in 1 .. n
      BY <1>2
    <3> QED
      BY <1>5, <1>9, <2>2, <3>1
  <2> QED
    BY <2>1, <2>3
<1>12. Turns(g, f, u, before, r, X)
  <2> HIDE DEF r
  <2> QED
    BY <1>9, <1>10, <1>11 DEF Turns, n, A, base
<1>13. h[DOMAIN g.edges] = r[n]
  BY <1>2
<1> HIDE DEF r
<1> QED
  BY <1>1, <1>12, <1>13 DEF n

(* The search that starts from u colours at least u. *)
LEMMA SearchShrinks ==
    ASSUME NEW g, IsGraph(g), Joined(g), NEW f, NEW u \in Ids, NEW before \in Colouring,
           NEW X, X = White(g, before) \ {u},
           ShrinksWithin(g, f, X)
    PROVE  Searched(g, f, u, before) \in Within(g, X)
<1> DEFINE n == Len(g.edges)
<1>1. PICK r : Turns(g, f, u, before, r, X) /\ Searched(g, f, u, before) = Ended(r[n], u)
  BY TurnsOfLoop
<1>2. r[n] \in Result /\ White(g, r[n].colour) \subseteq X
  <2>1. n \in 0 .. n
    <3>1. g.edges \in Seq(Edge)
      BY DEF IsGraph
    <3> QED
      BY <3>1
  <2> HIDE DEF n
  <2> QED
    BY <1>1, <2>1 DEF Turns, Within, n
<1> HIDE DEF n
<1>3. Ended(r[n], u) \in Result /\ White(g, Ended(r[n], u).colour) \subseteq X
  <2>1. CASE r[n].cycle
    BY <1>2, <2>1 DEF Ended
  <2>2. CASE ~r[n].cycle
    <3>1. /\ Ended(r[n], u) \in Result
          /\ Ended(r[n], u).colour = [r[n].colour EXCEPT ![u] = "black"]
      BY <1>2, <2>2 DEF Ended, Result, Colouring
    <3>2. r[n].colour \in Colouring
      BY <1>2 DEF Result
    <3>3. White(g, Ended(r[n], u).colour) \subseteq White(g, r[n].colour)
      BY <3>1, <3>2 DEF White, Colouring, IsGraph
    <3> QED
      BY <1>2, <3>1, <3>3
  <2> QED
    BY <2>1, <2>2
<1> QED
  BY <1>1, <1>3 DEF Within

AgreeWithin(g, f, h, X) ==
    \A v \in DOMAIN g.nodes : \A c \in Colouring :
       (v \in White(g, c) /\ White(g, c) \subseteq X) => f[v][c] = h[v][c]

(* Searches that agree below u search alike from u. *)
LEMMA SearchesAlike ==
    ASSUME NEW g, IsGraph(g), Joined(g), NEW f, NEW h, NEW u \in Ids, NEW before \in Colouring,
           NEW X, X = White(g, before) \ {u},
           ShrinksWithin(g, f, X), AgreeWithin(g, f, h, X)
    PROVE  Searched(g, f, u, before) = Searched(g, h, u, before)
<1> DEFINE n == Len(g.edges)
<1>1. PICK r : Turns(g, f, u, before, r, X) /\ Searched(g, f, u, before) = Ended(r[n], u)
  BY TurnsOfLoop
<1>2. PICK s : Turns(g, h, u, before, s, X) /\ Searched(g, h, u, before) = Ended(s[n], u)
  <2>1. ShrinksWithin(g, h, X)
    BY Zenon DEF Shrinks, ShrinksWithin, AgreeWithin
  <2> QED
    BY <2>1, TurnsOfLoop
<1>3. /\ n \in Nat /\ DOMAIN g.edges = 1 .. n
      /\ \A i \in 1 .. n : g.edges[i].target \in DOMAIN g.nodes
  <2>1. g.edges \in Seq(Edge)
    BY DEF IsGraph
  <2>2. n \in Nat /\ DOMAIN g.edges = 1 .. n
    BY <2>1
  <2> HIDE DEF n
  <2> QED
    BY <2>2 DEF Joined
<1>4. /\ r \in [0 .. n -> Within(g, X)] /\ r[0] = s[0]
      /\ \A k \in 1 .. n : /\ r[k] = Visited(f, u, r[k - 1], g.edges[k])
                           /\ s[k] = Visited(h, u, s[k - 1], g.edges[k])
  BY <1>1, <1>2, Zenon DEF Turns
<1> HIDE DEF n
<1>5. ASSUME NEW k \in 1 .. n, r[k - 1] = s[k - 1]
      PROVE  r[k] = s[k]
  <2> DEFINE v == g.edges[k].target
             c == r[k - 1].colour
  <2>1. k - 1 \in 0 .. n
    BY <1>3
  <2>2. r[k - 1] \in Result /\ White(g, c) \subseteq X /\ v \in DOMAIN g.nodes
    BY <1>3, <1>4, <2>1 DEF Within
  <2>3. c \in Colouring
    BY <2>2 DEF Result
  <2>4. c[v] = "white" => f[v][c] = h[v][c]
    BY <2>2, <2>3 DEF White, AgreeWithin
  <2>5. /\ r[k] = Visited(f, u, r[k - 1], g.edges[k])
        /\ s[k] = Visited(h, u, r[k - 1], g.edges[k])
    BY <1>4, <1>5
  <2>6. c[v] \in {"white", "gray", "black"}
    BY <2>2, <2>3 DEF Colouring, IsGraph
  <2> QED
    BY <2>4, <2>5, <2>6 DEF Visited
<1>6. r[n] = s[n]
  <2> DEFINE B == {k \in 1 .. n : r[k] # s[k]}
  <2>1. B = {}
    <3> SUFFICES ASSUME B # {}
                 PROVE  FALSE
      OBVIOUS
    <3>1. PICK m \in B : \A j \in B : m <= j
      <4>1. B \in SUBSET (1 .. n)
        OBVIOUS
      <4> HIDE DEF B
      <4> QED
        BY <1>3, <4>1, LeastNumber
    <3>2. m \in 1 .. n /\ r[m] # s[m]
      OBVIOUS
    <3>3. r[m - 1] = s[m - 1]
      <4>1. CASE m = 1
        BY <1>4, <4>1
      <4>2. CASE m # 1
        <5>1. m - 1 \in 1 .. n /\ ~ (m <= m - 1)
          BY <1>3, <3>2, <4>2
        <5> QED
          BY <3>1, <5>1
      <4> QED
        BY <4>1, <4>2
    <3> QED
      BY <1>5, <3>2, <3>3
  <2>2. n = 0 \/ n \in 1 .. n
    BY <1>3
  <2> QED
    BY <1>4, <2>1, <2>2
<1> QED
  BY <1>1, <1>2, <1>6 DEF n

(* The searches that colour at least the node they start from, and the     *)
(* right-hand side of the recursion that defines dfs *)
Searches(g) ==
    {f \in [Ids -> [Colouring -> Result]] : \A u \in Ids : \A b \in Colouring : Shrinks(g, f, u, b)}
Dfs(g, f) == [u \in Ids |-> [b \in Colouring |-> Searched(g, f, u, b)]]

LEMMA DfsIsSearch ==
    ASSUME NEW g, IsGraph(g), Joined(g), NEW f \in Searches(g)
    PROVE  Dfs(g, f) \in Searches(g)
<1>1. ASSUME NEW u \in Ids, NEW b \in Colouring
      PROVE  Dfs(g, f)[u][b] \in Result /\ Shrinks(g, Dfs(g, f), u, b)
  <2> DEFINE X == White(g, b) \ {u}
  <2>1. ShrinksWithin(g, f, X)
    BY DEF Searches, ShrinksWithin, IsGraph
  <2>2. Searched(g, f, u, b) \in Within(g, X)
    BY <2>1, SearchShrinks
  <2>3. Dfs(g, f)[u][b] = Searched(g, f, u, b)
    BY DEF Dfs
  <2> QED
    BY <2>2, <2>3 DEF Within, Shrinks
<1>2. Dfs(g, f) \in [Ids -> [Colouring -> Result]]
  <2>1. \A u \in Ids : Dfs(g, f)[u] \in [Colouring -> Result]
    BY <1>1 DEF Dfs
  <2> QED
    BY <2>1 DEF Dfs
<1> QED
  BY <1>1, <1>2 DEF Searches

(* f is a solution where at most k nodes are white. *)
SolvesUpTo(g, f, k) ==
    \A v \in DOMAIN g.nodes : \A c \in Colouring :
       (v \in White(g, c) /\ Cardinality(White(g, c)) <= k) => f[v][c] = Dfs(g, f)[v][c]

LEMMA WhiteIsFinite ==
    ASSUME NEW g, IsGraph(g), NEW c
    PROVE  /\ IsFiniteSet(White(g, c)) /\ Cardinality(White(g, c)) \in Nat
           /\ Cardinality(White(g, c)) <= Cardinality(DOMAIN g.nodes)
           /\ Cardinality(DOMAIN g.nodes) \in Nat
<1>1. IsFiniteSet(DOMAIN g.nodes) /\ White(g, c) \in SUBSET DOMAIN g.nodes
  BY DEF IsGraph, White
<1> QED
  BY <1>1, FS_Subset, FS_CardinalityType

(* One more round solves one more node. *)
LEMMA DfsSolvesMore ==
    ASSUME NEW g, IsGraph(g), Joined(g), NEW f \in Searches(g), NEW k \in Nat, SolvesUpTo(g, f, k)
    PROVE  SolvesUpTo(g, Dfs(g, f), k + 1)
<1> SUFFICES ASSUME NEW v \in DOMAIN g.nodes, NEW b \in Colouring,
                    v \in White(g, b), Cardinality(White(g, b)) <= k + 1
             PROVE  Dfs(g, f)[v][b] = Dfs(g, Dfs(g, f))[v][b]
  BY DEF SolvesUpTo
<1> DEFINE X == White(g, b) \ {v}
<1>1. v \in Ids
  BY DEF IsGraph
<1>2. Dfs(g, f)[v][b] = Searched(g, f, v, b) /\ Dfs(g, Dfs(g, f))[v][b] = Searched(g, Dfs(g, f), v, b)
  BY <1>1 DEF Dfs
<1>3. ShrinksWithin(g, f, X)
  BY DEF Searches, ShrinksWithin, IsGraph
<1>4. AgreeWithin(g, f, Dfs(g, f), X)
  <2>1. IsFiniteSet(X) /\ Cardinality(X) <= k
    <3>1. IsFiniteSet(White(g, b)) /\ Cardinality(White(g, b)) \in Nat
      BY WhiteIsFinite
    <3>2. IsFiniteSet(X) /\ Cardinality(X) = Cardinality(White(g, b)) - 1
      BY <3>1, FS_RemoveElement
    <3> QED
      BY <3>1, <3>2
  <2>2. ASSUME NEW w \in DOMAIN g.nodes, NEW c \in Colouring, w \in White(g, c), White(g, c) \subseteq X
        PROVE  f[w][c] = Dfs(g, f)[w][c]
    <3>1. Cardinality(White(g, c)) <= Cardinality(X)
      BY <2>1, <2>2, FS_Subset
    <3>2. Cardinality(White(g, c)) \in Nat /\ Cardinality(X) \in Nat
      BY <2>1, WhiteIsFinite, FS_CardinalityType
    <3>3. Cardinality(White(g, c)) <= k
      BY <2>1, <3>1, <3>2
    <3> QED
      BY <2>2, <3>3 DEF SolvesUpTo
  <2> QED
    BY <2>2 DEF AgreeWithin
<1> HIDE DEF X
<1>5. Searched(g, f, v, b) = Searched(g, Dfs(g, f), v, b)
  BY <1>1, <1>3, <1>4, SearchesAlike DEF X
<1> QED
  BY <1>2, <1>5

(* The recursion has a solution. *)
LEMMA DfsExists ==
    ASSUME NEW g, IsGraph(g), Joined(g)
    PROVE  \E f : f = Dfs(g, f)
<1> DEFINE n == Cardinality(DOMAIN g.nodes)
           Reached(k) == \E f \in Searches(g) : SolvesUpTo(g, f, k)
           B == {k \in 1 .. n : ~Reached(k)}
           first == [u \in Ids |-> [b \in Colouring |->
                       [cycle |-> FALSE, colour |-> [b EXCEPT ![u] = "gray"]]]]
<1>1. n \in Nat
  BY WhiteIsFinite
<1> HIDE DEF n
<1>2. Reached(0)
  <2>1. ASSUME NEW u \in Ids, NEW b \in Colouring
        PROVE  first[u][b] \in Result /\ Shrinks(g, first, u, b)
    <3>1. /\ first[u][b] = [cycle |-> FALSE, colour |-> [b EXCEPT ![u] = "gray"]]
          /\ first[u][b].colour = [b EXCEPT ![u] = "gray"]
      OBVIOUS
    <3>2. first[u][b] \in Result
      BY <3>1 DEF Result, Colouring
    <3> HIDE DEF first
    <3>3. White(g, first[u][b].colour) \subseteq White(g, b) \ {u}
      BY <3>1 DEF White, Colouring, IsGraph
    <3> QED
      BY <3>2, <3>3 DEF Shrinks
  <2>2. first \in [Ids -> [Colouring -> Result]]
    BY <2>1
  <2> HIDE DEF first
  <2>3. first \in Searches(g)
    BY <2>1, <2>2 DEF Searches
  <2>4. SolvesUpTo(g, first, 0)
    <3>1. ASSUME NEW v, NEW c, v \in White(g, c), Cardinality(White(g, c)) <= 0
          PROVE  FALSE
      BY <3>1, WhiteIsFinite, FS_EmptySet
    <3> QED
      BY <3>1, Zenon DEF SolvesUpTo
  <2> QED
    BY <2>3, <2>4
<1>3. ASSUME NEW k \in Nat, Reached(k)
      PROVE  Reached(k + 1)
  BY <1>3, DfsSolvesMore, DfsIsSearch
<1> HIDE DEF Reached
<1>4. B = {}
  <2> SUFFICES ASSUME B # {}
               PROVE  FALSE
    OBVIOUS
  <2>1. PICK m \in B : \A j \in B : m <= j
    <3>1. B \in SUBSET (1 .. n)
      OBVIOUS
    <3> HIDE DEF B
    <3> QED
      BY <1>1, <3>1, LeastNumber
  <2>2. m \in 1 .. n /\ ~Reached(m)
    OBVIOUS
  <2>3. Reached(m - 1)
    <3>1. CASE m = 1
      BY <1>2, <3>1
    <3>2. CASE m # 1
      <4>1. m - 1 \in 1 .. n /\ ~ (m <= m - 1)
        BY <1>1, <2>2, <3>2
      <4> QED
        BY <2>1, <4>1
    <3> QED
      BY <3>1, <3>2
  <2>4. m - 1 \in Nat /\ m - 1 + 1 = m
    BY <1>1, <2>2
  <2>5. Reached(m - 1 + 1)
    BY <1>3, <2>3, <2>4
  <2> QED
    BY <2>2, <2>4, <2>5
<1>5. Reached(n)
  <2>1. n = 0 \/ n \in 1 .. n
    BY <1>1
  <2> QED
    BY <1>2, <1>4, <2>1
<1>6. PICK f \in Searches(g) : SolvesUpTo(g, f, n)
  BY <1>5 DEF Reached
<1>7. ASSUME NEW u \in Ids, NEW b \in Colouring
      PROVE  Searched(g, f, u, b) = Searched(g, Dfs(g, f), u, b)
  <2> DEFINE X == White(g, b) \ {u}
  <2>1. ShrinksWithin(g, f, X)
    BY DEF Searches, ShrinksWithin, IsGraph
  <2>2. AgreeWithin(g, f, Dfs(g, f), X)
    BY <1>6, WhiteIsFinite DEF AgreeWithin, SolvesUpTo, n
  <2> HIDE DEF X
  <2> QED
    BY <2>1, <2>2, SearchesAlike DEF X
<1>8. Dfs(g, f) = Dfs(g, Dfs(g, f))
  <2>1. \A u \in Ids : [b \in Colouring |-> Searched(g, f, u, b)]
                        = [b \in Colouring |-> Searched(g, Dfs(g, f), u, b)]
    BY <1>7
  <2> QED
    BY <2>1, Zenon DEF Dfs
<1> QED
  BY <1>8

(* Every solution colours at least the node a search starts from. *)
LEMMA SolutionIsSearch ==
    ASSUME NEW g, IsGraph(g), Joined(g), NEW f, f = Dfs(g, f)
    PROVE  /\ \A v \in DOMAIN g.nodes : \A c \in Colouring :
                 f[v][c] = Searched(g, f, v, c) /\ (v \in White(g, c) => Shrinks(g, f, v, c))
           /\ \A X : ShrinksWithin(g, f, X)
<1> DEFINE N == DOMAIN g.nodes
           Bad(S) == \E v \in N : \E c \in Colouring :
                        v \in White(g, c) /\ White(g, c) = S /\ ~Shrinks(g, f, v, c)
           T == {S \in SUBSET N : Bad(S)}
<1>1. \A v \in N : \A c \in Colouring : f[v][c] = Searched(g, f, v, c)
  <2>1. \A v \in N : \A c \in Colouring : Dfs(g, f)[v][c] = Searched(g, f, v, c)
    BY DEF Dfs, IsGraph
  <2> QED
    BY <2>1
<1>2. T = {}
  <2> SUFFICES ASSUME T # {}
               PROVE  FALSE
    OBVIOUS
  <2>1. PICK S \in T : \A R \in T : ~ (R \subseteq S /\ R # S)
    <3>1. T \in SUBSET (SUBSET N) /\ IsFiniteSet(N)
      BY DEF IsGraph
    <3> HIDE DEF T, N
    <3> QED
      BY <3>1, NoneBelow
  <2>2. Bad(S)
    OBVIOUS
  <2>3. PICK v \in N : \E c \in Colouring :
                 v \in White(g, c) /\ White(g, c) = S /\ ~Shrinks(g, f, v, c)
    BY <2>2
  <2>4. PICK b \in Colouring : v \in White(g, b) /\ White(g, b) = S /\ ~Shrinks(g, f, v, b)
    BY <2>3
  <2> DEFINE X == White(g, b) \ {v}
  <2>5. ShrinksWithin(g, f, X)
    <3> SUFFICES ASSUME NEW w \in N, NEW c \in Colouring, w \in White(g, c), White(g, c) \subseteq X
                 PROVE  Shrinks(g, f, w, c)
      BY DEF ShrinksWithin
    <3>1. White(g, c) \subseteq S /\ White(g, c) # S /\ White(g, c) \in SUBSET N
      BY <2>4 DEF White
    <3>2. White(g, c) \notin T
      BY <2>1, <3>1
    <3>3. ~Bad(White(g, c))
      BY <3>1, <3>2
    <3> QED
      BY <3>3
  <2>6. v \in Ids
    BY DEF IsGraph
  <2>7. Searched(g, f, v, b) \in Within(g, X)
    BY <2>5, <2>6, SearchShrinks
  <2>8. Shrinks(g, f, v, b)
    BY <1>1, <2>7 DEF Shrinks, Within
  <2> QED
    BY <2>4, <2>8
<1>3. \A v \in N : \A c \in Colouring : v \in White(g, c) => Shrinks(g, f, v, c)
  <2> SUFFICES ASSUME NEW v \in N, NEW c \in Colouring, v \in White(g, c), ~Shrinks(g, f, v, c)
               PROVE  FALSE
    OBVIOUS
  <2>1. Bad(White(g, c)) /\ White(g, c) \in SUBSET N
    BY DEF White
  <2> HIDE DEF Bad
  <2> QED
    BY <1>2, <2>1
<1> QED
  BY <1>1, <1>3 DEF ShrinksWithin

(* S is made of cycles, and of ways to them, in the sense of CycleExists; *)
Circles(g, S) ==
    S \in SUBSET DOMAIN g.nodes /\ S # {} /\ \A y \in S : \E z \in S : Leads(g, y, z)

(* no black node is on one; there is a way from x to u, or from x to a     *)
(* cycle; the search may start from u; and what it may return.             *)
Safe(g, c) == \A S : Circles(g, S) => \A x \in S : c[x] # "black"
Leaves(g, P, u) == \A y \in P : y = u \/ \E z \in P : Leads(g, y, z)
WayTo(g, x, u) == \E P \in SUBSET DOMAIN g.nodes : x \in P /\ Leaves(g, P, u)
Ready(g, u, b) ==
    /\ u \in White(g, b) /\ Safe(g, b)
    /\ \A x \in DOMAIN g.nodes : b[x] = "gray" => WayTo(g, x, u)
Right(g, u, b, r) ==
    /\ r.cycle => CycleExists(g)
    /\ ~r.cycle => /\ r.colour[u] = "black" /\ Safe(g, r.colour)
                   /\ \A x \in DOMAIN g.nodes : /\ r.colour[x] = "gray" <=> b[x] = "gray"
                                                /\ b[x] = "black" => r.colour[x] = "black"
RightWithin(g, f, X) ==
    \A v \in DOMAIN g.nodes : \A c \in Colouring :
       (Ready(g, v, c) /\ White(g, c) \subseteq X) => Right(g, v, c, f[v][c])

(* The invariant of the loop over the edges of u, after k turns *)
Looped(g, u, b, k, r) ==
    /\ r.cycle => CycleExists(g)
    /\ ~r.cycle => /\ Safe(g, r.colour)
                   /\ \A x \in DOMAIN g.nodes : /\ r.colour[x] = "gray" <=> x = u \/ b[x] = "gray"
                                                /\ b[x] = "black" => r.colour[x] = "black"
                   /\ \A i \in 1 .. k : g.edges[i].source = u => r.colour[g.edges[i].target] = "black"

LEMMA CircleExists ==
    ASSUME NEW g, NEW S, Circles(g, S)
    PROVE  CycleExists(g)
<1>1. \A y \in S : \E i \in DOMAIN g.edges : g.edges[i].source = y /\ g.edges[i].target \in S
  <2> SUFFICES ASSUME NEW y \in S
               PROVE  \E i \in DOMAIN g.edges : g.edges[i].source = y /\ g.edges[i].target \in S
    OBVIOUS
  <2>1. PICK z \in S : Leads(g, y, z)
    BY DEF Circles
  <2> QED
    BY <2>1 DEF Leads
<1>2. S \in (SUBSET DOMAIN g.nodes) \ {{}}
  BY DEF Circles
<1> QED
  BY <1>1, <1>2 DEF CycleExists

(* An edge from the node searched to a gray one closes a cycle. *)
LEMMA GrayCloses ==
    ASSUME NEW g, NEW u \in DOMAIN g.nodes, NEW v \in DOMAIN g.nodes, Leads(g, u, v), WayTo(g, v, u)
    PROVE  CycleExists(g)
<1>1. PICK P \in SUBSET DOMAIN g.nodes : v \in P /\ Leaves(g, P, u)
  BY DEF WayTo
<1>2. Circles(g, P \cup {u})
  BY <1>1 DEF Circles, Leaves
<1> QED
  BY <1>2, CircleExists

LEMMA WaysGoOn ==
    ASSUME NEW g, NEW u \in DOMAIN g.nodes, NEW v \in DOMAIN g.nodes, Leads(g, u, v), NEW x, WayTo(g, x, u)
    PROVE  WayTo(g, x, v)
<1>1. PICK P \in SUBSET DOMAIN g.nodes : x \in P /\ Leaves(g, P, u)
  BY DEF WayTo
<1>2. P \cup {v} \in SUBSET DOMAIN g.nodes /\ x \in P \cup {v} /\ Leaves(g, P \cup {v}, v)
  BY <1>1 DEF Leaves
<1> QED
  BY <1>2 DEF WayTo

LEMMA WayToSelf ==
    ASSUME NEW g, NEW u \in DOMAIN g.nodes
    PROVE  WayTo(g, u, u)
<1>1. {u} \in SUBSET DOMAIN g.nodes /\ u \in {u} /\ Leaves(g, {u}, u)
  BY DEF Leaves
<1> QED
  BY <1>1 DEF WayTo

(* A turn keeps the loop's invariant. *)
LEMMA TurnIsRight ==
    ASSUME NEW g, IsGraph(g), Joined(g), NEW f, NEW u \in DOMAIN g.nodes, NEW b \in Colouring,
           Ready(g, u, b), NEW X, RightWithin(g, f, X), NEW r \in Within(g, X),
           NEW k \in 1 .. Len(g.edges), Looped(g, u, b, k - 1, r)
    PROVE  Looped(g, u, b, k, Visited(f, u, r, g.edges[k]))
<1> DEFINE e == g.edges[k]
           v == g.edges[k].target
           after == Visited(f, u, r, g.edges[k])
<1>1. /\ k \in Nat /\ k \in DOMAIN g.edges /\ v \in DOMAIN g.nodes
      /\ \A i \in 1 .. k : i = k \/ i \in 1 .. (k - 1)
  <2>1. g.edges \in Seq(Edge)
    BY DEF IsGraph
  <2>2. DOMAIN g.edges = 1 .. Len(g.edges) /\ Len(g.edges) \in Nat
    BY <2>1
  <2> QED
    BY <2>2 DEF Joined
<1>2. r \in Result /\ White(g, r.colour) \subseteq X /\ r.colour \in Colouring
  BY DEF Within, Result
<1>3. r.colour[v] \in {"white", "gray", "black"}
  BY <1>1, <1>2 DEF Colouring, IsGraph
<1>4. CASE after = r /\ (r.cycle \/ e.source # u \/ r.colour[v] = "black")
  <2>1. CASE r.cycle
    BY <1>4, <2>1 DEF Looped
  <2>2. CASE ~r.cycle /\ (e.source # u \/ r.colour[v] = "black")
    <3>1. \A i \in 1 .. k : g.edges[i].source = u => r.colour[g.edges[i].target] = "black"
      BY <1>1, <2>2 DEF Looped
    <3> QED
      BY <1>4, <2>2, <3>1 DEF Looped
  <2> QED
    BY <1>4, <2>1, <2>2
<1>5. CASE ~r.cycle /\ e.source = u /\ r.colour[v] = "gray" /\ after = [r EXCEPT !.cycle = TRUE]
  <2>1. Leads(g, u, v)
    BY <1>1, <1>5 DEF Leads
  <2>2. v = u \/ b[v] = "gray"
    BY <1>1, <1>5 DEF Looped
  <2>3. WayTo(g, v, u)
    BY <1>1, <2>2, WayToSelf DEF Ready
  <2>4. CycleExists(g)
    BY <1>1, <2>1, <2>3, GrayCloses
  <2>5. after.cycle
    BY <1>2, <1>5 DEF Result
  <2> QED
    BY <2>4, <2>5 DEF Looped
<1>6. CASE ~r.cycle /\ e.source = u /\ r.colour[v] = "white" /\ after = f[v][r.colour]
  <2>1. Leads(g, u, v)
    BY <1>1, <1>6 DEF Leads
  <2>2. Ready(g, v, r.colour)
    <3>1. v \in White(g, r.colour) /\ Safe(g, r.colour)
      BY <1>1, <1>6 DEF White, Looped
    <3>2. \A x \in DOMAIN g.nodes : r.colour[x] = "gray" => WayTo(g, x, v)
      <4> SUFFICES ASSUME NEW x \in DOMAIN g.nodes, r.colour[x] = "gray"
                   PROVE  WayTo(g, x, v)
        OBVIOUS
      <4>1. x = u \/ b[x] = "gray"
        BY <1>6 DEF Looped
      <4>2. WayTo(g, x, u)
        BY <4>1, WayToSelf DEF Ready
      <4> QED
        BY <1>1, <2>1, <4>2, WaysGoOn
    <3> QED
      BY <3>1, <3>2 DEF Ready
  <2>3. Right(g, v, r.colour, after)
    BY <1>1, <1>2, <1>6, <2>2 DEF RightWithin
  <2>4. CASE after.cycle
    BY <2>3, <2>4 DEF Right, Looped
  <2>5. CASE ~after.cycle
    <3>1. \A i \in 1 .. k : g.edges[i].source = u => after.colour[g.edges[i].target] = "black"
      <4> SUFFICES ASSUME NEW i \in 1 .. k, g.edges[i].source = u
                   PROVE  after.colour[g.edges[i].target] = "black"
        OBVIOUS
      <4>1. CASE i = k
        BY <2>3, <2>5, <4>1 DEF Right
      <4>2. CASE i # k
        <5>1. r.colour[g.edges[i].target] = "black"
          BY <1>1, <1>6, <4>2 DEF Looped
        <5>2. g.edges[i].target \in DOMAIN g.nodes
          <6>1. g.edges \in Seq(Edge)
            BY DEF IsGraph
          <6>2. i \in DOMAIN g.edges
            BY <6>1
          <6> QED
            BY <6>2 DEF Joined
        <5> QED
          BY <2>3, <2>5, <5>1, <5>2 DEF Right
      <4> QED
        BY <4>1, <4>2
    <3>2. \A x \in DOMAIN g.nodes : /\ after.colour[x] = "gray" <=> x = u \/ b[x] = "gray"
                                    /\ b[x] = "black" => after.colour[x] = "black"
      BY <1>6, <2>3, <2>5 DEF Right, Looped
    <3> QED
      BY <2>3, <2>5, <3>1, <3>2 DEF Right, Looped
  <2> QED
    BY <2>4, <2>5
<1> QED
  BY <1>3, <1>4, <1>5, <1>6 DEF Visited

(* The search from u is right, if those below it are. *)
LEMMA LoopIsRight ==
    ASSUME NEW g, IsGraph(g), Joined(g), NEW f, NEW u \in DOMAIN g.nodes, NEW b \in Colouring,
           Ready(g, u, b), NEW X, X = White(g, b) \ {u}, ShrinksWithin(g, f, X), RightWithin(g, f, X)
    PROVE  Right(g, u, b, Searched(g, f, u, b))
<1> DEFINE n == Len(g.edges)
<1>1. u \in Ids
  BY DEF IsGraph
<1>2. PICK r : Turns(g, f, u, b, r, X) /\ Searched(g, f, u, b) = Ended(r[n], u)
  BY <1>1, TurnsOfLoop
<1>3. /\ n \in Nat /\ DOMAIN g.edges = 1 .. n
      /\ \A i \in 1 .. n : g.edges[i].target \in DOMAIN g.nodes
  <2>1. g.edges \in Seq(Edge)
    BY DEF IsGraph
  <2>2. n \in Nat /\ DOMAIN g.edges = 1 .. n
    BY <2>1
  <2> HIDE DEF n
  <2> QED
    BY <2>2 DEF Joined
<1>4. /\ r \in [0 .. n -> Within(g, X)]
      /\ r[0] = [cycle |-> FALSE, colour |-> [b EXCEPT ![u] = "gray"]]
      /\ \A k \in 1 .. n : r[k] = Visited(f, u, r[k - 1], g.edges[k])
  BY <1>2, Zenon DEF Turns
<1>5. Looped(g, u, b, 0, r[0])
  <2>1. \A x \in DOMAIN g.nodes : r[0].colour[x] = IF x = u THEN "gray" ELSE b[x]
    BY <1>4 DEF Colouring, IsGraph
  <2>2. ~r[0].cycle /\ b[u] = "white" /\ Safe(g, b)
    BY <1>4 DEF Ready, White
  <2>3. Safe(g, r[0].colour)
    BY <2>1, <2>2 DEF Safe, Circles
  <2>4. \A x \in DOMAIN g.nodes : /\ r[0].colour[x] = "gray" <=> x = u \/ b[x] = "gray"
                                  /\ b[x] = "black" => r[0].colour[x] = "black"
    BY <2>1, <2>2
  <2> QED
    BY <2>2, <2>3, <2>4 DEF Looped
<1>6. ASSUME NEW k \in 1 .. n, Looped(g, u, b, k - 1, r[k - 1])
      PROVE  Looped(g, u, b, k, r[k])
  <2>1. k - 1 \in 0 .. n
    BY <1>3
  <2>2. r[k - 1] \in Within(g, X)
    BY <1>4, <2>1
  <2> QED
    BY <1>4, <1>6, <2>2, TurnIsRight
<1>7. Looped(g, u, b, n, r[n])
  <2> DEFINE B == {k \in 1 .. n : ~Looped(g, u, b, k, r[k])}
  <2> HIDE DEF n
  <2>1. B = {}
    <3> SUFFICES ASSUME B # {}
                 PROVE  FALSE
      OBVIOUS
    <3>1. PICK m \in B : \A j \in B : m <= j
      <4>1. B \in SUBSET (1 .. n)
        OBVIOUS
      <4> HIDE DEF B
      <4> QED
        BY <1>3, <4>1, LeastNumber
    <3>2. m \in 1 .. n /\ ~Looped(g, u, b, m, r[m])
      OBVIOUS
    <3>3. Looped(g, u, b, m - 1, r[m - 1])
      <4>1. CASE m = 1
        BY <1>5, <4>1
      <4>2. CASE m # 1
        <5>1. m - 1 \in 1 .. n /\ ~ (m <= m - 1)
          BY <1>3, <3>2, <4>2
        <5> QED
          BY <3>1, <5>1
      <4> QED
        BY <4>1, <4>2
    <3> QED
      BY <1>6, <3>2, <3>3
  <2>2. n = 0 \/ n \in 1 .. n
    BY <1>3
  <2> QED
    BY <1>5, <2>1, <2>2
<1>8. r[n] \in Result
  <2>1. n \in 0 .. n
    BY <1>3
  <2> HIDE DEF n
  <2> QED
    BY <1>4, <2>1 DEF Within
<1> DEFINE after == r[n]
           last == Ended(r[n], u)
<1> HIDE DEF n
<1>9. CASE after.cycle
  BY <1>2, <1>7, <1>9 DEF Ended, Looped, Right, n
<1>10. CASE ~after.cycle
  <2>1. last.cycle = FALSE /\ last.colour = [after.colour EXCEPT ![u] = "black"]
    BY <1>8, <1>10 DEF Ended, Result
  <2>2. \A x \in DOMAIN g.nodes : last.colour[x] = IF x = u THEN "black" ELSE after.colour[x]
    <3>1. after.colour \in Colouring
      BY <1>8 DEF Result
    <3> QED
      BY <2>1, <3>1 DEF Colouring, IsGraph
  <2>3. Safe(g, last.colour)
    <3> SUFFICES ASSUME NEW S, Circles(g, S), NEW x \in S, last.colour[x] = "black"
                 PROVE  FALSE
      BY DEF Safe
    <3>1. \A y \in S : y \in DOMAIN g.nodes /\ after.colour[y] # "black"
      BY <1>7, <1>10 DEF Looped, Safe, Circles
    <3>2. x = u
      BY <2>2, <3>1
    <3>3. PICK z \in S : Leads(g, u, z)
      BY <3>2 DEF Circles
    <3>4. PICK i \in 1 .. n : g.edges[i].source = u /\ g.edges[i].target = z
      BY <1>3, <3>3 DEF Leads
    <3>5. after.colour[z] = "black"
      BY <1>7, <1>10, <3>4 DEF Looped
    <3> QED
      BY <3>1, <3>5
  <2>4. b[u] = "white"
    BY DEF Ready, White
  <2>5. \A x \in DOMAIN g.nodes : /\ last.colour[x] = "gray" <=> b[x] = "gray"
                                  /\ b[x] = "black" => last.colour[x] = "black"
    BY <1>7, <1>10, <2>2, <2>4 DEF Looped
  <2>6. last.colour[u] = "black"
    BY <2>2
  <2> HIDE DEF last, after
  <2>7. Right(g, u, b, last)
    BY <2>1, <2>3, <2>5, <2>6 DEF Right
  <2> QED
    BY <1>2, <2>7 DEF last, n
<1> QED
  BY <1>9, <1>10

(* So is every search that a solution makes. *)
LEMMA SolutionIsRight ==
    ASSUME NEW g, IsGraph(g), Joined(g), NEW f, f = Dfs(g, f)
    PROVE  \A v \in DOMAIN g.nodes : \A c \in Colouring : Ready(g, v, c) => Right(g, v, c, f[v][c])
<1> DEFINE N == DOMAIN g.nodes
           Bad(S) == \E v \in N : \E c \in Colouring :
                        Ready(g, v, c) /\ White(g, c) = S /\ ~Right(g, v, c, f[v][c])
           T == {S \in SUBSET N : Bad(S)}
<1>1. T = {}
  <2> SUFFICES ASSUME T # {}
               PROVE  FALSE
    OBVIOUS
  <2>1. PICK S \in T : \A R \in T : ~ (R \subseteq S /\ R # S)
    <3>1. T \in SUBSET (SUBSET N) /\ IsFiniteSet(N)
      BY DEF IsGraph
    <3> HIDE DEF T, N
    <3> QED
      BY <3>1, NoneBelow
  <2>2. Bad(S)
    OBVIOUS
  <2>3. PICK v \in N : \E c \in Colouring :
                 Ready(g, v, c) /\ White(g, c) = S /\ ~Right(g, v, c, f[v][c])
    BY <2>2
  <2>4. PICK b \in Colouring : Ready(g, v, b) /\ White(g, b) = S /\ ~Right(g, v, b, f[v][b])
    BY <2>3
  <2> DEFINE X == White(g, b) \ {v}
  <2>5. RightWithin(g, f, X)
    <3> SUFFICES ASSUME NEW w \in N, NEW c \in Colouring, Ready(g, w, c), White(g, c) \subseteq X
                 PROVE  Right(g, w, c, f[w][c])
      BY DEF RightWithin
    <3>1. White(g, c) \subseteq S /\ White(g, c) # S /\ White(g, c) \in SUBSET N
      BY <2>4 DEF White, Ready
    <3>2. White(g, c) \notin T
      BY <2>1, <3>1
    <3>3. ~Bad(White(g, c))
      BY <3>1, <3>2
    <3> QED
      BY <3>3
  <2>6. ShrinksWithin(g, f, X)
    BY SolutionIsSearch
  <2>7. Right(g, v, b, Searched(g, f, v, b))
    <3> HIDE DEF X
    <3> QED
      BY <2>4, <2>5, <2>6, LoopIsRight DEF X
  <2>8. f[v][b] = Searched(g, f, v, b)
    BY SolutionIsSearch
  <2> QED
    BY <2>4, <2>7, <2>8
<1>2. ASSUME NEW v \in N, NEW c \in Colouring, Ready(g, v, c), ~Right(g, v, c, f[v][c])
      PROVE  FALSE
  <2>1. Bad(White(g, c)) /\ White(g, c) \in SUBSET N
    BY <1>2 DEF White
  <2> HIDE DEF Bad
  <2> QED
    BY <1>1, <2>1
<1> QED
  BY <1>2

(* One turn of the loop over the nodes, and the loop's invariant *)
Rooted(f, r, u) == IF r.cycle \/ r.colour[u] # "white" THEN r ELSE f[u][r.colour]
Walked(g, q, k, r) ==
    /\ r \in Result
    /\ r.cycle => CycleExists(g)
    /\ ~r.cycle => /\ Safe(g, r.colour)
                   /\ \A x \in DOMAIN g.nodes : r.colour[x] # "gray"
                   /\ \A i \in 1 .. k : r.colour[q[i]] = "black"

LEMMA RootType ==
    ASSUME NEW g, IsGraph(g), Joined(g), NEW f, f = Dfs(g, f), NEW u \in DOMAIN g.nodes, NEW r \in Result
    PROVE  Rooted(f, r, u) \in Result
<1>1. r.colour \in Colouring
  BY DEF Result
<1>2. r.colour[u] = "white" => f[u][r.colour] \in Result
  <2>1. r.colour[u] = "white" => u \in White(g, r.colour)
    BY DEF White
  <2> QED
    BY <1>1, <2>1, SolutionIsSearch DEF Shrinks
<1> QED
  BY <1>2 DEF Rooted

LEMMA RootIsRight ==
    ASSUME NEW g, IsGraph(g), Joined(g), NEW f, f = Dfs(g, f), NEW n \in Nat,
           NEW q \in [1 .. n -> DOMAIN g.nodes], NEW k \in 1 .. n, NEW r, Walked(g, q, k - 1, r)
    PROVE  Walked(g, q, k, Rooted(f, r, q[k]))
<1> DEFINE u == q[k]
           after == Rooted(f, r, u)
<1>1. u \in DOMAIN g.nodes /\ r \in Result /\ r.colour \in Colouring
  BY DEF Walked, Result
<1>2. after \in Result
  BY <1>1, RootType
<1>3. \A i \in 1 .. k : i = k \/ i \in 1 .. (k - 1)
  OBVIOUS
<1>4. CASE r.cycle
  BY <1>2, <1>4 DEF Walked, Rooted
<1>5. CASE ~r.cycle /\ r.colour[u] # "white"
  <2>1. r.colour[u] = "black"
    BY <1>1, <1>5 DEF Walked, Colouring, IsGraph
  <2>2. after = r
    BY <1>5 DEF Rooted
  <2>3. \A i \in 1 .. k : r.colour[q[i]] = "black"
    BY <1>3, <1>5, <2>1 DEF Walked
  <2> HIDE DEF after
  <2>4. Walked(g, q, k, after)
    BY <1>1, <1>5, <2>2, <2>3 DEF Walked
  <2> QED
    BY <2>4 DEF after
<1>6. CASE ~r.cycle /\ r.colour[u] = "white"
  <2>1. Ready(g, u, r.colour)
    BY <1>1, <1>6 DEF Ready, White, Walked
  <2>2. after = f[u][r.colour]
    BY <1>6 DEF Rooted
  <2>3. Right(g, u, r.colour, after)
    BY <1>1, <2>1, <2>2, SolutionIsRight
  <2> HIDE DEF after
  <2>4. CASE after.cycle
    BY <1>2, <2>3, <2>4 DEF Walked, Right, after
  <2>5. CASE ~after.cycle
    <3>1. \A i \in 1 .. k : after.colour[q[i]] = "black"
      <4> SUFFICES ASSUME NEW i \in 1 .. k
                   PROVE  after.colour[q[i]] = "black"
        OBVIOUS
      <4>1. CASE i = k
        BY <2>3, <2>5, <4>1 DEF Right
      <4>2. CASE i # k
        <5>1. r.colour[q[i]] = "black" /\ i \in 1 .. n
          BY <1>3, <1>6, <4>2 DEF Walked
        <5> QED
          BY <2>3, <2>5, <5>1 DEF Right
      <4> QED
        BY <4>1, <4>2
    <3>2. \A x \in DOMAIN g.nodes : after.colour[x] # "gray"
      BY <1>6, <2>3, <2>5 DEF Right, Walked
    <3>3. Walked(g, q, k, after)
      BY <1>2, <2>3, <2>5, <3>1, <3>2 DEF Right, Walked, after
    <3> QED
      BY <3>3 DEF after
  <2> QED
    BY <2>4, <2>5
<1> QED
  BY <1>4, <1>5, <1>6

(* hasCycle finds a cycle if and only if there is one. *)
LEMMA HasCycleIsExact ==
    ASSUME NEW g, IsGraph(g), Joined(g)
    PROVE  HasCycle(g) <=> CycleExists(g)
<1> DEFINE N == DOMAIN g.nodes
           f == CHOOSE dfs : dfs = [u \in Ids |-> [before \in Colouring |-> Searched(g, dfs, u, before)]]
           q == SetToSeq(N)
           base == [cycle |-> FALSE, colour |-> [x \in Ids |-> "white"]]
           Solves(h) == h = [s \in SUBSET DOMAIN q |->
                               IF s = {} THEN base
                               ELSE Rooted(f, h[s \ {Max(s)}], q[Max(s)])]
           h == CHOOSE k : Solves(k)
<1>1. HasCycle(g) = h[DOMAIN q].cycle
  BY Zenon DEF HasCycle, FoldLeft, MapThenFoldSet, Rooted
<1>2. f = Dfs(g, f)
  <2>1. \E dfs : dfs = [u \in Ids |-> [before \in Colouring |-> Searched(g, dfs, u, before)]]
    BY DfsExists, Zenon DEF Dfs
  <2> QED
    BY <2>1, Zenon DEF Dfs
<1> HIDE DEF f
<1>3. PICK n \in Nat : q \in [1 .. n -> N] /\ \A x \in N : \E i \in 1 .. n : q[i] = x
  BY SetIsListed DEF IsGraph
<1> HIDE DEF q
<1>4. DOMAIN q = 1 .. n
  BY <1>3
<1>5. base \in Result
  BY DEF Result, Colouring
<1>6. Walked(g, q, 0, base)
  <2>1. \A x \in N : base.colour[x] = "white"
    BY DEF IsGraph
  <2>2. Safe(g, base.colour)
    BY <2>1 DEF Safe, Circles
  <2>3. 1 .. 0 = {}
    OBVIOUS
  <2> QED
    BY <1>5, <2>1, <2>2, <2>3 DEF Walked
<1> HIDE DEF base
<1>7. \E k : Solves(k)
  <2> DEFINE F == [i \in 1 .. n |-> [r \in Result |-> Rooted(f, r, q[i])]]
  <2>1. F \in [1 .. n -> [Result -> Result]]
    BY <1>2, <1>3, RootType
  <2>2. PICK k : FoldsBy(k, Result, 1 .. n, base, F)
    <3> HIDE DEF F
    <3> QED
      BY <1>5, <2>1, RecursionOnSubsets
  <2>3. ASSUME NEW s \in SUBSET (1 .. n)
        PROVE  k[s] = IF s = {} THEN base ELSE Rooted(f, k[s \ {Max(s)}], q[Max(s)])
    <3>1. CASE s = {}
      BY <2>2, <3>1 DEF FoldsBy
    <3>2. CASE s # {}
      <4>1. Max(s) \in 1 .. n /\ k[s \ {Max(s)}] \in Result
        <5>1. Max(s) \in s
          BY <3>2, GreatestNumber
        <5> QED
          BY <2>2, <5>1 DEF FoldsBy
      <4>2. k[s] = F[Max(s)][k[s \ {Max(s)}]]
        BY <2>2, <3>2 DEF FoldsBy
      <4> QED
        BY <3>2, <4>1, <4>2
    <3> QED
      BY <3>1, <3>2
  <2>4. k = [s \in SUBSET (1 .. n) |-> k[s]]
    BY <2>2 DEF FoldsBy
  <2>5. Solves(k)
    BY <1>4, <2>3, <2>4
  <2> HIDE DEF Solves
  <2> QED
    BY <2>5
<1>8. Solves(h)
  <2> HIDE DEF Solves
  <2> QED
    BY <1>7, Zenon
<1> HIDE DEF h
<1>9. \A s \in SUBSET (1 .. n) : h[s] = IF s = {} THEN base ELSE Rooted(f, h[s \ {Max(s)}], q[Max(s)])
  BY <1>4, <1>8
<1>10. h[1 .. 0] = base
  <2>1. 1 .. 0 = {} /\ {} \in SUBSET (1 .. n)
    OBVIOUS
  <2> QED
    BY <1>9, <2>1
<1>11. ASSUME NEW k \in 1 .. n
       PROVE  h[1 .. k] = Rooted(f, h[1 .. (k - 1)], q[k])
  <2>1. /\ 1 .. k \in SUBSET (1 .. n) /\ 1 .. k # {}
        /\ Max(1 .. k) = k /\ (1 .. k) \ {k} = 1 .. (k - 1)
    BY LastNumber
  <2> QED
    BY <1>9, <2>1
<1>12. Walked(g, q, n, h[1 .. n])
  <2> DEFINE B == {k \in 1 .. n : ~Walked(g, q, k, h[1 .. k])}
  <2>1. B = {}
    <3> SUFFICES ASSUME B # {}
                 PROVE  FALSE
      OBVIOUS
    <3>1. PICK m \in B : \A j \in B : m <= j
      <4>1. B \in SUBSET (1 .. n)
        OBVIOUS
      <4> HIDE DEF B
      <4> QED
        BY <4>1, LeastNumber
    <3>2. m \in 1 .. n /\ ~Walked(g, q, m, h[1 .. m])
      OBVIOUS
    <3>3. Walked(g, q, m - 1, h[1 .. (m - 1)])
      <4>1. CASE m = 1
        BY <1>6, <1>10, <4>1
      <4>2. CASE m # 1
        <5>1. m - 1 \in 1 .. n /\ ~ (m <= m - 1)
          BY <3>2, <4>2
        <5> QED
          BY <3>1, <5>1
      <4> QED
        BY <4>1, <4>2
    <3>4. Walked(g, q, m, Rooted(f, h[1 .. (m - 1)], q[m]))
      BY <1>2, <1>3, <3>2, <3>3, RootIsRight
    <3> QED
      BY <1>11, <3>2, <3>4
  <2>2. n = 0 \/ n \in 1 .. n
    OBVIOUS
  <2> QED
    BY <1>6, <1>10, <2>1, <2>2
<1> DEFINE last == h[1 .. n]
<1>13. HasCycle(g) = last.cycle /\ last.cycle \in BOOLEAN
  BY <1>1, <1>4, <1>12 DEF Walked, Result
<1> HIDE DEF last
<1>14. Walked(g, q, n, last)
  BY <1>12 DEF last
<1>15. CASE last.cycle
  BY <1>13, <1>14, <1>15 DEF Walked
<1>16. CASE ~last.cycle
  <2>1. \A x \in N : last.colour[x] = "black"
    BY <1>3, <1>14, <1>16 DEF Walked
  <2>2. ASSUME CycleExists(g)
        PROVE  FALSE
    <3>1. PICK S \in (SUBSET DOMAIN g.nodes) \ {{}} :
             \A y \in S : \E i \in DOMAIN g.edges : g.edges[i].source = y /\ g.edges[i].target \in S
      BY <2>2 DEF CycleExists
    <3>2. \A y \in S : \E z \in S : Leads(g, y, z)
      BY <3>1 DEF Leads
    <3>3. Circles(g, S)
      BY <3>1, <3>2 DEF Circles
    <3> QED
      BY <1>14, <1>16, <2>1, <3>3 DEF Walked, Safe, Circles
  <2> QED
    BY <1>13, <1>16, <2>2
<1> QED
  BY <1>15, <1>16

----------------------------------------------------------------------------
(* One node more on a walk. *)

LEMMA IdleIsSound == CallIsSound(Idle) /\ Idle.graph = NoGraph /\ NoGraph \notin Graphs
<1>1. DOMAIN Idle = DOMAIN Idle /\ Idle.steps = <<>> /\ Idle.steps \in Seq(Ids)
  BY DEF Idle
<1>2. Idle.node.id \in Ids
  BY DEF Idle, NoNode, Ids
<1>3. Idle.pc = "idle" /\ Idle.graph = NoGraph /\ Idle.current = 0 /\ Idle.applied = 0 /\ Idle.resumes = 0
  BY DEF Idle
<1>4. NoGraph \notin Graphs
  BY GraphExecutorAssumption
<1> QED
  BY <1>1, <1>2, <1>3, <1>4 DEF CallIsSound

LEMMA WalkGoesOn ==
    ASSUME NEW x, NEW g, IsGraph(g), CallIsSound(x), Walks(x, g), x.node # NoNode,
           NEW y, y.steps = Append(x.steps, x.node.id),
           y.node # NoNode => Leads(g, x.node.id, y.node.id)
    PROVE  Walks(y, g)
<1> DEFINE n == Len(x.steps)
<1>1. x.steps \in Seq(Ids) /\ x.node.id \in Ids /\ n \in Nat
  BY DEF CallIsSound
<1>2. /\ Len(y.steps) = n + 1 /\ y.steps[n + 1] = x.node.id
      /\ \A k \in 1 .. n : y.steps[k] = x.steps[k]
  BY <1>1
<1>3. ASSUME NEW k \in 1 .. Len(y.steps) - 1
      PROVE  Leads(g, y.steps[k], y.steps[k + 1])
  <2>1. CASE k = n
    <3>1. x.steps # <<>> /\ y.steps[k] = x.steps[n] /\ y.steps[k + 1] = x.node.id
      BY <1>1, <1>2, <1>3, <2>1
    <3> QED
      BY <3>1 DEF Walks
  <2>2. CASE k # n
    <3>1. k \in 1 .. n - 1 /\ k \in 1 .. n /\ k + 1 \in 1 .. n
      BY <1>1, <1>2, <1>3, <2>2
    <3>2. y.steps[k] = x.steps[k] /\ y.steps[k + 1] = x.steps[k + 1]
      BY <1>2, <3>1
    <3> QED
      BY <3>1, <3>2 DEF Walks
  <2> QED
    BY <2>1, <2>2
<1> QED
  BY <1>2, <1>3 DEF Walks

(* More edges leave a walk a walk. *)
LEMMA WalkStays ==
    ASSUME NEW x, NEW g, NEW h, Walks(x, g), \A u, v : Leads(g, u, v) => Leads(h, u, v)
    PROVE  Walks(x, h)
BY DEF Walks

----------------------------------------------------------------------------
(* The initial states and the steps of the executor *)

LEMMA InitIsSound == Init => IInv
<1> SUFFICES ASSUME Init
             PROVE  IInv
  OBVIOUS
<1>1. Objects
  BY GraphExecutorAssumption DEF Init, Objects
<1>2. Calls
  BY IdleIsSound DEF Init, Calls, CallWalks
<1>3. GraphIsThere /\ RegistryMatches
  BY DEF Init, GraphIsThere, Active, Idle, RegistryMatches, GetStatus
<1> QED
  BY <1>1, <1>2, <1>3 DEF IInv, Init

(* One object gets more edges or nodes. *)
LEMMA ObjectGrows ==
    ASSUME IInv, NEW g \in Graphs, NEW h, IsGraph(h),
           \A u, v : Leads(heap[g], u, v) => Leads(h, u, v),
           heap' = [heap EXCEPT ![g] = h], UNCHANGED <<repo, registry, exec, checkpoints>>
    PROVE  IInv'
<1>1. Objects'
  BY DEF IInv, Objects
<1>2. ASSUME NEW e \in Executions
      PROVE  CallWalks(exec[e], heap')
  <2>1. CallWalks(exec[e], heap) /\ exec[e].graph \in Graphs \cup {NoGraph}
    BY DEF IInv, Calls, CallIsSound
  <2>2. CASE exec[e].graph = g /\ exec[e].graph # NoGraph
    <3>1. Walks(exec[e], heap[g]) /\ heap'[exec[e].graph] = h
      BY <2>1, <2>2 DEF CallWalks, IInv, Objects
    <3> QED
      BY <3>1, WalkStays DEF CallWalks
  <2>3. CASE exec[e].graph # g /\ exec[e].graph # NoGraph
    <3>1. heap'[exec[e].graph] = heap[exec[e].graph]
      BY <2>1, <2>3 DEF IInv, Objects
    <3> QED
      BY <2>1, <2>3, <3>1 DEF CallWalks
  <2> QED
    BY <2>2, <2>3 DEF CallWalks
<1>3. Calls'
  BY <1>2 DEF IInv, Calls
<1>4. GraphIsThere' /\ RegistryMatches'
  BY DEF IInv, GraphIsThere, Active, RegistryMatches, GetStatus
<1> QED
  BY <1>1, <1>3, <1>4 DEF IInv

LEMMA EditKeeps == ASSUME IInv, Edit PROVE IInv'
<1>1. ASSUME NEW g \in Graphs, NEW n \in NodeChoices, AddNode(g, n)
      PROVE  IInv'
  <2>1. IsGraph(heap[g]) /\ n \in Node
    BY GraphExecutorAssumption DEF IInv, Objects
  <2>2. IsGraph(NodeAdded(heap[g], n)) /\ NodeAdded(heap[g], n).edges = heap[g].edges
    BY <2>1, NodeAddedIsGraph
  <2>3. \A u, v : Leads(heap[g], u, v) => Leads(NodeAdded(heap[g], n), u, v)
    BY <2>2 DEF Leads
  <2>4. heap' = [heap EXCEPT ![g] = NodeAdded(heap[g], n)] /\ UNCHANGED <<repo, registry, exec, checkpoints>>
    BY <1>1 DEF AddNode
  <2> QED
    BY <2>2, <2>3, <2>4, ObjectGrows
<1>2. ASSUME NEW g \in Graphs, NEW x \in EdgeChoices, AddEdge(g, x)
      PROVE  IInv'
  <2>1. IsGraph(heap[g]) /\ x \in Edge
    BY GraphExecutorAssumption DEF IInv, Objects
  <2>2. /\ IsGraph(EdgeAdded(heap[g], x))
        /\ \A u, v : Leads(heap[g], u, v) => Leads(EdgeAdded(heap[g], x), u, v)
    BY <2>1, EdgeAddedIsGraph
  <2>3. heap' = [heap EXCEPT ![g] = EdgeAdded(heap[g], x)] /\ UNCHANGED <<repo, registry, exec, checkpoints>>
    BY <1>2 DEF AddEdge
  <2> QED
    BY <2>2, <2>3, ObjectGrows
<1>3. ASSUME NEW g \in Graphs, SaveGraph(g)
      PROVE  IInv'
  <2>1. Objects'
    BY <1>3 DEF SaveGraph, IInv, Objects
  <2>2. Calls'
    BY <1>3 DEF SaveGraph, IInv, Calls
  <2>3. GraphIsThere' /\ RegistryMatches'
    BY <1>3, IdleIsSound DEF SaveGraph, IInv, GraphIsThere, Active, RegistryMatches, GetStatus
  <2> QED
    BY <1>3, <2>1, <2>2, <2>3 DEF SaveGraph, IInv
<1> QED
  BY <1>1, <1>2, <1>3 DEF Edit

(* One call moves on. *)
LEMMA CallMoves ==
    ASSUME IInv, NEW e \in Executions, NEW y, CallIsSound(y), CallWalks(y, heap),
           exec' = [exec EXCEPT ![e] = y], UNCHANGED <<heap, repo>>
    PROVE  Objects' /\ Calls'
BY DEF IInv, Objects, Calls

LEMMA ExecuteKeeps ==
    ASSUME IInv, NEW e \in Executions, NEW request \in Requests, NEW input, Execute(e, request, input)
    PROVE  IInv'
<1> DEFINE config == WithDefaults(request.config)
           accepted == request.valid /\ Approved(config)
           started == [Idle EXCEPT !.pc = "start", !.op = "execute", !.config = config,
                                   !.state = input, !.status = "running", !.validated = heap[repo]]
           refused == [Idle EXCEPT !.pc = "returned", !.op = "execute"]
<1>1. /\ exec[e].pc = "idle"
      /\ exec' = [exec EXCEPT ![e] = IF accepted THEN started ELSE refused]
      /\ registry' = registry \cup (IF accepted THEN {e} ELSE {})
      /\ UNCHANGED <<heap, repo, checkpoints>>
  BY DEF Execute
<1>2. CASE accepted
  <2>1. config.validate /\ repo # NoGraph /\ CoreGraphIsValid(heap[repo], config.cycles)
    <3>1. request.config \in Config
      BY GraphExecutorAssumption
    <3>2. config.validate = TRUE
      BY <3>1 DEF WithDefaults, Config
    <3> QED
      BY <1>2, <3>2 DEF Approved
  <2>2. /\ started.pc = "start" /\ started.graph = NoGraph /\ started.config = config
        /\ started.validated = heap[repo] /\ started.steps = <<>> /\ started.node = Idle.node
        /\ started.current = 0 /\ started.applied = 0 /\ started.resumes = 0
        /\ DOMAIN started = DOMAIN Idle
    BY DEF Idle
  <2>3. config.cycles => CoreGraphIsValid(heap[repo], TRUE)
    BY <2>1, CheckedForCycles
  <2>4. CallIsSound(started) /\ CallWalks(started, heap)
    <3> HIDE DEF started, config
    <3>1. started.config.cycles => CoreGraphIsValid(started.validated, TRUE)
      BY <2>2, <2>3
    <3>2. 0 = 0 + 0 /\ 0 \in Nat /\ Idle.node.id \in Ids /\ <<>> \in Seq(Ids)
      BY IdleIsSound DEF CallIsSound
    <3>3. CallIsSound(started)
      BY <2>2, <3>1, <3>2 DEF CallIsSound
    <3> QED
      BY <2>2, <3>3 DEF CallWalks
  <2>5. exec' = [exec EXCEPT ![e] = started] /\ registry' = registry \cup {e}
    BY <1>1, <1>2
  <2> HIDE DEF started, config, accepted
  <2>6. Objects' /\ Calls'
    BY <1>1, <2>4, <2>5, CallMoves
  <2>7. /\ exec'[e].pc = "start"
        /\ \A d \in Executions : d # e => exec'[d] = exec[d]
    BY <2>2, <2>5 DEF IInv, Calls
  <2>8. GraphIsThere'
    BY <1>1, <2>1, <2>7 DEF GraphIsThere
  <2>9. RegistryMatches'
    BY <2>5, <2>7 DEF IInv, RegistryMatches, GetStatus, Active
  <2> QED
    BY <1>1, <2>6, <2>8, <2>9 DEF IInv
<1>3. CASE ~accepted
  <2>1. /\ refused.pc = "returned" /\ refused.graph = NoGraph /\ refused.op = "execute"
        /\ refused.steps = <<>> /\ refused.node = Idle.node
        /\ refused.current = 0 /\ refused.applied = 0 /\ refused.resumes = 0
        /\ DOMAIN refused = DOMAIN Idle
    BY DEF Idle
  <2>2. exec' = [exec EXCEPT ![e] = refused] /\ registry' = registry
    BY <1>1, <1>3
  <2> HIDE DEF started, config, accepted, refused
  <2>3. CallIsSound(refused) /\ CallWalks(refused, heap)
    BY <2>1, IdleIsSound DEF CallIsSound, CallWalks
  <2>4. Objects' /\ Calls'
    BY <1>1, <2>2, <2>3, CallMoves
  <2>5. /\ exec'[e].pc = "returned"
        /\ \A d \in Executions : d # e => exec'[d] = exec[d]
    BY <2>1, <2>2 DEF IInv, Calls
  <2>6. GraphIsThere'
    BY <1>1, <2>5 DEF IInv, GraphIsThere, Active
  <2>7. RegistryMatches'
    BY <1>1, <2>2, <2>5 DEF IInv, RegistryMatches, GetStatus, Active
  <2> QED
    BY <1>1, <2>4, <2>6, <2>7 DEF IInv
<1> QED
  BY <1>2, <1>3

LEMMA ResumeKeeps ==
    ASSUME IInv, NEW e \in Executions, NEW c \in checkpoints, NEW loaded, NEW request,
           Resume(e, c, loaded, request)
    PROVE  IInv'
<1> PICK config : LET y == [Idle EXCEPT !.pc = "validate", !.op = "resume", !.config = config,
                           !.current = c.step, !.state = c.state, !.status = "running",
                           !.applied = c.applied, !.resumes = c.resumes + 1]
                  IN  exec' = [exec EXCEPT ![e] = y]
  BY DEF Resume
<1> DEFINE y == [Idle EXCEPT !.pc = "validate", !.op = "resume", !.config = config,
                           !.current = c.step, !.state = c.state, !.status = "running",
                           !.applied = c.applied, !.resumes = c.resumes + 1]
<1>1. /\ exec' = [exec EXCEPT ![e] = y] /\ registry' = registry \cup {e}
      /\ UNCHANGED <<heap, repo, checkpoints>>
  BY DEF Resume
<1>2. Counted(c) /\ repo # NoGraph
  BY DEF IInv, GraphIsThere
<1>3. /\ y.pc = "validate" /\ y.op = "resume" /\ y.graph = NoGraph /\ y.steps = <<>>
      /\ y.node = Idle.node
      /\ y.current = c.step /\ y.applied = c.applied /\ y.resumes = c.resumes + 1
      /\ DOMAIN y = DOMAIN Idle
  BY DEF Idle
<1> HIDE DEF y
<1>4. y.applied = y.current + y.resumes /\ y.current \in Nat /\ y.applied \in Nat /\ y.resumes \in Nat
  BY <1>2, <1>3 DEF Counted
<1>5. CallIsSound(y) /\ CallWalks(y, heap)
  BY <1>3, <1>4, IdleIsSound DEF CallIsSound, CallWalks
<1>6. Objects' /\ Calls'
  BY <1>1, <1>5, CallMoves
<1>7. exec'[e].pc = "validate" /\ \A d \in Executions : d # e => exec'[d] = exec[d]
  BY <1>1, <1>3 DEF IInv, Calls
<1>8. GraphIsThere'
  BY <1>1, <1>2, <1>7 DEF GraphIsThere
<1>9. RegistryMatches'
  BY <1>1, <1>7 DEF IInv, RegistryMatches, GetStatus, Active
<1> QED
  BY <1>1, <1>6, <1>8, <1>9 DEF IInv

LEMMA ResumeMissingKeeps ==
    ASSUME IInv, NEW e \in Executions, ResumeMissing(e)
    PROVE  IInv'
<1> DEFINE y == [Idle EXCEPT !.pc = "returned", !.op = "resume"]
<1>1. exec' = [exec EXCEPT ![e] = y] /\ exec[e].pc = "idle" /\ UNCHANGED <<heap, repo, registry, checkpoints>>
  BY DEF ResumeMissing
<1>2. /\ y.pc = "returned" /\ y.graph = NoGraph /\ y.steps = <<>> /\ y.node = Idle.node
      /\ y.current = 0 /\ y.applied = 0 /\ y.resumes = 0
      /\ DOMAIN y = DOMAIN Idle
  BY DEF Idle
<1> HIDE DEF y
<1>3. CallIsSound(y) /\ CallWalks(y, heap)
  BY <1>2, IdleIsSound DEF CallIsSound, CallWalks
<1>4. Objects' /\ Calls'
  BY <1>1, <1>3, CallMoves
<1>5. exec'[e].pc = "returned" /\ \A d \in Executions : d # e => exec'[d] = exec[d]
  BY <1>1, <1>2 DEF IInv, Calls
<1>6. GraphIsThere' /\ RegistryMatches'
  BY <1>1, <1>5 DEF IInv, GraphIsThere, RegistryMatches, GetStatus, Active
<1> QED
  BY <1>1, <1>4, <1>6 DEF IInv

LEMMA ResumeValidateKeeps ==
    ASSUME IInv, NEW e \in Executions, ResumeValidate(e)
    PROVE  IInv'
<1> DEFINE x == exec[e]
           y == [exec[e] EXCEPT !.pc = IF Approved(exec[e].config) THEN "start" ELSE "returned",
                                !.status = IF Approved(exec[e].config) THEN @ ELSE "none",
                                !.validated = heap[repo]]
<1>1. x.pc = "validate" /\ exec' = [exec EXCEPT ![e] = y] /\ UNCHANGED <<heap, repo, registry, checkpoints>>
  BY DEF ResumeValidate
<1>2. CallIsSound(x) /\ x.graph = NoGraph /\ x.op = "resume"
  BY <1>1 DEF IInv, Calls, CallIsSound
<1>3. /\ y.op = x.op /\ y.graph = x.graph /\ y.steps = x.steps /\ y.node = x.node
      /\ y.config = x.config /\ y.validated = heap[repo]
      /\ y.current = x.current /\ y.applied = x.applied /\ y.resumes = x.resumes
      /\ DOMAIN y = DOMAIN x
      /\ y.pc = IF Approved(x.config) THEN "start" ELSE "returned"
      /\ y.status = IF Approved(x.config) THEN x.status ELSE "none"
  BY <1>2 DEF CallIsSound, Idle
<1>4. (y.pc = "start" /\ x.config.validate /\ x.config.cycles) => CoreGraphIsValid(heap[repo], TRUE)
  <2> SUFFICES ASSUME y.pc = "start", x.config.validate, x.config.cycles
               PROVE  CoreGraphIsValid(heap[repo], TRUE)
    OBVIOUS
  <2>1. Approved(x.config)
    BY <1>3
  <2>2. CoreGraphIsValid(heap[repo], x.config.cycles)
    BY <2>1 DEF Approved
  <2> QED
    BY <2>2, CheckedForCycles
<1> HIDE DEF x, y
<1>5. y.pc = "start" \/ (y.pc = "returned" /\ y.status = "none")
  BY <1>3
<1>6. CallIsSound(y) /\ CallWalks(y, heap)
  <2>1. x.steps = <<>>
    BY <1>1, <1>2 DEF CallIsSound
  <2>2. (y.pc \in {"start", "run"} /\ y.config.validate /\ y.config.cycles) => CoreGraphIsValid(y.validated, TRUE)
    BY <1>3, <1>4, <1>5
  <2>3. CallIsSound(y)
    BY <1>2, <1>3, <1>5, <2>1, <2>2, IdleIsSound DEF CallIsSound
  <2> QED
    BY <1>2, <1>3, <2>3 DEF CallWalks
<1>7. Objects' /\ Calls'
  BY <1>1, <1>6, CallMoves
<1>8. exec'[e] = y /\ \A d \in Executions : d # e => exec'[d] = exec[d]
  BY <1>1 DEF IInv, Calls
<1>9. repo # NoGraph
  BY <1>1 DEF IInv, GraphIsThere, Active, x
<1>10. GraphIsThere'
  BY <1>1, <1>9 DEF GraphIsThere
<1>11. RegistryMatches'
  BY <1>1, <1>2, <1>3, <1>5, <1>8 DEF IInv, RegistryMatches, GetStatus, Active
<1> QED
  BY <1>1, <1>7, <1>10, <1>11 DEF IInv

LEMMA StartGraphKeeps ==
    ASSUME IInv, NEW e \in Executions, StartGraph(e)
    PROVE  IInv'
<1> DEFINE x == exec[e]
           g == heap[repo]
           n == IF g.entry \in DOMAIN g.nodes THEN g.nodes[g.entry] ELSE NoNode
           y == [exec[e] EXCEPT !.pc = "run", !.graph = repo, !.node = n]
<1>1. x.pc = "start" /\ exec' = [exec EXCEPT ![e] = y] /\ UNCHANGED <<heap, repo, registry, checkpoints>>
  BY DEF StartGraph
<1>2. CallIsSound(x) /\ x.steps = <<>>
  BY <1>1 DEF IInv, Calls, CallIsSound
<1>3. repo # NoGraph /\ repo \in Graphs /\ IsGraph(heap[repo])
  BY <1>1 DEF IInv, GraphIsThere, Active, Objects
<1>4. n.id \in Ids
  <2>1. CASE g.entry \in DOMAIN g.nodes
    BY <1>3, <2>1 DEF IsGraph, Node, Ids
  <2> QED
    BY <2>1 DEF NoNode, Ids
<1>5. /\ y.pc = "run" /\ y.graph = repo /\ y.node = n /\ y.steps = x.steps
      /\ y.config = x.config /\ y.validated = x.validated
      /\ y.current = x.current /\ y.applied = x.applied /\ y.resumes = x.resumes
      /\ DOMAIN y = DOMAIN x
  BY <1>2 DEF CallIsSound, Idle
<1> HIDE DEF x, y, n, g
<1>6. CallIsSound(y) /\ CallWalks(y, heap)
  <2>1. CallIsSound(y)
    BY <1>1, <1>2, <1>3, <1>4, <1>5, IdleIsSound DEF CallIsSound
  <2>2. Walks(y, heap[repo])
    BY <1>2, <1>5 DEF Walks
  <2> QED
    BY <1>5, <2>1, <2>2 DEF CallWalks
<1>7. Objects' /\ Calls'
  BY <1>1, <1>6, CallMoves
<1>8. exec'[e] = y /\ \A d \in Executions : d # e => exec'[d] = exec[d]
  BY <1>1 DEF IInv, Calls
<1>9. GraphIsThere' /\ RegistryMatches'
  BY <1>1, <1>3, <1>5, <1>8 DEF IInv, GraphIsThere, RegistryMatches, GetStatus, Active
<1> QED
  BY <1>1, <1>7, <1>9 DEF IInv

(* A node: the walk goes one edge further, and the checkpoint, when there  *)
(* is one, counts as many steps as the call did before the node.           *)
LEMMA RunNodeKeeps ==
    ASSUME IInv, NEW e \in Executions, RunNode(e)
    PROVE  IInv'
<1> DEFINE x == exec[e]
           state == Processed(x.node, x.state)
           g == heap[x.graph]
           next == NextEdges(x.node, g.edges, state)
           n == IF next = {} THEN NoNode ELSE Placeholder(g.edges[Min(next)].target)
           y == [x EXCEPT !.state = state, !.step = @ + 1, !.current = @ + 1, !.applied = @ + 1,
                          !.steps = Append(@, x.node.id), !.node = n]
<1>1. /\ x.pc = "run" /\ x.node # NoNode
      /\ exec' = [exec EXCEPT ![e] = y] /\ UNCHANGED <<heap, repo, registry>>
      /\ \/ checkpoints' = checkpoints \cup {NewCheckpoint(e, state)}
         \/ checkpoints' = checkpoints
  BY DEF RunNode, MayRun
<1>2. CallIsSound(x) /\ x.graph \in Graphs /\ x.graph # NoGraph /\ IsGraph(g) /\ Walks(x, g)
  BY <1>1 DEF IInv, Calls, CallIsSound, CallWalks, Objects
<1>3. /\ n.id \in Ids
      /\ n # NoNode => Leads(g, x.node.id, n.id)
  <2>1. CASE next = {}
    BY <2>1 DEF NoNode, Ids
  <2>2. CASE next # {}
    <3>1. /\ g.edges[Min(next)].target \in Ids
          /\ Leads(g, x.node.id, g.edges[Min(next)].target)
      <4> HIDE DEF g, x, state
      <4> QED
        BY <1>2, <2>2, NextNodeIsLedTo
    <3> QED
      BY <2>2, <3>1 DEF Placeholder
  <2> QED
    BY <2>1, <2>2
<1> HIDE DEF n
<1>4. /\ y.pc = x.pc /\ y.op = x.op /\ y.graph = x.graph /\ y.config = x.config
      /\ y.validated = x.validated /\ y.resumes = x.resumes
      /\ y.current = x.current + 1 /\ y.applied = x.applied + 1
      /\ y.steps = Append(x.steps, x.node.id) /\ y.node = n
      /\ DOMAIN y = DOMAIN x
  BY <1>2 DEF CallIsSound, Idle
<1>5. Counted(NewCheckpoint(e, state))
  BY <1>2, SMTT(20) DEF CallIsSound, Counted, NewCheckpoint
<1> HIDE DEF x, y, g, state, next
<1>6. CallIsSound(y) /\ CallWalks(y, heap)
  <2>1. CallIsSound(y)
    <3>1. y.steps \in Seq(Ids)
      BY <1>2, <1>4 DEF CallIsSound
    <3>2. y.applied = y.current + y.resumes /\ y.current \in Nat /\ y.applied \in Nat
      BY <1>2, <1>4 DEF CallIsSound
    <3> QED
      BY <1>1, <1>2, <1>3, <1>4, <3>1, <3>2 DEF CallIsSound
  <2>2. Walks(y, g)
    BY <1>1, <1>2, <1>3, <1>4, WalkGoesOn
  <2> QED
    BY <1>4, <2>1, <2>2 DEF CallWalks, g
<1>7. Objects' /\ Calls'
  BY <1>1, <1>6, CallMoves
<1>8. exec'[e] = y /\ \A d \in Executions : d # e => exec'[d] = exec[d]
  BY <1>1 DEF IInv, Calls
<1>9. repo # NoGraph
  BY <1>1 DEF IInv, GraphIsThere, Active, x
<1>10. GraphIsThere'
  BY <1>1, <1>9 DEF GraphIsThere
<1>11. RegistryMatches'
  BY <1>1, <1>4, <1>8 DEF IInv, RegistryMatches, GetStatus, Active
<1>12. \A c \in checkpoints' : Counted(c)
  BY <1>1, <1>5 DEF IInv
<1> QED
  BY <1>7, <1>10, <1>11, <1>12 DEF IInv

LEMMA ReturnKeeps ==
    ASSUME IInv, NEW e \in Executions, NEW status, exec[e].pc = "run", Return(e, status)
    PROVE  IInv'
<1> DEFINE y == [Idle EXCEPT !.pc = "returned", !.op = exec[e].op,
                             !.status = status, !.steps = exec[e].steps]
<1>1. /\ exec' = [exec EXCEPT ![e] = y] /\ registry' = registry \ {e}
      /\ UNCHANGED <<heap, repo, checkpoints>>
  BY DEF Return
<1>2. exec[e].steps \in Seq(Ids)
  BY DEF IInv, Calls, CallIsSound
<1>3. /\ y.pc = "returned" /\ y.graph = NoGraph /\ y.node = Idle.node
      /\ y.steps = exec[e].steps
      /\ y.current = 0 /\ y.applied = 0 /\ y.resumes = 0
      /\ DOMAIN y = DOMAIN Idle
  BY DEF Idle
<1> HIDE DEF y
<1>4. CallIsSound(y) /\ CallWalks(y, heap)
  BY <1>2, <1>3, IdleIsSound DEF CallIsSound, CallWalks
<1>5. Objects' /\ Calls'
  BY <1>1, <1>4, CallMoves
<1>6. exec'[e].pc = "returned" /\ \A d \in Executions : d # e => exec'[d] = exec[d]
  BY <1>1, <1>3 DEF IInv, Calls
<1>7. GraphIsThere' /\ RegistryMatches'
  BY <1>1, <1>6 DEF IInv, GraphIsThere, RegistryMatches, GetStatus, Active
<1> QED
  BY <1>1, <1>5, <1>7 DEF IInv

LEMMA StopKeeps == ASSUME IInv, NEW e \in Executions, Stop(e) PROVE IInv'
<1>1. registry' \subseteq registry /\ UNCHANGED <<heap, repo, exec, checkpoints>>
  BY DEF Stop
<1>2. Objects' /\ Calls'
  BY <1>1 DEF IInv, Objects, Calls
<1>3. GraphIsThere' /\ RegistryMatches'
  BY <1>1 DEF IInv, GraphIsThere, RegistryMatches, GetStatus, Active
<1> QED
  BY <1>1, <1>2, <1>3 DEF IInv

LEMMA DeleteKeeps == ASSUME IInv, NEW c \in checkpoints, DeleteCheckpoint(c) PROVE IInv'
<1>1. checkpoints' \subseteq checkpoints /\ UNCHANGED <<heap, repo, exec, registry>>
  BY DEF DeleteCheckpoint
<1>2. Objects' /\ Calls'
  BY <1>1 DEF IInv, Objects, Calls
<1>3. GraphIsThere' /\ RegistryMatches'
  BY <1>1 DEF IInv, GraphIsThere, RegistryMatches, GetStatus, Active
<1> QED
  BY <1>1, <1>2, <1>3 DEF IInv

LEMMA UnchangedKeeps == ASSUME IInv, UNCHANGED vars PROVE IInv'
<1>1. UNCHANGED <<heap, repo, registry, exec, checkpoints>>
  BY DEF vars
<1>2. Objects' /\ Calls'
  BY <1>1 DEF IInv, Objects, Calls
<1>3. GraphIsThere' /\ RegistryMatches'
  BY <1>1 DEF IInv, GraphIsThere, RegistryMatches, GetStatus, Active
<1> QED
  BY <1>1, <1>2, <1>3 DEF IInv

LEMMA StepKeeps == ASSUME IInv, [Next]_allVars PROVE IInv'
<1>1. ASSUME NEW e \in Executions, NEW inputs, Call(e, Requests, inputs)
      PROVE  IInv'
  BY <1>1, ExecuteKeeps, ResumeKeeps, ResumeMissingKeeps DEF Call
<1>2. ASSUME NEW e \in Executions, RunStep(e)
      PROVE  IInv'
  <2>1. CASE NodeFails(e) \/ EndGraph(e)
    BY <2>1, ReturnKeeps DEF NodeFails, EndGraph, MayRun
  <2> QED
    BY <1>2, <2>1, ResumeValidateKeeps, StartGraphKeeps, RunNodeKeeps DEF RunStep
<1>3. CASE Callers
  <2>1. ASSUME NEW e \in Streaming, NEW r \in Requests, NEW i \in Inputs, StreamingExecute(e, r, i)
        PROVE  IInv'
    BY <2>1, ExecuteKeeps, StreamingAssumption DEF StreamingExecute
  <2> QED
    BY <1>1, <1>3, <2>1, EditKeeps, StopKeeps, DeleteKeeps DEF Callers
<1>4. ASSUME NEW e \in Executions, Run(e)
      PROVE  IInv'
  <2>1. CASE StreamStep(e)
    BY <2>1, UnchangedKeeps DEF StreamStep, PublishNext, Panic
  <2> QED
    BY <1>2, <1>4, <2>1 DEF Run
<1>5. ASSUME NEW event, HandleEvent(event)
      PROVE  IInv'
  BY <1>5, UnchangedKeeps DEF HandleEvent
<1>6. CASE UNCHANGED allVars
  BY <1>6, UnchangedKeeps DEF allVars
<1> QED
  BY <1>3, <1>4, <1>5, <1>6 DEF Next

----------------------------------------------------------------------------
(* Theorems *)

(* The inductive invariant of the executor, with all its interference: the *)
(* calls of Execute and Resume, Stop, edits of saved graphs, checkpoints   *)
(* deleted, and the streaming executor around it.                          *)
THEOREM Invariance == Spec => []IInv
<1>1. StreamInit => IInv
  BY InitIsSound DEF StreamInit
<1>2. IInv /\ [Next]_allVars => IInv'
  BY StepKeeps
<1> QED
  BY <1>1, <1>2, PTL DEF Spec

(* GetStatus (executor.go) calls running what has not returned, whatever   *)
(* Stop does meanwhile, but for a Resume whose graph was not approved.     *)
THEOREM RegistryStaysTrue == Spec => []RegistryMatches
<1>1. IInv => RegistryMatches
  BY DEF IInv
<1> QED
  BY <1>1, Invariance, PTL

(* CreateCheckpoint writes the step count before CurrentStep++: a          *)
(* checkpoint lags behind its state by one node, and by one more for each  *)
(* Resume, for every number of steps and of checkpoints kept.              *)
THEOREM CheckpointsLagByOne == Spec => []CheckpointCountsSteps
<1>1. IInv => CheckpointCountsSteps
  BY DEF IInv, Counted, CheckpointCountsSteps
<1> QED
  BY <1>1, Invariance, PTL

(* executeGraph reads the repository a second time and does not ask        *)
(* whether a graph is there: one is, as long as a call or a checkpoint is. *)
THEOREM SecondGetFindsGraph == Spec => []GraphIsThere
<1>1. IInv => GraphIsThere
  BY DEF IInv
<1> QED
  BY <1>1, Invariance, PTL

(* A walk that comes to a node twice has gone round a cycle. *)
LEMMA RepeatIsCycle ==
    ASSUME NEW g, CoreGraphIsValid(g, TRUE), NEW x, x.steps \in Seq(Ids), Walks(x, g),
           NEW i \in DOMAIN x.steps, NEW j \in DOMAIN x.steps, i < j, x.steps[i] = x.steps[j]
    PROVE  CycleExists(g)
<1> DEFINE S == {x.steps[k] : k \in i .. j - 1}
<1>1. Len(x.steps) \in Nat /\ i \in 1 .. Len(x.steps) /\ j \in 1 .. Len(x.steps)
  OBVIOUS
<1>2. ASSUME NEW u \in S
      PROVE  \E m \in DOMAIN g.edges : g.edges[m].source = u /\ g.edges[m].target \in S
  <2>1. PICK k \in i .. j - 1 : u = x.steps[k]
    OBVIOUS
  <2>2. k \in 1 .. Len(x.steps) - 1 /\ k \in Int
    BY <1>1, <2>1
  <2>3. Leads(g, x.steps[k], x.steps[k + 1])
    BY <2>2 DEF Walks
  <2>4. x.steps[k + 1] \in S
    <3>1. CASE k = j - 1
      <4>1. k + 1 = j /\ i \in i .. j - 1
        BY <1>1, <2>2, <3>1
      <4> QED
        BY <4>1
    <3>2. CASE k # j - 1
      <4>1. k + 1 \in i .. j - 1
        BY <1>1, <2>1, <2>2, <3>2
      <4> QED
        BY <4>1
    <3> QED
      BY <3>1, <3>2
  <2> QED
    BY <2>1, <2>3, <2>4 DEF Leads
<1>3. \A m \in DOMAIN g.edges : g.edges[m].source \in DOMAIN g.nodes
  BY DEF CoreGraphIsValid
<1>4. S \in SUBSET (DOMAIN g.nodes)
  <2>1. ASSUME NEW u \in S
        PROVE  u \in DOMAIN g.nodes
    BY <1>2, <1>3
  <2> HIDE DEF S
  <2> QED
    BY <2>1
<1>5. x.steps[i] \in S
  <2>1. i \in i .. j - 1
    BY <1>1
  <2> QED
    BY <2>1
<1> HIDE DEF S
<1> QED
  BY <1>2, <1>4, <1>5 DEF CycleExists

LEMMA NoRepeat ==
    ASSUME IInv
    PROVE  AcyclicVisitsOnce
<1>0. ASSUME NEW e \in Executions, exec[e].graph # NoGraph,
             exec[e].config.validate, exec[e].config.cycles,
             heap[exec[e].graph] = exec[e].validated,
             NEW i \in DOMAIN exec[e].steps, NEW j \in DOMAIN exec[e].steps,
             exec[e].steps[i] = exec[e].steps[j], i # j
      PROVE  FALSE
  <2> DEFINE x == exec[e]
             g == heap[x.graph]
  <2>1. /\ x.pc = "run" /\ x.graph \in Graphs /\ x.steps \in Seq(Ids)
        /\ CoreGraphIsValid(g, TRUE) /\ Walks(x, g)
    BY <1>0 DEF IInv, Calls, CallIsSound, CallWalks
  <2>2. ~CycleExists(g)
    <3>1. ~HasCycle(g) /\ Joined(g)
      BY <2>1 DEF CoreGraphIsValid, Joined
    <3>2. IsGraph(g)
      BY <2>1 DEF IInv, Objects
    <3> QED
      BY <3>1, <3>2, HasCycleIsExact
  <2>3. i \in Int /\ j \in Int
    BY <2>1
  <2> HIDE DEF x, g
  <2>4. (i < j) => CycleExists(g)
    BY <1>0, <2>1, RepeatIsCycle DEF x
  <2>5. (j < i) => CycleExists(g)
    BY <1>0, <2>1, RepeatIsCycle DEF x
  <2> QED
    BY <1>0, <2>2, <2>3, <2>4, <2>5
<1> QED
  BY <1>0 DEF AcyclicVisitsOnce

(* An execution whose graph ValidateCoreGraph checked for cycles and no     *)
(* caller has changed since comes to no node twice: for any graphs, numbers *)
(* of edges, conditions and interleavings.                                  *)
THEOREM CheckedGraphsAreWalkedOnce == Spec => []AcyclicVisitsOnce
<1>1. IInv => AcyclicVisitsOnce
  BY NoRepeat
<1> QED
  BY <1>1, Invariance, PTL

(* Only AddNode and AddEdge change graphs, and they check the ends of edges. *)
AllJoined == \A g \in Graphs : Joined(heap[g])

LEMMA GraphsStayJoined == ASSUME IInv, AllJoined, [Next]_allVars PROVE AllJoined'
<1>1. ASSUME NEW g \in Graphs, NEW n \in NodeChoices, AddNode(g, n)
      PROVE  AllJoined'
  <2>1. n \in Node /\ IsGraph(heap[g]) /\ Joined(heap[g]) /\ DOMAIN heap = Graphs
    BY GraphExecutorAssumption DEF IInv, Objects, AllJoined
  <2>2. DOMAIN heap[g].nodes \subseteq DOMAIN NodeAdded(heap[g], n).nodes
    BY <2>1 DEF NodeAdded, IsGraph
  <2>3. NodeAdded(heap[g], n).edges = heap[g].edges
    BY <2>1, NodeAddedIsGraph
  <2>4. Joined(NodeAdded(heap[g], n))
    BY <2>1, <2>2, <2>3 DEF Joined
  <2> QED
    BY <1>1, <2>1, <2>4 DEF AddNode, AllJoined
<1>2. ASSUME NEW g \in Graphs, NEW x \in EdgeChoices, AddEdge(g, x)
      PROVE  AllJoined'
  <2>1. x \in Edge /\ IsGraph(heap[g]) /\ Joined(heap[g]) /\ DOMAIN heap = Graphs
    BY GraphExecutorAssumption DEF IInv, Objects, AllJoined
  <2>2. Joined(EdgeAdded(heap[g], x))
    <3>1. CASE EdgeAdded(heap[g], x) = heap[g]
      BY <2>1, <3>1
    <3>2. CASE /\ EdgeAdded(heap[g], x) = [heap[g] EXCEPT !.edges = Append(@, x)]
               /\ {x.source, x.target} \subseteq DOMAIN heap[g].nodes
      <4>1. /\ EdgeAdded(heap[g], x).nodes = heap[g].nodes
            /\ EdgeAdded(heap[g], x).edges = Append(heap[g].edges, x)
        BY <2>1, <3>2 DEF IsGraph
      <4>2. heap[g].edges \in Seq(Edge)
        BY <2>1 DEF IsGraph
      <4>3. \A i \in DOMAIN Append(heap[g].edges, x) :
               \/ Append(heap[g].edges, x)[i] = x
               \/ i \in DOMAIN heap[g].edges /\ Append(heap[g].edges, x)[i] = heap[g].edges[i]
        BY <2>1, <4>2
      <4> SUFFICES ASSUME NEW i \in DOMAIN Append(heap[g].edges, x)
                   PROVE  {Append(heap[g].edges, x)[i].source, Append(heap[g].edges, x)[i].target}
                             \subseteq DOMAIN heap[g].nodes
        BY <4>1, Zenon DEF Joined
      <4>4. CASE Append(heap[g].edges, x)[i] = x
        BY <3>2, <4>4
      <4>5. CASE i \in DOMAIN heap[g].edges /\ Append(heap[g].edges, x)[i] = heap[g].edges[i]
        BY <2>1, <4>5, Zenon DEF Joined
      <4> QED
        BY <4>3, <4>4, <4>5
    <3> QED
      BY <3>1, <3>2 DEF EdgeAdded
  <2> QED
    BY <1>2, <2>1, <2>2 DEF AddEdge, AllJoined
<1>3. CASE heap' = heap
  BY <1>3 DEF AllJoined
<1>4. ASSUME NEW e \in Executions, NEW inputs, Call(e, Requests, inputs)
      PROVE  heap' = heap
  BY <1>4 DEF Call, Execute, Resume, ResumeMissing
<1>5. CASE Callers
  <2>1. ASSUME NEW e \in Streaming, NEW r \in Requests, NEW i \in Inputs, StreamingExecute(e, r, i)
        PROVE  heap' = heap
    BY <2>1 DEF StreamingExecute, Execute
  <2>2. CASE Edit
    BY <1>1, <1>2, <1>3, <2>2 DEF Edit, SaveGraph
  <2> QED
    BY <1>3, <1>4, <1>5, <2>1, <2>2 DEF Callers, Stop, DeleteCheckpoint
<1>6. ASSUME NEW e \in Executions, Run(e)
      PROVE  heap' = heap
  BY <1>6 DEF Run, RunStep, ResumeValidate, StartGraph, RunNode, NodeFails, EndGraph, Return,
              StreamStep, PublishNext, Panic, vars
<1>7. ASSUME NEW event, HandleEvent(event)
      PROVE  heap' = heap
  BY <1>7 DEF HandleEvent, vars
<1>8. CASE UNCHANGED allVars
  BY <1>3, <1>8 DEF allVars, vars
<1> QED
  BY <1>3, <1>5, <1>6, <1>7, <1>8 DEF Next

(* hasCycle (pkg/validation/graph.go) answers yes exactly when the graph   *)
(* has a cycle, for graphs of any size and shape, in whatever order their  *)
(* nodes are visited and their edges were added.  Of the graphs callers    *)
(* begin with it asks that their edges join their nodes: ValidateCoreGraph *)
(* refuses any other before it comes to hasCycle.                          *)
THEOREM CycleCheckFindsCycles == (\A g \in Literals : Joined(g)) => (Spec => []CycleCheckIsExact)
<1> SUFFICES ASSUME \A g \in Literals : Joined(g)
             PROVE  Spec => []CycleCheckIsExact
  OBVIOUS
<1>1. StreamInit => AllJoined
  BY DEF StreamInit, Init, AllJoined
<1>2. IInv /\ AllJoined /\ [Next]_allVars => AllJoined'
  BY GraphsStayJoined
<1>3. IInv /\ AllJoined => CycleCheckIsExact
  BY HasCycleIsExact DEF IInv, Objects, AllJoined, CycleCheckIsExact
<1> QED
  BY <1>1, <1>2, <1>3, Invariance, PTL DEF Spec
----------------------------------------------------------------------------
(* The metrics of the streaming executor *)

(* The first k pairs one after the other *)
Pairs(g, a, b, k) ==
    Len(g) = 2 * k /\ \A i \in 1 .. k : g[2 * i - 1] = a[i] /\ g[2 * i] = b[i]

LEMMA OneMorePair ==
    ASSUME NEW T, NEW g \in Seq(T), NEW a, NEW b, NEW k \in Nat \ {0}, Pairs(g, a, b, k - 1),
           a[k] \in T, b[k] \in T
    PROVE  Pairs(g \o <<a[k], b[k]>>, a, b, k)
<1> DEFINE tail == <<a[k], b[k]>>
           h == g \o tail
           m == 2 * (k - 1)
<1>1. tail \in Seq(T) /\ Len(tail) = 2 /\ tail[1] = a[k] /\ tail[2] = b[k]
  OBVIOUS
<1>2. Len(g) = m /\ m \in Nat /\ 2 * k = m + 2 /\ 2 * k - 1 = m + 1
  BY DEF Pairs
<1> HIDE DEF tail
<1>3. /\ Len(h) = m + 2 /\ h[m + 1] = a[k] /\ h[m + 2] = b[k]
      /\ \A i \in 1 .. m : h[i] = g[i]
  <2>1. /\ Len(h) = Len(g) + Len(tail)
        /\ \A i \in 1 .. Len(g) + Len(tail) :
              h[i] = IF i <= Len(g) THEN g[i] ELSE tail[i - Len(g)]
    BY <1>1, ConcatProperties
  <2> HIDE DEF h, m
  <2>2. /\ Len(h) = m + 2
        /\ \A i \in 1 .. m + 2 : h[i] = IF i <= m THEN g[i] ELSE tail[i - m]
    BY <1>1, <1>2, <2>1
  <2> QED
    BY <1>1, <1>2, <2>2
<1> HIDE DEF h
<1>4. ASSUME NEW i \in 1 .. k, i # k
      PROVE  h[2 * i - 1] = a[i] /\ h[2 * i] = b[i]
  <2>1. i \in 1 .. k - 1 /\ 2 * i \in 1 .. m /\ 2 * i - 1 \in 1 .. m
    BY <1>4
  <2>2. g[2 * i - 1] = a[i] /\ g[2 * i] = b[i]
    BY <2>1 DEF Pairs
  <2> HIDE DEF m
  <2> QED
    BY <1>3, <2>1, <2>2
<1>5. Len(h) = 2 * k /\ h[2 * k - 1] = a[k] /\ h[2 * k] = b[k]
  BY <1>2, <1>3, Zenon
<1>6. \A i \in 1 .. k : h[2 * i - 1] = a[i] /\ h[2 * i] = b[i]
  BY <1>4, <1>5, Zenon
<1> QED
  BY <1>5, <1>6, Zenon DEF Pairs, h, tail

LEMMA FlattenPairs ==
    ASSUME NEW T, NEW n \in Nat, NEW a \in [1 .. n -> T], NEW b \in [1 .. n -> T],
           NEW seqs \in Seq(Seq(T)), Len(seqs) = n, \A i \in 1 .. n : seqs[i] = <<a[i], b[i]>>
    PROVE  FlattenSeq(seqs) \in Seq(T) /\ Pairs(FlattenSeq(seqs), a, b, n)
<1>1. /\ Len(seqs) = n
      /\ \A i \in 1 .. n : seqs[i] = <<a[i], b[i]>>
  OBVIOUS
<1>2. CASE n = 0
  <2>1. FlattenSeq(seqs) = <<>>
    BY <1>1, <1>2 DEF FlattenSeq
  <2>2. Len(<<>>) = 2 * n /\ <<>> \in Seq(T) /\ 1 .. n = {}
    BY <1>2
  <2> QED
    BY <2>1, <2>2, Zenon DEF Pairs
<1>3. CASE n # 0
  <2>1. seqs # <<>>
    BY <1>1, <1>3
  <2> PICK f \in [1 .. Len(seqs) -> Seq(T)] :
           /\ f[1] = seqs[1]
           /\ \A i \in 2 .. Len(seqs) : f[i] = f[i - 1] \o seqs[i]
           /\ FlattenSeq(seqs) = f[Len(seqs)]
    BY <2>1, FlattenSteps
  <2>2. /\ f \in [1 .. n -> Seq(T)] /\ f[1] = seqs[1]
        /\ \A i \in 2 .. n : f[i] = f[i - 1] \o seqs[i]
        /\ FlattenSeq(seqs) = f[n]
    BY <1>1
  <2> DEFINE B == {k \in 1 .. n : ~Pairs(f[k], a, b, k)}
  <2>3. ASSUME NEW k \in 1 .. n, k = 1 \/ Pairs(f[k - 1], a, b, k - 1)
        PROVE  Pairs(f[k], a, b, k)
    <3>1. CASE k = 1
      <4>1. f[1] = <<a[1], b[1]>>
        BY <1>1, <2>2, <3>1
      <4>2. Len(f[1]) = 2 /\ f[1][1] = a[1] /\ f[1][2] = b[1]
        BY <4>1
      <4>3. \A i \in 1 .. 1 : i = 1
        OBVIOUS
      <4> QED
        BY <3>1, <4>2, <4>3 DEF Pairs
    <3>2. CASE k # 1
      <4>1. k - 1 \in 1 .. n /\ k \in 2 .. n /\ k \in Nat \ {0}
        BY <3>2
      <4>2. f[k] = f[k - 1] \o <<a[k], b[k]>> /\ f[k - 1] \in Seq(T) /\ a[k] \in T /\ b[k] \in T
        BY <1>1, <2>2, <4>1
      <4>3. Pairs(f[k - 1] \o <<a[k], b[k]>>, a, b, k)
        BY <2>3, <3>2, <4>1, <4>2, OneMorePair, Zenon
      <4> QED
        BY <4>2, <4>3, Zenon
    <3> QED
      BY <3>1, <3>2
  <2>4. B = {}
    <3> SUFFICES ASSUME B # {}
                 PROVE  FALSE
      OBVIOUS
    <3>1. PICK k \in B : \A j \in B : k <= j
      <4>1. B \in SUBSET (1 .. n)
        OBVIOUS
      <4> HIDE DEF B
      <4> QED
        BY <4>1, LeastNumber
    <3>2. k \in 1 .. n /\ ~Pairs(f[k], a, b, k)
      OBVIOUS
    <3>3. k # 1 => k - 1 \in 1 .. n /\ k - 1 \notin B
      <4> HIDE DEF B
      <4> QED
        BY <3>1, <3>2
    <3>4. k = 1 \/ Pairs(f[k - 1], a, b, k - 1)
      BY <3>3, Zenon
    <3> HIDE DEF B
    <3> QED
      BY <2>3, <3>2, <3>4
  <2>5. n \in 1 .. n
    BY <1>3
  <2>6. Pairs(f[n], a, b, n)
    BY <2>4, <2>5, Zenon
  <2> QED
    BY <2>2, <2>5, <2>6
<1> QED
  BY <1>2, <1>3

AnyEvent == [type : MetricTypes \cup {"node_started"}, exec : Streaming, node : Ids]
Events == [type : MetricTypes, exec : Streaming, node : Ids]

(* The events of a call that has returned *)
LEMMA EventsListed ==
    ASSUME NEW e \in Streaming, exec[e].steps \in Seq(Ids)
    PROVE  /\ EventsOf(e) \in Seq(AnyEvent)
           /\ IF exec[e].status = "failed"
              THEN Len(EventsOf(e)) = 1 /\ EventsOf(e)[1] = Event("failed", e, NoId)
              ELSE /\ Len(EventsOf(e)) = 2 * Len(exec[e].steps) + 1
                   /\ EventsOf(e)[Len(EventsOf(e))] = Event("completed", e, NoId)
                   /\ \A i \in 1 .. Len(exec[e].steps) :
                         /\ EventsOf(e)[2 * i - 1] = Event("node_started", e, exec[e].steps[i])
                         /\ EventsOf(e)[2 * i] = Event("node_finished", e, exec[e].steps[i])
<1> DEFINE steps == exec[e].steps
           n == Len(steps)
           a == [i \in 1 .. n |-> Event("node_started", e, steps[i])]
           b == [i \in 1 .. n |-> Event("node_finished", e, steps[i])]
           seqs == [i \in 1 .. n |-> <<a[i], b[i]>>]
           flat == FlattenSeq(seqs)
           last == Event("completed", e, NoId)
<1>1. n \in Nat /\ DOMAIN steps = 1 .. n /\ \A i \in 1 .. n : steps[i] \in Ids
  OBVIOUS
<1>2. a \in [1 .. n -> AnyEvent] /\ b \in [1 .. n -> AnyEvent]
  BY <1>1 DEF AnyEvent, Event, MetricTypes
<1>3. last \in AnyEvent /\ Event("failed", e, NoId) \in AnyEvent
  BY DEF AnyEvent, Event, MetricTypes, Ids
<1>4. EventsOf(e) = IF exec[e].status = "failed" THEN <<Event("failed", e, NoId)>>
                                                ELSE flat \o <<last>>
  <2>1. [i \in DOMAIN steps |-> <<Event("node_started", e, steps[i]), Event("node_finished", e, steps[i])>>]
          = seqs
    BY <1>1
  <2> HIDE DEF a, b, last, n, seqs
  <2> QED
    BY <2>1 DEF EventsOf, last
<1> HIDE DEF a, b, last, n
<1>5. /\ flat \in Seq(AnyEvent) /\ Len(flat) = 2 * n
      /\ \A i \in 1 .. n : flat[2 * i - 1] = a[i] /\ flat[2 * i] = b[i]
  <2>1. /\ seqs \in Seq(Seq(AnyEvent)) /\ Len(seqs) = n
        /\ \A i \in 1 .. n : seqs[i] = <<a[i], b[i]>>
    BY <1>1, <1>2
  <2> HIDE DEF seqs
  <2>2. n \in Nat
    BY <1>1
  <2>3. FlattenSeq(seqs) \in Seq(AnyEvent) /\ Pairs(FlattenSeq(seqs), a, b, n)
    BY <1>2, <2>1, <2>2, FlattenPairs
  <2> QED
    BY <2>3, Zenon DEF Pairs
<1> HIDE DEF flat, seqs
<1>6. CASE exec[e].status = "failed"
  BY <1>3, <1>4, <1>6
<1>7. CASE exec[e].status # "failed"
  <2>1. EventsOf(e) = flat \o <<last>>
    BY <1>4, <1>7
  <2>2. /\ EventsOf(e) \in Seq(AnyEvent) /\ Len(EventsOf(e)) = 2 * n + 1
        /\ EventsOf(e)[2 * n + 1] = last
        /\ \A k \in 1 .. 2 * n : EventsOf(e)[k] = flat[k]
    BY <1>1, <1>3, <1>5, <2>1
  <2>3. ASSUME NEW i \in 1 .. n
        PROVE  /\ EventsOf(e)[2 * i - 1] = Event("node_started", e, steps[i])
               /\ EventsOf(e)[2 * i] = Event("node_finished", e, steps[i])
    <3>1. 2 * i - 1 \in 1 .. 2 * n /\ 2 * i \in 1 .. 2 * n
      BY <1>1
    <3> QED
      BY <1>5, <2>2, <3>1 DEF a, b
  <2> QED
    BY <1>7, <2>2, <2>3 DEF n, last
<1> QED
  BY <1>6, <1>7

(* Of the elements of C, how many copies are in the bag B; and that D has  *)
(* n copies of x more, or n more of the elements of C, than B.             *)
Adds(B, x, n, D) == n \in Nat \ {0} /\ D = B (+) [y \in {x} |-> n]
Part(B, C) == SumFunctionOnSet(B, DOMAIN B \cap C)
Gains(B, D, C, n) == Part(B, C) \in Nat /\ Part(D, C) = Part(B, C) + n

(* What has been published: the start of a call is its event number 0. *)
Sent == {s \in Streaming \X Nat : stage[s[1]] # "idle" /\ s[2] <= published[s[1]]}
EventAt(s) == IF s[2] = 0 THEN Event("started", s[1], NoId) ELSE EventsOf(s[1])[s[2]]

(* Of a class of events, how many have been published, and how many of the *)
(* goroutines that handle them are still to run. *)
SentOf(C) == {s \in Sent : EventAt(s) \in C}
Pending(C) == Part(inflight, C)

OfType(t) == {x \in Events : x.type = t}
Finished(n) == {x \in Events : x.type = "node_finished" /\ x.node = n}

StreamTypes ==
    /\ subscriptions \in Nat
    /\ stage \in [Streaming -> {"idle", "running", "panicked"}]
    /\ published \in [Streaming -> Nat]
    /\ eventCounts \in [MetricTypes -> Nat] /\ nodeDurations \in [NodeIds -> Nat]

(* Events are published of calls that have returned with a response, which *)
(* nothing changes any more. *)
Publishes ==
    /\ \A e \in Executions :
          exec[e].pc = "returned" => exec[e].status \in {"none", "completed", "failed"}
    /\ \A e \in Streaming : published[e] > 0 =>
          /\ stage[e] = "running" /\ exec[e].pc = "returned" /\ exec[e].status # "none"
          /\ published[e] <= Len(EventsOf(e))

GoroutinesPending ==
    /\ inflight \in [DOMAIN inflight -> Nat \ {0}] /\ IsFiniteSet(DOMAIN inflight)
    /\ \A x \in DOMAIN inflight : x \in Events /\ \E s \in Sent : EventAt(s) = x

(* Each event published is counted, once for each subscription, or one of  *)
(* its goroutines is still to count it. *)
Tallied ==
    /\ IsFiniteSet(Sent)
    /\ \A t \in MetricTypes :
          eventCounts[t] + Pending(OfType(t)) = subscriptions * Cardinality(SentOf(OfType(t)))
    /\ \A n \in NodeIds :
          nodeDurations[n] + Pending(Finished(n)) = subscriptions * Cardinality(SentOf(Finished(n)))

TimesKept ==
    /\ executionTimes \subseteq Streaming
    /\ \A e \in executionTimes : \E s \in Sent : EventAt(s) = Event("completed", e, NoId)
    /\ \A e \in Streaming, s \in Sent :
          (subscriptions > 0 /\ EventAt(s) = Event("completed", e, NoId)) =>
             e \in executionTimes \/ Event("completed", e, NoId) \in DOMAIN inflight

MInv == StreamTypes /\ Publishes /\ GoroutinesPending /\ Tallied /\ TimesKept

(* A call that has returned stays what it is, and returns with one of      *)
(* three outcomes.                                                         *)
LEMMA CallChanges ==
    ASSUME IInv, NEW e \in Executions, NEW inputs, Call(e, Requests, inputs) \/ RunStep(e)
    PROVE  /\ exec[e].pc # "returned"
           /\ \E y : /\ exec' = [exec EXCEPT ![e] = y]
                     /\ y.pc = "returned" => y.status \in {"none", "completed", "failed"}
<1>1. CASE \E r \in Requests, i \in inputs : Execute(e, r, i)
  <2>1. PICK r, i : Execute(e, r, i)
    BY <1>1
  <2>2. PICK config, input :
           LET s == [Idle EXCEPT !.pc = "start", !.op = "execute", !.config = config,
                            !.state = input, !.status = "running", !.validated = heap[repo]]
               t == [Idle EXCEPT !.pc = "returned", !.op = "execute"]
           IN  exec' = [exec EXCEPT ![e] = s] \/ exec' = [exec EXCEPT ![e] = t]
    BY <2>1 DEF Execute
  <2> DEFINE s == [Idle EXCEPT !.pc = "start", !.op = "execute", !.config = config,
                            !.state = input, !.status = "running", !.validated = heap[repo]]
             t == [Idle EXCEPT !.pc = "returned", !.op = "execute"]
  <2>3. s.pc = "start" /\ t.status = "none"
    BY DEF Idle
  <2>4. exec[e].pc # "returned" /\ (exec' = [exec EXCEPT ![e] = s] \/ exec' = [exec EXCEPT ![e] = t])
    BY <2>1, <2>2 DEF Execute
  <2> HIDE DEF s, t
  <2> QED
    BY <2>3, <2>4
<1>2. CASE \E r \in Requests, c \in checkpoints :
              \E loaded \in LoadedConfigs(c) : Resume(e, c, loaded, r)
  <2>1. PICK config, c :
           LET y == [Idle EXCEPT !.pc = "validate", !.op = "resume", !.config = config,
                           !.current = c.step, !.state = c.state, !.status = "running",
                           !.applied = c.applied, !.resumes = c.resumes + 1]
           IN  exec' = [exec EXCEPT ![e] = y]
    BY <1>2 DEF Resume
  <2> DEFINE y == [Idle EXCEPT !.pc = "validate", !.op = "resume", !.config = config,
                           !.current = c.step, !.state = c.state, !.status = "running",
                           !.applied = c.applied, !.resumes = c.resumes + 1]
  <2>2. y.pc = "validate" /\ exec' = [exec EXCEPT ![e] = y] /\ exec[e].pc # "returned"
    BY <1>2, <2>1 DEF Idle, Resume
  <2> HIDE DEF y
  <2> QED
    BY <2>2
<1>3. CASE ResumeMissing(e)
  <2> DEFINE y == [Idle EXCEPT !.pc = "returned", !.op = "resume"]
  <2>1. y.status = "none" /\ exec' = [exec EXCEPT ![e] = y] /\ exec[e].pc # "returned"
    BY <1>3 DEF Idle, ResumeMissing
  <2> HIDE DEF y
  <2> QED
    BY <2>1
<1>4. CASE ResumeValidate(e)
  <2> DEFINE y == [exec[e] EXCEPT !.pc = IF Approved(exec[e].config) THEN "start" ELSE "returned",
                                  !.status = IF Approved(exec[e].config) THEN @ ELSE "none",
                                  !.validated = heap[repo]]
  <2>1. exec[e].pc = "validate" /\ exec' = [exec EXCEPT ![e] = y]
    BY <1>4 DEF ResumeValidate
  <2>2. DOMAIN exec[e] = DOMAIN Idle
    BY DEF IInv, Calls, CallIsSound
  <2>3. y.pc = "returned" => y.status = "none"
    BY <2>2 DEF Idle
  <2> HIDE DEF y
  <2> QED
    BY <2>1, <2>3
<1>5. CASE StartGraph(e)
  <2>1. PICK n, g : exec' = [exec EXCEPT ![e].pc = "run", ![e].graph = g, ![e].node = n]
    BY <1>5 DEF StartGraph
  <2> DEFINE y == [exec[e] EXCEPT !.pc = "run", !.graph = g, !.node = n]
  <2>2. exec[e].pc = "start" /\ exec' = [exec EXCEPT ![e] = y]
    BY <1>5, <2>1 DEF StartGraph
  <2>3. DOMAIN exec[e] = DOMAIN Idle
    BY DEF IInv, Calls, CallIsSound
  <2>4. y.pc = "run"
    BY <2>3 DEF Idle
  <2> HIDE DEF y
  <2> QED
    BY <2>2, <2>4
<1>6. CASE RunNode(e)
  <2> DEFINE x == exec[e]
             state == Processed(x.node, x.state)
             edges == heap[x.graph].edges
             next == NextEdges(x.node, edges, state)
             y == [x EXCEPT !.state = state, !.step = @ + 1, !.current = @ + 1, !.applied = @ + 1,
                            !.steps = Append(@, x.node.id),
                            !.node = IF next = {} THEN NoNode ELSE Placeholder(edges[Min(next)].target)]
  <2>1. x.pc = "run" /\ exec' = [exec EXCEPT ![e] = y]
    BY <1>6 DEF RunNode, MayRun
  <2>2. y.pc = x.pc
    OBVIOUS
  <2> HIDE DEF y
  <2> QED
    BY <2>1, <2>2
<1>7. ASSUME NEW status \in {"completed", "failed"}, exec[e].pc = "run", Return(e, status)
      PROVE  \E y : /\ exec' = [exec EXCEPT ![e] = y]
                    /\ y.pc = "returned" => y.status \in {"none", "completed", "failed"}
  <2> DEFINE y == [Idle EXCEPT !.pc = "returned", !.op = exec[e].op,
                               !.status = status, !.steps = exec[e].steps]
  <2>1. y.status = status /\ exec' = [exec EXCEPT ![e] = y]
    BY <1>7 DEF Idle, Return
  <2> HIDE DEF y
  <2> QED
    BY <2>1
<1>8. CASE NodeFails(e) \/ EndGraph(e)
  BY <1>7, <1>8 DEF NodeFails, EndGraph, MayRun
<1> QED
  BY <1>1, <1>2, <1>3, <1>4, <1>5, <1>6, <1>8 DEF Call, RunStep

(* Calls that go on leave what is published as it is. *)
LEMMA SentStays ==
    ASSUME MInv, UNCHANGED <<stage, published>>,
           \A e \in Streaming : published[e] > 0 => exec'[e] = exec[e]
    PROVE  /\ Sent' = Sent /\ \A s \in Sent : EventAt(s)' = EventAt(s)
           /\ \A C : SentOf(C)' = SentOf(C)
<1>1. Sent' = Sent
  BY DEF Sent
<1>2. ASSUME NEW s \in Sent
      PROVE  EventAt(s)' = EventAt(s)
  <2>1. CASE s[2] = 0
    BY <2>1 DEF EventAt, Event
  <2>2. CASE s[2] # 0
    <3>1. s[1] \in Streaming /\ s[2] \in Nat /\ s[2] <= published[s[1]]
      BY DEF Sent
    <3>2. published[s[1]] \in Nat
      BY <3>1 DEF MInv, StreamTypes
    <3>3. exec'[s[1]] = exec[s[1]]
      BY <2>2, <3>1, <3>2
    <3>4. EventsOf(s[1])' = EventsOf(s[1])
      BY <3>3, Zenon DEF EventsOf, Event
    <3> QED
      BY <2>2, <3>4, Zenon DEF EventAt
  <2> QED
    BY <2>1, <2>2
<1>3. ASSUME NEW C
      PROVE  SentOf(C)' = SentOf(C)
  BY <1>1, <1>2 DEF SentOf
<1> QED
  BY <1>1, <1>2, <1>3

(* The executor underneath moves on. *)
LEMMA BaseStepKeeps ==
    ASSUME MInv, UNCHANGED streamVars,
           \A e \in Executions : exec[e].pc = "returned" => exec'[e] = exec[e],
           \A e \in Executions :
              exec'[e].pc = "returned" => exec'[e].status \in {"none", "completed", "failed"}
    PROVE  MInv'
<1>1. /\ UNCHANGED <<subscriptions, stage, published, inflight>>
      /\ UNCHANGED <<eventCounts, nodeDurations, executionTimes>>
  BY DEF streamVars
<1>2. \A e \in Streaming : published[e] > 0 => exec'[e] = exec[e]
  BY StreamingAssumption DEF MInv, Publishes
<1>3. /\ Sent' = Sent /\ \A s \in Sent : EventAt(s)' = EventAt(s)
      /\ \A C : SentOf(C)' = SentOf(C)
  BY <1>1, <1>2, SentStays
<1>4. StreamTypes'
  BY <1>1 DEF MInv, StreamTypes
<1>5. Publishes'
  <2>1. \A e \in Streaming : published[e] > 0 => EventsOf(e)' = EventsOf(e)
    BY <1>2, Zenon DEF EventsOf, Event
  <2> QED
    BY <1>1, <1>2, <2>1 DEF MInv, Publishes
<1>6. GoroutinesPending'
  <2>1. /\ inflight \in [DOMAIN inflight -> Nat \ {0}] /\ IsFiniteSet(DOMAIN inflight)
        /\ \A x \in DOMAIN inflight : x \in Events /\ \E s \in Sent : EventAt(s) = x
    BY DEF MInv, GoroutinesPending
  <2>2. \A x \in DOMAIN inflight : \E s \in Sent' : EventAt(s)' = x
    BY <1>3, <2>1
  <2> QED
    BY <1>1, <2>1, <2>2 DEF GoroutinesPending
<1>7. Tallied'
  <2>1. \A C : Pending(C)' = Pending(C)
    BY <1>1 DEF Pending
  <2> QED
    BY <1>1, <1>3, <2>1 DEF MInv, Tallied
<1>8. TimesKept'
  <2>1. /\ executionTimes \subseteq Streaming
        /\ \A e \in executionTimes : \E s \in Sent : EventAt(s) = Event("completed", e, NoId)
        /\ \A e \in Streaming, s \in Sent :
              (subscriptions > 0 /\ EventAt(s) = Event("completed", e, NoId)) =>
                 e \in executionTimes \/ Event("completed", e, NoId) \in DOMAIN inflight
    BY DEF MInv, TimesKept
  <2>2. \A e \in Streaming : Event("completed", e, NoId)' = Event("completed", e, NoId)
    BY DEF Event
  <2>3. \A e \in executionTimes : \E s \in Sent' : EventAt(s)' = Event("completed", e, NoId)
    BY <1>3, <2>1
  <2>4. \A e \in Streaming, s \in Sent' :
           (subscriptions' > 0 /\ EventAt(s)' = Event("completed", e, NoId)) =>
              e \in executionTimes' \/ Event("completed", e, NoId) \in DOMAIN inflight'
    BY <1>1, <1>3, <2>1
  <2> QED
    BY <1>1, <2>1, <2>2, <2>3, <2>4 DEF TimesKept, Event
<1> QED
  BY <1>4, <1>5, <1>6, <1>7, <1>8 DEF MInv

(* Of the elements in C, a bag holds n more, or one less. *)
LEMMA BagGrows ==
    ASSUME NEW B, B \in [DOMAIN B -> Nat \ {0}], IsFiniteSet(DOMAIN B), NEW x, NEW n,
           NEW D, Adds(B, x, n, D)
    PROVE  /\ DOMAIN D = DOMAIN B \cup {x} /\ D \in [DOMAIN D -> Nat \ {0}]
           /\ IsFiniteSet(DOMAIN D)
           /\ \A C : Gains(B, D, C, IF x \in C THEN n ELSE 0)
<1> SUFFICES ASSUME NEW C
             PROVE  /\ DOMAIN D = DOMAIN B \cup {x} /\ D \in [DOMAIN D -> Nat \ {0}]
                    /\ IsFiniteSet(DOMAIN D) /\ SumFunctionOnSet(B, DOMAIN B \cap C) \in Nat
                    /\ SumFunctionOnSet(D, DOMAIN D \cap C)
                         = SumFunctionOnSet(B, DOMAIN B \cap C) + (IF x \in C THEN n ELSE 0)
  BY Zenon DEF Gains, Part
<1> DEFINE S == DOMAIN B \cap C
<1>0. n \in Nat \ {0}
  BY DEF Adds
<1> USE <1>0
<1>1. /\ DOMAIN D = DOMAIN B \cup {x}
      /\ \A y \in DOMAIN B \ {x} : D[y] = B[y]
      /\ D[x] = (IF x \in DOMAIN B THEN B[x] ELSE 0) + n
      /\ D = [y \in DOMAIN B \cup {x} |-> D[y]]
  BY DEF (+), Adds
<1>2. IsFiniteSet(DOMAIN D)
  <2>1. IsFiniteSet(DOMAIN B \cup {x})
    BY FS_AddElement, Zenon
  <2> QED
    BY <1>1, <2>1, Zenon
<1>3. \A y \in DOMAIN B : B[y] \in Nat \ {0}
  OBVIOUS
<1>4. D[x] \in Nat \ {0} /\ (x \in DOMAIN B => D[x] = B[x] + n) /\ (x \notin DOMAIN B => D[x] = n)
  BY <1>1, <1>3
<1>5. D \in [DOMAIN D -> Nat \ {0}]
  BY <1>1, <1>3, <1>4
<1>6. IsFiniteSet(S) /\ Weights(B, S)
  <2>1. S \subseteq DOMAIN B
    OBVIOUS
  <2> HIDE DEF S
  <2>2. Weights(B, S)
    BY <1>3, <2>1 DEF Weights
  <2> QED
    BY <2>1, <2>2, FS_Subset, Zenon
<1>7. SumFunctionOnSet(B, S) \in Nat
  BY <1>6, SumNat
<1>8. CASE x \notin C
  <2>1. DOMAIN D \cap C = S /\ \A y \in S : B[y] = D[y]
    BY <1>1, <1>8
  <2>2. SumFunctionOnSet(B, S) = SumFunctionOnSet(D, S)
    BY <1>6, <2>1, SumSame
  <2> HIDE DEF S
  <2>3. SumFunctionOnSet(D, DOMAIN D \cap C) = SumFunctionOnSet(B, S) + 0
    <3>1. SumFunctionOnSet(D, DOMAIN D \cap C) = SumFunctionOnSet(B, S)
      BY <2>1, <2>2, Zenon
    <3> QED
      BY <1>7, <3>1
  <2> QED
    BY <1>1, <1>2, <1>5, <1>7, <1>8, <2>3, Zenon DEF S
<1>9. CASE x \in C /\ x \in DOMAIN B
  <2>1. DOMAIN D \cap C = S /\ x \in S /\ \A y \in S \ {x} : B[y] = D[y]
    BY <1>1, <1>9
  <2>2. D[x] \in Nat /\ B[x] \in Nat /\ D[x] = B[x] + n
    BY <1>3, <1>4, <1>9
  <2> HIDE DEF S
  <2>3. SumFunctionOnSet(D, S) = SumFunctionOnSet(B, S) - B[x] + D[x]
    BY <1>6, <2>1, <2>2, SumChange
  <2>4. SumFunctionOnSet(D, S) = SumFunctionOnSet(B, S) + n
    BY <1>7, <2>2, <2>3
  <2>5. SumFunctionOnSet(D, DOMAIN D \cap C) = SumFunctionOnSet(B, S) + n
    BY <2>1, <2>4, Zenon
  <2> QED
    BY <1>1, <1>2, <1>5, <1>7, <1>9, <2>5, Zenon DEF S
<1>10. CASE x \in C /\ x \notin DOMAIN B
  <2>1. DOMAIN D \cap C = S \cup {x} /\ x \notin S /\ \A y \in S : B[y] = D[y]
    BY <1>1, <1>10
  <2>2. D[x] \in Nat /\ D[x] = n
    BY <1>4, <1>10
  <2> HIDE DEF S
  <2>3. SumFunctionOnSet(B, S) = SumFunctionOnSet(D, S)
    BY <1>6, <2>1, SumSame
  <2>4. Weights(D, S)
    BY <1>6, <2>1 DEF Weights
  <2>5. SumFunctionOnSet(D, S \cup {x}) = D[x] + SumFunctionOnSet(D, S)
    BY <1>6, <2>1, <2>2, <2>4, SumAdd
  <2>6. SumFunctionOnSet(D, S \cup {x}) = SumFunctionOnSet(B, S) + n
    BY <1>7, <2>2, <2>3, <2>5
  <2>7. SumFunctionOnSet(D, DOMAIN D \cap C) = SumFunctionOnSet(B, S) + n
    BY <2>1, <2>6, Zenon
  <2> QED
    BY <1>1, <1>2, <1>5, <1>7, <1>10, <2>7, Zenon DEF S
<1> QED
  BY <1>8, <1>9, <1>10

LEMMA BagShrinks ==
    ASSUME NEW B, B \in [DOMAIN B -> Nat \ {0}], IsFiniteSet(DOMAIN B), NEW x \in DOMAIN B,
           NEW D, D = B (-) SetToBag({x})
    PROVE  /\ DOMAIN D \subseteq DOMAIN B /\ DOMAIN B \ {x} \subseteq DOMAIN D
           /\ D \in [DOMAIN D -> Nat \ {0}] /\ IsFiniteSet(DOMAIN D)
           /\ \A C : Part(D, C) \in Nat /\ Part(B, C) = Part(D, C) + (IF x \in C THEN 1 ELSE 0)
<1> SUFFICES ASSUME NEW C
             PROVE  /\ DOMAIN D \subseteq DOMAIN B /\ DOMAIN B \ {x} \subseteq DOMAIN D
                    /\ D \in [DOMAIN D -> Nat \ {0}]
                    /\ IsFiniteSet(DOMAIN D) /\ SumFunctionOnSet(D, DOMAIN D \cap C) \in Nat
                    /\ SumFunctionOnSet(B, DOMAIN B \cap C)
                         = SumFunctionOnSet(D, DOMAIN D \cap C) + (IF x \in C THEN 1 ELSE 0)
  BY Zenon DEF Part
<1> DEFINE S == DOMAIN D \cap C
<1>0. B[x] \in Nat \ {0} /\ \A y \in DOMAIN B : B[y] \in Nat \ {0}
  OBVIOUS
<1> DEFINE E == [y \in DOMAIN B |-> IF y \in {x} THEN B[y] - 1 ELSE B[y]]
<1>a. D = [y \in {z \in DOMAIN E : E[z] > 0} |-> E[y]]
  <2>1. DOMAIN SetToBag({x}) = {x} /\ SetToBag({x})[x] = 1
    BY DEF SetToBag
  <2>2. E = [y \in DOMAIN B |-> IF y \in DOMAIN SetToBag({x}) THEN B[y] - SetToBag({x})[y] ELSE B[y]]
    BY <2>1
  <2> HIDE DEF E
  <2> QED
    BY <2>2, Zenon DEF (-)
<1>b. /\ DOMAIN E = DOMAIN B /\ E[x] = B[x] - 1
      /\ \A y \in DOMAIN B \ {x} : E[y] = B[y] /\ E[y] > 0
  BY <1>0
<1> HIDE DEF E
<1>1. CASE B[x] = 1
  <2>1. D = [y \in DOMAIN B \ {x} |-> B[y]]
    <3>1. {z \in DOMAIN E : E[z] > 0} = DOMAIN B \ {x}
      BY <1>1, <1>b
    <3> QED
      BY <1>a, <1>b, <3>1
  <2>2. DOMAIN D = DOMAIN B \ {x} /\ D \in [DOMAIN D -> Nat \ {0}] /\ \A y \in DOMAIN D : D[y] = B[y]
    BY <2>1
  <2>3. IsFiniteSet(DOMAIN D) /\ S \subseteq DOMAIN D
    <3>1. IsFiniteSet(DOMAIN B \ {x})
      BY FS_RemoveElement, Zenon
    <3> QED
      BY <2>2, <3>1
  <2>4. IsFiniteSet(S) /\ Weights(D, S) /\ Weights(B, S)
    <3> HIDE DEF S
    <3>1. Weights(D, S) /\ Weights(B, S)
      BY <2>2, <2>3 DEF Weights
    <3> QED
      BY <2>3, <3>1, FS_Subset, Zenon
  <2>5. SumFunctionOnSet(D, S) \in Nat /\ SumFunctionOnSet(D, S) = SumFunctionOnSet(B, S)
    <3>1. \A y \in S : D[y] = B[y]
      BY <2>2
    <3> QED
      BY <2>4, <3>1, SumNat, SumSame
  <2>6. CASE x \in C
    <3>1. DOMAIN B \cap C = S \cup {x} /\ x \notin S
      BY <2>2, <2>6
    <3> HIDE DEF S
    <3>2. SumFunctionOnSet(B, S \cup {x}) = B[x] + SumFunctionOnSet(B, S)
      BY <1>0, <2>4, <3>1, SumAdd
    <3>3. SumFunctionOnSet(B, S \cup {x}) = SumFunctionOnSet(D, S) + 1
      BY <1>1, <2>5, <3>2
    <3>4. SumFunctionOnSet(B, DOMAIN B \cap C) = SumFunctionOnSet(D, S) + 1
      BY <3>1, <3>3, Zenon
    <3> QED
      BY <2>2, <2>3, <2>5, <2>6, <3>4 DEF S
  <2>7. CASE x \notin C
    <3>1. DOMAIN B \cap C = S
      BY <2>2, <2>7
    <3> HIDE DEF S
    <3>2. SumFunctionOnSet(B, DOMAIN B \cap C) = SumFunctionOnSet(D, S) + 0
      BY <2>5, <3>1
    <3> QED
      BY <2>2, <2>3, <2>5, <2>7, <3>2 DEF S
  <2> QED
    BY <2>6, <2>7
<1>2. CASE B[x] # 1
  <2>1. D = [y \in DOMAIN B |-> E[y]]
    <3>1. {z \in DOMAIN E : E[z] > 0} = DOMAIN B
      BY <1>0, <1>2, <1>b
    <3> QED
      BY <1>a, <3>1
  <2>2. /\ DOMAIN D = DOMAIN B /\ D[x] = B[x] - 1 /\ D[x] \in Nat \ {0}
        /\ \A y \in DOMAIN B \ {x} : D[y] = B[y]
    <3>1. /\ DOMAIN D = DOMAIN B /\ D[x] = E[x] /\ \A y \in DOMAIN B \ {x} : D[y] = E[y]
      BY <2>1
    <3>2. B[x] - 1 \in Nat \ {0}
      BY <1>0, <1>2
    <3> QED
      BY <1>b, <3>1, <3>2, Zenon
  <2>3. D \in [DOMAIN D -> Nat \ {0}] /\ IsFiniteSet(DOMAIN D)
    <3>1. \A y \in DOMAIN B : D[y] \in Nat \ {0}
      BY <2>2
    <3> QED
      BY <2>1, <2>2, <3>1
  <2>4. S = DOMAIN B \cap C /\ S \subseteq DOMAIN D
    BY <2>2
  <2> HIDE DEF S
  <2>5. IsFiniteSet(S) /\ Weights(D, S) /\ Weights(B, S)
    <3>1. Weights(D, S) /\ Weights(B, S)
      BY <2>2, <2>3, <2>4 DEF Weights
    <3> QED
      BY <2>3, <2>4, <3>1, FS_Subset, Zenon
  <2>6. SumFunctionOnSet(D, S) \in Nat
    BY <2>5, SumNat
  <2>7. CASE x \in C
    <3>1. x \in S /\ \A y \in S \ {x} : D[y] = B[y]
      BY <2>2, <2>4, <2>7
    <3>2. SumFunctionOnSet(B, S) = SumFunctionOnSet(D, S) - D[x] + B[x]
      BY <1>0, <2>5, <3>1, SumChange
    <3>3. SumFunctionOnSet(B, S) = SumFunctionOnSet(D, S) + 1
      BY <1>0, <2>2, <2>6, <3>2
    <3> QED
      BY <2>2, <2>3, <2>4, <2>6, <2>7, <3>3 DEF S
  <2>8. CASE x \notin C
    <3>1. \A y \in S : D[y] = B[y]
      BY <2>2, <2>4, <2>8
    <3>2. SumFunctionOnSet(D, S) = SumFunctionOnSet(B, S)
      BY <2>5, <3>1, SumSame
    <3>3. SumFunctionOnSet(B, S) = SumFunctionOnSet(D, S) + 0
      BY <2>6, <3>2
    <3> QED
      BY <2>2, <2>3, <2>4, <2>6, <2>8, <3>3 DEF S
  <2> QED
    BY <2>7, <2>8
<1> QED
  BY <1>1, <1>2

(* What is under way grows when an event is published, and shrinks when    *)
(* one is handled.                                                         *)
LEMMA InflightGrows ==
    ASSUME inflight \in [DOMAIN inflight -> Nat \ {0}], IsFiniteSet(DOMAIN inflight), NEW x,
           Adds(inflight, x, subscriptions, inflight')
    PROVE  /\ DOMAIN inflight' = DOMAIN inflight \cup {x}
           /\ inflight' \in [DOMAIN inflight' -> Nat \ {0}] /\ IsFiniteSet(DOMAIN inflight')
           /\ \A C : Pending(C) \in Nat /\ Pending(C)' = Pending(C) + (IF x \in C THEN subscriptions ELSE 0)
<1>1. /\ DOMAIN inflight' = DOMAIN inflight \cup {x} /\ inflight' \in [DOMAIN inflight' -> Nat \ {0}]
      /\ IsFiniteSet(DOMAIN inflight')
      /\ \A C : Gains(inflight, inflight', C, IF x \in C THEN subscriptions ELSE 0)
  BY BagGrows
<1> QED
  BY <1>1, Zenon DEF Pending, Gains

LEMMA InflightShrinks ==
    ASSUME inflight \in [DOMAIN inflight -> Nat \ {0}], IsFiniteSet(DOMAIN inflight),
           NEW x \in DOMAIN inflight, inflight' = inflight (-) SetToBag({x})
    PROVE  /\ DOMAIN inflight' \subseteq DOMAIN inflight /\ DOMAIN inflight \ {x} \subseteq DOMAIN inflight'
           /\ inflight' \in [DOMAIN inflight' -> Nat \ {0}] /\ IsFiniteSet(DOMAIN inflight')
           /\ \A C : Pending(C)' \in Nat /\ Pending(C) = Pending(C)' + (IF x \in C THEN 1 ELSE 0)
<1>1. /\ DOMAIN inflight' \subseteq DOMAIN inflight /\ DOMAIN inflight \ {x} \subseteq DOMAIN inflight'
      /\ inflight' \in [DOMAIN inflight' -> Nat \ {0}] /\ IsFiniteSet(DOMAIN inflight')
      /\ \A C : /\ Part(inflight', C) \in Nat
               /\ Part(inflight, C) = Part(inflight', C) + (IF x \in C THEN 1 ELSE 0)
  BY BagShrinks
<1> QED
  BY <1>1, Zenon DEF Pending

(* One event more is published ... *)
LEMMA PublishTallies ==
    ASSUME MInv, NEW s \in Streaming \X Nat, NEW x \in AnyEvent, s \notin Sent, Sent' = Sent \cup {s},
           \A r \in Sent : EventAt(r)' = EventAt(r), EventAt(s)' = x,
           inflight' = Published(x), NEW C \in SUBSET Events
    PROVE  /\ Pending(C) \in Nat /\ Pending(C)' = Pending(C) + (IF x \in C THEN subscriptions ELSE 0)
           /\ Cardinality(SentOf(C)) \in Nat
           /\ Cardinality(SentOf(C)') = Cardinality(SentOf(C)) + (IF x \in C THEN 1 ELSE 0)
<1>1. /\ inflight \in [DOMAIN inflight -> Nat \ {0}] /\ IsFiniteSet(DOMAIN inflight)
      /\ subscriptions \in Nat /\ IsFiniteSet(Sent)
  BY DEF MInv, StreamTypes, GoroutinesPending, Tallied
<1>2. /\ IsFiniteSet(SentOf(C)) /\ Cardinality(SentOf(C)) \in Nat
      /\ Cardinality(SentOf(C)') = Cardinality(SentOf(C)) + (IF x \in C THEN 1 ELSE 0)
  <2>1. SentOf(C) \subseteq Sent /\ s \notin SentOf(C)
    BY DEF SentOf
  <2>2. IsFiniteSet(SentOf(C)) /\ Cardinality(SentOf(C)) \in Nat
    BY <1>1, <2>1, FS_Subset, FS_CardinalityType
  <2>3. SentOf(C)' = IF x \in C THEN SentOf(C) \cup {s} ELSE SentOf(C)
    BY DEF SentOf
  <2>4. Cardinality(SentOf(C) \cup {s}) = Cardinality(SentOf(C)) + 1
    BY <2>1, <2>2, FS_AddElement
  <2> QED
    BY <2>2, <2>3, <2>4
<1>3. CASE x.type \in MetricTypes /\ subscriptions > 0
  <2>1. Adds(inflight, x, subscriptions, inflight')
    BY <1>1, <1>3 DEF Published, Adds
  <2> QED
    BY <1>1, <1>2, <2>1, InflightGrows
<1>4. CASE ~ (x.type \in MetricTypes /\ subscriptions > 0)
  <2>1. inflight' = inflight
    BY <1>4 DEF Published
  <2>2. Pending(C) \in Nat
    <3>1. IsFiniteSet(DOMAIN inflight \cap C)
      BY <1>1, FS_Subset
    <3>2. Weights(inflight, DOMAIN inflight \cap C)
      BY <1>1 DEF Weights
    <3> QED
      BY <3>1, <3>2, SumNat, Zenon DEF Pending, Part
  <2>3. Pending(C)' = Pending(C)
    BY <2>1 DEF Pending
  <2>4. x \in C => subscriptions = 0
    BY <1>1, <1>4 DEF Events
  <2> QED
    BY <1>2, <2>2, <2>3, <2>4
<1> QED
  BY <1>3, <1>4

LEMMA PublishKeeps ==
    ASSUME MInv, NEW s \in Streaming \X Nat, NEW x \in AnyEvent, s \notin Sent, Sent' = Sent \cup {s},
           \A r \in Sent : EventAt(r)' = EventAt(r), EventAt(s)' = x,
           inflight' = Published(x),
           UNCHANGED <<subscriptions, eventCounts, nodeDurations, executionTimes>>
    PROVE  GoroutinesPending' /\ Tallied' /\ TimesKept'
<1>1. /\ inflight \in [DOMAIN inflight -> Nat \ {0}] /\ IsFiniteSet(DOMAIN inflight)
      /\ \A y \in DOMAIN inflight : y \in Events /\ \E r \in Sent : EventAt(r) = y
      /\ subscriptions \in Nat /\ IsFiniteSet(Sent)
      /\ eventCounts \in [MetricTypes -> Nat] /\ nodeDurations \in [NodeIds -> Nat]
  BY DEF MInv, StreamTypes, GoroutinesPending, Tallied
<1>2. /\ inflight' \in [DOMAIN inflight' -> Nat \ {0}] /\ IsFiniteSet(DOMAIN inflight')
      /\ DOMAIN inflight \subseteq DOMAIN inflight'
      /\ \A y \in DOMAIN inflight' : y \in DOMAIN inflight \/ (y = x /\ x.type \in MetricTypes)
      /\ x.type \in MetricTypes /\ subscriptions > 0 => x \in DOMAIN inflight'
  <2>1. CASE x.type \in MetricTypes /\ subscriptions > 0
    <3>1. Adds(inflight, x, subscriptions, inflight')
      BY <1>1, <2>1 DEF Published, Adds
    <3>2. /\ DOMAIN inflight' = DOMAIN inflight \cup {x}
          /\ inflight' \in [DOMAIN inflight' -> Nat \ {0}] /\ IsFiniteSet(DOMAIN inflight')
      BY <1>1, <3>1, InflightGrows
    <3> QED
      BY <2>1, <3>2
  <2>2. CASE ~ (x.type \in MetricTypes /\ subscriptions > 0)
    BY <1>1, <2>2 DEF Published
  <2> QED
    BY <2>1, <2>2
<1>3. GoroutinesPending'
  <2>1. x.type \in MetricTypes => x \in Events
    BY DEF AnyEvent, Events
  <2>2. ASSUME NEW y \in DOMAIN inflight'
        PROVE  y \in Events /\ \E r \in Sent' : EventAt(r)' = y
    <3>1. CASE y \in DOMAIN inflight
      BY <1>1, <3>1
    <3>2. CASE y = x /\ x.type \in MetricTypes
      BY <2>1, <3>2
    <3> QED
      BY <1>2, <2>2, <3>1, <3>2
  <2> QED
    BY <1>2, <2>2 DEF GoroutinesPending
<1>4. ASSUME NEW C \in SUBSET Events, NEW c \in Nat,
             c + Pending(C) = subscriptions * Cardinality(SentOf(C))
      PROVE  c + Pending(C)' = subscriptions * Cardinality(SentOf(C)')
  <2> DEFINE p == Pending(C)
             k == Cardinality(SentOf(C))
  <2>1. /\ p \in Nat /\ Pending(C)' = p + (IF x \in C THEN subscriptions ELSE 0)
        /\ k \in Nat /\ Cardinality(SentOf(C)') = k + (IF x \in C THEN 1 ELSE 0)
    BY PublishTallies
  <2> HIDE DEF p, k
  <2>2. c + p = subscriptions * k
    BY <1>4 DEF p, k
  <2>3. subscriptions * (k + 1) = subscriptions * k + subscriptions
    BY <1>1, <2>1
  <2> QED
    BY <1>1, <2>1, <2>2, <2>3
<1>5. Tallied'
  <2>1. IsFiniteSet(Sent')
    BY <1>1, FS_AddElement
  <2>2. ASSUME NEW t \in MetricTypes
        PROVE  eventCounts'[t] + Pending(OfType(t))' = subscriptions' * Cardinality(SentOf(OfType(t))')
    <3>1. eventCounts[t] + Pending(OfType(t)) = subscriptions * Cardinality(SentOf(OfType(t)))
      BY DEF MInv, Tallied
    <3>2. OfType(t) \in SUBSET Events /\ eventCounts[t] \in Nat
      BY <1>1 DEF OfType
    <3> QED
      BY <1>4, <3>1, <3>2
  <2>3. ASSUME NEW n \in NodeIds
        PROVE  nodeDurations'[n] + Pending(Finished(n))' = subscriptions' * Cardinality(SentOf(Finished(n))')
    <3>1. nodeDurations[n] + Pending(Finished(n)) = subscriptions * Cardinality(SentOf(Finished(n)))
      BY DEF MInv, Tallied
    <3>2. Finished(n) \in SUBSET Events /\ nodeDurations[n] \in Nat
      BY <1>1 DEF Finished
    <3> QED
      BY <1>4, <3>1, <3>2
  <2> QED
    BY <2>1, <2>2, <2>3 DEF Tallied
<1>6. TimesKept'
  <2>1. /\ executionTimes \subseteq Streaming
        /\ \A e \in executionTimes : \E r \in Sent : EventAt(r) = Event("completed", e, NoId)
        /\ \A e \in Streaming, r \in Sent :
              (subscriptions > 0 /\ EventAt(r) = Event("completed", e, NoId)) =>
                 e \in executionTimes \/ Event("completed", e, NoId) \in DOMAIN inflight
    BY DEF MInv, TimesKept
  <2>2. \A e \in executionTimes : \E r \in Sent' : EventAt(r)' = Event("completed", e, NoId)
    BY <2>1
  <2>3. ASSUME NEW e \in Streaming, NEW r \in Sent', subscriptions' > 0,
               EventAt(r)' = Event("completed", e, NoId)
        PROVE  e \in executionTimes' \/ Event("completed", e, NoId) \in DOMAIN inflight'
    <3>1. CASE r \in Sent
      BY <1>2, <2>1, <2>3, <3>1
    <3>2. CASE r = s
      <4>1. x = Event("completed", e, NoId) /\ x.type \in MetricTypes
        BY <2>3, <3>2 DEF Event, MetricTypes
      <4> QED
        BY <1>2, <2>3, <4>1
    <3> QED
      BY <2>3, <3>1, <3>2
  <2> QED
    BY <2>1, <2>2, <2>3 DEF TimesKept, Event
<1> QED
  BY <1>3, <1>5, <1>6

(* Where in the sequence of pairs a position is *)
LEMMA HalfOf ==
    ASSUME NEW n \in Nat, NEW k \in 1 .. 2 * n + 1
    PROVE  k = 2 * n + 1 \/ \E i \in 1 .. n : k = 2 * i - 1 \/ k = 2 * i
<1> DEFINE h == k \div 2
<1>1. h \in Nat /\ (k = 2 * h \/ k = 2 * h + 1)
  OBVIOUS
<1> HIDE DEF h
<1>2. CASE k = 2 * h
  <2>1. h \in 1 .. n
    BY <1>1, <1>2
  <2> QED
    BY <1>2, <2>1
<1>3. CASE k = 2 * h + 1 /\ k # 2 * n + 1
  <2>1. h + 1 \in 1 .. n /\ k = 2 * (h + 1) - 1
    BY <1>1, <1>3
  <2> QED
    BY <2>1
<1> QED
  BY <1>1, <1>2, <1>3

(* The event number k of a call. *)
Listed(e, k, x) ==
    LET steps == exec[e].steps
    IN  \/ k = 0 /\ x = Event("started", e, NoId)
        \/ exec[e].status = "failed" /\ k = 1 /\ x = Event("failed", e, NoId)
        \/ exec[e].status = "completed" /\ k = 2 * Len(steps) + 1 /\ x = Event("completed", e, NoId)
        \/ exec[e].status = "completed" /\ \E i \in 1 .. Len(steps) :
              \/ k = 2 * i - 1 /\ x = Event("node_started", e, steps[i])
              \/ k = 2 * i /\ x = Event("node_finished", e, steps[i])

LEMMA SentIsListed ==
    ASSUME IInv, MInv, NEW s \in Sent
    PROVE  Listed(s[1], s[2], EventAt(s))
<1> PICK e, k : e = s[1] /\ k = s[2]
  OBVIOUS
<1>1. /\ e \in Streaming /\ k \in Nat /\ stage[e] # "idle" /\ k <= published[e]
      /\ published[e] \in Nat
  BY DEF Sent, MInv, StreamTypes
<1>2. EventAt(s) = IF k = 0 THEN Event("started", e, NoId) ELSE EventsOf(e)[k]
  BY DEF EventAt
<1>3. CASE k = 0
  BY <1>2, <1>3 DEF Listed
<1>4. CASE k # 0
  <2> DEFINE n == Len(exec[e].steps)
  <2>1. /\ exec[e].status \in {"completed", "failed"} /\ k <= Len(EventsOf(e))
        /\ exec[e].steps \in Seq(Ids) /\ n \in Nat
    <3>1. published[e] > 0 /\ e \in Executions
      BY <1>1, <1>4, StreamingAssumption
    <3>2. /\ exec[e].pc = "returned" /\ exec[e].status # "none" /\ published[e] <= Len(EventsOf(e))
          /\ exec[e].status \in {"none", "completed", "failed"}
      BY <1>1, <3>1 DEF MInv, Publishes
    <3>3. exec[e].steps \in Seq(Ids)
      BY <3>1 DEF IInv, Calls, CallIsSound
    <3>4. Len(EventsOf(e)) \in Nat
      BY <1>1, <3>3, EventsListed
    <3> QED
      BY <1>1, <3>2, <3>3, <3>4
  <2>2. CASE exec[e].status = "failed"
    <3>1. Len(EventsOf(e)) = 1 /\ EventsOf(e)[1] = Event("failed", e, NoId)
      BY <1>1, <2>1, <2>2, EventsListed
    <3>2. k = 1
      BY <1>1, <1>4, <2>1, <3>1
    <3> QED
      BY <1>2, <2>2, <3>1, <3>2 DEF Listed
  <2>3. CASE exec[e].status = "completed"
    <3>1. /\ Len(EventsOf(e)) = 2 * n + 1
          /\ EventsOf(e)[Len(EventsOf(e))] = Event("completed", e, NoId)
          /\ \A i \in 1 .. n :
                /\ EventsOf(e)[2 * i - 1] = Event("node_started", e, exec[e].steps[i])
                /\ EventsOf(e)[2 * i] = Event("node_finished", e, exec[e].steps[i])
      BY <1>1, <2>1, <2>3, EventsListed
    <3>2. k \in 1 .. 2 * n + 1
      BY <1>1, <1>4, <2>1, <3>1
    <3>3. CASE k = 2 * n + 1
      BY <1>2, <1>4, <2>3, <3>1, <3>3 DEF Listed
    <3>4. ASSUME NEW i \in 1 .. n, k = 2 * i - 1 \/ k = 2 * i
          PROVE  Listed(e, k, EventAt(s))
      <4>1. EventAt(s) = EventsOf(e)[k]
        BY <1>2, <1>4
      <4>2. (k = 2 * i - 1 /\ EventAt(s) = Event("node_started", e, exec[e].steps[i]))
            \/ (k = 2 * i /\ EventAt(s) = Event("node_finished", e, exec[e].steps[i]))
        BY <3>1, <3>4, <4>1, Zenon
      <4> QED
        BY <2>3, <4>2, Zenon DEF Listed
    <3>5. k = 2 * n + 1 \/ \E i \in 1 .. n : k = 2 * i - 1 \/ k = 2 * i
      BY <2>1, <3>2, HalfOf
    <3> QED
      BY <3>3, <3>4, <3>5
  <2> QED
    BY <2>1, <2>2, <2>3
<1> QED
  BY <1>3, <1>4

(* ... and handled. *)
LEMMA HandleKeeps ==
    ASSUME IInv, MInv, NEW x \in DOMAIN inflight, HandleEvent(x)
    PROVE  MInv'
<1>1. /\ inflight \in [DOMAIN inflight -> Nat \ {0}] /\ IsFiniteSet(DOMAIN inflight)
      /\ \A y \in DOMAIN inflight : y \in Events /\ \E s \in Sent : EventAt(s) = y
      /\ StreamTypes
  BY DEF MInv, StreamTypes, GoroutinesPending
<1>2. /\ inflight' = inflight (-) SetToBag({x})
      /\ eventCounts' = [eventCounts EXCEPT ![x.type] = @ + 1]
      /\ nodeDurations' = IF x.type = "node_finished"
                          THEN [nodeDurations EXCEPT ![x.node] = @ + 1] ELSE nodeDurations
      /\ executionTimes' = IF x.type = "completed" THEN executionTimes \cup {x.exec} ELSE executionTimes
      /\ UNCHANGED <<subscriptions, stage, published, exec>>
  BY DEF HandleEvent, vars
<1>3. /\ DOMAIN inflight' \subseteq DOMAIN inflight /\ DOMAIN inflight \ {x} \subseteq DOMAIN inflight'
      /\ inflight' \in [DOMAIN inflight' -> Nat \ {0}] /\ IsFiniteSet(DOMAIN inflight')
  BY <1>1, <1>2, InflightShrinks
<1>4. \A C : Pending(C)' \in Nat /\ Pending(C) = Pending(C)' + (IF x \in C THEN 1 ELSE 0)
  BY <1>1, <1>2, InflightShrinks
<1>5. /\ Sent' = Sent /\ \A s \in Sent : EventAt(s)' = EventAt(s)
      /\ \A C : SentOf(C)' = SentOf(C)
  BY <1>2, SentStays
<1>6. x \in Events /\ x.type \in MetricTypes /\ x.exec \in Streaming /\ x.node \in Ids
  BY <1>1 DEF Events
<1>7. StreamTypes'
  <2>1. eventCounts' \in [MetricTypes -> Nat]
    BY <1>1, <1>2, <1>6 DEF StreamTypes
  <2>2. nodeDurations' \in [NodeIds -> Nat]
    <3>1. nodeDurations \in [NodeIds -> Nat]
      BY <1>1 DEF StreamTypes
    <3>2. [nodeDurations EXCEPT ![x.node] = @ + 1] \in [NodeIds -> Nat]
      <4>1. CASE x.node \in NodeIds
        BY <3>1, <4>1
      <4>2. CASE x.node \notin NodeIds
        BY <3>1, <4>2
      <4> QED
        BY <4>1, <4>2
    <3> QED
      BY <1>2, <3>1, <3>2, Zenon
  <2> QED
    BY <1>1, <1>2, <2>1, <2>2 DEF StreamTypes
<1>8. Publishes'
  <2>1. \A e \in Streaming : EventsOf(e)' = EventsOf(e)
    BY <1>2, Zenon DEF EventsOf, Event
  <2> QED
    BY <1>2, <2>1 DEF MInv, Publishes
<1>9. GoroutinesPending'
  BY <1>1, <1>3, <1>5 DEF GoroutinesPending
<1>10. Tallied'
  <2>1. IsFiniteSet(Sent')
    BY <1>5 DEF MInv, Tallied
  <2>2. ASSUME NEW t \in MetricTypes
        PROVE  eventCounts'[t] + Pending(OfType(t))' = subscriptions' * Cardinality(SentOf(OfType(t))')
    <3>1. eventCounts[t] + Pending(OfType(t)) = subscriptions * Cardinality(SentOf(OfType(t)))
      BY DEF MInv, Tallied
    <3>2. eventCounts'[t] = eventCounts[t] + (IF x \in OfType(t) THEN 1 ELSE 0) /\ eventCounts[t] \in Nat
      BY <1>1, <1>2, <1>6 DEF OfType, StreamTypes
    <3>3. /\ Pending(OfType(t))' \in Nat
          /\ Pending(OfType(t)) = Pending(OfType(t))' + (IF x \in OfType(t) THEN 1 ELSE 0)
      BY <1>4
    <3>4. eventCounts'[t] + Pending(OfType(t))' = eventCounts[t] + Pending(OfType(t))
      BY <3>2, <3>3
    <3>5. SentOf(OfType(t))' = SentOf(OfType(t))
      BY <1>5
    <3> QED
      BY <1>2, <3>1, <3>4, <3>5, Zenon
  <2>3. ASSUME NEW n \in NodeIds
        PROVE  nodeDurations'[n] + Pending(Finished(n))' = subscriptions' * Cardinality(SentOf(Finished(n))')
    <3>1. nodeDurations[n] + Pending(Finished(n)) = subscriptions * Cardinality(SentOf(Finished(n)))
      BY DEF MInv, Tallied
    <3>2. nodeDurations'[n] = nodeDurations[n] + (IF x \in Finished(n) THEN 1 ELSE 0) /\ nodeDurations[n] \in Nat
      BY <1>1, <1>2, <1>6 DEF Finished, StreamTypes
    <3>3. /\ Pending(Finished(n))' \in Nat
          /\ Pending(Finished(n)) = Pending(Finished(n))' + (IF x \in Finished(n) THEN 1 ELSE 0)
      BY <1>4
    <3>4. nodeDurations'[n] + Pending(Finished(n))' = nodeDurations[n] + Pending(Finished(n))
      BY <3>2, <3>3
    <3>5. SentOf(Finished(n))' = SentOf(Finished(n))
      BY <1>5
    <3> QED
      BY <1>2, <3>1, <3>4, <3>5, Zenon
  <2> QED
    BY <2>1, <2>2, <2>3 DEF Tallied
<1>11. TimesKept'
  <2>1. /\ executionTimes \subseteq Streaming
        /\ \A e \in executionTimes : \E s \in Sent : EventAt(s) = Event("completed", e, NoId)
        /\ \A e \in Streaming, s \in Sent :
              (subscriptions > 0 /\ EventAt(s) = Event("completed", e, NoId)) =>
                 e \in executionTimes \/ Event("completed", e, NoId) \in DOMAIN inflight
    BY DEF MInv, TimesKept
  <2>2. PICK s \in Sent : EventAt(s) = x
    BY <1>1
  <2>3. /\ \A e \in Streaming : x = Event("completed", e, NoId) => x.type = "completed" /\ x.exec = e
        /\ x.type = "completed" => x = Event("completed", x.exec, NoId)
    <3>1. x.type = "completed" => x.node = NoId
      <4>1. Listed(s[1], s[2], x)
        BY <2>2, SentIsListed
      <4> QED
        BY <4>1 DEF Listed, Event
    <3> QED
      BY <1>6, <3>1 DEF Event, Events
  <2>4. executionTimes' \subseteq Streaming
    BY <1>2, <1>6, <2>1
  <2>5. \A e \in executionTimes' : \E r \in Sent' : EventAt(r)' = Event("completed", e, NoId)
    BY <1>2, <1>5, <2>1, <2>2, <2>3
  <2>6. ASSUME NEW e \in Streaming, NEW r \in Sent', subscriptions' > 0,
               EventAt(r)' = Event("completed", e, NoId)
        PROVE  e \in executionTimes' \/ Event("completed", e, NoId) \in DOMAIN inflight'
    <3>1. r \in Sent /\ EventAt(r) = Event("completed", e, NoId)
      BY <1>5, <2>6
    <3>2. e \in executionTimes \/ Event("completed", e, NoId) \in DOMAIN inflight
      BY <1>2, <2>1, <2>6, <3>1
    <3>3. CASE x = Event("completed", e, NoId)
      BY <1>2, <2>3, <3>3
    <3>4. CASE x # Event("completed", e, NoId)
      BY <1>2, <1>3, <3>2, <3>4
    <3> QED
      BY <3>3, <3>4
  <2> QED
    BY <2>4, <2>5, <2>6 DEF TimesKept, Event
<1> QED
  BY <1>7, <1>8, <1>9, <1>10, <1>11 DEF MInv

(* A call through the streaming executor starts ... *)
LEMMA StartKeeps ==
    ASSUME IInv, MInv, NEW e \in Streaming, NEW request \in Requests, NEW input \in Inputs,
           StreamingExecute(e, request, input)
    PROVE  MInv'
<1> DEFINE s == <<e, 0>>
           x == Event("started", e, NoId)
<1>1. /\ StreamTypes /\ e \in Executions /\ DOMAIN exec = Executions
      /\ stage[e] = "idle" /\ stage' = [stage EXCEPT ![e] = "running"]
      /\ inflight' = Published(x)
      /\ UNCHANGED <<subscriptions, published, eventCounts, nodeDurations, executionTimes>>
  BY StreamingAssumption DEF StreamingExecute, MInv, IInv, Calls
<1> HIDE DEF x
<1>2. /\ published[e] = 0
      /\ stage' \in [Streaming -> {"idle", "running", "panicked"}] /\ stage'[e] = "running"
      /\ \A q \in Streaming \ {e} : stage'[q] = stage[q]
  BY <1>1 DEF MInv, Publishes, StreamTypes
<1>3. /\ exec[e].pc # "returned"
      /\ \E y : /\ exec' = [exec EXCEPT ![e] = y]
                /\ y.pc = "returned" => y.status \in {"none", "completed", "failed"}
  <2>1. Call(e, Requests, Inputs)
    BY DEF StreamingExecute, Call
  <2> QED
    BY <1>1, <2>1, CallChanges
<1>4. /\ \A q \in Executions \ {e} : exec'[q] = exec[q]
      /\ exec'[e].pc = "returned" => exec'[e].status \in {"none", "completed", "failed"}
  BY <1>1, <1>3
<1>5. \A q \in Streaming \ {e} : EventsOf(q)' = EventsOf(q)
  BY <1>4, StreamingAssumption, Zenon DEF EventsOf, Event
<1>6. StreamTypes'
  BY <1>1, <1>2 DEF StreamTypes
<1>7. Publishes'
  <2>1. /\ \A q \in Executions : exec[q].pc = "returned" => exec[q].status \in {"none", "completed", "failed"}
        /\ \A q \in Streaming : published[q] > 0 =>
              /\ stage[q] = "running" /\ exec[q].pc = "returned" /\ exec[q].status # "none"
              /\ published[q] <= Len(EventsOf(q))
    BY DEF MInv, Publishes
  <2>2. \A q \in Executions : exec'[q].pc = "returned" => exec'[q].status \in {"none", "completed", "failed"}
    BY <1>4, <2>1
  <2>3. ASSUME NEW q \in Streaming, published'[q] > 0
        PROVE  /\ stage'[q] = "running" /\ exec'[q].pc = "returned" /\ exec'[q].status # "none"
               /\ published'[q] <= Len(EventsOf(q)')
    <3>1. q # e /\ q \in Executions
      BY <1>1, <1>2, <2>3, StreamingAssumption
    <3>2. stage'[q] = stage[q] /\ exec'[q] = exec[q] /\ EventsOf(q)' = EventsOf(q)
      BY <1>2, <1>4, <1>5, <3>1
    <3> QED
      BY <1>1, <2>1, <2>3, <3>2
  <2> QED
    BY <2>2, <2>3 DEF Publishes
<1>8. GoroutinesPending' /\ Tallied' /\ TimesKept'
  <2>1. s \in Streaming \X Nat /\ s \notin Sent
    BY <1>1 DEF Sent
  <2>2. Sent' = Sent \cup {s}
    <3>1. published \in [Streaming -> Nat] /\ published' = published
      BY <1>1 DEF StreamTypes
    <3>2. ASSUME NEW r \in Streaming \X Nat
          PROVE  r \in Sent' <=> (r \in Sent \/ r = s)
      <4>1. r \in Sent' <=> (stage'[r[1]] # "idle" /\ r[2] <= published[r[1]])
        BY <3>1 DEF Sent
      <4>2. r \in Sent <=> (stage[r[1]] # "idle" /\ r[2] <= published[r[1]])
        BY DEF Sent
      <4>3. CASE r[1] = e
        <5>1. r[2] <= published[e] <=> r = s
          BY <1>2, <4>3
        <5> QED
          BY <1>1, <1>2, <4>1, <4>2, <4>3, <5>1
      <4>4. CASE r[1] # e
        BY <1>2, <4>1, <4>2, <4>4
      <4> QED
        BY <4>3, <4>4
    <3>3. Sent' \subseteq Streaming \X Nat /\ Sent \subseteq Streaming \X Nat
      BY DEF Sent
    <3> QED
      BY <2>1, <3>2, <3>3
  <2>3. ASSUME NEW r \in Sent
        PROVE  EventAt(r)' = EventAt(r)
    <3>1. r[1] \in Streaming \ {e}
      BY <1>1 DEF Sent
    <3>2. EventsOf(r[1])' = EventsOf(r[1])
      BY <1>5, <3>1
    <3> QED
      BY <3>2, Zenon DEF EventAt, Event
  <2>4. EventAt(s)' = x
    BY DEF EventAt, Event, x
  <2>5. x \in AnyEvent
    BY DEF AnyEvent, Event, Ids, MetricTypes, x
  <2> HIDE DEF s
  <2> QED
    BY <1>1, <2>1, <2>2, <2>3, <2>4, <2>5, PublishKeeps
<1> QED
  BY <1>6, <1>7, <1>8 DEF MInv

(* ... and, when it has returned, publishes the events of its nodes. *)
LEMMA NextKeeps ==
    ASSUME IInv, MInv, NEW e \in Streaming, PublishNext(e)
    PROVE  MInv'
<1> PICK k, x : k = published[e] + 1 /\ x = EventsOf(e)[k]
  OBVIOUS
<1> DEFINE s == <<e, k>>
<1>1. /\ StreamTypes /\ e \in Executions
      /\ stage[e] = "running" /\ exec[e].pc = "returned" /\ exec[e].status # "none"
      /\ published[e] < Len(EventsOf(e)) /\ published' = [published EXCEPT ![e] = @ + 1]
      /\ inflight' = Published(x)
      /\ UNCHANGED <<exec, stage, subscriptions, eventCounts, nodeDurations, executionTimes>>
  BY StreamingAssumption DEF PublishNext, MInv, vars
<1>2. published \in [Streaming -> Nat]
  BY <1>1 DEF StreamTypes
<1>3. /\ k \in Nat \ {0} /\ k = published[e] + 1 /\ published'[e] = k
      /\ published' \in [Streaming -> Nat]
      /\ \A q \in Streaming \ {e} : published'[q] = published[q]
  BY <1>1, <1>2
<1>4. EventsOf(e) \in Seq(AnyEvent)
  <2>1. exec[e].steps \in Seq(Ids)
    BY <1>1 DEF IInv, Calls, CallIsSound
  <2> QED
    BY <2>1, EventsListed
<1>5. k \in 1 .. Len(EventsOf(e)) /\ x \in AnyEvent
  BY <1>1, <1>2, <1>3, <1>4
<1>6. \A q : EventsOf(q)' = EventsOf(q)
  BY <1>1, Zenon DEF EventsOf, Event
<1>7. StreamTypes'
  BY <1>1, <1>3 DEF StreamTypes
<1>8. Publishes'
  <2>1. /\ \A q \in Executions : exec[q].pc = "returned" => exec[q].status \in {"none", "completed", "failed"}
        /\ \A q \in Streaming : published[q] > 0 =>
              /\ stage[q] = "running" /\ exec[q].pc = "returned" /\ exec[q].status # "none"
              /\ published[q] <= Len(EventsOf(q))
    BY DEF MInv, Publishes
  <2>2. ASSUME NEW q \in Streaming, published'[q] > 0
        PROVE  /\ stage'[q] = "running" /\ exec'[q].pc = "returned" /\ exec'[q].status # "none"
               /\ published'[q] <= Len(EventsOf(q)')
    <3>1. CASE q = e
      <4>1. published'[q] <= Len(EventsOf(e))
        BY <1>3, <1>4, <1>5, <3>1
      <4> QED
        BY <1>1, <1>6, <3>1, <4>1
    <3>2. CASE q # e
      BY <1>1, <1>3, <1>6, <2>1, <2>2, <3>2
    <3> QED
      BY <3>1, <3>2
  <2> QED
    BY <1>1, <2>1, <2>2 DEF Publishes
<1>9. GoroutinesPending' /\ Tallied' /\ TimesKept'
  <2>1. s \in Streaming \X Nat /\ s \notin Sent
    BY <1>2, <1>3 DEF Sent
  <2>2. Sent' = Sent \cup {s}
    <3>1. ASSUME NEW r \in Streaming \X Nat
          PROVE  r \in Sent' <=> (r \in Sent \/ r = s)
      <4>1. r \in Sent' <=> (stage[r[1]] # "idle" /\ r[2] <= published'[r[1]])
        BY <1>1 DEF Sent
      <4>2. r \in Sent <=> (stage[r[1]] # "idle" /\ r[2] <= published[r[1]])
        BY DEF Sent
      <4>3. CASE r[1] = e
        <5>1. r = s <=> r[2] = k
          BY <4>3
        <5>2. r[2] <= k <=> (r[2] <= published[e] \/ r[2] = k)
          BY <1>2, <1>3
        <5> QED
          BY <1>1, <1>3, <4>1, <4>2, <4>3, <5>1, <5>2
      <4>4. CASE r[1] # e
        BY <1>3, <4>1, <4>2, <4>4
      <4> QED
        BY <4>3, <4>4
    <3>2. Sent' \subseteq Streaming \X Nat /\ Sent \subseteq Streaming \X Nat
      BY DEF Sent
    <3> QED
      BY <2>1, <3>1, <3>2
  <2>3. ASSUME NEW r \in Sent
        PROVE  EventAt(r)' = EventAt(r)
    BY <1>6, Zenon DEF EventAt, Event
  <2>4. EventAt(s)' = x
    <3>1. s[1] = e /\ s[2] = k /\ k # 0
      BY <1>3
    <3> HIDE DEF s
    <3>2. EventAt(s)' = EventsOf(e)'[k]
      BY <3>1 DEF EventAt
    <3> QED
      BY <1>6, <3>2, Zenon
  <2> HIDE DEF s
  <2> QED
    BY <1>1, <1>5, <2>1, <2>2, <2>3, <2>4, PublishKeeps
<1> QED
  BY <1>7, <1>8, <1>9 DEF MInv

(* A call that has panicked has published its start only. *)
LEMMA PanicKeeps ==
    ASSUME MInv, NEW e \in Streaming, Panic(e)
    PROVE  MInv'
<1>1. /\ StreamTypes
      /\ stage[e] = "running" /\ exec[e].status = "none" /\ stage' = [stage EXCEPT ![e] = "panicked"]
      /\ UNCHANGED <<exec, published, inflight, subscriptions, eventCounts, nodeDurations, executionTimes>>
  BY DEF Panic, MInv, vars
<1>2. /\ stage' \in [Streaming -> {"idle", "running", "panicked"}] /\ stage'[e] = "panicked"
      /\ \A q \in Streaming \ {e} : stage'[q] = stage[q]
  BY <1>1 DEF StreamTypes
<1>3. \A q \in Streaming : stage'[q] = "idle" <=> stage[q] = "idle"
  BY <1>1, <1>2
<1>4. Sent' = Sent
  BY <1>1, <1>3 DEF Sent
<1>5. \A q : EventsOf(q)' = EventsOf(q)
  BY <1>1, Zenon DEF EventsOf, Event
<1>6. \A s : EventAt(s)' = EventAt(s)
  BY <1>5, Zenon DEF EventAt, Event
<1>7. \A C : SentOf(C)' = SentOf(C) /\ Pending(C)' = Pending(C)
  BY <1>1, <1>4, <1>6, Zenon DEF SentOf, Pending, Part
<1>8. StreamTypes'
  BY <1>1, <1>2 DEF StreamTypes
<1>9. Publishes'
  BY <1>1, <1>2, <1>5 DEF MInv, Publishes
<1>10. GoroutinesPending'
  BY <1>1, <1>4, <1>6 DEF MInv, GoroutinesPending
<1>11. Tallied'
  BY <1>1, <1>4, <1>7 DEF MInv, Tallied
<1>12. TimesKept'
  BY <1>1, <1>4, <1>6 DEF MInv, TimesKept, Event
<1> QED
  BY <1>8, <1>9, <1>10, <1>11, <1>12 DEF MInv

LEMMA InitTallies == StreamInit => MInv
<1> SUFFICES ASSUME StreamInit
             PROVE  MInv
  OBVIOUS
<1>1. /\ subscriptions \in Nat /\ stage = [e \in Streaming |-> "idle"]
      /\ published = [e \in Streaming |-> 0] /\ inflight = EmptyBag
      /\ eventCounts = [t \in MetricTypes |-> 0] /\ nodeDurations = [n \in NodeIds |-> 0]
      /\ executionTimes = {} /\ exec = [e \in Executions |-> Idle]
  BY StreamingAssumption DEF StreamInit, Init
<1>2. DOMAIN inflight = {} /\ inflight \in [{} -> Nat \ {0}]
  BY <1>1 DEF EmptyBag, SetToBag
<1>3. Sent = {}
  BY <1>1 DEF Sent
<1>4. \A C : SentOf(C) = {} /\ Pending(C) = 0
  <2>1. ASSUME NEW C
        PROVE  DOMAIN inflight \cap C = {}
    BY <1>2
  <2>2. \A C : Pending(C) = 0
    BY <2>1, SumEmpty, Zenon DEF Pending, Part
  <2> QED
    BY <1>3, <2>2 DEF SentOf
<1>5. IsFiniteSet({}) /\ Cardinality({}) = 0
  BY FS_EmptySet
<1>6. StreamTypes
  BY <1>1 DEF StreamTypes
<1>7. Publishes
  BY <1>1 DEF Publishes, Idle
<1>8. GoroutinesPending
  BY <1>2, <1>5 DEF GoroutinesPending
<1>9. Tallied
  <2>1. \A t \in MetricTypes :
           eventCounts[t] + Pending(OfType(t)) = subscriptions * Cardinality(SentOf(OfType(t)))
    BY <1>1, <1>4, <1>5
  <2>2. \A n \in NodeIds :
           nodeDurations[n] + Pending(Finished(n)) = subscriptions * Cardinality(SentOf(Finished(n)))
    BY <1>1, <1>4, <1>5
  <2> QED
    BY <1>3, <1>5, <2>1, <2>2 DEF Tallied
<1>10. TimesKept
  BY <1>1, <1>3 DEF TimesKept
<1> QED
  BY <1>6, <1>7, <1>8, <1>9, <1>10 DEF MInv

LEMMA MetricsStep == ASSUME IInv, MInv, [Next]_allVars PROVE MInv'
<1>1. ASSUME NEW e \in Executions, UNCHANGED streamVars,
             NEW inputs, Call(e, Requests, inputs) \/ RunStep(e)
      PROVE  MInv'
  <2>1. /\ exec[e].pc # "returned"
        /\ \E y : /\ exec' = [exec EXCEPT ![e] = y]
                  /\ y.pc = "returned" => y.status \in {"none", "completed", "failed"}
    BY <1>1, CallChanges
  <2>2. /\ DOMAIN exec = Executions
        /\ \A q \in Executions : exec[q].pc = "returned" => exec[q].status \in {"none", "completed", "failed"}
    BY DEF IInv, Calls, MInv, Publishes
  <2>3. /\ \A q \in Executions \ {e} : exec'[q] = exec[q]
        /\ exec'[e].pc = "returned" => exec'[e].status \in {"none", "completed", "failed"}
    BY <2>1, <2>2
  <2>4. /\ \A q \in Executions : exec[q].pc = "returned" => exec'[q] = exec[q]
        /\ \A q \in Executions :
              exec'[q].pc = "returned" => exec'[q].status \in {"none", "completed", "failed"}
    BY <2>1, <2>2, <2>3
  <2> QED
    BY <1>1, <2>4, BaseStepKeeps
<1>2. ASSUME UNCHANGED streamVars, UNCHANGED exec
      PROVE  MInv'
  <2>1. \A q \in Executions :
           exec'[q].pc = "returned" => exec'[q].status \in {"none", "completed", "failed"}
    BY <1>2 DEF MInv, Publishes
  <2> QED
    BY <1>2, <2>1, BaseStepKeeps
<1>3. CASE Callers
  <2>1. CASE UNCHANGED streamVars /\ \E e \in Executions : Call(e, Requests, IF e \in Streaming THEN {} ELSE Inputs)
    BY <1>1, <2>1
  <2>2. CASE UNCHANGED streamVars /\ (\/ Edit \/ \E e \in Executions : Stop(e)
                                      \/ \E c \in checkpoints : DeleteCheckpoint(c))
    BY <1>2, <2>2 DEF Edit, AddNode, AddEdge, SaveGraph, Stop, DeleteCheckpoint
  <2>3. ASSUME NEW e \in Streaming, NEW r \in Requests, NEW i \in Inputs, StreamingExecute(e, r, i)
        PROVE  MInv'
    BY <2>3, StartKeeps
  <2> QED
    BY <1>3, <2>1, <2>2, <2>3 DEF Callers
<1>4. ASSUME NEW e \in Executions, Run(e)
      PROVE  MInv'
  <2>1. CASE RunStep(e) /\ UNCHANGED streamVars
    BY <1>1, <2>1
  <2>2. CASE e \in Streaming /\ StreamStep(e)
    BY <2>2, NextKeeps, PanicKeeps DEF StreamStep
  <2> QED
    BY <1>4, <2>1, <2>2 DEF Run
<1>5. ASSUME NEW x \in BagToSet(inflight), HandleEvent(x)
      PROVE  MInv'
  <2>1. x \in DOMAIN inflight
    BY DEF BagToSet
  <2> QED
    BY <1>5, <2>1, HandleKeeps
<1>6. CASE UNCHANGED allVars
  BY <1>2, <1>6 DEF allVars, vars
<1> QED
  BY <1>3, <1>4, <1>5, <1>6 DEF Next

(* A map onto T that keeps elements apart *)
LEMMA SameSize ==
    ASSUME NEW S, NEW T, IsFiniteSet(T), NEW f \in [S -> T],
           \A a, b \in S : f[a] = f[b] => a = b, \A t \in T : \E a \in S : f[a] = t
    PROVE  Cardinality(S) = Cardinality(T)
<1>1. f \in Injection(S, T) /\ f \in Surjection(S, T)
  BY DEF Injection, Surjection, IsInjective
<1> QED
  BY <1>1, FS_Injection

(* When nothing is under way, what was published is what was counted, and  *)
(* it is published once for each call, outcome and visit.                  *)
LEMMA TalliesAgree == ASSUME IInv, MInv PROVE MetricsAddUp
<1> DEFINE done == {e \in Streaming : Done(e)}
           with(st) == {e \in done : exec[e].status = st}
           visits(n) == UNION {{<<e, i>> : i \in {j \in DOMAIN exec[e].steps : exec[e].steps[j] = n}} :
                                 e \in with("completed")}
           started == {e \in Streaming : stage[e] # "idle"}
<1> SUFFICES ASSUME inflight = EmptyBag, \A e \in Streaming : stage[e] # "running" \/ Done(e)
             PROVE  /\ eventCounts["started"] = subscriptions * Cardinality(started)
                    /\ \A st \in {"completed", "failed"} :
                          eventCounts[st] = subscriptions * Cardinality(with(st))
                    /\ \A n \in NodeIds : nodeDurations[n] = subscriptions * Cardinality(visits(n))
                    /\ subscriptions > 0 => executionTimes = with("completed")
  BY Zenon DEF MetricsAddUp
<1>1. StreamTypes /\ Publishes /\ IsFiniteSet(Sent)
  BY DEF MInv, Tallied
<1>2. DOMAIN inflight = {}
  BY DEF EmptyBag, SetToBag
<1>3. \A C : Pending(C) = 0
  <2>1. ASSUME NEW C
        PROVE  DOMAIN inflight \cap C = {}
    BY <1>2
  <2> QED
    BY <2>1, SumEmpty, Zenon DEF Pending, Part
<1>4. /\ \A t \in MetricTypes : eventCounts[t] = subscriptions * Cardinality(SentOf(OfType(t)))
      /\ \A n \in NodeIds : nodeDurations[n] = subscriptions * Cardinality(SentOf(Finished(n)))
  BY <1>1, <1>3 DEF MInv, Tallied, StreamTypes
<1>5. \A C : IsFiniteSet(SentOf(C))
  <2>1. \A C : SentOf(C) \subseteq Sent
    BY DEF SentOf
  <2> QED
    BY <1>1, <2>1, FS_Subset
<1>6. ASSUME NEW s \in Sent
      PROVE  /\ s = <<s[1], s[2]>> /\ s[1] \in started /\ s[2] \in Nat
             /\ Listed(s[1], s[2], EventAt(s))
             /\ s[2] # 0 => s[1] \in done
  <2>1. /\ s = <<s[1], s[2]>> /\ s[1] \in started /\ s[2] \in Nat /\ s[2] <= published[s[1]]
        /\ published[s[1]] \in Nat
    BY <1>1 DEF Sent, StreamTypes
  <2>2. s[2] # 0 => stage[s[1]] = "running"
    BY <1>1, <2>1 DEF Publishes
  <2> QED
    BY <2>1, <2>2, SentIsListed
<1>7. ASSUME NEW e \in started
      PROVE  <<e, 0>> \in Sent /\ EventAt(<<e, 0>>) = Event("started", e, NoId)
  BY <1>1 DEF Sent, EventAt, StreamTypes
<1>8. ASSUME NEW e \in done
      PROVE  /\ e \in Executions /\ exec[e].steps \in Seq(Ids)
             /\ \A k \in 1 .. Len(EventsOf(e)) : <<e, k>> \in Sent /\ EventAt(<<e, k>>) = EventsOf(e)[k]
  <2>1. e \in Streaming /\ stage[e] = "running" /\ published[e] = Len(EventsOf(e)) /\ e \in Executions
    BY StreamingAssumption DEF Done
  <2>2. published[e] \in Nat
    BY <1>1, <2>1 DEF StreamTypes
  <2>3. ASSUME NEW k \in 1 .. Len(EventsOf(e))
        PROVE  <<e, k>> \in Sent /\ EventAt(<<e, k>>) = EventsOf(e)[k]
    BY <2>1, <2>2 DEF Sent, EventAt
  <2> QED
    BY <2>1, <2>3 DEF IInv, Calls, CallIsSound
<1>9. Cardinality(started) = Cardinality(SentOf(OfType("started")))
  <2> DEFINE f == [e \in started |-> <<e, 0>>]
             T == SentOf(OfType("started"))
  <2>1. f \in [started -> T]
    <3>1. \A e \in started : Event("started", e, NoId) \in OfType("started")
      BY DEF OfType, Events, Event, MetricTypes, Ids
    <3> QED
      BY <1>7, <3>1 DEF SentOf
  <2>2. ASSUME NEW s \in T
        PROVE  s[1] \in started /\ f[s[1]] = s
    <3>1. s \in Sent /\ EventAt(s).type = "started"
      BY DEF SentOf, OfType
    <3>2. s[2] = 0
      BY <1>6, <3>1 DEF Listed, Event
    <3> QED
      BY <1>6, <3>1, <3>2
  <2>3. \A a, b \in started : f[a] = f[b] => a = b
    OBVIOUS
  <2> HIDE DEF f, T, started
  <2> QED
    BY <1>5, <2>1, <2>2, <2>3, SameSize DEF T
<1>10. ASSUME NEW st \in {"completed", "failed"}, NEW e \in with(st)
       PROVE  /\ Len(EventsOf(e)) \in Nat \ {0}
              /\ EventsOf(e)[Len(EventsOf(e))] = Event(st, e, NoId)
              /\ Len(EventsOf(e)) = IF st = "failed" THEN 1 ELSE 2 * Len(exec[e].steps) + 1
  <2>1. e \in Streaming /\ exec[e].status = st /\ exec[e].steps \in Seq(Ids)
    BY <1>8
  <2> QED
    BY <2>1, EventsListed
<1>11. ASSUME NEW st \in {"completed", "failed"}
       PROVE  Cardinality(with(st)) = Cardinality(SentOf(OfType(st)))
  <2> DEFINE f == [e \in with(st) |-> <<e, Len(EventsOf(e))>>]
             T == SentOf(OfType(st))
  <2>1. f \in [with(st) -> T]
    <3>1. ASSUME NEW e \in with(st)
          PROVE  <<e, Len(EventsOf(e))>> \in T
      <4>1. Event(st, e, NoId) \in OfType(st)
        BY DEF OfType, Events, Event, MetricTypes, Ids
      <4>2. /\ <<e, Len(EventsOf(e))>> \in Sent
            /\ EventAt(<<e, Len(EventsOf(e))>>) = EventsOf(e)[Len(EventsOf(e))]
        BY <1>8, <1>10
      <4> QED
        BY <1>10, <4>1, <4>2 DEF SentOf
    <3> QED
      BY <3>1
  <2>2. ASSUME NEW s \in T
        PROVE  s[1] \in with(st) /\ f[s[1]] = s
    <3>1. s \in Sent /\ EventAt(s).type = st
      BY DEF SentOf, OfType
    <3>2. /\ exec[s[1]].status = st /\ s[2] # 0
          /\ s[2] = IF st = "failed" THEN 1 ELSE 2 * Len(exec[s[1]].steps) + 1
      BY <1>6, <3>1 DEF Listed, Event
    <3>3. s[1] \in with(st)
      BY <1>6, <3>1, <3>2
    <3>4. s[2] = Len(EventsOf(s[1]))
      BY <1>10, <3>2, <3>3
    <3> QED
      BY <1>6, <3>1, <3>3, <3>4
  <2>3. \A a, b \in with(st) : f[a] = f[b] => a = b
    OBVIOUS
  <2> HIDE DEF f, T, with
  <2> QED
    BY <1>5, <2>1, <2>2, <2>3, SameSize DEF T
<1>12. ASSUME NEW n \in NodeIds
       PROVE  Cardinality(visits(n)) = Cardinality(SentOf(Finished(n)))
  <2> DEFINE f == [v \in visits(n) |-> <<v[1], 2 * v[2]>>]
             T == SentOf(Finished(n))
  <2>1. \A v : v \in visits(n) <=>
           \E e \in with("completed") :
              \E i \in DOMAIN exec[e].steps : exec[e].steps[i] = n /\ v = <<e, i>>
    <3> HIDE DEF with
    <3> QED
      OBVIOUS
  <2> HIDE DEF visits
  <2>2. ASSUME NEW v \in visits(n)
        PROVE  v = <<v[1], v[2]>> /\ v[2] \in Nat /\ <<v[1], 2 * v[2]>> \in T
    <3> PICK e \in with("completed") :
             \E i \in DOMAIN exec[e].steps : exec[e].steps[i] = n /\ v = <<e, i>>
      BY <2>1
    <3> PICK i \in DOMAIN exec[e].steps : exec[e].steps[i] = n /\ v = <<e, i>>
      OBVIOUS
    <3>1. e \in done /\ exec[e].status = "completed" /\ e \in Streaming
      OBVIOUS
    <3>2. exec[e].steps \in Seq(Ids)
      BY <1>8, <3>1
    <3>3. i \in 1 .. Len(exec[e].steps) /\ i \in Nat /\ Len(exec[e].steps) \in Nat
      BY <3>2
    <3>4. /\ Len(EventsOf(e)) = 2 * Len(exec[e].steps) + 1
          /\ EventsOf(e)[2 * i] = Event("node_finished", e, n)
      BY <3>1, <3>2, <3>3, EventsListed
    <3>5. <<e, 2 * i>> \in Sent /\ EventAt(<<e, 2 * i>>) = EventsOf(e)[2 * i]
      <4>1. 2 * i \in 1 .. Len(EventsOf(e))
        BY <3>3, <3>4
      <4> QED
        BY <1>8, <3>1, <4>1
    <3>6. Event("node_finished", e, n) \in Finished(n)
      BY <3>1 DEF Finished, Events, Event, MetricTypes, Ids
    <3> QED
      BY <3>3, <3>4, <3>5, <3>6 DEF SentOf
  <2>3. ASSUME NEW s \in T
        PROVE  \E v \in visits(n) : f[v] = s
    <3>1. s \in Sent /\ EventAt(s).type = "node_finished" /\ EventAt(s).node = n
      BY DEF SentOf, Finished
    <3>2. PICK i \in 1 .. Len(exec[s[1]].steps) :
             /\ exec[s[1]].status = "completed" /\ s[2] = 2 * i
             /\ EventAt(s) = Event("node_finished", s[1], exec[s[1]].steps[i])
      BY <1>6, <3>1 DEF Listed, Event
    <3>3. s[2] # 0 /\ exec[s[1]].steps[i] = n
      BY <3>1, <3>2 DEF Event
    <3>4. s[1] \in done /\ exec[s[1]].steps \in Seq(Ids)
      BY <1>6, <1>8, <3>1, <3>3
    <3>5. s[1] \in with("completed") /\ i \in DOMAIN exec[s[1]].steps
      BY <3>2, <3>4
    <3>6. <<s[1], i>> \in visits(n)
      BY <2>1, <3>3, <3>5
    <3> QED
      BY <1>6, <3>1, <3>2, <3>6
  <2>4. f \in [visits(n) -> T]
    BY <2>2
  <2>5. \A a, b \in visits(n) : f[a] = f[b] => a = b
    <3>1. ASSUME NEW a \in visits(n), NEW b \in visits(n), f[a] = f[b]
          PROVE  a = b
      <4>1. a[1] = b[1] /\ 2 * a[2] = 2 * b[2] /\ a[2] \in Nat /\ b[2] \in Nat
        BY <2>2, <3>1
      <4>2. a[2] = b[2]
        BY <4>1
      <4> QED
        BY <2>2, <4>1, <4>2
    <3> QED
      BY <3>1
  <2> HIDE DEF f, T
  <2> QED
    BY <1>5, <2>3, <2>4, <2>5, SameSize DEF T
<1>13. ASSUME subscriptions > 0
       PROVE  executionTimes = with("completed")
  <2>1. ASSUME NEW e \in executionTimes
        PROVE  e \in with("completed")
    <3>1. PICK s \in Sent : EventAt(s) = Event("completed", e, NoId)
      BY DEF MInv, TimesKept
    <3>2. exec[s[1]].status = "completed" /\ s[2] # 0 /\ s[1] = e
      BY <1>6, <3>1 DEF Listed, Event
    <3> QED
      BY <1>6, <3>2
  <2>2. ASSUME NEW e \in with("completed")
        PROVE  e \in executionTimes
    <3>1. /\ <<e, Len(EventsOf(e))>> \in Sent
          /\ EventAt(<<e, Len(EventsOf(e))>>) = Event("completed", e, NoId)
      BY <1>8, <1>10
    <3> QED
      BY <1>2, <1>13, <3>1 DEF MInv, TimesKept
  <2> HIDE DEF with
  <2> QED
    BY <2>1, <2>2
<1>14. {"started", "completed", "failed"} \subseteq MetricTypes
  BY DEF MetricTypes
<1> HIDE DEF started, with, visits
<1> QED
  BY <1>4, <1>9, <1>11, <1>12, <1>13, <1>14

(* Publish and MetricsSubscriber: when every event is handled, the metrics *)
(* are those of the executions, for any calls through the streaming        *)
(* executor and beside it, any number of subscriptions, and whatever the   *)
(* order in which the goroutines of the event bus run.                     *)
THEOREM MetricsAgree == Spec => []MetricsAddUp
<1>1. StreamInit => IInv /\ MInv
  BY InitIsSound, InitTallies DEF StreamInit
<1>2. IInv /\ MInv /\ [Next]_allVars => IInv' /\ MInv'
  BY StepKeeps, MetricsStep
<1>3. IInv /\ MInv => MetricsAddUp
  BY TalliesAgree
<1> QED
  BY <1>1, <1>2, <1>3, PTL DEF Spec
================================================================================
