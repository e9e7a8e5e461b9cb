----------------------------- MODULE VertexPrograms -----------------------------
(***************************************************************************)
(* The vertex programs and message combiners of the Pregel package         *)
(* (internal/core/pregel/vertex.go, message.go).  All of them are pure     *)
(* functions of a vertex, its state map and its messages.                  *)
(*                                                                         *)
(* A state map is a function from its keys.  The value of a message is a   *)
(* number with its Go type, because the programs look for one type and     *)
(* the combiners for another; values that are not numbers are "other".     *)
(* Floating-point numbers are integers, ranks in units of 1 / RankUnit.    *)
(***************************************************************************)
EXTENDS Integers, Sequences, SequencesExt

CONSTANTS
    Vertices,
    MaxCount,                            \* of SimpleCounterVertex
    SourceVertex,                        \* of ShortestPathVertex
    RankUnit, Damping, Convergence       \* of PageRankVertex

ASSUME VertexProgramsAssumption ==
    /\ MaxCount \in Int
    /\ RankUnit \in Nat \ {0} /\ Damping \in 0 .. RankUnit /\ Convergence \in Nat

Infinity == 1000000

Value(kind, n) == [kind |-> kind, n |-> n]
Message(from, to, value) == [from |-> from, to |-> to, value |-> value]

--------------------------------------------------------------------------------
(* Combiners *)

Numbers == {"int", "float"}
IsFloat(m) == m.value.kind = "float"

(* what the messages of some kinds add up to *)
Total(msgs, kinds) == FoldLeft(LAMBDA s, m : IF m.value.kind \in kinds THEN s + m.value.n ELSE s, 0, msgs)

SumCombine(msgs) == [msgs[1] EXCEPT !.value = Value("float", Total(msgs, Numbers))]

(* The first message with the best value, if any is better than the limit
   the search begins with; otherwise the first message as it is *)
BestOf(msgs, limit, Better(_, _)) ==
    LET better(b, m) == IF m.value.kind \in Numbers /\ Better(m.value.n, b.value.n) THEN m ELSE b
        best == FoldLeft(better, [msgs[1] EXCEPT !.value = Value("none", limit)], msgs)
    IN  IF best.value.kind = "none" THEN msgs[1] ELSE [best EXCEPT !.value.kind = "float"]

(* Mutant: the search begins with zero *)
MinCombine_FromZero(msgs) == BestOf(msgs, 0, <)

MinCombine(msgs) == BestOf(msgs, Infinity, <)
MaxCombine(msgs) == BestOf(msgs, -Infinity, >)

(* a list, which no program looks into *)
ListCombine(msgs) == [msgs[1] EXCEPT !.value = Value("other", Len(msgs))]

(* NoCombiner, used as a combiner, keeps the first message only *)
NoCombine(msgs) == msgs[1]

Combiners == {"none", "sum", "min", "max", "list", "no"}

(* GetMessages of the aggregator *)
Combined(combiner, msgs) ==
    IF combiner = "none" \/ Len(msgs) <= 1 THEN msgs
    ELSE << CASE combiner = "sum"  -> SumCombine(msgs)
              [] combiner = "min"  -> MinCombine(msgs)
              [] combiner = "max"  -> MaxCombine(msgs)
              [] combiner = "list" -> ListCombine(msgs)
              [] combiner = "no"   -> NoCombine(msgs) >>

--------------------------------------------------------------------------------
(* Programs: Compute returns the new state, the messages sent and the vote *)

Lookup(state, key, default) == IF key \in DOMAIN state THEN state[key] ELSE default
Outcome(state, sent, halt) == [state |-> state, sent |-> sent, halt |-> halt]

Counter(v, state, msgs) ==
    LET count == Lookup(state, "count", 0) + 1
        halt == count >= MaxCount
        neighbors == IF halt THEN <<>> ELSE Lookup(state, "neighbors", <<>>)
        counted == [k \in DOMAIN state \cup {"count", "last_messages"} |->
                       CASE k = "count" -> count [] k = "last_messages" -> Len(msgs) [] OTHER -> state[k]]
    IN  Outcome(counted,
                [i \in DOMAIN neighbors |-> Message(v, neighbors[i], Value("int", count))],
                halt)

(* The new state has no edges: a vertex sends only in its first superstep.
   A state without an iteration makes the program panic. *)
PageRank(v, state, msgs) ==
    LET old == Lookup(state, "rank", RankUnit)
        new == (RankUnit - Damping) + (Damping * Total(msgs, {"float"})) \div RankUnit
        delta == IF new < old THEN old - new ELSE new - old
        halt == delta < Convergence
        edges == IF halt THEN <<>> ELSE Lookup(state, "edges", <<>>)
    IN  Outcome([rank |-> new, delta |-> delta, iteration |-> state["iteration"] + 1],
                [i \in DOMAIN edges |-> Message(v, edges[i], Value("float", new \div Len(edges)))],
                halt)

(* edges maps the neighbours to weights *)
ShortestPath(v, state, msgs) ==
    LET isSource == v = SourceVertex
        found == Lookup(state, "distance", Infinity)
        current == IF isSource /\ found = Infinity THEN 0 ELSE found
        smallest(d, m) == IF IsFloat(m) /\ m.value.n < d THEN m.value.n ELSE d
        distance == FoldLeft(smallest, current, msgs)
        first == isSource /\ current = 0 /\ msgs = <<>>
        changed == distance < current \/ first
        edges == IF changed THEN SetToSeq(DOMAIN state["edges"]) ELSE <<>>
    IN  Outcome([distance |-> distance, edges |-> state["edges"], changed |-> changed],
                [i \in DOMAIN edges |->
                    Message(v, edges[i], Value("float", distance + state["edges"][edges[i]]))],
                ~changed)

Programs == {"counter", "rank", "path"}

Compute(program, v, state, msgs) ==
    CASE program = "counter" -> Counter(v, state, msgs)
      [] program = "rank"    -> PageRank(v, state, msgs)
      [] program = "path"    -> ShortestPath(v, state, msgs)
================================================================================
