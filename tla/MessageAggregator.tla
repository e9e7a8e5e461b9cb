--------------------------- MODULE MessageAggregator ---------------------------
(***************************************************************************)
(* MessageAggregator (internal/core/pregel/message.go): the messages by    *)
(* target vertex.  Each method holds its mutex throughout.  The combiner   *)
(* is applied when messages are read, never to what is kept.               *)
(***************************************************************************)
EXTENDS VertexPrograms

CONSTANTS
    MailValues,          \* the values sent
    MaxMail,             \* bound on the messages kept for a vertex
    ProgramStates        \* ProgramStates[p]: states a vertex of program p may be in

(* A distance is never more than the one ShortestPathVertex begins with. *)
ASSUME MessageAggregatorAssumption ==
    /\ MaxMail \in Nat
    /\ MailValues \subseteq [kind : {"int", "float", "other"}, n : Int]
    /\ \A s \in ProgramStates["path"] :
          LET d == Lookup(s, "distance", Infinity) IN d \in Int /\ d <= Infinity

VARIABLE aggregated      \* aggregated[v]: the messages for v

MailInit == aggregated = [v \in Vertices |-> <<>>]

AddMessage(m) ==
    /\ Len(aggregated[m.to]) < MaxMail
    /\ aggregated' = [aggregated EXCEPT ![m.to] = Append(@, m)]

Clear == aggregated' = [v \in Vertices |-> <<>>]

RemoveMessagesForVertex(v) == aggregated' = [aggregated EXCEPT ![v] = <<>>]

GetMessages(combiner, v) == Combined(combiner, aggregated[v])

MailNext ==
    \/ \E from, to \in Vertices, x \in MailValues : AddMessage(Message(from, to, x))
    \/ Clear
    \/ \E v \in Vertices : RemoveMessagesForVertex(v)

MailSpec == MailInit /\ [][MailNext]_aggregated

--------------------------------------------------------------------------------
(* Properties *)

(* Reading through the combiner made for a program does not change what the
   program computes, whatever was sent and in whatever order: PageRank with the
   sum, shortest paths with the minimum, as long as the messages have the type the
   program sends, and the counter with any combiner but for the number of messages
   it notes (GetMessages, Combine, Compute). *)
CombiningIsTransparent ==
    \A v \in Vertices :
        LET raw == aggregated[v]
            same(program, combiner) ==
                \A s \in ProgramStates[program] :
                    Compute(program, v, s, GetMessages(combiner, v)) = Compute(program, v, s, raw)
        IN  /\ (\A i \in DOMAIN raw : IsFloat(raw[i]))
               => same("rank", "sum") /\ same("path", "min")
            /\ \A combiner \in Combiners, s \in ProgramStates["counter"] :
                  LET one == Compute("counter", v, s, GetMessages(combiner, v))
                      all == Compute("counter", v, s, raw)
                  IN  /\ <<one.halt, one.sent>> = <<all.halt, all.sent>>
                      /\ one.state["count"] = all.state["count"]
================================================================================
