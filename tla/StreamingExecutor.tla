--------------------------- MODULE StreamingExecutor ---------------------------
(***************************************************************************)
(* StreamingExecutor and its event bus                                     *)
(* (internal/app/usecases/streaming_executor.go) around a GraphExecutor.   *)
(*                                                                         *)
(* Execute publishes "started", calls the base executor, and only when     *)
(* that has returned publishes the events of the nodes, from the steps of  *)
(* the response.  The event bus starts a goroutine for each event and      *)
(* subscriber; `inflight' is the bag of events these have not handled yet, *)
(* so they are handled in any order.  The subscriber is MetricsSubscriber, *)
(* which counts under its own mutex.                                       *)
(*                                                                         *)
(* Not here: hooks, which are called in place, and the streaming channel,  *)
(* a Send whose error is dropped (see the channel modules).  Resume and    *)
(* Stop publish one event each, of types MetricsSubscriber does not get,   *)
(* and call the base executor.                                             *)
(***************************************************************************)
EXTENDS GraphExecutor, Bags

CONSTANTS
    Streaming,         \* the calls made through the streaming executor
    Subscriptions      \* how often Subscribe may have been called before the first Execute

ASSUME StreamingAssumption == Streaming \subseteq Executions /\ Subscriptions \subseteq Nat

VARIABLES
    subscriptions,     \* how often the subscriber is in the list of each of its types
    stage,             \* stage[e]: whether e was called, or has panicked
    published,         \* published[e]: how many events of the response are out
    inflight,
    eventCounts, nodeDurations, executionTimes    \* MetricsSubscriber

streamVars == <<subscriptions, stage, published, inflight, eventCounts, nodeDurations, executionTimes>>
allVars == <<vars, streamVars>>

MetricTypes == {"started", "node_finished", "completed", "failed"}    \* GetEventTypes
Event(type, e, node) == [type |-> type, exec |-> e, node |-> node]

StreamInit ==
    /\ Init
    /\ subscriptions \in Subscriptions
    /\ stage = [e \in Streaming |-> "idle"]
    /\ published = [e \in Streaming |-> 0]
    /\ inflight = EmptyBag
    /\ eventCounts = [t \in MetricTypes |-> 0]
    /\ nodeDurations = [n \in NodeIds |-> 0]
    /\ executionTimes = {}

(* Mutant: an event that is under way already is not sent again *)
Published_Once(event) ==
    IF event.type \in MetricTypes /\ subscriptions > 0
    THEN [x \in BagToSet(inflight) \cup {event} |-> subscriptions]
    ELSE inflight

(* Publish: one goroutine for each entry of the list of subscribers *)
Published(event) ==
    IF event.type \in MetricTypes /\ subscriptions > 0
    THEN inflight (+) [x \in {event} |-> subscriptions]
    ELSE inflight

StreamingExecute(e, request, input) ==
    /\ stage[e] = "idle"
    /\ Execute(e, request, input)
    /\ stage' = [stage EXCEPT ![e] = "running"]
    /\ inflight' = Published(Event("started", e, NoId))
    /\ UNCHANGED <<subscriptions, published, eventCounts, nodeDurations, executionTimes>>

(* the two events of each step, then the end; after an error only the end *)
EventsOf(e) ==
    LET steps == exec[e].steps
        ofStep(i) == <<Event("node_started", e, steps[i]), Event("node_finished", e, steps[i])>>
    IN  IF exec[e].status = "failed" THEN <<Event("failed", e, NoId)>>
        ELSE FlattenSeq([i \in DOMAIN steps |-> ofStep(i)]) \o <<Event("completed", e, NoId)>>

(* enhanceResponseWithStreaming and the final event, once the base         *)
(* executor has returned                                                   *)
PublishNext(e) ==
    /\ stage[e] = "running" /\ exec[e].pc = "returned" /\ exec[e].status # "none"
    /\ published[e] < Len(EventsOf(e))
    /\ inflight' = Published(EventsOf(e)[published[e] + 1])
    /\ published' = [published EXCEPT ![e] = @ + 1]
    /\ UNCHANGED <<vars, subscriptions, stage, eventCounts, nodeDurations, executionTimes>>

(* Execute reads response.ExecutionID, also of the nil response a refused  *)
(* request is answered with.                                               *)
Panic(e) ==
    /\ stage[e] = "running" /\ exec[e].pc = "returned" /\ exec[e].status = "none"
    /\ stage' = [stage EXCEPT ![e] = "panicked"]
    /\ UNCHANGED <<vars, subscriptions, published, inflight, eventCounts, nodeDurations, executionTimes>>

Done(e) ==
    /\ stage[e] = "running" /\ exec[e].pc = "returned" /\ exec[e].status # "none"
    /\ published[e] = Len(EventsOf(e))

(* HandleEvent of MetricsSubscriber.  Only "completed" carries a duration. *)
HandleEvent(event) ==
    /\ inflight' = inflight (-) SetToBag({event})
    /\ eventCounts' = [eventCounts EXCEPT ![event.type] = @ + 1]
    /\ nodeDurations' = IF event.type = "node_finished"
                        THEN [nodeDurations EXCEPT ![event.node] = @ + 1] ELSE nodeDurations
    /\ executionTimes' = IF event.type = "completed"
                         THEN executionTimes \cup {event.exec} ELSE executionTimes
    /\ UNCHANGED <<vars, subscriptions, stage, published>>

StreamStep(e) == PublishNext(e) \/ Panic(e)

(* what runs by itself, and what callers do *)
Run(e) ==
    \/ RunStep(e) /\ UNCHANGED streamVars
    \/ e \in Streaming /\ StreamStep(e)

Callers ==
    \/ /\ \/ Edit
          \/ \E e \in Executions : Call(e, Requests, IF e \in Streaming THEN {} ELSE Inputs)
          \/ \E e \in Executions : Stop(e)
          \/ \E c \in checkpoints : DeleteCheckpoint(c)
       /\ UNCHANGED streamVars
    \/ \E e \in Streaming, r \in Requests, i \in Inputs : StreamingExecute(e, r, i)

Next ==
    \/ Callers
    \/ \E e \in Executions : Run(e)
    \/ \E event \in BagToSet(inflight) : HandleEvent(event)

Spec == StreamInit /\ [][Next]_allVars

----------------------------------------------------------------------------
(* Properties *)

(* Handlers run on goroutines of their own, in any order, for calls that   *)
(* interleave.  When all events are handled the metrics are those of the   *)
(* executions all the same: one start for each call, one end for each call *)
(* that did not panic, and every node of each completed execution as often *)
(* as it was executed (MetricsSubscriber.HandleEvent, Publish).            *)
MetricsAddUp ==
    LET done == {e \in Streaming : Done(e)}
        with(s) == {e \in done : exec[e].status = s}
        visits(n) == UNION {{<<e, i>> : i \in {j \in DOMAIN exec[e].steps : exec[e].steps[j] = n}} :
                               e \in with("completed")}
    IN  /\ inflight = EmptyBag
        /\ \A e \in Streaming : stage[e] # "running" \/ Done(e)
        => /\ eventCounts["started"]
                = subscriptions * Cardinality({e \in Streaming : stage[e] # "idle"})
           /\ \A s \in {"completed", "failed"} :
                eventCounts[s] = subscriptions * Cardinality(with(s))
           /\ \A n \in NodeIds : nodeDurations[n] = subscriptions * Cardinality(visits(n))
           /\ subscriptions > 0 => executionTimes = with("completed")
================================================================================
