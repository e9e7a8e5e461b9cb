-------------------------------- MODULE Streamer --------------------------------
(***************************************************************************)
(* Streamer (internal/core/pregel/streaming.go): a bounded Go channel of   *)
(* events and a goroutine that hands them to the handlers.  EmitEvent      *)
(* drops an event when the channel is full.                                *)
(*                                                                         *)
(* Events are numbered in the order of their emission.  Stop closes the    *)
(* channel, so an event emitted later, or a second Stop after a second     *)
(* Start, panics, and from then on the process takes no step.              *)
(***************************************************************************)
EXTENDS Naturals, Sequences, FiniteSets

CONSTANTS
    Streamers,
    StreamCapacity,      \* 1000 in the code
    MaxEmitted           \* bound on the events of a streamer

ASSUME StreamerAssumption == StreamCapacity \in Nat \ {0} /\ MaxEmitted \in Nat

VARIABLE streamer

NewStreamer == [events |-> <<>>, running |-> FALSE, closed |-> FALSE,
                idle |-> 0, held |-> {},         \* consumers without an event, events of the others
                starts |-> 0, emitted |-> 0, dropped |-> 0,
                handled |-> 0, last |-> 0,       \* how many events were handled, the last of them
                zero |-> FALSE,                  \* handlers were given a zero StreamEvent
                panicked |-> FALSE]

StreamerInit == streamer = [s \in Streamers |-> NewStreamer]

Lives == \A s \in Streamers : ~streamer[s].panicked

Started(r) ==
    IF r.running THEN r ELSE [r EXCEPT !.running = TRUE, !.idle = @ + 1, !.starts = @ + 1]

EmitEvent(r) ==
    LET n == r.emitted + 1 IN
    IF r.closed THEN [r EXCEPT !.panicked = TRUE]
    ELSE IF Len(r.events) < StreamCapacity
         THEN [r EXCEPT !.emitted = n, !.events = Append(@, n)]
         ELSE [r EXCEPT !.emitted = n, !.dropped = @ + 1]

Stopped(r) ==
    IF ~r.running THEN r
    ELSE [r EXCEPT !.running = FALSE, !.closed = TRUE, !.panicked = r.closed]

Set(s, r) == streamer' = [streamer EXCEPT ![s] = r]

(* Mutant: the consumer takes the newest event *)
ConsumeEvent_Newest(s) ==
    LET r == streamer[s] IN
    /\ r.idle > 0 /\ r.events # <<>>
    /\ Set(s, [r EXCEPT !.idle = @ - 1, !.held = @ \cup {r.events[Len(r.events)]},
                        !.events = SubSeq(@, 1, Len(@) - 1)])

(* the goroutine of Start receives an event, also one left in a closed channel ... *)
ConsumeEvent(s) ==
    LET r == streamer[s] IN
    /\ r.idle > 0 /\ r.events # <<>>
    /\ Set(s, [r EXCEPT !.idle = @ - 1, !.held = @ \cup {Head(r.events)}, !.events = Tail(@)])

(* ... and hands it to the handlers under a lock it shares *)
HandleEvent(s, n) ==
    /\ n \in streamer[s].held
    /\ Set(s, [streamer[s] EXCEPT !.idle = @ + 1, !.held = @ \ {n}, !.handled = @ + 1, !.last = n])

(* a closed and empty channel is as ready to be received from as the context is done *)
ConsumeZero(s) ==
    /\ streamer[s].idle > 0 /\ streamer[s].closed /\ streamer[s].events = <<>>
    /\ Set(s, [streamer[s] EXCEPT !.zero = TRUE])

ConsumerExits(s) ==
    /\ streamer[s].idle > 0 /\ streamer[s].closed
    /\ Set(s, [streamer[s] EXCEPT !.idle = @ - 1])

StreamerRuns(s) ==
    \/ ConsumeEvent(s) \/ ConsumeZero(s) \/ ConsumerExits(s)
    \/ \E n \in streamer[s].held : HandleEvent(s, n)

(* A user's calls: StreamingEngine.Run starts and stops its streamer, Stop of an
   engine stops it while Run may be emitting *)
UserCalls(s) ==
    \/ Set(s, Started(streamer[s]))
    \/ Set(s, Stopped(streamer[s]))
    \/ streamer[s].emitted < MaxEmitted /\ Set(s, EmitEvent(streamer[s]))

StreamerNext == Lives /\ \E s \in Streamers : StreamerRuns(s) \/ UserCalls(s)

--------------------------------------------------------------------------------
(* Properties *)

(* Handlers get the events in the order they were emitted; each is handled once,
   dropped, or waiting, and after Stop it may wait for ever.  In a streamer that is
   started again after Stop two consumers may swap events, but still none is
   handled twice or lost; and a sequence of calls panics only after a Stop (Start,
   EmitEvent, Stop). *)
HandledInOrder ==
    \A s \in Streamers :
        LET r == streamer[s]
            waiting == {r.events[i] : i \in DOMAIN r.events} \cup r.held
        IN  /\ r.handled + Len(r.events) + Cardinality(r.held) + r.dropped = r.emitted
            /\ waiting \subseteq 1 .. r.emitted /\ Cardinality(waiting) = Len(r.events) + Cardinality(r.held)
            /\ r.starts <= 1 => \A n \in waiting : r.last < n
            /\ \A i, j \in DOMAIN r.events : i < j => r.events[i] < r.events[j]
            /\ r.panicked => r.closed

--------------------------------------------------------------------------------
(* The inductive invariant.  It is that of one streamer: they share nothing. *)

StreamerSpec == StreamerInit /\ [][StreamerNext]_streamer

StreamerRecord ==
    [events : Seq(Nat), running : BOOLEAN, closed : BOOLEAN, idle : Nat, held : SUBSET Nat,
     starts : Nat, emitted : Nat, dropped : Nat, handled : Nat, last : Nat,
     zero : BOOLEAN, panicked : BOOLEAN]

(* There are at most as many consumers as starts, and a lone consumer holds what was
   emitted before everything in the channel. *)
ConsumersInOrder(r) ==
    /\ IsFiniteSet(r.held)
    /\ r.idle + Cardinality(r.held) <= r.starts
    /\ r.last <= r.emitted
    /\ \A i \in DOMAIN r.events : r.events[i] \in 1 .. r.emitted /\ r.events[i] \notin r.held
    /\ \A n \in r.held : n \in 1 .. r.emitted
    /\ r.starts <= 1 => \A n \in r.held : \A i \in DOMAIN r.events : n < r.events[i]
    /\ r.starts <= 1 => \A n \in r.held : r.last < n
    /\ r.starts <= 1 => \A i \in DOMAIN r.events : r.last < r.events[i]
    /\ \A i, j \in DOMAIN r.events : i < j => r.events[i] < r.events[j]
    /\ r.handled + Len(r.events) + Cardinality(r.held) + r.dropped = r.emitted
    /\ r.panicked => r.closed

StreamerInv ==
    /\ streamer \in [Streamers -> StreamerRecord]
    /\ \A s \in Streamers : ConsumersInOrder(streamer[s])
================================================================================
