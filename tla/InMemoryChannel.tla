---------------------------- MODULE InMemoryChannel ----------------------------
(***************************************************************************)
(* InMemoryChannel (internal/core/channel/inmemory.go): a Go channel and a *)
(* closed flag guarded by a mutex.  Send and Receive look at the flag      *)
(* under the mutex, release it and only then use the Go channel, so Close  *)
(* can run in between.                                                     *)
(*                                                                         *)
(* The Go channel is the sequence messages.  Close sets the flag and       *)
(* closes the Go channel under the mutex, in one step.  A send on a closed *)
(* Go channel panics; a receive from a closed and drained one returns the  *)
(* zero Message at once, which is NoMsg here.                              *)
(***************************************************************************)
EXTENDS Integers, Sequences

CONSTANTS Procs, Msgs, Invalid, Capacity, NoMsg

VARIABLES
    messages, closed,
    call,       \* as in MessageChannel; an outcome "panicked" is added
    selecting   \* the goroutines that found the flag unset and entered select

inMemoryVars == <<messages, closed, call, selecting>>

Abstract == INSTANCE MessageChannel WITH queue <- messages, open <- ~closed

ASSUME InMemoryAssumption ==
    /\ Capacity \in Nat \ {0}
    /\ NoMsg \notin Msgs \cup Invalid
    /\ Msgs \cap Invalid = {}

Pending == {"send", "receive"}
IsPending(p) == call[p].st \in Pending

(* NewInMemoryChannel *)
InMemoryInit ==
    /\ messages = <<>> /\ closed = FALSE
    /\ call = [p \in Procs |-> [st |-> "idle", msg |-> NoMsg]]
    /\ selecting = {}

Answer(p, st, m) ==
    /\ call' = [call EXCEPT ![p] = [st |-> st, msg |-> m]]
    /\ selecting' = selecting \ {p}

Select(p) == selecting' = selecting \cup {p} /\ UNCHANGED call

(* A panic ends its goroutine *)
InvokeSend(p, m) ==
    /\ ~IsPending(p) /\ call[p].st # "panicked"
    /\ Answer(p, "send", m)
    /\ UNCHANGED <<messages, closed>>

InvokeReceive(p) ==
    /\ ~IsPending(p) /\ call[p].st # "panicked"
    /\ Answer(p, "receive", NoMsg)
    /\ UNCHANGED <<messages, closed>>

Calling(p, op) == call[p].st = op /\ p \notin selecting
Selecting(p, op) == call[p].st = op /\ p \in selecting

(* Send up to RUnlock *)
SendCheck(p) ==
    /\ Calling(p, "send")
    /\ IF call[p].msg \in Invalid THEN Answer(p, "invalid", NoMsg)
       ELSE IF closed THEN Answer(p, "closed", NoMsg)
       ELSE Select(p)
    /\ UNCHANGED <<messages, closed>>

(* case c.messages <- message *)
SendPut(p) ==
    /\ Selecting(p, "send")
    /\ ~closed /\ Len(messages) < Capacity
    /\ messages' = Append(messages, call[p].msg)
    /\ Answer(p, "sent", NoMsg)
    /\ UNCHANGED closed

(* the same case when Close has run since the check *)
SendPanic(p) ==
    /\ Selecting(p, "send")
    /\ closed
    /\ Answer(p, "panicked", NoMsg)
    /\ UNCHANGED <<messages, closed>>

(* Receive up to RUnlock, when the channel is open *)
ReceiveCheck(p) ==
    /\ Calling(p, "receive")
    /\ ~closed
    /\ Select(p)
    /\ UNCHANGED <<messages, closed>>

(* Mutant: the head is returned and stays *)
ReceivePeek(p) ==
    /\ \/ Selecting(p, "receive")
       \/ Calling(p, "receive") /\ closed
    /\ messages # <<>>
    /\ Answer(p, "received", Head(messages))
    /\ UNCHANGED <<messages, closed>>

(* case msg := <-c.messages, of either select *)
ReceiveGet(p) ==
    /\ \/ Selecting(p, "receive")
       \/ Calling(p, "receive") /\ closed
    /\ messages # <<>>
    /\ messages' = Tail(messages)
    /\ Answer(p, "received", Head(messages))
    /\ UNCHANGED closed

(* the same case on a closed and drained Go channel: it is always ready, so the
   default that returns ErrChannelClosed is never taken *)
ReceiveZero(p) ==
    /\ \/ Selecting(p, "receive")
       \/ Calling(p, "receive")
    /\ closed /\ messages = <<>>
    /\ Answer(p, "received", NoMsg)
    /\ UNCHANGED <<messages, closed>>

(* case <-ctx.Done and case <-time.After *)
GiveUp(p) ==
    /\ p \in selecting
    /\ Answer(p, "gave up", NoMsg)
    /\ UNCHANGED <<messages, closed>>

Close ==
    /\ ~closed
    /\ closed' = TRUE
    /\ UNCHANGED <<messages, call, selecting>>

InMemoryNext ==
    \/ \E p \in Procs :
          \/ \E m \in Msgs \cup Invalid : InvokeSend(p, m)
          \/ InvokeReceive(p)
          \/ SendCheck(p) \/ SendPut(p) \/ SendPanic(p)
          \/ ReceiveCheck(p) \/ ReceiveGet(p) \/ ReceiveZero(p)
          \/ GiveUp(p)
    \/ Close

InMemorySpec == InMemoryInit /\ [][InMemoryNext]_inMemoryVars

--------------------------------------------------------------------------------
(* Properties *)

(* As long as nobody closes it, the in-memory channel is a MessageChannel: the
   flag that is read in one critical section and used after it cannot be stale
   (Send, Receive). *)
ImplementsWhileOpen ==
    Abstract!Init /\ [][~closed => Abstract!Next \/ UNCHANGED Abstract!vars]_inMemoryVars

--------------------------------------------------------------------------------
(* What the documentation says and the code does not do *)

(* "Thread-safe: Uses proper synchronization": no call panics. *)
NoPanic == \A p \in Procs : call[p].st # "panicked"

--------------------------------------------------------------------------------
(* The inductive invariant *)

(* Only a call that is pending, and a send of a valid message, gets to the select. *)
InMemoryInv ==
    /\ messages \in Seq(Msgs) /\ Len(messages) <= Capacity
    /\ closed \in BOOLEAN
    /\ call \in [Procs -> [st : Pending \cup {"idle", "sent", "received", "closed", "gave up", "invalid", "panicked"},
                           msg : Msgs \cup Invalid \cup {NoMsg}]]
    /\ selecting \subseteq Procs
    /\ \A p \in selecting : IsPending(p)
    /\ \A p \in Procs : call[p].st = "send" => call[p].msg # NoMsg
    /\ \A p \in selecting : call[p].st = "send" => call[p].msg \in Msgs
================================================================================
