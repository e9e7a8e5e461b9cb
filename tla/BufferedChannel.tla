---------------------------- MODULE BufferedChannel ----------------------------
(***************************************************************************)
(* BufferedChannel (internal/core/channel/buffered.go): a slice guarded by *)
(* a mutex, and a notify channel that stands in for a condition variable.  *)
(* A goroutine that finds the buffer full or empty keeps a reference to    *)
(* the current notify channel, releases the mutex and waits for it to be   *)
(* closed; signal replaces the notify channel and closes the old one.      *)
(*                                                                         *)
(* Every action up to a release of the mutex is one step.  Of the notify   *)
(* channels only one thing matters, whether a waiting goroutine holds the  *)
(* current one (it is in listeners) or one that has been closed.           *)
(***************************************************************************)
EXTENDS Integers, Sequences

CONSTANTS Procs, Msgs, Invalid, Capacity, NoMsg

VARIABLES
    buffer, closed,
    call,        \* as in MessageChannel
    waiting,     \* the goroutines in the select of Send or Receive
    listeners    \* those of them that hold the current notify channel

vars == <<buffer, closed, call, waiting, listeners>>

(* The channel this one implements *)
Abstract == INSTANCE MessageChannel WITH queue <- buffer, open <- ~closed

ASSUME BufferedAssumption ==
    /\ Capacity \in Nat \ {0}
    /\ NoMsg \notin Msgs \cup Invalid
    /\ Msgs \cap Invalid = {}

Pending == {"send", "receive"}
Outcomes == {"idle", "sent", "received", "closed", "gave up", "invalid"}
Call == [st : Pending \cup Outcomes, msg : Msgs \cup Invalid \cup {NoMsg}]

IsPending(p) == call[p].st \in Pending

(* NewBufferedChannel *)
Init ==
    /\ buffer = <<>> /\ closed = FALSE
    /\ call = [p \in Procs |-> [st |-> "idle", msg |-> NoMsg]]
    /\ waiting = {} /\ listeners = {}

--------------------------------------------------------------------------------
Answer(p, st, m) == call' = [call EXCEPT ![p] = [st |-> st, msg |-> m]]

(* Mutant: wakes one waiter instead of all *)
signalOne ==
    listeners' = IF listeners = {} THEN {}
                                   ELSE listeners \ {CHOOSE p \in listeners : TRUE}

(* signal: a fresh notify channel that nobody waits for; the old one closed *)
signal == listeners' = {}

(* the caller invokes Send or Receive *)
InvokeSend(p, m) ==
    /\ ~IsPending(p)
    /\ Answer(p, "send", m)
    /\ UNCHANGED <<buffer, closed, waiting, listeners>>

InvokeReceive(p) ==
    /\ ~IsPending(p)
    /\ Answer(p, "receive", NoMsg)
    /\ UNCHANGED <<buffer, closed, waiting, listeners>>

(* p runs the loop of Send or Receive, or begins it *)
Running(p, op) == call[p].st = op /\ p \notin waiting

(* the message is validated before the loop *)
SendInvalid(p) ==
    /\ Running(p, "send") /\ call[p].msg \in Invalid
    /\ Answer(p, "invalid", NoMsg)
    /\ UNCHANGED <<buffer, closed, waiting, listeners>>

SendClosed(p) ==
    /\ Running(p, "send") /\ call[p].msg \in Msgs
    /\ closed
    /\ Answer(p, "closed", NoMsg)
    /\ UNCHANGED <<buffer, closed, waiting, listeners>>

(* Mutant: one slot too many *)
SendAppendOver(p) ==
    /\ Running(p, "send") /\ call[p].msg \in Msgs
    /\ ~closed /\ Len(buffer) <= Capacity
    /\ buffer' = Append(buffer, call[p].msg)
    /\ signal
    /\ Answer(p, "sent", NoMsg)
    /\ UNCHANGED <<closed, waiting>>

(* Mutant: closed is not looked at again after waiting *)
SendAppendClosed(p) ==
    /\ Running(p, "send") /\ call[p].msg \in Msgs
    /\ Len(buffer) < Capacity
    /\ buffer' = Append(buffer, call[p].msg)
    /\ signal
    /\ Answer(p, "sent", NoMsg)
    /\ UNCHANGED <<closed, waiting>>

SendAppend(p) ==
    /\ Running(p, "send") /\ call[p].msg \in Msgs
    /\ ~closed /\ Len(buffer) < Capacity
    /\ buffer' = Append(buffer, call[p].msg)
    /\ signal
    /\ Answer(p, "sent", NoMsg)
    /\ UNCHANGED <<closed, waiting>>

(* Need to wait for space: the current notify channel is kept *)
SendWait(p) ==
    /\ Running(p, "send") /\ call[p].msg \in Msgs
    /\ ~closed /\ Len(buffer) >= Capacity
    /\ waiting' = waiting \cup {p}
    /\ listeners' = listeners \cup {p}
    /\ UNCHANGED <<buffer, closed, call>>

(* Mutant: a receive frees a slot and tells nobody *)
ReceivePopSilent(p) ==
    /\ Running(p, "receive")
    /\ buffer # <<>>
    /\ buffer' = Tail(buffer)
    /\ Answer(p, "received", Head(buffer))
    /\ UNCHANGED <<closed, waiting, listeners>>

(* the buffer is looked at before closed *)
ReceivePop(p) ==
    /\ Running(p, "receive")
    /\ buffer # <<>>
    /\ buffer' = Tail(buffer)
    /\ signal
    /\ Answer(p, "received", Head(buffer))
    /\ UNCHANGED <<closed, waiting>>

ReceiveClosed(p) ==
    /\ Running(p, "receive")
    /\ buffer = <<>> /\ closed
    /\ Answer(p, "closed", NoMsg)
    /\ UNCHANGED <<buffer, closed, waiting, listeners>>

ReceiveWait(p) ==
    /\ Running(p, "receive")
    /\ buffer = <<>> /\ ~closed
    /\ waiting' = waiting \cup {p}
    /\ listeners' = listeners \cup {p}
    /\ UNCHANGED <<buffer, closed, call>>

(* case <-ch: the notify channel p holds has been closed; p loops *)
Wake(p) ==
    /\ p \in waiting \ listeners
    /\ waiting' = waiting \ {p}
    /\ UNCHANGED <<buffer, closed, call, listeners>>

(* ctx.Err, the deadline, case <-ctx.Done and case <-time.After *)
GiveUp(p) ==
    /\ p \in waiting
    /\ waiting' = waiting \ {p}
    /\ listeners' = listeners \ {p}
    /\ Answer(p, "gave up", NoMsg)
    /\ UNCHANGED <<buffer, closed>>

(* Close; closing a second time does nothing *)
Close ==
    /\ ~closed
    /\ closed' = TRUE
    /\ signal
    /\ UNCHANGED <<buffer, call, waiting>>

Clear ==
    /\ buffer' = <<>>
    /\ signal
    /\ UNCHANGED <<closed, call, waiting>>

--------------------------------------------------------------------------------
(* what p does once its call is under way and the mutex is free *)
Step(p) ==
    \/ SendInvalid(p) \/ SendClosed(p) \/ SendAppend(p) \/ SendWait(p)
    \/ ReceivePop(p) \/ ReceiveClosed(p) \/ ReceiveWait(p)
    \/ Wake(p)

Next ==
    \/ \E p \in Procs :
          \/ \E m \in Msgs \cup Invalid : InvokeSend(p, m)
          \/ InvokeReceive(p)
          \/ Step(p)
          \/ GiveUp(p)
    \/ Close
    \/ Clear

Spec == Init /\ [][Next]_vars

(* A goroutine that can run runs, and gets the mutex; nobody has to call
   anything, and no timeout is counted on. *)
FairSpec == Spec /\ \A p \in Procs : WF_vars(Step(p))

--------------------------------------------------------------------------------
(* Properties *)

TypeOK ==
    /\ buffer \in Seq(Msgs) /\ Len(buffer) <= Capacity
    /\ closed \in BOOLEAN
    /\ call \in [Procs -> Call]
    /\ waiting \subseteq Procs
    /\ listeners \subseteq waiting
    /\ \A p \in waiting : IsPending(p)

(* No wakeup is lost: a goroutine that waits for the notify channel to be closed
   is waiting for something that has not happened yet.  A receiver's buffer is
   empty, a sender's is full, and the channel is open.  The state is examined
   under the mutex and waited for without it; signal must be called by every
   change, and before the mutex is released (Send, Receive, Close, Clear). *)
NoLostWakeup ==
    \A p \in listeners :
        /\ ~closed
        /\ call[p].st = "receive" => buffer = <<>>
        /\ call[p].st = "send" => Len(buffer) = Capacity

(* The buffered channel is a bounded FIFO queue with atomic operations
   (Send, Receive, Close, Clear). *)
ImplementsMessageChannel == Abstract!Spec

(* No call sleeps on when it could go on: with a message there to receive, with
   room to send, or once the channel is closed, the call returns or another one
   takes the message or the room first, and that without any timeout and whoever
   else waits, closes or clears (the broadcast of signal). *)
Servable(p) ==
    /\ IsPending(p)
    /\ \/ closed
       \/ call[p].st = "receive" /\ buffer # <<>>
       \/ call[p].st = "send" /\ Len(buffer) < Capacity

WaitersServed == \A p \in Procs : Servable(p) ~> ~Servable(p)

================================================================================
