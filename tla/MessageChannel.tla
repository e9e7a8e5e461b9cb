----------------------------- MODULE MessageChannel ----------------------------
(***************************************************************************)
(* What internal/core/channel promises of a channel (the Channel interface *)
(* and its errors), independently of an implementation: a bounded FIFO     *)
(* queue of messages that several goroutines share and that can be closed. *)
(* A call takes effect in one step between its invocation and its return:  *)
(*                                                                         *)
(*   Send     appends the message, or returns ErrChannelClosed and appends *)
(*            nothing, or gives up (timeout, context) and appends nothing; *)
(*   Receive  returns the oldest message and removes it, or returns        *)
(*            ErrChannelClosed because the channel is closed and drained,  *)
(*            or gives up and removes nothing.                             *)
(*                                                                         *)
(* So every message is received at most once, in the order of sending, and *)
(* nothing is received that was not sent.                                  *)
(***************************************************************************)
EXTENDS Integers, Sequences

CONSTANTS
    Procs,      \* the goroutines that use the channel
    Msgs,       \* the messages that pass Message.Validate
    Invalid,    \* messages that do not
    Capacity,   \* how many messages the channel holds
    NoMsg       \* the message of a call that carries none, not in Msgs or Invalid

VARIABLES
    queue,      \* the messages sent and not received
    open,
    call        \* call[p]: the pending call of p, or the outcome of its last one

vars == <<queue, open, call>>

Pending == {"send", "receive"}
Outcomes == {"idle", "sent", "received", "closed", "gave up", "invalid"}

Call == [st : Pending \cup Outcomes, msg : Msgs \cup Invalid \cup {NoMsg}]

Idle == [st |-> "idle", msg |-> NoMsg]

IsPending(p) == call[p].st \in Pending

Init ==
    /\ queue = <<>>
    /\ open = TRUE
    /\ call = [p \in Procs |-> Idle]

Answer(p, st, m) == call' = [call EXCEPT ![p] = [st |-> st, msg |-> m]]

InvokeSend(p, m) ==
    /\ ~IsPending(p)
    /\ Answer(p, "send", m)
    /\ UNCHANGED <<queue, open>>

InvokeReceive(p) ==
    /\ ~IsPending(p)
    /\ Answer(p, "receive", NoMsg)
    /\ UNCHANGED <<queue, open>>

Reject(p) ==
    /\ call[p].st = "send" /\ call[p].msg \in Invalid
    /\ Answer(p, "invalid", NoMsg)
    /\ UNCHANGED <<queue, open>>

Accept(p) ==
    /\ call[p].st = "send" /\ call[p].msg \in Msgs
    /\ open
    /\ Len(queue) < Capacity
    /\ queue' = Append(queue, call[p].msg)
    /\ Answer(p, "sent", NoMsg)
    /\ UNCHANGED open

Deliver(p) ==
    /\ call[p].st = "receive"
    /\ queue # <<>>
    /\ queue' = Tail(queue)
    /\ Answer(p, "received", Head(queue))
    /\ UNCHANGED open

Refuse(p) ==
    /\ ~open
    /\ \/ call[p].st = "send"
       \/ call[p].st = "receive" /\ queue = <<>>
    /\ Answer(p, "closed", NoMsg)
    /\ UNCHANGED <<queue, open>>

GiveUp(p) ==
    /\ IsPending(p)
    /\ Answer(p, "gave up", NoMsg)
    /\ UNCHANGED <<queue, open>>

Close ==
    /\ open' = FALSE
    /\ UNCHANGED <<queue, call>>

(* only the buffered channel has it *)
Clear ==
    /\ queue' = <<>>
    /\ UNCHANGED <<open, call>>

Next ==
    \/ \E p \in Procs :
          \/ \E m \in Msgs \cup Invalid : InvokeSend(p, m)
          \/ InvokeReceive(p)
          \/ Reject(p) \/ Accept(p) \/ Deliver(p) \/ Refuse(p) \/ GiveUp(p)
    \/ Close
    \/ Clear

Spec == Init /\ [][Next]_vars

================================================================================
