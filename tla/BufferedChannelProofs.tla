------------------------- MODULE BufferedChannelProofs -------------------------
(***************************************************************************)
(* Theorems about the buffered channel, for any number of goroutines, any  *)
(* messages and any capacity.                                              *)
(***************************************************************************)
EXTENDS BufferedChannel, TLAPS

USE DEF Pending, Outcomes, IsPending

--------------------------------------------------------------------------------
(* Type correctness *)

LEMMA InitType == ASSUME BufferedAssumption, Init PROVE TypeOK
<1>1. buffer \in Seq(Msgs) /\ Len(buffer) <= Capacity
  BY DEF Init, BufferedAssumption
<1> QED
  BY <1>1 DEF Init, TypeOK, Call

(* An outcome is well typed *)
LEMMA AnswerType ==
    ASSUME TypeOK, NEW p \in Procs, NEW st \in Pending \cup Outcomes,
           NEW m \in Msgs \cup Invalid \cup {NoMsg}, Answer(p, st, m)
    PROVE  /\ call' \in [Procs -> Call]
           /\ call'[p] = [st |-> st, msg |-> m]
           /\ \A q \in Procs : q # p => call'[q] = call[q]
BY DEF TypeOK, Answer, Call

LEMMA NextType ==
    ASSUME BufferedAssumption, TypeOK, [Next]_vars
    PROVE  TypeOK'
<1>1. ASSUME NEW p \in Procs, NEW m \in Msgs \cup Invalid, InvokeSend(p, m) PROVE TypeOK'
  BY <1>1, AnswerType DEF InvokeSend, TypeOK
<1>2. ASSUME NEW p \in Procs, InvokeReceive(p) PROVE TypeOK'
  BY <1>2, AnswerType DEF InvokeReceive, TypeOK
<1>3. ASSUME NEW p \in Procs, SendInvalid(p) \/ SendClosed(p) \/ ReceiveClosed(p)
      PROVE  TypeOK'
  BY <1>3, AnswerType, ZenonT(40) DEF SendInvalid, SendClosed, ReceiveClosed, Running, TypeOK
<1>4. ASSUME NEW p \in Procs, SendAppend(p) PROVE TypeOK'
  <2>1. call[p].msg \in Msgs /\ Len(buffer) < Capacity /\ buffer' = Append(buffer, call[p].msg)
    BY <1>4 DEF SendAppend
  <2>2. buffer' \in Seq(Msgs) /\ Len(buffer') <= Capacity
    BY <2>1 DEF TypeOK, BufferedAssumption
  <2> QED
    BY <1>4, <2>2, AnswerType DEF SendAppend, signal, Running, TypeOK
<1>5. ASSUME NEW p \in Procs, SendWait(p) \/ ReceiveWait(p) PROVE TypeOK'
  BY <1>5 DEF SendWait, ReceiveWait, Running, TypeOK
<1>6. ASSUME NEW p \in Procs, ReceivePop(p) PROVE TypeOK'
  <2>1. buffer' = Tail(buffer) /\ buffer # <<>> /\ Head(buffer) \in Msgs
    BY <1>6 DEF ReceivePop, TypeOK
  <2>2. buffer' \in Seq(Msgs) /\ Len(buffer') <= Capacity
    BY <2>1 DEF TypeOK, BufferedAssumption
  <2> QED
    BY <1>6, <2>1, <2>2, AnswerType DEF ReceivePop, signal, Running, TypeOK
<1>7. ASSUME NEW p \in Procs, Wake(p) PROVE TypeOK'
  BY <1>7 DEF Wake, TypeOK
<1>8. ASSUME NEW p \in Procs, GiveUp(p) PROVE TypeOK'
  BY <1>8, AnswerType DEF GiveUp, TypeOK
<1>9. CASE Close
  BY <1>9 DEF Close, signal, TypeOK
<1>10. CASE Clear
  <2>1. <<>> \in Seq(Msgs) /\ Len(<<>>) <= Capacity
    BY DEF BufferedAssumption
  <2> QED
    BY <1>10, <2>1 DEF Clear, signal, TypeOK
<1>11. CASE UNCHANGED vars
  BY <1>11 DEF vars, TypeOK
<1> QED
  BY <1>1, <1>2, <1>3, <1>4, <1>5, <1>6, <1>7, <1>8, <1>9, <1>10, <1>11 DEF Next, Step

(* Every reachable state is well typed; the buffer never exceeds its capacity
   (Send). *)
THEOREM TypeCorrect == BufferedAssumption => (Spec => []TypeOK)
<1> SUFFICES ASSUME BufferedAssumption PROVE Spec => []TypeOK
  OBVIOUS
<1>1. Init => TypeOK
  BY InitType
<1>2. TypeOK /\ [Next]_vars => TypeOK'
  BY NextType
<1> QED
  BY <1>1, <1>2, PTL DEF Spec

--------------------------------------------------------------------------------
(* No wakeup is lost *)

LEMMA InitNoLostWakeup == Init => NoLostWakeup
BY DEF Init, NoLostWakeup

LEMMA NextNoLostWakeup ==
    ASSUME BufferedAssumption, TypeOK, NoLostWakeup, [Next]_vars
    PROVE  NoLostWakeup'
\* a goroutine that invokes a call is not waiting
<1>1. ASSUME NEW p \in Procs, NEW m \in Msgs \cup Invalid, InvokeSend(p, m)
      PROVE  NoLostWakeup'
  <2>1. p \notin listeners
    BY <1>1 DEF InvokeSend, TypeOK
  <2>2. UNCHANGED <<buffer, closed, listeners>> /\ Answer(p, "send", m)
    BY <1>1 DEF InvokeSend
  <2>3. \A q \in Procs : q # p => call'[q] = call[q]
    BY <2>2, AnswerType
  <2> QED
    BY <2>1, <2>2, <2>3 DEF NoLostWakeup, TypeOK
<1>2. ASSUME NEW p \in Procs, InvokeReceive(p) PROVE NoLostWakeup'
  <2>1. p \notin listeners
    BY <1>2 DEF InvokeReceive, TypeOK
  <2>2. UNCHANGED <<buffer, closed, listeners>> /\ Answer(p, "receive", NoMsg)
    BY <1>2 DEF InvokeReceive
  <2>3. \A q \in Procs : q # p => call'[q] = call[q]
    BY <2>2, AnswerType
  <2> QED
    BY <2>1, <2>2, <2>3 DEF NoLostWakeup, TypeOK
<1>3. ASSUME NEW p \in Procs, SendInvalid(p) \/ SendClosed(p) \/ ReceiveClosed(p)
      PROVE  NoLostWakeup'
  <2>1. p \notin listeners
    BY <1>3 DEF SendInvalid, SendClosed, ReceiveClosed, Running, TypeOK
  <2>2. /\ UNCHANGED <<buffer, closed, listeners>>
        /\ Answer(p, "invalid", NoMsg) \/ Answer(p, "closed", NoMsg)
    BY <1>3 DEF SendInvalid, SendClosed, ReceiveClosed
  <2>3. \A q \in Procs : q # p => call'[q] = call[q]
    BY <2>2, AnswerType
  <2> QED
    BY <2>1, <2>2, <2>3 DEF NoLostWakeup, TypeOK
\* what changes the buffer or closes the channel leaves no listener
<1>4. ASSUME NEW p \in Procs, SendAppend(p) \/ ReceivePop(p) PROVE NoLostWakeup'
  BY <1>4 DEF SendAppend, ReceivePop, signal, NoLostWakeup
<1>5. CASE Close \/ Clear
  BY <1>5 DEF Close, Clear, signal, NoLostWakeup
\* who begins to listen has seen the condition under the mutex
<1>6. ASSUME NEW p \in Procs, SendWait(p) PROVE NoLostWakeup'
  <2>1. Len(buffer) = Capacity
    BY <1>6 DEF SendWait, TypeOK, BufferedAssumption
  <2> QED
    BY <1>6, <2>1 DEF SendWait, Running, NoLostWakeup
<1>7. ASSUME NEW p \in Procs, ReceiveWait(p) PROVE NoLostWakeup'
  BY <1>7 DEF ReceiveWait, Running, NoLostWakeup
<1>8. ASSUME NEW p \in Procs, Wake(p) PROVE NoLostWakeup'
  BY <1>8 DEF Wake, NoLostWakeup
<1>9. ASSUME NEW p \in Procs, GiveUp(p) PROVE NoLostWakeup'
  <2>1. \A q \in Procs : q # p => call'[q] = call[q]
    BY <1>9, AnswerType DEF GiveUp
  <2> QED
    BY <1>9, <2>1 DEF GiveUp, NoLostWakeup, TypeOK
<1>10. CASE UNCHANGED vars
  BY <1>10 DEF vars, NoLostWakeup
<1> QED
  BY <1>1, <1>2, <1>3, <1>4, <1>5, <1>6, <1>7, <1>8, <1>9, <1>10 DEF Next, Step

(* Whoever waits for a signal waits for something that has not happened yet
   (signal, called under the mutex by Send, Receive, Close and Clear). *)
THEOREM NoWakeupIsLost == BufferedAssumption => (Spec => []NoLostWakeup)
<1> SUFFICES ASSUME BufferedAssumption PROVE Spec => []NoLostWakeup
  OBVIOUS
<1>1. Init => NoLostWakeup
  BY InitNoLostWakeup
<1>2. TypeOK /\ NoLostWakeup /\ [Next]_vars => NoLostWakeup'
  BY NextNoLostWakeup
<1>3. Spec => []TypeOK
  BY TypeCorrect
<1> QED
  BY <1>1, <1>2, <1>3, PTL DEF Spec

--------------------------------------------------------------------------------
(* The refinement *)

LEMMA InitRefines == Init => Abstract!Init
BY DEF Init, Abstract!Init, Abstract!Idle

LEMMA NextRefines ==
    ASSUME TypeOK, [Next]_vars
    PROVE  [Abstract!Next]_(Abstract!vars)
<1> USE DEF Abstract!IsPending, Abstract!Pending, Answer, Abstract!Answer
<1>1. ASSUME NEW p \in Procs, NEW m \in Msgs \cup Invalid, InvokeSend(p, m)
      PROVE  Abstract!InvokeSend(p, m)
  BY <1>1 DEF InvokeSend, Abstract!InvokeSend
<1>2. ASSUME NEW p \in Procs, InvokeReceive(p) PROVE Abstract!InvokeReceive(p)
  BY <1>2 DEF InvokeReceive, Abstract!InvokeReceive
<1>3. ASSUME NEW p \in Procs, SendInvalid(p) PROVE Abstract!Reject(p)
  BY <1>3 DEF SendInvalid, Running, Abstract!Reject
<1>4. ASSUME NEW p \in Procs, SendClosed(p) \/ ReceiveClosed(p) PROVE Abstract!Refuse(p)
  BY <1>4 DEF SendClosed, ReceiveClosed, Running, Abstract!Refuse
<1>5. ASSUME NEW p \in Procs, SendAppend(p) PROVE Abstract!Accept(p)
  BY <1>5 DEF SendAppend, Running, Abstract!Accept
<1>6. ASSUME NEW p \in Procs, ReceivePop(p) PROVE Abstract!Deliver(p)
  BY <1>6 DEF ReceivePop, Running, Abstract!Deliver
<1>7. ASSUME NEW p \in Procs, SendWait(p) \/ ReceiveWait(p) \/ Wake(p)
      PROVE  UNCHANGED Abstract!vars
  BY <1>7 DEF SendWait, ReceiveWait, Wake, Abstract!vars
<1>8. ASSUME NEW p \in Procs, GiveUp(p) PROVE Abstract!GiveUp(p)
  BY <1>8 DEF GiveUp, TypeOK, Abstract!GiveUp
<1>9. ASSUME Close PROVE Abstract!Close
  BY <1>9 DEF Close, Abstract!Close
<1>10. ASSUME Clear PROVE Abstract!Clear
  BY <1>10 DEF Clear, Abstract!Clear
<1>11. ASSUME UNCHANGED vars PROVE UNCHANGED Abstract!vars
  BY <1>11 DEF vars, Abstract!vars
<1> QED
  BY <1>1, <1>2, <1>3, <1>4, <1>5, <1>6, <1>7, <1>8, <1>9, <1>10, <1>11
     DEF Next, Step, Abstract!Next

(* The buffered channel implements the message channel: bounded, FIFO, every
   message received at most once and only after it was sent (Send, Receive,
   Close, Clear). *)
THEOREM Refinement == BufferedAssumption => (Spec => ImplementsMessageChannel)
<1> SUFFICES ASSUME BufferedAssumption PROVE Spec => Abstract!Spec
  BY DEF ImplementsMessageChannel
<1>1. Init => Abstract!Init
  BY InitRefines
<1>2. TypeOK /\ [Next]_vars => [Abstract!Next]_(Abstract!vars)
  BY NextRefines
<1>3. Spec => []TypeOK
  BY TypeCorrect
<1> QED
  BY <1>1, <1>2, <1>3, PTL DEF Spec, Abstract!Spec

================================================================================
