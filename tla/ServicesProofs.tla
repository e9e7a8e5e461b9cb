----------------------------- MODULE ServicesProofs -----------------------------
(***************************************************************************)
(* Proofs about the components that have nothing to do with each other:    *)
(* the interrupt manager, the in-memory channel, the state services, the   *)
(* streamer, the state reducers, the cache-optimized engine, the Pregel    *)
(* graph executor and the message aggregator.                              *)
(***************************************************************************)
EXTENDS InterruptManager, InMemoryChannel, StateService, Reducers, CacheOptimizedEngine, MessageAggregator,
        PregelGraphExecutor, SumTheorems, SequenceTheorems

--------------------------------------------------------------------------------
(* InterruptManager *)

Engaged == UnderWay \cup {"accepted"}

(* A call of RespondToInterrupt changes nothing but itself. *)
LEMMA AnswerChanges ==
    ASSUME InterruptTypes, NEW r \in Responders, NEW a \in AnswerCall,
           answer' = [answer EXCEPT ![r] = a], a.at # "idle" => a.to \in Interrupts
    PROVE  /\ answer' \in [Responders -> AnswerCall]
           /\ answer'[r] = a /\ \A q \in Responders \ {r} : answer'[q] = answer[q]
           /\ \A q \in Responders : answer'[q].at # "idle" => answer'[q].to \in Interrupts
BY DEF InterruptTypes

LEMMA InterruptChanges ==
    ASSUME InterruptTypes, NEW i \in Interrupts, NEW x \in InterruptContext,
           interrupt' = [interrupt EXCEPT ![i] = x]
    PROVE  /\ interrupt' \in [Interrupts -> InterruptContext]
           /\ interrupt'[i] = x /\ \A j \in Interrupts \ {i} : interrupt'[j] = interrupt[j]
BY DEF InterruptTypes

(* Saving, registering and taking the answer off the channel concern nobody's call. *)
LEMMA TableSteps ==
    ASSUME InterruptInv, NEW i \in Interrupts,
           SaveInterrupt(i) \/ RegisterInterrupt(i) \/ TakeAnswer(i)
    PROVE  InterruptInv'
<1>1. answer' = answer
  BY DEF SaveInterrupt, RegisterInterrupt, TakeAnswer
<1>2. /\ interrupt \in [Interrupts -> InterruptContext] /\ answer \in [Responders -> AnswerCall]
      /\ InterruptTypes
  BY DEF InterruptInv, InterruptTypes
<1>3. /\ interrupt' \in [Interrupts -> InterruptContext]
      /\ \A j \in Interrupts \ {i} : interrupt'[j] = interrupt[j]
      /\ interrupt'[i].recorded = interrupt[i].recorded /\ interrupt'[i].delivered = interrupt[i].delivered
      /\ interrupt[i].saved => interrupt'[i].saved
      /\ \/ interrupt'[i].status = interrupt[i].status
         \/ (interrupt[i].status = "none" /\ interrupt'[i].status = "pending" /\ interrupt[i].saved)
      /\ interrupt'[i].channel # <<>> => interrupt[i].channel # <<>>
  <2> DEFINE x == interrupt[i]
  <2>0. x \in InterruptContext
    BY <1>2
  <2>1. CASE SaveInterrupt(i)
    <3>1. interrupt' = [interrupt EXCEPT ![i] = [x EXCEPT !.saved = TRUE]] /\ x.status = "none"
      BY <2>1 DEF SaveInterrupt
    <3>2. [x EXCEPT !.saved = TRUE] \in InterruptContext
      BY <2>0 DEF InterruptContext
    <3>3. interrupt'[i] = [x EXCEPT !.saved = TRUE] /\ interrupt' \in [Interrupts -> InterruptContext]
          /\ \A j \in Interrupts \ {i} : interrupt'[j] = interrupt[j]
      BY <1>2, <3>1, <3>2
    <3>4. /\ interrupt'[i].recorded = x.recorded /\ interrupt'[i].delivered = x.delivered
          /\ interrupt'[i].channel # <<>> => x.channel # <<>>
      BY <2>0, <3>1, <3>3 DEF InterruptContext
    <3>5. interrupt'[i].status = x.status
      BY <2>0, <3>3 DEF InterruptContext
    <3>6. interrupt'[i].saved = TRUE
      BY <2>0, <3>3 DEF InterruptContext
    <3>7. x.saved => interrupt'[i].saved
      BY <3>6, Zenon
    <3> QED
      BY <3>3, <3>4, <3>5, <3>7
  <2>2. CASE RegisterInterrupt(i)
    <3>1. /\ interrupt' = [interrupt EXCEPT ![i] = [x EXCEPT !.status = "pending"]]
          /\ x.status = "none" /\ x.saved
      BY <2>2 DEF RegisterInterrupt
    <3>2. [x EXCEPT !.status = "pending"] \in InterruptContext
      BY <2>0 DEF InterruptContext
    <3>3. interrupt'[i] = [x EXCEPT !.status = "pending"] /\ interrupt' \in [Interrupts -> InterruptContext]
          /\ \A j \in Interrupts \ {i} : interrupt'[j] = interrupt[j]
      BY <1>2, <3>1, <3>2
    <3>4. /\ interrupt'[i].recorded = x.recorded /\ interrupt'[i].delivered = x.delivered
          /\ interrupt'[i].channel # <<>> => x.channel # <<>>
      BY <2>0, <3>1, <3>3 DEF InterruptContext
    <3>5. interrupt'[i].status = "pending"
      BY <2>0, <3>3 DEF InterruptContext
    <3>6. interrupt'[i].saved = x.saved
      BY <2>0, <3>3 DEF InterruptContext
    <3> QED
      BY <3>1, <3>3, <3>4, <3>5, <3>6
  <2>3. CASE TakeAnswer(i)
    <3>1. interrupt' = [interrupt EXCEPT ![i] = [x EXCEPT !.channel = <<>>]] /\ x.channel # <<>>
      BY <2>3 DEF TakeAnswer
    <3>2. [x EXCEPT !.channel = <<>>] \in InterruptContext
      <4>1. <<>> \in Seq(Responders)
        OBVIOUS
      <4> HIDE DEF x
      <4> QED
        BY <2>0, <4>1, Zenon DEF InterruptContext
    <3>3. interrupt'[i] = [x EXCEPT !.channel = <<>>] /\ interrupt' \in [Interrupts -> InterruptContext]
          /\ \A j \in Interrupts \ {i} : interrupt'[j] = interrupt[j]
      BY <1>2, <3>1, <3>2
    <3>4. /\ interrupt'[i].recorded = x.recorded /\ interrupt'[i].delivered = x.delivered
          /\ interrupt'[i].channel # <<>> => x.channel # <<>>
      BY <2>0, <3>1, <3>3 DEF InterruptContext
    <3>5. interrupt'[i].status = x.status /\ interrupt'[i].saved = x.saved
      BY <2>0, <3>3 DEF InterruptContext
    <3>6. x.saved => interrupt'[i].saved
      BY <3>5, Zenon
    <3> HIDE DEF x
    <3> QED
      BY <3>3, <3>4, <3>5, <3>6 DEF x
  <2> QED
    BY <2>1, <2>2, <2>3
<1>4. \A j \in Interrupts : /\ interrupt'[j].recorded = interrupt[j].recorded
                            /\ interrupt'[j].delivered = interrupt[j].delivered
                            /\ interrupt[j].saved => interrupt'[j].saved
                            /\ interrupt[j].status # "none" => interrupt'[j].status = interrupt[j].status
                            /\ interrupt'[j].status # "none" => interrupt'[j].saved
                            /\ interrupt'[j].channel # <<>> => interrupt[j].channel # <<>>
  BY <1>3 DEF InterruptInv, RespondOnce
<1>5. \A r \in Responders : answer[r].at # "idle" => answer[r].to \in Interrupts
  BY <1>2 DEF InterruptTypes
<1>6. InterruptTypes'
  BY <1>1, <1>2, <1>3 DEF InterruptTypes
<1>7. Decided'
  BY <1>1, <1>4, <1>5 DEF Decided, InterruptInv, UnderWay
<1>8. \A states : \A j \in Interrupts : AnswersTo(j, states)' = AnswersTo(j, states)
  BY <1>1 DEF AnswersTo
<1>9. DeliveredAccepted'
  BY <1>4, <1>8 DEF DeliveredAccepted, InterruptInv
<1>10. ASSUME NEW j \in Interrupts, NEW r \in AnswersTo(j, Engaged)
       PROVE  interrupt'[j].status = interrupt[j].status
  BY <1>4, <1>10 DEF AnswersTo, Engaged, Decided, InterruptInv
<1>11. Alone'
  BY <1>1, <1>4, <1>10 DEF Alone, InterruptInv, Engaged, AnswersTo
<1>12. \A j \in Interrupts : AnswersTo(j, {"accepted"}) \subseteq AnswersTo(j, Engaged)
  BY DEF AnswersTo, Engaged
<1>13. RespondOnce'
  BY <1>1, <1>4, <1>10 DEF RespondOnce, InterruptInv, Engaged, AnswersTo
<1> QED
  BY <1>6, <1>7, <1>9, <1>11, <1>13 DEF InterruptInv

(* A call that has not got past the status check concerns no other: FindInterrupt, and
   CheckPending when it refuses. *)
LEMMA OutsideSteps ==
    ASSUME InterruptInv, NEW r \in Responders, NEW a \in AnswerCall,
           answer' = [answer EXCEPT ![r] = a], interrupt' = interrupt,
           answer[r].at \in {"idle", "found"}, a.at \in {"found", "refused"}, a.to \in Interrupts,
           \A q \in a.after : answer[q].at = "accepted" /\ answer[q].to = a.to,
           a.at = "found" => interrupt[a.to].status # "none"
    PROVE  InterruptInv'
<1>1. /\ answer' \in [Responders -> AnswerCall] /\ answer'[r] = a
      /\ \A q \in Responders \ {r} : answer'[q] = answer[q]
      /\ \A q \in Responders : answer'[q].at # "idle" => answer'[q].to \in Interrupts
  BY AnswerChanges DEF InterruptInv
<1>2. \A q \in Responders : answer[q].after \subseteq Responders
  BY DEF InterruptInv, InterruptTypes, AnswerCall
<1>3. a.after \subseteq Responders
  BY DEF AnswerCall
<1>4. InterruptTypes'
  BY <1>1 DEF InterruptTypes, InterruptInv
<1>5. ASSUME NEW q \in Responders, answer[q].at = "accepted"
      PROVE  answer'[q] = answer[q]
  BY <1>1, <1>5
<1>6. Decided'
  <2> SUFFICES ASSUME NEW q \in Responders
               PROVE  /\ (answer'[q].at \in {"deliver", "accepted"} =>
                              interrupt[answer'[q].to].status \in {"approved", "rejected"})
                      /\ (\A p \in answer'[q].after : answer'[p].at = "accepted" /\ answer'[p].to = answer'[q].to)
                      /\ (answer'[q].at \in UnderWay \cup {"accepted"} =>
                              answer'[q].after = {} /\ interrupt[answer'[q].to].status # "none")
                      /\ (answer'[q].at = "found" => interrupt[answer'[q].to].status # "none")
    BY DEF Decided, UnderWay
  <2>1. CASE q = r
    <3>1. \A p \in a.after : answer'[p].at = "accepted" /\ answer'[p].to = a.to
      BY <1>3, <1>5
    <3> QED
      BY <1>1, <2>1, <3>1 DEF UnderWay
  <2>2. CASE q # r
    <3>1. \A p \in answer[q].after : answer[p].at = "accepted" /\ answer[p].to = answer[q].to
      BY DEF InterruptInv, Decided
    <3>2. \A p \in answer[q].after : answer'[p] = answer[p]
      BY <1>2, <1>5, <3>1
    <3> QED
      BY <1>1, <2>2, <3>1, <3>2 DEF InterruptInv, Decided
  <2> QED
    BY <2>1, <2>2
<1>7. /\ \A i \in Interrupts, q \in Responders :
            q \in AnswersTo(i, Engaged)' <=> q \in AnswersTo(i, Engaged)
      /\ \A i \in Interrupts, q \in Responders :
            q \in AnswersTo(i, {"accepted"})' <=> q \in AnswersTo(i, {"accepted"})
  BY <1>1 DEF AnswersTo, Engaged, UnderWay
<1>8. \A i \in Interrupts : /\ AnswersTo(i, Engaged)' = AnswersTo(i, Engaged)
                            /\ AnswersTo(i, {"accepted"})' = AnswersTo(i, {"accepted"})
  <2>1. \A i \in Interrupts : /\ AnswersTo(i, Engaged) \subseteq Responders
                              /\ AnswersTo(i, Engaged)' \subseteq Responders
                              /\ AnswersTo(i, {"accepted"}) \subseteq Responders
                              /\ AnswersTo(i, {"accepted"})' \subseteq Responders
    BY DEF AnswersTo
  <2> QED
    BY <1>7, <2>1
<1>9. DeliveredAccepted'
  BY <1>8 DEF DeliveredAccepted, InterruptInv
<1>10. \A i \in Interrupts : \A q \in AnswersTo(i, Engaged) : answer'[q] = answer[q] /\ q \in Responders
  BY <1>1 DEF AnswersTo, Engaged, UnderWay
<1>11. Alone'
  BY <1>8, <1>10 DEF Alone, InterruptInv, Engaged, UnderWay
<1>12. \A q \in Responders : answer'[q].at \in Engaged => answer'[q].after = {}
  BY <1>6 DEF Decided, Engaged
<1>13. \A i \in Interrupts : \A q \in AnswersTo(i, {"accepted"}) : answer'[q] = answer[q]
  BY <1>5 DEF AnswersTo
<1>14. RespondOnce'
  <2>1. \A q \in Responders : answer'[q].at \in UnderWay \cup {"accepted"} => answer'[q].after = {}
    BY <1>12 DEF Engaged
  <2>2. ASSUME NEW j \in Interrupts, NEW q \in AnswersTo(j, {"accepted"})', AnswersTo(j, Engaged)' = {q}
        PROVE  /\ interrupt'[j].recorded = q /\ interrupt'[j].delivered = <<q>>
               /\ interrupt'[j].status = IF answer'[q].approved THEN "approved" ELSE "rejected"
    <3>1. q \in AnswersTo(j, Engaged)' /\ answer'[q].at = "accepted"
      BY DEF AnswersTo, Engaged
    <3> QED
      BY <1>11, <2>2, <3>1 DEF Alone, Engaged
  <2> QED
    BY <1>8, <2>1, <2>2 DEF RespondOnce, InterruptInv, Engaged, UnderWay
<1> QED
  BY <1>4, <1>6, <1>9, <1>11, <1>14 DEF InterruptInv

LEMMA FindStep ==
    ASSUME InterruptInv, NEW r \in Responders, NEW i \in Interrupts, NEW approved \in BOOLEAN,
           FindInterrupt(r, i, approved)
    PROVE  InterruptInv'
<1> DEFINE a == [at |-> IF interrupt[i].status = "none" THEN "refused" ELSE "found",
                 to |-> i, approved |-> approved,
                 after |-> {q \in Responders : answer[q].at = "accepted" /\ answer[q].to = i}]
<1>1. a \in AnswerCall
  BY DEF AnswerCall
<1>2. /\ answer' = [answer EXCEPT ![r] = a] /\ interrupt' = interrupt /\ answer[r].at = "idle"
      /\ a.at \in {"found", "refused"} /\ a.to = i
      /\ \A q \in a.after : answer[q].at = "accepted" /\ answer[q].to = a.to
      /\ (a.at = "found" => interrupt[a.to].status # "none")
  BY DEF FindInterrupt
<1> HIDE DEF a
<1> QED
  BY <1>1, <1>2, OutsideSteps

(* Who gets past the status check saw the interrupt pending: nobody had been told
   before the call began. *)
LEMMA CheckStep ==
    ASSUME InterruptInv, NEW r \in Responders, CheckPending(r),
           NEW a, a = answer[r], NEW i, i = a.to
    PROVE  InterruptInv'
<1>1. /\ a \in AnswerCall /\ i \in Interrupts /\ a.at = "found" /\ interrupt' = interrupt
      /\ answer \in [Responders -> AnswerCall]
  BY DEF CheckPending, InterruptInv, InterruptTypes
<1>2. \A q \in a.after : answer[q].at = "accepted" /\ answer[q].to = i /\ q \in Responders
  BY <1>1 DEF InterruptInv, Decided, AnswerCall
<1>3. CASE interrupt[i].status # "pending"
  <2> DEFINE b == [a EXCEPT !.at = "refused"]
  <2>1. b \in AnswerCall /\ b.at = "refused" /\ b.to = i /\ b.after = a.after
    BY <1>1 DEF AnswerCall
  <2>2. answer' = [answer EXCEPT ![r] = b]
    BY <1>1, <1>3 DEF CheckPending
  <2> HIDE DEF b
  <2> QED
    BY <1>1, <1>2, <2>1, <2>2, OutsideSteps
<1>4. CASE interrupt[i].status = "pending"
  <2> DEFINE b == [a EXCEPT !.at = "record"]
  <2>1. b \in AnswerCall /\ b.at = "record" /\ b.to = i /\ b.after = a.after
    BY <1>1 DEF AnswerCall, UnderWay
  <2>2. answer' = [answer EXCEPT ![r] = b]
    BY <1>1, <1>4 DEF CheckPending
  <2>3. /\ answer' \in [Responders -> AnswerCall] /\ answer'[r] = b
        /\ \A q \in Responders \ {r} : answer'[q] = answer[q]
        /\ \A q \in Responders : answer'[q].at # "idle" => answer'[q].to \in Interrupts
    <3> HIDE DEF b
    <3> QED
      BY <1>1, <2>1, <2>2, AnswerChanges DEF InterruptInv
  <2>4. a.after = {}
    <3>1. ASSUME NEW q \in a.after PROVE FALSE
      BY <1>2, <1>4 DEF InterruptInv, Decided
    <3> QED
      BY <3>1
  <2> HIDE DEF b
  <2>5. InterruptTypes'
    BY <1>1, <2>3 DEF InterruptTypes, InterruptInv
  <2>6. \A q \in Responders : answer[q].at = "accepted" => answer'[q] = answer[q]
    BY <1>1, <2>3
  <2>7. \A q \in Responders : answer[q].after \subseteq Responders
    BY DEF InterruptInv, InterruptTypes, AnswerCall
  <2>8. Decided'
    <3> SUFFICES ASSUME NEW q \in Responders
                 PROVE  /\ (answer'[q].at \in {"deliver", "accepted"} =>
                                interrupt[answer'[q].to].status \in {"approved", "rejected"})
                        /\ (\A p \in answer'[q].after : answer'[p].at = "accepted" /\ answer'[p].to = answer'[q].to)
                        /\ (answer'[q].at \in UnderWay \cup {"accepted"} =>
                                answer'[q].after = {} /\ interrupt[answer'[q].to].status # "none")
                        /\ (answer'[q].at = "found" => interrupt[answer'[q].to].status # "none")
      BY <1>1 DEF Decided, UnderWay
    <3>1. CASE q = r
      BY <1>4, <2>1, <2>3, <2>4, <3>1
    <3>2. CASE q # r
      <4>1. \A p \in answer[q].after : answer[p].at = "accepted" /\ answer[p].to = answer[q].to
        BY DEF InterruptInv, Decided
      <4>2. \A p \in answer[q].after : answer'[p] = answer[p]
        BY <2>6, <2>7, <4>1
      <4> QED
        BY <2>3, <3>2, <4>1, <4>2 DEF InterruptInv, Decided
    <3> QED
      BY <3>1, <3>2
  <2>9. \A j \in Interrupts : AnswersTo(j, {"accepted"})' = AnswersTo(j, {"accepted"})
    <3>1. \A j \in Interrupts, q \in Responders :
              q \in AnswersTo(j, {"accepted"})' <=> q \in AnswersTo(j, {"accepted"})
      BY <1>1, <2>1, <2>3 DEF AnswersTo
    <3>2. \A j \in Interrupts : /\ AnswersTo(j, {"accepted"}) \subseteq Responders
                                /\ AnswersTo(j, {"accepted"})' \subseteq Responders
      BY DEF AnswersTo
    <3> QED
      BY <3>1, <3>2
  <2>10. DeliveredAccepted'
    BY <1>1, <2>9 DEF DeliveredAccepted, InterruptInv
  <2>11. \A j \in Interrupts \ {i}, q \in Responders :
             q \in AnswersTo(j, Engaged)' <=> (q \in AnswersTo(j, Engaged))
    BY <1>1, <2>1, <2>3 DEF AnswersTo, Engaged, UnderWay
  <2>12. r \in AnswersTo(i, Engaged)'
    BY <2>1, <2>3 DEF AnswersTo, Engaged, UnderWay
  <2>13. \A j \in Interrupts : AnswersTo(j, Engaged) \subseteq Responders /\ AnswersTo(j, Engaged)' \subseteq Responders
    BY DEF AnswersTo
  <2>14. \A j \in Interrupts \ {i} : AnswersTo(j, Engaged)' = AnswersTo(j, Engaged)
    BY <2>11, <2>13
  <2>15. ASSUME NEW j \in Interrupts, NEW q \in AnswersTo(j, Engaged)', AnswersTo(j, Engaged)' = {q}
         PROVE  \/ j = i /\ q = r /\ answer'[q].at = "record"
                \/ j # i /\ AnswersTo(j, Engaged) = {q} /\ answer'[q] = answer[q]
    <3>1. CASE j = i
      BY <2>1, <2>3, <2>12, <2>15, <3>1
    <3>2. CASE j # i
      <4>1. AnswersTo(j, Engaged) = {q} /\ q \in AnswersTo(j, Engaged)
        BY <2>14, <2>15, <3>2
      <4>2. q # r /\ q \in Responders
        BY <1>1, <4>1, <3>2 DEF AnswersTo
      <4> QED
        BY <2>3, <3>2, <4>1, <4>2
    <3> QED
      BY <3>1, <3>2
  <2>16. Alone'
    <3> SUFFICES ASSUME NEW j \in Interrupts, NEW q \in AnswersTo(j, Engaged)', AnswersTo(j, Engaged)' = {q}
                 PROVE  /\ (answer'[q].at # "record" => interrupt'[j].recorded = q)
                        /\ (answer'[q].at \in {"deliver", "accepted"} =>
                              interrupt'[j].status = IF answer'[q].approved THEN "approved" ELSE "rejected")
                        /\ (answer'[q].at = "accepted" => interrupt'[j].delivered = <<q>>)
      BY DEF Alone, Engaged, UnderWay
    <3>1. CASE j = i
      BY <2>15, <3>1
    <3>2. CASE j # i
      <4>1. AnswersTo(j, Engaged) = {q} /\ q \in AnswersTo(j, Engaged) /\ answer'[q] = answer[q]
        BY <2>15, <3>2
      <4>2. /\ (answer[q].at # "record" => interrupt[j].recorded = q)
            /\ (answer[q].at \in {"deliver", "accepted"} =>
                  interrupt[j].status = IF answer[q].approved THEN "approved" ELSE "rejected")
            /\ (answer[q].at = "accepted" => interrupt[j].delivered = <<q>>)
        BY <4>1 DEF Alone, InterruptInv, Engaged
      <4> QED
        BY <1>1, <4>1, <4>2
    <3> QED
      BY <3>1, <3>2
  <2>17. RespondOnce'
    <3>1. \A q \in Responders : answer'[q].at \in UnderWay \cup {"accepted"} => answer'[q].after = {}
      BY <2>8 DEF Decided, UnderWay
    <3>2. ASSUME NEW j \in Interrupts, NEW q \in AnswersTo(j, {"accepted"})', AnswersTo(j, Engaged)' = {q}
          PROVE  /\ interrupt'[j].recorded = q /\ interrupt'[j].delivered = <<q>>
                 /\ interrupt'[j].status = IF answer'[q].approved THEN "approved" ELSE "rejected"
      <4>1. q \in AnswersTo(j, Engaged)' /\ answer'[q].at = "accepted"
        BY DEF AnswersTo, Engaged
      <4> QED
        BY <2>16, <3>2, <4>1 DEF Alone, Engaged
    <3> QED
      BY <1>1, <2>9, <3>1, <3>2 DEF RespondOnce, InterruptInv, Engaged, UnderWay
  <2> QED
    BY <2>5, <2>8, <2>10, <2>16, <2>17 DEF InterruptInv
<1> QED
  BY <1>3, <1>4

(* What a call that got past the check does: its next step is p and leaves x of the
   interrupt i that it answers. *)
Proceeds(r, i, p, x) ==
    /\ answer[r].to = i /\ answer[r].at \in UnderWay /\ answer' = [answer EXCEPT ![r].at = p]
    /\ interrupt' = [interrupt EXCEPT ![i] = x]
    /\ x.saved = interrupt[i].saved /\ x.status # "none"
    /\ (interrupt[i].status \in {"approved", "rejected"} => x.status \in {"approved", "rejected"})
    /\ (p \in {"deliver", "accepted"} => x.status \in {"approved", "rejected"})
    /\ (x.channel # <<>> => x.delivered # <<>>)
    /\ (p = "accepted" => x.delivered # <<>>)
    /\ (interrupt[i].delivered # <<>> => x.delivered # <<>>)
    /\ \A n \in DOMAIN x.delivered :
           x.delivered[n] \in AnswersTo(i, {"accepted"}) \/ (x.delivered[n] = r /\ p = "accepted")
    /\ (AnswersTo(i, Engaged) = {r} =>
           /\ x.recorded = r
           /\ (p \in {"deliver", "accepted"} =>
                 x.status = IF answer[r].approved THEN "approved" ELSE "rejected")
           /\ (p = "accepted" => x.delivered = <<r>>))

(* Whoever else is engaged stays so, and the interrupts of others do not change. *)
LEMMA EngagedSteps ==
    ASSUME InterruptInv, NEW r \in Responders, NEW i \in Interrupts,
           NEW p \in Engaged \ {"record"}, NEW x \in InterruptContext, Proceeds(r, i, p, x)
    PROVE  InterruptInv'
<1>0. /\ answer[r].to = i /\ answer[r].at \in UnderWay /\ answer' = [answer EXCEPT ![r].at = p]
      /\ interrupt' = [interrupt EXCEPT ![i] = x]
  BY DEF Proceeds
<1>s. /\ x.saved = interrupt[i].saved /\ x.status # "none"
      /\ (interrupt[i].status \in {"approved", "rejected"} => x.status \in {"approved", "rejected"})
      /\ (p \in {"deliver", "accepted"} => x.status \in {"approved", "rejected"})
  BY DEF Proceeds
<1>d. /\ (x.channel # <<>> => x.delivered # <<>>)
      /\ (p = "accepted" => x.delivered # <<>>)
      /\ (interrupt[i].delivered # <<>> => x.delivered # <<>>)
      /\ \A n \in DOMAIN x.delivered :
             x.delivered[n] \in AnswersTo(i, {"accepted"}) \/ (x.delivered[n] = r /\ p = "accepted")
  BY DEF Proceeds
<1>a. AnswersTo(i, Engaged) = {r} =>
          /\ x.recorded = r
          /\ (p \in {"deliver", "accepted"} =>
                x.status = IF answer[r].approved THEN "approved" ELSE "rejected")
          /\ (p = "accepted" => x.delivered = <<r>>)
  BY DEF Proceeds
<1>1. answer[r] \in AnswerCall /\ answer \in [Responders -> AnswerCall]
  BY DEF InterruptInv, InterruptTypes
<1> DEFINE b == [answer[r] EXCEPT !.at = p]
<1>2. /\ b \in AnswerCall /\ b.at = p /\ b.to = i /\ b.after = answer[r].after
      /\ b.approved = answer[r].approved
  BY <1>0, <1>1 DEF AnswerCall, Engaged
<1>3. answer' = [answer EXCEPT ![r] = b]
  BY <1>0, <1>1
<1> HIDE DEF b
<1>4. /\ answer' \in [Responders -> AnswerCall] /\ answer'[r] = b
      /\ \A q \in Responders \ {r} : answer'[q] = answer[q]
      /\ \A q \in Responders : answer'[q].at # "idle" => answer'[q].to \in Interrupts
  BY <1>2, <1>3, AnswerChanges DEF InterruptInv
<1>5. /\ interrupt' \in [Interrupts -> InterruptContext]
      /\ interrupt'[i] = x /\ \A j \in Interrupts \ {i} : interrupt'[j] = interrupt[j]
  BY <1>0, InterruptChanges DEF InterruptInv
<1>6. InterruptTypes'
  BY <1>4, <1>5 DEF InterruptTypes
<1>7. answer[r].after = {} /\ interrupt[i].status # "none"
  BY <1>0 DEF InterruptInv, Decided
<1>8. \A q \in Responders : answer[q].at = "accepted" => answer'[q] = answer[q]
  BY <1>0, <1>4 DEF UnderWay
<1>9. \A q \in Responders : answer[q].after \subseteq Responders
  BY DEF InterruptInv, InterruptTypes, AnswerCall
<1>10. \A q \in Responders : answer[q].at # "idle" => answer[q].to \in Interrupts
  BY DEF InterruptInv, InterruptTypes
<1>11. \A j \in Interrupts :
           /\ (interrupt[j].status \in {"approved", "rejected"} => interrupt'[j].status \in {"approved", "rejected"})
           /\ (interrupt[j].status # "none" => interrupt'[j].status # "none")
  BY <1>5, <1>s
<1>12. Decided'
  <2> SUFFICES ASSUME NEW q \in Responders
               PROVE  /\ (answer'[q].at \in {"deliver", "accepted"} =>
                              interrupt'[answer'[q].to].status \in {"approved", "rejected"})
                      /\ (\A s \in answer'[q].after : answer'[s].at = "accepted" /\ answer'[s].to = answer'[q].to)
                      /\ (answer'[q].at \in UnderWay \cup {"accepted"} =>
                              answer'[q].after = {} /\ interrupt'[answer'[q].to].status # "none")
                      /\ (answer'[q].at = "found" => interrupt'[answer'[q].to].status # "none")
    BY DEF Decided, UnderWay
  <2>1. CASE q = r
    BY <1>2, <1>4, <1>5, <1>7, <1>s, <2>1
  <2>2. CASE q # r
    <3>1. answer'[q] = answer[q]
      BY <1>4, <2>2
    <3>2. \A s \in answer[q].after : answer[s].at = "accepted" /\ answer[s].to = answer[q].to
      BY DEF InterruptInv, Decided
    <3>3. \A s \in answer[q].after : answer'[s] = answer[s]
      BY <1>8, <1>9, <3>2
    <3>4. \A s \in answer'[q].after : answer'[s].at = "accepted" /\ answer'[s].to = answer'[q].to
      BY <3>1, <3>2, <3>3
    <3>5. /\ (answer[q].at \in {"deliver", "accepted"} =>
                  interrupt[answer[q].to].status \in {"approved", "rejected"})
          /\ (answer[q].at \in UnderWay \cup {"accepted"} =>
                  answer[q].after = {} /\ interrupt[answer[q].to].status # "none")
          /\ (answer[q].at = "found" => interrupt[answer[q].to].status # "none")
      BY DEF InterruptInv, Decided
    <3>6. answer[q].at \in UnderWay \cup {"accepted", "found"} => answer[q].to \in Interrupts
      BY <1>10 DEF UnderWay
    <3> QED
      BY <1>11, <3>1, <3>4, <3>5, <3>6 DEF UnderWay
  <2> QED
    BY <2>1, <2>2
<1>13. \A j \in Interrupts : AnswersTo(j, Engaged)' = AnswersTo(j, Engaged)
  <2>1. \A j \in Interrupts, q \in Responders :
            q \in AnswersTo(j, Engaged)' <=> q \in AnswersTo(j, Engaged)
    BY <1>0, <1>2, <1>4 DEF AnswersTo, Engaged
  <2>2. \A j \in Interrupts : AnswersTo(j, Engaged) \subseteq Responders /\ AnswersTo(j, Engaged)' \subseteq Responders
    BY DEF AnswersTo
  <2> QED
    BY <2>1, <2>2
<1>14. \A j \in Interrupts : \A q \in AnswersTo(j, {"accepted"}) : q \in AnswersTo(j, {"accepted"})'
  BY <1>8 DEF AnswersTo
<1>15. p = "accepted" => r \in AnswersTo(i, {"accepted"})'
  BY <1>2, <1>4 DEF AnswersTo
<1>16. DeliveredAccepted'
  <2>1. ASSUME NEW j \in Interrupts
        PROVE  /\ (interrupt'[j].channel # <<>> => interrupt'[j].delivered # <<>>)
               /\ \A n \in DOMAIN interrupt'[j].delivered :
                     interrupt'[j].delivered[n] \in AnswersTo(j, {"accepted"})'
    <3>1. CASE j = i
      BY <1>5, <1>14, <1>15, <1>d, <3>1
    <3>2. CASE j # i
      BY <1>5, <1>14, <3>2 DEF InterruptInv, DeliveredAccepted
    <3> QED
      BY <3>1, <3>2
  <2> QED
    BY <2>1 DEF DeliveredAccepted
<1>17. r \in AnswersTo(i, Engaged)
  BY <1>0 DEF AnswersTo, Engaged
<1>18. ASSUME NEW j \in Interrupts, NEW q \in AnswersTo(j, Engaged)', AnswersTo(j, Engaged)' = {q}
       PROVE  /\ (answer'[q].at # "record" => interrupt'[j].recorded = q)
              /\ (answer'[q].at \in {"deliver", "accepted"} =>
                    interrupt'[j].status = IF answer'[q].approved THEN "approved" ELSE "rejected")
              /\ (answer'[q].at = "accepted" => interrupt'[j].delivered = <<q>>)
  <2>1. AnswersTo(j, Engaged) = {q} /\ q \in AnswersTo(j, Engaged)
    BY <1>13, <1>18
  <2>2. CASE j = i
    <3>1. q = r
      BY <1>17, <2>1, <2>2
    <3> QED
      BY <1>2, <1>4, <1>5, <1>a, <2>1, <2>2, <3>1
  <2>3. CASE j # i
    <3>1. q \in Responders /\ q # r
      BY <1>0, <2>1, <2>3 DEF AnswersTo
    <3>2. answer'[q] = answer[q] /\ interrupt'[j] = interrupt[j]
      BY <1>4, <1>5, <2>3, <3>1
    <3>3. /\ (answer[q].at # "record" => interrupt[j].recorded = q)
          /\ (answer[q].at \in {"deliver", "accepted"} =>
                interrupt[j].status = IF answer[q].approved THEN "approved" ELSE "rejected")
          /\ (answer[q].at = "accepted" => interrupt[j].delivered = <<q>>)
      BY <2>1 DEF Alone, InterruptInv, Engaged
    <3> QED
      BY <3>2, <3>3
  <2> QED
    BY <2>2, <2>3
<1>19. Alone'
  BY <1>18 DEF Alone, Engaged, UnderWay
<1>20. RespondOnce'
  <2>1. \A q \in Responders : answer'[q].at \in UnderWay \cup {"accepted"} => answer'[q].after = {}
    BY <1>12 DEF Decided, UnderWay
  <2>2. ASSUME NEW j \in Interrupts, NEW q \in AnswersTo(j, {"accepted"})', AnswersTo(j, Engaged)' = {q}
        PROVE  /\ interrupt'[j].recorded = q /\ interrupt'[j].delivered = <<q>>
               /\ interrupt'[j].status = IF answer'[q].approved THEN "approved" ELSE "rejected"
    <3>1. q \in AnswersTo(j, Engaged)' /\ answer'[q].at = "accepted"
      BY DEF AnswersTo, Engaged
    <3> QED
      BY <1>18, <2>2, <3>1
  <2>3. \A j \in Interrupts : interrupt'[j].status # "none" => interrupt'[j].saved
    <3>1. \A j \in Interrupts : interrupt[j].status # "none" => interrupt[j].saved
      BY DEF InterruptInv, RespondOnce
    <3> QED
      BY <1>5, <1>7, <1>s, <3>1
  <2>4. ASSUME NEW j \in Interrupts, AnswersTo(j, {"accepted"})' # {}
        PROVE  interrupt'[j].delivered # <<>>
    <3>1. CASE j = i /\ p = "accepted"
      BY <1>5, <1>d, <3>1
    <3>2. CASE ~(j = i /\ p = "accepted")
      <4>1. PICK q \in Responders : answer'[q].at = "accepted" /\ answer'[q].to = j
        BY <2>4 DEF AnswersTo
      <4>2. q # r
        BY <1>2, <1>4, <3>2, <4>1
      <4>3. q \in AnswersTo(j, {"accepted"})
        BY <1>4, <4>1, <4>2 DEF AnswersTo
      <4>4. interrupt[j].delivered # <<>>
        BY <4>3 DEF InterruptInv, RespondOnce
      <4> QED
        BY <1>5, <1>d, <4>4
    <3> QED
      BY <3>1, <3>2
  <2> QED
    BY <2>1, <2>2, <2>3, <2>4 DEF RespondOnce, Engaged, UnderWay
<1> QED
  BY <1>6, <1>12, <1>16, <1>19, <1>20 DEF InterruptInv

LEMMA RecordStep ==
    ASSUME InterruptInv, NEW r \in Responders, RecordAnswer(r)
    PROVE  InterruptInv'
<1>1. PICK i \in Interrupts : answer[r].to = i
  BY DEF RecordAnswer, InterruptInv, InterruptTypes
<1>2. /\ answer[r].at = "record" /\ answer' = [answer EXCEPT ![r].at = "decide"]
      /\ interrupt[i] \in InterruptContext
  BY DEF RecordAnswer, InterruptInv, InterruptTypes
<1> DEFINE x == [interrupt[i] EXCEPT !.recorded = r]
<1>3. /\ x \in InterruptContext /\ x.saved = interrupt[i].saved /\ x.status = interrupt[i].status
      /\ x.channel = interrupt[i].channel /\ x.delivered = interrupt[i].delivered /\ x.recorded = r
  BY <1>2 DEF InterruptContext
<1>4. interrupt' = [interrupt EXCEPT ![i] = x]
  BY <1>1 DEF RecordAnswer
<1>5. interrupt[i].status # "none"
  BY <1>1, <1>2 DEF InterruptInv, Decided, UnderWay
<1>6. /\ (interrupt[i].channel # <<>> => interrupt[i].delivered # <<>>)
      /\ \A n \in DOMAIN interrupt[i].delivered : interrupt[i].delivered[n] \in AnswersTo(i, {"accepted"})
  BY DEF InterruptInv, DeliveredAccepted
<1> HIDE DEF x
<1>7. "decide" \in Engaged \ {"record"} /\ answer[r].at \in UnderWay
  BY <1>2 DEF Engaged, UnderWay
<1>8. Proceeds(r, i, "decide", x)
  BY <1>1, <1>2, <1>3, <1>4, <1>5, <1>6, <1>7 DEF Proceeds
<1> QED
  BY <1>3, <1>7, <1>8, EngagedSteps

LEMMA DecideStep ==
    ASSUME InterruptInv, NEW r \in Responders, Decide(r)
    PROVE  InterruptInv'
<1>1. PICK i \in Interrupts : answer[r].to = i
  BY DEF Decide, InterruptInv, InterruptTypes
<1>2. /\ answer[r].at = "decide" /\ answer' = [answer EXCEPT ![r].at = "deliver"]
      /\ interrupt[i] \in InterruptContext
  BY DEF Decide, InterruptInv, InterruptTypes
<1> DEFINE d == IF answer[r].approved THEN "approved" ELSE "rejected"
           x == [interrupt[i] EXCEPT !.status = d]
<1>3. d \in {"approved", "rejected"}
  OBVIOUS
<1>4. interrupt' = [interrupt EXCEPT ![i] = x]
  BY <1>1 DEF Decide
<1>5. /\ x \in InterruptContext /\ x.saved = interrupt[i].saved /\ x.status = d
      /\ x.channel = interrupt[i].channel /\ x.delivered = interrupt[i].delivered
      /\ x.recorded = interrupt[i].recorded
  <2> HIDE DEF d
  <2> QED
    BY <1>2, <1>3 DEF InterruptContext
<1>6. /\ (interrupt[i].channel # <<>> => interrupt[i].delivered # <<>>)
      /\ \A n \in DOMAIN interrupt[i].delivered : interrupt[i].delivered[n] \in AnswersTo(i, {"accepted"})
  BY DEF InterruptInv, DeliveredAccepted
<1>7. "deliver" \in Engaged \ {"record"} /\ answer[r].at \in UnderWay /\ r \in AnswersTo(i, Engaged)
  BY <1>1, <1>2 DEF Engaged, UnderWay, AnswersTo
<1>8. AnswersTo(i, Engaged) = {r} => interrupt[i].recorded = r
  BY <1>2, <1>7 DEF InterruptInv, Alone, Engaged
<1> HIDE DEF x
<1>9. /\ (x.channel # <<>> => x.delivered # <<>>)
      /\ (interrupt[i].delivered # <<>> => x.delivered # <<>>)
      /\ (interrupt[i].status \in {"approved", "rejected"} => x.status \in {"approved", "rejected"})
      /\ \A n \in DOMAIN x.delivered :
             x.delivered[n] \in AnswersTo(i, {"accepted"}) \/ (x.delivered[n] = r /\ "deliver" = "accepted")
  BY <1>5, <1>6, <1>3
<1>10. AnswersTo(i, Engaged) = {r} =>
          /\ x.recorded = r
          /\ ("deliver" \in {"deliver", "accepted"} =>
                x.status = IF answer[r].approved THEN "approved" ELSE "rejected")
          /\ ("deliver" = "accepted" => x.delivered = <<r>>)
  BY <1>5, <1>8
<1>11. x.status # "none" /\ x.status \in {"approved", "rejected"}
  BY <1>3, <1>5
<1>12. Proceeds(r, i, "deliver", x)
  BY <1>1, <1>2, <1>4, <1>5, <1>7, <1>9, <1>10, <1>11 DEF Proceeds
<1> QED
  BY <1>5, <1>7, <1>12, EngagedSteps

(* A lone answer finds the channel empty: what was ever sent there is accepted. *)
LEMMA DeliverStep ==
    ASSUME InterruptInv, NEW r \in Responders, Deliver(r)
    PROVE  InterruptInv'
<1>1. PICK i \in Interrupts : answer[r].to = i
  BY DEF Deliver, InterruptInv, InterruptTypes
<1>2. /\ answer[r].at = "deliver" /\ answer' = [answer EXCEPT ![r].at = "accepted"]
      /\ interrupt[i] \in InterruptContext /\ interrupt \in [Interrupts -> InterruptContext]
  BY DEF Deliver, InterruptInv, InterruptTypes
<1>3. /\ (interrupt[i].channel # <<>> => interrupt[i].delivered # <<>>)
      /\ \A n \in DOMAIN interrupt[i].delivered : interrupt[i].delivered[n] \in AnswersTo(i, {"accepted"})
  BY DEF InterruptInv, DeliveredAccepted
<1>4. "accepted" \in Engaged \ {"record"} /\ answer[r].at \in UnderWay /\ r \in AnswersTo(i, Engaged)
  BY <1>1, <1>2 DEF Engaged, UnderWay, AnswersTo
<1>5. interrupt[i].status \in {"approved", "rejected"}
  BY <1>1, <1>2 DEF InterruptInv, Decided
<1>6. AnswersTo(i, Engaged) = {r} =>
          /\ interrupt[i].recorded = r
          /\ interrupt[i].status = IF answer[r].approved THEN "approved" ELSE "rejected"
  BY <1>2, <1>4 DEF InterruptInv, Alone, Engaged
<1>7. interrupt[i].delivered \in Seq(Responders)
  BY <1>2 DEF InterruptContext
<1>8. AnswersTo(i, Engaged) = {r} => interrupt[i].delivered = <<>>
  <2>1. SUFFICES ASSUME AnswersTo(i, Engaged) = {r}, interrupt[i].delivered # <<>> PROVE FALSE
    OBVIOUS
  <2>2. 1 \in DOMAIN interrupt[i].delivered
    BY <1>7, <2>1
  <2>3. interrupt[i].delivered[1] \in AnswersTo(i, {"accepted"})
    BY <1>3, <2>2
  <2>4. interrupt[i].delivered[1] \in {r}
    BY <2>1, <2>3 DEF AnswersTo, Engaged
  <2> QED
    BY <1>2, <2>3, <2>4 DEF AnswersTo
<1>9. CASE interrupt[i].channel # <<>>
  <2>1. interrupt' = interrupt
    BY <1>1, <1>9 DEF Deliver
  <2>2. interrupt' = [interrupt EXCEPT ![i] = interrupt[i]]
    BY <1>2, <2>1
  <2>3. AnswersTo(i, Engaged) # {r}
    BY <1>3, <1>8, <1>9
  <2>4. Proceeds(r, i, "accepted", interrupt[i])
    BY <1>1, <1>2, <1>3, <1>4, <1>5, <1>9, <2>2, <2>3 DEF Proceeds
  <2> QED
    BY <1>2, <1>4, <2>4, EngagedSteps
<1>10. CASE interrupt[i].channel = <<>>
  <2> DEFINE x == [interrupt[i] EXCEPT !.channel = <<r>>, !.delivered = Append(@, r)]
  <2>1. interrupt' = [interrupt EXCEPT ![i] = x]
    BY <1>1, <1>10 DEF Deliver
  <2>2. Append(interrupt[i].delivered, r) \in Seq(Responders) /\ <<r>> \in Seq(Responders)
    BY <1>7
  <2>3. /\ x \in InterruptContext /\ x.saved = interrupt[i].saved /\ x.status = interrupt[i].status
        /\ x.delivered = Append(interrupt[i].delivered, r) /\ x.recorded = interrupt[i].recorded
    BY <1>2, <2>2, Zenon DEF InterruptContext
  <2>4. x.delivered # <<>>
    BY <1>7, <2>3
  <2>5. \A n \in DOMAIN x.delivered : x.delivered[n] \in AnswersTo(i, {"accepted"}) \/ x.delivered[n] = r
    <3>1. \A n \in DOMAIN x.delivered : n \in DOMAIN interrupt[i].delivered \/ x.delivered[n] = r
      BY <1>7, <2>3
    <3>2. \A n \in DOMAIN interrupt[i].delivered : x.delivered[n] = interrupt[i].delivered[n]
      BY <1>7, <2>3
    <3> HIDE DEF x
    <3> QED
      BY <1>3, <3>1, <3>2
  <2>6. AnswersTo(i, Engaged) = {r} => x.delivered = <<r>>
    <3>1. Append(<<>>, r) = <<r>>
      OBVIOUS
    <3> QED
      BY <1>8, <2>3, <3>1
  <2> HIDE DEF x
  <2>7. AnswersTo(i, Engaged) = {r} =>
            /\ x.recorded = r
            /\ ("accepted" \in {"deliver", "accepted"} =>
                  x.status = IF answer[r].approved THEN "approved" ELSE "rejected")
            /\ ("accepted" = "accepted" => x.delivered = <<r>>)
    BY <1>6, <2>3, <2>6
  <2>8. \A n \in DOMAIN x.delivered :
            x.delivered[n] \in AnswersTo(i, {"accepted"}) \/ (x.delivered[n] = r /\ "accepted" = "accepted")
    BY <2>5
  <2>9. x.status # "none" /\ x.status \in {"approved", "rejected"}
    BY <1>5, <2>3
  <2>10. Proceeds(r, i, "accepted", x)
    BY <1>1, <1>2, <1>4, <2>1, <2>3, <2>4, <2>7, <2>8, <2>9 DEF Proceeds
  <2> QED
    BY <1>4, <2>3, <2>10, EngagedSteps
<1> QED
  BY <1>9, <1>10

(* An interrupt is answered once, except by calls that overlap, whatever the number of
   interrupts and of calls: a call that begins after another was accepted is refused,
   and an answer that no other overlaps is recorded, decides and is delivered
   (InterruptManager.RequestInterrupt, RespondToInterrupt). *)
THEOREM AnsweredOnce == InterruptSpec => []RespondOnce
<1>1. InterruptInit => InterruptInv
  <2> SUFFICES ASSUME InterruptInit PROVE InterruptInv
    OBVIOUS
  <2>1. NoInterrupt \in InterruptContext
    <3>1. <<>> \in Seq(Responders)
      OBVIOUS
    <3> QED
      BY <3>1 DEF NoInterrupt, InterruptContext
  <2>2. NoAnswer \in AnswerCall
    BY DEF NoAnswer, AnswerCall
  <2>3. /\ \A i \in Interrupts : interrupt[i] = NoInterrupt
        /\ \A r \in Responders : answer[r] = NoAnswer
    BY DEF InterruptInit
  <2>4. NoAnswer.at = "idle" /\ NoAnswer.after = {}
    BY DEF NoAnswer
  <2>5. NoInterrupt.status = "none" /\ NoInterrupt.channel = <<>> /\ NoInterrupt.delivered = <<>>
    BY DEF NoInterrupt
  <2>6. InterruptTypes
    BY <2>1, <2>2, <2>3, <2>4 DEF InterruptTypes, InterruptInit
  <2>7. \A i \in Interrupts : AnswersTo(i, Engaged) = {} /\ AnswersTo(i, {"accepted"}) = {}
    BY <2>3, <2>4 DEF AnswersTo, Engaged, UnderWay
  <2>8. Decided
    BY <2>3, <2>4 DEF Decided, UnderWay
  <2>9. DeliveredAccepted
    BY <2>3, <2>5 DEF DeliveredAccepted
  <2>10. Alone
    BY <2>7 DEF Alone, Engaged
  <2>11. RespondOnce
    BY <2>3, <2>4, <2>5, <2>7 DEF RespondOnce, UnderWay
  <2> QED
    BY <2>6, <2>8, <2>9, <2>10, <2>11 DEF InterruptInv
<1>2. InterruptInv /\ [InterruptNext]_interruptVars => InterruptInv'
  <2> SUFFICES ASSUME InterruptInv, [InterruptNext]_interruptVars PROVE InterruptInv'
    OBVIOUS
  <2>1. ASSUME NEW i \in Interrupts, SaveInterrupt(i) \/ RegisterInterrupt(i) \/ TakeAnswer(i)
        PROVE  InterruptInv'
    BY <2>1, TableSteps
  <2>2. ASSUME NEW r \in Responders, NEW i \in Interrupts, NEW approved \in BOOLEAN,
               FindInterrupt(r, i, approved)
        PROVE  InterruptInv'
    BY <2>2, FindStep
  <2>3. ASSUME NEW r \in Responders, CheckPending(r) PROVE InterruptInv'
    BY <2>3, CheckStep
  <2>4. ASSUME NEW r \in Responders, RecordAnswer(r) PROVE InterruptInv'
    BY <2>4, RecordStep
  <2>5. ASSUME NEW r \in Responders, Decide(r) PROVE InterruptInv'
    BY <2>5, DecideStep
  <2>6. ASSUME NEW r \in Responders, Deliver(r) PROVE InterruptInv'
    BY <2>6, DeliverStep
  <2>7. CASE UNCHANGED interruptVars
    BY <2>7 DEF interruptVars, InterruptInv, InterruptTypes, Decided, DeliveredAccepted, Alone,
                RespondOnce, AnswersTo
  <2> QED
    BY <2>1, <2>2, <2>3, <2>4, <2>5, <2>6, <2>7 DEF InterruptNext
<1>3. InterruptInv => RespondOnce
  BY DEF InterruptInv
<1> QED
  BY <1>1, <1>2, <1>3, PTL DEF InterruptSpec

--------------------------------------------------------------------------------
(* InMemoryChannel *)

Outcomes == {"idle", "sent", "received", "closed", "gave up", "invalid", "panicked"}

(* The end of a call, or the beginning of one, leaves the others alone. *)
LEMMA AnswerKeeps ==
    ASSUME InMemoryInv, NEW p \in Procs, NEW st, NEW m \in Msgs \cup Invalid \cup {NoMsg},
           Answer(p, st, m), st \in Outcomes \cup {"receive"} \/ (st = "send" /\ m # NoMsg),
           messages' \in Seq(Msgs), Len(messages') <= Capacity, closed' \in BOOLEAN
    PROVE  InMemoryInv'
<1>1. /\ call' \in [Procs -> [st : Pending \cup Outcomes, msg : Msgs \cup Invalid \cup {NoMsg}]]
      /\ call'[p] = [st |-> st, msg |-> m]
      /\ \A q \in Procs \ {p} : call'[q] = call[q]
      /\ selecting' = selecting \ {p}
  BY DEF InMemoryInv, Answer, Pending, Outcomes
<1>2. selecting' \subseteq Procs /\ \A q \in selecting' : q \in selecting /\ q \in Procs /\ call'[q] = call[q]
  BY <1>1 DEF InMemoryInv
<1>3. /\ \A q \in selecting' : call'[q].st \in Pending
      /\ \A q \in selecting' : call'[q].st = "send" => call'[q].msg \in Msgs
  BY <1>2 DEF InMemoryInv, IsPending
<1>4. \A q \in Procs : call'[q].st = "send" => call'[q].msg # NoMsg
  <2>1. call'[p].st = st /\ call'[p].msg = m
    BY <1>1
  <2>2. st = "send" => m # NoMsg
    BY DEF Outcomes
  <2>3. \A q \in Procs : call[q].st = "send" => call[q].msg # NoMsg
    BY DEF InMemoryInv
  <2> QED
    BY <1>1, <2>1, <2>2, <2>3
<1> QED
  BY <1>1, <1>2, <1>3, <1>4 DEF InMemoryInv, IsPending, Outcomes

LEMMA SelectKeeps ==
    ASSUME InMemoryInv, NEW p \in Procs, Select(p), UNCHANGED <<messages, closed>>,
           call[p].st \in Pending, call[p].st = "send" => call[p].msg \in Msgs
    PROVE  InMemoryInv'
BY DEF InMemoryInv, Select, IsPending

LEMMA InMemoryInvariance == InMemorySpec => []InMemoryInv
<1> USE InMemoryAssumption DEF InMemoryAssumption
<1>1. InMemoryInit => InMemoryInv
  <2> SUFFICES ASSUME InMemoryInit PROVE InMemoryInv
    OBVIOUS
  <2>1. /\ messages = <<>> /\ closed = FALSE /\ selecting = {}
        /\ call = [p \in Procs |-> [st |-> "idle", msg |-> NoMsg]]
    BY DEF InMemoryInit
  <2>2. messages \in Seq(Msgs) /\ Len(messages) <= Capacity
    BY <2>1
  <2>3. \A p \in Procs : call[p].st = "idle"
    BY <2>1
  <2> QED
    BY <2>1, <2>2, <2>3 DEF InMemoryInv
<1>2. InMemoryInv /\ [InMemoryNext]_inMemoryVars => InMemoryInv'
  <2> SUFFICES ASSUME InMemoryInv, [InMemoryNext]_inMemoryVars PROVE InMemoryInv'
    OBVIOUS
  <2>0. messages \in Seq(Msgs) /\ Len(messages) <= Capacity /\ closed \in BOOLEAN
    BY DEF InMemoryInv
  <2>1. ASSUME NEW p \in Procs, NEW m \in Msgs \cup Invalid, InvokeSend(p, m) PROVE InMemoryInv'
    BY <2>0, <2>1, AnswerKeeps DEF InvokeSend
  <2>2. ASSUME NEW p \in Procs, InvokeReceive(p) PROVE InMemoryInv'
    BY <2>0, <2>2, AnswerKeeps DEF InvokeReceive
  <2>3. ASSUME NEW p \in Procs, SendCheck(p) PROVE InMemoryInv'
    <3>1. CASE Answer(p, "invalid", NoMsg) \/ Answer(p, "closed", NoMsg)
      BY <2>0, <2>3, <3>1, AnswerKeeps DEF SendCheck, Outcomes
    <3>2. CASE call[p].msg \notin Invalid /\ Select(p)
      <4>1. call[p].st = "send" /\ call[p].msg \in Msgs
        BY <2>3, <3>2 DEF SendCheck, Calling, InMemoryInv
      <4> QED
        BY <2>3, <3>2, <4>1, SelectKeeps DEF SendCheck, Pending
    <3> QED
      BY <2>3, <3>1, <3>2 DEF SendCheck
  <2>4. ASSUME NEW p \in Procs, SendPut(p) PROVE InMemoryInv'
    <3>1. call[p].msg \in Msgs
      BY <2>4 DEF SendPut, Selecting, InMemoryInv
    <3>2. messages' \in Seq(Msgs) /\ Len(messages') <= Capacity
      BY <2>0, <2>4, <3>1 DEF SendPut
    <3> QED
      BY <2>0, <2>4, <3>2, AnswerKeeps DEF SendPut, Outcomes
  <2>5. ASSUME NEW p \in Procs, SendPanic(p) \/ GiveUp(p) PROVE InMemoryInv'
    BY <2>0, <2>5, AnswerKeeps DEF SendPanic, GiveUp, Outcomes
  <2>6. ASSUME NEW p \in Procs, ReceiveCheck(p) PROVE InMemoryInv'
    BY <2>6, SelectKeeps DEF ReceiveCheck, Calling, Pending
  <2>7. ASSUME NEW p \in Procs, ReceiveGet(p) PROVE InMemoryInv'
    <3>1. /\ messages' = Tail(messages) /\ messages # <<>> /\ closed' = closed
          /\ Answer(p, "received", Head(messages))
      BY <2>7 DEF ReceiveGet
    <3>2. messages' \in Seq(Msgs) /\ Len(messages') <= Capacity /\ Head(messages) \in Msgs
      BY <2>0, <3>1
    <3> QED
      BY <2>0, <3>1, <3>2, AnswerKeeps DEF Outcomes
  <2>8. ASSUME NEW p \in Procs, ReceiveZero(p) PROVE InMemoryInv'
    BY <2>0, <2>8, AnswerKeeps DEF ReceiveZero, Outcomes
  <2>9. CASE Close
    BY <2>9 DEF Close, InMemoryInv, IsPending
  <2>10. CASE UNCHANGED inMemoryVars
    BY <2>10 DEF inMemoryVars, InMemoryInv, IsPending
  <2> QED
    BY <2>1, <2>2, <2>3, <2>4, <2>5, <2>6, <2>7, <2>8, <2>9, <2>10 DEF InMemoryNext
<1> QED
  BY <1>1, <1>2, PTL DEF InMemorySpec

(* While nobody closes it, the in-memory channel implements the message channel although
   it tests the flag in one critical section and relies on it later (Send, Receive). *)
THEOREM WhileOpen == InMemorySpec => ImplementsWhileOpen
<1> DEFINE Implements == ~closed => Abstract!Next \/ UNCHANGED Abstract!vars
<1>1. InMemoryInit => Abstract!Init
  BY DEF InMemoryInit, Abstract!Init, Abstract!Idle
<1>2. InMemoryInv /\ [InMemoryNext]_inMemoryVars => [Implements]_inMemoryVars
  <2> SUFFICES ASSUME InMemoryInv, [InMemoryNext]_inMemoryVars, ~closed
               PROVE  Abstract!Next \/ UNCHANGED Abstract!vars
    OBVIOUS
  <2> USE DEF Abstract!IsPending, Abstract!Pending, IsPending, Pending, Answer, Abstract!Answer
  <2>1. ASSUME NEW p \in Procs, NEW m \in Msgs \cup Invalid, InvokeSend(p, m)
        PROVE  Abstract!InvokeSend(p, m)
    BY <2>1 DEF InvokeSend, Abstract!InvokeSend
  <2>2. ASSUME NEW p \in Procs, InvokeReceive(p) PROVE Abstract!InvokeReceive(p)
    BY <2>2 DEF InvokeReceive, Abstract!InvokeReceive
  <2>3. ASSUME NEW p \in Procs, SendCheck(p)
        PROVE  Abstract!Reject(p) \/ UNCHANGED Abstract!vars
    BY <2>3 DEF SendCheck, Calling, Select, Abstract!Reject, Abstract!vars
  <2>4. ASSUME NEW p \in Procs, SendPut(p) PROVE Abstract!Accept(p)
    BY <2>4 DEF SendPut, Selecting, InMemoryInv, Abstract!Accept
  <2>5. ASSUME NEW p \in Procs, ReceiveCheck(p) PROVE UNCHANGED Abstract!vars
    BY <2>5 DEF ReceiveCheck, Select, Abstract!vars
  <2>6. ASSUME NEW p \in Procs, ReceiveGet(p) PROVE Abstract!Deliver(p)
    BY <2>6 DEF ReceiveGet, Selecting, Calling, Abstract!Deliver
  <2>7. ASSUME NEW p \in Procs, GiveUp(p) PROVE Abstract!GiveUp(p)
    BY <2>7 DEF GiveUp, InMemoryInv, Abstract!GiveUp
  <2>8. ASSUME NEW p \in Procs, SendPanic(p) \/ ReceiveZero(p) PROVE FALSE
    BY <2>8 DEF SendPanic, ReceiveZero
  <2>9. ASSUME Close PROVE Abstract!Close
    BY <2>9 DEF Close, Abstract!Close
  <2>10. ASSUME UNCHANGED inMemoryVars PROVE UNCHANGED Abstract!vars
    BY <2>10 DEF inMemoryVars, Abstract!vars
  <2> QED
    BY <2>1, <2>2, <2>3, <2>4, <2>5, <2>6, <2>7, <2>8, <2>9, <2>10 DEF InMemoryNext, Abstract!Next
<1> QED
  BY <1>1, <1>2, InMemoryInvariance, PTL DEF InMemorySpec, ImplementsWhileOpen

--------------------------------------------------------------------------------
(* Streamer *)

LEMMA RecordFields ==
    ASSUME NEW r \in StreamerRecord
    PROVE  /\ r.events \in Seq(Nat) /\ r.held \in SUBSET Nat
           /\ r.running \in BOOLEAN /\ r.closed \in BOOLEAN /\ r.zero \in BOOLEAN /\ r.panicked \in BOOLEAN
           /\ r.idle \in Nat /\ r.starts \in Nat /\ r.emitted \in Nat
           /\ r.dropped \in Nat /\ r.handled \in Nat /\ r.last \in Nat
BY DEF StreamerRecord

(* The numbers of a record by names of their own: handled, waiting, held, dropped,
   emitted *)
LEMMA EventNumbers ==
    ASSUME NEW r \in StreamerRecord, ConsumersInOrder(r)
    PROVE  \E h, w, c, d, e \in Nat :
              /\ r.handled = h /\ Len(r.events) = w /\ Cardinality(r.held) = c
              /\ r.dropped = d /\ r.emitted = e /\ h + w + c + d = e
<1>1. /\ r.handled \in Nat /\ r.dropped \in Nat /\ r.emitted \in Nat
      /\ Len(r.events) \in Nat /\ Cardinality(r.held) \in Nat
  BY RecordFields, FS_CardinalityType DEF ConsumersInOrder
<1>2. r.handled + Len(r.events) + Cardinality(r.held) + r.dropped = r.emitted
  BY DEF ConsumersInOrder
<1> QED
  BY <1>1, <1>2

(* Start, EmitEvent and Stop *)
LEMMA StartKeeps ==
    ASSUME NEW r \in StreamerRecord, ConsumersInOrder(r)
    PROVE  Started(r) \in StreamerRecord /\ ConsumersInOrder(Started(r))
<1>1. CASE r.running
  BY <1>1 DEF Started
<1>2. CASE ~r.running
  <2>1. PICK q : q = [r EXCEPT !.running = TRUE, !.idle = @ + 1, !.starts = @ + 1]
    OBVIOUS
  <2>2. Started(r) = q
    BY <1>2, <2>1 DEF Started
  <2>3. q \in StreamerRecord
    <3>1. r.idle + 1 \in Nat /\ r.starts + 1 \in Nat
      BY RecordFields
    <3>2. PICK i, n \in Nat : i = r.idle + 1 /\ n = r.starts + 1
      BY <3>1
    <3>3. q = [r EXCEPT !.running = TRUE, !.idle = i, !.starts = n]
      BY <2>1, <3>2
    <3> QED
      BY <3>3 DEF StreamerRecord
  <2>4. /\ q.idle = r.idle + 1 /\ q.starts = r.starts + 1 /\ q.held = r.held /\ q.events = r.events
        /\ q.emitted = r.emitted /\ q.dropped = r.dropped /\ q.handled = r.handled /\ q.last = r.last
        /\ q.panicked = r.panicked /\ q.closed = r.closed
    BY <2>1 DEF StreamerRecord
  <2>5. r.idle \in Nat /\ r.starts \in Nat /\ Cardinality(r.held) \in Nat
    BY RecordFields, FS_CardinalityType DEF ConsumersInOrder
  <2>6. q.idle + Cardinality(q.held) <= q.starts /\ (q.starts <= 1 => r.starts <= 1)
    BY <2>4, <2>5 DEF ConsumersInOrder
  <2>7. ConsumersInOrder(q)
    BY <2>4, <2>6 DEF ConsumersInOrder
  <2> QED
    BY <2>2, <2>3, <2>7
<1> QED
  BY <1>1, <1>2

LEMMA StopKeeps ==
    ASSUME NEW r \in StreamerRecord, ConsumersInOrder(r)
    PROVE  Stopped(r) \in StreamerRecord /\ ConsumersInOrder(Stopped(r))
<1>1. CASE ~r.running
  BY <1>1 DEF Stopped
<1>2. CASE r.running
  <2>1. PICK q : q = [r EXCEPT !.running = FALSE, !.closed = TRUE, !.panicked = r.closed]
    OBVIOUS
  <2>2. Stopped(r) = q
    BY <1>2, <2>1 DEF Stopped
  <2>3. q \in StreamerRecord
    BY <2>1 DEF StreamerRecord
  <2>4. /\ q.idle = r.idle /\ q.starts = r.starts /\ q.held = r.held /\ q.events = r.events
        /\ q.emitted = r.emitted /\ q.dropped = r.dropped /\ q.handled = r.handled /\ q.last = r.last
        /\ q.closed = TRUE
    BY <2>1 DEF StreamerRecord
  <2>5. ConsumersInOrder(q)
    BY <2>4 DEF ConsumersInOrder
  <2> QED
    BY <2>2, <2>3, <2>5
<1> QED
  BY <1>1, <1>2

LEMMA EmitKeeps ==
    ASSUME NEW r \in StreamerRecord, ConsumersInOrder(r)
    PROVE  EmitEvent(r) \in StreamerRecord /\ ConsumersInOrder(EmitEvent(r))
<1>0. /\ r.events \in Seq(Nat) /\ r.held \subseteq Nat /\ Cardinality(r.held) \in Nat
      /\ r.idle \in Nat /\ r.starts \in Nat /\ r.emitted \in Nat
      /\ r.dropped \in Nat /\ r.handled \in Nat /\ r.last \in Nat
  BY RecordFields, FS_CardinalityType DEF ConsumersInOrder
<1>9. PICK h, w, c, d, e \in Nat :
          /\ r.handled = h /\ Len(r.events) = w /\ Cardinality(r.held) = c
          /\ r.dropped = d /\ r.emitted = e /\ h + w + c + d = e
  BY EventNumbers
<1>1. CASE r.closed
  <2>1. PICK q : q = [r EXCEPT !.panicked = TRUE]
    OBVIOUS
  <2>2. EmitEvent(r) = q /\ q \in StreamerRecord
    BY <1>1, <2>1 DEF EmitEvent, StreamerRecord
  <2>3. /\ q.idle = r.idle /\ q.starts = r.starts /\ q.held = r.held /\ q.events = r.events
        /\ q.emitted = r.emitted /\ q.dropped = r.dropped /\ q.handled = r.handled /\ q.last = r.last
        /\ q.closed = r.closed
    BY <2>1 DEF StreamerRecord
  <2>4. ConsumersInOrder(q)
    BY <1>1, <2>3 DEF ConsumersInOrder
  <2> QED
    BY <2>2, <2>4
<1>2. CASE ~r.closed /\ Len(r.events) < StreamCapacity
  <2> DEFINE n == r.emitted + 1
             t == Append(r.events, n)
  <2>1. PICK q : q = [r EXCEPT !.emitted = n, !.events = t]
    OBVIOUS
  <2>2. EmitEvent(r) = q
    BY <1>2, <2>1 DEF EmitEvent
  <2>3. n \in Nat /\ t \in Seq(Nat) /\ Len(t) = Len(r.events) + 1 /\ Len(r.events) \in Nat
    BY <1>0
  <2>4. /\ \A i \in DOMAIN t : i \in DOMAIN r.events \/ (i = Len(r.events) + 1 /\ t[i] = n)
        /\ \A i \in DOMAIN r.events : t[i] = r.events[i] /\ i \in 1 .. Len(r.events)
    <3>1. \A i \in 1 .. Len(r.events) : t[i] = r.events[i]
      BY <1>0
    <3>2. t[Len(r.events) + 1] = n /\ DOMAIN t = 1 .. Len(r.events) + 1 /\ DOMAIN r.events = 1 .. Len(r.events)
      BY <1>0
    <3>3. \A i \in 1 .. Len(r.events) + 1 : i \in 1 .. Len(r.events) \/ i = Len(r.events) + 1
      BY <2>3
    <3> HIDE DEF t, n
    <3> QED
      BY <3>1, <3>2, <3>3
  <2> HIDE DEF t
  <2>5. q \in StreamerRecord
    BY <2>1, <2>3 DEF StreamerRecord
  <2>6. /\ q.idle = r.idle /\ q.starts = r.starts /\ q.held = r.held /\ q.events = t
        /\ q.emitted = n /\ q.dropped = r.dropped /\ q.handled = r.handled /\ q.last = r.last
        /\ q.closed = r.closed /\ q.panicked = r.panicked
    BY <2>1 DEF StreamerRecord
  <2>7. \A i \in DOMAIN t : t[i] \in 1 .. n /\ t[i] \notin r.held
    <3>1. \A i \in DOMAIN r.events : r.events[i] \in 1 .. r.emitted /\ r.events[i] \notin r.held
      BY DEF ConsumersInOrder
    <3>2. n \notin r.held /\ n \in 1 .. n
      <4>1. \A m \in r.held : m \in 1 .. r.emitted
        BY DEF ConsumersInOrder
      <4>2. n = e + 1 /\ r.emitted = e
        BY <1>9
      <4> HIDE DEF n
      <4> QED
        BY <4>1, <4>2
    <3> QED
      BY <1>0, <2>4, <3>1, <3>2, SMTT(20)
  <2>8. \A m \in r.held : m \in 1 .. r.emitted /\ m < n /\ m \in 1 .. n
    BY <1>0 DEF ConsumersInOrder
  <2>9. r.last <= n /\ r.last < n
    BY <1>0 DEF ConsumersInOrder
  <2>10. r.starts <= 1 => /\ \A m \in r.held : \A i \in DOMAIN t : m < t[i]
                          /\ \A i \in DOMAIN t : r.last < t[i]
    BY <2>4, <2>8, <2>9 DEF ConsumersInOrder
  <2>11. \A i, j \in DOMAIN t : i < j => t[i] < t[j]
    <3>1. \A i \in DOMAIN r.events : r.events[i] \in 1 .. r.emitted /\ r.events[i] < n
      BY <1>0, SMTT(20) DEF ConsumersInOrder
    <3>2. \A i, j \in DOMAIN r.events : i < j => r.events[i] < r.events[j]
      BY DEF ConsumersInOrder
    <3>3. \A i, j \in DOMAIN t : i < j => i \in DOMAIN r.events
      BY <2>3, <2>4, <1>0, SMTT(30)
    <3> QED
      BY <2>4, <3>1, <3>2, <3>3, SMTT(20)
  <2>12. r.handled + Len(t) + Cardinality(r.held) + r.dropped = n
    <3>1. Len(t) = w + 1 /\ n = e + 1
      BY <1>9, <2>3
    <3>2. h + (w + 1) + c + d = e + 1
      BY <1>9
    <3> QED
      BY <1>9, <3>1, <3>2
  <2>13. ConsumersInOrder(q)
    BY <2>6, <2>7, <2>8, <2>9, <2>10, <2>11, <2>12 DEF ConsumersInOrder
  <2> QED
    BY <2>2, <2>5, <2>13
<1>3. CASE ~r.closed /\ ~(Len(r.events) < StreamCapacity)
  <2> DEFINE n == r.emitted + 1
  <2>1. PICK q : q = [r EXCEPT !.emitted = n, !.dropped = @ + 1]
    OBVIOUS
  <2>2. EmitEvent(r) = q /\ q \in StreamerRecord
    <3>1. EmitEvent(r) = q
      BY <1>3, <2>1 DEF EmitEvent
    <3>2. n \in Nat /\ r.dropped + 1 \in Nat
      BY <1>0
    <3> HIDE DEF n
    <3> QED
      BY <2>1, <3>1, <3>2 DEF StreamerRecord
  <2>3. /\ q.idle = r.idle /\ q.starts = r.starts /\ q.held = r.held /\ q.events = r.events
        /\ q.emitted = n /\ q.dropped = r.dropped + 1 /\ q.handled = r.handled /\ q.last = r.last
        /\ q.closed = r.closed /\ q.panicked = r.panicked
    BY <2>1 DEF StreamerRecord
  <2>4. r.last <= n /\ 1 .. r.emitted \subseteq 1 .. n
    BY <1>0 DEF ConsumersInOrder
  <2>5. r.handled + Len(r.events) + Cardinality(r.held) + (r.dropped + 1) = n
    <3>1. h + w + c + (d + 1) = e + 1
      BY <1>9
    <3> QED
      BY <1>9, <3>1
  <2>6. ConsumersInOrder(q)
    BY <2>3, <2>4, <2>5 DEF ConsumersInOrder
  <2> QED
    BY <2>2, <2>6
<1> QED
  BY <1>1, <1>2, <1>3

LEMMA TailElements ==
    ASSUME NEW s \in Seq(Nat), s # <<>>, NEW i \in DOMAIN Tail(s)
    PROVE  i + 1 \in DOMAIN s /\ Tail(s)[i] = s[i + 1] /\ 1 < i + 1 /\ i \in Nat
<1>1. Len(s) \in Nat /\ Len(s) > 0 /\ DOMAIN s = 1 .. Len(s)
  OBVIOUS
<1>2. Len(Tail(s)) = Len(s) - 1 /\ DOMAIN Tail(s) = 1 .. Len(s) - 1
  OBVIOUS
<1>3. i \in Nat /\ i >= 1 /\ i <= Len(s) - 1
  BY <1>1, <1>2
<1>4. Tail(s)[i] = s[i + 1]
  BY <1>3
<1> QED
  BY <1>1, <1>3, <1>4

(* ConsumeEvent: a lone consumer had no event, and gets the oldest. *)
LEMMA ConsumeKeeps ==
    ASSUME NEW r \in StreamerRecord, ConsumersInOrder(r), r.idle > 0, r.events # <<>>,
           NEW q, q = [r EXCEPT !.idle = @ - 1, !.held = @ \cup {Head(r.events)}, !.events = Tail(@)]
    PROVE  q \in StreamerRecord /\ ConsumersInOrder(q)
<1> DEFINE x == r.events[1]
           t == Tail(r.events)
           g == r.held \cup {x}
<1>0. /\ r.events \in Seq(Nat) /\ r.held \subseteq Nat
      /\ r.idle \in Nat /\ r.starts \in Nat /\ r.last \in Nat
  BY RecordFields
<1>1. PICK h, w, c, d, e \in Nat :
          /\ r.handled = h /\ Len(r.events) = w /\ Cardinality(r.held) = c
          /\ r.dropped = d /\ r.emitted = e /\ h + w + c + d = e
  BY EventNumbers
<1>2. /\ Head(r.events) = x /\ x \in Nat /\ t \in Seq(Nat) /\ 1 \in DOMAIN r.events /\ Len(r.events) > 0
  BY <1>0, SMTT(20)
<1>3. Len(t) = w - 1 /\ w > 0
  BY <1>0, <1>1, <1>2
<1>4. \A i \in DOMAIN t : i + 1 \in DOMAIN r.events /\ t[i] = r.events[i + 1] /\ 1 < i + 1 /\ i \in Nat
  BY <1>0, <1>2, TailElements
<1>5. x \in 1 .. r.emitted /\ x \notin r.held
  BY <1>2 DEF ConsumersInOrder
<1> HIDE DEF x, t
<1>6. \A i \in DOMAIN t : t[i] \in 1 .. r.emitted /\ t[i] \notin r.held /\ x < t[i]
  BY <1>2, <1>4 DEF ConsumersInOrder, x
<1>7. \A i, j \in DOMAIN t : i < j => t[i] < t[j]
  BY <1>4 DEF ConsumersInOrder
<1>8. IsFiniteSet(g) /\ Cardinality(g) = c + 1
  BY <1>1, <1>5, FS_AddElement DEF ConsumersInOrder
<1>9. /\ q.idle = r.idle - 1 /\ q.held = g /\ q.events = t /\ q.starts = r.starts
      /\ q.emitted = r.emitted /\ q.dropped = r.dropped /\ q.handled = r.handled /\ q.last = r.last
      /\ q.closed = r.closed /\ q.panicked = r.panicked
  BY <1>2 DEF StreamerRecord, t
<1>10. q \in StreamerRecord
  <2>1. r.idle - 1 \in Nat /\ g \subseteq Nat
    BY <1>0, <1>2, SMTT(20)
  <2>2. PICK k \in Nat : k = r.idle - 1
    BY <2>1
  <2>3. q = [r EXCEPT !.idle = k, !.held = g, !.events = t]
    BY <1>2, <2>2 DEF t
  <2> HIDE DEF g
  <2> QED
    BY <1>2, <2>1, <2>3 DEF StreamerRecord
<1>11. h + (w - 1) + (c + 1) + d = e
  BY <1>1
<1>12. q.handled + Len(q.events) + Cardinality(q.held) + q.dropped = q.emitted
  BY <1>1, <1>3, <1>8, <1>9, <1>11
<1>13. q.idle + Cardinality(q.held) <= q.starts
  <2>1. r.idle + c <= r.starts
    BY <1>1 DEF ConsumersInOrder
  <2>2. (r.idle - 1) + (c + 1) <= r.starts
    BY <1>0, <1>1, <2>1, SMTT(20)
  <2>3. q.idle = r.idle - 1 /\ Cardinality(q.held) = c + 1 /\ q.starts = r.starts
    BY <1>8, <1>9
  <2> QED
    BY <2>2, <2>3
<1>14. r.starts <= 1 => r.held = {}
  <2>1. r.idle + c <= r.starts
    BY <1>1 DEF ConsumersInOrder
  <2>2. r.starts <= 1 => c = 0
    BY <1>0, <1>1, <2>1
  <2> QED
    BY <1>1, <2>2, FS_EmptySet DEF ConsumersInOrder
<1>15. /\ r.starts <= 1 => \A n \in g : \A i \in DOMAIN t : n < t[i]
       /\ r.starts <= 1 => \A n \in g : r.last < n
       /\ r.starts <= 1 => \A i \in DOMAIN t : r.last < t[i]
  <2>1. r.starts <= 1 => r.last < x /\ \A i \in DOMAIN r.events : r.last < r.events[i]
    BY <1>2 DEF ConsumersInOrder, x
  <2> QED
    BY <1>4, <1>6, <1>14, <2>1
<1>16. /\ \A i \in DOMAIN t : t[i] \in 1 .. r.emitted /\ t[i] \notin g
       /\ \A n \in g : n \in 1 .. r.emitted
  <2>1. \A n \in r.held : n \in 1 .. r.emitted
    BY DEF ConsumersInOrder
  <2>2. \A i \in DOMAIN t : t[i] # x
    BY <1>2, <1>6
  <2> QED
    BY <1>5, <1>6, <2>1, <2>2
<1>17. r.last <= r.emitted /\ (r.panicked => r.closed)
  BY DEF ConsumersInOrder
<1> HIDE DEF g
<1> QED
  BY <1>7, <1>8, <1>9, <1>10, <1>12, <1>13, <1>15, <1>16, <1>17 DEF ConsumersInOrder

LEMMA HandleKeeps ==
    ASSUME NEW r \in StreamerRecord, ConsumersInOrder(r), NEW n \in r.held,
           NEW q, q = [r EXCEPT !.idle = @ + 1, !.held = @ \ {n}, !.handled = @ + 1, !.last = n]
    PROVE  q \in StreamerRecord /\ ConsumersInOrder(q)
<1> DEFINE g == r.held \ {n}
<1>0. /\ r.events \in Seq(Nat) /\ r.held \subseteq Nat /\ n \in Nat
      /\ r.idle \in Nat /\ r.starts \in Nat
  BY RecordFields
<1>1. PICK h, w, c, d, e \in Nat :
          /\ r.handled = h /\ Len(r.events) = w /\ Cardinality(r.held) = c
          /\ r.dropped = d /\ r.emitted = e /\ h + w + c + d = e
  BY EventNumbers
<1>2. IsFiniteSet(g) /\ Cardinality(g) = c - 1
  BY <1>1, FS_RemoveElement DEF ConsumersInOrder
<1>3. Cardinality(g) \in Nat
  BY <1>2, FS_CardinalityType
<1>4. /\ q.idle = r.idle + 1 /\ q.held = g /\ q.events = r.events /\ q.starts = r.starts
      /\ q.emitted = r.emitted /\ q.dropped = r.dropped /\ q.handled = r.handled + 1 /\ q.last = n
      /\ q.closed = r.closed /\ q.panicked = r.panicked
  BY DEF StreamerRecord
<1>5. q \in StreamerRecord
  <2>1. r.idle + 1 \in Nat /\ r.handled + 1 \in Nat /\ g \subseteq Nat
    BY <1>0, <1>1, SMTT(20)
  <2>2. PICK k, l \in Nat : k = r.idle + 1 /\ l = r.handled + 1
    BY <2>1
  <2>3. q = [r EXCEPT !.idle = k, !.held = g, !.handled = l, !.last = n]
    BY <2>2
  <2> HIDE DEF g
  <2> QED
    BY <1>0, <2>1, <2>3, ZenonT(40) DEF StreamerRecord
<1>6. (h + 1) + w + (c - 1) + d = e
  BY <1>1
<1>7. q.handled + Len(q.events) + Cardinality(q.held) + q.dropped = q.emitted
  BY <1>1, <1>2, <1>4, <1>6
<1>8. q.idle + Cardinality(q.held) <= q.starts
  <2>1. r.idle + c <= r.starts
    BY <1>1 DEF ConsumersInOrder
  <2>2. (r.idle + 1) + (c - 1) <= r.starts
    BY <1>0, <1>1, <2>1, SMTT(20)
  <2> QED
    BY <1>2, <1>4, <2>2
<1>9. r.starts <= 1 => g = {}
  <2>1. r.idle + c <= r.starts
    BY <1>1 DEF ConsumersInOrder
  <2>2. r.starts <= 1 => c - 1 = 0
    BY <1>0, <1>1, <1>2, <1>3, <2>1, SMTT(30)
  <2> QED
    BY <1>2, <2>2, FS_EmptySet
<1>10. /\ n \in 1 .. r.emitted /\ n <= r.emitted
       /\ r.starts <= 1 => \A i \in DOMAIN r.events : n < r.events[i]
       /\ \A i \in DOMAIN r.events : r.events[i] \in 1 .. r.emitted /\ r.events[i] \notin r.held
       /\ \A m \in r.held : m \in 1 .. r.emitted
       /\ \A i, j \in DOMAIN r.events : i < j => r.events[i] < r.events[j]
       /\ r.panicked => r.closed
  BY <1>1 DEF ConsumersInOrder
<1>11. /\ \A i \in DOMAIN r.events : r.events[i] \notin g
       /\ \A m \in g : m \in 1 .. r.emitted
  BY <1>10
<1> HIDE DEF g
<1> QED
  BY <1>2, <1>4, <1>5, <1>7, <1>8, <1>9, <1>10, <1>11 DEF ConsumersInOrder

(* What the handlers were not given yet is counted once. *)
LEMMA WaitingCounted ==
    ASSUME NEW r \in StreamerRecord, ConsumersInOrder(r),
           NEW waiting, waiting = {r.events[i] : i \in DOMAIN r.events} \cup r.held
    PROVE  waiting \subseteq 1 .. r.emitted /\ Cardinality(waiting) = Len(r.events) + Cardinality(r.held)
<1> DEFINE D == 1 .. Len(r.events)
           R == {r.events[i] : i \in DOMAIN r.events}
<1>1. r.events \in Seq(Nat) /\ Len(r.events) \in Nat /\ DOMAIN r.events = D /\ D \subseteq Nat
  BY RecordFields
<1>2. IsFiniteSet(D) /\ Cardinality(D) = Len(r.events)
  <2>1. 1 \in Int /\ Len(r.events) \in Int
    BY <1>1
  <2>2. IsFiniteSet(D) /\ Cardinality(D) = IF 1 > Len(r.events) THEN 0 ELSE Len(r.events) - 1 + 1
    BY <2>1, FS_Interval, Zenon
  <2> QED
    BY <1>1, <2>2
<1>3. \A i, j \in D : r.events[i] = r.events[j] => i = j
  <2> SUFFICES ASSUME NEW i \in D, NEW j \in D, i # j PROVE r.events[i] # r.events[j]
    OBVIOUS
  <2>1. i \in Nat /\ j \in Nat /\ r.events[i] \in Nat /\ r.events[j] \in Nat
    BY <1>1
  <2>2. (i < j => r.events[i] < r.events[j]) /\ (j < i => r.events[j] < r.events[i])
    BY <1>1 DEF ConsumersInOrder
  <2> QED
    BY <2>1, <2>2
<1>4. r.events \in Bijection(D, R)
  <2>1. r.events \in [D -> R]
    BY <1>1
  <2>2. \A y \in R : \E i \in D : r.events[i] = y
    BY <1>1
  <2> HIDE DEF D, R
  <2> QED
    BY <1>3, <2>1, <2>2 DEF Bijection, Injection, Surjection, IsInjective
<1>5. IsFiniteSet(R) /\ Cardinality(R) = Len(r.events)
  <2> HIDE DEF D, R
  <2> QED
    BY <1>2, <1>4, FS_Bijection DEF ExistsBijection
<1>6. R \cap r.held = {}
  BY DEF ConsumersInOrder
<1>7. waiting = R \cup r.held /\ IsFiniteSet(r.held)
  BY DEF ConsumersInOrder
<1>8. waiting \subseteq 1 .. r.emitted
  BY DEF ConsumersInOrder
<1>9. Cardinality(R \cup r.held) = Cardinality(R) + Cardinality(r.held) - Cardinality(R \cap r.held)
  <2> HIDE DEF R
  <2> QED
    BY <1>5, <1>7, FS_Union
<1>10. Cardinality(R \cap r.held) = 0 /\ Cardinality(r.held) \in Nat
  BY <1>6, <1>7, FS_EmptySet, FS_CardinalityType
<1>11. Cardinality(waiting) = Len(r.events) + Cardinality(r.held)
  <2>1. PICK w, c \in Nat : w = Len(r.events) /\ c = Cardinality(r.held)
    BY <1>1, <1>10
  <2>2. Cardinality(waiting) = w + c - 0
    <3> HIDE DEF R
    <3> QED
      BY <1>5, <1>7, <1>9, <1>10, <2>1
  <2>3. w + c - 0 = w + c
    OBVIOUS
  <2> QED
    BY <2>1, <2>2, <2>3
<1> QED
  BY <1>8, <1>11

LEMMA InOrder ==
    ASSUME StreamerInv
    PROVE  HandledInOrder
<1> SUFFICES ASSUME NEW s \in Streamers, NEW r, r = streamer[s],
                    NEW waiting, waiting = {r.events[i] : i \in DOMAIN r.events} \cup r.held
             PROVE  /\ r.handled + Len(r.events) + Cardinality(r.held) + r.dropped = r.emitted
                    /\ waiting \subseteq 1 .. r.emitted /\ Cardinality(waiting) = Len(r.events) + Cardinality(r.held)
                    /\ r.starts <= 1 => \A n \in waiting : r.last < n
                    /\ \A i, j \in DOMAIN r.events : i < j => r.events[i] < r.events[j]
                    /\ r.panicked => r.closed
  BY DEF HandledInOrder
<1>1. r \in StreamerRecord /\ ConsumersInOrder(r)
  BY DEF StreamerInv
<1>2. /\ r.handled + Len(r.events) + Cardinality(r.held) + r.dropped = r.emitted
      /\ \A i, j \in DOMAIN r.events : i < j => r.events[i] < r.events[j]
      /\ r.panicked => r.closed
  BY <1>1 DEF ConsumersInOrder
<1>3. r.starts <= 1 => \A n \in waiting : r.last < n
  BY <1>1 DEF ConsumersInOrder
<1> QED
  BY <1>1, <1>2, <1>3, WaitingCounted

(* Handlers get the events of a streamer that was started once in the order of their
   emission, and every event of any streamer is handled, dropped, held or in the
   channel, for channels of any capacity and any number of events (Start, EmitEvent,
   Stop and processEvents of Streamer). *)
THEOREM EventsInOrder == StreamerSpec => []HandledInOrder
<1>1. StreamerInit => StreamerInv
  <2>1. NewStreamer \in StreamerRecord
    <3>1. <<>> \in Seq(Nat)
      OBVIOUS
    <3> QED
      BY <3>1 DEF NewStreamer, StreamerRecord
  <2>2. /\ NewStreamer.events = <<>> /\ NewStreamer.held = {} /\ NewStreamer.idle = 0
        /\ NewStreamer.starts = 0 /\ NewStreamer.emitted = 0 /\ NewStreamer.dropped = 0
        /\ NewStreamer.handled = 0 /\ NewStreamer.last = 0 /\ NewStreamer.panicked = FALSE
    BY DEF NewStreamer
  <2>3. ConsumersInOrder(NewStreamer)
    BY <2>2, FS_EmptySet DEF ConsumersInOrder
  <2> QED
    BY <2>1, <2>3 DEF StreamerInit, StreamerInv
<1>2. StreamerInv /\ [StreamerNext]_streamer => StreamerInv'
  <2> SUFFICES ASSUME StreamerInv, StreamerNext PROVE StreamerInv'
    BY DEF StreamerInv
  <2>1. PICK s \in Streamers : StreamerRuns(s) \/ UserCalls(s)
    BY DEF StreamerNext
  <2>2. PICK r : r = streamer[s] /\ r \in StreamerRecord /\ ConsumersInOrder(r)
    BY DEF StreamerInv
  <2>3. ASSUME NEW q \in StreamerRecord, ConsumersInOrder(q), Set(s, q) PROVE StreamerInv'
    BY <2>3 DEF Set, StreamerInv
  <2>4. CASE ConsumeEvent(s)
    <3>1. PICK q : q = [r EXCEPT !.idle = @ - 1, !.held = @ \cup {Head(r.events)}, !.events = Tail(@)]
      OBVIOUS
    <3>2. r.idle > 0 /\ r.events # <<>> /\ Set(s, q)
      BY <2>2, <2>4, <3>1 DEF ConsumeEvent
    <3> QED
      BY <2>2, <2>3, <3>1, <3>2, ConsumeKeeps
  <2>5. ASSUME NEW n \in r.held, HandleEvent(s, n) PROVE StreamerInv'
    <3>1. PICK q : q = [r EXCEPT !.idle = @ + 1, !.held = @ \ {n}, !.handled = @ + 1, !.last = n]
      OBVIOUS
    <3>2. Set(s, q)
      BY <2>2, <2>5, <3>1 DEF HandleEvent
    <3> QED
      BY <2>2, <2>3, <3>1, <3>2, HandleKeeps
  <2>6. CASE ConsumeZero(s)
    <3>1. PICK q : q = [r EXCEPT !.zero = TRUE]
      OBVIOUS
    <3>2. Set(s, q) /\ q \in StreamerRecord
      BY <2>2, <2>6, <3>1 DEF ConsumeZero, StreamerRecord
    <3>3. /\ q.idle = r.idle /\ q.starts = r.starts /\ q.held = r.held /\ q.events = r.events
          /\ q.emitted = r.emitted /\ q.dropped = r.dropped /\ q.handled = r.handled /\ q.last = r.last
          /\ q.closed = r.closed /\ q.panicked = r.panicked
      BY <2>2, <3>1 DEF StreamerRecord
    <3>4. ConsumersInOrder(q)
      BY <2>2, <3>3 DEF ConsumersInOrder
    <3> QED
      BY <2>3, <3>2, <3>4
  <2>7. CASE ConsumerExits(s)
    <3>1. r.idle > 0 /\ r.idle \in Nat /\ r.starts \in Nat /\ Cardinality(r.held) \in Nat
      BY <2>2, <2>7, RecordFields, FS_CardinalityType DEF ConsumerExits, ConsumersInOrder
    <3>2. PICK k \in Nat : k = r.idle - 1
      BY <3>1
    <3>3. PICK q : q = [r EXCEPT !.idle = k]
      OBVIOUS
    <3>4. Set(s, q) /\ q \in StreamerRecord
      BY <2>2, <2>7, <3>2, <3>3 DEF ConsumerExits, StreamerRecord
    <3>5. /\ q.idle = k /\ q.starts = r.starts /\ q.held = r.held /\ q.events = r.events
          /\ q.emitted = r.emitted /\ q.dropped = r.dropped /\ q.handled = r.handled /\ q.last = r.last
          /\ q.closed = r.closed /\ q.panicked = r.panicked
      BY <2>2, <3>3 DEF StreamerRecord
    <3>6. k + Cardinality(r.held) <= r.starts
      <4>1. r.idle + Cardinality(r.held) <= r.starts
        BY <2>2 DEF ConsumersInOrder
      <4> QED
        BY <3>1, <3>2, <4>1
    <3>7. ConsumersInOrder(q)
      BY <2>2, <3>5, <3>6 DEF ConsumersInOrder
    <3> QED
      BY <2>3, <3>4, <3>7
  <2>8. CASE Set(s, Started(streamer[s]))
    BY <2>2, <2>3, <2>8, StartKeeps
  <2>9. CASE Set(s, Stopped(streamer[s]))
    BY <2>2, <2>3, <2>9, StopKeeps
  <2>10. CASE Set(s, EmitEvent(streamer[s]))
    BY <2>2, <2>3, <2>10, EmitKeeps
  <2> QED
    BY <2>1, <2>2, <2>4, <2>5, <2>6, <2>7, <2>8, <2>9, <2>10 DEF StreamerRuns, UserCalls
<1> QED
  BY <1>1, <1>2, InOrder, PTL DEF StreamerSpec

--------------------------------------------------------------------------------
(* StateService.  The invariant is restated of one client at a time, and with the number
   n of the stored copies. *)

CallRecord(n) ==
    [at : {"idle", "send", "copy", "received", "update"}, ref : 1 .. n \cup {NoRef},
     todo : SUBSET Keys, from : Clients \cup {NoClient},
     got : UNION {[K -> Nat] : K \in SUBSET Keys}, updated : BOOLEAN]

(* What holds of the request x of d under the mutex m and the maps M *)
RequestOk(e, m, M, d, x) ==
    /\ x.at = "copy" => /\ x.ref # NoRef /\ (~e => m = d) /\ (x.updated => e)
                        /\ (~x.updated => \A k \in DOMAIN x.got : x.got[k] = M[x.ref][k])
    /\ x.at = "update" => x.ref # NoRef /\ x.from # NoClient /\ m = d
    /\ x.at = "received" => x.from # NoClient

StateOk(n, e, M, ref, m, ups, rq) ==
    /\ e \in BOOLEAN
    /\ M \in [Clients \cup 1 .. n -> [Keys -> Nat]]
    /\ ref \in 1 .. n \cup {NoRef}
    /\ ups \in Seq(Clients) \cup {NoChannel}
    /\ rq \in [Clients -> CallRecord(n)]
    /\ \A d \in Clients : RequestOk(e, m, M, d, rq[d])

LEMMA CopiesNumbered ==
    ASSUME NEW n \in Nat, NEW S, S = Clients \cup 1 .. n
    PROVE  S \ Clients = 1 .. n
<1>1. Clients \cap 1 .. n = {}
  BY StateServiceAssumption DEF StateServiceAssumption
<1> QED
  BY <1>1

LEMMA StateInvGives ==
    ASSUME StateInv
    PROVE  \E n \in Nat : StateOk(n, enhanced, maps, stateRef, mu, updates, request)
<1>1. PICK n \in Nat : maps \in [Clients \cup 1 .. n -> [Keys -> Nat]]
  BY DEF StateInv, StateTypes
<1>2. Copies = 1 .. n
  BY <1>1, CopiesNumbered DEF Copies
<1>3. /\ enhanced \in BOOLEAN /\ stateRef \in 1 .. n \cup {NoRef}
      /\ updates \in Seq(Clients) \cup {NoChannel}
  BY <1>2 DEF StateInv, StateTypes
<1>4. request \in [Clients -> CallRecord(n)]
  BY <1>2 DEF StateInv, StateTypes, CallRecord
<1>5. \A d \in Clients : RequestOk(enhanced, mu, maps, d, request[d])
  BY DEF RequestOk, StateInv, Locked, LoadIsSnapshot, At
<1> QED
  BY <1>1, <1>3, <1>4, <1>5 DEF StateOk

LEMMA StateInvFollows ==
    ASSUME NEW n \in Nat, StateOk(n, enhanced', maps', stateRef', mu', updates', request')
    PROVE  StateInv'
<1>1. maps' \in [Clients \cup 1 .. n -> [Keys -> Nat]]
  BY DEF StateOk
<1>2. Copies' = 1 .. n
  BY <1>1, CopiesNumbered DEF Copies
<1>3. /\ enhanced' \in BOOLEAN /\ stateRef' \in 1 .. n \cup {NoRef}
      /\ updates' \in Seq(Clients) \cup {NoChannel}
      /\ request' \in [Clients -> CallRecord(n)]
  BY DEF StateOk
<1>4. \A d \in Clients : RequestOk(enhanced', mu', maps', d, request'[d])
  BY DEF StateOk
<1>5. StateTypes'
  BY <1>1, <1>2, <1>3 DEF StateTypes, CallRecord
<1>6. Locked'
  BY <1>4 DEF RequestOk, Locked, At
<1>7. LoadIsSnapshot'
  BY <1>4 DEF RequestOk, LoadIsSnapshot, At
<1> QED
  BY <1>5, <1>6, <1>7 DEF StateInv

(* A step of c alone, which may release a mutex that is its own and take a free one *)
LEMMA OwnStep ==
    ASSUME NEW n \in Nat, StateOk(n, enhanced, maps, stateRef, mu, updates, request),
           enhanced' = enhanced, maps' = maps,
           NEW c \in Clients, NEW x \in CallRecord(n), request' = [request EXCEPT ![c] = x],
           mu' = mu \/ mu \in {NoClient, c}, RequestOk(enhanced, mu', maps, c, x),
           stateRef' \in 1 .. n \cup {NoRef}, updates' \in Seq(Clients) \cup {NoChannel}
    PROVE  StateInv'
<1>1. /\ enhanced \in BOOLEAN /\ maps \in [Clients \cup 1 .. n -> [Keys -> Nat]]
      /\ request \in [Clients -> CallRecord(n)]
      /\ \A d \in Clients : RequestOk(enhanced, mu, maps, d, request[d])
  BY DEF StateOk
<1>2. /\ request' \in [Clients -> CallRecord(n)] /\ request'[c] = x
      /\ \A d \in Clients \ {c} : request'[d] = request[d]
  BY <1>1
<1>3. ASSUME NEW d \in Clients \ {c} PROVE RequestOk(enhanced, mu', maps, d, request[d])
  <2>1. mu = d => mu' = d
    BY StateServiceAssumption DEF StateServiceAssumption
  <2>2. RequestOk(enhanced, mu, maps, d, request[d])
    BY <1>1
  <2> QED
    BY <2>1, <2>2 DEF RequestOk
<1>4. \A d \in Clients : RequestOk(enhanced, mu', maps, d, request'[d])
  BY <1>2, <1>3
<1>5. StateOk(n, enhanced', maps', stateRef', mu', updates', request')
  BY <1>1, <1>2, <1>4 DEF StateOk
<1> QED
  BY <1>5, StateInvFollows

LEMMA NoCallOk ==
    ASSUME NEW n \in Nat
    PROVE  /\ NoCall \in CallRecord(n) /\ NoCall.at = "idle"
           /\ \A e, m, M, d : RequestOk(e, m, M, d, NoCall)
<1>1. NoCall.at = "idle"
  BY DEF NoCall
<1>2. [k \in {} |-> 0] \in UNION {[K -> Nat] : K \in SUBSET Keys}
  <2>1. [k \in {} |-> 0] \in [{} -> Nat] /\ {} \in SUBSET Keys
    OBVIOUS
  <2> QED
    BY <2>1
<1>3. NoCall \in CallRecord(n)
  BY <1>2 DEF NoCall, CallRecord
<1> QED
  BY <1>1, <1>3 DEF RequestOk

(* Work and StoreCopy: nobody is copying a client's own map, or the one that is made. *)
LEMMA OwnMapStep ==
    ASSUME NEW n \in Nat, StateOk(n, enhanced, maps, stateRef, mu, updates, request),
           NEW c \in Clients, NEW k \in Keys, Work(c, k)
    PROVE  StateInv'
<1>1. /\ enhanced \in BOOLEAN /\ maps \in [Clients \cup 1 .. n -> [Keys -> Nat]]
      /\ stateRef \in 1 .. n \cup {NoRef} /\ updates \in Seq(Clients) \cup {NoChannel}
      /\ request \in [Clients -> CallRecord(n)]
      /\ \A d \in Clients : RequestOk(enhanced, mu, maps, d, request[d])
  BY DEF StateOk
<1>2. maps' = [maps EXCEPT ![c] = [maps[c] EXCEPT ![k] = maps[c][k] + 1]]
  BY DEF Work
<1>3. maps' \in [Clients \cup 1 .. n -> [Keys -> Nat]] /\ \A r \in 1 .. n : maps'[r] = maps[r]
  <2>1. c \notin 1 .. n
    BY StateServiceAssumption DEF StateServiceAssumption
  <2>2. maps[c] \in [Keys -> Nat]
    BY <1>1
  <2>3. [maps[c] EXCEPT ![k] = maps[c][k] + 1] \in [Keys -> Nat]
    BY <2>2
  <2> QED
    BY <1>1, <1>2, <2>1, <2>3
<1>4. ASSUME NEW d \in Clients PROVE RequestOk(enhanced, mu, maps', d, request[d])
  <2>1. request[d].ref \in 1 .. n \cup {NoRef}
    BY <1>1 DEF CallRecord
  <2> QED
    BY <1>1, <1>3, <2>1 DEF RequestOk
<1>5. UNCHANGED <<enhanced, stateRef, mu, updates, request>>
  BY DEF Work
<1>6. StateOk(n, enhanced', maps', stateRef', mu', updates', request')
  BY <1>1, <1>3, <1>4, <1>5 DEF StateOk
<1> QED
  BY <1>6, StateInvFollows

LEMMA StoreStep ==
    ASSUME NEW n \in Nat, StateOk(n, enhanced, maps, stateRef, mu, updates, request),
           NEW c \in Clients, StoreCopy(c)
    PROVE  StateInv'
<1>1. /\ enhanced \in BOOLEAN /\ maps \in [Clients \cup 1 .. n -> [Keys -> Nat]]
      /\ updates \in Seq(Clients) \cup {NoChannel}
      /\ request \in [Clients -> CallRecord(n)]
      /\ \A d \in Clients : RequestOk(enhanced, mu, maps, d, request[d])
  BY DEF StateOk
<1>2. Cardinality(Copies) = n
  <2>1. Copies = 1 .. n
    BY <1>1, CopiesNumbered DEF Copies
  <2>2. 1 \in Int /\ n \in Int
    OBVIOUS
  <2>3. Cardinality(1 .. n) = IF 1 > n THEN 0 ELSE n - 1 + 1
    BY <2>2, FS_Interval, Zenon
  <2> QED
    BY <2>1, <2>3
<1> DEFINE r == n + 1
<1>3. /\ maps' = [x \in DOMAIN maps \cup {r} |-> IF x = r THEN maps[c] ELSE maps[x]]
      /\ stateRef' = r /\ request' = [request EXCEPT ![c].at = IF enhanced THEN "send" ELSE "idle"]
      /\ UNCHANGED <<enhanced, mu, updates>>
  BY <1>2 DEF StoreCopy, Go
<1>4. 1 .. r = 1 .. n \cup {r} /\ r \in Nat /\ r \notin 1 .. n
  OBVIOUS
<1> HIDE DEF r
<1>5. maps' \in [Clients \cup 1 .. r -> [Keys -> Nat]]
  <2>1. DOMAIN maps \cup {r} = Clients \cup 1 .. r
    BY <1>1, <1>4
  <2> QED
    BY <1>1, <1>3, <2>1
<1>6. \A y \in 1 .. n : maps'[y] = maps[y]
  BY <1>1, <1>3, <1>4
<1>7. PICK at \in {"send", "idle"} : request' = [request EXCEPT ![c].at = at]
  BY <1>3
<1>8. \A d \in Clients : request[d] \in CallRecord(r) /\ request[d].ref \in 1 .. n \cup {NoRef}
  BY <1>1, <1>4 DEF CallRecord
<1>9. PICK x : x = [request[c] EXCEPT !.at = at]
  OBVIOUS
<1>10. x \in CallRecord(r) /\ x.at = at
  BY <1>8, <1>9 DEF CallRecord
<1>11. /\ request' \in [Clients -> CallRecord(r)] /\ request'[c] = x
       /\ \A d \in Clients \ {c} : request'[d] = request[d]
  BY <1>1, <1>7, <1>8, <1>9, <1>10
<1>12. RequestOk(enhanced, mu, maps', c, x)
  BY <1>10 DEF RequestOk
<1>13. ASSUME NEW d \in Clients \ {c} PROVE RequestOk(enhanced, mu, maps', d, request[d])
  BY <1>1, <1>6, <1>8 DEF RequestOk
<1>14. StateOk(r, enhanced', maps', stateRef', mu', updates', request')
  BY <1>1, <1>3, <1>4, <1>5, <1>11, <1>12, <1>13 DEF StateOk
<1> QED
  BY <1>4, <1>14, StateInvFollows

(* The enhanced service updates a map that somebody is copying, and only then. *)
LEMMA UpdateStep ==
    ASSUME NEW n \in Nat, StateOk(n, enhanced, maps, stateRef, mu, updates, request),
           NEW c \in Clients, NEW x \in CallRecord(n), NEW ref \in 1 .. n,
           mu \in {NoClient, c}, mu' = c, enhanced' = enhanced, stateRef' = stateRef, updates' = updates,
           request' = [d \in Clients |-> IF d = c THEN x
                                         ELSE IF At(d, "copy") /\ request[d].ref = ref
                                              THEN [request[d] EXCEPT !.updated = TRUE] ELSE request[d]],
           maps' \in [Clients \cup 1 .. n -> [Keys -> Nat]],
           \A y \in 1 .. n \ {ref} : maps'[y] = maps[y],
           x.at = "update", x.ref # NoRef, x.from # NoClient
    PROVE  StateInv'
<1>1. /\ enhanced \in BOOLEAN
      /\ stateRef \in 1 .. n \cup {NoRef} /\ updates \in Seq(Clients) \cup {NoChannel}
      /\ request \in [Clients -> CallRecord(n)]
      /\ \A d \in Clients : RequestOk(enhanced, mu, maps, d, request[d])
  BY DEF StateOk
<1>2. RequestOk(enhanced, c, maps', c, x)
  BY DEF RequestOk
<1>3. ASSUME NEW d \in Clients \ {c}
      PROVE  request'[d] \in CallRecord(n) /\ RequestOk(enhanced, c, maps', d, request'[d])
  <2>1. request[d] \in CallRecord(n) /\ RequestOk(enhanced, mu, maps, d, request[d]) /\ mu # d
    BY <1>1, StateServiceAssumption DEF StateServiceAssumption
  <2>2. (At(d, "copy") => enhanced) /\ request[d].at # "update"
    BY <2>1 DEF RequestOk, At
  <2>3. CASE At(d, "copy") /\ request[d].ref = ref
    <3>1. request'[d] = [request[d] EXCEPT !.updated = TRUE]
      BY <2>3
    <3>2. /\ request'[d] \in CallRecord(n) /\ request'[d].updated = TRUE /\ request'[d].at = "copy"
          /\ request'[d].ref = ref
      BY <2>1, <2>3, <3>1 DEF CallRecord, At
    <3>3. ref # NoRef
      BY StateServiceAssumption DEF StateServiceAssumption
    <3> QED
      BY <2>2, <2>3, <3>2, <3>3 DEF RequestOk
  <2>4. CASE ~(At(d, "copy") /\ request[d].ref = ref)
    <3>1. request'[d] = request[d]
      BY <2>4
    <3>2. request[d].ref \in 1 .. n \cup {NoRef}
      BY <2>1 DEF CallRecord
    <3>3. CASE request[d].at = "copy"
      <4>1. /\ request[d].ref # NoRef /\ request[d].ref # ref
            /\ (~request[d].updated =>
                  \A k \in DOMAIN request[d].got : request[d].got[k] = maps[request[d].ref][k])
        BY <2>1, <2>4, <3>3 DEF RequestOk, At
      <4>2. maps'[request[d].ref] = maps[request[d].ref]
        BY <3>2, <4>1
      <4> QED
        BY <2>1, <2>2, <3>1, <3>3, <4>1, <4>2 DEF RequestOk, At
    <3>4. CASE request[d].at # "copy"
      BY <2>1, <2>2, <3>1, <3>4 DEF RequestOk
    <3> QED
      BY <3>3, <3>4
  <2> QED
    BY <2>3, <2>4
<1>4. request' \in [Clients -> CallRecord(n)] /\ request'[c] = x
  <2>1. \A d \in Clients : request'[d] \in CallRecord(n)
    BY <1>3
  <2> QED
    BY <2>1
<1>5. \A d \in Clients : RequestOk(enhanced', mu', maps', d, request'[d])
  BY <1>2, <1>3, <1>4
<1>6. StateOk(n, enhanced', maps', stateRef', mu', updates', request')
  BY <1>1, <1>4, <1>5 DEF StateOk
<1> QED
  BY <1>6, StateInvFollows

LEMMA CopyStep ==
    ASSUME NEW n \in Nat, StateOk(n, enhanced, maps, stateRef, mu, updates, request),
           NEW c \in Clients, NEW k \in Keys, CopyKey(c, k)
    PROVE  StateInv'
<1>1. /\ request[c] \in CallRecord(n) /\ RequestOk(enhanced, mu, maps, c, request[c])
      /\ stateRef \in 1 .. n \cup {NoRef} /\ updates \in Seq(Clients) \cup {NoChannel}
      /\ maps \in [Clients \cup 1 .. n -> [Keys -> Nat]] /\ request \in [Clients -> CallRecord(n)]
  BY DEF StateOk
<1>2. request[c].at = "copy" /\ request[c].ref \in 1 .. n
  BY <1>1 DEF CopyKey, At, CallRecord, RequestOk
<1> DEFINE old == request[c].got
           got == [y \in DOMAIN old \cup {k} |-> IF y = k THEN maps[request[c].ref][k] ELSE old[y]]
           todo == request[c].todo \ {k}
           x == [request[c] EXCEPT !.todo = todo, !.got = got]
<1>3. request' = [request EXCEPT ![c] = x]
  BY <1>1 DEF CopyKey
<1>4. maps[request[c].ref] \in [Keys -> Nat]
  BY <1>1, <1>2
<1>5. PICK K \in SUBSET Keys : old \in [K -> Nat]
  BY <1>1 DEF CallRecord
<1>6. got \in [K \cup {k} -> Nat] /\ K \cup {k} \in SUBSET Keys
  BY <1>4, <1>5
<1>7. got \in UNION {[S -> Nat] : S \in SUBSET Keys}
  <2> HIDE DEF got
  <2> QED
    BY <1>6
<1>8. todo \in SUBSET Keys
  BY <1>1 DEF CallRecord
<1>9. ~request[c].updated => \A y \in DOMAIN got : got[y] = maps[request[c].ref][y]
  <2>1. ~request[c].updated => \A y \in DOMAIN old : old[y] = maps[request[c].ref][y]
    BY <1>1, <1>2 DEF RequestOk
  <2> QED
    BY <2>1
<1> HIDE DEF got, todo, old
<1>10. /\ x \in CallRecord(n) /\ x.at = "copy" /\ x.ref = request[c].ref /\ x.got = got
       /\ x.updated = request[c].updated
  BY <1>1, <1>2, <1>7, <1>8 DEF CallRecord
<1> HIDE DEF x
<1>11. UNCHANGED <<enhanced, maps, stateRef, mu, updates>>
  BY DEF CopyKey
<1>12. RequestOk(enhanced, mu, maps, c, x)
  BY <1>1, <1>2, <1>9, <1>10 DEF RequestOk
<1> QED
  BY <1>1, <1>3, <1>10, <1>11, <1>12, OwnStep

LEMMA BeginLoadStep ==
    ASSUME NEW n \in Nat, StateOk(n, enhanced, maps, stateRef, mu, updates, request),
           NEW c \in Clients, BeginLoad(c)
    PROVE  StateInv'
<1>1. stateRef \in 1 .. n \cup {NoRef} /\ updates \in Seq(Clients) \cup {NoChannel} /\ enhanced \in BOOLEAN
  BY DEF StateOk
<1> DEFINE x == [NoCall EXCEPT !.at = "copy", !.ref = stateRef, !.todo = Keys]
<1>2. NoCall \in CallRecord(n) /\ NoCall.got = [k \in {} |-> 0] /\ NoCall.updated = FALSE
  BY NoCallOk DEF NoCall
<1>3. /\ x \in CallRecord(n) /\ x.at = "copy" /\ x.ref = stateRef /\ x.got = NoCall.got
      /\ x.updated = NoCall.updated
  BY <1>1, <1>2 DEF CallRecord
<1> HIDE DEF x
<1>4. /\ request' = [request EXCEPT ![c] = x] /\ stateRef # NoRef /\ mu = NoClient
      /\ mu' = (IF enhanced THEN NoClient ELSE c) /\ UNCHANGED <<enhanced, maps, stateRef, updates>>
  BY DEF BeginLoad, x
<1>5. DOMAIN x.got = {}
  BY <1>2, <1>3
<1>6. ~enhanced => mu' = c
  BY <1>4
<1>7. RequestOk(enhanced, mu', maps, c, x)
  BY <1>2, <1>3, <1>4, <1>5, <1>6 DEF RequestOk
<1> QED
  BY <1>1, <1>3, <1>4, <1>7, OwnStep

LEMMA ReceiveStep ==
    ASSUME NEW n \in Nat, StateOk(n, enhanced, maps, stateRef, mu, updates, request),
           NEW c \in Clients, ReceiveUpdate(c)
    PROVE  StateInv'
<1>1. stateRef \in 1 .. n \cup {NoRef} /\ updates \in Seq(Clients)
  BY DEF StateOk, ReceiveUpdate
<1>2. Head(updates) \in Clients /\ Tail(updates) \in Seq(Clients)
  BY <1>1 DEF ReceiveUpdate
<1>3. PICK f \in Clients : f = Head(updates)
  BY <1>2
<1> DEFINE x == [NoCall EXCEPT !.at = "received", !.from = f]
<1>4. x \in CallRecord(n) /\ x.at = "received" /\ x.from = f
  BY NoCallOk DEF CallRecord
<1>5. /\ request' = [request EXCEPT ![c] = x] /\ UNCHANGED <<enhanced, maps, stateRef, mu>>
      /\ updates' = Tail(updates)
  BY <1>3 DEF ReceiveUpdate
<1> HIDE DEF x
<1>6. f # NoClient
  BY StateServiceAssumption DEF StateServiceAssumption
<1>7. RequestOk(enhanced, mu', maps, c, x)
  BY <1>4, <1>6 DEF RequestOk
<1>8. updates' \in Seq(Clients) \cup {NoChannel} /\ stateRef' \in 1 .. n \cup {NoRef} /\ mu' = mu
  BY <1>1, <1>2, <1>5
<1> QED
  BY <1>4, <1>5, <1>7, <1>8, OwnStep

LEMMA BeginUpdateStep ==
    ASSUME NEW n \in Nat, StateOk(n, enhanced, maps, stateRef, mu, updates, request),
           NEW c \in Clients, BeginUpdate(c)
    PROVE  StateInv'
<1>1. /\ stateRef \in 1 .. n /\ request[c] \in CallRecord(n)
      /\ maps \in [Clients \cup 1 .. n -> [Keys -> Nat]] /\ RequestOk(enhanced, mu, maps, c, request[c])
  BY DEF StateOk, BeginUpdate
<1>2. PICK f : f = (IF At(c, "idle") THEN c ELSE request[c].from)
  OBVIOUS
<1>3. f \in Clients
  <2>1. request[c].from \in Clients \cup {NoClient}
    BY <1>1 DEF CallRecord
  <2> QED
    BY <1>1, <1>2, <2>1 DEF BeginUpdate, At, RequestOk
<1>4. f # NoClient /\ stateRef # NoRef
  BY <1>3, StateServiceAssumption DEF StateServiceAssumption, BeginUpdate
<1>5. PICK ref \in 1 .. n : ref = stateRef
  BY <1>1
<1>6. PICK x : x = [request[c] EXCEPT !.at = "update", !.ref = ref, !.todo = Keys, !.from = f]
  OBVIOUS
<1>7. x \in CallRecord(n) /\ x.at = "update" /\ x.ref = ref /\ x.from = f
  BY <1>1, <1>3, <1>6 DEF CallRecord
<1>8. request' = [d \in Clients |-> IF d = c THEN x
                                    ELSE IF At(d, "copy") /\ request[d].ref = ref
                                         THEN [request[d] EXCEPT !.updated = TRUE] ELSE request[d]]
  BY <1>2, <1>5, <1>6 DEF BeginUpdate
<1>9. mu = NoClient /\ mu' = c /\ UNCHANGED <<enhanced, maps, stateRef, updates>>
  BY DEF BeginUpdate
<1>10. maps' \in [Clients \cup 1 .. n -> [Keys -> Nat]] /\ \A y \in 1 .. n \ {ref} : maps'[y] = maps[y]
  BY <1>1, <1>9
<1> QED
  BY <1>4, <1>5, <1>7, <1>8, <1>9, <1>10, UpdateStep

LEMMA UpdateKeyStep ==
    ASSUME NEW n \in Nat, StateOk(n, enhanced, maps, stateRef, mu, updates, request),
           NEW c \in Clients, NEW k \in Keys, UpdateKey(c, k)
    PROVE  StateInv'
<1>1. /\ request[c] \in CallRecord(n) /\ maps \in [Clients \cup 1 .. n -> [Keys -> Nat]]
      /\ RequestOk(enhanced, mu, maps, c, request[c])
  BY DEF StateOk
<1>2. request[c].at = "update" /\ request[c].ref # NoRef /\ request[c].from # NoClient /\ mu = c
  BY <1>1 DEF UpdateKey, At, RequestOk
<1>3. PICK ref \in 1 .. n : ref = request[c].ref
  BY <1>1, <1>2 DEF CallRecord
<1>4. PICK f \in Clients : f = request[c].from
  BY <1>1, <1>2 DEF CallRecord
<1>5. PICK x : x = [request[c] EXCEPT !.todo = @ \ {k}]
  OBVIOUS
<1>6. x \in CallRecord(n) /\ x.at = "update" /\ x.ref = ref /\ x.from = f
  BY <1>1, <1>2, <1>3, <1>4, <1>5 DEF CallRecord
<1>7. request' = [d \in Clients |-> IF d = c THEN x
                                    ELSE IF At(d, "copy") /\ request[d].ref = ref
                                         THEN [request[d] EXCEPT !.updated = TRUE] ELSE request[d]]
  BY <1>3, <1>5 DEF UpdateKey
<1>8. maps' = [maps EXCEPT ![ref] = [maps[ref] EXCEPT ![k] = maps[f][k]]]
  BY <1>3, <1>4 DEF UpdateKey
<1>9. [maps[ref] EXCEPT ![k] = maps[f][k]] \in [Keys -> Nat]
  BY <1>1
<1>10. maps' \in [Clients \cup 1 .. n -> [Keys -> Nat]] /\ \A y \in 1 .. n \ {ref} : maps'[y] = maps[y]
  BY <1>1, <1>8, <1>9
<1>11. mu' = c /\ UNCHANGED <<enhanced, stateRef, updates>>
  BY <1>2 DEF UpdateKey
<1>12. ref # NoRef
  BY <1>2, <1>3
<1>13. f # NoClient
  BY <1>2, <1>4
<1> QED
  BY <1>2, <1>6, <1>7, <1>10, <1>11, <1>12, <1>13, UpdateStep

(* SaveState's send, the ends of a load and of an update, and an update of nothing *)
LEMMA FinishStep ==
    ASSUME NEW n \in Nat, StateOk(n, enhanced, maps, stateRef, mu, updates, request),
           NEW c \in Clients, Finish(c), UNCHANGED <<enhanced, maps, stateRef>>,
           mu' = mu \/ mu \in {NoClient, c}, updates' \in Seq(Clients) \cup {NoChannel}
    PROVE  StateInv'
<1>1. stateRef' \in 1 .. n \cup {NoRef}
  BY DEF StateOk
<1>2. NoCall \in CallRecord(n) /\ RequestOk(enhanced, mu', maps, c, NoCall)
  BY NoCallOk
<1>3. request' = [request EXCEPT ![c] = NoCall]
  BY DEF Finish
<1> QED
  BY <1>1, <1>2, <1>3, OwnStep

(* CreateChannel and CleanupState *)
LEMMA TableStep ==
    ASSUME NEW n \in Nat, StateOk(n, enhanced, maps, stateRef, mu, updates, request),
           UNCHANGED <<enhanced, maps, mu, request>>,
           stateRef' \in {stateRef, NoRef}, updates' \in Seq(Clients) \cup {NoChannel}
    PROVE  StateInv'
<1>1. StateOk(n, enhanced', maps', stateRef', mu', updates', request')
  BY DEF StateOk
<1> QED
  BY <1>1, StateInvFollows

(* A loaded state is what one Save or Update had stored, for any number of clients, keys
   and copies, unless somebody updated that very map during the copy, which only the
   enhanced service lets happen (SaveState, LoadState, UpdateState of both services, and
   their variants with a channel). *)
THEOREM LoadsAreSnapshots == StateSpec => []LoadIsSnapshot
<1>1. StateInit => StateInv
  <2> SUFFICES ASSUME StateInit PROVE StateInv
    OBVIOUS
  <2>1. maps \in [Clients \cup 1 .. 0 -> [Keys -> Nat]] /\ 0 \in Nat /\ Copies = {}
    BY DEF StateInit, Copies
  <2>2. NoCall \in CallRecord(0) /\ NoCall.at = "idle"
    BY NoCallOk
  <2>3. request \in [Clients -> CallRecord(0)] /\ \A c \in Clients : request[c].at = "idle"
    BY <2>2 DEF StateInit
  <2>4. StateTypes
    BY <2>1, <2>3 DEF StateInit, StateTypes, CallRecord
  <2> QED
    BY <2>3, <2>4 DEF StateInv, Locked, LoadIsSnapshot, At
<1>2. StateInv /\ [StateNext]_stateVars => StateInv'
  <2> SUFFICES ASSUME StateInv, [StateNext]_stateVars PROVE StateInv'
    OBVIOUS
  <2>0. PICK n \in Nat : StateOk(n, enhanced, maps, stateRef, mu, updates, request)
    BY StateInvGives
  <2>1. updates \in Seq(Clients) \cup {NoChannel}
    BY <2>0 DEF StateOk
  <2>2. ASSUME NEW c \in Clients, NEW k \in Keys, Work(c, k) \/ CopyKey(c, k) \/ UpdateKey(c, k)
        PROVE  StateInv'
    BY <2>0, <2>2, OwnMapStep, CopyStep, UpdateKeyStep
  <2>3. ASSUME NEW c \in Clients, StoreCopy(c) \/ BeginLoad(c) \/ ReceiveUpdate(c) \/ BeginUpdate(c)
        PROVE  StateInv'
    BY <2>0, <2>3, StoreStep, BeginLoadStep, ReceiveStep, BeginUpdateStep
  <2>4. ASSUME NEW c \in Clients, SendUpdate(c) PROVE StateInv'
    <3>1. updates' \in Seq(Clients) \cup {NoChannel}
      BY <2>1, <2>4 DEF SendUpdate
    <3>2. Finish(c) /\ UNCHANGED <<enhanced, maps, stateRef, mu>>
      BY <2>4 DEF SendUpdate
    <3> QED
      BY <2>0, <3>1, <3>2, FinishStep
  <2>5. ASSUME NEW c \in Clients, EndLoad(c) \/ UpdateNothing(c) PROVE StateInv'
    BY <2>0, <2>1, <2>5, FinishStep DEF EndLoad, UpdateNothing
  <2>6. ASSUME NEW c \in Clients, EndUpdate(c) PROVE StateInv'
    <3>1. mu = c
      BY <2>6 DEF StateInv, Locked, EndUpdate
    <3> QED
      BY <2>0, <2>1, <2>6, <3>1, FinishStep DEF EndUpdate
  <2>7. ASSUME NEW c \in Clients, CreateChannel(c) \/ CleanupState(c) PROVE StateInv'
    <3>1. <<>> \in Seq(Clients)
      OBVIOUS
    <3>2. updates' \in Seq(Clients) \cup {NoChannel} /\ stateRef' \in {stateRef, NoRef}
      BY <2>7, <3>1 DEF CreateChannel, CleanupState
    <3>3. UNCHANGED <<enhanced, maps, mu, request>>
      BY <2>7 DEF CreateChannel, CleanupState
    <3> QED
      BY <2>0, <3>2, <3>3, TableStep
  <2>8. CASE UNCHANGED stateVars
    BY <2>0, <2>1, <2>8, TableStep DEF stateVars
  <2> QED
    BY <2>2, <2>3, <2>4, <2>5, <2>6, <2>7, <2>8 DEF StateNext
<1>3. StateInv => LoadIsSnapshot
  BY DEF StateInv
<1> QED
  BY <1>1, <1>2, <1>3, PTL DEF StateSpec

--------------------------------------------------------------------------------
(* Reducers *)

(* Whatever is in an array, or held: nothing new comes up but the unused capacity of
   an array that has grown. *)
Elements ==
    {Unset} \cup ToSet(FirstHeld) \cup UNION {ToSet(array) : array \in ToSet(FirstArrays)}

Values == Elements \cup {Slice(a, len) : a \in Nat, len \in Nat}

Holdable(memory, v) == Fits(memory, v) /\ (v.kind # "slice" => v \in Elements)

ReducersInv ==
    /\ arrays \in Seq(Seq(Elements))
    /\ held \in Seq(Values) /\ \A i \in DOMAIN held : Holdable(arrays, held[i])
    /\ meaning \in Seq(Seq(Elements)) /\ Len(meaning) = Len(held)
    /\ ReduceIsPure

(* Two arrays that agree up to the length of a slice look the same through it. *)
LEMMA SamePrefix ==
    ASSUME NEW T, NEW s \in Seq(T), NEW t \in Seq(T), NEW len \in Nat,
           len <= Len(s), len <= Len(t), \A i \in 1 .. len : s[i] = t[i]
    PROVE  SubSeq(s, 1, len) = SubSeq(t, 1, len)
<1> DEFINE p == SubSeq(s, 1, len)
           q == SubSeq(t, 1, len)
<1>1. p \in Seq(T) /\ Len(p) = len /\ \A i \in 1 .. len : p[i] = s[i]
  BY SubSeqProperties
<1>2. q \in Seq(T) /\ Len(q) = len /\ \A i \in 1 .. len : q[i] = t[i]
  BY SubSeqProperties
<1> HIDE DEF p, q
<1>3. p = q
  BY <1>1, <1>2, SeqEqual
<1> QED
  BY <1>3 DEF p, q

(* The view of a slice has its length and the elements of its array, *)
LEMMA ViewOfSlice ==
    ASSUME NEW T, NEW memory \in Seq(Seq(T)), NEW a \in DOMAIN memory, NEW len \in 0 .. Len(memory[a])
    PROVE  /\ View(memory, Slice(a, len)) \in Seq(T)
           /\ Len(View(memory, Slice(a, len))) = len
           /\ \A i \in 1 .. len : View(memory, Slice(a, len))[i] = memory[a][i]
<1> DEFINE s == memory[a]
<1>1. s \in Seq(T) /\ len \in Nat /\ len <= Len(s) /\ \A i \in 1 .. len : s[i] \in T
  OBVIOUS
<1>2. View(memory, Slice(a, len)) = SubSeq(s, 1, len)
  BY DEF View, Slice
<1> HIDE DEF s
<1>3. /\ SubSeq(s, 1, len) \in Seq(T) /\ Len(SubSeq(s, 1, len)) = len
      /\ \A i \in 1 .. len : SubSeq(s, 1, len)[i] = s[i]
  BY <1>1, SubSeqProperties
<1> QED
  BY <1>2, <1>3 DEF s

(* and that of anything else is the value itself. *)
LEMMA ViewIsSequence ==
    ASSUME NEW memory \in Seq(Seq(Elements)), NEW v, Holdable(memory, v)
    PROVE  View(memory, v) \in Seq(Elements)
<1>1. CASE v.kind = "slice"
  <2> PICK a \in DOMAIN memory : \E len \in 0 .. Len(memory[a]) : v = Slice(a, len)
    BY <1>1 DEF Holdable, Fits
  <2>1. PICK len \in 0 .. Len(memory[a]) : v = Slice(a, len)
    OBVIOUS
  <2> QED
    BY <2>1, ViewOfSlice
<1>2. CASE v.kind # "slice"
  BY <1>2 DEF Holdable, View
<1> QED
  BY <1>1, <1>2

(* Another memory looks the same to a holder if it has what was in his slice. *)
LEMMA SameView ==
    ASSUME NEW memory \in Seq(Seq(Elements)), NEW after \in Seq(Seq(Elements)),
           DOMAIN memory \subseteq DOMAIN after,
           NEW v, Holdable(memory, v),
           v.kind = "slice" => /\ Len(memory[v.array]) <= Len(after[v.array])
                               /\ \A i \in 1 .. v.len : after[v.array][i] = memory[v.array][i]
    PROVE  View(after, v) = View(memory, v) /\ Holdable(after, v)
<1>1. CASE v.kind = "slice"
  <2> PICK a \in DOMAIN memory : \E len \in 0 .. Len(memory[a]) : v = Slice(a, len)
    BY <1>1 DEF Holdable, Fits
  <2>1. PICK len \in 0 .. Len(memory[a]) : v = Slice(a, len)
    OBVIOUS
  <2>2. v.array = a /\ v.len = len /\ v.kind = "slice"
    BY <2>1 DEF Slice
  <2>3. /\ memory[a] \in Seq(Elements) /\ after[a] \in Seq(Elements)
        /\ len \in Nat /\ len <= Len(memory[a]) /\ len <= Len(after[a])
    BY <2>2
  <2>4. SubSeq(memory[a], 1, len) = SubSeq(after[a], 1, len)
    BY <2>2, <2>3, SamePrefix
  <2>5. len \in 0 .. Len(after[a]) /\ a \in DOMAIN after
    BY <2>3
  <2> QED
    BY <2>1, <2>2, <2>4, <2>5 DEF View, Holdable, Fits
<1>2. CASE v.kind # "slice"
  BY <1>2 DEF Holdable, Fits, View
<1> QED
  BY <1>1, <1>2

LEMMA HoldableValues ==
    ASSUME NEW memory \in Seq(Seq(Elements)), NEW v, Holdable(memory, v)
    PROVE  v \in Values
<1>1. CASE v.kind = "slice"
  <2>1. PICK a \in DOMAIN memory : \E len \in 0 .. Len(memory[a]) : v = Slice(a, len)
    BY <1>1 DEF Holdable, Fits
  <2>2. Len(memory[a]) \in Nat /\ a \in Nat
    OBVIOUS
  <2> QED
    BY <2>1, <2>2 DEF Values
<1>2. CASE v.kind # "slice"
  BY <1>2 DEF Holdable, Values
<1> QED
  BY <1>1, <1>2

(* What a caller gets is right, and so is what he had if no array shows it less. *)
LEMMA GotStep ==
    ASSUME ReducersInv, NEW memory \in Seq(Seq(Elements)), NEW v, Got(memory, v), Holdable(memory, v),
           touched \subseteq touched',
           \A i \in DOMAIN held :
              /\ Holdable(memory, held[i])
              /\ i \notin touched' => View(memory, held[i]) = View(arrays, held[i])
    PROVE  ReducersInv'
<1>1. v \in Values /\ View(memory, v) \in Seq(Elements)
  BY HoldableValues, ViewIsSequence
<1>2. /\ arrays' = memory /\ held' = Append(held, v) /\ meaning' = Append(meaning, View(memory, v))
      /\ held \in Seq(Values) /\ meaning \in Seq(Seq(Elements)) /\ Len(meaning) = Len(held)
  BY DEF Got, ReducersInv
<1>3. held' \in Seq(Values) /\ meaning' \in Seq(Seq(Elements)) /\ Len(meaning') = Len(held')
  BY <1>1, <1>2
<1>4. DOMAIN held' = DOMAIN held \cup {Len(held) + 1}
  BY <1>1, <1>2
<1>5. ASSUME NEW i \in DOMAIN held'
      PROVE  Holdable(memory, held'[i]) /\ (i \notin touched' => View(memory, held'[i]) = meaning'[i])
  <2>1. CASE i = Len(held) + 1
    <3> DEFINE w == View(memory, v)
    <3>1. meaning' = Append(meaning, w) /\ w \in Seq(Elements) /\ i = Len(meaning) + 1
      BY <1>1, <1>2, <2>1
    <3> HIDE DEF w
    <3>2. meaning'[i] = w
      BY <1>2, <3>1, AppendProperties
    <3>3. held'[i] = v
      BY <1>1, <1>2, <2>1
    <3> QED
      BY <3>2, <3>3 DEF w
  <2>2. CASE i \in DOMAIN held
    <3>1. held'[i] = held[i] /\ meaning'[i] = meaning[i]
      BY <1>1, <1>2, <2>2
    <3>2. i \notin touched' => View(arrays, held[i]) = meaning[i]
      BY <2>2 DEF ReducersInv, ReduceIsPure
    <3> QED
      BY <2>2, <3>1, <3>2
  <2> QED
    BY <1>4, <2>1, <2>2
<1> QED
  BY <1>2, <1>3, <1>5 DEF ReducersInv, ReduceIsPure

(* A new array concerns no slice there is. *)
LEMMA NewArray ==
    ASSUME ReducersInv, NEW s \in Seq(Elements), NEW len \in 0 .. Len(s)
    PROVE  /\ Append(arrays, s) \in Seq(Seq(Elements))
           /\ Holdable(Append(arrays, s), Slice(Len(arrays) + 1, len))
           /\ \A v : Holdable(arrays, v) => /\ Holdable(Append(arrays, s), v)
                                          /\ View(Append(arrays, s), v) = View(arrays, v)
<1> DEFINE after == Append(arrays, s)
<1>1. arrays \in Seq(Seq(Elements)) /\ after \in Seq(Seq(Elements))
  BY DEF ReducersInv
<1>2. /\ DOMAIN after = DOMAIN arrays \cup {Len(arrays) + 1}
      /\ after[Len(arrays) + 1] = s
      /\ \A a \in DOMAIN arrays : after[a] = arrays[a]
  BY <1>1
<1> HIDE DEF after
<1>3. Holdable(after, Slice(Len(arrays) + 1, len))
  BY <1>2 DEF Holdable, Fits, Slice
<1>4. ASSUME NEW v, Holdable(arrays, v)
      PROVE  View(after, v) = View(arrays, v) /\ Holdable(after, v)
  <2>1. v.kind = "slice" => v.array \in DOMAIN arrays
    BY <1>4 DEF Holdable, Fits, Slice
  <2>2. v.kind = "slice" => /\ Len(arrays[v.array]) <= Len(after[v.array])
                            /\ \A i \in 1 .. v.len : after[v.array][i] = arrays[v.array][i]
    BY <1>1, <1>2, <2>1
  <2> QED
    BY <1>1, <1>2, <1>4, <2>2, SameView
<1> QED
  BY <1>1, <1>3, <1>4 DEF after

LEMMA ReducersInitInv == ReducersInit => ReducersInv
<1> SUFFICES ASSUME ReducersInit
             PROVE  ReducersInv
  OBVIOUS
<1>1. arrays = FirstArrays /\ held = FirstHeld
  BY DEF ReducersInit
<1>2. arrays \in Seq(Seq(Elements))
  <2> DEFINE Found == UNION {ToSet(array) : array \in ToSet(FirstArrays)}
  <2>1. FirstArrays \in Seq(Seq(Found))
    BY ReducersAssumption
  <2>2. Found \subseteq Elements
    BY DEF Elements
  <2> HIDE DEF Found
  <2>3. \A a \in DOMAIN FirstArrays : FirstArrays[a] \in Seq(Elements)
    BY <2>1, <2>2
  <2> QED
    BY <1>1, <2>1, <2>3
<1>3. held \in Seq(ToSet(FirstHeld)) /\ \A i \in DOMAIN held : held[i] \in ToSet(FirstHeld)
  BY <1>1, ReducersAssumption DEF ToSet
<1>4. \A i \in DOMAIN held : Holdable(arrays, held[i])
  BY <1>1, <1>3, ReducersAssumption DEF Holdable, Elements
<1>5. \A i \in DOMAIN held : held[i] \in Values /\ View(arrays, held[i]) \in Seq(Elements)
  BY <1>2, <1>4, HoldableValues, ViewIsSequence
<1>6. held \in Seq(Values)
  BY <1>3, <1>5
<1>7. /\ meaning = [i \in 1 .. Len(held) |-> View(arrays, held[i])]
      /\ Len(held) \in Nat /\ DOMAIN held = 1 .. Len(held)
  BY <1>1, <1>6 DEF ReducersInit
<1>8. meaning \in Seq(Seq(Elements)) /\ Len(meaning) = Len(held)
  BY <1>5, <1>7
<1>9. ReduceIsPure
  BY <1>7 DEF ReduceIsPure
<1> QED
  BY <1>2, <1>4, <1>6, <1>8, <1>9 DEF ReducersInv

(* appendValues with room to spare: the elements of the update are behind those of
   the current value, and whoever has no more of the array than the current value
   sees what he saw. *)
LEMMA InPlace ==
    ASSUME ReducersInv, NEW a \in DOMAIN arrays, NEW len \in 0 .. Len(arrays[a]),
           NEW items \in Seq(Elements), len + Len(items) <= Len(arrays[a]),
           NEW memory, memory = AppendInPlace(Slice(a, len), items)
    PROVE  /\ memory \in Seq(Seq(Elements)) /\ Len(memory) = Len(arrays)
           /\ \A b \in DOMAIN arrays : Len(memory[b]) = Len(arrays[b])
           /\ \A b \in DOMAIN arrays \ {a} : memory[b] = arrays[b]
           /\ \A i \in 1 .. len : memory[a][i] = arrays[a][i]
           /\ \A i \in 1 .. Len(items) : memory[a][len + i] = items[i]
<1> DEFINE old == arrays[a]
           new == [i \in 1 .. Len(old) |-> IF i \in len + 1 .. len + Len(items) THEN items[i - len] ELSE old[i]]
<1>1. /\ old \in Seq(Elements) /\ Len(old) \in Nat /\ DOMAIN old = 1 .. Len(old)
      /\ \A i \in 1 .. Len(old) : old[i] \in Elements
  BY DEF ReducersInv
<1>2. len \in Nat /\ Len(items) \in Nat /\ len + Len(items) <= Len(old)
  BY <1>1
<1>3. memory = [arrays EXCEPT ![a] = new]
  BY <1>1 DEF AppendInPlace, Slice
<1> HIDE DEF old
<1>4. \A i \in 1 .. Len(old) : new[i] \in Elements
  <2> TAKE i \in 1 .. Len(old)
  <2>1. i \in len + 1 .. len + Len(items) => items[i - len] \in Elements
    BY <1>2
  <2> QED
    BY <1>1, <2>1
<1>5. new \in Seq(Elements) /\ Len(new) = Len(old)
  BY <1>1, <1>4
<1>6. /\ \A i \in 1 .. len : new[i] = old[i]
      /\ \A i \in 1 .. Len(items) : new[len + i] = items[i]
  BY <1>2, <1>1, SMTT(30)
<1> HIDE DEF new
<1>7. arrays \in Seq(Seq(Elements))
  BY DEF ReducersInv
<1> QED
  BY <1>3, <1>5, <1>6, <1>7 DEF old

(* Values that are passed on: nothing changes for anybody. *)
LEMMA PassedOn ==
    ASSUME ReducersInv, NEW v, Got(arrays, v), Holdable(arrays, v), UNCHANGED touched
    PROVE  ReducersInv'
BY GotStep DEF ReducersInv

(* appendValues of a slice, with room to spare or not; what is returned is the current
   value followed by the elements of the update. *)
LEMMA AppendStep ==
    ASSUME ReducersInv, NEW i \in DOMAIN held, NEW j \in DOMAIN held, ReduceAppend(held[i], held[j])
    PROVE  /\ ReducersInv'
           /\ meaning'[Len(meaning')] = View(arrays, held[i]) \o View(arrays, held[j])
<1> DEFINE items == View(arrays, held[j])
           before == View(arrays, held[i])
<1>1. /\ arrays \in Seq(Seq(Elements)) /\ held \in Seq(Values)
      /\ \A k \in DOMAIN held : Holdable(arrays, held[k])
      /\ meaning \in Seq(Seq(Elements))
  BY DEF ReducersInv
<1>2. items \in Seq(Elements) /\ before \in Seq(Elements)
  BY <1>1, ViewIsSequence
<1>3. PICK a \in DOMAIN arrays : \E len \in 0 .. Len(arrays[a]) : held[i] = Slice(a, len)
  BY <1>1 DEF ReduceAppend, Holdable, Fits
<1>4. PICK len \in 0 .. Len(arrays[a]) : held[i] = Slice(a, len)
  BY <1>3
<1>5. /\ held[i].array = a /\ held[i].len = len /\ held[i].kind = "slice"
      /\ len \in Nat /\ Len(items) \in Nat /\ Len(arrays[a]) \in Nat /\ Len(before) = len
      /\ \A k \in 1 .. len : before[k] = arrays[a][k]
  <2>1. held[i].array = a /\ held[i].len = len /\ held[i].kind = "slice"
    BY <1>4 DEF Slice
  <2>2. Len(before) = len /\ \A k \in 1 .. len : before[k] = arrays[a][k]
    BY <1>1, <1>4, ViewOfSlice
  <2> HIDE DEF items, before
  <2> QED
    BY <1>1, <1>2, <2>1, <2>2
<1>6. ASSUME NEW memory \in Seq(Seq(Elements)), NEW b \in DOMAIN memory, NEW result,
             result = Slice(b, len + Len(items)), len + Len(items) <= Len(memory[b]),
             Got(memory, result),
             \A k \in 1 .. len : memory[b][k] = before[k],
             \A k \in 1 .. Len(items) : memory[b][len + k] = items[k]
      PROVE  meaning'[Len(meaning')] = before \o items
  <2> DEFINE w == View(memory, result)
  <2>1. /\ w \in Seq(Elements) /\ Len(w) = len + Len(items)
        /\ \A k \in 1 .. len + Len(items) : w[k] = memory[b][k]
    <3>1. len + Len(items) \in 0 .. Len(memory[b])
      <4> HIDE DEF items
      <4> QED
        BY <1>5, <1>6
    <3> QED
      BY <1>6, <3>1, ViewOfSlice
  <2>2. meaning' = Append(meaning, w)
    BY <1>6 DEF Got
  <2> HIDE DEF w, items, before
  <2>3. meaning'[Len(meaning')] = w
    BY <1>1, <2>1, <2>2, AppendProperties
  <2>4. /\ before \o items \in Seq(Elements) /\ Len(before \o items) = len + Len(items)
        /\ \A k \in 1 .. len + Len(items) :
              (before \o items)[k] = IF k <= len THEN before[k] ELSE items[k - len]
    <3>1. /\ before \o items \in Seq(Elements) /\ Len(before \o items) = Len(before) + Len(items)
          /\ \A k \in 1 .. Len(before) + Len(items) :
                (before \o items)[k] = IF k <= Len(before) THEN before[k] ELSE items[k - Len(before)]
      BY <1>2, ConcatProperties
    <3>2. Len(before) = len
      BY <1>5
    <3> QED
      BY <3>1, <3>2, Zenon
  <2>5. \A k \in 1 .. len + Len(items) : w[k] = (before \o items)[k]
    <3> TAKE k \in 1 .. len + Len(items)
    <3>1. k \in 1 .. len \/ (k - len \in 1 .. Len(items) /\ ~ k <= len /\ len + (k - len) = k)
      BY <1>5
    <3>2. CASE k \in 1 .. len
      <4>1. memory[b][k] = before[k] /\ k <= len
        BY <1>5, <1>6, <3>2
      <4> QED
        BY <2>1, <2>4, <3>2, <4>1
    <3>3. CASE k - len \in 1 .. Len(items) /\ ~ k <= len /\ len + (k - len) = k
      <4>1. memory[b][k] = items[k - len]
        BY <1>6, <3>3
      <4> QED
        BY <2>1, <2>4, <3>3, <4>1
    <3> QED
      BY <3>1, <3>2, <3>3
  <2>6. w = before \o items
    BY <2>1, <2>4, <2>5, SeqEqual
  <2> QED
    BY <2>3, <2>6
<1>7. CASE len + Len(items) <= Len(arrays[a])
  <2> DEFINE memory == AppendInPlace(held[i], items)
             result == Slice(a, len + Len(items))
  <2>1. Got(memory, result)
    BY <1>5, <1>7 DEF ReduceAppend
  <2>2. touched' = touched \cup
           {k \in DOMAIN held : held[k].kind = "slice" /\ held[k].array = a /\ held[k].len > len}
    BY <1>5, <1>7 DEF ReduceAppend
  <2>3. /\ memory \in Seq(Seq(Elements)) /\ Len(memory) = Len(arrays)
        /\ \A b \in DOMAIN arrays : Len(memory[b]) = Len(arrays[b])
        /\ \A b \in DOMAIN arrays \ {a} : memory[b] = arrays[b]
        /\ \A k \in 1 .. len : memory[a][k] = arrays[a][k]
        /\ \A k \in 1 .. Len(items) : memory[a][len + k] = items[k]
    <3> HIDE DEF items
    <3> QED
      BY <1>2, <1>4, <1>7, InPlace
  <2> HIDE DEF memory, items, before
  <2>4. DOMAIN memory = DOMAIN arrays
    BY <1>1, <2>3
  <2>5. Holdable(memory, result)
    <3>1. len + Len(items) \in 0 .. Len(memory[a])
      BY <1>5, <1>7, <2>3
    <3> QED
      BY <2>4, <3>1 DEF Holdable, Fits, Slice
  <2>6. ASSUME NEW k \in DOMAIN held
        PROVE  /\ Holdable(memory, held[k])
               /\ k \notin touched' => View(memory, held[k]) = View(arrays, held[k])
    <3>1. CASE held[k].kind = "slice"
      <4>1. PICK b \in DOMAIN arrays : \E l \in 0 .. Len(arrays[b]) : held[k] = Slice(b, l)
        BY <1>1, <3>1 DEF Holdable, Fits
      <4>2. PICK l \in 0 .. Len(arrays[b]) : held[k] = Slice(b, l)
        BY <4>1
      <4>3. held[k].array = b /\ held[k].len = l
        BY <4>2 DEF Slice
      <4>4. Holdable(memory, held[k])
        BY <2>3, <2>4, <3>1, <4>2 DEF Holdable, Fits
      <4>5. ASSUME k \notin touched'
            PROVE  View(memory, held[k]) = View(arrays, held[k])
        <5>1. b # a \/ l <= len
          BY <1>5, <2>2, <3>1, <4>3, <4>5
        <5>2. \A n \in 1 .. l : memory[b][n] = arrays[b][n]
          <6>1. l \in Nat
            BY <1>1
          <6>2. b = a => \A n \in 1 .. l : n \in 1 .. len
            BY <1>5, <5>1, <6>1
          <6> QED
            BY <2>3, <6>2
        <5>3. held[k].kind = "slice" => /\ Len(arrays[held[k].array]) <= Len(memory[held[k].array])
                                        /\ \A n \in 1 .. held[k].len :
                                              memory[held[k].array][n] = arrays[held[k].array][n]
          <6>1. Len(arrays[b]) \in Nat
            BY <1>1
          <6> QED
            BY <2>3, <4>3, <5>2, <6>1
        <5>4. Holdable(arrays, held[k]) /\ DOMAIN arrays \subseteq DOMAIN memory
          BY <1>1, <2>4
        <5> QED
          BY <1>1, <2>3, <5>3, <5>4, SameView, ZenonT(30)
      <4> QED
        BY <4>4, <4>5
    <3>2. CASE held[k].kind # "slice"
      BY <1>1, <3>2 DEF Holdable, Fits, View
    <3> QED
      BY <3>1, <3>2
  <2>7. ReducersInv'
    BY <2>1, <2>2, <2>3, <2>5, <2>6, GotStep
  <2>8. meaning'[Len(meaning')] = before \o items
    <3>1. a \in DOMAIN memory /\ len + Len(items) <= Len(memory[a])
      BY <1>7, <2>3, <2>4
    <3>2. \A k \in 1 .. len : memory[a][k] = before[k]
      BY <1>5, <2>3
    <3> QED
      BY <1>6, <2>1, <2>3, <3>1, <3>2
  <2> QED
    BY <2>7, <2>8 DEF before, items
<1>8. CASE ~ (len + Len(items) <= Len(arrays[a]))
  <2> DEFINE whole == before \o items
             result == Slice(Len(arrays) + 1, len + Len(items))
  <2>1. PICK s \in Grown(whole) : Got(Append(arrays, s), result)
    BY <1>5, <1>8 DEF ReduceAppend
  <2>2. UNCHANGED touched
    BY <1>5, <1>8 DEF ReduceAppend
  <2> HIDE DEF items, before
  <2>3. /\ whole \in Seq(Elements) /\ Len(whole) = len + Len(items)
        /\ \A k \in 1 .. len + Len(items) : whole[k] = IF k <= len THEN before[k] ELSE items[k - len]
    <3>1. /\ whole \in Seq(Elements) /\ Len(whole) = Len(before) + Len(items)
          /\ \A k \in 1 .. Len(before) + Len(items) :
                whole[k] = IF k <= Len(before) THEN before[k] ELSE items[k - Len(before)]
      BY <1>2, ConcatProperties
    <3>2. Len(before) = len
      BY <1>5
    <3> HIDE DEF whole
    <3> QED
      BY <3>1, <3>2, Zenon
  <2> HIDE DEF whole
  <2>4. /\ s \in Seq(Elements) /\ len + Len(items) <= Len(s)
        /\ \A k \in 1 .. len + Len(items) : s[k] = whole[k]
    <3>1. PICK room \in 0 .. (MaxArray - Len(whole)) : s = whole \o [n \in 1 .. room |-> Unset]
      BY DEF Grown
    <3>2. room \in Nat
      BY <2>3, <1>5, ReducersAssumption
    <3> DEFINE spare == [n \in 1 .. room |-> Unset]
    <3>3. spare \in Seq(Elements) /\ Len(spare) = room
      BY <3>2 DEF Elements
    <3> HIDE DEF spare
    <3>4. s = whole \o spare
      BY <3>1 DEF spare
    <3>5. /\ s \in Seq(Elements) /\ Len(s) = Len(whole) + room
          /\ \A k \in 1 .. Len(whole) + room : s[k] = IF k <= Len(whole) THEN whole[k] ELSE spare[k - Len(whole)]
      BY <2>3, <3>3, <3>4, ConcatProperties
    <3>6. \A k \in 1 .. len + Len(items) : s[k] = whole[k]
      BY <1>5, <2>3, <3>2, <3>5
    <3> QED
      BY <1>5, <2>3, <3>2, <3>5, <3>6
  <2> DEFINE memory == Append(arrays, s)
  <2>5. /\ memory \in Seq(Seq(Elements)) /\ Holdable(memory, result)
        /\ \A v : Holdable(arrays, v) => Holdable(memory, v) /\ View(memory, v) = View(arrays, v)
    <3>1. len + Len(items) \in 0 .. Len(s)
      BY <1>5, <2>4
    <3> QED
      BY <2>4, <3>1, NewArray
  <2>6. Len(arrays) + 1 \in DOMAIN memory /\ memory[Len(arrays) + 1] = s
    BY <1>1, <2>4
  <2> HIDE DEF memory
  <2>7. Got(memory, result)
    BY <2>1 DEF memory
  <2>8. ReducersInv'
    <3> HIDE DEF result
    <3> QED
      BY <1>1, <2>2, <2>5, <2>7, GotStep
  <2>9. meaning'[Len(meaning')] = before \o items
    <3>1. /\ \A k \in 1 .. len : memory[Len(arrays) + 1][k] = before[k]
          /\ \A k \in 1 .. Len(items) : memory[Len(arrays) + 1][len + k] = items[k]
      <4>1. \A k \in 1 .. len : k \in 1 .. len + Len(items) /\ k <= len
        BY <1>5
      <4>2. \A k \in 1 .. Len(items) : /\ len + k \in 1 .. len + Len(items)
                                       /\ ~ len + k <= len /\ (len + k) - len = k
        BY <1>5
      <4> QED
        BY <2>3, <2>4, <2>6, <4>1, <4>2
    <3> QED
      BY <1>6, <2>4, <2>5, <2>6, <2>7, <3>1
  <2> QED
    BY <2>8, <2>9 DEF before, items
<1> QED
  BY <1>7, <1>8

(* Anything else becomes a slice of a new array. *)
LEMMA PairStep ==
    ASSUME ReducersInv, NEW i \in DOMAIN held, NEW j \in DOMAIN held, ReducePair(held[i], held[j])
    PROVE  ReducersInv'
<1> DEFINE items == <<held[i]>> \o View(arrays, held[j])
<1>1. /\ arrays \in Seq(Seq(Elements))
      /\ \A k \in DOMAIN held : Holdable(arrays, held[k])
  BY DEF ReducersInv
<1>2. held[i] \in Elements /\ View(arrays, held[j]) \in Seq(Elements)
  BY <1>1, ViewIsSequence DEF ReducePair, Holdable
<1>3. items \in Seq(Elements) /\ Len(items) \in 0 .. Len(items)
  BY <1>2
<1>4. Got(Append(arrays, items), Slice(Len(arrays) + 1, Len(items))) /\ UNCHANGED touched
  BY DEF ReducePair
<1> HIDE DEF items
<1> DEFINE memory == Append(arrays, items)
<1>5. /\ memory \in Seq(Seq(Elements)) /\ Holdable(memory, Slice(Len(arrays) + 1, Len(items)))
      /\ \A v : Holdable(arrays, v) => Holdable(memory, v) /\ View(memory, v) = View(arrays, v)
  BY <1>3, NewArray
<1> HIDE DEF memory
<1>6. Got(memory, Slice(Len(arrays) + 1, Len(items)))
  BY <1>4 DEF memory
<1> QED
  BY <1>1, <1>4, <1>5, <1>6, GotStep

LEMMA ReducersStep == ReducersInv /\ [ReducersNext]_reducerVars => ReducersInv'
<1> SUFFICES ASSUME ReducersInv, [ReducersNext]_reducerVars
             PROVE  ReducersInv'
  OBVIOUS
<1>1. CASE UNCHANGED reducerVars
  BY <1>1 DEF reducerVars, ReducersInv, ReduceIsPure, Holdable, Fits, View
<1>2. ASSUME NEW i \in DOMAIN held, NEW j \in DOMAIN held, Reduce(held[i], held[j])
      PROVE  ReducersInv'
  <2>1. Holdable(arrays, held[i]) /\ Holdable(arrays, held[j])
    BY DEF ReducersInv
  <2>2. CASE ReduceMissing(held[i], held[j])
    BY <2>1, <2>2, PassedOn DEF ReduceMissing
  <2>3. CASE ReduceReplace(held[i], held[j])
    BY <2>1, <2>3, PassedOn DEF ReduceReplace
  <2>4. CASE ReduceExtreme(held[i], held[j])
    <3>1. /\ MaxValue(held[i], held[j]) \in {held[i], held[j]}
          /\ MinValue(held[i], held[j]) \in {held[i], held[j]}
      BY DEF MaxValue, MinValue
    <3> QED
      BY <2>1, <2>4, <3>1, PassedOn DEF ReduceExtreme
  <2>5. CASE ReduceAppend(held[i], held[j])
    BY <2>5, AppendStep
  <2>6. CASE ReducePair(held[i], held[j])
    BY <2>6, PairStep
  <2> QED
    BY <1>2, <2>2, <2>3, <2>4, <2>5, <2>6 DEF Reduce
<1> QED
  BY <1>1, <1>2 DEF ReducersNext

(* No reduction changes a value its caller holds, unless an append in place may have
   written over it (appendValues, copyState). *)
THEOREM ReducesPurely == ReducersSpec => []ReduceIsPure
<1>1. ReducersInv => ReduceIsPure
  BY DEF ReducersInv
<1> QED
  BY ReducersInitInv, ReducersStep, <1>1, PTL DEF ReducersSpec

(* An append returns the current value followed by the elements of the update, also
   of a slice that is appended to itself and with or without room to spare
   (appendValues). *)
THEOREM AppendsAreExact ==
    ReducersSpec => [][\A i, j \in DOMAIN held :
                          ReduceAppend(held[i], held[j]) =>
                              meaning'[Len(meaning')] = View(arrays, held[i]) \o View(arrays, held[j])]_reducerVars
<1> DEFINE Exact == \A i, j \in DOMAIN held :
                       ReduceAppend(held[i], held[j]) =>
                           meaning'[Len(meaning')] = View(arrays, held[i]) \o View(arrays, held[j])
<1>1. ReducersInv /\ [ReducersNext]_reducerVars => [Exact]_reducerVars
  BY AppendStep
<1> HIDE DEF Exact
<1>2. ReducersSpec => [][Exact]_reducerVars
  BY ReducersInitInv, ReducersStep, <1>1, PTL DEF ReducersSpec
<1> QED
  BY <1>2 DEF Exact

--------------------------------------------------------------------------------
(* CacheOptimizedEngine *)

Fields == {"program", "partitions", "pc", "runs", "step", "states", "active", "halted", "saved",
           "scheduled", "inFlight", "results", "batch", "collected"}

WouldBe(x, v) == Compute(x.program, v, x.saved[v], <<>>)
Answered(S) == {r.vertex : r \in S}
Result(S) == [vertex : S, failed : BOOLEAN]

(* Vertices whose result has not been applied *)
Unapplied(x) == x.inFlight \cup Answered(x.results) \cup {x.batch[i].vertex : i \in DOMAIN x.batch}

(* A scheduled vertex is in flight, in the results, in the batch or applied, and in
   one of these only; what is applied is computed from the states before the
   superstep, and nothing else has changed. *)
Collecting(x) ==
    /\ x.inFlight \subseteq x.scheduled
    /\ x.results \subseteq Result(x.scheduled)
    /\ x.batch \in Seq(Result(x.scheduled))
    /\ \A r \in x.results : r.vertex \notin x.inFlight
    /\ \A r, q \in x.results : r.vertex = q.vertex => r = q
    /\ \A i \in DOMAIN x.batch : x.batch[i].vertex \notin x.inFlight \cup Answered(x.results)
    /\ x.collected = Cardinality(x.scheduled \ (x.inFlight \cup Answered(x.results)))
    /\ \A v \in Vertices :
          IF v \in x.scheduled \ Unapplied(x)
          THEN x.states[v] = WouldBe(x, v).state /\ x.active[v] = ~WouldBe(x, v).halt
          ELSE x.states[v] = x.saved[v] /\ x.active[v] = (v \in x.scheduled)

Superstepped(x) ==
    \A v \in Vertices :
       /\ x.states[v] = IF v \in x.scheduled THEN WouldBe(x, v).state ELSE x.saved[v]
       /\ x.active[v] = (v \in x.scheduled /\ ~WouldBe(x, v).halt)

EngineIsSound(x) ==
    /\ DOMAIN x = Fields
    /\ x.active \in [Vertices -> BOOLEAN]
    /\ x.states = [v \in Vertices |-> x.states[v]]
    /\ x.saved = [v \in Vertices |-> x.saved[v]]
    /\ x.pc \in {"new", "loop", "collect", "end", "recover", "done", "failed"}
    /\ x.pc \in {"collect", "end", "recover"} =>
          x.step < MaxSupersteps /\ ~x.halted /\ x.scheduled \subseteq Vertices
    /\ x.pc = "collect" => Collecting(x)
    /\ x.pc = "end" => Superstepped(x)

EngineInv == EngineIsSound(engine)

LEMMA EngineInitInv == EngineInit => EngineInv
<1> SUFFICES ASSUME NEW p \in DOMAIN FirstStates, NEW list, engine = NewEngine(p, list)
             PROVE  EngineInv
  BY DEF EngineInit
<1>1. /\ DOMAIN engine = Fields
      /\ engine.pc = "new" /\ engine.states = FirstStates[p] /\ engine.saved = FirstStates[p]
      /\ engine.active = [v \in Vertices |-> FALSE]
  BY DEF NewEngine, Fields
<1>2. FirstStates[p] = [v \in Vertices |-> FirstStates[p][v]]
  BY CacheOptimizedAssumption
<1> QED
  BY <1>1, <1>2, Zenon DEF EngineInv, EngineIsSound

(* Nothing is in flight, so each vertex that was scheduled has been applied. *)
LEMMA LastResult ==
    ASSUME NEW S, IsFiniteSet(S), NEW W \in SUBSET S, Cardinality(S \ W) = Cardinality(S)
    PROVE  W = {}
<1>1. S \ W \subseteq S
  OBVIOUS
<1>2. S \ W = S
  BY <1>1, FS_Subset
<1> QED
  BY <1>2

LEMMA RunBegins ==
    ASSUME EngineInv, RunOptimized
    PROVE  EngineInv' /\ Atomic!Start
<1> DEFINE x == engine'
<1>1. /\ DOMAIN x = Fields /\ x.pc = "loop" /\ x.step = 0 /\ x.active = [v \in Vertices |-> TRUE]
      /\ x.states = engine.states /\ x.saved = engine.saved /\ x.halted = engine.halted
      /\ x.program = engine.program
  BY DEF RunOptimized, EngineInv, EngineIsSound, Fields
<1>2. engine.pc \in {"new", "done", "failed"}
  BY DEF RunOptimized
<1>3. EngineInv'
  BY <1>1 DEF EngineInv, EngineIsSound
<1>4. ShownStates' = ShownStates /\ ShownActive' = [v \in Vertices |-> TRUE]
  BY <1>1, <1>2 DEF ShownStates, ShownActive, InStep
<1>5. ShownResult # "running" /\ ShownResult' = "running"
  BY <1>1, <1>2 DEF ShownResult
<1> QED
  BY <1>1, <1>3, <1>4, <1>5 DEF Atomic!Start

Shown == <<engine.program, ShownStates, ShownActive, engine.halted, engine.step, ShownResult>>

LEMMA StepBegins ==
    ASSUME EngineInv, BeginOptimizedStep
    PROVE  EngineInv' /\ UNCHANGED Shown
<1> DEFINE x == engine'
           now == {v \in Vertices : engine.active[v]}
<1>1. /\ DOMAIN x = Fields /\ x.pc = "collect" /\ x.saved = engine.states
      /\ x.states = engine.states /\ x.active = engine.active /\ x.scheduled = now
      /\ x.inFlight = now /\ x.results = {} /\ x.batch = <<>> /\ x.collected = 0
      /\ x.halted = engine.halted /\ x.program = engine.program /\ x.step = engine.step
  BY DEF BeginOptimizedStep, EngineInv, EngineIsSound, Fields
<1>2. engine.pc = "loop" /\ engine.step < MaxSupersteps /\ ~engine.halted
  BY DEF BeginOptimizedStep
<1>3. engine.active \in [Vertices -> BOOLEAN]
  BY DEF EngineInv, EngineIsSound
<1> HIDE DEF x
<1>4. Collecting(x)
  <2>1. Answered({}) = {}
    BY DEF Answered
  <2>2. Unapplied(x) = now
    BY <1>1, <2>1 DEF Unapplied
  <2>3. now \ (now \cup {}) = {} /\ Cardinality({}) = 0
    BY FS_EmptySet
  <2>4. \A v \in Vertices : x.active[v] = (v \in now)
    BY <1>1, <1>3
  <2>5. x.collected = Cardinality(x.scheduled \ (x.inFlight \cup Answered(x.results)))
    BY <1>1, <2>1, <2>3
  <2>6. x.batch \in Seq(Result(x.scheduled)) /\ DOMAIN x.batch = {}
    BY <1>1
  <2> QED
    BY <1>1, <2>2, <2>4, <2>5, <2>6 DEF Collecting
<1>5. EngineIsSound(x)
  BY <1>1, <1>2, <1>4 DEF EngineInv, EngineIsSound
<1>6. EngineInv'
  BY <1>5 DEF EngineInv, x
<1>7. ShownStates' = ShownStates
  BY <1>1, <1>2 DEF ShownStates, InStep, x
<1>8. ShownActive' = ShownActive
  <2>1. ShownActive' = [v \in Vertices |-> v \in now]
    BY <1>1 DEF ShownActive, InStep, x
  <2>2. [v \in Vertices |-> v \in now] = engine.active
    BY <1>3
  <2>3. ShownActive = engine.active
    BY <1>2 DEF ShownActive, InStep
  <2> QED
    BY <2>1, <2>2, <2>3
<1>9. ShownResult' = ShownResult
  BY <1>1, <1>2 DEF ShownResult, x
<1> QED
  BY <1>1, <1>6, <1>7, <1>8, <1>9 DEF Shown, x

(* In the middle of a superstep nothing shows but the states before it. *)
LEMMA NothingShows ==
    ASSUME engine.pc \in {"collect", "recover", "end"}, engine'.pc \in {"collect", "recover", "end"},
           engine'.saved = engine.saved, engine'.scheduled = engine.scheduled,
           engine'.program = engine.program, engine'.halted = engine.halted,
           engine'.step = engine.step
    PROVE  UNCHANGED Shown
<1>1. InStep /\ InStep'
  BY DEF InStep
<1>2. ShownStates' = ShownStates /\ ShownActive' = ShownActive
  BY <1>1 DEF ShownStates, ShownActive
<1>3. ShownResult' = ShownResult
  BY DEF ShownResult
<1> QED
  BY <1>2, <1>3 DEF Shown

LEMMA WorkerAnswers ==
    ASSUME EngineInv, NEW v \in Vertices, NEW failed \in BOOLEAN, WorkerFinishes(v, failed)
    PROVE  EngineInv' /\ UNCHANGED Shown
<1> DEFINE x == engine'
           r == [vertex |-> v, failed |-> failed]
<1>1. /\ DOMAIN x = Fields /\ x.pc = "collect" /\ x.saved = engine.saved
      /\ x.states = engine.states /\ x.active = engine.active /\ x.scheduled = engine.scheduled
      /\ x.inFlight = engine.inFlight \ {v} /\ x.results = engine.results \cup {r}
      /\ x.batch = engine.batch /\ x.collected = engine.collected
      /\ x.halted = engine.halted /\ x.program = engine.program /\ x.step = engine.step
  BY DEF WorkerFinishes, EngineInv, EngineIsSound, Fields
<1>2. engine.pc = "collect" /\ v \in engine.inFlight
  BY DEF WorkerFinishes
<1>3. EngineIsSound(engine) /\ Collecting(engine)
  BY <1>2 DEF EngineInv, EngineIsSound
<1>4. Answered(x.results) = Answered(engine.results) \cup {v} /\ r.vertex = v
  <2>1. r.vertex = v
    OBVIOUS
  <2> HIDE DEF x, r
  <2> QED
    BY <1>1, <2>1 DEF Answered
<1>5. r \in Result(x.scheduled)
  BY <1>1, <1>2, <1>3 DEF Result, Collecting
<1>6. \A q \in engine.results : q.vertex # v
  BY <1>2, <1>3 DEF Collecting
<1> HIDE DEF x, r
<1>7. x.inFlight \cup Answered(x.results) = engine.inFlight \cup Answered(engine.results)
  BY <1>1, <1>2, <1>4
<1>8. Unapplied(x) = Unapplied(engine)
  BY <1>1, <1>7 DEF Unapplied
<1>9. Collecting(x)
  <2>1. x.inFlight \subseteq x.scheduled /\ x.results \subseteq Result(x.scheduled)
    BY <1>1, <1>3, <1>5 DEF Collecting
  <2>2. \A q \in x.results : q.vertex \notin x.inFlight
    BY <1>1, <1>3, <1>4 DEF Collecting
  <2>3. \A q, s \in x.results : q.vertex = s.vertex => q = s
    BY <1>1, <1>3, <1>4, <1>6 DEF Collecting
  <2>4. \A i \in DOMAIN x.batch : x.batch[i].vertex \notin x.inFlight \cup Answered(x.results)
    BY <1>1, <1>3, <1>7, Zenon DEF Collecting
  <2>5. x.collected = Cardinality(x.scheduled \ (x.inFlight \cup Answered(x.results)))
    BY <1>1, <1>3, <1>7, Zenon DEF Collecting
  <2>6. \A u \in Vertices : WouldBe(x, u) = WouldBe(engine, u)
    BY <1>1 DEF WouldBe
  <2>7. \A u \in Vertices :
           IF u \in x.scheduled \ Unapplied(x)
           THEN x.states[u] = WouldBe(x, u).state /\ x.active[u] = ~WouldBe(x, u).halt
           ELSE x.states[u] = x.saved[u] /\ x.active[u] = (u \in x.scheduled)
    BY <1>1, <1>3, <1>8, <2>6, ZenonT(30) DEF Collecting
  <2>8. x.batch \in Seq(Result(x.scheduled))
    BY <1>1, <1>3, Zenon DEF Collecting
  <2> QED
    BY <2>1, <2>2, <2>3, <2>4, <2>5, <2>7, <2>8 DEF Collecting
<1>10. EngineIsSound(x)
  BY <1>1, <1>2, <1>3, <1>9 DEF EngineIsSound
<1>11. EngineInv'
  BY <1>10 DEF EngineInv, x
<1> QED
  BY <1>1, <1>2, <1>11, NothingShows DEF x

Batched(batch) == {batch[i].vertex : i \in DOMAIN batch}
Gathered(r) == Append(engine.batch, r)
Awaited(r) == engine.inFlight \cup Answered(engine.results \ {r})

(* A result leaves the channel for the batch. *)
LEMMA ResultReceived ==
    ASSUME EngineInv, engine.pc = "collect", NEW r \in engine.results
    PROVE  /\ Gathered(r) \in Seq(Result(engine.scheduled))
           /\ Batched(Gathered(r)) \subseteq engine.scheduled
           /\ Batched(Gathered(r)) \cap Awaited(r) = {}
           /\ Awaited(r) \cup Batched(Gathered(r)) = Unapplied(engine)
           /\ Awaited(r) \subseteq engine.scheduled
           /\ engine.collected + 1 = Cardinality(engine.scheduled \ Awaited(r))
<1> DEFINE batch == Gathered(r)
           W == Awaited(r)
<1>a. batch = Append(engine.batch, r)
  BY DEF Gathered
<1>b. W = engine.inFlight \cup Answered(engine.results \ {r})
  BY DEF Awaited
<1> HIDE DEF batch, W
<1>1. Collecting(engine) /\ engine.scheduled \subseteq Vertices
  BY DEF EngineInv, EngineIsSound
<1>2. /\ engine.batch \in Seq(Result(engine.scheduled)) /\ r \in Result(engine.scheduled)
      /\ r.vertex \in engine.scheduled
  BY <1>1 DEF Collecting, Result
<1>3. batch \in Seq(Result(engine.scheduled)) /\ Len(batch) = Len(engine.batch) + 1
  BY <1>2, <1>a, AppendProperties
<1>4. /\ DOMAIN batch = 1 .. Len(engine.batch) + 1
      /\ batch[Len(engine.batch) + 1] = r
      /\ \A i \in 1 .. Len(engine.batch) : batch[i] = engine.batch[i]
  BY <1>2, <1>3, <1>a, AppendProperties
<1>5. Batched(batch) = Batched(engine.batch) \cup {r.vertex}
  <2>1. DOMAIN engine.batch = 1 .. Len(engine.batch) /\ Len(engine.batch) \in Nat
    BY <1>2
  <2>2. DOMAIN batch = DOMAIN engine.batch \cup {Len(engine.batch) + 1}
    BY <1>4, <2>1
  <2> QED
    BY <1>4, <2>1, <2>2 DEF Batched
<1>6. Batched(batch) \subseteq engine.scheduled
  <2>1. \A i \in DOMAIN batch : batch[i] \in Result(engine.scheduled)
    BY <1>3
  <2> QED
    BY <2>1 DEF Batched, Result
<1>7. /\ Answered(engine.results) = Answered(engine.results \ {r}) \cup {r.vertex}
      /\ r.vertex \notin Answered(engine.results \ {r}) /\ r.vertex \notin engine.inFlight
  BY <1>1 DEF Collecting, Answered
<1>8. Batched(batch) \cap W = {}
  <2>1. Batched(engine.batch) \cap (engine.inFlight \cup Answered(engine.results)) = {}
    BY <1>1 DEF Collecting, Batched
  <2> QED
    BY <1>5, <1>7, <1>b, <2>1
<1>9. W \cup Batched(batch) = Unapplied(engine)
  <2>1. Unapplied(engine) = engine.inFlight \cup Answered(engine.results) \cup Batched(engine.batch)
    BY DEF Unapplied, Batched
  <2> QED
    BY <1>5, <1>7, <1>b, <2>1
<1>10. W \subseteq engine.scheduled
  BY <1>1, <1>b DEF Collecting, Answered, Result
<1>11. engine.collected + 1 = Cardinality(engine.scheduled \ W)
  <2> DEFINE got == engine.scheduled \ (engine.inFlight \cup Answered(engine.results))
  <2>1. IsFiniteSet(got)
    BY <1>1, CacheOptimizedAssumption, FS_Subset
  <2>2. engine.collected = Cardinality(got)
    BY <1>1 DEF Collecting
  <2>3. engine.scheduled \ W = got \cup {r.vertex} /\ r.vertex \notin got
    BY <1>2, <1>7, <1>b
  <2> HIDE DEF got
  <2>4. Cardinality(got \cup {r.vertex}) = Cardinality(got) + 1
    BY <2>1, <2>3, FS_AddElement
  <2> QED
    BY <2>2, <2>3, <2>4
<1> QED
  BY <1>3, <1>6, <1>8, <1>9, <1>10, <1>11 DEF batch, W

(* What an empty or a growing batch leaves to show of the invariant. *)
LEMMA StillCollecting ==
    ASSUME EngineInv, engine.pc = "collect", NEW r \in engine.results, NEW x,
           x.inFlight = engine.inFlight, x.results = engine.results \ {r},
           x.scheduled = engine.scheduled, x.saved = engine.saved, x.program = engine.program,
           x.collected = engine.collected + 1,
           x.batch \in Seq(Result(engine.scheduled)), Batched(x.batch) \cap Awaited(r) = {},
           \A u \in Vertices :
              IF u \in x.scheduled \ (Awaited(r) \cup Batched(x.batch))
              THEN x.states[u] = WouldBe(engine, u).state /\ x.active[u] = ~WouldBe(engine, u).halt
              ELSE x.states[u] = engine.saved[u] /\ x.active[u] = (u \in engine.scheduled)
    PROVE  Collecting(x)
<1> DEFINE W == Awaited(r)
<1>1. Collecting(engine)
  BY DEF EngineInv, EngineIsSound
<1>2. W = x.inFlight \cup Answered(x.results)
  BY Zenon DEF Awaited
<1>3. x.collected = Cardinality(x.scheduled \ W)
  BY ResultReceived
<1> HIDE DEF W
<1>4. \A i \in DOMAIN x.batch : x.batch[i].vertex \notin W
  BY DEF Batched, W
<1>5. W \cup Batched(x.batch) = Unapplied(x)
  BY <1>2 DEF Unapplied, Batched
<1>6. x.inFlight \subseteq x.scheduled /\ x.results \subseteq Result(x.scheduled)
  BY <1>1 DEF Collecting
<1>7. /\ \A q \in x.results : q.vertex \notin x.inFlight
      /\ \A q, s \in x.results : q.vertex = s.vertex => q = s
  BY <1>1 DEF Collecting
<1>8. \A u \in Vertices : WouldBe(x, u) = WouldBe(engine, u)
  BY DEF WouldBe
<1>9. \A u \in Vertices :
         IF u \in x.scheduled \ Unapplied(x)
         THEN x.states[u] = WouldBe(x, u).state /\ x.active[u] = ~WouldBe(x, u).halt
         ELSE x.states[u] = x.saved[u] /\ x.active[u] = (u \in x.scheduled)
  BY <1>5, <1>8, Zenon DEF W
<1> QED
  BY <1>2, <1>3, <1>4, <1>6, <1>7, <1>9, Zenon DEF Collecting

(* A batch without errors is applied to the last of its results. *)
LEMMA WholeBatchIsApplied ==
    ASSUME NEW batch, NEW rank, ~ \E i \in DOMAIN batch : batch[i].failed
    PROVE  Applied(batch, rank) = Batched(batch)
BY DEF Applied, Batched

LEMMA BatchGrows ==
    ASSUME EngineInv, NEW r \in engine.results, CollectResult(r),
           engine.collected + 1 # Cardinality(engine.scheduled), engine'.batch = Gathered(r),
           engine'.states = engine.states, engine'.active = engine.active,
           engine'.pc = "collect", DOMAIN engine' = Fields,
           engine'.inFlight = engine.inFlight, engine'.results = engine.results \ {r},
           engine'.scheduled = engine.scheduled, engine'.saved = engine.saved,
           engine'.program = engine.program, engine'.halted = engine.halted,
           engine'.step = engine.step, engine'.collected = engine.collected + 1
    PROVE  EngineInv'
<1> DEFINE x == engine'
           W == Awaited(r)
           batch == Gathered(r)
<1>1. engine.pc = "collect"
  BY DEF CollectResult
<1>2. EngineIsSound(engine) /\ Collecting(engine)
  BY <1>1 DEF EngineInv, EngineIsSound
<1>3. /\ batch \in Seq(Result(engine.scheduled)) /\ Batched(batch) \cap W = {}
      /\ W \cup Batched(batch) = Unapplied(engine)
  BY <1>1, ResultReceived
<1>4. \A u \in Vertices :
         IF u \in engine.scheduled \ (W \cup Batched(batch))
         THEN engine.states[u] = WouldBe(engine, u).state /\ engine.active[u] = ~WouldBe(engine, u).halt
         ELSE engine.states[u] = engine.saved[u] /\ engine.active[u] = (u \in engine.scheduled)
  BY <1>2, <1>3, Zenon DEF Collecting
<1> HIDE DEF W, batch
<1>5. Collecting(x)
  <2> HIDE DEF x
  <2>1. /\ x.inFlight = engine.inFlight /\ x.results = engine.results \ {r}
        /\ x.scheduled = engine.scheduled /\ x.saved = engine.saved
        /\ x.program = engine.program /\ x.collected = engine.collected + 1 /\ x.batch = batch
        /\ x.states = engine.states /\ x.active = engine.active
    BY DEF x, batch
  <2>2. x.batch \in Seq(Result(engine.scheduled)) /\ Batched(x.batch) \cap Awaited(r) = {}
    BY <1>3, <2>1, Zenon DEF W
  <2>3. \A u \in Vertices :
           IF u \in x.scheduled \ (Awaited(r) \cup Batched(x.batch))
           THEN x.states[u] = WouldBe(engine, u).state /\ x.active[u] = ~WouldBe(engine, u).halt
           ELSE x.states[u] = engine.saved[u] /\ x.active[u] = (u \in engine.scheduled)
    BY <1>4, <2>1, Zenon DEF W
  <2> QED
    BY <1>1, <2>1, <2>2, <2>3, StillCollecting
<1>6. EngineIsSound(x)
  BY <1>1, <1>2, <1>5, Zenon DEF EngineIsSound, x
<1> QED
  BY <1>6, Zenon DEF EngineInv

(* What processBatchOptimized leaves of an engine. *)
WithResult(x, r, applied) ==
    /\ DOMAIN x = Fields
    /\ x.states = [v \in Vertices |-> IF v \in applied THEN WouldBe(engine, v).state
                                                       ELSE engine.states[v]]
    /\ x.active = [v \in Vertices |-> IF v \in applied THEN ~WouldBe(engine, v).halt
                                                       ELSE engine.active[v]]
    /\ x.batch = <<>> /\ x.inFlight = engine.inFlight /\ x.results = engine.results \ {r}
    /\ x.scheduled = engine.scheduled /\ x.saved = engine.saved /\ x.program = engine.program
    /\ x.halted = engine.halted /\ x.step = engine.step /\ x.collected = engine.collected + 1

LEMMA BatchIsProcessed ==
    ASSUME EngineInv, NEW r \in engine.results, engine.pc = "collect", NEW rank, NEW next,
           engine' = ProcessBatch([engine EXCEPT !.results = @ \ {r}, !.collected = @ + 1,
                                                 !.pc = next, !.batch = Gathered(r)], Gathered(r), rank)
    PROVE  /\ WithResult(engine', r, Applied(Gathered(r), rank))
           /\ engine'.pc = IF \E i \in DOMAIN Gathered(r) : Gathered(r)[i].failed THEN "recover" ELSE next
<1> DEFINE e == [engine EXCEPT !.results = @ \ {r}, !.collected = @ + 1,
                               !.pc = next, !.batch = Gathered(r)]
           applied == Applied(Gathered(r), rank)
           batch == Gathered(r)
<1>1. DOMAIN engine = Fields
  BY DEF EngineInv, EngineIsSound
<1>2. /\ DOMAIN e = Fields /\ e.states = engine.states /\ e.active = engine.active
      /\ e.inFlight = engine.inFlight /\ e.results = engine.results \ {r}
      /\ e.scheduled = engine.scheduled /\ e.saved = engine.saved /\ e.program = engine.program
      /\ e.halted = engine.halted /\ e.step = engine.step /\ e.collected = engine.collected + 1
      /\ e.pc = next
  BY <1>1 DEF Fields
<1>3. engine' = [e EXCEPT
        !.states = [v \in Vertices |-> IF v \in applied
                                       THEN Compute(e.program, v, e.saved[v], <<>>).state
                                       ELSE e.states[v]],
        !.active = [v \in Vertices |-> IF v \in applied
                                       THEN ~Compute(e.program, v, e.saved[v], <<>>).halt
                                       ELSE e.active[v]],
        !.batch = <<>>,
        !.pc = IF \E i \in DOMAIN batch : batch[i].failed THEN "recover" ELSE e.pc]
  BY <1>1, <1>2 DEF ProcessBatch, Fields
<1> HIDE DEF e, applied, batch
<1>4. /\ DOMAIN engine' = Fields
      /\ engine'.states = [v \in Vertices |-> IF v \in applied
                                       THEN Compute(e.program, v, e.saved[v], <<>>).state
                                       ELSE e.states[v]]
      /\ engine'.active = [v \in Vertices |-> IF v \in applied
                                       THEN ~Compute(e.program, v, e.saved[v], <<>>).halt
                                       ELSE e.active[v]]
      /\ engine'.batch = <<>>
      /\ engine'.pc = IF \E i \in DOMAIN batch : batch[i].failed THEN "recover" ELSE e.pc
      /\ engine'.inFlight = e.inFlight /\ engine'.results = e.results
      /\ engine'.scheduled = e.scheduled /\ engine'.saved = e.saved /\ engine'.program = e.program
      /\ engine'.halted = e.halted /\ engine'.step = e.step /\ engine'.collected = e.collected
  BY <1>2, <1>3, ZenonT(30) DEF Fields
<1>5. WithResult(engine', r, applied)
  BY <1>2, <1>4 DEF WithResult, WouldBe
<1> QED
  BY <1>2, <1>4, <1>5 DEF applied, batch

(* When nothing failed, all that was waiting in the batch has taken effect. *)
LEMMA BatchTakesEffect ==
    ASSUME EngineInv, NEW r \in engine.results, engine.pc = "collect", NEW x,
           WithResult(x, r, Batched(Gathered(r)))
    PROVE  /\ Collecting(x) /\ x.active \in [Vertices -> BOOLEAN]
           /\ x.inFlight \cup Answered(x.results) = Awaited(r) /\ Batched(x.batch) = {}
<1> DEFINE done == Batched(Gathered(r))
           W == Awaited(r)
<1>1. Collecting(engine) /\ engine.active \in [Vertices -> BOOLEAN]
  BY DEF EngineInv, EngineIsSound
<1>2. W \cup done = Unapplied(engine) /\ done \cap W = {} /\ done \subseteq engine.scheduled
  BY ResultReceived
<1>3. \A u \in Vertices :
         /\ x.states[u] = IF u \in done THEN WouldBe(engine, u).state ELSE engine.states[u]
         /\ x.active[u] = IF u \in done THEN ~WouldBe(engine, u).halt ELSE engine.active[u]
  BY DEF WithResult
<1>4. x.batch = <<>> /\ Batched(x.batch) = {}
  BY DEF WithResult, Batched
<1> HIDE DEF done, W
<1>5. x.active \in [Vertices -> BOOLEAN]
  <2>1. x.active = [v \in Vertices |-> IF v \in done THEN ~WouldBe(engine, v).halt
                                                    ELSE engine.active[v]]
    BY DEF WithResult, done
  <2> QED
    BY <1>1, <2>1
<1>6. ASSUME NEW u \in Vertices
      PROVE  IF u \in engine.scheduled \ W
             THEN x.states[u] = WouldBe(engine, u).state /\ x.active[u] = ~WouldBe(engine, u).halt
             ELSE x.states[u] = engine.saved[u] /\ x.active[u] = (u \in engine.scheduled)
  <2>1. IF u \in engine.scheduled \ (W \cup done)
        THEN engine.states[u] = WouldBe(engine, u).state /\ engine.active[u] = ~WouldBe(engine, u).halt
        ELSE engine.states[u] = engine.saved[u] /\ engine.active[u] = (u \in engine.scheduled)
    BY <1>1, <1>2, Zenon DEF Collecting
  <2>2. CASE u \in done
    <3>1. u \in engine.scheduled \ W
      BY <1>2, <2>2
    <3> QED
      BY <1>3, <2>2, <3>1, Zenon
  <2>3. CASE u \notin done
    <3>1. u \in engine.scheduled \ W <=> u \in engine.scheduled \ (W \cup done)
      BY <2>3
    <3> QED
      BY <1>3, <2>1, <2>3, <3>1, Zenon
  <2> QED
    BY <2>2, <2>3
<1>7. /\ x.inFlight = engine.inFlight /\ x.results = engine.results \ {r}
      /\ x.scheduled = engine.scheduled /\ x.saved = engine.saved /\ x.program = engine.program
      /\ x.collected = engine.collected + 1
  BY DEF WithResult
<1>8. Collecting(x)
  <2>1. x.batch \in Seq(Result(engine.scheduled)) /\ Batched(x.batch) \cap Awaited(r) = {}
    BY <1>4
  <2>2. \A u \in Vertices :
           IF u \in x.scheduled \ (Awaited(r) \cup Batched(x.batch))
           THEN x.states[u] = WouldBe(engine, u).state /\ x.active[u] = ~WouldBe(engine, u).halt
           ELSE x.states[u] = engine.saved[u] /\ x.active[u] = (u \in engine.scheduled)
    <3>1. x.scheduled \ (Awaited(r) \cup Batched(x.batch)) = engine.scheduled \ W
      BY <1>4, <1>7 DEF W
    <3> QED
      BY <1>6, <1>7, <3>1, Zenon
  <2> QED
    BY <1>7, <2>1, <2>2, StillCollecting
<1> QED
  BY <1>4, <1>5, <1>7, <1>8 DEF Awaited

LEMMA ResultIsCollected ==
    ASSUME EngineInv, NEW r \in engine.results, CollectResult(r)
    PROVE  EngineInv' /\ UNCHANGED Shown
<1> DEFINE x == engine'
           batch == Append(engine.batch, r)
           last == engine.collected + 1 = Cardinality(engine.scheduled)
           next == IF last THEN "end" ELSE "collect"
           received == [engine EXCEPT !.results = @ \ {r}, !.collected = @ + 1,
                                      !.pc = next, !.batch = batch]
<1>1. engine.pc = "collect" /\ batch = Gathered(r)
  BY DEF CollectResult, Gathered
<1>2. EngineIsSound(engine) /\ Collecting(engine)
  BY <1>1 DEF EngineInv, EngineIsSound
<1>3. CASE last \/ Len(batch) >= BatchSize
  <2>1. PICK rank \in Orders(1 .. NumPartitions) : engine' = ProcessBatch(received, batch, rank)
    BY <1>3 DEF CollectResult
  <2> DEFINE broken == \E i \in DOMAIN Gathered(r) : Gathered(r)[i].failed
  <2> HIDE DEF batch, next
  <2>2. WithResult(x, r, Applied(Gathered(r), rank)) /\ x.pc = IF broken THEN "recover" ELSE next
    BY <1>1, <2>1, BatchIsProcessed
  <2>3. /\ x.scheduled = engine.scheduled /\ x.saved = engine.saved /\ x.program = engine.program
        /\ x.halted = engine.halted /\ x.step = engine.step /\ DOMAIN x = Fields
        /\ x.states = [v \in Vertices |-> x.states[v]]
    BY <2>2 DEF WithResult
  <2>4. x.active \in [Vertices -> BOOLEAN]
    <3>1. engine.active \in [Vertices -> BOOLEAN]
      BY <1>2 DEF EngineIsSound
    <3> QED
      BY <2>2, <3>1, ZenonT(30) DEF WithResult
  <2>5. x.pc \in {"collect", "recover", "end"}
    BY <2>2 DEF next
  <2>6. x.pc # "recover" => /\ Collecting(x) /\ Batched(x.batch) = {}
                           /\ x.inFlight \cup Answered(x.results) = Awaited(r)
    <3>1. SUFFICES ASSUME x.pc # "recover"
                   PROVE  /\ Collecting(x) /\ Batched(x.batch) = {}
                          /\ x.inFlight \cup Answered(x.results) = Awaited(r)
      OBVIOUS
    <3>2. ~broken
      BY <2>2, <3>1
    <3>3. Applied(Gathered(r), rank) = Batched(Gathered(r))
      BY <3>2, WholeBatchIsApplied
    <3>4. WithResult(x, r, Batched(Gathered(r)))
      BY <2>2, <3>3
    <3> HIDE DEF x
    <3> QED
      BY <1>1, <3>4, BatchTakesEffect
  <2>7. x.pc = "end" => Superstepped(x)
    <3> SUFFICES ASSUME x.pc = "end"
                 PROVE  Superstepped(x)
      OBVIOUS
    <3>1. engine.collected + 1 = Cardinality(engine.scheduled)
      BY <2>2 DEF next
    <3>2. Awaited(r) = {}
      <4>1. /\ Awaited(r) \subseteq engine.scheduled
            /\ engine.collected + 1 = Cardinality(engine.scheduled \ Awaited(r))
        BY <1>1, ResultReceived
      <4>2. IsFiniteSet(engine.scheduled)
        BY <1>1, <1>2, CacheOptimizedAssumption, FS_Subset DEF EngineIsSound
      <4>3. Cardinality(engine.scheduled \ Awaited(r)) = Cardinality(engine.scheduled)
        BY <3>1, <4>1
      <4> QED
        BY <4>1, <4>2, <4>3, LastResult
    <3> HIDE DEF x
    <3>3. Unapplied(x) = {}
      BY <2>6, <3>2 DEF Unapplied, Batched
    <3> QED
      BY <2>6, <3>3 DEF Collecting, Superstepped
  <2> HIDE DEF x
  <2>8. x.step < MaxSupersteps /\ ~x.halted /\ x.scheduled \subseteq Vertices
        /\ x.saved = [v \in Vertices |-> x.saved[v]]
    BY <1>1, <1>2, <2>3 DEF EngineIsSound
  <2>9. EngineIsSound(x)
    BY <2>3, <2>4, <2>5, <2>6, <2>7, <2>8 DEF EngineIsSound
  <2>10. EngineInv'
    BY <2>9 DEF EngineInv, x
  <2> QED
    BY <1>1, <2>3, <2>5, <2>10, NothingShows DEF x
<1>4. CASE ~ (last \/ Len(batch) >= BatchSize)
  <2>1. engine' = received /\ next = "collect"
    BY <1>4 DEF CollectResult
  <2> HIDE DEF batch, next
  <2>2. /\ engine'.batch = batch /\ engine'.pc = "collect" /\ DOMAIN engine' = Fields
        /\ engine'.states = engine.states /\ engine'.active = engine.active
        /\ engine'.inFlight = engine.inFlight /\ engine'.results = engine.results \ {r}
        /\ engine'.scheduled = engine.scheduled /\ engine'.saved = engine.saved
        /\ engine'.program = engine.program /\ engine'.halted = engine.halted
        /\ engine'.step = engine.step /\ engine'.collected = engine.collected + 1
    BY <1>2, <2>1 DEF EngineIsSound, Fields
  <2>3. EngineInv'
    BY <1>1, <1>4, <2>2, BatchGrows
  <2> QED
    BY <1>1, <2>2, <2>3, NothingShows
<1> QED
  BY <1>3, <1>4

LEMMA WaitTimesOut ==
    ASSUME EngineInv, TimeOutOptimized
    PROVE  EngineInv' /\ UNCHANGED Shown
<1> DEFINE x == engine'
<1>1. engine.pc = "collect" /\ EngineIsSound(engine)
  BY DEF TimeOutOptimized, EngineInv
<1>2. /\ DOMAIN x = Fields /\ x.pc = "recover" /\ x.saved = engine.saved
      /\ x.states = engine.states /\ x.active = engine.active /\ x.scheduled = engine.scheduled
      /\ x.halted = engine.halted /\ x.program = engine.program /\ x.step = engine.step
  BY <1>1 DEF TimeOutOptimized, EngineIsSound, Fields
<1>3. EngineIsSound(x)
  BY <1>1, <1>2 DEF EngineIsSound
<1> QED
  BY <1>1, <1>2, <1>3, NothingShows DEF EngineInv

(* The states of before the superstep are back. *)
LEMMA StepAborts ==
    ASSUME EngineInv, RecoverOptimized
    PROVE  EngineInv' /\ Atomic!Abort
<1> DEFINE x == engine'
<1>1. engine.pc = "recover" /\ EngineIsSound(engine)
  BY DEF RecoverOptimized, EngineInv
<1>2. /\ DOMAIN x = Fields /\ x.pc = "failed" /\ x.saved = engine.saved
      /\ x.states = engine.saved /\ x.active = engine.active
      /\ x.halted = engine.halted /\ x.program = engine.program /\ x.step = engine.step
  BY <1>1 DEF RecoverOptimized, EngineIsSound, Fields
<1>3. EngineIsSound(x)
  BY <1>1, <1>2 DEF EngineIsSound
<1>4. ShownStates' = ShownStates
  BY <1>1, <1>2 DEF ShownStates, InStep
<1>5. ShownActive' \in [Vertices -> BOOLEAN]
  BY <1>1, <1>2 DEF ShownActive, InStep, EngineIsSound
<1>6. ShownResult = "running" /\ ShownResult' = "failed"
  BY <1>1, <1>2 DEF ShownResult
<1>7. engine.step < MaxSupersteps /\ ~engine.halted
  BY <1>1 DEF EngineIsSound
<1> QED
  BY <1>2, <1>3, <1>4, <1>5, <1>6, <1>7 DEF EngineInv, Atomic!Abort

LEMMA StepTakesEffect ==
    ASSUME EngineInv, EndOptimizedStep
    PROVE  EngineInv' /\ Atomic!Superstep
<1> DEFINE x == engine'
<1>1. engine.pc = "end" /\ EngineIsSound(engine) /\ Superstepped(engine)
  BY DEF EndOptimizedStep, EngineInv, EngineIsSound
<1>2. /\ DOMAIN x = Fields /\ x.pc = "loop" /\ x.saved = engine.states
      /\ x.states = engine.states /\ x.active = engine.active
      /\ x.halted = \A v \in Vertices : ~engine.active[v]
      /\ x.program = engine.program /\ x.step = engine.step + 1
  BY <1>1 DEF EndOptimizedStep, EngineIsSound, Fields
<1>3. EngineIsSound(x)
  BY <1>1, <1>2 DEF EngineIsSound
<1>4. /\ ShownStates = engine.saved /\ ShownStates' = engine.states
      /\ ShownActive = [v \in Vertices |-> v \in engine.scheduled] /\ ShownActive' = engine.active
  BY <1>1, <1>2 DEF ShownStates, ShownActive, InStep
<1>5. ShownResult = "running" /\ ShownResult' = "running"
  BY <1>1, <1>2 DEF ShownResult
<1>6. engine.step < MaxSupersteps /\ ~engine.halted
  BY <1>1 DEF EngineIsSound
<1>7. \A v \in Vertices : Atomic!Computed(v) = WouldBe(engine, v)
  BY <1>4 DEF Atomic!Computed, WouldBe
<1>8. ShownStates' = [v \in Vertices |-> IF ShownActive[v] THEN Atomic!Computed(v).state
                                                          ELSE ShownStates[v]]
  <2>1. engine.states = [v \in Vertices |-> engine.states[v]]
    BY <1>1 DEF EngineIsSound
  <2>2. ASSUME NEW v \in Vertices
        PROVE  engine.states[v] = IF ShownActive[v] THEN Atomic!Computed(v).state
                                                   ELSE ShownStates[v]
    <3>1. engine.states[v] = IF v \in engine.scheduled THEN WouldBe(engine, v).state
                                                       ELSE engine.saved[v]
      BY <1>1, Zenon DEF Superstepped
    <3>2. ShownActive[v] = (v \in engine.scheduled) /\ ShownStates[v] = engine.saved[v]
      BY <1>4
    <3> QED
      BY <1>7, <3>1, <3>2, Zenon
  <2> QED
    BY <1>4, <2>1, <2>2
<1>9. ShownActive' = [v \in Vertices |-> ShownActive[v] /\ ~Atomic!Computed(v).halt]
  <2>1. engine.active = [v \in Vertices |-> engine.active[v]]
    BY <1>1 DEF EngineIsSound
  <2>2. \A v \in Vertices : engine.active[v] = (ShownActive[v] /\ ~Atomic!Computed(v).halt)
    BY <1>1, <1>4, <1>7 DEF Superstepped
  <2> QED
    BY <1>4, <2>1, <2>2
<1> QED
  BY <1>2, <1>3, <1>4, <1>5, <1>6, <1>8, <1>9, Zenon DEF EngineInv, Atomic!Superstep

LEMMA RunEnds ==
    ASSUME EngineInv, EndOptimizedRun
    PROVE  EngineInv' /\ Atomic!Finish
<1> DEFINE x == engine'
<1>1. /\ engine.pc = "loop" /\ (engine.step = MaxSupersteps \/ engine.halted)
      /\ EngineIsSound(engine)
  BY DEF EndOptimizedRun, EngineInv
<1>2. /\ DOMAIN x = Fields /\ x.pc = "done" /\ x.saved = engine.saved
      /\ x.states = engine.states /\ x.active = engine.active
      /\ x.halted = engine.halted /\ x.program = engine.program /\ x.step = engine.step
  BY <1>1 DEF EndOptimizedRun, EngineIsSound, Fields
<1>3. EngineIsSound(x)
  BY <1>1, <1>2 DEF EngineIsSound
<1>4. ShownStates' = ShownStates /\ ShownActive' = ShownActive
  BY <1>1, <1>2 DEF ShownStates, ShownActive, InStep
<1>5. ShownResult = "running" /\ ShownResult' = "ok"
  BY <1>1, <1>2 DEF ShownResult
<1> QED
  BY <1>1, <1>2, <1>3, <1>4, <1>5 DEF EngineInv, Atomic!Finish

(* Every step of the engine is a step of the contract or shows nothing. *)
LEMMA EngineStepRefines ==
    ASSUME EngineInv, EngineNext
    PROVE  EngineInv' /\ (Atomic!AtomicNext \/ UNCHANGED Shown)
<1>1. CASE RunOptimized
  BY <1>1, RunBegins DEF Atomic!AtomicNext
<1>2. CASE BeginOptimizedStep
  BY <1>2, StepBegins
<1>3. ASSUME NEW v \in Vertices, NEW failed \in BOOLEAN, WorkerFinishes(v, failed)
      PROVE  EngineInv' /\ UNCHANGED Shown
  BY <1>3, WorkerAnswers
<1>4. ASSUME NEW r \in engine.results, CollectResult(r)
      PROVE  EngineInv' /\ UNCHANGED Shown
  BY <1>4, ResultIsCollected
<1>5. CASE TimeOutOptimized
  BY <1>5, WaitTimesOut
<1>6. CASE RecoverOptimized
  BY <1>6, StepAborts DEF Atomic!AtomicNext
<1>7. CASE EndOptimizedStep
  BY <1>7, StepTakesEffect DEF Atomic!AtomicNext
<1>8. CASE EndOptimizedRun
  BY <1>8, RunEnds DEF Atomic!AtomicNext
<1> QED
  BY <1>1, <1>2, <1>3, <1>4, <1>5, <1>6, <1>7, <1>8 DEF EngineNext

(* For every set of vertices, every program, every number of partitions and every
   size of a batch: whatever the order of the results and of the partitions, with
   errors in the middle of a batch and with timeouts, a superstep of the
   cache-optimized engine executes all active vertices once on the states before it
   or leaves the states as they were (processBatchOptimized, collectResultsOptimized,
   runOptimizedStep). *)
THEOREM SuperstepsAreAtomic == EngineSpec => ImplementsAtomicSupersteps
<1>1. EngineInit => ShownResult = "none"
  BY DEF EngineInit, NewEngine, ShownResult
<1>2. EngineInv /\ [EngineNext]_engine => EngineInv' /\ [Atomic!AtomicNext]_Atomic!aVars
  <2> SUFFICES ASSUME EngineInv, [EngineNext]_engine
               PROVE  EngineInv' /\ [Atomic!AtomicNext]_Atomic!aVars
    OBVIOUS
  <2>1. CASE EngineNext
    <3>1. EngineInv' /\ (Atomic!AtomicNext \/ UNCHANGED Shown)
      BY <2>1, EngineStepRefines
    <3> QED
      BY <3>1 DEF Atomic!aVars, Shown
  <2>2. CASE UNCHANGED engine
    BY <2>2 DEF EngineInv, Atomic!aVars, ShownStates, ShownActive, ShownResult, InStep
  <2> QED
    BY <2>1, <2>2
<1> QED
  BY <1>1, <1>2, EngineInitInv, PTL DEF EngineSpec, ImplementsAtomicSupersteps, Atomic!AtomicSpec

--------------------------------------------------------------------------------
(* PregelGraphExecutor *)

(* Nodes are kept under their own IDs, as AddNode keeps them. *)
Keyed(g) == \A n \in DOMAIN g.nodes : g.nodes[n].id = n

(* what ValidateCoreGraph leaves true of a graph that nodes are added to *)
Usable(g) == g.entry \in DOMAIN g.nodes /\ \A n \in DOMAIN g.nodes : NodeIsValid(g.nodes[n])

(* h is the graph g after a caller has changed it. *)
GrewTo(g, h) ==
    /\ DOMAIN g.nodes \subseteq DOMAIN h.nodes
    /\ \A n \in DOMAIN g.nodes : h.nodes[n] = g.nodes[n]
    /\ IsGraph(h) /\ (Keyed(g) => Keyed(h)) /\ (Usable(g) => Usable(h))

(* A vertex has its own marker or the one that was given; and its own, once it ran. *)
Marked(b, g, n) ==
    /\ b.states[n] \in States
    /\ \A p \in Processors :
          b.states[n].by[p] = b.given.by[p] \/ (g.nodes[n].type = p /\ b.states[n].by[p] = n)
HasRun(b, g, n) == g.nodes[n].type \in Processors /\ b.states[n].by[g.nodes[n].type] = n

RunIsSound(b, h) ==
    /\ DOMAIN b = DOMAIN NoRun /\ b.graph \in Graphs /\ Usable(h[b.graph]) /\ b.given \in States
    /\ DOMAIN b.states # {} /\ DOMAIN b.states \subseteq DOMAIN h[b.graph].nodes
    /\ \A n \in DOMAIN b.states : Marked(b, h[b.graph], n)
    /\ b.pending \subseteq DOMAIN b.states /\ b.active \subseteq DOMAIN b.states
    /\ b.step \in Nat /\ b.failed \in BOOLEAN
    /\ b.step # 0 => \A n \in DOMAIN b.states : HasRun(b, h[b.graph], n)

(* OutputIsComplete, of one call *)
OutputHasAll(b, h) ==
    \A p \in Processors :
        LET ran == {n \in DOMAIN b.states : h[b.graph].nodes[n].type = p}
            given == b.given.by[p]
        IN  b.output.by[p] \in ran \cup (IF ran = {} \/ given # NoId THEN {given} ELSE {})

(* One call, its run and the graphs *)
CallHolds(x, b, h) ==
    /\ DOMAIN x = DOMAIN Idle /\ x.pc \in {"idle", "run", "superstep", "returned"}
    /\ x.pc \in {"run", "superstep"} =>
          /\ RunIsSound(b, h) /\ x.graph = b.graph /\ x.config.maxSteps \in Nat
          /\ x.status = "running"
    /\ x.pc = "run" =>
          /\ b.failed = FALSE
          /\ b.step = 0 => b.active = DOMAIN b.states /\ b.halted = FALSE
    /\ (x.pc = "superstep" /\ b.failed = FALSE) =>
          \A n \in DOMAIN b.states \ b.pending : HasRun(b, h[b.graph], n)
    /\ x.status = "completed" =>
          /\ b.graph \in Graphs /\ DOMAIN b.states \subseteq DOMAIN h[b.graph].nodes
          /\ OutputHasAll(b, h)

PObjects ==
    /\ DOMAIN heap = Graphs /\ \A g \in Graphs : IsGraph(heap[g]) /\ Keyed(heap[g])
    /\ repo \in Graphs \cup {NoGraph} /\ (repo # NoGraph => Usable(heap[repo]))
    /\ checkpoints = PriorCheckpoints

PInv ==
    /\ PObjects
    /\ DOMAIN exec = Executions /\ DOMAIN bsp = Executions
    /\ \A e \in Executions : CallHolds(exec[e], bsp[e], heap)

LEMMA GraphGrows ==
    ASSUME NEW g, IsGraph(g)
    PROVE  /\ \A n \in Node : GrewTo(g, NodeAdded(g, n))
           /\ \A e \in Edge : GrewTo(g, EdgeAdded(g, e))
<1>1. ASSUME NEW n \in Node
      PROVE  GrewTo(g, NodeAdded(g, n))
  <2>1. IsFiniteSet(DOMAIN g.nodes) /\ IsFiniteSet(DOMAIN g.nodes \cup {n.id})
    <3>1. IsFiniteSet(DOMAIN g.nodes)
      BY DEF IsGraph
    <3> QED
      BY <3>1, FS_AddElement, Zenon
  <2>2. IsGraph(NodeAdded(g, n))
    BY <2>1 DEF IsGraph, NodeAdded, Node
  <2>3. CASE NodeIsValid(n) /\ n.id \notin DOMAIN g.nodes
    <3> DEFINE h == NodeAdded(g, n)
    <3>1. /\ h.nodes = [i \in DOMAIN g.nodes \cup {n.id} |-> IF i = n.id THEN n ELSE g.nodes[i]]
          /\ h.entry = g.entry
      BY <2>3 DEF NodeAdded, IsGraph
    <3> HIDE DEF h
    <3>2. /\ DOMAIN h.nodes = DOMAIN g.nodes \cup {n.id} /\ h.nodes[n.id] = n
          /\ \A i \in DOMAIN g.nodes : h.nodes[i] = g.nodes[i]
      BY <2>3, <3>1
    <3>3. GrewTo(g, h)
      BY <2>2, <2>3, <3>1, <3>2 DEF GrewTo, Keyed, Usable, h
    <3> QED
      BY <3>3 DEF h
  <2>4. CASE ~(NodeIsValid(n) /\ n.id \notin DOMAIN g.nodes)
    BY <2>4 DEF NodeAdded, GrewTo
  <2> QED
    BY <2>3, <2>4
<1>2. ASSUME NEW e \in Edge
      PROVE  GrewTo(g, EdgeAdded(g, e))
  <2>1. CASE EdgeAdded(g, e) = [g EXCEPT !.edges = Append(@, e)]
    <3>1. g.edges \in Seq(Edge) /\ Append(g.edges, e) \in Seq(Edge)
      BY DEF IsGraph
    <3>2. IsGraph(EdgeAdded(g, e)) /\ EdgeAdded(g, e).nodes = g.nodes /\ EdgeAdded(g, e).entry = g.entry
      BY <2>1, <3>1 DEF IsGraph
    <3> QED
      BY <3>2 DEF GrewTo, Keyed, Usable
  <2>2. CASE EdgeAdded(g, e) = g
    BY <2>2 DEF GrewTo
  <2> QED
    BY <2>1, <2>2 DEF EdgeAdded
<1> QED
  BY <1>1, <1>2

(* A call and its output do not mind. *)
LEMMA CallStays ==
    ASSUME NEW x, NEW b, NEW h, NEW k, CallHolds(x, b, h),
           b.graph \in Graphs => GrewTo(h[b.graph], k[b.graph])
    PROVE  CallHolds(x, b, k)
<1> DEFINE g == h[b.graph]
           f == k[b.graph]
<1>1. CASE x.pc \in {"run", "superstep"}
  <2>1. RunIsSound(b, h) /\ b.graph \in Graphs /\ GrewTo(g, f) /\ x.status # "completed"
    BY <1>1 DEF CallHolds, RunIsSound
  <2>2. \A n \in DOMAIN b.states : f.nodes[n] = g.nodes[n]
    BY <2>1 DEF GrewTo, RunIsSound
  <2>3. \A n \in DOMAIN b.states : /\ Marked(b, f, n) <=> Marked(b, g, n)
                                   /\ HasRun(b, f, n) <=> HasRun(b, g, n)
    BY <2>2 DEF Marked, HasRun
  <2>4. RunIsSound(b, k)
    BY <2>1, <2>3 DEF RunIsSound, GrewTo
  <2> QED
    BY <2>1, <2>3, <2>4 DEF CallHolds
<1>2. CASE x.pc \notin {"run", "superstep"} /\ x.status = "completed"
  <2>1. /\ b.graph \in Graphs /\ DOMAIN b.states \subseteq DOMAIN g.nodes /\ GrewTo(g, f)
        /\ OutputHasAll(b, h)
    BY <1>2 DEF CallHolds
  <2>2. \A n \in DOMAIN b.states : f.nodes[n] = g.nodes[n]
    BY <2>1 DEF GrewTo
  <2>3. OutputHasAll(b, k)
    <3> SUFFICES ASSUME NEW p \in Processors
                 PROVE  {n \in DOMAIN b.states : g.nodes[n].type = p} = {n \in DOMAIN b.states : f.nodes[n].type = p}
      BY <2>1 DEF OutputHasAll
    <3> QED
      BY <2>2
  <2> QED
    BY <1>2, <2>1, <2>3 DEF CallHolds, GrewTo
<1>3. CASE x.pc \notin {"run", "superstep"} /\ x.status # "completed"
  BY <1>3 DEF CallHolds
<1> QED
  BY <1>1, <1>2, <1>3

(* An action of one call *)
LEMMA OneCall ==
    ASSUME PInv, NEW e \in Executions, DOMAIN exec' = Executions, DOMAIN bsp' = Executions,
           \A f \in Executions \ {e} : exec'[f] = exec[f] /\ bsp'[f] = bsp[f],
           CallHolds(exec'[e], bsp'[e], heap), UNCHANGED <<heap, repo, checkpoints>>
    PROVE  PInv'
BY DEF PInv, PObjects

(* The run of a call begins with all nodes active. *)
LEMMA LaunchedIsSound ==
    ASSUME PInv, repo # NoGraph, NEW state \in States
    PROVE  LET b == Launched(state)
           IN  /\ RunIsSound(b, heap) /\ b.graph = repo /\ b.failed = FALSE
               /\ b.active = DOMAIN b.states /\ b.halted = FALSE /\ b.step = 0
<1> DEFINE g == heap[repo]
           b == Launched(state)
<1>1. /\ b.states = [n \in DOMAIN g.nodes |-> state] /\ b.active = DOMAIN g.nodes
      /\ b.graph = repo /\ b.given = state /\ DOMAIN b = DOMAIN NoRun
      /\ b.pending = {} /\ b.failed = FALSE /\ b.step = 0 /\ b.halted = FALSE
  BY DEF Launched, NoRun
<1>2. repo \in Graphs /\ Usable(g)
  BY DEF PInv, PObjects
<1> HIDE DEF b
<1>3. DOMAIN b.states = DOMAIN g.nodes /\ DOMAIN g.nodes # {}
  BY <1>1, <1>2 DEF Usable
<1>4. \A n \in DOMAIN b.states : b.states[n] = state
  BY <1>1
<1>5. \A n \in DOMAIN b.states : Marked(b, g, n)
  BY <1>1, <1>4 DEF Marked
<1>6. RunIsSound(b, heap)
  <2> HIDE DEF g
  <2>1. /\ b.graph \in Graphs /\ heap[b.graph] = g /\ b.given \in States
        /\ b.pending \subseteq DOMAIN b.states /\ b.active \subseteq DOMAIN b.states
        /\ b.step \in Nat /\ ~(b.step # 0) /\ DOMAIN b.states \subseteq DOMAIN g.nodes
    BY <1>1, <1>2, <1>3 DEF g
  <2>2. b.failed \in BOOLEAN
    BY <1>1
  <2> QED
    BY <1>1, <1>2, <1>3, <1>5, <2>1, <2>2, Zenon DEF RunIsSound
<1> QED
  BY <1>1, <1>3, <1>6 DEF b

LEMMA IdleHolds == \A b, h : CallHolds(Idle, b, h) /\ Idle.pc = "idle" /\ Idle.status = "none"
BY DEF Idle, CallHolds

LEMMA PregelExecuteHolds ==
    ASSUME PInv, NEW e \in Executions, NEW r \in Requests, NEW i \in Inputs, PregelExecute(e, r, i)
    PROVE  PInv'
<1> DEFINE config == WithDefaults(r.config)
           accepted == r.valid /\ repo # NoGraph /\ Approved(config)
<1>1. DOMAIN exec = Executions /\ DOMAIN bsp = Executions
  BY DEF PInv
<1>2. CASE accepted
  <2>1. i \in States /\ r.config \in Config
    BY GraphExecutorAssumption
  <2>2. config.maxSteps \in Nat
    BY <2>1, GraphExecutorAssumption DEF WithDefaults, MaxStepsOrDefault, Config
  <2>3. exec' = [exec EXCEPT ![e] = [Idle EXCEPT !.pc = "run", !.op = "execute", !.config = config,
                                         !.graph = repo, !.status = "running"]]
    BY <1>2 DEF PregelExecute
  <2>4. bsp' = [bsp EXCEPT ![e] = Launched(i)] /\ UNCHANGED <<heap, repo, checkpoints>>
    BY <1>2 DEF PregelExecute
  <2> HIDE DEF config
  <2>5. /\ exec'[e].pc = "run" /\ exec'[e].config = config /\ exec'[e].graph = repo
        /\ exec'[e].status = "running" /\ DOMAIN exec'[e] = DOMAIN Idle
    BY <1>1, <2>3 DEF Idle
  <2>6. bsp'[e] = Launched(i)
    BY <1>1, <2>4
  <2>7. CallHolds(exec'[e], bsp'[e], heap)
    BY <1>2, <2>1, <2>2, <2>5, <2>6, LaunchedIsSound DEF CallHolds
  <2> QED
    BY <1>1, <2>3, <2>4, <2>7, OneCall
<1>3. CASE ~accepted
  <2>1. exec' = [exec EXCEPT ![e] = [Idle EXCEPT !.pc = "returned", !.op = "execute"]]
    BY <1>3 DEF PregelExecute
  <2>2. bsp' = bsp /\ UNCHANGED <<heap, repo, checkpoints>>
    BY <1>3 DEF PregelExecute
  <2>3. exec'[e].pc = "returned" /\ exec'[e].status = "none" /\ DOMAIN exec'[e] = DOMAIN Idle
    BY <1>1, <2>1 DEF Idle
  <2>4. CallHolds(exec'[e], bsp'[e], heap)
    BY <2>3 DEF CallHolds
  <2> QED
    BY <1>1, <2>1, <2>2, <2>4, OneCall
<1> QED
  BY <1>2, <1>3

LEMMA PregelResumeHolds ==
    ASSUME PInv, NEW e \in Executions, NEW c \in checkpoints, NEW loaded \in LoadedConfigs(c),
           NEW r \in Requests, PregelResume(e, c, loaded, r)
    PROVE  PInv'
<1> DEFINE config == [loaded EXCEPT !.maxSteps = IF r.config.maxSteps > 0 THEN r.config.maxSteps ELSE @]
<1>1. DOMAIN exec = Executions /\ DOMAIN bsp = Executions
  BY DEF PInv
<1>2. CASE repo # NoGraph
  <2>1. c.state \in States /\ c.config \in Config /\ r.config \in Config
    BY GraphExecutorAssumption, PregelGraphExecutorAssumption DEF PInv, PObjects
  <2>2. loaded \in Config
    <3>1. ZeroConfig \in Config
      BY DEF ZeroConfig, Config
    <3>2. loaded = c.config \/ loaded = ZeroConfig
      BY DEF LoadedConfigs
    <3> QED
      BY <2>1, <3>1, <3>2
  <2>3. config.maxSteps \in Nat
    BY <2>1, <2>2 DEF Config
  <2>4. exec' = [exec EXCEPT ![e] = [Idle EXCEPT !.pc = "run", !.op = "resume", !.config = config,
                                         !.graph = repo, !.status = "running"]]
    BY <1>2 DEF PregelResume
  <2>5. bsp' = [bsp EXCEPT ![e] = Launched(c.state)] /\ UNCHANGED <<heap, repo, checkpoints>>
    BY <1>2 DEF PregelResume
  <2> HIDE DEF config
  <2>6. /\ exec'[e].pc = "run" /\ exec'[e].config = config /\ exec'[e].graph = repo
        /\ exec'[e].status = "running" /\ DOMAIN exec'[e] = DOMAIN Idle
    BY <1>1, <2>4 DEF Idle
  <2>7. bsp'[e] = Launched(c.state)
    BY <1>1, <2>5
  <2>8. CallHolds(exec'[e], bsp'[e], heap)
    BY <1>2, <2>1, <2>3, <2>6, <2>7, LaunchedIsSound DEF CallHolds
  <2> QED
    BY <1>1, <2>4, <2>5, <2>8, OneCall
<1>3. CASE repo = NoGraph
  <2>1. exec' = [exec EXCEPT ![e] = [Idle EXCEPT !.pc = "returned", !.op = "resume"]]
    BY <1>3 DEF PregelResume
  <2>2. bsp' = bsp /\ UNCHANGED <<heap, repo, checkpoints>>
    BY <1>3 DEF PregelResume
  <2>3. exec'[e].pc = "returned" /\ exec'[e].status = "none" /\ DOMAIN exec'[e] = DOMAIN Idle
    BY <1>1, <2>1 DEF Idle
  <2>4. CallHolds(exec'[e], bsp'[e], heap)
    BY <2>3 DEF CallHolds
  <2> QED
    BY <1>1, <2>1, <2>2, <2>4, OneCall
<1> QED
  BY <1>2, <1>3

(* What a superstep that begins or ends changes leaves the run sound. *)
LEMMA RunGoesOn ==
    ASSUME NEW b, NEW c, NEW h, RunIsSound(b, h), DOMAIN c = DOMAIN NoRun,
           c.graph = b.graph, c.given = b.given, c.states = b.states, c.active = b.active,
           c.pending \subseteq DOMAIN b.states, c.step \in Nat, c.failed \in BOOLEAN,
           c.step # 0 => \A n \in DOMAIN b.states : HasRun(b, h[b.graph], n)
    PROVE  RunIsSound(c, h)
<1>1. \A n \in DOMAIN b.states : Marked(b, h[b.graph], n)
  BY Zenon DEF RunIsSound
<1>2. \A n \in DOMAIN c.states : Marked(c, h[c.graph], n)
  <2>1. c.states = b.states /\ c.graph = b.graph /\ c.given = b.given
    OBVIOUS
  <2> QED
    BY <1>1, <2>1 DEF Marked
<1>3. c.step # 0 => \A n \in DOMAIN c.states : HasRun(c, h[c.graph], n)
  BY Zenon DEF HasRun
<1>4. /\ b.graph \in Graphs /\ Usable(h[b.graph]) /\ b.given \in States
      /\ DOMAIN b.states # {} /\ DOMAIN b.states \subseteq DOMAIN h[b.graph].nodes
      /\ b.active \subseteq DOMAIN b.states
  BY Zenon DEF RunIsSound
<1> QED
  BY <1>2, <1>3, <1>4, Zenon DEF RunIsSound

LEMMA BeginHolds ==
    ASSUME PInv, NEW e \in Executions, BeginPregelStep(e)
    PROVE  PInv'
<1> DEFINE x == exec[e]
           b == bsp[e]
<1>1. DOMAIN exec = Executions /\ DOMAIN bsp = Executions /\ CallHolds(x, b, heap)
  BY DEF PInv
<1>2. x.pc = "run" /\ RunIsSound(b, heap)
  BY <1>1 DEF BeginPregelStep, CallHolds
<1>3. exec' = [exec EXCEPT ![e].pc = "superstep"] /\ bsp' = [bsp EXCEPT ![e].pending = b.active]
  BY DEF BeginPregelStep
<1>4. /\ exec'[e].pc = "superstep" /\ exec'[e].graph = x.graph /\ DOMAIN exec'[e] = DOMAIN Idle
      /\ exec'[e].config = x.config /\ exec'[e].status = x.status
  <2>1. DOMAIN x = DOMAIN Idle
    BY <1>1 DEF CallHolds
  <2> QED
    BY <1>1, <1>3, <2>1 DEF Idle
<1>5. /\ bsp'[e].pending = b.active /\ DOMAIN bsp'[e] = DOMAIN NoRun /\ bsp'[e].active = b.active
      /\ bsp'[e].graph = b.graph /\ bsp'[e].given = b.given /\ bsp'[e].states = b.states
      /\ bsp'[e].step = b.step /\ bsp'[e].failed = b.failed
  <2>1. DOMAIN b = DOMAIN NoRun
    BY <1>2 DEF RunIsSound
  <2> QED
    BY <1>1, <1>3, <2>1 DEF NoRun
<1> HIDE DEF x, b
<1>6. RunIsSound(bsp'[e], heap)
  <2>1. bsp'[e].pending \subseteq DOMAIN b.states /\ b.step \in Nat /\ b.failed \in BOOLEAN
        /\ (b.step # 0 => \A n \in DOMAIN b.states : HasRun(b, heap[b.graph], n))
    BY <1>2, <1>5 DEF RunIsSound
  <2> QED
    BY <1>2, <1>5, <2>1, RunGoesOn
<1>7. (bsp'[e].failed = FALSE) =>
         \A n \in DOMAIN bsp'[e].states \ bsp'[e].pending : HasRun(bsp'[e], heap[bsp'[e].graph], n)
  <2>1. b.step = 0 => b.active = DOMAIN b.states
    BY <1>1, <1>2 DEF CallHolds
  <2>2. b.step # 0 => \A n \in DOMAIN b.states : HasRun(b, heap[b.graph], n)
    BY <1>2 DEF RunIsSound
  <2> QED
    BY <1>5, <2>1, <2>2 DEF HasRun
<1>8. x.config.maxSteps \in Nat /\ x.graph = b.graph /\ x.status = "running"
  BY <1>1, <1>2 DEF CallHolds
<1>9. CallHolds(exec'[e], bsp'[e], heap)
  BY <1>4, <1>5, <1>6, <1>7, <1>8 DEF CallHolds
<1> QED
  BY <1>1, <1>3, <1>9, OneCall DEF BeginPregelStep

(* A vertex that computes leaves its own marker; the others are as they were. *)
LEMMA ComputeHolds ==
    ASSUME PInv, NEW e \in Executions, NEW n \in bsp[e].pending, ComputeNode(e, n)
    PROVE  PInv'
<1> DEFINE x == exec[e]
           b == bsp[e]
           g == heap[b.graph]
           c == bsp'[e]
           state == Processed(g.nodes[n], b.states[n])
           goesOn == NextEdges(g.nodes[n], g.edges, state) # {}
           computed == [b EXCEPT !.pending = @ \ {n}]
<1>1. DOMAIN exec = Executions /\ DOMAIN bsp = Executions /\ CallHolds(x, b, heap)
  BY DEF PInv
<1>2. x.pc = "superstep" /\ RunIsSound(b, heap) /\ x.graph = b.graph
  BY <1>1 DEF ComputeNode, CallHolds
<1>3. /\ bsp' = [bsp EXCEPT ![e] = IF CanProcess(g.nodes[n])
                                   THEN [computed EXCEPT !.states[n] = state,
                                                         !.active = IF goesOn THEN @ ELSE @ \ {n}]
                                   ELSE [computed EXCEPT !.failed = TRUE]]
      /\ UNCHANGED vars
  BY <1>2 DEF ComputeNode
<1>4. DOMAIN b = DOMAIN NoRun /\ n \in DOMAIN b.states /\ n \in DOMAIN g.nodes /\ b.graph \in Graphs
  BY <1>2 DEF RunIsSound
<1>5. IsGraph(g) /\ Keyed(g) /\ g.nodes[n].id = n /\ n \in Ids
  BY <1>4 DEF PInv, PObjects, Keyed, IsGraph
<1> HIDE DEF goesOn, g, x, state
<1>6. CASE CanProcess(g.nodes[n])
  <2>1. c = [computed EXCEPT !.states[n] = state, !.active = IF goesOn THEN @ ELSE @ \ {n}]
    BY <1>1, <1>3, <1>6
  <2>2. /\ c.states = [b.states EXCEPT ![n] = state] /\ c.pending = b.pending \ {n}
        /\ c.active \subseteq b.active
        /\ c.graph = b.graph /\ c.given = b.given /\ c.step = b.step /\ c.failed = b.failed
        /\ DOMAIN c = DOMAIN NoRun
    BY <1>4, <2>1 DEF NoRun
  <2> HIDE DEF c, computed
  <2>3. /\ DOMAIN c.states = DOMAIN b.states /\ c.states[n] = state
        /\ \A m \in DOMAIN b.states \ {n} : c.states[m] = b.states[m]
    BY <1>4, <2>2
  <2>4. Marked(c, g, n) /\ HasRun(c, g, n)
    <3>1. Marked(b, g, n) /\ g.nodes[n].type \in Processors
      BY <1>2, <1>4, <1>6 DEF RunIsSound, CanProcess, g
    <3>2. state \in States /\ \A p \in Processors : state.by[p] = IF p = g.nodes[n].type THEN n ELSE b.states[n].by[p]
      BY <1>5, <3>1 DEF Marked, States, Processed, state
    <3> QED
      BY <2>2, <2>3, <3>1, <3>2 DEF Marked, HasRun
  <2>5. \A m \in DOMAIN b.states : m # n =>
           (Marked(b, g, m) => Marked(c, g, m)) /\ (HasRun(b, g, m) => HasRun(c, g, m))
    BY <2>2, <2>3 DEF Marked, HasRun
  <2>6. /\ \A m \in DOMAIN b.states : Marked(b, g, m)
        /\ b.step # 0 => \A m \in DOMAIN b.states : HasRun(b, g, m)
        /\ b.graph \in Graphs /\ Usable(g) /\ b.given \in States
        /\ DOMAIN b.states # {} /\ DOMAIN b.states \subseteq DOMAIN g.nodes
        /\ b.pending \subseteq DOMAIN b.states /\ b.active \subseteq DOMAIN b.states
        /\ b.step \in Nat /\ b.failed \in BOOLEAN
    BY <1>2 DEF RunIsSound, g
  <2>7. RunIsSound(c, heap)
    <3>1. heap[c.graph] = g
      BY <2>2 DEF g
    <3>2. \A m \in DOMAIN c.states : Marked(c, g, m)
      BY <2>3, <2>4, <2>5, <2>6
    <3>3. c.step # 0 => \A m \in DOMAIN c.states : HasRun(c, g, m)
      BY <2>2, <2>3, <2>4, <2>5, <2>6
    <3>4. /\ c.pending \subseteq DOMAIN c.states /\ c.active \subseteq DOMAIN c.states
          /\ DOMAIN c.states # {} /\ DOMAIN c.states \subseteq DOMAIN g.nodes
      BY <2>2, <2>3, <2>6
    <3>5. /\ c.graph \in Graphs /\ Usable(g) /\ c.given \in States
          /\ c.step \in Nat /\ c.failed \in BOOLEAN /\ DOMAIN c = DOMAIN NoRun
      BY <2>2, <2>6, Zenon
    <3> QED
      BY <3>1, <3>2, <3>3, <3>4, <3>5, Zenon DEF RunIsSound
  <2>8. (c.failed = FALSE) => \A m \in DOMAIN c.states \ c.pending : HasRun(c, heap[c.graph], m)
    <3>1. (b.failed = FALSE) => \A m \in DOMAIN b.states \ b.pending : HasRun(b, g, m)
      BY <1>1, <1>2 DEF CallHolds, g
    <3> QED
      BY <2>2, <2>3, <2>4, <2>5, <3>1 DEF g
  <2>9. CallHolds(x, c, heap)
    BY <1>1, <1>2, <2>2, <2>7, <2>8 DEF CallHolds
  <2> QED
    BY <1>1, <1>3, <2>9, OneCall DEF vars, c, x
<1>7. CASE ~CanProcess(g.nodes[n])
  <2>1. c = [computed EXCEPT !.failed = TRUE]
    BY <1>1, <1>3, <1>7
  <2>2. /\ c.states = b.states /\ c.pending = b.pending \ {n} /\ c.active = b.active
        /\ c.graph = b.graph /\ c.given = b.given /\ c.step = b.step /\ c.failed = TRUE
        /\ DOMAIN c = DOMAIN NoRun
    BY <1>4, <2>1 DEF NoRun
  <2> HIDE DEF c, computed
  <2>3. RunIsSound(c, heap)
    <3>1. c.pending \subseteq DOMAIN c.states /\ c.failed \in BOOLEAN
      BY <1>2, <2>2 DEF RunIsSound
    <3>2. \A m : (Marked(b, g, m) <=> Marked(c, g, m)) /\ (HasRun(b, g, m) <=> HasRun(c, g, m))
      BY <2>2, ZenonT(30) DEF Marked, HasRun
    <3> QED
      BY <1>2, <2>2, <3>1, <3>2, Zenon DEF RunIsSound, g
  <2>4. CallHolds(x, c, heap)
    BY <1>1, <1>2, <2>2, <2>3 DEF CallHolds
  <2> QED
    BY <1>1, <1>3, <2>4, OneCall DEF vars, c, x
<1> QED
  BY <1>6, <1>7

LEMMA EndHolds ==
    ASSUME PInv, NEW e \in Executions, EndPregelStep(e)
    PROVE  PInv'
<1> DEFINE x == exec[e]
           b == bsp[e]
           c == bsp'[e]
<1>1. DOMAIN exec = Executions /\ DOMAIN bsp = Executions /\ CallHolds(x, b, heap)
  BY DEF PInv
<1>2. x.pc = "superstep" /\ RunIsSound(b, heap) /\ b.pending = {} /\ b.failed = FALSE
  BY <1>1 DEF EndPregelStep, CallHolds, RunIsSound
<1>3. /\ exec' = [exec EXCEPT ![e].pc = "run"]
      /\ bsp' = [bsp EXCEPT ![e].step = @ + 1, ![e].halted = b.active = {}]
  BY DEF EndPregelStep
<1>4. /\ exec'[e].pc = "run" /\ exec'[e].graph = x.graph /\ DOMAIN exec'[e] = DOMAIN Idle
      /\ exec'[e].config = x.config /\ exec'[e].status = x.status
  <2>1. DOMAIN x = DOMAIN Idle
    BY <1>1 DEF CallHolds
  <2> QED
    BY <1>1, <1>3, <2>1 DEF Idle
<1>5. /\ c.pending = b.pending /\ DOMAIN c = DOMAIN NoRun /\ c.active = b.active
      /\ c.graph = b.graph /\ c.given = b.given /\ c.states = b.states
      /\ c.step = b.step + 1 /\ c.failed = b.failed
  <2>1. DOMAIN b = DOMAIN NoRun
    BY <1>2 DEF RunIsSound
  <2> QED
    BY <1>1, <1>3, <2>1 DEF NoRun
<1> HIDE DEF x, b, c
<1>6. \A n \in DOMAIN b.states : HasRun(b, heap[b.graph], n)
  BY <1>1, <1>2 DEF CallHolds
<1>7. b.step \in Nat /\ c.step \in Nat /\ c.step # 0
  BY <1>2, <1>5 DEF RunIsSound
<1>8. RunIsSound(c, heap)
  <2>1. c.pending \subseteq DOMAIN b.states /\ c.failed \in BOOLEAN
    BY <1>2, <1>5
  <2> QED
    BY <1>2, <1>5, <1>6, <1>7, <2>1, RunGoesOn
<1>9. x.config.maxSteps \in Nat /\ x.graph = b.graph /\ x.status = "running"
  BY <1>1, <1>2 DEF CallHolds
<1>10. CallHolds(exec'[e], c, heap)
  BY <1>2, <1>4, <1>5, <1>7, <1>8, <1>9 DEF CallHolds
<1> QED
  BY <1>1, <1>3, <1>10, OneCall DEF EndPregelStep, c

LEMMA FailHolds ==
    ASSUME PInv, NEW e \in Executions, PregelFails(e)
    PROVE  PInv'
<1>1. DOMAIN exec = Executions /\ DOMAIN bsp = Executions
  BY DEF PInv
<1>2. /\ exec' = [exec EXCEPT ![e] = [Idle EXCEPT !.pc = "returned", !.op = exec[e].op,
                                          !.status = "failed", !.steps = exec[e].steps]]
      /\ bsp' = bsp /\ UNCHANGED <<heap, repo, checkpoints>>
  BY DEF PregelFails, Return
<1>3. exec'[e].pc = "returned" /\ exec'[e].status = "failed" /\ DOMAIN exec'[e] = DOMAIN Idle
  BY <1>1, <1>2 DEF Idle
<1>4. CallHolds(exec'[e], bsp'[e], heap)
  BY <1>3 DEF CallHolds
<1> QED
  BY <1>1, <1>2, <1>4, OneCall

LEMMA EditHolds ==
    ASSUME PInv, Edit, UNCHANGED bsp
    PROVE  PInv'
<1>1. ASSUME NEW g \in Graphs, NEW h, GrewTo(heap[g], h), heap' = [heap EXCEPT ![g] = h],
             UNCHANGED <<repo, exec, checkpoints>>
      PROVE  PInv'
  <2>1. DOMAIN heap = Graphs /\ \A f \in Graphs : heap'[f] = IF f = g THEN h ELSE heap[f]
    BY <1>1 DEF PInv, PObjects
  <2>2. \A f \in Graphs : IsGraph(heap[f]) => GrewTo(heap[f], heap'[f])
    BY <1>1, <2>1 DEF GrewTo
  <2>3. PObjects'
    BY <1>1, <2>1, <2>2 DEF PInv, PObjects, GrewTo
  <2>4. \A e \in Executions : CallHolds(exec[e], bsp[e], heap')
    <3> SUFFICES ASSUME NEW e \in Executions
                 PROVE  CallHolds(exec[e], bsp[e], heap')
      OBVIOUS
    <3>1. bsp[e].graph \in Graphs => GrewTo(heap[bsp[e].graph], heap'[bsp[e].graph])
      BY <2>2 DEF PInv, PObjects
    <3>2. CallHolds(exec[e], bsp[e], heap)
      BY DEF PInv
    <3> QED
      BY <3>1, <3>2, CallStays
  <2> QED
    BY <1>1, <2>3, <2>4 DEF PInv
<1>2. ASSUME NEW g \in Graphs, NEW n \in NodeChoices, AddNode(g, n)
      PROVE  PInv'
  <2>1. GrewTo(heap[g], NodeAdded(heap[g], n))
    BY GraphExecutorAssumption, GraphGrows DEF PInv, PObjects
  <2> QED
    BY <1>1, <1>2, <2>1 DEF AddNode
<1>3. ASSUME NEW g \in Graphs, NEW y \in EdgeChoices, AddEdge(g, y)
      PROVE  PInv'
  <2>1. GrewTo(heap[g], EdgeAdded(heap[g], y))
    BY GraphExecutorAssumption, GraphGrows DEF PInv, PObjects
  <2> QED
    BY <1>1, <1>3, <2>1 DEF AddEdge
<1>4. ASSUME NEW g \in Graphs, SaveGraph(g)
      PROVE  PInv'
  <2>1. Usable(heap[g])
    BY <1>4 DEF SaveGraph, CoreGraphIsValid, GraphIsValid, Usable
  <2> QED
    BY <1>4, <2>1 DEF SaveGraph, PInv, PObjects
<1> QED
  BY <1>2, <1>3, <1>4 DEF Edit

(* The state t over the state s, as Merged lays it *)
Over(s, t) ==
    [status |-> IF t.status = "absent" THEN s.status ELSE t.status,
     error |-> IF t.error = "absent" THEN s.error ELSE t.error,
     by |-> [p \in Processors |-> IF t.by[p] = NoId THEN s.by[p] ELSE t.by[p]]]

LEMMA MergeSteps ==
    ASSUME NEW n \in Nat, NEW seq \in [1 .. n -> States]
    PROVE  \E r \in [0 .. n -> States] :
              /\ r[0] = EmptyState /\ \A k \in 1 .. n : r[k] = Over(r[k - 1], seq[k])
              /\ FoldLeft(Over, EmptyState, seq) = r[n]
<1> DEFINE Solves(h) == h = [s \in SUBSET DOMAIN seq |->
                               IF s = {} THEN EmptyState ELSE Over(h[s \ {Max(s)}], seq[Max(s)])]
           h == CHOOSE k : Solves(k)
           F == [i \in 1 .. n |-> [s \in States |-> Over(s, seq[i])]]
<1>0. EmptyState \in States
  BY DEF EmptyState, States, Ids
<1>1. FoldLeft(Over, EmptyState, seq) = h[DOMAIN seq]
  BY Zenon DEF FoldLeft, MapThenFoldSet
<1>2. DOMAIN seq = 1 .. n
  OBVIOUS
<1>3. F \in [1 .. n -> [States -> States]]
  <2>1. ASSUME NEW s \in States, NEW i \in 1 .. n
        PROVE  Over(s, seq[i]) \in States
    BY DEF States, Over
  <2> QED
    BY <2>1
<1>4. ASSUME NEW h1, NEW s \in SUBSET (1 .. n), s # {}, h1[s \ {Max(s)}] \in States
      PROVE  F[Max(s)][h1[s \ {Max(s)}]] = Over(h1[s \ {Max(s)}], seq[Max(s)])
  <2>1. Max(s) \in 1 .. n
    BY <1>4, GreatestNumber
  <2> QED
    BY <1>4, <2>1
<1> HIDE DEF F
<1>5. Solves(h)
  <2>1. PICK k : FoldsBy(k, States, 1 .. n, EmptyState, F)
    <3> HIDE DEF h, Solves
    <3> QED
      BY <1>0, <1>3, RecursionOnSubsets
  <2>2. ASSUME NEW s \in SUBSET (1 .. n)
        PROVE  k[s] = IF s = {} THEN EmptyState ELSE Over(k[s \ {Max(s)}], seq[Max(s)])
    BY <1>4, <2>1 DEF FoldsBy
  <2>3. k = [s \in SUBSET (1 .. n) |-> k[s]]
    BY <2>1 DEF FoldsBy
  <2>4. Solves(k)
    BY <1>2, <2>2, <2>3
  <2> HIDE DEF Solves
  <2> QED
    BY <2>4, Zenon
<1> HIDE DEF h
<1>6. \A s \in SUBSET (1 .. n) : h[s] = IF s = {} THEN EmptyState ELSE Over(h[s \ {Max(s)}], seq[Max(s)])
  BY <1>2, <1>5
<1>7. PICK r : RowOf(r, States, n, EmptyState, F, h[1 .. n])
  <2>1. h[{}] = EmptyState
    BY <1>6
  <2>2. \A s \in SUBSET (1 .. n) : s # {} /\ h[s \ {Max(s)}] \in States => h[s] = F[Max(s)][h[s \ {Max(s)}]]
    BY <1>4, <1>6
  <2>3. Folding(h, States, 1 .. n, EmptyState, F)
    BY <2>1, <2>2 DEF Folding
  <2> HIDE DEF Solves
  <2> QED
    BY <1>0, <1>3, <2>3, FoldSteps
<1>8. r \in [0 .. n -> States] /\ r[0] = EmptyState /\ r[n] = h[1 .. n]
  BY <1>7 DEF RowOf
<1>9. ASSUME NEW k \in 1 .. n
      PROVE  r[k] = Over(r[k - 1], seq[k])
  <2>1. k - 1 \in 0 .. n
    OBVIOUS
  <2>2. r[k] = F[k][r[k - 1]] /\ r[k - 1] \in States
    BY <1>7, <1>8, <2>1 DEF RowOf
  <2> QED
    BY <2>2 DEF F
<1> QED
  BY <1>1, <1>2, <1>8, <1>9

(* A merged state has a marker if one of the merged states has it, and then that of
   one of them. *)
LEMMA MergedMarkers ==
    ASSUME NEW n \in Nat, NEW seq \in [1 .. n -> States], NEW p \in Processors
    PROVE  LET m == FoldLeft(Over, EmptyState, seq).by[p]
           IN  \/ m = NoId /\ \A i \in 1 .. n : seq[i].by[p] = NoId
               \/ m # NoId /\ \E i \in 1 .. n : seq[i].by[p] = m
<1> DEFINE Fine(k, s) == \/ s.by[p] = NoId /\ \A i \in 1 .. k : seq[i].by[p] = NoId
                         \/ s.by[p] # NoId /\ \E i \in 1 .. k : seq[i].by[p] = s.by[p]
<1>1. PICK r \in [0 .. n -> States] :
              /\ r[0] = EmptyState /\ \A k \in 1 .. n : r[k] = Over(r[k - 1], seq[k])
              /\ FoldLeft(Over, EmptyState, seq) = r[n]
  BY MergeSteps
<1>2. Fine(0, r[0])
  BY <1>1 DEF EmptyState
<1>3. ASSUME NEW k \in 1 .. n, Fine(k - 1, r[k - 1])
      PROVE  Fine(k, r[k])
  <2>1. r[k].by[p] = IF seq[k].by[p] = NoId THEN r[k - 1].by[p] ELSE seq[k].by[p]
    <3>1. r[k] = Over(r[k - 1], seq[k])
      BY <1>1
    <3> QED
      BY <3>1 DEF Over
  <2>2. /\ \A i \in 1 .. k : i = k \/ i \in 1 .. (k - 1)
        /\ \A i \in 1 .. (k - 1) : i \in 1 .. k
        /\ k \in 1 .. k
    OBVIOUS
  <2> QED
    BY <1>3, <2>1, <2>2
<1>4. Fine(n, r[n])
  <2> DEFINE B == {k \in 1 .. n : ~Fine(k, r[k])}
  <2> HIDE DEF Fine
  <2>1. B = {}
    <3> SUFFICES ASSUME B # {}
                 PROVE  FALSE
      OBVIOUS
    <3>1. PICK m \in B : \A j \in B : m <= j
      <4>1. B \in SUBSET (1 .. n)
        OBVIOUS
      <4> HIDE DEF B
      <4> QED
        BY <4>1, LeastNumber
    <3>2. m \in 1 .. n /\ ~Fine(m, r[m])
      OBVIOUS
    <3>3. Fine(m - 1, r[m - 1])
      <4>1. CASE m = 1
        BY <1>2, <4>1
      <4>2. CASE m # 1
        <5>1. m - 1 \in 1 .. n /\ ~ (m <= m - 1)
          BY <3>2, <4>2
        <5> QED
          BY <3>1, <5>1
      <4> QED
        BY <4>1, <4>2
    <3> QED
      BY <1>3, <3>2, <3>3
  <2>2. n = 0 \/ n \in 1 .. n
    OBVIOUS
  <2> QED
    BY <1>2, <2>1, <2>2
<1> QED
  BY <1>1, <1>4, Zenon

LEMMA MergedIsFold ==
    ASSUME NEW states, NEW out \in Merged(states)
    PROVE  \E order \in [1 .. Cardinality(DOMAIN states) -> DOMAIN states] :
              /\ ToSet(order) = DOMAIN states
              /\ out = FoldLeft(Over, EmptyState, [i \in DOMAIN order |-> states[order[i]]])
BY Zenon DEF Merged, Over, FoldLeft, MapThenFoldSet

(* Once every vertex has run, whatever is merged has something of each. *)
LEMMA MergedHasAll ==
    ASSUME NEW b, NEW h, RunIsSound(b, h), IsGraph(h[b.graph]), Keyed(h[b.graph]), b.step # 0,
           NEW out \in Merged(b.states)
    PROVE  OutputHasAll([b EXCEPT !.output = out], h)
<1> DEFINE all == DOMAIN b.states
           n == Cardinality(all)
           g == h[b.graph]
           c == [b EXCEPT !.output = out]
<1>1. n \in Nat
  <2>1. IsFiniteSet(all)
    BY FS_Subset DEF IsGraph, RunIsSound
  <2> QED
    BY <2>1, FS_CardinalityType
<1>2. PICK order \in [1 .. n -> all] :
         /\ ToSet(order) = all
         /\ out = FoldLeft(Over, EmptyState, [i \in DOMAIN order |-> b.states[order[i]]])
  BY MergedIsFold
<1> HIDE DEF n
<1> DEFINE seq == [i \in DOMAIN order |-> b.states[order[i]]]
<1>3. DOMAIN order = 1 .. n /\ \A m \in all : \E i \in 1 .. n : order[i] = m
  BY <1>2 DEF ToSet
<1>4. /\ \A m \in all : Marked(b, g, m) /\ HasRun(b, g, m) /\ m \in DOMAIN g.nodes
      /\ all # {} /\ Usable(g)
  BY DEF RunIsSound
<1>5. seq \in [1 .. n -> States] /\ \A i \in 1 .. n : seq[i] = b.states[order[i]] /\ order[i] \in all
  BY <1>3, <1>4 DEF Marked
<1>6. c.output = out /\ c.states = b.states /\ c.graph = b.graph /\ c.given = b.given
  BY DEF RunIsSound, NoRun
<1>7. out = FoldLeft(Over, EmptyState, seq)
  BY <1>2
<1> HIDE DEF c, seq, g
<1> SUFFICES ASSUME NEW p \in Processors
             PROVE  LET ran == {m \in all : g.nodes[m].type = p}
                        given == b.given.by[p]
                    IN  out.by[p] \in ran \cup (IF ran = {} \/ given # NoId THEN {given} ELSE {})
  BY <1>6 DEF OutputHasAll, g, c
<1>8. \A m \in all : m # NoId
  BY <1>4 DEF Usable, NodeIsValid, Keyed, g
<1>9. \A m \in all : /\ g.nodes[m].type = p => b.states[m].by[p] = m
                     /\ g.nodes[m].type # p => b.states[m].by[p] = b.given.by[p]
  BY <1>4 DEF Marked, HasRun
<1>10. \/ out.by[p] = NoId /\ \A i \in 1 .. n : seq[i].by[p] = NoId
       \/ out.by[p] # NoId /\ \E i \in 1 .. n : seq[i].by[p] = out.by[p]
  BY <1>1, <1>5, <1>7, MergedMarkers
<1>11. CASE out.by[p] = NoId /\ \A i \in 1 .. n : seq[i].by[p] = NoId
  <2>1. \A m \in all : b.states[m].by[p] = NoId
    BY <1>3, <1>5, <1>11
  <2>2. {m \in all : g.nodes[m].type = p} = {}
    BY <1>8, <1>9, <2>1
  <2>3. b.given.by[p] = NoId
    BY <1>4, <1>8, <1>9, <2>1
  <2> QED
    BY <1>11, <2>2, <2>3
<1>12. CASE out.by[p] # NoId /\ \E i \in 1 .. n : seq[i].by[p] = out.by[p]
  <2>1. PICK m \in all : b.states[m].by[p] = out.by[p]
    BY <1>5, <1>12
  <2> QED
    BY <1>9, <1>12, <2>1
<1> QED
  BY <1>10, <1>11, <1>12

LEMMA ReturnHolds ==
    ASSUME PInv, NEW e \in Executions, PregelReturns(e)
    PROVE  PInv'
<1> DEFINE x == exec[e]
           b == bsp[e]
<1>1. DOMAIN exec = Executions /\ DOMAIN bsp = Executions /\ CallHolds(x, b, heap)
  BY DEF PInv
<1>2. x.pc = "run" /\ RunIsSound(b, heap) /\ x.config.maxSteps \in Nat
  BY <1>1 DEF PregelReturns, CallHolds
<1>3. b.step # 0
  <2> SUFFICES ASSUME b.step = 0
               PROVE  FALSE
    OBVIOUS
  <2>1. b.halted = FALSE
    BY <1>1, <1>2 DEF CallHolds
  <2>2. 0 < MaxStepsOrDefault(x.config)
    BY <1>2, GraphExecutorAssumption DEF MaxStepsOrDefault
  <2> QED
    BY <2>1, <2>2 DEF PregelReturns, GoesOn
<1>4. PICK out \in Merged(b.states) : bsp' = [bsp EXCEPT ![e].output = out]
  BY DEF PregelReturns
<1>5. /\ exec' = [exec EXCEPT ![e] = [Idle EXCEPT !.pc = "returned", !.op = exec[e].op,
                                          !.status = "completed", !.steps = exec[e].steps]]
      /\ UNCHANGED <<heap, repo, checkpoints>>
  BY DEF PregelReturns, Return
<1>6. exec'[e].pc = "returned" /\ exec'[e].status = "completed" /\ DOMAIN exec'[e] = DOMAIN Idle
  BY <1>1, <1>5 DEF Idle
<1>7. bsp'[e] = [b EXCEPT !.output = out]
  BY <1>1, <1>4
<1>8. b.graph \in Graphs /\ DOMAIN b.states \subseteq DOMAIN heap[b.graph].nodes
  BY <1>2 DEF RunIsSound
<1>9. IsGraph(heap[b.graph]) /\ Keyed(heap[b.graph])
  BY <1>8 DEF PInv, PObjects
<1>10. OutputHasAll(bsp'[e], heap)
  BY <1>2, <1>3, <1>7, <1>9, MergedHasAll
<1>11. bsp'[e].graph = b.graph /\ bsp'[e].states = b.states
  BY <1>2, <1>7 DEF RunIsSound, NoRun
<1>12. CallHolds(exec'[e], bsp'[e], heap)
  BY <1>6, <1>8, <1>10, <1>11 DEF CallHolds
<1> QED
  BY <1>1, <1>4, <1>5, <1>12, OneCall

LEMMA QuietHolds == ASSUME PInv, UNCHANGED <<heap, repo, exec, checkpoints, bsp>> PROVE PInv'
BY DEF PInv, PObjects

LEMMA PregelStepHolds == ASSUME PInv, [PregelNext]_pregelVars PROVE PInv'
<1>1. ASSUME NEW e \in Executions, PregelRuns(e)
      PROVE  PInv'
  <2>1. CASE StreamerRuns(e) /\ UNCHANGED <<vars, bsp>>
    BY <2>1, QuietHolds DEF vars
  <2> QED
    BY <1>1, <2>1, BeginHolds, EndHolds, FailHolds, ReturnHolds, ComputeHolds DEF PregelRuns
<1>2. ASSUME NEW e \in Executions, PregelCall(e)
      PROVE  PInv'
  BY <1>2, PregelExecuteHolds, PregelResumeHolds DEF PregelCall
<1>3. ASSUME NEW e \in Executions, Stop(e), UNCHANGED <<streamer, bsp>>
      PROVE  PInv'
  BY <1>3, QuietHolds DEF Stop
<1>4. CASE UNCHANGED pregelVars
  BY <1>4, QuietHolds DEF pregelVars, vars
<1> QED
  BY <1>1, <1>2, <1>3, <1>4, EditHolds DEF PregelNext

(* When the Pregel graph executor answers that an execution is completed, every
   node has run and the output has something of every type of node, for any graph
   that may change while it runs, any number of supersteps and any order in which the
   states are merged (Execute, Resume, executeWithPregelEngine).  Of the graphs callers
   begin with it asks that their nodes are kept under their own IDs, as AddNode does. *)
THEOREM OutputsAreComplete == (\A g \in Literals : Keyed(g)) => (PregelSpec => []OutputIsComplete)
<1> SUFFICES ASSUME \A g \in Literals : Keyed(g)
             PROVE  PregelSpec => []OutputIsComplete
  OBVIOUS
<1>1. PregelInit => PInv
  <2> SUFFICES ASSUME PregelInit
               PROVE  PInv
    OBVIOUS
  <2>1. heap \in [Graphs -> Literals]
    BY DEF PregelInit
  <2>2. \A g \in Graphs : IsGraph(heap[g]) /\ Keyed(heap[g])
    BY <2>1, GraphExecutorAssumption
  <2>3. repo # NoGraph => Usable(heap[repo])
    BY DEF PregelInit, CoreGraphIsValid, GraphIsValid, Usable
  <2>4. PObjects
    BY <2>1, <2>2, <2>3 DEF PregelInit, PObjects
  <2>5. \A e \in Executions : CallHolds(exec[e], bsp[e], heap)
    BY IdleHolds DEF PregelInit
  <2> QED
    BY <2>4, <2>5 DEF PregelInit, PInv
<1>2. PInv /\ [PregelNext]_pregelVars => PInv'
  BY PregelStepHolds
<1>3. PInv => OutputIsComplete
  BY DEF PInv, CallHolds, OutputHasAll, OutputIsComplete
<1> QED
  BY <1>1, <1>2, <1>3, PTL DEF PregelSpec

--------------------------------------------------------------------------------
(* MessageAggregator *)

Mail == [from : Vertices, to : Vertices, value : [kind : {"int", "float", "other"}, n : Int]]
MailInv == aggregated \in [Vertices -> Seq(Mail)]

LEMMA MailFields ==
    ASSUME NEW m \in Mail
    PROVE  m.value.n \in Int /\ m.value.kind \in {"int", "float", "other"}
BY DEF Mail

LEMMA OnlyMail == MailSpec => []MailInv
<1>1. MailInit => MailInv
  BY DEF MailInit, MailInv
<1>2. MailInv /\ [MailNext]_aggregated => MailInv'
  <2> SUFFICES ASSUME MailInv, [MailNext]_aggregated
               PROVE  MailInv'
    OBVIOUS
  <2>1. ASSUME NEW from \in Vertices, NEW to \in Vertices, NEW x \in MailValues,
               AddMessage(Message(from, to, x))
        PROVE  MailInv'
    <3> DEFINE m == Message(from, to, x)
    <3>1. m \in Mail /\ m.to = to
      BY MessageAggregatorAssumption DEF Message, Mail
    <3>2. Append(aggregated[to], m) \in Seq(Mail)
      BY <3>1 DEF MailInv
    <3>3. aggregated' = [aggregated EXCEPT ![to] = Append(aggregated[to], m)]
      BY <2>1, <3>1 DEF AddMessage
    <3> HIDE DEF m
    <3> QED
      BY <3>2, <3>3 DEF MailInv
  <2>2. CASE Clear
    BY <2>2 DEF Clear, MailInv
  <2>3. ASSUME NEW v \in Vertices, RemoveMessagesForVertex(v)
        PROVE  MailInv'
    BY <2>3 DEF RemoveMessagesForVertex, MailInv
  <2>4. CASE UNCHANGED aggregated
    BY <2>4 DEF MailInv
  <2> QED
    BY <2>1, <2>2, <2>3, <2>4 DEF MailNext
<1> QED
  BY <1>1, <1>2, PTL DEF MailSpec

Adding(kinds, s, m) == IF m.value.kind \in kinds THEN s + m.value.n ELSE s

(* The number of one message after the other *)
LEMMA TotalSteps ==
    ASSUME NEW kinds, NEW n \in Nat, NEW msgs \in [1 .. n -> Mail]
    PROVE  \E r \in [0 .. n -> Int] :
              /\ r[0] = 0 /\ \A k \in 1 .. n : r[k] = Adding(kinds, r[k - 1], msgs[k])
              /\ Total(msgs, kinds) = r[n]
<1> DEFINE Solves(h) == h = [s \in SUBSET DOMAIN msgs |->
                               IF s = {} THEN 0 ELSE Adding(kinds, h[s \ {Max(s)}], msgs[Max(s)])]
           h == CHOOSE k : Solves(k)
           F == [i \in 1 .. n |-> [s \in Int |-> Adding(kinds, s, msgs[i])]]
<1>0. 0 \in Int
  OBVIOUS
<1>1. Total(msgs, kinds) = h[DOMAIN msgs]
  BY Zenon DEF Total, FoldLeft, MapThenFoldSet, Adding
<1>2. DOMAIN msgs = 1 .. n
  OBVIOUS
<1>3. F \in [1 .. n -> [Int -> Int]]
  <2>1. ASSUME NEW i \in 1 .. n, NEW s \in Int
        PROVE  Adding(kinds, s, msgs[i]) \in Int
    BY MailFields DEF Adding
  <2> QED
    BY <2>1
<1>4. ASSUME NEW h1, NEW s \in SUBSET (1 .. n), s # {}, h1[s \ {Max(s)}] \in Int
      PROVE  F[Max(s)][h1[s \ {Max(s)}]] = Adding(kinds, h1[s \ {Max(s)}], msgs[Max(s)])
  <2>1. Max(s) \in 1 .. n
    BY <1>4, GreatestNumber
  <2> QED
    BY <1>4, <2>1
<1> HIDE DEF F
<1>5. Solves(h)
  <2>1. PICK k : FoldsBy(k, Int, 1 .. n, 0, F)
    <3> HIDE DEF h, Solves
    <3> QED
      BY <1>0, <1>3, RecursionOnSubsets
  <2>2. ASSUME NEW s \in SUBSET (1 .. n)
        PROVE  k[s] = IF s = {} THEN 0 ELSE Adding(kinds, k[s \ {Max(s)}], msgs[Max(s)])
    BY <1>4, <2>1 DEF FoldsBy
  <2>3. k = [s \in SUBSET (1 .. n) |-> k[s]]
    BY <2>1 DEF FoldsBy
  <2>4. Solves(k)
    BY <1>2, <2>2, <2>3
  <2> HIDE DEF Solves
  <2> QED
    BY <2>4, Zenon
<1> HIDE DEF h
<1>6. \A s \in SUBSET (1 .. n) : h[s] = IF s = {} THEN 0 ELSE Adding(kinds, h[s \ {Max(s)}], msgs[Max(s)])
  BY <1>2, <1>5
<1>7. PICK r : RowOf(r, Int, n, 0, F, h[1 .. n])
  <2>1. h[{}] = 0
    BY <1>6
  <2>2. \A s \in SUBSET (1 .. n) : s # {} /\ h[s \ {Max(s)}] \in Int => h[s] = F[Max(s)][h[s \ {Max(s)}]]
    BY <1>4, <1>6
  <2>3. Folding(h, Int, 1 .. n, 0, F)
    BY <2>1, <2>2 DEF Folding
  <2> HIDE DEF Solves
  <2> QED
    BY <1>0, <1>3, <2>3, FoldSteps
<1>8. r \in [0 .. n -> Int] /\ r[0] = 0 /\ r[n] = h[1 .. n]
  BY <1>7 DEF RowOf
<1>9. ASSUME NEW k \in 1 .. n
      PROVE  r[k] = Adding(kinds, r[k - 1], msgs[k])
  <2>1. k - 1 \in 0 .. n
    OBVIOUS
  <2>2. r[k] = F[k][r[k - 1]] /\ r[k - 1] \in Int
    BY <1>7, <1>8, <2>1 DEF RowOf
  <2> QED
    BY <2>2 DEF F
<1> QED
  BY <1>1, <1>2, <1>8, <1>9
(* A message, or the one the search begins with *)
Candidates == [from : Vertices, to : Vertices, value : [kind : {"none", "int", "float", "other"}, n : Int]]
Unfound(msgs) == [msgs[1] EXCEPT !.value = Value("none", Infinity)]
Lower(b, m) == IF m.value.kind \in Numbers /\ m.value.n < b.value.n THEN m ELSE b
Lowest(msgs) == FoldLeft(Lower, Unfound(msgs), msgs)

(* The better of two, one message after the other *)
LEMMA LowerSteps ==
    ASSUME NEW n \in Nat, NEW msgs \in [1 .. n -> Mail], n # 0
    PROVE  \E r \in [0 .. n -> Candidates] :
              /\ r[0] = Unfound(msgs) /\ \A k \in 1 .. n : r[k] = Lower(r[k - 1], msgs[k])
              /\ Lowest(msgs) = r[n]
<1> DEFINE Solves(h) == h = [s \in SUBSET DOMAIN msgs |->
                               IF s = {} THEN Unfound(msgs) ELSE Lower(h[s \ {Max(s)}], msgs[Max(s)])]
           h == CHOOSE k : Solves(k)
           F == [i \in 1 .. n |-> [s \in Candidates |-> Lower(s, msgs[i])]]
<1>0. Unfound(msgs) \in Candidates
  <2>1. msgs[1] \in [from : Vertices, to : Vertices, value : [kind : {"int", "float", "other"}, n : Int]]
    BY DEF Mail
  <2>2. Value("none", Infinity) \in [kind : {"none", "int", "float", "other"}, n : Int]
    BY DEF Value, Infinity
  <2> QED
    BY <2>1, <2>2 DEF Unfound, Candidates
<1>1. Lowest(msgs) = h[DOMAIN msgs]
  BY Zenon DEF Lowest, FoldLeft, MapThenFoldSet
<1>2. DOMAIN msgs = 1 .. n
  OBVIOUS
<1>3. F \in [1 .. n -> [Candidates -> Candidates]]
  <2>1. ASSUME NEW i \in 1 .. n, NEW s \in Candidates
        PROVE  Lower(s, msgs[i]) \in Candidates
    BY DEF Mail, Lower, Candidates
  <2> QED
    BY <2>1
<1>4. ASSUME NEW h1, NEW s \in SUBSET (1 .. n), s # {}, h1[s \ {Max(s)}] \in Candidates
      PROVE  F[Max(s)][h1[s \ {Max(s)}]] = Lower(h1[s \ {Max(s)}], msgs[Max(s)])
  <2>1. Max(s) \in 1 .. n
    BY <1>4, GreatestNumber
  <2> QED
    BY <1>4, <2>1
<1> HIDE DEF F
<1>5. Solves(h)
  <2>1. PICK k : FoldsBy(k, Candidates, 1 .. n, Unfound(msgs), F)
    <3> HIDE DEF h, Solves
    <3> QED
      BY <1>0, <1>3, RecursionOnSubsets
  <2>2. ASSUME NEW s \in SUBSET (1 .. n)
        PROVE  k[s] = IF s = {} THEN Unfound(msgs) ELSE Lower(k[s \ {Max(s)}], msgs[Max(s)])
    BY <1>4, <2>1 DEF FoldsBy
  <2>3. k = [s \in SUBSET (1 .. n) |-> k[s]]
    BY <2>1 DEF FoldsBy
  <2>4. Solves(k)
    BY <1>2, <2>2, <2>3
  <2> HIDE DEF Solves
  <2> QED
    BY <2>4, Zenon
<1> HIDE DEF h
<1>6. \A s \in SUBSET (1 .. n) : h[s] = IF s = {} THEN Unfound(msgs) ELSE Lower(h[s \ {Max(s)}], msgs[Max(s)])
  BY <1>2, <1>5
<1>7. PICK r : RowOf(r, Candidates, n, Unfound(msgs), F, h[1 .. n])
  <2>1. h[{}] = Unfound(msgs)
    BY <1>6
  <2>2. \A s \in SUBSET (1 .. n) : s # {} /\ h[s \ {Max(s)}] \in Candidates => h[s] = F[Max(s)][h[s \ {Max(s)}]]
    BY <1>4, <1>6
  <2>3. Folding(h, Candidates, 1 .. n, Unfound(msgs), F)
    BY <2>1, <2>2 DEF Folding
  <2> HIDE DEF Solves
  <2> QED
    BY <1>0, <1>3, <2>3, FoldSteps
<1>8. r \in [0 .. n -> Candidates] /\ r[0] = Unfound(msgs) /\ r[n] = h[1 .. n]
  BY <1>7 DEF RowOf
<1>9. ASSUME NEW k \in 1 .. n
      PROVE  r[k] = Lower(r[k - 1], msgs[k])
  <2>1. k - 1 \in 0 .. n
    OBVIOUS
  <2>2. r[k] = F[k][r[k - 1]] /\ r[k - 1] \in Candidates
    BY <1>7, <1>8, <2>1 DEF RowOf
  <2> QED
    BY <2>2 DEF F
<1> QED
  BY <1>1, <1>2, <1>8, <1>9

Nearer(d, m) == IF IsFloat(m) /\ m.value.n < d THEN m.value.n ELSE d
Nearest(d, msgs) == FoldLeft(Nearer, d, msgs)

(* The smaller distance, one message after the other *)
LEMMA NearerSteps ==
    ASSUME NEW d \in Int, NEW n \in Nat, NEW msgs \in [1 .. n -> Mail]
    PROVE  \E r \in [0 .. n -> Int] :
              /\ r[0] = d /\ \A k \in 1 .. n : r[k] = Nearer(r[k - 1], msgs[k])
              /\ Nearest(d, msgs) = r[n]
<1> DEFINE Solves(h) == h = [s \in SUBSET DOMAIN msgs |->
                               IF s = {} THEN d ELSE Nearer(h[s \ {Max(s)}], msgs[Max(s)])]
           h == CHOOSE k : Solves(k)
           F == [i \in 1 .. n |-> [s \in Int |-> Nearer(s, msgs[i])]]
<1>0. d \in Int
  OBVIOUS
<1>1. Nearest(d, msgs) = h[DOMAIN msgs]
  BY Zenon DEF Nearest, FoldLeft, MapThenFoldSet
<1>2. DOMAIN msgs = 1 .. n
  OBVIOUS
<1>3. F \in [1 .. n -> [Int -> Int]]
  <2>1. ASSUME NEW i \in 1 .. n, NEW s \in Int
        PROVE  Nearer(s, msgs[i]) \in Int
    BY MailFields DEF Nearer
  <2> QED
    BY <2>1
<1>4. ASSUME NEW h1, NEW s \in SUBSET (1 .. n), s # {}, h1[s \ {Max(s)}] \in Int
      PROVE  F[Max(s)][h1[s \ {Max(s)}]] = Nearer(h1[s \ {Max(s)}], msgs[Max(s)])
  <2>1. Max(s) \in 1 .. n
    BY <1>4, GreatestNumber
  <2> QED
    BY <1>4, <2>1
<1> HIDE DEF F
<1>5. Solves(h)
  <2>1. PICK k : FoldsBy(k, Int, 1 .. n, d, F)
    <3> HIDE DEF h, Solves
    <3> QED
      BY <1>0, <1>3, RecursionOnSubsets
  <2>2. ASSUME NEW s \in SUBSET (1 .. n)
        PROVE  k[s] = IF s = {} THEN d ELSE Nearer(k[s \ {Max(s)}], msgs[Max(s)])
    BY <1>4, <2>1 DEF FoldsBy
  <2>3. k = [s \in SUBSET (1 .. n) |-> k[s]]
    BY <2>1 DEF FoldsBy
  <2>4. Solves(k)
    BY <1>2, <2>2, <2>3
  <2> HIDE DEF Solves
  <2> QED
    BY <2>4, Zenon
<1> HIDE DEF h
<1>6. \A s \in SUBSET (1 .. n) : h[s] = IF s = {} THEN d ELSE Nearer(h[s \ {Max(s)}], msgs[Max(s)])
  BY <1>2, <1>5
<1>7. PICK r : RowOf(r, Int, n, d, F, h[1 .. n])
  <2>1. h[{}] = d
    BY <1>6
  <2>2. \A s \in SUBSET (1 .. n) : s # {} /\ h[s \ {Max(s)}] \in Int => h[s] = F[Max(s)][h[s \ {Max(s)}]]
    BY <1>4, <1>6
  <2>3. Folding(h, Int, 1 .. n, d, F)
    BY <2>1, <2>2 DEF Folding
  <2> HIDE DEF Solves
  <2> QED
    BY <1>0, <1>3, <2>3, FoldSteps
<1>8. r \in [0 .. n -> Int] /\ r[0] = d /\ r[n] = h[1 .. n]
  BY <1>7 DEF RowOf
<1>9. ASSUME NEW k \in 1 .. n
      PROVE  r[k] = Nearer(r[k - 1], msgs[k])
  <2>1. k - 1 \in 0 .. n
    OBVIOUS
  <2>2. r[k] = F[k][r[k - 1]] /\ r[k - 1] \in Int
    BY <1>7, <1>8, <2>1 DEF RowOf
  <2> QED
    BY <2>2 DEF F
<1> QED
  BY <1>1, <1>2, <1>8, <1>9

(* Of floating-point numbers it does not matter whether integers are added, too. *)
LEMMA SumOfFloats ==
    ASSUME NEW n \in Nat, NEW msgs \in [1 .. n -> Mail], \A i \in 1 .. n : IsFloat(msgs[i])
    PROVE  Total(msgs, Numbers) = Total(msgs, {"float"}) /\ Total(msgs, Numbers) \in Int
<1>1. PICK r \in [0 .. n -> Int] :
         /\ r[0] = 0 /\ \A k \in 1 .. n : r[k] = Adding(Numbers, r[k - 1], msgs[k])
         /\ Total(msgs, Numbers) = r[n]
  BY TotalSteps, ZenonT(30)
<1>2. PICK q \in [0 .. n -> Int] :
         /\ q[0] = 0 /\ \A k \in 1 .. n : q[k] = Adding({"float"}, q[k - 1], msgs[k])
         /\ Total(msgs, {"float"}) = q[n]
  BY TotalSteps, ZenonT(30)
<1> DEFINE B == {k \in 0 .. n : r[k] = q[k]}
<1>3. 0 \in B
  BY <1>1, <1>2
<1>4. ASSUME NEW k \in 1 .. n, k - 1 \in B
      PROVE  k \in B
  <2>1. r[k - 1] = q[k - 1] /\ k \in 0 .. n
    BY <1>4
  <2>2. Adding(Numbers, r[k - 1], msgs[k]) = Adding({"float"}, q[k - 1], msgs[k])
    BY <2>1 DEF Adding, Numbers, IsFloat
  <2> QED
    BY <1>1, <1>2, <2>1, <2>2
<1>5. n \in B
  <2> HIDE DEF B
  <2>1. n \in 0 .. n
    OBVIOUS
  <2> QED
    BY <1>3, <1>4, <2>1, UpTo
<1> QED
  BY <1>1, <1>2, <1>5

(* What the combiner for PageRank gives adds up to as much. *)
LEMMA SumIsKept ==
    ASSUME NEW n \in Nat, NEW msgs \in [1 .. n -> Mail], n # 0, \A i \in 1 .. n : IsFloat(msgs[i])
    PROVE  Total(<<SumCombine(msgs)>>, {"float"}) = Total(msgs, {"float"})
<1>1. PICK m : m = SumCombine(msgs)
  OBVIOUS
<1>2. m \in Mail /\ m.value.kind = "float" /\ m.value.n = Total(msgs, Numbers)
  <2>1. Total(msgs, Numbers) \in Int
    BY SumOfFloats
  <2>2. msgs[1] \in Mail
    OBVIOUS
  <2>3. m = [msgs[1] EXCEPT !.value = Value("float", Total(msgs, Numbers))]
    BY <1>1 DEF SumCombine
  <2> QED
    BY <2>1, <2>2, <2>3 DEF Mail, Value
<1>3. PICK r \in [0 .. 1 -> Int] :
         /\ r[0] = 0 /\ \A k \in 1 .. 1 : r[k] = Adding({"float"}, r[k - 1], <<m>>[k])
         /\ Total(<<m>>, {"float"}) = r[1]
  <2>1. <<m>> \in [1 .. 1 -> Mail] /\ 1 \in Nat
    BY <1>2
  <2> QED
    BY <2>1, TotalSteps, ZenonT(30)
<1>4. r[1] = m.value.n
  <2>1. 1 \in 1 .. 1 /\ 1 - 1 = 0 /\ <<m>>[1] = m
    OBVIOUS
  <2>2. r[1] = Adding({"float"}, r[0], m)
    BY <1>3, <2>1
  <2> QED
    BY <1>2, <1>3, <2>2 DEF Adding, Mail
<1>5. Total(msgs, Numbers) = Total(msgs, {"float"})
  BY SumOfFloats
<1> QED
  BY <1>1, <1>2, <1>3, <1>4, <1>5

(* The combiner for shortest paths gives one of the messages, and no other is better,
   unless none is worth anything. *)
LEMMA MinIsOne ==
    ASSUME NEW n \in Nat, NEW msgs \in [1 .. n -> Mail], n # 0, \A i \in 1 .. n : IsFloat(msgs[i])
    PROVE  \E i \in 1 .. n :
              /\ MinCombine(msgs) = msgs[i]
              /\ \A j \in 1 .. n : msgs[i].value.n <= msgs[j].value.n \/ Infinity <= msgs[j].value.n
<1>1. PICK r \in [0 .. n -> Candidates] :
         /\ r[0] = Unfound(msgs) /\ \A k \in 1 .. n : r[k] = Lower(r[k - 1], msgs[k])
         /\ Lowest(msgs) = r[n]
  BY LowerSteps
<1> DEFINE Found(b, k) == /\ \A j \in 1 .. k : b.value.n <= msgs[j].value.n
                          /\ \/ b.value.kind = "none" /\ b.value.n = Infinity
                             \/ \E i \in 1 .. k : b = msgs[i]
           B == {k \in 0 .. n : Found(r[k], k)}
<1>2. 0 \in B
  <2>1. r[0].value = Value("none", Infinity)
    <3>1. msgs[1] \in Mail
      OBVIOUS
    <3> QED
      BY <1>1, <3>1 DEF Unfound, Mail
  <2> QED
    BY <2>1 DEF Value
<1>3. ASSUME NEW k \in 1 .. n, k - 1 \in B
      PROVE  k \in B
  <2>1. k - 1 \in 0 .. n /\ k \in 0 .. n /\ k \in 1 .. k
    OBVIOUS
  <2>2. Found(r[k - 1], k - 1)
    BY <1>3
  <2>3. \A j \in 1 .. k : j \in 1 .. (k - 1) \/ j = k
    OBVIOUS
  <2>4. \A j \in 1 .. (k - 1) : j \in 1 .. k
    OBVIOUS
  <2>5. msgs[k] \in Mail /\ r[k - 1] \in Candidates /\ \A j \in 1 .. k : msgs[j] \in Mail
    BY <2>1
  <2>6. /\ msgs[k].value.n \in Int /\ r[k - 1].value.n \in Int
        /\ \A j \in 1 .. k : msgs[j].value.n \in Int
    BY <2>5, MailFields DEF Candidates
  <2>7. CASE msgs[k].value.n < r[k - 1].value.n
    <3>1. r[k] = msgs[k]
      BY <1>1, <2>7 DEF Lower, Numbers, IsFloat
    <3>2. ASSUME NEW j \in 1 .. k
          PROVE  msgs[k].value.n <= msgs[j].value.n
      <4>1. msgs[j].value.n \in Int
        BY <2>6
      <4>2. j = k \/ r[k - 1].value.n <= msgs[j].value.n
        BY <2>2, <2>3
      <4> QED
        BY <2>6, <2>7, <4>1, <4>2
    <3>3. Found(r[k], k)
      BY <2>1, <3>1, <3>2
    <3> HIDE DEF Found
    <3> QED
      BY <2>1, <3>3
  <2>8. CASE ~ (msgs[k].value.n < r[k - 1].value.n)
    <3>1. r[k] = r[k - 1]
      BY <1>1, <2>8 DEF Lower
    <3>2. \A j \in 1 .. k : r[k - 1].value.n <= msgs[j].value.n
      BY <2>2, <2>3, <2>6, <2>8
    <3>3. Found(r[k], k)
      BY <2>2, <2>4, <3>1, <3>2
    <3> HIDE DEF Found
    <3> QED
      BY <2>1, <3>3
  <2> QED
    BY <2>7, <2>8
<1>4. Found(r[n], n)
  <2> HIDE DEF Found
  <2>1. n \in 0 .. n
    OBVIOUS
  <2>2. n \in B
    <3> HIDE DEF B
    <3> QED
      BY <1>2, <1>3, <2>1, UpTo
  <2> QED
    BY <2>2
<1>5. MinCombine(msgs) = IF r[n].value.kind = "none" THEN msgs[1] ELSE [r[n] EXCEPT !.value.kind = "float"]
  <2>1. MinCombine(msgs) = LET best == Lowest(msgs)
                           IN  IF best.value.kind = "none" THEN msgs[1] ELSE [best EXCEPT !.value.kind = "float"]
    BY Zenon DEF MinCombine, BestOf, Lowest, Lower, Unfound
  <2> QED
    BY <1>1, <2>1
<1>6. CASE r[n].value.kind = "none"
  <2>1. MinCombine(msgs) = msgs[1] /\ 1 \in 1 .. n
    BY <1>5, <1>6
  <2>2. r[n].value.n = Infinity
    BY <1>4, <1>6 DEF IsFloat
  <2> QED
    BY <1>4, <2>1, <2>2
<1>7. CASE r[n].value.kind # "none"
  <2>1. PICK i \in 1 .. n : r[n] = msgs[i]
    BY <1>4, <1>7
  <2>2. [msgs[i] EXCEPT !.value.kind = "float"] = msgs[i]
    BY DEF Mail, IsFloat
  <2> QED
    BY <1>4, <1>5, <1>7, <2>1, <2>2, ZenonT(30)
<1> QED
  BY <1>6, <1>7

(* The nearest distance is one of those there are. *)
LEMMA NearestIsOne ==
    ASSUME NEW d \in Int, NEW n \in Nat, NEW msgs \in [1 .. n -> Mail], \A i \in 1 .. n : IsFloat(msgs[i])
    PROVE  LET x == Nearest(d, msgs)
           IN  /\ x \in Int /\ x <= d /\ \A i \in 1 .. n : x <= msgs[i].value.n
               /\ x = d \/ \E i \in 1 .. n : x = msgs[i].value.n
<1>1. PICK r \in [0 .. n -> Int] :
         /\ r[0] = d /\ \A k \in 1 .. n : r[k] = Nearer(r[k - 1], msgs[k])
         /\ Nearest(d, msgs) = r[n]
  BY NearerSteps
<1> DEFINE Near(x, k) == /\ x <= d /\ \A j \in 1 .. k : x <= msgs[j].value.n
                         /\ x = d \/ \E i \in 1 .. k : x = msgs[i].value.n
           B == {k \in 0 .. n : Near(r[k], k)}
<1>2. 0 \in B
  BY <1>1
<1>3. ASSUME NEW k \in 1 .. n, k - 1 \in B
      PROVE  k \in B
  <2>1. k - 1 \in 0 .. n /\ k \in 0 .. n /\ k \in 1 .. k
    OBVIOUS
  <2>2. Near(r[k - 1], k - 1)
    BY <1>3
  <2>3. \A j \in 1 .. k : j \in 1 .. (k - 1) \/ j = k
    OBVIOUS
  <2>4. \A j \in 1 .. (k - 1) : j \in 1 .. k
    OBVIOUS
  <2>5. msgs[k] \in Mail /\ r[k - 1] \in Int /\ r[k] \in Int /\ \A j \in 1 .. k : msgs[j] \in Mail
    BY <2>1
  <2>6. msgs[k].value.n \in Int /\ \A j \in 1 .. k : msgs[j].value.n \in Int
    BY <2>5, MailFields
  <2>7. r[k] = IF msgs[k].value.n < r[k - 1] THEN msgs[k].value.n ELSE r[k - 1]
    BY <1>1 DEF Nearer
  <2>8. ASSUME NEW j \in 1 .. k
        PROVE  r[k] <= msgs[j].value.n
    <3>1. msgs[j].value.n \in Int
      BY <2>6
    <3>2. j = k \/ r[k - 1] <= msgs[j].value.n
      BY <2>2, <2>3
    <3> QED
      BY <2>5, <2>6, <2>7, <3>1, <3>2
  <2>9. r[k] <= d
    BY <2>2, <2>5, <2>6, <2>7
  <2>10. r[k] = d \/ \E i \in 1 .. k : r[k] = msgs[i].value.n
    BY <2>1, <2>2, <2>4, <2>7
  <2>11. Near(r[k], k)
    BY <2>8, <2>9, <2>10
  <2> HIDE DEF Near
  <2> QED
    BY <2>1, <2>11
<1>4. Near(r[n], n) /\ r[n] \in Int
  <2> HIDE DEF Near
  <2>1. n \in 0 .. n
    OBVIOUS
  <2>2. n \in B
    <3> HIDE DEF B
    <3> QED
      BY <1>2, <1>3, <2>1, UpTo
  <2> QED
    BY <2>1, <2>2
<1> QED
  BY <1>1, <1>4

(* The message that the combiner for shortest paths gives brings as near as all of
   them do, when the distance is no more than the one the search begins with. *)
LEMMA MinIsEnough ==
    ASSUME NEW d \in Int, d <= Infinity,
           NEW n \in Nat, NEW msgs \in [1 .. n -> Mail], n # 0, \A i \in 1 .. n : IsFloat(msgs[i])
    PROVE  Nearest(d, <<MinCombine(msgs)>>) = Nearest(d, msgs)
<1>1. PICK i \in 1 .. n :
         /\ MinCombine(msgs) = msgs[i]
         /\ \A j \in 1 .. n : msgs[i].value.n <= msgs[j].value.n \/ Infinity <= msgs[j].value.n
  BY MinIsOne
<1>2. /\ Nearest(d, msgs) \in Int /\ Nearest(d, msgs) <= d
      /\ \A j \in 1 .. n : Nearest(d, msgs) <= msgs[j].value.n
      /\ Nearest(d, msgs) = d \/ \E j \in 1 .. n : Nearest(d, msgs) = msgs[j].value.n
  BY NearestIsOne
<1> DEFINE one == <<msgs[i]>>
<1>3. /\ Nearest(d, one) \in Int /\ Nearest(d, one) <= d /\ Nearest(d, one) <= msgs[i].value.n
      /\ Nearest(d, one) = d \/ Nearest(d, one) = msgs[i].value.n
  <2>1. one \in [1 .. 1 -> Mail] /\ 1 \in Nat /\ (\A j \in 1 .. 1 : IsFloat(one[j]))
        /\ one[1] = msgs[i] /\ 1 \in 1 .. 1 /\ \A j \in 1 .. 1 : j = 1
    OBVIOUS
  <2> HIDE DEF one
  <2>2. /\ Nearest(d, one) \in Int /\ Nearest(d, one) <= d
        /\ \A j \in 1 .. 1 : Nearest(d, one) <= one[j].value.n
        /\ Nearest(d, one) = d \/ \E j \in 1 .. 1 : Nearest(d, one) = one[j].value.n
    BY <2>1, NearestIsOne
  <2> QED
    BY <2>1, <2>2
<1>4. \A j \in 1 .. n : msgs[j].value.n \in Int
  BY MailFields
<1>5. Nearest(d, msgs) <= Nearest(d, one)
  BY <1>2, <1>3, <1>4
<1>6. Nearest(d, one) <= Nearest(d, msgs)
  <2>1. CASE Nearest(d, msgs) = d
    BY <1>3, <2>1
  <2>2. ASSUME NEW j \in 1 .. n, Nearest(d, msgs) = msgs[j].value.n
        PROVE  Nearest(d, one) <= Nearest(d, msgs)
    <3>1. msgs[i].value.n <= msgs[j].value.n \/ Infinity <= msgs[j].value.n
      BY <1>1
    <3> QED
      BY <1>3, <1>4, <2>2, <3>1 DEF Infinity
  <2> QED
    BY <1>2, <2>1, <2>2
<1> QED
  BY <1>1, <1>2, <1>3, <1>5, <1>6

LEMMA SumIsTransparent ==
    ASSUME NEW n \in Nat, NEW msgs \in [1 .. n -> Mail], n > 1, \A i \in 1 .. n : IsFloat(msgs[i]),
           NEW v, NEW s
    PROVE  Compute("rank", v, s, Combined("sum", msgs)) = Compute("rank", v, s, msgs)
<1>1. Combined("sum", msgs) = <<SumCombine(msgs)>>
  <2>1. Len(msgs) = n
    OBVIOUS
  <2> QED
    BY <2>1 DEF Combined
<1>2. Total(<<SumCombine(msgs)>>, {"float"}) = Total(msgs, {"float"})
  BY SumIsKept
<1>3. \A ms : Compute("rank", v, s, ms) = PageRank(v, s, ms)
  BY DEF Compute
<1>4. PageRank(v, s, <<SumCombine(msgs)>>) = PageRank(v, s, msgs)
  BY <1>2, Zenon DEF PageRank
<1> QED
  BY <1>1, <1>3, <1>4

LEMMA MinIsTransparent ==
    ASSUME NEW n \in Nat, NEW msgs \in [1 .. n -> Mail], n > 1, \A i \in 1 .. n : IsFloat(msgs[i]),
           NEW v, NEW s \in ProgramStates["path"]
    PROVE  Compute("path", v, s, Combined("min", msgs)) = Compute("path", v, s, msgs)
<1>1. Combined("min", msgs) = <<MinCombine(msgs)>>
  <2>1. Len(msgs) = n
    OBVIOUS
  <2> QED
    BY <2>1 DEF Combined
<1>2. \A ms : Compute("path", v, s, ms) = ShortestPath(v, s, ms)
  BY DEF Compute
<1> DEFINE found == Lookup(s, "distance", Infinity)
           current == IF v = SourceVertex /\ found = Infinity THEN 0 ELSE found
<1>3. current \in Int /\ current <= Infinity
  <2>1. found \in Int /\ found <= Infinity
    BY MessageAggregatorAssumption
  <2> QED
    BY <2>1 DEF Infinity
<1>4. Nearest(current, <<MinCombine(msgs)>>) = Nearest(current, msgs)
  <2> HIDE DEF current
  <2> QED
    BY <1>3, MinIsEnough
<1>5. msgs # <<>> /\ <<MinCombine(msgs)>> # <<>>
  OBVIOUS
<1>6. ShortestPath(v, s, <<MinCombine(msgs)>>) = ShortestPath(v, s, msgs)
  BY <1>4, <1>5, Zenon DEF ShortestPath, Nearest, Nearer
<1> QED
  BY <1>1, <1>2, <1>6

(* The counter only counts its messages. *)
LEMMA CounterIsTransparent ==
    ASSUME NEW v, NEW s, NEW ms, NEW msgs
    PROVE  LET one == Compute("counter", v, s, ms)
               all == Compute("counter", v, s, msgs)
           IN  <<one.halt, one.sent>> = <<all.halt, all.sent>> /\ one.state["count"] = all.state["count"]
<1>1. \A ls : Compute("counter", v, s, ls) = Counter(v, s, ls)
  BY DEF Compute
<1>2. \A ls : Counter(v, s, ls).state["count"] = Lookup(s, "count", 0) + 1
  BY DEF Counter, Outcome
<1>3. Counter(v, s, ms).halt = Counter(v, s, msgs).halt /\ Counter(v, s, ms).sent = Counter(v, s, msgs).sent
  BY DEF Counter, Outcome
<1> QED
  BY <1>1, <1>2, <1>3

(* Whatever was sent, to whom and in whatever order, the programs make of the combined
   messages what they make of all of them (GetMessages, Combine and Compute). *)
THEOREM CombiningChangesNothing == MailSpec => []CombiningIsTransparent
<1>1. MailInv => CombiningIsTransparent
  <2> SUFFICES ASSUME MailInv, NEW v \in Vertices
               PROVE  LET raw == aggregated[v]
                          same(program, combiner) ==
                              \A s \in ProgramStates[program] :
                                  Compute(program, v, s, GetMessages(combiner, v)) = Compute(program, v, s, raw)
                      IN  /\ (\A i \in DOMAIN raw : IsFloat(raw[i]))
                             => same("rank", "sum") /\ same("path", "min")
                          /\ \A combiner \in Combiners, s \in ProgramStates["counter"] :
                                LET one == Compute("counter", v, s, GetMessages(combiner, v))
                                    all == Compute("counter", v, s, raw)
                                IN  /\ <<one.halt, one.sent>> = <<all.halt, all.sent>>
                                    /\ one.state["count"] = all.state["count"]
    BY DEF CombiningIsTransparent
  <2> DEFINE raw == aggregated[v]
             n == Len(raw)
  <2>1. raw \in Seq(Mail)
    BY DEF MailInv
  <2>2. n \in Nat /\ raw \in [1 .. n -> Mail] /\ DOMAIN raw = 1 .. n
    <3> HIDE DEF raw
    <3> QED
      BY <2>1
  <2>3. ASSUME n <= 1, NEW combiner
        PROVE  GetMessages(combiner, v) = raw
    BY <2>3 DEF GetMessages, Combined
  <2>4. \A combiner : GetMessages(combiner, v) = Combined(combiner, raw)
    BY DEF GetMessages
  <2> HIDE DEF raw
  <2>5. ASSUME \A i \in DOMAIN raw : IsFloat(raw[i]), NEW s
        PROVE  Compute("rank", v, s, GetMessages("sum", v)) = Compute("rank", v, s, raw)
    <3>1. CASE n <= 1
      BY <2>3, <3>1
    <3>2. CASE n > 1
      <4> HIDE DEF n
      <4> QED
        BY <2>2, <2>4, <2>5, <3>2, SumIsTransparent
    <3> QED
      BY <2>2, <3>1, <3>2
  <2>6. ASSUME \A i \in DOMAIN raw : IsFloat(raw[i]), NEW s \in ProgramStates["path"]
        PROVE  Compute("path", v, s, GetMessages("min", v)) = Compute("path", v, s, raw)
    <3>1. CASE n <= 1
      BY <2>3, <3>1
    <3>2. CASE n > 1
      <4> HIDE DEF n
      <4> QED
        BY <2>2, <2>4, <2>6, <3>2, MinIsTransparent
    <3> QED
      BY <2>2, <3>1, <3>2
  <2>7. ASSUME NEW combiner, NEW s
        PROVE  LET one == Compute("counter", v, s, GetMessages(combiner, v))
                   all == Compute("counter", v, s, raw)
               IN  <<one.halt, one.sent>> = <<all.halt, all.sent>> /\ one.state["count"] = all.state["count"]
    BY CounterIsTransparent
  <2> QED
    BY <2>5, <2>6, <2>7, Zenon DEF raw
<1> QED
  BY <1>1, OnlyMail, PTL
================================================================================
