---------------------------- MODULE InterruptManager ----------------------------
(***************************************************************************)
(* InterruptManager (internal/app/usecases/interrupt_manager.go): a graph  *)
(* execution asks for a person's answer and waits for it on a channel of   *)
(* capacity one.                                                           *)
(*                                                                         *)
(* The mutex guards the table of interrupts only: an answer tests and      *)
(* changes the interrupt it has found there without it.  Of the strings    *)
(* that race, "approved" and "rejected" have the same length and a mixture *)
(* of either with "pending" is not "pending", so a torn read decides like  *)
(* a whole one.  Nothing in src/ receives from the channel yet; TakeAnswer  *)
(* stands for the caller that does.                                        *)
(***************************************************************************)
EXTENDS Sequences, FiniteSets

CONSTANTS
    Interrupts,
    Responders, Nobody     \* the calls of RespondToInterrupt

ASSUME InterruptAssumption == Nobody \notin Responders

VARIABLES
    interrupt,     \* interrupt[i]: its InterruptContext, its checkpoint, and the history
                   \* `delivered' of what was sent on its channel
    answer         \* answer[r]: the call of r, and the history `after': who had been told
                   \* before it began that the answer was accepted

interruptVars == <<interrupt, answer>>

NoInterrupt == [status |-> "none", saved |-> FALSE, recorded |-> Nobody,
                channel |-> <<>>, delivered |-> <<>>]
NoAnswer == [at |-> "idle", to |-> "none", approved |-> FALSE, after |-> {}]

InterruptInit ==
    /\ interrupt = [i \in Interrupts |-> NoInterrupt]
    /\ answer = [r \in Responders |-> NoAnswer]

(* RequestInterrupt: a checkpoint first; without one the request fails *)
SaveInterrupt(i) ==
    /\ interrupt[i].status = "none" /\ ~interrupt[i].saved
    /\ interrupt' = [interrupt EXCEPT ![i].saved = TRUE]
    /\ UNCHANGED answer

RegisterInterrupt(i) ==
    /\ interrupt[i].status = "none" /\ interrupt[i].saved
    /\ interrupt' = [interrupt EXCEPT ![i].status = "pending"]
    /\ UNCHANGED answer

(* RespondToInterrupt: the table is read under the lock ... *)
FindInterrupt(r, i, approved) ==
    /\ answer[r].at = "idle"
    /\ answer' = [answer EXCEPT ![r] =
          [at |-> IF interrupt[i].status = "none" THEN "refused" ELSE "found",
           to |-> i, approved |-> approved,
           after |-> {q \in Responders : answer[q].at = "accepted" /\ answer[q].to = i}]]
    /\ UNCHANGED interrupt

(* Mutant: an interrupt that was answered is answered again *)
CheckPending_Any(r) ==
    /\ answer[r].at = "found"
    /\ answer' = [answer EXCEPT ![r].at = "record"]
    /\ UNCHANGED interrupt

(* ... its status without it ... *)
CheckPending(r) ==
    /\ answer[r].at = "found"
    /\ answer' = [answer EXCEPT ![r].at =
          IF interrupt[answer[r].to].status = "pending" THEN "record" ELSE "refused"]
    /\ UNCHANGED interrupt

RecordAnswer(r) ==
    /\ answer[r].at = "record"
    /\ interrupt' = [interrupt EXCEPT ![answer[r].to].recorded = r]
    /\ answer' = [answer EXCEPT ![r].at = "decide"]

Decide(r) ==
    /\ answer[r].at = "decide"
    /\ interrupt' = [interrupt EXCEPT ![answer[r].to].status =
                         IF answer[r].approved THEN "approved" ELSE "rejected"]
    /\ answer' = [answer EXCEPT ![r].at = "deliver"]

(* ... and an answer that finds the channel full is dropped, and accepted *)
Deliver(r) ==
    LET i == answer[r].to IN
    /\ answer[r].at = "deliver"
    /\ interrupt' = IF interrupt[i].channel = <<>>
                    THEN [interrupt EXCEPT ![i].channel = <<r>>, ![i].delivered = Append(@, r)]
                    ELSE interrupt
    /\ answer' = [answer EXCEPT ![r].at = "accepted"]

(* whoever waits for the answer *)
TakeAnswer(i) ==
    /\ interrupt[i].channel # <<>>
    /\ interrupt' = [interrupt EXCEPT ![i].channel = <<>>]
    /\ UNCHANGED answer

InterruptNext ==
    \/ \E i \in Interrupts : SaveInterrupt(i) \/ RegisterInterrupt(i) \/ TakeAnswer(i)
    \/ \E r \in Responders :
          \/ \E i \in Interrupts, approved \in BOOLEAN : FindInterrupt(r, i, approved)
          \/ CheckPending(r) \/ RecordAnswer(r) \/ Decide(r) \/ Deliver(r)

InterruptSpec == InterruptInit /\ [][InterruptNext]_interruptVars

--------------------------------------------------------------------------------
(* Properties *)

AnswersTo(i, states) == {r \in Responders : answer[r].to = i /\ answer[r].at \in states}
UnderWay == {"record", "decide", "deliver"}

(* An interrupt is answered once, except by calls that overlap: a call that begins
   after another was accepted is refused.  An accepted answer has reached the channel
   or found there one that was accepted too; and if no other got past the status
   check, then it is the answer that is recorded, decides the status and is
   delivered.  Answers that overlap may be recorded in one order and decide and be
   delivered in another (RespondToInterrupt). *)
RespondOnce ==
    /\ \A r \in Responders : answer[r].at \in UnderWay \cup {"accepted"} => answer[r].after = {}
    /\ \A i \in Interrupts :
          /\ interrupt[i].status # "none" => interrupt[i].saved
          /\ AnswersTo(i, {"accepted"}) # {} => interrupt[i].delivered # <<>>
          /\ \A r \in AnswersTo(i, {"accepted"}) :
                AnswersTo(i, UnderWay \cup {"accepted"}) = {r} =>
                    /\ interrupt[i].recorded = r /\ interrupt[i].delivered = <<r>>
                    /\ interrupt[i].status = IF answer[r].approved THEN "approved" ELSE "rejected"

--------------------------------------------------------------------------------
(* The inductive invariant *)

InterruptContext == [status : {"none", "pending", "approved", "rejected"}, saved : BOOLEAN,
                     recorded : Responders \cup {Nobody},
                     channel : Seq(Responders), delivered : Seq(Responders)]
AnswerCall == [at : {"idle", "found", "refused", "accepted"} \cup UnderWay,
               to : Interrupts \cup {"none"}, approved : BOOLEAN, after : SUBSET Responders]

InterruptTypes ==
    /\ interrupt \in [Interrupts -> InterruptContext]
    /\ answer \in [Responders -> AnswerCall]
    /\ \A r \in Responders : answer[r].at # "idle" => answer[r].to \in Interrupts

(* An interrupt that was decided stays so, and who was told before a call began had
   decided it. *)
Decided ==
    \A r \in Responders :
        /\ answer[r].at \in {"deliver", "accepted"} =>
              interrupt[answer[r].to].status \in {"approved", "rejected"}
        /\ \A q \in answer[r].after : answer[q].at = "accepted" /\ answer[q].to = answer[r].to
        /\ answer[r].at \in UnderWay \cup {"accepted"} =>
              answer[r].after = {} /\ interrupt[answer[r].to].status # "none"
        /\ answer[r].at = "found" => interrupt[answer[r].to].status # "none"

(* What is on the channel, or was, are accepted answers. *)
DeliveredAccepted ==
    \A i \in Interrupts :
        /\ interrupt[i].channel # <<>> => interrupt[i].delivered # <<>>
        /\ \A n \in DOMAIN interrupt[i].delivered : interrupt[i].delivered[n] \in AnswersTo(i, {"accepted"})

(* An answer that no other overlaps, from one of its steps to the next *)
Alone ==
    \A i \in Interrupts : \A r \in AnswersTo(i, UnderWay \cup {"accepted"}) :
        AnswersTo(i, UnderWay \cup {"accepted"}) = {r} =>
            /\ answer[r].at # "record" => interrupt[i].recorded = r
            /\ answer[r].at \in {"deliver", "accepted"} =>
                  interrupt[i].status = IF answer[r].approved THEN "approved" ELSE "rejected"
            /\ answer[r].at = "accepted" => interrupt[i].delivered = <<r>>

InterruptInv == InterruptTypes /\ Decided /\ DeliveredAccepted /\ Alone /\ RespondOnce
================================================================================
