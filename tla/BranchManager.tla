----------------------------- MODULE BranchManager -----------------------------
(***************************************************************************)
(* Join points of BranchManager (internal/app/usecases/branch_manager.go): *)
(* branches that run in parallel report their end with CompleteBranch, and *)
(* a join point calls its completion handler when its strategy says so.    *)
(*                                                                         *)
(* CompleteBranch takes the mutex three times: to mark the branch, to add  *)
(* it to the join point and evaluate the strategy, and to finalize the     *)
(* join point; it then calls the handler without the mutex.  Other callers,*)
(* the timeout goroutine, CancelBranch and CleanupCompletedBranches run in *)
(* between.  The join points of a manager share only the mutex, so there   *)
(* is one here.  Its branches are those the caller names in CreateJoinPoint*)
(* and whose JoinPointID it sets (no code under src/ does that).           *)
(***************************************************************************)
EXTENDS Integers, Sequences, FiniteSets

CONSTANTS
    Callers,     \* the goroutines that call CompleteBranch
    Branches, NoBranch,
    Strategies,  \* the strategies to choose from
    MayTimeOut,  \* the join point may be created with a timeout
    MayCancel,   \* CancelBranch and CleanupCompletedBranches may be called
    Reports      \* bound on the reports of one branch

AllStrategies == {"wait_all", "wait_any", "wait_first", "timeout"}

ASSUME BranchAssumption ==
    /\ IsFiniteSet(Branches)
    /\ NoBranch \notin Branches
    /\ Strategies \subseteq AllStrategies
    /\ {MayTimeOut, MayCancel} \subseteq BOOLEAN
    /\ Reports \in Nat

VARIABLES
    status,     \* status[b] of the branch execution, "absent" outside activeBranches
    join,       \* the join point: its Status ("none" before it exists), Strategy, ...
    caller,     \* caller[p]: where p is in CompleteBranch, and for which branch
    reports,    \* how often CompleteBranch was called for each branch
    handled     \* how often OnCompletion was called

vars == <<status, join, caller, reports, handled>>

Idle == [at |-> "idle", branch |-> NoBranch]

Init ==
    /\ status = [b \in Branches |-> "absent"]
    /\ join = [status |-> "none", strategy |-> "wait_all", timeout |-> FALSE,
               expected |-> {}, completed |-> <<>>, results |-> {}]
    /\ caller = [p \in Callers |-> Idle]
    /\ reports = [b \in Branches |-> 0]
    /\ handled = 0

(* CreateBranch, when its condition is met; the ID is new *)
CreateBranch(b) ==
    /\ status[b] = "absent" /\ reports[b] = 0 /\ join.status = "none"
    /\ status' = [status EXCEPT ![b] = "pending"]
    /\ UNCHANGED <<join, caller, reports, handled>>

CreateJoinPoint(expected, s, t) ==
    /\ join.status = "none"
    /\ expected # {} /\ \A b \in expected : status[b] # "absent"
    /\ join' = [join EXCEPT !.status = "waiting", !.strategy = s, !.timeout = t,
                            !.expected = expected]
    /\ UNCHANGED <<status, caller, reports, handled>>

At(p, place) == caller[p].at = place
Goto(p, place) == caller' = [caller EXCEPT ![p].at = place]
Return(p) == caller' = [caller EXCEPT ![p] = Idle]

(* Mutant: the branch is not looked up among those of the join point *)
CompleteAnyBranch(p, b, failed) ==
    /\ At(p, "idle") /\ status[b] # "absent" /\ reports[b] < Reports
    /\ status' = [status EXCEPT ![b] = IF failed THEN "failed" ELSE "completed"]
    /\ reports' = [reports EXCEPT ![b] = @ + 1]
    /\ caller' = [caller EXCEPT ![p] = [at |-> "process", branch |-> b]]
    /\ UNCHANGED <<join, handled>>

(* CompleteBranch up to its Unlock; failed: err # nil.  The old status is not looked
   at, so that a branch can be completed again and after it was cancelled. *)
CompleteBranch(p, b, failed) ==
    /\ At(p, "idle") /\ status[b] # "absent" /\ reports[b] < Reports
    /\ status' = [status EXCEPT ![b] = IF failed THEN "failed" ELSE "completed"]
    /\ reports' = [reports EXCEPT ![b] = @ + 1]
    /\ caller' = [caller EXCEPT ![p] =
                    IF b \in join.expected THEN [at |-> "process", branch |-> b] ELSE Idle]
    /\ UNCHANGED <<join, handled>>

(* Mutants: one report too few, one too many *)
evaluateOneLess(j) ==
    IF j.strategy \in {"wait_any", "wait_first"} THEN Len(j.completed) > 0
    ELSE Len(j.completed) + 1 >= Cardinality(j.expected)

evaluateOneMore(j) ==
    IF j.strategy \in {"wait_any", "wait_first"} THEN Len(j.completed) > 0
    ELSE Len(j.completed) > Cardinality(j.expected)

evaluateJoinCondition(j) ==
    IF j.strategy \in {"wait_any", "wait_first"} THEN Len(j.completed) > 0
    ELSE Len(j.completed) >= Cardinality(j.expected)

processBranchCompletion(p) ==
    /\ At(p, "process")
    /\ join' = [join EXCEPT !.completed = Append(@, caller[p].branch),
                            !.results = @ \cup {caller[p].branch}]
    /\ IF evaluateJoinCondition(join') THEN Goto(p, "complete") ELSE Return(p)
    /\ UNCHANGED <<status, reports, handled>>

(* Mutant: the status is not looked at again *)
completeAnyJoinPoint(p) ==
    /\ At(p, "complete")
    /\ join' = [join EXCEPT !.status = "completed"]
    /\ Goto(p, "handler")
    /\ UNCHANGED <<status, reports, handled>>

(* completeJoinPoint up to its Unlock *)
completeJoinPoint(p) ==
    /\ At(p, "complete")
    /\ IF join.status = "waiting"
       THEN /\ join' = [join EXCEPT !.status = "completed"]
            /\ Goto(p, "handler")
       ELSE /\ Return(p)
            /\ UNCHANGED join
    /\ UNCHANGED <<status, reports, handled>>

(* OnCompletion returns *)
OnCompletion(p) ==
    /\ At(p, "handler")
    /\ handled' = handled + 1
    /\ Return(p)
    /\ UNCHANGED <<status, join, reports>>

handleJoinTimeout ==
    /\ join.status = "waiting" /\ join.timeout
    /\ join' = [join EXCEPT !.status = "timeout"]
    /\ UNCHANGED <<status, caller, reports, handled>>

CancelBranch(b) ==
    /\ MayCancel /\ status[b] # "absent"
    /\ status' = [status EXCEPT ![b] = "cancelled"]
    /\ UNCHANGED <<join, caller, reports, handled>>

(* Which finished branches are old enough is up to the clock *)
CleanupCompletedBranches(old) ==
    /\ MayCancel
    /\ old # {} /\ \A b \in old : status[b] \in {"completed", "failed", "cancelled"}
    /\ status' = [b \in Branches |-> IF b \in old THEN "absent" ELSE status[b]]
    /\ UNCHANGED <<join, caller, reports, handled>>

(* What a CompleteBranch under way does next *)
Continue(p) == processBranchCompletion(p) \/ completeJoinPoint(p) \/ OnCompletion(p)

Next ==
    \/ \E b \in Branches : CreateBranch(b) \/ CancelBranch(b)
    \/ \E expected \in SUBSET Branches, s \in Strategies, t \in {FALSE, MayTimeOut} :
          CreateJoinPoint(expected, s, t)
    \/ \E p \in Callers :
          \/ \E b \in Branches, failed \in BOOLEAN : CompleteBranch(p, b, failed)
          \/ Continue(p)
    \/ \E old \in SUBSET Branches : CleanupCompletedBranches(old)
    \/ handleJoinTimeout

Spec == Init /\ [][Next]_vars

(* A call under way goes on (the handler returns), and a timer expires *)
Fairness == WF_vars(handleJoinTimeout) /\ \A p \in Callers : WF_vars(Continue(p))

FairSpec == Spec /\ Fairness

--------------------------------------------------------------------------------
(* Properties *)

TypeOK ==
    /\ status \in [Branches -> {"absent", "pending", "completed", "failed", "cancelled"}]
    /\ join.status \in {"none", "waiting", "completed", "timeout"}
    /\ join.strategy \in AllStrategies /\ join.timeout \in BOOLEAN
    /\ join.expected \subseteq Branches /\ join.results \subseteq join.expected
    /\ join.completed \in Seq(join.expected)
    /\ caller \in [Callers -> [at : {"idle", "process", "complete", "handler"},
                               branch : Branches \cup {NoBranch}]]
    /\ reports \in [Branches -> 0 .. Reports] /\ handled \in 0 .. 1

(* Whatever callers and the timer race, the handler is called exactly once when
   the join point completed and never when it timed out (completeJoinPoint,
   handleJoinTimeout). *)
HandledOnce ==
    handled + Cardinality({p \in Callers : At(p, "handler")})
        = IF join.status = "completed" THEN 1 ELSE 0

(* A join point completes only when the branches its strategy waits for have
   reported, provided that no branch reports twice (evaluateJoinCondition,
   processBranchCompletion).  A branch that does is counted twice, see README. *)
JoinIsComplete ==
    join.status = "completed" /\ (\A b \in Branches : reports[b] <= 1) =>
        /\ join.results # {}
        /\ join.strategy \in {"wait_all", "timeout"} => join.results = join.expected

(* The wait of a join point ends: when CompleteBranch was called for every expected
   branch, although the caller that adds the last report may not be the one that
   finalizes, and with a timeout even if branches are cancelled or never report
   (CompleteBranch, completeJoinPoint, handleJoinTimeout). *)
Reported(b) ==
    b \in join.results \/ \E p \in Callers : At(p, "process") /\ caller[p].branch = b

WaitEnds ==
    (join.status = "waiting" /\ (join.timeout \/ \A b \in join.expected : Reported(b)))
        ~> join.status \in {"completed", "timeout"}

--------------------------------------------------------------------------------
(* The inductive invariant behind TypeOK, HandledOnce and JoinIsComplete *)

JoinPoint == [status : {"none", "waiting", "completed", "timeout"}, strategy : AllStrategies,
              timeout : BOOLEAN, expected : SUBSET Branches, completed : Seq(Branches),
              results : SUBSET Branches]

(* nobody is past the first critical section before the join point exists, and whoever
   is reports an expected branch *)
Expected ==
    /\ join \in JoinPoint
    /\ join.status = "none" => join.expected = {} /\ \A p \in Callers : At(p, "idle")
    /\ join.status # "none" => join.expected # {}
    /\ \A p \in Callers : At(p, "process") => caller[p].branch \in join.expected
    /\ join.results = {join.completed[i] : i \in DOMAIN join.completed}

(* the one call of the handler a completed join point is worth is under way or over *)
Handling ==
    LET handlers == {p \in Callers : At(p, "handler")}
    IN  IF join.status = "completed"
        THEN (handled = 1 /\ handlers = {}) \/ (handled = 0 /\ \E p \in Callers : handlers = {p})
        ELSE handled = 0 /\ handlers = {}

(* a report is counted once: it waits for the second critical section or is in completed *)
CountedOnce ==
    \A b \in Branches :
        /\ reports[b] = 0 => /\ b \notin join.results
                             /\ \A p \in Callers : At(p, "process") => caller[p].branch # b
        /\ reports[b] = 1 =>
              /\ \A i, j \in DOMAIN join.completed :
                    join.completed[i] = b /\ join.completed[j] = b => i = j
              /\ \A p, q \in Callers :
                    /\ At(p, "process") /\ caller[p].branch = b
                    /\ At(q, "process") /\ caller[q].branch = b
                    => p = q
              /\ \A p \in Callers : At(p, "process") /\ caller[p].branch = b
                                        => b \notin join.results

(* the condition that was met once stays so until somebody acts on it *)
ConditionMet ==
    (join.status = "completed" \/ \E p \in Callers : At(p, "complete"))
        => evaluateJoinCondition(join)

Inv == TypeOK /\ Expected /\ Handling /\ CountedOnce /\ ConditionMet

================================================================================
