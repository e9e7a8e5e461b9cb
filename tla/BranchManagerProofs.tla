-------------------------- MODULE BranchManagerProofs ---------------------------
(***************************************************************************)
(* Theorems about the join points, for every set of branches and callers,  *)
(* whether branches are reported twice, cancelled or cleaned up.           *)
(***************************************************************************)
EXTENDS BranchManager, FiniteSetTheorems, TLAPS

USE DEF At, AllStrategies

Places == {"idle", "process", "complete", "handler"}

(* what a call under way leaves of the callers *)
LEMMA CallerMoves ==
    ASSUME TypeOK, NEW p \in Callers, NEW c \in [at : Places, branch : Branches \cup {NoBranch}],
           caller' = [caller EXCEPT ![p] = c]
    PROVE  /\ caller' \in [Callers -> [at : Places, branch : Branches \cup {NoBranch}]]
           /\ caller'[p] = c
           /\ \A q \in Callers : q # p => caller'[q] = caller[q]
BY DEF TypeOK, Places

(* Goto and Return are such moves *)
LEMMA GotoMoves ==
    ASSUME TypeOK, NEW p \in Callers, NEW place \in Places,
           caller' = [caller EXCEPT ![p].at = place]
    PROVE  /\ caller' \in [Callers -> [at : Places, branch : Branches \cup {NoBranch}]]
           /\ caller'[p] = [at |-> place, branch |-> caller[p].branch]
           /\ \A q \in Callers : q # p => caller'[q] = caller[q]
<1>1. caller[p] \in [at : Places, branch : Branches \cup {NoBranch}]
  BY DEF TypeOK, Places
<1>2. [caller[p] EXCEPT !.at = place] = [at |-> place, branch |-> caller[p].branch]
  BY <1>1
<1>3. caller' = [caller EXCEPT ![p] = [at |-> place, branch |-> caller[p].branch]]
  BY <1>2 DEF TypeOK
<1> QED
  BY <1>1, <1>3, CallerMoves

LEMMA ReturnMoves ==
    ASSUME TypeOK, NEW p \in Callers, Return(p)
    PROVE  /\ caller' \in [Callers -> [at : Places, branch : Branches \cup {NoBranch}]]
           /\ caller'[p] = Idle
           /\ \A q \in Callers : q # p => caller'[q] = caller[q]
BY CallerMoves DEF Idle, Places, Return

LEMMA AppendType ==
    ASSUME NEW S, NEW s \in Seq(S), NEW e \in S
    PROVE  Append(s, e) \in Seq(S) /\ Len(Append(s, e)) = Len(s) + 1
OBVIOUS

(* A finite set that a sequence without repetitions is long enough to fill *)
LEMMA Filled ==
    ASSUME NEW S, IsFiniteSet(S), NEW s \in Seq(S), Len(s) >= Cardinality(S),
           \A i, j \in DOMAIN s : s[i] = s[j] => i = j
    PROVE  {s[i] : i \in DOMAIN s} = S
<1> DEFINE D == 1 .. Len(s)
           R == {s[i] : i \in D}
<1>1. Len(s) \in Nat /\ DOMAIN s = D /\ R \subseteq S
  OBVIOUS
<1>2. IsFiniteSet(D) /\ Cardinality(D) = Len(s)
  <2>1. 1 \in Int /\ Len(s) \in Int
    BY <1>1
  <2>2. IsFiniteSet(D) /\ Cardinality(D) = IF 1 > Len(s) THEN 0 ELSE Len(s) - 1 + 1
    BY <2>1, FS_Interval, Zenon
  <2> QED
    BY <1>1, <2>2
<1>3. s \in Bijection(D, R)
  BY <1>1 DEF Bijection, Injection, Surjection, IsInjective
<1>4. IsFiniteSet(R) /\ Cardinality(R) = Len(s)
  BY <1>2, <1>3, FS_Bijection DEF ExistsBijection
<1> QED
  BY <1>1, <1>4, FS_Subset, FS_CardinalityType

LEMMA ExpectedFinite ==
    ASSUME BranchAssumption, join \in JoinPoint
    PROVE  IsFiniteSet(join.expected) /\ Cardinality(join.expected) \in Nat
BY FS_Subset, FS_CardinalityType DEF BranchAssumption, JoinPoint

(* A completed join point has the reports it waits for *)
LEMMA CompleteResults ==
    ASSUME BranchAssumption, Inv
    PROVE  JoinIsComplete
<1> SUFFICES ASSUME join.status = "completed", \A b \in Branches : reports[b] <= 1
             PROVE  /\ join.results # {}
                    /\ join.strategy \in {"wait_all", "timeout"} => join.results = join.expected
  BY DEF JoinIsComplete
<1>1. /\ join.completed \in Seq(join.expected) /\ join.expected \subseteq Branches
      /\ join.results = {join.completed[i] : i \in DOMAIN join.completed}
      /\ evaluateJoinCondition(join)
  BY DEF Inv, TypeOK, Expected, ConditionMet
<1>2. \A i, j \in DOMAIN join.completed : join.completed[i] = join.completed[j] => i = j
  <2> SUFFICES ASSUME NEW i \in DOMAIN join.completed, NEW j \in DOMAIN join.completed,
                      join.completed[i] = join.completed[j]
               PROVE  i = j
    OBVIOUS
  <2> DEFINE b == join.completed[i]
  <2>1. b \in Branches /\ b \in join.results
    BY <1>1
  <2>2. reports[b] \in Nat /\ reports[b] <= 1
    BY <2>1 DEF Inv, TypeOK, BranchAssumption
  <2>3. reports[b] = 1
    BY <2>1, <2>2 DEF Inv, CountedOnce
  <2> QED
    BY <2>1, <2>3 DEF Inv, CountedOnce
<1>3. IsFiniteSet(join.expected) /\ Cardinality(join.expected) \in Nat
  BY ExpectedFinite DEF Inv, Expected
<1>4. CASE join.strategy \in {"wait_all", "timeout"}
  <2>1. Len(join.completed) >= Cardinality(join.expected)
    BY <1>1, <1>4 DEF evaluateJoinCondition
  <2>2. join.results = join.expected
    BY <1>1, <1>2, <1>3, <2>1, Filled
  <2>3. join.expected # {}
    BY DEF Inv, Expected
  <2> QED
    BY <2>2, <2>3
<1>5. CASE join.strategy \in {"wait_any", "wait_first"}
  <2>1. Len(join.completed) > 0
    BY <1>1, <1>5 DEF evaluateJoinCondition
  <2> QED
    BY <1>1, <1>5, <2>1
<1> QED
  BY <1>4, <1>5 DEF Inv, TypeOK
--------------------------------------------------------------------------------
(* The inductive invariant *)

LEMMA InitInv == ASSUME BranchAssumption, Init PROVE Inv
<1>1. /\ join = [status |-> "none", strategy |-> "wait_all", timeout |-> FALSE,
                 expected |-> {}, completed |-> <<>>, results |-> {}]
      /\ \A p \in Callers : caller[p] = Idle
  BY DEF Init
<1>2. TypeOK
  BY <1>1 DEF Init, TypeOK, Idle, BranchAssumption
<1>3. Expected /\ ConditionMet
  BY <1>1 DEF Expected, JoinPoint, ConditionMet, Idle
<1>4. Handling /\ CountedOnce
  BY <1>1 DEF Init, Handling, CountedOnce, Idle
<1> QED
  BY <1>2, <1>3, <1>4 DEF Inv

(* a step that leaves the join point, the callers and the reports alone *)
LEMMA QuietStep ==
    ASSUME Inv, UNCHANGED <<join, caller, reports, handled>>,
           status' \in [Branches -> {"absent", "pending", "completed", "failed", "cancelled"}]
    PROVE  Inv'
<1>1. TypeOK' /\ Expected'
  BY DEF Inv, TypeOK, Expected
<1>2. Handling' /\ CountedOnce' /\ ConditionMet'
  BY DEF Inv, Handling, CountedOnce, ConditionMet
<1> QED
  BY <1>1, <1>2 DEF Inv

LEMMA CreateJoinPointInv ==
    ASSUME BranchAssumption, Inv, NEW expected \in SUBSET Branches, NEW s \in Strategies,
           NEW t \in BOOLEAN, CreateJoinPoint(expected, s, t)
    PROVE  Inv'
<1>1. /\ join.status = "none" /\ join.expected = {} /\ join \in JoinPoint
      /\ \A p \in Callers : At(p, "idle")
      /\ join.completed \in Seq({}) /\ join.results = {}
  BY DEF CreateJoinPoint, Inv, Expected, TypeOK
<1>2. /\ join'.status = "waiting" /\ join'.strategy = s /\ join'.timeout = t
      /\ join'.expected = expected /\ join'.completed = join.completed
      /\ join'.results = join.results /\ join' \in JoinPoint /\ expected # {}
      /\ UNCHANGED <<status, caller, reports, handled>>
  BY <1>1 DEF CreateJoinPoint, JoinPoint, BranchAssumption
<1>3. TypeOK'
  BY <1>1, <1>2 DEF Inv, TypeOK, JoinPoint
<1>4. Expected' /\ ConditionMet'
  BY <1>1, <1>2 DEF Inv, Expected, ConditionMet
<1>5. Handling' /\ CountedOnce'
  BY <1>1, <1>2 DEF Inv, Handling, CountedOnce
<1> QED
  BY <1>3, <1>4, <1>5 DEF Inv

LEMMA CompleteBranchInv ==
    ASSUME BranchAssumption, Inv, NEW p \in Callers, NEW b \in Branches, NEW failed \in BOOLEAN,
           CompleteBranch(p, b, failed)
    PROVE  Inv'
<1>1. /\ At(p, "idle") /\ UNCHANGED <<join, handled>>
      /\ reports[b] \in Nat /\ reports[b] < Reports
      /\ reports' = [reports EXCEPT ![b] = @ + 1]
  BY DEF CompleteBranch, Inv, TypeOK, BranchAssumption
<1>2. /\ caller' \in [Callers -> [at : Places, branch : Branches \cup {NoBranch}]]
      /\ \/ b \in join.expected /\ caller'[p] = [at |-> "process", branch |-> b]
         \/ b \notin join.expected /\ caller'[p] = Idle
      /\ \A q \in Callers : q # p => caller'[q] = caller[q]
  <2>1. /\ [at |-> "process", branch |-> b] \in [at : Places, branch : Branches \cup {NoBranch}]
        /\ Idle \in [at : Places, branch : Branches \cup {NoBranch}]
    BY DEF Places, Idle
  <2> QED
    BY <2>1, CallerMoves DEF CompleteBranch, Inv
<1>3. reports' \in [Branches -> 0 .. Reports]
  BY <1>1 DEF Inv, TypeOK, BranchAssumption
<1>4. TypeOK'
  BY <1>1, <1>2, <1>3 DEF CompleteBranch, Inv, TypeOK, Places
<1>5. Expected'
  BY <1>1, <1>2 DEF Inv, Expected, Idle
<1>6. Handling' /\ ConditionMet'
  BY <1>1, <1>2 DEF Inv, Handling, ConditionMet, Idle
<1>7. CountedOnce'
  <2> SUFFICES ASSUME NEW x \in Branches
               PROVE  /\ reports'[x] = 0 => /\ x \notin join.results
                                           /\ \A q \in Callers : caller'[q].at = "process" => caller'[q].branch # x
                      /\ reports'[x] = 1 =>
                            /\ \A i, j \in DOMAIN join.completed :
                                  join.completed[i] = x /\ join.completed[j] = x => i = j
                            /\ \A q, r \in Callers :
                                  /\ caller'[q].at = "process" /\ caller'[q].branch = x
                                  /\ caller'[r].at = "process" /\ caller'[r].branch = x
                                  => q = r
                            /\ \A q \in Callers : caller'[q].at = "process" /\ caller'[q].branch = x
                                                      => x \notin join.results
    BY <1>1 DEF CountedOnce
  <2>1. CASE x = b
    <3>1. reports'[x] = reports[x] + 1
      BY <1>1, <2>1 DEF Inv, TypeOK
    <3>2. CASE reports[x] = 0
      <4>1. \A i \in DOMAIN join.completed : join.completed[i] # x
        BY <3>2 DEF Inv, CountedOnce, Expected
      <4> QED
        BY <1>1, <1>2, <2>1, <3>1, <3>2, <4>1 DEF Inv, CountedOnce
    <3> QED
      BY <1>1, <2>1, <3>1, <3>2
  <2>2. CASE x # b
    <3>1. reports'[x] = reports[x]
      BY <1>1, <2>2 DEF Inv, TypeOK
    <3> QED
      BY <1>2, <2>2, <3>1 DEF Inv, CountedOnce, Idle
  <2> QED
    BY <2>1, <2>2
<1> QED
  BY <1>4, <1>5, <1>6, <1>7 DEF Inv

(* a report more does not undo the condition of a join point *)
LEMMA ConditionStays ==
    ASSUME BranchAssumption, Inv, join' \in JoinPoint, join'.strategy = join.strategy,
           join'.expected = join.expected, Len(join'.completed) >= Len(join.completed),
           evaluateJoinCondition(join)
    PROVE  evaluateJoinCondition(join')
<1>1. Len(join.completed) \in Nat /\ Len(join'.completed) \in Nat
  BY DEF Inv, Expected, JoinPoint
<1>2. Cardinality(join.expected) \in Nat
  BY ExpectedFinite DEF Inv, Expected
<1> QED
  BY <1>1, <1>2 DEF evaluateJoinCondition

LEMMA processBranchCompletionInv ==
    ASSUME BranchAssumption, Inv, NEW p \in Callers, processBranchCompletion(p)
    PROVE  Inv'
<1> DEFINE b == caller[p].branch
<1>1. At(p, "process") /\ b \in join.expected /\ UNCHANGED <<status, reports, handled>>
  BY DEF processBranchCompletion, Inv, Expected
<1>2. join.expected \subseteq Branches /\ join \in JoinPoint /\ join.completed \in Seq(join.expected)
  BY DEF Inv, Expected, TypeOK
<1>3. /\ join'.completed = Append(join.completed, b) /\ join'.results = join.results \cup {b}
      /\ join'.status = join.status /\ join'.strategy = join.strategy
      /\ join'.timeout = join.timeout /\ join'.expected = join.expected
  BY <1>2 DEF processBranchCompletion, JoinPoint
<1>4. /\ join' \in JoinPoint /\ join'.completed \in Seq(join'.expected)
      /\ Len(join'.completed) = Len(join.completed) + 1
  <2>1. /\ Append(join.completed, b) \in Seq(join.expected)
        /\ Append(join.completed, b) \in Seq(Branches)
        /\ Len(Append(join.completed, b)) = Len(join.completed) + 1
    <3>1. join.completed \in Seq(Branches) /\ b \in Branches
      BY <1>1, <1>2 DEF JoinPoint
    <3> QED
      BY <1>1, <1>2, <3>1, AppendType
  <2>2. join.results \cup {b} \subseteq Branches
    BY <1>1, <1>2 DEF JoinPoint
  <2>3. join' \in JoinPoint
    BY <1>2, <2>1, <2>2 DEF processBranchCompletion, JoinPoint
  <2> QED
    BY <1>3, <2>1, <2>3
<1>5. /\ caller' \in [Callers -> [at : Places, branch : Branches \cup {NoBranch}]]
      /\ \/ caller'[p].at = "complete" /\ evaluateJoinCondition(join')
         \/ caller'[p].at = "idle"
      /\ \A q \in Callers : q # p => caller'[q] = caller[q]
  <2>1. CASE evaluateJoinCondition(join')
    <3>1. "complete" \in Places /\ Goto(p, "complete")
      BY <2>1 DEF processBranchCompletion, Places
    <3>2. TypeOK /\ caller' = [caller EXCEPT ![p].at = "complete"]
      BY <2>1, <3>1 DEF Inv, Goto
    <3>3. /\ caller' \in [Callers -> [at : Places, branch : Branches \cup {NoBranch}]]
          /\ caller'[p] = [at |-> "complete", branch |-> caller[p].branch]
          /\ \A q \in Callers : q # p => caller'[q] = caller[q]
      BY <3>1, <3>2, GotoMoves
    <3> QED
      BY <2>1, <3>3
  <2>2. CASE ~evaluateJoinCondition(join')
    BY <2>2, ReturnMoves DEF processBranchCompletion, Inv, Idle
  <2> QED
    BY <2>1, <2>2
<1>6. TypeOK'
  BY <1>1, <1>2, <1>3, <1>4, <1>5 DEF Inv, TypeOK, Places
<1>7. \A i \in DOMAIN join'.completed :
         \/ i \in DOMAIN join.completed /\ join'.completed[i] = join.completed[i]
         \/ i = Len(join.completed) + 1 /\ join'.completed[i] = b
  BY <1>1, <1>2, <1>3
<1>8. /\ \A i \in DOMAIN join.completed : i \in DOMAIN join'.completed /\ join'.completed[i] = join.completed[i]
      /\ Len(join.completed) + 1 \in DOMAIN join'.completed
      /\ join'.completed[Len(join.completed) + 1] = b
  BY <1>1, <1>2, <1>3
<1> HIDE DEF b
<1>9. Expected'
  <2>1. join'.results = {join'.completed[i] : i \in DOMAIN join'.completed}
    BY <1>3, <1>7, <1>8 DEF Inv, Expected
  <2> QED
    BY <1>1, <1>3, <1>4, <1>5, <2>1 DEF Inv, Expected
<1>10. Handling'
  BY <1>1, <1>3, <1>5, SMTT(20) DEF Inv, Handling
<1>11. ConditionMet'
  <2>1. evaluateJoinCondition(join) => evaluateJoinCondition(join')
    BY <1>2, <1>3, <1>4, ConditionStays DEF JoinPoint
  <2> QED
    BY <1>3, <1>5, <2>1 DEF Inv, ConditionMet
<1>12. CountedOnce'
  <2> SUFFICES ASSUME NEW x \in Branches
               PROVE  /\ reports[x] = 0 => /\ x \notin join'.results
                                          /\ \A q \in Callers : caller'[q].at = "process" => caller'[q].branch # x
                      /\ reports[x] = 1 =>
                            /\ \A i, j \in DOMAIN join'.completed :
                                  join'.completed[i] = x /\ join'.completed[j] = x => i = j
                            /\ \A q, r \in Callers :
                                  /\ caller'[q].at = "process" /\ caller'[q].branch = x
                                  /\ caller'[r].at = "process" /\ caller'[r].branch = x
                                  => q = r
                            /\ \A q \in Callers : caller'[q].at = "process" /\ caller'[q].branch = x
                                                      => x \notin join'.results
    BY <1>1 DEF CountedOnce
  <2>1. \A q \in Callers : caller'[q].at = "process" => q # p /\ caller'[q] = caller[q] /\ caller[q].at = "process"
    BY <1>5
  <2>2. CASE reports[x] = 0
    BY <1>1, <1>3, <2>1, <2>2 DEF Inv, CountedOnce, b
  <2>3. CASE reports[x] = 1 /\ x # b
    BY <1>3, <1>7, <2>1, <2>3 DEF Inv, CountedOnce
  <2>4. CASE reports[x] = 1 /\ x = b
    <3>1. b \notin join.results /\ \A q \in Callers : caller'[q].at = "process" => caller'[q].branch # x
      BY <1>1, <2>1, <2>4 DEF Inv, CountedOnce, b
    <3>2. \A i \in DOMAIN join.completed : join.completed[i] # x
      BY <2>4, <3>1 DEF Inv, Expected
    <3> QED
      BY <1>7, <2>4, <3>1, <3>2
  <2> QED
    BY <2>2, <2>3, <2>4
<1> QED
  BY <1>6, <1>9, <1>10, <1>11, <1>12 DEF Inv

(* a step that changes the status of a join point that waits, and moves one caller from
   "complete", or nobody *)
LEMMA StatusStep ==
    ASSUME Inv, NEW s \in {"completed", "timeout"}, join.status = "waiting",
           join' = [join EXCEPT !.status = s]
    PROVE  /\ join' \in JoinPoint /\ join'.status = s
           /\ join'.completed = join.completed /\ join'.results = join.results
           /\ join'.expected = join.expected /\ join'.timeout = join.timeout
           /\ join'.strategy = join.strategy
BY DEF Inv, Expected, JoinPoint

LEMMA completeJoinPointInv ==
    ASSUME BranchAssumption, Inv, NEW p \in Callers, completeJoinPoint(p)
    PROVE  Inv'
<1>1. At(p, "complete") /\ UNCHANGED <<status, reports, handled>>
  BY DEF completeJoinPoint
<1>2. CASE join.status = "waiting"
  <2>1. join' = [join EXCEPT !.status = "completed"] /\ Goto(p, "handler")
    BY <1>2 DEF completeJoinPoint
  <2>2. /\ join' \in JoinPoint /\ join'.status = "completed"
        /\ join'.completed = join.completed /\ join'.results = join.results
        /\ join'.expected = join.expected /\ join'.timeout = join.timeout
        /\ join'.strategy = join.strategy
    BY <1>2, <2>1, StatusStep
  <2>3. /\ caller' \in [Callers -> [at : Places, branch : Branches \cup {NoBranch}]]
        /\ caller'[p].at = "handler"
        /\ \A q \in Callers : q # p => caller'[q] = caller[q]
    <3>1. "handler" \in Places
      BY DEF Places
    <3>2. TypeOK /\ caller' = [caller EXCEPT ![p].at = "handler"]
      BY <2>1, <3>1 DEF Inv, Goto
    <3>3. /\ caller' \in [Callers -> [at : Places, branch : Branches \cup {NoBranch}]]
          /\ caller'[p] = [at |-> "handler", branch |-> caller[p].branch]
          /\ \A q \in Callers : q # p => caller'[q] = caller[q]
      BY <3>1, <3>2, GotoMoves
    <3> QED
      BY <2>1, <3>3
  <2>4. TypeOK' /\ Expected'
    <3>1. TypeOK'
      BY <1>1, <2>2, <2>3 DEF Inv, TypeOK, Places
    <3>2. Expected'
      BY <1>2, <2>2, <2>3 DEF Inv, Expected
    <3> QED
      BY <3>1, <3>2
  <2>5. Handling'
    BY <1>1, <1>2, <2>2, <2>3 DEF Inv, Handling
  <2>6. CountedOnce' /\ ConditionMet'
    BY <1>1, <2>2, <2>3 DEF Inv, CountedOnce, ConditionMet, evaluateJoinCondition
  <2> QED
    BY <2>4, <2>5, <2>6 DEF Inv
<1>3. CASE join.status # "waiting"
  <2>1. join' = join /\ Return(p)
    BY <1>3 DEF completeJoinPoint
  <2>2. /\ caller' \in [Callers -> [at : Places, branch : Branches \cup {NoBranch}]]
        /\ caller'[p].at = "idle"
        /\ \A q \in Callers : q # p => caller'[q] = caller[q]
    BY <2>1, ReturnMoves DEF Inv, Idle
  <2>3. TypeOK' /\ Expected'
    <3>1. TypeOK'
      BY <1>1, <2>1, <2>2 DEF Inv, TypeOK, Places
    <3>2. Expected'
      BY <1>1, <2>1, <2>2 DEF Inv, Expected
    <3> QED
      BY <3>1, <3>2
  <2>4. Handling' /\ CountedOnce' /\ ConditionMet'
    BY <1>1, <2>1, <2>2 DEF Inv, Handling, CountedOnce, ConditionMet
  <2> QED
    BY <2>3, <2>4 DEF Inv
<1> QED
  BY <1>2, <1>3

LEMMA OnCompletionInv ==
    ASSUME Inv, NEW p \in Callers, OnCompletion(p)
    PROVE  Inv'
<1>1. At(p, "handler") /\ UNCHANGED <<status, join, reports>> /\ handled' = handled + 1
  BY DEF OnCompletion
<1>2. /\ caller' \in [Callers -> [at : Places, branch : Branches \cup {NoBranch}]]
      /\ caller'[p].at = "idle"
      /\ \A q \in Callers : q # p => caller'[q] = caller[q]
  BY ReturnMoves DEF OnCompletion, Inv, Idle
<1>3. join.status = "completed" /\ handled = 0 /\ {q \in Callers : At(q, "handler")} = {p}
  BY <1>1 DEF Inv, Handling
<1>4. Handling' /\ handled' = 1
  BY <1>1, <1>2, <1>3 DEF Handling
<1>5. TypeOK' /\ Expected'
  <2>1. TypeOK'
    BY <1>1, <1>2, <1>4 DEF Inv, TypeOK, Places
  <2>2. Expected'
    BY <1>1, <1>2, <1>3 DEF Inv, Expected
  <2> QED
    BY <2>1, <2>2
<1>6. CountedOnce' /\ ConditionMet'
  BY <1>1, <1>2 DEF Inv, CountedOnce, ConditionMet
<1> QED
  BY <1>4, <1>5, <1>6 DEF Inv

LEMMA TimeoutInv ==
    ASSUME Inv, handleJoinTimeout
    PROVE  Inv'
<1>1. join' = [join EXCEPT !.status = "timeout"] /\ join.status = "waiting"
      /\ UNCHANGED <<status, caller, reports, handled>>
  BY DEF handleJoinTimeout
<1>2. /\ join' \in JoinPoint /\ join'.status = "timeout"
      /\ join'.completed = join.completed /\ join'.results = join.results
      /\ join'.expected = join.expected /\ join'.timeout = join.timeout
      /\ join'.strategy = join.strategy
  BY <1>1, StatusStep
<1>3. TypeOK' /\ Expected'
  BY <1>1, <1>2 DEF Inv, TypeOK, Expected
<1>4. Handling' /\ CountedOnce' /\ ConditionMet'
  BY <1>1, <1>2 DEF Inv, Handling, CountedOnce, ConditionMet, evaluateJoinCondition
<1> QED
  BY <1>3, <1>4 DEF Inv

LEMMA NextInv == ASSUME BranchAssumption, Inv, [Next]_vars PROVE Inv'
<1>1. ASSUME NEW b \in Branches, CreateBranch(b) \/ CancelBranch(b) PROVE Inv'
  BY <1>1, QuietStep DEF CreateBranch, CancelBranch, Inv, TypeOK
<1>2. ASSUME NEW expected \in SUBSET Branches, NEW s \in Strategies, NEW t \in {FALSE, MayTimeOut},
             CreateJoinPoint(expected, s, t)
      PROVE  Inv'
  BY <1>2, CreateJoinPointInv DEF BranchAssumption
<1>3. ASSUME NEW p \in Callers, NEW b \in Branches, NEW failed \in BOOLEAN,
             CompleteBranch(p, b, failed)
      PROVE  Inv'
  BY <1>3, CompleteBranchInv
<1>4. ASSUME NEW p \in Callers, Continue(p) PROVE Inv'
  BY <1>4, processBranchCompletionInv, completeJoinPointInv, OnCompletionInv DEF Continue
<1>5. ASSUME NEW old \in SUBSET Branches, CleanupCompletedBranches(old) PROVE Inv'
  BY <1>5, QuietStep DEF CleanupCompletedBranches, Inv, TypeOK
<1>6. CASE handleJoinTimeout
  BY <1>6, TimeoutInv
<1>7. CASE UNCHANGED vars
  BY <1>7, QuietStep DEF vars, Inv, TypeOK
<1> QED
  BY <1>1, <1>2, <1>3, <1>4, <1>5, <1>6, <1>7 DEF Next

--------------------------------------------------------------------------------
(* The theorems *)

(* Every reachable state satisfies the inductive invariant. *)
THEOREM Invariance == BranchAssumption => (Spec => []Inv)
<1> SUFFICES ASSUME BranchAssumption PROVE Spec => []Inv
  OBVIOUS
<1>1. Init => Inv
  BY InitInv
<1>2. Inv /\ [Next]_vars => Inv'
  BY NextInv
<1> QED
  BY <1>1, <1>2, PTL DEF Spec

(* Every reachable state is well typed; in particular a join point collects reports of
   its own branches only (CompleteBranch, processBranchCompletion). *)
THEOREM TypeCorrect == BranchAssumption => (Spec => []TypeOK)
<1>1. Inv => TypeOK
  BY DEF Inv
<1> QED
  BY <1>1, Invariance, PTL

(* However many callers and the timer race, the completion handler is called exactly
   once when the join point completed, and never when it timed out
   (completeJoinPoint, handleJoinTimeout). *)
THEOREM HandlerRunsOnce == BranchAssumption => (Spec => []HandledOnce)
<1>1. Inv => HandledOnce
  <2> DEFINE handlers == {p \in Callers : At(p, "handler")}
  <2>1. handlers = {} => Cardinality(handlers) = 0
    BY FS_EmptySet
  <2>2. ASSUME NEW p, handlers = {p} PROVE Cardinality(handlers) = 1
    BY <2>2, FS_Singleton
  <2> SUFFICES ASSUME Inv PROVE HandledOnce
    OBVIOUS
  <2>3. IF join.status = "completed"
        THEN (handled = 1 /\ handlers = {}) \/ (handled = 0 /\ \E p \in Callers : handlers = {p})
        ELSE handled = 0 /\ handlers = {}
    BY DEF Inv, Handling
  <2>4. HandledOnce <=> handled + Cardinality(handlers) = IF join.status = "completed" THEN 1 ELSE 0
    BY DEF HandledOnce
  <2> HIDE DEF handlers
  <2> QED
    BY <2>1, <2>2, <2>3, <2>4
<1> QED
  BY <1>1, Invariance, PTL

(* A join point completes only with the reports its strategy waits for, provided that
   no branch reports twice (evaluateJoinCondition, processBranchCompletion). *)
THEOREM JoinWaitsForAll == BranchAssumption => (Spec => []JoinIsComplete)
<1> SUFFICES ASSUME BranchAssumption PROVE Spec => []JoinIsComplete
  OBVIOUS
<1>1. Inv => JoinIsComplete
  BY CompleteResults
<1> QED
  BY <1>1, Invariance, PTL

================================================================================
