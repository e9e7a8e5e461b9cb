--------------------------- MODULE InMemorySaverProofs ---------------------------
(***************************************************************************)
(* Proofs about InMemorySaver: its types and who works on what; that each  *)
(* checkpoint gets and keeps a time to live unless it is torn; and that it *)
(* is accounted for once as long as no ID is saved again.                  *)
(***************************************************************************)
EXTENDS InMemorySaver, SumTheorems

--------------------------------------------------------------------------------
(* One goroutine goes on and the others stay where they are *)

Errands == [at : Places, id : Ids \cup {NoId}, reason : {"none", "asked", "expired", "evicted"}]

Moved(p, place, id, reason) ==
    /\ proc' \in [Goroutines -> Errands]
    /\ proc'[p].at = place /\ proc'[p].id = id /\ proc'[p].reason = reason
    /\ \A q \in Goroutines \ {p} : proc'[q] = proc[q]

LEMMA GotoMoves ==
    ASSUME proc \in [Goroutines -> Errands], NEW p \in Goroutines, NEW place \in Places,
           proc' = [proc EXCEPT ![p].at = place]
    PROVE  Moved(p, place, Id(p), proc[p].reason)
<1> DEFINE r == [proc[p] EXCEPT !.at = place]
<1>1. proc' = [proc EXCEPT ![p] = r]
  OBVIOUS
<1>2. r \in Errands /\ r.at = place /\ r.id = proc[p].id /\ r.reason = proc[p].reason
  <2>1. proc[p] \in Errands
    OBVIOUS
  <2> QED
    BY <2>1 DEF Errands
<1> HIDE DEF r
<1> QED
  BY <1>1, <1>2 DEF Moved, Id

LEMMA CallMoves ==
    ASSUME proc \in [Goroutines -> Errands], NEW p \in Goroutines, NEW place \in Places,
           NEW id \in Ids \cup {NoId}, NEW reason \in {"none", "asked", "expired", "evicted"},
           proc' = [proc EXCEPT ![p] = [at |-> place, id |-> id, reason |-> reason]]
    PROVE  Moved(p, place, id, reason)
<1> DEFINE r == [at |-> place, id |-> id, reason |-> reason]
<1>1. r \in Errands /\ r.at = place /\ r.id = id /\ r.reason = reason
  BY DEF Errands
<1>2. proc' = [proc EXCEPT ![p] = r]
  OBVIOUS
<1> HIDE DEF r
<1> QED
  BY <1>1, <1>2 DEF Moved

LEMMA ReturnMoves ==
    ASSUME proc \in [Goroutines -> Errands], NEW p \in Goroutines, proc' = [proc EXCEPT ![p] = Idle]
    PROVE  Moved(p, "idle", NoId, "none")
<1>1. "idle" \in Places
  BY DEF Places
<1> QED
  BY <1>1, CallMoves DEF Idle

(* What the steps of a goroutine do to it *)
LEMMA Moves ==
    ASSUME Inv, NEW p \in Goroutines
    PROVE  /\ EvictLock(p) => Moved(p, "evicting", Id(p), proc[p].reason)
           /\ EvictOne(p) => \E id \in accessOrder : Stored(id) /\ Moved(p, "delete", id, "evicted")
           /\ EvictNone(p) => Moved(p, "idle", NoId, "none")
           /\ Store(p) => Moved(p, "set ttl", Id(p), proc[p].reason)
           /\ SetTTL(p) => Moved(p, "set order", Id(p), proc[p].reason)
           /\ SetOrder(p) => Moved(p, "add size", Id(p), proc[p].reason)
           /\ AddSize(p) => Moved(p, "idle", NoId, "none")
           /\ LoadAndDelete(p) => Moved(p, IF Stored(Id(p)) THEN "subtract size" ELSE "delete ttl",
                                        Id(p), proc[p].reason)
           /\ SubtractSize(p) => Moved(p, "delete ttl", Id(p), proc[p].reason)
           /\ DeleteTTL(p) => Moved(p, "delete order", Id(p), proc[p].reason)
           /\ DeleteOrder(p) => Moved(p, "idle", NoId, "none")
           /\ CheckTTL(p) => \/ Moved(p, "delete", Id(p), "expired")
                             \/ Moved(p, "touch", Id(p), proc[p].reason)
                             \/ Moved(p, "idle", NoId, "none")
           /\ Touch(p) => Moved(p, "idle", NoId, "none")
<1>1. proc \in [Goroutines -> Errands] /\ accessOrder \subseteq Ids /\ proc[p].id \in Ids \cup {NoId}
  BY DEF Inv, TypeOK, Errands
<1> USE DEF Goto, Return, Call
<1>2. EvictLock(p) => Moved(p, "evicting", Id(p), proc[p].reason)
  <2>1. "evicting" \in Places
    BY DEF Places
  <2> QED
    BY <1>1, <2>1, GotoMoves DEF EvictLock
<1>3. Store(p) => Moved(p, "set ttl", Id(p), proc[p].reason)
  <2>1. "set ttl" \in Places
    BY DEF Places
  <2> QED
    BY <1>1, <2>1, GotoMoves DEF Store
<1>4. SetTTL(p) => Moved(p, "set order", Id(p), proc[p].reason)
  <2>1. "set order" \in Places
    BY DEF Places
  <2> QED
    BY <1>1, <2>1, GotoMoves DEF SetTTL
<1>5. SetOrder(p) => Moved(p, "add size", Id(p), proc[p].reason)
  <2>1. "add size" \in Places
    BY DEF Places
  <2> QED
    BY <1>1, <2>1, GotoMoves DEF SetOrder
<1>6. SubtractSize(p) => Moved(p, "delete ttl", Id(p), proc[p].reason)
  <2>1. "delete ttl" \in Places
    BY DEF Places
  <2> QED
    BY <1>1, <2>1, GotoMoves DEF SubtractSize
<1>7. DeleteTTL(p) => Moved(p, "delete order", Id(p), proc[p].reason)
  <2>1. "delete order" \in Places
    BY DEF Places
  <2> QED
    BY <1>1, <2>1, GotoMoves DEF DeleteTTL
<1>8. EvictNone(p) => Moved(p, "idle", NoId, "none")
  BY <1>1, ReturnMoves DEF EvictNone
<1>9. AddSize(p) => Moved(p, "idle", NoId, "none")
  BY <1>1, ReturnMoves DEF AddSize
<1>10. DeleteOrder(p) => Moved(p, "idle", NoId, "none")
  BY <1>1, ReturnMoves DEF DeleteOrder
<1>11. Touch(p) => Moved(p, "idle", NoId, "none")
  BY <1>1, ReturnMoves DEF Touch
<1>12. EvictOne(p) => \E id \in accessOrder : Stored(id) /\ Moved(p, "delete", id, "evicted")
  <2>1. "delete" \in Places /\ "evicted" \in {"none", "asked", "expired", "evicted"}
    BY DEF Places
  <2> QED
    BY <1>1, <2>1, CallMoves DEF EvictOne
<1>13. LoadAndDelete(p) => Moved(p, IF Stored(Id(p)) THEN "subtract size" ELSE "delete ttl",
                               Id(p), proc[p].reason)
  <2>1. (IF Stored(Id(p)) THEN "subtract size" ELSE "delete ttl") \in Places
    BY DEF Places
  <2> QED
    BY <1>1, <2>1, GotoMoves DEF LoadAndDelete
<1>14. CheckTTL(p) => \/ Moved(p, "delete", Id(p), "expired")
                     \/ Moved(p, "touch", Id(p), proc[p].reason)
                     \/ Moved(p, "idle", NoId, "none")
  <2>1. {"delete", "touch"} \subseteq Places /\ "expired" \in {"none", "asked", "expired", "evicted"}
    BY DEF Places
  <2>2. CASE ttlMap[Id(p)] = "expired"
    BY <1>1, <2>1, <2>2, CallMoves DEF CheckTTL, Id
  <2>3. CASE ttlMap[Id(p)] # "expired"
    BY <1>1, <2>1, <2>3, GotoMoves, ReturnMoves DEF CheckTTL
  <2> QED
    BY <2>2, <2>3
<1> QED
  BY <1>2, <1>3, <1>4, <1>5, <1>6, <1>7, <1>8, <1>9, <1>10, <1>11, <1>12, <1>13, <1>14

LEMMA CallsMove ==
    ASSUME Inv, NEW p \in Procs, NEW id \in Ids
    PROVE  /\ Save(p, id) => \E place \in {"evict", "store"} : Moved(p, place, id, "none")
           /\ Load(p, id) => Moved(p, "check ttl", id, "none")
           /\ Delete(p, id) => Moved(p, "delete", id, "asked")
<1>1. proc \in [Goroutines -> Errands] /\ p \in Goroutines
  BY DEF Inv, TypeOK, Errands, Goroutines
<1>2. {"evict", "store", "check ttl", "delete"} \subseteq Places
  BY DEF Places
<1>3. Save(p, id) => \E place \in {"evict", "store"} : Moved(p, place, id, "none")
  <2> SUFFICES ASSUME Save(p, id)
               PROVE  \E place \in {"evict", "store"} : Moved(p, place, id, "none")
    OBVIOUS
  <2>1. PICK place \in {"evict", "store"} :
            proc' = [proc EXCEPT ![p] = [at |-> place, id |-> id, reason |-> "none"]]
    BY DEF Save, Call
  <2> QED
    BY <1>1, <1>2, <2>1, CallMoves
<1>4. Load(p, id) => Moved(p, "check ttl", id, "none")
  BY <1>1, <1>2, CallMoves DEF Load, Call
<1>5. Delete(p, id) => Moved(p, "delete", id, "asked")
  BY <1>1, <1>2, CallMoves DEF Delete, Call
<1> QED
  BY <1>3, <1>4, <1>5

LEMMA CleanupMoves ==
    ASSUME Inv, CleanupNext
    PROVE  \E id \in expiredKeys : Moved(Cleaner, "delete", id, "expired") /\ expiredKeys' = expiredKeys \ {id}
<1>1. proc \in [Goroutines -> Errands] /\ Cleaner \in Goroutines /\ expiredKeys \subseteq Ids
  BY DEF Inv, TypeOK, Errands, Goroutines
<1>2. "delete" \in Places
  BY DEF Places
<1> QED
  BY <1>1, <1>2, CallMoves DEF CleanupNext, Call

--------------------------------------------------------------------------------
(* The types, and who works on what *)

LEMMA InitInv == SaverAssumption /\ Init => Inv
BY DEF SaverAssumption, Init, Inv, TypeOK, AtWork, Idle, Goroutines, At, Id, Places

(* The types of everything but proc, and who may hold orderMutex next *)
Data ==
    /\ checkpoints \in [Ids -> {"none", "fresh", "old"}]
    /\ ttlMap \in [Ids -> {"none", "fresh", "expired"}]
    /\ accessOrder \subseteq Ids /\ orderOwner \in Procs \cup {NoId}
    /\ currentSize \in Int /\ expiredKeys \subseteq Ids
    /\ saved \in [ids : SUBSET Ids, calls : 0 .. MaxSaves, again : BOOLEAN, torn : SUBSET Ids]

Passes(p, place, reason) ==
    orderOwner' # NoId =>
        \/ orderOwner' = p /\ (place = "evicting" \/ reason = "evicted")
        \/ orderOwner' = orderOwner /\ orderOwner # p

LEMMA MovedInv ==
    ASSUME SaverAssumption, Inv, NEW p \in Goroutines, NEW place, NEW id, NEW reason,
           Moved(p, place, id, reason),
           place # "idle" => id \in Ids,
           p = Cleaner => place \in Deleting \cup {"idle"},
           reason = "evicted" => place \in Deleting,
           Passes(p, place, reason), Data'
    PROVE  Inv'
<1>1. /\ proc' \in [Goroutines -> Errands]
      /\ proc'[p].at = place /\ proc'[p].id = id /\ proc'[p].reason = reason
      /\ \A q \in Goroutines : q # p => proc'[q] = proc[q]
  BY DEF Moved
<1>2. (orderOwner # NoId => /\ orderOwner \in Goroutines
                            /\ proc[orderOwner].at = "evicting" \/ proc[orderOwner].reason = "evicted")
  BY DEF Inv, TypeOK, Goroutines, At
<1>3. /\ \A q \in Goroutines : proc[q].at # "idle" => proc[q].id \in Ids
      /\ Cleaner \in Goroutines /\ proc[Cleaner].at \in Deleting \cup {"idle"}
      /\ \A q \in Goroutines : proc[q].reason = "evicted" => proc[q].at \in Deleting
  BY DEF Inv, AtWork, At, Id, Goroutines
<1>4. orderOwner' # NoId => proc'[orderOwner'].at = "evicting" \/ proc'[orderOwner'].reason = "evicted"
  BY <1>1, <1>2 DEF Passes
<1>5. /\ \A q \in Goroutines : proc'[q].at # "idle" => proc'[q].id \in Ids
      /\ proc'[Cleaner].at \in Deleting \cup {"idle"}
      /\ \A q \in Goroutines : proc'[q].reason = "evicted" => proc'[q].at \in Deleting
  BY <1>1, <1>3
<1> QED
  BY <1>1, <1>4, <1>5 DEF Inv, TypeOK, AtWork, At, Id, Errands, Data

(* Whoever goes on is where it is, with an ID of its own. *)
LEMMA Working ==
    ASSUME SaverAssumption, Inv, NEW p \in Goroutines
    PROVE  /\ Data
           /\ ~At(p, "idle") => Id(p) \in Ids
           /\ p = Cleaner => proc[p].at \in Deleting \cup {"idle"}
           /\ p # Cleaner => p \in Procs
           /\ proc[p].reason = "evicted" => proc[p].at \in Deleting
           /\ orderOwner = p /\ p # NoId => proc[p].at = "evicting" \/ proc[p].reason = "evicted"
BY DEF Inv, TypeOK, AtWork, Data, Goroutines, At

LEMMA NextInv == SaverAssumption /\ Inv /\ [Next]_vars => Inv'
<1> SUFFICES ASSUME SaverAssumption, Inv, [Next]_vars
             PROVE  Inv'
  OBVIOUS
<1>0. /\ Size \in [Ids -> Nat] /\ Cleaner \notin Procs /\ Procs \subseteq Goroutines /\ MaxSaves \in Nat
      /\ Cleaner \in Goroutines
  BY DEF SaverAssumption, Goroutines
<1> USE DEF maps, At
<1>1. ASSUME NEW p \in Procs, NEW id \in Ids, Save(p, id)
      PROVE  Inv'
  <2>1. p \in Goroutines
    BY <1>0, <1>1
  <2> PICK place \in {"evict", "store"} : Moved(p, place, id, "none")
    BY <1>1, CallsMove
  <2>2. Moved(p, place, id, "none")
    OBVIOUS
  <2>3. Data'
    <3>1. saved' \in [ids : SUBSET Ids, calls : 0 .. MaxSaves, again : BOOLEAN, torn : SUBSET Ids]
      <4>1. /\ saved \in [ids : SUBSET Ids, calls : 0 .. MaxSaves, again : BOOLEAN, torn : SUBSET Ids]
            /\ saved.calls < MaxSaves
            /\ saved' = [saved EXCEPT !.ids = @ \cup {id}, !.calls = @ + 1,
                                      !.again = @ \/ id \in saved.ids]
        BY <1>1, <2>1, Working DEF Save, Data
      <4>2. /\ saved.calls + 1 \in 0 .. MaxSaves /\ saved.ids \cup {id} \in SUBSET Ids
            /\ (saved.again \/ id \in saved.ids) \in BOOLEAN
        BY <1>0, <4>1
      <4> QED
        BY <4>1, <4>2
    <3> QED
      BY <1>1, <2>1, <3>1, Working DEF Save, Data
  <2>4. Passes(p, place, "none")
    BY <1>0, <1>1, <2>1, Working DEF Save, Passes, Deleting
  <2>5. /\ place # "idle" => id \in Ids
        /\ p = Cleaner => place \in Deleting \cup {"idle"}
        /\ "none" = "evicted" => place \in Deleting
    BY <1>0, <1>1, <2>1, Working DEF Save, Data, Deleting
  <2> QED
    BY <2>1, <2>2, <2>3, <2>4, <2>5, MovedInv
<1>2. ASSUME NEW p \in Procs, NEW id \in Ids, Load(p, id)
      PROVE  Inv'
  <2>1. p \in Goroutines
    BY <1>0, <1>2
  <2>2. Moved(p, "check ttl", id, "none")
    BY <1>2, <2>1, CallsMove
  <2>3. Data'
    BY <1>0, <1>2, <2>1, Working DEF Load, Data
  <2>4. Passes(p, "check ttl", "none")
    BY <1>0, <1>2, <2>1, Working DEF Load, Passes, Deleting
  <2>5. /\ "check ttl" # "idle" => id \in Ids
        /\ p = Cleaner => "check ttl" \in Deleting \cup {"idle"}
        /\ "none" = "evicted" => "check ttl" \in Deleting
    BY <1>0, <1>2, <2>1, Working DEF Load, Data, Deleting
  <2> QED
    BY <2>1, <2>2, <2>3, <2>4, <2>5, MovedInv
<1>3. ASSUME NEW p \in Procs, NEW id \in Ids, Delete(p, id)
      PROVE  Inv'
  <2>1. p \in Goroutines
    BY <1>0, <1>3
  <2>2. Moved(p, "delete", id, "asked")
    BY <1>3, <2>1, CallsMove
  <2>3. Data'
    BY <1>0, <1>3, <2>1, Working DEF Delete, Data
  <2>4. Passes(p, "delete", "asked")
    BY <1>0, <1>3, <2>1, Working DEF Delete, Passes, Deleting
  <2>5. /\ "delete" # "idle" => id \in Ids
        /\ p = Cleaner => "delete" \in Deleting \cup {"idle"}
        /\ "asked" = "evicted" => "delete" \in Deleting
    BY <1>0, <1>3, <2>1, Working DEF Delete, Data, Deleting
  <2> QED
    BY <2>1, <2>2, <2>3, <2>4, <2>5, MovedInv
<1>4. ASSUME NEW p \in Goroutines, EvictLock(p)
      PROVE  Inv'
  <2>1. p \in Goroutines
    BY <1>0, <1>4
  <2>2. Moved(p, "evicting", Id(p), proc[p].reason)
    BY <1>4, <2>1, Moves
  <2>3. Data'
    BY <1>0, <1>4, <2>1, Working DEF EvictLock, Data, Deleting
  <2>4. Passes(p, "evicting", proc[p].reason)
    BY <1>0, <1>4, <2>1, Working DEF EvictLock, Passes, Deleting
  <2>5. /\ "evicting" # "idle" => Id(p) \in Ids
        /\ p = Cleaner => "evicting" \in Deleting \cup {"idle"}
        /\ proc[p].reason = "evicted" => "evicting" \in Deleting
    BY <1>0, <1>4, <2>1, Working DEF EvictLock, Data, Deleting
  <2> QED
    BY <2>1, <2>2, <2>3, <2>4, <2>5, MovedInv
<1>5. ASSUME NEW p \in Goroutines, EvictOne(p)
      PROVE  Inv'
  <2>1. p \in Goroutines
    BY <1>0, <1>5
  <2> PICK id \in accessOrder : Moved(p, "delete", id, "evicted")
    BY <1>5, Moves
  <2>2. Moved(p, "delete", id, "evicted")
    OBVIOUS
  <2>3. Data'
    BY <1>0, <1>5, <2>1, Working DEF EvictOne, Data
  <2>4. Passes(p, "delete", "evicted")
    BY <1>0, <1>5, <2>1, Working DEF EvictOne, Passes, Deleting
  <2>5. /\ "delete" # "idle" => id \in Ids
        /\ p = Cleaner => "delete" \in Deleting \cup {"idle"}
        /\ "evicted" = "evicted" => "delete" \in Deleting
    BY <1>0, <1>5, <2>1, Working DEF EvictOne, Data, Deleting
  <2> QED
    BY <2>1, <2>2, <2>3, <2>4, <2>5, MovedInv
<1>6. ASSUME NEW p \in Goroutines, EvictNone(p)
      PROVE  Inv'
  <2>1. p \in Goroutines
    BY <1>0, <1>6
  <2>2. Moved(p, "idle", NoId, "none")
    BY <1>6, <2>1, Moves
  <2>3. Data'
    BY <1>0, <1>6, <2>1, Working DEF EvictNone, Data
  <2>4. Passes(p, "idle", "none")
    BY <1>0, <1>6, <2>1, Working DEF EvictNone, Passes, Deleting
  <2>5. /\ "idle" # "idle" => NoId \in Ids
        /\ p = Cleaner => "idle" \in Deleting \cup {"idle"}
        /\ "none" = "evicted" => "idle" \in Deleting
    BY <1>0, <1>6, <2>1, Working DEF EvictNone, Data, Deleting
  <2> QED
    BY <2>1, <2>2, <2>3, <2>4, <2>5, MovedInv
<1>7. ASSUME NEW p \in Goroutines, Store(p)
      PROVE  Inv'
  <2>1. p \in Goroutines
    BY <1>0, <1>7
  <2>2. Moved(p, "set ttl", Id(p), proc[p].reason)
    BY <1>7, <2>1, Moves
  <2>3. Data'
    BY <1>0, <1>7, <2>1, Working DEF Store, Data
  <2>4. Passes(p, "set ttl", proc[p].reason)
    BY <1>0, <1>7, <2>1, Working DEF Store, Passes, Deleting
  <2>5. /\ "set ttl" # "idle" => Id(p) \in Ids
        /\ p = Cleaner => "set ttl" \in Deleting \cup {"idle"}
        /\ proc[p].reason = "evicted" => "set ttl" \in Deleting
    BY <1>0, <1>7, <2>1, Working DEF Store, Data, Deleting
  <2> QED
    BY <2>1, <2>2, <2>3, <2>4, <2>5, MovedInv
<1>8. ASSUME NEW p \in Goroutines, SetTTL(p)
      PROVE  Inv'
  <2>1. p \in Goroutines
    BY <1>0, <1>8
  <2>2. Moved(p, "set order", Id(p), proc[p].reason)
    BY <1>8, <2>1, Moves
  <2>3. Data'
    BY <1>0, <1>8, <2>1, Working DEF SetTTL, Data
  <2>4. Passes(p, "set order", proc[p].reason)
    BY <1>0, <1>8, <2>1, Working DEF SetTTL, Passes, Deleting
  <2>5. /\ "set order" # "idle" => Id(p) \in Ids
        /\ p = Cleaner => "set order" \in Deleting \cup {"idle"}
        /\ proc[p].reason = "evicted" => "set order" \in Deleting
    BY <1>0, <1>8, <2>1, Working DEF SetTTL, Data, Deleting
  <2> QED
    BY <2>1, <2>2, <2>3, <2>4, <2>5, MovedInv
<1>9. ASSUME NEW p \in Goroutines, SetOrder(p)
      PROVE  Inv'
  <2>1. p \in Goroutines
    BY <1>0, <1>9
  <2>2. Moved(p, "add size", Id(p), proc[p].reason)
    BY <1>9, <2>1, Moves
  <2>3. Data'
    BY <1>0, <1>9, <2>1, Working DEF SetOrder, Data
  <2>4. Passes(p, "add size", proc[p].reason)
    BY <1>0, <1>9, <2>1, Working DEF SetOrder, Passes, Deleting
  <2>5. /\ "add size" # "idle" => Id(p) \in Ids
        /\ p = Cleaner => "add size" \in Deleting \cup {"idle"}
        /\ proc[p].reason = "evicted" => "add size" \in Deleting
    BY <1>0, <1>9, <2>1, Working DEF SetOrder, Data, Deleting
  <2> QED
    BY <2>1, <2>2, <2>3, <2>4, <2>5, MovedInv
<1>10. ASSUME NEW p \in Goroutines, AddSize(p)
      PROVE  Inv'
  <2>1. p \in Goroutines
    BY <1>0, <1>10
  <2>2. Moved(p, "idle", NoId, "none")
    BY <1>10, <2>1, Moves
  <2>3. Data'
    <3>0. Id(p) \in Ids
      BY <1>10, <2>1, Working DEF AddSize
    <3>1. Size[Id(p)] \in Nat
      BY <1>0, <3>0
    <3>2. currentSize' \in Int
      <4>1. currentSize \in Int
        BY <2>1, Working DEF Data
      <4>2. currentSize' = currentSize + Size[Id(p)]
        BY <1>10 DEF AddSize
      <4> QED
        BY <3>1, <4>1, <4>2
    <3> QED
      BY <1>10, <2>1, <3>2, Working DEF AddSize, Data
  <2>4. Passes(p, "idle", "none")
    BY <1>0, <1>10, <2>1, Working DEF AddSize, Passes, Deleting
  <2>5. /\ "idle" # "idle" => NoId \in Ids
        /\ p = Cleaner => "idle" \in Deleting \cup {"idle"}
        /\ "none" = "evicted" => "idle" \in Deleting
    BY <1>0, <1>10, <2>1, Working DEF AddSize, Data, Deleting
  <2> QED
    BY <2>1, <2>2, <2>3, <2>4, <2>5, MovedInv
<1>11. ASSUME NEW p \in Goroutines, LoadAndDelete(p)
      PROVE  Inv'
  <2>1. p \in Goroutines
    BY <1>0, <1>11
  <2> DEFINE place == IF Stored(Id(p)) THEN "subtract size" ELSE "delete ttl"
  <2>2. Moved(p, place, Id(p), proc[p].reason)
    BY <1>11, Moves
  <2>3. Data'
    BY <1>0, <1>11, <2>1, Working DEF LoadAndDelete, Data
  <2>4. Passes(p, place, proc[p].reason)
    BY <1>0, <1>11, <2>1, Working DEF LoadAndDelete, Passes, Deleting
  <2>5. /\ place # "idle" => Id(p) \in Ids
        /\ p = Cleaner => place \in Deleting \cup {"idle"}
        /\ proc[p].reason = "evicted" => place \in Deleting
    BY <1>0, <1>11, <2>1, Working DEF LoadAndDelete, Data, Deleting
  <2> HIDE DEF place
  <2> QED
    BY <2>1, <2>2, <2>3, <2>4, <2>5, MovedInv
<1>12. ASSUME NEW p \in Goroutines, SubtractSize(p)
      PROVE  Inv'
  <2>1. p \in Goroutines
    BY <1>0, <1>12
  <2>2. Moved(p, "delete ttl", Id(p), proc[p].reason)
    BY <1>12, <2>1, Moves
  <2>3. Data'
    <3>0. Id(p) \in Ids
      BY <1>12, <2>1, Working DEF SubtractSize
    <3>1. Size[Id(p)] \in Nat
      BY <1>0, <3>0
    <3>2. currentSize' \in Int
      <4>1. currentSize \in Int
        BY <2>1, Working DEF Data
      <4>2. currentSize' = currentSize - Size[Id(p)]
        BY <1>12 DEF SubtractSize
      <4> QED
        BY <3>1, <4>1, <4>2
    <3> QED
      BY <1>12, <2>1, <3>2, Working DEF SubtractSize, Data
  <2>4. Passes(p, "delete ttl", proc[p].reason)
    BY <1>0, <1>12, <2>1, Working DEF SubtractSize, Passes, Deleting
  <2>5. /\ "delete ttl" # "idle" => Id(p) \in Ids
        /\ p = Cleaner => "delete ttl" \in Deleting \cup {"idle"}
        /\ proc[p].reason = "evicted" => "delete ttl" \in Deleting
    BY <1>0, <1>12, <2>1, Working DEF SubtractSize, Data, Deleting
  <2> QED
    BY <2>1, <2>2, <2>3, <2>4, <2>5, MovedInv
<1>13. ASSUME NEW p \in Goroutines, DeleteTTL(p)
      PROVE  Inv'
  <2>1. p \in Goroutines
    BY <1>0, <1>13
  <2>2. Moved(p, "delete order", Id(p), proc[p].reason)
    BY <1>13, <2>1, Moves
  <2>3. Data'
    BY <1>0, <1>13, <2>1, Working DEF DeleteTTL, Data
  <2>4. Passes(p, "delete order", proc[p].reason)
    BY <1>0, <1>13, <2>1, Working DEF DeleteTTL, Passes, Deleting
  <2>5. /\ "delete order" # "idle" => Id(p) \in Ids
        /\ p = Cleaner => "delete order" \in Deleting \cup {"idle"}
        /\ proc[p].reason = "evicted" => "delete order" \in Deleting
    BY <1>0, <1>13, <2>1, Working DEF DeleteTTL, Data, Deleting
  <2> QED
    BY <2>1, <2>2, <2>3, <2>4, <2>5, MovedInv
<1>14. ASSUME NEW p \in Goroutines, DeleteOrder(p)
      PROVE  Inv'
  <2>1. p \in Goroutines
    BY <1>0, <1>14
  <2>2. Moved(p, "idle", NoId, "none")
    BY <1>14, <2>1, Moves
  <2>3. Data'
    BY <1>0, <1>14, <2>1, Working DEF DeleteOrder, Data
  <2>4. Passes(p, "idle", "none")
    BY <1>0, <1>14, <2>1, Working DEF DeleteOrder, Passes, Deleting
  <2>5. /\ "idle" # "idle" => NoId \in Ids
        /\ p = Cleaner => "idle" \in Deleting \cup {"idle"}
        /\ "none" = "evicted" => "idle" \in Deleting
    BY <1>0, <1>14, <2>1, Working DEF DeleteOrder, Data, Deleting
  <2> QED
    BY <2>1, <2>2, <2>3, <2>4, <2>5, MovedInv
<1>15. ASSUME NEW p \in Goroutines, CheckTTL(p)
      PROVE  Inv'
  <2>1. p \in Goroutines
    BY <1>0, <1>15
  <2> PICK place \in {"delete", "touch", "idle"}, id \in {Id(p), NoId}, reason \in {"expired", "none", proc[p].reason} :
          /\ Moved(p, place, id, reason)
          /\ place # "idle" => id = Id(p)
          /\ place # "delete" => reason \in {"none", proc[p].reason}
          /\ place = "delete" => reason = "expired"
    BY <1>15, Moves
  <2>2. Moved(p, place, id, reason)
    OBVIOUS
  <2>3. Data'
    BY <1>0, <1>15, <2>1, Working DEF CheckTTL, Data
  <2>4. Passes(p, place, reason)
    BY <1>0, <1>15, <2>1, Working DEF CheckTTL, Passes, Deleting
  <2>5. /\ place # "idle" => id \in Ids
        /\ p = Cleaner => place \in Deleting \cup {"idle"}
        /\ reason = "evicted" => place \in Deleting
    BY <1>0, <1>15, <2>1, Working DEF CheckTTL, Data, Deleting
  <2> QED
    BY <2>1, <2>2, <2>3, <2>4, <2>5, MovedInv
<1>16. ASSUME NEW p \in Goroutines, Touch(p)
      PROVE  Inv'
  <2>1. p \in Goroutines
    BY <1>0, <1>16
  <2>2. Moved(p, "idle", NoId, "none")
    BY <1>16, <2>1, Moves
  <2>3. Data'
    BY <1>0, <1>16, <2>1, Working DEF Touch, Data
  <2>4. Passes(p, "idle", "none")
    BY <1>0, <1>16, <2>1, Working DEF Touch, Passes, Deleting
  <2>5. /\ "idle" # "idle" => NoId \in Ids
        /\ p = Cleaner => "idle" \in Deleting \cup {"idle"}
        /\ "none" = "evicted" => "idle" \in Deleting
    BY <1>0, <1>16, <2>1, Working DEF Touch, Data, Deleting
  <2> QED
    BY <2>1, <2>2, <2>3, <2>4, <2>5, MovedInv
<1>17. ASSUME CleanupTick
      PROVE  Inv'
  BY <1>0, <1>17 DEF CleanupTick, Inv, TypeOK, AtWork, Id
<1>18. ASSUME CleanupNext
      PROVE  Inv'
  <2>1. PICK id \in expiredKeys : Moved(Cleaner, "delete", id, "expired") /\ expiredKeys' = expiredKeys \ {id}
    BY <1>18, CleanupMoves
  <2>2. Data'
    BY <1>0, <1>18, <2>1, Working DEF CleanupNext, Data
  <2>3. Passes(Cleaner, "delete", "expired")
    BY <1>0, <1>18, Working DEF CleanupNext, Passes, Data
  <2>4. id \in Ids /\ "delete" \in Deleting
    BY <1>0, Working DEF Data, Deleting
  <2> QED
    BY <1>0, <2>1, <2>2, <2>3, <2>4, MovedInv
<1>19. ASSUME NEW id \in Ids, Expire(id)
      PROVE  Inv'
  BY <1>0, <1>19 DEF Expire, Inv, TypeOK, AtWork, Id
<1>20. ASSUME UNCHANGED vars
      PROVE  Inv'
  BY <1>0, <1>20 DEF vars, Inv, TypeOK, AtWork, Id
<1> QED
  BY <1>1, <1>2, <1>3, <1>4, <1>5, <1>6, <1>7, <1>8, <1>9, <1>10, <1>11, <1>12, <1>13, <1>14, <1>15, <1>16, <1>17, <1>18, <1>19, <1>20 DEF Next, Continue

(* The types, and orderMutex is only kept by an eviction under way. *)
THEOREM TypeCorrect == SaverAssumption => (Spec => []TypeOK)
<1> SUFFICES ASSUME SaverAssumption
             PROVE  Spec => []TypeOK
  OBVIOUS
<1>1. Init => Inv
  BY InitInv
<1>2. Inv /\ [Next]_vars => Inv'
  BY NextInv
<1>3. Inv => TypeOK
  BY DEF Inv
<1> QED
  BY <1>1, <1>2, <1>3, PTL DEF Spec

--------------------------------------------------------------------------------
(* The time to live: a step of one goroutine with the ID it works on *)

Lasting == NotYetStored /\ TornIsKnown /\ WillExpire

(* of the history only what is torn under the ID changes *)
TornMoved(i) ==
    /\ saved'.ids = saved.ids /\ saved'.again = saved.again
    /\ \A j \in Ids : j # i => (j \in saved'.torn <=> j \in saved.torn)
    /\ saved'.torn # {} => saved.again

(* what a step has to leave of the checkpoint that is stored under its ID *)
Settled(p, place, id) ==
    LET i == Id(p)
        kept == Stored(i) /\ (i \in saved'.torn <=> i \in saved.torn)
    IN  i \in Ids /\ checkpoints'[i] # "none" =>
            /\ kept \/ (BeingDeleted(i) => i \in saved'.torn)
            /\ \/ kept /\ ttlMap'[i] = ttlMap[i] /\ proc[p].at # "set ttl"
               \/ ttlMap'[i] # "none"
               \/ place = "set ttl" /\ id = i
               \/ i \in saved'.torn

LEMMA LastingMoved ==
    ASSUME SaverAssumption, Inv, Lasting, NEW p \in Goroutines, NEW place, NEW id, NEW reason,
           Moved(p, place, id, reason), TornMoved(Id(p)), expiredKeys' \subseteq expiredKeys,
           id \in {Id(p), NoId} \/ (id \in Ids /\ Stored(id)) \/ id \in expiredKeys,
           place \in Saving => /\ proc[p].at \in Saving /\ id = Id(p)
                               /\ checkpoints'[Id(p)] = checkpoints[Id(p)]
                               /\ ttlMap'[Id(p)] = ttlMap[Id(p)],
           \A i \in Ids : i # Id(p) => checkpoints'[i] = checkpoints[i] /\ ttlMap'[i] = ttlMap[i],
           place \in Taken => id = Id(p) /\ (checkpoints'[Id(p)] = "none" \/ Id(p) \in saved'.torn),
           place = "set ttl" => p \in Procs,
           Settled(p, place, id)
    PROVE  Lasting'
<1>1. /\ proc'[p].at = place /\ proc'[p].id = id
      /\ \A q \in Goroutines : q # p => proc'[q] = proc[q]
  BY DEF Moved
<1>2. /\ \A q \in Goroutines : proc[q].at # "idle" => proc[q].id \in Ids
      /\ expiredKeys \subseteq Ids /\ NoId \notin Ids /\ Procs \subseteq Goroutines
  BY DEF Inv, TypeOK, AtWork, At, Id, SaverAssumption, Goroutines
<1>3. /\ \A i \in Ids \ saved.ids : Unknown(i, Goroutines)
      /\ ~saved.again => \A q \in Goroutines :
             proc[q].at \in Saving => Unknown(proc[q].id, Goroutines \ {q})
  BY DEF Lasting, NotYetStored, Id, Unknown
<1>4. "idle" \notin Saving /\ "idle" \notin Taken
  BY DEF Saving, Taken
<1>5. NotYetStored'
  <2>1. ASSUME NEW i \in Ids \ saved'.ids
        PROVE  Unknown(i, Goroutines)'
    <3>1. Unknown(i, Goroutines) /\ i # Id(p)
      BY <1>3, <2>1 DEF Unknown, TornMoved
    <3>2. checkpoints'[i] = "none" /\ ttlMap'[i] = "none" /\ i \notin expiredKeys'
      BY <3>1 DEF Unknown, Stored
    <3>3. i # id
      BY <1>2, <3>1 DEF Unknown
    <3> QED
      BY <1>1, <3>1, <3>2, <3>3 DEF Unknown, Stored, Id
  <2>2. ASSUME ~saved'.again, NEW q \in Goroutines, proc'[q].at \in Saving, q # p
        PROVE  /\ checkpoints'[proc'[q].id] = "none" /\ ttlMap'[proc'[q].id] = "none"
               /\ proc'[q].id \notin expiredKeys'
               /\ \A r \in Goroutines \ {q} : proc'[r].id # proc'[q].id
    <3>1. proc'[q] = proc[q] /\ proc[q].at \in Saving
      BY <1>1, <2>2
    <3>2. Unknown(proc[q].id, Goroutines \ {q}) /\ proc[q].id \in Ids
      BY <1>2, <1>3, <1>4, <2>2, <3>1 DEF TornMoved
    <3> DEFINE i == proc[q].id
    <3>3. i # Id(p) /\ i \in Ids
      BY <2>2, <3>2 DEF Unknown
    <3>4. checkpoints'[i] = "none" /\ ttlMap'[i] = "none" /\ i \notin expiredKeys'
      BY <3>2, <3>3 DEF Unknown, Stored
    <3>5. i # id
      BY <1>2, <3>2, <3>3 DEF Unknown
    <3> QED
      BY <1>1, <2>2, <3>1, <3>2, <3>4, <3>5 DEF Unknown, Stored, Id
  <2>3. ASSUME ~saved'.again, proc'[p].at \in Saving
        PROVE  /\ checkpoints'[proc'[p].id] = "none" /\ ttlMap'[proc'[p].id] = "none"
               /\ proc'[p].id \notin expiredKeys'
               /\ \A r \in Goroutines \ {p} : proc'[r].id # proc'[p].id
    <3>1. proc[p].at \in Saving /\ id = Id(p)
      BY <1>1, <2>3
    <3>2. Unknown(proc[p].id, Goroutines \ {p})
      BY <1>3, <2>3, <3>1 DEF TornMoved
    <3>3. checkpoints'[id] = "none" /\ ttlMap'[id] = "none" /\ id \notin expiredKeys'
      BY <1>1, <2>3, <3>1, <3>2 DEF Unknown, Stored, Id
    <3> QED
      BY <1>1, <3>1, <3>2, <3>3 DEF Unknown, Stored, Id
  <2> QED
    BY <2>1, <2>2, <2>3 DEF NotYetStored, Unknown, Stored, Id
<1>6. TornIsKnown'
  <2>1. ASSUME NEW q \in Goroutines, proc'[q].at \in Taken, q # p, checkpoints'[proc'[q].id] # "none"
        PROVE  proc'[q].id \in saved'.torn
    <3>1. /\ proc'[q] = proc[q] /\ proc[q].id \in Ids
          /\ checkpoints[proc[q].id] # "none" => proc[q].id \in saved.torn
      <4>1. proc'[q] = proc[q] /\ proc[q].at \in Taken
        BY <1>1, <2>1
      <4>2. proc[q].at # "idle"
        BY <4>1 DEF Taken
      <4> QED
        BY <1>2, <4>1, <4>2 DEF Lasting, TornIsKnown, Stored, Id
    <3>2. CASE proc[q].id # Id(p)
      BY <2>1, <3>1, <3>2 DEF TornMoved
    <3>3. CASE proc[q].id = Id(p)
      <4>1. BeingDeleted(Id(p))
        BY <2>1, <3>1, <3>3 DEF BeingDeleted, Id
      <4> QED
        BY <2>1, <3>1, <3>3, <4>1 DEF Settled, Stored
    <3> QED
      BY <3>2, <3>3
  <2>2. proc'[p].at \in Taken /\ checkpoints'[proc'[p].id] # "none" => proc'[p].id \in saved'.torn
    BY <1>1
  <2> QED
    BY <2>1, <2>2 DEF TornIsKnown, Stored, Id, TornMoved
<1>7. WillExpire'
  <2>1. ASSUME NEW i \in Ids, checkpoints'[i] # "none", ttlMap'[i] = "none", i \notin saved'.torn
        PROVE  \E q \in Procs : proc'[q].at = "set ttl" /\ proc'[q].id = i
    <3>1. CASE i # Id(p)
      <4>1. checkpoints[i] # "none" /\ ttlMap[i] = "none" /\ i \notin saved.torn
        BY <2>1, <3>1 DEF TornMoved
      <4>2. PICK q \in Procs : proc[q].at = "set ttl" /\ proc[q].id = i
        BY <4>1 DEF Lasting, WillExpire, Stored, At, Id
      <4> QED
        BY <1>1, <1>2, <3>1, <4>2 DEF Id
    <3>2. CASE i = Id(p) /\ place = "set ttl" /\ id = Id(p)
      BY <1>1, <3>2
    <3>3. CASE i = Id(p) /\ ~(place = "set ttl" /\ id = Id(p))
      <4>1. /\ checkpoints[i] # "none" /\ ttlMap[i] = "none" /\ i \notin saved.torn
            /\ proc[p].at # "set ttl"
        BY <2>1, <3>3 DEF Settled, Stored
      <4>2. PICK q \in Procs : proc[q].at = "set ttl" /\ proc[q].id = i
        BY <4>1 DEF Lasting, WillExpire, Stored, At, Id
      <4> QED
        BY <1>1, <1>2, <4>1, <4>2
    <3> QED
      BY <3>1, <3>2, <3>3
  <2> QED
    BY <2>1 DEF WillExpire, Stored, At, Id
<1> QED
  BY <1>5, <1>6, <1>7 DEF Lasting

LEMMA SaveLasting ==
    ASSUME SaverAssumption, Inv, Lasting, NEW p \in Procs, NEW id \in Ids, Save(p, id)
    PROVE  Lasting'
<1>1. PICK place \in {"evict", "store"} : Moved(p, place, id, "none")
  BY CallsMove
<1>2. /\ proc'[p].at = place /\ proc'[p].id = id
      /\ \A q \in Goroutines : q # p => proc'[q] = proc[q]
  BY <1>1 DEF Moved
<1>3. /\ saved'.ids = saved.ids \cup {id} /\ saved'.torn = saved.torn
      /\ saved'.again = (saved.again \/ id \in saved.ids)
  <2>1. saved \in [ids : SUBSET Ids, calls : 0 .. MaxSaves, again : BOOLEAN, torn : SUBSET Ids]
    BY DEF Inv, TypeOK
  <2> QED
    BY <2>1 DEF Save
<1>4. proc[p].at = "idle" /\ p \in Goroutines
  BY DEF Save, At, Goroutines
<1>5. UNCHANGED <<checkpoints, ttlMap, expiredKeys>>
  BY DEF Save, maps
<1>6. ~saved'.again => Unknown(id, Goroutines)
  BY <1>3 DEF Lasting, NotYetStored
<1>7. NotYetStored'
  <2>1. ASSUME NEW i \in Ids \ saved'.ids
        PROVE  Unknown(i, Goroutines)'
    <3>1. Unknown(i, Goroutines) /\ i # id
      BY <1>3, <2>1 DEF Lasting, NotYetStored
    <3> QED
      BY <1>2, <1>5, <3>1 DEF Unknown, Stored, Id
  <2>2. ASSUME ~saved'.again, NEW q \in Goroutines, proc'[q].at \in Saving
        PROVE  /\ checkpoints'[proc'[q].id] = "none" /\ ttlMap'[proc'[q].id] = "none"
               /\ proc'[q].id \notin expiredKeys'
               /\ \A r \in Goroutines \ {q} : proc'[r].id # proc'[q].id
    <3>0. Unknown(id, Goroutines)
      BY <1>6, <2>2
    <3>1. CASE q = p
      BY <1>2, <1>5, <3>0, <3>1 DEF Unknown, Stored, Id
    <3>2. CASE q # p
      <4>1. Unknown(proc[q].id, Goroutines \ {q}) /\ proc'[q] = proc[q]
        BY <1>2, <1>3, <2>2, <3>2 DEF Lasting, NotYetStored, Id
      <4>2. proc[q].id # id
        BY <3>0 DEF Unknown, Id
      <4> QED
        BY <1>2, <1>5, <4>1, <4>2 DEF Unknown, Stored, Id
    <3> QED
      BY <3>1, <3>2
  <2> QED
    BY <2>1, <2>2 DEF NotYetStored, Unknown, Stored, Id
<1>8. TornIsKnown'
  <2>1. place \notin Taken
    BY <1>1 DEF Taken
  <2> QED
    BY <1>2, <1>3, <1>5, <2>1 DEF Lasting, TornIsKnown, Stored, Id
<1>9. WillExpire'
  <2>1. ASSUME NEW i \in Ids, NEW q \in Procs, proc[q].at = "set ttl", proc[q].id = i
        PROVE  proc'[q] = proc[q]
    BY <1>2, <1>4, <2>1 DEF Goroutines
  <2>2. ASSUME NEW i \in Ids, checkpoints[i] # "none", ttlMap[i] = "none", i \notin saved.torn
        PROVE  \E q \in Procs : proc'[q].at = "set ttl" /\ proc'[q].id = i
    <3>1. PICK q \in Procs : proc[q].at = "set ttl" /\ proc[q].id = i
      BY <2>2 DEF Lasting, WillExpire, Stored, At, Id
    <3> QED
      BY <2>1, <3>1
  <2> QED
    BY <1>3, <1>5, <2>2 DEF WillExpire, Stored, At, Id
<1> QED
  BY <1>7, <1>8, <1>9 DEF Lasting

LEMMA NextLasting ==
    ASSUME SaverAssumption, Inv, Lasting, [Next]_vars
    PROVE  Lasting'
<1>0. /\ Procs \subseteq Goroutines /\ Cleaner \in Goroutines /\ Cleaner \notin Procs
      /\ accessOrder \subseteq Ids /\ expiredKeys \subseteq Ids
      /\ DOMAIN checkpoints = Ids /\ DOMAIN ttlMap = Ids
      /\ saved \in [ids : SUBSET Ids, calls : 0 .. MaxSaves, again : BOOLEAN, torn : SUBSET Ids]
  BY DEF Inv, TypeOK, SaverAssumption, Goroutines
<1>1. ASSUME NEW p \in Procs, NEW id \in Ids, Save(p, id)
      PROVE  Lasting'
  BY <1>1, SaveLasting
<1>2. ASSUME NEW p \in Procs, NEW id \in Ids, Load(p, id)
      PROVE  Lasting'
  <2>1. p \in Goroutines /\ (proc[p].at # "idle" => Id(p) \in Ids)
    BY <1>0, <1>2, Working DEF At
  <2>2. Moved(p, "check ttl", id, "none")
    BY <1>2, <2>1, CallsMove
  <2>3. TornMoved(Id(p)) /\ expiredKeys' \subseteq expiredKeys
    BY <1>2 DEF Load, TornMoved, Lasting, TornIsKnown
  <2>4. id \in {Id(p), NoId} \/ (id \in Ids /\ Stored(id)) \/ id \in expiredKeys
    BY <1>0, <1>2, <2>1 DEF Load, maps, At, Stored, Saving
  <2>5. "check ttl" \in Saving => /\ proc[p].at \in Saving /\ id = Id(p)
                               /\ checkpoints'[Id(p)] = checkpoints[Id(p)]
                               /\ ttlMap'[Id(p)] = ttlMap[Id(p)]
    BY <1>0, <1>2, <2>1 DEF Load, maps, At, Stored, Saving
  <2>6. \A i \in Ids : i # Id(p) => checkpoints'[i] = checkpoints[i] /\ ttlMap'[i] = ttlMap[i]
    BY <1>0, <1>2, <2>1 DEF Load, maps, At, Stored, Saving
  <2>7. "check ttl" \in Taken => id = Id(p) /\ (checkpoints'[Id(p)] = "none" \/ Id(p) \in saved'.torn)
    BY <1>0, <1>2, <2>1 DEF Load, maps, At, Stored, Saving, Taken
  <2>8. "check ttl" = "set ttl" => p \in Procs
    BY <1>2, <2>1, Working DEF Load, At, Deleting
  <2>9. Settled(p, "check ttl", id)
    BY <1>0, <1>2, <2>1 DEF Load, maps, At, Stored, Saving, Settled
  <2> QED
    BY <2>1, <2>2, <2>3, <2>4, <2>5, <2>6, <2>7, <2>8, <2>9, LastingMoved
<1>3. ASSUME NEW p \in Procs, NEW id \in Ids, Delete(p, id)
      PROVE  Lasting'
  <2>1. p \in Goroutines /\ (proc[p].at # "idle" => Id(p) \in Ids)
    BY <1>0, <1>3, Working DEF At
  <2>2. Moved(p, "delete", id, "asked")
    BY <1>3, <2>1, CallsMove
  <2>3. TornMoved(Id(p)) /\ expiredKeys' \subseteq expiredKeys
    BY <1>3 DEF Delete, TornMoved, Lasting, TornIsKnown
  <2>4. id \in {Id(p), NoId} \/ (id \in Ids /\ Stored(id)) \/ id \in expiredKeys
    BY <1>0, <1>3, <2>1 DEF Delete, maps, At, Stored, Saving
  <2>5. "delete" \in Saving => /\ proc[p].at \in Saving /\ id = Id(p)
                               /\ checkpoints'[Id(p)] = checkpoints[Id(p)]
                               /\ ttlMap'[Id(p)] = ttlMap[Id(p)]
    BY <1>0, <1>3, <2>1 DEF Delete, maps, At, Stored, Saving
  <2>6. \A i \in Ids : i # Id(p) => checkpoints'[i] = checkpoints[i] /\ ttlMap'[i] = ttlMap[i]
    BY <1>0, <1>3, <2>1 DEF Delete, maps, At, Stored, Saving
  <2>7. "delete" \in Taken => id = Id(p) /\ (checkpoints'[Id(p)] = "none" \/ Id(p) \in saved'.torn)
    BY <1>0, <1>3, <2>1 DEF Delete, maps, At, Stored, Saving, Taken
  <2>8. "delete" = "set ttl" => p \in Procs
    BY <1>3, <2>1, Working DEF Delete, At, Deleting
  <2>9. Settled(p, "delete", id)
    BY <1>0, <1>3, <2>1 DEF Delete, maps, At, Stored, Saving, Settled
  <2> QED
    BY <2>1, <2>2, <2>3, <2>4, <2>5, <2>6, <2>7, <2>8, <2>9, LastingMoved
<1>4. ASSUME NEW p \in Goroutines, EvictLock(p)
      PROVE  Lasting'
  <2>1. p \in Goroutines /\ (proc[p].at # "idle" => Id(p) \in Ids)
    BY <1>0, <1>4, Working DEF At
  <2>2. Moved(p, "evicting", Id(p), proc[p].reason)
    BY <1>4, <2>1, Moves
  <2>3. TornMoved(Id(p)) /\ expiredKeys' \subseteq expiredKeys
    BY <1>4 DEF EvictLock, TornMoved, Lasting, TornIsKnown
  <2>4. Id(p) \in {Id(p), NoId} \/ (Id(p) \in Ids /\ Stored(Id(p))) \/ Id(p) \in expiredKeys
    BY <1>0, <1>4, <2>1 DEF EvictLock, maps, At, Stored, Saving
  <2>5. "evicting" \in Saving => /\ proc[p].at \in Saving /\ Id(p) = Id(p)
                               /\ checkpoints'[Id(p)] = checkpoints[Id(p)]
                               /\ ttlMap'[Id(p)] = ttlMap[Id(p)]
    BY <1>0, <1>4, <2>1 DEF EvictLock, maps, At, Stored, Saving
  <2>6. \A i \in Ids : i # Id(p) => checkpoints'[i] = checkpoints[i] /\ ttlMap'[i] = ttlMap[i]
    BY <1>0, <1>4, <2>1 DEF EvictLock, maps, At, Stored, Saving
  <2>7. "evicting" \in Taken => Id(p) = Id(p) /\ (checkpoints'[Id(p)] = "none" \/ Id(p) \in saved'.torn)
    BY <1>0, <1>4, <2>1 DEF EvictLock, maps, At, Stored, Saving, Taken
  <2>8. "evicting" = "set ttl" => p \in Procs
    BY <1>4, <2>1, Working DEF EvictLock, At, Deleting
  <2>9. Settled(p, "evicting", Id(p))
    BY <1>0, <1>4, <2>1 DEF EvictLock, maps, At, Stored, Saving, Settled
  <2> QED
    BY <2>1, <2>2, <2>3, <2>4, <2>5, <2>6, <2>7, <2>8, <2>9, LastingMoved
<1>5. ASSUME NEW p \in Goroutines, EvictOne(p)
      PROVE  Lasting'
  <2>1. p \in Goroutines /\ (proc[p].at # "idle" => Id(p) \in Ids)
    BY <1>0, <1>5, Working DEF At
  <2> PICK id \in accessOrder : Stored(id) /\ Moved(p, "delete", id, "evicted")
    BY <1>5, Moves
  <2>2. Moved(p, "delete", id, "evicted")
    OBVIOUS
  <2>3. TornMoved(Id(p)) /\ expiredKeys' \subseteq expiredKeys
    BY <1>5 DEF EvictOne, TornMoved, Lasting, TornIsKnown
  <2>4. id \in {Id(p), NoId} \/ (id \in Ids /\ Stored(id)) \/ id \in expiredKeys
    BY <1>0, <1>5, <2>1 DEF EvictOne, maps, At, Stored, Saving
  <2>5. "delete" \in Saving => /\ proc[p].at \in Saving /\ id = Id(p)
                               /\ checkpoints'[Id(p)] = checkpoints[Id(p)]
                               /\ ttlMap'[Id(p)] = ttlMap[Id(p)]
    BY <1>0, <1>5, <2>1 DEF EvictOne, maps, At, Stored, Saving
  <2>6. \A i \in Ids : i # Id(p) => checkpoints'[i] = checkpoints[i] /\ ttlMap'[i] = ttlMap[i]
    BY <1>0, <1>5, <2>1 DEF EvictOne, maps, At, Stored, Saving
  <2>7. "delete" \in Taken => id = Id(p) /\ (checkpoints'[Id(p)] = "none" \/ Id(p) \in saved'.torn)
    BY <1>0, <1>5, <2>1 DEF EvictOne, maps, At, Stored, Saving, Taken
  <2>8. "delete" = "set ttl" => p \in Procs
    BY <1>5, <2>1, Working DEF EvictOne, At, Deleting
  <2>9. Settled(p, "delete", id)
    BY <1>0, <1>5, <2>1 DEF EvictOne, maps, At, Stored, Saving, Settled
  <2> QED
    BY <2>1, <2>2, <2>3, <2>4, <2>5, <2>6, <2>7, <2>8, <2>9, LastingMoved
<1>6. ASSUME NEW p \in Goroutines, EvictNone(p)
      PROVE  Lasting'
  <2>1. p \in Goroutines /\ (proc[p].at # "idle" => Id(p) \in Ids)
    BY <1>0, <1>6, Working DEF At
  <2>2. Moved(p, "idle", NoId, "none")
    BY <1>6, <2>1, Moves
  <2>3. TornMoved(Id(p)) /\ expiredKeys' \subseteq expiredKeys
    BY <1>6 DEF EvictNone, TornMoved, Lasting, TornIsKnown
  <2>4. NoId \in {Id(p), NoId} \/ (NoId \in Ids /\ Stored(NoId)) \/ NoId \in expiredKeys
    BY <1>0, <1>6, <2>1 DEF EvictNone, maps, At, Stored, Saving
  <2>5. "idle" \in Saving => /\ proc[p].at \in Saving /\ NoId = Id(p)
                               /\ checkpoints'[Id(p)] = checkpoints[Id(p)]
                               /\ ttlMap'[Id(p)] = ttlMap[Id(p)]
    BY <1>0, <1>6, <2>1 DEF EvictNone, maps, At, Stored, Saving
  <2>6. \A i \in Ids : i # Id(p) => checkpoints'[i] = checkpoints[i] /\ ttlMap'[i] = ttlMap[i]
    BY <1>0, <1>6, <2>1 DEF EvictNone, maps, At, Stored, Saving
  <2>7. "idle" \in Taken => NoId = Id(p) /\ (checkpoints'[Id(p)] = "none" \/ Id(p) \in saved'.torn)
    BY <1>0, <1>6, <2>1 DEF EvictNone, maps, At, Stored, Saving, Taken
  <2>8. "idle" = "set ttl" => p \in Procs
    BY <1>6, <2>1, Working DEF EvictNone, At, Deleting
  <2>9. Settled(p, "idle", NoId)
    BY <1>0, <1>6, <2>1 DEF EvictNone, maps, At, Stored, Saving, Settled
  <2> QED
    BY <2>1, <2>2, <2>3, <2>4, <2>5, <2>6, <2>7, <2>8, <2>9, LastingMoved
<1>7. ASSUME NEW p \in Goroutines, Store(p)
      PROVE  Lasting'
  <2>1. p \in Goroutines /\ (proc[p].at # "idle" => Id(p) \in Ids)
    BY <1>0, <1>7, Working DEF At
  <2>2. Moved(p, "set ttl", Id(p), proc[p].reason)
    BY <1>7, <2>1, Moves
  <2>3. TornMoved(Id(p)) /\ expiredKeys' \subseteq expiredKeys
    <3>1. /\ saved'.ids = saved.ids /\ saved'.again = saved.again
          /\ saved'.torn = IF BeingDeleted(Id(p)) THEN saved.torn \cup {Id(p)} ELSE saved.torn \ {Id(p)}
          /\ expiredKeys' = expiredKeys
      BY <1>0, <1>7 DEF Store
    <3>2. BeingDeleted(Id(p)) => saved.again
      <4>1. proc[p].at = "store"
        BY <1>7 DEF Store, At
      <4>2. ~saved.again => Unknown(Id(p), Goroutines \ {p})
        BY <4>1 DEF Lasting, NotYetStored, Saving
      <4> QED
        BY <4>1, <4>2 DEF BeingDeleted, Unknown, Taken
    <3>3. saved.torn # {} => saved.again
      BY DEF Lasting, TornIsKnown
    <3> QED
      BY <3>1, <3>2, <3>3 DEF TornMoved
  <2>4. Id(p) \in {Id(p), NoId} \/ (Id(p) \in Ids /\ Stored(Id(p))) \/ Id(p) \in expiredKeys
    BY <1>0, <1>7, <2>1 DEF Store, maps, At, Stored, Saving
  <2>5. "set ttl" \in Saving => /\ proc[p].at \in Saving /\ Id(p) = Id(p)
                               /\ checkpoints'[Id(p)] = checkpoints[Id(p)]
                               /\ ttlMap'[Id(p)] = ttlMap[Id(p)]
    BY <1>0, <1>7, <2>1 DEF Store, maps, At, Stored, Saving
  <2>6. \A i \in Ids : i # Id(p) => checkpoints'[i] = checkpoints[i] /\ ttlMap'[i] = ttlMap[i]
    BY <1>0, <1>7, <2>1 DEF Store, maps, At, Stored, Saving
  <2>7. "set ttl" \in Taken => Id(p) = Id(p) /\ (checkpoints'[Id(p)] = "none" \/ Id(p) \in saved'.torn)
    BY <1>0, <1>7, <2>1 DEF Store, maps, At, Stored, Saving, Taken
  <2>8. "set ttl" = "set ttl" => p \in Procs
    BY <1>7, <2>1, Working DEF Store, At, Deleting
  <2>9. Settled(p, "set ttl", Id(p))
    <3>1. /\ proc[p].at = "store"
          /\ BeingDeleted(Id(p)) => Id(p) \in saved'.torn
      BY <1>0, <1>7 DEF Store, At
    <3> QED
      BY <3>1 DEF Settled
  <2> QED
    BY <2>1, <2>2, <2>3, <2>4, <2>5, <2>6, <2>7, <2>8, <2>9, LastingMoved
<1>8. ASSUME NEW p \in Goroutines, SetTTL(p)
      PROVE  Lasting'
  <2>1. p \in Goroutines /\ (proc[p].at # "idle" => Id(p) \in Ids)
    BY <1>0, <1>8, Working DEF At
  <2>2. Moved(p, "set order", Id(p), proc[p].reason)
    BY <1>8, <2>1, Moves
  <2>3. TornMoved(Id(p)) /\ expiredKeys' \subseteq expiredKeys
    <3>1. /\ saved'.ids = saved.ids /\ saved'.again = saved.again
          /\ saved'.torn = IF BeingDeleted(Id(p)) THEN saved.torn ELSE saved.torn \ {Id(p)}
          /\ expiredKeys' = expiredKeys
      BY <1>0, <1>8 DEF SetTTL
    <3>2. saved.torn # {} => saved.again
      BY DEF Lasting, TornIsKnown
    <3> QED
      BY <3>1, <3>2 DEF TornMoved
  <2>4. Id(p) \in {Id(p), NoId} \/ (Id(p) \in Ids /\ Stored(Id(p))) \/ Id(p) \in expiredKeys
    BY <1>0, <1>8, <2>1 DEF SetTTL, maps, At, Stored, Saving
  <2>5. "set order" \in Saving => /\ proc[p].at \in Saving /\ Id(p) = Id(p)
                               /\ checkpoints'[Id(p)] = checkpoints[Id(p)]
                               /\ ttlMap'[Id(p)] = ttlMap[Id(p)]
    BY <1>0, <1>8, <2>1 DEF SetTTL, maps, At, Stored, Saving
  <2>6. \A i \in Ids : i # Id(p) => checkpoints'[i] = checkpoints[i] /\ ttlMap'[i] = ttlMap[i]
    BY <1>0, <1>8, <2>1 DEF SetTTL, maps, At, Stored, Saving
  <2>7. "set order" \in Taken => Id(p) = Id(p) /\ (checkpoints'[Id(p)] = "none" \/ Id(p) \in saved'.torn)
    BY <1>0, <1>8, <2>1 DEF SetTTL, maps, At, Stored, Saving, Taken
  <2>8. "set order" = "set ttl" => p \in Procs
    BY <1>8, <2>1, Working DEF SetTTL, At, Deleting
  <2>9. Settled(p, "set order", Id(p))
    <3>1. saved'.torn = IF BeingDeleted(Id(p)) THEN saved.torn ELSE saved.torn \ {Id(p)}
      BY <1>0, <1>8 DEF SetTTL
    <3>2. Id(p) \in Ids => ttlMap'[Id(p)] # "none" /\ (checkpoints'[Id(p)] # "none" => Stored(Id(p)))
      BY <1>0, <1>8 DEF SetTTL, Stored
    <3> QED
      BY <3>1, <3>2 DEF Settled
  <2> QED
    BY <2>1, <2>2, <2>3, <2>4, <2>5, <2>6, <2>7, <2>8, <2>9, LastingMoved
<1>9. ASSUME NEW p \in Goroutines, SetOrder(p)
      PROVE  Lasting'
  <2>1. p \in Goroutines /\ (proc[p].at # "idle" => Id(p) \in Ids)
    BY <1>0, <1>9, Working DEF At
  <2>2. Moved(p, "add size", Id(p), proc[p].reason)
    BY <1>9, <2>1, Moves
  <2>3. TornMoved(Id(p)) /\ expiredKeys' \subseteq expiredKeys
    BY <1>9 DEF SetOrder, TornMoved, Lasting, TornIsKnown
  <2>4. Id(p) \in {Id(p), NoId} \/ (Id(p) \in Ids /\ Stored(Id(p))) \/ Id(p) \in expiredKeys
    BY <1>0, <1>9, <2>1 DEF SetOrder, maps, At, Stored, Saving
  <2>5. "add size" \in Saving => /\ proc[p].at \in Saving /\ Id(p) = Id(p)
                               /\ checkpoints'[Id(p)] = checkpoints[Id(p)]
                               /\ ttlMap'[Id(p)] = ttlMap[Id(p)]
    BY <1>0, <1>9, <2>1 DEF SetOrder, maps, At, Stored, Saving
  <2>6. \A i \in Ids : i # Id(p) => checkpoints'[i] = checkpoints[i] /\ ttlMap'[i] = ttlMap[i]
    BY <1>0, <1>9, <2>1 DEF SetOrder, maps, At, Stored, Saving
  <2>7. "add size" \in Taken => Id(p) = Id(p) /\ (checkpoints'[Id(p)] = "none" \/ Id(p) \in saved'.torn)
    BY <1>0, <1>9, <2>1 DEF SetOrder, maps, At, Stored, Saving, Taken
  <2>8. "add size" = "set ttl" => p \in Procs
    BY <1>9, <2>1, Working DEF SetOrder, At, Deleting
  <2>9. Settled(p, "add size", Id(p))
    BY <1>0, <1>9, <2>1 DEF SetOrder, maps, At, Stored, Saving, Settled
  <2> QED
    BY <2>1, <2>2, <2>3, <2>4, <2>5, <2>6, <2>7, <2>8, <2>9, LastingMoved
<1>10. ASSUME NEW p \in Goroutines, AddSize(p)
      PROVE  Lasting'
  <2>1. p \in Goroutines /\ (proc[p].at # "idle" => Id(p) \in Ids)
    BY <1>0, <1>10, Working DEF At
  <2>2. Moved(p, "idle", NoId, "none")
    BY <1>10, <2>1, Moves
  <2>3. TornMoved(Id(p)) /\ expiredKeys' \subseteq expiredKeys
    BY <1>10 DEF AddSize, TornMoved, Lasting, TornIsKnown
  <2>4. NoId \in {Id(p), NoId} \/ (NoId \in Ids /\ Stored(NoId)) \/ NoId \in expiredKeys
    BY <1>0, <1>10, <2>1 DEF AddSize, maps, At, Stored, Saving
  <2>5. "idle" \in Saving => /\ proc[p].at \in Saving /\ NoId = Id(p)
                               /\ checkpoints'[Id(p)] = checkpoints[Id(p)]
                               /\ ttlMap'[Id(p)] = ttlMap[Id(p)]
    BY <1>0, <1>10, <2>1 DEF AddSize, maps, At, Stored, Saving
  <2>6. \A i \in Ids : i # Id(p) => checkpoints'[i] = checkpoints[i] /\ ttlMap'[i] = ttlMap[i]
    BY <1>0, <1>10, <2>1 DEF AddSize, maps, At, Stored, Saving
  <2>7. "idle" \in Taken => NoId = Id(p) /\ (checkpoints'[Id(p)] = "none" \/ Id(p) \in saved'.torn)
    BY <1>0, <1>10, <2>1 DEF AddSize, maps, At, Stored, Saving, Taken
  <2>8. "idle" = "set ttl" => p \in Procs
    BY <1>10, <2>1, Working DEF AddSize, At, Deleting
  <2>9. Settled(p, "idle", NoId)
    BY <1>0, <1>10, <2>1 DEF AddSize, maps, At, Stored, Saving, Settled
  <2> QED
    BY <2>1, <2>2, <2>3, <2>4, <2>5, <2>6, <2>7, <2>8, <2>9, LastingMoved
<1>11. ASSUME NEW p \in Goroutines, LoadAndDelete(p)
      PROVE  Lasting'
  <2>1. p \in Goroutines /\ (proc[p].at # "idle" => Id(p) \in Ids)
    BY <1>0, <1>11, Working DEF At
  <2> DEFINE place == IF Stored(Id(p)) THEN "subtract size" ELSE "delete ttl"
  <2>2. Moved(p, place, Id(p), proc[p].reason)
    BY <1>11, Moves
  <2>3. TornMoved(Id(p)) /\ expiredKeys' \subseteq expiredKeys
    <3>1. /\ saved'.ids = saved.ids /\ saved'.again = saved.again
          /\ saved'.torn = saved.torn \ {Id(p)} /\ expiredKeys' = expiredKeys
      BY <1>0, <1>11 DEF LoadAndDelete
    <3>2. saved.torn # {} => saved.again
      BY DEF Lasting, TornIsKnown
    <3> QED
      BY <3>1, <3>2 DEF TornMoved
  <2>4. Id(p) \in {Id(p), NoId} \/ (Id(p) \in Ids /\ Stored(Id(p))) \/ Id(p) \in expiredKeys
    BY <1>0, <1>11, <2>1 DEF LoadAndDelete, maps, At, Stored, Saving
  <2>5. place \in Saving => /\ proc[p].at \in Saving /\ Id(p) = Id(p)
                               /\ checkpoints'[Id(p)] = checkpoints[Id(p)]
                               /\ ttlMap'[Id(p)] = ttlMap[Id(p)]
    BY <1>0, <1>11, <2>1 DEF LoadAndDelete, maps, At, Stored, Saving
  <2>6. \A i \in Ids : i # Id(p) => checkpoints'[i] = checkpoints[i] /\ ttlMap'[i] = ttlMap[i]
    BY <1>0, <1>11, <2>1 DEF LoadAndDelete, maps, At, Stored, Saving
  <2>7. place \in Taken => Id(p) = Id(p) /\ (checkpoints'[Id(p)] = "none" \/ Id(p) \in saved'.torn)
    BY <1>0, <1>11, <2>1 DEF LoadAndDelete, maps, At, Stored, Saving, Taken
  <2>8. place = "set ttl" => p \in Procs
    BY <1>11, <2>1, Working DEF LoadAndDelete, At, Deleting
  <2>9. Settled(p, place, Id(p))
    BY <1>0, <1>11, <2>1 DEF LoadAndDelete, maps, At, Stored, Saving, Settled
  <2> HIDE DEF place
  <2> QED
    BY <2>1, <2>2, <2>3, <2>4, <2>5, <2>6, <2>7, <2>8, <2>9, LastingMoved
<1>12. ASSUME NEW p \in Goroutines, SubtractSize(p)
      PROVE  Lasting'
  <2>1. p \in Goroutines /\ (proc[p].at # "idle" => Id(p) \in Ids)
    BY <1>0, <1>12, Working DEF At
  <2>2. Moved(p, "delete ttl", Id(p), proc[p].reason)
    BY <1>12, <2>1, Moves
  <2>3. TornMoved(Id(p)) /\ expiredKeys' \subseteq expiredKeys
    BY <1>12 DEF SubtractSize, TornMoved, Lasting, TornIsKnown
  <2>4. Id(p) \in {Id(p), NoId} \/ (Id(p) \in Ids /\ Stored(Id(p))) \/ Id(p) \in expiredKeys
    BY <1>0, <1>12, <2>1 DEF SubtractSize, maps, At, Stored, Saving
  <2>5. "delete ttl" \in Saving => /\ proc[p].at \in Saving /\ Id(p) = Id(p)
                               /\ checkpoints'[Id(p)] = checkpoints[Id(p)]
                               /\ ttlMap'[Id(p)] = ttlMap[Id(p)]
    BY <1>0, <1>12, <2>1 DEF SubtractSize, maps, At, Stored, Saving
  <2>6. \A i \in Ids : i # Id(p) => checkpoints'[i] = checkpoints[i] /\ ttlMap'[i] = ttlMap[i]
    BY <1>0, <1>12, <2>1 DEF SubtractSize, maps, At, Stored, Saving
  <2>7. "delete ttl" \in Taken => Id(p) = Id(p) /\ (checkpoints'[Id(p)] = "none" \/ Id(p) \in saved'.torn)
    BY <1>0, <1>12, <2>1 DEF SubtractSize, maps, At, Stored, Saving, Taken, Lasting, TornIsKnown
  <2>8. "delete ttl" = "set ttl" => p \in Procs
    BY <1>12, <2>1, Working DEF SubtractSize, At, Deleting
  <2>9. Settled(p, "delete ttl", Id(p))
    BY <1>0, <1>12, <2>1 DEF SubtractSize, maps, At, Stored, Saving, Settled, Taken, Lasting, TornIsKnown
  <2> QED
    BY <2>1, <2>2, <2>3, <2>4, <2>5, <2>6, <2>7, <2>8, <2>9, LastingMoved
<1>13. ASSUME NEW p \in Goroutines, DeleteTTL(p)
      PROVE  Lasting'
  <2>1. p \in Goroutines /\ (proc[p].at # "idle" => Id(p) \in Ids)
    BY <1>0, <1>13, Working DEF At
  <2>2. Moved(p, "delete order", Id(p), proc[p].reason)
    BY <1>13, <2>1, Moves
  <2>3. TornMoved(Id(p)) /\ expiredKeys' \subseteq expiredKeys
    BY <1>13 DEF DeleteTTL, TornMoved, Lasting, TornIsKnown
  <2>4. Id(p) \in {Id(p), NoId} \/ (Id(p) \in Ids /\ Stored(Id(p))) \/ Id(p) \in expiredKeys
    BY <1>0, <1>13, <2>1 DEF DeleteTTL, maps, At, Stored, Saving
  <2>5. "delete order" \in Saving => /\ proc[p].at \in Saving /\ Id(p) = Id(p)
                               /\ checkpoints'[Id(p)] = checkpoints[Id(p)]
                               /\ ttlMap'[Id(p)] = ttlMap[Id(p)]
    BY <1>0, <1>13, <2>1 DEF DeleteTTL, maps, At, Stored, Saving
  <2>6. \A i \in Ids : i # Id(p) => checkpoints'[i] = checkpoints[i] /\ ttlMap'[i] = ttlMap[i]
    BY <1>0, <1>13, <2>1 DEF DeleteTTL, maps, At, Stored, Saving
  <2>7. "delete order" \in Taken => Id(p) = Id(p) /\ (checkpoints'[Id(p)] = "none" \/ Id(p) \in saved'.torn)
    BY <1>0, <1>13, <2>1 DEF DeleteTTL, maps, At, Stored, Saving, Taken, Lasting, TornIsKnown
  <2>8. "delete order" = "set ttl" => p \in Procs
    BY <1>13, <2>1, Working DEF DeleteTTL, At, Deleting
  <2>9. Settled(p, "delete order", Id(p))
    BY <1>0, <1>13, <2>1 DEF DeleteTTL, maps, At, Stored, Saving, Settled, Taken, Lasting, TornIsKnown
  <2> QED
    BY <2>1, <2>2, <2>3, <2>4, <2>5, <2>6, <2>7, <2>8, <2>9, LastingMoved
<1>14. ASSUME NEW p \in Goroutines, DeleteOrder(p)
      PROVE  Lasting'
  <2>1. p \in Goroutines /\ (proc[p].at # "idle" => Id(p) \in Ids)
    BY <1>0, <1>14, Working DEF At
  <2>2. Moved(p, "idle", NoId, "none")
    BY <1>14, <2>1, Moves
  <2>3. TornMoved(Id(p)) /\ expiredKeys' \subseteq expiredKeys
    BY <1>14 DEF DeleteOrder, TornMoved, Lasting, TornIsKnown
  <2>4. NoId \in {Id(p), NoId} \/ (NoId \in Ids /\ Stored(NoId)) \/ NoId \in expiredKeys
    BY <1>0, <1>14, <2>1 DEF DeleteOrder, maps, At, Stored, Saving
  <2>5. "idle" \in Saving => /\ proc[p].at \in Saving /\ NoId = Id(p)
                               /\ checkpoints'[Id(p)] = checkpoints[Id(p)]
                               /\ ttlMap'[Id(p)] = ttlMap[Id(p)]
    BY <1>0, <1>14, <2>1 DEF DeleteOrder, maps, At, Stored, Saving
  <2>6. \A i \in Ids : i # Id(p) => checkpoints'[i] = checkpoints[i] /\ ttlMap'[i] = ttlMap[i]
    BY <1>0, <1>14, <2>1 DEF DeleteOrder, maps, At, Stored, Saving
  <2>7. "idle" \in Taken => NoId = Id(p) /\ (checkpoints'[Id(p)] = "none" \/ Id(p) \in saved'.torn)
    BY <1>0, <1>14, <2>1 DEF DeleteOrder, maps, At, Stored, Saving, Taken
  <2>8. "idle" = "set ttl" => p \in Procs
    BY <1>14, <2>1, Working DEF DeleteOrder, At, Deleting
  <2>9. Settled(p, "idle", NoId)
    BY <1>0, <1>14, <2>1 DEF DeleteOrder, maps, At, Stored, Saving, Settled
  <2> QED
    BY <2>1, <2>2, <2>3, <2>4, <2>5, <2>6, <2>7, <2>8, <2>9, LastingMoved
<1>15. ASSUME NEW p \in Goroutines, CheckTTL(p)
      PROVE  Lasting'
  <2>1. p \in Goroutines /\ (proc[p].at # "idle" => Id(p) \in Ids)
    BY <1>0, <1>15, Working DEF At
  <2> PICK place \in {"delete", "touch", "idle"}, id \in {Id(p), NoId}, reason \in {"expired", "none", proc[p].reason} :
          Moved(p, place, id, reason)
    BY <1>15, Moves
  <2>2. Moved(p, place, id, reason)
    OBVIOUS
  <2>3. TornMoved(Id(p)) /\ expiredKeys' \subseteq expiredKeys
    BY <1>15 DEF CheckTTL, TornMoved, Lasting, TornIsKnown
  <2>4. id \in {Id(p), NoId} \/ (id \in Ids /\ Stored(id)) \/ id \in expiredKeys
    BY <1>0, <1>15, <2>1 DEF CheckTTL, maps, At, Stored, Saving
  <2>5. place \in Saving => /\ proc[p].at \in Saving /\ id = Id(p)
                               /\ checkpoints'[Id(p)] = checkpoints[Id(p)]
                               /\ ttlMap'[Id(p)] = ttlMap[Id(p)]
    BY <1>0, <1>15, <2>1 DEF CheckTTL, maps, At, Stored, Saving
  <2>6. \A i \in Ids : i # Id(p) => checkpoints'[i] = checkpoints[i] /\ ttlMap'[i] = ttlMap[i]
    BY <1>0, <1>15, <2>1 DEF CheckTTL, maps, At, Stored, Saving
  <2>7. place \in Taken => id = Id(p) /\ (checkpoints'[Id(p)] = "none" \/ Id(p) \in saved'.torn)
    BY <1>0, <1>15, <2>1 DEF CheckTTL, maps, At, Stored, Saving, Taken
  <2>8. place = "set ttl" => p \in Procs
    BY <1>15, <2>1, Working DEF CheckTTL, At, Deleting
  <2>9. Settled(p, place, id)
    BY <1>0, <1>15, <2>1 DEF CheckTTL, maps, At, Stored, Saving, Settled
  <2> QED
    BY <2>1, <2>2, <2>3, <2>4, <2>5, <2>6, <2>7, <2>8, <2>9, LastingMoved
<1>16. ASSUME NEW p \in Goroutines, Touch(p)
      PROVE  Lasting'
  <2>1. p \in Goroutines /\ (proc[p].at # "idle" => Id(p) \in Ids)
    BY <1>0, <1>16, Working DEF At
  <2>2. Moved(p, "idle", NoId, "none")
    BY <1>16, <2>1, Moves
  <2>3. TornMoved(Id(p)) /\ expiredKeys' \subseteq expiredKeys
    BY <1>16 DEF Touch, TornMoved, Lasting, TornIsKnown
  <2>4. NoId \in {Id(p), NoId} \/ (NoId \in Ids /\ Stored(NoId)) \/ NoId \in expiredKeys
    BY <1>0, <1>16, <2>1 DEF Touch, maps, At, Stored, Saving
  <2>5. "idle" \in Saving => /\ proc[p].at \in Saving /\ NoId = Id(p)
                               /\ checkpoints'[Id(p)] = checkpoints[Id(p)]
                               /\ ttlMap'[Id(p)] = ttlMap[Id(p)]
    BY <1>0, <1>16, <2>1 DEF Touch, maps, At, Stored, Saving
  <2>6. \A i \in Ids : i # Id(p) => checkpoints'[i] = checkpoints[i] /\ ttlMap'[i] = ttlMap[i]
    BY <1>0, <1>16, <2>1 DEF Touch, maps, At, Stored, Saving
  <2>7. "idle" \in Taken => NoId = Id(p) /\ (checkpoints'[Id(p)] = "none" \/ Id(p) \in saved'.torn)
    BY <1>0, <1>16, <2>1 DEF Touch, maps, At, Stored, Saving, Taken
  <2>8. "idle" = "set ttl" => p \in Procs
    BY <1>16, <2>1, Working DEF Touch, At, Deleting
  <2>9. Settled(p, "idle", NoId)
    BY <1>0, <1>16, <2>1 DEF Touch, maps, At, Stored, Saving, Settled
  <2> QED
    BY <2>1, <2>2, <2>3, <2>4, <2>5, <2>6, <2>7, <2>8, <2>9, LastingMoved
<1>17. ASSUME CleanupTick
      PROVE  Lasting'
  <2>1. /\ UNCHANGED <<checkpoints, ttlMap, proc, saved>>
        /\ \A i \in expiredKeys' : ttlMap[i] = "expired"
    BY <1>17 DEF CleanupTick, maps
  <2>2. NotYetStored'
    BY <2>1 DEF Lasting, NotYetStored, Unknown, Stored, Id
  <2>3. TornIsKnown' /\ WillExpire'
    BY <2>1 DEF Lasting, TornIsKnown, WillExpire, Stored, At, Id
  <2> QED
    BY <2>2, <2>3 DEF Lasting
<1>18. ASSUME CleanupNext
      PROVE  Lasting'
  <2>1. PICK id \in expiredKeys : Moved(Cleaner, "delete", id, "expired") /\ expiredKeys' = expiredKeys \ {id}
    BY <1>18, CleanupMoves
  <2>2. UNCHANGED <<checkpoints, ttlMap, saved>> /\ proc[Cleaner].at = "idle"
    BY <1>18 DEF CleanupNext, maps, At
  <2>3. "delete" \notin Saving /\ "delete" \notin Taken
    BY DEF Saving, Taken
  <2>4. TornMoved(Id(Cleaner))
    BY <2>2 DEF TornMoved, Lasting, TornIsKnown
  <2>5. Settled(Cleaner, "delete", id)
    BY <2>2 DEF Settled, Stored
  <2>6. "delete" # "set ttl" /\ expiredKeys' \subseteq expiredKeys /\ id \in expiredKeys
    BY <2>1
  <2>7. \A i \in Ids : i # Id(Cleaner) => checkpoints'[i] = checkpoints[i] /\ ttlMap'[i] = ttlMap[i]
    BY <2>2
  <2> QED
    BY <1>0, <2>1, <2>3, <2>4, <2>5, <2>6, <2>7, LastingMoved
<1>19. ASSUME NEW id \in Ids, Expire(id)
      PROVE  Lasting'
  <2>1. /\ \A i \in Ids : (checkpoints'[i] = "none" <=> checkpoints[i] = "none")
        /\ \A i \in Ids : (ttlMap'[i] = "none" <=> ttlMap[i] = "none")
        /\ UNCHANGED <<proc, expiredKeys, saved>>
    BY <1>0, <1>19 DEF Expire
  <2>2. \A q \in Goroutines : proc[q].at # "idle" => proc[q].id \in Ids
    BY Working DEF At, Id
  <2>3. NotYetStored'
    BY <2>1, <2>2 DEF Lasting, NotYetStored, Unknown, Stored, Id, Saving
  <2>4. TornIsKnown'
    BY <2>1, <2>2 DEF Lasting, TornIsKnown, Taken, Stored, Id
  <2>5. WillExpire'
    BY <2>1 DEF Lasting, WillExpire, Stored, At, Id
  <2> QED
    BY <2>3, <2>4, <2>5 DEF Lasting
<1>20. ASSUME UNCHANGED vars
      PROVE  Lasting'
  BY <1>20, ZenonT(40) DEF vars, Lasting, NotYetStored, Unknown, TornIsKnown, WillExpire, Stored, At, Id
<1> QED
  BY <1>1, <1>2, <1>3, <1>4, <1>5, <1>6, <1>7, <1>8, <1>9, <1>10, <1>11, <1>12, <1>13, <1>14, <1>15, <1>16, <1>17, <1>18, <1>19, <1>20 DEF Next, Continue

--------------------------------------------------------------------------------
(* What is accounted for: the share of one goroutine changes at a time *)

Adding == {"set ttl", "set order", "add size"}
Subtracting == {"subtract size"}
StoredIds == {id \in Ids : Stored(id)}

LEMMA SharesAreWeights ==
    ASSUME SaverAssumption, Inv, NEW places, "idle" \notin places
    PROVE  /\ Weights(Share(places), Goroutines)
           /\ PendingSize(places) = SumFunctionOnSet(Share(places), Goroutines)
           /\ IsFiniteSet(Goroutines)
           /\ PendingSize(places) \in Nat
<1>1. IsFiniteSet(Goroutines)
  BY FS_AddElement DEF SaverAssumption, Goroutines
<1>2. Weights(Share(places), Goroutines)
  <2>1. \A p \in Goroutines : proc[p].at \in places => Size[Id(p)] \in Nat
    BY DEF Inv, AtWork, At, SaverAssumption
  <2> QED
    BY <2>1 DEF Weights, Share
<1>3. PendingSize(places) = SumFunctionOnSet(Share(places), Goroutines)
  BY DEF PendingSize
<1> QED
  BY <1>1, <1>2, <1>3, SumNat

LEMMA PendingMoved ==
    ASSUME SaverAssumption, Inv, Inv', NEW p \in Goroutines, NEW place, NEW id, NEW reason,
           Moved(p, place, id, reason), NEW places, "idle" \notin places
    PROVE  /\ proc[p].at \notin places /\ place \notin places =>
                  PendingSize(places)' = PendingSize(places)
           /\ proc[p].at \in places /\ place \in places /\ id = Id(p) =>
                  PendingSize(places)' = PendingSize(places)
           /\ proc[p].at \notin places /\ place \in places =>
                  PendingSize(places)' = PendingSize(places) + Size[id]
           /\ proc[p].at \in places /\ place \notin places =>
                  PendingSize(places)' = PendingSize(places) - Size[Id(p)]
           /\ PendingSize(places) \in Nat
<1> DEFINE F == Share(places)
           G == [q \in Goroutines |-> IF proc'[q].at \in places THEN Size[proc'[q].id] ELSE 0]
<1>1. /\ proc'[p].at = place /\ proc'[p].id = id
      /\ \A q \in Goroutines : q # p => proc'[q] = proc[q]
  BY DEF Moved
<1>2. /\ Weights(F, Goroutines) /\ IsFiniteSet(Goroutines)
      /\ PendingSize(places) = SumFunctionOnSet(F, Goroutines)
      /\ PendingSize(places) \in Nat
  BY SharesAreWeights
<1>3. PendingSize(places)' = SumFunctionOnSet(G, Goroutines)
  <2>1. Share(places)' = G
    BY DEF Share, Id
  <2>2. PendingSize(places)' = SumFunctionOnSet(Share(places)', Goroutines)
    BY DEF PendingSize
  <2> QED
    BY <2>1, <2>2, Zenon
<1>4. \A q \in Goroutines \ {p} : F[q] = G[q]
  BY <1>1 DEF Share, Id
<1>5. /\ F[p] = (IF proc[p].at \in places THEN Size[Id(p)] ELSE 0)
      /\ G[p] = (IF place \in places THEN Size[id] ELSE 0)
  BY <1>1 DEF Share
<1>6. G[p] \in Nat /\ F[p] \in Nat
  <2>1. proc'[p].at # "idle" => proc'[p].id \in Ids
    BY DEF Inv, AtWork, At, Id
  <2>2. Size \in [Ids -> Nat]
    BY DEF SaverAssumption
  <2> QED
    BY <1>1, <1>2, <1>5, <2>1, <2>2 DEF Weights
<1> HIDE DEF F, G
<1>7. SumFunctionOnSet(G, Goroutines) = SumFunctionOnSet(F, Goroutines) - F[p] + G[p]
  BY <1>2, <1>4, <1>6, SumChange
<1> QED
  BY <1>2, <1>3, <1>5, <1>6, <1>7

LEMMA PendingGrows ==
    ASSUME SaverAssumption, Inv, Inv', NEW p \in Goroutines, NEW place, NEW id, NEW reason,
           Moved(p, place, id, reason), NEW places, "idle" \notin places,
           proc[p].at \notin places, place \in places
    PROVE  PendingSize(places)' = PendingSize(places) + Size[id]
BY PendingMoved

LEMMA StoredSums ==
    ASSUME SaverAssumption, NEW S \in SUBSET Ids
    PROVE  /\ SumSize(S) \in Nat
           /\ \A id \in Ids \ S : SumSize(S \cup {id}) = SumSize(S) + Size[id]
           /\ \A id \in S : SumSize(S \ {id}) = SumSize(S) - Size[id]
<1>1. IsFiniteSet(S) /\ Weights(Size, S) /\ Size \in [Ids -> Nat]
  BY FS_Subset DEF SaverAssumption, Weights
<1>2. \A T : SumSize(T) = SumFunctionOnSet(Size, T)
  BY DEF SumSize
<1>3. SumSize(S) \in Nat
  BY <1>1, <1>2, SumNat
<1>4. ASSUME NEW id \in Ids \ S
      PROVE  SumSize(S \cup {id}) = SumSize(S) + Size[id]
  <2>1. Size[id] \in Nat
    BY <1>1
  <2>2. SumFunctionOnSet(Size, S \cup {id}) = Size[id] + SumFunctionOnSet(Size, S)
    BY <1>1, <1>4, <2>1, SumAdd
  <2> QED
    BY <1>2, <1>3, <2>1, <2>2
<1>5. ASSUME NEW id \in S
      PROVE  SumSize(S \ {id}) = SumSize(S) - Size[id]
  <2>1. Size[id] \in Nat
    BY <1>1
  <2>2. SumFunctionOnSet(Size, S) = Size[id] + SumFunctionOnSet(Size, S \ {id})
    BY <1>1, <1>5, SumRemove
  <2>3. SumFunctionOnSet(Size, S \ {id}) \in Nat
    <3>1. IsFiniteSet(S \ {id}) /\ Weights(Size, S \ {id})
      BY <1>1, FS_RemoveElement DEF Weights
    <3> QED
      BY <3>1, SumNat
  <2> QED
    BY <1>2, <1>3, <2>1, <2>2, <2>3
<1> QED
  BY <1>3, <1>4, <1>5

LEMMA Accounted ==
    /\ Balanced <=>
          currentSize + PendingSize(Adding) = SumSize(StoredIds) + PendingSize(Subtracting)
    /\ Balanced' <=>
          currentSize' + PendingSize(Adding)' = SumSize(StoredIds') + PendingSize(Subtracting)'
<1>1. Balanced <=>
          currentSize + PendingSize(Adding) = SumSize(StoredIds) + PendingSize(Subtracting)
  BY DEF Balanced, Adding, Subtracting, StoredIds
<1>2. Balanced' <=>
          currentSize' + PendingSize(Adding)' = SumSize(StoredIds') + PendingSize(Subtracting)'
  BY DEF Balanced, Adding, Subtracting, StoredIds
<1> QED
  BY <1>1, <1>2

LEMMA QuietMoved ==
    ASSUME SaverAssumption, Inv, Inv', Balanced, NEW p \in Goroutines, NEW place, NEW id, NEW reason,
           Moved(p, place, id, reason), StoredIds' = StoredIds, currentSize' = currentSize,
           \/ proc[p].at \notin Adding \cup Subtracting /\ place \notin Adding \cup Subtracting
           \/ proc[p].at \in Adding /\ place \in Adding /\ id = Id(p)
    PROVE  Balanced'
<1>1. "idle" \notin Adding /\ "idle" \notin Subtracting /\ Adding \cap Subtracting = {}
  BY DEF Adding, Subtracting
<1>2. PendingSize(Adding)' = PendingSize(Adding) /\ PendingSize(Subtracting)' = PendingSize(Subtracting)
  BY <1>1, PendingMoved
<1> QED
  BY <1>2, Accounted

LEMMA NextBalanced ==
    ASSUME SaverAssumption, ~saved.again, Inv, Inv', Lasting, Balanced, [Next]_vars
    PROVE  Balanced'
<1>0. /\ Procs \subseteq Goroutines /\ Cleaner \in Goroutines
      /\ checkpoints \in [Ids -> {"none", "fresh", "old"}] /\ currentSize \in Int /\ Size \in [Ids -> Nat]
      /\ StoredIds \in SUBSET Ids
      /\ \A p \in Goroutines : proc[p].at # "idle" => Id(p) \in Ids
  BY DEF Inv, TypeOK, AtWork, At, SaverAssumption, Goroutines, StoredIds
<1> DEFINE A == PendingSize(Adding)
           B == PendingSize(Subtracting)
<1>01. "idle" \notin Adding /\ "idle" \notin Subtracting /\ Adding \cap Subtracting = {}
  BY DEF Adding, Subtracting
<1>02. A \in Nat /\ B \in Nat /\ SumSize(StoredIds) \in Nat
  BY <1>0, <1>01, SharesAreWeights, StoredSums
<1>03. currentSize + A = SumSize(StoredIds) + B
  BY Accounted
<1>04. (\A i \in Ids : checkpoints'[i] # "none" <=> checkpoints[i] # "none") => StoredIds' = StoredIds
  BY DEF StoredIds, Stored
<1>1. ASSUME NEW p \in Procs, NEW id \in Ids, Save(p, id)
      PROVE  Balanced'
  <2>1. PICK place \in {"evict", "store"} : p \in Goroutines /\ Moved(p, place, id, "none")
    BY <1>0, <1>1, CallsMove, ZenonT(40)
  <2>2. StoredIds' = StoredIds /\ currentSize' = currentSize
    BY <1>1 DEF Save, maps, StoredIds, Stored
  <2>3. proc[p].at \notin Adding \cup Subtracting /\ place \notin Adding \cup Subtracting
    BY <1>1, <2>1 DEF Save, At, Adding, Subtracting
  <2> QED
    BY <2>1, <2>2, <2>3, QuietMoved
<1>2. ASSUME NEW p \in Procs, NEW id \in Ids, Load(p, id)
      PROVE  Balanced'
  <2>1. p \in Goroutines /\ Moved(p, "check ttl", id, "none")
    BY <1>0, <1>2, CallsMove
  <2>2. StoredIds' = StoredIds /\ currentSize' = currentSize
    BY <1>2 DEF Load, maps, StoredIds, Stored
  <2>3. proc[p].at \notin Adding \cup Subtracting /\ "check ttl" \notin Adding \cup Subtracting
    BY <1>2 DEF Load, At, Adding, Subtracting
  <2> QED
    BY <2>1, <2>2, <2>3, QuietMoved
<1>3. ASSUME NEW p \in Procs, NEW id \in Ids, Delete(p, id)
      PROVE  Balanced'
  <2>1. p \in Goroutines /\ Moved(p, "delete", id, "asked")
    BY <1>0, <1>3, CallsMove
  <2>2. StoredIds' = StoredIds /\ currentSize' = currentSize
    BY <1>3 DEF Delete, maps, StoredIds, Stored
  <2>3. proc[p].at \notin Adding \cup Subtracting /\ "delete" \notin Adding \cup Subtracting
    BY <1>3 DEF Delete, At, Adding, Subtracting
  <2> QED
    BY <2>1, <2>2, <2>3, QuietMoved
<1>4. ASSUME NEW p \in Goroutines, EvictLock(p)
      PROVE  Balanced'
  <2>1. p \in Goroutines /\ Moved(p, "evicting", Id(p), proc[p].reason)
    BY <1>0, <1>4, Moves
  <2>2. StoredIds' = StoredIds /\ currentSize' = currentSize
    BY <1>4 DEF EvictLock, maps, StoredIds, Stored
  <2>3. proc[p].at \notin Adding \cup Subtracting /\ "evicting" \notin Adding \cup Subtracting
    BY <1>4 DEF EvictLock, At, Adding, Subtracting
  <2> QED
    BY <2>1, <2>2, <2>3, QuietMoved
<1>5. ASSUME NEW p \in Goroutines, EvictOne(p)
      PROVE  Balanced'
  <2>1. PICK id \in accessOrder : Moved(p, "delete", id, "evicted")
    BY <1>5, Moves
  <2>2. StoredIds' = StoredIds /\ currentSize' = currentSize
    BY <1>5 DEF EvictOne, maps, StoredIds, Stored
  <2>3. proc[p].at \notin Adding \cup Subtracting /\ "delete" \notin Adding \cup Subtracting
    BY <1>5 DEF EvictOne, At, Adding, Subtracting
  <2> QED
    BY <2>1, <2>2, <2>3, QuietMoved
<1>6. ASSUME NEW p \in Goroutines, EvictNone(p)
      PROVE  Balanced'
  <2>1. p \in Goroutines /\ Moved(p, "idle", NoId, "none")
    BY <1>0, <1>6, Moves
  <2>2. StoredIds' = StoredIds /\ currentSize' = currentSize
    BY <1>6 DEF EvictNone, maps, StoredIds, Stored
  <2>3. proc[p].at \notin Adding \cup Subtracting /\ "idle" \notin Adding \cup Subtracting
    BY <1>6 DEF EvictNone, At, Adding, Subtracting
  <2> QED
    BY <2>1, <2>2, <2>3, QuietMoved
<1>7. ASSUME NEW p \in Goroutines, SetTTL(p)
      PROVE  Balanced'
  <2>1. p \in Goroutines /\ Moved(p, "set order", Id(p), proc[p].reason)
    BY <1>0, <1>7, Moves
  <2>2. StoredIds' = StoredIds /\ currentSize' = currentSize
    <3>1. \A i \in Ids : checkpoints'[i] # "none" <=> checkpoints[i] # "none"
      BY <1>0, <1>7 DEF SetTTL
    <3> QED
      BY <1>04, <1>7, <3>1 DEF SetTTL
  <2>3. proc[p].at \in Adding /\ "set order" \in Adding
    BY <1>7 DEF SetTTL, At, Adding
  <2> QED
    BY <2>1, <2>2, <2>3, QuietMoved
<1>8. ASSUME NEW p \in Goroutines, SetOrder(p)
      PROVE  Balanced'
  <2>1. p \in Goroutines /\ Moved(p, "add size", Id(p), proc[p].reason)
    BY <1>0, <1>8, Moves
  <2>2. StoredIds' = StoredIds /\ currentSize' = currentSize
    BY <1>8 DEF SetOrder, maps, StoredIds, Stored
  <2>3. proc[p].at \in Adding /\ "add size" \in Adding
    BY <1>8 DEF SetOrder, At, Adding
  <2> QED
    BY <2>1, <2>2, <2>3, QuietMoved
<1>9. ASSUME NEW p \in Goroutines, DeleteTTL(p)
      PROVE  Balanced'
  <2>1. p \in Goroutines /\ Moved(p, "delete order", Id(p), proc[p].reason)
    BY <1>0, <1>9, Moves
  <2>2. StoredIds' = StoredIds /\ currentSize' = currentSize
    BY <1>9 DEF DeleteTTL, maps, StoredIds, Stored
  <2>3. proc[p].at \notin Adding \cup Subtracting /\ "delete order" \notin Adding \cup Subtracting
    BY <1>9 DEF DeleteTTL, At, Adding, Subtracting
  <2> QED
    BY <2>1, <2>2, <2>3, QuietMoved
<1>10. ASSUME NEW p \in Goroutines, DeleteOrder(p)
      PROVE  Balanced'
  <2>1. p \in Goroutines /\ Moved(p, "idle", NoId, "none")
    BY <1>0, <1>10, Moves
  <2>2. StoredIds' = StoredIds /\ currentSize' = currentSize
    BY <1>10 DEF DeleteOrder, maps, StoredIds, Stored
  <2>3. proc[p].at \notin Adding \cup Subtracting /\ "idle" \notin Adding \cup Subtracting
    BY <1>10 DEF DeleteOrder, At, Adding, Subtracting
  <2> QED
    BY <2>1, <2>2, <2>3, QuietMoved
<1>11. ASSUME NEW p \in Goroutines, CheckTTL(p)
      PROVE  Balanced'
  <2>1. PICK place \in {"delete", "touch", "idle"}, id \in {Id(p), NoId}, reason \in {"expired", "none", proc[p].reason} :
           Moved(p, place, id, reason)
    BY <1>11, Moves
  <2>2. StoredIds' = StoredIds /\ currentSize' = currentSize
    BY <1>11 DEF CheckTTL, maps, StoredIds, Stored
  <2>3. proc[p].at \notin Adding \cup Subtracting /\ place \notin Adding \cup Subtracting
    BY <1>11, <2>1 DEF CheckTTL, At, Adding, Subtracting
  <2> QED
    BY <2>1, <2>2, <2>3, QuietMoved
<1>12. ASSUME NEW p \in Goroutines, Touch(p)
      PROVE  Balanced'
  <2>1. p \in Goroutines /\ Moved(p, "idle", NoId, "none")
    BY <1>0, <1>12, Moves
  <2>2. StoredIds' = StoredIds /\ currentSize' = currentSize
    BY <1>12 DEF Touch, maps, StoredIds, Stored
  <2>3. proc[p].at \notin Adding \cup Subtracting /\ "idle" \notin Adding \cup Subtracting
    BY <1>12 DEF Touch, At, Adding, Subtracting
  <2> QED
    BY <2>1, <2>2, <2>3, QuietMoved
<1>13. ASSUME NEW p \in Goroutines, Store(p)
      PROVE  Balanced'
  <2>1. Moved(p, "set ttl", Id(p), proc[p].reason) /\ proc[p].at = "store"
    BY <1>13, Moves DEF Store, At
  <2>2. Id(p) \in Ids /\ ~Stored(Id(p))
    BY <1>0, <2>1 DEF Lasting, NotYetStored, Saving, Unknown
  <2>3. StoredIds' = StoredIds \cup {Id(p)} /\ Id(p) \in Ids \ StoredIds /\ currentSize' = currentSize
    BY <1>0, <1>13, <2>2 DEF Store, StoredIds, Stored
  <2>4. SumSize(StoredIds') = SumSize(StoredIds) + Size[Id(p)]
    BY <1>0, <2>3, StoredSums
  <2>5. PendingSize(Adding)' = A + Size[Id(p)] /\ PendingSize(Subtracting)' = B
    <3>1. /\ proc[p].at \notin Adding /\ "set ttl" \in Adding
          /\ proc[p].at \notin Subtracting /\ "set ttl" \notin Subtracting
      BY <2>1 DEF Adding, Subtracting
    <3> DEFINE id == Id(p)
               reason == proc[p].reason
    <3>2. Moved(p, "set ttl", id, reason)
      BY <2>1
    <3> HIDE DEF id, reason
    <3>3. PendingSize(Adding)' = PendingSize(Adding) + Size[id]
      BY <1>01, <3>1, <3>2, PendingGrows
    <3>4. PendingSize(Subtracting)' = PendingSize(Subtracting)
      BY <1>01, <3>1, <3>2, PendingMoved
    <3> QED
      BY <3>3, <3>4 DEF id
  <2>6. Size[Id(p)] \in Nat
    BY <1>0, <2>2
  <2> HIDE DEF A, B
  <2>7. currentSize' + PendingSize(Adding)' = SumSize(StoredIds') + PendingSize(Subtracting)'
    BY <1>0, <1>02, <1>03, <2>3, <2>4, <2>5, <2>6
  <2> QED
    BY <2>7, Accounted
<1>14. ASSUME NEW p \in Goroutines, AddSize(p)
      PROVE  Balanced'
  <2>1. Moved(p, "idle", NoId, "none") /\ proc[p].at = "add size"
    BY <1>14, Moves DEF AddSize, At
  <2>2. Id(p) \in Ids
    BY <1>0, <2>1
  <2>3. StoredIds' = StoredIds /\ currentSize' = currentSize + Size[Id(p)]
    BY <1>14 DEF AddSize, StoredIds, Stored
  <2>5. PendingSize(Adding)' = A - Size[Id(p)] /\ PendingSize(Subtracting)' = B
    <3>1. /\ proc[p].at \in Adding /\ "idle" \notin Adding
          /\ proc[p].at \notin Subtracting /\ "idle" \notin Subtracting
      BY <2>1 DEF Adding, Subtracting
    <3>2. PendingSize(Adding)' = A - Size[Id(p)]
      BY <2>1, <3>1, PendingMoved
    <3>3. PendingSize(Subtracting)' = B
      BY <2>1, <3>1, PendingMoved
    <3> QED
      BY <3>2, <3>3
  <2>6. Size[Id(p)] \in Nat
    BY <1>0, <2>2
  <2> HIDE DEF A, B
  <2>7. currentSize' + PendingSize(Adding)' = SumSize(StoredIds') + PendingSize(Subtracting)'
    BY <1>0, <1>02, <1>03, <2>3, <2>5, <2>6
  <2> QED
    BY <2>7, Accounted
<1>15. ASSUME NEW p \in Goroutines, LoadAndDelete(p)
      PROVE  Balanced'
  <2>0. proc[p].at = "delete"
    BY <1>15 DEF LoadAndDelete, At
  <2>2. Id(p) \in Ids
    BY <1>0, <2>0
  <2>3. currentSize' = currentSize /\ checkpoints' = [checkpoints EXCEPT ![Id(p)] = "none"]
    BY <1>15 DEF LoadAndDelete
  <2>4. CASE ~Stored(Id(p))
    <3>1. Moved(p, "delete ttl", Id(p), proc[p].reason)
      BY <1>15, <2>4, Moves
    <3>2. StoredIds' = StoredIds
      BY <1>0, <2>2, <2>3, <2>4 DEF StoredIds, Stored
    <3>3. proc[p].at \notin Adding \cup Subtracting /\ "delete ttl" \notin Adding \cup Subtracting
      BY <2>0 DEF Adding, Subtracting
    <3> QED
      BY <2>3, <3>1, <3>2, <3>3, QuietMoved
  <2>5. CASE Stored(Id(p))
    <3>1. Moved(p, "subtract size", Id(p), proc[p].reason)
      BY <1>15, <2>5, Moves
    <3>2. StoredIds' = StoredIds \ {Id(p)} /\ Id(p) \in StoredIds
      BY <1>0, <2>2, <2>3, <2>5 DEF StoredIds, Stored
    <3>3. SumSize(StoredIds') = SumSize(StoredIds) - Size[Id(p)]
      BY <1>0, <3>2, StoredSums
    <3>4. PendingSize(Adding)' = A /\ PendingSize(Subtracting)' = B + Size[Id(p)]
      <4>1. /\ proc[p].at \notin Adding /\ "subtract size" \notin Adding
            /\ proc[p].at \notin Subtracting /\ "subtract size" \in Subtracting
        BY <2>0 DEF Adding, Subtracting
      <4>2. PendingSize(Adding)' = A
        BY <1>01, <3>1, <4>1, PendingMoved
      <4>3. PendingSize(Subtracting)' = B + Size[Id(p)]
        <5> DEFINE id == Id(p)
                   reason == proc[p].reason
        <5>1. Moved(p, "subtract size", id, reason)
          BY <3>1
        <5> HIDE DEF id, reason
        <5>2. PendingSize(Subtracting)' = PendingSize(Subtracting) + Size[id]
          BY <1>01, <4>1, <5>1, PendingGrows
        <5> QED
          BY <5>2 DEF id
      <4> QED
        BY <4>2, <4>3
    <3>5. Size[Id(p)] \in Nat
      BY <1>0, <2>2
    <3> HIDE DEF A, B
    <3>6. currentSize' + PendingSize(Adding)' = SumSize(StoredIds') + PendingSize(Subtracting)'
      BY <1>0, <1>02, <1>03, <2>3, <3>3, <3>4, <3>5
    <3> QED
      BY <3>6, Accounted
  <2> QED
    BY <2>4, <2>5
<1>16. ASSUME NEW p \in Goroutines, SubtractSize(p)
      PROVE  Balanced'
  <2>1. Moved(p, "delete ttl", Id(p), proc[p].reason) /\ proc[p].at = "subtract size"
    BY <1>16, Moves DEF SubtractSize, At
  <2>2. Id(p) \in Ids
    BY <1>0, <2>1
  <2>3. StoredIds' = StoredIds /\ currentSize' = currentSize - Size[Id(p)]
    BY <1>16 DEF SubtractSize, StoredIds, Stored
  <2>5. PendingSize(Adding)' = A /\ PendingSize(Subtracting)' = B - Size[Id(p)]
    <3>1. /\ proc[p].at \in Subtracting /\ proc[p].at \notin Adding
          /\ "delete ttl" \notin Adding /\ "delete ttl" \notin Subtracting
      BY <2>1 DEF Adding, Subtracting
    <3> QED
      BY <1>01, <2>1, <3>1, PendingMoved
  <2>6. Size[Id(p)] \in Nat
    BY <1>0, <2>2
  <2> HIDE DEF A, B
  <2>7. currentSize' + PendingSize(Adding)' = SumSize(StoredIds') + PendingSize(Subtracting)'
    BY <1>0, <1>02, <1>03, <2>3, <2>5, <2>6
  <2> QED
    BY <2>7, Accounted
<1>17. ASSUME CleanupTick \/ (\E id \in Ids : Expire(id)) \/ UNCHANGED vars
      PROVE  Balanced'
  <2>1. UNCHANGED <<proc, currentSize>>
    BY <1>17 DEF CleanupTick, Expire, maps, vars
  <2>2. \A i \in Ids : checkpoints'[i] # "none" <=> checkpoints[i] # "none"
    BY <1>0, <1>17 DEF CleanupTick, Expire, maps, vars
  <2>3. StoredIds' = StoredIds
    BY <1>04, <2>2
  <2>4. PendingSize(Adding)' = PendingSize(Adding) /\ PendingSize(Subtracting)' = PendingSize(Subtracting)
    BY <2>1 DEF PendingSize, Share, Id
  <2> QED
    BY <2>1, <2>3, <2>4, Accounted
<1>18. ASSUME CleanupNext
      PROVE  Balanced'
  <2>1. PICK id \in expiredKeys : Moved(Cleaner, "delete", id, "expired")
    BY <1>18, CleanupMoves
  <2>2. StoredIds' = StoredIds /\ currentSize' = currentSize
    BY <1>18 DEF CleanupNext, maps, StoredIds, Stored
  <2>3. proc[Cleaner].at \notin Adding \cup Subtracting /\ "delete" \notin Adding \cup Subtracting
    BY <1>18 DEF CleanupNext, At, Adding, Subtracting
  <2> QED
    BY <1>0, <2>1, <2>2, <2>3, QuietMoved
<1> QED
  BY <1>1, <1>2, <1>3, <1>4, <1>5, <1>6, <1>7, <1>8, <1>9, <1>10, <1>11, <1>12, <1>13, <1>14, <1>15, <1>16, <1>17, <1>18 DEF Next, Continue

(* The size is accounted for by what is stored, and every checkpoint keeps a
   time to live. *)
LEMMA InitOnce == SaverAssumption /\ Init => Lasting /\ SizeIsAccounted
<1> SUFFICES ASSUME SaverAssumption, Init
             PROVE  Lasting /\ SizeIsAccounted
  OBVIOUS
<1>1. Lasting
  BY DEF Init, Lasting, NotYetStored, Unknown, TornIsKnown, WillExpire, Taken, Stored, Id, Idle, SaverAssumption,
         Saving, Goroutines, At
<1>2. StoredIds = {} /\ currentSize = 0
  BY DEF Init, StoredIds, Stored
<1>3. SumSize({}) = 0
  BY SumEmpty DEF SumSize
<1>4. ASSUME NEW places, "idle" \notin places
      PROVE  PendingSize(places) = 0
  <2>1. Share(places) = [p \in Goroutines |-> 0]
    BY <1>4 DEF Init, Share, Idle
  <2>2. IsFiniteSet(Goroutines)
    BY FS_AddElement DEF SaverAssumption, Goroutines
  <2>3. Pile([p \in Goroutines |-> 0], Goroutines) = {}
    BY DEF Pile
  <2>4. Weights([p \in Goroutines |-> 0], Goroutines)
    BY DEF Weights
  <2>5. SumFunctionOnSet([p \in Goroutines |-> 0], Goroutines) = 0
    BY <2>2, <2>3, <2>4, SumIsPile, FS_EmptySet
  <2> QED
    BY <2>1, <2>5, Zenon DEF PendingSize
<1>5. PendingSize(Adding) = 0 /\ PendingSize(Subtracting) = 0
  BY <1>4 DEF Adding, Subtracting
<1> QED
  BY <1>1, <1>2, <1>3, <1>5, Accounted DEF SizeIsAccounted

LEMMA NextAccounted ==
    ASSUME SaverAssumption, Inv, Inv', Lasting, SizeIsAccounted, [Next]_vars
    PROVE  SizeIsAccounted'
<1>1. saved.again => saved'.again
  <2>1. saved \in [ids : SUBSET Ids, calls : 0 .. MaxSaves, again : BOOLEAN, torn : SUBSET Ids]
    BY DEF Inv, TypeOK
  <2>2. \A p \in Procs, id \in Ids : Save(p, id) => saved'.again = (saved.again \/ id \in saved.ids)
    BY <2>1 DEF Save
  <2>3. \A p \in Goroutines : Store(p) \/ SetTTL(p) \/ LoadAndDelete(p) => saved'.again = saved.again
    BY <2>1 DEF Store, SetTTL, LoadAndDelete
  <2>4. \A p \in Goroutines : Continue(p) => saved'.again = saved.again
    BY <2>3 DEF Continue, EvictLock, EvictOne, EvictNone, SetOrder, AddSize, SubtractSize,
                DeleteTTL, DeleteOrder, CheckTTL, Touch
  <2>5. ASSUME \/ CleanupTick \/ CleanupNext \/ UNCHANGED vars
               \/ \E id \in Ids : Expire(id)
               \/ \E p \in Procs, id \in Ids : Load(p, id) \/ Delete(p, id)
        PROVE  saved' = saved
    BY <2>5 DEF CleanupTick, CleanupNext, vars, Expire, Load, Delete
  <2> QED
    BY <2>2, <2>4, <2>5 DEF Next
<1> QED
  BY <1>1, NextBalanced DEF SizeIsAccounted

LEMMA FullInvariance == SaverAssumption => (Spec => []FullInv)
<1> SUFFICES ASSUME SaverAssumption
             PROVE  Spec => []FullInv
  OBVIOUS
<1>1. Init => FullInv
  BY InitInv, InitOnce DEF FullInv, Lasting
<1>2. FullInv /\ [Next]_vars => FullInv'
  <2>1. FullInv /\ [Next]_vars => Inv'
    BY NextInv DEF FullInv
  <2> QED
    BY <2>1, NextLasting, NextAccounted DEF FullInv, Lasting
<1> QED
  BY <1>1, <1>2, PTL DEF Spec

(* Every checkpoint that is stored has a time to live, or is about to get it from its
   Save, or is torn: however Save, Load, Delete and the cleanup race, also for an ID that
   is saved again and again, nothing but a deletion that had begun before the checkpoint
   was stored can take its ttlMap entry. *)
THEOREM EveryCheckpointWillExpire == SaverAssumption => (Spec => []WillExpire)
<1>1. FullInv => WillExpire
  BY DEF FullInv
<1> QED
  BY <1>1, FullInvariance, PTL

(* The size that decides on admission and eviction is the size of what is stored, but
   for the visits that are still to be made, for any number of goroutines and any
   sizes, until an ID is saved again. *)
THEOREM SizeAccounting == SaverAssumption => (Spec => []SizeIsAccounted)
<1>1. FullInv => SizeIsAccounted
  BY DEF FullInv
<1> QED
  BY <1>1, FullInvariance, PTL
================================================================================
