----------------------------- MODULE InMemorySaver -----------------------------
(***************************************************************************)
(* InMemorySaver (internal/adapters/repository/memory/checkpoint.go): the  *)
(* checkpoint store in memory, with a time to live, a memory limit and LRU *)
(* eviction.                                                               *)
(*                                                                         *)
(* Its state is in four places with a protection of their own: checkpoints *)
(* and ttlMap are sync.Maps, accessOrder has orderMutex and currentSize    *)
(* has sizeMutex.  Every operation visits them one after the other, and    *)
(* the operations of several goroutines and of the cleanup goroutine       *)
(* interleave between the visits.  A critical section of sizeMutex, and    *)
(* one of orderMutex that takes no other lock, is one step; evictLRU holds *)
(* orderMutex longer, which is orderOwner.                                 *)
(*                                                                         *)
(* accessOrder is the set of its keys: which entry is the oldest is left   *)
(* open.  The size of a checkpoint is Size[id].  An ID may be saved again  *)
(* at any time, also while a deletion of it is under way.                  *)
(***************************************************************************)
EXTENDS Integers, FiniteSets, Functions

CONSTANTS
    Procs, Cleaner,   \* the goroutines of the callers and the cleanup goroutine
    Ids, NoId,        \* checkpoint IDs
    Size,             \* Size[id]: length of the serialized checkpoint
    MaxMemory,        \* maxMemoryMB in bytes
    MaxSaves          \* bound on the number of Save calls

ASSUME SaverAssumption ==
    /\ IsFiniteSet(Procs) /\ IsFiniteSet(Ids)
    /\ Cleaner \notin Procs
    /\ NoId \notin Ids
    /\ Size \in [Ids -> Nat]
    /\ MaxMemory \in Nat
    /\ MaxSaves \in Nat

VARIABLES
    checkpoints,   \* "none", "fresh", or "old" when its time to live is over
    ttlMap,        \* "none", "fresh" or "expired"
    accessOrder,
    orderOwner,    \* who holds orderMutex beyond a step, or NoId
    currentSize,
    proc,          \* proc[p]: what p does next, for which ID, and what comes after delete
    expiredKeys,   \* the keys cleanupExpired still has to delete
    saved          \* history: ids and number of the Save calls, whether one of them
                   \* saved an ID again, and the torn checkpoints (see Store)

vars == <<checkpoints, ttlMap, accessOrder, orderOwner, currentSize, proc, expiredKeys, saved>>
maps == <<checkpoints, ttlMap, accessOrder, orderOwner, currentSize>>

Goroutines == Procs \cup {Cleaner}
Idle == [at |-> "idle", id |-> NoId, reason |-> "none"]

Init ==
    /\ checkpoints = [id \in Ids |-> "none"]
    /\ ttlMap = [id \in Ids |-> "none"]
    /\ accessOrder = {} /\ orderOwner = NoId /\ currentSize = 0
    /\ proc = [p \in Goroutines |-> Idle]
    /\ expiredKeys = {}
    /\ saved = [ids |-> {}, calls |-> 0, again |-> FALSE, torn |-> {}]

At(p, place) == proc[p].at = place
Id(p) == proc[p].id
Goto(p, place) == proc' = [proc EXCEPT ![p].at = place]
Return(p) == proc' = [proc EXCEPT ![p] = Idle]
Call(p, place, id, reason) ==
    proc' = [proc EXCEPT ![p] = [at |-> place, id |-> id, reason |-> reason]]
Stored(id) == checkpoints[id] # "none"

(* a deletion of id has taken what was stored and has yet to remove its time to live *)
Taken == {"subtract size", "delete ttl"}
BeingDeleted(id) == \E q \in Goroutines : proc[q].at \in Taken /\ Id(q) = id

--------------------------------------------------------------------------------
(* Save *)

(* checkMemoryLimit up to evictLRU *)
Save(p, id) ==
    /\ At(p, "idle")
    /\ saved.calls < MaxSaves
    /\ saved' = [saved EXCEPT !.ids = @ \cup {id}, !.calls = @ + 1,
                              !.again = @ \/ id \in saved.ids]
    /\ Call(p, IF currentSize + Size[id] > MaxMemory THEN "evict" ELSE "store", id, "none")
    /\ UNCHANGED <<maps, expiredKeys>>

EvictLock(p) ==
    /\ At(p, "evict") /\ orderOwner = NoId
    /\ orderOwner' = p
    /\ Goto(p, "evicting")
    /\ UNCHANGED <<checkpoints, ttlMap, accessOrder, currentSize, expiredKeys, saved>>

(* The first item of the list that is still stored.  delete then asks for orderMutex,
   which its own caller holds: what evictLRU does after it is never reached. *)
EvictOne(p) ==
    /\ At(p, "evicting")
    /\ \E id \in accessOrder : Stored(id) /\ Call(p, "delete", id, "evicted")
    /\ UNCHANGED <<maps, expiredKeys, saved>>

(* Nothing to evict: Save returns "memory limit exceeded" *)
EvictNone(p) ==
    /\ At(p, "evicting")
    /\ \A id \in accessOrder : ~Stored(id)
    /\ orderOwner' = NoId
    /\ Return(p)
    /\ UNCHANGED <<checkpoints, ttlMap, accessOrder, currentSize, expiredKeys, saved>>

(* A checkpoint stored while a deletion of its ID is under way is torn: that deletion
   will take its time to live. *)
Store(p) ==
    /\ At(p, "store")
    /\ checkpoints' = [checkpoints EXCEPT ![Id(p)] = "fresh"]
    /\ saved' = [saved EXCEPT !.torn = IF BeingDeleted(Id(p)) THEN @ \cup {Id(p)}
                                                            ELSE @ \ {Id(p)}]
    /\ Goto(p, "set ttl")
    /\ UNCHANGED <<ttlMap, accessOrder, orderOwner, currentSize, expiredKeys>>

(* Mutant: no time to live *)
SetNoTTL(p) ==
    /\ At(p, "set ttl")
    /\ Goto(p, "set order")
    /\ UNCHANGED <<maps, expiredKeys, saved>>

(* What is stored under the ID has all its time again, and keeps it unless a deletion
   of the ID is still under way. *)
SetTTL(p) ==
    /\ At(p, "set ttl")
    /\ ttlMap' = [ttlMap EXCEPT ![Id(p)] = "fresh"]
    /\ checkpoints' = [checkpoints EXCEPT ![Id(p)] = IF @ = "none" THEN @ ELSE "fresh"]
    /\ saved' = [saved EXCEPT !.torn = IF BeingDeleted(Id(p)) THEN @ ELSE @ \ {Id(p)}]
    /\ Goto(p, "set order")
    /\ UNCHANGED <<accessOrder, orderOwner, currentSize, expiredKeys>>

SetOrder(p) ==
    /\ At(p, "set order") /\ orderOwner = NoId
    /\ accessOrder' = accessOrder \cup {Id(p)}
    /\ Goto(p, "add size")
    /\ UNCHANGED <<checkpoints, ttlMap, orderOwner, currentSize, expiredKeys, saved>>

AddSize(p) ==
    /\ At(p, "add size")
    /\ currentSize' = currentSize + Size[Id(p)]
    /\ Return(p)
    /\ UNCHANGED <<checkpoints, ttlMap, accessOrder, orderOwner, expiredKeys, saved>>

--------------------------------------------------------------------------------
(* delete: the four places in turn *)

(* Mutant: Load and Delete instead of LoadAndDelete *)
LoadThenDelete(p) ==
    /\ At(p, "delete")
    /\ checkpoints' = [checkpoints EXCEPT ![Id(p)] = "none"]
    /\ saved' = [saved EXCEPT !.torn = @ \ {Id(p)}]
    /\ Goto(p, "subtract size")
    /\ UNCHANGED <<ttlMap, accessOrder, orderOwner, currentSize, expiredKeys>>

LoadAndDelete(p) ==
    /\ At(p, "delete")
    /\ checkpoints' = [checkpoints EXCEPT ![Id(p)] = "none"]
    /\ saved' = [saved EXCEPT !.torn = @ \ {Id(p)}]
    /\ Goto(p, IF Stored(Id(p)) THEN "subtract size" ELSE "delete ttl")
    /\ UNCHANGED <<ttlMap, accessOrder, orderOwner, currentSize, expiredKeys>>

SubtractSize(p) ==
    /\ At(p, "subtract size")
    /\ currentSize' = currentSize - Size[Id(p)]
    /\ Goto(p, "delete ttl")
    /\ UNCHANGED <<checkpoints, ttlMap, accessOrder, orderOwner, expiredKeys, saved>>

(* Mutant: delete skips accessOrder and its caller does not unlock *)
DeleteTTLOnly(p) ==
    /\ At(p, "delete ttl")
    /\ ttlMap' = [ttlMap EXCEPT ![Id(p)] = "none"]
    /\ Return(p)
    /\ UNCHANGED <<checkpoints, accessOrder, orderOwner, currentSize, expiredKeys, saved>>

DeleteTTL(p) ==
    /\ At(p, "delete ttl")
    /\ ttlMap' = [ttlMap EXCEPT ![Id(p)] = "none"]
    /\ Goto(p, "delete order")
    /\ UNCHANGED <<checkpoints, accessOrder, orderOwner, currentSize, expiredKeys, saved>>

DeleteOrder(p) ==
    /\ At(p, "delete order") /\ orderOwner = NoId
    /\ accessOrder' = accessOrder \ {Id(p)}
    /\ Return(p)
    /\ UNCHANGED <<checkpoints, ttlMap, orderOwner, currentSize, expiredKeys, saved>>

--------------------------------------------------------------------------------
(* Load, Delete, the cleanup goroutine *)

(* An ID that is not there is an error, here and in Delete.  List does the same for
   every key, without touching accessOrder. *)
Load(p, id) ==
    /\ At(p, "idle") /\ Stored(id)
    /\ Call(p, "check ttl", id, "none")
    /\ UNCHANGED <<maps, expiredKeys, saved>>

CheckTTL(p) ==
    /\ At(p, "check ttl")
    /\ IF ttlMap[Id(p)] = "expired"
       THEN Call(p, "delete", Id(p), "expired")
       ELSE Goto(p, "touch") \/ Return(p)      \* Load or List
    /\ UNCHANGED <<maps, expiredKeys, saved>>

Touch(p) ==
    /\ At(p, "touch") /\ orderOwner = NoId
    /\ accessOrder' = accessOrder \cup {Id(p)}
    /\ Return(p)
    /\ UNCHANGED <<checkpoints, ttlMap, orderOwner, currentSize, expiredKeys, saved>>

Delete(p, id) ==
    /\ At(p, "idle") /\ Stored(id)
    /\ Call(p, "delete", id, "asked")
    /\ UNCHANGED <<maps, expiredKeys, saved>>

(* cleanupExpired: collect the keys, then delete them one by one *)
CleanupTick ==
    /\ At(Cleaner, "idle") /\ expiredKeys = {}
    /\ expiredKeys' = {id \in Ids : ttlMap[id] = "expired"}
    /\ expiredKeys' # {}
    /\ UNCHANGED <<maps, proc, saved>>

(* Mutant: the keys are collected and not deleted *)
CleanupForget ==
    /\ At(Cleaner, "idle") /\ expiredKeys # {}
    /\ expiredKeys' = {}
    /\ UNCHANGED <<maps, proc, saved>>

CleanupNext ==
    /\ At(Cleaner, "idle")
    /\ \E id \in expiredKeys :
          /\ expiredKeys' = expiredKeys \ {id}
          /\ Call(Cleaner, "delete", id, "expired")
    /\ UNCHANGED <<maps, saved>>

(* The clock *)
Expire(id) ==
    /\ ttlMap[id] = "fresh"
    /\ ttlMap' = [ttlMap EXCEPT ![id] = "expired"]
    /\ checkpoints' = [checkpoints EXCEPT ![id] = IF @ = "none" THEN @ ELSE "old"]
    /\ UNCHANGED <<accessOrder, orderOwner, currentSize, proc, expiredKeys, saved>>

Continue(p) ==
    \/ EvictLock(p) \/ EvictOne(p) \/ EvictNone(p)
    \/ Store(p) \/ SetTTL(p) \/ SetOrder(p) \/ AddSize(p)
    \/ LoadAndDelete(p) \/ SubtractSize(p) \/ DeleteTTL(p) \/ DeleteOrder(p)
    \/ CheckTTL(p) \/ Touch(p)

Next ==
    \/ \E p \in Procs, id \in Ids : Save(p, id) \/ Load(p, id) \/ Delete(p, id)
    \/ \E p \in Goroutines : Continue(p)
    \/ CleanupTick \/ CleanupNext
    \/ \E id \in Ids : Expire(id)

Spec == Init /\ [][Next]_vars

(* Calls under way go on; the ticker of the cleanup goroutine ticks *)
Fairness ==
    /\ \A p \in Goroutines : WF_vars(Continue(p))
    /\ WF_vars(CleanupTick) /\ WF_vars(CleanupNext)

FairSpec == Spec /\ Fairness

--------------------------------------------------------------------------------
(* Properties *)

Places == {"idle", "evict", "evicting", "store", "set ttl", "set order", "add size",
           "delete", "subtract size", "delete ttl", "delete order", "check ttl", "touch"}

TypeOK ==
    /\ checkpoints \in [Ids -> {"none", "fresh", "old"}]
    /\ ttlMap \in [Ids -> {"none", "fresh", "expired"}]
    /\ accessOrder \subseteq Ids /\ orderOwner \in Procs \cup {NoId}
    /\ orderOwner # NoId =>                    \* only evictLRU keeps orderMutex
          At(orderOwner, "evicting") \/ proc[orderOwner].reason = "evicted"
    /\ currentSize \in Int
    /\ proc \in [Goroutines -> [at : Places, id : Ids \cup {NoId},
                                reason : {"none", "asked", "expired", "evicted"}]]
    /\ expiredKeys \subseteq Ids
    /\ saved \in [ids : SUBSET Ids, calls : 0 .. MaxSaves, again : BOOLEAN, torn : SUBSET Ids]

(* currentSize, on which admission and eviction decide, is the size of what is
   stored but for the visits that Save and delete still have to make: however Save,
   Load, Delete and the cleanup race for an ID, it is counted once and subtracted
   once (Save, delete).  Until an ID is saved again: Save then adds its size without
   subtracting that of the checkpoint it replaces, see README. *)
SumSize(ids) == SumFunctionOnSet(Size, ids)
Share(places) == [p \in Goroutines |-> IF proc[p].at \in places THEN Size[Id(p)] ELSE 0]
PendingSize(places) == SumFunctionOnSet(Share(places), Goroutines)

Balanced ==
    currentSize + PendingSize({"set ttl", "set order", "add size"})
        = SumSize({id \in Ids : Stored(id)}) + PendingSize({"subtract size"})

SizeIsAccounted == ~saved.again => Balanced

(* No checkpoint is stored without a time to live once its Save has got that far,
   even when it is loaded, deleted, expired or saved again while it is being saved.
   The one exception is a checkpoint that is stored in the middle of a deletion of
   its ID, after LoadAndDelete and before the deletion removes a time to live: that
   is the new checkpoint's then, and it stays for ever, see README (Save, delete,
   cleanupExpired). *)
WillExpire ==
    \A id \in Ids : Stored(id) =>
        \/ ttlMap[id] # "none"
        \/ \E p \in Procs : At(p, "set ttl") /\ Id(p) = id
        \/ id \in saved.torn

(* A checkpoint whose time is over is removed or saved anew, by whoever comes first,
   as long as nobody evicts: an eviction keeps orderMutex, see EvictionProceeds; and
   unless it is torn (Load, List, cleanupExpired, delete). *)
ExpiredAreRemoved ==
    \A id \in Ids :
        checkpoints[id] = "old" ~>
            (checkpoints[id] # "old" \/ orderOwner # NoId \/ id \in saved.torn)

--------------------------------------------------------------------------------
(* The inductive invariant *)

Saving == {"evict", "evicting", "store"}
Deleting == {"delete", "subtract size", "delete ttl", "delete order"}

(* Who works has an ID; the cleanup goroutine only deletes; and who deletes what it
   evicts has come from "evicting", where it took orderMutex. *)
AtWork ==
    /\ \A p \in Goroutines : ~At(p, "idle") => Id(p) \in Ids
    /\ proc[Cleaner].at \in Deleting \cup {"idle"}
    /\ \A p \in Goroutines : proc[p].reason = "evicted" => proc[p].at \in Deleting

(* An ID that was never saved is known to nobody, and neither is one that is being
   saved for the first time, ... *)
Unknown(id, others) ==
    /\ ~Stored(id) /\ ttlMap[id] = "none" /\ id \notin expiredKeys
    /\ \A p \in others : Id(p) # id

NotYetStored ==
    /\ \A id \in Ids \ saved.ids : Unknown(id, Goroutines)
    /\ ~saved.again =>
          \A p \in Goroutines : proc[p].at \in Saving => Unknown(Id(p), Goroutines \ {p})

(* ... and one that is stored again in the middle of its deletion is torn. *)
TornIsKnown ==
    /\ \A p \in Goroutines : proc[p].at \in Taken /\ Stored(Id(p)) => Id(p) \in saved.torn
    /\ saved.torn # {} => saved.again

Inv == TypeOK /\ AtWork
FullInv == Inv /\ NotYetStored /\ TornIsKnown /\ WillExpire /\ SizeIsAccounted

--------------------------------------------------------------------------------
(* What the documentation says and the code does not do *)

(* "Try to free memory using LRU eviction": evicting does not wait for itself. *)
EvictionProceeds == \A p \in Procs : ~(orderOwner = p /\ At(p, "delete order"))

================================================================================
