------------------------------ MODULE StateService ------------------------------
(***************************************************************************)
(* StateService and EnhancedStateService (internal/app/services/state.go,  *)
(* enhanced_state.go): the state of an execution by its ID, here one ID.   *)
(*                                                                         *)
(* State maps are objects of the heap: each client's execution context has *)
(* one, which the client goes on changing, and so has each stored copy;    *)
(* the service holds a reference.  The enhanced service calls hooks and    *)
(* sends to the channel, a save does so without the mutex, and a loaded    *)
(* state is copied without it, key by key.  StateService holds it          *)
(* throughout; that its readers share it makes no difference.  A           *)
(* persistent channel would carry a copy.                                  *)
(***************************************************************************)
EXTENDS Naturals, Sequences, FiniteSets

CONSTANTS
    Clients, NoClient,
    Keys,
    NoRef, NoChannel,
    MaxVersion,        \* bound on the values of a key
    MaxCopies,         \* bound on the stored copies
    UpdateCapacity     \* of the channel

ASSUME StateServiceAssumption ==
    /\ NoClient \notin Clients /\ NoRef \notin Clients \cup Nat
    /\ Clients \cap Nat = {}      \* the copies are numbered
    /\ {MaxVersion, MaxCopies, UpdateCapacity} \subseteq Nat

VARIABLES
    enhanced,          \* which of the two services it is
    maps,              \* maps[r]: the map of a client (r \in Clients) or of the r-th copy
    stateRef,          \* the entry of `states', or NoRef
    mu,                \* who holds the mutex between two steps
    updates,           \* the channel: senders, whose own maps are the payload
    request            \* request[c]: the operation of c

stateVars == <<enhanced, maps, stateRef, mu, updates, request>>

NoCall == [at |-> "idle", ref |-> NoRef, todo |-> {}, from |-> NoClient,
           got |-> [k \in {} |-> 0], updated |-> FALSE]

StateInit ==
    /\ enhanced \in BOOLEAN
    /\ maps = [c \in Clients |-> [k \in Keys |-> 0]]
    /\ stateRef = NoRef /\ mu = NoClient /\ updates = NoChannel
    /\ request = [c \in Clients |-> NoCall]

At(c, p) == request[c].at = p
Go(c, p) == request' = [request EXCEPT ![c].at = p]
Finish(c) == request' = [request EXCEPT ![c] = NoCall]
Copies == DOMAIN maps \ Clients

(* the execution goes on and changes its own state *)
Work(c, k) ==
    /\ At(c, "idle") /\ maps[c][k] < MaxVersion
    /\ maps' = [maps EXCEPT ![c][k] = @ + 1]
    /\ UNCHANGED <<enhanced, stateRef, mu, updates, request>>

--------------------------------------------------------------------------------
(* SaveState, SaveStateWithChannel.  The enhanced service reads the old state in a
   critical section of its own, for the hooks, which it calls after storing. *)

CanStore(c) == At(c, "idle") /\ mu = NoClient /\ Cardinality(Copies) < MaxCopies

(* Mutant: the map of the caller is stored *)
StoreCopy_Shared(c) ==
    /\ CanStore(c)
    /\ stateRef' = c
    /\ Go(c, IF enhanced THEN "send" ELSE "idle")
    /\ UNCHANGED <<enhanced, maps, mu, updates>>

StoreCopy(c) ==
    LET r == Cardinality(Copies) + 1 IN
    /\ CanStore(c)
    /\ maps' = [x \in DOMAIN maps \cup {r} |-> IF x = r THEN maps[c] ELSE maps[x]]
    /\ stateRef' = r
    /\ Go(c, IF enhanced THEN "send" ELSE "idle")
    /\ UNCHANGED <<enhanced, mu, updates>>

(* without a channel nothing is sent; a full or closed one may end the wait with an
   error, after the state is stored *)
SendUpdate(c) ==
    /\ At(c, "send") /\ Finish(c)
    /\ IF updates # NoChannel /\ Len(updates) < UpdateCapacity
       THEN updates' = Append(updates, c)
       ELSE UNCHANGED updates
    /\ UNCHANGED <<enhanced, maps, stateRef, mu>>

--------------------------------------------------------------------------------
(* LoadState, LoadStateWithChannel *)

BeginLoad(c) ==
    /\ At(c, "idle") /\ mu = NoClient /\ stateRef # NoRef
    /\ request' = [request EXCEPT ![c] = [NoCall EXCEPT !.at = "copy", !.ref = stateRef, !.todo = Keys]]
    /\ mu' = IF enhanced THEN NoClient ELSE c
    /\ UNCHANGED <<enhanced, maps, stateRef, updates>>

CopyKey(c, k) ==
    /\ At(c, "copy") /\ k \in request[c].todo
    /\ request' = [request EXCEPT ![c].todo = @ \ {k},
                            ![c].got = [x \in DOMAIN @ \cup {k} |-> IF x = k THEN maps[request[c].ref][k] ELSE @[x]]]
    /\ UNCHANGED <<enhanced, maps, stateRef, mu, updates>>

EndLoad(c) ==
    /\ At(c, "copy") /\ request[c].todo = {}
    /\ Finish(c)
    /\ mu' = IF mu = c THEN NoClient ELSE mu
    /\ UNCHANGED <<enhanced, maps, stateRef, updates>>

--------------------------------------------------------------------------------
(* UpdateState, and UpdateStateViaChannel before it *)

(* Receive: the update is a reference to the sender's map *)
ReceiveUpdate(c) ==
    /\ enhanced /\ At(c, "idle")
    /\ updates # NoChannel /\ updates # <<>>
    /\ request' = [request EXCEPT ![c] = [NoCall EXCEPT !.at = "received", !.from = Head(updates)]]
    /\ updates' = Tail(updates)
    /\ UNCHANGED <<enhanced, maps, stateRef, mu>>

(* with no state to update it is an error *)
UpdateNothing(c) ==
    /\ At(c, "received") /\ mu = NoClient /\ stateRef = NoRef
    /\ Finish(c)
    /\ UNCHANGED <<enhanced, maps, stateRef, mu, updates>>

(* Whoever is copying the map meanwhile gets some of the update, or the runtime
   notices the race and ends the process *)
BeginUpdate(c) ==
    /\ mu = NoClient /\ stateRef # NoRef
    /\ (At(c, "received") \/ At(c, "idle"))
    /\ mu' = c
    /\ request' = [x \in Clients |->
          IF x = c THEN [request[c] EXCEPT !.at = "update", !.ref = stateRef, !.todo = Keys,
                                        !.from = IF At(c, "idle") THEN c ELSE @]
          ELSE IF At(x, "copy") /\ request[x].ref = stateRef THEN [request[x] EXCEPT !.updated = TRUE]
          ELSE request[x]]
    /\ UNCHANGED <<enhanced, maps, stateRef, updates>>

UpdateKey(c, k) ==
    /\ At(c, "update") /\ k \in request[c].todo
    /\ maps' = [maps EXCEPT ![request[c].ref][k] = maps[request[c].from][k]]
    /\ request' = [x \in Clients |-> IF x = c THEN [request[c] EXCEPT !.todo = @ \ {k}]
                                  ELSE IF At(x, "copy") /\ request[x].ref = request[c].ref
                                       THEN [request[x] EXCEPT !.updated = TRUE] ELSE request[x]]
    /\ UNCHANGED <<enhanced, stateRef, mu, updates>>

(* the hooks are called with the mutex held *)
EndUpdate(c) ==
    /\ At(c, "update") /\ request[c].todo = {}
    /\ mu' = NoClient
    /\ Finish(c)
    /\ UNCHANGED <<enhanced, maps, stateRef, updates>>

--------------------------------------------------------------------------------

CreateChannel(c) ==
    /\ enhanced /\ At(c, "idle") /\ mu = NoClient
    /\ updates' = <<>>
    /\ UNCHANGED <<enhanced, maps, stateRef, mu, request>>

CleanupState(c) ==
    /\ At(c, "idle") /\ mu = NoClient
    /\ stateRef' = NoRef /\ updates' = NoChannel
    /\ UNCHANGED <<enhanced, maps, mu, request>>

StateNext ==
    \E c \in Clients :
        \/ \E k \in Keys : Work(c, k) \/ CopyKey(c, k) \/ UpdateKey(c, k)
        \/ StoreCopy(c) \/ SendUpdate(c)
        \/ BeginLoad(c) \/ EndLoad(c)
        \/ ReceiveUpdate(c) \/ UpdateNothing(c) \/ BeginUpdate(c) \/ EndUpdate(c)
        \/ CreateChannel(c) \/ CleanupState(c)

StateSpec == StateInit /\ [][StateNext]_stateVars

--------------------------------------------------------------------------------
(* Properties *)

(* A loaded state is what one Save or Update had stored, never a mixture, although
   the enhanced service copies it without the mutex and clients go on changing their
   own maps, also those that are on the channel: a stored map is nobody else's.  The
   exception is an UpdateState of the same map during the copy, which only the
   enhanced service lets happen (SaveStateWithChannel, LoadStateWithChannel,
   copyExecutionContext, UpdateState). *)
LoadIsSnapshot ==
    \A c \in Clients :
        At(c, "copy") =>
            /\ request[c].updated => enhanced
            /\ ~request[c].updated => \A k \in DOMAIN request[c].got : request[c].got[k] = maps[request[c].ref][k]

--------------------------------------------------------------------------------
(* The inductive invariant *)

StateTypes ==
    /\ enhanced \in BOOLEAN
    /\ \E n \in Nat : maps \in [Clients \cup 1 .. n -> [Keys -> Nat]]
    /\ stateRef \in Copies \cup {NoRef}
    /\ request \in [Clients -> [at : {"idle", "send", "copy", "received", "update"},
                                ref : Copies \cup {NoRef}, todo : SUBSET Keys, from : Clients \cup {NoClient},
                                got : UNION {[K -> Nat] : K \in SUBSET Keys}, updated : BOOLEAN]]
    /\ updates \in Seq(Clients) \cup {NoChannel}

(* Who updates holds the mutex; so does who loads from StateService. *)
Locked ==
    \A c \in Clients :
        /\ At(c, "copy") => request[c].ref # NoRef /\ (~enhanced => mu = c)
        /\ At(c, "update") => request[c].ref # NoRef /\ request[c].from # NoClient /\ mu = c
        /\ At(c, "received") => request[c].from # NoClient

StateInv == StateTypes /\ Locked /\ LoadIsSnapshot
================================================================================
