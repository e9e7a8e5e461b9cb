-------------------------------- MODULE Reducers --------------------------------
(***************************************************************************)
(* The state reducers (internal/core/channel/reducers.go) on what a state  *)
(* map has under one key.  Reduce copies the map and goes through the keys *)
(* one by one; what the copy and the result have in common with the        *)
(* current state are the values, and a slice is a piece of an array:       *)
(* appending writes into the array if it has room.                         *)
(*                                                                         *)
(* `held' are the values the caller has, those it began with and the       *)
(* results so far.  An int, an int64, a float64 and a string are a kind    *)
(* and a number.                                                           *)
(***************************************************************************)
EXTENDS Naturals, Sequences, SequencesExt

CONSTANTS
    Kinds,           \* of the comparable values
    MaxArray,        \* bound on the capacity of an array
    MaxHeld,         \* bound on the values held
    FirstArrays,     \* the arrays and the values a caller may begin with
    FirstHeld

VARIABLES
    arrays,          \* arrays[a]: the elements, as many as its capacity
    held,
    meaning,         \* history: what each value was when the caller got it
    touched          \* history: the values an append may have written over

reducerVars == <<arrays, held, meaning, touched>>

Absent == [kind |-> "absent"]
Unset == [kind |-> "zero"]             \* the rest of an array's capacity
Scalar(k, n) == [kind |-> k, n |-> n]
Slice(a, len) == [kind |-> "slice", array |-> a, len |-> len]

(* a slice is a piece of an array that there is *)
Fits(heap, v) ==
    v.kind = "slice" => \E a \in DOMAIN heap : \E len \in 0 .. Len(heap[a]) : v = Slice(a, len)

ASSUME ReducersAssumption ==
    /\ {MaxArray, MaxHeld} \subseteq Nat
    /\ FirstArrays \in Seq(Seq(UNION {ToSet(array) : array \in ToSet(FirstArrays)}))
    /\ FirstHeld \in Seq(ToSet(FirstHeld))
    /\ \A v \in ToSet(FirstHeld) : Fits(FirstArrays, v)

(* what a holder of v sees *)
View(heap, v) == IF v.kind = "slice" THEN SubSeq(heap[v.array], 1, v.len) ELSE <<v>>

ReducersInit ==
    /\ arrays = FirstArrays /\ held = FirstHeld
    /\ meaning = [i \in DOMAIN FirstHeld |-> View(FirstArrays, FirstHeld[i])]
    /\ touched = {}

Got(heap, v) ==
    /\ arrays' = heap
    /\ held' = Append(held, v)
    /\ meaning' = Append(meaning, View(heap, v))

(* a key that one of the states lacks has the value of the other, itself *)
ReduceMissing(current, update) ==
    /\ current = Absent \/ update = Absent
    /\ Got(arrays, IF update = Absent THEN current ELSE update)
    /\ UNCHANGED touched

(* mergeValues without maps, ReplaceReducer: the update *)
ReduceReplace(current, update) ==
    /\ Absent \notin {current, update}
    /\ Got(arrays, update)
    /\ UNCHANGED touched

(* MaxReducer: of values of different kinds the current one, of values that cannot
   be compared the update *)
MaxValue(current, update) ==
    IF current.kind \notin Kinds THEN update
    ELSE IF update.kind = current.kind /\ update.n > current.n THEN update ELSE current

MinValue(current, update) ==
    IF current.kind \notin Kinds THEN update
    ELSE IF update.kind = current.kind /\ update.n < current.n THEN update ELSE current

ReduceExtreme(current, update) ==
    /\ Absent \notin {current, update}
    /\ Got(arrays, MaxValue(current, update)) \/ Got(arrays, MinValue(current, update))
    /\ UNCHANGED touched

(* append to a full array: a new one of a capacity that is up to the runtime *)
Grown(items) == {items \o [i \in 1 .. room |-> Unset] : room \in 0 .. (MaxArray - Len(items))}

(* Mutant: the first element is written over as well *)
AppendInPlace_FromStart(v, items) ==
    LET written == [i \in DOMAIN arrays[v.array] |->
                       IF i \in 1 .. Len(items) THEN items[i] ELSE arrays[v.array][i]]
    IN  [arrays EXCEPT ![v.array] = written]

AppendInPlace(v, items) ==
    LET written == [i \in DOMAIN arrays[v.array] |->
                       IF i \in v.len + 1 .. v.len + Len(items) THEN items[i - v.len]
                       ELSE arrays[v.array][i]]
    IN  [arrays EXCEPT ![v.array] = written]

(* appendValues with a slice as its current value *)
ReduceAppend(current, update) ==
    LET items == View(arrays, update)
        len == current.len + Len(items)
    IN  /\ current.kind = "slice" /\ update # Absent
        /\ IF len <= Len(arrays[current.array])
           THEN /\ Got(AppendInPlace(current, items), Slice(current.array, len))
                /\ touched' = touched \cup
                      {i \in DOMAIN held : held[i].kind = "slice" /\ held[i].array = current.array
                                           /\ held[i].len > current.len}
           ELSE /\ \E fresh \in Grown(View(arrays, current) \o items) :
                      Got(Append(arrays, fresh), Slice(Len(arrays) + 1, len))
                /\ UNCHANGED touched

(* Otherwise a new slice: the current value before the elements of the update, with
   no room to spare, or both *)
ReducePair(current, update) ==
    LET items == <<current>> \o View(arrays, update) IN
    /\ current.kind \notin {"slice", "absent"} /\ update # Absent
    /\ Got(Append(arrays, items), Slice(Len(arrays) + 1, Len(items)))
    /\ UNCHANGED touched

Reduce(current, update) ==
    /\ Len(held) < MaxHeld
    /\ \/ ReduceMissing(current, update) \/ ReduceReplace(current, update)
       \/ ReduceExtreme(current, update)
       \/ ReduceAppend(current, update) \/ ReducePair(current, update)

ReducersNext == \E i, j \in DOMAIN held : Reduce(held[i], held[j])

ReducersSpec == ReducersInit /\ [][ReducersNext]_reducerVars

--------------------------------------------------------------------------------
(* Properties *)

(* A reduction changes no value its caller holds, the two it combines included, with
   one exception: an append to a slice with spare capacity writes over whatever an
   earlier append to it has put there, so of two results built from the same state,
   the earlier may change.  What is returned is always exact (appendValues). *)
ReduceIsPure ==
    \A i \in DOMAIN held : i \notin touched => View(arrays, held[i]) = meaning[i]
================================================================================
