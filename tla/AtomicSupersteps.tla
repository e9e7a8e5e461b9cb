---------------------------- MODULE AtomicSupersteps ----------------------------
(***************************************************************************)
(* What a Pregel engine promises its caller: Run goes through supersteps,  *)
(* each of which executes every active vertex once on the states that the  *)
(* one before left, all at the same time, or has no effect on the states   *)
(* and ends Run with an error.  Run goes on until nobody is active or the  *)
(* supersteps are used up.                                                 *)
(*                                                                         *)
(* This is the contract of an engine whose vertices get no messages, as    *)
(* those of CacheOptimizedEngine do.                                       *)
(***************************************************************************)
EXTENDS Naturals

CONSTANTS
    Vertices, MaxSupersteps,
    Compute(_, _, _, _)      \* what a program makes of a vertex, its state and its messages

VARIABLES program, states, active, halted, step, result

aVars == <<program, states, active, halted, step, result>>

Computed(v) == Compute(program, v, states[v], <<>>)

Start ==
    /\ result # "running"
    /\ result' = "running" /\ step' = 0
    /\ active' = [v \in Vertices |-> TRUE]
    /\ UNCHANGED <<program, states, halted>>

Superstep ==
    /\ result = "running" /\ step < MaxSupersteps /\ ~halted
    /\ states' = [v \in Vertices |-> IF active[v] THEN Computed(v).state ELSE states[v]]
    /\ active' = [v \in Vertices |-> active[v] /\ ~Computed(v).halt]
    /\ halted' = \A v \in Vertices : ~active'[v]
    /\ step' = step + 1
    /\ UNCHANGED <<program, result>>

(* which vertices are active no longer matters: the next Run starts all of them *)
Abort ==
    /\ result = "running" /\ step < MaxSupersteps /\ ~halted
    /\ result' = "failed"
    /\ active' \in [Vertices -> BOOLEAN]
    /\ UNCHANGED <<program, states, halted, step>>

Finish ==
    /\ result = "running" /\ (step = MaxSupersteps \/ halted)
    /\ result' = "ok"
    /\ UNCHANGED <<program, states, active, halted, step>>

AtomicNext == Start \/ Superstep \/ Abort \/ Finish
AtomicSpec == result = "none" /\ [][AtomicNext]_aVars
================================================================================
