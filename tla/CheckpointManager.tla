--------------------------- MODULE CheckpointManager ---------------------------
(***************************************************************************)
(* The in-memory CheckpointManager of the Pregel engine (recovery.go): a   *)
(* map from superstep numbers to a copy of the vertex states.  The map is  *)
(* a function whose DOMAIN is the set of supersteps that have a            *)
(* checkpoint; the key "step_%d" is the superstep itself.  A value stored  *)
(* here is never aliased by the engine: SaveCheckpoint and LoadCheckpoint  *)
(* both copy the top level of every vertex state.                          *)
(***************************************************************************)
EXTENDS Integers, FiniteSets

(* checkpoints: make(map...) -- no checkpoint yet *)
NoCheckpoints == [s \in {} |-> {}]

(* cleanupOldCheckpoints: delete every checkpoint more than max steps older
   than the current one *)
cleanupOldCheckpoints(cps, currentStep, max) ==
    [s \in {t \in DOMAIN cps : currentStep - t <= max} |-> cps[s]]

(* SaveCheckpoint: store a copy under the superstep's key, then clean up if
   there are more than max entries *)
SaveCheckpoint(cps, superstep, states, max) ==
    LET saved == [s \in DOMAIN cps \cup {superstep} |->
                     IF s = superstep THEN states ELSE cps[s]]
    IN  IF Cardinality(DOMAIN saved) > max
        THEN cleanupOldCheckpoints(saved, superstep, max)
        ELSE saved

(* LoadCheckpoint's second result *)
HasCheckpoint(cps, superstep) == superstep \in DOMAIN cps

(* LoadCheckpoint: a copy of what SaveCheckpoint stored *)
LoadCheckpoint(cps, superstep) == cps[superstep]

================================================================================
