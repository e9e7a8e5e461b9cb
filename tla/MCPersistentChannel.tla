---- MODULE MCPersistentChannel ----
(* Small instances of PersistentChannel for TLC. *)
EXTENDS PersistentChannel, TLC

CONSTANTS m1, m2

OneEach == [m \in Msgs |-> 1]
OneAndTwo == [m \in Msgs |-> IF m = m1 THEN 1 ELSE 2]
MsgSymmetry == Permutations(Msgs)
====
