---- MODULE MCInMemorySaver ----
(* Small instances of InMemorySaver for TLC. *)
EXTENDS InMemorySaver, TLC

CONSTANTS p1, p2, c1, c2

SizeOne == [id \in Ids |-> 1]
OneAndTwo == [id \in Ids |-> IF id = c1 THEN 1 ELSE 2]
ProcSymmetry == Permutations(Procs)
====
