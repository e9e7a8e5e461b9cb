---- MODULE MCBufferedChannel ----
(* Small instances of BufferedChannel for TLC. *)
EXTENDS BufferedChannel, TLC

CONSTANTS p1, p2, p3, m1, m2, bad

ProcSymmetry == Permutations(Procs)
====
