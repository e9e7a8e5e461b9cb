---- MODULE MCInMemoryChannel ----
(* Small instances of InMemoryChannel for TLC. *)
EXTENDS InMemoryChannel, TLC

CONSTANTS p1, p2, p3, m1, m2, bad

====
