---- MODULE MCBranchManager ----
(* Small instances of BranchManager for TLC. *)
EXTENDS BranchManager

CONSTANTS b1, b2, p1, p2
====
