---- MODULE MCPregelEngine ----
(* Small instances of PregelEngine for TLC. *)
EXTENDS PregelEngine, TLC

CONSTANTS v1, v2, v3

(* a vertex sends to nobody or to everybody *)
NoneOrAll == {{}, Vertices}
(* nobody sends: for the runs in which messages play no part *)
NoMessages == {{}}

VertexSymmetry == Permutations(Vertices)
====
