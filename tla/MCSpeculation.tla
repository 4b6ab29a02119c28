---- MODULE MCSpeculation ----
(* A handle that speculates, and another process. *)
EXTENDS Speculation, TLC

NameSymmetry == Permutations(Name)
====
