------------------------------- MODULE MCGrabs -------------------------------
(* Instances of Grabs for TLC. *)
EXTENDS Grabs, TLC

Symmetry == Permutations(Frame) \cup Permutations(Cut)
=============================================================================
