--------------------------- MODULE MCWindowManager ---------------------------
(* WindowManager on small sets of things, which are interchangeable. *)
EXTENDS WindowManager, TLC

Symmetry == Permutations(Win) \cup Permutations(Client) \cup Permutations(Frame)
              \cup Permutations(Ws)
=============================================================================
