----------------------------- MODULE MCSplitTree -----------------------------
EXTENDS SplitTree, TLC
Symmetric == Permutations(Frame) \cup Permutations(Split)
=============================================================================
