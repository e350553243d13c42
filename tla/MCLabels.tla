------------------------------ MODULE MCLabels ------------------------------
(* Instance of Labels for TLC. *)
EXTENDS Labels, TLC

xterm  == <<"xterm">>
noname == <<"<untitled>">>

\* A program may well call its window "<untitled>".
TwoTitles  == {xterm, noname}
Symmetry   == Permutations(Client)
=============================================================================
