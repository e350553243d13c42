----------------------------- MODULE MCSession ------------------------------
(* Instance of Session for TLC. *)
EXTENDS Session, TLC

CONSTANTS w1, w2

\* The second window is a transient of the first.
Transients == (w1 :> NULL) @@ (w2 :> w1)

\* A split with three sides and an id twice.
Double == <<Item("workspace", 0), Item("split", 0), Item("frame", 10), Item("frame", 10),
            Item("frame", 12), Item("end", 0), Item("end", 0)>>

\* A frame with a low id and one with the last one, and a workspace without a frame.
LowAndLast == <<Item("workspace", 0), Item("split", 0), Item("frame", 5), Item("frame", 14),
                Item("end", 0), Item("end", 0),
                Item("workspace", 0), Item("split", 0), Item("end", 0), Item("end", 0)>>

Texts == {<<<<>>, <<>>>>, <<Double, <<>>>>, <<LowAndLast, <<>>>>, <<<<>>, Double>>}

OneScreenLarge == <<2, 1>>
Symmetry == Permutations(Frame)
=============================================================================
