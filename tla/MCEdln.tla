-------------------------------- MODULE MCEdln --------------------------------
(* Instances of Edln for TLC. *)
EXTENDS Edln, TLC

CONSTANTS a, dot

AlnumChars  == {a}
OtherChars  == {dot}
ShortTexts  == {<<>>, <<a>>, <<dot>>}
===============================================================================
