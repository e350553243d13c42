---------------------------- MODULE MCTokenizer ----------------------------
(* Instance of Tokenizer for TLC: all the characters of its classes. *)
EXTENDS Tokenizer

Chars == DOMAIN Hex \cup Letter \cup Space \cup Punct \cup {"."}
=============================================================================
