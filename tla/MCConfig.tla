------------------------------ MODULE MCConfig ------------------------------
(* Instance of Config for TLC. *)
EXTENDS Config
=============================================================================
