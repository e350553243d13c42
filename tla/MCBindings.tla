----------------------------- MODULE MCBindings -----------------------------
(* Instance of Bindings for TLC. *)
EXTENDS Bindings

\* Keys: 10 a letter, 11 and 12 Shift, 13 Num Lock, 14 Caps Lock, 15 Scroll Lock.
Keys == {10, 11, 12, 13, 14, 15}

\* Masks: 1 Shift, 2 Lock, 16 and 32 Mod2 and Mod3.  Num Lock is one of them,
\* and Scroll Lock the other one or none.
Masks == {1, 2, 16, 32}
Locks(num, scroll) ==
  [m \in Masks |-> CASE m = 1 -> {11, 12} [] m = 2 -> {14}
                     [] OTHER -> {k \in {13, 15} : m = IF k = 13 THEN num ELSE scroll}]
Mappings == {Locks(16, 32), Locks(32, 0)}

\* A letter or any key, with no, with some or with any modifiers.
Bound3(f, key) ==
  {[act |-> 0, kcb |-> key, state |-> s, waitrel |-> s # {}, func |-> f] :
     s \in {{}, {1}, {AnyModifier}}}
Some ==
  Bound3("f", 10) \cup Bound3("f", AnyKey)
  \cup {[act |-> 0, kcb |-> 10, state |-> {1}, waitrel |-> FALSE, func |-> "g"],
        [act |-> 1, kcb |-> 10, state |-> {1}, waitrel |-> FALSE, func |-> "g"]}
=============================================================================
