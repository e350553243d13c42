------------------------------ MODULE Bindings ------------------------------
(***************************************************************************)
(* A map of bindings, its search by key and modifiers, the grabs of its    *)
(* keys on a window, and the modifiers that are only locks (binding.c),    *)
(* with the wait for the release of the modifiers that kpress_waitrel asks *)
(* for (key.c).                                                            *)
(*                                                                         *)
(* A map is filled when the configuration is read; then frames grab its    *)
(* keys, the user types, and the mapping of modifiers may change.          *)
(***************************************************************************)
EXTENDS Integers, Sequences, FiniteSets, FiniteSetsExt

CONSTANTS
  Keycode,     \* keys of the keyboard, positive numbers
  NumLock,     \* the one with the keysym XK_Num_Lock
  ScrollLock,  \* the one with the keysym XK_Scroll_Lock
  Modifier,    \* masks of modifiers, powers of two
  LockMask,    \* the one of Caps Lock
  Modmaps,     \* possible mappings, from modifiers to sets of keys
  Action,      \* ACT_KEYPRESS and others, numbers
  Binding,     \* the bindings of the configuration files, as in a WBinding
  MaxBindings  \* bound on the map

ACT_KEYPRESS == 0
AnyKey == 0
AnyModifier == 32768

\* A key is in the mapping of one modifier at most: XSetModifierMapping refuses others.
ASSUME BindingsAssumption ==
  /\ Keycode \subseteq Nat \ {AnyKey} 
  /\ NumLock \in Keycode /\ ScrollLock \in Keycode /\ NumLock # ScrollLock
  /\ Modifier \subseteq Nat /\ LockMask \in Modifier
  /\ Modmaps \subseteq [Modifier -> SUBSET Keycode]
  /\ \A mods \in Modmaps, m, n \in Modifier : m # n => mods[m] \cap mods[n] = {}
  /\ Action \subseteq Nat /\ ACT_KEYPRESS \in Action /\ MaxBindings \in Nat
  /\ Binding \subseteq [act : Action, kcb : Keycode \cup {AnyKey},
                        state : (SUBSET Modifier) \cup {{AnyModifier}},
                        waitrel : BOOLEAN, func : {"f", "g"}]

VARIABLES
  map,      \* the bindings of a WBindmap
  bound,    \* what the configuration has bound, the last one of each combination
  modmap,   \* the X server's mapping of modifiers
  evil,     \* the masks of Num Lock and Scroll Lock, looked up by lookup_evil_locks
  grabs,    \* the keys that a frame's window has grabbed, with modifiers
  held,     \* the keys that the user holds down
  locks,    \* the locks that are on
  waiting   \* waitrelease_handler has the keyboard

bindingVars == <<map, bound, modmap, evil, grabs, held, locks, waiting>>

-----------------------------------------------------------------------------
(* The map. *)

Mask(state) == MapThenSumSet(LAMBDA m : m, state)

\* The masks are powers of two, so that those of different states differ.
ASSUME MaskAssumption ==
  \A s \in (SUBSET Modifier) \cup {{AnyModifier}} :
    Mask(s) \in Nat /\ \A t \in (SUBSET Modifier) \cup {{AnyModifier}} : Mask(s) = Mask(t) => s = t

\* compare_bindings returns 0.
Same(a, b) == a.act = b.act /\ a.kcb = b.kcb /\ a.state = b.state

\* compare_bindings returns -1.
Less(a, b) ==
  \/ a.act < b.act
  \/ a.act = b.act /\ a.kcb < b.kcb
  \/ a.act = b.act /\ a.kcb = b.kcb /\ Mask(a.state) < Mask(b.state)

\* Mutant: a binding is put after the ones that come after it.
AddBindingLast(m, b) ==
  LET at == CHOOSE n \in 1 .. Len(m) + 1 :
              (n = Len(m) + 1 \/ Same(m[n], b)) /\ \A i \in 1 .. n - 1 : ~Same(m[i], b)
  IN  SubSeq(m, 1, at - 1) \o <<b>> \o SubSeq(m, at + 1, Len(m))

\* add_binding: the loop stops at the first binding that b does not come after.
AddBinding(m, b) ==
  LET at   == CHOOSE n \in 1 .. Len(m) + 1 :
                (n = Len(m) + 1 \/ ~Less(m[n], b)) /\ \A i \in 1 .. n - 1 : Less(m[i], b)
      rest == IF at <= Len(m) /\ Same(m[at], b) THEN at + 1 ELSE at
  IN  SubSeq(m, 1, at - 1) \o <<b>> \o SubSeq(m, rest, Len(m))

\* search_binding (bsearch): its place, or 0.
Search(m, b) ==
  LET find[p \in (0 .. Len(m)) \X (0 .. Len(m))] ==   \* the bounds l and u
        LET k == (p[1] + p[2]) \div 2 IN
        IF p[1] >= p[2] THEN 0
        ELSE IF Same(b, m[k + 1]) THEN k + 1
        ELSE IF Less(b, m[k + 1]) THEN find[<<p[1], k>>] ELSE find[<<k + 1, p[2]>>]
  IN  find[<<0, Len(m)>>]

-----------------------------------------------------------------------------
(* Modifiers and locks. *)

EvilLocks == {NumLock, ScrollLock}

\* lookup_evil_locks: none, when a lock is not in the mapping.
LockMasks(mods) == [key \in EvilLocks |-> {m \in Modifier : key \in mods[m]}]

\* evilignoremask
Ignored == {LockMask} \cup evil[NumLock] \cup evil[ScrollLock]

\* The state of an event: the modifiers of the keys that are held, and the locks.
EventState == {m \in Modifier : (modmap[m] \ EvilLocks) \cap held # {}} \cup locks

\* What the binding looked up by lookup_binding is called with: the key, or any key,
\* with the modifiers, or any modifiers.
Tries(act, state, key) ==
  LET try(k, s) == [act |-> act, kcb |-> k, state |-> s] IN
  <<try(key, state \ Ignored), try(key, {AnyModifier}),
    try(AnyKey, state \ Ignored), try(AnyKey, {AnyModifier})>>

\* lookup_binding: the place of the binding, or 0.
Lookup(m, act, state, key) ==
  LET tries == Tries(act, state, key)
      found == {i \in 1 .. 4 : Search(m, tries[i]) # 0}
  IN  IF found = {} THEN 0 ELSE Search(m, tries[Min(found)])

\* Mutant: the modifier of the key that is released stays in the state.
UnmodState(state, key) == state \ Ignored

\* unmod
Unmod(state, key) ==
  (state \ Ignored) \ {m \in Modifier : key \in modmap[m] /\ \A n \in Modifier :
                                          key \in modmap[n] => m <= n}

\* evil_grab_key, evil_grab_button: for each lock i and each lock j from i on, the
\* modifiers with all locks from i to j, and with i and j.
EvilGrab(state) ==
  LET lock == <<evil[NumLock], evil[ScrollLock], {LockMask}>>
  IN  {state} \cup
      UNION {{state \cup UNION {lock[k] : k \in i .. j}, state \cup lock[i] \cup lock[j]} :
             i, j \in {k \in 1 .. 3 : lock[k] # {}}}

-----------------------------------------------------------------------------
BindingsInit ==
  /\ map = <<>> /\ bound = {}
  /\ modmap \in Modmaps
  /\ evil = LockMasks(modmap)
  /\ grabs = {} /\ held = {} /\ locks = {} /\ waiting = FALSE

Configured == grabs # {}

\* do_bind: the configuration is read before there are frames.
Bind(b) ==
  /\ ~Configured /\ Len(map) < MaxBindings
  /\ map' = AddBinding(map, b)
  /\ bound' = {a \in bound : ~Same(a, b)} \cup {b}
  /\ UNCHANGED <<modmap, evil, grabs, held, locks, waiting>>

\* grab_bindings, when a frame is created.  Buttons without modifiers are not grabbed.
GrabBindings ==
  /\ ~Configured /\ map # <<>>
  /\ grabs' = UNION {{[act |-> map[i].act, kcb |-> map[i].kcb, state |-> s] :
                        s \in EvilGrab(map[i].state)} :
                     i \in {n \in DOMAIN map : map[n].act = ACT_KEYPRESS \/ map[n].state # {}}}
  /\ UNCHANGED <<map, bound, modmap, evil, held, locks, waiting>>

\* A key changes its lock when it is pressed.
Toggled(key) ==
  SymDiff(locks, {m \in Modifier : key \in modmap[m] /\ (m = LockMask \/ key \in EvilLocks)})

\* waitrelease_handler; or handle_keypress and dispatch_binding.
KeyPress(key) ==
  LET found == Lookup(map, ACT_KEYPRESS, EventState, key) IN
  /\ Configured /\ key \notin held
  /\ waiting' = IF waiting THEN Unmod(EventState, key) # {}
                ELSE found # 0 /\ map[found].waitrel /\ EventState # {}
  /\ held' = held \cup {key}
  /\ locks' = Toggled(key)
  /\ UNCHANGED <<map, bound, modmap, evil, grabs>>

KeyRelease(key) ==
  /\ key \in held
  /\ waiting' = (waiting /\ Unmod(EventState, key) # {})
  /\ held' = held \ {key}
  /\ UNCHANGED <<map, bound, modmap, evil, grabs, locks>>

\* update_modmap: locks that have moved to another modifier are on there.
UpdateModmap(mods) ==
  /\ Configured
  /\ modmap' = mods
  /\ locks' = (locks \cap {LockMask})
              \cup UNION {LockMasks(mods)[key] :
                          key \in {k \in EvilLocks : LockMasks(modmap)[k] \cap locks # {}}}
  /\ UNCHANGED <<map, bound, evil, grabs, held, waiting>>

BindingsNext ==
  \/ \E b \in Binding : Bind(b)
  \/ GrabBindings
  \/ \E key \in Keycode : KeyPress(key) \/ KeyRelease(key)
  \/ \E mods \in Modmaps : UpdateModmap(mods)

BindingsSpec == BindingsInit /\ [][BindingsNext]_bindingVars

-----------------------------------------------------------------------------
(* Properties. *)

\* Every variable has its type, and the map is in order.
BindingsType ==
  /\ map \in Seq(Binding) /\ bound \subseteq Binding
  /\ modmap \in Modmaps /\ evil \in [EvilLocks -> SUBSET Modifier]
  /\ held \subseteq Keycode /\ locks \subseteq Modifier /\ waiting \in BOOLEAN
  /\ \A i, j \in DOMAIN map : i < j => Less(map[i], map[j])

Bound(act, state, key) == {b \in bound : b.act = act /\ b.state = state /\ b.kcb = key}

\* The locks have been given other modifiers since they were looked up.
LocksMoved == LockMasks(modmap) # evil

\* Binary search in the map finds what was bound last, in whatever order bindings
\* were made and made again: for the key with its modifiers first, then for the key
\* with any, then for any key (add_binding, lookup_binding).  And whatever locks are
\* on, a key that is bound comes to the frame and finds the same binding as without
\* them.  lookup_evil_locks is not called again when the mapping of the modifiers
\* changes, so then this need not be so.
BindingsFound ==
  /\ BindingsType
  /\ \A act \in Action, state \in SUBSET (Modifier \ Ignored), key \in Keycode :
       LET exact == Bound(act, state, key)
           any   == Bound(act, {AnyModifier}, key)
           rest  == Bound(act, state, AnyKey)
           best  == IF exact # {} THEN exact ELSE IF any # {} THEN any
                    ELSE IF rest # {} THEN rest ELSE Bound(act, {AnyModifier}, AnyKey)
           found == Lookup(map, act, state, key)
       IN  best = IF found = 0 THEN {} ELSE {map[found]}
  /\ LocksMoved \/
     \A i \in DOMAIN map, on \in SUBSET Ignored :
       Configured /\ map[i].act = ACT_KEYPRESS /\ map[i].state \cap ({AnyModifier} \cup Ignored) = {} =>
         /\ [act |-> ACT_KEYPRESS, kcb |-> map[i].kcb, state |-> map[i].state \cup on] \in grabs
         /\ \A key \in Keycode : Lookup(map, ACT_KEYPRESS, map[i].state \cup on, key)
                                   = Lookup(map, ACT_KEYPRESS, map[i].state, key)

\* The wait for the release of the modifiers, which holds the keyboard, is over when
\* the last key is released, although a modifier may have several keys, keys are
\* pressed and released in any order and locks are on: only a lock that has moved
\* can keep it.
WaitEnds ==
  [][held # {} /\ held' = {} /\ locks \subseteq Ignored => ~waiting']_bindingVars

=============================================================================
