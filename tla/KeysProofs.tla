----------------------------- MODULE KeysProofs ------------------------------
(***************************************************************************)
(* Keys, from the configuration to the action.                             *)
(*                                                                         *)
(* The grab stack and the shortcuts are sound for any numbers of frames,   *)
(* windows and slots, and for bindings that run any number of functions.   *)
(* The operations of grab.c and shortcut.c are treated one by one; then    *)
(* each action is shown to use nothing else to change them.                *)
(*                                                                         *)
(* What was bound last is found, for any keys, modifiers and bindings and  *)
(* in whatever order they were bound: the map stays in order, and binary   *)
(* search in an ordered map finds what is there.                           *)
(***************************************************************************)
EXTENDS Bindings, Grabs, WellFoundedInduction, TLAPS

-----------------------------------------------------------------------------
(* The stack. *)

\* A set of slots that is not empty has a highest one.
LEMMA HighestIsHighest ==
  ASSUME NEW n \in Nat, NEW S \in SUBSET (1..n), S # {}
  PROVE  Highest(S) \in S /\ \A j \in S : j <= Highest(S)
<1> DEFINE T == {d \in Nat : n - d \in S}
<1>1. T \subseteq Nat /\ T # {}
  <2>1. PICK i \in S : TRUE
    OBVIOUS
  <2>2. n - i \in Nat /\ n - (n - i) = i
    BY <2>1
  <2> QED
    BY <2>2
<1>2. PICK x \in T : \A y \in T : ~(<<y, x>> \in OpToRel(<, Nat))
  <2> HIDE DEF T
  <2> QED
    BY <1>1, NatLessThanWellFounded, WFMin
<1>3. \A y \in T : ~(y < x)
  <2> HIDE DEF T
  <2> QED
    BY <1>1, <1>2 DEF OpToRel
<1>4. n - x \in S
  OBVIOUS
<1>5. ASSUME NEW j \in S PROVE j <= n - x
  <2>1. n - j \in Nat /\ n - (n - j) = j
    OBVIOUS
  <2>2. ~(n - j < x)
    BY <2>1, <1>3
  <2> QED
    BY <2>2
<1> DEFINE IsHigh(i) == i \in S /\ \A j \in S : j <= i
<1>6. IsHigh(n - x)
  BY <1>4, <1>5
<1>7. Highest(S) = CHOOSE i \in S : \A j \in S : j <= i
  BY DEF Highest
<1> QED
  BY <1>6, <1>7

LEMMA HighestType ==
  ASSUME NEW n \in Nat, NEW S \in SUBSET (1..n)
  PROVE  Highest(S) \in 0..n
<1>1. CASE S = {}
  BY <1>1 DEF Highest
<1>2. CASE S # {}
  <2>1. Highest(S) \in S
    BY <1>2, HighestIsHighest
  <2>2. S \subseteq 0..n
    OBVIOUS
  <2> QED
    BY <2>1, <2>2
<1> QED
  BY <1>1, <1>2

\* The grabs of these handlers are held by frames.
ForFrames == {"submap", "set_shortcut", "resize"}

HeldByFrames(g) ==
  \A i \in 1..MaxGrabs : g.slot[i].handler \in ForFrames => g.slot[i].holder \in Frame

Free(g) == g.idx > 0 => ~g.slot[g.idx].remove

Sound(g) == g \in Grab /\ HeldByFrames(g) /\ Free(g)

Backed(g) == g.kb => g.idx > 0

\* What every operation promises of its result r.
Keeps(g, r) == Sound(r) /\ (Backed(g) => Backed(r))

LEMMA MaxGrabsIsNat == MaxGrabs \in Nat \ {0}
BY GrabsAssumption

\* The lemma for marking: it only touches the flag of one slot of the stack.
LEMMA MarkKeeps ==
  ASSUME NEW g \in Grab, HeldByFrames(g), NEW i \in 0..g.idx
  PROVE  /\ Mark(g, i) \in Grab /\ HeldByFrames(Mark(g, i))
         /\ Mark(g, i).idx = g.idx /\ Mark(g, i).kb = g.kb
<1>1. CASE i = 0
  BY <1>1 DEF Mark
<1>2. CASE i # 0
  <2>1. i \in 1..MaxGrabs
    BY <1>2, MaxGrabsIsNat DEF Grab
  <2>2. Mark(g, i) = [g EXCEPT !.slot = [g.slot EXCEPT ![i] = [g.slot[i] EXCEPT !.remove = TRUE]]]
    BY <1>2 DEF Mark
  <2>3. [g.slot[i] EXCEPT !.remove = TRUE] \in GrabStatus
    BY <2>1 DEF Grab, GrabStatus
  <2>4. \A x \in [1..MaxGrabs -> GrabStatus] : [g EXCEPT !.slot = x] \in Grab
    BY DEF Grab
  <2>5. g.slot \in [1..MaxGrabs -> GrabStatus]
    BY DEF Grab
  <2>6. Mark(g, i).slot = [g.slot EXCEPT ![i] = [g.slot[i] EXCEPT !.remove = TRUE]]
    BY <2>2 DEF Grab
  <2>7. HeldByFrames(Mark(g, i))
    BY <2>1, <2>5, <2>6 DEF HeldByFrames, GrabStatus
  <2> QED
    BY <2>2, <2>3, <2>4, <2>5, <2>7 DEF Grab
<1> QED
  BY <1>1, <1>2

\* do_grab_remove leaves an unmarked entry on top, or no grab at all.
LEMMA DoGrabRemoveKeeps ==
  ASSUME NEW g \in Grab, HeldByFrames(g)
  PROVE  Sound(DoGrabRemove(g)) /\ Backed(DoGrabRemove(g))
<1> DEFINE S == {i \in 1..g.idx : ~g.slot[i].remove}
           i == Highest(S)
<1>1. g.idx \in Nat /\ g.idx \in 0..MaxGrabs /\ g.slot \in [1..MaxGrabs -> GrabStatus]
  BY MaxGrabsIsNat DEF Grab
<1>2. i \in 0..g.idx /\ (S # {} => i \in S) /\ (S = {} => i = 0)
  BY <1>1, HighestType, HighestIsHighest DEF Highest
<1>3. DoGrabRemove(g) = GrabForTop(g, i)
  BY DEF DoGrabRemove
<1> HIDE DEF i
<1>4. CASE i = 0
  <2>1. GrabForTop(g, i) = [g EXCEPT !.idx = 0, !.kb = FALSE, !.holder = NULL]
    BY <1>4 DEF GrabForTop, UngrabKbPtr, Grab
  <2> DEFINE r == [g EXCEPT !.idx = 0, !.kb = FALSE, !.holder = NULL]
  <2>2. r \in Grab /\ r.slot = g.slot /\ r.idx = 0
    <3>1. 0 \in 0..MaxGrabs /\ FALSE \in BOOLEAN /\ NULL \in Holder \cup {NULL}
      BY MaxGrabsIsNat
    <3> QED
      BY <3>1 DEF Grab
  <2> HIDE DEF r
  <2>3. Sound(r) /\ Backed(r)
    <3>1. HeldByFrames(r)
      BY <2>2 DEF HeldByFrames
    <3>2. r.kb = FALSE
      BY DEF r, Grab
    <3> QED
      BY <2>2, <3>1, <3>2 DEF Sound, Free, Backed
  <2> QED
    BY <1>3, <2>1, <2>3 DEF r
<1>5. CASE i # 0
  <2>1. i \in 1..g.idx /\ ~g.slot[i].remove
    BY <1>2, <1>5
  <2>2. g.slot[i].holder \in Holder \cup {NULL} /\ i \in 0..MaxGrabs
    BY <1>1, <2>1, MaxGrabsIsNat DEF GrabStatus
  <2> DEFINE t == g.slot[i].holder
  <2>3. GrabForTop(g, i) = [g EXCEPT !.idx = i, !.kb = TRUE, !.holder = t]
    BY <1>5 DEF GrabForTop, GrabKbPtr, Grab
  <2> HIDE DEF t
  <2>4. t \in Holder \cup {NULL}
    BY <2>2 DEF t
  <2> DEFINE r == [g EXCEPT !.idx = i, !.kb = TRUE, !.holder = t]
  <2>5. r \in Grab /\ r.slot = g.slot /\ r.idx = i
    BY <2>2, <2>4 DEF Grab
  <2> HIDE DEF r
  <2>6. HeldByFrames(r) /\ Free(r) /\ Backed(r)
    BY <1>1, <2>1, <2>5 DEF HeldByFrames, Free, Backed
  <2> QED
    BY <1>3, <2>3, <2>5, <2>6 DEF r, Sound
<1> QED
  BY <1>4, <1>5

LEMMA PopMarkedKeeps ==
  ASSUME NEW g \in Grab, HeldByFrames(g), NEW junk \in BOOLEAN
  PROVE  Sound(PopMarked(g, junk)) /\ (Backed(g) => Backed(PopMarked(g, junk)))
BY DoGrabRemoveKeeps, MaxGrabsIsNat DEF PopMarked, Top, Sound, Free, Grab

LEMMA GrabRemoveKeeps ==
  ASSUME NEW g, Sound(g), NEW h, NEW junk \in BOOLEAN
  PROVE  Keeps(g, GrabRemove(g, h, junk)) /\ Keeps(g, GrabRemoveFor(g, h, junk))
<1>1. g \in Grab /\ HeldByFrames(g) /\ g.idx \in Nat
  BY MaxGrabsIsNat DEF Sound, Grab
<1>2. \A S \in SUBSET (1..g.idx) : Keeps(g, PopMarked(Mark(g, Highest(S)), junk))
  <2> TAKE S \in SUBSET (1..g.idx)
  <2>1. Highest(S) \in 0..g.idx
    BY <1>1, HighestType
  <2> DEFINE m == Mark(g, Highest(S))
  <2>2. m \in Grab /\ HeldByFrames(m) /\ (Backed(g) => Backed(m))
    BY <1>1, <2>1, MarkKeeps DEF Backed
  <2> HIDE DEF m
  <2>3. Sound(PopMarked(m, junk)) /\ (Backed(m) => Backed(PopMarked(m, junk)))
    BY <2>2, PopMarkedKeeps
  <2> QED
    BY <2>2, <2>3 DEF m, Keeps
<1> QED
  BY <1>2 DEF GrabRemove, GrabRemoveFor, HandledBy, HeldFor

LEMMA GrabKbPtrKeeps ==
  ASSUME NEW g, Sound(g), NEW t \in Holder
  PROVE  Sound(GrabKbPtr(g, t))
BY DEF GrabKbPtr, Sound, Grab, Free, HeldByFrames

LEMMA UngrabKbPtrKeeps ==
  ASSUME NEW g, Sound(g)
  PROVE  Keeps(g, UngrabKbPtr(g))
BY DEF UngrabKbPtr, Keeps, Sound, Grab, Free, HeldByFrames, Backed

LEMMA ForgetKeeps ==
  ASSUME NEW g, Sound(g)
  PROVE  Keeps(g, Forget(g))
<1> DEFINE x == [i \in 1..MaxGrabs |-> IF i <= g.idx THEN g.slot[i] ELSE NoGrab]
<1>1. NoGrab \in GrabStatus /\ NoGrab.handler \notin ForFrames
  BY DEF NoGrab, GrabStatus, ForFrames
<1>2. g.slot \in [1..MaxGrabs -> GrabStatus] /\ g.idx \in 0..MaxGrabs
  BY DEF Sound, Grab
<1>3. x \in [1..MaxGrabs -> GrabStatus]
  BY <1>1, <1>2
<1>4. \A i \in 1..MaxGrabs : x[i] = g.slot[i] \/ x[i] = NoGrab
  OBVIOUS
<1>5. g.idx > 0 => x[g.idx] = g.slot[g.idx]
  BY <1>2, MaxGrabsIsNat
<1>6. Forget(g) = [g EXCEPT !.slot = x]
  BY DEF Forget
<1> HIDE DEF x
<1> QED
  BY <1>1, <1>3, <1>4, <1>5, <1>6 DEF Keeps, Sound, Grab, Free, HeldByFrames, Backed

LEMMA GrabEstablishKeeps ==
  ASSUME NEW g, Sound(g), NEW t \in Holder, NEW h \in Handlers,
         h \in ForFrames => t \in Frame
  PROVE  Keeps(g, GrabEstablish(g, t, h))
<1>1. g.slot \in [1..MaxGrabs -> GrabStatus] /\ g.idx \in 0..MaxGrabs
  BY DEF Sound, Grab
<1>2. CASE g.idx = MaxGrabs
  BY <1>2 DEF GrabEstablish, Keeps
<1>3. CASE g.idx # MaxGrabs
  <2> DEFINE e == [holder |-> t, handler |-> h, remove |-> FALSE]
             x == [g.slot EXCEPT ![g.idx + 1] = e]
  <2>1. e \in GrabStatus /\ ~e.remove /\ (e.handler \in ForFrames => e.holder \in Frame)
    BY DEF GrabStatus
  <2>2. g.idx + 1 \in 1..MaxGrabs
    BY <1>1, <1>3, MaxGrabsIsNat
  <2>3. GrabEstablish(g, t, h) = [g EXCEPT !.slot = x, !.idx = g.idx + 1, !.kb = TRUE, !.holder = t]
    BY <1>3 DEF GrabEstablish, GrabKbPtr, Sound, Grab
  <2> HIDE DEF e
  <2>4. x \in [1..MaxGrabs -> GrabStatus] /\ x[g.idx + 1] = e
    BY <1>1, <2>1, <2>2
  <2>5. \A i \in 1..MaxGrabs : x[i] = g.slot[i] \/ x[i] = e
    BY <1>1
  <2> HIDE DEF x
  <2> DEFINE r == [g EXCEPT !.slot = x, !.idx = g.idx + 1, !.kb = TRUE, !.holder = t]
  <2>6. r \in Grab /\ r.slot = x /\ r.idx = g.idx + 1
    <3>1. g.idx + 1 \in 0..MaxGrabs /\ TRUE \in BOOLEAN /\ t \in Holder \cup {NULL}
      BY <2>2, MaxGrabsIsNat
    <3> QED
      BY <2>4, <3>1 DEF Sound, Grab
  <2> HIDE DEF r
  <2>7. HeldByFrames(r)
    BY <2>1, <2>5, <2>6 DEF Sound, HeldByFrames
  <2>8. Free(r) /\ Backed(r)
    BY <1>1, <2>1, <2>4, <2>6 DEF Free, Backed
  <2> QED
    BY <2>3, <2>6, <2>7, <2>8 DEF r, Keeps, Sound
<1> QED
  BY <1>2, <1>3

LEMMA DestroyThingKeeps ==
  ASSUME NEW g, Sound(g), NEW t, NEW junk \in BOOLEAN
  PROVE  Keeps(g, DestroyThing(g, t, junk))
<1> DEFINE r == GrabRemoveFor(g, t, junk)
<1>1. Keeps(g, r)
  BY GrabRemoveKeeps
<1> HIDE DEF r
<1>2. Keeps(g, [r EXCEPT !.holder = NULL])
  BY <1>1 DEF Keeps, Sound, Grab, Free, HeldByFrames, Backed
<1> QED
  BY <1>1, <1>2 DEF r, DestroyThing

-----------------------------------------------------------------------------
(* The shortcuts. *)

Cuts == [shortcuts : [Cut -> Frame \cup {NULL}], shortcut : [Frame -> Cut \cup {NULL}]]

Matched(s, fs) ==
  /\ \A k \in Cut : s.shortcuts[k] # NULL => /\ s.shortcuts[k] \in fs
                                             /\ s.shortcut[s.shortcuts[k]] = k
  /\ \A f \in Frame : s.shortcut[f] # NULL => s.shortcuts[s.shortcut[f]] = f

\* shortcut_remove takes one pair out of the match.
LEMMA ShortcutRemoveKeeps ==
  ASSUME NEW fs, NEW s \in Cuts, Matched(s, fs), NEW k \in Cut \cup {NULL}
  PROVE  LET r == ShortcutRemove(s, k)
         IN  /\ r \in Cuts /\ Matched(r, fs)
             /\ k # NULL => r.shortcuts[k] = NULL
             /\ \A f \in Frame : s.shortcut[f] \in {NULL, k} => r.shortcut[f] = NULL
<1>0. NULL \notin Frame /\ NULL \notin Cut
  BY GrabsAssumption
<1>1. CASE k = NULL \/ s.shortcuts[k] = NULL
  BY <1>0, <1>1 DEF ShortcutRemove, Matched, Cuts
<1>2. CASE k # NULL /\ s.shortcuts[k] # NULL
  <2> DEFINE g == s.shortcuts[k]
             x == [s.shortcuts EXCEPT ![k] = NULL]
             y == [s.shortcut EXCEPT ![g] = NULL]
  <2>1. g \in Frame /\ s.shortcut[g] = k /\ g \in fs
    BY <1>2 DEF Cuts, Matched
  <2>2. ShortcutRemove(s, k) = [shortcuts |-> x, shortcut |-> y]
    BY <1>2 DEF ShortcutRemove
  <2>3. s.shortcuts \in [Cut -> Frame \cup {NULL}] /\ s.shortcut \in [Frame -> Cut \cup {NULL}]
    BY DEF Cuts
  <2>4. /\ x \in [Cut -> Frame \cup {NULL}] /\ x[k] = NULL
        /\ \A j \in Cut : j # k => x[j] = s.shortcuts[j]
    BY <1>2, <2>3
  <2>5. /\ y \in [Frame -> Cut \cup {NULL}] /\ y[g] = NULL
        /\ \A f \in Frame : f # g => y[f] = s.shortcut[f]
    BY <2>1, <2>3
  <2> HIDE DEF g, x, y
  <2>6. \A f \in Frame : s.shortcut[f] = k => f = g
    BY <1>0, <1>2 DEF Matched, g
  <2>7. Matched([shortcuts |-> x, shortcut |-> y], fs)
    BY <1>0, <1>2, <2>1, <2>3, <2>4, <2>5, <2>6 DEF Matched
  <2>8. [shortcuts |-> x, shortcut |-> y] \in Cuts
    BY <2>4, <2>5 DEF Cuts
  <2>9. \A f \in Frame : s.shortcut[f] \in {NULL, k} => y[f] = NULL
    BY <2>5, <2>6
  <2> QED
    BY <1>2, <2>2, <2>4, <2>7, <2>8, <2>9
<1> QED
  BY <1>1, <1>2

LEMMA ShortcutRemoveFromKeeps ==
  ASSUME NEW fs, NEW s \in Cuts, Matched(s, fs), NEW f \in Frame
  PROVE  LET r == ShortcutRemoveFrom(s, f)
         IN  r \in Cuts /\ Matched(r, fs) /\ r.shortcut[f] = NULL
<1>1. s.shortcut[f] \in Cut \cup {NULL}
  BY DEF Cuts
<1> QED
  BY <1>1, ShortcutRemoveKeeps DEF ShortcutRemoveFrom

\* A frame that is destroyed has lost its shortcut first.
LEMMA ShortcutsOfTheRest ==
  ASSUME NEW fs, NEW s \in Cuts, Matched(s, fs), NEW f \in Frame, s.shortcut[f] = NULL
  PROVE  Matched(s, fs \ {f})
<1>1. \A k \in Cut : s.shortcuts[k] # f
  BY GrabsAssumption DEF Matched
<1> QED
  BY <1>1 DEF Matched

LEMMA ShortcutSetKeeps ==
  ASSUME NEW fs, NEW s \in Cuts, Matched(s, fs), NEW f \in Frame \cap fs, NEW k \in Cut \cup {NULL}
  PROVE  ShortcutSet(s, f, k) \in Cuts /\ Matched(ShortcutSet(s, f, k), fs)
<1>0. NULL \notin Frame /\ NULL \notin Cut
  BY GrabsAssumption
<1> DEFINE old == IF k # NULL /\ s.shortcuts[k] # NULL
                  THEN ShortcutRemoveFrom(s, s.shortcuts[k]) ELSE s
           mine == ShortcutRemoveFrom(old, f)
           free == ShortcutRemove(mine, k)
<1>1. old \in Cuts /\ Matched(old, fs)
  <2>1. k # NULL /\ s.shortcuts[k] # NULL => s.shortcuts[k] \in Frame
    BY DEF Cuts
  <2> QED
    BY <2>1, ShortcutRemoveFromKeeps
<1> HIDE DEF old
<1>2. mine \in Cuts /\ Matched(mine, fs) /\ mine.shortcut[f] = NULL
  BY <1>1, ShortcutRemoveFromKeeps
<1> HIDE DEF mine
<1>3. /\ free \in Cuts /\ Matched(free, fs) /\ free.shortcut[f] = NULL
      /\ k # NULL => free.shortcuts[k] = NULL
  BY <1>2, ShortcutRemoveKeeps
<1> HIDE DEF free
<1>4. CASE k = NULL
  BY <1>2, <1>4 DEF ShortcutSet, old, mine
<1>5. CASE k # NULL
  <2> DEFINE x == [free.shortcuts EXCEPT ![k] = f]
             y == [free.shortcut EXCEPT ![f] = k]
  <2>1. ShortcutSet(s, f, k) = [shortcuts |-> x, shortcut |-> y]
    BY <1>5 DEF ShortcutSet, old, mine, free
  <2>2. free.shortcuts \in [Cut -> Frame \cup {NULL}] /\ free.shortcut \in [Frame -> Cut \cup {NULL}]
    BY <1>3 DEF Cuts
  <2>3. /\ x \in [Cut -> Frame \cup {NULL}] /\ x[k] = f
        /\ \A j \in Cut : j # k => x[j] = free.shortcuts[j]
    BY <1>5, <2>2
  <2>4. /\ y \in [Frame -> Cut \cup {NULL}] /\ y[f] = k
        /\ \A g \in Frame : g # f => y[g] = free.shortcut[g]
    BY <2>2
  <2> HIDE DEF x, y
  <2>5. \A j \in Cut : free.shortcuts[j] # f
    BY <1>0, <1>3 DEF Matched
  <2>6. \A g \in Frame : free.shortcut[g] # k
    BY <1>0, <1>3, <1>5 DEF Matched
  <2>7. Matched([shortcuts |-> x, shortcut |-> y], fs)
    BY <1>0, <1>3, <1>5, <2>2, <2>3, <2>4, <2>5, <2>6 DEF Matched
  <2> QED
    BY <2>1, <2>3, <2>4, <2>7 DEF Cuts
<1> QED
  BY <1>4, <1>5
\* The types alone, also when a shortcut leads to a frame that is gone.
LEMMA ShortcutRemoveType ==
  ASSUME NEW s \in Cuts, NEW k \in Cut \cup {NULL}
  PROVE  ShortcutRemove(s, k) \in Cuts
<1>1. CASE k = NULL \/ s.shortcuts[k] = NULL
  BY <1>1 DEF ShortcutRemove
<1>2. CASE k # NULL /\ s.shortcuts[k] # NULL
  <2> DEFINE g == s.shortcuts[k]
             x == [s.shortcuts EXCEPT ![k] = NULL]
             y == [s.shortcut EXCEPT ![g] = NULL]
  <2>1. x \in [Cut -> Frame \cup {NULL}] /\ y \in [Frame -> Cut \cup {NULL}]
    BY <1>2 DEF Cuts
  <2>2. ShortcutRemove(s, k) = [shortcuts |-> x, shortcut |-> y]
    BY <1>2 DEF ShortcutRemove
  <2> HIDE DEF x, y
  <2> QED
    BY <2>1, <2>2 DEF Cuts
<1> QED
  BY <1>1, <1>2

LEMMA ShortcutRemoveFromType ==
  ASSUME NEW s \in Cuts, NEW f \in Frame
  PROVE  ShortcutRemoveFrom(s, f) \in Cuts
<1>1. s.shortcut[f] \in Cut \cup {NULL}
  BY DEF Cuts
<1> QED
  BY <1>1, ShortcutRemoveType DEF ShortcutRemoveFrom

LEMMA ShortcutSetType ==
  ASSUME NEW s \in Cuts, NEW f \in Frame, NEW k \in Cut \cup {NULL}
  PROVE  ShortcutSet(s, f, k) \in Cuts
<1> DEFINE old == IF k # NULL /\ s.shortcuts[k] # NULL
                  THEN ShortcutRemoveFrom(s, s.shortcuts[k]) ELSE s
           mine == ShortcutRemoveFrom(old, f)
           free == ShortcutRemove(mine, k)
<1>1. old \in Cuts
  <2>1. k # NULL /\ s.shortcuts[k] # NULL => s.shortcuts[k] \in Frame
    BY DEF Cuts
  <2> QED
    BY <2>1, ShortcutRemoveFromType
<1> HIDE DEF old
<1>2. mine \in Cuts
  BY <1>1, ShortcutRemoveFromType
<1> HIDE DEF mine
<1>3. free \in Cuts
  BY <1>2, ShortcutRemoveType
<1> HIDE DEF free
<1>4. CASE k = NULL
  BY <1>2, <1>4 DEF ShortcutSet, old, mine
<1>5. CASE k # NULL
  <2> DEFINE x == [free.shortcuts EXCEPT ![k] = f]
             y == [free.shortcut EXCEPT ![f] = k]
  <2>1. ShortcutSet(s, f, k) = [shortcuts |-> x, shortcut |-> y]
    BY <1>5 DEF ShortcutSet, old, mine, free
  <2>2. x \in [Cut -> Frame \cup {NULL}] /\ y \in [Frame -> Cut \cup {NULL}]
    BY <1>3, <1>5 DEF Cuts
  <2> HIDE DEF x, y
  <2> QED
    BY <2>1, <2>2 DEF Cuts
<1> QED
  BY <1>4, <1>5

-----------------------------------------------------------------------------
(* What the operations of the stack do to its entries. *)

\* Entries go from the top; those that stay keep their holders and handlers,
\* and their marks.
Trims(g, r) ==
  /\ r.idx \in 0..g.idx
  /\ \A i \in 1..r.idx : /\ r.slot[i].handler = g.slot[i].handler
                         /\ r.slot[i].holder = g.slot[i].holder
                         /\ g.slot[i].remove => r.slot[i].remove

\* The entries of g that are not marked are still there, but for entry i.
AllBut(g, r, i) ==
  \A j \in Unmarked(g) \ {i} : j \in Unmarked(r) /\ r.slot[j] = g.slot[j]

LEMMA SoundGrab ==
  ASSUME NEW g, Sound(g)
  PROVE  /\ g \in Grab /\ g.idx \in Nat /\ g.idx \in 0..MaxGrabs
         /\ MaxGrabs \in Nat \ {0} /\ Trims(g, g)
BY MaxGrabsIsNat DEF Sound, Grab, Trims

LEMMA TrimsTwice ==
  ASSUME NEW g \in Grab, NEW r \in Grab, NEW s \in Grab, Trims(g, r), Trims(r, s)
  PROVE  Trims(g, s)
<1>1. g.idx \in Nat /\ r.idx \in Nat /\ s.idx \in Nat
  BY MaxGrabsIsNat DEF Grab
<1> QED
  BY <1>1 DEF Trims

\* do_grab_remove takes only marked entries off.
LEMMA DoGrabRemoveTakesMarked ==
  ASSUME NEW g \in Grab
  PROVE  LET r == DoGrabRemove(g)
         IN  r.idx \in 0..g.idx /\ r.slot = g.slot /\ AllBut(g, r, 0)
<1> DEFINE S == {i \in 1..g.idx : ~g.slot[i].remove}
           i == Highest(S)
<1>1. g.idx \in Nat
  BY MaxGrabsIsNat DEF Grab
<1>2. i \in 0..g.idx /\ (S = {} => i = 0)
  BY <1>1, HighestType DEF Highest
<1>3. \A j \in S : j <= i
  BY <1>1, HighestIsHighest
<1>4. DoGrabRemove(g) = GrabForTop(g, i)
  BY DEF DoGrabRemove
<1> HIDE DEF i
<1>5. GrabForTop(g, i).idx = i /\ GrabForTop(g, i).slot = g.slot
  BY <1>2 DEF GrabForTop, GrabKbPtr, UngrabKbPtr, Grab
<1> QED
  BY <1>1, <1>2, <1>3, <1>4, <1>5 DEF AllBut, Unmarked

LEMMA RemovalTakesOne ==
  ASSUME NEW g, Sound(g), NEW S \in SUBSET (1..g.idx), NEW junk \in BOOLEAN
  PROVE  LET r == PopMarked(Mark(g, Highest(S)), junk)
         IN  /\ Trims(g, r) /\ AllBut(g, r, Highest(S))
             /\ S # {} => Highest(S) \in S /\ Highest(S) \notin Unmarked(r)
<1> DEFINE i == Highest(S)
           m == Mark(g, i)
<1>1. /\ g \in Grab /\ g.idx \in 0..MaxGrabs /\ g.idx \in Nat /\ HeldByFrames(g)
      /\ MaxGrabs \in Nat
  BY MaxGrabsIsNat DEF Sound, Grab
<1>2. i \in 0..g.idx /\ (S # {} => i \in S)
  BY <1>1, HighestType, HighestIsHighest
<1> HIDE DEF i
<1>3. m \in Grab /\ m.idx = g.idx
  BY <1>1, <1>2, MarkKeeps
<1>4. /\ \A j \in 1..MaxGrabs : /\ m.slot[j].handler = g.slot[j].handler
                                /\ m.slot[j].holder = g.slot[j].holder
                                /\ g.slot[j].remove => m.slot[j].remove
                                /\ j # i => m.slot[j] = g.slot[j]
      /\ i # 0 => m.slot[i].remove
  <2>1. CASE i = 0
    BY <2>1 DEF Mark
  <2>2. CASE i # 0
    BY <1>1, <1>2, <2>2 DEF Mark, Grab, GrabStatus
  <2> QED
    BY <2>1, <2>2
<1> HIDE DEF m
<1>5. Trims(g, m) /\ AllBut(g, m, i)
  BY <1>1, <1>3, <1>4 DEF Trims, AllBut, Unmarked
<1>6. S # {} => i \notin Unmarked(m)
  BY <1>2, <1>4 DEF Unmarked
<1>7. CASE PopMarked(m, junk) = m
  BY <1>2, <1>5, <1>6, <1>7 DEF m, i
<1>8. CASE PopMarked(m, junk) = DoGrabRemove(m)
  <2> DEFINE r == DoGrabRemove(m)
  <2>1. r.idx \in 0..m.idx /\ r.slot = m.slot /\ AllBut(m, r, 0)
    BY <1>3, DoGrabRemoveTakesMarked
  <2> HIDE DEF r
  <2>2. Trims(g, r)
    BY <1>1, <1>3, <1>5, <2>1 DEF Trims
  <2>3. AllBut(g, r, i)
    BY <1>1, <1>5, <2>1 DEF AllBut, Unmarked
  <2>4. S # {} => i \notin Unmarked(r)
    BY <1>1, <1>2, <1>4, <2>1 DEF Unmarked
  <2> QED
    BY <1>2, <1>8, <2>2, <2>3, <2>4 DEF m, i, r
<1> QED
  BY <1>7, <1>8 DEF PopMarked

LEMMA GrabRemoveTakesOne ==
  ASSUME NEW g, Sound(g), NEW h, NEW junk \in BOOLEAN
  PROVE  LET r == GrabRemove(g, h, junk)
             S == HandledBy(g, h)
         IN  /\ Trims(g, r) /\ AllBut(g, r, Highest(S))
             /\ S # {} => Highest(S) \in S /\ Highest(S) \notin Unmarked(r)
BY RemovalTakesOne DEF GrabRemove, HandledBy

LEMMA ForgetForgets ==
  ASSUME NEW g \in Grab
  PROVE  /\ Forget(g).idx = g.idx /\ \A i \in 1..g.idx : Forget(g).slot[i] = g.slot[i]
         /\ Trims(g, Forget(g)) /\ Unmarked(Forget(g)) = Unmarked(g)
<1> DEFINE x == [i \in 1..MaxGrabs |-> IF i <= g.idx THEN g.slot[i] ELSE NoGrab]
<1>1. Forget(g).idx = g.idx /\ Forget(g).slot = x
  BY DEF Forget, Grab
<1>2. g.idx \in 0..MaxGrabs
  BY DEF Grab
<1>3. \A i \in 1..g.idx : Forget(g).slot[i] = g.slot[i]
  BY <1>1, <1>2, MaxGrabsIsNat
<1> QED
  BY <1>1, <1>2, <1>3, MaxGrabsIsNat DEF Trims, Unmarked

\* Only the next slot is written.
LEMMA EstablishAddsOne ==
  ASSUME NEW g \in Grab, NEW t, NEW h
  PROVE  LET r == GrabEstablish(g, t, h)
         IN  /\ \A i \in 1..g.idx : r.slot[i] = g.slot[i]
             /\ \/ r.idx = g.idx
                \/ /\ r.idx = g.idx + 1
                   /\ r.slot[r.idx].handler = h /\ r.slot[r.idx].holder = t
                   /\ ~r.slot[r.idx].remove
<1>1. CASE g.idx = MaxGrabs
  BY <1>1 DEF GrabEstablish
<1>2. CASE g.idx # MaxGrabs
  <2> DEFINE e == [holder |-> t, handler |-> h, remove |-> FALSE]
             x == [g.slot EXCEPT ![g.idx + 1] = e]
  <2>1. g.idx + 1 \in 1..MaxGrabs /\ g.idx \in Nat
    BY <1>2, MaxGrabsIsNat DEF Grab
  <2>2. g.slot \in [1..MaxGrabs -> GrabStatus] /\ g.idx \in 0..MaxGrabs /\ MaxGrabs \in Nat
    BY MaxGrabsIsNat DEF Grab
  <2>3. \A i \in 1..g.idx : i \in 1..MaxGrabs /\ i # g.idx + 1
    BY <2>2
  <2>4. x[g.idx + 1] = e /\ \A i \in 1..g.idx : x[i] = g.slot[i]
    <3> HIDE DEF e
    <3> QED
      BY <2>1, <2>2, <2>3
  <2>5. GrabEstablish(g, t, h) = [g EXCEPT !.slot = x, !.idx = g.idx + 1, !.kb = TRUE, !.holder = t]
    BY <1>2 DEF GrabEstablish, GrabKbPtr, Grab
  <2>6. e.handler = h /\ e.holder = t /\ ~e.remove
    OBVIOUS
  <2> HIDE DEF x, e
  <2>7. GrabEstablish(g, t, h).idx = g.idx + 1 /\ GrabEstablish(g, t, h).slot = x
    BY <2>5 DEF Grab
  <2> QED
    BY <2>4, <2>6, <2>7
<1> QED
  BY <1>1, <1>2

\* The holders of the entries that count are in S.
Existing(g, S) == \A i \in Unmarked(g) : g.slot[i].holder \in S

\* An entry of command mode that counts is the one that leaving it finds, and
\* then the mode is on.
Modes(g, on) ==
  \A i \in HandledBy(g, "command") \cap Unmarked(g) :
    on /\ \A j \in HandledBy(g, "command") : j <= i

\* A submap is only entered when nothing is grabbed.
Bottom(g) == \A i \in HandledBy(g, "submap") : i = 1

LEMMA TrimsKeeps ==
  ASSUME NEW g \in Grab, NEW r \in Grab, Trims(g, r), NEW S, NEW on
  PROVE  /\ Existing(g, S) => Existing(r, S)
         /\ Modes(g, on) => Modes(r, on)
         /\ Bottom(g) => Bottom(r)
<1>1. g.idx \in Nat /\ r.idx \in Nat /\ r.idx <= g.idx
  BY MaxGrabsIsNat DEF Grab, Trims
<1>2. \A i \in Unmarked(r) : i \in Unmarked(g) /\ r.slot[i].holder = g.slot[i].holder
  BY <1>1 DEF Trims, Unmarked
<1>3. \A h : HandledBy(r, h) \subseteq HandledBy(g, h)
  BY <1>1 DEF Trims, HandledBy
<1> QED
  BY <1>2, <1>3 DEF Existing, Modes, Bottom

LEMMA EstablishKeepsEntries ==
  ASSUME NEW g \in Grab, NEW t, NEW h, NEW S, NEW on
  PROVE  LET r == GrabEstablish(g, t, h)
         IN  /\ Existing(g, S) /\ t \in S => Existing(r, S)
             /\ Modes(g, on) /\ h # "command" => Modes(r, on)
             /\ Modes(g, FALSE) => Modes(r, TRUE)
             /\ Bottom(g) /\ (h = "submap" => g.idx = 0) => Bottom(r)
<1> DEFINE r == GrabEstablish(g, t, h)
<1>1. /\ \A i \in 1..g.idx : r.slot[i] = g.slot[i]
      /\ \/ r.idx = g.idx
         \/ /\ r.idx = g.idx + 1
            /\ r.slot[r.idx].handler = h /\ r.slot[r.idx].holder = t
            /\ ~r.slot[r.idx].remove
  BY EstablishAddsOne
<1> HIDE DEF r
<1>2. g.idx \in Nat /\ r.idx \in Nat
  BY <1>1, MaxGrabsIsNat DEF Grab
<1>3. \A i \in 1..r.idx : i \in 1..g.idx \/ (i = r.idx /\ r.idx = g.idx + 1)
  BY <1>1, <1>2
<1>4. Existing(g, S) /\ t \in S => Existing(r, S)
  BY <1>1, <1>3 DEF Existing, Unmarked
<1>5. Modes(g, on) /\ h # "command" => Modes(r, on)
  <2> SUFFICES ASSUME Modes(g, on), h # "command" PROVE Modes(r, on)
    OBVIOUS
  <2>1. HandledBy(r, "command") \subseteq HandledBy(g, "command")
    BY <1>1, <1>3 DEF HandledBy
  <2>2. HandledBy(r, "command") \cap Unmarked(r) \subseteq HandledBy(g, "command") \cap Unmarked(g)
    BY <1>1, <1>3, <2>1 DEF HandledBy, Unmarked
  <2> QED
    BY <2>1, <2>2 DEF Modes
<1>6. Modes(g, FALSE) => Modes(r, TRUE)
  <2> SUFFICES ASSUME Modes(g, FALSE), NEW i \in HandledBy(r, "command") \cap Unmarked(r),
                      NEW j \in HandledBy(r, "command")
               PROVE  j <= i
    BY DEF Modes
  <2>1. i \notin 1..g.idx
    <3>1. i \notin HandledBy(g, "command") \cap Unmarked(g)
      BY DEF Modes
    <3> QED
      BY <1>1, <3>1 DEF HandledBy, Unmarked
  <2>2. i = r.idx /\ j \in 1..r.idx
    BY <1>3, <2>1 DEF HandledBy
  <2> QED
    BY <1>2, <2>2
<1>7. Bottom(g) /\ (h = "submap" => g.idx = 0) => Bottom(r)
  <2> SUFFICES ASSUME Bottom(g), h = "submap" => g.idx = 0, NEW i \in HandledBy(r, "submap")
               PROVE  i = 1
    BY DEF Bottom
  <2>1. CASE i \in 1..g.idx
    BY <1>1, <2>1 DEF Bottom, HandledBy
  <2>2. CASE i \notin 1..g.idx
    <3>1. i = r.idx /\ r.idx = g.idx + 1 /\ r.slot[i].handler = "submap"
      BY <1>3, <2>2 DEF HandledBy
    <3>2. h = "submap"
      BY <1>1, <1>2, <3>1
    <3> QED
      BY <3>1, <3>2
  <2> QED
    BY <2>1, <2>2
<1> QED
  BY <1>4, <1>5, <1>6, <1>7 DEF r

\* Leaving command mode leaves no entry of it that counts.
LEMMA LeavingLeavesNone ==
  ASSUME NEW g, Sound(g), NEW on, Modes(g, on), NEW junk \in BOOLEAN
  PROVE  Modes(GrabRemove(g, "command", junk), FALSE)
<1> DEFINE r == GrabRemove(g, "command", junk)
           S == HandledBy(g, "command")
<1>1. Trims(g, r) /\ (S # {} => Highest(S) \in S /\ Highest(S) \notin Unmarked(r))
  BY GrabRemoveTakesOne
<1> HIDE DEF r
<1>2. g.idx \in Nat /\ r.idx \in 0..g.idx
  BY <1>1, SoundGrab DEF Trims
<1> SUFFICES ASSUME NEW i \in HandledBy(r, "command") \cap Unmarked(r) PROVE FALSE
  BY DEF Modes, r
<1>3. i \in S \cap Unmarked(g)
  BY <1>1, <1>2 DEF Trims, HandledBy, Unmarked
<1>4. \A j \in S : j <= i
  BY <1>3 DEF Modes
<1>5. Highest(S) \in S /\ i <= Highest(S)
  <2>1. S \in SUBSET (1..g.idx) /\ S # {}
    BY <1>3 DEF HandledBy
  <2> QED
    BY <1>2, <1>3, <2>1, HighestIsHighest
<1>6. Highest(S) = i
  <2>1. i \in 1..g.idx /\ Highest(S) \in 1..g.idx
    BY <1>3, <1>5 DEF HandledBy
  <2>2. Highest(S) <= i
    BY <1>4, <1>5
  <2> QED
    BY <1>2, <1>5, <2>1, <2>2
<1> QED
  BY <1>1, <1>3, <1>6

\* A thing that holds one grab leaves no entry that counts.
LEMMA DestroyThingTakesOne ==
  ASSUME NEW g, Sound(g), NEW t, NEW junk \in BOOLEAN
  PROVE  LET r == DestroyThing(g, t, junk)
         IN  /\ Trims(g, r)
             /\ \A S : Existing(g, S) /\ ~HeldTwice(g, t) => Existing(r, S \ {t})
<1> DEFINE r == GrabRemoveFor(g, t, junk)
           H == HeldFor(g, t)
<1>1. /\ Trims(g, r)
      /\ H # {} => Highest(H) \in H /\ Highest(H) \notin Unmarked(r)
  BY RemovalTakesOne DEF GrabRemoveFor, HeldFor
<1>2. r \in Grab
  BY GrabRemoveKeeps DEF Keeps, Sound
<1> HIDE DEF r
<1>3. g.idx \in Nat /\ r.idx \in 0..g.idx
  BY <1>1, SoundGrab DEF Trims
<1>4. ASSUME ~HeldTwice(g, t), NEW i \in Unmarked(r) PROVE r.slot[i].holder # t
  <2> SUFFICES ASSUME r.slot[i].holder = t PROVE FALSE
    OBVIOUS
  <2>1. i \in H
    BY <1>1, <1>3 DEF Trims, Unmarked, HeldFor
  <2>2. Highest(H) = i
    BY <1>1, <1>4, <2>1 DEF HeldTwice
  <2> QED
    BY <1>1, <2>1, <2>2
<1>5. ASSUME NEW S, Existing(g, S), ~HeldTwice(g, t) PROVE Existing(r, S \ {t})
  <2>1. Existing(r, S)
    BY <1>1, <1>2, <1>5, SoundGrab, TrimsKeeps
  <2> QED
    BY <1>4, <1>5, <2>1 DEF Existing
<1>6. DestroyThing(g, t, junk).idx = r.idx /\ DestroyThing(g, t, junk).slot = r.slot
  BY <1>2 DEF DestroyThing, r, Grab
<1> QED
  BY <1>1, <1>5, <1>6 DEF Trims, Existing, Unmarked

-----------------------------------------------------------------------------
(* The invariant. *)

Others ==
  /\ live \subseteq Frame \cup Cwin /\ submapped \subseteq Frame \cup Edln
  /\ commandmode_active \in BOOLEAN /\ resize_mode \in BOOLEAN /\ resize_timer \in BOOLEAN
  /\ mouse \in {"up", "down", "resizing"} /\ call \in Calls
  /\ looked \in {"none", "map", "submap"} /\ leftover \in BOOLEAN

CutsInv == SC \in Cuts /\ (leftover \/ Matched(SC, live))

KbInv == grab.kb => grab.idx > 0 \/ mouse # "up" \/ call.by = "press"

StackInv ==
  /\ leftover \/ Existing(grab, live \cup {Screen})
  /\ Modes(grab, commandmode_active)
  /\ Bottom(grab)

\* Who runs functions, and with what.
CallInv ==
  /\ call.freed # NULL => leftover
  /\ call.by = "grab" => \/ call.handler = "command"
                         \/ call.handler = "submap" /\ call.slot = 1

IInv == Others /\ Sound(grab) /\ KbInv /\ CutsInv /\ StackInv /\ CallInv

LEMMA IInvImplies ==
  IInv => TypeOK /\ TopUnmarked /\ KeyboardFreed /\ ShortcutsMatch /\ CommandModeLeft
<1> SUFFICES ASSUME IInv PROVE TypeOK /\ TopUnmarked /\ KeyboardFreed /\ ShortcutsMatch /\ CommandModeLeft
  OBVIOUS
<1>1. TypeOK /\ TopUnmarked /\ ShortcutsMatch
  BY DEF IInv, Others, Sound, Free, CutsInv, Cuts, SC, Matched, TypeOK, TopUnmarked, ShortcutsMatch
<1>2. KeyboardFreed
  <2>1. grab.idx \in Nat
    BY SoundGrab DEF IInv
  <2>2. grab.idx > 0 => grab.idx \in Unmarked(grab)
    BY <2>1 DEF IInv, Sound, Free, Unmarked
  <2> QED
    BY <2>2 DEF IInv, KbInv, StackInv, Existing, Top, KeyboardFreed
<1>3. CommandModeLeft
  BY DEF IInv, StackInv, Modes, CommandModeLeft
<1> QED
  BY <1>1, <1>2, <1>3

LEMMA IdleType == Idle \in Calls /\ Idle.by = "none" /\ Idle.freed = NULL
BY GrabsAssumption DEF Idle, Calls

LEMMA InitIInv == Init => IInv
<1> SUFFICES ASSUME Init PROVE IInv
  OBVIOUS
<1>1. Others
  BY IdleType DEF Init, Others
<1>2. Sound(grab)
  BY MaxGrabsIsNat DEF Init, NoGrab, Sound, Grab, GrabStatus, HeldByFrames, ForFrames, Free
<1>3. KbInv
  BY DEF Init, KbInv
<1>4. CutsInv
  BY DEF Init, CutsInv, Cuts, SC, Matched
<1>5. StackInv
  <2>1. grab.idx = 0
    BY DEF Init
  <2> QED
    BY <2>1 DEF StackInv, Existing, Modes, Bottom, Unmarked, HandledBy
<1>6. CallInv
  BY IdleType DEF Init, CallInv
<1> QED
  BY <1>1, <1>2, <1>3, <1>4, <1>5, <1>6 DEF IInv

\* Most steps keep the button and whoever is running functions.
LEMMA FreedKept ==
  ASSUME KbInv, Keeps(grab, grab'), mouse' = mouse,
         call.by = "press" => call'.by = "press"
  PROVE  KbInv'
BY DEF KbInv, Keeps, Backed

\* Shortcuts survive when no frame goes away.
LEMMA CutsKept ==
  ASSUME CutsInv, UNCHANGED cuts, live \cap Frame \subseteq live', leftover => leftover'
  PROVE  CutsInv'
BY DEF CutsInv, SC, cuts, Matched, Cuts

\* Entries may be taken off as long as no thing goes away.
LEMMA StackTrimmed ==
  ASSUME StackInv, Sound(grab), grab' \in Grab, Trims(grab, grab'),
         UNCHANGED <<live, commandmode_active, leftover>>
  PROVE  StackInv'
<1>1. grab \in Grab
  BY SoundGrab
<1> QED
  BY <1>1, TrimsKeeps DEF StackInv

LEMMA StackUnchanged ==
  ASSUME StackInv, UNCHANGED <<grab, commandmode_active>>, live \subseteq live', leftover => leftover'
  PROVE  StackInv'
BY DEF StackInv, Existing

LEMMA ReturnedKeeps ==
  ASSUME Sound(grab), NEW ret, Returned(ret)
  PROVE  Keeps(grab, grab') /\ Trims(grab, grab')
<1>1. CASE ret
  <2> DEFINE r == GrabRemove(grab, Top(grab).handler, FALSE)
  <2>1. Keeps(grab, r) /\ Trims(grab, r)
    BY GrabRemoveKeeps, GrabRemoveTakesOne
  <2> HIDE DEF r
  <2>2. Keeps(r, Forget(r)) /\ Trims(r, Forget(r))
    BY <2>1, ForgetKeeps, ForgetForgets, SoundGrab DEF Keeps
  <2>3. grab \in Grab /\ r \in Grab /\ Forget(r) \in Grab
    BY <2>1, <2>2, SoundGrab DEF Keeps
  <2> QED
    BY <1>1, <2>1, <2>2, <2>3, TrimsTwice DEF Returned, Keeps, r
<1>2. CASE ~ret
  BY <1>2, SoundGrab DEF Returned, Keeps
<1> QED
  BY <1>1, <1>2

\* A handler that runs no function.
LEMMA ReturnedStep ==
  ASSUME IInv, NEW ret, Returned(ret), leftover' = leftover,
         UNCHANGED <<commandmode_active>>, Others', CutsInv'
  PROVE  IInv'
<1>1. Keeps(grab, grab') /\ Trims(grab, grab') /\ UNCHANGED <<live, submapped, mouse, call>>
  BY ReturnedKeeps DEF IInv, Returned
<1>2. StackInv'
  BY <1>1, StackTrimmed, SoundGrab DEF IInv, Keeps
<1>3. KbInv'
  BY <1>1, FreedKept DEF IInv
<1>4. CallInv'
  BY <1>1 DEF IInv, CallInv
<1> QED
  BY <1>1, <1>2, <1>3, <1>4 DEF IInv, Keeps

\* The holder of the entry on top exists, or something is left over.
LEMMA HolderExists ==
  ASSUME IInv, grab.idx > 0
  PROVE  leftover \/ Top(grab).holder \in live \cup {Screen}
<1>1. grab.idx \in Nat
  BY SoundGrab DEF IInv
<1>2. grab.idx \in Unmarked(grab)
  BY <1>1 DEF IInv, Sound, Free, Unmarked
<1> QED
  BY <1>2 DEF IInv, StackInv, Existing, Top

LEMMA RunsType ==
  ASSUME IInv, NEW by \in {"grab", "key", "press", "release"}, NEW w \in BOOLEAN, Runs(by, w),
         leftover' = leftover,
         by = "grab" => grab.idx > 0 /\ Top(grab).handler \in {"submap", "command"}
  PROVE  call' \in Calls /\ call'.by = by /\ CallInv'
<1>0. /\ grab \in Grab /\ grab.idx \in Nat /\ grab.idx \in 0..MaxGrabs /\ HeldByFrames(grab)
      /\ MaxGrabs \in Nat
  BY SoundGrab DEF IInv, Sound
<1>1. (IF grab.idx = 0 THEN "none" ELSE Top(grab).handler) \in Handlers \cup {"none"}
  BY <1>0 DEF Grab, GrabStatus, Top
<1>2. MaxCommands \in 0..MaxCommands
  BY GrabsAssumption
<1> DEFINE fr == IF grab.idx # 0 /\ Top(grab).handler = "submap" /\ Top(grab).holder \notin live
                 THEN Top(grab).holder ELSE NULL
<1>3. fr \in Frame \cup {NULL} /\ (fr # NULL => leftover)
  <2> SUFFICES ASSUME grab.idx # 0, Top(grab).handler = "submap", Top(grab).holder \notin live
               PROVE  Top(grab).holder \in Frame /\ leftover
    OBVIOUS
  <2>1. grab.idx \in 1..MaxGrabs
    BY <1>0
  <2>2. Top(grab).holder \in Frame
    BY <1>0, <2>1 DEF HeldByFrames, ForFrames, Top
  <2> QED
    BY <1>0, <2>2, HolderExists, GrabsAssumption
<1>4. call' = [by |-> by, slot |-> grab.idx,
               handler |-> IF grab.idx = 0 THEN "none" ELSE Top(grab).handler,
               left |-> MaxCommands, waitrel |-> w, freed |-> fr]
  BY DEF Runs
<1> HIDE DEF fr
<1>5. call' \in Calls
  BY <1>0, <1>1, <1>2, <1>3, <1>4 DEF Calls
<1>6. /\ call'.by = by /\ call'.slot = grab.idx /\ call'.freed = fr
      /\ grab.idx # 0 => call'.handler = Top(grab).handler
  BY <1>4
<1>7. by = "grab" /\ Top(grab).handler = "submap" => grab.idx = 1
  BY <1>0 DEF IInv, StackInv, Bottom, HandledBy, Top
<1> QED
  BY <1>0, <1>3, <1>5, <1>6, <1>7 DEF CallInv

\* A handler that begins to run functions.
LEMMA RunsStep ==
  ASSUME IInv, NEW by \in {"grab", "key", "press", "release"}, NEW w \in BOOLEAN, Runs(by, w),
         by = "grab" => grab.idx > 0 /\ Top(grab).handler \in {"submap", "command"},
         UNCHANGED <<grab, live, mouse, leftover, input, cuts>>,
         submapped' \subseteq Frame \cup Edln, looked' \in {"none", "map", "submap"},
         call.by # "press"
  PROVE  IInv'
<1>1. call' \in Calls /\ call'.by = by /\ CallInv'
  BY RunsType
<1>2. StackInv' /\ CutsInv' /\ Sound(grab)'
  BY StackUnchanged, CutsKept DEF IInv, input
<1>3. KbInv'
  BY DEF IInv, KbInv
<1>4. Others'
  BY <1>1 DEF IInv, Others, input
<1> QED
  BY <1>1, <1>2, <1>3, <1>4 DEF IInv

LEMMA FunctionType ==
  ASSUME call \in Calls, Function
  PROVE  /\ call' \in Calls /\ call'.by = call.by /\ call'.freed = call.freed
         /\ call'.slot = call.slot /\ call'.handler = call.handler
<1>1. call.left - 1 \in 0..MaxCommands
  BY GrabsAssumption DEF Function, Calls
<1>2. \A n \in 0..MaxCommands : LET c == [call EXCEPT !.left = n]
                                IN  /\ c \in Calls /\ c.by = call.by /\ c.freed = call.freed
                                    /\ c.slot = call.slot /\ c.handler = call.handler
  BY DEF Calls
<1> QED
  BY <1>1, <1>2 DEF Function

\* A function is called with a frame that exists, unless something is left over.
LEMMA TargetExists ==
  ASSUME IInv, NEW f \in Frame, Target(f)
  PROVE  f \in live \/ leftover
BY GrabsAssumption DEF IInv, CallInv, Target

-----------------------------------------------------------------------------
(* The steps. *)

LEMMA KeyStep == IInv /\ Key => IInv'
<1> SUFFICES ASSUME IInv, Key PROVE IInv'
  OBVIOUS
<1>0. Others /\ Sound(grab) /\ CutsInv /\ MaxGrabs \in Nat \ {0}
  BY MaxGrabsIsNat DEF IInv
<1>a. Waiting => call.by = "none"
  BY IdleType DEF Waiting
<1>b. ASSUME NEW ret, Returned(ret), leftover' = leftover, UNCHANGED <<input, cuts, looked>>
      PROVE  IInv'
  <2>1. UNCHANGED <<live, submapped, mouse, call, commandmode_active>>
    BY <1>b DEF Returned, input
  <2>2. Others' /\ CutsInv'
    BY <1>0, <1>b, <2>1, CutsKept DEF Others, input
  <2> QED
    BY <1>b, <2>1, <2>2, ReturnedStep
<1>1. ASSUME NEW release \in BOOLEAN, NEW mod \in BOOLEAN, KeyQuoteNext(release, mod) PROVE IInv'
  BY <1>1, <1>b DEF KeyQuoteNext, Dispatch
<1>2. ASSUME NEW lastmod \in BOOLEAN, KeyWaitRelease(lastmod) PROVE IInv'
  BY <1>2, <1>b DEF KeyWaitRelease, Dispatch
<1>3. ASSUME NEW mod \in BOOLEAN, NEW hit \in BOOLEAN, NEW waitrel \in BOOLEAN,
             KeySubmap(mod, hit, waitrel)
      PROVE  IInv'
  <2>0. /\ looked' \in {"none", "map", "submap"} /\ UNCHANGED <<input, cuts, leftover>>
        /\ grab.idx > 0 /\ Top(grab).handler = "submap" /\ call.by = "none"
    BY <1>3, <1>a DEF KeySubmap, Dispatch
  <2>1. CASE hit
    <3>1. Runs("grab", waitrel) /\ UNCHANGED <<grab, live, submapped, mouse>>
      BY <1>3, <2>1 DEF KeySubmap
    <3> QED
      BY <1>0, <2>0, <3>1, RunsStep DEF Others
  <2>2. CASE ~hit
    <3>1. Returned(~mod)
      BY <1>3, <2>2 DEF KeySubmap
    <3>2. UNCHANGED <<live, submapped, mouse, call, commandmode_active>>
      BY <2>0, <3>1 DEF Returned, input
    <3>3. Others' /\ CutsInv'
      BY <1>0, <2>0, <3>2, CutsKept DEF Others, input
    <3> QED
      BY <2>0, <3>1, <3>2, <3>3, ReturnedStep
  <2> QED
    BY <2>1, <2>2
<1>4. ASSUME NEW mod \in BOOLEAN, NEW k \in Cut \cup {NULL}, KeySetShortcut(mod, k) PROVE IInv'
  <2>1. Returned(~mod) /\ UNCHANGED <<live, submapped, mouse, call, input, looked, leftover>>
    BY <1>4 DEF KeySetShortcut, Returned, Dispatch
  <2>2. CutsInv'
    <3>1. CASE mod
      BY <1>0, <1>4, <2>1, <3>1, CutsKept DEF KeySetShortcut
    <3>2. CASE ~mod
      <4> DEFINE f == Top(grab).holder
                 r == ShortcutSet(SC, f, k)
      <4>1. f \in Frame
        BY <1>0, <1>4 DEF KeySetShortcut, Dispatch, Top, Sound, HeldByFrames, ForFrames, Grab
      <4>2. f \in live \/ leftover
        BY <1>4, <4>1, HolderExists, GrabsAssumption DEF KeySetShortcut, Dispatch
      <4>3. r \in Cuts /\ (leftover \/ Matched(r, live))
        <5> HIDE DEF f
        <5> QED
          BY <1>0, <4>1, <4>2, ShortcutSetKeeps, ShortcutSetType DEF CutsInv
      <4>4. shortcuts' = r.shortcuts /\ shortcut' = r.shortcut
        BY <1>4, <3>2 DEF KeySetShortcut, SetCuts
      <4> HIDE DEF r
      <4>5. SC' = r
        BY <4>3, <4>4 DEF SC, Cuts
      <4> QED
        BY <2>1, <4>3, <4>5 DEF CutsInv
    <3> QED
      BY <3>1, <3>2
  <2>3. Others'
    BY <1>0, <2>1 DEF Others, input
  <2> QED
    BY <2>1, <2>2, <2>3, ReturnedStep DEF input
<1>5. ASSUME NEW mod \in BOOLEAN, KeyGotoShortcut(mod) PROVE IInv'
  BY <1>5, <1>b DEF KeyGotoShortcut, Dispatch
<1>6. ASSUME NEW f \in Frame, NEW ignored \in BOOLEAN, NEW hit \in BOOLEAN,
             KeyCommandMode(f, ignored, hit)
      PROVE  IInv'
  <2>0. /\ UNCHANGED <<input, cuts, looked, leftover>> /\ call.by = "none"
        /\ grab.idx > 0 /\ Top(grab).handler = "command"
    BY <1>6, <1>a DEF KeyCommandMode, Dispatch
  <2>1. CASE ~commandmode_active \/ ignored
    <3>1. \E ret \in BOOLEAN : Returned(ret)
      BY <1>6, <2>1 DEF KeyCommandMode
    <3> QED
      BY <1>b, <2>0, <3>1
  <2>2. CASE commandmode_active /\ ~ignored
    <3>1. submapped' = submapped \ {f} /\ UNCHANGED <<grab, live, mouse>>
      BY <1>6, <2>2 DEF KeyCommandMode
    <3>2. submapped' \subseteq Frame \cup Edln /\ looked' \in {"none", "map", "submap"}
      BY <1>0, <2>0, <3>1 DEF Others
    <3>3. CASE hit
      <4>1. Runs("grab", FALSE)
        BY <1>6, <2>2, <3>3 DEF KeyCommandMode
      <4> QED
        BY <2>0, <3>1, <3>2, <4>1, RunsStep
    <3>4. CASE ~hit
      <4>1. call' = call
        BY <1>6, <2>2, <3>4 DEF KeyCommandMode
      <4>2. StackInv' /\ CutsInv' /\ CallInv'
        BY <2>0, <3>1, <4>1, StackUnchanged, CutsKept DEF IInv, CallInv, input
      <4> QED
        BY <2>0, <3>1, <3>2, <4>1, <4>2 DEF IInv, Others, KbInv, input
    <3> QED
      BY <3>3, <3>4
  <2> QED
    BY <2>1, <2>2
<1>7. ASSUME NEW f \in {"grow", "end"}, KeyResize(f) PROVE IInv'
  <2>1. \E ret \in BOOLEAN : Returned(ret)
    BY <1>7 DEF KeyResize
  <2>2. UNCHANGED <<live, submapped, mouse, call>>
    BY <2>1 DEF Returned
  <2>3. UNCHANGED <<commandmode_active, cuts, looked, leftover>>
    BY <1>7 DEF KeyResize, Dispatch
  <2>4. resize_mode' \in BOOLEAN /\ resize_timer' \in BOOLEAN
    BY <1>0, <1>7 DEF KeyResize, EndResize, Others
  <2>5. Others' /\ CutsInv'
    BY <1>0, <2>2, <2>3, <2>4, CutsKept DEF Others
  <2> QED
    BY <2>1, <2>3, <2>5, ReturnedStep
<1>8. ASSUME NEW w \in Frame \cup Edln, KeyPrefix(w) PROVE IInv'
  <2>0. /\ UNCHANGED <<live, input, cuts, mouse, call, leftover>>
        /\ looked' = "map" /\ submapped' = submapped \cup {w}
        /\ grab.idx = 0 /\ w \in live \cup Edln
    BY <1>8 DEF KeyPrefix, KeyPressed
  <2>1. Keeps(grab, grab')
    BY <1>0, <1>8, GrabEstablishKeeps DEF KeyPrefix, Keeps, Holder, Handlers, ForFrames
  <2>2. StackInv'
    <3>1. CASE grab' = grab
      BY <2>0, <3>1, StackUnchanged DEF IInv, input
    <3>2. CASE w \in Frame /\ grab' = GrabEstablish(grab, w, "submap")
      <4>1. w \in live
        BY <1>8, <3>2, GrabsAssumption DEF KeyPrefix, KeyPressed
      <4>2. /\ Existing(grab, live \cup {Screen}) => Existing(grab', live \cup {Screen})
            /\ Modes(grab', commandmode_active) /\ Bottom(grab')
        <5>1. grab \in Grab /\ Modes(grab, commandmode_active) /\ Bottom(grab)
              /\ commandmode_active' = commandmode_active /\ w \in live \cup {Screen}
          BY <1>0, <2>0, <4>1, SoundGrab DEF IInv, StackInv, input
        <5>2. "submap" # "command"
          OBVIOUS
        <5> QED
          BY <2>0, <3>2, <5>1, <5>2, EstablishKeepsEntries
      <4> QED
        BY <2>0, <4>2 DEF IInv, StackInv, input
    <3>3. grab' = grab \/ (w \in Frame /\ grab' = GrabEstablish(grab, w, "submap"))
      BY <1>8 DEF KeyPrefix
    <3> QED
      BY <3>1, <3>2, <3>3
  <2>3. KbInv' /\ CutsInv' /\ CallInv'
    BY <2>0, <2>1, FreedKept, CutsKept DEF IInv, CallInv
  <2> QED
    BY <1>0, <2>0, <2>1, <2>2, <2>3 DEF IInv, Others, Keeps, input
<1>9. ASSUME NEW w \in Frame \cup Edln, NEW hit \in BOOLEAN, NEW waitrel \in BOOLEAN,
             KeyBinding(w, hit, waitrel)
      PROVE  IInv'
  <2>1. /\ UNCHANGED <<grab, live, input, cuts, mouse, leftover>> /\ call.by = "none"
        /\ looked' = "map" /\ submapped' = submapped \ {w}
    BY <1>9, <1>a DEF KeyBinding, KeyPressed
  <2>2. submapped' \subseteq Frame \cup Edln
    BY <1>0, <2>1 DEF Others
  <2>3. CASE hit
    <3>1. Runs("key", waitrel)
      BY <1>9, <2>3 DEF KeyBinding
    <3> QED
      BY <2>1, <2>2, <3>1, RunsStep
  <2>4. CASE ~hit
    <3>1. call' = call
      BY <1>9, <2>4 DEF KeyBinding
    <3>2. StackInv' /\ CutsInv' /\ CallInv'
      BY <2>1, <3>1, StackUnchanged, CutsKept DEF IInv, CallInv, input
    <3> QED
      BY <2>1, <2>2, <3>1, <3>2 DEF IInv, Others, KbInv, input
  <2> QED
    BY <2>3, <2>4
<1> QED
  BY <1>1, <1>2, <1>3, <1>4, <1>5, <1>6, <1>7, <1>8, <1>9 DEF Key

LEMMA FunctionStep == IInv /\ RunFunction => IInv'
<1> SUFFICES ASSUME IInv, RunFunction PROVE IInv'
  OBVIOUS
<1>0. /\ Others /\ Sound(grab) /\ KbInv /\ CutsInv /\ StackInv /\ CallInv
      /\ grab \in Grab
  BY SoundGrab DEF IInv
<1>a. ASSUME Function, leftover => leftover'
      PROVE  call' \in Calls /\ call'.by = call.by /\ CallInv'
  BY <1>0, <1>a, FunctionType DEF CallInv, Others
<1>1. ASSUME NEW t \in Holder, NEW h \in Handlers \ {"submap"}, h \in ForFrames => t \in Frame,
             Function, Establishes(t, h), UNCHANGED cuts, t \in live \/ leftover,
             {commandmode_active', resize_mode', resize_timer'} \subseteq BOOLEAN,
             IF h = "command" THEN ~commandmode_active /\ commandmode_active'
             ELSE UNCHANGED commandmode_active
      PROVE  IInv'
  <2>1. /\ Keeps(grab, grab') /\ UNCHANGED <<live, submapped, mouse, looked, leftover>>
        /\ grab' = GrabEstablish(grab, t, h)
    BY <1>0, <1>1, GrabEstablishKeeps DEF Establishes
  <2>2. Modes(grab', commandmode_active')
    <3>1. CASE h = "command"
      <4>1. commandmode_active = FALSE /\ commandmode_active' = TRUE
        BY <1>0, <1>1, <3>1 DEF Others
      <4> QED
        BY <1>0, <2>1, <4>1, EstablishKeepsEntries DEF StackInv
    <3>2. CASE h # "command"
      BY <1>0, <1>1, <2>1, <3>2, EstablishKeepsEntries DEF StackInv
    <3> QED
      BY <3>1, <3>2
  <2>3. StackInv'
    BY <1>0, <1>1, <2>1, <2>2, EstablishKeepsEntries DEF StackInv
  <2> QED
    BY <1>0, <1>1, <1>a, <2>1, <2>3, FreedKept, CutsKept DEF IInv, Others, Keeps
<1>2. ASSUME NEW f \in Frame, DoSetShortcut(f) PROVE IInv'
  BY <1>0, <1>1, <1>2, TargetExists DEF DoSetShortcut, input, Others, Holder, Handlers, ForFrames
<1>3. ASSUME NEW f \in Frame, DoGotoShortcut(f) PROVE IInv'
  BY <1>0, <1>1, <1>3, TargetExists DEF DoGotoShortcut, input, Others, Holder, Handlers, ForFrames
<1>4. ASSUME NEW c \in Cwin, QuoteNext(c) PROVE IInv'
  BY <1>0, <1>1, <1>4 DEF QuoteNext, input, Others, Holder, Handlers, ForFrames
<1>5. ASSUME NEW f \in Frame, EnterCommandMode(f) PROVE IInv'
  BY <1>0, <1>1, <1>5, TargetExists DEF EnterCommandMode, Others, Holder, Handlers, ForFrames
<1>6. ASSUME NEW f \in Frame, BeginKeyResize(f) PROVE IInv'
  BY <1>0, <1>1, <1>6, TargetExists DEF BeginKeyResize, Others, Holder, Handlers, ForFrames
<1>7. CASE LeaveCommandMode
  <2>1. PICK junk \in BOOLEAN : grab' = GrabRemove(grab, "command", junk)
    BY <1>7 DEF LeaveCommandMode
  <2>2. Keeps(grab, grab') /\ Trims(grab, grab')
    BY <1>0, <2>1, GrabRemoveKeeps, GrabRemoveTakesOne
  <2>3. /\ UNCHANGED <<live, submapped, resize_mode, resize_timer, cuts, mouse, looked, leftover>>
        /\ commandmode_active' = FALSE /\ Function
    BY <1>7 DEF LeaveCommandMode
  <2>4. Modes(grab', FALSE)
    BY <1>0, <2>1, LeavingLeavesNone DEF StackInv
  <2>5. StackInv'
    BY <1>0, <2>2, <2>3, <2>4, TrimsKeeps DEF StackInv, Keeps, Sound
  <2> QED
    BY <1>0, <1>a, <2>2, <2>3, <2>5, FreedKept, CutsKept DEF IInv, Others, Keeps
<1>8. ASSUME NEW f \in Frame, DestroyFrame(f) PROVE IInv'
  <2>1. PICK junk \in BOOLEAN : grab' = DestroyThing(grab, f, junk)
    BY <1>8 DEF DestroyFrame
  <2>2. /\ Keeps(grab, grab') /\ Trims(grab, grab')
        /\ \A S : Existing(grab, S) /\ ~HeldTwice(grab, f) => Existing(grab', S \ {f})
    BY <1>0, <2>1, DestroyThingKeeps, DestroyThingTakesOne
  <2>3. /\ UNCHANGED <<submapped, input, mouse, looked>> /\ Function
        /\ live' = live \ {f} /\ leftover' = (leftover \/ HeldTwice(grab, f))
    BY <1>8 DEF DestroyFrame, Remember
  <2>4. CutsInv'
    <3> DEFINE r == ShortcutRemoveFrom(SC, f)
    <3>1. r \in Cuts /\ (leftover \/ (Matched(r, live) /\ r.shortcut[f] = NULL))
      BY <1>0, ShortcutRemoveFromKeeps, ShortcutRemoveFromType DEF CutsInv
    <3>2. shortcuts' = r.shortcuts /\ shortcut' = r.shortcut
      BY <1>8 DEF DestroyFrame, SetCuts
    <3> HIDE DEF r
    <3>3. leftover \/ Matched(r, live \ {f})
      BY <3>1, ShortcutsOfTheRest
    <3>4. SC' = r
      BY <3>1, <3>2 DEF SC, Cuts
    <3> QED
      BY <2>3, <3>1, <3>3, <3>4 DEF CutsInv
  <2>5. StackInv'
    <3>1. Modes(grab', commandmode_active') /\ Bottom(grab')
      BY <1>0, <2>2, <2>3, TrimsKeeps DEF StackInv, Keeps, Sound, input
    <3>2. leftover' \/ Existing(grab', live' \cup {Screen})
      <4>1. (live \cup {Screen}) \ {f} = live' \cup {Screen}
        BY <2>3, GrabsAssumption
      <4> QED
        BY <1>0, <2>2, <2>3, <4>1 DEF StackInv
    <3> QED
      BY <3>1, <3>2 DEF StackInv
  <2>6. Others'
    BY <1>0, <1>a, <2>3 DEF Others, input
  <2> QED
    BY <1>0, <1>a, <2>2, <2>3, <2>4, <2>5, <2>6, FreedKept DEF IInv, Keeps
<1>9. ASSUME NEW f \in Frame, SplitFrame(f) PROVE IInv'
  <2>1. /\ UNCHANGED <<grab, shortcuts, input, mouse, looked, leftover>> /\ live' = live \cup {f}
        /\ Function /\ submapped' = submapped \ {f} /\ f \notin live
        /\ shortcut' = [shortcut EXCEPT ![f] = NULL]
    BY <1>9 DEF SplitFrame
  <2>2. StackInv'
    BY <1>0, <2>1, StackUnchanged DEF input
  <2>3. CutsInv'
    <3>1. SC' = [shortcuts |-> shortcuts, shortcut |-> [shortcut EXCEPT ![f] = NULL]]
      BY <2>1 DEF SC
    <3>2. shortcuts \in [Cut -> Frame \cup {NULL}] /\ shortcut \in [Frame -> Cut \cup {NULL}]
      BY <1>0 DEF CutsInv, SC, Cuts
    <3>3. SC' \in Cuts
      BY <3>1, <3>2 DEF Cuts
    <3>4. ASSUME Matched(SC, live) PROVE Matched(SC', live')
      <4>1. shortcut[f] = NULL
        BY <2>1, <3>2, <3>4, GrabsAssumption DEF Matched, SC
      <4>2. SC' = SC
        BY <3>1, <3>2, <4>1 DEF SC
      <4> QED
        BY <2>1, <3>4, <4>2 DEF Matched
    <3> QED
      BY <1>0, <2>1, <3>3, <3>4 DEF CutsInv
  <2>4. Others'
    BY <1>0, <1>a, <2>1 DEF Others, input
  <2> QED
    BY <1>0, <1>a, <2>1, <2>2, <2>3, <2>4 DEF IInv, KbInv
<1>10. CASE OtherFunctions
  <2>1. UNCHANGED <<grab, live, submapped, input, cuts, mouse, looked, leftover>>
    BY <1>10 DEF OtherFunctions
  <2>2. call' \in Calls /\ call'.by = call.by /\ CallInv'
    BY <1>0, <1>10, <2>1, GrabsAssumption DEF OtherFunctions, Others, Calls, CallInv
  <2>3. StackInv' /\ CutsInv'
    BY <1>0, <2>1, StackUnchanged, CutsKept DEF input
  <2> QED
    BY <1>0, <2>1, <2>2, <2>3 DEF IInv, Others, KbInv, input
<1> QED
  BY <1>2, <1>3, <1>4, <1>5, <1>6, <1>7, <1>8, <1>9, <1>10 DEF RunFunction

LEMMA ReturnStep == IInv /\ (FinishGrabHandler \/ FinishKeyPress) => IInv'
<1> SUFFICES ASSUME IInv, FinishGrabHandler \/ FinishKeyPress PROVE IInv'
  OBVIOUS
<1>0. Others /\ Sound(grab) /\ KbInv /\ CutsInv /\ StackInv /\ grab \in Grab
  BY SoundGrab DEF IInv
<1>1. /\ call' \in Calls /\ call.by # "press"
      /\ UNCHANGED <<live, submapped, input, cuts, looked, mouse, leftover>>
      /\ CallInv'
  BY IdleType DEF FinishGrabHandler, FinishKeyPress, Finishing, CallInv
<1> DEFINE Good(r) == Keeps(grab, r) /\ Trims(grab, r)
<1>2. \A r : Good(r) => Good(Forget(r))
  <2> SUFFICES ASSUME NEW r, Good(r) PROVE Good(Forget(r))
    OBVIOUS
  <2>1. Sound(r) /\ r \in Grab
    BY SoundGrab DEF Keeps
  <2>2. Keeps(r, Forget(r)) /\ Trims(r, Forget(r)) /\ Forget(r) \in Grab
    BY <2>1, ForgetKeeps, ForgetForgets DEF Keeps, Sound
  <2> QED
    BY <1>0, <2>1, <2>2, TrimsTwice DEF Keeps
<1>3. Good(grab)
  BY <1>0, SoundGrab DEF Keeps
<1>4. \A h, junk : junk \in BOOLEAN => Good(GrabRemove(grab, h, junk))
  BY <1>0, GrabRemoveKeeps, GrabRemoveTakesOne
<1>5. \E r : Good(r) /\ (grab' = r \/ grab' = GrabEstablish(r, Screen, "waitrelease"))
  <2> HIDE DEF Good
  <2> QED
    BY <1>2, <1>3, <1>4 DEF FinishGrabHandler, FinishKeyPress
<1>6. PICK r : Good(r) /\ (grab' = r \/ grab' = GrabEstablish(r, Screen, "waitrelease"))
  BY <1>5
<1>7. Sound(r) /\ r \in Grab
  BY <1>6, SoundGrab DEF Keeps
<1>8. /\ leftover \/ Existing(r, live \cup {Screen})
      /\ Modes(r, commandmode_active) /\ Bottom(r)
  BY <1>0, <1>6, <1>7, TrimsKeeps DEF StackInv
<1>9. Keeps(grab, grab')
  BY <1>6, <1>7, GrabEstablishKeeps DEF Keeps, Holder, Handlers, ForFrames
<1>10. StackInv'
  <2>1. CASE grab' = r
    BY <1>1, <1>8, <2>1 DEF StackInv, input
  <2>2. CASE grab' = GrabEstablish(r, Screen, "waitrelease")
    <3>1. /\ leftover \/ Existing(grab', live \cup {Screen})
          /\ Modes(grab', commandmode_active) /\ Bottom(grab')
      <4>1. "waitrelease" # "command" /\ "waitrelease" # "submap"
        OBVIOUS
      <4> HIDE DEF Good
      <4> QED
        BY <1>7, <1>8, <2>2, <4>1, EstablishKeepsEntries
    <3> QED
      BY <1>1, <3>1 DEF StackInv, input
  <2> QED
    BY <1>6, <2>1, <2>2
<1> QED
  BY <1>0, <1>1, <1>9, <1>10, FreedKept, CutsKept DEF IInv, Others, Keeps, input

\* Grabbing and ungrabbing the keyboard leaves the entries as they are.
LEMMA KbPtrKeepsStack ==
  ASSUME StackInv, Sound(grab), NEW t, grab' = UngrabKbPtr(grab) \/ grab' = GrabKbPtr(grab, t),
         UNCHANGED <<live, commandmode_active, leftover>>
  PROVE  StackInv'
<1>1. grab'.idx = grab.idx /\ grab'.slot = grab.slot
  BY DEF UngrabKbPtr, GrabKbPtr, Sound, Grab
<1> QED
  BY <1>1 DEF StackInv, Existing, Modes, Bottom, HandledBy, Unmarked

LEMMA PointerStep == IInv /\ Pointer => IInv'
<1> SUFFICES ASSUME IInv, Pointer PROVE IInv'
  OBVIOUS
<1>0. Others /\ Sound(grab) /\ KbInv /\ CutsInv /\ StackInv /\ CallInv
  BY DEF IInv
<1>1. ASSUME NEW t \in Frame \cup Cwin, ButtonPress(t) PROVE IInv'
  <2>1. Sound(grab')
    BY <1>0, <1>1, GrabKbPtrKeeps DEF ButtonPress, Holder
  <2>2. UNCHANGED <<live, submapped, input, cuts, mouse, looked, leftover>>
    BY <1>1 DEF ButtonPress
  <2>3. call' \in Calls /\ call'.by = "press" /\ CallInv'
    BY <1>0, <1>1, <2>2, RunsType DEF ButtonPress
  <2>4. StackInv'
    BY <1>0, <1>1, <2>2, KbPtrKeepsStack DEF ButtonPress, input
  <2> QED
    BY <1>0, <2>1, <2>2, <2>3, <2>4, CutsKept DEF IInv, Others, input, KbInv
<1>2. CASE FinishButtonPress
  <2>1. /\ call' \in Calls /\ mouse' = "down" /\ CallInv'
        /\ UNCHANGED <<grab, live, submapped, input, cuts, looked, leftover>>
    BY <1>2, IdleType DEF FinishButtonPress, Finishing, CallInv
  <2>2. StackInv'
    BY <1>0, <2>1, StackUnchanged DEF input
  <2> QED
    BY <1>0, <2>1, <2>2, CutsKept DEF IInv, Others, input, KbInv
<1>3. CASE PointerResize
  <2>1. /\ mouse' = "resizing" /\ resize_mode' = TRUE
        /\ UNCHANGED <<grab, live, submapped, commandmode_active, resize_timer, cuts, call, looked, leftover>>
    BY <1>3 DEF PointerResize
  <2>2. StackInv' /\ CallInv'
    BY <1>0, <2>1, StackUnchanged DEF CallInv
  <2> QED
    BY <1>0, <2>1, <2>2, CutsKept DEF IInv, Others, KbInv
<1>4. CASE ButtonReleaseResize
  <2>1. Sound(grab') /\ grab'.kb = FALSE
    BY <1>0, <1>4, UngrabKbPtrKeeps DEF ButtonReleaseResize, Keeps, UngrabKbPtr, Sound, Grab
  <2>2. resize_mode' \in BOOLEAN /\ resize_timer' \in BOOLEAN /\ mouse' = "up"
    BY <1>0, <1>4 DEF ButtonReleaseResize, EndResize, Others
  <2>3. UNCHANGED <<live, submapped, commandmode_active, cuts, call, looked, leftover>>
    BY <1>4 DEF ButtonReleaseResize
  <2>4. StackInv' /\ CallInv'
    BY <1>0, <1>4, <2>3, KbPtrKeepsStack DEF ButtonReleaseResize, CallInv
  <2> QED
    BY <1>0, <2>1, <2>2, <2>3, <2>4, CutsKept DEF IInv, Others, KbInv
<1>5. CASE ButtonRelease
  <2>1. UNCHANGED <<grab, live, submapped, input, cuts, mouse, looked, leftover>>
        /\ Runs("release", FALSE) /\ call.by = "none"
    BY <1>5, IdleType DEF ButtonRelease
  <2> QED
    BY <1>0, <2>1, RunsStep DEF Others
<1>6. CASE FinishButtonRelease
  <2>1. Sound(grab') /\ grab'.kb = FALSE
    BY <1>0, <1>6, UngrabKbPtrKeeps DEF FinishButtonRelease, Keeps, UngrabKbPtr, Sound, Grab
  <2>2. /\ call' \in Calls /\ mouse' = "up" /\ CallInv'
        /\ UNCHANGED <<live, submapped, input, cuts, looked, leftover>>
    BY <1>6, IdleType DEF FinishButtonRelease, Finishing, CallInv
  <2>3. StackInv'
    BY <1>0, <1>6, <2>2, KbPtrKeepsStack DEF FinishButtonRelease, input
  <2> QED
    BY <1>0, <2>1, <2>2, <2>3, CutsKept DEF IInv, Others, input, KbInv
<1> QED
  BY <1>1, <1>2, <1>3, <1>4, <1>5, <1>6 DEF Pointer

LEMMA OtherStep ==
  IInv /\ (TimerFires \/ (\E c \in Cwin : Manage(c) \/ CwinGone(c)) \/ UNCHANGED vars) => IInv'
<1> SUFFICES ASSUME IInv, TimerFires \/ (\E c \in Cwin : Manage(c) \/ CwinGone(c)) \/ UNCHANGED vars
    PROVE  IInv'
  OBVIOUS
<1>0. Others /\ Sound(grab) /\ KbInv /\ CutsInv /\ StackInv /\ CallInv
  BY DEF IInv
<1>1. CASE TimerFires
  <2>1. resize_mode' \in BOOLEAN /\ resize_timer' \in BOOLEAN
    BY <1>0, <1>1 DEF TimerFires, EndResize, Others
  <2>2. UNCHANGED <<grab, live, submapped, commandmode_active, cuts, mouse, call, looked, leftover>>
    BY <1>1 DEF TimerFires
  <2>3. StackInv' /\ CallInv'
    BY <1>0, <2>2, StackUnchanged DEF CallInv
  <2> QED
    BY <1>0, <2>1, <2>2, <2>3, CutsKept DEF IInv, Others, KbInv
<1>2. ASSUME NEW c \in Cwin, Manage(c) PROVE IInv'
  <2>1. /\ UNCHANGED <<grab, submapped, input, cuts, mouse, call, looked, leftover>>
        /\ live' = live \cup {c}
    BY <1>2 DEF Manage
  <2>2. StackInv' /\ CallInv'
    BY <1>0, <2>1, StackUnchanged DEF CallInv, input
  <2> QED
    BY <1>0, <2>1, <2>2, CutsKept DEF IInv, Others, input, KbInv
<1>3. ASSUME NEW c \in Cwin, CwinGone(c) PROVE IInv'
  <2>1. PICK junk \in BOOLEAN : grab' = Forget(DestroyThing(grab, c, junk))
    BY <1>3 DEF CwinGone
  <2> DEFINE r == DestroyThing(grab, c, junk)
  <2>2. /\ Keeps(grab, r) /\ Trims(grab, r)
        /\ \A S : Existing(grab, S) /\ ~HeldTwice(grab, c) => Existing(r, S \ {c})
    BY <1>0, DestroyThingKeeps, DestroyThingTakesOne
  <2> HIDE DEF r
  <2>3. Keeps(grab, grab') /\ r \in Grab /\ grab' \in Grab /\ Trims(r, grab')
    <3>1. Sound(r) /\ r \in Grab
      BY <2>2, SoundGrab DEF Keeps
    <3> QED
      BY <2>1, <2>2, <3>1, ForgetKeeps, ForgetForgets DEF Keeps, Sound, r
  <2>4. /\ UNCHANGED <<submapped, input, cuts, mouse, call, looked>> /\ live' = live \ {c}
        /\ leftover' = (leftover \/ HeldTwice(grab, c))
    BY <1>3 DEF CwinGone, Remember
  <2>5. live \cap Frame \subseteq live'
    BY <2>4, GrabsAssumption
  <2>6. StackInv'
    <3>1. Modes(grab', commandmode_active') /\ Bottom(grab')
      BY <1>0, <2>2, <2>3, <2>4, TrimsKeeps, SoundGrab DEF StackInv, input
    <3>2. leftover' \/ Existing(grab', live' \cup {Screen})
      <4>1. (live \cup {Screen}) \ {c} = live' \cup {Screen}
        BY <2>4, GrabsAssumption
      <4> QED
        BY <1>0, <2>2, <2>3, <2>4, <4>1, TrimsKeeps DEF StackInv
    <3> QED
      BY <3>1, <3>2 DEF StackInv
  <2>7. CallInv' /\ KbInv' /\ CutsInv'
    BY <1>0, <2>3, <2>4, <2>5, FreedKept, CutsKept DEF CallInv
  <2> QED
    BY <1>0, <2>3, <2>4, <2>6, <2>7 DEF IInv, Others, Keeps, input
<1>4. CASE UNCHANGED vars
  <2>1. StackInv' /\ CallInv'
    BY <1>0, <1>4, StackUnchanged DEF vars, input, CallInv
  <2> QED
    BY <1>0, <1>4, <2>1, CutsKept DEF vars, input, IInv, Others, KbInv
<1> QED
  BY <1>1, <1>2, <1>3, <1>4

THEOREM Invariant == Spec => []IInv
<1>1. IInv /\ [Next]_vars => IInv'
  BY KeyStep, FunctionStep, ReturnStep, PointerStep, OtherStep DEF Next
<1> QED
  BY <1>1, InitIInv, PTL DEF Spec

\* The stack stays within its array of any size, and every shortcut, handler
\* and flag keeps its type, however many functions a binding runs and whatever
\* they destroy.
THEOREM TypeCorrect == Spec => []TypeOK
BY Invariant, IInvImplies, PTL

\* No order in which functions remove their own and each other's grabs leaves
\* a marked entry on top of the stack, where it would swallow a key.
THEOREM StackSwept == Spec => []TopUnmarked
BY Invariant, IInvImplies, PTL

\* Once the buttons are up, a grabbed keyboard is grabbed for a handler that
\* gets the next key, and, until something was destroyed that held more than
\* one grab, that handler is called with a thing that exists.
THEOREM KeyboardIsFreed == Spec => []KeyboardFreed
BY Invariant, IInvImplies, PTL

\* Shortcuts and frames stay matched one to one, and only with frames that
\* exist, until something was destroyed that held more than one grab.
THEOREM ShortcutsStayMatched == Spec => []ShortcutsMatch
BY Invariant, IInvImplies, PTL

-----------------------------------------------------------------------------
(* The modes. *)

\* While the timer runs nobody is running functions and no button is down, so
\* that only the keys of the resize mode can change the stack, and its frame
\* cannot be destroyed.
Timed ==
  resize_timer =>
    /\ resize_mode /\ Waiting /\ grab.idx > 0 /\ Top(grab).handler = "resize"

\* tmr_end_resize finds the grab that is on top.
LEMMA TimedIsSafe == IInv /\ Timed => ResizeTimerSafe
<1> SUFFICES ASSUME IInv, Timed, resize_timer
             PROVE  resize_mode /\ GrabHolder(grab, "resize") \in (IF leftover THEN Frame ELSE live)
  BY DEF ResizeTimerSafe
<1>1. /\ grab.idx \in Nat /\ grab.idx \in 1..MaxGrabs
      /\ grab.slot[grab.idx].holder \in Frame
      /\ leftover \/ grab.slot[grab.idx].holder \in live
  <2>1. grab.idx \in Nat /\ grab.idx \in 1..MaxGrabs
    BY MaxGrabsIsNat DEF IInv, Sound, Grab, Timed
  <2>2. grab.slot[grab.idx].holder \in Frame
    BY <2>1 DEF IInv, Sound, HeldByFrames, ForFrames, Timed, Top
  <2> QED
    BY <2>1, <2>2, HolderExists, GrabsAssumption DEF Timed, Top
<1> DEFINE S == HandledBy(grab, "resize")
<1>2. S \subseteq 1..grab.idx /\ grab.idx \in S
  BY <1>1 DEF Timed, HandledBy, Top
<1>3. \A i \in S : i <= grab.idx
  BY <1>1, <1>2
<1> HIDE DEF S
<1>4. Highest(S) \in S /\ \A i \in S : i <= Highest(S)
  BY <1>1, <1>2, HighestIsHighest
<1>5. Highest(S) = grab.idx
  <2>1. Highest(S) \in 1..grab.idx
    BY <1>2, <1>4
  <2>2. grab.idx <= Highest(S)
    BY <1>2, <1>4
  <2> QED
    BY <1>1, <2>1, <2>2
<1> QED
  BY <1>1, <1>5 DEF GrabHolder, S, Timed

\* The window of a client holds no grab of the resize mode.
LEMMA CwinLeavesTop ==
  ASSUME NEW g, Sound(g), g.idx > 0, NEW c \in Cwin, Top(g).holder \in Frame,
         NEW junk \in BOOLEAN
  PROVE  LET r == Forget(DestroyThing(g, c, junk))
         IN  r.idx = g.idx /\ Top(r).handler = Top(g).handler /\ Top(r).holder = Top(g).holder
<1> DEFINE i == Highest(HeldFor(g, c))
           m == Mark(g, i)
<1>1. g \in Grab /\ g.idx \in 1..MaxGrabs /\ g.idx \in Nat /\ HeldByFrames(g)
  BY MaxGrabsIsNat DEF Sound, Grab
<1>2. i \in 0..g.idx /\ i # g.idx
  <2>1. HeldFor(g, c) \in SUBSET (1..g.idx) /\ g.idx \notin HeldFor(g, c)
    BY <1>1, GrabsAssumption DEF HeldFor, Top
  <2>2. i \in 0..g.idx
    <3> HIDE DEF i
    <3> QED
      BY <1>1, <2>1, HighestType DEF i
  <2>3. HeldFor(g, c) # {} => i \in HeldFor(g, c)
    BY <1>1, <2>1, HighestIsHighest
  <2>4. HeldFor(g, c) = {} => i = 0
    BY DEF Highest
  <2> QED
    BY <1>1, <2>1, <2>2, <2>3, <2>4
<1> HIDE DEF i
<1>3. m \in Grab /\ m.idx = g.idx /\ m.slot[g.idx] = g.slot[g.idx]
  <2>1. m \in Grab /\ m.idx = g.idx
    BY <1>1, <1>2, MarkKeeps
  <2>2. CASE i = 0
    BY <2>1, <2>2 DEF Mark
  <2>3. CASE i # 0
    BY <1>1, <1>2, <2>1, <2>3 DEF Mark, Grab
  <2> QED
    BY <2>1, <2>2, <2>3
<1> HIDE DEF m
<1>4. PopMarked(m, junk) = m
  BY <1>1, <1>3 DEF PopMarked, Top, Sound, Free
<1>5. GrabRemoveFor(g, c, junk) = m
  BY <1>4 DEF GrabRemoveFor, m, i
<1> DEFINE d == DestroyThing(g, c, junk)
<1>6. d.idx = g.idx /\ d.slot = m.slot /\ d \in Grab
  BY <1>3, <1>5 DEF DestroyThing, Grab
<1> HIDE DEF d
<1>7. Forget(d).idx = d.idx /\ Forget(d).slot = [j \in 1..MaxGrabs |-> IF j <= d.idx THEN d.slot[j] ELSE NoGrab]
  BY <1>6 DEF Forget, Grab
<1> QED
  BY <1>1, <1>3, <1>6, <1>7 DEF Top, d

LEMMA TimedStep == IInv /\ Timed /\ [Next]_vars => Timed'
<1> SUFFICES ASSUME IInv, Timed, [Next]_vars, resize_timer'
             PROVE  Timed'
  BY DEF Timed
<1>0. Others /\ Sound(grab)
  BY DEF IInv
<1>1. ASSUME NEW f \in {"grow", "end"}, KeyResize(f) PROVE Timed'
  <2>1. Waiting /\ grab.idx > 0 /\ Top(grab).handler = "resize"
    BY <1>1 DEF KeyResize, Dispatch
  <2>2. resize_mode /\ resize_mode' /\ UNCHANGED <<grab, mouse, call>>
    BY <1>0, <1>1 DEF KeyResize, EndResize, Timed, Returned, Others
  <2> QED
    BY <2>1, <2>2 DEF Timed, Top, Waiting
<1>2. ASSUME resize_timer, NEW c \in Cwin, CwinGone(c) PROVE Timed'
  <2>1. PICK junk \in BOOLEAN : grab' = Forget(DestroyThing(grab, c, junk))
    BY <1>2 DEF CwinGone
  <2>2. Top(grab).holder \in Frame /\ Top(grab).handler = "resize"
        /\ grab.idx > 0 /\ resize_mode /\ Waiting
    BY <1>0, <1>2, MaxGrabsIsNat DEF Timed, Top, Sound, HeldByFrames, ForFrames, Grab
  <2>3. Top(grab').handler = "resize" /\ grab'.idx > 0
    BY <1>0, <2>1, <2>2, CwinLeavesTop
  <2>4. UNCHANGED <<input, mouse, call>>
    BY <1>2 DEF CwinGone
  <2> QED
    BY <2>2, <2>3, <2>4 DEF Timed, Waiting, input
<1>3. ASSUME resize_timer, NEW c \in Cwin, Manage(c) PROVE Timed'
  BY <1>3 DEF Timed, Manage, Waiting, Top, input
<1>4. CASE UNCHANGED vars
  BY <1>4 DEF Timed, vars, Waiting, Top, input
<1>5. CASE TimerFires
  BY <1>0, <1>5 DEF TimerFires, EndResize, Timed, Others
<1>6. CASE Pointer
  <2>1. resize_timer
    BY <1>0, <1>6 DEF Pointer, ButtonPress, FinishButtonPress, PointerResize, ButtonReleaseResize,
                      ButtonRelease, FinishButtonRelease, Finishing, EndResize, input, Others
  <2>2. Waiting /\ grab.idx # 0 /\ mouse = "up"
    BY <1>0, <2>1 DEF Timed, Waiting, Sound, Grab
  <2>3. call.by = "none"
    BY <2>2, IdleType DEF Waiting
  <2> QED
    BY <1>0, <1>6, <2>2, <2>3
       DEF Pointer, ButtonPress, FinishButtonPress, PointerResize, ButtonReleaseResize,
           ButtonRelease, FinishButtonRelease, Finishing
<1>7. CASE RunFunction \/ FinishGrabHandler \/ FinishKeyPress
  <2>1. resize_timer
    BY <1>7 DEF RunFunction, DoSetShortcut, DoGotoShortcut, EnterCommandMode, BeginKeyResize,
                DestroyFrame, SplitFrame, QuoteNext, LeaveCommandMode, OtherFunctions,
                FinishGrabHandler, FinishKeyPress, Finishing, input
  <2>2. call = Idle
    BY <2>1 DEF Timed, Waiting
  <2>3. call.by = "none" /\ call.left = 0
    BY <2>2 DEF Idle
  <2> QED
    BY <1>7, <2>3 DEF RunFunction, DoSetShortcut, DoGotoShortcut, EnterCommandMode, BeginKeyResize,
                DestroyFrame, SplitFrame, QuoteNext, LeaveCommandMode, OtherFunctions,
                FinishGrabHandler, FinishKeyPress, Finishing, Function
<1>8. CASE Key
  <2>1. ASSUME Key, ~(\E f \in {"grow", "end"} : KeyResize(f)) PROVE FALSE
    <3>1. resize_timer
      BY <2>1 DEF Key, KeyQuoteNext, KeyWaitRelease, KeySubmap, KeySetShortcut, KeyGotoShortcut,
                  KeyCommandMode, KeyPrefix, KeyBinding, input
    <3>2. grab.idx # 0 /\ Top(grab).handler = "resize"
      BY <1>0, <3>1 DEF Timed, Sound, Grab
    <3> QED
      BY <2>1, <3>2 DEF Key, KeyQuoteNext, KeyWaitRelease, KeySubmap, KeySetShortcut,
                        KeyGotoShortcut, KeyCommandMode, KeyPrefix, KeyBinding, KeyPressed, Dispatch
  <2> QED
    BY <1>1, <1>8, <2>1
<1>9. ASSUME NEW c \in Cwin, Manage(c) \/ CwinGone(c) PROVE resize_timer
  BY <1>9 DEF Manage, CwinGone, input
<1> QED
  BY <1>2, <1>3, <1>4, <1>5, <1>6, <1>7, <1>8, <1>9 DEF Next

\* No mode outlives what it needs, for any number of slots and of functions in
\* a binding: whenever the timer of the resize mode can fire, tmr_end_resize
\* finds the frame to resize, and command mode that was left has no grab.
THEOREM ModesAreHeld == Spec => []ModesHeld
<1>1. Init => Timed
  BY DEF Init, Timed
<1>2. IInv /\ Timed /\ [Next]_vars => Timed'
  BY TimedStep
<1>3. IInv /\ Timed => ModesHeld
  BY TimedIsSafe, IInvImplies DEF ModesHeld
<1> QED
  BY <1>1, <1>2, <1>3, Invariant, PTL DEF Spec

-----------------------------------------------------------------------------
(* The handler that is done. *)

\* A handler of which only FinishGrabHandler is the end.
LEMMA OnlyFinishing ==
  ASSUME IInv, Next, call.by = "grab", call' = Idle
  PROVE  FinishGrabHandler
<1>1. call # Idle
  BY DEF Idle
<1>2. ~Function /\ ~OtherFunctions
  <2>1. \A n : [call EXCEPT !.left = n].by = "grab"
    BY DEF IInv, Others, Calls
  <2> QED
    BY <2>1 DEF Function, OtherFunctions, Idle
<1>3. ~RunFunction
  BY <1>2 DEF RunFunction, DoSetShortcut, DoGotoShortcut, EnterCommandMode, BeginKeyResize,
              DestroyFrame, SplitFrame, QuoteNext, LeaveCommandMode
<1>4. ~Waiting
  BY <1>1 DEF Waiting
<1>5. ~Key
  BY <1>4 DEF Key, KeyQuoteNext, KeyWaitRelease, KeySubmap, KeySetShortcut, KeyGotoShortcut,
              KeyCommandMode, KeyResize, KeyPrefix, KeyBinding, KeyPressed, Dispatch
<1>6. ~Pointer /\ ~FinishKeyPress /\ ~TimerFires
  BY <1>1, <1>4 DEF Pointer, ButtonPress, FinishButtonPress, PointerResize,
       ButtonReleaseResize, ButtonRelease, FinishButtonRelease, FinishKeyPress, Finishing,
       TimerFires
<1>7. \A c \in Cwin : ~Manage(c) /\ ~CwinGone(c)
  BY <1>4 DEF Manage, CwinGone
<1> QED
  BY <1>3, <1>5, <1>6, <1>7 DEF Next

\* What was asked for goes: command mode was left before, and a submap has the
\* slot at the bottom, which nothing but its handler's end gives up by name.
LEMMA OwnEntryGoes ==
  ASSUME IInv, IInv', FinishGrabHandler, HandlerResult
  PROVE  HandledBy(grab', call.handler) \cap Unmarked(grab') = {}
<1>0. Sound(grab) /\ grab \in Grab /\ grab.idx \in Nat
  BY SoundGrab DEF IInv
<1>1. CASE call.handler = "command"
  <2>1. commandmode_active' = FALSE
    BY <1>1 DEF HandlerResult, FinishGrabHandler, Finishing, input, IInv, Others
  <2>2. \A i \in HandledBy(grab', "command") \cap Unmarked(grab') : FALSE
    BY <2>1 DEF IInv, StackInv, Modes
  <2> QED
    BY <1>1, <2>2
<1>2. CASE call.handler = "submap" /\ call.slot = 1
  <2> DEFINE h == grab.slot[call.slot].handler
  <2>1. PICK junk \in BOOLEAN : grab' = Forget(GrabRemove(grab, h, junk))
    BY DEF FinishGrabHandler
  <2> DEFINE r == GrabRemove(grab, h, junk)
             S == HandledBy(grab, h)
  <2>2. /\ Trims(grab, r) /\ Sound(r)
        /\ S # {} => Highest(S) \in S /\ Highest(S) \notin Unmarked(r)
    BY <1>0, GrabRemoveTakesOne, GrabRemoveKeeps DEF Keeps
  <2> HIDE DEF r
  <2>3. r \in Grab /\ r.idx \in Nat /\ r.idx \in 0..grab.idx
    BY <2>2, SoundGrab DEF Trims
  <2>4. /\ grab'.idx = r.idx /\ Unmarked(grab') = Unmarked(r)
        /\ \A i \in 1..r.idx : grab'.slot[i] = r.slot[i]
    BY <2>1, <2>3, ForgetForgets DEF r
  <2> SUFFICES ASSUME NEW i \in HandledBy(grab', "submap"), i \in Unmarked(grab') PROVE FALSE
    BY <1>2
  <2>5. i \in 1..r.idx /\ i \in 1..grab.idx /\ grab.slot[i].handler = "submap"
    BY <1>0, <2>2, <2>3, <2>4 DEF HandledBy, Trims
  <2>6. i = 1 /\ \A j \in HandledBy(grab, "submap") : j = 1
    BY <2>5 DEF IInv, StackInv, Bottom, HandledBy
  <2>7. h = "submap" /\ S # {}
    BY <1>2, <2>5, <2>6 DEF HandledBy
  <2>8. Highest(S) = i
    BY <2>2, <2>6, <2>7
  <2> QED
    BY <2>2, <2>4, <2>7, <2>8
<1>3. call.by = "grab"
  BY DEF FinishGrabHandler, Finishing
<1> QED
  BY <1>1, <1>2, <1>3 DEF IInv, CallInv

LEMMA OthersStay ==
  ASSUME IInv, FinishGrabHandler, grab.slot[call.slot].handler = call.handler,
         NEW i \in Unmarked(grab) \ HandledBy(grab, call.handler)
  PROVE  i \in Unmarked(grab') /\ grab'.slot[i] = grab.slot[i]
<1>0. Sound(grab) /\ grab \in Grab /\ grab.idx \in Nat /\ grab.idx \in 0..MaxGrabs /\ MaxGrabs \in Nat
  BY SoundGrab DEF IInv
<1>1. CASE HandlerResult
  <2>1. PICK junk \in BOOLEAN : grab' = Forget(GrabRemove(grab, call.handler, junk))
    BY <1>1 DEF FinishGrabHandler
  <2> DEFINE r == GrabRemove(grab, call.handler, junk)
             S == HandledBy(grab, call.handler)
  <2>2. /\ Trims(grab, r) /\ Sound(r) /\ AllBut(grab, r, Highest(S))
        /\ S # {} => Highest(S) \in S
    BY <1>0, GrabRemoveTakesOne, GrabRemoveKeeps DEF Keeps
  <2> HIDE DEF r
  <2>3. i # Highest(S)
    <3>1. S = {} => Highest(S) = 0
      BY DEF Highest
    <3>2. i # 0
      BY <1>0 DEF Unmarked
    <3> QED
      BY <2>2, <3>1, <3>2
  <2>4. i \in Unmarked(r) /\ r.slot[i] = grab.slot[i]
    BY <2>2, <2>3 DEF AllBut
  <2>5. r \in Grab /\ i \in 1..r.idx
    BY <2>2, <2>4, SoundGrab DEF Unmarked
  <2> QED
    BY <2>1, <2>4, <2>5, ForgetForgets DEF r
<1>2. CASE ~HandlerResult
  <2> DEFINE g == Forget(grab)
             e == GrabEstablish(g, Screen, "waitrelease")
  <2>1. g \in Grab /\ g.idx = grab.idx /\ g.slot[i] = grab.slot[i] /\ i \in Unmarked(g)
    BY <1>0, ForgetForgets, ForgetKeeps DEF Keeps, Sound, Unmarked
  <2> HIDE DEF g
  <2>2. e.idx \in {g.idx, g.idx + 1} /\ e.slot[i] = g.slot[i]
    BY <1>0, <2>1, EstablishAddsOne DEF Unmarked
  <2> HIDE DEF e
  <2>3. i \in Unmarked(e)
    BY <1>0, <2>1, <2>2 DEF Unmarked
  <2> QED
    BY <1>2, <2>1, <2>2, <2>3 DEF FinishGrabHandler, g, e
<1> QED
  BY <1>1, <1>2

\* A handler that is done has no grab any more, and no other grab went with it,
\* for any number of slots and of functions in a binding, unless its functions
\* have given its slot to another handler.
THEOREM OwnGrabsRemoved == Spec => OnlyOwnGrabRemoved
<1> DEFINE Gives == call.by = "grab" /\ call' = Idle =>
       /\ HandlerResult => HandledBy(grab', call.handler) \cap Unmarked(grab') = {}
       /\ grab.slot[call.slot].handler = call.handler =>
            \A i \in Unmarked(grab) \ HandledBy(grab, call.handler) :
              i \in Unmarked(grab') /\ grab'.slot[i] = grab.slot[i]
<1>1. IInv /\ IInv' /\ [Next]_vars => [Gives]_vars
  BY OnlyFinishing, OwnEntryGoes, OthersStay
<1> QED
  BY <1>1, Invariant, PTL DEF Spec, OnlyOwnGrabRemoved


-----------------------------------------------------------------------------
(* The order of bindings. *)

States == (SUBSET Modifier) \cup {{AnyModifier}}

\* What compare_bindings looks at.
IsKey(a) == a.act \in Nat /\ a.kcb \in Nat /\ a.state \in States

LEMMA Numbers == /\ Action \subseteq Nat /\ Keycode \subseteq Nat /\ Modifier \subseteq Nat
                 /\ AnyKey \in Nat
BY BindingsAssumption DEF AnyKey

LEMMA BindingIsKey ==
  ASSUME NEW b \in Binding
  PROVE  IsKey(b)
<1>1. b \in [act : Action, kcb : Keycode \cup {AnyKey}, state : (SUBSET Modifier) \cup {{AnyModifier}},
             waitrel : BOOLEAN, func : {"f", "g"}]
  BY BindingsAssumption
<1>2. b.act \in Action /\ b.kcb \in Keycode \cup {AnyKey} /\ b.state \in States
  BY <1>1 DEF States
<1>3. b.act \in Nat /\ b.kcb \in Nat
  BY <1>2, Numbers
<1> QED
  BY <1>2, <1>3 DEF IsKey

LEMMA MaskNumbers ==
  ASSUME NEW s \in States
  PROVE  Mask(s) \in Nat /\ \A t \in States : Mask(s) = Mask(t) => s = t
BY MaskAssumption DEF States

\* Of two keys one is less, unless they are the same, and less is transitive.
LEMMA Order ==
  ASSUME NEW a, NEW b, IsKey(a), IsKey(b)
  PROVE  /\ Less(a, b) \/ Less(b, a) \/ Same(a, b)
         /\ Less(a, b) => ~Less(b, a) /\ ~Same(a, b) /\ ~Same(b, a)
         /\ Same(a, b) => Same(b, a)
<1> DEFINE k == Mask(a.state)
           l == Mask(b.state)
<1>1. /\ a.act \in Nat /\ b.act \in Nat /\ a.kcb \in Nat /\ b.kcb \in Nat
      /\ k \in Nat /\ l \in Nat /\ (k = l => a.state = b.state)
  BY MaskNumbers DEF IsKey
<1>2. a.state = b.state => k = l
  OBVIOUS
<1> HIDE DEF k, l
<1>3. /\ Less(a, b) <=> \/ a.act < b.act \/ (a.act = b.act /\ a.kcb < b.kcb)
                        \/ (a.act = b.act /\ a.kcb = b.kcb /\ k < l)
      /\ Less(b, a) <=> \/ b.act < a.act \/ (b.act = a.act /\ b.kcb < a.kcb)
                        \/ (b.act = a.act /\ b.kcb = a.kcb /\ l < k)
  BY DEF Less, k, l
<1> QED
  BY <1>1, <1>2, <1>3 DEF Same

LEMMA LessTransitive ==
  ASSUME NEW a, NEW b, NEW c, IsKey(a), IsKey(b), IsKey(c)
  PROVE  /\ Less(a, b) /\ Less(b, c) => Less(a, c)
         /\ Less(a, b) /\ Same(b, c) => Less(a, c)
         /\ Same(a, b) /\ Less(b, c) => Less(a, c)
         /\ Same(a, b) /\ Same(b, c) => Same(a, c)
<1> DEFINE k == Mask(a.state)
           l == Mask(b.state)
           m == Mask(c.state)
<1>1. /\ a.act \in Nat /\ b.act \in Nat /\ a.kcb \in Nat /\ b.kcb \in Nat
      /\ c.act \in Nat /\ c.kcb \in Nat /\ k \in Nat /\ l \in Nat /\ m \in Nat
  BY MaskNumbers DEF IsKey
<1>2. (a.state = b.state => k = l) /\ (b.state = c.state => l = m)
  OBVIOUS
<1> HIDE DEF k, l, m
<1>3. /\ Less(a, b) <=> \/ a.act < b.act \/ (a.act = b.act /\ a.kcb < b.kcb)
                        \/ (a.act = b.act /\ a.kcb = b.kcb /\ k < l)
      /\ Less(b, c) <=> \/ b.act < c.act \/ (b.act = c.act /\ b.kcb < c.kcb)
                        \/ (b.act = c.act /\ b.kcb = c.kcb /\ l < m)
      /\ Less(a, c) <=> \/ a.act < c.act \/ (a.act = c.act /\ a.kcb < c.kcb)
                        \/ (a.act = c.act /\ a.kcb = c.kcb /\ k < m)
  BY DEF Less, k, l, m
<1> QED
  BY <1>1, <1>2, <1>3 DEF Same

-----------------------------------------------------------------------------
(* The map. *)

Ordered(m) == \A i, j \in 1 .. Len(m) : i < j => Less(m[i], m[j])

\* A set of numbers that is not empty has a least one.
LEMMA LeastNumber ==
  ASSUME NEW T, T \subseteq Nat, T # {}
  PROVE  \E n \in T : \A m \in T : n <= m
<1>1. PICK n \in T : \A m \in T : ~(<<m, n>> \in OpToRel(<, Nat))
  BY NatLessThanWellFounded, WFMin
<1>2. \A m \in T : ~(m < n)
  BY <1>1 DEF OpToRel
<1> QED
  BY <1>2

LEMMA PlaceExists ==
  ASSUME NEW m \in Seq(Binding), NEW b
  PROVE  \E n \in 1 .. Len(m) + 1 :
           (n = Len(m) + 1 \/ ~Less(m[n], b)) /\ \A i \in 1 .. n - 1 : Less(m[i], b)
<1> DEFINE Stops(n) == n = Len(m) + 1 \/ ~Less(m[n], b)
           T == {n \in 1 .. Len(m) + 1 : Stops(n)}
<1>1. Len(m) \in Nat /\ Len(m) + 1 \in T /\ T \subseteq Nat
  OBVIOUS
<1>2. PICK n \in T : \A k \in T : n <= k
  <2> HIDE DEF T
  <2> QED
    BY <1>1, LeastNumber
<1>3. n \in 1 .. Len(m) + 1 /\ Stops(n)
  OBVIOUS
<1>4. ASSUME NEW i \in 1 .. n - 1 PROVE Less(m[i], b)
  <2>1. i \in 1 .. Len(m) + 1 /\ ~(n <= i)
    BY <1>1, <1>3
  <2>2. i \notin T
    <3> HIDE DEF T
    <3> QED
      BY <1>2, <2>1
  <2> QED
    BY <2>1, <2>2
<1> QED
  BY <1>3, <1>4

\* add_binding: the map has the bindings that are less before the new one, and those that
\* are not and are not the same after it.
LEMMA AddBindingPlaces ==
  ASSUME NEW m \in Seq(Binding), NEW b \in Binding
  PROVE  \E at \in 1 .. Len(m) + 1, d \in {0, 1} :
           LET r == AddBinding(m, b) IN
           /\ at = Len(m) + 1 \/ ~Less(m[at], b)
           /\ \A i \in 1 .. at - 1 : Less(m[i], b)
           /\ d = (IF at <= Len(m) /\ Same(m[at], b) THEN 1 ELSE 0)
           /\ r \in Seq(Binding) /\ Len(r) = Len(m) + 1 - d
           /\ \A i \in 1 .. at - 1 : r[i] = m[i]
           /\ r[at] = b
           /\ \A i \in at + 1 .. Len(r) : r[i] = m[i - 1 + d]
<1> DEFINE at == CHOOSE n \in 1 .. Len(m) + 1 :
                   (n = Len(m) + 1 \/ ~Less(m[n], b)) /\ \A i \in 1 .. n - 1 : Less(m[i], b)
           d  == IF at <= Len(m) /\ Same(m[at], b) THEN 1 ELSE 0
           n  == Len(m)
           r  == AddBinding(m, b)
<1>1. /\ at \in 1 .. n + 1 /\ (at = n + 1 \/ ~Less(m[at], b))
      /\ \A i \in 1 .. at - 1 : Less(m[i], b)
  BY PlaceExists
<1>2. r = SubSeq(m, 1, at - 1) \o <<b>> \o SubSeq(m, at + d, n)
  <2>1. (IF at <= Len(m) /\ Same(m[at], b) THEN at + 1 ELSE at) = at + d
    <3> HIDE DEF at
    <3> QED
      BY <1>1
  <2> QED
    BY <2>1 DEF AddBinding
<1>3. n \in Nat /\ d \in {0, 1} /\ (d = 1 => at <= n)
  BY DEF n
<1> HIDE DEF at, d, r
<1>4. n = Len(m) /\ \A i \in 1 .. n : m[i] \in Binding
  OBVIOUS
<1> DEFINE p == SubSeq(m, 1, at - 1)
           q == SubSeq(m, at + d, n)
<1>5. p \in Seq(Binding) /\ Len(p) = at - 1 /\ \A i \in 1 .. at - 1 : p[i] = m[i]
  BY <1>1, <1>3, <1>4
<1>6. q \in Seq(Binding) /\ Len(q) = n + 1 - at - d /\ \A i \in 1 .. n + 1 - at - d : q[i] = m[at + d + i - 1]
  BY <1>1, <1>3, <1>4
<1> HIDE DEF p, q
<1>7. r = p \o <<b>> \o q
  BY <1>2 DEF p, q
<1>8. /\ p \o <<b>> \in Seq(Binding) /\ Len(p \o <<b>>) = at
      /\ \A i \in 1 .. at - 1 : (p \o <<b>>)[i] = m[i]
      /\ (p \o <<b>>)[at] = b
  BY <1>1, <1>3, <1>5, SMTT(30)
<1> DEFINE s == p \o <<b>>
<1> HIDE DEF s
<1>9. /\ s \in Seq(Binding) /\ Len(s) = at /\ s[at] = b /\ r = s \o q
      /\ \A i \in 1 .. at - 1 : s[i] = m[i]
  BY <1>7, <1>8 DEF s
<1>10. r \in Seq(Binding) /\ Len(r) = n + 1 - d
  <2>1. r \in Seq(Binding) /\ Len(r) = Len(s) + Len(q)
    <3>1. s \in Seq(Binding) /\ q \in Seq(Binding) /\ r = s \o q
      BY <1>6, <1>9
    <3> QED
      BY <3>1
  <2>2. at + (n + 1 - at - d) = n + 1 - d
    BY <1>1, <1>3
  <2> QED
    BY <1>6, <1>9, <2>1, <2>2
<1>11. \A i \in 1 .. at : r[i] = s[i]
  BY <1>1, <1>3, <1>6, <1>9
<1>12. \A i \in at + 1 .. n + 1 - d : r[i] = q[i - at]
  BY <1>1, <1>3, <1>6, <1>9
<1>13. \A i \in at + 1 .. n + 1 - d : q[i - at] = m[i - 1 + d]
  <2> TAKE i \in at + 1 .. n + 1 - d
  <2>1. i - at \in 1 .. n + 1 - at - d /\ at + d + (i - at) - 1 = i - 1 + d
    BY <1>1, <1>3
  <2> QED
    BY <1>6, <2>1
<1>14. /\ \A i \in 1 .. at - 1 : r[i] = m[i]
       /\ r[at] = b
       /\ \A i \in at + 1 .. n + 1 - d : r[i] = m[i - 1 + d]
  <2>1. at \in 1 .. at /\ \A i \in 1 .. at - 1 : i \in 1 .. at
    BY <1>1, <1>3
  <2> QED
    BY <1>9, <1>11, <1>12, <1>13, <2>1
<1>15. d = (IF at <= Len(m) /\ Same(m[at], b) THEN 1 ELSE 0)
  BY DEF d
<1> HIDE DEF n
<1> QED
  BY <1>1, <1>3, <1>4, <1>10, <1>14, <1>15 DEF r


Contents(m) == {m[i] : i \in 1 .. Len(m)}

\* A binding takes the place of the one with the same keys, and nothing else changes.
LEMMA AddBindingKeeps ==
  ASSUME NEW m \in Seq(Binding), NEW b \in Binding, Ordered(m)
  PROVE  LET r == AddBinding(m, b) IN
         /\ r \in Seq(Binding) /\ Ordered(r) /\ r # <<>>
         /\ Contents(r) = {a \in Contents(m) : ~Same(a, b)} \cup {b}
<1> DEFINE r == AddBinding(m, b)
           n == Len(m)
<1>1. PICK at \in 1 .. n + 1, d \in {0, 1} :
        /\ at = n + 1 \/ ~Less(m[at], b)
        /\ \A i \in 1 .. at - 1 : Less(m[i], b)
        /\ d = (IF at <= n /\ Same(m[at], b) THEN 1 ELSE 0)
        /\ r \in Seq(Binding) /\ Len(r) = n + 1 - d
        /\ \A i \in 1 .. at - 1 : r[i] = m[i]
        /\ r[at] = b
        /\ \A i \in at + 1 .. Len(r) : r[i] = m[i - 1 + d]
  BY AddBindingPlaces
<1>2. n \in Nat /\ (\A i \in 1 .. n : m[i] \in Binding /\ IsKey(m[i])) /\ IsKey(b)
  BY BindingIsKey
<1> HIDE DEF r, n
<1>3. \A i, j \in 1 .. n : i < j => Less(m[i], m[j])
  BY DEF Ordered, n
<1>4. /\ \A i \in 1 .. at - 1 : i \in 1 .. n /\ i \in 1 .. Len(r) /\ r[i] = m[i] /\ Less(m[i], b)
      /\ at \in 1 .. Len(r) /\ r[at] = b
      /\ \A i \in at + 1 .. Len(r) : i - 1 + d \in at + d .. n /\ i - 1 + d \in 1 .. n /\ r[i] = m[i - 1 + d]
      /\ \A k \in at + d .. n : k \in 1 .. n /\ k + 1 - d \in at + 1 .. Len(r) /\ r[k + 1 - d] = m[k]
  <2>1. /\ \A i \in 1 .. at - 1 : i \in 1 .. n /\ i \in 1 .. Len(r)
        /\ at \in 1 .. Len(r)
    <3>1. d = 1 => at <= n
      BY <1>1
    <3> QED
      BY <1>1, <1>2, <3>1
  <2>2. \A i \in at + 1 .. Len(r) : i - 1 + d \in at + d .. n /\ i - 1 + d \in 1 .. n
    BY <1>1, <1>2
  <2>3. \A k \in at + d .. n : k \in 1 .. n /\ k + 1 - d \in at + 1 .. Len(r) /\ (k + 1 - d) - 1 + d = k
    BY <1>1, <1>2
  <2>4. \A k \in at + d .. n : r[k + 1 - d] = m[k]
    BY <1>1, <2>3
  <2> QED
    BY <1>1, <2>1, <2>2, <2>3, <2>4
<1>5. ASSUME NEW k \in at + d .. n PROVE Less(b, m[k])
  <2>1. k \in 1 .. n /\ k >= at + d /\ at \in 1 .. n
    BY <1>1, <1>2
  <2>2. ~Less(m[at], b) /\ IsKey(m[at]) /\ IsKey(m[k])
    BY <1>1, <1>2, <2>1
  <2>3. CASE d = 1
    <3>1. Same(m[at], b) /\ at < k
      BY <1>1, <2>1, <2>3
    <3>2. Less(m[at], m[k]) /\ Same(b, m[at])
      BY <1>2, <1>3, <2>1, <2>2, <3>1, Order
    <3> QED
      BY <1>2, <2>2, <3>2, LessTransitive
  <2>4. CASE d = 0
    <3>1. ~Same(m[at], b)
      BY <1>1, <2>1, <2>4
    <3>2. Less(b, m[at])
      BY <1>2, <2>2, <3>1, Order
    <3>3. k = at \/ at < k
      BY <2>1, <2>4
    <3>4. k # at => Less(m[at], m[k])
      BY <1>3, <2>1, <3>3
    <3> QED
      BY <1>2, <2>2, <3>2, <3>4, LessTransitive
  <2> QED
    BY <2>3, <2>4
<1>6. Ordered(r)
  <2> SUFFICES ASSUME NEW i \in 1 .. Len(r), NEW j \in 1 .. Len(r), i < j PROVE Less(r[i], r[j])
    BY DEF Ordered
  <2>0. Len(r) \in Nat /\ at \in Nat
    BY <1>1, <1>2
  <2>1. CASE j < at
    <3>1. i \in 1 .. at - 1 /\ j \in 1 .. at - 1
      BY <2>0, <2>1
    <3> QED
      BY <1>3, <1>4, <3>1
  <2>2. CASE j = at
    <3>1. i \in 1 .. at - 1
      BY <2>0, <2>2
    <3> QED
      BY <1>4, <2>2, <3>1
  <2>3. CASE j > at /\ i < at
    <3>1. i \in 1 .. at - 1 /\ j \in at + 1 .. Len(r)
      BY <2>0, <2>3
    <3>2. /\ r[i] = m[i] /\ r[j] = m[j - 1 + d] /\ i \in 1 .. n /\ j - 1 + d \in 1 .. n
          /\ j - 1 + d \in at + d .. n
      BY <1>4, <3>1
    <3>3. i < j - 1 + d
      BY <1>1, <2>0, <2>3, <3>2
    <3> QED
      BY <1>3, <3>2, <3>3
  <2>4. CASE j > at /\ i = at
    <3>1. j \in at + 1 .. Len(r)
      BY <2>0, <2>4
    <3> QED
      BY <1>4, <1>5, <2>4, <3>1
  <2>5. CASE i > at
    <3>1. i \in at + 1 .. Len(r) /\ j \in at + 1 .. Len(r)
      BY <2>0, <2>5
    <3>2. r[i] = m[i - 1 + d] /\ r[j] = m[j - 1 + d] /\ i - 1 + d \in 1 .. n /\ j - 1 + d \in 1 .. n
      BY <1>4, <3>1
    <3>3. i - 1 + d < j - 1 + d
      BY <1>1, <3>1
    <3> QED
      BY <1>3, <3>2, <3>3
  <2> QED
    BY <2>0, <2>1, <2>2, <2>3, <2>4, <2>5
<1>7. ASSUME NEW k \in 1 .. n
      PROVE  m[k] \in Contents(r) \ {b} \/ Same(m[k], b)
  <2>1. CASE k < at
    <3>1. k \in 1 .. at - 1
      BY <2>1
    <3>2. Less(m[k], b) /\ k \in 1 .. Len(r) /\ r[k] = m[k]
      BY <1>4, <3>1
    <3>3. m[k] # b
      BY <1>2, <3>2, Order DEF Same
    <3> QED
      BY <3>2, <3>3 DEF Contents
  <2>2. CASE k >= at + d
    <3>1. k \in at + d .. n
      BY <1>1, <2>2
    <3>2. k + 1 - d \in 1 .. Len(r) /\ r[k + 1 - d] = m[k] /\ Less(b, m[k])
      BY <1>1, <1>4, <1>5, <3>1
    <3>3. m[k] # b
      BY <1>2, <3>2, Order DEF Same
    <3> QED
      BY <3>2, <3>3 DEF Contents
  <2>3. CASE k >= at /\ ~(k >= at + d)
    <3>1. k = at /\ d = 1
      BY <1>1, <2>3
    <3> QED
      BY <1>1, <3>1
  <2> QED
    BY <2>1, <2>2, <2>3
<1>8. ASSUME NEW i \in 1 .. Len(r)
      PROVE  r[i] = b \/ (r[i] \in Contents(m) /\ ~Same(r[i], b))
  <2>1. CASE i < at
    <3>1. i \in 1 .. at - 1
      BY <2>1
    <3> QED
      BY <1>2, <1>4, <3>1, Order DEF Contents, n
  <2>2. CASE i = at
    BY <1>4, <2>2
  <2>3. CASE i > at
    <3>1. i \in at + 1 .. Len(r)
      BY <2>3
    <3>2. i - 1 + d \in at + d .. n /\ i - 1 + d \in 1 .. n /\ r[i] = m[i - 1 + d]
      BY <1>4, <3>1
    <3>3. Less(b, r[i]) /\ IsKey(r[i])
      BY <1>2, <1>5, <3>2
    <3>4. ~Same(r[i], b)
      BY <1>2, <3>3, Order
    <3> QED
      BY <3>2, <3>4 DEF Contents, n
  <2> QED
    BY <1>1, <2>1, <2>2, <2>3
<1>9. b \in Contents(r)
  BY <1>4 DEF Contents
<1>10. Contents(r) = {a \in Contents(m) : ~Same(a, b)} \cup {b}
  <2>1. \A a \in Contents(r) : a = b \/ (a \in Contents(m) /\ ~Same(a, b))
    BY <1>8 DEF Contents
  <2>2. \A a \in Contents(m) : a \in Contents(r) \/ Same(a, b)
    BY <1>7 DEF Contents, n
  <2> QED
    BY <1>9, <2>1, <2>2
<1> QED
  BY <1>1, <1>4, <1>6, <1>10 DEF r

-----------------------------------------------------------------------------
(* Binary search. *)

Ranges(m) == (0 .. Len(m)) \X (0 .. Len(m))

\* The body of search_binding, which looks into f for smaller ranges.
Halve(m, b, f) ==
  [p \in Ranges(m) |->
     LET k == (p[1] + p[2]) \div 2 IN
     IF p[1] >= p[2] THEN 0
     ELSE IF Same(b, m[k + 1]) THEN k + 1
     ELSE IF Less(b, m[k + 1]) THEN f[<<p[1], k>>] ELSE f[<<k + 1, p[2]>>]]

\* The function that search_binding defines.
Find(m, b) == CHOOSE f : f = Halve(m, b, f)

LEMMA SearchIsFind ==
  ASSUME NEW m, NEW b
  PROVE  Search(m, b) = Find(m, b)[<<0, Len(m)>>]
BY Zenon DEF Search, Find, Halve, Ranges

\* What halving has at <<l, u>>, with k in the middle: h from f.
Halved(h, f, m, b, l, u, k) ==
  /\ l >= u => h[<<l, u>>] = 0
  /\ l < u => /\ k \in l .. u - 1
              /\ Same(b, m[k + 1]) => h[<<l, u>>] = k + 1
              /\ ~Same(b, m[k + 1]) /\ Less(b, m[k + 1]) => h[<<l, u>>] = f[<<l, k>>]
              /\ ~Same(b, m[k + 1]) /\ ~Less(b, m[k + 1]) => h[<<l, u>>] = f[<<k + 1, u>>]

LEMMA HalveAt ==
  ASSUME NEW m, NEW b, NEW f, NEW l \in 0 .. Len(m), NEW u \in 0 .. Len(m), Len(m) \in Nat,
         NEW k, k = (l + u) \div 2, NEW h, h = Halve(m, b, f)
  PROVE  Halved(h, f, m, b, l, u, k)
<1>1. Halve(m, b, f)[<<l, u>>] =
        LET x == (l + u) \div 2 IN
        IF l >= u THEN 0
        ELSE IF Same(b, m[x + 1]) THEN x + 1
        ELSE IF Less(b, m[x + 1]) THEN f[<<l, x>>] ELSE f[<<x + 1, u>>]
  BY DEF Halve, Ranges
<1>2. h[<<l, u>>] = IF l >= u THEN 0
                    ELSE IF Same(b, m[k + 1]) THEN k + 1
                    ELSE IF Less(b, m[k + 1]) THEN f[<<l, k>>] ELSE f[<<k + 1, u>>]
  BY <1>1
<1>3. l < u => k \in l .. u - 1
  OBVIOUS
<1>4. l \in Nat /\ u \in Nat
  OBVIOUS
<1> QED
  BY <1>2, <1>3, <1>4 DEF Halved

\* The place of b between l and u in an ordered map, or 0.
Place(m, b, l, u) ==
  IF \E i \in l + 1 .. u : Same(b, m[i]) THEN CHOOSE i \in l + 1 .. u : Same(b, m[i]) ELSE 0

LEMMA PlaceIs ==
  ASSUME NEW m \in Seq(Binding), Ordered(m), NEW b, IsKey(b),
         NEW l \in 0 .. Len(m), NEW u \in 0 .. Len(m), NEW i \in l + 1 .. u, Same(b, m[i])
  PROVE  Place(m, b, l, u) = i
<1>1. PICK j \in l + 1 .. u : Place(m, b, l, u) = j /\ Same(b, m[j])
  BY DEF Place
<1>2. /\ i \in 1 .. Len(m) /\ j \in 1 .. Len(m) /\ IsKey(m[i]) /\ IsKey(m[j])
  BY BindingIsKey
<1>3. Same(m[i], m[j]) /\ Same(m[j], m[i])
  BY <1>1 DEF Same
<1>4. ~Less(m[i], m[j]) /\ ~Less(m[j], m[i])
  BY <1>2, <1>3, Order
<1>5. ~(i < j) /\ ~(j < i)
  BY <1>2, <1>4 DEF Ordered
<1> QED
  BY <1>1, <1>2, <1>5

\* The half that is not searched does not hold b.
LEMMA OtherHalf ==
  ASSUME NEW m \in Seq(Binding), Ordered(m), NEW b, IsKey(b),
         NEW k \in 0 .. Len(m) - 1, NEW i \in 1 .. Len(m), Same(b, m[i])
  PROVE  /\ Less(b, m[k + 1]) => i <= k
         /\ ~Less(b, m[k + 1]) /\ ~Same(b, m[k + 1]) => i > k + 1
<1>1. k + 1 \in 1 .. Len(m) /\ IsKey(m[k + 1]) /\ IsKey(m[i]) /\ Len(m) \in Nat
  BY BindingIsKey
<1> DEFINE j == k + 1
<1>2. j \in 1 .. Len(m) /\ i \in 1 .. Len(m) /\ IsKey(m[j]) /\ IsKey(m[i])
  BY <1>1
<1>3. Less(b, m[j]) => Less(m[i], m[j])
  BY <1>1, Order, LessTransitive
<1>4. ~Less(b, m[j]) /\ ~Same(b, m[j]) => Less(m[j], m[i])
  BY <1>1, Order, LessTransitive
<1> HIDE DEF j
<1>5. Less(m[i], m[j]) => i < j
  <2>1. i = j => ~Less(m[i], m[j])
    BY <1>2, Order
  <2>2. j < i => ~Less(m[i], m[j])
    BY <1>2, Order DEF Ordered
  <2> QED
    BY <1>2, <2>1, <2>2
<1>6. Less(m[j], m[i]) => j < i
  <2>1. i = j => ~Less(m[j], m[i])
    BY <1>2, Order
  <2>2. i < j => ~Less(m[j], m[i])
    BY <1>2, Order DEF Ordered
  <2> QED
    BY <1>2, <2>1, <2>2
<1>7. i < j => i <= k
  BY DEF j
<1> QED
  BY <1>3, <1>4, <1>5, <1>6, <1>7 DEF j

\* In an ordered map, the places of b are what the search computes from them.
LEMMA PlaceByHalves ==
  ASSUME NEW m \in Seq(Binding), Ordered(m), NEW b, IsKey(b),
         NEW l \in 0 .. Len(m), NEW u \in 0 .. Len(m)
  PROVE  LET k == (l + u) \div 2 IN
         /\ l >= u => Place(m, b, l, u) = 0
         /\ l < u =>
              /\ Same(b, m[k + 1]) => Place(m, b, l, u) = k + 1
              /\ ~Same(b, m[k + 1]) /\ Less(b, m[k + 1]) => Place(m, b, l, u) = Place(m, b, l, k)
              /\ ~Same(b, m[k + 1]) /\ ~Less(b, m[k + 1]) => Place(m, b, l, u) = Place(m, b, k + 1, u)
<1> DEFINE k == (l + u) \div 2
<1>1. Len(m) \in Nat /\ l \in Nat /\ u \in Nat
  OBVIOUS
<1>2. ASSUME l >= u PROVE Place(m, b, l, u) = 0
  <2>1. ~\E i \in l + 1 .. u : Same(b, m[i])
    BY <1>1, <1>2
  <2> QED
    BY <2>1 DEF Place
<1>3. l < u => k \in l .. u - 1
  BY <1>1
<1> HIDE DEF k
<1>4. ASSUME l < u, Same(b, m[k + 1]) PROVE Place(m, b, l, u) = k + 1
  <2>1. k + 1 \in l + 1 .. u
    BY <1>1, <1>3, <1>4
  <2> QED
    BY <1>4, <2>1, PlaceIs
<1>5. ASSUME l < u, ~Same(b, m[k + 1]), Less(b, m[k + 1]) PROVE Place(m, b, l, u) = Place(m, b, l, k)
  <2>1. k \in 0 .. Len(m) - 1 /\ k \in 0 .. Len(m) /\ k < u
    BY <1>1, <1>3, <1>5
  <2>2. CASE \E i \in l + 1 .. u : Same(b, m[i])
    <3>1. PICK i \in l + 1 .. u : Same(b, m[i])
      BY <2>2
    <3>2. i \in 1 .. Len(m)
      BY <1>1, <3>1
    <3>3. i <= k
      BY <1>5, <2>1, <3>1, <3>2, OtherHalf
    <3>4. i \in l + 1 .. k
      BY <1>1, <2>1, <3>1, <3>3
    <3> QED
      BY <2>1, <3>1, <3>4, PlaceIs
  <2>3. CASE ~\E i \in l + 1 .. u : Same(b, m[i])
    <3>1. \A i \in l + 1 .. k : i \in l + 1 .. u
      BY <1>1, <2>1
    <3>2. ~\E i \in l + 1 .. k : Same(b, m[i])
      BY <2>3, <3>1
    <3> QED
      BY <2>3, <3>2 DEF Place
  <2> QED
    BY <2>2, <2>3
<1>6. ASSUME l < u, ~Same(b, m[k + 1]), ~Less(b, m[k + 1]) PROVE Place(m, b, l, u) = Place(m, b, k + 1, u)
  <2>1. k \in 0 .. Len(m) - 1 /\ k + 1 \in 0 .. Len(m) /\ k >= l
    BY <1>1, <1>3, <1>6
  <2>2. CASE \E i \in l + 1 .. u : Same(b, m[i])
    <3>1. PICK i \in l + 1 .. u : Same(b, m[i])
      BY <2>2
    <3>2. i \in 1 .. Len(m)
      BY <1>1, <3>1
    <3>3. i > k + 1
      BY <1>6, <2>1, <3>1, <3>2, OtherHalf
    <3>4. i \in (k + 1) + 1 .. u
      BY <1>1, <2>1, <3>1, <3>3
    <3> QED
      BY <2>1, <3>1, <3>4, PlaceIs
  <2>3. CASE ~\E i \in l + 1 .. u : Same(b, m[i])
    <3>1. \A i \in (k + 1) + 1 .. u : i \in l + 1 .. u
      BY <1>1, <2>1
    <3>2. ~\E i \in (k + 1) + 1 .. u : Same(b, m[i])
      BY <2>3, <3>1
    <3> QED
      BY <2>3, <3>2 DEF Place
  <2> QED
    BY <2>2, <2>3
<1> QED
  BY <1>2, <1>4, <1>5, <1>6 DEF k

\* The function of search_binding is defined: the places are one.
LEMMA FindIsHalve ==
  ASSUME NEW m \in Seq(Binding), Ordered(m), NEW b, IsKey(b)
  PROVE  Find(m, b) = Halve(m, b, Find(m, b))
<1> DEFINE g == [p \in Ranges(m) |-> Place(m, b, p[1], p[2])]
<1>1. Len(m) \in Nat
  OBVIOUS
<1>2. ASSUME NEW p \in Ranges(m) PROVE g[p] = Halve(m, b, g)[p]
  <2>1. PICK l \in 0 .. Len(m), u \in 0 .. Len(m) : p = <<l, u>>
    BY DEF Ranges
  <2> DEFINE k == (l + u) \div 2
             h == Halve(m, b, g)
  <2>2. \A x \in 0 .. Len(m), y \in 0 .. Len(m) : g[<<x, y>>] = Place(m, b, x, y)
    BY DEF Ranges
  <2>3. l < u => k \in 0 .. Len(m) /\ k + 1 \in 0 .. Len(m)
    BY <1>1
  <2> HIDE DEF g
  <2>4. /\ l >= u => h[<<l, u>>] = 0
        /\ l < u => /\ Same(b, m[k + 1]) => h[<<l, u>>] = k + 1
                    /\ ~Same(b, m[k + 1]) /\ Less(b, m[k + 1]) => h[<<l, u>>] = g[<<l, k>>]
                    /\ ~Same(b, m[k + 1]) /\ ~Less(b, m[k + 1]) => h[<<l, u>>] = g[<<k + 1, u>>]
    <3>1. k = (l + u) \div 2 /\ h = Halve(m, b, g)
      OBVIOUS
    <3> HIDE DEF k, h, g
    <3>2. Halved(h, g, m, b, l, u, k)
      BY <1>1, <3>1, HalveAt
    <3> QED
      BY <3>2 DEF Halved
  <2>5. /\ l >= u => Place(m, b, l, u) = 0
        /\ l < u =>
             /\ Same(b, m[k + 1]) => Place(m, b, l, u) = k + 1
             /\ ~Same(b, m[k + 1]) /\ Less(b, m[k + 1]) => Place(m, b, l, u) = Place(m, b, l, k)
             /\ ~Same(b, m[k + 1]) /\ ~Less(b, m[k + 1]) => Place(m, b, l, u) = Place(m, b, k + 1, u)
    BY PlaceByHalves
  <2> HIDE DEF h, k
  <2>6. g[<<l, u>>] = Place(m, b, l, u) /\ (l >= u \/ l < u)
    BY <1>1, <2>2
  <2>7. l < u => g[<<l, k>>] = Place(m, b, l, k) /\ g[<<k + 1, u>>] = Place(m, b, k + 1, u)
    BY <2>2, <2>3
  <2>8. g[<<l, u>>] = h[<<l, u>>]
    BY <2>4, <2>5, <2>6, <2>7
  <2> QED
    BY <2>1, <2>8 DEF h
<1>3. g = Halve(m, b, g)
  <2> DEFINE h == Halve(m, b, g)
  <2>1. h = [p \in Ranges(m) |-> h[p]]
    BY DEF Halve
  <2>2. g = [p \in Ranges(m) |-> g[p]]
    OBVIOUS
  <2>3. \A p \in Ranges(m) : g[p] = h[p]
    BY <1>2
  <2> HIDE DEF g, h
  <2>4. g = h
    BY <2>1, <2>2, <2>3
  <2> QED
    BY <2>4 DEF h
<1>4. \E f : f = Halve(m, b, f)
  <2> HIDE DEF g
  <2> QED
    BY Zenon, <1>3
<1> QED
  BY Zenon, <1>4 DEF Find

LEMMA FindAt ==
  ASSUME NEW m \in Seq(Binding), Ordered(m), NEW b, IsKey(b),
         NEW l \in 0 .. Len(m), NEW u \in 0 .. Len(m)
  PROVE  LET F == Find(m, b)
             k == (l + u) \div 2
         IN  /\ l >= u => F[<<l, u>>] = 0
             /\ l < u => /\ k \in l .. u - 1
                         /\ Same(b, m[k + 1]) => F[<<l, u>>] = k + 1
                         /\ ~Same(b, m[k + 1]) /\ Less(b, m[k + 1]) => F[<<l, u>>] = F[<<l, k>>]
                         /\ ~Same(b, m[k + 1]) /\ ~Less(b, m[k + 1]) => F[<<l, u>>] = F[<<k + 1, u>>]
<1>1. PICK F : F = Find(m, b)
  OBVIOUS
<1>2. F = Halve(m, b, F)
  BY <1>1, FindIsHalve
<1> DEFINE H == Halve(m, b, F)
           k == (l + u) \div 2
<1>3. Len(m) \in Nat
  OBVIOUS
<1>7. l < u => k \in l .. u - 1
  BY <1>3
<1>4. /\ l >= u => H[<<l, u>>] = 0
      /\ l < u => /\ Same(b, m[k + 1]) => H[<<l, u>>] = k + 1
                  /\ ~Same(b, m[k + 1]) /\ Less(b, m[k + 1]) => H[<<l, u>>] = F[<<l, k>>]
                  /\ ~Same(b, m[k + 1]) /\ ~Less(b, m[k + 1]) => H[<<l, u>>] = F[<<k + 1, u>>]
  <2>1. H = Halve(m, b, F) /\ k = (l + u) \div 2
    OBVIOUS
  <2> HIDE DEF H, k
  <2>2. Halved(H, F, m, b, l, u, k)
    BY <1>3, <2>1, HalveAt
  <2> QED
    BY <2>2 DEF Halved
<1> HIDE DEF H, k
<1>5. F[<<l, u>>] = H[<<l, u>>]
  BY <1>2 DEF H
<1>6. /\ l >= u => F[<<l, u>>] = 0
      /\ l < u => /\ k \in l .. u - 1
                  /\ Same(b, m[k + 1]) => F[<<l, u>>] = k + 1
                  /\ ~Same(b, m[k + 1]) /\ Less(b, m[k + 1]) => F[<<l, u>>] = F[<<l, k>>]
                  /\ ~Same(b, m[k + 1]) /\ ~Less(b, m[k + 1]) => F[<<l, u>>] = F[<<k + 1, u>>]
  BY <1>4, <1>5, <1>7
<1> QED
  BY <1>1, <1>6 DEF k

\* Binary search in an ordered map finds the place of b.
LEMMA FindIsPlace ==
  ASSUME NEW m \in Seq(Binding), Ordered(m), NEW b, IsKey(b),
         NEW l \in 0 .. Len(m), NEW u \in 0 .. Len(m)
  PROVE  Find(m, b)[<<l, u>>] = Place(m, b, l, u)
<1> DEFINE F == Find(m, b)
           Bad(n) == \E x, y \in 0 .. Len(m) : n = y - x /\ x < y /\ F[<<x, y>>] # Place(m, b, x, y)
           T == {n \in Nat : Bad(n)}
<1>1. Len(m) \in Nat
  OBVIOUS
<1> HIDE DEF F
<1>0. ASSUME NEW x \in 0 .. Len(m), NEW y \in 0 .. Len(m), x < y, F[<<x, y>>] # Place(m, b, x, y)
      PROVE  y - x \in T
  <2>1. y - x \in Nat
    BY <1>0, <1>1
  <2>2. Bad(y - x)
    BY <1>0
  <2> QED
    BY <2>1, <2>2
<1>2. ASSUME NEW x \in 0 .. Len(m), NEW y \in 0 .. Len(m)
      PROVE  LET k == (x + y) \div 2 IN
             /\ x >= y => F[<<x, y>>] = 0
             /\ x < y => /\ k \in x .. y - 1
                         /\ Same(b, m[k + 1]) => F[<<x, y>>] = k + 1
                         /\ ~Same(b, m[k + 1]) /\ Less(b, m[k + 1]) => F[<<x, y>>] = F[<<x, k>>]
                         /\ ~Same(b, m[k + 1]) /\ ~Less(b, m[k + 1]) => F[<<x, y>>] = F[<<k + 1, y>>]
  BY FindAt DEF F
<1>3. T = {}
  <2> SUFFICES ASSUME T # {} PROVE FALSE
    OBVIOUS
  <2>1. PICK n \in T : \A k \in T : n <= k
    <3>1. T \subseteq Nat
      OBVIOUS
    <3> HIDE DEF T
    <3> QED
      BY <3>1, LeastNumber
  <2>2. PICK x \in 0 .. Len(m), y \in 0 .. Len(m) : n = y - x /\ x < y /\ F[<<x, y>>] # Place(m, b, x, y)
    OBVIOUS
  <2> DEFINE k == (x + y) \div 2
  <2>3. k \in x .. y - 1 /\ k \in 0 .. Len(m) /\ k + 1 \in 0 .. Len(m)
    BY <1>1, <2>2
  <2>4. ASSUME NEW v \in 0 .. Len(m), NEW w \in 0 .. Len(m), w - v < y - x
        PROVE  F[<<v, w>>] = Place(m, b, v, w)
    <3>1. CASE v >= w
      <4> HIDE DEF T, k
      <4>1. F[<<v, w>>] = 0
        BY <1>2, <3>1
      <4>2. Place(m, b, v, w) = 0
        BY <3>1, PlaceByHalves
      <4> QED
        BY <4>1, <4>2
    <3>2. CASE v < w
      <4>1. w - v \in Nat /\ ~(n <= w - v)
        BY <1>1, <2>2, <2>4, <3>2
      <4>2. w - v \notin T
        <5> HIDE DEF T
        <5> QED
          BY <2>1, <4>1
      <4> HIDE DEF T
      <4> QED
        BY <1>0, <3>2, <4>2
    <3> QED
      BY <1>1, <3>1, <3>2
  <2>5. F[<<x, k>>] = Place(m, b, x, k) /\ F[<<k + 1, y>>] = Place(m, b, k + 1, y)
    <3>1. k - x < y - x /\ y - (k + 1) < y - x
      BY <1>1, <2>2, <2>3
    <3> HIDE DEF k, T
    <3> QED
      BY <2>3, <2>4, <3>1
  <2>6. /\ Same(b, m[k + 1]) => F[<<x, y>>] = k + 1
        /\ ~Same(b, m[k + 1]) /\ Less(b, m[k + 1]) => F[<<x, y>>] = F[<<x, k>>]
        /\ ~Same(b, m[k + 1]) /\ ~Less(b, m[k + 1]) => F[<<x, y>>] = F[<<k + 1, y>>]
    <3> HIDE DEF T
    <3> QED
      BY <1>2, <2>2
  <2>7. /\ Same(b, m[k + 1]) => Place(m, b, x, y) = k + 1
        /\ ~Same(b, m[k + 1]) /\ Less(b, m[k + 1]) => Place(m, b, x, y) = Place(m, b, x, k)
        /\ ~Same(b, m[k + 1]) /\ ~Less(b, m[k + 1]) => Place(m, b, x, y) = Place(m, b, k + 1, y)
    <3> HIDE DEF T
    <3> QED
      BY <2>2, PlaceByHalves
  <2> HIDE DEF k, T
  <2> QED
    BY <2>2, <2>5, <2>6, <2>7
<1>4. CASE l >= u
  <2> HIDE DEF T
  <2>1. F[<<l, u>>] = 0
    BY <1>2, <1>4
  <2>2. Place(m, b, l, u) = 0
    BY <1>4, PlaceByHalves
  <2> QED
    BY <2>1, <2>2 DEF F
<1>5. CASE l < u
  <2>1. u - l \in Nat /\ u - l \notin T
    <3> HIDE DEF T
    <3> QED
      BY <1>1, <1>3, <1>5
  <2> HIDE DEF T
  <2> QED
    BY <1>0, <1>5, <2>1 DEF F
<1> QED
  BY <1>1, <1>4, <1>5

\* search_binding finds a binding with the same keys if and only if there is one.
LEMMA SearchRight ==
  ASSUME NEW m \in Seq(Binding), Ordered(m), NEW b, IsKey(b)
  PROVE  /\ Search(m, b) \in 0 .. Len(m)
         /\ Search(m, b) # 0 => Same(b, m[Search(m, b)])
         /\ \A i \in 1 .. Len(m) : Same(b, m[i]) => Search(m, b) = i
<1>1. Len(m) \in Nat /\ 0 \in 0 .. Len(m) /\ Len(m) \in 0 .. Len(m)
  OBVIOUS
<1>2. Search(m, b) = Place(m, b, 0, Len(m))
  BY <1>1, SearchIsFind, FindIsPlace
<1>3. \A i \in 0 + 1 .. Len(m) : Same(b, m[i]) => Place(m, b, 0, Len(m)) = i
  BY <1>1, PlaceIs
<1>4. 0 + 1 = 1
  OBVIOUS
<1>5. CASE \E i \in 0 + 1 .. Len(m) : Same(b, m[i])
  <2>1. PICK i \in 0 + 1 .. Len(m) : Same(b, m[i])
    BY <1>5
  <2>2. Place(m, b, 0, Len(m)) = i
    BY <1>3, <2>1
  <2> QED
    BY <1>1, <1>2, <1>3, <1>4, <2>1, <2>2
<1>6. CASE ~\E i \in 0 + 1 .. Len(m) : Same(b, m[i])
  <2>1. Place(m, b, 0, Len(m)) = 0
    BY <1>6 DEF Place
  <2> QED
    BY <1>1, <1>2, <1>4, <1>6, <2>1
<1> QED
  BY <1>5, <1>6

-----------------------------------------------------------------------------
(* lookup_binding. *)

\* What is looked up: the number of a try and its keys.
LEMMA TriesAreKeys ==
  ASSUME NEW act \in Action, NEW state \in SUBSET Modifier, NEW key \in Keycode
  PROVE  LET t == Tries(act, state, key) IN
         /\ t[1] = [act |-> act, kcb |-> key, state |-> state \ Ignored] /\ IsKey(t[1])
         /\ t[2] = [act |-> act, kcb |-> key, state |-> {AnyModifier}] /\ IsKey(t[2])
         /\ t[3] = [act |-> act, kcb |-> AnyKey, state |-> state \ Ignored] /\ IsKey(t[3])
         /\ t[4] = [act |-> act, kcb |-> AnyKey, state |-> {AnyModifier}] /\ IsKey(t[4])
<1>1. act \in Nat /\ key \in Nat /\ AnyKey \in Nat /\ state \ Ignored \in States /\ {AnyModifier} \in States
  BY Numbers DEF States
<1>2. \A k, s : k \in Nat /\ s \in States => IsKey([act |-> act, kcb |-> k, state |-> s])
  BY <1>1 DEF IsKey
<1>3. LET t == Tries(act, state, key) IN
      /\ t[1] = [act |-> act, kcb |-> key, state |-> state \ Ignored]
      /\ t[2] = [act |-> act, kcb |-> key, state |-> {AnyModifier}]
      /\ t[3] = [act |-> act, kcb |-> AnyKey, state |-> state \ Ignored]
      /\ t[4] = [act |-> act, kcb |-> AnyKey, state |-> {AnyModifier}]
  BY DEF Tries
<1> QED
  BY <1>1, <1>2, <1>3

\* lookup_binding finds what the first of the tries that finds something does.
LEMMA LookupIsFirst ==
  ASSUME NEW m, NEW act, NEW state, NEW key
  PROVE  LET t == Tries(act, state, key)
             r == Lookup(m, act, state, key)
         IN  \/ r = 0 /\ \A i \in 1 .. 4 : Search(m, t[i]) = 0
             \/ \E i \in 1 .. 4 : /\ r = Search(m, t[i]) /\ r # 0
                                  /\ \A j \in 1 .. 4 : j < i => Search(m, t[j]) = 0
<1> DEFINE t == Tries(act, state, key)
           found == {i \in 1 .. 4 : Search(m, t[i]) # 0}
           r == Lookup(m, act, state, key)
<1>1. r = IF found = {} THEN 0 ELSE Search(m, t[Min(found)])
  BY DEF Lookup
<1>2. CASE found = {}
  BY <1>1, <1>2
<1>3. CASE found # {}
  <2>1. found \subseteq Nat
    OBVIOUS
  <2>2. \E n \in found : \A k \in found : n <= k
    <3> HIDE DEF found
    <3> QED
      BY <1>3, <2>1, LeastNumber
  <2>3. Min(found) \in found /\ \A k \in found : Min(found) <= k
    <3> HIDE DEF found
    <3> QED
      BY <2>2 DEF Min
  <2> DEFINE n == Min(found)
  <2> HIDE DEF n
  <2>4. n \in 1 .. 4 /\ Search(m, t[n]) # 0
    BY <2>3 DEF n
  <2>5. ASSUME NEW j \in 1 .. 4, j < n PROVE Search(m, t[j]) = 0
    <3>1. j \notin found
      <4> HIDE DEF found
      <4> QED
        BY <2>3, <2>4, <2>5 DEF n
    <3> QED
      BY <3>1
  <2>6. r = Search(m, t[n])
    <3> HIDE DEF found, r, t
    <3> QED
      BY <1>1, <1>3 DEF n
  <2> HIDE DEF t, r, found
  <2>7. \E i \in 1 .. 4 : /\ r = Search(m, t[i]) /\ r # 0
                          /\ \A j \in 1 .. 4 : j < i => Search(m, t[j]) = 0
    BY <2>4, <2>5, <2>6
  <2> QED
    BY <2>7 DEF r, t
<1> QED
  BY <1>2, <1>3

\* What a map of the bindings has for a key and modifiers is what search_binding finds.
LEMMA SearchFindsBound ==
  ASSUME NEW m \in Seq(Binding), Ordered(m), NEW act, NEW k, NEW s,
         IsKey([act |-> act, kcb |-> k, state |-> s])
  PROVE  LET r == Search(m, [act |-> act, kcb |-> k, state |-> s]) IN
         {b \in Contents(m) : b.act = act /\ b.state = s /\ b.kcb = k} = IF r = 0 THEN {} ELSE {m[r]}
<1> DEFINE a == [act |-> act, kcb |-> k, state |-> s]
           r == Search(m, a)
           B == {b \in Contents(m) : b.act = act /\ b.state = s /\ b.kcb = k}
<1>1. /\ r \in 0 .. Len(m) /\ (r # 0 => Same(a, m[r]))
      /\ \A i \in 1 .. Len(m) : Same(a, m[i]) => r = i
  <2> HIDE DEF a
  <2> QED
    BY SearchRight DEF a
<1>2. \A b : Same(a, b) <=> b.act = act /\ b.state = s /\ b.kcb = k
  BY DEF Same
<1> HIDE DEF a, r
<1>3. Len(m) \in Nat
  OBVIOUS
<1>4. B = {b \in Contents(m) : Same(a, b)}
  BY <1>2
<1>5. CASE r = 0
  <2>1. \A i \in 1 .. Len(m) : ~Same(a, m[i])
    BY <1>1, <1>3, <1>5
  <2> QED
    BY <1>4, <1>5, <2>1 DEF Contents, r, a
<1>6. CASE r # 0
  <2>1. r \in 1 .. Len(m) /\ Same(a, m[r]) /\ \A i \in 1 .. Len(m) : Same(a, m[i]) => m[i] = m[r]
    BY <1>1, <1>3, <1>6
  <2>2. B = {m[r]}
    BY <1>4, <2>1 DEF Contents
  <2> QED
    BY <1>6, <2>2 DEF r, a
<1> QED
  BY <1>5, <1>6

-----------------------------------------------------------------------------
(* The invariant: the map has what was bound, in order, and the keys are grabbed with   *)
(* every combination of the locks that were looked up.                                  *)

Grabbed ==
  UNION {{[act |-> map[i].act, kcb |-> map[i].kcb, state |-> s] : s \in EvilGrab(map[i].state)} :
         i \in {n \in DOMAIN map : map[n].act = ACT_KEYPRESS \/ map[n].state # {}}}

BindingsInv ==
  /\ BindingsType
  /\ bound = Contents(map)
  /\ Configured => grabs = Grabbed

LEMMA TypeIsOrdered == BindingsType => map \in Seq(Binding) /\ Ordered(map) /\ modmap \in Modmaps
BY DEF BindingsType, Ordered

LEMMA BindingsInitInv == BindingsInit => BindingsInv
<1> SUFFICES ASSUME BindingsInit PROVE BindingsInv
  OBVIOUS
<1>1. map = <<>> /\ map \in Seq(Binding) /\ Len(map) = 0 /\ DOMAIN map = {}
  BY DEF BindingsInit
<1>2. BindingsType
  BY <1>1 DEF BindingsInit, BindingsType, LockMasks
<1>3. bound = Contents(map)
  BY <1>1 DEF BindingsInit, Contents
<1> QED
  BY <1>2, <1>3 DEF BindingsInv, BindingsInit, Configured

LEMMA StepInv == BindingsInv /\ [BindingsNext]_bindingVars => BindingsInv'
<1> SUFFICES ASSUME BindingsInv, [BindingsNext]_bindingVars PROVE BindingsInv'
  OBVIOUS
<1>1. BindingsType /\ map \in Seq(Binding) /\ Ordered(map) /\ modmap \in Modmaps
  BY TypeIsOrdered DEF BindingsInv
<1>2. ASSUME NEW b \in Binding, Bind(b) PROVE BindingsInv'
  <2>1. /\ map' \in Seq(Binding) /\ Ordered(map')
        /\ Contents(map') = {a \in Contents(map) : ~Same(a, b)} \cup {b}
    BY <1>1, <1>2, AddBindingKeeps DEF Bind
  <2>2. \A i, j \in DOMAIN map' : i < j => Less(map'[i], map'[j])
    BY <2>1 DEF Ordered
  <2>3. bound' = Contents(map') /\ bound' \subseteq Binding
    BY <1>1, <1>2, <2>1 DEF Bind, BindingsInv, BindingsType
  <2>4. BindingsType'
    BY <1>1, <1>2, <2>1, <2>2, <2>3 DEF Bind, BindingsType
  <2>5. ~Configured'
    BY <1>2 DEF Bind, Configured
  <2> QED
    BY <2>3, <2>4, <2>5 DEF BindingsInv, Contents
<1>3. CASE GrabBindings
  <2>1. BindingsType' /\ (bound = Contents(map))' /\ grabs' = Grabbed'
    BY <1>1, <1>3 DEF GrabBindings, BindingsInv, BindingsType, Contents, Grabbed, EvilGrab
  <2> QED
    BY <2>1 DEF BindingsInv
<1>4. ASSUME UNCHANGED <<map, bound, evil, grabs>>, modmap' \in Modmaps, held' \subseteq Keycode,
             locks' \subseteq Modifier, waiting' \in BOOLEAN
      PROVE  BindingsInv'
  <2>1. BindingsType'
    BY <1>1, <1>4 DEF BindingsType
  <2>2. (bound = Contents(map))' /\ (Configured => grabs = Grabbed)'
    <3>1. /\ map' = map /\ bound' = bound /\ evil' = evil /\ grabs' = grabs
          /\ bound = Contents(map) /\ (Configured => grabs = Grabbed)
      BY <1>4 DEF BindingsInv
    <3>2. Grabbed' = Grabbed
      BY <3>1 DEF Grabbed, EvilGrab
    <3>3. Contents(map)' = Contents(map) /\ Configured' = Configured
      BY <3>1 DEF Contents, Configured
    <3> QED
      BY <3>1, <3>2, <3>3
  <2> QED
    BY <2>1, <2>2 DEF BindingsInv
<1>5. \A mods : \A key \in EvilLocks : LockMasks(mods)[key] \subseteq Modifier
  BY DEF LockMasks
<1>6. ASSUME NEW key \in Keycode, KeyPress(key) PROVE BindingsInv'
  <2>1. Toggled(key) \subseteq Modifier
    BY <1>1, <1>5, BindingsAssumption DEF Toggled, BindingsType, SymDiff
  <2>2. waiting' \in BOOLEAN
    BY <1>6 DEF KeyPress
  <2> QED
    BY <1>1, <1>4, <1>6, <2>1, <2>2 DEF KeyPress, BindingsType
<1>7. ASSUME NEW key \in Keycode, KeyRelease(key) PROVE BindingsInv'
  BY <1>1, <1>4, <1>7 DEF KeyRelease, BindingsType
<1>8. ASSUME NEW mods \in Modmaps, UpdateModmap(mods) PROVE BindingsInv'
  BY <1>1, <1>4, <1>5, <1>8 DEF UpdateModmap, BindingsType
<1>9. CASE UNCHANGED bindingVars
  BY <1>1, <1>4, <1>9 DEF bindingVars, BindingsType
<1> QED
  BY <1>2, <1>3, <1>6, <1>7, <1>8, <1>9 DEF BindingsNext

-----------------------------------------------------------------------------
(* The properties. *)

\* The binding that lookup_binding finds is the one that was bound.
LEMMA BestIsFound ==
  ASSUME BindingsInv, NEW act \in Action, NEW state \in SUBSET (Modifier \ Ignored), NEW key \in Keycode
  PROVE  LET exact == Bound(act, state, key)
             any   == Bound(act, {AnyModifier}, key)
             rest  == Bound(act, state, AnyKey)
             best  == IF exact # {} THEN exact ELSE IF any # {} THEN any
                      ELSE IF rest # {} THEN rest ELSE Bound(act, {AnyModifier}, AnyKey)
             found == Lookup(map, act, state, key)
         IN  best = IF found = 0 THEN {} ELSE {map[found]}
<1> DEFINE t == Tries(act, state, key)
           B(s, k) == Bound(act, s, k)
           F(i) == Search(map, t[i])
           found == Lookup(map, act, state, key)
<1>1. map \in Seq(Binding) /\ Ordered(map) /\ bound = Contents(map)
  BY TypeIsOrdered DEF BindingsInv
<1>2. state \in SUBSET Modifier /\ state \ Ignored = state
  OBVIOUS
<1>3. /\ t[1] = [act |-> act, kcb |-> key, state |-> state] /\ IsKey(t[1])
      /\ t[2] = [act |-> act, kcb |-> key, state |-> {AnyModifier}] /\ IsKey(t[2])
      /\ t[3] = [act |-> act, kcb |-> AnyKey, state |-> state] /\ IsKey(t[3])
      /\ t[4] = [act |-> act, kcb |-> AnyKey, state |-> {AnyModifier}] /\ IsKey(t[4])
  BY <1>2, TriesAreKeys
<1>4. ASSUME NEW s, NEW k, NEW i, t[i] = [act |-> act, kcb |-> k, state |-> s], IsKey(t[i])
      PROVE  B(s, k) = IF F(i) = 0 THEN {} ELSE {map[F(i)]}
  <2> HIDE DEF t
  <2>1. IsKey([act |-> act, kcb |-> k, state |-> s])
    BY <1>4
  <2>2. LET r == Search(map, [act |-> act, kcb |-> k, state |-> s]) IN
        {b \in Contents(map) : b.act = act /\ b.state = s /\ b.kcb = k} = IF r = 0 THEN {} ELSE {map[r]}
    BY <1>1, <2>1, SearchFindsBound
  <2>3. B(s, k) = {b \in Contents(map) : b.act = act /\ b.state = s /\ b.kcb = k}
    BY <1>1 DEF Bound
  <2> QED
    BY <1>4, <2>2, <2>3
<1> HIDE DEF t, B, F
<1>5. /\ B(state, key) = IF F(1) = 0 THEN {} ELSE {map[F(1)]}
      /\ B({AnyModifier}, key) = IF F(2) = 0 THEN {} ELSE {map[F(2)]}
      /\ B(state, AnyKey) = IF F(3) = 0 THEN {} ELSE {map[F(3)]}
      /\ B({AnyModifier}, AnyKey) = IF F(4) = 0 THEN {} ELSE {map[F(4)]}
  BY <1>3, <1>4
<1>6. \/ found = 0 /\ \A i \in 1 .. 4 : F(i) = 0
      \/ \E i \in 1 .. 4 : found = F(i) /\ found # 0 /\ \A j \in 1 .. 4 : j < i => F(j) = 0
  BY LookupIsFirst DEF t, F
<1> HIDE DEF found
<1>7. \/ found = 0 /\ F(1) = 0 /\ F(2) = 0 /\ F(3) = 0 /\ F(4) = 0
      \/ found # 0 /\ found = F(1)
      \/ found # 0 /\ found = F(2) /\ F(1) = 0
      \/ found # 0 /\ found = F(3) /\ F(1) = 0 /\ F(2) = 0
      \/ found # 0 /\ found = F(4) /\ F(1) = 0 /\ F(2) = 0 /\ F(3) = 0
  BY <1>6
<1>8. (IF B(state, key) # {} THEN B(state, key)
       ELSE IF B({AnyModifier}, key) # {} THEN B({AnyModifier}, key)
       ELSE IF B(state, AnyKey) # {} THEN B(state, AnyKey) ELSE B({AnyModifier}, AnyKey))
      = IF found = 0 THEN {} ELSE {map[found]}
  BY <1>5, <1>7
<1> QED
  BY <1>8 DEF B, found

\* A set of states with every combination of the locks.
LEMMA EveryLock ==
  ASSUME NEW state, NEW on \in SUBSET Ignored,
         \A x, y \in evil[NumLock] : x = y, \A x, y \in evil[ScrollLock] : x = y
  PROVE  state \cup on \in EvilGrab(state)
<1> DEFINE num == evil[NumLock]
           scroll == evil[ScrollLock]
           lock == <<num, scroll, {LockMask}>>
           K == {k \in 1 .. 3 : lock[k] # {}}
           P(i, j) == {state \cup UNION {lock[k] : k \in i .. j}, state \cup lock[i] \cup lock[j]}
           E == UNION {P(i, j) : i, j \in K}
<1>1. EvilGrab(state) = {state} \cup E
  BY DEF EvilGrab
<1>2. /\ lock[1] = num /\ lock[2] = scroll /\ lock[3] = {LockMask} /\ 3 \in K
      /\ (num # {} => 1 \in K) /\ (scroll # {} => 2 \in K)
  OBVIOUS
<1>3. ASSUME NEW i \in K, NEW j \in K
      PROVE  /\ state \cup lock[i] \cup lock[j] \in E
             /\ state \cup UNION {lock[k] : k \in i .. j} \in E
  <2> HIDE DEF lock, K, P
  <2>1. P(i, j) \in {P(x, y) : x, y \in K}
    OBVIOUS
  <2>2. P(i, j) \subseteq E
    BY <2>1
  <2>3. /\ state \cup lock[i] \cup lock[j] \in P(i, j)
        /\ state \cup UNION {lock[k] : k \in i .. j} \in P(i, j)
    BY DEF P
  <2> HIDE DEF E
  <2> QED
    BY <2>2, <2>3
<1>4. UNION {lock[k] : k \in 1 .. 3} = num \cup scroll \cup {LockMask}
  <2>1. \A x : (\E k \in 1 .. 3 : x \in lock[k]) <=> x \in lock[1] \/ x \in lock[2] \/ x \in lock[3]
    <3> HIDE DEF lock
    <3> QED
      OBVIOUS
  <2> HIDE DEF lock
  <2> QED
    BY <1>2, <2>1
<1>5. on \subseteq {LockMask} \cup num \cup scroll
  BY DEF Ignored
<1> HIDE DEF E, K, lock, num, scroll
\* Each mask is in on or not: a set with one element at most is in on, or apart from it.
<1>6. /\ \A x, y \in num : x = y
      /\ \A x, y \in scroll : x = y
  BY DEF num, scroll
<1>7. /\ num \subseteq on \/ num \cap on = {}
      /\ scroll \subseteq on \/ scroll \cap on = {}
      /\ {LockMask} \subseteq on \/ LockMask \notin on
  BY <1>6
<1>8. \/ on = {} \/ on = {LockMask}
      \/ num # {} /\ on = num
      \/ scroll # {} /\ on = scroll
      \/ num # {} /\ on = num \cup {LockMask}
      \/ scroll # {} /\ on = scroll \cup {LockMask}
      \/ num # {} /\ scroll # {} /\ on = num \cup scroll
      \/ num # {} /\ on = num \cup scroll \cup {LockMask}
  <2>1. \A x \in on : x = LockMask \/ x \in num \/ x \in scroll
    BY <1>5
  <2>a. CASE num = {} \/ num \cap on = {}
    <3>1. \A x \in on : x = LockMask \/ x \in scroll
      BY <2>a, <2>1
    <3> QED
      BY <1>7, <3>1
  <2>b. CASE num # {} /\ num \subseteq on
    <3>1. CASE scroll = {} \/ scroll \cap on = {}
      <4>1. \A x \in on : x = LockMask \/ x \in num
        BY <3>1, <2>1
      <4> QED
        BY <1>7, <2>b, <4>1
    <3>2. CASE scroll # {} /\ scroll \subseteq on
      BY <1>7, <2>b, <2>1, <3>2
    <3> QED
      BY <1>7, <3>1, <3>2
  <2> QED
    BY <1>7, <2>a, <2>b
\* The modifiers with the locks i and j.
<1>9. ASSUME NEW i \in K, NEW j \in K, on = lock[i] \cup lock[j]
      PROVE  state \cup on \in EvilGrab(state)
  <2>1. state \cup on = state \cup lock[i] \cup lock[j]
    BY <1>9
  <2> QED
    BY <1>1, <1>3, <2>1
<1>10. CASE on = {}
  <2>1. state \cup on = state
    BY <1>10
  <2> QED
    BY <1>1, <2>1
<1>11. CASE on = {LockMask}
  <2>1. on = lock[3] \cup lock[3]
    BY <1>2, <1>11
  <2> QED
    BY <1>2, <1>9, <2>1
<1>12. CASE num # {} /\ on = num
  <2>1. on = lock[1] \cup lock[1]
    BY <1>2, <1>12
  <2> QED
    BY <1>2, <1>9, <1>12, <2>1
<1>13. CASE scroll # {} /\ on = scroll
  <2>1. on = lock[2] \cup lock[2]
    BY <1>2, <1>13
  <2> QED
    BY <1>2, <1>9, <1>13, <2>1
<1>14. CASE num # {} /\ on = num \cup {LockMask}
  BY <1>2, <1>9, <1>14
<1>15. CASE scroll # {} /\ on = scroll \cup {LockMask}
  BY <1>2, <1>9, <1>15
<1>16. CASE num # {} /\ scroll # {} /\ on = num \cup scroll
  BY <1>2, <1>9, <1>16
<1>17. CASE num # {} /\ on = num \cup scroll \cup {LockMask}
  <2>1. state \cup on = state \cup UNION {lock[k] : k \in 1 .. 3}
    BY <1>4, <1>17
  <2> QED
    BY <1>1, <1>2, <1>3, <1>17, <2>1
<1> QED
  BY <1>8, <1>10, <1>11, <1>12, <1>13, <1>14, <1>15, <1>16, <1>17

\* A mapping gives each lock to one modifier at most.
LEMMA OneMask ==
  ASSUME NEW mods \in Modmaps, NEW key \in EvilLocks
  PROVE  \A x, y \in LockMasks(mods)[key] : x = y
BY BindingsAssumption DEF LockMasks

LEMMA LocksDoNotMatter ==
  ASSUME BindingsInv, ~LocksMoved, Configured, NEW i \in DOMAIN map,
         NEW on \in SUBSET Ignored, map[i].act = ACT_KEYPRESS
  PROVE  /\ [act |-> ACT_KEYPRESS, kcb |-> map[i].kcb, state |-> map[i].state \cup on] \in grabs
         /\ \A key \in Keycode : Lookup(map, ACT_KEYPRESS, map[i].state \cup on, key)
                                   = Lookup(map, ACT_KEYPRESS, map[i].state, key)
<1>1. (\A x, y \in evil[NumLock] : x = y) /\ (\A x, y \in evil[ScrollLock] : x = y)
  <2>1. LockMasks(modmap) = evil /\ modmap \in Modmaps
    BY TypeIsOrdered DEF LocksMoved, BindingsInv
  <2>2. NumLock \in EvilLocks /\ ScrollLock \in EvilLocks
    BY DEF EvilLocks
  <2> QED
    BY <2>1, <2>2, OneMask
<1>2. map[i].state \cup on \in EvilGrab(map[i].state)
  BY <1>1, EveryLock
<1>3. [act |-> map[i].act, kcb |-> map[i].kcb, state |-> map[i].state \cup on] \in Grabbed
  <2> DEFINE G(n) == {[act |-> map[n].act, kcb |-> map[n].kcb, state |-> s] : s \in EvilGrab(map[n].state)}
             N == {n \in DOMAIN map : map[n].act = ACT_KEYPRESS \/ map[n].state # {}}
  <2>1. [act |-> map[i].act, kcb |-> map[i].kcb, state |-> map[i].state \cup on] \in G(i)
    BY <1>2
  <2>2. i \in N
    OBVIOUS
  <2>3. Grabbed = UNION {G(n) : n \in N}
    BY DEF Grabbed
  <2> HIDE DEF G, N
  <2> QED
    BY <2>1, <2>2, <2>3
<1>4. (map[i].state \cup on) \ Ignored = map[i].state \ Ignored
  BY <1>1 DEF Ignored
<1>5. \A key : Tries(ACT_KEYPRESS, map[i].state \cup on, key) = Tries(ACT_KEYPRESS, map[i].state, key)
  BY <1>4 DEF Tries
<1> QED
  BY <1>3, <1>5 DEF BindingsInv, Lookup

LEMMA InvIsFound == BindingsInv => BindingsFound
<1> SUFFICES ASSUME BindingsInv PROVE BindingsFound
  OBVIOUS
<1>1. BindingsType
  BY DEF BindingsInv
<1> QED
  BY Zenon, <1>1, BestIsFound, LocksDoNotMatter DEF BindingsFound

LEMMA InvAlways == BindingsSpec => []BindingsInv
BY BindingsInitInv, StepInv, PTL DEF BindingsSpec

\* For any keys, modifiers and bindings: the binding found is the one bound last for the
\* key and the modifiers, and the locks make no difference (add_binding, search_binding,
\* lookup_binding, grab_bindings).
THEOREM BindingsAreFound == BindingsSpec => []BindingsFound
BY InvAlways, InvIsFound, PTL

\* When the last key is released, no modifier is left for waitrelease_handler to wait for.
LEMMA NoneLeft ==
  ASSUME BindingsInv, NEW key \in Keycode, held = {key}, locks \subseteq Ignored
  PROVE  Unmod(EventState, key) = {}
<1>1. \A mods \in Modmaps, m, n \in Modifier : key \in mods[m] /\ key \in mods[n] => m = n
  BY BindingsAssumption
<1>2. modmap \in Modmaps /\ \A m \in Modifier : m <= m
  BY BindingsAssumption, TypeIsOrdered DEF BindingsInv
<1>3. ASSUME NEW m \in EventState \ Ignored
      PROVE  m \in Modifier /\ key \in modmap[m] /\ \A n \in Modifier : key \in modmap[n] => m <= n
  <2>1. m \in Modifier /\ key \in modmap[m]
    BY DEF EventState
  <2> QED
    BY <1>1, <1>2, <2>1
<1> QED
  BY <1>3 DEF Unmod

LEMMA StepEnds ==
  BindingsInv /\ [BindingsNext]_bindingVars
    => [held # {} /\ held' = {} /\ locks \subseteq Ignored => ~waiting']_bindingVars
<1> SUFFICES ASSUME BindingsInv, BindingsNext, held # {}, held' = {}, locks \subseteq Ignored PROVE ~waiting'
  OBVIOUS
<1>1. PICK key \in Keycode : KeyRelease(key)
  BY DEF BindingsNext, Bind, GrabBindings, KeyPress, UpdateModmap
<1>2. held = {key}
  BY <1>1 DEF KeyRelease
<1>3. Unmod(EventState, key) = {}
  BY <1>2, NoneLeft
<1> QED
  BY <1>1, <1>3 DEF KeyRelease

\* For any mapping of the modifiers, and keys pressed and released in any order: nothing
\* is waited for when no key is held (waitrelease_handler, unmod).
THEOREM WaitIsOver == BindingsSpec => WaitEnds
BY InvAlways, StepEnds, PTL DEF BindingsSpec, WaitEnds

==============================================================================
