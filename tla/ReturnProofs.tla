---------------------------- MODULE ReturnProofs ----------------------------
(***************************************************************************)
(* The workspaces that an exit in order has saved come back at the next    *)
(* start (Session), for any number of screens, frames, windows and starts. *)
(* It rests on what SessionProofs shows of every state of a session.       *)
(*                                                                         *)
(* What is written for a tree is a text that reads as one tree in one way  *)
(* only, and while a file is read, what was read so far, written again,    *)
(* and the rest that closes the open sections are the file that was saved. *)
(***************************************************************************)
EXTENDS SessionProofs

-----------------------------------------------------------------------------
(* Trees that have no frame twice. *)

Joins(T) ==
  \A l, r \in T : [tl |-> l, br |-> r] \in Trees /\ Leaves(l) \cap Leaves(r) = {} => [tl |-> l, br |-> r] \in T

OneEach == {t \in Trees : \A T \in SUBSET Trees : Atoms \subseteq T /\ Joins(T) => t \in T}

LEMMA OneEachMade == Atoms \subseteq OneEach /\ Joins(OneEach) /\ OneEach \subseteq Trees
<1>1. Atoms \subseteq OneEach
  BY AtomsAreTrees DEF OneEach
<1>2. ASSUME NEW l \in OneEach, NEW r \in OneEach, [tl |-> l, br |-> r] \in Trees, Leaves(l) \cap Leaves(r) = {}
      PROVE  [tl |-> l, br |-> r] \in OneEach
  <2>1. ASSUME NEW T \in SUBSET Trees, Atoms \subseteq T, Joins(T) PROVE [tl |-> l, br |-> r] \in T
    <3>1. l \in T /\ r \in T
      BY <2>1 DEF OneEach
    <3> QED
      BY <1>2, <2>1, <3>1 DEF Joins
  <2> QED
    BY <1>2, <2>1 DEF OneEach
<1> QED
  BY <1>1, <1>2 DEF Joins, OneEach

LEMMA OneEachSplit ==
  ASSUME NEW t \in OneEach, IsSplit(t)
  PROVE  t.tl \in OneEach /\ t.br \in OneEach /\ Leaves(t.tl) \cap Leaves(t.br) = {}
<1> DEFINE T == {u \in OneEach : IsSplit(u) => u.tl \in OneEach /\ u.br \in OneEach /\ Leaves(u.tl) \cap Leaves(u.br) = {}}
<1>1. T \in SUBSET Trees /\ Atoms \subseteq T
  BY OneEachMade DEF IsSplit
<1>2. Joins(T)
  <2> SUFFICES ASSUME NEW l \in T, NEW r \in T, [tl |-> l, br |-> r] \in Trees, Leaves(l) \cap Leaves(r) = {}
               PROVE  [tl |-> l, br |-> r] \in T
    BY DEF Joins
  <2>1. [tl |-> l, br |-> r] \in OneEach
    BY OneEachMade DEF Joins
  <2> QED
    BY <2>1
<1>3. t \in T
  <2> HIDE DEF T
  <2> QED
    BY <1>1, <1>2 DEF OneEach
<1> QED
  BY <1>3

\* What is left of a tree has no frame twice.
LEMMA RemovedOnce ==
  ASSUME NEW f \in Frame, NEW t \in OneEach, Proper(t)
  PROVE  Replaced(t, f, NULL) \in OneEach
<1> DEFINE P == {u \in Trees : u \in OneEach /\ NULL \notin Tips[u] => Replaced(u, f, NULL) \in OneEach}
<1>0. MaxDepth \in 0 .. MaxDepth /\ Trees = TreesOf[MaxDepth] /\ t \in Trees /\ NULL \in Atoms
  BY SessionAssumption, OneEachMade DEF Trees, Atoms
<1>1. \A u \in Trees : ~IsSplit(u) => u \in P
  BY <1>0, ReplacedDef, OneEachMade
<1>2. \A u \in Trees : IsSplit(u) /\ u.tl \in P /\ u.br \in P => u \in P
  <2> SUFFICES ASSUME NEW u \in Trees, IsSplit(u), u.tl \in P, u.br \in P, NULL \notin Tips[u], u \in OneEach
               PROVE  Replaced(u, f, NULL) \in OneEach
    OBVIOUS
  <2> DEFINE l == Replaced(u.tl, f, NULL)
             r == Replaced(u.br, f, NULL)
  <2>1. u.tl \in OneEach /\ u.br \in OneEach /\ Leaves(u.tl) \cap Leaves(u.br) = {}
    BY OneEachSplit
  <2>2. u.tl \in Trees /\ u.br \in Trees /\ NULL \notin Tips[u.tl] /\ NULL \notin Tips[u.br]
    BY SidesAreTrees, TipsDef
  <2>3. l \in OneEach /\ r \in OneEach
    BY <2>1, <2>2
  <2>4. Removed(u.tl, f, MaxDepth) /\ Removed(u.br, f, MaxDepth) /\ Removed(u, f, MaxDepth)
    BY <1>0, <2>2, FrameRemoved DEF Proper
  <2>5. Replaced(u, f, NULL) = Joint(l, r)
    BY ReplacedDef
  <2> HIDE DEF l, r
  <2>6. CASE l = NULL \/ r = NULL
    <3>1. Joint(l, r) = IF l = NULL THEN r ELSE l
      BY <2>6 DEF Joint
    <3> QED
      BY <2>3, <2>5, <3>1
  <2>7. CASE l # NULL /\ r # NULL
    <3>1. Joint(l, r) = [tl |-> l, br |-> r]
      BY <2>7 DEF Joint
    <3>2. [tl |-> l, br |-> r] # NULL
      BY AtomsAssumption, <2>3, OneEachMade DEF Atoms
    <3>3. [tl |-> l, br |-> r] \in Trees
      BY <1>0, <2>4, <2>5, <3>1, <3>2 DEF Removed
    <3>4. Tips[l] \subseteq Tips[u.tl] /\ Tips[r] \subseteq Tips[u.br]
      BY <2>4, <2>7 DEF Removed, l, r
    <3>5. Leaves(l) \cap Leaves(r) = {}
      BY <2>1, <3>4 DEF Leaves
    <3> QED
      BY <2>3, <2>5, <3>1, <3>3, <3>5, OneEachMade DEF Joins
  <2> QED
    BY <2>6, <2>7
<1>3. \A u \in Trees : u \in P
  <2> HIDE DEF P
  <2> QED
    BY <1>1, <1>2, TreeInduction
<1> QED
  BY <1>0, <1>3 DEF Proper

\* A tree with a split in the place of frame at has none twice, if the other side is new.
LEMMA SplitOnce ==
  ASSUME NEW at \in Frame, NEW t \in OneEach, Proper(t), t \in TreesOf[MaxDepth - 1],
         NEW new \in TreesOf[1], IsSplit(new), new \in OneEach, at \in Tips[new],
         Tips[t] \cap Tips[new] \subseteq {at}
  PROVE  Replaced(t, at, new) \in OneEach
<1> DEFINE P == {u \in Trees : /\ u \in OneEach /\ NULL \notin Tips[u] /\ u \in TreesOf[MaxDepth - 1]
                               /\ Tips[u] \cap Tips[new] \subseteq {at}
                               => Replaced(u, at, new) \in OneEach}
<1>0. MaxDepth \in Nat /\ MaxDepth > 0 /\ Trees = TreesOf[MaxDepth] /\ t \in Trees /\ NULL \in Atoms
  BY SessionAssumption, OneEachMade DEF Trees, Atoms
<1>1. \A u \in Trees : ~IsSplit(u) => u \in P
  BY <1>0, ReplacedDef, OneEachMade
<1>2. \A u \in Trees : IsSplit(u) /\ u.tl \in P /\ u.br \in P => u \in P
  <2> SUFFICES ASSUME NEW u \in Trees, IsSplit(u), u.tl \in P, u.br \in P, NULL \notin Tips[u], u \in OneEach,
                      u \in TreesOf[MaxDepth - 1], Tips[u] \cap Tips[new] \subseteq {at}
               PROVE  Replaced(u, at, new) \in OneEach
    OBVIOUS
  <2> DEFINE l == Replaced(u.tl, at, new)
             r == Replaced(u.br, at, new)
  <2>0. MaxDepth - 1 \in 0 .. MaxDepth
    BY <1>0
  <2>1. MaxDepth - 1 > 0 /\ u.tl \in TreesOf[MaxDepth - 1 - 1] /\ u.br \in TreesOf[MaxDepth - 1 - 1]
    BY <2>0, SidesOfTree
  <2>2. MaxDepth - 1 - 1 \in 0 .. MaxDepth - 1 /\ (MaxDepth - 1 - 1) + 1 = MaxDepth - 1
    BY <1>0, <2>1
  <2>3. TreesOf[MaxDepth - 1 - 1] \subseteq TreesOf[MaxDepth - 1]
    BY <2>0, <2>2, TreesGrow
  <2>4. u.tl \in OneEach /\ u.br \in OneEach /\ Leaves(u.tl) \cap Leaves(u.br) = {}
    BY OneEachSplit
  <2>5. u.tl \in Trees /\ u.br \in Trees /\ Tips[u] = Tips[u.tl] \cup Tips[u.br]
    BY SidesAreTrees, TipsDef
  <2>6. l \in OneEach /\ r \in OneEach
    BY <2>1, <2>3, <2>4, <2>5
  <2>7. Deeper(u.tl, at, new, MaxDepth - 1 - 1) /\ Deeper(u.br, at, new, MaxDepth - 1 - 1)
        /\ Deeper(u, at, new, MaxDepth - 1)
    <3>1. MaxDepth - 1 \in 0 .. MaxDepth - 1
      BY <1>0
    <3> QED
      BY <2>1, <2>2, <2>5, <3>1, FrameSplit DEF Proper
  <2>8. Replaced(u, at, new) = Joint(l, r)
    BY ReplacedDef
  <2> HIDE DEF l, r
  <2>9. /\ l # NULL /\ Tips[l] = IF at \in Tips[u.tl] THEN (Tips[u.tl] \ {at}) \cup Tips[new] ELSE Tips[u.tl]
        /\ r # NULL /\ Tips[r] = IF at \in Tips[u.br] THEN (Tips[u.br] \ {at}) \cup Tips[new] ELSE Tips[u.br]
    BY <2>7 DEF Deeper, l, r
  <2>10. Joint(l, r) = [tl |-> l, br |-> r]
    BY <2>9 DEF Joint
  <2>11. [tl |-> l, br |-> r] \in Trees
    <3>1. (MaxDepth - 1) + 1 = MaxDepth
      BY <1>0
    <3> QED
      BY <1>0, <2>7, <2>8, <2>10, <3>1 DEF Deeper
  <2>12. Leaves(l) \cap Leaves(r) = {}
    <3>1. at # NULL
      BY SessionAssumption
    <3> QED
      BY <2>4, <2>5, <2>9, <3>1 DEF Leaves
  <2> QED
    BY <2>6, <2>8, <2>10, <2>11, <2>12, OneEachMade DEF Joins
<1>3. \A u \in Trees : u \in P
  <2> HIDE DEF P
  <2> QED
    BY <1>1, <1>2, TreeInduction
<1> QED
  BY <1>0, <1>3 DEF Proper

-----------------------------------------------------------------------------
(* Texts that are read again as they were written. *)

SplitText(a, b)   == <<Item("split", 0)>> \o a \o b \o <<Item("end", 0)>>
WorkspaceText(k, a) == <<Item(k, 0)>> \o a \o <<Item("end", 0)>>

\* The texts of whole trees.
TextsClosed(T) ==
  /\ \A id \in 1 .. INT_MAX : <<Item("frame", id)>> \in T
  /\ \A a, b \in T : SplitText(a, b) \in T
Texts == {x \in Seq(Items) : \A T \in SUBSET Seq(Items) : TextsClosed(T) => x \in T}

\* The texts of sequences of workspaces.
Names == {"workspace", "unreadable"}
LayoutsClosed(T) ==
  <<>> \in T /\ \A k \in Names, a \in Texts, l \in T : WorkspaceText(k, a) \o l \in T
Layouts == {x \in Seq(Items) : \A T \in SUBSET Seq(Items) : LayoutsClosed(T) => x \in T}

LEMMA SeqsOfItems ==
  /\ \A x \in Items : <<x>> \in Seq(Items)
  /\ \A a, b \in Seq(Items) : a \o b \in Seq(Items)
  /\ <<>> \in Seq(Items)
  /\ \A a, b \in Seq(Items) : SplitText(a, b) \in Seq(Items)
  /\ \A k \in Names, a \in Seq(Items) : WorkspaceText(k, a) \in Seq(Items)
<1>1. /\ \A x \in Items : <<x>> \in Seq(Items)
      /\ \A a, b \in Seq(Items) : a \o b \in Seq(Items)
      /\ <<>> \in Seq(Items)
  OBVIOUS
<1>2. Item("split", 0) \in Items /\ Item("end", 0) \in Items /\ \A k \in Names : Item(k, 0) \in Items
  BY ItemsType DEF Names
<1>3. ASSUME NEW a \in Seq(Items), NEW b \in Seq(Items) PROVE SplitText(a, b) \in Seq(Items)
  BY <1>1, <1>2 DEF SplitText
<1>4. ASSUME NEW k \in Names, NEW a \in Seq(Items) PROVE WorkspaceText(k, a) \in Seq(Items)
  BY <1>1, <1>2 DEF WorkspaceText
<1> QED
  BY <1>1, <1>3, <1>4

LEMMA TextsMade == TextsClosed(Texts) /\ Texts \subseteq Seq(Items)
<1>1. Texts \subseteq Seq(Items)
  BY DEF Texts
<1>2. ASSUME NEW id \in 1 .. INT_MAX PROVE <<Item("frame", id)>> \in Texts
  <2>1. Item("frame", id) \in Items
    BY ItemsType, FrameIdsAssumption
  <2> QED
    BY <2>1, SeqsOfItems DEF Texts, TextsClosed
<1>3. ASSUME NEW a \in Texts, NEW b \in Texts PROVE SplitText(a, b) \in Texts
  <2>1. ASSUME NEW T \in SUBSET Seq(Items), TextsClosed(T) PROVE SplitText(a, b) \in T
    <3>1. a \in T /\ b \in T
      BY <2>1 DEF Texts
    <3> QED
      BY <2>1, <3>1 DEF TextsClosed
  <2> QED
    BY <1>1, <2>1, SeqsOfItems DEF Texts
<1> QED
  BY <1>1, <1>2, <1>3 DEF TextsClosed

LEMMA TextsAre ==
  ASSUME NEW x \in Texts
  PROVE  \/ \E id \in 1 .. INT_MAX : x = <<Item("frame", id)>>
         \/ \E a, b \in Texts : x = SplitText(a, b)
<1> DEFINE T == {y \in Texts : \/ \E id \in 1 .. INT_MAX : y = <<Item("frame", id)>>
                               \/ \E a, b \in Texts : y = SplitText(a, b)}
<1>1. TextsClosed(T)
  BY TextsMade DEF TextsClosed
<1>2. T \in SUBSET Seq(Items)
  BY TextsMade
<1>3. x \in T
  <2> HIDE DEF T
  <2> QED
    BY <1>1, <1>2 DEF Texts
<1> QED
  BY <1>3

LEMMA LayoutsMade == LayoutsClosed(Layouts) /\ Layouts \subseteq Seq(Items)
<1>1. Layouts \subseteq Seq(Items)
  BY DEF Layouts
<1>2. <<>> \in Layouts
  BY SeqsOfItems DEF Layouts, LayoutsClosed
<1>3. ASSUME NEW k \in Names, NEW a \in Texts, NEW l \in Layouts PROVE WorkspaceText(k, a) \o l \in Layouts
  <2>1. ASSUME NEW T \in SUBSET Seq(Items), LayoutsClosed(T) PROVE WorkspaceText(k, a) \o l \in T
    <3>1. l \in T
      BY <2>1 DEF Layouts
    <3> QED
      BY <2>1, <3>1 DEF LayoutsClosed
  <2>2. WorkspaceText(k, a) \o l \in Seq(Items)
    BY <1>1, SeqsOfItems, TextsMade
  <2> QED
    BY <2>1, <2>2 DEF Layouts
<1> QED
  BY <1>1, <1>2, <1>3 DEF LayoutsClosed

LEMMA LayoutsAre ==
  ASSUME NEW x \in Layouts
  PROVE  x = <<>> \/ \E k \in Names, a \in Texts, l \in Layouts : x = WorkspaceText(k, a) \o l
<1> DEFINE T == {y \in Layouts : y = <<>> \/ \E k \in Names, a \in Texts, l \in Layouts : y = WorkspaceText(k, a) \o l}
<1>1. LayoutsClosed(T)
  BY LayoutsMade DEF LayoutsClosed
<1>2. T \in SUBSET Seq(Items)
  BY LayoutsMade
<1>3. x \in T
  <2> HIDE DEF T
  <2> QED
    BY <1>1, <1>2 DEF Layouts
<1> QED
  BY <1>3

\* A workspace is written after those that are.
LEMMA LayoutsGrow ==
  ASSUME NEW x \in Layouts, NEW k \in Names, NEW a \in Texts
  PROVE  x \o WorkspaceText(k, a) \in Layouts
<1> DEFINE w == WorkspaceText(k, a)
           T == {y \in Layouts : y \o w \in Layouts}
<1>0. w \in Seq(Items)
  BY SeqsOfItems, TextsMade
<1>1. <<>> \in T
  <2>1. <<>> \o w = w /\ w \o <<>> = w
    BY <1>0, ConcatEmptySeq
  <2>2. w \o <<>> \in Layouts /\ <<>> \in Layouts
    BY LayoutsMade DEF LayoutsClosed
  <2> HIDE DEF w
  <2> QED
    BY <2>1, <2>2
<1>2. ASSUME NEW m \in Names, NEW b \in Texts, NEW l \in T PROVE WorkspaceText(m, b) \o l \in T
  <2>1. WorkspaceText(m, b) \o l \in Layouts /\ WorkspaceText(m, b) \o (l \o w) \in Layouts
    BY LayoutsMade DEF LayoutsClosed
  <2>2. WorkspaceText(m, b) \in Seq(Items) /\ l \in Seq(Items)
    BY SeqsOfItems, TextsMade, LayoutsMade
  <2>3. (WorkspaceText(m, b) \o l) \o w = WorkspaceText(m, b) \o (l \o w)
    BY <1>0, <2>2, ConcatAssociative
  <2> QED
    BY <2>1, <2>3
<1>3. x \in T
  <2>1. T \in SUBSET Seq(Items) /\ LayoutsClosed(T)
    BY <1>1, <1>2, LayoutsMade DEF LayoutsClosed
  <2> HIDE DEF T
  <2> QED
    BY <2>1 DEF Layouts
<1> QED
  BY <1>3

\* What a text that is not over begins with.
LEMMA TextBegins ==
  /\ \A x \in Items, q \in Seq(Items) : /\ <<x>> \o q \in Seq(Items) /\ <<x>> \o q # <<>>
                                        /\ Head(<<x>> \o q) = x /\ Tail(<<x>> \o q) = q
  /\ \A a, b, c \in Seq(Items) : (a \o b) \o c = a \o (b \o c)
  /\ \A q \in Seq(Items) : <<>> \o q = q /\ q \o <<>> = q
<1>1. ASSUME NEW x \in Items, NEW q \in Seq(Items)
      PROVE  /\ <<x>> \o q \in Seq(Items) /\ <<x>> \o q # <<>>
             /\ Head(<<x>> \o q) = x /\ Tail(<<x>> \o q) = q
  <2>1. <<x>> \in Seq(Items) /\ Len(<<x>>) = 1 /\ <<x>>[1] = x
    OBVIOUS
  <2>2. /\ <<x>> \o q \in Seq(Items) /\ Len(<<x>> \o q) = 1 + Len(q)
        /\ \A i \in 1 .. 1 + Len(q) : (<<x>> \o q)[i] = IF i <= 1 THEN <<x>>[i] ELSE q[i - 1]
    BY <2>1, ConcatProperties
  <2> DEFINE r == <<x>> \o q
  <2>3. /\ r \in Seq(Items) /\ Len(r) = 1 + Len(q)
        /\ \A i \in 1 .. 1 + Len(q) : r[i] = IF i <= 1 THEN x ELSE q[i - 1]
    BY <2>1, <2>2
  <2> HIDE DEF r
  <2>4. r # <<>> /\ Head(r) = x
    BY <2>3
  <2>5. Tail(r) \in Seq(Items) /\ Len(Tail(r)) = Len(q) /\ \A i \in 1 .. Len(q) : Tail(r)[i] = q[i]
    BY <2>3
  <2>6. Tail(r) = q
    BY <2>5, SeqEqual
  <2> QED
    BY <2>3, <2>4, <2>6 DEF r
<1> QED
  BY <1>1, ConcatAssociative, ConcatEmptySeq

-----------------------------------------------------------------------------
(* The identifiers in a text. *)

FramesAt(text) == {i \in DOMAIN text : text[i].k = "frame"}
IdsIn(text) == {text[i].id : i \in FramesAt(text)}
NoTwice(text) == \A i, j \in FramesAt(text) : text[i].id = text[j].id => i = j

LEMMA IdsOfConcat ==
  ASSUME NEW a \in Seq(Items), NEW b \in Seq(Items)
  PROVE  /\ a \o b \in Seq(Items)
         /\ IdsIn(a \o b) = IdsIn(a) \cup IdsIn(b)
         /\ NoTwice(a \o b) => NoTwice(a) /\ NoTwice(b) /\ IdsIn(a) \cap IdsIn(b) = {}
         /\ NoTwice(a) /\ NoTwice(b) /\ IdsIn(a) \cap IdsIn(b) = {} => NoTwice(a \o b)
<1> DEFINE c == a \o b
           m == Len(a)
           n == Len(b)
<1>1. /\ c \in Seq(Items) /\ DOMAIN c = 1 .. m + n /\ DOMAIN a = 1 .. m /\ DOMAIN b = 1 .. n
      /\ m \in Nat /\ n \in Nat
      /\ \A i \in 1 .. m + n : c[i] = IF i <= m THEN a[i] ELSE b[i - m]
  BY ConcatProperties
<1> HIDE DEF c, m, n
<1>2. /\ \A i \in 1 .. m : i \in DOMAIN c /\ c[i] = a[i]
      /\ \A i \in 1 .. n : i + m \in DOMAIN c /\ c[i + m] = b[i]
  <2>1. \A i \in 1 .. m : i \in 1 .. m + n /\ i <= m
    BY <1>1
  <2>2. \A i \in 1 .. n : i + m \in 1 .. m + n /\ ~(i + m <= m) /\ (i + m) - m = i
    BY <1>1
  <2> QED
    BY <1>1, <2>1, <2>2
<1>3. \A i \in DOMAIN c : (i \in 1 .. m /\ c[i] = a[i]) \/ (i - m \in 1 .. n /\ ~(i <= m) /\ c[i] = b[i - m])
  BY <1>1
<1>4. IdsIn(c) \subseteq IdsIn(a) \cup IdsIn(b)
  BY <1>1, <1>3 DEF IdsIn, FramesAt
<1>5. IdsIn(a) \subseteq IdsIn(c) /\ IdsIn(b) \subseteq IdsIn(c)
  <2>1. ASSUME NEW i \in FramesAt(a) PROVE a[i].id \in IdsIn(c)
    <3>1. i \in FramesAt(c) /\ c[i].id = a[i].id
      BY <1>1, <1>2 DEF FramesAt
    <3> QED
      BY <3>1 DEF IdsIn
  <2>2. ASSUME NEW i \in FramesAt(b) PROVE b[i].id \in IdsIn(c)
    <3>1. i + m \in FramesAt(c) /\ c[i + m].id = b[i].id
      BY <1>1, <1>2 DEF FramesAt
    <3> QED
      BY <3>1 DEF IdsIn
  <2> QED
    BY <2>1, <2>2 DEF IdsIn
<1>6. ASSUME NoTwice(c) PROVE NoTwice(a) /\ NoTwice(b) /\ IdsIn(a) \cap IdsIn(b) = {}
  <2>1. NoTwice(a)
    BY <1>1, <1>2, <1>6 DEF NoTwice, FramesAt
  <2>2. NoTwice(b)
    <3> SUFFICES ASSUME NEW i \in FramesAt(b), NEW j \in FramesAt(b), b[i].id = b[j].id PROVE i = j
      BY DEF NoTwice
    <3>1. i + m \in FramesAt(c) /\ j + m \in FramesAt(c) /\ c[i + m].id = c[j + m].id
      BY <1>1, <1>2 DEF FramesAt
    <3>2. i + m = j + m
      BY <1>6, <3>1 DEF NoTwice
    <3>3. i \in Int /\ j \in Int
      BY <1>1 DEF FramesAt
    <3> QED
      BY <1>1, <3>2, <3>3
  <2>3. ASSUME NEW x, x \in IdsIn(a), x \in IdsIn(b) PROVE FALSE
    <3>1. PICK i \in FramesAt(a) : x = a[i].id
      BY <2>3 DEF IdsIn
    <3>2. PICK j \in FramesAt(b) : x = b[j].id
      BY <2>3 DEF IdsIn
    <3>3. i \in 1 .. m /\ j \in 1 .. n
      BY <1>1 DEF FramesAt
    <3>4. i \in FramesAt(c) /\ j + m \in FramesAt(c) /\ c[i].id = c[j + m].id
      BY <1>1, <1>2, <3>1, <3>2, <3>3 DEF FramesAt
    <3>5. i = j + m
      BY <1>6, <3>4 DEF NoTwice
    <3> QED
      BY <1>1, <3>3, <3>5
  <2> QED
    BY <2>1, <2>2, <2>3
<1>7. ASSUME NoTwice(a), NoTwice(b), IdsIn(a) \cap IdsIn(b) = {} PROVE NoTwice(c)
  <2> SUFFICES ASSUME NEW i \in FramesAt(c), NEW j \in FramesAt(c), c[i].id = c[j].id PROVE i = j
    BY DEF NoTwice
  <2>1. i \in DOMAIN c /\ j \in DOMAIN c /\ i \in Int /\ j \in Int
    BY <1>1 DEF FramesAt
  <2>2. \A x, y : x \in DOMAIN c /\ y \in DOMAIN c /\ x \in 1 .. m /\ c[x] = a[x] /\ c[x].k = "frame"
                  /\ y - m \in 1 .. n /\ c[y] = b[y - m] /\ c[y].k = "frame" => c[x].id # c[y].id
    <3> SUFFICES ASSUME NEW x, NEW y, x \in 1 .. m, c[x] = a[x], c[x].k = "frame",
                        y - m \in 1 .. n, c[y] = b[y - m], c[y].k = "frame", c[x].id = c[y].id
                 PROVE  FALSE
      OBVIOUS
    <3>1. c[x].id \in IdsIn(a)
      BY <1>1 DEF IdsIn, FramesAt
    <3>2. c[y].id \in IdsIn(b)
      BY <1>1 DEF IdsIn, FramesAt
    <3> QED
      BY <1>7, <3>1, <3>2
  <2>3. c[i].k = "frame" /\ c[j].k = "frame"
    BY DEF FramesAt
  <2>4. CASE i \in 1 .. m /\ c[i] = a[i] /\ j \in 1 .. m /\ c[j] = a[j]
    <3>1. i \in FramesAt(a) /\ j \in FramesAt(a)
      BY <1>1, <2>3, <2>4 DEF FramesAt
    <3> QED
      BY <1>7, <2>4, <3>1 DEF NoTwice
  <2>5. CASE i - m \in 1 .. n /\ c[i] = b[i - m] /\ j - m \in 1 .. n /\ c[j] = b[j - m]
    <3>1. i - m \in FramesAt(b) /\ j - m \in FramesAt(b)
      BY <1>1, <2>3, <2>5 DEF FramesAt
    <3>2. i - m = j - m
      BY <1>7, <2>5, <3>1 DEF NoTwice
    <3> QED
      BY <1>1, <2>1, <3>2
  <2> QED
    BY <1>3, <2>1, <2>2, <2>3, <2>4, <2>5
<1> QED
  BY <1>1, <1>4, <1>5, <1>6, <1>7 DEF c

\* A text with no frames, before or after another one.
LEMMA IdsOfPlain ==
  ASSUME NEW a \in Seq(Items), NEW b \in Seq(Items), IdsIn(b) = {}, NoTwice(b)
  PROVE  /\ a \o b \in Seq(Items) /\ b \o a \in Seq(Items)
         /\ IdsIn(a \o b) = IdsIn(a) /\ IdsIn(b \o a) = IdsIn(a)
         /\ NoTwice(a) => NoTwice(a \o b) /\ NoTwice(b \o a)
         /\ NoTwice(a \o b) => NoTwice(a)
         /\ NoTwice(b \o a) => NoTwice(a)
<1>1. /\ a \o b \in Seq(Items) /\ IdsIn(a \o b) = IdsIn(a) \cup IdsIn(b)
      /\ NoTwice(a \o b) => NoTwice(a)
      /\ NoTwice(a) /\ NoTwice(b) /\ IdsIn(a) \cap IdsIn(b) = {} => NoTwice(a \o b)
  BY IdsOfConcat
<1>2. /\ b \o a \in Seq(Items) /\ IdsIn(b \o a) = IdsIn(b) \cup IdsIn(a)
      /\ NoTwice(b \o a) => NoTwice(a)
      /\ NoTwice(b) /\ NoTwice(a) /\ IdsIn(b) \cap IdsIn(a) = {} => NoTwice(b \o a)
  BY IdsOfConcat
<1>3. IdsIn(a) \cup IdsIn(b) = IdsIn(a) /\ IdsIn(b) \cup IdsIn(a) = IdsIn(a)
      /\ IdsIn(a) \cap IdsIn(b) = {} /\ IdsIn(b) \cap IdsIn(a) = {}
  OBVIOUS
<1> QED
  BY <1>1, <1>2, <1>3

LEMMA IdsOfItem ==
  /\ \A x \in Items : /\ IdsIn(<<x>>) = IF x.k = "frame" THEN {x.id} ELSE {}
                      /\ NoTwice(<<x>>)
  /\ IdsIn(<<>>) = {} /\ NoTwice(<<>>)
<1>1. ASSUME NEW x \in Items PROVE IdsIn(<<x>>) = (IF x.k = "frame" THEN {x.id} ELSE {}) /\ NoTwice(<<x>>)
  <2>1. DOMAIN <<x>> = {1} /\ <<x>>[1] = x
    OBVIOUS
  <2> QED
    BY <2>1 DEF IdsIn, NoTwice, FramesAt
<1> QED
  BY <1>1 DEF IdsIn, NoTwice, FramesAt

LEMMA ItemKinds ==
  /\ \A id \in 0 .. INT_MAX : Item("frame", id) \in Items /\ Item("frame", id).k = "frame" /\ Item("frame", id).id = id
  /\ \A k \in {"workspace", "unreadable", "split", "end"} :
       Item(k, 0) \in Items /\ Item(k, 0).k = k /\ IdsIn(<<Item(k, 0)>>) = {} /\ NoTwice(<<Item(k, 0)>>)
<1>1. ASSUME NEW k \in {"workspace", "unreadable", "split", "end"}
      PROVE Item(k, 0) \in Items /\ Item(k, 0).k = k
  BY ItemsType DEF Item
<1>2. \A id \in 0 .. INT_MAX : Item("frame", id) \in Items /\ Item("frame", id).k = "frame" /\ Item("frame", id).id = id
  BY ItemsType DEF Item
<1> QED
  BY <1>1, <1>2, IdsOfItem

LEMMA IdsOfSplit ==
  ASSUME NEW a \in Seq(Items), NEW b \in Seq(Items)
  PROVE  /\ IdsIn(SplitText(a, b)) = IdsIn(a) \cup IdsIn(b)
         /\ NoTwice(SplitText(a, b)) => NoTwice(a) /\ NoTwice(b) /\ IdsIn(a) \cap IdsIn(b) = {}
         /\ NoTwice(a) /\ NoTwice(b) /\ IdsIn(a) \cap IdsIn(b) = {} => NoTwice(SplitText(a, b))
<1> DEFINE s == <<Item("split", 0)>>
           e == <<Item("end", 0)>>
           x == s \o a
           y == x \o b
<1>1. s \in Seq(Items) /\ e \in Seq(Items) /\ IdsIn(s) = {} /\ IdsIn(e) = {} /\ NoTwice(s) /\ NoTwice(e)
  BY ItemKinds, SeqsOfItems
<1> HIDE DEF s, e
<1>2. x \in Seq(Items) /\ IdsIn(x) = IdsIn(a) /\ (NoTwice(x) => NoTwice(a)) /\ (NoTwice(a) => NoTwice(x))
  BY <1>1, IdsOfPlain
<1> HIDE DEF x
<1>3. /\ y \in Seq(Items) /\ IdsIn(y) = IdsIn(x) \cup IdsIn(b)
      /\ NoTwice(y) => NoTwice(x) /\ NoTwice(b) /\ IdsIn(x) \cap IdsIn(b) = {}
      /\ NoTwice(x) /\ NoTwice(b) /\ IdsIn(x) \cap IdsIn(b) = {} => NoTwice(y)
  BY <1>2, IdsOfConcat
<1> HIDE DEF y
<1>4. IdsIn(y \o e) = IdsIn(y) /\ (NoTwice(y \o e) => NoTwice(y)) /\ (NoTwice(y) => NoTwice(y \o e))
  BY <1>1, <1>3, IdsOfPlain
<1>5. SplitText(a, b) = y \o e
  BY DEF SplitText, s, e, x, y
<1> QED
  BY <1>2, <1>3, <1>4, <1>5

LEMMA IdsOfWorkspace ==
  ASSUME NEW k \in Names, NEW a \in Seq(Items)
  PROVE  /\ IdsIn(WorkspaceText(k, a)) = IdsIn(a)
         /\ NoTwice(WorkspaceText(k, a)) => NoTwice(a)
         /\ NoTwice(a) => NoTwice(WorkspaceText(k, a))
<1> DEFINE s == <<Item(k, 0)>>
           e == <<Item("end", 0)>>
           x == s \o a
<1>1. s \in Seq(Items) /\ e \in Seq(Items) /\ IdsIn(s) = {} /\ IdsIn(e) = {} /\ NoTwice(s) /\ NoTwice(e)
  BY ItemKinds, SeqsOfItems DEF Names
<1> HIDE DEF s, e
<1>2. x \in Seq(Items) /\ IdsIn(x) = IdsIn(a) /\ (NoTwice(x) => NoTwice(a)) /\ (NoTwice(a) => NoTwice(x))
  BY <1>1, IdsOfPlain
<1> HIDE DEF x
<1>3. IdsIn(x \o e) = IdsIn(x) /\ (NoTwice(x \o e) => NoTwice(x)) /\ (NoTwice(x) => NoTwice(x \o e))
  BY <1>1, <1>2, IdsOfPlain
<1>4. WorkspaceText(k, a) = x \o e
  BY DEF WorkspaceText, s, e, x
<1> QED
  BY <1>2, <1>3, <1>4

-----------------------------------------------------------------------------
(* The text of a tree. *)

IdTable == [Frame -> 0 .. INT_MAX]

LEMMA TextOfIs ==
  ASSUME NEW ids, NEW t \in Trees
  PROVE  /\ t \in Frame => TextOf(ids)[t] = <<Item("frame", ids[t])>>
         /\ t = NULL => TextOf(ids)[t] = <<>>
         /\ IsSplit(t) => TextOf(ids)[t] = SplitText(TextOf(ids)[t.tl], TextOf(ids)[t.br])
<1>1. NULL \notin Frame /\ (IsSplit(t) => t \notin Frame) /\ (t = NULL => ~IsSplit(t))
  BY SessionAssumption DEF IsSplit, Atoms
<1>2. TextOf(ids)[t] = IF t \in Frame THEN <<Item("frame", ids[t])>>
                       ELSE IF ~IsSplit(t) THEN <<>>
                       ELSE <<Item("split", 0)>> \o TextOf(ids)[t.tl] \o TextOf(ids)[t.br]
                            \o <<Item("end", 0)>>
  BY TextOfDef
<1> QED
  BY <1>1, <1>2 DEF SplitText

LEMMA LeavesAre ==
  /\ \A t \in Trees : IsSplit(t) => Leaves(t) = Leaves(t.tl) \cup Leaves(t.br)
  /\ \A t \in Frame : Leaves(t) = {t} /\ t \in Trees
  /\ \A t \in Trees : Leaves(t) \subseteq Frame
  /\ Leaves(NULL) = {} /\ NULL \in Trees
<1>1. NULL \notin Frame /\ Frame \subseteq Trees
  BY SessionAssumption, AtomsAreTrees DEF Atoms
<1> QED
  BY <1>1, TipsDef, NoTips, TipsType, NullIsTree DEF Leaves, Atoms

LEMMA TextIds ==
  ASSUME NEW ids \in IdTable
  PROVE  \A t \in Trees : TextOf(ids)[t] \in Seq(Items) /\ IdsIn(TextOf(ids)[t]) = {ids[f] : f \in Leaves(t)}
<1> DEFINE P == {t \in Trees : TextOf(ids)[t] \in Seq(Items) /\ IdsIn(TextOf(ids)[t]) = {ids[f] : f \in Leaves(t)}}
<1>1. \A t \in Trees : ~IsSplit(t) => t \in P
  <2> SUFFICES ASSUME NEW t \in Trees, ~IsSplit(t) PROVE t \in P
    OBVIOUS
  <2>1. CASE t \in Frame
    <3>1. Item("frame", ids[t]) \in Items /\ Item("frame", ids[t]).k = "frame" /\ Item("frame", ids[t]).id = ids[t]
      BY <2>1, ItemKinds DEF IdTable
    <3>2. TextOf(ids)[t] = <<Item("frame", ids[t])>> /\ Leaves(t) = {t}
      BY <2>1, TextOfIs, LeavesAre
    <3>3. IdsIn(<<Item("frame", ids[t])>>) = {ids[t]} /\ <<Item("frame", ids[t])>> \in Seq(Items)
      BY <3>1, IdsOfItem, SeqsOfItems
    <3> QED
      BY <3>2, <3>3
  <2>2. CASE t = NULL
    BY <2>2, TextOfIs, LeavesAre, IdsOfItem, SeqsOfItems
  <2> QED
    BY <2>1, <2>2 DEF IsSplit, Atoms
<1>2. \A t \in Trees : IsSplit(t) /\ t.tl \in P /\ t.br \in P => t \in P
  <2> SUFFICES ASSUME NEW t \in Trees, IsSplit(t), t.tl \in P, t.br \in P PROVE t \in P
    OBVIOUS
  <2>1. TextOf(ids)[t] = SplitText(TextOf(ids)[t.tl], TextOf(ids)[t.br])
    BY TextOfIs
  <2>2. TextOf(ids)[t] \in Seq(Items)
    BY <2>1, SeqsOfItems
  <2>3. IdsIn(TextOf(ids)[t]) = {ids[f] : f \in Leaves(t.tl)} \cup {ids[f] : f \in Leaves(t.br)}
    <3>1. TextOf(ids)[t.tl] \in Seq(Items) /\ TextOf(ids)[t.br] \in Seq(Items)
      OBVIOUS
    <3>2. IdsIn(SplitText(TextOf(ids)[t.tl], TextOf(ids)[t.br])) = IdsIn(TextOf(ids)[t.tl]) \cup IdsIn(TextOf(ids)[t.br])
      BY <3>1, IdsOfSplit
    <3> QED
      BY <2>1, <3>2
  <2>4. Leaves(t) = Leaves(t.tl) \cup Leaves(t.br)
    BY LeavesAre
  <2> QED
    BY <2>2, <2>3, <2>4
<1>3. \A t \in Trees : t \in P
  <2> HIDE DEF P
  <2> QED
    BY <1>1, <1>2, TreeInduction
<1> QED
  BY <1>3

LEMMA TextIsWhole ==
  ASSUME NEW ids \in IdTable
  PROVE  \A t \in Trees : Proper(t) /\ (\A f \in Leaves(t) : ids[f] # 0) => TextOf(ids)[t] \in Texts
<1> DEFINE P == {t \in Trees : NULL \notin Tips[t] /\ (\A f \in Leaves(t) : ids[f] # 0) => TextOf(ids)[t] \in Texts}
<1>1. \A t \in Trees : ~IsSplit(t) => t \in P
  <2> SUFFICES ASSUME NEW t \in Trees, ~IsSplit(t), NULL \notin Tips[t], \A f \in Leaves(t) : ids[f] # 0
               PROVE  TextOf(ids)[t] \in Texts
    OBVIOUS
  <2>1. t \in Frame
    BY NoTips DEF IsSplit, Atoms
  <2>2. ids[t] \in 1 .. INT_MAX
    BY <2>1, LeavesAre, FrameIdsAssumption DEF IdTable
  <2> QED
    BY <2>1, <2>2, TextOfIs, TextsMade DEF TextsClosed
<1>2. \A t \in Trees : IsSplit(t) /\ t.tl \in P /\ t.br \in P => t \in P
  <2> SUFFICES ASSUME NEW t \in Trees, IsSplit(t), t.tl \in P, t.br \in P,
                      NULL \notin Tips[t], \A f \in Leaves(t) : ids[f] # 0
               PROVE  TextOf(ids)[t] \in Texts
    OBVIOUS
  <2>1. TextOf(ids)[t] = SplitText(TextOf(ids)[t.tl], TextOf(ids)[t.br])
    BY TextOfIs
  <2>2. Leaves(t) = Leaves(t.tl) \cup Leaves(t.br) /\ Tips[t] = Tips[t.tl] \cup Tips[t.br]
    BY LeavesAre, TipsDef
  <2>3. TextOf(ids)[t.tl] \in Texts /\ TextOf(ids)[t.br] \in Texts
    BY <2>2
  <2> QED
    BY <2>1, <2>3, TextsMade DEF TextsClosed
<1>3. \A t \in Trees : t \in P
  <2> HIDE DEF P
  <2> QED
    BY <1>1, <1>2, TreeInduction
<1> QED
  BY <1>3 DEF Proper

LEMMA TextNoTwice ==
  ASSUME NEW ids \in IdTable
  PROVE  \A t \in OneEach : (\A f, g \in Leaves(t) : ids[f] = ids[g] => f = g) => NoTwice(TextOf(ids)[t])
<1> DEFINE P == {t \in Trees : t \in OneEach /\ (\A f, g \in Leaves(t) : ids[f] = ids[g] => f = g)
                                 => NoTwice(TextOf(ids)[t])}
<1>1. \A t \in Trees : ~IsSplit(t) => t \in P
  <2> SUFFICES ASSUME NEW t \in Trees, ~IsSplit(t) PROVE NoTwice(TextOf(ids)[t])
    OBVIOUS
  <2>1. CASE t \in Frame
    <3>1. Item("frame", ids[t]) \in Items
      BY <2>1, ItemKinds DEF IdTable
    <3> QED
      BY <2>1, <3>1, TextOfIs, IdsOfItem
  <2>2. CASE t = NULL
    BY <2>2, TextOfIs, IdsOfItem
  <2> QED
    BY <2>1, <2>2 DEF IsSplit, Atoms
<1>2. \A t \in Trees : IsSplit(t) /\ t.tl \in P /\ t.br \in P => t \in P
  <2> SUFFICES ASSUME NEW t \in Trees, IsSplit(t), t.tl \in P, t.br \in P, t \in OneEach,
                      \A f, g \in Leaves(t) : ids[f] = ids[g] => f = g
               PROVE  NoTwice(TextOf(ids)[t])
    OBVIOUS
  <2>1. TextOf(ids)[t] = SplitText(TextOf(ids)[t.tl], TextOf(ids)[t.br])
    BY TextOfIs
  <2>2. Leaves(t) = Leaves(t.tl) \cup Leaves(t.br)
    BY LeavesAre
  <2>3. t.tl \in OneEach /\ t.br \in OneEach /\ Leaves(t.tl) \cap Leaves(t.br) = {}
    BY OneEachSplit
  <2>4. NoTwice(TextOf(ids)[t.tl]) /\ NoTwice(TextOf(ids)[t.br])
    BY <2>2, <2>3
  <2>5. /\ TextOf(ids)[t.tl] \in Seq(Items) /\ IdsIn(TextOf(ids)[t.tl]) = {ids[f] : f \in Leaves(t.tl)}
        /\ TextOf(ids)[t.br] \in Seq(Items) /\ IdsIn(TextOf(ids)[t.br]) = {ids[f] : f \in Leaves(t.br)}
    BY TextIds
  <2>6. IdsIn(TextOf(ids)[t.tl]) \cap IdsIn(TextOf(ids)[t.br]) = {}
    BY <2>2, <2>3, <2>5
  <2> QED
    BY <2>1, <2>4, <2>5, <2>6, IdsOfSplit
<1>3. \A t \in Trees : t \in P
  <2> HIDE DEF P
  <2> QED
    BY <1>1, <1>2, TreeInduction
<1> QED
  BY <1>3, OneEachMade

\* The text is about the ids of the frames of the tree only.
LEMMA TextSame ==
  ASSUME NEW ids, NEW new
  PROVE  \A t \in Trees : (\A f \in Leaves(t) : new[f] = ids[f]) => TextOf(new)[t] = TextOf(ids)[t]
<1> DEFINE P == {t \in Trees : (\A f \in Leaves(t) : new[f] = ids[f]) => TextOf(new)[t] = TextOf(ids)[t]}
<1>1. \A t \in Trees : ~IsSplit(t) => t \in P
  <2> SUFFICES ASSUME NEW t \in Trees, ~IsSplit(t), \A f \in Leaves(t) : new[f] = ids[f]
               PROVE  TextOf(new)[t] = TextOf(ids)[t]
    OBVIOUS
  <2>1. CASE t \in Frame
    BY <2>1, TextOfIs, LeavesAre
  <2>2. CASE t = NULL
    BY <2>2, TextOfIs
  <2> QED
    BY <2>1, <2>2 DEF IsSplit, Atoms
<1>2. \A t \in Trees : IsSplit(t) /\ t.tl \in P /\ t.br \in P => t \in P
  <2> SUFFICES ASSUME NEW t \in Trees, IsSplit(t), t.tl \in P, t.br \in P,
                      \A f \in Leaves(t) : new[f] = ids[f]
               PROVE  TextOf(new)[t] = TextOf(ids)[t]
    OBVIOUS
  <2>1. /\ TextOf(ids)[t] = SplitText(TextOf(ids)[t.tl], TextOf(ids)[t.br])
        /\ TextOf(new)[t] = SplitText(TextOf(new)[t.tl], TextOf(new)[t.br])
    BY TextOfIs
  <2>2. Leaves(t) = Leaves(t.tl) \cup Leaves(t.br)
    BY LeavesAre
  <2> QED
    BY <2>1, <2>2
<1>3. \A t \in Trees : t \in P
  <2> HIDE DEF P
  <2> QED
    BY <1>1, <1>2, TreeInduction
<1> QED
  BY <1>3

-----------------------------------------------------------------------------
(* The text of a sequence of workspaces. *)

LEMMA SeqInduction ==
  ASSUME NEW S, NEW P, <<>> \in P,
         \A q \in Seq(S), x \in S : q \in P => Append(q, x) \in P
  PROVE  \A q \in Seq(S) : q \in P
<1> SUFFICES ASSUME NEW q \in Seq(S) PROVE q \in P
  OBVIOUS
<1> DEFINE T == {k \in Nat : k <= Len(q) => SubSeq(q, 1, k) \in P}
<1>0. Len(q) \in Nat
  OBVIOUS
<1>1. 0 \in T
  <2>1. SubSeq(q, 1, 0) = <<>>
    OBVIOUS
  <2> QED
    BY <2>1
<1>2. ASSUME NEW k \in 0 .. Len(q), k \in T, k < Len(q) PROVE k + 1 \in T
  <2>1. SubSeq(q, 1, k) \in Seq(S) /\ q[k + 1] \in S
    BY <1>2
  <2>2. SubSeq(q, 1, k + 1) = Append(SubSeq(q, 1, k), q[k + 1])
    <3>1. k + 1 \in 1 .. Len(q) /\ 1 \in 1 .. Len(q) /\ k + 1 \in 1 .. Len(q) /\ (k + 1) - 1 = k
      BY <1>2
    <3>2. SubSeq(q, 1, k + 1) = SubSeq(q, 1, (k + 1) - 1) \o <<q[k + 1]>>
      BY <3>1, SubSeqRecursiveSecond
    <3>3. Append(SubSeq(q, 1, k), q[k + 1]) = SubSeq(q, 1, k) \o <<q[k + 1]>>
      BY <2>1, AppendIsConcat
    <3> QED
      BY <3>1, <3>2, <3>3
  <2>3. SubSeq(q, 1, k) \in P
    BY <1>2
  <2>4. SubSeq(q, 1, k + 1) \in P
    BY <2>1, <2>2, <2>3
  <2> QED
    BY <2>4
<1>3. \A k \in 0 .. Len(q) : k \in T
  <2> HIDE DEF T
  <2> QED
    BY <1>0, <1>1, <1>2, Upwards
<1>4. SubSeq(q, 1, Len(q)) = q
  BY SubSeqFull
<1>5. Len(q) \in 0 .. Len(q) /\ Len(q) <= Len(q)
  BY <1>0
<1>6. SubSeq(q, 1, Len(q)) \in P
  BY <1>3, <1>5
<1> QED
  BY <1>4, <1>6

LEMMA FlattenIs ==
  ASSUME NEW q, Len(q) \in Nat, Len(q) # 0
  PROVE  \E F : F = FlattenBody(q, Len(q), F) /\ FlattenSeq(q) = F[Len(q)]
<1> DEFINE F == CHOOSE f : f = FlattenBody(q, Len(q), f)
<1>1. F = FlattenBody(q, Len(q), F)
  <2>1. \E f : f = FlattenBody(q, Len(q), f)
    BY FlattenExists
  <2> QED
    BY <2>1, Zenon
<1>2. FlattenSeq(q) = IF Len(q) = 0 THEN q ELSE F[Len(q)]
  BY Zenon DEF FlattenSeq, FlattenBody
<1> HIDE DEF F
<1> QED
  BY <1>1, <1>2

LEMMA FlattenMore ==
  ASSUME NEW S, NEW q \in Seq(Seq(S)), NEW x \in Seq(S)
  PROVE  FlattenSeq(Append(q, x)) = FlattenSeq(q) \o x
<1> DEFINE n == Len(q)
           r == Append(q, x)
<1>0. /\ n \in Nat /\ Len(r) = n + 1 /\ r[n + 1] = x /\ \A i \in 1 .. n : r[i] = q[i]
      /\ n + 1 \in Nat /\ n + 1 # 0
  OBVIOUS
<1> HIDE DEF r
<1>1. PICK G : G = FlattenBody(r, n + 1, G) /\ FlattenSeq(r) = G[n + 1]
  BY <1>0, FlattenIs
<1>2. ASSUME NEW i \in 1 .. n + 1 PROVE G[i] = IF i = 1 THEN r[i] ELSE G[i - 1] \o r[i]
  BY <1>1 DEF FlattenBody
<1>3. CASE n = 0
  <2>1. q = <<>> /\ FlattenSeq(q) = <<>>
    <3>1. q = <<>>
      BY <1>3
    <3> QED
      BY <3>1, Zenon, <1>3 DEF FlattenSeq
  <2>2. FlattenSeq(r) = x
    BY <1>0, <1>1, <1>2, <1>3
  <2> QED
    BY <2>1, <2>2, ConcatEmptySeq DEF r
<1>4. CASE n # 0
  <2>1. PICK F : F = FlattenBody(q, n, F) /\ FlattenSeq(q) = F[n]
    BY <1>0, <1>4, FlattenIs
  <2>2. ASSUME NEW i \in 1 .. n PROVE F[i] = IF i = 1 THEN q[i] ELSE F[i - 1] \o q[i]
    BY <2>1 DEF FlattenBody
  <2> DEFINE T == {k \in Nat : k = 0 \/ (k <= n => G[k] = F[k])}
  <2> HIDE DEF n
  <2>3. 0 \in T
    OBVIOUS
  <2>4. ASSUME NEW k \in 0 .. n, k \in T, k < n PROVE k + 1 \in T
    <3>1. k + 1 \in 1 .. n /\ k + 1 \in 1 .. n + 1 /\ (k + 1) - 1 = k
      BY <1>0, <2>4
    <3>2. G[k + 1] = IF k + 1 = 1 THEN r[k + 1] ELSE G[k] \o r[k + 1]
      BY <1>2, <3>1
    <3>3. F[k + 1] = IF k + 1 = 1 THEN q[k + 1] ELSE F[k] \o q[k + 1]
      BY <2>2, <3>1
    <3>4. r[k + 1] = q[k + 1]
      BY <1>0, <3>1
    <3>5. G[k + 1] = F[k + 1]
      BY <2>4, <3>2, <3>3, <3>4
    <3> QED
      BY <3>5
  <2>5. n \in T
    <3> HIDE DEF T
    <3>1. \A k \in 0 .. n : k \in T
      BY <1>0, <2>3, <2>4, Upwards
    <3> QED
      BY <1>0, <3>1
  <2>6. G[n] = F[n]
    BY <1>0, <1>4, <2>5
  <2>7. G[n + 1] = G[n] \o r[n + 1]
    <3>1. n + 1 \in 1 .. n + 1 /\ n + 1 # 1 /\ (n + 1) - 1 = n
      BY <1>0, <1>4
    <3> QED
      BY <1>2, <3>1
  <2> QED
    BY <1>0, <1>1, <2>1, <2>6, <2>7 DEF r
<1> QED
  BY <1>3, <1>4

\* The text of workspaces W whose trees have the texts g.
LayoutOf(g, W) == FlattenSeq([i \in DOMAIN W |-> WorkspaceText(W[i].name, g[W[i].splitree])])

LEMMA WriteWorkspacesIs ==
  \A s : /\ WriteWorkspaces(s) = LayoutOf(TextOf(frame_id), ws[s])
         /\ WriteWorkspaces(s)' = LayoutOf(TextOf(frame_id'), ws'[s])
BY WriteObjIs DEF WriteWorkspaces, LayoutOf, WorkspaceText

LEMMA NoLayout == \A g : LayoutOf(g, <<>>) = <<>>
<1> SUFFICES ASSUME NEW g PROVE LayoutOf(g, <<>>) = <<>>
  OBVIOUS
<1> DEFINE q == [i \in DOMAIN <<>> |-> WorkspaceText(<<>>[i].name, g[<<>>[i].splitree])]
<1>1. q = <<>>
  OBVIOUS
<1>2. Len(q) = 0
  BY <1>1
<1> HIDE DEF q
<1>3. FlattenSeq(q) = <<>>
  BY <1>1, <1>2, Zenon DEF FlattenSeq
<1> QED
  BY <1>3 DEF LayoutOf, q

Writing(g) == g \in [Trees -> Seq(Items)]

LEMMA LayoutMore ==
  ASSUME NEW g, Writing(g), NEW W \in Seq(Workspaces), NEW w \in Workspaces
  PROVE  LayoutOf(g, Append(W, w)) = LayoutOf(g, W) \o WorkspaceText(w.name, g[w.splitree])
<1> DEFINE line(v) == WorkspaceText(v.name, g[v.splitree])
           V == Append(W, w)
           q == [i \in DOMAIN W |-> line(W[i])]
           r == [i \in DOMAIN V |-> line(V[i])]
<1>1. ASSUME NEW v \in Workspaces PROVE line(v) \in Seq(Items)
  <2>1. v.name \in Names /\ v.splitree \in Trees
    BY WorkspaceFields DEF Names
  <2> QED
    BY <2>1, SeqsOfItems DEF Writing
<1>2. /\ DOMAIN V = 1 .. Len(W) + 1 /\ DOMAIN W = 1 .. Len(W) /\ Len(W) \in Nat
      /\ \A i \in 1 .. Len(W) + 1 : V[i] = IF i = Len(W) + 1 THEN w ELSE W[i]
  BY AppendFacts
<1> HIDE DEF line, V
<1>3. \A i \in 1 .. Len(W) : line(W[i]) \in Seq(Items)
  BY <1>1
<1>4. q \in Seq(Seq(Items)) /\ Len(q) = Len(W) /\ \A i \in 1 .. Len(W) : q[i] = line(W[i])
  BY <1>2, <1>3
<1>5. line(w) \in Seq(Items)
  BY <1>1
<1>6. r = Append(q, line(w))
  <2> DEFINE a == Append(q, line(w))
  <2>1. /\ a \in Seq(Seq(Items)) /\ Len(a) = Len(W) + 1
        /\ \A i \in 1 .. Len(W) + 1 : a[i] = IF i = Len(W) + 1 THEN line(w) ELSE q[i]
    <3> HIDE DEF q
    <3> QED
      BY <1>4, <1>5, AppendFacts
  <2>2. ASSUME NEW i \in 1 .. Len(W) + 1 PROVE line(V[i]) = IF i = Len(W) + 1 THEN line(w) ELSE q[i]
    <3> HIDE DEF q, r
    <3>1. CASE i = Len(W) + 1
      BY <1>2, <3>1
    <3>2. CASE i # Len(W) + 1
      <4>1. i \in 1 .. Len(W)
        BY <1>2, <3>2
      <4> QED
        BY <1>2, <1>4, <3>2, <4>1
    <3> QED
      BY <3>1, <3>2
  <2>3. r = [i \in 1 .. Len(W) + 1 |-> line(V[i])]
    BY <1>2
  <2> HIDE DEF q, r, a
  <2>4. \A i \in 1 .. Len(W) + 1 : r[i] = a[i] /\ a[i] \in Seq(Items)
    <3> SUFFICES ASSUME NEW i \in 1 .. Len(W) + 1 PROVE r[i] = a[i] /\ a[i] \in Seq(Items)
      OBVIOUS
    <3>1. r[i] = line(V[i])
      BY <2>3
    <3>2. a[i] = IF i = Len(W) + 1 THEN line(w) ELSE q[i]
      BY <2>1
    <3>3. line(V[i]) = a[i]
      BY <2>2, <3>2
    <3>4. i # Len(W) + 1 => i \in 1 .. Len(W)
      BY <1>2
    <3>5. i # Len(W) + 1 => q[i] \in Seq(Items)
      BY <1>3, <1>4, <3>4
    <3> QED
      BY <1>5, <3>1, <3>2, <3>3, <3>5
  <2>5. r \in Seq(Seq(Items)) /\ Len(r) = Len(W) + 1
    <3> DEFINE n == Len(W) + 1
               S == Seq(Items)
    <3>1. n \in Nat /\ r = [i \in 1 .. n |-> line(V[i])] /\ \A i \in 1 .. n : r[i] \in S
      BY <1>2, <2>3, <2>4
    <3> HIDE DEF n, S
    <3>2. r \in [1 .. n -> S]
      BY <3>1
    <3>3. r \in Seq(S) /\ Len(r) = n
      BY <3>1, <3>2
    <3> QED
      BY <3>3 DEF n, S
  <2>6. r = a
    BY <2>1, <2>4, <2>5, SeqEqual
  <2> QED
    BY <2>6 DEF a
<1> HIDE DEF q, r
<1>7. FlattenSeq(Append(q, line(w))) = FlattenSeq(q) \o line(w)
  BY <1>4, <1>5, FlattenMore
<1>8. LayoutOf(g, W) = FlattenSeq(q) /\ LayoutOf(g, Append(W, w)) = FlattenSeq(r)
  BY DEF LayoutOf, q, r, line, V
<1> QED
  BY <1>6, <1>7, <1>8 DEF line

\* How each text begins.
LEMMA TextsBegin ==
  /\ \A k \in Names, a \in Seq(Items) :
       /\ WorkspaceText(k, a) = <<Item(k, 0)>> \o (a \o <<Item("end", 0)>>)
       /\ WorkspaceText(k, a) # <<>>
  /\ \A a, b \in Seq(Items) : SplitText(a, b) = <<Item("split", 0)>> \o (a \o (b \o <<Item("end", 0)>>))
<1>1. \A k \in Names \cup {"split", "end"} : Item(k, 0) \in Items /\ <<Item(k, 0)>> \in Seq(Items)
  BY ItemKinds, SeqsOfItems DEF Names
<1>2. ASSUME NEW k \in Names, NEW a \in Seq(Items)
      PROVE  /\ WorkspaceText(k, a) = <<Item(k, 0)>> \o (a \o <<Item("end", 0)>>)
             /\ WorkspaceText(k, a) # <<>>
  <2> DEFINE x == <<Item(k, 0)>>
             y == <<Item("end", 0)>>
  <2>1. x \in Seq(Items) /\ y \in Seq(Items) /\ Item(k, 0) \in Items
    BY <1>1
  <2>2. WorkspaceText(k, a) = (x \o a) \o y
    BY DEF WorkspaceText
  <2> HIDE DEF x, y
  <2>3. (x \o a) \o y = x \o (a \o y) /\ a \o y \in Seq(Items)
    BY <2>1, TextBegins, SeqsOfItems
  <2>4. x \o (a \o y) # <<>>
    BY <2>1, <2>3, TextBegins DEF x
  <2> QED
    BY <2>2, <2>3, <2>4 DEF x, y
<1>3. ASSUME NEW a \in Seq(Items), NEW b \in Seq(Items)
      PROVE  SplitText(a, b) = <<Item("split", 0)>> \o (a \o (b \o <<Item("end", 0)>>))
  <2> DEFINE x == <<Item("split", 0)>>
             y == <<Item("end", 0)>>
  <2>1. x \in Seq(Items) /\ y \in Seq(Items)
    BY <1>1
  <2>2. SplitText(a, b) = ((x \o a) \o b) \o y
    BY DEF SplitText
  <2> HIDE DEF x, y
  <2>3. x \o a \in Seq(Items) /\ b \o y \in Seq(Items) /\ a \o (b \o y) \in Seq(Items)
    BY <2>1, SeqsOfItems
  <2>4. ((x \o a) \o b) \o y = (x \o a) \o (b \o y) /\ (x \o a) \o (b \o y) = x \o (a \o (b \o y))
    BY <2>1, <2>3, TextBegins
  <2> QED
    BY <2>2, <2>4 DEF x, y
<1> QED
  BY <1>2, <1>3

\* The trees of a screen.
TreesIn(W) == {W[i].splitree : i \in DOMAIN W}

LEMMA TreesInMore ==
  /\ TreesIn(<<>>) = {}
  /\ \A W \in Seq(Workspaces), w \in Workspaces : TreesIn(Append(W, w)) = TreesIn(W) \cup {w.splitree}
<1>1. TreesIn(<<>>) = {}
  BY DEF TreesIn
<1>2. ASSUME NEW W \in Seq(Workspaces), NEW w \in Workspaces
      PROVE  TreesIn(Append(W, w)) = TreesIn(W) \cup {w.splitree}
  <2> DEFINE V == Append(W, w)
  <2>1. /\ DOMAIN V = 1 .. Len(W) + 1 /\ DOMAIN W = 1 .. Len(W) /\ Len(W) \in Nat
        /\ \A i \in 1 .. Len(W) + 1 : V[i] = IF i = Len(W) + 1 THEN w ELSE W[i]
    BY AppendFacts
  <2> HIDE DEF V
  <2>2. ASSUME NEW i \in DOMAIN V PROVE V[i].splitree \in TreesIn(W) \cup {w.splitree}
    BY <2>1 DEF TreesIn
  <2>3. ASSUME NEW i \in DOMAIN W PROVE W[i].splitree \in TreesIn(V)
    <3>1. i \in DOMAIN V /\ V[i] = W[i]
      BY <2>1
    <3> QED
      BY <3>1 DEF TreesIn
  <2>4. w.splitree \in TreesIn(V)
    <3>1. Len(W) + 1 \in DOMAIN V /\ V[Len(W) + 1] = w
      BY <2>1
    <3> QED
      BY <3>1 DEF TreesIn
  <2>5. TreesIn(V) = TreesIn(W) \cup {w.splitree}
    BY <2>2, <2>3, <2>4 DEF TreesIn
  <2> QED
    BY <2>5 DEF V
<1> QED
  BY <1>1, <1>2

LEMMA LayoutIds ==
  ASSUME NEW g, Writing(g)
  PROVE  \A W \in Seq(Workspaces) : /\ LayoutOf(g, W) \in Seq(Items)
                                    /\ IdsIn(LayoutOf(g, W)) = UNION {IdsIn(g[t]) : t \in TreesIn(W)}
<1> DEFINE P == {W \in Seq(Workspaces) : /\ LayoutOf(g, W) \in Seq(Items)
                                         /\ IdsIn(LayoutOf(g, W)) = UNION {IdsIn(g[t]) : t \in TreesIn(W)}}
<1>1. <<>> \in P
  <2>1. UNION {IdsIn(g[t]) : t \in TreesIn(<<>>)} = {}
    BY TreesInMore, Zenon
  <2>2. <<>> \in Seq(Workspaces)
    OBVIOUS
  <2> QED
    BY <2>1, <2>2, NoLayout, IdsOfItem, SeqsOfItems
<1>2. ASSUME NEW W \in Seq(Workspaces), NEW w \in Workspaces, W \in P PROVE Append(W, w) \in P
  <2> DEFINE a == g[w.splitree]
             l == LayoutOf(g, W)
             x == WorkspaceText(w.name, a)
  <2>1. w.name \in Names /\ a \in Seq(Items) /\ Append(W, w) \in Seq(Workspaces)
    BY WorkspaceFields, AppendFacts DEF Names, Writing
  <2>2. l \in Seq(Items) /\ IdsIn(l) = UNION {IdsIn(g[t]) : t \in TreesIn(W)}
    BY <1>2
  <2>3. x \in Seq(Items) /\ IdsIn(x) = IdsIn(a)
    <3> HIDE DEF a
    <3> QED
      BY <2>1, SeqsOfItems, IdsOfWorkspace
  <2>4. LayoutOf(g, Append(W, w)) = l \o x
    BY LayoutMore
  <2>5. l \o x \in Seq(Items) /\ IdsIn(l \o x) = IdsIn(l) \cup IdsIn(x)
    <3> HIDE DEF l, x
    <3> QED
      BY <2>2, <2>3, IdsOfConcat
  <2>6. TreesIn(Append(W, w)) = TreesIn(W) \cup {w.splitree}
    BY TreesInMore
  <2>7. UNION {IdsIn(g[t]) : t \in TreesIn(Append(W, w))} = (UNION {IdsIn(g[t]) : t \in TreesIn(W)}) \cup IdsIn(a)
    BY <2>6
  <2> DEFINE V == Append(W, w)
  <2>8. LayoutOf(g, V) \in Seq(Items) /\ IdsIn(LayoutOf(g, V)) = IdsIn(l) \cup IdsIn(a)
    BY <2>3, <2>4, <2>5, Zenon
  <2>9. IdsIn(LayoutOf(g, V)) = UNION {IdsIn(g[t]) : t \in TreesIn(V)}
    <3> HIDE DEF l, a, V
    <3> QED
      BY <2>2, <2>7, <2>8 DEF V
  <2> HIDE DEF l, x, a, V
  <2>10. V \in P
    BY <2>1, <2>8, <2>9, Zenon DEF V
  <2> QED
    BY <2>10 DEF V
<1> HIDE DEF P
<1>3. \A W \in Seq(Workspaces) : W \in P
  BY <1>1, <1>2, SeqInduction, Zenon
<1> QED
  BY <1>3 DEF P

LEMMA LayoutWhole ==
  ASSUME NEW g, Writing(g)
  PROVE  \A W \in Seq(Workspaces) : (\A t \in TreesIn(W) : g[t] \in Texts) => LayoutOf(g, W) \in Layouts
<1> DEFINE P == {W \in Seq(Workspaces) : (\A t \in TreesIn(W) : g[t] \in Texts) => LayoutOf(g, W) \in Layouts}
<1>1. <<>> \in P
  <2>1. <<>> \in Seq(Workspaces)
    OBVIOUS
  <2> QED
    BY <2>1, NoLayout, LayoutsMade DEF LayoutsClosed
<1>2. ASSUME NEW W \in Seq(Workspaces), NEW w \in Workspaces, W \in P PROVE Append(W, w) \in P
  <2>1. w.name \in Names /\ Append(W, w) \in Seq(Workspaces)
    BY WorkspaceFields, AppendFacts DEF Names
  <2>2. SUFFICES ASSUME \A t \in TreesIn(Append(W, w)) : g[t] \in Texts PROVE LayoutOf(g, Append(W, w)) \in Layouts
    BY <2>1
  <2>3. (\A t \in TreesIn(W) : g[t] \in Texts) /\ g[w.splitree] \in Texts
    BY <2>2, TreesInMore
  <2>4. LayoutOf(g, W) \in Layouts
    BY <1>2, <2>3
  <2> QED
    BY <2>1, <2>3, <2>4, LayoutMore, LayoutsGrow
<1> HIDE DEF P
<1>3. \A W \in Seq(Workspaces) : W \in P
  BY <1>1, <1>2, SeqInduction, Zenon
<1> QED
  BY <1>3 DEF P

\* No id is in the text of two trees.
Separate(g, W) == \A i, j \in DOMAIN W : i # j => IdsIn(g[W[i].splitree]) \cap IdsIn(g[W[j].splitree]) = {}

LEMMA LayoutNoTwice ==
  ASSUME NEW g, Writing(g)
  PROVE  \A W \in Seq(Workspaces) : (\A t \in TreesIn(W) : NoTwice(g[t])) /\ Separate(g, W) => NoTwice(LayoutOf(g, W))
<1> DEFINE P == {W \in Seq(Workspaces) : (\A t \in TreesIn(W) : NoTwice(g[t])) /\ Separate(g, W) => NoTwice(LayoutOf(g, W))}
<1>1. <<>> \in P
  <2>1. <<>> \in Seq(Workspaces)
    OBVIOUS
  <2> QED
    BY <2>1, NoLayout, IdsOfItem
<1>2. ASSUME NEW W \in Seq(Workspaces), NEW w \in Workspaces, W \in P PROVE Append(W, w) \in P
  <2> DEFINE a == g[w.splitree]
             l == LayoutOf(g, W)
             x == WorkspaceText(w.name, a)
             V == Append(W, w)
  <2>1. w.name \in Names /\ a \in Seq(Items) /\ V \in Seq(Workspaces)
    BY WorkspaceFields, AppendFacts DEF Names, Writing
  <2>2. SUFFICES ASSUME \A t \in TreesIn(V) : NoTwice(g[t]), Separate(g, V) PROVE NoTwice(LayoutOf(g, V))
    BY <2>1
  <2>3. (\A t \in TreesIn(W) : NoTwice(g[t])) /\ NoTwice(a)
    BY <2>2, TreesInMore
  <2>4. /\ DOMAIN V = 1 .. Len(W) + 1 /\ DOMAIN W = 1 .. Len(W) /\ Len(W) \in Nat
        /\ \A i \in 1 .. Len(W) + 1 : V[i] = IF i = Len(W) + 1 THEN w ELSE W[i]
    BY AppendFacts
  <2> HIDE DEF V
  <2>5. Separate(g, W)
    <3> SUFFICES ASSUME NEW i \in DOMAIN W, NEW j \in DOMAIN W, i # j
                 PROVE  IdsIn(g[W[i].splitree]) \cap IdsIn(g[W[j].splitree]) = {}
      BY DEF Separate
    <3>1. i \in DOMAIN V /\ j \in DOMAIN V /\ V[i] = W[i] /\ V[j] = W[j]
      BY <2>4
    <3> QED
      BY <2>2, <3>1, Zenon DEF Separate
  <2>6. NoTwice(l)
    BY <1>2, <2>3, <2>5
  <2>7. IdsIn(l) \cap IdsIn(a) = {}
    <3>1. IdsIn(l) = UNION {IdsIn(g[t]) : t \in TreesIn(W)}
      BY LayoutIds
    <3>2. ASSUME NEW t \in TreesIn(W) PROVE IdsIn(g[t]) \cap IdsIn(a) = {}
      <4>1. PICK i \in DOMAIN W : t = W[i].splitree
        BY DEF TreesIn
      <4>2. i \in DOMAIN V /\ V[i] = W[i] /\ Len(W) + 1 \in DOMAIN V /\ V[Len(W) + 1] = w /\ i # Len(W) + 1
        BY <2>4
      <4> QED
        BY <2>2, <4>1, <4>2, Zenon DEF Separate
    <3> HIDE DEF a, l
    <3> QED
      BY <3>1, <3>2
  <2>8. l \in Seq(Items)
    BY LayoutIds
  <2>9. x \in Seq(Items) /\ IdsIn(x) = IdsIn(a) /\ NoTwice(x)
    <3> HIDE DEF a
    <3> QED
      BY <2>1, <2>3, SeqsOfItems, IdsOfWorkspace
  <2>10. LayoutOf(g, V) = l \o x
    BY LayoutMore DEF V
  <2> HIDE DEF a, l, x
  <2> QED
    BY <2>6, <2>7, <2>8, <2>9, <2>10, IdsOfConcat
<1> HIDE DEF P
<1>3. \A W \in Seq(Workspaces) : W \in P
  BY <1>1, <1>2, SeqInduction, Zenon
<1> QED
  BY <1>3 DEF P

\* Only where there is a workspace is there text.
LEMMA LayoutEmpty ==
  ASSUME NEW g, Writing(g), NEW W \in Seq(Workspaces)
  PROVE  LayoutOf(g, W) = <<>> <=> W = <<>>
<1>1. W = <<>> => LayoutOf(g, W) = <<>>
  BY NoLayout
<1>2. ASSUME W # <<>> PROVE LayoutOf(g, W) # <<>>
  <2> DEFINE V == SubSeq(W, 1, Len(W) - 1)
             w == W[Len(W)]
  <2>1. V \in Seq(Workspaces) /\ w \in Workspaces /\ W = Append(V, w)
    <3>1. V \in Seq(Workspaces) /\ w \in Workspaces /\ Len(V) = Len(W) - 1 /\ Len(W) \in Nat \ {0}
          /\ \A i \in 1 .. Len(V) : V[i] = W[i]
      <4>1. Len(W) \in Nat \ {0} /\ Len(W) \in DOMAIN W /\ DOMAIN W = 1 .. Len(W)
        BY <1>2
      <4>2. V \in Seq(Workspaces) /\ LeftOut(W, Len(W), V)
        BY <1>2, FrontLeaves
      <4> HIDE DEF V
      <4> QED
        BY <4>1, <4>2 DEF LeftOut
    <3> HIDE DEF V, w
    <3>2. /\ Append(V, w) \in Seq(Workspaces) /\ Len(Append(V, w)) = Len(W)
          /\ \A i \in 1 .. Len(W) : Append(V, w)[i] = W[i]
      BY <3>1, AppendFacts DEF w
    <3> QED
      BY <3>1, <3>2, SeqEqual
  <2>2. w.name \in Names /\ g[w.splitree] \in Seq(Items)
    BY <2>1, WorkspaceFields DEF Names, Writing
  <2> HIDE DEF V, w
  <2> DEFINE a == g[w.splitree]
             l == LayoutOf(g, V)
  <2>3. LayoutOf(g, W) = l \o WorkspaceText(w.name, a)
    BY <2>1, LayoutMore
  <2>4. l \in Seq(Items)
    BY <2>1, LayoutIds
  <2>5. WorkspaceText(w.name, a) \in Seq(Items) /\ WorkspaceText(w.name, a) # <<>>
    BY <2>2, SeqsOfItems, TextsBegin DEF a
  <2> HIDE DEF l, a
  <2> DEFINE x == WorkspaceText(w.name, a)
  <2>6. l \o x # <<>>
    <3> HIDE DEF x
    <3>1. x \in Seq(Items) /\ x # <<>>
      BY <2>5 DEF x
    <3>2. Len(l \o x) = Len(l) + Len(x) /\ Len(x) > 0 /\ Len(l) \in Nat
      BY <2>4, <3>1
    <3> QED
      BY <3>2
  <2> QED
    BY <2>3, <2>6
<1> QED
  BY <1>1, <1>2

LEMMA LayoutSame ==
  ASSUME NEW g, NEW h, NEW V, NEW W, DOMAIN V = DOMAIN W,
         \A i \in DOMAIN W : V[i].name = W[i].name /\ h[V[i].splitree] = g[W[i].splitree]
  PROVE  LayoutOf(h, V) = LayoutOf(g, W)
<1>1. [i \in DOMAIN V |-> WorkspaceText(V[i].name, h[V[i].splitree])]
       = [i \in DOMAIN W |-> WorkspaceText(W[i].name, g[W[i].splitree])]
  BY Zenon
<1> QED
  BY <1>1, Zenon DEF LayoutOf

-----------------------------------------------------------------------------
(* A file while it is read: the rest of it closes the sections that are open, and what   *)
(* was read wrote them. *)

EndLine == <<Item("end", 0)>>

\* What may come before the end of a section with k sides missing.
TwoTexts == {x \in Seq(Items) : \E a, b \in Texts : x = a \o b}
Rows(k) == IF k = 0 THEN {<<>>} ELSE IF k = 1 THEN Texts ELSE IF k = 2 THEN TwoTexts ELSE {}

LEMMA RowsAre ==
  /\ Rows(0) = {<<>>} /\ Rows(1) = Texts /\ Rows(2) = TwoTexts
  /\ \A k : k \notin {0, 1, 2} => Rows(k) = {}
BY DEF Rows

\* x is the rest of a section with k sides missing, and y is what follows it.
Closing(k, x, y) == \E a \in Rows(k) : x = a \o (EndLine \o y)

LEMMA RowsType ==
  /\ \A k : Rows(k) \subseteq Seq(Items)
  /\ EndLine \in Seq(Items) /\ Texts \subseteq Seq(Items) /\ Layouts \subseteq Seq(Items)
<1>1. EndLine \in Seq(Items) /\ Texts \subseteq Seq(Items) /\ Layouts \subseteq Seq(Items)
  BY ItemKinds, SeqsOfItems, TextsMade, LayoutsMade DEF EndLine
<1>2. TwoTexts \subseteq Seq(Items) /\ {<<>>} \subseteq Seq(Items)
  BY SeqsOfItems DEF TwoTexts
<1>3. ASSUME NEW k PROVE Rows(k) \subseteq Seq(Items)
  <2> USE RowsAre
  <2>1. CASE k = 0
    BY <1>2, <2>1, Zenon
  <2>2. CASE k = 1
    BY <1>1, <2>2, Zenon
  <2>3. CASE k = 2
    BY <1>2, <2>3, Zenon
  <2>4. CASE k \notin {0, 1, 2}
    BY <2>4, Zenon
  <2> QED
    BY <2>1, <2>2, <2>3, <2>4
<1> QED
  BY <1>1, <1>3

LEMMA ClosingType ==
  ASSUME NEW k, NEW x, NEW y \in Seq(Items), Closing(k, x, y)
  PROVE  x \in Seq(Items) /\ x # <<>> /\ k \in 0 .. 2
<1>1. PICK a \in Rows(k) : x = a \o (EndLine \o y)
  BY DEF Closing
<1>2. a \in Seq(Items) /\ EndLine \in Seq(Items)
  BY RowsType
<1>3. EndLine \o y \in Seq(Items) /\ EndLine \o y # <<>>
  BY ItemKinds, TextBegins DEF EndLine
<1> DEFINE z == EndLine \o y
<1> HIDE DEF z
<1>4. a \o z \in Seq(Items) /\ Len(a \o z) = Len(a) + Len(z) /\ Len(z) > 0 /\ Len(a) \in Nat
  <2>1. z \in Seq(Items) /\ z # <<>>
    BY <1>3 DEF z
  <2> QED
    BY <1>2, <2>1
<1>5. x \in Seq(Items) /\ x # <<>>
  BY <1>1, <1>4 DEF z
<1>6. k \in 0 .. 2
  <2>1. k \in {0, 1, 2}
    BY <1>1, RowsAre, Zenon
  <2> QED
    BY <2>1
<1> QED
  BY <1>5, <1>6

LEMMA ClosingBegins ==
  ASSUME NEW k, NEW x, NEW y \in Seq(Items), Closing(k, x, y)
  PROVE  /\ k = 0 => Head(x) = Item("end", 0) /\ Tail(x) = y
         /\ k # 0 => \E t \in Texts, q \in Seq(Items) : x = t \o q /\ Closing(k - 1, q, y)
<1>1. PICK a \in Rows(k) : x = a \o (EndLine \o y)
  BY DEF Closing
<1>2. k \in 0 .. 2
  BY ClosingType
<1> DEFINE z == EndLine \o y
<1>3. z \in Seq(Items) /\ Head(z) = Item("end", 0) /\ Tail(z) = y
  BY ItemKinds, TextBegins DEF EndLine
<1>4. x = a \o z
  BY <1>1
<1> HIDE DEF z
<1>5. ASSUME k = 0 PROVE Head(x) = Item("end", 0) /\ Tail(x) = y
  <2>1. a = <<>>
    BY <1>5, RowsAre, Zenon
  <2>2. x = z
    BY <1>3, <1>4, <2>1, TextBegins
  <2> QED
    BY <1>3, <2>2
<1>6. ASSUME k = 1 PROVE \E t \in Texts, q \in Seq(Items) : x = t \o q /\ Closing(k - 1, q, y)
  <2>1. a \in Texts
    BY <1>6, RowsAre, Zenon
  <2>2. Closing(0, z, y)
    <3>1. <<>> \in Rows(0) /\ z = <<>> \o z
      BY <1>3, TextBegins, RowsAre
    <3> QED
      BY <3>1, Zenon DEF Closing, z
  <2> QED
    BY <1>3, <1>4, <1>6, <2>1, <2>2
<1>7. ASSUME k = 2 PROVE \E t \in Texts, q \in Seq(Items) : x = t \o q /\ Closing(k - 1, q, y)
  <2>1. a \in TwoTexts
    BY <1>7, RowsAre, Zenon
  <2>2. PICK b \in Texts, c \in Texts : a = b \o c
    BY <2>1 DEF TwoTexts
  <2>3. b \in Seq(Items) /\ c \in Seq(Items)
    BY RowsType
  <2>4. x = b \o (c \o z) /\ c \o z \in Seq(Items)
    <3>1. (b \o c) \o z = b \o (c \o z)
      BY <1>3, <2>3, TextBegins
    <3>2. c \o z \in Seq(Items)
      BY <1>3, <2>3, SeqsOfItems
    <3> QED
      BY <1>4, <2>2, <3>1, <3>2, Zenon
  <2>5. c \in Rows(1)
    BY RowsAre
  <2>6. Closing(1, c \o z, y)
    BY <2>5 DEF Closing, z
  <2>7. k - 1 = 1
    BY <1>7
  <2> QED
    BY <2>4, <2>6, <2>7, Zenon
<1> QED
  BY <1>2, <1>5, <1>6, <1>7

\* What a text begins with, and what is left of it then.
LEMMA TextHead ==
  ASSUME NEW t \in Texts, NEW q \in Seq(Items)
  PROVE  /\ t \o q \in Seq(Items) /\ t \o q # <<>>
         /\ \/ \E id \in 1 .. INT_MAX : /\ t = <<Item("frame", id)>>
                                        /\ Head(t \o q) = Item("frame", id) /\ Tail(t \o q) = q
            \/ Head(t \o q) = Item("split", 0) /\ Closing(2, Tail(t \o q), q)
<1>1. CASE \E id \in 1 .. INT_MAX : t = <<Item("frame", id)>>
  <2>1. PICK id \in 1 .. INT_MAX : t = <<Item("frame", id)>>
    BY <1>1
  <2>2. Item("frame", id) \in Items
    BY ItemKinds
  <2> QED
    BY <2>1, <2>2, TextBegins
<1>2. CASE \E a, b \in Texts : t = SplitText(a, b)
  <2>1. PICK a \in Texts, b \in Texts : t = SplitText(a, b)
    BY <1>2
  <2>2. a \in Seq(Items) /\ b \in Seq(Items) /\ EndLine \in Seq(Items) /\ Item("split", 0) \in Items
    BY RowsType, ItemKinds
  <2>3. t = <<Item("split", 0)>> \o (a \o (b \o EndLine))
    BY <2>1, <2>2, TextsBegin DEF EndLine
  <2> DEFINE y == EndLine \o q
             x == <<Item("split", 0)>>
             u == a \o (b \o EndLine)
  <2>4. u \in Seq(Items) /\ y \in Seq(Items) /\ x \in Seq(Items) /\ b \o EndLine \in Seq(Items)
    BY <2>2, SeqsOfItems
  <2>5. t \o q = x \o (u \o q) /\ u \o q \in Seq(Items)
    <3> HIDE DEF x, u
    <3> QED
      BY <2>3, <2>4, TextBegins, SeqsOfItems DEF x, u
  <2>6. u \o q = (a \o b) \o y
    <3> DEFINE v == b \o EndLine
    <3>1. (b \o EndLine) \o q = b \o (EndLine \o q)
      BY <2>2, TextBegins
    <3>2. v \in Seq(Items)
      BY <2>4
    <3> HIDE DEF v
    <3>3. (a \o v) \o q = a \o (v \o q)
      BY <2>2, <3>2, TextBegins
    <3>4. (a \o b) \o y = a \o (b \o y)
      <4> HIDE DEF y
      <4> QED
        BY <2>2, <2>4, TextBegins
    <3> QED
      BY <3>1, <3>3, <3>4, Zenon DEF v
  <2> HIDE DEF u
  <2>7. /\ t \o q \in Seq(Items) /\ t \o q # <<>> /\ Head(t \o q) = Item("split", 0)
        /\ Tail(t \o q) = u \o q
    <3> DEFINE v == u \o q
               s == Item("split", 0)
    <3>1. v \in Seq(Items) /\ s \in Items /\ t \o q = <<s>> \o v
      BY <2>2, <2>5
    <3> HIDE DEF v, s
    <3>2. <<s>> \o v \in Seq(Items) /\ <<s>> \o v # <<>> /\ Head(<<s>> \o v) = s /\ Tail(<<s>> \o v) = v
      BY <3>1, TextBegins
    <3> QED
      BY <3>1, <3>2, Zenon DEF v, s
  <2>8. a \o b \in Rows(2)
    BY <2>2, SeqsOfItems, RowsAre DEF TwoTexts
  <2>9. Closing(2, u \o q, q)
    BY <2>6, <2>8 DEF Closing
  <2> QED
    BY <2>7, <2>9
<1> QED
  BY <1>1, <1>2, TextsAre

LEMMA LayoutHead ==
  ASSUME NEW x \in Layouts, x # <<>>
  PROVE  \E k \in Names, y \in Layouts : Head(x) = Item(k, 0) /\ Closing(1, Tail(x), y)
<1>1. PICK k \in Names, a \in Texts, l \in Layouts : x = WorkspaceText(k, a) \o l
  BY LayoutsAre
<1>2. a \in Seq(Items) /\ l \in Seq(Items) /\ EndLine \in Seq(Items) /\ Item(k, 0) \in Items
  BY RowsType, ItemKinds DEF Names
<1> DEFINE z == <<Item(k, 0)>>
           u == a \o EndLine
<1>3. WorkspaceText(k, a) = z \o u
  BY <1>2, TextsBegin DEF EndLine
<1>4. z \in Seq(Items) /\ u \in Seq(Items)
  BY <1>2, SeqsOfItems
<1>5. x = z \o (u \o l) /\ u \o l \in Seq(Items)
  <2> HIDE DEF z, u
  <2>1. (z \o u) \o l = z \o (u \o l)
    BY <1>2, <1>4, TextBegins
  <2>2. u \o l \in Seq(Items)
    BY <1>2, <1>4, SeqsOfItems
  <2> QED
    BY <1>1, <1>3, <2>1, <2>2, Zenon
<1>6. Head(x) = Item(k, 0) /\ Tail(x) = u \o l
  <2> HIDE DEF u
  <2> QED
    BY <1>2, <1>5, TextBegins
<1>7. u \o l = a \o (EndLine \o l)
  BY <1>2, TextBegins
<1>8. a \in Rows(1)
  BY RowsAre
<1> QED
  BY <1>6, <1>7, <1>8 DEF Closing

\* The sides that section d misses, and those of them that are still to be read.
Missing(open, d) ==
  IF d = 1 THEN IF open[1].tl = NULL THEN 1 ELSE 0
  ELSE IF open[d].tl = NULL THEN 2 ELSE IF open[d].br = NULL THEN 1 ELSE 0
Needs(open, d) == IF d < Len(open) THEN Missing(open, d) - 1 ELSE Missing(open, d)

\* The rest of the text closes the sections that are open: R[d] is what remains of it when
\* section d + 1 is closed.
Going(open, R, rest) ==
  /\ R \in [0 .. Len(open) -> Seq(Items)] /\ R[0] \in Layouts /\ R[Len(open)] = rest
  /\ \A d \in 1 .. Len(open) : Closing(Needs(open, d), R[d], R[d - 1])

\* What has been read: H[d] ends where section d + 1 begins.
Opening(g, k, o) == <<Item(k, 0)>> \o (g[o.tl] \o g[o.br])
Came(g, base, name, open, H, text) ==
  /\ H \in [0 .. Len(open) -> Seq(Items)] /\ H[0] = base /\ H[Len(open)] = text
  /\ \A d \in 1 .. Len(open) : H[d] = H[d - 1] \o Opening(g, IF d = 1 THEN name ELSE "split", open[d])

LEMMA OpenedIs ==
  ASSUME NEW open \in Seq(OpenTrees)
  PROVE  LET more == Append(open, Node) IN
         /\ Len(open) \in Nat /\ more \in Seq(OpenTrees) /\ Len(more) = Len(open) + 1
         /\ \A d \in 1 .. Len(open) : more[d] = open[d] /\ Missing(more, d) = Missing(open, d)
         /\ more[Len(open) + 1] = Node
         /\ Missing(more, Len(open) + 1) = IF open = <<>> THEN 1 ELSE 2
<1> DEFINE more == Append(open, Node)
<1>1. Node \in OpenTrees /\ Node.tl = NULL /\ Node.br = NULL
  BY NullIsTree DEF Node, OpenTrees
<1>2. /\ Len(open) \in Nat /\ more \in Seq(OpenTrees) /\ Len(more) = Len(open) + 1
      /\ \A d \in 1 .. Len(open) + 1 : more[d] = IF d = Len(open) + 1 THEN Node ELSE open[d]
      /\ (open = <<>> <=> Len(open) = 0)
  BY <1>1, AppendFacts
<1> HIDE DEF more
<1>3. ASSUME NEW d \in 1 .. Len(open) PROVE more[d] = open[d] /\ Missing(more, d) = Missing(open, d)
  <2>1. more[d] = open[d]
    BY <1>2
  <2>2. d = 1 => more[1] = open[1]
    BY <2>1
  <2> QED
    BY <2>1, <2>2 DEF Missing
<1>4. more[Len(open) + 1] = Node
  BY <1>2
<1>5. Missing(more, Len(open) + 1) = IF open = <<>> THEN 1 ELSE 2
  <2>1. CASE open = <<>>
    <3>1. Len(open) + 1 = 1 /\ more[1] = Node
      BY <1>2, <1>4, <2>1
    <3> QED
      BY <1>1, <2>1, <3>1 DEF Missing
  <2>2. CASE open # <<>>
    <3>1. Len(open) + 1 # 1
      BY <1>2, <2>2
    <3> QED
      BY <1>1, <1>4, <2>2, <3>1 DEF Missing
  <2> QED
    BY <2>1, <2>2
<1> QED
  BY <1>2, <1>3, <1>4, <1>5 DEF more

\* What is put where the last section misses a side.
LEMMA PutMissing ==
  ASSUME NEW open, OpenOk(open), open # <<>>, ~FullIn(open), NEW tree, tree # NULL
  PROVE  LET more == Put(open, tree)
             n    == Len(open)
         IN  /\ n \in Nat \ {0} /\ Len(more) = n
             /\ \A d \in 1 .. n - 1 : more[d] = open[d] /\ Missing(more, d) = Missing(open, d)
             /\ more[n] = LastPut(open, tree)
             /\ Missing(more, n) = Missing(open, n) - 1 /\ Missing(open, n) \in {1, 2}
<1> DEFINE more == Put(open, tree)
           n    == Len(open)
           o    == open[n]
<1>1. n \in DOMAIN open /\ n \in Nat \ {0} /\ DOMAIN open = 1 .. n /\ open \in Seq(OpenTrees)
  BY LastOpen DEF OpenOk
<1>2. more = [open EXCEPT ![n] = LastPut(open, tree)]
  BY PutIs
<1>3. Len(more) = n /\ more[n] = LastPut(open, tree) /\ \A d \in 1 .. n - 1 : more[d] = open[d]
  BY <1>1, <1>2
<1>4. SidesOk(o, MaxDepth + 1 - n) /\ (n = 1 => o.br = NULL)
  BY <1>1, LastOpen DEF OpenOk
<1>5. (IF n = 1 THEN o.tl ELSE o.br) = NULL
  BY DEF FullIn
<1> HIDE DEF more, n
<1>6. ASSUME NEW d \in 1 .. n - 1 PROVE Missing(more, d) = Missing(open, d)
  <2>1. more[d] = open[d]
    BY <1>3
  <2>2. d = 1 => more[1] = open[1]
    BY <2>1
  <2> QED
    BY <2>1, <2>2 DEF Missing
<1>7. Missing(more, n) = Missing(open, n) - 1 /\ Missing(open, n) \in {1, 2}
  <2>1. CASE n = 1
    <3>1. LastPut(open, tree).tl = tree
      BY <2>1 DEF LastPut, n
    <3>2. Missing(more, n) = 0 /\ Missing(open, n) = 1
      BY <1>3, <1>5, <2>1, <3>1 DEF Missing
    <3> QED
      BY <3>2
  <2>2. CASE n # 1 /\ o.tl = NULL
    <3>1. LastPut(open, tree) = [tl |-> tree, br |-> o.br]
      BY <2>2 DEF LastPut, n
    <3>2. more[n].tl = tree /\ more[n].br = NULL
      BY <1>3, <1>5, <2>2, <3>1
    <3>3. Missing(more, n) = 1 /\ Missing(open, n) = 2
      BY <2>2, <3>2 DEF Missing
    <3> QED
      BY <3>3
  <2>3. CASE n # 1 /\ o.tl # NULL
    <3>1. LastPut(open, tree) = [tl |-> o.tl, br |-> tree]
      BY <1>1, <2>3 DEF LastPut, n
    <3>2. more[n].tl = o.tl /\ more[n].br = tree
      BY <1>3, <3>1
    <3>3. Missing(more, n) = 0 /\ Missing(open, n) = 1
      BY <1>5, <2>3, <3>2 DEF Missing
    <3> QED
      BY <3>3
  <2> QED
    BY <2>1, <2>2, <2>3
<1> QED
  BY <1>1, <1>3, <1>6, <1>7 DEF more, n

LEMMA GoingNone ==
  ASSUME NEW x \in Layouts
  PROVE  \E R : Going(<<>>, R, x)
<1> DEFINE R == [d \in 0 .. 0 |-> x]
<1>1. Len(<<>>) = 0 /\ x \in Seq(Items)
  BY RowsType
<1>2. Going(<<>>, R, x)
  BY <1>1 DEF Going
<1> QED
  BY <1>2

LEMMA GoingOpened ==
  ASSUME NEW open \in Seq(OpenTrees), NEW R, NEW rest, Going(open, R, rest),
         NEW x, NEW y \in Seq(Items), Closing(IF open = <<>> THEN 1 ELSE 2, x, y),
         IF open = <<>> THEN y \in Layouts ELSE Closing(Missing(open, Len(open)) - 1, y, R[Len(open) - 1])
  PROVE  \E V : Going(Append(open, Node), V, x)
<1> DEFINE more == Append(open, Node)
           n == Len(open)
           V == [d \in 0 .. n + 1 |-> IF d = n + 1 THEN x ELSE IF d = n THEN y ELSE R[d]]
<1>1. /\ n \in Nat /\ Len(more) = n + 1
      /\ \A d \in 1 .. n : Missing(more, d) = Missing(open, d)
      /\ Missing(more, n + 1) = IF open = <<>> THEN 1 ELSE 2
      /\ (open = <<>> <=> n = 0)
  BY OpenedIs
<1>2. x \in Seq(Items)
  BY ClosingType
<1>3. R \in [0 .. n -> Seq(Items)] /\ R[0] \in Layouts /\ \A d \in 1 .. n : Closing(Needs(open, d), R[d], R[d - 1])
  BY DEF Going
<1> HIDE DEF more, n
<1>4. V \in [0 .. n + 1 -> Seq(Items)] /\ V[n + 1] = x /\ V[n] = y /\ \A d \in 0 .. n - 1 : V[d] = R[d]
  BY <1>1, <1>2, <1>3
<1> HIDE DEF V
<1>5. V[0] \in Layouts
  <2>1. CASE n = 0
    BY <1>1, <1>4, <2>1
  <2>2. CASE n # 0
    <3>1. 0 \in 0 .. n - 1
      BY <1>1, <2>2
    <3> QED
      BY <1>3, <1>4, <3>1
  <2> QED
    BY <2>1, <2>2
<1>6. ASSUME NEW d \in 1 .. n + 1 PROVE Closing(Needs(more, d), V[d], V[d - 1])
  <2>1. CASE d = n + 1
    <3>1. Needs(more, d) = IF open = <<>> THEN 1 ELSE 2
      BY <1>1, <2>1 DEF Needs
    <3>2. V[d] = x /\ V[d - 1] = y
      BY <1>1, <1>4, <2>1
    <3> QED
      BY <3>1, <3>2
  <2>2. CASE d = n
    <3>1. n > 0 /\ open # <<>>
      BY <1>1, <2>2
    <3>2. Needs(more, d) = Missing(open, n) - 1
      BY <1>1, <2>2 DEF Needs
    <3>3. V[d] = y /\ V[d - 1] = R[n - 1]
      BY <1>1, <1>4, <2>2, <3>1
    <3> QED
      BY <3>1, <3>2, <3>3 DEF n
  <2>3. CASE d < n
    <3>1. d \in 1 .. n /\ d \in 0 .. n - 1 /\ d - 1 \in 0 .. n - 1
      BY <1>1, <2>3
    <3>2. Needs(more, d) = Missing(open, d) - 1 /\ Needs(open, d) = Missing(open, d) - 1
      BY <1>1, <2>3, <3>1 DEF Needs, n
    <3>3. V[d] = R[d] /\ V[d - 1] = R[d - 1]
      BY <1>4, <3>1
    <3>4. Closing(Needs(open, d), R[d], R[d - 1])
      BY <1>3, <3>1
    <3> QED
      BY <3>2, <3>3, <3>4
  <2> QED
    BY <1>1, <2>1, <2>2, <2>3
<1>7. Going(more, V, x)
  BY <1>1, <1>4, <1>5, <1>6 DEF Going
<1> QED
  BY <1>7 DEF more

LEMMA GoingPut ==
  ASSUME NEW open, OpenOk(open), open # <<>>, ~FullIn(open), NEW tree, tree # NULL,
         NEW R, NEW rest, Going(open, R, rest),
         NEW q \in Seq(Items), Closing(Missing(open, Len(open)) - 1, q, R[Len(open) - 1])
  PROVE  \E V : Going(Put(open, tree), V, q)
<1> DEFINE more == Put(open, tree)
           n == Len(open)
           V == [d \in 0 .. n |-> IF d = n THEN q ELSE R[d]]
<1>1. /\ n \in Nat \ {0} /\ Len(more) = n
      /\ \A d \in 1 .. n - 1 : Missing(more, d) = Missing(open, d)
      /\ Missing(more, n) = Missing(open, n) - 1
  BY PutMissing
<1>2. R \in [0 .. n -> Seq(Items)] /\ R[0] \in Layouts /\ \A d \in 1 .. n : Closing(Needs(open, d), R[d], R[d - 1])
  BY DEF Going
<1>3. Closing(Missing(open, n) - 1, q, R[n - 1])
  OBVIOUS
<1> HIDE DEF more, n
<1>4. V \in [0 .. n -> Seq(Items)] /\ V[n] = q /\ \A d \in 0 .. n - 1 : V[d] = R[d]
  BY <1>1, <1>2
<1> HIDE DEF V
<1>5. V[0] \in Layouts
  BY <1>1, <1>2, <1>4
<1>6. ASSUME NEW d \in 1 .. n PROVE Closing(Needs(more, d), V[d], V[d - 1])
  <2>1. V[d - 1] = R[d - 1]
    BY <1>1, <1>4
  <2>2. CASE d = n
    <3>1. Needs(more, d) = Missing(open, n) - 1 /\ V[d] = q
      BY <1>1, <1>4, <2>2 DEF Needs
    <3> QED
      BY <1>3, <2>1, <2>2, <3>1
  <2>3. CASE d # n
    <3>1. d \in 1 .. n - 1 /\ d \in 0 .. n - 1
      BY <1>1, <2>3
    <3>2. Needs(more, d) = Needs(open, d)
      BY <1>1, <3>1 DEF Needs, n
    <3> QED
      BY <1>2, <1>4, <2>1, <3>1, <3>2
  <2> QED
    BY <2>2, <2>3
<1>7. Going(more, V, q)
  BY <1>1, <1>4, <1>5, <1>6 DEF Going
<1> QED
  BY <1>7 DEF more

LEMMA FrontOpen ==
  ASSUME NEW open, OpenOk(open), Len(open) > 1
  PROVE  LET front == SubSeq(open, 1, Len(open) - 1) IN
         /\ OpenOk(front) /\ front # <<>> /\ ~FullIn(front)
         /\ Len(open) \in Nat /\ Len(front) = Len(open) - 1
         /\ \A d \in 1 .. Len(open) - 1 : front[d] = open[d] /\ Missing(front, d) = Missing(open, d)
<1> DEFINE front == SubSeq(open, 1, Len(open) - 1)
<1>1. open \in Seq(OpenTrees) /\ open # <<>> /\ Len(open) \in Nat /\ DOMAIN open = 1 .. Len(open)
  BY DEF OpenOk
<1>2. OpenOk(front) /\ Len(front) = Len(open) - 1 /\ (front # <<>> => ~FullIn(front))
  BY <1>1, ClosedOk
<1>3. \A d \in 1 .. Len(open) - 1 : front[d] = open[d]
  BY <1>1
<1> HIDE DEF front
<1>4. front # <<>>
  BY <1>1, <1>2
<1>5. ASSUME NEW d \in 1 .. Len(open) - 1 PROVE Missing(front, d) = Missing(open, d)
  <2>1. d = 1 => front[1] = open[1]
    BY <1>3
  <2> QED
    BY <1>3, <2>1 DEF Missing
<1> QED
  BY <1>1, <1>2, <1>3, <1>4, <1>5 DEF front

LEMMA GoingClosed ==
  ASSUME NEW open, OpenOk(open), Len(open) > 1, NEW tree, tree # NULL, NEW R, NEW rest, Going(open, R, rest)
  PROVE  \E V : Going(Put(SubSeq(open, 1, Len(open) - 1), tree), V, R[Len(open) - 1])
<1> DEFINE front == SubSeq(open, 1, Len(open) - 1)
           more == Put(front, tree)
           n == Len(open)
           V == [d \in 0 .. n - 1 |-> R[d]]
<1>1. /\ OpenOk(front) /\ front # <<>> /\ ~FullIn(front) /\ n \in Nat /\ Len(front) = n - 1
      /\ \A d \in 1 .. n - 1 : Missing(front, d) = Missing(open, d)
  BY FrontOpen
<1> HIDE DEF front
<1>2. /\ Len(more) = n - 1 /\ n - 1 \in Nat \ {0}
      /\ \A d \in 1 .. n - 2 : Missing(more, d) = Missing(front, d)
      /\ Missing(more, n - 1) = Missing(front, n - 1) - 1
  <2>1. LET m == Len(front) IN /\ m \in Nat \ {0} /\ Len(more) = m
                               /\ \A d \in 1 .. m - 1 : Missing(more, d) = Missing(front, d)
                               /\ Missing(more, m) = Missing(front, m) - 1
    BY <1>1, PutMissing
  <2>2. n - 1 - 1 = n - 2
    BY <1>1
  <2> QED
    BY <1>1, <2>1, <2>2
<1>3. R \in [0 .. n -> Seq(Items)] /\ R[0] \in Layouts /\ \A d \in 1 .. n : Closing(Needs(open, d), R[d], R[d - 1])
  BY DEF Going
<1> HIDE DEF more
<1>4. \A d \in 1 .. n - 1 : Needs(more, d) = Needs(open, d)
  <2> SUFFICES ASSUME NEW d \in 1 .. n - 1 PROVE Needs(more, d) = Needs(open, d)
    OBVIOUS
  <2>1. Needs(open, d) = Missing(open, d) - 1 /\ d \in Int /\ n \in Int
    BY <1>1 DEF Needs
  <2>2. CASE d = n - 1
    BY <1>1, <1>2, <2>1, <2>2 DEF Needs
  <2>3. CASE d # n - 1
    <3>1. d \in 1 .. n - 2 /\ d < n - 1
      BY <2>1, <2>3
    <3> QED
      BY <1>1, <1>2, <2>1, <3>1 DEF Needs
  <2> QED
    BY <2>2, <2>3
<1> HIDE DEF n
<1>5. V \in [0 .. n - 1 -> Seq(Items)] /\ \A d \in 0 .. n - 1 : V[d] = R[d]
  BY <1>1, <1>2, <1>3
<1> HIDE DEF V
<1>6. V[0] \in Layouts /\ V[n - 1] = R[n - 1]
  BY <1>2, <1>3, <1>5
<1>7. ASSUME NEW d \in 1 .. n - 1 PROVE Closing(Needs(more, d), V[d], V[d - 1])
  <2>1. d \in 1 .. n /\ V[d] = R[d] /\ V[d - 1] = R[d - 1]
    <3>1. d \in 1 .. n /\ d \in 0 .. n - 1 /\ d - 1 \in 0 .. n - 1
      BY <1>1, <1>2
    <3> QED
      BY <1>5, <3>1
  <2> QED
    BY <1>3, <1>4, <2>1
<1>8. Going(more, V, R[n - 1])
  BY <1>2, <1>5, <1>6, <1>7 DEF Going
<1> QED
  BY <1>8 DEF n, more, front

\* What may come next.
LEMMA GoingTop ==
  ASSUME NEW open, OpenOk(open), open # <<>>, NEW R, NEW rest, Going(open, R, rest)
  PROVE  /\ rest \in Seq(Items) /\ rest # <<>> /\ R[Len(open) - 1] \in Seq(Items)
         /\ FullIn(open) => Head(rest) = Item("end", 0) /\ Tail(rest) = R[Len(open) - 1]
         /\ ~FullIn(open) => \E t \in Texts, q \in Seq(Items) :
                               rest = t \o q /\ Closing(Missing(open, Len(open)) - 1, q, R[Len(open) - 1])
<1> DEFINE n == Len(open)
           o == open[n]
<1>1. n \in Nat \ {0} /\ n \in 1 .. n /\ o \in OpenTrees /\ SidesOk(o, MaxDepth + 1 - n)
  BY LastOpen DEF OpenOk
<1>2. Closing(Needs(open, n), R[n], R[n - 1]) /\ R[n - 1] \in Seq(Items) /\ R[n] = rest
  BY <1>1 DEF Going
<1>3. Needs(open, n) = Missing(open, n)
  BY <1>1 DEF Needs
<1>4. FullIn(open) <=> Missing(open, n) = 0
  <2>1. CASE n = 1
    BY <2>1 DEF FullIn, Missing
  <2>2. CASE n # 1
    <3>1. o.tl = NULL => o.br = NULL
      BY <1>1 DEF SidesOk
    <3> QED
      BY <2>2, <3>1 DEF FullIn, Missing
  <2> QED
    BY <2>1, <2>2
<1>5. Closing(Missing(open, n), rest, R[n - 1])
  BY <1>2, <1>3
<1>6. rest \in Seq(Items) /\ rest # <<>>
  BY <1>2, <1>5, ClosingType
<1>7. /\ Missing(open, n) = 0 => Head(rest) = Item("end", 0) /\ Tail(rest) = R[n - 1]
      /\ Missing(open, n) # 0 => \E t \in Texts, q \in Seq(Items) :
                               rest = t \o q /\ Closing(Missing(open, n) - 1, q, R[n - 1])
  BY <1>2, <1>5, ClosingBegins
<1> QED
  BY <1>2, <1>4, <1>6, <1>7

\* The empty tree has no text.
Blank(g) == Writing(g) /\ g[NULL] = <<>>

LEMMA OpeningType ==
  ASSUME NEW g, Blank(g)
  PROVE  /\ \A k \in Names \cup {"split"}, o \in OpenTrees : Opening(g, k, o) \in Seq(Items)
         /\ \A k \in Names \cup {"split"} : Opening(g, k, Node) = <<Item(k, 0)>> /\ <<Item(k, 0)>> \in Seq(Items)
<1>1. \A k \in Names \cup {"split"} : <<Item(k, 0)>> \in Seq(Items)
  BY ItemKinds, SeqsOfItems DEF Names
<1>2. ASSUME NEW k \in Names \cup {"split"}, NEW o \in OpenTrees PROVE Opening(g, k, o) \in Seq(Items)
  <2>1. g[o.tl] \in Seq(Items) /\ g[o.br] \in Seq(Items)
    BY DEF Blank, Writing, OpenTrees
  <2>2. g[o.tl] \o g[o.br] \in Seq(Items)
    BY <2>1, SeqsOfItems
  <2> QED
    BY <1>1, <2>2, SeqsOfItems DEF Opening
<1>3. ASSUME NEW k \in Names \cup {"split"} PROVE Opening(g, k, Node) = <<Item(k, 0)>>
  <2>1. Opening(g, k, Node) = <<Item(k, 0)>> \o (<<>> \o <<>>)
    BY DEF Opening, Node, Blank
  <2>2. <<>> \o <<>> = <<>>
    BY SeqsOfItems, TextBegins
  <2> QED
    BY <1>1, <2>1, <2>2, TextBegins
<1> QED
  BY <1>1, <1>2, <1>3

LEMMA OpeningPut ==
  ASSUME NEW g, Blank(g), NEW open, OpenOk(open), open # <<>>, ~FullIn(open), NEW tree \in Trees,
         NEW k \in Names \cup {"split"}
  PROVE  Opening(g, k, LastPut(open, tree)) = Opening(g, k, open[Len(open)]) \o g[tree]
<1> DEFINE n == Len(open)
           o == open[n]
           x == <<Item(k, 0)>>
           a == g[o.tl]
           t == g[tree]
<1>1. /\ n \in Nat \ {0} /\ n \in 1 .. n /\ o \in OpenTrees /\ SidesOk(o, MaxDepth + 1 - n)
      /\ (n = 1 => o.br = NULL)
  BY LastOpen DEF OpenOk
<1>2. (IF n = 1 THEN o.tl ELSE o.br) = NULL /\ (o.tl = NULL => o.br = NULL)
  BY <1>1 DEF FullIn, SidesOk
<1>3. o.br = NULL
  BY <1>1, <1>2
<1>4. x \in Seq(Items) /\ a \in Seq(Items) /\ t \in Seq(Items) /\ g[NULL] = <<>>
  BY <1>1, OpeningType DEF Blank, Writing, OpenTrees
<1>5. Opening(g, k, o) = x \o a
  <2>1. Opening(g, k, o) = x \o (a \o <<>>)
    BY <1>3, <1>4 DEF Opening
  <2> HIDE DEF x, a
  <2>2. a \o <<>> = a
    BY <1>4, TextBegins
  <2> QED
    BY <2>1, <2>2
<1>6. CASE n > 1 /\ o.tl # NULL
  <2>1. LastPut(open, tree).tl = o.tl /\ LastPut(open, tree).br = tree
    BY <1>6 DEF LastPut
  <2>2. Opening(g, k, LastPut(open, tree)) = x \o (a \o t)
    BY <2>1 DEF Opening
  <2> HIDE DEF x, a, t
  <2>3. (x \o a) \o t = x \o (a \o t)
    BY <1>4, TextBegins
  <2> QED
    BY <1>5, <2>2, <2>3 DEF t
<1>7. CASE ~(n > 1 /\ o.tl # NULL)
  <2>1. LastPut(open, tree).tl = tree /\ LastPut(open, tree).br = NULL
    BY <1>3, <1>7 DEF LastPut
  <2>2. Opening(g, k, LastPut(open, tree)) = x \o (t \o <<>>)
    <3>1. Opening(g, k, LastPut(open, tree)) = x \o (t \o g[NULL])
      BY <2>1 DEF Opening
    <3> QED
      BY <1>4, <3>1
  <2>3. a = <<>>
    <3>1. o.tl = NULL
      <4>1. n = 1 \/ n > 1
        <5>1. n \in Nat /\ n # 0
          BY <1>1
        <5> HIDE DEF n
        <5> QED
          BY <5>1
      <4> HIDE DEF n, o
      <4>2. n = 1 => o.tl = NULL
        BY <1>2, Zenon
      <4> QED
        BY <1>7, <4>1, <4>2, Zenon
    <3> QED
      BY <1>4, <3>1
  <2>4. x \o a = x
    <3> HIDE DEF x, a
    <3> QED
      BY <1>4, <2>3, TextBegins
  <2>5. t \o <<>> = t
    <3> HIDE DEF t
    <3> QED
      BY <1>4, TextBegins
  <2> QED
    BY <1>5, <2>2, <2>4, <2>5
<1> QED
  BY <1>6, <1>7

LEMMA CameNone ==
  ASSUME NEW g, NEW base \in Seq(Items), NEW name
  PROVE  \E H : Came(g, base, name, <<>>, H, base)
<1> DEFINE H == [d \in 0 .. 0 |-> base]
<1>1. Len(<<>>) = 0
  OBVIOUS
<1>2. Came(g, base, name, <<>>, H, base)
  BY <1>1 DEF Came
<1> QED
  BY <1>2

LEMMA CameIsBase ==
  ASSUME NEW g, NEW base, NEW name, NEW H, NEW text, Came(g, base, name, <<>>, H, text)
  PROVE  text = base
BY DEF Came

LEMMA CameOpened ==
  ASSUME NEW g, Blank(g), NEW open \in Seq(OpenTrees), NEW base, NEW name, NEW H, NEW text,
         Came(g, base, name, open, H, text),
         NEW new \in Names, open # <<>> => new = name
  PROVE  LET more == text \o <<Item(IF open = <<>> THEN new ELSE "split", 0)>> IN
         /\ text \in Seq(Items)
         /\ \E V : Came(g, base, new, Append(open, Node), V, more)
<1> DEFINE more == Append(open, Node)
           n == Len(open)
           k == IF open = <<>> THEN new ELSE "split"
           x == text \o <<Item(k, 0)>>
           V == [d \in 0 .. n + 1 |-> IF d = n + 1 THEN x ELSE H[d]]
<1>1. /\ n \in Nat /\ Len(more) = n + 1 /\ (open = <<>> <=> n = 0)
      /\ (\A d \in 1 .. n : more[d] = open[d]) /\ more[n + 1] = Node
  BY OpenedIs
<1>2. /\ H \in [0 .. n -> Seq(Items)] /\ H[0] = base /\ H[n] = text
      /\ \A d \in 1 .. n : H[d] = H[d - 1] \o Opening(g, IF d = 1 THEN name ELSE "split", open[d])
  BY DEF Came
<1>3. text \in Seq(Items)
  BY <1>1, <1>2
<1>4. k \in Names \cup {"split"}
  OBVIOUS
<1> HIDE DEF k
<1>5. x \in Seq(Items) /\ Opening(g, k, Node) = <<Item(k, 0)>>
  BY <1>3, <1>4, OpeningType, SeqsOfItems
<1> HIDE DEF x, more, n
<1>6. V \in [0 .. n + 1 -> Seq(Items)] /\ V[n + 1] = x /\ \A d \in 0 .. n : V[d] = H[d]
  BY <1>1, <1>2, <1>5
<1> HIDE DEF V
<1>7. ASSUME NEW d \in 1 .. n + 1 PROVE V[d] = V[d - 1] \o Opening(g, IF d = 1 THEN new ELSE "split", more[d])
  <2>1. CASE d = n + 1
    <3>1. V[d] = x /\ V[d - 1] = text /\ more[d] = Node
      BY <1>1, <1>2, <1>6, <2>1
    <3>2. (IF d = 1 THEN new ELSE "split") = k
      BY <1>1, <2>1 DEF k
    <3> QED
      BY <1>5, <3>1, <3>2 DEF x
  <2>2. CASE d # n + 1
    <3>1. d \in 1 .. n /\ d \in 0 .. n /\ d - 1 \in 0 .. n /\ open # <<>>
      BY <1>1, <2>2
    <3>2. V[d] = H[d] /\ V[d - 1] = H[d - 1] /\ more[d] = open[d] /\ new = name
      BY <1>1, <1>6, <3>1
    <3> QED
      BY <1>2, <3>1, <3>2
  <2> QED
    BY <2>1, <2>2
<1>8. V[0] = base
  BY <1>1, <1>2, <1>6
<1>9. Came(g, base, new, more, V, x)
  BY <1>1, <1>6, <1>7, <1>8 DEF Came
<1> QED
  BY <1>3, <1>9 DEF more, x, k

LEMMA CamePut ==
  ASSUME NEW g, Blank(g), NEW open, OpenOk(open), open # <<>>, ~FullIn(open), NEW tree \in Trees, tree # NULL,
         NEW base, NEW name \in Names, NEW H, NEW text, Came(g, base, name, open, H, text)
  PROVE  /\ text \in Seq(Items) /\ g[tree] \in Seq(Items)
         /\ \E V : Came(g, base, name, Put(open, tree), V, text \o g[tree])
<1> DEFINE more == Put(open, tree)
           n == Len(open)
           t == g[tree]
           x == text \o t
           V == [d \in 0 .. n |-> IF d = n THEN x ELSE H[d]]
<1>1. /\ n \in Nat \ {0} /\ Len(more) = n /\ open[n] \in OpenTrees
      /\ (\A d \in 1 .. n - 1 : more[d] = open[d]) /\ more[n] = LastPut(open, tree)
  BY PutMissing, LastOpen
<1>2. /\ H \in [0 .. n -> Seq(Items)] /\ H[0] = base /\ H[n] = text
      /\ \A d \in 1 .. n : H[d] = H[d - 1] \o Opening(g, IF d = 1 THEN name ELSE "split", open[d])
  BY DEF Came
<1>3. text \in Seq(Items) /\ t \in Seq(Items)
  BY <1>1, <1>2 DEF Blank, Writing
<1>4. x \in Seq(Items)
  <2> HIDE DEF t
  <2> QED
    BY <1>3, SeqsOfItems
<1> DEFINE k == IF n = 1 THEN name ELSE "split"
<1>5. k \in Names \cup {"split"}
  OBVIOUS
<1> DEFINE p == Opening(g, k, open[n])
<1>6. Opening(g, k, LastPut(open, tree)) = p \o t /\ p \in Seq(Items)
  <2> HIDE DEF k
  <2> QED
    BY <1>1, <1>5, OpeningPut, OpeningType
<1>7. text = H[n - 1] \o p /\ H[n - 1] \in Seq(Items)
  <2>1. n \in 1 .. n /\ n - 1 \in 0 .. n
    BY <1>1
  <2> HIDE DEF n
  <2>2. H[n] = H[n - 1] \o Opening(g, IF n = 1 THEN name ELSE "split", open[n])
    BY <1>2, <2>1
  <2> QED
    BY <1>2, <2>1, <2>2
<1> HIDE DEF more, n, t, p
<1>8. x = H[n - 1] \o (p \o t)
  BY <1>3, <1>6, <1>7, TextBegins
<1> HIDE DEF x, k
<1>9. V \in [0 .. n -> Seq(Items)] /\ V[n] = x /\ \A d \in 0 .. n - 1 : V[d] = H[d]
  BY <1>1, <1>2, <1>4
<1> HIDE DEF V
<1>10. ASSUME NEW d \in 1 .. n PROVE V[d] = V[d - 1] \o Opening(g, IF d = 1 THEN name ELSE "split", more[d])
  <2>1. V[d - 1] = H[d - 1]
    BY <1>1, <1>9
  <2>2. CASE d = n
    BY <1>1, <1>6, <1>8, <1>9, <2>1, <2>2 DEF k
  <2>3. CASE d # n
    <3>1. d \in 1 .. n - 1 /\ d \in 0 .. n - 1
      BY <1>1, <2>3
    <3>2. V[d] = H[d] /\ more[d] = open[d]
      BY <1>1, <1>9, <3>1
    <3> QED
      BY <1>2, <2>1, <3>2
  <2> QED
    BY <2>2, <2>3
<1>11. V[0] = base
  BY <1>1, <1>2, <1>9
<1>12. Came(g, base, name, more, V, x)
  BY <1>1, <1>9, <1>10, <1>11 DEF Came
<1> QED
  BY <1>3, <1>12 DEF more, x, t

LEMMA CameClosed ==
  ASSUME NEW g, Blank(g), NEW open, OpenOk(open), Len(open) > 1, NEW tree \in Trees, tree # NULL,
         NEW base, NEW name \in Names, NEW H, NEW text, Came(g, base, name, open, H, text)
  PROVE  /\ \E V : Came(g, base, name, Put(SubSeq(open, 1, Len(open) - 1), tree), V, H[Len(open) - 1] \o g[tree])
         /\ text = H[Len(open) - 1] \o Opening(g, "split", open[Len(open)])
         /\ H[Len(open) - 1] \in Seq(Items)
<1> DEFINE front == SubSeq(open, 1, Len(open) - 1)
           n == Len(open)
           V == [d \in 0 .. n - 1 |-> H[d]]
<1>1. /\ OpenOk(front) /\ front # <<>> /\ ~FullIn(front) /\ n \in Nat /\ Len(front) = n - 1 /\ n > 1
      /\ \A d \in 1 .. n - 1 : front[d] = open[d]
  BY FrontOpen
<1>2. /\ H \in [0 .. n -> Seq(Items)] /\ H[0] = base /\ H[n] = text
      /\ \A d \in 1 .. n : H[d] = H[d - 1] \o Opening(g, IF d = 1 THEN name ELSE "split", open[d])
  BY DEF Came
<1> HIDE DEF front, n
<1>3. V \in [0 .. n - 1 -> Seq(Items)] /\ \A d \in 0 .. n - 1 : V[d] = H[d]
  BY <1>1, <1>2
<1> HIDE DEF V
<1>4. V[0] = base /\ V[n - 1] = H[n - 1] /\ H[n - 1] \in Seq(Items)
  BY <1>1, <1>2, <1>3
<1>5. ASSUME NEW d \in 1 .. n - 1 PROVE V[d] = V[d - 1] \o Opening(g, IF d = 1 THEN name ELSE "split", front[d])
  <2>1. d \in 1 .. n /\ d \in 0 .. n - 1 /\ d - 1 \in 0 .. n - 1
    BY <1>1
  <2> QED
    BY <1>1, <1>2, <1>3, <2>1
<1>6. Came(g, base, name, front, V, H[n - 1])
  BY <1>1, <1>3, <1>4, <1>5 DEF Came
<1>7. \E U : Came(g, base, name, Put(front, tree), U, H[n - 1] \o g[tree])
  BY <1>1, <1>6, CamePut
<1>8. text = H[n - 1] \o Opening(g, "split", open[n])
  <2>1. n \in 1 .. n /\ n # 1
    BY <1>1
  <2> QED
    BY <1>2, <2>1
<1> QED
  BY <1>4, <1>7, <1>8 DEF front, n

\* The text of a split that is full.
LEMMA FullSplit ==
  ASSUME NEW g, Blank(g), NEW o \in OpenTrees, g[o] = SplitText(g[o.tl], g[o.br])
  PROVE  Opening(g, "split", o) \o EndLine = g[o]
<1> DEFINE a == g[o.tl]
           b == g[o.br]
           x == <<Item("split", 0)>>
<1>1. a \in Seq(Items) /\ b \in Seq(Items) /\ x \in Seq(Items) /\ EndLine \in Seq(Items)
  BY OpeningType, RowsType DEF Blank, Writing, OpenTrees
<1>2. Opening(g, "split", o) = x \o (a \o b)
  BY DEF Opening
<1>3. g[o] = ((x \o a) \o b) \o EndLine
  BY DEF SplitText, EndLine
<1> HIDE DEF a, b, x
<1>4. (x \o a) \o b = x \o (a \o b)
  BY <1>1, TextBegins
<1> QED
  BY <1>2, <1>3, <1>4

\* The file of a screen while it is read: what has been read so far, and the rest.
Base(g, W, open)   == LayoutOf(g, IF open = <<>> THEN W ELSE SubSeq(W, 1, Len(W) - 1))
LastName(W, open)  == IF open = <<>> THEN "workspace" ELSE W[Len(W)].name
Midway(g, W, open, rest, file) ==
  \E R, H, text : /\ Going(open, R, rest) /\ Came(g, Base(g, W, open), LastName(W, open), open, H, text)
                  /\ file = text \o rest

LEMMA MidwayType ==
  ASSUME NEW g, NEW W, NEW open, NEW rest, NEW file, Len(open) \in Nat, Midway(g, W, open, rest, file)
  PROVE  rest \in Seq(Items) /\ file \in Seq(Items) /\ \E text \in Seq(Items) : file = text \o rest
<1>1. PICK R, H, text : /\ Going(open, R, rest) /\ Came(g, Base(g, W, open), LastName(W, open), open, H, text)
                        /\ file = text \o rest
  BY DEF Midway
<1>2. rest \in Seq(Items) /\ text \in Seq(Items)
  BY <1>1 DEF Going, Came
<1> QED
  BY <1>1, <1>2, SeqsOfItems

LEMMA MidwayBegins ==
  ASSUME NEW g, Blank(g), NEW file \in Layouts
  PROVE  Midway(g, <<>>, <<>>, file, file)
<1>1. PICK R : Going(<<>>, R, file)
  BY GoingNone
<1>2. Base(g, <<>>, <<>>) = <<>>
  BY NoLayout DEF Base
<1>3. PICK H : Came(g, <<>>, LastName(<<>>, <<>>), <<>>, H, <<>>)
  BY CameNone, SeqsOfItems
<1>4. file = <<>> \o file
  BY RowsType, TextBegins
<1> QED
  BY <1>1, <1>2, <1>3, <1>4 DEF Midway

\* Where no section is open, the next one is that of a workspace.
LEMMA MidwayWorkspace ==
  ASSUME NEW g, Blank(g), NEW W \in Seq(Workspaces), NEW rest, rest # <<>>, NEW file, Midway(g, W, <<>>, rest, file)
  PROVE  \E k \in Names : /\ Head(rest) = Item(k, 0)
                          /\ \A w \in Workspaces : w.name = k => Midway(g, Append(W, w), <<Node>>, Tail(rest), file)
<1>1. PICK R, H, text : /\ Going(<<>>, R, rest) /\ Came(g, Base(g, W, <<>>), LastName(W, <<>>), <<>>, H, text)
                        /\ file = text \o rest
  BY DEF Midway
<1>2. rest \in Layouts /\ text = LayoutOf(g, W)
  <2>1. Len(<<>>) = 0
    OBVIOUS
  <2> QED
    BY <1>1, <2>1, CameIsBase DEF Going, Base
<1>3. PICK k \in Names, y \in Layouts : Head(rest) = Item(k, 0) /\ Closing(1, Tail(rest), y)
  BY <1>2, LayoutHead
<1>4. ASSUME NEW w \in Workspaces, w.name = k PROVE Midway(g, Append(W, w), <<Node>>, Tail(rest), file)
  <2> DEFINE V == Append(W, w)
  <2>1. <<Node>> = Append(<<>>, Node) /\ <<>> \in Seq(OpenTrees)
    OBVIOUS
  <2>2. y \in Seq(Items) /\ rest \in Seq(Items)
    BY <1>2, <1>3, RowsType
  <2>3. PICK R2 : Going(Append(<<>>, Node), R2, Tail(rest))
    BY <1>1, <1>3, <2>1, <2>2, GoingOpened
  <2>4. text \in Seq(Items) /\ \E H2 : Came(g, LayoutOf(g, W), k, Append(<<>>, Node), H2, text \o <<Item(k, 0)>>)
    <3>1. Came(g, LayoutOf(g, W), LastName(W, <<>>), <<>>, H, text)
      BY <1>1 DEF Base
    <3> QED
      BY <2>1, <3>1, CameOpened
  <2>5. PICK H2 : Came(g, LayoutOf(g, W), k, Append(<<>>, Node), H2, text \o <<Item(k, 0)>>)
    BY <2>4
  <2>6. Base(g, V, <<Node>>) = LayoutOf(g, W) /\ LastName(V, <<Node>>) = k
    <3>1. /\ V \in Seq(Workspaces) /\ Len(V) = Len(W) + 1 /\ Len(W) \in Nat
          /\ \A i \in 1 .. Len(W) + 1 : V[i] = IF i = Len(W) + 1 THEN w ELSE W[i]
      BY AppendFacts
    <3> HIDE DEF V
    <3> DEFINE front == SubSeq(V, 1, Len(V) - 1)
    <3>2. front \in Seq(Workspaces) /\ Len(front) = Len(W) /\ \A i \in 1 .. Len(W) : front[i] = V[i]
      BY <3>1
    <3> HIDE DEF front
    <3>3. front = W
      BY <3>1, <3>2, SeqEqual
    <3>4. <<Node>> # <<>> /\ V[Len(V)] = w
      BY <3>1
    <3> QED
      BY <1>4, <3>3, <3>4 DEF Base, LastName, front
  <2>7. rest = <<Item(k, 0)>> \o Tail(rest)
    <3>1. rest = <<Head(rest)>> \o Tail(rest)
      BY <2>2
    <3> QED
      BY <1>3, <3>1
  <2>8. file = (text \o <<Item(k, 0)>>) \o Tail(rest)
    <3> DEFINE x == <<Item(k, 0)>>
               z == Tail(rest)
    <3>1. x \in Seq(Items) /\ z \in Seq(Items)
      BY <2>2, OpeningType
    <3> HIDE DEF x, z
    <3>2. (text \o x) \o z = text \o (x \o z)
      BY <2>4, <3>1, TextBegins
    <3> QED
      BY <1>1, <2>7, <3>2 DEF x, z
  <2> QED
    BY <2>1, <2>3, <2>5, <2>6, <2>8 DEF Midway
<1> QED
  BY <1>3, <1>4

LEMMA MidwayEnds ==
  ASSUME NEW g, Blank(g), NEW W \in Seq(Workspaces), NEW file, Midway(g, W, <<>>, <<>>, file)
  PROVE  file = LayoutOf(g, W)
<1>1. PICK H, text : Came(g, Base(g, W, <<>>), LastName(W, <<>>), <<>>, H, text) /\ file = text \o <<>>
  BY DEF Midway
<1>2. text = LayoutOf(g, W) /\ text \in Seq(Items)
  BY <1>1, CameIsBase, LayoutIds DEF Base, Blank
<1> QED
  BY <1>1, <1>2, TextBegins

\* The workspace that is read last is there.
InSection(W, open) == W \in Seq(Workspaces) /\ W # <<>> /\ OpenOk(open) /\ open # <<>>

LEMMA SectionFacts ==
  ASSUME NEW W, NEW open, InSection(W, open)
  PROVE  /\ Len(open) \in Nat \ {0} /\ open \in Seq(OpenTrees) /\ OpenOk(open) /\ open # <<>>
         /\ LastName(W, open) = W[Len(W)].name /\ LastName(W, open) \in Names
<1>1. Len(W) \in DOMAIN W /\ W[Len(W)] \in Workspaces
  BY DEF InSection
<1>2. W[Len(W)].name \in Names
  BY <1>1, WorkspaceFields DEF Names
<1>3. Len(open) \in Nat \ {0} /\ open \in Seq(OpenTrees)
  BY DEF InSection, OpenOk
<1> QED
  BY <1>2, <1>3 DEF InSection, LastName

\* The text is that of the sections read, item and rest.
LEMMA Regrouped ==
  ASSUME NEW a \in Seq(Items), NEW b \in Seq(Items), NEW c \in Seq(Items)
  PROVE  a \o (b \o c) = (a \o b) \o c
BY TextBegins

LEMMA MidwayNext ==
  ASSUME NEW g, Blank(g), NEW W, NEW open, InSection(W, open), NEW rest, NEW file, Midway(g, W, open, rest, file)
  PROVE  /\ rest \in Seq(Items) /\ rest # <<>>
         /\ FullIn(open) => Head(rest) = Item("end", 0)
         /\ ~FullIn(open) =>
              \/ \E id \in 1 .. INT_MAX : Head(rest) = Item("frame", id)
              \/ Head(rest) = Item("split", 0) /\ Midway(g, W, Append(open, Node), Tail(rest), file)
<1>1. PICK R, H, text : /\ Going(open, R, rest) /\ Came(g, Base(g, W, open), LastName(W, open), open, H, text)
                        /\ file = text \o rest
  BY DEF Midway
<1> DEFINE n == Len(open)
           y == R[n - 1]
<1>2. n \in Nat \ {0} /\ open \in Seq(OpenTrees) /\ OpenOk(open) /\ open # <<>> /\ LastName(W, open) \in Names
  BY SectionFacts
<1>3. /\ rest \in Seq(Items) /\ rest # <<>> /\ y \in Seq(Items)
      /\ FullIn(open) => Head(rest) = Item("end", 0)
      /\ ~FullIn(open) => \E t \in Texts, q \in Seq(Items) : rest = t \o q /\ Closing(Missing(open, n) - 1, q, y)
  BY <1>1, <1>2, GoingTop
<1>4. ASSUME ~FullIn(open)
      PROVE  \/ \E id \in 1 .. INT_MAX : Head(rest) = Item("frame", id)
             \/ Head(rest) = Item("split", 0) /\ Midway(g, W, Append(open, Node), Tail(rest), file)
  <2>1. PICK t \in Texts, q \in Seq(Items) : rest = t \o q /\ Closing(Missing(open, n) - 1, q, y)
    BY <1>3, <1>4
  <2>2. CASE \E id \in 1 .. INT_MAX : Head(rest) = Item("frame", id)
    BY <2>2
  <2>3. CASE Head(rest) = Item("split", 0) /\ Closing(2, Tail(rest), q)
    <3> DEFINE x == Tail(rest)
               more == Append(open, Node)
               z == <<Item("split", 0)>>
    <3>1. PICK R2 : Going(more, R2, x)
      BY <1>1, <1>2, <2>1, <2>3, GoingOpened
    <3>2. text \in Seq(Items) /\ \E H2 : Came(g, Base(g, W, open), LastName(W, open), more, H2, text \o z)
      BY <1>1, <1>2, CameOpened
    <3>3. PICK H2 : Came(g, Base(g, W, open), LastName(W, open), more, H2, text \o z)
      BY <3>2
    <3>4. more # <<>>
      BY <1>2, OpenedIs
    <3>5. rest = z \o x /\ x \in Seq(Items) /\ z \in Seq(Items)
      <4>1. rest = <<Head(rest)>> \o Tail(rest) /\ Tail(rest) \in Seq(Items)
        BY <1>3
      <4> QED
        BY <2>3, <4>1, OpeningType
    <3> HIDE DEF x, more, z
    <3>6. file = (text \o z) \o x
      BY <1>1, <3>2, <3>5, Regrouped
    <3>7. Base(g, W, more) = Base(g, W, open) /\ LastName(W, more) = LastName(W, open)
      BY <1>2, <3>4, Zenon DEF Base, LastName
    <3>8. Midway(g, W, more, x, file)
      BY <3>1, <3>3, <3>6, <3>7 DEF Midway
    <3> QED
      BY <2>3, <3>8 DEF x, more
  <2>4. t \o q = rest
    BY <2>1
  <2>5. \/ \E id \in 1 .. INT_MAX : Head(t \o q) = Item("frame", id)
        \/ Head(t \o q) = Item("split", 0) /\ Closing(2, Tail(t \o q), q)
    BY TextHead
  <2> QED
    BY <2>2, <2>3, <2>4, <2>5
<1> QED
  BY <1>3, <1>4

\* A frame is read, and put in its place.
LEMMA MidwayFrame ==
  ASSUME NEW g, Blank(g), NEW W, NEW open, InSection(W, open), ~FullIn(open),
         NEW rest, NEW file, Midway(g, W, open, rest, file),
         NEW f \in Frame, NEW id, Head(rest) = Item("frame", id), g[f] = <<Item("frame", id)>>
  PROVE  Midway(g, W, Put(open, f), Tail(rest), file)
<1>1. PICK R, H, text : /\ Going(open, R, rest) /\ Came(g, Base(g, W, open), LastName(W, open), open, H, text)
                        /\ file = text \o rest
  BY DEF Midway
<1> DEFINE n == Len(open)
           y == R[n - 1]
           more == Put(open, f)
           z == <<Item("frame", id)>>
<1>2. n \in Nat \ {0} /\ open \in Seq(OpenTrees) /\ OpenOk(open) /\ open # <<>> /\ LastName(W, open) \in Names
  BY SectionFacts
<1>3. f \in Trees /\ f # NULL
  BY LeavesAre, SessionAssumption
<1>4. PICK t \in Texts, q \in Seq(Items) : rest = t \o q /\ Closing(Missing(open, n) - 1, q, y)
  BY <1>1, <1>2, GoingTop
<1>5. Tail(rest) = q /\ rest = z \o q
  <2>1. CASE \E i \in 1 .. INT_MAX : t = <<Item("frame", i)>> /\ Head(t \o q) = Item("frame", i) /\ Tail(t \o q) = q
    BY <1>4, <2>1
  <2>2. CASE Head(t \o q) = Item("split", 0)
    <3>1. Item("frame", id) = Item("split", 0)
      BY <1>4, <2>2
    <3>2. FALSE
      BY <3>1 DEF Item
    <3> QED
      BY <3>2
  <2> QED
    BY <2>1, <2>2, TextHead
<1>6. PICK R2 : Going(more, R2, q)
  BY <1>1, <1>2, <1>3, <1>4, GoingPut
<1>7. text \in Seq(Items) /\ g[f] \in Seq(Items) /\ \E H2 : Came(g, Base(g, W, open), LastName(W, open), more, H2, text \o g[f])
  BY <1>1, <1>2, <1>3, CamePut
<1>8. PICK H2 : Came(g, Base(g, W, open), LastName(W, open), more, H2, text \o g[f])
  BY <1>7
<1>9. more # <<>>
  <2>1. Len(more) = n
    BY <1>2, <1>3, PutMissing
  <2> HIDE DEF more
  <2> QED
    BY <1>2, <2>1
<1>10. z \in Seq(Items)
  BY <1>7
<1> HIDE DEF more, z
<1>11. file = (text \o z) \o q
  <2>1. text \o (z \o q) = (text \o z) \o q
    BY <1>7, <1>10, Regrouped
  <2> QED
    BY <1>1, <1>5, <2>1, Zenon
<1>12. Base(g, W, more) = Base(g, W, open) /\ LastName(W, more) = LastName(W, open)
  BY <1>2, <1>9, Zenon DEF Base, LastName
<1>13. Midway(g, W, more, q, file)
  BY <1>6, <1>8, <1>11, <1>12 DEF Midway, z
<1> QED
  BY <1>5, <1>13 DEF more

IsLast(o, open) == o = open[Len(open)]

\* A split that is full is closed, and put in its place.
LEMMA MidwaySplit ==
  ASSUME NEW g, Blank(g), NEW W, NEW open, InSection(W, open), FullIn(open), Len(open) > 1,
         NEW rest, NEW file, Midway(g, W, open, rest, file),
         NEW o, IsLast(o, open), o \in Trees, o # NULL, g[o] = SplitText(g[o.tl], g[o.br])
  PROVE  Midway(g, W, Put(SubSeq(open, 1, Len(open) - 1), o), Tail(rest), file)
<1>1. PICK R, H, text : /\ Going(open, R, rest) /\ Came(g, Base(g, W, open), LastName(W, open), open, H, text)
                        /\ file = text \o rest
  BY DEF Midway
<1> DEFINE n == Len(open)
           y == R[n - 1]
           front == SubSeq(open, 1, n - 1)
           more == Put(front, o)
           p == Opening(g, "split", o)
           h == H[n - 1]
<1>2. n \in Nat \ {0} /\ open \in Seq(OpenTrees) /\ OpenOk(open) /\ open # <<>> /\ LastName(W, open) \in Names
  BY SectionFacts
<1>3. rest \in Seq(Items) /\ rest # <<>> /\ y \in Seq(Items) /\ Head(rest) = Item("end", 0) /\ Tail(rest) = y
  BY <1>1, <1>2, GoingTop
<1>4. o \in OpenTrees
  BY <1>2, LastOpen DEF IsLast
<1>5. p \o EndLine = g[o] /\ p \in Seq(Items) /\ EndLine \in Seq(Items) /\ g[o] \in Seq(Items)
  BY <1>4, FullSplit, OpeningType, RowsType DEF Blank, Writing
<1>6. /\ \E H2 : Came(g, Base(g, W, open), LastName(W, open), more, H2, h \o g[o])
      /\ text = h \o p /\ h \in Seq(Items)
  <2>1. Came(g, Base(g, W, open), LastName(W, open), open, H, text)
    BY <1>1
  <2>2. /\ \E H2 : Came(g, Base(g, W, open), LastName(W, open), more, H2, h \o g[o])
        /\ text = h \o Opening(g, "split", open[n]) /\ h \in Seq(Items)
    BY <1>2, <2>1, CameClosed
  <2> HIDE DEF more, h
  <2> QED
    BY <2>2 DEF IsLast
<1>7. PICK H2 : Came(g, Base(g, W, open), LastName(W, open), more, H2, h \o g[o])
  BY <1>6
<1>8. PICK R2 : Going(more, R2, y)
  BY <1>1, <1>2, GoingClosed
<1>9. more # <<>>
  <2>1. OpenOk(front) /\ front # <<>> /\ ~FullIn(front)
    BY <1>2, FrontOpen
  <2> HIDE DEF front
  <2>2. Len(more) = Len(front) /\ Len(front) \in Nat \ {0}
    BY <2>1, PutMissing
  <2> HIDE DEF more
  <2> QED
    BY <2>2
<1>10. rest = EndLine \o y
  <2>1. rest = <<Head(rest)>> \o Tail(rest)
    BY <1>3
  <2> QED
    BY <1>3, <2>1 DEF EndLine
<1> HIDE DEF more, p, h, y
<1>11. file = (h \o g[o]) \o y
  <2>1. (h \o p) \o (EndLine \o y) = ((h \o p) \o EndLine) \o y
    <3>1. h \o p \in Seq(Items)
      BY <1>5, <1>6, SeqsOfItems
    <3> QED
      BY <1>3, <1>5, <3>1, Regrouped
  <2>2. (h \o p) \o EndLine = h \o (p \o EndLine)
    BY <1>5, <1>6, TextBegins
  <2> QED
    BY <1>1, <1>5, <1>6, <1>10, <2>1, <2>2
<1>12. Base(g, W, more) = Base(g, W, open) /\ LastName(W, more) = LastName(W, open)
  BY <1>2, <1>9, Zenon DEF Base, LastName
<1>13. Midway(g, W, more, y, file)
  BY <1>7, <1>8, <1>11, <1>12 DEF Midway
<1> QED
  BY <1>3, <1>13 DEF more

\* The workspace is closed, and its tree set.
LEMMA MidwayClosed ==
  ASSUME NEW g, Blank(g), NEW W, NEW open, InSection(W, open), FullIn(open), Len(open) = 1,
         NEW rest, NEW file, Midway(g, W, open, rest, file),
         NEW w \in Workspaces, w.name = W[Len(W)].name, w.splitree = open[1].tl
  PROVE  Midway(g, [W EXCEPT ![Len(W)] = w], <<>>, Tail(rest), file)
<1>1. PICK R, H, text : /\ Going(open, R, rest) /\ Came(g, Base(g, W, open), LastName(W, open), open, H, text)
                        /\ file = text \o rest
  BY DEF Midway
<1> DEFINE V == [W EXCEPT ![Len(W)] = w]
           U == SubSeq(W, 1, Len(W) - 1)
           name == w.name
           t == g[w.splitree]
           l == LayoutOf(g, U)
           x == <<Item(name, 0)>>
           y == R[0]
<1>2. Len(W) \in Nat \ {0} /\ W \in Seq(Workspaces) /\ OpenOk(open) /\ open # <<>> /\ name = LastName(W, open) /\ name \in Names
  <2>1. W \in Seq(Workspaces) /\ W # <<>> /\ OpenOk(open) /\ open # <<>>
    BY DEF InSection
  <2>2. Len(W) \in Nat \ {0}
    BY <2>1
  <2>3. LastName(W, open) = W[Len(W)].name /\ LastName(W, open) \in Names
    BY SectionFacts
  <2> QED
    BY <2>1, <2>2, <2>3
<1>3. y \in Layouts /\ rest = EndLine \o y /\ Tail(rest) = y /\ y \in Seq(Items)
  <2>1. y \in Layouts
    BY <1>1 DEF Going
  <2>2. /\ rest \in Seq(Items) /\ rest # <<>> /\ R[Len(open) - 1] \in Seq(Items)
        /\ Head(rest) = Item("end", 0) /\ Tail(rest) = R[Len(open) - 1]
    BY <1>1, <1>2, GoingTop
  <2>3. rest = <<Head(rest)>> \o Tail(rest)
    BY <2>2
  <2>4. Len(open) - 1 = 0
    OBVIOUS
  <2>5. Head(rest) = Item("end", 0) /\ Tail(rest) = y
    BY <2>2, <2>4
  <2>6. y \in Seq(Items)
    BY <2>1, RowsType
  <2> HIDE DEF y
  <2> QED
    BY <2>1, <2>3, <2>5, <2>6, Zenon DEF EndLine
<1>4. U \in Seq(Workspaces) /\ V = Append(U, w) /\ Base(g, W, open) = l
  <2>1. U \in Seq(Workspaces) /\ Len(U) = Len(W) - 1 /\ \A i \in 1 .. Len(W) - 1 : U[i] = W[i]
    <3>1. W # <<>>
      BY <1>2
    <3>2. U \in Seq(Workspaces) /\ LeftOut(W, Len(W), U)
      BY <1>2, <3>1, FrontLeaves
    <3> HIDE DEF U
    <3> QED
      BY <1>2, <3>2 DEF LeftOut
  <2>2. /\ V \in Seq(Workspaces) /\ Len(V) = Len(W)
        /\ \A i \in 1 .. Len(W) : V[i] = IF i = Len(W) THEN w ELSE W[i]
    BY <1>2, EntrySet
  <2> HIDE DEF U, V
  <2>3. /\ Append(U, w) \in Seq(Workspaces) /\ Len(Append(U, w)) = Len(W)
        /\ \A i \in 1 .. Len(W) : Append(U, w)[i] = IF i = Len(W) THEN w ELSE U[i]
    BY <1>2, <2>1, AppendFacts
  <2>4. \A i \in 1 .. Len(W) : V[i] = Append(U, w)[i]
    BY <1>2, <2>1, <2>2, <2>3
  <2> QED
    BY <1>2, <2>1, <2>2, <2>3, <2>4, SeqEqual DEF Base, U
<1>5. /\ t \in Seq(Items) /\ x \in Seq(Items) /\ l \in Seq(Items) /\ EndLine \in Seq(Items) /\ g[NULL] = <<>>
  BY <1>2, <1>4, OpeningType, RowsType, LayoutIds, WorkspaceFields DEF Blank, Writing
<1> HIDE DEF U, V
<1>6. text = l \o (x \o t)
  <2>1. H[0] = l /\ H[1] = text /\ H[1] = H[0] \o Opening(g, name, open[1])
    BY <1>1, <1>2, <1>4 DEF Came
  <2>2. open[1].br = NULL
    BY <1>2 DEF OpenOk
  <2>3. Opening(g, name, open[1]) = x \o (t \o <<>>)
    BY <1>5, <2>2 DEF Opening
  <2>4. t \o <<>> = t
    <3> HIDE DEF t
    <3> QED
      BY <1>5, TextBegins
  <2> QED
    BY <2>1, <2>3, <2>4
<1>7. LayoutOf(g, V) = l \o (x \o (t \o EndLine))
  <2>1. LayoutOf(g, V) = l \o WorkspaceText(name, t)
    BY <1>4, LayoutMore DEF Blank
  <2>2. WorkspaceText(name, t) = x \o (t \o EndLine)
    <3> HIDE DEF t
    <3> QED
      BY <1>2, <1>5, TextsBegin DEF EndLine
  <2> QED
    BY <2>1, <2>2
<1> HIDE DEF l, x, t
<1>8. file = LayoutOf(g, V) \o y
  <2>1. x \o t \in Seq(Items) /\ (x \o t) \o EndLine = x \o (t \o EndLine)
    BY <1>5, SeqsOfItems, TextBegins
  <2> DEFINE z == x \o t
  <2>4. z \in Seq(Items)
    BY <2>1
  <2> HIDE DEF z
  <2>2. (l \o z) \o EndLine = l \o (z \o EndLine) /\ l \o z \in Seq(Items)
    <3>1. l \in Seq(Items) /\ EndLine \in Seq(Items)
      BY <1>5
    <3>2. (l \o z) \o EndLine = l \o (z \o EndLine)
      BY <2>4, <3>1, TextBegins, SMTT(30)
    <3>3. l \o z \in Seq(Items)
      BY <2>4, <3>1, SeqsOfItems
    <3> QED
      BY <3>2, <3>3
  <2>3. text \o (EndLine \o y) = (text \o EndLine) \o y
    <3>1. text \in Seq(Items) /\ y \in Seq(Items)
      BY <1>3, <1>6, <2>2 DEF z
    <3> QED
      BY <1>5, <3>1, Regrouped
  <2> QED
    BY <1>1, <1>3, <1>6, <1>7, <2>1, <2>2, <2>3 DEF z
<1>9. V \in Seq(Workspaces)
  BY <1>4, AppendFacts
<1>10. LayoutOf(g, V) \in Seq(Items)
  BY <1>9, LayoutIds DEF Blank
<1>11. PICK R2 : Going(<<>>, R2, y)
  BY <1>3, GoingNone
<1>12. PICK H2 : Came(g, LayoutOf(g, V), LastName(V, <<>>), <<>>, H2, LayoutOf(g, V))
  BY <1>10, CameNone
<1>13. Midway(g, V, <<>>, y, file)
  BY <1>8, <1>11, <1>12 DEF Midway, Base
<1> QED
  BY <1>3, <1>13 DEF V

\* The frames that are made meanwhile change nothing of it.
SameSides(g, h, open) ==
  \A d \in 1 .. Len(open) : h[open[d].tl] = g[open[d].tl] /\ h[open[d].br] = g[open[d].br]
SameTrees(g, h, W, V, open) ==
  /\ W \in Seq(Workspaces) /\ V \in Seq(Workspaces) /\ Len(V) = Len(W)
  /\ open # <<>> => W # <<>>
  /\ \A i \in DOMAIN W : /\ V[i].name = W[i].name
                         /\ open = <<>> \/ i < Len(W) => h[V[i].splitree] = g[W[i].splitree]

LEMMA MidwaySame ==
  ASSUME NEW g, NEW h, NEW W, NEW V, NEW open, NEW rest, NEW file, Midway(g, W, open, rest, file),
         SameSides(g, h, open), SameTrees(g, h, W, V, open)
  PROVE  Midway(h, V, open, rest, file)
<1>1. PICK R, H, text : /\ Going(open, R, rest) /\ Came(g, Base(g, W, open), LastName(W, open), open, H, text)
                        /\ file = text \o rest
  BY DEF Midway
<1>2. Len(W) \in Nat /\ Len(V) = Len(W) /\ DOMAIN W = 1 .. Len(W) /\ DOMAIN V = 1 .. Len(W)
  BY DEF SameTrees
<1>3. LastName(V, open) = LastName(W, open)
  <2>1. CASE open = <<>>
    BY <2>1 DEF LastName
  <2>2. CASE open # <<>>
    <3>1. W # <<>> /\ W \in Seq(Workspaces)
      BY <2>2 DEF SameTrees
    <3>2. Len(W) \in DOMAIN W
      BY <1>2, <3>1
    <3> QED
      BY <1>2, <2>2, <3>2 DEF LastName, SameTrees
  <2> QED
    BY <2>1, <2>2
<1>4. Base(h, V, open) = Base(g, W, open)
  <2>1. CASE open = <<>>
    <3>1. \A i \in DOMAIN W : V[i].name = W[i].name /\ h[V[i].splitree] = g[W[i].splitree]
      BY <2>1 DEF SameTrees
    <3>2. LayoutOf(h, V) = LayoutOf(g, W)
      BY <1>2, <3>1, LayoutSame
    <3> QED
      BY <2>1, <3>2 DEF Base
  <2>2. CASE open # <<>>
    <3> DEFINE P == SubSeq(W, 1, Len(W) - 1)
               Q == SubSeq(V, 1, Len(V) - 1)
    <3>1. W # <<>> /\ W \in Seq(Workspaces) /\ V \in Seq(Workspaces)
      BY <2>2 DEF SameTrees
    <3>2. /\ DOMAIN P = 1 .. Len(W) - 1 /\ DOMAIN Q = 1 .. Len(W) - 1
          /\ \A i \in 1 .. Len(W) - 1 : P[i] = W[i] /\ Q[i] = V[i]
      BY <1>2, <3>1
    <3> HIDE DEF P, Q
    <3>3. \A i \in DOMAIN P : Q[i].name = P[i].name /\ h[Q[i].splitree] = g[P[i].splitree]
      <4> SUFFICES ASSUME NEW i \in 1 .. Len(W) - 1 PROVE Q[i].name = P[i].name /\ h[Q[i].splitree] = g[P[i].splitree]
        BY <3>2
      <4>1. i \in DOMAIN W /\ i < Len(W)
        BY <1>2
      <4>2. V[i].name = W[i].name /\ h[V[i].splitree] = g[W[i].splitree]
        BY <4>1 DEF SameTrees
      <4> QED
        BY <3>2, <4>2
    <3>4. LayoutOf(h, Q) = LayoutOf(g, P)
      BY <3>2, <3>3, LayoutSame
    <3> QED
      BY <2>2, <3>4 DEF Base, P, Q
  <2> QED
    BY <2>1, <2>2
<1>5. Came(h, Base(g, W, open), LastName(W, open), open, H, text)
  <2>1. \A d \in 1 .. Len(open) : \A k : Opening(h, k, open[d]) = Opening(g, k, open[d])
    BY DEF SameSides, Opening
  <2> QED
    BY <1>1, <2>1 DEF Came
<1> QED
  BY <1>1, <1>3, <1>4, <1>5 DEF Midway

-----------------------------------------------------------------------------
(* What each step does to the workspaces of one screen. *)

FramesIn(q) == UNION {Children(q[i]) : i \in DOMAIN q}

LEMMA FramesOfIs == \A s : FramesOf(s) = FramesIn(ws[s]) /\ FramesOf(s)' = FramesIn(ws'[s])
BY DEF FramesOf, FramesIn, Children

LEMMA InFrames ==
  ASSUME NEW q, NEW f
  PROVE  f \in FramesIn(q) <=> \E i \in DOMAIN q : f \in Children(q[i])
BY DEF FramesIn

\* Of a sequence of workspaces that becomes r: no frame but those in lost leaves it, and no
\* tree but those in new gets in.
Becomes(q, r, lost, new) ==
  /\ r \in Seq(Workspaces)
  /\ TreesIn(r) \subseteq TreesIn(q) \cup new
  /\ FramesIn(q) \ lost \subseteq FramesIn(r)

LEMMA RowAppended ==
  ASSUME NEW q \in Seq(Workspaces), NEW w \in Workspaces
  PROVE  Becomes(q, Append(q, w), {}, {w.splitree}) /\ Append(q, w) # <<>>
<1> DEFINE r == Append(q, w)
<1>1. /\ r \in Seq(Workspaces) /\ DOMAIN r = 1 .. Len(q) + 1 /\ DOMAIN q = 1 .. Len(q) /\ Len(q) \in Nat /\ r # <<>>
      /\ \A i \in 1 .. Len(q) + 1 : r[i] = IF i = Len(q) + 1 THEN w ELSE q[i]
  BY AppendFacts
<1>2. TreesIn(r) = TreesIn(q) \cup {w.splitree}
  BY TreesInMore
<1> HIDE DEF r
<1>3. ASSUME NEW f \in FramesIn(q) PROVE f \in FramesIn(r)
  <2>1. PICK i \in DOMAIN q : f \in Children(q[i])
    BY InFrames
  <2>2. i \in DOMAIN r /\ r[i] = q[i]
    BY <1>1
  <2> QED
    BY <2>1, <2>2, InFrames
<1> QED
  BY <1>1, <1>2, <1>3 DEF Becomes, r

LEMMA RowSet ==
  ASSUME NEW q \in Seq(Workspaces), NEW m \in DOMAIN q, NEW w \in Workspaces, NEW lost,
         Children(q[m]) \ lost \subseteq Children(w)
  PROVE  /\ Becomes(q, [q EXCEPT ![m] = w], lost, {w.splitree}) /\ [q EXCEPT ![m] = w] # <<>>
         /\ w.splitree = q[m].splitree => Becomes(q, [q EXCEPT ![m] = w], lost, {})
<1> DEFINE r == [q EXCEPT ![m] = w]
<1>1. r \in Seq(Workspaces) /\ DOMAIN r = DOMAIN q /\ \A i \in DOMAIN q : r[i] = IF i = m THEN w ELSE q[i]
  BY EntrySet
<1> HIDE DEF r
<1>2. TreesIn(r) \subseteq TreesIn(q) \cup {w.splitree}
  BY <1>1 DEF TreesIn
<1>3. ASSUME NEW f \in FramesIn(q), f \notin lost PROVE f \in FramesIn(r)
  <2>1. PICK i \in DOMAIN q : f \in Children(q[i])
    BY InFrames
  <2>2. f \in Children(r[i])
    BY <1>1, <1>3, <2>1
  <2> QED
    BY <1>1, <2>2, InFrames
<1>4. r # <<>>
  BY <1>1
<1>5. w.splitree = q[m].splitree => w.splitree \in TreesIn(q)
  BY DEF TreesIn
<1> QED
  BY <1>1, <1>2, <1>3, <1>4, <1>5 DEF Becomes, r

LEMMA RowLeft ==
  ASSUME NEW q \in Seq(Workspaces), NEW m \in DOMAIN q, NEW r \in Seq(Workspaces), LeftOut(q, m, r)
  PROVE  Becomes(q, r, Children(q[m]), {})
<1>1. /\ DOMAIN q = 1 .. Len(q) /\ Len(q) \in Nat /\ DOMAIN r = 1 .. Len(q) - 1 /\ m \in 1 .. Len(q)
      /\ \A j \in 1 .. Len(q) - 1 : r[j] = IF j < m THEN q[j] ELSE q[j + 1]
  BY DEF LeftOut
<1>2. ASSUME NEW j \in DOMAIN r PROVE \E i \in DOMAIN q : r[j] = q[i]
  BY <1>1
<1>3. TreesIn(r) \subseteq TreesIn(q)
  <2> SUFFICES ASSUME NEW j \in DOMAIN r PROVE r[j].splitree \in TreesIn(q)
    BY DEF TreesIn
  <2>1. PICK i \in DOMAIN q : r[j] = q[i]
    BY <1>2
  <2> QED
    BY <2>1 DEF TreesIn
<1>4. ASSUME NEW f \in FramesIn(q), f \notin Children(q[m]) PROVE f \in FramesIn(r)
  <2>1. PICK i \in DOMAIN q : f \in Children(q[i])
    BY InFrames
  <2>2. i # m
    BY <1>4, <2>1
  <2>3. \E j \in DOMAIN r : r[j] = q[i]
    <3>1. CASE i < m
      <4>1. i \in DOMAIN r /\ r[i] = q[i]
        BY <1>1, <3>1
      <4> QED
        BY <4>1
    <3>2. CASE ~(i < m)
      <4>1. i - 1 \in DOMAIN r /\ r[i - 1] = q[i]
        BY <1>1, <2>2, <3>2
      <4> QED
        BY <4>1
    <3> QED
      BY <3>1, <3>2
  <2> QED
    BY <2>1, <2>3, InFrames
<1> QED
  BY <1>3, <1>4 DEF Becomes

\* What a step does to the workspaces: those of the screens but s stay.
Kept(s, lost, new) ==
  /\ s \in Screen /\ Becomes(ws[s], ws'[s], lost, new)
  /\ \A t \in Screen : t # s => ws'[t] = ws[t]

LEMMA KeptBy ==
  ASSUME WsType, NEW s \in Screen, NEW v, ws' = [ws EXCEPT ![s] = v], NEW lost, NEW new, Becomes(ws[s], v, lost, new)
  PROVE  Kept(s, lost, new) /\ ws'[s] = v
BY DEF WsType, Kept

LEMMA KeptFrames ==
  ASSUME NEW s, NEW lost, NEW new, Kept(s, lost, new)
  PROVE  \A t \in Screen : FramesOf(t) \ lost \subseteq FramesOf(t)'
<1> SUFFICES ASSUME NEW t \in Screen PROVE FramesOf(t) \ lost \subseteq FramesOf(t)'
  OBVIOUS
<1>1. FramesIn(ws[t]) \ lost \subseteq FramesIn(ws'[t])
  BY DEF Kept, Becomes
<1> QED
  BY <1>1, FramesOfIs

LEMMA OptWorkspaceKeeps ==
  ASSUME WorkspacesInv, OptWorkspace
  PROVE  Kept(scr, {}, {NULL}) /\ ws'[scr] = Append(ws[scr], [name |-> "workspace", splitree |-> NULL, wins |-> <<>>])
<1> DEFINE w == [name |-> "workspace", splitree |-> NULL, wins |-> <<>>]
<1>1. scr \in Screen /\ WsType /\ ws[scr] \in Seq(Workspaces)
  BY DEF WorkspacesInv, PhaseType, WsType, OptWorkspace, Reading
<1>2. w \in Workspaces /\ w.splitree = NULL
  <2>1. <<>> \in Seq(Frame)
    OBVIOUS
  <2> QED
    BY <2>1, WorkspaceFields, NullIsTree
<1>3. ws' = [ws EXCEPT ![scr] = Append(ws[scr], w)]
  BY DEF OptWorkspace
<1> HIDE DEF w
<1>4. Becomes(ws[scr], Append(ws[scr], w), {}, {NULL})
  BY <1>1, <1>2, RowAppended
<1> QED
  BY <1>1, <1>3, <1>4, KeptBy DEF w

LEMMA OptFrameKeeps ==
  ASSUME WorkspacesInv, NEW f \in Frame, OptFrame(f)
  PROVE  /\ Kept(scr, {}, {}) /\ Len(ws[scr]) \in DOMAIN ws[scr]
         /\ ws'[scr] = [ws[scr] EXCEPT ![Len(ws[scr])] = [ws[scr][Len(ws[scr])] EXCEPT !.wins = Append(ws[scr][Len(ws[scr])].wins, f)]]
<1> DEFINE m == Len(ws[scr])
           o == ws[scr][m]
           w == [o EXCEPT !.wins = Append(o.wins, f)]
<1>1. ws' = [ws EXCEPT ![scr] = [ws[scr] EXCEPT ![m] = w]] /\ phase = "read" /\ Depth > 0
  BY DEF OptFrame, Reading
<1>2. scr \in Screen /\ ws[scr] \in Seq(Workspaces) /\ m \in DOMAIN ws[scr] /\ o \in Workspaces /\ WsType
  BY <1>1, LastWorkspace DEF WorkspacesInv
<1> HIDE DEF m, o
<1>3. o.wins \in Seq(Frame)
  BY <1>2, WorkspaceFields
<1>4. Append(o.wins, f) \in Seq(Frame) /\ ToSet(Append(o.wins, f)) = ToSet(o.wins) \cup {f}
  BY <1>3, AppendFacts
<1>5. w \in Workspaces /\ w.splitree = o.splitree /\ w.wins = Append(o.wins, f)
  BY <1>2, <1>4 DEF Workspaces
<1> HIDE DEF w
<1>6. Children(o) \subseteq Children(w)
  BY <1>4, <1>5 DEF Children
<1>7. Becomes(ws[scr], [ws[scr] EXCEPT ![m] = w], {}, {})
  BY <1>2, <1>5, <1>6, RowSet DEF o
<1>8. Kept(scr, {}, {}) /\ ws'[scr] = [ws[scr] EXCEPT ![m] = w]
  BY <1>1, <1>2, <1>7, KeptBy
<1> QED
  BY <1>2, <1>8 DEF w, o, m

LEMMA OptWorkspaceEndKeeps ==
  ASSUME WorkspacesInv, OptWorkspaceEnd
  PROVE  LET m    == Len(ws[scr])
             tree == reader.open[1].tl
             w    == [ws[scr][m] EXCEPT !.splitree = tree]
         IN  /\ Kept(scr, {}, {tree}) /\ m \in DOMAIN ws[scr] /\ tree \in Trees /\ w \in Workspaces
             /\ w.name = ws[scr][m].name /\ w.splitree = tree
             /\ tree = NULL => ws'[scr] = SubSeq(ws[scr], 1, m - 1)
             /\ tree # NULL => ws'[scr] = [ws[scr] EXCEPT ![m] = w]
<1> DEFINE m == Len(ws[scr])
           tree == reader.open[1].tl
           w == [ws[scr][m] EXCEPT !.splitree = tree]
           front == SubSeq(ws[scr], 1, m - 1)
<1>1. /\ tree = NULL => ws' = [ws EXCEPT ![scr] = front]
      /\ tree # NULL => ws' = [ws EXCEPT ![scr] = [ws[scr] EXCEPT ![m] = w]]
      /\ phase = "read" /\ Depth = 1
  BY DEF OptWorkspaceEnd, Ends
<1>2. /\ scr \in Screen /\ ws[scr] \in Seq(Workspaces) /\ m \in DOMAIN ws[scr] /\ WsType
      /\ OpenOk(reader.open) /\ reader.open # <<>> /\ Len(reader.open) = 1
      /\ ws[scr][m] \in Workspaces /\ Children(ws[scr][m]) = FoundIn(reader.open)
  BY <1>1, LastWorkspace DEF Depth, WorkspacesInv
<1>3. /\ tree \in Trees /\ (tree = NULL => Children(ws[scr][m]) = {})
  <2>1. reader.open[1] \in OpenTrees /\ SidesOk(reader.open[1], MaxDepth + 1 - 1)
    BY <1>2, LastOpen
  <2>2. DOMAIN reader.open = {1}
    BY <1>2 DEF OpenOk
  <2>3. FoundIn(reader.open) = SidesLeaves(reader.open[1])
    BY <2>2 DEF FoundIn
  <2> QED
    BY <1>2, <2>1, <2>3, NullIsTree DEF SidesLeaves, SidesOk, OpenTrees
<1>4. /\ w \in Workspaces /\ w.name = ws[scr][m].name /\ w.splitree = tree /\ Children(w) = Children(ws[scr][m])
  BY <1>2, <1>3 DEF Workspaces, Children
<1> HIDE DEF w, tree
<1>5. CASE tree = NULL
  <2>1. front \in Seq(Workspaces) /\ LeftOut(ws[scr], m, front)
    <3>1. ws[scr] # <<>>
      BY <1>2
    <3> QED
      BY <1>2, <3>1, FrontLeaves
  <2> HIDE DEF front
  <2>2. Becomes(ws[scr], front, Children(ws[scr][m]), {})
    BY <1>2, <2>1, RowLeft
  <2>3. Becomes(ws[scr], front, {}, {tree})
    BY <1>3, <1>5, <2>2 DEF Becomes
  <2>4. Kept(scr, {}, {tree}) /\ ws'[scr] = front
    BY <1>1, <1>2, <1>5, <2>3, KeptBy
  <2> QED
    BY <1>2, <1>3, <1>4, <1>5, <2>4 DEF front, w, tree
<1>6. CASE tree # NULL
  <2>1. Becomes(ws[scr], [ws[scr] EXCEPT ![m] = w], {}, {tree})
    BY <1>2, <1>4, RowSet
  <2>2. Kept(scr, {}, {tree}) /\ ws'[scr] = [ws[scr] EXCEPT ![m] = w]
    BY <1>1, <1>2, <1>6, <2>1, KeptBy
  <2> QED
    BY <1>2, <1>3, <1>4, <1>6, <2>2 DEF w, tree
<1> QED
  BY <1>5, <1>6

LEMMA FrameAppended ==
  ASSUME WsType, NEW s \in Screen, NEW name \in {"workspace", "unreadable"}, NEW f \in Frame,
         ws' = [ws EXCEPT ![s] = Append(ws[s], [name |-> name, splitree |-> f, wins |-> <<f>>])]
  PROVE  Kept(s, {}, {f}) /\ ws'[s] # <<>> /\ f \in FramesOf(s)'
<1> DEFINE w == [name |-> name, splitree |-> f, wins |-> <<f>>]
           q == Append(ws[s], w)
<1>1. ws[s] \in Seq(Workspaces)
  BY DEF WsType
<1>2. w \in Workspaces /\ w.splitree = f /\ Children(w) = {f}
  BY OneFrame DEF Good
<1> HIDE DEF w
<1>3. Becomes(ws[s], q, {}, {f}) /\ q # <<>>
  BY <1>1, <1>2, RowAppended
<1>4. Len(q) \in DOMAIN q /\ q[Len(q)] = w
  BY <1>1, <1>2, AppendFacts
<1>5. f \in FramesIn(q)
  BY <1>2, <1>4, InFrames
<1>6. ws' = [ws EXCEPT ![s] = q]
  BY DEF w
<1> HIDE DEF q
<1>7. Kept(s, {}, {f}) /\ ws'[s] = q
  BY <1>3, <1>6, KeptBy
<1> QED
  BY <1>3, <1>5, <1>7, FramesOfIs

LEMMA EndOfTextKeeps ==
  ASSUME WorkspacesInv, NEW f \in Frame, EndOfText(f)
  PROVE  /\ ws[scr] # <<>> => UNCHANGED <<idVars, ws, prop>>
         /\ ws[scr] = <<>> => Kept(scr, {}, {f})
         /\ ws'[scr] # <<>> /\ \A t \in Screen \ {scr} : ws'[t] = ws[t]
<1>1. WsType /\ scr \in Screen
  BY DEF WorkspacesInv, PhaseType, EndOfText
<1>2. CASE ws[scr] # <<>>
  BY <1>2 DEF EndOfText
<1>3. CASE ws[scr] = <<>>
  <2>1. ws' = [ws EXCEPT ![scr] = <<[name |-> "workspace", splitree |-> f, wins |-> <<f>>]>>]
    BY <1>3 DEF EndOfText
  <2>2. <<[name |-> "workspace", splitree |-> f, wins |-> <<f>>]>>
          = Append(ws[scr], [name |-> "workspace", splitree |-> f, wins |-> <<f>>])
    BY <1>3
  <2>3. Kept(scr, {}, {f}) /\ ws'[scr] # <<>>
    BY <1>1, <2>1, <2>2, FrameAppended
  <2> QED
    BY <1>3, <2>3 DEF Kept
<1> QED
  BY <1>2, <1>3

LEMMA CreateWorkspaceKeeps ==
  ASSUME WorkspacesInv, NEW s \in Screen, NEW name \in {"workspace", "unreadable"}, NEW f \in Frame, CreateWorkspace(s, name, f)
  PROVE  Kept(s, {}, {f}) /\ ws'[s] # <<>>
BY FrameAppended DEF CreateWorkspace, WorkspacesInv

LEMMA SplitKeeps ==
  ASSUME WorkspacesInv, NEW s \in Screen, NEW i \in DOMAIN ws[s], NEW f \in Frame, NEW before \in BOOLEAN, NEW at,
         Split(s, i, at, f, before)
  PROVE  LET w == ws[s][i]
             tree == SplitAt(w.splitree, at, f, before)
         IN  /\ Kept(s, {}, {tree}) /\ ws'[s] # <<>>
             /\ Good(w) /\ w.splitree \in Trees /\ Proper(w.splitree) /\ Shallow(w.splitree) /\ f \notin Leaves(w.splitree)
             /\ at \in Leaves(w.splitree) \cup {w.splitree} /\ (before => at = w.splitree)
<1> DEFINE w == ws[s][i]
           tree == SplitAt(w.splitree, at, f, before)
           u == [w EXCEPT !.splitree = tree, !.wins = Append(w.wins, f)]
<1>1. /\ phase = "run" /\ InitFrameId(f, 0, Place)
      /\ Shallow(w.splitree) /\ at \in Leaves(w.splitree) \cup {w.splitree} /\ (before => at = w.splitree)
  BY DEF Split, Running
<1>2. ws' = [ws EXCEPT ![s] = [ws[s] EXCEPT ![i] = u]]
  <2>1. ws' = [ws EXCEPT ![s][i].splitree = tree, ![s][i].wins = Append(w.wins, f)]
    BY DEF Split, SplitAt
  <2>2. ws \in [Screen -> Seq(Workspaces)]
    BY DEF WorkspacesInv, WsType
  <2> HIDE DEF tree
  <2> QED
    BY <2>1, <2>2
<1>3. Good(w) /\ w.splitree \in Trees /\ Proper(w.splitree) /\ Leaves(w.splitree) = Children(w) /\ w.wins \in Seq(Frame)
  <2>1. Good(w)
    BY <1>1, AllGood DEF WorkspacesInv
  <2> QED
    BY <2>1, GoodIs DEF Good
<1>4. f \notin Live
  <2>1. 0 \in 0 .. INT_MAX
    BY FrameIdsAssumption
  <2> QED
    BY <1>1, <2>1, FrameMade
<1>5. ws \in AllWs /\ Live = AllFrames(ws) /\ ws[s] \in Seq(Workspaces) /\ WsType
  BY WsIs DEF WorkspacesInv, AllWs
<1>6. f \notin Children(w)
  BY <1>4, <1>5, InAllFrames
<1>7. tree \in Trees /\ Proper(tree) /\ Leaves(tree) = Leaves(w.splitree) \cup {f}
  <2>1. w.splitree \in Trees /\ Proper(w.splitree)
    BY <1>3
  <2> QED
    BY <1>1, <2>1, SplitMade
<1> HIDE DEF tree
<1>8. Good(u) /\ u.wins = Append(w.wins, f)
  BY <1>3, <1>6, <1>7, GoodGrows
<1>9. u \in Workspaces /\ u.splitree = tree
  BY <1>3, <1>8 DEF Good, Workspaces
<1> HIDE DEF u, w
<1>10. Children(w) \subseteq Children(u)
  <2>1. ToSet(Append(w.wins, f)) = ToSet(w.wins) \cup {f}
    BY <1>3, AppendFacts
  <2> QED
    BY <1>8, <2>1 DEF Children
<1>11. Becomes(ws[s], [ws[s] EXCEPT ![i] = u], {}, {tree}) /\ [ws[s] EXCEPT ![i] = u] # <<>>
  BY <1>5, <1>9, <1>10, RowSet DEF w
<1>12. Kept(s, {}, {tree}) /\ ws'[s] # <<>>
  BY <1>2, <1>5, <1>11, KeptBy
<1> QED
  BY <1>1, <1>3, <1>6, <1>12 DEF tree, w

LEMMA DestroyFrameKeeps ==
  ASSUME WorkspacesInv, NEW s \in Screen, NEW i \in DOMAIN ws[s], NEW f \in Frame, DestroyFrame(s, i, f)
  PROVE  LET w == ws[s][i]
             tree == Replaced(w.splitree, f, NULL)
         IN  /\ Kept(s, {f}, {tree}) /\ ws'[s] # <<>>
             /\ Good(w) /\ w.splitree \in Trees /\ Proper(w.splitree) /\ f \in Leaves(w.splitree)
             /\ tree # NULL => Leaves(tree) \subseteq FramesOf(s)'
<1> DEFINE w == ws[s][i]
           tree == Replaced(w.splitree, f, NULL)
           u == [w EXCEPT !.splitree = tree, !.wins = Unlinked(w.wins, f)]
           v == RemoveAt(ws[s], i)
<1>1. phase = "run" /\ f \in Leaves(w.splitree) /\ (tree = NULL => Len(ws[s]) > 1)
  BY DEF DestroyFrame, Running
<1>2. tree = NULL => ws' = [ws EXCEPT ![s] = v]
  BY DEF DestroyFrame
<1>3. tree # NULL => ws' = [ws EXCEPT ![s] = [ws[s] EXCEPT ![i] = u]]
  <2> SUFFICES ASSUME tree # NULL PROVE ws' = [ws EXCEPT ![s] = [ws[s] EXCEPT ![i] = u]]
    OBVIOUS
  <2>1. ws' = [ws EXCEPT ![s][i].splitree = tree, ![s][i].wins = Unlinked(w.wins, f)]
    BY DEF DestroyFrame
  <2>2. ws \in [Screen -> Seq(Workspaces)]
    BY DEF WorkspacesInv, WsType
  <2> HIDE DEF tree
  <2> QED
    BY <2>1, <2>2
<1>4. Good(w) /\ w.splitree \in Trees /\ Proper(w.splitree) /\ Leaves(w.splitree) = Children(w) /\ w.wins \in Seq(Frame)
  <2>1. Good(w)
    BY <1>1, AllGood DEF WorkspacesInv
  <2> QED
    BY <2>1, GoodIs DEF Good
<1>5. ws \in AllWs /\ Sole(ws) /\ ws[s] \in Seq(Workspaces) /\ WsType
  BY WsIs DEF WorkspacesInv, AllWs
<1>6. IsInjective(w.wins)
  BY <1>5 DEF Sole
<1>7. Removed(w.splitree, f, MaxDepth)
  <2>1. MaxDepth \in 0 .. MaxDepth /\ w.splitree \in TreesOf[MaxDepth]
    BY <1>4, SessionAssumption DEF Trees
  <2> QED
    BY <1>4, <2>1, FrameRemoved
<1>8. CASE tree = NULL
  <2>1. Children(w) = {f}
    <3>1. Tips[w.splitree] = {f}
      BY <1>7, <1>8 DEF Removed
    <3>2. f # NULL
      BY SessionAssumption
    <3> QED
      BY <1>4, <3>1, <3>2 DEF Leaves
  <2>2. v \in Seq(Workspaces) /\ LeftOut(ws[s], i, v)
    BY <1>5, RemoveAtLeaves
  <2>3. v # <<>>
    <3>1. Len(v) = Len(ws[s]) - 1 /\ Len(ws[s]) > 1 /\ Len(ws[s]) \in Nat
      BY <1>1, <1>5, <1>8, <2>2 DEF LeftOut
    <3> HIDE DEF v
    <3> QED
      BY <3>1
  <2> HIDE DEF v
  <2>4. Becomes(ws[s], v, {f}, {})
    BY <1>5, <2>1, <2>2, RowLeft
  <2>5. Becomes(ws[s], v, {f}, {tree})
    BY <2>4 DEF Becomes
  <2>6. Kept(s, {f}, {tree}) /\ ws'[s] = v
    BY <1>2, <1>5, <1>8, <2>5, KeptBy
  <2> QED
    BY <1>1, <1>4, <1>8, <2>3, <2>6
<1>9. CASE tree # NULL
  <2>1. tree \in Trees /\ Leaves(tree) = Leaves(w.splitree) \ {f}
    BY <1>7, <1>9 DEF Removed, Trees, Leaves
  <2> HIDE DEF tree
  <2>2. Unlinked(w.wins, f) \in Seq(Frame) /\ ToSet(Unlinked(w.wins, f)) = ToSet(w.wins) \ {f}
    <3> DEFINE q == w.wins
    <3>1. q \in Seq(Frame) /\ IsInjective(q)
      BY <1>4, <1>6
    <3> HIDE DEF q
    <3>2. Unlinked(q, f) \in Seq(Frame) /\ ToSet(Unlinked(q, f)) = ToSet(q) \ {f}
      BY <3>1, UnlinkedFacts
    <3> QED
      BY <3>2 DEF q
  <2>3. u \in Workspaces /\ u.splitree = tree /\ u.wins = Unlinked(w.wins, f)
    <3>1. w \in Workspaces
      BY <1>4 DEF Good
    <3> HIDE DEF w
    <3> QED
      BY <2>1, <2>2, <3>1 DEF Workspaces
  <2>4. Children(u) = Children(w) \ {f}
    BY <2>2, <2>3 DEF Children
  <2> HIDE DEF u
  <2>5. Becomes(ws[s], [ws[s] EXCEPT ![i] = u], {f}, {tree}) /\ [ws[s] EXCEPT ![i] = u] # <<>>
    <3>1. Children(ws[s][i]) \ {f} \subseteq Children(u)
      BY <2>4
    <3> QED
      BY <1>5, <2>3, <3>1, RowSet
  <2>6. Kept(s, {f}, {tree}) /\ ws'[s] # <<>> /\ ws'[s] = [ws[s] EXCEPT ![i] = u]
    BY <1>3, <1>5, <1>9, <2>5, KeptBy
  <2>7. Leaves(tree) \subseteq FramesOf(s)'
    <3>1. i \in DOMAIN ws'[s] /\ ws'[s][i] = u
      BY <1>5, <2>3, <2>6, EntrySet
    <3>2. Children(u) \subseteq FramesIn(ws'[s])
      BY <3>1, InFrames
    <3> QED
      BY <1>4, <2>1, <2>4, <3>2, FramesOfIs
  <2> QED
    BY <1>1, <1>4, <2>6, <2>7 DEF tree
<1> QED
  BY <1>8, <1>9

LEMMA DeinitFrameKeeps ==
  ASSUME WorkspacesInv, DeinitFrame
  PROVE  LET f == Head(ws[scr][1].wins) IN
         Kept(scr, {f}, {}) /\ f \in Frame /\ FreeFrameId(f, Place)
<1> DEFINE w == ws[scr][1]
           f == Head(w.wins)
           u == [w EXCEPT !.wins = Tail(w.wins)]
           v == Tail(ws[scr])
<1>1. phase = "deinit" /\ FreeFrameId(f, Place) /\ ws[scr] # <<>>
  BY DEF DeinitFrame
<1>2. /\ Len(w.wins) = 1 => ws' = [ws EXCEPT ![scr] = v]
      /\ Len(w.wins) # 1 => ws' = [ws EXCEPT ![scr] = [ws[scr] EXCEPT ![1] = u]]
  BY DEF DeinitFrame
<1>3. /\ scr \in Screen /\ ws[scr] \in Seq(Workspaces) /\ WsType /\ TreesInv
  BY <1>1, WsIs DEF WorkspacesInv, PhaseType, WsType
<1>4. 1 \in DOMAIN ws[scr] /\ w \in Workspaces /\ v \in Seq(Workspaces) /\ LeftOut(ws[scr], 1, v)
  BY <1>1, <1>3, TailLeaves
<1>5. w.wins \in Seq(Frame) /\ w.wins # <<>>
  BY <1>1, <1>3, <1>4, WorkspaceFields DEF TreesInv
<1>6. f \in Frame /\ Tail(w.wins) \in Seq(Frame) /\ ToSet(w.wins) \ {f} \subseteq ToSet(Tail(w.wins))
  <2> DEFINE q == w.wins
             r == Tail(q)
  <2>1. q \in Seq(Frame) /\ r \in Seq(Frame) /\ LeftOut(q, 1, r) /\ 1 \in DOMAIN q /\ f = q[1]
    BY <1>5, TailLeaves
  <2> HIDE DEF q, r
  <2>2. Len(r) = Len(q) - 1 /\ (\A j \in 1 .. Len(q) - 1 : r[j] = q[j + 1]) /\ Len(q) \in Nat /\ Len(r) \in Nat
        /\ DOMAIN q = 1 .. Len(q) /\ DOMAIN r = 1 .. Len(r)
    BY <2>1 DEF LeftOut
  <2> HIDE DEF f
  <2>3. ASSUME NEW g \in ToSet(q), g # f PROVE g \in ToSet(r)
    <3>1. PICK k \in DOMAIN q : q[k] = g
      BY DEF ToSet
    <3>2. k - 1 \in DOMAIN r /\ r[k - 1] = g
      BY <2>1, <2>2, <2>3, <3>1
    <3> QED
      BY <3>2 DEF ToSet
  <2> QED
    BY <2>1, <2>3 DEF q, r
<1> HIDE DEF f
<1>7. CASE Len(w.wins) = 1
  <2>1. Children(w) = {f}
    <3>1. DOMAIN w.wins = {1} /\ f = w.wins[1]
      BY <1>5, <1>7 DEF f
    <3> QED
      BY <3>1 DEF Children, ToSet
  <2> HIDE DEF v
  <2>2. Becomes(ws[scr], v, {f}, {})
    BY <1>3, <1>4, <2>1, RowLeft
  <2> QED
    BY <1>1, <1>2, <1>3, <1>6, <1>7, <2>2, KeptBy DEF f
<1>8. CASE Len(w.wins) # 1
  <2>1. u \in Workspaces /\ u.splitree = w.splitree /\ u.wins = Tail(w.wins)
    <3> HIDE DEF w
    <3> QED
      BY <1>4, <1>6 DEF Workspaces
  <2>2. Children(w) \ {f} \subseteq Children(u)
    BY <1>6, <2>1 DEF Children
  <2> HIDE DEF u
  <2>3. Becomes(ws[scr], [ws[scr] EXCEPT ![1] = u], {f}, {})
    BY <1>3, <1>4, <2>1, <2>2, RowSet
  <2> QED
    BY <1>1, <1>2, <1>3, <1>6, <1>8, <2>3, KeptBy DEF f
<1> QED
  BY <1>7, <1>8

-----------------------------------------------------------------------------
(* No frame is twice in what is read, and so in any tree. *)

\* No frame is twice in the sections that are open.
SideOnce(o)  == o.tl \in OneEach /\ o.br \in OneEach /\ Leaves(o.tl) \cap Leaves(o.br) = {}
SidesOnce(open) ==
  /\ \A d \in DOMAIN open : SideOnce(open[d])
  /\ \A d, e \in DOMAIN open : d # e => SidesLeaves(open[d]) \cap SidesLeaves(open[e]) = {}

LEMMA NodeOnce == SideOnce(Node) /\ SidesLeaves(Node) = {} /\ NULL \in OneEach /\ Node \in OpenTrees
<1>1. NULL \in OneEach
  BY OneEachMade DEF Atoms
<1> QED
  BY <1>1, NullIsTree DEF SideOnce, SidesLeaves, Node, OpenTrees

LEMMA OpenedOnce ==
  ASSUME NEW open \in Seq(OpenTrees), SidesOnce(open)
  PROVE  SidesOnce(Append(open, Node))
<1> DEFINE more == Append(open, Node)
           n == Len(open)
<1>1. /\ n \in Nat /\ DOMAIN open = 1 .. n /\ DOMAIN more = 1 .. n + 1
      /\ \A d \in 1 .. n + 1 : more[d] = IF d = n + 1 THEN Node ELSE open[d]
  BY NodeOnce, AppendFacts
<1> HIDE DEF more, n
<1>2. ASSUME NEW d \in DOMAIN more PROVE SideOnce(more[d])
  BY <1>1, NodeOnce DEF SidesOnce
<1>3. ASSUME NEW d \in DOMAIN more, NEW e \in DOMAIN more, d # e
      PROVE  SidesLeaves(more[d]) \cap SidesLeaves(more[e]) = {}
  <2>1. CASE d = n + 1 \/ e = n + 1
    <3>1. SidesLeaves(more[d]) = {} \/ SidesLeaves(more[e]) = {}
      BY <1>1, <2>1, NodeOnce
    <3> QED
      BY <3>1
  <2>2. CASE d # n + 1 /\ e # n + 1
    <3>1. d \in DOMAIN open /\ e \in DOMAIN open /\ more[d] = open[d] /\ more[e] = open[e]
      BY <1>1, <2>2
    <3>2. SidesLeaves(open[d]) \cap SidesLeaves(open[e]) = {}
      BY <1>3, <3>1 DEF SidesOnce
    <3> QED
      BY <3>1, <3>2
  <2> QED
    BY <2>1, <2>2
<1>4. SidesOnce(more)
  BY <1>2, <1>3 DEF SidesOnce
<1> QED
  BY <1>4 DEF more

LEMMA PutOnce ==
  ASSUME NEW open, OpenOk(open), open # <<>>, ~FullIn(open), SidesOnce(open),
         NEW tree \in TreesOf[MaxDepth + 1 - Len(open)], tree # NULL, Proper(tree),
         tree \in OneEach, Leaves(tree) \cap FoundIn(open) = {}
  PROVE  SidesOnce(Put(open, tree))
<1> DEFINE more == Put(open, tree)
           n == Len(open)
           o == open[n]
           p == LastPut(open, tree)
<1>1. /\ n \in DOMAIN open /\ DOMAIN open = 1 .. n /\ DOMAIN more = 1 .. n
      /\ \A d \in DOMAIN open : more[d] = IF d = n THEN p ELSE open[d]
  <2>1. n \in DOMAIN open /\ open \in Seq(OpenTrees)
    BY LastOpen DEF OpenOk
  <2>2. more = [open EXCEPT ![n] = p]
    BY PutIs
  <2> HIDE DEF more, p
  <2> QED
    BY <2>1, <2>2
<1>2. SidesLeaves(p) = SidesLeaves(o) \cup Leaves(tree)
  BY LastPutOk
<1>3. \A d \in DOMAIN open : Leaves(tree) \cap SidesLeaves(open[d]) = {}
  BY DEF FoundIn
<1>4. SideOnce(o) /\ Leaves(tree) \cap Leaves(o.tl) = {} /\ Leaves(tree) \cap Leaves(o.br) = {}
  <2>1. Leaves(tree) \cap SidesLeaves(o) = {}
    BY <1>1, <1>3
  <2> QED
    BY <1>1, <2>1 DEF SidesOnce, SidesLeaves
<1>5. SideOnce(p)
  <2>1. CASE n > 1 /\ o.tl # NULL
    <3>1. p.tl = o.tl /\ p.br = tree
      BY <2>1 DEF LastPut
    <3> QED
      BY <1>4, <3>1 DEF SideOnce
  <2>2. CASE ~(n > 1 /\ o.tl # NULL)
    <3>1. p.tl = tree /\ p.br = o.br
      BY <2>2 DEF LastPut
    <3> QED
      BY <1>4, <3>1 DEF SideOnce
  <2> QED
    BY <2>1, <2>2
<1> HIDE DEF more, p, n
<1>6. ASSUME NEW d \in DOMAIN more PROVE SideOnce(more[d])
  BY <1>1, <1>5 DEF SidesOnce
<1>7. ASSUME NEW d \in DOMAIN more, NEW e \in DOMAIN more, d # e
      PROVE  SidesLeaves(more[d]) \cap SidesLeaves(more[e]) = {}
  <2>0. d \in DOMAIN open /\ e \in DOMAIN open
    BY <1>1
  <2>1. SidesLeaves(open[d]) \cap SidesLeaves(open[e]) = {}
    BY <1>7, <2>0 DEF SidesOnce
  <2>2. SidesLeaves(more[d]) \subseteq SidesLeaves(open[d]) \cup Leaves(tree)
        /\ (d # n => SidesLeaves(more[d]) = SidesLeaves(open[d]))
    BY <1>1, <1>2, <2>0
  <2>3. SidesLeaves(more[e]) \subseteq SidesLeaves(open[e]) \cup Leaves(tree)
        /\ (e # n => SidesLeaves(more[e]) = SidesLeaves(open[e]))
    BY <1>1, <1>2, <2>0
  <2>4. Leaves(tree) \cap SidesLeaves(open[d]) = {} /\ Leaves(tree) \cap SidesLeaves(open[e]) = {}
    BY <1>3, <2>0
  <2>5. d # n \/ e # n
    BY <1>7
  <2> QED
    BY <2>1, <2>2, <2>3, <2>4, <2>5
<1>8. SidesOnce(more)
  BY <1>6, <1>7 DEF SidesOnce
<1> QED
  BY <1>8 DEF more

\* A split that is closed: the sections that stay open, and what is left of it.
LEMMA ClosedOnce ==
  ASSUME NEW open, OpenOk(open), Len(open) > 1, SidesOnce(open)
  PROVE  LET o     == open[Len(open)]
             front == SubSeq(open, 1, Len(open) - 1)
         IN  /\ SidesOnce(front) /\ KeptOf(o) \in OneEach
             /\ Leaves(KeptOf(o)) \cap FoundIn(front) = {}
<1> DEFINE n == Len(open)
           o == open[n]
           front == SubSeq(open, 1, n - 1)
           tree == KeptOf(o)
<1>1. /\ OpenOk(front) /\ n \in Nat /\ Len(front) = n - 1 /\ n \in DOMAIN open /\ DOMAIN open = 1 .. n
      /\ \A d \in 1 .. n - 1 : front[d] = open[d]
  BY FrontOpen DEF OpenOk
<1>2. DOMAIN front = 1 .. n - 1
  <2> HIDE DEF front, n
  <2> QED
    BY <1>1 DEF OpenOk
<1> HIDE DEF front
<1>3. SidesOnce(front)
  <2>1. \A d \in DOMAIN front : d \in DOMAIN open /\ front[d] = open[d]
    BY <1>1, <1>2
  <2> QED
    BY <2>1 DEF SidesOnce
<1>4. /\ tree \in TreesOf[MaxDepth + 1 - (n - 1)] /\ Leaves(tree) = SidesLeaves(o)
  BY KeptOk
<1>5. tree \in OneEach
  <2>1. SideOnce(o)
    BY <1>1 DEF SidesOnce
  <2>2. CASE o.br = NULL
    BY <2>1, <2>2 DEF KeptOf, SideOnce
  <2>3. CASE o.br # NULL
    <3>1. o \in OpenTrees /\ o = [tl |-> o.tl, br |-> o.br]
      BY <1>1, OpenTreeIs DEF OpenOk
    <3>2. tree = o
      BY <2>3 DEF KeptOf
    <3>3. o \in Trees
      <4>1. MaxDepth + 1 - (n - 1) \in 0 .. MaxDepth
        <5>1. n \in 1 .. MaxDepth + 1
          BY <1>1, LastOpen
        <5> QED
          BY <1>1, <5>1, SessionAssumption
      <4> QED
        BY <1>4, <3>2, <4>1, TreesGrow
    <3> HIDE DEF o
    <3>4. o \in OneEach
      BY <2>1, <3>1, <3>3, OneEachMade DEF Joins, SideOnce
    <3> QED
      BY <3>2, <3>4
  <2> QED
    BY <2>2, <2>3
<1>6. Leaves(tree) \cap FoundIn(front) = {}
  <2>1. ASSUME NEW d \in DOMAIN front PROVE SidesLeaves(o) \cap SidesLeaves(front[d]) = {}
    <3>1. d \in DOMAIN open /\ d # n /\ front[d] = open[d]
      BY <1>1, <1>2
    <3>2. SidesLeaves(open[n]) \cap SidesLeaves(open[d]) = {}
      BY <1>1, <3>1 DEF SidesOnce
    <3> QED
      BY <3>1, <3>2
  <2> HIDE DEF tree, o
  <2> QED
    BY <1>4, <2>1 DEF FoundIn
<1> QED
  BY <1>3, <1>5, <1>6 DEF front

\* No frame is twice in a tree, or in the sections that are open.
SingleInv ==
  /\ \A s \in Screen : TreesIn(ws[s]) \subseteq OneEach
  /\ phase = "read" => SidesOnce(reader.open)

LEMMA KeptSingle ==
  ASSUME SingleInv, NEW s, NEW lost, NEW new, Kept(s, lost, new), new \subseteq OneEach
  PROVE  \A t \in Screen : TreesIn(ws'[t]) \subseteq OneEach
<1> SUFFICES ASSUME NEW t \in Screen PROVE TreesIn(ws'[t]) \subseteq OneEach
  OBVIOUS
<1>1. CASE t = s
  <2>1. TreesIn(ws'[s]) \subseteq TreesIn(ws[s]) \cup new
    BY DEF Kept, Becomes
  <2>2. TreesIn(ws[s]) \subseteq OneEach
    BY <1>1 DEF SingleInv
  <2> QED
    BY <1>1, <2>1, <2>2
<1>2. CASE t # s
  BY <1>2 DEF Kept, SingleInv
<1> QED
  BY <1>1, <1>2

LEMMA SplitSingle ==
  ASSUME NEW whole \in OneEach, Proper(whole), Shallow(whole), NEW f \in Frame, f \notin Leaves(whole),
         NEW at \in Leaves(whole) \cup {whole}, NEW before \in BOOLEAN, before => at = whole
  PROVE  SplitAt(whole, at, f, before) \in OneEach
<1> DEFINE tree == SplitAt(whole, at, f, before)
<1>1. whole \in Trees /\ Joins(OneEach) /\ Atoms \subseteq OneEach
  BY OneEachMade
<1>2. tree \in Trees
  BY <1>1, SplitMade
<1>3. Leaves(f) = {f} /\ f \in OneEach /\ f \in Trees
  BY <1>1, LeavesAre DEF Atoms
<1>4. CASE at = whole /\ before
  <2>1. tree = [tl |-> f, br |-> whole]
    BY <1>4 DEF SplitAt
  <2>2. Leaves(f) \cap Leaves(whole) = {}
    BY <1>3
  <2> QED
    BY <1>1, <1>2, <1>3, <2>1, <2>2 DEF Joins
<1>5. CASE at = whole /\ ~before
  <2>1. tree = [tl |-> whole, br |-> f]
    BY <1>5 DEF SplitAt
  <2>2. Leaves(whole) \cap Leaves(f) = {}
    BY <1>3
  <2> QED
    BY <1>1, <1>2, <1>3, <2>1, <2>2 DEF Joins
<1>6. CASE at # whole
  <2> DEFINE new == [tl |-> at, br |-> f]
  <2>1. tree = Replaced(whole, at, new) /\ at \in Leaves(whole)
    BY <1>6 DEF SplitAt
  <2>2. at \in Frame /\ at # f /\ Leaves(at) = {at} /\ at \in OneEach
    BY <1>1, <2>1, LeavesAre DEF Atoms
  <2>3. 1 \in 0 .. MaxDepth /\ 0 \in 0 .. MaxDepth /\ 1 > 0 /\ 1 - 1 = 0 /\ at \in TreesOf[0] /\ f \in TreesOf[0]
    BY <2>2, SessionAssumption, AtomsAreTrees DEF Atoms
  <2>4. new \in TreesOf[1] /\ IsSplit(new) /\ Tips[new] = Tips[at] \cup Tips[f]
    <3>1. at \in TreesOf[1 - 1] /\ f \in TreesOf[1 - 1]
      BY <2>3
    <3> QED
      BY <2>3, <3>1, SplitOfTrees, TipsOfSplit
  <2>5. new \in Trees
    BY <2>3, <2>4, TreesGrow
  <2>6. Leaves(at) \cap Leaves(f) = {}
    BY <1>3, <2>2
  <2>7. new \in OneEach
    BY <1>1, <1>3, <2>2, <2>5, <2>6 DEF Joins
  <2>8. Tips[new] = {at, f}
    BY <1>3, <1>1, <2>2, <2>4, NoTips, OneEachMade
  <2>9. Tips[whole] \cap Tips[new] \subseteq {at} /\ at \in Tips[new]
    <3>1. f # NULL
      BY SessionAssumption
    <3>2. f \notin Tips[whole]
      BY <3>1 DEF Leaves
    <3> QED
      BY <2>8, <3>2
  <2>10. whole \in TreesOf[MaxDepth - 1]
    BY DEF Shallow
  <2> HIDE DEF new
  <2>11. Replaced(whole, at, new) \in OneEach
    BY <2>2, <2>4, <2>7, <2>9, <2>10, SplitOnce
  <2> QED
    BY <2>1, <2>11
<1> QED
  BY <1>4, <1>5, <1>6

LEMMA FoundIsLive ==
  ASSUME WorkspacesInv, phase = "read", Depth > 0
  PROVE  FoundIn(reader.open) \subseteq Live
<1>1. /\ scr \in Screen /\ Len(ws[scr]) \in DOMAIN ws[scr]
      /\ Children(ws[scr][Len(ws[scr])]) = FoundIn(reader.open)
  BY LastWorkspace
<1>2. Live = AllFrames(ws)
  BY WsIs DEF WorkspacesInv
<1> QED
  BY <1>1, <1>2, InAllFrames

LEMMA SingleReads ==
  ASSUME SingleInv, UNCHANGED ws, phase' = "read" => SidesOnce(reader'.open)
  PROVE  SingleInv'
BY DEF SingleInv

LEMMA NoneOnce == SidesOnce(<<>>)
BY DEF SidesOnce

LEMMA EndedReader ==
  ASSUME FilesType, NEW open, reader' = [reader EXCEPT !.rest = After, !.open = open]
  PROVE  reader'.rest = After /\ reader'.open = open /\ reader'.skip = reader.skip
<1>1. reader \in [rest : Seq(Items), open : Seq(OpenTrees), skip : Nat]
  BY DEF FilesType
<1>2. reader' = [rest |-> After, open |-> open, skip |-> reader.skip]
  BY <1>1
<1> QED
  BY <1>2

\* What opt_split_end makes of the splits that are open.
Folded(open) ==
  LET front == SubSeq(open, 1, Len(open) - 1)
      tree  == KeptOf(open[Len(open)])
  IN  IF tree = NULL THEN front ELSE Put(front, tree)

LEMMA OptSplitEndIs ==
  ASSUME WorkspacesInv, OptSplitEnd
  PROVE  /\ phase = "read" /\ OpenOk(reader.open) /\ Len(reader.open) > 1 /\ reader.open # <<>>
         /\ UNCHANGED <<idVars, phase, scr, files, ws, clients, prop, root, promise, starts, commands>>
         /\ reader'.rest = After /\ reader'.open = Folded(reader.open) /\ reader'.skip = reader.skip
         /\ ~(reader.rest # <<>> /\ (Next1.k # "end" \/ reader.skip > 0))
<1>1. /\ FilesType /\ phase = "read" /\ Len(reader.open) > 1
      /\ UNCHANGED <<idVars, phase, scr, files, ws, clients, prop, root, promise, starts, commands>>
      /\ ~(reader.rest # <<>> /\ (Next1.k # "end" \/ reader.skip > 0))
      /\ reader' = [reader EXCEPT !.rest = After, !.open = Folded(reader.open)]
  BY DEF OptSplitEnd, Ends, Depth, WorkspacesInv, Folded
<1>2. OpenOk(reader.open) /\ reader.open # <<>>
  BY <1>1, ReaderFields DEF WorkspacesInv, ReaderInv, Depth
<1> QED
  BY <1>1, <1>2, EndedReader

LEMMA OptSplitEndSingle ==
  ASSUME WorkspacesInv, SingleInv, OptSplitEnd
  PROVE  SingleInv'
<1> DEFINE open == reader.open
           o == open[Len(open)]
           front == SubSeq(open, 1, Len(open) - 1)
           tree == KeptOf(o)
<1>1. /\ phase = "read" /\ OpenOk(open) /\ Len(open) > 1 /\ open # <<>> /\ UNCHANGED ws
      /\ reader'.open = Folded(open)
  BY OptSplitEndIs
<1>2. SidesOnce(open)
  BY <1>1 DEF SingleInv
<1> HIDE DEF open
<1>3. SidesOnce(front) /\ tree \in OneEach /\ Leaves(tree) \cap FoundIn(front) = {}
  BY <1>1, <1>2, ClosedOnce
<1>4. OpenOk(front) /\ front # <<>> /\ ~FullIn(front) /\ Len(open) \in Nat /\ Len(front) = Len(open) - 1
  BY <1>1, FrontOpen
<1>5. tree \in TreesOf[MaxDepth + 1 - Len(front)] /\ (tree # NULL => Proper(tree))
  BY <1>1, <1>4, KeptOk
<1> HIDE DEF front, tree
<1>6. SidesOnce(IF tree = NULL THEN front ELSE Put(front, tree))
  <2>1. CASE tree = NULL
    BY <1>3, <2>1
  <2>2. CASE tree # NULL
    <3>1. SidesOnce(Put(front, tree))
      BY <1>3, <1>4, <1>5, <2>2, PutOnce
    <3> QED
      BY <2>2, <3>1
  <2> QED
    BY <2>1, <2>2
<1>7. Folded(open) = IF tree = NULL THEN front ELSE Put(front, tree)
  BY DEF Folded, front, tree
<1>8. SidesOnce(reader'.open)
  BY <1>1, <1>6, <1>7
<1> QED
  BY <1>1, <1>8, SingleReads

LEMMA OptFrameIs ==
  ASSUME WorkspacesInv, NEW f \in Frame, OptFrame(f)
  PROVE  /\ phase = "read" /\ reader.rest # <<>> /\ reader.skip = 0 /\ Depth > 0
         /\ OpenOk(reader.open) /\ reader.open # <<>> /\ ~FullIn(reader.open)
         /\ Next1 \in Items /\ Next1.k = "frame" /\ Next1.id \in 0 .. INT_MAX /\ InitFrameId(f, Next1.id, Place)
         /\ reader'.rest = Tail(reader.rest) /\ reader'.open = Put(reader.open, f) /\ reader'.skip = 0
         /\ f \notin Live /\ Live' = Live \cup {f}
<1>1. /\ phase = "read" /\ reader.rest # <<>> /\ reader.skip = 0 /\ Depth > 0 /\ ~Full
      /\ Next1.k = "frame" /\ InitFrameId(f, Next1.id, Place) /\ Read(Put(reader.open, f), 0) /\ FilesType
  BY DEF OptFrame, Reading, WorkspacesInv
<1>2. OpenOk(reader.open) /\ reader.open # <<>>
  BY <1>1, LastWorkspace
<1>3. ~FullIn(reader.open)
  BY <1>1, FullIs
<1>4. Next1 \in Items /\ Next1.id \in 0 .. INT_MAX
  BY <1>1, ReaderFields
<1>5. f \notin Live /\ Live' = Live \cup {f}
  BY <1>1, <1>4, FrameMade
<1>6. reader'.rest = Tail(reader.rest) /\ reader'.open = Put(reader.open, f) /\ reader'.skip = 0
  BY <1>1 DEF Read
<1> QED
  BY <1>1, <1>2, <1>3, <1>4, <1>5, <1>6

LEMMA FrameIsTree ==
  ASSUME NEW f \in Frame, NEW n \in 0 .. MaxDepth
  PROVE  f \in TreesOf[n] /\ f # NULL /\ Proper(f) /\ Leaves(f) = {f} /\ f \in OneEach /\ f \in Trees
<1>1. f \in Atoms /\ f \in Trees /\ f # NULL
  BY AtomsAreTrees, SessionAssumption DEF Atoms
<1>2. Tips[f] = {f}
  BY <1>1, NoTips
<1>3. f \in OneEach
  BY <1>1, OneEachMade
<1>4. f \in TreesOf[n]
  BY <1>1, AtomsAreTrees
<1> QED
  BY <1>1, <1>2, <1>3, <1>4 DEF Proper, Leaves

LEMMA OptFrameSingle ==
  ASSUME WorkspacesInv, SingleInv, NEW f \in Frame, OptFrame(f)
  PROVE  SingleInv'
<1>1. /\ phase = "read" /\ OpenOk(reader.open) /\ reader.open # <<>> /\ ~FullIn(reader.open) /\ Depth > 0
      /\ reader'.open = Put(reader.open, f) /\ f \notin Live
  BY OptFrameIs
<1>2. MaxDepth + 1 - Len(reader.open) \in 0 .. MaxDepth
  BY <1>1, LastOpen
<1>3. f \in TreesOf[MaxDepth + 1 - Len(reader.open)] /\ f # NULL /\ Proper(f) /\ Leaves(f) = {f} /\ f \in OneEach
  BY <1>2, FrameIsTree
<1>4. FoundIn(reader.open) \subseteq Live
  BY <1>1, FoundIsLive
<1>5. Leaves(f) \cap FoundIn(reader.open) = {}
  BY <1>1, <1>3, <1>4
<1>6. SidesOnce(reader.open)
  BY <1>1 DEF SingleInv
<1>7. SidesOnce(reader'.open)
  BY <1>1, <1>3, <1>5, <1>6, PutOnce
<1>8. Kept(scr, {}, {})
  BY OptFrameKeeps
<1> QED
  BY <1>7, <1>8, KeptSingle DEF SingleInv

LEMMA OptWorkspaceSingle ==
  ASSUME WorkspacesInv, SingleInv, OptWorkspace
  PROVE  SingleInv'
<1>1. reader'.open = <<Node>>
  BY DEF OptWorkspace, Read
<1>2. <<Node>> = Append(<<>>, Node) /\ <<>> \in Seq(OpenTrees)
  OBVIOUS
<1>3. SidesOnce(<<Node>>)
  BY <1>2, NoneOnce, OpenedOnce
<1>4. Kept(scr, {}, {NULL}) /\ NULL \in OneEach
  BY OptWorkspaceKeeps, NodeOnce
<1>5. {NULL} \subseteq OneEach
  BY <1>4
<1> QED
  BY <1>1, <1>3, <1>4, <1>5, KeptSingle DEF SingleInv

LEMMA OptSplitSingle ==
  ASSUME WorkspacesInv, SingleInv, OptSplit
  PROVE  SingleInv'
<1>1. phase = "read" /\ UNCHANGED ws /\ reader'.open = Append(reader.open, Node) /\ FilesType
  BY DEF OptSplit, Reading, Read, WorkspacesInv
<1>2. reader.open \in Seq(OpenTrees) /\ SidesOnce(reader.open)
  BY <1>1, ReaderFields DEF SingleInv
<1> QED
  BY <1>1, <1>2, OpenedOnce, SingleReads

LEMMA OptWorkspaceEndIs ==
  ASSUME WorkspacesInv, OptWorkspaceEnd
  PROVE  /\ phase = "read" /\ Len(reader.open) = 1 /\ OpenOk(reader.open) /\ reader.open # <<>>
         /\ UNCHANGED <<idVars, phase, scr, files, clients, prop, root, promise, starts, commands>>
         /\ reader'.rest = After /\ reader'.open = <<>> /\ reader'.skip = reader.skip
         /\ ~(reader.rest # <<>> /\ (Next1.k # "end" \/ reader.skip > 0))
<1>1. /\ FilesType /\ phase = "read" /\ Len(reader.open) = 1
      /\ UNCHANGED <<idVars, phase, scr, files, clients, prop, root, promise, starts, commands>>
      /\ ~(reader.rest # <<>> /\ (Next1.k # "end" \/ reader.skip > 0))
      /\ reader' = [reader EXCEPT !.rest = After, !.open = <<>>]
  BY DEF OptWorkspaceEnd, Ends, Depth, WorkspacesInv
<1>2. OpenOk(reader.open) /\ reader.open # <<>>
  BY <1>1, ReaderFields DEF WorkspacesInv, ReaderInv, Depth
<1> QED
  BY <1>1, <1>2, EndedReader

LEMMA OptWorkspaceEndSingle ==
  ASSUME WorkspacesInv, SingleInv, OptWorkspaceEnd
  PROVE  SingleInv'
<1>1. /\ phase = "read" /\ Len(reader.open) = 1 /\ OpenOk(reader.open) /\ reader.open # <<>>
      /\ reader'.open = <<>>
  BY OptWorkspaceEndIs
<1>2. 1 \in DOMAIN reader.open
  BY <1>1, LastOpen
<1>3. reader.open[1].tl \in OneEach
  BY <1>1, <1>2 DEF SingleInv, SidesOnce, SideOnce
<1>4. Kept(scr, {}, {reader.open[1].tl})
  BY OptWorkspaceEndKeeps
<1>5. {reader.open[1].tl} \subseteq OneEach
  BY <1>3
<1> QED
  BY <1>1, <1>4, <1>5, KeptSingle, NoneOnce DEF SingleInv

LEMMA AddsSingle ==
  ASSUME WorkspacesInv, SingleInv, NEW s \in Screen, NEW f \in Frame, Kept(s, {}, {f}), phase' # "read"
  PROVE  SingleInv'
<1>1. {f} \subseteq OneEach
  BY OneEachMade DEF Atoms
<1> QED
  BY <1>1, KeptSingle DEF SingleInv

LEMMA EndOfTextSingle ==
  ASSUME WorkspacesInv, SingleInv, NEW f \in Frame, EndOfText(f)
  PROVE  SingleInv'
<1>1. phase' = "scan"
  BY DEF EndOfText
<1>2. CASE ws[scr] # <<>>
  BY <1>1, <1>2, EndOfTextKeeps, SingleReads
<1>3. CASE ws[scr] = <<>>
  <2>1. Kept(scr, {}, {f})
    BY <1>3, EndOfTextKeeps
  <2>2. scr \in Screen
    BY <2>1 DEF Kept
  <2> QED
    BY <1>1, <2>1, <2>2, AddsSingle
<1> QED
  BY <1>2, <1>3

LEMMA SplitKeepsSingle ==
  ASSUME WorkspacesInv, SingleInv, NEW s \in Screen, NEW i \in DOMAIN ws[s], NEW f \in Frame, NEW before \in BOOLEAN,
         NEW at, Split(s, i, at, f, before)
  PROVE  SingleInv'
<1> DEFINE whole == ws[s][i].splitree
           tree == SplitAt(whole, at, f, before)
<1>1. /\ Kept(s, {}, {tree})
      /\ whole \in Trees /\ Proper(whole) /\ Shallow(whole) /\ f \notin Leaves(whole)
      /\ at \in Leaves(whole) \cup {whole} /\ (before => at = whole)
  <2>1. Kept(s, {}, {SplitAt(ws[s][i].splitree, at, f, before)})
    BY SplitKeeps
  <2>2. Proper(ws[s][i].splitree) /\ Shallow(ws[s][i].splitree) /\ f \notin Leaves(ws[s][i].splitree)
    BY <2>1, SplitKeeps
  <2>3. ws[s][i].splitree \in Trees
    BY <2>1, SplitKeeps
  <2>4. at \in Leaves(ws[s][i].splitree) \cup {ws[s][i].splitree} /\ (before => at = ws[s][i].splitree)
    BY <2>1, SplitKeeps
  <2> QED
    BY <2>1, <2>2, <2>3, <2>4
<1>2. whole \in OneEach
  BY DEF SingleInv, TreesIn
<1>3. phase' # "read"
  BY DEF Split, Running
<1> HIDE DEF whole
<1>4. tree \in OneEach
  BY <1>1, <1>2, SplitSingle
<1> HIDE DEF tree
<1>5. {tree} \subseteq OneEach
  BY <1>4
<1> QED
  BY <1>1, <1>3, <1>5, KeptSingle DEF SingleInv

LEMMA DestroyFrameSingle ==
  ASSUME WorkspacesInv, SingleInv, NEW s \in Screen, NEW i \in DOMAIN ws[s], NEW f \in Frame, DestroyFrame(s, i, f)
  PROVE  SingleInv'
<1> DEFINE whole == ws[s][i].splitree
           tree == Replaced(whole, f, NULL)
<1>1. Kept(s, {f}, {tree}) /\ Proper(whole)
  BY DestroyFrameKeeps
<1>2. whole \in OneEach
  BY DEF SingleInv, TreesIn
<1>3. phase' # "read"
  BY DEF DestroyFrame, Running
<1> HIDE DEF whole
<1>4. tree \in OneEach
  BY <1>1, <1>2, RemovedOnce
<1> HIDE DEF tree
<1>5. {tree} \subseteq OneEach
  BY <1>4
<1> QED
  BY <1>1, <1>3, <1>5, KeptSingle DEF SingleInv

LEMMA DeinitFrameSingle ==
  ASSUME WorkspacesInv, SingleInv, DeinitFrame
  PROVE  SingleInv'
<1>1. phase' # "read"
  BY DEF DeinitFrame
<1>2. Kept(scr, {Head(ws[scr][1].wins)}, {})
  BY DeinitFrameKeeps
<1> QED
  BY <1>1, <1>2, KeptSingle DEF SingleInv

LEMMA SingleInitInv == Init => SingleInv
BY TreesInMore DEF Init, SingleInv

LEMMA SingleNextInv == WorkspacesInv /\ SingleInv /\ [Next]_vars => SingleInv'
<1> SUFFICES ASSUME WorkspacesInv, SingleInv, [Next]_vars PROVE SingleInv'
  OBVIOUS
<1>1. CASE UNCHANGED vars \/ Stopped
  BY <1>1 DEF vars, sessionVars, SingleInv, Stopped
<1>2. CASE Start \/ EndOfScan
  <2>1. UNCHANGED ws /\ (phase' = "read" => reader'.open = <<>>)
    BY <1>2 DEF Start, EndOfScan, NoReader
  <2> QED
    BY <2>1, NoneOnce, SingleReads
<1>3. CASE OptWorkspace \/ OptSplit \/ OptSplitEnd \/ OptWorkspaceEnd
  BY <1>3, OptWorkspaceSingle, OptSplitSingle, OptSplitEndSingle, OptWorkspaceEndSingle
<1>4. CASE Skip \/ SkippedEnd
  <2>1. UNCHANGED ws /\ phase = "read" /\ reader'.open = reader.open
    BY <1>4 DEF Skip, SkippedEnd, Reading, Read
  <2> QED
    BY <2>1, SingleReads DEF SingleInv
<1>5. ASSUME NEW f \in Frame, OptFrame(f) \/ EndOfText(f) PROVE SingleInv'
  BY <1>5, OptFrameSingle, EndOfTextSingle
<1>6. ASSUME NEW w \in Window, Scan(w) \/ Unmap(w) PROVE SingleInv'
  BY <1>6 DEF Scan, Unmap, Running, SingleInv
<1>7. ASSUME NEW w \in Window, NEW s \in Screen, Map(w, s) \/ Elsewhere(w, s) PROVE SingleInv'
  BY <1>7 DEF Map, Elsewhere, Running, SingleInv
<1>8. ASSUME NEW c \in clients, NEW f \in Live, Attach(c, f) PROVE SingleInv'
  BY <1>8 DEF Attach, Running, SingleInv
<1>9. ASSUME NEW s \in Screen, NEW f \in Frame, NEW name \in {"workspace", "unreadable"}, CreateWorkspace(s, name, f)
      PROVE  SingleInv'
  <2>1. Kept(s, {}, {f})
    BY <1>9, CreateWorkspaceKeeps
  <2>2. phase' # "read"
    BY <1>9 DEF CreateWorkspace, Running
  <2> QED
    BY <2>1, <2>2, AddsSingle
<1>10. ASSUME NEW s \in Screen, NEW f \in Frame, NEW i \in DOMAIN ws[s], DestroyFrame(s, i, f) PROVE SingleInv'
  BY <1>10, DestroyFrameSingle
<1>11. ASSUME NEW s \in Screen, NEW f \in Frame, NEW i \in DOMAIN ws[s],
              NEW at \in Leaves(ws[s][i].splitree) \cup {ws[s][i].splitree}, NEW before \in BOOLEAN,
              Split(s, i, at, f, before)
       PROVE  SingleInv'
  BY <1>11, SplitKeepsSingle
<1>12. CASE Exit \/ Write \/ WriteFails
  BY <1>12 DEF Exit, Write, WriteFails, SingleInv
<1>13. CASE DeinitFrame
  BY <1>13, DeinitFrameSingle
<1>14. CASE DeinitDone
  BY <1>14 DEF DeinitDone, SingleInv
<1>15. CASE Crash
  <2>1. phase' = "down" /\ \A s \in Screen : ws'[s] = <<>>
    BY <1>15 DEF Crash, Gone
  <2> QED
    BY <2>1, TreesInMore DEF SingleInv
<1> QED
  BY <1>1, <1>2, <1>3, <1>4, <1>5, <1>6, <1>7, <1>8, <1>9, <1>10, <1>11, <1>12, <1>13, <1>14, <1>15 DEF Next

-----------------------------------------------------------------------------
(* Which screens have workspaces. *)

\* The screens that have been read have workspaces, and those to be left have them still.
ScreensInv ==
  /\ phase \in {"read", "scan"} => \A t \in Screen : (t > scr => ws[t] = <<>>) /\ (t < scr => ws[t] # <<>>)
  /\ phase = "scan" => ws[scr] # <<>>
  /\ phase = "run" => \A t \in Screen : ws[t] # <<>>
  /\ phase \in {"write", "deinit"} => \A t \in Screen : t > scr => ws[t] # <<>>
  /\ phase = "write" => ws[scr] # <<>>

LEMMA KeptElsewhere ==
  ASSUME ScreensInv, NEW lost, NEW new, Kept(scr, lost, new), phase' = phase, scr' = scr, phase \in {"read", "deinit"}
  PROVE  ScreensInv'
<1>1. \A t \in Screen : t # scr => ws'[t] = ws[t]
  BY DEF Kept
<1>2. scr \in Int /\ \A t \in Screen : t > scr \/ t < scr => t # scr
  BY DEF Kept, Screen
<1> QED
  BY <1>1, <1>2 DEF ScreensInv

LEMMA KeptRunning ==
  ASSUME ScreensInv, NEW s, NEW lost, NEW new, Kept(s, lost, new), ws'[s] # <<>>, phase = "run", phase' = "run"
  PROVE  ScreensInv'
<1>1. \A t \in Screen : ws'[t] # <<>>
  BY DEF Kept, ScreensInv
<1> QED
  BY <1>1 DEF ScreensInv

LEMMA ScreensStay ==
  ASSUME ScreensInv, UNCHANGED <<phase, scr, ws>>
  PROVE  ScreensInv'
BY DEF ScreensInv

LEMMA NextScreen ==
  ASSUME PhaseType, scr \in Screen, NEW t \in Screen
  PROVE  /\ t < scr \/ t = scr \/ t > scr
         /\ t < scr + 1 => t < scr \/ t = scr
         /\ t > scr + 1 => t > scr
         /\ ~(scr < Screens) => ~(t > scr)
         /\ scr < Screens => scr + 1 \in Screen /\ scr + 1 > scr
         /\ ~(t < 1)
BY SessionAssumption DEF Screen

LEMMA EndOfTextScreens ==
  ASSUME WorkspacesInv, ScreensInv, NEW f \in Frame, EndOfText(f)
  PROVE  ScreensInv'
<1>1. /\ phase = "read" /\ phase' = "scan" /\ scr' = scr
      /\ ws'[scr] # <<>> /\ \A t \in Screen \ {scr} : ws'[t] = ws[t]
  BY EndOfTextKeeps DEF EndOfText
<1>2. scr \in Screen
  BY <1>1 DEF WorkspacesInv, PhaseType
<1>3. \A t \in Screen : t > scr \/ t < scr => t \in Screen \ {scr}
  BY <1>2 DEF Screen
<1> QED
  BY <1>1, <1>3 DEF ScreensInv

LEMMA ScreensInitInv == Init => ScreensInv
BY DEF Init, ScreensInv

LEMMA ScreensNextInv == WorkspacesInv /\ ScreensInv /\ [Next]_vars => ScreensInv'
<1> SUFFICES ASSUME WorkspacesInv, ScreensInv, [Next]_vars PROVE ScreensInv'
  OBVIOUS
<1>t. PhaseType /\ WsType /\ (phase = "down" => \A s \in Screen : ws[s] = <<>>)
  BY DEF WorkspacesInv, LeftInv
<1>1. CASE UNCHANGED vars \/ Stopped
  BY <1>1, ScreensStay DEF vars, sessionVars, Stopped
<1>2. CASE Start
  <2>1. phase = "down" /\ phase' = "read" /\ scr' = 1 /\ UNCHANGED ws
    BY <1>2 DEF Start
  <2>2. \A t \in Screen : ~(t < 1)
    BY SessionAssumption DEF Screen
  <2> QED
    BY <1>t, <2>1, <2>2 DEF ScreensInv
<1>3. CASE EndOfScan
  <2>1. phase = "scan" /\ UNCHANGED ws /\ scr \in Screen
    BY <1>3, <1>t DEF EndOfScan, PhaseType
  <2>2. \A t \in Screen : (t > scr => ws[t] = <<>>) /\ (t < scr \/ t = scr => ws[t] # <<>>)
    BY <2>1 DEF ScreensInv
  <2>3. CASE scr < Screens
    <3>1. phase' = "read" /\ scr' = scr + 1
      BY <1>3, <2>3 DEF EndOfScan
    <3>2. \A t \in Screen : (t > scr + 1 => ws'[t] = <<>>) /\ (t < scr + 1 => ws'[t] # <<>>)
      BY <1>t, <2>1, <2>2, NextScreen
    <3> QED
      BY <3>1, <3>2 DEF ScreensInv
  <2>4. CASE ~(scr < Screens)
    <3>1. phase' = "run"
      BY <1>3, <2>4 DEF EndOfScan
    <3>2. \A t \in Screen : ws'[t] # <<>>
      BY <1>t, <2>1, <2>2, <2>4, NextScreen
    <3> QED
      BY <3>1, <3>2 DEF ScreensInv
  <2> QED
    BY <2>3, <2>4
<1>4. CASE OptWorkspace \/ OptWorkspaceEnd
  <2>1. phase = "read" /\ phase' = phase /\ scr' = scr
    BY <1>4 DEF OptWorkspace, OptWorkspaceEnd, Reading, Ends
  <2> QED
    BY <1>4, <2>1, KeptElsewhere, OptWorkspaceKeeps, OptWorkspaceEndKeeps
<1>5. CASE OptSplit \/ OptSplitEnd \/ Skip \/ SkippedEnd
  BY <1>5, ScreensStay DEF OptSplit, OptSplitEnd, Skip, SkippedEnd
<1>6. ASSUME NEW f \in Frame, OptFrame(f) PROVE ScreensInv'
  <2>1. phase = "read" /\ phase' = phase /\ scr' = scr
    BY <1>6 DEF OptFrame, Reading
  <2> QED
    BY <1>6, <2>1, KeptElsewhere, OptFrameKeeps
<1>7. ASSUME NEW f \in Frame, EndOfText(f) PROVE ScreensInv'
  BY <1>7, EndOfTextScreens
<1>8. ASSUME NEW w \in Window, Scan(w) \/ Unmap(w) PROVE ScreensInv'
  BY <1>8, ScreensStay DEF Scan, Unmap
<1>9. ASSUME NEW w \in Window, NEW s \in Screen, Map(w, s) \/ Elsewhere(w, s) PROVE ScreensInv'
  BY <1>9, ScreensStay DEF Map, Elsewhere
<1>10. ASSUME NEW c \in clients, NEW f \in Live, Attach(c, f) PROVE ScreensInv'
  BY <1>10, ScreensStay DEF Attach
<1>11. ASSUME NEW s \in Screen, NEW f \in Frame, NEW name \in {"workspace", "unreadable"}, CreateWorkspace(s, name, f)
       PROVE  ScreensInv'
  <2>1. phase = "run" /\ phase' = "run"
    BY <1>11 DEF CreateWorkspace, Running
  <2>2. Kept(s, {}, {f}) /\ ws'[s] # <<>>
    BY <1>11, CreateWorkspaceKeeps
  <2> QED
    BY <2>1, <2>2, KeptRunning
<1>12. ASSUME NEW s \in Screen, NEW f \in Frame, NEW i \in DOMAIN ws[s], DestroyFrame(s, i, f) PROVE ScreensInv'
  <2>1. phase = "run" /\ phase' = "run"
    BY <1>12 DEF DestroyFrame, Running
  <2>2. Kept(s, {f}, {Replaced(ws[s][i].splitree, f, NULL)}) /\ ws'[s] # <<>>
    BY <1>12, DestroyFrameKeeps
  <2> QED
    BY <2>1, <2>2, KeptRunning
<1>13. ASSUME NEW s \in Screen, NEW f \in Frame, NEW i \in DOMAIN ws[s],
              NEW at \in Leaves(ws[s][i].splitree) \cup {ws[s][i].splitree}, NEW before \in BOOLEAN,
              Split(s, i, at, f, before)
       PROVE  ScreensInv'
  <2>1. phase = "run" /\ phase' = "run"
    BY <1>13 DEF Split, Running
  <2>2. Kept(s, {}, {SplitAt(ws[s][i].splitree, at, f, before)}) /\ ws'[s] # <<>>
    BY <1>13, SplitKeeps
  <2> QED
    BY <2>1, <2>2, KeptRunning
<1>14. CASE Exit
  <2>1. phase = "run" /\ phase' = "write" /\ scr' = 1 /\ UNCHANGED ws /\ 1 \in Screen
    BY <1>14, SessionAssumption DEF Exit, Screen
  <2> QED
    BY <2>1 DEF ScreensInv
<1>15. CASE Write \/ WriteFails
  BY <1>15 DEF Write, WriteFails, ScreensInv
<1>16. CASE DeinitFrame
  <2>1. phase = "deinit" /\ phase' = phase /\ scr' = scr
    BY <1>16 DEF DeinitFrame
  <2>2. Kept(scr, {Head(ws[scr][1].wins)}, {})
    BY <1>16, DeinitFrameKeeps
  <2> QED
    BY <2>1, <2>2, KeptElsewhere
<1>17. CASE DeinitDone
  <2>1. phase = "deinit" /\ UNCHANGED ws /\ scr \in Screen
    BY <1>17, <1>t DEF DeinitDone, PhaseType
  <2>2. \A t \in Screen : t > scr => ws[t] # <<>>
    BY <2>1 DEF ScreensInv
  <2>3. CASE scr < Screens
    <3>1. phase' = "write" /\ scr' = scr + 1
      BY <1>17, <2>3 DEF DeinitDone
    <3>2. scr + 1 \in Screen /\ scr + 1 > scr /\ \A t \in Screen : t > scr + 1 => t > scr
      BY <1>t, <2>1, <2>3, NextScreen
    <3> QED
      BY <2>1, <2>2, <3>1, <3>2 DEF ScreensInv
  <2>4. CASE ~(scr < Screens)
    BY <1>17, <2>4 DEF DeinitDone, ScreensInv
  <2> QED
    BY <2>3, <2>4
<1>18. CASE Crash
  BY <1>18 DEF Crash, Gone, ScreensInv
<1> QED
  BY <1>1, <1>2, <1>3, <1>4, <1>5, <1>6, <1>7, <1>8, <1>9, <1>10, <1>11, <1>12, <1>13, <1>14, <1>15, <1>16, <1>17,
     <1>18 DEF Next

-----------------------------------------------------------------------------
(* Windows, and the screens of their clients. *)

\* A window that is not there has no property.
BareInv == \A w \in Window : root[w] = 0 => prop[w] = 0

Firsts(C) == {Head(c.wins) : c \in C}

LEMMA FirstsAreThere ==
  ASSUME ClientsInv, NEW w \in Firsts(clients)
  PROVE  w \in Window /\ root[w] # 0
<1>1. PICK c \in clients : w = Head(c.wins)
  BY DEF Firsts
<1>2. c.wins # <<>> /\ c.wins \in Seq(Window) /\ \A v \in ToSet(c.wins) : root[v] # 0
  BY ClientFields DEF ClientsInv, ClientsOk, ClientOk
<1> QED
  BY <1>1, <1>2, FirstWindow

LEMMA PropsSet ==
  ASSUME NEW C, NEW fs, NEW ids, NEW old, NEW w \in Window, w \notin Firsts(C)
  PROVE  SetClientFrameIds(C, fs, ids, old)[w] = old[w]
BY DEF SetClientFrameIds, Firsts

LEMMA BareSet ==
  ASSUME ClientsInv, BareInv, UNCHANGED root, \A w \in Window \ Firsts(clients) : prop'[w] = prop[w]
  PROVE  BareInv'
<1> SUFFICES ASSUME NEW w \in Window, root[w] = 0 PROVE prop'[w] = 0
  BY DEF BareInv
<1>1. w \notin Firsts(clients)
  BY FirstsAreThere
<1> QED
  BY <1>1 DEF BareInv

LEMMA BareReordered ==
  ASSUME ClientsInv, BareInv, UNCHANGED root, NEW due, Reordered(due)
  PROVE  BareInv'
<1>1. \A w \in Window \ Firsts(clients) : prop'[w] = prop[w]
  BY PropsSet DEF Reordered
<1> QED
  BY <1>1, BareSet

LEMMA SameFirsts ==
  ASSUME NEW M, NEW f, clients \subseteq ClientType
  PROVE  Firsts(Moved(M, f)) = Firsts(clients)
<1>1. ASSUME NEW c \in clients PROVE (IF c \in M THEN [c EXCEPT !.frame = f] ELSE c).wins = c.wins
  BY <1>1, ClientFields
<1>2. ASSUME NEW v \in Firsts(Moved(M, f)) PROVE v \in Firsts(clients)
  <2>1. PICK d \in Moved(M, f) : v = Head(d.wins)
    BY DEF Firsts
  <2>2. PICK c \in clients : d = IF c \in M THEN [c EXCEPT !.frame = f] ELSE c
    BY DEF Moved
  <2> QED
    BY <1>1, <2>1, <2>2 DEF Firsts
<1>3. ASSUME NEW v \in Firsts(clients) PROVE v \in Firsts(Moved(M, f))
  <2>1. PICK c \in clients : v = Head(c.wins)
    BY DEF Firsts
  <2> DEFINE d == IF c \in M THEN [c EXCEPT !.frame = f] ELSE c
  <2>2. d \in Moved(M, f)
    BY DEF Moved
  <2>3. d.wins = c.wins
    BY <1>1
  <2> HIDE DEF d
  <2> QED
    BY <2>1, <2>2, <2>3 DEF Firsts
<1> QED
  BY <1>2, <1>3

LEMMA BareDestroyed ==
  ASSUME WorkspacesInv, ClientsInv, BareInv, NEW s, NEW i, NEW f, DestroyFrame(s, i, f)
  PROVE  BareInv'
<1> DEFINE mine == {c \in clients : c.frame = f}
<1>1. PICK other : /\ clients' = Moved(mine, other)
                   /\ prop' = IF frame_id_cntr < INT_MAX THEN MovedProp(mine, other)
                              ELSE SetClientFrameIds(clients', Counted(frame_id'), frame_id', MovedProp(mine, other))
  BY DEF DestroyFrame
<1>2. UNCHANGED root
  BY DEF DestroyFrame
<1>3. Firsts(clients') = Firsts(clients)
  BY <1>1, SameFirsts DEF ClientsInv, ClientsOk
<1>4. \A w \in Window \ Firsts(clients) : MovedProp(mine, other)[w] = prop[w]
  BY DEF MovedProp, Firsts
<1> HIDE DEF mine
<1>5. ASSUME NEW w \in Window \ Firsts(clients) PROVE prop'[w] = prop[w]
  <2>1. CASE frame_id_cntr < INT_MAX
    BY <1>1, <1>4, <2>1
  <2>2. CASE ~(frame_id_cntr < INT_MAX)
    BY <1>1, <1>3, <1>4, <2>2, PropsSet
  <2> QED
    BY <2>1, <2>2
<1> QED
  BY <1>2, <1>5, BareSet

LEMMA BareLeft ==
  ASSUME WorkspacesInv, ClientsInv, BareInv, DeinitFrame
  PROVE  BareInv'
<1> DEFINE f == Head(ws[scr][1].wins)
<1>1. /\ clients' = {c \in clients : c.frame # f} /\ UNCHANGED root
      /\ prop' = IF frame_id_cntr < INT_MAX THEN prop
                 ELSE SetClientFrameIds(clients', Counted(frame_id'), frame_id', prop)
  BY DEF DeinitFrame, LeftProp
<1> HIDE DEF f
<1>2. Firsts(clients') \subseteq Firsts(clients)
  BY <1>1 DEF Firsts
<1>3. ASSUME NEW w \in Window \ Firsts(clients) PROVE prop'[w] = prop[w]
  <2>1. CASE frame_id_cntr < INT_MAX
    BY <1>1, <2>1
  <2>2. CASE ~(frame_id_cntr < INT_MAX)
    BY <1>1, <1>2, <2>2, PropsSet
  <2> QED
    BY <2>1, <2>2
<1> QED
  BY <1>1, <1>3, BareSet

LEMMA BareAdded ==
  ASSUME ClientsInv, BareInv, NEW w \in Window, AddClientwin(w), root'[w] # 0,
         \A v \in Window \ {w} : root'[v] = root[v]
  PROVE  BareInv'
<1>1. prop \in [Window -> Nat]
  BY DEF ClientsInv, ClientsOk
<1>2. \A v \in Window \ {w} : prop'[v] = prop[v]
  BY <1>1 DEF AddClientwin
<1> QED
  BY <1>2 DEF BareInv

LEMMA BareNextInv == SessionInv /\ BareInv /\ [Next]_vars => BareInv'
<1> SUFFICES ASSUME WorkspacesInv, ClientsInv, BareInv, [Next]_vars PROVE BareInv'
  BY DEF SessionInv
<1>t. root \in [Window -> 0 .. Screens] /\ prop \in [Window -> Nat] /\ ~(0 \in Screen)
  BY ClientsFacts DEF ClientsInv, Screen
<1>1. CASE UNCHANGED <<prop, root>>
  BY <1>1 DEF BareInv
<1>2. ASSUME NEW f \in Frame, OptFrame(f) PROVE BareInv'
  BY <1>2, BareReordered DEF OptFrame
<1>3. ASSUME NEW f \in Frame, EndOfText(f) PROVE BareInv'
  <2>1. CASE ws[scr] # <<>>
    BY <1>1, <1>3, <2>1 DEF EndOfText
  <2>2. CASE ws[scr] = <<>>
    BY <1>3, <2>2, BareReordered DEF EndOfText
  <2> QED
    BY <2>1, <2>2
<1>4. ASSUME NEW w \in Window, Scan(w) PROVE BareInv'
  <2>1. AddClientwin(w) /\ UNCHANGED root /\ root'[w] # 0
    BY <1>4, <1>t DEF Scan, WorkspacesInv, PhaseType
  <2> QED
    BY <2>1, BareAdded
<1>5. ASSUME NEW w \in Window, NEW s \in Screen, Map(w, s) PROVE BareInv'
  <2>1. AddClientwin(w) /\ root' = [root EXCEPT ![w] = s] /\ s # 0
    BY <1>5, <1>t DEF Map
  <2> QED
    BY <1>t, <2>1, BareAdded
<1>6. ASSUME NEW w \in Window, Unmap(w) PROVE BareInv'
  <2>1. root' = [root EXCEPT ![w] = 0] /\ prop' = [prop EXCEPT ![w] = 0]
    BY <1>6 DEF Unmap
  <2> QED
    BY <1>t, <2>1 DEF BareInv
<1>7. ASSUME NEW w \in Window, NEW s \in Screen, Elsewhere(w, s) PROVE BareInv'
  <2>1. prop' = [prop EXCEPT ![w] = 0] /\ \A v \in Window \ {w} : root'[v] = root[v]
    BY <1>7, <1>t DEF Elsewhere
  <2> QED
    BY <1>t, <2>1 DEF BareInv
<1>8. ASSUME NEW c \in clients, NEW f \in Live, Attach(c, f) PROVE BareInv'
  <2>1. UNCHANGED root /\ prop' = MovedProp({c}, f)
    BY <1>8 DEF Attach
  <2>2. \A w \in Window \ Firsts(clients) : prop'[w] = prop[w]
    BY <2>1 DEF MovedProp, Firsts
  <2> QED
    BY <2>1, <2>2, BareSet
<1>9. ASSUME NEW s, NEW f, NEW name, CreateWorkspace(s, name, f) PROVE BareInv'
  BY <1>9, BareReordered DEF CreateWorkspace
<1>10. ASSUME NEW s, NEW f, NEW i, DestroyFrame(s, i, f) PROVE BareInv'
  BY <1>10, BareDestroyed
<1>11. ASSUME NEW s, NEW f, NEW i, NEW at, NEW before, Split(s, i, at, f, before) PROVE BareInv'
  BY <1>11, BareReordered DEF Split
<1>12. CASE DeinitFrame
  BY <1>12, BareLeft
<1>13. CASE Start \/ OptWorkspace \/ OptSplit \/ Skip \/ SkippedEnd
  BY <1>1, <1>13 DEF Start, OptWorkspace, OptSplit, Skip, SkippedEnd
<1>14. CASE OptSplitEnd \/ OptWorkspaceEnd
  BY <1>1, <1>14 DEF OptSplitEnd, OptWorkspaceEnd
<1>15. CASE EndOfScan \/ Exit \/ Write \/ WriteFails \/ DeinitDone \/ Crash \/ Stopped \/ UNCHANGED vars
  BY <1>1, <1>15 DEF EndOfScan, Exit, Write, WriteFails, DeinitDone, Crash, Gone, Stopped, vars, sessionVars
<1> QED
  BY <1>2, <1>3, <1>4, <1>5, <1>6, <1>7, <1>8, <1>9, <1>10, <1>11, <1>12, <1>13, <1>14, <1>15 DEF Next

\* A client belongs to its window that is not a transient; its frame is on the window's screen.
Owns(c) == \A v \in ToSet(c.wins) : TransientFor[v] = NULL => c.owner = v
HomeIn(c, W, r) == c.owner # NULL => c.frame \in FramesIn(W[r[c.owner]])
HomesInv == \A c \in clients : Owns(c) /\ HomeIn(c, ws, root)

LEMMA OwnerThere ==
  ASSUME ClientsInv, NEW c \in clients, c.owner # NULL
  PROVE  /\ c.owner \in Window /\ c.owner \in ToSet(c.wins) /\ root[c.owner] \in Screen
         /\ Head(c.wins) = c.owner /\ prop[c.owner] = frame_id[c.frame]
<1>1. /\ c \in ClientType /\ ClientOk(c, prop, frame_id, root) /\ root \in [Window -> 0 .. Screens]
  BY DEF ClientsInv, ClientsOk
<1>2. c.wins \in Seq(Window) /\ c.wins # <<>> /\ Head(c.wins) = c.owner /\ prop[c.owner] = frame_id[c.frame]
  BY <1>1, ClientFields DEF ClientOk
<1>3. c.owner \in Window /\ c.owner \in ToSet(c.wins)
  BY <1>2, FirstWindow
<1>4. root[c.owner] # 0 /\ root[c.owner] \in 0 .. Screens
  BY <1>1, <1>3 DEF ClientOk
<1> QED
  BY <1>2, <1>3, <1>4, SessionAssumption DEF Screen

\* What add_clientwin makes of the clients C with window w, in a frame of row q.
AddedTo(C, D, w, q) ==
  /\ \A d \in D :
       \/ \E c \in C : /\ d.frame = c.frame /\ d.owner = c.owner
                       /\ \/ ToSet(d.wins) = ToSet(c.wins)
                          \/ TransientFor[w] # NULL /\ ToSet(d.wins) = ToSet(c.wins) \cup {w}
       \/ d.frame \in FramesIn(q) /\ d.owner = w /\ ToSet(d.wins) = {w}
  /\ \A c \in C : \E d \in D : ToSet(c.wins) \subseteq ToSet(d.wins)
  /\ \E d \in D : w \in ToSet(d.wins)

LEMMA ClientAdded ==
  ASSUME ClientsInv, NEW w \in Window, AddClientwin(w)
  PROVE  AddedTo(clients, clients', w, ws[root'[w]])
<1> DEFINE tfor == {c \in clients : TransientFor[w] \in ToSet(c.wins)}
           named == FindFrameById(prop[w]) \cap FramesOf(root'[w])
           new(c) == IF c \in tfor THEN [c EXCEPT !.wins = Append(c.wins, w)] ELSE c
<1>1. clients \subseteq ClientType
  BY DEF ClientsInv, ClientsOk
<1>2. CASE tfor # {}
  <2>1. clients' = {new(c) : c \in clients}
    BY <1>2 DEF AddClientwin
  <2>2. ASSUME NEW c \in clients
        PROVE  /\ new(c).frame = c.frame /\ new(c).owner = c.owner
               /\ c \notin tfor => ToSet(new(c).wins) = ToSet(c.wins)
               /\ c \in tfor => TransientFor[w] # NULL /\ ToSet(new(c).wins) = ToSet(c.wins) \cup {w}
    <3>1. /\ c = [wins |-> c.wins, frame |-> c.frame, owner |-> c.owner] /\ c.wins \in Seq(Window)
      BY <1>1, ClientFields
    <3>2. ToSet(Append(c.wins, w)) = ToSet(c.wins) \cup {w}
      BY <3>1, AppendFacts
    <3>3. ToSet(c.wins) \subseteq Window
      BY <3>1 DEF ToSet
    <3>4. c \in tfor => TransientFor[w] # NULL
      BY <3>3, SessionAssumption
    <3>5. CASE c \in tfor
      <4>1. new(c) = [c EXCEPT !.wins = Append(c.wins, w)]
        BY <3>5
      <4>2. new(c).wins = Append(c.wins, w) /\ new(c).frame = c.frame /\ new(c).owner = c.owner
        BY <3>1, <4>1
      <4> QED
        BY <3>2, <3>4, <3>5, <4>2
    <3>6. CASE c \notin tfor
      BY <3>6
    <3> QED
      BY <3>5, <3>6
  <2> HIDE DEF new
  <2>3. ASSUME NEW d \in clients'
        PROVE  \E c \in clients : /\ d.frame = c.frame /\ d.owner = c.owner
                                  /\ \/ ToSet(d.wins) = ToSet(c.wins)
                                     \/ TransientFor[w] # NULL /\ ToSet(d.wins) = ToSet(c.wins) \cup {w}
    <3>1. PICK c \in clients : d = new(c)
      BY <2>1
    <3> QED
      BY <2>2, <3>1
  <2>4. ASSUME NEW c \in clients PROVE \E d \in clients' : ToSet(c.wins) \subseteq ToSet(d.wins)
    <3>1. new(c) \in clients'
      BY <2>1
    <3>2. ToSet(c.wins) \subseteq ToSet(new(c).wins)
      BY <2>2
    <3> QED
      BY <3>1, <3>2
  <2>5. \E d \in clients' : w \in ToSet(d.wins)
    <3>1. PICK c \in clients : c \in tfor
      BY <1>2
    <3>2. new(c) \in clients' /\ w \in ToSet(new(c).wins)
      BY <2>1, <2>2, <3>1
    <3> QED
      BY <3>2
  <2> QED
    BY <2>3, <2>4, <2>5 DEF AddedTo
<1>3. CASE tfor = {}
  <2>1. PICK f \in IF named # {} THEN named ELSE FramesOf(root'[w]) :
          clients' = clients \cup {[wins |-> <<w>>, frame |-> f, owner |-> w]}
    BY <1>3 DEF AddClientwin
  <2>2. f \in FramesIn(ws[root'[w]])
    BY <2>1 DEF FramesOf, FramesIn
  <2> DEFINE d == [wins |-> <<w>>, frame |-> f, owner |-> w]
  <2>3. d \in clients' /\ d.frame = f /\ d.owner = w /\ d.wins = <<w>>
    BY <2>1
  <2>4. ToSet(d.wins) = {w}
    BY <2>3 DEF ToSet
  <2>5. clients' = clients \cup {d}
    BY <2>1
  <2> HIDE DEF d
  <2> QED
    BY <2>2, <2>3, <2>4, <2>5 DEF AddedTo
<1> QED
  BY <1>2, <1>3

LEMMA MovedFields ==
  ASSUME clients \subseteq ClientType, NEW M, NEW f, NEW d \in Moved(M, f)
  PROVE  \E c \in clients : /\ d.wins = c.wins /\ d.owner = c.owner
                            /\ c \in M => d.frame = f
                            /\ c \notin M => d.frame = c.frame
<1>1. PICK c \in clients : d = IF c \in M THEN [c EXCEPT !.frame = f] ELSE c
  BY DEF Moved
<1>2. c = [wins |-> c.wins, frame |-> c.frame, owner |-> c.owner]
  BY ClientFields
<1>3. CASE c \in M
  BY <1>1, <1>2, <1>3
<1>4. CASE c \notin M
  BY <1>1, <1>4
<1> QED
  BY <1>3, <1>4

LEMMA HomeKept ==
  ASSUME ClientsInv, HomesInv, NEW s, NEW lost, NEW new, Kept(s, lost, new), UNCHANGED root,
         NEW c \in clients, c.frame \notin lost
  PROVE  Owns(c) /\ HomeIn(c, ws', root')
<1>1. CASE c.owner = NULL
  BY <1>1 DEF HomeIn, HomesInv
<1>2. CASE c.owner # NULL
  <2>1. root[c.owner] \in Screen /\ c.frame \in FramesIn(ws[root[c.owner]])
    BY <1>2, OwnerThere DEF HomesInv, HomeIn
  <2>2. c.frame \in FramesOf(root[c.owner])
    BY <2>1, FramesOfIs
  <2>3. \A t \in Screen : FramesOf(t) \ lost \subseteq FramesIn(ws'[t])
    BY KeptFrames, FramesOfIs
  <2>4. c.frame \in FramesIn(ws'[root[c.owner]])
    BY <2>1, <2>2, <2>3
  <2> QED
    BY <2>4 DEF HomeIn, HomesInv
<1> QED
  BY <1>1, <1>2

LEMMA HomesKept ==
  ASSUME ClientsInv, HomesInv, NEW s, NEW new, Kept(s, {}, new), UNCHANGED <<clients, root>>
  PROVE  HomesInv'
<1>1. ASSUME NEW c \in clients PROVE Owns(c) /\ HomeIn(c, ws', root')
  BY HomeKept
<1> QED
  BY <1>1 DEF HomesInv, Owns, HomeIn

LEMMA HomesStay ==
  ASSUME HomesInv, UNCHANGED <<clients, root, ws>>
  PROVE  HomesInv'
BY DEF HomesInv, Owns, HomeIn

LEMMA OneScreen ==
  ASSUME WorkspacesInv, NEW s \in Screen, NEW t \in Screen, NEW f, f \in FramesIn(ws[s]), f \in FramesIn(ws[t])
  PROVE  s = t
<1>1. Sole(ws)
  BY WsIs DEF WorkspacesInv
<1>2. PICK i \in DOMAIN ws[s] : f \in Children(ws[s][i])
  BY InFrames
<1>3. PICK j \in DOMAIN ws[t] : f \in Children(ws[t][j])
  BY InFrames
<1> QED
  BY <1>1, <1>2, <1>3, SoleAt

\* The clients M have been moved from a frame of screen s to one that the screen still has.
LEMMA HomesMoved ==
  ASSUME WorkspacesInv, ClientsInv, HomesInv, NEW s, NEW lost, NEW new, Kept(s, lost, new), UNCHANGED root,
         NEW M, NEW f, clients' = Moved(M, f),
         \A c \in clients : c \in M => c.frame \in FramesIn(ws[s]) /\ f \in FramesIn(ws'[s]),
         \A c \in clients : c \notin M => c.frame \notin lost
  PROVE  HomesInv'
<1>1. clients \subseteq ClientType /\ s \in Screen
  BY DEF ClientsInv, ClientsOk, Kept
<1>2. ASSUME NEW d \in clients' PROVE Owns(d) /\ HomeIn(d, ws', root')
  <2>1. PICK c \in clients : /\ d.wins = c.wins /\ d.owner = c.owner
                             /\ c \in M => d.frame = f
                             /\ c \notin M => d.frame = c.frame
    BY <1>1, MovedFields
  <2>2. Owns(c) /\ HomeIn(c, ws, root)
    BY DEF HomesInv
  <2>3. Owns(d)
    BY <2>1, <2>2 DEF Owns
  <2>4. CASE c \in M
    <3>1. CASE c.owner # NULL
      <4>1. root[c.owner] \in Screen /\ c.frame \in FramesIn(ws[root[c.owner]])
        BY <2>2, <3>1, OwnerThere DEF HomeIn
      <4>2. root[c.owner] = s
        BY <1>1, <2>4, <4>1, OneScreen
      <4> QED
        BY <2>1, <2>3, <2>4, <4>2 DEF HomeIn
    <3>2. CASE c.owner = NULL
      BY <2>1, <2>3, <3>2 DEF HomeIn
    <3> QED
      BY <3>1, <3>2
  <2>5. CASE c \notin M
    <3>1. HomeIn(c, ws', root')
      BY <2>5, HomeKept
    <3> QED
      BY <2>1, <2>3, <2>5, <3>1 DEF HomeIn
  <2> QED
    BY <2>4, <2>5
<1> QED
  BY <1>2 DEF HomesInv, Owns, HomeIn

LEMMA DestroyFrameHomes ==
  ASSUME WorkspacesInv, ClientsInv, HomesInv, NEW s \in Screen, NEW i \in DOMAIN ws[s], NEW f \in Frame,
         DestroyFrame(s, i, f)
  PROVE  HomesInv'
<1> DEFINE tree == Replaced(ws[s][i].splitree, f, NULL)
           mine == {c \in clients : c.frame = f}
<1>1. /\ Kept(s, {f}, {tree}) /\ Good(ws[s][i]) /\ f \in Leaves(ws[s][i].splitree)
      /\ tree # NULL => Leaves(tree) \subseteq FramesOf(s)'
  BY DestroyFrameKeeps
<1>2. PICK other \in IF tree = NULL THEN {f} ELSE Leaves(tree) : clients' = Moved(mine, other)
  BY DEF DestroyFrame
<1>3. UNCHANGED root /\ (tree = NULL => mine = {})
  BY DEF DestroyFrame
<1> HIDE DEF tree
<1>4. f \in FramesIn(ws[s])
  BY <1>1, InFrames DEF Good
<1>5. \A c \in clients : c \in mine <=> c.frame = f
  OBVIOUS
<1> HIDE DEF mine
<1>6. ASSUME NEW c \in clients, c \in mine PROVE c.frame \in FramesIn(ws[s]) /\ other \in FramesIn(ws'[s])
  <2>1. tree # NULL
    BY <1>3, <1>6
  <2>2. other \in FramesOf(s)'
    BY <1>1, <1>2, <2>1
  <2> QED
    BY <1>4, <1>5, <1>6, <2>2, FramesOfIs
<1>7. ASSUME NEW c \in clients, c \notin mine PROVE c.frame \notin {f}
  BY <1>5, <1>7
<1> QED
  BY <1>1, <1>2, <1>3, <1>6, <1>7, HomesMoved

LEMMA SameKept ==
  ASSUME WsType, NEW s \in Screen, UNCHANGED ws
  PROVE  Kept(s, {}, {})
BY DEF Kept, Becomes, WsType

LEMMA AttachHomes ==
  ASSUME WorkspacesInv, ClientsInv, HomesInv, NEW c \in clients, NEW f \in Live, Attach(c, f)
  PROVE  HomesInv'
<1>1. PICK s \in Screen : {c.frame, f} \subseteq FramesOf(s)
  BY DEF Attach
<1>2. clients' = Moved({c}, f) /\ UNCHANGED <<ws, root>>
  BY DEF Attach
<1>3. Kept(s, {}, {})
  BY <1>2, SameKept DEF WorkspacesInv
<1>4. c.frame \in FramesIn(ws[s]) /\ f \in FramesIn(ws'[s])
  BY <1>1, <1>2, FramesOfIs
<1>5. ASSUME NEW d \in clients, d \in {c} PROVE d.frame \in FramesIn(ws[s]) /\ f \in FramesIn(ws'[s])
  BY <1>4, <1>5
<1> QED
  BY <1>2, <1>3, <1>5, HomesMoved

LEMMA DeinitFrameHomes ==
  ASSUME WorkspacesInv, ClientsInv, HomesInv, DeinitFrame
  PROVE  HomesInv'
<1> DEFINE f == Head(ws[scr][1].wins)
<1>1. Kept(scr, {f}, {})
  BY DeinitFrameKeeps
<1>2. clients' = {c \in clients : c.frame # f} /\ UNCHANGED root
  BY DEF DeinitFrame
<1> HIDE DEF f
<1>3. ASSUME NEW c \in clients' PROVE Owns(c) /\ HomeIn(c, ws', root')
  BY <1>1, <1>2, HomeKept
<1> QED
  BY <1>3 DEF HomesInv, Owns, HomeIn

LEMMA AddedHomes ==
  ASSUME WorkspacesInv, ClientsInv, HomesInv, NEW w \in Window, AddClientwin(w), UNCHANGED ws,
         \A v \in Window \ {w} : root'[v] = root[v], w \notin Managed
  PROVE  HomesInv'
<1>1. ASSUME NEW d \in clients' PROVE Owns(d) /\ HomeIn(d, ws', root')
  <2>1. CASE \E c \in clients : /\ d.frame = c.frame /\ d.owner = c.owner
                                /\ \/ ToSet(d.wins) = ToSet(c.wins)
                                   \/ TransientFor[w] # NULL /\ ToSet(d.wins) = ToSet(c.wins) \cup {w}
    <3>1. PICK c \in clients : /\ d.frame = c.frame /\ d.owner = c.owner
                               /\ \/ ToSet(d.wins) = ToSet(c.wins)
                                  \/ TransientFor[w] # NULL /\ ToSet(d.wins) = ToSet(c.wins) \cup {w}
      BY <2>1
    <3>2. Owns(c) /\ HomeIn(c, ws, root)
      BY DEF HomesInv
    <3>3. Owns(d)
      BY <3>1, <3>2 DEF Owns
    <3>4. c.owner # NULL => root'[c.owner] = root[c.owner]
      <4>1. c.owner # NULL => c.owner \in Window /\ c.owner \in ToSet(c.wins)
        BY OwnerThere
      <4>2. w \notin ToSet(c.wins)
        BY DEF Managed
      <4> QED
        BY <4>1, <4>2
    <3> QED
      BY <3>1, <3>2, <3>3, <3>4 DEF HomeIn
  <2>2. CASE d.frame \in FramesIn(ws[root'[w]]) /\ d.owner = w /\ ToSet(d.wins) = {w}
    BY <2>2 DEF Owns, HomeIn
  <2>3. AddedTo(clients, clients', w, ws[root'[w]])
    BY ClientAdded
  <2> QED
    BY <2>1, <2>2, <2>3 DEF AddedTo
<1> QED
  BY <1>1 DEF HomesInv, Owns, HomeIn

LEMMA UnmapHomes ==
  ASSUME WorkspacesInv, ClientsInv, HomesInv, NEW w \in Window, Unmap(w)
  PROVE  HomesInv'
<1>1. /\ root' = [root EXCEPT ![w] = 0] /\ UNCHANGED ws
      /\ clients' = {c \in {[wins |-> Unlinked(d.wins, w), frame |-> d.frame,
                             owner |-> IF d.owner = w THEN NULL ELSE d.owner] : d \in clients} : c.wins # <<>>}
  BY DEF Unmap
<1>2. ASSUME NEW c \in clients' PROVE Owns(c) /\ HomeIn(c, ws', root')
  <2>1. PICK d \in clients : c = [wins |-> Unlinked(d.wins, w), frame |-> d.frame,
                                  owner |-> IF d.owner = w THEN NULL ELSE d.owner]
    BY <1>1
  <2>2. c.wins = Unlinked(d.wins, w) /\ c.frame = d.frame /\ c.owner = IF d.owner = w THEN NULL ELSE d.owner
    BY <2>1
  <2>3. d.wins \in Seq(Window) /\ IsInjective(d.wins) /\ Owns(d) /\ HomeIn(d, ws, root)
    BY ClientFields DEF ClientsInv, ClientsOk, ClientOk, HomesInv
  <2>4. ToSet(c.wins) = ToSet(d.wins) \ {w}
    BY <2>2, <2>3, UnlinkedFacts
  <2>5. Owns(c)
    BY <2>2, <2>3, <2>4 DEF Owns
  <2>6. CASE c.owner # NULL
    <3>1. c.owner = d.owner /\ d.owner # w /\ d.owner # NULL
      BY <2>2, <2>6
    <3>2. d.owner \in Window
      BY <3>1, OwnerThere
    <3>3. root'[d.owner] = root[d.owner]
      BY <1>1, <3>1, <3>2 DEF ClientsInv
    <3> QED
      BY <1>1, <2>2, <2>3, <2>5, <3>1, <3>3 DEF HomeIn
  <2>7. CASE c.owner = NULL
    BY <2>5, <2>7 DEF HomeIn
  <2> QED
    BY <2>6, <2>7
<1> QED
  BY <1>2 DEF HomesInv, Owns, HomeIn

LEMMA HomesInitInv == Init => HomesInv
BY DEF Init, HomesInv

LEMMA HomesNextInv == SessionInv /\ HomesInv /\ [Next]_vars => HomesInv'
<1> SUFFICES ASSUME WorkspacesInv, ClientsInv, HomesInv, [Next]_vars PROVE HomesInv'
  BY DEF SessionInv
<1>1. ASSUME NEW f \in Frame, OptFrame(f) PROVE HomesInv'
  <2>1. Kept(scr, {}, {}) /\ UNCHANGED <<clients, root>>
    BY <1>1, OptFrameKeeps DEF OptFrame
  <2> QED
    BY <2>1, HomesKept
<1>2. ASSUME NEW f \in Frame, EndOfText(f) PROVE HomesInv'
  <2>1. UNCHANGED <<clients, root>>
    BY <1>2 DEF EndOfText
  <2>2. CASE ws[scr] # <<>>
    BY <1>2, <2>1, <2>2, EndOfTextKeeps, HomesStay
  <2>3. CASE ws[scr] = <<>>
    <3>1. Kept(scr, {}, {f})
      BY <1>2, <2>3, EndOfTextKeeps
    <3> QED
      BY <2>1, <3>1, HomesKept
  <2> QED
    BY <2>2, <2>3
<1>3. ASSUME NEW w \in Window, Scan(w) PROVE HomesInv'
  BY <1>3, AddedHomes DEF Scan
<1>4. ASSUME NEW w \in Window, NEW s \in Screen, Map(w, s) PROVE HomesInv'
  <2>1. AddClientwin(w) /\ root' = [root EXCEPT ![w] = s] /\ root[w] = 0 /\ UNCHANGED ws
    BY <1>4 DEF Map
  <2>2. w \notin Managed
    BY <2>1, ClientsFacts DEF Managed
  <2>3. \A v \in Window \ {w} : root'[v] = root[v]
    BY <2>1 DEF ClientsInv
  <2> QED
    BY <2>1, <2>2, <2>3, AddedHomes
<1>5. ASSUME NEW w \in Window, Unmap(w) PROVE HomesInv'
  BY <1>5, UnmapHomes
<1>6. ASSUME NEW w \in Window, NEW s \in Screen, Elsewhere(w, s) PROVE HomesInv'
  <2>1. phase = "down" /\ UNCHANGED clients
    BY <1>6 DEF Elsewhere
  <2>2. clients = {}
    BY <2>1, NoFrames DEF WorkspacesInv, LeftInv
  <2> QED
    BY <2>1, <2>2 DEF HomesInv
<1>7. ASSUME NEW c \in clients, NEW f \in Live, Attach(c, f) PROVE HomesInv'
  BY <1>7, AttachHomes
<1>8. ASSUME NEW s \in Screen, NEW f \in Frame, NEW name \in {"workspace", "unreadable"}, CreateWorkspace(s, name, f)
      PROVE  HomesInv'
  <2>1. Kept(s, {}, {f}) /\ UNCHANGED <<clients, root>>
    BY <1>8, CreateWorkspaceKeeps DEF CreateWorkspace
  <2> QED
    BY <2>1, HomesKept
<1>9. ASSUME NEW s \in Screen, NEW f \in Frame, NEW i \in DOMAIN ws[s], DestroyFrame(s, i, f) PROVE HomesInv'
  BY <1>9, DestroyFrameHomes
<1>10. ASSUME NEW s \in Screen, NEW f \in Frame, NEW i \in DOMAIN ws[s],
              NEW at \in Leaves(ws[s][i].splitree) \cup {ws[s][i].splitree}, NEW before \in BOOLEAN,
              Split(s, i, at, f, before)
       PROVE  HomesInv'
  <2>1. Kept(s, {}, {SplitAt(ws[s][i].splitree, at, f, before)})
    BY <1>10, SplitKeeps
  <2>2. UNCHANGED <<clients, root>>
    BY <1>10 DEF Split
  <2> QED
    BY <2>1, <2>2, HomesKept
<1>11. CASE DeinitFrame
  BY <1>11, DeinitFrameHomes
<1>12. CASE OptWorkspace
  <2>1. Kept(scr, {}, {NULL}) /\ UNCHANGED <<clients, root>>
    BY <1>12, OptWorkspaceKeeps DEF OptWorkspace
  <2> QED
    BY <2>1, HomesKept
<1>13. CASE OptWorkspaceEnd
  <2>1. Kept(scr, {}, {reader.open[1].tl}) /\ UNCHANGED <<clients, root>>
    BY <1>13, OptWorkspaceEndKeeps DEF OptWorkspaceEnd
  <2> QED
    BY <2>1, HomesKept
<1>14. CASE Start \/ OptSplit \/ Skip \/ SkippedEnd \/ OptSplitEnd
  BY <1>14, HomesStay DEF Start, OptSplit, Skip, SkippedEnd, OptSplitEnd
<1>15. CASE EndOfScan \/ Exit \/ Write \/ WriteFails \/ DeinitDone \/ Stopped \/ UNCHANGED vars
  BY <1>15, HomesStay DEF EndOfScan, Exit, Write, WriteFails, DeinitDone, Stopped, vars, sessionVars
<1>16. CASE Crash
  <2>1. clients' = {}
    BY <1>16 DEF Crash, Gone
  <2> QED
    BY <2>1 DEF HomesInv
<1> QED
  BY <1>1, <1>2, <1>3, <1>4, <1>5, <1>6, <1>7, <1>8, <1>9, <1>10, <1>11, <1>12, <1>13, <1>14, <1>15, <1>16 DEF Next

\* The windows of the screens that have been scanned have a client.
ManagedInv ==
  /\ phase \in {"read", "scan"} => \A w \in Window : root[w] # 0 /\ root[w] < scr => w \in Managed
  /\ phase = "run" => \A w \in Window : root[w] # 0 => w \in Managed

LEMMA ManagedStays ==
  ASSUME ManagedInv, UNCHANGED <<clients, root, scr>>, phase' = phase \/ (phase = "read" /\ phase' = "scan")
  PROVE  ManagedInv'
BY DEF ManagedInv, Managed

LEMMA ManagedAdded ==
  ASSUME ClientsInv, ManagedInv, NEW w \in Window, AddClientwin(w), UNCHANGED <<phase, scr>>,
         \A v \in Window \ {w} : root'[v] = root[v]
  PROVE  ManagedInv'
<1>1. AddedTo(clients, clients', w, ws[root'[w]])
  BY ClientAdded
<1>2. w \in Managed' /\ Managed \subseteq Managed'
  BY <1>1 DEF AddedTo, Managed
<1> QED
  BY <1>2 DEF ManagedInv

LEMMA ManagedMoved ==
  ASSUME ClientsInv, ManagedInv, NEW M, NEW f, clients' = Moved(M, f), UNCHANGED <<phase, scr, root>>
  PROVE  ManagedInv'
<1>1. ASSUME NEW w \in Managed PROVE w \in Managed'
  <2>1. PICK c \in clients : w \in ToSet(c.wins)
    BY DEF Managed
  <2> DEFINE d == IF c \in M THEN [c EXCEPT !.frame = f] ELSE c
  <2>2. d \in clients'
    BY DEF Moved
  <2>3. d.wins = c.wins
    BY ClientFields DEF ClientsInv, ClientsOk
  <2> HIDE DEF d
  <2> QED
    BY <2>1, <2>2, <2>3 DEF Managed
<1> QED
  BY <1>1 DEF ManagedInv

LEMMA UnmapManaged ==
  ASSUME ClientsInv, ManagedInv, NEW w \in Window, Unmap(w)
  PROVE  ManagedInv'
<1> DEFINE new(d) == [wins |-> Unlinked(d.wins, w), frame |-> d.frame, owner |-> IF d.owner = w THEN NULL ELSE d.owner]
<1>1. /\ phase = "run" /\ phase' = "run" /\ root' = [root EXCEPT ![w] = 0]
      /\ clients' = {c \in {new(d) : d \in clients} : c.wins # <<>>}
  BY DEF Unmap, Running
<1>2. ASSUME NEW v \in Window, root'[v] # 0 PROVE v \in Managed'
  <2>1. v # w /\ root[v] # 0
    BY <1>1, <1>2 DEF ClientsInv
  <2>2. PICK d \in clients : v \in ToSet(d.wins)
    BY <1>1, <2>1 DEF ManagedInv, Managed
  <2>3. d.wins \in Seq(Window) /\ IsInjective(d.wins)
    BY ClientFields DEF ClientsInv, ClientsOk, ClientOk
  <2>4. new(d).wins = Unlinked(d.wins, w)
    OBVIOUS
  <2> HIDE DEF new
  <2>5. v \in ToSet(new(d).wins)
    BY <2>1, <2>2, <2>3, <2>4, UnlinkedFacts
  <2>6. new(d).wins # <<>>
    BY <2>5 DEF ToSet
  <2>7. new(d) \in clients'
    BY <1>1, <2>6
  <2> QED
    BY <2>5, <2>7 DEF Managed
<1> QED
  BY <1>1, <1>2 DEF ManagedInv

LEMMA EndOfScanManaged ==
  ASSUME WorkspacesInv, ClientsInv, ManagedInv, EndOfScan
  PROVE  ManagedInv'
<1>1. /\ phase = "scan" /\ UNCHANGED <<clients, root>> /\ \A w \in Window : root[w] = scr => w \in Managed
      /\ PhaseType /\ scr \in Screen /\ Managed' = Managed
  BY DEF EndOfScan, WorkspacesInv, PhaseType, Managed
<1>2. \A w \in Window : root[w] # 0 => root[w] \in Screen
  BY SessionAssumption DEF ClientsInv, Screen
<1>3. ASSUME NEW w \in Window, root[w] # 0, root[w] < scr \/ root[w] = scr PROVE w \in Managed
  BY <1>1, <1>3 DEF ManagedInv
<1>4. CASE scr < Screens
  <2>1. phase' = "read" /\ scr' = scr + 1
    BY <1>4 DEF EndOfScan
  <2>2. \A w \in Window : root[w] # 0 /\ root[w] < scr + 1 => root[w] < scr \/ root[w] = scr
    BY <1>1, <1>2, NextScreen
  <2> QED
    BY <1>1, <1>3, <2>1, <2>2 DEF ManagedInv
<1>5. CASE ~(scr < Screens)
  <2>1. phase' = "run"
    BY <1>5 DEF EndOfScan
  <2>2. \A w \in Window : root[w] # 0 => root[w] < scr \/ root[w] = scr
    BY <1>1, <1>2, <1>5, NextScreen
  <2> QED
    BY <1>1, <1>3, <2>1, <2>2 DEF ManagedInv
<1> QED
  BY <1>4, <1>5

LEMMA ManagedInitInv == Init => ManagedInv
BY DEF Init, ManagedInv

LEMMA ManagedNextInv == SessionInv /\ ManagedInv /\ [Next]_vars => ManagedInv'
<1> SUFFICES ASSUME WorkspacesInv, ClientsInv, ManagedInv, [Next]_vars PROVE ManagedInv'
  BY DEF SessionInv
<1>t. root \in [Window -> 0 .. Screens]
  BY DEF ClientsInv
<1>1. CASE phase' \in {"down", "write", "deinit"}
  BY <1>1 DEF ManagedInv
<1>2. CASE Start
  <2>1. phase' = "read" /\ scr' = 1 /\ UNCHANGED root
    BY <1>2 DEF Start
  <2>2. \A w \in Window : ~(root[w] # 0 /\ root[w] < 1)
    BY <1>t, SessionAssumption
  <2> QED
    BY <2>1, <2>2 DEF ManagedInv
<1>3. CASE EndOfScan
  BY <1>3, EndOfScanManaged
<1>4. ASSUME NEW f \in Frame, OptFrame(f) PROVE ManagedInv'
  BY <1>4, ManagedStays DEF OptFrame
<1>5. ASSUME NEW f \in Frame, EndOfText(f) PROVE ManagedInv'
  BY <1>5, ManagedStays DEF EndOfText
<1>6. ASSUME NEW w \in Window, Scan(w) PROVE ManagedInv'
  BY <1>6, ManagedAdded DEF Scan
<1>7. ASSUME NEW w \in Window, NEW s \in Screen, Map(w, s) PROVE ManagedInv'
  <2>1. AddClientwin(w) /\ root' = [root EXCEPT ![w] = s] /\ UNCHANGED <<phase, scr>>
    BY <1>7 DEF Map
  <2>2. \A v \in Window \ {w} : root'[v] = root[v]
    BY <1>t, <2>1
  <2> QED
    BY <2>1, <2>2, ManagedAdded
<1>8. ASSUME NEW w \in Window, Unmap(w) PROVE ManagedInv'
  BY <1>8, UnmapManaged
<1>9. ASSUME NEW w \in Window, NEW s \in Screen, Elsewhere(w, s) PROVE ManagedInv'
  BY <1>1, <1>9 DEF Elsewhere
<1>10. ASSUME NEW c \in clients, NEW f \in Live, Attach(c, f) PROVE ManagedInv'
  BY <1>10, ManagedMoved DEF Attach
<1>11. ASSUME NEW s, NEW f, NEW name, CreateWorkspace(s, name, f) PROVE ManagedInv'
  BY <1>11, ManagedStays DEF CreateWorkspace
<1>12. ASSUME NEW s, NEW f, NEW i, DestroyFrame(s, i, f) PROVE ManagedInv'
  <2>1. PICK other : clients' = Moved({c \in clients : c.frame = f}, other)
    BY <1>12 DEF DestroyFrame
  <2>2. UNCHANGED <<phase, scr, root>>
    BY <1>12 DEF DestroyFrame
  <2> QED
    BY <2>1, <2>2, ManagedMoved
<1>13. ASSUME NEW s, NEW f, NEW i, NEW at, NEW before, Split(s, i, at, f, before) PROVE ManagedInv'
  BY <1>13, ManagedStays DEF Split
<1>14. CASE OptWorkspace \/ OptSplit \/ Skip \/ SkippedEnd \/ Stopped \/ UNCHANGED vars
  BY <1>14, ManagedStays DEF OptWorkspace, OptSplit, Skip, SkippedEnd, Stopped, vars, sessionVars
<1>15. CASE OptSplitEnd \/ OptWorkspaceEnd
  BY <1>15, ManagedStays DEF OptSplitEnd, OptWorkspaceEnd
<1>16. CASE Exit \/ Write \/ WriteFails \/ DeinitFrame \/ DeinitDone \/ Crash
  BY <1>1, <1>16 DEF Exit, Write, WriteFails, DeinitFrame, DeinitDone, Crash, Gone
<1> QED
  BY <1>2, <1>3, <1>4, <1>5, <1>6, <1>7, <1>8, <1>9, <1>10, <1>11, <1>12, <1>13, <1>14, <1>15, <1>16 DEF Next

-----------------------------------------------------------------------------
(* What the exit saves. *)

LEMMA TextBlank ==
  ASSUME NEW ids \in IdTable
  PROVE  Blank(TextOf(ids))
<1>1. MaxDepth \in 0 .. MaxDepth
  BY SessionAssumption
<1>2. \E w : w = WriteBody(ids, Trees, w)
  BY <1>1, WriteExists DEF Trees
<1>3. TextOf(ids) = WriteBody(ids, Trees, TextOf(ids))
  BY <1>2, Zenon DEF TextOf
<1>4. \A t \in Trees : TextOf(ids)[t] \in Seq(Items)
  BY TextIds
<1>5. TextOf(ids)[NULL] = <<>>
  BY LeavesAre, TextOfIs
<1> HIDE DEF TextOf
<1>6. TextOf(ids) = [t \in Trees |-> TextOf(ids)[t]]
  BY <1>3 DEF WriteBody
<1>7. TextOf(ids) \in [Trees -> Seq(Items)]
  BY <1>4, <1>6
<1> QED
  BY <1>5, <1>7 DEF Blank, Writing

Sound(x) == x \in Layouts /\ x # <<>> /\ NoTwice(x)

\* A file is what its frames' ids make of it.
LEMMA IdsWritten ==
  ASSUME WorkspacesInv, NEW s \in Screen, \A i \in DOMAIN ws[s] : Good(ws[s][i])
  PROVE  IdsIn(WriteWorkspaces(s)) = {frame_id[f] : f \in FramesOf(s)}
<1> DEFINE g == TextOf(frame_id)
           W == ws[s]
<1>1. frame_id \in IdTable /\ W \in Seq(Workspaces)
  BY DEF WorkspacesInv, IdsInv, IdsType, IdTable, WsType
<1>2. Writing(g) /\ \A t \in Trees : IdsIn(g[t]) = {frame_id[f] : f \in Leaves(t)}
  BY <1>1, TextBlank, TextIds DEF Blank
<1> HIDE DEF g
<1>3. IdsIn(LayoutOf(g, W)) = UNION {IdsIn(g[t]) : t \in TreesIn(W)}
  BY <1>1, <1>2, LayoutIds
<1>4. \A i \in DOMAIN W : W[i].splitree \in Trees /\ Leaves(W[i].splitree) = Children(W[i])
  BY GoodIs DEF Good
<1>5. \A i \in DOMAIN W : IdsIn(g[W[i].splitree]) = {frame_id[f] : f \in Children(W[i])}
  BY <1>2, <1>4
<1>6. UNION {IdsIn(g[t]) : t \in TreesIn(W)} = {frame_id[f] : f \in FramesOf(s)}
  <2>1. ASSUME NEW n \in UNION {IdsIn(g[t]) : t \in TreesIn(W)} PROVE n \in {frame_id[f] : f \in FramesOf(s)}
    <3>1. PICK i \in DOMAIN W : n \in IdsIn(g[W[i].splitree])
      BY DEF TreesIn
    <3>2. PICK f \in Children(W[i]) : n = frame_id[f]
      BY <1>5, <3>1
    <3> QED
      BY <3>2 DEF FramesOf
  <2>2. ASSUME NEW f \in FramesOf(s) PROVE frame_id[f] \in UNION {IdsIn(g[t]) : t \in TreesIn(W)}
    <3>1. PICK i \in DOMAIN W : f \in Children(W[i])
      BY DEF FramesOf
    <3>2. frame_id[f] \in IdsIn(g[W[i].splitree]) /\ W[i].splitree \in TreesIn(W)
      BY <1>5, <3>1 DEF TreesIn
    <3> QED
      BY <3>2
  <2> QED
    BY <2>1, <2>2
<1>7. WriteWorkspaces(s) = LayoutOf(g, W)
  BY WriteWorkspacesIs DEF g
<1> QED
  BY <1>3, <1>6, <1>7

LEMMA SoundWritten ==
  ASSUME WorkspacesInv, SingleInv, NEW s \in Screen, ws[s] # <<>>, \A i \in DOMAIN ws[s] : Good(ws[s][i])
  PROVE  Sound(WriteWorkspaces(s))
<1> DEFINE g == TextOf(frame_id)
           W == ws[s]
<1>1. frame_id \in IdTable /\ W \in Seq(Workspaces) /\ Sole(ws) /\ Live = AllFrames(ws) /\ IdsDistinct
  BY WsIs DEF WorkspacesInv, IdsInv, IdsType, IdTable, WsType
<1>2. /\ Writing(g) /\ \A t \in Trees : IdsIn(g[t]) = {frame_id[f] : f \in Leaves(t)}
      /\ \A t \in Trees : Proper(t) /\ (\A f \in Leaves(t) : frame_id[f] # 0) => g[t] \in Texts
      /\ \A t \in OneEach : (\A f, h \in Leaves(t) : frame_id[f] = frame_id[h] => f = h) => NoTwice(g[t])
  BY <1>1, TextBlank, TextIds, TextIsWhole, TextNoTwice DEF Blank
<1> HIDE DEF g
<1>3. \A i \in DOMAIN W : /\ W[i].splitree \in Trees /\ Leaves(W[i].splitree) = Children(W[i])
                          /\ Proper(W[i].splitree) /\ W[i].splitree \in OneEach
  BY GoodIs DEF Good, SingleInv, TreesIn
<1>4. \A i \in DOMAIN W : Children(W[i]) \subseteq Live
  BY <1>1, InAllFrames
<1>5. ASSUME NEW i \in DOMAIN W PROVE g[W[i].splitree] \in Texts /\ NoTwice(g[W[i].splitree])
  <2>1. \A f \in Leaves(W[i].splitree) : frame_id[f] # 0
    BY <1>3, <1>4 DEF Live
  <2>2. \A f, h \in Leaves(W[i].splitree) : frame_id[f] = frame_id[h] => f = h
    BY <1>1, <1>3, <1>4 DEF IdsDistinct
  <2> QED
    BY <1>2, <1>3, <2>1, <2>2
<1>6. \A t \in TreesIn(W) : g[t] \in Texts /\ NoTwice(g[t])
  BY <1>5 DEF TreesIn
<1>a. \A i \in DOMAIN W : IdsIn(g[W[i].splitree]) = {frame_id[f] : f \in Children(W[i])}
  BY <1>2, <1>3
<1>7. Separate(g, W)
  <2> SUFFICES ASSUME NEW i \in DOMAIN W, NEW j \in DOMAIN W, i # j, NEW n,
                      n \in IdsIn(g[W[i].splitree]), n \in IdsIn(g[W[j].splitree])
               PROVE  FALSE
    BY DEF Separate
  <2>1. PICK f \in Children(W[i]) : n = frame_id[f]
    BY <1>a
  <2>2. PICK h \in Children(W[j]) : n = frame_id[h]
    BY <1>a
  <2>3. f = h
    BY <1>1, <1>4, <2>1, <2>2 DEF IdsDistinct
  <2>4. i = j
    BY <1>1, <2>3, SoleAt
  <2> QED
    BY <2>4
<1>8. LayoutOf(g, W) \in Layouts /\ NoTwice(LayoutOf(g, W)) /\ LayoutOf(g, W) # <<>>
  BY <1>1, <1>2, <1>6, <1>7, LayoutWhole, LayoutNoTwice, LayoutEmpty
<1>9. WriteWorkspaces(s) = LayoutOf(g, W)
  BY WriteWorkspacesIs DEF g
<1> QED
  BY <1>8, <1>9 DEF Sound

\* What an exit has saved is of the commands that were before it.
PromiseType ==
  promise \in [kept : BOOLEAN, at : Nat, prop : [Window -> Nat], files : {<<>>} \cup [Screen -> Seq(Items)]]
PromiseInv ==
  /\ PromiseType /\ commands \in Nat /\ promise.at <= commands
  /\ phase = "down" /\ promise.files # <<>> => commands = promise.at

LEMMA NoPromiseIs ==
  /\ NoPromise.files = <<>> /\ NoPromise.at = 0 /\ ~NoPromise.kept
  /\ NoPromise \in [kept : BOOLEAN, at : Nat, prop : [Window -> Nat], files : {<<>>} \cup [Screen -> Seq(Items)]]
BY DEF NoPromise

LEMMA ExitPromise ==
  ASSUME Exit, prop \in [Window -> Nat]
  PROVE  /\ PromiseType' /\ promise'.kept /\ promise'.at = 0 /\ promise'.prop = prop /\ promise'.files = <<>>
<1>1. promise' = [kept |-> TRUE, at |-> 0, prop |-> prop, files |-> <<>>]
  BY DEF Exit, NoPromise
<1> QED
  BY <1>1 DEF PromiseType

LEMMA KeptPromise ==
  ASSUME PromiseType, NEW b \in BOOLEAN, promise' = [promise EXCEPT !.kept = b]
  PROVE  /\ PromiseType' /\ promise'.kept = b
         /\ promise'.at = promise.at /\ promise'.prop = promise.prop /\ promise'.files = promise.files
<1>1. promise' = [kept |-> b, at |-> promise.at, prop |-> promise.prop, files |-> promise.files]
  BY DEF PromiseType
<1> QED
  BY <1>1 DEF PromiseType

LEMMA MadePromise ==
  ASSUME PromiseType, NEW n \in Nat, NEW F \in [Screen -> Seq(Items)],
         promise' = [promise EXCEPT !.at = n, !.files = F]
  PROVE  PromiseType' /\ promise'.at = n /\ promise'.prop = promise.prop /\ promise'.files = F
<1>1. promise' = [kept |-> promise.kept, at |-> n, prop |-> promise.prop, files |-> F]
  BY DEF PromiseType
<1> QED
  BY <1>1 DEF PromiseType

LEMMA LessPromise ==
  ASSUME PromiseType, NEW n \in Nat, NEW w \in Window, promise' = [promise EXCEPT !.at = n, !.prop[w] = 0]
  PROVE  /\ PromiseType' /\ promise'.at = n /\ promise'.files = promise.files
         /\ promise'.prop = [promise.prop EXCEPT ![w] = 0]
<1>1. promise' = [kept |-> promise.kept, at |-> n, prop |-> [promise.prop EXCEPT ![w] = 0], files |-> promise.files]
  BY DEF PromiseType
<1>2. [promise.prop EXCEPT ![w] = 0] \in [Window -> Nat]
  BY DEF PromiseType
<1> QED
  BY <1>1, <1>2 DEF PromiseType

LEMMA PromiseStays ==
  ASSUME PromiseInv, UNCHANGED promise,
         (UNCHANGED commands /\ phase # "down") \/ (commands' = commands + 1 /\ phase' # "down"),
         phase' # "down"
  PROVE  PromiseInv'
<1>1. promise.at \in Nat /\ commands \in Nat
  BY DEF PromiseInv, PromiseType
<1> QED
  BY <1>1 DEF PromiseInv, PromiseType

LEMMA PromiseInitInv == Init => PromiseInv
<1>1. ASSUME Init PROVE PromiseInv
  BY <1>1, NoPromiseIs DEF Init, PromiseInv, PromiseType
<1> QED
  BY <1>1

LEMMA PromiseNextInv == SessionInv /\ PromiseInv /\ [Next]_vars => PromiseInv'
<1> SUFFICES ASSUME WorkspacesInv, ClientsInv, PromiseInv, [Next]_vars PROVE PromiseInv'
  BY DEF SessionInv
<1>t. PromiseType /\ commands \in Nat /\ promise.at \in Nat /\ prop \in [Window -> Nat] /\ files \in [Screen -> Seq(Items)]
  BY ClientsFacts DEF PromiseInv, PromiseType, WorkspacesInv, FilesType
<1>1. CASE UNCHANGED vars \/ Stopped
  BY <1>1 DEF vars, sessionVars, Stopped, PromiseInv, PromiseType
<1>2. CASE Start
  BY <1>2 DEF Start, PromiseInv, PromiseType
<1>3. CASE OptWorkspace \/ OptSplit \/ Skip \/ SkippedEnd
  BY <1>3, PromiseStays DEF OptWorkspace, OptSplit, Skip, SkippedEnd, Reading
<1>4. CASE OptSplitEnd \/ OptWorkspaceEnd
  BY <1>4, PromiseStays DEF OptSplitEnd, OptWorkspaceEnd, Ends
<1>5. ASSUME NEW f \in Frame, OptFrame(f) \/ EndOfText(f) PROVE PromiseInv'
  BY <1>5, PromiseStays DEF OptFrame, EndOfText, Reading
<1>6. CASE EndOfScan
  <2>1. UNCHANGED <<promise, commands>> /\ phase = "scan" /\ phase' \in {"read", "run"}
    BY <1>6 DEF EndOfScan
  <2> QED
    BY <2>1, PromiseStays
<1>7. ASSUME NEW w \in Window, Scan(w) PROVE PromiseInv'
  BY <1>7, PromiseStays DEF Scan
<1>8. ASSUME NEW w \in Window, Unmap(w) PROVE PromiseInv'
  BY <1>8, PromiseStays DEF Unmap, Running
<1>9. ASSUME NEW w \in Window, NEW s \in Screen, Map(w, s) PROVE PromiseInv'
  BY <1>9, PromiseStays DEF Map, Running
<1>10. ASSUME NEW w \in Window, NEW s \in Screen, Elsewhere(w, s) PROVE PromiseInv'
  <2>1. commands' = commands + 1 /\ promise' = [promise EXCEPT !.at = commands', !.prop[w] = 0] /\ UNCHANGED phase
    BY <1>10 DEF Elsewhere
  <2>2. commands' \in Nat
    BY <1>t, <2>1
  <2>3. PromiseType' /\ promise'.at = commands'
    BY <1>t, <2>1, <2>2, LessPromise
  <2> QED
    BY <2>2, <2>3 DEF PromiseInv
<1>11. ASSUME NEW c \in clients, NEW f \in Live, Attach(c, f) PROVE PromiseInv'
  BY <1>11, PromiseStays DEF Attach, Running
<1>12. ASSUME NEW s, NEW f, NEW name, CreateWorkspace(s, name, f) PROVE PromiseInv'
  BY <1>12, PromiseStays DEF CreateWorkspace, Running
<1>13. ASSUME NEW s, NEW f, NEW i, DestroyFrame(s, i, f) PROVE PromiseInv'
  BY <1>13, PromiseStays DEF DestroyFrame, Running
<1>14. ASSUME NEW s, NEW f, NEW i, NEW at, NEW before, Split(s, i, at, f, before) PROVE PromiseInv'
  BY <1>14, PromiseStays DEF Split, Running
<1>15. CASE Exit
  <2>1. UNCHANGED commands /\ phase' = "write"
    BY <1>15 DEF Exit
  <2> QED
    BY <1>t, <1>15, <2>1, ExitPromise DEF PromiseInv
<1>16. CASE Write
  BY <1>16, PromiseStays DEF Write
<1>17. CASE WriteFails
  <2>1. UNCHANGED commands /\ phase' = "deinit" /\ promise' = [promise EXCEPT !.kept = FALSE]
    BY <1>17 DEF WriteFails
  <2>2. PromiseType' /\ promise'.at = promise.at
    BY <1>t, <2>1, KeptPromise
  <2> QED
    BY <2>1, <2>2 DEF PromiseInv
<1>18. CASE DeinitFrame
  <2>1. /\ UNCHANGED commands /\ phase' = "deinit"
        /\ promise' = [promise EXCEPT !.kept = promise.kept /\ frame_id_cntr < INT_MAX]
    BY <1>18 DEF DeinitFrame
  <2>2. (promise.kept /\ frame_id_cntr < INT_MAX) \in BOOLEAN
    OBVIOUS
  <2>3. PromiseType' /\ promise'.at = promise.at
    BY <1>t, <2>1, <2>2, KeptPromise
  <2> QED
    BY <2>1, <2>3 DEF PromiseInv
<1>19. CASE DeinitDone
  <2>1. UNCHANGED commands /\ phase = "deinit"
    BY <1>19 DEF DeinitDone
  <2>2. CASE scr < Screens
    <3>1. UNCHANGED promise /\ phase' = "write"
      BY <1>19, <2>2 DEF DeinitDone
    <3> QED
      BY <2>1, <3>1, PromiseStays
  <2>3. CASE ~(scr < Screens)
    <3>1. promise' = IF promise.kept THEN [promise EXCEPT !.at = commands, !.files = files] ELSE NoPromise
      BY <1>19, <2>3 DEF DeinitDone
    <3>2. PromiseType' /\ promise'.at <= commands /\ (promise'.files # <<>> => promise'.at = commands)
      <4>1. CASE promise.kept
        <5>1. promise' = [promise EXCEPT !.at = commands, !.files = files]
          BY <3>1, <4>1
        <5>2. PromiseType' /\ promise'.at = commands
          BY <1>t, <5>1, MadePromise
        <5> QED
          BY <1>t, <5>2
      <4>2. CASE ~promise.kept
        BY <1>t, <3>1, <4>2, NoPromiseIs DEF PromiseType
      <4> QED
        BY <4>1, <4>2
    <3> QED
      BY <2>1, <3>2 DEF PromiseInv
  <2> QED
    BY <2>2, <2>3
<1>20. CASE Crash
  <2>1. /\ UNCHANGED commands
        /\ promise' = IF phase \in {"read", "scan", "run"} /\ commands = promise.at THEN promise ELSE NoPromise
    BY <1>20 DEF Crash, Gone
  <2>2. CASE phase \in {"read", "scan", "run"} /\ commands = promise.at
    BY <2>1, <2>2 DEF PromiseInv, PromiseType
  <2>3. CASE ~(phase \in {"read", "scan", "run"} /\ commands = promise.at)
    BY <1>t, <2>1, <2>3, NoPromiseIs DEF PromiseInv, PromiseType
  <2> QED
    BY <2>2, <2>3
<1> QED
  BY <1>1, <1>2, <1>3, <1>4, <1>5, <1>6, <1>7, <1>8, <1>9, <1>10, <1>11, <1>12, <1>13, <1>14, <1>15, <1>16, <1>17,
     <1>18, <1>19, <1>20 DEF Next

\* The windows that are to come back, the screens whose file has been written, and the ids
\* by which the windows of a screen find their frames.
Lasting    == {w \in Window : TransientFor[w] = NULL /\ promise.prop[w] # 0}
Written(s) == s < scr \/ (s = scr /\ phase = "deinit")
SavedIds(s) == IF Written(s) THEN IdsIn(files[s]) ELSE {frame_id[f] : f \in FramesOf(s)}

AllSaved ==
  /\ \A s \in Screen : Written(s) => Sound(files[s])
  /\ \A s, t \in Screen : s # t => SavedIds(s) \cap SavedIds(t) = {}
  /\ \A w \in Lasting : prop[w] = promise.prop[w] /\ \E s \in Screen : root[w] = s /\ prop[w] \in SavedIds(s)

SavingInv == phase \in {"write", "deinit"} => promise.files = <<>> /\ (promise.kept => AllSaved)

LEMMA SavedStays ==
  ASSUME AllSaved, UNCHANGED <<prop, root>>, promise'.prop = promise.prop,
         \A s \in Screen : SavedIds(s)' = SavedIds(s),
         \A s \in Screen : Written(s)' => Sound(files'[s])
  PROVE  AllSaved'
<1>1. \A s, t \in Screen : s # t => SavedIds(s)' \cap SavedIds(t)' = {}
  BY DEF AllSaved
<1>2. Lasting' = Lasting
  BY DEF Lasting
<1>3. ASSUME NEW w \in Lasting'
      PROVE  prop'[w] = promise'.prop[w] /\ \E s \in Screen : root'[w] = s /\ prop'[w] \in SavedIds(s)'
  <2>1. prop[w] = promise.prop[w]
    BY <1>2, <1>3 DEF AllSaved
  <2>2. PICK s \in Screen : root[w] = s /\ prop[w] \in SavedIds(s)
    BY <1>2, <1>3 DEF AllSaved
  <2> QED
    BY <2>1, <2>2
<1> HIDE DEF Written, SavedIds, Lasting
<1> QED
  BY <1>1, <1>3 DEF AllSaved

LEMMA OneIdOneScreen ==
  ASSUME WorkspacesInv, NEW s \in Screen, NEW t \in Screen, s # t
  PROVE  {frame_id[f] : f \in FramesOf(s)} \cap {frame_id[f] : f \in FramesOf(t)} = {}
<1> SUFFICES ASSUME NEW f \in FramesOf(s), NEW g \in FramesOf(t), frame_id[f] = frame_id[g] PROVE FALSE
  OBVIOUS
<1>1. f \in Live /\ g \in Live /\ IdsDistinct
  BY DEF WorkspacesInv, FramesInv, IdsInv
<1>2. f = g
  BY <1>1 DEF IdsDistinct
<1> QED
  BY <1>2, OneScreen, FramesOfIs

LEMMA ExitSaving ==
  ASSUME WorkspacesInv, ClientsInv, BareInv, HomesInv, ManagedInv, Exit
  PROVE  SavingInv'
<1>1. /\ phase = "run" /\ phase' = "write" /\ scr' = 1 /\ UNCHANGED <<idVars, files, ws, prop, root>>
      /\ prop \in [Window -> Nat] /\ root \in [Window -> 0 .. Screens]
  BY ClientsFacts DEF Exit, ClientsInv
<1>2. promise'.prop = prop /\ promise'.files = <<>>
  BY <1>1, ExitPromise
<1>3. \A s \in Screen : ~Written(s)'
  <2>1. \A s \in Screen : ~(s < 1)
    BY SessionAssumption DEF Screen
  <2> QED
    BY <1>1, <2>1 DEF Written
<1>4. \A s \in Screen : SavedIds(s)' = {frame_id[f] : f \in FramesOf(s)}
  <2>1. \A s : FramesOf(s)' = FramesOf(s)
    BY <1>1, FramesOfIs
  <2>2. frame_id' = frame_id
    BY <1>1 DEF idVars
  <2> QED
    BY <1>3, <2>1, <2>2 DEF SavedIds
<1>5. \A s, t \in Screen : s # t => SavedIds(s)' \cap SavedIds(t)' = {}
  BY <1>4, OneIdOneScreen
<1>6. ASSUME NEW w \in Lasting'
      PROVE  prop'[w] = promise'.prop[w] /\ \E s \in Screen : root'[w] = s /\ prop'[w] \in SavedIds(s)'
  <2>1. w \in Window /\ TransientFor[w] = NULL /\ prop[w] # 0
    BY <1>2 DEF Lasting
  <2>2. root[w] # 0
    BY <2>1 DEF BareInv
  <2>3. PICK c \in clients : w \in ToSet(c.wins)
    BY <1>1, <2>1, <2>2 DEF ManagedInv, Managed
  <2>4. c.owner = w /\ w # NULL
    BY <2>1, <2>3, SessionAssumption DEF HomesInv, Owns
  <2>5. c.frame \in FramesIn(ws[root[w]]) /\ root[w] \in Screen /\ prop[w] = frame_id[c.frame]
    BY <2>4, OwnerThere DEF HomesInv, HomeIn
  <2>6. prop[w] \in SavedIds(root[w])'
    <3>1. c.frame \in FramesOf(root[w])
      BY <2>5, FramesOfIs
    <3>2. prop[w] \in {frame_id[f] : f \in FramesOf(root[w])}
      BY <2>5, <3>1
    <3> DEFINE s == root[w]
    <3>3. s \in Screen /\ prop[w] \in {frame_id[f] : f \in FramesOf(s)}
      BY <2>5, <3>2
    <3>4. root'[w] = s /\ prop'[w] = prop[w]
      BY <1>1
    <3> HIDE DEF s
    <3> QED
      BY <1>4, <3>3, <3>4
  <2> QED
    BY <1>1, <1>2, <2>5, <2>6
<1>7. AllSaved'
  <2> HIDE DEF SavedIds, Written, Lasting
  <2> QED
    BY <1>3, <1>5, <1>6 DEF AllSaved
<1> QED
  BY <1>2, <1>7 DEF SavingInv

LEMMA WriteSaving ==
  ASSUME WorkspacesInv, SingleInv, ScreensInv, SavingInv, Write
  PROVE  SavingInv'
<1>1. /\ phase = "write" /\ phase' = "deinit" /\ UNCHANGED <<idVars, scr, ws, prop, root, promise>>
      /\ files' = [files EXCEPT ![scr] = WriteWorkspaces(scr)] /\ files \in [Screen -> Seq(Items)] /\ scr \in Screen
  BY DEF Write, WorkspacesInv, FilesType, PhaseType
<1>2. SUFFICES ASSUME promise.kept, AllSaved PROVE AllSaved'
  BY <1>1 DEF SavingInv
<1>3. \A i \in DOMAIN ws[scr] : Good(ws[scr][i])
  BY <1>1, AllGood DEF WorkspacesInv
<1>4. Sound(WriteWorkspaces(scr)) /\ IdsIn(WriteWorkspaces(scr)) = {frame_id[f] : f \in FramesOf(scr)}
  BY <1>1, <1>3, SoundWritten, IdsWritten DEF ScreensInv
<1>5. \A s \in Screen : files'[s] = IF s = scr THEN WriteWorkspaces(scr) ELSE files[s]
  BY <1>1
<1>6. /\ \A s \in Screen : s = scr => ~Written(s) /\ Written(s)'
      /\ \A s \in Screen \ {scr} : Written(s)' <=> Written(s)
  BY <1>1 DEF Written, Screen
<1>7. \A s : FramesOf(s)' = FramesOf(s)
  BY <1>1, FramesOfIs
<1>8. frame_id' = frame_id
  BY <1>1 DEF idVars
<1>9. ASSUME NEW s \in Screen PROVE SavedIds(s)' = SavedIds(s)
  <2>1. CASE s = scr
    <3>1. SavedIds(s)' = IdsIn(WriteWorkspaces(scr))
      <4>1. files'[s] = WriteWorkspaces(scr) /\ Written(s)'
        BY <1>5, <1>6, <2>1
      <4> QED
        BY <4>1 DEF SavedIds
    <3>2. SavedIds(s) = {frame_id[f] : f \in FramesOf(scr)}
      BY <1>6, <2>1 DEF SavedIds
    <3> QED
      BY <1>4, <3>1, <3>2
  <2>2. CASE s # scr
    BY <1>5, <1>6, <1>7, <1>8, <2>2 DEF SavedIds
  <2> QED
    BY <2>1, <2>2
<1>10. ASSUME NEW s \in Screen, Written(s)' PROVE Sound(files'[s])
  <2>1. CASE s = scr
    BY <1>4, <1>5, <2>1
  <2>2. CASE s # scr
    <3>1. Written(s)
      BY <1>6, <1>10, <2>2
    <3> QED
      BY <1>2, <1>5, <2>2, <3>1 DEF AllSaved
  <2> QED
    BY <2>1, <2>2
<1> QED
  BY <1>1, <1>2, <1>9, <1>10, SavedStays

LEMMA DeinitFrameSaving ==
  ASSUME WorkspacesInv, WorkspacesInv', PromiseInv, SavingInv, DeinitFrame
  PROVE  SavingInv'
<1> DEFINE f == Head(ws[scr][1].wins)
<1>1. /\ phase = "deinit" /\ UNCHANGED <<phase, scr, files, root>> /\ FreeFrameId(f, Place)
      /\ promise' = [promise EXCEPT !.kept = promise.kept /\ frame_id_cntr < INT_MAX]
      /\ frame_id_cntr < INT_MAX => prop' = prop
  BY DEF DeinitFrame, LeftProp
<1>2. Kept(scr, {f}, {}) /\ f \in Frame
  BY DeinitFrameKeeps
<1> HIDE DEF f
<1>3. /\ promise'.kept <=> promise.kept /\ frame_id_cntr < INT_MAX
      /\ promise'.prop = promise.prop /\ promise'.files = promise.files
  <2>1. (promise.kept /\ frame_id_cntr < INT_MAX) \in BOOLEAN
    OBVIOUS
  <2> QED
    BY <1>1, <2>1, KeptPromise DEF PromiseInv
<1>4. SUFFICES ASSUME promise.kept, frame_id_cntr < INT_MAX, AllSaved PROVE AllSaved'
  BY <1>1, <1>3 DEF SavingInv
<1>5. OthersSame(frame_id, frame_id', f) /\ Live' = Live \ {f}
  BY <1>1, <1>2, <1>4, FreeFrameIdEffect, PlaceIsWalk DEF WorkspacesInv
<1>6. \A s \in Screen : Written(s)' <=> Written(s)
  BY <1>1 DEF Written
<1>7. Written(scr)
  BY <1>1 DEF Written
<1>8. ASSUME NEW s \in Screen PROVE SavedIds(s)' = SavedIds(s)
  <2>1. CASE Written(s)
    BY <1>1, <1>6, <2>1 DEF SavedIds
  <2>2. CASE ~Written(s)
    <3>1. FramesOf(s)' = FramesOf(s)
      BY <1>2, <1>7, <2>2, FramesOfIs DEF Kept
    <3>2. \A g \in FramesOf(s) : g \in Live'
      BY <3>1 DEF WorkspacesInv, FramesInv
    <3>3. \A g \in FramesOf(s) : g \in Frame \ {f}
      BY <1>5, <3>2 DEF Live
    <3>4. \A g \in FramesOf(s) : frame_id'[g] = frame_id[g]
      BY <1>5, <3>3 DEF OthersSame
    <3> QED
      BY <1>6, <2>2, <3>1, <3>4 DEF SavedIds
  <2> QED
    BY <2>1, <2>2
<1>9. \A s \in Screen : Written(s)' => Sound(files'[s])
  BY <1>1, <1>4, <1>6 DEF AllSaved
<1> QED
  BY <1>1, <1>3, <1>4, <1>8, <1>9, SavedStays

LEMMA DeinitDoneSaving ==
  ASSUME WorkspacesInv, SavingInv, DeinitDone, scr < Screens
  PROVE  SavingInv'
<1>1. /\ phase = "deinit" /\ phase' = "write" /\ scr' = scr + 1
      /\ UNCHANGED <<idVars, files, ws, prop, root, promise>> /\ PhaseType
  BY DEF DeinitDone, WorkspacesInv
<1>2. SUFFICES ASSUME promise.kept, AllSaved PROVE AllSaved'
  BY <1>1 DEF SavingInv
<1>3. \A s \in Screen : Written(s)' <=> Written(s)
  <2>1. scr \in Int /\ Screen \subseteq Int
    BY <1>1 DEF PhaseType, Screen
  <2>2. \A s \in Screen : s < scr + 1 <=> s < scr \/ s = scr
    BY <2>1
  <2> QED
    BY <1>1, <2>2 DEF Written
<1>4. \A s : FramesOf(s)' = FramesOf(s)
  BY <1>1, FramesOfIs
<1>5. frame_id' = frame_id
  BY <1>1 DEF idVars
<1>6. \A s \in Screen : SavedIds(s)' = SavedIds(s)
  BY <1>1, <1>3, <1>4, <1>5 DEF SavedIds
<1>7. \A s \in Screen : Written(s)' => Sound(files'[s])
  BY <1>1, <1>2, <1>3 DEF AllSaved
<1> QED
  BY <1>1, <1>2, <1>6, <1>7, SavedStays

LEMMA SavingStutter ==
  ASSUME SavingInv, UNCHANGED vars
  PROVE  SavingInv'
<1>1. UNCHANGED <<phase, scr, files, ws, prop, root, promise, frame_id>>
  BY DEF vars, sessionVars, idVars
<1>2. \A s : FramesOf(s)' = FramesOf(s)
  BY <1>1, FramesOfIs
<1>3. \A s \in Screen : (Written(s)' <=> Written(s)) /\ SavedIds(s)' = SavedIds(s)
  BY <1>1, <1>2 DEF Written, SavedIds
<1>4. AllSaved => AllSaved'
  <2> SUFFICES ASSUME AllSaved PROVE AllSaved'
    OBVIOUS
  <2>1. \A s \in Screen : Written(s)' => Sound(files'[s])
    BY <1>1, <1>3 DEF AllSaved
  <2> QED
    BY <1>1, <1>3, <2>1, SavedStays
<1> QED
  BY <1>1, <1>4 DEF SavingInv

LEMMA SavingNextInv ==
  ASSUME SessionInv, SingleInv, ScreensInv, BareInv, HomesInv, ManagedInv, PromiseInv, SavingInv, [Next]_vars
  PROVE  SavingInv'
<1>0. WorkspacesInv /\ ClientsInv /\ WorkspacesInv'
  BY WorkspacesNextInv DEF SessionInv
<1>1. CASE phase' \notin {"write", "deinit"}
  BY <1>1 DEF SavingInv
<1>2. CASE Exit
  BY <1>0, <1>2, ExitSaving
<1>3. CASE Write
  BY <1>0, <1>3, WriteSaving
<1>4. CASE WriteFails
  <2>1. phase = "write" /\ promise' = [promise EXCEPT !.kept = FALSE]
    BY <1>4 DEF WriteFails
  <2>2. ~promise'.kept /\ promise'.files = promise.files
    BY <2>1, KeptPromise DEF PromiseInv
  <2> QED
    BY <2>1, <2>2 DEF SavingInv
<1>5. CASE DeinitFrame
  BY <1>0, <1>5, DeinitFrameSaving
<1>6. CASE DeinitDone
  <2>1. CASE scr < Screens
    BY <1>0, <1>6, <2>1, DeinitDoneSaving
  <2>2. CASE ~(scr < Screens)
    BY <1>1, <1>6, <2>2 DEF DeinitDone
  <2> QED
    BY <2>1, <2>2
<1>7. CASE UNCHANGED vars \/ Stopped
  BY <1>7, SavingStutter DEF Stopped
<1>8. CASE \/ Start \/ OptWorkspace \/ OptSplit \/ Skip \/ SkippedEnd \/ EndOfScan \/ Crash
  BY <1>1, <1>8 DEF Start, OptWorkspace, OptSplit, Skip, SkippedEnd, EndOfScan, Crash, Gone, Reading
<1>9. CASE OptSplitEnd \/ OptWorkspaceEnd
  BY <1>1, <1>9 DEF OptSplitEnd, OptWorkspaceEnd, Ends
<1>10. ASSUME NEW f \in Frame, OptFrame(f) \/ EndOfText(f) PROVE SavingInv'
  BY <1>1, <1>10 DEF OptFrame, EndOfText, Reading
<1>11. ASSUME NEW w \in Window, Scan(w) \/ Unmap(w) PROVE SavingInv'
  BY <1>1, <1>11 DEF Scan, Unmap, Running
<1>12. ASSUME NEW w \in Window, NEW s \in Screen, Map(w, s) \/ Elsewhere(w, s) PROVE SavingInv'
  BY <1>1, <1>12 DEF Map, Elsewhere, Running
<1>13. ASSUME NEW c \in clients, NEW f \in Live, Attach(c, f) PROVE SavingInv'
  BY <1>1, <1>13 DEF Attach, Running
<1>14. ASSUME NEW s, NEW f, NEW name, CreateWorkspace(s, name, f) PROVE SavingInv'
  BY <1>1, <1>14 DEF CreateWorkspace, Running
<1>15. ASSUME NEW s, NEW f, NEW i, DestroyFrame(s, i, f) PROVE SavingInv'
  BY <1>1, <1>15 DEF DestroyFrame, Running
<1>16. ASSUME NEW s, NEW f, NEW i, NEW at, NEW before, Split(s, i, at, f, before) PROVE SavingInv'
  BY <1>1, <1>16 DEF Split, Running
<1> QED
  BY <1>2, <1>3, <1>4, <1>5, <1>6, <1>7, <1>8, <1>9, <1>10, <1>11, <1>12, <1>13, <1>14, <1>15, <1>16 DEF Next

-----------------------------------------------------------------------------
(* The promise holds until the first command after the start. *)

\* What an exit in order has saved holds: no command since, and no name that cannot be read.
Readable(F) == \A s \in Screen : \A i \in DOMAIN F[s] : F[s][i].k # "unreadable"
Held ==
  /\ phase \notin {"write", "deinit"} /\ promise.files # <<>> /\ commands = promise.at
  /\ Readable(promise.files)

Promised ==
  /\ files = promise.files
  /\ \A s \in Screen : Sound(files[s])
  /\ \A s, t \in Screen : s # t => IdsIn(files[s]) \cap IdsIn(files[t]) = {}
  /\ \A w \in Lasting : prop[w] = promise.prop[w] /\ \E s \in Screen : root[w] = s /\ prop[w] \in IdsIn(files[s])

\* The screens that have been read are as they were saved; the ids of those to be read are free.
Done(t) == phase = "run" \/ (phase \in {"read", "scan"} /\ t < scr) \/ (phase = "scan" /\ t = scr)
Resuming ==
  /\ reader.skip = 0
  /\ Midway(TextOf(frame_id), ws[scr], reader.open, reader.rest, files[scr])
  /\ \A f \in Live : frame_id[f] \notin IdsIn(reader.rest)
Resumed ==
  /\ Promised
  /\ \A t \in Screen : Done(t) => WriteWorkspaces(t) = files[t]
  /\ phase \in {"read", "scan"} => \A t \in Screen : t > scr => \A f \in Live : frame_id[f] \notin IdsIn(files[t])
  /\ phase = "read" => Resuming

HeldInv == Held => Resumed

LEMMA PromisedStays ==
  ASSUME Promised, UNCHANGED <<files, promise>>,
         \A w \in Lasting : prop'[w] = prop[w] /\ root'[w] = root[w]
  PROVE  Promised'
<1>1. Lasting' = Lasting
  BY DEF Lasting
<1>2. ASSUME NEW w \in Lasting
      PROVE  prop'[w] = promise'.prop[w] /\ \E s \in Screen : root'[w] = s /\ prop'[w] \in IdsIn(files'[s])
  <2>1. prop[w] = promise.prop[w] /\ \E s \in Screen : root[w] = s /\ prop[w] \in IdsIn(files[s])
    BY DEF Promised
  <2> QED
    BY <2>1
<1>3. \A s \in Screen : Sound(files'[s])
  BY DEF Promised
<1>4. \A s, t \in Screen : s # t => IdsIn(files'[s]) \cap IdsIn(files'[t]) = {}
  BY DEF Promised
<1>5. files' = promise'.files
  BY DEF Promised
<1> QED
  BY <1>1, <1>2, <1>3, <1>4, <1>5 DEF Promised

LEMMA NowhereDone == phase = "down" => \A t \in Screen : ~Done(t)
BY DEF Done

LEMMA DownResumed ==
  ASSUME phase' = "down", Promised'
  PROVE  HeldInv'
<1>1. \A t \in Screen : ~Done(t)'
  BY DEF Done
<1> QED
  BY <1>1 DEF HeldInv, Resumed

LEMMA DeinitDoneHeld ==
  ASSUME WorkspacesInv, PromiseInv, SavingInv, DeinitDone
  PROVE  HeldInv'
<1>1. CASE scr < Screens
  BY <1>1 DEF DeinitDone, HeldInv, Held
<1>2. CASE ~(scr < Screens)
  <2>1. /\ phase = "deinit" /\ phase' = "down" /\ UNCHANGED <<files, prop, root>> /\ scr \in Screen
        /\ promise' = IF promise.kept THEN [promise EXCEPT !.at = commands, !.files = files] ELSE NoPromise
        /\ PromiseType /\ commands \in Nat /\ files \in [Screen -> Seq(Items)] /\ PhaseType
    BY <1>2 DEF DeinitDone, WorkspacesInv, PhaseType, FilesType, PromiseInv
  <2>2. CASE ~promise.kept
    BY <2>1, <2>2, NoPromiseIs DEF HeldInv, Held
  <2>3. CASE promise.kept
    <3>1. promise' = [promise EXCEPT !.at = commands, !.files = files]
      BY <2>1, <2>3
    <3>2. promise'.prop = promise.prop /\ promise'.files = files
      BY <2>1, <3>1, MadePromise
    <3>3. AllSaved
      BY <2>1, <2>3 DEF SavingInv
    <3>4. \A s \in Screen : Written(s)
      BY <1>2, <2>1, NextScreen DEF Written
    <3>5. \A s \in Screen : SavedIds(s) = IdsIn(files[s]) /\ Sound(files[s])
      BY <3>3, <3>4 DEF SavedIds, AllSaved
    <3>6. \A s, t \in Screen : s # t => IdsIn(files[s]) \cap IdsIn(files[t]) = {}
      BY <3>3, <3>5 DEF AllSaved
    <3>7. ASSUME NEW w \in Lasting
          PROVE  prop[w] = promise.prop[w] /\ \E s \in Screen : root[w] = s /\ prop[w] \in IdsIn(files[s])
      BY <3>3, <3>5 DEF AllSaved
    <3>8. Lasting' = Lasting
      BY <3>2 DEF Lasting
    <3>9. Promised'
      BY <2>1, <3>2, <3>5, <3>6, <3>7, <3>8 DEF Promised
    <3> QED
      BY <2>1, <3>9, DownResumed
  <2> QED
    BY <2>2, <2>3
<1> QED
  BY <1>1, <1>2

LEMMA CrashHeld ==
  ASSUME HeldInv, Crash
  PROVE  HeldInv'
<1>1. /\ phase' = "down" /\ UNCHANGED <<prop, root, commands>>
      /\ promise' = IF phase \in {"read", "scan", "run"} /\ commands = promise.at THEN promise ELSE NoPromise
      /\ phase # "write" => UNCHANGED files
  BY DEF Crash, Gone
<1>2. CASE phase \in {"read", "scan", "run"} /\ commands = promise.at
  <2>1. UNCHANGED <<files, promise>>
    BY <1>1, <1>2
  <2>2. Held' => Held
    BY <1>1, <1>2, <2>1 DEF Held
  <2>3. Held => Promised'
    BY <1>1, <2>1, PromisedStays DEF HeldInv, Resumed
  <2>4. CASE Held'
    BY <1>1, <2>2, <2>3, <2>4, DownResumed
  <2>5. CASE ~Held'
    BY <2>5 DEF HeldInv
  <2> QED
    BY <2>4, <2>5
<1>3. CASE ~(phase \in {"read", "scan", "run"} /\ commands = promise.at)
  BY <1>1, <1>3, NoPromiseIs DEF HeldInv, Held
<1> QED
  BY <1>2, <1>3

LEMMA ElsewhereHeld ==
  ASSUME SessionInv, PromiseInv, HeldInv, NEW w \in Window, NEW s \in Screen, Elsewhere(w, s)
  PROVE  HeldInv'
<1>1. /\ phase = "down" /\ phase' = "down" /\ commands' = commands + 1 /\ UNCHANGED files
      /\ prop' = [prop EXCEPT ![w] = 0] /\ \A v \in Window \ {w} : root'[v] = root[v]
      /\ promise' = [promise EXCEPT !.at = commands', !.prop[w] = 0]
      /\ prop \in [Window -> Nat]
  BY ClientsFacts DEF Elsewhere, SessionInv, ClientsInv
<1>2. commands' \in Nat
  BY <1>1 DEF PromiseInv
<1>3. /\ promise'.at = commands' /\ promise'.files = promise.files
      /\ promise'.prop = [promise.prop EXCEPT ![w] = 0] /\ promise.prop \in [Window -> Nat]
  BY <1>1, <1>2, LessPromise DEF PromiseInv, PromiseType
<1>4. SUFFICES ASSUME Held' PROVE HeldInv'
  BY DEF HeldInv
<1>5. Held
  BY <1>1, <1>3, <1>4 DEF Held, PromiseInv
<1>6. Promised
  BY <1>5 DEF HeldInv, Resumed
<1>7. \A v \in Lasting' : v \in Lasting /\ v \in Window \ {w}
  BY <1>3 DEF Lasting
<1>8. ASSUME NEW v \in Lasting'
      PROVE  prop'[v] = promise'.prop[v] /\ \E t \in Screen : root'[v] = t /\ prop'[v] \in IdsIn(files'[t])
  <2>1. v \in Lasting /\ v \in Window /\ v # w
    BY <1>7
  <2>2. prop'[v] = prop[v] /\ promise'.prop[v] = promise.prop[v] /\ root'[v] = root[v]
    BY <1>1, <1>3, <2>1
  <2>3. prop[v] = promise.prop[v] /\ \E t \in Screen : root[v] = t /\ prop[v] \in IdsIn(files[t])
    BY <1>6, <2>1 DEF Promised
  <2> QED
    BY <1>1, <2>2, <2>3
<1>9. \A t \in Screen : Sound(files'[t])
  BY <1>1, <1>6 DEF Promised
<1>10. \A t, u \in Screen : t # u => IdsIn(files'[t]) \cap IdsIn(files'[u]) = {}
  BY <1>1, <1>6 DEF Promised
<1>11. files' = promise'.files
  BY <1>1, <1>3, <1>6 DEF Promised
<1>12. Promised'
  <2> HIDE DEF Lasting
  <2> QED
    BY <1>8, <1>9, <1>10, <1>11 DEF Promised
<1> QED
  BY <1>1, <1>12, DownResumed

LEMMA IdsOfTail ==
  ASSUME NEW x \in Seq(Items), x # <<>>
  PROVE  /\ Tail(x) \in Seq(Items) /\ Head(x) \in Items /\ x = <<Head(x)>> \o Tail(x)
         /\ IdsIn(Tail(x)) \subseteq IdsIn(x)
         /\ Head(x).k = "frame" => Head(x).id \in IdsIn(x)
         /\ NoTwice(x) /\ Head(x).k = "frame" => Head(x).id \notin IdsIn(Tail(x))
<1>1. Tail(x) \in Seq(Items) /\ Head(x) \in Items /\ x = <<Head(x)>> \o Tail(x) /\ <<Head(x)>> \in Seq(Items)
  OBVIOUS
<1> DEFINE a == <<Head(x)>>
           b == Tail(x)
<1>2. a \in Seq(Items) /\ b \in Seq(Items) /\ x = a \o b
  BY <1>1
<1>3. IdsIn(a) = IF Head(x).k = "frame" THEN {Head(x).id} ELSE {}
  BY <1>1, IdsOfItem
<1> HIDE DEF a, b
<1>4. /\ IdsIn(x) = IdsIn(a) \cup IdsIn(b)
      /\ NoTwice(x) => IdsIn(a) \cap IdsIn(b) = {}
  BY <1>2, IdsOfConcat
<1>5. /\ IdsIn(b) \subseteq IdsIn(x)
      /\ Head(x).k = "frame" => Head(x).id \in IdsIn(x)
      /\ NoTwice(x) /\ Head(x).k = "frame" => Head(x).id \notin IdsIn(b)
  BY <1>3, <1>4
<1> QED
  BY <1>1, <1>5 DEF b

LEMMA SectionIs ==
  ASSUME WorkspacesInv, phase = "read"
  PROVE  /\ scr \in Screen /\ ws[scr] \in Seq(Workspaces) /\ OpenOk(reader.open) /\ Blank(TextOf(frame_id))
         /\ reader.open # <<>> => InSection(ws[scr], reader.open)
         /\ reader.open # <<>> <=> Depth > 0
<1>1. scr \in Screen /\ ws[scr] \in Seq(Workspaces) /\ OpenOk(reader.open) /\ frame_id \in IdTable /\ FilesType
  BY DEF WorkspacesInv, PhaseType, WsType, ReaderInv, IdsInv, IdsType, IdTable
<1>2. Depth \in Nat /\ (Depth = 0 <=> reader.open = <<>>)
  BY <1>1, ReaderFields
<1>3. reader.open # <<>> => ws[scr] # <<>>
  BY DEF WorkspacesInv, ReaderInv
<1> QED
  BY <1>1, <1>2, <1>3, TextBlank DEF InSection

LEMMA HeldBefore ==
  ASSUME HeldInv, Held', UNCHANGED <<promise, commands>>, phase \notin {"write", "deinit"}
  PROVE  Held /\ Resumed
BY DEF HeldInv, Held

LEMMA ReadHeld ==
  ASSUME WorkspacesInv, Resumed, phase = "read", UNCHANGED <<idVars, phase, scr, files, promise, prop, root>>,
         \A t \in Screen \ {scr} : ws'[t] = ws[t], Resuming'
  PROVE  Resumed'
<1>1. Promised'
  BY PromisedStays DEF Resumed
<1>2. Live' = Live
  BY DEF Live, idVars
<1>3. ASSUME NEW t \in Screen, Done(t)'
      PROVE  WriteWorkspaces(t)' = files'[t]
  <2>1. Done(t) /\ t # scr
    BY <1>3, NextScreen DEF Done, WorkspacesInv, PhaseType, Screen
  <2>2. WriteWorkspaces(t) = files[t]
    BY <2>1 DEF Resumed
  <2>3. ws'[t] = ws[t] /\ frame_id' = frame_id
    BY <2>1 DEF idVars
  <2>4. WriteWorkspaces(t)' = WriteWorkspaces(t)
    BY <2>3, WriteWorkspacesIs
  <2> QED
    BY <2>2, <2>4
<1>4. phase' \in {"read", "scan"} => \A t \in Screen : t > scr' => \A f \in Live' : frame_id'[f] \notin IdsIn(files'[t])
  BY <1>2 DEF Resumed, idVars
<1> QED
  BY <1>1, <1>3, <1>4 DEF Resumed

LEMMA OptWorkspaceHeld ==
  ASSUME WorkspacesInv, HeldInv, OptWorkspace
  PROVE  HeldInv'
<1> SUFFICES ASSUME Held' PROVE Resumed'
  BY DEF HeldInv
<1>1. /\ phase = "read" /\ UNCHANGED <<idVars, phase, scr, files, promise, prop, root, commands>>
      /\ reader.rest # <<>> /\ Depth = 0 /\ Next1.k = "workspace" /\ Read(<<Node>>, 0)
  BY DEF OptWorkspace, Reading
<1>2. Resumed /\ Resuming
  BY <1>1, HeldBefore DEF Resumed
<1> DEFINE g == TextOf(frame_id)
           w == [name |-> "workspace", splitree |-> NULL, wins |-> <<>>]
           rest == reader.rest
<1>3. reader.open = <<>> /\ rest \in Seq(Items) /\ FilesType
  BY <1>1, ReaderFields DEF WorkspacesInv
<1>4. ws[scr] \in Seq(Workspaces) /\ Blank(g) /\ Midway(g, ws[scr], <<>>, rest, files[scr])
  BY <1>1, <1>2, <1>3, SectionIs DEF Resuming
<1>5. ws'[scr] = Append(ws[scr], w) /\ \A t \in Screen \ {scr} : ws'[t] = ws[t]
  BY OptWorkspaceKeeps DEF Kept
<1>6. w \in Workspaces /\ w.name = "workspace"
  BY NullIsTree DEF Workspaces
<1>7. rest # <<>> /\ Head(rest).k = "workspace"
  BY <1>1 DEF Next1
<1>8. reader'.rest = Tail(rest) /\ reader'.open = <<Node>> /\ reader'.skip = 0
  BY <1>1 DEF Read
<1> HIDE DEF g, w, rest
<1>9. PICK k \in Names : /\ Head(rest) = Item(k, 0)
                         /\ \A v \in Workspaces : v.name = k => Midway(g, Append(ws[scr], v), <<Node>>, Tail(rest), files[scr])
  BY <1>4, <1>7, MidwayWorkspace
<1>10. k = "workspace"
  BY <1>7, <1>9 DEF Item
<1>11. Midway(g, ws'[scr], <<Node>>, Tail(rest), files[scr])
  BY <1>5, <1>6, <1>9, <1>10
<1>12. \A f \in Live : frame_id[f] \notin IdsIn(Tail(rest))
  BY <1>2, <1>3, <1>7, IdsOfTail DEF Resuming, rest
<1>13. Resuming'
  BY <1>1, <1>8, <1>11, <1>12 DEF Resuming, g, idVars, Live
<1> QED
  BY <1>1, <1>2, <1>5, <1>13, ReadHeld

LEMMA OptSplitHeld ==
  ASSUME WorkspacesInv, HeldInv, OptSplit
  PROVE  HeldInv'
<1> SUFFICES ASSUME Held' PROVE Resumed'
  BY DEF HeldInv
<1>1. /\ phase = "read" /\ UNCHANGED <<idVars, phase, scr, files, ws, promise, prop, root, commands>>
      /\ reader.rest # <<>> /\ Depth > 0 /\ Next1.k = "split" /\ ~FullIn(reader.open)
      /\ Read(Append(reader.open, Node), 0)
  BY FullIs DEF OptSplit, Reading
<1>2. Resumed /\ Resuming
  BY <1>1, HeldBefore DEF Resumed
<1> DEFINE g == TextOf(frame_id)
           rest == reader.rest
           open == reader.open
<1>3. InSection(ws[scr], open) /\ Blank(g) /\ Midway(g, ws[scr], open, rest, files[scr]) /\ ~FullIn(open)
  BY <1>1, <1>2, SectionIs DEF Resuming
<1>4. Head(rest).k = "split" /\ rest # <<>>
  BY <1>1 DEF Next1
<1>5. reader'.rest = Tail(rest) /\ reader'.open = Append(open, Node) /\ reader'.skip = 0
  BY <1>1 DEF Read
<1>6. rest \in Seq(Items)
  BY ReaderFields DEF WorkspacesInv
<1> HIDE DEF g, rest, open
<1>7. \/ \E id \in 1 .. INT_MAX : Head(rest) = Item("frame", id)
      \/ Head(rest) = Item("split", 0) /\ Midway(g, ws[scr], Append(open, Node), Tail(rest), files[scr])
  BY <1>3, MidwayNext
<1>8. Midway(g, ws[scr], Append(open, Node), Tail(rest), files[scr])
  BY <1>4, <1>7 DEF Item
<1>9. \A f \in Live : frame_id[f] \notin IdsIn(Tail(rest))
  BY <1>2, <1>4, <1>6, IdsOfTail DEF Resuming, rest
<1>10. Resuming'
  BY <1>1, <1>5, <1>8, <1>9 DEF Resuming, g, idVars, Live
<1> QED
  BY <1>1, <1>2, <1>10, ReadHeld

LEMMA NextReadable ==
  ASSUME WorkspacesInv, Held, Resumed, phase = "read", reader.rest # <<>>
  PROVE  Next1.k # "unreadable"
<1>1. Midway(TextOf(frame_id), ws[scr], reader.open, reader.rest, files[scr])
  BY DEF Resumed, Resuming
<1>2. Len(reader.open) \in Nat /\ reader.rest \in Seq(Items) /\ scr \in Screen
  BY ReaderFields DEF WorkspacesInv, PhaseType
<1>3. PICK text \in Seq(Items) : files[scr] = text \o reader.rest
  <2> DEFINE g == TextOf(frame_id)
             open == reader.open
             rest == reader.rest
             W == ws[scr]
             file == files[scr]
  <2>1. Midway(g, W, open, rest, file) /\ Len(open) \in Nat
    BY <1>1, <1>2
  <2> HIDE DEF g, open, rest, W, file
  <2>2. rest \in Seq(Items) /\ file \in Seq(Items) /\ \E text \in Seq(Items) : file = text \o rest
    BY <2>1, MidwayType
  <2> QED
    BY <2>2 DEF file, rest
<1>4. \A i \in DOMAIN files[scr] : files[scr][i].k # "unreadable"
  BY <1>2 DEF Held, Readable, Resumed, Promised
<1> DEFINE rest == reader.rest
<1>5. rest \in Seq(Items) /\ rest # <<>> /\ Next1 = Head(rest)
  BY <1>2 DEF Next1
<1> HIDE DEF rest
<1>6. Len(text) + 1 \in DOMAIN (text \o rest) /\ (text \o rest)[Len(text) + 1] = Head(rest)
  BY <1>3, <1>5
<1> QED
  BY <1>3, <1>4, <1>5, <1>6 DEF rest

LEMMA SkipHeld ==
  ASSUME WorkspacesInv, HeldInv, Skip \/ SkippedEnd
  PROVE  HeldInv'
<1> SUFFICES ASSUME Held' PROVE FALSE
  BY DEF HeldInv
<1>1. /\ phase = "read" /\ UNCHANGED <<promise, commands>> /\ reader.rest # <<>>
      /\ \/ reader.skip > 0
         \/ Depth = 0 /\ Next1.k \in {"split", "frame", "end"}
         \/ Depth > 0 /\ Next1.k = "workspace"
         \/ Next1.k = "unreadable"
         \/ Depth > 0 /\ Next1.k \in {"split", "frame"} /\ FullIn(reader.open)
  BY FullIs DEF Skip, SkippedEnd, Reading
<1>2. Held /\ Resumed /\ Resuming
  BY <1>1, HeldBefore DEF Resumed
<1> DEFINE g == TextOf(frame_id)
           rest == reader.rest
           open == reader.open
<1>3. /\ rest # <<>> /\ Next1 = Head(rest) /\ Next1.k # "unreadable" /\ ~(reader.skip > 0)
      /\ ws[scr] \in Seq(Workspaces) /\ Blank(g) /\ Midway(g, ws[scr], open, rest, files[scr])
      /\ Depth \in Nat /\ (Depth = 0 <=> open = <<>>)
      /\ open # <<>> => InSection(ws[scr], open)
  BY <1>1, <1>2, NextReadable, SectionIs, ReaderFields DEF Resuming, WorkspacesInv, Next1
<1>4. /\ rest # <<>>
      /\ \/ open = <<>> /\ Head(rest).k \in {"split", "frame", "end"}
         \/ open # <<>> /\ Head(rest).k = "workspace"
         \/ open # <<>> /\ Head(rest).k \in {"split", "frame"} /\ FullIn(open)
  BY <1>1, <1>3
<1> HIDE DEF g, rest, open
<1>5. CASE open = <<>>
  <2>1. \E k \in Names : Head(rest) = Item(k, 0)
    BY <1>3, <1>5, MidwayWorkspace
  <2> QED
    BY <1>4, <1>5, <2>1 DEF Item, Names
<1>6. CASE open # <<>>
  <2>1. /\ FullIn(open) => Head(rest) = Item("end", 0)
        /\ ~FullIn(open) => (\E id \in 1 .. INT_MAX : Head(rest) = Item("frame", id)) \/ Head(rest) = Item("split", 0)
    BY <1>3, <1>6, MidwayNext
  <2> QED
    BY <1>4, <1>6, <2>1 DEF Item
<1> QED
  BY <1>5, <1>6

\* While a section is open there is more to read, and it ends when it is full.
LEMMA EndsFull ==
  ASSUME WorkspacesInv, Resuming, phase = "read", reader.open # <<>>,
         ~(reader.rest # <<>> /\ (Next1.k # "end" \/ reader.skip > 0))
  PROVE  /\ InSection(ws[scr], reader.open) /\ FullIn(reader.open)
         /\ reader.rest \in Seq(Items) /\ reader.rest # <<>> /\ After = Tail(reader.rest)
<1> DEFINE g == TextOf(frame_id)
           rest == reader.rest
           open == reader.open
<1>1. InSection(ws[scr], open) /\ Blank(g) /\ Midway(g, ws[scr], open, rest, files[scr])
  BY SectionIs DEF Resuming
<1>2. rest # <<>> => Head(rest).k = "end"
  BY DEF Next1
<1>3. After = IF rest = <<>> THEN <<>> ELSE Tail(rest)
  BY DEF After
<1> HIDE DEF g, rest, open
<1>4. /\ rest \in Seq(Items) /\ rest # <<>>
      /\ ~FullIn(open) => (\E id \in 1 .. INT_MAX : Head(rest) = Item("frame", id)) \/ Head(rest) = Item("split", 0)
  BY <1>1, MidwayNext
<1>5. FullIn(open)
  BY <1>2, <1>4 DEF Item
<1> QED
  BY <1>1, <1>3, <1>4, <1>5 DEF rest, open

\* What a split that is full becomes.
LEMMA FoldedFull ==
  ASSUME NEW open, OpenOk(open), Len(open) > 1, open # <<>>, FullIn(open)
  PROVE  \E o \in Trees : /\ IsLast(o, open) /\ IsSplit(o) /\ o # NULL
                          /\ Folded(open) = Put(SubSeq(open, 1, Len(open) - 1), o)
<1> DEFINE o == open[Len(open)]
<1>1. o \in OpenTrees /\ SidesOk(o, MaxDepth + 1 - Len(open)) /\ Len(open) \in 1 .. MaxDepth + 1
  BY LastOpen
<1>2. o.br # NULL /\ Len(open) # 1
  BY <1>1 DEF FullIn
<1>3. o.tl \in TreesOf[MaxDepth + 1 - Len(open)] /\ o.br \in TreesOf[MaxDepth + 1 - Len(open)]
  BY <1>1 DEF SidesOk
<1>4. o = [tl |-> o.tl, br |-> o.br]
  BY <1>1, OpenTreeIs
<1> DEFINE n == MaxDepth + 2 - Len(open)
<1>5. n \in 0 .. MaxDepth /\ n > 0 /\ n - 1 = MaxDepth + 1 - Len(open)
  BY <1>1, <1>2, SessionAssumption
<1>6. KeptOf(o) = o
  BY <1>2 DEF KeptOf
<1> HIDE DEF o, n
<1>7. [tl |-> o.tl, br |-> o.br] \in TreesOf[n] /\ IsSplit([tl |-> o.tl, br |-> o.br])
  BY <1>3, <1>5, SplitOfTrees
<1>8. o \in Trees /\ IsSplit(o)
  BY <1>4, <1>5, <1>7, TreesGrow
<1>9. o # NULL
  BY <1>8 DEF IsSplit, Atoms
<1>10. Folded(open) = Put(SubSeq(open, 1, Len(open) - 1), o)
  BY <1>6, <1>9 DEF Folded, o
<1>11. IsLast(o, open)
  BY DEF IsLast, o
<1> QED
  BY <1>8, <1>9, <1>10, <1>11

LEMMA OptSplitEndHeld ==
  ASSUME WorkspacesInv, HeldInv, OptSplitEnd
  PROVE  HeldInv'
<1> SUFFICES ASSUME Held' PROVE Resumed'
  BY DEF HeldInv
<1>1. /\ phase = "read" /\ OpenOk(reader.open) /\ Len(reader.open) > 1 /\ reader.open # <<>>
      /\ UNCHANGED <<idVars, phase, scr, files, ws, promise, prop, root, commands>>
      /\ reader'.rest = After /\ reader'.open = Folded(reader.open) /\ reader'.skip = reader.skip
      /\ ~(reader.rest # <<>> /\ (Next1.k # "end" \/ reader.skip > 0))
  BY OptSplitEndIs
<1>2. Resumed /\ Resuming
  BY <1>1, HeldBefore DEF Resumed
<1> DEFINE g == TextOf(frame_id)
           rest == reader.rest
           open == reader.open
           W == ws[scr]
           file == files[scr]
<1>3. InSection(W, open) /\ FullIn(open) /\ rest \in Seq(Items) /\ rest # <<>> /\ After = Tail(rest)
  BY <1>1, <1>2, EndsFull
<1>4. Blank(g) /\ Midway(g, W, open, rest, file) /\ Len(open) > 1 /\ OpenOk(open) /\ open # <<>>
  BY <1>1, <1>2, SectionIs DEF Resuming
<1>5. \A t \in Trees : IsSplit(t) => g[t] = SplitText(g[t.tl], g[t.br])
  BY TextOfIs
<1>6. \A f \in Live : frame_id[f] \notin IdsIn(Tail(rest))
  BY <1>2, <1>3, IdsOfTail DEF Resuming
<1>7. reader'.rest = Tail(rest) /\ reader'.open = Folded(open) /\ reader'.skip = 0
  BY <1>1, <1>2, <1>3 DEF Resuming
<1> HIDE DEF g, rest, open, W, file
<1>8. PICK o \in Trees : /\ IsLast(o, open) /\ IsSplit(o) /\ o # NULL
                         /\ Folded(open) = Put(SubSeq(open, 1, Len(open) - 1), o)
  BY <1>3, <1>4, FoldedFull
<1>9. Midway(g, W, Put(SubSeq(open, 1, Len(open) - 1), o), Tail(rest), file)
  BY <1>3, <1>4, <1>5, <1>8, MidwaySplit
<1>10. Midway(g, W, Folded(open), Tail(rest), file)
  BY <1>8, <1>9
<1>11. Resuming'
  BY <1>1, <1>6, <1>7, <1>10 DEF Resuming, g, W, file, idVars, Live
<1> QED
  BY <1>1, <1>2, <1>11, ReadHeld

LEMMA OptWorkspaceEndHeld ==
  ASSUME WorkspacesInv, HeldInv, OptWorkspaceEnd
  PROVE  HeldInv'
<1> SUFFICES ASSUME Held' PROVE Resumed'
  BY DEF HeldInv
<1>1. /\ phase = "read" /\ Len(reader.open) = 1 /\ OpenOk(reader.open) /\ reader.open # <<>>
      /\ UNCHANGED <<idVars, phase, scr, files, promise, prop, root, commands>>
      /\ reader'.rest = After /\ reader'.open = <<>> /\ reader'.skip = reader.skip
      /\ ~(reader.rest # <<>> /\ (Next1.k # "end" \/ reader.skip > 0))
  BY OptWorkspaceEndIs
<1>2. Resumed /\ Resuming
  BY <1>1, HeldBefore DEF Resumed
<1> DEFINE g == TextOf(frame_id)
           rest == reader.rest
           open == reader.open
           W == ws[scr]
           file == files[scr]
           w == [W[Len(W)] EXCEPT !.splitree = open[1].tl]
<1>3. InSection(W, open) /\ FullIn(open) /\ rest \in Seq(Items) /\ rest # <<>> /\ After = Tail(rest)
  BY <1>1, <1>2, EndsFull
<1>4. Blank(g) /\ Midway(g, W, open, rest, file) /\ Len(open) = 1
  BY <1>1, <1>2, SectionIs DEF Resuming
<1>5. \A f \in Live : frame_id[f] \notin IdsIn(Tail(rest))
  BY <1>2, <1>3, IdsOfTail DEF Resuming
<1>6. reader'.rest = Tail(rest) /\ reader'.open = <<>> /\ reader'.skip = 0
  BY <1>1, <1>2, <1>3 DEF Resuming
<1>7. open[1].tl # NULL
  BY <1>3, <1>4 DEF FullIn
<1>8. w \in Workspaces /\ w.name = W[Len(W)].name /\ w.splitree = open[1].tl
  BY OptWorkspaceEndKeeps
<1>9. ws'[scr] = [W EXCEPT ![Len(W)] = w]
  BY <1>7, OptWorkspaceEndKeeps
<1>10. Kept(scr, {}, {open[1].tl})
  BY OptWorkspaceEndKeeps
<1> HIDE DEF g, rest, open, W, file, w
<1>11. Midway(g, [W EXCEPT ![Len(W)] = w], <<>>, Tail(rest), file)
  BY <1>3, <1>4, <1>8, MidwayClosed
<1>12. Midway(g, ws'[scr], <<>>, Tail(rest), file)
  BY <1>9, <1>11
<1>13. Resuming'
  BY <1>1, <1>5, <1>6, <1>12 DEF Resuming, g, file, idVars, Live
<1>14. \A t \in Screen \ {scr} : ws'[t] = ws[t]
  BY <1>10 DEF Kept
<1> QED
  BY <1>1, <1>2, <1>13, <1>14, ReadHeld

LEMMA ScreensHeld ==
  ASSUME Promised, UNCHANGED <<idVars, files, ws, promise, prop, root>>,
         \A t \in Screen : Done(t)' => WriteWorkspaces(t) = files[t],
         phase' \in {"read", "scan"} => \A t \in Screen : t > scr' => \A f \in Live : frame_id[f] \notin IdsIn(files[t]),
         phase' = "read" => Resuming'
  PROVE  Resumed'
<1>1. Promised'
  BY PromisedStays
<1>2. Live' = Live
  BY DEF Live, idVars
<1>3. ASSUME NEW t \in Screen, Done(t)'
      PROVE  WriteWorkspaces(t)' = files'[t]
  <2>1. WriteWorkspaces(t) = files[t]
    BY <1>3
  <2>2. ws'[t] = ws[t] /\ frame_id' = frame_id
    BY DEF idVars
  <2>3. WriteWorkspaces(t)' = WriteWorkspaces(t)
    BY <2>2, WriteWorkspacesIs
  <2> QED
    BY <2>1, <2>3
<1>4. phase' \in {"read", "scan"} => \A t \in Screen : t > scr' => \A f \in Live' : frame_id'[f] \notin IdsIn(files'[t])
  BY <1>2 DEF idVars
<1> QED
  BY <1>1, <1>3, <1>4 DEF Resumed

\* A screen that is to be read has no workspaces yet.
LEMMA BeginsHeld ==
  ASSUME WorkspacesInv, Promised, UNCHANGED <<idVars, files, ws>>, NEW s \in Screen, scr' = s, ws[s] = <<>>,
         \A f \in Live : frame_id[f] \notin IdsIn(files[s]),
         reader' = [NoReader EXCEPT !.rest = files[s]]
  PROVE  Resuming'
<1>1. files[s] \in Layouts
  BY DEF Promised, Sound
<1>2. frame_id \in IdTable
  BY DEF WorkspacesInv, IdsInv, IdsType, IdTable
<1>3. Midway(TextOf(frame_id), <<>>, <<>>, files[s], files[s])
  BY <1>1, <1>2, TextBlank, MidwayBegins
<1>4. reader'.rest = files[s] /\ reader'.open = <<>> /\ reader'.skip = 0
  BY DEF NoReader
<1>5. ws'[scr'] = <<>> /\ files'[scr'] = files[s] /\ frame_id' = frame_id /\ Live' = Live
  BY DEF idVars, Live
<1> QED
  BY <1>3, <1>4, <1>5 DEF Resuming

LEMMA StartHeld ==
  ASSUME WorkspacesInv, HeldInv, Start
  PROVE  HeldInv'
<1> SUFFICES ASSUME Held' PROVE Resumed'
  BY DEF HeldInv
<1>1. /\ phase = "down" /\ phase' = "read" /\ scr' = 1 /\ reader' = [NoReader EXCEPT !.rest = files[1]]
      /\ UNCHANGED <<idVars, files, ws, promise, prop, root, commands>>
  BY DEF Start
<1>2. Promised
  BY <1>1, HeldBefore DEF Resumed
<1>3. 1 \in Screen /\ \A t \in Screen : ~(t < 1)
  BY SessionAssumption DEF Screen
<1>4. \A s \in Screen : ws[s] = <<>>
  BY <1>1 DEF WorkspacesInv, LeftInv
<1>5. Live = {}
  <2>1. \A s \in Screen : FramesOf(s) = {}
    BY <1>4 DEF FramesOf
  <2> QED
    BY <2>1 DEF WorkspacesInv, FramesInv
<1>6. Resuming'
  BY <1>1, <1>2, <1>3, <1>4, <1>5, BeginsHeld
<1>7. \A t \in Screen : ~Done(t)'
  BY <1>1, <1>3 DEF Done
<1> QED
  BY <1>1, <1>2, <1>5, <1>6, <1>7, ScreensHeld

LEMMA EndOfTextHeld ==
  ASSUME WorkspacesInv, HeldInv, NEW f \in Frame, EndOfText(f)
  PROVE  HeldInv'
<1> SUFFICES ASSUME Held' PROVE Resumed'
  BY DEF HeldInv
<1>1. /\ phase = "read" /\ phase' = "scan" /\ reader.rest = <<>> /\ Depth = 0
      /\ UNCHANGED <<scr, files, promise, root, commands>>
  BY DEF EndOfText
<1>2. Resumed /\ Resuming
  BY <1>1, HeldBefore DEF Resumed
<1>3. scr \in Screen /\ ws[scr] \in Seq(Workspaces) /\ Blank(TextOf(frame_id)) /\ reader.open = <<>>
  BY <1>1, SectionIs, ReaderFields DEF WorkspacesInv
<1>4. Midway(TextOf(frame_id), ws[scr], <<>>, <<>>, files[scr])
  BY <1>1, <1>2, <1>3 DEF Resuming
<1>5. files[scr] = LayoutOf(TextOf(frame_id), ws[scr])
  BY <1>3, <1>4, MidwayEnds
<1>6. files[scr] # <<>>
  BY <1>2, <1>3 DEF Resumed, Promised, Sound
<1>7. ws[scr] # <<>>
  BY <1>5, <1>6, NoLayout
<1>8. UNCHANGED <<idVars, ws, prop>>
  BY <1>7, EndOfTextKeeps
<1>9. WriteWorkspaces(scr) = files[scr]
  BY <1>5, WriteWorkspacesIs
<1>10. \A t \in Screen : Done(t)' => WriteWorkspaces(t) = files[t]
  BY <1>1, <1>2, <1>9 DEF Resumed, Done
<1>11. \A t \in Screen : t > scr' => \A h \in Live : frame_id[h] \notin IdsIn(files[t])
  BY <1>1, <1>2 DEF Resumed
<1>12. Promised
  BY <1>2 DEF Resumed
<1>13. UNCHANGED <<idVars, files, ws, promise, prop, root>> /\ phase' # "read"
  BY <1>1, <1>8
<1> QED
  BY <1>10, <1>11, <1>12, <1>13, ScreensHeld

LEMMA EndOfScanHeld ==
  ASSUME WorkspacesInv, ScreensInv, HeldInv, EndOfScan
  PROVE  HeldInv'
<1> SUFFICES ASSUME Held' PROVE Resumed'
  BY DEF HeldInv
<1>1. /\ phase = "scan" /\ UNCHANGED <<idVars, files, ws, promise, prop, root, commands>>
      /\ scr \in Screen /\ PhaseType
  BY DEF EndOfScan, WorkspacesInv, PhaseType
<1>2. Resumed /\ Promised
  BY <1>1, HeldBefore DEF Resumed
<1>3. \A t \in Screen : t < scr \/ t = scr => WriteWorkspaces(t) = files[t]
  BY <1>1, <1>2 DEF Resumed, Done
<1>4. CASE scr < Screens
  <2>1. phase' = "read" /\ scr' = scr + 1 /\ reader' = [NoReader EXCEPT !.rest = files[scr + 1]]
    BY <1>4 DEF EndOfScan
  <2>2. /\ scr + 1 \in Screen /\ scr + 1 > scr
        /\ \A t \in Screen : (t < scr + 1 => t < scr \/ t = scr) /\ (t > scr + 1 => t > scr)
    BY <1>1, <1>4, NextScreen
  <2>3. ws[scr + 1] = <<>>
    BY <1>1, <2>2 DEF ScreensInv
  <2>4. \A t \in Screen : t > scr => \A f \in Live : frame_id[f] \notin IdsIn(files[t])
    BY <1>1, <1>2 DEF Resumed
  <2> DEFINE s == scr + 1
  <2>5. /\ s \in Screen /\ ws[s] = <<>> /\ scr' = s /\ reader' = [NoReader EXCEPT !.rest = files[s]]
        /\ \A f \in Live : frame_id[f] \notin IdsIn(files[s])
    BY <2>1, <2>2, <2>3, <2>4
  <2> HIDE DEF s
  <2>6. Resuming'
    BY <1>1, <1>2, <2>5, BeginsHeld
  <2>7. \A t \in Screen : Done(t)' => WriteWorkspaces(t) = files[t]
    BY <1>3, <2>1, <2>2 DEF Done
  <2>8. \A t \in Screen : t > scr' => \A f \in Live : frame_id[f] \notin IdsIn(files[t])
    BY <2>1, <2>2, <2>4
  <2> QED
    BY <1>1, <1>2, <2>6, <2>7, <2>8, ScreensHeld
<1>5. CASE ~(scr < Screens)
  <2>1. phase' = "run"
    BY <1>5 DEF EndOfScan
  <2>2. \A t \in Screen : t < scr \/ t = scr
    BY <1>1, <1>5, NextScreen
  <2>3. \A t \in Screen : WriteWorkspaces(t) = files[t]
    BY <1>3, <2>2
  <2> QED
    BY <1>1, <1>2, <2>1, <2>3, ScreensHeld
<1> QED
  BY <1>4, <1>5

\* The frame that is read gets the id it had, which no other frame has or will ask for.
FrameRead(f, id) ==
  /\ Head(reader.rest) = Item("frame", id) /\ f \notin Live /\ frame_id' = [frame_id EXCEPT ![f] = id]
  /\ UNCHANGED prop
  /\ id \notin IdsIn(Tail(reader.rest)) /\ \A t \in Screen : t > scr => id \notin IdsIn(files[t])

LEMMA OptFrameReads ==
  ASSUME WorkspacesInv, Resumed, NEW f \in Frame, OptFrame(f)
  PROVE  \E id \in 1 .. INT_MAX : FrameRead(f, id)
<1> DEFINE g == TextOf(frame_id)
           rest == reader.rest
           open == reader.open
           W == ws[scr]
           file == files[scr]
<1>1. /\ phase = "read" /\ Depth > 0 /\ ~FullIn(open) /\ Next1.k = "frame" /\ InitFrameId(f, Next1.id, Place)
      /\ f \notin Live /\ rest # <<>>
  BY OptFrameIs
<1>2. InSection(W, open) /\ Blank(g) /\ Midway(g, W, open, rest, file) /\ scr \in Screen /\ Len(open) \in Nat
  BY <1>1, SectionIs, LastOpen DEF Resumed, Resuming
<1>3. Sound(file) /\ \A t \in Screen : scr # t => IdsIn(file) \cap IdsIn(files[t]) = {}
  BY <1>2 DEF Resumed, Promised
<1>4. Head(rest).k = "frame" /\ Next1.id = Head(rest).id
  BY <1>1 DEF Next1
<1>5. \A h \in Live : frame_id[h] \notin IdsIn(rest)
  BY <1>1 DEF Resumed, Resuming
<1> HIDE DEF g, rest, open, W, file
<1>6. rest \in Seq(Items)
  BY <1>2, MidwayNext
<1>7. PICK id \in 1 .. INT_MAX : Head(rest) = Item("frame", id)
  <2>1. \/ \E id \in 1 .. INT_MAX : Head(rest) = Item("frame", id)
        \/ Head(rest) = Item("split", 0)
    BY <1>1, <1>2, MidwayNext
  <2> QED
    BY <1>4, <2>1 DEF Item
<1>8. Next1.id = id
  BY <1>4, <1>7 DEF Item
<1>9. rest \in Seq(Items) /\ file \in Seq(Items) /\ \E text \in Seq(Items) : file = text \o rest
  BY <1>2, MidwayType
<1>10. PICK text \in Seq(Items) : file = text \o rest
  BY <1>9
<1>11. NoTwice(rest) /\ IdsIn(rest) \subseteq IdsIn(file)
  BY <1>3, <1>9, <1>10, IdsOfConcat DEF Sound
<1>12. id \in IdsIn(rest) /\ id \notin IdsIn(Tail(rest))
  BY <1>1, <1>4, <1>6, <1>8, <1>11, IdsOfTail
<1>13. FindFrameById(id) = {}
  BY <1>5, <1>12 DEF FindFrameById
<1>14. id # 0
  BY <1>7
<1>15. UseFrameId(f, id, Place)
  BY <1>1, <1>8, <1>14 DEF InitFrameId
<1>16. frame_id' = [frame_id EXCEPT ![f] = id]
  BY <1>13, <1>15 DEF UseFrameId
<1>17. ~InitReorders(Next1.id)
  BY <1>8, <1>13, <1>14 DEF InitReorders
<1>18. UNCHANGED prop
  BY <1>17 DEF OptFrame, Reordered
<1>19. \A t \in Screen : t > scr => id \notin IdsIn(files[t])
  <2>1. \A t \in Screen : t > scr => scr # t
    BY <1>2 DEF Screen
  <2> QED
    BY <1>3, <1>11, <1>12, <2>1
<1> QED
  BY <1>1, <1>7, <1>12, <1>16, <1>18, <1>19 DEF FrameRead, rest

LEMMA LiveTextsStay ==
  ASSUME WorkspacesInv, NEW f \in Frame, f \notin Live, NEW id, frame_id' = [frame_id EXCEPT ![f] = id]
  PROVE  \A t \in Trees : Leaves(t) \subseteq Live => TextOf(frame_id')[t] = TextOf(frame_id)[t]
<1> SUFFICES ASSUME NEW t \in Trees, Leaves(t) \subseteq Live
             PROVE  TextOf(frame_id')[t] = TextOf(frame_id)[t]
  OBVIOUS
<1>1. frame_id \in [Frame -> 0 .. INT_MAX]
  BY DEF WorkspacesInv, IdsInv, IdsType
<1>2. \A h \in Leaves(t) : frame_id'[h] = frame_id[h]
  BY <1>1 DEF Live
<1> DEFINE old == frame_id
           new == frame_id'
<1> HIDE DEF old, new
<1>3. \A h \in Leaves(t) : new[h] = old[h]
  BY <1>2 DEF old, new
<1>4. TextOf(new)[t] = TextOf(old)[t]
  BY <1>3, TextSame
<1> QED
  BY <1>4 DEF old, new

LEMMA OptFrameMidway ==
  ASSUME WorkspacesInv, NEW f \in Frame, OptFrame(f), NEW id \in 1 .. INT_MAX, FrameRead(f, id),
         NEW file, Midway(TextOf(frame_id), ws[scr], reader.open, reader.rest, file)
  PROVE  Midway(TextOf(frame_id'), ws'[scr], Put(reader.open, f), Tail(reader.rest), file)
<1> DEFINE g == TextOf(frame_id)
           h == TextOf(frame_id')
           rest == reader.rest
           open == reader.open
           W == ws[scr]
           V == ws'[scr]
           m == Len(W)
           w == [W[m] EXCEPT !.wins = Append(W[m].wins, f)]
<1>1. phase = "read" /\ Depth > 0 /\ ~FullIn(open) /\ OpenOk(open) /\ open # <<>>
  BY OptFrameIs
<1>2. InSection(W, open) /\ scr \in Screen /\ W \in Seq(Workspaces) /\ W # <<>>
  BY <1>1, SectionIs DEF InSection
<1>3. frame_id \in [Frame -> 0 .. INT_MAX] /\ frame_id' = [frame_id EXCEPT ![f] = id] /\ f \notin Live
  BY DEF WorkspacesInv, IdsInv, IdsType, FrameRead
<1>4. \A t \in Trees : Leaves(t) \subseteq Live => h[t] = g[t]
  BY <1>3, LiveTextsStay
<1>5. frame_id' \in IdTable /\ frame_id'[f] = id
  BY <1>3, FrameIdsAssumption DEF IdTable
<1>6. Blank(h) /\ h[f] = <<Item("frame", id)>>
  BY <1>5, TextBlank, TextOfIs, LeavesAre
<1>7. SameSides(g, h, open)
  <2>1. FoundIn(open) \subseteq Live
    BY <1>1, FoundIsLive
  <2> SUFFICES ASSUME NEW d \in 1 .. Len(open)
               PROVE  h[open[d].tl] = g[open[d].tl] /\ h[open[d].br] = g[open[d].br]
    BY DEF SameSides
  <2>2. d \in DOMAIN open /\ open[d] \in OpenTrees
    BY <1>1 DEF OpenOk
  <2>3. open[d].tl \in Trees /\ open[d].br \in Trees
    BY <2>2, OpenTreeIs
  <2>4. Leaves(open[d].tl) \subseteq Live /\ Leaves(open[d].br) \subseteq Live
    BY <2>1, <2>2 DEF FoundIn, SidesLeaves
  <2> QED
    BY <1>4, <2>3, <2>4
<1>8. m \in DOMAIN W /\ V \in Seq(Workspaces) /\ V = [W EXCEPT ![m] = w]
  BY OptFrameKeeps DEF Kept, Becomes
<1>9. w.name = W[m].name
  BY <1>2, <1>8, WorkspaceFields
<1>10. \A i \in DOMAIN W : i < m => W[i].splitree \in Trees /\ Leaves(W[i].splitree) \subseteq Live
  <2> SUFFICES ASSUME NEW i \in DOMAIN W, i < m PROVE W[i].splitree \in Trees /\ Leaves(W[i].splitree) \subseteq Live
    OBVIOUS
  <2>1. Good(W[i])
    BY <1>1, <1>2 DEF WorkspacesInv, TreesInv, Ready
  <2>2. Children(W[i]) \subseteq Live
    BY <1>2 DEF WorkspacesInv, FramesInv, FramesOf
  <2> QED
    BY <2>1, <2>2, GoodIs DEF Good
<1> HIDE DEF g, h, rest, open, W, V, w
<1>11. SameTrees(g, h, W, V, open)
  <2>1. Len(V) = Len(W) /\ \A i \in DOMAIN W : V[i] = IF i = m THEN w ELSE W[i]
    BY <1>2, <1>8
  <2> SUFFICES ASSUME NEW i \in DOMAIN W
               PROVE  V[i].name = W[i].name /\ (open = <<>> \/ i < m => h[V[i].splitree] = g[W[i].splitree])
    BY <1>2, <1>8, <2>1 DEF SameTrees
  <2>2. CASE i = m
    BY <1>1, <1>9, <2>1, <2>2, <1>2
  <2>3. CASE i # m
    <3>1. V[i] = W[i] /\ i < m
      BY <1>2, <2>1, <2>3
    <3> QED
      BY <3>1, <1>4, <1>10
  <2> QED
    BY <2>2, <2>3
<1>12. Midway(g, W, open, rest, file)
  BY DEF g, W, open, rest
<1>13. Midway(h, V, open, rest, file)
  BY <1>7, <1>11, <1>12, MidwaySame
<1>14. V # <<>>
  BY <1>2, <1>8
<1>15. InSection(V, open)
  BY <1>2, <1>8, <1>14 DEF InSection
<1>16. Head(rest) = Item("frame", id)
  BY DEF FrameRead, rest
<1>17. Midway(h, V, Put(open, f), Tail(rest), file)
  BY <1>1, <1>6, <1>13, <1>15, <1>16, MidwayFrame
<1> QED
  BY <1>17 DEF h, V, open, rest

LEMMA OptFrameHeld ==
  ASSUME WorkspacesInv, HeldInv, NEW f \in Frame, OptFrame(f)
  PROVE  HeldInv'
<1> SUFFICES ASSUME Held' PROVE Resumed'
  BY DEF HeldInv
<1>1. /\ phase = "read" /\ UNCHANGED <<phase, scr, files, promise, root, commands>>
      /\ reader'.rest = Tail(reader.rest) /\ reader'.open = Put(reader.open, f) /\ reader'.skip = 0
      /\ f \notin Live /\ Live' = Live \cup {f} /\ scr \in Screen /\ reader.rest # <<>>
  BY OptFrameIs, SectionIs DEF OptFrame
<1>2. Resumed /\ Resuming /\ Promised
  BY <1>1, HeldBefore DEF Resumed
<1>3. PICK id \in 1 .. INT_MAX : FrameRead(f, id)
  BY <1>2, OptFrameReads
<1>4. frame_id \in [Frame -> 0 .. INT_MAX] /\ frame_id' = [frame_id EXCEPT ![f] = id] /\ UNCHANGED prop
  BY <1>3 DEF WorkspacesInv, IdsInv, IdsType, FrameRead
<1>5. frame_id'[f] = id /\ \A h \in Live : frame_id'[h] = frame_id[h]
  BY <1>1, <1>4 DEF Live
<1>6. \A h \in Live : frame_id[h] \notin IdsIn(Tail(reader.rest))
  <2>1. reader.rest \in Seq(Items)
    BY ReaderFields DEF WorkspacesInv
  <2>2. IdsIn(Tail(reader.rest)) \subseteq IdsIn(reader.rest)
    BY <1>1, <2>1, IdsOfTail
  <2> QED
    BY <1>2, <2>2 DEF Resuming
<1>7. Midway(TextOf(frame_id'), ws'[scr], Put(reader.open, f), Tail(reader.rest), files[scr])
  BY <1>2, <1>3, OptFrameMidway DEF Resuming
<1>8. Resuming'
  <2>1. \A h \in Live' : frame_id'[h] \notin IdsIn(reader'.rest)
    BY <1>1, <1>3, <1>5, <1>6 DEF FrameRead
  <2> QED
    BY <1>1, <1>7, <2>1 DEF Resuming
<1>9. Promised'
  BY <1>1, <1>2, <1>4, PromisedStays
<1>10. ASSUME NEW t \in Screen, Done(t)'
       PROVE  WriteWorkspaces(t)' = files'[t]
  <2>1. Done(t) /\ t # scr
    BY <1>1, <1>10, NextScreen DEF Done, WorkspacesInv, PhaseType, Screen
  <2>2. WriteWorkspaces(t) = files[t]
    BY <1>2, <2>1 DEF Resumed
  <2>3. ws'[t] = ws[t]
    BY <2>1, OptFrameKeeps DEF Kept
  <2>4. \A i \in DOMAIN ws[t] : TextOf(frame_id')[ws[t][i].splitree] = TextOf(frame_id)[ws[t][i].splitree]
    <3> SUFFICES ASSUME NEW i \in DOMAIN ws[t]
                 PROVE  TextOf(frame_id')[ws[t][i].splitree] = TextOf(frame_id)[ws[t][i].splitree]
      OBVIOUS
    <3>1. Good(ws[t][i])
      BY <2>1 DEF WorkspacesInv, TreesInv, Ready
    <3>2. Children(ws[t][i]) \subseteq Live
      BY DEF WorkspacesInv, FramesInv, FramesOf
    <3>3. ws[t][i].splitree \in Trees /\ Leaves(ws[t][i].splitree) \subseteq Live
      BY <3>1, <3>2, GoodIs DEF Good
    <3> QED
      BY <1>1, <1>4, <3>3, LiveTextsStay
  <2>5. LayoutOf(TextOf(frame_id'), ws'[t]) = LayoutOf(TextOf(frame_id), ws[t])
    BY <2>3, <2>4, LayoutSame
  <2> QED
    BY <1>1, <2>2, <2>5, WriteWorkspacesIs
<1>11. \A t \in Screen : t > scr => \A h \in Live' : frame_id'[h] \notin IdsIn(files[t])
  BY <1>1, <1>2, <1>3, <1>5 DEF Resumed, FrameRead
<1> QED
  BY <1>1, <1>8, <1>9, <1>10, <1>11 DEF Resumed

LEMMA OthersProps ==
  ASSUME prop \in [Window -> Nat], NEW w \in Window, AddClientwin(w)
  PROVE  \A v \in Window \ {w} : prop'[v] = prop[v]
BY DEF AddClientwin

LEMMA NamedTakes ==
  ASSUME NEW w \in Window, AddClientwin(w),
         {c \in clients : TransientFor[w] \in ToSet(c.wins)} = {},
         FindFrameById(prop[w]) \cap FramesOf(root'[w]) # {}
  PROVE  \E g \in FindFrameById(prop[w]) \cap FramesOf(root'[w]) : prop' = [prop EXCEPT ![w] = frame_id[g]]
<1> DEFINE named == FindFrameById(prop[w]) \cap FramesOf(root'[w])
<1>1. \E f \in IF named # {} THEN named ELSE FramesOf(root'[w]) : prop' = [prop EXCEPT ![w] = frame_id[f]]
  BY DEF AddClientwin
<1> HIDE DEF named
<1>2. named # {}
  BY DEF named
<1>3. \E f \in named : prop' = [prop EXCEPT ![w] = frame_id[f]]
  BY <1>1, <1>2
<1> QED
  BY <1>3 DEF named

\* A window that is found again is put into the frame that its property names.
LEMMA ScanHeld ==
  ASSUME SessionInv, HeldInv, NEW w \in Window, Scan(w)
  PROVE  HeldInv'
<1> SUFFICES ASSUME Held' PROVE Resumed'
  BY DEF HeldInv
<1>1. /\ phase = "scan" /\ root[w] = scr /\ UNCHANGED <<idVars, phase, scr, files, ws, reader, promise, root, commands>>
      /\ AddClientwin(w) /\ WorkspacesInv /\ ClientsInv /\ scr \in Screen
  BY DEF Scan, SessionInv, WorkspacesInv, PhaseType
<1>2. Resumed /\ Promised
  BY <1>1, HeldBefore DEF Resumed
<1>3. prop \in [Window -> Nat]
  BY <1>1, ClientsFacts
<1>4. \A v \in Window \ {w} : prop'[v] = prop[v]
  BY <1>1, <1>3, OthersProps
<1>5. w \in Lasting => prop'[w] = prop[w]
  <2> SUFFICES ASSUME w \in Lasting PROVE prop'[w] = prop[w]
    OBVIOUS
  <2>1. TransientFor[w] = NULL
    BY DEF Lasting
  <2>2. {c \in clients : TransientFor[w] \in ToSet(c.wins)} = {}
    BY <1>1, <2>1, ClientsFacts, SessionAssumption
  <2>3. prop[w] \in IdsIn(files[scr])
    BY <1>1, <1>2 DEF Promised
  <2>4. WriteWorkspaces(scr) = files[scr]
    BY <1>1, <1>2 DEF Resumed, Done
  <2>5. \A i \in DOMAIN ws[scr] : Good(ws[scr][i])
    BY <1>1, AllGood DEF WorkspacesInv
  <2>6. IdsIn(WriteWorkspaces(scr)) = {frame_id[f] : f \in FramesOf(scr)}
    BY <1>1, <2>5, IdsWritten
  <2>7. PICK f \in FramesOf(scr) : frame_id[f] = prop[w]
    BY <2>3, <2>4, <2>6
  <2>8. FramesOf(root'[w]) \subseteq Live /\ f \in FramesOf(root'[w])
    BY <1>1, <2>7 DEF WorkspacesInv, FramesInv
  <2>9. FindFrameById(prop[w]) \cap FramesOf(root'[w]) # {}
    BY <2>7, <2>8 DEF FindFrameById
  <2>10. PICK g \in FindFrameById(prop[w]) \cap FramesOf(root'[w]) : prop' = [prop EXCEPT ![w] = frame_id[g]]
    BY <1>1, <2>2, <2>9, NamedTakes
  <2>11. frame_id[g] = prop[w]
    BY DEF FindFrameById
  <2> QED
    BY <1>3, <2>10, <2>11
<1>6. \A v \in Lasting : prop'[v] = prop[v] /\ root'[v] = root[v]
  BY <1>1, <1>4, <1>5 DEF Lasting
<1>7. Promised'
  BY <1>1, <1>2, <1>6, PromisedStays
<1>8. Live' = Live
  BY <1>1 DEF Live, idVars
<1>9. ASSUME NEW t \in Screen, Done(t)'
      PROVE  WriteWorkspaces(t)' = files'[t]
  <2>1. WriteWorkspaces(t) = files[t]
    BY <1>1, <1>2, <1>9 DEF Resumed, Done
  <2>2. ws'[t] = ws[t] /\ frame_id' = frame_id
    BY <1>1 DEF idVars
  <2>3. WriteWorkspaces(t)' = WriteWorkspaces(t)
    BY <2>2, WriteWorkspacesIs
  <2> QED
    BY <1>1, <2>1, <2>3
<1>10. \A t \in Screen : t > scr' => \A f \in Live' : frame_id'[f] \notin IdsIn(files'[t])
  BY <1>1, <1>2, <1>8 DEF Resumed, idVars
<1> QED
  BY <1>1, <1>7, <1>9, <1>10 DEF Resumed

LEMMA StutterHeld ==
  ASSUME HeldInv, UNCHANGED vars
  PROVE  HeldInv'
<1> SUFFICES ASSUME Held' PROVE Resumed'
  BY DEF HeldInv
<1>1. UNCHANGED <<idVars, phase, scr, files, ws, reader, promise, prop, root, commands>>
  BY DEF vars, sessionVars
<1>2. Resumed
  BY <1>1 DEF HeldInv, Held
<1>3. phase' = "read" => Resuming'
  BY <1>1, <1>2 DEF Resumed, Resuming, Live, idVars
<1>4. \A t \in Screen : Done(t)' => WriteWorkspaces(t) = files[t]
  BY <1>1, <1>2 DEF Resumed, Done
<1>5. phase' \in {"read", "scan"} => \A t \in Screen : t > scr' => \A f \in Live : frame_id[f] \notin IdsIn(files[t])
  BY <1>1, <1>2 DEF Resumed
<1>6. Promised
  BY <1>2 DEF Resumed
<1> QED
  BY <1>1, <1>3, <1>4, <1>5, <1>6, ScreensHeld

\* A command ends the promise.
LEMMA CommandHeld ==
  ASSUME PromiseInv, Running, UNCHANGED promise
  PROVE  HeldInv'
<1>1. commands \in Nat /\ promise.at \in Nat /\ promise.at <= commands /\ commands' = commands + 1 /\ promise' = promise
  BY DEF PromiseInv, PromiseType, Running
<1>2. commands' # promise'.at
  BY <1>1
<1> QED
  BY <1>2 DEF HeldInv, Held

LEMMA HeldNextInv ==
  ASSUME SessionInv, ScreensInv, PromiseInv, SavingInv, HeldInv, [Next]_vars
  PROVE  HeldInv'
<1>0. WorkspacesInv /\ ClientsInv
  BY DEF SessionInv
<1>1. CASE UNCHANGED vars \/ Stopped
  BY <1>1, StutterHeld DEF Stopped
<1>2. CASE Start
  BY <1>0, <1>2, StartHeld
<1>3. CASE OptWorkspace
  BY <1>0, <1>3, OptWorkspaceHeld
<1>4. CASE OptSplit
  BY <1>0, <1>4, OptSplitHeld
<1>5. CASE Skip \/ SkippedEnd
  BY <1>0, <1>5, SkipHeld
<1>6. CASE OptSplitEnd
  BY <1>0, <1>6, OptSplitEndHeld
<1>7. CASE OptWorkspaceEnd
  BY <1>0, <1>7, OptWorkspaceEndHeld
<1>8. ASSUME NEW f \in Frame, OptFrame(f) \/ EndOfText(f) PROVE HeldInv'
  BY <1>0, <1>8, OptFrameHeld, EndOfTextHeld
<1>9. CASE EndOfScan
  BY <1>0, <1>9, EndOfScanHeld
<1>10. ASSUME NEW w \in Window, Scan(w) PROVE HeldInv'
  BY <1>10, ScanHeld
<1>11. ASSUME NEW w \in Window, Unmap(w) PROVE HeldInv'
  BY <1>11, CommandHeld DEF Unmap
<1>12. ASSUME NEW w \in Window, NEW s \in Screen, Elsewhere(w, s) PROVE HeldInv'
  BY <1>12, ElsewhereHeld
<1>13. ASSUME NEW w \in Window, NEW s \in Screen, Map(w, s) PROVE HeldInv'
  BY <1>13, CommandHeld DEF Map
<1>14. ASSUME NEW c \in clients, NEW f \in Live, Attach(c, f) PROVE HeldInv'
  BY <1>14, CommandHeld DEF Attach
<1>15. ASSUME NEW s, NEW f, NEW name, CreateWorkspace(s, name, f) PROVE HeldInv'
  BY <1>15, CommandHeld DEF CreateWorkspace
<1>16. ASSUME NEW s, NEW f, NEW i, DestroyFrame(s, i, f) PROVE HeldInv'
  BY <1>16, CommandHeld DEF DestroyFrame
<1>17. ASSUME NEW s, NEW f, NEW i, NEW at, NEW before, Split(s, i, at, f, before) PROVE HeldInv'
  BY <1>17, CommandHeld DEF Split
<1>18. CASE Exit \/ Write \/ WriteFails \/ DeinitFrame
  <2>1. phase' \in {"write", "deinit"}
    BY <1>18 DEF Exit, Write, WriteFails, DeinitFrame
  <2> QED
    BY <2>1 DEF HeldInv, Held
<1>19. CASE DeinitDone
  BY <1>0, <1>19, DeinitDoneHeld
<1>20. CASE Crash
  BY <1>20, CrashHeld
<1> QED
  BY <1>1, <1>2, <1>3, <1>4, <1>5, <1>6, <1>7, <1>8, <1>9, <1>10, <1>11, <1>12, <1>13, <1>14, <1>15, <1>16,
     <1>17, <1>18, <1>19, <1>20 DEF Next

ReturnInv ==
  /\ SingleInv /\ ScreensInv /\ BareInv /\ HomesInv /\ ManagedInv
  /\ PromiseInv /\ SavingInv /\ HeldInv

LEMMA ReturnInitInv == Init => ReturnInv
<1> SUFFICES ASSUME Init PROVE ReturnInv
  OBVIOUS
<1>1. BareInv
  BY DEF Init, BareInv
<1>2. SavingInv
  BY DEF Init, SavingInv
<1>3. HeldInv
  BY NoPromiseIs DEF Init, HeldInv, Held
<1> QED
  BY <1>1, <1>2, <1>3, SingleInitInv, ScreensInitInv, HomesInitInv, ManagedInitInv, PromiseInitInv DEF ReturnInv

LEMMA ReturnNextInv == SessionInv /\ ReturnInv /\ [Next]_vars => ReturnInv'
<1> SUFFICES ASSUME SessionInv, ReturnInv, [Next]_vars PROVE ReturnInv'
  OBVIOUS
<1>1. WorkspacesInv
  BY DEF SessionInv
<1>2. SingleInv' /\ ScreensInv'
  BY <1>1, SingleNextInv, ScreensNextInv DEF ReturnInv
<1>3. BareInv' /\ HomesInv' /\ ManagedInv' /\ PromiseInv'
  BY BareNextInv, HomesNextInv, ManagedNextInv, PromiseNextInv DEF ReturnInv
<1>4. SavingInv'
  BY SavingNextInv DEF ReturnInv
<1>5. HeldInv'
  BY HeldNextInv DEF ReturnInv
<1> QED
  BY <1>2, <1>3, <1>4, <1>5 DEF ReturnInv

LEMMA HeldComesBack == SessionInv /\ ReturnInv => ComesBack
<1> SUFFICES ASSUME SessionInv, HeldInv, Held, phase \in {"scan", "run"}
             PROVE  /\ \A s \in Screen : s <= scr \/ phase = "run" => WriteWorkspaces(s) = promise.files[s]
                    /\ \A c \in clients : c.owner # NULL =>
                         (TransientFor[c.owner] = NULL /\ promise.prop[c.owner] # 0
                            => frame_id[c.frame] = promise.prop[c.owner])
  BY DEF ReturnInv, ComesBack, Held, Readable
<1>1. Resumed /\ Promised /\ ClientsInv /\ PhaseType
  BY DEF HeldInv, Resumed, SessionInv, WorkspacesInv
<1>2. ASSUME NEW s \in Screen, s <= scr \/ phase = "run"
      PROVE  WriteWorkspaces(s) = promise.files[s]
  <2>1. Done(s)
    <3>1. phase = "scan" => scr \in Int /\ s \in Int
      BY <1>1 DEF PhaseType, Screen
    <3> QED
      BY <1>2, <3>1 DEF Done
  <2> QED
    BY <1>1, <2>1 DEF Resumed, Promised
<1>3. ASSUME NEW c \in clients, c.owner # NULL, TransientFor[c.owner] = NULL, promise.prop[c.owner] # 0
      PROVE  frame_id[c.frame] = promise.prop[c.owner]
  <2>1. c.owner \in Window /\ prop[c.owner] = frame_id[c.frame]
    BY <1>1, <1>3, OwnerThere
  <2>2. c.owner \in Lasting
    BY <1>3, <2>1 DEF Lasting
  <2>3. prop[c.owner] = promise.prop[c.owner]
    BY <1>1, <2>2 DEF Promised
  <2> QED
    BY <2>1, <2>3
<1> QED
  BY <1>2, <1>3

\* Whatever was split, destroyed and moved before an exit in order, on whatever screens, and
\* also if the program is killed while it reads, or windows come and go while it does not
\* run: the next start makes the workspaces that were saved, with the ids the frames had
\* (confws.c), and each window that is not a transient is in the frame that it was in,
\* found by its property (clientwin.c).
THEOREM WorkspacesComeBack == Spec => []ComesBack
<1>1. Spec => []SessionInv
  BY SessionInvIs
<1>2. SessionInv /\ SessionInv' /\ ReturnInv /\ [Next]_vars => ReturnInv'
  BY ReturnNextInv
<1>3. Init => ReturnInv
  BY ReturnInitInv
<1>4. SessionInv /\ ReturnInv => ComesBack
  BY HeldComesBack
<1> QED
  BY <1>1, <1>2, <1>3, <1>4, PTL DEF Spec

=============================================================================
