--------------------------- MODULE SessionProofs ---------------------------
(***************************************************************************)
(* Theorems about the identifiers of frames (FrameIds), and about what     *)
(* outlives the program (Session), for any number of screens, frames,      *)
(* windows and starts, any files that a user may have written, and any     *)
(* limit of the identifiers.                                               *)
(***************************************************************************)
EXTENDS Session, FiniteSetTheorems, SequenceTheorems, WellFoundedInduction, TLAPS

-----------------------------------------------------------------------------
(* Induction up to a bound. *)

LEMMA LeastOne ==
  ASSUME NEW T, T \subseteq Nat, T # {}
  PROVE  \E n \in T : \A m \in T : n <= m
<1>1. PICK n \in T : \A m \in T : ~(<<m, n>> \in OpToRel(<, Nat))
  BY NatLessThanWellFounded, WFMin
<1>2. \A m \in T : ~(m < n)
  BY <1>1 DEF OpToRel
<1> QED
  BY <1>2

\* Induction on a set of numbers.
LEMMA Upwards ==
  ASSUME NEW T, NEW M \in Nat, 0 \in T, \A k \in 0..M : k \in T /\ k < M => k + 1 \in T
  PROVE  \A k \in 0..M : k \in T
<1> SUFFICES ASSUME (0..M) \ T # {} PROVE FALSE
  OBVIOUS
<1>1. PICK n \in (0..M) \ T : \A m \in (0..M) \ T : n <= m
  <2>1. (0..M) \ T \subseteq Nat
    OBVIOUS
  <2> QED
    BY <2>1, LeastOne
<1>2. n \in Nat /\ n # 0 /\ n <= M
  OBVIOUS
<1>3. n - 1 \in 0..M /\ n - 1 \in T /\ n - 1 < M
  BY <1>1, <1>2
<1>4. (n - 1) + 1 \in T
  BY <1>3
<1> QED
  BY <1>2, <1>4

-----------------------------------------------------------------------------
(* Identifiers of frames. *)

\* The ids of the frames that are there differ.
Distinct(ids) == \A f, g \in Frame : ids[f] # 0 /\ ids[f] = ids[g] => f = g

\* IdsDistinct is not inductive by itself: a new id is distinct because the counter is
\* ahead of all that are in use.
IdsInv == IdsType /\ CounterAhead /\ IdsDistinct

\* An order of the frames that reorder_frame_ids counts.
OneByOne(ids, place) ==
  /\ \A f \in Counted(ids) : place[f] \in Int
  /\ \A f, g \in Counted(ids) : place[f] = place[g] => f = g

LEMMA WalkIsOneByOne ==
  ASSUME NEW place \in Walk, NEW ids, \A f \in Counted(ids) : f \in Live
  PROVE  OneByOne(ids, place)
<1>1. Cardinality(Live) \in Int
  <2>1. Live \subseteq Frame /\ IsFiniteSet(Frame)
    BY FrameIdsAssumption DEF Live
  <2> QED
    BY <2>1, FS_Subset, FS_CardinalityType
<1>2. place \in [Live -> 1 .. Cardinality(Live)] /\ \A f, g \in Live : place[f] = place[g] => f = g
  BY DEF Walk
<1> QED
  BY <1>1, <1>2 DEF OneByOne

LEMMA CountedIsLive ==
  /\ \A f \in Counted(frame_id) : f \in Live
  /\ \A g \in Frame : \A f \in Counted([frame_id EXCEPT ![g] = 0]) :
       frame_id \in [Frame -> 0 .. INT_MAX] => f \in Live
BY FrameIdsAssumption DEF Counted, Live

LEMMA CountedFinite ==
  ASSUME NEW ids
  PROVE  /\ IsFiniteSet(Counted(ids))
         /\ Cardinality(Counted(ids)) \in 0 .. Cardinality(Frame)
<1>1. Counted(ids) \subseteq Frame
  BY DEF Counted
<1>2. IsFiniteSet(Frame)
  BY FrameIdsAssumption
<1>3. IsFiniteSet(Counted(ids)) /\ Cardinality(Counted(ids)) <= Cardinality(Frame)
  BY <1>1, <1>2, FS_Subset
<1> QED
  BY <1>2, <1>3, FS_CardinalityType

\* The number of a frame in the walk.
LEMMA NumberInWalk ==
  ASSUME NEW ids, NEW place, OneByOne(ids, place), NEW f \in Counted(ids)
  PROVE  /\ IsFiniteSet(UpTo(ids, place, f))
         /\ Cardinality(UpTo(ids, place, f)) \in 1 .. Cardinality(Counted(ids))
<1> DEFINE U == UpTo(ids, place, f)
<1>1. U \subseteq Counted(ids) /\ IsFiniteSet(Counted(ids))
  BY CountedFinite DEF UpTo
<1>2. IsFiniteSet(U) /\ Cardinality(U) <= Cardinality(Counted(ids))
  BY <1>1, FS_Subset
<1>3. Cardinality(U) \in Nat /\ Cardinality(Counted(ids)) \in Nat
  BY <1>1, <1>2, FS_CardinalityType
<1>4. f \in U
  <2>1. place[f] \in Int
    BY DEF OneByOne
  <2> QED
    BY <2>1 DEF UpTo
<1>5. Cardinality(U) # 0
  BY <1>2, <1>4, FS_EmptySet
<1> QED
  BY <1>2, <1>3, <1>5

\* A frame that comes later has a greater number.
LEMMA LaterIsGreater ==
  ASSUME NEW ids, NEW place, OneByOne(ids, place), NEW f \in Counted(ids), NEW g \in Counted(ids),
         place[f] < place[g]
  PROVE  Cardinality(UpTo(ids, place, f)) < Cardinality(UpTo(ids, place, g))
<1> DEFINE U == UpTo(ids, place, f)
           V == UpTo(ids, place, g)
<1>0. \A h \in Counted(ids) : place[h] \in Int
  BY DEF OneByOne
<1>1. U \subseteq V /\ g \in V /\ g \notin U
  BY <1>0 DEF UpTo
<1>2. IsFiniteSet(U) /\ IsFiniteSet(V) /\ Cardinality(U) \in Nat /\ Cardinality(V) \in Nat
  BY NumberInWalk, FS_CardinalityType
<1>3. Cardinality(U) <= Cardinality(V) /\ (Cardinality(U) = Cardinality(V) => U = V)
  BY <1>1, <1>2, FS_Subset
<1> QED
  BY <1>1, <1>2, <1>3

LEMMA NumbersDiffer ==
  ASSUME NEW ids, NEW place, OneByOne(ids, place), NEW f \in Counted(ids), NEW g \in Counted(ids), f # g
  PROVE  Cardinality(UpTo(ids, place, f)) # Cardinality(UpTo(ids, place, g))
<1>2. place[f] # place[g] /\ place[f] \in Int /\ place[g] \in Int
  BY DEF OneByOne
<1>3. Cardinality(UpTo(ids, place, f)) \in Int /\ Cardinality(UpTo(ids, place, g)) \in Int
  BY NumberInWalk
<1>4. CASE place[f] < place[g]
  BY <1>3, <1>4, LaterIsGreater
<1>5. CASE place[g] < place[f]
  BY <1>3, <1>5, LaterIsGreater
<1> QED
  BY <1>2, <1>4, <1>5

LEMMA RecountedType ==
  ASSUME NEW ids
  PROVE  Recounted(ids) \in FRAME_ID_START_CLIENT .. INT_MAX
<1>1. Cardinality(Counted(ids)) \in 0 .. Cardinality(Frame) /\ Cardinality(Frame) \in Nat
  BY CountedFinite, FrameIdsAssumption, FS_CardinalityType
<1> QED
  BY <1>1, FrameIdsAssumption DEF Recounted

\* reorder_frame_ids gives every frame an id again that is its own, none above the new
\* value of the counter, and leaves those below FRAME_ID_START_CLIENT.
LEMMA RenumberedDistinct ==
  ASSUME NEW ids \in [Frame -> 0 .. INT_MAX], NEW place, OneByOne(ids, place), Distinct(ids)
  PROVE  LET new == Renumbered(ids, place) IN
         /\ new \in [Frame -> 0 .. INT_MAX]
         /\ \A f \in Frame : new[f] = 0 <=> ids[f] = 0
         /\ \A f \in Frame : new[f] <= Recounted(ids)
         /\ Distinct(new)
<1> DEFINE new == Renumbered(ids, place)
<1>0. FRAME_ID_START_CLIENT \in Nat \ {0} /\ INT_MAX \in Nat
  BY FrameIdsAssumption
<1>1. Recounted(ids) \in FRAME_ID_START_CLIENT .. INT_MAX
  BY RecountedType
<1>2. \A f \in Counted(ids) :
        new[f] \in FRAME_ID_START_CLIENT + 1 .. Recounted(ids)
  <2> SUFFICES ASSUME NEW f \in Counted(ids)
               PROVE  new[f] \in FRAME_ID_START_CLIENT + 1 .. Recounted(ids)
    OBVIOUS
  <2>1. new[f] = FRAME_ID_START_CLIENT + Cardinality(UpTo(ids, place, f))
    BY DEF Renumbered, Counted
  <2>2. Cardinality(UpTo(ids, place, f)) \in 1 .. Cardinality(Counted(ids))
    BY NumberInWalk
  <2>3. Cardinality(Counted(ids)) \in Int
    BY CountedFinite
  <2> QED
    BY <1>0, <2>1, <2>2, <2>3 DEF Recounted
<1>3. \A f \in Frame \ Counted(ids) : new[f] = ids[f] /\ ids[f] \in 0 .. FRAME_ID_START_CLIENT - 1
  BY <1>0 DEF Renumbered, Counted
<1>4. \A f \in Counted(ids) : f \in Frame /\ ids[f] # 0
  BY <1>0 DEF Counted
<1>5. new \in [Frame -> 0 .. INT_MAX]
  <2>1. \A f \in Frame : new[f] \in 0 .. INT_MAX
    BY <1>0, <1>1, <1>2, <1>3
  <2>2. new = [f \in Frame |-> new[f]]
    BY DEF Renumbered
  <2> QED
    BY <2>1, <2>2
<1>6. \A f \in Frame : new[f] = 0 <=> ids[f] = 0
  BY <1>0, <1>1, <1>2, <1>3, <1>4
<1>7. \A f \in Frame : new[f] <= Recounted(ids)
  BY <1>0, <1>1, <1>2, <1>3
<1>8. Distinct(new)
  <2> SUFFICES ASSUME NEW f \in Frame, NEW g \in Frame, new[f] # 0, new[f] = new[g]
               PROVE  f = g
    BY DEF Distinct
  <2>1. CASE f \in Counted(ids) /\ g \in Counted(ids)
    <3> DEFINE a == Cardinality(UpTo(ids, place, f))
               b == Cardinality(UpTo(ids, place, g))
    <3>1. new[f] = FRAME_ID_START_CLIENT + a /\ new[g] = FRAME_ID_START_CLIENT + b
      BY <2>1 DEF Renumbered
    <3>2. a \in Int /\ b \in Int
      BY <2>1, NumberInWalk
    <3> HIDE DEF a, b, new
    <3>3. FRAME_ID_START_CLIENT + a = FRAME_ID_START_CLIENT + b
      BY <3>1
    <3>4. a = b
      BY <1>0, <3>2, <3>3
    <3> QED
      BY <2>1, <3>4, NumbersDiffer DEF a, b
  <2>2. CASE f \notin Counted(ids) /\ g \notin Counted(ids)
    BY <1>3, <2>2 DEF Distinct
  <2>3. CASE f \in Counted(ids) /\ g \notin Counted(ids)
    BY <1>0, <1>1, <1>2, <1>3, <2>3
  <2>4. CASE f \notin Counted(ids) /\ g \in Counted(ids)
    BY <1>0, <1>1, <1>2, <1>3, <2>4
  <2> QED
    BY <2>1, <2>2, <2>3, <2>4
<1> QED
  BY <1>5, <1>6, <1>7, <1>8

LEMMA DistinctIsIdsDistinct == (IdsDistinct <=> Distinct(frame_id))
BY DEF IdsDistinct, Distinct, Live

-----------------------------------------------------------------------------
(* The operations, and the theorem. *)

\* new_frame_id, from any value of the counter that is not behind it.
LEMMA NewFrameIdInv ==
  ASSUME IdsInv, NEW cntr \in FRAME_ID_START_CLIENT .. INT_MAX, frame_id_cntr <= cntr,
         NEW f \in Frame, NEW place \in Walk, NewFrameIdFrom(cntr, f, place)
  PROVE  IdsInv'
<1> DEFINE due  == ReorderIsDue(cntr)
           base == IF due THEN Renumbered(frame_id, place) ELSE frame_id
           last == IF due THEN Recounted(frame_id) ELSE cntr
<1>0. FRAME_ID_START_CLIENT \in Nat \ {0} /\ INT_MAX \in Nat
  BY FrameIdsAssumption
<1>1. frame_id \in [Frame -> 0 .. INT_MAX] /\ frame_id_cntr \in Int /\ Distinct(frame_id)
  BY <1>0, DistinctIsIdsDistinct DEF IdsInv, IdsType
<1>a. OneByOne(frame_id, place)
  BY WalkIsOneByOne, CountedIsLive
<1>2. base \in [Frame -> 0 .. INT_MAX] /\ Distinct(base)
  BY <1>1, <1>a, RenumberedDistinct
<1>3. \A g \in Frame : base[g] <= last
  <2>1. CASE due
    BY <1>1, <1>a, <2>1, RenumberedDistinct
  <2>2. CASE ~due
    <3>1. \A g \in Frame : frame_id[g] <= cntr
      BY <1>0, <1>1 DEF IdsInv, CounterAhead, Live
    <3> QED
      BY <2>2, <3>1
  <2> QED
    BY <2>1, <2>2
<1>4. last \in FRAME_ID_START_CLIENT .. INT_MAX
  BY RecountedType
<1> HIDE DEF due, base, last
<1>5. last < INT_MAX /\ frame_id_cntr' = last + 1 /\ frame_id' = [base EXCEPT ![f] = last + 1]
  BY DEF NewFrameIdFrom, due, base, last
<1>6. IdsType'
  BY <1>0, <1>2, <1>4, <1>5 DEF IdsType
<1>7. \A g \in Frame : frame_id'[g] = IF g = f THEN last + 1 ELSE base[g]
  BY <1>2, <1>5
<1>8. CounterAhead'
  BY <1>0, <1>2, <1>3, <1>4, <1>5, <1>7 DEF CounterAhead, Live
<1>9. IdsDistinct'
  <2>1. \A g \in Frame : base[g] # last + 1
    BY <1>0, <1>2, <1>3, <1>4
  <2> QED
    BY <1>2, <1>7, <2>1 DEF IdsDistinct, Distinct, Live
<1> QED
  BY <1>6, <1>8, <1>9 DEF IdsInv

LEMMA CounterAfterType ==
  ASSUME IdsInv, NEW id \in 0 .. INT_MAX
  PROVE  /\ CounterAfter(id) \in FRAME_ID_START_CLIENT .. INT_MAX
         /\ frame_id_cntr <= CounterAfter(id) /\ id <= CounterAfter(id)
BY FrameIdsAssumption DEF IdsInv, IdsType, CounterAfter

LEMMA UseFrameIdInv ==
  ASSUME IdsInv, NEW f \in Frame, NEW id \in 1 .. INT_MAX, NEW place \in Walk,
         UseFrameId(f, id, place)
  PROVE  IdsInv'
<1>0. FRAME_ID_START_CLIENT \in Nat \ {0} /\ INT_MAX \in Nat
  BY FrameIdsAssumption
<1>1. /\ CounterAfter(id) \in FRAME_ID_START_CLIENT .. INT_MAX
      /\ frame_id_cntr <= CounterAfter(id) /\ id <= CounterAfter(id)
  BY <1>0, CounterAfterType
<1>2. CASE FindFrameById(id) # {}
  BY <1>1, <1>2, NewFrameIdInv DEF UseFrameId
<1>3. CASE FindFrameById(id) = {}
  <2>1. frame_id_cntr' = CounterAfter(id) /\ frame_id' = [frame_id EXCEPT ![f] = id]
    BY <1>3 DEF UseFrameId
  <2>2. frame_id \in [Frame -> 0 .. INT_MAX] /\ frame_id_cntr \in Int
    BY <1>0 DEF IdsInv, IdsType
  <2>3. \A g \in Frame : frame_id'[g] = IF g = f THEN id ELSE frame_id[g]
    BY <2>1, <2>2
  <2>4. \A g \in Frame : frame_id[g] # id
    BY <1>0, <1>3 DEF FindFrameById, Live
  <2>5. IdsType'
    BY <1>0, <1>1, <2>1, <2>2 DEF IdsType
  <2>6. CounterAhead'
    BY <1>0, <1>1, <2>1, <2>2, <2>3 DEF CounterAhead, Live, IdsInv
  <2>7. IdsDistinct'
    BY <2>3, <2>4 DEF IdsDistinct, Live, IdsInv
  <2> QED
    BY <2>5, <2>6, <2>7 DEF IdsInv
<1> QED
  BY <1>2, <1>3

LEMMA FreeFrameIdInv ==
  ASSUME IdsInv, NEW f \in Frame, NEW place \in Walk, FreeFrameId(f, place)
  PROVE  IdsInv'
<1> DEFINE left == [frame_id EXCEPT ![f] = 0]
<1>0. FRAME_ID_START_CLIENT \in Nat \ {0} /\ INT_MAX \in Nat
  BY FrameIdsAssumption
<1>1. frame_id \in [Frame -> 0 .. INT_MAX] /\ frame_id_cntr \in Int /\ Distinct(frame_id)
  BY <1>0, DistinctIsIdsDistinct DEF IdsInv, IdsType
<1>2. left \in [Frame -> 0 .. INT_MAX]
  BY <1>0, <1>1
<1>3. \A g \in Frame : left[g] = IF g = f THEN 0 ELSE frame_id[g]
  BY <1>1
<1>4. Distinct(left)
  BY <1>1, <1>3 DEF Distinct
<1>a. OneByOne(left, place)
  BY <1>1, WalkIsOneByOne, CountedIsLive
<1>5. CASE frame_id_cntr = INT_MAX
  <2>1. frame_id' = Renumbered(left, place) /\ frame_id_cntr' = Recounted(left)
    BY <1>5 DEF FreeFrameId
  <2>2. /\ frame_id' \in [Frame -> 0 .. INT_MAX]
        /\ \A g \in Frame : frame_id'[g] <= frame_id_cntr'
        /\ Distinct(frame_id')
    BY <1>2, <1>4, <1>a, <2>1, RenumberedDistinct
  <2>3. frame_id_cntr' \in FRAME_ID_START_CLIENT .. INT_MAX
    BY <2>1, RecountedType
  <2> QED
    BY <2>2, <2>3 DEF IdsInv, IdsType, CounterAhead, IdsDistinct, Distinct, Live
<1>6. CASE frame_id_cntr # INT_MAX
  <2>1. frame_id' = left /\ frame_id_cntr' = frame_id_cntr
    BY <1>6 DEF FreeFrameId
  <2> QED
    BY <1>2, <1>3, <1>4, <2>1 DEF IdsInv, IdsType, CounterAhead, IdsDistinct, Distinct, Live
<1> QED
  BY <1>5, <1>6

\* At the start no frame has an id, and the counter is where it begins.
LEMMA IdsInitInv == IdsInit => IdsInv
BY FrameIdsAssumption, FS_CardinalityType DEF IdsInit, IdsInv, IdsType, CounterAhead, IdsDistinct, Live

LEMMA RestartInv == Restart => IdsInv'
BY FrameIdsAssumption, FS_CardinalityType DEF Restart, IdsInv, IdsType, CounterAhead, IdsDistinct, Live

LEMMA IdsNextInv == IdsInv /\ [IdsNext]_idVars => IdsInv'
<1> SUFFICES ASSUME IdsInv, [IdsNext]_idVars PROVE IdsInv'
  OBVIOUS
<1>1. ASSUME NEW place \in Walk, NEW f \in Frame, NewFrameId(f, place) PROVE IdsInv'
  <2>1. frame_id_cntr \in FRAME_ID_START_CLIENT .. INT_MAX /\ frame_id_cntr <= frame_id_cntr
    BY FrameIdsAssumption DEF IdsInv, IdsType
  <2> QED
    BY <1>1, <2>1, NewFrameIdInv DEF NewFrameId
<1>2. ASSUME NEW place \in Walk, NEW f \in Frame, NEW id \in 1 .. INT_MAX, UseFrameId(f, id, place)
      PROVE  IdsInv'
  BY <1>2, UseFrameIdInv
<1>3. ASSUME NEW place \in Walk, NEW f \in Frame, FreeFrameId(f, place) PROVE IdsInv'
  BY <1>3, FreeFrameIdInv
<1>4. ASSUME Restart PROVE IdsInv'
  BY <1>4, RestartInv
<1>5. CASE UNCHANGED idVars
  BY <1>5 DEF idVars, IdsInv, IdsType, CounterAhead, IdsDistinct, Live
<1> QED
  BY <1>1, <1>2, <1>3, <1>4, <1>5 DEF IdsNext

\* Whatever ids come from files, in whatever order frames are made and destroyed, and
\* whenever the others are numbered anew (frameid.c), no two frames have the same id.
THEOREM IdsAreDistinct == IdsSpec => []IdsDistinct
<1>1. IdsInv => IdsDistinct
  BY DEF IdsInv
<1> QED
  BY <1>1, IdsInitInv, IdsNextInv, PTL DEF IdsSpec

\* A new id is above all that are in use: new_frame_id needs no search.
THEOREM CounterIsAhead == IdsSpec => []CounterAhead
<1>1. IdsInv => CounterAhead
  BY DEF IdsInv
<1> QED
  BY <1>1, IdsInitInv, IdsNextInv, PTL DEF IdsSpec

-----------------------------------------------------------------------------
(* Trees.  Each is built from frames and NULL in at most MaxDepth steps: what is true of   *)
(* these, and of a split when it is true of its sides, is true of all.                     *)

\* The first k + 1 sets of trees.
Grown(k, f) ==
  [n \in 0..k |-> IF n = 0 THEN Atoms ELSE f[n - 1] \cup [tl : f[n - 1], br : f[n - 1]]]

LEMMA TreesExist ==
  ASSUME NEW M \in Nat
  PROVE  \E f : f = Grown(M, f)
<1> DEFINE T == {k \in Nat : \E f : f = Grown(k, f)}
<1>1. 0 \in T
  <2>1. [n \in 0..0 |-> Atoms] = Grown(0, [n \in 0..0 |-> Atoms])
    BY DEF Grown
  <2> QED
    BY <2>1
<1>2. ASSUME NEW k \in 0..M, k \in T PROVE k + 1 \in T
  <2>1. PICK f : f = Grown(k, f)
    BY <1>2
  <2> DEFINE g == [n \in 0..k + 1 |-> IF n = k + 1 THEN f[k] \cup [tl : f[k], br : f[k]] ELSE f[n]]
  <2>2. \A n \in 0..k : f[n] = IF n = 0 THEN Atoms ELSE f[n - 1] \cup [tl : f[n - 1], br : f[n - 1]]
    BY <2>1 DEF Grown
  <2>3. g[k] = f[k] /\ \A n \in 0..k : n # 0 => g[n - 1] = f[n - 1]
    OBVIOUS
  <2>4. ASSUME NEW n \in 0..k + 1
        PROVE  g[n] = IF n = 0 THEN Atoms ELSE g[n - 1] \cup [tl : g[n - 1], br : g[n - 1]]
    <3>1. CASE n = k + 1
      <4>1. g[n] = f[k] \cup [tl : f[k], br : f[k]] /\ n # 0 /\ n - 1 = k
        BY <3>1
      <4> HIDE DEF g
      <4> QED
        BY <2>3, <4>1
    <3>2. CASE n # k + 1
      <4>1. n \in 0..k /\ g[n] = f[n]
        BY <3>2
      <4> HIDE DEF g
      <4> QED
        BY <2>2, <2>3, <4>1
    <3> QED
      BY <3>1, <3>2
  <2>5. g = Grown(k + 1, g)
    <3>1. g = [n \in 0..k + 1 |-> g[n]]
      OBVIOUS
    <3> HIDE DEF g
    <3> QED
      BY <2>4, <3>1 DEF Grown
  <2> QED
    BY <2>5
<1>3. M \in T
  <2> HIDE DEF T
  <2> QED
    BY <1>1, <1>2, Upwards
<1> QED
  BY <1>3

LEMMA TreesOfDef ==
  \A n \in 0 .. MaxDepth :
    TreesOf[n] = IF n = 0 THEN Atoms
                 ELSE TreesOf[n - 1] \cup [tl : TreesOf[n - 1], br : TreesOf[n - 1]]
<1>1. MaxDepth \in Nat
  BY SessionAssumption
<1>2. TreesOf = CHOOSE f : f = Grown(MaxDepth, f)
  BY Zenon DEF TreesOf, Grown
<1>3. TreesOf = Grown(MaxDepth, TreesOf)
  BY <1>1, <1>2, TreesExist, Zenon
<1> HIDE DEF TreesOf
<1> QED
  BY <1>3 DEF Grown

LEMMA TreesOfStep ==
  /\ TreesOf[0] = Atoms
  /\ \A n \in 0 .. MaxDepth :
       n < MaxDepth => TreesOf[n + 1] = TreesOf[n] \cup [tl : TreesOf[n], br : TreesOf[n]]
<1>1. 0 \in 0 .. MaxDepth
  BY SessionAssumption
<1>2. TreesOf[0] = IF 0 = 0 THEN Atoms
                   ELSE TreesOf[0 - 1] \cup [tl : TreesOf[0 - 1], br : TreesOf[0 - 1]]
  BY <1>1, TreesOfDef
<1>3. ASSUME NEW n \in 0 .. MaxDepth, n < MaxDepth
      PROVE  TreesOf[n + 1] = TreesOf[n] \cup [tl : TreesOf[n], br : TreesOf[n]]
  <2>1. n + 1 \in 0 .. MaxDepth /\ n + 1 # 0 /\ (n + 1) - 1 = n
    BY <1>3, SessionAssumption
  <2> QED
    BY <2>1, TreesOfDef
<1> QED
  BY <1>2, <1>3

LEMMA TreesGrow ==
  ASSUME NEW n \in 0 .. MaxDepth, NEW m \in 0 .. n
  PROVE  TreesOf[m] \subseteq TreesOf[n] /\ TreesOf[n] \subseteq Trees
<1>0. MaxDepth \in Nat
  BY SessionAssumption
<1> DEFINE T == {k \in Nat : \A i \in 0 .. k : k <= MaxDepth => TreesOf[i] \subseteq TreesOf[k]}
<1>1. 0 \in T
  OBVIOUS
<1>2. ASSUME NEW k \in 0..MaxDepth, k \in T, k < MaxDepth PROVE k + 1 \in T
  <2>1. TreesOf[k] \subseteq TreesOf[k + 1]
    BY <1>2, TreesOfStep
  <2>2. ASSUME NEW i \in 0 .. k + 1 PROVE TreesOf[i] \subseteq TreesOf[k + 1]
    <3>1. CASE i = k + 1
      BY <3>1
    <3>2. CASE i # k + 1
      <4>1. i \in 0 .. k /\ k <= MaxDepth
        BY <1>0, <1>2, <3>2
      <4>2. TreesOf[i] \subseteq TreesOf[k]
        BY <1>2, <4>1
      <4> QED
        BY <2>1, <4>2
    <3> QED
      BY <3>1, <3>2
  <2> QED
    BY <2>2
<1>3. \A k \in 0 .. MaxDepth : k \in T
  <2> HIDE DEF T
  <2> QED
    BY <1>0, <1>1, <1>2, Upwards
<1> QED
  BY <1>0, <1>3 DEF Trees

\* A split is built from trees that were there a step before.
LEMMA SidesOfTree ==
  ASSUME NEW n \in 0 .. MaxDepth, NEW t \in TreesOf[n], IsSplit(t)
  PROVE  /\ n > 0 /\ t.tl \in TreesOf[n - 1] /\ t.br \in TreesOf[n - 1]
         /\ t = [tl |-> t.tl, br |-> t.br]
<1>0. MaxDepth \in Nat
  BY SessionAssumption
<1> DEFINE Apart(k, u) == /\ k > 0 /\ u.tl \in TreesOf[k - 1] /\ u.br \in TreesOf[k - 1]
                          /\ u = [tl |-> u.tl, br |-> u.br]
           T == {k \in Nat : k <= MaxDepth => \A u \in TreesOf[k] : IsSplit(u) => Apart(k, u)}
<1>1. 0 \in T
  <2>1. TreesOf[0] = Atoms
    BY TreesOfStep
  <2>2. \A u \in TreesOf[0] : ~IsSplit(u)
    BY <2>1 DEF IsSplit
  <2> QED
    BY <2>2
<1>2. ASSUME NEW k \in 0..MaxDepth, k \in T, k < MaxDepth PROVE k + 1 \in T
  <2>1. k + 1 \in 0 .. MaxDepth /\ k + 1 # 0 /\ (k + 1) - 1 = k /\ k + 1 > 0
    BY <1>0, <1>2
  <2>2. TreesOf[k + 1] = TreesOf[k] \cup [tl : TreesOf[k], br : TreesOf[k]]
    BY <2>1, TreesOfDef
  <2>3. ASSUME NEW u \in TreesOf[k + 1], IsSplit(u) PROVE Apart(k + 1, u)
    <3>1. CASE u \in [tl : TreesOf[k], br : TreesOf[k]]
      <4>1. u.tl \in TreesOf[k] /\ u.br \in TreesOf[k] /\ u = [tl |-> u.tl, br |-> u.br]
        BY <3>1
      <4> QED
        BY <2>1, <4>1
    <3>2. CASE u \in TreesOf[k]
      <4>1. Apart(k, u)
        BY <1>0, <1>2, <2>3, <3>2
      <4>2. k \in 0 .. MaxDepth /\ k # 0
        BY <4>1
      <4>3. TreesOf[k - 1] \subseteq TreesOf[k]
        BY <4>2, TreesOfDef
      <4> QED
        BY <2>1, <4>1, <4>3
    <3> QED
      BY <2>2, <2>3, <3>1, <3>2
  <2> QED
    BY <2>3
<1>3. \A k \in 0 .. MaxDepth : k \in T
  <2> HIDE DEF T
  <2> QED
    BY <1>0, <1>1, <1>2, Upwards
<1> QED
  BY <1>3

LEMMA SplitOfTrees ==
  ASSUME NEW n \in 0 .. MaxDepth, n > 0, NEW l \in TreesOf[n - 1], NEW r \in TreesOf[n - 1]
  PROVE  [tl |-> l, br |-> r] \in TreesOf[n] /\ IsSplit([tl |-> l, br |-> r])
<1>0. MaxDepth \in Nat /\ n # 0 /\ n - 1 \in 0 .. MaxDepth
  BY SessionAssumption
<1>1. TreesOf[n] = TreesOf[n - 1] \cup [tl : TreesOf[n - 1], br : TreesOf[n - 1]]
  BY <1>0, TreesOfDef
<1>2. l \in Trees /\ r \in Trees
  BY <1>0, TreesGrow
<1> QED
  BY <1>1, <1>2, AtomsAssumption DEF IsSplit

LEMMA AtomsAreTrees ==
  /\ \A n \in 0 .. MaxDepth : Atoms \subseteq TreesOf[n]
  /\ Atoms \subseteq Trees /\ \A t \in Atoms : ~IsSplit(t)
<1>0. MaxDepth \in Nat
  BY SessionAssumption
<1> DEFINE T == {k \in Nat : k <= MaxDepth => Atoms \subseteq TreesOf[k]}
<1>1. 0 \in T
  BY TreesOfStep
<1>2. ASSUME NEW k \in 0..MaxDepth, k \in T, k < MaxDepth PROVE k + 1 \in T
  <2>1. k + 1 \in 0 .. MaxDepth /\ k + 1 # 0 /\ (k + 1) - 1 = k
    BY <1>0, <1>2
  <2>2. TreesOf[k + 1] = TreesOf[k] \cup [tl : TreesOf[k], br : TreesOf[k]]
    BY <2>1, TreesOfDef
  <2> QED
    BY <1>0, <1>2, <2>2
<1>3. \A k \in 0 .. MaxDepth : k \in T
  <2> HIDE DEF T
  <2> QED
    BY <1>0, <1>1, <1>2, Upwards
<1> QED
  BY <1>0, <1>3 DEF Trees, IsSplit

\* The sides of a tree are trees.
LEMMA SidesAreTrees ==
  ASSUME NEW t \in Trees, IsSplit(t)
  PROVE  t.tl \in Trees /\ t.br \in Trees /\ t = [tl |-> t.tl, br |-> t.br]
<1>0. MaxDepth \in 0 .. MaxDepth /\ t \in TreesOf[MaxDepth]
  BY SessionAssumption DEF Trees
<1>1. MaxDepth > 0 /\ t.tl \in TreesOf[MaxDepth - 1] /\ t.br \in TreesOf[MaxDepth - 1]
      /\ t = [tl |-> t.tl, br |-> t.br]
  BY <1>0, SidesOfTree
<1>2. MaxDepth - 1 \in 0 .. MaxDepth
  BY <1>0, <1>1
<1> QED
  BY <1>1, <1>2, TreesGrow

LEMMA TreeInduction ==
  ASSUME NEW P, \A t \in Trees : ~IsSplit(t) => t \in P,
         \A t \in Trees : IsSplit(t) /\ t.tl \in P /\ t.br \in P => t \in P
  PROVE  \A t \in Trees : t \in P
<1>0. MaxDepth \in Nat
  BY SessionAssumption
<1> DEFINE T == {k \in Nat : k <= MaxDepth => TreesOf[k] \subseteq P}
<1>1. 0 \in T
  <2>1. TreesOf[0] = Atoms
    BY TreesOfStep
  <2> QED
    BY <2>1, AtomsAreTrees
<1>2. ASSUME NEW k \in 0..MaxDepth, k \in T, k < MaxDepth PROVE k + 1 \in T
  <2>1. k + 1 \in 0 .. MaxDepth /\ (k + 1) - 1 = k
    BY <1>0, <1>2
  <2>2. ASSUME NEW t \in TreesOf[k + 1] PROVE t \in P
    <3>1. t \in Trees
      BY <2>1, TreesGrow
    <3>2. CASE IsSplit(t)
      <4>1. t.tl \in TreesOf[k] /\ t.br \in TreesOf[k]
        BY <2>1, <3>2, SidesOfTree
      <4>2. t.tl \in P /\ t.br \in P
        BY <1>0, <1>2, <4>1
      <4> QED
        BY <3>1, <3>2, <4>2
    <3> QED
      BY <3>1, <3>2
  <2> QED
    BY <2>2
<1>3. MaxDepth \in T
  <2> HIDE DEF T
  <2> QED
    BY <1>0, <1>1, <1>2, Upwards
<1> QED
  BY <1>0, <1>3 DEF Trees

-----------------------------------------------------------------------------
(* What is computed along a tree. *)

TipsBody(S, f) == [t \in S |-> IF IsSplit(t) THEN f[t.tl] \cup f[t.br] ELSE {t}]

LEMMA TipsExist ==
  \A n \in 0 .. MaxDepth : \E f : f = TipsBody(TreesOf[n], f)
<1>0. MaxDepth \in Nat
  BY SessionAssumption
<1> DEFINE T == {k \in Nat : k <= MaxDepth => \E f : f = TipsBody(TreesOf[k], f)}
<1>1. 0 \in T
  <2>1. \A t \in TreesOf[0] : ~IsSplit(t)
    BY TreesOfStep, AtomsAreTrees
  <2>2. [t \in TreesOf[0] |-> {t}] = TipsBody(TreesOf[0], [t \in TreesOf[0] |-> {t}])
    BY <2>1 DEF TipsBody
  <2> QED
    BY <2>2
<1>2. ASSUME NEW k \in 0..MaxDepth, k \in T, k < MaxDepth PROVE k + 1 \in T
  <2>0. PICK f : f = TipsBody(TreesOf[k], f)
    BY <1>0, <1>2
  <2> DEFINE g == TipsBody(TreesOf[k + 1], f)
  <2>1. k + 1 \in 0 .. MaxDepth /\ (k + 1) - 1 = k
    BY <1>0, <1>2
  <2>2. TreesOf[k] \subseteq TreesOf[k + 1]
    BY <1>2, TreesOfStep
  <2>3. \A t \in TreesOf[k] : g[t] = f[t]
    BY <2>0, <2>2 DEF TipsBody
  <2>4. ASSUME NEW t \in TreesOf[k + 1]
        PROVE  g[t] = IF IsSplit(t) THEN g[t.tl] \cup g[t.br] ELSE {t}
    <3>1. g[t] = IF IsSplit(t) THEN f[t.tl] \cup f[t.br] ELSE {t}
      BY DEF TipsBody
    <3>2. IsSplit(t) => t.tl \in TreesOf[k] /\ t.br \in TreesOf[k]
      BY <2>1, SidesOfTree
    <3> HIDE DEF g
    <3> QED
      BY <2>3, <3>1, <3>2
  <2>5. g = TipsBody(TreesOf[k + 1], g)
    <3>1. g = [t \in TreesOf[k + 1] |-> g[t]]
      BY DEF TipsBody
    <3> HIDE DEF g
    <3> QED
      BY <2>4, <3>1 DEF TipsBody
  <2> QED
    BY <2>5
<1>3. \A k \in 0 .. MaxDepth : k \in T
  <2> HIDE DEF T
  <2> QED
    BY <1>0, <1>1, <1>2, Upwards
<1> QED
  BY <1>0, <1>3

LEMMA TipsDef ==
  \A t \in Trees : Tips[t] = IF IsSplit(t) THEN Tips[t.tl] \cup Tips[t.br] ELSE {t}
<1>1. MaxDepth \in 0 .. MaxDepth
  BY SessionAssumption
<1>2. \E f : f = TipsBody(Trees, f)
  BY <1>1, TipsExist DEF Trees
<1>3. Tips = CHOOSE f : f = TipsBody(Trees, f)
  BY Zenon DEF Tips, TipsBody
<1>4. Tips = TipsBody(Trees, Tips)
  BY <1>2, <1>3, Zenon
<1> HIDE DEF Tips
<1> QED
  BY <1>4 DEF TipsBody

\* A split that has lost a side is the other side.
Joint(tl, br) == IF tl = NULL THEN br ELSE IF br = NULL THEN tl ELSE [tl |-> tl, br |-> br]

ReplacedBody(S, f, new, r) ==
  [t \in S |-> IF ~IsSplit(t) THEN IF t = f THEN new ELSE t ELSE Joint(r[t.tl], r[t.br])]

LEMMA ReplacedExists ==
  ASSUME NEW f, NEW new
  PROVE  \A n \in 0 .. MaxDepth : \E r : r = ReplacedBody(TreesOf[n], f, new, r)
<1>0. MaxDepth \in Nat
  BY SessionAssumption
<1> DEFINE T == {k \in Nat : k <= MaxDepth => \E r : r = ReplacedBody(TreesOf[k], f, new, r)}
<1>1. 0 \in T
  <2>1. \A t \in TreesOf[0] : ~IsSplit(t)
    BY TreesOfStep, AtomsAreTrees
  <2> DEFINE r == [t \in TreesOf[0] |-> IF t = f THEN new ELSE t]
  <2>2. r = ReplacedBody(TreesOf[0], f, new, r)
    BY <2>1 DEF ReplacedBody
  <2> QED
    BY <2>2
<1>2. ASSUME NEW k \in 0..MaxDepth, k \in T, k < MaxDepth PROVE k + 1 \in T
  <2>0. PICK r : r = ReplacedBody(TreesOf[k], f, new, r)
    BY <1>0, <1>2
  <2> DEFINE g == ReplacedBody(TreesOf[k + 1], f, new, r)
  <2>1. k + 1 \in 0 .. MaxDepth /\ (k + 1) - 1 = k
    BY <1>0, <1>2
  <2>2. TreesOf[k] \subseteq TreesOf[k + 1]
    BY <1>2, TreesOfStep
  <2>3. \A t \in TreesOf[k] : g[t] = r[t]
    BY <2>0, <2>2 DEF ReplacedBody
  <2>4. ASSUME NEW t \in TreesOf[k + 1]
        PROVE  g[t] = IF ~IsSplit(t) THEN IF t = f THEN new ELSE t ELSE Joint(g[t.tl], g[t.br])
    <3>1. g[t] = IF ~IsSplit(t) THEN IF t = f THEN new ELSE t ELSE Joint(r[t.tl], r[t.br])
      BY DEF ReplacedBody
    <3>2. IsSplit(t) => t.tl \in TreesOf[k] /\ t.br \in TreesOf[k]
      BY <2>1, SidesOfTree
    <3> HIDE DEF g
    <3> QED
      BY <2>3, <3>1, <3>2
  <2>5. g = ReplacedBody(TreesOf[k + 1], f, new, g)
    <3>1. g = [t \in TreesOf[k + 1] |-> g[t]]
      BY DEF ReplacedBody
    <3> HIDE DEF g
    <3> QED
      BY <2>4, <3>1 DEF ReplacedBody
  <2> QED
    BY <2>5
<1>3. \A k \in 0 .. MaxDepth : k \in T
  <2> HIDE DEF T
  <2> QED
    BY <1>0, <1>1, <1>2, Upwards
<1> QED
  BY <1>0, <1>3

LEMMA ReplacedDef ==
  ASSUME NEW f, NEW new
  PROVE  \A t \in Trees :
           Replaced(t, f, new) = IF ~IsSplit(t) THEN IF t = f THEN new ELSE t
                                 ELSE Joint(Replaced(t.tl, f, new), Replaced(t.br, f, new))
<1> DEFINE R == CHOOSE r : r = ReplacedBody(Trees, f, new, r)
<1>1. MaxDepth \in 0 .. MaxDepth
  BY SessionAssumption
<1>2. \E r : r = ReplacedBody(Trees, f, new, r)
  BY <1>1, ReplacedExists DEF Trees
<1>3. R = ReplacedBody(Trees, f, new, R)
  BY <1>2, Zenon
<1>4. \A t : Replaced(t, f, new) = R[t]
  BY Zenon DEF Replaced, ReplacedBody, Joint
<1> HIDE DEF R
<1> SUFFICES ASSUME NEW t \in Trees
             PROVE  Replaced(t, f, new) = IF ~IsSplit(t) THEN IF t = f THEN new ELSE t
                                          ELSE Joint(Replaced(t.tl, f, new), Replaced(t.br, f, new))
  OBVIOUS
<1>5. R[t] = IF ~IsSplit(t) THEN IF t = f THEN new ELSE t ELSE Joint(R[t.tl], R[t.br])
  BY <1>3 DEF ReplacedBody
<1>6. Replaced(t, f, new) = R[t] /\ Replaced(t.tl, f, new) = R[t.tl] /\ Replaced(t.br, f, new) = R[t.br]
  BY <1>4
<1> QED
  BY <1>5, <1>6

WriteBody(ids, S, w) ==
  [t \in S |-> IF t \in Frame THEN <<Item("frame", ids[t])>>
               ELSE IF ~IsSplit(t) THEN <<>>
               ELSE <<Item("split", 0)>> \o w[t.tl] \o w[t.br] \o <<Item("end", 0)>>]

LEMMA WriteExists ==
  ASSUME NEW ids
  PROVE  \A n \in 0 .. MaxDepth : \E w : w = WriteBody(ids, TreesOf[n], w)
<1>0. MaxDepth \in Nat
  BY SessionAssumption
<1> DEFINE T == {k \in Nat : k <= MaxDepth => \E w : w = WriteBody(ids, TreesOf[k], w)}
<1>1. 0 \in T
  <2>1. \A t \in TreesOf[0] : ~IsSplit(t)
    BY TreesOfStep, AtomsAreTrees
  <2> DEFINE w == [t \in TreesOf[0] |-> IF t \in Frame THEN <<Item("frame", ids[t])>> ELSE <<>>]
  <2>2. w = WriteBody(ids, TreesOf[0], w)
    BY <2>1 DEF WriteBody
  <2> QED
    BY <2>2
<1>2. ASSUME NEW k \in 0..MaxDepth, k \in T, k < MaxDepth PROVE k + 1 \in T
  <2>0. PICK w : w = WriteBody(ids, TreesOf[k], w)
    BY <1>0, <1>2
  <2> DEFINE g == WriteBody(ids, TreesOf[k + 1], w)
  <2>1. k + 1 \in 0 .. MaxDepth /\ (k + 1) - 1 = k
    BY <1>0, <1>2
  <2>2. TreesOf[k] \subseteq TreesOf[k + 1]
    BY <1>2, TreesOfStep
  <2>3. \A t \in TreesOf[k] : g[t] = w[t]
    BY <2>0, <2>2 DEF WriteBody
  <2>4. ASSUME NEW t \in TreesOf[k + 1]
        PROVE  g[t] = IF t \in Frame THEN <<Item("frame", ids[t])>>
                      ELSE IF ~IsSplit(t) THEN <<>>
                      ELSE <<Item("split", 0)>> \o g[t.tl] \o g[t.br] \o <<Item("end", 0)>>
    <3>1. g[t] = IF t \in Frame THEN <<Item("frame", ids[t])>>
                 ELSE IF ~IsSplit(t) THEN <<>>
                 ELSE <<Item("split", 0)>> \o w[t.tl] \o w[t.br] \o <<Item("end", 0)>>
      BY DEF WriteBody
    <3>2. IsSplit(t) => t.tl \in TreesOf[k] /\ t.br \in TreesOf[k]
      BY <2>1, SidesOfTree
    <3> HIDE DEF g
    <3> QED
      BY <2>3, <3>1, <3>2
  <2>5. g = WriteBody(ids, TreesOf[k + 1], g)
    <3>1. g = [t \in TreesOf[k + 1] |-> g[t]]
      BY DEF WriteBody
    <3> HIDE DEF g
    <3> QED
      BY <2>4, <3>1 DEF WriteBody
  <2> QED
    BY <2>5
<1>3. \A k \in 0 .. MaxDepth : k \in T
  <2> HIDE DEF T
  <2> QED
    BY <1>0, <1>1, <1>2, Upwards
<1> QED
  BY <1>0, <1>3

\* The text of a tree whose frames have the given ids.
TextOf(ids) == CHOOSE w : w = WriteBody(ids, Trees, w)

LEMMA TextOfDef ==
  ASSUME NEW ids
  PROVE  \A t \in Trees :
           TextOf(ids)[t] = IF t \in Frame THEN <<Item("frame", ids[t])>>
                            ELSE IF ~IsSplit(t) THEN <<>>
                            ELSE <<Item("split", 0)>> \o TextOf(ids)[t.tl] \o TextOf(ids)[t.br]
                                   \o <<Item("end", 0)>>
<1>1. MaxDepth \in 0 .. MaxDepth
  BY SessionAssumption
<1>2. \E w : w = WriteBody(ids, Trees, w)
  BY <1>1, WriteExists DEF Trees
<1>3. TextOf(ids) = WriteBody(ids, Trees, TextOf(ids))
  BY <1>2, Zenon DEF TextOf
<1> HIDE DEF TextOf
<1> QED
  BY <1>3 DEF WriteBody

LEMMA WriteObjIs == WriteObj = TextOf(frame_id) /\ WriteObj' = TextOf(frame_id')
<1>1. WriteObj = TextOf(frame_id)
  BY Zenon DEF WriteObj, WriteBody, TextOf
<1>2. WriteObj' = TextOf(frame_id')
  BY Zenon DEF WriteObj, WriteBody, TextOf
<1> QED
  BY <1>1, <1>2

LEMMA WriteObjDef ==
  \A t \in Trees :
    WriteObj[t] = IF t \in Frame THEN <<Item("frame", frame_id[t])>>
                  ELSE IF ~IsSplit(t) THEN <<>>
                  ELSE <<Item("split", 0)>> \o WriteObj[t.tl] \o WriteObj[t.br] \o <<Item("end", 0)>>
<1>1. WriteObj = TextOf(frame_id)
  BY WriteObjIs
<1> QED
  BY <1>1, TextOfDef, Zenon

-----------------------------------------------------------------------------
(* What the operations do to the frames of a tree. *)

LEMMA TipsType ==
  \A t \in Trees : Tips[t] \subseteq Atoms /\ Tips[t] # {}
<1> DEFINE P == {t \in Trees : Tips[t] \subseteq Atoms /\ Tips[t] # {}}
<1>1. \A t \in Trees : ~IsSplit(t) => t \in P
  BY TipsDef DEF IsSplit
<1>2. \A t \in Trees : IsSplit(t) /\ t.tl \in P /\ t.br \in P => t \in P
  BY TipsDef
<1>3. \A t \in Trees : t \in P
  <2> HIDE DEF P
  <2> QED
    BY <1>1, <1>2, TreeInduction
<1> QED
  BY <1>3

\* A split of two trees has the frames of both.
LEMMA TipsOfSplit ==
  ASSUME NEW n \in 0 .. MaxDepth, n > 0, NEW l \in TreesOf[n - 1], NEW r \in TreesOf[n - 1]
  PROVE  Tips[[tl |-> l, br |-> r]] = Tips[l] \cup Tips[r]
<1> DEFINE t == [tl |-> l, br |-> r]
<1>1. t \in TreesOf[n] /\ IsSplit(t)
  BY SplitOfTrees
<1>2. t \in Trees /\ t.tl = l /\ t.br = r
  BY <1>1, TreesGrow, SessionAssumption
<1> HIDE DEF t
<1>3. Tips[t] = Tips[t.tl] \cup Tips[t.br]
  BY <1>1, <1>2, TipsDef
<1> QED
  BY <1>2, <1>3 DEF t

LEMMA NoTips ==
  \A t \in Trees : (t = NULL => Tips[t] = {NULL}) /\ (t \in Frame => Tips[t] = {t})
BY TipsDef DEF IsSplit, Atoms

\* The tree without frame f: nothing is left, or the other frames are.
Removed(t, f, n) ==
  LET u == Replaced(t, f, NULL) IN
  \/ u = NULL /\ Tips[t] = {f}
  \/ u # NULL /\ u \in TreesOf[n] /\ Tips[u] = Tips[t] \ {f}

LEMMA FrameRemoved ==
  ASSUME NEW f \in Frame, NEW t \in Trees, Proper(t)
  PROVE  \A n \in 0 .. MaxDepth : t \in TreesOf[n] => Removed(t, f, n)
<1> DEFINE P == {u \in Trees : NULL \notin Tips[u] =>
                   \A n \in 0 .. MaxDepth : u \in TreesOf[n] => Removed(u, f, n)}
<1>1. \A u \in Trees : ~IsSplit(u) => u \in P
  <2> SUFFICES ASSUME NEW u \in Trees, ~IsSplit(u), NULL \notin Tips[u],
                      NEW n \in 0 .. MaxDepth, u \in TreesOf[n]
               PROVE  Removed(u, f, n)
    OBVIOUS
  <2>1. Tips[u] = {u} /\ Replaced(u, f, NULL) = IF u = f THEN NULL ELSE u
    BY TipsDef, ReplacedDef
  <2> QED
    BY <2>1 DEF Removed
<1>2. \A u \in Trees : IsSplit(u) /\ u.tl \in P /\ u.br \in P => u \in P
  <2> SUFFICES ASSUME NEW u \in Trees, IsSplit(u), u.tl \in P, u.br \in P, NULL \notin Tips[u],
                      NEW n \in 0 .. MaxDepth, u \in TreesOf[n]
               PROVE  Removed(u, f, n)
    OBVIOUS
  <2> DEFINE l == Replaced(u.tl, f, NULL)
             r == Replaced(u.br, f, NULL)
  <2>1. n > 0 /\ u.tl \in TreesOf[n - 1] /\ u.br \in TreesOf[n - 1]
    BY SidesOfTree
  <2>2. Tips[u] = Tips[u.tl] \cup Tips[u.br]
    BY TipsDef
  <2>3. n - 1 \in 0 .. MaxDepth
    BY <2>1, SessionAssumption
  <2>4. Removed(u.tl, f, n - 1) /\ Removed(u.br, f, n - 1)
    BY <2>1, <2>2, <2>3
  <2>5. Replaced(u, f, NULL) = Joint(l, r)
    BY ReplacedDef
  <2> HIDE DEF l, r
  <2>6. /\ (l = NULL /\ Tips[u.tl] = {f}) \/ (l # NULL /\ l \in TreesOf[n - 1] /\ Tips[l] = Tips[u.tl] \ {f})
        /\ (r = NULL /\ Tips[u.br] = {f}) \/ (r # NULL /\ r \in TreesOf[n - 1] /\ Tips[r] = Tips[u.br] \ {f})
    BY <2>4 DEF Removed, l, r
  <2>7. TreesOf[n - 1] \subseteq TreesOf[n]
    BY <2>1, <2>3, TreesGrow
  <2>8. CASE l = NULL \/ r = NULL
    <3>1. Joint(l, r) = IF l = NULL THEN r ELSE l
      BY <2>8 DEF Joint
    <3> QED
      BY <2>2, <2>5, <2>6, <2>7, <2>8, <3>1 DEF Removed
  <2>9. CASE l # NULL /\ r # NULL
    <3>1. Joint(l, r) = [tl |-> l, br |-> r]
      BY <2>9 DEF Joint
    <3>2. Joint(l, r) \in TreesOf[n] /\ IsSplit(Joint(l, r))
      BY <2>1, <2>6, <2>9, <3>1, SplitOfTrees
    <3>3. Tips[Joint(l, r)] = Tips[l] \cup Tips[r]
      BY <2>1, <2>6, <2>9, <3>1, TipsOfSplit
    <3>4. Joint(l, r) # NULL
      BY <3>2 DEF IsSplit, Atoms
    <3> QED
      BY <2>2, <2>5, <2>6, <2>9, <3>2, <3>3, <3>4 DEF Removed
  <2> QED
    BY <2>8, <2>9
<1>3. \A u \in Trees : u \in P
  <2> HIDE DEF P
  <2> QED
    BY <1>1, <1>2, TreeInduction
<1> QED
  BY <1>3 DEF Proper

\* The tree with a split in the place of frame at.
Deeper(t, at, new, n) ==
  LET u == Replaced(t, at, new) IN
  /\ u # NULL /\ u \in TreesOf[n + 1]
  /\ Tips[u] = IF at \in Tips[t] THEN (Tips[t] \ {at}) \cup Tips[new] ELSE Tips[t]

LEMMA FrameSplit ==
  ASSUME NEW at \in Frame, NEW t \in Trees, Proper(t), NEW new \in TreesOf[1], IsSplit(new)
  PROVE  \A n \in 0 .. MaxDepth - 1 : t \in TreesOf[n] => Deeper(t, at, new, n)
<1> DEFINE P == {u \in Trees : NULL \notin Tips[u] =>
                   \A n \in 0 .. MaxDepth - 1 : u \in TreesOf[n] => Deeper(u, at, new, n)}
<1>0. MaxDepth \in Nat /\ new # NULL
  BY SessionAssumption DEF IsSplit, Atoms
<1>1. \A u \in Trees : ~IsSplit(u) => u \in P
  <2> SUFFICES ASSUME NEW u \in Trees, ~IsSplit(u), NULL \notin Tips[u],
                      NEW n \in 0 .. MaxDepth - 1, u \in TreesOf[n]
               PROVE  Deeper(u, at, new, n)
    OBVIOUS
  <2>1. Tips[u] = {u} /\ Replaced(u, at, new) = IF u = at THEN new ELSE u
    BY TipsDef, ReplacedDef
  <2>2. n + 1 \in 0 .. MaxDepth /\ 1 \in 0 .. n + 1 /\ n \in 0 .. n + 1
    BY <1>0
  <2>3. TreesOf[1] \subseteq TreesOf[n + 1] /\ TreesOf[n] \subseteq TreesOf[n + 1]
    BY <2>2, TreesGrow
  <2> QED
    BY <1>0, <2>1, <2>3 DEF Deeper
<1>2. \A u \in Trees : IsSplit(u) /\ u.tl \in P /\ u.br \in P => u \in P
  <2> SUFFICES ASSUME NEW u \in Trees, IsSplit(u), u.tl \in P, u.br \in P, NULL \notin Tips[u],
                      NEW n \in 0 .. MaxDepth - 1, u \in TreesOf[n]
               PROVE  Deeper(u, at, new, n)
    OBVIOUS
  <2> DEFINE l == Replaced(u.tl, at, new)
             r == Replaced(u.br, at, new)
  <2>1. n > 0 /\ u.tl \in TreesOf[n - 1] /\ u.br \in TreesOf[n - 1]
    BY <1>0, SidesOfTree
  <2>2. Tips[u] = Tips[u.tl] \cup Tips[u.br]
    BY TipsDef
  <2>3. n - 1 \in 0 .. MaxDepth - 1 /\ (n - 1) + 1 = n /\ n + 1 \in 0 .. MaxDepth /\ n + 1 > 0
        /\ (n + 1) - 1 = n
    BY <1>0, <2>1
  <2>4. Deeper(u.tl, at, new, n - 1) /\ Deeper(u.br, at, new, n - 1)
    BY <2>1, <2>2, <2>3
  <2>5. Replaced(u, at, new) = Joint(l, r)
    BY ReplacedDef
  <2> HIDE DEF l, r
  <2>6. /\ l # NULL /\ l \in TreesOf[n]
        /\ Tips[l] = IF at \in Tips[u.tl] THEN (Tips[u.tl] \ {at}) \cup Tips[new] ELSE Tips[u.tl]
        /\ r # NULL /\ r \in TreesOf[n]
        /\ Tips[r] = IF at \in Tips[u.br] THEN (Tips[u.br] \ {at}) \cup Tips[new] ELSE Tips[u.br]
    BY <2>3, <2>4 DEF Deeper, l, r
  <2>7. Joint(l, r) = [tl |-> l, br |-> r]
    BY <2>6 DEF Joint
  <2>8. Joint(l, r) \in TreesOf[n + 1] /\ IsSplit(Joint(l, r))
    BY <2>3, <2>6, <2>7, SplitOfTrees
  <2>9. Tips[Joint(l, r)] = Tips[l] \cup Tips[r]
    BY <2>3, <2>6, <2>7, TipsOfSplit
  <2>10. Joint(l, r) # NULL
    BY <2>8 DEF IsSplit, Atoms
  <2>11. Tips[l] \cup Tips[r] = IF at \in Tips[u] THEN (Tips[u] \ {at}) \cup Tips[new] ELSE Tips[u]
    BY <2>2, <2>6
  <2> QED
    BY <2>5, <2>8, <2>9, <2>10, <2>11 DEF Deeper
<1>3. \A u \in Trees : u \in P
  <2> HIDE DEF P
  <2> QED
    BY <1>1, <1>2, TreeInduction
<1> QED
  BY <1>3 DEF Proper

-----------------------------------------------------------------------------
(* What is written can be read: it is a sequence of items. *)

LEMMA ItemsType ==
  /\ \A k \in {"workspace", "unreadable", "split", "frame", "end"}, id \in 0 .. INT_MAX :
       Item(k, id) \in Items
  /\ \A k \in {"workspace", "unreadable", "split", "frame", "end"} : Item(k, 0) \in Items
BY FrameIdsAssumption DEF Items, Item

LEMMA WriteObjType ==
  ASSUME IdsType
  PROVE  \A t \in Trees : WriteObj[t] \in Seq(Items)
<1> DEFINE P == {t \in Trees : WriteObj[t] \in Seq(Items)}
<1>0. /\ \A x \in Items : <<x>> \in Seq(Items)
      /\ \A a, b \in Seq(Items) : a \o b \in Seq(Items)
      /\ <<>> \in Seq(Items)
  OBVIOUS
<1>1. \A t \in Trees : ~IsSplit(t) => t \in P
  <2> SUFFICES ASSUME NEW t \in Trees, ~IsSplit(t) PROVE WriteObj[t] \in Seq(Items)
    OBVIOUS
  <2>1. WriteObj[t] = IF t \in Frame THEN <<Item("frame", frame_id[t])>> ELSE <<>>
    BY WriteObjDef
  <2>2. t \in Frame => Item("frame", frame_id[t]) \in Items
    BY ItemsType DEF IdsType
  <2> QED
    BY <1>0, <2>1, <2>2
<1>2. \A t \in Trees : IsSplit(t) /\ t.tl \in P /\ t.br \in P => t \in P
  <2> SUFFICES ASSUME NEW t \in Trees, IsSplit(t), t.tl \in P, t.br \in P
               PROVE  WriteObj[t] \in Seq(Items)
    OBVIOUS
  <2>1. t \notin Frame
    BY DEF IsSplit, Atoms
  <2>2. WriteObj[t] = <<Item("split", 0)>> \o WriteObj[t.tl] \o WriteObj[t.br] \o <<Item("end", 0)>>
    BY <2>1, WriteObjDef
  <2>3. <<Item("split", 0)>> \in Seq(Items) /\ <<Item("end", 0)>> \in Seq(Items)
    BY <1>0, ItemsType
  <2> QED
    BY <1>0, <2>2, <2>3
<1>3. \A t \in Trees : t \in P
  <2> HIDE DEF P
  <2> QED
    BY <1>1, <1>2, TreeInduction
<1> QED
  BY <1>3

FlattenBody(seqs, k, f) == [i \in 1..k |-> IF i = 1 THEN seqs[i] ELSE f[i - 1] \o seqs[i]]

LEMMA FlattenExists ==
  ASSUME NEW seqs, NEW M \in Nat
  PROVE  \E f : f = FlattenBody(seqs, M, f)
<1> DEFINE T == {k \in Nat : \E f : f = FlattenBody(seqs, k, f)}
<1>1. 0 \in T
  <2>1. [i \in 1..0 |-> seqs[i]] = FlattenBody(seqs, 0, [i \in 1..0 |-> seqs[i]])
    BY DEF FlattenBody
  <2> QED
    BY <2>1
<1>2. ASSUME NEW k \in 0..M, k \in T PROVE k + 1 \in T
  <2>1. PICK f : f = FlattenBody(seqs, k, f)
    BY <1>2
  <2> DEFINE g == FlattenBody(seqs, k + 1, f)
  <2>2. ASSUME NEW i \in 1..k PROVE g[i] = f[i]
    <3>1. f[i] = IF i = 1 THEN seqs[i] ELSE f[i - 1] \o seqs[i]
      BY <2>1 DEF FlattenBody
    <3>2. i \in 1..k + 1
      OBVIOUS
    <3>3. g[i] = IF i = 1 THEN seqs[i] ELSE f[i - 1] \o seqs[i]
      BY <3>2 DEF FlattenBody
    <3> HIDE DEF g
    <3> QED
      BY <3>1, <3>3
  <2>3. ASSUME NEW i \in 1..k + 1
        PROVE  g[i] = IF i = 1 THEN seqs[i] ELSE g[i - 1] \o seqs[i]
    <3>1. g[i] = IF i = 1 THEN seqs[i] ELSE f[i - 1] \o seqs[i]
      BY DEF FlattenBody
    <3>2. i # 1 => i - 1 \in 1..k
      OBVIOUS
    <3> HIDE DEF g
    <3> QED
      BY <2>2, <3>1, <3>2
  <2>4. g = FlattenBody(seqs, k + 1, g)
    <3>1. g = [i \in 1..k + 1 |-> g[i]]
      BY DEF FlattenBody
    <3> HIDE DEF g
    <3> QED
      BY <2>3, <3>1 DEF FlattenBody
  <2> QED
    BY <2>4
<1>3. M \in T
  <2> HIDE DEF T
  <2> QED
    BY <1>1, <1>2, Upwards
<1> QED
  BY <1>3

LEMMA FlattenType ==
  ASSUME NEW S, NEW seqs \in Seq(Seq(S))
  PROVE  FlattenSeq(seqs) \in Seq(S)
<1> DEFINE n == Len(seqs)
           F == CHOOSE f : f = FlattenBody(seqs, n, f)
<1>0. n \in Nat /\ \A i \in 1..n : seqs[i] \in Seq(S)
  OBVIOUS
<1>1. F = FlattenBody(seqs, n, F)
  <2>1. \E f : f = FlattenBody(seqs, n, f)
    BY <1>0, FlattenExists
  <2> QED
    BY <2>1, Zenon
<1>2. FlattenSeq(seqs) = IF n = 0 THEN seqs ELSE F[n]
  BY Zenon DEF FlattenSeq, FlattenBody
<1> HIDE DEF F, n
<1>3. CASE n = 0
  <2>1. seqs = <<>>
    BY <1>3 DEF n
  <2> QED
    BY <1>2, <1>3, <2>1
<1>4. CASE n # 0
  <2> DEFINE T == {k \in Nat : k = 0 \/ (k <= n => F[k] \in Seq(S))}
  <2>1. 0 \in T
    OBVIOUS
  <2>2. ASSUME NEW k \in 0..n, k \in T, k < n PROVE k + 1 \in T
    <3>1. F[k + 1] = IF k + 1 = 1 THEN seqs[k + 1] ELSE F[k] \o seqs[k + 1]
      <4>1. k + 1 \in 1..n /\ (k + 1) - 1 = k
        BY <1>0, <2>2
      <4> QED
        BY <1>1, <4>1 DEF FlattenBody
    <3>2. seqs[k + 1] \in Seq(S)
      BY <1>0, <2>2
    <3>3. k # 0 => F[k] \in Seq(S)
      BY <1>0, <2>2
    <3>4. F[k + 1] \in Seq(S)
      BY <1>0, <3>1, <3>2, <3>3
    <3> QED
      BY <3>4
  <2>3. \A k \in 0..n : k \in T
    <3>1. n \in Nat
      BY <1>0
    <3> HIDE DEF T
    <3> QED
      BY <2>1, <2>2, <3>1, Upwards
  <2> QED
    BY <1>0, <1>2, <1>4, <2>3
<1> QED
  BY <1>3, <1>4

\* The records of workspaces.
Workspaces == [name : {"workspace", "unreadable"}, splitree : Trees, wins : Seq(Frame)]

LEMMA WorkspaceFields ==
  /\ \A w \in Workspaces : /\ w.name \in {"workspace", "unreadable"} /\ w.splitree \in Trees
                           /\ w.wins \in Seq(Frame)
  /\ \A name \in {"workspace", "unreadable"}, t \in Trees, q \in Seq(Frame) :
       [name |-> name, splitree |-> t, wins |-> q] \in Workspaces
BY DEF Workspaces

LEMMA WriteWorkspacesType ==
  ASSUME IdsType, NEW s \in Screen, ws[s] \in Seq(Workspaces)
  PROVE  WriteWorkspaces(s) \in Seq(Items)
<1> DEFINE line(i) == <<Item(ws[s][i].name, 0)>> \o WriteObj[ws[s][i].splitree] \o <<Item("end", 0)>>
<1>0. /\ \A x \in Items : <<x>> \in Seq(Items)
      /\ \A a, b \in Seq(Items) : a \o b \in Seq(Items)
  OBVIOUS
<1>1. ASSUME NEW i \in DOMAIN ws[s] PROVE line(i) \in Seq(Items)
  <2>1. ws[s][i] \in Workspaces
    OBVIOUS
  <2>2. ws[s][i].name \in {"workspace", "unreadable"} /\ ws[s][i].splitree \in Trees
    BY <2>1, WorkspaceFields
  <2>3. Item(ws[s][i].name, 0) \in Items /\ Item("end", 0) \in Items
    BY <2>2, ItemsType
  <2>4. WriteObj[ws[s][i].splitree] \in Seq(Items)
    BY <2>2, WriteObjType
  <2> QED
    BY <1>0, <2>3, <2>4
<1> HIDE DEF line
<1>2. [i \in DOMAIN ws[s] |-> line(i)] \in Seq(Seq(Items))
  BY <1>1
<1>3. WriteWorkspaces(s) = FlattenSeq([i \in DOMAIN ws[s] |-> line(i)])
  BY DEF WriteWorkspaces, line
<1> QED
  BY <1>2, <1>3, FlattenType

LEMMA CutType ==
  ASSUME NEW text \in Seq(Items)
  PROVE  Cut(text) \subseteq Seq(Items)
<1> SUFFICES ASSUME NEW u \in Cut(text) PROVE u \in Seq(Items)
  OBVIOUS
<1>0. \A n \in 0 .. Len(text) - 1 : SubSeq(text, 1, n) \in Seq(Items)
  OBVIOUS
<1>1. CASE \E n \in 0 .. Len(text) - 1 : u = SubSeq(text, 1, n)
  BY <1>0, <1>1
<1>2. CASE \E n \in 0 .. Len(text) - 1 :
             u = Append(SubSeq(text, 1, n), Item("frame", text[n + 1].id \div 10))
  <2>1. PICK n \in 0 .. Len(text) - 1 :
               u = Append(SubSeq(text, 1, n), Item("frame", text[n + 1].id \div 10))
    BY <1>2
  <2>2. text[n + 1] \in Items
    <3>1. n + 1 \in 1 .. Len(text)
      OBVIOUS
    <3> QED
      BY <3>1
  <2> DEFINE id == text[n + 1].id
  <2>3. id \in 0 .. INT_MAX
    BY <2>2 DEF Items
  <2> HIDE DEF id
  <2>4. id \div 10 \in 0 .. INT_MAX
    BY <2>3, FrameIdsAssumption
  <2>5. Item("frame", id \div 10) \in Items
    BY <2>4, ItemsType
  <2> QED
    BY <1>0, <2>1, <2>5 DEF id
<1> QED
  BY <1>1, <1>2 DEF Cut

-----------------------------------------------------------------------------
(* The walk over the frames. *)

\* f is the k'th child of the i'th workspace of screen s.
At(f, s, i, k) ==
  s \in Screen /\ i \in DOMAIN ws[s] /\ k \in DOMAIN ws[s][i].wins /\ ws[s][i].wins[k] = f

WsType == ws \in [Screen -> Seq(Workspaces)]

\* The frames that have an id are the children of workspaces, each of one, once.
FramesInv == Live = UNION {FramesOf(s) : s \in Screen} /\ EachOnce

LEMMA AtType ==
  ASSUME WsType, NEW f, NEW s, NEW i, NEW k, At(f, s, i, k)
  PROVE  s \in Int /\ i \in Int /\ k \in Int /\ f \in Frame
<1>1. s \in Screen /\ i \in DOMAIN ws[s] /\ k \in DOMAIN ws[s][i].wins /\ ws[s][i].wins[k] = f
  BY DEF At
<1>2. s \in Int
  BY <1>1, SessionAssumption DEF Screen
<1>3. ws[s] \in Seq(Workspaces)
  BY <1>1 DEF WsType
<1>4. i \in Int /\ ws[s][i] \in Workspaces
  BY <1>1, <1>3
<1>5. ws[s][i].wins \in Seq(Frame)
  BY <1>4, WorkspaceFields
<1> QED
  BY <1>1, <1>2, <1>4, <1>5

LEMMA AtOnce ==
  ASSUME EachOnce, NEW f, NEW s, NEW i, NEW k, At(f, s, i, k), NEW t, NEW j, NEW l, At(f, t, j, l)
  PROVE  s = t /\ i = j /\ k = l
BY DEF EachOnce, At

LEMMA LiveIsAt ==
  ASSUME FramesInv, NEW f
  PROVE  f \in Live <=> \E s, i, k : At(f, s, i, k)
<1>1. f \in Live <=> \E s \in Screen : f \in FramesOf(s)
  BY DEF FramesInv
<1>2. \A s : f \in FramesOf(s) <=> \E i \in DOMAIN ws[s] : f \in Children(ws[s][i])
  BY DEF FramesOf
<1>3. \A w : f \in Children(w) <=> \E k \in DOMAIN w.wins : w.wins[k] = f
  BY DEF Children, ToSet
<1> QED
  BY <1>1, <1>2, <1>3 DEF At

\* The order of the places of frames.
Earlier(s, i, k, t, j, l) == s < t \/ (s = t /\ (i < j \/ (i = j /\ k <= l)))

LEMMA NotAfterIsEarlier ==
  ASSUME EachOnce, NEW f, NEW s, NEW i, NEW k, At(f, s, i, k), NEW g, NEW t, NEW j, NEW l, At(g, t, j, l)
  PROVE  NotAfter(f, g) <=> Earlier(s, i, k, t, j, l)
<1>1. ASSUME NotAfter(f, g) PROVE Earlier(s, i, k, t, j, l)
  <2>1. PICK s1 \in Screen, t1 \in Screen : \E i1 \in DOMAIN ws[s1], j1 \in DOMAIN ws[t1] :
          \E k1 \in DOMAIN ws[s1][i1].wins, l1 \in DOMAIN ws[t1][j1].wins :
            /\ ws[s1][i1].wins[k1] = f /\ ws[t1][j1].wins[l1] = g
            /\ s1 < t1 \/ (s1 = t1 /\ (i1 < j1 \/ (i1 = j1 /\ k1 <= l1)))
    BY <1>1 DEF NotAfter
  <2>2. PICK i1 \in DOMAIN ws[s1], j1 \in DOMAIN ws[t1] :
          \E k1 \in DOMAIN ws[s1][i1].wins, l1 \in DOMAIN ws[t1][j1].wins :
            /\ ws[s1][i1].wins[k1] = f /\ ws[t1][j1].wins[l1] = g
            /\ s1 < t1 \/ (s1 = t1 /\ (i1 < j1 \/ (i1 = j1 /\ k1 <= l1)))
    BY <2>1
  <2>3. PICK k1 \in DOMAIN ws[s1][i1].wins, l1 \in DOMAIN ws[t1][j1].wins :
            /\ ws[s1][i1].wins[k1] = f /\ ws[t1][j1].wins[l1] = g
            /\ s1 < t1 \/ (s1 = t1 /\ (i1 < j1 \/ (i1 = j1 /\ k1 <= l1)))
    BY <2>2
  <2>4. At(f, s1, i1, k1) /\ At(g, t1, j1, l1)
    BY <2>3 DEF At
  <2>5. s = s1 /\ i = i1 /\ k = k1 /\ t = t1 /\ j = j1 /\ l = l1
    BY <2>4, AtOnce
  <2> QED
    BY <2>3, <2>5 DEF Earlier
<1>2. ASSUME Earlier(s, i, k, t, j, l) PROVE NotAfter(f, g)
  BY <1>2 DEF NotAfter, At, Earlier
<1> QED
  BY <1>1, <1>2

\* The walk is a linear order of the frames.
LEMMA WalkOrder ==
  ASSUME WsType, FramesInv
  PROVE  /\ \A f \in Live : NotAfter(f, f)
         /\ \A f, g \in Live : NotAfter(f, g) \/ NotAfter(g, f)
         /\ \A f, g \in Live : NotAfter(f, g) /\ NotAfter(g, f) => f = g
         /\ \A f, g, h \in Live : NotAfter(f, g) /\ NotAfter(g, h) => NotAfter(f, h)
<1>0. EachOnce
  BY DEF FramesInv
<1>1. ASSUME NEW f \in Live PROVE \E s, i, k \in Int : At(f, s, i, k)
  BY LiveIsAt, AtType
<1>2. ASSUME NEW f \in Live PROVE NotAfter(f, f)
  <2>1. PICK s, i, k \in Int : At(f, s, i, k)
    BY <1>1
  <2>2. Earlier(s, i, k, s, i, k)
    BY DEF Earlier
  <2> QED
    BY <1>0, <2>1, <2>2, NotAfterIsEarlier
<1>3. ASSUME NEW f \in Live, NEW g \in Live
      PROVE  /\ NotAfter(f, g) \/ NotAfter(g, f)
             /\ NotAfter(f, g) /\ NotAfter(g, f) => f = g
  <2>1. PICK s, i, k \in Int : At(f, s, i, k)
    BY <1>1
  <2>2. PICK t, j, l \in Int : At(g, t, j, l)
    BY <1>1
  <2>3. /\ NotAfter(f, g) <=> Earlier(s, i, k, t, j, l)
        /\ NotAfter(g, f) <=> Earlier(t, j, l, s, i, k)
    BY <1>0, <2>1, <2>2, NotAfterIsEarlier
  <2>4. Earlier(s, i, k, t, j, l) \/ Earlier(t, j, l, s, i, k)
    BY DEF Earlier
  <2>5. Earlier(s, i, k, t, j, l) /\ Earlier(t, j, l, s, i, k) => s = t /\ i = j /\ k = l
    BY DEF Earlier
  <2>6. s = t /\ i = j /\ k = l => f = g
    BY <2>1, <2>2 DEF At
  <2> QED
    BY <2>3, <2>4, <2>5, <2>6
<1>4. ASSUME NEW f \in Live, NEW g \in Live, NEW h \in Live, NotAfter(f, g), NotAfter(g, h)
      PROVE  NotAfter(f, h)
  <2>1. PICK s, i, k \in Int : At(f, s, i, k)
    BY <1>1
  <2>2. PICK t, j, l \in Int : At(g, t, j, l)
    BY <1>1
  <2>3. PICK u, m, n \in Int : At(h, u, m, n)
    BY <1>1
  <2>4. Earlier(s, i, k, t, j, l) /\ Earlier(t, j, l, u, m, n)
    BY <1>0, <1>4, <2>1, <2>2, <2>3, NotAfterIsEarlier
  <2>5. Earlier(s, i, k, u, m, n)
    BY <2>4 DEF Earlier
  <2> QED
    BY <1>0, <2>1, <2>3, <2>5, NotAfterIsEarlier
<1> QED
  BY <1>2, <1>3, <1>4

\* reorder_frame_ids comes by each frame once.
LEMMA PlaceIsWalk ==
  ASSUME WsType, FramesInv
  PROVE  Place \in Walk
<1> DEFINE U(f) == {g \in Live : NotAfter(g, f)}
<1>0. IsFiniteSet(Live)
  <2>1. Live \subseteq Frame /\ IsFiniteSet(Frame)
    BY FrameIdsAssumption DEF Live
  <2> QED
    BY <2>1, FS_Subset
<1>1. \A f \in Live : IsFiniteSet(U(f)) /\ Cardinality(U(f)) \in 1 .. Cardinality(Live)
  <2> SUFFICES ASSUME NEW f \in Live
               PROVE  IsFiniteSet(U(f)) /\ Cardinality(U(f)) \in 1 .. Cardinality(Live)
    OBVIOUS
  <2>1. U(f) \subseteq Live /\ f \in U(f)
    BY WalkOrder
  <2>2. IsFiniteSet(U(f)) /\ Cardinality(U(f)) <= Cardinality(Live)
    BY <1>0, <2>1, FS_Subset
  <2>3. Cardinality(U(f)) \in Nat /\ Cardinality(Live) \in Nat
    BY <1>0, <2>2, FS_CardinalityType
  <2>4. Cardinality(U(f)) # 0
    BY <2>1, <2>2, FS_EmptySet
  <2> QED
    BY <2>2, <2>3, <2>4
<1>2. ASSUME NEW f \in Live, NEW g \in Live, NotAfter(f, g), f # g
      PROVE  Cardinality(U(f)) # Cardinality(U(g))
  <2>1. U(f) \subseteq U(g) /\ g \in U(g) /\ g \notin U(f)
    BY <1>2, WalkOrder
  <2>2. Cardinality(U(f)) = Cardinality(U(g)) => U(f) = U(g)
    BY <1>1, <2>1, FS_Subset
  <2> QED
    BY <2>1, <2>2
<1>3. ASSUME NEW f \in Live, NEW g \in Live, Cardinality(U(f)) = Cardinality(U(g)) PROVE f = g
  <2>1. NotAfter(f, g) \/ NotAfter(g, f)
    BY WalkOrder
  <2> HIDE DEF U
  <2> QED
    BY <1>2, <1>3, <2>1
<1>4. Place = [f \in Live |-> Cardinality(U(f))]
  BY DEF Place
<1> HIDE DEF U
<1>5. Place \in [Live -> 1 .. Cardinality(Live)]
  BY <1>1, <1>4
<1>6. \A f, g \in Live : Place[f] = Place[g] => f = g
  BY <1>3, <1>4
<1> QED
  BY <1>5, <1>6 DEF Walk

-----------------------------------------------------------------------------
(* Sequences. *)

LEMMA AppendFacts ==
  ASSUME NEW S, NEW q \in Seq(S), NEW e \in S
  PROVE  /\ Append(q, e) \in Seq(S) /\ Len(Append(q, e)) = Len(q) + 1 /\ Append(q, e) # <<>>
         /\ \A i \in 1..Len(q) + 1 : Append(q, e)[i] = IF i = Len(q) + 1 THEN e ELSE q[i]
         /\ DOMAIN Append(q, e) = 1..Len(q) + 1
         /\ ToSet(Append(q, e)) = ToSet(q) \cup {e}
         /\ IsInjective(q) /\ e \notin ToSet(q) => IsInjective(Append(q, e))
<1> DEFINE r == Append(q, e)
<1>1. r \in Seq(S) /\ Len(r) = Len(q) + 1 /\ r # <<>> /\ Len(q) \in Nat
  OBVIOUS
<1>2. \A i \in 1..Len(q) + 1 : r[i] = IF i = Len(q) + 1 THEN e ELSE q[i]
  OBVIOUS
<1>3. DOMAIN r = 1..Len(q) + 1 /\ DOMAIN q = 1..Len(q)
  BY <1>1
<1> HIDE DEF r
<1>4. ToSet(r) = ToSet(q) \cup {e}
  <2>1. ASSUME NEW x \in ToSet(r) PROVE x \in ToSet(q) \cup {e}
    <3>1. PICK i \in 1..Len(q) + 1 : x = r[i]
      BY <1>3 DEF ToSet
    <3> QED
      BY <1>1, <1>2, <1>3, <3>1 DEF ToSet
  <2>2. ASSUME NEW x \in ToSet(q) PROVE x \in ToSet(r)
    <3>1. PICK i \in 1..Len(q) : x = q[i]
      BY <1>3 DEF ToSet
    <3>2. i \in 1..Len(q) + 1 /\ i # Len(q) + 1
      BY <1>1
    <3>3. r[i] = x
      BY <1>2, <3>1, <3>2
    <3> QED
      BY <1>3, <3>2, <3>3 DEF ToSet
  <2>3. e \in ToSet(r)
    <3>1. Len(q) + 1 \in 1..Len(q) + 1
      BY <1>1
    <3>2. r[Len(q) + 1] = e
      BY <1>2, <3>1
    <3> QED
      BY <1>3, <3>1, <3>2 DEF ToSet
  <2> QED
    BY <2>1, <2>2, <2>3
<1>5. ASSUME IsInjective(q), e \notin ToSet(q) PROVE IsInjective(r)
  <2> SUFFICES ASSUME NEW i \in 1..Len(q) + 1, NEW j \in 1..Len(q) + 1, r[i] = r[j]
               PROVE  i = j
    BY <1>3 DEF IsInjective
  <2>1. \A k \in 1..Len(q) : q[k] # e
    BY <1>3, <1>5 DEF ToSet
  <2>2. \A k, l \in 1..Len(q) : q[k] = q[l] => k = l
    BY <1>3, <1>5 DEF IsInjective
  <2> QED
    BY <1>1, <1>2, <2>1, <2>2
<1> QED
  BY <1>1, <1>2, <1>3, <1>4, <1>5 DEF r

\* r is q without its i'th element.
LeftOut(q, i, r) ==
  /\ Len(r) = Len(q) - 1
  /\ \A j \in 1..Len(q) - 1 : r[j] = IF j < i THEN q[j] ELSE q[j + 1]

LEMMA RemoveAtLeaves ==
  ASSUME NEW S, NEW s \in Seq(S), NEW i \in DOMAIN s
  PROVE  RemoveAt(s, i) \in Seq(S) /\ LeftOut(s, i, RemoveAt(s, i))
<1> DEFINE a == SubSeq(s, 1, i - 1)
           b == SubSeq(s, i + 1, Len(s))
<1>1. Len(s) \in Nat /\ i \in 1..Len(s)
  OBVIOUS
<1>2. a \in Seq(S) /\ Len(a) = i - 1 /\ \A j \in 1..i - 1 : a[j] = s[j]
  BY <1>1
<1>3. b \in Seq(S) /\ Len(b) = Len(s) - i /\ \A j \in 1..Len(s) - i : b[j] = s[j + i]
  BY <1>1
<1>4. RemoveAt(s, i) = a \o b
  BY DEF RemoveAt
<1> HIDE DEF a, b
<1>5. a \o b \in Seq(S) /\ Len(a \o b) = Len(s) - 1
  BY <1>1, <1>2, <1>3
<1>6. ASSUME NEW j \in 1..Len(s) - 1 PROVE (a \o b)[j] = IF j < i THEN s[j] ELSE s[j + 1]
  <2>1. CASE j < i
    BY <1>1, <1>2, <1>3, <2>1
  <2>2. CASE ~(j < i)
    <3>1. j - (i - 1) \in 1..Len(s) - i /\ (j - (i - 1)) + i = j + 1
      BY <1>1, <2>2
    <3>2. (a \o b)[j] = b[j - (i - 1)]
      BY <1>1, <1>2, <1>3, <2>2
    <3> QED
      BY <1>3, <2>2, <3>1, <3>2
  <2> QED
    BY <2>1, <2>2
<1> QED
  BY <1>4, <1>5, <1>6 DEF LeftOut

LEMMA TailLeaves ==
  ASSUME NEW S, NEW s \in Seq(S), s # <<>>
  PROVE  Tail(s) \in Seq(S) /\ LeftOut(s, 1, Tail(s)) /\ 1 \in DOMAIN s /\ Head(s) = s[1]
BY DEF LeftOut

LEMMA FrontLeaves ==
  ASSUME NEW S, NEW s \in Seq(S), s # <<>>
  PROVE  /\ SubSeq(s, 1, Len(s) - 1) \in Seq(S) /\ Len(s) \in DOMAIN s
         /\ LeftOut(s, Len(s), SubSeq(s, 1, Len(s) - 1))
<1>1. Len(s) \in Nat \ {0} /\ DOMAIN s = 1..Len(s)
  OBVIOUS
<1>2. SubSeq(s, 1, Len(s) - 1) \in Seq(S) /\ Len(SubSeq(s, 1, Len(s) - 1)) = Len(s) - 1
  BY <1>1
<1>3. \A j \in 1..Len(s) - 1 : SubSeq(s, 1, Len(s) - 1)[j] = s[j] /\ j < Len(s)
  BY <1>1
<1> QED
  BY <1>1, <1>2, <1>3 DEF LeftOut

LEMMA LeftOutFacts ==
  ASSUME NEW S, NEW q \in Seq(S), NEW i \in DOMAIN q, NEW r \in Seq(S), LeftOut(q, i, r), IsInjective(q)
  PROVE  IsInjective(r) /\ ToSet(r) = ToSet(q) \ {q[i]}
<1>1. /\ Len(r) = Len(q) - 1 /\ Len(q) \in Nat /\ i \in 1..Len(q)
      /\ \A j \in 1..Len(q) - 1 : r[j] = IF j < i THEN q[j] ELSE q[j + 1]
  BY DEF LeftOut
<1>2. \A j, k \in 1..Len(q) : q[j] = q[k] => j = k
  BY DEF IsInjective
<1>a. DOMAIN q = 1..Len(q) /\ DOMAIN r = 1..Len(r)
  OBVIOUS
<1>3. ASSUME NEW k \in 1..Len(r), NEW j \in 1..Len(r), r[k] = r[j] PROVE k = j
  BY <1>1, <1>2, <1>3
<1>4. IsInjective(r)
  BY <1>a, <1>3 DEF IsInjective
<1>5. ASSUME NEW j \in 1..Len(r) PROVE r[j] \in ToSet(q) \ {q[i]}
  <2>1. PICK k \in 1..Len(q) : r[j] = q[k] /\ k # i
    <3>1. CASE j < i
      BY <1>1, <3>1
    <3>2. CASE ~(j < i)
      BY <1>1, <3>2
    <3> QED
      BY <3>1, <3>2
  <2>2. q[k] # q[i]
    BY <1>1, <1>2, <2>1
  <2> QED
    BY <1>a, <2>1, <2>2 DEF ToSet
<1>6. ASSUME NEW k \in 1..Len(q), k # i PROVE \E j \in 1..Len(r) : r[j] = q[k]
  <2>1. CASE k < i
    BY <1>1, <2>1
  <2>2. CASE i < k
    <3>1. k - 1 \in 1..Len(r) /\ ~(k - 1 < i) /\ (k - 1) + 1 = k
      BY <1>1, <2>2
    <3> QED
      BY <1>1, <3>1
  <2> QED
    BY <1>1, <1>6, <2>1, <2>2
<1>7. \A e \in ToSet(r) : e \in ToSet(q) \ {q[i]}
  BY <1>a, <1>5 DEF ToSet
<1>8. ASSUME NEW e \in ToSet(q), e # q[i] PROVE e \in ToSet(r)
  <2>1. PICK k \in 1..Len(q) : q[k] = e
    BY <1>a DEF ToSet
  <2>2. \E j \in 1..Len(r) : r[j] = e
    BY <1>6, <1>8, <2>1
  <2> QED
    BY <1>a, <2>2 DEF ToSet
<1> QED
  BY <1>4, <1>7, <1>8

LEMMA UnlinkedFacts ==
  ASSUME NEW S, NEW q \in Seq(S), IsInjective(q), NEW e
  PROVE  /\ Unlinked(q, e) \in Seq(S) /\ IsInjective(Unlinked(q, e))
         /\ ToSet(Unlinked(q, e)) = ToSet(q) \ {e}
         /\ q # <<>> /\ Head(q) # e => Unlinked(q, e) # <<>> /\ Head(Unlinked(q, e)) = Head(q)
<1>1. CASE e \notin ToSet(q)
  BY <1>1 DEF Unlinked
<1>2. CASE e \in ToSet(q)
  <2> DEFINE k == CHOOSE k \in DOMAIN q : q[k] = e
             r == RemoveAt(q, k)
  <2>1. k \in DOMAIN q /\ q[k] = e
    <3>1. \E i \in DOMAIN q : q[i] = e
      BY <1>2 DEF ToSet
    <3> QED
      BY <3>1, Zenon
  <2>2. Unlinked(q, e) = r
    BY <1>2 DEF Unlinked
  <2> HIDE DEF k
  <2>3. r \in Seq(S) /\ LeftOut(q, k, r)
    BY <2>1, RemoveAtLeaves
  <2> HIDE DEF r
  <2>4. IsInjective(r) /\ ToSet(r) = ToSet(q) \ {e}
    BY <2>1, <2>3, LeftOutFacts
  <2>5. ASSUME q # <<>>, Head(q) # e PROVE r # <<>> /\ Head(r) = Head(q)
    <3>1. k \in 1..Len(q) /\ Len(q) \in Nat /\ k # 1
      BY <2>1, <2>5
    <3>2. Len(r) = Len(q) - 1 /\ 1 \in 1..Len(q) - 1 /\ r[1] = q[1]
      BY <2>3, <3>1 DEF LeftOut
    <3> QED
      BY <2>3, <2>5, <3>1, <3>2
  <2> QED
    BY <2>2, <2>3, <2>4, <2>5
<1> QED
  BY <1>1, <1>2

-----------------------------------------------------------------------------
(* What a change of the workspaces of one screen does to the frames. *)

\* The frames of all workspaces.
AllFrames(W) == UNION {UNION {Children(W[s][i]) : i \in DOMAIN W[s]} : s \in Screen}

\* A frame is once among the children of one workspace.
Sole(W) ==
  /\ \A s \in Screen : \A i \in DOMAIN W[s] : IsInjective(W[s][i].wins)
  /\ \A s, t \in Screen : \A i \in DOMAIN W[s], j \in DOMAIN W[t] :
       \A f : f \in Children(W[s][i]) /\ f \in Children(W[t][j]) => s = t /\ i = j

AllWs == [Screen -> Seq(Workspaces)]

LEMMA EachOnceIsSole ==
  ASSUME NEW W
  PROVE  (\A s, t \in Screen : \A i \in DOMAIN W[s], j \in DOMAIN W[t] :
            \A k \in DOMAIN W[s][i].wins, l \in DOMAIN W[t][j].wins :
              W[s][i].wins[k] = W[t][j].wins[l] => s = t /\ i = j /\ k = l)
         <=> Sole(W)
<1> DEFINE Once == \A s, t \in Screen : \A i \in DOMAIN W[s], j \in DOMAIN W[t] :
                     \A k \in DOMAIN W[s][i].wins, l \in DOMAIN W[t][j].wins :
                       W[s][i].wins[k] = W[t][j].wins[l] => s = t /\ i = j /\ k = l
<1>1. ASSUME Once PROVE Sole(W)
  <2>1. ASSUME NEW s \in Screen, NEW i \in DOMAIN W[s] PROVE IsInjective(W[s][i].wins)
    BY <1>1 DEF IsInjective
  <2>2. ASSUME NEW s \in Screen, NEW t \in Screen, NEW i \in DOMAIN W[s], NEW j \in DOMAIN W[t],
               NEW f, f \in Children(W[s][i]), f \in Children(W[t][j])
        PROVE  s = t /\ i = j
    <3>1. PICK k \in DOMAIN W[s][i].wins : W[s][i].wins[k] = f
      BY <2>2 DEF Children, ToSet
    <3>2. PICK l \in DOMAIN W[t][j].wins : W[t][j].wins[l] = f
      BY <2>2 DEF Children, ToSet
    <3> QED
      BY <1>1, <3>1, <3>2
  <2> QED
    BY <2>1, <2>2 DEF Sole
<1>2. ASSUME Sole(W) PROVE Once
  <2> SUFFICES ASSUME NEW s \in Screen, NEW t \in Screen, NEW i \in DOMAIN W[s], NEW j \in DOMAIN W[t],
                      NEW k \in DOMAIN W[s][i].wins, NEW l \in DOMAIN W[t][j].wins,
                      W[s][i].wins[k] = W[t][j].wins[l]
               PROVE  s = t /\ i = j /\ k = l
    OBVIOUS
  <2>1. W[s][i].wins[k] \in Children(W[s][i]) /\ W[t][j].wins[l] \in Children(W[t][j])
    BY DEF Children, ToSet
  <2>2. s = t /\ i = j
    BY <1>2, <2>1 DEF Sole
  <2>3. IsInjective(W[s][i].wins)
    BY <1>2 DEF Sole
  <2> QED
    BY <2>2, <2>3 DEF IsInjective
<1> QED
  BY <1>1, <1>2

LEMMA InAllFrames ==
  ASSUME NEW W, NEW f
  PROVE  f \in AllFrames(W) <=> \E s \in Screen : \E i \in DOMAIN W[s] : f \in Children(W[s][i])
BY DEF AllFrames

\* W and V are the workspaces before and after a step that changes those of screen s.
OnlyAt(W, V, s) == /\ W \in AllWs /\ V \in AllWs /\ s \in Screen /\ Sole(W)
                   /\ \A t \in Screen : t # s => V[t] = W[t]

LEMMA WorkspaceAppended ==
  ASSUME NEW W, NEW V, NEW s, OnlyAt(W, V, s),
         NEW w \in Workspaces, V[s] = Append(W[s], w), IsInjective(w.wins),
         \A f \in Children(w) : f \notin AllFrames(W)
  PROVE  Sole(V) /\ AllFrames(V) = AllFrames(W) \cup Children(w)
<1> DEFINE n == Len(W[s]) + 1
<1>1. /\ DOMAIN W[s] = 1..Len(W[s]) /\ Len(W[s]) \in Nat /\ DOMAIN V[s] = 1..n
      /\ V[s][n] = w /\ \A i \in DOMAIN W[s] : V[s][i] = W[s][i] /\ i # n
  <2>1. W[s] \in Seq(Workspaces)
    BY DEF OnlyAt, AllWs
  <2> QED
    BY <2>1, AppendFacts
<1> HIDE DEF n
<1>2. ASSUME NEW t \in Screen, NEW i \in DOMAIN V[t]
      PROVE  \/ t = s /\ i = n /\ V[t][i] = w
             \/ i \in DOMAIN W[t] /\ V[t][i] = W[t][i] /\ (t = s => i # n)
  <2>1. CASE t = s
    BY <1>1, <2>1 DEF n
  <2>2. CASE t # s
    BY <2>2 DEF OnlyAt
  <2> QED
    BY <2>1, <2>2
<1>3. ASSUME NEW t \in Screen, NEW i \in DOMAIN W[t] PROVE i \in DOMAIN V[t] /\ V[t][i] = W[t][i]
  <2>1. CASE t = s
    BY <1>1, <2>1 DEF n
  <2>2. CASE t # s
    BY <2>2 DEF OnlyAt
  <2> QED
    BY <2>1, <2>2
<1>4. \A t \in Screen : \A i \in DOMAIN V[t] : IsInjective(V[t][i].wins)
  BY <1>2 DEF OnlyAt, Sole
<1>5. ASSUME NEW t \in Screen, NEW u \in Screen, NEW i \in DOMAIN V[t], NEW j \in DOMAIN V[u],
             NEW f, f \in Children(V[t][i]), f \in Children(V[u][j])
      PROVE  t = u /\ i = j
  <2>1. CASE i \in DOMAIN W[t] /\ V[t][i] = W[t][i] /\ j \in DOMAIN W[u] /\ V[u][j] = W[u][j]
    <3>1. f \in Children(W[t][i]) /\ f \in Children(W[u][j])
      BY <1>5, <2>1
    <3>2. Sole(W)
      BY DEF OnlyAt
    <3> QED
      BY <2>1, <3>1, <3>2 DEF Sole
  <2>2. CASE V[t][i] = w /\ j \in DOMAIN W[u] /\ V[u][j] = W[u][j]
    BY <1>5, <2>2, InAllFrames
  <2>3. CASE V[u][j] = w /\ i \in DOMAIN W[t] /\ V[t][i] = W[t][i]
    BY <1>5, <2>3, InAllFrames
  <2> QED
    BY <1>2, <2>1, <2>2, <2>3
<1>6. ASSUME NEW f PROVE f \in AllFrames(V) <=> f \in AllFrames(W) \cup Children(w)
  <2>1. ASSUME f \in AllFrames(V) PROVE f \in AllFrames(W) \cup Children(w)
    BY <1>2, <2>1, InAllFrames
  <2>2. ASSUME f \in AllFrames(W) PROVE f \in AllFrames(V)
    BY <1>3, <2>2, InAllFrames
  <2>3. ASSUME f \in Children(w) PROVE f \in AllFrames(V)
    <3>1. s \in Screen /\ n \in DOMAIN V[s] /\ V[s][n] = w
      BY <1>1 DEF n, OnlyAt
    <3> QED
      BY <2>3, <3>1, InAllFrames
  <2> QED
    BY <2>1, <2>2, <2>3
<1> QED
  BY <1>4, <1>5, <1>6 DEF Sole

\* Where entry i of a sequence was before entry m was left out.
Passing(m, i) == IF i < m THEN i ELSE i + 1
Origin(s, m, t, i) == IF t = s THEN Passing(m, i) ELSE i

LEMMA WorkspaceLeft ==
  ASSUME NEW W, NEW V, NEW s, OnlyAt(W, V, s), NEW m \in DOMAIN W[s], LeftOut(W[s], m, V[s])
  PROVE  Sole(V) /\ AllFrames(V) = AllFrames(W) \ Children(W[s][m])
<1>1. /\ DOMAIN W[s] = 1..Len(W[s]) /\ Len(W[s]) \in Nat /\ DOMAIN V[s] = 1..Len(W[s]) - 1
      /\ m \in 1..Len(W[s])
  BY DEF OnlyAt, AllWs, LeftOut
<1>2. ASSUME NEW i \in DOMAIN V[s] PROVE Passing(m, i) \in DOMAIN W[s] /\ V[s][i] = W[s][Passing(m, i)] /\ Passing(m, i) # m
  BY <1>1 DEF LeftOut, Passing
<1>3. ASSUME NEW i \in DOMAIN V[s], NEW j \in DOMAIN V[s], Passing(m, i) = Passing(m, j) PROVE i = j
  BY <1>1, <1>3 DEF Passing
<1>4. ASSUME NEW j \in DOMAIN W[s], j # m PROVE \E i \in DOMAIN V[s] : Passing(m, i) = j
  <2>1. CASE j < m
    BY <1>1, <1>4, <2>1 DEF Passing
  <2>2. CASE ~(j < m)
    <3>1. j - 1 \in DOMAIN V[s] /\ ~(j - 1 < m) /\ (j - 1) + 1 = j
      BY <1>1, <1>4, <2>2
    <3> QED
      BY <3>1 DEF Passing
  <2> QED
    BY <2>1, <2>2
<1>5. ASSUME NEW t \in Screen, NEW i \in DOMAIN V[t]
      PROVE  /\ Origin(s, m, t, i) \in DOMAIN W[t] /\ V[t][i] = W[t][Origin(s, m, t, i)]
             /\ t = s => Origin(s, m, t, i) # m
  <2>1. CASE t = s
    BY <1>2, <2>1 DEF Origin
  <2>2. CASE t # s
    BY <2>2 DEF OnlyAt, Origin
  <2> QED
    BY <2>1, <2>2
<1>6. ASSUME NEW t \in Screen, NEW i \in DOMAIN V[t], NEW j \in DOMAIN V[t], Origin(s, m, t, i) = Origin(s, m, t, j)
      PROVE  i = j
  BY <1>3, <1>6 DEF Origin
<1>7. ASSUME NEW t \in Screen, NEW j \in DOMAIN W[t], t # s \/ j # m
      PROVE  \E i \in DOMAIN V[t] : Origin(s, m, t, i) = j
  <2>1. CASE t = s
    BY <1>4, <1>7, <2>1 DEF Origin
  <2>2. CASE t # s
    BY <1>7, <2>2 DEF OnlyAt, Origin
  <2> QED
    BY <2>1, <2>2
<1>8. \A t \in Screen : \A i \in DOMAIN V[t] : IsInjective(V[t][i].wins)
  BY <1>5 DEF OnlyAt, Sole
<1>9. ASSUME NEW t \in Screen, NEW u \in Screen, NEW i \in DOMAIN V[t], NEW j \in DOMAIN V[u],
             NEW f, f \in Children(V[t][i]), f \in Children(V[u][j])
      PROVE  t = u /\ i = j
  <2>0. /\ Origin(s, m, t, i) \in DOMAIN W[t] /\ f \in Children(W[t][Origin(s, m, t, i)])
        /\ Origin(s, m, u, j) \in DOMAIN W[u] /\ f \in Children(W[u][Origin(s, m, u, j)])
    BY <1>5, <1>9
  <2>1. t = u /\ Origin(s, m, t, i) = Origin(s, m, u, j)
    BY <2>0 DEF OnlyAt, Sole
  <2> QED
    BY <1>6, <2>1
<1>10. ASSUME NEW f PROVE f \in AllFrames(V) <=> f \in AllFrames(W) /\ f \notin Children(W[s][m])
  <2>1. ASSUME f \in AllFrames(V) PROVE f \in AllFrames(W) /\ f \notin Children(W[s][m])
    <3>0. PICK t \in Screen : \E i \in DOMAIN V[t] : f \in Children(V[t][i])
      BY <2>1, InAllFrames
    <3>1. PICK i \in DOMAIN V[t] : f \in Children(V[t][i])
      BY <3>0
    <3>2. Origin(s, m, t, i) \in DOMAIN W[t] /\ f \in Children(W[t][Origin(s, m, t, i)]) /\ (t = s => Origin(s, m, t, i) # m)
      BY <1>5, <3>1
    <3>3. f \in AllFrames(W)
      BY <3>2, InAllFrames
    <3>4. s \in Screen /\ Sole(W)
      BY DEF OnlyAt
    <3> QED
      BY <3>2, <3>3, <3>4 DEF Sole
  <2>2. ASSUME f \in AllFrames(W), f \notin Children(W[s][m]) PROVE f \in AllFrames(V)
    <3>0. PICK t \in Screen : \E j \in DOMAIN W[t] : f \in Children(W[t][j])
      BY <2>2, InAllFrames
    <3>1. PICK j \in DOMAIN W[t] : f \in Children(W[t][j])
      BY <3>0
    <3>2. PICK i \in DOMAIN V[t] : Origin(s, m, t, i) = j
      BY <1>7, <2>2, <3>1
    <3>3. f \in Children(V[t][i])
      BY <1>5, <3>1, <3>2
    <3> QED
      BY <3>3, InAllFrames
  <2> QED
    BY <2>1, <2>2
<1> QED
  BY <1>8, <1>9, <1>10 DEF Sole

LEMMA SoleAt ==
  ASSUME NEW W, Sole(W), NEW t \in Screen, NEW u \in Screen, NEW i \in DOMAIN W[t], NEW j \in DOMAIN W[u],
         NEW f, f \in Children(W[t][i]), f \in Children(W[u][j])
  PROVE  t = u /\ i = j
BY DEF Sole

\* Workspace m of screen s becomes w.
ChangedTo(W, V, s, m, w) ==
  /\ OnlyAt(W, V, s) /\ m \in DOMAIN W[s] /\ w \in Workspaces /\ V[s] = [W[s] EXCEPT ![m] = w]
  /\ IsInjective(w.wins) /\ \A f \in Children(w) : f \in AllFrames(W) => f \in Children(W[s][m])

Changed(W, V, s, m, w) ==
  Sole(V) /\ AllFrames(V) = (AllFrames(W) \ Children(W[s][m])) \cup Children(w)

LEMMA WorkspaceChanged ==
  ASSUME NEW W, NEW V, NEW s, NEW m, NEW w, ChangedTo(W, V, s, m, w)
  PROVE  Changed(W, V, s, m, w)
<1> USE DEF ChangedTo
<1>1. ASSUME NEW t \in Screen
      PROVE  /\ DOMAIN V[t] = DOMAIN W[t]
             /\ \A i \in DOMAIN V[t] : V[t][i] = IF t = s /\ i = m THEN w ELSE W[t][i]
  <2>1. CASE t = s
    BY <2>1
  <2>2. CASE t # s
    BY <2>2 DEF OnlyAt
  <2> QED
    BY <2>1, <2>2
<1>0. s \in Screen /\ Sole(W)
  BY DEF OnlyAt
<1>2. \A t \in Screen : \A i \in DOMAIN V[t] : IsInjective(V[t][i].wins)
  BY <1>0, <1>1 DEF Sole
<1>3. ASSUME NEW t \in Screen, NEW u \in Screen, NEW i \in DOMAIN V[t], NEW j \in DOMAIN V[u],
             NEW f, f \in Children(V[t][i]), f \in Children(V[u][j])
      PROVE  t = u /\ i = j
  <2>0. /\ i \in DOMAIN W[t] /\ V[t][i] = IF t = s /\ i = m THEN w ELSE W[t][i]
        /\ j \in DOMAIN W[u] /\ V[u][j] = IF u = s /\ j = m THEN w ELSE W[u][j]
    BY <1>1
  <2>1. CASE ~(t = s /\ i = m) /\ ~(u = s /\ j = m)
    <3>0. V[t][i] = W[t][i] /\ V[u][j] = W[u][j]
      BY <2>0, <2>1
    <3>1. f \in Children(W[t][i]) /\ f \in Children(W[u][j])
      BY <1>3, <3>0
    <3>2. i \in DOMAIN W[t] /\ j \in DOMAIN W[u]
      BY <2>0
    <3> QED
      BY <1>0, <3>1, <3>2, SoleAt
  <2>2. CASE (t = s /\ i = m) /\ ~(u = s /\ j = m)
    <3>1. f \in Children(w) /\ f \in Children(W[u][j])
      BY <1>3, <2>0, <2>2
    <3>2. f \in AllFrames(W)
      BY <2>0, <3>1, InAllFrames
    <3>3. f \in Children(W[s][m])
      BY <3>1, <3>2
    <3> QED
      BY <1>0, <2>0, <2>2, <3>1, <3>3, SMTT(30) DEF Sole
  <2>3. CASE ~(t = s /\ i = m) /\ (u = s /\ j = m)
    <3>1. f \in Children(w) /\ f \in Children(W[t][i])
      BY <1>3, <2>0, <2>3
    <3>2. f \in AllFrames(W)
      BY <2>0, <3>1, InAllFrames
    <3>3. f \in Children(W[s][m])
      BY <3>1, <3>2
    <3> QED
      BY <1>0, <2>0, <2>3, <3>1, <3>3, SMTT(30) DEF Sole
  <2> QED
    BY <2>1, <2>2, <2>3
<1>4. ASSUME NEW f
      PROVE  f \in AllFrames(V) <=> (f \in AllFrames(W) /\ f \notin Children(W[s][m])) \/ f \in Children(w)
  <2>1. ASSUME f \in AllFrames(V), f \notin Children(w)
        PROVE  f \in AllFrames(W) /\ f \notin Children(W[s][m])
    <3>0. PICK t \in Screen : \E i \in DOMAIN V[t] : f \in Children(V[t][i])
      BY <2>1, InAllFrames
    <3>1. PICK i \in DOMAIN V[t] : f \in Children(V[t][i])
      BY <3>0
    <3>2. i \in DOMAIN W[t] /\ ~(t = s /\ i = m) /\ f \in Children(W[t][i])
      BY <1>1, <2>1, <3>1
    <3>3. f \in AllFrames(W)
      BY <3>2, InAllFrames
    <3> QED
      BY <1>0, <3>2, <3>3 DEF Sole
  <2>2. ASSUME f \in AllFrames(W), f \notin Children(W[s][m]) PROVE f \in AllFrames(V)
    <3>0. PICK t \in Screen : \E i \in DOMAIN W[t] : f \in Children(W[t][i])
      BY <2>2, InAllFrames
    <3>1. PICK i \in DOMAIN W[t] : f \in Children(W[t][i])
      BY <3>0
    <3>2. i \in DOMAIN V[t] /\ V[t][i] = W[t][i]
      BY <1>1, <2>2, <3>1
    <3> QED
      BY <3>1, <3>2, InAllFrames
  <2>3. ASSUME f \in Children(w) PROVE f \in AllFrames(V)
    <3>1. m \in DOMAIN V[s] /\ V[s][m] = w
      BY <1>0, <1>1
    <3> QED
      BY <1>0, <2>3, <3>1, InAllFrames
  <2> QED
    BY <2>1, <2>2, <2>3
<1> QED
  BY <1>2, <1>3, <1>4 DEF Sole, Changed

-----------------------------------------------------------------------------
(* What the operations on ids do to the frames that are there. *)

\* reorder_frame_ids leaves the ids that it does not count.
LEMMA RenumberedKeeps ==
  ASSUME NEW ids \in [Frame -> 0 .. INT_MAX], NEW place, OneByOne(ids, place), NEW f \in Frame,
         f \notin Counted(Renumbered(ids, place))
  PROVE  Renumbered(ids, place)[f] = ids[f]
<1>0. FRAME_ID_START_CLIENT \in Nat
  BY FrameIdsAssumption
<1>1. ASSUME f \in Counted(ids) PROVE FALSE
  <2>1. Renumbered(ids, place)[f] = FRAME_ID_START_CLIENT + Cardinality(UpTo(ids, place, f))
    BY <1>1 DEF Renumbered
  <2>2. Cardinality(UpTo(ids, place, f)) \in 1 .. Cardinality(Counted(ids))
    BY <1>1, NumberInWalk
  <2>3. Cardinality(Counted(ids)) \in Int
    BY CountedFinite
  <2>4. Renumbered(ids, place)[f] >= FRAME_ID_START_CLIENT
    BY <1>0, <2>1, <2>2, <2>3
  <2> QED
    BY <2>4 DEF Counted
<1> QED
  BY <1>1 DEF Renumbered

\* The ids change from a to b, only that of f and those of the counted frames do.
OthersKeep(a, b, f) == \A g \in Frame \ {f} : (a[g] = 0 <=> b[g] = 0) /\ (g \notin Counted(b) => b[g] = a[g])
OthersSame(a, b, f) == \A g \in Frame \ {f} : b[g] = a[g]

LEMMA NewFromEffect ==
  ASSUME IdsInv, NEW cntr \in FRAME_ID_START_CLIENT .. INT_MAX,
         NEW f \in Frame, NEW place \in Walk, NewFrameIdFrom(cntr, f, place)
  PROVE  /\ frame_id[f] = 0 /\ frame_id'[f] # 0 /\ OthersKeep(frame_id, frame_id', f)
         /\ ~ReorderIsDue(cntr) => OthersSame(frame_id, frame_id', f)
<1> DEFINE base == IF ReorderIsDue(cntr) THEN Renumbered(frame_id, place) ELSE frame_id
           last == IF ReorderIsDue(cntr) THEN Recounted(frame_id) ELSE cntr
<1>0. FRAME_ID_START_CLIENT \in Nat \ {0} /\ INT_MAX \in Nat
  BY FrameIdsAssumption
<1>1. frame_id \in [Frame -> 0 .. INT_MAX] /\ Distinct(frame_id)
  BY DistinctIsIdsDistinct DEF IdsInv, IdsType
<1>2. OneByOne(frame_id, place)
  BY WalkIsOneByOne, CountedIsLive
<1>3. base \in [Frame -> 0 .. INT_MAX] /\ \A g \in Frame : base[g] = 0 <=> frame_id[g] = 0
  BY <1>1, <1>2, RenumberedDistinct
<1>4. \A g \in Frame : g \notin Counted(base) => base[g] = frame_id[g]
  BY <1>1, <1>2, RenumberedKeeps
<1>5. last \in FRAME_ID_START_CLIENT .. INT_MAX
  BY RecountedType
<1>6. frame_id' = [base EXCEPT ![f] = last + 1] /\ f \notin Live
  BY DEF NewFrameIdFrom
<1>7. ~ReorderIsDue(cntr) => base = frame_id
  OBVIOUS
<1> HIDE DEF base, last
<1>8. \A g \in Frame : frame_id'[g] = IF g = f THEN last + 1 ELSE base[g]
  BY <1>3, <1>6
<1>9. frame_id[f] = 0 /\ frame_id'[f] # 0
  BY <1>0, <1>5, <1>6, <1>8 DEF Live
<1>10. OthersKeep(frame_id, frame_id', f)
  BY <1>3, <1>4, <1>8 DEF OthersKeep, Counted
<1> QED
  BY <1>7, <1>8, <1>9, <1>10 DEF OthersSame

\* init_frame: f was not there, and is.
LEMMA InitFrameIdEffect ==
  ASSUME IdsInv, NEW id \in 0 .. INT_MAX, NEW f \in Frame, NEW place \in Walk, InitFrameId(f, id, place)
  PROVE  /\ IdsInv' /\ f \notin Live /\ Live' = Live \cup {f}
         /\ OthersKeep(frame_id, frame_id', f)
         /\ ~InitReorders(id) => OthersSame(frame_id, frame_id', f)
<1>0. FRAME_ID_START_CLIENT \in Nat \ {0} /\ INT_MAX \in Nat /\ frame_id_cntr \in FRAME_ID_START_CLIENT .. INT_MAX
  BY FrameIdsAssumption DEF IdsInv, IdsType
<1>1. /\ CounterAfter(id) \in FRAME_ID_START_CLIENT .. INT_MAX
      /\ frame_id_cntr <= CounterAfter(id) /\ id <= CounterAfter(id)
  BY <1>0, CounterAfterType
<1>2. ASSUME frame_id[f] = 0, frame_id'[f] # 0, OthersKeep(frame_id, frame_id', f)
      PROVE  f \notin Live /\ Live' = Live \cup {f}
  BY <1>2 DEF Live, OthersKeep
<1>3. CASE id = 0
  <2>1. NewFrameIdFrom(frame_id_cntr, f, place) /\ CounterAfter(id) = frame_id_cntr
    BY <1>0, <1>3 DEF InitFrameId, NewFrameId, CounterAfter
  <2>2. IdsInv'
    BY <1>0, <2>1, NewFrameIdInv
  <2> QED
    BY <1>0, <1>2, <1>3, <2>1, <2>2, NewFromEffect DEF InitReorders
<1>4. CASE id # 0 /\ FindFrameById(id) # {}
  <2>1. NewFrameIdFrom(CounterAfter(id), f, place)
    BY <1>4 DEF InitFrameId, UseFrameId
  <2>2. IdsInv'
    BY <1>1, <2>1, NewFrameIdInv
  <2> QED
    BY <1>1, <1>2, <1>4, <2>1, <2>2, NewFromEffect DEF InitReorders
<1>5. CASE id # 0 /\ FindFrameById(id) = {}
  <2>1. UseFrameId(f, id, place) /\ f \notin Live /\ frame_id' = [frame_id EXCEPT ![f] = id]
    BY <1>5 DEF InitFrameId, UseFrameId
  <2>2. IdsInv'
    BY <1>5, <2>1, UseFrameIdInv
  <2>3. frame_id \in [Frame -> 0 .. INT_MAX]
    BY DEF IdsInv, IdsType
  <2>4. \A g \in Frame : frame_id'[g] = IF g = f THEN id ELSE frame_id[g]
    BY <2>1, <2>3
  <2>5. OthersKeep(frame_id, frame_id', f) /\ OthersSame(frame_id, frame_id', f)
    BY <2>4 DEF OthersKeep, OthersSame
  <2> QED
    BY <1>2, <1>5, <2>1, <2>2, <2>4, <2>5 DEF Live
<1> QED
  BY <1>3, <1>4, <1>5

\* free_frame_id: f was there, and is not.
LEMMA FreeFrameIdEffect ==
  ASSUME IdsInv, NEW f \in Frame, NEW place \in Walk, FreeFrameId(f, place)
  PROVE  /\ IdsInv' /\ f \in Live /\ Live' = Live \ {f}
         /\ OthersKeep(frame_id, frame_id', f)
         /\ frame_id_cntr < INT_MAX => OthersSame(frame_id, frame_id', f)
<1> DEFINE left == [frame_id EXCEPT ![f] = 0]
<1>0. INT_MAX \in Nat /\ frame_id_cntr \in Int /\ frame_id \in [Frame -> 0 .. INT_MAX] /\ Distinct(frame_id)
  BY FrameIdsAssumption, DistinctIsIdsDistinct DEF IdsInv, IdsType
<1>1. left \in [Frame -> 0 .. INT_MAX]
  BY <1>0
<1>2. \A g \in Frame : left[g] = IF g = f THEN 0 ELSE frame_id[g]
  BY <1>0
<1>3. Distinct(left)
  BY <1>0, <1>2 DEF Distinct
<1>4. OneByOne(left, place)
  BY <1>0, WalkIsOneByOne, CountedIsLive
<1>5. /\ frame_id_cntr = INT_MAX => frame_id' = Renumbered(left, place)
      /\ frame_id_cntr # INT_MAX => frame_id' = left
      /\ f \in Live
  BY DEF FreeFrameId
<1> HIDE DEF left
<1>6. \A g \in Frame : (frame_id'[g] = 0 <=> left[g] = 0) /\ (g \notin Counted(frame_id') => frame_id'[g] = left[g])
  BY <1>1, <1>3, <1>4, <1>5, RenumberedDistinct, RenumberedKeeps
<1>7. OthersKeep(frame_id, frame_id', f) /\ frame_id'[f] = 0
  BY <1>2, <1>6 DEF OthersKeep
<1>8. Live' = Live \ {f}
  BY <1>7 DEF Live, OthersKeep
<1>9. frame_id_cntr < INT_MAX => OthersSame(frame_id, frame_id', f)
  BY <1>0, <1>2, <1>5 DEF OthersSame
<1> QED
  BY <1>5, <1>7, <1>8, <1>9, FreeFrameIdInv

LEMMA RestartEffect == Restart => IdsInv' /\ Live' = {}
BY RestartInv DEF Restart, Live

-----------------------------------------------------------------------------
(* The sections that are open while a file is read. *)

OpenTrees == [tl : Trees, br : Trees]

\* The sides of a split have room in it; each is missing or has no side that is.
SidesOk(o, n) ==
  /\ o.tl \in TreesOf[n] /\ o.br \in TreesOf[n]
  /\ (o.tl # NULL => Proper(o.tl)) /\ (o.br # NULL => Proper(o.br))
  /\ o.tl = NULL => o.br = NULL

SidesLeaves(o) == Leaves(o.tl) \cup Leaves(o.br)

\* Each section but the last has a place left for the one that is open in it.
OpenOk(open) ==
  /\ open \in Seq(OpenTrees) /\ Len(open) <= MaxDepth + 1
  /\ \A d \in DOMAIN open :
       /\ SidesOk(open[d], MaxDepth + 1 - d)
       /\ d < Len(open) => IF d = 1 THEN open[d].tl = NULL ELSE open[d].br = NULL
  /\ open # <<>> => open[1].br = NULL

\* The frames that the workspace has so far.
FoundIn(open) == UNION {SidesLeaves(open[d]) : d \in DOMAIN open}

FullIn(open) == LET o == open[Len(open)] IN (IF Len(open) = 1 THEN o.tl ELSE o.br) # NULL

LEMMA NullIsTree ==
  /\ \A n \in 0 .. MaxDepth : NULL \in TreesOf[n]
  /\ NULL \in Trees /\ Leaves(NULL) = {}
<1>1. NULL \in Atoms
  BY DEF Atoms
<1>2. NULL \in Trees /\ \A n \in 0 .. MaxDepth : NULL \in TreesOf[n]
  BY <1>1, AtomsAreTrees
<1> QED
  BY <1>2, NoTips DEF Leaves

LEMMA LastOpen ==
  ASSUME NEW open, OpenOk(open), open # <<>>
  PROVE  /\ Len(open) \in DOMAIN open /\ Len(open) \in 1 .. MaxDepth + 1
         /\ MaxDepth + 1 - Len(open) \in 0 .. MaxDepth
         /\ open[Len(open)] \in OpenTrees /\ SidesOk(open[Len(open)], MaxDepth + 1 - Len(open))
<1>1. open \in Seq(OpenTrees) /\ Len(open) <= MaxDepth + 1 /\ MaxDepth \in Nat
  BY SessionAssumption DEF OpenOk
<1>2. Len(open) \in Nat /\ Len(open) # 0 /\ DOMAIN open = 1..Len(open)
  BY <1>1
<1>3. Len(open) \in DOMAIN open /\ open[Len(open)] \in OpenTrees
  BY <1>1, <1>2
<1> QED
  BY <1>1, <1>2, <1>3 DEF OpenOk

LEMMA OpenTreeIs ==
  ASSUME NEW o \in OpenTrees
  PROVE  o = [tl |-> o.tl, br |-> o.br] /\ o.tl \in Trees /\ o.br \in Trees
BY DEF OpenTrees

\* A section opens within the last one.
LEMMA OpenedOk ==
  ASSUME NEW open, OpenOk(open), open = <<>> \/ (~FullIn(open) /\ Len(open) <= MaxDepth)
  PROVE  OpenOk(Append(open, Node)) /\ FoundIn(Append(open, Node)) = FoundIn(open)
<1> DEFINE more == Append(open, Node)
           n == Len(open)
<1>1. MaxDepth \in Nat /\ open \in Seq(OpenTrees) /\ n \in Nat /\ DOMAIN open = 1..n
  BY SessionAssumption DEF OpenOk
<1>2. Node \in OpenTrees /\ Node.tl = NULL /\ Node.br = NULL
  BY NullIsTree DEF OpenTrees, Node
<1>3. /\ more \in Seq(OpenTrees) /\ Len(more) = n + 1 /\ DOMAIN more = 1..n + 1
      /\ \A d \in 1..n + 1 : more[d] = IF d = n + 1 THEN Node ELSE open[d]
  BY <1>1, <1>2, AppendFacts
<1>4. n + 1 <= MaxDepth + 1
  <2>1. CASE open = <<>>
    BY <1>1, <2>1
  <2>2. CASE open # <<>>
    BY <1>1, <2>2
  <2> QED
    BY <2>1, <2>2
<1> HIDE DEF more
<1>5. SidesOk(Node, MaxDepth + 1 - (n + 1))
  <2>1. MaxDepth + 1 - (n + 1) \in 0 .. MaxDepth
    BY <1>1, <1>4
  <2>2. NULL \in TreesOf[MaxDepth + 1 - (n + 1)]
    BY <2>1, NullIsTree
  <2> QED
    BY <1>2, <2>2 DEF SidesOk
<1>6. SidesLeaves(Node) = {}
  BY <1>2, NullIsTree DEF SidesLeaves
<1>7. n > 0 => IF n = 1 THEN open[n].tl = NULL ELSE open[n].br = NULL
  BY <1>1 DEF FullIn
<1>8. ASSUME NEW d \in 1..n + 1
      PROVE  /\ SidesOk(more[d], MaxDepth + 1 - d)
             /\ d < n + 1 => IF d = 1 THEN more[d].tl = NULL ELSE more[d].br = NULL
  <2>1. CASE d = n + 1
    BY <1>3, <1>5, <2>1
  <2>2. CASE d # n + 1
    <3>1. d \in DOMAIN open /\ more[d] = open[d]
      BY <1>1, <1>3, <2>2
    <3>2. SidesOk(open[d], MaxDepth + 1 - d) /\ (d < n => IF d = 1 THEN open[d].tl = NULL ELSE open[d].br = NULL)
      BY <3>1 DEF OpenOk
    <3>3. d < n \/ (d = n /\ n > 0)
      BY <1>1, <3>1
    <3> QED
      BY <1>7, <3>1, <3>2, <3>3
  <2> QED
    BY <2>1, <2>2
<1>9. more[1].br = NULL
  <2>1. CASE n = 0
    BY <1>2, <1>3, <2>1
  <2>2. CASE n # 0
    <3>1. more[1] = open[1] /\ open # <<>>
      BY <1>1, <1>3, <2>2
    <3> QED
      BY <3>1 DEF OpenOk
  <2> QED
    BY <2>1, <2>2
<1>10. OpenOk(more)
  BY <1>3, <1>4, <1>8, <1>9 DEF OpenOk
<1>11. ASSUME NEW f PROVE f \in FoundIn(more) <=> f \in FoundIn(open)
  <2>1. f \in FoundIn(more) <=> \E d \in 1..n + 1 : f \in SidesLeaves(more[d])
    BY <1>3 DEF FoundIn
  <2>2. f \in FoundIn(open) <=> \E d \in 1..n : f \in SidesLeaves(open[d])
    BY <1>1 DEF FoundIn
  <2>3. \A d \in 1..n + 1 : f \in SidesLeaves(more[d]) => d \in 1..n /\ more[d] = open[d]
    BY <1>1, <1>3, <1>6
  <2>4. \A d \in 1..n : d \in 1..n + 1 /\ more[d] = open[d]
    BY <1>1, <1>3
  <2> QED
    BY <2>1, <2>2, <2>3, <2>4
<1>12. FoundIn(more) = FoundIn(open)
  BY <1>11
<1> QED
  BY <1>10, <1>12 DEF more

\* What Put makes of the last section.
LastPut(open, tree) ==
  LET o == open[Len(open)] IN
  IF Len(open) > 1 /\ o.tl # NULL THEN [tl |-> o.tl, br |-> tree] ELSE [tl |-> tree, br |-> o.br]

LEMMA LastPutOk ==
  ASSUME NEW open, OpenOk(open), open # <<>>, ~FullIn(open),
         NEW tree \in TreesOf[MaxDepth + 1 - Len(open)], tree # NULL, Proper(tree)
  PROVE  /\ LastPut(open, tree) \in OpenTrees /\ SidesOk(LastPut(open, tree), MaxDepth + 1 - Len(open))
         /\ SidesLeaves(LastPut(open, tree)) = SidesLeaves(open[Len(open)]) \cup Leaves(tree)
         /\ Len(open) = 1 => LastPut(open, tree).br = NULL
<1> DEFINE o == open[Len(open)]
           n == MaxDepth + 1 - Len(open)
<1>1. o \in OpenTrees /\ SidesOk(o, n) /\ n \in 0 .. MaxDepth /\ Len(open) \in 1 .. MaxDepth + 1 /\ MaxDepth \in Nat
  BY LastOpen, SessionAssumption
<1>2. tree \in Trees /\ TreesOf[n] \subseteq Trees
  <2>1. n \in 0 .. n
    BY <1>1
  <2> QED
    BY <1>1, <2>1, TreesGrow
<1>3. IF Len(open) = 1 THEN o.tl = NULL ELSE o.br = NULL
  BY DEF FullIn
<1>4. Len(open) = 1 => o.br = NULL
  BY DEF OpenOk
<1>5. Leaves(NULL) = {}
  BY NullIsTree
<1> HIDE DEF n
<1>6. CASE Len(open) > 1 /\ o.tl # NULL
  <2>1. LastPut(open, tree) = [tl |-> o.tl, br |-> tree] /\ o.br = NULL
    BY <1>1, <1>3, <1>6 DEF LastPut
  <2> HIDE DEF o
  <2> QED
    BY <1>1, <1>2, <1>5, <1>6, <2>1 DEF SidesOk, SidesLeaves, OpenTrees, n, o
<1>7. CASE ~(Len(open) > 1 /\ o.tl # NULL)
  <2>0. LastPut(open, tree) = [tl |-> tree, br |-> o.br]
    BY <1>7 DEF LastPut
  <2>1. LastPut(open, tree) = [tl |-> tree, br |-> o.br] /\ o.tl = NULL /\ o.br = NULL
    <3>1. CASE Len(open) = 1
      BY <1>3, <1>4, <2>0, <3>1
    <3>2. CASE Len(open) # 1
      <4>1. Len(open) > 1
        BY <1>1, <3>2
      <4>2. o.tl = NULL /\ o.br = NULL
        BY <1>3, <1>7, <3>2, <4>1
      <4> QED
        BY <2>0, <4>2
    <3> QED
      BY <3>1, <3>2
  <2> HIDE DEF o
  <2> QED
    BY <1>1, <1>2, <1>5, <1>7, <2>1 DEF SidesOk, SidesLeaves, OpenTrees, n, o
<1> QED
  BY <1>6, <1>7

LEMMA PutIs ==
  ASSUME NEW open, OpenOk(open), open # <<>>, NEW tree
  PROVE  Put(open, tree) = [open EXCEPT ![Len(open)] = LastPut(open, tree)]
<1> DEFINE o == open[Len(open)]
<1>1. o = [tl |-> o.tl, br |-> o.br]
  BY LastOpen, OpenTreeIs
<1>2. [o EXCEPT !.br = tree] = [tl |-> o.tl, br |-> tree] /\ [o EXCEPT !.tl = tree] = [tl |-> tree, br |-> o.br]
  BY <1>1
<1> QED
  BY <1>2 DEF Put, LastPut

\* A tree is put into the last section.
LEMMA PutOk ==
  ASSUME NEW open, OpenOk(open), open # <<>>, ~FullIn(open),
         NEW tree \in TreesOf[MaxDepth + 1 - Len(open)], tree # NULL, Proper(tree)
  PROVE  OpenOk(Put(open, tree)) /\ FoundIn(Put(open, tree)) = FoundIn(open) \cup Leaves(tree)
<1> DEFINE new == Put(open, tree)
           last == LastPut(open, tree)
           n == Len(open)
<1>1. open \in Seq(OpenTrees) /\ n \in DOMAIN open /\ n \in Nat /\ DOMAIN open = 1..n /\ n <= MaxDepth + 1
  <2>1. open \in Seq(OpenTrees) /\ n <= MaxDepth + 1
    BY DEF OpenOk
  <2> QED
    BY <2>1, LastOpen
<1>2. /\ last \in OpenTrees /\ SidesOk(last, MaxDepth + 1 - n)
      /\ SidesLeaves(last) = SidesLeaves(open[n]) \cup Leaves(tree)
      /\ n = 1 => last.br = NULL
  BY LastPutOk
<1>3. new = [open EXCEPT ![n] = last]
  BY PutIs
<1> HIDE DEF new, last
<1>4. /\ new \in Seq(OpenTrees) /\ Len(new) = n /\ DOMAIN new = 1..n
      /\ \A d \in 1..n : new[d] = IF d = n THEN last ELSE open[d]
  BY <1>1, <1>2, <1>3
<1>5. ASSUME NEW d \in 1..n
      PROVE  /\ SidesOk(new[d], MaxDepth + 1 - d)
             /\ d < n => IF d = 1 THEN new[d].tl = NULL ELSE new[d].br = NULL
  <2>1. CASE d = n
    BY <1>2, <1>4, <2>1
  <2>2. CASE d # n
    <3>1. d \in DOMAIN open /\ new[d] = open[d]
      BY <1>1, <1>4, <2>2
    <3> QED
      BY <3>1 DEF OpenOk
  <2> QED
    BY <2>1, <2>2
<1>6. new[1].br = NULL
  <2>1. CASE n = 1
    BY <1>2, <1>4, <2>1
  <2>2. CASE n # 1
    <3>1. open[1].br = NULL
      BY DEF OpenOk
    <3>2. 1 \in 1..n /\ 1 # n
      BY <1>1, <2>2
    <3>3. new[1] = open[1]
      BY <1>4, <3>2
    <3> QED
      BY <3>1, <3>3
  <2> QED
    BY <2>1, <2>2
<1>7. OpenOk(new)
  BY <1>1, <1>4, <1>5, <1>6 DEF OpenOk
<1>8. ASSUME NEW f PROVE f \in FoundIn(new) <=> f \in FoundIn(open) \cup Leaves(tree)
  <2>1. f \in FoundIn(new) <=> \E d \in 1..n : f \in SidesLeaves(new[d])
    BY <1>4 DEF FoundIn
  <2>2. f \in FoundIn(open) <=> \E d \in 1..n : f \in SidesLeaves(open[d])
    BY <1>1 DEF FoundIn
  <2>3. \A d \in 1..n : f \in SidesLeaves(new[d]) <=> (f \in SidesLeaves(open[d]) \/ (d = n /\ f \in Leaves(tree)))
    BY <1>2, <1>4
  <2> QED
    BY <1>1, <2>1, <2>2, <2>3
<1>9. FoundIn(new) = FoundIn(open) \cup Leaves(tree)
  BY <1>8
<1> QED
  BY <1>7, <1>9 DEF new

\* The last section ends.
LEMMA ClosedOk ==
  ASSUME NEW open, OpenOk(open), open # <<>>
  PROVE  LET rest == SubSeq(open, 1, Len(open) - 1)
             n    == MaxDepth + 1 - Len(open)
         IN  /\ OpenOk(rest) /\ Len(rest) = Len(open) - 1
             /\ rest # <<>> => ~FullIn(rest)
             /\ FoundIn(open) = FoundIn(rest) \cup SidesLeaves(open[Len(open)])
<1> DEFINE rest == SubSeq(open, 1, Len(open) - 1)
           n == Len(open)
<1>1. open \in Seq(OpenTrees) /\ n \in DOMAIN open /\ n \in Nat \ {0} /\ DOMAIN open = 1..n /\ n <= MaxDepth + 1
  <2>1. open \in Seq(OpenTrees) /\ n <= MaxDepth + 1
    BY DEF OpenOk
  <2> QED
    BY <2>1, LastOpen
<1>2. /\ rest \in Seq(OpenTrees) /\ Len(rest) = n - 1 /\ DOMAIN rest = 1..n - 1
      /\ \A d \in 1..n - 1 : rest[d] = open[d]
  BY <1>1
<1> HIDE DEF rest
<1>3. ASSUME NEW d \in 1..n - 1
      PROVE  /\ SidesOk(rest[d], MaxDepth + 1 - d)
             /\ IF d = 1 THEN rest[d].tl = NULL ELSE rest[d].br = NULL
  <2>1. d \in DOMAIN open /\ d < Len(open) /\ rest[d] = open[d]
    BY <1>1, <1>2
  <2> QED
    BY <2>1 DEF OpenOk
<1>4. rest # <<>> => rest[1].br = NULL
  <2>1. rest # <<>> => rest[1] = open[1]
    BY <1>1, <1>2
  <2> QED
    BY <2>1 DEF OpenOk
<1>5. MaxDepth \in Nat
  BY SessionAssumption
<1>6. OpenOk(rest)
  BY <1>1, <1>2, <1>3, <1>4, <1>5 DEF OpenOk
<1>7. rest # <<>> => ~FullIn(rest)
  <2> SUFFICES ASSUME rest # <<>> PROVE ~FullIn(rest)
    OBVIOUS
  <2>1. Len(rest) \in 1..n - 1
    BY <1>2
  <2>2. IF Len(rest) = 1 THEN rest[Len(rest)].tl = NULL ELSE rest[Len(rest)].br = NULL
    BY <1>3, <2>1
  <2> QED
    BY <2>2 DEF FullIn
<1>8. ASSUME NEW f PROVE f \in FoundIn(open) <=> f \in FoundIn(rest) \cup SidesLeaves(open[n])
  <2>1. f \in FoundIn(rest) <=> \E d \in 1..n - 1 : f \in SidesLeaves(open[d])
    BY <1>2 DEF FoundIn
  <2>2. f \in FoundIn(open) <=> \E d \in 1..n : f \in SidesLeaves(open[d])
    BY <1>1 DEF FoundIn
  <2>3. 1..n = (1..n - 1) \cup {n}
    BY <1>1
  <2> QED
    BY <2>1, <2>2, <2>3
<1>9. FoundIn(open) = FoundIn(rest) \cup SidesLeaves(open[n])
  BY <1>8
<1> QED
  BY <1>2, <1>6, <1>7, <1>9 DEF rest

\* What is left of a split that ends is a tree for the section around it.
LEMMA KeptOk ==
  ASSUME NEW open, OpenOk(open), Len(open) > 1
  PROVE  LET o == open[Len(open)] IN
         /\ KeptOf(o) \in TreesOf[MaxDepth + 1 - (Len(open) - 1)]
         /\ KeptOf(o) # NULL => Proper(KeptOf(o))
         /\ Leaves(KeptOf(o)) = SidesLeaves(o)
<1> DEFINE o == open[Len(open)]
           n == MaxDepth + 1 - (Len(open) - 1)
<1>1. open # <<>>
  OBVIOUS
<1>2. /\ o \in OpenTrees /\ SidesOk(o, MaxDepth + 1 - Len(open)) /\ Len(open) \in 1 .. MaxDepth + 1
      /\ MaxDepth \in Nat /\ o = [tl |-> o.tl, br |-> o.br]
  BY <1>1, LastOpen, OpenTreeIs, SessionAssumption
<1>3. n \in 0 .. MaxDepth /\ n > 0 /\ n - 1 = MaxDepth + 1 - Len(open) /\ n - 1 \in 0 .. n
  BY <1>2
<1>4. o.tl \in TreesOf[n - 1] /\ o.br \in TreesOf[n - 1]
  BY <1>2, <1>3 DEF SidesOk
<1> HIDE DEF n
<1>5. TreesOf[n - 1] \subseteq TreesOf[n]
  BY <1>3, TreesGrow
<1>6. CASE o.br # NULL
  <2>1. KeptOf(o) = o /\ o.tl # NULL /\ Proper(o.tl) /\ Proper(o.br)
    BY <1>2, <1>6 DEF KeptOf, SidesOk
  <2>2. o \in TreesOf[n] /\ Tips[o] = Tips[o.tl] \cup Tips[o.br]
    <3>1. [tl |-> o.tl, br |-> o.br] \in TreesOf[n] /\ Tips[[tl |-> o.tl, br |-> o.br]] = Tips[o.tl] \cup Tips[o.br]
      BY <1>3, <1>4, SplitOfTrees, TipsOfSplit
    <3> QED
      BY <1>2, <3>1
  <2> HIDE DEF o
  <2> QED
    BY <2>1, <2>2 DEF Proper, Leaves, SidesLeaves, n, o
<1>7. CASE o.br = NULL
  <2>1. KeptOf(o) = o.tl /\ (o.tl # NULL => Proper(o.tl))
    BY <1>2, <1>7 DEF KeptOf, SidesOk
  <2>2. Leaves(o.br) = {}
    BY <1>7, NullIsTree
  <2>3. KeptOf(o) \in TreesOf[n]
    BY <1>4, <1>5, <2>1
  <2> HIDE DEF o
  <2> QED
    BY <2>1, <2>2, <2>3 DEF SidesLeaves, n, o
<1> QED
  BY <1>6, <1>7

-----------------------------------------------------------------------------
(* The invariant of the workspaces. *)

Phases == {"down", "read", "scan", "run", "write", "deinit"}

PhaseType ==
  /\ phase \in Phases /\ scr \in 0 .. Screens
  /\ phase \in {"read", "scan", "write", "deinit"} => scr \in Screen

FilesType ==
  /\ files \in [Screen -> Seq(Items)]
  /\ reader \in [rest : Seq(Items), open : Seq(OpenTrees), skip : Nat]

\* The leaves of the tree are the frames of the workspace, and no side is missing.
Good(w) == w \in Workspaces /\ Proper(w.splitree) /\ Leaves(w.splitree) = Children(w)

TreesInv ==
  \A s \in Screen : \A i \in DOMAIN ws[s] :
    /\ Ready(s, i) => Good(ws[s][i])
    /\ phase = "deinit" => ws[s][i].wins # <<>>

\* The workspace that is read has the frames that are in the open sections.
ReaderInv ==
  phase = "read" =>
    /\ OpenOk(reader.open)
    /\ reader.open # <<>> =>
         ws[scr] # <<>> /\ Children(ws[scr][Len(ws[scr])]) = FoundIn(reader.open)

\* Screens that are left have no workspaces.
LeftInv ==
  /\ phase = "down" => \A s \in Screen : ws[s] = <<>>
  /\ phase \in {"write", "deinit"} => \A s \in Screen : s < scr => ws[s] = <<>>

WorkspacesInv ==
  PhaseType /\ FilesType /\ WsType /\ IdsInv /\ FramesInv /\ TreesInv /\ ReaderInv /\ LeftInv

LEMMA FramesInvIs ==
  /\ FramesInv <=> Live = AllFrames(ws) /\ Sole(ws)
  /\ FramesInv' <=> Live' = AllFrames(ws') /\ Sole(ws')
<1>1. EachOnce <=> Sole(ws)
  BY EachOnceIsSole DEF EachOnce
<1>2. EachOnce' <=> Sole(ws')
  BY EachOnceIsSole DEF EachOnce
<1>3. UNION {FramesOf(s) : s \in Screen} = AllFrames(ws) /\ UNION {FramesOf(s)' : s \in Screen} = AllFrames(ws')
  BY DEF FramesOf, AllFrames
<1>4. FramesInv <=> Live = UNION {FramesOf(s) : s \in Screen} /\ EachOnce
  BY DEF FramesInv
<1>5. FramesInv' <=> Live' = UNION {FramesOf(s)' : s \in Screen} /\ EachOnce'
  BY DEF FramesInv
<1> QED
  BY <1>1, <1>2, <1>3, <1>4, <1>5

\* The workspaces of a screen become v.
LEMMA WsChanged ==
  ASSUME WsType, FramesInv, NEW s \in Screen, NEW v \in Seq(Workspaces), ws' = [ws EXCEPT ![s] = v]
  PROVE  WsType' /\ OnlyAt(ws, ws', s) /\ ws'[s] = v
<1>1. Sole(ws)
  BY FramesInvIs
<1> QED
  BY <1>1 DEF WsType, OnlyAt, AllWs

\* Nothing of the workspaces changes.
LEMMA SameWorkspaces ==
  ASSUME WsType, IdsInv, FramesInv, UNCHANGED <<idVars, ws>>
  PROVE  WsType' /\ IdsInv' /\ FramesInv'
<1>1. ws' = ws /\ frame_id' = frame_id /\ frame_id_cntr' = frame_id_cntr
  BY DEF idVars
<1>2. WsType' /\ IdsInv'
  BY <1>1 DEF WsType, IdsInv, IdsType, CounterAhead, IdsDistinct, Live
<1>3. Live' = Live
  BY <1>1 DEF Live
<1> QED
  BY <1>1, <1>2, <1>3, FramesInvIs

LEMMA WorkspacesInitInv == Init => WorkspacesInv
<1> SUFFICES ASSUME Init PROVE WorkspacesInv
  OBVIOUS
<1>1. Screens \in Nat \ {0} /\ HandMade \subseteq [Screen -> Seq(Items)]
  BY SessionAssumption
<1>2. ws = [s \in Screen |-> <<>>] /\ phase = "down" /\ scr = 0 /\ files \in HandMade /\ reader = NoReader /\ IdsInit
  BY DEF Init
<1>3. IdsInv /\ Live = {}
  BY <1>2, IdsInitInv DEF IdsInit, Live
<1>4. PhaseType /\ FilesType /\ WsType
  BY <1>1, <1>2 DEF PhaseType, Phases, FilesType, WsType, NoReader
<1>5. FramesInv
  <2>1. AllFrames(ws) = {} /\ Sole(ws)
    BY <1>2 DEF AllFrames, Sole
  <2> QED
    BY <1>3, <2>1, FramesInvIs
<1>6. TreesInv /\ ReaderInv /\ LeftInv
  BY <1>2 DEF TreesInv, ReaderInv, LeftInv
<1> QED
  BY <1>3, <1>4, <1>5, <1>6 DEF WorkspacesInv

\* All workspaces are good while the program runs.
LEMMA AllGood ==
  ASSUME TreesInv, phase \in {"scan", "run", "write"} \/ (phase = "read" /\ reader.open = <<>>),
         NEW s \in Screen, NEW i \in DOMAIN ws[s]
  PROVE  Good(ws[s][i])
<1>1. Ready(s, i)
  BY DEF Ready, Depth
<1> QED
  BY <1>1 DEF TreesInv

LEMMA GoodIs ==
  ASSUME NEW w, Good(w)
  PROVE  w \in Workspaces /\ w.splitree \in Trees /\ w.wins \in Seq(Frame) /\ w.wins # <<>>
<1>1. w.splitree \in Trees /\ w.wins \in Seq(Frame) /\ NULL \notin Tips[w.splitree]
  BY WorkspaceFields DEF Good, Proper
<1>2. Leaves(w.splitree) # {}
  BY <1>1, TipsType DEF Leaves
<1> QED
  BY <1>1, <1>2 DEF Good, Children, ToSet

-----------------------------------------------------------------------------
(* Steps that leave the workspaces as they are. *)

\* A file is read, no workspace or frame is made.
LEMMA ReadOnInv ==
  ASSUME WorkspacesInv, phase = "read", UNCHANGED <<idVars, phase, scr, files, ws>>,
         FilesType', OpenOk(reader'.open), reader.open = <<>> <=> reader'.open = <<>>,
         FoundIn(reader'.open) = FoundIn(reader.open)
  PROVE  WorkspacesInv'
<1>1. WsType' /\ IdsInv' /\ FramesInv' /\ ws' = ws /\ phase' = "read" /\ scr' = scr
  BY SameWorkspaces DEF WorkspacesInv
<1>2. PhaseType'
  BY <1>1 DEF WorkspacesInv, PhaseType
<1>3. ASSUME NEW s \in Screen, NEW i \in DOMAIN ws[s], Ready(s, i)' PROVE Good(ws[s][i])
  <2>1. Ready(s, i)
    BY <1>1, <1>3 DEF Ready, Depth
  <2> QED
    BY <2>1 DEF WorkspacesInv, TreesInv
<1>4. TreesInv' /\ LeftInv'
  BY <1>1, <1>3 DEF TreesInv, LeftInv
<1>5. ReaderInv'
  BY <1>1 DEF WorkspacesInv, ReaderInv
<1> QED
  BY <1>1, <1>2, <1>4, <1>5 DEF WorkspacesInv

\* The phase goes on, no file is being read before or after.
LEMMA PhaseInv ==
  ASSUME WorkspacesInv, UNCHANGED <<idVars, ws>>, PhaseType', FilesType',
         phase \in {"scan", "run", "write"}, phase' \in {"scan", "run", "write"} \/ (phase' = "deinit" /\ phase = "write"),
         phase' \in {"write", "deinit"} => scr' = 1 \/ (phase = "write" /\ scr' = scr)
  PROVE  WorkspacesInv'
<1>1. WsType' /\ IdsInv' /\ FramesInv' /\ ws' = ws
  BY SameWorkspaces DEF WorkspacesInv
<1>2. \A s \in Screen : \A i \in DOMAIN ws[s] : Good(ws[s][i]) /\ ws[s][i].wins # <<>>
  BY AllGood, GoodIs DEF WorkspacesInv
<1>3. TreesInv'
  BY <1>1, <1>2 DEF TreesInv
<1>4. ReaderInv'
  BY DEF ReaderInv
<1>5. LeftInv'
  BY <1>1 DEF LeftInv, WorkspacesInv, Screen
<1> QED
  BY <1>1, <1>3, <1>4, <1>5 DEF WorkspacesInv

LEMMA StartInv == WorkspacesInv /\ Start => WorkspacesInv'
<1> SUFFICES ASSUME WorkspacesInv, Start PROVE WorkspacesInv'
  OBVIOUS
<1>1. /\ phase = "down" /\ phase' = "read" /\ scr' = 1 /\ UNCHANGED <<idVars, ws, files>>
      /\ reader' = [NoReader EXCEPT !.rest = files[1]]
  BY DEF Start
<1>2. WsType' /\ IdsInv' /\ FramesInv' /\ ws' = ws
  BY <1>1, SameWorkspaces DEF WorkspacesInv
<1>3. 1 \in Screen
  BY SessionAssumption DEF Screen
<1>4. reader' = [rest |-> files[1], open |-> <<>>, skip |-> 0] /\ files[1] \in Seq(Items)
  BY <1>1, <1>3 DEF NoReader, WorkspacesInv, FilesType
<1>5. PhaseType' /\ FilesType'
  <2>1. PhaseType'
    BY <1>1, <1>3, SessionAssumption DEF PhaseType, Phases, Screen
  <2>2. files' \in [Screen -> Seq(Items)]
    BY <1>1 DEF WorkspacesInv, FilesType
  <2>3. reader' \in [rest : Seq(Items), open : Seq(OpenTrees), skip : Nat]
    BY <1>4
  <2> QED
    BY <2>1, <2>2, <2>3 DEF FilesType
<1>6. \A s \in Screen : ws[s] = <<>>
  BY <1>1 DEF WorkspacesInv, LeftInv
<1>7. TreesInv' /\ LeftInv'
  BY <1>1, <1>2, <1>6 DEF TreesInv, LeftInv
<1>8. ReaderInv'
  BY <1>4, SessionAssumption DEF ReaderInv, OpenOk
<1> QED
  BY <1>2, <1>5, <1>7, <1>8 DEF WorkspacesInv

\* What a step of the reader has before and after it.
LEMMA ReadType ==
  ASSUME FilesType, reader.rest # <<>>, NEW open \in Seq(OpenTrees), NEW skip \in Nat, Read(open, skip),
         UNCHANGED files
  PROVE  FilesType' /\ reader'.open = open
<1>1. reader.rest \in Seq(Items)
  BY DEF FilesType
<1>2. Tail(reader.rest) \in Seq(Items)
  BY <1>1
<1> QED
  BY <1>2 DEF FilesType, Read

LEMMA ReaderFields ==
  ASSUME FilesType
  PROVE  /\ reader.rest \in Seq(Items) /\ reader.open \in Seq(OpenTrees) /\ reader.skip \in Nat
         /\ reader.rest # <<>> => Next1 \in Items /\ Next1.id \in 0 .. INT_MAX
         /\ Depth \in Nat /\ (Depth = 0 <=> reader.open = <<>>)
<1>1. reader.rest \in Seq(Items) /\ reader.open \in Seq(OpenTrees) /\ reader.skip \in Nat
  BY DEF FilesType
<1>2. reader.rest # <<>> => Next1 \in Items
  BY <1>1 DEF Next1
<1> QED
  BY <1>1, <1>2 DEF Depth, Items

LEMMA FullIs == Full <=> FullIn(reader.open)
BY DEF Full, FullIn, Depth

LEMMA SkipInv == WorkspacesInv /\ (Skip \/ SkippedEnd) => WorkspacesInv'
<1> SUFFICES ASSUME WorkspacesInv, Skip \/ SkippedEnd PROVE WorkspacesInv'
  OBVIOUS
<1>1. FilesType /\ phase = "read" /\ reader.rest # <<>> /\ UNCHANGED <<idVars, phase, scr, files, ws>>
  BY DEF Skip, SkippedEnd, Reading, WorkspacesInv
<1>2. PICK k \in Nat : Read(reader.open, k)
  <2>1. reader.skip \in Nat
    BY <1>1, ReaderFields
  <2>2. CASE Skip
    BY <2>1, <2>2 DEF Skip
  <2>3. CASE SkippedEnd
    <3>1. Read(reader.open, IF reader.skip > 0 THEN reader.skip - 1 ELSE 0)
      BY <2>3 DEF SkippedEnd
    <3> QED
      BY <2>1, <3>1
  <2> QED
    BY <2>2, <2>3
<1>3. FilesType' /\ reader'.open = reader.open
  BY <1>1, <1>2, ReaderFields, ReadType
<1>4. OpenOk(reader.open)
  BY <1>1 DEF WorkspacesInv, ReaderInv
<1> QED
  BY <1>1, <1>3, <1>4, ReadOnInv

LEMMA OptSplitInv == WorkspacesInv /\ OptSplit => WorkspacesInv'
<1> SUFFICES ASSUME WorkspacesInv, OptSplit PROVE WorkspacesInv'
  OBVIOUS
<1>1. /\ FilesType /\ phase = "read" /\ reader.rest # <<>> /\ UNCHANGED <<idVars, phase, scr, files, ws>>
      /\ Depth > 0 /\ ~Full /\ Depth <= MaxDepth /\ Read(Append(reader.open, Node), 0)
  BY DEF OptSplit, Reading, WorkspacesInv
<1>2. OpenOk(reader.open) /\ reader.open # <<>> /\ reader.open \in Seq(OpenTrees)
  BY <1>1, ReaderFields DEF WorkspacesInv, ReaderInv
<1>3. OpenOk(Append(reader.open, Node)) /\ FoundIn(Append(reader.open, Node)) = FoundIn(reader.open)
  BY <1>1, <1>2, OpenedOk, FullIs DEF Depth
<1>4. Append(reader.open, Node) \in Seq(OpenTrees) /\ Append(reader.open, Node) # <<>>
  BY <1>2, <1>3 DEF OpenOk
<1>5. FilesType' /\ reader'.open = Append(reader.open, Node)
  BY <1>1, <1>4, ReadType
<1> QED
  BY <1>1, <1>2, <1>3, <1>4, <1>5, ReadOnInv

LEMMA EndedType ==
  ASSUME FilesType, NEW open \in Seq(OpenTrees), UNCHANGED files,
         reader' = [reader EXCEPT !.rest = After, !.open = open]
  PROVE  FilesType' /\ reader'.open = open
<1>1. reader \in [rest : Seq(Items), open : Seq(OpenTrees), skip : Nat]
  BY DEF FilesType
<1>2. After \in Seq(Items)
  BY <1>1 DEF After
<1>3. reader' = [rest |-> After, open |-> open, skip |-> reader.skip]
  BY <1>1
<1> QED
  BY <1>1, <1>2, <1>3 DEF FilesType

LEMMA OptSplitEndInv == WorkspacesInv /\ OptSplitEnd => WorkspacesInv'
<1> SUFFICES ASSUME WorkspacesInv, OptSplitEnd PROVE WorkspacesInv'
  OBVIOUS
<1> DEFINE o == reader.open[Len(reader.open)]
           rest == SubSeq(reader.open, 1, Len(reader.open) - 1)
           new == IF KeptOf(o) = NULL THEN rest ELSE Put(rest, KeptOf(o))
<1>1. /\ FilesType /\ phase = "read" /\ UNCHANGED <<idVars, phase, scr, files, ws>>
      /\ Len(reader.open) > 1 /\ reader' = [reader EXCEPT !.rest = After, !.open = new]
  BY DEF OptSplitEnd, Ends, Depth, WorkspacesInv
<1>2. OpenOk(reader.open) /\ reader.open # <<>> /\ Len(reader.open) \in Nat
  BY <1>1, ReaderFields DEF WorkspacesInv, ReaderInv, Depth
<1>3. /\ OpenOk(rest) /\ Len(rest) = Len(reader.open) - 1 /\ (rest # <<>> => ~FullIn(rest))
      /\ FoundIn(reader.open) = FoundIn(rest) \cup SidesLeaves(o)
  BY <1>2, ClosedOk
<1>4. rest # <<>>
  <2> SUFFICES ASSUME rest = <<>> PROVE FALSE
    OBVIOUS
  <2>1. Len(rest) = 0
    <3> HIDE DEF rest
    <3> QED
      OBVIOUS
  <2>2. Len(rest) = Len(reader.open) - 1 /\ Len(reader.open) > 1
    BY <1>1, <1>3
  <2>3. Len(reader.open) \in Nat
    BY <1>2
  <2> QED
    BY <2>1, <2>2, <2>3
<1>5. /\ KeptOf(o) \in TreesOf[MaxDepth + 1 - Len(rest)]
      /\ KeptOf(o) # NULL => Proper(KeptOf(o))
      /\ Leaves(KeptOf(o)) = SidesLeaves(o)
  BY <1>1, <1>2, <1>3, KeptOk
<1> HIDE DEF rest, o
<1>6. OpenOk(new) /\ FoundIn(new) = FoundIn(reader.open)
  <2>1. CASE KeptOf(o) = NULL
    <3>1. SidesLeaves(o) = {}
      BY <1>5, <2>1, NullIsTree
    <3> QED
      BY <1>3, <2>1, <3>1
  <2>2. CASE KeptOf(o) # NULL
    <3>1. OpenOk(Put(rest, KeptOf(o))) /\ FoundIn(Put(rest, KeptOf(o))) = FoundIn(rest) \cup Leaves(KeptOf(o))
      BY <1>3, <1>4, <1>5, <2>2, PutOk
    <3> QED
      BY <1>3, <1>5, <2>2, <3>1
  <2> QED
    BY <2>1, <2>2
<1>7. new # <<>>
  <2>1. CASE KeptOf(o) = NULL
    BY <1>4, <2>1
  <2>2. CASE KeptOf(o) # NULL
    <3>1. Put(rest, KeptOf(o)) = [rest EXCEPT ![Len(rest)] = LastPut(rest, KeptOf(o))]
      BY <1>3, <1>4, PutIs
    <3>2. Len(rest) \in DOMAIN rest
      BY <1>3, <1>4, LastOpen
    <3>3. DOMAIN Put(rest, KeptOf(o)) # {}
      BY <3>1, <3>2
    <3> QED
      BY <2>2, <3>3
  <2> QED
    BY <2>1, <2>2
<1> HIDE DEF new
<1>8. new \in Seq(OpenTrees)
  BY <1>6 DEF OpenOk
<1>9. FilesType' /\ reader'.open = new
  BY <1>1, <1>8, EndedType
<1> QED
  BY <1>1, <1>2, <1>6, <1>7, <1>9, ReadOnInv

-----------------------------------------------------------------------------
(* Workspaces that are read. *)

LEMMA OptWorkspaceInv == WorkspacesInv /\ OptWorkspace => WorkspacesInv'
<1> SUFFICES ASSUME WorkspacesInv, OptWorkspace PROVE WorkspacesInv'
  OBVIOUS
<1> DEFINE w == [name |-> "workspace", splitree |-> NULL, wins |-> <<>>]
           v == Append(ws[scr], w)
<1>1. /\ FilesType /\ phase = "read" /\ reader.rest # <<>> /\ UNCHANGED <<idVars, phase, scr, files>>
      /\ Depth = 0 /\ Read(<<Node>>, 0) /\ ws' = [ws EXCEPT ![scr] = v]
      /\ WsType /\ FramesInv /\ IdsInv /\ PhaseType /\ TreesInv
  BY DEF OptWorkspace, Reading, WorkspacesInv
<1>2. scr \in Screen /\ ws[scr] \in Seq(Workspaces)
  BY <1>1 DEF PhaseType, WsType
<1>3. w \in Workspaces /\ Children(w) = {} /\ IsInjective(w.wins) /\ w.wins = <<>>
  <2>1. NULL \in Trees /\ <<>> \in Seq(Frame)
    BY NullIsTree
  <2>2. w \in Workspaces
    BY <2>1, WorkspaceFields
  <2>3. ToSet(<<>>) = {} /\ IsInjective(<<>>)
    BY DEF ToSet, IsInjective
  <2>4. w.wins = <<>>
    OBVIOUS
  <2> HIDE DEF w
  <2> QED
    BY <2>2, <2>3, <2>4 DEF Children
<1> HIDE DEF w
<1>4. /\ v \in Seq(Workspaces) /\ Len(v) = Len(ws[scr]) + 1 /\ v # <<>>
      /\ \A i \in 1..Len(ws[scr]) + 1 : v[i] = IF i = Len(ws[scr]) + 1 THEN w ELSE ws[scr][i]
      /\ DOMAIN v = 1..Len(ws[scr]) + 1
  BY <1>2, <1>3, AppendFacts
<1>5. WsType' /\ OnlyAt(ws, ws', scr) /\ ws'[scr] = v
  BY <1>1, <1>2, <1>4, WsChanged
<1>6. Sole(ws') /\ AllFrames(ws') = AllFrames(ws) \cup Children(w)
  BY <1>3, <1>5, WorkspaceAppended
<1>7. Live' = Live /\ IdsInv'
  BY <1>1 DEF idVars, Live, IdsInv, IdsType, CounterAhead, IdsDistinct
<1>8. FramesInv'
  BY <1>1, <1>3, <1>6, <1>7, FramesInvIs
<1>9. <<Node>> = Append(<<>>, Node) /\ OpenOk(Append(<<>>, Node)) /\ FoundIn(Append(<<>>, Node)) = FoundIn(<<>>)
  <2>1. OpenOk(<<>>)
    BY SessionAssumption DEF OpenOk
  <2>2. OpenOk(Append(<<>>, Node)) /\ FoundIn(Append(<<>>, Node)) = FoundIn(<<>>)
    BY <2>1, OpenedOk
  <2>3. <<Node>> = Append(<<>>, Node)
    OBVIOUS
  <2> QED
    BY <2>2, <2>3
<1>10. <<Node>> \in Seq(OpenTrees) /\ FoundIn(<<Node>>) = {} /\ Len(<<Node>>) = 1
  <2>1. FoundIn(<<>>) = {}
    BY DEF FoundIn
  <2>2. Node \in OpenTrees
    BY NullIsTree DEF Node, OpenTrees
  <2>3. <<Node>> \in Seq(OpenTrees) /\ Len(<<Node>>) = 1
    BY <2>2
  <2> QED
    BY <1>9, <2>1, <2>3
<1>11. FilesType' /\ reader'.open = <<Node>>
  BY <1>1, <1>10, ReadType
<1>12. PhaseType' /\ LeftInv'
  BY <1>1 DEF PhaseType, LeftInv
<1>13. ReaderInv'
  <2>1. ws'[scr'] = v /\ Len(v) \in DOMAIN v /\ v[Len(v)] = w
    BY <1>1, <1>2, <1>4, <1>5
  <2> QED
    BY <1>3, <1>4, <1>9, <1>10, <1>11, <2>1 DEF ReaderInv
<1>14. TreesInv'
  <2> SUFFICES ASSUME NEW s \in Screen, NEW i \in DOMAIN ws'[s], Ready(s, i)' PROVE Good(ws'[s][i])
    BY <1>1 DEF TreesInv
  <2>1. CASE s # scr
    <3>1. ws'[s] = ws[s] /\ Ready(s, i)
      BY <1>5, <2>1 DEF OnlyAt, Ready
    <3>2. i \in DOMAIN ws[s]
      BY <3>1
    <3> QED
      BY <3>1, <3>2, <1>1 DEF TreesInv
  <2>2. CASE s = scr
    <3>1. i < Len(v)
      BY <1>1, <1>5, <1>10, <1>11, <2>2 DEF Ready, Depth
    <3>2. i \in DOMAIN ws[s] /\ ws'[s][i] = ws[s][i]
      BY <1>2, <1>4, <1>5, <2>2, <3>1
    <3>3. Ready(s, i)
      BY <1>1 DEF Ready
    <3> QED
      BY <1>1, <3>2, <3>3 DEF TreesInv
  <2> QED
    BY <2>1, <2>2
<1> QED
  BY <1>5, <1>7, <1>8, <1>11, <1>12, <1>13, <1>14 DEF WorkspacesInv

\* The last workspace of the screen that is read.
LEMMA LastWorkspace ==
  ASSUME WorkspacesInv, phase = "read", Depth > 0
  PROVE  /\ scr \in Screen /\ ws[scr] \in Seq(Workspaces) /\ Len(ws[scr]) \in DOMAIN ws[scr]
         /\ OpenOk(reader.open) /\ reader.open # <<>>
         /\ ws[scr][Len(ws[scr])] \in Workspaces /\ IsInjective(ws[scr][Len(ws[scr])].wins)
         /\ Children(ws[scr][Len(ws[scr])]) = FoundIn(reader.open)
<1>1. scr \in Screen /\ ws[scr] \in Seq(Workspaces) /\ OpenOk(reader.open) /\ reader.open # <<>>
  BY ReaderFields DEF WorkspacesInv, PhaseType, WsType, ReaderInv
<1>2. ws[scr] # <<>> /\ Children(ws[scr][Len(ws[scr])]) = FoundIn(reader.open)
  BY <1>1 DEF WorkspacesInv, ReaderInv
<1>3. Len(ws[scr]) \in DOMAIN ws[scr] /\ ws[scr][Len(ws[scr])] \in Workspaces
  BY <1>1, <1>2
<1>4. Sole(ws)
  BY FramesInvIs DEF WorkspacesInv
<1> QED
  BY <1>1, <1>2, <1>3, <1>4 DEF Sole

\* W becomes V: workspace m of screen s becomes w, its frames those it had and f.
Adds(W, V, s, m, w, f) ==
  /\ W \in AllWs /\ Sole(W) /\ f \notin AllFrames(W)
  /\ s \in Screen /\ m \in DOMAIN W[s] /\ f \in Frame
  /\ w \in Workspaces /\ w.wins = Append(W[s][m].wins, f)
  /\ V = [W EXCEPT ![s] = [W[s] EXCEPT ![m] = w]]

LEMMA EntrySet ==
  ASSUME NEW S, NEW q \in Seq(S), NEW m \in DOMAIN q, NEW w \in S
  PROVE  /\ [q EXCEPT ![m] = w] \in Seq(S) /\ Len([q EXCEPT ![m] = w]) = Len(q)
         /\ DOMAIN [q EXCEPT ![m] = w] = DOMAIN q
         /\ \A i \in DOMAIN q : [q EXCEPT ![m] = w][i] = IF i = m THEN w ELSE q[i]
OBVIOUS

Added(W, V, s, m, w, f) ==
  /\ OnlyAt(W, V, s) /\ V[s] = [W[s] EXCEPT ![m] = w]
  /\ Sole(V) /\ AllFrames(V) = AllFrames(W) \cup {f} /\ Children(w) = Children(W[s][m]) \cup {f}

LEMMA FrameAdded ==
  ASSUME NEW W, NEW V, NEW s, NEW m, NEW w, NEW f, Adds(W, V, s, m, w, f)
  PROVE  Added(W, V, s, m, w, f)
<1> USE DEF Adds
<1>1. W[s] \in Seq(Workspaces) /\ W[s][m] \in Workspaces /\ W[s][m].wins \in Seq(Frame)
  <2>1. W[s] \in Seq(Workspaces)
    BY DEF AllWs
  <2>2. W[s][m] \in Workspaces
    BY <2>1
  <2> QED
    BY <2>1, <2>2, WorkspaceFields
<1>2. [W[s] EXCEPT ![m] = w] \in Seq(Workspaces)
  BY <1>1, EntrySet
<1>3. OnlyAt(W, V, s) /\ V[s] = [W[s] EXCEPT ![m] = w]
  BY <1>2 DEF OnlyAt, AllWs
<1>4. f \notin Children(W[s][m]) /\ \A g \in Children(W[s][m]) : g \in AllFrames(W)
  BY InAllFrames
<1>5. IsInjective(W[s][m].wins)
  BY DEF Sole
<1>6. Children(w) = Children(W[s][m]) \cup {f} /\ IsInjective(w.wins)
  BY <1>1, <1>4, <1>5, AppendFacts DEF Children
<1>7. Sole(V) /\ AllFrames(V) = (AllFrames(W) \ Children(W[s][m])) \cup Children(w)
  <2>1. \A g \in Children(w) : g \in AllFrames(W) => g \in Children(W[s][m])
    BY <1>6
  <2>2. ChangedTo(W, V, s, m, w)
    BY <1>3, <1>6, <2>1 DEF ChangedTo
  <2> QED
    <3>1. Changed(W, V, s, m, w)
      BY <2>2, WorkspaceChanged
    <3> QED
      BY <3>1 DEF Changed
<1>8. AllFrames(V) = AllFrames(W) \cup {f}
  BY <1>4, <1>6, <1>7
<1> QED
  BY <1>3, <1>6, <1>7, <1>8 DEF Added

\* A frame is made: the walk comes by each that is there already.
LEMMA FrameMade ==
  ASSUME WorkspacesInv, NEW f \in Frame, NEW id \in 0 .. INT_MAX, InitFrameId(f, id, Place)
  PROVE  IdsInv' /\ f \notin Live /\ Live' = Live \cup {f}
<1>1. Place \in Walk /\ IdsInv
  BY PlaceIsWalk DEF WorkspacesInv
<1> QED
  BY <1>1, InitFrameIdEffect

LEMMA OptFrameInv == ASSUME NEW f \in Frame PROVE WorkspacesInv /\ OptFrame(f) => WorkspacesInv'
<1> SUFFICES ASSUME WorkspacesInv, OptFrame(f) PROVE WorkspacesInv'
  OBVIOUS
<1> DEFINE m == Len(ws[scr])
           w == [ws[scr][m] EXCEPT !.wins = Append(ws[scr][m].wins, f)]
           open == Put(reader.open, f)
<1>1. /\ FilesType /\ phase = "read" /\ reader.rest # <<>> /\ UNCHANGED <<phase, scr, files>>
      /\ Depth > 0 /\ ~Full /\ Read(open, 0)
      /\ InitFrameId(f, Next1.id, Place)
      /\ WsType /\ FramesInv /\ PhaseType /\ TreesInv /\ LeftInv
  BY DEF OptFrame, Reading, WorkspacesInv
<1>a. ws' = [ws EXCEPT ![scr] = [ws[scr] EXCEPT ![m] = w]]
  BY DEF OptFrame
<1>2. /\ scr \in Screen /\ ws[scr] \in Seq(Workspaces) /\ m \in DOMAIN ws[scr]
      /\ OpenOk(reader.open) /\ reader.open # <<>>
      /\ ws[scr][m] \in Workspaces
      /\ Children(ws[scr][m]) = FoundIn(reader.open)
  BY <1>1, LastWorkspace
<1>3. IdsInv' /\ f \notin Live /\ Live' = Live \cup {f}
  <2>1. Next1.id \in 0 .. INT_MAX
    BY <1>1, ReaderFields
  <2> QED
    BY <1>1, <2>1, FrameMade
<1>4. w \in Workspaces /\ w.wins = Append(ws[scr][m].wins, f)
  <2>1. Append(ws[scr][m].wins, f) \in Seq(Frame)
    BY <1>2, WorkspaceFields
  <2> QED
    BY <1>2, <2>1 DEF Workspaces
<1> HIDE DEF w
<1>5. /\ WsType' /\ OnlyAt(ws, ws', scr) /\ ws'[scr] = [ws[scr] EXCEPT ![m] = w]
      /\ FramesInv' /\ Children(w) = Children(ws[scr][m]) \cup {f}
  <2>1. ws \in AllWs /\ Sole(ws) /\ Live = AllFrames(ws)
    BY <1>1, FramesInvIs DEF AllWs, WsType
  <2>2. Adds(ws, ws', scr, m, w, f)
    BY <1>a, <1>2, <1>3, <1>4, <2>1 DEF Adds
  <2>3. /\ OnlyAt(ws, ws', scr) /\ ws'[scr] = [ws[scr] EXCEPT ![m] = w]
        /\ Sole(ws') /\ AllFrames(ws') = AllFrames(ws) \cup {f} /\ Children(w) = Children(ws[scr][m]) \cup {f}
    <3>1. Added(ws, ws', scr, m, w, f)
      BY <2>2, FrameAdded
    <3> QED
      BY <3>1 DEF Added
  <2> QED
    BY <1>3, <2>1, <2>3, FramesInvIs DEF WsType, OnlyAt, AllWs
<1>6. OpenOk(open) /\ FoundIn(open) = FoundIn(reader.open) \cup {f} /\ open # <<>>
  <2>1. f \in TreesOf[MaxDepth + 1 - Len(reader.open)] /\ f # NULL /\ Proper(f) /\ Leaves(f) = {f}
    <3>1. f \in Atoms /\ f \in Trees /\ f # NULL /\ MaxDepth + 1 - Len(reader.open) \in 0 .. MaxDepth
      BY <1>2, LastOpen, AtomsAreTrees, SessionAssumption DEF Atoms
    <3>2. Tips[f] = {f}
      BY <3>1, NoTips
    <3> QED
      BY <3>1, <3>2, AtomsAreTrees DEF Proper, Leaves
  <2>2. OpenOk(open) /\ FoundIn(open) = FoundIn(reader.open) \cup {f}
    BY <1>1, <1>2, <2>1, PutOk, FullIs
  <2>3. open = [reader.open EXCEPT ![Len(reader.open)] = LastPut(reader.open, f)] /\ Len(reader.open) \in DOMAIN reader.open
    BY <1>2, PutIs, LastOpen
  <2>4. DOMAIN open # {}
    BY <2>3
  <2> QED
    BY <2>2, <2>4
<1> HIDE DEF open
<1>7. FilesType' /\ reader'.open = open
  <2>1. open \in Seq(OpenTrees)
    BY <1>6 DEF OpenOk
  <2> QED
    BY <1>1, <2>1, ReadType
<1>8. PhaseType' /\ LeftInv'
  BY <1>1 DEF PhaseType, LeftInv
<1>9. DOMAIN ws'[scr] = DOMAIN ws[scr] /\ Len(ws'[scr]) = m /\ ws'[scr][m] = w /\ ws'[scr] # <<>>
  <2>1. /\ Len([ws[scr] EXCEPT ![m] = w]) = Len(ws[scr]) /\ DOMAIN [ws[scr] EXCEPT ![m] = w] = DOMAIN ws[scr]
        /\ [ws[scr] EXCEPT ![m] = w][m] = w
    BY <1>2, <1>4, EntrySet
  <2>2. DOMAIN ws'[scr] # {}
    BY <1>2, <1>5, <2>1
  <2>3. ws'[scr] # <<>>
    BY <2>2
  <2> QED
    BY <1>5, <2>1, <2>3
<1>10. ReaderInv'
  <2>1. scr' = scr
    BY <1>1
  <2>2. Children(ws'[scr][Len(ws'[scr])]) = FoundIn(open)
    BY <1>2, <1>5, <1>6, <1>9
  <2> QED
    BY <1>6, <1>7, <1>9, <2>1, <2>2 DEF ReaderInv
<1>11. TreesInv'
  <2> SUFFICES ASSUME NEW s \in Screen, NEW i \in DOMAIN ws'[s], Ready(s, i)' PROVE Good(ws'[s][i])
    BY <1>1 DEF TreesInv
  <2>1. CASE s # scr
    <3>1. ws'[s] = ws[s] /\ Ready(s, i)
      BY <1>5, <2>1 DEF OnlyAt, Ready
    <3>2. i \in DOMAIN ws[s]
      BY <3>1
    <3> QED
      BY <3>1, <3>2, <1>1 DEF TreesInv
  <2>2. CASE s = scr
    <3>1. Len(reader'.open) # 0
      BY <1>6, <1>7 DEF OpenOk
    <3>2. i < m
      BY <1>1, <1>9, <2>2, <3>1 DEF Ready, Depth
    <3>3. i # m /\ i \in DOMAIN ws[s] /\ ws'[s][i] = ws[s][i]
      BY <1>2, <1>5, <1>9, <2>2, <3>2
    <3>4. Ready(s, i)
      BY <1>1, <2>2, <3>2 DEF Ready
    <3> QED
      BY <1>1, <3>3, <3>4 DEF TreesInv
  <2> QED
    BY <2>1, <2>2
<1> QED
  BY <1>3, <1>5, <1>7, <1>8, <1>10, <1>11 DEF WorkspacesInv

\* Workspace m of screen s becomes w, which has no other frames.
Loses(W, V, s, m, w) ==
  /\ W \in AllWs /\ Sole(W) /\ s \in Screen /\ m \in DOMAIN W[s]
  /\ w \in Workspaces /\ IsInjective(w.wins) /\ Children(w) \subseteq Children(W[s][m])
  /\ V = [W EXCEPT ![s] = [W[s] EXCEPT ![m] = w]]

Lost(W, V, s, m, w) ==
  /\ OnlyAt(W, V, s) /\ Sole(V)
  /\ AllFrames(V) = AllFrames(W) \ (Children(W[s][m]) \ Children(w))
  /\ Len(V[s]) = Len(W[s]) /\ DOMAIN V[s] = DOMAIN W[s]
  /\ \A i \in DOMAIN W[s] : V[s][i] = IF i = m THEN w ELSE W[s][i]

LEMMA FramesLost ==
  ASSUME NEW W, NEW V, NEW s, NEW m, NEW w, Loses(W, V, s, m, w)
  PROVE  Lost(W, V, s, m, w)
<1> USE DEF Loses
<1>1. W[s] \in Seq(Workspaces)
  BY DEF AllWs
<1>2. /\ [W[s] EXCEPT ![m] = w] \in Seq(Workspaces) /\ Len([W[s] EXCEPT ![m] = w]) = Len(W[s])
      /\ DOMAIN [W[s] EXCEPT ![m] = w] = DOMAIN W[s]
      /\ \A i \in DOMAIN W[s] : [W[s] EXCEPT ![m] = w][i] = IF i = m THEN w ELSE W[s][i]
  BY <1>1, EntrySet
<1>3. OnlyAt(W, V, s) /\ V[s] = [W[s] EXCEPT ![m] = w]
  BY <1>2 DEF OnlyAt, AllWs
<1>4. ChangedTo(W, V, s, m, w)
  BY <1>3 DEF ChangedTo
<1>5. Changed(W, V, s, m, w)
  BY <1>4, WorkspaceChanged
<1>6. \A f \in Children(W[s][m]) : f \in AllFrames(W)
  BY InAllFrames
<1>7. Sole(V) /\ AllFrames(V) = AllFrames(W) \ (Children(W[s][m]) \ Children(w))
  BY <1>5, <1>6 DEF Changed
<1> QED
  BY <1>2, <1>3, <1>7 DEF Lost

\* Workspace m of screen s goes.
Goes(W, V, s, m, v) ==
  /\ W \in AllWs /\ Sole(W) /\ s \in Screen /\ m \in DOMAIN W[s]
  /\ v \in Seq(Workspaces) /\ LeftOut(W[s], m, v) /\ V = [W EXCEPT ![s] = v]

Went(W, V, s, m) ==
  /\ OnlyAt(W, V, s) /\ Sole(V)
  /\ AllFrames(V) = AllFrames(W) \ Children(W[s][m])
  /\ DOMAIN V[s] = 1..Len(W[s]) - 1 /\ Len(W[s]) \in Nat /\ DOMAIN W[s] = 1..Len(W[s])
  /\ \A i \in DOMAIN V[s] : \E j \in DOMAIN W[s] : V[s][i] = W[s][j] /\ (m = Len(W[s]) => j = i)

LEMMA WorkspaceGone ==
  ASSUME NEW W, NEW V, NEW s, NEW m, NEW v, Goes(W, V, s, m, v)
  PROVE  Went(W, V, s, m)
<1> USE DEF Goes
<1>1. W[s] \in Seq(Workspaces)
  BY DEF AllWs
<1>2. OnlyAt(W, V, s) /\ V[s] = v
  BY DEF OnlyAt, AllWs
<1>3. Sole(V) /\ AllFrames(V) = AllFrames(W) \ Children(W[s][m])
  <2>1. LeftOut(W[s], m, V[s])
    BY <1>2
  <2>2. \A X, Y : OnlyAt(X, Y, s) /\ m \in DOMAIN X[s] /\ LeftOut(X[s], m, Y[s])
                    => Sole(Y) /\ AllFrames(Y) = AllFrames(X) \ Children(X[s][m])
    BY WorkspaceLeft
  <2> QED
    BY <1>2, <2>1, <2>2, Zenon
<1>4. DOMAIN v = 1..Len(W[s]) - 1 /\ Len(W[s]) \in Nat /\ DOMAIN W[s] = 1..Len(W[s])
  BY <1>1 DEF LeftOut
<1>5. ASSUME NEW i \in DOMAIN v
      PROVE  \E j \in DOMAIN W[s] : v[i] = W[s][j] /\ (m = Len(W[s]) => j = i)
  <2>1. CASE i < m
    BY <1>4, <2>1 DEF LeftOut
  <2>2. CASE ~(i < m)
    <3>1. i + 1 \in DOMAIN W[s] /\ v[i] = W[s][i + 1] /\ m # Len(W[s])
      BY <1>4, <2>2 DEF LeftOut
    <3> QED
      BY <3>1
  <2> QED
    BY <2>1, <2>2
<1> QED
  BY <1>2, <1>3, <1>4, <1>5 DEF Went

LEMMA WsIs == WsType /\ FramesInv => ws \in AllWs /\ Sole(ws) /\ Live = AllFrames(ws)
BY FramesInvIs DEF WsType, AllWs

\* What is true of the workspaces after a step is, of the state.
LEMMA WsBecomes ==
  ASSUME NEW s, OnlyAt(ws, ws', s), Sole(ws'), Live' = AllFrames(ws')
  PROVE  WsType' /\ FramesInv'
BY FramesInvIs DEF WsType, AllWs, OnlyAt

LEMMA SameLive == UNCHANGED idVars /\ IdsInv => IdsInv' /\ Live' = Live
BY DEF idVars, Live, IdsInv, IdsType, CounterAhead, IdsDistinct

LEMMA OptWorkspaceEndInv == WorkspacesInv /\ OptWorkspaceEnd => WorkspacesInv'
<1> SUFFICES ASSUME WorkspacesInv, OptWorkspaceEnd PROVE WorkspacesInv'
  OBVIOUS
<1> DEFINE m == Len(ws[scr])
           tree == reader.open[1].tl
           w == [ws[scr][m] EXCEPT !.splitree = tree]
           front == SubSeq(ws[scr], 1, m - 1)
<1>1. /\ FilesType /\ phase = "read" /\ UNCHANGED <<idVars, phase, scr, files>>
      /\ Depth = 1 /\ reader' = [reader EXCEPT !.rest = After, !.open = <<>>]
      /\ WsType /\ FramesInv /\ PhaseType /\ TreesInv /\ LeftInv /\ IdsInv
  BY DEF OptWorkspaceEnd, Ends, WorkspacesInv
<1>2. /\ tree = NULL => ws' = [ws EXCEPT ![scr] = front]
      /\ tree # NULL => ws' = [ws EXCEPT ![scr] = [ws[scr] EXCEPT ![m] = w]]
  BY DEF OptWorkspaceEnd
<1>3. /\ scr \in Screen /\ ws[scr] \in Seq(Workspaces) /\ m \in DOMAIN ws[scr]
      /\ OpenOk(reader.open) /\ reader.open # <<>> /\ Len(reader.open) = 1
      /\ ws[scr][m] \in Workspaces /\ IsInjective(ws[scr][m].wins)
      /\ Children(ws[scr][m]) = FoundIn(reader.open)
  BY <1>1, LastWorkspace DEF Depth
<1>4. /\ reader.open[1] \in OpenTrees /\ SidesOk(reader.open[1], MaxDepth) /\ reader.open[1].br = NULL
      /\ FoundIn(reader.open) = SidesLeaves(reader.open[1])
  <2>1. MaxDepth \in Nat /\ MaxDepth + 1 - 1 = MaxDepth
    BY SessionAssumption
  <2>2. reader.open[1] \in OpenTrees /\ SidesOk(reader.open[1], MaxDepth + 1 - 1) /\ reader.open[1].br = NULL
    BY <1>3, LastOpen DEF OpenOk
  <2>3. DOMAIN reader.open = {1}
    BY <1>3 DEF OpenOk
  <2> QED
    BY <2>1, <2>2, <2>3 DEF FoundIn
<1>5. Children(ws[scr][m]) = Leaves(tree) /\ tree \in Trees /\ (tree # NULL => Proper(tree))
  BY <1>3, <1>4, NullIsTree DEF SidesLeaves, SidesOk, OpenTrees
<1> HIDE DEF tree
<1>6. FilesType' /\ reader'.open = <<>>
  <2>1. <<>> \in Seq(OpenTrees)
    OBVIOUS
  <2> QED
    BY <1>1, <2>1, EndedType
<1>7. PhaseType' /\ LeftInv' /\ ReaderInv'
  <2>1. OpenOk(<<>>)
    BY SessionAssumption DEF OpenOk
  <2> QED
    BY <1>1, <1>6, <2>1 DEF PhaseType, LeftInv, ReaderInv
<1>8. Live' = Live /\ IdsInv' /\ Live = AllFrames(ws)
  BY <1>1, SameLive, FramesInvIs
<1>9. ASSUME NEW i \in DOMAIN ws[scr], i # m PROVE Good(ws[scr][i])
  <2>1. i < m
    BY <1>3, <1>9
  <2>2. Ready(scr, i)
    BY <1>1, <2>1 DEF Ready
  <2> QED
    BY <1>1, <1>3, <2>2 DEF TreesInv
<1>10. CASE tree = NULL
  <2>1. front \in Seq(Workspaces) /\ LeftOut(ws[scr], m, front)
    <3>1. ws[scr] # <<>>
      BY <1>3
    <3> QED
      BY <1>3, <3>1, FrontLeaves
  <2>2. ws' = [ws EXCEPT ![scr] = front]
    BY <1>2, <1>10
  <2> HIDE DEF front
  <2>3. /\ OnlyAt(ws, ws', scr) /\ Sole(ws')
        /\ AllFrames(ws') = AllFrames(ws) \ Children(ws[scr][m])
        /\ DOMAIN ws'[scr] = 1..m - 1
        /\ \A i \in DOMAIN ws'[scr] : i \in DOMAIN ws[scr] /\ ws'[scr][i] = ws[scr][i]
    <3>1. Goes(ws, ws', scr, m, front)
      BY <1>1, <1>3, <2>1, <2>2, WsIs DEF Goes
    <3>2. Went(ws, ws', scr, m)
      BY <3>1, WorkspaceGone
    <3> QED
      BY <3>2 DEF Went
  <2>4. WsType' /\ FramesInv'
    <3>1. Leaves(tree) = {}
      BY <1>10, NullIsTree
    <3>2. AllFrames(ws') = AllFrames(ws)
      BY <1>5, <2>3, <3>1
    <3>3. Live' = AllFrames(ws') /\ Sole(ws')
      BY <1>8, <2>3, <3>2
    <3> QED
      BY <2>3, <3>3, WsBecomes
  <2>5. TreesInv'
    <3> SUFFICES ASSUME NEW s \in Screen, NEW i \in DOMAIN ws'[s] PROVE Good(ws'[s][i])
      BY <1>1 DEF TreesInv
    <3>1. CASE s # scr
      <4>1. ws'[s] = ws[s] /\ Ready(s, i)
        BY <2>3, <3>1 DEF OnlyAt, Ready
      <4>2. i \in DOMAIN ws[s]
        BY <4>1
      <4> QED
        BY <4>1, <4>2, <1>1 DEF TreesInv
    <3>2. CASE s = scr
      <4>1. i \in DOMAIN ws[scr] /\ i # m /\ ws'[s][i] = ws[scr][i]
        BY <1>3, <2>3, <3>2
      <4> QED
        BY <1>9, <4>1
    <3> QED
      BY <3>1, <3>2
  <2> QED
    BY <1>6, <1>7, <1>8, <2>3, <2>4, <2>5 DEF WorkspacesInv
<1>11. CASE tree # NULL
  <2>1. w \in Workspaces /\ w.wins = ws[scr][m].wins /\ w.splitree = tree
    BY <1>3, <1>5 DEF Workspaces
  <2>2. ws' = [ws EXCEPT ![scr] = [ws[scr] EXCEPT ![m] = w]]
    BY <1>2, <1>11
  <2> HIDE DEF w
  <2>3. Children(w) = Children(ws[scr][m]) /\ IsInjective(w.wins) /\ Good(w)
    BY <1>3, <1>5, <1>11, <2>1 DEF Children, Good
  <2>4. /\ OnlyAt(ws, ws', scr) /\ Sole(ws')
        /\ AllFrames(ws') = AllFrames(ws) \ (Children(ws[scr][m]) \ Children(w))
        /\ Len(ws'[scr]) = Len(ws[scr]) /\ DOMAIN ws'[scr] = DOMAIN ws[scr]
        /\ \A i \in DOMAIN ws[scr] : ws'[scr][i] = IF i = m THEN w ELSE ws[scr][i]
    <3>1. Loses(ws, ws', scr, m, w)
      BY <1>1, <1>3, <2>1, <2>2, <2>3, WsIs DEF Loses
    <3>2. Lost(ws, ws', scr, m, w)
      BY <3>1, FramesLost
    <3> QED
      BY <3>2 DEF Lost
  <2>5. WsType' /\ FramesInv'
    <3>1. AllFrames(ws') = AllFrames(ws)
      BY <2>3, <2>4
    <3>2. Live' = AllFrames(ws') /\ Sole(ws')
      BY <1>8, <2>4, <3>1
    <3> QED
      BY <2>4, <3>2, WsBecomes
  <2>6. TreesInv'
    <3> SUFFICES ASSUME NEW s \in Screen, NEW i \in DOMAIN ws'[s] PROVE Good(ws'[s][i])
      BY <1>1 DEF TreesInv
    <3>1. CASE s # scr
      <4>1. ws'[s] = ws[s] /\ Ready(s, i)
        BY <2>4, <3>1 DEF OnlyAt, Ready
      <4>2. i \in DOMAIN ws[s]
        BY <4>1
      <4> QED
        BY <4>1, <4>2, <1>1 DEF TreesInv
    <3>2. CASE s = scr
      <4>1. i \in DOMAIN ws[scr] /\ ws'[s][i] = IF i = m THEN w ELSE ws[scr][i]
        BY <2>4, <3>2
      <4> QED
        BY <1>9, <2>3, <4>1
    <3> QED
      BY <3>1, <3>2
  <2> QED
    BY <1>6, <1>7, <1>8, <2>4, <2>5, <2>6 DEF WorkspacesInv
<1> QED
  BY <1>10, <1>11

\* A workspace of frame f is made.
Creates(W, V, s, w) ==
  /\ W \in AllWs /\ Sole(W) /\ s \in Screen /\ w \in Workspaces /\ IsInjective(w.wins)
  /\ \A f \in Children(w) : f \notin AllFrames(W)
  /\ V = [W EXCEPT ![s] = Append(W[s], w)]

Created(W, V, s, w) ==
  /\ OnlyAt(W, V, s) /\ Sole(V) /\ AllFrames(V) = AllFrames(W) \cup Children(w)
  /\ \A i \in DOMAIN V[s] : V[s][i] = w \/ (i \in DOMAIN W[s] /\ V[s][i] = W[s][i])

LEMMA WorkspaceCreated ==
  ASSUME NEW W, NEW V, NEW s, NEW w, Creates(W, V, s, w)
  PROVE  Created(W, V, s, w)
<1> USE DEF Creates
<1>1. W[s] \in Seq(Workspaces)
  BY DEF AllWs
<1>2. Append(W[s], w) \in Seq(Workspaces)
  BY <1>1, AppendFacts
<1>3. OnlyAt(W, V, s) /\ V[s] = Append(W[s], w)
  BY <1>2 DEF OnlyAt, AllWs
<1>4. Sole(V) /\ AllFrames(V) = AllFrames(W) \cup Children(w)
  <2>1. \A X, Y : OnlyAt(X, Y, s) /\ Y[s] = Append(X[s], w) /\ (\A f \in Children(w) : f \notin AllFrames(X))
                    => Sole(Y) /\ AllFrames(Y) = AllFrames(X) \cup Children(w)
    BY WorkspaceAppended
  <2>2. \A f \in Children(w) : f \notin AllFrames(W)
    OBVIOUS
  <2> HIDE DEF Creates
  <2> QED
    BY <1>3, <2>1, <2>2, Zenon
<1>5. ASSUME NEW i \in DOMAIN V[s] PROVE V[s][i] = w \/ (i \in DOMAIN W[s] /\ V[s][i] = W[s][i])
  <2>1. /\ DOMAIN Append(W[s], w) = 1..Len(W[s]) + 1 /\ Len(W[s]) \in Nat /\ DOMAIN W[s] = 1..Len(W[s])
        /\ \A k \in 1..Len(W[s]) + 1 : Append(W[s], w)[k] = IF k = Len(W[s]) + 1 THEN w ELSE W[s][k]
    BY <1>1, AppendFacts
  <2> QED
    BY <1>3, <1>5, <2>1
<1> QED
  BY <1>3, <1>4, <1>5 DEF Created

\* A workspace of one frame.
LEMMA OneFrame ==
  ASSUME NEW f \in Frame, NEW name \in {"workspace", "unreadable"}
  PROVE  LET w == [name |-> name, splitree |-> f, wins |-> <<f>>] IN
         Good(w) /\ IsInjective(w.wins) /\ Children(w) = {f}
<1> DEFINE w == [name |-> name, splitree |-> f, wins |-> <<f>>]
<1>1. f \in Atoms /\ f \in Trees /\ f # NULL /\ <<f>> \in Seq(Frame)
  BY AtomsAreTrees, SessionAssumption DEF Atoms
<1>2. Tips[f] = {f}
  BY <1>1, NoTips
<1>3. ToSet(<<f>>) = {f} /\ IsInjective(<<f>>)
  BY DEF ToSet, IsInjective
<1>4. w \in Workspaces /\ w.splitree = f /\ w.wins = <<f>>
  BY <1>1, WorkspaceFields
<1> HIDE DEF w
<1>5. Children(w) = {f} /\ IsInjective(w.wins)
  BY <1>3, <1>4 DEF Children
<1>6. Good(w)
  BY <1>1, <1>2, <1>4, <1>5 DEF Good, Proper, Leaves
<1> QED
  BY <1>5, <1>6 DEF w

\* All workspaces stay good, or become so, and the program goes on.
LEMMA RunningInv ==
  ASSUME WorkspacesInv, phase' \in {"scan", "run", "write"}, PhaseType', FilesType', WsType', IdsInv', FramesInv',
         \A s \in Screen : \A i \in DOMAIN ws'[s] : Good(ws'[s][i]),
         phase' = "write" => ws' = ws /\ phase = "write" /\ scr' = scr
  PROVE  WorkspacesInv'
<1>1. TreesInv'
  BY DEF TreesInv
<1>2. ReaderInv'
  BY DEF ReaderInv
<1>3. LeftInv'
  BY DEF LeftInv, WorkspacesInv
<1> QED
  BY <1>1, <1>2, <1>3 DEF WorkspacesInv

\* A workspace of one frame is made, by the reader or by a query.
LEMMA FrameCreated ==
  ASSUME WorkspacesInv, phase \in {"scan", "run", "write"} \/ (phase = "read" /\ reader.open = <<>>),
         phase' \in {"scan", "run"}, PhaseType', FilesType',
         NEW s \in Screen, NEW name \in {"workspace", "unreadable"}, NEW f \in Frame, InitFrameId(f, 0, Place),
         ws' = [ws EXCEPT ![s] = Append(ws[s], [name |-> name, splitree |-> f, wins |-> <<f>>])]
  PROVE  WorkspacesInv'
<1> DEFINE w == [name |-> name, splitree |-> f, wins |-> <<f>>]
<1>1. Good(w) /\ IsInjective(w.wins) /\ Children(w) = {f}
  BY OneFrame
<1>2. ws' = [ws EXCEPT ![s] = Append(ws[s], w)]
  OBVIOUS
<1> HIDE DEF w
<1>3. IdsInv' /\ f \notin Live /\ Live' = Live \cup {f}
  <2>1. 0 \in 0 .. INT_MAX
    BY FrameIdsAssumption
  <2> QED
    BY <2>1, FrameMade
<1>4. ws \in AllWs /\ Sole(ws) /\ Live = AllFrames(ws)
  BY WsIs DEF WorkspacesInv
<1>5. Creates(ws, ws', s, w)
  BY <1>1, <1>2, <1>3, <1>4 DEF Creates, Good
<1>6. Created(ws, ws', s, w)
  BY <1>5, WorkspaceCreated
<1>7. WsType' /\ FramesInv'
  <2>1. OnlyAt(ws, ws', s) /\ Sole(ws') /\ Live' = AllFrames(ws')
    BY <1>1, <1>3, <1>4, <1>6 DEF Created
  <2> QED
    BY <2>1, WsBecomes
<1>8. ASSUME NEW t \in Screen, NEW i \in DOMAIN ws'[t] PROVE Good(ws'[t][i])
  <2>1. CASE t # s
    <3>1. ws'[t] = ws[t]
      BY <1>6, <2>1 DEF Created, OnlyAt
    <3>2. i \in DOMAIN ws[t]
      BY <3>1
    <3> QED
      BY <3>1, <3>2, AllGood DEF WorkspacesInv
  <2>2. CASE t = s
    <3>1. ws'[s][i] = w \/ (i \in DOMAIN ws[s] /\ ws'[s][i] = ws[s][i])
      BY <1>6, <2>2 DEF Created
    <3> QED
      BY <1>1, <2>2, <3>1, AllGood DEF WorkspacesInv
  <2> QED
    BY <2>1, <2>2
<1> QED
  BY <1>3, <1>7, <1>8, RunningInv

LEMMA EndOfTextInv == ASSUME NEW f \in Frame PROVE WorkspacesInv /\ EndOfText(f) => WorkspacesInv'
<1> SUFFICES ASSUME WorkspacesInv, EndOfText(f) PROVE WorkspacesInv'
  OBVIOUS
<1>1. /\ FilesType /\ PhaseType /\ phase = "read" /\ Depth = 0 /\ phase' = "scan" /\ reader' = NoReader
      /\ UNCHANGED <<scr, files>>
  BY DEF EndOfText, WorkspacesInv
<1>2. scr \in Screen /\ reader.open = <<>>
  BY <1>1, ReaderFields DEF PhaseType
<1>3. PhaseType' /\ FilesType'
  BY <1>1, <1>2 DEF PhaseType, Phases, FilesType, NoReader
<1>4. CASE ws[scr] # <<>>
  <2>1. UNCHANGED <<idVars, ws>>
    BY <1>4 DEF EndOfText
  <2>2. WsType' /\ IdsInv' /\ FramesInv' /\ ws' = ws
    BY <2>1, SameWorkspaces DEF WorkspacesInv
  <2>3. \A s \in Screen : \A i \in DOMAIN ws'[s] : Good(ws'[s][i])
    BY <1>1, <1>2, <2>2, AllGood DEF WorkspacesInv
  <2> QED
    BY <1>1, <1>3, <2>2, <2>3, RunningInv
<1>5. CASE ws[scr] = <<>>
  <2>1. /\ InitFrameId(f, 0, Place)
        /\ ws' = [ws EXCEPT ![scr] = <<[name |-> "workspace", splitree |-> f, wins |-> <<f>>]>>]
    BY <1>5 DEF EndOfText
  <2>2. <<[name |-> "workspace", splitree |-> f, wins |-> <<f>>]>>
          = Append(ws[scr], [name |-> "workspace", splitree |-> f, wins |-> <<f>>])
    BY <1>5
  <2> QED
    BY <1>1, <1>2, <1>3, <2>1, <2>2, FrameCreated
<1> QED
  BY <1>4, <1>5

LEMMA CreateWorkspaceInv ==
  ASSUME NEW s \in Screen, NEW name \in {"workspace", "unreadable"}, NEW f \in Frame
  PROVE  WorkspacesInv /\ CreateWorkspace(s, name, f) => WorkspacesInv'
<1> SUFFICES ASSUME WorkspacesInv, CreateWorkspace(s, name, f) PROVE WorkspacesInv'
  OBVIOUS
<1>1. /\ phase = "run" /\ UNCHANGED <<phase, scr, files, reader>> /\ InitFrameId(f, 0, Place)
      /\ ws' = [ws EXCEPT ![s] = Append(ws[s], [name |-> name, splitree |-> f, wins |-> <<f>>])]
  BY DEF CreateWorkspace, Running
<1>2. PhaseType' /\ FilesType'
  BY <1>1 DEF WorkspacesInv, PhaseType, FilesType
<1> QED
  BY <1>1, <1>2, FrameCreated

-----------------------------------------------------------------------------
(* Frames that are split and destroyed. *)

\* The tree with f beside at.
SplitAt(whole, at, f, before) ==
  LET split == IF before THEN [tl |-> f, br |-> at] ELSE [tl |-> at, br |-> f]
  IN  IF at = whole THEN split ELSE Replaced(whole, at, split)

LEMMA SplitMade ==
  ASSUME NEW whole \in Trees, Proper(whole), Shallow(whole), NEW at \in Leaves(whole) \cup {whole},
         NEW f \in Frame, NEW before \in BOOLEAN, before => at = whole
  PROVE  LET tree == SplitAt(whole, at, f, before) IN
         tree \in Trees /\ Proper(tree) /\ Leaves(tree) = Leaves(whole) \cup {f}
<1> DEFINE tree == SplitAt(whole, at, f, before)
           n == MaxDepth - 1
<1>1. n \in 0 .. MaxDepth /\ n + 1 = MaxDepth /\ MaxDepth \in 0 .. MaxDepth /\ MaxDepth > 0
  BY SessionAssumption
<1>2. whole \in TreesOf[n] /\ f \in TreesOf[n] /\ f \in Trees /\ Tips[f] = {f} /\ f # NULL
  <2>1. f \in Atoms /\ f # NULL
    BY SessionAssumption DEF Atoms
  <2> QED
    BY <1>1, <2>1, AtomsAreTrees, NoTips DEF Shallow
<1>3. NULL \notin Tips[whole]
  BY DEF Proper
<1>4. CASE at = whole
  <2>1. CASE before
    <3>1. [tl |-> f, br |-> whole] \in TreesOf[MaxDepth] /\ Tips[[tl |-> f, br |-> whole]] = Tips[f] \cup Tips[whole]
      BY <1>1, <1>2, SplitOfTrees, TipsOfSplit
    <3>2. tree = [tl |-> f, br |-> whole]
      BY <1>4, <2>1 DEF SplitAt
    <3> HIDE DEF tree
    <3> QED
      BY <1>2, <1>3, <3>1, <3>2 DEF Proper, Leaves, Trees, tree
  <2>2. CASE ~before
    <3>1. [tl |-> whole, br |-> f] \in TreesOf[MaxDepth] /\ Tips[[tl |-> whole, br |-> f]] = Tips[whole] \cup Tips[f]
      BY <1>1, <1>2, SplitOfTrees, TipsOfSplit
    <3>2. tree = [tl |-> whole, br |-> f]
      BY <1>4, <2>2 DEF SplitAt
    <3> HIDE DEF tree
    <3> QED
      BY <1>2, <1>3, <3>1, <3>2 DEF Proper, Leaves, Trees, tree
  <2> QED
    BY <2>1, <2>2
<1>5. CASE at # whole
  <2> DEFINE new == [tl |-> at, br |-> f]
  <2>1. at \in Tips[whole] /\ at # NULL /\ at \in Atoms /\ at \in Frame
    <3>1. at \in Tips[whole] /\ at # NULL
      BY <1>5 DEF Leaves
    <3>2. at \in Atoms
      BY <3>1, TipsType
    <3> QED
      BY <3>1, <3>2 DEF Atoms
  <2>2. new \in TreesOf[1] /\ IsSplit(new) /\ Tips[new] = {at, f}
    <3>1. 1 \in 0 .. MaxDepth /\ 1 - 1 = 0 /\ 1 > 0 /\ 0 \in 0 .. MaxDepth
      BY <1>1
    <3>2. at \in TreesOf[0] /\ f \in TreesOf[0]
      BY <2>1, TreesOfStep DEF Atoms
    <3>3. new \in TreesOf[1] /\ IsSplit(new) /\ Tips[new] = Tips[at] \cup Tips[f]
      BY <3>1, <3>2, SplitOfTrees, TipsOfSplit
    <3>4. Tips[at] = {at}
      BY <2>1, NoTips, AtomsAreTrees
    <3> QED
      BY <1>2, <3>3, <3>4
  <2> HIDE DEF new
  <2>3. Deeper(whole, at, new, n)
    <3>1. n \in 0 .. MaxDepth - 1
      BY <1>1
    <3> QED
      BY <1>2, <2>1, <2>2, <3>1, FrameSplit
  <2>4. tree = Replaced(whole, at, new)
    BY <1>5 DEF SplitAt, new
  <2> HIDE DEF tree
  <2>5. tree \in TreesOf[MaxDepth] /\ Tips[tree] = (Tips[whole] \ {at}) \cup {at, f}
    BY <1>1, <2>1, <2>2, <2>3, <2>4 DEF Deeper
  <2>6. NULL \notin Tips[tree] /\ Tips[tree] \ {NULL} = (Tips[whole] \ {NULL}) \cup {f}
    BY <1>2, <1>3, <2>1, <2>5
  <2> QED
    BY <2>5, <2>6 DEF Proper, Leaves, Trees, tree
<1> QED
  BY <1>4, <1>5

\* A workspace stays good when it and its tree get a frame.
LEMMA GoodGrows ==
  ASSUME NEW w, Good(w), NEW f \in Frame, NEW tree \in Trees, Proper(tree), Leaves(tree) = Leaves(w.splitree) \cup {f},
         f \notin Children(w)
  PROVE  LET u == [w EXCEPT !.splitree = tree, !.wins = Append(w.wins, f)] IN
         Good(u) /\ u.wins = Append(w.wins, f)
<1> DEFINE q == Append(w.wins, f)
           u == [w EXCEPT !.splitree = tree, !.wins = q]
<1>1. w \in Workspaces /\ w.wins \in Seq(Frame) /\ w.name \in {"workspace", "unreadable"}
  BY WorkspaceFields DEF Good
<1>2. q \in Seq(Frame) /\ ToSet(q) = ToSet(w.wins) \cup {f}
  BY <1>1, AppendFacts
<1> HIDE DEF q
<1>3. u = [name |-> w.name, splitree |-> tree, wins |-> q]
  <2>1. w = [name |-> w.name, splitree |-> w.splitree, wins |-> w.wins]
    BY <1>1 DEF Workspaces
  <2>2. [w EXCEPT !.splitree = tree] = [name |-> w.name, splitree |-> tree, wins |-> w.wins]
    BY <2>1
  <2>3. [[name |-> w.name, splitree |-> tree, wins |-> w.wins] EXCEPT !.wins = q]
          = [name |-> w.name, splitree |-> tree, wins |-> q]
    OBVIOUS
  <2>4. u = [[w EXCEPT !.splitree = tree] EXCEPT !.wins = q]
    OBVIOUS
  <2> QED
    BY <2>2, <2>3, <2>4
<1> HIDE DEF u
<1>4. u \in Workspaces /\ u.splitree = tree /\ u.wins = q
  BY <1>1, <1>2, <1>3, WorkspaceFields
<1>5. Good(u)
  BY <1>2, <1>4 DEF Good, Children
<1> QED
  BY <1>4, <1>5 DEF q, u

LEMMA SplitInv ==
  ASSUME NEW s \in Screen, NEW i \in DOMAIN ws[s], NEW f \in Frame, NEW before \in BOOLEAN, NEW at
  PROVE  WorkspacesInv /\ Split(s, i, at, f, before) => WorkspacesInv'
<1> SUFFICES ASSUME WorkspacesInv, Split(s, i, at, f, before) PROVE WorkspacesInv'
  OBVIOUS
<1> DEFINE w == ws[s][i]
           tree == SplitAt(w.splitree, at, f, before)
           u == [w EXCEPT !.splitree = tree, !.wins = Append(w.wins, f)]
<1>1. /\ phase = "run" /\ UNCHANGED <<phase, scr, files, reader>> /\ InitFrameId(f, 0, Place)
      /\ Shallow(w.splitree) /\ at \in Leaves(w.splitree) \cup {w.splitree} /\ (before => at = w.splitree)
  BY DEF Split, Running
<1>2. ws' = [ws EXCEPT ![s] = [ws[s] EXCEPT ![i] = u]]
  <2>1. ws' = [ws EXCEPT ![s][i].splitree = tree, ![s][i].wins = Append(w.wins, f)]
    BY DEF Split, SplitAt
  <2>2. ws \in [Screen -> Seq(Workspaces)]
    BY DEF WorkspacesInv, WsType
  <2> HIDE DEF tree
  <2> QED
    BY <2>1, <2>2
<1>3. Good(w) /\ w.splitree \in Trees /\ Proper(w.splitree)
  <2>1. Good(w)
    BY <1>1, AllGood DEF WorkspacesInv
  <2> QED
    BY <2>1, GoodIs DEF Good
<1>4. IdsInv' /\ f \notin Live /\ Live' = Live \cup {f}
  <2>1. 0 \in 0 .. INT_MAX
    BY FrameIdsAssumption
  <2> QED
    BY <1>1, <2>1, FrameMade
<1>5. ws \in AllWs /\ Sole(ws) /\ Live = AllFrames(ws)
  BY WsIs DEF WorkspacesInv
<1>6. f \notin Children(w)
  BY <1>4, <1>5, InAllFrames
<1>7. tree \in Trees /\ Proper(tree) /\ Leaves(tree) = Leaves(w.splitree) \cup {f}
  BY <1>1, <1>3, SplitMade
<1> HIDE DEF tree
<1>8. Good(u) /\ u.wins = Append(w.wins, f)
  BY <1>3, <1>6, <1>7, GoodGrows
<1> HIDE DEF u
<1>9. Adds(ws, ws', s, i, u, f)
  BY <1>2, <1>4, <1>5, <1>8 DEF Adds, Good
<1>10. Added(ws, ws', s, i, u, f)
  BY <1>9, FrameAdded
<1>11. WsType' /\ FramesInv'
  <2>1. OnlyAt(ws, ws', s) /\ Sole(ws') /\ Live' = AllFrames(ws')
    BY <1>4, <1>5, <1>10 DEF Added
  <2> QED
    BY <2>1, WsBecomes
<1>12. ASSUME NEW t \in Screen, NEW j \in DOMAIN ws'[t] PROVE Good(ws'[t][j])
  <2>1. CASE t # s
    <3>1. ws'[t] = ws[t]
      BY <1>10, <2>1 DEF Added, OnlyAt
    <3>2. j \in DOMAIN ws[t]
      BY <3>1
    <3> QED
      BY <1>1, <3>1, <3>2, AllGood DEF WorkspacesInv
  <2>2. CASE t = s
    <3>1. j \in DOMAIN ws[s] /\ ws'[s][j] = IF j = i THEN u ELSE ws[s][j]
      <4>1. ws'[s] = [ws[s] EXCEPT ![i] = u]
        BY <1>10 DEF Added
      <4>2. ws[s] \in Seq(Workspaces) /\ u \in Workspaces
        BY <1>5, <1>8 DEF AllWs, Good
      <4> QED
        BY <2>2, <4>1, <4>2, EntrySet
    <3>2. Good(ws[s][j])
      BY <1>1, <3>1, AllGood DEF WorkspacesInv
    <3> QED
      BY <1>8, <2>2, <3>1, <3>2
  <2> QED
    BY <2>1, <2>2
<1>13. PhaseType' /\ FilesType'
  BY <1>1 DEF WorkspacesInv, PhaseType, FilesType
<1> QED
  BY <1>1, <1>4, <1>11, <1>12, <1>13, RunningInv

\* free_frame_id, of a frame in a workspace.
LEMMA FrameFreed ==
  ASSUME WorkspacesInv, NEW f \in Frame, FreeFrameId(f, Place)
  PROVE  IdsInv' /\ f \in Live /\ Live' = Live \ {f}
<1>1. Place \in Walk /\ IdsInv
  BY PlaceIsWalk DEF WorkspacesInv
<1> QED
  BY <1>1, FreeFrameIdEffect

\* A workspace stays good when it and its tree lose a frame.
LEMMA GoodShrinks ==
  ASSUME NEW w, Good(w), NEW f, IsInjective(w.wins), NEW tree \in Trees, Proper(tree),
         Leaves(tree) = Leaves(w.splitree) \ {f}
  PROVE  LET u == [w EXCEPT !.splitree = tree, !.wins = Unlinked(w.wins, f)] IN
         Good(u) /\ IsInjective(u.wins) /\ Children(u) = Children(w) \ {f}
<1> DEFINE q == Unlinked(w.wins, f)
           u == [w EXCEPT !.splitree = tree, !.wins = q]
<1>1. w \in Workspaces /\ w.wins \in Seq(Frame) /\ w.name \in {"workspace", "unreadable"}
  BY WorkspaceFields DEF Good
<1>2. q \in Seq(Frame) /\ IsInjective(q) /\ ToSet(q) = ToSet(w.wins) \ {f}
  BY <1>1, UnlinkedFacts
<1> HIDE DEF q
<1>3. u = [name |-> w.name, splitree |-> tree, wins |-> q]
  <2>1. w = [name |-> w.name, splitree |-> w.splitree, wins |-> w.wins]
    BY <1>1 DEF Workspaces
  <2>2. [w EXCEPT !.splitree = tree] = [name |-> w.name, splitree |-> tree, wins |-> w.wins]
    BY <2>1
  <2>3. [[name |-> w.name, splitree |-> tree, wins |-> w.wins] EXCEPT !.wins = q]
          = [name |-> w.name, splitree |-> tree, wins |-> q]
    OBVIOUS
  <2>4. u = [[w EXCEPT !.splitree = tree] EXCEPT !.wins = q]
    OBVIOUS
  <2> QED
    BY <2>2, <2>3, <2>4
<1> HIDE DEF u
<1>4. u \in Workspaces /\ u.splitree = tree /\ u.wins = q
  BY <1>1, <1>2, <1>3, WorkspaceFields
<1>5. Children(u) = Children(w) \ {f}
  BY <1>2, <1>4 DEF Children
<1>6. Good(u)
  BY <1>4, <1>5 DEF Good
<1> QED
  BY <1>2, <1>4, <1>5, <1>6 DEF q, u

LEMMA DestroyFrameInv ==
  ASSUME NEW s \in Screen, NEW i \in DOMAIN ws[s], NEW f \in Frame
  PROVE  WorkspacesInv /\ DestroyFrame(s, i, f) => WorkspacesInv'
<1> SUFFICES ASSUME WorkspacesInv, DestroyFrame(s, i, f) PROVE WorkspacesInv'
  OBVIOUS
<1> DEFINE w == ws[s][i]
           tree == Replaced(w.splitree, f, NULL)
           u == [w EXCEPT !.splitree = tree, !.wins = Unlinked(w.wins, f)]
           v == RemoveAt(ws[s], i)
<1>1. /\ phase = "run" /\ UNCHANGED <<phase, scr, files, reader>> /\ FreeFrameId(f, Place)
      /\ f \in Leaves(w.splitree)
  BY DEF DestroyFrame, Running
<1>2. tree = NULL => ws' = [ws EXCEPT ![s] = v]
  BY DEF DestroyFrame
<1>3. tree # NULL => ws' = [ws EXCEPT ![s] = [ws[s] EXCEPT ![i] = u]]
  <2> SUFFICES ASSUME tree # NULL PROVE ws' = [ws EXCEPT ![s] = [ws[s] EXCEPT ![i] = u]]
    OBVIOUS
  <2>1. ws' = [ws EXCEPT ![s][i].splitree = tree, ![s][i].wins = Unlinked(w.wins, f)]
    BY DEF DestroyFrame
  <2>2. ws \in [Screen -> Seq(Workspaces)]
    BY DEF WorkspacesInv, WsType
  <2> HIDE DEF tree
  <2> QED
    BY <2>1, <2>2
<1>4. Good(w) /\ w.splitree \in Trees /\ Proper(w.splitree)
  <2>1. Good(w)
    BY <1>1, AllGood DEF WorkspacesInv
  <2> QED
    BY <2>1, GoodIs DEF Good
<1>5. IdsInv' /\ f \in Live /\ Live' = Live \ {f}
  BY <1>1, FrameFreed
<1>6. ws \in AllWs /\ Sole(ws) /\ Live = AllFrames(ws) /\ ws[s] \in Seq(Workspaces)
  BY WsIs DEF WorkspacesInv, AllWs
<1>7. IsInjective(w.wins) /\ f \in Children(w)
  BY <1>1, <1>4, <1>6 DEF Sole, Good
<1>8. Removed(w.splitree, f, MaxDepth)
  <2>1. MaxDepth \in 0 .. MaxDepth /\ w.splitree \in TreesOf[MaxDepth]
    BY <1>4, SessionAssumption DEF Trees
  <2> QED
    BY <1>4, <2>1, FrameRemoved
<1>9. PhaseType' /\ FilesType'
  BY <1>1 DEF WorkspacesInv, PhaseType, FilesType
<1>10. CASE tree = NULL
  <2>1. Children(w) = {f}
    <3>1. Tips[w.splitree] = {f}
      BY <1>8, <1>10 DEF Removed
    <3>2. f # NULL
      BY SessionAssumption
    <3> QED
      BY <1>4, <3>1, <3>2 DEF Good, Leaves
  <2>2. v \in Seq(Workspaces) /\ LeftOut(ws[s], i, v)
    BY <1>6, RemoveAtLeaves
  <2> HIDE DEF v
  <2>3. Goes(ws, ws', s, i, v)
    BY <1>2, <1>6, <1>10, <2>2 DEF Goes
  <2>4. Went(ws, ws', s, i)
    BY <2>3, WorkspaceGone
  <2>5. WsType' /\ FramesInv'
    <3>1. OnlyAt(ws, ws', s) /\ Sole(ws') /\ Live' = AllFrames(ws')
      BY <1>5, <1>6, <2>1, <2>4 DEF Went
    <3> QED
      BY <3>1, WsBecomes
  <2>6. ASSUME NEW t \in Screen, NEW j \in DOMAIN ws'[t] PROVE Good(ws'[t][j])
    <3>1. CASE t # s
      <4>1. ws'[t] = ws[t]
        BY <2>4, <3>1 DEF Went, OnlyAt
      <4>2. j \in DOMAIN ws[t]
        BY <4>1
      <4> QED
        BY <1>1, <4>1, <4>2, AllGood DEF WorkspacesInv
    <3>2. CASE t = s
      <4>1. PICK k \in DOMAIN ws[s] : ws'[s][j] = ws[s][k]
        BY <2>4, <3>2 DEF Went
      <4> QED
        BY <1>1, <3>2, <4>1, AllGood DEF WorkspacesInv
    <3> QED
      BY <3>1, <3>2
  <2> QED
    BY <1>1, <1>5, <1>9, <2>5, <2>6, RunningInv
<1>11. CASE tree # NULL
  <2>1. tree \in Trees /\ Proper(tree) /\ Leaves(tree) = Leaves(w.splitree) \ {f}
    <3>1. tree \in TreesOf[MaxDepth] /\ Tips[tree] = Tips[w.splitree] \ {f}
      BY <1>8, <1>11 DEF Removed
    <3> HIDE DEF tree
    <3> QED
      BY <1>4, <3>1 DEF Proper, Leaves, Trees
  <2> HIDE DEF tree
  <2>2. Good(u) /\ IsInjective(u.wins) /\ Children(u) = Children(w) \ {f}
    BY <1>4, <1>7, <2>1, GoodShrinks
  <2> HIDE DEF u
  <2>3. Loses(ws, ws', s, i, u)
    BY <1>3, <1>6, <1>11, <2>2 DEF Loses, Good
  <2>4. Lost(ws, ws', s, i, u)
    BY <2>3, FramesLost
  <2>5. WsType' /\ FramesInv'
    <3>1. OnlyAt(ws, ws', s) /\ Sole(ws') /\ Live' = AllFrames(ws')
      BY <1>5, <1>6, <1>7, <2>2, <2>4 DEF Lost
    <3> QED
      BY <3>1, WsBecomes
  <2>6. ASSUME NEW t \in Screen, NEW j \in DOMAIN ws'[t] PROVE Good(ws'[t][j])
    <3>1. CASE t # s
      <4>1. ws'[t] = ws[t]
        BY <2>4, <3>1 DEF Lost, OnlyAt
      <4>2. j \in DOMAIN ws[t]
        BY <4>1
      <4> QED
        BY <1>1, <4>1, <4>2, AllGood DEF WorkspacesInv
    <3>2. CASE t = s
      <4>1. j \in DOMAIN ws[s] /\ ws'[s][j] = IF j = i THEN u ELSE ws[s][j]
        BY <2>4, <3>2 DEF Lost
      <4>2. Good(ws[s][j])
        BY <1>1, <4>1, AllGood DEF WorkspacesInv
      <4> QED
        BY <2>2, <3>2, <4>1, <4>2
    <3> QED
      BY <3>1, <3>2
  <2> QED
    BY <1>1, <1>5, <1>9, <2>5, <2>6, RunningInv
<1> QED
  BY <1>10, <1>11

-----------------------------------------------------------------------------
(* The end of the program. *)

LEMMA DeinitFrameInv == WorkspacesInv /\ DeinitFrame => WorkspacesInv'
<1> SUFFICES ASSUME WorkspacesInv, DeinitFrame PROVE WorkspacesInv'
  OBVIOUS
<1> DEFINE w == ws[scr][1]
           f == Head(w.wins)
           u == [w EXCEPT !.wins = Tail(w.wins)]
           v == Tail(ws[scr])
<1>1. /\ phase = "deinit" /\ UNCHANGED <<phase, scr, files, reader>> /\ FreeFrameId(f, Place)
      /\ ws[scr] # <<>>
  BY DEF DeinitFrame
<1>2. /\ Len(w.wins) = 1 => ws' = [ws EXCEPT ![scr] = v]
      /\ Len(w.wins) # 1 => ws' = [ws EXCEPT ![scr] = [ws[scr] EXCEPT ![1] = u]]
  BY DEF DeinitFrame
<1>3. /\ scr \in Screen /\ ws \in AllWs /\ Sole(ws) /\ Live = AllFrames(ws) /\ ws[scr] \in Seq(Workspaces)
      /\ PhaseType /\ FilesType /\ TreesInv /\ LeftInv
  BY <1>1, WsIs DEF WorkspacesInv, AllWs, PhaseType
<1>4. 1 \in DOMAIN ws[scr] /\ w \in Workspaces /\ v \in Seq(Workspaces) /\ LeftOut(ws[scr], 1, v)
  BY <1>1, <1>3, TailLeaves
<1>5. w.wins \in Seq(Frame) /\ w.wins # <<>> /\ IsInjective(w.wins)
  BY <1>1, <1>3, <1>4, WorkspaceFields DEF TreesInv, Sole
<1>6. /\ 1 \in DOMAIN w.wins /\ f = w.wins[1] /\ f \in Frame /\ Tail(w.wins) \in Seq(Frame)
      /\ IsInjective(Tail(w.wins)) /\ ToSet(Tail(w.wins)) = ToSet(w.wins) \ {f}
      /\ Len(w.wins) = 1 => Children(w) = {f}
  <2>1. Tail(w.wins) \in Seq(Frame) /\ LeftOut(w.wins, 1, Tail(w.wins)) /\ 1 \in DOMAIN w.wins /\ f = w.wins[1]
    BY <1>5, TailLeaves
  <2>2. IsInjective(Tail(w.wins)) /\ ToSet(Tail(w.wins)) = ToSet(w.wins) \ {f}
    <3>1. IsInjective(Tail(w.wins)) /\ ToSet(Tail(w.wins)) = ToSet(w.wins) \ {w.wins[1]}
      <4> HIDE DEF f
      <4> DEFINE q == w.wins
                 r == Tail(w.wins)
      <4>1. q \in Seq(Frame) /\ r \in Seq(Frame) /\ LeftOut(q, 1, r) /\ 1 \in DOMAIN q /\ IsInjective(q)
        BY <1>5, <2>1
      <4> HIDE DEF q, r
      <4>2. IsInjective(r) /\ ToSet(r) = ToSet(q) \ {q[1]}
        BY <4>1, LeftOutFacts
      <4> QED
        BY <4>2 DEF q, r
    <3> QED
      BY <2>1, <3>1
  <2>3. Len(w.wins) = 1 => DOMAIN w.wins = {1}
    BY <1>5
  <2>4. Len(w.wins) = 1 => ToSet(w.wins) = {f}
    BY <2>1, <2>3 DEF ToSet
  <2> QED
    BY <1>5, <2>1, <2>2, <2>4 DEF Children
<1>7. f \in Children(w)
  BY <1>6 DEF Children, ToSet
<1> HIDE DEF f, v
<1>8. IdsInv' /\ f \in Live /\ Live' = Live \ {f}
  BY <1>1, <1>6, FrameFreed
<1>9. PhaseType' /\ FilesType' /\ ReaderInv'
  BY <1>1, <1>3 DEF PhaseType, FilesType, ReaderInv
<1>10. ASSUME OnlyAt(ws, ws', scr), \A i \in DOMAIN ws'[scr] : ws'[scr][i].wins # <<>>
       PROVE  TreesInv' /\ LeftInv'
  <2>1. ASSUME NEW s \in Screen, s # scr PROVE ws'[s] = ws[s]
    BY <1>10, <2>1 DEF OnlyAt
  <2>2. LeftInv'
    BY <1>1, <1>3, <2>1 DEF LeftInv, Screen
  <2>3. ASSUME NEW s \in Screen, NEW i \in DOMAIN ws'[s]
        PROVE  (Ready(s, i)' => Good(ws'[s][i])) /\ ws'[s][i].wins # <<>>
    <3>1. CASE s # scr
      <4>1. ws'[s] = ws[s] /\ i \in DOMAIN ws[s] /\ Ready(s, i)
        BY <2>1, <3>1 DEF Ready
      <4> QED
        BY <1>1, <1>3, <4>1 DEF TreesInv
    <3>2. CASE s = scr
      BY <1>1, <1>10, <3>2 DEF Ready
    <3> QED
      BY <3>1, <3>2
  <2> QED
    BY <2>2, <2>3 DEF TreesInv
<1>11. CASE Len(w.wins) = 1
  <2>1. Goes(ws, ws', scr, 1, v)
    BY <1>2, <1>3, <1>4, <1>11 DEF Goes
  <2>2. Went(ws, ws', scr, 1)
    BY <2>1, WorkspaceGone
  <2>3. WsType' /\ FramesInv'
    <3>1. OnlyAt(ws, ws', scr) /\ Sole(ws') /\ Live' = AllFrames(ws')
      BY <1>3, <1>6, <1>8, <1>11, <2>2 DEF Went
    <3> QED
      BY <3>1, WsBecomes
  <2>4. \A i \in DOMAIN ws'[scr] : ws'[scr][i].wins # <<>>
    BY <1>1, <1>3, <2>2 DEF Went, TreesInv
  <2> QED
    BY <1>8, <1>9, <1>10, <2>2, <2>3, <2>4 DEF Went, WorkspacesInv
<1>12. CASE Len(w.wins) # 1
  <2>1. u \in Workspaces /\ u.wins = Tail(w.wins) /\ u.wins # <<>>
    <3>1. u \in Workspaces /\ u.wins = Tail(w.wins)
      BY <1>4, <1>6 DEF Workspaces
    <3>2. Len(Tail(w.wins)) = Len(w.wins) - 1 /\ Len(w.wins) \in Nat \ {0}
      <4> DEFINE q == w.wins
      <4> HIDE DEF q, u
      <4>1. q \in Seq(Frame) /\ q # <<>>
        BY <1>5 DEF q
      <4>2. Len(Tail(q)) = Len(q) - 1 /\ Len(q) \in Nat \ {0}
        BY <4>1
      <4> QED
        BY <4>2 DEF q
    <3>3. Tail(w.wins) # <<>>
      <4>1. Len(Tail(w.wins)) # 0
        BY <1>12, <3>2
      <4>2. \A t : t = <<>> => Len(t) = 0
        OBVIOUS
      <4> QED
        BY <4>1, <4>2, Zenon
    <3> QED
      BY <3>1, <3>3
  <2>2. ws' = [ws EXCEPT ![scr] = [ws[scr] EXCEPT ![1] = u]]
    BY <1>2, <1>12
  <2> HIDE DEF u
  <2>3. Children(u) = Children(w) \ {f} /\ IsInjective(u.wins)
    BY <1>6, <2>1 DEF Children
  <2>4. Loses(ws, ws', scr, 1, u)
    BY <1>3, <1>4, <2>1, <2>2, <2>3 DEF Loses
  <2>5. Lost(ws, ws', scr, 1, u)
    BY <2>4, FramesLost
  <2>6. WsType' /\ FramesInv'
    <3>1. OnlyAt(ws, ws', scr) /\ Sole(ws') /\ Live' = AllFrames(ws')
      BY <1>3, <1>7, <1>8, <2>3, <2>5 DEF Lost
    <3> QED
      BY <3>1, WsBecomes
  <2>7. \A i \in DOMAIN ws'[scr] : ws'[scr][i].wins # <<>>
    BY <1>1, <1>3, <2>1, <2>5 DEF Lost, TreesInv
  <2> QED
    BY <1>8, <1>9, <1>10, <2>5, <2>6, <2>7 DEF Lost, WorkspacesInv
<1> QED
  BY <1>11, <1>12

\* There are no workspaces, and no ids.
LEMMA EmptyInv ==
  ASSUME Restart, \A s \in Screen : ws'[s] = <<>>, ws' \in AllWs, phase' = "down", PhaseType', FilesType'
  PROVE  WorkspacesInv'
<1>1. IdsInv' /\ Live' = {}
  BY RestartEffect
<1>2. AllFrames(ws') = {} /\ Sole(ws')
  BY DEF AllFrames, Sole
<1>3. WsType' /\ FramesInv'
  BY <1>1, <1>2, FramesInvIs DEF WsType, AllWs
<1>4. TreesInv' /\ ReaderInv' /\ LeftInv'
  BY DEF TreesInv, ReaderInv, LeftInv
<1> QED
  BY <1>1, <1>3, <1>4 DEF WorkspacesInv

LEMMA DeinitDoneInv == WorkspacesInv /\ DeinitDone => WorkspacesInv'
<1> SUFFICES ASSUME WorkspacesInv, DeinitDone PROVE WorkspacesInv'
  OBVIOUS
<1>1. /\ phase = "deinit" /\ ws[scr] = <<>> /\ UNCHANGED <<files, ws, reader>> /\ scr \in Screen
      /\ PhaseType /\ FilesType /\ TreesInv /\ LeftInv /\ WsType /\ FramesInv /\ IdsInv
  BY DEF DeinitDone, WorkspacesInv, PhaseType
<1>2. FilesType' /\ ws' = ws /\ Screens \in Nat
  BY <1>1, SessionAssumption DEF FilesType
<1>3. ASSUME NEW s \in Screen, s <= scr PROVE ws[s] = <<>>
  <2>1. s < scr \/ s = scr
    BY <1>1, <1>3 DEF Screen
  <2> QED
    BY <1>1, <2>1 DEF LeftInv
<1>4. CASE scr < Screens
  <2>1. phase' = "write" /\ scr' = scr + 1 /\ UNCHANGED idVars
    BY <1>4 DEF DeinitDone
  <2>2. PhaseType'
    BY <1>1, <1>2, <1>4, <2>1 DEF PhaseType, Phases, Screen
  <2>3. WsType' /\ IdsInv' /\ FramesInv'
    BY <1>1, <1>2, <2>1, SameWorkspaces
  <2>4. LeftInv'
    BY <1>1, <1>2, <1>3, <2>1 DEF LeftInv, Screen
  <2>5. ASSUME NEW s \in Screen, NEW i \in DOMAIN ws[s] PROVE Good(ws[s][i])
    <3>1. s # scr
      BY <1>1, <2>5
    <3> QED
      BY <1>1, <3>1 DEF TreesInv, Ready
  <2>6. TreesInv' /\ ReaderInv'
    BY <1>2, <2>1, <2>5 DEF TreesInv, ReaderInv
  <2> QED
    BY <1>2, <2>2, <2>3, <2>4, <2>6 DEF WorkspacesInv
<1>5. CASE ~(scr < Screens)
  <2>1. phase' = "down" /\ scr' = 0 /\ Restart
    BY <1>5 DEF DeinitDone
  <2>2. PhaseType'
    BY <1>2, <2>1 DEF PhaseType, Phases
  <2>3. ws' \in AllWs /\ \A s \in Screen : ws'[s] = <<>>
    BY <1>1, <1>2, <1>3, <1>5 DEF Screen, WsType, AllWs
  <2> QED
    BY <1>2, <2>1, <2>2, <2>3, EmptyInv
<1> QED
  BY <1>4, <1>5

LEMMA CrashInv == WorkspacesInv /\ Crash => WorkspacesInv'
<1> SUFFICES ASSUME WorkspacesInv, Crash PROVE WorkspacesInv'
  OBVIOUS
<1>1. /\ phase' = "down" /\ scr' = 0 /\ Restart /\ ws' = [s \in Screen |-> <<>>] /\ reader' = NoReader
      /\ PhaseType /\ FilesType /\ WsType /\ IdsType
  BY DEF Crash, Gone, WorkspacesInv, IdsInv
<1>2. PhaseType'
  BY <1>1, SessionAssumption DEF PhaseType, Phases
<1>3. files' \in [Screen -> Seq(Items)]
  <2>1. CASE phase = "write"
    <3>1. PICK text \in Cut(WriteWorkspaces(scr)) : files' = [files EXCEPT ![scr] = text]
      BY <2>1 DEF Crash
    <3>2. scr \in Screen /\ ws[scr] \in Seq(Workspaces)
      BY <1>1, <2>1 DEF PhaseType, WsType
    <3>3. text \in Seq(Items)
      BY <1>1, <3>2, WriteWorkspacesType, CutType
    <3> QED
      BY <1>1, <3>1, <3>3 DEF FilesType
  <2>2. CASE phase # "write"
    BY <1>1, <2>2 DEF Crash, FilesType
  <2> QED
    BY <2>1, <2>2
<1>4. FilesType'
  BY <1>1, <1>3 DEF FilesType, NoReader
<1>5. ws' \in AllWs /\ \A s \in Screen : ws'[s] = <<>>
  BY <1>1 DEF AllWs
<1> QED
  BY <1>1, <1>2, <1>4, <1>5, EmptyInv


\* A file that could be written is, the other stays.
LEMMA WritesInv == WorkspacesInv /\ (Write \/ WriteFails) => WorkspacesInv'
<1> SUFFICES ASSUME WorkspacesInv, Write \/ WriteFails PROVE WorkspacesInv'
  OBVIOUS
<1>1. phase = "write" /\ phase' = "deinit" /\ UNCHANGED <<idVars, scr, ws, reader>>
  BY DEF Write, WriteFails
<1>2. PhaseType /\ FilesType /\ WsType /\ IdsType /\ scr \in Screen
  BY <1>1 DEF WorkspacesInv, IdsInv, PhaseType
<1>3. files' \in [Screen -> Seq(Items)]
  <2>1. ws[scr] \in Seq(Workspaces)
    BY <1>2 DEF WsType
  <2>2. WriteWorkspaces(scr) \in Seq(Items)
    BY <1>2, <2>1, WriteWorkspacesType
  <2>3. files' = [files EXCEPT ![scr] = WriteWorkspaces(scr)] \/ files' = files
    BY DEF Write, WriteFails
  <2> HIDE DEF WriteWorkspaces
  <2> QED
    BY <1>2, <2>2, <2>3 DEF FilesType
<1>4. PhaseType' /\ FilesType'
  BY <1>1, <1>2, <1>3 DEF PhaseType, Phases, FilesType
<1> QED
  BY <1>1, <1>4, PhaseInv

\* No workspace, frame, file or phase changes.
LEMMA StaysInv ==
  ASSUME WorkspacesInv, UNCHANGED <<idVars, phase, scr, files, ws, reader>>
  PROVE  WorkspacesInv'
<1>1. WsType' /\ IdsInv' /\ FramesInv' /\ ws' = ws
  BY SameWorkspaces DEF WorkspacesInv
<1>2. PhaseType' /\ FilesType'
  BY DEF WorkspacesInv, PhaseType, FilesType
<1>3. TreesInv'
  <2>1. ASSUME NEW s \in Screen, NEW i \in DOMAIN ws[s]
        PROVE  (Ready(s, i)' => Good(ws[s][i])) /\ (phase = "deinit" => ws[s][i].wins # <<>>)
    <3>1. Ready(s, i)' <=> Ready(s, i)
      BY <1>1 DEF Ready, Depth
    <3> QED
      BY <3>1 DEF WorkspacesInv, TreesInv
  <2> QED
    BY <1>1, <2>1 DEF TreesInv
<1>4. ReaderInv' /\ LeftInv'
  BY <1>1 DEF WorkspacesInv, ReaderInv, LeftInv
<1> QED
  BY <1>1, <1>2, <1>3, <1>4 DEF WorkspacesInv

LEMMA EndOfScanInv == WorkspacesInv /\ EndOfScan => WorkspacesInv'
<1> SUFFICES ASSUME WorkspacesInv, EndOfScan PROVE WorkspacesInv'
  OBVIOUS
<1>1. phase = "scan" /\ UNCHANGED <<idVars, files, ws>> /\ PhaseType /\ FilesType /\ scr \in Screen
  BY DEF EndOfScan, WorkspacesInv, PhaseType
<1>2. Screens \in Nat \ {0}
  BY SessionAssumption
<1>3. CASE scr < Screens
  <2>1. phase' = "read" /\ scr' = scr + 1 /\ reader' = [NoReader EXCEPT !.rest = files[scr + 1]]
    BY <1>3 DEF EndOfScan
  <2>2. scr + 1 \in Screen
    BY <1>1, <1>2, <1>3 DEF Screen
  <2>3. reader' = [rest |-> files[scr + 1], open |-> <<>>, skip |-> 0] /\ files[scr + 1] \in Seq(Items)
    BY <1>1, <2>1, <2>2 DEF NoReader, FilesType
  <2>4. PhaseType' /\ FilesType'
    <3>1. PhaseType'
      BY <1>2, <2>1, <2>2 DEF PhaseType, Phases, Screen
    <3>2. files' \in [Screen -> Seq(Items)]
      BY <1>1 DEF FilesType
    <3>3. reader' \in [rest : Seq(Items), open : Seq(OpenTrees), skip : Nat]
      BY <2>3
    <3> QED
      BY <3>1, <3>2, <3>3 DEF FilesType
  <2>5. WsType' /\ IdsInv' /\ FramesInv' /\ ws' = ws
    BY <1>1, SameWorkspaces DEF WorkspacesInv
  <2>6. \A s \in Screen : \A i \in DOMAIN ws[s] : Good(ws[s][i])
    BY <1>1, AllGood DEF WorkspacesInv
  <2>7. TreesInv' /\ LeftInv'
    BY <2>1, <2>5, <2>6 DEF TreesInv, LeftInv
  <2>8. ReaderInv'
    BY <2>3, SessionAssumption DEF ReaderInv, OpenOk
  <2> QED
    BY <2>4, <2>5, <2>7, <2>8 DEF WorkspacesInv
<1>4. CASE ~(scr < Screens)
  <2>1. phase' = "run" /\ scr' = 0 /\ UNCHANGED reader
    BY <1>4 DEF EndOfScan
  <2>2. PhaseType' /\ FilesType'
    BY <1>1, <1>2, <2>1 DEF PhaseType, Phases, FilesType
  <2> QED
    BY <1>1, <2>1, <2>2, PhaseInv
<1> QED
  BY <1>3, <1>4

LEMMA ExitInv == WorkspacesInv /\ Exit => WorkspacesInv'
<1> SUFFICES ASSUME WorkspacesInv, Exit PROVE WorkspacesInv'
  OBVIOUS
<1>1. phase = "run" /\ phase' = "write" /\ scr' = 1 /\ UNCHANGED <<idVars, files, ws, reader>> /\ FilesType
  BY DEF Exit, WorkspacesInv
<1>2. PhaseType' /\ FilesType'
  BY <1>1, SessionAssumption DEF PhaseType, Phases, FilesType, Screen
<1> QED
  BY <1>1, <1>2, PhaseInv

LEMMA WorkspacesNextInv == WorkspacesInv /\ [Next]_vars => WorkspacesInv'
<1> SUFFICES ASSUME WorkspacesInv, [Next]_vars PROVE WorkspacesInv'
  OBVIOUS
<1>1. CASE UNCHANGED vars
  BY <1>1, StaysInv DEF vars, sessionVars
<1>2. CASE Start
  BY <1>2, StartInv
<1>3. CASE OptWorkspace
  BY <1>3, OptWorkspaceInv
<1>4. CASE OptSplit
  BY <1>4, OptSplitInv
<1>5. CASE Skip \/ SkippedEnd
  BY <1>5, SkipInv
<1>6. CASE OptSplitEnd
  BY <1>6, OptSplitEndInv
<1>7. CASE OptWorkspaceEnd
  BY <1>7, OptWorkspaceEndInv
<1>8. ASSUME NEW f \in Frame, OptFrame(f) \/ EndOfText(f) PROVE WorkspacesInv'
  BY <1>8, OptFrameInv, EndOfTextInv
<1>9. CASE EndOfScan
  BY <1>9, EndOfScanInv
<1>10. ASSUME NEW w \in Window, Scan(w) \/ Unmap(w) PROVE WorkspacesInv'
  BY <1>10, StaysInv DEF Scan, Unmap
<1>11. ASSUME NEW w \in Window, NEW s \in Screen, Map(w, s) \/ Elsewhere(w, s) PROVE WorkspacesInv'
  BY <1>11, StaysInv DEF Map, Elsewhere
<1>12. ASSUME NEW c \in clients, NEW f \in Live, Attach(c, f) PROVE WorkspacesInv'
  BY <1>12, StaysInv DEF Attach
<1>13. ASSUME NEW s \in Screen, NEW f \in Frame, NEW name \in {"workspace", "unreadable"},
              CreateWorkspace(s, name, f)
       PROVE  WorkspacesInv'
  BY <1>13, CreateWorkspaceInv
<1>14. ASSUME NEW s \in Screen, NEW f \in Frame, NEW i \in DOMAIN ws[s], DestroyFrame(s, i, f)
       PROVE  WorkspacesInv'
  BY <1>14, DestroyFrameInv
<1>15. ASSUME NEW s \in Screen, NEW f \in Frame, NEW i \in DOMAIN ws[s],
              NEW at \in Leaves(ws[s][i].splitree) \cup {ws[s][i].splitree}, NEW before \in BOOLEAN,
              Split(s, i, at, f, before)
       PROVE  WorkspacesInv'
  BY <1>15, SplitInv
<1>16. CASE Exit
  BY <1>16, ExitInv
<1>17. CASE Write \/ WriteFails
  BY <1>17, WritesInv
<1>18. CASE DeinitFrame
  BY <1>18, DeinitFrameInv
<1>19. CASE DeinitDone
  BY <1>19, DeinitDoneInv
<1>20. CASE Crash
  BY <1>20, CrashInv
<1>21. CASE Stopped
  BY <1>1, <1>21 DEF Stopped
<1> QED
  BY <1>1, <1>2, <1>3, <1>4, <1>5, <1>6, <1>7, <1>8, <1>9, <1>10, <1>11, <1>12, <1>13, <1>14, <1>15,
     <1>16, <1>17, <1>18, <1>19, <1>20, <1>21 DEF Next

-----------------------------------------------------------------------------
(* Clients and the property of their windows, as a function of what changes. *)

ClientType == [wins : Seq(Window), frame : Frame, owner : Window \cup {NULL}]

\* Client c, with the properties p, the ids a and the screens r of the windows: the window
\* that it was made for is its first one, with the id of its frame.
ClientOk(c, p, a, r) ==
  /\ c.wins # <<>> /\ IsInjective(c.wins) /\ a[c.frame] # 0
  /\ \A v \in ToSet(c.wins) : r[v] # 0
  /\ c.owner # NULL => Head(c.wins) = c.owner /\ p[c.owner] = a[c.frame]

\* A window is of one client.
Apart(C) == \A c, d \in C : \A v \in Window : v \in ToSet(c.wins) /\ v \in ToSet(d.wins) => c = d

ClientsOk(C, p, a, r) ==
  /\ C \subseteq ClientType /\ p \in [Window -> Nat]
  /\ \A c \in C : ClientOk(c, p, a, r)
  /\ Apart(C)

IdsFrom == [Frame -> 0 .. INT_MAX]

LEMMA ClientFields ==
  ASSUME NEW c \in ClientType
  PROVE  /\ c.wins \in Seq(Window) /\ c.frame \in Frame /\ c.owner \in Window \cup {NULL}
         /\ c = [wins |-> c.wins, frame |-> c.frame, owner |-> c.owner]
BY DEF ClientType

LEMMA FirstWindow ==
  ASSUME NEW q \in Seq(Window), q # <<>>
  PROVE  Head(q) \in ToSet(q) /\ Head(q) \in Window /\ Head(q) = q[1] /\ 1 \in DOMAIN q
BY DEF ToSet

\* A client that has the first window of c is c.
LEMMA SameFirst ==
  ASSUME NEW C, NEW p, NEW a, NEW r, ClientsOk(C, p, a, r), NEW c \in C, NEW d \in C, Head(c.wins) = Head(d.wins)
  PROVE  c = d
<1>1. c \in ClientType /\ d \in ClientType /\ c.wins # <<>> /\ d.wins # <<>> /\ Apart(C)
  BY DEF ClientsOk, ClientOk
<1>2. c.wins \in Seq(Window) /\ d.wins \in Seq(Window)
  BY <1>1, ClientFields
<1>3. Head(c.wins) \in ToSet(c.wins) /\ Head(c.wins) \in ToSet(d.wins) /\ Head(c.wins) \in Window
  BY <1>1, <1>2, FirstWindow
<1> QED
  BY <1>1, <1>3 DEF Apart

\* The ids of other frames than those of the clients change.
LEMMA OtherIds ==
  ASSUME NEW C, NEW p, NEW a \in IdsFrom, NEW b \in IdsFrom, NEW r, NEW f \in Frame,
         ClientsOk(C, p, a, r), \A c \in C : c.frame # f, OthersSame(a, b, f)
  PROVE  ClientsOk(C, p, b, r)
<1>1. ASSUME NEW c \in C PROVE ClientOk(c, p, b, r)
  <2>1. c.frame \in Frame \ {f} /\ ClientOk(c, p, a, r)
    BY ClientFields DEF ClientsOk
  <2>2. b[c.frame] = a[c.frame]
    BY <2>1 DEF OthersSame
  <2> QED
    BY <2>1, <2>2 DEF ClientOk
<1> QED
  BY <1>1 DEF ClientsOk

\* reorder_frame_ids sets the properties to the new ids.
LEMMA ClientsRenumbered ==
  ASSUME NEW C, NEW p, NEW a \in IdsFrom, NEW b \in IdsFrom, NEW r, NEW f \in Frame,
         ClientsOk(C, p, a, r), \A c \in C : c.frame # f, OthersKeep(a, b, f)
  PROVE  ClientsOk(C, SetClientFrameIds(C, Counted(b), b, p), b, r)
<1> DEFINE q == SetClientFrameIds(C, Counted(b), b, p)
           first(w) == CHOOSE c \in C : Head(c.wins) = w
<1>0. C \subseteq ClientType /\ p \in [Window -> Nat] /\ INT_MAX \in Nat /\ Apart(C)
  BY FrameIdsAssumption DEF ClientsOk
<1>1. ASSUME NEW c \in C PROVE first(Head(c.wins)) = c
  <2>1. first(Head(c.wins)) \in C /\ Head(first(Head(c.wins)).wins) = Head(c.wins)
    OBVIOUS
  <2> QED
    BY <2>1, SameFirst
<1>2. q = [w \in Window |-> IF \E c \in C : c.frame \in Counted(b) /\ Head(c.wins) = w
                            THEN b[first(w).frame] ELSE p[w]]
  BY DEF SetClientFrameIds
<1>3. ASSUME NEW w \in Window PROVE q[w] \in Nat
  <2>1. CASE \E c \in C : c.frame \in Counted(b) /\ Head(c.wins) = w
    <3>1. PICK c \in C : Head(c.wins) = w
      BY <2>1
    <3>2. first(w) = c
      BY <1>1, <3>1
    <3>3. c.frame \in Frame
      BY <1>0, ClientFields
    <3>4. b[c.frame] \in Nat
      BY <1>0, <3>3 DEF IdsFrom
    <3>5. q[w] = b[first(w).frame]
      BY <1>2, <2>1
    <3> QED
      BY <3>2, <3>4, <3>5
  <2>2. CASE ~(\E c \in C : c.frame \in Counted(b) /\ Head(c.wins) = w)
    BY <1>0, <1>2, <2>2
  <2> QED
    BY <2>1, <2>2
<1>4. q \in [Window -> Nat]
  <2>1. \E g : q = [w \in Window |-> g[w]]
    BY <1>2
  <2> HIDE DEF q
  <2> QED
    BY <1>3, <2>1
<1>5. ASSUME NEW c \in C PROVE ClientOk(c, q, b, r)
  <2>1. c \in ClientType /\ ClientOk(c, p, a, r)
    BY <1>0 DEF ClientsOk
  <2>2. c.frame \in Frame \ {f} /\ c.wins \in Seq(Window) /\ c.owner \in Window \cup {NULL}
    BY <2>1, ClientFields
  <2>3. b[c.frame] # 0 /\ (c.frame \notin Counted(b) => b[c.frame] = a[c.frame])
    BY <2>1, <2>2 DEF OthersKeep, ClientOk
  <2>4. ASSUME c.owner # NULL PROVE Head(c.wins) = c.owner /\ q[c.owner] = b[c.frame]
    <3>1. Head(c.wins) = c.owner /\ p[c.owner] = a[c.frame] /\ c.owner \in Window
      BY <2>1, <2>2, <2>4 DEF ClientOk
    <3>2. first(c.owner) = c
      BY <1>1, <3>1
    <3> HIDE DEF first
    <3>3. CASE c.frame \in Counted(b)
      BY <1>2, <3>1, <3>2, <3>3
    <3>4. CASE c.frame \notin Counted(b)
      <4>1. ASSUME NEW d \in C, Head(d.wins) = c.owner PROVE d = c
        BY <3>1, <4>1, SameFirst
      <4>2. ~(\E d \in C : d.frame \in Counted(b) /\ Head(d.wins) = c.owner)
        BY <3>4, <4>1
      <4>3. q[c.owner] = p[c.owner]
        BY <1>2, <3>1, <4>2
      <4> QED
        BY <2>3, <3>1, <3>4, <4>3
    <3> QED
      BY <3>1, <3>3, <3>4
  <2> QED
    BY <2>1, <2>3, <2>4 DEF ClientOk
<1> HIDE DEF q
<1>6. ClientsOk(C, q, b, r)
  BY <1>0, <1>4, <1>5 DEF ClientsOk
<1> QED
  BY <1>6 DEF q


\* Some clients go.
LEMMA ClientsGo ==
  ASSUME NEW C, NEW p, NEW a, NEW r, ClientsOk(C, p, a, r), NEW D \in SUBSET C
  PROVE  ClientsOk(D, p, a, r)
BY DEF ClientsOk, Apart

\* The clients and properties when those of M have been moved to f.
MovedTo(C, M, f) == {IF c \in M THEN [c EXCEPT !.frame = f] ELSE c : c \in C}
MovedPropTo(M, p, id) == [w \in Window |-> IF \E c \in M : Head(c.wins) = w THEN id ELSE p[w]]

LEMMA MovedIs ==
  ASSUME NEW M, NEW f
  PROVE  Moved(M, f) = MovedTo(clients, M, f) /\ MovedProp(M, f) = MovedPropTo(M, prop, frame_id[f])
BY DEF Moved, MovedTo, MovedProp, MovedPropTo

LEMMA ClientsMoved ==
  ASSUME NEW C, NEW p, NEW a \in IdsFrom, NEW r, ClientsOk(C, p, a, r), NEW M \in SUBSET C,
         NEW f \in Frame, M # {} => a[f] # 0
  PROVE  /\ ClientsOk(MovedTo(C, M, f), MovedPropTo(M, p, a[f]), a, r)
         /\ \A c \in MovedTo(C, M, f) : \/ c \in C /\ c \notin M
                                        \/ c.frame = f /\ M # {}
<1> DEFINE new(c) == IF c \in M THEN [c EXCEPT !.frame = f] ELSE c
           q == MovedPropTo(M, p, a[f])
           D == MovedTo(C, M, f)
<1>0. C \subseteq ClientType /\ p \in [Window -> Nat] /\ Apart(C) /\ INT_MAX \in Nat
  BY FrameIdsAssumption DEF ClientsOk
<1>1. a[f] \in Nat
  BY <1>0 DEF IdsFrom
<1>2. q \in [Window -> Nat]
  BY <1>0, <1>1 DEF MovedPropTo
<1>3. ASSUME NEW c \in C
      PROVE  /\ new(c) \in ClientType /\ new(c).wins = c.wins /\ new(c).owner = c.owner
             /\ new(c).frame = IF c \in M THEN f ELSE c.frame
  <2>1. c \in ClientType /\ c = [wins |-> c.wins, frame |-> c.frame, owner |-> c.owner]
    BY <1>0, ClientFields
  <2>2. [wins |-> c.wins, frame |-> f, owner |-> c.owner] \in ClientType
    BY <1>0, ClientFields DEF ClientType
  <2>3. [c EXCEPT !.frame = f] = [wins |-> c.wins, frame |-> f, owner |-> c.owner]
    BY <2>1 DEF ClientType
  <2> QED
    BY <2>1, <2>2, <2>3
<1>4. D = {new(c) : c \in C}
  BY DEF MovedTo
<1>5. ASSUME NEW c \in C PROVE ClientOk(new(c), q, a, r)
  <2>1. ClientOk(c, p, a, r) /\ c.owner \in Window \cup {NULL}
    BY <1>0, ClientFields DEF ClientsOk
  <2>2. a[new(c).frame] # 0
    BY <1>3, <2>1 DEF ClientOk
  <2>3. ASSUME c.owner # NULL PROVE Head(c.wins) = c.owner /\ q[c.owner] = a[new(c).frame]
    <3>1. Head(c.wins) = c.owner /\ p[c.owner] = a[c.frame] /\ c.owner \in Window
      BY <2>1, <2>3 DEF ClientOk
    <3>2. CASE c \in M
      BY <1>3, <3>1, <3>2 DEF MovedPropTo
    <3>3. CASE c \notin M
      <4>1. ~(\E d \in M : Head(d.wins) = c.owner)
        BY <3>1, <3>3, SameFirst
      <4>2. q[c.owner] = p[c.owner]
        BY <3>1, <4>1 DEF MovedPropTo
      <4> QED
        BY <1>3, <3>1, <3>3, <4>2
    <3> QED
      BY <3>1, <3>2, <3>3
  <2> HIDE DEF new, q
  <2> QED
    BY <1>3, <2>1, <2>2, <2>3 DEF ClientOk
<1> HIDE DEF new, q, D
<1>6. Apart(D)
  <2>1. ASSUME NEW c \in C, NEW d \in C, NEW v \in Window, v \in ToSet(new(c).wins), v \in ToSet(new(d).wins)
        PROVE  new(c) = new(d)
    <3>1. v \in ToSet(c.wins) /\ v \in ToSet(d.wins)
      BY <1>3, <2>1
    <3>2. c = d
      BY <1>0, <3>1 DEF Apart
    <3> QED
      BY <3>2
  <2> QED
    BY <1>4, <2>1 DEF Apart
<1>7. ClientsOk(D, q, a, r)
  BY <1>2, <1>3, <1>4, <1>5, <1>6 DEF ClientsOk
<1>8. \A c \in D : (c \in C /\ c \notin M) \/ (c.frame = f /\ M # {})
  BY <1>3, <1>4 DEF new
<1> QED
  BY <1>7, <1>8 DEF D, q

\* A client for window w, which is mapped and in none.
LEMMA ClientMade ==
  ASSUME NEW C, NEW p, NEW a \in IdsFrom, NEW r, ClientsOk(C, p, a, r),
         NEW w \in Window, \A c \in C : w \notin ToSet(c.wins), r[w] # 0,
         NEW f \in Frame, a[f] # 0
  PROVE  ClientsOk(C \cup {[wins |-> <<w>>, frame |-> f, owner |-> w]}, [p EXCEPT ![w] = a[f]], a, r)
<1> DEFINE new == [wins |-> <<w>>, frame |-> f, owner |-> w]
           q == [p EXCEPT ![w] = a[f]]
<1>0. C \subseteq ClientType /\ p \in [Window -> Nat] /\ Apart(C) /\ INT_MAX \in Nat
  BY FrameIdsAssumption DEF ClientsOk
<1>1. a[f] \in Nat
  BY <1>0 DEF IdsFrom
<1>2. q \in [Window -> Nat] /\ q[w] = a[f] /\ \A v \in Window \ {w} : q[v] = p[v]
  BY <1>0, <1>1
<1>3. new \in ClientType /\ new.wins = <<w>> /\ new.frame = f /\ new.owner = w
  BY DEF ClientType
<1>4. /\ <<w>> # <<>> /\ IsInjective(<<w>>) /\ ToSet(<<w>>) = {w} /\ Head(<<w>>) = w
  BY DEF IsInjective, ToSet
<1> HIDE DEF new, q
<1>5. ClientOk(new, q, a, r)
  BY <1>2, <1>3, <1>4 DEF ClientOk
<1>6. ASSUME NEW c \in C PROVE ClientOk(c, q, a, r)
  <2>1. c \in ClientType /\ ClientOk(c, p, a, r)
    BY <1>0 DEF ClientsOk
  <2>2. c.wins \in Seq(Window) /\ c.wins # <<>> /\ c.owner \in Window \cup {NULL}
    BY <2>1, ClientFields DEF ClientOk
  <2>3. Head(c.wins) \in ToSet(c.wins)
    BY <2>2, FirstWindow
  <2>4. Head(c.wins) # w
    BY <2>3
  <2>5. c.owner # NULL => Head(c.wins) = c.owner /\ q[c.owner] = a[c.frame]
    BY <1>2, <2>1, <2>2, <2>4 DEF ClientOk
  <2> QED
    BY <2>1, <2>5 DEF ClientOk
<1>7. Apart(C \cup {new})
  BY <1>0, <1>3, <1>4 DEF Apart
<1>8. ClientsOk(C \cup {new}, q, a, r)
  BY <1>0, <1>2, <1>3, <1>5, <1>6, <1>7 DEF ClientsOk
<1> QED
  BY <1>8 DEF new, q

\* Window w, which is mapped and in none, joins the clients that have window v.
Joined(C, v, w) == {IF v \in ToSet(c.wins) THEN [c EXCEPT !.wins = Append(c.wins, w)] ELSE c : c \in C}

LEMMA ClientJoined ==
  ASSUME NEW C, NEW p, NEW a, NEW r, ClientsOk(C, p, a, r),
         NEW w \in Window, \A c \in C : w \notin ToSet(c.wins), r[w] # 0,
         NEW v \in Window
  PROVE  ClientsOk(Joined(C, v, w), p, a, r)
<1> DEFINE new(c) == IF v \in ToSet(c.wins) THEN [c EXCEPT !.wins = Append(c.wins, w)] ELSE c
           D == {new(c) : c \in C}
<1>0. C \subseteq ClientType /\ p \in [Window -> Nat] /\ Apart(C)
  BY DEF ClientsOk
<1>1. ASSUME NEW c \in C
      PROVE  /\ new(c) \in ClientType /\ new(c).frame = c.frame /\ new(c).owner = c.owner
             /\ new(c).wins = IF v \in ToSet(c.wins) THEN Append(c.wins, w) ELSE c.wins
             /\ ToSet(new(c).wins) = IF v \in ToSet(c.wins) THEN ToSet(c.wins) \cup {w} ELSE ToSet(c.wins)
  <2>1. /\ c \in ClientType /\ c = [wins |-> c.wins, frame |-> c.frame, owner |-> c.owner]
        /\ c.wins \in Seq(Window)
    BY <1>0, ClientFields
  <2>2. Append(c.wins, w) \in Seq(Window) /\ ToSet(Append(c.wins, w)) = ToSet(c.wins) \cup {w}
    BY <2>1, AppendFacts
  <2>3. [c EXCEPT !.wins = Append(c.wins, w)] = [wins |-> Append(c.wins, w), frame |-> c.frame, owner |-> c.owner]
    <3>1. \A q : [c EXCEPT !.wins = q] = [wins |-> q, frame |-> c.frame, owner |-> c.owner]
      BY <2>1 DEF ClientType
    <3> QED
      BY <3>1, Zenon
  <2>4. [wins |-> Append(c.wins, w), frame |-> c.frame, owner |-> c.owner] \in ClientType
    BY <1>0, <2>2, ClientFields DEF ClientType
  <2> QED
    BY <2>1, <2>2, <2>3, <2>4
<1>2. ASSUME NEW c \in C PROVE ClientOk(new(c), p, a, r)
  <2>1. ClientOk(c, p, a, r) /\ c.wins \in Seq(Window) /\ c.wins # <<>> /\ w \notin ToSet(c.wins)
    BY <1>0, ClientFields DEF ClientsOk, ClientOk
  <2>2. /\ Append(c.wins, w) # <<>> /\ IsInjective(Append(c.wins, w))
        /\ Head(Append(c.wins, w)) = Head(c.wins)
    BY <2>1, AppendFacts DEF ClientOk
  <2> HIDE DEF new
  <2>3. \A u \in ToSet(new(c).wins) : r[u] # 0
    BY <1>1, <2>1 DEF ClientOk
  <2>4. new(c).wins # <<>> /\ IsInjective(new(c).wins) /\ Head(new(c).wins) = Head(c.wins)
    BY <1>1, <2>1, <2>2 DEF ClientOk
  <2> HIDE DEF new
  <2> QED
    BY <1>1, <2>1, <2>3, <2>4 DEF ClientOk
<1>3. Apart(D)
  <2>1. ASSUME NEW c \in C, NEW d \in C, NEW u \in Window, u \in ToSet(new(c).wins), u \in ToSet(new(d).wins)
        PROVE  new(c) = new(d)
    <3> HIDE DEF new
    <3>1. CASE u = w
      <4>1. v \in ToSet(c.wins) /\ v \in ToSet(d.wins)
        BY <1>1, <2>1, <3>1
      <4>2. c = d
        BY <1>0, <4>1 DEF Apart
      <4> QED
        BY <4>2
    <3>2. CASE u # w
      <4>1. u \in ToSet(c.wins) /\ u \in ToSet(d.wins)
        BY <1>1, <2>1, <3>2
      <4>2. c = d
        BY <1>0, <4>1 DEF Apart
      <4> QED
        BY <4>2
    <3> QED
      BY <3>1, <3>2
  <2> HIDE DEF new
  <2> QED
    BY <2>1 DEF Apart
<1> HIDE DEF new
<1>4. ClientsOk(D, p, a, r)
  BY <1>0, <1>1, <1>2, <1>3 DEF ClientsOk
<1> QED
  BY <1>4 DEF D, new, Joined


\* Window w goes, and its client with its last one.
LEMMA WindowLeft ==
  ASSUME NEW C, NEW p, NEW a, NEW r \in [Window -> Nat], ClientsOk(C, p, a, r), NEW w \in Window
  PROVE  ClientsOk({c \in {[wins |-> Unlinked(d.wins, w), frame |-> d.frame, owner |-> IF d.owner = w THEN NULL ELSE d.owner] : d \in C} :
                      c.wins # <<>>},
                   [p EXCEPT ![w] = 0], a, [r EXCEPT ![w] = 0])
<1> DEFINE new(c) == [wins |-> Unlinked(c.wins, w), frame |-> c.frame, owner |-> IF c.owner = w THEN NULL ELSE c.owner]
           D == {c \in {new(d) : d \in C} : c.wins # <<>>}
           q == [p EXCEPT ![w] = 0]
           o == [r EXCEPT ![w] = 0]
<1>0. C \subseteq ClientType /\ p \in [Window -> Nat] /\ Apart(C)
  BY DEF ClientsOk
<1>1. ASSUME NEW c \in C
      PROVE  /\ new(c) \in ClientType /\ new(c).frame = c.frame /\ new(c).wins = Unlinked(c.wins, w)
             /\ new(c).owner = IF c.owner = w THEN NULL ELSE c.owner
             /\ ToSet(new(c).wins) = ToSet(c.wins) \ {w} /\ IsInjective(new(c).wins)
  <2>1. /\ c \in ClientType /\ c = [wins |-> c.wins, frame |-> c.frame, owner |-> c.owner]
        /\ c.wins \in Seq(Window) /\ c.frame \in Frame /\ c.owner \in Window \cup {NULL} /\ IsInjective(c.wins)
    BY <1>0, ClientFields DEF ClientsOk, ClientOk
  <2>2. /\ Unlinked(c.wins, w) \in Seq(Window) /\ ToSet(Unlinked(c.wins, w)) = ToSet(c.wins) \ {w}
        /\ IsInjective(Unlinked(c.wins, w))
    BY <2>1, UnlinkedFacts
  <2>3. new(c) = [wins |-> Unlinked(c.wins, w), frame |-> c.frame, owner |-> IF c.owner = w THEN NULL ELSE c.owner]
    OBVIOUS
  <2> HIDE DEF new
  <2>4. new(c) \in ClientType
    BY <2>1, <2>2, <2>3 DEF ClientType
  <2> QED
    BY <2>1, <2>2, <2>3, <2>4
<1>2. ASSUME NEW c \in C, new(c).wins # <<>> PROVE ClientOk(new(c), q, a, o)
  <2>1. /\ ClientOk(c, p, a, r) /\ c.wins \in Seq(Window) /\ c.wins # <<>> /\ IsInjective(c.wins)
        /\ c.owner \in Window \cup {NULL}
    BY <1>0, ClientFields DEF ClientsOk, ClientOk
  <2> HIDE DEF new
  <2>2. \A u \in ToSet(new(c).wins) : o[u] # 0
    <3>1. \A u \in ToSet(c.wins) \ {w} : r[u] # 0
      BY <2>1 DEF ClientOk
    <3>0. ToSet(c.wins) \subseteq Window
      BY <2>1 DEF ToSet
    <3>2. ASSUME NEW u \in Window, u # w, r[u] # 0 PROVE o[u] # 0
      BY <3>2
    <3> HIDE DEF o
    <3> QED
      BY <1>1, <3>0, <3>1, <3>2
  <2>3. ASSUME new(c).owner # NULL PROVE Head(new(c).wins) = new(c).owner /\ q[new(c).owner] = a[c.frame]
    <3>1. new(c).owner = c.owner /\ c.owner # w /\ c.owner # NULL /\ c.owner \in Window
      BY <1>1, <2>1, <2>3
    <3>2. Head(c.wins) = c.owner /\ p[c.owner] = a[c.frame]
      BY <2>1, <3>1 DEF ClientOk
    <3>3. Head(Unlinked(c.wins, w)) = Head(c.wins)
      BY <2>1, <3>1, <3>2, UnlinkedFacts
    <3>4. q[c.owner] = p[c.owner]
      BY <1>0, <3>1
    <3> QED
      BY <1>1, <3>1, <3>2, <3>3, <3>4
  <2>4. a[new(c).frame] # 0
    BY <1>1, <2>1 DEF ClientOk
  <2> HIDE DEF q, o
  <2> QED
    BY <1>1, <1>2, <2>2, <2>3, <2>4 DEF ClientOk
<1>3. q \in [Window -> Nat]
  BY <1>0
<1> HIDE DEF new, q, o
<1>4. Apart(D)
  <2>1. ASSUME NEW c \in C, NEW d \in C, NEW u \in Window, u \in ToSet(new(c).wins), u \in ToSet(new(d).wins)
        PROVE  new(c) = new(d)
    <3>1. u \in ToSet(c.wins) /\ u \in ToSet(d.wins)
      BY <1>1, <2>1
    <3>2. c = d
      BY <1>0, <3>1 DEF Apart
    <3> QED
      BY <3>2
  <2> QED
    BY <2>1 DEF Apart
<1>5. ClientsOk(D, q, a, o)
  BY <1>1, <1>2, <1>3, <1>4 DEF ClientsOk
<1> QED
  BY <1>5 DEF D, new, q, o

-----------------------------------------------------------------------------
(* The invariant of the clients. *)

ClientsInv == root \in [Window -> 0 .. Screens] /\ ClientsOk(clients, prop, frame_id, root)

LEMMA ClientsFacts ==
  ASSUME WorkspacesInv, ClientsInv
  PROVE  /\ clients \subseteq ClientType /\ frame_id \in IdsFrom /\ prop \in [Window -> Nat]
         /\ \A c \in clients : /\ c.frame \in Live /\ c.wins \in Seq(Window) /\ c.wins # <<>>
                               /\ \A v \in ToSet(c.wins) : v \in Window /\ root[v] # 0
<1>1. clients \subseteq ClientType /\ prop \in [Window -> Nat] /\ \A c \in clients : ClientOk(c, prop, frame_id, root)
  BY DEF ClientsInv, ClientsOk
<1>2. frame_id \in IdsFrom
  BY DEF WorkspacesInv, IdsInv, IdsType, IdsFrom
<1>3. ASSUME NEW c \in clients
      PROVE  /\ c.frame \in Live /\ c.wins \in Seq(Window) /\ c.wins # <<>>
             /\ \A v \in ToSet(c.wins) : v \in Window /\ root[v] # 0
  <2>1. c.wins \in Seq(Window) /\ c.frame \in Frame /\ ClientOk(c, prop, frame_id, root)
    BY <1>1, ClientFields
  <2>2. ToSet(c.wins) \subseteq Window
    BY <2>1 DEF ToSet
  <2> QED
    BY <2>1, <2>2 DEF ClientOk, Live
<1> QED
  BY <1>1, <1>2, <1>3

LEMMA ClientsInitInv == Init => ClientsInv
<1> SUFFICES ASSUME Init PROVE ClientsInv
  OBVIOUS
<1>1. clients = {} /\ prop = [w \in Window |-> 0] /\ root = [w \in Window |-> 0] /\ Screens \in Nat
  BY SessionAssumption DEF Init
<1> QED
  BY <1>1 DEF ClientsInv, ClientsOk, Apart

\* No client, property, id or window changes.
LEMMA ClientsStay ==
  ASSUME ClientsInv, UNCHANGED <<idVars, clients, prop, root>>
  PROVE  ClientsInv'
BY DEF ClientsInv, idVars

\* There are no clients.
LEMMA NoClients ==
  ASSUME clients' = {}, prop' \in [Window -> Nat], root' \in [Window -> 0 .. Screens]
  PROVE  ClientsInv'
BY DEF ClientsInv, ClientsOk, Apart

\* No frame, no client.
LEMMA NoFrames ==
  ASSUME WorkspacesInv, ClientsInv, \A s \in Screen : ws[s] = <<>>
  PROVE  clients = {}
<1>1. AllFrames(ws) = {}
  BY DEF AllFrames
<1>2. Live = {}
  BY <1>1, WsIs DEF WorkspacesInv
<1> QED
  BY <1>2, ClientsFacts

\* A frame is made.
LEMMA ClientsFrameMade ==
  ASSUME WorkspacesInv, ClientsInv, NEW f \in Frame, NEW id \in 0 .. INT_MAX, InitFrameId(f, id, Place),
         Reordered(InitReorders(id)), UNCHANGED <<clients, root>>
  PROVE  ClientsInv'
<1>1. Place \in Walk /\ IdsInv
  BY PlaceIsWalk DEF WorkspacesInv
<1>2. /\ IdsInv' /\ f \notin Live /\ OthersKeep(frame_id, frame_id', f)
      /\ ~InitReorders(id) => OthersSame(frame_id, frame_id', f)
  BY <1>1, InitFrameIdEffect
<1>3. frame_id \in IdsFrom /\ frame_id' \in IdsFrom /\ \A c \in clients : c.frame # f
  BY <1>2, ClientsFacts DEF IdsInv, IdsType, IdsFrom
<1>4. ClientsOk(clients, prop, frame_id, root) /\ root \in [Window -> 0 .. Screens]
  BY DEF ClientsInv
<1>5. ClientsOk(clients, prop', frame_id', root)
  <2>1. CASE InitReorders(id)
    <3>1. prop' = SetClientFrameIds(clients, Counted(frame_id'), frame_id', prop)
      BY <2>1 DEF Reordered
    <3> QED
      BY <1>2, <1>3, <1>4, <3>1, ClientsRenumbered
  <2>2. CASE ~InitReorders(id)
    <3>1. prop' = prop
      BY <2>2 DEF Reordered
    <3> QED
      BY <1>2, <1>3, <1>4, <2>2, <3>1, OtherIds
  <2> QED
    BY <2>1, <2>2
<1> QED
  BY <1>4, <1>5 DEF ClientsInv

\* A frame goes, after its clients.
LEMMA ClientsFrameFreed ==
  ASSUME WorkspacesInv, NEW f \in Frame, FreeFrameId(f, Place), NEW C, NEW p, NEW r,
         ClientsOk(C, p, frame_id, r), \A c \in C : c.frame # f,
         NEW q, q = IF frame_id_cntr < INT_MAX THEN p ELSE SetClientFrameIds(C, Counted(frame_id'), frame_id', p)
  PROVE  ClientsOk(C, q, frame_id', r)
<1>1. Place \in Walk /\ IdsInv
  BY PlaceIsWalk DEF WorkspacesInv
<1>2. /\ IdsInv' /\ OthersKeep(frame_id, frame_id', f)
      /\ frame_id_cntr < INT_MAX => OthersSame(frame_id, frame_id', f)
  BY <1>1, FreeFrameIdEffect
<1>3. frame_id \in IdsFrom /\ frame_id' \in IdsFrom
  BY <1>1, <1>2 DEF IdsInv, IdsType, IdsFrom
<1>4. CASE frame_id_cntr < INT_MAX
  BY <1>2, <1>3, <1>4, OtherIds
<1>5. CASE ~(frame_id_cntr < INT_MAX)
  BY <1>2, <1>3, <1>5, ClientsRenumbered
<1> QED
  BY <1>4, <1>5


\* add_clientwin, of a window that is mapped on a screen and in no client.
LEMMA AddClientwinInv ==
  ASSUME WorkspacesInv, ClientsInv, NEW w \in Window, AddClientwin(w), UNCHANGED idVars,
         root' \in [Window -> 0 .. Screens], root'[w] \in Screen,
         \A v \in Window \ {w} : root'[v] = root[v], \A c \in clients : w \notin ToSet(c.wins)
  PROVE  ClientsInv'
<1> DEFINE v == TransientFor[w]
           tfor == {c \in clients : v \in ToSet(c.wins)}
           named == FindFrameById(prop[w]) \cap FramesOf(root'[w])
<1>0. v \in Window \cup {NULL} /\ NULL \notin Window /\ 0 \notin Screen
  BY SessionAssumption DEF Screen
<1>1. /\ clients \subseteq ClientType /\ frame_id \in IdsFrom /\ prop \in [Window -> Nat]
      /\ \A c \in clients : /\ c.wins \in Seq(Window) /\ \A u \in ToSet(c.wins) : u \in Window /\ root[u] # 0
  BY ClientsFacts
<1>2. ClientsOk(clients, prop, frame_id, root')
  <2>1. ASSUME NEW c \in clients PROVE ClientOk(c, prop, frame_id, root')
    <3>1. ClientOk(c, prop, frame_id, root)
      BY DEF ClientsInv, ClientsOk
    <3>2. \A u \in ToSet(c.wins) : u \in Window \ {w} /\ root[u] # 0
      BY <1>1
    <3> QED
      BY <3>1, <3>2 DEF ClientOk
  <2> QED
    BY <2>1 DEF ClientsInv, ClientsOk
<1>3. frame_id' = frame_id
  BY DEF idVars
<1>4. root'[w] # 0
  BY <1>0
<1>5. CASE tfor # {}
  <2>1. /\ clients' = {IF c \in tfor THEN [c EXCEPT !.wins = Append(c.wins, w)] ELSE c : c \in clients}
        /\ prop' = prop
    BY <1>5 DEF AddClientwin
  <2>2. clients' = Joined(clients, v, w)
    <3>1. \A c \in clients : c \in tfor <=> v \in ToSet(c.wins)
      OBVIOUS
    <3> HIDE DEF tfor, v
    <3> QED
      BY <2>1, <3>1 DEF Joined
  <2>3. v \in Window
    BY <1>0, <1>1, <1>5
  <2> HIDE DEF v
  <2>4. ClientsOk(clients', prop, frame_id, root')
    BY <1>2, <1>4, <2>2, <2>3, ClientJoined
  <2> QED
    BY <1>3, <2>1, <2>4 DEF ClientsInv
<1>6. CASE tfor = {}
  <2>1. PICK f \in IF named # {} THEN named ELSE FramesOf(root'[w]) :
          /\ clients' = clients \cup {[wins |-> <<w>>, frame |-> f, owner |-> w]}
          /\ prop' = [prop EXCEPT ![w] = frame_id[f]]
    BY <1>6 DEF AddClientwin
  <2>2. f \in FramesOf(root'[w])
    BY <2>1
  <2>3. f \in Live
    BY <2>2 DEF WorkspacesInv, FramesInv
  <2>4. f \in Frame /\ frame_id[f] # 0
    BY <2>3 DEF Live
  <2>5. ClientsOk(clients', prop', frame_id, root')
    BY <1>1, <1>2, <1>4, <2>1, <2>4, ClientMade
  <2> QED
    BY <1>3, <2>5 DEF ClientsInv
<1> QED
  BY <1>5, <1>6

LEMMA WindowsInv ==
  ASSUME NEW w \in Window, NEW s \in Screen
  PROVE  WorkspacesInv /\ ClientsInv /\ (Scan(w) \/ Map(w, s) \/ Unmap(w) \/ Elsewhere(w, s)) => ClientsInv'
<1> SUFFICES ASSUME WorkspacesInv, ClientsInv, Scan(w) \/ Map(w, s) \/ Unmap(w) \/ Elsewhere(w, s)
             PROVE  ClientsInv'
  OBVIOUS
<1>0. Screens \in Nat /\ s \in 0 .. Screens /\ s # 0 /\ root \in [Window -> 0 .. Screens]
  BY SessionAssumption DEF Screen, ClientsInv
<1>1. CASE Scan(w)
  <2>1. phase = "scan" /\ root[w] = scr /\ w \notin Managed /\ root' = root /\ AddClientwin(w) /\ UNCHANGED idVars
    BY <1>1 DEF Scan
  <2>2. root'[w] \in Screen
    BY <2>1 DEF WorkspacesInv, PhaseType
  <2>3. \A c \in clients : w \notin ToSet(c.wins)
    BY <2>1 DEF Managed
  <2> QED
    BY <1>0, <2>1, <2>2, <2>3, AddClientwinInv
<1>2. CASE Map(w, s)
  <2>1. root[w] = 0 /\ root' = [root EXCEPT ![w] = s] /\ AddClientwin(w) /\ UNCHANGED idVars
    BY <1>2 DEF Map
  <2>2. /\ root' \in [Window -> 0 .. Screens] /\ root'[w] \in Screen
        /\ \A v \in Window \ {w} : root'[v] = root[v]
    BY <1>0, <2>1
  <2>3. \A c \in clients : w \notin ToSet(c.wins)
    BY <2>1, ClientsFacts
  <2> QED
    BY <2>1, <2>2, <2>3, AddClientwinInv
<1>3. CASE Unmap(w)
  <2>1. /\ root' = [root EXCEPT ![w] = 0] /\ prop' = [prop EXCEPT ![w] = 0] /\ frame_id' = frame_id
        /\ clients' = {c \in {[wins |-> Unlinked(d.wins, w), frame |-> d.frame,
                               owner |-> IF d.owner = w THEN NULL ELSE d.owner] : d \in clients} : c.wins # <<>>}
    BY <1>3 DEF Unmap, idVars
  <2>2. ClientsOk(clients, prop, frame_id, root) /\ root \in [Window -> Nat]
    BY <1>0 DEF ClientsInv
  <2>3. ClientsOk(clients', prop', frame_id, root')
    BY <2>1, <2>2, WindowLeft
  <2>4. root' \in [Window -> 0 .. Screens]
    BY <1>0, <2>1
  <2> QED
    BY <2>1, <2>3, <2>4 DEF ClientsInv
<1>4. CASE Elsewhere(w, s)
  <2>1. /\ phase = "down" /\ clients' = clients /\ prop' = [prop EXCEPT ![w] = 0]
        /\ root' = [root EXCEPT ![w] = IF root[w] = 0 THEN s ELSE 0]
    BY <1>4 DEF Elsewhere
  <2>2. clients = {}
    BY <2>1, NoFrames DEF WorkspacesInv, LeftInv
  <2>3. prop' \in [Window -> Nat] /\ root' \in [Window -> 0 .. Screens]
    BY <1>0, <2>1, ClientsFacts
  <2> QED
    BY <2>1, <2>2, <2>3, NoClients
<1> QED
  BY <1>1, <1>2, <1>3, <1>4

LEMMA AttachInv ==
  ASSUME NEW c \in clients, NEW f \in Live
  PROVE  WorkspacesInv /\ ClientsInv /\ Attach(c, f) => ClientsInv'
<1> SUFFICES ASSUME WorkspacesInv, ClientsInv, Attach(c, f) PROVE ClientsInv'
  OBVIOUS
<1>1. clients' = Moved({c}, f) /\ prop' = MovedProp({c}, f) /\ frame_id' = frame_id /\ root' = root
  BY DEF Attach, idVars
<1>2. /\ ClientsOk(clients, prop, frame_id, root) /\ frame_id \in IdsFrom /\ f \in Frame /\ frame_id[f] # 0
      /\ {c} \in SUBSET clients
  BY ClientsFacts DEF ClientsInv, Live
<1>3. ClientsOk(MovedTo(clients, {c}, f), MovedPropTo({c}, prop, frame_id[f]), frame_id, root)
  BY <1>2, ClientsMoved
<1> QED
  BY <1>1, <1>3, MovedIs DEF ClientsInv

LEMMA ClientsDestroyFrameInv ==
  ASSUME NEW s \in Screen, NEW i \in DOMAIN ws[s], NEW f \in Frame
  PROVE  WorkspacesInv /\ ClientsInv /\ DestroyFrame(s, i, f) => ClientsInv'
<1> SUFFICES ASSUME WorkspacesInv, ClientsInv, DestroyFrame(s, i, f) PROVE ClientsInv'
  OBVIOUS
<1> DEFINE w    == ws[s][i]
           tree == Replaced(w.splitree, f, NULL)
           mine == {c \in clients : c.frame = f}
<1>1. /\ phase = "run" /\ f \in Leaves(w.splitree) /\ (tree = NULL => mine = {})
      /\ FreeFrameId(f, Place) /\ root' = root
  BY DEF DestroyFrame, Running
<1>2. PICK other \in IF tree = NULL THEN {f} ELSE Leaves(tree) :
        /\ clients' = Moved(mine, other)
        /\ prop' = IF frame_id_cntr < INT_MAX THEN MovedProp(mine, other)
                   ELSE SetClientFrameIds(clients', Counted(frame_id'), frame_id', MovedProp(mine, other))
  BY DEF DestroyFrame
<1>3. /\ Good(w) /\ w.splitree \in Trees /\ WsType /\ FramesInv /\ Proper(w.splitree)
      /\ Leaves(w.splitree) = Children(w) /\ f \notin {NULL} /\ Live = AllFrames(ws)
  BY <1>1, AllGood, GoodIs, WsIs, SessionAssumption DEF WorkspacesInv, Good
<1>4. ASSUME tree # NULL PROVE other \in Leaves(w.splitree) \ {f}
  <2>1. Removed(w.splitree, f, MaxDepth)
    <3>1. MaxDepth \in 0 .. MaxDepth /\ w.splitree \in TreesOf[MaxDepth]
      BY <1>3, SessionAssumption DEF Trees
    <3> HIDE DEF w
    <3> QED
      BY <1>1, <1>3, <3>1, FrameRemoved
  <2>2. Tips[tree] = Tips[w.splitree] \ {f}
    BY <1>4, <2>1 DEF Removed
  <2> HIDE DEF tree
  <2> QED
    BY <1>2, <1>4, <2>2 DEF Leaves
<1>5. Leaves(w.splitree) \subseteq Live
  BY <1>3, InAllFrames
<1>6. other \in Live /\ (mine # {} => other # f)
  BY <1>1, <1>2, <1>4, <1>5
<1>7. other \in Frame /\ frame_id[other] # 0
  BY <1>6 DEF Live
<1>8. ClientsOk(clients, prop, frame_id, root) /\ frame_id \in IdsFrom /\ root \in [Window -> 0 .. Screens]
  BY ClientsFacts DEF ClientsInv
<1>9. /\ ClientsOk(MovedTo(clients, mine, other), MovedPropTo(mine, prop, frame_id[other]), frame_id, root)
      /\ \A c \in MovedTo(clients, mine, other) : \/ c \in clients /\ c \notin mine
                                                  \/ c.frame = other /\ mine # {}
  BY <1>7, <1>8, ClientsMoved
<1>10. ClientsOk(clients', MovedProp(mine, other), frame_id, root) /\ \A c \in clients' : c.frame # f
  BY <1>2, <1>6, <1>9, MovedIs
<1> HIDE DEF mine, tree
<1>11. ClientsOk(clients', prop', frame_id', root)
  BY <1>1, <1>2, <1>10, ClientsFrameFreed
<1> QED
  BY <1>1, <1>8, <1>11 DEF ClientsInv

LEMMA ClientsDeinitFrameInv == WorkspacesInv /\ ClientsInv /\ DeinitFrame => ClientsInv'
<1> SUFFICES ASSUME WorkspacesInv, ClientsInv, DeinitFrame PROVE ClientsInv'
  OBVIOUS
<1> DEFINE f == Head(ws[scr][1].wins)
<1>1. /\ phase = "deinit" /\ ws[scr] # <<>> /\ FreeFrameId(f, Place) /\ root' = root
      /\ clients' = {c \in clients : c.frame # f}
      /\ prop' = IF frame_id_cntr < INT_MAX THEN prop
                 ELSE SetClientFrameIds(clients', Counted(frame_id'), frame_id', prop)
  BY DEF DeinitFrame, LeftProp
<1> HIDE DEF f
<1>2. f \in Frame
  BY <1>1 DEF FreeFrameId, Live
<1>3. ClientsOk(clients, prop, frame_id, root) /\ root \in [Window -> 0 .. Screens]
  BY DEF ClientsInv
<1>4. ClientsOk(clients', prop, frame_id, root) /\ \A c \in clients' : c.frame # f
  BY <1>1, <1>3, ClientsGo
<1>5. ClientsOk(clients', prop', frame_id', root)
  BY <1>1, <1>2, <1>4, ClientsFrameFreed
<1> QED
  BY <1>1, <1>3, <1>5 DEF ClientsInv

-----------------------------------------------------------------------------
(* The theorems. *)

SessionInv == WorkspacesInv /\ ClientsInv

LEMMA ClientsNextInv == SessionInv /\ [Next]_vars => ClientsInv'
<1> SUFFICES ASSUME WorkspacesInv, ClientsInv, [Next]_vars PROVE ClientsInv'
  BY DEF SessionInv
<1>1. CASE UNCHANGED vars \/ Stopped
  BY <1>1, ClientsStay DEF Stopped, vars, sessionVars
<1>2. CASE Start \/ OptWorkspace \/ OptSplit \/ Skip \/ SkippedEnd
  BY <1>2, ClientsStay DEF Start, OptWorkspace, OptSplit, Skip, SkippedEnd
<1>3. CASE OptSplitEnd
  BY <1>3, ClientsStay DEF OptSplitEnd
<1>4. CASE OptWorkspaceEnd
  BY <1>4, ClientsStay DEF OptWorkspaceEnd
<1>5. CASE EndOfScan \/ Exit \/ Write \/ WriteFails
  BY <1>5, ClientsStay DEF EndOfScan, Exit, Write, WriteFails
<1>6. 0 \in 0 .. INT_MAX
  BY FrameIdsAssumption
<1>7. ASSUME NEW f \in Frame, OptFrame(f) PROVE ClientsInv'
  <2>1. /\ InitFrameId(f, Next1.id, Place) /\ Reordered(InitReorders(Next1.id)) /\ UNCHANGED <<clients, root>>
        /\ reader.rest # <<>>
    BY <1>7 DEF OptFrame, Reading
  <2>2. Next1.id \in 0 .. INT_MAX
    BY <2>1, ReaderFields DEF WorkspacesInv
  <2> QED
    BY <2>1, <2>2, ClientsFrameMade
<1>8. ASSUME NEW f \in Frame, EndOfText(f) PROVE ClientsInv'
  <2>1. CASE ws[scr] # <<>>
    BY <1>8, <2>1, ClientsStay DEF EndOfText
  <2>2. CASE ws[scr] = <<>>
    BY <1>6, <1>8, <2>2, ClientsFrameMade DEF EndOfText
  <2> QED
    BY <2>1, <2>2
<1>9. ASSUME NEW s \in Screen, NEW f \in Frame, NEW name, CreateWorkspace(s, name, f) PROVE ClientsInv'
  BY <1>6, <1>9, ClientsFrameMade DEF CreateWorkspace
<1>10. ASSUME NEW s \in Screen, NEW f \in Frame, NEW i, NEW at, NEW before, Split(s, i, at, f, before)
       PROVE  ClientsInv'
  BY <1>6, <1>10, ClientsFrameMade DEF Split
<1>11. ASSUME NEW w \in Window, Scan(w) \/ Unmap(w) PROVE ClientsInv'
  <2>1. 1 \in Screen
    BY SessionAssumption DEF Screen
  <2> QED
    BY <1>11, <2>1, WindowsInv
<1>12. ASSUME NEW w \in Window, NEW s \in Screen, Map(w, s) \/ Elsewhere(w, s) PROVE ClientsInv'
  BY <1>12, WindowsInv
<1>13. ASSUME NEW c \in clients, NEW f \in Live, Attach(c, f) PROVE ClientsInv'
  BY <1>13, AttachInv
<1>14. ASSUME NEW s \in Screen, NEW f \in Frame, NEW i \in DOMAIN ws[s], DestroyFrame(s, i, f)
       PROVE  ClientsInv'
  BY <1>14, ClientsDestroyFrameInv
<1>15. CASE DeinitFrame
  BY <1>15, ClientsDeinitFrameInv
<1>16. root \in [Window -> 0 .. Screens] /\ prop \in [Window -> Nat]
  BY ClientsFacts DEF ClientsInv
<1>17. CASE DeinitDone
  <2>1. phase = "deinit" /\ ws[scr] = <<>> /\ UNCHANGED <<clients, prop, root>>
    BY <1>17 DEF DeinitDone
  <2>2. CASE scr < Screens
    BY <1>17, <2>1, <2>2, ClientsStay DEF DeinitDone
  <2>3. CASE ~(scr < Screens)
    <3>1. ASSUME NEW s \in Screen PROVE ws[s] = <<>>
      <4>1. scr \in Screen /\ Screens \in Nat
        BY <2>1, SessionAssumption DEF WorkspacesInv, PhaseType
      <4>2. s < scr \/ s = scr
        BY <2>3, <4>1 DEF Screen
      <4> QED
        BY <2>1, <4>2 DEF WorkspacesInv, LeftInv
    <3>2. clients = {}
      BY <3>1, NoFrames
    <3> QED
      BY <1>16, <2>1, <3>2, NoClients
  <2> QED
    BY <2>2, <2>3
<1>18. CASE Crash
  <2>1. clients' = {} /\ UNCHANGED <<prop, root>>
    BY <1>18 DEF Crash, Gone
  <2> QED
    BY <1>16, <2>1, NoClients
<1> QED
  BY <1>1, <1>2, <1>3, <1>4, <1>5, <1>7, <1>8, <1>9, <1>10, <1>11, <1>12, <1>13, <1>14, <1>15, <1>17,
     <1>18 DEF Next

LEMMA SessionInvIs == Spec => []SessionInv
<1>1. Init => SessionInv
  BY WorkspacesInitInv, ClientsInitInv DEF SessionInv
<1>2. SessionInv /\ [Next]_vars => SessionInv'
  BY WorkspacesNextInv, ClientsNextInv DEF SessionInv
<1> QED
  BY <1>1, <1>2, PTL DEF Spec

LEMMA KnownFrames == SessionInv => FramesKnown
<1> SUFFICES ASSUME WorkspacesInv, ClientsInv PROVE FramesKnown
  BY DEF SessionInv
<1>1. IdsType /\ Live = UNION {FramesOf(s) : s \in Screen} /\ EachOnce
  BY DEF WorkspacesInv, IdsInv, FramesInv
<1>2. \A s \in Screen : \A i \in DOMAIN ws[s] :
        Ready(s, i) => Proper(ws[s][i].splitree) /\ Leaves(ws[s][i].splitree) = Children(ws[s][i])
  BY DEF WorkspacesInv, TreesInv, Good
<1>3. ASSUME NEW c \in clients
      PROVE  c.frame \in Live /\ (Head(c.wins) = c.owner => prop[c.owner] = frame_id[c.frame])
  <2>1. c.frame \in Live /\ ClientOk(c, prop, frame_id, root) /\ c.wins \in Seq(Window) /\ c.wins # <<>>
    BY ClientsFacts DEF ClientsInv, ClientsOk
  <2>2. Head(c.wins) \in Window /\ NULL \notin Window
    BY <2>1, FirstWindow, SessionAssumption
  <2> QED
    BY <2>1, <2>2 DEF ClientOk
<1> QED
  BY <1>1, <1>2, <1>3 DEF FramesKnown

\* After every reading of whatever files, every command, exit and crash: the frames that
\* have an id are those in a workspace, each in one place; the trees have two sides everywhere
\* and the workspace's frames as their leaves (confws.c, split.c); a window's property names
\* the frame of its client (clientwin.c, frame.c).
THEOREM FramesAreKnown == Spec => []FramesKnown
BY SessionInvIs, KnownFrames, PTL

\* No two frames of a session have the same id (frameid.c).
THEOREM SessionIdsDistinct == Spec => []IdsDistinct
<1>1. SessionInv => IdsDistinct
  BY DEF SessionInv, WorkspacesInv, IdsInv
<1> QED
  BY <1>1, SessionInvIs, PTL

LEMMA InitIsIdsNext ==
  ASSUME WorkspacesInv, NEW f \in Frame, NEW id \in 0 .. INT_MAX, InitFrameId(f, id, Place)
  PROVE  IdsNext
<1>1. Place \in Walk
  BY PlaceIsWalk DEF WorkspacesInv
<1>2. CASE id = 0
  BY <1>1, <1>2 DEF InitFrameId, IdsNext
<1>3. CASE id # 0
  <2>1. id \in 1 .. INT_MAX /\ UseFrameId(f, id, Place)
    BY <1>3, FrameIdsAssumption DEF InitFrameId
  <2> QED
    BY <1>1, <2>1 DEF IdsNext
<1> QED
  BY <1>2, <1>3

LEMMA FreeIsIdsNext ==
  ASSUME WorkspacesInv, NEW f, FreeFrameId(f, Place)
  PROVE  IdsNext
<1>1. Place \in Walk /\ f \in Frame
  BY PlaceIsWalk DEF WorkspacesInv, FreeFrameId, Live
<1> QED
  BY <1>1 DEF IdsNext

LEMMA IdsStep == WorkspacesInv /\ [Next]_vars => [IdsNext]_idVars
<1> SUFFICES ASSUME WorkspacesInv, [Next]_vars PROVE IdsNext \/ UNCHANGED idVars
  OBVIOUS
<1>1. CASE UNCHANGED vars \/ Stopped
  BY <1>1 DEF Stopped, vars
<1>2. CASE Start \/ OptWorkspace \/ OptSplit \/ Skip \/ SkippedEnd
  BY <1>2 DEF Start, OptWorkspace, OptSplit, Skip, SkippedEnd
<1>3. CASE OptSplitEnd
  BY <1>3 DEF OptSplitEnd
<1>4. CASE OptWorkspaceEnd
  BY <1>4 DEF OptWorkspaceEnd
<1>5. CASE EndOfScan \/ Exit \/ Write \/ WriteFails
  BY <1>5 DEF EndOfScan, Exit, Write, WriteFails
<1>6. 0 \in 0 .. INT_MAX
  BY FrameIdsAssumption
<1>7. ASSUME NEW f \in Frame, OptFrame(f) PROVE IdsNext
  <2>1. InitFrameId(f, Next1.id, Place) /\ reader.rest # <<>>
    BY <1>7 DEF OptFrame, Reading
  <2>2. Next1.id \in 0 .. INT_MAX
    BY <2>1, ReaderFields DEF WorkspacesInv
  <2> QED
    BY <2>1, <2>2, InitIsIdsNext
<1>8. ASSUME NEW f \in Frame, EndOfText(f) PROVE IdsNext \/ UNCHANGED idVars
  BY <1>6, <1>8, InitIsIdsNext DEF EndOfText
<1>9. ASSUME NEW s \in Screen, NEW f \in Frame, NEW name, CreateWorkspace(s, name, f) PROVE IdsNext
  BY <1>6, <1>9, InitIsIdsNext DEF CreateWorkspace
<1>10. ASSUME NEW s \in Screen, NEW f \in Frame, NEW i, NEW at, NEW before, Split(s, i, at, f, before)
       PROVE  IdsNext
  BY <1>6, <1>10, InitIsIdsNext DEF Split
<1>11. ASSUME NEW w \in Window, NEW s \in Screen, Scan(w) \/ Unmap(w) \/ Map(w, s) \/ Elsewhere(w, s)
       PROVE  UNCHANGED idVars
  BY <1>11 DEF Scan, Unmap, Map, Elsewhere
<1>12. ASSUME NEW c \in clients, NEW f \in Live, Attach(c, f) PROVE UNCHANGED idVars
  BY <1>12 DEF Attach
<1>13. ASSUME NEW s \in Screen, NEW f \in Frame, NEW i \in DOMAIN ws[s], DestroyFrame(s, i, f) PROVE IdsNext
  BY <1>13, FreeIsIdsNext DEF DestroyFrame
<1>14. CASE DeinitFrame
  BY <1>14, FreeIsIdsNext DEF DeinitFrame
<1>15. CASE DeinitDone
  BY <1>15 DEF DeinitDone, IdsNext
<1>16. CASE Crash
  BY <1>16 DEF Crash, Gone, IdsNext
<1>17. 1 \in Screen
  BY SessionAssumption DEF Screen
<1> QED
  BY <1>1, <1>2, <1>3, <1>4, <1>5, <1>7, <1>8, <1>9, <1>10, <1>11, <1>12, <1>13, <1>14, <1>15, <1>16,
     <1>17 DEF Next

\* The session implements the specification of the ids: whatever the program does to the
\* workspaces is, for the ids, a new id, one from a file, a free one or a restart, with the
\* frames walked in an order that comes by each once (frameid.c, frame.c).
THEOREM SessionImplementsIds == Spec => IdsSpec
<1>1. Init => IdsInit
  BY DEF Init
<1>2. SessionInv /\ [Next]_vars => [IdsNext]_idVars
  BY IdsStep DEF SessionInv
<1> QED
  BY <1>1, <1>2, SessionInvIs, PTL DEF Spec, IdsSpec

==============================================================================
