------------------------------ MODULE EdlnProofs ------------------------------
(***************************************************************************)
(* The line editor never writes outside its block and never loses track of *)
(* the length of its line, whatever the sizes of blocks, lines and history *)
(* and whatever is typed, pasted or completed, except where edlnhist_next  *)
(* brings back the saved line.  Each operation of edln.c is shown to keep  *)
(* an editor sound; then the ring of the history to hold an entry wherever *)
(* an editor may go.                                                       *)
(***************************************************************************)
EXTENDS Edln, WellFoundedInduction, TLAPS

-----------------------------------------------------------------------------
(* Least and greatest numbers. *)

LEMMA MinOfNaturals ==
  ASSUME NEW S \in SUBSET Nat, S # {}
  PROVE  Min(S) \in S /\ \A y \in S : Min(S) <= y
<1>0. S \subseteq Nat /\ S # {}
  OBVIOUS
<1>1. PICK x \in S : \A y \in S : ~(<<y, x>> \in OpToRel(<, Nat))
  BY <1>0, NatLessThanWellFounded, WFMin
<1>a. \A y \in S : ~(y < x)
  BY <1>0, <1>1 DEF OpToRel
<1> DEFINE IsMin(m) == m \in S /\ \A y \in S : m =< y
<1>2. IsMin(x)
  BY <1>a
<1>3. Min(S) = CHOOSE m \in S : \A y \in S : m =< y
  BY DEF Min
<1> QED
  BY <1>2, <1>3

LEMMA MaxOfBounded ==
  ASSUME NEW n \in Nat, NEW S \in SUBSET (0..n), S # {}
  PROVE  Max(S) \in S /\ \A y \in S : y <= Max(S)
<1> DEFINE T == {n - i : i \in S}
<1>1. T \in SUBSET Nat /\ T # {}
  <2>1. \A i \in S : i \in 0..n /\ n - i \in Nat
    OBVIOUS
  <2>2. PICK i \in S : TRUE
    OBVIOUS
  <2>3. n - i \in T
    OBVIOUS
  <2> QED
    BY <2>1, <2>3
<1>2. Min(T) \in T /\ \A y \in T : Min(T) <= y
  <2> HIDE DEF T
  <2> QED
    BY <1>1, MinOfNaturals
<1>3. PICK x \in S : Min(T) = n - x
  BY <1>2
<1>4. ASSUME NEW y \in S PROVE x >= y
  <2>1. n - y \in T
    OBVIOUS
  <2> HIDE DEF T
  <2> QED
    BY <1>2, <1>3, <2>1
<1> DEFINE IsMax(m) == m \in S /\ \A y \in S : m >= y
<1>5. IsMax(x)
  BY <1>4
<1>6. Max(S) = CHOOSE m \in S : \A y \in S : m >= y
  BY DEF Max
<1>7. IsMax(Max(S))
  <2> HIDE DEF T
  <2> QED
    BY <1>5, <1>6
<1>8. \A y \in S : y \in Int
  OBVIOUS
<1> QED
  BY <1>7, <1>8

LEMMA MinMaxOfTwo ==
  ASSUME NEW a \in Int, NEW b \in Int
  PROVE  /\ Min({a, b}) = IF a <= b THEN a ELSE b
         /\ Max({a, b}) = IF a <= b THEN b ELSE a
<1> DEFINE low  == IF a <= b THEN a ELSE b
           high == IF a <= b THEN b ELSE a
           IsMin(m) == m \in {a, b} /\ \A y \in {a, b} : m =< y
           IsMax(m) == m \in {a, b} /\ \A y \in {a, b} : m >= y
<1>1. IsMin(low) /\ \A m : IsMin(m) => m = low
  OBVIOUS
<1>2. IsMax(high) /\ \A m : IsMax(m) => m = high
  OBVIOUS
<1>3. Min({a, b}) = CHOOSE m \in {a, b} : \A y \in {a, b} : m =< y
  BY DEF Min
<1>4. Max({a, b}) = CHOOSE m \in {a, b} : \A y \in {a, b} : m >= y
  BY DEF Max
<1>5. IsMin(Min({a, b}))
  BY <1>1, <1>3
<1>6. IsMax(Max({a, b}))
  BY <1>2, <1>4
<1> QED
  BY <1>1, <1>2, <1>5, <1>6

LEMMA FirstOfIn ==
  ASSUME NEW lo \in Nat, NEW hi \in Nat, NEW S \in SUBSET (lo..hi), NEW end \in lo..hi
  PROVE  FirstOf(S, end) \in lo..hi
<1>1. CASE S = {}
  BY <1>1 DEF FirstOf
<1>2. CASE S # {}
  <2>1. S \in SUBSET Nat
    OBVIOUS
  <2>2. Min(S) \in S
    BY <1>2, <2>1, MinOfNaturals
  <2> QED
    BY <1>2, <2>2 DEF FirstOf
<1> QED
  BY <1>1, <1>2

LEMMA LastOfIn ==
  ASSUME NEW n \in Nat, NEW S \in SUBSET (0..n)
  PROVE  LastOf(S, -1) \in -1..n
<1>1. CASE S = {}
  BY <1>1 DEF LastOf
<1>2. CASE S # {}
  <2>1. Max(S) \in 0..n
    BY <1>2, MaxOfBounded
  <2>2. LastOf(S, -1) = Max(S)
    BY <1>2 DEF LastOf
  <2> QED
    BY <2>1, <2>2
<1> QED
  BY <1>1, <1>2

-----------------------------------------------------------------------------
(* Blocks. *)

LEMMA Constants ==
  /\ Strings \subseteq Seq(Char) /\ HistorySize \in Nat \ {0} /\ AllocUnit \in Nat \ {0}
  /\ NUL \notin Char /\ Junk # NUL /\ None \notin Seq(Byte)
  /\ Char \subseteq Byte /\ NUL \in Byte /\ Junk \in Byte
BY EdlnAssumption DEF Byte

\* The terminator of block p is behind n characters.
EndsAt(p, n) ==
  n \in Nat /\ n < Len(p) /\ p[n + 1] = NUL /\ \A k \in 1..n : p[k] # NUL

LEMMA StrlenType ==
  ASSUME NEW p \in Seq(Byte)
  PROVE  /\ Strlen(p) \in 0..Len(p) /\ \A k \in 1..Strlen(p) : p[k] # NUL
         /\ Strlen(p) < Len(p) => EndsAt(p, Strlen(p))
<1> DEFINE S == {k \in DOMAIN p : p[k] = NUL} \cup {Len(p) + 1}
<1>1. DOMAIN p = 1..Len(p) /\ Len(p) \in Nat
  OBVIOUS
<1>2. S \in SUBSET Nat /\ S # {} /\ \A k \in S : k \in 1..(Len(p) + 1)
  BY <1>1
<1>3. Min(S) \in S /\ \A y \in S : Min(S) <= y
  <2> HIDE DEF S
  <2> QED
    BY <1>2, MinOfNaturals
<1>4. Strlen(p) = Min(S) - 1
  BY DEF Strlen
<1>5. Min(S) \in 1..(Len(p) + 1)
  BY <1>2, <1>3
<1>6. ASSUME NEW k \in 1..(Min(S) - 1) PROVE p[k] # NUL
  <2> DEFINE m == Min(S)
  <2>1. \A y \in S : m <= y
    BY <1>3
  <2> HIDE DEF m
  <2>2. k \in 1..Len(p) /\ ~(m <= k)
    BY <1>1, <1>5 DEF m
  <2> QED
    BY <1>1, <2>1, <2>2
<1>7. Min(S) - 1 < Len(p) => p[Min(S)] = NUL
  <2> DEFINE m == Min(S)
  <2>1. m \in S /\ m \in 1..(Len(p) + 1)
    BY <1>3, <1>5
  <2> HIDE DEF m
  <2>2. m - 1 < Len(p) => p[m] = NUL
    BY <1>1, <2>1
  <2> QED
    BY <2>2 DEF m
<1> HIDE DEF S
<1> QED
  BY <1>1, <1>4, <1>5, <1>6, <1>7 DEF EndsAt

LEMMA StrlenIs ==
  ASSUME NEW p \in Seq(Byte), NEW n, EndsAt(p, n)
  PROVE  Strlen(p) = n
<1>1. Strlen(p) \in 0..Len(p) /\ \A k \in 1..Strlen(p) : p[k] # NUL
  BY StrlenType
<1>2. Strlen(p) < Len(p) => EndsAt(p, Strlen(p))
  BY StrlenType
<1>3. ~(Strlen(p) < n)
  <2> SUFFICES ASSUME Strlen(p) < n PROVE FALSE
    OBVIOUS
  <2>1. Strlen(p) + 1 \in 1..n /\ Strlen(p) < Len(p)
    BY <1>1 DEF EndsAt
  <2> QED
    BY <1>2, <2>1 DEF EndsAt
<1>4. ~(n < Strlen(p))
  <2> SUFFICES ASSUME n < Strlen(p) PROVE FALSE
    OBVIOUS
  <2>1. n + 1 \in 1..Strlen(p)
    BY <1>1 DEF EndsAt
  <2> QED
    BY <1>1, <2>1 DEF EndsAt
<1> QED
  BY <1>1, <1>3, <1>4 DEF EndsAt

LEMMA BlockIsSeq ==
  ASSUME NEW n \in Nat, NEW f \in [1..n -> Byte]
  PROVE  f \in Seq(Byte) /\ Len(f) = n
OBVIOUS

LEMMA FreshType ==
  ASSUME NEW n \in Nat
  PROVE  Fresh(n) \in Seq(Byte) /\ Len(Fresh(n)) = n /\ \A k \in 1..n : Fresh(n)[k] = Junk
<1>1. Fresh(n) \in [1..n -> Byte] /\ \A k \in 1..n : Fresh(n)[k] = Junk
  BY Constants DEF Fresh
<1> QED
  BY <1>1, BlockIsSeq

LEMMA BytesType ==
  ASSUME NEW p \in Seq(Byte), NEW i \in Int, NEW n \in Int
  PROVE  /\ DOMAIN Bytes(p, i, n) = 1..n
         /\ \A k \in 1..n : /\ Bytes(p, i, n)[k] \in Byte
                            /\ i + k \in 1..Len(p) => Bytes(p, i, n)[k] = p[i + k]
BY Constants DEF Bytes

\* What a block holds after bytes were stored in it.
LEMMA StoreType ==
  ASSUME NEW p \in Seq(Byte), NEW i \in Int, NEW n \in Int, NEW s,
         DOMAIN s = 1..n, \A k \in 1..n : s[k] \in Byte
  PROVE  /\ Store(p, i, s) \in Seq(Byte) /\ Len(Store(p, i, s)) = Len(p)
         /\ \A k \in 1..Len(p) : Store(p, i, s)[k] = IF k - i \in 1..n THEN s[k - i] ELSE p[k]
<1>1. DOMAIN p = 1..Len(p) /\ Len(p) \in Nat
  OBVIOUS
<1>2. \A k \in 1..Len(p) : Store(p, i, s)[k] = IF k - i \in 1..n THEN s[k - i] ELSE p[k]
  BY <1>1 DEF Store
<1>3. Store(p, i, s) \in [1..Len(p) -> Byte]
  BY <1>1 DEF Store
<1> QED
  BY <1>1, <1>2, <1>3, BlockIsSeq

LEMMA ForgetType ==
  ASSUME NEW p \in Seq(Byte)
  PROVE  /\ Forget(p) \in Seq(Byte) /\ Len(Forget(p)) = Len(p)
         /\ \A n : EndsAt(p, n) => EndsAt(Forget(p), n)
<1>1. DOMAIN p = 1..Len(p) /\ Len(p) \in Nat
  OBVIOUS
<1>2. Forget(p) \in [1..Len(p) -> Byte]
  BY <1>1, Constants DEF Forget
<1>3. Forget(p) \in Seq(Byte) /\ Len(Forget(p)) = Len(p)
  BY <1>1, <1>2, BlockIsSeq
<1>4. ASSUME NEW n, EndsAt(p, n) PROVE EndsAt(Forget(p), n)
  <2>1. Strlen(p) = n
    BY <1>4, StrlenIs
  <2>2. \A k \in 1..(n + 1) : k \in DOMAIN p /\ Forget(p)[k] = p[k]
    BY <1>1, <1>4, <2>1 DEF Forget, EndsAt
  <2> QED
    BY <1>3, <1>4, <2>2 DEF EndsAt
<1> QED
  BY <1>3, <1>4

\* Blocks are rounded up when they grow and down when they shrink.
LEMMA Rounding ==
  ASSUME NEW n \in Nat
  PROVE  Round(n) \in Nat /\ Round(n) >= n /\ Trunc(n) \in Nat /\ Trunc(n) <= n
<1>1. AllocUnit \in Nat \ {0}
  BY Constants
<1>2. n % AllocUnit \in 0..(AllocUnit - 1) /\ n % AllocUnit <= n
  BY <1>1
<1> QED
  BY <1>1, <1>2 DEF Round, Trunc

-----------------------------------------------------------------------------
(* Editors. *)

Editor == [open : {TRUE}, ok : BOOLEAN, p : Seq(Byte), palloced : Nat, psize : Nat, point : Nat,
           mark : Nat \cup {-1}, histent : -1..(HistorySize - 1), tmp_p : {None} \cup Seq(Byte),
           unsound : Nat]

Good(e) ==
  e.ok /\ EndsAt(e.p, e.psize) /\ Len(e.p) = e.palloced /\ e.point <= e.psize

\* What every operation promises of its result r.
Keeps(e, r) ==
  /\ r \in Editor /\ r.histent = e.histent /\ r.tmp_p = e.tmp_p /\ r.unsound = e.unsound
  /\ Good(e) => Good(r)

LEMMA GoodIsSound ==
  ASSUME NEW e \in Editor
  PROVE  Good(e) <=> Sound(e) /\ e.ok
<1>1. e.p \in Seq(Byte) /\ e.psize \in Nat /\ e.open = TRUE
  BY DEF Editor
<1>2. EndsAt(e.p, e.psize) => Strlen(e.p) = e.psize
  BY <1>1, StrlenIs
<1>3. Strlen(e.p) < Len(e.p) => EndsAt(e.p, Strlen(e.p))
  BY <1>1, StrlenType
<1> QED
  BY <1>1, <1>2, <1>3 DEF Good, Sound, EndsAt

LEMMA KeepsTrans ==
  ASSUME NEW e, NEW r, NEW q, Keeps(e, r), Keeps(r, q)
  PROVE  Keeps(e, q)
BY DEF Keeps

\* The fields that an edit of the line changes, and the others.
Edition(e, p, b, pa, ps, pt) ==
  [e EXCEPT !.p = p, !.ok = b, !.palloced = pa, !.psize = ps, !.point = pt]

Edited(e, r, p, b, pa, ps, pt) ==
  /\ r \in Editor /\ r.p = p /\ r.ok = b /\ r.palloced = pa /\ r.psize = ps /\ r.point = pt
  /\ r.mark = e.mark /\ r.histent = e.histent /\ r.tmp_p = e.tmp_p /\ r.unsound = e.unsound

LEMMA EditorFields ==
  ASSUME NEW e \in Editor, NEW b \in BOOLEAN, NEW p \in Seq(Byte), NEW pa \in Nat, NEW ps \in Nat,
         NEW pt \in Nat
  PROVE  Edited(e, Edition(e, p, b, pa, ps, pt), p, b, pa, ps, pt)
BY DEF Editor, Edited, Edition

LEMMA ReallocType ==
  ASSUME NEW e \in Editor, NEW size \in Nat
  PROVE  /\ Realloc(e, size) \in Seq(Byte) /\ Len(Realloc(e, size)) = size
         /\ \A k \in 1..e.point : k <= size /\ k <= Len(e.p) => Realloc(e, size)[k] = e.p[k]
<1>1. e.p \in Seq(Byte) /\ e.point \in Nat
  BY DEF Editor
<1> DEFINE b == Bytes(e.p, 0, e.point)
<1>2. DOMAIN b = 1..e.point /\ \A k \in 1..e.point : b[k] \in Byte /\ (0 + k \in 1..Len(e.p) => b[k] = e.p[0 + k])
  BY <1>1, BytesType
<1> HIDE DEF b
<1> DEFINE q == Store(Fresh(size), 0, b)
<1>3. Fresh(size) \in Seq(Byte) /\ Len(Fresh(size)) = size
  BY FreshType
<1>4. /\ q \in Seq(Byte) /\ Len(q) = size
      /\ \A k \in 1..size : q[k] = IF k - 0 \in 1..e.point THEN b[k - 0] ELSE Fresh(size)[k]
  <2> HIDE DEF q
  <2> QED
    BY <1>1, <1>2, <1>3, StoreType DEF q
<1>5. q = Realloc(e, size)
  BY DEF Realloc, b
<1> HIDE DEF q
<1>6. ASSUME NEW k \in 1..e.point, k <= size, k <= Len(e.p)
      PROVE  q[k] = e.p[k]
  <2>1. k - 0 = k /\ 0 + k = k /\ k \in 1..size /\ k \in 1..Len(e.p)
    BY <1>1, <1>6
  <2> QED
    BY <1>2, <1>4, <2>1
<1> QED
  BY <1>4, <1>5, <1>6

\* What memmove does.
Moved(e, block, to, from, n, m) ==
  /\ m.p \in Seq(Byte) /\ Len(m.p) = Len(block)
  /\ m.ok \in BOOLEAN
  /\ m.ok <=> e.ok /\ n >= 0 /\ to + n <= Len(block) /\ e.point <= Len(block)
  /\ \A k \in 1..Len(block) :
       /\ k - to \in 1..n /\ from + (k - to) \in 1..Len(e.p) => m.p[k] = e.p[from + (k - to)]
       /\ k - to \notin 1..n => m.p[k] = block[k]
  /\ m = [e EXCEPT !.p = m.p, !.ok = m.ok]

LEMMA MemmoveType ==
  ASSUME NEW e \in Editor, NEW block \in Seq(Byte), NEW to \in Int, NEW from \in Int, NEW n \in Int
  PROVE  Moved(e, block, to, from, n, Memmove(e, block, to, from, n))
<1> DEFINE b == Bytes(e.p, from, n)
           q == Store(block, to, b)
           o == e.ok /\ n >= 0 /\ to + n <= Len(block) /\ e.point <= Len(block)
<1>1. e.p \in Seq(Byte) /\ e.ok \in BOOLEAN
  BY DEF Editor
<1>2. DOMAIN b = 1..n /\ \A k \in 1..n : b[k] \in Byte /\ (from + k \in 1..Len(e.p) => b[k] = e.p[from + k])
  BY <1>1, BytesType
<1> HIDE DEF b, q
<1>3. /\ q \in Seq(Byte) /\ Len(q) = Len(block)
      /\ \A k \in 1..Len(block) : q[k] = IF k - to \in 1..n THEN b[k - to] ELSE block[k]
  <2>1. DOMAIN b = 1..n /\ \A k \in 1..n : b[k] \in Byte
    BY <1>2
  <2>2. /\ Store(block, to, b) \in Seq(Byte) /\ Len(Store(block, to, b)) = Len(block)
        /\ \A k \in 1..Len(block) : Store(block, to, b)[k] = IF k - to \in 1..n THEN b[k - to] ELSE block[k]
    BY <2>1, StoreType
  <2> QED
    BY <2>2 DEF q
<1>4. o \in BOOLEAN
  OBVIOUS
<1>5. Memmove(e, block, to, from, n) = [e EXCEPT !.p = q, !.ok = o]
  BY DEF Memmove, b, q
<1> HIDE DEF q, o
<1>6. Memmove(e, block, to, from, n).p = q /\ Memmove(e, block, to, from, n).ok = o
  BY <1>5 DEF Editor
<1>7. \A k \in 1..Len(block) :
        /\ k - to \in 1..n /\ from + (k - to) \in 1..Len(e.p) => q[k] = e.p[from + (k - to)]
        /\ k - to \notin 1..n => q[k] = block[k]
  BY <1>2, <1>3
<1>8. o <=> e.ok /\ n >= 0 /\ to + n <= Len(block) /\ e.point <= Len(block)
  BY DEF o
<1> DEFINE m == Memmove(e, block, to, from, n)
<1>9. m = [e EXCEPT !.p = m.p, !.ok = m.ok]
  BY <1>5, <1>6
<1> HIDE DEF m
<1> QED
  BY <1>3, <1>4, <1>6, <1>7, <1>8, <1>9 DEF m, Moved

\* edln_pspc makes room for n bytes at point and keeps what is before and
\* behind it, with the terminator.
LEMMA PspcMakesRoom ==
  ASSUME NEW e \in Editor, NEW n \in Nat
  PROVE  LET r == Pspc(e, n)
         IN  /\ r \in Editor /\ r.psize = e.psize + n /\ r.point = e.point /\ r.histent = e.histent
             /\ r.tmp_p = e.tmp_p /\ r.unsound = e.unsound
             /\ Good(e) =>
                  /\ r.ok /\ Len(r.p) = r.palloced /\ e.psize + n < r.palloced
                  /\ \A k \in 1..e.point : r.p[k] = e.p[k]
                  /\ \A k \in (e.point + 1)..(e.psize + 1) : r.p[k + n] = e.p[k]
<1> DEFINE grow  == e.palloced < e.psize + 1 + n
           pa    == Round(e.palloced + n)
           block == IF grow THEN Realloc(e, pa) ELSE e.p
           count == e.psize - e.point + 1
           to    == e.point + n
           m     == Memmove(e, block, to, e.point, count)
           size  == IF grow THEN pa ELSE e.palloced
<1>1. /\ e.p \in Seq(Byte) /\ e.ok \in BOOLEAN /\ Len(e.p) \in Nat
      /\ e.palloced \in Nat /\ e.psize \in Nat /\ e.point \in Nat
  BY DEF Editor
<1>2. pa \in Nat /\ pa >= e.palloced + n
  <2>1. e.palloced + n \in Nat
    BY <1>1
  <2> QED
    BY <2>1, Rounding
<1> HIDE DEF pa
<1>3. block \in Seq(Byte) /\ (Good(e) => Len(block) = size)
  BY <1>1, <1>2, ReallocType DEF Good
<1>4. Good(e) => e.psize + n < size
  BY <1>1, <1>2 DEF Good, EndsAt
<1>5. Good(e) => \A k \in 1..e.point : block[k] = e.p[k]
  <2> SUFFICES ASSUME Good(e), NEW k \in 1..e.point PROVE block[k] = e.p[k]
    OBVIOUS
  <2>1. k <= Len(e.p) /\ k <= pa
    BY <1>1, <1>2 DEF Good, EndsAt
  <2> QED
    BY <1>1, <1>2, <2>1, ReallocType
<1> HIDE DEF block
<1>6. Moved(e, block, to, e.point, count, m)
  <2>1. to \in Int /\ e.point \in Int /\ count \in Int
    BY <1>1
  <2> HIDE DEF to, count
  <2> QED
    BY <1>3, <2>1, MemmoveType
<1>8. Pspc(e, n) = [m EXCEPT !.palloced = IF grow THEN pa ELSE @, !.psize = @ + n]
  BY DEF Pspc, m, block, pa
<1> HIDE DEF m
<1> DEFINE ps == e.psize + n
<1>9. size \in Nat /\ ps \in Nat
  BY <1>1, <1>2
<1>10. Pspc(e, n) = Edition(e, m.p, m.ok, size, ps, e.point)
  BY <1>6, <1>8 DEF Editor, Moved, Edition
<1> HIDE DEF size, ps
<1> DEFINE r == Pspc(e, n)
<1>11. Edited(e, r, m.p, m.ok, size, ps, e.point)
  <2>1. m.p \in Seq(Byte) /\ m.ok \in BOOLEAN
    BY <1>6 DEF Moved
  <2> QED
    BY <1>1, <1>9, <1>10, <2>1, EditorFields
<1> HIDE DEF r
<1> USE DEF ps
<1>12. ASSUME Good(e)
       PROVE  /\ r.ok /\ Len(r.p) = r.palloced /\ e.psize + n < r.palloced
              /\ \A k \in 1..e.point : r.p[k] = e.p[k]
              /\ \A k \in (e.point + 1)..(e.psize + 1) : r.p[k + n] = e.p[k]
  <2>1. Len(block) = size /\ ps < size /\ e.point <= e.psize /\ e.psize < Len(e.p) /\ e.ok
    BY <1>3, <1>4, <1>12 DEF Good, EndsAt
  <2>2. r.ok
    BY <1>1, <1>6, <1>9, <1>11, <2>1 DEF Moved, Edited
  <2>3. ASSUME NEW k \in 1..e.point PROVE r.p[k] = e.p[k]
    <3>1. k \in 1..Len(block) /\ k - to \notin 1..count
      BY <1>1, <1>9, <2>1
    <3> QED
      BY <1>5, <1>6, <1>11, <1>12, <3>1 DEF Moved, Edited
  <2>4. ASSUME NEW k \in (e.point + 1)..(e.psize + 1) PROVE r.p[k + n] = e.p[k]
    <3>1. k + n \in 1..Len(block) /\ (k + n) - to \in 1..count
          /\ e.point + ((k + n) - to) = k /\ k \in 1..Len(e.p)
      BY SMTT(30), <1>1, <1>9, <2>1
    <3> QED
      BY <1>6, <1>11, <3>1 DEF Moved, Edited
  <2> QED
    BY <1>6, <1>11, <2>1, <2>2, <2>3, <2>4 DEF Moved, Edited
<1> QED
  BY <1>11, <1>12 DEF r, Edited

\* edln_insstr_n
LEMMA InsertKeeps ==
  ASSUME NEW e \in Editor, NEW s \in Seq(Char)
  PROVE  Keeps(e, Insert(e, s)) /\ Insert(e, s).point = e.point + Len(s)
<1> DEFINE n == Len(s)
           m == Pspc(e, n)
           q == Store(m.p, e.point, s)
           o == m.ok /\ e.point + n <= Len(m.p)
           pt == e.point + n
<1>1. n \in Nat /\ DOMAIN s = 1..n /\ \A k \in 1..n : s[k] \in Byte /\ s[k] # NUL
  BY Constants
<1>2. e.p \in Seq(Byte) /\ e.psize \in Nat /\ e.point \in Nat
  BY DEF Editor
<1> HIDE DEF n
<1>3. /\ m \in Editor /\ m.psize = e.psize + n /\ m.point = e.point /\ m.histent = e.histent
      /\ m.tmp_p = e.tmp_p /\ m.unsound = e.unsound
  <2> HIDE DEF m
  <2> QED
    BY <1>1, PspcMakesRoom DEF m
<1>4. Good(e) =>
        /\ m.ok /\ Len(m.p) = m.palloced /\ e.psize + n < m.palloced
        /\ \A k \in 1..e.point : m.p[k] = e.p[k]
        /\ \A k \in (e.point + 1)..(e.psize + 1) : m.p[k + n] = e.p[k]
  <2> HIDE DEF m
  <2> QED
    BY <1>1, PspcMakesRoom DEF m
<1>5. Insert(e, s) = [m EXCEPT !.p = Store(@, e.point, s), !.point = @ + n,
                               !.ok = @ /\ e.point + n <= Len(m.p)]
  BY DEF Insert, m, n
<1> HIDE DEF m
<1>6. m.p \in Seq(Byte) /\ m.ok \in BOOLEAN /\ m.palloced \in Nat /\ m.psize \in Nat
  BY <1>3 DEF Editor
<1>7. /\ q \in Seq(Byte) /\ Len(q) = Len(m.p)
      /\ \A k \in 1..Len(m.p) : q[k] = IF k - e.point \in 1..n THEN s[k - e.point] ELSE m.p[k]
  <2>1. \A k \in 1..n : s[k] \in Byte
    BY <1>1
  <2> HIDE DEF q
  <2> QED
    BY <1>1, <1>2, <1>6, <2>1, StoreType DEF q
<1>8. o \in BOOLEAN /\ pt \in Nat
  BY <1>1, <1>2, <1>6
<1>9. Insert(e, s) = Edition(m, q, o, m.palloced, m.psize, pt)
  BY <1>3, <1>5 DEF Editor, Edition
<1>a. o <=> m.ok /\ e.point + n <= Len(m.p)
  OBVIOUS
<1> HIDE DEF q, o, pt
<1> DEFINE r == Insert(e, s)
<1>10. Edited(m, r, q, o, m.palloced, m.psize, pt)
  BY <1>3, <1>6, <1>7, <1>8, <1>9, EditorFields
<1> HIDE DEF r
<1> USE DEF pt
<1>11. ASSUME Good(e) PROVE Good(r)
  <2>1. /\ e.point <= e.psize /\ e.p[e.psize + 1] = NUL /\ \A k \in 1..e.psize : e.p[k] # NUL
    BY <1>11 DEF Good, EndsAt
  <2>2. /\ m.ok /\ Len(m.p) = m.palloced /\ e.psize + n < m.palloced
        /\ \A k \in 1..e.point : m.p[k] = e.p[k]
        /\ \A k \in (e.point + 1)..(e.psize + 1) : m.p[k + n] = e.p[k]
    BY <1>4, <1>11
  <2>3. r.ok /\ Len(r.p) = r.palloced /\ r.point <= r.psize /\ r.psize \in Nat /\ r.psize < Len(r.p)
    BY <1>1, <1>2, <1>3, <1>6, <1>7, <1>10, <1>a, <2>1, <2>2 DEF Edited
  <2>4. ASSUME NEW k \in 1..Len(m.p), k > pt, k - n <= e.psize + 1 PROVE q[k] = e.p[k - n]
    <3>1. k - e.point \notin 1..n /\ k - n \in (e.point + 1)..(e.psize + 1) /\ (k - n) + n = k
      BY <1>1, <1>2, <2>4
    <3>2. q[k] = m.p[k]
      BY <1>7, <3>1
    <3> QED
      BY <2>2, <3>1, <3>2
  <2>5. q[e.psize + n + 1] = NUL
    <3> DEFINE k == e.psize + n + 1
    <3>1. k \in 1..Len(m.p) /\ k > pt /\ k - n = e.psize + 1
      BY <1>1, <1>2, <1>6, <2>1, <2>2
    <3> HIDE DEF k
    <3>2. q[k] = e.p[e.psize + 1]
      BY <1>2, <2>4, <3>1
    <3> QED
      BY <2>1, <3>2 DEF k
  <2>6. ASSUME NEW k \in 1..(e.psize + n) PROVE q[k] # NUL
    <3>0. k \in 1..Len(m.p)
      BY <1>1, <1>2, <1>6, <2>2
    <3>1. CASE k <= e.point
      <4>1. k \in 1..e.point /\ k \in 1..e.psize /\ k - e.point \notin 1..n
        BY <1>1, <1>2, <2>1, <3>1
      <4> QED
        BY <1>7, <2>1, <2>2, <3>0, <4>1
    <3>2. CASE e.point < k /\ k <= pt
      <4>1. k - e.point \in 1..n
        BY <1>1, <1>2, <3>2
      <4> QED
        BY <1>1, <1>7, <3>0, <4>1
    <3>3. CASE k > pt
      <4>1. k - n \in 1..e.psize /\ k - n <= e.psize + 1
        BY <1>1, <1>2, <3>3
      <4> QED
        BY <2>1, <2>4, <3>0, <3>3, <4>1
    <3> QED
      BY <1>1, <1>2, <3>1, <3>2, <3>3
  <2> QED
    BY <1>3, <1>10, <2>3, <2>5, <2>6 DEF Good, EndsAt, Edited
<1> QED
  BY <1>3, <1>10, <1>11 DEF Keeps, r, n, Edited

\* edln_rspc takes n bytes at point out and moves what is behind them up.
LEMMA RspcKeeps ==
  ASSUME NEW e \in Editor, NEW asked \in Int, Good(e) => asked >= 0
  PROVE  Keeps(e, Rspc(e, asked)) /\ Rspc(e, asked).point = e.point
<1> DEFINE n      == Removed(e, asked)
           pa     == Trunc(e.palloced)
           shrink == e.psize + 1 - n < pa
           block  == IF shrink THEN Realloc(e, pa) ELSE e.p
           size   == IF shrink THEN pa ELSE e.palloced
           from   == e.point + n
           count  == e.psize - e.point + 1 - n
           m      == Memmove(e, block, e.point, from, count)
           ps     == e.psize - n
<1>1. /\ e.p \in Seq(Byte) /\ e.ok \in BOOLEAN /\ Len(e.p) \in Nat
      /\ e.palloced \in Nat /\ e.psize \in Nat /\ e.point \in Nat
  BY DEF Editor
<1>2. n \in Int /\ ps \in Nat
  BY <1>1 DEF Removed
<1>3. Good(e) => n \in 0..(e.psize - e.point)
  BY <1>1 DEF Removed, Good
<1> HIDE DEF n
<1>4. pa \in Nat
  BY <1>1, Rounding
<1> HIDE DEF pa
<1>5. block \in Seq(Byte) /\ (Good(e) => Len(block) = size)
  BY <1>1, <1>4, ReallocType DEF Good
<1>6. size \in Nat /\ (Good(e) => ps < size)
  BY <1>1, <1>2, <1>3, <1>4 DEF Good, EndsAt
<1>7. Good(e) => \A k \in 1..e.point : k <= size => block[k] = e.p[k]
  <2> SUFFICES ASSUME Good(e), NEW k \in 1..e.point, k <= size PROVE block[k] = e.p[k]
    OBVIOUS
  <2>1. k <= Len(e.p)
    BY <1>1 DEF Good, EndsAt
  <2> QED
    BY <1>1, <1>4, <2>1, ReallocType
<1> HIDE DEF block
<1>8. Moved(e, block, e.point, from, count, m)
  <2>1. from \in Int /\ e.point \in Int /\ count \in Int
    BY <1>1, <1>2
  <2> HIDE DEF from, count
  <2> QED
    BY <1>5, <2>1, MemmoveType
<1>9. CASE n = 0
  <2>1. Rspc(e, asked) = e
    BY <1>9 DEF Rspc, n
  <2> QED
    BY <2>1 DEF Keeps
<1>10. CASE n # 0
  <2>1. Rspc(e, asked) = [m EXCEPT !.palloced = IF shrink THEN pa ELSE @, !.psize = @ - n]
    BY <1>10 DEF Rspc, m, block, pa, n
  <2> HIDE DEF m
  <2>2. Rspc(e, asked) = Edition(e, m.p, m.ok, size, ps, e.point)
    BY <1>8, <2>1 DEF Editor, Moved, Edition
  <2> DEFINE r == Rspc(e, asked)
  <2>3. m.p \in Seq(Byte) /\ m.ok \in BOOLEAN
    BY <1>8 DEF Moved
  <2> HIDE DEF size, ps
  <2>4. Edited(e, r, m.p, m.ok, size, ps, e.point)
    BY <1>1, <1>2, <1>6, <2>2, <2>3, EditorFields
  <2> HIDE DEF r
  <2> USE DEF ps
  <2>5. ASSUME Good(e) PROVE Good(r)
    <3>1. /\ e.point <= e.psize /\ e.psize < Len(e.p) /\ e.p[e.psize + 1] = NUL /\ e.ok
          /\ \A k \in 1..e.psize : e.p[k] # NUL
      BY <2>5 DEF Good, EndsAt
    <3>2. Len(block) = size /\ ps < size /\ n \in 0..(e.psize - e.point) /\ size \in Nat
      BY <1>3, <1>5, <1>6, <2>5
    <3>3. count = ps - e.point + 1 /\ count >= 1 /\ e.point + count = ps + 1 /\ e.point <= ps
      BY <1>1, <1>2, <3>1, <3>2
    <3>4. r.ok /\ Len(r.p) = r.palloced /\ r.point <= r.psize /\ r.psize \in Nat /\ r.psize < Len(r.p)
      BY SMTT(30), <1>1, <1>2, <1>8, <2>4, <3>1, <3>2, <3>3 DEF Moved, Edited
    <3>5. ASSUME NEW k \in (e.point + 1)..(ps + 1) PROVE r.p[k] = e.p[k + n]
      <4>1. k \in 1..Len(block) /\ from + (k - e.point) = k + n
        BY <1>1, <1>2, <3>1, <3>2, <3>3
      <4>2. k - e.point \in 1..count
        <5> HIDE DEF ps, count
        <5> QED
          BY <1>1, <1>2, <3>3
      <4>3. k + n \in 1..Len(e.p)
        BY <1>1, <1>2, <3>1, <3>2
      <4> QED
        BY <1>8, <2>4, <4>1, <4>2, <4>3 DEF Moved, Edited
    <3>6. r.p[ps + 1] = NUL
      <4> DEFINE k == ps + 1
      <4>1. k \in (e.point + 1)..(ps + 1) /\ k + n = e.psize + 1
        BY SMTT(30), <1>1, <1>2, <3>2, <3>3
      <4> HIDE DEF k
      <4>2. r.p[k] = e.p[e.psize + 1]
        BY <3>5, <4>1
      <4> QED
        BY <3>1, <4>2 DEF k
    <3>7. ASSUME NEW k \in 1..ps PROVE r.p[k] # NUL
      <4>1. CASE k <= e.point
        <5>1. k \in 1..e.point /\ k \in 1..e.psize /\ k <= size /\ k \in 1..Len(block)
              /\ k - e.point \notin 1..count
          BY SMTT(30), <1>1, <1>2, <3>1, <3>2, <3>3, <4>1
        <5>2. r.p[k] = block[k]
          BY <1>8, <2>4, <5>1 DEF Moved, Edited
        <5> QED
          BY <1>7, <2>5, <3>1, <5>1, <5>2
      <4>2. CASE k > e.point
        <5>1. k \in (e.point + 1)..(ps + 1) /\ k + n \in 1..e.psize
          BY <1>1, <1>2, <3>2, <4>2
        <5> QED
          BY <3>1, <3>5, <5>1
      <4> QED
        BY <1>1, <1>2, <4>1, <4>2
    <3> QED
      BY <2>4, <3>4, <3>6, <3>7 DEF Good, EndsAt, Edited
  <2> QED
    BY <2>4, <2>5 DEF Keeps, r, Edited
<1> QED
  BY <1>9, <1>10

\* edln_initstr and what follows it, wherever it is called.
LEMMA FillKeeps ==
  ASSUME NEW e \in Editor, NEW s \in Seq(Char)
  PROVE  /\ Fill(e, s) \in Editor /\ (e.ok => Good(Fill(e, s)))
         /\ Fill(e, s).ok = e.ok /\ Fill(e, s).histent = e.histent /\ Fill(e, s).tmp_p = e.tmp_p
         /\ Fill(e, s).unsound = e.unsound
<1> DEFINE n  == Len(s)
           al == Round(n + 1)
           z  == Append(s, NUL)
           q  == Store(Fresh(al), 0, z)
<1>1. n \in Nat /\ \A k \in 1..n : s[k] \in Byte /\ s[k] # NUL
  BY Constants
<1>2. DOMAIN z = 1..(n + 1) /\ z[n + 1] = NUL /\ \A k \in 1..n : z[k] = s[k]
  OBVIOUS
<1>3. \A k \in 1..(n + 1) : z[k] \in Byte
  BY <1>1, <1>2, Constants
<1> HIDE DEF n, z
<1>4. al \in Nat /\ al >= n + 1
  <2>1. n + 1 \in Nat
    BY <1>1
  <2> QED
    BY <2>1, Rounding
<1> HIDE DEF al
<1>5. Fresh(al) \in Seq(Byte) /\ Len(Fresh(al)) = al
  BY <1>4, FreshType
<1>6. /\ q \in Seq(Byte) /\ Len(q) = al
      /\ \A k \in 1..al : q[k] = IF k - 0 \in 1..(n + 1) THEN z[k - 0] ELSE Fresh(al)[k]
  <2>1. n + 1 \in Int
    BY <1>1
  <2> HIDE DEF q
  <2> QED
    BY <1>2, <1>3, <1>5, <2>1, StoreType DEF q
<1> HIDE DEF q
<1>7. EndsAt(q, n)
  <2>1. \A k \in 1..(n + 1) : k \in 1..al /\ k - 0 = k
    BY <1>1, <1>4
  <2>2. \A k \in 1..(n + 1) : q[k] = z[k]
    BY <1>6, <2>1
  <2>3. n + 1 \in 1..(n + 1) /\ (\A k \in 1..n : k \in 1..(n + 1)) /\ n < Len(q)
    BY <1>1, <1>4, <1>6
  <2> QED
    BY <1>1, <1>2, <2>2, <2>3 DEF EndsAt
<1> DEFINE r == Fill(e, s)
<1>8. r = [e EXCEPT !.p = q, !.palloced = al, !.psize = n, !.point = n, !.mark = -1]
  BY DEF Fill, InitStr, n, al, z, q
<1>9. /\ r \in Editor /\ r.p = q /\ r.palloced = al /\ r.psize = n /\ r.point = n
      /\ r.ok = e.ok /\ r.histent = e.histent /\ r.tmp_p = e.tmp_p /\ r.unsound = e.unsound
  BY <1>1, <1>4, <1>6, <1>8 DEF Editor
<1> HIDE DEF r
<1> QED
  BY <1>1, <1>6, <1>7, <1>9 DEF Good, r

LEMMA NewIsGood ==
  ASSUME NEW s \in Seq(Char)
  PROVE  New(s) \in Editor /\ Good(New(s)) /\ New(s).histent = -1 /\ New(s).tmp_p = None
<1> DEFINE e == [open |-> TRUE, ok |-> TRUE, p |-> <<>>, palloced |-> 0, psize |-> 0,
                 point |-> 0, mark |-> -1, histent |-> -1, tmp_p |-> None, unsound |-> 0]
<1>1. e \in Editor /\ e.ok /\ e.histent = -1 /\ e.tmp_p = None
  BY Constants DEF Editor
<1>2. New(s) = Fill(e, s)
  BY DEF New
<1> HIDE DEF e
<1> QED
  BY <1>1, <1>2, FillKeeps

-----------------------------------------------------------------------------
(* Movement, deletion and completion. *)

LEMMA PointKeeps ==
  ASSUME NEW e \in Editor, NEW q \in Nat, Good(e) => q <= e.psize
  PROVE  Keeps(e, [e EXCEPT !.point = q]) /\ [e EXCEPT !.point = q].point = q
         /\ [e EXCEPT !.point = q].psize = e.psize
BY DEF Keeps, Good, Editor

LEMMA KeepsSelf ==
  ASSUME NEW e \in Editor
  PROVE  Keeps(e, e)
BY DEF Keeps

LEMMA EditorNumbers ==
  ASSUME NEW e \in Editor
  PROVE  e.psize \in Nat /\ e.point \in Nat /\ (Good(e) => e.point <= e.psize)
BY DEF Editor, Good

LEMMA BackKeeps ==
  ASSUME NEW e \in Editor
  PROVE  Keeps(e, Back(e))
<1>1. e.psize \in Nat /\ e.point \in Nat /\ (Good(e) => e.point <= e.psize)
  BY EditorNumbers
<1>2. CASE e.point > 0
  <2> DEFINE q == e.point - 1
  <2>1. q \in Nat /\ (Good(e) => q <= e.psize)
    BY <1>1, <1>2
  <2>2. Back(e) = [e EXCEPT !.point = q]
    BY <1>2 DEF Back
  <2> HIDE DEF q
  <2> QED
    BY <2>1, <2>2, PointKeeps
<1>3. CASE ~(e.point > 0)
  BY <1>3, KeepsSelf DEF Back
<1> QED
  BY <1>2, <1>3

LEMMA ForwardKeeps ==
  ASSUME NEW e \in Editor
  PROVE  Keeps(e, Forward(e))
<1>1. e.psize \in Nat /\ e.point \in Nat
  BY EditorNumbers
<1>2. CASE e.point < e.psize
  <2> DEFINE q == e.point + 1
  <2>1. q \in Nat /\ q <= e.psize
    BY <1>1, <1>2
  <2>2. Forward(e) = [e EXCEPT !.point = q]
    BY <1>2 DEF Forward
  <2> HIDE DEF q
  <2> QED
    BY <2>1, <2>2, PointKeeps
<1>3. CASE ~(e.point < e.psize)
  BY <1>3, KeepsSelf DEF Forward
<1> QED
  BY <1>2, <1>3

LEMMA EndsKeep ==
  ASSUME NEW e \in Editor
  PROVE  /\ Keeps(e, Bol(e)) /\ Bol(e).point = 0 /\ Bol(e).psize = e.psize
         /\ Keeps(e, Eol(e))
<1>1. e.psize \in Nat /\ 0 \in Nat /\ 0 <= e.psize /\ e.psize <= e.psize
  BY EditorNumbers
<1> QED
  BY <1>1, PointKeeps DEF Bol, Eol

LEMMA BskipWordKeeps ==
  ASSUME NEW e \in Editor
  PROVE  Keeps(e, BskipWord(e))
<1> DEFINE words == {i \in 1..(e.point - 1) : IsAlnum(e, i)}
           last  == Max(words)
           gaps  == {i \in 1..last : ~IsAlnum(e, i)}
           q     == LastOf(gaps, -1) + 1
<1>1. e.psize \in Nat /\ e.point \in Nat /\ (Good(e) => e.point <= e.psize)
  BY EditorNumbers
<1>2. CASE words = {}
  BY <1>2, KeepsSelf DEF BskipWord
<1>3. CASE words # {}
  <2>1. words \in SUBSET (0..e.point) /\ \A i \in words : i \in 1..(e.point - 1)
    BY <1>1
  <2> HIDE DEF words
  <2>2. last \in 1..(e.point - 1)
    BY <1>1, <1>3, <2>1, MaxOfBounded
  <2> HIDE DEF last
  <2>3. gaps \in SUBSET (0..last) /\ last \in Nat
    BY <1>1, <2>2
  <2> HIDE DEF gaps
  <2>4. q \in Nat /\ q <= e.point
    <3>1. LastOf(gaps, -1) \in -1..last
      BY <2>3, LastOfIn
    <3> QED
      BY <1>1, <2>2, <3>1
  <2>5. BskipWord(e) = [e EXCEPT !.point = q]
    BY <1>3 DEF BskipWord, words, gaps, last
  <2> HIDE DEF q
  <2> QED
    BY <1>1, <2>4, <2>5, PointKeeps
<1> QED
  BY <1>2, <1>3

LEMMA SkipWordKeeps ==
  ASSUME NEW e \in Editor
  PROVE  Keeps(e, SkipWord(e))
<1> DEFINE gaps  == {i \in e.point..(e.psize - 1) : ~IsAlnum(e, i)}
           first == Min(gaps)
           words == {i \in first..(e.psize - 1) : IsAlnum(e, i)}
           q     == FirstOf(words, e.psize)
<1>1. e.psize \in Nat /\ e.point \in Nat
  BY EditorNumbers
<1>2. CASE gaps = {}
  BY <1>2, KeepsSelf DEF SkipWord
<1>3. CASE gaps # {}
  <2>1. gaps \in SUBSET Nat
    BY <1>1
  <2> HIDE DEF gaps
  <2>2. first \in Nat
    BY <1>3, <2>1, MinOfNaturals
  <2> HIDE DEF first
  <2>3. words \in SUBSET (0..e.psize) /\ e.psize \in 0..e.psize
    BY <1>1, <2>2
  <2> HIDE DEF words
  <2>4. q \in Nat /\ q <= e.psize
    <3>1. 0 \in Nat /\ e.psize \in Nat
      BY <1>1
    <3>2. FirstOf(words, e.psize) \in 0..e.psize
      BY <2>3, <3>1, FirstOfIn
    <3> QED
      BY <1>1, <3>2
  <2>5. SkipWord(e) = [e EXCEPT !.point = q]
    BY <1>3 DEF SkipWord, words, gaps, first
  <2> HIDE DEF q
  <2> QED
    BY <2>4, <2>5, PointKeeps
<1> QED
  BY <1>2, <1>3

LEMMA DeleteKeeps ==
  ASSUME NEW e \in Editor
  PROVE  Keeps(e, Delete(e))
BY RspcKeeps DEF Delete

LEMMA BackspaceKeeps ==
  ASSUME NEW e \in Editor
  PROVE  Keeps(e, Backspace(e))
<1>1. Keeps(e, Back(e)) /\ Back(e) \in Editor
  BY BackKeeps DEF Keeps
<1>2. Keeps(e, Delete(Back(e)))
  BY <1>1, DeleteKeeps, KeepsTrans
<1> QED
  BY <1>2, KeepsSelf DEF Backspace

LEMMA KillToEolKeeps ==
  ASSUME NEW e \in Editor
  PROVE  Keeps(e, KillToEol(e))
<1>1. e.psize - e.point \in Int /\ (Good(e) => e.psize - e.point >= 0)
  BY EditorNumbers
<1> QED
  BY <1>1, RspcKeeps DEF KillToEol

LEMMA KillToBolKeeps ==
  ASSUME NEW e \in Editor
  PROVE  Keeps(e, KillToBol(e)) /\ KillToBol(e).point = 0
<1> DEFINE b == Bol(e)
           r == Rspc(b, e.point)
<1>1. Keeps(e, b) /\ b \in Editor /\ b.point = 0
  BY EndsKeep DEF Keeps
<1>2. e.point \in Int /\ e.point >= 0
  BY EditorNumbers
<1> HIDE DEF b
<1>3. Keeps(b, r) /\ r.point = 0
  BY <1>1, <1>2, RspcKeeps
<1>4. r \in Editor /\ Keeps(e, r)
  BY <1>1, <1>3, KeepsTrans DEF Keeps
<1> HIDE DEF r
<1>5. [r EXCEPT !.point = 0] = r
  BY <1>3, <1>4 DEF Editor
<1>6. KillToBol(e) = [r EXCEPT !.point = 0]
  BY DEF KillToBol, r, b
<1> QED
  BY <1>3, <1>4, <1>5, <1>6

LEMMA KillLineKeeps ==
  ASSUME NEW e \in Editor
  PROVE  Keeps(e, KillLine(e))
<1>1. Keeps(e, Bol(e)) /\ Bol(e) \in Editor
  BY EndsKeep DEF Keeps
<1> QED
  BY <1>1, KillToEolKeeps, KeepsTrans DEF KillLine

LEMMA KillWordKeeps ==
  ASSUME NEW e \in Editor
  PROVE  Keeps(e, KillWord(e))
<1> DEFINE ends == {i \in (e.point + 1)..e.psize : IsAlnum(e, i) # IsAlnum(e, e.point)}
           here == {e.psize} \cap (e.point..e.psize)
           end  == FirstOf(ends, FirstOf(here, e.point))
           n    == end - e.point
<1>1. e.psize \in Nat /\ e.point \in Nat
  BY EditorNumbers
<1> DEFINE otherwise == FirstOf(here, e.point)
           most      == e.point + e.psize
<1>2. /\ ends \in SUBSET (e.point..most) /\ here \in SUBSET (e.point..most)
      /\ e.point \in e.point..most /\ most \in Nat
  BY <1>1
<1> HIDE DEF ends, here, most
<1>3. otherwise \in e.point..most
  BY <1>1, <1>2, FirstOfIn
<1> HIDE DEF otherwise
<1>4. FirstOf(ends, otherwise) \in e.point..most
  BY <1>1, <1>2, <1>3, FirstOfIn
<1>5. n \in Int /\ n >= 0
  <2>1. n = FirstOf(ends, otherwise) - e.point
    BY DEF otherwise
  <2> HIDE DEF n
  <2> QED
    BY <1>1, <1>2, <1>4, <2>1
<1>6. KillWord(e) = Rspc(e, n)
  BY DEF KillWord, ends, here
<1> HIDE DEF n
<1> QED
  BY <1>5, <1>6, RspcKeeps

LEMMA BkillWordKeeps ==
  ASSUME NEW e \in Editor
  PROVE  Keeps(e, BkillWord(e))
<1> DEFINE S == {i \in 0..(e.point - 2) : IsAlnum(e, i) # IsAlnum(e, e.point - 1)}
           p == LastOf(S, -1) + 1
           n == e.point - p
           b == [e EXCEPT !.point = p]
<1>1. e.psize \in Nat /\ e.point \in Nat /\ (Good(e) => e.point <= e.psize)
  BY EditorNumbers
<1> DEFINE last == IF e.point < 2 THEN 0 ELSE e.point - 2
<1>2. S \in SUBSET (0..last) /\ last \in Nat /\ (e.point < 2 => S = {})
  BY <1>1
<1> HIDE DEF S
<1>3. p \in Nat /\ p <= e.point
  <2>1. LastOf(S, -1) \in -1..last
    <3> HIDE DEF last
    <3> QED
      BY <1>2, LastOfIn
  <2>2. e.point < 2 => LastOf(S, -1) = -1
    BY <1>2 DEF LastOf
  <2> QED
    BY <1>1, <2>1, <2>2
<1>4. n \in Int /\ n >= 0 /\ (Good(e) => p <= e.psize)
  BY <1>1, <1>3
<1> HIDE DEF p
<1>5. Keeps(e, b) /\ b \in Editor
  BY <1>3, <1>4, PointKeeps DEF Keeps
<1> HIDE DEF n, b
<1>6. Keeps(e, Rspc(b, n))
  BY <1>4, <1>5, RspcKeeps, KeepsTrans
<1>7. BkillWord(e) = IF e.point = 0 THEN e ELSE Rspc(b, n)
  BY DEF BkillWord, S, p, n, b
<1> QED
  BY <1>6, <1>7, KeepsSelf

LEMMA CompleteKeeps ==
  ASSUME NEW e \in Editor, NEW beg \in Seq(Char), NEW s \in Seq(Char)
  PROVE  Keeps(e, Complete(e, beg, s))
<1> DEFINE k == KillToBol(e)
           i == Insert(k, beg)
<1>1. Keeps(e, k) /\ k \in Editor
  BY KillToBolKeeps DEF Keeps
<1> HIDE DEF k
<1>2. Keeps(e, i) /\ i \in Editor
  BY <1>1, InsertKeeps, KeepsTrans DEF Keeps
<1> HIDE DEF i
<1>3. Keeps(e, Insert(i, s))
  BY <1>2, InsertKeeps, KeepsTrans
<1> QED
  BY <1>3 DEF Complete, k, i

LEMMA MarkKeeps ==
  ASSUME NEW e \in Editor, NEW m \in Nat \cup {-1}
  PROVE  Keeps(e, [e EXCEPT !.mark = m])
BY DEF Keeps, Good, Editor

\* What edln_do_copy takes out.
Cut(e, del) ==
  LET beg == Min({e.mark, e.point})
      end == Max({e.mark, e.point})
  IN  IF del THEN Rspc([e EXCEPT !.point = beg], end - beg) ELSE e

LEMMA CutKeeps ==
  ASSUME NEW e \in Editor, NEW del \in BOOLEAN, e.mark >= 0
  PROVE  Keeps(e, [Cut(e, del) EXCEPT !.mark = -1])
<1> DEFINE beg == Min({e.mark, e.point})
           end == Max({e.mark, e.point})
           n   == end - beg
           b   == [e EXCEPT !.point = beg]
<1>1. e.mark \in Nat /\ e.point \in Nat /\ e.psize \in Nat /\ (Good(e) => e.point <= e.psize)
  <2>1. e.mark \in Nat \cup {-1}
    BY DEF Editor
  <2>2. e.mark \in Nat
    BY <2>1
  <2> QED
    BY <2>2, EditorNumbers
<1>2. /\ beg = IF e.mark <= e.point THEN e.mark ELSE e.point
      /\ end = IF e.mark <= e.point THEN e.point ELSE e.mark
  BY <1>1, MinMaxOfTwo
<1> HIDE DEF beg, end
<1>3. beg \in Nat /\ beg <= e.point /\ n \in Int /\ n >= 0
  BY <1>1, <1>2
<1>4. Good(e) => beg <= e.psize
  BY <1>1, <1>3
<1>5. Keeps(e, b) /\ b \in Editor
  BY <1>3, <1>4, PointKeeps DEF Keeps
<1> HIDE DEF b, n
<1>6. Keeps(e, Rspc(b, n))
  BY <1>3, <1>5, RspcKeeps, KeepsTrans
<1>7. Cut(e, del) = IF del THEN Rspc(b, n) ELSE e
  BY DEF Cut, b, n, beg, end
<1>8. Keeps(e, Cut(e, del)) /\ Cut(e, del) \in Editor
  BY <1>6, <1>7, KeepsSelf DEF Keeps
<1> DEFINE c == Cut(e, del)
<1> HIDE DEF c
<1>9. c \in Editor => Keeps(c, [c EXCEPT !.mark = -1])
  BY MarkKeeps
<1> QED
  BY <1>8, <1>9, KeepsTrans DEF c

-----------------------------------------------------------------------------
(* The ring. *)

Entry == {None} \cup Seq(Char)

\* A ring that is not full is filled from its end towards 0; hist_head is
\* behind the last entry of an empty one.
Ring(h, head, count) ==
  /\ h \in [0..(HistorySize - 1) -> Entry]
  /\ head \in 0..HistorySize /\ count \in 0..HistorySize
  /\ head = HistorySize <=> count = 0
  /\ count < HistorySize => head = HistorySize - count
  /\ \A n \in 0..(HistorySize - 1) : h[n] = None <=> count < HistorySize /\ n < head

LEMMA LinesAreEntries ==
  ASSUME NEW s \in Seq(Char)
  PROVE  s \in Entry /\ s # None /\ s \in Seq(Byte)
<1>1. s \in Seq(Byte)
  BY Constants
<1> QED
  BY <1>1, Constants DEF Entry

\* The entry before the head, which is where a push goes.
LEMMA HeadBeforeIn ==
  ASSUME NEW head \in 0..HistorySize
  PROVE  /\ HeadBefore(head) \in 0..(HistorySize - 1)
         /\ HeadBefore(head) = IF head = 0 THEN HistorySize - 1 ELSE head - 1
BY Constants DEF HeadBefore

LEMMA PushKeepsRing ==
  ASSUME NEW s \in Seq(Char), Ring(hist, hist_head, hist_count), Push(s)
  PROVE  /\ Ring(hist', hist_head', hist_count')
         /\ \A n \in 0..(HistorySize - 1) : hist[n] # None => hist'[n] # None
         /\ hist_count' = IF hist_count = HistorySize THEN HistorySize ELSE hist_count + 1
<1> DEFINE at == HeadBefore(hist_head)
<1>1. HistorySize \in Nat \ {0}
  BY Constants
<1>2. at \in 0..(HistorySize - 1) /\ at = IF hist_head = 0 THEN HistorySize - 1 ELSE hist_head - 1
  BY HeadBeforeIn DEF Ring
<1>3. hist_head' = at /\ hist' = [hist EXCEPT ![at] = s]
  BY DEF Push
<1> HIDE DEF at
<1>4. hist_count' = IF hist_count = HistorySize THEN HistorySize ELSE hist_count + 1
  <2>1. hist_count + 1 \in Int /\ HistorySize \in Int /\ hist_count \in 0..HistorySize
    BY <1>1 DEF Ring
  <2>2. Min({hist_count + 1, HistorySize}) = IF hist_count + 1 <= HistorySize THEN hist_count + 1 ELSE HistorySize
    BY <2>1, MinMaxOfTwo
  <2> QED
    BY <1>1, <2>1, <2>2 DEF Push
<1>5. s \in Entry /\ s # None
  BY LinesAreEntries
<1>6. hist' \in [0..(HistorySize - 1) -> Entry]
  BY <1>3, <1>5 DEF Ring
<1>7. \A n \in 0..(HistorySize - 1) : hist'[n] = IF n = at THEN s ELSE hist[n]
  BY <1>2, <1>3 DEF Ring
<1>8. hist_head' \in 0..HistorySize /\ hist_count' \in 0..HistorySize
      /\ hist_count' # 0 /\ hist_head' # HistorySize
      /\ (hist_count' < HistorySize => hist_head' = HistorySize - hist_count')
  BY <1>1, <1>2, <1>3, <1>4 DEF Ring
<1>9. ASSUME NEW n \in 0..(HistorySize - 1)
      PROVE  hist'[n] = None <=> hist_count' < HistorySize /\ n < hist_head'
  <2>1. hist[n] = None <=> hist_count < HistorySize /\ n < hist_head
    BY DEF Ring
  <2>2. hist'[n] = None <=> n # at /\ hist[n] = None
    BY <1>5, <1>7
  <2>3. /\ hist_head \in 0..HistorySize /\ hist_count \in 0..HistorySize
        /\ hist_count < HistorySize => hist_head = HistorySize - hist_count
    BY DEF Ring
  <2> QED
    BY <1>1, <1>2, <1>3, <1>4, <2>1, <2>2, <2>3
<1> QED
  BY <1>4, <1>5, <1>6, <1>7, <1>8, <1>9 DEF Ring

-----------------------------------------------------------------------------
(* Walking the ring. *)

\* An editor shows an entry that is there, and has its own line saved then.
OnEntry(e, h) == e.histent # -1 => h[e.histent] # None

Saves(e) == e.histent = -1 <=> e.tmp_p = None

LEMMA SetHistKeeps ==
  ASSUME NEW e \in Editor, NEW n \in 0..(HistorySize - 1), Ring(hist, hist_head, hist_count),
         hist[n] # None
  PROVE  /\ SetHist(e, n) \in Editor /\ (e.ok => Good(SetHist(e, n)))
         /\ SetHist(e, n).histent = n /\ SetHist(e, n).tmp_p = e.tmp_p
<1> DEFINE f == Fill(e, hist[n])
<1>1. hist[n] \in Seq(Char)
  BY DEF Ring, Entry
<1>2. f \in Editor /\ (e.ok => Good(f)) /\ f.tmp_p = e.tmp_p
  BY <1>1, FillKeeps
<1>3. SetHist(e, n) = [f EXCEPT !.histent = n]
  BY DEF SetHist
<1> HIDE DEF f
<1>4. n \in -1..(HistorySize - 1)
  BY Constants
<1>5. [f EXCEPT !.histent = n] \in Editor /\ [f EXCEPT !.histent = n].histent = n
      /\ [f EXCEPT !.histent = n].tmp_p = e.tmp_p
      /\ (Good(f) => Good([f EXCEPT !.histent = n]))
  BY <1>2, <1>4 DEF Editor, Good
<1> QED
  BY <1>2, <1>3, <1>5

\* edlnhist_prev finds an older entry wherever its guard lets it look.
LEMMA OlderIsThere ==
  ASSUME Ring(hist, hist_head, hist_count), NEW i \in -1..(HistorySize - 1),
         i # -1 => hist[i] # None,
         IF i = -1 THEN hist_count # 0 ELSE i # Oldest
  PROVE  LET n == IF i = -1 THEN hist_head ELSE (i + 1) % HistorySize
         IN  n \in 0..(HistorySize - 1) /\ hist[n] # None
<1> DEFINE n == IF i = -1 THEN hist_head ELSE (i + 1) % HistorySize
<1>1. HistorySize \in Nat \ {0}
  BY Constants
<1>2. /\ hist_head \in 0..HistorySize /\ hist_count \in 0..HistorySize
      /\ hist_head = HistorySize <=> hist_count = 0
      /\ hist_count < HistorySize => hist_head = HistorySize - hist_count
  BY DEF Ring
<1>3. \A k \in 0..(HistorySize - 1) : hist[k] = None <=> hist_count < HistorySize /\ k < hist_head
  BY DEF Ring
<1>4. n \in 0..(HistorySize - 1)
  BY <1>1, <1>2
<1>5. ~(hist_count < HistorySize /\ n < hist_head)
  <2>1. CASE i = -1
    BY <1>1, <1>2, <2>1
  <2>2. CASE i # -1 /\ hist_count < HistorySize
    <3>1. i \in 0..(HistorySize - 1) /\ ~(i < hist_head)
      BY <1>1, <1>3, <2>2
    <3>2. hist_head + hist_count - 1 = HistorySize - 1
      BY <1>1, <1>2, <2>2
    <3>3. (HistorySize - 1) % HistorySize = HistorySize - 1
      BY <1>1
    <3>4. i # HistorySize - 1
      BY <2>2, <3>2, <3>3 DEF Oldest
    <3>5. i + 1 \in 0..(HistorySize - 1)
      BY <1>1, <3>1, <3>4
    <3>6. (i + 1) % HistorySize = i + 1
      BY <1>1, <3>5
    <3> QED
      BY <1>2, <2>2, <3>1, <3>6
  <2> QED
    BY <2>1, <2>2
<1> QED
  BY <1>3, <1>4, <1>5

\* edlnhist_next finds a newer entry unless it shows the newest.
LEMMA NewerIsThere ==
  ASSUME Ring(hist, hist_head, hist_count), NEW i \in 0..(HistorySize - 1), hist[i] # None,
         i # hist_head
  PROVE  LET n == (i + HistorySize - 1) % HistorySize
         IN  n \in 0..(HistorySize - 1) /\ hist[n] # None
<1> DEFINE n == (i + HistorySize - 1) % HistorySize
<1>1. HistorySize \in Nat \ {0}
  BY Constants
<1>2. /\ hist_head \in 0..HistorySize /\ hist_count \in 0..HistorySize
      /\ hist_count < HistorySize => hist_head = HistorySize - hist_count
  BY DEF Ring
<1>3. \A k \in 0..(HistorySize - 1) : hist[k] = None <=> hist_count < HistorySize /\ k < hist_head
  BY DEF Ring
<1>4. n \in 0..(HistorySize - 1)
  BY <1>1
<1>5. ~(hist_count < HistorySize /\ n < hist_head)
  <2> SUFFICES ASSUME hist_count < HistorySize PROVE ~(n < hist_head)
    OBVIOUS
  <2>1. ~(i < hist_head)
    BY <1>3
  <2>2. i > hist_head /\ i >= 1
    BY <1>1, <1>2, <2>1
  <2>3. i + HistorySize - 1 = (i - 1) + HistorySize /\ i - 1 \in 0..(HistorySize - 1)
    BY <1>1, <2>2
  <2>4. ((i - 1) + HistorySize) % HistorySize = i - 1
    BY <1>1, <2>3
  <2> QED
    BY <1>1, <1>2, <2>2, <2>3, <2>4
<1> QED
  BY <1>3, <1>4, <1>5

LEMMA PrevKeeps ==
  ASSUME NEW e \in Editor, Ring(hist, hist_head, hist_count), OnEntry(e, hist), Saves(e), e.ok,
         IF e.histent = -1 THEN hist_count # 0 ELSE e.histent # Oldest
  PROVE  /\ Prev(e) \in Editor /\ Good(Prev(e)) /\ OnEntry(Prev(e), hist) /\ Saves(Prev(e))
<1> DEFINE n == IF e.histent = -1 THEN hist_head ELSE (e.histent + 1) % HistorySize
           f == SetHist(e, n)
           t == IF e.histent = -1 THEN e.p ELSE e.tmp_p
<1>1. e.histent \in -1..(HistorySize - 1)
  BY DEF Editor
<1>2. n \in 0..(HistorySize - 1) /\ hist[n] # None
  BY <1>1, OlderIsThere DEF OnEntry
<1> HIDE DEF n
<1>3. f \in Editor /\ Good(f) /\ f.histent = n /\ f.tmp_p = e.tmp_p
  BY <1>2, SetHistKeeps
<1>4. Prev(e) = [f EXCEPT !.tmp_p = IF e.histent = -1 THEN e.p ELSE @]
  BY DEF Prev, n
<1>5. t \in Seq(Byte)
  BY DEF Editor, Saves
<1>6. t # None
  BY <1>5, Constants
<1> HIDE DEF f
<1>7. Prev(e) = [f EXCEPT !.tmp_p = t]
  BY <1>3, <1>4
<1> HIDE DEF t
<1>8. /\ Prev(e) \in Editor /\ Good(Prev(e)) /\ Prev(e).histent = n /\ Prev(e).tmp_p = t
  BY <1>3, <1>5, <1>7 DEF Editor, Good
<1>9. n # -1
  BY <1>2, Constants
<1> QED
  BY <1>2, <1>6, <1>8, <1>9 DEF OnEntry, Saves

LEMMA RestoreKeeps ==
  ASSUME NEW e \in Editor, Saves(e), e.histent # -1, e.ok
  PROVE  Restore(e) \in Editor /\ Restore(e).ok /\ OnEntry(Restore(e), hist) /\ Saves(Restore(e))
<1> DEFINE n == Strlen(e.tmp_p)
<1>1. e.tmp_p \in Seq(Byte)
  BY DEF Editor, Saves
<1>2. n \in Nat
  BY <1>1, StrlenType
<1>3. -1 \in -1..(HistorySize - 1)
  BY Constants
<1>4. Restore(e) = [e EXCEPT !.p = e.tmp_p, !.tmp_p = None, !.histent = -1, !.point = n, !.mark = -1]
  BY DEF Restore
<1> HIDE DEF n
<1>5. Restore(e) \in Editor /\ Restore(e).ok /\ Restore(e).histent = -1 /\ Restore(e).tmp_p = None
  BY <1>1, <1>2, <1>3, <1>4 DEF Editor
<1> QED
  BY <1>5 DEF OnEntry, Saves

-----------------------------------------------------------------------------
(* The invariant. *)

Browsable(e, h) == e \in Editor /\ e.ok /\ Saves(e) /\ OnEntry(e, h)

EdInv ==
  /\ Ring(hist, hist_head, hist_count)
  /\ ed = NoEditor \/ Browsable(ed, hist)
  /\ selection \in {"none", "line", "outside"} /\ crashed \in BOOLEAN

\* What an edit leaves: the new editor, or the old one and the end of the
\* program; a good new one stays good when the bytes behind it are forgotten.
LEMMA EditLeaves ==
  ASSUME NEW new \in Editor, Edit(new)
  PROVE  /\ new.ok => ed' \in Editor /\ ed'.ok /\ ed'.histent = new.histent /\ ed'.tmp_p = new.tmp_p
         /\ ~new.ok => ed' = ed
         /\ crashed' \in BOOLEAN
         /\ Good(new) => Good(ed') /\ ~crashed'
<1> DEFINE q == Forget(new.p)
           u == IF Sound(ed) THEN 0 ELSE new.unsound + 1
           r == [new EXCEPT !.p = q, !.unsound = u]
<1>1. new.p \in Seq(Byte) /\ new.unsound \in Nat /\ new.ok \in BOOLEAN
  BY DEF Editor
<1>2. q \in Seq(Byte) /\ Len(q) = Len(new.p) /\ \A n : EndsAt(new.p, n) => EndsAt(q, n)
  BY <1>1, ForgetType
<1>3. u \in Nat
  BY <1>1
<1>4. ed' = IF new.ok THEN r ELSE ed
  BY DEF Edit
<1>5. crashed' = ~new.ok
  BY DEF Edit
<1> HIDE DEF q, u
<1>6. /\ r \in Editor /\ r.ok = new.ok /\ r.histent = new.histent /\ r.tmp_p = new.tmp_p
      /\ r.p = q /\ r.palloced = new.palloced /\ r.psize = new.psize /\ r.point = new.point
  BY <1>2, <1>3 DEF Editor
<1> HIDE DEF r
<1>7. Good(new) => Good(r)
  BY <1>2, <1>6 DEF Good
<1>8. Good(new) => new.ok
  BY DEF Good
<1> QED
  BY <1>1, <1>4, <1>5, <1>6, <1>7, <1>8

\* An edit that may not know the sizes, and what it does when it does.
LEMMA EditStep ==
  ASSUME NEW new \in Editor, Edit(new), EdInv, Same \/ UNCHANGED <<hist, hist_head, hist_count>>,
         selection' \in {"none", "line", "outside"},
         Saves(new), OnEntry(new, hist)
  PROVE  EdInv' /\ (Good(new) => Sound(ed') /\ ~crashed')
<1>1. hist' = hist /\ hist_head' = hist_head /\ hist_count' = hist_count
  BY DEF Same
<1>2. Ring(hist', hist_head', hist_count')
  BY <1>1 DEF EdInv
<1>3. /\ new.ok => ed' \in Editor /\ ed'.ok /\ ed'.histent = new.histent /\ ed'.tmp_p = new.tmp_p
      /\ ~new.ok => ed' = ed
      /\ crashed' \in BOOLEAN
      /\ Good(new) => Good(ed') /\ ~crashed'
  BY EditLeaves
<1>4. new.ok \in BOOLEAN
  BY DEF Editor
<1>5. CASE new.ok
  <2>1. Browsable(ed', hist')
    BY <1>1, <1>3, <1>5 DEF Browsable, Saves, OnEntry
  <2>2. Good(new) => Sound(ed')
    BY <1>3, <1>5, GoodIsSound
  <2> QED
    BY <1>2, <1>3, <2>1, <2>2 DEF EdInv
<1>6. CASE ~new.ok
  <2>1. ed' = NoEditor \/ Browsable(ed', hist')
    BY <1>1, <1>3, <1>6 DEF EdInv
  <2>2. ~Good(new)
    BY <1>6 DEF Good
  <2> QED
    BY <1>2, <1>3, <2>1, <2>2 DEF EdInv
<1> QED
  BY <1>4, <1>5, <1>6

\* An operation on the line of an open editor.
LEMMA KeepingStep ==
  ASSUME NEW new, Keeps(ed, new), Edit(new), EdInv, ed.open,
         Same \/ UNCHANGED <<hist, hist_head, hist_count>>, selection' \in {"none", "line", "outside"}
  PROVE  EdInv' /\ (Sound(ed) => Sound(ed') /\ ~crashed')
<1>1. Browsable(ed, hist)
  BY DEF EdInv, NoEditor
<1>2. new \in Editor /\ Saves(new) /\ OnEntry(new, hist) /\ (Good(ed) => Good(new))
  BY <1>1 DEF Keeps, Browsable, Saves, OnEntry
<1>3. Good(ed) <=> Sound(ed) /\ ed.ok
  BY <1>1, GoodIsSound DEF Browsable
<1> QED
  BY <1>1, <1>2, <1>3, EditStep DEF Browsable

LEMMA OpenEditor ==
  ASSUME EdInv, Opened
  PROVE  ed \in Editor /\ ed.ok /\ Saves(ed) /\ OnEntry(ed, hist) /\ ed.open
BY DEF EdInv, Opened, NoEditor, Browsable

LEMMA Initially == Init => EdInv
<1> SUFFICES ASSUME Init PROVE EdInv
  OBVIOUS
<1>1. HistorySize \in Nat \ {0}
  BY Constants
<1>2. hist \in [0..(HistorySize - 1) -> Entry] /\ \A n \in 0..(HistorySize - 1) : hist[n] = None
  BY DEF Init, Entry
<1>3. hist_head = HistorySize /\ hist_count = 0
  BY DEF Init
<1>4. Ring(hist, hist_head, hist_count)
  BY <1>1, <1>2, <1>3 DEF Ring
<1> QED
  BY <1>4 DEF Init, EdInv

-----------------------------------------------------------------------------
(* The steps. *)

\* What a step promises: the invariant, and an intact line unless the saved
\* one comes back.
StepGood ==
  /\ EdInv'
  /\ Sound(ed) => \/ Sound(ed') /\ ~crashed'
                  \/ HistoryNext /\ ed.histent = hist_head

LEMMA SelectionSame == EdInv /\ Same => selection' \in {"none", "line", "outside"}
BY DEF EdInv, Same

LEMMA OpenStep ==
  ASSUME EdInv, NEW s \in Strings, Open(s)
  PROVE  StepGood
<1> DEFINE new == New(s)
<1>1. s \in Seq(Char)
  BY Constants
<1>2. new \in Editor /\ Good(new) /\ new.histent = -1 /\ new.tmp_p = None
  BY <1>1, NewIsGood
<1>3. Edit(new) /\ Same
  BY DEF Open
<1> HIDE DEF new
<1>4. Saves(new) /\ OnEntry(new, hist)
  BY <1>2 DEF Saves, OnEntry
<1> QED
  BY <1>2, <1>3, <1>4, EditStep, SelectionSame DEF StepGood

LEMMA InsertStep ==
  ASSUME EdInv, NEW s \in Strings, InsertString(s)
  PROVE  StepGood
<1> DEFINE new == Insert(ed, s)
<1>1. s \in Seq(Char)
  BY Constants
<1>2. ed \in Editor /\ ed.open
  BY OpenEditor DEF InsertString
<1>3. Keeps(ed, new)
  BY <1>1, <1>2, InsertKeeps
<1>4. Edit(new) /\ Same
  BY DEF InsertString
<1> HIDE DEF new
<1> QED
  BY <1>2, <1>3, <1>4, KeepingStep, SelectionSame DEF StepGood

LEMMA CompleteStep ==
  ASSUME EdInv, NEW beg \in Strings, NEW s \in Strings, CompleteLine(beg, s)
  PROVE  StepGood
<1> DEFINE new == Complete(ed, beg, s)
<1>1. beg \in Seq(Char) /\ s \in Seq(Char)
  BY Constants
<1>2. ed \in Editor /\ ed.open
  BY OpenEditor DEF CompleteLine
<1>3. Keeps(ed, new)
  BY <1>1, <1>2, CompleteKeeps
<1>4. Edit(new) /\ Same
  BY DEF CompleteLine
<1> HIDE DEF new
<1> QED
  BY <1>2, <1>3, <1>4, KeepingStep, SelectionSame DEF StepGood

LEMMA MoveStep ==
  ASSUME EdInv, Move
  PROVE  StepGood
<1>1. ed \in Editor /\ ed.open
  BY OpenEditor DEF Move
<1>2. PICK new \in {Back(ed), Forward(ed), Bol(ed), Eol(ed), BskipWord(ed), SkipWord(ed)} : Edit(new)
  BY DEF Move
<1>3. Keeps(ed, new)
  BY <1>1, <1>2, BackKeeps, ForwardKeeps, EndsKeep, BskipWordKeeps, SkipWordKeeps
<1>4. Same
  BY DEF Move
<1> QED
  BY <1>1, <1>2, <1>3, <1>4, KeepingStep, SelectionSame DEF StepGood

LEMMA EraseStep ==
  ASSUME EdInv, Erase
  PROVE  StepGood
<1>1. ed \in Editor /\ ed.open
  BY OpenEditor DEF Erase
<1>2. PICK new \in {Delete(ed), Backspace(ed), KillToEol(ed), KillToBol(ed),
                    KillWord(ed), BkillWord(ed)} : Edit(new)
  BY DEF Erase
<1>3. Keeps(ed, new)
  BY <1>1, <1>2, DeleteKeeps, BackspaceKeeps, KillToEolKeeps, KillToBolKeeps, KillWordKeeps,
     BkillWordKeeps
<1>4. Same
  BY DEF Erase
<1> QED
  BY <1>1, <1>2, <1>3, <1>4, KeepingStep, SelectionSame DEF StepGood

LEMMA EraseLineStep ==
  ASSUME EdInv, EraseLine
  PROVE  StepGood
<1> DEFINE new == KillLine(ed)
<1>1. ed \in Editor /\ ed.open
  BY OpenEditor DEF EraseLine
<1>2. Keeps(ed, new)
  BY <1>1, KillLineKeeps
<1>3. Edit(new) /\ Same
  BY DEF EraseLine
<1> HIDE DEF new
<1> QED
  BY <1>1, <1>2, <1>3, KeepingStep, SelectionSame DEF StepGood

LEMMA SetMarkStep ==
  ASSUME EdInv, SetMark
  PROVE  StepGood
<1> DEFINE new == [ed EXCEPT !.mark = ed.point]
<1>1. ed \in Editor /\ ed.open
  BY OpenEditor DEF SetMark
<1>2. ed.point \in Nat \cup {-1}
  BY <1>1, EditorNumbers
<1>3. Keeps(ed, new)
  BY <1>1, <1>2, MarkKeeps
<1>4. Edit(new) /\ Same
  BY DEF SetMark
<1> HIDE DEF new
<1> QED
  BY <1>1, <1>3, <1>4, KeepingStep, SelectionSame DEF StepGood

LEMMA CopyOrCutStep ==
  ASSUME EdInv, NEW del \in BOOLEAN, CopyOrCut(del)
  PROVE  StepGood
<1> DEFINE new == [Cut(ed, del) EXCEPT !.mark = -1]
<1>1. ed \in Editor /\ ed.open
  BY OpenEditor DEF CopyOrCut
<1>2. ed.mark >= 0 /\ UNCHANGED <<hist, hist_head, hist_count>>
      /\ selection' \in {"none", "line", "outside"}
  BY DEF CopyOrCut
<1>3. Keeps(ed, new)
  BY <1>1, <1>2, CutKeeps
<1>4. Edit(new)
  BY DEF CopyOrCut, Cut
<1> HIDE DEF new
<1> QED
  BY <1>1, <1>2, <1>3, <1>4, KeepingStep DEF StepGood

LEMMA HistoryPrevStep ==
  ASSUME EdInv, HistoryPrev
  PROVE  StepGood
<1> DEFINE new == Prev(ed)
<1>1. ed \in Editor /\ ed.ok /\ Saves(ed) /\ OnEntry(ed, hist)
  BY OpenEditor DEF HistoryPrev
<1>2. IF ed.histent = -1 THEN hist_count # 0 ELSE ed.histent # Oldest
  BY DEF HistoryPrev
<1>3. new \in Editor /\ Good(new) /\ OnEntry(new, hist) /\ Saves(new)
  BY <1>1, <1>2, PrevKeeps DEF EdInv
<1>4. Edit(new) /\ Same
  BY DEF HistoryPrev
<1> HIDE DEF new
<1> QED
  BY <1>3, <1>4, EditStep, SelectionSame DEF StepGood

LEMMA HistoryNextStep ==
  ASSUME EdInv, HistoryNext
  PROVE  StepGood
<1>1. ed \in Editor /\ ed.ok /\ Saves(ed) /\ OnEntry(ed, hist) /\ ed.histent # -1 /\ Same
  BY OpenEditor DEF HistoryNext
<1>2. CASE ed.histent = hist_head
  <2> DEFINE new == Restore(ed)
  <2>1. new \in Editor /\ OnEntry(new, hist) /\ Saves(new)
    BY <1>1, RestoreKeeps
  <2>2. Edit(new)
    BY <1>2 DEF HistoryNext
  <2> HIDE DEF new
  <2> QED
    BY <1>1, <1>2, <2>1, <2>2, EditStep, SelectionSame DEF StepGood
<1>3. CASE ed.histent # hist_head
  <2> DEFINE n   == (ed.histent + HistorySize - 1) % HistorySize
             new == SetHist(ed, n)
  <2>1. ed.histent \in 0..(HistorySize - 1)
    <3>1. ed.histent \in -1..(HistorySize - 1)
      BY <1>1 DEF Editor
    <3> QED
      BY <1>1, <3>1, Constants
  <2>2. n \in 0..(HistorySize - 1) /\ hist[n] # None
    BY <1>1, <1>3, <2>1, NewerIsThere DEF EdInv, OnEntry
  <2>3. Edit(new)
    BY <1>3 DEF HistoryNext
  <2> HIDE DEF n
  <2>4. new \in Editor /\ Good(new) /\ new.histent = n /\ new.tmp_p = ed.tmp_p
    BY <1>1, <2>2, SetHistKeeps DEF EdInv
  <2>5. n # -1
    BY <2>2, Constants
  <2> HIDE DEF new
  <2>6. Saves(new) /\ OnEntry(new, hist)
    BY <1>1, <2>2, <2>4, <2>5 DEF Saves, OnEntry
  <2> QED
    BY <1>1, <2>3, <2>4, <2>6, EditStep, SelectionSame DEF StepGood
<1> QED
  BY <1>2, <1>3

LEMMA NoEditorSound == Sound(NoEditor)
BY DEF Sound, NoEditor

LEMMA FinishStep ==
  ASSUME EdInv, Finish
  PROVE  StepGood
<1>1. Line(ed.p) \in Seq(Char) /\ Push(Line(ed.p)) /\ ed' = NoEditor
      /\ UNCHANGED <<selection, crashed>> /\ ~crashed
  BY DEF Finish, Opened
<1>2. Ring(hist', hist_head', hist_count')
  BY <1>1, PushKeepsRing DEF EdInv
<1> QED
  BY <1>1, <1>2, NoEditorSound DEF EdInv, StepGood

LEMMA CancelStep ==
  ASSUME EdInv, Cancel
  PROVE  StepGood
BY NoEditorSound DEF Cancel, Same, Opened, EdInv, StepGood

LEMMA OtherFinishesStep ==
  ASSUME EdInv, NEW s \in Strings, OtherFinishes(s)
  PROVE  StepGood
<1>1. s \in Seq(Char) /\ Push(s) /\ UNCHANGED <<ed, selection, crashed>> /\ ~crashed
  BY Constants DEF OtherFinishes
<1>2. /\ Ring(hist', hist_head', hist_count')
      /\ \A n \in 0..(HistorySize - 1) : hist[n] # None => hist'[n] # None
  BY <1>1, PushKeepsRing DEF EdInv
<1>3. ed' = NoEditor \/ Browsable(ed', hist')
  <2>1. CASE ed = NoEditor
    BY <1>1, <2>1
  <2>2. CASE Browsable(ed, hist)
    <3>1. ed.histent \in -1..(HistorySize - 1)
      BY <2>2 DEF Browsable, Editor
    <3>2. ed.histent # -1 => ed.histent \in 0..(HistorySize - 1)
      BY <3>1, Constants
    <3>3. OnEntry(ed, hist')
      BY <1>2, <2>2, <3>2 DEF Browsable, OnEntry
    <3> QED
      BY <1>1, <2>2, <3>3 DEF Browsable
  <2> QED
    BY <2>1, <2>2 DEF EdInv
<1> QED
  BY <1>1, <1>2, <1>3 DEF EdInv, StepGood

LEMMA ClearSelectionStep ==
  ASSUME EdInv, ClearSelection
  PROVE  StepGood
BY DEF ClearSelection, EdInv, StepGood

LEMMA EachStep ==
  ASSUME EdInv, Next
  PROVE  StepGood
<1>1. CASE \E s \in Strings : Open(s) \/ InsertString(s) \/ OtherFinishes(s)
  BY <1>1, OpenStep, InsertStep, OtherFinishesStep
<1>2. CASE \E beg, s \in Strings : CompleteLine(beg, s)
  BY <1>2, CompleteStep
<1>3. CASE Move \/ Erase \/ EraseLine
  BY <1>3, MoveStep, EraseStep, EraseLineStep
<1>4. CASE SetMark \/ \E del \in BOOLEAN : CopyOrCut(del)
  BY <1>4, SetMarkStep, CopyOrCutStep
<1>5. CASE HistoryPrev \/ HistoryNext
  BY <1>5, HistoryPrevStep, HistoryNextStep
<1>6. CASE Finish \/ Cancel \/ ClearSelection
  BY <1>6, FinishStep, CancelStep, ClearSelectionStep
<1> QED
  BY <1>1, <1>2, <1>3, <1>4, <1>5, <1>6 DEF Next

LEMMA Inductive == Spec => []EdInv
<1>1. EdInv /\ [Next]_vars => EdInv'
  <2>1. ASSUME EdInv, UNCHANGED vars PROVE EdInv'
    BY <2>1 DEF vars, EdInv
  <2> QED
    BY <2>1, EachStep DEF StepGood
<1> QED
  BY <1>1, Initially, PTL DEF Spec

\* The line being edited is saved exactly while edlnhist_prev and edlnhist_next
\* show the history, and the fields of an open editor are in their ranges, for
\* every size of lines and history.
THEOREM SavedLineIsKept == Spec => []SavedLineWhileBrowsing
<1>1. EdInv => SavedLineWhileBrowsing
  <2>1. ASSUME EdInv PROVE SavedLineWhileBrowsing
    <3>1. Ring(hist, hist_head, hist_count) /\ selection \in {"none", "line", "outside"} /\ crashed \in BOOLEAN
      BY <2>1 DEF EdInv
    <3>2. ed.open => ed \in Editor /\ ed.ok /\ Saves(ed)
      BY <2>1 DEF EdInv, NoEditor, Browsable
    <3>3. TypeOK
      BY <3>1, <3>2 DEF TypeOK, Ring, Entry, Editor
    <3> QED
      BY <3>2, <3>3 DEF SavedLineWhileBrowsing, Saves
  <2> QED
    BY <2>1
<1> QED
  BY <1>1, Inductive, PTL

\* No edit, movement, completion or step through the history writes outside the
\* editor's block or leaves psize and palloced wrong, and no query walks to an
\* entry that is not there, for every block, line and history size: only the
\* step of edlnhist_next back to the saved line may.
THEOREM EditsAreSound == Spec => EditsKeepLineSound
<1>1. EdInv /\ [Next]_vars =>
        [Sound(ed) => \/ Sound(ed') /\ ~crashed'
                      \/ HistoryNext /\ ed.histent = hist_head]_vars
  <2>1. ASSUME EdInv, Next
        PROVE  Sound(ed) => \/ Sound(ed') /\ ~crashed'
                            \/ HistoryNext /\ ed.histent = hist_head
    BY <2>1, EachStep DEF StepGood
  <2> QED
    BY <2>1
<1> QED
  BY <1>1, Inductive, PTL DEF Spec, EditsKeepLineSound

-----------------------------------------------------------------------------
(* The ring as a list. *)

LEMMA Around ==
  ASSUME NEW m \in Nat \ {0}, NEW x \in 0..(m - 1), NEW d \in 1..(m - 1)
  PROVE  (x + d) % m \in 0..(m - 1) /\ (x + d) % m # x
<1>1. CASE x + d < m
  <2>1. (x + d) % m = x + d
    BY <1>1
  <2> QED
    BY <1>1, <2>1
<1>2. CASE ~(x + d < m)
  <2>1. (x + d) % m = x + d - m
    BY <1>2
  <2> QED
    BY <1>2, <2>1
<1> QED
  BY <1>1, <1>2

\* A push moves every entry one place on in the list, with the index and the
\* head modulo the size of the ring.
LEMMA PushShifts ==
  ASSUME NEW s \in Seq(Char), Ring(hist, hist_head, hist_count), Push(s)
  PROVE  /\ hist'[hist_head' % HistorySize] = s
         /\ \A k \in 2..hist_count' :
              hist'[(hist_head' + k - 1) % HistorySize] = hist[(hist_head + (k - 1) - 1) % HistorySize]
<1> DEFINE at == HeadBefore(hist_head)
<1>1. HistorySize \in Nat \ {0}
  BY Constants
<1>2. at \in 0..(HistorySize - 1) /\ at = IF hist_head = 0 THEN HistorySize - 1 ELSE hist_head - 1
  BY HeadBeforeIn DEF Ring
<1>3. hist_head' = at /\ hist' = [hist EXCEPT ![at] = s]
  BY DEF Push
<1> HIDE DEF at
<1>4. \A n \in 0..(HistorySize - 1) : hist'[n] = IF n = at THEN s ELSE hist[n]
  BY <1>2, <1>3 DEF Ring
<1>5. at % HistorySize = at
  BY <1>1, <1>2
<1>6. hist_head \in 0..HistorySize /\ hist_count' \in 0..HistorySize
  BY PushKeepsRing DEF Ring
<1>7. ASSUME NEW k \in 2..hist_count'
      PROVE  hist'[(hist_head' + k - 1) % HistorySize] = hist[(hist_head + (k - 1) - 1) % HistorySize]
  <2> DEFINE i == (at + (k - 1)) % HistorySize
             j == (hist_head + (k - 1) - 1) % HistorySize
  <2>1. k - 1 \in 1..(HistorySize - 1)
    BY <1>1, <1>6
  <2>2. i \in 0..(HistorySize - 1) /\ i # at
    <3> DEFINE d == k - 1
    <3>1. d \in 1..(HistorySize - 1)
      BY <2>1
    <3> HIDE DEF d
    <3>2. (at + d) % HistorySize \in 0..(HistorySize - 1) /\ (at + d) % HistorySize # at
      BY <1>1, <1>2, <3>1, Around
    <3> QED
      BY <3>2 DEF d
  <2>3. i = j
    <3>1. CASE hist_head = 0
      <4>1. at + (k - 1) = (k - 2) + HistorySize /\ k - 2 \in 0..(HistorySize - 1)
            /\ hist_head + (k - 1) - 1 = k - 2
        BY <1>1, <1>2, <2>1, <3>1
      <4>2. ((k - 2) + HistorySize) % HistorySize = k - 2 /\ (k - 2) % HistorySize = k - 2
        BY <1>1, <4>1
      <4> QED
        BY <4>1, <4>2
    <3>2. CASE hist_head # 0
      <4>1. at + (k - 1) = hist_head + (k - 1) - 1
        BY <1>1, <1>2, <1>6, <2>1, <3>2
      <4> QED
        BY <4>1
    <3> QED
      BY <3>1, <3>2
  <2>4. hist_head' + k - 1 = at + (k - 1)
    BY <1>1, <1>2, <1>3, <2>1
  <2> HIDE DEF i, j
  <2>5. hist'[i] = hist[j]
    BY <1>4, <2>2, <2>3
  <2> QED
    BY <2>4, <2>5 DEF i, j
<1> QED
  BY <1>2, <1>3, <1>4, <1>5, <1>7

LEMMA HistoryIsSeq ==
  ASSUME Ring(hist, hist_head, hist_count)
  PROVE  History \in Seq(Entry) /\ Len(History) = hist_count
         /\ \A k \in 1..hist_count : History[k] = hist[(hist_head + k - 1) % HistorySize]
<1>1. HistorySize \in Nat \ {0} /\ hist_head \in Nat /\ hist_count \in Nat
  BY Constants DEF Ring
<1>2. \A k \in 1..hist_count : (hist_head + k - 1) % HistorySize \in 0..(HistorySize - 1)
  BY <1>1
<1>3. History \in [1..hist_count -> Entry]
  BY <1>2 DEF History, Ring
<1>4. \A k \in 1..hist_count : History[k] = hist[(hist_head + k - 1) % HistorySize]
  BY DEF History
<1> DEFINE H == History
<1> HIDE DEF H
<1>5. H \in [1..hist_count -> Entry] => H \in Seq(Entry) /\ Len(H) = hist_count
  BY <1>1
<1> QED
  BY <1>3, <1>4, <1>5 DEF H

LEMMA PushPutsFirst ==
  ASSUME NEW s \in Seq(Char), Ring(hist, hist_head, hist_count), Push(s)
  PROVE  History' = SubSeq(<<s>> \o History, 1, Min({Len(History) + 1, HistorySize}))
<1> DEFINE H == History
           L == <<s>> \o H
           m == Min({Len(H) + 1, HistorySize})
<1>1. HistorySize \in Nat \ {0} /\ hist_count \in 0..HistorySize
  BY Constants DEF Ring
<1>2. H \in Seq(Entry) /\ Len(H) = hist_count
      /\ \A k \in 1..hist_count : H[k] = hist[(hist_head + k - 1) % HistorySize]
  BY HistoryIsSeq
<1>3. Ring(hist', hist_head', hist_count')
      /\ hist_count' = IF hist_count = HistorySize THEN HistorySize ELSE hist_count + 1
  BY PushKeepsRing
<1>4. m = hist_count'
  BY <1>2 DEF Push
<1>5. hist_count' \in 1..(hist_count + 1) /\ hist_count \in Nat
  BY <1>1, <1>3
<1> HIDE DEF H, m
<1>6. L \in Seq(Entry) /\ Len(L) = hist_count + 1 /\ L[1] = s
      /\ \A k \in 2..(hist_count + 1) : L[k] = H[k - 1]
  <2>1. s \in Entry
    BY LinesAreEntries
  <2> QED
    BY <1>2, <1>5, <2>1
<1> HIDE DEF L
<1>7. SubSeq(L, 1, hist_count') = [k \in 1..hist_count' |-> L[k]]
  BY <1>5, <1>6
<1>8. History' = [k \in 1..hist_count' |-> hist'[(hist_head' + k - 1) % HistorySize]]
  BY DEF History
<1>9. ASSUME NEW k \in 1..hist_count' PROVE hist'[(hist_head' + k - 1) % HistorySize] = L[k]
  <2>1. CASE k = 1
    <3>1. hist_head' + k - 1 = hist_head'
      <4>1. hist_head' \in 0..HistorySize
        BY <1>3 DEF Ring
      <4>2. \A x \in 0..HistorySize : x + 1 - 1 = x
        BY <1>1
      <4> QED
        BY <2>1, <4>1, <4>2
    <3> QED
      BY <1>6, <2>1, <3>1, PushShifts
  <2>2. CASE k # 1
    <3>1. k \in 2..hist_count' /\ k \in 2..(hist_count + 1) /\ k - 1 \in 1..hist_count
      BY <1>5, <2>2
    <3>2. hist'[(hist_head' + k - 1) % HistorySize] = hist[(hist_head + (k - 1) - 1) % HistorySize]
      BY <3>1, PushShifts
    <3> QED
      BY <1>2, <1>6, <3>1, <3>2
  <2> QED
    BY <2>1, <2>2
<1> QED
  BY <1>4, <1>7, <1>8, <1>9 DEF L, H, m

\* A push puts a line first and forgets at most the oldest, wherever in the
\* ring the head is and whatever its size: edlnhist_push wraps around rightly.
THEOREM PushesPutFirst == Spec => HistoryIsNewestFirst
<1> DEFINE Lines == Strings \cup {IF ed.open THEN Line(ed.p) ELSE <<>>}
<1>1. ASSUME EdInv, Next
      PROVE  \/ UNCHANGED History
             \/ \E s \in Lines : History' = SubSeq(<<s>> \o History, 1, Min({Len(History) + 1, HistorySize}))
  <2> USE <1>1
  <2>0. UNCHANGED <<hist, hist_head, hist_count>> => UNCHANGED History
    BY DEF History
  <2>1. ASSUME NEW s \in Seq(Char), s \in Lines, Push(s)
        PROVE  \E t \in Lines : History' = SubSeq(<<t>> \o History, 1, Min({Len(History) + 1, HistorySize}))
    <3>1. Ring(hist, hist_head, hist_count)
      BY DEF EdInv
    <3>2. History' = SubSeq(<<s>> \o History, 1, Min({Len(History) + 1, HistorySize}))
      BY <2>1, <3>1, PushPutsFirst
    <3> QED
      BY <2>1, <3>2
  <2>2. CASE Finish
    <3>1. Line(ed.p) \in Seq(Char) /\ Push(Line(ed.p)) /\ ed.open
      BY <2>2 DEF Finish, Opened
    <3> QED
      BY <2>1, <3>1
  <2>3. CASE \E s \in Strings : OtherFinishes(s)
    <3>1. PICK s \in Strings : Push(s)
      BY <2>3 DEF OtherFinishes
    <3> QED
      BY <2>1, <3>1, Constants
  <2>4. ASSUME ~Finish, \A s \in Strings : ~OtherFinishes(s)
        PROVE  UNCHANGED <<hist, hist_head, hist_count>>
    BY <1>1, <2>4 DEF Next, Open, InsertString, CompleteLine, Move, Erase, EraseLine, SetMark, CopyOrCut,
       HistoryPrev, HistoryNext, Cancel, ClearSelection, Same
  <2> QED
    BY <2>0, <2>2, <2>3, <2>4
<1>2. EdInv /\ [Next]_vars =>
        [\/ UNCHANGED History
         \/ \E s \in Strings \cup {IF ed.open THEN Line(ed.p) ELSE <<>>} :
              History' = SubSeq(<<s>> \o History, 1, Min({Len(History) + 1, HistorySize}))]_vars
  BY <1>1
<1> QED
  BY <1>2, Inductive, PTL DEF Spec, HistoryIsNewestFirst

==============================================================================
