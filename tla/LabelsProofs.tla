---------------------------- MODULE LabelsProofs ---------------------------
(***************************************************************************)
(* Theorems about the labels of clients (Labels), for any clients, titles  *)
(* and number of windows.                                                  *)
(***************************************************************************)
EXTENDS Labels, FiniteSetTheorems, WellFoundedInduction, TLAPS

-----------------------------------------------------------------------------
(* Rings in order. *)

\* Each client is in one class, its own and that of all the others in it.
Classes(R) ==
  /\ R \in [Client -> SUBSET Client]
  /\ \A c \in Client : c \in R[c] /\ \A d \in R[c] : R[d] = R[c]

\* n comes after c in K: it has the next number, or c has the last one and n the first one.
Follows(inst, K, c, n) ==
  \/ inst[c] < inst[n] /\ \A d \in K : inst[d] <= inst[c] \/ inst[n] <= inst[d]
  \/ \A d \in K : inst[n] <= inst[d] /\ inst[d] <= inst[c]

\* The rings go through the classes in the order of the numbers.
InOrder(next, prev, inst, R) ==
  /\ next \in [Client -> Client] /\ prev \in [Client -> Client] /\ inst \in [Client -> Nat]
  /\ \A c \in Client :
       /\ next[c] \in R[c] /\ prev[next[c]] = c /\ next[prev[c]] = c
       /\ \A d \in R[c] : inst[d] = inst[c] => d = c
       /\ Follows(inst, R[c], c, next[c])

\* Who comes before the one that is left out comes before the one after it.
LEMMA FollowsOver ==
  ASSUME NEW inst \in [Client -> Nat], NEW K \in SUBSET Client,
         NEW d \in K, NEW c \in K, NEW n \in K, d # c,
         \A e \in K : inst[e] = inst[c] => e = c,
         Follows(inst, K, d, c), Follows(inst, K, c, n)
  PROVE  Follows(inst, K \ {c}, d, n)
<1>1. \A e \in K : inst[e] \in Nat
  OBVIOUS
<1>2. inst[d] # inst[c]
  OBVIOUS
<1>3. CASE inst[d] < inst[c] /\ inst[c] < inst[n]
  <2>1. \A e \in K : (inst[e] <= inst[d] \/ inst[c] <= inst[e]) /\ (inst[e] <= inst[c] \/ inst[n] <= inst[e])
    BY <1>1, <1>3 DEF Follows
  <2>2. \A e \in K \ {c} : inst[e] <= inst[d] \/ inst[n] <= inst[e]
    BY <1>1, <2>1
  <2> QED
    BY <1>1, <1>3, <2>2 DEF Follows
<1>4. CASE inst[d] < inst[c] /\ ~(inst[c] < inst[n])
  <2>1. \A e \in K : (inst[e] <= inst[d] \/ inst[c] <= inst[e]) /\ inst[n] <= inst[e] /\ inst[e] <= inst[c]
    BY <1>1, <1>4 DEF Follows
  <2>2. \A e \in K \ {c} : inst[n] <= inst[e] /\ inst[e] <= inst[d]
    BY <1>1, <2>1
  <2> QED
    BY <2>2 DEF Follows
<1>5. CASE ~(inst[d] < inst[c])
  <2>1. \A e \in K : inst[c] <= inst[e] /\ inst[e] <= inst[d]
    BY <1>1, <1>5 DEF Follows
  <2>2. inst[c] < inst[n] /\ \A e \in K : inst[e] <= inst[c] \/ inst[n] <= inst[e]
    <3>1. ~(inst[d] <= inst[c])
      BY <1>1, <1>2, <1>5
    <3> QED
      BY <1>1, <3>1 DEF Follows
  <2>3. \A e \in K \ {c} : inst[n] <= inst[e] /\ inst[e] <= inst[d]
    BY <1>1, <2>1, <2>2
  <2> QED
    BY <2>3 DEF Follows
<1> QED
  BY <1>3, <1>4, <1>5

\* Where a client can be linked: after p with the number that follows, if that is free, or
\* with 0 where the ring begins.
Gap(next, inst, p, m) ==
  \/ m = inst[p] + 1 /\ inst[next[p]] # m
  \/ m = 0 /\ inst[p] >= inst[next[p]] /\ inst[next[p]] # 0

\* c has the number m, and is to be linked after p in the ring of K, which becomes L.
Entering(next, inst, is, K, L, p, c, m) ==
  /\ inst \in [Client -> Nat] /\ next \in [Client -> Client] /\ is \in [Client -> Nat]
  /\ K \in SUBSET Client /\ p \in K /\ next[p] \in K /\ Follows(inst, K, p, next[p])
  /\ \A e \in K : inst[e] = inst[p] => e = p
  /\ m \in Nat /\ Gap(next, inst, p, m)
  /\ c \in Client /\ c \notin K /\ L = K \cup {c}
  /\ is[c] = m /\ \A e \in K : is[e] = inst[e]

\* What comes after what when c, with the number m, is linked between p and n.
LEMMA FollowsBetween ==
  ASSUME NEW next, NEW inst, NEW is, NEW K, NEW L, NEW p, NEW c, NEW m,
         Entering(next, inst, is, K, L, p, c, m)
  PROVE  /\ \A e \in K : is[e] # m
         /\ Follows(is, L, p, c) /\ Follows(is, L, c, next[p])
         /\ \A d, n \in K : d # p /\ Follows(inst, K, d, n) => Follows(is, L, d, n)
<1> DEFINE n == next[p]
<1>1. /\ \A e \in K : is[e] \in Nat /\ is[e] = inst[e]
      /\ is[c] = m /\ n \in K /\ p \in K /\ \A e \in K : is[e] = is[p] => e = p
      /\ m \in Nat /\ c \notin K /\ \A e \in L : e \in K \/ e = c
  BY DEF Entering
<1>2. \/ is[p] < is[n] /\ \A e \in K : is[e] <= is[p] \/ is[n] <= is[e]
      \/ \A e \in K : is[n] <= is[e] /\ is[e] <= is[p]
  BY <1>1 DEF Follows, Entering
<1>3. \/ m = is[p] + 1 /\ is[n] # m
      \/ m = 0 /\ is[p] >= is[n] /\ is[n] # 0
  BY <1>1 DEF Gap, Entering
<1>4. \A d, e \in K : Follows(inst, K, d, e) =>
        \/ is[d] < is[e] /\ \A f \in K : is[f] <= is[d] \/ is[e] <= is[f]
        \/ \A f \in K : is[e] <= is[f] /\ is[f] <= is[d]
  BY <1>1 DEF Follows
<1> HIDE DEF n
<1>5. \A e \in K : is[e] # m
  BY <1>1, <1>2, <1>3
<1>6. ASSUME m = is[p] + 1, is[n] # m PROVE Follows(is, L, p, c) /\ Follows(is, L, c, n)
  <2>1. CASE is[p] < is[n] /\ \A e \in K : is[e] <= is[p] \/ is[n] <= is[e]
    <3>1. is[p] < is[c] /\ is[c] < is[n]
      BY <1>1, <1>6, <2>1
    <3>2. \A e \in L : is[e] <= is[p] \/ is[c] <= is[e]
      BY <1>1, <2>1, <3>1
    <3>3. \A e \in L : is[e] <= is[c] \/ is[n] <= is[e]
      BY <1>1, <2>1, <3>1
    <3> QED
      BY <3>1, <3>2, <3>3 DEF Follows
  <2>2. CASE \A e \in K : is[n] <= is[e] /\ is[e] <= is[p]
    <3>1. is[p] < is[c]
      BY <1>1, <1>6
    <3>2. \A e \in L : is[e] <= is[p] \/ is[c] <= is[e]
      BY <1>1, <2>2
    <3>3. \A e \in L : is[n] <= is[e] /\ is[e] <= is[c]
      BY <1>1, <1>6, <2>2
    <3> QED
      BY <3>1, <3>2, <3>3 DEF Follows
  <2> QED
    BY <1>2, <2>1, <2>2
<1>7. ASSUME m = 0, is[p] >= is[n], is[n] # 0
      PROVE  Follows(is, L, p, c) /\ Follows(is, L, c, n) /\ \A e \in K : is[e] <= is[p]
  <2>1. \A e \in K : is[n] <= is[e] /\ is[e] <= is[p]
    BY <1>1, <1>2, <1>7
  <2>2. is[c] < is[n]
    BY <1>1, <1>7
  <2>3. \A e \in L : is[c] <= is[e] /\ is[e] <= is[p]
    BY <1>1, <1>7, <2>1
  <2>4. \A e \in L : is[e] <= is[c] \/ is[n] <= is[e]
    BY <1>1, <2>1
  <2> QED
    BY <2>1, <2>2, <2>3, <2>4 DEF Follows
<1>8. ASSUME NEW d \in K, NEW f \in K, d # p, Follows(inst, K, d, f) PROVE Follows(is, L, d, f)
  <2>1. is[d] # is[p]
    BY <1>1, <1>8
  <2>2. CASE is[d] < is[f] /\ \A e \in K : is[e] <= is[d] \/ is[f] <= is[e]
    <3>1. is[p] <= is[d] \/ is[f] <= is[p]
      BY <1>1, <2>2
    <3>2. is[c] <= is[d] \/ is[f] <= is[c]
      <4>1. m = is[p] + 1 \/ m = 0
        BY <1>3
      <4> QED
        BY <1>1, <2>1, <3>1, <4>1
    <3>3. \A e \in L : is[e] <= is[d] \/ is[f] <= is[e]
      BY <1>1, <2>2, <3>2
    <3> QED
      BY <2>2, <3>3 DEF Follows
  <2>3. CASE \A e \in K : is[f] <= is[e] /\ is[e] <= is[d]
    <3>1. is[p] < is[d]
      BY <1>1, <2>1, <2>3
    <3>2. m = is[p] + 1
      <4>1. ~(m = 0 /\ is[p] >= is[n] /\ is[n] # 0)
        BY <1>1, <1>7, <3>1
      <4> QED
        BY <1>3, <4>1
    <3>3. is[f] <= is[c] /\ is[c] <= is[d]
      BY <1>1, <2>3, <3>1, <3>2
    <3>4. \A e \in L : is[f] <= is[e] /\ is[e] <= is[d]
      BY <1>1, <2>3, <3>3
    <3> QED
      BY <3>4 DEF Follows
  <2> QED
    BY <1>4, <1>8, <2>2, <2>3
<1> QED
  BY <1>3, <1>5, <1>6, <1>7, <1>8 DEF n

\* client_unuse_label: c is taken out of its ring.
Unlinked(next, prev, inst, c, nx, pv, is) ==
  /\ nx \in [Client -> Client] /\ pv \in [Client -> Client] /\ is \in [Client -> Nat]
  /\ \A d \in Client : nx[d] = IF d = c THEN c ELSE IF d = prev[c] THEN next[c] ELSE next[d]
  /\ \A d \in Client : pv[d] = IF d = c THEN c ELSE IF d = next[c] THEN prev[c] ELSE prev[d]
  /\ \A d \in Client : is[d] = IF d = c THEN 0 ELSE inst[d]

\* A client leaves its ring.
LEMMA LeavesInOrder ==
  ASSUME NEW next, NEW prev, NEW inst, NEW R, Classes(R), InOrder(next, prev, inst, R),
         NEW c \in Client, NEW nx, NEW pv, NEW is, Unlinked(next, prev, inst, c, nx, pv, is)
  PROVE  \E Q : /\ Classes(Q) /\ InOrder(nx, pv, is, Q) /\ Q[c] = {c}
                /\ \A d \in Client : Q[d] \subseteq R[d]
<1> DEFINE Q == [d \in Client |-> IF d = c THEN {c} ELSE R[d] \ {c}]
<1>1. /\ R \in [Client -> SUBSET Client]
      /\ \A d \in Client : d \in R[d] /\ \A e \in R[d] : R[e] = R[d]
  BY DEF Classes
<1>2. /\ next \in [Client -> Client] /\ prev \in [Client -> Client] /\ inst \in [Client -> Nat]
      /\ \A d \in Client :
           /\ next[d] \in R[d] /\ prev[next[d]] = d /\ next[prev[d]] = d
           /\ \A e \in R[d] : inst[e] = inst[d] => e = d
           /\ Follows(inst, R[d], d, next[d])
  BY DEF InOrder
<1>3. Q \in [Client -> SUBSET Client]
  BY <1>1
<1>4. /\ Q[c] = {c}
      /\ \A d \in Client : d # c => Q[d] = R[d] \ {c}
  OBVIOUS
<1> HIDE DEF Q
<1>5. Classes(Q)
  <2>1. ASSUME NEW d \in Client PROVE d \in Q[d] /\ \A e \in Q[d] : Q[e] = Q[d]
    <3>1. CASE d = c
      BY <1>4, <3>1
    <3>2. CASE d # c
      <4>1. ASSUME NEW e \in Q[d] PROVE Q[e] = Q[d]
        <5>1. e \in R[d] /\ e # c /\ e \in Client
          BY <1>1, <1>4, <3>2
        <5>2. R[e] = R[d]
          BY <1>1, <5>1
        <5> QED
          BY <1>4, <3>2, <5>1, <5>2
      <4> QED
        BY <1>1, <1>4, <3>2, <4>1
    <3> QED
      BY <3>1, <3>2
  <2> QED
    BY <1>3, <2>1 DEF Classes
<1>6. /\ nx \in [Client -> Client] /\ pv \in [Client -> Client] /\ is \in [Client -> Nat]
      /\ nx[c] = c /\ pv[c] = c /\ is[c] = 0
      /\ \A d \in Client : d # c => is[d] = inst[d]
      /\ \A d \in Client : d # c => nx[d] = IF d = prev[c] THEN next[c] ELSE next[d]
      /\ \A d \in Client : d # c => pv[d] = IF d = next[c] THEN prev[c] ELSE prev[d]
  BY <1>2 DEF Unlinked
<1>7. ASSUME NEW d \in Client
      PROVE  /\ nx[d] \in Q[d] /\ pv[nx[d]] = d /\ nx[pv[d]] = d
             /\ \A e \in Q[d] : is[e] = is[d] => e = d
             /\ Follows(is, Q[d], d, nx[d])
  <2>1. CASE d = c
    BY <1>4, <1>6, <2>1 DEF Follows
  <2>2. CASE d # c
    <3>1. Q[d] = R[d] \ {c} /\ is[d] = inst[d] /\ \A e \in Q[d] : e \in Client /\ is[e] = inst[e]
      BY <1>1, <1>4, <1>6, <2>2
    <3>2. \A e \in Q[d] : is[e] = is[d] => e = d
      BY <1>2, <3>1
    <3>3. nx[pv[d]] = d
      BY <1>2, <1>6, <2>2
    <3>4. pv[nx[d]] = d
      BY <1>2, <1>6, <2>2
    <3>5. CASE d = prev[c]
      <4>1. next[d] = c /\ c \in R[d] /\ R[c] = R[d] /\ next[c] \in R[d] /\ next[c] # c
        BY <1>1, <1>2, <2>2, <3>5
      <4>2. nx[d] = next[c] /\ nx[d] \in Q[d]
        BY <1>6, <2>2, <3>1, <3>5, <4>1
      <4>3. Follows(inst, R[d], d, c) /\ Follows(inst, R[d], c, next[c])
        BY <1>2, <4>1
      <4>4. \A e \in R[d] : inst[e] = inst[c] => e = c
        BY <1>2, <4>1
      <4>5. Follows(inst, R[d] \ {c}, d, next[c])
        BY <1>1, <1>2, <2>2, <4>1, <4>3, <4>4, FollowsOver
      <4>6. Follows(is, Q[d], d, nx[d])
        BY <3>1, <4>2, <4>5 DEF Follows
      <4> QED
        BY <3>2, <3>3, <3>4, <4>2, <4>6
    <3>6. CASE d # prev[c]
      <4>1. nx[d] = next[d] /\ next[d] # c /\ nx[d] \in Q[d]
        BY <1>2, <1>6, <2>2, <3>1, <3>6
      <4>2. Follows(inst, R[d], d, next[d])
        BY <1>2
      <4>3. Follows(is, Q[d], d, nx[d])
        BY <3>1, <4>1, <4>2 DEF Follows
      <4> QED
        BY <3>2, <3>3, <3>4, <4>1, <4>3
    <3> QED
      BY <3>5, <3>6
  <2> QED
    BY <2>1, <2>2
<1>8. InOrder(nx, pv, is, Q)
  BY <1>6, <1>7 DEF InOrder
<1>9. \A d \in Client : Q[d] \subseteq R[d]
  BY <1>1, <1>4
<1> QED
  BY <1>4, <1>5, <1>8, <1>9

\* The end of use_label: c is linked after p, with the number m.
Linked(next, prev, inst, c, p, m, nx, pv, is) ==
  /\ nx \in [Client -> Client] /\ pv \in [Client -> Client] /\ is \in [Client -> Nat]
  /\ \A d \in Client : nx[d] = IF d = p THEN c ELSE IF d = c THEN next[p] ELSE next[d]
  /\ \A d \in Client : pv[d] = IF d = c THEN p ELSE IF d = next[p] THEN c ELSE prev[d]
  /\ \A d \in Client : is[d] = IF d = c THEN m ELSE inst[d]

\* c has been put into the class of p.
Merged(R, Q, p, c) ==
  \A d \in Client : Q[d] = IF d \in R[p] \cup {c} THEN R[p] \cup {c} ELSE R[d]

\* A client that is alone is linked where there is a gap.
LEMMA EntersInOrder ==
  ASSUME NEW next, NEW prev, NEW inst, NEW R, Classes(R), InOrder(next, prev, inst, R),
         NEW c \in Client, R[c] = {c}, NEW p \in Client, p # c,
         NEW m, m \in Nat, Gap(next, inst, p, m),
         NEW nx, NEW pv, NEW is, Linked(next, prev, inst, c, p, m, nx, pv, is)
  PROVE  \E Q : Classes(Q) /\ InOrder(nx, pv, is, Q) /\ Merged(R, Q, p, c)
<1> DEFINE K == R[p]
           L == R[p] \cup {c}
           Q == [d \in Client |-> IF d \in L THEN L ELSE R[d]]
<1>1. /\ R \in [Client -> SUBSET Client]
      /\ \A d \in Client : d \in R[d] /\ \A e \in R[d] : R[e] = R[d]
  BY DEF Classes
<1>2. /\ next \in [Client -> Client] /\ prev \in [Client -> Client] /\ inst \in [Client -> Nat]
      /\ \A d \in Client :
           /\ next[d] \in R[d] /\ prev[next[d]] = d /\ next[prev[d]] = d
           /\ \A e \in R[d] : inst[e] = inst[d] => e = d
           /\ Follows(inst, R[d], d, next[d])
  BY DEF InOrder
<1>3. /\ K \subseteq Client /\ p \in K /\ c \notin K /\ \A d \in K : R[d] = K /\ next[d] \in K
      /\ next[c] = c /\ prev[c] = c /\ next[p] \in K /\ next[p] # c
      /\ \A d \in Client : d \notin K => R[d] \cap K = {}
      /\ \A d \in Client : d # c => c \notin R[d]
  BY <1>1, <1>2
<1>4. Q \in [Client -> SUBSET Client] /\ \A d \in Client : Q[d] = IF d \in L THEN L ELSE R[d]
  BY <1>1, <1>3
<1> HIDE DEF Q
<1>5. Classes(Q)
  <2>1. ASSUME NEW d \in Client PROVE d \in Q[d] /\ \A e \in Q[d] : Q[e] = Q[d]
    <3>1. CASE d \in L
      <4>1. L \subseteq Client
        BY <1>3
      <4> HIDE DEF L
      <4> QED
        BY <1>4, <3>1, <4>1
    <3>2. CASE d \notin L
      <4>1. Q[d] = R[d] /\ R[d] \cap L = {}
        BY <1>3, <1>4, <3>2
      <4> QED
        BY <1>1, <1>4, <4>1
    <3> QED
      BY <3>1, <3>2
  <2> QED
    BY <1>4, <2>1 DEF Classes
<1>6. /\ nx \in [Client -> Client] /\ pv \in [Client -> Client] /\ is \in [Client -> Nat]
      /\ nx[p] = c /\ nx[c] = next[p] /\ is[c] = m /\ pv[c] = p
      /\ \A d \in Client : d # c => is[d] = inst[d]
      /\ \A d \in Client : d # c /\ d # p => nx[d] = next[d]
      /\ \A d \in Client : d # c => pv[d] = IF d = next[p] THEN c ELSE prev[d]
  BY <1>2 DEF Linked
<1>7. /\ \A e \in K : is[e] # m
      /\ Follows(is, L, p, c) /\ Follows(is, L, c, next[p])
      /\ \A d, n \in K : d # p /\ Follows(inst, K, d, n) => Follows(is, L, d, n)
  <2>1. Entering(next, inst, is, K, L, p, c, m)
    BY <1>2, <1>3, <1>6 DEF Entering
  <2> HIDE DEF K, L
  <2>2. /\ \A e \in K : is[e] # m
        /\ Follows(is, L, p, c) /\ Follows(is, L, c, next[p])
        /\ \A d, n \in K : d # p /\ Follows(inst, K, d, n) => Follows(is, L, d, n)
    BY <2>1, FollowsBetween
  <2> QED
    BY <2>2 DEF K, L
<1>8. ASSUME NEW d \in Client
      PROVE  /\ nx[d] \in Q[d] /\ pv[nx[d]] = d /\ nx[pv[d]] = d
             /\ \A e \in Q[d] : is[e] = is[d] => e = d
             /\ Follows(is, Q[d], d, nx[d])
  <2>1. pv[nx[d]] = d
    <3>1. d # c /\ d # p => next[d] # c /\ next[d] # next[p]
      BY <1>2, <1>3
    <3>2. next[d] \in Client /\ next[p] \in Client
      BY <1>2
    <3>3. CASE d = c \/ d = p
      BY <1>3, <1>6, <3>2, <3>3
    <3>4. CASE d # c /\ d # p
      BY <1>2, <1>6, <3>1, <3>2, <3>4
    <3> QED
      BY <3>3, <3>4
  <2>2. nx[pv[d]] = d
    <3>1. d # c /\ d # next[p] => prev[d] # c /\ prev[d] # p
      BY <1>2, <1>3
    <3>2. prev[d] \in Client /\ next[p] \in Client
      BY <1>2
    <3>3. CASE d = c \/ d = next[p]
      BY <1>3, <1>6, <3>2, <3>3
    <3>4. CASE d # c /\ d # next[p]
      BY <1>2, <1>6, <3>1, <3>2, <3>4
    <3> QED
      BY <3>3, <3>4
  <2>3. CASE d = c
    <3>1. Q[d] = L /\ nx[d] = next[p]
      BY <1>4, <1>6, <2>3
    <3>2. nx[d] \in Q[d] /\ Follows(is, Q[d], d, nx[d])
      BY <1>3, <1>7, <2>3, <3>1
    <3>3. \A e \in Q[d] : is[e] = is[d] => e = d
      BY <1>6, <1>7, <2>3, <3>1
    <3> QED
      BY <2>1, <2>2, <3>2, <3>3
  <2>4. CASE d \in K
    <3>1. Q[d] = L /\ d # c /\ is[d] = inst[d]
      BY <1>3, <1>4, <1>6, <2>4
    <3>2. nx[d] \in Q[d] /\ Follows(is, Q[d], d, nx[d])
      <4>1. CASE d = p
        <5>1. nx[d] = c /\ c \in L /\ Follows(is, L, p, c)
          BY <1>6, <1>7, <4>1
        <5> QED
          BY <3>1, <4>1, <5>1
      <4>2. CASE d # p
        <5>1. nx[d] = next[d] /\ next[d] \in K /\ Follows(inst, K, d, next[d])
          BY <1>2, <1>3, <1>6, <2>4, <3>1, <4>2
        <5> QED
          BY <1>7, <2>4, <3>1, <4>2, <5>1
      <4> QED
        BY <4>1, <4>2
    <3>3. \A e \in Q[d] : is[e] = is[d] => e = d
      <4> SUFFICES ASSUME NEW e \in L, is[e] = is[d] PROVE e = d
        BY <3>1
      <4>1. e # c
        BY <1>6, <1>7, <2>4
      <4>2. e \in K /\ e \in R[d] /\ is[e] = inst[e]
        BY <1>3, <1>6, <2>4, <4>1
      <4> QED
        BY <1>2, <3>1, <4>2
    <3> QED
      BY <2>1, <2>2, <3>2, <3>3
  <2>5. CASE d \notin L
    <3>1. /\ Q[d] = R[d] /\ d # c /\ d # p /\ nx[d] = next[d] /\ nx[d] \in Q[d]
          /\ \A e \in R[d] : e \in Client /\ e # c /\ is[e] = inst[e]
      BY <1>1, <1>2, <1>3, <1>4, <1>6, <2>5
    <3>2. \A e \in Q[d] : is[e] = is[d] => e = d
      <4>1. d \in R[d] /\ is[d] = inst[d]
        BY <1>1, <3>1
      <4> QED
        BY <1>2, <3>1, <4>1
    <3>3. Follows(inst, R[d], d, next[d])
      BY <1>2
    <3>4. Follows(is, Q[d], d, nx[d])
      BY <1>1, <3>1, <3>3 DEF Follows
    <3> QED
      BY <2>1, <2>2, <3>1, <3>2, <3>4
  <2> QED
    BY <2>3, <2>4, <2>5
<1>9. InOrder(nx, pv, is, Q)
  BY <1>6, <1>8 DEF InOrder
<1>10. Merged(R, Q, p, c)
  BY <1>4 DEF Merged
<1> QED
  BY <1>5, <1>9, <1>10

-----------------------------------------------------------------------------
(* The walk along a ring. *)

LEMMA LeastOne ==
  ASSUME NEW T, T \subseteq Nat, T # {}
  PROVE  \E n \in T : \A m \in T : n <= m
<1>1. PICK n \in T : \A m \in T : ~(<<m, n>> \in OpToRel(<, Nat))
  BY NatLessThanWellFounded, WFMin
<1>2. \A m \in T : ~(m < n)
  BY <1>1 DEF OpToRel
<1> QED
  BY <1>2

\* Induction up to a bound, on a set of numbers.
LEMMA Upwards ==
  ASSUME NEW T, NEW M \in Nat, 0 \in T, \A k \in 0..M : k \in T /\ k < M => k + 1 \in T
  PROVE  \A k \in 0..M : k \in T
<1> SUFFICES ASSUME (0..M) \ T # {} PROVE FALSE
  OBVIOUS
<1>1. PICK n \in (0..M) \ T : \A m \in (0..M) \ T : n <= m
  <2>1. (0..M) \ T \subseteq Nat
    OBVIOUS
  <2> QED
    BY <2>1, LeastOne
<1>2. n \in Nat /\ n # 0 /\ n <= M
  OBVIOUS
<1>3. n - 1 \in 0..M /\ n - 1 \in T /\ n - 1 < M
  BY <1>1, <1>2
<1>4. (n - 1) + 1 \in T
  BY <1>3
<1> QED
  BY <1>2, <1>4

\* The first k steps of the walk of use_label, which f has taken.
Walked(r, start, k, f) ==
  [n \in 0..k |-> IF n = 0 THEN Departure(start) ELSE WalkStep(r, f[n - 1])]

LEMMA FreePlaceIsWalk ==
  ASSUME NEW r, NEW start
  PROVE  FreePlace(r, start) = (CHOOSE f : f = Walked(r, start, MaxWalk, f))[MaxWalk]
BY Zenon DEF FreePlace, Walked

LEMMA WalkExists ==
  ASSUME NEW r, NEW start, NEW M \in Nat
  PROVE  \E f : f = Walked(r, start, M, f)
<1> DEFINE T == {k \in Nat : \E f : f = Walked(r, start, k, f)}
<1>1. 0 \in T
  <2>1. [n \in 0..0 |-> Departure(start)] = Walked(r, start, 0, [n \in 0..0 |-> Departure(start)])
    BY DEF Walked
  <2> QED
    BY <2>1
<1>2. ASSUME NEW k \in 0..M, k \in T PROVE k + 1 \in T
  <2>1. PICK f : f = Walked(r, start, k, f)
    BY <1>2
  <2> DEFINE g == [n \in 0..k + 1 |-> IF n = k + 1 THEN WalkStep(r, f[k]) ELSE f[n]]
  <2>2. \A n \in 0..k : f[n] = IF n = 0 THEN Departure(start) ELSE WalkStep(r, f[n - 1])
    BY <2>1 DEF Walked
  <2>3. g[k] = f[k] /\ \A n \in 0..k : n # 0 => g[n - 1] = f[n - 1]
    OBVIOUS
  <2>4. ASSUME NEW n \in 0..k + 1
        PROVE  g[n] = IF n = 0 THEN Departure(start) ELSE WalkStep(r, g[n - 1])
    <3>1. CASE n = k + 1
      <4>1. g[n] = WalkStep(r, f[k]) /\ n # 0 /\ n - 1 = k
        BY <3>1
      <4> HIDE DEF g
      <4> QED
        BY <2>3, <4>1
    <3>2. CASE n # k + 1
      <4>1. n \in 0..k /\ g[n] = f[n]
        BY <3>2
      <4> HIDE DEF g
      <4> QED
        BY <2>2, <2>3, <4>1
    <3> QED
      BY <3>1, <3>2
  <2>5. g = Walked(r, start, k + 1, g)
    <3>1. g = [n \in 0..k + 1 |-> g[n]]
      OBVIOUS
    <3> HIDE DEF g
    <3> QED
      BY <2>4, <3>1 DEF Walked
  <2> QED
    BY <2>5
<1>3. M \in T
  <2> HIDE DEF T
  <2> QED
    BY <1>1, <1>2, Upwards
<1> QED
  BY <1>3

\* Where the walk is after n steps, along the ring K.
Underway(next, inst, K, x) ==
  /\ x \in [p : K, minp : K \cup {NULL}, mininst : Int, done : BOOLEAN]
  /\ IF x.done
     THEN /\ x.minp \in K /\ x.mininst \in Nat /\ Gap(next, inst, x.minp, x.mininst)
     ELSE \/ x.mininst = NoNumber
          \/ /\ x.minp \in K /\ x.mininst = inst[x.minp] + 1
             /\ inst[next[x.minp]] # x.mininst

\* The steps that are left at most: once round for a number, and once more for the least one.
ToGo(inst, K, x) ==
  Cardinality({d \in K : inst[d] > inst[x.p]}) + IF x.mininst = NoNumber THEN Cardinality(K) ELSE 0

\* A ring: K goes round by next in the order of the numbers.
OnRing(next, inst, K) ==
  /\ K \in SUBSET Client /\ next \in [Client -> Client] /\ inst \in [Client -> Nat]
  /\ \A c \in K : next[c] \in K /\ Follows(inst, K, c, next[c])

LEMMA Higher ==
  ASSUME NEW inst \in [Client -> Nat], NEW K \in SUBSET Client, NEW p \in K
  PROVE  LET Above(c) == {d \in K : inst[d] > inst[c]} IN
         /\ Cardinality(Above(p)) \in Nat /\ Cardinality(K) \in Nat
         /\ Cardinality(Above(p)) < Cardinality(K)
         /\ \A n \in K : inst[p] < inst[n] => Cardinality(Above(n)) < Cardinality(Above(p))
<1> DEFINE Above(c) == {d \in K : inst[d] > inst[c]}
<1>1. IsFiniteSet(K) /\ Cardinality(K) \in Nat
  BY LabelsAssumption, FS_Subset, FS_CardinalityType
<1>2. \A c \in K : IsFiniteSet(Above(c)) /\ Cardinality(Above(c)) \in Nat
                   /\ Cardinality(Above(c)) <= Cardinality(K)
                   /\ (Cardinality(Above(c)) = Cardinality(K) => Above(c) = K)
  <2> SUFFICES ASSUME NEW c \in K
               PROVE  /\ IsFiniteSet(Above(c)) /\ Cardinality(Above(c)) \in Nat
                      /\ Cardinality(Above(c)) <= Cardinality(K)
                      /\ (Cardinality(Above(c)) = Cardinality(K) => Above(c) = K)
    OBVIOUS
  <2>1. Above(c) \in SUBSET K
    OBVIOUS
  <2> HIDE DEF Above
  <2> QED
    BY <1>1, <2>1, FS_Subset, FS_CardinalityType
<1>3. p \notin Above(p)
  OBVIOUS
<1>4. Cardinality(Above(p)) < Cardinality(K)
  <2> HIDE DEF Above
  <2> QED
    BY <1>1, <1>2, <1>3
<1>5. ASSUME NEW n \in K, inst[p] < inst[n]
      PROVE  Cardinality(Above(n)) < Cardinality(Above(p))
  <2>1. Above(n) \in SUBSET Above(p) /\ n \in Above(p) /\ n \notin Above(n)
    BY <1>5
  <2> HIDE DEF Above
  <2>2. /\ Cardinality(Above(n)) <= Cardinality(Above(p))
        /\ Cardinality(Above(p)) = Cardinality(Above(n)) => Above(p) = Above(n)
    BY <1>2, <2>1, FS_Subset
  <2> QED
    BY <1>2, <2>1, <2>2
<1> QED
  BY <1>1, <1>2, <1>4, <1>5

\* Each step of the walk ends it or brings it nearer to its end.
LEMMA StepsOn ==
  ASSUME NEW r, NEW K, NEW x, OnRing(r.next, r.inst, K), Underway(r.next, r.inst, K, x)
  PROVE  LET y == WalkStep(r, x) IN
         /\ Underway(r.next, r.inst, K, y)
         /\ ToGo(r.inst, K, x) \in Nat /\ ToGo(r.inst, K, y) \in Nat
         /\ y.done \/ ToGo(r.inst, K, y) < ToGo(r.inst, K, x)
<1> DEFINE inst == r.inst
           np   == r.next[x.p]
           free == inst[x.p] + 1
           y    == WalkStep(r, x)
           Above(c) == {d \in K : inst[d] > inst[c]}
<1>1. /\ K \in SUBSET Client /\ r.next \in [Client -> Client] /\ inst \in [Client -> Nat]
      /\ \A c \in K : r.next[c] \in K /\ Follows(inst, K, c, r.next[c])
  BY DEF OnRing
<1>2. x \in [p : K, minp : K \cup {NULL}, mininst : Int, done : BOOLEAN]
  BY DEF Underway
<1>3. x.p \in K /\ np \in K /\ Follows(inst, K, x.p, np) /\ inst[x.p] \in Nat /\ inst[np] \in Nat
  BY <1>1, <1>2
<1>4. /\ Cardinality(K) \in Nat
      /\ \A c \in K : Cardinality(Above(c)) \in Nat /\ Cardinality(Above(c)) < Cardinality(K)
      /\ inst[x.p] < inst[np] => Cardinality(Above(np)) < Cardinality(Above(x.p))
  BY <1>1, <1>3, Higher
<1>5. \A z \in [p : K, minp : K \cup {NULL}, mininst : Int, done : BOOLEAN] :
        ToGo(inst, K, z) = Cardinality(Above(z.p)) + IF z.mininst = NoNumber THEN Cardinality(K) ELSE 0
  BY DEF ToGo
<1> HIDE DEF Above
<1>6. CASE x.done
  <2>1. y = x
    BY <1>6 DEF WalkStep
  <2> QED
    BY <1>2, <1>4, <1>5, <1>6, <2>1
<1>7. ASSUME ~x.done
      PROVE  \/ x.mininst = NoNumber
             \/ /\ x.minp \in K /\ x.mininst = inst[x.minp] + 1
                /\ inst[r.next[x.minp]] # x.mininst
  BY <1>7 DEF Underway
<1>8. CASE ~x.done /\ free = inst[np]
  <2>1. y = [x EXCEPT !.p = np]
    BY <1>8 DEF WalkStep
  <2>2. /\ y \in [p : K, minp : K \cup {NULL}, mininst : Int, done : BOOLEAN]
        /\ y.p = np /\ y.minp = x.minp /\ y.mininst = x.mininst /\ ~y.done
    BY <1>2, <1>3, <1>8, <2>1
  <2>3. Underway(r.next, r.inst, K, y)
    BY <1>7, <1>8, <2>2 DEF Underway
  <2>4. inst[x.p] < inst[np]
    BY <1>3, <1>8
  <2> HIDE DEF y, np
  <2> QED
    BY <1>2, <1>3, <1>4, <1>5, <2>2, <2>3, <2>4 DEF y
<1>9. CASE ~x.done /\ free # inst[np] /\ ZeroIsFree(inst[x.p], inst[np])
  <2>1. y = [x EXCEPT !.minp = x.p, !.mininst = 0, !.done = TRUE]
    BY <1>9 DEF WalkStep
  <2>2. /\ y \in [p : K, minp : K \cup {NULL}, mininst : Int, done : BOOLEAN]
        /\ y.p = x.p /\ y.minp = x.p /\ y.mininst = 0 /\ y.done
    <3>1. y = [p |-> x.p, minp |-> x.p, mininst |-> 0, done |-> TRUE]
      BY <1>2, <2>1
    <3> QED
      BY <1>2, <3>1
  <2>3. Gap(r.next, inst, x.p, 0)
    BY <1>9 DEF Gap, ZeroIsFree
  <2>4. Underway(r.next, r.inst, K, y)
    BY <1>3, <2>2, <2>3 DEF Underway
  <2> HIDE DEF y, np
  <2> QED
    BY <1>2, <1>3, <1>4, <1>5, <2>2, <2>4 DEF y
<1>10. CASE /\ ~x.done /\ free # inst[np] /\ ~ZeroIsFree(inst[x.p], inst[np])
            /\ x.mininst = NoNumber \/ free < x.mininst
  <2>1. y = [x EXCEPT !.p = np, !.minp = x.p, !.mininst = free]
    BY <1>10 DEF WalkStep
  <2>2. /\ y \in [p : K, minp : K \cup {NULL}, mininst : Int, done : BOOLEAN]
        /\ y.p = np /\ y.minp = x.p /\ y.mininst = free /\ ~y.done
    <3>1. y = [p |-> np, minp |-> x.p, mininst |-> free, done |-> x.done]
      BY <1>2, <2>1
    <3> QED
      BY <1>2, <1>3, <1>10, <3>1
  <2>3. Underway(r.next, r.inst, K, y)
    BY <1>3, <1>10, <2>2 DEF Underway
  <2>4. y.mininst # NoNumber
    BY <1>3, <2>2 DEF NoNumber
  <2>5. x.mininst # NoNumber => inst[x.p] < inst[np]
    <3> SUFFICES ASSUME x.mininst # NoNumber PROVE inst[x.p] < inst[np]
      OBVIOUS
    <3>1. x.minp \in K /\ inst[x.minp] \in Nat /\ inst[x.p] < inst[x.minp]
      BY <1>1, <1>2, <1>3, <1>7, <1>10
    <3> QED
      BY <1>3, <3>1 DEF Follows
  <2> HIDE DEF y, np
  <2> QED
    BY <1>2, <1>3, <1>4, <1>5, <2>2, <2>3, <2>4, <2>5 DEF y
<1>11. CASE /\ ~x.done /\ free # inst[np] /\ ~ZeroIsFree(inst[x.p], inst[np])
            /\ ~(x.mininst = NoNumber \/ free < x.mininst)
  <2>1. y = [x EXCEPT !.done = TRUE]
    BY <1>11 DEF WalkStep
  <2>2. /\ y \in [p : K, minp : K \cup {NULL}, mininst : Int, done : BOOLEAN]
        /\ y.p = x.p /\ y.minp = x.minp /\ y.mininst = x.mininst /\ y.done
    BY <1>2, <2>1
  <2>3. x.minp \in K /\ x.mininst = inst[x.minp] + 1 /\ inst[r.next[x.minp]] # x.mininst
    BY <1>7, <1>11
  <2>4. x.mininst \in Nat
    BY <1>1, <2>3
  <2>5. Underway(r.next, r.inst, K, y)
    BY <2>2, <2>3, <2>4 DEF Underway, Gap
  <2> HIDE DEF y, np
  <2> QED
    BY <1>2, <1>3, <1>4, <1>5, <2>2, <2>5 DEF y
<1> QED
  BY <1>6, <1>8, <1>9, <1>10, <1>11

\* use_label finds a place for the client: its walk ends, and there is a gap where it ends.
LEMMA FindsAPlace ==
  ASSUME NEW r, NEW K, NEW start \in K, OnRing(r.next, r.inst, K)
  PROVE  LET place == FreePlace(r, start) IN
         /\ place.done /\ place.minp \in K /\ place.mininst \in Nat
         /\ Gap(r.next, r.inst, place.minp, place.mininst)
<1>1. MaxWalk \in Nat /\ IsFiniteSet(K) /\ Cardinality(K) \in Nat /\ 2 * Cardinality(K) < MaxWalk
  <2>1. /\ IsFiniteSet(Client) /\ Cardinality(Client) \in Nat /\ IsFiniteSet(K)
        /\ Cardinality(K) \in Nat /\ Cardinality(K) <= Cardinality(Client)
    BY LabelsAssumption, FS_Subset, FS_CardinalityType DEF OnRing
  <2> QED
    BY <2>1 DEF MaxWalk
<1> DEFINE f == CHOOSE g : g = Walked(r, start, MaxWalk, g)
<1>2. f = Walked(r, start, MaxWalk, f)
  BY <1>1, WalkExists
<1>3. FreePlace(r, start) = f[MaxWalk]
  BY Zenon, FreePlaceIsWalk
<1> HIDE DEF f
<1>4. \A n \in 0..MaxWalk : f[n] = IF n = 0 THEN Departure(start) ELSE WalkStep(r, f[n - 1])
  <2>1. \A n \in 0..MaxWalk : Walked(r, start, MaxWalk, f)[n]
                              = IF n = 0 THEN Departure(start) ELSE WalkStep(r, f[n - 1])
    BY Zenon DEF Walked
  <2> QED
    BY <1>2, <2>1
<1>5. Underway(r.next, r.inst, K, Departure(start))
  BY DEF Underway, Departure, NoNumber
<1>6. ToGo(r.inst, K, Departure(start)) < 2 * Cardinality(K)
  <2>1. /\ Cardinality({d \in K : r.inst[d] > r.inst[start]}) \in Nat
        /\ Cardinality({d \in K : r.inst[d] > r.inst[start]}) < Cardinality(K)
    BY Higher DEF OnRing
  <2>2. ToGo(r.inst, K, Departure(start))
        = Cardinality({d \in K : r.inst[d] > r.inst[start]}) + Cardinality(K)
    BY DEF ToGo, Departure
  <2> QED
    BY <1>1, <2>1, <2>2
<1> DEFINE T == {n \in 0..MaxWalk :
                   /\ Underway(r.next, r.inst, K, f[n])
                   /\ f[n].done \/ ToGo(r.inst, K, f[n]) + n < 2 * Cardinality(K)}
<1>7. 0 \in T
  <2>1. 0 \in 0..MaxWalk /\ f[0] = Departure(start)
    BY <1>1, <1>4
  <2>2. ToGo(r.inst, K, Departure(start)) + 0 < 2 * Cardinality(K)
    BY <1>1, <1>5, <1>6, StepsOn
  <2> QED
    BY <1>5, <2>1, <2>2
<1>8. ASSUME NEW n \in 0..MaxWalk, n \in T, n < MaxWalk PROVE n + 1 \in T
  <2>1. n + 1 \in 0..MaxWalk /\ f[n + 1] = WalkStep(r, f[n])
    <3>1. n + 1 \in 0..MaxWalk /\ n + 1 # 0 /\ (n + 1) - 1 = n
      BY <1>1, <1>8
    <3> QED
      BY <1>4, <3>1
  <2>2. /\ Underway(r.next, r.inst, K, f[n])
        /\ f[n].done \/ ToGo(r.inst, K, f[n]) + n < 2 * Cardinality(K)
    BY <1>8
  <2>3. /\ Underway(r.next, r.inst, K, f[n + 1])
        /\ ToGo(r.inst, K, f[n]) \in Nat /\ ToGo(r.inst, K, f[n + 1]) \in Nat
        /\ f[n + 1].done \/ ToGo(r.inst, K, f[n + 1]) < ToGo(r.inst, K, f[n])
    BY <2>1, <2>2, StepsOn
  <2>4. f[n].done => f[n + 1].done
    BY <2>1 DEF WalkStep
  <2>5. f[n + 1].done \/ ToGo(r.inst, K, f[n + 1]) + (n + 1) < 2 * Cardinality(K)
    BY <1>1, <2>2, <2>3, <2>4
  <2> QED
    BY <2>1, <2>3, <2>5
<1>9. MaxWalk \in T
  <2> HIDE DEF T
  <2> QED
    BY <1>1, <1>7, <1>8, Upwards
<1>10. Underway(r.next, r.inst, K, f[MaxWalk]) /\ ToGo(r.inst, K, f[MaxWalk]) \in Nat
  BY <1>9, StepsOn
<1>11. f[MaxWalk].done
  BY <1>1, <1>9, <1>10
<1> QED
  BY <1>3, <1>10, <1>11 DEF Underway

-----------------------------------------------------------------------------
(* use_label keeps the rings in order, and never fails. *)

RingRecord == [next : [Client -> Client], prev : [Client -> Client], inst : [Client -> Nat]]

LEMMA ClassIsRing ==
  ASSUME NEW next, NEW prev, NEW inst, NEW R, Classes(R), InOrder(next, prev, inst, R),
         NEW c \in Client
  PROVE  OnRing(next, inst, R[c])
<1>1. /\ R[c] \in SUBSET Client /\ next \in [Client -> Client] /\ inst \in [Client -> Nat]
      /\ \A d \in R[c] : d \in Client /\ R[d] = R[c] /\ next[d] \in R[d] /\ Follows(inst, R[d], d, next[d])
  BY DEF Classes, InOrder
<1>2. \A d \in R[c] : next[d] \in R[c] /\ Follows(inst, R[c], d, next[d])
  BY <1>1
<1> QED
  BY <1>1, <1>2 DEF OnRing

LEMMA FirstNamesake ==
  ASSUME NEW q \in Seq(Client), NEW nm, NEW c, Namesakes(q, nm, c) # {}
  PROVE  q[Min(Namesakes(q, nm, c))] \in ToSet(q) \ {c}
<1> DEFINE T == Namesakes(q, nm, c)
<1>1. T \subseteq Nat /\ T \subseteq DOMAIN q /\ \A i \in T : q[i] # c
  BY DEF Namesakes
<1>2. Min(T) \in T
  <2> HIDE DEF T
  <2>1. T # {}
    BY DEF T
  <2>2. \E n \in T : \A m \in T : n <= m
    BY <1>1, <2>1, LeastOne
  <2> QED
    BY <2>2 DEF Min
<1> QED
  BY <1>1, <1>2 DEF ToSet

\* The classes after use_label: that of the client has been joined with that of another.
Joined(R, Q, q, c) ==
  \/ Q = R
  \/ \E s \in ToSet(q) \ {c} : Merged(R, Q, s, c)

LEMMA UseLabelInOrder ==
  ASSUME NEW q \in Seq(Client), NEW nm, NEW r \in RingRecord, NEW c \in Client, NEW R,
         Classes(R), InOrder(r.next, r.prev, r.inst, R), R[c] = {c},
         UseLabel(q, nm, r, c)
  PROVE  /\ failed' = failed
         /\ \E Q : /\ Classes(Q) /\ InOrder(label_next', label_prev', label_inst', Q)
                   /\ Joined(R, Q, q, c)
<1>1. CASE Namesakes(q, nm, c) = {}
  <2>1. failed' = failed /\ label_next' = r.next /\ label_prev' = r.prev /\ label_inst' = r.inst
    BY <1>1 DEF UseLabel, SetRings
  <2> QED
    BY <2>1 DEF Joined
<1>2. CASE Namesakes(q, nm, c) # {}
  <2> DEFINE s     == q[Min(Namesakes(q, nm, c))]
             place == FreePlace(r, s)
             p     == place.minp
             K     == R[s]
  <2>1. s \in ToSet(q) \ {c} /\ s \in Client
    BY <1>2, FirstNamesake DEF ToSet
  <2>2. K \in SUBSET Client /\ s \in K /\ c \notin K /\ \A d \in K : R[d] = K
    BY <2>1 DEF Classes
  <2>3. place.done /\ p \in K /\ place.mininst \in Nat /\ Gap(r.next, r.inst, p, place.mininst)
    <3> HIDE DEF s, K
    <3>1. OnRing(r.next, r.inst, K)
      BY <2>1, ClassIsRing DEF K
    <3> QED
      BY <2>2, <3>1, FindsAPlace
  <2>4. p # NULL /\ p \in Client /\ p # c
    BY <2>2, <2>3, LabelsAssumption
  <2>5. /\ failed' = failed
        /\ SetRings([r EXCEPT !.next[c] = r.next[p], !.prev[r.next[p]] = c, !.next[p] = c,
                              !.prev[c] = p, !.inst[c] = place.mininst])
    <3> USE DEF UseLabel
    <3>1. ~(~place.done \/ p = NULL)
      BY <2>3, <2>4
    <3> QED
      BY <1>2, <3>1 DEF UseLabel
  <2> HIDE DEF s, place, p, K
  <2>6. r.next \in [Client -> Client] /\ r.prev \in [Client -> Client] /\ r.inst \in [Client -> Nat]
        /\ r = [next |-> r.next, prev |-> r.prev, inst |-> r.inst]
    BY DEF RingRecord
  <2>7. /\ label_next' = [r.next EXCEPT ![c] = r.next[p], ![p] = c]
        /\ label_prev' = [r.prev EXCEPT ![r.next[p]] = c, ![c] = p]
        /\ label_inst' = [r.inst EXCEPT ![c] = place.mininst]
    BY <2>5, <2>6 DEF SetRings
  <2>8. R[p] = K /\ r.next[p] \in K /\ r.next[p] # c /\ r.next[p] \in Client
    <3>1. R[p] = K /\ r.next[p] \in R[p]
      BY <2>2, <2>3, <2>4 DEF InOrder
    <3> QED
      BY <2>2, <3>1
  <2>9. Linked(r.next, r.prev, r.inst, c, p, place.mininst, label_next', label_prev', label_inst')
    BY <2>3, <2>4, <2>6, <2>7, <2>8 DEF Linked
  <2>10. \E Q : /\ Classes(Q) /\ InOrder(label_next', label_prev', label_inst', Q)
                /\ Merged(R, Q, p, c)
    BY <2>3, <2>4, <2>9, EntersInOrder
  <2>11. PICK Q : /\ Classes(Q) /\ InOrder(label_next', label_prev', label_inst', Q)
                  /\ Merged(R, Q, p, c)
    BY <2>10
  <2>12. Merged(R, Q, s, c)
    BY <2>8, <2>11 DEF K, Merged
  <2>13. Joined(R, Q, q, c)
    BY <2>1, <2>12 DEF Joined
  <2> QED
    BY <2>5, <2>11, <2>13
<1> QED
  BY <1>1, <1>2

\* A record of the rings after client_unuse_label.
LEMMA UnuseLabelInOrder ==
  ASSUME NEW r \in RingRecord, NEW c \in Client, NEW R,
         Classes(R), InOrder(r.next, r.prev, r.inst, R)
  PROVE  LET u == UnuseLabel(r, c) IN
         /\ u \in RingRecord
         /\ \E Q : /\ Classes(Q) /\ InOrder(u.next, u.prev, u.inst, Q) /\ Q[c] = {c}
                   /\ \A d \in Client : Q[d] \subseteq R[d]
<1> DEFINE u  == UnuseLabel(r, c)
           nx == [d \in Client |-> IF d = c THEN c ELSE IF d = r.prev[c] THEN r.next[c] ELSE r.next[d]]
           pv == [d \in Client |-> IF d = c THEN c ELSE IF d = r.next[c] THEN r.prev[c] ELSE r.prev[d]]
           is == [d \in Client |-> IF d = c THEN 0 ELSE r.inst[d]]
<1>1. r.next \in [Client -> Client] /\ r.prev \in [Client -> Client] /\ r.inst \in [Client -> Nat]
      /\ r = [next |-> r.next, prev |-> r.prev, inst |-> r.inst]
  BY DEF RingRecord
<1>2. u = [next |-> [r.next EXCEPT ![r.prev[c]] = r.next[c], ![c] = c],
           prev |-> [r.prev EXCEPT ![r.next[c]] = r.prev[c], ![c] = c],
           inst |-> [r.inst EXCEPT ![c] = 0]]
  BY DEF UnuseLabel
<1> HIDE DEF u
<1>3. u = [next |-> nx, prev |-> pv, inst |-> is]
  BY <1>1, <1>2
<1>4. u \in RingRecord /\ u.next = nx /\ u.prev = pv /\ u.inst = is
  BY <1>1, <1>3 DEF RingRecord
<1>5. \E Q : /\ Classes(Q) /\ InOrder(nx, pv, is, Q) /\ Q[c] = {c}
             /\ \A d \in Client : Q[d] \subseteq R[d]
  <2>1. Unlinked(r.next, r.prev, r.inst, c, nx, pv, is)
    BY <1>1 DEF Unlinked
  <2> HIDE DEF nx, pv, is
  <2> QED
    BY <2>1, LeavesInOrder
<1> QED
  BY <1>4, <1>5 DEF u

-----------------------------------------------------------------------------
(* The invariant. *)

\* The rings go through classes of clients, and a client that is not managed is alone.
Rounds ==
  \E R : /\ Classes(R) /\ InOrder(label_next, label_prev, label_inst, R)
         /\ \A c \in Client \ Managed : R[c] = {c}

LabelsInv == TypeOK /\ failed = FALSE /\ Rounds

LEMMA OthersStayAlone ==
  ASSUME NEW q \in Seq(Client), NEW c \in ToSet(q), NEW R, NEW Q, Classes(R), Joined(R, Q, q, c),
         \A d \in Client \ ToSet(q) : R[d] = {d}
  PROVE  \A d \in Client \ ToSet(q) : Q[d] = {d}
<1>1. CASE Q = R
  BY <1>1
<1>2. ASSUME NEW s \in ToSet(q) \ {c}, Merged(R, Q, s, c)
      PROVE  \A d \in Client \ ToSet(q) : Q[d] = {d}
  <2>1. s \in Client
    BY DEF ToSet
  <2> SUFFICES ASSUME NEW d \in Client \ ToSet(q) PROVE Q[d] = {d}
    OBVIOUS
  <2>2. d # c /\ d # s /\ R[d] = {d}
    OBVIOUS
  <2>3. d \notin R[s]
    BY <2>1, <2>2 DEF Classes
  <2> QED
    BY <1>2, <2>2, <2>3 DEF Merged
<1> QED
  BY <1>1, <1>2 DEF Joined

LEMMA RemoveAtType ==
  ASSUME NEW S, NEW s \in Seq(S), NEW i \in DOMAIN s
  PROVE  /\ RemoveAt(s, i) \in Seq(S) /\ Len(RemoveAt(s, i)) = Len(s) - 1
         /\ \A j \in 1..Len(s) - 1 : RemoveAt(s, i)[j] = IF j < i THEN s[j] ELSE s[j + 1]
<1> DEFINE a == SubSeq(s, 1, i - 1)
           b == SubSeq(s, i + 1, Len(s))
<1>1. Len(s) \in Nat /\ i \in 1..Len(s)
  OBVIOUS
<1>2. a \in Seq(S) /\ Len(a) = i - 1 /\ \A j \in 1..i - 1 : a[j] = s[j]
  BY <1>1
<1>3. b \in Seq(S) /\ Len(b) = Len(s) - i /\ \A j \in 1..Len(s) - i : b[j] = s[j + i]
  BY <1>1
<1>4. RemoveAt(s, i) = a \o b
  BY DEF RemoveAt
<1> HIDE DEF a, b
<1>5. a \o b \in Seq(S) /\ Len(a \o b) = Len(s) - 1
  BY <1>1, <1>2, <1>3
<1>6. ASSUME NEW j \in 1..Len(s) - 1 PROVE (a \o b)[j] = IF j < i THEN s[j] ELSE s[j + 1]
  <2>1. CASE j < i
    BY <1>1, <1>2, <1>3, <2>1
  <2>2. CASE ~(j < i)
    <3>1. j - (i - 1) \in 1..Len(s) - i /\ (j - (i - 1)) + i = j + 1
      BY <1>1, <2>2
    <3>2. (a \o b)[j] = b[j - (i - 1)]
      BY <1>1, <1>2, <1>3, <2>2
    <3> QED
      BY <1>3, <2>2, <3>1, <3>2
  <2> QED
    BY <2>1, <2>2
<1> QED
  BY <1>4, <1>5, <1>6

\* The list of clients without the one at n.
LEMMA RemoveOne ==
  ASSUME NEW q \in Seq(Client), IsInjective(q), NEW n \in DOMAIN q
  PROVE  /\ RemoveAt(q, n) \in Seq(Client) /\ IsInjective(RemoveAt(q, n))
         /\ ToSet(RemoveAt(q, n)) = ToSet(q) \ {q[n]}
<1> DEFINE r == RemoveAt(q, n)
<1>1. /\ r \in Seq(Client) /\ Len(r) = Len(q) - 1 /\ Len(q) \in Nat /\ n \in 1..Len(q)
      /\ \A j \in 1..Len(q) - 1 : r[j] = IF j < n THEN q[j] ELSE q[j + 1]
  BY RemoveAtType
<1>2. \A i, j \in 1..Len(q) : q[i] = q[j] => i = j
  BY DEF IsInjective
<1> HIDE DEF r
<1>3. ASSUME NEW i \in 1..Len(r), NEW j \in 1..Len(r), r[i] = r[j] PROVE i = j
  BY <1>1, <1>2, <1>3
<1>4. IsInjective(r)
  BY <1>1, <1>3 DEF IsInjective
<1>5. ASSUME NEW j \in 1..Len(r) PROVE r[j] \in ToSet(q) \ {q[n]}
  BY <1>1, <1>2 DEF ToSet
<1>6. ASSUME NEW i \in 1..Len(q), i # n PROVE \E j \in 1..Len(r) : r[j] = q[i]
  <2>1. CASE i < n
    BY <1>1, <2>1
  <2>2. CASE n < i
    <3>1. i - 1 \in 1..Len(r) /\ ~(i - 1 < n) /\ (i - 1) + 1 = i
      BY <1>1, <2>2
    <3> QED
      BY <1>1, <3>1
  <2> QED
    BY <1>1, <1>6, <2>1, <2>2
<1>7. ToSet(r) = ToSet(q) \ {q[n]}
  <2>1. \A e \in ToSet(r) : e \in ToSet(q) \ {q[n]}
    BY <1>1, <1>5 DEF ToSet
  <2>2. ASSUME NEW e \in ToSet(q), e # q[n] PROVE e \in ToSet(r)
    <3>1. PICK i \in 1..Len(q) : q[i] = e
      BY <1>1 DEF ToSet
    <3>2. \E j \in 1..Len(r) : r[j] = e
      BY <1>6, <2>2, <3>1
    <3> QED
      BY <1>1, <3>2 DEF ToSet
  <2> QED
    BY <2>1, <2>2
<1> QED
  BY <1>1, <1>4, <1>7 DEF r

LEMMA LabelsInit == Init => LabelsInv
<1> SUFFICES ASSUME Init PROVE LabelsInv
  OBVIOUS
<1>1. TypeOK
  BY DEF Init, TypeOK, Managed, ToSet, IsInjective
<1> DEFINE R == [c \in Client |-> {c}]
<1>2. Classes(R)
  BY DEF Classes
<1>3. InOrder(label_next, label_prev, label_inst, R)
  BY DEF Init, InOrder, Follows
<1>4. \A c \in Client \ Managed : R[c] = {c}
  OBVIOUS
<1>5. Rounds
  <2> HIDE DEF R
  <2> QED
    BY <1>2, <1>3, <1>4 DEF Rounds
<1> QED
  BY <1>1, <1>5 DEF LabelsInv, Init

\* What the operations start from.
LEMMA LabelsInvParts ==
  ASSUME LabelsInv
  PROVE  /\ list \in Seq(Client) /\ IsInjective(list)
         /\ names \in [Client -> Seq(Name)] /\ \A c \in Client : names[c] # <<>> <=> c \in Managed
         /\ Rings \in RingRecord /\ Managed \subseteq Client
         /\ failed = FALSE
         /\ \E R : /\ Classes(R) /\ InOrder(Rings.next, Rings.prev, Rings.inst, R)
                   /\ \A c \in Client \ Managed : R[c] = {c}
<1>1. /\ list \in Seq(Client) /\ IsInjective(list)
      /\ names \in [Client -> Seq(Name)] /\ \A c \in Client : names[c] # <<>> <=> c \in Managed
      /\ failed = FALSE
  BY DEF LabelsInv, TypeOK
<1>2. Managed \subseteq Client
  BY <1>1 DEF Managed, ToSet
<1>3. /\ Rings.next = label_next /\ Rings.prev = label_prev /\ Rings.inst = label_inst
      /\ Rings \in RingRecord
  BY DEF LabelsInv, TypeOK, Rings, RingRecord
<1>4. \E R : /\ Classes(R) /\ InOrder(label_next, label_prev, label_inst, R)
             /\ \A c \in Client \ Managed : R[c] = {c}
  BY DEF LabelsInv, Rounds
<1> QED
  BY <1>1, <1>2, <1>3, <1>4

LEMMA NewClientStep ==
  ASSUME LabelsInv, NEW c \in Client, NEW t \in Name, NewClient(c, t)
  PROVE  LabelsInv'
<1>1. /\ list \in Seq(Client) /\ IsInjective(list)
      /\ names \in [Client -> Seq(Name)] /\ \A d \in Client : names[d] # <<>> <=> d \in Managed
      /\ Rings \in RingRecord /\ Managed \subseteq Client /\ failed = FALSE
  BY LabelsInvParts
<1>2. PICK R : /\ Classes(R) /\ InOrder(Rings.next, Rings.prev, Rings.inst, R)
               /\ \A d \in Client \ Managed : R[d] = {d}
  BY LabelsInvParts
<1>3. /\ c \notin Managed /\ list' = Append(list, c) /\ names' = [names EXCEPT ![c] = <<t>>]
      /\ UseLabel(list', names', Rings, c)
  BY DEF NewClient
<1>4. list' \in Seq(Client) /\ IsInjective(list') /\ Managed' = Managed \cup {c}
  <2>1. /\ list' \in Seq(Client) /\ Len(list') = Len(list) + 1 /\ Len(list) \in Nat
        /\ list'[Len(list) + 1] = c /\ \A i \in 1..Len(list) : list'[i] = list[i]
    BY <1>1, <1>3
  <2>2. \A i \in 1..Len(list) : list[i] \in Managed
    BY <1>1 DEF Managed, ToSet
  <2>3. \A i, j \in 1..Len(list) : list[i] = list[j] => i = j
    BY <1>1 DEF IsInjective
  <2>4. \A i, j \in 1..Len(list') : list'[i] = list'[j] => i = j
    BY <1>3, <2>1, <2>2, <2>3
  <2>5. IsInjective(list')
    BY <2>1, <2>4 DEF IsInjective
  <2>6. \A e \in Managed' : e \in Managed \cup {c}
    BY <2>1 DEF Managed, ToSet
  <2>7. \A e \in Managed : e \in Managed'
    BY <2>1 DEF Managed, ToSet
  <2>8. c \in Managed'
    BY <2>1 DEF Managed, ToSet
  <2> QED
    BY <2>1, <2>5, <2>6, <2>7, <2>8
<1>5. names' \in [Client -> Seq(Name)] /\ \A d \in Client : names'[d] # <<>> <=> d \in Managed'
  BY <1>1, <1>3, <1>4
<1>6. PICK Q : /\ Classes(Q) /\ InOrder(label_next', label_prev', label_inst', Q)
               /\ Joined(R, Q, list', c)
  BY <1>1, <1>2, <1>3, <1>4, UseLabelInOrder
<1>7. failed' = failed
  BY <1>1, <1>2, <1>3, <1>4, UseLabelInOrder
<1>8. \A d \in Client \ Managed' : Q[d] = {d}
  <2>1. c \in ToSet(list') /\ Managed' = ToSet(list')
    BY <1>4 DEF Managed
  <2>2. \A d \in Client \ ToSet(list') : R[d] = {d}
    BY <1>2, <1>4, <2>1
  <2> QED
    BY <1>2, <1>4, <1>6, <2>1, <2>2, OthersStayAlone
<1>9. Rounds'
  BY <1>6, <1>8 DEF Rounds
<1>10. TypeOK'
  BY <1>4, <1>5, <1>6 DEF TypeOK, InOrder
<1> QED
  BY <1>1, <1>7, <1>9, <1>10 DEF LabelsInv

LEMMA AddWindowStep ==
  ASSUME LabelsInv, NEW c \in Client, NEW t \in Name, AddWindow(c, t)
  PROVE  LabelsInv'
<1>1. /\ c \in Managed /\ names' = [names EXCEPT ![c] = Append(@, t)]
      /\ UNCHANGED <<list, label_next, label_prev, label_inst, failed>>
  BY DEF AddWindow
<1>2. names \in [Client -> Seq(Name)] /\ \A d \in Client : names[d] # <<>> <=> d \in Managed
  BY LabelsInvParts
<1>3. names' \in [Client -> Seq(Name)] /\ \A d \in Client : names'[d] # <<>> <=> d \in Managed
  BY <1>1, <1>2
<1>4. Managed' = Managed
  BY <1>1 DEF Managed
<1> QED
  BY <1>1, <1>3, <1>4 DEF LabelsInv, TypeOK, Rounds

LEMMA RemoveWindowStep ==
  ASSUME LabelsInv, NEW c \in Client, NEW i \in 1..MaxWindows, RemoveWindow(c, i)
  PROVE  LabelsInv'
<1>1. /\ list \in Seq(Client) /\ IsInjective(list)
      /\ names \in [Client -> Seq(Name)] /\ \A d \in Client : names[d] # <<>> <=> d \in Managed
      /\ Rings \in RingRecord /\ Managed \subseteq Client /\ failed = FALSE
  BY LabelsInvParts
<1>2. PICK R : /\ Classes(R) /\ InOrder(Rings.next, Rings.prev, Rings.inst, R)
               /\ \A d \in Client \ Managed : R[d] = {d}
  BY LabelsInvParts
<1>3. /\ c \in Managed /\ i \in DOMAIN names[c] /\ names' = [names EXCEPT ![c] = RemoveAt(@, i)]
      /\ failed' = failed
  BY DEF RemoveWindow
<1>4. RemoveAt(names[c], i) \in Seq(Name) /\ (RemoveAt(names[c], i) # <<>> <=> Len(names[c]) # 1)
  <2>1. names[c] \in Seq(Name) /\ Len(names[c]) \in Nat
    BY <1>1
  <2>2. RemoveAt(names[c], i) \in Seq(Name) /\ Len(RemoveAt(names[c], i)) = Len(names[c]) - 1
    BY <1>3, <2>1, RemoveAtType
  <2> DEFINE r == RemoveAt(names[c], i)
  <2> HIDE DEF r
  <2>3. r \in Seq(Name) /\ Len(r) = Len(names[c]) - 1
    BY <2>2 DEF r
  <2>4. r # <<>> <=> Len(r) # 0
    <3>1. Len(r) = 0 => r = <<>>
      BY <2>3
    <3>2. r = <<>> => Len(r) = 0
      OBVIOUS
    <3> QED
      BY <3>1, <3>2
  <2>5. r # <<>> <=> Len(names[c]) # 1
    BY <2>1, <2>3, <2>4
  <2> QED
    BY <2>3, <2>5 DEF r
<1>5. /\ names' \in [Client -> Seq(Name)]
      /\ \A d \in Client : d # c => names'[d] = names[d]
      /\ names'[c] # <<>> <=> Len(names[c]) # 1
  BY <1>1, <1>3, <1>4
<1>6. CASE Len(names[c]) = 1
  <2> DEFINE n == CHOOSE m \in DOMAIN list : list[m] = c
             u == UnuseLabel(Rings, c)
  <2>1. list' = RemoveAt(list, n) /\ SetRings(u)
    BY <1>6 DEF RemoveWindow
  <2>2. n \in DOMAIN list /\ list[n] = c
    <3>1. \E m \in DOMAIN list : list[m] = c
      BY <1>3 DEF Managed, ToSet
    <3> QED
      BY <3>1
  <2> HIDE DEF n, u
  <2>3. list' \in Seq(Client) /\ IsInjective(list') /\ Managed' = Managed \ {c}
    BY <1>1, <2>1, <2>2, RemoveOne DEF Managed
  <2>4. \E Q : /\ Classes(Q) /\ InOrder(u.next, u.prev, u.inst, Q) /\ Q[c] = {c}
               /\ \A d \in Client : Q[d] \subseteq R[d]
    BY <1>1, <1>2, UnuseLabelInOrder DEF u
  <2>5. PICK Q : /\ Classes(Q) /\ InOrder(u.next, u.prev, u.inst, Q) /\ Q[c] = {c}
                 /\ \A d \in Client : Q[d] \subseteq R[d]
    BY <2>4
  <2>6. \A d \in Client \ Managed' : Q[d] = {d}
    BY <1>2, <2>3, <2>5 DEF Classes
  <2>7. label_next' = u.next /\ label_prev' = u.prev /\ label_inst' = u.inst
    BY <2>1 DEF SetRings
  <2>8. Rounds'
    BY <2>5, <2>6, <2>7 DEF Rounds
  <2>9. ASSUME NEW d \in Client PROVE names'[d] # <<>> <=> d \in Managed'
    <3>1. CASE d = c
      <4>1. names'[c] = <<>>
        BY <1>5, <1>6
      <4>2. c \notin Managed'
        BY <2>3
      <4> QED
        BY <3>1, <4>1, <4>2
    <3>2. CASE d # c
      <4>1. d \in Managed' <=> d \in Managed
        BY <2>3, <3>2
      <4> QED
        BY <1>1, <1>5, <3>2, <4>1
    <3> QED
      BY <3>1, <3>2
  <2>10. TypeOK'
    BY <1>5, <2>3, <2>5, <2>7, <2>9 DEF TypeOK, InOrder
  <2> QED
    BY <1>1, <1>3, <2>8, <2>10 DEF LabelsInv
<1>7. CASE Len(names[c]) # 1
  <2>1. UNCHANGED <<list, label_next, label_prev, label_inst>>
    BY <1>7 DEF RemoveWindow
  <2>2. Managed' = Managed
    BY <2>1 DEF Managed
  <2>3. ASSUME NEW d \in Client PROVE names'[d] # <<>> <=> d \in Managed
    <3>1. CASE d = c
      <4>1. names'[c] # <<>>
        BY <1>5, <1>7
      <4> QED
        BY <1>3, <3>1, <4>1
    <3>2. CASE d # c
      BY <1>1, <1>5, <3>2
    <3> QED
      BY <3>1, <3>2
  <2> QED
    BY <1>3, <1>5, <2>1, <2>2, <2>3 DEF LabelsInv, TypeOK, Rounds
<1> QED
  BY <1>6, <1>7

LEMMA SetNameStep ==
  ASSUME LabelsInv, NEW c \in Client, NEW i \in 1..MaxWindows, NEW t \in Titles, SetName(c, i, t)
  PROVE  LabelsInv'
<1>1. /\ list \in Seq(Client) /\ IsInjective(list)
      /\ names \in [Client -> Seq(Name)] /\ \A d \in Client : names[d] # <<>> <=> d \in Managed
      /\ Rings \in RingRecord /\ Managed \subseteq Client /\ failed = FALSE
  BY LabelsInvParts
<1>2. PICK R : /\ Classes(R) /\ InOrder(Rings.next, Rings.prev, Rings.inst, R)
               /\ \A d \in Client \ Managed : R[d] = {d}
  BY LabelsInvParts
<1>3. /\ c \in Managed /\ i \in DOMAIN names[c] /\ names' = [names EXCEPT ![c][i] = t] /\ list' = list
  BY DEF SetName
<1>4. Managed' = Managed
  BY <1>3 DEF Managed
<1>5. names' \in [Client -> Seq(Name)] /\ \A d \in Client : names'[d] # <<>> <=> d \in Managed
  <2>1. names[c] \in Seq(Name) /\ names[c] # <<>> /\ t \in Name
    BY <1>1, <1>3 DEF Name
  <2>2. [names[c] EXCEPT ![i] = t] \in Seq(Name) /\ [names[c] EXCEPT ![i] = t] # <<>>
    BY <1>3, <2>1
  <2> QED
    BY <1>1, <1>3, <2>1, <2>2
<1>6. CASE i = 1
  <2> DEFINE u == UnuseLabel(Rings, c)
  <2>1. UseLabel(list, names', u, c)
    BY <1>6 DEF SetName
  <2>2. /\ u \in RingRecord
        /\ \E Q : /\ Classes(Q) /\ InOrder(u.next, u.prev, u.inst, Q) /\ Q[c] = {c}
                  /\ \A d \in Client : Q[d] \subseteq R[d]
    BY <1>1, <1>2, UnuseLabelInOrder
  <2> HIDE DEF u
  <2>3. PICK P : /\ Classes(P) /\ InOrder(u.next, u.prev, u.inst, P) /\ P[c] = {c}
                 /\ \A d \in Client : P[d] \subseteq R[d]
    BY <2>2
  <2>4. PICK Q : /\ Classes(Q) /\ InOrder(label_next', label_prev', label_inst', Q)
                 /\ Joined(P, Q, list, c)
    BY <1>1, <2>1, <2>2, <2>3, UseLabelInOrder
  <2>5. failed' = failed
    BY <1>1, <2>1, <2>2, <2>3, UseLabelInOrder
  <2>6. \A d \in Client \ Managed' : Q[d] = {d}
    <3>1. c \in ToSet(list) /\ Managed' = ToSet(list)
      BY <1>3, <1>4 DEF Managed
    <3>2. \A d \in Client \ ToSet(list) : P[d] = {d}
      BY <1>2, <1>4, <2>3, <3>1 DEF Classes
    <3>3. \A d \in Client \ ToSet(list) : Q[d] = {d}
      BY SMTT(30), <1>1, <2>3, <2>4, <3>1, <3>2, OthersStayAlone
    <3> QED
      BY <3>1, <3>3
  <2>7. Rounds'
    BY <2>4, <2>6 DEF Rounds
  <2>8. TypeOK'
    BY <1>1, <1>3, <1>4, <1>5, <2>4 DEF TypeOK, InOrder
  <2> QED
    BY <1>1, <2>5, <2>7, <2>8 DEF LabelsInv
<1>7. CASE i # 1
  <2>1. UNCHANGED <<list, label_next, label_prev, label_inst, failed>>
    BY <1>3, <1>7 DEF SetName
  <2> QED
    BY <1>4, <1>5, <2>1 DEF LabelsInv, TypeOK, Rounds
<1> QED
  BY <1>6, <1>7

LEMMA LabelsStep == LabelsInv /\ [Next]_vars => LabelsInv'
<1> SUFFICES ASSUME LabelsInv, [Next]_vars PROVE LabelsInv'
  OBVIOUS
<1>1. CASE UNCHANGED vars
  <2>1. Managed' = Managed
    BY <1>1 DEF vars, Managed
  <2> QED
    BY <1>1, <2>1 DEF vars, LabelsInv, TypeOK, Rounds
<1>2. CASE Next
  BY <1>2, NewClientStep, AddWindowStep, RemoveWindowStep, SetNameStep DEF Next
<1> QED
  BY <1>1, <1>2

\* What Ring(c) has after k rounds, which f has taken.
Reach(c, k, f) ==
  [n \in 0..k |-> IF n = 0 THEN {c} ELSE f[n - 1] \cup {label_next[d] : d \in f[n - 1]}]

LEMMA RingIsReach ==
  ASSUME NEW c
  PROVE  Ring(c) = (CHOOSE f : f = Reach(c, Cardinality(Client), f))[Cardinality(Client)]
BY Zenon DEF Ring, Reach

LEMMA ReachExists ==
  ASSUME NEW c, NEW M \in Nat
  PROVE  \E f : f = Reach(c, M, f)
<1> DEFINE More(s) == s \cup {label_next[d] : d \in s}
           T == {k \in Nat : \E f : f = Reach(c, k, f)}
<1>1. 0 \in T
  <2>1. [n \in 0..0 |-> {c}] = Reach(c, 0, [n \in 0..0 |-> {c}])
    BY DEF Reach
  <2> QED
    BY <2>1
<1>2. ASSUME NEW k \in 0..M, k \in T PROVE k + 1 \in T
  <2>1. PICK f : f = Reach(c, k, f)
    BY <1>2
  <2> DEFINE g == [n \in 0..k + 1 |-> IF n = k + 1 THEN More(f[k]) ELSE f[n]]
  <2>2. \A n \in 0..k : f[n] = IF n = 0 THEN {c} ELSE More(f[n - 1])
    <3>1. \A n \in 0..k : Reach(c, k, f)[n] = IF n = 0 THEN {c} ELSE More(f[n - 1])
      BY Zenon DEF Reach
    <3> HIDE DEF More
    <3> QED
      BY <2>1, <3>1
  <2> HIDE DEF More
  <2>3. g[k] = f[k] /\ \A n \in 0..k : n # 0 => g[n - 1] = f[n - 1]
    OBVIOUS
  <2>4. ASSUME NEW n \in 0..k + 1
        PROVE  g[n] = IF n = 0 THEN {c} ELSE More(g[n - 1])
    <3>1. CASE n = k + 1
      <4>1. g[n] = More(f[k]) /\ n # 0 /\ n - 1 = k
        BY <3>1
      <4> HIDE DEF g
      <4> QED
        BY <2>3, <4>1
    <3>2. CASE n # k + 1
      <4>1. n \in 0..k /\ g[n] = f[n]
        BY <3>2
      <4> HIDE DEF g
      <4> QED
        BY <2>2, <2>3, <4>1
    <3> QED
      BY <3>1, <3>2
  <2>5. g = Reach(c, k + 1, g)
    <3>1. g = [n \in 0..k + 1 |-> g[n]]
      OBVIOUS
    <3> HIDE DEF g
    <3>2. g = [n \in 0..k + 1 |-> IF n = 0 THEN {c} ELSE More(g[n - 1])]
      BY <2>4, <3>1
    <3> QED
      BY <3>2 DEF Reach, More
  <2> QED
    BY <2>5
<1>3. M \in T
  <2> HIDE DEF T
  <2> QED
    BY <1>1, <1>2, Upwards
<1> QED
  BY <1>3

\* The ring of a client stays in its class.
LEMMA RingInClass ==
  ASSUME NEW R, Classes(R), InOrder(label_next, label_prev, label_inst, R), NEW c \in Client
  PROVE  Ring(c) \subseteq R[c]
<1> DEFINE N == Cardinality(Client)
           f == CHOOSE g : g = Reach(c, N, g)
<1>1. N \in Nat
  BY LabelsAssumption, FS_CardinalityType
<1>2. f = Reach(c, N, f)
  BY <1>1, ReachExists
<1>3. Ring(c) = f[N]
  BY Zenon, RingIsReach
<1> HIDE DEF f, N
<1>4. \A n \in 0..N : f[n] = IF n = 0 THEN {c} ELSE f[n - 1] \cup {label_next[d] : d \in f[n - 1]}
  <2>1. \A n \in 0..N : Reach(c, N, f)[n]
                        = IF n = 0 THEN {c} ELSE f[n - 1] \cup {label_next[d] : d \in f[n - 1]}
    BY Zenon DEF Reach
  <2> QED
    BY Zenon, <1>2, <2>1
<1>5. c \in R[c] /\ \A d \in R[c] : label_next[d] \in R[c]
  BY DEF Classes, InOrder
<1> DEFINE T == {n \in 0..N : f[n] \subseteq R[c]}
<1>6. 0 \in T
  <2>1. 0 \in 0..N
    BY <1>1
  <2>2. f[0] = {c}
    BY Zenon, <1>4, <2>1
  <2> QED
    BY <1>5, <2>1, <2>2
<1>7. ASSUME NEW n \in 0..N, n \in T, n < N PROVE n + 1 \in T
  <2>1. n + 1 \in 0..N /\ n + 1 # 0 /\ (n + 1) - 1 = n
    BY <1>1, <1>7
  <2>2. f[n + 1] = f[n] \cup {label_next[d] : d \in f[n]}
    BY <1>4, <2>1
  <2>3. f[n] \subseteq R[c]
    BY <1>7
  <2>4. f[n + 1] \subseteq R[c]
    BY <1>5, <2>2, <2>3
  <2> QED
    BY <2>1, <2>4
<1>8. N \in T
  <2> HIDE DEF T
  <2> QED
    BY <1>1, <1>6, <1>7, Upwards
<1> QED
  BY <1>3, <1>8

LEMMA LabelsInvInOrder == LabelsInv => RingsInOrder
<1> SUFFICES ASSUME LabelsInv PROVE RingsInOrder
  OBVIOUS
<1>1. TypeOK /\ ~failed
  BY DEF LabelsInv
<1>2. PICK R : /\ Classes(R) /\ InOrder(label_next, label_prev, label_inst, R)
               /\ \A c \in Client \ Managed : R[c] = {c}
  BY DEF LabelsInv, Rounds
<1>3. ASSUME NEW c \in Managed
      PROVE  /\ label_next[c] \in Managed
             /\ label_prev[label_next[c]] = c /\ label_next[label_prev[c]] = c
             /\ \A d \in Ring(c) : d # c => label_inst[d] # label_inst[c]
             /\ \/ label_inst[c] < label_inst[label_next[c]]
                \/ \A d \in Ring(c) : /\ label_inst[label_next[c]] <= label_inst[d]
                                      /\ label_inst[d] <= label_inst[c]
  <2>1. c \in Client /\ Managed \subseteq Client
    BY <1>1 DEF TypeOK, Managed, ToSet
  <2>2. Ring(c) \subseteq R[c]
    BY <1>2, <2>1, RingInClass
  <2>3. /\ label_next[c] \in R[c] /\ label_prev[label_next[c]] = c /\ label_next[label_prev[c]] = c
        /\ \A d \in R[c] : label_inst[d] = label_inst[c] => d = c
        /\ Follows(label_inst, R[c], c, label_next[c])
    BY <1>2, <2>1 DEF InOrder
  <2>4. label_next[c] \in Managed
    <3> DEFINE n == label_next[c]
    <3> SUFFICES ASSUME n \notin Managed PROVE FALSE
      OBVIOUS
    <3>1. n \in Client /\ R[n] = R[c] /\ c \in R[c]
      BY <1>2, <2>1, <2>3 DEF Classes
    <3>2. R[n] = {n}
      BY <1>2, <3>1
    <3> QED
      BY <3>1, <3>2
  <2>5. \/ label_inst[c] < label_inst[label_next[c]]
        \/ \A d \in R[c] : /\ label_inst[label_next[c]] <= label_inst[d]
                           /\ label_inst[d] <= label_inst[c]
    BY <2>3 DEF Follows
  <2> QED
    BY <2>2, <2>3, <2>4, <2>5
<1> QED
  BY <1>1, <1>3 DEF RingsInOrder

\* Whatever order clients come, go and are renamed in, use_label finds a number that is
\* free in the ring, and every ring stays closed and goes up in numbers once round.
THEOREM LabelsInOrder == Spec => []RingsInOrder
<1>1. Spec => []LabelsInv
  BY LabelsInit, LabelsStep, PTL DEF Spec
<1> QED
  BY <1>1, LabelsInvInOrder, PTL

=============================================================================
