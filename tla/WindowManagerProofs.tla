------------------------- MODULE WindowManagerProofs -------------------------
(***************************************************************************)
(* Theorems about WindowManager, for any number of windows, clients,       *)
(* frames and workspaces.                                                  *)
(*                                                                         *)
(* A handler calls several operators of ThingTree, and the tree is only    *)
(* half linked between two calls.  So the first part shows that every      *)
(* operator maps states of the tree to states of the tree; the second      *)
(* takes the invariant apart and says for each operator which parts it     *)
(* needs and which it restores; the third follows the handlers, and shows  *)
(* that they implement Placement.                                          *)
(***************************************************************************)
EXTENDS WindowManager, SequenceTheorems, TLAPS

-----------------------------------------------------------------------------
(* 1. The types of what the operators of ThingTree return. *)

LEMMA UnlinkType ==
  ASSUME NEW S, NEW q \in Seq(S), NEW e
  PROVE  Unlink(q, e) \in Seq(S)
BY DEF Unlink

LEMMA LinkAfterType ==
  ASSUME NEW S, NEW q \in Seq(S), NEW e, NEW x \in S
  PROVE  LinkAfter(q, e, x) \in Seq(S)
<1>1. \A i \in 1..Len(q) : /\ SubSeq(q, 1, i) \in Seq(S)
                           /\ SubSeq(q, i + 1, Len(q)) \in Seq(S)
  OBVIOUS
<1>2. \A i \in 1..Len(q) : Append(SubSeq(q, 1, i), x) \o SubSeq(q, i + 1, Len(q)) \in Seq(S)
  BY <1>1
<1> QED
  BY <1>2 DEF LinkAfter

LEMMA NextThingType ==
  ASSUME NEW S, NEW q \in Seq(S), NEW e
  PROVE  NextThing(q, e) \in S \cup {NULL}
BY DEF NextThing

LEMMA PrevThingType ==
  ASSUME NEW S, NEW q \in Seq(S), NEW e
  PROVE  PrevThing(q, e) \in S \cup {NULL}
BY DEF PrevThing

LEMMA SetFocusType ==
  ASSUME NEW s \in State, NEW t \in Things
  PROVE  SetFocus(s, t) \in State
BY DEF SetFocus, State

LEMMA CurrentClientOrFrameType ==
  ASSUME NEW s \in State
  PROVE  CurrentClientOrFrame(s) \in Things \cup {NULL}
BY DEF CurrentClientOrFrame, State, Things

LEMMA SetPreviousType ==
  ASSUME NEW s \in State, NEW t
  PROVE  SetPrevious(s, t) \in State
<1>1. \A p \in Things \cup {NULL} : [s EXCEPT !.prev = p] \in State
  BY DEF State
<1> QED
  BY <1>1, CurrentClientOrFrameType DEF SetPrevious

LEMMA ProtectType ==
  ASSUME NEW s \in State
  PROVE  Protect(s) \in State /\ Unprotect(s) \in State
<1>1. \A i \in Int : [s EXCEPT !.protect = i] \in State
  BY DEF State
<1>2. s.protect \in Int
  BY DEF State
<1> QED
  BY <1>1, <1>2 DEF Protect, Unprotect

LEMMA CheckFunctionThingType ==
  ASSUME NEW s \in State, NEW t, NEW p \in Things \cup {NULL}
  PROVE  CheckFunctionThing(s, t, p) \in State
<1>1. \A x \in Things \cup {NULL}, f \in Frame \cup {NULL} :
        [s EXCEPT !.fthing = x, !.fframe = f] \in State
  BY DEF State
<1>2. s.fthing \in Things \cup {NULL} /\ s.fframe \in Frame \cup {NULL}
  BY DEF State
<1> QED
  BY <1>1, <1>2 DEF CheckFunctionThing

LEMMA ForgetThingType ==
  ASSUME NEW s \in State, NEW t, NEW p \in Things \cup {NULL}
  PROVE  ForgetThing(s, t, p) \in State
<1>1. \A x, y \in Things \cup {NULL} : [s EXCEPT !.fnext = x, !.prev = y] \in State
  BY DEF State
<1>2. s.fnext \in Things \cup {NULL} /\ s.prev \in Things \cup {NULL}
  BY DEF State
<1> QED
  BY <1>1, <1>2 DEF ForgetThing

LEMMA SetStateType ==
  ASSUME NEW s \in State, NEW W, NEW st \in {"Normal", "Iconic", "Withdrawn"}
  PROVE  SetState(s, W, st) \in State
<1>1. \A q \in [Win -> {"Normal", "Iconic", "Withdrawn"}] : [s EXCEPT !.state = q] \in State
  BY DEF State
<1>2. [w \in Win |-> IF w \in W THEN st ELSE s.state[w]] \in [Win -> {"Normal", "Iconic", "Withdrawn"}]
  BY DEF State
<1> QED
  BY <1>1, <1>2 DEF SetState

LEMMA ShowHideType ==
  ASSUME NEW s \in State, NEW c
  PROVE  ShowClient(s, c) \in State /\ HideClient(s, c) \in State
BY SetStateType DEF ShowClient, HideClient

LEMMA SetCurType ==
  ASSUME NEW s \in State, NEW f \in Frame, NEW c \in Client \cup {NULL}
  PROVE  [s EXCEPT !.cur[f] = c] \in State
BY DEF State

-----------------------------------------------------------------------------
(* Switching, attaching and detaching. *)

LEMMA DoFrameSwitchClientType ==
  ASSUME NEW s \in State, NEW f \in Frame, NEW c \in Client
  PROVE  DoFrameSwitchClient(s, f, c) \in State
<1>1. c \in Things
  BY DEF Things
<1> QED
  BY <1>1, ShowHideType, SetPreviousType, SetFocusType, SetCurType DEF DoFrameSwitchClient

LEMMA FrameSwitchClientType ==
  ASSUME NEW s \in State, NEW f \in Frame, NEW c \in Client
  PROVE  FrameSwitchClient(s, f, c) \in State
BY DoFrameSwitchClientType DEF FrameSwitchClient

LEMMA FrameSwitchNextType ==
  ASSUME NEW s \in State, NEW f \in Frame
  PROVE  FrameSwitchNext(s, f) \in State /\ FrameSwitchPrev(s, f) \in State
<1>1. s.clients[f] \in Seq(Client)
  BY DEF State
<1>2. NextThing(s.clients[f], s.cur[f]) \in Client \cup {NULL}
  BY <1>1, NextThingType
<1>3. PrevThing(s.clients[f], s.cur[f]) \in Client \cup {NULL}
  BY <1>1, PrevThingType
<1>4. s.clients[f] # <<>> => Head(s.clients[f]) \in Client /\ Last(s.clients[f]) \in Client
  BY <1>1 DEF Last
<1> QED
  BY <1>2, <1>3, <1>4, FrameSwitchClientType DEF FrameSwitchNext, FrameSwitchPrev

LEMMA UnlinkClientType ==
  ASSUME NEW s \in State, NEW f \in Frame, NEW c \in Client
  PROVE  UnlinkClient(s, f, c) \in State
<1> DEFINE x == IF s.cur[f] = c THEN NULL ELSE s.cur[f]
           q == Unlink(s.clients[f], c)
           n == s.count[f] - 1
           r == [s EXCEPT !.cur[f] = x]
           t == [r EXCEPT !.clients[f] = q, !.count[f] = n]
<1>1. s.clients[f] \in Seq(Client) /\ s.cur[f] \in Client \cup {NULL} /\ s.count[f] \in Int
  BY DEF State
<1>2. x \in Client \cup {NULL} /\ q \in Seq(Client) /\ n \in Int
  BY <1>1, UnlinkType
<1> HIDE DEF x, q, n
<1>3. r \in State
  BY <1>2, SetCurType
<1>4. \A a \in State : [a EXCEPT !.clients[f] = q, !.count[f] = n] \in State
  BY ZenonT(30), <1>2 DEF State
<1>5. \A a \in State : [a EXCEPT !.frameOf[c] = NULL] \in State
  BY ZenonT(30) DEF State
<1>6. [t EXCEPT !.frameOf[c] = NULL] \in State
  BY <1>3, <1>4, <1>5, Zenon
<1>7. [s EXCEPT !.cur[f] = x, !.clients[f] = q, !.frameOf[c] = NULL, !.count[f] = n] \in State
  BY <1>6 DEF State
<1> QED
  BY <1>7 DEF UnlinkClient, x, q, n

LEMMA DetachClientType ==
  ASSUME NEW s \in State, NEW f \in Frame, NEW c \in Client
  PROVE  DetachClient(s, f, c) \in State
<1>1. s.clients[f] \in Seq(Client)
  BY DEF State
<1>2. Successor(s.clients[f], c) \in Client \cup {NULL}
  BY <1>1, NextThingType, PrevThingType DEF Successor
<1> QED
  BY <1>2, UnlinkClientType, DoFrameSwitchClientType DEF DetachClient

LEMMA LinkClientType ==
  ASSUME NEW s \in State, NEW f \in Frame, NEW c \in Client
  PROVE  LinkClient(s, f, c) \in State
<1>1. s.clients[f] \in Seq(Client) /\ s.count[f] \in Int
  BY DEF State
<1>2. LinkAfter(s.clients[f], s.cur[f], c) \in Seq(Client)
  BY <1>1, LinkAfterType
<1> DEFINE q == LinkAfter(s.clients[f], s.cur[f], c)
           n == s.count[f] + 1
<1>3. q \in Seq(Client) /\ n \in Int
  BY <1>1, <1>2
<1> HIDE DEF q, n
<1>4. [s EXCEPT !.clients[f] = q, !.frameOf[c] = f, !.count[f] = n] \in State
  BY <1>3 DEF State
<1> QED
  BY <1>4 DEF LinkClient, q, n

LEMMA AttachClientType ==
  ASSUME NEW s \in State, NEW f \in Frame, NEW c \in Client, NEW switchto \in BOOLEAN
  PROVE  AttachClient(s, f, c, switchto) \in State
<1> DEFINE d == IF s.frameOf[c] # NULL THEN DetachClient(s, s.frameOf[c], c) ELSE s
<1>1. s.frameOf[c] \in Frame \cup {NULL}
  BY DEF State
<1>2. d \in State
  BY <1>1, DetachClientType
<1> HIDE DEF d
<1>3. LinkClient(d, f, c) \in State
  BY <1>2, LinkClientType
<1> QED
  BY <1>3, DoFrameSwitchClientType, ShowHideType DEF AttachClient, d

-----------------------------------------------------------------------------
(* Inputs, workspaces and the goto functions. *)

LEMMA FrameSetInputType ==
  ASSUME NEW s \in State, NEW f \in Frame, NEW kind \in {"query", "message"}
  PROVE  FrameSetInput(s, f, kind) \in State
<1>1. [s EXCEPT !.input[f] = kind] \in State
  BY DEF State
<1>2. Input(f) \in Things
  BY DEF Things, Inputs
<1> QED
  BY <1>1, <1>2, SetFocusType DEF FrameSetInput

LEMMA DestroyInputType ==
  ASSUME NEW s \in State, NEW f \in Frame
  PROVE  DestroyInput(s, f) \in State
<1>1. f \in Things \cup {NULL}
  BY DEF Things
<1>2. \A r \in State : [r EXCEPT !.input[f] = NULL] \in State
  BY ZenonT(30) DEF State
<1> QED
  BY <1>1, <1>2, CheckFunctionThingType, ForgetThingType DEF DestroyInput

LEMMA GotoWsType ==
  ASSUME NEW s \in State, NEW cf \in Frame
  PROVE  GotoWs(s, cf) \in State
<1>1. \A r \in State : [r EXCEPT !.wswin = cf] \in State
  BY DEF State
<1>2. cf \in Things
  BY DEF Things
<1> QED
  BY <1>1, <1>2, SetPreviousType, SetFocusType DEF GotoWs

LEMMA SwitchWorkspaceType ==
  ASSUME NEW s \in State, NEW ws \in Ws, NEW cf \in Frame
  PROVE  SwitchWorkspace(s, ws, cf) \in State
<1>1. \A M \in SUBSET Frame : [s EXCEPT !.curws = ws, !.mapped = M] \in State
  BY DEF State
<1>2. \A x : FramesOf(s, x) \subseteq Frame
  BY DEF FramesOf
<1>3. s.mapped \subseteq Frame
  BY DEF State
<1>4. DoActivateWorkspace(s, ws) \in State
  BY <1>1, <1>2, <1>3 DEF DoActivateWorkspace
<1> QED
  BY <1>4, GotoWsType DEF SwitchWorkspace

LEMMA CreateWorkspaceType ==
  ASSUME NEW s \in State, NEW ws \in Ws, NEW f \in Frame
  PROVE  CreateWorkspace(s, ws, f) \in State
<1>1. \A q \in Seq(Ws) : [s EXCEPT !.workspaces = q, !.wsOf[f] = ws] \in State
  BY DEF State
<1>2. Append(s.workspaces, ws) \in Seq(Ws)
  BY DEF State
<1> QED
  BY <1>1, <1>2 DEF CreateWorkspace

LEMMA GotoWindowType ==
  ASSUME NEW s \in State, NEW f \in Frame, NEW cf \in Frame
  PROVE  GotoWindow(s, f, cf) \in State
<1>1. f \in Things /\ s.wsOf[f] \in Ws \cup {NULL}
  BY DEF Things, State
<1> QED
  BY <1>1, SetPreviousType, ProtectType, SwitchWorkspaceType, SetFocusType DEF GotoWindow

LEMMA GotoClientType ==
  ASSUME NEW s \in State, NEW c \in Client, NEW cf \in Frame
  PROVE  GotoClient(s, c, cf) \in State
<1>1. s.frameOf[c] \in Frame \cup {NULL}
  BY DEF State
<1> QED
  BY <1>1, SetPreviousType, ProtectType, GotoWindowType, FrameSwitchClientType DEF GotoClient

-----------------------------------------------------------------------------
(* Adding and destroying. *)

LEMMA ClientAddClientwinType ==
  ASSUME NEW s \in State, NEW c \in Client, NEW w \in Win
  PROVE  ClientAddClientwin(s, c, w) \in State
<1>1. \A q \in Seq(Win) : [s EXCEPT !.wins[c] = q, !.clientOf[w] = c] \in State
  BY DEF State
<1>2. Append(s.wins[c], w) \in Seq(Win)
  BY DEF State
<1>3. [s EXCEPT !.wins[c] = Append(@, w), !.clientOf[w] = c] \in State
  BY <1>1, <1>2
<1> QED
  BY <1>3, SetStateType DEF ClientAddClientwin

LEMMA DoDestroyClientwinType ==
  ASSUME NEW s \in State, NEW c \in Client, NEW w \in Win
  PROVE  DoDestroyClientwin(s, c, w) \in State
<1> DEFINE h == CheckFunctionThing(s, w, c)
           v == [h EXCEPT !.wins[c] = Unlink(@, w), !.clientOf[w] = NULL]
           u == SetState(v, {w}, "Withdrawn")
<1>1. c \in Things /\ Win \subseteq Things
  BY DEF Things
<1>2. h \in State
  BY <1>1, CheckFunctionThingType
<1> HIDE DEF h
<1>3. v \in State
  <2>1. \A q \in Seq(Win) : [h EXCEPT !.wins[c] = q, !.clientOf[w] = NULL] \in State
    BY <1>2 DEF State
  <2>2. h.wins[c] \in Seq(Win)
    BY <1>2 DEF State
  <2>3. Unlink(h.wins[c], w) \in Seq(Win)
    BY <2>2, UnlinkType
  <2> QED
    BY <2>1, <2>3
<1> HIDE DEF v
<1>4. u \in State
  BY <1>3, SetStateType
<1> HIDE DEF u
<1>5. u.wins[c] # <<>> => Last(u.wins[c]) \in Win
  BY <1>4 DEF State, Last
<1>6. u.wins[c] # <<>> => SetFocus(u, Last(u.wins[c])) \in State
  BY <1>1, <1>4, <1>5, SetFocusType
<1> QED
  BY <1>1, <1>4, <1>6, ForgetThingType DEF DoDestroyClientwin, h, v, u

LEMMA DoDestroyClientType ==
  ASSUME NEW s \in State, NEW c \in Client
  PROVE  DoDestroyClient(s, c) \in State
<1> DEFINE f == s.frameOf[c]
           h == CheckFunctionThing(s, c, f)
           d == IF f # NULL THEN DetachClient(h, f, c) ELSE h
<1>1. f \in Frame \cup {NULL} /\ f \in Things \cup {NULL}
  BY DEF State, Things
<1>2. d \in State
  BY <1>1, CheckFunctionThingType, DetachClientType
<1> HIDE DEF f, d
<1>3. d.list \in Seq(Client) /\ d.tagged \subseteq Client
  BY <1>2 DEF State
<1>4. Unlink(d.list, c) \in Seq(Client) /\ d.tagged \ {c} \subseteq Client
  BY <1>3, UnlinkType
<1>5. \A q \in Seq(Client), T \in SUBSET Client : [d EXCEPT !.list = q, !.tagged = T] \in State
  BY <1>2 DEF State
<1>6. [d EXCEPT !.list = Unlink(@, c), !.tagged = @ \ {c}] \in State
  BY <1>4, <1>5
<1> QED
  BY <1>1, <1>6, ForgetThingType DEF DoDestroyClient, f, d

LEMMA DestroyClientwinType ==
  ASSUME NEW s \in State, NEW c \in Client, NEW w \in Win
  PROVE  DestroyClientwin(s, c, w) \in State
BY DoDestroyClientwinType, DoDestroyClientType DEF DestroyClientwin

LEMMA DoDestroyFrameType ==
  ASSUME NEW s \in State, NEW f \in Frame
  PROVE  DoDestroyFrame(s, f) \in State
<1> DEFINE ws == s.wsOf[f]
           h  == CheckFunctionThing(s, f, ws)
           i  == IF h.input[f] # NULL THEN DestroyInput(h, f) ELSE h
           u  == [i EXCEPT !.wsOf[f] = NULL,
                           !.mapped  = @ \ {f},
                           !.wswin   = IF @ = f THEN NULL ELSE @]
<1>1. ws \in Things \cup {NULL}
  BY DEF State, Things
<1>2. i \in State
  BY <1>1, CheckFunctionThingType, DestroyInputType
<1> HIDE DEF ws, i
<1>3. i.mapped \ {f} \in SUBSET Frame /\ (IF i.wswin = f THEN NULL ELSE i.wswin) \in Frame \cup {NULL}
  BY <1>2 DEF State
<1>4. \A M \in SUBSET Frame, g \in Frame \cup {NULL} :
        [i EXCEPT !.wsOf[f] = NULL, !.mapped = M, !.wswin = g] \in State
  BY <1>2 DEF State
<1>5. u \in State
  BY <1>3, <1>4
<1> HIDE DEF u
<1> QED
  BY <1>1, <1>5, ForgetThingType DEF DoDestroyFrame, ws, i, u

LEMMA DoDestroyWorkspaceType ==
  ASSUME NEW s \in State, NEW ws, NEW cf \in Frame
  PROVE  DoDestroyWorkspace(s, ws, cf) \in State
<1> DEFINE h == CheckFunctionThing(s, ws, Screen)
           u == [h EXCEPT !.workspaces = Unlink(@, ws)]
           n == [u EXCEPT !.curws = NULL]
<1>1. Screen \in Things \cup {NULL}
  BY DEF Things
<1>2. h \in State
  BY <1>1, CheckFunctionThingType
<1> HIDE DEF h
<1>3. Unlink(h.workspaces, ws) \in Seq(Ws)
  <2>1. h.workspaces \in Seq(Ws)
    BY <1>2 DEF State
  <2> QED
    BY <2>1, UnlinkType
<1>4. \A q \in Seq(Ws) : [h EXCEPT !.workspaces = q] \in State
  BY <1>2 DEF State
<1>5. u \in State
  BY <1>3, <1>4
<1> HIDE DEF u
<1>6. n \in State
  BY <1>5 DEF State
<1>7. u.workspaces # <<>> => Head(u.workspaces) \in Ws
  BY <1>5 DEF State
<1>8. u.workspaces # <<>> => SwitchWorkspace(n, Head(u.workspaces), cf) \in State
  BY <1>6, <1>7, SwitchWorkspaceType
<1> QED
  BY <1>1, <1>5, <1>6, <1>8, ForgetThingType DEF DoDestroyWorkspace, h, u, n

LEMMA DestroyFrameType ==
  ASSUME NEW s \in State, NEW f \in Frame, NEW cf \in Frame
  PROVE  DestroyFrame(s, f, cf) \in State
BY DoDestroyFrameType, DoDestroyWorkspaceType DEF DestroyFrame

-----------------------------------------------------------------------------
(* 2. The invariant of the tree, and what every operator keeps of it. *)

(* Sequences without duplicates, as sets. *)

LEMMA ElementFacts ==
  ASSUME NEW S, NEW q \in Seq(S)
  PROVE  /\ ToSet(q) \subseteq S
         /\ \A x : x \in ToSet(q) <=> \E k \in 1 .. Len(q) : q[k] = x
         /\ \A k \in 1 .. Len(q) : q[k] \in ToSet(q)
         /\ IsInjective(q) <=> \A j, k \in 1 .. Len(q) : q[j] = q[k] => j = k
         /\ (q = <<>>) <=> (ToSet(q) = {})
<1>1. Len(q) \in Nat /\ DOMAIN q = 1 .. Len(q) /\ \A k \in 1 .. Len(q) : q[k] \in S
  OBVIOUS
<1>2. /\ ToSet(q) \subseteq S
      /\ \A x : x \in ToSet(q) <=> \E k \in 1 .. Len(q) : q[k] = x
  BY <1>1 DEF ToSet
<1>3. IsInjective(q) <=> \A j, k \in 1 .. Len(q) : q[j] = q[k] => j = k
  BY <1>1, Zenon DEF IsInjective
<1>4. q # <<>> => 1 \in 1 .. Len(q)
  BY <1>1, EmptySeq
<1>5. q = <<>> => ToSet(q) = {}
  BY DEF ToSet
<1> QED
  BY <1>2, <1>3, <1>4, <1>5

LEMMA UnlinkFacts ==
  ASSUME NEW S, NEW q \in Seq(S), IsInjective(q), NEW e
  PROVE  /\ Unlink(q, e) \in Seq(S)
         /\ IsInjective(Unlink(q, e))
         /\ ToSet(Unlink(q, e)) = ToSet(q) \ {e}
         /\ Len(Unlink(q, e)) = IF e \in ToSet(q) THEN Len(q) - 1 ELSE Len(q)
<1>1. CASE \E i \in 1 .. Len(q) : q[i] = e
  <2> DEFINE i == CHOOSE i \in 1 .. Len(q) : q[i] = e
             r == Unlink(q, e)
  <2>1. i \in 1 .. Len(q) /\ q[i] = e
    BY <1>1
  <2>2. r = SubSeq(q, 1, i - 1) \o SubSeq(q, i + 1, Len(q))
    BY <1>1 DEF Unlink
  <2> HIDE DEF i, r
  <2>3. /\ r \in Seq(S) /\ Len(r) = Len(q) - 1
        /\ \A j \in 1 .. Len(q) - 1 : r[j] = IF j < i THEN q[j] ELSE q[j + 1]
    <3> DEFINE a == SubSeq(q, 1, i - 1)
               b == SubSeq(q, i + 1, Len(q))
    <3>1. a \in Seq(S) /\ Len(a) = i - 1 /\ \A j \in 1 .. i - 1 : a[j] = q[j]
      BY <2>1
    <3>2. b \in Seq(S) /\ Len(b) = Len(q) - i /\ \A j \in 1 .. Len(q) - i : b[j] = q[i + j]
      BY <2>1
    <3>3. r = a \o b
      BY <2>2
    <3> HIDE DEF a, b
    <3>4. r \in Seq(S) /\ Len(r) = Len(q) - 1
      BY <2>1, <3>1, <3>2, <3>3
    <3>5. ASSUME NEW j \in 1 .. Len(q) - 1
          PROVE  r[j] = IF j < i THEN q[j] ELSE q[j + 1]
      BY <2>1, <3>1, <3>2, <3>3
    <3> QED
      BY <3>4, <3>5
  <2>4. \A k, l \in 1 .. Len(q) : q[k] = q[l] => k = l
    BY ElementFacts
  <2>5. IsInjective(r)
    <3>1. ASSUME NEW j \in 1 .. Len(r), NEW k \in 1 .. Len(r), r[j] = r[k] PROVE j = k
      BY SMTT(30), <2>1, <2>3, <2>4, <3>1
    <3> QED
      BY <2>3, <3>1, ElementFacts
  <2>6. ASSUME NEW j \in 1 .. Len(r) PROVE \E k \in 1 .. Len(q) : r[j] = q[k] /\ q[k] # e
    BY <2>1, <2>3, <2>4
  <2>7. ASSUME NEW k \in 1 .. Len(q), q[k] # e PROVE \E j \in 1 .. Len(r) : r[j] = q[k]
    <3>1. CASE k < i
      BY <2>1, <2>3, <3>1
    <3>2. CASE k > i
      <4>1. k - 1 \in 1 .. Len(r) /\ r[k - 1] = q[k]
        BY <2>1, <2>3, <3>2
      <4> QED
        BY <4>1
    <3> QED
      BY <2>1, <2>7, <3>1, <3>2
  <2>8. ToSet(r) = ToSet(q) \ {e}
    <3>1. \A y : y \in ToSet(r) <=> \E j \in 1 .. Len(r) : r[j] = y
      BY <2>3, ElementFacts
    <3>2. \A y : y \in ToSet(q) <=> \E j \in 1 .. Len(q) : q[j] = y
      BY ElementFacts
    <3> QED
      BY ZenonT(30), <2>6, <2>7, <3>1, <3>2
  <2>9. e \in ToSet(q)
    BY <2>1, ElementFacts
  <2> QED
    BY <2>3, <2>5, <2>8, <2>9 DEF r
<1>2. CASE ~\E i \in 1 .. Len(q) : q[i] = e
  <2>1. Unlink(q, e) = q /\ e \notin ToSet(q)
    BY <1>2, ElementFacts DEF Unlink
  <2> QED
    BY <2>1
<1> QED
  BY <1>1, <1>2

LEMMA AppendFacts ==
  ASSUME NEW S, NEW q \in Seq(S), IsInjective(q), NEW x \in S, x \notin ToSet(q)
  PROVE  /\ Append(q, x) \in Seq(S)
         /\ IsInjective(Append(q, x))
         /\ ToSet(Append(q, x)) = ToSet(q) \cup {x}
         /\ Len(Append(q, x)) = Len(q) + 1
<1> DEFINE r == Append(q, x)
<1>1. /\ r \in Seq(S) /\ Len(r) = Len(q) + 1
      /\ \A j \in 1 .. Len(q) + 1 : r[j] = IF j = Len(q) + 1 THEN x ELSE q[j]
  OBVIOUS
<1> HIDE DEF r
<1>2. IsInjective(r)
  BY <1>1 DEF IsInjective, ToSet
<1>3. ToSet(r) = ToSet(q) \cup {x}
  <2>1. ToSet(r) \subseteq ToSet(q) \cup {x}
    BY <1>1 DEF ToSet
  <2>2. x \in ToSet(r)
    <3>1. Len(q) + 1 \in DOMAIN r /\ r[Len(q) + 1] = x
      BY <1>1
    <3> QED
      BY <3>1 DEF ToSet
  <2>3. \A j \in 1 .. Len(q) : j \in DOMAIN r /\ r[j] = q[j]
    BY <1>1
  <2> QED
    BY <2>1, <2>2, <2>3 DEF ToSet
<1> QED
  BY <1>1, <1>2, <1>3 DEF r

LEMMA LinkAfterFacts ==
  ASSUME NEW S, NEW q \in Seq(S), IsInjective(q), NEW e, NEW x \in S, x \notin ToSet(q)
  PROVE  /\ LinkAfter(q, e, x) \in Seq(S)
         /\ IsInjective(LinkAfter(q, e, x))
         /\ ToSet(LinkAfter(q, e, x)) = ToSet(q) \cup {x}
         /\ Len(LinkAfter(q, e, x)) = Len(q) + 1
<1>1. CASE \E i \in 1 .. Len(q) : q[i] = e
  <2> DEFINE i == CHOOSE i \in 1 .. Len(q) : q[i] = e
             r == LinkAfter(q, e, x)
  <2>1. i \in 1 .. Len(q) /\ q[i] = e
    BY <1>1
  <2>2. r = Append(SubSeq(q, 1, i), x) \o SubSeq(q, i + 1, Len(q))
    BY <1>1 DEF LinkAfter
  <2> HIDE DEF i, r
  <2>3. /\ r \in Seq(S) /\ Len(r) = Len(q) + 1
        /\ \A j \in 1 .. Len(q) + 1 :
             r[j] = IF j <= i THEN q[j] ELSE IF j = i + 1 THEN x ELSE q[j - 1]
    <3> DEFINE a == SubSeq(q, 1, i)
               ax == Append(a, x)
               b == SubSeq(q, i + 1, Len(q))
    <3>1. a \in Seq(S) /\ Len(a) = i /\ \A j \in 1 .. i : a[j] = q[j]
      BY <2>1
    <3>2. b \in Seq(S) /\ Len(b) = Len(q) - i /\ \A j \in 1 .. Len(q) - i : b[j] = q[i + j]
      BY <2>1
    <3>3. r = ax \o b
      BY <2>2
    <3> HIDE DEF a, b
    <3>4. /\ ax \in Seq(S) /\ Len(ax) = i + 1
          /\ \A j \in 1 .. i + 1 : ax[j] = IF j <= i THEN q[j] ELSE x
      BY <2>1, <3>1
    <3> HIDE DEF ax
    <3>5. r \in Seq(S) /\ Len(r) = Len(q) + 1
      BY <2>1, <3>2, <3>3, <3>4, ConcatProperties
    <3>6. ASSUME NEW j \in 1 .. Len(q) + 1
          PROVE  r[j] = IF j <= i THEN q[j] ELSE IF j = i + 1 THEN x ELSE q[j - 1]
      <4>1. r[j] = IF j <= i + 1 THEN ax[j] ELSE b[j - (i + 1)]
        BY <2>1, <3>2, <3>3, <3>4, ConcatProperties
      <4>2. CASE j <= i + 1
        BY <2>1, <3>4, <4>1, <4>2
      <4>3. CASE j > i + 1
        <5>1. j - (i + 1) \in 1 .. Len(q) - i /\ i + (j - (i + 1)) = j - 1
          BY <2>1, <4>3
        <5>2. b[j - (i + 1)] = q[j - 1]
          BY <3>2, <5>1
        <5> QED
          BY <2>1, <4>1, <4>3, <5>2
      <4> QED
        BY <2>1, <4>2, <4>3
    <3> QED
      BY <3>5, <3>6
  <2>4. \A k, l \in 1 .. Len(q) : q[k] # x /\ (q[k] = q[l] => k = l)
    BY ElementFacts
  <2>5. IsInjective(r)
    <3> DEFINE old(j) == IF j <= i THEN j ELSE j - 1
    <3>1. ASSUME NEW j \in 1 .. Len(r), j # i + 1 PROVE old(j) \in 1 .. Len(q) /\ r[j] = q[old(j)]
      BY <2>1, <2>3, <3>1
    <3>2. ASSUME NEW j \in 1 .. Len(r), NEW k \in 1 .. Len(r), r[j] = r[k] PROVE j = k
      <4>1. CASE j = i + 1 \/ k = i + 1
        <5> HIDE DEF old
        <5>1. r[i + 1] = x /\ \A l \in 1 .. Len(r) : l # i + 1 => r[l] # x
          BY <2>1, <2>3, <2>4, <3>1
        <5> QED
          BY <3>2, <4>1, <5>1
      <4>2. CASE j # i + 1 /\ k # i + 1
        <5>1. old(j) = old(k)
          BY <2>4, <3>1, <3>2, <4>2
        <5> QED
          BY <2>1, <4>2, <5>1
      <4> QED
        BY <4>1, <4>2
    <3> QED
      BY <2>3, <3>2, ElementFacts
  <2>6. ASSUME NEW j \in 1 .. Len(r) PROVE r[j] = x \/ \E k \in 1 .. Len(q) : r[j] = q[k]
    BY <2>1, <2>3
  <2>7. ASSUME NEW k \in 1 .. Len(q) PROVE \E j \in 1 .. Len(r) : r[j] = q[k]
    <3>1. CASE k <= i
      BY SMTT(30), <2>1, <2>3, <3>1
    <3>2. CASE k > i
      <4>1. k + 1 \in 1 .. Len(r) /\ r[k + 1] = q[k]
        BY <2>1, <2>3, <3>2
      <4> QED
        BY <4>1
    <3> QED
      BY <2>1, <3>1, <3>2
  <2>8. i + 1 \in 1 .. Len(r) /\ r[i + 1] = x
    BY <2>1, <2>3
  <2>9. ToSet(r) = ToSet(q) \cup {x}
    <3>1. \A y : y \in ToSet(r) <=> \E j \in 1 .. Len(r) : r[j] = y
      BY <2>3, ElementFacts
    <3>2. \A y : y \in ToSet(q) <=> \E j \in 1 .. Len(q) : q[j] = y
      BY ElementFacts
    <3> QED
      BY ZenonT(30), <2>6, <2>7, <2>8, <3>1, <3>2
  <2> QED
    BY <2>3, <2>5, <2>9 DEF r
<1>2. CASE ~\E i \in 1 .. Len(q) : q[i] = e
  BY <1>2, AppendFacts DEF LinkAfter
<1> QED
  BY <1>1, <1>2

\* A client that leaves has a successor unless it is alone.
LEMMA SuccessorFacts ==
  ASSUME NEW q \in Seq(Client), IsInjective(q), NEW c \in ToSet(q)
  PROVE  IF ToSet(q) = {c} THEN Successor(q, c) = NULL
         ELSE Successor(q, c) \in ToSet(q) \ {c}
<1>1. NULL \notin Client
  BY ClassesAreDisjoint
<1>2. PICK n \in 1 .. Len(q) : q[n] = c
  BY DEF ToSet
<1>3. n > 1 => PrevThing(q, c) = q[n - 1]
  <2> SUFFICES ASSUME n > 1 PROVE PrevThing(q, c) = q[n - 1]
    OBVIOUS
  <2> DEFINE k == CHOOSE i \in 2 .. Len(q) : q[i] = c
  <2>1. n \in 2 .. Len(q)
    BY <1>2
  <2>2. k \in 2 .. Len(q) /\ q[k] = c
    BY <1>2, <2>1
  <2> HIDE DEF k
  <2>3. k = n
    BY <1>2, <2>2 DEF IsInjective
  <2> QED
    BY <1>2, <2>1, <2>3 DEF PrevThing, k
<1>4. n = 1 => PrevThing(q, c) = NULL
  BY <1>2 DEF PrevThing, IsInjective
<1>5. n < Len(q) => NextThing(q, c) = q[n + 1]
  <2> SUFFICES ASSUME n < Len(q) PROVE NextThing(q, c) = q[n + 1]
    OBVIOUS
  <2> DEFINE k == CHOOSE i \in 1 .. (Len(q) - 1) : q[i] = c
  <2>1. n \in 1 .. (Len(q) - 1)
    BY <1>2
  <2>2. k \in 1 .. (Len(q) - 1) /\ q[k] = c
    BY <1>2, <2>1
  <2> HIDE DEF k
  <2>3. k = n
    BY <1>2, <2>2 DEF IsInjective
  <2> QED
    BY <1>2, <2>1, <2>3 DEF NextThing, k
<1>6. n = Len(q) => NextThing(q, c) = NULL
  BY <1>2 DEF NextThing, IsInjective
<1>7. CASE n > 1
  <2>1. n - 1 \in DOMAIN q /\ q[n - 1] \in Client /\ q[n - 1] # c
    BY <1>2, <1>7 DEF IsInjective
  <2>2. q[n - 1] \in ToSet(q)
    BY <2>1 DEF ToSet
  <2>3. PrevThing(q, c) = q[n - 1] /\ PrevThing(q, c) # NULL
    BY <1>1, <1>3, <1>7, <2>1
  <2> QED
    BY <2>1, <2>2, <2>3 DEF Successor
<1>8. CASE n = 1 /\ n < Len(q)
  <2>1. n + 1 \in DOMAIN q /\ q[n + 1] \in Client /\ q[n + 1] # c
    BY <1>2, <1>8 DEF IsInjective
  <2>2. q[n + 1] \in ToSet(q)
    BY <2>1 DEF ToSet
  <2> QED
    BY <1>4, <1>5, <1>8, <2>1, <2>2 DEF Successor
<1>9. CASE n = 1 /\ n = Len(q)
  <2>1. ToSet(q) = {c}
    BY <1>2, <1>9 DEF ToSet
  <2> QED
    BY <1>4, <1>6, <1>9, <2>1 DEF Successor
<1> QED
  BY <1>2, <1>7, <1>8, <1>9

-----------------------------------------------------------------------------
(* The parts of the invariant. *)

\* t_parent and t_children of clients agree, and clients are counted.
FrameLinks(s) ==
  \A f \in Frame : /\ IsInjective(s.clients[f])
                   /\ ToSet(s.clients[f]) = {c \in Client : s.frameOf[c] = f}
                   /\ s.count[f] = Len(s.clients[f])

\* A frame shows only clients of its own.
OwnCurrents(s) == \A f \in Frame : s.cur[f] # NULL => s.frameOf[s.cur[f]] = f

\* A frame shows a client if it has any.
SomeCurrents(s) == \A f \in Frame : s.cur[f] = NULL => s.clients[f] = <<>>

\* A client that is in a frame is in client_list, and the frame exists.
Members(s) ==
  \A c \in Client : s.frameOf[c] # NULL => c \in ToSet(s.list) /\ s.wsOf[s.frameOf[c]] # NULL

\* t_parent and t_children of client windows agree.
WinLinks(s) ==
  \A c \in Client : /\ IsInjective(s.wins[c])
                    /\ ToSet(s.wins[c]) = {w \in Win : s.clientOf[w] = c}

IsCurrent(s, c) == \E f \in Frame : s.cur[f] = c

\* Windows are shown as they should be, except those of the clients in X.
ShownBut(s, X) ==
  \A w \in Win : s.clientOf[w] \notin X =>
    s.state[w] = IF s.clientOf[w] = NULL THEN "Withdrawn"
                 ELSE IF IsCurrent(s, s.clientOf[w]) THEN "Normal" ELSE "Iconic"

-----------------------------------------------------------------------------
(* What showing, hiding, linking and unlinking clients do not touch. *)

SameThings(s, r) ==
  /\ r.clientOf = s.clientOf /\ r.wsOf = s.wsOf /\ r.wins = s.wins
  /\ r.workspaces = s.workspaces /\ r.list = s.list /\ r.tagged = s.tagged
  /\ r.input = s.input /\ r.mapped = s.mapped /\ r.curws = s.curws

SameLinks(s, r) == r.frameOf = s.frameOf /\ r.clients = s.clients /\ r.count = s.count

\* The active frame gets the focus with another client, unless it has an input.
Focuses(s, r) ==
  \A f \in Frame : s.wswin = f /\ r.cur[f] \notin {NULL, s.cur[f]} /\ s.input[f] = NULL
                   => r.fnext # NULL

\* Pointers stay or go to clients; the previous thing may be the active frame.
Moves(s, r) ==
  /\ SameThings(s, r)
  /\ r.wswin = s.wswin /\ r.protect = s.protect /\ r.fframe = s.fframe
  /\ r.fnext \in {s.fnext} \cup ToSet(s.list)
  /\ r.fthing \in {s.fthing} \cup ToSet(s.list)
  /\ r.prev \in {s.prev, s.wswin} \cup ToSet(s.list)
  /\ Focuses(s, r)

LEMMA MovesReflexive ==
  ASSUME NEW s \in State
  PROVE  Moves(s, s)
BY DEF Moves, SameThings, Focuses

LEMMA ListIsClients ==
  ASSUME NEW s \in State
  PROVE  ToSet(s.list) \subseteq Client /\ NULL \notin ToSet(s.list)
<1>1. s.list \in Seq(Client)
  BY DEF State
<1> QED
  BY <1>1, ElementFacts, ClassesAreDisjoint

LEMMA MovesTransitive ==
  ASSUME NEW s \in State, NEW d \in State, NEW r \in State, Moves(s, d), Moves(d, r)
  PROVE  Moves(s, r)
<1>1. SameThings(s, r)
  BY DEF Moves, SameThings
<1>2. d.list = s.list /\ d.input = s.input /\ d.wswin = s.wswin
  BY DEF Moves, SameThings
<1>3. /\ r.wswin = s.wswin /\ r.protect = s.protect /\ r.fframe = s.fframe
      /\ r.fnext \in {s.fnext} \cup ToSet(s.list)
      /\ r.fthing \in {s.fthing} \cup ToSet(s.list)
      /\ r.prev \in {s.prev, s.wswin} \cup ToSet(s.list)
  BY <1>2 DEF Moves
<1>4. d.fnext # NULL => r.fnext # NULL
  BY <1>2, ListIsClients DEF Moves
<1>5. Focuses(s, r)
  BY <1>2, <1>4 DEF Moves, Focuses
<1> QED
  BY <1>1, <1>3, <1>5 DEF Moves

LEMMA CurrentIsListed ==
  ASSUME NEW s \in State, OwnCurrents(s), Members(s), NEW f \in Frame, s.cur[f] # NULL
  PROVE  s.cur[f] \in ToSet(s.list)
<1>1. s.cur[f] \in Client /\ f # NULL
  BY ClassesAreDisjoint DEF State
<1> QED
  BY <1>1 DEF OwnCurrents, Members

\* Nothing but the pointers is touched; the operators on pointers, field by field.
SameView(s, r) == SameThings(s, r) /\ SameLinks(s, r) /\ r.cur = s.cur /\ r.state = s.state

SamePointers(s, r) ==
  /\ r.wswin = s.wswin /\ r.protect = s.protect /\ r.fframe = s.fframe
  /\ r.fnext = s.fnext /\ r.fthing = s.fthing /\ r.prev = s.prev

LEMMA SetFocusFields ==
  ASSUME NEW s \in State, NEW t \in Things
  PROVE  LET r == SetFocus(s, t) IN
         /\ r \in State /\ SameView(s, r)
         /\ r.wswin = s.wswin /\ r.protect = s.protect /\ r.fframe = s.fframe /\ r.prev = s.prev
         /\ r.fnext = t /\ r.fthing = t
BY SetFocusType DEF SetFocus, State, SameView, SameThings, SameLinks

LEMMA SetPreviousFields ==
  ASSUME NEW s \in State, NEW t
  PROVE  LET r == SetPrevious(s, t) IN
         /\ r \in State /\ SameView(s, r)
         /\ r.wswin = s.wswin /\ r.protect = s.protect /\ r.fframe = s.fframe
         /\ r.fnext = s.fnext /\ r.fthing = s.fthing
         /\ r.prev = s.prev \/ (s.wswin # NULL /\ r.prev = CurrentClientOrFrame(s))
<1> DEFINE c == CurrentClientOrFrame(s)
           q == [s EXCEPT !.prev = c]
<1>1. c \in Things \cup {NULL}
  BY CurrentClientOrFrameType
<1> HIDE DEF c
<1>2. /\ SameView(s, q) /\ q.prev = c
      /\ q.wswin = s.wswin /\ q.protect = s.protect /\ q.fframe = s.fframe
      /\ q.fnext = s.fnext /\ q.fthing = s.fthing
  BY <1>1 DEF State, SameView, SameThings, SameLinks
<1>3. SetPrevious(s, t) = s \/ (s.wswin # NULL /\ SetPrevious(s, t) = q)
  BY DEF SetPrevious, c
<1> HIDE DEF q
<1>4. SameView(s, s)
  BY DEF SameView, SameThings, SameLinks
<1> QED
  BY <1>2, <1>3, <1>4, SetPreviousType DEF c

LEMMA SetStateFields ==
  ASSUME NEW s \in State, NEW W, NEW st \in {"Normal", "Iconic", "Withdrawn"}
  PROVE  LET r == SetState(s, W, st) IN
         /\ r \in State /\ SameThings(s, r) /\ SameLinks(s, r) /\ r.cur = s.cur
         /\ SamePointers(s, r)
         /\ r.state = [w \in Win |-> IF w \in W THEN st ELSE s.state[w]]
BY ZenonT(30), SetStateType DEF SetState, State, SameThings, SameLinks, SamePointers

LEMMA SetStateEach ==
  ASSUME NEW s \in State, NEW W, NEW st \in {"Normal", "Iconic", "Withdrawn"}
  PROVE  LET r == SetState(s, W, st) IN
         /\ r \in State /\ SameThings(s, r) /\ SameLinks(s, r) /\ r.cur = s.cur
         /\ SamePointers(s, r)
         /\ \A v \in Win : r.state[v] = IF v \in W THEN st ELSE s.state[v]
BY ZenonT(30), SetStateType DEF SetState, State, SameThings, SameLinks, SamePointers

Shows(s, r, c, st) ==
  /\ r \in State /\ SameThings(s, r) /\ SameLinks(s, r) /\ r.cur = s.cur
  /\ SamePointers(s, r)
  /\ r.state = [w \in Win |-> IF w \in ToSet(s.wins[c]) THEN st ELSE s.state[w]]

LEMMA ShowHideFields ==
  ASSUME NEW s \in State, NEW c
  PROVE  Shows(s, ShowClient(s, c), c, "Normal") /\ Shows(s, HideClient(s, c), c, "Iconic")
<1> DEFINE W == ToSet(s.wins[c])
<1>1. Shows(s, SetState(s, W, "Normal"), c, "Normal")
  BY ZenonT(30), SetStateFields DEF Shows
<1>2. Shows(s, SetState(s, W, "Iconic"), c, "Iconic")
  BY ZenonT(30), SetStateFields DEF Shows
<1> QED
  BY <1>1, <1>2 DEF ShowClient, HideClient

LEMMA SetCurFields ==
  ASSUME NEW s \in State, NEW f \in Frame, NEW c \in Client \cup {NULL}
  PROVE  LET r == [s EXCEPT !.cur[f] = c] IN
         /\ r \in State /\ SameThings(s, r) /\ SameLinks(s, r) /\ r.state = s.state
         /\ SamePointers(s, r) /\ r.cur = [s.cur EXCEPT ![f] = c]
BY SetCurType DEF State, SameThings, SameLinks, SamePointers

LEMMA SameTransitive ==
  ASSUME NEW s, NEW d, NEW r
  PROVE  /\ SameThings(s, d) /\ SameThings(d, r) => SameThings(s, r)
         /\ SameLinks(s, d) /\ SameLinks(d, r) => SameLinks(s, r)
BY DEF SameThings, SameLinks

\* do_frame_switch_client, field by field.
LEMMA SwitchFacts ==
  ASSUME NEW s \in State, OwnCurrents(s), Members(s),
         NEW f \in Frame, NEW c \in Client, c \in ToSet(s.list)
  PROVE  LET r == DoFrameSwitchClient(s, f, c) IN
         /\ r \in State /\ Moves(s, r) /\ SameLinks(s, r)
         /\ r.cur = [s.cur EXCEPT ![f] = c]
         /\ r.state = [w \in Win |->
                         IF s.cur[f] # NULL /\ w \in ToSet(s.wins[s.cur[f]]) THEN "Iconic"
                         ELSE IF w \in ToSet(s.wins[c]) THEN "Normal" ELSE s.state[w]]
         /\ r.fnext \in {s.fnext, c} /\ r.fthing \in {s.fthing, c}
         /\ s.input[f] = NULL /\ s.wswin = f => r.fnext = c
<1> DEFINE shown  == ShowClient(s, c)
           hidden == IF s.cur[f] # NULL THEN HideClient(shown, s.cur[f]) ELSE shown
           st     == [w \in Win |->
                         IF s.cur[f] # NULL /\ w \in ToSet(s.wins[s.cur[f]]) THEN "Iconic"
                         ELSE IF w \in ToSet(s.wins[c]) THEN "Normal" ELSE s.state[w]]
           p      == SetPrevious(hidden, c)
           focus  == IF s.input[f] = NULL /\ s.wswin = f THEN SetFocus(p, c) ELSE hidden
           r      == DoFrameSwitchClient(s, f, c)
<1>1. Shows(s, shown, c, "Normal")
  BY ShowHideFields
<1> HIDE DEF shown
<1>2. /\ hidden \in State /\ SameThings(s, hidden) /\ SameLinks(s, hidden) /\ hidden.cur = s.cur
      /\ SamePointers(s, hidden) /\ hidden.state = st
  <2>1. CASE s.cur[f] # NULL
    <3>1. Shows(shown, hidden, s.cur[f], "Iconic")
      BY <1>1, <2>1, ShowHideFields DEF Shows
    <3>2. shown.wins = s.wins
      BY <1>1 DEF SameThings, Shows
    <3> HIDE DEF hidden
    <3>3. hidden.state = st
      BY <1>1, <2>1, <3>1, <3>2 DEF Shows
    <3> QED
      BY <1>1, <3>1, <3>3, SameTransitive DEF Shows, SamePointers
  <2>2. CASE s.cur[f] = NULL
    BY <1>1, <2>2 DEF Shows
  <2> QED
    BY <2>1, <2>2
<1> USE DEF SameView, SamePointers
<1> HIDE DEF hidden, st
<1>3. /\ p \in State /\ SameThings(s, p) /\ SameLinks(s, p) /\ p.cur = s.cur /\ p.state = st
      /\ p.wswin = s.wswin /\ p.protect = s.protect /\ p.fframe = s.fframe
      /\ p.fnext = s.fnext /\ p.fthing = s.fthing
      /\ p.prev = s.prev \/ (hidden.wswin # NULL /\ p.prev = CurrentClientOrFrame(hidden))
  BY <1>2, SetPreviousFields, SameTransitive
<1>4. p.prev \in {s.prev, s.wswin} \cup ToSet(s.list)
  <2>1. hidden.wswin = s.wswin /\ hidden.cur = s.cur /\ s.wswin \in Frame \cup {NULL}
    BY <1>2 DEF State
  <2>2. s.wswin # NULL => CurrentClientOrFrame(hidden) \in {s.wswin} \cup ToSet(s.list)
    BY <2>1, CurrentIsListed DEF CurrentClientOrFrame
  <2> QED
    BY <1>3, <2>1, <2>2
<1> HIDE DEF p
<1>5. c \in Things
  BY DEF Things
<1>6. /\ focus \in State /\ SameThings(s, focus) /\ SameLinks(s, focus)
      /\ focus.cur = s.cur /\ focus.state = st
      /\ focus.wswin = s.wswin /\ focus.protect = s.protect /\ focus.fframe = s.fframe
      /\ focus.prev \in {s.prev, s.wswin} \cup ToSet(s.list)
      /\ focus.fnext \in {s.fnext, c} /\ focus.fthing \in {s.fthing, c}
      /\ s.input[f] = NULL /\ s.wswin = f => focus.fnext = c
  BY <1>2, <1>3, <1>4, <1>5, SetFocusFields, SameTransitive
<1>7. r = [focus EXCEPT !.cur[f] = c]
  BY DEF DoFrameSwitchClient, focus, p, hidden, shown
<1> HIDE DEF focus, r
<1>8. /\ r \in State /\ SameThings(s, r) /\ SameLinks(s, r)
      /\ r.cur = [s.cur EXCEPT ![f] = c] /\ r.state = st
      /\ r.wswin = s.wswin /\ r.protect = s.protect /\ r.fframe = s.fframe
      /\ r.prev = focus.prev /\ r.fnext = focus.fnext /\ r.fthing = focus.fthing
  BY <1>6, <1>7, SetCurFields, SameTransitive
<1>9. Focuses(s, r)
  BY <1>6, <1>8, ClassesAreDisjoint DEF Focuses, State
<1>10. Moves(s, r)
  BY <1>6, <1>8, <1>9 DEF Moves
<1> QED
  BY <1>6, <1>8, <1>10 DEF r, st

\* Showing c and hiding what frame f showed keeps the rest as it was.
LEMMA SwitchShows ==
  ASSUME NEW s \in State, OwnCurrents(s), WinLinks(s),
         NEW f \in Frame, NEW c \in Client, s.frameOf[c] = f, s.cur[f] # c,
         NEW X, ShownBut(s, X), NEW r,
         r.clientOf = s.clientOf, r.frameOf = s.frameOf,
         r.cur = [s.cur EXCEPT ![f] = c],
         r.state = [w \in Win |->
                      IF s.cur[f] # NULL /\ w \in ToSet(s.wins[s.cur[f]]) THEN "Iconic"
                      ELSE IF w \in ToSet(s.wins[c]) THEN "Normal" ELSE s.state[w]]
  PROVE  OwnCurrents(r) /\ ShownBut(r, X \ {c})
<1>1. /\ s.cur \in [Frame -> Client \cup {NULL}]
      /\ s.clientOf \in [Win -> Client \cup {NULL}] /\ NULL \notin Client
  BY ClassesAreDisjoint DEF State
<1>2. OwnCurrents(r)
  BY <1>1 DEF OwnCurrents
<1>3. ASSUME NEW w \in Win, s.clientOf[w] \notin X \ {c}
      PROVE  r.state[w] = IF s.clientOf[w] = NULL THEN "Withdrawn"
                          ELSE IF IsCurrent(r, s.clientOf[w]) THEN "Normal" ELSE "Iconic"
  <2> DEFINE d == s.clientOf[w]
  <2>1. \A b \in Client : w \in ToSet(s.wins[b]) <=> d = b
    BY DEF WinLinks
  <2>2. CASE d = NULL
    <3>1. s.state[w] = "Withdrawn"
      BY <1>1, <1>3, <2>2 DEF ShownBut
    <3> QED
      BY <1>1, <2>1, <2>2, <3>1
  <2>3. CASE d = c
    <3>1. IsCurrent(r, c)
      BY <1>1 DEF IsCurrent
    <3>2. r.state[w] = "Normal"
      BY <1>1, <2>1, <2>3
    <3> QED
      BY <1>1, <2>3, <3>1, <3>2
  <2>4. CASE d # NULL /\ d # c /\ d = s.cur[f]
    <3>1. ~IsCurrent(r, d)
      BY <1>1, <2>4 DEF IsCurrent, OwnCurrents
    <3>2. r.state[w] = "Iconic"
      BY <1>1, <2>1, <2>4
    <3> QED
      BY <2>4, <3>1, <3>2
  <2>5. CASE d # NULL /\ d # c /\ d # s.cur[f]
    <3>1. IsCurrent(r, d) <=> IsCurrent(s, d)
      BY <1>1, <2>5 DEF IsCurrent
    <3>2. r.state[w] = s.state[w]
      BY <1>1, <2>1, <2>5
    <3>3. d \notin X
      BY <1>3, <2>5
    <3> QED
      BY <2>5, <3>1, <3>2, <3>3 DEF ShownBut
  <2> QED
    BY <2>2, <2>3, <2>4, <2>5
<1>4. ShownBut(r, X \ {c})
  BY <1>3 DEF ShownBut
<1> QED
  BY <1>2, <1>4

-----------------------------------------------------------------------------
(* Clients in frames. *)

\* The links, the current clients and the list agree.
Clients(s) ==
  FrameLinks(s) /\ OwnCurrents(s) /\ SomeCurrents(s) /\ Members(s) /\ WinLinks(s)

LEMMA SameThingsKeep ==
  ASSUME NEW s, NEW r, SameThings(s, r)
  PROVE  /\ WinLinks(s) => WinLinks(r)
         /\ Members(s) /\ r.frameOf = s.frameOf => Members(r)
         /\ FrameLinks(s) /\ SameLinks(s, r) => FrameLinks(r)
BY DEF SameThings, SameLinks, WinLinks, Members, FrameLinks

\* frame_switch_client to a client of the frame.
LEMMA FrameSwitchClientSound ==
  ASSUME NEW s \in State, Clients(s), ShownBut(s, {}),
         NEW f \in Frame, NEW c \in Client, s.frameOf[c] = f
  PROVE  LET r == FrameSwitchClient(s, f, c) IN
         /\ r \in State /\ Moves(s, r) /\ SameLinks(s, r) /\ Clients(r) /\ ShownBut(r, {})
         /\ r.cur = [s.cur EXCEPT ![f] = c]
<1> DEFINE r == FrameSwitchClient(s, f, c)
<1>1. CASE s.cur[f] = c
  <2>1. r = s /\ s.cur = [s.cur EXCEPT ![f] = c]
    BY <1>1 DEF FrameSwitchClient, State
  <2> QED
    BY <2>1, MovesReflexive DEF SameLinks
<1>2. CASE s.cur[f] # c
  <2>1. r = DoFrameSwitchClient(s, f, c)
    BY <1>2 DEF FrameSwitchClient
  <2> HIDE DEF r
  <2>2. c \in ToSet(s.list) /\ f # NULL
    BY ClassesAreDisjoint DEF Clients, Members
  <2>3. /\ r \in State /\ Moves(s, r) /\ SameLinks(s, r)
        /\ r.cur = [s.cur EXCEPT ![f] = c]
        /\ r.state = [w \in Win |->
                         IF s.cur[f] # NULL /\ w \in ToSet(s.wins[s.cur[f]]) THEN "Iconic"
                         ELSE IF w \in ToSet(s.wins[c]) THEN "Normal" ELSE s.state[w]]
    BY <2>1, <2>2, SwitchFacts DEF Clients
  <2>4. OwnCurrents(r) /\ ShownBut(r, {} \ {c})
    BY <1>2, <2>3, SwitchShows DEF Clients, Moves, SameThings, SameLinks
  <2>5. SomeCurrents(r)
    BY <2>3, ClassesAreDisjoint DEF SameLinks, SomeCurrents, Clients, State
  <2>6. FrameLinks(r) /\ Members(r) /\ WinLinks(r)
    BY <2>3, SameThingsKeep DEF Clients, Moves, SameLinks
  <2>7. {} \ {c} = {}
    OBVIOUS
  <2> QED
    BY <2>3, <2>4, <2>5, <2>6, <2>7 DEF Clients, r
<1> QED
  BY <1>1, <1>2

Switched(s, r) ==
  /\ r \in State /\ Moves(s, r) /\ SameLinks(s, r) /\ Clients(r) /\ ShownBut(r, {})
  /\ \/ r.cur = s.cur
     \/ \E c \in Client : s.frameOf[c] # NULL /\ r.cur = [s.cur EXCEPT ![s.frameOf[c]] = c]

LEMMA FrameSwitchNextSound ==
  ASSUME NEW s \in State, Clients(s), ShownBut(s, {}), NEW f \in Frame
  PROVE  Switched(s, FrameSwitchNext(s, f)) /\ Switched(s, FrameSwitchPrev(s, f))
<1> DEFINE q == s.clients[f]
<1>1. q \in Seq(Client) /\ f # NULL /\ NULL \notin Client
  BY ClassesAreDisjoint DEF State
<1>2. \A x : x \in ToSet(q) <=> x \in Client /\ s.frameOf[x] = f
  BY DEF Clients, FrameLinks
<1>3. NextThing(q, s.cur[f]) # NULL => NextThing(q, s.cur[f]) \in ToSet(q)
  <2> DEFINE k == CHOOSE i \in 1 .. (Len(q) - 1) : q[i] = s.cur[f]
  <2> SUFFICES ASSUME \E i \in 1 .. (Len(q) - 1) : q[i] = s.cur[f] PROVE q[k + 1] \in ToSet(q)
    BY DEF NextThing
  <2>1. k \in 1 .. (Len(q) - 1)
    OBVIOUS
  <2> HIDE DEF k
  <2>2. k + 1 \in 1 .. Len(q)
    BY <1>1, <2>1
  <2> QED
    BY <1>1, <2>2, ElementFacts
<1>4. PrevThing(q, s.cur[f]) # NULL => PrevThing(q, s.cur[f]) \in ToSet(q)
  <2> DEFINE k == CHOOSE i \in 2 .. Len(q) : q[i] = s.cur[f]
  <2> SUFFICES ASSUME \E i \in 2 .. Len(q) : q[i] = s.cur[f] PROVE q[k - 1] \in ToSet(q)
    BY DEF PrevThing
  <2>1. k \in 2 .. Len(q)
    OBVIOUS
  <2> HIDE DEF k
  <2>2. k - 1 \in 1 .. Len(q)
    BY <1>1, <2>1
  <2> QED
    BY <1>1, <2>2, ElementFacts
<1>5. q # <<>> => Head(q) \in ToSet(q) /\ Last(q) \in ToSet(q)
  <2> SUFFICES ASSUME q # <<>> PROVE Head(q) \in ToSet(q) /\ Last(q) \in ToSet(q)
    OBVIOUS
  <2>1. Len(q) \in Nat \ {0} /\ Head(q) = q[1]
    BY <1>1
  <2> QED
    BY <1>1, <2>1, ElementFacts DEF Last
<1>6. ASSUME NEW c \in ToSet(q) PROVE Switched(s, FrameSwitchClient(s, f, c))
  <2> DEFINE r == FrameSwitchClient(s, f, c)
  <2>1. c \in Client /\ s.frameOf[c] = f
    BY <1>2
  <2>2. /\ r \in State /\ Moves(s, r) /\ SameLinks(s, r) /\ Clients(r) /\ ShownBut(r, {})
        /\ r.cur = [s.cur EXCEPT ![f] = c]
    BY <2>1, FrameSwitchClientSound
  <2> QED
    BY <1>1, <2>1, <2>2 DEF Switched
<1>7. Switched(s, s)
  BY MovesReflexive DEF Switched, SameLinks
<1> HIDE DEF q
<1>8. FrameSwitchNext(s, f) = s \/ \E c \in ToSet(q) : FrameSwitchNext(s, f) = FrameSwitchClient(s, f, c)
  BY <1>3, <1>5 DEF FrameSwitchNext, q
<1>9. FrameSwitchPrev(s, f) = s \/ \E c \in ToSet(q) : FrameSwitchPrev(s, f) = FrameSwitchClient(s, f, c)
  BY <1>4, <1>5 DEF FrameSwitchPrev, q
<1> QED
  BY <1>6, <1>7, <1>8, <1>9

LEMMA UnlinkClientFields ==
  ASSUME NEW s \in State, NEW f \in Frame, NEW c \in Client
  PROVE  LET r == UnlinkClient(s, f, c) IN
         /\ r \in State /\ SameThings(s, r) /\ SamePointers(s, r) /\ r.state = s.state
         /\ r.cur     = [s.cur EXCEPT ![f] = IF @ = c THEN NULL ELSE @]
         /\ r.clients = [s.clients EXCEPT ![f] = Unlink(@, c)]
         /\ r.frameOf = [s.frameOf EXCEPT ![c] = NULL]
         /\ r.count   = [s.count EXCEPT ![f] = @ - 1]
<1> DEFINE x == IF s.cur[f] = c THEN NULL ELSE s.cur[f]
           q == Unlink(s.clients[f], c)
           n == s.count[f] - 1
           r == [s EXCEPT !.cur[f] = x, !.clients[f] = q, !.frameOf[c] = NULL, !.count[f] = n]
<1>1. s.clients[f] \in Seq(Client) /\ s.cur[f] \in Client \cup {NULL} /\ s.count[f] \in Int
  BY DEF State
<1>2. x \in Client \cup {NULL} /\ q \in Seq(Client) /\ n \in Int
  BY <1>1, UnlinkType
<1>3. r = UnlinkClient(s, f, c)
  BY DEF UnlinkClient, State
<1> HIDE DEF x, q, n
<1>4. /\ SameThings(s, r) /\ SamePointers(s, r) /\ r.state = s.state
      /\ r.cur = [s.cur EXCEPT ![f] = x] /\ r.clients = [s.clients EXCEPT ![f] = q]
      /\ r.frameOf = [s.frameOf EXCEPT ![c] = NULL] /\ r.count = [s.count EXCEPT ![f] = n]
  BY <1>2 DEF State, SameThings, SamePointers
<1> QED
  BY <1>3, <1>4, UnlinkClientType DEF x, q, n

\* Client c has left frame f: no other frame shows another client, the thing of a
\* sequence is not made c, and an active frame with clients left gets the focus.
Leaves(s, r, f, c) ==
  /\ \A g \in Frame : g # f \/ s.cur[f] # c => r.cur[g] = s.cur[g]
  /\ s.fthing # c => r.fthing # c
  /\ s.cur[f] = c /\ s.wswin = f /\ s.input[f] = NULL /\ r.cur[f] # NULL
       => r.fnext \notin {c, NULL}

\* frame_detach_client: the client is in no frame, and the frame shows another.
LEMMA DetachClientSound ==
  ASSUME NEW s \in State, Clients(s), NEW f \in Frame, NEW c \in Client, s.frameOf[c] = f,
         ShownBut(s, {c})
  PROVE  LET r == DetachClient(s, f, c) IN
         /\ r \in State /\ Moves(s, r) /\ Clients(r) /\ ShownBut(r, {c})
         /\ r.frameOf = [s.frameOf EXCEPT ![c] = NULL]
         /\ Leaves(s, r, f, c)
<1> DEFINE q    == s.clients[f]
           next == IF s.cur[f] = c THEN Successor(q, c) ELSE NULL
           out  == UnlinkClient(s, f, c)
           r    == DetachClient(s, f, c)
<1>1. /\ q \in Seq(Client) /\ IsInjective(q) /\ c \in ToSet(q) /\ f # NULL
      /\ s.frameOf \in [Client -> Frame \cup {NULL}] /\ s.cur \in [Frame -> Client \cup {NULL}]
      /\ s.clients \in [Frame -> Seq(Client)] /\ s.count \in [Frame -> Int]
      /\ NULL \notin Client /\ NULL \notin Frame
  BY ClassesAreDisjoint DEF State, Clients, FrameLinks
<1>2. /\ out \in State /\ SameThings(s, out) /\ SamePointers(s, out) /\ out.state = s.state
      /\ out.cur     = [s.cur EXCEPT ![f] = IF @ = c THEN NULL ELSE @]
      /\ out.clients = [s.clients EXCEPT ![f] = Unlink(@, c)]
      /\ out.frameOf = [s.frameOf EXCEPT ![c] = NULL]
      /\ out.count   = [s.count EXCEPT ![f] = @ - 1]
  BY UnlinkClientFields
<1> HIDE DEF out
<1>3. /\ Unlink(q, c) \in Seq(Client) /\ IsInjective(Unlink(q, c))
      /\ ToSet(Unlink(q, c)) = ToSet(q) \ {c} /\ Len(Unlink(q, c)) = Len(q) - 1
  BY <1>1, UnlinkFacts
<1>4. FrameLinks(out)
  <2> SUFFICES ASSUME NEW g \in Frame
               PROVE  /\ IsInjective(out.clients[g])
                      /\ ToSet(out.clients[g]) = {d \in Client : out.frameOf[d] = g}
                      /\ out.count[g] = Len(out.clients[g])
    BY DEF FrameLinks
  <2>1. /\ IsInjective(s.clients[g]) /\ s.count[g] = Len(s.clients[g])
        /\ ToSet(s.clients[g]) = {d \in Client : s.frameOf[d] = g}
    BY DEF Clients, FrameLinks
  <2>2. CASE g = f
    <3>1. out.clients[g] = Unlink(q, c) /\ out.count[g] = s.count[g] - 1
      BY <1>1, <1>2, <2>2
    <3>2. {d \in Client : out.frameOf[d] = g} = {d \in Client : s.frameOf[d] = g} \ {c}
      BY <1>1, <1>2, <2>2
    <3> QED
      BY <1>3, <2>1, <2>2, <3>1, <3>2
  <2>3. CASE g # f
    <3>1. out.clients[g] = s.clients[g] /\ out.count[g] = s.count[g]
      BY <1>1, <1>2, <2>3
    <3>2. {d \in Client : out.frameOf[d] = g} = {d \in Client : s.frameOf[d] = g}
      BY <1>1, <1>2, <2>3
    <3> QED
      BY <2>1, <3>1, <3>2
  <2> QED
    BY <2>2, <2>3
<1>5. OwnCurrents(out) /\ Members(out) /\ WinLinks(out)
  BY <1>1, <1>2 DEF Clients, OwnCurrents, Members, WinLinks, SameThings
<1>6. ShownBut(out, {c})
  <2>1. ASSUME NEW d \in Client, d # c PROVE IsCurrent(out, d) <=> IsCurrent(s, d)
    <3>1. \A g \in Frame : out.cur[g] = d <=> s.cur[g] = d
      BY <1>1, <1>2, <2>1
    <3> QED
      BY <3>1 DEF IsCurrent
  <2>2. s.clientOf \in [Win -> Client \cup {NULL}]
    BY DEF State
  <2>3. out.clientOf = s.clientOf
    BY <1>2 DEF SameThings
  <2> QED
    BY <1>2, <2>1, <2>2, <2>3 DEF ShownBut
<1>7. Moves(s, out)
  BY <1>1, <1>2 DEF Moves, SamePointers, Focuses
<1>8. s.cur[f] = c => out.cur[f] = NULL /\ IF ToSet(q) = {c} THEN next = NULL ELSE next \in ToSet(q) \ {c}
  BY <1>1, <1>2, SuccessorFacts
<1>9. r = IF next # NULL THEN DoFrameSwitchClient(out, f, next) ELSE out
  BY DEF DetachClient, out
<1>10. next \in Client \cup {NULL}
  BY <1>1, <1>8, ElementFacts
<1> HIDE DEF next, r
<1>11. CASE next = NULL
  <2>1. r = out
    BY <1>9, <1>11
  <2>2. ASSUME NEW g \in Frame, out.cur[g] = NULL PROVE out.clients[g] = <<>>
    <3>1. CASE s.cur[g] = NULL
      <4>1. s.clients[g] = <<>>
        BY <3>1 DEF Clients, SomeCurrents
      <4>2. g # f
        BY <1>1, <4>1 DEF ToSet
      <4> QED
        BY <1>1, <1>2, <4>1, <4>2
    <3>2. CASE s.cur[g] # NULL
      <4>1. g = f /\ s.cur[f] = c
        <5>1. out.cur[g] = IF g = f /\ s.cur[g] = c THEN NULL ELSE s.cur[g]
          BY <1>1, <1>2
        <5> QED
          BY <2>2, <3>2, <5>1
      <4>2. ToSet(Unlink(q, c)) = {}
        <5>1. NULL \notin ToSet(q)
          BY <1>1, ElementFacts
        <5>2. ToSet(q) = {c}
          BY <1>8, <1>11, <4>1, <5>1
        <5> QED
          BY <1>3, <5>2
      <4>3. Unlink(q, c) = <<>>
        BY <1>3, <4>2, ElementFacts
      <4> QED
        BY <1>1, <1>2, <4>1, <4>3
    <3> QED
      BY <3>1, <3>2
  <2>3. Clients(out)
    BY <1>4, <1>5, <2>2 DEF Clients, SomeCurrents
  <2>4. \A g \in Frame : g # f \/ s.cur[f] # c => out.cur[g] = s.cur[g]
    BY <1>1, <1>2
  <2>5. s.cur[f] = c => out.cur[f] = NULL
    BY <1>8
  <2> QED
    BY <1>2, <1>6, <1>7, <2>1, <2>3, <2>4, <2>5 DEF r, SamePointers, Leaves
<1>12. CASE next # NULL
  <2>1. s.cur[f] = c /\ next \in Client /\ next # c /\ s.frameOf[next] = f
    BY <1>8, <1>10, <1>12 DEF next, Clients, FrameLinks
  <2>2. out.frameOf[next] = f /\ out.cur[f] = NULL /\ next \in ToSet(out.list)
    BY <1>1, <1>2, <1>5, <1>8, <2>1 DEF Members
  <2>3. r = DoFrameSwitchClient(out, f, next)
    BY <1>9, <1>12
  <2>4. /\ r \in State /\ Moves(out, r) /\ SameLinks(out, r)
        /\ r.cur = [out.cur EXCEPT ![f] = next]
        /\ r.state = [w \in Win |->
                         IF out.cur[f] # NULL /\ w \in ToSet(out.wins[out.cur[f]]) THEN "Iconic"
                         ELSE IF w \in ToSet(out.wins[next]) THEN "Normal" ELSE out.state[w]]
        /\ r.fthing \in {out.fthing, next}
        /\ out.input[f] = NULL /\ out.wswin = f => r.fnext = next
    <3>1. out \in State
      BY <1>2
    <3> QED
      BY <3>1, <1>5, <2>1, <2>2, <2>3, SwitchFacts
  <2>5. r.clientOf = out.clientOf /\ r.frameOf = out.frameOf
    BY <2>4 DEF Moves, SameThings, SameLinks
  <2>6. OwnCurrents(r) /\ ShownBut(r, {c} \ {next})
    BY <1>2, <1>5, <1>6, <1>12, <2>1, <2>2, <2>4, <2>5, SwitchShows
  <2>7. {c} \ {next} = {c}
    BY <2>1
  <2>8. FrameLinks(r) /\ Members(r) /\ WinLinks(r)
    BY <1>4, <1>5, <2>4, SameThingsKeep DEF Moves, SameLinks
  <2>9. SomeCurrents(r)
    <3>1. \A g \in Frame \ {f} : r.cur[g] = s.cur[g] /\ r.clients[g] = s.clients[g]
      BY <1>1, <1>2, <2>4 DEF SameLinks
    <3>2. r.cur[f] # NULL
      BY <1>1, <1>2, <1>12, <2>4
    <3> QED
      BY <3>1, <3>2 DEF SomeCurrents, Clients
  <2>10. Moves(s, r)
    BY <1>2, <1>7, <2>4, MovesTransitive
  <2>11. r.frameOf = [s.frameOf EXCEPT ![c] = NULL]
    BY <1>2, <2>5
  <2>12. \A g \in Frame : g # f \/ s.cur[f] # c => r.cur[g] = s.cur[g]
    BY <1>1, <1>2, <2>1, <2>4
  <2>13. (s.fthing # c => r.fthing # c) /\ (s.wswin = f /\ s.input[f] = NULL => r.fnext = next)
    BY <1>2, <2>1, <2>4 DEF SamePointers, SameThings
  <2> QED
    BY <1>12, <2>1, <2>4, <2>6, <2>7, <2>8, <2>9, <2>10, <2>11, <2>12, <2>13
       DEF Clients, r, Leaves
<1> QED
  BY <1>11, <1>12

LEMMA LinkClientFields ==
  ASSUME NEW s \in State, NEW f \in Frame, NEW c \in Client
  PROVE  LET r == LinkClient(s, f, c) IN
         /\ r \in State /\ SameThings(s, r) /\ SamePointers(s, r)
         /\ r.state = s.state /\ r.cur = s.cur
         /\ r.clients = [s.clients EXCEPT ![f] = LinkAfter(@, s.cur[f], c)]
         /\ r.frameOf = [s.frameOf EXCEPT ![c] = f]
         /\ r.count   = [s.count EXCEPT ![f] = @ + 1]
<1> DEFINE q == LinkAfter(s.clients[f], s.cur[f], c)
           n == s.count[f] + 1
           r == [s EXCEPT !.clients[f] = q, !.frameOf[c] = f, !.count[f] = n]
<1>1. s.clients[f] \in Seq(Client) /\ s.count[f] \in Int
  BY DEF State
<1>2. q \in Seq(Client) /\ n \in Int
  BY <1>1, LinkAfterType
<1>3. r = LinkClient(s, f, c)
  BY DEF LinkClient, State
<1> HIDE DEF q, n
<1>4. /\ SameThings(s, r) /\ SamePointers(s, r) /\ r.state = s.state /\ r.cur = s.cur
      /\ r.clients = [s.clients EXCEPT ![f] = q]
      /\ r.frameOf = [s.frameOf EXCEPT ![c] = f] /\ r.count = [s.count EXCEPT ![f] = n]
  BY <1>2 DEF State, SameThings, SamePointers
<1> QED
  BY <1>3, <1>4, LinkClientType DEF q, n

\* A client in no frame is put into frame f: only what f shows may be missing.
LEMMA LinkClientSound ==
  ASSUME NEW s \in State, Clients(s), NEW f \in Frame, NEW c \in Client,
         s.frameOf[c] = NULL, c \in ToSet(s.list), s.wsOf[f] # NULL, ShownBut(s, {c})
  PROVE  LET r == LinkClient(s, f, c) IN
         /\ r \in State /\ Moves(s, r)
         /\ FrameLinks(r) /\ OwnCurrents(r) /\ Members(r) /\ WinLinks(r) /\ ShownBut(r, {c})
         /\ \A g \in Frame \ {f} : r.cur[g] = NULL => r.clients[g] = <<>>
         /\ r.cur = s.cur /\ r.frameOf = [s.frameOf EXCEPT ![c] = f]
         /\ ~IsCurrent(r, c)
<1> DEFINE r == LinkClient(s, f, c)
           q == s.clients[f]
           l == LinkAfter(q, s.cur[f], c)
<1>1. /\ q \in Seq(Client) /\ IsInjective(q) /\ c \notin ToSet(q) /\ f # NULL
      /\ s.frameOf \in [Client -> Frame \cup {NULL}] /\ s.cur \in [Frame -> Client \cup {NULL}]
      /\ s.clients \in [Frame -> Seq(Client)] /\ s.count \in [Frame -> Int]
      /\ NULL \notin Client /\ NULL \notin Frame
  BY ClassesAreDisjoint DEF State, Clients, FrameLinks
<1>2. /\ r \in State /\ SameThings(s, r) /\ SamePointers(s, r)
      /\ r.state = s.state /\ r.cur = s.cur
      /\ r.clients = [s.clients EXCEPT ![f] = LinkAfter(@, s.cur[f], c)]
      /\ r.frameOf = [s.frameOf EXCEPT ![c] = f]
      /\ r.count   = [s.count EXCEPT ![f] = @ + 1]
  BY LinkClientFields
<1> HIDE DEF r
<1>3. IsInjective(l) /\ ToSet(l) = ToSet(q) \cup {c} /\ Len(l) = Len(q) + 1
  BY <1>1, LinkAfterFacts
<1>4. FrameLinks(r)
  <2> SUFFICES ASSUME NEW g \in Frame
               PROVE  /\ IsInjective(r.clients[g])
                      /\ ToSet(r.clients[g]) = {d \in Client : r.frameOf[d] = g}
                      /\ r.count[g] = Len(r.clients[g])
    BY DEF FrameLinks
  <2>1. /\ IsInjective(s.clients[g]) /\ s.count[g] = Len(s.clients[g])
        /\ ToSet(s.clients[g]) = {d \in Client : s.frameOf[d] = g}
    BY DEF Clients, FrameLinks
  <2>2. CASE g = f
    <3>1. r.clients[g] = l /\ r.count[g] = s.count[g] + 1
      BY <1>1, <1>2, <2>2
    <3>2. {d \in Client : r.frameOf[d] = g} = {d \in Client : s.frameOf[d] = g} \cup {c}
      BY <1>1, <1>2, <2>2
    <3> QED
      BY <1>3, <2>1, <2>2, <3>1, <3>2
  <2>3. CASE g # f
    <3>1. r.clients[g] = s.clients[g] /\ r.count[g] = s.count[g]
      BY <1>1, <1>2, <2>3
    <3>2. {d \in Client : r.frameOf[d] = g} = {d \in Client : s.frameOf[d] = g}
      BY <1>1, <1>2, <2>3
    <3> QED
      BY <2>1, <3>1, <3>2
  <2> QED
    BY <2>2, <2>3
<1>5. \A g \in Frame : s.cur[g] # c
  BY <1>1 DEF Clients, OwnCurrents
<1>6. OwnCurrents(r) /\ Members(r) /\ WinLinks(r)
  BY <1>1, <1>2, <1>5 DEF Clients, OwnCurrents, Members, WinLinks, SameThings
<1>7. ShownBut(r, {c}) /\ ~IsCurrent(r, c)
  BY <1>2, <1>5 DEF ShownBut, SameThings, IsCurrent
<1>8. Moves(s, r)
  BY <1>2 DEF Moves, SamePointers, Focuses
<1>9. \A g \in Frame \ {f} : r.cur[g] = NULL => r.clients[g] = <<>>
  BY <1>1, <1>2 DEF Clients, SomeCurrents
<1> QED
  BY <1>2, <1>4, <1>6, <1>7, <1>8, <1>9 DEF r

LEMMA HideClientSound ==
  ASSUME NEW s \in State, WinLinks(s), NEW c \in Client, ShownBut(s, {c}), ~IsCurrent(s, c)
  PROVE  LET r == HideClient(s, c) IN
         /\ r \in State /\ Moves(s, r) /\ SameLinks(s, r) /\ r.cur = s.cur /\ ShownBut(r, {})
<1> DEFINE r == HideClient(s, c)
<1>1. Shows(s, r, c, "Iconic")
  BY ShowHideFields
<1> HIDE DEF r
<1>2. Moves(s, r)
  BY <1>1 DEF Shows, Moves, SamePointers, Focuses
<1>3. ASSUME NEW w \in Win
      PROVE  r.state[w] = IF s.clientOf[w] = NULL THEN "Withdrawn"
                          ELSE IF IsCurrent(s, s.clientOf[w]) THEN "Normal" ELSE "Iconic"
  <2>1. w \in ToSet(s.wins[c]) <=> s.clientOf[w] = c
    BY DEF WinLinks
  <2>2. r.state[w] = IF s.clientOf[w] = c THEN "Iconic" ELSE s.state[w]
    BY <1>1, <2>1 DEF Shows
  <2>3. CASE s.clientOf[w] = c
    BY <2>2, <2>3, ClassesAreDisjoint
  <2>4. CASE s.clientOf[w] # c
    BY <2>2, <2>4 DEF ShownBut
  <2> QED
    BY <2>3, <2>4
<1>4. ShownBut(r, {})
  BY <1>1, <1>3 DEF Shows, SameThings, ShownBut, IsCurrent
<1> QED
  BY <1>1, <1>2, <1>4 DEF Shows, r

\* Client c is put into frame f, and the frames show what they should (Placement!Put).
Others(s, g, c) == {d \in Client : s.frameOf[d] = g} \ {c}

Puts(s, r, c, f) ==
  /\ r.frameOf = [s.frameOf EXCEPT ![c] = f]
  /\ \A g \in Frame :
       r.cur[g] \in IF g = f THEN {c, s.cur[g]} \ {NULL}
                    ELSE IF s.cur[g] # c THEN {s.cur[g]}
                    ELSE IF Others(s, g, c) # {} THEN Others(s, g, c) ELSE {NULL}

\* The frame a client leaves shows another one of its own, if it has any.
LEMMA LeftFrameShowsAnother ==
  ASSUME NEW s \in State, NEW r \in State, Clients(s), Clients(r),
         NEW c \in Client, NEW f \in Frame \cup {NULL}, r.frameOf = [s.frameOf EXCEPT ![c] = f],
         NEW g \in Frame, g # f
  PROVE  r.cur[g] \in IF Others(s, g, c) # {} THEN Others(s, g, c) ELSE {NULL}
<1>1. /\ s.frameOf \in [Client -> Frame \cup {NULL}]
      /\ r.cur[g] \in Client \cup {NULL} /\ r.clients[g] \in Seq(Client)
  BY DEF State
<1>2. {d \in Client : r.frameOf[d] = g} = Others(s, g, c)
  BY <1>1 DEF Others
<1>3. CASE r.cur[g] = NULL
  <2>1. ToSet(r.clients[g]) = {}
    BY <1>3 DEF Clients, SomeCurrents, ToSet
  <2>2. Others(s, g, c) = {}
    BY <1>2, <2>1 DEF Clients, FrameLinks
  <2> QED
    BY <1>3, <2>2
<1>4. CASE r.cur[g] # NULL
  <2>1. r.cur[g] \in Client /\ r.frameOf[r.cur[g]] = g
    BY <1>1, <1>4 DEF Clients, OwnCurrents
  <2>2. r.cur[g] \in Others(s, g, c)
    BY <1>2, <2>1
  <2> QED
    BY <2>2
<1> QED
  BY <1>3, <1>4

\* frame_attach_client of a client that is not in the frame.
LEMMA AttachClientSound ==
  ASSUME NEW s \in State, Clients(s), NEW f \in Frame, NEW c \in Client, NEW switchto \in BOOLEAN,
         c \in ToSet(s.list), s.frameOf[c] # f, s.wsOf[f] # NULL, ShownBut(s, {c})
  PROVE  LET r == AttachClient(s, f, c, switchto) IN
         /\ r \in State /\ Moves(s, r) /\ Clients(r) /\ ShownBut(r, {})
         /\ Puts(s, r, c, f) /\ (switchto => r.cur[f] = c)
<1> DEFINE d == IF s.frameOf[c] # NULL THEN DetachClient(s, s.frameOf[c], c) ELSE s
           l == LinkClient(d, f, c)
           r == AttachClient(s, f, c, switchto)
<1>1. /\ f # NULL /\ NULL \notin Client /\ NULL \notin Frame
      /\ s.frameOf \in [Client -> Frame \cup {NULL}] /\ s.cur \in [Frame -> Client \cup {NULL}]
  BY ClassesAreDisjoint DEF State
<1>2. /\ d \in State /\ Moves(s, d) /\ Clients(d) /\ ShownBut(d, {c})
      /\ d.frameOf = [s.frameOf EXCEPT ![c] = NULL]
      /\ \A g \in Frame : s.cur[g] # c => d.cur[g] = s.cur[g]
  <2>1. CASE s.frameOf[c] # NULL
    <3>1. s.frameOf[c] \in Frame
      BY <1>1, <2>1
    <3>2. /\ d \in State /\ Moves(s, d) /\ Clients(d) /\ ShownBut(d, {c})
          /\ d.frameOf = [s.frameOf EXCEPT ![c] = NULL]
          /\ Leaves(s, d, s.frameOf[c], c)
      BY <2>1, <3>1, DetachClientSound
    <3> HIDE DEF d
    <3> QED
      BY <3>2 DEF Leaves
  <2>2. CASE s.frameOf[c] = NULL
    <3>1. s.frameOf = [s.frameOf EXCEPT ![c] = NULL]
      BY <1>1, <2>2
    <3> QED
      BY <2>2, <3>1, MovesReflexive
  <2> QED
    BY <2>1, <2>2
<1>3. r = IF switchto \/ d.count[f] = 0 THEN DoFrameSwitchClient(l, f, c) ELSE HideClient(l, c)
  BY DEF AttachClient
<1> HIDE DEF d, r
<1>4. d.frameOf[c] = NULL /\ c \in ToSet(d.list) /\ d.wsOf[f] # NULL
  BY <1>1, <1>2 DEF Moves, SameThings
<1>5. /\ l \in State /\ Moves(d, l)
      /\ FrameLinks(l) /\ OwnCurrents(l) /\ Members(l) /\ WinLinks(l) /\ ShownBut(l, {c})
      /\ \A g \in Frame \ {f} : l.cur[g] = NULL => l.clients[g] = <<>>
      /\ l.cur = d.cur /\ l.frameOf = [d.frameOf EXCEPT ![c] = f]
      /\ ~IsCurrent(l, c)
  BY <1>2, <1>4, LinkClientSound
<1> HIDE DEF l
<1>6. l.frameOf = [s.frameOf EXCEPT ![c] = f] /\ l.frameOf[c] = f
  BY <1>1, <1>2, <1>5
<1>7. l.cur[f] # c /\ c \in ToSet(l.list)
  BY <1>4, <1>5 DEF IsCurrent, Moves, SameThings
<1>8. /\ r \in State /\ Moves(l, r) /\ SameLinks(l, r) /\ OwnCurrents(r) /\ SomeCurrents(r)
      /\ ShownBut(r, {})
      /\ \A g \in Frame \ {f} : r.cur[g] = d.cur[g]
      /\ r.cur[f] \in {c, d.cur[f]} \ {NULL} /\ (switchto => r.cur[f] = c)
  <2>1. CASE switchto \/ d.count[f] = 0
    <3>1. r = DoFrameSwitchClient(l, f, c)
      BY <1>3, <2>1
    <3>2. /\ r \in State /\ Moves(l, r) /\ SameLinks(l, r)
          /\ r.cur = [l.cur EXCEPT ![f] = c]
          /\ r.state = [w \in Win |->
                         IF l.cur[f] # NULL /\ w \in ToSet(l.wins[l.cur[f]]) THEN "Iconic"
                         ELSE IF w \in ToSet(l.wins[c]) THEN "Normal" ELSE l.state[w]]
      BY <1>5, <1>7, <3>1, SwitchFacts
    <3>3. r.clientOf = l.clientOf /\ r.frameOf = l.frameOf
      BY <3>2 DEF Moves, SameThings, SameLinks
    <3>4. OwnCurrents(r) /\ ShownBut(r, {c} \ {c})
      BY <1>5, <1>6, <1>7, <3>2, <3>3, SwitchShows
    <3>5. {c} \ {c} = {}
      OBVIOUS
    <3>6. l.cur \in [Frame -> Client \cup {NULL}]
      BY <1>5 DEF State
    <3>7. SomeCurrents(r)
      BY <1>1, <1>5, <3>2, <3>6 DEF SomeCurrents, SameLinks
    <3> QED
      BY ZenonT(30), <1>1, <1>5, <3>2, <3>4, <3>5, <3>6, <3>7
  <2>2. CASE ~(switchto \/ d.count[f] = 0)
    <3>1. r = HideClient(l, c)
      BY <1>3, <2>2
    <3>2. /\ r \in State /\ Moves(l, r) /\ SameLinks(l, r) /\ r.cur = l.cur /\ ShownBut(r, {})
      BY <1>5, <3>1, HideClientSound
    <3>3. OwnCurrents(r)
      BY <1>5, <3>2 DEF OwnCurrents, SameLinks
    <3>4. d.cur[f] # NULL
      <4>1. d.clients[f] # <<>>
        BY <1>2, <2>2 DEF Clients, FrameLinks
      <4> QED
        BY <1>2, <4>1 DEF Clients, SomeCurrents
    <3>5. SomeCurrents(r)
      BY <1>5, <3>2, <3>4 DEF SomeCurrents, SameLinks
    <3> QED
      BY <1>5, <2>2, <3>2, <3>3, <3>4, <3>5
  <2> QED
    BY <2>1, <2>2
<1>9. FrameLinks(r) /\ Members(r) /\ WinLinks(r)
  BY <1>5, <1>8, SameThingsKeep DEF Moves, SameLinks
<1>10. Clients(r)
  BY <1>8, <1>9 DEF Clients
<1>11. Moves(s, r)
  <2>1. Moves(s, l)
    BY <1>2, <1>5, MovesTransitive
  <2> QED
    BY <1>5, <1>8, <2>1, MovesTransitive
<1>12. r.frameOf = [s.frameOf EXCEPT ![c] = f]
  BY <1>6, <1>8 DEF SameLinks
<1>13. s.cur[f] # c
  BY <1>1 DEF Clients, OwnCurrents
<1>14. Puts(s, r, c, f)
  <2>1. ASSUME NEW g \in Frame, g # f
        PROVE  r.cur[g] \in IF Others(s, g, c) # {} THEN Others(s, g, c) ELSE {NULL}
    <3>1. r \in State
      BY <1>8
    <3> QED
      BY <1>10, <1>12, <2>1, <3>1, LeftFrameShowsAnother
  <2>2. r.cur[f] \in {c, s.cur[f]} \ {NULL}
    BY <1>2, <1>8, <1>13
  <2>3. \A g \in Frame \ {f} : s.cur[g] # c => r.cur[g] = s.cur[g]
    BY <1>2, <1>8
  <2> QED
    BY <1>12, <2>1, <2>2, <2>3 DEF Puts
<1> QED
  BY <1>8, <1>10, <1>11, <1>14, <1>3 DEF r

-----------------------------------------------------------------------------
(* The whole invariant of a tree, between two calls of a handler. *)

\* The clients there are, but for those in X, are those with windows, all in frames.
Listed(s, X) ==
  /\ IsInjective(s.list) /\ s.tagged \subseteq ToSet(s.list)
  /\ \A c \in Client \ X : /\ c \in ToSet(s.list) <=> s.wins[c] # <<>>
                           /\ c \in ToSet(s.list) => s.frameOf[c] # NULL

\* The workspaces are those that have frames; the frames of the current one are mapped.
Grounds(s) ==
  /\ ToSet(s.workspaces) = {s.wsOf[f] : f \in Frame} \ {NULL}
  /\ IsInjective(s.workspaces) /\ s.curws \in ToSet(s.workspaces)
  /\ s.mapped = FramesOf(s, s.curws)
  /\ \A f \in Frame : s.wsOf[f] = NULL => s.input[f] = NULL

\* A pointer names nothing that has been destroyed.
Names(s, t) == t = NULL \/ Alive(s, t)

\* The input of a frame is the function thing only while the frame is visible: for
\* do_destroy_thing checks a frame before its input, and what the check of the input
\* leaves, the frame, is replaced only when the focus goes elsewhere.
Pointers(s) ==
  /\ Names(s, s.fnext) /\ Names(s, s.prev) /\ Names(s, s.fthing) /\ Names(s, s.fframe)
  /\ s.wswin # NULL => s.wsOf[s.wswin] = s.curws
  /\ \A f \in Frame : s.fthing = Input(f) => s.wsOf[f] = s.curws

Whole(s) ==
  s \in State /\ Clients(s) /\ ShownBut(s, {}) /\ Listed(s, {}) /\ Grounds(s) /\ Pointers(s)

\* Everything that says whether a thing is alive.
LEMMA SameAlive ==
  ASSUME NEW s, NEW r, SameThings(s, r), NEW t
  PROVE  Alive(r, t) <=> Alive(s, t)
BY DEF SameThings, Alive, IsLiveFrame, IsLiveClient, IsManaged

LEMMA GroundsKept ==
  ASSUME NEW s, NEW r, SameThings(s, r), Grounds(s)
  PROVE  Grounds(r)
<1>1. /\ r.wsOf = s.wsOf /\ r.workspaces = s.workspaces /\ r.curws = s.curws
      /\ r.mapped = s.mapped /\ r.input = s.input
  BY DEF SameThings
<1>2. FramesOf(r, r.curws) = FramesOf(s, s.curws)
  BY <1>1 DEF FramesOf
<1> QED
  BY <1>1, <1>2 DEF Grounds

LEMMA ListedKept ==
  ASSUME NEW s, NEW r, SameThings(s, r), NEW X, Listed(s, X),
         \A c \in Client \ X : s.frameOf[c] # NULL => r.frameOf[c] # NULL
  PROVE  Listed(r, X)
BY DEF SameThings, Listed

\* A list holds clients, and neither inputs nor NULL.
LEMMA ListedThings ==
  ASSUME NEW s \in State, NEW t \in ToSet(s.list)
  PROVE  t \in Client /\ t \in Things /\ t # NULL /\ Alive(s, t) /\ \A f \in Frame : t # Input(f)
<1>1. t \in Client /\ t # NULL
  BY ListIsClients
<1>2. \A f \in Frame : t # Input(f)
  BY <1>1, InputsAreApart DEF Inputs
<1> QED
  BY <1>1, <1>2 DEF Things, Alive, IsLiveClient

LEMMA PointersMove ==
  ASSUME NEW s \in State, NEW r \in State, Grounds(s), Pointers(s), Moves(s, r)
  PROVE  Pointers(r)
<1>1. SameThings(s, r) /\ r.wsOf = s.wsOf /\ r.curws = s.curws
  BY DEF Moves, SameThings
<1>2. \A t : Names(r, t) <=> Names(s, t)
  BY <1>1, SameAlive DEF Names
<1>3. \A t \in ToSet(s.list) : Names(s, t)
  BY ListedThings DEF Names
<1>4. Names(s, s.wswin)
  <2>1. s.wswin # NULL => s.wswin \in Frame /\ s.wsOf[s.wswin] = s.curws
    BY DEF State, Pointers
  <2>2. s.curws # NULL
    BY DEF Grounds
  <2> QED
    BY <2>1, <2>2 DEF Names, Alive, IsLiveFrame
<1>5. Names(s, r.fnext) /\ Names(s, r.prev) /\ Names(s, r.fthing) /\ Names(s, r.fframe)
  BY <1>3, <1>4 DEF Moves, Pointers
<1>6. r.wswin # NULL => r.wsOf[r.wswin] = r.curws
  BY <1>1 DEF Moves, Pointers
<1>7. \A f \in Frame : r.fthing = Input(f) => r.wsOf[f] = r.curws
  BY <1>1, ListedThings DEF Moves, Pointers
<1> QED
  BY <1>2, <1>5, <1>6, <1>7 DEF Pointers

-----------------------------------------------------------------------------
(* Operators on a whole tree. *)

\* Pointers only.
LEMMA PointersOnly ==
  ASSUME NEW s, Whole(s), NEW r \in State, SameView(s, r), Pointers(r)
  PROVE  Whole(r)
<1>1. SameThings(s, r) /\ SameLinks(s, r) /\ r.cur = s.cur /\ r.state = s.state
  BY DEF SameView
<1>2. FrameLinks(r) /\ Members(r) /\ WinLinks(r)
  BY <1>1, SameThingsKeep DEF Whole, Clients, SameLinks
<1>3. OwnCurrents(r) /\ SomeCurrents(r) /\ ShownBut(r, {})
  BY <1>1 DEF Whole, Clients, OwnCurrents, SomeCurrents, ShownBut, SameThings, SameLinks, IsCurrent
<1>4. Listed(r, {}) /\ Grounds(r)
  BY <1>1, ListedKept, GroundsKept DEF Whole, SameLinks
<1> QED
  BY <1>2, <1>3, <1>4 DEF Whole, Clients

LEMMA SetFocusWhole ==
  ASSUME NEW s, Whole(s), NEW t \in Things, Alive(s, t),
         \A f \in Frame : t = Input(f) => s.wsOf[f] = s.curws
  PROVE  Whole(SetFocus(s, t))
<1> DEFINE r == SetFocus(s, t)
<1>1. /\ r \in State /\ SameView(s, r)
      /\ r.wswin = s.wswin /\ r.protect = s.protect /\ r.fframe = s.fframe /\ r.prev = s.prev
      /\ r.fnext = t /\ r.fthing = t
  BY SetFocusFields DEF Whole
<1> HIDE DEF r
<1>2. r.wsOf = s.wsOf /\ r.curws = s.curws /\ \A x : Names(r, x) <=> Names(s, x)
  BY <1>1, SameAlive DEF SameView, SameThings, Names
<1>3. Pointers(r)
  BY <1>1, <1>2 DEF Whole, Pointers, Names
<1> QED
  BY <1>1, <1>3, PointersOnly DEF r

LEMMA SetPreviousWhole ==
  ASSUME NEW s, Whole(s), NEW t
  PROVE  Whole(SetPrevious(s, t))
<1> DEFINE r == SetPrevious(s, t)
<1>1. /\ r \in State /\ SameView(s, r)
      /\ r.wswin = s.wswin /\ r.protect = s.protect /\ r.fframe = s.fframe
      /\ r.fnext = s.fnext /\ r.fthing = s.fthing
      /\ r.prev = s.prev \/ (s.wswin # NULL /\ r.prev = CurrentClientOrFrame(s))
  BY SetPreviousFields DEF Whole
<1> HIDE DEF r
<1>2. r.wsOf = s.wsOf /\ r.curws = s.curws /\ \A x : Names(r, x) <=> Names(s, x)
  BY <1>1, SameAlive DEF SameView, SameThings, Names
<1>3. s.wswin # NULL => Names(s, CurrentClientOrFrame(s))
  <2> SUFFICES ASSUME s.wswin # NULL PROVE Names(s, CurrentClientOrFrame(s))
    OBVIOUS
  <2>1. s.wswin \in Frame /\ s.wsOf[s.wswin] # NULL
    BY DEF Whole, State, Pointers, Grounds
  <2>2. s.cur[s.wswin] # NULL => s.cur[s.wswin] \in ToSet(s.list)
    BY <2>1, CurrentIsListed DEF Whole, Clients
  <2> QED
    BY <2>1, <2>2 DEF CurrentClientOrFrame, Names, Alive, IsLiveFrame, IsLiveClient
<1>4. Pointers(r)
  BY <1>1, <1>2, <1>3 DEF Whole, Pointers
<1> QED
  BY <1>1, <1>4, PointersOnly DEF r

LEMMA ProtectWhole ==
  ASSUME NEW s, Whole(s)
  PROVE  /\ Whole(Protect(s)) /\ SameView(s, Protect(s)) /\ Protect(s).protect = s.protect + 1
         /\ Whole(Unprotect(s)) /\ SameView(s, Unprotect(s)) /\ Unprotect(s).protect = s.protect - 1
         /\ Protect(s).fnext = s.fnext /\ Protect(s).fthing = s.fthing /\ Protect(s).wswin = s.wswin
         /\ Unprotect(s).fnext = s.fnext /\ Unprotect(s).fthing = s.fthing
         /\ Unprotect(s).wswin = s.wswin
<1>1. ASSUME NEW i \in Int
      PROVE  LET r == [s EXCEPT !.protect = i] IN
             /\ r \in State /\ SameView(s, r) /\ r.protect = i
             /\ r.fnext = s.fnext /\ r.fthing = s.fthing /\ r.wswin = s.wswin
             /\ r.prev = s.prev /\ r.fframe = s.fframe
  BY DEF Whole, State, SameView, SameThings, SameLinks
<1>2. ASSUME NEW r \in State, SameView(s, r),
             r.fnext = s.fnext, r.fthing = s.fthing, r.wswin = s.wswin,
             r.prev = s.prev, r.fframe = s.fframe
      PROVE  Whole(r)
  <2>1. r.wsOf = s.wsOf /\ r.curws = s.curws /\ \A x : Names(r, x) <=> Names(s, x)
    BY <1>2, SameAlive DEF SameView, SameThings, Names
  <2>2. Pointers(r)
    BY <1>2, <2>1 DEF Whole, Pointers
  <2> QED
    BY <1>2, <2>2, PointersOnly
<1>3. s.protect + 1 \in Int /\ s.protect - 1 \in Int
  BY DEF Whole, State
<1> QED
  BY <1>1, <1>2, <1>3 DEF Protect, Unprotect

\* An operator of a command: the focus follows the clients shown in the active frame,
\* nothing is left protected, and a sequence keeps a thing to go on with.
Attends(s, r) ==
  /\ r.input = s.input
  /\ s.fnext # NULL => r.fnext # NULL
  /\ r.fnext = NULL =>
       /\ r.wswin = s.wswin
       /\ \A f \in Frame : s.wswin = f /\ s.input[f] = NULL => r.cur[f] \in {NULL, s.cur[f]}

Steps(s, r) ==
  /\ Whole(r) /\ Attends(s, r) /\ r.protect = s.protect
  /\ s.fthing # NULL => r.fthing # NULL

LEMMA StepsTransitive ==
  ASSUME NEW s, NEW d, NEW r, Steps(s, d), Steps(d, r)
  PROVE  Steps(s, r)
BY DEF Steps, Attends

LEMMA StepsReflexive ==
  ASSUME NEW s, Whole(s)
  PROVE  Steps(s, s)
BY DEF Steps, Attends

LEMMA MovesSteps ==
  ASSUME NEW s, Whole(s), NEW r \in State, Moves(s, r), Clients(r), ShownBut(r, {}), Listed(r, {})
  PROVE  Steps(s, r)
<1>1. SameThings(s, r) /\ s \in State
  BY DEF Moves, Whole
<1>2. Pointers(r) /\ Grounds(r)
  BY <1>1, PointersMove, GroundsKept DEF Whole
<1>3. NULL \notin ToSet(s.list)
  BY <1>1, ListIsClients
<1>4. r.input = s.input /\ r.wswin = s.wswin /\ r.protect = s.protect
  BY <1>1 DEF Moves, SameThings
<1>5. (s.fnext # NULL => r.fnext # NULL) /\ (s.fthing # NULL => r.fthing # NULL)
  BY <1>3 DEF Moves
<1>6. Attends(s, r)
  BY <1>4, <1>5 DEF Attends, Moves, Focuses
<1> QED
  BY <1>2, <1>4, <1>5, <1>6 DEF Steps, Whole

\* frame_switch_client and its callers.
LEMMA SwitchedWhole ==
  ASSUME NEW s, Whole(s), NEW r, Switched(s, r)
  PROVE  Steps(s, r) /\ Moves(s, r) /\ r.frameOf = s.frameOf
<1>1. /\ s \in State /\ r \in State /\ SameThings(s, r) /\ r.frameOf = s.frameOf
      /\ Clients(r) /\ ShownBut(r, {}) /\ Moves(s, r)
  BY DEF Whole, Switched, SameLinks, Moves
<1>2. Listed(r, {})
  BY <1>1, ListedKept DEF Whole
<1> QED
  BY <1>1, <1>2, MovesSteps

LEMMA FrameSwitchClientWhole ==
  ASSUME NEW s, Whole(s), NEW f \in Frame, NEW c \in Client, s.frameOf[c] = f
  PROVE  LET r == FrameSwitchClient(s, f, c) IN
         Steps(s, r) /\ Moves(s, r) /\ r.frameOf = s.frameOf /\ r.cur = [s.cur EXCEPT ![f] = c]
<1> DEFINE r == FrameSwitchClient(s, f, c)
<1>1. f # NULL
  BY ClassesAreDisjoint
<1>2. /\ r \in State /\ Moves(s, r) /\ SameLinks(s, r) /\ Clients(r) /\ ShownBut(r, {})
      /\ r.cur = [s.cur EXCEPT ![f] = c]
  BY FrameSwitchClientSound DEF Whole
<1> HIDE DEF r
<1>3. Switched(s, r)
  BY <1>1, <1>2 DEF Switched
<1> QED
  BY <1>2, <1>3, SwitchedWhole DEF r

\* frame_attach_client of a client that has a window, and of one that is in a frame.
LEMMA AttachWhole ==
  ASSUME NEW s \in State, NEW f \in Frame, NEW c \in Client, NEW switchto \in BOOLEAN,
         Clients(s), ShownBut(s, {c}), Listed(s, {c}), Grounds(s), Pointers(s),
         c \in ToSet(s.list), s.wins[c] # <<>>, s.frameOf[c] # f, s.wsOf[f] # NULL
  PROVE  LET r == AttachClient(s, f, c, switchto) IN
         /\ Whole(r) /\ Moves(s, r) /\ Puts(s, r, c, f) /\ (switchto => r.cur[f] = c)
<1> DEFINE r == AttachClient(s, f, c, switchto)
<1>1. /\ r \in State /\ Moves(s, r) /\ Clients(r) /\ ShownBut(r, {})
      /\ Puts(s, r, c, f) /\ (switchto => r.cur[f] = c)
  BY AttachClientSound
<1> HIDE DEF r
<1>2. SameThings(s, r) /\ r.frameOf = [s.frameOf EXCEPT ![c] = f]
  BY <1>1 DEF Moves, Puts
<1>3. f # NULL /\ s.frameOf \in [Client -> Frame \cup {NULL}]
  BY ClassesAreDisjoint DEF State
<1>4. Listed(r, {})
  BY <1>2, <1>3 DEF Listed, SameThings
<1>5. Grounds(r) /\ Pointers(r)
  BY <1>1, <1>2, GroundsKept, PointersMove
<1> QED
  BY <1>1, <1>4, <1>5 DEF Whole, r

LEMMA AttachPlacedWhole ==
  ASSUME NEW s, Whole(s), NEW f \in Frame, NEW c \in Client, NEW switchto \in BOOLEAN,
         c \in ToSet(s.list), s.wsOf[f] # NULL
  PROVE  LET r == AttachClient(s, f, c, switchto) IN
         /\ Steps(s, r) /\ Moves(s, r) /\ r.frameOf = [s.frameOf EXCEPT ![c] = f]
         /\ (s.frameOf[c] = f => r = s)
         /\ (s.frameOf[c] # f => Puts(s, r, c, f) /\ (switchto => r.cur[f] = c))
<1> DEFINE r == AttachClient(s, f, c, switchto)
<1>0. s \in State /\ s.frameOf \in [Client -> Frame \cup {NULL}]
  BY DEF Whole, State
<1>1. CASE s.frameOf[c] = f
  <2>1. r = s /\ s.frameOf = [s.frameOf EXCEPT ![c] = f]
    BY <1>0, <1>1 DEF AttachClient
  <2> QED
    BY <1>0, <1>1, <2>1, MovesReflexive, StepsReflexive
<1>2. CASE s.frameOf[c] # f
  <2>1. Clients(s) /\ ShownBut(s, {c}) /\ Listed(s, {c}) /\ Grounds(s) /\ Pointers(s)
    BY DEF Whole, ShownBut, Listed
  <2>2. s.wins[c] # <<>>
    BY DEF Whole, Listed
  <2>3. Whole(r) /\ Moves(s, r) /\ Puts(s, r, c, f) /\ (switchto => r.cur[f] = c)
    BY <1>0, <1>2, <2>1, <2>2, AttachWhole
  <2> HIDE DEF r
  <2>4. Steps(s, r)
    BY <2>3, MovesSteps DEF Whole
  <2> QED
    BY <1>2, <2>3, <2>4 DEF r, Puts
<1> QED
  BY <1>1, <1>2

-----------------------------------------------------------------------------
(* Inputs, frames and workspaces. *)

SameClients(s, r) ==
  /\ r.clientOf = s.clientOf /\ r.wins = s.wins /\ r.list = s.list /\ r.tagged = s.tagged
  /\ r.state = s.state /\ SameLinks(s, r) /\ r.cur = s.cur

SameGrounds(s, r) ==
  r.wsOf = s.wsOf /\ r.workspaces = s.workspaces /\ r.mapped = s.mapped /\ r.curws = s.curws

\* Clients do not mind what happens to empty frames.
LEMMA ClientsKept ==
  ASSUME NEW s \in State, Clients(s), ShownBut(s, {}), Listed(s, {}), NEW r, SameClients(s, r),
         \A f \in Frame : s.clients[f] # <<>> => r.wsOf[f] # NULL
  PROVE  Clients(r) /\ ShownBut(r, {}) /\ Listed(r, {})
<1>1. s.frameOf \in [Client -> Frame \cup {NULL}]
  BY DEF State
<1>2. ASSUME NEW c \in Client, s.frameOf[c] # NULL
      PROVE  r.wsOf[s.frameOf[c]] # NULL
  <2>1. c \in ToSet(s.clients[s.frameOf[c]])
    BY <1>1, <1>2 DEF Clients, FrameLinks
  <2>2. s.clients[s.frameOf[c]] # <<>>
    BY <2>1 DEF ToSet
  <2> QED
    BY <1>1, <1>2, <2>2
<1>3. Members(r)
  BY <1>2 DEF Clients, Members, SameClients, SameLinks
<1>4. FrameLinks(r) /\ OwnCurrents(r) /\ SomeCurrents(r) /\ WinLinks(r)
  BY DEF Clients, FrameLinks, OwnCurrents, SomeCurrents, WinLinks, SameClients, SameLinks
<1>5. ShownBut(r, {})
  BY DEF ShownBut, SameClients, IsCurrent
<1>6. Listed(r, {})
  BY DEF Listed, SameClients, SameLinks
<1> QED
  BY <1>3, <1>4, <1>5, <1>6 DEF Clients

LEMMA UsedFramesLive ==
  ASSUME NEW s \in State, Clients(s), NEW f \in Frame
  PROVE  /\ s.clients[f] # <<>> => s.wsOf[f] # NULL
         /\ s.clients[f] = <<>> <=> \A c \in Client : s.frameOf[c] # f
<1>1. s.clients[f] \in Seq(Client) /\ f # NULL
  BY ClassesAreDisjoint DEF State
<1>2. ToSet(s.clients[f]) = {c \in Client : s.frameOf[c] = f}
  BY DEF Clients, FrameLinks
<1>3. s.clients[f] = <<>> <=> ToSet(s.clients[f]) = {}
  BY <1>1, ElementFacts
<1>4. s.clients[f] = <<>> <=> \A c \in Client : s.frameOf[c] # f
  BY <1>2, <1>3
<1>5. s.clients[f] # <<>> => s.wsOf[f] # NULL
  BY <1>1, <1>4 DEF Clients, Members
<1> QED
  BY <1>4, <1>5

LEMMA CheckFunctionThingFields ==
  ASSUME NEW s \in State, NEW t, NEW p \in Things \cup {NULL}
  PROVE  LET r == CheckFunctionThing(s, t, p) IN
         /\ r \in State /\ SameView(s, r)
         /\ r.wswin = s.wswin /\ r.protect = s.protect /\ r.fnext = s.fnext /\ r.prev = s.prev
         /\ r.fthing = (IF s.fthing = t THEN p ELSE s.fthing)
         /\ r.fframe = (IF s.fframe = t THEN NULL ELSE s.fframe)
<1> DEFINE x == IF s.fthing = t THEN p ELSE s.fthing
           y == IF s.fframe = t THEN NULL ELSE s.fframe
           r == [s EXCEPT !.fthing = x, !.fframe = y]
<1>1. r = CheckFunctionThing(s, t, p)
  BY DEF CheckFunctionThing, State
<1>2. SameView(s, r) /\ r.fthing = x /\ r.fframe = y
      /\ r.wswin = s.wswin /\ r.protect = s.protect /\ r.fnext = s.fnext /\ r.prev = s.prev
  BY DEF State, SameView, SameThings, SameLinks
<1> QED
  BY <1>1, <1>2, CheckFunctionThingType

LEMMA ForgetThingFields ==
  ASSUME NEW s \in State, NEW t, NEW p \in Things \cup {NULL}
  PROVE  LET r == ForgetThing(s, t, p) IN
         /\ r \in State /\ SameView(s, r)
         /\ r.wswin = s.wswin /\ r.protect = s.protect
         /\ r.fthing = s.fthing /\ r.fframe = s.fframe
         /\ r.fnext = (IF s.fnext = t THEN NULL ELSE s.fnext)
         /\ r.prev = (IF s.prev = t THEN p ELSE s.prev)
<1> DEFINE x == IF s.fnext = t THEN NULL ELSE s.fnext
           y == IF s.prev = t THEN p ELSE s.prev
           r == [s EXCEPT !.fnext = x, !.prev = y]
<1>1. r = ForgetThing(s, t, p)
  BY DEF ForgetThing, State
<1>2. SameView(s, r) /\ r.fnext = x /\ r.prev = y
      /\ r.wswin = s.wswin /\ r.protect = s.protect /\ r.fthing = s.fthing /\ r.fframe = s.fframe
  BY DEF State, SameView, SameThings, SameLinks
<1> QED
  BY <1>1, <1>2, ForgetThingType

LEMMA SetInputFields ==
  ASSUME NEW s \in State, NEW f \in Frame, NEW k \in {NULL, "query", "message"}
  PROVE  LET r == [s EXCEPT !.input[f] = k] IN
         /\ r \in State /\ SameClients(s, r) /\ SameGrounds(s, r) /\ SamePointers(s, r)
         /\ r.input = [s.input EXCEPT ![f] = k]
<1>1. [s EXCEPT !.input[f] = k] \in State
  BY DEF State
<1> QED
  BY <1>1 DEF State, SameClients, SameLinks, SameGrounds, SamePointers

\* Only an input has come or gone.
LEMMA InputKeeps ==
  ASSUME NEW s, Whole(s), NEW r \in State, SameClients(s, r), SameGrounds(s, r),
         \A f \in Frame : s.wsOf[f] = NULL => r.input[f] = NULL,
         Pointers(r)
  PROVE  Whole(r)
<1>1. s \in State /\ s.frameOf \in [Client -> Frame \cup {NULL}]
  BY DEF Whole, State
<1>2. \A f \in Frame : s.clients[f] # <<>> => r.wsOf[f] # NULL
  BY <1>1, UsedFramesLive DEF Whole, SameGrounds
<1>3. Clients(r) /\ ShownBut(r, {}) /\ Listed(r, {})
  BY <1>1, <1>2, ClientsKept DEF Whole
<1>4. FramesOf(r, r.curws) = FramesOf(s, s.curws)
  BY DEF FramesOf, SameGrounds
<1>5. Grounds(r)
  BY <1>4 DEF Whole, Grounds, SameGrounds
<1> QED
  BY <1>3, <1>5 DEF Whole

\* The places of clients and frames.
SamePlaces(s, r) ==
  r.frameOf = s.frameOf /\ r.cur = s.cur /\ r.wsOf = s.wsOf /\ r.curws = s.curws

LEMMA FrameSetInputWhole ==
  ASSUME NEW s, Whole(s), NEW f \in Frame, s.wsOf[f] # NULL, NEW kind \in {"query", "message"}
  PROVE  LET r == FrameSetInput(s, f, kind) IN
         /\ Whole(r) /\ SamePlaces(s, r) /\ r.protect = s.protect
         /\ (s.fthing # NULL => r.fthing # NULL) /\ r.fframe = s.fframe
         /\ r.workspaces = s.workspaces /\ r.list = s.list
<1> DEFINE i == [s EXCEPT !.input[f] = kind]
           r == FrameSetInput(s, f, kind)
<1>0. s \in State /\ kind # NULL
  BY InputsAreApart DEF Whole
<1>1. CASE s.input[f] # NULL
  <2>1. r = s
    BY <1>1 DEF FrameSetInput
  <2> QED
    BY <2>1 DEF SamePlaces
<1>2. CASE s.input[f] = NULL
  <2>1. /\ i \in State /\ SameClients(s, i) /\ SameGrounds(s, i) /\ SamePointers(s, i)
        /\ i.input = [s.input EXCEPT ![f] = kind]
    BY SetInputFields DEF Whole
  <2>2. s.input \in [Frame -> {NULL, "query", "message"}]
    BY DEF Whole, State
  <2> HIDE DEF i
  <2>3. \A g \in Frame : s.input[g] # NULL => i.input[g] # NULL
    BY <1>2, <2>1, <2>2
  <2>4. \A t : Names(s, t) => Names(i, t)
    BY <2>1, <2>3
       DEF Names, Alive, IsLiveFrame, IsLiveClient, IsManaged, SameClients, SameGrounds
  <2>5. Pointers(i)
    BY <2>1, <2>4 DEF Whole, Pointers, SamePointers, SameGrounds
  <2>6. \A g \in Frame : s.wsOf[g] = NULL => i.input[g] = NULL
    BY <2>1, <2>2 DEF Whole, Grounds
  <2>7. Whole(i)
    BY <2>1, <2>5, <2>6, InputKeeps
  <2>8. CASE s.wswin # f
    <3>1. r = i
      BY <1>2, <2>1, <2>8 DEF FrameSetInput, i, SamePointers
    <3> QED
      BY <2>1, <2>7, <2>8, <3>1
         DEF SamePlaces, SameClients, SameLinks, SameGrounds, SamePointers
  <2>9. CASE s.wswin = f
    <3>1. r = SetFocus(i, Input(f))
      BY <1>2, <2>1, <2>9 DEF FrameSetInput, i, SamePointers
    <3>2. Input(f) \in Things /\ Input(f) # NULL
      BY InputsAreApart DEF Things, Inputs
    <3>3. Alive(i, Input(f))
      BY <1>0, <2>1, <2>2 DEF Alive
    <3>4. \A g \in Frame : Input(f) = Input(g) => i.wsOf[g] = i.curws
      <4>1. f # NULL /\ s.wsOf[f] = s.curws
        BY <2>9, ClassesAreDisjoint DEF Whole, Pointers
      <4> QED
        BY <2>1, <4>1 DEF Input, SameGrounds
    <3>5. Whole(r)
      BY <2>7, <3>1, <3>2, <3>3, <3>4, SetFocusWhole
    <3>6. /\ SameView(i, r) /\ r.protect = i.protect /\ r.fframe = i.fframe
          /\ r.fthing = Input(f)
      BY <2>1, <3>1, <3>2, SetFocusFields
    <3> QED
      BY <2>1, <3>2, <3>5, <3>6
         DEF SamePlaces, SameClients, SameLinks, SameGrounds, SamePointers, SameView, SameThings
  <2> QED
    BY <2>8, <2>9
<1> QED
  BY <1>1, <1>2

LEMMA DestroyInputFields ==
  ASSUME NEW s \in State, NEW f \in Frame
  PROVE  LET r == DestroyInput(s, f) IN
         /\ r \in State /\ SameClients(s, r) /\ SameGrounds(s, r)
         /\ r.input = [s.input EXCEPT ![f] = NULL]
         /\ r.wswin = s.wswin /\ r.protect = s.protect
         /\ r.fthing = (IF s.fthing = Input(f) THEN f ELSE s.fthing)
         /\ r.fframe = (IF s.fframe = Input(f) THEN NULL ELSE s.fframe)
         /\ r.fnext = (IF s.fnext = Input(f) THEN NULL ELSE s.fnext)
         /\ r.prev = (IF s.prev = Input(f) THEN f ELSE s.prev)
<1> DEFINE h == CheckFunctionThing(s, Input(f), f)
           i == [h EXCEPT !.input[f] = NULL]
           r == DestroyInput(s, f)
<1>1. f \in Things
  BY DEF Things
<1>2. /\ h \in State /\ SameView(s, h)
      /\ h.wswin = s.wswin /\ h.protect = s.protect /\ h.fnext = s.fnext /\ h.prev = s.prev
      /\ h.fthing = (IF s.fthing = Input(f) THEN f ELSE s.fthing)
      /\ h.fframe = (IF s.fframe = Input(f) THEN NULL ELSE s.fframe)
  BY <1>1, CheckFunctionThingFields
<1> HIDE DEF h
<1>3. /\ i \in State /\ SameClients(h, i) /\ SameGrounds(h, i) /\ SamePointers(h, i)
      /\ i.input = [h.input EXCEPT ![f] = NULL]
  BY <1>2, SetInputFields
<1>4. r = ForgetThing(i, Input(f), f)
  BY DEF DestroyInput, h
<1> HIDE DEF i, r
<1>5. /\ r \in State /\ SameView(i, r)
      /\ r.wswin = i.wswin /\ r.protect = i.protect
      /\ r.fthing = i.fthing /\ r.fframe = i.fframe
      /\ r.fnext = (IF i.fnext = Input(f) THEN NULL ELSE i.fnext)
      /\ r.prev = (IF i.prev = Input(f) THEN f ELSE i.prev)
  BY <1>1, <1>3, <1>4, ForgetThingFields
<1>6. SameClients(s, r) /\ SameGrounds(s, r) /\ r.input = [s.input EXCEPT ![f] = NULL]
  BY <1>2, <1>3, <1>5 DEF SameView, SameThings, SameClients, SameLinks, SameGrounds
<1> QED
  BY <1>2, <1>3, <1>5, <1>6 DEF r, SamePointers

LEMMA DestroyInputWhole ==
  ASSUME NEW s, Whole(s), NEW f \in Frame, s.wsOf[f] # NULL
  PROVE  LET r == DestroyInput(s, f) IN
         /\ Whole(r) /\ SamePlaces(s, r) /\ r.protect = s.protect /\ r.wswin = s.wswin
         /\ r.input = [s.input EXCEPT ![f] = NULL] /\ r.list = s.list /\ r.wins = s.wins
         /\ r.workspaces = s.workspaces /\ (s.fthing # NULL => r.fthing # NULL)
<1> DEFINE r == DestroyInput(s, f)
<1>1. /\ s \in State /\ f # NULL
      /\ s.input \in [Frame -> {NULL, "query", "message"}]
  BY ClassesAreDisjoint DEF Whole, State
<1>2. /\ r \in State /\ SameClients(s, r) /\ SameGrounds(s, r)
      /\ r.input = [s.input EXCEPT ![f] = NULL]
      /\ r.wswin = s.wswin /\ r.protect = s.protect
      /\ r.fthing = (IF s.fthing = Input(f) THEN f ELSE s.fthing)
      /\ r.fframe = (IF s.fframe = Input(f) THEN NULL ELSE s.fframe)
      /\ r.fnext = (IF s.fnext = Input(f) THEN NULL ELSE s.fnext)
      /\ r.prev = (IF s.prev = Input(f) THEN f ELSE s.prev)
  BY <1>1, DestroyInputFields
<1> HIDE DEF r
<1>3. \A t : Names(s, t) /\ t # Input(f) => Names(r, t)
  BY <1>2, <1>1
     DEF Names, Alive, IsLiveFrame, IsLiveClient, IsManaged, SameClients, SameGrounds
<1>4. Names(r, f) /\ Names(r, NULL)
  BY <1>2 DEF Names, Alive, IsLiveFrame, SameGrounds
<1>5. f \notin Inputs
  BY InputsAreApart
<1>6. Pointers(r)
  <2>1. Names(r, r.fnext) /\ Names(r, r.prev)
    BY <1>2, <1>3, <1>4 DEF Whole, Pointers
  <2>2. Names(r, r.fthing) /\ Names(r, r.fframe)
    BY <1>2, <1>3, <1>4 DEF Whole, Pointers
  <2>3. r.wswin = s.wswin /\ r.wsOf = s.wsOf /\ r.curws = s.curws
    BY <1>2 DEF SameGrounds
  <2>4. r.fthing \in {f, s.fthing}
    BY <1>2
  <2>5. \A g \in Frame : f # Input(g)
    BY <1>5 DEF Inputs
  <2> QED
    BY <2>1, <2>2, <2>3, <2>4, <2>5 DEF Whole, Pointers
<1>7. \A g \in Frame : s.wsOf[g] = NULL => r.input[g] = NULL
  BY <1>2, <1>1 DEF Whole, Grounds
<1>8. Whole(r)
  BY <1>2, <1>6, <1>7, InputKeeps
<1> QED
  BY <1>1, <1>2, <1>8
     DEF r, SamePlaces, SameClients, SameLinks, SameGrounds

\* workspace_goto: the current frame gets the focus.
LEMMA GotoWsFields ==
  ASSUME NEW s \in State, NEW cf \in Frame
  PROVE  LET r == GotoWs(s, cf) IN
         /\ r \in State /\ SameView(s, r) /\ r.protect = s.protect /\ r.fframe = s.fframe
         /\ r.wswin = cf /\ r.fnext = cf /\ r.fthing = cf
         /\ r.prev = s.prev \/ (s.wswin # NULL /\ r.prev = CurrentClientOrFrame(s))
<1> DEFINE p == SetPrevious(s, cf)
           q == SetFocus(p, cf)
           r == [q EXCEPT !.wswin = cf]
<1>1. cf \in Things
  BY DEF Things
<1>2. /\ p \in State /\ SameView(s, p)
      /\ p.wswin = s.wswin /\ p.protect = s.protect /\ p.fframe = s.fframe
      /\ p.fnext = s.fnext /\ p.fthing = s.fthing
      /\ p.prev = s.prev \/ (s.wswin # NULL /\ p.prev = CurrentClientOrFrame(s))
  BY SetPreviousFields
<1>3. r = GotoWs(s, cf)
  BY DEF GotoWs
<1> HIDE DEF p
<1>4. /\ q \in State /\ SameView(p, q)
      /\ q.wswin = p.wswin /\ q.protect = p.protect /\ q.fframe = p.fframe /\ q.prev = p.prev
      /\ q.fnext = cf /\ q.fthing = cf
  BY <1>1, <1>2, SetFocusFields
<1> HIDE DEF q
<1>5. /\ r \in State /\ SameView(q, r) /\ r.protect = q.protect /\ r.fframe = q.fframe
      /\ r.prev = q.prev /\ r.fnext = q.fnext /\ r.fthing = q.fthing /\ r.wswin = cf
  BY ZenonT(30), <1>4 DEF State, SameView, SameThings, SameLinks
<1> HIDE DEF r
<1>6. SameView(s, r)
  BY <1>2, <1>4, <1>5, SameTransitive DEF SameView
<1> QED
  BY <1>2, <1>3, <1>4, <1>5, <1>6

\* The active client or frame is alive.
LEMMA ActiveIsAlive ==
  ASSUME NEW s, Whole(s)
  PROVE  s.wswin # NULL => Alive(s, s.wswin) /\ Alive(s, CurrentClientOrFrame(s))
<1> SUFFICES ASSUME s.wswin # NULL PROVE Alive(s, s.wswin) /\ Alive(s, CurrentClientOrFrame(s))
  OBVIOUS
<1>1. s.wswin \in Frame /\ s.wsOf[s.wswin] # NULL
  BY DEF Whole, State, Pointers, Grounds
<1>2. s.cur[s.wswin] # NULL => s.cur[s.wswin] \in ToSet(s.list)
  BY <1>1, CurrentIsListed DEF Whole, Clients
<1> QED
  BY <1>1, <1>2 DEF CurrentClientOrFrame, Alive, IsLiveFrame, IsLiveClient

LEMMA NoFrameIsInput == \A f \in Frame : f # NULL /\ f \in Things /\ \A g \in Frame : f # Input(g)
BY ClassesAreDisjoint, InputsAreApart DEF Things, Inputs

LEMMA GotoWsWhole ==
  ASSUME NEW s, Whole(s), NEW cf \in Frame, s.wsOf[cf] = s.curws
  PROVE  Steps(s, GotoWs(s, cf)) /\ SamePlaces(s, GotoWs(s, cf))
<1> DEFINE r == GotoWs(s, cf)
<1>1. /\ r \in State /\ SameView(s, r) /\ r.protect = s.protect /\ r.fframe = s.fframe
      /\ r.wswin = cf /\ r.fnext = cf /\ r.fthing = cf
      /\ r.prev = s.prev \/ (s.wswin # NULL /\ r.prev = CurrentClientOrFrame(s))
  BY GotoWsFields DEF Whole
<1> HIDE DEF r
<1>2. r.wsOf = s.wsOf /\ r.curws = s.curws /\ r.input = s.input
      /\ \A x : Names(r, x) <=> Names(s, x)
  BY <1>1, SameAlive DEF SameView, SameThings, Names
<1>3. Names(s, cf)
  BY DEF Whole, Grounds, Names, Alive, IsLiveFrame
<1>4. Pointers(r)
  BY <1>1, <1>2, <1>3, ActiveIsAlive, NoFrameIsInput DEF Whole, Pointers, Names
<1>5. Whole(r)
  BY <1>1, <1>4, PointersOnly
<1>6. Attends(s, r) /\ r.fthing # NULL
  BY <1>1, <1>2, NoFrameIsInput DEF Attends
<1>7. SamePlaces(s, r)
  BY <1>1 DEF SamePlaces, SameView, SameThings, SameLinks
<1> QED
  BY <1>1, <1>5, <1>6, <1>7 DEF Steps, r

LEMMA SwitchWorkspaceFields ==
  ASSUME NEW s \in State, NEW ws \in Ws, s.curws # ws, NEW cf \in Frame
  PROVE  LET r == SwitchWorkspace(s, ws, cf) IN
         /\ r \in State /\ SameClients(s, r) /\ r.wsOf = s.wsOf /\ r.workspaces = s.workspaces
         /\ r.input = s.input /\ r.curws = ws
         /\ r.mapped = (s.mapped \cup FramesOf(s, ws))
                          \ (IF s.curws = NULL THEN {} ELSE FramesOf(s, s.curws))
         /\ r.protect = s.protect /\ r.fframe = s.fframe
         /\ r.wswin = cf /\ r.fnext = cf /\ r.fthing = cf
         /\ r.prev = s.prev \/ (s.wswin # NULL /\ r.prev = CurrentClientOrFrame(s))
<1> DEFINE M == (s.mapped \cup FramesOf(s, ws))
                  \ (IF s.curws = NULL THEN {} ELSE FramesOf(s, s.curws))
           v == [s EXCEPT !.curws = ws, !.mapped = M]
           r == GotoWs(v, cf)
<1>1. M \in SUBSET Frame
  BY DEF State, FramesOf
<1>2. r = SwitchWorkspace(s, ws, cf)
  BY DEF SwitchWorkspace, DoActivateWorkspace, State
<1> HIDE DEF M
<1>3. v \in State
  BY <1>1 DEF State
<1>4. /\ SameClients(s, v) /\ v.wsOf = s.wsOf /\ v.workspaces = s.workspaces
      /\ v.input = s.input /\ v.curws = ws /\ v.mapped = M /\ SamePointers(s, v)
  BY DEF State, SameClients, SameLinks, SamePointers
<1>5. CurrentClientOrFrame(v) = CurrentClientOrFrame(s)
  BY <1>4 DEF CurrentClientOrFrame, SameClients, SamePointers
<1> HIDE DEF v
<1>6. /\ r \in State /\ SameView(v, r) /\ r.protect = v.protect /\ r.fframe = v.fframe
      /\ r.wswin = cf /\ r.fnext = cf /\ r.fthing = cf
      /\ r.prev = v.prev \/ (v.wswin # NULL /\ r.prev = CurrentClientOrFrame(v))
  BY <1>3, GotoWsFields
<1> HIDE DEF r
<1>7. /\ SameClients(s, r) /\ r.wsOf = s.wsOf /\ r.workspaces = s.workspaces
      /\ r.input = s.input /\ r.curws = ws /\ r.mapped = M
  BY <1>4, <1>6 DEF SameView, SameThings, SameClients, SameLinks
<1> QED
  BY <1>2, <1>4, <1>5, <1>6, <1>7 DEF M, SamePointers

LEMMA SwitchWorkspaceWhole ==
  ASSUME NEW s, Whole(s), NEW ws \in Ws, NEW cf \in Frame, s.wsOf[cf] = ws
  PROVE  LET r == SwitchWorkspace(s, ws, cf) IN
         /\ Steps(s, r) /\ r.frameOf = s.frameOf /\ r.cur = s.cur /\ r.wsOf = s.wsOf
         /\ r.list = s.list /\ r.curws = ws
<1> DEFINE r == SwitchWorkspace(s, ws, cf)
<1>0. s \in State
  BY DEF Whole
<1>1. CASE s.curws = ws
  <2>1. r = s
    BY <1>1 DEF SwitchWorkspace
  <2> QED
    BY <1>1, <2>1, StepsReflexive
<1>2. CASE s.curws # ws
  <2>1. /\ r \in State /\ SameClients(s, r) /\ r.wsOf = s.wsOf /\ r.workspaces = s.workspaces
        /\ r.input = s.input /\ r.curws = ws
        /\ r.mapped = (s.mapped \cup FramesOf(s, ws))
                         \ (IF s.curws = NULL THEN {} ELSE FramesOf(s, s.curws))
        /\ r.protect = s.protect /\ r.fframe = s.fframe
        /\ r.wswin = cf /\ r.fnext = cf /\ r.fthing = cf
        /\ r.prev = s.prev \/ (s.wswin # NULL /\ r.prev = CurrentClientOrFrame(s))
    BY <1>0, <1>2, SwitchWorkspaceFields
  <2> HIDE DEF r
  <2>2. \A t : Names(r, t) <=> Names(s, t)
    BY <2>1 DEF Names, Alive, IsLiveFrame, IsLiveClient, IsManaged, SameClients
  <2>3. ws # NULL /\ Names(s, cf)
    BY ClassesAreDisjoint DEF Names, Alive, IsLiveFrame
  <2>4. Pointers(r)
    BY <2>1, <2>2, <2>3, ActiveIsAlive, NoFrameIsInput DEF Whole, Pointers, Names
  <2>5. Clients(r) /\ ShownBut(r, {}) /\ Listed(r, {})
    BY <1>0, <2>1, UsedFramesLive, ClientsKept DEF Whole
  <2>6. Grounds(r)
    <3>1. ws \in ToSet(s.workspaces)
      BY <2>3 DEF Whole, Grounds
    <3>2. s.mapped = FramesOf(s, s.curws) /\ s.curws # NULL
      BY DEF Whole, Grounds
    <3>3. FramesOf(s, s.curws) \cap FramesOf(s, ws) = {}
      BY <1>2 DEF FramesOf
    <3>4. r.mapped = FramesOf(s, ws)
      BY <2>1, <3>2, <3>3
    <3>5. FramesOf(r, ws) = FramesOf(s, ws)
      BY <2>1 DEF FramesOf
    <3> QED
      BY <2>1, <3>1, <3>4, <3>5 DEF Whole, Grounds
  <2>7. Attends(s, r) /\ r.fthing # NULL
    BY <2>1, NoFrameIsInput DEF Attends
  <2> QED
    BY <2>1, <2>4, <2>5, <2>6, <2>7 DEF Steps, Whole, SameClients, SameLinks, r
<1> QED
  BY <1>1, <1>2

\* A workspace that is not there yet, with a frame that is not there yet.
LEMMA CreateWorkspaceWhole ==
  ASSUME NEW s, Whole(s), NEW ws \in Ws, NEW f \in Frame,
         ws \notin ToSet(s.workspaces), s.wsOf[f] = NULL
  PROVE  LET r == CreateWorkspace(s, ws, f) IN
         /\ Whole(r) /\ SameClients(s, r) /\ r.wsOf = [s.wsOf EXCEPT ![f] = ws]
         /\ r.curws = s.curws /\ SamePointers(s, r) /\ r.input = s.input
         /\ r.workspaces = Append(s.workspaces, ws)
<1> DEFINE q == Append(s.workspaces, ws)
           r == [s EXCEPT !.workspaces = q, !.wsOf[f] = ws]
<1>1. /\ s \in State /\ s.workspaces \in Seq(Ws) /\ s.wsOf \in [Frame -> Ws \cup {NULL}]
      /\ ws # NULL
  BY ClassesAreDisjoint DEF Whole, State
<1>2. q \in Seq(Ws) /\ IsInjective(q) /\ ToSet(q) = ToSet(s.workspaces) \cup {ws}
  BY <1>1, AppendFacts DEF Whole, Grounds
<1>3. r = CreateWorkspace(s, ws, f)
  BY DEF CreateWorkspace
<1> HIDE DEF q
<1>4. /\ r \in State /\ SameClients(s, r) /\ SamePointers(s, r)
      /\ r.wsOf = [s.wsOf EXCEPT ![f] = ws] /\ r.workspaces = q
      /\ r.mapped = s.mapped /\ r.curws = s.curws /\ r.input = s.input
  BY ZenonT(30), <1>1, <1>2 DEF State, SameClients, SameLinks, SamePointers
<1> HIDE DEF r
<1>5. \A g \in Frame : s.wsOf[g] # NULL => r.wsOf[g] = s.wsOf[g]
  BY <1>1, <1>4
<1>6. Clients(r) /\ ShownBut(r, {}) /\ Listed(r, {})
  BY <1>1, <1>4, <1>5, UsedFramesLive, ClientsKept DEF Whole
<1>7. s.curws \in ToSet(s.workspaces) /\ s.curws # NULL /\ s.curws # ws
  BY DEF Whole, Grounds
<1>8. Grounds(r)
  <2>1. {r.wsOf[g] : g \in Frame} \ {NULL} = ({s.wsOf[g] : g \in Frame} \ {NULL}) \cup {ws}
    <3>1. \A g \in Frame : r.wsOf[g] = IF g = f THEN ws ELSE s.wsOf[g]
      BY <1>1, <1>4
    <3> QED
      BY <1>1, <3>1
  <2>2. FramesOf(r, r.curws) = FramesOf(s, s.curws)
    BY <1>1, <1>4, <1>7 DEF FramesOf
  <2>3. \A g \in Frame : r.wsOf[g] = NULL => r.input[g] = NULL
    BY <1>1, <1>4 DEF Whole, Grounds
  <2> QED
    BY <1>2, <1>4, <2>1, <2>2, <2>3 DEF Whole, Grounds
<1>9. \A t : Names(s, t) => Names(r, t)
  BY <1>2, <1>4, <1>5 DEF Names, Alive, IsLiveFrame, IsLiveClient, IsManaged, SameClients
<1>10. Pointers(r)
  <2>1. s.wswin # NULL => s.wswin \in Frame
    BY <1>1 DEF State
  <2> QED
    BY <1>1, <1>4, <1>5, <1>7, <1>9, <2>1 DEF Whole, Pointers, SamePointers
<1> QED
  BY <1>3, <1>4, <1>6, <1>8, <1>10 DEF Whole, q

\* goto_window: the frame becomes visible and gets the focus.
LEMMA GotoWindowWhole ==
  ASSUME NEW s, Whole(s), NEW f \in Frame, NEW cf \in Frame,
         s.wsOf[f] # NULL, s.wsOf[cf] = s.wsOf[f]
  PROVE  LET r == GotoWindow(s, f, cf) IN
         /\ Steps(s, r) /\ r.frameOf = s.frameOf /\ r.cur = s.cur /\ r.wsOf = s.wsOf
         /\ r.list = s.list /\ r.curws = s.wsOf[f]
<1> DEFINE a == SetPrevious(s, f)
           p == Protect(a)
           v == IF s.wsOf[f] = s.curws THEN p ELSE SwitchWorkspace(p, s.wsOf[f], cf)
           u == SetFocus(v, f)
           r == GotoWindow(s, f, cf)
<1>1. s \in State /\ s.wsOf[f] \in Ws
  BY DEF Whole, State
<1>2. CASE s.wswin = f
  <2>1. r = s
    BY <1>2 DEF GotoWindow
  <2>2. s.curws = s.wsOf[f]
    BY <1>2, NoFrameIsInput DEF Whole, Pointers
  <2> QED
    BY <2>1, <2>2, StepsReflexive
<1>3. CASE s.wswin # f
  <2>1. r = Unprotect(u)
    BY <1>3 DEF GotoWindow
  <2>2. Whole(a) /\ SameView(s, a) /\ a.protect = s.protect /\ a.fthing = s.fthing
    BY <1>1, SetPreviousWhole, SetPreviousFields
  <2> HIDE DEF a, r
  <2>3. /\ Whole(p) /\ SameView(a, p) /\ p.protect = a.protect + 1 /\ p.fthing = a.fthing
    BY <2>2, ProtectWhole
  <2> HIDE DEF p
  <2>4. /\ p.wsOf = s.wsOf /\ p.curws = s.curws /\ p.input = s.input /\ p.list = s.list
        /\ p.frameOf = s.frameOf /\ p.cur = s.cur
    BY <2>2, <2>3 DEF SameView, SameThings, SameLinks
  <2>5. /\ Whole(v) /\ v.protect = p.protect /\ v.wsOf = s.wsOf /\ v.curws = s.wsOf[f]
        /\ v.input = s.input /\ v.list = s.list /\ v.frameOf = s.frameOf /\ v.cur = s.cur
    <3>1. CASE s.wsOf[f] = s.curws
      BY <2>3, <2>4, <3>1
    <3>2. CASE s.wsOf[f] # s.curws
      <4>1. v = SwitchWorkspace(p, s.wsOf[f], cf) /\ p.wsOf[cf] = s.wsOf[f]
        BY <2>4, <3>2
      <4> HIDE DEF v
      <4>2. /\ Steps(p, v) /\ v.frameOf = p.frameOf /\ v.cur = p.cur /\ v.wsOf = p.wsOf
            /\ v.list = p.list /\ v.curws = s.wsOf[f]
        BY <1>1, <2>3, <4>1, SwitchWorkspaceWhole
      <4> QED
        BY <2>4, <4>2 DEF Steps, Attends
    <3> QED
      BY <3>1, <3>2
  <2> HIDE DEF v
  <2>6. Alive(v, f)
    BY <2>5 DEF Alive, IsLiveFrame
  <2>7. Whole(u) /\ SameView(v, u) /\ u.protect = v.protect /\ u.fnext = f /\ u.fthing = f
    BY <2>5, <2>6, NoFrameIsInput, SetFocusWhole, SetFocusFields DEF Whole
  <2> HIDE DEF u
  <2>8. /\ Whole(r) /\ SameView(u, r) /\ r.protect = u.protect - 1
        /\ r.fnext = f /\ r.fthing = f
    BY <2>1, <2>7, ProtectWhole
  <2>9. s.protect \in Int
    BY <1>1 DEF State
  <2>10. /\ r.wsOf = s.wsOf /\ r.curws = s.wsOf[f] /\ r.input = s.input /\ r.list = s.list
         /\ r.frameOf = s.frameOf /\ r.cur = s.cur
    BY <2>5, <2>7, <2>8 DEF SameView, SameThings, SameLinks
  <2>11. r.protect = s.protect
    BY <2>2, <2>3, <2>5, <2>7, <2>8, <2>9
  <2>12. Attends(s, r)
    BY <2>8, <2>10, NoFrameIsInput DEF Attends
  <2> QED
    BY <2>8, <2>10, <2>11, <2>12, NoFrameIsInput DEF Steps, r
<1> QED
  BY <1>2, <1>3

\* goto_client: and the frame shows the client.
LEMMA GotoClientWhole ==
  ASSUME NEW s, Whole(s), NEW c \in ToSet(s.list), NEW cf \in Frame,
         s.wsOf[cf] = s.wsOf[s.frameOf[c]]
  PROVE  LET r == GotoClient(s, c, cf) IN
         /\ Steps(s, r) /\ r.frameOf = s.frameOf /\ r.wsOf = s.wsOf /\ r.list = s.list
         /\ r.cur = [s.cur EXCEPT ![s.frameOf[c]] = c]
         /\ r.curws = s.wsOf[s.frameOf[c]]
<1> DEFINE f == s.frameOf[c]
           a == SetPrevious(s, c)
           p == Protect(a)
           g == GotoWindow(p, f, cf)
           w == FrameSwitchClient(g, f, c)
           r == GotoClient(s, c, cf)
<1>1. s \in State /\ c \in Client
  BY ListIsClients DEF Whole
<1>2. f \in Frame /\ s.wsOf[f] # NULL /\ f # NULL
  <2>1. f # NULL
    BY <1>1 DEF Whole, Listed
  <2> QED
    BY <1>1, <2>1 DEF Whole, State, Clients, Members
<1>3. r = Unprotect(w)
  BY <1>2 DEF GotoClient
<1>4. /\ Whole(a) /\ SameView(s, a) /\ a.protect = s.protect /\ a.fthing = s.fthing
      /\ a.fnext = s.fnext /\ a.wswin = s.wswin
  BY <1>1, SetPreviousWhole, SetPreviousFields
<1> HIDE DEF a, r
<1>5. /\ Whole(p) /\ SameView(a, p) /\ p.protect = a.protect + 1 /\ p.fthing = a.fthing
      /\ p.fnext = a.fnext /\ p.wswin = a.wswin
  BY <1>4, ProtectWhole
<1> HIDE DEF p
<1>6. /\ p.wsOf = s.wsOf /\ p.input = s.input /\ p.list = s.list
      /\ p.frameOf = s.frameOf /\ p.cur = s.cur
  BY <1>4, <1>5 DEF SameView, SameThings, SameLinks
<1>7. /\ Steps(p, g) /\ g.frameOf = p.frameOf /\ g.cur = p.cur /\ g.wsOf = p.wsOf
      /\ g.list = p.list /\ g.curws = p.wsOf[f]
  <2>1. p.wsOf[f] # NULL /\ p.wsOf[cf] = p.wsOf[f]
    BY <1>2, <1>6
  <2> HIDE DEF f
  <2> QED
    BY <1>2, <1>5, <2>1, GotoWindowWhole
<1> HIDE DEF g
<1>8. Steps(g, w) /\ Moves(g, w) /\ w.frameOf = g.frameOf /\ w.cur = [g.cur EXCEPT ![f] = c]
  <2>1. Whole(g) /\ g.frameOf[c] = f
    BY <1>6, <1>7 DEF Steps
  <2> HIDE DEF f
  <2> QED
    BY <1>1, <1>2, <2>1, FrameSwitchClientWhole
<1> HIDE DEF w
<1>9. Steps(p, w)
  BY <1>7, <1>8, StepsTransitive
<1>10. /\ Whole(r) /\ SameView(w, r) /\ r.protect = w.protect - 1
       /\ r.fnext = w.fnext /\ r.fthing = w.fthing /\ r.wswin = w.wswin
  BY <1>3, <1>8, ProtectWhole DEF Steps
<1>11. /\ r.frameOf = s.frameOf /\ r.wsOf = s.wsOf /\ r.list = s.list /\ r.input = s.input
       /\ r.cur = [s.cur EXCEPT ![f] = c] /\ r.curws = s.wsOf[f]
  BY <1>6, <1>7, <1>8, <1>10 DEF SameView, SameThings, SameLinks, Moves, Steps, Attends
<1>12. s.protect \in Int
  BY <1>1 DEF State
<1>13. r.protect = s.protect
  BY <1>4, <1>5, <1>9, <1>10, <1>12 DEF Steps
<1>14. s.fthing # NULL => r.fthing # NULL
  BY <1>4, <1>5, <1>9, <1>10 DEF Steps
<1>15. Attends(s, r)
  BY <1>4, <1>5, <1>6, <1>9, <1>10, <1>11
     DEF Steps, Attends, SameView, SameThings
<1> QED
  BY <1>10, <1>11, <1>13, <1>14, <1>15 DEF Steps, f, r

-----------------------------------------------------------------------------
(* Windows in clients. *)

\* Nothing but windows, and the pointers, are touched.
SameButWins(s, r) ==
  /\ r.list = s.list /\ r.tagged = s.tagged /\ SameLinks(s, r) /\ r.cur = s.cur
  /\ SameGrounds(s, r) /\ r.input = s.input

LEMMA ButWinsKeep ==
  ASSUME NEW s, NEW r, SameButWins(s, r), Clients(s), Grounds(s), WinLinks(r)
  PROVE  Clients(r) /\ Grounds(r)
<1>1. FramesOf(r, r.curws) = FramesOf(s, s.curws)
  BY DEF SameButWins, SameGrounds, FramesOf
<1>2. Grounds(r)
  BY <1>1 DEF SameButWins, SameGrounds, Grounds
<1>3. FrameLinks(r) /\ OwnCurrents(r) /\ SomeCurrents(r) /\ Members(r)
  BY DEF Clients, FrameLinks, OwnCurrents, SomeCurrents, Members, SameButWins, SameLinks, SameGrounds
<1> QED
  BY <1>2, <1>3 DEF Clients

\* Window w is linked to client c.
LinksWindow(s, r, c, w) ==
  /\ r.wins[c] = Append(s.wins[c], w) /\ \A d \in Client \ {c} : r.wins[d] = s.wins[d]
  /\ r.clientOf[w] = c /\ \A v \in Win \ {w} : r.clientOf[v] = s.clientOf[v]

LEMMA ClientAddClientwinFields ==
  ASSUME NEW s \in State, NEW c \in Client, NEW w \in Win
  PROVE  LET r == ClientAddClientwin(s, c, w)
             f == s.frameOf[c]
         IN  /\ r \in State /\ SameButWins(s, r) /\ SamePointers(s, r)
             /\ LinksWindow(s, r, c, w)
             /\ f = NULL => r.state = s.state
             /\ f # NULL => \A v \in Win : r.state[v] = IF v # w THEN s.state[v]
                                          ELSE IF s.cur[f] = c THEN "Normal" ELSE "Iconic"
<1> DEFINE q == Append(s.wins[c], w)
           l == [s EXCEPT !.wins[c] = q, !.clientOf[w] = c]
           f == s.frameOf[c]
           st == IF s.cur[f] = c THEN "Normal" ELSE "Iconic"
           r == ClientAddClientwin(s, c, w)
<1>1. q \in Seq(Win)
  BY DEF State
<1>2. r = IF f = NULL THEN l ELSE SetState(l, {w}, IF s.cur[f] = c THEN "Normal" ELSE "Iconic")
  BY DEF ClientAddClientwin
<1>3. /\ l \in State /\ SameButWins(s, l) /\ SamePointers(s, l) /\ l.state = s.state
      /\ LinksWindow(s, l, c, w)
  <2> HIDE DEF q
  <2>1. l \in State /\ SameButWins(s, l) /\ SamePointers(s, l) /\ l.state = s.state
    BY <1>1 DEF State, SameButWins, SameLinks, SameGrounds, SamePointers
  <2>2. /\ l.wins[c] = q /\ \A d \in Client \ {c} : l.wins[d] = s.wins[d]
        /\ l.clientOf[w] = c /\ \A v \in Win \ {w} : l.clientOf[v] = s.clientOf[v]
    BY DEF State
  <2> QED
    BY <2>1, <2>2 DEF LinksWindow, q
<1> HIDE DEF l, r
<1>4. CASE f = NULL
  BY <1>2, <1>3, <1>4 DEF r
<1>5. CASE f # NULL
  <2>1. r = SetState(l, {w}, st)
    BY <1>2, <1>5
  <2>2. st \in {"Normal", "Iconic", "Withdrawn"}
    OBVIOUS
  <2> HIDE DEF st
  <2>3. /\ r \in State /\ SameThings(l, r) /\ SameLinks(l, r) /\ r.cur = l.cur
        /\ SamePointers(l, r) /\ \A v \in Win : r.state[v] = IF v \in {w} THEN st ELSE l.state[v]
    BY <1>3, <2>1, <2>2, SetStateEach
  <2>4. SameButWins(s, r) /\ SamePointers(s, r)
    BY <1>3, <2>3 DEF SameButWins, SameThings, SameLinks, SameGrounds, SamePointers
  <2>5. r.wins = l.wins /\ r.clientOf = l.clientOf
    BY <2>3 DEF SameThings
  <2>6. \A v \in Win : r.state[v] = IF v # w THEN s.state[v] ELSE st
    BY <1>3, <2>3
  <2>7. LinksWindow(s, r, c, w)
    BY <1>3, <2>5 DEF LinksWindow
  <2> QED
    BY <1>5, <2>3, <2>4, <2>6, <2>7 DEF r, st
<1> QED
  BY <1>4, <1>5

\* A window that had no client is linked to client c.
LEMMA WindowLinked ==
  ASSUME NEW s \in State, WinLinks(s), NEW c \in Client, NEW w \in Win, s.clientOf[w] = NULL,
         NEW r \in State, LinksWindow(s, r, c, w)
  PROVE  WinLinks(r) /\ r.wins[c] # <<>>
<1>1. /\ s.wins \in [Client -> Seq(Win)] /\ s.clientOf \in [Win -> Client \cup {NULL}]
      /\ NULL \notin Client /\ s.wins[c] \in Seq(Win)
      /\ r.wins[c] = Append(s.wins[c], w) /\ \A d \in Client \ {c} : r.wins[d] = s.wins[d]
      /\ r.clientOf[w] = c /\ \A v \in Win \ {w} : r.clientOf[v] = s.clientOf[v]
  BY ClassesAreDisjoint DEF State, LinksWindow
<1>2. IsInjective(s.wins[c]) /\ w \notin ToSet(s.wins[c])
  BY <1>1 DEF WinLinks
<1>3. /\ Append(s.wins[c], w) \in Seq(Win) /\ IsInjective(Append(s.wins[c], w))
      /\ ToSet(Append(s.wins[c], w)) = ToSet(s.wins[c]) \cup {w}
  BY <1>1, <1>2, AppendFacts
<1>4. ASSUME NEW d \in Client
      PROVE  IsInjective(r.wins[d]) /\ ToSet(r.wins[d]) = {v \in Win : r.clientOf[v] = d}
  <2>1. IsInjective(s.wins[d]) /\ ToSet(s.wins[d]) = {v \in Win : s.clientOf[v] = d}
    BY DEF WinLinks
  <2>2. CASE d = c
    <3>1. {v \in Win : r.clientOf[v] = d} = {v \in Win : s.clientOf[v] = d} \cup {w}
      BY <1>1, <2>2
    <3> QED
      BY <1>1, <1>3, <2>1, <2>2, <3>1
  <2>3. CASE d # c
    <3>1. {v \in Win : r.clientOf[v] = d} = {v \in Win : s.clientOf[v] = d}
      BY <1>1, <2>3
    <3> QED
      BY <1>1, <2>1, <2>3, <3>1
  <2> QED
    BY <2>2, <2>3
<1>5. r.wins[c] # <<>>
  BY SMTT(30), <1>1
<1> QED
  BY <1>4, <1>5 DEF WinLinks

\* More windows are managed, and the pointers stay.
LEMMA AddedNames ==
  ASSUME NEW s \in State, Pointers(s), NEW r, SameGrounds(s, r), SamePointers(s, r),
         ToSet(s.list) \subseteq ToSet(r.list), r.input = s.input,
         \A w \in Win : s.clientOf[w] # NULL => r.clientOf[w] # NULL
  PROVE  Pointers(r)
<1>1. \A t : Names(s, t) => Names(r, t)
  BY DEF Names, Alive, IsLiveFrame, IsLiveClient, IsManaged, SameGrounds
<1> QED
  BY <1>1 DEF Pointers, SamePointers, SameGrounds

\* client_add_clientwin to a client there is.
LEMMA AddTransientWhole ==
  ASSUME NEW s, Whole(s), NEW c \in ToSet(s.list), NEW w \in Win, s.clientOf[w] = NULL
  PROVE  LET r == ClientAddClientwin(s, c, w) IN
         /\ Whole(r) /\ SameButWins(s, r) /\ SamePointers(s, r) /\ r.clientOf[w] = c
<1> DEFINE r == ClientAddClientwin(s, c, w)
           f == s.frameOf[c]
<1>1. /\ s \in State /\ c \in Client /\ NULL \notin Client
      /\ s.clientOf \in [Win -> Client \cup {NULL}] /\ s.wins \in [Client -> Seq(Win)]
  BY ListIsClients, ClassesAreDisjoint DEF Whole, State
<1>2. /\ r \in State /\ SameButWins(s, r) /\ SamePointers(s, r)
      /\ LinksWindow(s, r, c, w)
      /\ f # NULL => \A v \in Win : r.state[v] = IF v # w THEN s.state[v]
                                   ELSE IF s.cur[f] = c THEN "Normal" ELSE "Iconic"
  BY <1>1, ClientAddClientwinFields
<1> HIDE DEF r
<1>3. f # NULL
  BY <1>1 DEF Whole, Listed
<1>4. WinLinks(r) /\ r.wins[c] # <<>>
  BY <1>1, <1>2, WindowLinked DEF Whole, Clients
<1>5. Clients(r) /\ Grounds(r)
  BY <1>2, <1>4, ButWinsKeep DEF Whole
<1>6. r.clientOf[w] = c /\ \A v \in Win \ {w} : r.clientOf[v] = s.clientOf[v]
  BY <1>2 DEF LinksWindow
<1>7. Pointers(r)
  BY <1>1, <1>2, <1>6, AddedNames DEF Whole, SameButWins
<1>8. ShownBut(r, {})
  <2>1. ASSUME NEW d PROVE IsCurrent(r, d) <=> IsCurrent(s, d)
    BY <1>2 DEF SameButWins, IsCurrent
  <2>2. IsCurrent(s, c) <=> s.cur[f] = c
    <3>1. s.cur \in [Frame -> Client \cup {NULL}] /\ f \in Frame /\ OwnCurrents(s)
      BY <1>1, <1>3 DEF State, Whole, Clients
    <3> QED
      BY <1>1, <3>1 DEF IsCurrent, OwnCurrents
  <2>3. \A v \in Win : r.state[v] = IF v # w THEN s.state[v]
                                   ELSE IF s.cur[f] = c THEN "Normal" ELSE "Iconic"
    BY <1>2, <1>3
  <2> HIDE DEF f
  <2> QED
    BY <1>1, <1>6, <2>1, <2>2, <2>3 DEF Whole, ShownBut
<1>9. Listed(r, {})
  <2>1. \A d \in Client \ {c} : r.wins[d] = s.wins[d]
    BY <1>2 DEF LinksWindow
  <2> QED
    BY <1>1, <1>2, <1>4, <2>1 DEF Whole, Listed, SameButWins, SameLinks
<1> QED
  BY <1>2, <1>5, <1>6, <1>7, <1>8, <1>9 DEF Whole, r

LEMMA SetListFields ==
  ASSUME NEW s \in State, NEW q \in Seq(Client)
  PROVE  LET n == [s EXCEPT !.list = q] IN
         /\ n \in State /\ n.list = q
         /\ SameGrounds(s, n) /\ SamePointers(s, n) /\ SameLinks(s, n)
         /\ n.cur = s.cur /\ n.input = s.input /\ n.wins = s.wins /\ n.clientOf = s.clientOf
         /\ n.state = s.state /\ n.tagged = s.tagged
<1>1. [s EXCEPT !.list = q] \in State
  BY DEF State
<1> QED
  BY <1>1 DEF State, SameLinks, SameGrounds, SamePointers

\* A new client with its window, before it is put into a frame.
LEMMA AddNewSound ==
  ASSUME NEW s, Whole(s), NEW c \in Client \ ToSet(s.list), NEW w \in Win, s.clientOf[w] = NULL
  PROVE  LET r == ClientAddClientwin([s EXCEPT !.list = Append(@, c)], c, w) IN
         /\ r \in State /\ Clients(r) /\ ShownBut(r, {c}) /\ Listed(r, {c}) /\ Grounds(r)
         /\ Pointers(r) /\ SamePointers(s, r) /\ SamePlaces(s, r) /\ r.input = s.input
         /\ r.clientOf[w] = c /\ \A v \in Win \ {w} : r.clientOf[v] = s.clientOf[v]
         /\ c \in ToSet(r.list) /\ r.wins[c] # <<>> /\ r.frameOf[c] = NULL
<1> DEFINE q == Append(s.list, c)
           n == [s EXCEPT !.list = q]
           r == ClientAddClientwin(n, c, w)
<1>1. /\ s \in State /\ s.list \in Seq(Client) /\ NULL \notin Client
      /\ s.clientOf \in [Win -> Client \cup {NULL}] /\ s.wins \in [Client -> Seq(Win)]
  BY ClassesAreDisjoint DEF Whole, State
<1>2. q \in Seq(Client) /\ IsInjective(q) /\ ToSet(q) = ToSet(s.list) \cup {c}
  BY <1>1, AppendFacts DEF Whole, Listed
<1> HIDE DEF q
<1>3. /\ n \in State /\ n.list = q /\ SameGrounds(s, n) /\ SamePointers(s, n) /\ SameLinks(s, n)
      /\ n.cur = s.cur /\ n.input = s.input /\ n.wins = s.wins /\ n.clientOf = s.clientOf
      /\ n.state = s.state /\ n.tagged = s.tagged
  BY <1>1, <1>2, SetListFields
<1> HIDE DEF n
<1>4. s.frameOf[c] = NULL
  BY DEF Whole, Clients, Members
<1>5. n.frameOf[c] = NULL
  BY <1>3, <1>4 DEF SameLinks
<1>6. /\ r \in State /\ SameButWins(n, r) /\ SamePointers(n, r)
      /\ LinksWindow(n, r, c, w) /\ r.state = n.state
  BY <1>3, <1>5, ClientAddClientwinFields
<1> HIDE DEF r
<1>7. WinLinks(n) /\ n.clientOf[w] = NULL
  BY <1>3 DEF Whole, Clients, WinLinks
<1>8. WinLinks(r) /\ r.wins[c] # <<>>
  BY <1>3, <1>6, <1>7, WindowLinked
<1>9. Clients(n) /\ Grounds(n)
  <2>1. Members(n)
    BY <1>2, <1>3 DEF Whole, Clients, Members, SameLinks, SameGrounds
  <2>2. FrameLinks(n) /\ OwnCurrents(n) /\ SomeCurrents(n)
    BY <1>3 DEF Whole, Clients, FrameLinks, OwnCurrents, SomeCurrents, SameLinks
  <2>3. FramesOf(n, n.curws) = FramesOf(s, s.curws)
    BY <1>3 DEF SameGrounds, FramesOf
  <2>4. Grounds(n)
    BY <1>3, <2>3 DEF Whole, Grounds, SameGrounds
  <2> QED
    BY <1>7, <2>1, <2>2, <2>4 DEF Clients
<1>10. Clients(r) /\ Grounds(r)
  BY <1>6, <1>8, <1>9, ButWinsKeep
<1>11. r.clientOf[w] = c /\ \A v \in Win \ {w} : r.clientOf[v] = s.clientOf[v]
  BY <1>3, <1>6 DEF LinksWindow
<1>12. SameGrounds(s, r) /\ SamePointers(s, r) /\ SamePlaces(s, r) /\ r.input = s.input
       /\ r.list = q /\ r.tagged = s.tagged /\ r.frameOf = s.frameOf /\ r.state = s.state
  BY <1>3, <1>6 DEF SameGrounds, SamePointers, SamePlaces, SameButWins, SameLinks
<1>13. Pointers(r)
  BY <1>1, <1>2, <1>11, <1>12, AddedNames DEF Whole
<1>14. ShownBut(r, {c})
  <2>1. ASSUME NEW d PROVE IsCurrent(r, d) <=> IsCurrent(s, d)
    BY <1>12 DEF SamePlaces, IsCurrent
  <2> QED
    BY <1>11, <1>12, <2>1 DEF Whole, ShownBut
<1>15. Listed(r, {c})
  <2>1. \A d \in Client \ {c} : r.wins[d] = s.wins[d]
    BY <1>3, <1>6 DEF LinksWindow
  <2> QED
    BY <1>2, <1>12, <2>1 DEF Whole, Listed
<1> QED
  BY <1>2, <1>4, <1>6, <1>8, <1>10, <1>11, <1>12, <1>13, <1>14, <1>15 DEF r, n, q

\* Window w of client c is unlinked.
UnlinksWindow(s, r, c, w) ==
  /\ r.wins[c] = Unlink(s.wins[c], w) /\ \A d \in Client \ {c} : r.wins[d] = s.wins[d]
  /\ r.clientOf[w] = NULL /\ \A v \in Win \ {w} : r.clientOf[v] = s.clientOf[v]

LEMMA UnlinkWindowFields ==
  ASSUME NEW s \in State, NEW c \in Client, NEW w \in Win
  PROVE  LET r == SetState([s EXCEPT !.wins[c] = Unlink(@, w), !.clientOf[w] = NULL],
                           {w}, "Withdrawn")
         IN  /\ r \in State /\ SameButWins(s, r) /\ SamePointers(s, r)
             /\ UnlinksWindow(s, r, c, w)
             /\ \A v \in Win : r.state[v] = IF v = w THEN "Withdrawn" ELSE s.state[v]
<1> DEFINE q == Unlink(s.wins[c], w)
           l == [s EXCEPT !.wins[c] = q, !.clientOf[w] = NULL]
           r == SetState(l, {w}, "Withdrawn")
<1>1. q \in Seq(Win)
  BY UnlinkType DEF State
<1>2. r = SetState([s EXCEPT !.wins[c] = Unlink(@, w), !.clientOf[w] = NULL], {w}, "Withdrawn")
  BY DEF State
<1> HIDE DEF r
<1>3. /\ l \in State /\ SameButWins(s, l) /\ SamePointers(s, l) /\ l.state = s.state
      /\ UnlinksWindow(s, l, c, w)
  <2> HIDE DEF q
  <2>1. l \in State /\ SameButWins(s, l) /\ SamePointers(s, l) /\ l.state = s.state
    BY <1>1 DEF State, SameButWins, SameLinks, SameGrounds, SamePointers
  <2>2. /\ l.wins[c] = q /\ \A d \in Client \ {c} : l.wins[d] = s.wins[d]
        /\ l.clientOf[w] = NULL /\ \A v \in Win \ {w} : l.clientOf[v] = s.clientOf[v]
    BY DEF State
  <2> QED
    BY <2>1, <2>2 DEF UnlinksWindow, q
<1> HIDE DEF l
<1>4. /\ r \in State /\ SameThings(l, r) /\ SameLinks(l, r) /\ r.cur = l.cur
      /\ SamePointers(l, r)
      /\ \A v \in Win : r.state[v] = IF v \in {w} THEN "Withdrawn" ELSE l.state[v]
  BY <1>3, SetStateEach DEF r
<1>5. SameButWins(s, r) /\ SamePointers(s, r)
  BY <1>3, <1>4 DEF SameButWins, SameThings, SameLinks, SameGrounds, SamePointers
<1>6. UnlinksWindow(s, r, c, w)
  BY <1>3, <1>4 DEF SameThings, UnlinksWindow
<1>7. \A v \in Win : r.state[v] = IF v = w THEN "Withdrawn" ELSE s.state[v]
  BY <1>3, <1>4
<1> QED
  BY <1>2, <1>4, <1>5, <1>6, <1>7

LEMMA WindowUnlinked ==
  ASSUME NEW s \in State, WinLinks(s), NEW c \in Client, NEW w \in Win, s.clientOf[w] = c,
         NEW r \in State, UnlinksWindow(s, r, c, w)
  PROVE  WinLinks(r)
<1>1. /\ NULL \notin Client /\ s.wins[c] \in Seq(Win)
      /\ r.wins[c] = Unlink(s.wins[c], w) /\ \A d \in Client \ {c} : r.wins[d] = s.wins[d]
      /\ r.clientOf[w] = NULL /\ \A v \in Win \ {w} : r.clientOf[v] = s.clientOf[v]
  BY ClassesAreDisjoint DEF State, UnlinksWindow
<1>2. /\ IsInjective(Unlink(s.wins[c], w))
      /\ ToSet(Unlink(s.wins[c], w)) = ToSet(s.wins[c]) \ {w}
  BY <1>1, UnlinkFacts DEF WinLinks
<1>3. ASSUME NEW d \in Client
      PROVE  IsInjective(r.wins[d]) /\ ToSet(r.wins[d]) = {v \in Win : r.clientOf[v] = d}
  <2>1. IsInjective(s.wins[d]) /\ ToSet(s.wins[d]) = {v \in Win : s.clientOf[v] = d}
    BY DEF WinLinks
  <2>2. CASE d = c
    <3>1. {v \in Win : r.clientOf[v] = d} = {v \in Win : s.clientOf[v] = d} \ {w}
      BY <1>1, <2>2
    <3> QED
      BY <1>1, <1>2, <2>1, <2>2, <3>1
  <2>3. CASE d # c
    <3>1. {v \in Win : r.clientOf[v] = d} = {v \in Win : s.clientOf[v] = d}
      BY <1>1, <2>3
    <3> QED
      BY <1>1, <2>1, <2>3, <3>1
  <2> QED
    BY <2>2, <2>3
<1> QED
  BY <1>3 DEF WinLinks

\* do_destroy_thing on a window: its client may be left with none.
LEMMA DoDestroyClientwinSound ==
  ASSUME NEW s, Whole(s), NEW c \in Client, NEW w \in Win, s.clientOf[w] = c
  PROVE  LET r == DoDestroyClientwin(s, c, w) IN
         /\ r \in State /\ Clients(r) /\ ShownBut(r, {}) /\ Listed(r, {c}) /\ Grounds(r)
         /\ Pointers(r) /\ SameButWins(s, r) /\ r.protect = s.protect /\ r.wswin = s.wswin
         /\ r.clientOf[w] = NULL /\ \A v \in Win \ {w} : r.clientOf[v] = s.clientOf[v]
         /\ c \in ToSet(s.list)
<1> DEFINE f == s.frameOf[c]
           h == CheckFunctionThing(s, w, c)
           u == SetState([h EXCEPT !.wins[c] = Unlink(@, w), !.clientOf[w] = NULL],
                         {w}, "Withdrawn")
           b == f # NULL /\ s.wswin = f /\ s.cur[f] = c /\ u.wins[c] # <<>>
           e == IF b THEN SetFocus(u, Last(u.wins[c])) ELSE u
           r == DoDestroyClientwin(s, c, w)
<1>1. /\ s \in State /\ c \in Things /\ c # NULL /\ NULL \notin Client
      /\ s.clientOf \in [Win -> Client \cup {NULL}]
  BY ClassesAreDisjoint DEF Whole, State, Things
<1>2. c \in ToSet(s.list)
  <2>1. s.wins[c] \in Seq(Win) /\ w \in ToSet(s.wins[c])
    BY <1>1 DEF State, Whole, Clients, WinLinks
  <2>2. s.wins[c] # <<>>
    BY <2>1, ElementFacts
  <2> QED
    BY <2>2 DEF Whole, Listed
<1>3. /\ h \in State /\ SameView(s, h)
      /\ h.wswin = s.wswin /\ h.protect = s.protect /\ h.fnext = s.fnext /\ h.prev = s.prev
      /\ h.fthing = (IF s.fthing = w THEN c ELSE s.fthing)
      /\ h.fframe = (IF s.fframe = w THEN NULL ELSE s.fframe)
  BY <1>1, CheckFunctionThingFields
<1>4. r = ForgetThing(e, w, c)
  BY DEF DoDestroyClientwin
<1> HIDE DEF h, r
<1>5. /\ u \in State /\ SameButWins(h, u) /\ SamePointers(h, u)
      /\ UnlinksWindow(h, u, c, w)
      /\ \A v \in Win : u.state[v] = IF v = w THEN "Withdrawn" ELSE h.state[v]
  BY <1>3, UnlinkWindowFields
<1> HIDE DEF u
<1>6. ToSet(u.wins[c]) = ToSet(s.wins[c]) \ {w}
  <2>1. s.wins[c] \in Seq(Win) /\ IsInjective(s.wins[c]) /\ u.wins[c] = Unlink(s.wins[c], w)
    BY <1>1, <1>3, <1>5 DEF State, Whole, Clients, WinLinks, UnlinksWindow, SameView, SameThings
  <2> QED
    BY <2>1, UnlinkFacts
<1>7. b => Last(u.wins[c]) \in Win \ {w} /\ s.clientOf[Last(u.wins[c])] = c
  <2> SUFFICES ASSUME u.wins[c] # <<>>
               PROVE  Last(u.wins[c]) \in Win \ {w} /\ s.clientOf[Last(u.wins[c])] = c
    OBVIOUS
  <2>1. u.wins[c] \in Seq(Win)
    BY <1>5 DEF State
  <2>2. Last(u.wins[c]) \in ToSet(u.wins[c])
    <3>1. Len(u.wins[c]) \in 1 .. Len(u.wins[c])
      BY <2>1
    <3> QED
      BY <2>1, <3>1, ElementFacts DEF Last
  <2> QED
    BY <1>6, <2>2 DEF Whole, Clients, WinLinks
<1>8. /\ e \in State /\ SameView(u, e) /\ e.protect = u.protect /\ e.wswin = u.wswin
      /\ e.fframe = u.fframe /\ e.prev = u.prev
      /\ \/ e.fnext = u.fnext /\ e.fthing = u.fthing
         \/ /\ e.fnext \in Win \ {w} /\ s.clientOf[e.fnext] = c /\ e.fthing = e.fnext
  <2>1. CASE b
    <3>1. Last(u.wins[c]) \in Things
      BY <1>7, <2>1 DEF Things
    <3>2. e = SetFocus(u, Last(u.wins[c]))
      BY <2>1
    <3> HIDE DEF e, b
    <3> QED
      BY <1>5, <1>7, <2>1, <3>1, <3>2, SetFocusFields
  <2>2. CASE ~b
    BY <1>5, <2>2 DEF SameView, SameThings, SameLinks
  <2> QED
    BY <2>1, <2>2
<1> HIDE DEF e, b
<1>9. /\ r \in State /\ SameView(e, r)
      /\ r.wswin = e.wswin /\ r.protect = e.protect
      /\ r.fthing = e.fthing /\ r.fframe = e.fframe
      /\ r.fnext = (IF e.fnext = w THEN NULL ELSE e.fnext)
      /\ r.prev = (IF e.prev = w THEN c ELSE e.prev)
  BY <1>1, <1>4, <1>8, ForgetThingFields
<1>10. /\ SameButWins(s, r) /\ UnlinksWindow(s, r, c, w)
       /\ \A v \in Win : r.state[v] = IF v = w THEN "Withdrawn" ELSE s.state[v]
  BY <1>3, <1>5, <1>8, <1>9
     DEF SameView, SameThings, SameLinks, SameButWins, SameGrounds, UnlinksWindow
<1>11. WinLinks(r)
  BY <1>1, <1>9, <1>10, WindowUnlinked DEF Whole, Clients
<1>12. Clients(r) /\ Grounds(r)
  BY <1>10, <1>11, ButWinsKeep DEF Whole
<1>13. r.clientOf[w] = NULL /\ \A v \in Win \ {w} : r.clientOf[v] = s.clientOf[v]
  BY <1>10 DEF UnlinksWindow
<1>14. ShownBut(r, {})
  <2>1. ASSUME NEW d PROVE IsCurrent(r, d) <=> IsCurrent(s, d)
    BY <1>10 DEF SameButWins, IsCurrent
  <2> QED
    BY <1>10, <1>13, <2>1 DEF Whole, ShownBut
<1>15. Listed(r, {c})
  BY <1>10 DEF Whole, Listed, SameButWins, SameLinks, UnlinksWindow
<1>16. Pointers(r)
  <2>1. \A t : Names(s, t) /\ t # w => Names(r, t)
    BY <1>10, <1>13
       DEF Names, Alive, IsLiveFrame, IsLiveClient, IsManaged, SameButWins, SameGrounds
  <2>2. Names(r, c)
    BY <1>2, <1>10 DEF Names, Alive, IsLiveClient, SameButWins
  <2>3. \A v \in Win \ {w} : s.clientOf[v] = c => Names(r, v)
    BY <1>1, <1>13 DEF Names, Alive, IsManaged
  <2>4. Names(r, NULL)
    BY DEF Names
  <2>5. Names(r, r.fnext) /\ Names(r, r.prev) /\ Names(r, r.fframe)
    BY <1>3, <1>5, <1>8, <1>9, <2>1, <2>2, <2>3, <2>4 DEF Whole, Pointers, SamePointers
  <2>6. Names(r, r.fthing)
    BY <1>1, <1>3, <1>5, <1>8, <1>9, <2>1, <2>2, <2>3, <2>4 DEF Whole, Pointers, SamePointers
  <2>7. r.fthing = s.fthing \/ r.fthing \in Win \cup Client
    BY <1>3, <1>5, <1>8, <1>9 DEF SamePointers
  <2>8. \A g \in Frame : Input(g) \notin Win \cup Client
    BY InputsAreApart DEF Inputs
  <2>9. r.wswin = s.wswin /\ r.wsOf = s.wsOf /\ r.curws = s.curws
    BY <1>3, <1>5, <1>8, <1>9, <1>10 DEF SamePointers, SameButWins, SameGrounds
  <2> QED
    BY <2>5, <2>6, <2>7, <2>8, <2>9 DEF Whole, Pointers
<1> QED
  BY <1>2, <1>3, <1>5, <1>8, <1>9, <1>10, <1>12, <1>13, <1>14, <1>15, <1>16 DEF r, SamePointers

LEMMA DropClientFields ==
  ASSUME NEW s \in State, NEW c
  PROVE  LET r == [s EXCEPT !.list = Unlink(@, c), !.tagged = @ \ {c}] IN
         /\ r \in State /\ r.list = Unlink(s.list, c) /\ r.tagged = s.tagged \ {c}
         /\ SameGrounds(s, r) /\ SamePointers(s, r) /\ SameLinks(s, r)
         /\ r.cur = s.cur /\ r.input = s.input /\ r.wins = s.wins /\ r.clientOf = s.clientOf
         /\ r.state = s.state
<1> DEFINE q == Unlink(s.list, c)
           T == s.tagged \ {c}
           r == [s EXCEPT !.list = q, !.tagged = T]
<1>1. q \in Seq(Client) /\ T \in SUBSET Client
  BY UnlinkType DEF State
<1>2. r = [s EXCEPT !.list = Unlink(@, c), !.tagged = @ \ {c}]
  BY DEF State
<1> HIDE DEF q, T
<1>3. r \in State
  BY <1>1 DEF State
<1>4. /\ r.list = q /\ r.tagged = T
      /\ SameGrounds(s, r) /\ SamePointers(s, r) /\ SameLinks(s, r)
      /\ r.cur = s.cur /\ r.input = s.input /\ r.wins = s.wins /\ r.clientOf = s.clientOf
      /\ r.state = s.state
  BY DEF State, SameLinks, SameGrounds, SamePointers
<1> QED
  BY <1>2, <1>3, <1>4 DEF q, T

\* do_destroy_thing on a client without windows.
LEMMA DoDestroyClientSound ==
  ASSUME NEW s \in State, NEW c \in ToSet(s.list),
         Clients(s), ShownBut(s, {}), Listed(s, {c}), Grounds(s), Pointers(s),
         s.wins[c] = <<>>, s.frameOf[c] # NULL
  PROVE  LET r == DoDestroyClient(s, c) IN
         /\ Whole(r) /\ Puts(s, r, c, NULL) /\ r.wsOf = s.wsOf /\ r.curws = s.curws
         /\ r.input = s.input /\ r.protect = s.protect /\ r.wswin = s.wswin
         /\ Focuses(s, r)
<1> DEFINE f == s.frameOf[c]
           h == CheckFunctionThing(s, c, f)
           d == DetachClient(h, f, c)
           x == [d EXCEPT !.list = Unlink(@, c), !.tagged = @ \ {c}]
           r == DoDestroyClient(s, c)
<1>1. /\ c \in Client /\ f \in Frame /\ f # NULL /\ f # c /\ f \in Things /\ NULL \notin Client
      /\ c # NULL /\ s.wsOf[f] # NULL
      /\ s.frameOf \in [Client -> Frame \cup {NULL}]
  <2>1. c \in Client /\ NULL \notin Client /\ c # NULL
    BY ListIsClients, ClassesAreDisjoint
  <2>2. s.frameOf \in [Client -> Frame \cup {NULL}]
    BY DEF State
  <2>3. f \in Frame /\ s.wsOf[f] # NULL
    BY <2>1, <2>2 DEF Clients, Members
  <2> HIDE DEF f
  <2> QED
    BY <2>1, <2>2, <2>3, NoFrameIsInput, ClassesAreDisjoint
<1>2. r = ForgetThing(x, c, f)
  BY <1>1 DEF DoDestroyClient
<1>3. /\ h \in State /\ SameView(s, h)
      /\ h.wswin = s.wswin /\ h.protect = s.protect /\ h.fnext = s.fnext /\ h.prev = s.prev
      /\ h.fthing = (IF s.fthing = c THEN f ELSE s.fthing)
      /\ h.fframe = (IF s.fframe = c THEN NULL ELSE s.fframe)
  BY <1>1, CheckFunctionThingFields
<1>4. h.frameOf[c] = f
  BY <1>3 DEF SameView, SameLinks
<1> HIDE DEF f, h, r
<1>5. SameThings(s, h) /\ SameLinks(s, h) /\ h.cur = s.cur /\ h.state = s.state
  BY <1>3 DEF SameView
<1>6. Clients(h) /\ ShownBut(h, {c}) /\ Grounds(h)
  <2>1. FrameLinks(h) /\ Members(h) /\ WinLinks(h) /\ Grounds(h)
    BY <1>5, SameThingsKeep, GroundsKept DEF Clients, SameLinks
  <2>2. OwnCurrents(h) /\ SomeCurrents(h) /\ ShownBut(h, {c})
    BY <1>5 DEF Clients, OwnCurrents, SomeCurrents, ShownBut, SameThings, SameLinks, IsCurrent
  <2> QED
    BY <2>1, <2>2 DEF Clients
<1>7. Pointers(h)
  <2>1. h.wsOf = s.wsOf /\ h.curws = s.curws /\ \A t : Names(h, t) <=> Names(s, t)
    BY <1>5, SameAlive DEF SameThings, Names
  <2>2. Names(s, f) /\ Names(s, NULL)
    BY <1>1 DEF Names, Alive, IsLiveFrame
  <2> QED
    BY <1>1, <1>3, <2>1, <2>2, NoFrameIsInput DEF Pointers
<1>8. /\ d \in State /\ Moves(h, d) /\ Clients(d) /\ ShownBut(d, {c})
      /\ d.frameOf = [h.frameOf EXCEPT ![c] = NULL]
      /\ \A g \in Frame : g # f \/ h.cur[f] # c => d.cur[g] = h.cur[g]
      /\ h.fthing # c => d.fthing # c
      /\ h.cur[f] = c /\ h.wswin = f /\ h.input[f] = NULL /\ d.cur[f] # NULL
           => d.fnext \notin {c, NULL}
  <2>1. c \in Client /\ f \in Frame /\ h \in State
    BY <1>1, <1>3
  <2>2. /\ d \in State /\ Moves(h, d) /\ Clients(d) /\ ShownBut(d, {c})
        /\ d.frameOf = [h.frameOf EXCEPT ![c] = NULL]
    BY <1>4, <1>6, <2>1, DetachClientSound
  <2>3. Leaves(h, d, f, c)
    BY <1>4, <1>6, <2>1, DetachClientSound
  <2> QED
    BY <2>2, <2>3 DEF Leaves
<1> HIDE DEF d
<1>9. /\ x \in State /\ x.list = Unlink(d.list, c) /\ x.tagged = d.tagged \ {c}
      /\ SameGrounds(d, x) /\ SamePointers(d, x) /\ SameLinks(d, x)
      /\ x.cur = d.cur /\ x.input = d.input /\ x.wins = d.wins /\ x.clientOf = d.clientOf
      /\ x.state = d.state
  BY <1>8, DropClientFields
<1> HIDE DEF x
<1>10. /\ r \in State /\ SameView(x, r)
       /\ r.wswin = x.wswin /\ r.protect = x.protect
       /\ r.fthing = x.fthing /\ r.fframe = x.fframe
       /\ r.fnext = (IF x.fnext = c THEN NULL ELSE x.fnext)
       /\ r.prev = (IF x.prev = c THEN f ELSE x.prev)
  BY <1>1, <1>2, <1>9, ForgetThingFields
<1>11. /\ r.wsOf = s.wsOf /\ r.curws = s.curws /\ r.workspaces = s.workspaces
       /\ r.mapped = s.mapped /\ r.input = s.input /\ r.wins = s.wins /\ r.clientOf = s.clientOf
       /\ r.list = Unlink(s.list, c) /\ r.tagged = s.tagged \ {c}
       /\ SameLinks(d, r) /\ r.cur = d.cur /\ r.state = d.state
  BY <1>5, <1>8, <1>9, <1>10 DEF Moves, SameThings, SameGrounds, SameView, SameLinks
<1>12. r.frameOf = [s.frameOf EXCEPT ![c] = NULL]
  BY <1>5, <1>8, <1>11 DEF SameLinks
<1>13. IsInjective(r.list) /\ ToSet(r.list) = ToSet(s.list) \ {c}
  <2>1. s.list \in Seq(Client) /\ IsInjective(s.list)
    BY DEF State, Listed
  <2> QED
    BY <1>11, <2>1, UnlinkFacts
<1>14. \A w \in Win : s.clientOf[w] # c
  BY <1>1 DEF Clients, WinLinks, ToSet
<1>15. Clients(r)
  <2>1. FrameLinks(r) /\ OwnCurrents(r) /\ SomeCurrents(r)
    BY <1>8, <1>11 DEF Clients, FrameLinks, OwnCurrents, SomeCurrents, SameLinks
  <2>2. WinLinks(r)
    BY <1>11 DEF Clients, WinLinks
  <2>3. \A e \in Client : r.frameOf[e] = IF e = c THEN NULL ELSE s.frameOf[e]
    BY <1>1, <1>12
  <2>4. Members(r)
    BY <1>11, <1>13, <2>3 DEF Clients, Members
  <2> QED
    BY <2>1, <2>2, <2>4 DEF Clients
<1>16. ShownBut(r, {})
  <2>1. d.clientOf = s.clientOf
    BY <1>5, <1>8 DEF Moves, SameThings
  <2> QED
    BY <1>8, <1>11, <1>14, <2>1 DEF ShownBut, IsCurrent
<1>17. Listed(r, {})
  <2>1. \A e \in Client : r.frameOf[e] = IF e = c THEN NULL ELSE s.frameOf[e]
    BY <1>1, <1>12
  <2> QED
    BY <1>11, <1>13, <2>1 DEF Listed
<1>18. Grounds(r)
  BY <1>11 DEF Grounds, FramesOf
<1>19. Pointers(r)
  <2>1. Pointers(d)
    BY <1>3, <1>6, <1>7, <1>8, PointersMove
  <2>2. /\ d.wsOf = s.wsOf /\ d.workspaces = s.workspaces /\ d.clientOf = s.clientOf
        /\ d.input = s.input /\ d.list = s.list /\ d.curws = s.curws
    BY <1>5, <1>8 DEF Moves, SameThings
  <2>3. \A t : Names(d, t) /\ t # c => Names(r, t)
    BY <1>11, <1>13, <2>2 DEF Names, Alive, IsLiveFrame, IsLiveClient, IsManaged
  <2>4. Names(r, f) /\ Names(r, NULL)
    BY <1>1, <1>11 DEF Names, Alive, IsLiveFrame
  <2>5. d.fthing # c /\ d.fframe # c
    <3>1. d.fthing # c
      BY <1>1, <1>3, <1>8
    <3>2. d.fframe \in Frame \cup {NULL}
      BY <1>8 DEF State
    <3> QED
      BY <1>1, <3>1, <3>2, ClassesAreDisjoint
  <2>6. Names(r, r.fnext) /\ Names(r, r.prev)
    BY <1>9, <1>10, <2>1, <2>3, <2>4 DEF Pointers, SamePointers
  <2>7. Names(r, r.fthing) /\ Names(r, r.fframe)
    BY <1>9, <1>10, <2>1, <2>3, <2>5 DEF Pointers, SamePointers
  <2>8. r.wswin = d.wswin /\ r.fthing = d.fthing /\ r.wsOf = d.wsOf /\ r.curws = d.curws
    BY <1>9, <1>10, <1>11, <2>2 DEF SamePointers
  <2> QED
    BY <2>1, <2>6, <2>7, <2>8 DEF Pointers
<1>20. Whole(r)
  BY <1>10, <1>15, <1>16, <1>17, <1>18, <1>19 DEF Whole
<1>21. \A g \in Frame : s.cur[g] # c => r.cur[g] = s.cur[g]
  BY <1>5, <1>8, <1>11
<1>22. Puts(s, r, c, NULL)
  <2>1. ASSUME NEW g \in Frame
        PROVE  r.cur[g] \in IF Others(s, g, c) # {} THEN Others(s, g, c) ELSE {NULL}
    <3>1. g # NULL /\ NULL \in Frame \cup {NULL}
      BY NoFrameIsInput
    <3> QED
      BY <1>1, <1>10, <1>12, <1>15, <3>1, LeftFrameShowsAnother
  <2>2. \A g \in Frame : g # NULL
    BY NoFrameIsInput
  <2> QED
    BY <1>12, <1>21, <2>1, <2>2 DEF Puts
<1>23. r.protect = s.protect /\ r.wswin = s.wswin
  BY <1>3, <1>8, <1>9, <1>10 DEF Moves, SamePointers
<1>24. Focuses(s, r)
  <2> SUFFICES ASSUME NEW g \in Frame, s.wswin = g, r.cur[g] \notin {NULL, s.cur[g]},
                      s.input[g] = NULL
               PROVE  r.fnext # NULL
    BY DEF Focuses
  <2>1. s.cur[g] = c
    BY <1>21
  <2>2. g = f
    BY <1>1, <2>1 DEF Clients, OwnCurrents, f
  <2>3. h.input = s.input
    BY <1>5 DEF SameThings
  <2>4. d.fnext \notin {c, NULL}
    BY <1>3, <1>5, <1>8, <1>11, <2>1, <2>2, <2>3
  <2> QED
    BY <1>9, <1>10, <2>4 DEF SamePointers
<1> QED
  BY <1>11, <1>20, <1>22, <1>23, <1>24 DEF r

\* destroy_thing on a window, and on its client if that was its last one.
LEMMA DestroyClientwinWhole ==
  ASSUME NEW s, Whole(s), NEW c \in Client, NEW w \in Win, s.clientOf[w] = c
  PROVE  LET r == DestroyClientwin(s, c, w) IN
         /\ Whole(r) /\ r.wsOf = s.wsOf /\ r.curws = s.curws
         /\ r.input = s.input /\ r.protect = s.protect /\ r.wswin = s.wswin
         /\ \/ /\ \E v \in Win \ {w} : s.clientOf[v] = c
               /\ r.frameOf = s.frameOf /\ r.cur = s.cur
            \/ Puts(s, r, c, NULL)
         /\ Focuses(s, r)
<1> DEFINE d == DoDestroyClientwin(s, c, w)
           r == DestroyClientwin(s, c, w)
<1>1. /\ d \in State /\ Clients(d) /\ ShownBut(d, {}) /\ Listed(d, {c}) /\ Grounds(d)
      /\ Pointers(d) /\ SameButWins(s, d) /\ d.protect = s.protect /\ d.wswin = s.wswin
      /\ d.clientOf[w] = NULL /\ \A v \in Win \ {w} : d.clientOf[v] = s.clientOf[v]
      /\ c \in ToSet(s.list)
  BY DoDestroyClientwinSound
<1>2. r = IF d.wins[c] = <<>> THEN DoDestroyClient(d, c) ELSE d
  BY DEF DestroyClientwin
<1> HIDE DEF d, r
<1>3. /\ d.list = s.list /\ d.frameOf = s.frameOf /\ d.cur = s.cur /\ d.wsOf = s.wsOf
      /\ d.curws = s.curws /\ d.input = s.input
  BY <1>1 DEF SameButWins, SameLinks, SameGrounds
<1>4. s.frameOf[c] # NULL
  BY <1>1 DEF Whole, Listed
<1>5. CASE d.wins[c] = <<>>
  <2>1. /\ Whole(r) /\ Puts(d, r, c, NULL) /\ r.wsOf = d.wsOf /\ r.curws = d.curws
        /\ r.input = d.input /\ r.protect = d.protect /\ r.wswin = d.wswin
        /\ Focuses(d, r)
    BY <1>1, <1>2, <1>3, <1>4, <1>5, DoDestroyClientSound
  <2>2. \A g \in Frame : Others(d, g, c) = Others(s, g, c)
    BY <1>3 DEF Others
  <2>3. Puts(s, r, c, NULL) /\ Focuses(s, r)
    BY <1>1, <1>3, <2>1, <2>2 DEF Puts, Focuses
  <2> QED
    BY <1>1, <1>3, <2>1, <2>3 DEF r
<1>6. CASE d.wins[c] # <<>>
  <2>1. r = d
    BY <1>2, <1>6
  <2>2. Listed(d, {})
    BY <1>1, <1>3, <1>4, <1>6 DEF Listed
  <2>3. Focuses(s, d)
    BY <1>3 DEF Focuses
  <2>4. \E v \in Win \ {w} : s.clientOf[v] = c
    <3>1. d.wins[c] \in Seq(Win) /\ ToSet(d.wins[c]) = {v \in Win : d.clientOf[v] = c}
      BY <1>1 DEF State, Clients, WinLinks
    <3>2. PICK v \in Win : d.clientOf[v] = c
      BY <1>6, <3>1, ElementFacts
    <3>3. NULL # c
      BY ClassesAreDisjoint
    <3> QED
      BY <1>1, <3>2, <3>3
  <2> QED
    BY <1>1, <1>3, <2>1, <2>2, <2>3, <2>4 DEF Whole, r
<1> QED
  BY <1>5, <1>6

\* do_destroy_thing on a frame without clients.  Destroying its input on the way may
\* leave the thing of a sequence naming the frame.
LEMMA DoDestroyFrameFields ==
  ASSUME NEW s, Whole(s), NEW f \in Frame, s.wsOf[f] # NULL
  PROVE  LET r == DoDestroyFrame(s, f) IN
         /\ r \in State /\ SameClients(s, r)
         /\ r.workspaces = s.workspaces /\ r.curws = s.curws /\ r.protect = s.protect
         /\ r.wsOf = [s.wsOf EXCEPT ![f] = NULL] /\ r.mapped = s.mapped \ {f}
         /\ r.input = [s.input EXCEPT ![f] = NULL]
         /\ r.wswin = (IF s.wswin = f THEN NULL ELSE s.wswin)
         /\ r.fnext \in {s.fnext, NULL} \ {f, Input(f)}
         /\ r.prev \in {s.prev, s.wsOf[f]} \ {f, Input(f)}
         /\ r.fframe \in {s.fframe, NULL} \ {f, Input(f)}
         /\ r.fthing = (IF s.fthing = f THEN s.wsOf[f]
                        ELSE IF s.fthing = Input(f) THEN f ELSE s.fthing)
<1> DEFINE ws == s.wsOf[f]
           h  == CheckFunctionThing(s, f, ws)
           i  == IF h.input[f] # NULL THEN DestroyInput(h, f) ELSE h
           u  == [i EXCEPT !.wsOf[f] = NULL,
                           !.mapped  = @ \ {f},
                           !.wswin   = IF @ = f THEN NULL ELSE @]
           r  == DoDestroyFrame(s, f)
<1>1. /\ s \in State /\ ws \in Ws /\ ws \in Things /\ f # NULL /\ f \in Things
      /\ s.input \in [Frame -> {NULL, "query", "message"}]
  BY NoFrameIsInput DEF Whole, State, Things
<1>2. ws # f /\ ws # Input(f) /\ NULL # Input(f) /\ f # Input(f)
  BY <1>1, ClassesAreDisjoint, InputsAreApart DEF Inputs
<1>3. r = ForgetThing(u, f, ws)
  BY DEF DoDestroyFrame
<1>4. /\ h \in State /\ SameView(s, h)
      /\ h.wswin = s.wswin /\ h.protect = s.protect /\ h.fnext = s.fnext /\ h.prev = s.prev
      /\ h.fthing = (IF s.fthing = f THEN ws ELSE s.fthing)
      /\ h.fframe = (IF s.fframe = f THEN NULL ELSE s.fframe)
  BY <1>1, CheckFunctionThingFields
<1> HIDE DEF ws, h, r
<1>5. /\ h.input = s.input /\ SameClients(s, h) /\ SameGrounds(s, h)
  BY <1>4 DEF SameView, SameThings, SameClients, SameGrounds
<1>6. s.input[f] = NULL => Input(f) \notin {s.fnext, s.prev, s.fthing, s.fframe}
  <2> SUFFICES ASSUME s.input[f] = NULL PROVE ~Names(s, Input(f))
    BY DEF Whole, Pointers
  <2>1. \A g \in Frame : Input(f) = Input(g) => g = f
    BY DEF Input
  <2>2. ToSet(s.workspaces) \subseteq Ws /\ ToSet(s.list) \subseteq Client
    BY <1>1, ElementFacts, ListIsClients DEF State
  <2>3. Input(f) \notin Win \cup Client \cup Frame \cup Ws \cup {Screen, NULL}
    BY InputsAreApart DEF Inputs
  <2> QED
    BY <2>1, <2>2, <2>3 DEF Names, Alive, IsLiveFrame, IsLiveClient, IsManaged
<1>7. /\ i \in State /\ SameClients(h, i) /\ SameGrounds(h, i)
      /\ i.input = [s.input EXCEPT ![f] = NULL]
      /\ i.wswin = h.wswin /\ i.protect = h.protect
      /\ i.fthing = (IF h.fthing = Input(f) THEN f ELSE h.fthing)
      /\ i.fframe = (IF h.fframe = Input(f) THEN NULL ELSE h.fframe)
      /\ i.fnext = (IF h.fnext = Input(f) THEN NULL ELSE h.fnext)
      /\ i.prev = (IF h.prev = Input(f) THEN f ELSE h.prev)
  <2>1. CASE h.input[f] # NULL
    <3>1. i = DestroyInput(h, f)
      BY <2>1
    <3> QED
      BY <1>4, <1>5, <3>1, DestroyInputFields
  <2>2. CASE h.input[f] = NULL
    <3>1. i = h
      BY <2>2
    <3>2. s.input = [s.input EXCEPT ![f] = NULL]
      BY <1>1, <1>5, <2>2
    <3>3. SameClients(h, h) /\ SameGrounds(h, h)
      BY DEF SameClients, SameGrounds, SameLinks
    <3> QED
      BY <1>2, <1>4, <1>5, <1>6, <2>2, <3>1, <3>2, <3>3
  <2> QED
    BY <2>1, <2>2
<1> HIDE DEF i
<1>8. /\ u \in State /\ SameClients(i, u) /\ u.workspaces = i.workspaces /\ u.curws = i.curws
      /\ u.wsOf = [i.wsOf EXCEPT ![f] = NULL] /\ u.mapped = i.mapped \ {f}
      /\ u.input = i.input /\ u.protect = i.protect
      /\ u.wswin = (IF i.wswin = f THEN NULL ELSE i.wswin)
      /\ u.fnext = i.fnext /\ u.prev = i.prev /\ u.fthing = i.fthing /\ u.fframe = i.fframe
  <2> DEFINE M == i.mapped \ {f}
             a == IF i.wswin = f THEN NULL ELSE i.wswin
             v == [i EXCEPT !.wsOf[f] = NULL, !.mapped = M, !.wswin = a]
  <2>1. u = v
    BY <1>7 DEF State
  <2>2. M \in SUBSET Frame /\ a \in Frame \cup {NULL}
    BY <1>7 DEF State
  <2> HIDE DEF u, M, a
  <2>3. v \in State
    BY <1>7, <2>2 DEF State
  <2>4. /\ SameClients(i, v) /\ v.workspaces = i.workspaces /\ v.curws = i.curws
        /\ v.wsOf = [i.wsOf EXCEPT ![f] = NULL] /\ v.mapped = M
        /\ v.input = i.input /\ v.protect = i.protect /\ v.wswin = a
        /\ v.fnext = i.fnext /\ v.prev = i.prev /\ v.fthing = i.fthing /\ v.fframe = i.fframe
    BY <1>7 DEF State, SameClients, SameLinks
  <2> QED
    BY <2>1, <2>3, <2>4 DEF M, a
<1> HIDE DEF u
<1>9. /\ r \in State /\ SameView(u, r)
      /\ r.wswin = u.wswin /\ r.protect = u.protect
      /\ r.fthing = u.fthing /\ r.fframe = u.fframe
      /\ r.fnext = (IF u.fnext = f THEN NULL ELSE u.fnext)
      /\ r.prev = (IF u.prev = f THEN ws ELSE u.prev)
  BY <1>1, <1>3, <1>8, ForgetThingFields
<1>10. SameClients(s, r)
  BY <1>5, <1>7, <1>8, <1>9 DEF SameView, SameThings, SameClients, SameLinks
<1>11. /\ r.workspaces = s.workspaces /\ r.curws = s.curws /\ r.protect = s.protect
       /\ r.wsOf = [s.wsOf EXCEPT ![f] = NULL] /\ r.mapped = s.mapped \ {f}
       /\ r.input = [s.input EXCEPT ![f] = NULL]
       /\ r.wswin = (IF s.wswin = f THEN NULL ELSE s.wswin)
  BY <1>4, <1>5, <1>7, <1>8, <1>9 DEF SameView, SameThings, SameGrounds
<1>12. r.fnext \in {s.fnext, NULL} \ {f, Input(f)} /\ r.prev \in {s.prev, ws} \ {f, Input(f)}
  BY <1>1, <1>2, <1>4, <1>7, <1>8, <1>9
<1>13. /\ r.fframe \in {s.fframe, NULL} \ {f, Input(f)}
       /\ r.fthing = (IF s.fthing = f THEN ws ELSE IF s.fthing = Input(f) THEN f ELSE s.fthing)
  BY <1>1, <1>2, <1>4, <1>7, <1>8, <1>9
<1> QED
  BY <1>9, <1>10, <1>11, <1>12, <1>13 DEF r, ws


LEMMA FrameGone ==
  ASSUME NEW s, Whole(s), NEW f \in Frame, s.wsOf[f] # NULL, s.clients[f] = <<>>,
         NEW r \in State, SameClients(s, r), r.wsOf = [s.wsOf EXCEPT ![f] = NULL],
         r.input = [s.input EXCEPT ![f] = NULL]
  PROVE  /\ Clients(r) /\ ShownBut(r, {}) /\ Listed(r, {})
         /\ \A g \in Frame : r.wsOf[g] = IF g = f THEN NULL ELSE s.wsOf[g]
         /\ \A g \in Frame : r.wsOf[g] = NULL => r.input[g] = NULL
         /\ \A ws : ws # NULL => FramesOf(r, ws) = FramesOf(s, ws) \ {f}
         /\ \A t : Names(s, t) /\ t \notin {f, Input(f)}
                  /\ (t \in ToSet(s.workspaces) => t \in ToSet(r.workspaces)) => Names(r, t)
<1>1. /\ s \in State /\ s.wsOf \in [Frame -> Ws \cup {NULL}]
      /\ s.input \in [Frame -> {NULL, "query", "message"}]
  BY DEF Whole, State
<1>2. \A g \in Frame : r.wsOf[g] = IF g = f THEN NULL ELSE s.wsOf[g]
  BY <1>1
<1>3. \A g \in Frame : r.input[g] = IF g = f THEN NULL ELSE s.input[g]
  BY <1>1
<1>4. \A g \in Frame : r.wsOf[g] = NULL => r.input[g] = NULL
  BY <1>2, <1>3 DEF Whole, Grounds
<1>5. \A g \in Frame : s.clients[g] # <<>> => r.wsOf[g] # NULL
  BY <1>1, <1>2, UsedFramesLive DEF Whole
<1>6. Clients(r) /\ ShownBut(r, {}) /\ Listed(r, {})
  BY <1>1, <1>5, ClientsKept DEF Whole
<1>7. \A ws : ws # NULL => FramesOf(r, ws) = FramesOf(s, ws) \ {f}
  BY <1>2 DEF FramesOf
<1>8. ASSUME NEW t, Names(s, t), t \notin {f, Input(f)},
             t \in ToSet(s.workspaces) => t \in ToSet(r.workspaces)
      PROVE  Names(r, t)
  BY <1>2, <1>3, <1>8 DEF Names, Alive, IsLiveFrame, IsLiveClient, IsManaged, SameClients
<1> QED
  BY <1>2, <1>4, <1>6, <1>7, <1>8

\* destroy_frame when the workspace has another frame, which gets the focus.
LEMMA DestroyFrameWhole ==
  ASSUME NEW s, Whole(s), NEW f \in Frame, NEW to \in Frame, f # to,
         s.wsOf[f] # NULL, s.wsOf[to] = s.wsOf[f], s.clients[f] = <<>>
  PROVE  LET r == SetFocus(DestroyFrame(s, f, to), to) IN
         /\ Whole(r) /\ r.frameOf = s.frameOf /\ r.cur = s.cur /\ r.curws = s.curws
         /\ r.wsOf = [s.wsOf EXCEPT ![f] = NULL] /\ r.protect = s.protect
         /\ r.fthing # NULL /\ r.fnext # NULL
<1> DEFINE d == DoDestroyFrame(s, f)
           r == SetFocus(DestroyFrame(s, f, to), to)
<1>1. /\ s \in State /\ to \in Things /\ to # NULL /\ s.curws # NULL
      /\ s.wsOf \in [Frame -> Ws \cup {NULL}]
  BY NoFrameIsInput DEF Whole, State, Grounds
<1>2. /\ d \in State /\ SameClients(s, d)
      /\ d.workspaces = s.workspaces /\ d.curws = s.curws /\ d.protect = s.protect
      /\ d.wsOf = [s.wsOf EXCEPT ![f] = NULL] /\ d.mapped = s.mapped \ {f}
      /\ d.input = [s.input EXCEPT ![f] = NULL]
      /\ d.wswin = (IF s.wswin = f THEN NULL ELSE s.wswin)
      /\ d.fnext \in {s.fnext, NULL} \ {f, Input(f)}
      /\ d.prev \in {s.prev, s.wsOf[f]} \ {f, Input(f)}
      /\ d.fframe \in {s.fframe, NULL} \ {f, Input(f)}
  BY DoDestroyFrameFields
<1>3. r = SetFocus(d, to)
  <2>1. to \in FramesOf(d, s.wsOf[f])
    BY <1>1, <1>2 DEF FramesOf
  <2> QED
    BY <2>1 DEF DestroyFrame
<1> HIDE DEF d, r
<1>4. /\ Clients(d) /\ ShownBut(d, {}) /\ Listed(d, {})
      /\ \A g \in Frame : d.wsOf[g] = IF g = f THEN NULL ELSE s.wsOf[g]
      /\ \A g \in Frame : d.wsOf[g] = NULL => d.input[g] = NULL
      /\ \A ws : ws # NULL => FramesOf(d, ws) = FramesOf(s, ws) \ {f}
      /\ \A t : Names(s, t) /\ t \notin {f, Input(f)} => Names(d, t)
  <2>1. /\ Clients(d) /\ ShownBut(d, {}) /\ Listed(d, {})
        /\ \A g \in Frame : d.wsOf[g] = IF g = f THEN NULL ELSE s.wsOf[g]
        /\ \A g \in Frame : d.wsOf[g] = NULL => d.input[g] = NULL
        /\ \A ws : ws # NULL => FramesOf(d, ws) = FramesOf(s, ws) \ {f}
        /\ \A t : Names(s, t) /\ t \notin {f, Input(f)}
                 /\ (t \in ToSet(s.workspaces) => t \in ToSet(d.workspaces)) => Names(d, t)
    BY <1>2, FrameGone
  <2> QED
    BY <1>2, <2>1
<1>5. Grounds(d)
  <2>1. {d.wsOf[g] : g \in Frame} \ {NULL} = {s.wsOf[g] : g \in Frame} \ {NULL}
    BY <1>4
  <2>2. d.mapped = FramesOf(d, d.curws)
    BY <1>1, <1>2, <1>4 DEF Whole, Grounds
  <2> QED
    BY <1>2, <1>4, <2>1, <2>2 DEF Whole, Grounds
<1>6. /\ r \in State /\ SameView(d, r)
      /\ r.wswin = d.wswin /\ r.protect = d.protect /\ r.fframe = d.fframe /\ r.prev = d.prev
      /\ r.fnext = to /\ r.fthing = to
  BY <1>1, <1>2, <1>3, SetFocusFields
<1>7. \A t : Names(r, t) <=> Names(d, t)
  BY <1>6, SameAlive DEF Names, SameView
<1>8. Pointers(r)
  <2>1. Names(d, to)
    BY <1>4 DEF Names, Alive, IsLiveFrame
  <2>2. Names(d, s.wsOf[f]) /\ Names(d, NULL)
    BY <1>2 DEF Names, Alive, Whole, Grounds
  <2>3. Names(d, d.prev) /\ Names(d, d.fframe)
    BY <1>2, <1>4, <2>2 DEF Whole, Pointers
  <2>4. Names(r, r.fnext) /\ Names(r, r.prev) /\ Names(r, r.fthing) /\ Names(r, r.fframe)
    BY <1>6, <1>7, <2>1, <2>3
  <2>5. r.wswin # NULL => r.wsOf[r.wswin] = r.curws
    <3>1. s.wswin \in Frame \cup {NULL}
      BY <1>1 DEF State
    <3>2. r.wsOf = d.wsOf /\ r.curws = s.curws
      BY <1>2, <1>6 DEF SameView, SameThings
    <3> QED
      BY <1>2, <1>4, <1>6, <3>1, <3>2 DEF Whole, Pointers
  <2>6. \A g \in Frame : r.fthing # Input(g)
    BY <1>6, NoFrameIsInput
  <2> QED
    BY <2>4, <2>5, <2>6 DEF Pointers
<1>9. Clients(r) /\ ShownBut(r, {}) /\ Listed(r, {}) /\ Grounds(r)
  <2>1. SameClients(d, r)
    BY <1>6 DEF SameView, SameThings, SameClients
  <2>2. \A g \in Frame : d.clients[g] # <<>> => r.wsOf[g] # NULL
    <3>1. d \in State /\ Clients(d) /\ r.wsOf = d.wsOf
      BY <1>2, <1>4, <1>6 DEF SameView, SameThings
    <3> QED
      BY <3>1, UsedFramesLive
  <2>3. Clients(r) /\ ShownBut(r, {}) /\ Listed(r, {})
    BY <1>2, <1>4, <2>1, <2>2, ClientsKept
  <2> QED
    BY <1>5, <1>6, <2>3, GroundsKept DEF SameView
<1> QED
  BY <1>1, <1>2, <1>6, <1>8, <1>9
     DEF Whole, SameView, SameThings, SameLinks, SameClients, r


SetWorkspaces(s, q, a) == [s EXCEPT !.workspaces = q, !.curws = a]

LEMMA SetWorkspacesFields ==
  ASSUME NEW s \in State, NEW q \in Seq(Ws), NEW a \in Ws \cup {NULL}
  PROVE  LET r == SetWorkspaces(s, q, a) IN
         /\ r \in State /\ SameClients(s, r) /\ SamePointers(s, r)
         /\ r.workspaces = q /\ r.curws = a
         /\ r.wsOf = s.wsOf /\ r.mapped = s.mapped /\ r.input = s.input
<1> DEFINE r == [s EXCEPT !.workspaces = q, !.curws = a]
<1>1. r \in State
  BY DEF State
<1>2. /\ SameClients(s, r) /\ SamePointers(s, r) /\ r.workspaces = q /\ r.curws = a
      /\ r.wsOf = s.wsOf /\ r.mapped = s.mapped /\ r.input = s.input
  BY DEF State, SameClients, SameLinks, SamePointers
<1> QED
  BY <1>1, <1>2 DEF SetWorkspaces

\* The workspace that is current when ws has gone.
NextWorkspace(s, ws) == IF s.curws = ws THEN Head(Unlink(s.workspaces, ws)) ELSE s.curws

\* do_destroy_thing on a workspace whose frames have gone, when there is another.
LEMMA DoDestroyWorkspaceFields ==
  ASSUME NEW s \in State, NEW ws \in Ws, NEW cf \in Frame,
         IsInjective(s.workspaces), Unlink(s.workspaces, ws) # <<>>
  PROVE  LET r == DoDestroyWorkspace(s, ws, cf)
             q == Unlink(s.workspaces, ws)
         IN  /\ r \in State /\ SameClients(s, r) /\ r.workspaces = q
             /\ r.wsOf = s.wsOf /\ r.input = s.input /\ r.protect = s.protect
             /\ r.curws = NextWorkspace(s, ws)
             /\ r.fframe = (IF s.fframe = ws THEN NULL ELSE s.fframe)
             /\ s.curws # ws =>
                  /\ r.mapped = s.mapped /\ r.wswin = s.wswin
                  /\ r.fthing = (IF s.fthing = ws THEN Screen ELSE s.fthing)
                  /\ r.fnext = (IF s.fnext = ws THEN NULL ELSE s.fnext)
                  /\ r.prev = (IF s.prev = ws THEN Screen ELSE s.prev)
             /\ s.curws = ws =>
                  /\ r.mapped = s.mapped \cup FramesOf(s, Head(q)) /\ r.wswin = cf
                  /\ r.fthing = cf /\ r.fnext = cf
                  /\ s.wswin = NULL => r.prev = (IF s.prev = ws THEN Screen ELSE s.prev)
<1> DEFINE q == Unlink(s.workspaces, ws)
           h == CheckFunctionThing(s, ws, Screen)
           u == SetWorkspaces(h, q, h.curws)
           x == SetWorkspaces(h, q, NULL)
           v == IF s.curws # ws THEN u ELSE SwitchWorkspace(x, Head(q), cf)
           r == DoDestroyWorkspace(s, ws, cf)
<1>1. Screen \in Things /\ ws # NULL /\ cf # ws /\ cf # NULL
  BY ClassesAreDisjoint DEF Things
<1>2. q \in Seq(Ws) /\ Head(q) \in Ws
  <2>1. q \in Seq(Ws)
    BY UnlinkFacts DEF State
  <2> QED
    BY <2>1
<1>3. /\ h \in State /\ SameView(s, h)
      /\ h.wswin = s.wswin /\ h.protect = s.protect /\ h.fnext = s.fnext /\ h.prev = s.prev
      /\ h.fthing = (IF s.fthing = ws THEN Screen ELSE s.fthing)
      /\ h.fframe = (IF s.fframe = ws THEN NULL ELSE s.fframe)
  BY <1>1, CheckFunctionThingFields
<1>4. h.workspaces = s.workspaces /\ h.curws = s.curws
  BY <1>3 DEF SameView, SameThings
<1>5. r = ForgetThing(v, ws, Screen)
  <2>1. u = [h EXCEPT !.workspaces = Unlink(@, ws)]
    BY <1>3, <1>4 DEF State, SetWorkspaces
  <2>2. x = [u EXCEPT !.curws = NULL]
    BY <1>3 DEF State, SetWorkspaces
  <2>3. u.workspaces = q
    BY <1>3 DEF State, SetWorkspaces
  <2> HIDE DEF h, u, x
  <2> QED
    BY <2>1, <2>2, <2>3 DEF DoDestroyWorkspace, h
<1> HIDE DEF h, q, r
<1>6. /\ u \in State /\ SameClients(h, u) /\ SamePointers(h, u)
      /\ u.workspaces = q /\ u.curws = h.curws
      /\ u.wsOf = h.wsOf /\ u.mapped = h.mapped /\ u.input = h.input
  <2>1. h.curws \in Ws \cup {NULL}
    BY <1>3 DEF State
  <2> QED
    BY <1>2, <1>3, <2>1, SetWorkspacesFields
<1>7. /\ x \in State /\ SameClients(h, x) /\ SamePointers(h, x)
      /\ x.workspaces = q /\ x.curws = NULL
      /\ x.wsOf = h.wsOf /\ x.mapped = h.mapped /\ x.input = h.input
  BY <1>2, <1>3, SetWorkspacesFields
<1> HIDE DEF u, x
<1>8. CASE s.curws # ws
  <2>1. v = u
    BY <1>8
  <2>2. r = ForgetThing(u, ws, Screen)
    BY <1>5, <2>1
  <2>3. /\ r \in State /\ SameView(u, r)
        /\ r.wswin = u.wswin /\ r.protect = u.protect
        /\ r.fthing = u.fthing /\ r.fframe = u.fframe
        /\ r.fnext = (IF u.fnext = ws THEN NULL ELSE u.fnext)
        /\ r.prev = (IF u.prev = ws THEN Screen ELSE u.prev)
    BY <1>1, <1>6, <2>2, ForgetThingFields
  <2>4. /\ SameClients(s, r) /\ r.workspaces = q /\ r.curws = s.curws /\ r.wsOf = s.wsOf
        /\ r.mapped = s.mapped /\ r.input = s.input
    BY <1>3, <1>4, <1>6, <2>3 DEF SameView, SameThings, SameClients, SameLinks
  <2> QED
    BY <1>3, <1>6, <1>8, <2>3, <2>4 DEF SamePointers, r, q, NextWorkspace
<1>9. CASE s.curws = ws
  <2>1. v = SwitchWorkspace(x, Head(q), cf)
    BY <1>9
  <2> HIDE DEF v
  <2>2. /\ v \in State /\ SameClients(x, v) /\ v.wsOf = x.wsOf /\ v.workspaces = x.workspaces
        /\ v.input = x.input /\ v.curws = Head(q)
        /\ v.mapped = x.mapped \cup FramesOf(x, Head(q))
        /\ v.protect = x.protect /\ v.fframe = x.fframe
        /\ v.wswin = cf /\ v.fnext = cf /\ v.fthing = cf
        /\ v.prev = x.prev \/ (x.wswin # NULL /\ v.prev = CurrentClientOrFrame(x))
    <3>1. x.curws # Head(q)
      BY <1>2, <1>7, ClassesAreDisjoint
    <3> QED
      BY <1>2, <1>7, <2>1, <3>1, SwitchWorkspaceFields
  <2>3. /\ r \in State /\ SameView(v, r)
        /\ r.wswin = v.wswin /\ r.protect = v.protect
        /\ r.fthing = v.fthing /\ r.fframe = v.fframe
        /\ r.fnext = (IF v.fnext = ws THEN NULL ELSE v.fnext)
        /\ r.prev = (IF v.prev = ws THEN Screen ELSE v.prev)
    BY <1>1, <1>5, <2>2, ForgetThingFields
  <2>4. FramesOf(x, Head(q)) = FramesOf(s, Head(q))
    BY <1>3, <1>7 DEF FramesOf, SameView, SameThings
  <2>5. /\ SameClients(s, r) /\ r.workspaces = q /\ r.curws = Head(q) /\ r.wsOf = s.wsOf
        /\ r.mapped = s.mapped \cup FramesOf(s, Head(q)) /\ r.input = s.input
    BY <1>3, <1>4, <1>7, <2>2, <2>3, <2>4 DEF SameView, SameThings, SameClients, SameLinks
  <2> QED
    BY <1>1, <1>3, <1>7, <1>9, <2>2, <2>3, <2>5 DEF SamePointers, r, q, NextWorkspace
<1> QED
  BY <1>8, <1>9


\* destroy_frame on the only frame of a workspace that is not the only one.  The current
\* workspace is left for the next one, whose frame gets the focus.
LEMMA DestroyLastFrameWhole ==
  ASSUME NEW s, Whole(s), NEW f \in Frame, NEW cf \in Frame,
         s.wsOf[f] # NULL, FramesOf(s, s.wsOf[f]) = {f}, s.clients[f] = <<>>,
         Len(s.workspaces) > 1, cf \in FramesOf(s, Head(Unlink(s.workspaces, s.wsOf[f])))
  PROVE  LET r == DestroyFrame(s, f, cf) IN
         /\ Whole(r) /\ r.frameOf = s.frameOf /\ r.cur = s.cur
         /\ r.curws = NextWorkspace(s, s.wsOf[f])
         /\ r.wsOf = [s.wsOf EXCEPT ![f] = NULL] /\ r.protect = s.protect
         /\ (s.fthing # NULL => r.fthing # NULL)
<1> DEFINE ws == s.wsOf[f]
           d  == DoDestroyFrame(s, f)
           q  == Unlink(s.workspaces, ws)
           r  == DestroyFrame(s, f, cf)
<1>1. /\ s \in State /\ ws \in Ws /\ ws # NULL /\ s.workspaces \in Seq(Ws)
      /\ s.wsOf \in [Frame -> Ws \cup {NULL}] /\ s.curws # NULL
      /\ Screen # NULL /\ cf # NULL
  BY ClassesAreDisjoint, NoFrameIsInput DEF Whole, State, Grounds
<1>2. /\ q \in Seq(Ws) /\ IsInjective(q) /\ ToSet(q) = ToSet(s.workspaces) \ {ws} /\ q # <<>>
  <2>1. /\ q \in Seq(Ws) /\ IsInjective(q) /\ ToSet(q) = ToSet(s.workspaces) \ {ws}
        /\ Len(q) >= Len(s.workspaces) - 1
    BY <1>1, UnlinkFacts DEF Whole, Grounds
  <2>2. q # <<>>
    BY <1>1, <2>1
  <2> QED
    BY <2>1, <2>2
<1>3. Head(q) \in ToSet(q) /\ Head(q) \in Ws
  <2>1. 1 \in 1 .. Len(q) /\ Head(q) = q[1]
    BY <1>2
  <2> QED
    BY <1>2, <2>1, ElementFacts
<1>4. /\ d \in State /\ SameClients(s, d)
      /\ d.workspaces = s.workspaces /\ d.curws = s.curws /\ d.protect = s.protect
      /\ d.wsOf = [s.wsOf EXCEPT ![f] = NULL] /\ d.mapped = s.mapped \ {f}
      /\ d.input = [s.input EXCEPT ![f] = NULL]
      /\ d.wswin = (IF s.wswin = f THEN NULL ELSE s.wswin)
      /\ d.fnext \in {s.fnext, NULL} \ {f, Input(f)}
      /\ d.prev \in {s.prev, ws} \ {f, Input(f)}
      /\ d.fframe \in {s.fframe, NULL} \ {f, Input(f)}
      /\ d.fthing = (IF s.fthing = f THEN ws ELSE IF s.fthing = Input(f) THEN f ELSE s.fthing)
  BY DoDestroyFrameFields
<1>5. r = DoDestroyWorkspace(d, ws, cf)
  <2>1. FramesOf(d, ws) = {}
    BY <1>1, <1>4 DEF FramesOf
  <2> QED
    BY <2>1 DEF DestroyFrame
<1> HIDE DEF d, r
<1>6. /\ r \in State /\ SameClients(d, r) /\ r.workspaces = q
      /\ r.wsOf = d.wsOf /\ r.input = d.input /\ r.protect = d.protect
      /\ r.curws = NextWorkspace(s, ws)
      /\ r.fframe = (IF d.fframe = ws THEN NULL ELSE d.fframe)
      /\ s.curws # ws =>
           /\ r.mapped = d.mapped /\ r.wswin = d.wswin
           /\ r.fthing = (IF d.fthing = ws THEN Screen ELSE d.fthing)
           /\ r.fnext = (IF d.fnext = ws THEN NULL ELSE d.fnext)
           /\ r.prev = (IF d.prev = ws THEN Screen ELSE d.prev)
      /\ s.curws = ws =>
           /\ r.mapped = d.mapped \cup FramesOf(d, Head(q)) /\ r.wswin = cf
           /\ r.fthing = cf /\ r.fnext = cf
           /\ d.wswin = NULL => r.prev = (IF d.prev = ws THEN Screen ELSE d.prev)
  <2>1. IsInjective(d.workspaces) /\ Unlink(d.workspaces, ws) = q
    BY <1>4 DEF Whole, Grounds
  <2>2. NextWorkspace(d, ws) = NextWorkspace(s, ws)
    BY <1>4 DEF NextWorkspace
  <2> HIDE DEF q, ws
  <2> QED
    BY SMTT(30), <1>1, <1>2, <1>4, <1>5, <2>1, <2>2, DoDestroyWorkspaceFields
<1>7. SameClients(s, r) /\ r.wsOf = [s.wsOf EXCEPT ![f] = NULL] /\ r.protect = s.protect
      /\ r.input = [s.input EXCEPT ![f] = NULL]
  BY <1>4, <1>6 DEF SameClients, SameLinks
<1>8. /\ Clients(r) /\ ShownBut(r, {}) /\ Listed(r, {})
      /\ \A g \in Frame : r.wsOf[g] = IF g = f THEN NULL ELSE s.wsOf[g]
      /\ \A g \in Frame : r.wsOf[g] = NULL => r.input[g] = NULL
      /\ \A a : a # NULL => FramesOf(r, a) = FramesOf(s, a) \ {f}
      /\ \A t : Names(s, t) /\ t \notin {f, Input(f)}
               /\ (t \in ToSet(s.workspaces) => t \in ToSet(r.workspaces)) => Names(r, t)
  BY <1>6, <1>7, FrameGone
<1> HIDE DEF q
<1>9. \A t : Names(s, t) /\ t \notin {f, Input(f), ws} => Names(r, t)
  BY <1>2, <1>6, <1>8
<1>10. Names(r, Screen) /\ Names(r, NULL) /\ cf # f /\ r.wsOf[cf] = Head(q) /\ Names(r, cf)
  <2>1. s.wsOf[cf] = Head(q) /\ Head(q) # ws
    BY <1>2, <1>3 DEF FramesOf, q
  <2>2. cf # f
    BY <2>1
  <2>3. r.wsOf[cf] = Head(q) /\ Head(q) # NULL
    BY <1>3, <1>8, <2>1, <2>2, ClassesAreDisjoint
  <2> QED
    BY <2>2, <2>3 DEF Names, Alive, IsLiveFrame
<1>11. Names(r, r.prev) /\ Names(r, r.fframe)
  <2>1. s.curws = ws => d.wswin = NULL
    <3>1. s.wswin \in Frame \cup {NULL}
      BY <1>1 DEF State
    <3>2. s.wswin # NULL => s.wsOf[s.wswin] = s.curws
      BY DEF Whole, Pointers
    <3>3. s.curws = ws /\ s.wswin # NULL => s.wswin \in FramesOf(s, ws)
      BY <3>1, <3>2 DEF FramesOf
    <3> QED
      BY <1>4, <3>3
  <2>2. r.prev = IF d.prev = ws THEN Screen ELSE d.prev
    BY <1>6, <2>1
  <2>3. Names(s, s.prev) /\ Names(s, s.fframe)
    BY DEF Whole, Pointers
  <2>4. Names(r, r.prev)
    BY <1>4, <1>9, <1>10, <2>2, <2>3
  <2> QED
    BY <1>4, <1>6, <1>9, <1>10, <2>3, <2>4
<1> DEFINE Rest == /\ Pointers(r) /\ r.mapped = FramesOf(r, r.curws) /\ r.curws \in ToSet(q)
                   /\ (s.fthing # NULL => r.fthing # NULL)
<1>12. ASSUME s.curws = ws PROVE Rest
  <2>1. /\ r.wswin = cf /\ r.fthing = cf /\ r.fnext = cf /\ r.curws = Head(q)
        /\ r.mapped = d.mapped \cup FramesOf(d, Head(q))
    BY <1>6, <1>12 DEF NextWorkspace, q
  <2>2. r.mapped = FramesOf(r, r.curws)
    <3>1. d.mapped = {}
      BY <1>4, <1>12 DEF Whole, Grounds
    <3>2. FramesOf(d, Head(q)) = FramesOf(r, Head(q))
      BY <1>6 DEF FramesOf
    <3> QED
      BY <2>1, <3>1, <3>2
  <2>3. r.curws \in ToSet(q)
    BY <1>3, <2>1
  <2>4. Pointers(r)
    BY <1>10, <1>11, <2>1, NoFrameIsInput DEF Pointers
  <2> QED
    BY <1>1, <2>1, <2>2, <2>3, <2>4
<1>13. ASSUME s.curws # ws PROVE Rest
  <2>1. /\ r.mapped = d.mapped /\ r.wswin = d.wswin /\ r.curws = s.curws
        /\ r.fthing = (IF d.fthing = ws THEN Screen ELSE d.fthing)
        /\ r.fnext = (IF d.fnext = ws THEN NULL ELSE d.fnext)
    BY <1>6, <1>13 DEF NextWorkspace
  <2>2. f \notin FramesOf(s, s.curws)
    BY <1>13 DEF FramesOf
  <2>3. r.mapped = FramesOf(r, r.curws)
    BY <1>1, <1>4, <1>8, <2>1, <2>2 DEF Whole, Grounds
  <2>4. r.curws \in ToSet(q)
    BY <1>2, <1>13, <2>1 DEF Whole, Grounds
  <2>5. s.fthing # Input(f)
    BY <1>13 DEF Whole, Pointers
  <2>6. Names(s, s.fnext) /\ Names(s, s.fthing)
    BY DEF Whole, Pointers
  <2>7. Names(r, r.fnext)
    BY <1>4, <1>9, <1>10, <2>1, <2>6
  <2>8. r.fthing \in {Screen, s.fthing} \ {f, ws} /\ Names(r, r.fthing)
    <3>1. f # ws /\ Screen # f /\ Screen # ws
      BY <1>1, ClassesAreDisjoint
    <3>2. r.fthing = IF s.fthing \in {f, ws} THEN Screen ELSE s.fthing
      BY <1>4, <2>1, <2>5, <3>1
    <3> QED
      BY <1>9, <1>10, <2>5, <2>6, <3>1, <3>2
  <2>9. r.wswin # NULL => r.wsOf[r.wswin] = r.curws
    <3>1. s.wswin \in Frame \cup {NULL}
      BY <1>1 DEF State
    <3> QED
      BY <1>4, <1>8, <2>1, <3>1 DEF Whole, Pointers
  <2>10. \A g \in Frame : r.fthing = Input(g) => r.wsOf[g] = r.curws
    <3> SUFFICES ASSUME NEW g \in Frame, r.fthing = Input(g) PROVE r.wsOf[g] = r.curws
      OBVIOUS
    <3>1. Screen # Input(g)
      BY InputsAreApart DEF Inputs
    <3>2. s.fthing = Input(g) /\ g # f
      BY <2>5, <2>8, <3>1
    <3> QED
      BY <1>8, <2>1, <3>2 DEF Whole, Pointers
  <2>11. Pointers(r)
    BY <1>11, <2>7, <2>8, <2>9, <2>10 DEF Pointers
  <2>12. s.fthing # NULL => r.fthing # NULL
    BY <1>1, <2>8
  <2> QED
    BY <2>3, <2>4, <2>11, <2>12
<1>14. Rest
  BY <1>12, <1>13
<1>15. ToSet(q) = {r.wsOf[g] : g \in Frame} \ {NULL}
  <2>1. \A g \in Frame : s.wsOf[g] = ws => g = f
    BY DEF FramesOf
  <2>2. \A a : (\E g \in Frame : a = r.wsOf[g]) /\ a # NULL
               <=> (\E g \in Frame : a = s.wsOf[g]) /\ a # NULL /\ a # ws
    BY <1>8, <2>1
  <2>3. ToSet(s.workspaces) = {s.wsOf[g] : g \in Frame} \ {NULL}
    BY DEF Whole, Grounds
  <2> HIDE DEF ws
  <2>4. \A a : a \in ToSet(s.workspaces) <=> (\E g \in Frame : a = s.wsOf[g]) /\ a # NULL
    BY <2>3
  <2>5. \A a : a \in ToSet(q) <=> (\E g \in Frame : a = r.wsOf[g]) /\ a # NULL
    BY <1>2, <2>2, <2>4
  <2> QED
    BY <2>5
<1>16. Grounds(r)
  BY <1>2, <1>6, <1>8, <1>14, <1>15 DEF Grounds
<1>17. Whole(r)
  BY <1>6, <1>8, <1>14, <1>16 DEF Whole
<1> QED
  BY <1>6, <1>7, <1>14, <1>17 DEF SameClients, SameLinks, r


-----------------------------------------------------------------------------
(* What single handlers do. *)

\* The pointers, but for previous, are set.
SetPointers(s, a, t, x, y) ==
  [s EXCEPT !.wswin = a, !.fnext = t, !.fthing = x, !.fframe = y]

LEMMA SetPointersWhole ==
  ASSUME NEW s, Whole(s), NEW a \in Frame \cup {NULL}, a # NULL => s.wsOf[a] = s.curws,
         NEW t \in Things \cup {NULL}, NEW x \in Things \cup {NULL}, NEW y \in Frame \cup {NULL},
         Names(s, t), Names(s, x), Names(s, y),
         \A f \in Frame : x = Input(f) => s.wsOf[f] = s.curws
  PROVE  LET r == SetPointers(s, a, t, x, y) IN
         /\ Whole(r) /\ SameView(s, r) /\ r.protect = s.protect
         /\ r.wswin = a /\ r.fnext = t /\ r.fthing = x /\ r.fframe = y
<1> DEFINE r == [s EXCEPT !.wswin = a, !.fnext = t, !.fthing = x, !.fframe = y]
<1>1. s \in State
  BY DEF Whole
<1>2. r \in State
  BY <1>1 DEF State
<1>3. /\ SameView(s, r) /\ r.protect = s.protect /\ r.prev = s.prev
      /\ r.wswin = a /\ r.fnext = t /\ r.fthing = x /\ r.fframe = y
  BY <1>1 DEF State, SameView, SameThings, SameLinks
<1> HIDE DEF r
<1>4. r.wsOf = s.wsOf /\ r.curws = s.curws /\ \A z : Names(r, z) <=> Names(s, z)
  BY <1>3, SameAlive DEF SameView, SameThings, Names
<1>5. Pointers(r)
  BY <1>3, <1>4 DEF Whole, Pointers
<1>6. Whole(r)
  BY <1>2, <1>3, <1>5, PointersOnly
<1> QED
  BY <1>3, <1>6 DEF r, SetPointers

\* Clients are tagged.
SetTagged(s, T) == [s EXCEPT !.tagged = T]

LEMMA SetTaggedWhole ==
  ASSUME NEW s, Whole(s), NEW T \in SUBSET ToSet(s.list)
  PROVE  LET r == SetTagged(s, T) IN
         /\ Whole(r) /\ SamePlaces(s, r) /\ SamePointers(s, r) /\ r.input = s.input
         /\ r.list = s.list
<1> DEFINE r == [s EXCEPT !.tagged = T]
<1>1. s \in State /\ T \in SUBSET Client
  BY ListIsClients DEF Whole
<1>2. r \in State
  BY <1>1 DEF State
<1>3. /\ r.tagged = T /\ r.clientOf = s.clientOf /\ r.wins = s.wins /\ r.list = s.list
      /\ r.state = s.state /\ SameLinks(s, r) /\ r.cur = s.cur /\ SameGrounds(s, r)
      /\ SamePointers(s, r) /\ r.input = s.input
  BY <1>1 DEF State, SameLinks, SameGrounds, SamePointers
<1> HIDE DEF r
<1>4. Clients(r) /\ ShownBut(r, {})
  <2>1. FrameLinks(r) /\ OwnCurrents(r) /\ SomeCurrents(r) /\ Members(r) /\ WinLinks(r)
    BY <1>3 DEF Whole, Clients, FrameLinks, OwnCurrents, SomeCurrents, Members, WinLinks,
                SameLinks, SameGrounds
  <2>2. ShownBut(r, {})
    BY <1>3 DEF Whole, ShownBut, IsCurrent
  <2> QED
    BY <2>1, <2>2 DEF Clients
<1>5. Listed(r, {})
  BY <1>3 DEF Whole, Listed, SameLinks
<1>6. Grounds(r)
  <2>1. FramesOf(r, r.curws) = FramesOf(s, s.curws)
    BY <1>3 DEF SameGrounds, FramesOf
  <2> QED
    BY <1>3, <2>1 DEF Whole, Grounds, SameGrounds
<1>7. Pointers(r)
  <2>1. \A t : Names(s, t) => Names(r, t)
    BY <1>3 DEF Names, Alive, IsLiveFrame, IsLiveClient, IsManaged, SameGrounds
  <2> QED
    BY <1>3, <2>1 DEF Whole, Pointers, SameGrounds, SamePointers
<1> QED
  BY <1>2, <1>3, <1>4, <1>5, <1>6, <1>7 DEF Whole, SamePlaces, SameLinks, SameGrounds, r, SetTagged

SetFrame(s, g, ws, M) == [s EXCEPT !.wsOf[g] = ws, !.mapped = M]

LEMMA SetFrameFields ==
  ASSUME NEW s \in State, NEW g \in Frame, NEW ws \in Ws, NEW M \in SUBSET Frame
  PROVE  LET r == SetFrame(s, g, ws, M) IN
         /\ r \in State /\ SameClients(s, r) /\ SamePointers(s, r)
         /\ r.wsOf = [s.wsOf EXCEPT ![g] = ws] /\ r.workspaces = s.workspaces
         /\ r.mapped = M /\ r.curws = s.curws /\ r.input = s.input
<1> DEFINE r == [s EXCEPT !.wsOf[g] = ws, !.mapped = M]
<1>1. r \in State
  BY DEF State
<1>2. /\ SameClients(s, r) /\ SamePointers(s, r)
      /\ r.wsOf = [s.wsOf EXCEPT ![g] = ws] /\ r.workspaces = s.workspaces
      /\ r.mapped = M /\ r.curws = s.curws /\ r.input = s.input
  BY DEF State, SameClients, SameLinks, SamePointers
<1> QED
  BY <1>1, <1>2 DEF SetFrame

\* A new frame on the workspace of another one.
AddFrame(s, f, g) ==
  [s EXCEPT !.wsOf[g] = s.wsOf[f],
            !.mapped  = IF s.wsOf[f] = s.curws THEN @ \cup {g} ELSE @]

LEMMA AddFrameWhole ==
  ASSUME NEW s, Whole(s), NEW f \in Frame, NEW g \in Frame, s.wsOf[f] # NULL, s.wsOf[g] = NULL
  PROVE  LET r == AddFrame(s, f, g) IN
         /\ Whole(r) /\ SameClients(s, r) /\ SamePointers(s, r) /\ r.input = s.input
         /\ r.wsOf = [s.wsOf EXCEPT ![g] = s.wsOf[f]] /\ r.curws = s.curws
<1> DEFINE M == IF s.wsOf[f] = s.curws THEN s.mapped \cup {g} ELSE s.mapped
           ws == s.wsOf[f]
           r == SetFrame(s, g, ws, M)
<1>1. /\ s \in State /\ s.wsOf \in [Frame -> Ws \cup {NULL}] /\ ws \in Ws
      /\ M \in SUBSET Frame
  BY DEF Whole, State
<1>2. r = AddFrame(s, f, g)
  BY <1>1 DEF AddFrame, SetFrame, State
<1> HIDE DEF M, ws
<1>3. /\ r \in State /\ SameClients(s, r) /\ SamePointers(s, r)
      /\ r.wsOf = [s.wsOf EXCEPT ![g] = ws] /\ r.workspaces = s.workspaces
      /\ r.mapped = M /\ r.curws = s.curws /\ r.input = s.input
  BY <1>1, SetFrameFields
<1> HIDE DEF r
<1>4. \A h \in Frame : r.wsOf[h] = IF h = g THEN ws ELSE s.wsOf[h]
  BY <1>1, <1>3
<1>5. Clients(r) /\ ShownBut(r, {}) /\ Listed(r, {})
  <2>1. \A h \in Frame : s.clients[h] # <<>> => r.wsOf[h] # NULL
    BY <1>1, <1>4, UsedFramesLive DEF Whole
  <2> QED
    BY <1>1, <1>3, <2>1, ClientsKept DEF Whole
<1>6. Grounds(r)
  <2>1. {r.wsOf[h] : h \in Frame} \ {NULL} = {s.wsOf[h] : h \in Frame} \ {NULL}
    <3>1. \A a : (\E h \in Frame : a = r.wsOf[h]) /\ a # NULL
                   <=> (\E h \in Frame : a = s.wsOf[h]) /\ a # NULL
      BY <1>4 DEF ws
    <3> QED
      BY <3>1
  <2>2. r.mapped = FramesOf(r, r.curws)
    BY <1>3, <1>4 DEF Whole, Grounds, FramesOf, M, ws
  <2>3. \A h \in Frame : r.wsOf[h] = NULL => r.input[h] = NULL
    BY <1>1, <1>3, <1>4 DEF Whole, Grounds
  <2> QED
    BY <1>3, <2>1, <2>2, <2>3 DEF Whole, Grounds
<1>7. Pointers(r)
  <2>1. \A t : Names(s, t) => Names(r, t)
    BY <1>1, <1>3, <1>4
       DEF Names, Alive, IsLiveFrame, IsLiveClient, IsManaged, SameClients, ws
  <2>2. s.wswin \in Frame \cup {NULL} /\ s.curws # NULL
    BY <1>1 DEF State, Whole, Grounds
  <2> QED
    BY <1>3, <1>4, <2>1, <2>2 DEF Whole, Pointers, SamePointers
<1> QED
  BY <1>2, <1>3, <1>5, <1>6, <1>7 DEF Whole, ws


\* The client that manage_clientwin makes for window w, attached to frame f.
NewClient(s, w, c, f, switchto) ==
  AttachClient(ClientAddClientwin([s EXCEPT !.list = Append(@, c)], c, w), f, c, switchto)

LEMMA NewClientWhole ==
  ASSUME NEW s, Whole(s), NEW c \in Client \ ToSet(s.list), NEW w \in Win, s.clientOf[w] = NULL,
         NEW f \in Frame, s.wsOf[f] # NULL, NEW switchto \in BOOLEAN
  PROVE  LET r == NewClient(s, w, c, f, switchto) IN
         /\ Whole(r) /\ Puts(s, r, c, f) /\ r.wsOf = s.wsOf /\ r.curws = s.curws
         /\ r.input = s.input /\ r.protect = s.protect /\ r.wswin = s.wswin
         /\ r.clientOf[w] = c /\ \A v \in Win \ {w} : r.clientOf[v] = s.clientOf[v]
         /\ Focuses(s, r) /\ (s.fthing # NULL => r.fthing # NULL)
<1> DEFINE n == ClientAddClientwin([s EXCEPT !.list = Append(@, c)], c, w)
           r == AttachClient(n, f, c, switchto)
<1>1. /\ n \in State /\ Clients(n) /\ ShownBut(n, {c}) /\ Listed(n, {c}) /\ Grounds(n)
      /\ Pointers(n) /\ SamePointers(s, n) /\ SamePlaces(s, n) /\ n.input = s.input
      /\ n.clientOf[w] = c /\ \A v \in Win \ {w} : n.clientOf[v] = s.clientOf[v]
      /\ c \in ToSet(n.list) /\ n.wins[c] # <<>> /\ n.frameOf[c] = NULL
  BY ZenonT(30), AddNewSound
<1>2. r = NewClient(s, w, c, f, switchto)
  BY DEF NewClient
<1> HIDE DEF n
<1>3. f # NULL /\ n.wsOf[f] # NULL /\ n.frameOf[c] # f
  BY <1>1, NoFrameIsInput DEF SamePlaces
<1>4. Whole(r) /\ Moves(n, r) /\ Puts(n, r, c, f)
  BY <1>1, <1>3, AttachWhole
<1> HIDE DEF r
<1>5. Puts(s, r, c, f)
  <2>1. \A g \in Frame : Others(n, g, c) = Others(s, g, c)
    BY <1>1 DEF SamePlaces, Others
  <2> QED
    BY <1>1, <1>4, <2>1 DEF Puts, SamePlaces
<1>6. Focuses(s, r)
  BY <1>1, <1>4 DEF Moves, Focuses, SamePointers, SamePlaces
<1>7. s.fthing # NULL => r.fthing # NULL
  BY <1>1, <1>4, ListedThings DEF Moves, SamePointers
<1> QED
  BY <1>1, <1>2, <1>4, <1>5, <1>6, <1>7 DEF Moves, SameThings, SamePointers, SamePlaces

\* The window was found to be gone: the client goes again, and the frame it was put into
\* shows what it showed, or another of its clients.
LEMMA NewClientGone ==
  ASSUME NEW s, Whole(s), NEW c \in Client \ ToSet(s.list), NEW w \in Win, s.clientOf[w] = NULL,
         NEW f \in Frame, s.wsOf[f] # NULL, NEW switchto \in BOOLEAN
  PROVE  LET r == DestroyClientwin(NewClient(s, w, c, f, switchto), c, w) IN
         /\ Whole(r) /\ r.wsOf = s.wsOf /\ r.curws = s.curws /\ r.frameOf = s.frameOf
         /\ r.input = s.input /\ r.protect = s.protect /\ r.wswin = s.wswin
         /\ \A g \in Frame \ {f} : r.cur[g] = s.cur[g]
         /\ \/ r.cur[f] = s.cur[f]
            \/ /\ r.cur[f] \in Client /\ s.frameOf[r.cur[f]] = f
               /\ s.wswin = f /\ s.input[f] = NULL => r.fnext # NULL
<1> DEFINE a == NewClient(s, w, c, f, switchto)
           r == DestroyClientwin(a, c, w)
<1>1. /\ Whole(a) /\ Puts(s, a, c, f) /\ a.wsOf = s.wsOf /\ a.curws = s.curws
      /\ a.input = s.input /\ a.protect = s.protect /\ a.wswin = s.wswin
      /\ a.clientOf[w] = c /\ \A v \in Win \ {w} : a.clientOf[v] = s.clientOf[v]
  BY NewClientWhole
<1> HIDE DEF a
<1>2. /\ s \in State /\ NULL \notin Client
      /\ s.frameOf \in [Client -> Frame \cup {NULL}] /\ s.cur \in [Frame -> Client \cup {NULL}]
  BY ClassesAreDisjoint DEF Whole, State
<1>3. \A v \in Win : s.clientOf[v] # c
  <2>1. s.wins[c] = <<>>
    BY DEF Whole, Listed
  <2>2. \A v : v \notin ToSet(s.wins[c])
    BY <2>1 DEF ToSet
  <2> QED
    BY <2>2 DEF Whole, Clients, WinLinks
<1>4. s.frameOf[c] = NULL /\ \A g \in Frame : s.cur[g] # c
  BY <1>2, CurrentIsListed DEF Whole, Clients, Members
<1>5. /\ Whole(r) /\ r.wsOf = a.wsOf /\ r.curws = a.curws
      /\ r.input = a.input /\ r.protect = a.protect /\ r.wswin = a.wswin
      /\ Puts(a, r, c, NULL) /\ Focuses(a, r)
  <2>1. ~\E v \in Win \ {w} : a.clientOf[v] = c
    BY <1>1, <1>3
  <2> QED
    BY <1>1, <2>1, DestroyClientwinWhole
<1> HIDE DEF r
<1>6. r.frameOf = s.frameOf
  <2>1. a.frameOf = [s.frameOf EXCEPT ![c] = f] /\ r.frameOf = [a.frameOf EXCEPT ![c] = NULL]
    BY <1>1, <1>5 DEF Puts
  <2> QED
    BY <1>2, <1>4, <2>1
<1>7. /\ \A g \in Frame \ {f} : a.cur[g] = s.cur[g]
      /\ a.cur[f] \in {c, s.cur[f]} \ {NULL}
  BY <1>1, <1>4 DEF Puts
<1>8. \A g \in Frame : a.cur[g] # c => r.cur[g] = a.cur[g]
  BY <1>5, NoFrameIsInput DEF Puts
<1>9. \A g \in Frame \ {f} : r.cur[g] = s.cur[g]
  BY <1>4, <1>7, <1>8
<1>10. CASE a.cur[f] # c
  <2>1. r.cur[f] = s.cur[f]
    BY <1>7, <1>8, <1>10
  <2> QED
    BY <1>1, <1>5, <1>6, <1>9, <2>1 DEF r, a
<1>11. CASE a.cur[f] = c
  <2>1. r.cur[f] \in IF Others(a, f, c) # {} THEN Others(a, f, c) ELSE {NULL}
    BY <1>5, <1>11, NoFrameIsInput DEF Puts
  <2>2. Others(a, f, c) = {d \in Client : s.frameOf[d] = f}
    BY <1>1, <1>2, <1>4, NoFrameIsInput DEF Others, Puts
  <2>3. CASE r.cur[f] = NULL
    <3>1. \A d \in Client : s.frameOf[d] # f
      BY <1>2, <2>1, <2>2, <2>3
    <3>2. s.cur[f] \in Client \cup {NULL}
      BY <1>2
    <3>3. s.cur[f] = NULL
      BY <3>1, <3>2 DEF Whole, Clients, OwnCurrents
    <3> QED
      BY <1>1, <1>5, <1>6, <1>9, <2>3, <3>3 DEF r, a
  <2>4. CASE r.cur[f] # NULL
    <3>1. r.cur[f] \in Client /\ s.frameOf[r.cur[f]] = f
      BY <2>1, <2>2, <2>4
    <3>2. r.cur[f] # c
      BY <1>4, <3>1, NoFrameIsInput
    <3>3. s.wswin = f /\ s.input[f] = NULL => r.fnext # NULL
      BY <1>1, <1>5, <1>11, <2>4, <3>2 DEF Focuses
    <3> QED
      BY <1>1, <1>5, <1>6, <1>9, <3>1, <3>3 DEF r, a
  <2> QED
    BY <2>3, <2>4
<1> QED
  BY <1>10, <1>11

-----------------------------------------------------------------------------
(* 3. The handlers. *)

LEMMA FrameOfType ==
  ASSUME NEW s \in State, NEW t
  PROVE  FrameOf(s, t) \in Frame \cup {NULL}
<1>1. t \in Inputs => (CHOOSE f \in Frame : t = Input(f)) \in Frame
  BY DEF Inputs
<1>2. t \in Client => s.frameOf[t] \in Frame \cup {NULL}
  BY DEF State
<1>3. t \in Win /\ s.clientOf[t] # NULL => s.frameOf[s.clientOf[t]] \in Frame \cup {NULL}
  BY DEF State
<1> QED
  BY <1>1, <1>2, <1>3 DEF FrameOf

THEOREM InitTypeOK == Init => TypeOK
<1> SUFFICES ASSUME Init PROVE TypeOK
  OBVIOUS
<1>1. wm \in State
  <2>1. PICK ws \in Ws, f \in Frame :
       wm = [clientOf   |-> [w \in Win |-> NULL],
             frameOf    |-> [c \in Client |-> NULL],
             wsOf       |-> [g \in Frame |-> IF g = f THEN ws ELSE NULL],
             wins       |-> [c \in Client |-> <<>>],
             clients    |-> [g \in Frame |-> <<>>],
             workspaces |-> <<ws>>,
             list       |-> <<>>,
             tagged     |-> {},
             cur        |-> [g \in Frame |-> NULL],
             count      |-> [g \in Frame |-> 0],
             input      |-> [g \in Frame |-> NULL],
             state      |-> [w \in Win |-> "Withdrawn"],
             mapped     |-> {f},
             curws      |-> ws,
             wswin      |-> f,
             prev       |-> NULL,
             protect    |-> 0,
             fnext      |-> NULL,
             fthing     |-> NULL,
             fframe     |-> NULL]
    BY DEF Init
  <2> QED
    BY <2>1 DEF State
<1> QED
  BY <1>1 DEF Init, TypeOK

-----------------------------------------------------------------------------
(* TypeOK, one lemma per group of actions. *)

LEMMA FramesAreThings == Frame \subseteq Things /\ Client \subseteq Things
BY DEF Things

LEMMA XEventTypeOK == TypeOK /\ XEvent => TypeOK'
<1> SUFFICES ASSUME TypeOK, XEvent PROVE TypeOK'
  OBVIOUS
<1>0. wm \in State
  BY DEF TypeOK
<1> SUFFICES wm' \in State /\ UNCHANGED <<inSeq, job>>
  BY DEF TypeOK
<1>1. CASE MainLoopFocus
  <2>1. \A x, y \in Things \cup {NULL} : [wm EXCEPT !.fnext = x, !.fthing = y] \in State
    BY <1>0 DEF State
  <2>2. wm.fnext \in Things \cup {NULL} /\ wm.fthing \in Things \cup {NULL}
    BY <1>0 DEF State
  <2> QED
    BY <1>1, <2>1, <2>2 DEF MainLoopFocus, Same
<1>2. ASSUME NEW w \in Win, NEW c \in Client, NEW added \in State, NEW gone \in BOOLEAN,
             Manage(w, c, added, gone)
      PROVE  wm' \in State /\ UNCHANGED <<inSeq, job>>
  BY <1>2, DestroyClientwinType DEF Manage, Same
<1>3. ASSUME NEW w \in Win, NEW c \in Client, NEW gone \in BOOLEAN,
             MapRequestTransient(w, c, gone)
      PROVE  wm' \in State /\ UNCHANGED <<inSeq, job>>
  BY <1>0, <1>2, <1>3, ClientAddClientwinType DEF MapRequestTransient
<1>4. ASSUME NEW w \in Win, NEW c \in Client, NEW f \in Frame,
             NEW switchto \in BOOLEAN, NEW gone \in BOOLEAN,
             MapRequest(w, c, f, switchto, gone)
      PROVE  wm' \in State /\ UNCHANGED <<inSeq, job>>
  <2>1. \A q \in Seq(Client) : [wm EXCEPT !.list = q] \in State
    BY <1>0 DEF State
  <2>2. Append(wm.list, c) \in Seq(Client)
    BY <1>0 DEF State
  <2>3. ClientAddClientwin([wm EXCEPT !.list = Append(@, c)], c, w) \in State
    BY <2>1, <2>2, ClientAddClientwinType
  <2> QED
    BY <1>2, <1>4, <2>3, AttachClientType DEF MapRequest
<1>5. ASSUME NEW w \in Win, UnmapOrDestroyNotify(w)
      PROVE  wm' \in State /\ UNCHANGED <<inSeq, job>>
  <2>1. wm.clientOf[w] \in Client
    BY <1>0, <1>5 DEF UnmapOrDestroyNotify, IsManaged, State
  <2> QED
    BY <1>0, <1>5, <2>1, DestroyClientwinType DEF UnmapOrDestroyNotify, Same
<1>6. ASSUME NEW w \in Win, Iconify(w)
      PROVE  wm' \in State /\ UNCHANGED <<inSeq, job>>
  BY <1>0, <1>6, FrameOfType, FrameSwitchNextType DEF Iconify, Same
<1>7. ASSUME NEW f \in Frame, FocusIn(f)
      PROVE  wm' \in State /\ UNCHANGED <<inSeq, job>>
  <2>1. [wm EXCEPT !.wswin = f] \in State
    BY <1>0 DEF State
  <2> QED
    BY <1>7, <2>1 DEF FocusIn, Same
<1>8. ASSUME NEW f \in Frame, RestoreFocus(f) \/ EnterNotify(f)
      PROVE  wm' \in State /\ UNCHANGED <<inSeq, job>>
  BY <1>0, <1>8, FramesAreThings, SetPreviousType, SetFocusType
     DEF RestoreFocus, EnterNotify, Same
<1> QED
  BY <1>1, <1>3, <1>4, <1>5, <1>6, <1>7, <1>8 DEF XEvent

LEMMA CommandTypeOK == TypeOK /\ Command => TypeOK'
<1> SUFFICES ASSUME TypeOK, Command PROVE TypeOK'
  OBVIOUS
<1>0. wm \in State /\ Frame \subseteq Things
  BY FramesAreThings DEF TypeOK
<1> DEFINE OnlyWm == wm' \in State /\ UNCHANGED <<inSeq, job>>
<1> OnlyWm => TypeOK'
  BY DEF TypeOK
<1>1. ASSUME NEW f \in Frame, BeginSequence(f) PROVE TypeOK'
  <2>1. [wm EXCEPT !.fthing = f] \in State
    BY <1>0 DEF State
  <2> QED
    BY <1>1, <2>1 DEF BeginSequence, TypeOK
<1>2. ASSUME NEW f \in Frame, SwitchNext(f) \/ SwitchPrev(f) \/ Query(f) PROVE OnlyWm
  BY <1>0, <1>2, FrameSwitchNextType, FrameSetInputType DEF SwitchNext, SwitchPrev, Query, Same
<1>3. ASSUME NEW error \in BOOLEAN, EndSequence(error) PROVE TypeOK'
  <2> DEFINE e == [wm EXCEPT !.fthing = NULL]
             c == IF error /\ wm.fframe # NULL THEN Fwarn(e, wm.fframe) ELSE e
  <2>1. e \in State /\ wm.fframe \in Frame \cup {NULL}
    BY <1>0 DEF State
  <2>2. c \in State
    BY <2>1, FrameSetInputType DEF Fwarn
  <2> HIDE DEF c
  <2>3. [c EXCEPT !.fframe = NULL] \in State
    BY <2>2 DEF State
  <2> QED
    BY <1>3, <2>3 DEF EndSequence, TypeOK, c
<1>4. ASSUME NEW f \in Frame, NEW c \in Client, SwitchTo(f, c) \/ DropTab(f, c) PROVE OnlyWm
  BY <1>0, <1>4, FrameSwitchClientType, AttachClientType, SetFocusType
     DEF SwitchTo, DropTab, Same
<1>5. \A T \in SUBSET Client : [wm EXCEPT !.tagged = T] \in State
  BY <1>0 DEF State
<1>6. wm.tagged \in SUBSET Client
  BY <1>0 DEF State
<1>7. ASSUME NEW c \in Client, ToggleTagged(c) PROVE OnlyWm
  <2>1. (IF c \in wm.tagged THEN wm.tagged \ {c} ELSE wm.tagged \cup {c}) \in SUBSET Client
    BY <1>6
  <2> QED
    BY <1>5, <1>7, <2>1 DEF ToggleTagged, Same
<1>8. CASE ClearTags
  BY <1>5, <1>8 DEF ClearTags, Same
<1>9. ASSUME NEW f \in Frame, AttachTagged(f) PROVE TypeOK'
  BY <1>9 DEF AttachTagged, TypeOK
<1>10. CASE AttachNextTagged
  <2>1. PICK i \in 1..Len(wm.list) :
          wm' = AttachClient([wm EXCEPT !.tagged = @ \ {wm.list[i]}], job.to, wm.list[i], FALSE)
    BY <1>10 DEF AttachNextTagged
  <2>2. wm.list[i] \in Client
    BY <1>0 DEF State
  <2>3. job.to \in Frame
    BY <1>10 DEF AttachNextTagged, TypeOK, NoJob
  <2>4. [wm EXCEPT !.tagged = @ \ {wm.list[i]}] \in State
    BY <1>5, <1>6
  <2> QED
    BY <1>10, <2>1, <2>2, <2>3, <2>4, AttachClientType DEF AttachNextTagged, Same
<1>11. CASE AttachTaggedDone
  BY <1>11 DEF AttachTaggedDone, TypeOK
<1>12. ASSUME NEW f \in Frame, NEW g \in Frame, Split(f, g) PROVE OnlyWm
  <2>1. \A ws \in Ws \cup {NULL}, M \in SUBSET Frame :
          [wm EXCEPT !.wsOf[g] = ws, !.mapped = M] \in State
    BY <1>0 DEF State
  <2>2. wm.wsOf[f] \in Ws \cup {NULL} /\ wm.mapped \in SUBSET Frame
    BY <1>0 DEF State
  <2>3. [wm EXCEPT !.wsOf[g] = wm.wsOf[f],
                   !.mapped  = IF wm.wsOf[f] = wm.curws THEN @ \cup {g} ELSE @] \in State
    BY <2>1, <2>2
  <2> QED
    BY <1>0, <1>12, <2>3, SetFocusType DEF Split, Same
<1>13. ASSUME NEW f \in Frame, NEW g \in Frame, DestroyLastFrame(f, g) PROVE OnlyWm
  BY <1>0, <1>13, DestroyFrameType DEF DestroyLastFrame, Same
<1>14. ASSUME NEW f \in Frame, NEW g \in Frame, BeginDestroyFrame(f, g) PROVE TypeOK'
  BY <1>14 DEF BeginDestroyFrame, TypeOK
<1>15. ASSUME NEW f \in Frame, DestroyFrameRefused(f) PROVE OnlyWm
  BY <1>0, <1>15, FrameSetInputType DEF DestroyFrameRefused, Fwarn, Same
<1>16. job.op = "destroy_frame" => job.from \in Frame /\ job.to \in Frame
  BY DEF TypeOK, NoJob
<1>17. CASE MoveNextClient
  <2>1. Head(wm.clients[job.from]) \in Client
    BY <1>0, <1>16, <1>17 DEF MoveNextClient, State
  <2> QED
    BY <1>0, <1>16, <1>17, <2>1, AttachClientType DEF MoveNextClient, Same
<1>18. CASE FinishDestroyFrame
  <2>1. SetFocus(DestroyFrame(wm, job.from, job.to), job.to) \in State
    BY <1>0, <1>16, <1>18, DestroyFrameType, SetFocusType DEF FinishDestroyFrame
  <2> QED
    BY <1>18, <2>1 DEF FinishDestroyFrame, TypeOK
<1>19. ASSUME NEW f \in Frame, NEW g \in Frame, GotoNeighbour(f, g) PROVE OnlyWm
  BY <1>0, <1>19, SetPreviousType, SetFocusType DEF GotoNeighbour, Same
<1>20. ASSUME NEW c \in Client, NEW cf \in Frame, GotoClientName(c, cf) PROVE OnlyWm
  BY <1>0, <1>20, GotoClientType DEF GotoClientName, Same
<1>21. ASSUME NEW cf \in Frame, GotoPrevious(cf) PROVE OnlyWm
  BY <1>0, <1>21, GotoClientType, GotoWindowType DEF GotoPrevious, Same
<1>22. ASSUME NEW cf \in Frame, GotoCurrentWs(cf) PROVE OnlyWm
  BY <1>0, <1>22, GotoWsType DEF GotoCurrentWs, Same
<1>23. ASSUME NEW ws \in Ws, NEW cf \in Frame, SwitchWs(ws, cf) PROVE OnlyWm
  BY <1>0, <1>23, SwitchWorkspaceType DEF SwitchWs, Same
<1> HIDE DEF OnlyWm
<1> QED
  BY <1>1, <1>2, <1>3, <1>4, <1>7, <1>8, <1>9, <1>10, <1>11, <1>12, <1>13, <1>14, <1>15,
     <1>17, <1>18, <1>19, <1>20, <1>21, <1>22, <1>23 DEF Command

LEMMA AnswerTypeOK == TypeOK /\ Answer => TypeOK'
<1> SUFFICES ASSUME TypeOK, Answer PROVE TypeOK'
  OBVIOUS
<1>0. wm \in State
  BY DEF TypeOK
<1> DEFINE OnlyWm == wm' \in State /\ UNCHANGED <<inSeq, job>>
<1> OnlyWm => TypeOK'
  BY DEF TypeOK
<1>1. \A f \in Frame : Answered(f) \in State
  BY <1>0, DestroyInputType DEF Answered
<1>2. ASSUME NEW f \in Frame, InputCancel(f) PROVE OnlyWm
  BY <1>0, <1>2, DestroyInputType DEF InputCancel, Same
<1>3. ASSUME NEW f \in Frame, FinishFunction(f) PROVE TypeOK'
  <2>1. \A s \in State : [s EXCEPT !.fthing = f, !.fframe = f] \in State
    BY ZenonT(30), FramesAreThings DEF State
  <2> QED
    BY <1>1, <1>3, <2>1 DEF FinishFunction, TypeOK
<1>4. ASSUME NEW f \in Frame, FinishComplaint(f) PROVE OnlyWm
  BY <1>1, <1>4, FrameSetInputType DEF FinishComplaint, Fwarn, Same
<1>5. ASSUME NEW f \in Frame, NEW c \in Client, FinishAttach(f, c) PROVE OnlyWm
  BY <1>1, <1>5, AttachClientType DEF FinishAttach, Same
<1>6. ASSUME NEW f \in Frame, NEW cf \in Frame, NEW c \in Client, FinishGoto(f, c, cf) PROVE OnlyWm
  BY <1>1, <1>6, GotoClientType DEF FinishGoto, Same
<1>7. ASSUME NEW f \in Frame, NEW cf \in Frame, NEW ws \in Ws, FinishWorkspace(f, ws, cf)
      PROVE  OnlyWm
  BY <1>1, <1>7, CreateWorkspaceType, SwitchWorkspaceType DEF FinishWorkspace, Same
<1>8. ASSUME NEW f \in Frame, NEW cf \in Frame, NEW ws \in Ws, NEW c \in Client,
             FinishWorkspaceWith(f, c, ws, cf)
      PROVE  OnlyWm
  BY <1>1, <1>8, CreateWorkspaceType, AttachClientType, GotoClientType
     DEF FinishWorkspaceWith, Same
<1> HIDE DEF OnlyWm
<1> QED
  BY <1>2, <1>3, <1>4, <1>5, <1>6, <1>7, <1>8 DEF Answer

\* The state keeps its shape whatever the program does: no handler, command or
\* query writes a field with something of another class.
THEOREM TypeCorrect == Spec => []TypeOK
<1>1. Init => TypeOK
  BY InitTypeOK
<1>2. TypeOK /\ [Next]_vars => TypeOK'
  <2>1. TypeOK /\ UNCHANGED vars => TypeOK'
    BY DEF TypeOK, vars
  <2> QED
    BY <2>1, XEventTypeOK, CommandTypeOK, AnswerTypeOK DEF Next
<1> QED
  BY <1>1, <1>2, PTL DEF Spec


-----------------------------------------------------------------------------
(* The inductive invariant: the tree is whole, no protection of the        *)
(* previous thing is left over, a sequence has a thing to go on with, and  *)
(* the frames that a loop over clients works on are still there.           *)

JobSound ==
  /\ job.op = "attach_tagged" => wm.wsOf[job.to] # NULL
  /\ job.op = "destroy_frame" =>
       job.from # job.to /\ wm.wsOf[job.from] # NULL /\ wm.wsOf[job.from] = wm.wsOf[job.to]

IInv ==
  TypeOK /\ Whole(wm) /\ wm.protect = 0 /\ (inSeq => wm.fthing # NULL) /\ JobSound

\* When the active frame shows another client, the focus will be set.
Refocuses(s, r) ==
  \A f \in Frame : s.wswin = f /\ r.wswin = f /\ r.cur[f] \notin {NULL, s.cur[f]}
                     /\ r.input[f] = NULL => r.fnext # NULL

\* What each step of the program does: to the invariant, to the focus, and to the
\* places of clients and frames.
StepSound ==
  /\ Whole(wm') /\ wm'.protect = 0 /\ (inSeq' => wm'.fthing # NULL) /\ JobSound'
  /\ Refocuses(wm, wm')
  /\ [P!Next]_(P!vars)

LEMMA RefocusFacts ==
  ASSUME NEW s, NEW r
  PROVE  /\ Attends(s, r) => Refocuses(s, r)
         /\ Focuses(s, r) /\ r.input = s.input => Refocuses(s, r)
         /\ r.cur = s.cur => Refocuses(s, r)
BY DEF Attends, Focuses, Refocuses

LEMMA NoJobSound ==
  ASSUME job' = NoJob
  PROVE  JobSound'
BY DEF NoJob, JobSound

\* A step that leaves the loop in progress alone.
LEMMA KeepsStepSound ==
  ASSUME IInv, Same, Whole(wm'), wm'.protect = wm.protect, Refocuses(wm, wm'),
         [P!Next]_(P!vars), job = NoJob \/ wm'.wsOf = wm.wsOf,
         ~inSeq \/ (wm.fthing # NULL => wm'.fthing # NULL)
  PROVE  StepSound
<1>1. JobSound'
  BY NoJobSound DEF IInv, JobSound, Same
<1> QED
  BY <1>1 DEF IInv, Same, StepSound

LEMMA StepsStepSound ==
  ASSUME IInv, Same, Steps(wm, wm'), [P!Next]_(P!vars), job = NoJob \/ wm'.wsOf = wm.wsOf
  PROVE  StepSound
<1>1. Refocuses(wm, wm')
  BY RefocusFacts DEF Steps
<1> QED
  BY <1>1, KeepsStepSound DEF Steps

-----------------------------------------------------------------------------
(* The steps of Placement. *)

LEMMA PlacesStay ==
  ASSUME SamePlaces(wm, wm')
  PROVE  [P!Next]_(P!vars)
BY DEF SamePlaces, P!vars

LEMMA PlacesShow ==
  ASSUME NEW c \in Client, wm.frameOf[c] # NULL, wm'.frameOf = wm.frameOf,
         wm'.wsOf = wm.wsOf, wm'.curws = wm.curws,
         wm'.cur = [wm.cur EXCEPT ![wm.frameOf[c]] = c]
  PROVE  [P!Next]_(P!vars)
<1>1. P!Show(c)
  BY DEF P!Show
<1> QED
  BY <1>1 DEF P!Next

LEMMA PlacesGoTo ==
  ASSUME NEW c \in Client, wm.frameOf[c] # NULL, wm'.frameOf = wm.frameOf,
         wm'.wsOf = wm.wsOf, wm'.curws = wm.wsOf[wm.frameOf[c]],
         wm'.cur = [wm.cur EXCEPT ![wm.frameOf[c]] = c]
  PROVE  [P!Next]_(P!vars)
<1>1. P!GoTo(c)
  BY DEF P!GoTo
<1> QED
  BY <1>1 DEF P!Next

LEMMA PlacesVisit ==
  ASSUME NEW ws \in Ws, NEW f \in Frame, wm.wsOf[f] = ws, wm'.frameOf = wm.frameOf,
         wm'.cur = wm.cur, wm'.wsOf = wm.wsOf, wm'.curws = ws
  PROVE  [P!Next]_(P!vars)
<1>1. P!Visit(ws)
  BY DEF P!Visit, P!OnWs
<1> QED
  BY <1>1 DEF P!Next

LEMMA PlacesPut ==
  ASSUME wm' \in State, NEW c \in Client, NEW f \in Frame \cup {NULL}, Puts(wm, wm', c, f)
  PROVE  P!Put(c, f)
<1>1. wm'.cur \in [Frame -> Client \cup {NULL}]
  BY DEF State
<1>2. wm'.frameOf = [wm.frameOf EXCEPT ![c] = f]
  BY DEF Puts
<1>3. ASSUME NEW g \in Frame PROVE wm'.cur[g] \in P!MayShow(g, c, f)
  BY DEF Puts, Others, P!MayShow
<1> QED
  BY <1>1, <1>2, <1>3 DEF P!Put

\* A client comes, goes, or moves to another frame.
LEMMA PlacesPutStep ==
  ASSUME wm' \in State, NEW c \in Client, NEW f \in Frame \cup {NULL}, Puts(wm, wm', c, f),
         wm'.wsOf = wm.wsOf, wm'.curws = wm.curws,
         IF f = NULL THEN wm.frameOf[c] # NULL ELSE wm.wsOf[f] # NULL /\ wm.frameOf[c] # f
  PROVE  [P!Next]_(P!vars)
<1>1. P!Put(c, f)
  BY PlacesPut
<1>2. CASE f = NULL
  <2>1. P!Close(c)
    BY <1>1, <1>2 DEF P!Close
  <2> QED
    BY <2>1 DEF P!Next
<1>3. CASE f # NULL
  <2>1. f \in P!Frames
    BY <1>3 DEF P!Frames
  <2>2. P!Open(c, f) \/ P!Move(c, f)
    BY <1>1, <1>3, <2>1 DEF P!Open, P!Move
  <2> QED
    BY <1>3, <2>2 DEF P!Next
<1> QED
  BY <1>2, <1>3


-----------------------------------------------------------------------------
(* X events. *)

LEMMA MainLoopFocusSound ==
  ASSUME IInv, MainLoopFocus
  PROVE  StepSound
<1> DEFINE x == IF OnVisibleWorkspace(wm, wm.fnext) THEN wm.fnext ELSE wm.fthing
<1>1. /\ wm \in State /\ wm.wswin \in Frame \cup {NULL} /\ wm.fframe \in Frame \cup {NULL}
      /\ wm.fnext \in Things \cup {NULL} /\ wm.fthing \in Things \cup {NULL} /\ Pointers(wm)
      /\ Whole(wm)
  BY DEF IInv, Whole, State
<1>2. wm' = SetPointers(wm, wm.wswin, NULL, x, wm.fframe)
  BY <1>1 DEF MainLoopFocus, SetPointers, State
<1>3. ASSUME NEW f \in Frame, x = Input(f) PROVE wm.wsOf[f] = wm.curws
  <2>1. CASE x = wm.fthing
    BY <1>1, <1>3, <2>1 DEF Pointers
  <2>2. CASE OnVisibleWorkspace(wm, Input(f))
    <3>1. /\ Input(f) # Screen /\ Input(f) \notin Win \cup Client \cup Frame \cup Ws
          /\ Input(f) \in Inputs
      BY InputsAreApart DEF Inputs
    <3>2. FrameOf(wm, Input(f)) = f
      <4>1. FrameOf(wm, Input(f)) = CHOOSE g \in Frame : Input(f) = Input(g)
        BY <3>1 DEF FrameOf
      <4>2. (CHOOSE g \in Frame : Input(f) = Input(g)) = f
        BY DEF Input
      <4> QED
        BY <4>1, <4>2
    <3> QED
      BY <2>2, <3>1, <3>2 DEF OnVisibleWorkspace, WorkspaceOf
  <2> QED
    BY <1>3, <2>1, <2>2
<1>4. x \in Things \cup {NULL} /\ Names(wm, x) /\ Names(wm, NULL) /\ NULL \in Things \cup {NULL}
  BY <1>1 DEF Pointers, Names
<1> HIDE DEF x
<1>5. Whole(wm') /\ SameView(wm, wm') /\ wm'.protect = wm.protect
  BY <1>1, <1>2, <1>3, <1>4, SetPointersWhole DEF Pointers
<1>6. [P!Next]_(P!vars) /\ Refocuses(wm, wm') /\ wm'.wsOf = wm.wsOf
  BY <1>5, PlacesStay, RefocusFacts DEF SameView, SameThings, SameLinks, SamePlaces
<1> QED
  BY <1>5, <1>6, KeepsStepSound DEF MainLoopFocus

LEMMA TransientClientsListed ==
  ASSUME IInv, NEW c \in TransientClients \ {NULL}
  PROVE  c \in ToSet(wm.list)
<1>1. CASE \E w \in Win : c = wm.clientOf[w]
  <2>1. PICK w \in Win : c = wm.clientOf[w]
    BY <1>1
  <2>2. c \in Client /\ wm.wins[c] \in Seq(Win)
    BY <2>1 DEF IInv, Whole, State
  <2>3. w \in ToSet(wm.wins[c])
    BY <2>1, <2>2 DEF IInv, Whole, Clients, WinLinks
  <2>4. wm.wins[c] # <<>>
    BY <2>2, <2>3, ElementFacts
  <2> QED
    BY <2>2, <2>4 DEF IInv, Whole, Listed
<1>2. CASE \E f \in Frame : c = wm.cur[f]
  BY <1>2, CurrentIsListed DEF IInv, Whole, Clients
<1> QED
  BY <1>1, <1>2 DEF TransientClients, FramesOf

\* A window goes, and with the last one its client.
LEMMA WindowGone ==
  ASSUME NEW s, Whole(s), s.curws = wm.curws, s.wsOf = wm.wsOf, s.frameOf = wm.frameOf,
         s.cur = wm.cur, s.input = wm.input, s.wswin = wm.wswin, s.protect = wm.protect,
         NEW c \in ToSet(s.list), NEW w \in Win, s.clientOf[w] = c,
         wm' = DestroyClientwin(s, c, w), IInv, Same, Ready
  PROVE  StepSound
<1>1. c \in Client /\ s.frameOf[c] # NULL
  BY ListIsClients DEF Whole, Listed
<1>2. /\ Whole(wm') /\ wm'.wsOf = s.wsOf /\ wm'.curws = s.curws
      /\ wm'.input = s.input /\ wm'.protect = s.protect /\ wm'.wswin = s.wswin
      /\ (wm'.frameOf = s.frameOf /\ wm'.cur = s.cur) \/ Puts(s, wm', c, NULL)
      /\ Focuses(s, wm')
  BY <1>1, DestroyClientwinWhole
<1>3. Refocuses(wm, wm')
  BY <1>2 DEF Focuses, Refocuses
<1>4. [P!Next]_(P!vars)
  <2>1. CASE wm'.frameOf = s.frameOf /\ wm'.cur = s.cur
    BY <1>2, <2>1, PlacesStay DEF SamePlaces
  <2>2. CASE Puts(s, wm', c, NULL)
    <3>1. \A g \in Frame : Others(s, g, c) = Others(wm, g, c)
      BY DEF Others
    <3>2. Puts(wm, wm', c, NULL)
      BY ZenonT(30), <2>2, <3>1 DEF Puts
    <3> QED
      BY <1>1, <1>2, <3>2, PlacesPutStep DEF Whole
  <2> QED
    BY <1>2, <2>1, <2>2
<1> QED
  BY <1>2, <1>3, <1>4, KeepsStepSound DEF Ready

LEMMA MapRequestTransientSound ==
  ASSUME IInv, NEW w \in Win, NEW c \in Client, NEW gone \in BOOLEAN,
         MapRequestTransient(w, c, gone)
  PROVE  StepSound
<1> DEFINE a == ClientAddClientwin(wm, c, w)
<1>1. /\ c \in ToSet(wm.list) /\ wm.clientOf[w] = NULL /\ Whole(wm) /\ Same /\ Ready
      /\ wm' = IF gone THEN DestroyClientwin(a, c, w) ELSE a
  BY TransientClientsListed DEF MapRequestTransient, Manage, IsManaged, IInv
<1>2. Whole(a) /\ SameButWins(wm, a) /\ SamePointers(wm, a) /\ a.clientOf[w] = c
  BY <1>1, AddTransientWhole
<1> HIDE DEF a
<1>3. /\ a.curws = wm.curws /\ a.wsOf = wm.wsOf /\ a.frameOf = wm.frameOf /\ a.cur = wm.cur
      /\ a.input = wm.input /\ a.wswin = wm.wswin /\ a.protect = wm.protect
      /\ a.list = wm.list
  BY <1>2 DEF SameButWins, SameGrounds, SameLinks, SamePointers
<1>4. CASE gone
  BY <1>1, <1>2, <1>3, <1>4, WindowGone
<1>5. CASE ~gone
  <2>1. wm' = a
    BY <1>1, <1>5
  <2>2. Refocuses(wm, wm') /\ [P!Next]_(P!vars)
    BY <1>3, <2>1, RefocusFacts, PlacesStay DEF SamePlaces
  <2> QED
    BY <1>1, <1>2, <1>3, <2>1, <2>2, KeepsStepSound DEF Ready
<1> QED
  BY <1>4, <1>5

LEMMA MapRequestSound ==
  ASSUME IInv, NEW w \in Win, NEW c \in Client, NEW f \in Frame, NEW switchto \in BOOLEAN,
         NEW gone \in BOOLEAN, MapRequest(w, c, f, switchto, gone)
  PROVE  StepSound
<1> DEFINE a == NewClient(wm, w, c, f, switchto)
<1>1. /\ c \in Client \ ToSet(wm.list) /\ wm.clientOf[w] = NULL /\ wm.wsOf[f] # NULL
      /\ Whole(wm) /\ Same /\ Ready
      /\ wm' = IF gone THEN DestroyClientwin(a, c, w) ELSE a
  BY DEF MapRequest, Manage, IsManaged, IsLiveClient, IsLiveFrame, IInv, NewClient
<1> HIDE DEF a
<1>2. wm.frameOf[c] = NULL /\ f # NULL
  BY <1>1, NoFrameIsInput DEF Whole, Clients, Members
<1>3. CASE gone
  <2>1. wm' = DestroyClientwin(a, c, w)
    BY <1>1, <1>3
  <2>2. /\ Whole(wm') /\ wm'.wsOf = wm.wsOf /\ wm'.curws = wm.curws /\ wm'.frameOf = wm.frameOf
        /\ wm'.input = wm.input /\ wm'.protect = wm.protect /\ wm'.wswin = wm.wswin
        /\ \A g \in Frame \ {f} : wm'.cur[g] = wm.cur[g]
        /\ \/ wm'.cur[f] = wm.cur[f]
           \/ /\ wm'.cur[f] \in Client /\ wm.frameOf[wm'.cur[f]] = f
              /\ wm.wswin = f /\ wm.input[f] = NULL => wm'.fnext # NULL
    BY <1>1, <2>1, NewClientGone DEF a
  <2>3. Refocuses(wm, wm')
    BY <2>2 DEF Refocuses
  <2>4. wm.cur \in [Frame -> Client \cup {NULL}] /\ wm'.cur \in [Frame -> Client \cup {NULL}]
    BY <1>1, <2>2 DEF Whole, State
  <2>5. [P!Next]_(P!vars)
    <3>1. CASE wm'.cur[f] = wm.cur[f]
      <4>1. wm'.cur = wm.cur
        BY <2>2, <2>4, <3>1
      <4> QED
        BY <2>2, <4>1, PlacesStay DEF SamePlaces
    <3>2. CASE wm'.cur[f] \in Client /\ wm.frameOf[wm'.cur[f]] = f
      <4>1. wm'.cur = [wm.cur EXCEPT ![wm.frameOf[wm'.cur[f]]] = wm'.cur[f]]
        BY <2>2, <2>4, <3>2
      <4> QED
        BY <1>2, <2>2, <3>2, <4>1, PlacesShow
    <3> QED
      BY <2>2, <3>1, <3>2
  <2> QED
    BY <1>1, <2>2, <2>3, <2>5, KeepsStepSound DEF Ready
<1>4. CASE ~gone
  <2>1. wm' = a
    BY <1>1, <1>4
  <2>2. /\ Whole(wm') /\ Puts(wm, wm', c, f) /\ wm'.wsOf = wm.wsOf /\ wm'.curws = wm.curws
        /\ wm'.input = wm.input /\ wm'.protect = wm.protect
        /\ Focuses(wm, wm') /\ (wm.fthing # NULL => wm'.fthing # NULL)
    BY <1>1, <2>1, NewClientWhole DEF a
  <2>3. [P!Next]_(P!vars)
    BY <1>1, <1>2, <2>2, PlacesPutStep DEF Whole
  <2> QED
    BY <1>1, <2>2, <2>3, RefocusFacts, KeepsStepSound DEF Ready
<1> QED
  BY <1>3, <1>4


\* A frame shows another client of its own.
LEMMA SwitchedSound ==
  ASSUME IInv, Switched(wm, wm'), Same
  PROVE  StepSound
<1>1. Steps(wm, wm') /\ Moves(wm, wm') /\ wm'.frameOf = wm.frameOf
  BY SwitchedWhole DEF IInv
<1>2. wm'.wsOf = wm.wsOf /\ wm'.curws = wm.curws
  BY <1>1 DEF Moves, SameThings
<1>3. [P!Next]_(P!vars)
  <2>1. CASE wm'.cur = wm.cur
    BY <1>1, <1>2, <2>1, PlacesStay DEF SamePlaces
  <2>2. ASSUME NEW c \in Client, wm.frameOf[c] # NULL,
               wm'.cur = [wm.cur EXCEPT ![wm.frameOf[c]] = c]
        PROVE  [P!Next]_(P!vars)
    BY <1>1, <1>2, <2>2, PlacesShow
  <2> QED
    BY <2>1, <2>2 DEF Switched
<1> QED
  BY <1>1, <1>2, <1>3, StepsStepSound


\* A frame that is on the workspace on the screen gets the focus.
LEMMA FocusFrameSound ==
  ASSUME IInv, NEW f \in Frame, wm.wsOf[f] # NULL, NEW s, Whole(s), SamePlaces(wm, s),
         s.protect = wm.protect, s.input = wm.input, wm' = SetFocus(s, f), Same
  PROVE  StepSound
<1>1. f \in Things /\ f # NULL /\ \A g \in Frame : f # Input(g)
  BY NoFrameIsInput
<1>2. Whole(wm')
  <2>1. Alive(s, f)
    BY DEF Alive, IsLiveFrame, SamePlaces
  <2> QED
    BY <1>1, <2>1, SetFocusWhole
<1>3. SameView(s, wm') /\ wm'.protect = s.protect /\ wm'.fthing = f
  BY <1>1, SetFocusFields DEF Whole
<1>4. SamePlaces(wm, wm')
  BY <1>3 DEF SamePlaces, SameView, SameThings, SameLinks
<1> QED
  BY <1>1, <1>2, <1>3, <1>4, PlacesStay, RefocusFacts, KeepsStepSound DEF SamePlaces

LEMMA PreviousKeeps ==
  ASSUME NEW s, Whole(s), NEW t
  PROVE  LET r == SetPrevious(s, t) IN
         Whole(r) /\ SamePlaces(s, r) /\ r.protect = s.protect /\ r.input = s.input
<1> DEFINE r == SetPrevious(s, t)
<1>1. SameView(s, r) /\ r.protect = s.protect
  BY SetPreviousFields DEF Whole
<1>2. Whole(r)
  BY SetPreviousWhole
<1> HIDE DEF r
<1> QED
  BY <1>1, <1>2 DEF SamePlaces, SameView, SameThings, SameLinks, r

LEMMA XEventSound ==
  ASSUME IInv, XEvent
  PROVE  StepSound
<1>1. Whole(wm) /\ wm \in State /\ SamePlaces(wm, wm)
  BY DEF IInv, Whole, SamePlaces
<1>2. \A f \in FramesOf(wm, wm.curws) : f \in Frame /\ wm.wsOf[f] = wm.curws /\ wm.wsOf[f] # NULL
  BY <1>1 DEF FramesOf, Whole, Grounds
<1>3. ASSUME NEW w \in Win, UnmapOrDestroyNotify(w) PROVE StepSound
  <2> DEFINE c == wm.clientOf[w]
  <2>1. c \in Client /\ wm' = DestroyClientwin(wm, c, w) /\ Ready /\ Same
    BY <1>1, <1>3 DEF UnmapOrDestroyNotify, IsManaged, State
  <2>2. c \in ToSet(wm.list)
    <3>1. wm.wins[c] \in Seq(Win) /\ w \in ToSet(wm.wins[c])
      BY <1>1, <2>1 DEF Whole, Clients, WinLinks, State
    <3>2. wm.wins[c] # <<>>
      BY <3>1, ElementFacts
    <3> QED
      BY <1>1, <2>1, <3>2 DEF Whole, Listed
  <2> QED
    BY <1>1, <2>1, <2>2, WindowGone
<1>4. ASSUME NEW w \in Win, Iconify(w) PROVE StepSound
  <2> DEFINE f == FrameOf(wm, w)
  <2>1. f \in Frame /\ Same /\ wm' = FrameSwitchNext(wm, f)
    BY <1>1, <1>4, FrameOfType DEF Iconify
  <2> HIDE DEF f
  <2>2. Switched(wm, wm')
    BY <1>1, <2>1, FrameSwitchNextSound DEF Whole
  <2> QED
    BY <2>1, <2>2, SwitchedSound
<1>5. ASSUME NEW f \in Frame, FocusIn(f) PROVE StepSound
  <2>1. wm' = SetPointers(wm, f, wm.fnext, wm.fthing, wm.fframe)
    BY <1>1, <1>5 DEF FocusIn, SetPointers, State
  <2>2. /\ wm.fnext \in Things \cup {NULL} /\ wm.fthing \in Things \cup {NULL}
        /\ wm.fframe \in Frame \cup {NULL} /\ wm.wsOf[f] = wm.curws
    BY <1>1, <1>2, <1>5 DEF State, FocusIn
  <2>3. Whole(wm') /\ SameView(wm, wm') /\ wm'.protect = wm.protect /\ wm'.fthing = wm.fthing
    BY <1>1, <2>1, <2>2, SetPointersWhole DEF Whole, Pointers
  <2>4. SamePlaces(wm, wm')
    BY <2>3 DEF SamePlaces, SameView, SameThings, SameLinks
  <2> QED
    BY <1>5, <2>3, <2>4, PlacesStay, RefocusFacts, KeepsStepSound DEF SamePlaces, FocusIn
<1>6. ASSUME NEW f \in Frame, RestoreFocus(f) PROVE StepSound
  BY <1>1, <1>2, <1>6, FocusFrameSound DEF RestoreFocus
<1>7. ASSUME NEW f \in Frame, EnterNotify(f) PROVE StepSound
  BY <1>1, <1>2, <1>7, PreviousKeeps, FocusFrameSound DEF EnterNotify
<1> QED
  BY <1>3, <1>4, <1>5, <1>6, <1>7, MainLoopFocusSound, MapRequestTransientSound,
     MapRequestSound DEF XEvent

-----------------------------------------------------------------------------
\* A frame that is named is there, and NULL is no input.
LEMMA NamedFrames ==
  ASSUME NEW s \in State, NEW f \in Frame, Names(s, f)
  PROVE  s.wsOf[f] # NULL /\ NULL # Input(f)
<1>1. f \notin ToSet(s.workspaces) /\ f \notin ToSet(s.list)
  <2>1. ToSet(s.workspaces) \subseteq Ws /\ ToSet(s.list) \subseteq Client
    BY ElementFacts DEF State
  <2> QED
    BY <2>1, ClassesAreDisjoint
<1>2. f # NULL /\ f # Screen /\ f \notin Win /\ \A g \in Frame : f # Input(g)
  BY ClassesAreDisjoint, NoFrameIsInput
<1>3. NULL # Input(f)
  BY InputsAreApart DEF Inputs
<1> QED
  BY <1>1, <1>2, <1>3 DEF Names, Alive, IsLiveFrame, IsLiveClient, IsManaged

-----------------------------------------------------------------------------
(* Commands and answers: a handler may prepare the tree before its main operator. *)

Prepares(s) ==
  /\ Whole(s) /\ SamePlaces(wm, s) /\ s.wswin = wm.wswin /\ s.protect = wm.protect
  /\ wm.fthing # NULL => s.fthing # NULL

LEMMA PreparedSound ==
  ASSUME IInv, Same, NEW s, Prepares(s), Steps(s, wm'), [P!Next]_(P!vars),
         job = NoJob \/ wm'.wsOf = wm.wsOf
  PROVE  StepSound
<1>1. Refocuses(wm, wm')
  BY DEF Prepares, Steps, Attends, SamePlaces, Refocuses
<1> QED
  BY <1>1, KeepsStepSound DEF Prepares, Steps

LEMMA NothingPrepared ==
  ASSUME IInv
  PROVE  Prepares(wm)
BY DEF IInv, Prepares, SamePlaces

LEMMA PreparedPuts ==
  ASSUME NEW s, SamePlaces(wm, s), NEW r, NEW c, NEW f, Puts(s, r, c, f)
  PROVE  Puts(wm, r, c, f)
<1>1. \A g \in Frame : Others(s, g, c) = Others(wm, g, c)
  BY DEF Others, SamePlaces
<1> QED
  BY <1>1 DEF Puts, SamePlaces

\* A client is attached to a frame, which may be its own.
LEMMA AttachedSound ==
  ASSUME IInv, Same, NEW s, Prepares(s), NEW f \in Frame, NEW c \in ToSet(s.list),
         wm.wsOf[f] # NULL, NEW switchto \in BOOLEAN, wm' = AttachClient(s, f, c, switchto)
  PROVE  StepSound
<1>1. c \in Client /\ s.frameOf[c] # NULL /\ s.wsOf[f] # NULL /\ Whole(s) /\ f # NULL
  BY ListIsClients, NoFrameIsInput DEF Prepares, Whole, Listed, SamePlaces
<1>2. /\ Steps(s, wm') /\ Moves(s, wm')
      /\ (s.frameOf[c] = f => wm' = s)
      /\ (s.frameOf[c] # f => Puts(s, wm', c, f))
  BY ZenonT(30), <1>1, AttachPlacedWhole
<1>3. wm'.wsOf = wm.wsOf /\ wm'.curws = wm.curws
  BY <1>2 DEF Moves, SameThings, Prepares, SamePlaces
<1>4. [P!Next]_(P!vars)
  <2>1. CASE s.frameOf[c] = f
    BY <1>2, <2>1, PlacesStay DEF Prepares
  <2>2. CASE s.frameOf[c] # f
    <3>1. Puts(wm, wm', c, f) /\ wm.frameOf[c] # f
      BY <1>2, <2>2, PreparedPuts DEF Prepares, SamePlaces
    <3>2. wm' \in State
      BY <1>2 DEF Steps, Whole
    <3> QED
      BY <1>1, <1>3, <3>1, <3>2, PlacesPutStep
  <2> QED
    BY <2>1, <2>2
<1> QED
  BY <1>2, <1>3, <1>4, PreparedSound

-----------------------------------------------------------------------------
(* Command sequences, switching, and tags. *)

LEMMA BeginSequenceSound ==
  ASSUME IInv, NEW f \in Frame, BeginSequence(f)
  PROVE  StepSound
<1>1. Whole(wm) /\ wm \in State /\ wm.wsOf[f] # NULL /\ job' = NoJob /\ f \in Things
  BY NoFrameIsInput DEF IInv, Whole, BeginSequence, RunsOn, IsLiveFrame
<1>2. wm' = SetPointers(wm, wm.wswin, wm.fnext, f, wm.fframe)
  BY <1>1 DEF BeginSequence, SetPointers, State
<1>3. /\ wm.fnext \in Things \cup {NULL} /\ wm.fframe \in Frame \cup {NULL}
      /\ wm.wswin \in Frame \cup {NULL} /\ Names(wm, f)
  BY <1>1 DEF State, Names, Alive, IsLiveFrame
<1>4. Whole(wm') /\ SameView(wm, wm') /\ wm'.protect = wm.protect /\ wm'.fthing = f
  <2>1. /\ f \in Things \cup {NULL} /\ Names(wm, wm.fnext) /\ Names(wm, wm.fframe)
        /\ \A g \in Frame : f = Input(g) => wm.wsOf[g] = wm.curws
        /\ wm.wswin # NULL => wm.wsOf[wm.wswin] = wm.curws
    BY <1>1, NoFrameIsInput DEF Whole, Pointers
  <2> QED
    BY <1>1, <1>2, <1>3, <2>1, SetPointersWhole
<1>5. SamePlaces(wm, wm')
  BY <1>4 DEF SamePlaces, SameView, SameThings, SameLinks
<1>6. f # NULL
  BY NoFrameIsInput
<1> QED
  BY <1>1, <1>4, <1>5, <1>6, PlacesStay, RefocusFacts, NoJobSound DEF SamePlaces, StepSound, IInv

LEMMA EndSequenceSound ==
  ASSUME IInv, NEW error \in BOOLEAN, EndSequence(error)
  PROVE  StepSound
<1> DEFINE e == SetPointers(wm, wm.wswin, wm.fnext, NULL, wm.fframe)
           d == IF error /\ wm.fframe # NULL THEN Fwarn(e, wm.fframe) ELSE e
<1>1. /\ Whole(wm) /\ wm \in State /\ job' = NoJob /\ NULL \in Things \cup {NULL}
      /\ \A f \in Frame : NULL # Input(f)
  BY InputsAreApart DEF IInv, Whole, EndSequence, Inputs
<1>2. /\ wm.fnext \in Things \cup {NULL} /\ wm.fframe \in Frame \cup {NULL}
      /\ wm.wswin \in Frame \cup {NULL} /\ Names(wm, NULL)
      /\ wm.fthing \in Things \cup {NULL}
  BY <1>1 DEF State, Names
<1>3. e = [wm EXCEPT !.fthing = NULL]
  BY <1>1 DEF SetPointers, State
<1>4. Whole(e) /\ SamePlaces(wm, e) /\ e.protect = wm.protect /\ e.fframe = wm.fframe
  <2>1. Whole(e) /\ SameView(wm, e) /\ e.protect = wm.protect /\ e.fframe = wm.fframe
    BY <1>1, <1>2, SetPointersWhole DEF Whole, Pointers
  <2> QED
    BY <2>1 DEF SamePlaces, SameView, SameThings, SameLinks
<1>5. wm' = [d EXCEPT !.fframe = NULL]
  BY <1>3 DEF EndSequence
<1> HIDE DEF e
<1>6. Whole(d) /\ SamePlaces(wm, d) /\ d.protect = wm.protect
  <2>1. CASE error /\ wm.fframe # NULL
    <3>1. wm.fframe \in Frame /\ wm.wsOf[wm.fframe] # NULL
      BY <1>1, <1>2, <2>1, NamedFrames DEF Whole, Pointers
    <3>2. e.wsOf[wm.fframe] # NULL
      BY <1>4, <3>1 DEF SamePlaces
    <3>3. d = FrameSetInput(e, wm.fframe, "message")
      BY <2>1 DEF Fwarn
    <3> QED
      BY <1>4, <3>1, <3>2, <3>3, FrameSetInputWhole DEF SamePlaces
  <2>2. CASE ~(error /\ wm.fframe # NULL)
    BY <1>4, <2>2
  <2> QED
    BY <2>1, <2>2
<1> HIDE DEF d
<1>7. d \in State /\ d.fnext \in Things \cup {NULL} /\ d.fthing \in Things \cup {NULL}
      /\ d.wswin \in Frame \cup {NULL} /\ Names(d, NULL)
  BY <1>6 DEF Whole, State, Names
<1>8. wm' = SetPointers(d, d.wswin, d.fnext, d.fthing, NULL)
  BY <1>5, <1>7 DEF SetPointers, State
<1>9. Whole(wm') /\ SameView(d, wm') /\ wm'.protect = d.protect
  BY <1>6, <1>7, <1>8, SetPointersWhole DEF Whole, Pointers
<1>10. SamePlaces(wm, wm') /\ ~inSeq'
  BY <1>6, <1>9 DEF SamePlaces, SameView, SameThings, SameLinks, EndSequence
<1> QED
  BY <1>1, <1>6, <1>9, <1>10, PlacesStay, RefocusFacts, NoJobSound
     DEF SamePlaces, StepSound, IInv

LEMMA SwitchToSound ==
  ASSUME IInv, NEW f \in Frame, NEW c \in Client, SwitchTo(f, c)
  PROVE  StepSound
<1>1. Whole(wm) /\ wm \in State /\ Same /\ job = NoJob /\ wm' = FrameSwitchClient(wm, f, c)
  BY DEF IInv, Whole, SwitchTo, RunsOn
<1>2. wm.frameOf[c] = f /\ f # NULL
  BY <1>1, NoFrameIsInput DEF SwitchTo, Whole, Clients, FrameLinks
<1>3. /\ Steps(wm, wm') /\ Moves(wm, wm') /\ wm'.frameOf = wm.frameOf
      /\ wm'.cur = [wm.cur EXCEPT ![f] = c]
  BY <1>1, <1>2, FrameSwitchClientWhole
<1>4. wm'.wsOf = wm.wsOf /\ wm'.curws = wm.curws
  BY <1>3 DEF Moves, SameThings
<1>5. [P!Next]_(P!vars)
  BY <1>2, <1>3, <1>4, PlacesShow
<1> QED
  BY <1>1, <1>3, <1>5, StepsStepSound

LEMMA DropTabSound ==
  ASSUME IInv, NEW f \in Frame, NEW c \in Client, DropTab(f, c)
  PROVE  StepSound
<1> DEFINE a == AttachClient(wm, f, c, TRUE)
<1>1. /\ Whole(wm) /\ wm \in State /\ Same /\ job = NoJob /\ wm' = SetFocus(a, f)
      /\ c \in ToSet(wm.list) /\ wm.wsOf[f] = wm.curws /\ wm.wsOf[f] # NULL
  BY DEF IInv, Whole, Grounds, DropTab, IsLiveClient, FramesOf
<1>2. /\ Steps(wm, a) /\ Moves(wm, a)
      /\ (wm.frameOf[c] = f => a = wm)
      /\ (wm.frameOf[c] # f => Puts(wm, a, c, f))
  BY <1>1, AttachPlacedWhole
<1> HIDE DEF a
<1>3. /\ Whole(a) /\ a \in State /\ a.protect = wm.protect
      /\ a.wsOf = wm.wsOf /\ a.curws = wm.curws /\ a.input = wm.input
  BY <1>2 DEF Steps, Whole, Moves, SameThings
<1>4. f \in Things /\ f # NULL /\ \A g \in Frame : f # Input(g)
  BY NoFrameIsInput
<1>5. Whole(wm')
  <2>1. Alive(a, f)
    BY <1>1, <1>3 DEF Alive, IsLiveFrame
  <2> QED
    BY <1>1, <1>3, <1>4, <2>1, SetFocusWhole
<1>6. SameView(a, wm') /\ wm'.protect = a.protect /\ wm'.fthing = f /\ wm'.fnext = f
  BY <1>1, <1>3, <1>4, SetFocusFields
<1>7. SamePlaces(a, wm') /\ Refocuses(wm, wm')
  BY <1>4, <1>6 DEF SamePlaces, SameView, SameThings, SameLinks, Refocuses
<1>8. [P!Next]_(P!vars)
  <2>1. CASE wm.frameOf[c] = f
    BY <1>2, <1>7, <2>1, PlacesStay
  <2>2. CASE wm.frameOf[c] # f
    <3>1. Puts(wm, wm', c, f)
      BY <1>2, <1>7, <2>2 DEF Puts, SamePlaces
    <3>2. wm.frameOf[c] # NULL /\ wm' \in State
      BY <1>1, <1>5 DEF Whole, Listed
    <3> QED
      BY <1>1, <1>3, <1>4, <1>7, <2>2, <3>1, <3>2, PlacesPutStep DEF SamePlaces
  <2> QED
    BY <2>1, <2>2
<1> QED
  BY <1>1, <1>3, <1>4, <1>5, <1>6, <1>7, <1>8, KeepsStepSound DEF SamePlaces

LEMMA TagsSound ==
  ASSUME IInv, Same, NEW T \in SUBSET ToSet(wm.list), wm' = SetTagged(wm, T)
  PROVE  StepSound
<1>1. Whole(wm') /\ SamePlaces(wm, wm') /\ SamePointers(wm, wm')
  BY SetTaggedWhole DEF IInv
<1> QED
  BY <1>1, PlacesStay, RefocusFacts, KeepsStepSound DEF SamePlaces, SamePointers

LEMMA ToggleTaggedSound ==
  ASSUME IInv, NEW c \in Client, ToggleTagged(c) \/ ClearTags
  PROVE  StepSound
<1>1. wm.tagged \subseteq ToSet(wm.list) /\ wm \in State
  BY DEF IInv, Whole, Listed
<1>2. CASE ToggleTagged(c)
  <2> DEFINE T == IF c \in wm.tagged THEN wm.tagged \ {c} ELSE wm.tagged \cup {c}
  <2>1. T \in SUBSET ToSet(wm.list) /\ Same /\ wm' = SetTagged(wm, T)
    BY <1>1, <1>2 DEF ToggleTagged, IsLiveClient, SetTagged, State
  <2> HIDE DEF T
  <2> QED
    BY <2>1, TagsSound
<1>3. CASE ClearTags
  <2>1. {} \in SUBSET ToSet(wm.list) /\ Same /\ wm' = SetTagged(wm, {})
    BY <1>3 DEF ClearTags, SetTagged
  <2> QED
    BY <2>1, TagsSound
<1> QED
  BY <1>2, <1>3

LEMMA AttachTaggedSound ==
  ASSUME IInv, NEW f \in Frame, AttachTagged(f) \/ AttachTaggedDone
  PROVE  StepSound
<1>1. wm' = wm /\ inSeq' = inSeq /\ SamePlaces(wm, wm)
  BY DEF AttachTagged, AttachTaggedDone, SamePlaces
<1>2. JobSound'
  <2>1. CASE AttachTagged(f)
    BY <1>1, <2>1 DEF AttachTagged, RunsOn, IsLiveFrame, JobSound
  <2>2. CASE AttachTaggedDone
    BY <2>2, NoJobSound DEF AttachTaggedDone
  <2> QED
    BY <2>1, <2>2
<1> QED
  BY <1>1, <1>2, PlacesStay, RefocusFacts DEF StepSound, IInv

LEMMA AttachNextTaggedSound ==
  ASSUME IInv, AttachNextTagged
  PROVE  StepSound
<1>1. PICK i \in 1 .. Len(wm.list) :
         wm' = AttachClient([wm EXCEPT !.tagged = @ \ {wm.list[i]}], job.to, wm.list[i], FALSE)
  BY DEF AttachNextTagged
<1> DEFINE c == wm.list[i]
           s == SetTagged(wm, wm.tagged \ {c})
<1>2. /\ Whole(wm) /\ wm \in State /\ Same
      /\ job.to \in Frame /\ wm.wsOf[job.to] # NULL
  BY DEF IInv, Whole, AttachNextTagged, JobSound, TypeOK, NoJob
<1>3. c \in ToSet(wm.list) /\ wm.tagged \ {c} \in SUBSET ToSet(wm.list)
  BY <1>2, ElementFacts DEF State, Whole, Listed
<1>4. wm' = AttachClient(s, job.to, c, FALSE)
  BY <1>1, <1>2 DEF SetTagged, State
<1> HIDE DEF c
<1>5. Prepares(s) /\ s.list = wm.list
  BY <1>2, <1>3, SetTaggedWhole DEF Prepares, SamePointers
<1> HIDE DEF s
<1> QED
  BY <1>2, <1>3, <1>4, <1>5, AttachedSound

-----------------------------------------------------------------------------
(* Frames come and go. *)

LEMMA SplitSound ==
  ASSUME IInv, NEW f \in Frame, NEW g \in Frame, Split(f, g)
  PROVE  StepSound
<1> DEFINE a == AddFrame(wm, f, g)
<1>1. /\ Whole(wm) /\ wm \in State /\ Same /\ job = NoJob
      /\ wm.wsOf[f] # NULL /\ wm.wsOf[g] = NULL
  BY DEF IInv, Whole, Split, RunsOn, IsLiveFrame
<1>2. wm' = SetFocus(a, g)
  BY <1>1 DEF Split, AddFrame, State
<1>3. /\ Whole(a) /\ SameClients(wm, a) /\ SamePointers(wm, a) /\ a.input = wm.input
      /\ a.wsOf = [wm.wsOf EXCEPT ![g] = wm.wsOf[f]] /\ a.curws = wm.curws
  BY <1>1, AddFrameWhole
<1> HIDE DEF a
<1>4. g \in Things /\ g # NULL /\ (\A h \in Frame : g # Input(h)) /\ a \in State
  BY <1>3, NoFrameIsInput DEF Whole
<1>5. Whole(wm')
  <2>1. Alive(a, g)
    BY <1>1, <1>3 DEF Alive, IsLiveFrame, State
  <2> QED
    BY <1>2, <1>3, <1>4, <2>1, SetFocusWhole
<1>6. SameView(a, wm') /\ wm'.protect = a.protect /\ wm'.fthing = g
  BY <1>2, <1>4, SetFocusFields
<1>7. /\ wm'.frameOf = wm.frameOf /\ wm'.cur = wm.cur /\ wm'.curws = wm.curws
      /\ wm'.wsOf = [wm.wsOf EXCEPT ![g] = wm.wsOf[f]] /\ wm'.protect = wm.protect
  BY <1>3, <1>6 DEF SameView, SameThings, SameLinks, SameClients, SamePointers
<1>8. P!Split(f, g)
  BY <1>1, <1>7 DEF P!Split, P!Frames
<1>9. [P!Next]_(P!vars)
  BY <1>8 DEF P!Next
<1> QED
  BY <1>1, <1>4, <1>5, <1>6, <1>7, <1>9, RefocusFacts, KeepsStepSound

\* An input may be added to a frame.
LEMMA InputAddedSound ==
  ASSUME IInv, Same, NEW f \in Frame, wm.wsOf[f] # NULL, NEW kind \in {"query", "message"},
         wm' = FrameSetInput(wm, f, kind)
  PROVE  StepSound
<1>1. Whole(wm') /\ SamePlaces(wm, wm') /\ wm'.protect = wm.protect
      /\ (wm.fthing # NULL => wm'.fthing # NULL)
  BY FrameSetInputWhole DEF IInv
<1> QED
  BY <1>1, PlacesStay, RefocusFacts, KeepsStepSound DEF SamePlaces

LEMMA BeginDestroyFrameSound ==
  ASSUME IInv, NEW f \in Frame, NEW other \in Frame, BeginDestroyFrame(f, other)
  PROVE  StepSound
<1>1. wm' = wm /\ inSeq' = inSeq /\ SamePlaces(wm, wm)
  BY DEF BeginDestroyFrame, SamePlaces
<1>2. JobSound'
  BY <1>1 DEF BeginDestroyFrame, RunsOn, IsLiveFrame, Siblings, FramesOf, JobSound
<1> QED
  BY <1>1, <1>2, PlacesStay, RefocusFacts DEF StepSound, IInv

\* A frame without clients goes.
LEMMA PlacesDrop ==
  ASSUME Whole(wm), Whole(wm'), NEW f \in Frame, wm.wsOf[f] # NULL, wm.clients[f] = <<>>,
         wm'.frameOf = wm.frameOf, wm'.cur = wm.cur, wm'.wsOf = [wm.wsOf EXCEPT ![f] = NULL],
         wm'.curws # wm.curws => FramesOf(wm, wm.curws) = {f}
  PROVE  [P!Next]_(P!vars)
<1>1. \A c \in Client : wm.frameOf[c] # f
  BY UsedFramesLive DEF Whole
<1>2. wm'.curws \in {wm'.wsOf[g] : g \in Frame} \ {NULL}
  BY DEF Whole, Grounds
<1>3. P!OnWs(wm.curws) # {f} => wm'.curws = wm.curws
  BY DEF P!OnWs, FramesOf
<1>4. P!Drop(f)
  BY <1>1, <1>2, <1>3 DEF P!Drop, P!Frames
<1> QED
  BY <1>4 DEF P!Next

LEMMA EmptyFrames ==
  ASSUME IInv, NEW f \in Frame, wm.count[f] = 0
  PROVE  wm.clients[f] = <<>>
<1>1. wm.clients[f] \in Seq(Client) /\ Len(wm.clients[f]) = 0
  BY DEF IInv, Whole, Clients, FrameLinks, State
<1> QED
  BY <1>1

LEMMA DestroyLastFrameSound ==
  ASSUME IInv, NEW f \in Frame, NEW cf \in Frame, DestroyLastFrame(f, cf)
  PROVE  StepSound
<1>1. /\ Whole(wm) /\ wm \in State /\ Same /\ job = NoJob /\ wm.wsOf[f] # NULL
      /\ Len(wm.workspaces) > 1 /\ cf \in FramesOf(wm, Head(Unlink(wm.workspaces, wm.wsOf[f])))
      /\ wm' = DestroyFrame(wm, f, cf) /\ wm.clients[f] = <<>>
  BY EmptyFrames DEF IInv, Whole, DestroyLastFrame, RunsOn, IsLiveFrame
<1>2. FramesOf(wm, wm.wsOf[f]) = {f}
  BY DEF DestroyLastFrame, Siblings, FramesOf
<1>3. /\ Whole(wm') /\ wm'.frameOf = wm.frameOf /\ wm'.cur = wm.cur
      /\ wm'.curws = NextWorkspace(wm, wm.wsOf[f])
      /\ wm'.wsOf = [wm.wsOf EXCEPT ![f] = NULL] /\ wm'.protect = wm.protect
      /\ (wm.fthing # NULL => wm'.fthing # NULL)
  BY <1>1, <1>2, DestroyLastFrameWhole, SMTT(30)
<1>4. wm'.curws # wm.curws => FramesOf(wm, wm.curws) = {f}
  BY <1>2, <1>3 DEF NextWorkspace
<1>5. [P!Next]_(P!vars)
  BY <1>1, <1>3, <1>4, PlacesDrop
<1> QED
  BY <1>1, <1>3, <1>5, RefocusFacts, KeepsStepSound

LEMMA FinishDestroyFrameSound ==
  ASSUME IInv, FinishDestroyFrame
  PROVE  StepSound
<1> DEFINE f == job.from
           g == job.to
<1>1. /\ Whole(wm) /\ wm.clients[f] = <<>> /\ job' = NoJob /\ inSeq' = inSeq
      /\ wm' = SetFocus(DestroyFrame(wm, f, g), g)
  BY DEF IInv, FinishDestroyFrame
<1>2. f \in Frame /\ g \in Frame /\ f # g /\ wm.wsOf[f] # NULL /\ wm.wsOf[g] = wm.wsOf[f]
  BY DEF IInv, FinishDestroyFrame, JobSound, TypeOK, NoJob
<1> HIDE DEF f, g
<1>3. /\ Whole(wm') /\ wm'.frameOf = wm.frameOf /\ wm'.cur = wm.cur /\ wm'.curws = wm.curws
      /\ wm'.wsOf = [wm.wsOf EXCEPT ![f] = NULL] /\ wm'.protect = wm.protect
      /\ wm'.fthing # NULL
  BY <1>1, <1>2, DestroyFrameWhole
<1>4. [P!Next]_(P!vars)
  BY <1>1, <1>2, <1>3, PlacesDrop
<1> QED
  BY <1>1, <1>3, <1>4, RefocusFacts, NoJobSound DEF StepSound, IInv

LEMMA MoveNextClientSound ==
  ASSUME IInv, MoveNextClient
  PROVE  StepSound
<1> DEFINE c == Head(wm.clients[job.from])
<1>1. /\ Whole(wm) /\ wm \in State /\ Same /\ wm.clients[job.from] # <<>>
      /\ wm' = AttachClient(wm, job.to, c, FALSE)
  BY DEF IInv, Whole, MoveNextClient
<1>2. job.from \in Frame /\ job.to \in Frame /\ wm.wsOf[job.to] # NULL
  BY DEF IInv, MoveNextClient, JobSound, TypeOK, NoJob
<1>3. c \in ToSet(wm.clients[job.from])
  <2>1. wm.clients[job.from] \in Seq(Client)
    BY <1>1, <1>2 DEF State
  <2>2. 1 \in 1 .. Len(wm.clients[job.from]) /\ c = wm.clients[job.from][1]
    BY <1>1, <2>1
  <2> QED
    BY <2>1, <2>2, ElementFacts
<1>4. c \in ToSet(wm.list)
  BY <1>1, <1>2, <1>3, NoFrameIsInput DEF Whole, Clients, FrameLinks, Members
<1> HIDE DEF c
<1> QED
  BY <1>1, <1>2, <1>4, NothingPrepared, AttachedSound

-----------------------------------------------------------------------------
(* Commands that go elsewhere. *)

LEMMA GotoNeighbourSound ==
  ASSUME IInv, NEW f \in Frame, NEW g \in Frame, GotoNeighbour(f, g)
  PROVE  StepSound
<1>1. /\ Whole(wm) /\ Same /\ job = NoJob /\ wm.wsOf[g] # NULL /\ SamePlaces(wm, wm)
      /\ wm' = IF wm.wswin = g THEN wm ELSE SetFocus(SetPrevious(wm, g), g)
  BY DEF IInv, GotoNeighbour, RunsOn, IsLiveFrame, FramesOf, SamePlaces
<1>2. CASE wm.wswin = g
  <2>1. wm' = wm
    BY <1>1, <1>2
  <2> QED
    BY <1>1, <2>1, PlacesStay, RefocusFacts, KeepsStepSound
<1>3. CASE wm.wswin # g
  BY <1>1, <1>3, PreviousKeeps, FocusFrameSound
<1> QED
  BY <1>2, <1>3

\* goto_client, on the way from a handler that may have prepared it.
LEMMA GoneToSound ==
  ASSUME IInv, Same, job = NoJob, NEW s, Prepares(s), NEW c \in ToSet(s.list), NEW cf \in Frame,
         wm.wsOf[cf] = wm.wsOf[wm.frameOf[c]], wm' = GotoClient(s, c, cf)
  PROVE  StepSound
<1>1. c \in Client /\ s.frameOf[c] # NULL /\ Whole(s) /\ SamePlaces(wm, s)
  BY ListIsClients DEF Prepares, Whole, Listed
<1>2. /\ Steps(s, wm') /\ wm'.frameOf = s.frameOf /\ wm'.wsOf = s.wsOf
      /\ wm'.cur = [s.cur EXCEPT ![s.frameOf[c]] = c]
      /\ wm'.curws = s.wsOf[s.frameOf[c]]
  <2>1. s.wsOf[cf] = s.wsOf[s.frameOf[c]]
    BY <1>1 DEF SamePlaces
  <2> QED
    BY <1>1, <2>1, GotoClientWhole
<1>3. [P!Next]_(P!vars)
  BY <1>1, <1>2, PlacesGoTo DEF SamePlaces
<1> QED
  BY <1>2, <1>3, PreparedSound

\* switch_workspace, likewise.
LEMMA SwitchedWsSound ==
  ASSUME IInv, Same, job = NoJob, NEW s, Prepares(s), NEW ws \in Ws, NEW cf \in Frame,
         wm.wsOf[cf] = ws, wm' = SwitchWorkspace(s, ws, cf)
  PROVE  StepSound
<1>1. Whole(s) /\ SamePlaces(wm, s) /\ s.wsOf[cf] = ws
  BY DEF Prepares, SamePlaces
<1>2. /\ Steps(s, wm') /\ wm'.frameOf = s.frameOf /\ wm'.cur = s.cur /\ wm'.wsOf = s.wsOf
      /\ wm'.curws = ws
  BY <1>1, SwitchWorkspaceWhole
<1>3. [P!Next]_(P!vars)
  BY <1>1, <1>2, PlacesVisit DEF SamePlaces
<1> QED
  BY <1>2, <1>3, PreparedSound

LEMMA ClientWorkspace ==
  ASSUME NEW s, Whole(s), NEW c \in ToSet(s.list)
  PROVE  WorkspaceOf(s, c) = s.wsOf[s.frameOf[c]]
<1>1. c \in Client /\ s.frameOf[c] \in Frame
  BY ListIsClients DEF Whole, Listed, State
<1>2. c \notin Frame \cup Ws \cup Win \cup Inputs
  BY <1>1, ClassesAreDisjoint, InputsAreApart
<1>3. FrameOf(s, c) = s.frameOf[c]
  BY <1>1, <1>2 DEF FrameOf
<1> QED
  BY <1>1, <1>2, <1>3 DEF WorkspaceOf

LEMMA GotoClientNameSound ==
  ASSUME IInv, NEW c \in Client, NEW cf \in Frame, GotoClientName(c, cf)
  PROVE  StepSound
<1>1. Same /\ job = NoJob /\ c \in ToSet(wm.list) /\ wm' = GotoClient(wm, c, cf)
  BY DEF GotoClientName, Runs, IsLiveClient
<1>2. wm.wsOf[cf] = wm.wsOf[wm.frameOf[c]]
  BY <1>1, ClientWorkspace DEF GotoClientName, FramesOf, IInv
<1> QED
  BY <1>1, <1>2, NothingPrepared, GoneToSound

LEMMA GotoPreviousSound ==
  ASSUME IInv, NEW cf \in Frame, GotoPrevious(cf)
  PROVE  StepSound
<1>1. /\ Same /\ job = NoJob /\ Whole(wm) /\ wm \in State /\ Names(wm, wm.prev)
      /\ wm.prev \in Client \cup Frame /\ wm.wsOf[cf] = WorkspaceOf(wm, wm.prev)
      /\ wm' = IF wm.prev \in Client THEN GotoClient(wm, wm.prev, cf)
               ELSE GotoWindow(wm, wm.prev, cf)
  BY DEF GotoPrevious, Runs, FramesOf, IInv, Whole, Pointers
<1>2. CASE wm.prev \in Client
  <2>1. wm.prev \in ToSet(wm.list)
    <3>1. wm.prev \notin Ws \cup Frame \cup Win \cup Inputs \cup {Screen, NULL}
      BY <1>2, ClassesAreDisjoint, InputsAreApart
    <3>2. ToSet(wm.workspaces) \subseteq Ws
      BY <1>1, ElementFacts DEF State
    <3> QED
      BY <1>1, <3>1, <3>2 DEF Names, Alive, IsLiveFrame, IsLiveClient, IsManaged, Inputs
  <2> QED
    BY <1>1, <1>2, <2>1, ClientWorkspace, NothingPrepared, GoneToSound
<1>3. CASE wm.prev \in Frame
  <2> DEFINE f == wm.prev
  <2>1. f \notin Client /\ f \notin Ws /\ wm.wsOf[f] # NULL
    BY <1>1, <1>3, ClassesAreDisjoint, NamedFrames
  <2>2. WorkspaceOf(wm, f) = wm.wsOf[f] /\ wm.wsOf[f] \in Ws
    <3>1. FrameOf(wm, f) = f
      <4>1. f \notin Client \cup Win \cup Inputs
        BY <1>3, ClassesAreDisjoint, InputsAreApart
      <4> QED
        BY <1>3, <4>1 DEF FrameOf
    <3> QED
      BY <1>1, <1>3, <2>1, <3>1 DEF WorkspaceOf, State
  <2>3. wm' = GotoWindow(wm, f, cf)
    BY <1>1, <2>1
  <2>4. f \in Frame /\ wm.wsOf[cf] = wm.wsOf[f]
    BY <1>1, <1>3, <2>2
  <2> HIDE DEF f
  <2>5. /\ Steps(wm, wm') /\ wm'.frameOf = wm.frameOf /\ wm'.cur = wm.cur
        /\ wm'.wsOf = wm.wsOf /\ wm'.curws = wm.wsOf[f]
    BY <1>1, <2>1, <2>3, <2>4, GotoWindowWhole
  <2>6. [P!Next]_(P!vars)
    BY <2>2, <2>4, <2>5, PlacesVisit
  <2> QED
    BY <1>1, <2>5, <2>6, StepsStepSound
<1> QED
  BY <1>1, <1>2, <1>3

LEMMA SwitchWsSound ==
  ASSUME IInv, NEW ws \in Ws, NEW cf \in Frame, SwitchWs(ws, cf) \/ GotoCurrentWs(cf)
  PROVE  StepSound
<1>1. CASE SwitchWs(ws, cf)
  BY <1>1, NothingPrepared, SwitchedWsSound DEF SwitchWs, Runs, FramesOf
<1>2. CASE GotoCurrentWs(cf)
  <2>1. Same /\ job = NoJob /\ wm.wsOf[cf] = wm.curws /\ wm' = GotoWs(wm, cf) /\ Whole(wm)
    BY <1>2 DEF GotoCurrentWs, Runs, FramesOf, IInv
  <2>2. Steps(wm, wm') /\ SamePlaces(wm, wm')
    BY <2>1, GotoWsWhole
  <2> QED
    BY <2>1, <2>2, PlacesStay, StepsStepSound
<1> QED
  BY <1>1, <1>2

LEMMA CommandSound ==
  ASSUME IInv, Command
  PROVE  StepSound
<1>1. ASSUME NEW f \in Frame, SwitchNext(f) \/ SwitchPrev(f) PROVE StepSound
  BY <1>1, FrameSwitchNextSound, SwitchedSound
     DEF SwitchNext, SwitchPrev, IInv, Whole
<1>2. ASSUME NEW f \in Frame, Query(f) PROVE StepSound
  BY <1>2, InputAddedSound DEF Query, RunsOn, IsLiveFrame
<1>3. ASSUME NEW f \in Frame, DestroyFrameRefused(f) PROVE StepSound
  BY <1>3, InputAddedSound DEF DestroyFrameRefused, RunsOn, IsLiveFrame, Fwarn
<1>4. CASE \/ \E f \in Frame : BeginSequence(f) \/ SwitchNext(f) \/ SwitchPrev(f) \/ Query(f)
           \/ \E error \in BOOLEAN : EndSequence(error)
           \/ \E f \in Frame, c \in Client : SwitchTo(f, c) \/ DropTab(f, c)
  BY <1>1, <1>2, <1>4, BeginSequenceSound, EndSequenceSound, SwitchToSound, DropTabSound
<1>5. CASE \/ \E c \in Client : ToggleTagged(c)
           \/ ClearTags
           \/ \E f \in Frame : AttachTagged(f)
           \/ AttachNextTagged \/ AttachTaggedDone
  <2>1. ASSUME ClearTags PROVE StepSound
    <3>1. {} \in SUBSET ToSet(wm.list) /\ Same /\ wm' = SetTagged(wm, {})
      BY <2>1 DEF ClearTags, SetTagged
    <3> QED
      BY <3>1, TagsSound
  <2>2. ASSUME AttachTaggedDone PROVE StepSound
    <3>1. PICK f \in Frame : TRUE
      BY <2>2 DEF AttachTaggedDone, IInv, TypeOK, NoJob
    <3> QED
      BY <2>2, <3>1, AttachTaggedSound
  <2> QED
    BY <1>5, <2>1, <2>2, ToggleTaggedSound, AttachTaggedSound, AttachNextTaggedSound
<1>6. CASE \/ \E f, g \in Frame : Split(f, g) \/ DestroyLastFrame(f, g) \/ BeginDestroyFrame(f, g)
           \/ \E f \in Frame : DestroyFrameRefused(f)
           \/ MoveNextClient \/ FinishDestroyFrame
  BY <1>3, <1>6, SplitSound, DestroyLastFrameSound, BeginDestroyFrameSound,
     MoveNextClientSound, FinishDestroyFrameSound
<1>7. CASE \/ \E f, g \in Frame : GotoNeighbour(f, g)
           \/ \E c \in Client, cf \in Frame : GotoClientName(c, cf)
           \/ \E cf \in Frame : GotoPrevious(cf) \/ GotoCurrentWs(cf)
           \/ \E ws \in Ws, cf \in Frame : SwitchWs(ws, cf)
  <2>1. ASSUME NEW cf \in Frame, GotoCurrentWs(cf) PROVE StepSound
    <3>1. wm.curws \in Ws
      BY <2>1, ElementFacts DEF IInv, Whole, Grounds, State
    <3> QED
      BY <2>1, <3>1, SwitchWsSound
  <2> QED
    BY <1>7, <2>1, GotoNeighbourSound, GotoClientNameSound, GotoPreviousSound, SwitchWsSound
<1> QED
  BY <1>4, <1>5, <1>6, <1>7 DEF Command

-----------------------------------------------------------------------------
(* Answers: the input of the query is destroyed first. *)

LEMMA AnsweredPrepares ==
  ASSUME IInv, NEW f \in Frame, wm.input[f] # NULL
  PROVE  Prepares(Answered(f)) /\ Answered(f).list = wm.list
         /\ Answered(f).workspaces = wm.workspaces /\ wm.wsOf[f] # NULL
<1>1. Whole(wm) /\ wm.wsOf[f] # NULL
  BY DEF IInv, Whole, Grounds
<1> QED
  BY <1>1, DestroyInputWhole DEF Answered, Prepares

\* A query starts, and ends, with a frame that is there.
LEMMA FinishingFacts ==
  ASSUME IInv, NEW f \in Frame, Finishing(f)
  PROVE  /\ Prepares(Answered(f)) /\ Answered(f).list = wm.list
         /\ Answered(f).workspaces = wm.workspaces /\ wm.wsOf[f] # NULL
         /\ job = NoJob /\ ~inSeq
<1>1. wm.input[f] # NULL
  BY InputsAreApart DEF Finishing
<1> QED
  BY <1>1, AnsweredPrepares DEF Finishing, Ready

LEMMA PlainAnswerSound ==
  ASSUME IInv, Same, NEW s, Prepares(s), Whole(wm'), SamePlaces(s, wm'),
         wm'.protect = s.protect, s.fthing # NULL => wm'.fthing # NULL
  PROVE  StepSound
<1>1. SamePlaces(wm, wm')
  BY DEF SamePlaces, Prepares
<1> QED
  BY <1>1, PlacesStay, RefocusFacts, KeepsStepSound DEF SamePlaces, Prepares

LEMMA InputCancelSound ==
  ASSUME IInv, NEW f \in Frame, InputCancel(f)
  PROVE  StepSound
<1>1. Same /\ wm' = Answered(f) /\ Prepares(Answered(f))
  BY AnsweredPrepares DEF InputCancel, Answered
<1> QED
  BY <1>1, PlainAnswerSound DEF Prepares, SamePlaces

LEMMA FinishComplaintSound ==
  ASSUME IInv, NEW f \in Frame, FinishComplaint(f)
  PROVE  StepSound
<1> DEFINE s == Answered(f)
<1>1. Same /\ wm' = FrameSetInput(s, f, "message") /\ Prepares(s) /\ wm.wsOf[f] # NULL
  BY FinishingFacts DEF FinishComplaint, Fwarn
<1> HIDE DEF s
<1>2. Whole(s) /\ s.wsOf[f] # NULL
  BY <1>1 DEF Prepares, SamePlaces
<1>3. Whole(wm') /\ SamePlaces(s, wm') /\ wm'.protect = s.protect
      /\ (s.fthing # NULL => wm'.fthing # NULL)
  BY <1>1, <1>2, FrameSetInputWhole
<1> QED
  BY <1>1, <1>3, PlainAnswerSound

LEMMA FinishFunctionSound ==
  ASSUME IInv, NEW f \in Frame, FinishFunction(f)
  PROVE  StepSound
<1> DEFINE s == Answered(f)
<1>1. /\ wm' = [s EXCEPT !.fthing = f, !.fframe = f] /\ Prepares(s) /\ wm.wsOf[f] # NULL
      /\ job' = NoJob
  BY FinishingFacts DEF FinishFunction
<1> HIDE DEF s
<1>2. Whole(s) /\ s \in State /\ SamePlaces(wm, s) /\ s.wsOf[f] # NULL
  BY <1>1 DEF Prepares, SamePlaces, Whole
<1>3. wm' = SetPointers(s, s.wswin, s.fnext, f, f)
  BY <1>1, <1>2 DEF SetPointers, State
<1>4. Whole(wm') /\ SameView(s, wm') /\ wm'.protect = s.protect /\ wm'.fthing = f
  <2>1. /\ f \in Things \cup {NULL} /\ f # NULL
        /\ \A g \in Frame : f = Input(g) => s.wsOf[g] = s.curws
        /\ f \in Frame \cup {NULL}
    BY NoFrameIsInput
  <2>2. Names(s, f)
    BY <1>2 DEF Names, Alive, IsLiveFrame
  <2>3. /\ Names(s, s.fnext) /\ (s.wswin # NULL => s.wsOf[s.wswin] = s.curws)
        /\ s.wswin \in Frame \cup {NULL} /\ s.fnext \in Things \cup {NULL}
    BY <1>2 DEF Whole, Pointers, State
  <2> QED
    BY <1>2, <1>3, <2>1, <2>2, <2>3, SetPointersWhole
<1>5. SamePlaces(wm, wm') /\ wm'.protect = 0
  BY <1>1, <1>2, <1>4 DEF SamePlaces, SameView, SameThings, SameLinks, Prepares, IInv
<1>6. f # NULL
  BY NoFrameIsInput
<1> QED
  BY <1>1, <1>4, <1>5, <1>6, PlacesStay, RefocusFacts, NoJobSound DEF SamePlaces, StepSound

LEMMA FinishAttachSound ==
  ASSUME IInv, NEW f \in Frame, NEW c \in Client, FinishAttach(f, c)
  PROVE  StepSound
BY FinishingFacts, AttachedSound DEF FinishAttach, IsLiveClient

LEMMA FinishGotoSound ==
  ASSUME IInv, NEW f \in Frame, NEW c \in Client, NEW cf \in Frame, FinishGoto(f, c, cf)
  PROVE  StepSound
<1>1. /\ Same /\ job = NoJob /\ c \in ToSet(wm.list) /\ wm' = GotoClient(Answered(f), c, cf)
      /\ Prepares(Answered(f)) /\ Answered(f).list = wm.list
  BY FinishingFacts DEF FinishGoto, IsLiveClient
<1>2. wm.wsOf[cf] = wm.wsOf[wm.frameOf[c]]
  BY <1>1, ClientWorkspace DEF FinishGoto, FramesOf, IInv
<1> QED
  BY <1>1, <1>2, GoneToSound

\* Workspace ws is made, with its frame cf.
Makes(s, ws, cf) ==
  /\ Whole(s) /\ s.frameOf = wm.frameOf /\ s.cur = wm.cur /\ s.list = wm.list
  /\ s.wsOf = [wm.wsOf EXCEPT ![cf] = ws] /\ s.wsOf[cf] = ws
  /\ s.wswin = wm.wswin /\ s.protect = wm.protect
  /\ wm.fthing # NULL => s.fthing # NULL

LEMMA CreateAnswered ==
  ASSUME IInv, NEW f \in Frame, Finishing(f), NEW ws \in Ws, NEW cf \in Frame,
         ws \notin ToSet(wm.workspaces), wm.wsOf[cf] = NULL
  PROVE  Makes(CreateWorkspace(Answered(f), ws, cf), ws, cf) /\ P!OnWs(ws) = {}
<1> DEFINE s == Answered(f)
           r == CreateWorkspace(s, ws, cf)
<1>1. Prepares(s) /\ s.list = wm.list /\ s.workspaces = wm.workspaces
  BY FinishingFacts
<1> HIDE DEF s
<1>2. /\ Whole(r) /\ SameClients(s, r) /\ r.wsOf = [s.wsOf EXCEPT ![cf] = ws]
      /\ SamePointers(s, r)
  BY SMTT(30), <1>1, CreateWorkspaceWhole DEF Prepares, SamePlaces
<1>3. wm.wsOf \in [Frame -> Ws \cup {NULL}] /\ s.wsOf = wm.wsOf
  BY <1>1 DEF IInv, Whole, State, Prepares, SamePlaces
<1>4. Makes(r, ws, cf)
  BY <1>1, <1>2, <1>3 DEF Makes, Prepares, SamePlaces, SameClients, SameLinks, SamePointers
<1>5. P!OnWs(ws) = {}
  <2>1. ws # NULL
    BY ClassesAreDisjoint
  <2> QED
    BY <2>1 DEF P!OnWs, IInv, Whole, Grounds
<1> QED
  BY <1>4, <1>5 DEF s

LEMMA MadeRefocuses ==
  ASSUME NEW s, NEW ws, NEW cf, Makes(s, ws, cf), Steps(s, wm')
  PROVE  Refocuses(wm, wm')
BY DEF Makes, Steps, Attends, Refocuses

LEMMA FinishWorkspaceSound ==
  ASSUME IInv, NEW f \in Frame, NEW ws \in Ws, NEW cf \in Frame, FinishWorkspace(f, ws, cf)
  PROVE  StepSound
<1>1. Same /\ job = NoJob /\ ~inSeq /\ Prepares(Answered(f)) /\ Finishing(f)
  BY FinishingFacts DEF FinishWorkspace
<1>2. CASE cf \in FramesOf(wm, ws) /\ wm' = SwitchWorkspace(Answered(f), ws, cf)
  BY <1>1, <1>2, SwitchedWsSound DEF FramesOf
<1>3. CASE /\ ws \notin ToSet(wm.workspaces) /\ ~IsLiveFrame(wm, cf)
           /\ wm' = SwitchWorkspace(CreateWorkspace(Answered(f), ws, cf), ws, cf)
  <2> DEFINE s == CreateWorkspace(Answered(f), ws, cf)
  <2>1. wm.wsOf[cf] = NULL
    BY <1>3 DEF IsLiveFrame
  <2>2. Makes(s, ws, cf) /\ P!OnWs(ws) = {} /\ wm' = SwitchWorkspace(s, ws, cf)
    BY <1>1, <1>3, <2>1, CreateAnswered
  <2> HIDE DEF s
  <2>3. /\ Steps(s, wm') /\ wm'.frameOf = s.frameOf /\ wm'.cur = s.cur
        /\ wm'.wsOf = s.wsOf /\ wm'.curws = ws
    <3>1. Whole(s) /\ s.wsOf[cf] = ws
      BY <2>2 DEF Makes
    <3> QED
      BY <2>2, <3>1, SwitchWorkspaceWhole
  <2>4. P!Found(ws, cf)
    BY <2>1, <2>2, <2>3 DEF P!Found, P!Frames, Makes
  <2>5. [P!Next]_(P!vars)
    BY <2>4 DEF P!Next
  <2> QED
    BY <1>1, <2>2, <2>3, <2>5, MadeRefocuses, KeepsStepSound DEF Makes, Steps
<1> QED
  BY <1>2, <1>3 DEF FinishWorkspace

\* The client is attached to frame cf, and then the frame and the client are gone to.
TakenTo(s, cf, c) == GotoClient(AttachClient(s, cf, c, TRUE), c, cf)

LEMMA TakeToWhole ==
  ASSUME NEW s, Whole(s), NEW cf \in Frame, s.wsOf[cf] # NULL,
         NEW c \in Client, c \in ToSet(s.list)
  PROVE  LET r == TakenTo(s, cf, c) IN
         /\ Steps(s, r) /\ r.wsOf = s.wsOf /\ r.curws = s.wsOf[cf] /\ r.cur[cf] = c
         /\ Puts(s, r, c, cf)
<1> DEFINE a == AttachClient(s, cf, c, TRUE)
           r == GotoClient(a, c, cf)
<1>1. /\ Steps(s, a) /\ Moves(s, a) /\ a.frameOf = [s.frameOf EXCEPT ![c] = cf]
      /\ (s.frameOf[c] = cf => a = s)
      /\ (s.frameOf[c] # cf => Puts(s, a, c, cf))
  BY ZenonT(30), AttachPlacedWhole
<1> HIDE DEF a
<1>2. s.frameOf \in [Client -> Frame \cup {NULL}] /\ c # NULL
  BY ClassesAreDisjoint DEF Whole, State
<1>3. /\ Whole(a) /\ a.wsOf = s.wsOf /\ c \in ToSet(a.list) /\ a.frameOf[c] = cf
      /\ a.cur \in [Frame -> Client \cup {NULL}]
  BY <1>1, <1>2 DEF Steps, Moves, SameThings, Whole, State
<1>4. /\ Steps(a, r) /\ r.frameOf = a.frameOf /\ r.wsOf = a.wsOf
      /\ r.cur = [a.cur EXCEPT ![cf] = c] /\ r.curws = a.wsOf[cf]
  <2>1. /\ Steps(a, r) /\ r.frameOf = a.frameOf /\ r.wsOf = a.wsOf
        /\ r.cur = [a.cur EXCEPT ![a.frameOf[c]] = c] /\ r.curws = a.wsOf[a.frameOf[c]]
    BY <1>3, GotoClientWhole
  <2> QED
    BY <1>3, <2>1
<1> HIDE DEF r
<1>5. Steps(s, r)
  BY <1>1, <1>4, StepsTransitive
<1>6. r.cur[cf] = c /\ \A g \in Frame \ {cf} : r.cur[g] = a.cur[g]
  BY <1>3, <1>4
<1>7. Puts(s, r, c, cf)
  <2>1. CASE s.frameOf[c] = cf
    <3>1. a = s
      BY <1>1, <2>1
    <3>2. \A g \in Frame \ {cf} : s.cur[g] # c
      BY <1>2, <2>1 DEF Whole, Clients, OwnCurrents
    <3> QED
      BY <1>1, <1>2, <1>4, <1>6, <3>1, <3>2 DEF Puts
  <2>2. CASE s.frameOf[c] # cf
    BY <1>1, <1>2, <1>4, <1>6, <2>2 DEF Puts
  <2> QED
    BY <2>1, <2>2
<1> QED
  BY <1>3, <1>4, <1>5, <1>6, <1>7 DEF r, a, TakenTo

LEMMA TakenToSound ==
  ASSUME IInv, Same, job = NoJob, NEW s, NEW ws \in Ws, NEW cf \in Frame,
         NEW c \in Client, c \in ToSet(s.list),
         Makes(s, ws, cf), wm.wsOf[cf] = ws \/ (P!OnWs(ws) = {} /\ wm.wsOf[cf] = NULL),
         wm' = TakenTo(s, cf, c)
  PROVE  StepSound
<1>1. /\ Whole(s) /\ ws # NULL /\ s.wsOf[cf] = ws /\ s.frameOf = wm.frameOf /\ s.cur = wm.cur
      /\ s.wsOf = [wm.wsOf EXCEPT ![cf] = ws] /\ s.frameOf[c] # NULL
  <2>1. Whole(s) /\ s.wsOf = [wm.wsOf EXCEPT ![cf] = ws] /\ s.wsOf[cf] = ws
        /\ s.frameOf = wm.frameOf /\ s.cur = wm.cur
    BY DEF Makes
  <2>2. s.frameOf[c] # NULL
    BY <2>1 DEF Whole, Listed
  <2> QED
    BY <2>1, <2>2, ClassesAreDisjoint
<1>2. /\ Steps(s, wm') /\ wm'.wsOf = s.wsOf /\ wm'.curws = ws /\ wm'.cur[cf] = c
      /\ Puts(s, wm', c, cf)
  <2> DEFINE r == TakenTo(s, cf, c)
  <2>1. Whole(s) /\ s.wsOf[cf] # NULL /\ s.wsOf[cf] = ws
    BY <1>1
  <2>2. /\ Steps(s, r) /\ r.wsOf = s.wsOf /\ r.curws = s.wsOf[cf] /\ r.cur[cf] = c
        /\ Puts(s, r, c, cf)
    BY <2>1, TakeToWhole
  <2>3. wm' = r
    OBVIOUS
  <2> HIDE DEF r
  <2> QED
    BY <2>1, <2>2, <2>3
<1>3. wm' \in State
  BY <1>2 DEF Steps, Whole
<1>4. Puts(wm, wm', c, cf)
  <2>1. \A g \in Frame : Others(s, g, c) = Others(wm, g, c)
    BY <1>1 DEF Others
  <2> QED
    BY <1>1, <1>2, <2>1 DEF Puts
<1>5. [P!Next]_(P!vars)
  <2>1. P!Put(c, cf)
    BY <1>3, <1>4, PlacesPut
  <2>2. wm'.wsOf = [wm.wsOf EXCEPT ![cf] = ws]
    BY <1>1, <1>2
  <2>3. wm'.wsOf = wm.wsOf \/ (P!OnWs(ws) = {} /\ cf \notin P!Frames)
    <3>1. wm.wsOf \in [Frame -> Ws \cup {NULL}]
      BY DEF IInv, Whole, State
    <3> QED
      BY <2>2, <3>1 DEF P!Frames
  <2>4. P!TakeTo(c, ws, cf)
    BY <1>1, <1>2, <2>1, <2>2, <2>3 DEF P!TakeTo
  <2> QED
    BY <2>4 DEF P!Next
<1> QED
  BY <1>2, <1>5, MadeRefocuses, KeepsStepSound DEF Makes, Steps

LEMMA FinishWorkspaceWithSound ==
  ASSUME IInv, NEW f \in Frame, NEW c \in Client, NEW ws \in Ws, NEW cf \in Frame,
         FinishWorkspaceWith(f, c, ws, cf)
  PROVE  StepSound
<1>1. /\ Same /\ job = NoJob /\ Prepares(Answered(f)) /\ Finishing(f) /\ c \in ToSet(wm.list)
      /\ Answered(f).list = wm.list
  BY FinishingFacts DEF FinishWorkspaceWith, IsLiveClient
<1>2. CASE /\ cf \in FramesOf(wm, ws)
           /\ wm' = GotoClient(AttachClient(Answered(f), cf, c, TRUE), c, cf)
  <2> DEFINE s == Answered(f)
  <2>1. wm.wsOf[cf] = ws /\ wm.wsOf \in [Frame -> Ws \cup {NULL}]
    BY <1>2 DEF FramesOf, IInv, Whole, State
  <2>2. /\ Prepares(s) /\ s.list = wm.list
        /\ wm' = TakenTo(s, cf, c)
    BY <1>1, <1>2 DEF TakenTo
  <2> HIDE DEF s
  <2>3. Makes(s, ws, cf)
    BY <2>1, <2>2 DEF Makes, Prepares, SamePlaces
  <2> QED
    BY <1>1, <2>1, <2>2, <2>3, TakenToSound
<1>3. CASE /\ ws \notin ToSet(wm.workspaces) /\ ~IsLiveFrame(wm, cf)
           /\ wm' = GotoClient(AttachClient(CreateWorkspace(Answered(f), ws, cf), cf, c, TRUE),
                               c, cf)
  <2> DEFINE s == CreateWorkspace(Answered(f), ws, cf)
  <2>1. wm.wsOf[cf] = NULL
    BY <1>3 DEF IsLiveFrame
  <2>2. /\ Makes(s, ws, cf) /\ P!OnWs(ws) = {}
        /\ wm' = TakenTo(s, cf, c)
    BY <1>1, <1>3, <2>1, CreateAnswered DEF TakenTo
  <2> HIDE DEF s
  <2>3. c \in ToSet(s.list)
    BY <1>1, <2>2 DEF Makes
  <2> QED
    BY <1>1, <2>1, <2>2, <2>3, TakenToSound
<1> QED
  BY <1>2, <1>3 DEF FinishWorkspaceWith

LEMMA AnswerSound ==
  ASSUME IInv, Answer
  PROVE  StepSound
BY InputCancelSound, FinishComplaintSound, FinishFunctionSound, FinishAttachSound,
   FinishGotoSound, FinishWorkspaceSound, FinishWorkspaceWithSound DEF Answer

-----------------------------------------------------------------------------
(* The theorems. *)

LEMMA InitSound == Init => IInv /\ P!Init
<1> SUFFICES ASSUME Init PROVE IInv /\ P!Init
  OBVIOUS
<1>1. PICK ws \in Ws, f \in Frame :
     wm = [clientOf   |-> [w \in Win |-> NULL],
           frameOf    |-> [c \in Client |-> NULL],
           wsOf       |-> [g \in Frame |-> IF g = f THEN ws ELSE NULL],
           wins       |-> [c \in Client |-> <<>>],
           clients    |-> [g \in Frame |-> <<>>],
           workspaces |-> <<ws>>,
           list       |-> <<>>,
           tagged     |-> {},
           cur        |-> [g \in Frame |-> NULL],
           count      |-> [g \in Frame |-> 0],
           input      |-> [g \in Frame |-> NULL],
           state      |-> [w \in Win |-> "Withdrawn"],
           mapped     |-> {f},
           curws      |-> ws,
           wswin      |-> f,
           prev       |-> NULL,
           protect    |-> 0,
           fnext      |-> NULL,
           fthing     |-> NULL,
           fframe     |-> NULL]
  BY DEF Init
<1>2. TypeOK /\ wm \in State /\ inSeq = FALSE /\ job = NoJob
  BY InitTypeOK DEF TypeOK, Init
<1>3. ws # NULL /\ f # NULL /\ NULL # Screen /\ \A g \in Frame : NULL # Input(g)
  BY ClassesAreDisjoint, InputsAreApart DEF Inputs
<1>4. /\ \A w \in Win : wm.clientOf[w] = NULL /\ wm.state[w] = "Withdrawn"
      /\ \A c \in Client : wm.frameOf[c] = NULL /\ wm.wins[c] = <<>>
      /\ \A g \in Frame : wm.cur[g] = NULL /\ wm.clients[g] = <<>> /\ wm.count[g] = 0
                          /\ wm.input[g] = NULL /\ wm.wsOf[g] = IF g = f THEN ws ELSE NULL
      /\ wm.workspaces = <<ws>> /\ wm.list = <<>> /\ wm.tagged = {} /\ wm.mapped = {f}
      /\ wm.curws = ws /\ wm.wswin = f /\ wm.protect = 0
      /\ wm.fnext = NULL /\ wm.prev = NULL /\ wm.fthing = NULL /\ wm.fframe = NULL
  BY <1>1
<1>5. P!Init
  <2>1. /\ wm.frameOf = [c \in Client |-> NULL] /\ wm.cur = [g \in Frame |-> NULL]
        /\ wm.wsOf = [g \in Frame |-> IF g = f THEN ws ELSE NULL] /\ wm.curws = ws
    BY <1>1
  <2> QED
    BY <2>1 DEF P!Init
<1>6. \A S : ToSet(<<>>) = {} /\ IsInjective(<<>>) /\ Len(<<>>) = 0
  <2>1. <<>> \in Seq({})
    OBVIOUS
  <2> QED
    BY <2>1, ElementFacts
<1>7. ToSet(<<ws>>) = {ws} /\ IsInjective(<<ws>>)
  <2> DEFINE q == <<ws>>
  <2>1. q \in Seq({ws}) /\ Len(q) = 1 /\ q[1] = ws
    OBVIOUS
  <2> HIDE DEF q
  <2>2. ToSet(q) \subseteq {ws} /\ q[1] \in ToSet(q)
    BY <2>1, ElementFacts
  <2>3. IsInjective(q)
    BY <2>1, ElementFacts
  <2> QED
    BY <2>1, <2>2, <2>3 DEF q
<1>8. Clients(wm)
  <2>1. FrameLinks(wm) /\ OwnCurrents(wm) /\ SomeCurrents(wm) /\ Members(wm)
    <3>1. ASSUME NEW g \in Frame
          PROVE  /\ IsInjective(wm.clients[g]) /\ wm.count[g] = Len(wm.clients[g])
                 /\ ToSet(wm.clients[g]) = {c \in Client : wm.frameOf[c] = g}
      <4>1. {c \in Client : wm.frameOf[c] = g} = {}
        BY <1>4, NoFrameIsInput
      <4> QED
        BY <1>4, <1>6, <4>1
    <3> QED
      BY <1>4, <3>1 DEF FrameLinks, OwnCurrents, SomeCurrents, Members
  <2>2. ASSUME NEW c \in Client
        PROVE  IsInjective(wm.wins[c]) /\ ToSet(wm.wins[c]) = {w \in Win : wm.clientOf[w] = c}
    <3>1. c # NULL
      BY ClassesAreDisjoint
    <3>2. {w \in Win : wm.clientOf[w] = c} = {}
      BY <1>4, <3>1
    <3> QED
      BY <1>4, <1>6, <3>2
  <2> QED
    BY <2>1, <2>2 DEF Clients, WinLinks
<1>9. ShownBut(wm, {}) /\ Listed(wm, {})
  BY <1>4, <1>6 DEF ShownBut, Listed
<1>10. Grounds(wm) /\ Pointers(wm)
  BY <1>3, <1>4, <1>7 DEF Grounds, Pointers, Names, FramesOf
<1> QED
  BY <1>2, <1>4, <1>5, <1>8, <1>9, <1>10 DEF IInv, Whole, JobSound, NoJob

LEMMA NextSound ==
  ASSUME IInv, [Next]_vars
  PROVE  IInv' /\ Refocuses(wm, wm') /\ [P!Next]_(P!vars)
<1>1. TypeOK'
  <2>1. CASE Next
    BY <2>1, XEventTypeOK, CommandTypeOK, AnswerTypeOK DEF Next, IInv
  <2>2. CASE UNCHANGED vars
    BY <2>2 DEF vars, TypeOK, NoJob, IInv
  <2> QED
    BY <2>1, <2>2
<1>2. StepSound
  <2>1. CASE Next
    BY <2>1, XEventSound, CommandSound, AnswerSound DEF Next
  <2>2. CASE UNCHANGED vars
    <3>1. wm' = wm /\ inSeq' = inSeq /\ job' = job
      BY <2>2 DEF vars
    <3>2. SamePlaces(wm, wm')
      BY <3>1 DEF SamePlaces
    <3> QED
      BY <3>1, <3>2, PlacesStay, RefocusFacts DEF StepSound, IInv, JobSound
  <2> QED
    BY <2>1, <2>2
<1> QED
  BY <1>1, <1>2 DEF StepSound, IInv

LEMMA Inductive == Spec => []IInv
<1>1. Init => IInv
  BY InitSound
<1>2. IInv /\ [Next]_vars => IInv'
  BY NextSound
<1> QED
  BY <1>1, <1>2, PTL DEF Spec

LEMMA WholeIsConsistent == IInv => TreeConsistent
<1> SUFFICES ASSUME IInv PROVE TreeConsistent
  OBVIOUS
<1>1. wm \in State /\ Clients(wm) /\ Listed(wm, {}) /\ Grounds(wm)
  BY DEF IInv, Whole
<1>2. ASSUME NEW c \in Client
      PROVE  /\ IsInjective(wm.wins[c])
             /\ ToSet(wm.wins[c]) = {w \in Win : wm.clientOf[w] = c}
             /\ IsLiveClient(wm, c) <=> wm.wins[c] # <<>>
             /\ IsLiveClient(wm, c) <=> IsLiveFrame(wm, wm.frameOf[c])
  <2>1. wm.frameOf[c] \in Frame \cup {NULL} /\ NULL \notin Frame
    BY <1>1, ClassesAreDisjoint DEF State
  <2>2. IsLiveClient(wm, c) <=> wm.frameOf[c] # NULL
    BY <1>1 DEF IsLiveClient, Listed, Clients, Members
  <2>3. IsLiveFrame(wm, wm.frameOf[c]) <=> wm.frameOf[c] # NULL
    BY <1>1, <2>1 DEF IsLiveFrame, Clients, Members
  <2>4. IsLiveClient(wm, c) <=> wm.wins[c] # <<>>
    BY <1>1 DEF IsLiveClient, Listed
  <2> QED
    BY <1>1, <2>2, <2>3, <2>4 DEF Clients, WinLinks
<1>3. ASSUME NEW f \in Frame
      PROVE  /\ IsInjective(wm.clients[f])
             /\ ToSet(wm.clients[f]) = {c \in Client : wm.frameOf[c] = f}
             /\ IsLiveFrame(wm, f) \/ (wm.clients[f] = <<>> /\ wm.input[f] = NULL)
             /\ wm.count[f] = Len(wm.clients[f])
             /\ IF wm.clients[f] = <<>> THEN wm.cur[f] = NULL
                ELSE wm.cur[f] \in ToSet(wm.clients[f])
  <2>1. IsLiveFrame(wm, f) \/ (wm.clients[f] = <<>> /\ wm.input[f] = NULL)
    BY <1>1, UsedFramesLive DEF IsLiveFrame, Grounds
  <2>2. wm.cur[f] \in Client \cup {NULL}
    BY <1>1 DEF State
  <2>3. wm.clients[f] = <<>> => wm.cur[f] = NULL
    BY <1>1, <2>2, UsedFramesLive DEF Clients, OwnCurrents
  <2>4. wm.clients[f] # <<>> => wm.cur[f] \in ToSet(wm.clients[f])
    BY <1>1, <2>2 DEF Clients, OwnCurrents, SomeCurrents, FrameLinks
  <2> QED
    BY <1>1, <2>1, <2>3, <2>4 DEF Clients, FrameLinks
<1>4. ThingsLinked
  BY <1>1, <1>2, <1>3 DEF ThingsLinked, Grounds, Listed
<1> QED
  BY <1>3, <1>4 DEF TreeConsistent, CurrentIsChild, CountMatches

LEMMA WholeIsShown == IInv => ExactlyCurrentShown
<1> SUFFICES ASSUME IInv PROVE ExactlyCurrentShown
  OBVIOUS
<1>1. wm \in State /\ Clients(wm) /\ ShownBut(wm, {}) /\ Grounds(wm)
  BY DEF IInv, Whole
<1>2. ASSUME NEW w \in Win, wm.clientOf[w] # NULL
      PROVE  IsCurrent(wm, wm.clientOf[w]) <=> wm.cur[FrameOf(wm, w)] = wm.clientOf[w]
  <2> DEFINE c == wm.clientOf[w]
  <2>1. c \in Client /\ c # NULL
    BY <1>1, <1>2 DEF State
  <2>2. FrameOf(wm, w) = wm.frameOf[c]
    <3>1. w \notin Frame \cup Inputs \cup Client
      BY ClassesAreDisjoint, InputsAreApart
    <3> QED
      BY <1>2, <3>1 DEF FrameOf
  <2>3. wm.frameOf[c] \in Frame
    <3>1. wm.wins[c] \in Seq(Win) /\ w \in ToSet(wm.wins[c])
      BY <1>1, <2>1 DEF Clients, WinLinks, State
    <3>2. wm.wins[c] # <<>>
      BY <3>1, ElementFacts
    <3> QED
      BY <1>1, <2>1, <3>2 DEF IInv, Whole, Listed, State
  <2> HIDE DEF c
  <2>4. IsCurrent(wm, c) <=> wm.cur[wm.frameOf[c]] = c
    BY <1>1, <2>1, <2>3 DEF IsCurrent, Clients, OwnCurrents
  <2> QED
    BY <2>2, <2>4 DEF c
<1>3. ClientsShown
  BY <1>1, <1>2 DEF ClientsShown, ShownBut
<1> QED
  BY <1>1, <1>3 DEF ExactlyCurrentShown, FramesMappedIffVisible, Grounds

LEMMA WholeIsPointed == IInv => PointersSound
<1> SUFFICES ASSUME IInv PROVE PointersSound
  OBVIOUS
<1>1. wm \in State /\ Whole(wm) /\ Pointers(wm)
  BY DEF IInv, Whole
<1>2. /\ wm.fnext \in Things \cup {NULL} /\ wm.prev \in Things \cup {NULL}
      /\ wm.fthing \in Things \cup {NULL} /\ wm.fframe \in Frame \cup {NULL}
      /\ wm.wswin \in Frame \cup {NULL} /\ Frame \subseteq Things
  BY <1>1 DEF State, Things
<1>3. wm.wswin # NULL => Alive(wm, wm.wswin)
  BY <1>1, ActiveIsAlive
<1>4. NoDanglingPointers
  BY <1>1, <1>2, <1>3 DEF NoDanglingPointers, Pointers, Names
<1>5. FunctionThingLive
  BY <1>1, <1>2 DEF FunctionThingLive, Pointers, Names, IInv
<1>6. ActiveFrameVisible /\ PreviousUnprotected
  BY <1>1 DEF ActiveFrameVisible, PreviousUnprotected, Pointers, IInv
<1> QED
  BY <1>4, <1>5, <1>6 DEF PointersSound

\* The links between windows, clients, frames and workspaces, the current clients and the
\* counts agree after every handler, however many trees it has taken apart on the way
\* (thing.c, client.c, frame.c, workspace.c).
THEOREM TreeCorrect == Spec => []TreeConsistent
BY Inductive, WholeIsConsistent, PTL

\* The windows that are shown, and the frames that are mapped, are those of the current
\* clients and of the current workspace (frame_switch_client, switch_workspace).
THEOREM ShownCorrect == Spec => []ExactlyCurrentShown
BY Inductive, WholeIsShown, PTL

\* No pointer that outlives a handler names a thing that the handler has destroyed, and a
\* command sequence always has a thing to go on with (do_destroy_thing, query.c).
THEOREM PointersCorrect == Spec => []PointersSound
BY Inductive, WholeIsPointed, PTL

\* Whatever makes the active frame show another client also sets the focus, so that the
\* keyboard does not stay with a hidden window (do_frame_switch_client).
THEOREM FocusFollows == Spec => NewClientGetsFocus
<1>1. IInv /\ [Next]_vars =>
        [\A f \in Frame :
           /\ wm.wswin = f /\ wm'.wswin = f
           /\ wm'.cur[f] \notin {NULL, wm.cur[f]}
           /\ wm'.input[f] = NULL
           => wm'.fnext # NULL]_vars
  BY NextSound DEF Refocuses
<1> QED
  BY <1>1, Inductive, PTL DEF Spec, NewClientGetsFocus

\* The window manager implements Placement: every step of a handler or of one of its loops
\* is a step of Placement, or leaves clients and frames where they are.
THEOREM ImplementsPlacement == Spec => KeepsPlacement
<1>1. Init => P!Init
  BY InitSound
<1>2. IInv /\ [Next]_vars => [P!Next]_(P!vars)
  BY NextSound
<1> QED
  BY <1>1, <1>2, Inductive, PTL DEF Spec, KeepsPlacement, P!Spec

==============================================================================
