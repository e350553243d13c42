------------------------------ MODULE ThingTree ------------------------------
(***************************************************************************)
(* The tree of "things" Ion manages on one screen -- workspaces, frames,   *)
(* clients and client windows -- and the global pointers into that tree:   *)
(* the active frame, the previously active thing, the thing to focus next  *)
(* and the thing a running command sequence operates on.                   *)
(*                                                                         *)
(* Ion is single threaded.  What makes the tree hard is that one handler   *)
(* calls many others on the way: destroying a client window removes it     *)
(* from its client, which may focus a sibling, destroys the client when it *)
(* is left empty, which detaches it from its frame, which shows and        *)
(* focuses another client.  So the whole state is one record, wm, and      *)
(* every C function that changes it is an operator from records to         *)
(* records; a handler composes these operators in the order the code makes *)
(* its calls.  The two loops over clients (move_clients, do_attach_tagged) *)
(* run one iteration per step, with job naming the loop in progress.       *)
(*                                                                         *)
(* Abstracted: geometry and the split tree (a workspace has a set of       *)
(* frames, and the choices the tree makes -- the current frame, the sister *)
(* frame, the neighbour in a direction -- are made by \E), drawing, names, *)
(* and the X server, whose events arrive in any order for windows on the   *)
(* visible workspace.                                                      *)
(***************************************************************************)
EXTENDS Integers, SequencesExt

CONSTANTS
  Win,      \* client windows of the X server
  Client,   \* WClient objects
  Frame,    \* WFrame objects
  Ws,       \* WWorkspace objects
  Screen,   \* the one WScreen
  NULL

\* Things of different classes are different objects, and NULL is none.
ASSUME ClassesAreDisjoint ==
  /\ Win \cap Client = {} /\ Win \cap Frame = {} /\ Win \cap Ws = {}
  /\ Client \cap Frame = {} /\ Client \cap Ws = {} /\ Frame \cap Ws = {}
  /\ {Screen, NULL} \cap (Win \cup Client \cup Frame \cup Ws) = {}
  /\ Screen # NULL

\* A frame has at most one input (a query or a message): its current_input.
Input(f) == <<"input", f>>
Inputs   == {Input(f) : f \in Frame}

ASSUME InputsAreApart ==
  /\ Inputs \cap (Win \cup Client \cup Frame \cup Ws \cup {Screen, NULL}) = {}
  /\ NULL \notin {"query", "message"}

Things == Win \cup Client \cup Frame \cup Ws \cup Inputs \cup {Screen}

\* The record all operators below work on.  The first six fields are the tree
\* (t_parent and t_children, by class); workspaces and list are in link order.
State ==
  [clientOf   : [Win -> Client \cup {NULL}],       \* t_parent of a client window
   frameOf    : [Client -> Frame \cup {NULL}],     \* t_parent of a client
   wsOf       : [Frame -> Ws \cup {NULL}],         \* t_parent of a frame
   wins       : [Client -> Seq(Win)],              \* t_children of a client
   clients    : [Frame -> Seq(Client)],            \* t_children of a frame
   workspaces : Seq(Ws),                           \* t_children of the screen
   list       : Seq(Client),                       \* wglobal.client_list
   tagged     : SUBSET Client,                     \* CLIENT_TAGGED
   cur        : [Frame -> Client \cup {NULL}],     \* current_client
   count      : [Frame -> Int],                    \* client_count
   input      : [Frame -> {NULL, "query", "message"}],
   state      : [Win -> {"Normal", "Iconic", "Withdrawn"}],
   mapped     : SUBSET Frame,                      \* WWINDOW_MAPPED
   curws      : Ws \cup {NULL},                    \* current_workspace
   wswin      : Frame \cup {NULL},                 \* current_wswindow
   prev       : Things \cup {NULL},                \* previous
   protect    : Int,                               \* previous_protect
   fnext      : Things \cup {NULL},                \* focus_next
   fthing     : Things \cup {NULL},                \* function_thing
   fframe     : Frame \cup {NULL}]                 \* function_frame

-----------------------------------------------------------------------------
(* Queries on the tree. *)

IsLiveFrame(s, f)  == f \in Frame /\ s.wsOf[f] # NULL
IsLiveClient(s, c) == c \in ToSet(s.list)
IsManaged(s, w)    == w \in Win /\ s.clientOf[w] # NULL

FramesOf(s, ws) == {f \in Frame : s.wsOf[f] = ws}

\* find_parent(t, WFrame): the frame a thing is or is in.
FrameOf(s, t) ==
  CASE t \in Frame                        -> t
    [] t \in Inputs                       -> CHOOSE f \in Frame : t = Input(f)
    [] t \in Client                       -> s.frameOf[t]
    [] t \in Win /\ s.clientOf[t] # NULL  -> s.frameOf[s.clientOf[t]]
    [] OTHER                              -> NULL

WorkspaceOf(s, t) ==
  CASE t \in Ws                 -> t
    [] FrameOf(s, t) \in Frame  -> s.wsOf[FrameOf(s, t)]
    [] OTHER                    -> NULL

OnVisibleWorkspace(s, t) == t = Screen \/ (WorkspaceOf(s, t) # NULL /\ WorkspaceOf(s, t) = s.curws)

\* A thing that has not been destroyed.
Alive(s, t) ==
  \/ t = Screen
  \/ t \in ToSet(s.workspaces)
  \/ IsLiveFrame(s, t)
  \/ IsLiveClient(s, t)
  \/ IsManaged(s, t)
  \/ \E f \in Frame : t = Input(f) /\ s.input[f] # NULL

-----------------------------------------------------------------------------
(* thing.c: lists of things without duplicates. *)

Unlink(q, e) ==
  IF \E i \in 1..Len(q) : q[i] = e
  THEN LET i == CHOOSE i \in 1..Len(q) : q[i] = e
       IN  SubSeq(q, 1, i - 1) \o SubSeq(q, i + 1, Len(q))
  ELSE q

\* link_thing_after when there is an e, link_thing otherwise.
LinkAfter(q, e, x) ==
  IF \E i \in 1..Len(q) : q[i] = e
  THEN LET i == CHOOSE i \in 1..Len(q) : q[i] = e
       IN  Append(SubSeq(q, 1, i), x) \o SubSeq(q, i + 1, Len(q))
  ELSE Append(q, x)

NextThing(q, e) ==
  IF \E i \in 1..(Len(q) - 1) : q[i] = e
  THEN q[(CHOOSE i \in 1..(Len(q) - 1) : q[i] = e) + 1]
  ELSE NULL

PrevThing(q, e) ==
  IF \E i \in 2..Len(q) : q[i] = e
  THEN q[(CHOOSE i \in 2..Len(q) : q[i] = e) - 1]
  ELSE NULL

-----------------------------------------------------------------------------
(* focus.c: the pointers. *)

SetFocus(s, t) == [s EXCEPT !.fnext = t, !.fthing = t]

CurrentClientOrFrame(s) ==
  IF s.wswin # NULL /\ s.cur[s.wswin] # NULL THEN s.cur[s.wswin] ELSE s.wswin

SetPrevious(s, t) ==
  IF s.protect # 0 \/ s.wswin = NULL \/ t = CurrentClientOrFrame(s) \/ t = s.wswin
  THEN s
  ELSE [s EXCEPT !.prev = CurrentClientOrFrame(s)]

Protect(s)   == [s EXCEPT !.protect = @ + 1]
Unprotect(s) == [s EXCEPT !.protect = @ - 1]

\* The head and the tail of do_destroy_thing: no pointer may keep naming t.
ForgetFunctionThingOnly(s, t, p) == [s EXCEPT !.fthing = IF @ = t THEN p ELSE @]  \* mutant

CheckFunctionThing(s, t, p) ==
  [s EXCEPT !.fthing = IF @ = t THEN p ELSE @,
            !.fframe = IF @ = t THEN NULL ELSE @]

ForgetThing(s, t, p) ==
  [s EXCEPT !.fnext = IF @ = t THEN NULL ELSE @,
            !.prev  = IF @ = t THEN p ELSE @]

-----------------------------------------------------------------------------
(* clientwin.c, client.c: showing and hiding. *)

SetState(s, W, st) == [s EXCEPT !.state = [w \in Win |-> IF w \in W THEN st ELSE @[w]]]

ShowClient(s, c) == SetState(s, ToSet(s.wins[c]), "Normal")
HideClient(s, c) == SetState(s, ToSet(s.wins[c]), "Iconic")

-----------------------------------------------------------------------------
(* frame.c: switching, attaching and detaching clients. *)

\* Mutant: the active frame is not told apart.
DoFrameSwitchClientUnfocused(s, f, c) ==
  LET shown == ShowClient(s, c)
  IN  [IF s.cur[f] # NULL THEN HideClient(shown, s.cur[f]) ELSE shown EXCEPT !.cur[f] = c]

DoFrameSwitchClient(s, f, c) ==
  LET shown  == ShowClient(s, c)
      hidden == IF s.cur[f] # NULL THEN HideClient(shown, s.cur[f]) ELSE shown
      focus  == IF s.input[f] = NULL /\ s.wswin = f
                THEN SetFocus(SetPrevious(hidden, c), c)
                ELSE hidden
  IN  [focus EXCEPT !.cur[f] = c]

\* Mutant: switching to the current client shows and then hides it.
FrameSwitchClientAlways(s, f, c) == DoFrameSwitchClient(s, f, c)

FrameSwitchClient(s, f, c) == IF c # s.cur[f] THEN DoFrameSwitchClient(s, f, c) ELSE s

\* The client after (before) the current one, or the first (last).
FrameSwitchNext(s, f) ==
  LET next == NextThing(s.clients[f], s.cur[f]) IN
  IF s.clients[f] = <<>> THEN s
  ELSE FrameSwitchClient(s, f, IF next # NULL THEN next ELSE Head(s.clients[f]))

FrameSwitchPrev(s, f) ==
  LET prev == PrevThing(s.clients[f], s.cur[f]) IN
  IF s.clients[f] = <<>> THEN s
  ELSE FrameSwitchClient(s, f, IF prev # NULL THEN prev ELSE Last(s.clients[f]))

\* Mutant: the successor is looked for on one side only.
PreviousOnly(q, c) == PrevThing(q, c)

\* The client that becomes current when the current one leaves.
Successor(q, c) == IF PrevThing(q, c) # NULL THEN PrevThing(q, c) ELSE NextThing(q, c)

UnlinkClient(s, f, c) ==
  [s EXCEPT !.cur[f]     = IF @ = c THEN NULL ELSE @,
            !.clients[f] = Unlink(@, c),
            !.frameOf[c] = NULL,
            !.count[f]   = @ - 1]

DetachClient(s, f, c) ==
  LET next == IF s.cur[f] = c THEN Successor(s.clients[f], c) ELSE NULL
      out  == UnlinkClient(s, f, c)
  IN  IF next # NULL THEN DoFrameSwitchClient(out, f, next) ELSE out

\* After the current client, and counted.
LinkClient(s, f, c) ==
  [s EXCEPT !.clients[f] = LinkAfter(@, s.cur[f], c),
            !.frameOf[c] = f,
            !.count[f]   = @ + 1]

AttachClient(s, f, c, switchto) ==
  IF s.frameOf[c] = f THEN s
  ELSE
    LET d == IF s.frameOf[c] # NULL THEN DetachClient(s, s.frameOf[c], c) ELSE s
        l == LinkClient(d, f, c)
    IN  IF switchto \/ d.count[f] = 0 THEN DoFrameSwitchClient(l, f, c) ELSE HideClient(l, c)

-----------------------------------------------------------------------------
(* Inputs: query.c and input.c. *)

FrameSetInput(s, f, kind) ==
  IF s.input[f] # NULL THEN s
  ELSE LET i == [s EXCEPT !.input[f] = kind]
       IN  IF s.wswin = f THEN SetFocus(i, Input(f)) ELSE i

Fwarn(s, f) == FrameSetInput(s, f, "message")

DestroyInput(s, f) ==
  ForgetThing([CheckFunctionThing(s, Input(f), f) EXCEPT !.input[f] = NULL], Input(f), f)

-----------------------------------------------------------------------------
(* workspace.c: switching. *)

DoActivateWorkspace(s, ws) ==
  IF s.curws = ws THEN s
  ELSE [s EXCEPT !.curws  = ws,
                 !.mapped = (@ \cup FramesOf(s, ws))
                              \ (IF s.curws = NULL THEN {} ELSE FramesOf(s, s.curws))]

GotoWs(s, cf) == [SetFocus(SetPrevious(s, cf), cf) EXCEPT !.wswin = cf]

\* cf is the frame find_current(ws) reaches.
SwitchWorkspace(s, ws, cf) ==
  IF s.curws = ws THEN s ELSE GotoWs(DoActivateWorkspace(s, ws), cf)

\* create_workspace(.., TRUE): workspace ws with its initial frame f.
CreateWorkspace(s, ws, f) ==
  [s EXCEPT !.workspaces = Append(@, ws), !.wsOf[f] = ws]

-----------------------------------------------------------------------------
(* client.c: going to a frame, a client or the previous thing. *)

GotoWindow(s, f, cf) ==
  IF s.wswin = f \/ s.wsOf[f] = NULL THEN s
  ELSE LET p == Protect(SetPrevious(s, f))
           v == IF s.wsOf[f] = s.curws THEN p ELSE SwitchWorkspace(p, s.wsOf[f], cf)
       IN  Unprotect(SetFocus(v, f))

GotoClient(s, c, cf) ==
  LET f == s.frameOf[c]
      g == GotoWindow(Protect(SetPrevious(s, c)), f, cf)
  IN  IF f = NULL THEN s ELSE Unprotect(FrameSwitchClient(g, f, c))

-----------------------------------------------------------------------------
(* Adding and destroying. *)

\* client_add_clientwin and frame_add_clientwin.
ClientAddClientwin(s, c, w) ==
  LET f == s.frameOf[c]
      l == [s EXCEPT !.wins[c] = Append(@, w), !.clientOf[w] = c]
  IN  IF f = NULL THEN l
      ELSE SetState(l, {w}, IF s.cur[f] = c THEN "Normal" ELSE "Iconic")

\* do_destroy_thing on a window w of client c, with client_remove_child.
DoDestroyClientwin(s, c, w) ==
  LET f == s.frameOf[c]
      h == CheckFunctionThing(s, w, c)
      u == SetState([h EXCEPT !.wins[c] = Unlink(@, w), !.clientOf[w] = NULL],
                    {w}, "Withdrawn")
      r == IF f # NULL /\ s.wswin = f /\ s.cur[f] = c /\ u.wins[c] # <<>>
           THEN SetFocus(u, Last(u.wins[c])) ELSE u
  IN  ForgetThing(r, w, c)

\* do_destroy_thing on a client, with frame_remove_child and deinit_client.
DoDestroyClient(s, c) ==
  LET f == s.frameOf[c]
      h == CheckFunctionThing(s, c, f)
      d == IF f # NULL THEN DetachClient(h, f, c) ELSE h
  IN  ForgetThing([d EXCEPT !.list = Unlink(@, c), !.tagged = @ \ {c}], c, f)

\* destroy_thing on a client window: a client left empty goes with it.
DestroyClientwin(s, c, w) ==
  LET d == DoDestroyClientwin(s, c, w)
  IN  IF d.wins[c] = <<>> THEN DoDestroyClient(d, c) ELSE d

\* do_destroy_thing on a frame, with workspace_remove_child and deinit_frame.
DoDestroyFrame(s, f) ==
  LET ws == s.wsOf[f]
      h  == CheckFunctionThing(s, f, ws)
      i  == IF h.input[f] # NULL THEN DestroyInput(h, f) ELSE h
      u  == [i EXCEPT !.wsOf[f] = NULL,
                      !.mapped  = @ \ {f},
                      !.wswin   = IF @ = f THEN NULL ELSE @]
  IN  ForgetThing(u, f, ws)

\* do_destroy_thing on a workspace, with screen_remove_child.
DoDestroyWorkspace(s, ws, cf) ==
  LET h == CheckFunctionThing(s, ws, Screen)
      u == [h EXCEPT !.workspaces = Unlink(@, ws)]
      v == IF s.curws # ws THEN u
           ELSE IF u.workspaces = <<>> THEN [u EXCEPT !.curws = NULL]
           ELSE SwitchWorkspace([u EXCEPT !.curws = NULL], Head(u.workspaces), cf)
  IN  ForgetThing(v, ws, Screen)

\* destroy_thing on an empty frame: a workspace left empty goes with it.
DestroyFrame(s, f, cf) ==
  LET ws == s.wsOf[f]
      d  == DoDestroyFrame(s, f)
  IN  IF FramesOf(d, ws) = {} THEN DoDestroyWorkspace(d, ws, cf) ELSE d
=============================================================================
