---------------------------- MODULE WindowManager ----------------------------
(***************************************************************************)
(* Ion's event handlers and commands over the tree of module ThingTree.    *)
(*                                                                         *)
(* The main loop takes one X event, runs its handler, and then gives the   *)
(* input focus to focus_next (MainLoopFocus).  A handler may run several   *)
(* commands before that: the functions of a command sequence, or a press   *)
(* and a release binding inside the nested loop of the pointer handler.    *)
(* So X events are taken only when focus_next is NULL, and commands are    *)
(* not restricted.  The loops over clients (move_clients and               *)
(* do_attach_tagged) run one iteration per step; job names the loop, and   *)
(* nothing else happens until it ends.                                     *)
(***************************************************************************)
EXTENDS ThingTree

VARIABLES
  wm,       \* the tree, and the pointers of wglobal and query.c
  inSeq,    \* a command sequence is being executed (command_sq)
  job       \* the loop over clients in progress

vars == <<wm, inSeq, job>>

NoJob == [op |-> "none", from |-> NULL, to |-> NULL]

\* After init_workspaces: one workspace with one frame, which has the focus.
Init ==
  /\ \E ws \in Ws, f \in Frame :
       wm = [clientOf   |-> [w \in Win |-> NULL],
             frameOf    |-> [c \in Client |-> NULL],
             wsOf       |-> [g \in Frame |-> IF g = f THEN ws ELSE NULL],
             wins       |-> [c \in Client |-> <<>>],
             clients    |-> [g \in Frame |-> <<>>],
             workspaces |-> <<ws>>,
             list       |-> <<>>,
             tagged     |-> {},
             cur        |-> [g \in Frame |-> NULL],
             count      |-> [g \in Frame |-> 0],
             input      |-> [g \in Frame |-> NULL],
             state      |-> [w \in Win |-> "Withdrawn"],
             mapped     |-> {f},
             curws      |-> ws,
             wswin      |-> f,
             prev       |-> NULL,
             protect    |-> 0,
             fnext      |-> NULL,
             fthing     |-> NULL,
             fframe     |-> NULL]
  /\ inSeq = FALSE
  /\ job = NoJob

-----------------------------------------------------------------------------
(* The main loop. *)

Ready == job = NoJob /\ ~inSeq /\ wm.fnext = NULL

Same == UNCHANGED <<inSeq, job>>

\* kill_focusenter_events and do_set_focus.
MainLoopFocus ==
  /\ job = NoJob /\ ~inSeq /\ wm.fnext # NULL
  /\ wm' = [wm EXCEPT !.fnext  = NULL,
                      !.fthing = IF OnVisibleWorkspace(wm, wm.fnext) THEN wm.fnext ELSE @]
  /\ Same

-----------------------------------------------------------------------------
(* X events about client windows. *)

\* The window joins the client of the window it is transient for, or, with the
\* winprop "transient_mode current", the current client of the current frame.
TransientClients ==
  {wm.clientOf[w] : w \in Win} \cup {wm.cur[f] : f \in FramesOf(wm, wm.curws)}

\* manage_clientwin: the window may be found destroyed once it has been added.
Manage(w, c, added, disappeared) ==
  /\ Ready /\ ~IsManaged(wm, w)
  /\ wm' = IF disappeared THEN DestroyClientwin(added, c, w) ELSE added
  /\ Same

MapRequestTransient(w, c, disappeared) ==
  /\ c \in TransientClients \ {NULL}
  /\ Manage(w, c, ClientAddClientwin(wm, c, w), disappeared)

\* f is the frame the frame id property names or the current one.
MapRequest(w, c, f, switchto, disappeared) ==
  /\ ~IsLiveClient(wm, c)
  /\ IsLiveFrame(wm, f)
  /\ LET new == ClientAddClientwin([wm EXCEPT !.list = Append(@, c)], c, w)
     IN  Manage(w, c, AttachClient(new, f, c, switchto), disappeared)

\* UnmapNotify and DestroyNotify.
UnmapOrDestroyNotify(w) ==
  /\ Ready /\ IsManaged(wm, w)
  /\ wm' = DestroyClientwin(wm, wm.clientOf[w], w)
  /\ Same

\* The client asks for the iconic state: the frame shows its next client.
Iconify(w) ==
  /\ Ready /\ IsManaged(wm, w) /\ FrameOf(wm, w) # NULL
  /\ wm' = FrameSwitchNext(wm, FrameOf(wm, w))
  /\ Same

-----------------------------------------------------------------------------
(* Focus and pointer events, for windows on the visible workspace. *)

\* FocusIn on a frame, on its input or on a window of its current client.
\* handle_focus_in does not ask whether the window is still visible.  The guard
\* stands for mainloop: a handler that hides a frame leaves focus_next set, and
\* mainloop then drops every FocusIn that is queued (kill_focusenter_events), so
\* none comes for a frame hidden before.  Left out is one that was queued for a
\* client which an answer then moves to a frame that is hidden already
\* (handler_attachclient): it makes that frame the active one.
FocusIn(f) ==
  /\ Ready /\ f \in FramesOf(wm, wm.curws)
  /\ wm' = [wm EXCEPT !.wswin = f]
  /\ Same

\* FocusIn on the root window, or on an inactive frame when a grab ends.
RestoreFocus(cf) ==
  /\ Ready /\ cf \in FramesOf(wm, wm.curws)
  /\ wm' = SetFocus(wm, cf)
  /\ Same

EnterNotify(f) ==
  /\ Ready /\ f \in FramesOf(wm, wm.curws)
  /\ wm' = SetFocus(SetPrevious(wm, f), f)
  /\ Same

-----------------------------------------------------------------------------
(* Command sequences: each function runs on the thing the last one left. *)

\* A command bound to a key or a button, or one of a sequence, runs on frame f.
RunsOn(f) ==
  /\ job = NoJob
  /\ IsLiveFrame(wm, f)
  /\ inSeq => FrameOf(wm, wm.fthing) = f

\* A command that needs no thing; in a sequence function_thing must be set.
Runs == job = NoJob /\ (inSeq => wm.fthing # NULL)

BeginSequence(f) ==
  /\ ~inSeq /\ RunsOn(f)
  /\ wm' = [wm EXCEPT !.fthing = f]
  /\ inSeq' = TRUE /\ UNCHANGED job

\* handler_function complains about errors in the frame, if it is still there.
EndSequence(error) ==
  /\ inSeq /\ job = NoJob
  /\ LET e == [wm EXCEPT !.fthing = NULL]
         c == IF error /\ wm.fframe # NULL THEN Fwarn(e, wm.fframe) ELSE e
     IN  wm' = [c EXCEPT !.fframe = NULL]
  /\ inSeq' = FALSE /\ UNCHANGED job

-----------------------------------------------------------------------------
(* Commands that switch and move clients. *)

SwitchNext(f) == RunsOn(f) /\ wm' = FrameSwitchNext(wm, f) /\ Same

SwitchPrev(f) == RunsOn(f) /\ wm' = FrameSwitchPrev(wm, f) /\ Same

\* frame_switch_nth, switch_tab.
SwitchTo(f, c) ==
  /\ RunsOn(f) /\ c \in ToSet(wm.clients[f])
  /\ wm' = FrameSwitchClient(wm, f, c)
  /\ Same

\* A tab dropped on a visible frame, which need not be the one dragged from.
DropTab(f, c) ==
  /\ job = NoJob /\ ~inSeq /\ f \in FramesOf(wm, wm.curws)
  /\ IsLiveClient(wm, c)
  /\ wm' = SetFocus(AttachClient(wm, f, c, TRUE), f)
  /\ Same

ToggleTagged(c) ==
  /\ Runs /\ IsLiveClient(wm, c)
  /\ inSeq => \/ c = wm.fthing
              \/ \E f \in Frame : FrameOf(wm, wm.fthing) = f /\ wm.cur[f] = c
  /\ wm' = [wm EXCEPT !.tagged = IF c \in @ THEN @ \ {c} ELSE @ \cup {c}]
  /\ Same

ClearTags == Runs /\ wm.tagged # {} /\ wm' = [wm EXCEPT !.tagged = {}] /\ Same

AttachTagged(f) ==
  /\ RunsOn(f)
  /\ job' = [op |-> "attach_tagged", from |-> NULL, to |-> f]
  /\ UNCHANGED <<wm, inSeq>>

\* One iteration of do_attach_tagged: the first tagged client of client_list.
AttachNextTagged ==
  /\ job.op = "attach_tagged"
  /\ \E i \in 1..Len(wm.list) :
       /\ wm.list[i] \in wm.tagged
       /\ \A j \in 1..(i - 1) : wm.list[j] \notin wm.tagged
       /\ wm' = AttachClient([wm EXCEPT !.tagged = @ \ {wm.list[i]}],
                             job.to, wm.list[i], FALSE)
  /\ Same

AttachTaggedDone ==
  /\ job.op = "attach_tagged" /\ wm.tagged \cap ToSet(wm.list) = {}
  /\ job' = NoJob
  /\ UNCHANGED <<wm, inSeq>>

-----------------------------------------------------------------------------
(* Commands that create and destroy frames. *)

\* split_vert, split_horiz, split_top, when there is room for the new frame g.
Split(f, g) ==
  /\ RunsOn(f) /\ ~IsLiveFrame(wm, g)
  /\ LET ws == wm.wsOf[f]
     IN  wm' = SetFocus([wm EXCEPT !.wsOf[g] = ws,
                                   !.mapped  = IF ws = wm.curws THEN @ \cup {g} ELSE @], g)
  /\ Same

Siblings(f) == FramesOf(wm, wm.wsOf[f]) \ {f}

\* Last frame on workspace and not empty, or only frame on only workspace.
DestroyFrameRefused(f) ==
  /\ RunsOn(f) /\ Siblings(f) = {}
  /\ wm.count[f] # 0 \/ Len(wm.workspaces) <= 1
  /\ wm' = Fwarn(wm, f)
  /\ Same

\* The workspace goes with its last frame; cf is current on the next workspace.
DestroyLastFrame(f, cf) ==
  /\ RunsOn(f) /\ Siblings(f) = {}
  /\ wm.count[f] = 0 /\ Len(wm.workspaces) > 1
  /\ cf \in FramesOf(wm, Head(Unlink(wm.workspaces, wm.wsOf[f])))
  /\ wm' = DestroyFrame(wm, f, cf)
  /\ Same

\* Mutant: the sister frame is not kept for the loop.
BeginDestroyFrameAlone(f, other) ==
  /\ RunsOn(f) /\ other \in Siblings(f)
  /\ job' = [op |-> "destroy_frame", from |-> f, to |-> NULL]
  /\ UNCHANGED <<wm, inSeq>>

BeginDestroyFrame(f, other) ==
  /\ RunsOn(f) /\ other \in Siblings(f)
  /\ job' = [op |-> "destroy_frame", from |-> f, to |-> other]
  /\ UNCHANGED <<wm, inSeq>>

\* One iteration of move_clients.
MoveNextClient ==
  /\ job.op = "destroy_frame" /\ wm.clients[job.from] # <<>>
  /\ wm' = AttachClient(wm, job.to, Head(wm.clients[job.from]), FALSE)
  /\ Same

\* Mutant: only the current client is moved.
FinishDestroyFrameEarly ==
  /\ job.op = "destroy_frame" /\ wm.count[job.from] <= 1
  /\ wm' = SetFocus(DestroyFrame(wm, job.from, job.to), job.to)
  /\ job' = NoJob
  /\ UNCHANGED inSeq

FinishDestroyFrame ==
  /\ job.op = "destroy_frame" /\ wm.clients[job.from] = <<>>
  /\ wm' = SetFocus(DestroyFrame(wm, job.from, job.to), job.to)
  /\ job' = NoJob
  /\ UNCHANGED inSeq

-----------------------------------------------------------------------------
(* Commands that go elsewhere. *)

\* goto_above, goto_below, goto_left, goto_right: to a frame g of the workspace.
GotoNeighbour(f, g) ==
  /\ RunsOn(f) /\ g \in FramesOf(wm, wm.wsOf[f])
  /\ wm' = IF wm.wswin = g THEN wm ELSE SetFocus(SetPrevious(wm, g), g)
  /\ Same

GotoClientName(c, cf) ==
  /\ Runs /\ IsLiveClient(wm, c) /\ cf \in FramesOf(wm, WorkspaceOf(wm, c))
  /\ wm' = GotoClient(wm, c, cf)
  /\ Same

GotoPrevious(cf) ==
  /\ Runs /\ wm.prev \in Client \cup Frame /\ cf \in FramesOf(wm, WorkspaceOf(wm, wm.prev))
  /\ wm' = IF wm.prev \in Client THEN GotoClient(wm, wm.prev, cf)
           ELSE GotoWindow(wm, wm.prev, cf)
  /\ Same

SwitchWs(ws, cf) ==
  /\ Runs /\ cf \in FramesOf(wm, ws) /\ ws \in ToSet(wm.workspaces)
  /\ wm' = SwitchWorkspace(wm, ws, cf)
  /\ Same

\* switch_ws_nth2 with a negative number.
GotoCurrentWs(cf) ==
  /\ Runs /\ cf \in FramesOf(wm, wm.curws)
  /\ wm' = GotoWs(wm, cf)
  /\ Same

-----------------------------------------------------------------------------
(* Queries.  Finishing one destroys the input, then runs its handler. *)

Query(f) == RunsOn(f) /\ wm' = FrameSetInput(wm, f, "query") /\ Same

InputCancel(f) ==
  /\ Ready /\ wm.input[f] # NULL
  /\ wm' = DestroyInput(wm, f)
  /\ Same

\* wedln_finish up to the call of the handler.
Finishing(f) == Ready /\ wm.input[f] = "query"

Answered(f) == DestroyInput(wm, f)

FinishAttach(f, c) ==
  /\ Finishing(f) /\ IsLiveClient(wm, c)
  /\ wm' = AttachClient(Answered(f), f, c, TRUE)
  /\ Same

FinishGoto(f, c, cf) ==
  /\ Finishing(f) /\ IsLiveClient(wm, c) /\ cf \in FramesOf(wm, WorkspaceOf(wm, c))
  /\ wm' = GotoClient(Answered(f), c, cf)
  /\ Same

\* handler_workspace creates the workspace it does not find.
FinishWorkspace(f, ws, cf) ==
  /\ Finishing(f)
  /\ \/ /\ ws \in ToSet(wm.workspaces) /\ cf \in FramesOf(wm, ws)
        /\ wm' = SwitchWorkspace(Answered(f), ws, cf)
     \/ /\ ws \notin ToSet(wm.workspaces) /\ ~IsLiveFrame(wm, cf)
        /\ wm' = SwitchWorkspace(CreateWorkspace(Answered(f), ws, cf), ws, cf)
  /\ Same

\* handler_workspace_with, for a client that is still there.
FinishWorkspaceWith(f, c, ws, cf) ==
  /\ Finishing(f) /\ IsLiveClient(wm, c)
  /\ \/ /\ ws \in ToSet(wm.workspaces) /\ cf \in FramesOf(wm, ws)
        /\ wm' = GotoClient(AttachClient(Answered(f), cf, c, TRUE), c, cf)
     \/ /\ ws \notin ToSet(wm.workspaces) /\ ~IsLiveFrame(wm, cf)
        /\ wm' = GotoClient(AttachClient(CreateWorkspace(Answered(f), ws, cf), cf, c, TRUE), c, cf)
  /\ Same

\* handler_function runs the line as a command sequence.
FinishFunction(f) ==
  /\ Finishing(f)
  /\ wm' = [Answered(f) EXCEPT !.fthing = f, !.fframe = f]
  /\ inSeq' = TRUE /\ UNCHANGED job

\* The name is unknown.
FinishComplaint(f) ==
  /\ Finishing(f)
  /\ wm' = Fwarn(Answered(f), f)
  /\ Same

-----------------------------------------------------------------------------

XEvent ==
  \/ MainLoopFocus
  \/ \E w \in Win, c \in Client, gone \in BOOLEAN : MapRequestTransient(w, c, gone)
  \/ \E w \in Win, c \in Client, f \in Frame, switchto, gone \in BOOLEAN :
       MapRequest(w, c, f, switchto, gone)
  \/ \E w \in Win : UnmapOrDestroyNotify(w) \/ Iconify(w)
  \/ \E f \in Frame : FocusIn(f) \/ RestoreFocus(f) \/ EnterNotify(f)

Command ==
  \/ \E f \in Frame : BeginSequence(f) \/ SwitchNext(f) \/ SwitchPrev(f) \/ Query(f)
  \/ \E error \in BOOLEAN : EndSequence(error)
  \/ \E f \in Frame, c \in Client : SwitchTo(f, c) \/ DropTab(f, c)
  \/ \E c \in Client : ToggleTagged(c)
  \/ ClearTags
  \/ \E f \in Frame : AttachTagged(f)
  \/ AttachNextTagged \/ AttachTaggedDone
  \/ \E f, g \in Frame : Split(f, g) \/ DestroyLastFrame(f, g) \/ BeginDestroyFrame(f, g)
  \/ \E f \in Frame : DestroyFrameRefused(f)
  \/ MoveNextClient \/ FinishDestroyFrame
  \/ \E f, g \in Frame : GotoNeighbour(f, g)
  \/ \E c \in Client, cf \in Frame : GotoClientName(c, cf)
  \/ \E cf \in Frame : GotoPrevious(cf) \/ GotoCurrentWs(cf)
  \/ \E ws \in Ws, cf \in Frame : SwitchWs(ws, cf)

Answer ==
  \/ \E f \in Frame : InputCancel(f) \/ FinishFunction(f) \/ FinishComplaint(f)
  \/ \E f \in Frame, c \in Client : FinishAttach(f, c)
  \/ \E f, cf \in Frame, c \in Client : FinishGoto(f, c, cf)
  \/ \E f, cf \in Frame, ws \in Ws : FinishWorkspace(f, ws, cf)
  \/ \E f, cf \in Frame, ws \in Ws, c \in Client : FinishWorkspaceWith(f, c, ws, cf)

Next == XEvent \/ Command \/ Answer

Spec == Init /\ [][Next]_vars

-----------------------------------------------------------------------------
(* Properties. *)

\* The shape of the state: what each field, and the loop in progress, may hold.
TypeOK ==
  /\ wm \in State
  /\ inSeq \in BOOLEAN
  /\ job \in {NoJob} \cup [op : {"attach_tagged"}, from : {NULL}, to : Frame]
                     \cup [op : {"destroy_frame"}, from : Frame, to : Frame]

\* t_parent and t_children agree at every level of the tree, nothing is linked
\* twice, and no client and no workspace outlives its last child: thing.c frees
\* an emptied WTHING_DESTREMPTY parent, so one left behind would be a leak and
\* one freed too early a use after free.
ThingsLinked ==
  /\ \A c \in Client :
       /\ IsInjective(wm.wins[c])
       /\ ToSet(wm.wins[c]) = {w \in Win : wm.clientOf[w] = c}
       /\ IsLiveClient(wm, c) <=> wm.wins[c] # <<>>
       /\ IsLiveClient(wm, c) <=> IsLiveFrame(wm, wm.frameOf[c])
  /\ \A f \in Frame :
       /\ IsInjective(wm.clients[f])
       /\ ToSet(wm.clients[f]) = {c \in Client : wm.frameOf[c] = f}
       /\ IsLiveFrame(wm, f) \/ (wm.clients[f] = <<>> /\ wm.input[f] = NULL)
  /\ ToSet(wm.workspaces) = {wm.wsOf[f] : f \in Frame} \ {NULL}
  /\ IsInjective(wm.workspaces) /\ IsInjective(wm.list)
  /\ wm.curws \in ToSet(wm.workspaces)
  /\ wm.tagged \subseteq ToSet(wm.list)

\* A frame shows one of its own clients whenever it has any: every path that
\* removes the current client (a window destroyed, a client attached elsewhere,
\* a frame emptied) must have chosen a successor.
CurrentIsChild ==
  \A f \in Frame : IF wm.clients[f] = <<>> THEN wm.cur[f] = NULL
                  ELSE wm.cur[f] \in ToSet(wm.clients[f])

\* client_count is the number of clients: destroy_frame decides by it whether
\* a frame may go, and asserts that move_clients brings it to 0.
CountMatches == \A f \in Frame : wm.count[f] = Len(wm.clients[f])

\* The tree of things is consistent: the links, the current clients and the counts,
\* which the handlers change one by one and each relies on (thing.c, frame.c).
TreeConsistent == ThingsLinked /\ CurrentIsChild /\ CountMatches

\* The windows of a frame's current client, and no others, are in NormalState;
\* so each switch hides exactly the client it replaces.
ClientsShown ==
  \A w \in Win :
    wm.state[w] = IF wm.clientOf[w] = NULL THEN "Withdrawn"
                  ELSE IF wm.cur[FrameOf(wm, w)] = wm.clientOf[w] THEN "Normal"
                  ELSE "Iconic"

\* The frames of the current workspace, and no others, are mapped, whatever
\* splits, destructions and workspace switches have happened on either.
FramesMappedIffVisible == wm.mapped = FramesOf(wm, wm.curws)

\* What the user sees is what the tree says, after any handler: clients and frames are
\* shown and hidden on the way by switches, moves, destructions and visits (frame.c,
\* workspace.c), some of them in passing.
ExactlyCurrentShown == ClientsShown /\ FramesMappedIffVisible

\* The globals that outlive a handler never name a destroyed thing.
NoDanglingPointers ==
  {wm.fnext, wm.prev, wm.wswin} \subseteq {t \in Things : Alive(wm, t)} \cup {NULL}

\* "We don't want to refer to destroyed things" (query.c): the thing and the
\* frame of a command sequence stay valid when a function of the sequence
\* destroys them, and a sequence always has a thing to go on with.
FunctionThingLive ==
  /\ {wm.fthing, wm.fframe} \subseteq {t \in Things : Alive(wm, t)} \cup {NULL}
  /\ inSeq => wm.fthing # NULL

\* The active frame is on the current workspace: the commands that act on
\* current_wswindow never act on a frame the user does not see.
ActiveFrameVisible == wm.wswin # NULL => wm.wsOf[wm.wswin] = wm.curws

\* Every protect_previous has met its unprotect_previous when a handler ends;
\* one left over would disable goto_previous for good.
PreviousUnprotected == wm.protect = 0

\* The pointers that outlive a handler are sound when it is over, whatever it has
\* destroyed on the way (do_destroy_thing, query_check_function_thing, protect_previous).
PointersSound ==
  NoDanglingPointers /\ FunctionThingLive /\ ActiveFrameVisible /\ PreviousUnprotected

\* When the active frame shows another client the focus will be set before the
\* next event; without it the keyboard stays with a window just hidden.
NewClientGetsFocus ==
  [][\A f \in Frame :
       /\ wm.wswin = f /\ wm'.wswin = f
       /\ wm'.cur[f] \notin {NULL, wm.cur[f]}
       /\ wm'.input[f] = NULL
       => wm'.fnext # NULL]_vars

\* The window manager keeps what Placement promises: no handler, however many frames and
\* clients it touches, loses a client that has a window, leaves a frame with clients empty
\* to the eye, or takes such a frame away (destroy_frame, move_clients).
P == INSTANCE Placement WITH place <- wm.frameOf, shown <- wm.cur, on <- wm.wsOf,
                             visible <- wm.curws
KeepsPlacement == P!Spec
=============================================================================
