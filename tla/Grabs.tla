-------------------------------- MODULE Grabs --------------------------------
(***************************************************************************)
(* The grab stack (grab.c) and the handlers that use it: submaps, waiting  *)
(* for a release and quote_next (key.c), shortcuts (shortcut.c), command   *)
(* mode (command.c) and the keyboard resize mode with its timer            *)
(* (resize.c), with the pointer loop (event.c, pointer.c), which shares    *)
(* the X grab.                                                             *)
(*                                                                         *)
(* A key goes to the handler on top of the stack, or to handle_keypress    *)
(* when there is none.  A handler may run functions, which establish and   *)
(* remove grabs and destroy things while it is on the C stack: call is     *)
(* the handler being run, and each function is a step.                     *)
(*                                                                         *)
(* A thing that is destroyed gives up one grab only (grab_remove_for).     *)
(* Nothing asks whether the holder of a grab still exists, so one that     *)
(* held two leaves its handler to run on freed memory.  What is there is   *)
(* what the destructor left, until a new frame is allocated in its place;  *)
(* a crash is a behaviour that ends.                                       *)
(***************************************************************************)
EXTENDS Integers, FiniteSets

CONSTANTS
  Frame,        \* frames
  Edln,         \* line editors
  Cwin,         \* client windows
  Screen,       \* the screen, which is never destroyed
  Cut,          \* keys that can be shortcuts
  NULL,
  MaxGrabs,     \* MAX_GRABS
  MaxCommands   \* functions in one binding: more than one is a command_sequence

ASSUME GrabsAssumption ==
  /\ MaxGrabs \in Nat \ {0} /\ MaxCommands \in Nat \ {0}
  /\ NULL \notin Frame \cup Cwin \cup {Screen} \cup Cut
  /\ Frame \cap Cwin = {} /\ Frame \cap Edln = {} /\ Screen \notin Frame \cup Cwin

VARIABLES
  grab,               \* the stack, and the X grab it stands for
  live,               \* frames and client windows that exist
  submapped,          \* windows whose bindmap is a submap
  commandmode_active,
  resize_mode,
  resize_timer,       \* it is in the queue of signal.c
  shortcuts,          \* wglobal.shortcuts
  shortcut,           \* the shortcut of each frame
  mouse,              \* default_pointer_handler: a button is down
  call,               \* the handler that is running functions
  looked,             \* the map in which the last key was looked up
  leftover            \* history: something was destroyed that held more than one grab

input == <<commandmode_active, resize_mode, resize_timer>>
cuts  == <<shortcuts, shortcut>>
vars  == <<grab, live, submapped, input, cuts, mouse, call, looked, leftover>>

Holder   == Frame \cup Cwin \cup {Screen}
Handlers == {"submap", "waitrelease", "quote_next", "set_shortcut", "goto_shortcut",
             "command", "resize"}

GrabStatus == [holder : Holder \cup {NULL}, handler : Handlers \cup {"none"}, remove : BOOLEAN]

NoGrab == [holder |-> NULL, handler |-> "none", remove |-> FALSE]

\* kb: the keyboard and the pointer are grabbed; holder: wglobal.grab_holder.
Grab == [slot : [1..MaxGrabs -> GrabStatus], idx : 0..MaxGrabs,
         kb : BOOLEAN, holder : Holder \cup {NULL}]

\* freed: the frame the handler was called with, when it no longer exists.
Idle == [by |-> "none", slot |-> 0, handler |-> "none", left |-> 0, waitrel |-> FALSE,
         freed |-> NULL]

Calls == [by : {"none", "grab", "key", "press", "release"}, slot : 0..MaxGrabs,
          handler : Handlers \cup {"none"}, left : 0..MaxCommands, waitrel : BOOLEAN,
          freed : Frame \cup {NULL}]

Init ==
  /\ grab = [slot |-> [i \in 1..MaxGrabs |-> NoGrab], idx |-> 0, kb |-> FALSE, holder |-> NULL]
  /\ \E f \in Frame : live = {f}
  /\ submapped = {}
  /\ commandmode_active = FALSE /\ resize_mode = FALSE /\ resize_timer = FALSE
  /\ shortcuts = [k \in Cut |-> NULL] /\ shortcut = [f \in Frame |-> NULL]
  /\ mouse = "up" /\ call = Idle /\ looked = "none" /\ leftover = FALSE

-----------------------------------------------------------------------------
(* grab.c *)

Top(g) == g.slot[g.idx]

HandledBy(g, h) == {i \in 1..g.idx : g.slot[i].handler = h}

HeldFor(g, t) == {i \in 1..g.idx : g.slot[i].holder = t}

Highest(S) == IF S = {} THEN 0 ELSE CHOOSE i \in S : \A j \in S : j <= i

\* grab_get_holder.
GrabHolder(g, h) ==
  LET i == Highest(HandledBy(g, h))
  IN  IF i = 0 THEN NULL ELSE g.slot[i].holder

\* do_grab_kb_ptr.
GrabKbPtr(g, t) == [g EXCEPT !.kb = TRUE, !.holder = t]

UngrabKbPtr(g) == [g EXCEPT !.kb = FALSE, !.holder = NULL]

\* Pops what is marked, and grabs for what is then on top.
GrabForTop(g, i) ==
  IF i = 0 THEN UngrabKbPtr([g EXCEPT !.idx = 0])
  ELSE GrabKbPtr([g EXCEPT !.idx = i], g.slot[i].holder)

\* Mutant: one entry is taken off, marked or not.
DoGrabRemoveOne(g) == GrabForTop(g, Highest(1..(g.idx - 1)))

\* Mutant: the index is not brought back.
DoGrabRemovePastEnd(g) ==
  IF \A i \in 1..g.idx : g.slot[i].remove THEN UngrabKbPtr([g EXCEPT !.idx = -1])
  ELSE GrabForTop(g, Highest({i \in 1..g.idx : ~g.slot[i].remove}))

DoGrabRemove(g) == GrabForTop(g, Highest({i \in 1..g.idx : ~g.slot[i].remove}))

Mark(g, i) == IF i = 0 THEN g ELSE [g EXCEPT !.slot[i].remove = TRUE]

\* Slots above the stack are only read by a handler that is still running.
Forget(g) == [g EXCEPT !.slot = [i \in 1..MaxGrabs |-> IF i <= g.idx THEN @[i] ELSE NoGrab]]

\* With an empty stack the code reads grabs[-1], whose value is junk.
PopMarked(g, junk) ==
  IF (IF g.idx = 0 THEN junk ELSE Top(g).remove) THEN DoGrabRemove(g) ELSE g

\* Mutant: the top entry is marked, whoever it belongs to.
GrabRemoveTop(g, h, junk) == PopMarked(Mark(g, g.idx), junk)

GrabRemove(g, h, junk) == PopMarked(Mark(g, Highest(HandledBy(g, h))), junk)

GrabRemoveFor(g, t, junk) == PopMarked(Mark(g, Highest(HeldFor(g, t))), junk)

\* Nothing happens when the stack is full.
GrabEstablish(g, t, h) ==
  IF g.idx = MaxGrabs THEN g
  ELSE GrabKbPtr([g EXCEPT !.idx = @ + 1,
                           !.slot[g.idx + 1] = [holder |-> t, handler |-> h, remove |-> FALSE]], t)

\* The end of do_destroy_thing, which forgets the holder of the X grab.
DestroyThing(g, t, junk) ==
  LET r == GrabRemoveFor(g, t, junk)
  IN  IF r.holder = t THEN [r EXCEPT !.holder = NULL] ELSE r

\* Only one of the grabs of t is given up then.
HeldTwice(g, t) == \E i, j \in HeldFor(g, t) : i # j

Remember(t) == leftover' = (leftover \/ HeldTwice(grab, t))

-----------------------------------------------------------------------------
(* shortcut.c *)

SC == [shortcuts |-> shortcuts, shortcut |-> shortcut]

SetCuts(s) == shortcuts' = s.shortcuts /\ shortcut' = s.shortcut

\* shortcut_remove.
ShortcutRemove(s, k) ==
  IF k = NULL \/ s.shortcuts[k] = NULL THEN s
  ELSE [shortcuts |-> [s.shortcuts EXCEPT ![k] = NULL],
        shortcut  |-> [s.shortcut EXCEPT ![s.shortcuts[k]] = NULL]]

ShortcutRemoveFrom(s, f) == ShortcutRemove(s, s.shortcut[f])

\* Mutant: the frame that had the shortcut keeps it.
ShortcutSetOverOld(s, f, k) ==
  LET mine == ShortcutRemoveFrom(s, f)
  IN  IF k = NULL THEN mine
      ELSE [shortcuts |-> [mine.shortcuts EXCEPT ![k] = f],
            shortcut  |-> [mine.shortcut EXCEPT ![f] = k]]

\* k is NULL when the key is no valid shortcut: then f just loses its own.
ShortcutSet(s, f, k) ==
  LET old == IF k # NULL /\ s.shortcuts[k] # NULL
             THEN ShortcutRemoveFrom(s, s.shortcuts[k]) ELSE s
      mine == ShortcutRemoveFrom(old, f)
      free == ShortcutRemove(mine, k)
  IN  IF k = NULL THEN mine
      ELSE [shortcuts |-> [free.shortcuts EXCEPT ![k] = f],
            shortcut  |-> [free.shortcut EXCEPT ![f] = k]]

-----------------------------------------------------------------------------
(* Keys that go to the handler on top of the stack (call_grab_handler).  A *)
(* handler that returns TRUE is removed by the name found in its slot.     *)

Waiting == call = Idle /\ mouse = "up"

\* Whether the holder of the grab exists is not asked.
Dispatch(h) == Waiting /\ grab.idx > 0 /\ Top(grab).handler = h /\ UNCHANGED leftover

\* The handler ran no function and returned ret.
Returned(ret) ==
  /\ grab' = IF ret THEN Forget(GrabRemove(grab, Top(grab).handler, FALSE)) ELSE grab
  /\ UNCHANGED <<live, submapped, mouse, call>>

\* The handler found a binding and runs its functions; those of a binding of
\* kind kpress_waitrel are followed by waitrelease.  A submap calls them with
\* the holder of its grab.
Runs(by, waitrel) ==
  call' = [by |-> by, slot |-> grab.idx, handler |-> IF grab.idx = 0 THEN "none" ELSE Top(grab).handler,
           left |-> MaxCommands, waitrel |-> waitrel,
           freed |-> IF grab.idx # 0 /\ Top(grab).handler = "submap" /\ Top(grab).holder \notin live
                     THEN Top(grab).holder ELSE NULL]

\* A modifier is ignored; a release cancels; a press is sent to the client.
KeyQuoteNext(release, mod) ==
  /\ Dispatch("quote_next")
  /\ Returned(release \/ ~mod)
  /\ UNCHANGED <<input, cuts, looked>>

\* unmod: the last modifier is going, or has gone, up.
KeyWaitRelease(lastmod) ==
  /\ Dispatch("waitrelease")
  /\ Returned(lastmod)
  /\ UNCHANGED <<input, cuts, looked>>

\* A press; a modifier with no binding is ignored.
KeySubmap(mod, hit, waitrel) ==
  /\ Dispatch("submap")
  /\ looked' = IF Top(grab).holder \in submapped THEN "submap" ELSE "map"
  /\ IF hit
     THEN /\ Runs("grab", waitrel)
          /\ UNCHANGED <<grab, live, submapped, mouse>>
     ELSE Returned(~mod)
  /\ UNCHANGED <<input, cuts>>

KeySetShortcut(mod, k) ==
  /\ Dispatch("set_shortcut")
  /\ Returned(~mod)
  /\ IF mod THEN UNCHANGED cuts ELSE SetCuts(ShortcutSet(SC, Top(grab).holder, k))
  /\ UNCHANGED <<input, looked>>

\* Focus goes to the frame; see module WindowManager for goto_window.
KeyGotoShortcut(mod) ==
  /\ Dispatch("goto_shortcut")
  /\ Returned(~mod)
  /\ UNCHANGED <<input, cuts, looked>>

\* Releases, and modifiers without a binding, leave command mode as it is.
\* Other keys first set the current frame f back to the main bindings.
KeyCommandMode(f, ignored, hit) ==
  /\ Dispatch("command") /\ f \in live
  /\ IF ~commandmode_active
     THEN Returned(TRUE)
     ELSE IF ignored THEN Returned(FALSE)
     ELSE /\ submapped' = submapped \ {f}
          /\ IF hit THEN Runs("grab", FALSE) ELSE UNCHANGED call
          /\ UNCHANGED <<grab, live, mouse>>
  /\ UNCHANGED <<input, cuts, looked>>

-----------------------------------------------------------------------------
(* The keyboard resize mode, with the functions of moveres_bindings. *)

\* Mutant: the timer is not reset.
EndResizeKeepingTimer == resize_mode' = FALSE /\ UNCHANGED resize_timer

\* end_resize, cancel_resize.
EndResize == resize_mode' = FALSE /\ resize_timer' = (resize_timer /\ ~resize_mode)

\* grow and shrink restart the timer.
KeyResize(f) ==
  /\ Dispatch("resize")
  /\ UNCHANGED <<commandmode_active, cuts, looked>>
  /\ IF ~resize_mode
     THEN Returned(TRUE) /\ UNCHANGED <<resize_mode, resize_timer>>
     ELSE CASE f = "grow" -> /\ resize_timer' = TRUE /\ UNCHANGED resize_mode
                             /\ Returned(FALSE)
            [] f = "end"  -> EndResize /\ Returned(TRUE)

\* tmr_end_resize, called from check_signals in either event loop.
TimerFires ==
  /\ call = Idle /\ resize_timer
  /\ IF resize_mode
     THEN GrabHolder(grab, "resize") # NULL /\ EndResize
     ELSE resize_timer' = FALSE /\ UNCHANGED resize_mode
  /\ UNCHANGED <<grab, live, submapped, commandmode_active, cuts, mouse, call, looked, leftover>>

-----------------------------------------------------------------------------
(* Keys when nothing is grabbed: handle_keypress on window w. *)

KeyPressed(w) ==
  Waiting /\ grab.idx = 0 /\ w \in (live \cap Frame) \cup Edln /\ UNCHANGED leftover

\* The first key of a submap; only frames grab for the next one.
KeyPrefix(w) ==
  /\ KeyPressed(w)
  /\ looked' = "map"
  /\ submapped' = submapped \cup {w}
  /\ grab' = IF w \in Frame THEN GrabEstablish(grab, w, "submap") ELSE grab
  /\ UNCHANGED <<live, input, cuts, mouse, call>>

\* Whatever the bindmap of the window is, it is first set back to the top one.
KeyBinding(w, hit, waitrel) ==
  /\ KeyPressed(w)
  /\ looked' = "map"
  /\ submapped' = submapped \ {w}
  /\ IF hit THEN Runs("key", waitrel) ELSE UNCHANGED call
  /\ UNCHANGED <<grab, live, input, cuts, mouse>>

-----------------------------------------------------------------------------
(* The functions of main bindings, run by a handler or a button. *)

Function == call.left > 0 /\ call' = [call EXCEPT !.left = @ - 1]

\* The frames a function may be called with.
Target(f) == f \in live \/ f = call.freed

Establishes(t, h) ==
  grab' = GrabEstablish(grab, t, h) /\ UNCHANGED <<live, submapped, mouse, looked, leftover>>

DoSetShortcut(f) ==
  /\ Function /\ Target(f) /\ Establishes(f, "set_shortcut") /\ UNCHANGED <<input, cuts>>

DoGotoShortcut(f) ==
  /\ Function /\ Target(f) /\ Establishes(f, "goto_shortcut") /\ UNCHANGED <<input, cuts>>

QuoteNext(c) ==
  /\ Function /\ c \in live /\ Establishes(c, "quote_next") /\ UNCHANGED <<input, cuts>>

EnterCommandMode(f) ==
  /\ Function /\ Target(f) /\ ~commandmode_active
  /\ commandmode_active' = TRUE
  /\ Establishes(f, "command")
  /\ UNCHANGED <<resize_mode, resize_timer, cuts>>

LeaveCommandMode ==
  /\ Function /\ commandmode_active
  /\ commandmode_active' = FALSE
  /\ \E junk \in BOOLEAN : grab' = GrabRemove(grab, "command", junk)
  /\ UNCHANGED <<live, submapped, resize_mode, resize_timer, cuts, mouse, looked, leftover>>

\* resize_vert, resize_horiz.
BeginKeyResize(f) ==
  /\ Function /\ Target(f) /\ ~resize_mode
  /\ resize_mode' = TRUE
  /\ Establishes(f, "resize")
  /\ UNCHANGED <<commandmode_active, resize_timer, cuts>>

\* destroy_frame, or closedestroy with no client in the frame.
DestroyFrame(f) ==
  /\ Function /\ Target(f) /\ live \cap Frame # {f}
  /\ live' = live \ {f} /\ Remember(f)
  /\ \E junk \in BOOLEAN : grab' = DestroyThing(grab, f, junk)
  /\ SetCuts(ShortcutRemoveFrom(SC, f))
  /\ UNCHANGED <<submapped, input, mouse, looked>>

\* A new frame, which may be where a destroyed one was, has no shortcut and
\* the main bindings.
SplitFrame(f) ==
  /\ Function /\ f \in Frame \ live
  /\ live' = live \cup {f} /\ submapped' = submapped \ {f}
  /\ shortcut' = [shortcut EXCEPT ![f] = NULL]
  /\ UNCHANGED <<grab, shortcuts, input, mouse, looked, leftover>>

\* Any other function, or the end of the binding.
OtherFunctions == call.left > 0 /\ call' = [call EXCEPT !.left = 0]
                  /\ UNCHANGED <<grab, live, submapped, input, cuts, mouse, looked, leftover>>

-----------------------------------------------------------------------------
(* The handler returns when its functions have run. *)

Finishing(by) ==
  /\ call.by = by /\ call.left = 0 /\ call' = Idle
  /\ UNCHANGED <<live, submapped, input, cuts, looked, leftover>>

\* dispatch_binding returns FALSE after waitrelease; command mode goes on
\* unless it was left.
HandlerResult == IF call.handler = "command" THEN ~commandmode_active ELSE ~call.waitrel

\* The slot is read again for the name of the handler to remove, whatever the
\* functions have done to the stack.
FinishGrabHandler ==
  /\ Finishing("grab")
  /\ IF HandlerResult
     THEN \E junk \in BOOLEAN :
            grab' = Forget(GrabRemove(grab, grab.slot[call.slot].handler, junk))
     ELSE grab' = IF call.waitrel THEN GrabEstablish(Forget(grab), Screen, "waitrelease")
                                  ELSE Forget(grab)
  /\ UNCHANGED mouse

FinishKeyPress ==
  /\ Finishing("key")
  /\ grab' = IF call.waitrel THEN GrabEstablish(grab, Screen, "waitrelease") ELSE grab
  /\ UNCHANGED mouse

-----------------------------------------------------------------------------
(* The pointer: nothing is grabbed at a press; keys are dropped until the  *)
(* release.                                                                *)

ButtonPress(t) ==
  /\ Waiting /\ grab.idx = 0 /\ t \in live
  /\ grab' = GrabKbPtr(grab, t)
  /\ Runs("press", FALSE)
  /\ UNCHANGED <<live, submapped, input, cuts, mouse, looked, leftover>>

FinishButtonPress == Finishing("press") /\ mouse' = "down" /\ UNCHANGED grab

\* p_resize: the first motion begins to resize the frame under the pointer.
PointerResize ==
  /\ call = Idle /\ mouse = "down" /\ grab.holder # NULL
  /\ resize_mode' = TRUE /\ mouse' = "resizing"
  /\ UNCHANGED <<grab, live, submapped, commandmode_active, resize_timer, cuts, call, looked, leftover>>

\* p_resize_end, or the functions of a click binding.
ButtonReleaseResize ==
  /\ call = Idle /\ mouse = "resizing"
  /\ EndResize
  /\ grab' = UngrabKbPtr(grab) /\ mouse' = "up"
  /\ UNCHANGED <<live, submapped, commandmode_active, cuts, call, looked, leftover>>

ButtonRelease ==
  /\ call = Idle /\ mouse = "down"
  /\ Runs("release", FALSE)
  /\ UNCHANGED <<grab, live, submapped, input, cuts, mouse, looked, leftover>>

\* Mutant: the pointer stays grabbed.
FinishButtonReleaseHolding == Finishing("release") /\ mouse' = "up" /\ UNCHANGED grab

FinishButtonRelease == Finishing("release") /\ mouse' = "up" /\ grab' = UngrabKbPtr(grab)

-----------------------------------------------------------------------------
(* Client windows come and go, unless a button is down. *)

Manage(c) ==
  /\ Waiting /\ c \in Cwin \ live
  /\ live' = live \cup {c}
  /\ UNCHANGED <<grab, submapped, input, cuts, mouse, call, looked, leftover>>

CwinGone(c) ==
  /\ Waiting /\ c \in live \cap Cwin
  /\ live' = live \ {c} /\ Remember(c)
  /\ \E junk \in BOOLEAN : grab' = Forget(DestroyThing(grab, c, junk))
  /\ UNCHANGED <<submapped, input, cuts, mouse, call, looked>>

-----------------------------------------------------------------------------

Key ==
  \/ \E release, mod \in BOOLEAN : KeyQuoteNext(release, mod)
  \/ \E lastmod \in BOOLEAN : KeyWaitRelease(lastmod)
  \/ \E mod, hit, waitrel \in BOOLEAN : KeySubmap(mod, hit, waitrel)
  \/ \E mod \in BOOLEAN, k \in Cut \cup {NULL} : KeySetShortcut(mod, k)
  \/ \E mod \in BOOLEAN : KeyGotoShortcut(mod)
  \/ \E f \in Frame, ignored, hit \in BOOLEAN : KeyCommandMode(f, ignored, hit)
  \/ \E f \in {"grow", "end"} : KeyResize(f)
  \/ \E w \in Frame \cup Edln :
       KeyPrefix(w) \/ \E hit, waitrel \in BOOLEAN : KeyBinding(w, hit, waitrel)

RunFunction ==
  \/ \E f \in Frame : \/ DoSetShortcut(f) \/ DoGotoShortcut(f) \/ EnterCommandMode(f)
                      \/ BeginKeyResize(f) \/ DestroyFrame(f) \/ SplitFrame(f)
  \/ \E c \in Cwin : QuoteNext(c)
  \/ LeaveCommandMode \/ OtherFunctions

Pointer ==
  \/ \E t \in Frame \cup Cwin : ButtonPress(t)
  \/ FinishButtonPress \/ PointerResize \/ ButtonReleaseResize
  \/ ButtonRelease \/ FinishButtonRelease

Next ==
  \/ Key \/ RunFunction \/ FinishGrabHandler \/ FinishKeyPress
  \/ Pointer \/ TimerFires
  \/ \E c \in Cwin : Manage(c) \/ CwinGone(c)

Spec == Init /\ [][Next]_vars

-----------------------------------------------------------------------------
(* Properties. *)

\* Every variable has its type: the stack stays within its array.
TypeOK ==
  /\ grab \in Grab /\ live \subseteq Frame \cup Cwin
  /\ submapped \subseteq Frame \cup Edln
  /\ {commandmode_active, resize_mode, resize_timer} \subseteq BOOLEAN
  /\ shortcuts \in [Cut -> Frame \cup {NULL}] /\ shortcut \in [Frame -> Cut \cup {NULL}]
  /\ mouse \in {"up", "down", "resizing"} /\ call \in Calls
  /\ looked \in {"none", "map", "submap"} /\ leftover \in BOOLEAN

\* The entries that count: a marked one is as good as gone.
Unmarked(g) == {i \in 1..g.idx : ~g.slot[i].remove}

\* Whenever control is back in the event loop with no button down, the X grab
\* of the keyboard and pointer is held for the entry on top of the stack, which
\* is not marked, so that its handler gets the next key and may release it: no
\* sequence of submaps, waits, quotes, modes and clicks leaves the keyboard
\* grabbed and nobody to give it to.  The thing that the handler is called with
\* exists, except once something was destroyed that held more than one grab,
\* since grab_remove_for gives up one (do_grab_remove; ungrab_kb_ptr in the
\* pointer loop).
KeyboardFreed ==
  grab.kb => \/ /\ grab.idx \in Unmarked(grab)
                /\ Top(grab).holder \in live \cup {Screen} \/ leftover
             \/ mouse # "up" \/ call.by = "press"

\* The entry on top is never one that is marked: removals out of order are all
\* swept when the entries above them go, so call_grab_handler never meets one
\* and drops a key.
TopUnmarked == grab.idx > 0 => ~grab.slot[grab.idx].remove

\* When the resize timer can fire, tmr_end_resize finds the frame to resize:
\* resize mode is on and its grab is held by a frame that exists, whatever
\* was destroyed, ended or grabbed since the timer was set.
ResizeTimerSafe ==
  resize_timer => /\ resize_mode
                  /\ GrabHolder(grab, "resize") \in (IF leftover THEN Frame ELSE live)

\* Command mode that was left, by any handler and with its entry anywhere in
\* the stack, has no grab any more; one that is on has at most one, which is
\* the one that leaving it will find.
CommandModeLeft ==
  \A i \in HandledBy(grab, "command") \cap Unmarked(grab) :
    commandmode_active /\ \A j \in HandledBy(grab, "command") : j <= i

\* No mode outlives what it needs: the timer of the resize mode has the mode,
\* its grab and the frame, where a frame may be a destroyed one only once
\* something was destroyed that held more than one grab; and a grab of command
\* mode has the mode.  A mode may be on without its grab: a full stack refuses
\* it silently, and the grab goes when its frame is destroyed.
ModesHeld == ResizeTimerSafe /\ CommandModeLeft

\* A shortcut leads to a frame that exists and shows it, and every frame that
\* shows one is reached by it, after frames are destroyed and shortcuts taken
\* over from other frames (shortcut_set, deinit_frame), until something was
\* destroyed that held more than one grab: then setshortcut_handler may give a
\* shortcut to freed memory.
ShortcutsMatch ==
  leftover \/
  /\ \A k \in Cut : shortcuts[k] # NULL => /\ shortcuts[k] \in live
                                           /\ shortcut[shortcuts[k]] = k
  /\ \A f \in Frame : shortcut[f] # NULL => shortcuts[shortcut[f]] = f

\* A handler that says it is done has no grab any more, also when its functions
\* have removed it, and every other entry of the stack stays in its place
\* (grab.h), as long as the slot that call_grab_handler reads again for the
\* handler to remove is still its own: functions that give up its grab and
\* establish another put the name of the new handler there, and the new grab
\* goes.
OnlyOwnGrabRemoved ==
  [][call.by = "grab" /\ call' = Idle =>
       /\ HandlerResult => HandledBy(grab', call.handler) \cap Unmarked(grab') = {}
       /\ grab.slot[call.slot].handler = call.handler =>
            \A i \in Unmarked(grab) \ HandledBy(grab, call.handler) :
              i \in Unmarked(grab') /\ grab'.slot[i] = grab.slot[i]]_vars

\* A key pressed in a line editor after the key of a submap is looked up in
\* that submap (the submap of input_bindings; handle_keypress).
SubmapKeys ==
  [][\A w \in Edln \cap submapped :
       (\E hit, waitrel \in BOOLEAN : KeyBinding(w, hit, waitrel)) => looked' = "submap"]_vars
=============================================================================
