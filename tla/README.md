# A TLA+ specification of ion

ion is a tiling window manager for X11. It is one process with one thread: a
main loop takes an X event, a key, a button or a timer and runs a handler to
its end. Nothing is preempted, and yet its state is hard to keep right. A
handler runs functions the user has configured, in any order, that destroy the
things the handler is working on; X events are about windows as they were some
time ago; a query asks a question and the answer comes many events later; and
the same facts are kept in several places by hand.

## The system

| component | state | operations | what makes it correct |
|---|---|---|---|
| tree of things (`thing.c`, `window.c`, `screen.c`) | parent and children of screens, workspaces, frames, clients, client windows; `focus_next`, `previous`, `grab_holder` | link, unlink, destroy with all below and with emptied parents above | both directions of each link agree; no pointer outlives its thing |
| frames (`frame.c`) | clients in order, `current_client`, `client_count`, the query in the frame | attach, detach, switch, destroy, split, tagged clients | a frame with clients shows exactly one of its own; destroying a frame destroys no client |
| clients (`client.c`, `clientwin.c`) | windows (the client's own and its transients), WM_STATE, title and instance number | manage, unmanage, show, hide, iconify, rename, go to | shown windows are those of current clients; labels are unambiguous |
| workspaces (`workspace.c`) | the list, the current one, which frames are mapped | create, switch, destroy | exactly the frames of the current workspace are mapped |
| focus (`focus.c`, `event.c`) | `focus_next`, `current_wswindow`, `previous` and its protection | set, warp, remember, restore | the active frame is visible; protection is balanced |
| queries (`query.c`, `input.c`, `wedln.c`, `listing.c`) | the line editor or message in a frame; what is drawn of the line, where the view begins, the list of completions | ask, finish, cancel, complain; update, resize, expose, scroll | an answer acts on things that still exist; what is drawn piece by piece is the line |
| command sequences (`function.c`, `query.c`) | the thing the sequence runs on | begin, each function, end | a destroyed thing is replaced |
| grab stack (`grab.c`), submaps and quoting (`key.c`), command mode (`command.c`), shortcuts (`shortcut.c`), resize mode (`resize.c`), pointer loop (`event.c`, `pointer.c`) | stack of handlers, the X grab, modes, the timer, shortcut tables | establish, remove, remove for a thing, dispatch a key | the keyboard is given back, or to somebody; a handler removes its own grab |
| line editor (`edln.c`, `complete.c`) | buffer, point, mark, history ring, saved line, selection | edit, move, kill, copy, history, complete | the buffer is sound, the history is in order, the selection is text |
| split tree (`split.c`, `resize.c`) | binary tree of splits and frames, their geometry, the current side of each split, sizes saved by maximizing | split, resize, maximize, remove, find a neighbour, save and read | frames tile the screen; a resize gives what it shows; the tree leads back to the frame that had the focus |
| timers and signals (`signal.c`, `readfds.c`, the loops of `event.c`) | queue, alarm, flags, Xlib's queue, descriptors | set, reset, fire, sleep, register | a timer that is set fires, and not early; everything that comes is served |
| frame ids, session (`frameid.c`, `confws.c`) | ids, the files of workspaces, a property of each window | allocate, reorder, save, load, scan windows | an id means one frame; a window returns to its frame |
| bindings (`binding.c`, `key.c`) | sorted maps of bindings, the mapping of modifiers, grabs of keys | bind, look up, grab, wait for modifiers | what was bound last is found; locks do not matter |
| configuration (`readconfig.c`, `parser.c` and `tokenizer.c` of `libtu`) | stacks of sections and files, the section that handlers fill, a pushed back character | read a token, a statement, a section, include, skip | an error costs one statement; a number has its value |
| window properties, size hints, drawing, programs, input methods | none that outlives a call | | |

They interact by direct calls and through a few globals. X events reach the
window tree through `event.c`; keys go to the grab stack, and through it run
functions, which are the commands on the tree; queries live in frames and run
commands when they finish; destroying anything ends in `do_destroy_thing`,
which tells the grab stack, the focus and the query code.

## Modules

| module | models |
|---|---|
| `ThingTree` | the state of the window tree and every operation on it, as operators from state to state that follow the code call by call |
| `WindowManager` | the actions: X events, commands, command sequences, queries and their answers; extends `ThingTree` |
| `Placement` | what `WindowManager` promises about where clients and frames are, and implements |
| `WindowManagerProofs` | every operation of the tree keeps the tree whole, so does every handler; the refinement of `Placement` |
| `Edln` | the line editor as bytes in memory, its history and the selection |
| `EdlnProofs` | the buffer, the saved line and the ring of the history, for texts of any length |
| `Wedln` | the line editor on the screen, the list of completions, the choice among them |
| `Labels` | titles, rings of clients with one title, instance numbers |
| `LabelsProofs` | the rings, the walk of `use_label` and its end |
| `Grabs` | the grab stack and every handler that uses it, shortcuts, command and resize modes, the timer, the pointer loop |
| `Bindings` | a map of bindings, its search, the grabs of its keys, locks, the wait for the release of modifiers |
| `KeysProofs` | the inductive invariants of the grab stack, the shortcuts, the timer and the modes; the map of bindings in order, binary search, what the locks add, the wait |
| `SplitTree` | the tree of splits of one workspace: sizes, splits, resizes, removals, navigation, saving and reading |
| `FrameIds` | the identifiers of frames |
| `Session` | the files of workspaces, the properties of windows, starts, exits and crashes; extends and implements `FrameIds` |
| `SessionProofs` | the identifiers of `FrameIds`; the trees that are written, read, cut and restored, the frames and the windows of a session; the refinement of `FrameIds` |
| `ReturnProofs` | that what an exit saves comes back at the next start: texts of trees, how they are read, what is promised from the exit to the first command |
| `MainLoop` | the queue of timers, the alarm, signals, descriptors, the two loops that sleep |
| `MainLoopProofs` | the queue of timers in order, its alarm on, and no timer early |
| `Tokenizer` | the tokenizer, character by character |
| `Config` | the parser, token by token, and the handlers of the configuration |
| `ParserProofs` | the stacks of the parser and of the handlers, for any text and any limits; lines and numbers of the tokenizer, for texts and longs of any size |
| `MC*` | instances for TLC |

### ThingTree, WindowManager and Placement

The variable `wm` is the whole window tree as one record, because a handler is
a long sequence of calls that each change a part of it: `DetachClient(s, f, c)`
is `do_frame_detach_client` applied to state `s`, and calls `UnlinkClient`,
`DoFrameSwitchClient` and so on as the code does. An action of `WindowManager`
is one handler or command from its beginning to its end, including everything
that destroying a thing brings with it. Two loops are not one step:
`destroy_frame` moves its clients one at a time and `attach_tagged` attaches
them one at a time, so that the invariants are checked in between (`job` is the
loop in progress). A command sequence is a begin, any number of commands, and
an end, with `fthing` and `fframe` the thing and the frame it runs on.

Inputs are the windows that ask to be managed, whether they are transient and
for whom, whether they vanish before `manage_clientwin` is done, where the focus
is reported, and what a query is answered. The geometry of a tree of splits is
left out: a split adds a frame to a workspace, and a sister frame is any other
frame of it.

`Placement` has four variables and no lists, counts, windows or pointers: the frame
of each client, the client each frame shows, the workspace of each frame, and the
workspace on the screen. A client moves to a frame or goes when its last window
goes; when the client that is shown leaves, another one of the frame is shown; a
frame goes only when it is empty, and a workspace with its last frame. The
refinement mapping is `wm.frameOf`, `wm.cur`, `wm.wsOf`, `wm.curws`, and the property
`KeepsPlacement` says that every handler is one step of `Placement` or none.

### Edln

One editor at a time, as one query has the keyboard at a time in the runs, and a
history shared by all. The buffer is a sequence of bytes of the allocated size,
with junk where nothing was written, so that a missing terminator, a move that
overruns and a size that is not restored are visible. Characters are one
alphanumeric and one other, which is all the word motions tell apart.

### Wedln

Here a line is a sequence of widths, and `px` is what is on the screen: for every
column the column of a character in one of three colours. Each function of the editor
changes the line and asks for an update from some offset on, with or without a
move of the cursor, exactly as `edln.c` does with `UPDATE` and `UPDATE_MOVED`;
`Update` and `UpdateMoved` are `wedln_update_handler`, which draws from there. The
action `Expose` draws everything, and comes when the server has lost the picture.
So `Shown` compares what was drawn piece by piece with the line as it is.

The list is fitted as `fit_listing` does, in columns or, if it has one column only,
with items that take several rows; `first` is the row on top. `Complete` is
`edln_complete` with the answer of the completion handler as input: sorting,
`get_common_part_rmdup`, the list, and the replacement of the text before the
point. The program can leave the model: `fate` is "hangs" when `do_draw_listing`
does not end, and "crashes" when a row of a negative length is looked for.

### Labels

`list` is the global list of clients, the rings are `label_next`, `label_prev`
and `label_inst`, and `names` holds the names of the windows of each client,
the first of which is its title. `WalkStep` is one round of the loop of `use_label`,
which the code ends only when it finds a number; `FreePlace` takes as many as are
enough for any ring in order, and a walk that has not ended then, or ended
nowhere, counts as a failure.

### Grabs and Bindings

In `Grabs`, `call` is the handler on the C stack: a key that is bound starts it, each
function of the binding is a step, and a last step returns and removes the
grab, as `call_grab_handler` does, by the name it finds in the slot then.
Entries above the stack are kept while a handler runs, since it reads one.
The entry before the array, which `grab_remove` reads when the stack is empty,
has any value. A thing that is destroyed gives up one grab only, the highest it
holds (`grab_remove_for`), and `call_grab_handler` does not ask whether the holder of the
grab on top still exists: so a handler may be called with a frame that is gone, and its
functions too (`call.freed`, `Target`). The freed frame is as its destructor left it, or a
new frame when one has been allocated there (`SplitFrame`); a crash is a behaviour that
ends. `leftover`, a history variable, says that something was destroyed that held
more than one grab, the one way to get there. Frames and client windows come and go; a line editor is a window
without grabs. The pointer loop is the state `mouse`. `looked` is the map in which
the last key was looked up.

`Bindings` says what a look-up finds. `map` is the array that `add_binding` keeps
sorted and `lookup_binding` searches; `bound`, a history variable, is the set of what
was bound last, which the search is compared with. `evil` is what `lookup_evil_locks`
found for Num Lock and Scroll Lock at the start, `modmap` the mapping as it is now. `grabs` are the keys and states that come to
the frame instead of to the client's window. The keys that are held and the locks
that are on are the environment.

### SplitTree

The record `tree` is the heap of `WWsSplit`s and frames with the pointers between
them. A resize is two passes, as in the code: `CalcResize` (down) and `WCalcRes`
(up) note in each split what one of its sides will get, and `DoResize` gives it
out. The notes, `knowsize` and `tmpsize` in the code, live in the splits from one
operation to the next; here they are a `plan` that is empty when an operation
begins, and `ResizeNotBroken` says that none is used that this operation did not
make, so nothing is lost by forgetting the old ones. A resize in resize mode is
one step, from its beginning to its end: while the mode is on no other function
of the tree can run (see `Grabs`), and what is applied in the end is what was
decided last for the tree as it was. The sizes asked for are any from 0 to more
than fits; rounding to the units of the font chooses among these. The geometry of
a node is an extent in each direction, and `Restart` reads a layout back with
the ratios that were saved, on the same screen: on a smaller one frames could
begin below the minimum, which the model leaves out.

The workspace is the only one, so its last frame is not destroyed. `WindowManager`
does not use the tree: it lets a split succeed or not and lets any other frame of
the workspace be the sister.

### FrameIds and Session

`FrameIds` is `frameid.c` alone: `new_frame_id`, `use_frame_id`, the release of an id when
a frame goes, and `reorder_frame_ids`. `Session` is everything that uses it across
runs of the program. `file` holds, for each screen, the lines that
`write_workspaces` has written, or what is left of them when the program was
killed or the disk was full while it wrote, or what a user has written by hand. `Start`
forgets all that was in memory. The file is then read item by item, as the
handlers of `confws.c` do, with `reader` the sections that are open and those that
are skipped; the windows that are there are scanned and put into the frame that
their property names; and the program runs, splits, moves, closes, and ends in order
screen by screen, or is killed at any step. The sizes of splits are in
`SplitTree`. `Session` implements `FrameIds`: its steps that touch ids are those
of `FrameIds` (property `IdsSpec`), so the theorems about `FrameIds` hold in it.

### MainLoop

`pc` is where the loop is: about to look at the flags, in the loop over the queue of
timers, looking at the queue of Xlib, asleep in `select`, in the callbacks of
descriptors, in a handler. Signals, X events, input and time come at any of these.
Time is a number of ticks in the current second, and the times of timers are
`tv_sec` and `tv_usec` relative to it, since the code borrows from one for the
other. A handler may set or reset any timer, register descriptors, or begin the inner
loop of a pointer drag (`grabbed`), which waits for events of the button only.
`MainLoop` replaces the timer of `Grabs`, which may fire whenever it is set.

### Tokenizer and Config

Both read a text that is chosen as it is read, so that one behaviour of the model is
one text. `Tokenizer` has a mode for each scanner; a character is one of those that the
code tells apart. `num` is the number that is read, as the code computes it, of `Bits`
bits, beside `value`, what the digits mean; `eaten` counts the newlines that `scan_char`
takes for a character. `Config` takes one step per token: `stmt` is the statement that
is read, `stack` the sections that are open, `errornest` those that are skipped, `braces`
what the text has opened, `tmp` what the handlers are filling, `files` the files that
include each other. A command typed by the user is parsed by the same functions.

## Runs

| run | instance | shows |
|---|---|---|
| `window_manager` | 2 windows, 2 clients, 2 frames, 2 workspaces; 670 209 states | the tree, what is shown and the pointers stay sound; `Placement` is implemented |
| `edln` | texts of at most 2 characters, blocks of 2 bytes, history of 2 lines; 624 438 states | the buffer, the saved line and the history ring stay sound |
| `query_window` | lines of at most 3 characters, 4 sizes, 4 answers; 43 164 states | the picture is the line, the list scrolls over all rows, completion is right |
| `labels` | 4 clients, 5 windows, 2 titles; 230 629 states | the rings stay closed and in order |
| `grabs` | 2 frames, 1 client window, 2 shortcuts, 3 slots, two functions per binding; 5 545 921 states | the stack, the X grab, the modes and the shortcuts stay sound |
| `grabs_submap` | with 1 editor, 1 shortcut, 4 slots, one function per binding | violation: submaps do not work in a line editor |
| `bindings` | 6 keys, 8 bindings of which 3 are made, 2 mappings; 222 472 states | look-ups find what was bound, locks do not matter, the wait ends |
| `split_tree` | 4 frames, 3 splits, screen of 3 by 5, minimum 1 by 2; 22 676 states | tiles, sizes, neighbours and the saved layout stay right |
| `session` | 3 frames, 2 windows, 2 screens, 3 starts, 2 commands; 552 724 states | what was saved comes back, ids stay distinct, after crashes too |
| `main_loop` | 2 timers, 1 descriptor, 2 ticks to the second, delays of 1 and 3; 1 099 588 states | timers fire, in order and in time; everything is served |
| `tokenizer` | texts of at most 10 characters, longs of 5 bits; 234 935 states | lines are counted, numbers have their values, every text ends |
| `config` | texts of any length, 2 levels of sections, 2 of skipped ones, 2 files; 3 347 354 states | sections and handlers agree with the braces of the text |

What the properties relate:

- `window_manager`: `TreeConsistent` both directions of every link, the current client
  and the count of a frame; `ExactlyCurrentShown` the tree and what X was told;
  `PointersSound` the globals that outlive a handler and what it destroyed;
  `NewClientGetsFocus` and `KeepsPlacement` are about steps.
- `edln`: `EditsKeepLineSound` is about every operation that changes the buffer,
  `SavedLineWhileBrowsing` the two lines of an editor in the history, and
  `HistoryIsNewestFirst` compares the ring with a list.
- `query_window`: `PictureTrue` compares the picture with the line after every step and keeps
  the cursor in view, `ListingScrolls` compares scrolling by items and rows with rows
  counted from the top, `CompletionRight` the result with a definition of the common part.
  The exceptions that they make are named in the section on what the code does wrong.
- `split_tree`: `LayoutSound` relates the tree, the geometry and what maximizing left
  behind; `SizesAreBest` compares the two passes with a definition of the sizes
  that are possible (`Fits`), which knows nothing of them; `RubberBandTrue` is about
  what the user was shown, `NeighbourAdjacent` about the order in the tree and on the
  screen, `CurrentStays` and `RestartKeepsLayout` about steps.
- `grabs`: `TopUnmarked`, `KeyboardFreed` and `ModesHeld` relate the stack with the X grab,
  the modes, the timer and the things that exist, `ShortcutsMatch` two tables, and
  `OnlyOwnGrabRemoved` is about the end of a handler. They hold also after the code has
  called a handler with freed memory, except for what they say that memory takes away
  (`leftover`).
- `bindings`: `BindingsFound` compares the binary search with the set of bindings, for
  every set of locks; `WaitEnds` is about the release of the last key.
- `session`: `FramesKnown` relates the tree that was read, the frames, the clients and the
  properties of windows; `ComesBack` what is there after a restart and what was saved before;
  `IdsDistinct` and `IdsSpec` are about ids.
- `main_loop`: `TimersSound` relates queue and alarm, `FiresOnTime` a timer and the
  clock; `TimerFires` and `EverythingServed` are liveness.
- `tokenizer`: `LinesCounted` and `NumberExact` compare with what was read, `EndsAtEof` is
  liveness. `config`: `SectionsMatch` compares the stacks of the parser with the
  braces of the text, `HandlersFollow` those of the handlers with the parser's.

### Bounds

- Two of each thing in `WindowManager` give a frame with two clients, a client with a
  transient, a sister frame to move clients to, a workspace to switch to, and a client
  and a frame that are destroyed while others stay. A third would repeat these.
- `AllocUnit` is 2 instead of 16 so that short lines cross the boundary at
  which the buffer grows and shrinks; `HistorySize` 2 so that the ring wraps;
  `MaxLine` bounds the length of the line, `MaxUnsound` the number of times the
  unsound step of the code (see below) may be taken.
- In `Wedln` characters are 1 and 2 wide and the windows 2, 3 and 5, so that one
  character, some, or all of a line fit, with a prompt of 1; there is room for
  0 to 3 rows of the list. The answers are none, one, and three completions of which
  two are the same or one is the beginning of another. Rows of two items to the
  line and items of two rows both occur.
- Four clients of two titles make a ring of three beside another ring, and a
  gap in the numbers at any place; `MaxWindows` bounds the windows of all.
- Four frames give a split in one direction between two of the other, so that a
  resize climbs through splits across it; three levels are all combinations of
  across and along that `WCalcRes` tells apart. The minimum differs in the two
  directions, and on a screen of 3 by 5 there are frames of an odd size to split,
  frames too small to split in place, room to spare in one direction only, and a
  screen that is full.
- `MaxGrabs` is 3 instead of 10, so that the stack gets full and refuses a grab in the run:
  two functions and a wait on top of a submap are enough. `MaxCommands`, the functions that
  a binding runs, is 2: one gives up a grab and the next takes its slot, or one destroys a
  frame and the next goes on.
- Three bindings are the least of which one can be in the middle; the eight there are
  have one key or any, no, one or any modifier, and two actions. Shift has two keys. Num and
  Scroll Lock are on two modifiers, which with Caps Lock makes all the combinations that the
  second grab of `evil_grab_key` is for; a change of the mapping moves Num Lock to the other
  modifier and takes Scroll Lock away.
- `INT_MAX` is 14, where ids begin at 9, so that the counter reaches its end and frames are
  numbered anew; `FRAME_ID_REORDER_INTERVAL` is 4. The files written by hand have a
  frame with the last id and one below the first, an id twice, a split with three
  sides and a workspace without frames. `MaxStarts`, `MaxCommands` and `MaxFrames` bound
  the starts, the commands over all of them and the frames of each screen: one run to save
  a layout, one to read and change it, one to read it again.
- A second of two ticks, with timers after one and three of them, lets a time be less
  than, equal to and more than another in seconds and in the rest, and a second be
  borrowed. The delay of three is `CF_RESIZE_DELAY`, 1500 ms: it lends a second that
  `setitimer` then refuses, both when timers have fired and when a handler sets another one. An event of each kind, an input of one descriptor and one signal are on their
  way at a time.
- Ten characters hold a comment, a string with an escape or a number of every base that
  overflows 5 bits, between other tokens.
- `MAX_TOKENS` is 3 and `MAX_NEST` 3, so that a statement and a stack can be too long;
  `MaxErrors` and `MaxFiles` bound the sections that are skipped inside each other and the
  files that include each other. Texts have no bound.

Symmetry is used where the members of a set are interchangeable, and never in a run
with a liveness property. `edln` is checked without the deadlock check, as the bounds
on the line may leave no step, and so is `query_window`, as the program may hang or crash
there; every other run checks for deadlock, and a program that has ended stutters.

### Fairness

- `MainLoop`: weak fairness of `Loop`, because the loop is the program, which the
  system runs, and handlers return; and of `Tick`, because time passes. Nothing else is
  fair: no event, input or signal need come, and no handler need set or reset a
  timer. `TimerFires` excepts the timer that is set again and again.
- `Tokenizer`: weak fairness of the scanners, because the caller asks for tokens until it
  gets the end of the text, and a text is finite.
- The other modules state no liveness property: they react to the user and to other
  programs and promise no progress by themselves.

## What the code does wrong

Checked by a run that finds it:

- A submap in a line editor is entered and left at once: `handle_keypress` sets the map
  back before it looks up the key (`key.c:166`), against `etc/bindings-default.conf:107`
  (`grabs_submap`).

Named in the exceptions of properties, or left to the README, with the line where it happens:

- Grabs: `grab_remove_for` marks one grab of a thing that is destroyed (`grab.c:138-151`), and
  `call_grab_handler` asks no holder whether it exists (`grab.c:70-72`). A frame gets two when
  functions of its bindings take grabs at a press and at the release of a button, or one after the
  other, or when a key of a submap takes one. A button press runs `set_shortcut`, the release
  enters command mode, a key of command mode destroys the frame: `setshortcut_handler`
  is on top with a frame that is gone, and its next key puts that into
  `wglobal.shortcuts`. Or a key of a submap that is bound with `kpress_waitrel` enters
  command mode, and the frame is destroyed there: then `submap_handler` gets the next
  key, with the map of a window that is gone. The properties of the run make their
  exceptions for `leftover` only.
- Grabs: `call_grab_handler` removes whatever handler is in the slot it dispatched to
  (`grab.c:96`). A binding of two functions, leaving command mode and then asking for a
  shortcut, puts the new grab there and loses it, although `grab.h:19` says that a handler
  that returns TRUE has its own grab removed. `OnlyOwnGrabRemoved` excepts the other entries
  in that case (a slot whose handler is not the one that ran); what it says of the
  handler's own grab holds there, too.
- Grabs: a full stack refuses a grab without a word (`grab.c:110`), and command mode or
  resize mode is then on without its grab, as it is after the frame that held its
  grab is destroyed (`command.c:62`). Keys go to the next entry, or
  to `handle_keypress`; command mode can still be left, resize mode cannot by a key.
  `ModesHeld` does not ask a mode for its grab. A key of a submap bound with modifiers and
  `kpress_waitrel` makes `dispatch_binding` return FALSE (`key.c:76`), so that the grab of
  the submap stays below and takes later keys.
- Focus, found by reading and not in the model: `handle_focus_in` does not ask whether the
  window is visible (`event.c:605`). A handler that hides a frame leaves
  `focus_next` set, and `mainloop` then drops the FocusIn events that are queued
  (`event.c:256`), for which `FocusIn` of `WindowManager` has its guard: a frame on the
  current workspace. But a query in a frame that has been hidden since, answered by a key that was
  queued before, moves a client to the hidden frame (`query.c:203`) with no focus to
  set, and a FocusIn that was queued for that client then makes the hidden frame the active one.
- Labels: closing the first window of a client changes its title without moving it to
  the ring of the new title (`client.c:83`), so that two clients may have one label.
- Editor: `edln_history_next` restores the saved line without its size (`edln.c:551`), so
  `kill_line` leaves text behind; `EditsKeepLineSound` excepts that step only. The mark
  is not moved when text before it is deleted, and `copy` then reads beyond the line
  (`edln.c:428`).
- Window of a query: setting the mark anew draws nothing, so that what was selected before
  stays coloured. Cutting text that begins left of the view does not scroll, and a
  section of negative length is drawn. After a delete the view is not moved although a
  wider character may have come under the cursor. Resizing the frame so that the
  query's window keeps its size moves the beginning of the line or of the list without drawing
  either. If there is no room for a row of completions `do_draw_listing` does not end; if
  the window is narrower than a wrapped row `getbeg` returns less than 0 and the string
  is read from before its beginning. A string as wide as the window gets a second, empty row.
- Bindings: one with Lock in its state is never found, and the locks are looked up once only,
  although `MappingNotify` can change them.
- Main loop: the borrowed second (`signal.c:34`) lets a timer fire up to a second early; if
  it was borrowed before, a second or more is left in `tv_usec`, `setitimer` refuses it, the alarm
  stays as it was and the queue is looked at once more at the next wake-up (`signal.c:64`).
  X events that keep coming starve other descriptors. A signal between `check_signals` and
  `select` is obeyed at the next wake-up only. A callback that unregisters its own
  descriptor would free the node whose `next` is read after it (`readfds.c:63`); only
  modules could register one, and the model's callbacks do not.
- Tokenizer: `*` before `*/` keeps a comment open; a newline in a character constant is not
  counted; `1e3` is read as the long 1; the test for overflow misses some numbers; an
  escape looks up `specials[c]` for any `c`.
- Parser: an error token or a `,` just before `}` swallows the brace. An option
  that opens a section and refuses it while it returns TRUE (`opt_submap`) lets the
  end of the section pop its parent, and the next binding is added to no map. A
  section that is open at the end of an included file goes on in the file that
  included it. `is_default` is never reset. `doc/config.txt` names a section
  `edln_bindings`, which the code calls `input_bindings`.
- Session: `reorder_frame_ids` is due at `(cntr-START)&1024==1023`, which is never true, so ids
  are numbered anew at `INT_MAX` only; if that happens while the program ends, after a
  file has been written, the windows' properties no longer agree with it. A transient
  that becomes the first window of its client keeps the property it had. A name of a
  workspace with `"` in it is written as it is, and the workspace is lost. The
  file is truncated before it is written, so that a crash loses it. A split with
  sizes `0,0` in a file divides by zero.

## Proofs

Every theorem is about all values of the constants that satisfy the assumptions of its
module. They are proved from an inductive invariant: it holds at first, every step keeps
it, and the property follows from it. What the assumptions say beyond types:

- `ThingTree`: windows, clients, frames, workspaces and inputs are different things
  (`ClassesAreDisjoint`, `InputsAreApart`), as objects in memory are.
- `Edln`: a NUL is no character, what has not been written is no NUL, and no line is
  the mark of an entry without one.
- `Config`: a statement has room for two tokens and the stack for two sections, a text is
  read from some file.
- `Tokenizer`: `LongAssumption` says of powers of two that a long holds a digit and an
  unsigned long twice as much; the provers know nothing of powers.
- `Bindings`: a key is on one modifier only, which the wait needs and the search does not;
  `MaskAssumption` says that a mask tells which bits it has.
- `Labels`, `FrameIds`: finitely many clients and frames, and room for an id for each frame.

The arguments:

- `WindowManagerProofs`: `TreeCorrect`, `ShownCorrect`, `PointersCorrect`,
  `FocusFollows`, `TypeCorrect`, and `ImplementsPlacement`, the refinement. A handler is
  a sequence of calls, and half way through it links are made in one direction only and a
  current client is on its way out, so no property of the tree is kept by each call. The
  lemmas say of each operation of `ThingTree` which parts of the invariant it keeps and
  which it breaks for which client or frame, as the code relies on it: `ShownBut(s, X)` is
  what is shown except for the windows of the clients in `X`, `Listed(s, X)` is the list of
  clients except for them. A handler is then a composition of these. `IInv` is `Whole(wm)`
  (both directions of the links, one current client in every frame that has clients, what
  is shown, the list of clients, the workspaces and the frames that are mapped, the
  pointers), the protection of `previous` balanced, a thing to run on in a command
  sequence, and a loop in progress between frames that are there.
  Of these the properties need two that they do not state: a frame that has
  clients has a current one, or detaching could leave a frame that shows nothing, and the query
  a sequence runs on is in a frame of the current workspace, or the end of the
  sequence could give the focus to a frame that is not on the screen.
  `StepSound` is what each step does to the invariant, the focus and the placement at once.
- `KeysProofs`, on grabs: `TypeCorrect`, `StackSwept`, `KeyboardIsFreed`, `ShortcutsStayMatched`,
  `ModesAreHeld` and `OwnGrabsRemoved`, for any number of slots and of functions to a binding.
  `IInv` adds to the properties that grabs of `setshortcut_handler` are held by frames,
  without which a key could give a shortcut to something that is no frame, and that
  unless `leftover` every entry that counts is held by something that exists (`StackInv`).
  Every operation of `grab.c` keeps the stack typed and swept, and leaves the keyboard grabbed
  only for an entry of the stack, if it was so before (`Keeps`); removing everything that is
  marked rests on the existence of a highest unmarked entry (`HighestIsHighest`).
  That a destroyed thing which held one grab holds none that counts afterwards is why
  `leftover` is the only exception. A submap is only ever at the bottom of the stack
  (`Bottom`), so that a handler which runs functions is that one or command mode (`CallInv`);
  an entry of command mode that counts is the highest one, and the mode is on (`Modes`),
  so that leaving the mode leaves none. The timer needs `Timed` besides: while it runs, nobody
  runs functions, no button is down and the grab of resize mode is on top.
- `EdlnProofs`: `EditsAreSound`, `SavedLineIsKept` and `PushesPutFirst`, for texts of any
  length, any unit of allocation and any size of the history. What each function promises
  is `Keeps`: it leaves the history, the saved line and the entry alone, and a buffer that
  is sound (`Good`: terminated at its size, as long as was allocated, with the point in it)
  stays so. `EdInv` adds what the ring of the history is (`Ring`): the head and the
  number of lines determine which entries are there, so that the entry an editor is on
  is one that exists; without it a push could free the line that is shown.
- `LabelsProofs`: `LabelsInOrder`, for any clients, titles and number of windows. The
  invariant `LabelsInv` says that the rings go through classes of clients (`Classes`), each
  client followed by the one with the next number of its class (`InOrder`): with `Follows`
  as it is stated, order is a property of neighbours that says something about all. A
  client that leaves joins its neighbours (`FollowsOver`), one that comes is linked into
  a gap (`FollowsBetween`). That `use_label` finds a gap is the end of its walk: every step
  goes to a client with a higher number, or is the first that is past the highest
  one, so the clients that are higher and the rounds to go decrease (`ToGo`, `StepsOn`), and two
  rounds are enough (`FindsAPlace`). A recursive function is reasoned about as
  the least solution of its equation, which is shown to exist by induction on a set of
  numbers (`WalkExists`, `Upwards`).
- `SessionProofs`: `IdsAreDistinct` and `CounterIsAhead` are about `FrameIds`: `IdsDistinct`
  alone is not inductive, as a new id is the counter plus one, which is new only because no
  id is above the counter; and that is so after `use_frame_id` has taken an id from a file
  only because the counter follows it. Numbering anew gives each frame its place in the walk
  over the frames, and two places differ (`LaterIsGreater`, `NumbersDiffer`).
  `FramesAreKnown`, `SessionIdsDistinct` and `SessionImplementsIds` are about `Session`, for
  any screens, windows, files written by hand, and numbers of starts. Their invariant,
  `SessionInv`, has two parts (TLC finds it true on the instance of the run `session`, too; it is
  not among the properties of the run).
  `WorkspacesInv` is about trees and files: what is in a file is a sequence of items, whatever
  happened to it (`FilesType`); each workspace is a tree whose leaves are frames that are there,
  and each frame that is there is in one place of one tree (`FramesInv`); while a file is read,
  the sections on the stack of the reader hold the rest of the frames (`ReaderInv`), among them
  the halves of splits that are not complete, which `KeptOf` keeps or gives up; after the
  program has left a screen, none of its frames is there (`LeftInv`). `ClientsInv` is about windows:
  a client has its frame, no window is in two clients, and the owner of a client, while it has
  one, is its first window and bears the id of the client's frame (`ClientOk`). The last
  is what `FramesKnown` says of properties, made inductive: the owner is the window that
  the client was created for, whose property `set_client_frame_id` writes; a client whose
  owner has left may have a transient as its first window, of which nothing is claimed
  (see the section on what the code does wrong).
  A tree is reasoned about by its depth: what `Leaves`, `Replaced` and `Shallow` compute is proved
  for trees of each depth from that of the depth below (`Trees` is the union over depths). The
  refinement rests on `Place`, which puts the frames of all screens into one order,
  being an order of the walk that `FrameIds` allows (`Walk`).
- `ReturnProofs`, on top of `SessionProofs`: `WorkspacesComeBack`, that is `ComesBack`
  for any screens, workspaces, windows and starts. It relates the reader, a machine with a stack, to the writer, a
  recursion over trees. What the writer makes of a tree is a member of the least set of texts
  that has the frames and is closed under splits (`Texts`, and `Layouts` for files), and what
  is proved of a text by that closure is that it ends where its tree ends (`Closing`). While
  a file is read (`Midway`), the file is what was read so far, written again, with
  a rest in which every open section finds the sides it lacks and its end. A frame that is
  read, a split that begins and a section that ends each keep this, so that at
  the end of the file what is written again is the whole file.
  The invariant is `SessionInv /\ ReturnInv`. In `ReturnInv`, `SingleInv` says that no frame is twice in
  a tree, without which a text would have an id twice and `use_frame_id` would refuse it;
  `ScreensInv` which screens have workspaces, `ManagedInv` which windows have clients, `BareInv`
  and `HomesInv` that a window which has a property is there, and its client's frame on its
  screen, so that the frame a window was in is looked for on the screen whose file
  has it. `SavingInv` is about an exit: the files written so far are texts of trees (`Sound`),
  the ids of two screens differ, and the property of each window is an id in the file of its screen,
  or of a frame of its screen if that is not written yet. `HeldInv` is about the next start, until
  the first command: the files are those that were saved, the screens that have been read
  write the same files again, and the ids in the rest are free (`Resumed`). That they are
  free is what `use_frame_id` and `find_frame_by_id` need, and a crash while files are read
  or windows are scanned changes none of this. `PromiseInv` types what the promise is compared with.
- `KeysProofs`, on bindings: `BindingsAreFound` and `WaitIsOver`, for any keys, modifiers, bindings and
  mappings. `BindingsInv` says that the map is sorted, that what it contains is what was
  bound last, and that the grabs are those of the bindings. That binary search returns the
  place of a binding, if there is one, is an induction on the range that is left
  (`FindIsPlace`), and the order is total because masks differ. With each of the eight sets of
  Num, Scroll and Caps Lock, on any modifiers or on none, the state of a key is one that
  `evil_grab_key` grabs (`EveryLock`), and what `lookup_binding` tries is the
  same as without them (`LocksDoNotMatter`).
- `ParserProofs`, on the tokenizer: `LinesAreCounted` and `NumbersAreExact`, for texts of any length, numbers
  of any digits and a long of any width. The first needs that a character pushed back is no
  newline from beyond the end of the text; the second, that a number in progress has its
  value while that is below the limit (`Exact`), and past the limit is not taken for one.
- `ParserProofs`, on the parser: `SectionsAreMatched` and `HandlersAreFollowed`, for any text, levels of
  sections and files. `ParserInv` says in addition which tables of options can be open at
  which level (`Tables`), and that the end of each section on the stack leads back to the
  target of the one around it (`Targets`), which is what makes the handlers follow when
  several sections end.
- `MainLoopProofs`: `TimersAreSound` and `TimersFireOnTime`, for any number of timers, any
  delays, any length of a second and any number of descriptors. Both properties follow from
  `IInv`: the queue is in order (`Ordered`), an alarm is on while a timer waits (`Armed`), and
  the microseconds of a waiting timer stay below two seconds although `do_set_timer` may
  borrow from the first one. A timer is put before the first one that it is not later than,
  a place that exists because the numbers are well-founded (`PlaceExists`); to `TIMEVAL_LATER`
  a first timer that lends a second only becomes earlier; and the alarm is on when the first
  timer is already due, because it was on before: a timer just set is not due, so the first
  one is an older one. It is on when `setitimer` refuses, too: only a time from which a second was
  borrowed before is refused, so its timer has been waiting since, with the alarm on, which stays.
  `IInv` also says that `select` has seen X only if there was something to read, which the
  type of the events read needs.

Checked by TLC only:

- `SplitTree` and `Wedln`: their functions recurse over a tree or a list of rows
  (`RECURSIVE` operators), which the prover does not take.
- Liveness: `TimerFires`, `EverythingServed`, `EndsAtEof`.

Every theorem's property is checked by TLC too, on the instances of the runs above.
`CounterAhead` is not: it is part of what makes `IdsDistinct` inductive.


## Not modelled

- Drawing, fonts, cursors and messages: output to the X server.
- The start of programs, the listing of files and input methods: calls to the system with
  no state between them.
- Window properties (`winprops.c`): look-ups whose outcomes are inputs of `WindowManager`.
- Size hints (`sizehint.c`) and the geometry of client windows in their frames.
- The transfer of the selection to other programs; the arguments of functions.
- Modules, the start of the program, options of the command line; the rest of `libtu`.
- The UnmapNotify events of the program's own reparenting and hiding, which it masks, and the
  dropping of focus events (`kill_focusenter_events`), which is a guard of `FocusIn` in
  `WindowManager` and left out of the queue of `MainLoop`; see the section on what the code does wrong.
- `grab_suspend` and `grab_resume`, which are never called; failure of memory
  allocation; signals that crash the program.

## What could follow

1. Proofs: the functions of `SplitTree` as recursive functions on a
   rank of the nodes, so that `LayoutSound` can be stated as a theorem.
2. Size hints and the geometry of client windows, beside the sizes of frames.
3. Arguments of functions, and the history and completion of files.
4. `WindowManager` over `SplitTree`, with the sister frame that the tree gives.
