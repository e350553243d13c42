------------------------------ MODULE Session -------------------------------
(***************************************************************************)
(* What outlives the program: the files of workspaces (confws.c), one for  *)
(* each screen, and the property of each window that names its frame       *)
(* (clientwin.c, frame.c).  The program starts, reads the files, finds the *)
(* windows that are there, works, and ends in order or is killed, also     *)
(* while it reads or writes.                                               *)
(***************************************************************************)
EXTENDS FrameIds, SequencesExt

CONSTANTS
  Window,
  TransientFor,  \* [Window -> Window \cup {NULL}]: WM_TRANSIENT_FOR
  NULL,
  Screens,       \* the number of screens
  HandMade,      \* the files there may be at first, as a user may have written them
  MaxDepth,      \* bound on the splits that are in each other
  MaxFrames,     \* [1 .. Screens -> Nat], bound on the frames of each screen
  MaxStarts,     \* bound on the starts of the program
  MaxCommands    \* bound on the commands, and on the windows that come and go meanwhile

Screen == 1 .. Screens

\* The lines of a file of workspaces; an id is an int.
Items == [k : {"workspace", "unreadable", "split", "frame", "end"}, id : 0 .. INT_MAX]

\* A split tree is NULL, a frame or a split of two trees.
Atoms == Frame \cup {NULL}
TreesOf[n \in 0 .. MaxDepth] ==
  IF n = 0 THEN Atoms ELSE TreesOf[n - 1] \cup [tl : TreesOf[n - 1], br : TreesOf[n - 1]]
Trees == TreesOf[MaxDepth]

ASSUME SessionAssumption ==
  /\ TransientFor \in [Window -> Window \cup {NULL}]
  /\ NULL \notin Window \cup Frame
  /\ {Screens, MaxDepth, MaxStarts, MaxCommands} \subseteq Nat \ {0}
  /\ MaxFrames \in [Screen -> Nat \ {0}]
  /\ HandMade \subseteq [Screen -> Seq(Items)]

\* A frame is not a split.
ASSUME AtomsAssumption == Atoms \cap [tl : Trees, br : Trees] = {}

VARIABLES
  phase,      \* "down", "read", "scan", "run", "write", "deinit"
  scr,        \* current_screen: the screen that is read, scanned, written or left
  files,      \* of each screen, the text of its file, a sequence of items
  ws,         \* of each screen, its workspaces: name, splitree, and the children in order
  reader,     \* rest of the text, splits that are open, sections to skip
  clients,    \* records: wins in order, frame, and owner, the window it was created for
  prop,       \* _PWM_FRAME_ID of each window, 0 for none
  root,       \* the screen of each window, 0 when it does not exist or is not mapped
  promise,    \* what the last exit has saved, for ComesBack
  starts, commands

sessionVars == <<phase, scr, files, ws, reader, clients, prop, root, promise, starts, commands>>
vars == <<idVars, sessionVars>>

-----------------------------------------------------------------------------
(* Workspaces. *)

Children(w) == ToSet(w.wins)
FramesOf(s) == UNION {Children(ws[s][i]) : i \in DOMAIN ws[s]}

\* seq without e, which is in it once.
Unlinked(seq, e) == IF e \in ToSet(seq) THEN RemoveAt(seq, CHOOSE k \in DOMAIN seq : seq[k] = e) ELSE seq

\* The walk over screens, workspaces and frames does not come by g after f.
NotAfter(g, f) ==
  \E s, t \in Screen : \E i \in DOMAIN ws[s], j \in DOMAIN ws[t] :
    \E k \in DOMAIN ws[s][i].wins, l \in DOMAIN ws[t][j].wins :
      /\ ws[s][i].wins[k] = g /\ ws[t][j].wins[l] = f
      /\ s < t \/ (s = t /\ (i < j \/ (i = j /\ k <= l)))

\* Mutant: the frames of a screen have one place.
PlaceOfScreen == [f \in Live |-> CHOOSE s \in Screen : f \in FramesOf(s)]

\* The place of each frame in the walk.
Place == [f \in Live |-> Cardinality({g \in Live : NotAfter(g, f)})]

IsSplit(tree) == tree \notin Atoms

\* The frames of a tree, and NULL for each side that is missing.
Tips[tree \in Trees] == IF IsSplit(tree) THEN Tips[tree.tl] \cup Tips[tree.br] ELSE {tree}

Leaves(tree) == Tips[tree] \ {NULL}

\* tree with frame f replaced; a split that loses a side is removed.
Replaced(tree, f, new) ==
  LET replaced[t \in Trees] ==
        IF ~IsSplit(t) THEN IF t = f THEN new ELSE t
        ELSE LET tl == replaced[t.tl]
                 br == replaced[t.br]
             IN  IF tl = NULL THEN br ELSE IF br = NULL THEN tl ELSE [tl |-> tl, br |-> br]
  IN  replaced[tree]

\* write_obj, dodo_write_workspaces: items are the lines.  A name with a quote in it is
\* written as it is, and cannot be read.
Item(k, id) == [k |-> k, id |-> id]

WriteObj[tree \in Trees] ==
  IF tree \in Frame THEN <<Item("frame", frame_id[tree])>>
  ELSE IF ~IsSplit(tree) THEN <<>>
  ELSE <<Item("split", 0)>> \o WriteObj[tree.tl] \o WriteObj[tree.br] \o <<Item("end", 0)>>

WriteWorkspaces(s) ==
  FlattenSeq([i \in DOMAIN ws[s] |-> <<Item(ws[s][i].name, 0)>> \o WriteObj[ws[s][i].splitree]
                                        \o <<Item("end", 0)>>])

\* What is left of a text when its writing is cut short, maybe in the middle of an id.
Cut(text) ==
  LET short(n) == SubSeq(text, 1, n) IN
  {short(n) : n \in 0 .. Len(text) - 1}
    \cup {Append(short(n), Item("frame", text[n + 1].id \div 10)) :
            n \in {m \in 0 .. Len(text) - 1 : text[m + 1].k = "frame" /\ text[m + 1].id >= 10}}

-----------------------------------------------------------------------------
(* Clients and their property. *)

\* set_client_frame_id for the clients of the frames given, with the ids that they get.
SetClientFrameIds(cs, fs, ids, old) ==
  [w \in Window |-> IF \E c \in cs : c.frame \in fs /\ Head(c.wins) = w
                    THEN ids[(CHOOSE c \in cs : Head(c.wins) = w).frame] ELSE old[w]]

\* reorder_frame_ids sets the property of the clients whose frame it renumbers.  due says
\* whether it does in this step.
Reordered(due) ==
  prop' = IF due THEN SetClientFrameIds(clients, Counted(frame_id'), frame_id', prop) ELSE prop

Managed == UNION {ToSet(c.wins) : c \in clients}

NoReader == [rest |-> <<>>, open |-> <<>>, skip |-> 0]
NoPromise == [kept |-> FALSE, at |-> 0, prop |-> [w \in Window |-> 0], files |-> <<>>]

Init ==
  /\ IdsInit
  /\ phase = "down" /\ scr = 0
  /\ files \in HandMade
  /\ ws = [s \in Screen |-> <<>>] /\ reader = NoReader /\ clients = {}
  /\ prop = [w \in Window |-> 0] /\ root = [w \in Window |-> 0]
  /\ promise = NoPromise
  /\ starts = 0 /\ commands = 0

-----------------------------------------------------------------------------
(* Reading the workspaces of a screen. *)

\* initialize, load_initial_workspaces
Start ==
  /\ phase = "down" /\ starts < MaxStarts
  /\ phase' = "read" /\ scr' = 1
  /\ reader' = [NoReader EXCEPT !.rest = files[1]]
  /\ starts' = starts + 1
  /\ UNCHANGED <<idVars, files, ws, clients, prop, root, promise, commands>>

Reading == phase = "read" /\ reader.rest # <<>>
Next1   == Head(reader.rest)
Depth   == Len(reader.open)

\* The item is read; the sections open are open, and those to skip are skip.
Read(open, skip) == reader' = [rest |-> Tail(reader.rest), open |-> open, skip |-> skip]

\* The side of a split, or the workspace, that is open last is set to tree.
Put(open, tree) ==
  LET n == Len(open) IN
  IF n > 1 /\ open[n].tl # NULL THEN [open EXCEPT ![n].br = tree] ELSE [open EXCEPT ![n].tl = tree]

\* check_splits fails.
Full == LET o == reader.open[Depth] IN (IF Depth = 1 THEN o.tl ELSE o.br) # NULL

Node == [tl |-> NULL, br |-> NULL]

\* opt_workspace: create_workspace, without a frame.
OptWorkspace ==
  /\ Reading /\ reader.skip = 0 /\ Depth = 0 /\ Next1.k = "workspace"
  /\ ws' = [ws EXCEPT ![scr] = Append(@, [name |-> "workspace", splitree |-> NULL, wins |-> <<>>])]
  /\ Read(<<Node>>, 0)
  /\ UNCHANGED <<idVars, phase, scr, files, clients, prop, root, promise, starts, commands>>

\* opt_workspace_split: the split is put in its place when it is full.
OptSplit ==
  /\ Reading /\ reader.skip = 0 /\ Depth > 0 /\ Next1.k = "split" /\ ~Full /\ Depth <= MaxDepth
  /\ Read(Append(reader.open, Node), 0)
  /\ UNCHANGED <<idVars, phase, scr, files, ws, clients, prop, root, promise, starts, commands>>

\* opt_workspace_frame
OptFrame(f) ==
  /\ Reading /\ reader.skip = 0 /\ Depth > 0 /\ Next1.k = "frame" /\ ~Full
  /\ InitFrameId(f, Next1.id, Place) /\ Reordered(InitReorders(Next1.id))
  /\ ws' = [ws EXCEPT ![scr][Len(ws[scr])].wins = Append(@, f)]
  /\ Read(Put(reader.open, f), 0)
  /\ UNCHANGED <<phase, scr, files, clients, root, promise, starts, commands>>

\* An option there is not, or for which there is no room: its section is skipped.
Skip ==
  /\ Reading
  /\ \/ reader.skip > 0 /\ Next1.k # "end"
     \/ Depth = 0 /\ Next1.k \in {"split", "frame"}
     \/ Depth > 0 /\ Next1.k = "workspace"
     \/ Next1.k = "unreadable"
     \/ Depth > 0 /\ Next1.k \in {"split", "frame"} /\ Full
  /\ Read(reader.open, IF Next1.k \in {"split", "workspace"} THEN reader.skip + 1 ELSE reader.skip)
  /\ UNCHANGED <<idVars, phase, scr, files, ws, clients, prop, root, promise, starts, commands>>

\* The end of a section that is skipped, or of none.
SkippedEnd ==
  /\ Reading /\ Next1.k = "end" /\ (reader.skip > 0 \/ Depth = 0)
  /\ Read(reader.open, IF reader.skip > 0 THEN reader.skip - 1 ELSE 0)
  /\ UNCHANGED <<idVars, phase, scr, files, ws, clients, prop, root, promise, starts, commands>>

\* A section ends, by its brace or at the end of the text.
Ends ==
  /\ phase = "read" /\ Depth > 0
  /\ ~(reader.rest # <<>> /\ (Next1.k # "end" \/ reader.skip > 0))
After == IF reader.rest = <<>> THEN <<>> ELSE Tail(reader.rest)

\* Mutant: a split that is not full stays.
KeptHalf(o) == o

\* What opt_split_end leaves of a split.
KeptOf(o) == IF o.br # NULL THEN o ELSE o.tl

\* opt_split_end: a split that is not full is removed, and its side put in its place.
OptSplitEnd ==
  LET o    == reader.open[Depth]
      rest == SubSeq(reader.open, 1, Depth - 1)
      tree == KeptOf(o)
  IN  /\ Ends /\ Depth > 1
      /\ reader' = [reader EXCEPT !.rest = After,
                                  !.open = IF tree = NULL THEN rest ELSE Put(rest, tree)]
      /\ UNCHANGED <<idVars, phase, scr, files, ws, clients, prop, root, promise, starts, commands>>

\* opt_workspace_end: an empty workspace is destroyed.
OptWorkspaceEnd ==
  LET tree == reader.open[1].tl IN
  /\ Ends /\ Depth = 1
  /\ reader' = [reader EXCEPT !.rest = After, !.open = <<>>]
  /\ ws' = IF tree = NULL THEN [ws EXCEPT ![scr] = SubSeq(@, 1, Len(@) - 1)]
           ELSE [ws EXCEPT ![scr][Len(ws[scr])].splitree = tree]
  /\ UNCHANGED <<idVars, phase, scr, files, clients, prop, root, promise, starts, commands>>

\* The text is over.  init_workspaces: there is at least one workspace.
EndOfText(f) ==
  /\ phase = "read" /\ reader.rest = <<>> /\ Depth = 0
  /\ phase' = "scan" /\ reader' = NoReader
  /\ IF ws[scr] # <<>> THEN UNCHANGED <<idVars, ws, prop>>
     ELSE /\ InitFrameId(f, 0, Place) /\ Reordered(InitReorders(0))
          /\ ws' = [ws EXCEPT ![scr] = <<[name |-> "workspace", splitree |-> f, wins |-> <<f>>]>>]
  /\ UNCHANGED <<scr, files, clients, root, promise, starts, commands>>

-----------------------------------------------------------------------------
(* Windows. *)

\* add_clientwin: the client it is a transient of; or a client of its own in the frame that
\* its property names, if that is on its screen, or in the current frame, which may be any.
AddClientwin(w) ==
  LET tfor  == {c \in clients : TransientFor[w] \in ToSet(c.wins)}
      named == FindFrameById(prop[w]) \cap FramesOf(root'[w])
  IN  IF tfor # {}
      THEN /\ clients' = {IF c \in tfor THEN [c EXCEPT !.wins = Append(@, w)] ELSE c : c \in clients}
           /\ UNCHANGED prop
      ELSE \E f \in IF named # {} THEN named ELSE FramesOf(root'[w]) :
             /\ clients' = clients \cup {[wins |-> <<w>>, frame |-> f, owner |-> w]}
             /\ prop' = [prop EXCEPT ![w] = frame_id[f]]

\* scan_initial_windows, in the order of the server, which may be any.
Scan(w) ==
  /\ phase = "scan" /\ root[w] = scr /\ w \notin Managed
  /\ UNCHANGED root /\ AddClientwin(w)
  /\ UNCHANGED <<idVars, phase, scr, files, ws, reader, promise, starts, commands>>

\* The next screen is read, or the program runs.
EndOfScan ==
  /\ phase = "scan" /\ \A w \in Window : root[w] = scr => w \in Managed
  /\ IF scr < Screens
     THEN phase' = "read" /\ scr' = scr + 1 /\ reader' = [NoReader EXCEPT !.rest = files[scr + 1]]
     ELSE phase' = "run" /\ scr' = 0 /\ UNCHANGED reader
  /\ UNCHANGED <<idVars, files, ws, clients, prop, root, promise, starts, commands>>

Running == phase = "run" /\ commands < MaxCommands /\ commands' = commands + 1

\* manage_clientwin: a window is mapped.
Map(w, s) ==
  /\ Running /\ root[w] = 0
  /\ root' = [root EXCEPT ![w] = s]
  /\ AddClientwin(w)
  /\ UNCHANGED <<idVars, phase, scr, files, ws, reader, promise, starts>>

\* deinit_clientwin: a window is closed or withdrawn; its client goes with its last one.
Unmap(w) ==
  /\ Running /\ w \in Managed
  /\ root' = [root EXCEPT ![w] = 0] /\ prop' = [prop EXCEPT ![w] = 0]
  /\ clients' = {c \in {[wins |-> Unlinked(d.wins, w), frame |-> d.frame,
                         owner |-> IF d.owner = w THEN NULL ELSE d.owner] : d \in clients} :
                   c.wins # <<>>}
  /\ UNCHANGED <<idVars, phase, scr, files, ws, reader, promise, starts>>

\* The properties when frame_attach_client has moved each of cs to f.
MovedProp(cs, f) ==
  [w \in Window |-> IF \E c \in cs : Head(c.wins) = w THEN frame_id[f] ELSE prop[w]]

Moved(cs, f) == {IF c \in cs THEN [c EXCEPT !.frame = f] ELSE c : c \in clients}

\* A client is attached to another frame of its screen; windows cannot change the screen.
Attach(c, f) ==
  /\ Running /\ c.frame # f /\ \E s \in Screen : {c.frame, f} \subseteq FramesOf(s)
  /\ clients' = Moved({c}, f) /\ prop' = MovedProp({c}, f)
  /\ UNCHANGED <<idVars, phase, scr, files, ws, reader, root, promise, starts>>

-----------------------------------------------------------------------------
(* Frames. *)

Room(s) == Cardinality(FramesOf(s)) < MaxFrames[s]

\* There is room for a split in a tree, or above it.
Shallow(tree) == tree \in TreesOf[MaxDepth - 1]

\* do_split_at, of a frame or of the whole workspace: f is new, on either side.
Split(s, i, at, f, before) ==
  LET split == IF before THEN [tl |-> f, br |-> at] ELSE [tl |-> at, br |-> f]
      whole == ws[s][i].splitree
      tree  == IF at = whole THEN split ELSE Replaced(whole, at, split)
  IN  /\ Running /\ Room(s) /\ Shallow(whole)
      /\ at \in Leaves(whole) \cup {whole} /\ (before => at = whole)
      /\ InitFrameId(f, 0, Place) /\ Reordered(InitReorders(0))
      /\ ws' = [ws EXCEPT ![s][i].splitree = tree, ![s][i].wins = Append(@, f)]
      /\ UNCHANGED <<phase, scr, files, reader, clients, root, promise, starts>>

\* create_workspace, by a query: the frame is made before the workspace is linked.
CreateWorkspace(s, name, f) ==
  /\ Running /\ Room(s)
  /\ InitFrameId(f, 0, Place) /\ Reordered(InitReorders(0))
  /\ ws' = [ws EXCEPT ![s] = Append(@, [name |-> name, splitree |-> f, wins |-> <<f>>])]
  /\ UNCHANGED <<phase, scr, files, reader, clients, root, promise, starts>>

\* destroy_frame: its clients move to another frame of the workspace first; an empty
\* workspace goes too, but not the only one.
DestroyFrame(s, i, f) ==
  LET w    == ws[s][i]
      tree == Replaced(w.splitree, f, NULL)
      mine == {c \in clients : c.frame = f}
  IN  /\ Running /\ f \in Leaves(w.splitree)
      /\ (tree = NULL => mine = {} /\ Len(ws[s]) > 1)
      /\ ws' = IF tree = NULL THEN [ws EXCEPT ![s] = RemoveAt(@, i)]
               ELSE [ws EXCEPT ![s][i].splitree = tree, ![s][i].wins = Unlinked(@, f)]
      /\ FreeFrameId(f, Place)
      /\ \E other \in IF tree = NULL THEN {f} ELSE Leaves(tree) :
           /\ clients' = Moved(mine, other)
           /\ prop' = IF frame_id_cntr < INT_MAX THEN MovedProp(mine, other)
                      ELSE SetClientFrameIds(clients', Counted(frame_id'), frame_id', MovedProp(mine, other))
      /\ UNCHANGED <<phase, scr, files, reader, root, promise, starts>>

-----------------------------------------------------------------------------
(* The end. *)

\* Mutant: the property is deleted as when a window is not to be managed any more.
LeftPropDeleted(gone) == [w \in Window |-> IF \E c \in gone : Head(c.wins) = w THEN 0 ELSE prop[w]]

\* The properties when the clients in gone have been destroyed in OPMODE_DEINIT.
LeftProp(gone) == prop

\* deinit
Exit ==
  /\ phase = "run"
  /\ phase' = "write" /\ scr' = 1 /\ promise' = [NoPromise EXCEPT !.kept = TRUE, !.prop = prop]
  /\ UNCHANGED <<idVars, files, ws, reader, clients, prop, root, starts, commands>>

\* write_workspaces
Write ==
  /\ phase = "write"
  /\ files' = [files EXCEPT ![scr] = WriteWorkspaces(scr)]
  /\ phase' = "deinit"
  /\ UNCHANGED <<idVars, scr, ws, reader, clients, prop, root, promise, starts, commands>>

\* The file, or its directory, cannot be made.
WriteFails ==
  /\ phase = "write"
  /\ phase' = "deinit" /\ promise' = [promise EXCEPT !.kept = FALSE]
  /\ UNCHANGED <<idVars, scr, files, ws, reader, clients, prop, root, starts, commands>>

\* deinit_screen: the first frame that is left, and its clients.  The windows keep their
\* property, and are mapped.
DeinitFrame ==
  /\ phase = "deinit" /\ ws[scr] # <<>>
  /\ LET f == Head(ws[scr][1].wins) IN
     /\ FreeFrameId(f, Place)
     /\ clients' = {c \in clients : c.frame # f}
     /\ prop' = LET left == LeftProp({c \in clients : c.frame = f}) IN
                IF frame_id_cntr < INT_MAX THEN left
                ELSE SetClientFrameIds(clients', Counted(frame_id'), frame_id', left)
     /\ promise' = [promise EXCEPT !.kept = @ /\ frame_id_cntr < INT_MAX]
     /\ ws' = IF Len(ws[scr][1].wins) = 1 THEN [ws EXCEPT ![scr] = Tail(@)]
              ELSE [ws EXCEPT ![scr][1].wins = Tail(@)]
  /\ UNCHANGED <<phase, scr, files, reader, root, starts, commands>>

\* The next screen, or the end.  The promise is made unless frames were numbered anew
\* after their file was written.
DeinitDone ==
  /\ phase = "deinit" /\ ws[scr] = <<>>
  /\ IF scr < Screens THEN phase' = "write" /\ scr' = scr + 1 /\ UNCHANGED <<idVars, promise>>
     ELSE /\ phase' = "down" /\ scr' = 0 /\ Restart
          /\ promise' = IF promise.kept THEN [promise EXCEPT !.at = commands, !.files = files]
                        ELSE NoPromise
  /\ UNCHANGED <<files, ws, reader, clients, prop, root, starts, commands>>

Gone ==
  /\ phase' = "down" /\ scr' = 0 /\ Restart
  /\ ws' = [s \in Screen |-> <<>>] /\ reader' = NoReader /\ clients' = {}
  /\ UNCHANGED <<prop, root, starts, commands>>

\* The program is killed, or dies for want of ids; while it writes, the file is cut.
Crash ==
  /\ phase # "down" /\ Gone
  /\ promise' = IF phase \in {"read", "scan", "run"} /\ commands = promise.at THEN promise
                ELSE NoPromise
  /\ IF phase = "write"
     THEN \E text \in Cut(WriteWorkspaces(scr)) : files' = [files EXCEPT ![scr] = text]
     ELSE UNCHANGED files

\* While the program does not run, windows come and go.
Elsewhere(w, s) ==
  /\ phase = "down" /\ 0 < starts /\ starts < MaxStarts
  /\ commands < MaxCommands /\ commands' = commands + 1
  /\ root' = [root EXCEPT ![w] = IF @ = 0 THEN s ELSE 0] /\ prop' = [prop EXCEPT ![w] = 0]
  /\ promise' = [promise EXCEPT !.at = commands', !.prop[w] = 0]
  /\ UNCHANGED <<idVars, phase, scr, files, ws, reader, clients, starts>>

\* The program is not started again.
Stopped == phase = "down" /\ starts = MaxStarts /\ UNCHANGED vars

Next ==
  \/ Start \/ OptWorkspace \/ OptSplit \/ Skip \/ SkippedEnd \/ OptSplitEnd \/ OptWorkspaceEnd
  \/ \E f \in Frame : OptFrame(f) \/ EndOfText(f)
  \/ EndOfScan
  \/ \E w \in Window : Scan(w) \/ Unmap(w) \/ \E s \in Screen : Map(w, s) \/ Elsewhere(w, s)
  \/ \E c \in clients, f \in Live : Attach(c, f)
  \/ \E s \in Screen : \E f \in Frame :
       \/ \E name \in {"workspace", "unreadable"} : CreateWorkspace(s, name, f)
       \/ \E i \in DOMAIN ws[s] :
            \/ DestroyFrame(s, i, f)
            \/ \E at \in Leaves(ws[s][i].splitree) \cup {ws[s][i].splitree}, before \in BOOLEAN :
                 Split(s, i, at, f, before)
  \/ Exit \/ Write \/ WriteFails \/ DeinitFrame \/ DeinitDone \/ Crash \/ Stopped

Spec == Init /\ [][Next]_vars

-----------------------------------------------------------------------------
(* Properties. *)

\* Each split has two sides.
Proper(tree) == NULL \notin Tips[tree]

\* A frame is once among the children of one workspace.
EachOnce ==
  \A s, t \in Screen : \A i \in DOMAIN ws[s], j \in DOMAIN ws[t] :
    \A k \in DOMAIN ws[s][i].wins, l \in DOMAIN ws[t][j].wins :
      ws[s][i].wins[k] = ws[t][j].wins[l] => s = t /\ i = j /\ k = l

\* A workspace that is not being read or destroyed.
Ready(s, i) == phase \in {"scan", "run", "write"} \/ s # scr
               \/ (phase = "read" /\ (Depth = 0 \/ i < Len(ws[s])))

\* Whatever file is read, also one that was cut short anywhere while it was written, every
\* workspace that remains has a tree in which each split has two sides, and whose leaves
\* are the frames of the workspace; each frame is in one workspace.  The property of a
\* window for which a client was made is the id of the frame of the client, after every
\* move, destruction and renumbering, also between exit's screens.
FramesKnown ==
  /\ IdsType
  /\ Live = UNION {FramesOf(s) : s \in Screen} /\ EachOnce
  /\ \A s \in Screen : \A i \in DOMAIN ws[s] :
       Ready(s, i) => Proper(ws[s][i].splitree) /\ Leaves(ws[s][i].splitree) = Children(ws[s][i])
  /\ \A c \in clients : /\ c.frame \in Live
                        /\ Head(c.wins) = c.owner => prop[c.owner] = frame_id[c.frame]

\* After an exit in order, also if the program is killed before the first command, the
\* workspaces are those that were saved, and a window, unless it is a transient, is in the
\* frame it was in.  Not so if the name of a workspace cannot be read, or if the ids have
\* come to INT_MAX: then frames are numbered anew after the files have been written.
ComesBack ==
  LET saved == promise.files IN
  saved # <<>> /\ commands = promise.at /\ phase \in {"scan", "run"}
    /\ (\A s \in Screen : \A i \in DOMAIN saved[s] : saved[s][i].k # "unreadable") =>
    /\ \A s \in Screen : s <= scr \/ phase = "run" => WriteWorkspaces(s) = saved[s]
    /\ \A c \in clients : c.owner # NULL =>
         (TransientFor[c.owner] = NULL /\ promise.prop[c.owner] # 0
            => frame_id[c.frame] = promise.prop[c.owner])

=============================================================================
