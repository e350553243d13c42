------------------------------ MODULE Placement ------------------------------
(***************************************************************************)
(* What the window manager promises about where things are, and nothing    *)
(* about how: each client is in a frame until its last window goes, a      *)
(* frame shows one of its clients whenever it has any, a frame goes only   *)
(* when it is empty, and there is always a workspace to see.  WindowManager *)
(* implements it, with lists, counts, hidden windows, pointers and loops.  *)
(***************************************************************************)
CONSTANTS Client, Frame, Ws, NULL

VARIABLES
  place,    \* the frame of each client, NULL for a client there is not
  shown,    \* the client that each frame shows, or NULL
  on,       \* the workspace of each frame, NULL for a frame there is not
  visible   \* the workspace that is on the screen

vars == <<place, shown, on, visible>>

Init ==
  /\ place = [c \in Client |-> NULL] /\ shown = [f \in Frame |-> NULL]
  /\ \E ws \in Ws, f \in Frame :
       visible = ws /\ on = [g \in Frame |-> IF g = f THEN ws ELSE NULL]

Frames == {f \in Frame : on[f] # NULL}
OnWs(ws) == {f \in Frame : on[f] = ws}

\* What frame g may show when client c has been put into f: c or what it shows, if it is
\* f; and if it showed c, another of its clients, if it has any.
MayShow(g, c, f) ==
  LET others == {d \in Client : place[d] = g} \ {c} IN
  IF g = f THEN {c, shown[g]} \ {NULL}
  ELSE IF shown[g] # c THEN {shown[g]}
  ELSE IF others # {} THEN others ELSE {NULL}

\* Client c is put into frame f, or nowhere if f is NULL.
Put(c, f) ==
  /\ place' = [place EXCEPT ![c] = f]
  /\ shown' \in [Frame -> Client \cup {NULL}]
  /\ \A g \in Frame : shown'[g] \in MayShow(g, c, f)

Open(c, f) == place[c] = NULL /\ f \in Frames /\ Put(c, f) /\ UNCHANGED <<on, visible>>

Close(c) == place[c] # NULL /\ Put(c, NULL) /\ UNCHANGED <<on, visible>>

Move(c, f) ==
  /\ place[c] \notin {NULL, f} /\ f \in Frames
  /\ Put(c, f) /\ UNCHANGED <<on, visible>>

Show(c) ==
  /\ place[c] # NULL
  /\ shown' = [shown EXCEPT ![place[c]] = c] /\ UNCHANGED <<place, on, visible>>

Split(f, g) ==
  /\ f \in Frames /\ g \notin Frames
  /\ on' = [on EXCEPT ![g] = on[f]] /\ UNCHANGED <<place, shown, visible>>

\* A frame goes, and with the last one its workspace.
Drop(f) ==
  /\ f \in Frames /\ \A c \in Client : place[c] # f
  /\ on' = [on EXCEPT ![f] = NULL]
  /\ visible' \in {on'[g] : g \in Frame} \ {NULL}
  /\ OnWs(visible) # {f} => visible' = visible
  /\ UNCHANGED <<place, shown>>

Visit(ws) == OnWs(ws) # {} /\ visible' = ws /\ UNCHANGED <<place, shown, on>>

\* The user is taken to a client.
GoTo(c) ==
  /\ place[c] # NULL
  /\ visible' = on[place[c]] /\ shown' = [shown EXCEPT ![place[c]] = c]
  /\ UNCHANGED <<place, on>>

\* A workspace is made, with a frame f, and visited.
Found(ws, f) ==
  /\ OnWs(ws) = {} /\ f \notin Frames
  /\ on' = [on EXCEPT ![f] = ws] /\ visible' = ws /\ UNCHANGED <<place, shown>>

\* A client is taken to frame f of a workspace, or with f to a new one.
TakeTo(c, ws, f) ==
  /\ place[c] # NULL
  /\ on' = [on EXCEPT ![f] = ws] /\ (on' = on \/ (OnWs(ws) = {} /\ f \notin Frames))
  /\ Put(c, f) /\ shown'[f] = c /\ visible' = ws

Next ==
  \/ \E c \in Client : Close(c) \/ Show(c) \/ GoTo(c)
  \/ \E c \in Client, f \in Frame : Open(c, f) \/ Move(c, f)
  \/ \E f \in Frame : Drop(f) \/ \E g \in Frame : Split(f, g)
  \/ \E ws \in Ws : \/ Visit(ws)
                    \/ \E f \in Frame : Found(ws, f) \/ \E c \in Client : TakeTo(c, ws, f)

Spec == Init /\ [][Next]_vars
=============================================================================
