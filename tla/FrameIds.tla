------------------------------ MODULE FrameIds ------------------------------
(***************************************************************************)
(* The identifiers of frames (frameid.c).  They are saved in the file of   *)
(* workspaces and set as a property of the windows in the frame, so that a *)
(* restarted program finds the frame of each window again.                 *)
(***************************************************************************)
EXTENDS Integers, FiniteSets

CONSTANTS
  Frame,                      \* the frames there can be
  FRAME_ID_START_CLIENT,
  FRAME_ID_REORDER_INTERVAL,  \* a power of two
  INT_MAX

ASSUME FrameIdsAssumption ==
  /\ IsFiniteSet(Frame)
  /\ {FRAME_ID_START_CLIENT, FRAME_ID_REORDER_INTERVAL, INT_MAX} \subseteq Nat \ {0}
  /\ FRAME_ID_START_CLIENT + Cardinality(Frame) <= INT_MAX

VARIABLES
  frame_id_cntr,
  frame_id        \* of each frame, 0 for one that is not there

idVars == <<frame_id_cntr, frame_id>>

Live == {f \in Frame : frame_id[f] # 0}

IdsInit ==
  /\ frame_id_cntr = FRAME_ID_START_CLIENT
  /\ frame_id = [f \in Frame |-> 0]

-----------------------------------------------------------------------------

\* x & bit, for a bit.
And(x, bit) == IF (x \div bit) % 2 = 1 THEN bit ELSE 0

\* The counter says that it is time to reorder.
ReorderIsDue(cntr) ==
  \/ And(cntr - FRAME_ID_START_CLIENT, FRAME_ID_REORDER_INTERVAL) = FRAME_ID_REORDER_INTERVAL - 1
  \/ cntr = INT_MAX

\* The frames whose ids are not from a hand-made file.
Counted(ids) == {f \in Frame : ids[f] >= FRAME_ID_START_CLIENT}

\* Those up to f in the walk over screens, workspaces and frames; place is the place of
\* each frame in it.
UpTo(ids, place, f) == {g \in Counted(ids) : place[g] <= place[f]}

\* The ids and the counter after reorder_frame_ids.
Renumbered(ids, place) ==
  [f \in Frame |-> IF f \in Counted(ids)
                   THEN FRAME_ID_START_CLIENT + Cardinality(UpTo(ids, place, f)) ELSE ids[f]]
Recounted(ids) == FRAME_ID_START_CLIENT + Cardinality(Counted(ids))

\* new_frame_id, from a value of the counter.
NewFrameIdFrom(cntr, f, place) ==
  LET due  == ReorderIsDue(cntr)
      base == IF due THEN Renumbered(frame_id, place) ELSE frame_id
      last == IF due THEN Recounted(frame_id) ELSE cntr
  IN  /\ f \notin Live
      /\ last < INT_MAX
      /\ frame_id_cntr' = last + 1
      /\ frame_id' = [base EXCEPT ![f] = last + 1]

NewFrameId(f, place) == NewFrameIdFrom(frame_id_cntr, f, place)

\* find_frame_by_id
FindFrameById(id) == {f \in Live : frame_id[f] = id}

\* Mutant: the counter stays behind the ids of a file.
CounterAfterOnly(id) == frame_id_cntr

\* The counter gets past an id from a file.
CounterAfter(id) == IF id > frame_id_cntr THEN id ELSE frame_id_cntr

\* use_frame_id: an id from a file, unless it is in use.
UseFrameId(f, id, place) ==
  IF FindFrameById(id) # {} THEN NewFrameIdFrom(CounterAfter(id), f, place)
  ELSE /\ f \notin Live
       /\ frame_id' = [frame_id EXCEPT ![f] = id]
       /\ frame_id_cntr' = CounterAfter(id)

\* init_frame asks for a new id with 0.
InitFrameId(f, id, place) == IF id = 0 THEN NewFrameId(f, place) ELSE UseFrameId(f, id, place)

\* Whether that numbers the other frames anew.
InitReorders(id) == (id = 0 \/ FindFrameById(id) # {}) /\ ReorderIsDue(CounterAfter(id))

\* free_frame_id: the frame is out of the tree already.
FreeFrameId(f, place) ==
  LET left == [frame_id EXCEPT ![f] = 0]
      due  == frame_id_cntr = INT_MAX
  IN  /\ f \in Live
      /\ frame_id' = IF due THEN Renumbered(left, place) ELSE left
      /\ frame_id_cntr' = IF due THEN Recounted(left) ELSE frame_id_cntr

\* The program starts again.
Restart ==
  /\ frame_id_cntr' = FRAME_ID_START_CLIENT
  /\ frame_id' = [f \in Frame |-> 0]

-----------------------------------------------------------------------------

\* A walk comes by each frame that is there once.
Walk == {place \in [Live -> 1 .. Cardinality(Live)] :
           \A f, g \in Live : place[f] = place[g] => f = g}

\* An id of a file is an int; 0 asks for a new one.
IdsNext ==
  \/ \E place \in Walk, f \in Frame :
       \/ NewFrameId(f, place)
       \/ \E id \in 1 .. INT_MAX : UseFrameId(f, id, place)
       \/ FreeFrameId(f, place)
  \/ Restart

IdsSpec == IdsInit /\ [][IdsNext]_idVars

-----------------------------------------------------------------------------
(* Properties. *)

\* No two frames have the same id, whatever ids were read from files, whatever frames
\* were destroyed, and whenever the others were numbered anew: a window's property
\* means one frame.
IdsDistinct ==
  \A f, g \in Live : frame_id[f] = frame_id[g] => f = g

\* What keeps it so: a new id is above all that are in use.
CounterAhead == \A f \in Live : frame_id[f] <= frame_id_cntr

IdsType ==
  /\ frame_id_cntr \in FRAME_ID_START_CLIENT .. INT_MAX
  /\ frame_id \in [Frame -> 0 .. INT_MAX]

=============================================================================
