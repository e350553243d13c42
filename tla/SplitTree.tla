------------------------------ MODULE SplitTree ------------------------------
(***************************************************************************)
(* The tree of splits of one workspace (split.c): frames tile the screen,  *)
(* and every operation on one frame finds the room it needs by resizing    *)
(* others.  Sizes are decided in two passes: one walks down and up the     *)
(* tree and notes in each split how much one of its sides will get         *)
(* (knowsize, tmpsize), the other gives the sizes to the windows.          *)
(*                                                                         *)
(* The notes are the "plan" of one operation, empty when it begins: a note *)
(* that is used without having been made shows as "broken".                *)
(***************************************************************************)
EXTENDS Integers, FiniteSets

CONSTANTS
  Frame,            \* the frames that can exist: WFrame
  Split,            \* the splits that can exist: WWsSplit
  ScreenW, ScreenH, \* the geometry of the root window
  MinW, MinH,       \* FRAME_MIN_W, FRAME_MIN_H
  NULL

ASSUME SizesAreRealistic == MinW \in Nat \ {0} /\ MinH \in MinW..ScreenH /\ MinW <= ScreenW

VARIABLE tree

Node   == Frame \cup Split
Dirs   == {"horizontal", "vertical"}
Sides  == {"tl", "br"}
Screen == [horizontal |-> ScreenW, vertical |-> ScreenH]
Min    == [horizontal |-> MinW, vertical |-> MinH]

Larger(a, b) == IF a > b THEN a ELSE b
OtherSide(side) == IF side = "tl" THEN "br" ELSE "tl"
Extent(pos, size) == [pos |-> pos, size |-> size]

\* at[n][dir] is the extent of n along dir; saved[f][dir] is the size a
\* maximized frame had, or 0 when it is not maximized in that direction.
NoExtent == [d \in Dirs |-> Extent(0, 0)]
NotMaximized == [d \in Dirs |-> 0]
FreeSplit == [dir |-> NULL, tl |-> NULL, br |-> NULL, current |-> "tl"]

Size(t, n, dir) == t.at[n][dir].size
Pos(t, n, dir)  == t.at[n][dir].pos
End(t, n, dir)  == Pos(t, n, dir) + Size(t, n, dir)

UsedFrames(t) == {f \in Frame : t.at[f] # NoExtent}
UsedSplits(t) == {p \in Split : t.split[p] # FreeSplit}

\* The side of its parent that a node is on.
SideOf(t, n) == IF t.split[t.up[n]].tl = n THEN "tl" ELSE "br"
Sibling(t, n) == t.split[t.up[n]][OtherSide(SideOf(t, n))]

\* What was below n's parent, or the root, is now m.
Replace(t, n, m) ==
  IF t.up[n] = NULL THEN [t EXCEPT !.root = m, !.up[m] = NULL]
  ELSE [t EXCEPT !.split[t.up[n]][SideOf(t, n)] = m, !.up[m] = t.up[n]]

-----------------------------------------------------------------------------
(* Deciding sizes. *)

NoPlan == [p \in Split |-> [know |-> "any", tmp |-> 0]]
Decided(plan, size) == [plan |-> plan, size |-> size]
Note(plan, p, side, size) == [plan EXCEPT ![p] = [know |-> side, tmp |-> size]]

\* wwin_calcresize
WwinCalcResize(dir, size) == Larger(size, Min[dir])

\* tree_calcresize: the size that n will have when it is asked to have size,
\* the side primn of each split changing before the other.
RECURSIVE CalcResize(_, _, _, _, _, _)

\* The sides of a split across dir, which answered tl and br, are to have the
\* same size: the one with the smaller answer is asked again for the larger.
CalcSame(t, n, dir, primn, tl, br) ==
  CASE tl.size > br.size -> CalcResize(t, br.plan, t.split[n].br, dir, primn, tl.size)
    [] br.size > tl.size -> CalcResize(t, br.plan, t.split[n].tl, dir, primn, br.size)
    [] OTHER             -> br

\* The second side of a split along dir gets the rest of size, or more.
CalcRest(t, n, dir, first, size, one) ==
  LET two == CalcResize(t, one.plan, t.split[n][OtherSide(first)], dir, first, size - one.size)
  IN  Decided(Note(two.plan, n, first, one.size), one.size + two.size)

CalcAcross(t, n, dir, primn, tl, br) ==
  Decided(Note(CalcSame(t, n, dir, primn, tl, br).plan, n, "any", 0), Larger(tl.size, br.size))

CalcBoth(t, n, dir, primn, size, tl) ==
  CalcAcross(t, n, dir, primn, tl, CalcResize(t, tl.plan, t.split[n].br, dir, primn, size))

CalcAlong(t, plan, n, dir, first, size) ==
  CalcRest(t, n, dir, first, size,
           CalcResize(t, plan, t.split[n][first], dir, first,
                      size - Size(t, t.split[n][OtherSide(first)], dir)))

CalcResize(t, plan, n, dir, primn, size) ==
  IF n \in Frame THEN Decided(plan, WwinCalcResize(dir, size))
  ELSE IF t.split[n].dir # dir
  THEN CalcBoth(t, n, dir, primn, size, CalcResize(t, plan, t.split[n].tl, dir, primn, size))
  ELSE CalcAlong(t, plan, n, dir, IF primn = "tl" THEN "tl" ELSE "br", size)

\* Mutant: the other side never gives room.
AskedOfOtherNothing(t, other, dir, primn, from, s, n) == Size(t, other, dir)

\* What the other side is asked to have when side from is to have n of s: the
\* side that is to change first pushes what is beyond the split, not the other.
AskedOfOther(t, other, dir, primn, from, s, n) ==
  IF primn # from THEN s - n ELSE Size(t, other, dir)

\* Mutant: the place of the whole split.
WinPosOfSplit(pos, from, s2) == pos

\* Where side from is in a place that begins at pos, the other side having s2.
WinPos(pos, from, s2) == IF from = "tl" THEN pos ELSE pos + s2

\* wcalcres: side from of split p is to have size n; the rest of p, and what is
\* above p, give or take the difference.  The result tells which node is to be
\* resized, to what extent, and the extent that the side will have.
RECURSIVE WCalcRes(_, _, _, _, _, _, _)

Across(t, p, dir) == t.split[p].dir # dir

\* Above p something gave less than ds: the other side, across, must follow.
Refit(t, p, dir, primn, other, ds, above) ==
  IF Across(t, p, dir) /\ above.winsize # ds
  THEN [above EXCEPT !.plan = CalcResize(t, @, other, dir, primn, above.winsize).plan]
  ELSE above

\* Side from gets what the other side, having s2, leaves of the place of p.
Placed(p, from, s2, above) ==
  [above EXCEPT !.plan = Note(@, p, from, above.winsize - s2),
                !.winpos = WinPos(@, from, s2), !.winsize = @ - s2]

\* The other side is to have o.size: p is to have ds.
Settle(t, p, dir, primn, n, from, o) ==
  LET s2 == IF Across(t, p, dir) THEN 0 ELSE o.size
      ds == IF Across(t, p, dir) THEN o.size ELSE n + o.size
  IN  Placed(p, from, s2,
        IF t.up[p] = NULL \/ ds = Size(t, p, dir)
        THEN [plan |-> o.plan, pos |-> Pos(t, p, dir), size |-> Size(t, p, dir),
              start |-> IF Across(t, p, dir) THEN t.split[p][from] ELSE p,
              winpos |-> Pos(t, p, dir), winsize |-> Size(t, p, dir)]
        ELSE Refit(t, p, dir, primn, t.split[p][OtherSide(from)], ds,
                   WCalcRes(t, o.plan, t.up[p], dir, primn, ds, SideOf(t, p))))

OtherGets(t, plan, p, other, dir, primn, n, from) ==
  IF Across(t, p, dir) THEN CalcResize(t, plan, other, dir, primn, n)
  ELSE CalcResize(t, plan, other, dir, from,
                  AskedOfOther(t, other, dir, primn, from, Size(t, p, dir), n))

WCalcRes(t, plan, p, dir, primn, n, from) ==
  Settle(t, p, dir, primn, n, from,
         OtherGets(t, plan, p, t.split[p][OtherSide(from)], dir, primn, n, from))

\* calcresize_obj
CalcResizeObj(t, n, dir, primn, size) ==
  LET c == CalcResize(t, NoPlan, n, dir, primn, size) IN
  IF t.up[n] = NULL
  THEN [plan |-> c.plan, start |-> NULL, pos |-> Pos(t, n, dir), size |-> Size(t, n, dir),
        winpos |-> Pos(t, n, dir), winsize |-> Size(t, n, dir)]
  ELSE WCalcRes(t, c.plan, t.up[n], dir, primn, c.size, SideOf(t, n))

\* wwin_resize ends the frame's being maximized in that direction.
WwinResize(t, f, dir, pos, size) ==
  [t EXCEPT !.at[f][dir] = Extent(pos, size), !.saved[f][dir] = 0]

\* tree_do_resize
RECURSIVE DoResize(_, _, _, _, _, _)

\* The extent of a split whose sides have been resized.
Span(t, n, dir, pos) ==
  LET p == t.split[n]
      br == Size(t, p.br, dir)
  IN  [t EXCEPT !.at[n][dir] =
         Extent(pos, IF Across(t, n, dir) THEN br ELSE Size(t, p.tl, dir) + br)]

Given(note, size) == CASE note.know = "tl"  -> note.tmp
                       [] note.know = "br"  -> size - note.tmp
                       [] note.know = "any" -> size - size \div 2

\* The second side begins where the first one ends.
DoResizeRest(t, plan, n, dir, size) ==
  DoResize(t, plan, t.split[n].br, dir, End(t, t.split[n].tl, dir), size)

DoResize(t, plan, n, dir, pos, size) ==
  IF n = NULL THEN t
  ELSE IF n \in Frame THEN WwinResize(t, n, dir, pos, size)
  ELSE IF Across(t, n, dir)
  THEN Span(DoResize(DoResize(t, plan, t.split[n].tl, dir, pos, size),
                     plan, t.split[n].br, dir, pos, size), n, dir, pos)
  ELSE LET tls == Given(plan[n], size)
           t1  == [t EXCEPT !.broken = @ \/ plan[n].know = "any"]
       IN  Span(DoResizeRest(DoResize(t1, plan, t.split[n].tl, dir, pos, tls),
                             plan, n, dir, size - tls), n, dir, pos)

\* resize_tmp
Resize(t, dir, r) == DoResize(t, r.plan, r.start, dir, r.pos, r.size)

\* Mutant: the node is not moved.
FitInPlace(t, n, dir, primn, pos, size) ==
  LET c == CalcResize(t, NoPlan, n, dir, primn, size)
  IN  DoResize(t, c.plan, n, dir, Pos(t, n, dir), c.size)

\* A node takes the given place along dir.
Fit(t, n, dir, primn, pos, size) ==
  LET c == CalcResize(t, NoPlan, n, dir, primn, size)
  IN  DoResize(t, c.plan, n, dir, pos, c.size)

-----------------------------------------------------------------------------
(* Splitting and removing. *)

\* The first part of do_split_at: how much the new window (sn) and the rest
\* (gs) will have, and whether there is room for both once n is resized.
SplitSizes(t, n, dir, primn, minsize) ==
  LET s  == Size(t, n, dir)
      sn == Larger(s \div 2, minsize)
      gs == CalcResize(t, NoPlan, n, dir, primn, s - sn).size
      r  == CalcResizeObj(t, n, dir, "any", gs + sn)
  IN  [sn |-> sn, gs |-> gs, room |-> gs + sn <= s, r |-> r,
       refused |-> gs + sn > s /\ gs + sn > r.winsize]

\* The second part: others are resized if there is no room, the new frame f gets
\* its place, and n is resized and joined to it by a new split p.
MakeRoom(t, dir, z) == IF z.room THEN t ELSE Resize(t, dir, z.r)

PlaceNew(t, n, dir, primn, z, f, p) ==
  LET new == Extent(Pos(t, n, dir) + (IF primn = "br" THEN z.gs ELSE 0), z.sn)
  IN  [t EXCEPT !.at[p] = t.at[n], !.at[f] = [t.at[n] EXCEPT ![dir] = new]]

MoveOld(t, n, dir, primn, z) ==
  Fit(t, n, dir, primn, Pos(t, n, dir) + (IF primn = "br" THEN 0 ELSE z.sn), z.gs)

Join(t, n, dir, primn, f, p) ==
  [Replace(t, n, p) EXCEPT
     !.up[n] = p, !.up[f] = p,
     !.split[p] = [dir |-> dir, current |-> "tl",
                   tl |-> IF primn = "br" THEN n ELSE f,
                   br |-> IF primn = "br" THEN f ELSE n]]

DoSplitAt(t, n, dir, primn, z, f, p) ==
  Join(MoveOld(PlaceNew(MakeRoom(t, dir, z), n, dir, primn, z, f, p), n, dir, primn, z),
       n, dir, primn, f, p)

\* workspace_remove_window, remove_split: the other side gets the whole place.
RemoveWindow(t, f) ==
  LET p     == t.up[f]
      dir   == t.split[p].dir
      other == Sibling(t, f)
      t1 == Replace(t, p, other)
      t2 == Fit(t1, other, dir, SideOf(t, f), Pos(t, p, dir), Size(t, p, dir))
  IN  [t2 EXCEPT !.split[p] = FreeSplit, !.up[p] = NULL, !.at[p] = NoExtent,
                 !.up[f] = NULL, !.at[f] = NoExtent, !.saved[f] = NotMaximized]

-----------------------------------------------------------------------------
(* Finding frames. *)

\* left_or_topmost_current (side tl) and right_or_bottomost_current (side br).
RECURSIVE MostCurrent(_, _, _, _)

\* Mutant: the side that was current last, in every direction.
MostCurrentOnly(t, n, dir, side) ==
  IF n \in Frame THEN n ELSE MostCurrent(t, t.split[n][t.split[n].current], dir, side)

MostCurrent(t, n, dir, side) ==
  IF n \in Frame THEN n
  ELSE MostCurrent(t, t.split[n][IF t.split[n].dir = dir THEN side ELSE t.split[n].current],
                   dir, side)

FindCurrent(t) == MostCurrent(t, t.root, NULL, "tl")

\* The node below the first split of direction dir above n, n's branch of it.
RECURSIVE Branch(_, _, _)
Branch(t, n, dir) ==
  IF t.up[n] = NULL THEN NULL
  ELSE IF t.split[t.up[n]].dir = dir THEN n ELSE Branch(t, t.up[n], dir)

\* right_or_down (side br) and up_or_left (side tl): the frame next to n on
\* that side, or the one farthest on the other side.
RECURSIVE Neighbour(_, _, _, _)
Neighbour(t, n, dir, side) ==
  LET b == Branch(t, n, dir) IN
  IF b = NULL THEN MostCurrent(t, n, dir, OtherSide(side))
  ELSE IF SideOf(t, b) # side THEN MostCurrent(t, Sibling(t, b), dir, OtherSide(side))
  ELSE Neighbour(t, t.up[b], dir, side)

\* set_current_wswindow
RECURSIVE SetCurrent(_, _)

\* Mutant: only the nearest split is told.
SetCurrentNearest(t, n) ==
  IF t.up[n] = NULL THEN t ELSE [t EXCEPT !.split[t.up[n]].current = SideOf(t, n)]

SetCurrent(t, n) ==
  IF t.up[n] = NULL THEN t
  ELSE SetCurrent([t EXCEPT !.split[t.up[n]].current = SideOf(t, n)], t.up[n])

-----------------------------------------------------------------------------
(* Reading a saved workspace: write_obj writes the sizes of both sides of   *)
(* each split, opt_workspace_split shares the room in their ratio and       *)
(* get_geom places each node in what is left.                               *)

\* Mutant: the sides in the wrong order.
ShareSwapped(size, tls, brs) == (size * brs) \div (tls + brs)

Share(size, tls, brs) == (size * tls) \div (tls + brs)

RECURSIVE Reload(_, _, _)
Reload(t, n, at) ==
  LET t1 == [t EXCEPT !.at[n] = at] IN
  IF n \in Frame THEN [t1 EXCEPT !.saved[n] = NotMaximized]
  ELSE LET p    == t.split[n]
           tls  == Size(t, p.tl, p.dir)
           brs  == Size(t, p.br, p.dir)
           tmp  == Share(at[p.dir].size, tls, brs)
           tlat == [at EXCEPT ![p.dir].size = tmp]
           brat == [at EXCEPT ![p.dir] = Extent(@.pos + tmp, @.size - tmp)]
           t2   == Reload([t1 EXCEPT !.split[n].current = "tl"], p.tl, tlat)
       IN  Reload(t2, p.br, brat)

-----------------------------------------------------------------------------
(* The operations. *)

FullScreen == [d \in Dirs |-> Extent(0, Screen[d])]

\* A new workspace has one frame.
Init == \E f \in Frame :
  tree = [root |-> f, up |-> [n \in Node |-> NULL], broken |-> FALSE,
          split |-> [p \in Split |-> FreeSplit],
          at |-> [n \in Node |-> IF n = f THEN FullScreen ELSE NoExtent],
          saved |-> [g \in Frame |-> NotMaximized]]

SplitAt(n, dir, primn, minsize) ==
  LET z == SplitSizes(tree, n, dir, primn, minsize) IN
  /\ ~z.refused
  /\ \E f \in Frame \ UsedFrames(tree), p \in Split \ UsedSplits(tree) :
       tree' = DoSplitAt(tree, n, dir, primn, z, f, p)

\* split_vert, split_horiz
SplitWindow(f, dir) == f \in UsedFrames(tree) /\ SplitAt(f, dir, "br", Min[dir])

\* split_top takes the minimum height for both directions.
SplitTop(dir, primn) == SplitAt(tree.root, dir, primn, MinH)

\* destroy_frame; the only frame on the only workspace is not destroyed.
DestroyFrame(f) == f \in UsedFrames(tree) \ {tree.root} /\ tree' = RemoveWindow(tree, f)

\* The sizes that are asked for, of which one or more are impossible.
Requests == 0 .. Larger(ScreenW, ScreenH)

\* set_height, set_width (primn is any); a resize with the keyboard (any) or
\* by dragging a border of the frame (that side), from its begin to its end.
ResizeTo(f, dir) ==
  /\ f \in UsedFrames(tree)
  /\ tree' \in {Resize(tree, dir, CalcResizeObj(tree, f, dir, primn, size)) :
                  primn \in Sides \cup {"any"}, size \in Requests}

\* maximize_vert, maximize_horiz: a maximized frame gets its saved size back.
Maximize(f, dir) ==
  LET was  == tree.saved[f][dir]
      size == IF was # 0 THEN was ELSE Screen[dir]
      t    == Resize(tree, dir, CalcResizeObj(tree, f, dir, "any", size))
  IN  /\ f \in UsedFrames(tree)
      /\ tree' = [t EXCEPT !.saved[f][dir] = IF was # 0 THEN 0 ELSE Size(tree, f, dir)]

\* The focus comes to a frame: the user's pointer, goto_left and so on.
Focus(f) == f \in UsedFrames(tree) /\ tree' = SetCurrent(tree, f)

\* Saving the workspaces, and reading them when ion starts again.
Restart == tree' = Reload(tree, tree.root, FullScreen)

Next ==
  \/ \E f \in Frame, dir \in Dirs :
       SplitWindow(f, dir) \/ ResizeTo(f, dir) \/ Maximize(f, dir)
  \/ \E dir \in Dirs, primn \in Sides : SplitTop(dir, primn)
  \/ \E f \in Frame : DestroyFrame(f) \/ Focus(f)
  \/ Restart

Spec == Init /\ [][Next]_tree

-----------------------------------------------------------------------------
(* Properties. *)

\* The record has its type.
TypeOK ==
  /\ tree.root \in Node /\ tree.broken \in BOOLEAN
  /\ tree.up \in [Node -> Split \cup {NULL}]
  /\ tree.split \in [Split -> [dir : Dirs \cup {NULL}, tl : Node \cup {NULL},
                               br : Node \cup {NULL}, current : Sides]]
  /\ tree.at \in [Node -> [Dirs -> [pos : Nat, size : Nat]]]
  /\ tree.saved \in [Frame -> [Dirs -> Nat]]

RECURSIVE Below(_, _)
Below(t, n) == IF n \in Frame THEN {n}
               ELSE {n} \cup Below(t, t.split[n].tl) \cup Below(t, t.split[n].br)

\* The tree has every frame and every split exactly once, and the way up from a
\* node is the way down to it: no split survives a removal and no frame is lost
\* in one (do_split_at, remove_split).
TreeLinked ==
  /\ tree.up[tree.root] = NULL
  /\ \A p \in UsedSplits(tree), side \in Sides :
       tree.up[tree.split[p][side]] = p /\ tree.split[p][side] # tree.split[p][OtherSide(side)]
  /\ Below(tree, tree.root) = UsedFrames(tree) \cup UsedSplits(tree)

\* After any splits, removals and resizes in both directions the frames tile
\* the screen: the sides of each split share its place without gap or overlap, no
\* split has an old idea of where it is (tree_do_resize), and no frame is below
\* the minimum, however the room it lost was found (tree_calcresize, wcalcres).
FramesTile ==
  /\ tree.at[tree.root] = FullScreen
  /\ \A f \in UsedFrames(tree), d \in Dirs : Size(tree, f, d) >= Min[d]
  /\ \A p \in UsedSplits(tree) :
       LET s == tree.split[p] IN
       \A d \in Dirs :
         IF d = s.dir
         THEN /\ Pos(tree, s.tl, d) = Pos(tree, p, d)
              /\ Pos(tree, s.br, d) = End(tree, s.tl, d)
              /\ End(tree, s.br, d) = End(tree, p, d)
         ELSE tree.at[s.tl][d] = tree.at[p][d] /\ tree.at[s.br][d] = tree.at[p][d]

\* A frame that is maximized has not become smaller than the size that it would
\* get back: anything that resizes it ends its being maximized (wwin_resize).
MaximizedIsLarger ==
  \A f \in UsedFrames(tree), d \in Dirs : Size(tree, f, d) >= tree.saved[f][d]

\* The layout is sound after any operations: linked, tiling the screen, and with frames
\* that are maximized only as long as they have the larger size.
LayoutSound == TypeOK /\ TreeLinked /\ FramesTile /\ MaximizedIsLarger

\* No operation gives sizes in a part of the tree for which it has not decided
\* them: the message "Resize is broken!" of tree_do_resize is never printed.
ResizeNotBroken == ~tree.broken

(* The sizes that frame f can have along dir, whatever the code does: those  *)
(* that leave every other frame its minimum.                                 *)

\* Node n can have size s with frame f in it having size x.
RECURSIVE Fits(_, _, _, _, _, _)
Fits(t, dir, f, x, n, s) ==
  IF n \in Frame THEN IF n = f THEN s = x ELSE s >= Min[dir]
  ELSE LET p == t.split[n] IN
    IF p.dir = dir
    THEN \E i \in 0..s : Fits(t, dir, f, x, p.tl, i) /\ Fits(t, dir, f, x, p.br, s - i)
    ELSE Fits(t, dir, f, x, p.tl, s) /\ Fits(t, dir, f, x, p.br, s)

Possible(t, f, dir) ==
  {x \in Min[dir]..Screen[dir] : Fits(t, dir, f, x, t.root, Screen[dir])}

Distance(a, b) == IF a > b THEN a - b ELSE b - a

\* A frame that is set to a size, or maximized, gets that size or the possible
\* size that is nearest to it (calcresize_window with ANY); and a frame is refused
\* a split ("minimum size reached") only if no sizes of the other frames leave
\* room for two.
SizesAreBest ==
  \A f \in UsedFrames(tree), dir \in Dirs :
    LET possible == Possible(tree, f, dir) IN
    /\ \A n \in Requests :
         LET x == Size(Resize(tree, dir, CalcResizeObj(tree, f, dir, "any", n)), f, dir)
         IN  x \in possible /\ \A y \in possible : Distance(x, n) <= Distance(y, n)
    /\ SplitSizes(tree, f, dir, "br", Min[dir]).refused
         => \A x \in possible : x < 2 * Min[dir]

\* Where the rubber band and the size display say the frame will be is where it
\* is when the resize ends, for every way to resize (winpostmp, winsizetmp).
RubberBandTrue ==
  ResizeNotBroken /\
  \A f \in UsedFrames(tree), dir \in Dirs, primn \in Sides \cup {"any"}, n \in Requests :
    LET r == CalcResizeObj(tree, f, dir, primn, n)
    IN  Resize(tree, dir, r).at[f][dir] = Extent(r.winpos, r.winsize)

\* goto_right and the like lead to a frame that begins where this one ends, or
\* from one edge of the screen to the other: the order in the tree is the order
\* on the screen.
NeighbourAdjacent ==
  \A f \in UsedFrames(tree), dir \in Dirs :
    LET next == Neighbour(tree, f, dir, "br")
        prev == Neighbour(tree, f, dir, "tl")
    IN  /\ \/ Pos(tree, next, dir) = End(tree, f, dir)
           \/ Pos(tree, next, dir) = 0 /\ End(tree, f, dir) = Screen[dir]
        /\ \/ End(tree, prev, dir) = Pos(tree, f, dir)
           \/ End(tree, prev, dir) = Screen[dir] /\ Pos(tree, f, dir) = 0

\* The frame that a workspace comes back to is the one that had the focus last:
\* resizing, splitting and removing other frames keep it, as long as it is not
\* removed itself, no frame is put above or to the left of all, and ion does not
\* start again (the "current" of each split on the way).
CurrentStays ==
  [][IF \E f \in Frame : Focus(f)
     THEN Focus(FindCurrent(tree'))
     ELSE \/ FindCurrent(tree') = FindCurrent(tree)
          \/ FindCurrent(tree) \notin UsedFrames(tree')
          \/ Restart
          \/ \E dir \in Dirs : SplitTop(dir, "tl")]_tree

\* Starting again brings back every frame with the place it had.
RestartKeepsLayout == [][Restart => tree'.at = tree.at]_tree

=============================================================================
