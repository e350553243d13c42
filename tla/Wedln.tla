------------------------------- MODULE Wedln -------------------------------
(***************************************************************************)
(* The window of a query: the line that is edited, as it is drawn piece by *)
(* piece (wedln.c and the updates of edln.c), and the list of completions  *)
(* above it (listing.c, complete.c).  Each function of the editor draws    *)
(* from where it has changed the line; the server asks for a picture of    *)
(* the whole when it has lost it.                                          *)
(*                                                                         *)
(* A character is a number, its width.  Lengths along the line are counted *)
(* in units of the smallest character, heights in rows of the list.  How   *)
(* edln.c keeps the bytes of the line is in Edln.                          *)
(***************************************************************************)
EXTENDS Integers, FiniteSetsExt, SequencesExt

CONSTANTS
  Char,         \* a set of widths
  Strings,      \* typed, pasted, in the history, and completions
  Sizes,        \* of the query: width, and rows there may be above the line
  COL_SPACING,
  Prompt,       \* prompt_w
  Answers,      \* of the completion handler: completions, and what comes before them
  MaxLine       \* bound on the length of the line

ASSUME WedlnAssumption ==
  /\ Char \subseteq Nat \ {0} /\ Strings \subseteq Seq(Char)
  /\ \A answer \in Answers : answer.comps \in Seq(Strings) /\ answer.beg \in Seq(Char)
  /\ \A size \in Sizes : size.w > Prompt /\ size.h \in Int
  /\ {COL_SPACING, Prompt, MaxLine} \subseteq Nat

VARIABLES
  q,        \* the query
  exposed,  \* the server has lost the picture, and its Expose is on the way
  fate,     \* "runs", or "hangs", or "crashes"
  answered  \* what the completion handler has answered in the last step, or NoAnswer

vars == <<q, exposed, fate, answered>>

NoAnswer == [comps |-> <<>>, beg |-> <<>>]

Sum(widths) == FoldLeft(LAMBDA a, b : a + b, 0, widths)
Width(str)  == Sum(str)                  \* XTextWidth
Blank  == 1                              \* the width of " ", of "\\" and of "x"
MaxFontWidth == Max(Char)
Larger(a, b)  == IF a > b THEN a ELSE b
Smaller(a, b) == IF a < b THEN a ELSE b

\* The part of str from offset i on, of length n.
Part(str, i, n) == SubSeq(str, i + 1, i + n)

-----------------------------------------------------------------------------
(* Drawing the line. *)

I_W(s) == s.size.w - Prompt

\* A pixel is one column of a character, with the colours 0 (normal), 1 (selected) or 2
\* (cursor); Bg where there is none, and Junk for what is read beyond the line.
Bg   == <<0, 0, 0>>
Junk == <<0, 0, 1>>
Glyph(c, col)   == [k \in 1..c |-> <<c, k, col>>]
Glyphs(str, col) == FlattenSeq([i \in DOMAIN str |-> Glyph(str[i], col)])

\* DSTRSECT: a section of the line, of n characters; of a negative number none are drawn,
\* but the place where the next one begins goes back.
Section(n, col) == [n |-> n, col |-> col]

\* wedln_draw_strsect, for one section after the other from offset at on.
DrawSections(line, at, sections) ==
  LET drawn(d, sec) ==
        [at |-> d.at + sec.n,
         px |-> d.px \o IF sec.n < 0 THEN <<>>
                        ELSE IF d.at < 0 \/ d.at + sec.n > Len(line) THEN <<Junk>>
                        ELSE Glyphs(Part(line, d.at, sec.n), sec.col)]
  IN  FoldLeft(drawn, [at |-> at, px |-> <<>>], sections)

\* The line from offset at on, as wedln_do_draw_str_box draws it: cursor and mark are
\* relative to at.
StrBox(line, at, cursor, mark) ==
  LET end      == mark <= cursor /\ at + cursor = Len(line)
      upto     == IF mark >= 0 THEN <<Section(mark, 0), Section(cursor - mark, 1)>>
                  ELSE <<Section(cursor, 0)>>
      sections == IF mark > cursor
                  THEN <<Section(cursor, 0), Section(1, 2), Section(mark - cursor - 1, 1)>>
                  ELSE IF end THEN upto ELSE Append(upto, Section(1, 2))
      d        == DrawSections(line, at, sections)
  IN  IF at > Len(line) THEN <<Junk>>
      ELSE d.px \o IF end THEN Glyph(Blank, 2)
                   ELSE IF d.at > Len(line) THEN <<>>
                   ELSE Glyphs(Part(line, d.at, Len(line) - d.at), 0)

\* The picture px with what is drawn from column tx on.
Painted(px, tx, text, iw) ==
  [x \in 1..iw |-> IF x <= tx /\ x \in DOMAIN px THEN px[x]
                   ELSE IF x - tx \in DOMAIN text THEN text[x - tx] ELSE Bg]

\* wedln_draw_str_box
DrawStrBox(s, dstart) ==
  LET at == s.vstart + dstart IN
  [s EXCEPT !.px = Painted(@, Width(Part(s.line, s.vstart, dstart)),
                           StrBox(s.line, at, s.point - at,
                                  IF s.mark >= 0 THEN Larger(s.mark - at, 0) ELSE s.mark),
                           I_W(s))]

\* Where the character at point ends, when the line is drawn from vstart on.
CursorEnd(s, vstart) ==
  Width(Part(s.line, vstart, s.point - vstart))
    + IF s.point = Len(s.line) THEN Blank ELSE s.line[s.point + 1]

\* Mutant: the place of the cursor without its own width.
UpdateCursorPlace(s) ==
  IF s.point <= s.vstart THEN [s |-> [s EXCEPT !.vstart = s.point], ret |-> FALSE]
  ELSE LET fits == {v \in s.vstart .. s.point - 1 :
                      Width(Part(s.line, v, s.point - v)) < I_W(s)}
           v    == IF fits = {} THEN s.point ELSE Min(fits)
       IN  [s |-> [s EXCEPT !.vstart = v], ret |-> v # s.vstart]

\* wedln_update_cursor says whether it has moved vstart to the right.
UpdateCursor(s) ==
  IF s.point <= s.vstart THEN [s |-> [s EXCEPT !.vstart = s.point], ret |-> FALSE]
  ELSE LET fits == {v \in s.vstart .. s.point - 1 : CursorEnd(s, v) < I_W(s)}
           v    == IF fits = {} THEN s.point ELSE Min(fits)
       IN  [s |-> [s EXCEPT !.vstart = v], ret |-> v # s.vstart]

\* wedln_update_handler
Update(s, from) == DrawStrBox(s, Larger(from - s.vstart, 0))
UpdateMoved(s, from) ==
  LET c == UpdateCursor(s) IN
  DrawStrBox(c.s, IF c.ret THEN 0 ELSE Larger(from - s.vstart, 0))

DrawTextarea(s) == DrawStrBox(s, 0)

-----------------------------------------------------------------------------
(* The functions of the editor, with the updates they ask for. *)

Inserted(s, str) ==
  LET new == [s EXCEPT !.line  = Part(@, 0, s.point) \o str \o Part(@, s.point, Len(@) - s.point),
                       !.point = @ + Len(str)]
  IN  UpdateMoved(new, s.point)

Moved(s, p) == UpdateMoved([s EXCEPT !.point = p], Smaller(s.point, p))

\* edln_rspc
Rspc(s, n) ==
  [s EXCEPT !.line = Part(@, 0, s.point) \o Part(@, s.point + n, Len(@) - s.point - n)]

Bol(s) == IF s.point = 0 THEN s ELSE Moved(s, 0)

Deleted(s, n) == LET new == Rspc(s, n) IN Update(new, new.point)

Backspaced(s) ==
  LET new == Deleted(Moved(s, s.point - 1), 1) IN UpdateMoved(new, new.point)

BackKilled(s, p) == UpdateMoved(Rspc([s EXCEPT !.point = p], s.point - p), p)

KilledToBol(s) == UpdateMoved(Rspc(Bol(s), s.point), 0)
KilledLine(s)  == UpdateMoved(Deleted(Bol(s), Len(s.line)), 0)

Cleared(s) == Update([s EXCEPT !.mark = -1], Smaller(s.mark, s.point))

\* edln_do_copy
CopiedOrCut(s, del) ==
  LET beg == Smaller(s.mark, s.point)
      new == IF del THEN Rspc([s EXCEPT !.point = beg], Larger(s.mark, s.point) - beg) ELSE s
  IN  Update([new EXCEPT !.mark = -1], beg)

\* edln_do_set_hist, and the return to the saved line
SetTo(s, str) ==
  UpdateMoved([s EXCEPT !.line = str, !.point = Len(str), !.mark = -1], 0)

-----------------------------------------------------------------------------
(* The list of completions. *)

NoListing == [strs |-> <<>>]

ItemRows(l, i) == l.itemrows[i + 1]
Total(l) == Sum(SubSeq(l.itemrows, 1, l.nitemcol))

\* Division of C.
Quotient(a, b) == IF a >= 0 THEN a \div b ELSE -((-a) \div b)

\* getbeg: how many characters of str fit in maxw.
GetBeg(maxw, str) ==
  LET n    == Quotient(maxw, MaxFontWidth)
      over == {m \in n .. Len(str) - 1 : Width(Part(str, 0, m)) > maxw}
  IN  IF over # {} THEN Min(over) - 1 ELSE Larger(n, Len(str))

\* string_nrows, draw_multirow: the lengths of the rows of str but for the last one.  A
\* negative length leads out of the string.
RECURSIVE Rows(_, _, _)
Rows(str, maxw, indent) ==
  LET n == GetBeg(maxw - Blank, str) IN
  IF Width(str) < maxw \/ n = 0 THEN <<>>
  ELSE IF n < 0 THEN <<n>>
  ELSE <<n>> \o Rows(Part(str, n, Len(str) - n), maxw - indent, 0)

RowsOf(str, w) == Rows(str, w, 2 * Blank)

\* col_fit
ColFit(w, itemw) ==
  IF w > itemw THEN 1 + (w - itemw) \div (itemw + COL_SPACING) ELSE 1

\* oneup, onedown: a place [i, r] is row r of item i.
OneUp(l, p) ==
  IF p.r > 0 THEN [p EXCEPT !.r = @ - 1]
  ELSE IF p.i = 0 THEN p
  ELSE [i |-> p.i - 1, r |-> ItemRows(l, p.i - 1) - 1]

OneDown(l, p) ==
  IF p.r < ItemRows(l, p.i) - 1 THEN [p EXCEPT !.r = @ + 1]
  ELSE IF p.i = l.nitemcol - 1 THEN p
  ELSE [i |-> p.i + 1, r |-> 0]

RECURSIVE Ups(_, _, _)
Ups(l, p, n) == IF n <= 0 THEN p ELSE Ups(l, OneUp(l, p), n - 1)

RECURSIVE Downs(_, _, _)
Downs(l, p, n) == IF n <= 0 THEN p ELSE Downs(l, OneDown(l, p), n - 1)

\* setup_listing and fit_listing, for a window of the width and of the rows of size.
Fit(strs, size) ==
  LET itemw    == Max({Width(strs[i]) : i \in DOMAIN strs})
      ncol     == ColFit(size.w, itemw)
      itemrows == [i \in DOMAIN strs |-> IF ncol = 1 THEN Len(RowsOf(strs[i], size.w)) + 1 ELSE 1]
      nitemcol == IF ncol = 1 THEN Len(strs) ELSE (Len(strs) + ncol - 1) \div ncol
      l        == [strs |-> strs, itemrows |-> itemrows, nitemcol |-> nitemcol]
      visrow   == Smaller(size.h, Total(l))
      last     == [i |-> nitemcol - 1, r |-> ItemRows(l, nitemcol - 1) - 1]
  IN  [strs |-> strs, itemrows |-> itemrows, nitemcol |-> nitemcol, visrow |-> visrow,
       first |-> Ups(l, last, visrow - 1)]

FitCrashes(strs, size) ==
  /\ ColFit(size.w, Max({Width(strs[i]) : i \in DOMAIN strs})) = 1
  /\ \E i \in DOMAIN strs : \E k \in DOMAIN RowsOf(strs[i], size.w) : RowsOf(strs[i], size.w)[k] < 0

\* do_scrollup_listing, do_scrolldown_listing
ScrolledUp(l) == [l EXCEPT !.first = Ups(l, @, l.visrow)]

\* Mutant: the bottom row is not looked for.
RECURSIVE ScrollDownPast(_, _, _, _)
ScrollDownPast(l, top, bottom, n) ==
  IF n <= 0 \/ OneDown(l, top) = top THEN top
  ELSE ScrollDownPast(l, OneDown(l, top), bottom, n - 1)

RECURSIVE ScrollDown(_, _, _, _)
ScrollDown(l, top, bottom, n) ==
  IF n <= 0 \/ OneDown(l, bottom) = bottom THEN top
  ELSE ScrollDown(l, OneDown(l, top), OneDown(l, bottom), n - 1)

ScrolledDown(l) ==
  [l EXCEPT !.first = ScrollDown(l, @, Downs(l, @, l.visrow - 1), l.visrow)]

\* do_draw_listing goes from column to column until it comes to an item that is not there,
\* and looks for items only where there is a row to draw.
DrawHangs(l) == l # NoListing /\ -l.first.r >= l.visrow

-----------------------------------------------------------------------------
(* Fitting and drawing the window. *)

\* The picture of the list is of the rows from list on; none is drawn yet.
None == [i |-> -1, r |-> 0]

Window(s) == <<s.size.w, s.l = NoListing, IF s.l = NoListing THEN 0 ELSE s.l.visrow>>

DrawCompletions(s) == IF s.l = NoListing THEN s ELSE [s EXCEPT !.list = s.l.first]

\* input_refit, for a query with the completions strs: a window that changes its size
\* loses its picture.
Refitted(s, strs, size) ==
  LET new == UpdateCursor([s EXCEPT !.size = size,
                                    !.l = IF strs = <<>> THEN NoListing ELSE Fit(strs, size)]).s
  IN  IF Window(new) = Window(s) THEN new ELSE [new EXCEPT !.px = <<>>, !.list = None]

\* What happens to the program when completions are fitted and drawn.
Fate(strs, size) ==
  IF strs = <<>> THEN "runs"
  ELSE IF FitCrashes(strs, size) THEN "crashes"
  ELSE IF DrawHangs(Fit(strs, size)) THEN "hangs" ELSE "runs"

-----------------------------------------------------------------------------
(* Completion. *)

\* strcmp
Before(a, b) ==
  \/ IsPrefix(a, b)
  \/ \E k \in DOMAIN a \cap DOMAIN b : a[k] < b[k] /\ \A m \in 1 .. k - 1 : a[m] = b[m]

\* One completion more, that is not before the last one kept.
Keep(kept, comp) == IF comp = Last(kept) THEN kept ELSE Append(kept, comp)

\* Mutant: the common part of the last two.
RmDupLast(comps) ==
  LET step(acc, comp) == [kept   |-> Keep(acc.kept, comp),
                          common |-> LongestCommonPrefix({Last(acc.kept), comp})]
  IN  IF comps = <<>> THEN [kept |-> <<>>, common |-> <<>>]
      ELSE FoldLeft(step, [kept |-> <<Head(comps)>>, common |-> Head(comps)], Tail(comps))

\* get_common_part_rmdup: the shortest common part of neighbours, and each string once.
RmDup(comps) ==
  LET step(acc, comp) ==
        LET same == LongestCommonPrefix({Last(acc.kept), comp}) IN
        [kept   |-> Keep(acc.kept, comp),
         common |-> IF Len(same) < Len(acc.common) THEN same ELSE acc.common]
  IN  IF comps = <<>> THEN [kept |-> <<>>, common |-> <<>>]
      ELSE FoldLeft(step, [kept |-> <<Head(comps)>>, common |-> Head(comps)], Tail(comps))

-----------------------------------------------------------------------------

Init ==
  /\ \E size \in Sizes :
       q = [line |-> <<>>, point |-> 0, mark |-> -1, vstart |-> 0, px |-> <<>>,
            size |-> size, l |-> NoListing, list |-> None]
  /\ exposed = TRUE /\ fate = "runs" /\ answered = NoAnswer

Becomes(new) ==
  /\ fate = "runs" /\ Len(new.line) <= MaxLine
  /\ q' = new
  /\ exposed' = (exposed \/ Window(new) # Window(q)) /\ UNCHANGED fate

\* The function leaves the query as new.
Does(new) == Becomes(new) /\ answered' = NoAnswer

Insert(str)    == Does(Inserted(q, str))
Move(p)        == p # q.point /\ Does(Moved(q, p))
Delete(n)      == Does(Deleted(q, n))
Backspace      == q.point # 0 /\ Does(Backspaced(q))
BackKill(p)    == p < q.point /\ Does(BackKilled(q, p))
KillToBol      == Does(KilledToBol(q))
KillLine       == Does(KilledLine(q))
SetMark        == Does([q EXCEPT !.mark = q.point])
ClearMark      == Does(Cleared(q))

\* What a mark beyond the end of the line does to the text is in Edln, and left out here.
CopyOrCut(del) ==
  q.mark \in 0 .. Len(q.line) /\ q.mark # q.point /\ Does(CopiedOrCut(q, del))

History(str)   == Does(SetTo(q, str))

Scroll(l) ==
  /\ q.l # NoListing /\ l # q.l
  /\ Does(DrawCompletions([q EXCEPT !.l = l]))

\* The listing is fitted and drawn, or the program does not come out of it.
Refits(strs, size, new) ==
  IF Fate(strs, size) = "runs" THEN Becomes(new)
  ELSE fate = "runs" /\ fate' = Fate(strs, size) /\ UNCHANGED <<q, exposed>>

\* edln_complete, with what the handler answers: the list is shown or hidden, and then the
\* line up to the point is replaced.
Complete(answer) ==
  \E r \in {RmDup(SortSeq(answer.comps, Before))} :
    LET strs == IF Len(r.kept) > 1 THEN r.kept ELSE <<>> IN
    \E shown \in {IF strs # <<>> THEN DrawCompletions(Refitted(q, strs, q.size))
                  ELSE IF q.l # NoListing THEN Refitted(q, <<>>, q.size) ELSE q} :
      /\ Refits(strs, q.size,
                IF answer.comps = <<>> THEN shown
                ELSE Inserted(Inserted(KilledToBol(shown), answer.beg), r.common))
      /\ answered' = answer

\* The frame is resized, and its query with it.
Resize(size) ==
  /\ size # q.size
  /\ Refits(q.l.strs, size, Refitted(q, q.l.strs, size)) /\ answered' = NoAnswer

\* handle_expose
Expose ==
  /\ fate = "runs" /\ exposed
  /\ q' = DrawTextarea(DrawCompletions(q)) /\ exposed' = FALSE
  /\ answered' = NoAnswer /\ UNCHANGED fate

Next ==
  \/ \E str \in Strings : Insert(str) \/ History(str)
  \/ \E p \in 0 .. Len(q.line) : Move(p) \/ BackKill(p)
  \/ \E n \in 0 .. Len(q.line) : n <= Len(q.line) - q.point /\ Delete(n)
  \/ Backspace \/ KillToBol \/ KillLine
  \/ SetMark \/ ClearMark \/ \E del \in BOOLEAN : CopyOrCut(del)
  \/ q.l # NoListing /\ (Scroll(ScrolledUp(q.l)) \/ Scroll(ScrolledDown(q.l)))
  \/ \E answer \in Answers : Complete(answer)
  \/ \E size \in Sizes : Resize(size)
  \/ Expose

Spec == Init /\ [][Next]_vars

-----------------------------------------------------------------------------
(* Properties. *)

\* Every variable has its type: the cursor is in the line.
TypeOK ==
  /\ q.line \in Seq(Char) /\ q.point \in 0 .. Len(q.line) /\ q.vstart \in Nat
  /\ q.mark \in Nat \cup {-1} /\ q.size \in Sizes
  /\ exposed \in BOOLEAN /\ fate \in {"runs", "hangs", "crashes"}
  /\ answered \in Answers \cup {NoAnswer}

\* The line from vstart on, with the cursor and what is marked.
Picture(s) ==
  LET marked(i) == s.mark >= 0 /\ Smaller(s.mark, s.point) <= i /\ i < Larger(s.mark, s.point)
      colour(i) == IF i = s.point THEN 2 ELSE IF marked(i) THEN 1 ELSE 0
      shown     == [k \in 1 .. Len(s.line) - s.vstart |->
                      Glyph(s.line[s.vstart + k], colour(s.vstart + k - 1))]
      cursor    == IF s.point = Len(s.line) THEN Glyph(Blank, 2) ELSE <<>>
  IN  Painted(<<>>, 0, FlattenSeq(shown) \o cursor, I_W(s))

Shown(s) == s.px = Picture(s) /\ (s.l # NoListing => s.list = s.l.first)

\* The mark, which deletions leave where it is, is in the line, and the point is not
\* before what is shown.
Drawable(s) == s.mark <= Len(s.line) /\ s.vstart <= s.point

InView(s) ==
  s.vstart <= s.point /\ (s.vstart = s.point \/ CursorEnd(s, s.vstart) <= I_W(s))

Resizes == \E size \in Sizes : Resize(size)
Deletes == \E n \in 0 .. Len(q.line) : Delete(n)

\* Drawing only from where the line has changed leaves the picture of the whole line, with
\* the cursor and what is marked, also while an Expose is on its way and with characters of
\* different widths.  It need not after the mark is set anew, for nothing is drawn then,
\* nor after a resize of the frame that leaves the window its size but not its beginning or
\* its list.  And the cursor stays in view, unless text before the view is cut or a
\* wider character comes under it (wedln_update_handler, UPDATE and UPDATE_MOVED of edln.c).
PictureTrue ==
  [][/\ Shown(q) \/ exposed => \/ Shown(q') \/ exposed' \/ ~Drawable(q')
                             \/ (q.mark >= 0 /\ SetMark) \/ Resizes
     /\ InView(q) => InView(q') \/ CopyOrCut(TRUE) \/ Deletes]_vars

RowOf(l, p) == Sum(SubSeq(l.itemrows, 1, p.i)) + p.r

\* The rows that are shown are in the list, and scrolling goes on by as many, up to either
\* end: no row is left out, also when items take several rows (oneup, onedown).
ListingScrolls ==
  LET l   == q.l
      top == RowOf(l, l.first) IN
  /\ TypeOK
  /\ l # NoListing /\ l.visrow > 0 =>
       /\ l.first.i \in 0 .. l.nitemcol - 1 /\ l.first.r \in 0 .. ItemRows(l, l.first.i) - 1
       /\ RowOf(l, ScrolledUp(l).first) = Larger(0, top - l.visrow)
       /\ RowOf(l, ScrolledDown(l).first) = Smaller(Total(l) - l.visrow, top + l.visrow)

\* Whatever the completions are and in whatever order they come, what was typed up to the
\* point becomes what all of them begin with, what follows stays, and the list shows each
\* of them once if there are several (edln_complete, get_common_part_rmdup).
CompletionRight ==
  [][LET comps == ToSet(answered'.comps)
         new   == answered'.beg \o LongestCommonPrefix(comps)
         rest  == SubSeq(q.line, q.point + 1, Len(q.line))
     IN  answered' # NoAnswer /\ fate' = "runs" =>
           /\ comps # {} => q'.line = new \o rest /\ q'.point = Len(new)
           /\ IF Cardinality(comps) > 1
              THEN ToSet(q'.l.strs) = comps /\ Len(q'.l.strs) = Cardinality(comps)
              ELSE q'.l = NoListing]_vars

=============================================================================
