--------------------------------- MODULE Edln ---------------------------------
(***************************************************************************)
(* The line editor behind Ion's queries (edln.c), with the completion that *)
(* rewrites its line (complete.c) and the history all editors share.       *)
(*                                                                         *)
(* An editor keeps its line in a heap block p and, beside it, what it      *)
(* believes of the block: psize (strlen) and palloced (the block's size).  *)
(* The block is modelled byte by byte, with NUL for the terminator and     *)
(* Junk for a byte whose value the program does not know (fresh memory,    *)
(* what lies behind the terminator or outside the block), so that an edit  *)
(* does exactly what the memmove calls do even when psize and palloced are *)
(* wrong.  An edit that writes outside the block, or moves a negative      *)
(* number of bytes, ends the program: crashed.                             *)
(*                                                                         *)
(* Abstracted: letters are Alnum or Other characters, allocation succeeds, *)
(* drawing, and what is pasted or completed (any string of Strings).       *)
(***************************************************************************)
EXTENDS Integers, FiniteSetsExt, SequencesExt

CONSTANTS
  Alnum, Other, \* characters with and without isalnum
  NUL, Junk,
  Strings,      \* typed, pasted, completed and default strings
  AllocUnit,    \* EDLN_ALLOCUNIT, a power of two
  HistorySize,  \* EDLN_HISTORY_SIZE
  MaxLine,      \* bound: insertions and the history make no longer lines
  MaxUnsound,   \* bound: edits of an editor whose psize or palloced is wrong
  None

Char == Alnum \cup Other
Byte == Char \cup {NUL, Junk}

ASSUME EdlnAssumption ==
  /\ Strings \subseteq Seq(Char)
  /\ HistorySize \in Nat \ {0} /\ AllocUnit \in Nat \ {0} /\ MaxLine \in Nat
  /\ NUL \notin Char /\ Junk # NUL /\ None \notin Seq(Byte)

VARIABLES
  ed,         \* the editor
  hist,       \* hist[0 .. EDLN_HISTORY_SIZE - 1]
  hist_head,
  hist_count,
  selection,  \* "none", bytes of the "line", or bytes from "outside" of it
  crashed

vars == <<ed, hist, hist_head, hist_count, selection, crashed>>

-----------------------------------------------------------------------------
(* Blocks of memory; offsets count from 0 as in the code. *)

Round(n) == n - (n % AllocUnit) + (AllocUnit - 1)    \* n | (EDLN_ALLOCUNIT - 1)
Trunc(n) == n - (n % AllocUnit)                    \* n & ~(EDLN_ALLOCUNIT - 1)

Fresh(n) == [k \in 1..n |-> Junk]

Bytes(p, i, n) == [k \in 1..n |-> IF i + k \in DOMAIN p THEN p[i + k] ELSE Junk]

Store(p, i, s) == [k \in DOMAIN p |-> IF k - i \in DOMAIN s THEN s[k - i] ELSE p[k]]

Strlen(p) == Min({k \in DOMAIN p : p[k] = NUL} \cup {Len(p) + 1}) - 1

Line(p) == SubSeq(p, 1, Strlen(p))

\* Bytes behind the terminator are forgotten.
Forget(p) == [k \in DOMAIN p |-> IF k <= Strlen(p) + 1 THEN p[k] ELSE Junk]

\* memmove from the block of e into block, which becomes the block of e.
Memmove(e, block, to, from, n) ==
  [e EXCEPT !.p  = Store(block, to, Bytes(e.p, from, n)),
            !.ok = @ /\ n >= 0 /\ to + n <= Len(block) /\ e.point <= Len(block)]

\* A new block gets the bytes before point first.
Realloc(e, size) == Store(Fresh(size), 0, Bytes(e.p, 0, e.point))

\* Mutant: the terminator needs no room.
PspcNoNul(e, n) ==
  LET grow == e.palloced < e.psize + n
      pa   == Round(e.palloced + n)
      m    == Memmove(e, IF grow THEN Realloc(e, pa) ELSE e.p,
                      e.point + n, e.point, e.psize - e.point + 1)
  IN  [m EXCEPT !.palloced = IF grow THEN pa ELSE @, !.psize = @ + n]

\* edln_pspc: room for n bytes at point.
Pspc(e, n) ==
  LET grow == e.palloced < e.psize + 1 + n
      pa   == Round(e.palloced + n)
      m    == Memmove(e, IF grow THEN Realloc(e, pa) ELSE e.p,
                      e.point + n, e.point, e.psize - e.point + 1)
  IN  [m EXCEPT !.palloced = IF grow THEN pa ELSE @, !.psize = @ + n]

\* edln_rspc: n bytes at point, or what is left of the line, go.
Removed(e, n) == IF n + e.point >= e.psize THEN e.psize - e.point ELSE n

Rspc(e, asked) ==
  LET n      == Removed(e, asked)
      pa     == Trunc(e.palloced)
      shrink == e.psize + 1 - n < pa
      m      == Memmove(e, IF shrink THEN Realloc(e, pa) ELSE e.p,
                        e.point, e.point + n, e.psize - e.point + 1 - n)
  IN  IF n = 0 THEN e
      ELSE [m EXCEPT !.palloced = IF shrink THEN pa ELSE @, !.psize = @ - n]

\* edln_insstr_n
Insert(e, s) ==
  LET m == Pspc(e, Len(s))
  IN  [m EXCEPT !.p     = Store(@, e.point, s),
                !.point = @ + Len(s),
                !.ok    = @ /\ e.point + Len(s) <= Len(m.p)]

\* edln_initstr
InitStr(e, s) ==
  LET al == Round(Len(s) + 1)
  IN  [e EXCEPT !.p = Store(Fresh(al), 0, Append(s, NUL)),
                !.palloced = al, !.psize = Len(s)]

-----------------------------------------------------------------------------
(* Movement and words. *)

IsAlnum(e, i) == i + 1 \in DOMAIN e.p /\ e.p[i + 1] \in Alnum

\* The last (first) position of a set, or what the loop ends with.
LastOf(S, end)  == IF S = {} THEN end ELSE Max(S)
FirstOf(S, end) == IF S = {} THEN end ELSE Min(S)

Back(e)    == IF e.point > 0 THEN [e EXCEPT !.point = @ - 1] ELSE e
Forward(e) == IF e.point < e.psize THEN [e EXCEPT !.point = @ + 1] ELSE e
Bol(e)     == [e EXCEPT !.point = 0]
Eol(e)     == [e EXCEPT !.point = e.psize]

BskipWord(e) ==
  LET words == {i \in 1..(e.point - 1) : IsAlnum(e, i)}
      gaps  == {i \in 1..Max(words) : ~IsAlnum(e, i)}
  IN  IF words = {} THEN e ELSE [e EXCEPT !.point = LastOf(gaps, -1) + 1]

SkipWord(e) ==
  LET gaps  == {i \in e.point..(e.psize - 1) : ~IsAlnum(e, i)}
      words == {i \in Min(gaps)..(e.psize - 1) : IsAlnum(e, i)}
  IN  IF gaps = {} THEN e ELSE [e EXCEPT !.point = FirstOf(words, e.psize)]

-----------------------------------------------------------------------------
(* Deletion. *)

Delete(e)    == Rspc(e, 1)
Backspace(e) == IF e.point # 0 THEN Delete(Back(e)) ELSE e
KillToEol(e) == Rspc(e, e.psize - e.point)
KillToBol(e) == [Rspc(Bol(e), e.point) EXCEPT !.point = 0]
KillLine(e)  == KillToEol(Bol(e))

\* To where the character at point and its like, or their unlike, end.
KillWord(e) ==
  LET ends == {i \in (e.point + 1)..e.psize : IsAlnum(e, i) # IsAlnum(e, e.point)}
  IN  Rspc(e, FirstOf(ends, FirstOf({e.psize} \cap (e.point..e.psize), e.point)) - e.point)

BkillWord(e) ==
  LET p == LastOf({i \in 0..(e.point - 2) : IsAlnum(e, i) # IsAlnum(e, e.point - 1)}, -1) + 1
  IN  IF e.point = 0 THEN e ELSE Rspc([e EXCEPT !.point = p], e.point - p)

Complete(e, beg, s) == Insert(Insert(KillToBol(e), beg), s)

-----------------------------------------------------------------------------
(* The history ring; entry 0 of a full ring may be anywhere. *)

NoEditor == [open |-> FALSE, unsound |-> 0]

Fill(e, s) == [InitStr(e, s) EXCEPT !.point = Len(s), !.mark = -1]

New(s) == Fill([open |-> TRUE, ok |-> TRUE, p |-> <<>>, palloced |-> 0, psize |-> 0,
                point |-> 0, mark |-> -1, histent |-> -1, tmp_p |-> None,
                unsound |-> 0], s)

\* Mutant: the head does not wrap around.
HeadStuck(h) == Max({h - 1, 0})

HeadBefore(h) == IF h - 1 < 0 THEN HistorySize - 1 ELSE h - 1

\* edlnhist_push
Push(s) ==
  /\ hist_head'  = HeadBefore(hist_head)
  /\ hist_count' = Min({hist_count + 1, HistorySize})
  /\ hist'       = [hist EXCEPT ![HeadBefore(hist_head)] = s]

Oldest == (hist_head + hist_count - 1) % HistorySize

\* edln_do_set_hist; an entry that is NULL has no strlen.
SetHist(e, n) ==
  IF hist[n] = None THEN [e EXCEPT !.ok = FALSE]
  ELSE [Fill(e, hist[n]) EXCEPT !.histent = n]

Prev(e) ==
  LET n == IF e.histent = -1 THEN hist_head ELSE (e.histent + 1) % HistorySize
  IN  [SetHist(e, n) EXCEPT !.tmp_p = IF e.histent = -1 THEN e.p ELSE @]

\* Mutant: the saved line stays saved.
RestoreKeeping(e) ==
  [e EXCEPT !.p = e.tmp_p, !.histent = -1, !.point = Strlen(e.tmp_p), !.mark = -1]

\* The saved line comes back, but not its psize and palloced.
Restore(e) ==
  [e EXCEPT !.p = e.tmp_p, !.tmp_p = None, !.histent = -1,
            !.point = Strlen(e.tmp_p), !.mark = -1]

-----------------------------------------------------------------------------

Init ==
  /\ ed = NoEditor
  /\ hist = [n \in 0..(HistorySize - 1) |-> None]
  /\ hist_head = HistorySize /\ hist_count = 0
  /\ selection = "none"
  /\ crashed = FALSE

Same == UNCHANGED <<hist, hist_head, hist_count, selection>>

Opened == ~crashed /\ ed.open

\* psize and palloced describe the block, which has room for the terminator.
Sound(o) ==
  o.open =>
    /\ Strlen(o.p) = o.psize /\ o.psize < o.palloced /\ Len(o.p) = o.palloced
    /\ o.point <= o.psize

\* An edit that leaves its blocks intact, or the end of the program.  An
\* editor whose sizes are wrong is followed for MaxUnsound more edits.
Edit(new) ==
  /\ Sound(ed) \/ ed.unsound < MaxUnsound
  /\ ed' = IF new.ok
           THEN [new EXCEPT !.p = Forget(@), !.unsound = IF Sound(ed) THEN 0 ELSE @ + 1]
           ELSE ed
  /\ crashed' = ~new.ok

Open(s) ==
  /\ ~crashed /\ ~ed.open
  /\ Edit(New(s))
  /\ Same

Fits(n) == Max({Strlen(ed.p), ed.psize, ed.point}) + n <= MaxLine

\* A key, or what the X server sends for a paste, adds text.
InsertString(s) ==
  /\ Opened /\ Fits(Len(s))
  /\ Edit(Insert(ed, s))
  /\ Same

\* edln_complete; a completion is no shorter than what it completes.
CompleteLine(beg, s) ==
  /\ Opened /\ Fits(Len(beg) + Len(s)) /\ ed.point <= Len(beg) + Len(s)
  /\ Edit(Complete(ed, beg, s))
  /\ Same

Move ==
  /\ Opened
  /\ \E new \in {Back(ed), Forward(ed), Bol(ed), Eol(ed),
                 BskipWord(ed), SkipWord(ed)} : Edit(new)
  /\ Same

EraseLine ==
  /\ Opened
  /\ Edit(KillLine(ed))
  /\ Same

Erase ==
  /\ Opened
  /\ \E new \in {Delete(ed), Backspace(ed), KillToEol(ed), KillToBol(ed),
                 KillWord(ed), BkillWord(ed)} : Edit(new)
  /\ Same

SetMark ==
  /\ Opened
  /\ Edit([ed EXCEPT !.mark = ed.point])
  /\ Same

\* edln_do_copy: the bytes between mark and point, which del removes.
CopyOrCut(del) ==
  LET beg == Min({ed.mark, ed.point})
      end == Max({ed.mark, ed.point})
      new == IF del THEN Rspc([ed EXCEPT !.point = beg], end - beg) ELSE ed
  IN
  /\ Opened /\ ed.mark >= 0 /\ ed.mark # ed.point
  /\ selection' = IF end <= Strlen(ed.p) THEN "line" ELSE "outside"
  /\ Edit([new EXCEPT !.mark = -1])
  /\ UNCHANGED <<hist, hist_head, hist_count>>

HistoryPrev ==
  /\ Opened
  /\ IF ed.histent = -1 THEN hist_count # 0 ELSE ed.histent # Oldest
  /\ Edit(Prev(ed))
  /\ Same

HistoryNext ==
  /\ Opened /\ ed.histent # -1
  /\ Edit(IF ed.histent = hist_head THEN Restore(ed)
          ELSE SetHist(ed, (ed.histent + HistorySize - 1) % HistorySize))
  /\ Same

\* edln_finish and the end of the query's window.  Lines with bytes nobody
\* wrote, of an editor with wrong sizes, are not followed into the history.
Finish ==
  /\ Opened /\ Strlen(ed.p) <= MaxLine /\ Line(ed.p) \in Seq(Char)
  /\ Push(Line(ed.p))
  /\ ed' = NoEditor
  /\ UNCHANGED <<selection, crashed>>

Cancel ==
  /\ Opened
  /\ ed' = NoEditor
  /\ UNCHANGED crashed /\ Same

\* A query of another frame ends: its line goes into the shared history.
OtherFinishes(s) ==
  /\ ~crashed
  /\ Push(s)
  /\ UNCHANGED <<ed, selection, crashed>>

\* SelectionClear: another client owns the selection now.
ClearSelection ==
  /\ ~crashed /\ selection # "none"
  /\ selection' = "none"
  /\ UNCHANGED <<ed, hist, hist_head, hist_count, crashed>>

Next ==
  \/ \E s \in Strings : Open(s) \/ InsertString(s) \/ OtherFinishes(s)
  \/ \E beg, s \in Strings : CompleteLine(beg, s)
  \/ Move \/ Erase \/ EraseLine
  \/ SetMark \/ \E del \in BOOLEAN : CopyOrCut(del)
  \/ HistoryPrev \/ HistoryNext
  \/ Finish \/ Cancel \/ ClearSelection

Spec == Init /\ [][Next]_vars

-----------------------------------------------------------------------------
(* Properties. *)

\* The shape of the state: where the fields of an open editor may point.
TypeOK ==
  /\ ed.open =>
       /\ ed.ok /\ ed.p \in Seq(Byte) /\ ed.tmp_p \in {None} \cup Seq(Byte)
       /\ {ed.point, ed.psize, ed.palloced} \subseteq Nat
       /\ ed.mark \in Nat \cup {-1}
       /\ ed.histent \in -1..(HistorySize - 1)
  /\ hist \in [0..(HistorySize - 1) -> {None} \cup Seq(Char)]
  /\ hist_head \in 0..HistorySize /\ hist_count \in 0..HistorySize
  /\ selection \in {"none", "line", "outside"}
  /\ crashed \in BOOLEAN

\* Growing and shrinking keep psize, palloced and the terminator right and
\* write nothing outside the block, whatever edits, movements and history
\* steps are combined: one size computation off by one overruns the block.
\* And an entry of the history is there when a query walks to it by index,
\* whatever other queries pushed meanwhile.  Only the step forward from the
\* newest history entry, back to the saved line, may break it.
EditsKeepLineSound ==
  [][Sound(ed) => \/ Sound(ed') /\ ~crashed'
                  \/ HistoryNext /\ ed.histent = hist_head]_vars

\* The line being edited is saved exactly while the history is shown: it is
\* neither lost, nor freed twice, nor restored when there is none.
SavedLineWhileBrowsing == TypeOK /\ (ed.open => (ed.histent = -1 <=> ed.tmp_p = None))

\* The history as a list, newest first.
History == [k \in 1..hist_count |-> hist[(hist_head + k - 1) % HistorySize]]

\* The ring is the list of the last HistorySize lines: a push puts a line first
\* and forgets at most the oldest, also when the head wraps around.
HistoryIsNewestFirst ==
  [][\/ UNCHANGED History
     \/ \E s \in Strings \cup {IF ed.open THEN Line(ed.p) ELSE <<>>} :
          History' = SubSeq(<<s>> \o History, 1, Min({Len(History) + 1, HistorySize}))]_vars
===============================================================================
