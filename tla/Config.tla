------------------------------- MODULE Config -------------------------------
(***************************************************************************)
(* The parser of configuration files and of commands (libtu: parser.c)     *)
(* with the handlers of the main configuration (readconfig.c).             *)
(*                                                                         *)
(* A text is any sequence of tokens, chosen as they are read.  A statement *)
(* is an option and its arguments; an option may have a section of options *)
(* of its own.  The parser is tolerant of errors in files: it skips the    *)
(* statement, and its section.  Commands are parsed by the same function,  *)
(* with one option that stands for any function, and end at an error.      *)
(***************************************************************************)
EXTENDS Integers, Sequences

CONSTANTS
  Screen,      \* the screens
  MAX_TOKENS,  \* of a statement, one more than can be used
  MAX_NEST,    \* of sections
  MaxErrors,   \* bound on the depth of sections that are skipped
  MaxFiles     \* bound on files that include each other

ASSUME ConfigAssumption ==
  /\ MAX_TOKENS \in Nat \ {0, 1} /\ MAX_NEST \in Nat \ {0, 1}
  /\ MaxErrors \in Nat /\ MaxFiles \in Nat \ {0}

VARIABLES
  tolerant,  \* TOKZ_ERROR_TOLERANT, a file; or TOKZ_DEFAULT_OPTION, a command
  files,     \* filestack, the current file last: its ungettok, and whether it is at its end
  stmt,      \* read_statement
  pc,        \* what the parser does
  stack,     \* optstack up to nest_lvl: the options of each section, and what they set
  errornest,
  is_default,
  tmp,       \* tmp_bindmap, tmp_winprop, confsel
  braces,    \* the braces of the text that are open, by whether their section is skipped
  lost,      \* an error has swallowed a brace
  refused    \* a submap could not be bound, and opt_submap did not say so

parser == <<tolerant, files, stmt, pc, stack, errornest, is_default>>
vars   == <<parser, tmp, braces, lost, refused>>

-----------------------------------------------------------------------------
(* Options. *)

\* For each table of ConfOpts the table of each option's section, or "none".
Options == [toplevel |-> [bindings |-> "bindings", screen |-> "screen", winprop |-> "winprop",
                          opaque_resize |-> "none"],
            bindings |-> [submap |-> "bindings", kpress |-> "none"],
            screen   |-> [font |-> "none", spacing |-> "none"],
            winprop  |-> [switchto |-> "none"],
            command  |-> [default |-> "none"]]

Option == UNION {DOMAIN Options[t] : t \in DOMAIN Options} \cup {"include"}
Ident  == Option \ {"default"}

\* lookup_option, in the section, then in common_opts, then "#default"; or "unknown".
LookupOption(table, name) ==
  IF name \in DOMAIN Options[table] THEN name
  ELSE IF name = "include" THEN "include"
  ELSE IF ~tolerant /\ "default" \in DOMAIN Options[table] THEN "default"
  ELSE "unknown"

Section(table, opt) == IF opt = "include" THEN "none" ELSE Options[table][opt]

\* Bindmaps are named by the way to them; NULL is the empty one.
Parent(bindmap) == SubSeq(bindmap, 1, Len(bindmap) - 1)
Outside == [bindmap |-> <<>>, winprop |-> FALSE, confsel |-> {}]

-----------------------------------------------------------------------------
(* Tokens. *)

Ops == {"nextline", ";", "{", "}", ",", "="}
Token == Ident \cup {"arg", "error", "eof"} \cup Ops
None  == "none"

File == [unget |-> None, ended |-> FALSE]
Current == files[Len(files)]
WithCurrent(f) == [files EXCEPT ![Len(files)] = f]

\* tokz_get_token: t is the next token.
GetToken(t) ==
  IF Current.unget # None THEN t = Current.unget
  ELSE IF Current.ended THEN t = "eof"
  ELSE t \in Token /\ (t = "{" => errornest < MaxErrors)

\* t has been read.
Got(t) == [unget |-> None, ended |-> Current.ended \/ t = "eof"]

\* tokz_unget_token
Ungot(t) == [Got(t) EXCEPT !.unget = t]

\* n: ntokens; first: tokens[0]; comma: had_comma; e: there was an error; type: retval.
NoStatement == [n |-> 0, first |-> None, comma |-> 0, e |-> FALSE, type |-> "none"]

Init ==
  /\ tolerant \in BOOLEAN
  /\ files = <<File>> /\ stmt = NoStatement /\ pc = "read"
  /\ stack = <<[table |-> IF tolerant THEN "toplevel" ELSE "command", target |-> Outside]>>
  /\ errornest = 0 /\ is_default = FALSE
  /\ tmp = Outside
  /\ braces = <<>> /\ lost = FALSE /\ refused = FALSE

-----------------------------------------------------------------------------
(* read_statement. *)

\* The statement is over.  A line may be followed by the brace of its section.
Finish(type, e, file) ==
  /\ stmt' = [stmt EXCEPT !.type = type, !.e = e]
  /\ pc' = IF type = "stmt" THEN "find" ELSE "run"
  /\ files' = WithCurrent(file)

\* A syntax error in the middle of it.  Who is not tolerant goes on behind it
\* as if a statement had ended, without an error.
Syntax(s, file) ==
  /\ files' = WithCurrent(file)
  /\ IF tolerant THEN stmt' = [s EXCEPT !.e = TRUE] /\ pc' = pc
     ELSE stmt' = NoStatement /\ pc' = "read"

\* A token that is not an operator.  There are commas between arguments, and none
\* before the first one.
ReadWord(t) ==
  LET full == stmt.n = MAX_TOKENS - 1
      s    == [stmt EXCEPT !.n = IF full THEN @ ELSE @ + 1, !.e = @ \/ full,
                           !.first = IF stmt.n = 0 THEN t ELSE @]
  IN  /\ pc = "read" /\ GetToken(t) /\ t \in Ident \cup {"arg"}
      /\ IF (full /\ ~tolerant) \/ (s.comma = 0 /\ s.n # 1) THEN Syntax(s, Got(t))
         ELSE /\ stmt' = [s EXCEPT !.comma = IF @ = 0 THEN 2 ELSE 0]
              /\ files' = WithCurrent(Got(t)) /\ pc' = pc
      /\ UNCHANGED <<tolerant, stack, errornest, is_default, tmp, braces, lost, refused>>

\* tokz_get_token has reported an error.
ReadError ==
  /\ pc = "read" /\ GetToken("error")
  /\ stmt' = [stmt EXCEPT !.e = TRUE]
  /\ files' = WithCurrent(Got("error"))
  /\ UNCHANGED <<tolerant, pc, stack, errornest, is_default, tmp, braces, lost, refused>>

\* An operator.  It counts as a token until it is known to be one: with the most
\* tokens there can be, the last one is dropped.
ReadOp(t) ==
  LET full  == stmt.n = MAX_TOKENS - 1
      s     == [stmt EXCEPT !.n = IF full THEN @ - 1 ELSE @, !.e = @ \/ full]
      e     == s.e \/ s.comma = 1
      empty == s.n = 0
  IN  /\ pc = "read" /\ GetToken(t) /\ t \in Ops \cup {"eof"}
      /\ \/ full /\ ~tolerant /\ Syntax(s, Got(t))
         \/ /\ ~(full /\ ~tolerant)
            /\ \/ t = ";" /\ Finish(IF empty THEN "none" ELSE "stmt_ns", e, Got(t))
               \/ t = "nextline" /\ Finish(IF empty THEN "none" ELSE "stmt", e, Got(t))
               \/ t = "{" /\ Finish(IF empty THEN "beg_sect" ELSE "stmt_sect", e, Got(t))
               \/ t = "}" /\ IF empty THEN Finish("end_sect", e, Got(t))
                             ELSE Finish("stmt_ns", e, Ungot(t))
               \/ t = "eof" /\ Finish(IF empty THEN "eof" ELSE "stmt_ns", e, Got(t))
               \/ t = "," /\ s.comma = 0 /\ stmt' = [s EXCEPT !.comma = 1]
                  /\ files' = WithCurrent(Got(t)) /\ pc' = pc
               \/ (t = "=" \/ (t = "," /\ s.comma # 0)) /\ Syntax(s, Got(t))
      /\ UNCHANGED <<tolerant, stack, errornest, is_default, tmp, braces, lost, refused>>

\* find_beg_sect: what follows the line.
FindBegSect(t) ==
  /\ pc = "find" /\ GetToken(t)
  /\ \/ t = "nextline" /\ files' = WithCurrent(Got(t)) /\ UNCHANGED <<pc, stmt>>
     \/ t \in {";", "error"} /\ files' = WithCurrent(Got(t)) /\ pc' = "run" /\ UNCHANGED stmt
     \/ t = "{" /\ files' = WithCurrent(Got(t)) /\ pc' = "run"
        /\ stmt' = [stmt EXCEPT !.type = "stmt_sect"]
     \/ t \notin {"nextline", ";", "error", "{"} /\ files' = WithCurrent(Ungot(t)) /\ pc' = "run"
        /\ UNCHANGED stmt
  /\ UNCHANGED <<tolerant, stack, errornest, is_default, tmp, braces, lost, refused>>

-----------------------------------------------------------------------------
(* The loop of parse_config_tokz. *)

IsStmt == stmt.type \in {"stmt", "stmt_ns", "stmt_sect"}
IsSect == stmt.type = "stmt_sect"

\* The next statement is read; the brace of a section that is skipped is remembered.
NextStatement == stmt' = NoStatement /\ pc' = "read"

\* had_error is set at the end of the loop.
Fail ==
  /\ stmt' = NoStatement /\ pc' = (IF tolerant THEN "read" ELSE "cancel")
  /\ errornest' = IF IsSect THEN errornest + 1 ELSE errornest
  /\ braces' = IF IsSect THEN Append(braces, "skipped") ELSE braces

Top == stack[Len(stack)].table
Opt == LookupOption(Top, stmt.first)
LegalSection == IF Section(Top, Opt) = "none" THEN ~IsSect ELSE IsSect /\ Len(stack) < MAX_NEST

\* The option is known.  #default stays set for the statements that follow.
Default == is_default \/ Opt = "default"

\* A statement with an error, of the text or of a section that is skipped.
BadStatement ==
  /\ pc = "run" /\ IsStmt
  /\ stmt.e \/ errornest > 0 \/ stmt.first \notin Ident
  /\ Fail
  /\ UNCHANGED <<tolerant, files, stack, is_default, tmp, lost, refused>>

Good == pc = "run" /\ IsStmt /\ ~stmt.e /\ errornest = 0 /\ stmt.first \in Ident

\* An option that there is not, arguments it does not take, or a section it does not have.
BadOption ==
  /\ Good
  /\ \/ Opt = "unknown" /\ is_default' = (is_default /\ tolerant)
     \/ Opt # "unknown" /\ ~Default /\ is_default' = is_default   \* check_args
     \/ Opt # "unknown" /\ ~LegalSection /\ is_default' = Default
  /\ Fail
  /\ UNCHANGED <<tolerant, files, stack, tmp, lost, refused>>

\* The option's handler is called, and returns ok; afterwards tmp is new.
Call(opts, ok, new) ==
  /\ Good /\ Opt \in opts /\ LegalSection
  /\ is_default' = Default
  /\ tmp' = new
  /\ IF ok
     THEN /\ NextStatement /\ UNCHANGED errornest
          /\ braces' = IF IsSect THEN Append(braces, "section") ELSE braces
     ELSE Fail
  /\ UNCHANGED <<tolerant, lost>>

\* The section of the option is entered; its statements should set target.
Entered(target) == Append(stack, [table |-> Section(Top, Opt), target |-> target])

\* opt_bindings, opt_tab_bindings and the others
OptBindings ==
  LET new == [tmp EXCEPT !.bindmap = <<"main">>] IN
  /\ Call({"bindings"}, TRUE, new) /\ stack' = Entered(new)
  /\ UNCHANGED <<files, refused>>

\* opt_submap, when the key is unknown to the keyboard.
OptSubmapNoKey ==
  /\ tmp.bindmap # <<>>
  /\ Call({"submap"}, FALSE, tmp)
  /\ UNCHANGED <<files, stack, refused>>

\* opt_submap: the key is bound to a new map.
OptSubmap ==
  LET new == [tmp EXCEPT !.bindmap = Append(@, "submap")] IN
  /\ tmp.bindmap # <<>>
  /\ Call({"submap"}, TRUE, new) /\ stack' = Entered(new)
  /\ UNCHANGED <<files, refused>>

\* opt_submap, when the key is not understood (parse_keybut) or cannot be bound
\* (add_binding): no map is entered, and all is said to be well.
OptSubmapRefused ==
  LET new == [tmp EXCEPT !.bindmap = Append(@, "submap")] IN
  /\ tmp.bindmap # <<>>
  /\ Call({"submap"}, TRUE, tmp) /\ stack' = Entered(new)
  /\ refused' = TRUE
  /\ UNCHANGED files

\* do_bind, opt_set_mod: the binding is added to tmp_bindmap, or is ignored.
DoBind(ok) ==
  /\ tmp.bindmap # <<>>
  /\ Call({"kpress"}, ok, tmp)
  /\ UNCHANGED <<files, stack, refused>>

\* tmp_bindmap is NULL.
Crash ==
  /\ Good /\ Opt \in {"submap", "kpress"} /\ LegalSection /\ tmp.bindmap = <<>>
  /\ pc' = "crashed"
  /\ UNCHANGED <<tolerant, files, stmt, stack, errornest, is_default, tmp, braces, lost, refused>>

\* begin_winprop
BeginWinprop ==
  LET new == [tmp EXCEPT !.winprop = TRUE] IN
  /\ Call({"winprop"}, TRUE, new) /\ stack' = Entered(new)
  /\ UNCHANGED <<files, refused>>

\* begin_screen: any of the numbers given may be those of screens.
BeginScreen(chosen) ==
  LET new == [tmp EXCEPT !.confsel = @ \cup chosen] IN
  /\ Call({"screen"}, TRUE, new)
  /\ stack' = Entered([tmp EXCEPT !.confsel = chosen])
  /\ UNCHANGED <<files, refused>>

\* opt_screen_font and the others of fonts: every selected screen gets it.
SetFont ==
  /\ Call({"font"}, TRUE, tmp)
  /\ UNCHANGED <<files, stack, refused>>

\* opt_screen_spacing, the borders, the colours and the corner of shortcuts; only
\* opt_screen_spacing complains.
SetLook(ok) ==
  /\ Call({"spacing"}, ok, tmp)
  /\ UNCHANGED <<files, stack, refused>>

\* opt_opaque_resize and the other global options, opt_module.
SetGlobal(ok) ==
  /\ Call({"opaque_resize"}, ok, tmp)
  /\ UNCHANGED <<files, stack, refused>>

\* opt_winprop_switchto and the other properties of windows.
SetWinprop(ok) ==
  /\ Call({"switchto"}, ok, tmp)
  /\ UNCHANGED <<files, stack, refused>>

\* opt_include: the file is read before what follows.
OptInclude(ok) ==
  /\ Call({"include"}, ok, tmp)
  /\ (ok /\ tolerant) => Len(files) < MaxFiles
  /\ files' = IF ~ok THEN files ELSE IF tolerant THEN Append(files, File)
              ELSE WithCurrent([Current EXCEPT !.unget = None])
  /\ UNCHANGED <<stack, refused>>

\* opt_default
OptDefault(ok) ==
  /\ Call({"default"}, ok, tmp)
  /\ UNCHANGED <<files, stack, refused>>

\* A line without tokens.
EmptyStatement ==
  /\ pc = "run" /\ stmt.type = "none"
  /\ IF stmt.e THEN Fail ELSE (NextStatement /\ UNCHANGED <<errornest, braces>>)
  /\ UNCHANGED <<tolerant, files, stack, is_default, tmp, lost, refused>>

\* P_BEG_SECT: a brace without a statement.
BegSect ==
  /\ pc = "run" /\ stmt.type = "beg_sect"
  /\ stmt' = NoStatement /\ pc' = (IF tolerant THEN "read" ELSE "cancel")
  /\ errornest' = errornest + 1 /\ braces' = Append(braces, "skipped")
  /\ UNCHANGED <<tolerant, files, stack, is_default, tmp, lost, refused>>

\* Mutant: the end of any map of bindings ends all of them.
EndHandlerOutermost(table) ==
  CASE table = "bindings" -> [tmp EXCEPT !.bindmap = <<>>]
    [] table = "winprop"  -> [tmp EXCEPT !.winprop = FALSE]
    [] table = "screen"   -> [tmp EXCEPT !.confsel = {}]
    [] OTHER              -> tmp

\* #end: end_bindings, end_winprop, end_screen.
EndHandler(table) ==
  CASE table = "bindings" -> [tmp EXCEPT !.bindmap = Parent(@)]
    [] table = "winprop"  -> [tmp EXCEPT !.winprop = FALSE]
    [] table = "screen"   -> [tmp EXCEPT !.confsel = {}]
    [] OTHER              -> tmp
EndCrashes(table) == table = "bindings" /\ tmp.bindmap = <<>>

\* Mutant: a brace ends a section although one in it is skipped.
EndsSectionAlways == errornest = 0 \/ Len(stack) > 1

EndsSection == errornest = 0

\* P_END_SECT.  With an error before it the brace ends nothing.
EndSect ==
  /\ pc = "run" /\ stmt.type = "end_sect"
  /\ LET stray == Len(stack) = 1 /\ errornest = 0 IN
     /\ lost' = (lost \/ (stmt.e /\ braces # <<>>))
     /\ IF stmt.e \/ stray
        THEN /\ stmt' = NoStatement /\ pc' = (IF tolerant THEN "read" ELSE "cancel")
             /\ UNCHANGED <<stack, errornest, tmp>>
        ELSE IF ~EndsSection
        THEN (errornest' = errornest - 1 /\ NextStatement /\ UNCHANGED <<stack, tmp>>)
        ELSE IF EndCrashes(Top)
        THEN (pc' = "crashed" /\ UNCHANGED <<stmt, stack, errornest, tmp>>)
        ELSE /\ tmp' = EndHandler(Top) /\ stack' = SubSeq(stack, 1, Len(stack) - 1)
             /\ NextStatement /\ UNCHANGED errornest
  /\ braces' = IF braces = <<>> THEN braces ELSE SubSeq(braces, 1, Len(braces) - 1)
  /\ UNCHANGED <<tolerant, files, is_default, refused>>

Popped == SubSeq(files, 1, Len(files) - 1)

\* P_EOF: an included file is over (tokz_popf), or the text is.
EndOfFile ==
  /\ pc = "run" /\ stmt.type = "eof"
  /\ stmt' = NoStatement
  /\ IF Len(files) > 1
     THEN pc' = "read" /\ files' = Popped
     ELSE pc' = (IF stmt.e \/ Len(stack) > 1 \/ errornest > 0 THEN "cancel" ELSE "end") /\ UNCHANGED files
  /\ UNCHANGED <<tolerant, stack, errornest, is_default, tmp, braces, lost, refused>>

\* After the loop: the sections that are open are ended, or in a command cancelled.
CloseSection ==
  /\ pc \in {"end", "cancel"} /\ stack # <<>>
  /\ LET ended == tolerant \/ pc = "end" IN
     IF ended /\ EndCrashes(Top) THEN pc' = "crashed" /\ UNCHANGED <<tmp, stack>>
     ELSE /\ tmp' = IF ended THEN EndHandler(Top) ELSE tmp
          /\ stack' = SubSeq(stack, 1, Len(stack) - 1) /\ pc' = pc
  /\ UNCHANGED <<tolerant, files, stmt, errornest, is_default, braces, lost, refused>>

Done ==
  /\ pc = "crashed" \/ (pc \in {"end", "cancel"} /\ stack = <<>>)
  /\ UNCHANGED vars

Next ==
  \/ ReadError
  \/ \E t \in Token : ReadWord(t) \/ ReadOp(t) \/ FindBegSect(t)
  \/ BadStatement \/ BadOption \/ EmptyStatement \/ BegSect \/ EndSect
  \/ OptBindings \/ OptSubmapNoKey \/ OptSubmap \/ OptSubmapRefused \/ Crash
  \/ BeginWinprop \/ SetFont \/ \E chosen \in SUBSET Screen : BeginScreen(chosen)
  \/ \E ok \in BOOLEAN :
         \/ DoBind(ok) \/ SetLook(ok) \/ SetGlobal(ok) \/ SetWinprop(ok)
         \/ OptInclude(ok) \/ OptDefault(ok)
  \/ EndOfFile \/ CloseSection \/ Done

Spec == Init /\ [][Next]_vars

-----------------------------------------------------------------------------
(* Properties. *)

\* Every variable has its type, the stacks within their bounds.
TypeOK ==
  /\ tolerant \in BOOLEAN /\ is_default \in BOOLEAN /\ lost \in BOOLEAN /\ refused \in BOOLEAN
  /\ pc \in {"read", "find", "run", "end", "cancel", "crashed"}
  /\ stmt.n \in 0 .. MAX_TOKENS - 1 /\ stmt.comma \in 0 .. 2
  /\ Len(stack) <= MAX_NEST /\ errornest \in 0 .. MaxErrors
  /\ Len(files) \in 1 .. MaxFiles

\* Whatever errors a file has, every brace of the text that is open is one of a section
\* that is being read or skipped, the skipped ones inside: no statement is
\* taken for one of another section, unless an error just before a closing brace, or
\* a comma, has swallowed the brace.
SectionsMatch ==
  /\ TypeOK
  /\ ~lost /\ tolerant /\ pc \in {"read", "find", "run"} =>
       /\ Len(braces) = Len(stack) - 1 + errornest
       /\ \A i \in DOMAIN braces : braces[i] = IF i < Len(stack) THEN "section" ELSE "skipped"

\* The handlers and the parser agree on the section: bindings are added to the map,
\* options set for the screens and the properties of the section that is read, and
\* nothing is left over at the end; no handler finds its map missing.  Only when
\* opt_submap has said that a submap was bound that was not is this not so.
HandlersFollow ==
  ~refused =>
    /\ pc # "crashed"
    /\ tmp = IF stack = <<>> THEN Outside ELSE stack[Len(stack)].target

=============================================================================
