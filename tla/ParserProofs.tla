---------------------------- MODULE ParserProofs ----------------------------
(***************************************************************************)
(* How texts are read, for any text.  The parser of configuration files    *)
(* (Config) keeps in step with the braces of the text, and its handlers    *)
(* with the parser, for any number of tokens, sections, errors and         *)
(* included files.  The tokenizer (Tokenizer) counts lines and reads       *)
(* numbers right, for longs of any width.                                  *)
(***************************************************************************)
EXTENDS Config, Tokenizer, TLAPS

-----------------------------------------------------------------------------
(* Stacks and options. *)

LEMMA Constants ==
  /\ MAX_TOKENS \in Nat \ {0, 1} /\ MAX_NEST \in Nat \ {0, 1}
  /\ MaxErrors \in Nat /\ MaxFiles \in Nat \ {0}
BY ConfigAssumption

\* A stack that is not empty has one entry or has one below the innermost.
LEMMA Boundary ==
  ASSUME NEW n \in Nat \ {0}
  PROVE  /\ n >= 1 /\ (n <= 1 => n = 1)
         /\ n # 1 => n > 1 /\ n - 1 \in 1..(n - 1) /\ 1 \in 1..(n - 1)
<1>1. n \in Nat /\ n # 0
  OBVIOUS
<1>2. n >= 1 /\ (n <= 1 => n = 1)
  BY <1>1
<1>3. n # 1 => n > 1 /\ n - 1 \in Nat /\ 1 <= n - 1
  BY <1>1
<1> QED
  BY <1>1, <1>2, <1>3

LEMMA PopType ==
  ASSUME NEW S, NEW s \in Seq(S), s # <<>>
  PROVE  LET r == SubSeq(s, 1, Len(s) - 1)
         IN  r \in Seq(S) /\ Len(r) = Len(s) - 1 /\ \A i \in 1..(Len(s) - 1) : r[i] = s[i]
<1> DEFINE n == Len(s) - 1
<1>1. n \in Nat /\ n <= Len(s)
  OBVIOUS
<1> HIDE DEF n
<1>2. SubSeq(s, 1, n) = [i \in 1..n |-> s[i]]
  BY <1>1
<1>3. [i \in 1..n |-> s[i]] \in [1..n -> S]
  BY <1>1
<1>4. SubSeq(s, 1, n) \in Seq(S) /\ Len(SubSeq(s, 1, n)) = n /\ \A i \in 1..n : SubSeq(s, 1, n)[i] = s[i]
  BY <1>1, <1>2, <1>3
<1> QED
  BY <1>4 DEF n

LEMMA PushType ==
  ASSUME NEW S, NEW s \in Seq(S), NEW x \in S
  PROVE  /\ Append(s, x) \in Seq(S) /\ Len(Append(s, x)) = Len(s) + 1
         /\ Append(s, x)[Len(s) + 1] = x /\ \A i \in 1..Len(s) : Append(s, x)[i] = s[i]
OBVIOUS

Table == {"toplevel", "bindings", "screen", "winprop", "command"}

\* Where the options are that have handlers of note, and which have sections.
OptionIs(table, opt) ==
  /\ opt \in {"bindings", "screen", "winprop", "opaque_resize"} => table = "toplevel"
  /\ opt \in {"submap", "kpress"} => table = "bindings"
  /\ opt \in {"bindings", "submap"} => Section(table, opt) = "bindings"
  /\ opt = "screen" => Section(table, opt) = "screen"
  /\ opt = "winprop" => Section(table, opt) = "winprop"
  /\ opt \in {"opaque_resize", "kpress", "font", "spacing", "switchto", "include", "default"} =>
       Section(table, opt) = "none"

LEMMA TheTables ==
  /\ DOMAIN Options = Table
  /\ DOMAIN Options["toplevel"] = {"bindings", "screen", "winprop", "opaque_resize"}
  /\ DOMAIN Options["bindings"] = {"submap", "kpress"}
  /\ DOMAIN Options["screen"] = {"font", "spacing"}
  /\ DOMAIN Options["winprop"] = {"switchto"}
  /\ DOMAIN Options["command"] = {"default"}
BY DEF Options, Table

LEMMA TheSections ==
  /\ Options["toplevel"]["bindings"] = "bindings" /\ Options["toplevel"]["screen"] = "screen"
  /\ Options["toplevel"]["winprop"] = "winprop" /\ Options["toplevel"]["opaque_resize"] = "none"
  /\ Options["bindings"]["submap"] = "bindings" /\ Options["bindings"]["kpress"] = "none"
  /\ Options["screen"]["font"] = "none" /\ Options["screen"]["spacing"] = "none"
  /\ Options["winprop"]["switchto"] = "none" /\ Options["command"]["default"] = "none"
BY DEF Options

LEMMA LookedUp ==
  ASSUME NEW table \in Table, NEW name
  PROVE  LET opt == LookupOption(table, name) IN opt # "unknown" => OptionIs(table, opt)
<1> DEFINE opt == LookupOption(table, name)
<1> SUFFICES ASSUME opt # "unknown" PROVE OptionIs(table, opt)
  OBVIOUS
<1>1. opt \in DOMAIN Options[table] \/ opt = "include"
  BY DEF LookupOption
<1> HIDE DEF opt
<1>2. CASE opt = "include"
  BY <1>2 DEF OptionIs, Section
<1>3. CASE opt \in DOMAIN Options[table] /\ opt # "include"
  <2>1. Section(table, opt) = Options[table][opt]
    BY <1>3 DEF Section
  <2>2. CASE table = "toplevel"
    BY <1>3, <2>1, <2>2, TheTables, TheSections DEF OptionIs
  <2>3. CASE table = "bindings"
    BY <1>3, <2>1, <2>3, TheTables, TheSections DEF OptionIs
  <2>4. CASE table = "screen"
    BY <1>3, <2>1, <2>4, TheTables, TheSections DEF OptionIs
  <2>5. CASE table = "winprop"
    BY <1>3, <2>1, <2>5, TheTables, TheSections DEF OptionIs
  <2>6. CASE table = "command"
    BY <1>3, <2>1, <2>6, TheTables, TheSections DEF OptionIs
  <2> QED
    BY <2>2, <2>3, <2>4, <2>5, <2>6 DEF Table
<1> QED
  BY <1>1, <1>2, <1>3

-----------------------------------------------------------------------------
(* The invariant. *)

Way == {"main", "submap"}
Target == [bindmap : Seq(Way), winprop : BOOLEAN, confsel : SUBSET Screen]
Opened == [table : Table, target : Target]
Source == [unget : (Token \ {"{"}) \cup {None}, ended : BOOLEAN]
Statement == [n : 0..(MAX_TOKENS - 1), first : Token \cup {None}, comma : 0..2, e : BOOLEAN,
              type : {"none", "stmt", "stmt_ns", "stmt_sect", "beg_sect", "end_sect", "eof"}]

Reading == pc \in {"read", "find", "run"}

Types ==
  /\ tolerant \in BOOLEAN /\ is_default \in BOOLEAN /\ lost \in BOOLEAN /\ refused \in BOOLEAN
  /\ pc \in {"read", "find", "run", "end", "cancel", "crashed"}
  /\ files \in Seq(Source) /\ Len(files) \in 1..MaxFiles
  /\ stack \in Seq(Opened) /\ Len(stack) <= MAX_NEST
  /\ errornest \in 0..MaxErrors /\ tmp \in Target
  /\ braces \in Seq({"section", "skipped"})

\* The statement read so far: the brace at its end may open a section to skip.
Read ==
  /\ stmt \in Statement
  /\ stmt.type \in {"stmt_sect", "beg_sect"} => errornest < MaxErrors

\* The tables of the sections that are open; a command has none.
Tables(st) ==
  /\ \A i \in 1..Len(st) :
       st[i].table \in IF i > 1 THEN {"bindings", "screen", "winprop"}
                       ELSE IF tolerant THEN {"toplevel"} ELSE {"command"}
  /\ ~tolerant => Len(st) <= 1

\* The braces that are open are those of the sections, then the skipped ones.
Match(br, st, nest) ==
  /\ Len(br) = Len(st) - 1 + nest
  /\ \A i \in 1..Len(br) : br[i] = IF i < Len(st) THEN "section" ELSE "skipped"

\* What the end of a section leaves.
Left(table, t) ==
  CASE table = "bindings" -> [t EXCEPT !.bindmap = Parent(@)]
    [] table = "winprop"  -> [t EXCEPT !.winprop = FALSE]
    [] table = "screen"   -> [t EXCEPT !.confsel = {}]
    [] OTHER              -> t

\* The end of each section leads back to what the one around it sets.
Targets(st) ==
  /\ st # <<>> => st[1].target = Outside
  /\ \A i \in 1..Len(st) :
       /\ i > 1 => Left(st[i].table, st[i].target) = st[i - 1].target
       /\ st[i].table = "bindings" => st[i].target.bindmap # <<>>

Innermost(st) == IF st = <<>> THEN Outside ELSE st[Len(st)].target

ParserInv ==
  /\ Types /\ Read
  /\ Reading => stack # <<>>
  /\ Tables(stack)
  /\ ~lost /\ tolerant /\ Reading => Match(braces, stack, errornest)
  /\ ~refused => pc # "crashed" /\ tmp = Innermost(stack) /\ Targets(stack)

LEMMA InvShows == ParserInv => SectionsMatch /\ HandlersFollow
<1> SUFFICES ASSUME ParserInv PROVE SectionsMatch /\ HandlersFollow
  OBVIOUS
<1>1. TypeOK
  BY DEF ParserInv, Types, Read, Statement, TypeOK
<1>2. DOMAIN braces = 1..Len(braces)
  BY DEF ParserInv, Types
<1> QED
  BY <1>1, <1>2 DEF ParserInv, Reading, Match, Innermost, SectionsMatch, HandlersFollow

LEMMA Initially == Init => ParserInv
<1> SUFFICES ASSUME Init PROVE ParserInv
  OBVIOUS
<1> DEFINE top == [table |-> IF tolerant THEN "toplevel" ELSE "command", target |-> Outside]
<1>1. Outside \in Target
  BY DEF Outside, Target
<1>2. top \in Opened /\ top.target = Outside
      /\ top.table = IF tolerant THEN "toplevel" ELSE "command"
  BY <1>1 DEF Opened, Table
<1>3. File \in Source
  BY DEF File, Source
<1>4. NoStatement \in Statement /\ NoStatement.type = "none"
  <2>1. 0 \in 0..(MAX_TOKENS - 1)
    BY Constants
  <2> QED
    BY <2>1 DEF NoStatement, Statement
<1>5. stack = <<top>> /\ files = <<File>> /\ stmt = NoStatement
  BY DEF Init
<1> HIDE DEF top
<1>6. stack \in Seq(Opened) /\ Len(stack) = 1 /\ stack[1] = top /\ stack # <<>>
  BY <1>2, <1>5
<1>7. files \in Seq(Source) /\ Len(files) = 1
  BY <1>3, <1>5
<1>8. Types
  <2>1. braces \in Seq({"section", "skipped"})
    BY DEF Init
  <2>2. 1 <= MAX_NEST /\ 1 \in 1..MaxFiles /\ 0 \in 0..MaxErrors
    BY Constants
  <2>3. Len(stack) <= MAX_NEST /\ Len(files) \in 1..MaxFiles
    BY <1>6, <1>7, <2>2
  <2>4. tolerant \in BOOLEAN /\ pc = "read" /\ errornest = 0 /\ ~is_default /\ tmp = Outside
        /\ ~lost /\ ~refused /\ is_default \in BOOLEAN /\ lost \in BOOLEAN /\ refused \in BOOLEAN
    BY DEF Init
  <2> QED
    BY <1>1, <1>6, <1>7, <2>1, <2>2, <2>3, <2>4 DEF Types
<1>9. Read
  BY <1>4, <1>5 DEF Read
<1>10. Tables(stack) /\ Targets(stack) /\ Innermost(stack) = Outside
  BY <1>2, <1>6 DEF Tables, Targets, Innermost
<1>11. Match(braces, stack, errornest)
  BY <1>6 DEF Init, Match
<1> QED
  BY <1>6, <1>8, <1>9, <1>10, <1>11 DEF Init, ParserInv

-----------------------------------------------------------------------------
(* Reading a statement. *)

LEMMA TheTokens ==
  /\ Ident \subseteq Token /\ "arg" \in Token /\ "error" \in Token /\ "eof" \in Token
  /\ Ops \subseteq Token /\ Ops = {"nextline", ";", "{", "}", ",", "="}
BY DEF Token, Ops

LEMMA CurrentType ==
  ASSUME Types
  PROVE  Current \in Source
BY DEF Types, Current

LEMMA WithCurrentType ==
  ASSUME Types, NEW f \in Source
  PROVE  WithCurrent(f) \in Seq(Source) /\ Len(WithCurrent(f)) = Len(files)
BY DEF Types, WithCurrent

\* What is read, and how it is left; a section to skip has room.
LEMMA GetTokenType ==
  ASSUME Types, NEW t, GetToken(t)
  PROVE  /\ t \in Token /\ Got(t) \in Source
         /\ t # "{" => Ungot(t) \in Source
         /\ t = "{" => errornest < MaxErrors
<1>1. Current.unget \in (Token \ {"{"}) \cup {None} /\ Current.ended \in BOOLEAN
  BY CurrentType DEF Source
<1>2. t \in Token /\ (t = "{" => errornest < MaxErrors)
  BY <1>1, TheTokens DEF GetToken
<1>3. Got(t) \in Source
  BY <1>1 DEF Got, Source
<1>4. t # "{" => Ungot(t) \in Source
  BY <1>2, <1>3 DEF Ungot, Source
<1> QED
  BY <1>2, <1>3, <1>4

\* Reading touches only the statement and the file.
ReadingOnly ==
  /\ Reading /\ pc' \in {"read", "find", "run"}
  /\ files' \in Seq(Source) /\ Len(files') = Len(files)
  /\ Read'
  /\ UNCHANGED <<tolerant, stack, errornest, is_default, tmp, braces, lost, refused>>

LEMMA ReadingKeeps ==
  ASSUME ParserInv, ReadingOnly
  PROVE  ParserInv'
<1>1. Types'
  BY DEF ParserInv, Types, ReadingOnly
<1>2. Tables(stack)'
  BY DEF ParserInv, Tables, ReadingOnly
<1>3. Reading /\ stack # <<>>
  BY DEF ParserInv, ReadingOnly
<1>4. ~lost /\ tolerant => Match(braces, stack, errornest)'
  BY <1>3 DEF ParserInv, ReadingOnly
<1>5. pc' # "crashed" /\ (~refused => tmp' = Innermost(stack)' /\ Targets(stack)')
  BY DEF ParserInv, ReadingOnly
<1> QED
  BY <1>1, <1>2, <1>3, <1>4, <1>5 DEF ParserInv, ReadingOnly

LEMMA CommaType ==
  ASSUME NEW s \in Statement, NEW c \in 0..2
  PROVE  [s EXCEPT !.comma = c] \in Statement /\ [s EXCEPT !.comma = c].type = s.type
BY DEF Statement

LEMMA NoStatementType == NoStatement \in Statement /\ NoStatement.type = "none"
<1>1. 0 \in 0..(MAX_TOKENS - 1)
  BY Constants
<1> QED
  BY <1>1 DEF NoStatement, Statement

Untouched == UNCHANGED <<tolerant, stack, errornest, is_default, tmp, braces, lost, refused>>

LEMMA SyntaxReads ==
  ASSUME ParserInv, Reading, Untouched, NEW t, GetToken(t), NEW s \in Statement, s.type = stmt.type,
         Syntax(s, Got(t))
  PROVE  ReadingOnly
<1>1. Types /\ Read /\ errornest' = errornest
  BY DEF ParserInv, Untouched
<1>2. files' = WithCurrent(Got(t)) /\ Got(t) \in Source
  BY <1>1, GetTokenType DEF Syntax
<1>3. files' \in Seq(Source) /\ Len(files') = Len(files)
  BY <1>1, <1>2, WithCurrentType
<1>4. [s EXCEPT !.e = TRUE] \in Statement /\ [s EXCEPT !.e = TRUE].type = stmt.type
  BY DEF Statement
<1>5. Read' /\ pc' \in {"read", "find", "run"}
  BY <1>1, <1>4, NoStatementType DEF Syntax, Read, Reading
<1> QED
  BY <1>3, <1>5 DEF ReadingOnly, Untouched

LEMMA ReadWordKeeps ==
  ASSUME ParserInv, NEW t \in Token, ReadWord(t)
  PROVE  ParserInv'
<1> DEFINE full == stmt.n = MAX_TOKENS - 1
           n    == IF full THEN stmt.n ELSE stmt.n + 1
           b    == stmt.e \/ full
           f    == IF stmt.n = 0 THEN t ELSE stmt.first
           s    == [stmt EXCEPT !.n = IF full THEN @ ELSE @ + 1, !.e = @ \/ full,
                                !.first = IF stmt.n = 0 THEN t ELSE @]
           c    == IF s.comma = 0 THEN 2 ELSE 0
<1>1. Types /\ Read /\ stmt \in Statement
  BY DEF ParserInv, Read
<1>2. /\ stmt.n \in 0..(MAX_TOKENS - 1) /\ stmt.e \in BOOLEAN /\ stmt.first \in Token \cup {None}
  BY <1>1 DEF Statement
<1>3. n \in 0..(MAX_TOKENS - 1) /\ b \in BOOLEAN /\ f \in Token \cup {None}
  BY <1>2, Constants
<1>4. s = [stmt EXCEPT !.n = n, !.e = b, !.first = f]
  BY <1>1 DEF Statement
<1> HIDE DEF n, b, f
<1>5. s \in Statement /\ s.type = stmt.type
  BY <1>1, <1>3, <1>4 DEF Statement
<1>6. [s EXCEPT !.comma = c] \in Statement /\ [s EXCEPT !.comma = c].type = stmt.type
  <2>1. c \in 0..2
    OBVIOUS
  <2> HIDE DEF s, c
  <2> QED
    BY <1>5, <2>1, CommaType
<1>7. Reading /\ GetToken(t) /\ Untouched
  BY DEF ReadWord, Reading, Untouched
<1>8. \/ Syntax(s, Got(t))
      \/ stmt' = [s EXCEPT !.comma = IF @ = 0 THEN 2 ELSE 0] /\ files' = WithCurrent(Got(t)) /\ pc' = pc
  BY DEF ReadWord
<1> HIDE DEF s
<1>9. CASE Syntax(s, Got(t))
  BY <1>5, <1>7, <1>9, SyntaxReads, ReadingKeeps
<1>10. CASE stmt' = [s EXCEPT !.comma = IF @ = 0 THEN 2 ELSE 0] /\ files' = WithCurrent(Got(t)) /\ pc' = pc
  <2>1. stmt' \in Statement /\ stmt'.type = stmt.type
    BY <1>5, <1>6, <1>10 DEF Statement
  <2>2. files' \in Seq(Source) /\ Len(files') = Len(files)
    BY <1>1, <1>7, <1>10, GetTokenType, WithCurrentType
  <2>3. ReadingOnly
    BY <1>1, <1>7, <1>10, <2>1, <2>2 DEF ReadingOnly, Untouched, Read, Reading
  <2> QED
    BY <2>3, ReadingKeeps
<1> QED
  BY <1>8, <1>9, <1>10

LEMMA ReadErrorKeeps ==
  ASSUME ParserInv, ReadError
  PROVE  ParserInv'
<1>1. Types /\ Read /\ stmt \in Statement /\ Reading /\ Untouched /\ GetToken("error")
  BY DEF ParserInv, Read, ReadError, Reading, Untouched
<1>2. stmt' \in Statement /\ stmt'.type = stmt.type
  BY <1>1 DEF ReadError, Statement
<1>3. files' \in Seq(Source) /\ Len(files') = Len(files)
  BY <1>1, GetTokenType, WithCurrentType DEF ReadError
<1>4. ReadingOnly
  BY <1>1, <1>2, <1>3 DEF ReadError, ReadingOnly, Untouched, Read, Reading
<1> QED
  BY <1>4, ReadingKeeps

LEMMA FinishReads ==
  ASSUME ParserInv, Reading, Untouched, NEW type, NEW b \in BOOLEAN, NEW f \in Source,
         type \in {"none", "stmt", "stmt_ns", "stmt_sect", "beg_sect", "end_sect", "eof"},
         type \in {"stmt_sect", "beg_sect"} => errornest < MaxErrors,
         Finish(type, b, f)
  PROVE  ReadingOnly
<1>1. Types /\ Read /\ stmt \in Statement /\ errornest' = errornest
  BY DEF ParserInv, Read, Untouched
<1>2. files' \in Seq(Source) /\ Len(files') = Len(files)
  BY <1>1, WithCurrentType DEF Finish
<1>3. stmt' \in Statement /\ stmt'.type = type
  BY <1>1 DEF Finish, Statement
<1>4. pc' \in {"read", "find", "run"}
  BY DEF Finish
<1> QED
  BY <1>1, <1>2, <1>3, <1>4 DEF ReadingOnly, Untouched, Read

LEMMA ReadOpKeeps ==
  ASSUME ParserInv, NEW t \in Token, ReadOp(t)
  PROVE  ParserInv'
<1> DEFINE full  == stmt.n = MAX_TOKENS - 1
           n     == IF full THEN stmt.n - 1 ELSE stmt.n
           b     == stmt.e \/ full
           s     == [stmt EXCEPT !.n = IF full THEN @ - 1 ELSE @, !.e = @ \/ full]
           e     == s.e \/ s.comma = 1
           empty == s.n = 0
<1>1. Types /\ Read /\ stmt \in Statement
  BY DEF ParserInv, Read
<1>2. /\ stmt.n \in 0..(MAX_TOKENS - 1) /\ stmt.e \in BOOLEAN
  BY <1>1 DEF Statement
<1>3. n \in 0..(MAX_TOKENS - 1) /\ b \in BOOLEAN
  BY <1>2, Constants
<1>4. s = [stmt EXCEPT !.n = n, !.e = b]
  BY <1>1 DEF Statement
<1> HIDE DEF n, b
<1>5. s \in Statement /\ s.type = stmt.type
  BY <1>1, <1>3, <1>4 DEF Statement
<1>6. Reading /\ GetToken(t) /\ Untouched
  BY DEF ReadOp, Reading, Untouched
<1>7. Got(t) \in Source /\ (t # "{" => Ungot(t) \in Source) /\ (t = "{" => errornest < MaxErrors)
  BY <1>1, <1>6, GetTokenType
<1>8. \/ Syntax(s, Got(t))
      \/ t = ";" /\ Finish(IF empty THEN "none" ELSE "stmt_ns", e, Got(t))
      \/ t = "nextline" /\ Finish(IF empty THEN "none" ELSE "stmt", e, Got(t))
      \/ t = "{" /\ Finish(IF empty THEN "beg_sect" ELSE "stmt_sect", e, Got(t))
      \/ t = "}" /\ IF empty THEN Finish("end_sect", e, Got(t))
                    ELSE Finish("stmt_ns", e, Ungot(t))
      \/ t = "eof" /\ Finish(IF empty THEN "eof" ELSE "stmt_ns", e, Got(t))
      \/ t = "," /\ s.comma = 0 /\ stmt' = [s EXCEPT !.comma = 1]
         /\ files' = WithCurrent(Got(t)) /\ pc' = pc
  BY DEF ReadOp
<1>9. e \in BOOLEAN
  BY <1>5 DEF Statement
<1> HIDE DEF s, e, empty
<1>10. ASSUME Syntax(s, Got(t)) PROVE ReadingOnly
  BY <1>5, <1>6, <1>10, SyntaxReads
<1>11. ASSUME t = "," /\ stmt' = [s EXCEPT !.comma = 1] /\ files' = WithCurrent(Got(t)) /\ pc' = pc
       PROVE  ReadingOnly
  <2>1. stmt' \in Statement /\ stmt'.type = stmt.type
    <3>1. 1 \in 0..2
      OBVIOUS
    <3> QED
      BY <1>5, <1>11, <3>1, CommaType
  <2>2. files' \in Seq(Source) /\ Len(files') = Len(files)
    BY <1>1, <1>7, <1>11, WithCurrentType
  <2> QED
    BY <1>1, <1>6, <1>11, <2>1, <2>2 DEF ReadingOnly, Untouched, Read, Reading
<1>12. ASSUME NEW type \in {"none", "stmt", "stmt_ns", "end_sect", "eof"}, NEW f \in Source, Finish(type, e, f)
       PROVE  ReadingOnly
  BY <1>6, <1>9, <1>12, FinishReads
<1>13. ASSUME NEW type \in {"beg_sect", "stmt_sect"}, t = "{", Finish(type, e, Got(t))
       PROVE  ReadingOnly
  BY <1>6, <1>7, <1>9, <1>13, FinishReads
<1>14. ASSUME NEW type \in {"none", "stmt", "stmt_ns", "end_sect", "eof"},
              Finish(type, e, Got(t)) \/ (t # "{" /\ Finish(type, e, Ungot(t)))
       PROVE  ReadingOnly
  BY <1>7, <1>12, <1>14
<1>15. ReadingOnly
  <2>1. CASE t = ";" /\ Finish(IF empty THEN "none" ELSE "stmt_ns", e, Got(t))
    BY <1>14, <2>1
  <2>2. CASE t = "nextline" /\ Finish(IF empty THEN "none" ELSE "stmt", e, Got(t))
    BY <1>14, <2>2
  <2>3. CASE t = "{" /\ Finish(IF empty THEN "beg_sect" ELSE "stmt_sect", e, Got(t))
    BY <1>13, <2>3
  <2>4. CASE t = "}" /\ IF empty THEN Finish("end_sect", e, Got(t)) ELSE Finish("stmt_ns", e, Ungot(t))
    BY <1>14, <2>4
  <2>5. CASE t = "eof" /\ Finish(IF empty THEN "eof" ELSE "stmt_ns", e, Got(t))
    BY <1>14, <2>5
  <2> QED
    BY <1>8, <1>10, <1>11, <2>1, <2>2, <2>3, <2>4, <2>5
<1> QED
  BY <1>15, ReadingKeeps

LEMMA FindBegSectKeeps ==
  ASSUME ParserInv, NEW t \in Token, FindBegSect(t)
  PROVE  ParserInv'
<1>1. Types /\ Read /\ stmt \in Statement /\ Reading /\ Untouched /\ GetToken(t)
  BY DEF ParserInv, Read, FindBegSect, Reading, Untouched
<1>2. Got(t) \in Source /\ (t # "{" => Ungot(t) \in Source) /\ (t = "{" => errornest < MaxErrors)
  BY <1>1, GetTokenType
<1>3. \E f \in Source : files' = WithCurrent(f)
  BY <1>2 DEF FindBegSect
<1>4. files' \in Seq(Source) /\ Len(files') = Len(files)
  BY <1>1, <1>3, WithCurrentType
<1>5. stmt' = stmt \/ (t = "{" /\ stmt' = [stmt EXCEPT !.type = "stmt_sect"])
  BY DEF FindBegSect
<1>6. Read'
  BY <1>1, <1>2, <1>5 DEF Read, Statement, Untouched
<1>7. pc' \in {"read", "find", "run"}
  BY <1>1 DEF FindBegSect
<1> QED
  BY <1>1, <1>4, <1>6, <1>7, ReadingKeeps DEF ReadingOnly, Untouched

-----------------------------------------------------------------------------
(* Options and errors. *)

\* The section that is read, and what is known of an option found in it.
LEMMA TopType ==
  ASSUME ParserInv, stack # <<>>
  PROVE  /\ Len(stack) \in Nat \ {0} /\ stack[Len(stack)] \in Opened
         /\ Top \in Table /\ stack[Len(stack)].target \in Target
         /\ Top = "toplevel" => Len(stack) = 1 /\ tolerant
         /\ Top = "bindings" => tolerant
<1>1. stack \in Seq(Opened) /\ Len(stack) \in Nat \ {0} /\ tolerant \in BOOLEAN
  BY DEF ParserInv, Types
<1>2. stack[Len(stack)] \in Opened /\ Len(stack) \in 1..Len(stack)
  BY <1>1
<1>3. Top \in Table /\ stack[Len(stack)].target \in Target
  BY <1>2 DEF Top, Opened
<1>4. Top \in IF Len(stack) > 1 THEN {"bindings", "screen", "winprop"}
              ELSE IF tolerant THEN {"toplevel"} ELSE {"command"}
  BY <1>2 DEF ParserInv, Tables, Top
<1>5. ~tolerant => Len(stack) <= 1
  BY DEF ParserInv, Tables
<1>6. Top = "toplevel" => Len(stack) = 1 /\ tolerant
  <2>1. CASE Len(stack) > 1
    BY <1>4, <2>1
  <2>2. CASE ~(Len(stack) > 1)
    <3>1. Len(stack) = 1
      BY <1>1, <2>2
    <3>2. ~tolerant => Top = "command"
      BY <1>1, <1>4, <2>2
    <3> QED
      BY <3>1, <3>2
  <2> QED
    BY <2>1, <2>2
<1>7. Top = "bindings" => tolerant
  <2>1. CASE Len(stack) > 1
    BY <1>1, <1>5, <2>1
  <2>2. CASE ~(Len(stack) > 1)
    BY <1>1, <1>4, <2>2
  <2> QED
    BY <2>1, <2>2
<1> QED
  BY <1>1, <1>2, <1>3, <1>6, <1>7

LEMMA OptionType ==
  ASSUME ParserInv, Good, Opt # "unknown"
  PROVE  OptionIs(Top, Opt) /\ stack # <<>>
<1>1. stack # <<>>
  BY DEF ParserInv, Good, Reading
<1>2. Top \in Table
  BY <1>1, TopType
<1>3. Opt # "unknown" => OptionIs(Top, Opt)
  BY <1>2, LookedUp DEF Opt
<1> QED
  BY <1>1, <1>3

\* A statement is over; its section, if it has one, is skipped.
LEMMA SkipKeeps ==
  ASSUME ParserInv, pc = "run", stmt' = NoStatement, pc' \in {"read", "cancel"},
         \/ UNCHANGED <<errornest, braces>>
         \/ /\ stmt.type \in {"stmt_sect", "beg_sect"}
            /\ errornest' = errornest + 1 /\ braces' = Append(braces, "skipped"),
         UNCHANGED <<tolerant, stack, tmp, lost, refused>>,
         files' \in Seq(Source), Len(files') \in 1..MaxFiles, is_default' \in BOOLEAN
  PROVE  ParserInv'
<1>1. Types /\ Read /\ stack # <<>> /\ stmt \in Statement
  BY DEF ParserInv, Reading, Read
<1>2. /\ braces \in Seq({"section", "skipped"}) /\ errornest \in 0..MaxErrors /\ MaxErrors \in Nat
      /\ stmt.type \in {"stmt_sect", "beg_sect"} => errornest < MaxErrors
  BY <1>1, Constants DEF Types, Read
<1>3. errornest' \in 0..MaxErrors /\ braces' \in Seq({"section", "skipped"})
  BY SMTT(30), <1>2
<1>5. Types'
  BY <1>1, <1>3 DEF Types
<1>6. Read'
  BY NoStatementType DEF Read
<1>7. Tables(stack)'
  BY DEF ParserInv, Tables
<1>8. ASSUME Match(braces, stack, errornest) PROVE Match(braces, stack, errornest)'
  <2>1. Len(stack) \in Nat
    BY <1>1 DEF Types
  <2>2. CASE UNCHANGED <<errornest, braces>>
    BY <1>8, <2>2
  <2>3. CASE errornest' = errornest + 1 /\ braces' = Append(braces, "skipped")
    <3>1. braces' = Append(braces, "skipped") /\ errornest' = errornest + 1 /\ stack' = stack
      BY <2>3
    <3>2. /\ Len(braces') = Len(braces) + 1 /\ Len(braces) \in Nat /\ braces'[Len(braces) + 1] = "skipped"
          /\ \A i \in 1..Len(braces) : braces'[i] = braces[i]
      BY <1>2, <3>1
    <3>3. Len(braces) + 1 = Len(stack) + errornest /\ ~(Len(braces) + 1 < Len(stack))
      BY <1>2, <1>8, <2>1 DEF Match
    <3>4. ASSUME NEW i \in 1..Len(braces')
          PROVE  braces'[i] = IF i < Len(stack) THEN "section" ELSE "skipped"
      <4>1. CASE i = Len(braces) + 1
        BY <3>2, <3>3, <4>1
      <4>2. CASE i \in 1..Len(braces)
        BY <1>8, <3>2, <4>2 DEF Match
      <4> QED
        BY <3>2, <4>1, <4>2
    <3> QED
      BY <1>2, <2>1, <3>1, <3>2, <3>3, <3>4 DEF Match
  <2> QED
    BY <2>2, <2>3
<1>9. ~lost' /\ tolerant' /\ Reading' => Match(braces, stack, errornest)'
  BY <1>8 DEF ParserInv, Reading
<1>10. ~refused' => pc' # "crashed" /\ tmp' = Innermost(stack)' /\ Targets(stack)'
  BY DEF ParserInv
<1> QED
  BY <1>1, <1>5, <1>6, <1>7, <1>9, <1>10 DEF ParserInv

\* A statement with an error.
LEMMA FailKeeps ==
  ASSUME ParserInv, pc = "run", Fail, UNCHANGED <<tolerant, stack, tmp, lost, refused>>,
         files' \in Seq(Source), Len(files') \in 1..MaxFiles, is_default' \in BOOLEAN
  PROVE  ParserInv'
<1>1. stmt' = NoStatement /\ pc' \in {"read", "cancel"}
  BY DEF Fail
<1>2. \/ UNCHANGED <<errornest, braces>>
      \/ /\ stmt.type \in {"stmt_sect", "beg_sect"}
         /\ errornest' = errornest + 1 /\ braces' = Append(braces, "skipped")
  BY DEF Fail, IsSect
<1> QED
  BY <1>1, <1>2, SkipKeeps

\* An option without a section is done with.
LEMMA PlainKeeps ==
  ASSUME ParserInv, NEW opts, NEW ok \in BOOLEAN, Call(opts, ok, tmp),
         opts \subseteq {"opaque_resize", "kpress", "font", "spacing", "switchto", "include", "default"},
         UNCHANGED <<stack, refused>>, files' \in Seq(Source), Len(files') \in 1..MaxFiles
  PROVE  ParserInv'
<1>1. Good /\ Opt \in opts /\ LegalSection /\ pc = "run" /\ UNCHANGED <<tolerant, tmp, lost>>
  BY DEF Call, Good
<1>2. is_default' \in BOOLEAN
  BY DEF Call, Default, ParserInv, Types
<1>3. CASE ~ok
  BY <1>1, <1>2, <1>3, FailKeeps DEF Call
<1>4. CASE ok
  <2>1. Opt # "unknown"
    BY <1>1
  <2>2. OptionIs(Top, Opt) /\ stack # <<>>
    BY <1>1, <2>1, OptionType
  <2>3. Section(Top, Opt) = "none"
    BY <1>1, <2>2 DEF OptionIs
  <2>4. ~IsSect
    BY <1>1, <2>3 DEF LegalSection
  <2>5. /\ stmt' = NoStatement /\ pc' = "read" /\ errornest' = errornest /\ braces' = braces
    BY <1>4, <2>4 DEF Call, NextStatement
  <2>6. Read' /\ Types'
    BY <1>1, <1>2, <2>5, NoStatementType DEF ParserInv, Types, Read
  <2>7. Reading /\ Tables(stack)'
    BY <1>1 DEF ParserInv, Tables, Reading
  <2> QED
    BY <1>1, <2>2, <2>5, <2>6, <2>7 DEF ParserInv
<1> QED
  BY <1>3, <1>4

\* An option with a section: its statements are read next.
LEMMA SectionKeeps ==
  ASSUME ParserInv, NEW opts, NEW new \in Target, Call(opts, TRUE, new),
         NEW table \in {"bindings", "screen", "winprop"}, NEW target \in Target,
         Section(Top, Opt) = table, stack' = Entered(target), tolerant, UNCHANGED files,
         refused' \in BOOLEAN,
         ~refused' => /\ ~refused /\ new = target /\ Left(table, target) = tmp
                      /\ table = "bindings" => target.bindmap # <<>>
  PROVE  ParserInv'
<1> DEFINE x == [table |-> table, target |-> target]
<1>1. Good /\ LegalSection /\ pc = "run" /\ errornest = 0 /\ UNCHANGED <<tolerant, lost>> /\ tmp' = new
  BY DEF Call, Good
<1>2. stack # <<>> /\ stack \in Seq(Opened) /\ Reading /\ braces \in Seq({"section", "skipped"})
  BY <1>1 DEF ParserInv, Types, Reading
<1>3. IsSect /\ Len(stack) < MAX_NEST
  BY <1>1 DEF LegalSection
<1>4. /\ stmt' = NoStatement /\ pc' = "read" /\ errornest' = 0 /\ braces' = Append(braces, "section")
  BY <1>1, <1>3 DEF Call, NextStatement
<1>5. x \in Opened /\ x.table = table /\ x.target = target
  BY DEF Opened, Table
<1>6. stack' = Append(stack, x)
  BY DEF Entered
<1> HIDE DEF x
<1>7. /\ stack' \in Seq(Opened) /\ Len(stack') = Len(stack) + 1 /\ Len(stack) \in Nat \ {0}
      /\ stack'[Len(stack) + 1] = x /\ \A i \in 1..Len(stack) : stack'[i] = stack[i]
  BY <1>2, <1>5, <1>6, PushType
<1>8. /\ braces' \in Seq({"section", "skipped"})
      /\ Len(braces') = Len(braces) + 1 /\ Len(braces) \in Nat
      /\ braces'[Len(braces) + 1] = "section" /\ \A i \in 1..Len(braces) : braces'[i] = braces[i]
  BY <1>2, <1>4
<1>9. Types'
  <2>1. Len(stack') <= MAX_NEST
    BY <1>3, <1>7, Constants
  <2>2. is_default' \in BOOLEAN
    BY DEF Call, Default, ParserInv, Types
  <2>3. 0 \in 0..MaxErrors
    BY Constants
  <2> QED
    BY <1>1, <1>4, <1>7, <1>8, <2>1, <2>2, <2>3 DEF ParserInv, Types
<1>10. Read'
  BY <1>4, NoStatementType DEF Read
<1>11. Tables(stack)'
  <2>1. ASSUME NEW i \in 1..(Len(stack) + 1)
        PROVE  stack'[i].table \in IF i > 1 THEN {"bindings", "screen", "winprop"}
                                   ELSE IF tolerant THEN {"toplevel"} ELSE {"command"}
    <3>1. CASE i = Len(stack) + 1
      BY <1>5, <1>7, <3>1
    <3>2. CASE i \in 1..Len(stack)
      BY <1>7, <3>2 DEF ParserInv, Tables
    <3> QED
      BY <1>7, <3>1, <3>2
  <2> QED
    BY <1>1, <1>7, <2>1 DEF Tables
<1>12. ASSUME Match(braces, stack, errornest) PROVE Match(braces, stack, errornest)'
  <2>1. Len(braces) + 1 = Len(stack) /\ Len(braces) + 1 < Len(stack) + 1
        /\ \A i \in 1..Len(braces) : braces[i] = "section" /\ i < Len(stack) + 1
    BY <1>1, <1>7, <1>8, <1>12 DEF Match
  <2>2. \A i \in 1..(Len(braces) + 1) : braces'[i] = "section" /\ i < Len(stack')
    BY <1>7, <1>8, <2>1
  <2> QED
    BY <1>4, <1>7, <1>8, <2>1, <2>2 DEF Match
<1>13. ~lost' /\ tolerant' /\ Reading' => Match(braces, stack, errornest)'
  BY <1>1, <1>2, <1>12 DEF ParserInv
<1>14. ASSUME ~refused' PROVE tmp' = Innermost(stack') /\ Targets(stack')
  <2>1. tmp = stack[Len(stack)].target /\ Targets(stack) /\ tmp' = target
    BY <1>1, <1>2, <1>14 DEF ParserInv, Innermost
  <2>2. stack' # <<>> /\ Innermost(stack') = target
    BY <1>5, <1>7 DEF Innermost
  <2>3. stack'[1].target = Outside
    BY <1>2, <1>7, <2>1 DEF Targets
  <2>4. ASSUME NEW i \in 1..(Len(stack) + 1)
        PROVE  /\ i > 1 => Left(stack'[i].table, stack'[i].target) = stack'[i - 1].target
               /\ stack'[i].table = "bindings" => stack'[i].target.bindmap # <<>>
    <3>1. CASE i = Len(stack) + 1
      <4>1. stack'[i] = x /\ stack'[i - 1] = stack[Len(stack)]
        BY <1>7, <3>1
      <4> QED
        BY <1>5, <1>14, <2>1, <4>1
    <3>2. CASE i \in 1..Len(stack)
      <4>1. stack'[i] = stack[i] /\ (i > 1 => stack'[i - 1] = stack[i - 1])
        BY <1>7, <3>2
      <4> QED
        BY <2>1, <3>2, <4>1 DEF Targets
    <3> QED
      BY <1>7, <3>1, <3>2
  <2> QED
    BY <1>7, <2>1, <2>2, <2>3, <2>4 DEF Targets
<1>15. stack' # <<>>
  BY <1>7
<1> QED
  BY <1>4, <1>9, <1>10, <1>11, <1>13, <1>14, <1>15 DEF ParserInv

-----------------------------------------------------------------------------
(* The handlers. *)

LEMMA FilesType == ParserInv => files \in Seq(Source) /\ Len(files) \in 1..MaxFiles
BY DEF ParserInv, Types

LEMMA TmpType ==
  ASSUME ParserInv
  PROVE  /\ tmp \in Target /\ tmp.bindmap \in Seq(Way) /\ tmp.winprop \in BOOLEAN
         /\ tmp.confsel \in SUBSET Screen
BY DEF ParserInv, Types, Target

\* At the top level nothing is set.
LEMMA NothingSet ==
  ASSUME ParserInv, stack # <<>>, Top = "toplevel", ~refused
  PROVE  tmp = Outside
<1>1. Len(stack) = 1
  BY TopType
<1> QED
  BY <1>1 DEF ParserInv, Innermost, Targets

LEMMA OptBindingsKeeps ==
  ASSUME ParserInv, OptBindings
  PROVE  ParserInv'
<1> DEFINE new == [tmp EXCEPT !.bindmap = <<"main">>]
<1>1. Call({"bindings"}, TRUE, new) /\ stack' = Entered(new) /\ UNCHANGED <<files, refused>>
  BY DEF OptBindings
<1>2. Good /\ Opt = "bindings"
  BY <1>1 DEF Call
<1>3. stack # <<>> /\ Top = "toplevel" /\ Section(Top, Opt) = "bindings"
  BY <1>2, OptionType DEF OptionIs
<1>4. tolerant
  BY <1>3, TopType
<1>5. new \in Target /\ new.bindmap = <<"main">> /\ <<"main">> # <<>>
  <2>1. <<"main">> \in Seq(Way) /\ <<"main">> # <<>>
    BY DEF Way
  <2> QED
    BY <2>1, TmpType DEF Target
<1>6. ~refused => Left("bindings", new) = tmp
  <2> SUFFICES ASSUME ~refused PROVE Left("bindings", new) = tmp
    OBVIOUS
  <2>1. tmp = Outside
    BY <1>3, NothingSet
  <2>2. Parent(<<"main">>) = <<>>
    BY DEF Parent
  <2> QED
    BY <2>1, <2>2 DEF Left, Outside
<1>7. refused' \in BOOLEAN
  BY <1>1 DEF ParserInv, Types
<1> HIDE DEF new
<1> QED
  BY <1>1, <1>3, <1>4, <1>5, <1>6, <1>7, SectionKeeps

LEMMA BeginWinpropKeeps ==
  ASSUME ParserInv, BeginWinprop
  PROVE  ParserInv'
<1> DEFINE new == [tmp EXCEPT !.winprop = TRUE]
<1>1. Call({"winprop"}, TRUE, new) /\ stack' = Entered(new) /\ UNCHANGED <<files, refused>>
  BY DEF BeginWinprop
<1>2. Good /\ Opt = "winprop"
  BY <1>1 DEF Call
<1>3. stack # <<>> /\ Top = "toplevel" /\ Section(Top, Opt) = "winprop"
  BY <1>2, OptionType DEF OptionIs
<1>4. tolerant
  BY <1>3, TopType
<1>5. new \in Target
  BY TmpType DEF Target
<1>6. ~refused => Left("winprop", new) = tmp
  <2> SUFFICES ASSUME ~refused PROVE Left("winprop", new) = tmp
    OBVIOUS
  <2>1. tmp = Outside
    BY <1>3, NothingSet
  <2> QED
    BY <2>1 DEF Left, Outside
<1>7. refused' \in BOOLEAN
  BY <1>1 DEF ParserInv, Types
<1> HIDE DEF new
<1> QED
  BY <1>1, <1>3, <1>4, <1>5, <1>6, <1>7, SectionKeeps

LEMMA BeginScreenKeeps ==
  ASSUME ParserInv, NEW chosen \in SUBSET Screen, BeginScreen(chosen)
  PROVE  ParserInv'
<1> DEFINE new    == [tmp EXCEPT !.confsel = @ \cup chosen]
           target == [tmp EXCEPT !.confsel = chosen]
<1>1. Call({"screen"}, TRUE, new) /\ stack' = Entered(target) /\ UNCHANGED <<files, refused>>
  BY DEF BeginScreen
<1>2. Good /\ Opt = "screen"
  BY <1>1 DEF Call
<1>3. stack # <<>> /\ Top = "toplevel" /\ Section(Top, Opt) = "screen"
  BY <1>2, OptionType DEF OptionIs
<1>4. tolerant
  BY <1>3, TopType
<1>5. new \in Target /\ target \in Target
  BY TmpType DEF Target
<1>6. ~refused => new = target /\ Left("screen", target) = tmp
  <2> SUFFICES ASSUME ~refused PROVE new = target /\ Left("screen", target) = tmp
    OBVIOUS
  <2>1. tmp = Outside
    BY <1>3, NothingSet
  <2>2. {} \cup chosen = chosen
    OBVIOUS
  <2> QED
    BY <2>1, <2>2 DEF Left, Outside
<1>7. refused' \in BOOLEAN
  BY <1>1 DEF ParserInv, Types
<1> HIDE DEF new, target
<1> QED
  BY <1>1, <1>3, <1>4, <1>5, <1>6, <1>7, SectionKeeps

\* opt_submap names the map that its section sets, whether it could be bound or not.
LEMMA SubmapTarget ==
  ASSUME ParserInv
  PROVE  LET target == [tmp EXCEPT !.bindmap = Append(@, "submap")]
         IN  target \in Target /\ target.bindmap # <<>> /\ Left("bindings", target) = tmp
<1> DEFINE b      == Append(tmp.bindmap, "submap")
           target == [tmp EXCEPT !.bindmap = b]
<1>1. tmp \in Target /\ tmp.bindmap \in Seq(Way)
  BY TmpType
<1>2. b \in Seq(Way) /\ b # <<>> /\ Len(b) = Len(tmp.bindmap) + 1
      /\ \A i \in 1..Len(tmp.bindmap) : b[i] = tmp.bindmap[i]
  <2>1. "submap" \in Way
    BY DEF Way
  <2>2. b \in Seq(Way) /\ Len(b) = Len(tmp.bindmap) + 1
        /\ \A i \in 1..Len(tmp.bindmap) : b[i] = tmp.bindmap[i]
    BY <1>1, <2>1, PushType
  <2>3. Len(tmp.bindmap) \in Nat
    BY <1>1
  <2> HIDE DEF b
  <2>4. b # <<>>
    BY <2>2, <2>3
  <2> QED
    BY <2>2, <2>4
<1> HIDE DEF b
<1>3. Parent(b) = tmp.bindmap
  <2>1. Len(b) - 1 = Len(tmp.bindmap) /\ Len(tmp.bindmap) \in Nat
    BY <1>1, <1>2
  <2>2. SubSeq(b, 1, Len(tmp.bindmap)) = [i \in 1..Len(tmp.bindmap) |-> b[i]]
    BY <1>1, <1>2
  <2>3. tmp.bindmap = [i \in 1..Len(tmp.bindmap) |-> tmp.bindmap[i]]
    BY <1>1
  <2> QED
    BY <1>2, <2>1, <2>2, <2>3 DEF Parent
<1>4. target \in Target /\ target.bindmap = b
  BY <1>1, <1>2 DEF Target
<1>5. Left("bindings", target) = tmp
  BY <1>1, <1>3 DEF Left, Target
<1> QED
  BY <1>2, <1>4, <1>5 DEF b

LEMMA SubmapOption ==
  ASSUME ParserInv, Good, Opt = "submap"
  PROVE  stack # <<>> /\ Section(Top, Opt) = "bindings" /\ tolerant
<1>1. stack # <<>> /\ Top = "bindings" /\ Section(Top, Opt) = "bindings"
  BY OptionType DEF OptionIs
<1> QED
  BY <1>1, TopType

LEMMA OptSubmapKeeps ==
  ASSUME ParserInv, OptSubmap
  PROVE  ParserInv'
<1> DEFINE new == [tmp EXCEPT !.bindmap = Append(@, "submap")]
<1>1. Call({"submap"}, TRUE, new) /\ stack' = Entered(new) /\ UNCHANGED <<files, refused>>
  BY DEF OptSubmap
<1>2. Good /\ Opt = "submap"
  BY <1>1 DEF Call
<1>3. Section(Top, Opt) = "bindings" /\ tolerant
  BY <1>2, SubmapOption
<1>4. new \in Target /\ new.bindmap # <<>> /\ Left("bindings", new) = tmp
  BY SubmapTarget
<1>5. refused' \in BOOLEAN
  BY <1>1 DEF ParserInv, Types
<1> HIDE DEF new
<1>6. ~refused' => ~refused /\ new = new /\ Left("bindings", new) = tmp /\ new.bindmap # <<>>
  BY <1>1, <1>4
<1> QED
  BY <1>1, <1>3, <1>4, <1>5, <1>6, SectionKeeps

LEMMA OptSubmapRefusedKeeps ==
  ASSUME ParserInv, OptSubmapRefused
  PROVE  ParserInv'
<1> DEFINE target == [tmp EXCEPT !.bindmap = Append(@, "submap")]
<1>1. Call({"submap"}, TRUE, tmp) /\ stack' = Entered(target) /\ UNCHANGED files /\ refused'
  BY DEF OptSubmapRefused
<1>2. Good /\ Opt = "submap"
  BY <1>1 DEF Call
<1>3. Section(Top, Opt) = "bindings" /\ tolerant
  BY <1>2, SubmapOption
<1>4. target \in Target
  BY SubmapTarget
<1>5. refused' \in BOOLEAN
  BY DEF OptSubmapRefused
<1>6. tmp \in Target
  BY TmpType
<1> HIDE DEF target
<1> QED
  BY <1>1, <1>3, <1>4, <1>5, <1>6, SectionKeeps

LEMMA OptSubmapNoKeyKeeps ==
  ASSUME ParserInv, OptSubmapNoKey
  PROVE  ParserInv'
<1>1. Call({"submap"}, FALSE, tmp) /\ UNCHANGED <<files, stack, refused>>
  BY DEF OptSubmapNoKey
<1>2. Fail /\ pc = "run" /\ UNCHANGED <<tolerant, stack, tmp, lost, refused>>
  BY <1>1 DEF Call, Good
<1>3. is_default' \in BOOLEAN
  BY <1>1 DEF Call, Default, ParserInv, Types
<1> QED
  BY <1>1, <1>2, <1>3, FilesType, FailKeeps

\* The other handlers add to what the section is for, or fail.
LEMMA SetKeeps ==
  ASSUME ParserInv, NEW ok \in BOOLEAN,
         DoBind(ok) \/ SetLook(ok) \/ SetGlobal(ok) \/ SetWinprop(ok) \/ OptDefault(ok) \/ SetFont
  PROVE  ParserInv'
<1>1. files' \in Seq(Source) /\ Len(files') \in 1..MaxFiles /\ UNCHANGED <<stack, refused>>
  BY FilesType DEF DoBind, SetLook, SetGlobal, SetWinprop, OptDefault, SetFont
<1>2. \E opts \in {{"kpress"}, {"spacing"}, {"opaque_resize"}, {"switchto"}, {"default"}, {"font"}}, b \in BOOLEAN :
        Call(opts, b, tmp)
  BY DEF DoBind, SetLook, SetGlobal, SetWinprop, OptDefault, SetFont
<1> QED
  BY <1>1, <1>2, PlainKeeps

LEMMA OptIncludeKeeps ==
  ASSUME ParserInv, NEW ok \in BOOLEAN, OptInclude(ok)
  PROVE  ParserInv'
<1>1. Call({"include"}, ok, tmp) /\ UNCHANGED <<stack, refused>>
  BY DEF OptInclude
<1>2. Types /\ files \in Seq(Source) /\ Len(files) \in 1..MaxFiles
  BY FilesType DEF ParserInv
<1>3. files' \in Seq(Source) /\ Len(files') \in 1..MaxFiles
  <2>1. CASE ~ok
    BY <1>2, <2>1 DEF OptInclude
  <2>2. CASE ok /\ tolerant
    <3>1. files' = Append(files, File) /\ Len(files) < MaxFiles
      BY <2>2 DEF OptInclude
    <3>2. File \in Source
      BY DEF File, Source
    <3>3. files' \in Seq(Source) /\ Len(files') = Len(files) + 1
      BY <1>2, <3>1, <3>2, PushType
    <3> QED
      BY <1>2, <3>1, <3>3, Constants
  <2>3. CASE ok /\ ~tolerant
    <3>1. files' = WithCurrent([Current EXCEPT !.unget = None])
      BY <2>3 DEF OptInclude
    <3>2. [Current EXCEPT !.unget = None] \in Source
      BY <1>2, CurrentType DEF Source
    <3> QED
      BY <1>2, <3>1, <3>2, WithCurrentType
  <2> QED
    BY <2>1, <2>2, <2>3
<1> QED
  BY <1>1, <1>3, PlainKeeps

\* tmp_bindmap is only ever missing when a submap was refused.
LEMMA CrashKeeps ==
  ASSUME ParserInv, Crash
  PROVE  ParserInv'
<1>1. Good /\ Opt \in {"submap", "kpress"} /\ tmp.bindmap = <<>> /\ pc' = "crashed"
      /\ UNCHANGED <<tolerant, files, stmt, stack, errornest, is_default, tmp, braces, lost, refused>>
  BY DEF Crash
<1>2. Top = "bindings" /\ stack # <<>>
  BY <1>1, OptionType DEF OptionIs
<1>3. Len(stack) \in 1..Len(stack)
  BY <1>2, TopType
<1>4. refused
  BY <1>1, <1>2, <1>3 DEF ParserInv, Innermost, Targets, Top
<1>5. Types' /\ Read' /\ Tables(stack)'
  BY <1>1 DEF ParserInv, Types, Read, Tables
<1> QED
  BY <1>1, <1>4, <1>5 DEF ParserInv, Reading

-----------------------------------------------------------------------------
(* Errors, and the ends of sections and files. *)

LEMMA BadStatementKeeps ==
  ASSUME ParserInv, BadStatement
  PROVE  ParserInv'
<1>1. pc = "run" /\ Fail /\ UNCHANGED <<tolerant, files, stack, is_default, tmp, lost, refused>>
  BY DEF BadStatement
<1>2. is_default' \in BOOLEAN
  BY <1>1 DEF ParserInv, Types
<1> QED
  BY <1>1, <1>2, FilesType, FailKeeps

LEMMA BadOptionKeeps ==
  ASSUME ParserInv, BadOption
  PROVE  ParserInv'
<1>1. pc = "run" /\ Fail /\ UNCHANGED <<tolerant, files, stack, tmp, lost, refused>>
  BY DEF BadOption, Good
<1>2. is_default' \in BOOLEAN
  BY DEF BadOption, Default, ParserInv, Types
<1> QED
  BY <1>1, <1>2, FilesType, FailKeeps

LEMMA EmptyStatementKeeps ==
  ASSUME ParserInv, EmptyStatement
  PROVE  ParserInv'
<1>1. /\ pc = "run" /\ stmt.type = "none"
      /\ UNCHANGED <<tolerant, files, stack, is_default, tmp, lost, refused>>
  BY DEF EmptyStatement
<1>2. stmt' = NoStatement /\ pc' \in {"read", "cancel"} /\ UNCHANGED <<errornest, braces>>
  BY <1>1 DEF EmptyStatement, Fail, NextStatement, IsSect
<1>3. is_default' \in BOOLEAN
  BY <1>1 DEF ParserInv, Types
<1> QED
  BY <1>1, <1>2, <1>3, FilesType, SkipKeeps

LEMMA BegSectKeeps ==
  ASSUME ParserInv, BegSect
  PROVE  ParserInv'
<1>1. /\ pc = "run" /\ stmt.type = "beg_sect" /\ stmt' = NoStatement /\ pc' \in {"read", "cancel"}
      /\ errornest' = errornest + 1 /\ braces' = Append(braces, "skipped")
      /\ UNCHANGED <<tolerant, files, stack, is_default, tmp, lost, refused>>
  BY DEF BegSect
<1>2. is_default' \in BOOLEAN
  BY <1>1 DEF ParserInv, Types
<1> QED
  BY <1>1, <1>2, FilesType, SkipKeeps

\* The end of the innermost section leads back to the one around it.
LEMMA SectionEnds ==
  ASSUME ParserInv, stack # <<>>
  PROVE  LET st == SubSeq(stack, 1, Len(stack) - 1)
         IN  /\ st \in Seq(Opened) /\ Len(st) = Len(stack) - 1 /\ Tables(st)
             /\ ~refused => Targets(st) /\ EndHandler(Top) = Innermost(st) /\ ~EndCrashes(Top)
             /\ ~refused /\ Len(stack) = 1 => tmp = Innermost(st)
             /\ ~EndCrashes(Top) => EndHandler(Top) \in Target
<1> DEFINE n  == Len(stack)
           st == SubSeq(stack, 1, n - 1)
<1>1. stack \in Seq(Opened) /\ n \in Nat \ {0} /\ stack[n].target \in Target
  BY TopType DEF ParserInv, Types
<1>2. st \in Seq(Opened) /\ Len(st) = n - 1 /\ \A i \in 1..(n - 1) : st[i] = stack[i]
  BY <1>1, PopType
<1> HIDE DEF st
<1>3. Tables(st)
  <2>1. ASSUME NEW i \in 1..(n - 1)
        PROVE  st[i].table \in IF i > 1 THEN {"bindings", "screen", "winprop"}
                               ELSE IF tolerant THEN {"toplevel"} ELSE {"command"}
    <3>1. i \in 1..n /\ st[i] = stack[i]
      BY <1>1, <1>2
    <3> QED
      BY <3>1 DEF ParserInv, Tables
  <2>2. ~tolerant => n - 1 <= 1
    BY <1>1 DEF ParserInv, Tables
  <2> QED
    BY <1>2, <2>1, <2>2 DEF Tables
<1>4. EndHandler(Top) = Left(Top, tmp)
  BY DEF EndHandler, Left
<1>5. ASSUME ~refused
      PROVE  /\ Targets(st) /\ EndHandler(Top) = Innermost(st) /\ ~EndCrashes(Top)
             /\ n = 1 => tmp = Innermost(st)
  <2>1. tmp = stack[n].target /\ Targets(stack) /\ n \in 1..n
    BY <1>1, <1>5 DEF ParserInv, Innermost
  <2>2. Top = "bindings" => tmp.bindmap # <<>>
    BY <2>1 DEF Targets, Top
  <2>3. CASE n = 1
    <3>1. st = <<>>
      BY <1>2, <2>3
    <3>2. tmp = Outside
      BY <2>1, <2>3 DEF Targets
    <3>3. Top \notin {"bindings", "winprop", "screen"}
      <4>1. 1 \in 1..n /\ ~(1 > 1)
        BY <2>3
      <4>2. Top \in IF tolerant THEN {"toplevel"} ELSE {"command"}
        BY <2>3, <4>1 DEF ParserInv, Tables, Top
      <4> QED
        BY <4>2
    <3>4. Left(Top, tmp) = tmp
      BY <3>3 DEF Left
    <3>5. Targets(st)
      BY <1>2, <2>3, <3>1 DEF Targets
    <3>6. Innermost(st) = Outside
      BY <3>1 DEF Innermost
    <3>7. EndHandler(Top) = Innermost(st) /\ tmp = Innermost(st)
      BY <1>4, <3>2, <3>4, <3>6
    <3>8. ~EndCrashes(Top)
      BY <2>2 DEF EndCrashes
    <3> QED
      BY <3>5, <3>7, <3>8
  <2>4. CASE n # 1
    <3>1. n > 1 /\ n - 1 \in 1..(n - 1) /\ 1 \in 1..(n - 1)
      BY <1>1, <2>4, Boundary
    <3>2. Left(Top, tmp) = stack[n - 1].target
      BY <2>1, <3>1 DEF Targets, Top
    <3>3. st # <<>> /\ Innermost(st) = stack[n - 1].target
      BY <1>2, <3>1 DEF Innermost
    <3>4. ASSUME NEW i \in 1..(n - 1)
          PROVE  /\ i > 1 => Left(st[i].table, st[i].target) = st[i - 1].target
                 /\ st[i].table = "bindings" => st[i].target.bindmap # <<>>
      <4>1. i \in 1..n /\ st[i] = stack[i] /\ (i > 1 => st[i - 1] = stack[i - 1])
        BY <1>1, <1>2
      <4> QED
        BY <2>1, <4>1 DEF Targets
    <3>5. st[1].target = Outside
      <4>1. st[1] = stack[1] /\ stack # <<>>
        BY <1>2, <3>1
      <4> QED
        BY <2>1, <4>1 DEF Targets
    <3>6. Targets(st)
      BY <1>2, <3>4, <3>5 DEF Targets
    <3> QED
      BY <1>4, <2>2, <2>4, <3>2, <3>3, <3>6 DEF EndCrashes
  <2> QED
    BY <2>3, <2>4
<1>6. ~EndCrashes(Top) => EndHandler(Top) \in Target
  <2>1. tmp \in Target /\ tmp.bindmap \in Seq(Way)
    BY TmpType
  <2>2. tmp.bindmap # <<>> => Parent(tmp.bindmap) \in Seq(Way)
    BY <2>1, PopType DEF Parent
  <2>3. CASE Top = "bindings"
    BY <1>4, <2>1, <2>2, <2>3 DEF Left, EndCrashes, Target
  <2>4. CASE Top # "bindings"
    BY <1>4, <2>1, <2>4 DEF Left, Target
  <2> QED
    BY <2>3, <2>4
<1> QED
  BY <1>2, <1>3, <1>5, <1>6 DEF st

\* The last brace is closed.
LEMMA LastBrace ==
  ASSUME braces \in Seq({"section", "skipped"}),
         braces' = IF braces = <<>> THEN braces ELSE SubSeq(braces, 1, Len(braces) - 1)
  PROVE  /\ braces' \in Seq({"section", "skipped"}) /\ Len(braces) \in Nat
         /\ Len(braces) = 0 => braces' = braces /\ braces = <<>>
         /\ Len(braces) # 0 => Len(braces') = Len(braces) - 1 /\ braces # <<>>
                               /\ \A i \in 1..(Len(braces) - 1) : braces'[i] = braces[i]
<1>1. CASE braces = <<>>
  BY <1>1
<1>2. CASE braces # <<>>
  <2>1. Len(braces) \in Nat /\ Len(braces) # 0
    BY <1>2
  <2> QED
    BY <1>2, <2>1, PopType
<1> QED
  BY <1>1, <1>2

LEMMA EndSectKeeps ==
  ASSUME ParserInv, EndSect
  PROVE  ParserInv'
<1> DEFINE st    == SubSeq(stack, 1, Len(stack) - 1)
           stray == Len(stack) = 1 /\ errornest = 0
<1>1. /\ pc = "run" /\ UNCHANGED <<tolerant, files, is_default, refused>>
      /\ lost' = (lost \/ (stmt.e /\ braces # <<>>))
      /\ braces' = IF braces = <<>> THEN braces ELSE SubSeq(braces, 1, Len(braces) - 1)
      /\ stmt.type = "end_sect"
  BY DEF EndSect
<1>2. Types /\ Read /\ stack # <<>> /\ Tables(stack) /\ Reading
  BY <1>1 DEF ParserInv, Reading
<1>3. /\ braces' \in Seq({"section", "skipped"}) /\ Len(braces) \in Nat
      /\ Len(braces) = 0 => braces' = braces /\ braces = <<>>
      /\ Len(braces) # 0 => Len(braces') = Len(braces) - 1 /\ braces # <<>>
                            /\ \A i \in 1..(Len(braces) - 1) : braces'[i] = braces[i]
  BY <1>1, <1>2, LastBrace DEF Types
<1>4. lost' \in BOOLEAN
  BY <1>1, <1>2 DEF Types
<1>5. /\ st \in Seq(Opened) /\ Len(st) = Len(stack) - 1 /\ Tables(st)
      /\ ~refused => Targets(st) /\ EndHandler(Top) = Innermost(st) /\ ~EndCrashes(Top)
      /\ ~EndCrashes(Top) => EndHandler(Top) \in Target
  BY <1>2, SectionEnds
<1>6. Len(stack) \in Nat \ {0} /\ errornest \in 0..MaxErrors /\ MaxErrors \in Nat
  BY <1>2, TopType, Constants DEF Types
<1> HIDE DEF st
<1>7. ~lost /\ tolerant => Match(braces, stack, errornest)
  BY <1>2 DEF ParserInv
<1>8. CASE stmt.e \/ stray
  <2>1. stmt' = NoStatement /\ pc' \in {"read", "cancel"} /\ UNCHANGED <<stack, errornest, tmp>>
    BY <1>8 DEF EndSect
  <2>2. Types' /\ Read'
    BY <1>1, <1>2, <1>3, <1>4, <2>1, NoStatementType DEF Types, Read
  <2>3. ASSUME ~lost', tolerant PROVE Match(braces, stack, errornest)'
    <3>1. ~lost /\ (stmt.e => braces = <<>>)
      BY <1>1, <2>3
    <3>2. Match(braces, stack, errornest)
      BY <1>7, <2>3, <3>1
    <3>3. ~stmt.e => Len(braces) = 0
      <4>1. Len(braces) = Len(stack) - 1 + errornest
        BY <3>2 DEF Match
      <4>2. stray => Len(braces) = 0
        BY <4>1
      <4> QED
        BY <1>8, <4>2
    <3>4. braces' = braces
      BY <1>1, <1>3, <3>1, <3>3
    <3> QED
      BY <2>1, <3>2, <3>4
  <2>4. Tables(stack)'
    BY <1>1, <1>2, <2>1 DEF Tables
  <2> QED
    BY <1>1, <1>2, <2>1, <2>2, <2>3, <2>4 DEF ParserInv
<1>9. CASE ~(stmt.e \/ stray) /\ errornest # 0
  <2>1. stmt' = NoStatement /\ pc' = "read" /\ UNCHANGED <<stack, tmp>> /\ errornest' = errornest - 1
    BY <1>9 DEF EndSect, EndsSection, NextStatement
  <2>2. errornest' \in 0..MaxErrors
    BY <1>6, <1>9, <2>1
  <2>3. Types' /\ Read'
    BY <1>1, <1>2, <1>3, <1>4, <2>1, <2>2, NoStatementType DEF Types, Read
  <2>4. ASSUME ~lost', tolerant PROVE Match(braces, stack, errornest)'
    <3>1. Match(braces, stack, errornest)
      BY <1>1, <1>7, <2>4
    <3>2. Len(braces) # 0
      BY <1>6, <1>9, <3>1 DEF Match
    <3>3. Len(braces') = Len(braces) - 1 /\ \A i \in 1..(Len(braces) - 1) : braces'[i] = braces[i]
      BY <1>3, <3>2
    <3>4. \A i \in 1..(Len(braces) - 1) : braces'[i] = IF i < Len(stack) THEN "section" ELSE "skipped"
      BY <1>3, <3>1, <3>3 DEF Match
    <3>5. Len(braces) - 1 = Len(stack) - 1 + (errornest - 1)
      BY <1>3, <1>6, <3>1 DEF Match
    <3> QED
      BY <2>1, <3>3, <3>4, <3>5 DEF Match
  <2>5. Tables(stack)'
    BY <1>1, <1>2, <2>1 DEF Tables
  <2> QED
    BY <1>1, <1>2, <2>1, <2>3, <2>4, <2>5 DEF ParserInv
<1>10. CASE ~(stmt.e \/ stray) /\ errornest = 0 /\ EndCrashes(Top)
  <2>1. pc' = "crashed" /\ UNCHANGED <<stmt, stack, errornest, tmp>>
    BY <1>10 DEF EndSect, EndsSection
  <2>2. refused
    BY <1>5, <1>10
  <2>3. Types' /\ Read' /\ Tables(stack)'
    BY <1>1, <1>2, <1>3, <1>4, <2>1 DEF Types, Read, Tables
  <2> QED
    BY <1>1, <2>1, <2>2, <2>3 DEF ParserInv, Reading
<1>11. CASE ~(stmt.e \/ stray) /\ errornest = 0 /\ ~EndCrashes(Top)
  <2>1. /\ stmt' = NoStatement /\ pc' = "read" /\ errornest' = 0
        /\ tmp' = EndHandler(Top) /\ stack' = st
    BY <1>11 DEF EndSect, EndsSection, NextStatement, st
  <2>2. Len(stack) > 1 /\ Len(st) \in Nat \ {0} /\ st # <<>>
    BY <1>5, <1>6, <1>11
  <2>3. Len(st) <= MAX_NEST
    BY <1>2, <1>5, <1>6, Constants DEF Types
  <2>4. Types' /\ Read'
    BY <1>1, <1>2, <1>3, <1>4, <1>5, <1>6, <1>11, <2>1, <2>3, NoStatementType DEF Types, Read
  <2>5. ASSUME ~lost', tolerant PROVE Match(braces, stack, errornest)'
    <3>1. Match(braces, stack, errornest)
      BY <1>1, <1>7, <2>5
    <3>2. Len(braces) = Len(stack) - 1 /\ Len(braces) # 0
      BY <1>6, <1>11, <2>2, <3>1 DEF Match
    <3>3. Len(braces') = Len(stack) - 2 /\ \A i \in 1..(Len(stack) - 2) : braces'[i] = braces[i]
      BY <1>3, <1>6, <3>2
    <3>4. ASSUME NEW i \in 1..(Len(stack) - 2)
          PROVE  braces'[i] = IF i < Len(stack) - 1 THEN "section" ELSE "skipped"
      <4>1. i \in 1..Len(braces) /\ i < Len(stack) /\ i < Len(stack) - 1
        BY <1>6, <3>2
      <4> QED
        BY <3>1, <3>3, <4>1 DEF Match
    <3>5. Len(stack) - 2 = Len(st) - 1 + 0 /\ Len(st) = Len(stack) - 1
      BY <1>5, <1>6
    <3> QED
      BY <2>1, <3>3, <3>4, <3>5 DEF Match
  <2>6. Tables(stack)'
    BY <1>1, <1>5, <2>1 DEF Tables
  <2>7. ~refused' => tmp' = Innermost(stack)' /\ Targets(stack)'
    BY <1>1, <1>5, <2>1 DEF Innermost, Targets
  <2> QED
    BY <1>1, <2>1, <2>2, <2>4, <2>5, <2>6, <2>7 DEF ParserInv
<1> QED
  BY <1>8, <1>9, <1>10, <1>11

LEMMA EndOfFileKeeps ==
  ASSUME ParserInv, EndOfFile
  PROVE  ParserInv'
<1>1. /\ pc = "run" /\ stmt' = NoStatement /\ pc' \in {"read", "end", "cancel"}
      /\ UNCHANGED <<tolerant, stack, errornest, is_default, tmp, braces, lost, refused>>
  BY DEF EndOfFile
<1>2. files \in Seq(Source) /\ Len(files) \in 1..MaxFiles
  BY FilesType
<1>3. files' \in Seq(Source) /\ Len(files') \in 1..MaxFiles
  <2>1. CASE Len(files) > 1
    <3>1. files' = SubSeq(files, 1, Len(files) - 1) /\ files # <<>>
      BY <1>2, <2>1 DEF EndOfFile, Popped
    <3>2. files' \in Seq(Source) /\ Len(files') = Len(files) - 1
      BY <1>2, <3>1, PopType
    <3> QED
      BY <1>2, <2>1, <3>2, Constants
  <2>2. CASE ~(Len(files) > 1)
    BY <1>2, <2>2 DEF EndOfFile
  <2> QED
    BY <2>1, <2>2
<1>4. Types' /\ Read' /\ Tables(stack)'
  BY <1>1, <1>3, NoStatementType DEF ParserInv, Types, Read, Tables
<1>5. stack # <<>> /\ Reading /\ pc' # "crashed"
  BY <1>1 DEF ParserInv, Reading
<1> QED
  BY <1>1, <1>4, <1>5 DEF ParserInv

LEMMA CloseSectionKeeps ==
  ASSUME ParserInv, CloseSection
  PROVE  ParserInv'
<1> DEFINE st    == SubSeq(stack, 1, Len(stack) - 1)
           ended == tolerant \/ pc = "end"
<1>1. /\ pc \in {"end", "cancel"} /\ stack # <<>>
      /\ UNCHANGED <<tolerant, files, stmt, errornest, is_default, braces, lost, refused>>
  BY DEF CloseSection
<1>2. /\ st \in Seq(Opened) /\ Len(st) = Len(stack) - 1 /\ Tables(st)
      /\ ~refused => Targets(st) /\ EndHandler(Top) = Innermost(st) /\ ~EndCrashes(Top)
      /\ ~refused /\ Len(stack) = 1 => tmp = Innermost(st)
      /\ ~EndCrashes(Top) => EndHandler(Top) \in Target
  BY <1>1, SectionEnds
<1>3. Len(stack) \in Nat \ {0} /\ (~tolerant => Len(stack) = 1)
  <2>1. ~tolerant => Len(stack) <= 1
    BY DEF ParserInv, Tables
  <2>2. Len(stack) \in Nat \ {0}
    BY <1>1, TopType
  <2>3. Len(stack) <= 1 => Len(stack) = 1
    BY <2>2, Boundary
  <2> QED
    BY <2>1, <2>2, <2>3
<1> HIDE DEF st
<1>4. CASE ended /\ EndCrashes(Top)
  <2>1. pc' = "crashed" /\ UNCHANGED <<tmp, stack>>
    BY <1>4 DEF CloseSection
  <2>2. Types' /\ Read' /\ Tables(stack)'
    BY <1>1, <2>1 DEF ParserInv, Types, Read, Tables
  <2> QED
    BY <1>1, <1>2, <1>4, <2>1, <2>2 DEF ParserInv, Reading
<1>5. CASE ~(ended /\ EndCrashes(Top))
  <2>1. tmp' = (IF ended THEN EndHandler(Top) ELSE tmp) /\ stack' = st /\ pc' = pc
    BY <1>5 DEF CloseSection, st
  <2>2. Len(st) <= MAX_NEST
    BY <1>2, <1>3, Constants DEF ParserInv, Types
  <2>3. tmp' \in Target
    BY <1>2, <1>5, <2>1, TmpType
  <2>4. Types' /\ Read' /\ Tables(stack)'
    BY <1>1, <1>2, <2>1, <2>2, <2>3 DEF ParserInv, Types, Read, Tables
  <2>5. ~refused' => tmp' = Innermost(stack)' /\ Targets(stack)'
    BY <1>1, <1>2, <1>3, <2>1 DEF Innermost, Targets
  <2> QED
    BY <1>1, <2>1, <2>4, <2>5 DEF ParserInv, Reading
<1> QED
  BY <1>4, <1>5

-----------------------------------------------------------------------------

LEMMA EachStep == ParserInv /\ Next => ParserInv'
<1> SUFFICES ASSUME ParserInv, Next PROVE ParserInv'
  OBVIOUS
<1>1. CASE ReadError \/ \E t \in Token : ReadWord(t) \/ ReadOp(t) \/ FindBegSect(t)
  BY <1>1, ReadErrorKeeps, ReadWordKeeps, ReadOpKeeps, FindBegSectKeeps
<1>2. CASE BadStatement \/ BadOption \/ EmptyStatement \/ BegSect \/ EndSect
  BY <1>2, BadStatementKeeps, BadOptionKeeps, EmptyStatementKeeps, BegSectKeeps, EndSectKeeps
<1>3. CASE OptBindings \/ OptSubmapNoKey \/ OptSubmap \/ OptSubmapRefused \/ Crash
  BY <1>3, OptBindingsKeeps, OptSubmapNoKeyKeeps, OptSubmapKeeps, OptSubmapRefusedKeeps, CrashKeeps
<1>4. CASE BeginWinprop \/ SetFont \/ \E chosen \in SUBSET Screen : BeginScreen(chosen)
  <2>1. TRUE \in BOOLEAN
    OBVIOUS
  <2> QED
    BY <1>4, <2>1, BeginWinpropKeeps, SetKeeps, BeginScreenKeeps
<1>5. CASE \E ok \in BOOLEAN :
             \/ DoBind(ok) \/ SetLook(ok) \/ SetGlobal(ok) \/ SetWinprop(ok)
             \/ OptInclude(ok) \/ OptDefault(ok)
  BY <1>5, SetKeeps, OptIncludeKeeps
<1>6. CASE EndOfFile \/ CloseSection
  BY <1>6, EndOfFileKeeps, CloseSectionKeeps
<1>7. CASE Done
  BY <1>7 DEF Done, vars, parser, ParserInv, Types, Read, Reading, Tables
<1> QED
  BY <1>1, <1>2, <1>3, <1>4, <1>5, <1>6, <1>7 DEF Next

LEMMA Inductive == Spec => []ParserInv
<1>1. ParserInv /\ UNCHANGED vars => ParserInv'
  BY DEF vars, parser, ParserInv, Types, Read, Reading, Tables
<1>2. ParserInv /\ [Next]_vars => ParserInv'
  BY <1>1, EachStep
<1> QED
  BY <1>2, Initially, PTL DEF Spec

\* Whatever errors a file has, every open brace of the text is one of a section
\* that parse_config_tokz reads or skips, for any number of tokens, sections,
\* errors and included files, unless an error has swallowed a brace.
THEOREM SectionsAreMatched == Spec => []SectionsMatch
<1>1. ParserInv => SectionsMatch
  BY InvShows
<1> QED
  BY <1>1, Inductive, PTL

\* The handlers of the configuration set what the section that is read is for,
\* and none of them finds its map missing, unless a submap was refused and
\* opt_submap did not say so.
THEOREM HandlersAreFollowed == Spec => []HandlersFollow
<1>1. ParserInv => HandlersFollow
  BY InvShows
<1> QED
  BY <1>1, Inductive, PTL

-----------------------------------------------------------------------------
(* The tokenizer: the invariant. *)

Modes == {"start", "end", "continue", "line", "slash", "comment", "ident", "op", "string",
          "escape", "digits", "char", "charend", "number"}

Num == [stage : {"none", "sign", "zero", "digits", "exponent", "power"},
        base : {2, 8, 10, 16}, dm : 0 .. 3, negative : BOOLEAN, bad : BOOLEAN, float : BOOLEAN,
        ival : 0 .. Wrap - 1, value : 0 .. Wrap]

\* While the digits of a number mean a value that fits, ival is that value, and only
\* the point has made it a fraction; there is no point in the prefix.
Exact(n) ==
  /\ n.value < Wrap => n.ival = n.value /\ (n.float <=> n.dm = 3)
  /\ n.stage \in {"sign", "zero"} => n.dm # 3

\* The lines that are counted; no newline comes from beyond the text.
Pushed == IF ungetc = NoChar THEN 0 ELSE 1
Counted ==
  /\ ungetc \in Char \cup {NoChar} /\ error_tolerant \in BOOLEAN
  /\ left \in Nat /\ newlines \in Nat /\ eaten \in 0 .. newlines
  /\ line = 1 + newlines - eaten
  /\ newlines + left + Pushed <= MaxText

\* A token that is read right.
Right(t) ==
  t.value \in 1 - Wrap .. Wrap - 1 =>
    /\ t.type # "double"
    /\ t.type = "long" =>
         t.val = IF t.value < 2 ^ (Bits - 1) THEN t.value ELSE t.value - Wrap

TokzInv ==
  /\ Counted
  /\ mode \in Modes /\ num \in Num /\ (mode = "number" => Exact(num))
  /\ Right(tok)

LEMMA Half ==
  \E h \in Nat : h = 2 ^ (Bits - 1) /\ Wrap = 2 * h /\ h >= 8
<1>1. 2 ^ (Bits - 1) \in Nat /\ 2 ^ (Bits - 1) >= 8 /\ Wrap = 2 * 2 ^ (Bits - 1)
  BY LongAssumption DEF Wrap
<1> QED
  BY <1>1

LEMMA WrapType == Wrap \in Nat /\ Wrap >= 16
BY Half

LEMMA CharType ==
  /\ EOF \notin Char /\ NoChar \notin Char /\ EOF # NoChar
  /\ \A c \in {"0", "1", "9", "a", "b", "e"} : Hex[c] \in 0 .. 14
  /\ DOMAIN Hex = {"0", "1", "9", "a", "b", "e"}
  /\ \A c \in Digit : Hex[c] \in 0 .. 9
<1>1. DOMAIN Hex = {"0", "1", "9", "a", "b", "e"}
  BY DEF Hex
<1>2. Char \subseteq {"0", "1", "9", "a", "b", "e", "n", "x", " ", "\n", "{", "=", "<", "*",
                      "\\", "#", "/", "\"", "'", "-", "~", "."}
  BY <1>1, TokenizerAssumption DEF Letter, Space, Punct, Op
<1>3. EOF \notin Char /\ NoChar \notin Char /\ EOF # NoChar
  BY <1>2 DEF EOF, NoChar
<1>4. /\ Hex["0"] = 0 /\ Hex["1"] = 1 /\ Hex["9"] = 9
      /\ Hex["a"] = 10 /\ Hex["b"] = 11 /\ Hex["e"] = 14
  BY DEF Hex
<1> QED
  BY <1>1, <1>3, <1>4 DEF Digit

-----------------------------------------------------------------------------
(* Lines. *)

\* A character that is read is consumed with its line counted, or pushed back, or
\* swallowed and noted.
Taken(c) ==
  \/ Consume(c, TRUE) /\ UNCHANGED eaten
  \/ Ungetch(c) /\ UNCHANGED eaten
  \/ Consume(c, FALSE) /\ eaten' = IF c = "\n" THEN eaten + 1 ELSE eaten

LEMMA LinesKept ==
  ASSUME Counted, NEW c \in Char \cup {EOF}, Getch(c), Taken(c)
  PROVE  Counted'
<1>1. /\ c # EOF => left' = IF ungetc = NoChar THEN left - 1 ELSE left
      /\ c = EOF => left' = left
      /\ c # EOF /\ ungetc = NoChar => left # 0
      /\ c = EOF => ungetc = NoChar
  BY CharType DEF Getch, Counted
<1>2. /\ c \in Char \/ c = EOF
      /\ left \in Nat /\ newlines \in Nat /\ eaten \in 0 .. newlines /\ error_tolerant \in BOOLEAN
      /\ line = 1 + newlines - eaten /\ newlines + left + Pushed <= MaxText
      /\ Pushed \in {0, 1} /\ MaxText \in Nat
  BY TokenizerAssumption DEF Counted, Pushed
<1>3. left' \in Nat /\ (c = EOF => left' = left + Pushed) /\ (c # EOF => left' = left + Pushed - 1)
  <2>1. CASE ungetc = NoChar
    BY <1>1, <1>2, <2>1 DEF Pushed
  <2>2. CASE ungetc # NoChar
    BY <1>1, <1>2, <2>2 DEF Pushed
  <2> QED
    BY <2>1, <2>2
<1>4. CASE Ungetch(c) /\ UNCHANGED eaten
  <2>1. /\ Pushed' = (IF c = EOF THEN 0 ELSE 1) /\ ungetc' \in Char \cup {NoChar}
        /\ UNCHANGED <<newlines, line, error_tolerant, eaten>>
    BY <1>2, <1>4, CharType DEF Ungetch, Pushed
  <2>2. newlines' + left' + Pushed' <= MaxText
    <3>1. CASE c = EOF
      <4>1. newlines' = newlines /\ left' = left + Pushed /\ Pushed' = 0
        BY <1>3, <2>1, <3>1
      <4> QED
        BY <1>2, <4>1
    <3>2. CASE c # EOF
      <4>1. newlines' = newlines /\ left' = left + Pushed - 1 /\ Pushed' = 1
        BY <1>3, <2>1, <3>2
      <4> QED
        BY <1>2, <4>1
    <3> QED
      BY <3>1, <3>2
  <2> QED
    BY <1>2, <1>3, <2>1, <2>2 DEF Counted
<1>5. CASE \/ Consume(c, TRUE) /\ UNCHANGED eaten
           \/ Consume(c, FALSE) /\ eaten' = IF c = "\n" THEN eaten + 1 ELSE eaten
  <2>1. Pushed' = 0 /\ ungetc' \in Char \cup {NoChar} /\ error_tolerant' \in BOOLEAN
    BY <1>2, <1>5 DEF Consume, Pushed
  <2>2. CASE c = "\n"
    <3>1. c # EOF /\ newlines' = newlines + 1
      BY <1>5, <2>2 DEF EOF, Consume
    <3>2. \/ line' = line + 1 /\ eaten' = eaten
          \/ line' = line /\ eaten' = eaten + 1
      BY <1>5, <2>2 DEF Consume
    <3>3. newlines' + left' + Pushed' <= MaxText
      <4>1. newlines' = newlines + 1 /\ left' = left + Pushed - 1 /\ Pushed' = 0
        BY <1>3, <2>1, <3>1
      <4> QED
        BY <1>2, <4>1
    <3>4. eaten' \in 0 .. newlines' /\ line' = 1 + newlines' - eaten'
      BY <1>2, <3>1, <3>2
    <3> QED
      BY <1>2, <1>3, <2>1, <3>1, <3>3, <3>4 DEF Counted
  <2>3. CASE c # "\n"
    <3>1. UNCHANGED <<newlines, line, eaten>>
      BY <1>5, <2>3 DEF Consume
    <3>2. newlines' + left' + Pushed' <= MaxText
      <4>1. CASE c = EOF
        BY <1>2, <1>3, <2>1, <3>1, <4>1
      <4>2. CASE c # EOF
        BY <1>2, <1>3, <2>1, <3>1, <4>2
      <4> QED
        BY <4>1, <4>2
    <3> QED
      BY <1>2, <1>3, <2>1, <3>1, <3>2 DEF Counted
  <2> QED
    BY <2>2, <2>3
<1> QED
  BY <1>4, <1>5 DEF Taken

-----------------------------------------------------------------------------
(* Numbers. *)

\* A number of which the first character has been read, or none.
Fresh(s, b, d, neg, v) ==
  [stage |-> s, base |-> b, dm |-> d, negative |-> neg, bad |-> FALSE, float |-> FALSE,
   ival |-> v, value |-> v]

LEMMA FreshNum ==
  ASSUME NEW s \in {"none", "sign", "zero", "digits"}, NEW b \in {2, 8, 10, 16},
         NEW d \in {0, 1, 2}, NEW neg \in BOOLEAN, NEW v \in 0 .. 9
  PROVE  Fresh(s, b, d, neg, v) \in Num /\ Exact(Fresh(s, b, d, neg, v))
<1>1. v \in 0 .. Wrap - 1 /\ v \in 0 .. Wrap /\ d \in 0 .. 3 /\ d # 3
  BY WrapType
<1> QED
  BY <1>1 DEF Fresh, Num, Exact

LEMMA InitNum == NUM_INIT \in Num /\ Exact(NUM_INIT)
<1>1. PICK z \in 0 .. 9 : z = 0
  OBVIOUS
<1>2. NUM_INIT = Fresh("none", 10, 1, FALSE, z)
  BY <1>1 DEF NUM_INIT, Fresh
<1>3. Fresh("none", 10, 1, FALSE, z) \in Num /\ Exact(Fresh("none", 10, 1, FALSE, z))
  BY FreshNum
<1> QED
  BY <1>2, <1>3

\* Multiplying by the base and adding a digit.
LEMMA MulbaseAddExact ==
  ASSUME NEW n \in Num, NEW v \in 0 .. 14, n.dm # 3, Exact(n)
  PROVE  LET m == MulbaseAdd(n, v)
         IN  m \in Num /\ (m.value < Wrap => m.ival = m.value /\ ~m.float)
             /\ m.dm = n.dm /\ m.stage = n.stage
<1> DEFINE W == Wrap
           m == MulbaseAdd(n, v)
           p == n.ival * n.base
           q == n.value * n.base + v
<1>1. W \in Nat /\ W >= 16
  BY WrapType
<1>2. n.ival \in 0 .. W - 1 /\ n.value \in 0 .. W /\ n.base \in {2, 8, 10, 16} /\ n.float \in BOOLEAN
  BY DEF Num
<1>3. p \in Nat /\ q \in Nat /\ q >= 2 * n.value + v
  BY <1>2
<1>4. /\ m.float = (n.float \/ (p % W) < n.ival) /\ m.ival = ((p % W) + v) % W
      /\ m.value = AtMost(q, W) /\ m.dm = n.dm /\ m.stage = n.stage
      /\ m = [n EXCEPT !.float = m.float, !.ival = m.ival, !.value = m.value]
  BY DEF MulbaseAdd, Num
<1>5. m.value < W => q < W /\ m.value = q
  BY <1>1, <1>3, <1>4 DEF AtMost
<1>6. q < W => n.value < W /\ n.ival = n.value /\ ~n.float
  BY <1>1, <1>2, <1>3 DEF Exact
<1>7. q < W => p % W = p /\ (p + v) % W = q /\ p >= n.ival
  <2> SUFFICES ASSUME q < W PROVE p % W = p /\ (p + v) % W = q /\ p >= n.ival
    OBVIOUS
  <2>1. q = p + v /\ p >= n.ival
    BY <1>2, <1>6
  <2> HIDE DEF p, q
  <2> QED
    BY <1>1, <1>3, <2>1
<1>8. m.value < W => m.ival = m.value /\ ~m.float
  BY <1>2, <1>3, <1>4, <1>5, <1>6, <1>7
<1>9. m.ival \in 0 .. W - 1 /\ m.value \in 0 .. W
  <2> HIDE DEF p, q
  <2> QED
    BY <1>1, <1>3, <1>4 DEF AtMost
<1>10. m \in Num
  BY <1>2, <1>4, <1>9 DEF Num
<1> QED
  BY <1>4, <1>8, <1>10

\* Reading a prefix, and reading the point.
LEMMA PrefixRead ==
  ASSUME NEW n \in Num, NEW s \in {"zero", "digits"}, NEW d \in 0 .. 3, d # 3, Exact(n), n.dm # 3
  PROVE  LET m == [n EXCEPT !.stage = s, !.dm = d] IN m \in Num /\ Exact(m) /\ m.stage = s
<1> DEFINE m == [n EXCEPT !.stage = s, !.dm = d]
<1>1. m \in Num /\ m.float = n.float /\ m.dm = d /\ m.value = n.value /\ m.ival = n.ival /\ m.stage = s
  BY DEF Num
<1> HIDE DEF m
<1>2. Exact(m)
  BY <1>1 DEF Exact
<1> QED
  BY <1>1, <1>2 DEF m

LEMMA PointRead ==
  ASSUME NEW n \in Num, NEW b \in BOOLEAN, NEW d \in 0 .. 3, d = 3, n.stage = "digits", Exact(n)
  PROVE  LET m == [n EXCEPT !.bad = b, !.dm = d, !.float = TRUE] IN m \in Num /\ Exact(m)
<1> DEFINE m == [n EXCEPT !.bad = b, !.dm = d, !.float = TRUE]
<1>1. m \in Num
  BY DEF Num
<1>2. m.float /\ m.dm = d /\ m.value = n.value /\ m.ival = n.ival /\ m.stage = "digits"
  BY DEF Num
<1> HIDE DEF m
<1>3. Exact(m)
  BY <1>2 DEF Exact
<1> QED
  BY <1>1, <1>3 DEF m

LEMMA ParseDigitExact ==
  ASSUME NEW n \in Num, NEW c \in Char, Exact(n), n.stage = "digits"
  PROVE  ParseDigit(n, c) \in Num /\ Exact(ParseDigit(n, c))
<1>1. CASE c = "e" /\ n.dm # 0
  BY <1>1 DEF ParseDigit, Num, Exact
<1>2. CASE ~(c = "e" /\ n.dm # 0) /\ c \in DOMAIN Hex
  <2> DEFINE m == [n EXCEPT !.bad = @ \/ Hex[c] >= n.base]
  <2>1. m \in Num /\ Exact(m) /\ m.dm = n.dm /\ m.stage = "digits"
    BY DEF Num, Exact
  <2>2. CASE n.dm = 3
    BY <1>2, <2>1, <2>2 DEF ParseDigit
  <2>3. CASE n.dm # 3
    <3> DEFINE r == MulbaseAdd(m, Hex[c])
    <3>1. Hex[c] \in 0 .. 14
      BY <1>2, CharType
    <3>2. /\ r \in Num /\ (r.value < Wrap => r.ival = r.value /\ ~r.float)
          /\ r.dm = n.dm /\ r.stage = "digits"
      <4> HIDE DEF m
      <4> QED
        BY <2>1, <2>3, <3>1, MulbaseAddExact
    <3>3. ParseDigit(n, c) = [r EXCEPT !.dm = IF @ = 1 THEN 2 ELSE @]
      BY <1>2, <2>3 DEF ParseDigit
    <3> HIDE DEF r
    <3> QED
      BY <2>3, <3>2, <3>3 DEF Num, Exact
  <2> QED
    BY <2>2, <2>3
<1>3. CASE ~(c = "e" /\ n.dm # 0) /\ c \notin DOMAIN Hex
  <2>1. CASE c = "."
    <3>1. PICK d \in 0 .. 3 : d = 3
      OBVIOUS
    <3>2. PICK b \in BOOLEAN : b = (n.bad \/ n.dm # 2)
      OBVIOUS
    <3>3. ParseDigit(n, c) = [n EXCEPT !.bad = b, !.dm = d, !.float = TRUE]
      BY <1>3, <2>1, <3>1, <3>2 DEF ParseDigit
    <3> DEFINE m == [n EXCEPT !.bad = b, !.dm = d, !.float = TRUE]
    <3>4. m \in Num /\ Exact(m)
      BY <3>1, PointRead
    <3> HIDE DEF m
    <3> QED
      BY <3>3, <3>4 DEF m
  <2>2. CASE c # "."
    BY <1>3, <2>2 DEF ParseDigit, Num, Exact
  <2> QED
    BY <2>1, <2>2
<1> QED
  BY <1>1, <1>2, <1>3

LEMMA ParsePrefixExact ==
  ASSUME NEW n \in Num, NEW c \in Char \cup {EOF}, Exact(n), n.stage \in {"sign", "zero", "digits"}
  PROVE  LET m == ParsePrefix(n, c)
         IN  /\ m \in Num /\ Exact(m)
             /\ ~IsPrefix(n, c) => m.stage = "digits"
<1>1. CASE n.stage = "sign" /\ c = "0"
  <2>1. PICK d \in 0 .. 3 : d = 0
    OBVIOUS
  <2>2. ParsePrefix(n, c) = [n EXCEPT !.stage = "zero", !.dm = d] /\ IsPrefix(n, c)
    BY <1>1, <2>1 DEF ParsePrefix, IsPrefix
  <2>3. d # 3 /\ n.dm # 3
    BY <1>1, <2>1 DEF Exact
  <2> DEFINE m == [n EXCEPT !.stage = "zero", !.dm = d]
  <2>4. m \in Num /\ Exact(m)
    BY <2>3, PrefixRead
  <2> QED
    BY <2>2, <2>4
<1>2. CASE n.stage = "sign" /\ c # "0"
  BY <1>2 DEF ParsePrefix, Num, Exact, IsPrefix
<1>3. CASE n.stage = "zero" /\ c \in {"x", "b"}
  BY <1>3 DEF ParsePrefix, Num, Exact, IsPrefix
<1>4. CASE n.stage = "zero" /\ c \in Octal
  BY <1>4 DEF ParsePrefix, Num, Exact, IsPrefix, Octal
<1>5. CASE n.stage = "zero" /\ c \notin Octal \cup {"x", "b"}
  <2>1. PICK d \in 0 .. 3 : d = 2
    OBVIOUS
  <2>2. ParsePrefix(n, c) = [n EXCEPT !.stage = "digits", !.dm = d]
    BY <1>5, <2>1 DEF ParsePrefix
  <2>3. d # 3 /\ n.dm # 3
    BY <1>5, <2>1 DEF Exact
  <2> DEFINE m == [n EXCEPT !.stage = "digits", !.dm = d]
  <2>4. m \in Num /\ Exact(m) /\ m.stage = "digits"
    BY <2>3, PrefixRead
  <2> QED
    BY <2>2, <2>4
<1>6. CASE n.stage = "digits"
  BY <1>6 DEF ParsePrefix, Num, Exact, IsPrefix
<1> QED
  BY <1>1, <1>2, <1>3, <1>4, <1>5, <1>6

LEMMA ScanNumberRight ==
  ASSUME NEW n \in Num, Exact(n)
  PROVE  Right(ScanNumber(n))
<1>1. PICK h \in Nat : h = 2 ^ (Bits - 1) /\ Wrap = 2 * h /\ h >= 8
  BY Half
<1>2. n.ival \in 0 .. Wrap - 1 /\ n.value \in 0 .. Wrap
  BY DEF Num
<1> DEFINE value == IF n.negative THEN -n.value ELSE n.value
<1>3. CASE n.bad \/ (~n.float /\ ~InRange(n))
  BY <1>3 DEF ScanNumber, TokenOf, NoToken, Right
<1>4. CASE ~(n.bad \/ (~n.float /\ ~InRange(n))) /\ n.float
  <2>1. ScanNumber(n) = [type |-> "double", val |-> 0, value |-> IF n.dm = 3 THEN Wrap ELSE value]
    BY <1>4 DEF ScanNumber
  <2>2. n.dm # 3 => n.value = Wrap
    BY <1>1, <1>2, <1>4 DEF Exact
  <2> QED
    BY <1>1, <2>1, <2>2 DEF Right
<1>5. CASE ~(n.bad \/ (~n.float /\ ~InRange(n))) /\ ~n.float
  <2>1. ScanNumber(n) = [type |-> "long", val |-> NumToLong(n), value |-> value] /\ InRange(n)
    BY <1>5 DEF ScanNumber
  <2>2. n.value < Wrap => n.ival = n.value
    BY DEF Exact
  <2>3. n.value >= Wrap => n.value = Wrap
    BY <1>1, <1>2
  <2> QED
    BY <1>1, <1>2, <2>1, <2>2, <2>3 DEF Right, NumToLong, InRange
<1> QED
  BY <1>3, <1>4, <1>5

-----------------------------------------------------------------------------
(* The steps. *)

LEMMA InitTokzInv == TokzInit => TokzInv
<1> SUFFICES ASSUME TokzInit PROVE TokzInv
  OBVIOUS
<1>1. Pushed = 0
  BY DEF TokzInit, Pushed
<1>2. Counted
  BY <1>1, TokenizerAssumption DEF TokzInit, Counted
<1>3. Right(tok)
  BY WrapType DEF TokzInit, NoToken, Right
<1> QED
  BY <1>2, <1>3, InitNum DEF TokzInit, TokzInv, Modes

\* A step goes on with another function of the tokenizer, or returns a token.
LEMMA GotoKeeps ==
  ASSUME TokzInv, NEW c \in Char \cup {EOF}, Getch(c),
         Consume(c, TRUE) \/ Ungetch(c),
         NEW m \in Modes, NEW s, m # "number", Goto(m, s)
  PROVE  TokzInv'
<1>1. Taken(c) /\ mode' = m /\ num' = num /\ tok' = tok
  BY DEF Goto, Taken
<1>2. Counted'
  BY <1>1, LinesKept DEF TokzInv
<1> QED
  BY <1>1, <1>2 DEF TokzInv

LEMMA ReturnKeeps ==
  ASSUME TokzInv, NEW c \in Char \cup {EOF}, Getch(c),
         Consume(c, TRUE) \/ Ungetch(c),
         NEW t, Right(t), Return(t)
  PROVE  TokzInv'
<1>1. Taken(c) /\ mode' = "start" /\ num' = NUM_INIT /\ tok' = t
  BY DEF Return, Taken
<1>2. Counted'
  BY <1>1, LinesKept DEF TokzInv
<1> QED
  BY <1>1, <1>2, InitNum DEF TokzInv, Modes

\* A token that is no number.
LEMMA PlainRight == \A type \in {"invalid", "error", "nextline", "eof", "op", "ident", "string", "char"} :
                      Right(TokenOf(type))
BY DEF TokenOf, NoToken, Right


LEMMA ErrorKeeps ==
  ASSUME TokzInv, NEW c \in Char \cup {EOF}, Getch(c), Consume(c, TRUE) \/ Ungetch(c), Error
  PROVE  TokzInv'
BY ReturnKeeps, PlainRight DEF Error

LEMMA TokenKeeps ==
  ASSUME TokzInv, NEW c \in Char \cup {EOF}, Getch(c), Consume(c, TRUE) \/ Ungetch(c),
         NEW type \in {"nextline", "op", "ident", "string", "char"}, Return(TokenOf(type))
  PROVE  TokzInv'
BY ReturnKeeps, PlainRight

LEMMA BeginKeeps ==
  ASSUME TokzInv, NEW c \in Char \cup {EOF}, Begin(c)
  PROVE  TokzInv'
<1> PICK zero \in 0 .. 9 : zero = 0
  OBVIOUS
<1>1. Getch(c) /\ Taken(c) /\ tok' = NoToken
  BY DEF Begin, Taken
<1>2. Counted' /\ Right(tok')
  BY <1>1, LinesKept, WrapType DEF TokzInv, NoToken, Right
<1>3. CASE mode' # "number"
  <2>1. mode' \in Modes /\ num' = num
    BY <1>3 DEF Begin, Modes
  <2> QED
    BY <1>2, <1>3, <2>1 DEF TokzInv
<1>4. CASE mode' = "number" /\ c = "-"
  <2> DEFINE n == Fresh("sign", 10, 1, TRUE, zero)
  <2>1. num' = n
    BY <1>4 DEF Begin, Digit, NUM_INIT, Fresh
  <2>2. n \in Num /\ Exact(n)
    BY FreshNum
  <2> QED
    BY <1>2, <1>4, <2>1, <2>2 DEF TokzInv, Modes
<1>5. CASE mode' = "number" /\ c # "-"
  <2> DEFINE z == Fresh("zero", 10, 0, FALSE, zero)
             n == Fresh("digits", 10, 2, FALSE, Hex[c])
  <2>1. num' = (IF c = "0" THEN z ELSE n) /\ c \in Digit
    BY <1>5 DEF Begin, Letter, Op2, Digit, NUM_INIT, Fresh
  <2>2. z \in Num /\ Exact(z)
    BY FreshNum
  <2>3. n \in Num /\ Exact(n)
    BY <2>1, FreshNum, CharType
  <2> HIDE DEF z, n
  <2> QED
    BY <1>2, <1>5, <2>1, <2>2, <2>3 DEF TokzInv, Modes
<1> QED
  BY <1>3, <1>4, <1>5

LEMMA PlainCharKeeps ==
  ASSUME TokzInv, NEW c \in Char \cup {EOF},
         \/ Single(c) \/ Continue(c) \/ LineComment(c) \/ Slash(c) \/ CComment(c)
         \/ Identifier(c) \/ Operator(c) \/ String(c)
  PROVE  TokzInv'
<1>1. Getch(c)
  BY DEF Single, Continue, LineComment, Slash, CComment, Identifier, Operator, String
<1>2. CASE Single(c)
  BY <1>1, <1>2, TokenKeeps, ErrorKeeps DEF Single
<1>3. CASE Continue(c)
  BY <1>1, <1>3, GotoKeeps, ErrorKeeps DEF Continue, Modes
<1>4. CASE LineComment(c)
  BY <1>1, <1>4, GotoKeeps DEF LineComment, Modes
<1>5. CASE Slash(c)
  BY <1>1, <1>5, GotoKeeps, TokenKeeps DEF Slash, Modes
<1>6. CASE CComment(c)
  BY <1>1, <1>6, GotoKeeps, ErrorKeeps DEF CComment, Modes
<1>7. CASE Identifier(c)
  BY <1>1, <1>7, GotoKeeps, TokenKeeps DEF Identifier, Modes
<1>8. CASE Operator(c)
  BY <1>1, <1>8, GotoKeeps, TokenKeeps DEF Operator, Modes
<1>9. CASE String(c)
  BY <1>1, <1>9, GotoKeeps, TokenKeeps, ErrorKeeps DEF String, Modes
<1> QED
  BY <1>2, <1>3, <1>4, <1>5, <1>6, <1>7, <1>8, <1>9

LEMMA SwallowKeeps ==
  ASSUME TokzInv, NEW c \in Char \cup {EOF}, Getch(c), Swallow(c)
  PROVE  TokzInv'
<1>1. Taken(c) /\ mode' = "start" /\ num' = num /\ tok' = TokenOf("error")
  BY DEF Swallow, Taken
<1>2. Counted'
  BY <1>1, LinesKept DEF TokzInv
<1> QED
  BY <1>1, <1>2, PlainRight DEF TokzInv, Modes

\* The digits of an escape are not a number that is returned.
LEMMA EscapeKeeps ==
  ASSUME TokzInv, NEW c \in Char \cup {EOF}, Escape(c) \/ Digits(c) \/ CharConst(c) \/ CharEnd(c)
  PROVE  TokzInv'
<1>1. Getch(c)
  BY DEF Escape, Digits, CharConst, CharEnd
<1>2. ASSUME Taken(c), tok' = tok, mode' \in Modes \ {"number"}, num' \in Num
      PROVE  TokzInv'
  BY <1>1, <1>2, LinesKept DEF TokzInv
<1>3. CASE Escape(c)
  <2>1. CASE EscapeDone /\ (Consume(c, TRUE) \/ Ungetch(c))
    BY <1>1, <2>1, GotoKeeps DEF EscapeDone, Modes
  <2>2. CASE Error /\ (Consume(c, TRUE) \/ Ungetch(c))
    BY <1>1, <2>2, ErrorKeeps
  <2>3. CASE /\ mode' = "digits" /\ UNCHANGED <<tok, eaten>> /\ Consume(c, TRUE)
             /\ \E b \in {8, 10, 16} : num' = [NUM_INIT EXCEPT !.base = b, !.dm = 2]
    <3>1. PICK b \in {8, 10, 16} : num' = [NUM_INIT EXCEPT !.base = b, !.dm = 2]
      BY <2>3
    <3>2. PICK z \in 0 .. 9 : num' = Fresh("none", b, 2, FALSE, z)
      <4>1. PICK z \in 0 .. 9 : z = 0
        OBVIOUS
      <4> QED
        BY <3>1, <4>1 DEF NUM_INIT, Fresh
    <3>3. num' \in Num
      BY <3>2, FreshNum
    <3> QED
      BY <1>2, <2>3, <3>3 DEF Taken, Modes
  <2> QED
    BY <1>3, <2>1, <2>2, <2>3 DEF Escape
<1>4. CASE Digits(c)
  <2>1. CASE Error /\ (Consume(c, TRUE) \/ Ungetch(c))
    BY <1>1, <2>1, ErrorKeeps
  <2>2. CASE /\ num.dm > 1 /\ Consume(c, TRUE) /\ num' = [num EXCEPT !.dm = @ - 1]
             /\ UNCHANGED <<mode, sub, tok, eaten>>
    <3>1. num' \in Num
      BY <2>2 DEF TokzInv, Num
    <3>2. mode' \in Modes \ {"number"}
      BY <1>4, <2>2 DEF Digits, Modes
    <3> QED
      BY <1>2, <2>2, <3>1, <3>2 DEF Taken
  <2>3. CASE /\ Consume(c, TRUE) \/ Ungetch(c)
             /\ num' = NUM_INIT /\ mode' = (IF sub = "char" THEN "charend" ELSE "string")
             /\ UNCHANGED <<tok, eaten>>
    BY <1>2, <2>3, InitNum DEF Taken, Modes
  <2> QED
    BY <1>4, <2>1, <2>2, <2>3 DEF Digits
<1>5. CASE CharConst(c)
  BY <1>1, <1>5, GotoKeeps, SwallowKeeps DEF CharConst, Modes
<1>6. CASE CharEnd(c)
  BY <1>1, <1>6, TokenKeeps, SwallowKeeps DEF CharEnd
<1> QED
  BY <1>3, <1>4, <1>5, <1>6

LEMMA NumberKeeps ==
  ASSUME TokzInv, NEW c \in Char \cup {EOF}, Number(c)
  PROVE  TokzInv'
<1> DEFINE n == ParsePrefix(num, c)
           d == ParseDigit(n, c)
<1>1. /\ mode = "number" /\ num.stage \in {"sign", "zero", "digits"} /\ Getch(c)
      /\ num \in Num /\ Exact(num)
  BY DEF Number, TokzInv
<1>2. n \in Num /\ Exact(n) /\ (~IsPrefix(num, c) => n.stage = "digits")
  BY <1>1, ParsePrefixExact
<1>3. CASE ~IsPrefix(num, c) /\ IsEnd(c)
  <2>1. Ungetch(c) /\ Return(ScanNumber(n))
    BY <1>3 DEF Number
  <2>2. Right(ScanNumber(n))
    <3> HIDE DEF n
    <3> QED
      BY <1>2, ScanNumberRight
  <2> HIDE DEF n
  <2> QED
    BY <1>1, <2>1, <2>2, ReturnKeeps
<1>4. CASE ~(~IsPrefix(num, c) /\ IsEnd(c))
  <2>1. /\ Consume(c, TRUE) /\ UNCHANGED <<mode, sub, tok, eaten>>
        /\ num' = IF IsPrefix(num, c) THEN n ELSE d
    BY <1>4 DEF Number
  <2>2. ~IsPrefix(num, c) => d \in Num /\ Exact(d)
    <3>1. ~IsPrefix(num, c) => c \in Char
      BY <1>4 DEF IsEnd
    <3> HIDE DEF n
    <3> QED
      BY <1>2, <3>1, ParseDigitExact
  <2>3. num' \in Num /\ Exact(num)'
    <3> HIDE DEF n, d
    <3>1. num' \in Num /\ Exact(num')
      BY <1>2, <2>1, <2>2
    <3> QED
      BY <3>1 DEF Exact
  <2>4. Counted'
    BY <1>1, <2>1, LinesKept DEF TokzInv, Taken
  <2> QED
    BY <1>1, <2>1, <2>3, <2>4 DEF TokzInv
<1> QED
  BY <1>3, <1>4

LEMMA ExponentKeeps ==
  ASSUME TokzInv, NEW c \in Char \cup {EOF}, Exponent(c)
  PROVE  TokzInv'
<1>1. mode = "number" /\ Getch(c) /\ num \in Num /\ Exact(num)
  BY DEF Exponent, TokzInv
<1>2. CASE IsEnd(c) /\ ~(num.stage = "exponent" /\ c = "-")
  <2>1. Ungetch(c) /\ Return(ScanNumber(num)) /\ Right(ScanNumber(num))
    BY <1>1, <1>2, ScanNumberRight DEF Exponent
  <2> QED
    BY <1>1, <2>1, ReturnKeeps
<1>3. CASE ~(IsEnd(c) /\ ~(num.stage = "exponent" /\ c = "-"))
  <2>1. PICK b \in BOOLEAN : b = (num.bad \/ c \notin Digit \cup {"-"})
    OBVIOUS
  <2> DEFINE n == [num EXCEPT !.stage = "power", !.bad = b]
  <2>2. Consume(c, TRUE) /\ num' = n /\ UNCHANGED <<mode, sub, tok, eaten>>
    BY <1>3, <2>1 DEF Exponent
  <2>3. n \in Num /\ Exact(n)
    BY <1>1 DEF Num, Exact
  <2>4. Counted'
    BY <1>1, <2>2, LinesKept DEF TokzInv, Taken
  <2> QED
    BY <1>1, <2>2, <2>3, <2>4 DEF TokzInv
<1> QED
  BY <1>2, <1>3

LEMMA TokzNextKeeps == TokzInv /\ [TokzNext]_tokzVars => TokzInv'
<1> SUFFICES ASSUME TokzInv, [TokzNext]_tokzVars PROVE TokzInv'
  OBVIOUS
<1>1. CASE Blank
  <2>1. Getch(" ") /\ Taken(" ") /\ tok' = NoToken /\ UNCHANGED <<mode, num>>
    BY <1>1 DEF Blank, Taken
  <2>2. " " \in Char \cup {EOF}
    BY <2>1 DEF Getch, TokzInv, Counted, NoChar, EOF
  <2>3. Counted' /\ Right(tok')
    BY <2>1, <2>2, LinesKept, WrapType DEF TokzInv, NoToken, Right
  <2> QED
    BY <2>1, <2>3 DEF TokzInv
<1>2. CASE NextLine
  <2>1. "\n" \in Char \cup {EOF}
    BY <1>2 DEF NextLine, Getch, TokzInv, Counted, NoChar, EOF
  <2> QED
    BY <1>2, <2>1, TokenKeeps DEF NextLine
<1>3. CASE End
  <2>1. Getch(EOF) /\ Taken(EOF) /\ mode' = "end" /\ tok' = TokenOf("eof") /\ num' = num
    BY <1>3 DEF End, Taken
  <2>2. Counted'
    BY <2>1, LinesKept DEF TokzInv
  <2> QED
    BY <2>1, <2>2, PlainRight DEF TokzInv, Modes
<1>4. ASSUME NEW c \in Char \cup {EOF}, Scan(c) PROVE TokzInv'
  BY <1>4, BeginKeeps, PlainCharKeeps, EscapeKeeps, NumberKeeps, ExponentKeeps DEF Scan
<1>5. CASE UNCHANGED tokzVars
  BY <1>5 DEF tokzVars, TokzInv, Counted, Pushed, Exact, Right
<1> QED
  BY <1>1, <1>2, <1>3, <1>4, <1>5 DEF TokzNext, Tokenize, TokzDone

-----------------------------------------------------------------------------
(* The theorems. *)

THEOREM TokzInvariant == TokzSpec => []TokzInv
BY InitTokzInv, TokzNextKeeps, PTL DEF TokzSpec

\* After any text, however long and with whatever errors, the line is the number of
\* newlines read, but for those that were taken for a character.
THEOREM LinesAreCounted == TokzSpec => []LinesCounted
<1>1. TokzInv => LinesCounted
  <2> SUFFICES ASSUME TokzInv PROVE LinesCounted
    OBVIOUS
  <2>1. left \in 0 .. MaxText /\ newlines \in 0 .. MaxText
    BY TokenizerAssumption DEF TokzInv, Counted, Pushed
  <2>2. num.ival \in 0 .. Wrap - 1 /\ num.value \in 0 .. Wrap
    BY DEF TokzInv, Num
  <2> QED
    BY <2>1, <2>2 DEF TokzInv, Counted, LinesCounted, TokzType, Modes
<1> QED
  BY <1>1, TokzInvariant, PTL

\* Every number that fits in an unsigned long of any width is read exactly, in each
\* base, however many digits it has.
THEOREM NumbersAreExact == TokzSpec => []NumberExact
<1>1. TokzInv => NumberExact
  BY DEF TokzInv, Right, NumberExact
<1> QED
  BY <1>1, TokzInvariant, PTL

==============================================================================
