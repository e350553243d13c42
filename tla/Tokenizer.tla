------------------------------ MODULE Tokenizer ------------------------------
(***************************************************************************)
(* The tokenizer of configuration files, saved layouts and commands        *)
(* (libtu: tokenizer.c, numparser2.h, np-conv.h), one character at a time. *)
(*                                                                         *)
(* A text is any sequence of characters, chosen as they are read; of each  *)
(* kind of character that the code tells apart there is one, named by      *)
(* itself.  What is in strings and identifiers is left out.  The caller    *)
(* asks for tokens until it gets OP_EOF, as read_statement does; comments  *)
(* are skipped and lines are not ignored, as all callers want it.          *)
(***************************************************************************)
EXTENDS Integers

CONSTANTS
  Char,     \* the characters of texts
  Bits,     \* the width of long
  MaxText   \* bound on the length of texts

EOF  == "EOF"
NoChar == "none"   \* ungetc is -1

Hex      == [c \in {"0", "1", "9", "a", "b", "e"} |->
               CASE c = "0" -> 0 [] c = "1" -> 1 [] c = "9" -> 9
                 [] c = "a" -> 10 [] c = "b" -> 11 [] c = "e" -> 14]
Digit    == {"0", "1", "9"}
Octal    == {"0", "1"}
Letter   == {"a", "b", "e", "n", "x"}
Escaped  == {"a", "b", "e", "n"}           \* special_chars
Space    == {" ", "\n"}
Op       == {"{", "=", "<", "*"}           \* those of op_map
Op2      == {"=", "<", "*"}                \* those that "=" may follow
Punct    == Op \cup {"\\", "#", "/", "\"", "'", "-", "~"}

ASSUME TokenizerAssumption ==
  /\ Char \subseteq DOMAIN Hex \cup Letter \cup Space \cup Punct \cup {"."}
  /\ Bits \in Nat \ {0} /\ MaxText \in Nat

\* A long holds more than a digit, and unsigned long twice as much as long.
ASSUME LongAssumption ==
  /\ 2 ^ (Bits - 1) \in Nat /\ 2 ^ (Bits - 1) >= 8
  /\ 2 ^ Bits = 2 * 2 ^ (Bits - 1)

VARIABLES
  mode,      \* the function of the tokenizer that reads the next character
  sub,       \* its local state, where it has one
  num,       \* NPNum, and what the digits mean
  ungetc,
  line,
  left,      \* characters of the text still to come
  error_tolerant,  \* TOKZ_ERROR_TOLERANT
  tok,       \* the last token
  newlines,  \* newlines of the text that have been read
  eaten      \* those that were read as a part of a character constant

tokzVars == <<mode, sub, num, ungetc, line, left, error_tolerant, tok, newlines, eaten>>

\* val: of a long; value: what its digits mean.
NoToken == [type |-> "invalid", val |-> 0, value |-> 0]
TokenOf(type) == [NoToken EXCEPT !.type = type]

\* stage of parse_number; dm: 0 only digits of the base, 1 no digit yet, 2 digits,
\* 3 after the point; type FLOAT or INT; ival modulo 2^Bits; value: the digits read as
\* a number, up to 2^Bits.
NUM_INIT == [stage |-> "none", base |-> 10, dm |-> 1, negative |-> FALSE, bad |-> FALSE,
             float |-> FALSE, ival |-> 0, value |-> 0]

Wrap == 2 ^ Bits
AtMost(n, max) == IF n < max THEN n ELSE max

TokzInit ==
  /\ mode = "start" /\ sub = NoChar /\ num = NUM_INIT
  /\ ungetc = NoChar /\ line = 1
  /\ left \in 0 .. MaxText
  /\ error_tolerant \in BOOLEAN
  /\ tok = NoToken /\ newlines = 0 /\ eaten = 0

-----------------------------------------------------------------------------
(* Reading characters. *)

\* _getch: c is the next character.
Getch(c) ==
  /\ c \in IF ungetc # NoChar THEN {ungetc} ELSE IF left = 0 THEN {EOF} ELSE Char
  /\ left' = IF ungetc = NoChar /\ c # EOF THEN left - 1 ELSE left

\* c is read and stays read; count: INC_LINE.
Consume(c, count) ==
  /\ ungetc' = NoChar
  /\ newlines' = IF c = "\n" THEN newlines + 1 ELSE newlines
  /\ line' = IF c = "\n" /\ count THEN line + 1 ELSE line
  /\ UNCHANGED error_tolerant

\* _ungetch: EOF is -1, which is no character to come back to.
Ungetch(c) ==
  /\ ungetc' = IF c = EOF THEN NoChar ELSE c
  /\ UNCHANGED <<newlines, line, error_tolerant>>

\* tokz_get_token goes on with function m.
Goto(m, s) == mode' = m /\ sub' = s /\ UNCHANGED <<num, tok, eaten>>

\* tokz_get_token returns t, or FALSE.
Return(t) == mode' = "start" /\ sub' = NoChar /\ tok' = t /\ num' = NUM_INIT /\ UNCHANGED eaten
Error == Return(TokenOf("error"))

-----------------------------------------------------------------------------
(* tokz_get_token. *)

\* tok_free, and the characters before the token.
Blank ==
  /\ mode = "start" /\ Getch(" ") /\ Consume(" ", TRUE)
  /\ tok' = NoToken
  /\ UNCHANGED <<mode, sub, num, eaten>>

NextLine == mode = "start" /\ Getch("\n") /\ Consume("\n", TRUE) /\ Return(TokenOf("nextline"))

\* The caller is through with the text.
End ==
  /\ mode = "start" /\ Getch(EOF) /\ Consume(EOF, TRUE)
  /\ mode' = "end" /\ tok' = TokenOf("eof")
  /\ UNCHANGED <<sub, num, eaten>>

\* The first character of a token that has more.
Begin(c) ==
  /\ mode = "start" /\ Getch(c) /\ Consume(c, TRUE)
  /\ tok' = NoToken /\ UNCHANGED eaten
  /\ \/ c = "\\" /\ mode' = "continue" /\ sub' = "ok" /\ UNCHANGED num
     \/ c = "#" /\ mode' = "line" /\ UNCHANGED <<sub, num>>
     \/ c = "/" /\ mode' = "slash" /\ UNCHANGED <<sub, num>>
     \/ c = "\"" /\ mode' = "string" /\ UNCHANGED <<sub, num>>
     \/ c = "'" /\ mode' = "char" /\ UNCHANGED <<sub, num>>
     \/ c \in Letter /\ mode' = "ident" /\ UNCHANGED <<sub, num>>
     \/ c \in Op2 /\ mode' = "op" /\ sub' = c /\ UNCHANGED num
     \/ c = "-" /\ mode' = "number" /\ num' = [NUM_INIT EXCEPT !.stage = "sign", !.negative = TRUE]
        /\ UNCHANGED sub
     \/ c \in Digit /\ mode' = "number" /\ UNCHANGED sub
        /\ num' = IF c = "0" THEN [NUM_INIT EXCEPT !.stage = "zero", !.dm = 0]
                  ELSE [NUM_INIT EXCEPT !.stage = "digits", !.dm = 2,
                                        !.ival = Hex[c], !.value = Hex[c]]

\* A token of one character, or a character of none.
Single(c) ==
  /\ mode = "start" /\ Getch(c) /\ Consume(c, TRUE)
  /\ \/ c \in Op \ Op2 /\ Return(TokenOf("op"))
     \/ c \in {"~", "."} /\ IF c = "." THEN Return(TokenOf("op")) ELSE Error

\* After a backslash: blanks up to the end of the line.  Anything else is an error,
\* which ends the token, or in tolerant mode is reported once.
Continue(c) ==
  /\ mode = "continue" /\ Getch(c) /\ Consume(c, TRUE)
  /\ \/ c = EOF /\ Error
     \/ c = "\n" /\ Goto("start", NoChar)
     \/ c = " " /\ Goto("continue", sub)
     \/ c \notin Space \cup {EOF} /\ IF ~error_tolerant /\ sub = "ok" THEN Error
                                     ELSE Goto("continue", "reported")

\* skip_line_comment
LineComment(c) ==
  /\ mode = "line" /\ Getch(c)
  /\ IF c \in {"\n", EOF} THEN Ungetch(c) /\ Goto("start", NoChar)
     ELSE Consume(c, TRUE) /\ Goto("line", NoChar)

Slash(c) ==
  /\ mode = "slash" /\ Getch(c)
  /\ \/ c = "=" /\ Consume(c, TRUE) /\ Return(TokenOf("op"))
     \/ c = "*" /\ Consume(c, TRUE) /\ Goto("comment", NoChar)
     \/ c \notin {"=", "*"} /\ Ungetch(c) /\ Return(TokenOf("op"))

\* skip_c_comment.  A second "*" does not start the end of the comment; a newline after
\* the first one does not matter.
CComment(c) ==
  /\ mode = "comment" /\ Getch(c) /\ Consume(c, TRUE)
  /\ IF c = EOF THEN Error
     ELSE IF c = "\n" THEN Goto("comment", sub)
     ELSE IF sub = NoChar /\ c = "*" THEN Goto("comment", "*")
     ELSE IF sub = "*" /\ c = "/" THEN Goto("start", NoChar)
     ELSE Goto("comment", NoChar)

\* scan_identifier
Identifier(c) ==
  /\ mode = "ident" /\ Getch(c)
  /\ IF c \in Letter \cup Digit THEN Consume(c, TRUE) /\ Goto("ident", NoChar)
     ELSE Ungetch(c) /\ Return(TokenOf("ident"))

\* scan_op
Operator(c) ==
  /\ mode = "op" /\ Getch(c)
  /\ \/ c = "=" /\ Consume(c, TRUE) /\ Return(TokenOf("op"))
     \/ c = sub /\ c = "<" /\ Consume(c, TRUE) /\ Goto("op", "<<")
     \/ c # "=" /\ ~(c = sub /\ c = "<") /\ Ungetch(c) /\ Return(TokenOf("op"))

-----------------------------------------------------------------------------
(* Strings and characters. *)

\* Mutant: a string may go on in the next line.
StringMultiline(c) ==
  /\ mode = "string" /\ Getch(c)
  /\ \/ c = "\"" /\ Consume(c, TRUE) /\ Return(TokenOf("string"))
     \/ c = "\\" /\ Consume(c, TRUE) /\ Goto("escape", "string")
     \/ c = EOF /\ Consume(c, TRUE) /\ Error
     \/ c \notin {"\"", "\\", EOF} /\ Consume(c, FALSE) /\ Goto("string", NoChar)

\* scan_string
String(c) ==
  /\ mode = "string" /\ Getch(c)
  /\ \/ c = "\"" /\ Consume(c, TRUE) /\ Return(TokenOf("string"))
     \/ c = "\n" /\ Ungetch(c) /\ Error
     \/ c = "\\" /\ Consume(c, TRUE) /\ Goto("escape", "string")
     \/ c = EOF /\ Consume(c, TRUE) /\ Error
     \/ c \notin {"\"", "\n", "\\", EOF} /\ Consume(c, TRUE) /\ Goto("string", NoChar)

\* scan_char_escape is done: the character is in the string, or the closing quote is due.
EscapeDone == Goto(IF sub = "char" THEN "charend" ELSE "string", NoChar)

\* The first character of scan_char_escape.  For the letters of special_chars it returns
\* what lies beyond the end of specials: a character, or the value of EOF or of an end
\* of line, with which the token ends.
Escape(c) ==
  /\ mode = "escape" /\ Getch(c)
  /\ \/ c \in Escaped /\ Consume(c, TRUE) /\ (EscapeDone \/ Error)
     \/ c = "x" /\ Consume(c, TRUE) /\ mode' = "digits" /\ UNCHANGED <<sub, tok, eaten>>
        /\ num' = [NUM_INIT EXCEPT !.base = 16, !.dm = 2]
     \/ c = "9" /\ Consume(c, TRUE) /\ mode' = "digits" /\ UNCHANGED <<sub, tok, eaten>>
        /\ num' = [NUM_INIT EXCEPT !.base = 10, !.dm = 2]
     \/ c \in Octal /\ Consume(c, TRUE) /\ mode' = "digits" /\ UNCHANGED <<sub, tok, eaten>>
        /\ num' = [NUM_INIT EXCEPT !.base = 8, !.dm = 2]
     \/ c = "\n" /\ Ungetch(c) /\ Error
     \/ c = EOF /\ Consume(c, TRUE) /\ Error
     \/ c \notin Escaped \cup Digit \cup {"x", "\n", EOF} /\ Consume(c, TRUE) /\ EscapeDone

EscapeDigits == [b \in {8, 10, 16} |-> IF b = 8 THEN Octal ELSE IF b = 10 THEN Digit ELSE DOMAIN Hex]

\* The loop of scan_char_escape; dm is max, the digits that may come.
Digits(c) ==
  /\ mode = "digits" /\ Getch(c)
  /\ \/ c = EOF /\ Consume(c, TRUE) /\ Error
     \/ c = "\n" /\ Ungetch(c) /\ Error
     \/ /\ c \in EscapeDigits[num.base] /\ num.dm > 1
        /\ Consume(c, TRUE) /\ num' = [num EXCEPT !.dm = @ - 1] /\ UNCHANGED <<mode, sub, tok, eaten>>
     \/ /\ c \in EscapeDigits[num.base] /\ num.dm = 1
        /\ Consume(c, TRUE) /\ num' = NUM_INIT
        /\ mode' = (IF sub = "char" THEN "charend" ELSE "string") /\ sub' = NoChar
        /\ UNCHANGED <<tok, eaten>>
     \/ /\ c \notin EscapeDigits[num.base] \cup {EOF, "\n"}
        /\ Ungetch(c) /\ num' = NUM_INIT
        /\ mode' = (IF sub = "char" THEN "charend" ELSE "string") /\ sub' = NoChar
        /\ UNCHANGED <<tok, eaten>>

\* A token that swallows the end of its line.
Swallow(c) ==
  /\ Consume(c, FALSE)
  /\ mode' = "start" /\ sub' = NoChar /\ tok' = TokenOf("error") /\ UNCHANGED num
  /\ eaten' = IF c = "\n" THEN eaten + 1 ELSE eaten

\* scan_char
CharConst(c) ==
  /\ mode = "char" /\ Getch(c)
  /\ \/ c \in {EOF, "\n"} /\ Swallow(c)
     \/ c = "\\" /\ Consume(c, TRUE) /\ Goto("escape", "char")
     \/ c \notin {EOF, "\n", "\\"} /\ Consume(c, TRUE) /\ Goto("charend", NoChar)

CharEnd(c) ==
  /\ mode = "charend" /\ Getch(c)
  /\ IF c = "'" THEN Consume(c, TRUE) /\ Return(TokenOf("char")) ELSE Swallow(c)

-----------------------------------------------------------------------------
(* Numbers: scan_number. *)

\* Mutant: the end of the text does not end a number.
IsEndNoEof(c) == c \in Punct \cup Space

\* is_end
IsEnd(c) == c \in Punct \cup Space \cup {EOF}

\* Mutant: the product is not above what was there before.
MulbaseAddEqual(n, v) ==
  LET product == (n.ival * n.base) % Wrap
  IN  [n EXCEPT !.float = @ \/ product <= n.ival, !.ival = (product + v) % Wrap,
                !.value = AtMost(@ * n.base + v, Wrap)]

\* npnum_mulbase_add
MulbaseAdd(n, v) ==
  LET product == (n.ival * n.base) % Wrap
  IN  [n EXCEPT !.float = @ \/ product < n.ival, !.ival = (product + v) % Wrap,
                !.value = AtMost(@ * n.base + v, Wrap)]

\* num_to_long with allow_uns_big: the value as a long, unless it is out of range.
InRange(n) == ~n.negative \/ n.ival <= 2 ^ (Bits - 1)
NumToLong(n) ==
  IF n.negative THEN -n.ival ELSE IF n.ival < 2 ^ (Bits - 1) THEN n.ival ELSE n.ival - Wrap

\* scan_number, when parse_number has come to the end.
ScanNumber(n) ==
  LET value == IF n.negative THEN -n.value ELSE n.value
  IN  IF n.bad \/ (~n.float /\ ~InRange(n)) THEN TokenOf("error")
      ELSE IF n.float THEN [type |-> "double", val |-> 0,
                            value |-> IF n.dm = 3 THEN Wrap ELSE value]
      ELSE [type |-> "long", val |-> NumToLong(n), value |-> value]

\* The loop of parse_number, with character c and what has been read before it, n.
ParseDigit(n, c) ==
  IF c = "e" /\ n.dm # 0
  THEN IF n.dm < 2 THEN [n EXCEPT !.bad = TRUE] ELSE [n EXCEPT !.stage = "exponent"]
  ELSE IF c \in DOMAIN Hex
  THEN LET m == [n EXCEPT !.bad = @ \/ Hex[c] >= n.base]
       IN  IF n.dm = 3 THEN m ELSE [MulbaseAdd(m, Hex[c]) EXCEPT !.dm = IF @ = 1 THEN 2 ELSE @]
  ELSE IF c = "." THEN [n EXCEPT !.bad = @ \/ n.dm # 2, !.dm = 3, !.float = TRUE]
  ELSE [n EXCEPT !.bad = TRUE]

\* What is read before the loop: the sign, and what follows a zero at the start.
ParsePrefix(n, c) ==
  CASE n.stage = "sign" /\ c = "0" -> [n EXCEPT !.stage = "zero", !.dm = 0]
    [] n.stage = "sign" /\ c # "0" -> [n EXCEPT !.stage = "digits", !.bad = c \notin Digit]
    [] n.stage = "zero" /\ c \in {"x", "b"} ->
         [n EXCEPT !.stage = "digits", !.base = IF c = "x" THEN 16 ELSE 2]
    [] n.stage = "zero" /\ c \in Octal -> [n EXCEPT !.stage = "digits", !.base = 8]
    [] n.stage = "zero" /\ c \notin Octal \cup {"x", "b"} -> [n EXCEPT !.stage = "digits", !.dm = 2]
    [] OTHER -> n

\* Whether the character is only a prefix, and the loop reads the next one.
IsPrefix(n, c) ==
  \/ n.stage = "sign" /\ c = "0"
  \/ n.stage = "zero" /\ c \in {"x", "b"}

\* parse_number
Number(c) ==
  LET n == ParsePrefix(num, c) IN
  /\ mode = "number" /\ num.stage \in {"sign", "zero", "digits"} /\ Getch(c)
  /\ IF ~IsPrefix(num, c) /\ IsEnd(c)
     THEN Ungetch(c) /\ Return(ScanNumber(n))
     ELSE /\ Consume(c, TRUE)
          /\ num' = IF IsPrefix(num, c) THEN n ELSE ParseDigit(n, c)
          /\ UNCHANGED <<mode, sub, tok, eaten>>

\* parse_exponent.  It changes the value of a fraction, and nothing of an integer.
Exponent(c) ==
  /\ mode = "number" /\ num.stage \in {"exponent", "power"} /\ Getch(c)
  /\ IF IsEnd(c) /\ ~(num.stage = "exponent" /\ c = "-")
     THEN Ungetch(c) /\ Return(ScanNumber(num))
     ELSE /\ Consume(c, TRUE)
          /\ num' = [num EXCEPT !.stage = "power", !.bad = @ \/ c \notin Digit \cup {"-"}]
          /\ UNCHANGED <<mode, sub, tok, eaten>>

-----------------------------------------------------------------------------
Scan(c) ==
  \/ Begin(c) \/ Single(c) \/ Continue(c) \/ LineComment(c) \/ Slash(c) \/ CComment(c)
  \/ Identifier(c) \/ Operator(c) \/ String(c) \/ Escape(c) \/ Digits(c)
  \/ CharConst(c) \/ CharEnd(c) \/ Number(c) \/ Exponent(c)

Tokenize == Blank \/ NextLine \/ End \/ \E c \in Char \cup {EOF} : Scan(c)

TokzDone == mode = "end" /\ UNCHANGED tokzVars

TokzNext == Tokenize \/ TokzDone

\* The caller goes on reading.
TokzSpec == TokzInit /\ [][TokzNext]_tokzVars /\ WF_tokzVars(Tokenize)

-----------------------------------------------------------------------------
(* Properties. *)

\* Every variable has its type.
TokzType ==
  /\ mode \in {"start", "end", "continue", "line", "slash", "comment", "ident", "op", "string",
               "escape", "digits", "char", "charend", "number"}
  /\ ungetc \in Char \cup {NoChar} /\ error_tolerant \in BOOLEAN
  /\ left \in 0 .. MaxText /\ newlines \in 0 .. MaxText /\ eaten \in 0 .. newlines
  /\ num.ival \in 0 .. Wrap - 1 /\ num.value \in 0 .. Wrap

\* The line that errors are reported at is right, after any text and any errors in it,
\* but for the newlines that scan_char takes for the character or the closing quote;
\* a newline that ends a string, a comment or a number is not lost.
LinesCounted == TokzType /\ line = 1 + newlines - eaten

\* A number whose digits mean a value that fits in unsigned long is read as that
\* value (as a long: values beyond LONG_MAX come out negative), and never as a
\* fraction, whatever its base and however many zeros it begins with.  Beyond, the
\* test for overflow finds some and not others.
NumberExact ==
  tok.value \in 1 - Wrap .. Wrap - 1 =>
    /\ tok.type # "double"
    /\ tok.type = "long" =>
         tok.val = IF tok.value < 2 ^ (Bits - 1) THEN tok.value ELSE tok.value - Wrap

\* Every text comes to its end, wherever it ends: in a comment, a string, an escape,
\* after a backslash, in a number ("oops... EOF was missing").
EndsAtEof == <>(mode = "end")

=============================================================================
