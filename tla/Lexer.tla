-------------------------------- MODULE Lexer --------------------------------
(***************************************************************************)
(* The lexer (lexer/mod.rs): a single pass that turns a text into tokens,  *)
(* and goes on after an error.                                             *)
(*                                                                         *)
(* A text is a sequence of characters.  The letters of a word that nothing *)
(* looks into are one character of class "word"; digits, blanks and        *)
(* everything else are themselves.  A fixed token is its spelling; a       *)
(* literal carries its value: of a float the tenths, of a string its index *)
(* in Texts.                                                               *)
(***************************************************************************)
EXTENDS Ast

CONSTANTS MaxInt,      \* i64::MAX
          Texts        \* the contents of string literals, as sequences of characters

Char(c, x, n) == [c |-> c, x |-> x, n |-> n]
Word(x)   == Char("word", x, 0)
Digit(d)  == Char("digit", <<"0", "1", "2", "3", "4", "5", "6", "7", "8", "9">>[d + 1], d)
Sym(x)    == Char("sym", x, 0)
Blank     == Char("blank", " ", 0)
Newline   == Char("blank", "LF", 0)
TheEnd    == Char("end", "", 0)

At(text, i) == IF i \in DOMAIN text THEN text[i] ELSE TheEnd
\* Two characters that may be one token, or open or close a comment.
Two(text, i) ==
  IF At(text, i).c = "sym" /\ At(text, i + 1).c = "sym" THEN text[i].x \o text[i + 1].x ELSE ""
\* The first place from i on that is not of these classes.
EndOf(text, i, classes) ==
  CHOOSE j \in i .. Len(text) + 1 :
    At(text, j).c \notin classes /\ \A k \in i .. j - 1 : text[k].c \in classes

Token(kind, x, n, from, to) == [kind |-> kind, x |-> x, n |-> n, from |-> from, to |-> to]
Fault(code, from, to)       == [code |-> code, from |-> from, to |-> to]

Keywords == {"fn", "struct", "const", "let", "mut", "return", "if", "else", "while", "for",
             "in", "match", "break", "continue", "true", "false"}
ShortSymbols == {"+", "-", "*", "/", "%", "=", "!", "<", ">", ".", "(", ")", "{", "}", "[", "]",
                 ",", ";", ":"}
LongSymbols == {"+=", "->", "-=", "*=", "/=", "%=", "==", "=>", "!=", "<=", ">=", "&&", "||", ".."}

----------------------------------------------------------------------------
(* Trivia.                                                                 *)

\* Faulty variant: comments do not nest.
CommentEndFlat(text, i, depth) ==
  LET ends == {j \in i .. Len(text) - 1 : Two(text, j) = "*/"}
  IN IF ends = {} THEN [at |-> Len(text) + 1, open |-> TRUE]
     ELSE [at |-> (CHOOSE j \in ends : \A k \in ends : j <= k) + 2, open |-> FALSE]

RECURSIVE CommentEnd(_, _, _)
\* Where the comment ends that is `depth' deep at i, and whether it is still open.
CommentEnd(text, i, depth) ==
  IF depth = 0 \/ i > Len(text) THEN [at |-> i, open |-> depth > 0]
  ELSE CASE Two(text, i) = "/*" -> CommentEnd(text, i + 2, depth + 1)
         [] Two(text, i) = "*/" -> CommentEnd(text, i + 2, depth - 1)
         [] OTHER               -> CommentEnd(text, i + 1, depth)

LineEnd(text, i) ==
  CHOOSE j \in i .. Len(text) + 1 :
    At(text, j) \in {Newline, TheEnd} /\ \A k \in i .. j - 1 : text[k] # Newline

RECURSIVE SkipTrivia(_, _)
\* The next character that is none, and the comment that was never closed.
SkipTrivia(text, i) ==
  CASE At(text, i).c = "blank" -> SkipTrivia(text, i + 1)
    [] Two(text, i) = "//"     -> SkipTrivia(text, LineEnd(text, i))
    [] Two(text, i) = "/*"     ->
         LET end == CommentEnd(text, i + 2, 1)
         IN IF end.open
            THEN [at |-> end.at, errs |-> <<Fault("UnterminatedComment", i, end.at)>>]
            ELSE SkipTrivia(text, end.at)
    [] OTHER                   -> [at |-> i, errs |-> <<>>]

----------------------------------------------------------------------------
(* Tokens: what is scanned from i on is [toks, at, errs].                  *)

Scanned(toks, at, errs) == [toks |-> toks, at |-> at, errs |-> errs]

RECURSIVE Decimal(_, _)
Decimal(digits, k) == IF k = 0 THEN 0 ELSE 10 * Decimal(digits, k - 1) + digits[k].n

\* Faulty variant: a point after a number always belongs to it.
IsFloatGreedy(text, j) == At(text, j).x = "."

\* A point, and a digit after it.
IsFloat(text, j) == At(text, j).x = "." /\ At(text, j + 1).c = "digit"

\* An integer that does not fit is reported, and 0.
ScanNumber(text, i) ==
  LET j     == EndOf(text, i, {"digit"})
      k     == IF IsFloat(text, j) THEN EndOf(text, j + 1, {"digit"}) ELSE j
      whole == Decimal(SubSeq(text, i, j - 1), j - i)
      fits  == IsFloat(text, j) \/ whole <= MaxInt
  IN Scanned(<<CASE IsFloat(text, j) -> Token("Float", "", 10 * whole + text[j + 1].n, i, k)
                 [] fits             -> Token("Int", "", whole, i, k)
                 [] OTHER            -> Token("Int", "", 0, i, k)>>,
             k, IF fits THEN <<>> ELSE <<Fault("InvalidNumber", i, k)>>)

RECURSIVE Letters(_, _)
Letters(chars, k) == IF k = 0 THEN "" ELSE Letters(chars, k - 1) \o chars[k].x

ScanIdent(text, i) ==
  LET j == EndOf(text, i, {"word", "digit"})
      x == Letters(SubSeq(text, i, j - 1), j - i)
  IN Scanned(<<IF x \in Keywords THEN Token(x, "", 0, i, j) ELSE Token("Ident", x, 0, i, j)>>, j, <<>>)

\* What a backslash makes of the character after it.
Escapes == {<<"n", "LF">>, <<"t", "TAB">>, <<"r", "CR">>, <<"0", "NUL">>, <<"\\", "\\">>, <<"\"", "\"">>}
Escaped(x) == {e[2] : e \in {e \in Escapes : e[1] = x}}

\* The index of a content; 0 stands for one that is not in Texts.
TextIndex(value) ==
  IF \E k \in DOMAIN Texts : Texts[k] = value THEN CHOOSE k \in DOMAIN Texts : Texts[k] = value ELSE 0

RECURSIVE StringEnd(_, _, _, _)
\* The rest of a string literal, from i on: its content, its end, and its errors.
StringEnd(text, i, value, errs) ==
  LET c == At(text, i)
      e == At(text, i + 1)
  IN CASE c = TheEnd -> [value |-> value, at |-> i, errs |-> errs, open |-> TRUE]
       [] c.x = "\"" -> [value |-> value, at |-> i + 1, errs |-> errs, open |-> FALSE]
       [] c.x = "\\" /\ e = TheEnd -> StringEnd(text, i + 1, value, errs)
       [] c.x = "\\" /\ Escaped(e.x) # {} ->
            StringEnd(text, i + 2, Append(value, TheOne(Escaped(e.x))), errs)
       [] c.x = "\\" /\ Escaped(e.x) = {} /\ e # TheEnd ->
            StringEnd(text, i + 2, Append(value, e.x), Append(errs, Fault("InvalidEscape", i, i + 2)))
       [] OTHER -> StringEnd(text, i + 1, Append(value, c.x), errs)

ScanString(text, i) ==
  LET s == StringEnd(text, i + 1, <<>>, <<>>)
  IN Scanned(<<Token("Str", "", TextIndex(s.value), i, s.at)>>, s.at,
             IF s.open THEN Append(s.errs, Fault("UnterminatedString", i, s.at)) ELSE s.errs)

\* The longer symbol first; a character that is part of no token is skipped.
ScanSymbol(text, i) ==
  IF Two(text, i) \in LongSymbols THEN Scanned(<<Token(Two(text, i), "", 0, i, i + 2)>>, i + 2, <<>>)
  ELSE IF text[i].x \in ShortSymbols THEN Scanned(<<Token(text[i].x, "", 0, i, i + 1)>>, i + 1, <<>>)
  ELSE Scanned(<<>>, i + 1, <<Fault("UnexpectedChar", i, i + 1)>>)

ScanToken(text, i) ==
  CASE text[i].c = "digit" -> ScanNumber(text, i)
    [] text[i].c = "word"  -> ScanIdent(text, i)
    [] text[i].x = "\""    -> ScanString(text, i)
    [] OTHER               -> ScanSymbol(text, i)
=============================================================================
