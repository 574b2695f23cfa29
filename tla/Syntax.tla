------------------------------- MODULE Syntax --------------------------------
(***************************************************************************)
(* From a text to a syntax tree and back, as `lumenc fmt' does it: the     *)
(* lexer and the parser, each a loop whose turns are the steps here, the   *)
(* formatter if there is no error, and then both again on its text.        *)
(***************************************************************************)
EXTENDS Parser, Formatter, FiniteSets

\* What is read: [text, keeps].  `keeps' are the items that must be found in it,
\* whatever stands between them.
CONSTANT Sources

VARIABLES
  source,    \* the source, which nothing changes
  round,     \* 1 for its text, 2 for the formatted text
  phase,     \* the loop that runs
  text,      \* what it reads
  at,        \* Lexer::pos
  toks,      \* the tokens so far
  faults,    \* the lexical errors
  ps,        \* the parser
  first      \* the tokens and the items of the first round

syntaxVars == <<source, round, phase, text, at, toks, faults, ps, first>>

Nothing == ParserState(<<Token("Eof", "", 0, 1, 1)>>)

SyntaxInit ==
  /\ source \in Sources
  /\ round = 1 /\ phase = "lex"
  /\ text = source.text /\ at = 1
  /\ toks = <<>> /\ faults = <<>>
  /\ ps = Nothing
  /\ first = [toks |-> <<>>, items |-> <<>>]

Errors    == faults \o ps.errs
HasErrors == Errors # <<>>

----------------------------------------------------------------------------

\* A turn of Lexer::run, which finds a token or a stray character.
LexTurn ==
  LET trivia == SkipTrivia(text, at)
      s      == ScanToken(text, trivia.at)
  IN /\ phase = "lex" /\ trivia.at <= Len(text)
     /\ toks' = toks \o s.toks
     /\ at' = s.at
     /\ faults' = faults \o trivia.errs \o s.errs
     /\ UNCHANGED <<source, round, phase, text, ps, first>>

LexEnd ==
  LET trivia == SkipTrivia(text, at)
  IN /\ phase = "lex" /\ trivia.at > Len(text)
     /\ toks' = Append(toks, Token("Eof", "", 0, trivia.at, trivia.at))
     /\ at' = trivia.at
     /\ faults' = faults \o trivia.errs
     /\ phase' = "parse"
     /\ ps' = ParserState(toks')
     /\ UNCHANGED <<source, round, text, first>>

\* A turn of Parser::parse_program.
ParseTurn ==
  /\ phase = "parse" /\ ~ AtEof(ps)
  /\ ps' = AfterItem(ps.pos, Parse(<<"item">>, ps))
  /\ UNCHANGED <<source, round, phase, text, at, toks, faults, first>>

ParseEnd ==
  /\ phase = "parse" /\ AtEof(ps)
  /\ phase' = IF HasErrors THEN "rejected" ELSE IF round = 1 THEN "format" ELSE "done"
  /\ UNCHANGED <<source, round, text, at, toks, faults, ps, first>>

Format ==
  /\ phase = "format"
  /\ first' = [toks |-> toks, items |-> ps.vals]
  /\ text' = FormatSource(ps.vals)
  /\ round' = 2 /\ phase' = "lex" /\ at' = 1
  /\ toks' = <<>> /\ ps' = Nothing
  /\ UNCHANGED <<source, faults>>

SyntaxNext == LexTurn \/ LexEnd \/ ParseTurn \/ ParseEnd \/ Format

SyntaxSpec == SyntaxInit /\ [][SyntaxNext]_syntaxVars

----------------------------------------------------------------------------
(* What is correct.                                                        *)

\* The cursors stay in what they read, which ends with the only Eof; between items no
\* production is under way, and a struct literal is allowed: the flag that the parser
\* saves and restores by hand is back wherever an error left the production that set it.
SyntaxTypeOK ==
  /\ round \in {1, 2} /\ phase \in {"lex", "parse", "format", "rejected", "done"}
  /\ at \in 1 .. Len(text) + 1
  /\ ps.pos \in DOMAIN ps.toks
  /\ \A k \in DOMAIN ps.toks : ps.toks[k].kind = "Eof" <=> k = Len(ps.toks)
  /\ ps.struct_ok /\ ~ ps.failed
  /\ \A k \in DOMAIN ps.vals : ps.vals[k].kind \in {"Fn", "Const", "Struct"}

\* The classes of characters in a part of the text.
Classes(from, to) == {text[i].c : i \in from .. to - 1}
Occurs(x, from, to) ==
  Cardinality({i \in from .. to - Len(x) : Letters(SubSeq(text, i, i + Len(x) - 1), Len(x)) = x})

\* A token is what its characters say, and could not be longer.
Spells(t) ==
  CASE t.kind = "Int"   -> /\ Classes(t.from, t.to) = {"digit"} /\ At(text, t.to).c # "digit"
                           /\ ~ (At(text, t.to).x = "." /\ At(text, t.to + 1).c = "digit")
    [] t.kind = "Float" -> /\ At(text, t.from).c = "digit" /\ At(text, t.to - 1).c = "digit"
                           /\ At(text, t.to).c # "digit"
                           /\ \E i \in t.from .. t.to - 1 : text[i] = Sym(".")
    [] t.kind = "Str"   -> At(text, t.from).x = "\"" /\ At(text, t.to - 1).x = "\""
    [] t.kind \in DOMAIN Spelling ->
                           /\ SubSeq(text, t.from, t.to - 1) = Spelling[t.kind]
                           /\ Len(Spelling[t.kind]) = 1 => Two(text, t.from) \notin LongSymbols
    [] OTHER            -> /\ At(text, t.from).c = "word" /\ Classes(t.from, t.to) \subseteq {"word", "digit"}
                           /\ At(text, t.to).c \notin {"word", "digit"}

\* Between tokens there are blanks and comments, whose brackets match.
IsTrivia(from, to) ==
  /\ \A i \in from .. to - 1 :
       text[i].c = "blank" \/ \E j \in from .. i : Two(text, j) \in {"//", "/*"}
  /\ Occurs("//", from, to) + Occurs("/*/", from, to) + Occurs("*/*", from, to) = 0 =>
       Occurs("/*", from, to) = Occurs("*/", from, to)

\* Unless there was an error, every character belongs to the token that it must belong
\* to, or to a comment that ends where its nesting does (lexer/mod.rs: the longest match,
\* the point that is no part of a number, nested comments).
TokensAreTheText ==
  phase = "parse" /\ ps.pos = 1 /\ faults = <<>> =>
    \A k \in DOMAIN toks :
      /\ k < Len(toks) => Spells(toks[k])
      /\ IsTrivia(IF k = 1 THEN 1 ELSE toks[k - 1].to, toks[k].from)

----------------------------------------------------------------------------
(* The formatter.                                                          *)

OperandKinds == {"Unary", "Binary", "Call", "Index", "Field", "TupleIndex"}

RECURSIVE ShowsStruct(_)
\* A struct literal that no bracket hides from the start or the end of a condition.
ShowsStruct(e) ==
  \/ e.kind = "StructLit"
  \/ e.kind \in {"Unary", "Binary", "Assign", "AssignOp"} /\ \E k \in DOMAIN e.kids : ShowsStruct(e.kids[k])
  \/ e.kind \in {"Call", "Index", "Field", "TupleIndex"} /\ ShowsStruct(e.kids[1])

\* What the formatter is known to write wrongly.
Lossy(e) ==
  \/ e.kind = "TupleLit" /\ Len(e.kids) = 1
  \/ e.kind = "TupleIndex" /\ e.kids[1].kind \in {"TupleIndex", "Int"}
  \/ e.kind \in {"Call", "Index", "Field", "TupleIndex"} /\ e.kids[1].kind = "Unary"
  \/ e.kind \in {"Unary", "Binary"} /\ \E k \in DOMAIN e.kids : e.kids[k].kind \in {"Assign", "AssignOp"}
  \/ e.kind \in OperandKinds \cup {"Assign", "AssignOp"} /\ e.kids[1].kind \in {"Assign", "AssignOp"}
  \/ e.kind \in {"If", "Match", "While"} /\ ShowsStruct(e.kids[1])
  \/ e.kind \in {"For", "ForEach"} /\ \E k \in 1 .. Len(e.kids) - 1 : ShowsStruct(e.kids[k])
  \/ e.kind = "Str" /\ \E k \in DOMAIN Texts[e.n] : Texts[e.n][k] = "FF"

IsLossy(items) == \E i \in DOMAIN items : \E n \in Nodes(items[i].body, <<>>) : Lossy(n.e)

\* What `lumenc fmt' writes is accepted again, and is the same program, but for the
\* losses above.
RoundTrips ==
  round = 2 /\ ~ IsLossy(first.items) =>
    /\ phase # "rejected"
    /\ phase = "done" => ps.vals = first.items

\* What format.rs says of all programs (format.rs:5-12): its output is accepted, and
\* formatting it again changes nothing.
AlwaysReparses ==
  round = 2 => /\ phase # "rejected"
               /\ phase = "done" => FormatSource(ps.vals) = text

\* Without the parentheses, commas and semicolons.
Skeleton(ts) ==
  LET kept == SelectSeq(ts, LAMBDA t : t.kind \notin {"(", ")", ",", ";", "Eof"})
  IN [k \in DOMAIN kept |-> [kind |-> kept[k].kind, x |-> kept[k].x, n |-> kept[k].n]]
Parens(ts) == Cardinality({k \in DOMAIN ts : ts[k].kind = "("})

\* The formatter changes the layout, and leaves out parentheses that mean nothing: every
\* token of an accepted program is in its tree, which has the structure that the
\* program's own parentheses give it.
FormattingOnlyTidies ==
  round = 2 /\ phase = "done" /\ ~ IsLossy(first.items) =>
    /\ Skeleton(toks) = Skeleton(first.toks)
    /\ Parens(toks) <= Parens(first.toks)

----------------------------------------------------------------------------
(* Recovery.                                                               *)

InOrder(these, seq) ==
  these = SelectSeq(seq, LAMBDA it : \E k \in DOMAIN these : these[k] = it)

\* An error in one item costs no other function and no other constant: recovery neither
\* skips them nor takes anything from them (parser/mod.rs: the next item at top level).
ItemsStandAlone ==
  round = 1 /\ phase \in {"rejected", "format"} =>
    InOrder(SelectSeq(source.keeps, LAMBDA it : it.kind # "Struct"), ps.vals)

\* Every turn of a loop takes something from its input, so that it ends (parser/mod.rs:
\* the progress guard).
AlwaysForward ==
  [][phase' = phase => (phase = "lex" /\ at' > at) \/ (phase = "parse" /\ ps'.pos > ps.pos)]_syntaxVars
=============================================================================
