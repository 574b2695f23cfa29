------------------------------- MODULE MCSyntax ------------------------------
(***************************************************************************)
(* What is read: programs whose items have one token too few, too many or  *)
(* wrong; expressions in every place an expression can stand; statements   *)
(* in a row; and every short text of the characters that are hard to lex.  *)
(***************************************************************************)
EXTENDS Syntax

MCTexts == << <<>>, <<"s">>, <<"\"", "LF", "a", "\\">>, <<"FF", "1">> >>

CharOf(x) ==
  CASE x \in {"0", "1", "2", "3", "4", "5", "6", "7", "8", "9"} ->
         Digit(CHOOSE d \in 0 .. 9 : Digit(d).x = x)
    [] x = " "  -> Blank
    [] x = "\n" -> Newline
    [] x = "\f" -> Sym("FF")
    [] x \in ShortSymbols \cup {"&", "|", "\"", "\\", "@"} -> Sym(x)
    [] OTHER    -> Word(x)
\* A text from a string of this module (the concatenation makes TLC compute it once).
Chars(str) == <<>> \o [i \in 1 .. Len(str) |-> CharOf(SubSeq(str, i, i))]

RECURSIVE AllTokens(_, _)
AllTokens(txt, i) ==
  LET trivia == SkipTrivia(txt, i)
  IN IF trivia.at > Len(txt) THEN <<>>
     ELSE LET s == ScanToken(txt, trivia.at) IN s.toks \o AllTokens(txt, s.at)
\* The item that a text without errors is.
Alone(txt) == Parse(<<"item">>, ParserState(Append(AllTokens(txt, 1), Token("Eof", "", 0, 1, 1)))).vals[1]

TokenSet(ts) == {ts[k] : k \in DOMAIN ts}

Source(txt, keeps) == [text |-> txt, keeps |-> keeps]

----------------------------------------------------------------------------
(* Programs of three items, of which one is damaged.                       *)

Items == <<
  "const K: i64 = -(1 + 2) * 3;",
  "struct P { x: i64, y: [(bool, f64)] }",
  "fn f(a: i64, b: P) -> i64 { let mut c: i64 = a; while c < b.x { c += K; if c == 7 { break; } } c }",
  "fn g() { for i in 0..4 { p(i); continue; } for e in [1, 2] { match e { 1 => { p(2) } _ => p(-e), } } return; }",
  "fn h() { let q = P { x: f(1, q).t[0], y: (1, 2.5) }; if !(q.x > 1) && t.0 { q.x = 2 } else { } }"
>>
Written   == <<>> \o [k \in DOMAIN Items |-> Chars(Items[k])]
Orders    == {<<1, 2, 3>>, <<4, 1, 5>>, <<2, 5, 4>>, <<3, 2, 1>>}
Damages   == {<<1, 3, 2>>, <<2, 4, 1>>, <<3, 5, 4>>, <<4, 1, 5>>, <<5, 2, 3>>}

\* The items, as texts, sets of tokens and trees.
Library(texts) ==
  [texts |-> texts,
   toks  |-> <<>> \o [k \in DOMAIN texts |-> TokenSet(AllTokens(texts[k], 1))],
   trees |-> <<>> \o [k \in DOMAIN texts |-> Alone(texts[k])]]

Program(texts, trees) == Source(texts[1] \o <<Newline>> \o texts[2] \o <<Newline>> \o texts[3], trees)

Whole(lib) ==
  {Program([k \in 1 .. 3 |-> lib.texts[ks[k]]], [k \in 1 .. 3 |-> lib.trees[ks[k]]]) : ks \in Orders}

\* A text with a piece in place of a token, or before it.
Wrong == {"", ";", ",", "(", "{ }", "let", "if", "fn", "struct", "=", "1", "@"}
Slip(txt, piece, from, to) ==
  SubSeq(txt, 1, from - 1) \o <<Blank>> \o piece \o <<Blank>> \o SubSeq(txt, to, Len(txt))
Slips(txt, ts) ==
  UNION {{Slip(txt, piece, t.from, t.from) : t \in ts}
         \cup {Slip(txt, piece, t.from, t.to) : t \in {t \in ts : t.kind \notin {"{", "}"}}} :
           piece \in {Chars(w) : w \in Wrong}}

\* The item in the middle is damaged; the others are kept.
Damaged(lib) ==
  UNION {{Program(<<lib.texts[ks[1]], d, lib.texts[ks[3]]>>, <<lib.trees[ks[1]], lib.trees[ks[3]]>>) :
            d \in Slips(lib.texts[ks[2]], lib.toks[ks[2]])} : ks \in Damages}

\* The sets of one value make TLC compute it once.
Programs == UNION {Whole(lib) \cup Damaged(lib) : lib \in {Library(texts) : texts \in {Written}}}

----------------------------------------------------------------------------
(* Expressions, in every place an expression stands.                       *)

Atoms == {"a", "12", "1.5", "\"s\"", "true", "f()", "f(a, 1,)", "v[0]", "p.x", "t.0", "(a)", "{ a }", "{ }",
          "if a { 1 } else { 2 }", "match a { 1 => { 2 } -2 => 3, _ => 4 }", "P { x: 1, y: a }",
          "[]", "[1, 2]", "(1, a)", "()", "(1,)", "-a", "!a", "(a = 1)", "-1", "\"\\\"\\na\\\\\"", "\"\f1\""}
Ops   == {"||", "==", "<", "-", "*"}
Pairs == {x \o " " \o op \o " " \o y : x \in Atoms, y \in Atoms, op \in {"-", "=", "+="}}
Trees == UNION {{"a " \o o1 \o " b " \o o2 \o " c", "(a " \o o1 \o " b) " \o o2 \o " c",
                 "a " \o o1 \o " (b " \o o2 \o " c)", "-(a " \o o1 \o " b)" \o o2 \o "c.0",
                 "!a " \o o1 \o "-b[1 " \o o2 \o " 2]", "(a " \o o1 \o " b)(a " \o o2 \o " c)"} :
                o1 \in Ops, o2 \in Ops}
Postfix == {"(" \o x \o ")" \o y : x \in Atoms, y \in {"(1)", "[0]", ".x", ".0", ".0.1", ".x.1"}}
             \cup {x \o y : x \in Atoms, y \in {"(1)", "[0]", ".x", ".0"}}

Places(e) == {"let mut r: (i64, [P]) = " \o e \o ";", "return " \o e \o ";", e \o ";", e, "f(" \o e \o ", " \o e \o ")",
              "if " \o e \o " { } else if " \o e \o " { }", "while " \o e \o " { }",
              "for i in " \o e \o ".." \o e \o " { }", "for i in " \o e \o " { break; }",
              "match " \o e \o " { _ => " \o e \o " }"}

After == FnItem("z", <<>>, NoType, BlockExpr(<<>>, Absent))
InMain(str) == Source(Chars("fn m() { " \o str \o " } fn z() { }"), <<After>>)

Expressions ==
  {InMain("a = " \o e) : e \in Pairs \cup Trees \cup Postfix}
  \cup {InMain(p) : p \in UNION {Places(e) : e \in Atoms}}

\* The second part of the first part of a tuple.
NestedTuple == {InMain("(t.0).1")}

----------------------------------------------------------------------------
(* Statements in a row, with comments between them.                        *)

Stmts == {"a;", "a", "if a { }", "if a { 1 } else { }", "{ a }", "(a);", "-a;", "[a];", "match a { _ => 1 }",
          "let a = 1;", "return;", "while a { }", "P { };", "a = 1 }", ";", "else { }", "fn"}
Between == {" ", " /* /* ; */ } */ "}

Rows ==
  {InMain(x \o y \o z) : x \in Stmts, y \in Between, z \in Stmts}
  \cup {InMain(x \o " " \o y \o " // } a /*\n " \o z) : x \in Stmts, y \in Stmts, z \in {"a;", "-a", "{ a }"}}

----------------------------------------------------------------------------
(* Characters.                                                             *)

Hard == {Sym("/"), Sym("*"), Sym("\""), Sym("\\"), Digit(1), Sym("."), Sym("="), Word("a"), Newline}
Scribbles ==
  {Source(txt, <<>>) : txt \in UNION {[1 .. n -> Hard] : n \in 0 .. 3}}
  \cup {Source(<<Sym(x)>> \o txt, <<>>) : x \in {"/", "\""}, txt \in [1 .. 3 -> Hard]}

MCSources == Programs \cup Expressions \cup Rows \cup Scribbles
=============================================================================
