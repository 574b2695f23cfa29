------------------------------ MODULE Formatter ------------------------------
(***************************************************************************)
(* The formatter (format.rs): a syntax tree as a text, with the            *)
(* parentheses that the precedence of its operators asks for.  A line      *)
(* break with its indentation is one blank.                                *)
(***************************************************************************)
EXTENDS Ast, Lexer

LOCAL INSTANCE SequencesExt

\* The characters of a symbol.
Spelling ==
  LET chars == ShortSymbols \cup {"&", "|"}
  IN [x \in ShortSymbols \cup LongSymbols |->
        IF x \in ShortSymbols THEN <<Sym(x)>>
        ELSE LET p == CHOOSE p \in chars \X chars : p[1] \o p[2] = x IN <<Sym(p[1]), Sym(p[2])>>]

S(x)    == Spelling[x]
W(x)    == <<Word(x)>>
Kw(x)   == <<Word(x), Blank>>
Gap(x)  == <<Blank>> \o S(x) \o <<Blank>>
Commas(texts) ==
  FlattenSeq([k \in 1 .. 2 * Len(texts) - 1 |->
    IF k % 2 = 1 THEN texts[(k + 1) \div 2] ELSE S(",") \o <<Blank>>])
Ending(texts, end) == FlattenSeq([k \in DOMAIN texts |-> texts[k] \o end])
InParens(needed, text) == IF needed THEN S("(") \o text \o S(")") ELSE text
InBraces(text) == S("{") \o <<Blank>> \o text \o <<Blank>> \o S("}")

----------------------------------------------------------------------------
(* Literals and types.                                                     *)

RECURSIVE Digits(_)
Digits(n) == (IF n < 10 THEN <<>> ELSE Digits(n \div 10)) \o <<Digit(n % 10)>>

Signed(n) == IF n < 0 THEN S("-") \o Digits(-n) ELSE Digits(n)

\* Faulty variant: a whole number is written without its point.
FloatTextWhole(f) == Digits(f \div 10) \o IF f % 10 = 0 THEN <<>> ELSE <<Sym("."), Digit(f % 10)>>

FloatText(f) == Digits(f \div 10) \o <<Sym("."), Digit(f % 10)>>

\* A character of a string as Rust's Debug writes it; \u{..} is one the lexer has no
\* escape for.
DebugEscape(x) ==
  LET own == {e \in Escapes : e[2] = x}
  IN CASE own # {}  -> <<Sym("\\"), Sym(TheOne(own)[1])>>
       [] x = "FF"  -> <<Sym("\\"), Word("u"), Sym("{"), Word("c"), Sym("}")>>
       [] OTHER     -> <<Sym(x)>>
StrText(k) ==
  <<Sym("\"")>> \o FlattenSeq([i \in DOMAIN Texts[k] |-> DebugEscape(Texts[k][i])]) \o <<Sym("\"")>>

RECURSIVE TypeText(_)
TypeText(ty) ==
  CASE ty.kind = "Named" -> W(ty.name)
    [] ty.kind = "Array" -> S("[") \o TypeText(ty.of[1]) \o S("]")
    [] ty.kind = "Tuple" -> S("(") \o Commas([k \in DOMAIN ty.of |-> TypeText(ty.of[k])]) \o S(")")
    [] ty.kind = "Error" -> <<Sym("?")>>
\* An annotation, if there is one.
TypeAfter(x, ty) == IF ty = NoType THEN <<>> ELSE S(x) \o <<Blank>> \o TypeText(ty)

MemberText(m) == W(m.name) \o TypeAfter(":", m.ty)
MemberTexts(ms) == [k \in DOMAIN ms |-> MemberText(ms[k])]

PatternText(p) ==
  CASE p.kind = "Int"  -> Signed(p.n)
    [] p.kind = "Bool" -> W(IF p.n = 1 THEN "true" ELSE "false")
    [] p.kind = "Wild" -> W("_")

----------------------------------------------------------------------------
(* Expressions, statements and blocks.                                     *)

OpSymbol(op) ==
  CASE op = "Or" -> "||" [] op = "And" -> "&&" [] op = "Eq"  -> "==" [] op = "Ne"  -> "!="
    [] op = "Lt" -> "<"  [] op = "Le"  -> "<=" [] op = "Gt"  -> ">"  [] op = "Ge"  -> ">="
    [] op = "Add" -> "+" [] op = "Sub" -> "-"  [] op = "Mul" -> "*"  [] op = "Div" -> "/"
    [] op = "Rem" -> "%" [] op = "Neg" -> "-"  [] op = "Not" -> "!"

Precedence(op) == CASE op = "Or" -> 1 [] op = "And" -> 2 [] op \in {"Eq", "Ne"} -> 3
                    [] op \in {"Lt", "Le", "Gt", "Ge"} -> 4 [] op \in {"Add", "Sub"} -> 5
                    [] op \in {"Mul", "Div", "Rem"} -> 6

\* Faulty variant: the right operand as if the operators were associative.
RightPrecSame(op) == Precedence(op)

RightPrec(op) == Precedence(op) + 1

RECURSIVE Text(_, _)

Tops(es) == [k \in DOMAIN es |-> Text(es[k], 0)]

Text(e, parent) ==
  LET kid(k) == Text(e.kids[k], 0)
      base   == Text(e.kids[1], 8)
      rest   == Tail(e.kids)
  IN
  CASE e.kind = "Int"      -> Signed(e.n)
    [] e.kind = "Float"    -> FloatText(e.n)
    [] e.kind = "Bool"     -> PatternText(e)
    [] e.kind = "Str"      -> StrText(e.n)
    [] e.kind = "Name"     -> W(e.x)
    [] e.kind = "Unary"    -> S(OpSymbol(e.x)) \o Text(e.kids[1], 7)
    [] e.kind = "Binary"   ->
         InParens(Precedence(e.x) < parent,
                  Text(e.kids[1], Precedence(e.x)) \o Gap(OpSymbol(e.x)) \o Text(e.kids[2], RightPrec(e.x)))
    [] e.kind = "Call"     -> base \o S("(") \o Commas(Tops(rest)) \o S(")")
    [] e.kind = "Index"    -> base \o S("[") \o kid(2) \o S("]")
    [] e.kind = "Field"    -> base \o S(".") \o W(e.x)
    [] e.kind = "TupleIndex" -> base \o S(".") \o Digits(e.n)
    [] e.kind = "ArrayLit" -> S("[") \o Commas(Tops(e.kids)) \o S("]")
    [] e.kind = "TupleLit" -> S("(") \o Commas(Tops(e.kids)) \o S(")")
    [] e.kind = "Assign"   -> kid(1) \o Gap("=") \o kid(2)
    [] e.kind = "AssignOp" -> kid(1) \o <<Blank>> \o S(OpSymbol(e.x)) \o S("=") \o <<Blank>> \o kid(2)
    [] e.kind = "StructLit" ->
         Kw(e.x) \o InBraces(Commas([k \in DOMAIN e.tags |-> W(e.tags[k]) \o S(":") \o <<Blank>> \o kid(k)]))
    [] e.kind = "If"       ->
         Kw("if") \o kid(1) \o <<Blank>> \o kid(2)
         \o IF IsAbsent(e.kids[3]) THEN <<>> ELSE <<Blank>> \o Kw("else") \o kid(3)
    [] e.kind = "Match"    ->
         Kw("match") \o kid(1) \o <<Blank>>
         \o InBraces(Ending([k \in DOMAIN e.tags |-> PatternText(e.tags[k]) \o Gap("=>") \o kid(k + 1)], S(",")))
    [] e.kind = "Block"    ->
         InBraces(Ending([k \in DOMAIN e.kids |-> IF IsAbsent(e.kids[k]) THEN <<>> ELSE kid(k)], <<Blank>>))
    [] e.kind = "Let"      ->
         Kw("let") \o (IF e.n = 1 THEN Kw("mut") ELSE <<>>) \o W(e.x) \o TypeAfter(":", e.ann)
         \o Gap("=") \o kid(1) \o S(";")
    [] e.kind = "Expr"     -> kid(1) \o S(";")
    [] e.kind = "Return"   ->
         W("return") \o (IF IsAbsent(e.kids[1]) THEN <<>> ELSE <<Blank>> \o kid(1)) \o S(";")
    [] e.kind = "While"    -> Kw("while") \o kid(1) \o <<Blank>> \o kid(2)
    [] e.kind = "For"      ->
         Kw("for") \o Kw(e.x) \o Kw("in") \o kid(1) \o S("..") \o kid(2) \o <<Blank>> \o kid(3)
    [] e.kind = "ForEach"  -> Kw("for") \o Kw(e.x) \o Kw("in") \o kid(1) \o <<Blank>> \o kid(2)
    [] e.kind = "Break"    -> W("break") \o S(";")
    [] e.kind = "Continue" -> W("continue") \o S(";")

----------------------------------------------------------------------------
(* Items.                                                                  *)

ItemText(it) ==
  CASE it.kind = "Fn"     ->
         Kw("fn") \o W(it.name) \o S("(") \o Commas(MemberTexts(it.members)) \o S(")")
         \o (IF it.ty = NoType THEN <<>> ELSE Gap("->") \o TypeText(it.ty)) \o <<Blank>> \o Text(it.body, 0)
    [] it.kind = "Const"  ->
         Kw("const") \o W(it.name) \o TypeAfter(":", it.ty) \o Gap("=") \o Text(it.body, 0) \o S(";")
    [] it.kind = "Struct" ->
         Kw("struct") \o Kw(it.name) \o InBraces(Ending(MemberTexts(it.members), S(",")))

FormatSource(items) == Ending([k \in DOMAIN items |-> ItemText(items[k])], <<Newline>>)
=============================================================================
