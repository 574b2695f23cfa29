-------------------------------- MODULE Parser --------------------------------
(***************************************************************************)
(* The parser (parser/mod.rs): recursive descent, with precedence climbing *)
(* for the binary operators, and recovery.                                 *)
(*                                                                         *)
(* The state is a record: the tokens, which end with Eof, the cursor, the  *)
(* errors, struct_ok, the values of the production under way, and whether  *)
(* it has failed.  A rule is a tuple that begins with its name; Parse runs *)
(* it, and it appends its value to `vals' or fails: from then on nothing   *)
(* more is parsed until one of the two loops recovers, which is what `?'   *)
(* does in Rust.                                                           *)
(***************************************************************************)
EXTENDS Ast

ParserState(toks) ==
  [toks |-> toks, pos |-> 1, errs |-> <<>>, struct_ok |-> TRUE, vals |-> <<>>, failed |-> FALSE]

Cur(s)  == s.toks[s.pos]
Kind(s) == Cur(s).kind
AtEof(s) == Kind(s) = "Eof"
\* The kind of the token after the current one.
NextKind(s) == s.toks[IF s.pos = Len(s.toks) THEN s.pos ELSE s.pos + 1].kind

Bump(s)      == IF AtEof(s) THEN s ELSE [s EXCEPT !.pos = @ + 1]
Value(s, v)  == [s EXCEPT !.vals = Append(@, v)]
Report(s, code) == [s EXCEPT !.errs = Append(@, [code |-> code, at |-> s.pos])]
ErrorExpected(s) == Report(s, IF AtEof(s) THEN "UnexpectedEof" ELSE "UnexpectedToken")
Failed(s)    == [ErrorExpected(s) EXCEPT !.failed = TRUE]

Top(s) == s.vals[Len(s.vals)]

RECURSIVE Parse(_, _)

\* A production: its parts in order, which find the last n values, and its node.  One
\* that fails leaves the values as they were.
Made(s, n, parts, Build(_)) ==
  LET kept == SubSeq(s.vals, 1, Len(s.vals) - n)
      end(t) == [t EXCEPT !.vals = IF t.failed THEN s.vals ELSE Append(kept, Build(t.vals))]
  IN end(Steps(LAMBDA t, k : Parse(parts[k], t), Len(parts),
               [s EXCEPT !.vals = SubSeq(s.vals, Len(kept) + 1, Len(s.vals))]))

\* One rule after the other.
Both(r1, r2, s) == Parse(r2, Parse(r1, s))

----------------------------------------------------------------------------
(* The parts of productions.                                               *)

Expect(k, s) == IF Kind(s) = k THEN Bump(s) ELSE Failed(s)
\* A closing bracket whose absence is reported and tolerated.
ExpectSoft(k, s) == IF Kind(s) = k THEN Bump(s) ELSE ErrorExpected(s)

\* Faulty variant: the flag is not put back.
WithStructOkLeft(allowed, r, s) == Parse(r, [s EXCEPT !.struct_ok = allowed])

WithStructOk(allowed, r, s) ==
  [Parse(r, [s EXCEPT !.struct_ok = allowed]) EXCEPT !.struct_ok = s.struct_ok]

ParseIdent(s) == IF Kind(s) = "Ident" THEN Value(Bump(s), Cur(s).x) ELSE Failed(s)

\* `r' after a token k, or the value v.
ParseOptional(k, r, v, s) == IF Kind(s) = k THEN Parse(r, Bump(s)) ELSE Value(s, v)

Tok(k)        == <<"tok", k>>
Soft(k)       == <<"soft", k>>
Ident         == <<"ident">>
TypeR         == <<"type">>
Expr          == <<"expr">>
BlockR        == <<"block">>
Free(r)       == <<"struct_ok", TRUE, r>>
NoStruct(r)   == <<"struct_ok", FALSE, r>>
Optional(k, r, v) == <<"optional", k, r, v>>
List(close, r) == <<"list", close, r>>

----------------------------------------------------------------------------
(* Comma-separated lists: up to `close', or to an element that no comma    *)
(* follows.  Their value is [elems, comma].                                *)

\* The comma is optional after a match arm that ends in a brace.
MayGoOn(r, s) ==
  \/ Kind(s) = ","
  \/ r = <<"arm">> /\ Top(s).elems[Len(Top(s).elems)][2].kind \in {"If", "Match", "Block"}

ParseMore(close, r, s) ==
  IF Kind(s) \in {close, "Eof"} THEN s
  ELSE Parse(<<"next", close, r>>,
             Made(s, 1, <<r>>, LAMBDA v : [v[1] EXCEPT !.elems = Append(@, v[2])]))

ParseNext(close, r, s) ==
  IF ~ MayGoOn(r, s) THEN s
  ELSE IF Kind(s) = "," THEN Parse(<<"more", close, r>>, Bump(Made(s, 1, <<>>, LAMBDA v : [v[1] EXCEPT !.comma = TRUE])))
  ELSE Parse(<<"more", close, r>>, s)

ParseList(close, r, s) == ParseMore(close, r, Value(s, [elems |-> <<>>, comma |-> FALSE]))

----------------------------------------------------------------------------
(* Types.                                                                  *)

\* Never fails: a malformed type is reported and has a placeholder.
ParseType(s) ==
  CASE Kind(s) = "["     -> Made(s, 0, <<Tok("["), TypeR, Soft("]")>>, LAMBDA v : ArrayType(v[1]))
    [] Kind(s) = "("     -> Made(s, 0, <<Tok("("), List(")", TypeR), Soft(")")>>,
                                 LAMBDA v : IF Len(v[1].elems) = 1 THEN v[1].elems[1]
                                            ELSE TupleType(v[1].elems))
    [] Kind(s) = "Ident" -> Value(Bump(s), NamedType(Cur(s).x))
    [] OTHER             -> Value(Report(s, "ExpectedType"), Malformed)

ParseMember(s) == Made(s, 0, <<Ident, Tok(":"), TypeR>>, LAMBDA v : Member(v[1], v[2]))

----------------------------------------------------------------------------
(* Expressions.                                                            *)

BinaryTokens == [k \in {"||", "&&", "==", "!=", "<", "<=", ">", ">=", "+", "-", "*", "/", "%"} |->
  CASE k = "||" -> "Or"  [] k = "&&" -> "And" [] k = "==" -> "Eq"  [] k = "!=" -> "Ne"
    [] k = "<"  -> "Lt"  [] k = "<=" -> "Le"  [] k = ">"  -> "Gt"  [] k = ">=" -> "Ge"
    [] k = "+"  -> "Add" [] k = "-"  -> "Sub" [] k = "*"  -> "Mul" [] k = "/"  -> "Div"
    [] k = "%"  -> "Rem"]
CompoundTokens == [k \in {"+=", "-=", "*=", "/=", "%="} |->
  CASE k = "+=" -> "Add" [] k = "-=" -> "Sub" [] k = "*=" -> "Mul" [] k = "/=" -> "Div"
    [] k = "%=" -> "Rem"]

Level(op) == CASE op = "Or" -> 1 [] op = "And" -> 2 [] op \in {"Eq", "Ne"} -> 3
               [] op \in {"Lt", "Le", "Gt", "Ge"} -> 4 [] op \in {"Add", "Sub"} -> 5
               [] op \in {"Mul", "Div", "Rem"} -> 6

\* Faulty variant: right-associative.
BindingPowerRight(op) == [left |-> 2 * Level(op), right |-> 2 * Level(op)]

BindingPower(op) == [left |-> 2 * Level(op), right |-> 2 * Level(op) + 1]

\* What follows the left side of an assignment, which is right-associative.
ParseAssignment(s) ==
  CASE Kind(s) = "=" -> Made(s, 1, <<Tok("="), Expr>>, LAMBDA v : AssignExpr(v[1], v[2]))
    [] Kind(s) \in DOMAIN CompoundTokens ->
         Made(s, 1, <<Tok(Kind(s)), Expr>>, LAMBDA v : AssignOpExpr(v[1], CompoundTokens[Kind(s)], v[2]))
    [] OTHER -> s

\* The operators that bind at least as tightly as min_bp, after an operand.
ParseBinary(min_bp, s) ==
  IF Kind(s) \in DOMAIN BinaryTokens /\ BindingPower(BinaryTokens[Kind(s)]).left >= min_bp
  THEN Parse(<<"binary", min_bp>>,
             Made(s, 1, <<Tok(Kind(s)), <<"bp", BindingPower(BinaryTokens[Kind(s)]).right>>>>,
                  LAMBDA v : BinaryExpr(BinaryTokens[Kind(s)], v[1], v[2])))
  ELSE s

ParseUnary(s) ==
  CASE Kind(s) = "-" -> Made(s, 0, <<Tok("-"), <<"unary">>>>, LAMBDA v : UnaryExpr("Neg", v[1]))
    [] Kind(s) = "!" -> Made(s, 0, <<Tok("!"), <<"unary">>>>, LAMBDA v : UnaryExpr("Not", v[1]))
    [] OTHER         -> Both(<<"primary">>, <<"postfix">>, s)

\* Calls, indices and fields, which chain freely.
ParsePostfix(s) ==
  LET again(t) == Parse(<<"postfix">>, t)
  IN CASE Kind(s) = "(" -> again(Made(s, 1, <<Tok("("), List(")", Free(Expr)), Tok(")")>>,
                                      LAMBDA v : CallExpr(v[1], v[2].elems)))
       [] Kind(s) = "[" -> again(Made(s, 1, <<Tok("["), Free(Expr), Tok("]")>>,
                                      LAMBDA v : IndexExpr(v[1], v[2])))
       [] Kind(s) = "." /\ NextKind(s) = "Int" ->
            again(Made(s, 1, <<Tok("."), <<"int">>>>, LAMBDA v : TupleIndexExpr(v[1], v[2])))
       [] Kind(s) = "." /\ NextKind(s) # "Int" ->
            again(Made(s, 1, <<Tok("."), Ident>>, LAMBDA v : FieldExpr(v[1], v[2])))
       [] OTHER -> s

\* Faulty variant: a struct literal also where a block must follow.
StartsStructAlways(s) == NextKind(s) = "{"

StartsStruct(s) == s.struct_ok /\ NextKind(s) = "{"

ParseStructLit(s) ==
  Made(s, 0, <<Ident, Tok("{"), List("}", <<"field">>), Tok("}")>>,
       LAMBDA v : StructExpr(v[1], [k \in DOMAIN v[2].elems |-> v[2].elems[k][1]],
                                   [k \in DOMAIN v[2].elems |-> v[2].elems[k][2]]))
ParseField(s) == Made(s, 0, <<Ident, Tok(":"), Free(Expr)>>, LAMBDA v : v)

\* One element without a comma is only grouped.
ParseGrouping(s) ==
  Made(s, 0, <<Tok("("), List(")", Free(Expr)), Tok(")")>>,
       LAMBDA v : IF Len(v[1].elems) = 1 /\ ~ v[1].comma THEN v[1].elems[1] ELSE TupleExpr(v[1].elems))

ParseArrayLit(s) ==
  Made(s, 0, <<Tok("["), List("]", Free(Expr)), Tok("]")>>, LAMBDA v : ArrayExpr(v[1].elems))

ParseIf(s) ==
  Made(s, 0, <<Tok("if"), NoStruct(Expr), BlockR, Optional("else", <<"else">>, Absent)>>,
       LAMBDA v : IfExpr(v[1], v[2], v[3]))

ParsePattern(s) ==
  CASE Kind(s) = "Int"   -> Value(Bump(s), IntExpr(Cur(s).n))
    [] Kind(s) = "-"     -> Made(s, 0, <<Tok("-"), <<"int">>>>, LAMBDA v : IntExpr(-v[1]))
    [] Kind(s) = "true"  -> Value(Bump(s), BoolExpr(TRUE))
    [] Kind(s) = "false" -> Value(Bump(s), BoolExpr(FALSE))
    [] Kind(s) = "Ident" /\ Cur(s).x = "_" -> Value(Bump(s), Wild)
    [] OTHER             -> Failed(s)
ParseArm(s) == Made(s, 0, <<<<"pattern">>, Tok("=>"), Free(Expr)>>, LAMBDA v : v)
ParseMatch(s) ==
  Made(s, 0, <<Tok("match"), NoStruct(Expr), Tok("{"), List("}", <<"arm">>), Tok("}")>>,
       LAMBDA v : MatchExpr(v[1], [k \in DOMAIN v[2].elems |-> v[2].elems[k][1]],
                                  [k \in DOMAIN v[2].elems |-> v[2].elems[k][2]]))

ParsePrimary(s) ==
  CASE Kind(s) = "Int"   -> Value(Bump(s), IntExpr(Cur(s).n))
    [] Kind(s) = "Float" -> Value(Bump(s), FloatExpr(Cur(s).n))
    [] Kind(s) = "Str"   -> Value(Bump(s), StrExpr(Cur(s).n))
    [] Kind(s) = "true"  -> Value(Bump(s), BoolExpr(TRUE))
    [] Kind(s) = "false" -> Value(Bump(s), BoolExpr(FALSE))
    [] Kind(s) = "Ident" -> IF StartsStruct(s) THEN ParseStructLit(s)
                            ELSE Value(Bump(s), NameExpr(Cur(s).x))
    [] Kind(s) = "("     -> ParseGrouping(s)
    [] Kind(s) = "{"     -> Parse(BlockR, s)
    [] Kind(s) = "if"    -> Parse(<<"if">>, s)
    [] Kind(s) = "match" -> ParseMatch(s)
    [] Kind(s) = "["     -> ParseArrayLit(s)
    [] OTHER             -> Failed(s)

----------------------------------------------------------------------------
(* Blocks: a block under way is [stmts, tail].                             *)

ParseLet(s) ==
  Made(s, 0, <<Tok("let"), <<"flag", "mut">>, Ident, Optional(":", TypeR, NoType), Tok("="), Expr, Tok(";")>>,
       LAMBDA v : LetStmt(v[1], v[2], v[3], v[4]))
ParseReturn(s) ==
  Made(s, 0, <<Tok("return"), <<"unless", ";">>, Tok(";")>>, LAMBDA v : RetStmt(v[1]))
ParseWhile(s) ==
  Made(s, 0, <<Tok("while"), NoStruct(Expr), BlockR>>, LAMBDA v : WhileStmt(v[1], v[2]))
ParseFor(s) ==
  Made(s, 0, <<Tok("for"), Ident, Tok("in"), NoStruct(Expr), Optional("..", NoStruct(Expr), Absent), BlockR>>,
       LAMBDA v : IF IsAbsent(v[3]) THEN ForEachStmt(v[1], v[2], v[4])
                  ELSE ForStmt(v[1], v[2], v[3], v[4]))
ParseLoopJump(k, stmt, s) == Made(s, 0, <<Tok(k), Tok(";")>>, LAMBDA v : stmt)

IsBlockLike(e) == e.kind \in {"Block", "If"}

\* An expression is a statement, or the tail.
ParseElemEnd(s) ==
  LET stmt(parts) == Made(s, 1, parts, LAMBDA v : ExprStmt(v[1]))
  IN CASE Kind(s) = ";" -> stmt(<<Tok(";")>>)
       [] Kind(s) = "}" -> s
       [] Kind(s) \notin {";", "}"} /\ IsBlockLike(Top(s)) -> stmt(<<>>)
       [] OTHER -> Failed(s)

ParseElem(s) ==
  CASE Kind(s) = "let"      -> ParseLet(s)
    [] Kind(s) = "return"   -> ParseReturn(s)
    [] Kind(s) = "while"    -> ParseWhile(s)
    [] Kind(s) = "for"      -> ParseFor(s)
    [] Kind(s) = "break"    -> ParseLoopJump("break", BreakStmt, s)
    [] Kind(s) = "continue" -> ParseLoopJump("continue", ContinueStmt, s)
    [] OTHER                -> Both(Expr, <<"elem_end">>, s)

WithElem(block, e) ==
  IF e.kind \in StatementKinds THEN [block EXCEPT !.stmts = Append(@, e)] ELSE [block EXCEPT !.tail = e]

FirstOf(kinds, s) ==
  CHOOSE p \in s.pos .. Len(s.toks) :
    s.toks[p].kind \in kinds /\ \A q \in s.pos .. p - 1 : s.toks[q].kind \notin kinds

\* The guard of both loops: some token is skipped.
Onward(before, s) == IF s.pos = before THEN Bump(s) ELSE s

\* Past the next `;', or to a `}'.
RecoverInBlock(s) ==
  LET p == FirstOf({";", "}", "Eof"}, s)
  IN [s EXCEPT !.failed = FALSE, !.pos = IF s.toks[p].kind = ";" THEN p + 1 ELSE p]
AfterElem(before, s) == IF s.failed THEN Onward(before, RecoverInBlock(s)) ELSE s

ParseElems(s) ==
  IF Kind(s) \in {"}", "Eof"} THEN s
  ELSE Parse(<<"elems">>,
             AfterElem(s.pos, Made(s, 1, <<<<"elem">>>>, LAMBDA v : WithElem(v[1], v[2]))))

ParseBlock(s) ==
  Made(s, 0, <<Tok("{"), Free(<<"body">>), Soft("}")>>, LAMBDA v : BlockExpr(v[1].stmts, v[1].tail))

----------------------------------------------------------------------------
(* Items.                                                                  *)

ParseFn(s) ==
  Made(s, 0, <<Tok("fn"), Ident, Tok("("), List(")", <<"member">>), Tok(")"),
               Optional("->", TypeR, NoType), BlockR>>,
       LAMBDA v : FnItem(v[1], v[2].elems, v[3], v[4]))
ParseConst(s) ==
  Made(s, 0, <<Tok("const"), Ident, Tok(":"), TypeR, Tok("="), Expr, Tok(";")>>,
       LAMBDA v : ConstItem(v[1], v[2], v[3]))
ParseStruct(s) ==
  Made(s, 0, <<Tok("struct"), Ident, Tok("{"), List("}", <<"member">>), Tok("}")>>,
       LAMBDA v : StructItem(v[1], v[2].elems))

ParseItem(s) ==
  CASE Kind(s) = "fn"     -> ParseFn(s)
    [] Kind(s) = "const"  -> ParseConst(s)
    [] Kind(s) = "struct" -> ParseStruct(s)
    [] OTHER              -> Failed(s)

\* Faulty variant: only a function is a place to go on at.
RecoverToItemFn(s) == [s EXCEPT !.failed = FALSE, !.pos = FirstOf({"fn", "Eof"}, s)]

\* To the next function or constant.
RecoverToItem(s) == [s EXCEPT !.failed = FALSE, !.pos = FirstOf({"fn", "const", "Eof"}, s)]

\* Faulty variant: the search begins where the item does.
AfterItemAgain(before, s) == IF s.failed THEN RecoverToItem([s EXCEPT !.pos = before]) ELSE s

AfterItem(before, s) == IF s.failed THEN Onward(before, RecoverToItem(s)) ELSE s

----------------------------------------------------------------------------
\* Runs a rule, unless the production has failed.
Parse(r, s) ==
  IF s.failed THEN s
  ELSE CASE r[1] = "tok"       -> Expect(r[2], s)
         [] r[1] = "soft"      -> ExpectSoft(r[2], s)
         [] r[1] = "ident"     -> ParseIdent(s)
         [] r[1] = "int"       -> IF Kind(s) = "Int" THEN Value(Bump(s), Cur(s).n) ELSE Failed(s)
         [] r[1] = "flag"      -> IF Kind(s) = r[2] THEN Value(Bump(s), TRUE) ELSE Value(s, FALSE)
         [] r[1] = "unless"    -> IF Kind(s) = r[2] THEN Value(s, Absent) ELSE Parse(Expr, s)
         [] r[1] = "optional"  -> ParseOptional(r[2], r[3], r[4], s)
         [] r[1] = "struct_ok" -> WithStructOk(r[2], r[3], s)
         [] r[1] = "list"      -> ParseList(r[2], r[3], s)
         [] r[1] = "more"      -> ParseMore(r[2], r[3], s)
         [] r[1] = "next"      -> ParseNext(r[2], r[3], s)
         [] r[1] = "type"      -> ParseType(s)
         [] r[1] = "member"    -> ParseMember(s)
         [] r[1] = "expr"      -> Both(<<"bp", 0>>, <<"assignment">>, s)
         [] r[1] = "assignment" -> ParseAssignment(s)
         [] r[1] = "bp"        -> Both(<<"unary">>, <<"binary", r[2]>>, s)
         [] r[1] = "binary"    -> ParseBinary(r[2], s)
         [] r[1] = "unary"     -> ParseUnary(s)
         [] r[1] = "primary"   -> ParsePrimary(s)
         [] r[1] = "postfix"   -> ParsePostfix(s)
         [] r[1] = "field"     -> ParseField(s)
         [] r[1] = "arm"       -> ParseArm(s)
         [] r[1] = "pattern"   -> ParsePattern(s)
         [] r[1] = "if"        -> ParseIf(s)
         [] r[1] = "else"      -> IF Kind(s) = "if" THEN ParseIf(s) ELSE ParseBlock(s)
         [] r[1] = "block"     -> ParseBlock(s)
         [] r[1] = "body"      -> ParseElems(Value(s, [stmts |-> <<>>, tail |-> Absent]))
         [] r[1] = "elems"     -> ParseElems(s)
         [] r[1] = "elem"      -> ParseElem(s)
         [] r[1] = "elem_end"  -> ParseElemEnd(s)
         [] r[1] = "item"      -> ParseItem(s)
=============================================================================
