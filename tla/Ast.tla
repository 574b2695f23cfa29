--------------------------------- MODULE Ast ---------------------------------
(***************************************************************************)
(* The syntax tree (parser/ast.rs), as the parser hands it to the semantic *)
(* phases.                                                                 *)
(*                                                                         *)
(* Every node is a record [kind, x, n, ann, tags, kids].  `x' is a name or *)
(* an operator; `n' a literal, an index or, for a let, 1 if it is mutable; *)
(* `ann' a written type; `tags' the field names of a struct literal or the *)
(* patterns of a match; `kids' the children in the order of the Rust       *)
(* fields, with Absent for one that is not there.  The last kid of a block *)
(* is its tail.                                                            *)
(*                                                                         *)
(* A NodeId is the path of a node: the number of its item, then the        *)
(* positions of the children on the way down.  Parameter k of item i is    *)
(* <<i, -k>>.                                                              *)
(***************************************************************************)
EXTENDS Integers, Sequences

----------------------------------------------------------------------------
(* Written types.                                                          *)

TypeExpr(kind, name, of) == [kind |-> kind, name |-> name, of |-> of]

NamedType(name) == TypeExpr("Named", name, <<>>)
ArrayType(elem)  == TypeExpr("Array", "", <<elem>>)
TupleType(elems) == TypeExpr("Tuple", "", elems)
\* What the parser inserts, after an error, for a malformed annotation.
Malformed       == TypeExpr("Error", "", <<>>)
\* No annotation, or no return type.
NoType          == TypeExpr("None", "", <<>>)

----------------------------------------------------------------------------
(* Expressions, statements, blocks.                                        *)

Syntax(kind, x, n, ann, tags, kids) ==
  [kind |-> kind, x |-> x, n |-> n, ann |-> ann, tags |-> tags, kids |-> kids]
Bare(kind, x, n, kids) == Syntax(kind, x, n, NoType, <<>>, kids)

Absent == Bare("Absent", "", 0, <<>>)
IsAbsent(e) == e.kind = "Absent"

IntExpr(i)               == Bare("Int", "", i, <<>>)
FloatExpr(f)             == Bare("Float", "", f, <<>>)
BoolExpr(b)              == Bare("Bool", "", IF b THEN 1 ELSE 0, <<>>)
StrExpr(i)               == Bare("Str", "", i, <<>>)     \* an index in Texts
NameExpr(x)              == Bare("Name", x, 0, <<>>)
UnaryExpr(op, e)         == Bare("Unary", op, 0, <<e>>)
BinaryExpr(op, a, b)     == Bare("Binary", op, 0, <<a, b>>)
CallExpr(callee, args)   == Bare("Call", "", 0, <<callee>> \o args)
AssignExpr(target, e)    == Bare("Assign", "", 0, <<target, e>>)
AssignOpExpr(t, op, e)   == Bare("AssignOp", op, 0, <<t, e>>)
ArrayExpr(elems)         == Bare("ArrayLit", "", 0, elems)
IndexExpr(a, i)          == Bare("Index", "", 0, <<a, i>>)
StructExpr(x, names, es) == Syntax("StructLit", x, 0, NoType, names, es)
FieldExpr(e, f)          == Bare("Field", f, 0, <<e>>)
TupleExpr(elems)         == Bare("TupleLit", "", 0, elems)
TupleIndexExpr(e, i)     == Bare("TupleIndex", "", i, <<e>>)
IfExpr(c, then, else)    == Bare("If", "", 0, <<c, then, else>>)
\* A pattern is a literal or Wild; arm k has pattern k and body k.
MatchExpr(e, pats, arms) == Syntax("Match", "", 0, NoType, pats, <<e>> \o arms)
Wild                     == Bare("Wild", "", 0, <<>>)
BlockExpr(stmts, tail)   == Bare("Block", "", 0, Append(stmts, tail))

LetStmt(mut, x, ann, e)  == Syntax("Let", x, IF mut THEN 1 ELSE 0, ann, <<>>, <<e>>)
ExprStmt(e)              == Bare("Expr", "", 0, <<e>>)
RetStmt(e)               == Bare("Return", "", 0, <<e>>)
WhileStmt(c, body)       == Bare("While", "", 0, <<c, body>>)
ForStmt(x, from, to, body) == Bare("For", x, 0, <<from, to, body>>)
ForEachStmt(x, a, body)  == Bare("ForEach", x, 0, <<a, body>>)
BreakStmt                == Bare("Break", "", 0, <<>>)
ContinueStmt             == Bare("Continue", "", 0, <<>>)

StatementKinds == {"Let", "Expr", "Return", "While", "For", "ForEach", "Break", "Continue"}

----------------------------------------------------------------------------
(* Items: the parameters of a function and the fields of a struct are both *)
(* members [name, ty]; `body' is the body or the value of a constant.      *)

Member(name, ty) == [name |-> name, ty |-> ty]
Item(kind, name, members, ty, body) ==
  [kind |-> kind, name |-> name, members |-> members, ty |-> ty, body |-> body]

FnItem(name, params, ret, body) == Item("Fn", name, params, ret, body)
ConstItem(name, ty, value)      == Item("Const", name, <<>>, ty, value)
StructItem(name, fields)        == Item("Struct", name, fields, NoType, Absent)

\* A program, the Ast, is the sequence of its items.

RECURSIVE Nodes(_, _)
\* The nodes of a tree, with their paths.
Nodes(e, path) ==
  {[at |-> path, e |-> e]} \cup UNION {Nodes(e.kids[k], Append(path, k)) : k \in DOMAIN e.kids}

----------------------------------------------------------------------------
(* How the walks over trees and tokens thread their state.                 *)

\* The member of a set that has one.
TheOne(S) == CHOOSE x \in S : TRUE

\* What becomes of s in the steps 1 to n.  The set of one state makes TLC compute the
\* state before the step, and not within it.
Steps(step(_, _), n, s) ==
  LET after[k \in 0 .. n] == IF k = 0 THEN s ELSE TheOne({step(t, k) : t \in {after[k - 1]}})
  IN after[n]
=============================================================================
