--------------------------------- MODULE Hir ---------------------------------
(***************************************************************************)
(* The high-level intermediate representation (hir/mod.rs): typed trees of *)
(* expressions, statements and blocks over dense local slots.              *)
(*                                                                         *)
(* Every node is a record [kind, ty, n, x, kids].  `kids' holds the        *)
(* children in the order of the Rust fields; `n' a literal, a slot, a      *)
(* field, a function or, for a string, its index in Texts; `x' the         *)
(* operator or the builtin.  A block's kids are its statements and, last,  *)
(* its tail; Nothing stands for an absent child.                           *)
(***************************************************************************)
EXTENDS Integers, Sequences, Builtins

CONSTANT Texts    \* the string literals of the program, as bytes

Node(kind, ty, n, x, kids) == [kind |-> kind, ty |-> ty, n |-> n, x |-> x, kids |-> kids]

Nothing == Node("Nothing", "Unit", 0, "", <<>>)

IntLit(i)    == Node("Int", "Int", i, "", <<>>)
FloatLit(f)  == Node("Float", "Float", f, "", <<>>)
BoolLit(b)   == Node("Bool", "Bool", IF b THEN 1 ELSE 0, "", <<>>)
StrLit(i)    == Node("Str", "Str", i, "", <<>>)
Local(ty, l) == Node("Local", ty, l, "", <<>>)

Unary(op, e)          == Node("Unary", e.ty, 0, op, <<e>>)
Binary(ty, op, a, b)  == Node("Binary", ty, 0, op, <<a, b>>)
FnCall(ty, f, args)   == Node("Call", ty, f, "", args)
BuiltinCall(b, args)  == Node("CallBuiltin", Signatures[b].ret, 0, b, args)
Assign(l, e)          == Node("Assign", "Unit", l, "", <<e>>)
ArrayLit(elems)       == Node("ArrayLit", "Array", 0, "", elems)
GetItem(ty, a, i)     == Node("Index", ty, 0, "", <<a, i>>)
SetItem(a, i, e)      == Node("SetIndex", "Unit", 0, "", <<a, i, e>>)
StructLit(fields)     == Node("StructLit", "Struct", 0, "", fields)
GetField(ty, s, n)    == Node("GetField", ty, n, "", <<s>>)
SetField(s, n, e)     == Node("SetField", "Unit", n, "", <<s, e>>)
If(ty, c, then, else) == Node("If", ty, 0, "", <<c, then, else>>)
Block(stmts, tail)    == Node("Block", tail.ty, 0, "", Append(stmts, tail))

Let(l, e)        == Node("Let", "Unit", l, "", <<e>>)
Do(e)            == Node("Expr", "Unit", 0, "", <<e>>)
ReturnStmt(e)    == Node("Return", "Unit", 0, "", <<e>>)
While(c, body)   == Node("While", "Unit", 0, "", <<c, body>>)
\* `end_var', the slot that caches the bound, is the one allocated after `var'.
For(l, start, end, body) == Node("For", "Unit", l, "", <<start, end, body>>)
Break            == Node("Break", "Unit", 0, "", <<>>)
Continue         == Node("Continue", "Unit", 0, "", <<>>)

EndVar(for) == for.n + 1

Stmts(block) == SubSeq(block.kids, 1, Len(block.kids) - 1)
TailOf(block) == block.kids[Len(block.kids)]

CallKinds == {"Call", "CallBuiltin"}

\* A function is [params, locals, body], with the number of its parameters and
\* of all its locals; a program is [functions, main].
Function(params, locals, body) == [params |-> params, locals |-> locals, body |-> body]
FnOf(hir, f) == hir.functions[f + 1]
HirFns(hir)  == 0 .. Len(hir.functions) - 1

\* `lhs op rhs' on operands of type ty, as the name of the operation.
Named(op, ty) == op \o (IF ty = "Float" THEN "Float" ELSE "Int")
=============================================================================
