----------------------------- MODULE HirSemantics -----------------------------
(***************************************************************************)
(* What a HIR program means: the abstract specification of everything      *)
(* behind the lowering.  It is the language the documentation describes    *)
(* (docs/LANGUAGE.md): operands from left to right, each once; && and ||   *)
(* short-circuit; the bounds of a for loop are evaluated once; arrays and  *)
(* structs are shared; integers wrap.                                      *)
(*                                                                         *)
(* An evaluation maps a state [env, heap, out, fuel, ctl, v] to another:   *)
(* `ctl' is "value", or the reason control leaves ("break", "continue",    *)
(* "return", an error); `v' is the value or the returned value; `fuel'     *)
(* bounds the loop turns and calls.                                        *)
(***************************************************************************)
EXTENDS Hir, Runtime

LOCAL INSTANCE SequencesExt

Yield(s, v)    == [s EXCEPT !.v = v]
Leave(s, why)  == [s EXCEPT !.ctl = why]
Outcome(s, o)  == IF o.status = "ok" THEN Yield(s, o.v) ELSE Leave(s, o.status)
Going(s)       == s.ctl = "value"
Burn(s)        == IF s.fuel = 0 THEN Leave(s, "out of fuel") ELSE [s EXCEPT !.fuel = @ - 1]

\* Structural equality of two values that contain no cycle.
RECURSIVE SameValue(_, _, _)
SameValue(heap, x, y) ==
  /\ x.t = y.t
  /\ CASE x.t = "Array" -> /\ Len(heap[x.v]) = Len(heap[y.v])
                           /\ \A i \in DOMAIN heap[x.v] :
                                SameValue(heap, heap[x.v][i], heap[y.v][i])
       [] x.t = "Float" -> F64.eq[x.v, y.v]
       [] OTHER         -> x.v = y.v

ApplyUnary(op, a) ==
  CASE op = "Not"     -> Ok(BoolV(~ a.v))
    [] a.t = "Int"    -> Ok(IntV(Wrap(-a.v)))
    [] a.t = "Float"  -> Ok(FloatV(UnaryFloat("NegFloat", a.v)))

ApplyBinary(op, heap, a, b) ==
  CASE op = "Eq"  -> Ok(BoolV(SameValue(heap, a, b)))
    [] op = "Ne"  -> Ok(BoolV(~ SameValue(heap, a, b)))
    [] op \in {"Lt", "Le", "Gt", "Ge"} /\ a.t = "Int"   -> Ok(BoolV(OrderInt(op \o "Int", a.v, b.v)))
    [] op \in {"Lt", "Le", "Gt", "Ge"} /\ a.t = "Float" -> Ok(BoolV(OrderFloat(op \o "Float", a.v, b.v)))
    [] op = "Add" /\ a.t = "Str" -> Ok(StrV(a.v \o b.v))
    [] OTHER -> IF a.t = "Int" THEN ArithInt(op \o "Int", a.v, b.v)
                ELSE Ok(FloatV(ArithFloat(op \o "Float", a.v, b.v)))

New(s, items) == Yield([s EXCEPT !.heap = Append(@, items)], ArrayV(Len(s.heap) + 1))

Get(s, a, i) ==
  IF i \in 0 .. Len(s.heap[a]) - 1 THEN Yield(s, s.heap[a][i + 1])
  ELSE Leave(s, "index out of bounds")

Put(s, a, i, v) ==
  IF i \in 0 .. Len(s.heap[a]) - 1 THEN Yield([s EXCEPT !.heap[a][i + 1] = v], UnitV)
  ELSE Leave(s, "index out of bounds")

CallOfBuiltin(s, b, args) ==
  IF b = "len" THEN Yield(s, IntV(Len(s.heap[args[1].v])))
  ELSE Outcome([s EXCEPT !.out = @ \o Printed(b, args)], Eval(b, args))

----------------------------------------------------------------------------
RECURSIVE Ev(_, _, _)

\* Evaluates es in order, as long as each yields a value: [s, vs].
EvAll(hir, es, s) ==
  FoldLeft(LAMBDA r, e : IF ~ Going(r.s) THEN r
                         ELSE LET t == Ev(hir, e, r.s)
                              IN [s |-> t, vs |-> Append(r.vs, t.v)],
           [s |-> s, vs |-> <<>>], es)

EvCall(hir, f, args, s) ==
  LET fn  == FnOf(hir, f)
      env == [l \in 0 .. fn.locals - 1 |-> IF l < Len(args) THEN args[l + 1] ELSE UnitV]
      r   == Ev(hir, fn.body, [Burn(s) EXCEPT !.env = env])
  IN IF ~ Going(Burn(s)) THEN Burn(s)
     ELSE [r EXCEPT !.env = s.env, !.ctl = IF @ = "return" THEN "value" ELSE @]

\* After the body of a loop: "continue" goes on, "break" ends the loop.
RECURSIVE EvWhile(_, _, _)
EvWhile(hir, e, s) ==
  LET c    == Ev(hir, e.kids[1], Burn(s))
      body == Ev(hir, e.kids[2], c)
  IN IF ~ Going(Burn(s)) THEN Burn(s)
     ELSE IF ~ Going(c) THEN c
     ELSE IF ~ c.v.v THEN Yield(c, UnitV)
     ELSE IF body.ctl = "break" THEN [body EXCEPT !.ctl = "value", !.v = UnitV]
     ELSE IF body.ctl \notin {"value", "continue"} THEN body
     ELSE EvWhile(hir, e, [body EXCEPT !.ctl = "value"])

RECURSIVE EvFor(_, _, _, _, _)
EvFor(hir, e, i, end, s) ==
  LET turn == [Burn(s) EXCEPT !.env[e.n] = IntV(i)]
      body == Ev(hir, e.kids[3], turn)
  IN IF i >= end THEN Yield(s, UnitV)
     ELSE IF ~ Going(Burn(s)) THEN Burn(s)
     ELSE IF body.ctl = "break" THEN [body EXCEPT !.ctl = "value", !.v = UnitV]
     ELSE IF body.ctl \notin {"value", "continue"} THEN body
     ELSE EvFor(hir, e, i + 1, end, [body EXCEPT !.ctl = "value"])

EvLogical(hir, e, s) ==
  LET a == Ev(hir, e.kids[1], s)
  IN IF Going(a) /\ a.v.v = (e.x = "And") THEN Ev(hir, e.kids[2], a) ELSE a

EvIf(hir, e, s) ==
  LET c == Ev(hir, e.kids[1], s)
  IN IF ~ Going(c) THEN c ELSE Ev(hir, IF c.v.v THEN e.kids[2] ELSE e.kids[3], c)

\* The value of a block is that of its tail, the last of its kids.
EvBlock(hir, e, s) == EvAll(hir, e.kids, s).s

\* What a node does once its children have the values vs.
Apply(hir, e, vs, s) ==
  CASE e.kind = "Unary"       -> Outcome(s, ApplyUnary(e.x, vs[1]))
    [] e.kind = "Binary"      -> Outcome(s, ApplyBinary(e.x, s.heap, vs[1], vs[2]))
    [] e.kind = "Call"        -> EvCall(hir, e.n, vs, s)
    [] e.kind = "CallBuiltin" -> CallOfBuiltin(s, e.x, vs)
    [] e.kind \in {"Assign", "Let"}         -> Yield([s EXCEPT !.env[e.n] = vs[1]], UnitV)
    [] e.kind \in {"ArrayLit", "StructLit"} -> New(s, vs)
    [] e.kind = "Index"       -> Get(s, vs[1].v, vs[2].v)
    [] e.kind = "SetIndex"    -> Put(s, vs[1].v, vs[2].v, vs[3])
    [] e.kind = "GetField"    -> Get(s, vs[1].v, e.n)
    [] e.kind = "SetField"    -> Put(s, vs[1].v, e.n, vs[2])
    [] e.kind = "Expr"        -> Yield(s, UnitV)
    [] e.kind = "Return"      -> Leave(Yield(s, vs[1]), "return")

Ev(hir, e, s) ==
  CASE e.kind = "Int"     -> Yield(s, IntV(e.n))
    [] e.kind = "Float"   -> Yield(s, FloatV(e.n))
    [] e.kind = "Bool"    -> Yield(s, BoolV(e.n = 1))
    [] e.kind = "Str"     -> Yield(s, StrV(Texts[e.n]))
    [] e.kind = "Nothing" -> Yield(s, UnitV)
    [] e.kind = "Local"   -> Yield(s, s.env[e.n])
    [] e.kind = "If"      -> EvIf(hir, e, s)
    [] e.kind = "Block"   -> EvBlock(hir, e, s)
    [] e.kind = "While"   -> EvWhile(hir, e, s)
    [] e.kind = "Break"   -> Leave(s, "break")
    [] e.kind = "Continue" -> Leave(s, "continue")
    [] e.kind = "For"     ->
         LET bounds == EvAll(hir, SubSeq(e.kids, 1, 2), s)
         IN IF ~ Going(bounds.s) THEN bounds.s
            ELSE EvFor(hir, e, bounds.vs[1].v, bounds.vs[2].v, bounds.s)
    [] OTHER ->
         IF e.kind = "Binary" /\ e.x \in {"And", "Or"} THEN EvLogical(hir, e, s)
         ELSE LET kids == EvAll(hir, e.kids, s)
              IN IF Going(kids.s) THEN Apply(hir, e, kids.vs, kids.s) ELSE kids.s

\* The meaning of a program: how it ends and what it prints.
Meaning(hir, fuel) ==
  LET s == EvCall(hir, hir.main, <<>>,
                  [env |-> <<>>, heap |-> <<>>, out |-> <<>>, fuel |-> fuel,
                   ctl |-> "value", v |-> UnitV])
  IN [status |-> IF Going(s) THEN "finished" ELSE s.ctl, stdout |-> s.out]
=============================================================================
