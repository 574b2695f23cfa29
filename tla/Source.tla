------------------------------- MODULE Source -------------------------------
(***************************************************************************)
(* What a source program means: the abstract specification of the front    *)
(* end.  It is the language of docs/LANGUAGE.md, by names and without      *)
(* types, slots or side tables: an environment is the sequence of the      *)
(* bindings in force, oldest first, and a name is its last binding.  A     *)
(* step that no rule of the language covers ends in "wrong": operands of   *)
(* the wrong kind, a name, a field, an arm or an argument that is missing, *)
(* a store to what is not mutable.                                         *)
(*                                                                         *)
(* Evaluations are those of HirSemantics, with `shape' beside the heap: of *)
(* every object, "(array)", "(tuple)" or the name of its struct.           *)
(***************************************************************************)
EXTENDS Ast, HirSemantics

LOCAL INSTANCE SequencesExt

Wrong(s) == Leave(s, "wrong")
Should(s, cond, t) == IF cond THEN t ELSE Wrong(s)

Bound(s, x)    == {k \in DOMAIN s.env : s.env[k].name = x}
LastBound(s, x) == CHOOSE k \in Bound(s, x) : \A j \in Bound(s, x) : j <= k
Binding(x, v, mutable) == [name |-> x, v |-> v, mutable |-> mutable]
Extend(s, x, v) == [s EXCEPT !.env = Append(@, Binding(x, v, FALSE))]
\* Gives the mutable binding x the value v.
IsMutable(s, x)   == Bound(s, x) # {} /\ s.env[LastBound(s, x)].mutable
Rebind(s, x, v)   == Yield([s EXCEPT !.env[LastBound(s, x)].v = v], UnitV)
\* t, without the bindings made since s.
Outside(s, t)  == [t EXCEPT !.env = SubSeq(@, 1, Len(s.env))]

ItemsOf(items, kind, x) == {i \in DOMAIN items : items[i].kind = kind /\ items[i].name = x}
TheItem(items, kind, x) == items[CHOOSE i \in ItemsOf(items, kind, x) : TRUE]
ConstCount(items) == Len(SelectSeq(items, LAMBDA i : i.kind = "Const"))

Allocate(s, vs, shape) == New([s EXCEPT !.shape = Append(@, shape)], vs)
Has(s, v, shape)  == v.t = "Array" /\ s.shape[v.v] = shape
IsStruct(s, v)    == v.t = "Array" /\ s.shape[v.v] \notin {"(array)", "(tuple)"}
\* The position of field f of the struct v, from 0; -1 if there is none.
FieldOf(items, s, v, f) ==
  LET members == TheItem(items, "Struct", s.shape[v.v]).members
      at      == {k \in DOMAIN members : members[k].name = f}
  IN IF at = {} THEN -1 ELSE (CHOOSE k \in at : TRUE) - 1

UnaryFits(op, a) == a.t \in (IF op = "Not" THEN {"Bool"} ELSE {"Int", "Float"})
BinaryFits(op, s, a, b) ==
  /\ a.t = b.t
  /\ CASE op \in {"Eq", "Ne"} -> /\ a.t # "Unit"
                                 /\ a.t = "Array" => s.shape[a.v] = s.shape[b.v]
       [] op = "Add"          -> a.t \in {"Int", "Float", "Str"}
       [] OTHER               -> a.t \in {"Int", "Float"}

Compute(s, op, a, b) ==
  Should(s, BinaryFits(op, s, a, b), Outcome(s, ApplyBinary(op, s.heap, a, b)))

----------------------------------------------------------------------------
RECURSIVE Sem(_, _, _)

\* Evaluates es in order, as long as each yields a value.
SemAll(items, es, s) ==
  FoldLeft(LAMBDA r, e : IF ~ Going(r.s) THEN r
                         ELSE LET t == Sem(items, e, r.s)
                              IN [s |-> t, vs |-> Append(r.vs, t.v)],
           [s |-> s, vs |-> <<>>], es)

SemBlock(items, e, s) == Outside(s, SemAll(items, e.kids, s).s)

\* A call sees the constants and its arguments.
SemFn(items, fn, vs, s) ==
  LET args == [k \in DOMAIN vs |-> Binding(fn.members[k].name, vs[k], FALSE)]
      env  == SubSeq(s.env, 1, ConstCount(items)) \o args
      back(r) == [r EXCEPT !.env = s.env, !.ctl = IF @ = "return" THEN "value" ELSE @]
  IN IF Len(vs) # Len(fn.members) THEN Wrong(s)
     ELSE IF ~ Going(Burn(s)) THEN Burn(s)
     ELSE back(Sem(items, fn.body, [Burn(s) EXCEPT !.env = env]))

SemBuiltin(b, vs, s) ==
  Should(s, IF IsGeneric(b) THEN Len(vs) = 1 /\ Has(s, vs[1], "(array)") ELSE WellShaped(b, vs),
         CallOfBuiltin(s, b, vs))

SemCall(items, e, s) ==
  LET f    == e.kids[1].x
      args == SemAll(items, Tail(e.kids), s)
  IN IF ~ Going(args.s) THEN args.s
     ELSE IF Bound(s, f) # {} THEN Wrong(s)
     ELSE IF ItemsOf(items, "Fn", f) # {} THEN SemFn(items, TheItem(items, "Fn", f), args.vs, args.s)
     ELSE Should(s, f \in BuiltinNames, SemBuiltin(f, args.vs, args.s))

\* The fields are evaluated in the order of their declaration.
SemStruct(items, e, s) ==
  LET fields == TheItem(items, "Struct", e.x).members
      init(k) == {j \in DOMAIN e.tags : e.tags[j] = fields[k].name}
      vs     == SemAll(items, [k \in DOMAIN fields |-> e.kids[CHOOSE j \in init(k) : TRUE]], s)
  IN IF ItemsOf(items, "Struct", e.x) = {} \/ \E k \in DOMAIN fields : init(k) = {} THEN Wrong(s)
     ELSE IF Going(vs.s) THEN Allocate(vs.s, vs.vs, e.x) ELSE vs.s

SemAssign(items, e, s) ==
  LET target == e.kids[1]
      k      == SemAll(items, (IF target.kind = "Name" THEN <<>> ELSE target.kids) \o <<e.kids[2]>>, s)
      t      == k.s
      o      == k.vs[1]
  IN IF ~ Going(t) THEN t
     ELSE CASE target.kind = "Name" ->
                 Should(t, IsMutable(t, target.x), Rebind(t, target.x, k.vs[1]))
            [] target.kind = "Index" ->
                 Should(t, Has(t, o, "(array)") /\ k.vs[2].t = "Int", Put(t, o.v, k.vs[2].v, k.vs[3]))
            [] target.kind = "Field" ->
                 Should(t, IsStruct(t, o) /\ FieldOf(items, t, o, target.x) >= 0,
                        Put(t, o.v, FieldOf(items, t, o, target.x), k.vs[2]))
            [] target.kind = "TupleIndex" ->
                 Should(t, Has(t, o, "(tuple)") /\ target.n < Len(t.heap[o.v]),
                        Put(t, o.v, target.n, k.vs[2]))
            [] OTHER -> Wrong(t)

\* x op= e is x = x op e.
SemAssignOp(items, e, s) ==
  LET k == SemAll(items, e.kids, s)
      r == Compute(k.s, e.x, k.vs[1], k.vs[2])
  IN IF ~ Going(k.s) THEN k.s
     ELSE IF ~ Going(r) THEN r
     ELSE Should(r, e.kids[1].kind = "Name" /\ IsMutable(r, e.kids[1].x),
                 Rebind(r, e.kids[1].x, r.v))

SemLogical(items, e, s) ==
  LET a == Sem(items, e.kids[1], s)
      b == Sem(items, e.kids[2], a)
  IN IF ~ Going(a) THEN a
     ELSE IF a.v.t # "Bool" THEN Wrong(a)
     ELSE IF a.v.v # (e.x = "And") THEN a
     ELSE IF ~ Going(b) THEN b ELSE Should(b, b.v.t = "Bool", b)

SemIf(items, e, s) ==
  LET c == Sem(items, e.kids[1], s)
  IN IF ~ Going(c) THEN c
     ELSE Should(c, c.v.t = "Bool", Sem(items, IF c.v.v THEN e.kids[2] ELSE e.kids[3], c))

\* The first arm whose pattern is the value, or a wildcard.
SemMatch(items, e, s) ==
  LET c == Sem(items, e.kids[1], s)
      same(p) == p.kind = c.v.t /\ p.n = (IF c.v.t = "Bool" THEN (IF c.v.v THEN 1 ELSE 0) ELSE c.v.v)
      fits == {k \in DOMAIN e.tags : e.tags[k].kind = "Wild" \/ same(e.tags[k])}
      arm  == CHOOSE k \in fits : \A j \in fits : k <= j
  IN IF ~ Going(c) THEN c ELSE Should(c, fits # {}, Sem(items, e.kids[arm + 1], c))

\* How a loop goes on after its body: "turn", or the state it ends in.
Ends(s)     == s.ctl \notin {"value", "continue"}
LoopExit(s) == IF s.ctl = "break" THEN Yield([s EXCEPT !.ctl = "value"], UnitV) ELSE s
Again(s)    == [s EXCEPT !.ctl = "value"]

RECURSIVE SemWhile(_, _, _), SemRange(_, _, _, _, _), SemItems(_, _, _, _, _)
SemWhile(items, e, s) ==
  LET c    == Sem(items, e.kids[1], Burn(s))
      body == Sem(items, e.kids[2], c)
  IN IF ~ Going(Burn(s)) THEN Burn(s)
     ELSE IF ~ Going(c) THEN c
     ELSE IF c.v.t # "Bool" THEN Wrong(c)
     ELSE IF ~ c.v.v THEN Yield(c, UnitV)
     ELSE IF Ends(body) THEN LoopExit(body)
     ELSE SemWhile(items, e, Again(body))

SemRange(items, e, i, end, s) ==
  LET body == Outside(s, Sem(items, e.kids[3], Extend(Burn(s), e.x, IntV(i))))
  IN IF i >= end THEN Yield(s, UnitV)
     ELSE IF ~ Going(Burn(s)) THEN Burn(s)
     ELSE IF Ends(body) THEN LoopExit(body)
     ELSE SemRange(items, e, i + 1, end, Again(body))

\* The array and its length are evaluated once; element i when its turn comes.
SemItems(items, e, i, a, s) ==
  LET body == Outside(s, Sem(items, e.kids[2], Extend(Burn(s), e.x, s.heap[a][i])))
  IN IF i > Len(s.heap[a]) THEN Yield(s, UnitV)
     ELSE IF ~ Going(Burn(s)) THEN Burn(s)
     ELSE IF Ends(body) THEN LoopExit(body)
     ELSE SemItems(items, e, i + 1, a, Again(body))

\* What a node does once its children have the values vs.
SemApply(items, e, vs, s) ==
  CASE e.kind = "Unary"      -> Should(s, UnaryFits(e.x, vs[1]), Outcome(s, ApplyUnary(e.x, vs[1])))
    [] e.kind = "Binary"     -> Compute(s, e.x, vs[1], vs[2])
    [] e.kind = "ArrayLit"   -> Allocate(s, vs, "(array)")
    [] e.kind = "TupleLit"   -> Allocate(s, vs, "(tuple)")
    [] e.kind = "Index"      ->
         Should(s, Has(s, vs[1], "(array)") /\ vs[2].t = "Int", Get(s, vs[1].v, vs[2].v))
    [] e.kind = "TupleIndex" ->
         Should(s, Has(s, vs[1], "(tuple)") /\ e.n < Len(s.heap[vs[1].v]), Get(s, vs[1].v, e.n))
    [] e.kind = "Field"      ->
         Should(s, IsStruct(s, vs[1]) /\ FieldOf(items, s, vs[1], e.x) >= 0,
                Get(s, vs[1].v, FieldOf(items, s, vs[1], e.x)))
    [] e.kind = "Let"        ->
         Yield([s EXCEPT !.env = Append(@, Binding(e.x, vs[1], e.n = 1))], UnitV)
    [] e.kind = "Expr"       -> Yield(s, UnitV)
    [] e.kind = "Return"     -> Leave(s, "return")
    [] e.kind = "For"        ->
         Should(s, vs[1].t = "Int" /\ vs[2].t = "Int", SemRange(items, e, vs[1].v, vs[2].v, s))
    [] e.kind = "ForEach"    ->
         Should(s, Has(s, vs[1], "(array)"), SemItems(items, e, 1, vs[1].v, s))

\* The children that are evaluated first: all but the body of a loop.
Operands(e) == CASE e.kind = "For"     -> SubSeq(e.kids, 1, 2)
                 [] e.kind = "ForEach" -> SubSeq(e.kids, 1, 1)
                 [] OTHER              -> e.kids

Sem(items, e, s) ==
  CASE e.kind = "Absent"    -> Yield(s, UnitV)
    [] e.kind = "Int"       -> Yield(s, IntV(e.n))
    [] e.kind = "Float"     -> Yield(s, FloatV(e.n))
    [] e.kind = "Bool"      -> Yield(s, BoolV(e.n = 1))
    [] e.kind = "Str"       -> Yield(s, StrV(Texts[e.n]))
    [] e.kind = "Name"      -> IF Bound(s, e.x) = {} THEN Wrong(s)
                               ELSE Yield(s, s.env[LastBound(s, e.x)].v)
    [] e.kind = "Call"      -> SemCall(items, e, s)
    [] e.kind = "Assign"    -> SemAssign(items, e, s)
    [] e.kind = "AssignOp"  -> SemAssignOp(items, e, s)
    [] e.kind = "StructLit" -> SemStruct(items, e, s)
    [] e.kind = "If"        -> SemIf(items, e, s)
    [] e.kind = "Match"     -> SemMatch(items, e, s)
    [] e.kind = "Block"     -> SemBlock(items, e, s)
    [] e.kind = "While"     -> SemWhile(items, e, s)
    [] e.kind = "Break"     -> Leave(s, "break")
    [] e.kind = "Continue"  -> Leave(s, "continue")
    [] OTHER ->
         IF e.kind = "Binary" /\ e.x \in {"And", "Or"} THEN SemLogical(items, e, s)
         ELSE LET k == SemAll(items, Operands(e), s)
              IN IF Going(k.s) THEN SemApply(items, e, k.vs, k.s) ELSE k.s

\* A constant is the value of its initialiser, which sees the constants before it.
SemConst(name, s) == IF Going(s) THEN Extend(s, name, s.v) ELSE s
SemConsts(items, s) ==
  FoldLeft(LAMBDA t, i : IF i.kind = "Const" /\ Going(t) THEN SemConst(i.name, Sem(items, i.body, t))
                         ELSE t,
           s, items)

SemMain(items, s) == IF Going(s) THEN SemFn(items, TheItem(items, "Fn", "main"), <<>>, s) ELSE s

Result(s) == [status |-> IF Going(s) THEN "finished" ELSE s.ctl, stdout |-> s.out]

SourceMeaning(items, fuel) ==
  Result(SemMain(items,
    SemConsts(items, [env |-> <<>>, heap |-> <<>>, shape |-> <<>>, out |-> <<>>,
                      fuel |-> fuel, ctl |-> "value", v |-> UnitV])))
=============================================================================
