------------------------------- MODULE Typeck -------------------------------
(***************************************************************************)
(* The type checker (sema/typeck.rs, sema/types.rs).                       *)
(*                                                                         *)
(* The walk threads s = [types, locals, errs, sigs, structs, consts, main, *)
(* ret, depth, ty]: the types of expressions and of local definitions, the *)
(* codes of the diagnostics, the signatures, layouts and constants by      *)
(* index, the result type of the current function, the number of loops     *)
(* around, and the type of what was checked last.  The resolution is       *)
(* c = [items, tabs, uses, locals].                                        *)
(***************************************************************************)
EXTENDS Resolver, Hir, Runtime

LOCAL INSTANCE SequencesExt

----------------------------------------------------------------------------
(* Types.  Tuples are structural: `of' holds their elements.               *)

Ty(t, id, of)    == [t |-> t, id |-> id, of |-> of]
Prim(t)          == Ty(t, 0, <<>>)
ArrayTy(elem)    == Ty("Array", 0, <<elem>>)
StructTy(id)     == Ty("Struct", id, <<>>)
TupleTy(elems)   == Ty("Tuple", 0, elems)
IntTy   == Prim("Int")
BoolTy  == Prim("Bool")
StrTy   == Prim("Str")
UnitTy  == Prim("Unit")
ErrorTy == Prim("Error")

TypeNames == [i64 |-> "Int", f64 |-> "Float", bool |-> "Bool", str |-> "Str", unit |-> "Unit"]
ElemKinds == {"Int", "Float", "Bool", "Str"}

\* Faulty variant: the error type is a type like the others.
CompatibleStrict(a, b) == a = b

IsError(ty)      == ty.t = "Error"
IsNumeric(ty)    == ty.t \in {"Int", "Float"}
Compatible(a, b) == IsError(a) \/ IsError(b) \/ a = b

NothingChecked ==
  [types |-> <<>>, locals |-> <<>>, errs |-> <<>>, sigs |-> <<>>, structs |-> <<>>,
   consts |-> <<>>, main |-> 0, ret |-> UnitTy, depth |-> 0, ty |-> UnitTy]

Typed(s, ty)         == [s EXCEPT !.ty = ty]
Report(s, code)      == [s EXCEPT !.errs = Append(@, code)]
Fails(s, code)       == Typed(Report(s, code), ErrorTy)
Require(s, ok, code) == IF ok THEN s ELSE Report(s, code)
\* `expect' on the type that was just computed.
Expect(s, ty, code)  == Require(s, Compatible(s.ty, ty), code)

\* check(s, k) for k from 1 to n, and the types they compute.
Through(check(_, _), n, s) ==
  Steps(LAMBDA r, k : LET t == check(r.s, k) IN [s |-> t, tys |-> Append(r.tys, t.ty)],
        n, [s |-> s, tys |-> <<>>])
SomeError(tys) == \E k \in DOMAIN tys : IsError(tys[k])

RECURSIVE ResolveType(_, _, _)

ResolveNamed(c, ty, s) ==
  LET ids == Lookup(c.items, c.tabs.structs, ty.name)
  IN IF ty.name \in DOMAIN TypeNames THEN Typed(s, Prim(TypeNames[ty.name]))
     ELSE IF ids # {} THEN Typed(s, StructTy(TheOne(ids)))
     ELSE Fails(s, "UnknownType")

ResolveArray(c, ty, s) ==
  LET t == ResolveType(c, ty.of[1], s)
  IN IF IsError(t.ty) THEN t
     ELSE IF t.ty.t \in ElemKinds THEN Typed(t, ArrayTy(t.ty))
     ELSE Fails(t, "BadArrayType")

ResolveTuple(c, ty, s) ==
  LET r == Through(LAMBDA t, k : ResolveType(c, ty.of[k], t), Len(ty.of), s)
  IN Typed(r.s, IF SomeError(r.tys) THEN ErrorTy ELSE TupleTy(r.tys))

ResolveType(c, ty, s) ==
  CASE ty.kind = "Named" -> ResolveNamed(c, ty, s)
    [] ty.kind = "Array" -> ResolveArray(c, ty, s)
    [] ty.kind = "Tuple" -> ResolveTuple(c, ty, s)
    [] ty.kind = "Error" -> Typed(s, ErrorTy)

----------------------------------------------------------------------------
(* Expressions.                                                            *)

RECURSIVE Check(_, _, _, _)

CheckKid(c, id, e, k, s) == Check(c, Append(id, k), e.kids[k], s)
CheckKids(c, id, e, s)   == Through(LAMBDA t, k : CheckKid(c, id, e, k, t), Len(e.kids), s)

Recorded(id, s)     == [s EXCEPT !.types = (id :> s.ty) @@ @]
UseOf(c, id)        == IF id \in DOMAIN c.uses THEN c.uses[id] ELSE Unresolved
LocalType(s, def)   == IF def \in DOMAIN s.locals THEN s.locals[def] ELSE ErrorTy
Bind(s, def, ty)    == [s EXCEPT !.locals = (def :> ty) @@ @]
\* A constant that is not checked yet has the error type.
ConstType(s, id)    == IF id \in DOMAIN s.consts THEN s.consts[id].ty ELSE ErrorTy

CheckName(c, id, s) ==
  LET res == UseOf(c, id)
  IN CASE res.r = "Local" -> Typed(s, LocalType(s, res.def))
       [] res.r = "Const" -> Typed(s, ConstType(s, res.def[1]))
       [] res.r = "None"  -> Typed(s, ErrorTy)
       [] OTHER           -> Fails(s, "TypeMismatch")

CheckUnary(c, id, e, s) ==
  LET t == CheckKid(c, id, e, 1, s)
  IN IF e.x = "Neg" /\ (IsNumeric(t.ty) \/ IsError(t.ty)) THEN t
     ELSE IF e.x = "Not" /\ (t.ty = BoolTy \/ IsError(t.ty)) THEN Typed(t, BoolTy)
     ELSE Fails(t, "InvalidOperands")

Ordered  == {"Lt", "Le", "Gt", "Ge"}
Equality == {"Eq", "Ne"}
Logical  == {"And", "Or"}
Numeric  == {"Add", "Sub", "Mul", "Div", "Rem"}

Applies(op, lt, rt) ==
  /\ lt = rt
  /\ CASE op \in Equality -> lt # UnitTy
       [] op \in Logical  -> lt = BoolTy
       [] OTHER           -> IsNumeric(lt) \/ (op = "Add" /\ lt = StrTy)

CheckBinary(c, id, e, s) ==
  LET k  == CheckKids(c, id, e, s)
      lt == k.tys[1]
      rt == k.tys[2]
      ty == IF e.x \notin Numeric THEN BoolTy ELSE IF Applies(e.x, lt, rt) THEN lt ELSE ErrorTy
  IN Typed(Require(k.s, SomeError(k.tys) \/ Applies(e.x, lt, rt), "InvalidOperands"), ty)

\* The arguments of a call, against nothing.
CheckRest(c, id, e, s) ==
  Through(LAMBDA t, k : CheckKid(c, id, e, k + 1, t), Len(e.kids) - 1, s).s

\* The arguments are checked even when their number is wrong.
CheckArgs(c, id, e, params, s) ==
  LET args == Len(e.kids) - 1
      arg(t, k) ==
        LET u == CheckKid(c, id, e, k + 1, t)
        IN IF k \in DOMAIN params THEN Expect(u, params[k], "TypeMismatch") ELSE u
  IN Through(arg, args, Require(s, args = Len(params), "ArityMismatch")).s

\* `len' takes any array.
CheckLen(c, id, e, s) ==
  IF Len(e.kids) # 2 THEN CheckRest(c, id, e, Report(s, "ArityMismatch"))
  ELSE LET a == CheckKid(c, id, e, 2, s)
       IN Require(a, a.ty.t \in {"Array", "Error"}, "TypeMismatch")

CheckCall(c, id, e, s) ==
  LET res  == UseOf(c, Append(id, 1))
      f    == CheckKid(c, id, e, 1, s)
      prims(ts) == [k \in DOMAIN ts |-> Prim(ts[k])]
      uncallable(t) == Typed(CheckRest(c, id, e, t), ErrorTy)
  IN IF e.kids[1].kind # "Name" THEN uncallable(Require(f, IsError(f.ty), "NotCallable"))
     ELSE CASE res.r = "Fn" ->
                 LET sig == s.sigs[res.def[1]] IN Typed(CheckArgs(c, id, e, sig.params, s), sig.ret)
            [] res.r = "Builtin" /\ IsGeneric(res.name) -> Typed(CheckLen(c, id, e, s), IntTy)
            [] res.r = "Builtin" /\ ~ IsGeneric(res.name) ->
                 Typed(CheckArgs(c, id, e, prims(Signatures[res.name].params), s),
                       Prim(Signatures[res.name].ret))
            [] res.r = "None" -> uncallable(s)
            [] OTHER          -> uncallable(Report(s, "NotCallable"))

----------------------------------------------------------------------------
(* Arrays, structs and tuples, and assignments to their elements.          *)

\* The type of an element of `base', checked in s.
ElementOf(base, s) ==
  CASE base.t = "Array" -> Typed(s, base.of[1])
    [] base.t = "Error" -> Typed(s, ErrorTy)
    [] OTHER            -> Fails(s, "NotIndexable")

CheckIndex(c, id, e, s) ==
  LET k == CheckKids(c, id, e, s)
  IN ElementOf(k.tys[1], Require(k.s, Compatible(k.tys[2], IntTy), "TypeMismatch"))

CheckArrayLit(c, id, e, s) ==
  LET first   == CheckKid(c, id, e, 1, s).ty
      elem(t, k) == Expect(CheckKid(c, id, e, k, t), first, "TypeMismatch")
      all     == Through(elem, Len(e.kids), s).s
  IN IF e.kids = <<>> THEN Fails(s, "BadArrayType")
     ELSE IF IsError(first) THEN Typed(all, ErrorTy)
     ELSE IF first.t \in ElemKinds THEN Typed(all, ArrayTy(first))
     ELSE Fails(all, "BadArrayType")

\* The positions of a field: a duplicate was reported, the first one counts.
FieldsNamed(info, name) == {k \in DOMAIN info : info[k].name = name}
FieldAt(info, name) ==
  CHOOSE k \in FieldsNamed(info, name) : \A j \in FieldsNamed(info, name) : k <= j

CheckField(c, id, e, s) ==
  LET t    == CheckKid(c, id, e, 1, s)
      info == IF t.ty.t = "Struct" THEN s.structs[t.ty.id] ELSE <<>>
  IN IF IsError(t.ty) THEN t
     ELSE IF FieldsNamed(info, e.x) = {} THEN Fails(t, "UnknownField")
     ELSE Typed(t, info[FieldAt(info, e.x)].ty)

CheckTupleLit(c, id, e, s) ==
  LET k == CheckKids(c, id, e, s)
  IN Typed(k.s, IF SomeError(k.tys) THEN ErrorTy ELSE TupleTy(k.tys))

CheckTupleIndex(c, id, e, s) ==
  LET t == CheckKid(c, id, e, 1, s)
  IN IF IsError(t.ty) THEN t
     ELSE IF t.ty.t # "Tuple" \/ e.n \notin 0 .. Len(t.ty.of) - 1 THEN Fails(t, "UnknownField")
     ELSE Typed(t, t.ty.of[e.n + 1])

CheckStructLit(c, id, e, s) ==
  LET ids  == Lookup(c.items, c.tabs.structs, e.x)
      info == s.structs[TheOne(ids)]
      known(k) == FieldsNamed(info, e.tags[k]) # {}
      again(k) == \E j \in 1 .. k - 1 : e.tags[j] = e.tags[k]
      init(t, k) ==
        LET u == CheckKid(c, id, e, k, t)
        IN IF ~ known(k) THEN Report(u, "UnknownField")
           ELSE Require(Require(u, ~ again(k), "BadStructLiteral"),
                        Compatible(u.ty, info[FieldAt(info, e.tags[k])].ty), "TypeMismatch")
      complete == \A f \in DOMAIN info : \E k \in DOMAIN e.tags : e.tags[k] = info[f].name
  IN IF ids = {} THEN Fails(CheckKids(c, id, e, s).s, "BadStructLiteral")
     ELSE Typed(Require(Through(init, Len(e.kids), s).s, complete, "BadStructLiteral"),
                StructTy(TheOne(ids)))

\* The value, after a place of type s.ty: a place in error accepts anything.
CheckStore(c, id, e, s) == Expect(CheckKid(c, id, e, 2, s), s.ty, "TypeMismatch")

CheckIndexAssign(c, id, e, s) ==
  LET k     == CheckKids(c, Append(id, 1), e.kids[1], s)
      value == CheckKid(c, id, e, 2, k.s)
      place == ElementOf(k.tys[1], Require(value, Compatible(k.tys[2], IntTy), "TypeMismatch"))
  IN Require(place, Compatible(value.ty, place.ty), "TypeMismatch")

\* Only a mutable local can be assigned.
CheckLocalAssign(c, id, e, def, s) ==
  LET value == CheckKid(c, id, e, 2, s)
      ty    == LocalType(s, def)
      t     == [value EXCEPT !.types = (Append(id, 1) :> ty) @@ @]
  IN IF ~ c.locals[def] THEN Report(t, "AssignToImmutable")
     ELSE Require(t, Compatible(value.ty, ty), "TypeMismatch")

CheckAssign(c, id, e, s) ==
  LET target == e.kids[1]
      at     == Append(id, 1)
      res    == UseOf(c, at)
      value  == CheckKid(c, id, e, 2, s)
      other  == Check(c, at, target, value)
      done   == CASE target.kind = "Index"      -> CheckIndexAssign(c, id, e, s)
                  [] target.kind = "Field"      -> CheckStore(c, id, e, CheckField(c, at, target, s))
                  [] target.kind = "TupleIndex" -> CheckStore(c, id, e, CheckTupleIndex(c, at, target, s))
                  [] target.kind = "Name" /\ res.r = "Local" -> CheckLocalAssign(c, id, e, res.def, s)
                  [] OTHER -> Require(other, IsError(other.ty), "InvalidAssignTarget")
  IN Typed(done, UnitTy)

\* The operators are those of numbers: += does not concatenate.
CheckAssignOp(c, id, e, s) ==
  LET k    == CheckKids(c, id, e, s)
      lt   == k.tys[1]
      rt   == k.tys[2]
      res  == UseOf(c, Append(id, 1))
      t    == Require(k.s, IsError(lt) \/ c.locals[res.def], "AssignToImmutable")
      fits == SomeError(k.tys) \/ (lt = rt /\ IsNumeric(lt))
  IN Typed(IF e.kids[1].kind # "Name" \/ res.r # "Local"
           THEN Require(k.s, IsError(lt), "InvalidAssignTarget")
           ELSE Require(t, fits, "InvalidOperands"), UnitTy)

----------------------------------------------------------------------------
(* Control.                                                                *)

\* The type of a block is that of its tail.
CheckBlock(c, id, block, s) ==
  Steps(LAMBDA t, k : IF IsAbsent(block.kids[k]) THEN Typed(t, UnitTy)
                      ELSE CheckKid(c, id, block, k, t), Len(block.kids), s)

\* The type of two branches: an error gives way to the other type.
Joined(a, b) == IF IsError(a) THEN b ELSE a

CheckIf(c, id, e, s) ==
  LET cond == Expect(CheckKid(c, id, e, 1, s), BoolTy, "NonBoolCondition")
      then == CheckBlock(c, Append(id, 2), e.kids[2], cond)
      else == CheckKid(c, id, e, 3, then)
  IN IF IsAbsent(e.kids[3])
     THEN Typed(Require(then, Compatible(then.ty, UnitTy), "IfBranchMismatch"), UnitTy)
     ELSE IF Compatible(then.ty, else.ty) THEN Typed(else, Joined(then.ty, else.ty))
     ELSE Fails(else, "IfBranchMismatch")

\* Faulty variant: a test for false is enough.
ExhaustiveFalse(pats, scrut) ==
  LET has(p) == \E k \in DOMAIN pats : pats[k] = p
  IN has(Wild) \/ (scrut = BoolTy /\ has(BoolExpr(FALSE)))

Scalar(ty) == ty \in {IntTy, BoolTy}
Exhaustive(pats, scrut) ==
  LET has(p) == \E k \in DOMAIN pats : pats[k] = p
  IN has(Wild) \/ (scrut = BoolTy /\ has(BoolExpr(TRUE)) /\ has(BoolExpr(FALSE)))

\* One arm, its pattern first: t.ty is the type of the arms before it.
CheckArm(c, id, e, scrut, t, k) ==
  LET pat   == e.tags[k]
      fits  == pat = Wild \/ IsError(scrut) \/ scrut.t = pat.kind
      body  == CheckKid(c, id, e, k + 1, Require(t, fits, "TypeMismatch"))
  IN IF k = 1 THEN body
     ELSE IF Compatible(t.ty, body.ty) THEN Typed(body, Joined(t.ty, body.ty))
     ELSE Fails(body, "IfBranchMismatch")

CheckMatch(c, id, e, s) ==
  LET scrut == CheckKid(c, id, e, 1, s)
      ty    == scrut.ty
      arms  == FoldLeftDomain(LAMBDA t, k : CheckArm(c, id, e, ty, t, k),
                 Typed(Require(scrut, IsError(ty) \/ Scalar(ty), "TypeMismatch"), UnitTy), e.tags)
  IN Require(arms, Scalar(ty) => Exhaustive(e.tags, ty), "NonExhaustiveMatch")

CheckKind(c, id, e, s) ==
  CASE e.kind \in {"Int", "Float", "Bool", "Str"} -> Typed(s, Prim(e.kind))
    [] e.kind = "Name"       -> CheckName(c, id, s)
    [] e.kind = "Unary"      -> CheckUnary(c, id, e, s)
    [] e.kind = "Binary"     -> CheckBinary(c, id, e, s)
    [] e.kind = "Call"       -> CheckCall(c, id, e, s)
    [] e.kind = "Assign"     -> CheckAssign(c, id, e, s)
    [] e.kind = "AssignOp"   -> CheckAssignOp(c, id, e, s)
    [] e.kind = "ArrayLit"   -> CheckArrayLit(c, id, e, s)
    [] e.kind = "Index"      -> CheckIndex(c, id, e, s)
    [] e.kind = "StructLit"  -> CheckStructLit(c, id, e, s)
    [] e.kind = "Field"      -> CheckField(c, id, e, s)
    [] e.kind = "TupleLit"   -> CheckTupleLit(c, id, e, s)
    [] e.kind = "TupleIndex" -> CheckTupleIndex(c, id, e, s)
    [] e.kind = "If"         -> CheckIf(c, id, e, s)
    [] e.kind = "Match"      -> CheckMatch(c, id, e, s)
    [] e.kind = "Block"      -> CheckBlock(c, id, e, s)

CheckExpr(c, id, e, s) ==
  Recorded(id, CheckKind(c, id, e, s))

CheckLet(c, id, let, s) ==
  LET init  == CheckKid(c, id, let, 1, s)
      annot == ResolveType(c, let.ann, init)
  IN IF let.ann = NoType THEN Bind(init, id, init.ty)
     ELSE Bind(Require(annot, Compatible(init.ty, annot.ty), "TypeMismatch"), id, annot.ty)

CheckReturn(c, id, e, s) ==
  LET t == IF IsAbsent(e.kids[1]) THEN Typed(s, UnitTy) ELSE CheckKid(c, id, e, 1, s)
  IN Expect(t, s.ret, "ReturnTypeMismatch")

\* Faulty variant: the depth is not restored.
CheckBodyDepth(c, id, loop, s) ==
  CheckBlock(c, Append(id, Len(loop.kids)), loop.kids[Len(loop.kids)], [s EXCEPT !.depth = @ + 1])

\* The body of a loop, which is the last of its kids.
CheckBody(c, id, loop, s) ==
  LET n == Len(loop.kids)
      t == CheckBlock(c, Append(id, n), loop.kids[n], [s EXCEPT !.depth = @ + 1])
  IN [t EXCEPT !.depth = @ - 1]

CheckFor(c, id, loop, s) ==
  LET bound(t, k) == Expect(CheckKid(c, id, loop, k, t), IntTy, "TypeMismatch")
  IN CheckBody(c, id, loop, Bind(bound(bound(s, 1), 2), id, IntTy))

CheckForEach(c, id, loop, s) ==
  LET iter == CheckKid(c, id, loop, 1, s)
      elem == ElementOf(iter.ty, iter)
  IN CheckBody(c, id, loop, Bind(elem, id, elem.ty))

CheckStmt(c, id, e, s) ==
  CASE e.kind = "Let"     -> CheckLet(c, id, e, s)
    [] e.kind = "Expr"    -> CheckKid(c, id, e, 1, s)
    [] e.kind = "Return"  -> CheckReturn(c, id, e, s)
    [] e.kind = "While"   ->
         CheckBody(c, id, e, Expect(CheckKid(c, id, e, 1, s), BoolTy, "NonBoolCondition"))
    [] e.kind = "For"     -> CheckFor(c, id, e, s)
    [] e.kind = "ForEach" -> CheckForEach(c, id, e, s)
    [] e.kind \in {"Break", "Continue"} -> Require(s, s.depth > 0, "BreakOutsideLoop")

Check(c, id, e, s) ==
  IF e.kind \in StatementKinds THEN CheckStmt(c, id, e, s) ELSE CheckExpr(c, id, e, s)

\* Whether control surely leaves by a return.
RECURSIVE Diverges(_)
Diverges(e) ==
  CASE e.kind = "Return"          -> TRUE
    [] e.kind \in {"Expr", "Let"} -> Diverges(e.kids[1])
    [] e.kind = "Block"           -> \E k \in DOMAIN e.kids : Diverges(e.kids[k])
    [] e.kind = "If"              -> Diverges(e.kids[2]) /\ Diverges(e.kids[3])
    [] OTHER                      -> FALSE

----------------------------------------------------------------------------
(* Items, each the turn of a loop over a table.                            *)

\* A repeated field is reported and kept.
CollectStruct(c, item, s) ==
  LET again(k) == \E j \in 1 .. k - 1 : item.members[j].name = item.members[k].name
      field(t, k) == ResolveType(c, item.members[k].ty, Require(t, ~ again(k), "BadStructLiteral"))
      r == Through(field, Len(item.members), s)
  IN [r.s EXCEPT !.structs = Append(@, [k \in DOMAIN r.tys |->
                               [name |-> item.members[k].name, ty |-> r.tys[k]]])]
CollectStructs(c, s) ==
  FoldLeft(LAMBDA t, i : CollectStruct(c, c.items[i], t), s, c.tabs.structs)

CollectSignature(c, i, s) ==
  LET item   == c.items[i]
      param(t, k) == LET u == ResolveType(c, item.members[k].ty, t) IN Bind(u, <<i, -k>>, u.ty)
      params == Through(param, Len(item.members), s)
      ret    == IF item.ty = NoType THEN Typed(params.s, UnitTy)
                ELSE ResolveType(c, item.ty, params.s)
  IN [ret EXCEPT !.sigs = Append(@, [params |-> params.tys, ret |-> ret.ty])]
CollectSignatures(c, s) == FoldLeft(LAMBDA t, i : CollectSignature(c, i, t), s, c.tabs.fns)

CheckMain(c, s) ==
  LET ids == Lookup(c.items, c.tabs.fns, "main")
      sig == s.sigs[TheOne(ids)]
  IN IF ids # {} /\ sig.params = <<>> /\ sig.ret = UnitTy THEN [s EXCEPT !.main = TheOne(ids)]
     ELSE Report(s, "BadMain")

\* Faulty variant: a tail of the wrong type is only checked when it is missing.
CheckFnTail(c, id, s) ==
  LET i == c.tabs.fns[id]
      t == CheckBlock(c, <<i>>, c.items[i].body, [s EXCEPT !.ret = s.sigs[id].ret])
  IN Require(t, t.ty # UnitTy \/ s.sigs[id].ret = UnitTy, "MissingReturn")

\* The value that falls off the end of the body is checked unless every path returns.
CheckFn(c, id, s) ==
  LET i    == c.tabs.fns[id]
      ret  == s.sigs[id].ret
      ends(t) == Require(t, Diverges(c.items[i].body) \/ Compatible(t.ty, ret),
                         IF t.ty = UnitTy THEN "MissingReturn" ELSE "ReturnTypeMismatch")
  IN ends(CheckBlock(c, <<i>>, c.items[i].body, [s EXCEPT !.ret = ret]))

----------------------------------------------------------------------------
(* Constants.  A ConstValue is a HIR literal, as lowering inlines it, and  *)
(* Nothing is None.                                                        *)

Wrapped(o) == IF o.status = "ok" THEN IntLit(o.v.v) ELSE Nothing

EvalUnary(op, v) ==
  CASE op = "Neg" /\ v.kind = "Int"   -> IntLit(Wrap(-v.n))
    [] op = "Neg" /\ v.kind = "Float" -> FloatLit(UnaryFloat("NegFloat", v.n))
    [] op = "Not" /\ v.kind = "Bool"  -> BoolLit(v.n = 0)
    [] OTHER                          -> Nothing

SameLiteral(a, b) ==
  CASE a.kind = "Float" -> F64.eq[a.n, b.n]
    [] a.kind = "Str"   -> Texts[a.n] = Texts[b.n]
    [] OTHER            -> a.n = b.n

\* A division by zero, and one that overflows, has no value.
EvalBinary(op, a, b) ==
  CASE a.kind # b.kind   -> Nothing
    [] op \in Equality   -> BoolLit(SameLiteral(a, b) <=> (op = "Eq"))
    [] op \in Logical /\ a.kind = "Bool" ->
         BoolLit(IF op = "And" THEN a.n + b.n = 2 ELSE a.n + b.n > 0)
    [] op \in Numeric /\ a.kind = "Int"   -> Wrapped(ArithInt(op \o "Int", a.n, b.n))
    [] op \in Ordered /\ a.kind = "Int"   -> BoolLit(OrderInt(op \o "Int", a.n, b.n))
    [] op \in Numeric /\ a.kind = "Float" -> FloatLit(ArithFloat(op \o "Float", a.n, b.n))
    [] op \in Ordered /\ a.kind = "Float" -> BoolLit(OrderFloat(op \o "Float", a.n, b.n))
    [] OTHER -> Nothing

RECURSIVE EvalConst(_, _, _, _)
EvalConst(c, id, e, s) ==
  LET kid(k) == EvalConst(c, Append(id, k), e.kids[k], s)
      res    == UseOf(c, id)
  IN CASE e.kind \in ElemKinds -> Node(e.kind, e.kind, e.n, "", <<>>)
       [] e.kind = "Name" /\ res.r = "Const" ->
            IF res.def[1] \in DOMAIN s.consts THEN s.consts[res.def[1]].value ELSE Nothing
       [] e.kind = "Unary"  -> IF kid(1) = Nothing THEN Nothing ELSE EvalUnary(e.x, kid(1))
       [] e.kind = "Binary" -> IF Nothing \in {kid(1), kid(2)} THEN Nothing
                               ELSE EvalBinary(e.x, kid(1), kid(2))
       [] OTHER -> Nothing

DefaultConst(ty) ==
  CASE ty.t = "Float" -> FloatLit(0)
    [] ty.t = "Bool"  -> BoolLit(FALSE)
    [] ty.t = "Str"   -> StrLit(CHOOSE i \in DOMAIN Texts : Texts[i] = <<>>)
    [] OTHER          -> IntLit(0)

\* Constant i, of type ty, when its value was checked in t.  One that has no value is
\* reported, unless its type is in error.
ConstChecked(c, i, ty, t) ==
  LET v    == EvalConst(c, <<i>>, c.items[i].body, t)
      ok   == v # Nothing \/ IsError(t.ty)
      item == [ty |-> ty, value |-> IF v = Nothing THEN DefaultConst(ty) ELSE v]
  IN [Require(Expect(t, ty, "TypeMismatch"), ok, "NotConstant") EXCEPT !.consts = Append(@, item)]

CheckConst(c, i, s) ==
  LET declared == ResolveType(c, c.items[i].ty, s)
  IN ConstChecked(c, i, declared.ty, Check(c, <<i>>, c.items[i].body, declared))
=============================================================================
