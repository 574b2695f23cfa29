------------------------------ MODULE Lowering ------------------------------
(***************************************************************************)
(* Lowering of a well-typed program to HIR (hir/lower.rs): names become    *)
(* slots, constants their values, and for-each, match, compound assignment *)
(* and tuples become loops, tests, assignments and structs.                *)
(*                                                                         *)
(* The walk threads s = [slots, map, holes, node]: the number of locals of *)
(* the function so far, the slots of its definitions, whether a place-     *)
(* holder stands for something that was not found, and the node that was   *)
(* lowered last.  c is the resolution with the result `tc' of the checker. *)
(***************************************************************************)
EXTENDS Typeck

LOCAL INSTANCE SequencesExt

Lowered(s, node) == [s EXCEPT !.node = node]
TypeOf(c, id)    == IF id \in DOMAIN c.tc.types THEN c.tc.types[id] ELSE ErrorTy

\* Faulty variant: nothing remembers the slot.
AllocUnmapped(s, def) == [s EXCEPT !.slots = @ + 1]

\* alloc_local and alloc_synthetic: the new slot is s.slots.
AllocSynthetic(s)  == [s EXCEPT !.slots = @ + 1]
AllocLocal(s, def) == [s EXCEPT !.slots = @ + 1, !.map = (def :> s.slots) @@ @]

\* What stands for something that is not there.
Placeholder(s, node) == [s EXCEPT !.holes = TRUE, !.node = node]
HasSlot(s, res) == res.r = "Local" /\ res.def \in DOMAIN s.map
SlotOf(s, res)  == IF HasSlot(s, res) THEN s.map[res.def] ELSE 0
Marking(s, res) == IF HasSlot(s, res) THEN s ELSE [s EXCEPT !.holes = TRUE]

RECURSIVE Lower(_, _, _, _)

\* Lowers the kids at the positions `order', in that order: [s, nodes].
LowerEach(c, id, e, order, s) ==
  Steps(LAMBDA r, k : LET t == Lower(c, Append(id, order[k]), e.kids[order[k]], r.s)
                      IN [s |-> t, nodes |-> Append(r.nodes, t.node)],
        Len(order), [s |-> s, nodes |-> <<>>])
LowerKid(c, id, e, k, s) == Lower(c, Append(id, k), e.kids[k], s)
LowerKids(c, id, e, s)   == LowerEach(c, id, e, [k \in DOMAIN e.kids |-> k], s)
Built(r, node(_))        == Lowered(r.s, node(r.nodes))
\* A node of the same kind over the lowered kids.
LowerSame(c, id, e, node(_), s) == Built(LowerKids(c, id, e, s), node)

LowerBlock(c, id, block, s) ==
  LowerSame(c, id, block, LAMBDA nodes : Block(Front(nodes), Last(nodes)), s)

LowerName(c, id, s) ==
  LET res == UseOf(c, id)
  IN CASE res.r = "Local" -> Lowered(Marking(s, res), Local("", SlotOf(s, res)))
       [] res.r = "Const" -> Lowered(s, c.tc.consts[res.def[1]].value)
       [] OTHER           -> Placeholder(s, IntLit(0))

LowerCall(c, id, e, s) ==
  LET res  == UseOf(c, Append(id, 1))
      args == LowerEach(c, id, e, [k \in 1 .. Len(e.kids) - 1 |-> k + 1], s)
  IN CASE res.r = "Fn"      -> Lowered(args.s, FnCall("", res.def[1] - 1, args.nodes))
       [] res.r = "Builtin" -> Lowered(args.s, BuiltinCall(res.name, args.nodes))
       [] OTHER             -> Placeholder(args.s, FnCall("", 0, args.nodes))

\* Faulty variant: the values in the order they are written.
LowerStructLitWritten(c, id, e, s) == LowerSame(c, id, e, StructLit, s)

\* The values in the order the struct declares its fields, whatever the order in
\* which they are written.
LowerStructLit(c, id, e, s) ==
  LET info == c.tc.structs[TheOne(Lookup(c.items, c.tabs.structs, e.x))]
      init(f) == CHOOSE k \in DOMAIN e.tags : /\ e.tags[k] = info[f].name
                                              /\ \A j \in 1 .. k - 1 : e.tags[j] # e.tags[k]
      r == LowerEach(c, id, e, [f \in DOMAIN info |-> init(f)], s)
  IN Lowered(r.s, StructLit(r.nodes))

\* field_index: the position of field f of the struct that `base' is.
FieldIndex(c, base, f) ==
  LET ty == TypeOf(c, base) IN IF ty.t = "Struct" THEN FieldAt(c.tc.structs[ty.id], f) - 1 ELSE 0

\* A store to an element: of a place with its kids, and then the value.
LowerStore(c, id, e, node(_), s) ==
  LET place == LowerKids(c, Append(id, 1), e.kids[1], s)
      value == LowerKid(c, id, e, 2, place.s)
  IN Lowered(value, node(Append(place.nodes, value.node)))

LowerAssign(c, id, e, s) ==
  LET target == e.kids[1]
      res    == UseOf(c, Append(id, 1))
      value  == LowerKid(c, id, e, 2, s)
      base   == Append(Append(id, 1), 1)
  IN CASE target.kind = "Index" -> LowerStore(c, id, e, LAMBDA k : SetItem(k[1], k[2], k[3]), s)
       [] target.kind = "Field" ->
            LowerStore(c, id, e, LAMBDA k : SetField(k[1], FieldIndex(c, base, target.x), k[2]), s)
       [] target.kind = "TupleIndex" ->
            LowerStore(c, id, e, LAMBDA k : SetField(k[1], target.n, k[2]), s)
       [] OTHER -> Lowered(Marking(value, res), Assign(SlotOf(value, res), value.node))

\* Faulty variant: the operands are exchanged.
LowerAssignOpSwapped(c, id, e, s) ==
  LET res   == UseOf(c, Append(id, 1))
      value == LowerKid(c, id, e, 2, s)
      ty    == TypeOf(c, Append(id, 1)).t
  IN Lowered(value, Assign(SlotOf(s, res), Binary(ty, e.x, value.node, Local(ty, SlotOf(s, res)))))

\* The target is read before the value is evaluated.
LowerAssignOp(c, id, e, s) ==
  LET res   == UseOf(c, Append(id, 1))
      ty    == TypeOf(c, Append(id, 1)).t
      value == LowerKid(c, id, e, 2, s)
      slot  == SlotOf(s, res)
  IN Lowered(Marking(value, res),
             Assign(slot, Binary(ty, e.x, Local(ty, slot), value.node)))

\* The arms before the first wildcard are tested; it, or the last arm, is the default.
\* The chain is built from the back.
Default(pats) ==
  LET wild == {k \in DOMAIN pats : pats[k] = Wild}
  IN IF wild = {} THEN Len(pats) ELSE CHOOSE k \in wild : \A j \in wild : k <= j

LowerMatch(c, id, e, s) ==
  LET scrut == LowerKid(c, id, e, 1, s)
      tmp   == Local(TypeOf(c, Append(id, 1)).t, scrut.slots)
      last  == Default(e.tags)
      literal(p) == Node(p.kind, p.kind, p.n, "", <<>>)
      arm(t, k) ==
        LET body == LowerKid(c, id, e, k + 1, t)
        IN Lowered(body, If(TypeOf(c, id).t, Binary("Bool", "Eq", tmp, literal(e.tags[k])),
                            Block(<<>>, body.node), t.node))
      chain == FoldLeft(arm, LowerKid(c, id, e, last + 1, AllocSynthetic(scrut)),
                        [k \in 1 .. last - 1 |-> last - k])
  IN Lowered(chain, Block(<<Let(tmp.n, scrut.node)>>, chain.node))

LowerKind(c, id, e, s) ==
  CASE e.kind \in ElemKinds   -> Lowered(s, Node(e.kind, e.kind, e.n, "", <<>>))
    [] e.kind = "Name"        -> LowerName(c, id, s)
    [] e.kind = "Unary"       -> LowerSame(c, id, e, LAMBDA k : Unary(e.x, k[1]), s)
    [] e.kind = "Binary"      -> LowerSame(c, id, e, LAMBDA k : Binary("", e.x, k[1], k[2]), s)
    [] e.kind = "Call"        -> LowerCall(c, id, e, s)
    [] e.kind = "Assign"      -> LowerAssign(c, id, e, s)
    [] e.kind = "AssignOp"    -> LowerAssignOp(c, id, e, s)
    [] e.kind = "ArrayLit"    -> LowerSame(c, id, e, ArrayLit, s)
    [] e.kind = "Index"       -> LowerSame(c, id, e, LAMBDA k : GetItem("", k[1], k[2]), s)
    [] e.kind = "StructLit"   -> LowerStructLit(c, id, e, s)
    [] e.kind = "Field"       ->
         LowerSame(c, id, e, LAMBDA k : GetField("", k[1], FieldIndex(c, Append(id, 1), e.x)), s)
    [] e.kind = "TupleLit"    -> LowerSame(c, id, e, StructLit, s)
    [] e.kind = "TupleIndex"  -> LowerSame(c, id, e, LAMBDA k : GetField("", k[1], e.n), s)
    [] e.kind = "If"          -> LowerSame(c, id, e, LAMBDA k : If("", k[1], k[2], k[3]), s)
    [] e.kind = "Match"       -> LowerMatch(c, id, e, s)
    [] e.kind = "Block"       -> LowerBlock(c, id, e, s)

\* Every node gets the type the checker gave to its expression; the body of a loop and
\* the first branch of an if are blocks, and no expressions.
LowerExpr(c, id, e, s) ==
  IF e.kind = "Block" /\ id \notin DOMAIN c.tc.types THEN LowerBlock(c, id, e, s)
  ELSE [LowerKind(c, id, e, s) EXCEPT !.node.ty = TypeOf(c, id).t]

LowerLet(c, id, let, s) ==
  LET value == LowerKid(c, id, let, 1, s)
  IN Lowered(AllocLocal(value, id), Let(value.slots, value.node))

\* The slot that caches the bound follows the slot of the variable.
LowerFor(c, id, loop, s) ==
  LET bounds == LowerEach(c, id, loop, <<1, 2>>, s)
      body   == LowerBlock(c, Append(id, 3), loop.kids[3],
                           AllocSynthetic(AllocLocal(bounds.s, id)))
  IN Lowered(body, For(bounds.s.slots, bounds.nodes[1], bounds.nodes[2], body.node))

\* { let <arr> = array; for <idx> in 0..len(<arr>) { let x = <arr>[<idx>]; body } }
LowerForEach(c, id, loop, s) ==
  LET array == LowerKid(c, id, loop, 1, s)
      ty    == TypeOf(c, Append(id, 1))
      arr   == Local(ty.t, array.slots)
      idx   == array.slots + 1
      t     == AllocLocal(AllocSynthetic(AllocSynthetic(AllocSynthetic(array))), id)
      body  == LowerBlock(c, Append(id, 2), loop.kids[2], t)
      read  == Let(idx + 2, GetItem(ty.of[1].t, arr, Local("Int", idx)))
      turn  == [body.node EXCEPT !.kids = <<read>> \o @]
  IN Lowered(body, Do(Block(<<Let(arr.n, array.node),
                              For(idx, IntLit(0), BuiltinCall("len", <<arr>>), turn)>>, Nothing)))

LowerStmt(c, id, e, s) ==
  CASE e.kind = "Let"     -> LowerLet(c, id, e, s)
    [] e.kind = "Expr"    -> LowerSame(c, id, e, LAMBDA k : Do(k[1]), s)
    [] e.kind = "Return"  -> LowerSame(c, id, e, LAMBDA k : ReturnStmt(k[1]), s)
    [] e.kind = "While"   -> LowerSame(c, id, e, LAMBDA k : While(k[1], k[2]), s)
    [] e.kind = "For"     -> LowerFor(c, id, e, s)
    [] e.kind = "ForEach" -> LowerForEach(c, id, e, s)
    [] e.kind = "Break"    -> Lowered(s, Break)
    [] e.kind = "Continue" -> Lowered(s, Continue)

Lower(c, id, e, s) ==
  IF e.kind \in StatementKinds THEN LowerStmt(c, id, e, s)
  ELSE IF IsAbsent(e) THEN Lowered(s, Nothing)
  ELSE LowerExpr(c, id, e, s)

----------------------------------------------------------------------------
(* Function `id': the parameters have the first slots.                     *)

NoLocals == [slots |-> 0, map |-> <<>>, holes |-> FALSE, node |-> Nothing]

LowerFn(c, id) ==
  LET i    == c.tabs.fns[id]
      args == Len(c.items[i].members)
      s    == FoldLeft(LAMBDA t, k : AllocLocal(t, <<i, -k>>), NoLocals, [k \in 1 .. args |-> k])
      done(t) == [fn |-> Function(args, t.slots, t.node), holes |-> t.holes]
  IN done(LowerBlock(c, <<i>>, c.items[i].body, s))
=============================================================================
