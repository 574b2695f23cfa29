------------------------------ MODULE MirBuild ------------------------------
(***************************************************************************)
(* Lowering of HIR to MIR (mir/build.rs).  A builder b is [locals, regs,   *)
(* blocks, cur, loops, out]: the counts of locals and registers, the       *)
(* blocks so far, the one instructions go to, the enclosing loops, and the *)
(* operand that holds the value of the expression lowered last.            *)
(***************************************************************************)
EXTENDS Hir, Mir

LOCAL INSTANCE SequencesExt

EmptyBlock == [insts |-> <<>>, term |-> Unreachable]
Builder(f) == [locals |-> f.locals, regs |-> 0, blocks |-> <<EmptyBlock>>, cur |-> 0,
               loops |-> <<>>, out |-> UnitV]

NextBlock(b)    == Len(b.blocks)
NewBlocks(b, k) == [b EXCEPT !.blocks = @ \o [i \in 1 .. k |-> EmptyBlock]]
At(b, block)    == [b EXCEPT !.cur = block]
Yielding(b, o)  == [b EXCEPT !.out = o]
FreshLocal(b)   == [b EXCEPT !.locals = @ + 1]

EmitInst(b, i) == [b EXCEPT !.blocks[b.cur + 1].insts = Append(@, i)]
StoreTo(b, l, o) == EmitInst(b, Inst("Store", NoReg, "", l, <<o>>))

\* A block that has a terminator keeps it.
Terminate(b, term) ==
  [b EXCEPT !.blocks[b.cur + 1].term = IF @.kind = "Unreachable" THEN term ELSE @]

\* An instruction with a fresh result register.
PushValue(b, kind, op, n, args) ==
  Yielding(EmitInst([b EXCEPT !.regs = @ + 1], Inst(kind, b.regs, op, n, args)), Reg(b.regs))

\* Go on in a new block, which nothing jumps to.
InDeadBlock(b) == At(NewBlocks(b, 1), NextBlock(b))

InLoop(b, continue, break) ==
  [b EXCEPT !.loops = Append(@, [continue |-> continue, break |-> break])]
OutOfLoop(b) == [b EXCEPT !.loops = Front(@)]

LoopExit(b, which) ==
  InDeadBlock(IF b.loops = <<>> THEN b ELSE Terminate(b, Goto(Last(b.loops)[which])))

----------------------------------------------------------------------------
RECURSIVE Lower(_, _)

\* Lowers the children in order: the builder and their operands.
LowerAll(b, nodes) ==
  FoldLeft(LAMBDA r, e : LET c == Lower(r.b, e)
                         IN [b |-> c, ops |-> Append(r.ops, c.out)],
           [b |-> b, ops |-> <<>>], nodes)

LowerInto(b, e, kind, op, n) ==
  LET r == LowerAll(b, e.kids) IN PushValue(r.b, kind, op, n, r.ops)

LowerStore(b, l, e) == LET c == Lower(b, e) IN Yielding(StoreTo(c, l, c.out), UnitV)

LowerReturn(b, e) == LET c == Lower(b, e) IN InDeadBlock(Terminate(c, Return(c.out)))

\* The blocks header, body and after are numbered when the loop is entered.
LowerWhile(b, cond, body) ==
  LET header == NextBlock(b)
      entered == At(Terminate(NewBlocks(b, 3), Goto(header)), header)
      tested  == Lower(entered, cond)
      inside  == At(Terminate(tested, Branch(tested.out, header + 1, header + 2)), header + 1)
      looped  == OutOfLoop(Lower(InLoop(inside, header, header + 2), body))
  IN At(Terminate(looped, Goto(header)), header + 2)

\* header, body, incr and after; continue goes to incr.
LowerFor(b, s) ==
  LET bounds  == LowerStore(LowerStore(b, s.n, s.kids[1]), EndVar(s), s.kids[2])
      header  == NextBlock(bounds)
      entered == At(Terminate(NewBlocks(bounds, 4), Goto(header)), header)
      v       == PushValue(entered, "Load", "", s.n, <<>>)
      end     == PushValue(v, "Load", "", EndVar(s), <<>>)
      tested  == PushValue(end, "Binary", "Lt", 0, <<v.out, end.out>>)
      inside  == At(Terminate(tested, Branch(tested.out, header + 1, header + 3)), header + 1)
      looped  == OutOfLoop(Lower(InLoop(inside, header + 2, header + 3), s.kids[3]))
      again   == At(Terminate(looped, Goto(header + 2)), header + 2)
      old     == PushValue(again, "Load", "", s.n, <<>>)
      next    == PushValue(old, "Binary", "Add", 0, <<old.out, IntV(1)>>)
  IN At(Terminate(StoreTo(next, s.n, next.out), Goto(header)), header + 3)

\* Both arms leave their value in the local `result' and meet in `merge'.
Arm(b, block, e, result, merge) ==
  LET c == Lower(At(b, block), e) IN Terminate(StoreTo(c, result, c.out), Goto(merge))
Merged(b, result, merge) == PushValue(At(b, merge), "Load", "", result, <<>>)

\* a && b, or a || b: the other operand is only evaluated in a block of its own.
LowerLogical(b, lhs, rhs, or) ==
  LET result == b.locals
      l      == Lower(FreshLocal(b), lhs)
      eval   == NextBlock(l)
      short  == eval + 1
      split  == Terminate(NewBlocks(l, 3),
                          IF or THEN Branch(l.out, short, eval) ELSE Branch(l.out, eval, short))
      right  == Arm(split, eval, rhs, result, eval + 2)
      left   == Arm(right, short, BoolLit(or), result, eval + 2)
  IN Merged(left, result, eval + 2)

LowerIf(b, cond, then, else) ==
  LET result == b.locals
      c      == Lower(FreshLocal(b), cond)
      first  == NextBlock(c)
      split  == Terminate(NewBlocks(c, 3), Branch(c.out, first, first + 1))
      left   == Arm(split, first, then, result, first + 2)
      right  == Arm(left, first + 1, else, result, first + 2)
  IN Merged(right, result, first + 2)

\* Faulty variant: strings are added like numbers.
LowerBinaryPlain(b, e) ==
  IF e.x \in {"And", "Or"} THEN LowerLogical(b, e.kids[1], e.kids[2], e.x = "Or")
  ELSE LowerInto(b, e, "Binary", e.x, 0)

LowerBinary(b, e) ==
  IF e.x \in {"And", "Or"} THEN LowerLogical(b, e.kids[1], e.kids[2], e.x = "Or")
  ELSE IF e.x = "Add" /\ e.kids[1].ty = "Str" THEN LowerInto(b, e, "Concat", "", 0)
  ELSE LowerInto(b, e, "Binary", e.x, 0)

\* Structs are arrays; a field is a constant index.
LowerGetField(b, e) ==
  LET c == Lower(b, e.kids[1]) IN PushValue(c, "Index", "", 0, <<c.out, IntV(e.n)>>)
LowerSetField(b, e) ==
  LET r == LowerAll(b, e.kids)
  IN Yielding(EmitInst(r.b, Inst("SetIndex", NoReg, "", 0, <<r.ops[1], IntV(e.n), r.ops[2]>>)), UnitV)
LowerSetIndex(b, e) ==
  LET r == LowerAll(b, e.kids) IN Yielding(EmitInst(r.b, Inst("SetIndex", NoReg, "", 0, r.ops)), UnitV)

\* The value of a block is that of its tail, the last of its kids.
LowerBlock(b, e) == FoldLeft(LAMBDA c, s : Lower(c, s), b, e.kids)

Lower(b, e) ==
  CASE e.kind = "Int"     -> Yielding(b, IntV(e.n))
    [] e.kind = "Float"   -> Yielding(b, FloatV(e.n))
    [] e.kind = "Bool"    -> Yielding(b, BoolV(e.n = 1))
    [] e.kind = "Str"     -> Yielding(b, StrV(Texts[e.n]))
    [] e.kind = "Nothing" -> Yielding(b, UnitV)
    [] e.kind = "Local"   -> PushValue(b, "Load", "", e.n, <<>>)
    [] e.kind = "Unary"   -> LowerInto(b, e, "Unary", e.x, 0)
    [] e.kind = "Binary"  -> LowerBinary(b, e)
    [] e.kind \in CallKinds                 -> LowerInto(b, e, e.kind, e.x, e.n)
    [] e.kind \in {"Assign", "Let"}         -> LowerStore(b, e.n, e.kids[1])
    [] e.kind \in {"ArrayLit", "StructLit"} -> LowerInto(b, e, "MakeArray", "", 0)
    [] e.kind = "Index"    -> LowerInto(b, e, "Index", "", 0)
    [] e.kind = "SetIndex" -> LowerSetIndex(b, e)
    [] e.kind = "GetField" -> LowerGetField(b, e)
    [] e.kind = "SetField" -> LowerSetField(b, e)
    [] e.kind = "If"       -> LowerIf(b, e.kids[1], e.kids[2], e.kids[3])
    [] e.kind = "Block"    -> LowerBlock(b, e)
    [] e.kind = "Expr"     -> Lower(b, e.kids[1])
    [] e.kind = "Return"   -> LowerReturn(b, e.kids[1])
    [] e.kind = "While"    -> LowerWhile(b, e.kids[1], e.kids[2])
    [] e.kind = "For"      -> LowerFor(b, e)
    [] e.kind = "Break"    -> LoopExit(b, "break")
    [] e.kind = "Continue" -> LoopExit(b, "continue")

BuildFunction(f) ==
  LET c == LowerBlock(Builder(f), f.body)
      b == Terminate(c, Return(c.out))
  IN [params |-> f.params, locals |-> b.locals, regs |-> b.regs, blocks |-> b.blocks, entry |-> 0]

Build(hir) ==
  [functions |-> [i \in DOMAIN hir.functions |-> BuildFunction(hir.functions[i])],
   main |-> hir.main]
=============================================================================
