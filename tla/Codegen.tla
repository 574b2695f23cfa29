------------------------------- MODULE Codegen -------------------------------
(***************************************************************************)
(* The code generator (backend/codegen.rs): HIR to bytecode.  A function   *)
(* compiler c is [code, consts, loops]; every operator takes one and       *)
(* returns it with the instructions of a node emitted.  `loops' is the     *)
(* stack of enclosing loops, each with the offsets of the jumps that wait  *)
(* for its exit and for its continuation point.                            *)
(***************************************************************************)
EXTENDS Bytecode, Hir

LOCAL INSTANCE SequencesExt

\* The placeholder target of a jump, usize::MAX: no code is that long.
Unpatched == 1000000

Fresh   == [code |-> <<>>, consts |-> <<>>, loops |-> <<>>]
Here(c) == Len(c.code)
Emit(c, ops) == [c EXCEPT !.code = @ \o ops]

Intern(c, text) ==
  IF text \in ToSet(c.consts) THEN c ELSE [c EXCEPT !.consts = Append(@, text)]

Patch(c, jumps, target) ==
  [c EXCEPT !.code =
     [i \in DOMAIN c.code |-> IF i - 1 \in jumps THEN [c.code[i] EXCEPT !.n = target]
                              ELSE c.code[i]]]

\* The jump emitted as the last instruction of c.
JumpOf(c)           == {Here(c) - 1}
PatchToHere(c, jumps) == Patch(c, jumps, Here(c))

OpenLoop(c) == [c EXCEPT !.loops = Append(@, [break |-> {}, continue |-> {}])]

\* The loop ends here: its exit and breaks land here, its continues at `again'.
CloseLoop(c, exit, again) ==
  LET loop == Last(c.loops)
      left == [c EXCEPT !.loops = Front(@)]
  IN Patch(Patch(left, exit \cup loop.break, Here(c)), loop.continue, again)

\* A jump of the innermost loop, or one that stays unpatched.
LoopJump(c, which) ==
  LET d == Emit(c, <<WithN("Jump", Unpatched)>>)
  IN IF c.loops = <<>> THEN d
     ELSE [d EXCEPT !.loops[Len(c.loops)][which] = @ \cup JumpOf(d)]

----------------------------------------------------------------------------
RECURSIVE Gen(_, _)
GenAll(c, nodes) == FoldLeft(LAMBDA d, e : Gen(d, e), c, nodes)

GenBlock(c, b) ==
  LET d == GenAll(c, Stmts(b))
  IN IF TailOf(b) = Nothing THEN Emit(d, <<Plain("PushUnit")>>) ELSE Gen(d, TailOf(b))

GenReturn(c, e) ==
  Emit(IF e = Nothing THEN Emit(c, <<Plain("PushUnit")>>) ELSE Gen(c, e), <<Plain("Return")>>)

\* The condition is compiled before the loop is entered: a break in it belongs
\* to the loop outside.
GenWhile(c, cond, body) ==
  LET tested == Emit(Gen(c, cond), <<WithN("JumpIfFalse", Unpatched)>>)
      looped == Emit(GenBlock(OpenLoop(tested), body),
                     <<Plain("Pop"), WithN("Jump", Here(c))>>)
  IN CloseLoop(looped, JumpOf(tested), Here(c))

\* Faulty variant: continue skips the increment.
GenForNoIncrement(c, s) ==
  LET bounds == Emit(Gen(Emit(Gen(c, s.kids[1]), <<WithN("StoreLocal", s.n)>>), s.kids[2]),
                     <<WithN("StoreLocal", EndVar(s))>>)
      tested == Emit(bounds, <<WithN("LoadLocal", s.n), WithN("LoadLocal", EndVar(s)),
                               Plain("LtInt"), WithN("JumpIfFalse", Unpatched)>>)
      body   == Emit(GenBlock(OpenLoop(tested), s.kids[3]), <<Plain("Pop")>>)
      looped == Emit(body, <<WithN("LoadLocal", s.n), WithN("PushInt", 1), Plain("AddInt"),
                             WithN("StoreLocal", s.n), WithN("Jump", Here(bounds))>>)
  IN CloseLoop(looped, JumpOf(tested), Here(bounds))

GenFor(c, s) ==
  LET bounds == Emit(Gen(Emit(Gen(c, s.kids[1]), <<WithN("StoreLocal", s.n)>>), s.kids[2]),
                     <<WithN("StoreLocal", EndVar(s))>>)
      tested == Emit(bounds, <<WithN("LoadLocal", s.n), WithN("LoadLocal", EndVar(s)),
                               Plain("LtInt"), WithN("JumpIfFalse", Unpatched)>>)
      body   == Emit(GenBlock(OpenLoop(tested), s.kids[3]), <<Plain("Pop")>>)
      looped == Emit(body, <<WithN("LoadLocal", s.n), WithN("PushInt", 1), Plain("AddInt"),
                             WithN("StoreLocal", s.n), WithN("Jump", Here(bounds))>>)
  IN CloseLoop(looped, JumpOf(tested), Here(body))

\* Faulty variant: every ordering and arithmetic is on integers.
InstructionOfInt(op, ty) ==
  IF op \in {"Eq", "Ne"} THEN Plain(op)
  ELSE IF op = "Add" /\ ty = "Str" THEN Plain("ConcatStr")
  ELSE Plain(Named(op, "Int"))

\* The instruction is chosen by the type of the operand, not of the result.
Instruction(op, ty) ==
  IF op \in {"Eq", "Ne"} THEN Plain(op)
  ELSE IF op = "Add" /\ ty = "Str" THEN Plain("ConcatStr")
  ELSE Plain(Named(op, ty))

GenAnd(c, a, b) ==
  LET tested == Emit(Gen(c, a), <<WithN("JumpIfFalse", Unpatched)>>)
      right  == Emit(Gen(tested, b), <<WithN("Jump", Unpatched)>>)
      false  == Emit(PatchToHere(right, JumpOf(tested)), <<WithN("PushBool", 0)>>)
  IN PatchToHere(false, JumpOf(right))

GenOr(c, a, b) ==
  LET tested == Emit(Gen(c, a), <<WithN("JumpIfFalse", Unpatched)>>)
      true   == Emit(tested, <<WithN("PushBool", 1), WithN("Jump", Unpatched)>>)
      right  == Gen(PatchToHere(true, JumpOf(tested)), b)
  IN PatchToHere(right, JumpOf(true))

GenIf(c, cond, then, else) ==
  LET tested == Emit(Gen(c, cond), <<WithN("JumpIfFalse", Unpatched)>>)
      left   == Emit(GenBlock(tested, then), <<WithN("Jump", Unpatched)>>)
      target == PatchToHere(left, JumpOf(tested))
      right  == IF else = Nothing THEN Emit(target, <<Plain("PushUnit")>>)
                ELSE Gen(target, else)
  IN PatchToHere(right, JumpOf(left))

\* Faulty variant: one bit less.
ArgcNarrow(args) == Len(args) % ((MaxArgc + 1) \div 2)

\* As a u8: one argument too many and the call has none.
Argc(args) == Len(args) % (MaxArgc + 1)

GenCall(c, e) ==
  LET d    == GenAll(c, e.kids)
      argc == Argc(e.kids)
  IN Emit(d, << IF e.kind = "Call" THEN Call(e.n, argc)
                ELSE IF e.x = "len" THEN Plain("ArrayLen")
                ELSE CallBuiltin(e.x, argc) >>)

GenStr(c, text) ==
  LET d == Intern(c, text)
  IN Emit(d, <<WithN("PushStr", (CHOOSE i \in DOMAIN d.consts : d.consts[i] = text) - 1)>>)

\* A struct is an array of its fields.
GenField(c, e) ==
  LET base == Emit(Gen(c, e.kids[1]), <<WithN("PushInt", e.n)>>)
  IN IF e.kind = "GetField" THEN Emit(base, <<Plain("Index")>>)
     ELSE Emit(Gen(base, e.kids[2]), <<Plain("SetIndex")>>)

\* Evaluates the children in order, then does `ops'.
Then(c, e, ops) == Emit(GenAll(c, e.kids), ops)

Gen(c, e) ==
  CASE e.kind = "Int"       -> Emit(c, <<WithN("PushInt", e.n)>>)
    [] e.kind = "Float"     -> Emit(c, <<WithN("PushFloat", e.n)>>)
    [] e.kind = "Bool"      -> Emit(c, <<WithN("PushBool", e.n)>>)
    [] e.kind = "Str"       -> GenStr(c, Texts[e.n])
    [] e.kind = "Local"     -> Emit(c, <<WithN("LoadLocal", e.n)>>)
    [] e.kind = "Unary"     -> Then(c, e, << IF e.x = "Not" THEN Plain("NotBool")
                                             ELSE Plain(Named("Neg", e.kids[1].ty)) >>)
    [] e.kind = "Binary"    -> IF e.x = "And" THEN GenAnd(c, e.kids[1], e.kids[2])
                               ELSE IF e.x = "Or" THEN GenOr(c, e.kids[1], e.kids[2])
                               ELSE Then(c, e, <<Instruction(e.x, e.kids[1].ty)>>)
    [] e.kind \in CallKinds -> GenCall(c, e)
    [] e.kind = "Assign"    -> Then(c, e, <<WithN("StoreLocal", e.n), Plain("PushUnit")>>)
    [] e.kind \in {"ArrayLit", "StructLit"} ->
                               Then(c, e, <<WithN("MakeArray", Len(e.kids))>>)
    [] e.kind \in {"Index", "SetIndex"}     -> Then(c, e, <<Plain(e.kind)>>)
    [] e.kind \in {"GetField", "SetField"}  -> GenField(c, e)
    [] e.kind = "If"        -> GenIf(c, e.kids[1], e.kids[2], e.kids[3])
    [] e.kind = "Block"     -> GenBlock(c, e)
    [] e.kind = "Let"       -> Then(c, e, <<WithN("StoreLocal", e.n)>>)
    [] e.kind = "Expr"      -> Then(c, e, <<Plain("Pop")>>)
    [] e.kind = "Return"    -> GenReturn(c, e.kids[1])
    [] e.kind = "While"     -> GenWhile(c, e.kids[1], e.kids[2])
    [] e.kind = "For"       -> GenFor(c, e)
    [] e.kind = "Break"     -> LoopJump(c, "break")
    [] e.kind = "Continue"  -> LoopJump(c, "continue")

CompileFunction(f) ==
  LET c == Emit(GenBlock(Fresh, f.body), <<Plain("Return")>>)
  IN [n_params |-> f.params, n_locals |-> f.locals, code |-> c.code, consts |-> c.consts]

Generate(hir) ==
  [functions |-> [i \in DOMAIN hir.functions |-> CompileFunction(hir.functions[i])],
   main |-> hir.main]
=============================================================================
