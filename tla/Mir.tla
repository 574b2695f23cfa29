--------------------------------- MODULE Mir ---------------------------------
(***************************************************************************)
(* The mid-level intermediate representation (mir/mod.rs): functions are   *)
(* graphs of basic blocks of three-address instructions.                   *)
(*                                                                         *)
(* An operand is a value, for a constant, or a register.  An instruction   *)
(* is [kind, dst, op, n, args]: `kind' names the Rvalue it assigns to the  *)
(* register dst, or the effect; `op' is the operator or the builtin, `n'   *)
(* the local or the function.  A block is [insts, term], a function        *)
(* [params, locals, regs, blocks, entry] with the numbers of its locals    *)
(* and registers.  Blocks, registers and locals are numbered from 0.       *)
(***************************************************************************)
EXTENDS Runtime

Reg(r)   == [t |-> "Reg", v |-> r]
IsReg(o) == o.t = "Reg"
NoReg    == -1

Inst(kind, dst, op, n, args) ==
  [kind |-> kind, dst |-> dst, op |-> op, n |-> n, args |-> args]

\* The instructions Assign { dst, rvalue }, by their rvalue.
RvalueKinds == {"Use", "Load", "Unary", "Binary", "Concat", "MakeArray", "Index"}
IsAssign(i) == i.kind \in RvalueKinds
IsCall(i)   == i.kind \in {"Call", "CallBuiltin"}

Term(kind, arg, succ) == [kind |-> kind, arg |-> arg, succ |-> succ]
Goto(b)               == Term("Goto", UnitV, <<b>>)
Branch(c, then, else) == Term("Branch", c, <<then, else>>)
Return(o)             == Term("Return", o, <<>>)
Unreachable           == Term("Unreachable", UnitV, <<>>)

BlockIds(f)     == 0 .. Len(f.blocks) - 1
BlockOf(f, b)   == f.blocks[b + 1]
Exits(f, b) == {BlockOf(f, b).term.succ[k] : k \in DOMAIN BlockOf(f, b).term.succ}

MirFn(mir, f) == mir.functions[f + 1]
MirFns(mir)   == 0 .. Len(mir.functions) - 1

\* The blocks that can be reached from the blocks S without entering one of
\* `avoiding'.
ReachableFrom(f, S, avoiding) ==
  LET within[d \in 0 .. Len(f.blocks)] ==
        IF d = 0 THEN S \ avoiding
        ELSE LET R == within[d - 1]
             IN R \cup ((UNION {Exits(f, b) : b \in R}) \ avoiding)
  IN within[Len(f.blocks)]

Reachable(f) == ReachableFrom(f, {f.entry}, {})

----------------------------------------------------------------------------
(* Operators on values, by their run-time kind: eval_unary and eval_binary *)
(* of the interpreter, which the constant folder repeats on constants.     *)

UnaryValue(op, x) ==
  IF op = "Neg" /\ x.t = "Int" THEN Ok(IntV(Wrap(-x.v)))
  ELSE IF op = "Neg" /\ x.t = "Float" THEN Ok(FloatV(UnaryFloat("NegFloat", x.v)))
  ELSE IF op = "Not" /\ x.t = "Bool" THEN Ok(BoolV(~ x.v))
  ELSE Err("unexpected kind")

ArithOps == {"Add", "Sub", "Mul", "Div", "Rem"}
OrderOps == {"Lt", "Le", "Gt", "Ge"}
IntOpOf ==
  [Add |-> "AddInt", Sub |-> "SubInt", Mul |-> "MulInt", Div |-> "DivInt", Rem |-> "RemInt",
   Lt |-> "LtInt", Le |-> "LeInt", Gt |-> "GtInt", Ge |-> "GeInt"]
FloatOpOf ==
  [Add |-> "AddFloat", Sub |-> "SubFloat", Mul |-> "MulFloat", Div |-> "DivFloat", Rem |-> "RemFloat",
   Lt |-> "LtFloat", Le |-> "LeFloat", Gt |-> "GtFloat", Ge |-> "GeFloat"]

Equal(op, heap, x, y) ==
  LET e == ValueEq(heap, x, y)
  IN IF e = "overflow" THEN Err("native stack overflow")
     ELSE Ok(BoolV((e = "equal") <=> (op = "Eq")))

BinaryValue(op, heap, x, y) ==
  IF op \in {"Eq", "Ne"} THEN Equal(op, heap, x, y)
  ELSE IF x.t = "Int" /\ y.t = "Int" /\ op \in ArithOps THEN ArithInt(IntOpOf[op], x.v, y.v)
  ELSE IF x.t = "Int" /\ y.t = "Int" /\ op \in OrderOps THEN Ok(BoolV(OrderInt(IntOpOf[op], x.v, y.v)))
  ELSE IF x.t = "Float" /\ y.t = "Float" /\ op \in ArithOps
       THEN Ok(FloatV(ArithFloat(FloatOpOf[op], x.v, y.v)))
  ELSE IF x.t = "Float" /\ y.t = "Float" /\ op \in OrderOps
       THEN Ok(BoolV(OrderFloat(FloatOpOf[op], x.v, y.v)))
  ELSE Err("unexpected kind")

----------------------------------------------------------------------------
(* The shape of mir/mod.rs, over a set O of operands.  The locals and the   *)
(* functions that an instruction may name are N.locals and N.functions.    *)

InstKinds == RvalueKinds \cup {"Call", "CallBuiltin", "Store", "SetIndex"}
TermKinds == {"Goto", "Branch", "Return", "Unreachable"}
MirOps    == {"", "Neg", "Not", "Eq", "Ne"} \cup ArithOps \cup OrderOps \cup BuiltinNames

Insts(O, N) ==
  {i \in [kind : InstKinds, dst : Int, op : MirOps, n : Int, args : Seq(O)] :
     /\ i.kind \in {"Use", "Unary", "Store"} => Len(i.args) = 1
     /\ i.kind \in {"Binary", "Concat", "Index"} => Len(i.args) = 2
     /\ i.kind = "SetIndex" => Len(i.args) = 3
     /\ i.kind = "CallBuiltin" => i.op \in BuiltinNames /\ Len(i.args) = Arity(i.op)
     /\ i.kind \in {"Load", "Store"} => i.n \in N.locals
     /\ i.kind = "Call" => i.n \in N.functions}
Terms(O) ==
  {t \in [kind : TermKinds, arg : O, succ : Seq(Nat)] :
     /\ t.kind = "Goto" => Len(t.succ) = 1
     /\ t.kind = "Branch" => Len(t.succ) = 2}
Blocks(O, N) == [insts : Seq(Insts(O, N)), term : Terms(O)]
Graphs(O, N) == [params : Nat, locals : Nat, regs : Nat, blocks : Seq(Blocks(O, N)), entry : Nat]

\* What a function of the program m can name.
NamesIn(m, f) == [locals |-> 0 .. MirFn(m, f).locals - 1, functions |-> MirFns(m)]

\* A register, or a constant: a value, but no array.
IsOperand(o)   == IsReg(o) \/ IsValue(o, 0)
AreOperands(s) == \A k \in DOMAIN s : IsOperand(s[k])

\* f without its operands: f is in Graphs(O, N) for some O when this is in Graphs({NoReg}, N).
Outline(f) ==
  LET bare(i)  == [i EXCEPT !.args = [a \in DOMAIN i.args |-> NoReg]]
      block(b) == [insts |-> [k \in DOMAIN b.insts |-> bare(b.insts[k])],
                   term  |-> [b.term EXCEPT !.arg = NoReg]]
  IN [f EXCEPT !.blocks = [b \in DOMAIN f.blocks |-> block(f.blocks[b])]]

\* The function f of m has the shape of mir/mod.rs.
IsFunction(m, f) ==
  /\ Outline(MirFn(m, f)) \in Graphs({NoReg}, NamesIn(m, f))
  /\ \A b \in BlockIds(MirFn(m, f)) :
       LET block == BlockOf(MirFn(m, f), b)
       IN IsOperand(block.term.arg) /\ \A k \in DOMAIN block.insts : AreOperands(block.insts[k].args)
=============================================================================
