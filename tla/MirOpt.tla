------------------------------- MODULE MirOpt -------------------------------
(***************************************************************************)
(* The passes over MIR (mir/opt.rs), each as the function it computes, and *)
(* the round of all seven that `optimize' repeats.  No operator here is    *)
(* recursive: the passes walk blocks, not trees.                           *)
(***************************************************************************)
EXTENDS Mir, FiniteSets

OnBlocks(f, block(_)) == [f EXCEPT !.blocks = [k \in DOMAIN f.blocks |-> block(f.blocks[k])]]
OnInsts(b, inst(_))   == [b EXCEPT !.insts = [k \in DOMAIN b.insts |-> inst(b.insts[k])]]

\* The items of s at the positions K, in order.
Rank(K, k) == Cardinality({j \in K : j < k})
Keep(s, K) == [i \in 1 .. Cardinality(K) |-> s[CHOOSE k \in K : Rank(K, k) = i - 1]]

\* An assignment turned into a copy of o.
CopyOf(i, o) == [i EXCEPT !.kind = "Use", !.op = "", !.n = 0, !.args = <<o>>]

----------------------------------------------------------------------------
(* const_fold.                                                             *)

Foldable(i) ==
  /\ \A k \in DOMAIN i.args : ~ IsReg(i.args[k])
  /\ \/ i.kind = "Unary"
     \/ i.kind = "Concat" /\ i.args[1].t = "Str" /\ i.args[2].t = "Str"
     \/ /\ i.kind = "Binary"
        /\ i.args[1].t = i.args[2].t /\ i.args[1].t \in {"Int", "Float", "Bool"}

\* An operation that would fail is left alone.
Folded(i) ==
  IF i.kind = "Unary" THEN UnaryValue(i.op, i.args[1])
  ELSE IF i.kind = "Concat" THEN Ok(StrV(i.args[1].v \o i.args[2].v))
  ELSE BinaryValue(i.op, <<>>, i.args[1], i.args[2])

FoldInst(i) ==
  IF Foldable(i) /\ Folded(i).status = "ok" THEN CopyOf(i, Folded(i).v) ELSE i

FoldTerm(t) ==
  IF t.kind = "Branch" /\ t.arg.t = "Bool" THEN Goto(t.succ[IF t.arg.v THEN 1 ELSE 2]) ELSE t

ConstFold(f) ==
  OnBlocks(f, LAMBDA b : [OnInsts(b, FoldInst) EXCEPT !.term = FoldTerm(@)])

----------------------------------------------------------------------------
(* algebraic_simplify.                                                     *)

IsInt(o, n) == o.t = "Int" /\ o.v = n
SameReg(a, b) == IsReg(a) /\ IsReg(b) /\ a.v = b.v

SimplifyInst(i) ==
  LET a == i.args[1]   b == i.args[2]
  IN IF i.kind # "Binary" THEN i
     ELSE IF \/ (i.op \in {"Add", "Sub"} /\ IsInt(b, 0))
             \/ (i.op \in {"Mul", "Div"} /\ IsInt(b, 1)) THEN CopyOf(i, a)
     ELSE IF \/ (i.op = "Add" /\ IsInt(a, 0))
             \/ (i.op = "Mul" /\ IsInt(a, 1)) THEN CopyOf(i, b)
     ELSE IF \/ (i.op = "Sub" /\ SameReg(a, b))
             \/ (i.op = "Mul" /\ (IsInt(a, 0) \/ IsInt(b, 0)))
             \/ (i.op = "Rem" /\ IsInt(b, 1)) THEN CopyOf(i, IntV(0))
     ELSE i

AlgebraicSimplify(f) == OnBlocks(f, LAMBDA b : OnInsts(b, SimplifyInst))

----------------------------------------------------------------------------
(* copy_propagation.                                                       *)

\* What is read for the operand o.
Source(o, copies) == IF IsReg(o) /\ o.v \in DOMAIN copies THEN copies[o.v] ELSE o

\* Follows a chain of copies; it has no cycle, a register being assigned once.
Resolve(o, copies) ==
  LET after[n \in 0 .. Cardinality(DOMAIN copies)] ==
        IF n = 0 THEN o ELSE Source(after[n - 1], copies)
  IN after[Cardinality(DOMAIN copies)]

\* The registers that are copies, with what they are copies of: a table that the
\* instructions of each block extend, in the order of the code.
CopyAlso(copies, i) ==
  IF i.kind = "Use"
  THEN [r \in DOMAIN copies \cup {i.dst} |->
          IF r = i.dst THEN Resolve(i.args[1], copies) ELSE copies[r]]
  ELSE copies

CopiesAfter(copies, insts) ==
  LET after[k \in 0 .. Len(insts)] == IF k = 0 THEN copies ELSE CopyAlso(after[k - 1], insts[k])
  IN after[Len(insts)]

Copies(f) ==
  LET after[k \in 0 .. Len(f.blocks)] ==
        IF k = 0 THEN <<>> ELSE CopiesAfter(after[k - 1], f.blocks[k].insts)
  IN after[Len(f.blocks)]

CopyPropagation(f) ==
  LET copies    == Copies(f)
      reread(i) == [i EXCEPT !.args = [k \in DOMAIN i.args |-> Source(i.args[k], copies)]]
  IN OnBlocks(f, LAMBDA b : [OnInsts(b, reread) EXCEPT !.term.arg = Source(@, copies)])

----------------------------------------------------------------------------
(* local_cse.                                                              *)

CseKinds == {"Unary", "Binary", "Concat", "Load"}

\* PartialEq on operands: a float constant is compared as a float.
SameOperand(a, b) ==
  a.t = b.t /\ IF a.t = "Float" THEN F64.eq[a.v, b.v] ELSE a.v = b.v

SameRvalue(i, j) ==
  /\ i.kind = j.kind /\ i.op = j.op /\ i.n = j.n
  /\ \A k \in DOMAIN i.args : SameOperand(i.args[k], j.args[k])

\* Faulty variant: a store does not invalidate the loads before it.
ForgetNothing(insts, seen, i) == seen

\* A store invalidates the loads of its local.
Forget(insts, seen, i) ==
  IF i.kind = "Store"
  THEN {j \in seen : ~ (insts[j].kind = "Load" /\ insts[j].n = i.n)} ELSE seen

\* The positions whose result the instruction i repeats.
Repeats(insts, seen, i) ==
  IF i.kind \in CseKinds THEN {j \in seen : SameRvalue(insts[j], i)} ELSE {}

\* The positions whose results can be had again, after each number of instructions: the
\* first of its kind each.
Seen(insts) ==
  LET after[k \in 0 .. Len(insts)] ==
        IF k = 0 THEN {}
        ELSE LET seen == after[k - 1]   i == insts[k]
             IN IF i.kind \in CseKinds /\ Repeats(insts, seen, i) = {} THEN seen \cup {k}
                ELSE Forget(insts, seen, i)
  IN after

First(K) == CHOOSE j \in K : \A k \in K : j <= k

CseBlock(b) ==
  LET same(k) == Repeats(b.insts, Seen(b.insts)[k - 1], b.insts[k])
  IN [b EXCEPT !.insts =
        [k \in DOMAIN @ |-> IF same(k) = {} THEN @[k] ELSE CopyOf(@[k], Reg(@[First(same(k))].dst))]]

LocalCse(f) == OnBlocks(f, CseBlock)

----------------------------------------------------------------------------
(* dead_store and dead_code.                                               *)

\* Another store to the local follows in the block, and no load in between.
Overwritten(insts, k) ==
  /\ insts[k].kind = "Store"
  /\ \E j \in DOMAIN insts :
       /\ j > k /\ insts[j].kind = "Store" /\ insts[j].n = insts[k].n
       /\ \A m \in k .. j : ~ (insts[m].kind = "Load" /\ insts[m].n = insts[k].n)

DeadStore(f) ==
  OnBlocks(f, LAMBDA b :
    [b EXCEPT !.insts = Keep(@, {k \in DOMAIN @ : ~ Overwritten(@, k)})])

RegsOf(args) == {args[k].v : k \in {k \in DOMAIN args : IsReg(args[k])}}
UsedRegs(f) ==
  UNION {RegsOf(<<f.blocks[k].term.arg>>)
           \cup UNION {RegsOf(f.blocks[k].insts[j].args) : j \in DOMAIN f.blocks[k].insts} :
         k \in DOMAIN f.blocks}

\* Every rvalue counts as pure, the ones that can fail included.
DeadCode(f) ==
  LET used == UsedRegs(f)
  IN OnBlocks(f, LAMBDA b :
       [b EXCEPT !.insts = Keep(@, {k \in DOMAIN @ : ~ IsAssign(@[k]) \/ @[k].dst \in used})])

----------------------------------------------------------------------------
(* simplify_cfg.                                                           *)

Collapse(t) ==
  IF t.kind = "Branch" /\ t.succ[1] = t.succ[2] THEN Goto(t.succ[1]) ELSE t

\* The targets of a terminator replaced by the table `to'.
Retarget(t, to) == [t EXCEPT !.succ = [k \in DOMAIN t.succ |-> to[t.succ[k]]]]

\* A jump moves one hop past a block that only jumps.
Forwards(f, b) ==
  /\ BlockOf(f, b).insts = <<>>
  /\ BlockOf(f, b).term.kind = "Goto" /\ BlockOf(f, b).term.succ[1] # b

Hop(f) == [b \in BlockIds(f) |-> IF Forwards(f, b) THEN BlockOf(f, b).term.succ[1] ELSE b]

ThreadBlocks(f) == OnBlocks(f, LAMBDA b : [b EXCEPT !.term = Retarget(@, Hop(f))])

\* Faulty variant: jumps keep the old numbers.
RemoveOnly(f) == [f EXCEPT !.blocks = Keep(@, {b + 1 : b \in Reachable(f)})]

\* The blocks that are left are numbered densely.
Remap(f) == [b \in Reachable(f) |-> Rank(Reachable(f), b)]

RemoveUnreachable(f) ==
  [f EXCEPT !.entry = Remap(f)[@],
            !.blocks = LET kept == Keep(@, {b + 1 : b \in Reachable(f)})
                       IN [k \in DOMAIN kept |->
                             [kept[k] EXCEPT !.term = Retarget(@, Remap(f))]]]

SimplifyCfg(f) ==
  RemoveUnreachable(ThreadBlocks(OnBlocks(f, LAMBDA b : [b EXCEPT !.term = Collapse(@)])))

----------------------------------------------------------------------------

MaxTurns == 8

Passes(f)  == DeadCode(DeadStore(LocalCse(CopyPropagation(AlgebraicSimplify(ConstFold(f))))))
MirTurn(f) == SimplifyCfg(Passes(f))

\* No pass counted a change: each rewrites an operand, a kind or a terminator, or
\* removes an instruction.
Equals(a, b)       == a.t = b.t /\ a.v = b.v
SameReads(as, bs)  == Len(as) = Len(bs) /\ \A k \in DOMAIN as : Equals(as[k], bs[k])
SameInst(i, j)     == i.kind = j.kind /\ SameReads(i.args, j.args)
SameBlock(b, c) ==
  /\ Len(b.insts) = Len(c.insts)
  /\ \A k \in DOMAIN b.insts : SameInst(b.insts[k], c.insts[k])
  /\ b.term.kind = c.term.kind /\ Equals(b.term.arg, c.term.arg)

\* Of simplify_cfg only the blocks it removes are counted.
Quiet(f) ==
  LET g == Passes(f)
  IN /\ \A k \in DOMAIN f.blocks : SameBlock(f.blocks[k], g.blocks[k])
     /\ Len(SimplifyCfg(g).blocks) = Len(f.blocks)
=============================================================================
