------------------------------ MODULE VMProofs ------------------------------
(***************************************************************************)
(* Proofs about the machine: a program whose functions are typed never     *)
(* trips a structural check, its frames tile the stack at every moment and *)
(* no callee touches the values of its callers.  The machine itself never  *)
(* looks at a frame's bounds: everything comes from the typing T.          *)
(*                                                                         *)
(* The second half is the machine's type invariant, for every program,     *)
(* typed or not: an integer never leaves its width, an array reference     *)
(* never dangles, and a string stays a sequence of bytes, whatever the     *)
(* instructions and the builtins compute.                                  *)
(***************************************************************************)
EXTENDS VM, RuntimeProofs

----------------------------------------------------------------------------
(* Programs and instructions.                                              *)

\* Every function of a program has a code of instructions.
LEMMA CodeLemma ==
  ASSUME NEW p, IsProgram(p), NEW f \in FnIds(p)
  PROVE  /\ CodeLen(p, f) \in Nat
         /\ Fn(p, f).n_locals \in Nat
         /\ \A pc \in Pcs(p, f) : IsOp(OpAt(p, f, pc))
<1>1. IsProgram(p)
  OBVIOUS
<1>2. f + 1 \in DOMAIN p.functions
  BY <1>1 DEF IsProgram, FnIds
<1>3. IsChunk(Fn(p, f))
  BY <1>1, <1>2 DEF IsProgram, Fn
<1>4. Fn(p, f).code \in Seq(Ops)
  BY <1>3 DEF IsChunk, Chunks
<1>5. CodeLen(p, f) \in Nat /\ DOMAIN Fn(p, f).code = 1 .. CodeLen(p, f)
  BY <1>4 DEF CodeLen
<1>6. ASSUME NEW pc \in Pcs(p, f) PROVE IsOp(OpAt(p, f, pc))
  <2>1. pc + 1 \in DOMAIN Fn(p, f).code
    BY <1>5 DEF Pcs
  <2> QED BY <2>1, <1>3 DEF IsChunk, Chunks, OpAt
<1> QED BY <1>3, <1>5, <1>6 DEF IsChunk, Chunks

\* The constant pool is a sequence.
LEMMA ConstsLemma ==
  ASSUME NEW p, IsProgram(p), NEW f \in FnIds(p)
  PROVE  Len(Fn(p, f).consts) \in Nat
<1>1. IsProgram(p)
  OBVIOUS
<1>2. f + 1 \in DOMAIN p.functions
  BY <1>1 DEF IsProgram, FnIds
<1>3. IsChunk(Fn(p, f))
  BY <1>1, <1>2 DEF IsProgram, Fn
<1> QED BY <1>3 DEF IsChunk, Chunks

\* An instruction never takes more off the stack than it needs.
LEMMA EffectLemma ==
  ASSUME NEW o, IsOp(o)
  PROVE  Delta(o) \in Int /\ Needed(o) + Delta(o) >= 0
<1>1. o.op \in OpNames /\ o.n \in Int /\ o.argc \in Nat
  BY DEF IsOp, Ops
<1>2. Needed(o) \in Nat
  BY <1>1 DEF Needed, IsOp
<1>3. o.op \in SinkOps => Needed(o) = 1
  BY DEF Needed, SinkOps, BinaryOps, IntArith, FltArith, IntOrder, FltOrder, EqOps
<1> QED BY <1>2, <1>3 DEF Delta

\* An instruction names as many operands as its effect says it takes.
LEMMA WantedLemma ==
  ASSUME NEW o, IsOp(o)
  PROVE  /\ Needed(o) \in Nat
         /\ IsSeq(Wanted(o)) /\ Len(Wanted(o)) = Needed(o)
<1>1. o.op \in OpNames /\ o.n \in Int /\ o.argc \in Nat
  BY DEF IsOp, Ops
<1>2. Needed(o) \in Nat
  BY <1>1 DEF Needed, IsOp
<1>3. \A k \in Nat : Times("Any", k) \in Seq({"Any"}) /\ Len(Times("Any", k)) = k
  BY DEF Times
<1> DEFINE AllKinds == {"Int", "Float", "Str", "Bool", "Array", "Any"}
<1>4. Wanted(o) \in Seq(AllKinds) /\ Len(Wanted(o)) = Needed(o)
  <2>1. CASE o.op \in BinaryOps
    <3>1. Needed(o) = 2
      BY <2>1 DEF Needed
    <3>2. \E x, y \in AllKinds : Wanted(o) = <<x, y>>
      BY <2>1 DEF Wanted, BinaryOps, IntArith, IntOrder, FltArith, FltOrder, EqOps
    <3> QED BY <3>1, <3>2
  <2>2. CASE o.op \in UnaryOps \cup {"JumpIfFalse"}
    <3>1. Needed(o) = 1
      BY <2>2 DEF Needed, UnaryOps, SinkOps, BinaryOps, IntArith, IntOrder, FltArith,
                  FltOrder, EqOps
    <3>2. \E x \in AllKinds : Wanted(o) = <<x>>
      BY <2>2 DEF Wanted, UnaryOps, IntArith, IntOrder, FltArith, FltOrder, EqOps
    <3> QED BY <3>1, <3>2
  <2>3. CASE o.op = "SetIndex"
    <3>1. Wanted(o) = <<"Array", "Int", "Any">>
      BY <2>3 DEF Wanted, IntArith, IntOrder, FltArith, FltOrder, EqOps
    <3>2. Needed(o) = 3
      BY <2>3 DEF Needed, UnaryOps, SinkOps, BinaryOps, IntArith, IntOrder, FltArith,
                  FltOrder, EqOps
    <3> QED BY <3>1, <3>2
  <2>4. CASE o.op \notin BinaryOps \cup UnaryOps \cup {"JumpIfFalse", "SetIndex"}
    <3>1. Wanted(o) = Times("Any", Needed(o))
      BY <2>4 DEF Wanted, UnaryOps, BinaryOps
    <3> QED BY <1>2, <1>3, <3>1
  <2> QED BY <2>1, <2>2, <2>3, <2>4
<1> QED BY <1>2, <1>4 DEF IsSeq

----------------------------------------------------------------------------
(* Outcomes of the machine's own operations.                               *)

LEMMA EqualityLemma ==
  ASSUME NEW o
  PROVE  Equality(o).status \in Clean \cup {"ok"}
BY DEF Equality, Ok, Err, Clean, Aborts
----------------------------------------------------------------------------
(* The invariant.  T is the table of typings a verifier found.             *)

FrameSet == [func : FnIds(program), ip : Nat, base : Nat]

\* What holds of every machine, typed program or not.
Shape ==
  /\ IsProgram(program)
  /\ IsSeq(stack)
  /\ frames \in Seq(FrameSet)
  /\ status = "idle" => stack = <<>> /\ frames = <<>>

TypedMain(T) == program.main \in FnIds(program) /\ TypedBy(program, T)

\* The active function has no code: the verifier skips it, and the machine's next
\* fetch fails.
Stuck == frames # <<>> /\ Pcs(program, Top.func) = {}

OnlyStuckFails == status \in StructureErrors => status = "ip out of bounds" /\ Stuck

\* Discipline with equalities: what it takes for a height that is a function of the
\* program counter alone.
Tight(T) ==
  (status = "running" /\ ~ Stuck /\ ParamsAreLocals) =>
    /\ \A i \in DOMAIN frames : i < Len(frames) =>
         frames[i].base + FrameLocals(i) + FrameHeight(T, i) - 1 = frames[i + 1].base
    /\ Len(stack) = Top.base + FrameLocals(Len(frames)) + FrameHeight(T, Len(frames))

Guarded(T) ==
  /\ Discipline(T) \/ (Stuck /\ Top.base <= Len(stack))
  /\ Tight(T) /\ OnlyStuckFails

\* The assumptions of every lemma about a turn of the run loop in a function that
\* has code.
Turn(T) ==
  Shape /\ TypedMain(T) /\ Discipline(T) /\ Tight(T) /\ status = "running" /\ ~ Stuck

\* The height the typing gives the instruction about to be executed.
H(T) == FrameHeight(T, Len(frames))

\* What a turn of the loop knows about the instruction it has fetched.
LEMMA TurnLemma ==
  ASSUME NEW T, Turn(T)
  PROVE  /\ Len(frames) \in Nat \ {0} /\ Top \in FrameSet
         /\ Top.func \in FnIds(program) /\ Top.ip \in TopPcs /\ Top.base \in Nat
         /\ FrameLocals(Len(frames)) \in Nat
         /\ IsOp(Instr) /\ Needed(Instr) \in Nat
         /\ H(T) \in Nat /\ Needed(Instr) <= H(T)
         /\ Len(stack) \in Nat
         /\ Top.base + FrameLocals(Len(frames)) + H(T) <= Len(stack)
         /\ OperandError(program, Top.func, Instr) = "none"
         /\ \A s \in Successors(Instr, Top.ip) :
              s \in TopPcs /\ T[Top.func][s] = H(T) + Delta(Instr)
<1>1. frames # <<>> /\ frames \in Seq(FrameSet)
  BY DEF Turn, Shape, Discipline
<1>2. Len(frames) \in Nat \ {0} /\ Top \in FrameSet /\ Len(frames) \in DOMAIN frames
  BY <1>1 DEF Top
<1>3. /\ Top.func \in FnIds(program) /\ Top.ip \in TopPcs /\ H(T) # NoHeight
      /\ Top.base + FrameLocals(Len(frames)) + H(T) <= Len(stack)
  BY <1>2 DEF Turn, Discipline, FrameOK, H, Top, TopPcs
<1>4. Top.base \in Nat
  BY <1>2 DEF FrameSet
<1>5. Len(stack) \in Nat
  BY LenLemma DEF Turn, Shape
<1>6. FrameLocals(Len(frames)) \in Nat /\ IsOp(Instr)
  BY <1>3, CodeLemma DEF Turn, Shape, FrameLocals, Instr, Top, TopPcs
<1>7. IsTyping(program, Top.func, T[Top.func])
  BY <1>3 DEF Turn, TypedMain, TypedBy, TopPcs
<1>8. H(T) \in Nat
  BY <1>3, <1>7 DEF H, FrameHeight, IsTyping, TopPcs, Top
<1>9. LocallyTyped(program, Top.func, T[Top.func], Top.ip)
  BY <1>3, <1>7 DEF IsTyping, H, FrameHeight, TopPcs, Top
<1>10. /\ Needed(Instr) <= H(T)
       /\ OperandError(program, Top.func, Instr) = "none"
       /\ \A s \in Successors(Instr, Top.ip) :
            s \in TopPcs /\ T[Top.func][s] = H(T) + Delta(Instr)
  BY <1>9 DEF LocallyTyped, Instr, H, FrameHeight, TopPcs, Top
<1>11. Needed(Instr) \in Nat
  BY <1>6, WantedLemma
<1> QED BY <1>2, <1>3, <1>4, <1>5, <1>6, <1>8, <1>10, <1>11

\* What every lemma about a turn proves.
Keeps(T) == Shape' /\ Guarded(T)' /\ CallersUntouched

\* With parameters counted among the locals, the heights are exact.
LEMMA TightLemma ==
  ASSUME NEW T, Turn(T), ParamsAreLocals
  PROVE  /\ \A i \in 1 .. Len(frames) - 1 :
              frames[i].base + FrameLocals(i) + FrameHeight(T, i) - 1 = frames[i + 1].base
         /\ Len(stack) = Top.base + FrameLocals(Len(frames)) + H(T)
<1>1. Len(frames) \in Nat /\ DOMAIN frames = 1 .. Len(frames)
  BY DEF Turn, Shape
<1>2. /\ \A i \in DOMAIN frames : i < Len(frames) =>
           frames[i].base + FrameLocals(i) + FrameHeight(T, i) - 1 = frames[i + 1].base
      /\ Len(stack) = Top.base + FrameLocals(Len(frames)) + FrameHeight(T, Len(frames))
  BY DEF Turn, Tight
<1>3. \A i \in 1 .. Len(frames) - 1 : i \in DOMAIN frames /\ i < Len(frames)
  BY <1>1
<1> QED BY <1>2, <1>3 DEF H

\* An error about values, or the end of the budget, ends the run cleanly.
LEMMA FailLemma ==
  ASSUME NEW T, Turn(T), NEW e \in Clean, Fail(e)
  PROVE  Keeps(T)
<1>1. /\ status' = e /\ e # "running" /\ e # "idle" /\ e \notin StructureErrors
      /\ program' = program /\ stack' = stack /\ frames' = frames
  BY DEF Fail, Clean, UserErrors, KindErrors, Aborts, StructureErrors
<1>2. Shape'
  BY <1>1 DEF Turn, Shape, FrameSet
<1>3. Guarded(T)'
  BY <1>1 DEF Guarded, Discipline, Tight, OnlyStuckFails
<1>4. Top.base \in Nat /\ Top.base <= Len(stack) /\ DOMAIN stack = 1 .. Len(stack)
        /\ Len(stack) \in Nat
  BY TurnLemma, LenLemma DEF Turn, Shape
<1>5. CallersUntouched
  BY <1>1, <1>4 DEF CallersUntouched
<1> QED BY <1>2, <1>3, <1>5 DEF Keeps

\* A turn that stays in its function: the ip goes to a successor, the stack
\* changes by the effect of the instruction and only above the frame's base.
LEMMA StayLemma ==
  ASSUME NEW T, Turn(T), NEW target, target \in Successors(Instr, Top.ip),
         frames' = Jumped(target), status' = status, program' = program,
         IsSeq(stack'), Len(stack') = Len(stack) + Delta(Instr),
         \A i \in 1 .. Top.base : stack'[i] = stack[i]
  PROVE  Keeps(T)
<1>0. PICK n : n = Len(frames)
  OBVIOUS
<1>1. /\ n \in Nat \ {0} /\ Top \in FrameSet /\ Top.func \in FnIds(program)
      /\ Top.base \in Nat /\ FrameLocals(n) \in Nat /\ Len(stack) \in Nat
      /\ H(T) \in Nat /\ Needed(Instr) <= H(T) /\ IsOp(Instr) /\ Needed(Instr) \in Nat
      /\ Top.base + FrameLocals(n) + H(T) <= Len(stack)
      /\ target \in TopPcs /\ T[Top.func][target] = H(T) + Delta(Instr)
      /\ frames \in Seq(FrameSet) /\ DOMAIN frames = 1 .. n
  BY <1>0, TurnLemma DEF Turn, Shape
<1>2. target \in Nat
  BY <1>1, CodeLemma DEF TopPcs, Pcs, Turn, Shape
<1>3. /\ frames' \in Seq(FrameSet) /\ Len(frames') = n
      /\ \A i \in 1 .. n - 1 : frames'[i] = frames[i]
      /\ frames'[n].func = Top.func /\ frames'[n].base = Top.base /\ frames'[n].ip = target
  <2>1. PICK r : r = [Top EXCEPT !.ip = target]
    OBVIOUS
  <2>2. r \in FrameSet /\ r.func = Top.func /\ r.base = Top.base /\ r.ip = target
    BY <1>1, <1>2, <2>1 DEF FrameSet
  <2>3. frames' = [frames EXCEPT ![n] = r]
    BY <1>0, <2>1 DEF Jumped, Top
  <2> QED BY <1>1, <2>2, <2>3
<1>4. Shape'
  <2>1. FrameSet' = FrameSet
    BY DEF FrameSet
  <2> QED BY <1>3, <2>1 DEF Turn, Shape
<1>5. Delta(Instr) \in Int /\ Needed(Instr) + Delta(Instr) >= 0
  BY <1>1, EffectLemma
<1>9. /\ \A i \in 1 .. n - 1 : /\ FrameHeight(T, i)' = FrameHeight(T, i)
                               /\ FrameLocals(i)' = FrameLocals(i)
                               /\ frames'[i + 1].base = frames[i + 1].base
      /\ FrameHeight(T, n)' = H(T) + Delta(Instr)
      /\ FrameLocals(n)' = FrameLocals(n)
  <2>1. \A i \in 1 .. n - 1 : /\ FrameHeight(T, i)' = FrameHeight(T, i)
                              /\ FrameLocals(i)' = FrameLocals(i)
    BY <1>1, <1>3 DEF FrameHeight, FrameLocals
  <2>2. FrameHeight(T, n)' = H(T) + Delta(Instr) /\ FrameLocals(n)' = FrameLocals(n)
    BY <1>0, <1>1, <1>3 DEF FrameHeight, FrameLocals, Top, H
  <2>3. \A i \in 1 .. n - 1 : frames'[i + 1].base = frames[i + 1].base
    BY <1>0, <1>1, <1>3 DEF Top
  <2> QED BY <2>1, <2>2, <2>3
<1>6. Discipline(T)'
  <2>1. /\ status = "running" /\ \A i \in DOMAIN frames : FrameOK(T, i)
        /\ \A i \in DOMAIN frames : i < n =>
             /\ FrameHeight(T, i) >= 1
             /\ frames[i].base + FrameLocals(i) + FrameHeight(T, i) - 1 <= frames[i + 1].base
    BY <1>0 DEF Turn, Discipline
  <2>2. ASSUME NEW i \in 1 .. n - 1 PROVE FrameOK(T, i)'
    <3>1. i \in DOMAIN frames /\ frames'[i] = frames[i]
      BY <1>1, <1>3
    <3>2. FrameOK(T, i)
      BY <2>1, <3>1
    <3> QED BY <3>1, <3>2 DEF FrameOK, FrameHeight
  <2>4. FrameOK(T, n)'
    BY <1>0, <1>1, <1>3, <1>5, <1>9 DEF FrameOK, TopPcs, NoHeight
  <2>5. DOMAIN frames' = 1 .. n /\ frames' # <<>>
    BY <1>1, <1>3
  <2>6. \A i \in 1 .. n : FrameOK(T, i)'
    BY <1>1, <2>2, <2>4
  <2>8. ASSUME NEW i \in 1 .. n, i < n
        PROVE  /\ FrameHeight(T, i)' >= 1
               /\ frames'[i].base + FrameLocals(i)' + FrameHeight(T, i)' - 1
                    <= frames'[i + 1].base
    <3>1. i \in 1 .. n - 1 /\ i \in DOMAIN frames
      BY <1>1, <2>8
    <3> QED BY <1>3, <1>9, <2>1, <2>8, <3>1
  <2>9. Top'.base + FrameLocals(n)' + FrameHeight(T, n)' <= Len(stack')
    BY <1>0, <1>1, <1>3, <1>5, <1>9 DEF Top
  <2> QED BY <1>3, <2>5, <2>6, <2>8, <2>9 DEF Discipline
<1>10. Tight(T)'
  <2> SUFFICES ASSUME ParamsAreLocals
               PROVE  /\ \A i \in 1 .. n - 1 :
                           frames'[i].base + FrameLocals(i)' + FrameHeight(T, i)' - 1
                             = frames'[i + 1].base
                      /\ Len(stack') = Top'.base + FrameLocals(n)' + FrameHeight(T, n)'
    BY <1>1, <1>3 DEF Tight, ParamsAreLocals
  <2>1. /\ \A i \in 1 .. n - 1 :
             frames[i].base + FrameLocals(i) + FrameHeight(T, i) - 1 = frames[i + 1].base
        /\ Len(stack) = Top.base + FrameLocals(n) + H(T)
    BY <1>0, <1>1, TightLemma
  <2>2. Len(stack') = Top'.base + FrameLocals(n)' + FrameHeight(T, n)'
    <3>1. PICK b, l, h, d : b = Top.base /\ l = FrameLocals(n) /\ h = H(T) /\ d = Delta(Instr)
      OBVIOUS
    <3>2. b \in Nat /\ l \in Nat /\ h \in Nat /\ d \in Int
      BY <1>1, <1>5, <3>1
    <3>3. Len(stack') = b + l + h + d
      BY <2>1, <3>1
    <3>4. Top'.base = b
      BY <1>3, <3>1 DEF Top
    <3>5. FrameLocals(n)' = l /\ FrameHeight(T, n)' = h + d
      BY <1>9, <3>1
    <3> QED BY <3>2, <3>3, <3>4, <3>5
  <2> QED BY <1>3, <1>9, <2>1, <2>2
<1>7. Guarded(T)'
  BY <1>6, <1>10 DEF Turn, Guarded, OnlyStuckFails, StructureErrors
<1>8. CallersUntouched
  <2>1. Top.base <= Len(stack') /\ DOMAIN stack' = 1 .. Len(stack') /\ Len(stack') \in Nat
    BY <1>1, <1>5, LenLemma
  <2> QED BY <1>1, <2>1 DEF CallersUntouched
<1> QED BY <1>4, <1>7, <1>8 DEF Keeps
----------------------------------------------------------------------------
(* Popping and pushing.                                                    *)

\* The stack without the operands of the instruction keeps what is below the
\* base of the frame, and so does a value pushed on it.
LEMMA BelowLemma ==
  ASSUME NEW T, Turn(T), NEW k \in 0 .. H(T)
  PROVE  /\ IsSeq(Below(k)) /\ Len(Below(k)) = Len(stack) - k
         /\ \A i \in 1 .. Top.base : Below(k)[i] = stack[i]
         /\ \A v : /\ IsSeq(Append(Below(k), v))
                   /\ Len(Append(Below(k), v)) = Len(stack) - k + 1
                   /\ \A i \in 1 .. Top.base : Append(Below(k), v)[i] = stack[i]
<1>1. /\ Top.base \in Nat /\ Len(stack) \in Nat /\ H(T) \in Nat
      /\ Top.base + H(T) <= Len(stack) /\ IsSeq(stack)
  BY TurnLemma DEF Turn, Shape
<1>2. Len(stack) - k \in 0 .. Len(stack) /\ Top.base <= Len(stack) - k
  BY <1>1
<1>3. /\ IsSeq(Below(k)) /\ Len(Below(k)) = Len(stack) - k
      /\ \A i \in 1 .. Len(stack) - k : Below(k)[i] = stack[i]
  BY <1>1, <1>2, PrefixLemma DEF Below
<1>4. ASSUME NEW v
      PROVE  /\ IsSeq(Append(Below(k), v))
             /\ Len(Append(Below(k), v)) = Len(stack) - k + 1
             /\ \A i \in 1 .. Len(stack) - k : Append(Below(k), v)[i] = stack[i]
  BY <1>3, AppendLemma
<1> QED BY <1>1, <1>2, <1>3, <1>4

\* In a typed frame no operand is missing.
LEMMA PopLemma ==
  ASSUME NEW T, Turn(T)
  PROVE  /\ PopFault(Wanted(Instr)) # "none" => PopFault(Wanted(Instr)) = "unexpected kind"
         /\ PopFault(<<>>) = "none"
<1>1. /\ Needed(Instr) \in Nat /\ Len(stack) \in Nat /\ Needed(Instr) <= Len(stack)
      /\ IsOp(Instr)
  BY TurnLemma
<1>2. DOMAIN Wanted(Instr) = 1 .. Needed(Instr)
  BY <1>1, WantedLemma, LenLemma
<1>3. \A k \in DOMAIN Wanted(Instr) : ~ (k > Len(stack))
  BY <1>1, <1>2
<1> QED BY <1>3 DEF PopFault

\* The instructions that replace their operands by one value.
LEMMA YieldsLemma ==
  ASSUME NEW T, Turn(T), NEW kinds, kinds = Wanted(Instr) \/ kinds = <<>>,
         Len(kinds) = Needed(Instr), Delta(Instr) = 1 - Needed(Instr),
         Top.ip + 1 \in Successors(Instr, Top.ip),
         NEW outcome, outcome.status \in Clean \cup {"ok"}, Yields(kinds, outcome)
  PROVE  Keeps(T)
<1>1. CASE PopFault(kinds) # "none"
  <2>1. PopFault(kinds) = "unexpected kind"
    BY <1>1, PopLemma
  <2>2. Fail("unexpected kind") /\ "unexpected kind" \in Clean
    BY <1>1, <2>1 DEF Yields, Pops, Clean, KindErrors
  <2> QED BY <2>2, FailLemma
<1>2. CASE PopFault(kinds) = "none" /\ outcome.status # "ok"
  <2>1. Fail(outcome.status) /\ outcome.status \in Clean
    BY <1>2 DEF Yields, Pops
  <2> QED BY <2>1, FailLemma
<1>3. CASE PopFault(kinds) = "none" /\ outcome.status = "ok"
  <2>1. /\ stack' = Append(Below(Needed(Instr)), outcome.v)
        /\ frames' = Jumped(Top.ip + 1)
        /\ UNCHANGED <<program, status>>
    BY <1>3 DEF Yields, Pops, Advanced, Jumped, Top
  <2>2. Needed(Instr) \in 0 .. H(T) /\ Needed(Instr) \in Nat /\ Len(stack) \in Nat
    BY TurnLemma
  <2>3. /\ IsSeq(stack') /\ Len(stack') = Len(stack) - Needed(Instr) + 1
        /\ \A i \in 1 .. Top.base : stack'[i] = stack[i]
    BY <2>1, <2>2, BelowLemma
  <2>4. Len(stack') = Len(stack) + Delta(Instr)
    BY <2>2, <2>3
  <2> QED BY <2>1, <2>3, <2>4, StayLemma
<1> QED BY <1>1, <1>2, <1>3

----------------------------------------------------------------------------
(* One lemma per family of instructions.                                   *)

\* A local the operand check let through lies between the base of the frame and
\* its operands.
LEMMA LocalLemma ==
  ASSUME NEW T, Turn(T), Instr.op \in {"LoadLocal", "StoreLocal"}
  PROVE  /\ Slot(Instr.n) \in Nat /\ Slot(Instr.n) > Top.base
         /\ Slot(Instr.n) <= Len(stack) - H(T)
         /\ Slot(Instr.n) <= Len(stack)
<1>1. /\ OperandError(program, Top.func, Instr) = "none" /\ IsOp(Instr)
      /\ Top.base \in Nat /\ Len(stack) \in Nat /\ H(T) \in Nat
      /\ FrameLocals(Len(frames)) \in Nat
      /\ Top.base + FrameLocals(Len(frames)) + H(T) <= Len(stack)
  BY TurnLemma
<1>2. Instr.n \in Nat
  BY <1>1 DEF IsOp
<1>3. Instr.n < FrameLocals(Len(frames))
  BY <1>1, <1>2 DEF OperandError, FrameLocals, Top
<1>4. PICK n, l, b, h, len :
        n = Instr.n /\ l = FrameLocals(Len(frames)) /\ b = Top.base /\ h = H(T) /\ len = Len(stack)
  OBVIOUS
<1>5. /\ b + n + 1 \in Nat /\ b + n + 1 > b
      /\ b + n + 1 <= len - h /\ b + n + 1 <= len
  BY <1>1, <1>2, <1>3, <1>4
<1> QED BY <1>4, <1>5 DEF Slot

\* The families whose effect is to replace their operands by a value.
Replacing == OpNames \ (SinkOps \cup {"Jump"})

LEMMA EffectOfReplacing ==
  ASSUME NEW T, Turn(T), Instr.op \in Replacing
  PROVE  /\ Delta(Instr) = 1 - Needed(Instr)
         /\ Top.ip + 1 \in Successors(Instr, Top.ip)
         /\ Len(Wanted(Instr)) = Needed(Instr)
<1>1. IsOp(Instr)
  BY TurnLemma
<1> QED BY <1>1, WantedLemma DEF Delta, Successors, Replacing, SinkOps

LEMMA PushLemma == ASSUME NEW T, Turn(T), Push PROVE Keeps(T)
<1>1. Instr.op \in PushOps /\ Yields(<<>>, Constant(Instr))
  BY DEF Push, Fetches
<1>2. Instr.op \in Replacing /\ Needed(Instr) = 0
  BY <1>1 DEF Replacing, OpNames, PushOps, SinkOps, Needed, BinaryOps, IntArith, FltArith,
              IntOrder, FltOrder, EqOps, UnaryOps, CallOps
<1>3. Instr.op = "PushStr" => Instr.n < Len(Fn(program, Top.func).consts)
  <2>1. /\ OperandError(program, Top.func, Instr) = "none" /\ Top.func \in FnIds(program)
        /\ IsOp(Instr)
    BY TurnLemma
  <2>2. Instr.op = "PushStr" => Instr.n \in Nat
    BY <2>1 DEF IsOp
  <2>3. Len(Fn(program, Top.func).consts) \in Nat
    BY <2>1, ConstsLemma DEF Turn, Shape
  <2> QED BY <2>1, <2>2, <2>3 DEF OperandError
<1>4. Constant(Instr).status = "ok"
  BY <1>1, <1>3 DEF Constant, PushOps, Ok
<1>5. Len(<<>>) = 0
  OBVIOUS
<1> QED BY <1>1, <1>2, <1>4, <1>5, EffectOfReplacing, YieldsLemma

LEMMA LoadLocalLemma == ASSUME NEW T, Turn(T), LoadLocal PROVE Keeps(T)
<1>1. Instr.op = "LoadLocal"
  BY DEF LoadLocal, Fetches
<1>2. Instr.op \in Replacing /\ Needed(Instr) = 0
  BY <1>1 DEF Replacing, OpNames, PushOps, SinkOps, Needed, BinaryOps, IntArith, FltArith,
              IntOrder, FltOrder, EqOps, UnaryOps, CallOps
<1>3. Slot(Instr.n) <= Len(stack)
  BY <1>1, LocalLemma
<1>4. Yields(<<>>, Ok(stack[Slot(Instr.n)])) /\ Len(<<>>) = 0
  BY <1>3 DEF LoadLocal
<1>5. Ok(stack[Slot(Instr.n)]).status = "ok"
  BY DEF Ok
<1> QED BY <1>2, <1>4, <1>5, EffectOfReplacing, YieldsLemma

LEMMA IntOpLemma == ASSUME NEW T, Turn(T), IntOp PROVE Keeps(T)
<1> DEFINE a == Operand(2).v
           b == Operand(1).v
           r == IF Instr.op \in IntArith THEN ArithInt(Instr.op, a, b)
                ELSE Ok(BoolV(OrderInt(Instr.op, a, b)))
<1>1. Instr.op \in IntArith \cup IntOrder /\ Yields(Wanted(Instr), r)
  BY DEF IntOp, Fetches
<1>2. Instr.op \in Replacing
  BY <1>1 DEF Replacing, OpNames, SinkOps, BinaryOps, IntArith, IntOrder
<1>3. r.status \in Clean \cup {"ok"}
  BY ArithLemma DEF Ok
<1> HIDE DEF r
<1> QED BY <1>1, <1>2, <1>3, EffectOfReplacing, YieldsLemma

LEMMA FloatOpLemma == ASSUME NEW T, Turn(T), FloatOp PROVE Keeps(T)
<1> DEFINE a == Operand(2).v
           b == Operand(1).v
           r == IF Instr.op \in FltArith THEN Ok(FloatV(ArithFloat(Instr.op, a, b)))
                ELSE Ok(BoolV(OrderFloat(Instr.op, a, b)))
<1>1. Instr.op \in FltArith \cup FltOrder /\ Yields(Wanted(Instr), r)
  BY DEF FloatOp, Fetches
<1>2. Instr.op \in Replacing
  BY <1>1 DEF Replacing, OpNames, SinkOps, BinaryOps, FltArith, FltOrder
<1>3. r.status \in Clean \cup {"ok"}
  BY DEF Ok
<1> HIDE DEF r
<1> QED BY <1>1, <1>2, <1>3, EffectOfReplacing, YieldsLemma

LEMMA UnaryOpLemma == ASSUME NEW T, Turn(T), UnaryOp PROVE Keeps(T)
<1>1. PICK r : Yields(Wanted(Instr), r) /\ r.status = "ok"
  BY DEF UnaryOp, Fetches, UnaryOps, Ok
<1>2. Instr.op \in Replacing
  BY DEF UnaryOp, Fetches, Replacing, OpNames, SinkOps, UnaryOps
<1> QED BY <1>1, <1>2, EffectOfReplacing, YieldsLemma

LEMMA CompareLemma == ASSUME NEW T, Turn(T), Compare PROVE Keeps(T)
<1>1. Instr.op \in EqOps /\ Yields(Wanted(Instr), Equality(Instr))
  BY DEF Compare, Fetches
<1>2. Instr.op \in Replacing
  BY <1>1 DEF Replacing, OpNames, SinkOps, BinaryOps, EqOps
<1> QED BY <1>1, <1>2, EqualityLemma, EffectOfReplacing, YieldsLemma

LEMMA ConcatStrLemma == ASSUME NEW T, Turn(T), ConcatStr PROVE Keeps(T)
<1> DEFINE r == Ok(StrV(Operand(2).v \o Operand(1).v))
<1>1. Instr.op = "ConcatStr" /\ Yields(Wanted(Instr), r) /\ r.status = "ok"
  BY DEF ConcatStr, Fetches, Ok
<1>2. Instr.op \in Replacing
  BY <1>1 DEF Replacing, OpNames, SinkOps, BinaryOps
<1> HIDE DEF r
<1> QED BY <1>1, <1>2, EffectOfReplacing, YieldsLemma

LEMMA IndexLemma == ASSUME NEW T, Turn(T), Index PROVE Keeps(T)
<1> DEFINE items == heap[Operand(2).v]
           i == Operand(1).v
           r == IF IndexInBounds(i, Len(items)) THEN Ok(items[i + 1])
                ELSE Err("index out of bounds")
<1>1. Instr.op = "Index" /\ Yields(Wanted(Instr), r)
  BY DEF Index, Fetches
<1>2. Instr.op \in Replacing
  BY <1>1 DEF Replacing, OpNames, SinkOps, BinaryOps
<1>3. r.status \in Clean \cup {"ok"}
  BY DEF Ok, Err, Clean, UserErrors
<1> HIDE DEF r
<1> QED BY <1>1, <1>2, <1>3, EffectOfReplacing, YieldsLemma
LEMMA StoreLocalLemma == ASSUME NEW T, Turn(T), StoreLocal PROVE Keeps(T)
<1>1. Instr.op = "StoreLocal" /\ Needed(Instr) = 1 /\ Delta(Instr) = -1
        /\ Top.ip + 1 \in Successors(Instr, Top.ip)
  BY DEF StoreLocal, Fetches, Needed, Delta, SinkOps, BinaryOps, IntArith, FltArith, IntOrder,
         FltOrder, EqOps, UnaryOps, Successors
<1>2. /\ Len(stack) \in Nat /\ H(T) \in Nat /\ 1 <= H(T) /\ Top.base \in Nat
      /\ Slot(Instr.n) \in Nat /\ Slot(Instr.n) > Top.base /\ Slot(Instr.n) <= Len(stack) - H(T)
  BY <1>1, TurnLemma, LocalLemma
<1>3. CASE PopFault(Wanted(Instr)) # "none"
  <2>1. Fail("unexpected kind") /\ "unexpected kind" \in Clean
    BY <1>3, PopLemma DEF StoreLocal, Pops, Clean, KindErrors
  <2> QED BY <2>1, FailLemma
<1>4. CASE PopFault(Wanted(Instr)) = "none"
  <2>1. /\ stack' = [Below(1) EXCEPT ![Slot(Instr.n)] = Operand(1)]
        /\ frames' = Jumped(Top.ip + 1) /\ UNCHANGED <<program, status>>
    <3>1. ~ (Slot(Instr.n) >= Len(stack))
      BY <1>2
    <3> QED BY <1>4, <3>1 DEF StoreLocal, Pops, Advanced, Jumped, Top
  <2>2. /\ IsSeq(Below(1)) /\ Len(Below(1)) = Len(stack) - 1
        /\ \A i \in 1 .. Top.base : Below(1)[i] = stack[i]
    BY <1>2, BelowLemma
  <2>3. Slot(Instr.n) \in 1 .. Len(Below(1)) /\ Top.base < Slot(Instr.n)
    BY <1>2, <2>2
  <2>4. /\ IsSeq(stack') /\ Len(stack') = Len(Below(1))
        /\ \A i \in 1 .. Len(Below(1)) : i # Slot(Instr.n) => stack'[i] = Below(1)[i]
    BY <2>1, <2>2, <2>3, UpdateLemma
  <2>5. \A i \in 1 .. Top.base : stack'[i] = stack[i]
    BY <1>2, <2>2, <2>3, <2>4
  <2>6. Len(stack') = Len(stack) + Delta(Instr)
    BY <1>1, <1>2, <2>2, <2>4
  <2> QED BY <1>1, <2>1, <2>4, <2>5, <2>6, StayLemma
<1> QED BY <1>3, <1>4

LEMMA PopTopLemma == ASSUME NEW T, Turn(T), PopTop PROVE Keeps(T)
<1>1. Instr.op = "Pop" /\ Needed(Instr) = 1 /\ Delta(Instr) = -1
        /\ Top.ip + 1 \in Successors(Instr, Top.ip)
  BY DEF PopTop, Fetches, Needed, Delta, SinkOps, BinaryOps, IntArith, FltArith, IntOrder,
         FltOrder, EqOps, UnaryOps, Successors
<1>2. Len(stack) \in Nat /\ 1 \in 0 .. H(T)
  BY <1>1, TurnLemma
<1>3. CASE PopFault(Wanted(Instr)) # "none"
  <2>1. Fail("unexpected kind") /\ "unexpected kind" \in Clean
    BY <1>3, PopLemma DEF PopTop, Pops, Clean, KindErrors
  <2> QED BY <2>1, FailLemma
<1>4. CASE PopFault(Wanted(Instr)) = "none"
  <2>1. stack' = Below(1) /\ frames' = Jumped(Top.ip + 1) /\ UNCHANGED <<program, status>>
    BY <1>4 DEF PopTop, Pops, Advanced, Jumped, Top
  <2>2. /\ IsSeq(stack') /\ Len(stack') = Len(stack) - 1
        /\ \A i \in 1 .. Top.base : stack'[i] = stack[i]
    BY <1>2, <2>1, BelowLemma
  <2> QED BY <1>1, <1>2, <2>1, <2>2, StayLemma
<1> QED BY <1>3, <1>4

LEMMA MakeArrayLemma == ASSUME NEW T, Turn(T), MakeArray PROVE Keeps(T)
<1>1. Instr.op = "MakeArray" /\ Needed(Instr) = Instr.n
  BY DEF MakeArray, Fetches, Needed, SinkOps, BinaryOps, IntArith, FltArith, IntOrder,
         FltOrder, EqOps, UnaryOps
<1>2. Delta(Instr) = 1 - Needed(Instr) /\ Top.ip + 1 \in Successors(Instr, Top.ip)
  BY <1>1, EffectOfReplacing DEF Replacing, OpNames, SinkOps
<1>3. /\ Len(stack) \in Nat /\ Needed(Instr) \in 0 .. H(T) /\ Needed(Instr) \in Nat
      /\ ~ (Len(stack) < Instr.n)
  BY <1>1, TurnLemma
<1>4. PICK v : stack' = Append(Below(Needed(Instr)), v)
  BY <1>1, <1>3 DEF MakeArray
<1>5. frames' = Jumped(Top.ip + 1) /\ UNCHANGED <<program, status>>
  BY <1>3 DEF MakeArray, Advanced, Jumped, Top
<1>6. /\ IsSeq(stack') /\ Len(stack') = Len(stack) - Needed(Instr) + 1
      /\ \A i \in 1 .. Top.base : stack'[i] = stack[i]
  BY <1>3, <1>4, BelowLemma
<1>7. Len(stack') = Len(stack) + Delta(Instr)
  BY <1>2, <1>3, <1>6
<1> QED BY <1>2, <1>5, <1>6, <1>7, StayLemma

LEMMA SetIndexLemma == ASSUME NEW T, Turn(T), SetIndex PROVE Keeps(T)
<1>1. Instr.op = "SetIndex" /\ Needed(Instr) = 3
  BY DEF SetIndex, Fetches, Needed, SinkOps, BinaryOps, IntArith, FltArith, IntOrder,
         FltOrder, EqOps, UnaryOps
<1>2. Delta(Instr) = 1 - Needed(Instr) /\ Top.ip + 1 \in Successors(Instr, Top.ip)
  BY <1>1, EffectOfReplacing DEF Replacing, OpNames, SinkOps
<1>3. Len(stack) \in Nat /\ 3 \in 0 .. H(T)
  BY <1>1, TurnLemma
<1>4. CASE \E e \in Clean : Fail(e)
  BY <1>4, FailLemma
<1>5. CASE ~ \E e \in Clean : Fail(e)
  <2>1. PopFault(Wanted(Instr)) = "none"
    BY <1>5, PopLemma DEF SetIndex, Pops, Clean, KindErrors
  <2>2. /\ stack' = Append(Below(3), UnitV)
        /\ frames' = Jumped(Top.ip + 1) /\ UNCHANGED <<program, status>>
    BY <1>5, <2>1 DEF SetIndex, Pops, Advanced, Jumped, Top, Clean, UserErrors
  <2>3. /\ IsSeq(stack') /\ Len(stack') = Len(stack) - 3 + 1
        /\ \A i \in 1 .. Top.base : stack'[i] = stack[i]
    BY <1>3, <2>2, BelowLemma
  <2>4. Len(stack') = Len(stack) + Delta(Instr)
    BY <1>1, <1>2, <1>3, <2>3
  <2> QED BY <1>2, <2>2, <2>3, <2>4, StayLemma
<1> QED BY <1>4, <1>5

LEMMA CallBuiltinLemma == ASSUME NEW T, Turn(T), CallBuiltinFn PROVE Keeps(T)
<1> DEFINE r == Eval(Instr.x, Operands(Instr.argc))
<1>1. Instr.op = "CallBuiltin" /\ Needed(Instr) = Instr.argc
  BY DEF CallBuiltinFn, Fetches, Needed, SinkOps, BinaryOps, IntArith, FltArith, IntOrder,
         FltOrder, EqOps, UnaryOps, CallOps
<1>2. Delta(Instr) = 1 - Needed(Instr) /\ Top.ip + 1 \in Successors(Instr, Top.ip)
  BY <1>1, EffectOfReplacing DEF Replacing, OpNames, SinkOps, CallOps
<1>3. Len(stack) \in Nat /\ Needed(Instr) \in 0 .. H(T) /\ IsOp(Instr) /\ Needed(Instr) \in Nat
  BY <1>1, TurnLemma
<1>4. r.status \in Clean \cup {"ok"}
  BY <1>1, <1>3, EvalLemma DEF IsOp
<1>5. CASE \E e \in Clean : Fail(e)
  BY <1>5, FailLemma
<1>6. CASE ~ \E e \in Clean : Fail(e)
  <2>1. PopFault(Wanted(Instr)) = "none"
    BY <1>6, PopLemma DEF CallBuiltinFn, Pops, Clean, KindErrors
  <2>2. r.status = "ok"
    BY <1>4, <1>6, <2>1 DEF CallBuiltinFn, Pops
  <2>3. /\ stack' = Append(Below(Needed(Instr)), r.v)
        /\ frames' = Jumped(Top.ip + 1) /\ UNCHANGED <<program, status>>
    BY <1>1, <2>1, <2>2 DEF CallBuiltinFn, Pops, Advanced, Jumped, Top
  <2>4. /\ IsSeq(stack') /\ Len(stack') = Len(stack) - Needed(Instr) + 1
        /\ \A i \in 1 .. Top.base : stack'[i] = stack[i]
    BY <1>3, <2>3, BelowLemma
  <2>5. Len(stack') = Len(stack) + Delta(Instr)
    BY <1>2, <1>3, <2>4
  <2> QED BY <1>2, <2>3, <2>4, <2>5, StayLemma
<1> QED BY <1>5, <1>6

LEMMA JumpLemma == ASSUME NEW T, Turn(T), Jump PROVE Keeps(T)
<1>1. /\ Instr.op = "Jump" /\ Delta(Instr) = 0 /\ Instr.n \in Successors(Instr, Top.ip)
      /\ frames' = Jumped(Instr.n) /\ UNCHANGED <<program, status, stack>>
  BY DEF Jump, Fetches, Delta, SinkOps, Successors
<1>2. IsSeq(stack) /\ Len(stack) \in Nat
  BY TurnLemma DEF Turn, Shape
<1>3. Len(stack') = Len(stack) + Delta(Instr)
  BY <1>1, <1>2
<1> QED BY <1>1, <1>2, <1>3, StayLemma

LEMMA JumpIfFalseLemma == ASSUME NEW T, Turn(T), JumpIfFalse PROVE Keeps(T)
<1>1. Instr.op = "JumpIfFalse" /\ Needed(Instr) = 1 /\ Delta(Instr) = -1
        /\ Successors(Instr, Top.ip) = {Instr.n, Top.ip + 1}
  BY DEF JumpIfFalse, Fetches, Needed, Delta, SinkOps, BinaryOps, IntArith, FltArith, IntOrder,
         FltOrder, EqOps, UnaryOps, Successors
<1>2. Len(stack) \in Nat /\ 1 \in 0 .. H(T)
  BY <1>1, TurnLemma
<1>3. CASE PopFault(Wanted(Instr)) # "none"
  <2>1. Fail("unexpected kind") /\ "unexpected kind" \in Clean
    BY <1>3, PopLemma DEF JumpIfFalse, Pops, Clean, KindErrors
  <2> QED BY <2>1, FailLemma
<1>4. CASE PopFault(Wanted(Instr)) = "none"
  <2>1. stack' = Below(1) /\ UNCHANGED <<program, status>>
    BY <1>4 DEF JumpIfFalse, Pops
  <2>2. \E target \in {Instr.n, Top.ip + 1} : frames' = Jumped(target)
    BY <1>4 DEF JumpIfFalse, Pops, Advanced, Jumped, Top
  <2>3. /\ IsSeq(stack') /\ Len(stack') = Len(stack) - 1
        /\ \A i \in 1 .. Top.base : stack'[i] = stack[i]
    BY <1>2, <2>1, BelowLemma
  <2>4. Len(stack') = Len(stack) + Delta(Instr)
    BY <1>1, <1>2, <2>3
  <2> QED BY <1>1, <2>1, <2>2, <2>3, <2>4, StayLemma
<1> QED BY <1>3, <1>4
\* A call: the caller waits after its Call, whose height already counts the
\* result, and the arguments become the first locals of the callee.
LEMMA CallLemma == ASSUME NEW T, Turn(T), CallFn PROVE Keeps(T)
<1>0. PICK n, f, argc, base :
        n = Len(frames) /\ f = Instr.n /\ argc = Instr.argc /\ base = Len(stack) - argc
  OBVIOUS
<1>1. Instr.op = "Call" /\ Needed(Instr) = argc /\ Delta(Instr) = 1 - argc
        /\ Top.ip + 1 \in Successors(Instr, Top.ip)
  BY <1>0 DEF CallFn, Fetches, Needed, Delta, SinkOps, BinaryOps, IntArith, FltArith, IntOrder,
         FltOrder, EqOps, UnaryOps, CallOps, Successors
<1>2. /\ n \in Nat \ {0} /\ Top \in FrameSet /\ Top.func \in FnIds(program)
      /\ Top.base \in Nat /\ FrameLocals(n) \in Nat /\ Len(stack) \in Nat
      /\ H(T) \in Nat /\ argc <= H(T) /\ argc \in Nat
      /\ Top.base + FrameLocals(n) + H(T) <= Len(stack)
      /\ Top.ip + 1 \in TopPcs /\ T[Top.func][Top.ip + 1] = H(T) + 1 - argc
      /\ frames \in Seq(FrameSet) /\ DOMAIN frames = 1 .. n
      /\ OperandError(program, Top.func, Instr) = "none"
  <2>1. H(T) + Delta(Instr) = H(T) + 1 - argc
    BY <1>0, <1>1, TurnLemma
  <2> QED BY <1>0, <1>1, <2>1, TurnLemma DEF Turn, Shape
<1>3. f \in FnIds(program)
  BY <1>0, <1>1, <1>2 DEF OperandError
<1>4. /\ stack' = stack \o Reserved(f, argc)
      /\ frames' = Append(Jumped(Top.ip + 1), Frame(f, 0, base))
      /\ status' = "running" /\ program' = program
  <2>1. ~ (Len(stack) < argc)
    BY <1>2
  <2>2. Advanced = Jumped(Top.ip + 1)
    BY DEF Advanced, Jumped, Top
  <2>3. Enter(Advanced, f, argc)
    BY <1>0 DEF CallFn
  <2> QED BY <1>0, <1>3, <2>1, <2>2, <2>3 DEF Enter
<1>5. Top.ip + 1 \in Nat
  BY <1>2, CodeLemma DEF TopPcs, Pcs, Turn, Shape
<1>6. PICK r : r = [Top EXCEPT !.ip = Top.ip + 1]
  OBVIOUS
<1>7. r \in FrameSet /\ r.func = Top.func /\ r.base = Top.base /\ r.ip = Top.ip + 1
  BY <1>2, <1>5, <1>6 DEF FrameSet
<1>8. /\ base \in Nat /\ Frame(f, 0, base) \in FrameSet
      /\ Frame(f, 0, base).func = f /\ Frame(f, 0, base).ip = 0
      /\ Frame(f, 0, base).base = base
  <2>1. /\ Top.base \in Nat /\ FrameLocals(n) \in Nat /\ Len(stack) \in Nat
        /\ H(T) \in Nat /\ argc \in Nat /\ argc <= H(T)
        /\ Top.base + FrameLocals(n) + H(T) <= Len(stack)
    BY <1>2
  <2>2. base \in Nat
    BY <1>0, <2>1
  <2> QED BY <1>3, <2>2 DEF Frame, FrameSet
<1>9. Jumped(Top.ip + 1) = [frames EXCEPT ![n] = r]
  BY <1>0, <1>6 DEF Jumped, Top
<1>10. /\ frames' \in Seq(FrameSet) /\ Len(frames') = n + 1 /\ DOMAIN frames' = 1 .. n + 1
       /\ \A i \in 1 .. n - 1 : frames'[i] = frames[i]
       /\ frames'[n] = r /\ frames'[n + 1] = Frame(f, 0, base)
  <2>1. PICK fs : fs = [frames EXCEPT ![n] = r]
    OBVIOUS
  <2>2. /\ fs \in Seq(FrameSet) /\ Len(fs) = n
        /\ \A i \in 1 .. n - 1 : fs[i] = frames[i]
        /\ fs[n] = r
    BY <1>2, <1>7, <2>1
  <2>3. PICK e : e = Frame(f, 0, base) /\ e \in FrameSet
    BY <1>8
  <2>4. frames' = Append(fs, e)
    BY <1>4, <1>9, <2>1, <2>3
  <2>5. /\ Append(fs, e) \in Seq(FrameSet) /\ Len(Append(fs, e)) = n + 1
        /\ \A i \in 1 .. n : Append(fs, e)[i] = fs[i]
        /\ Append(fs, e)[n + 1] = e
    BY <1>2, <2>2, <2>3
  <2>6. DOMAIN Append(fs, e) = 1 .. n + 1
    BY <2>5
  <2>7. \A i \in 1 .. n - 1 : i \in 1 .. n
    BY <1>2
  <2>8. n \in 1 .. n
    BY <1>2
  <2> QED BY <2>2, <2>3, <2>4, <2>5, <2>6, <2>7, <2>8
<1>11. /\ IsSeq(stack') /\ Len(stack') \in Nat
       /\ base + Fn(program, f).n_locals <= Len(stack')
       /\ argc <= Fn(program, f).n_locals => Len(stack') = base + Fn(program, f).n_locals
       /\ \A i \in 1 .. Len(stack) : stack'[i] = stack[i]
       /\ Len(stack) <= Len(stack')
  <2>1. Fn(program, f).n_locals \in Nat
    BY <1>3, CodeLemma DEF Turn, Shape
  <2>2. PICK k : k \in Nat /\ Reserved(f, argc) = Times(UnitV, k)
                   /\ Fn(program, f).n_locals <= argc + k
                   /\ (argc <= Fn(program, f).n_locals => Fn(program, f).n_locals = argc + k)
    <3> DEFINE l == Fn(program, f).n_locals
    <3>1. CASE l > argc
      <4>1. l - argc \in Nat /\ l = argc + (l - argc) /\ l <= argc + (l - argc)
        BY <1>2, <2>1, <3>1
      <4> QED BY <3>1, <4>1 DEF Reserved
    <3>2. CASE ~ (l > argc)
      <4>1. 0 \in Nat /\ l <= argc + 0 /\ (argc <= l => l = argc + 0)
        BY <1>2, <2>1, <3>2
      <4> QED BY <3>2, <4>1 DEF Reserved
    <3> QED BY <3>1, <3>2
  <2>3. Times(UnitV, k) \in Seq({UnitV}) /\ Len(Times(UnitV, k)) = k
    BY <2>2 DEF Times
  <2>4. IsSeq(stack) /\ IsSeq(Times(UnitV, k))
    BY <2>3 DEF Turn, Shape, IsSeq
  <2>5. /\ IsSeq(stack') /\ Len(stack') = Len(stack) + k
        /\ \A i \in 1 .. Len(stack) : stack'[i] = stack[i]
    BY <1>4, <2>2, <2>3, <2>4, ConcatLemma
  <2>6. PICK a, l : a = Len(stack) /\ l = Fn(program, f).n_locals
    OBVIOUS
  <2>7. /\ a \in Nat /\ l \in Nat /\ base = a - argc /\ l <= argc + k
        /\ argc <= l => l = argc + k
    BY <1>0, <1>2, <2>1, <2>2, <2>6
  <2>8. a + k \in Nat /\ base + l <= a + k /\ a <= a + k /\ (argc <= l => a + k = base + l)
    BY <1>2, <2>2, <2>7
  <2> QED BY <2>5, <2>6, <2>8
<1>12. Shape'
  <2>1. FrameSet' = FrameSet
    BY <1>4 DEF FrameSet
  <2> QED BY <1>4, <1>10, <1>11, <2>1 DEF Turn, Shape
\* What the heights and bases of the callers become.
<1>13. /\ \A i \in 1 .. n - 1 : /\ frames'[i] = frames[i]
                                /\ frames'[i + 1].base = frames[i + 1].base
                                /\ FrameHeight(T, i)' = FrameHeight(T, i)
                                /\ FrameLocals(i)' = FrameLocals(i)
       /\ frames'[n].base = Top.base /\ frames'[n + 1].base = base
       /\ FrameHeight(T, n)' = H(T) + 1 - argc
       /\ FrameLocals(n)' = FrameLocals(n)
  <2>1. \A i \in 1 .. n - 1 : /\ FrameHeight(T, i)' = FrameHeight(T, i)
                              /\ FrameLocals(i)' = FrameLocals(i)
    BY <1>2, <1>4, <1>10 DEF FrameHeight, FrameLocals
  <2>2. FrameHeight(T, n)' = H(T) + 1 - argc /\ FrameLocals(n)' = FrameLocals(n)
    BY <1>0, <1>2, <1>4, <1>7, <1>10 DEF FrameHeight, FrameLocals, Top, H
  <2>3. ASSUME NEW i \in 1 .. n - 1 PROVE frames'[i + 1].base = frames[i + 1].base
    <3>1. CASE i + 1 = n
      BY <1>0, <1>7, <1>10, <3>1 DEF Top
    <3>2. CASE i + 1 # n
      <4>1. i + 1 \in 1 .. n - 1
        BY <1>2, <3>2
      <4> QED BY <1>10, <4>1
    <3> QED BY <3>1, <3>2
  <2> QED BY <1>7, <1>8, <1>10, <2>1, <2>2, <2>3
<1>14. FrameLocals(n + 1)' = Fn(program, f).n_locals /\ Top' = Frame(f, 0, base)
  BY <1>4, <1>8, <1>10 DEF FrameLocals, Top
<1>15. ASSUME Pcs(program, f) = {} PROVE Guarded(T)'
  <2>1. frames' # <<>> /\ Top'.func = f
    BY <1>2, <1>8, <1>10, <1>14
  <2>2. Stuck'
    BY <1>4, <1>15, <2>1 DEF Stuck
  <2>3. Fn(program, f).n_locals \in Nat
    BY <1>3, CodeLemma DEF Turn, Shape
  <2>4. Top'.base <= Len(stack')
    BY <1>8, <1>11, <1>14, <2>3
  <2> QED BY <1>4, <2>2, <2>4 DEF Guarded, Tight, OnlyStuckFails, StructureErrors
<1>16. ASSUME Pcs(program, f) # {} PROVE Guarded(T)'
  <2>1. /\ \A i \in DOMAIN frames : FrameOK(T, i)
        /\ \A i \in DOMAIN frames : i < n =>
             /\ FrameHeight(T, i) >= 1
             /\ frames[i].base + FrameLocals(i) + FrameHeight(T, i) - 1 <= frames[i + 1].base
    BY <1>0 DEF Turn, Discipline
  <2>2. ASSUME NEW i \in 1 .. n - 1 PROVE FrameOK(T, i)'
    <3>1. i \in DOMAIN frames
      BY <1>2
    <3>2. FrameOK(T, i)
      BY <2>1, <3>1
    <3> QED BY <1>4, <1>13, <3>2 DEF FrameOK, FrameHeight
  <2>4. FrameOK(T, n)'
    <3>1. frames'[n].func = Top.func /\ frames'[n].ip = Top.ip + 1
      BY <1>7, <1>10
    <3>2. frames'[n].func \in FnIds(program) /\ frames'[n].ip \in Pcs(program, frames'[n].func)
      BY <1>2, <3>1 DEF TopPcs
    <3>3. FrameHeight(T, n)' # NoHeight
      BY <1>2, <1>13 DEF NoHeight
    <3> QED BY <1>4, <3>2, <3>3 DEF FrameOK
  <2>5. IsTyping(program, f, T[f]) /\ CodeLen(program, f) \in Nat
    BY <1>3, <1>16, CodeLemma DEF Turn, Shape, TypedMain, TypedBy
  <2>6. 0 \in Pcs(program, f) /\ T[f][0] = 0
    BY <1>16, <2>5 DEF IsTyping, Pcs
  <2>7. FrameHeight(T, n + 1)' = 0
    BY <1>4, <1>8, <1>10, <2>6 DEF FrameHeight
  <2>8. FrameOK(T, n + 1)'
    BY <1>3, <1>4, <1>8, <1>10, <2>6, <2>7 DEF FrameOK, NoHeight
  <2>9. ASSUME NEW i \in 1 .. n + 1 PROVE FrameOK(T, i)'
    <3>1. i \in 1 .. n - 1 \/ i = n \/ i = n + 1
      BY <1>2
    <3> QED BY <2>2, <2>4, <2>8, <3>1
  <2>10. ASSUME NEW i \in 1 .. n + 1, i < n + 1
         PROVE  /\ FrameHeight(T, i)' >= 1
                /\ frames'[i].base + FrameLocals(i)' + FrameHeight(T, i)' - 1
                     <= frames'[i + 1].base
    <3>1. CASE i < n
      <4>1. i \in 1 .. n - 1 /\ i \in DOMAIN frames
        BY <1>2, <2>10, <3>1
      <4> QED BY <1>13, <2>1, <3>1, <4>1
    <3>2. CASE i = n
      <4>1. /\ frames'[n].base = Top.base /\ frames'[n + 1].base = base
            /\ FrameHeight(T, n)' = H(T) + 1 - argc /\ FrameLocals(n)' = FrameLocals(n)
        BY <1>13
      <4> QED BY <1>0, <1>2, <3>2, <4>1, SMTT(30)
    <3> QED BY <1>2, <2>10, <3>1, <3>2
  <2>11. Top'.base = base /\ Fn(program, f).n_locals \in Nat
    BY <1>3, <1>8, <1>14, CodeLemma DEF Turn, Shape
  <2>12. Top'.base + FrameLocals(n + 1)' + FrameHeight(T, n + 1)' <= Len(stack')
    BY <1>8, <1>11, <1>14, <2>7, <2>11
  <2>13. frames' # <<>>
    BY <1>2, <1>10
  <2>14. Discipline(T)'
    BY <1>10, <2>9, <2>10, <2>12, <2>13 DEF Discipline
  <2>15. Tight(T)'
    <3> SUFFICES ASSUME ParamsAreLocals
                 PROVE  /\ \A i \in DOMAIN frames' : i < Len(frames') =>
                             frames'[i].base + FrameLocals(i)' + FrameHeight(T, i)' - 1
                               = frames'[i + 1].base
                        /\ Len(stack')
                             = Top'.base + FrameLocals(Len(frames))' + FrameHeight(T, Len(frames))'
      BY <1>4 DEF Tight, ParamsAreLocals
    <3>1. /\ \A i \in 1 .. n - 1 :
               frames[i].base + FrameLocals(i) + FrameHeight(T, i) - 1 = frames[i + 1].base
          /\ Len(stack) = Top.base + FrameLocals(n) + H(T)
      BY <1>0, <1>2, TightLemma
    <3>2. \A i \in 1 .. n - 1 :
            frames'[i].base + FrameLocals(i)' + FrameHeight(T, i)' - 1 = frames'[i + 1].base
      BY <1>13, <3>1
    <3>3. frames'[n].base + FrameLocals(n)' + FrameHeight(T, n)' - 1 = frames'[n + 1].base
      <4>1. /\ frames'[n].base = Top.base /\ frames'[n + 1].base = base
            /\ FrameHeight(T, n)' = H(T) + 1 - argc /\ FrameLocals(n)' = FrameLocals(n)
        BY <1>13
      <4> QED BY <1>0, <1>2, <3>1, <4>1, SMTT(30)
    <3>4. argc <= Fn(program, f).n_locals
      BY <1>0, <1>1, <1>2, <1>3 DEF OperandError, ParamsAreLocals
    <3>5. Len(stack') = Top'.base + FrameLocals(n + 1)' + FrameHeight(T, n + 1)'
      BY <1>8, <1>11, <1>14, <2>7, <2>11, <3>4
    <3>6. ASSUME NEW i \in DOMAIN frames', i < Len(frames')
          PROVE  frames'[i].base + FrameLocals(i)' + FrameHeight(T, i)' - 1 = frames'[i + 1].base
      <4>1. i \in 1 .. n - 1 \/ i = n
        BY <1>2, <1>10, <3>6
      <4> QED BY <3>2, <3>3, <4>1
    <3> QED BY <1>10, <3>5, <3>6
  <2> QED BY <1>4, <2>14, <2>15 DEF Guarded, OnlyStuckFails, StructureErrors
<1>17. CallersUntouched
  <2>1. DOMAIN stack' = 1 .. Len(stack')
    BY <1>11, LenLemma
  <2> QED BY <1>2, <1>11, <2>1 DEF CallersUntouched
<1> QED BY <1>12, <1>15, <1>16, <1>17 DEF Keeps

\* A return: the stack is cut at the base and the result lands where the
\* caller's height counted it.
LEMMA ReturnLemma == ASSUME NEW T, Turn(T), Return PROVE Keeps(T)
<1>0. PICK n, base : n = Len(frames) /\ base = Top.base
  OBVIOUS
<1>1. Instr.op = "Return" /\ Needed(Instr) = 1
  BY DEF Return, Fetches, Needed, SinkOps, BinaryOps, IntArith, FltArith, IntOrder,
         FltOrder, EqOps, UnaryOps
<1>2. /\ n \in Nat \ {0} /\ base \in Nat /\ Len(stack) \in Nat /\ 1 \in 0 .. H(T)
      /\ FrameLocals(n) \in Nat /\ base + FrameLocals(n) + H(T) <= Len(stack)
      /\ base <= Len(stack) - 1
      /\ frames \in Seq(FrameSet) /\ DOMAIN frames = 1 .. n
  BY <1>0, <1>1, TurnLemma DEF Turn, Shape
<1>3. CASE PopFault(Wanted(Instr)) # "none"
  <2>1. Fail("unexpected kind") /\ "unexpected kind" \in Clean
    BY <1>3, PopLemma DEF Return, Pops, Clean, KindErrors
  <2> QED BY <2>1, FailLemma
<1>4. CASE PopFault(Wanted(Instr)) = "none"
  <2> DEFINE rest == Truncate(Below(1), base)
  <2>1. /\ IF n = 1 THEN status' = "finished" /\ stack' = rest
                    ELSE status' = status /\ stack' = Append(rest, Operand(1))
        /\ frames' = SubSeq(frames, 1, n - 1) /\ program' = program
    BY <1>0, <1>4 DEF Return, Pops
  <2>2. /\ IsSeq(Below(1)) /\ Len(Below(1)) = Len(stack) - 1
        /\ \A i \in 1 .. base : Below(1)[i] = stack[i]
    BY <1>0, <1>2, BelowLemma
  <2>3. /\ IsSeq(rest) /\ Len(rest) = base
        /\ \A i \in 1 .. base : rest[i] = stack[i]
    <3>1. CASE base < Len(Below(1))
      <4>1. base \in 0 .. Len(Below(1))
        BY <1>2, <2>2, <3>1
      <4> QED BY <2>2, <3>1, <4>1, PrefixLemma DEF Truncate
    <3>2. CASE ~ (base < Len(Below(1)))
      <4>1. base = Len(Below(1))
        BY <1>2, <2>2, <3>2
      <4> QED BY <2>2, <3>2, <4>1 DEF Truncate
    <3> QED BY <3>1, <3>2
  <2> HIDE DEF rest
  <2>4. /\ IsSeq(Append(rest, Operand(1))) /\ Len(Append(rest, Operand(1))) = base + 1
        /\ \A i \in 1 .. base : Append(rest, Operand(1))[i] = stack[i]
    BY <2>3, AppendLemma
  <2>5. /\ IsSeq(stack') /\ \A i \in 1 .. base : stack'[i] = stack[i]
        /\ Len(stack') \in Nat /\ base <= Len(stack')
        /\ n # 1 => Len(stack') = base + 1
    <3>1. CASE n = 1
      BY <1>2, <2>1, <2>3, <3>1
    <3>2. CASE n # 1
      <4>1. stack' = Append(rest, Operand(1))
        BY <2>1, <3>2
      <4>2. /\ IsSeq(stack') /\ Len(stack') = base + 1
            /\ \A i \in 1 .. base : stack'[i] = stack[i]
        BY <2>4, <4>1
      <4> QED BY <1>2, <4>2
    <3> QED BY <3>1, <3>2
  <2>6. /\ frames' \in Seq(FrameSet) /\ Len(frames') = n - 1 /\ DOMAIN frames' = 1 .. n - 1
        /\ \A i \in 1 .. n - 1 : frames'[i] = frames[i]
    BY <1>2, <2>1
  <2>7. status' \in {"finished", "running"}
    BY <2>1 DEF Turn
  <2>8. Shape'
    <3>1. FrameSet' = FrameSet
      BY <2>1 DEF FrameSet
    <3> QED BY <2>1, <2>5, <2>6, <2>7, <3>1 DEF Turn, Shape
  <2>9. Discipline(T)' /\ Tight(T)'
    <3>1. CASE n = 1
      BY <2>1, <3>1 DEF Discipline, Tight
    <3>2. CASE n # 1
      <4>1. /\ \A i \in DOMAIN frames : FrameOK(T, i)
            /\ \A i \in DOMAIN frames : i < n =>
                 /\ FrameHeight(T, i) >= 1
                 /\ frames[i].base + FrameLocals(i) + FrameHeight(T, i) - 1
                      <= frames[i + 1].base
        BY <1>0 DEF Turn, Discipline
      <4>2. ASSUME NEW i \in 1 .. n - 1
            PROVE  /\ FrameOK(T, i)'
                   /\ FrameHeight(T, i)' = FrameHeight(T, i)
                   /\ FrameLocals(i)' = FrameLocals(i)
        <5>1. i \in DOMAIN frames /\ frames'[i] = frames[i] /\ FrameOK(T, i)
          BY <1>2, <2>6, <4>1
        <5> QED BY <2>1, <5>1 DEF FrameOK, FrameHeight, FrameLocals
      <4>3. ASSUME NEW i \in 1 .. n - 1, i < n - 1
            PROVE  /\ FrameHeight(T, i)' >= 1
                   /\ frames'[i].base + FrameLocals(i)' + FrameHeight(T, i)' - 1
                        <= frames'[i + 1].base
        <5>1. i \in DOMAIN frames /\ i < n /\ i + 1 \in 1 .. n - 1
          BY <1>2, <4>3
        <5> QED BY <2>6, <4>1, <4>2, <5>1
      <4>4. PICK m : m = n - 1
        OBVIOUS
      <4>5. m \in 1 .. n - 1 /\ m \in DOMAIN frames /\ m < n /\ m + 1 = n
        BY <1>2, <3>2, <4>4
      <4>6. /\ frames[m].base + FrameLocals(m) + FrameHeight(T, m) - 1 <= base
            /\ frames'[m] = frames[m]
        BY <1>0, <2>6, <4>1, <4>5 DEF Top
      <4>7. /\ frames[m].base \in Nat /\ FrameLocals(m) \in Nat /\ FrameHeight(T, m) \in Int
        <5>1. frames[m] \in FrameSet
          BY <1>2, <4>5
        <5>2. frames[m].func \in FnIds(program) /\ frames[m].ip \in Pcs(program, frames[m].func)
          BY <4>1, <4>5 DEF FrameOK
        <5>3. FrameLocals(m) \in Nat
          BY <5>2, CodeLemma DEF FrameLocals, Turn, Shape
        <5>4. IsTyping(program, frames[m].func, T[frames[m].func])
          BY <5>2 DEF Turn, TypedMain, TypedBy
        <5>5. FrameHeight(T, m) \in Int
          BY <5>2, <5>4 DEF IsTyping, FrameHeight, NoHeight
        <5> QED BY <5>1, <5>3, <5>5 DEF FrameSet
      <4>10. Top' = frames[m] /\ Len(stack') = base + 1
        BY <2>5, <2>6, <3>2, <4>4, <4>6 DEF Top
      <4>8. Top'.base + FrameLocals(m)' + FrameHeight(T, m)' <= Len(stack')
        <5>1. FrameHeight(T, m)' = FrameHeight(T, m) /\ FrameLocals(m)' = FrameLocals(m)
          BY <4>2, <4>5
        <5> QED BY <1>2, <4>6, <4>7, <4>10, <5>1, SMTT(30)
      <4>9. frames' # <<>>
        BY <1>2, <2>6, <3>2
      <4>11. Discipline(T)'
        BY <2>6, <4>2, <4>3, <4>4, <4>8, <4>9 DEF Discipline
      <4>12. Tight(T)'
        <5> SUFFICES ASSUME ParamsAreLocals
                     PROVE  /\ \A i \in 1 .. n - 1 : i < n - 1 =>
                                 frames'[i].base + FrameLocals(i)' + FrameHeight(T, i)' - 1
                                   = frames'[i + 1].base
                            /\ Len(stack') = Top'.base + FrameLocals(m)' + FrameHeight(T, m)'
          BY <2>1, <2>6, <4>4 DEF Tight, ParamsAreLocals
        <5>1. \A i \in DOMAIN frames : i < n =>
                frames[i].base + FrameLocals(i) + FrameHeight(T, i) - 1 = frames[i + 1].base
          BY <1>0 DEF Turn, Tight
        <5>2. ASSUME NEW i \in 1 .. n - 1, i < n - 1
              PROVE  frames'[i].base + FrameLocals(i)' + FrameHeight(T, i)' - 1
                       = frames'[i + 1].base
          <6>1. i \in DOMAIN frames /\ i < n /\ i + 1 \in 1 .. n - 1
            BY <1>2, <5>2
          <6> QED BY <2>6, <4>2, <5>1, <6>1
        <5>3. frames[m].base + FrameLocals(m) + FrameHeight(T, m) - 1 = base
          BY <1>0, <4>5, <5>1 DEF Top
        <5>4. FrameHeight(T, m)' = FrameHeight(T, m) /\ FrameLocals(m)' = FrameLocals(m)
          BY <4>2, <4>5
        <5>5. Len(stack') = Top'.base + FrameLocals(m)' + FrameHeight(T, m)'
          <6>1. PICK b, l, h : b = frames[m].base /\ l = FrameLocals(m) /\ h = FrameHeight(T, m)
            OBVIOUS
          <6>2. b + l + h - 1 = base
            BY <5>3, <6>1
          <6>3. b + l + h = base + 1
            <7>1. b \in Nat /\ l \in Nat /\ h \in Int
              BY <4>7, <6>1
            <7>2. base \in Nat
              BY <1>2
            <7> QED BY <6>2, <7>1, <7>2
          <6> QED BY <4>10, <5>4, <6>1, <6>3
        <5> QED BY <5>2, <5>5
      <4> QED BY <4>11, <4>12
    <3> QED BY <3>1, <3>2
  <2>10. Guarded(T)'
    BY <2>7, <2>9 DEF Guarded, OnlyStuckFails, StructureErrors
  <2>11. CallersUntouched
    <3>1. DOMAIN stack' = 1 .. Len(stack')
      BY <2>5, LenLemma
    <3> QED BY <1>0, <1>2, <2>5, <3>1 DEF CallersUntouched
  <2> QED BY <2>8, <2>10, <2>11 DEF Keeps
<1> QED BY <1>3, <1>4
----------------------------------------------------------------------------
(* Every step of the machine.                                              *)

\* execute enters main on an empty stack.
LEMMA StartLemma ==
  ASSUME NEW T, Shape, TypedMain(T), Guarded(T), Start
  PROVE  Keeps(T)
<1>0. PICK f : f = program.main
  OBVIOUS
<1>1. /\ stack = <<>> /\ frames = <<>> /\ f \in FnIds(program) /\ IsProgram(program)
      /\ Enter(frames, f, 0)
  BY <1>0 DEF Shape, TypedMain, Start
<1>2. Len(stack) = 0
  BY <1>1
<1>3. /\ stack' = stack \o Reserved(f, 0)
      /\ frames' = Append(frames, Frame(f, 0, 0))
      /\ status' = "running" /\ program' = program
  BY <1>1, <1>2 DEF Enter
<1>4. Fn(program, f).n_locals \in Nat
  BY <1>1, CodeLemma
<1>5. PICK l : l \in Nat /\ l = Fn(program, f).n_locals /\ Reserved(f, 0) = Times(UnitV, l)
  <2>1. CASE Fn(program, f).n_locals > 0
    BY <1>4, <2>1 DEF Reserved
  <2>2. CASE ~ (Fn(program, f).n_locals > 0)
    BY <1>4, <2>2 DEF Reserved
  <2> QED BY <2>1, <2>2
<1>6. Times(UnitV, l) \in Seq({UnitV}) /\ Len(Times(UnitV, l)) = l
  BY <1>5 DEF Times
<1>7. IsSeq(stack') /\ Len(stack') = l
  <2>1. IsSeq(stack) /\ IsSeq(Times(UnitV, l))
    BY <1>6 DEF Shape, IsSeq
  <2>2. IsSeq(stack \o Times(UnitV, l)) /\ Len(stack \o Times(UnitV, l)) = Len(stack) + l
    BY <1>6, <2>1, ConcatLemma
  <2> QED BY <1>2, <1>3, <1>5, <2>2
<1>8. /\ Frame(f, 0, 0) \in FrameSet
      /\ Frame(f, 0, 0).func = f /\ Frame(f, 0, 0).ip = 0 /\ Frame(f, 0, 0).base = 0
  BY <1>1 DEF Frame, FrameSet
<1>9. /\ frames' \in Seq(FrameSet) /\ DOMAIN frames' = {1} /\ Len(frames') = 1
      /\ frames'[1] = Frame(f, 0, 0)
  BY <1>1, <1>3, <1>8
<1>10. Shape'
  <2>1. FrameSet' = FrameSet
    BY <1>3 DEF FrameSet
  <2> QED BY <1>1, <1>3, <1>7, <1>9, <2>1 DEF Shape
<1>11. Top' = Frame(f, 0, 0) /\ frames' # <<>>
  BY <1>9 DEF Top
<1>12. ASSUME Pcs(program, f) = {} PROVE Guarded(T)'
  <2>1. Stuck'
    BY <1>3, <1>8, <1>11, <1>12 DEF Stuck
  <2>2. Top'.base <= Len(stack')
    BY <1>5, <1>7, <1>8, <1>11
  <2> QED BY <1>3, <2>1, <2>2 DEF Guarded, Tight, OnlyStuckFails, StructureErrors
<1>13. ASSUME Pcs(program, f) # {} PROVE Guarded(T)'
  <2>1. IsTyping(program, f, T[f]) /\ CodeLen(program, f) \in Nat
    BY <1>1, <1>13, CodeLemma DEF TypedMain, TypedBy
  <2>2. 0 \in Pcs(program, f) /\ T[f][0] = 0
    BY <1>13, <2>1 DEF IsTyping, Pcs
  <2>3. FrameHeight(T, 1)' = 0 /\ FrameLocals(1)' = l /\ FrameOK(T, 1)'
    BY <1>1, <1>3, <1>5, <1>8, <1>9, <2>2 DEF FrameOK, FrameHeight, FrameLocals, NoHeight
  <2>4. Len(stack') = Top'.base + FrameLocals(1)' + FrameHeight(T, 1)'
    BY <1>5, <1>7, <1>8, <1>11, <2>3
  <2>5. Top'.base + FrameLocals(1)' + FrameHeight(T, 1)' <= Len(stack')
    BY <1>5, <1>7, <1>8, <1>11, <2>3
  <2>6. Discipline(T)'
    <3>1. \A i \in DOMAIN frames' : i = 1 /\ ~ (i < Len(frames')) /\ FrameOK(T, i)'
      BY <1>9, <2>3
    <3>2. Top'.base + FrameLocals(Len(frames))' + FrameHeight(T, Len(frames))' <= Len(stack')
      BY <1>9, <2>5
    <3> QED BY <1>11, <3>1, <3>2 DEF Discipline
  <2>7. Tight(T)'
    BY <1>9, <2>4 DEF Tight
  <2> QED BY <1>3, <2>6, <2>7 DEF Guarded, OnlyStuckFails, StructureErrors
<1>15. CallersUntouched
  BY <1>1 DEF CallersUntouched
<1> QED BY <1>10, <1>12, <1>13, <1>15 DEF Keeps

\* A turn in a function without code can only fail.
LEMMA StuckLemma ==
  ASSUME NEW T, Shape, Guarded(T), Stuck, status = "running", Step
  PROVE  Keeps(T)
<1>1. \A names : ~ Fetches(names)
  BY DEF Fetches, Stuck, TopPcs
<1>2. StepLimit \/ RunOff
  BY <1>1 DEF Step, Push, LoadLocal, StoreLocal, PopTop, IntOp, FloatOp, UnaryOp, Compare,
     ConcatStr, MakeArray, Index, SetIndex, Jump, JumpIfFalse, CallFn, Return, CallBuiltinFn
<1>3. /\ program' = program /\ stack' = stack /\ frames' = frames
      /\ status' \in {"step limit exceeded", "ip out of bounds"}
  BY <1>2 DEF StepLimit, RunOff, Fail
<1>4. Shape'
  BY <1>3 DEF Shape, FrameSet
<1>5. Stuck'
  BY <1>3 DEF Stuck, Top
<1>6. Guarded(T)'
  BY <1>3, <1>5 DEF Guarded, Discipline, Tight, OnlyStuckFails, StructureErrors
<1>7. Top.base <= Len(stack) /\ Top.base \in Nat /\ Len(stack) \in Nat
  <2>1. frames # <<>> /\ frames \in Seq(FrameSet) /\ Len(stack) \in Nat
    BY LenLemma DEF Shape, Stuck
  <2>2. Top \in FrameSet /\ DOMAIN frames = 1 .. Len(frames) /\ Len(frames) \in DOMAIN frames
    BY <2>1 DEF Top
  <2>3. CASE Discipline(T)
    <3>1. Top.ip \in Pcs(program, Top.func)
      BY <2>2, <2>3 DEF Discipline, FrameOK, Top
    <3> QED BY <3>1 DEF Stuck
  <2>4. CASE Top.base <= Len(stack)
    BY <2>1, <2>2, <2>4 DEF FrameSet
  <2>5. Discipline(T) \/ Top.base <= Len(stack)
    BY DEF Guarded
  <2> QED BY <2>3, <2>4, <2>5
<1>8. CallersUntouched
  <2>1. DOMAIN stack = 1 .. Len(stack)
    BY LenLemma DEF Shape
  <2>2. \A i \in 1 .. Top.base : i \in DOMAIN stack
    BY <1>7, <2>1
  <2> QED BY <1>3, <2>2 DEF CallersUntouched
<1> QED BY <1>4, <1>6, <1>8 DEF Keeps

LEMMA StepLemma ==
  ASSUME NEW T, Shape, TypedMain(T), Guarded(T), Step
  PROVE  Keeps(T)
<1>0. status = "running"
  BY DEF Step, StepLimit, RunOff, Push, LoadLocal, StoreLocal, PopTop, IntOp, FloatOp,
         UnaryOp, Compare, ConcatStr, MakeArray, Index, SetIndex, Jump, JumpIfFalse, CallFn,
         Return, CallBuiltinFn, Fetches
<1> SUFFICES ASSUME ~ Stuck PROVE Keeps(T)
  BY <1>0, StuckLemma
<1>1. Turn(T)
  BY <1>0 DEF Turn, Guarded
<1>2. CASE StepLimit
  BY <1>1, <1>2, FailLemma DEF StepLimit, Clean
<1>3. CASE RunOff
  <2>1. Top.ip \in TopPcs
    BY <1>1, TurnLemma
  <2> QED BY <1>3, <2>1 DEF RunOff
<1>4. CASE Push
  BY <1>1, <1>4, PushLemma
<1>5. CASE LoadLocal
  BY <1>1, <1>5, LoadLocalLemma
<1>6. CASE StoreLocal
  BY <1>1, <1>6, StoreLocalLemma
<1>7. CASE PopTop
  BY <1>1, <1>7, PopTopLemma
<1>8. CASE IntOp
  BY <1>1, <1>8, IntOpLemma
<1>9. CASE FloatOp
  BY <1>1, <1>9, FloatOpLemma
<1>10. CASE UnaryOp
  BY <1>1, <1>10, UnaryOpLemma
<1>11. CASE Compare
  BY <1>1, <1>11, CompareLemma
<1>12. CASE ConcatStr
  BY <1>1, <1>12, ConcatStrLemma
<1>13. CASE MakeArray
  BY <1>1, <1>13, MakeArrayLemma
<1>14. CASE Index
  BY <1>1, <1>14, IndexLemma
<1>15. CASE SetIndex
  BY <1>1, <1>15, SetIndexLemma
<1>16. CASE Jump
  BY <1>1, <1>16, JumpLemma
<1>17. CASE JumpIfFalse
  BY <1>1, <1>17, JumpIfFalseLemma
<1>18. CASE CallFn
  BY <1>1, <1>18, CallLemma
<1>19. CASE Return
  BY <1>1, <1>19, ReturnLemma
<1>20. CASE CallBuiltinFn
  BY <1>1, <1>20, CallBuiltinLemma
<1> QED
  BY <1>2, <1>3, <1>4, <1>5, <1>6, <1>7, <1>8, <1>9, <1>10, <1>11, <1>12, <1>13, <1>14, <1>15,
     <1>16, <1>17, <1>18, <1>19, <1>20 DEF Step

\* The invariant looks at nothing but the program, the status, the stack and the
\* frames.
LEMMA RestLemma ==
  ASSUME NEW T, Guarded(T), UNCHANGED <<program, status, stack, frames>>
  PROVE  Guarded(T)'
<1>1. /\ \A i : FrameHeight(T, i)' = FrameHeight(T, i) /\ FrameLocals(i)' = FrameLocals(i)
      /\ \A i : FrameOK(T, i)' = FrameOK(T, i)
      /\ Top' = Top /\ Stuck' = Stuck /\ ParamsAreLocals' = ParamsAreLocals
  BY DEF FrameHeight, FrameLocals, FrameOK, Top, Stuck, ParamsAreLocals
<1>2. Discipline(T) => Discipline(T)'
  BY <1>1 DEF Discipline
<1>3. Tight(T)'
  BY <1>1 DEF Tight, Guarded
<1> QED BY <1>1, <1>2, <1>3 DEF Guarded, OnlyStuckFails

\* A program none of whose functions is empty never gets stuck.
LEMMA NotStuckLemma ==
  ASSUME Shape, NoEmptyCode, NEW T, Guarded(T)
  PROVE  ~ Stuck /\ Discipline(T) /\ NoStructureError
<1>1. ASSUME frames # <<>> PROVE Top \in FrameSet
  BY <1>1 DEF Shape, Top
<1>2. ~ Stuck
  BY <1>1 DEF Stuck, FrameSet, NoEmptyCode
<1> QED BY <1>2 DEF Guarded, OnlyStuckFails, NoStructureError

\* The height of the stack is a function of the active offset.
LEMMA ExactLemma ==
  ASSUME Shape, NoEmptyCode, NEW T, Guarded(T)
  PROVE  ExactHeight(T)
BY NotStuckLemma DEF Guarded, Tight, ExactHeight

\* The machine never changes its program.
LEMMA ProgramLemma == Start \/ Step => UNCHANGED program
BY DEF Start, Step, StepLimit, RunOff, Push, LoadLocal, StoreLocal, PopTop, IntOp,
   FloatOp, UnaryOp, Compare, ConcatStr, MakeArray, Index, SetIndex, Jump, JumpIfFalse,
   CallFn, Return, CallBuiltinFn, Yields, Pops, Fail, Enter

----------------------------------------------------------------------------
(* The theorem about the machine alone.                                    *)

\* A machine that is only given programs with a typing, whoever found it, never
\* reports a structural error outside a function without code, never touches the
\* values of a caller, and keeps its stack at the height the typing gives.
THEOREM TypedProgramsRunSafely ==
  ASSUME NEW Typing,
         \A p \in Programs : p.main \in FnIds(p) /\ TypedBy(p, Typing[p])
  PROVE  Spec => /\ [](NoEmptyCode => /\ NoStructureError
                                     /\ Discipline(Typing[program])
                                     /\ ExactHeight(Typing[program]))
                 /\ []OnlyStuckFails
                 /\ [][CallersUntouched]_vars
<1> DEFINE I == program \in Programs /\ Shape /\ Guarded(Typing[program])
<1>1. Init => I
  <2> SUFFICES ASSUME Init PROVE I
    OBVIOUS
  <2>1. IsSeq(stack)
    BY EmptyLemma DEF Init, Idle
  <2>2. Shape
    BY <2>1, ProgramsAssumption DEF Init, Idle, Shape, IsLoadable
  <2> QED BY <2>2 DEF Init, Idle, Guarded, Discipline, Tight, OnlyStuckFails, StructureErrors
<1>2. I /\ [Next]_vars => I' /\ [CallersUntouched]_vars
  <2> SUFFICES ASSUME I, [Next]_vars PROVE I' /\ [CallersUntouched]_vars
    OBVIOUS
  <2>1. PICK T : T = Typing[program]
    OBVIOUS
  <2>2. Shape /\ Guarded(T) /\ TypedMain(T)
    BY <2>1 DEF Shape, TypedMain
  <2>3. CASE Start \/ Step
    <3>1. Shape' /\ Guarded(T)' /\ CallersUntouched
      BY <2>2, <2>3, StartLemma, StepLemma DEF Keeps
    <3>2. program' = program
      BY <2>3, ProgramLemma
    <3> QED BY <2>1, <3>1, <3>2
  <2>4. CASE UNCHANGED vars
    <3>1. UNCHANGED <<program, status, stack, frames>>
      BY <2>4 DEF vars
    <3>2. Shape'
      BY <3>1 DEF Shape, FrameSet
    <3>3. Guarded(T)'
      BY <2>2, <3>1, RestLemma
    <3> QED BY <2>1, <2>4, <3>1, <3>2, <3>3
  <2> QED BY <2>3, <2>4 DEF Next, Stopped
<1>3. I => /\ NoEmptyCode => /\ NoStructureError
                            /\ Discipline(Typing[program])
                            /\ ExactHeight(Typing[program])
           /\ OnlyStuckFails
  BY NotStuckLemma, ExactLemma DEF Guarded
<1> QED BY <1>1, <1>2, <1>3, PTL DEF Spec

----------------------------------------------------------------------------
(* The machine.  The type invariant is inductive with the shape of the     *)
(* sequences, a frame for a running machine, and a budget not overdrawn.   *)

TypeInv ==
  /\ IsLoadable(program) /\ status \in Statuses
  /\ steps \in 0 .. MaxSteps + 1
  /\ status \in {"idle", "running"} => steps <= MaxSteps
  /\ IsSeq(heap) /\ \A a \in 1 .. Len(heap) : Typed(heap[a], Len(heap))
  /\ Typed(stack, Len(heap)) /\ Typed(stdout, Len(heap)) /\ IsValue(result, Len(heap))
  /\ frames \in Seq(FrameSet)
  /\ status = "running" => frames # <<>>

LEMMA TypeInvLemma == program \in Programs /\ TypeInv => TypeOK
<1> SUFFICES ASSUME program \in Programs, TypeInv PROVE TypeOK
  OBVIOUS
<1>1. DOMAIN heap = 1 .. Len(heap) /\ DOMAIN frames = 1 .. Len(frames)
  BY LenLemma DEF TypeInv
<1>2. \A i \in DOMAIN frames : frames[i] \in FrameSet
  BY DEF TypeInv
<1> QED BY <1>1, <1>2 DEF TypeInv, TypeOK, Typed, FrameSet

LEMMA IdleTypeLemma == IsLoadable(program) /\ Idle => TypeInv
<1> SUFFICES ASSUME IsLoadable(program), Idle PROVE TypeInv
  OBVIOUS
<1>1. Typed(<<>>, 0) /\ IsSeq(<<>>) /\ Len(<<>>) = 0
  BY EmptyLemma, TypedLemma
<1>2. IsValue(UnitV, 0)
  BY DEF IsValue, UnitV, Kinds
<1> QED BY <1>1, <1>2, MaxStepsAssumption DEF Idle, TypeInv, Statuses

LEMMA TypeInitLemma == Init => TypeInv
BY IdleTypeLemma, ProgramsAssumption DEF Init

\* What every turn of the run loop starts from.
LEMMA FetchLemma ==
  ASSUME TypeInv, NEW names, Fetches(names)
  PROVE  /\ status = "running" /\ steps' \in 0 .. MaxSteps /\ IsLoadable(program)
         /\ Len(frames) \in Nat \ {0} /\ Top \in FrameSet
         /\ Top.func \in FnIds(program) /\ Top.ip \in TopPcs
         /\ IsOp(Instr) /\ Instr.op \in names
         /\ Len(stack) \in Nat /\ Len(heap) \in Nat
<1>1. status = "running" /\ steps' \in 0 .. MaxSteps /\ IsLoadable(program)
  BY MaxStepsAssumption DEF TypeInv, Fetches
<1>2. Len(frames) \in Nat \ {0} /\ Top \in FrameSet
  BY <1>1 DEF TypeInv, Top
<1>3. Top.func \in FnIds(program) /\ Top.ip \in TopPcs /\ Instr.op \in names
  BY <1>2 DEF FrameSet, Fetches
<1>4. IsOp(Instr)
  BY <1>1, <1>3, CodeLemma DEF IsLoadable, Instr, TopPcs
<1>5. Len(stack) \in Nat /\ Len(heap) \in Nat
  BY LenLemma DEF TypeInv, Typed
<1> QED BY <1>1, <1>2, <1>3, <1>4, <1>5

Errors == Statuses \ {"idle", "running"}

LEMMA FailTypeLemma ==
  ASSUME TypeInv, steps' \in 0 .. MaxSteps + 1, NEW e \in Errors, Fail(e)
  PROVE  TypeInv'
<1>1. FrameSet' = FrameSet /\ program' = program
  BY DEF Fail, FrameSet
<1> QED BY <1>1 DEF Fail, TypeInv, Errors

\* A turn that stays in its function and leaves the heap alone.
LEMMA StayTypeLemma ==
  ASSUME TypeInv, NEW names, Fetches(names), NEW pc \in Nat, frames' = Jumped(pc),
         program' = program, status' = status, result' = result,
         IsSeq(heap'), Len(heap) <= Len(heap'),
         \A a \in 1 .. Len(heap') : Typed(heap'[a], Len(heap')),
         Typed(stack', Len(heap')), Typed(stdout', Len(heap'))
  PROVE  TypeInv'
<1>1. /\ status = "running" /\ steps' \in 0 .. MaxSteps /\ Len(frames) \in Nat \ {0}
      /\ Top \in FrameSet /\ Len(heap) \in Nat
  BY FetchLemma
<1>2. frames' \in Seq(FrameSet) /\ frames' # <<>>
  <2>1. PICK n, r : n = Len(frames) /\ r = [Top EXCEPT !.ip = pc]
    OBVIOUS
  <2>2. r \in FrameSet
    BY <1>1, <2>1 DEF FrameSet
  <2>3. frames' = [frames EXCEPT ![n] = r]
    BY <2>1 DEF Jumped, Top
  <2>4. frames \in Seq(FrameSet) /\ n \in DOMAIN frames
    BY <1>1, <2>1 DEF TypeInv
  <2> QED BY <2>2, <2>3, <2>4
<1>3. IsValue(result', Len(heap'))
  BY <1>1, GrowLemma, LenLemma DEF TypeInv
<1>4. FrameSet' = FrameSet
  BY DEF FrameSet
<1> QED BY <1>1, <1>2, <1>3, <1>4, MaxStepsAssumption DEF TypeInv

\* The operands that popping finds.
LEMMA OperandsLemma ==
  ASSUME TypeInv, NEW kinds, IsSeq(kinds), PopFault(kinds) = "none"
  PROVE  /\ Len(kinds) \in 0 .. Len(stack)
         /\ \A k \in 1 .. Len(kinds) :
              /\ IsValue(Operand(k), Len(heap))
              /\ kinds[Len(kinds) - k + 1] # "Any" => Operand(k).t = kinds[Len(kinds) - k + 1]
<1>1. Len(kinds) \in Nat /\ DOMAIN kinds = 1 .. Len(kinds) /\ Len(stack) \in Nat
  BY LenLemma DEF TypeInv, Typed
<1>2. \A k \in 1 .. Len(kinds) : ~ Mismatch(kinds, k)
  BY <1>1 DEF PopFault
<1>3. \A k \in 1 .. Len(kinds) :
        /\ k <= Len(stack)
        /\ kinds[Len(kinds) - k + 1] # "Any" => Operand(k).t = kinds[Len(kinds) - k + 1]
  BY <1>1, <1>2 DEF Mismatch
<1>4. Len(kinds) <= Len(stack)
  <2>1. CASE Len(kinds) = 0
    BY <1>1, <2>1
  <2>2. CASE Len(kinds) # 0
    <3>1. Len(kinds) \in 1 .. Len(kinds)
      BY <1>1, <2>2
    <3> QED BY <1>3, <3>1
  <2> QED BY <2>1, <2>2
<1>5. ASSUME NEW k \in 1 .. Len(kinds) PROVE IsValue(Operand(k), Len(heap))
  <2>1. Len(stack) - k + 1 \in 1 .. Len(stack)
    BY <1>1, <1>4
  <2> QED BY <2>1, TypedLemma DEF Operand, TypeInv
<1> QED BY <1>1, <1>3, <1>4, <1>5

\* The instructions that replace their operands by one value.
LEMMA YieldsTypeLemma ==
  ASSUME TypeInv, NEW names, Fetches(names), NEW kinds, IsSeq(kinds),
         NEW outcome, outcome.status \in Errors \cup {"ok"},
         PopFault(kinds) = "none" => GoodOutcome(outcome, Len(heap)),
         Yields(kinds, outcome)
  PROVE  TypeInv'
<1>1. steps' \in 0 .. MaxSteps + 1 /\ Top.ip + 1 \in Nat /\ Len(heap) \in Nat
  BY FetchLemma, MaxStepsAssumption DEF FrameSet
<1>2. CASE PopFault(kinds) # "none"
  <2>1. PopFault(kinds) \in Errors
    BY <1>2 DEF PopFault, Errors, Statuses, StructureErrors, KindErrors
  <2> QED BY <1>1, <1>2, <2>1, FailTypeLemma DEF Yields, Pops
<1>3. CASE PopFault(kinds) = "none" /\ outcome.status # "ok"
  <2>1. outcome.status \in Errors
    BY <1>3
  <2> QED BY <1>1, <1>3, <2>1, FailTypeLemma DEF Yields, Pops
<1>4. CASE PopFault(kinds) = "none" /\ outcome.status = "ok"
  <2>1. /\ stack' = Append(Below(Len(kinds)), outcome.v)
        /\ frames' = Jumped(Top.ip + 1)
        /\ UNCHANGED <<program, status, heap, stdout, result>>
    BY <1>4 DEF Yields, Pops, Advanced, Jumped, Top
  <2>2. Len(kinds) \in 0 .. Len(stack) /\ Len(stack) \in Nat /\ Typed(stack, Len(heap))
    BY <1>4, OperandsLemma, FetchLemma DEF TypeInv
  <2>3. Len(stack) - Len(kinds) \in 0 .. Len(stack)
    BY <2>2
  <2>4. Typed(Below(Len(kinds)), Len(heap))
    BY <2>2, <2>3, TypedPrefix DEF Below
  <2>5. Typed(stack', Len(heap'))
    BY <1>4, <2>1, <2>4, TypedAppend DEF GoodOutcome
  <2>6. /\ IsSeq(heap') /\ Len(heap) <= Len(heap') /\ Typed(stdout', Len(heap'))
        /\ \A a \in 1 .. Len(heap') : Typed(heap'[a], Len(heap'))
    BY <1>1, <2>1 DEF TypeInv
  <2> QED BY <1>1, <2>1, <2>5, <2>6, StayTypeLemma
<1> QED BY <1>2, <1>3, <1>4

CleanErrors == Clean \subseteq Errors

LEMMA CleanLemma == CleanErrors
BY DEF CleanErrors, Clean, Errors, Statuses, UserErrors, KindErrors, Aborts

\* The operands an operator finds, by the kinds it names.
LEMMA KindsLemma ==
  ASSUME TypeInv, PopFault(Wanted(Instr)) = "none"
  PROVE  /\ \A k, l : Wanted(Instr) = <<k, l>> =>
              /\ IsValue(Operand(2), Len(heap)) /\ (k # "Any" => Operand(2).t = k)
              /\ IsValue(Operand(1), Len(heap)) /\ (l # "Any" => Operand(1).t = l)
         /\ \A k : Wanted(Instr) = <<k>> =>
              IsValue(Operand(1), Len(heap)) /\ (k # "Any" => Operand(1).t = k)
         /\ \A k, l, m : Wanted(Instr) = <<k, l, m>> =>
              /\ IsValue(Operand(3), Len(heap)) /\ (k # "Any" => Operand(3).t = k)
              /\ IsValue(Operand(2), Len(heap)) /\ (l # "Any" => Operand(2).t = l)
              /\ IsValue(Operand(1), Len(heap)) /\ (m # "Any" => Operand(1).t = m)
<1>1. PICK w : w = Wanted(Instr)
  OBVIOUS
<1>2. ASSUME NEW k, NEW l, w = <<k, l>>
      PROVE  /\ IsValue(Operand(2), Len(heap)) /\ (k # "Any" => Operand(2).t = k)
             /\ IsValue(Operand(1), Len(heap)) /\ (l # "Any" => Operand(1).t = l)
  <2>1. w \in Seq({k, l}) /\ Len(w) = 2 /\ w[1] = k /\ w[2] = l
    BY <1>2
  <2>2. IsSeq(w) /\ 1 \in 1 .. Len(w) /\ 2 \in 1 .. Len(w)
          /\ Len(w) - 1 + 1 = 2 /\ Len(w) - 2 + 1 = 1
    BY <2>1 DEF IsSeq
  <2> QED BY <1>1, <2>1, <2>2, OperandsLemma
<1>3. ASSUME NEW k, w = <<k>>
      PROVE  IsValue(Operand(1), Len(heap)) /\ (k # "Any" => Operand(1).t = k)
  <2>1. w \in Seq({k}) /\ Len(w) = 1 /\ w[1] = k
    BY <1>3
  <2>2. IsSeq(w) /\ 1 \in 1 .. Len(w) /\ Len(w) - 1 + 1 = 1
    BY <2>1 DEF IsSeq
  <2> QED BY <1>1, <2>1, <2>2, OperandsLemma
<1>4. ASSUME NEW k, NEW l, NEW m, w = <<k, l, m>>
      PROVE  /\ IsValue(Operand(3), Len(heap)) /\ (k # "Any" => Operand(3).t = k)
             /\ IsValue(Operand(2), Len(heap)) /\ (l # "Any" => Operand(2).t = l)
             /\ IsValue(Operand(1), Len(heap)) /\ (m # "Any" => Operand(1).t = m)
  <2>1. w \in Seq({k, l, m}) /\ Len(w) = 3 /\ w[1] = k /\ w[2] = l /\ w[3] = m
    BY <1>4
  <2>2. IsSeq(w) /\ 1 \in 1 .. Len(w) /\ 2 \in 1 .. Len(w) /\ 3 \in 1 .. Len(w)
          /\ Len(w) - 1 + 1 = 3 /\ Len(w) - 2 + 1 = 2 /\ Len(w) - 3 + 1 = 1
    BY <2>1 DEF IsSeq
  <2>3. \A i \in 1 .. Len(w) :
          /\ IsValue(Operand(i), Len(heap))
          /\ w[Len(w) - i + 1] # "Any" => Operand(i).t = w[Len(w) - i + 1]
    BY <1>1, <2>2, OperandsLemma
  <2> QED BY <2>1, <2>2, <2>3
<1> QED BY <1>1, <1>2, <1>3, <1>4

\* One lemma per family of instructions.
LEMMA PushType == TypeInv /\ Push => TypeInv'
<1> SUFFICES ASSUME TypeInv, Push PROVE TypeInv'
  OBVIOUS
<1>1. /\ Fetches(PushOps) /\ Yields(<<>>, Constant(Instr))
      /\ IsLoadable(program) /\ Top.func \in FnIds(program) /\ Top.ip \in TopPcs
      /\ IsOp(Instr) /\ Instr.op \in PushOps
  BY FetchLemma DEF Push
<1>2. PICK consts : consts = Fn(program, Top.func).consts
  OBVIOUS
<1>3. consts \in Seq(Seq(Nat))
  <2>1. IsProgram(program)
    BY <1>1 DEF IsLoadable
  <2>2. Top.func + 1 \in DOMAIN program.functions
    BY <1>1, <2>1 DEF IsProgram, FnIds
  <2> QED BY <1>2, <2>1, <2>2 DEF IsProgram, Fn, IsChunk, Chunks
<1>4. GoodOutcome(Constant(Instr), Len(heap)) /\ Constant(Instr).status \in Errors \cup {"ok"}
  <2>1. /\ Instr.op = "PushInt" => Instr.n \in Ints
        /\ Instr.op = "PushFloat" => Instr.n \in F64.floats
    BY <1>1, WidthLemma DEF IsLoadable, Instr, TopPcs
  <2>2. \A v : Ok(v).status = "ok"
    BY DEF Ok
  <2>3. CASE Instr.op = "PushInt"
    BY <2>1, <2>2, <2>3, ValueLemma DEF Constant
  <2>4. CASE Instr.op = "PushFloat"
    BY <2>1, <2>2, <2>4, ValueLemma DEF Constant
  <2>5. CASE Instr.op = "PushBool"
    BY <2>2, <2>5, ValueLemma DEF Constant
  <2>6. CASE Instr.op = "PushUnit"
    BY <2>2, <2>6, ValueLemma DEF Constant
  <2>7. CASE Instr.op = "PushStr"
    <3>1. Instr.n \in Nat
      BY <1>1, <2>7 DEF IsOp
    <3>2. Instr.n < Len(consts) => consts[Instr.n + 1] \in Seq(Nat)
      BY <1>3, <3>1
    <3>3. Err("constant out of bounds").status \in Errors
      BY DEF Err, Errors, Statuses, StructureErrors
    <3> QED BY <1>2, <2>2, <2>7, <3>2, <3>3, ValueLemma DEF Constant
  <2> QED BY <1>1, <2>3, <2>4, <2>5, <2>6, <2>7 DEF PushOps
<1> QED BY <1>1, <1>4, EmptyLemma, YieldsTypeLemma

LEMMA LoadLocalType == TypeInv /\ LoadLocal => TypeInv'
<1> SUFFICES ASSUME TypeInv, LoadLocal PROVE TypeInv'
  OBVIOUS
<1>1. PICK r : r = IF Slot(Instr.n) <= Len(stack) THEN Ok(stack[Slot(Instr.n)]) ELSE Err("bad local")
  OBVIOUS
<1>6. Fetches({"LoadLocal"}) /\ Yields(<<>>, r)
  BY <1>1 DEF LoadLocal
<1>2. IsOp(Instr) /\ Instr.op = "LoadLocal" /\ Top \in FrameSet /\ Len(stack) \in Nat
  BY <1>6, FetchLemma
<1>3. Slot(Instr.n) \in Nat \ {0}
  <2>1. PICK n, b : n = Instr.n /\ b = Top.base /\ n \in Nat /\ b \in Nat
    BY <1>2 DEF IsOp, FrameSet
  <2>2. b + n + 1 \in Nat \ {0}
    BY <2>1
  <2> QED BY <2>1, <2>2 DEF Slot
<1>4. Slot(Instr.n) <= Len(stack) => IsValue(stack[Slot(Instr.n)], Len(heap))
  BY <1>2, <1>3, TypedLemma DEF TypeInv
<1>5. GoodOutcome(r, Len(heap)) /\ r.status \in Errors \cup {"ok"}
  BY <1>1, <1>4 DEF GoodOutcome, Ok, Err, Errors, Statuses, StructureErrors
<1> QED BY <1>5, <1>6, EmptyLemma, YieldsTypeLemma

LEMMA IntOpType == TypeInv /\ IntOp => TypeInv'
<1> SUFFICES ASSUME TypeInv, IntOp PROVE TypeInv'
  OBVIOUS
<1>1. PICK a, b, r : /\ a = Operand(2).v /\ b = Operand(1).v
                     /\ r = IF Instr.op \in IntArith THEN ArithInt(Instr.op, a, b)
                            ELSE Ok(BoolV(OrderInt(Instr.op, a, b)))
  OBVIOUS
<1>2. Fetches(IntArith \cup IntOrder) /\ Yields(Wanted(Instr), r)
  BY <1>1 DEF IntOp
<1>3. Instr.op \in IntArith \cup IntOrder /\ IsOp(Instr)
  BY <1>2, FetchLemma
<1>4. Wanted(Instr) = <<"Int", "Int">> /\ IsSeq(Wanted(Instr))
  BY <1>3, WantedLemma DEF Wanted, IntArith, IntOrder, FltArith, FltOrder, EqOps
<1>5. r.status \in Errors \cup {"ok"}
  BY <1>1, ArithLemma, CleanLemma DEF CleanErrors, Ok
<1>6. ASSUME PopFault(Wanted(Instr)) = "none" PROVE GoodOutcome(r, Len(heap))
  <2>1. a \in Ints /\ b \in Ints
    BY <1>1, <1>4, <1>6, KindsLemma, WidthLemma DEF IsValue
  <2>2. Instr.op \in IntOrder => OrderInt(Instr.op, a, b) \in BOOLEAN
    <3>1. a \in Int /\ b \in Int
      BY <2>1, WidthLemma
    <3>2. (a < b) \in BOOLEAN /\ (a <= b) \in BOOLEAN /\ (a > b) \in BOOLEAN /\ (a >= b) \in BOOLEAN
      OBVIOUS
    <3> QED BY <3>2 DEF OrderInt, IntOrder
  <2> QED BY <1>1, <1>3, <2>1, <2>2, ArithTypeLemma, ValueLemma
<1> QED BY <1>2, <1>4, <1>5, <1>6, YieldsTypeLemma

LEMMA FloatOpType == TypeInv /\ FloatOp => TypeInv'
<1> SUFFICES ASSUME TypeInv, FloatOp PROVE TypeInv'
  OBVIOUS
<1>1. PICK a, b, r : /\ a = Operand(2).v /\ b = Operand(1).v
                     /\ r = IF Instr.op \in FltArith THEN Ok(FloatV(ArithFloat(Instr.op, a, b)))
                            ELSE Ok(BoolV(OrderFloat(Instr.op, a, b)))
  OBVIOUS
<1>2. Fetches(FltArith \cup FltOrder) /\ Yields(Wanted(Instr), r)
  BY <1>1 DEF FloatOp
<1>3. Instr.op \in FltArith \cup FltOrder /\ IsOp(Instr)
  BY <1>2, FetchLemma
<1>4. Wanted(Instr) = <<"Float", "Float">> /\ IsSeq(Wanted(Instr))
  BY <1>3, WantedLemma DEF Wanted, IntArith, IntOrder, FltArith, FltOrder, EqOps
<1>5. r.status \in Errors \cup {"ok"}
  BY <1>1 DEF Ok
<1>6. ASSUME PopFault(Wanted(Instr)) = "none" PROVE GoodOutcome(r, Len(heap))
  <2>1. a \in F64.floats /\ b \in F64.floats
    BY <1>1, <1>4, <1>6, KindsLemma DEF IsValue
  <2>2. Instr.op \in FltArith => ArithFloat(Instr.op, a, b) \in F64.floats
    BY <2>1, F64Assumption
  <2>3. Instr.op \in FltOrder => OrderFloat(Instr.op, a, b) \in BOOLEAN
    BY <2>1, F64Assumption
  <2> QED BY <1>1, <1>3, <2>2, <2>3, ValueLemma
<1> QED BY <1>2, <1>4, <1>5, <1>6, YieldsTypeLemma

LEMMA UnaryOpType == TypeInv /\ UnaryOp => TypeInv'
<1> SUFFICES ASSUME TypeInv, UnaryOp PROVE TypeInv'
  OBVIOUS
<1>1. PICK a, r :
        /\ a = Operand(1).v
        /\ r = CASE Instr.op = "NegInt"   -> Ok(IntV(Wrap(-a)))
                 [] Instr.op = "NegFloat" -> Ok(FloatV(UnaryFloat("NegFloat", a)))
                 [] Instr.op = "NotBool"  -> Ok(BoolV(~ a))
                 [] Instr.op = "ArrayLen" -> Ok(IntV(Wrap(Len(heap[a]))))
  OBVIOUS
<1>2. Fetches(UnaryOps) /\ Yields(Wanted(Instr), r)
  BY <1>1 DEF UnaryOp
<1>3. Instr.op \in UnaryOps /\ IsOp(Instr)
  BY <1>2, FetchLemma
<1>4. IsSeq(Wanted(Instr))
  BY <1>3, WantedLemma
<1>5. r.status \in Errors \cup {"ok"}
  BY <1>1, <1>3 DEF Ok, UnaryOps
<1>6. ASSUME PopFault(Wanted(Instr)) = "none" PROVE GoodOutcome(r, Len(heap))
  <2>1. CASE Instr.op = "NegInt"
    <3>1. Wanted(Instr) = <<"Int">>
      BY <2>1 DEF Wanted, IntArith, IntOrder, FltArith, FltOrder, EqOps
    <3>2. a \in Int
      BY <1>1, <1>6, <3>1, KindsLemma, WidthLemma DEF IsValue
    <3>3. -a \in Int
      BY <3>2
    <3>4. Wrap(-a) \in Ints
      BY <3>3, WrapLemma
    <3> QED BY <1>1, <2>1, <3>4, ValueLemma
  <2>2. CASE Instr.op = "NegFloat"
    <3>1. Wanted(Instr) = <<"Float">>
      BY <2>2 DEF Wanted, IntArith, IntOrder, FltArith, FltOrder, EqOps
    <3>2. a \in F64.floats
      BY <1>1, <1>6, <3>1, KindsLemma DEF IsValue
    <3>3. UnaryFloat("NegFloat", a) \in F64.floats
      BY <3>2, F64Assumption
    <3> QED BY <1>1, <2>2, <3>3, ValueLemma
  <2>3. CASE Instr.op = "NotBool"
    <3>1. (~ a) \in BOOLEAN
      OBVIOUS
    <3> QED BY <1>1, <2>3, <3>1, ValueLemma
  <2>4. CASE Instr.op = "ArrayLen"
    <3>1. Wanted(Instr) = <<"Array">>
      BY <2>4 DEF Wanted, IntArith, IntOrder, FltArith, FltOrder, EqOps
    <3>2. a \in 1 .. Len(heap)
      BY <1>1, <1>6, <3>1, KindsLemma DEF IsValue
    <3>3. Len(heap[a]) \in Int
      BY <3>2, LenLemma DEF TypeInv, Typed
    <3>4. Wrap(Len(heap[a])) \in Ints
      BY <3>3, WrapLemma
    <3> QED BY <1>1, <2>4, <3>4, ValueLemma
  <2> QED BY <1>3, <2>1, <2>2, <2>3, <2>4 DEF UnaryOps
<1> QED BY <1>2, <1>4, <1>5, <1>6, YieldsTypeLemma

LEMMA CompareType == TypeInv /\ Compare => TypeInv'
<1> SUFFICES ASSUME TypeInv, Compare PROVE TypeInv'
  OBVIOUS
<1>1. Fetches(EqOps) /\ Yields(Wanted(Instr), Equality(Instr))
  BY DEF Compare
<1>2. IsSeq(Wanted(Instr))
  BY <1>1, FetchLemma, WantedLemma
<1>3. Equality(Instr).status \in Errors \cup {"ok"}
  BY EqualityLemma, CleanLemma DEF CleanErrors
<1>4. GoodOutcome(Equality(Instr), Len(heap))
  <2>1. PICK e : e = ValueEq(heap, Operand(2), Operand(1))
    OBVIOUS
  <2>2. ((e = "equal") <=> (Instr.op = "Eq")) \in BOOLEAN
    OBVIOUS
  <2> QED BY <2>1, <2>2, ValueLemma DEF Equality
<1> QED BY <1>1, <1>2, <1>3, <1>4, YieldsTypeLemma

LEMMA ConcatStrType == TypeInv /\ ConcatStr => TypeInv'
<1> SUFFICES ASSUME TypeInv, ConcatStr PROVE TypeInv'
  OBVIOUS
<1>1. PICK s, t, r : s = Operand(2).v /\ t = Operand(1).v /\ r = Ok(StrV(s \o t))
  OBVIOUS
<1>2. Fetches({"ConcatStr"}) /\ Yields(Wanted(Instr), r)
  BY <1>1 DEF ConcatStr
<1>3. Instr.op = "ConcatStr" /\ IsOp(Instr)
  BY <1>2, FetchLemma
<1>4. Wanted(Instr) = <<"Str", "Str">> /\ IsSeq(Wanted(Instr))
  BY <1>3, WantedLemma DEF Wanted, IntArith, IntOrder, FltArith, FltOrder, EqOps
<1>5. r.status = "ok"
  BY <1>1 DEF Ok
<1>6. ASSUME PopFault(Wanted(Instr)) = "none" PROVE GoodOutcome(r, Len(heap))
  <2>1. s \in Seq(Nat) /\ t \in Seq(Nat)
    BY <1>1, <1>4, <1>6, KindsLemma DEF IsValue
  <2>2. s \o t \in Seq(Nat)
    BY <2>1
  <2> QED BY <1>1, <2>2, ValueLemma
<1> QED BY <1>2, <1>4, <1>5, <1>6, YieldsTypeLemma

LEMMA IndexType == TypeInv /\ Index => TypeInv'
<1> SUFFICES ASSUME TypeInv, Index PROVE TypeInv'
  OBVIOUS
<1>1. PICK a, i, r :
        /\ a = Operand(2).v /\ i = Operand(1).v
        /\ r = IF IndexInBounds(i, Len(heap[a])) THEN Ok(heap[a][i + 1])
               ELSE Err("index out of bounds")
  OBVIOUS
<1>2. Fetches({"Index"}) /\ Yields(Wanted(Instr), r)
  BY <1>1 DEF Index
<1>3. Instr.op = "Index" /\ IsOp(Instr)
  BY <1>2, FetchLemma
<1>4. Wanted(Instr) = <<"Array", "Int">> /\ IsSeq(Wanted(Instr))
  BY <1>3, WantedLemma DEF Wanted, IntArith, IntOrder, FltArith, FltOrder, EqOps
<1>5. r.status \in Errors \cup {"ok"}
  BY <1>1 DEF Ok, Err, Errors, Statuses, UserErrors
<1>6. ASSUME PopFault(Wanted(Instr)) = "none" PROVE GoodOutcome(r, Len(heap))
  <2>5. /\ IsValue(Operand(2), Len(heap)) /\ Operand(2).t = "Array"
        /\ IsValue(Operand(1), Len(heap)) /\ Operand(1).t = "Int"
    BY <1>4, <1>6, KindsLemma
  <2>1. a \in 1 .. Len(heap) /\ i \in Int
    BY <1>1, <2>5, WidthLemma DEF IsValue
  <2>2. Typed(heap[a], Len(heap)) /\ Len(heap[a]) \in Nat
    BY <2>1, LenLemma DEF TypeInv, Typed
  <2>3. IndexInBounds(i, Len(heap[a])) => i + 1 \in 1 .. Len(heap[a])
    BY <2>1, <2>2 DEF IndexInBounds
  <2>4. IndexInBounds(i, Len(heap[a])) => IsValue(heap[a][i + 1], Len(heap))
    BY <2>2, <2>3, TypedLemma
  <2> QED BY <1>1, <2>4 DEF GoodOutcome, Ok, Err
<1> QED BY <1>2, <1>4, <1>5, <1>6, YieldsTypeLemma

\* A turn that pops its operands, whatever it does next.
LEMMA PopsTypeLemma ==
  ASSUME TypeInv, NEW names, Fetches(names),
         PopFault(Wanted(Instr)) # "none" => Fail(PopFault(Wanted(Instr))),
         PopFault(Wanted(Instr)) = "none" => TypeInv'
  PROVE  TypeInv'
<1>1. steps' \in 0 .. MaxSteps + 1
  BY FetchLemma, MaxStepsAssumption
<1>2. PopFault(Wanted(Instr)) # "none" => PopFault(Wanted(Instr)) \in Errors
  BY DEF PopFault, Errors, Statuses, StructureErrors, KindErrors
<1> QED BY <1>1, <1>2, FailTypeLemma

\* The stack without the operands that were found.
LEMMA BelowTypeLemma ==
  ASSUME TypeInv, NEW k \in 0 .. Len(stack)
  PROVE  Typed(Below(k), Len(heap)) /\ Len(Below(k)) = Len(stack) - k
<1>1. Typed(stack, Len(heap)) /\ IsSeq(stack) /\ Len(stack) \in Nat
  BY LenLemma DEF TypeInv, Typed
<1>2. Len(stack) - k \in 0 .. Len(stack)
  BY <1>1
<1> QED BY <1>1, <1>2, TypedPrefix, PrefixLemma DEF Below

\* An instruction that leaves the heap and the output alone.
LEMMA QuietTypeLemma ==
  ASSUME TypeInv, NEW names, Fetches(names), NEW pc \in Nat, frames' = Jumped(pc),
         program' = program, status' = status, heap' = heap, stdout' = stdout, result' = result,
         Typed(stack', Len(heap))
  PROVE  TypeInv'
<1>1. /\ IsSeq(heap') /\ Len(heap) <= Len(heap') /\ Typed(stdout', Len(heap'))
      /\ \A a \in 1 .. Len(heap') : Typed(heap'[a], Len(heap'))
      /\ Typed(stack', Len(heap'))
  BY FetchLemma DEF TypeInv
<1> QED BY <1>1, StayTypeLemma

\* The offset after the current one, and the target of a jump.
LEMMA TargetLemma ==
  ASSUME TypeInv, NEW names, Fetches(names)
  PROVE  /\ Top.ip + 1 \in Nat /\ Advanced = Jumped(Top.ip + 1)
         /\ Instr.op \in JumpOps => Instr.n \in Nat
<1>1. Top \in FrameSet /\ IsOp(Instr)
  BY FetchLemma
<1> QED BY <1>1 DEF FrameSet, IsOp, JumpOps, Advanced, Jumped, Top

LEMMA StoreLocalType == TypeInv /\ StoreLocal => TypeInv'
<1> SUFFICES ASSUME TypeInv, StoreLocal PROVE TypeInv'
  OBVIOUS
<1>1. Fetches({"StoreLocal"})
  BY DEF StoreLocal
<1>2. /\ IsOp(Instr) /\ Instr.op = "StoreLocal" /\ Top \in FrameSet /\ Len(stack) \in Nat
      /\ steps' \in 0 .. MaxSteps + 1
  BY <1>1, FetchLemma, MaxStepsAssumption
<1>3. /\ Wanted(Instr) = Times("Any", 1) /\ IsSeq(Wanted(Instr)) /\ Len(Wanted(Instr)) = 1
  <2>1. Needed(Instr) = 1
    BY <1>2 DEF Needed, SinkOps, BinaryOps, IntArith, FltArith, IntOrder, FltOrder, EqOps, UnaryOps
  <2> QED BY <1>2, <2>1, WantedLemma DEF Wanted, IntArith, FltArith, IntOrder, FltOrder, EqOps
<1>4. ASSUME PopFault(Wanted(Instr)) = "none" PROVE TypeInv'
  <2>1. 1 \in 0 .. Len(stack) /\ IsValue(Operand(1), Len(heap))
    BY <1>3, <1>4, OperandsLemma, SMTT(30)
  <2>2. CASE Slot(Instr.n) >= Len(stack)
    <3>1. Fail("bad local") /\ "bad local" \in Errors
      BY <1>4, <2>2 DEF StoreLocal, Pops, Errors, Statuses, StructureErrors
    <3> QED BY <1>2, <3>1, FailTypeLemma
  <2>3. CASE ~ (Slot(Instr.n) >= Len(stack))
    <3>1. /\ stack' = [Below(1) EXCEPT ![Slot(Instr.n)] = Operand(1)]
          /\ frames' = Advanced /\ UNCHANGED <<program, status, heap, stdout, result>>
      BY <1>4, <2>3 DEF StoreLocal, Pops
    <3>2. Slot(Instr.n) \in 1 .. Len(stack) - 1
      <4>1. PICK n, b, l : /\ n = Instr.n /\ b = Top.base /\ n \in Nat /\ b \in Nat
                           /\ l = Len(stack) /\ l \in Nat
        BY <1>2 DEF IsOp, FrameSet
      <4>2. ~ (b + n + 1 >= l) => b + n + 1 \in 1 .. l - 1
        BY <4>1
      <4> QED BY <2>3, <4>1, <4>2 DEF Slot
    <3>3. Typed(Below(1), Len(heap)) /\ Slot(Instr.n) \in 1 .. Len(Below(1))
      BY <2>1, <3>2, BelowTypeLemma
    <3>4. Typed(stack', Len(heap))
      BY <2>1, <3>1, <3>3, TypedUpdate
    <3> QED BY <1>1, <3>1, <3>4, TargetLemma, QuietTypeLemma
  <2> QED BY <2>2, <2>3
<1>5. PopFault(Wanted(Instr)) # "none" => Fail(PopFault(Wanted(Instr)))
  BY DEF StoreLocal, Pops
<1> QED BY <1>1, <1>4, <1>5, PopsTypeLemma

LEMMA PopTopType == TypeInv /\ PopTop => TypeInv'
<1> SUFFICES ASSUME TypeInv, PopTop PROVE TypeInv'
  OBVIOUS
<1>1. Fetches({"Pop"})
  BY DEF PopTop
<1>2. IsOp(Instr) /\ Instr.op = "Pop"
  BY <1>1, FetchLemma
<1>3. IsSeq(Wanted(Instr)) /\ Len(Wanted(Instr)) = 1
  BY <1>2, WantedLemma DEF Needed, SinkOps, BinaryOps, IntArith, FltArith, IntOrder, FltOrder,
                           EqOps, UnaryOps
<1>4. ASSUME PopFault(Wanted(Instr)) = "none" PROVE TypeInv'
  <2>1. 1 \in 0 .. Len(stack)
    BY <1>3, <1>4, OperandsLemma
  <2>2. /\ stack' = Below(1) /\ frames' = Advanced
        /\ UNCHANGED <<program, status, heap, stdout, result>>
    BY <1>4 DEF PopTop, Pops
  <2>3. Typed(stack', Len(heap))
    BY <2>1, <2>2, BelowTypeLemma
  <2> QED BY <1>1, <2>2, <2>3, TargetLemma, QuietTypeLemma
<1>5. PopFault(Wanted(Instr)) # "none" => Fail(PopFault(Wanted(Instr)))
  BY DEF PopTop, Pops
<1> QED BY <1>1, <1>4, <1>5, PopsTypeLemma

LEMMA JumpType == TypeInv /\ Jump => TypeInv'
<1> SUFFICES ASSUME TypeInv, Jump PROVE TypeInv'
  OBVIOUS
<1>1. /\ Fetches({"Jump"}) /\ frames' = Jumped(Instr.n)
      /\ UNCHANGED <<program, status, stack, heap, stdout, result>>
  BY DEF Jump
<1>2. Instr.n \in Nat
  BY <1>1, FetchLemma, TargetLemma DEF JumpOps
<1>3. Typed(stack', Len(heap))
  BY <1>1 DEF TypeInv
<1> QED BY <1>1, <1>2, <1>3, QuietTypeLemma

LEMMA JumpIfFalseType == TypeInv /\ JumpIfFalse => TypeInv'
<1> SUFFICES ASSUME TypeInv, JumpIfFalse PROVE TypeInv'
  OBVIOUS
<1>1. Fetches({"JumpIfFalse"})
  BY DEF JumpIfFalse
<1>2. IsOp(Instr) /\ Instr.op = "JumpIfFalse"
  BY <1>1, FetchLemma
<1>3. IsSeq(Wanted(Instr)) /\ Len(Wanted(Instr)) = 1
  BY <1>2, WantedLemma DEF Needed, SinkOps, BinaryOps, IntArith, FltArith, IntOrder, FltOrder,
                           EqOps, UnaryOps
<1>4. ASSUME PopFault(Wanted(Instr)) = "none" PROVE TypeInv'
  <2>1. 1 \in 0 .. Len(stack)
    BY <1>3, <1>4, OperandsLemma
  <2>2. /\ stack' = Below(1) /\ UNCHANGED <<program, status, heap, stdout, result>>
        /\ \E pc \in Nat : frames' = Jumped(pc)
    BY <1>1, <1>2, <1>4, TargetLemma DEF JumpIfFalse, Pops, JumpOps
  <2>3. Typed(stack', Len(heap))
    BY <2>1, <2>2, BelowTypeLemma
  <2> QED BY <1>1, <2>2, <2>3, QuietTypeLemma
<1>5. PopFault(Wanted(Instr)) # "none" => Fail(PopFault(Wanted(Instr)))
  BY DEF JumpIfFalse, Pops
<1> QED BY <1>1, <1>4, <1>5, PopsTypeLemma

LEMMA MakeArrayType == TypeInv /\ MakeArray => TypeInv'
<1> SUFFICES ASSUME TypeInv, MakeArray PROVE TypeInv'
  OBVIOUS
<1>1. Fetches({"MakeArray"})
  BY DEF MakeArray
<1>2. PICK k, n, s, h : k = Instr.n /\ n = Len(heap) /\ s = stack /\ h = heap
  OBVIOUS
<1>3. k \in Nat /\ Len(s) \in Nat /\ n \in Nat /\ steps' \in 0 .. MaxSteps + 1
  BY <1>1, <1>2, FetchLemma, MaxStepsAssumption DEF IsOp
<1>4. CASE Len(s) < k
  <2>1. Fail("stack underflow") /\ "stack underflow" \in Errors
    BY <1>2, <1>4 DEF MakeArray, Errors, Statuses, StructureErrors
  <2> QED BY <1>3, <2>1, FailTypeLemma
<1>5. CASE ~ (Len(s) < k)
  <2>1. /\ heap' = Append(h, Operands(k)) /\ stack' = Append(Below(k), ArrayV(n + 1))
        /\ frames' = Advanced /\ UNCHANGED <<program, status, stdout, result>>
    BY <1>2, <1>5 DEF MakeArray
  <2>2. k \in 0 .. Len(s) /\ IsSeq(h) /\ Typed(s, n) /\ Typed(stdout, n) /\ n <= n + 1
    BY <1>2, <1>3, <1>5 DEF TypeInv
  <2>3. Typed(Operands(k), n) /\ Typed(Below(k), n)
    BY <1>2, <2>2, TypedSuffix, BelowTypeLemma DEF Operands
  <2>4. IsValue(ArrayV(n + 1), n + 1)
    BY <1>3 DEF IsValue, ArrayV, Kinds
  <2>5. Typed(Below(k), n + 1) /\ Typed(Operands(k), n + 1) /\ Typed(stdout, n + 1)
          /\ \A a \in 1 .. n : Typed(h[a], n + 1)
    BY <1>2, <1>3, <2>2, <2>3, GrowLemma DEF TypeInv
  <2>6. Typed(stack', n + 1)
    BY <2>1, <2>4, <2>5, TypedAppend
  <2>7. /\ IsSeq(heap') /\ Len(heap') = n + 1
        /\ \A a \in 1 .. n : heap'[a] = h[a]
    BY <1>2, <2>1, <2>2, AppendLemma
  <2>8. heap'[n + 1] = Operands(k)
    <3>1. PICK S : h \in Seq(S)
      BY <2>2 DEF IsSeq
    <3>2. h \in Seq(S \cup {Operands(k)})
      BY <3>1
    <3> QED BY <1>2, <2>1, <3>2
  <2>9. ASSUME NEW a \in 1 .. n + 1 PROVE Typed(heap'[a], n + 1)
    <3>1. CASE a = n + 1
      BY <2>5, <2>8, <3>1
    <3>2. CASE a # n + 1
      <4>1. a \in 1 .. n
        BY <1>3, <3>2
      <4> QED BY <2>5, <2>7, <4>1
    <3> QED BY <3>1, <3>2
  <2> QED BY <1>1, <1>2, <2>1, <2>2, <2>5, <2>6, <2>7, <2>9, TargetLemma, StayTypeLemma
<1> QED BY <1>4, <1>5

LEMMA SetIndexType == TypeInv /\ SetIndex => TypeInv'
<1> SUFFICES ASSUME TypeInv, SetIndex PROVE TypeInv'
  OBVIOUS
<1>1. Fetches({"SetIndex"})
  BY DEF SetIndex
<1>2. PICK n, h, a, i, v :
        n = Len(heap) /\ h = heap /\ a = Operand(3).v /\ i = Operand(2).v /\ v = Operand(1)
  OBVIOUS
<1>3. IsOp(Instr) /\ Instr.op = "SetIndex" /\ n \in Nat /\ steps' \in 0 .. MaxSteps + 1
  BY <1>1, <1>2, FetchLemma, MaxStepsAssumption
<1>4. Wanted(Instr) = <<"Array", "Int", "Any">> /\ IsSeq(Wanted(Instr)) /\ Len(Wanted(Instr)) = 3
  BY <1>3, WantedLemma DEF Wanted, IntArith, IntOrder, FltArith, FltOrder, EqOps
<1>5. ASSUME PopFault(Wanted(Instr)) = "none" PROVE TypeInv'
  <2>1. 3 \in 0 .. Len(stack)
    BY <1>4, <1>5, OperandsLemma
  <2>2. a \in 1 .. n /\ i \in Int /\ IsValue(v, n)
    <3>1. /\ IsValue(Operand(3), n) /\ Operand(3).t = "Array"
          /\ IsValue(Operand(2), n) /\ Operand(2).t = "Int" /\ IsValue(Operand(1), n)
      BY <1>2, <1>4, <1>5, KindsLemma
    <3> QED BY <1>2, <3>1, WidthLemma DEF IsValue
  <2>3. Typed(h[a], n) /\ Len(h[a]) \in Nat /\ IsSeq(h)
    BY <1>2, <2>2, LenLemma DEF TypeInv, Typed
  <2>4. CASE ~ IndexInBounds(i, Len(h[a]))
    <3>1. Fail("index out of bounds") /\ "index out of bounds" \in Errors
      BY <1>2, <1>5, <2>4 DEF SetIndex, Pops, Errors, Statuses, UserErrors
    <3> QED BY <1>3, <3>1, FailTypeLemma
  <2>5. CASE IndexInBounds(i, Len(h[a]))
    <3>1. /\ heap' = [h EXCEPT ![a][i + 1] = v] /\ stack' = Append(Below(3), UnitV)
          /\ frames' = Advanced /\ UNCHANGED <<program, status, stdout, result>>
      BY <1>2, <1>5, <2>5 DEF SetIndex, Pops
    <3>2. PICK t : t = [h[a] EXCEPT ![i + 1] = v]
      OBVIOUS
    <3>3. i + 1 \in 1 .. Len(h[a])
      BY <2>2, <2>3, <2>5 DEF IndexInBounds
    <3>4. Typed(t, n)
      BY <2>2, <2>3, <3>2, <3>3, TypedUpdate
    <3>5. a \in DOMAIN h
      BY <1>2, <2>2, <2>3, LenLemma
    <3>6. heap' = [h EXCEPT ![a] = t]
      BY <3>1, <3>2, <3>5
    <3>7. /\ IsSeq(heap') /\ Len(heap') = n /\ heap'[a] = t
          /\ \A b \in 1 .. n : b # a => heap'[b] = h[b]
      <4>1. a \in 1 .. Len(h) /\ Len(h) = n
        BY <1>2, <2>2
      <4>2. PICK g : g = [h EXCEPT ![a] = t]
        OBVIOUS
      <4>3. /\ IsSeq(g) /\ Len(g) = Len(h)
            /\ \A b \in 1 .. Len(h) : b # a => g[b] = h[b]
        <5>1. IsSeq(h) /\ a \in 1 .. Len(h)
          BY <2>3, <4>1
        <5> QED BY <4>2, <5>1, UpdateLemma
      <4>4. heap' = g /\ g[a] = t
        BY <3>5, <3>6, <4>2
      <4> QED BY <4>1, <4>3, <4>4
    <3>8. \A b \in 1 .. n : Typed(heap'[b], n)
      BY <1>2, <3>4, <3>7 DEF TypeInv
    <3>9. Typed(stack', n)
      <4>1. Typed(Below(3), n) /\ IsValue(UnitV, n)
        BY <1>2, <2>1, BelowTypeLemma DEF IsValue, UnitV, Kinds
      <4> QED BY <3>1, <4>1, TypedAppend
    <3>10. Typed(stdout', n)
      BY <1>2, <3>1 DEF TypeInv
    <3>11. /\ IsSeq(heap') /\ Len(heap) <= Len(heap') /\ Typed(stack', Len(heap'))
           /\ Typed(stdout', Len(heap')) /\ \A b \in 1 .. Len(heap') : Typed(heap'[b], Len(heap'))
      BY <1>2, <1>3, <3>7, <3>8, <3>9, <3>10
    <3>12. /\ Top.ip + 1 \in Nat /\ frames' = Jumped(Top.ip + 1)
           /\ program' = program /\ status' = status /\ result' = result
      BY <1>1, <3>1, TargetLemma
    <3> QED BY <1>1, <3>11, <3>12, StayTypeLemma
  <2> QED BY <2>4, <2>5
<1>6. PopFault(Wanted(Instr)) # "none" => Fail(PopFault(Wanted(Instr)))
  BY DEF SetIndex, Pops
<1> QED BY <1>1, <1>5, <1>6, PopsTypeLemma

LEMMA CallBuiltinType == TypeInv /\ CallBuiltinFn => TypeInv'
<1> SUFFICES ASSUME TypeInv, CallBuiltinFn PROVE TypeInv'
  OBVIOUS
<1>1. Fetches({"CallBuiltin"})
  BY DEF CallBuiltinFn
<1>2. PICK n, k, args, r :
        n = Len(heap) /\ k = Instr.argc /\ args = Operands(k) /\ r = Eval(Instr.x, args)
  OBVIOUS
<1>3. /\ IsOp(Instr) /\ Instr.op = "CallBuiltin" /\ n \in Nat /\ steps' \in 0 .. MaxSteps + 1
  BY <1>1, <1>2, FetchLemma, MaxStepsAssumption
<1>4. IsSeq(Wanted(Instr)) /\ Len(Wanted(Instr)) = k
  BY <1>2, <1>3, WantedLemma DEF Needed, CallOps, SinkOps, BinaryOps, IntArith, FltArith, IntOrder,
                                 FltOrder, EqOps, UnaryOps
<1>5. ASSUME PopFault(Wanted(Instr)) = "none" PROVE TypeInv'
  <2>1. k \in 0 .. Len(stack) /\ Typed(stack, n) /\ Typed(stdout, n)
    BY <1>2, <1>4, <1>5, OperandsLemma DEF TypeInv
  <2>2. Typed(args, n) /\ Typed(Below(k), n)
    BY <1>2, <2>1, TypedSuffix, BelowTypeLemma DEF Operands
  <2>3. GoodOutcome(r, n) /\ r.status \in Errors \cup {"ok"}
    <3>1. Instr.x \in BuiltinNames
      BY <1>3 DEF IsOp
    <3>2. GoodOutcome(r, n)
      BY <1>2, <2>2, <3>1, EvalTypeLemma DEF Typed
    <3>3. r.status \in Clean \cup {"ok"}
      BY <1>2, <3>1, EvalLemma
    <3> QED BY <3>2, <3>3, CleanLemma DEF CleanErrors
  <2>4. CASE r.status # "ok"
    <3>1. Fail(r.status) /\ r.status \in Errors
      BY <1>2, <1>5, <2>3, <2>4 DEF CallBuiltinFn, Pops
    <3> QED BY <1>3, <3>1, FailTypeLemma
  <2>5. CASE r.status = "ok"
    <3>1. /\ stack' = Append(Below(k), r.v) /\ stdout' = stdout \o Printed(Instr.x, args)
          /\ frames' = Advanced /\ UNCHANGED <<program, status, heap, result>>
      BY <1>2, <1>5, <2>5 DEF CallBuiltinFn, Pops
    <3>2. Typed(stack', n)
      BY <2>2, <2>3, <2>5, <3>1, TypedAppend DEF GoodOutcome
    <3>3. Typed(Printed(Instr.x, args), n)
      BY <2>2, EmptyLemma, TypedLemma DEF Printed
    <3>4. Typed(stdout', n)
      BY <2>1, <3>1, <3>3, TypedConcat
    <3>5. IsSeq(heap') /\ Len(heap') = n /\ \A a \in 1 .. n : Typed(heap'[a], n)
      BY <1>2, <3>1 DEF TypeInv
    <3> QED BY <1>1, <1>2, <1>3, <3>1, <3>2, <3>4, <3>5, TargetLemma, StayTypeLemma
  <2> QED BY <2>4, <2>5
<1>6. PopFault(Wanted(Instr)) # "none" => Fail(PopFault(Wanted(Instr)))
  BY DEF CallBuiltinFn, Pops
<1> QED BY <1>1, <1>5, <1>6, PopsTypeLemma

LEMMA TimesLemma ==
  ASSUME NEW n \in Nat, NEW k \in Nat
  PROVE  Typed(Times(UnitV, k), n)
<1>1. Times(UnitV, k) \in Seq({UnitV}) /\ Len(Times(UnitV, k)) = k
  BY DEF Times
<1>2. \A i \in 1 .. k : Times(UnitV, k)[i] = UnitV
  BY DEF Times
<1>3. IsValue(UnitV, n)
  BY DEF IsValue, UnitV, Kinds
<1> QED BY <1>1, <1>2, <1>3, TypedLemma DEF IsSeq

\* Entering a function, from the start or from a call.
LEMMA EnterTypeLemma ==
  ASSUME TypeInv, NEW callers \in Seq(FrameSet), NEW f \in Nat, NEW argc \in Nat,
         steps' \in 0 .. MaxSteps, Enter(callers, f, argc)
  PROVE  TypeInv'
<1>1. steps' \in 0 .. MaxSteps + 1 /\ Len(stack) \in Nat /\ Len(heap) \in Nat
  BY MaxStepsAssumption, LenLemma DEF TypeInv, Typed
<1>2. CASE f \notin FnIds(program)
  <2>1. Fail("bad function") /\ "bad function" \in Errors
    BY <1>2 DEF Enter, Errors, Statuses, StructureErrors
  <2> QED BY <1>1, <2>1, FailTypeLemma
<1>3. CASE f \in FnIds(program) /\ Len(stack) < argc
  <2>1. Fail("not enough arguments on stack") /\ "not enough arguments on stack" \in Errors
    BY <1>3 DEF Enter, Errors, Statuses, StructureErrors
  <2> QED BY <1>1, <2>1, FailTypeLemma
<1>4. CASE f \in FnIds(program) /\ ~ (Len(stack) < argc)
  <2>1. /\ stack' = stack \o Reserved(f, argc)
        /\ frames' = Append(callers, Frame(f, 0, Len(stack) - argc))
        /\ status' = "running" /\ UNCHANGED <<program, heap, stdout, result>>
    BY <1>4 DEF Enter
  <2>2. Fn(program, f).n_locals \in Nat
    BY <1>4, CodeLemma DEF TypeInv, IsLoadable
  <2>3. Typed(Reserved(f, argc), Len(heap))
    <3>1. PICK k : k = IF Fn(program, f).n_locals > argc THEN Fn(program, f).n_locals - argc ELSE 0
      OBVIOUS
    <3>2. k \in Nat
      BY <2>2, <3>1
    <3> QED BY <1>1, <3>1, <3>2, TimesLemma DEF Reserved
  <2>4. Typed(stack', Len(heap))
    BY <2>1, <2>3, TypedConcat DEF TypeInv
  <2>5. Frame(f, 0, Len(stack) - argc) \in FrameSet
    BY <1>1, <1>4 DEF Frame, FrameSet
  <2>6. frames' \in Seq(FrameSet) /\ frames' # <<>>
    BY <2>1, <2>5
  <2>7. FrameSet' = FrameSet
    BY <2>1 DEF FrameSet
  <2>8. steps' <= MaxSteps
    BY MaxStepsAssumption
  <2> QED BY <1>1, <2>1, <2>4, <2>6, <2>7, <2>8 DEF TypeInv, Statuses
<1> QED BY <1>2, <1>3, <1>4

LEMMA StartType == TypeInv /\ Start => TypeInv'
<1> SUFFICES ASSUME TypeInv, Start PROVE TypeInv'
  OBVIOUS
<1>1. Enter(frames, program.main, 0) /\ steps' = steps /\ status = "idle"
  BY DEF Start
<1>2. steps' \in 0 .. MaxSteps
  BY <1>1, MaxStepsAssumption DEF TypeInv
<1>3. program.main \in Nat
  BY DEF TypeInv, IsLoadable, IsProgram
<1>4. frames \in Seq(FrameSet)
  BY DEF TypeInv
<1> QED BY <1>1, <1>2, <1>3, <1>4, EnterTypeLemma

LEMMA CallFnType == TypeInv /\ CallFn => TypeInv'
<1> SUFFICES ASSUME TypeInv, CallFn PROVE TypeInv'
  OBVIOUS
<1>1. Fetches({"Call"}) /\ Enter(Advanced, Instr.n, Instr.argc)
  BY DEF CallFn
<1>2. /\ steps' \in 0 .. MaxSteps /\ Instr.n \in Nat /\ Instr.argc \in Nat
      /\ Len(frames) \in Nat \ {0} /\ Top \in FrameSet
  BY <1>1, FetchLemma DEF IsOp, Ops
<1>3. Advanced \in Seq(FrameSet)
  <2>1. PICK n, r : n = Len(frames) /\ r = [Top EXCEPT !.ip = Top.ip + 1]
    OBVIOUS
  <2>2. r \in FrameSet
    BY <1>2, <2>1 DEF FrameSet
  <2>3. Advanced = [frames EXCEPT ![n] = r]
    BY <2>1 DEF Advanced, Top
  <2>4. frames \in Seq(FrameSet) /\ n \in DOMAIN frames
    BY <1>2, <2>1 DEF TypeInv
  <2> QED BY <2>2, <2>3, <2>4
<1> QED BY <1>1, <1>2, <1>3, EnterTypeLemma

LEMMA TruncateLemma ==
  ASSUME NEW s, NEW n \in Nat, Typed(s, n), NEW k \in Nat
  PROVE  Typed(Truncate(s, k), n)
<1>1. Len(s) \in Nat
  BY LenLemma DEF Typed
<1> QED BY <1>1, TypedPrefix DEF Truncate

LEMMA ReturnType == TypeInv /\ Return => TypeInv'
<1> SUFFICES ASSUME TypeInv, Return PROVE TypeInv'
  OBVIOUS
<1>1. Fetches({"Return"})
  BY DEF Return
<1>2. /\ IsOp(Instr) /\ Instr.op = "Return" /\ Top \in FrameSet /\ status = "running"
      /\ Len(frames) \in Nat \ {0} /\ steps' \in 0 .. MaxSteps /\ Len(heap) \in Nat
  BY <1>1, FetchLemma
<1>3. IsSeq(Wanted(Instr)) /\ Len(Wanted(Instr)) = 1
  BY <1>2, WantedLemma DEF Needed, SinkOps, BinaryOps, IntArith, FltArith, IntOrder, FltOrder,
                           EqOps, UnaryOps
<1>4. ASSUME PopFault(Wanted(Instr)) = "none" PROVE TypeInv'
  <2>1. 1 \in 0 .. Len(stack) /\ IsValue(Operand(1), Len(heap))
    <3>1. 1 \in 0 .. Len(stack) /\ \A k \in 1 .. 1 : IsValue(Operand(k), Len(heap))
      BY <1>3, <1>4, OperandsLemma
    <3>2. 1 \in 1 .. 1
      OBVIOUS
    <3> QED BY <3>1, <3>2
  <2>2. PICK rest, v : rest = Truncate(Below(1), Top.base) /\ v = Operand(1)
    OBVIOUS
  <2>3. /\ IF Len(frames) = 1
           THEN status' = "finished" /\ result' = v /\ stack' = rest
           ELSE status' = status /\ result' = result /\ stack' = Append(rest, v)
        /\ frames' = SubSeq(frames, 1, Len(frames) - 1)
        /\ UNCHANGED <<program, heap, stdout>>
    BY <1>4, <2>2 DEF Return, Pops
  <2>4. Typed(rest, Len(heap))
    BY <1>2, <2>1, <2>2, BelowTypeLemma, TruncateLemma DEF FrameSet
  <2>5. Typed(stack', Len(heap)) /\ IsValue(result', Len(heap))
    BY <2>1, <2>2, <2>3, <2>4, TypedAppend DEF TypeInv
  <2>6. /\ frames' \in Seq(FrameSet) /\ (Len(frames) # 1 => frames' # <<>>)
    <3>1. frames \in Seq(FrameSet)
      BY DEF TypeInv
    <3>2. PICK n : n = Len(frames) /\ n \in Nat \ {0}
      BY <1>2
    <3>3. SubSeq(frames, 1, n - 1) \in Seq(FrameSet)
      BY <3>1, <3>2
    <3>4. Len(SubSeq(frames, 1, n - 1)) = n - 1
      BY <3>1, <3>2
    <3>5. n # 1 => SubSeq(frames, 1, n - 1) # <<>>
      <4>1. n # 1 => n - 1 # 0
        BY <3>2
      <4> QED BY <3>4, <4>1, EmptyLemma
    <3> QED BY <2>3, <3>2, <3>3, <3>5
  <2>7. FrameSet' = FrameSet
    BY <2>3 DEF FrameSet
  <2>8. status' \in Statuses /\ (status' \in {"idle", "running"} => Len(frames) # 1)
    BY <1>2, <2>3 DEF Statuses
  <2>9. steps' \in 0 .. MaxSteps + 1 /\ steps' <= MaxSteps
    BY <1>2, MaxStepsAssumption
  <2> QED BY <2>3, <2>5, <2>6, <2>7, <2>8, <2>9 DEF TypeInv
<1>5. PopFault(Wanted(Instr)) # "none" => Fail(PopFault(Wanted(Instr)))
  BY DEF Return, Pops
<1> QED BY <1>1, <1>4, <1>5, PopsTypeLemma

LEMMA TypeNextLemma == TypeInv /\ [Next]_vars => TypeInv'
<1> SUFFICES ASSUME TypeInv, [Next]_vars PROVE TypeInv'
  OBVIOUS
<1>1. CASE UNCHANGED vars
  <2>1. FrameSet' = FrameSet
    BY <1>1 DEF vars, FrameSet
  <2> QED BY <1>1, <2>1 DEF TypeInv, vars
<1>2. CASE StepLimit \/ RunOff
  <2>1. \E e \in {"step limit exceeded", "ip out of bounds"} : Fail(e)
    BY <1>2 DEF StepLimit, RunOff
  <2>2. {"step limit exceeded", "ip out of bounds"} \subseteq Errors
    BY DEF Errors, Statuses, StructureErrors
  <2>3. steps \in 0 .. MaxSteps + 1 /\ steps <= MaxSteps /\ steps' = steps + 1
    BY <1>2 DEF StepLimit, RunOff, TypeInv
  <2>4. steps' \in 0 .. MaxSteps + 1
    BY <2>3, MaxStepsAssumption
  <2> QED BY <2>1, <2>2, <2>4, FailTypeLemma
<1>3. CASE Start
  BY <1>3, StartType
<1>4. CASE Push \/ LoadLocal \/ StoreLocal \/ PopTop
  BY <1>4, PushType, LoadLocalType, StoreLocalType, PopTopType
<1>5. CASE IntOp \/ FloatOp \/ UnaryOp \/ Compare \/ ConcatStr
  BY <1>5, IntOpType, FloatOpType, UnaryOpType, CompareType, ConcatStrType
<1>6. CASE MakeArray \/ Index \/ SetIndex
  BY <1>6, MakeArrayType, IndexType, SetIndexType
<1>7. CASE Jump \/ JumpIfFalse \/ CallFn \/ Return \/ CallBuiltinFn
  BY <1>7, JumpType, JumpIfFalseType, CallFnType, ReturnType, CallBuiltinType
<1> QED BY <1>1, <1>2, <1>3, <1>4, <1>5, <1>6, <1>7 DEF Next, Step, Stopped

(***************************************************************************)
(* The machine runs without types: whatever program it is given, verified  *)
(* or not, every integer it holds stays in its width, every float is one,  *)
(* every array reference on the stack, in the heap, in the output or in    *)
(* the result points to an array of the heap, and every frame names a      *)
(* function of the program (backend/vm.rs).                                *)
(***************************************************************************)
THEOREM MachineTypesHold == Spec => []TypeOK
<1> DEFINE I == program \in Programs /\ TypeInv
<1>1. Init => I
  BY TypeInitLemma DEF Init
<1>2. I /\ [Next]_vars => I'
  BY TypeNextLemma, ProgramLemma DEF Next, Stopped, vars
<1>3. I => TypeOK
  BY TypeInvLemma
<1> QED BY <1>1, <1>2, <1>3, PTL DEF Spec
=============================================================================
