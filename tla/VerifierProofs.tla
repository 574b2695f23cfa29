--------------------------- MODULE VerifierProofs ---------------------------
(***************************************************************************)
(* Proofs about the verifier: its types, that a program it accepts is      *)
(* typed, that a program it rejects has no typing, and that it processes   *)
(* every instruction at most once.                                         *)
(***************************************************************************)
EXTENDS Judgement, TLAPS

----------------------------------------------------------------------------
(* Programs and instructions.                                              *)

\* Every function of a program has a code of instructions.
LEMMA CodeLemma ==
  ASSUME NEW p \in Programs, NEW f \in FnIds(p)
  PROVE  /\ Len(p.functions) \in Nat
         /\ CodeLen(p, f) \in Nat
         /\ Fn(p, f).n_locals \in Nat
         /\ Fn(p, f).n_params \in Nat
         /\ \A pc \in Pcs(p, f) : IsOp(OpAt(p, f, pc))
<1>1. IsProgram(p)
  BY ProgramsAssumption
<1>2. Len(p.functions) \in Nat /\ f \in Nat /\ f < Len(p.functions)
  BY <1>1 DEF IsProgram, FnIds
<1>3. f + 1 \in DOMAIN p.functions
  BY <1>1, <1>2 DEF IsProgram
<1>4. IsChunk(Fn(p, f))
  BY <1>1, <1>3 DEF IsProgram, Fn
<1>5. Fn(p, f).code \in Seq(Ops)
  BY <1>4 DEF IsChunk, Chunks
<1>6. CodeLen(p, f) \in Nat /\ DOMAIN Fn(p, f).code = 1 .. CodeLen(p, f)
  BY <1>5 DEF CodeLen
<1>7. ASSUME NEW pc \in Pcs(p, f) PROVE IsOp(OpAt(p, f, pc))
  <2>1. pc + 1 \in DOMAIN Fn(p, f).code
    BY <1>6 DEF Pcs
  <2> QED BY <2>1, <1>4 DEF IsChunk, Chunks, OpAt
<1> QED BY <1>2, <1>4, <1>6, <1>7 DEF IsChunk, Chunks

\* An instruction never takes more off the stack than it needs.
LEMMA EffectLemma ==
  ASSUME NEW o, IsOp(o)
  PROVE  Needed(o) \in Nat /\ Delta(o) \in Int /\ Needed(o) + Delta(o) >= 0
<1>1. o.op \in OpNames /\ o.n \in Int /\ o.argc \in Nat
  BY DEF IsOp, Ops
<1>2. o.op = "MakeArray" => o.n \in Nat
  BY DEF IsOp
<1>3. Needed(o) \in Nat
  BY <1>1, <1>2 DEF Needed
<1>4. o.op \in SinkOps => Needed(o) = 1
  BY DEF Needed, SinkOps, BinaryOps, IntArith, FltArith, IntOrder, FltOrder, EqOps
<1> QED BY <1>3, <1>4 DEF Delta

\* The operand check fails with one of its own errors, and the offsets that
\* follow an instruction are offsets.
LEMMA OperandErrorLemma ==
  ASSUME NEW p, NEW f, NEW o, OperandError(p, f, o) # "none"
  PROVE  OperandError(p, f, o) \in OperandErrors
BY DEF OperandError, OperandErrors

LEMMA SuccessorsLemma ==
  ASSUME NEW o, IsOp(o), NEW pc \in Nat
  PROVE  Successors(o, pc) \subseteq Nat
BY DEF Successors, IsOp, Ops

----------------------------------------------------------------------------
(* The worklist.                                                           *)

PendingIn(W) == {W[i][1] : i \in DOMAIN W}
Agrees(H, W) == \A i \in DOMAIN W : H[W[i][1]] = W[i][2]
Distinct(W)  == \A i, j \in DOMAIN W : W[i][1] = W[j][1] => i = j

\* What following edges does to the heights H and the worklist W of a function
\* whose offsets are P: a height once known stays, and an offset becomes known
\* exactly when it is put on the worklist.
Grown(P, H, W, H2, W2) ==
  /\ H2 \in [P -> Nat \cup {NoHeight}]
  /\ W2 \in Seq(P \X Nat)
  /\ Agrees(H2, W2)
  /\ Distinct(W) => Distinct(W2)
  /\ PendingIn(W) \subseteq PendingIn(W2)
  /\ \A q \in P : H[q] # NoHeight => H2[q] = H[q]
  /\ \A q \in P : H2[q] # NoHeight => H[q] # NoHeight \/ q \in PendingIn(W2)
  /\ \A q \in PendingIn(W2) : q \in PendingIn(W) \/ H[q] = NoHeight

\* Appending to and cutting a worklist, element by element.
LEMMA AppendLemma ==
  ASSUME NEW S, NEW W \in Seq(S), NEW e \in S
  PROVE  /\ Append(W, e) \in Seq(S)
         /\ DOMAIN Append(W, e) = DOMAIN W \cup {Len(W) + 1}
         /\ \A i \in DOMAIN W : Append(W, e)[i] = W[i]
         /\ Append(W, e)[Len(W) + 1] = e
         /\ Len(W) + 1 \notin DOMAIN W
OBVIOUS

LEMMA FrontLemma ==
  ASSUME NEW S, NEW W \in Seq(S), W # <<>>
  PROVE  /\ Front(W) \in Seq(S)
         /\ Last(W) \in S
         /\ Len(W) \in DOMAIN W
         /\ DOMAIN Front(W) = DOMAIN W \ {Len(W)}
         /\ \A i \in DOMAIN Front(W) : Front(W)[i] = W[i]
BY DEF Front, Last

\* What the walk guarantees when push_edge finds no error.
GoodEdge(P, H, W, t, h) ==
  /\ H \in [P -> Nat \cup {NoHeight}] /\ W \in Seq(P \X Nat) /\ Agrees(H, W)
  /\ t \in P /\ h \in Nat /\ H[t] \in {NoHeight, h}

\* One push_edge that finds no error.
LEMMA EdgeLemma ==
  ASSUME NEW P, NEW H, NEW W, NEW t, NEW h, GoodEdge(P, H, W, t, h)
  PROVE  /\ Grown(P, H, W, EdgeHeights(H, t, h), EdgeWork(W, H, t, h))
         /\ EdgeHeights(H, t, h)[t] = h
<1> DEFINE H2 == EdgeHeights(H, t, h)
           W2 == EdgeWork(W, H, t, h)
<1>0. /\ H \in [P -> Nat \cup {NoHeight}] /\ W \in Seq(P \X Nat) /\ Agrees(H, W)
      /\ t \in P /\ h \in Nat /\ H[t] \in {NoHeight, h}
  BY DEF GoodEdge
<1>1. /\ H2 \in [P -> Nat \cup {NoHeight}] /\ H2[t] = h
      /\ \A q \in P : q # t => H2[q] = H[q]
  BY <1>0 DEF EdgeHeights
<1>2. \A i \in DOMAIN W : W[i] \in P \X Nat /\ W[i][1] \in P /\ W[i][2] \in Nat
  BY <1>0
<1>3. NoHeight \notin Nat
  BY DEF NoHeight
<1>4. \A i \in DOMAIN W : H[W[i][1]] # NoHeight
  BY <1>0, <1>2, <1>3 DEF Agrees
<1>5. CASE H[t] = NoHeight
  <2>1. W2 = Append(W, <<t, h>>)
    BY <1>5 DEF EdgeWork
  <2>2. /\ W2 \in Seq(P \X Nat)
        /\ DOMAIN W2 = DOMAIN W \cup {Len(W) + 1}
        /\ \A i \in DOMAIN W : W2[i] = W[i]
        /\ W2[Len(W) + 1] = <<t, h>>
    BY <1>0, <2>1, AppendLemma
  <2>3. \A i \in DOMAIN W : W[i][1] # t
    BY <1>4, <1>5
  <2>4. Agrees(H2, W2)
    BY <1>0, <1>1, <1>2, <2>2, <2>3 DEF Agrees
  <2>5. Distinct(W) => Distinct(W2)
    BY <2>2, <2>3 DEF Distinct
  <2>6. PendingIn(W2) = PendingIn(W) \cup {t}
    BY <2>2 DEF PendingIn
  <2> QED BY <1>1, <1>5, <2>2, <2>4, <2>5, <2>6 DEF Grown
<1>6. CASE H[t] # NoHeight
  <2>1. H2 = H /\ W2 = W
    BY <1>0, <1>6 DEF EdgeHeights, EdgeWork
  <2> QED BY <1>0, <1>1, <2>1 DEF Grown
<1> QED BY <1>1, <1>5, <1>6

LEMMA GrownTransitive ==
  ASSUME NEW P, NEW H, NEW W, NEW H1, NEW W1, NEW H2, NEW W2,
         PendingIn(W) \subseteq P, PendingIn(W1) \subseteq P, PendingIn(W2) \subseteq P,
         Grown(P, H, W, H1, W1), Grown(P, H1, W1, H2, W2)
  PROVE  Grown(P, H, W, H2, W2)
<1>1. \A q \in P : H[q] # NoHeight => H2[q] = H[q]
  BY DEF Grown
<1>2. \A q \in P : H2[q] # NoHeight => H[q] # NoHeight \/ q \in PendingIn(W2)
  BY DEF Grown
<1>3. \A q \in PendingIn(W2) : q \in PendingIn(W) \/ H[q] = NoHeight
  BY DEF Grown
<1> QED BY <1>1, <1>2, <1>3 DEF Grown

----------------------------------------------------------------------------
(* The invariant: types and the walk.                                      *)

Inv == TypeOK /\ WalkInv

\* The instruction at the top of the worklist, as every visit sees it.
LEMMA VisitLemma ==
  ASSUME Inv, Visiting
  PROVE  /\ fn \in FnIds(program) /\ program \in Programs
         /\ Pc \in Pcs(program, fn) /\ Pc \in Nat
         /\ Height \in Nat /\ heights[Pc] = Height
         /\ IsOp(Instr)
         /\ Front(work) \in Seq(Pcs(program, fn) \X Nat)
         /\ DOMAIN Front(work) = DOMAIN work \ {Len(work)}
         /\ \A i \in DOMAIN Front(work) : Front(work)[i] = work[i]
         /\ Agrees(heights, Front(work))
         /\ Height >= Needed(Instr) => Next_height \in Nat
<1>1. /\ fn \in FnIds(program) /\ program \in Programs
      /\ work \in Seq(Pcs(program, fn) \X Nat) /\ work # <<>>
      /\ \A i \in DOMAIN work : heights[work[i][1]] = work[i][2]
  BY DEF Inv, TypeOK, WalkInv, Visiting
<1>2. /\ Front(work) \in Seq(Pcs(program, fn) \X Nat)
      /\ Last(work) \in Pcs(program, fn) \X Nat
      /\ Len(work) \in DOMAIN work
      /\ DOMAIN Front(work) = DOMAIN work \ {Len(work)}
      /\ \A i \in DOMAIN Front(work) : Front(work)[i] = work[i]
  BY <1>1, FrontLemma
<1>3. Pc \in Pcs(program, fn) /\ Height \in Nat
  BY <1>2 DEF Pc, Height
<1>4. heights[Pc] = Height
  BY <1>1, <1>2 DEF Pc, Height, Last
<1>5. IsOp(Instr) /\ CodeLen(program, fn) \in Nat
  BY <1>1, <1>3, CodeLemma DEF Instr
<1>6. Pc \in Nat
  BY <1>3, <1>5 DEF Pcs
<1>7. Height >= Needed(Instr) => Next_height \in Nat
  BY <1>3, <1>5, EffectLemma DEF Next_height
<1>8. Agrees(heights, Front(work))
  BY <1>1, <1>2 DEF Agrees
<1> QED BY <1>1, <1>2, <1>3, <1>4, <1>5, <1>6, <1>7, <1>8

\* Ending the verification keeps the invariant: nothing but the verdict moves.
LEMMA ConcludeLemma ==
  ASSUME Inv, stage # "done", NEW e, e \in Verdicts \ {"none"},
         e = "ok" => fn = Len(program.functions) /\ stage # "entry", Conclude(e)
  PROVE  Inv'
BY DEF Inv, TypeOK, WalkInv, Conclude, Stages

\* A visit only extends the walk, from the worklist without its last entry.
VisitGrows == Grown(Pcs(program, fn), heights, Front(work), heights', work')

\* A visit that grows the walk and gives every successor of the instruction the
\* height it leaves keeps the invariant: the instruction is settled.
LEMMA SettleLemma ==
  ASSUME Inv, Sane,
         VisitGrows,
         \A s \in Successors(Instr, Pc) :
            s \in Pcs(program, fn) /\ heights'[s] = Next_height,
         UNCHANGED <<program, stage, fn, verdict, typings>>
  PROVE  Inv'
<1> DEFINE P == Pcs(program, fn)
<1>1. Visiting /\ Height >= Needed(Instr) /\ OperandError(program, fn, Instr) = "none"
  BY DEF Sane
<1>2. /\ fn \in FnIds(program) /\ Pc \in P /\ Height \in Nat /\ heights[Pc] = Height
      /\ DOMAIN Front(work) = DOMAIN work \ {Len(work)}
      /\ \A i \in DOMAIN Front(work) : Front(work)[i] = work[i]
      /\ Next_height \in Nat
  BY <1>1, VisitLemma
<1>3. /\ heights' \in [P -> Nat \cup {NoHeight}] /\ work' \in Seq(P \X Nat)
      /\ Agrees(heights', work')
      /\ \A q \in P : heights[q] # NoHeight => heights'[q] = heights[q]
      /\ \A q \in P : heights'[q] # NoHeight => heights[q] # NoHeight \/ q \in PendingIn(work')
      /\ PendingIn(Front(work)) \subseteq PendingIn(work')
      /\ Distinct(Front(work)) => Distinct(work')
  BY DEF VisitGrows, Grown
<1>4. TypeOK'
  BY <1>1, <1>3 DEF Inv, TypeOK, Visiting
<1>5. NoHeight \notin Nat
  BY DEF NoHeight
<1>6. heights'[Pc] = Height
  BY <1>2, <1>3, <1>5
<1>7. LocallyTyped(program, fn, heights', Pc)
  BY <1>1, <1>2, <1>6 DEF LocallyTyped, Instr, Next_height
<1>8. ASSUME NEW q \in P, q # Pc, heights'[q] # NoHeight, q \notin PendingIn(work')
      PROVE  LocallyTyped(program, fn, heights', q)
  <2>1. heights[q] # NoHeight
    BY <1>3, <1>8
  <2>2. q \notin PendingIn(Front(work))
    BY <1>3, <1>8
  <2>3. q \notin Pending
    BY <1>2, <1>8, <2>2 DEF Pending, PendingIn, Pc, Last
  <2>4. LocallyTyped(program, fn, heights, q)
    BY <1>1, <2>1, <2>3 DEF Inv, WalkInv, Settled, Known, Visiting
  <2>5. heights'[q] = heights[q] /\ heights[q] \in Nat
    BY <1>1, <1>3, <2>1 DEF Inv, TypeOK, Visiting
  <2>6. IsOp(OpAt(program, fn, q))
    BY <1>1, VisitLemma, CodeLemma
  <2>7. heights[q] + Delta(OpAt(program, fn, q)) \in Nat
    BY <2>4, <2>5, <2>6, EffectLemma DEF LocallyTyped
  <2>8. \A s \in Successors(OpAt(program, fn, q), q) :
           s \in P /\ heights'[s] = heights'[q] + Delta(OpAt(program, fn, q))
    BY <1>3, <1>5, <2>4, <2>5, <2>7 DEF LocallyTyped
  <2> QED BY <2>4, <2>5, <2>8 DEF LocallyTyped
<1>9. \A q \in Settled' : LocallyTyped(program, fn, heights', q)
  BY <1>7, <1>8 DEF Settled, Known, Pending, PendingIn
<1>10. heights'[0] = 0
  <2>1. 0 \in P /\ heights[0] = 0
    BY <1>1, <1>2, CodeLemma, VisitLemma DEF Inv, WalkInv, Visiting, Pcs
  <2> QED BY <1>3, <2>1 DEF NoHeight
<1>11. WalkInv'
  <2>1. Distinct(Front(work))
    BY <1>1, <1>2 DEF Inv, WalkInv, Visiting, NoDuplicateWork, Distinct
  <2>2. NoDuplicateWork'
    BY <1>3, <2>1 DEF Distinct, NoDuplicateWork
  <2> QED BY <1>1, <1>3, <1>9, <1>10, <2>2 DEF Inv, WalkInv, Visiting, Agrees
<1> QED BY <1>4, <1>11 DEF Inv

----------------------------------------------------------------------------
(* Every action keeps the invariant.                                       *)

LEMMA InitLemma == Init => Inv
<1> SUFFICES ASSUME Init PROVE Inv
  OBVIOUS
<1>1. Len(program.functions) \in Nat
  BY ProgramsAssumption DEF Init, Unverified, IsProgram
<1>2. TypeOK
  BY <1>1 DEF Init, Unverified, TypeOK, Stages, Verdicts
<1>3. WalkInv
  BY <1>1 DEF Init, Unverified, WalkInv, FnIds
<1> QED BY <1>2, <1>3 DEF Inv

\* An edge that is in range and agrees extends the walk from the popped worklist.
LEMMA FollowEdgeLemma ==
  ASSUME Inv, Sane, NEW target \in Nat, FollowEdge(target),
         Successors(Instr, Pc) = {target}
  PROVE  Inv' /\ (stage' = "visit" => VisitGrows)
<1> DEFINE P == Pcs(program, fn)
           e == EdgeError(heights, target, Next_height)
<1>1. Visiting /\ Next_height \in Nat /\ CodeLen(program, fn) \in Nat
      /\ heights \in [P -> Nat \cup {NoHeight}] /\ Front(work) \in Seq(P \X Nat)
      /\ Agrees(heights, Front(work)) /\ stage # "done"
  BY VisitLemma, CodeLemma DEF Sane, Visiting, Inv, TypeOK
<1>2. CASE e # "none"
  <2>1. e \in Verdicts \ {"none"} /\ e # "ok" /\ Conclude(e)
    BY <1>2 DEF EdgeError, Verdicts, FlowErrors, FollowEdge
  <2> QED BY <1>1, <2>1, ConcludeLemma DEF Conclude
<1>3. CASE e = "none"
  <2>1. target \in P /\ heights[target] \in {NoHeight, Next_height}
    BY <1>1, <1>3 DEF EdgeError, Pcs
  <2>2. /\ heights' = EdgeHeights(heights, target, Next_height)
        /\ work' = EdgeWork(Front(work), heights, target, Next_height)
        /\ UNCHANGED <<program, stage, fn, verdict, typings>>
    BY <1>3 DEF FollowEdge
  <2>3. /\ Grown(P, heights, Front(work), heights', work')
        /\ heights'[target] = Next_height
    <3>1. GoodEdge(P, heights, Front(work), target, Next_height)
      BY <1>1, <2>1 DEF GoodEdge
    <3> QED BY <2>2, <3>1, EdgeLemma
  <2> QED BY <2>1, <2>2, <2>3, SettleLemma DEF VisitGrows
<1> QED BY <1>2, <1>3

LEMMA BranchLemma ==
  ASSUME Inv, VisitBranch
  PROVE  Inv' /\ (stage' = "visit" => VisitGrows)
<1> DEFINE P  == Pcs(program, fn)
           t  == Instr.n
           h  == Next_height
           e1 == EdgeError(heights, t, h)
           H1 == EdgeHeights(heights, t, h)
           W1 == EdgeWork(Front(work), heights, t, h)
           e2 == EdgeError(H1, Pc + 1, h)
           H2 == EdgeHeights(H1, Pc + 1, h)
           W2 == EdgeWork(W1, H1, Pc + 1, h)
<1>0. Sane /\ Visiting /\ Instr.op = "JumpIfFalse"
  BY DEF VisitBranch, Sane
<1>1. h \in Nat /\ CodeLen(program, fn) \in Nat /\ Pc \in Nat /\ t \in Nat
      /\ heights \in [P -> Nat \cup {NoHeight}] /\ Front(work) \in Seq(P \X Nat)
      /\ Agrees(heights, Front(work)) /\ stage # "done"
  BY <1>0, VisitLemma, CodeLemma DEF Sane, Visiting, Inv, TypeOK, IsOp
<1>2. CASE e1 # "none" \/ e2 # "none"
  <2>1. \E e \in {e1, e2} : e # "none" /\ Conclude(e)
    BY <1>2 DEF VisitBranch
  <2>2. \A e \in {e1, e2} : e # "none" => e \in Verdicts \ {"none"} /\ e # "ok"
    BY DEF EdgeError, Verdicts, FlowErrors
  <2> QED BY <1>1, <2>1, <2>2, ConcludeLemma DEF Conclude
<1>3. CASE e1 = "none" /\ e2 = "none"
  <2>1. t \in P /\ heights[t] \in {NoHeight, h}
    BY <1>1, <1>3 DEF EdgeError, Pcs
  <2>2. Grown(P, heights, Front(work), H1, W1) /\ H1[t] = h
    <3>1. GoodEdge(P, heights, Front(work), t, h)
      BY <1>1, <2>1 DEF GoodEdge
    <3> QED BY <3>1, EdgeLemma
  <2>3. H1 \in [P -> Nat \cup {NoHeight}] /\ W1 \in Seq(P \X Nat) /\ Agrees(H1, W1)
    BY <2>2 DEF Grown
  <2>4. Pc + 1 \in P /\ H1[Pc + 1] \in {NoHeight, h}
    BY <1>1, <1>3 DEF EdgeError, Pcs
  <2>5. Grown(P, H1, W1, H2, W2) /\ H2[Pc + 1] = h
    <3>1. GoodEdge(P, H1, W1, Pc + 1, h)
      BY <1>1, <2>3, <2>4 DEF GoodEdge
    <3> QED BY <3>1, EdgeLemma
  <2>6. W2 \in Seq(P \X Nat) /\ H2[t] = h
    BY <1>1, <2>1, <2>2, <2>5 DEF Grown, NoHeight
  <2>7. \A W \in Seq(P \X Nat) : PendingIn(W) \subseteq P
    BY DEF PendingIn
  <2>8. Grown(P, heights, Front(work), H2, W2)
    <3> HIDE DEF H1, W1, H2, W2, P
    <3> QED BY <1>1, <2>2, <2>3, <2>5, <2>6, <2>7, GrownTransitive
  <2>9. heights' = H2 /\ work' = W2 /\ UNCHANGED <<program, stage, fn, verdict, typings>>
    BY <1>3 DEF VisitBranch
  <2>10. \A s \in Successors(Instr, Pc) : s \in P /\ heights'[s] = h
    BY <1>0, <2>1, <2>4, <2>5, <2>6, <2>9 DEF Successors
  <2>11. VisitGrows
    BY <2>8, <2>9 DEF VisitGrows
  <2> QED BY <1>0, <2>9, <2>10, <2>11, SettleLemma
<1> QED BY <1>2, <1>3

LEMMA ReturnLemma ==
  ASSUME Inv, VisitReturn
  PROVE  Inv' /\ (stage' = "visit" => VisitGrows)
<1> DEFINE P == Pcs(program, fn)
<1>1. Sane /\ Visiting /\ Successors(Instr, Pc) = {}
  BY DEF VisitReturn, Sane, Successors
<1>2. /\ Front(work) \in Seq(P \X Nat) /\ Agrees(heights, Front(work))
      /\ DOMAIN Front(work) = DOMAIN work \ {Len(work)}
      /\ \A i \in DOMAIN Front(work) : Front(work)[i] = work[i]
      /\ heights \in [P -> Nat \cup {NoHeight}]
  BY <1>1, VisitLemma DEF Inv, TypeOK, Visiting
<1>3. VisitGrows
  BY <1>2 DEF VisitReturn, VisitGrows, Grown
<1> QED BY <1>1, <1>3, SettleLemma DEF VisitReturn

LEMMA StartLemma ==
  ASSUME Inv, StartChunk
  PROVE  Inv'
<1>1. /\ fn \in FnIds(program) /\ program \in Programs /\ fn \in Nat
      /\ CodeLen(program, fn) \in Nat /\ 0 \in Pcs(program, fn)
  <2>1. fn \in FnIds(program) /\ program \in Programs /\ fn \in Nat
    BY ProgramsAssumption DEF StartChunk, Inv, TypeOK, FnIds, IsProgram
  <2> QED BY <2>1, CodeLemma DEF StartChunk, Pcs
<1>2. heights' \in [Pcs(program, fn) -> Nat \cup {NoHeight}] /\ heights'[0] = 0
  BY <1>1 DEF StartChunk
<1>3. work' \in Seq(Pcs(program, fn) \X Nat) /\ DOMAIN work' = {1} /\ work'[1] = <<0, 0>>
  BY <1>1 DEF StartChunk
<1>4. TypeOK'
  BY <1>1, <1>2, <1>3 DEF StartChunk, Inv, TypeOK, Stages
<1>5. \A q \in Pcs(program, fn) : heights'[q] # NoHeight => q = 0
  BY <1>1 DEF StartChunk
<1>6. Settled' = {}
  BY <1>3, <1>5 DEF Settled, Known, Pending, StartChunk
<1>7. NoDuplicateWork'
  BY <1>3 DEF NoDuplicateWork
<1>8. WalkInv'
  BY <1>2, <1>3, <1>6, <1>7 DEF StartChunk, Inv, WalkInv
<1> QED BY <1>4, <1>8 DEF Inv

LEMMA FinishLemma ==
  ASSUME Inv, FinishChunk
  PROVE  Inv'
<1>1. /\ fn \in FnIds(program) /\ fn \in Nat /\ program \in Programs
      /\ Len(program.functions) \in Nat /\ fn < Len(program.functions)
      /\ heights \in [Pcs(program, fn) -> Nat \cup {NoHeight}]
      /\ DOMAIN typings = FnIds(program)
  BY ProgramsAssumption DEF FinishChunk, Inv, TypeOK, FnIds, IsProgram
<1>2. Settled = Known
  BY DEF FinishChunk, Settled, Pending
<1>3. IsTyping(program, fn, heights)
  BY <1>1, <1>2 DEF FinishChunk, Inv, WalkInv, IsTyping, Known
<1>4. TypeOK'
  BY <1>1 DEF FinishChunk, Inv, TypeOK, Stages
<1>5. \A f \in FnIds(program) : typings'[f] = IF f = fn THEN heights ELSE typings[f]
  BY <1>1 DEF FinishChunk
<1>6. \A f \in FnIds(program) :
        (f < fn' /\ Pcs(program, f) # {}) => IsTyping(program, f, typings'[f])
  BY <1>1, <1>3, <1>5 DEF FinishChunk, Inv, WalkInv, FnIds
<1>7. WalkInv'
  BY <1>1, <1>6 DEF FinishChunk, Inv, WalkInv, TypeOK
<1> QED BY <1>4, <1>7 DEF Inv

LEMMA SkipLemma ==
  ASSUME Inv, SkipEmptyChunk
  PROVE  Inv'
<1>1. /\ fn \in Nat /\ program \in Programs /\ fn \in FnIds(program)
      /\ Len(program.functions) \in Nat /\ fn < Len(program.functions)
      /\ Pcs(program, fn) = {}
  BY ProgramsAssumption DEF SkipEmptyChunk, Inv, TypeOK, FnIds, IsProgram, Pcs
<1>2. TypeOK'
  BY <1>1 DEF SkipEmptyChunk, Inv, TypeOK
<1>3. WalkInv'
  BY <1>1 DEF SkipEmptyChunk, Inv, WalkInv, FnIds, TypeOK
<1> QED BY <1>2, <1>3 DEF Inv

\* The entry point is a number, and so is the number of functions.
LEMMA EntryLemma ==
  ASSUME Inv
  PROVE  program.main \in Nat /\ Len(program.functions) \in Nat
BY ProgramsAssumption DEF Inv, TypeOK, IsProgram

LEMMA NextLemma == Inv /\ [Next]_vars => Inv'
<1> SUFFICES ASSUME Inv, [Next]_vars PROVE Inv'
  OBVIOUS
<1>1. CASE CheckEntry
  <2>1. CASE program.main >= Len(program.functions)
    BY <1>1, <2>1, ConcludeLemma DEF CheckEntry, Verdicts, OperandErrors
  <2>2. CASE ~ (program.main >= Len(program.functions))
    <3>1. TypeOK'
      BY <1>1, <2>2 DEF CheckEntry, Inv, TypeOK, Stages
    <3>2. WalkInv'
      BY <1>1, <2>2, EntryLemma DEF CheckEntry, Inv, TypeOK, WalkInv
    <3> QED BY <3>1, <3>2 DEF Inv
  <2> QED BY <2>1, <2>2
<1>2. CASE Accept
  BY <1>2, ConcludeLemma DEF Accept, Verdicts
<1>3. CASE SkipEmptyChunk
  BY <1>3, SkipLemma
<1>4. CASE StartChunk
  BY <1>4, StartLemma
<1>5. CASE FinishChunk
  BY <1>5, FinishLemma
<1>6. CASE VisitUnderflow
  BY <1>6, ConcludeLemma DEF VisitUnderflow, Visiting, Verdicts, FlowErrors
<1>7. CASE VisitBadOperand
  BY <1>7, ConcludeLemma, OperandErrorLemma
     DEF VisitBadOperand, Visiting, Verdicts, OperandErrors
<1>8. CASE VisitReturn
  BY <1>8, ReturnLemma
<1>9. CASE VisitJump
  <2>1. Sane /\ FollowEdge(Instr.n) /\ Instr.n \in Nat
    BY <1>9, VisitLemma DEF VisitJump, Sane, IsOp
  <2>2. Successors(Instr, Pc) = {Instr.n}
    BY <1>9 DEF VisitJump, Successors
  <2> QED BY <2>1, <2>2, FollowEdgeLemma
<1>10. CASE VisitBranch
  BY <1>10, BranchLemma
<1>11. CASE VisitPlain
  <2>1. Sane /\ Visiting /\ Pc + 1 \in Nat
    BY <1>11, VisitLemma DEF VisitPlain, Sane
  <2>2. CASE Pc + 1 >= CodeLen(program, fn)
    BY <1>11, <2>1, <2>2, ConcludeLemma
       DEF VisitPlain, Visiting, Verdicts, FlowErrors
  <2>3. CASE ~ (Pc + 1 >= CodeLen(program, fn))
    <3>1. Successors(Instr, Pc) = {Pc + 1}
      BY <1>11 DEF VisitPlain, Successors, JumpOps
    <3> QED BY <1>11, <2>1, <2>3, <3>1, FollowEdgeLemma DEF VisitPlain
  <2> QED BY <2>2, <2>3
<1>12. CASE Done \/ UNCHANGED vars
  BY <1>12 DEF Done, vars, Inv, TypeOK, WalkInv, NoDuplicateWork, Settled, Known, Pending
<1> QED
  BY <1>1, <1>2, <1>3, <1>4, <1>5, <1>6, <1>7, <1>8, <1>9, <1>10, <1>11, <1>12 DEF Next

----------------------------------------------------------------------------
(* The theorems.                                                           *)

LEMMA ProgramLemma == Next => UNCHANGED program
BY DEF Next, CheckEntry, Accept, SkipEmptyChunk, StartChunk, FinishChunk, VisitUnderflow,
   VisitBadOperand, VisitReturn, VisitJump, VisitBranch, VisitPlain, FollowEdge, Conclude, Done,
   vars

\* The inductive invariant of verify, along every step of it: types, the walk so
\* far, and that no instruction is on the worklist twice.
THEOREM InvHolds == Spec => []Inv
<1>1. Init => Inv
  BY InitLemma
<1>2. Inv /\ [Next]_vars => Inv'
  BY NextLemma
<1> QED BY <1>1, <1>2, PTL DEF Spec

\* The types of the verifier's state.
THEOREM TypesHold == Spec => []TypeOK
<1>1. Inv => TypeOK
  BY DEF Inv
<1> QED BY <1>1, InvHolds, PTL

\* Settled instructions are locally typed at every moment of the walk.
THEOREM WalkHolds == Spec => []WalkInv
<1>1. Inv => WalkInv
  BY DEF Inv
<1> QED BY <1>1, InvHolds, PTL

LEMMA SoundLemma == Inv => Sound
<1> SUFFICES ASSUME Inv, verdict = "ok" PROVE Sound
  BY DEF Sound
<1>1. ASSUME NEW f \in FnIds(program), Pcs(program, f) # {}
      PROVE  IsTyping(program, f, typings[f])
  <2>1. f < fn
    BY EntryLemma DEF Inv, WalkInv, FnIds
  <2> QED BY <1>1, <2>1 DEF Inv, WalkInv
<1>2. program.main \in FnIds(program)
  BY EntryLemma DEF Inv, WalkInv, FnIds
<1> QED BY <1>1, <1>2 DEF Sound, TypedBy

\* An accepted program is typed by the heights verify computed: whatever the
\* program, whatever the order of the worklist.
THEOREM VerifierIsSound == Spec => []Sound
BY SoundLemma, InvHolds, PTL

\* No instruction is processed twice, and no proven height changes.
THEOREM InstructionsProcessedOnce == Spec => ProcessedOnce
<1> DEFINE Once == (stage = "visit" /\ stage' = "visit") =>
                     /\ NoDuplicateWork'
                     /\ Settled \subseteq Settled'
                     /\ \A pc \in Known : heights'[pc] = heights[pc]
<1>1. Inv /\ [Next]_vars => Once
  <2> SUFFICES ASSUME Inv, [Next]_vars, stage = "visit", stage' = "visit"
               PROVE  /\ NoDuplicateWork'
                      /\ Settled \subseteq Settled'
                      /\ \A pc \in Known : heights'[pc] = heights[pc]
    OBVIOUS
  <2>1. NoDuplicateWork'
    BY NextLemma DEF Inv, WalkInv
  <2>2. CASE UNCHANGED <<program, fn, heights, work>>
    BY <2>1, <2>2 DEF Settled, Known, Pending
  <2>3. CASE Visiting /\ VisitGrows /\ UNCHANGED <<program, fn>>
    <3>1. /\ \A q \in Pcs(program, fn) : heights[q] # NoHeight => heights'[q] = heights[q]
          /\ \A q \in PendingIn(work') : q \in PendingIn(Front(work)) \/ heights[q] = NoHeight
      BY <2>3 DEF VisitGrows, Grown
    <3>2. PendingIn(Front(work)) \subseteq Pending
      BY <2>3, VisitLemma DEF PendingIn, Pending
    <3>3. Pending' = PendingIn(work')
      BY DEF Pending, PendingIn
    <3> QED BY <2>1, <2>3, <3>1, <3>2, <3>3 DEF Settled, Known
  <2>4. (Visiting /\ VisitGrows /\ UNCHANGED <<program, fn>>)
          \/ UNCHANGED <<program, fn, heights, work>>
    <3>1. CASE VisitReturn
      BY <3>1, ReturnLemma DEF VisitReturn, Sane
    <3>2. CASE VisitBranch
      BY <3>2, BranchLemma DEF VisitBranch, Sane, Conclude
    <3>3. CASE VisitJump
      <4>1. Sane /\ FollowEdge(Instr.n) /\ Instr.n \in Nat
        BY <3>3, VisitLemma DEF VisitJump, Sane, IsOp
      <4>2. Successors(Instr, Pc) = {Instr.n}
        BY <3>3 DEF VisitJump, Successors
      <4> QED BY <4>1, <4>2, FollowEdgeLemma DEF FollowEdge, Conclude, Sane
    <3>4. CASE VisitPlain
      <4>1. Sane /\ Pc + 1 \in Nat /\ Successors(Instr, Pc) = {Pc + 1}
        BY <3>4, VisitLemma DEF VisitPlain, Sane, Successors, JumpOps
      <4>2. FollowEdge(Pc + 1)
        BY <3>4 DEF VisitPlain, Conclude
      <4> QED BY <4>1, <4>2, FollowEdgeLemma DEF FollowEdge, Conclude, Sane
    <3> QED
      BY <3>1, <3>2, <3>3, <3>4
         DEF Next, vars, CheckEntry, Accept, SkipEmptyChunk, StartChunk, FinishChunk,
             VisitUnderflow, VisitBadOperand, Conclude, Done
  <2> QED BY <2>2, <2>3, <2>4
<1>2. [][Inv /\ [Next]_vars => Once]_vars
  BY <1>1, PTL
<1> QED BY <1>1, InvHolds, PTL DEF Spec, ProcessedOnce

----------------------------------------------------------------------------
(* Completeness: every known height is forced, so a rejection means that   *)
(* there is no typing at all.                                              *)

Errors == OperandErrors \cup FlowErrors
NoTypingOf(p, f) == ~ \E T : IsTyping(p, f, T)
Forced(T) == IsTyping(program, fn, T) =>
               \A q \in Pcs(program, fn) : heights[q] # NoHeight => T[q] = heights[q]

Complete ==
  /\ stage = "visit" => \A T : Forced(T)
  /\ (verdict \in Errors /\ program.main < Len(program.functions))
        => fn \in FnIds(program) /\ Pcs(program, fn) # {} /\ NoTypingOf(program, fn)

\* What any typing says of the instruction under visit and its successors.
LEMMA ForcedVisit ==
  ASSUME Inv, Visiting, NEW T, Forced(T), IsTyping(program, fn, T)
  PROVE  /\ T[Pc] = Height
         /\ Needed(Instr) <= Height
         /\ OperandError(program, fn, Instr) = "none"
         /\ \A s \in Successors(Instr, Pc) :
               s \in Pcs(program, fn) /\ T[s] = Next_height
<1>1. Pc \in Pcs(program, fn) /\ Height \in Nat /\ heights[Pc] = Height
  BY VisitLemma
<1>2. T[Pc] = Height /\ T[Pc] # NoHeight
  BY <1>1 DEF Forced, NoHeight
<1>3. LocallyTyped(program, fn, T, Pc)
  BY <1>1, <1>2 DEF IsTyping
<1> QED BY <1>2, <1>3 DEF LocallyTyped, Instr, Next_height

\* A successor edge that fails has no typing to fail on.
LEMMA EdgeErrorLemma ==
  ASSUME Inv, Visiting, NEW T, IsTyping(program, fn, T), NEW H, NEW t \in Nat,
         \A q \in Pcs(program, fn) : H[q] # NoHeight => T[q] = H[q],
         t \in Pcs(program, fn), T[t] = Next_height
  PROVE  /\ EdgeError(H, t, Next_height) = "none"
         /\ H \in [Pcs(program, fn) -> Nat \cup {NoHeight}] =>
              \A q \in Pcs(program, fn) :
                EdgeHeights(H, t, Next_height)[q] # NoHeight
                   => T[q] = EdgeHeights(H, t, Next_height)[q]
<1>1. CodeLen(program, fn) \in Nat
  BY VisitLemma, CodeLemma
<1>2. EdgeError(H, t, Next_height) = "none"
  BY <1>1 DEF EdgeError, Pcs
<1>3. ASSUME H \in [Pcs(program, fn) -> Nat \cup {NoHeight}],
             NEW q \in Pcs(program, fn),
             EdgeHeights(H, t, Next_height)[q] # NoHeight
      PROVE  T[q] = EdgeHeights(H, t, Next_height)[q]
  BY <1>3 DEF EdgeHeights
<1> QED BY <1>2, <1>3

\* A visit that stops is a visit of an untypable function; one that goes on
\* keeps every height forced.
LEMMA StopLemma ==
  ASSUME Inv, Visiting, NEW e, Conclude(e), NoTypingOf(program, fn)
  PROVE  Complete'
<1>1. /\ fn \in FnIds(program) /\ Pcs(program, fn) # {}
      /\ stage' = "done" /\ UNCHANGED <<program, fn>>
  BY VisitLemma DEF Conclude, Inv, TypeOK, Visiting
<1> QED BY <1>1 DEF Complete, NoTypingOf

LEMMA GoOnLemma ==
  ASSUME Inv, Visiting, UNCHANGED <<program, stage, fn, verdict>>,
         \A T : IsTyping(program, fn, T) =>
            \A q \in Pcs(program, fn) : heights'[q] # NoHeight => T[q] = heights'[q]
  PROVE  Complete'
<1>1. verdict = "none" /\ "none" \notin Errors
  BY DEF Inv, TypeOK, Visiting, Errors, OperandErrors, FlowErrors
<1> QED BY <1>1 DEF Complete, Forced

LEMMA CompleteFollow ==
  ASSUME Inv, Complete, Sane, NEW target \in Nat, FollowEdge(target),
         target \in Successors(Instr, Pc)
  PROVE  Complete'
<1> DEFINE e == EdgeError(heights, target, Next_height)
<1>1. /\ Visiting /\ \A T : Forced(T)
      /\ heights \in [Pcs(program, fn) -> Nat \cup {NoHeight}]
  BY DEF Sane, Visiting, Complete, Inv, TypeOK
<1>2. ASSUME NEW T, IsTyping(program, fn, T)
      PROVE  /\ e = "none"
             /\ \A q \in Pcs(program, fn) :
                  EdgeHeights(heights, target, Next_height)[q] # NoHeight
                    => T[q] = EdgeHeights(heights, target, Next_height)[q]
  <2>1. target \in Pcs(program, fn) /\ T[target] = Next_height
    BY <1>1, <1>2, ForcedVisit
  <2>2. \A q \in Pcs(program, fn) : heights[q] # NoHeight => T[q] = heights[q]
    BY <1>1, <1>2 DEF Forced
  <2> QED BY <1>1, <1>2, <2>1, <2>2, EdgeErrorLemma
<1>3. CASE e # "none"
  <2>1. NoTypingOf(program, fn)
    BY <1>2, <1>3 DEF NoTypingOf
  <2>2. Conclude(e)
    BY <1>3 DEF FollowEdge
  <2> QED BY <1>1, <2>1, <2>2, StopLemma
<1>4. CASE e = "none"
  <2>1. /\ heights' = EdgeHeights(heights, target, Next_height)
        /\ UNCHANGED <<program, stage, fn, verdict>>
    BY <1>4 DEF FollowEdge
  <2> QED BY <1>1, <1>2, <2>1, GoOnLemma
<1> QED BY <1>3, <1>4

LEMMA CompleteBranch ==
  ASSUME Inv, Complete, VisitBranch
  PROVE  Complete'
<1> DEFINE t  == Instr.n
           h  == Next_height
           e1 == EdgeError(heights, t, h)
           H1 == EdgeHeights(heights, t, h)
           e2 == EdgeError(H1, Pc + 1, h)
           H2 == EdgeHeights(H1, Pc + 1, h)
<1>1. /\ Visiting /\ \A T : Forced(T)
      /\ heights \in [Pcs(program, fn) -> Nat \cup {NoHeight}]
  BY DEF VisitBranch, Sane, Visiting, Complete, Inv, TypeOK
<1>2. t \in Nat /\ Pc + 1 \in Nat /\ Successors(Instr, Pc) = {t, Pc + 1} /\ h \in Nat
  BY <1>1, VisitLemma DEF VisitBranch, Sane, IsOp, Successors
<1>3. H1 \in [Pcs(program, fn) -> Nat \cup {NoHeight}]
  BY <1>1, <1>2 DEF EdgeHeights
<1>4. ASSUME NEW T, IsTyping(program, fn, T)
      PROVE  /\ e1 = "none" /\ e2 = "none"
             /\ \A q \in Pcs(program, fn) : H2[q] # NoHeight => T[q] = H2[q]
  <2>1. /\ t \in Pcs(program, fn) /\ T[t] = h
        /\ Pc + 1 \in Pcs(program, fn) /\ T[Pc + 1] = h
    BY <1>1, <1>2, <1>4, ForcedVisit
  <2>2. \A q \in Pcs(program, fn) : heights[q] # NoHeight => T[q] = heights[q]
    BY <1>1, <1>4 DEF Forced
  <2>3. e1 = "none" /\ \A q \in Pcs(program, fn) : H1[q] # NoHeight => T[q] = H1[q]
    BY <1>1, <1>2, <1>4, <2>1, <2>2, EdgeErrorLemma
  <2> HIDE DEF H1
  <2>4. e2 = "none" /\ \A q \in Pcs(program, fn) : H2[q] # NoHeight => T[q] = H2[q]
    BY <1>1, <1>2, <1>3, <1>4, <2>1, <2>3, EdgeErrorLemma
  <2> QED BY <2>3, <2>4
<1>5. CASE e1 # "none" \/ e2 # "none"
  <2>1. NoTypingOf(program, fn)
    BY <1>4, <1>5 DEF NoTypingOf
  <2>2. \E e \in {e1, e2} : Conclude(e)
    BY <1>5 DEF VisitBranch
  <2> QED BY <1>1, <2>1, <2>2, StopLemma
<1>6. CASE e1 = "none" /\ e2 = "none"
  <2>1. heights' = H2 /\ UNCHANGED <<program, stage, fn, verdict>>
    BY <1>6 DEF VisitBranch
  <2> HIDE DEF H2
  <2> QED BY <1>1, <1>4, <2>1, GoOnLemma
<1> QED BY <1>5, <1>6

LEMMA CompleteNext == Inv /\ Complete /\ [Next]_vars => Complete'
<1> SUFFICES ASSUME Inv, Complete, [Next]_vars PROVE Complete'
  OBVIOUS
<1>0. "none" \notin Errors /\ "ok" \notin Errors
  BY DEF Errors, OperandErrors, FlowErrors
<1>1. CASE CheckEntry
  <2>1. CASE program.main >= Len(program.functions)
    <3>1. program.main \in Nat /\ Len(program.functions) \in Nat
      BY ProgramsAssumption DEF Inv, TypeOK, IsProgram
    <3>2. stage' = "done" /\ program' = program
      BY <1>1, <2>1 DEF CheckEntry, Conclude
    <3> QED BY <2>1, <3>1, <3>2 DEF Complete
  <2>2. CASE ~ (program.main >= Len(program.functions))
    BY <1>0, <1>1, <2>2 DEF CheckEntry, Complete, Inv, TypeOK
  <2> QED BY <2>1, <2>2
<1>2. CASE Accept
  BY <1>0, <1>2 DEF Accept, Conclude, Complete
<1>3. CASE SkipEmptyChunk
  BY <1>0, <1>3 DEF SkipEmptyChunk, Complete, Inv, TypeOK
<1>4. CASE StartChunk
  <2>1. ASSUME NEW T, IsTyping(program, fn, T), NEW q \in Pcs(program, fn),
               heights'[q] # NoHeight
        PROVE  T[q] = heights'[q]
    <3>1. heights'[q] = 0 /\ q = 0
      BY <1>4, <2>1 DEF StartChunk
    <3> QED BY <2>1, <3>1 DEF IsTyping
  <2>2. verdict' = "none" /\ UNCHANGED <<program, fn>>
    BY <1>4 DEF StartChunk, Inv, TypeOK
  <2> QED BY <1>0, <2>1, <2>2 DEF Complete, Forced
<1>5. CASE FinishChunk
  BY <1>0, <1>5 DEF FinishChunk, Complete, Inv, TypeOK
<1>6. CASE VisitUnderflow
  <2>1. Visiting /\ Conclude("StackUnderflow") /\ Height < Needed(Instr) /\ \A T : Forced(T)
    BY <1>6 DEF VisitUnderflow, Visiting, Complete
  <2>2. Height \in Nat /\ Needed(Instr) \in Nat
    BY <2>1, VisitLemma, EffectLemma
  <2>3. NoTypingOf(program, fn)
    BY <2>1, <2>2, ForcedVisit DEF NoTypingOf
  <2> QED BY <2>1, <2>3, StopLemma
<1>7. CASE VisitBadOperand
  <2>1. /\ Visiting /\ Conclude(OperandError(program, fn, Instr))
        /\ OperandError(program, fn, Instr) # "none" /\ \A T : Forced(T)
    BY <1>7 DEF VisitBadOperand, Visiting, Complete
  <2>2. NoTypingOf(program, fn)
    BY <2>1, ForcedVisit DEF NoTypingOf
  <2> QED BY <2>1, <2>2, StopLemma
<1>8. CASE VisitReturn
  <2>1. Visiting /\ UNCHANGED <<program, stage, fn, verdict, heights>> /\ \A T : Forced(T)
    BY <1>8 DEF VisitReturn, Sane, Visiting, Complete
  <2> QED BY <2>1, GoOnLemma DEF Forced
<1>9. CASE VisitJump
  BY <1>9, VisitLemma, CompleteFollow DEF VisitJump, Sane, IsOp, Successors
<1>10. CASE VisitBranch
  BY <1>10, CompleteBranch
<1>11. CASE VisitPlain
  <2>1. Sane /\ Visiting /\ Pc + 1 \in Nat /\ Successors(Instr, Pc) = {Pc + 1}
    BY <1>11, VisitLemma DEF VisitPlain, Sane, Successors, JumpOps
  <2>2. CASE Pc + 1 >= CodeLen(program, fn)
    <3>1. Pc + 1 \notin Pcs(program, fn)
      BY <2>1, <2>2, VisitLemma, CodeLemma DEF Pcs
    <3>2. NoTypingOf(program, fn)
      BY <2>1, <3>1, ForcedVisit DEF NoTypingOf, Complete, Visiting
    <3> QED BY <1>11, <2>1, <2>2, <3>2, StopLemma DEF VisitPlain
  <2>3. CASE ~ (Pc + 1 >= CodeLen(program, fn))
    BY <1>11, <2>1, <2>3, CompleteFollow DEF VisitPlain
  <2> QED BY <2>2, <2>3
<1>12. CASE Done \/ UNCHANGED vars
  BY <1>12 DEF Done, vars, Complete, Forced
<1> QED
  BY <1>1, <1>2, <1>3, <1>4, <1>5, <1>6, <1>7, <1>8, <1>9, <1>10, <1>11, <1>12 DEF Next

\* A function verify rejects has no typing, of any height: the verifier is
\* exactly the decision procedure for typability.
THEOREM VerifierIsComplete ==
  ASSUME NEW MaxHeight
  PROVE  Spec => []CompleteUpTo(MaxHeight)
<1>1. Init => Complete
  BY DEF Init, Unverified, Complete, Errors, OperandErrors, FlowErrors
<1>2. Inv /\ Complete /\ [Next]_vars => Complete'
  BY CompleteNext
<1>3. Complete => CompleteUpTo(MaxHeight)
  BY DEF Complete, CompleteUpTo, NoTypingOf, Errors
<1>4. Spec => []Complete
  BY <1>1, <1>2, InvHolds, PTL DEF Spec
<1> QED BY <1>3, <1>4, PTL

----------------------------------------------------------------------------
(* The verifier implements Verdict.                                        *)

\* A step keeps the program, and ends the walk with an error only at the entry
\* point, when there is none, or in a function that has code.
LEMMA StepLemma ==
  ASSUME Inv, [Next]_vars
  PROVE  /\ program' = program
         /\ stage = "done" => verdict' = verdict
         /\ stage # "done" /\ verdict' \in Errors
              => \/ program.main >= Len(program.functions)
                 \/ fn' = fn /\ fn \in FnIds(program) /\ Pcs(program, fn) # {}
<1>0. "none" \notin Errors /\ "ok" \notin Errors
  BY DEF Errors, OperandErrors, FlowErrors
<1>1. stage # "done" => verdict = "none"
  BY DEF Inv, TypeOK
<1>2. CASE CheckEntry
  BY <1>0, <1>1, <1>2 DEF CheckEntry, Conclude
<1>3. CASE Accept \/ SkipEmptyChunk \/ StartChunk \/ FinishChunk
  BY <1>0, <1>1, <1>3 DEF Accept, SkipEmptyChunk, StartChunk, FinishChunk, Conclude
<1>4. ASSUME Visiting
      PROVE  stage = "visit" /\ fn \in FnIds(program) /\ Pcs(program, fn) # {}
  BY <1>4 DEF Visiting, Inv, TypeOK
<1>5. ASSUME Visiting, NEW t, FollowEdge(t)
      PROVE  program' = program /\ fn' = fn
  BY <1>5 DEF FollowEdge, Conclude
<1>6. CASE VisitUnderflow \/ VisitBadOperand \/ VisitReturn
  BY <1>4, <1>6 DEF VisitUnderflow, VisitBadOperand, VisitReturn, Sane, Conclude
<1>7. CASE VisitJump \/ VisitPlain
  <2>1. Visiting /\ program' = program /\ fn' = fn
    BY <1>5, <1>7 DEF VisitJump, VisitPlain, Sane, Conclude
  <2> QED BY <1>4, <2>1
<1>8. CASE VisitBranch
  <2>1. Visiting /\ program' = program /\ fn' = fn
    BY <1>8 DEF VisitBranch, Sane, Visiting, Conclude
  <2> QED BY <1>4, <2>1
<1>9. CASE Done \/ UNCHANGED vars
  BY <1>0, <1>1, <1>9 DEF Done, vars
<1> QED BY <1>2, <1>3, <1>6, <1>7, <1>8, <1>9 DEF Next

\* A program that a table types is typable.
LEMMA TypableLemma ==
  ASSUME Heights = Nat, NEW p \in Programs, NEW T, p.main \in FnIds(p), TypedBy(p, T)
  PROVE  p \in Typable
<1>1. ASSUME NEW f \in FnIds(p), Pcs(p, f) # {}
      PROVE  HasTyping(p, f)
  <2>1. IsTyping(p, f, T[f])
    BY <1>1 DEF TypedBy
  <2>2. T[f] \in [Pcs(p, f) -> Heights \cup {NoHeight}]
    BY <2>1 DEF IsTyping
  <2> QED BY <2>1, <2>2 DEF HasTyping
<1> QED BY <1>1 DEF Typable

\* The verifier decides typability: for every set of programs, every step of the
\* walk is a stutter of Verdict or its one, right, decision.
THEOREM VerifierDecides ==
  ASSUME Heights = Nat
  PROVE  Spec => DecidesTypability
<1> DEFINE State == Inv /\ Sound /\ Complete
<1>0. "none" \notin Errors /\ "ok" \notin Errors /\ "rejected" \notin {"none", "ok"}
  BY DEF Errors, OperandErrors, FlowErrors
<1>1. Init => V!Init
  BY DEF Init, Unverified, V!Init, Answer
<1>2. State /\ State' /\ [Next]_vars => [V!Decide]_<<program, Answer>>
  <2> SUFFICES ASSUME State, State', [Next]_vars,
                      ~ UNCHANGED <<program, Answer>>
               PROVE  V!Decide
    OBVIOUS
  <2>1. program' = program /\ Answer' # Answer
    BY StepLemma
  <2>2. stage # "done" /\ verdict = "none" /\ Answer = "none"
    BY <2>1, StepLemma DEF Inv, TypeOK, Answer
  <2>3. verdict' # "none" /\ verdict' \in Verdicts
    BY <2>1, <2>2 DEF Answer, Inv, TypeOK
  <2>4. CASE verdict' = "ok"
    <3>1. /\ program' \in Programs /\ program'.main \in FnIds(program')
          /\ TypedBy(program', typings') /\ Answer' = "ok"
      BY <2>4 DEF Inv, TypeOK, Sound, Answer
    <3>2. program \in Typable
      BY <2>1, <3>1, TypableLemma
    <3> QED BY <2>1, <2>2, <3>1, <3>2 DEF V!Decide
  <2>5. CASE verdict' # "ok"
    <3>1. verdict' \in Errors /\ Answer' = "rejected"
      BY <2>3, <2>5 DEF Verdicts, Errors, Answer
    <3>2. program \notin Typable
      <4>1. CASE program.main >= Len(program.functions)
        <5>1. Len(program.functions) \in Nat /\ program.main \in Nat
          BY ProgramsAssumption DEF Inv, TypeOK, IsProgram
        <5> QED BY <4>1, <5>1 DEF Typable, FnIds
      <4>2. CASE ~ (program.main >= Len(program.functions))
        <5>1. Len(program.functions) \in Nat /\ program.main \in Nat
          BY ProgramsAssumption DEF Inv, TypeOK, IsProgram
        <5>2. fn' = fn /\ fn \in FnIds(program) /\ Pcs(program, fn) # {}
          BY <2>2, <3>1, <4>2, StepLemma
        <5>3. NoTypingOf(program, fn)
          BY <2>1, <3>1, <4>2, <5>1, <5>2 DEF Complete
        <5>4. ~ HasTyping(program, fn)
          BY <5>3 DEF NoTypingOf, HasTyping
        <5> QED BY <5>2, <5>4 DEF Typable
      <4> QED BY <4>1, <4>2
    <3> QED BY <2>1, <2>2, <3>1, <3>2 DEF V!Decide
  <2> QED BY <2>4, <2>5
<1>3. Spec => []State
  <2>1. Init => Complete
    BY DEF Init, Unverified, Complete, Errors, OperandErrors, FlowErrors
  <2>2. Inv /\ Complete /\ [Next]_vars => Complete'
    BY CompleteNext
  <2>3. Spec => []Complete
    BY <2>1, <2>2, InvHolds, PTL DEF Spec
  <2> QED BY <2>3, InvHolds, VerifierIsSound, PTL
<1> QED BY <1>1, <1>2, <1>3, PTL DEF Spec, DecidesTypability, V!Safety
=============================================================================
