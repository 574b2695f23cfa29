---------------------------- MODULE PeepholeProofs ----------------------------
(***************************************************************************)
(* Proofs about the peephole optimizer: a turn over a chunk keeps it well  *)
(* formed and keeps it typed, so what verified before still verifies.      *)
(*                                                                         *)
(* Threading keeps the typing as it is.  Elimination moves it: the new     *)
(* height at an offset is the old height at the instruction that ended up  *)
(* there.  What carries it is that a removed pair leaves the height as it  *)
(* was, and that no jump lands inside one.                                 *)
(***************************************************************************)
EXTENDS Peephole, RuntimeProofs, FiniteSetTheorems

IsCode(code) == code \in Seq(Ops) /\ \A i \in DOMAIN code : IsOp(code[i])

LEMMA CodeShapeLemma ==
  ASSUME NEW code, IsCode(code)
  PROVE  /\ Len(code) \in Nat /\ DOMAIN code = 1 .. Len(code)
         /\ Offsets(code) = 0 .. Len(code) - 1
         /\ \A pc \in Offsets(code) : pc \in Nat /\ pc + 1 \in DOMAIN code
         /\ \A pc \in Offsets(code) : InstrAt(code, pc) = code[pc + 1] /\ IsOp(InstrAt(code, pc))
<1>1. Len(code) \in Nat /\ DOMAIN code = 1 .. Len(code)
  BY DEF IsCode
<1>2. \A pc \in Offsets(code) : pc \in Nat /\ pc + 1 \in DOMAIN code
  BY <1>1 DEF Offsets
<1> QED BY <1>1, <1>2 DEF Offsets, InstrAt, IsCode

----------------------------------------------------------------------------
(* Jump threading.                                                         *)

\* A set of offsets that no unconditional jump of the code leaves holds what
\* its members are resolved to.
LEMMA ResolveLemma ==
  ASSUME NEW code, IsCode(code), NEW S, NEW target \in S,
         \A t \in S : Leads(code, t) => InstrAt(code, t).n \in S
  PROVE  Resolve(code, target) \in S
<1>1. PICK n, D, Stop, m, out, step, comb :
        /\ n = Len(code) /\ D = 0 .. n /\ Stop = {0}
        /\ m    = [k \in D |-> k]
        /\ out  = [k \in D |-> target]
        /\ step = [k \in D |-> IF k = 0 THEN 0 ELSE k - 1]
        /\ comb = [q \in D \X S |-> IF Leads(code, q[2]) THEN InstrAt(code, q[2]).n ELSE q[2]]
  OBVIOUS
<1>2. n \in Nat
  BY <1>1, CodeShapeLemma
<1>3. Descends(D, Stop, m, step)
  BY <1>1, <1>2 DEF Descends
<1>4. out \in [D -> S] /\ comb \in [D \X S -> S]
  BY <1>1
<1>5. PICK f \in [D -> S] : Follows(D, Stop, out, step, comb, f)
  BY <1>3, <1>4, RecursionExists
<1>6. ASSUME NEW k \in D
      PROVE  f[k] = IF k = 0 THEN target
                    ELSE IF Leads(code, f[k - 1]) THEN InstrAt(code, f[k - 1]).n ELSE f[k - 1]
  <2>1. k # 0 => k - 1 \in D /\ f[k - 1] \in S
    BY <1>1, <1>2
  <2> QED BY <1>1, <1>5, <2>1 DEF Follows
<1>7. f = [k \in 0 .. n |->
             IF k = 0 THEN target
             ELSE IF Leads(code, f[k - 1]) THEN InstrAt(code, f[k - 1]).n ELSE f[k - 1]]
  <2>1. f = [k \in D |-> f[k]]
    OBVIOUS
  <2> QED BY <1>1, <1>6, <2>1
<1>8. PICK after :
        /\ after = [k \in 0 .. n |->
                      IF k = 0 THEN target
                      ELSE IF Leads(code, after[k - 1]) THEN InstrAt(code, after[k - 1]).n
                           ELSE after[k - 1]]
        /\ Resolve(code, target) = after[n]
  BY <1>1, <1>7 DEF Resolve
<1>9. Carries(D, Stop, step, after, S)
  BY <1>1, <1>2, <1>8 DEF Carries
<1>10. \A k \in D : after[k] \in S
  BY <1>3, <1>9, RecursionType
<1> QED BY <1>1, <1>2, <1>8, <1>10

\* Only the targets of jumps change, and they stay offsets.
LEMMA ThreadShapeLemma ==
  ASSUME NEW code, IsCode(code)
  PROVE  /\ IsCode(ThreadJumps(code)) /\ Len(ThreadJumps(code)) = Len(code)
         /\ \A i \in DOMAIN code :
              ThreadJumps(code)[i] = IF IsJump(code[i])
                                     THEN [code[i] EXCEPT !.n = Resolve(code, code[i].n)]
                                     ELSE code[i]
<1>1. Len(code) \in Nat /\ DOMAIN code = 1 .. Len(code)
  BY CodeShapeLemma
<1>2. PICK new : new = ThreadJumps(code)
  OBVIOUS
<1>3. /\ DOMAIN new = 1 .. Len(code)
      /\ \A i \in DOMAIN code :
           new[i] = IF IsJump(code[i]) THEN [code[i] EXCEPT !.n = Resolve(code, code[i].n)]
                    ELSE code[i]
  BY <1>1, <1>2 DEF ThreadJumps
<1>4. \A t \in Nat : Leads(code, t) => InstrAt(code, t).n \in Nat
  BY CodeShapeLemma DEF Leads, IsOp
<1>5. ASSUME NEW i \in DOMAIN code PROVE new[i] \in Ops /\ IsOp(new[i])
  <2>1. IsOp(code[i])
    BY DEF IsCode
  <2>2. CASE IsJump(code[i])
    <3>1. code[i].n \in Nat
      BY <2>1, <2>2 DEF IsOp, IsJump, JumpOps
    <3>2. Resolve(code, code[i].n) \in Nat
      BY <1>4, <3>1, ResolveLemma
    <3>3. PICK o, r : o = code[i] /\ r = Resolve(code, code[i].n)
      OBVIOUS
    <3>4. new[i] = [o EXCEPT !.n = r] /\ r \in Nat /\ IsOp(o)
      BY <1>3, <2>1, <2>2, <3>2, <3>3
    <3> QED BY <3>4 DEF IsOp, Ops
  <2>3. CASE ~ IsJump(code[i])
    BY <1>3, <2>1, <2>3 DEF IsOp
  <2> QED BY <2>2, <2>3
<1>6. new = [i \in 1 .. Len(code) |-> new[i]]
  BY <1>1, <1>2 DEF ThreadJumps
<1>7. new \in Seq(Ops) /\ Len(new) = Len(code)
  BY <1>1, <1>5, <1>6
<1> QED BY <1>1, <1>2, <1>3, <1>5, <1>7 DEF IsCode

----------------------------------------------------------------------------
(* Programs with another code for one of their functions.                  *)

Recoded(p, f, code) == [p EXCEPT !.functions[f + 1] = [@ EXCEPT !.code = code]]

LEMMA RecodedLemma ==
  ASSUME NEW p, IsProgram(p), NEW f \in FnIds(p), NEW code, IsCode(code)
  PROVE  LET q == Recoded(p, f, code)
         IN /\ IsProgram(q) /\ FnIds(q) = FnIds(p) /\ q.main = p.main
            /\ Fn(q, f) = [Fn(p, f) EXCEPT !.code = code] /\ Fn(q, f).code = code
            /\ \A g \in FnIds(p) \ {f} : Fn(q, g) = Fn(p, g)
            /\ \A g \in FnIds(p) : /\ Fn(q, g).n_params = Fn(p, g).n_params
                                   /\ Fn(q, g).n_locals = Fn(p, g).n_locals
                                   /\ Fn(q, g).consts = Fn(p, g).consts
<1>1. PICK q, c, d, fns :
        /\ q = Recoded(p, f, code) /\ c = Fn(p, f) /\ d = [c EXCEPT !.code = code]
        /\ fns = [p.functions EXCEPT ![f + 1] = d]
  OBVIOUS
<1>2. /\ Len(p.functions) \in Nat /\ DOMAIN p.functions = 1 .. Len(p.functions)
      /\ p \in [functions : Seq(Chunks), main : Nat] /\ p.functions \in Seq(Chunks)
      /\ \A i \in DOMAIN p.functions : IsChunk(p.functions[i])
  BY DEF IsProgram
<1>3. f \in Nat /\ f + 1 \in DOMAIN p.functions
  BY <1>2 DEF FnIds
<1>4. IsChunk(c)
  BY <1>1, <1>2, <1>3 DEF Fn
<1>5. /\ IsChunk(d) /\ d.code = code /\ d.n_params = c.n_params
      /\ d.n_locals = c.n_locals /\ d.consts = c.consts
  BY <1>1, <1>4 DEF IsChunk, Chunks, IsCode
<1>6. q = [p EXCEPT !.functions = fns]
  BY <1>1, <1>2, <1>3 DEF Recoded, Fn
<1>7. fns \in Seq(Chunks) /\ Len(fns) = Len(p.functions)
  BY <1>1, <1>2, <1>3, <1>5 DEF IsChunk
<1>8. /\ DOMAIN fns = DOMAIN p.functions /\ fns[f + 1] = d
      /\ \A i \in DOMAIN p.functions : i # f + 1 => fns[i] = p.functions[i]
  BY <1>1, <1>3
<1>9. q.functions = fns /\ q.main = p.main /\ q \in [functions : Seq(Chunks), main : Nat]
  BY <1>2, <1>6, <1>7
<1>10. IsProgram(q) /\ FnIds(q) = FnIds(p)
  BY <1>2, <1>3, <1>5, <1>7, <1>8, <1>9 DEF IsProgram, FnIds
<1>11. Fn(q, f) = d
  BY <1>8, <1>9 DEF Fn
<1>12. ASSUME NEW g \in FnIds(p) \ {f} PROVE Fn(q, g) = Fn(p, g)
  <2>1. g + 1 \in DOMAIN p.functions /\ g + 1 # f + 1
    BY <1>2, <1>3 DEF FnIds
  <2> QED BY <1>8, <1>9, <2>1 DEF Fn
<1> QED BY <1>1, <1>5, <1>9, <1>10, <1>11, <1>12

\* What the verifier rejects of an operand lies outside the code.
LEMMA SameOperandsLemma ==
  ASSUME NEW p, IsProgram(p), NEW f \in FnIds(p), NEW code, IsCode(code),
         NEW q, q = Recoded(p, f, code), NEW g \in FnIds(p), NEW o
  PROVE  OperandError(q, g, o) = OperandError(p, g, o)
<1>1. /\ FnIds(q) = FnIds(p)
      /\ \A h \in FnIds(p) : /\ Fn(q, h).n_params = Fn(p, h).n_params
                             /\ Fn(q, h).n_locals = Fn(p, h).n_locals
                             /\ Fn(q, h).consts = Fn(p, h).consts
  BY RecodedLemma
<1> QED BY <1>1 DEF OperandError

\* The other functions keep their typings.
LEMMA OthersLemma ==
  ASSUME NEW p, IsProgram(p), NEW f \in FnIds(p), NEW code, IsCode(code),
         NEW q, q = Recoded(p, f, code), NEW g \in FnIds(p) \ {f}, NEW H, IsTyping(p, g, H)
  PROVE  Pcs(q, g) = Pcs(p, g) /\ IsTyping(q, g, H)
<1>1. Fn(q, g) = Fn(p, g)
  BY RecodedLemma
<1>2. Pcs(q, g) = Pcs(p, g) /\ \A pc : OpAt(q, g, pc) = OpAt(p, g, pc)
  BY <1>1 DEF Pcs, CodeLen, OpAt
<1>3. \A o : OperandError(q, g, o) = OperandError(p, g, o)
  BY SameOperandsLemma
<1> QED BY <1>2, <1>3 DEF IsTyping, LocallyTyped

LEMMA CodeOfLemma ==
  ASSUME NEW p, IsProgram(p), NEW f \in FnIds(p), NEW code, code = Fn(p, f).code
  PROVE  /\ IsCode(code) /\ Pcs(p, f) = Offsets(code)
         /\ \A pc : OpAt(p, f, pc) = InstrAt(code, pc)
<1>1. f + 1 \in DOMAIN p.functions
  BY DEF FnIds, IsProgram
<1>2. IsChunk(Fn(p, f))
  BY <1>1 DEF IsProgram, Fn
<1> QED BY <1>2 DEF IsChunk, Chunks, IsCode, Pcs, CodeLen, Offsets, OpAt, InstrAt

\* The height an instruction leaves is one.
LEMMA LeavesLemma ==
  ASSUME NEW o, IsOp(o), NEW h \in Nat, Needed(o) <= h
  PROVE  Needed(o) \in Nat /\ Delta(o) \in Int /\ h + Delta(o) \in Nat
<1>1. Needed(o) \in Nat
  BY DEF Needed, IsOp, Ops
<1>2. CASE o.op \in SinkOps
  <2>1. Needed(o) = 1 /\ Delta(o) = -1
    BY <1>2 DEF Needed, Delta, SinkOps, BinaryOps, IntArith, FltArith, IntOrder, FltOrder, EqOps
  <2> QED BY <2>1
<1>3. CASE o.op = "Jump"
  BY <1>1, <1>3 DEF Delta, SinkOps
<1>4. CASE o.op \notin SinkOps /\ o.op # "Jump"
  BY <1>1, <1>4 DEF Delta
<1> QED BY <1>2, <1>3, <1>4

\* A threaded jump arrives at the height it had arrived at before.
LEMMA ThreadLemma ==
  ASSUME NEW p, IsProgram(p), NEW f \in FnIds(p), NEW H, IsTyping(p, f, H),
         NEW q, q = Recoded(p, f, ThreadJumps(Fn(p, f).code))
  PROVE  IsTyping(q, f, H)
<1>1. PICK code, new : code = Fn(p, f).code /\ new = ThreadJumps(code)
  OBVIOUS
<1>2. /\ IsCode(code) /\ Pcs(p, f) = Offsets(code)
      /\ \A pc : OpAt(p, f, pc) = InstrAt(code, pc)
  BY <1>1, CodeOfLemma
<1>3. /\ IsCode(new) /\ Len(new) = Len(code)
      /\ \A i \in DOMAIN code :
           new[i] = IF IsJump(code[i]) THEN [code[i] EXCEPT !.n = Resolve(code, code[i].n)]
                    ELSE code[i]
  BY <1>1, <1>2, ThreadShapeLemma
<1>4. /\ IsProgram(q) /\ FnIds(q) = FnIds(p) /\ Fn(q, f).code = new
  BY <1>1, <1>3, RecodedLemma
<1>5. /\ Pcs(q, f) = Pcs(p, f) /\ \A pc : OpAt(q, f, pc) = InstrAt(new, pc)
  BY <1>2, <1>3, <1>4 DEF Pcs, CodeLen, Offsets, OpAt, InstrAt
<1>6. ASSUME NEW pc \in Pcs(p, f), H[pc] # NoHeight PROVE LocallyTyped(q, f, H, pc)
  <2>1. PICK o, r, h : o = InstrAt(code, pc) /\ r = InstrAt(new, pc) /\ h = H[pc] + Delta(o)
    OBVIOUS
  <2>2. /\ IsOp(o) /\ pc \in Nat /\ pc + 1 \in DOMAIN code /\ o = code[pc + 1]
        /\ r = new[pc + 1]
    BY <1>2, <2>1, CodeShapeLemma DEF InstrAt
  <2>3. /\ Needed(o) <= H[pc] /\ OperandError(p, f, o) = "none"
        /\ \A s \in Successors(o, pc) : s \in Pcs(p, f) /\ H[s] = h
    BY <1>2, <1>6, <2>1 DEF IsTyping, LocallyTyped
  <2>4. H[pc] \in Nat /\ h \in Nat
    <3>1. H[pc] \in Nat
      BY <1>6 DEF IsTyping
    <3> QED BY <2>1, <2>2, <2>3, <3>1, LeavesLemma
  <2>5. CASE IsJump(o)
    <3>1. PICK t : t = Resolve(code, o.n)
      OBVIOUS
    <3>2. r = [o EXCEPT !.n = t]
      BY <1>3, <2>2, <2>5, <3>1
    <3>3. r.op = o.op /\ r.n = t /\ r.argc = o.argc
      BY <2>2, <3>2 DEF IsOp, Ops
    <3>4. o.n \in Successors(o, pc)
      BY <2>5 DEF IsJump, JumpOps, Successors
    <3>5. PICK S : S = {u \in Pcs(p, f) : H[u] = h}
      OBVIOUS
    <3>6. ASSUME NEW u \in S, Leads(code, u) PROVE InstrAt(code, u).n \in S
      <4>1. u \in Pcs(p, f) /\ H[u] = h /\ H[u] # NoHeight /\ InstrAt(code, u).op = "Jump"
        BY <2>4, <3>5, <3>6 DEF Leads, NoHeight
      <4>2. LocallyTyped(p, f, H, u)
        BY <4>1 DEF IsTyping
      <4>3. InstrAt(code, u).n \in Pcs(p, f) /\ H[InstrAt(code, u).n] = H[u] + 0
        BY <1>2, <4>1, <4>2 DEF LocallyTyped, Successors, Delta, SinkOps
      <4> QED BY <2>4, <3>5, <4>1, <4>3
    <3>7. t \in S
      <4>1. o.n \in S
        BY <2>3, <3>4, <3>5
      <4> QED BY <1>2, <3>1, <3>6, <4>1, ResolveLemma
    <3>8. Needed(r) = Needed(o) /\ Delta(r) = Delta(o)
      BY <2>5, <3>3 DEF Needed, Delta, IsJump, JumpOps, CallOps
    <3>9. OperandError(q, f, r) = "none"
      BY <2>5, <3>3 DEF OperandError, IsJump, JumpOps
    <3>10. ASSUME NEW s \in Successors(r, pc) PROVE s \in Pcs(p, f) /\ H[s] = h
      <4>1. s = t \/ s \in Successors(o, pc)
        BY <2>5, <3>3 DEF Successors, IsJump, JumpOps
      <4> QED BY <2>3, <3>5, <3>7, <4>1
    <3> QED BY <1>5, <2>1, <2>3, <3>8, <3>9, <3>10 DEF LocallyTyped
  <2>6. CASE ~ IsJump(o)
    <3>1. r = o
      BY <1>3, <2>2, <2>6
    <3>2. OperandError(q, f, r) = "none"
      BY <1>1, <1>3, <2>3, <3>1, SameOperandsLemma
    <3> QED BY <1>5, <2>1, <2>3, <3>1, <3>2 DEF LocallyTyped
  <2> QED BY <2>5, <2>6
<1> QED BY <1>5, <1>6 DEF IsTyping

----------------------------------------------------------------------------
(* Elimination: the offsets that stay, counted.                            *)

LEMMA KeptLemma ==
  ASSUME NEW code, IsCode(code)
  PROVE  /\ Kept(code) \subseteq Offsets(code)
         /\ \A pc \in Offsets(code) :
              pc \in Kept(code) <=> ~ Fuses(code, pc) /\ ~ Fuses(code, pc - 1)
<1>1. Offsets(code) \subseteq Nat
  BY CodeShapeLemma
<1>2. \A q : Fuses(code, q) => q \in Offsets(code)
  BY DEF Fuses
<1>3. ASSUME NEW pc \in Offsets(code)
      PROVE  pc \in Removed(code) <=> Fuses(code, pc) \/ Fuses(code, pc - 1)
  <2>1. ASSUME pc \in Removed(code) PROVE Fuses(code, pc) \/ Fuses(code, pc - 1)
    <3>1. PICK q \in Offsets(code) : Fuses(code, q) /\ pc \in {q, q + 1}
      BY <2>1 DEF Removed
    <3>2. q \in Nat
      BY <1>1
    <3>3. pc = q \/ pc - 1 = q
      BY <3>1, <3>2
    <3> QED BY <3>1, <3>3
  <2>2. ASSUME Fuses(code, pc) \/ Fuses(code, pc - 1) PROVE pc \in Removed(code)
    <3>1. PICK q : Fuses(code, q) /\ (q = pc \/ q = pc - 1)
      BY <2>2
    <3>2. q \in Offsets(code) /\ pc \in Nat
      BY <1>1, <1>2, <3>1
    <3>3. pc \in {q, q + 1}
      BY <3>1, <3>2
    <3> QED BY <3>1, <3>2, <3>3 DEF Removed
  <2> QED BY <2>1, <2>2
<1> QED BY <1>3 DEF Kept

LEMMA KeptNatLemma ==
  ASSUME NEW code, IsCode(code)
  PROVE  Kept(code) \subseteq Nat /\ \A k \in Kept(code) : k < Len(code)
<1>1. ASSUME NEW k \in Kept(code) PROVE k \in Nat /\ k < Len(code)
  <2>1. k \in Offsets(code)
    BY <1>1, KeptLemma
  <2>2. k \in 0 .. Len(code) - 1 /\ Len(code) \in Nat
    BY <2>1, CodeShapeLemma
  <2> QED BY <2>2
<1> QED BY <1>1

LEMMA NewIndexLemma ==
  ASSUME NEW code, IsCode(code)
  PROVE  /\ IsFiniteSet(Kept(code)) /\ Cardinality(Kept(code)) \in Nat
         /\ NewIndex(code, 0) = 0
         /\ \A pc \in Nat : /\ NewIndex(code, pc) \in Nat
                            /\ NewIndex(code, pc) \in 0 .. Cardinality(Kept(code))
         /\ \A pc \in Nat : pc >= Len(code) => NewIndex(code, pc) = Cardinality(Kept(code))
         /\ \A pc \in Nat : NewIndex(code, pc + 1)
                              = IF pc \in Kept(code) THEN NewIndex(code, pc) + 1
                                ELSE NewIndex(code, pc)
<1>1. Len(code) \in Nat /\ Kept(code) \subseteq 0 .. Len(code) - 1
  BY CodeShapeLemma, KeptLemma
<1>2. IsFiniteSet(Kept(code)) /\ Cardinality(Kept(code)) \in Nat
  <2>1. IsFiniteSet(0 .. Len(code) - 1)
    BY <1>1, FS_Interval
  <2> QED BY <1>1, <2>1, FS_Subset, FS_CardinalityType
<1>3. PICK K : K = Kept(code)
  OBVIOUS
<1>4. \A pc : NewIndex(code, pc) = Cardinality({q \in K : q < pc})
  BY <1>3 DEF NewIndex
<1>5. ASSUME NEW pc \in Nat
      PROVE  /\ IsFiniteSet({q \in K : q < pc}) /\ NewIndex(code, pc) \in Nat
             /\ NewIndex(code, pc) \in 0 .. Cardinality(K)
  <2>1. {q \in K : q < pc} \in SUBSET K
    OBVIOUS
  <2>2. /\ IsFiniteSet({q \in K : q < pc})
        /\ Cardinality({q \in K : q < pc}) <= Cardinality(K)
    BY <1>2, <1>3, <2>1, FS_Subset
  <2>3. Cardinality({q \in K : q < pc}) \in Nat
    BY <2>2, FS_CardinalityType
  <2> QED BY <1>2, <1>3, <1>4, <2>2, <2>3
<1>6. NewIndex(code, 0) = 0
  <2>1. {q \in K : q < 0} = {}
    BY <1>1, <1>3
  <2> QED BY <1>4, <2>1, FS_EmptySet
<1>7. ASSUME NEW pc \in Nat, pc >= Len(code) PROVE NewIndex(code, pc) = Cardinality(K)
  <2>1. {q \in K : q < pc} = K
    BY <1>1, <1>3, <1>7
  <2> QED BY <1>4, <2>1
<1>8. ASSUME NEW pc \in Nat
      PROVE  NewIndex(code, pc + 1) = IF pc \in K THEN NewIndex(code, pc) + 1
                                      ELSE NewIndex(code, pc)
  <2>1. PICK S : S = {q \in K : q < pc}
    OBVIOUS
  <2>2. IsFiniteSet(S) /\ pc \notin S /\ NewIndex(code, pc) = Cardinality(S)
    BY <1>4, <1>5, <2>1
  <2>3. CASE pc \in K
    <3>1. {q \in K : q < pc + 1} = S \cup {pc}
      BY <1>1, <1>3, <2>1, <2>3
    <3>2. Cardinality(S \cup {pc}) = Cardinality(S) + 1
      BY <2>2, FS_AddElement
    <3> QED BY <1>4, <2>2, <2>3, <3>1, <3>2
  <2>4. CASE pc \notin K
    <3>1. {q \in K : q < pc + 1} = S
      BY <1>1, <1>3, <2>1, <2>4
    <3> QED BY <1>4, <2>2, <2>4, <3>1
  <2> QED BY <2>3, <2>4
<1> QED BY <1>2, <1>3, <1>5, <1>6, <1>7, <1>8

\* The new offsets grow with the old ones.
LEMMA MonotoneLemma ==
  ASSUME NEW code, IsCode(code), NEW a \in Nat, NEW b \in Nat
  PROVE  /\ a <= b => NewIndex(code, a) <= NewIndex(code, b)
         /\ a < b /\ a \in Kept(code) => NewIndex(code, a) < NewIndex(code, b)
<1>1. ASSUME NEW c \in Nat, c <= b PROVE NewIndex(code, c) <= NewIndex(code, b)
  <2>1. PICK S, T : S = {q \in Kept(code) : q < c} /\ T = {q \in Kept(code) : q < b}
    OBVIOUS
  <2>2. Kept(code) \subseteq Nat
    BY KeptNatLemma
  <2>3. \A q \in Kept(code) : q \in Nat /\ (q < c => q < b)
    BY <1>1, <2>2
  <2>4. S \in SUBSET T /\ T \in SUBSET Kept(code)
    BY <2>1, <2>3
  <2>5. IsFiniteSet(T)
    BY <2>4, NewIndexLemma, FS_Subset
  <2>6. Cardinality(S) <= Cardinality(T)
    BY <2>4, <2>5, FS_Subset
  <2> QED BY <2>1, <2>6 DEF NewIndex
<1>2. ASSUME a < b, a \in Kept(code) PROVE NewIndex(code, a) < NewIndex(code, b)
  <2>1. NewIndex(code, a + 1) <= NewIndex(code, b)
    BY <1>1, <1>2
  <2>2. NewIndex(code, a + 1) = NewIndex(code, a) + 1
    BY <1>2, NewIndexLemma
  <2>3. NewIndex(code, a) \in Nat /\ NewIndex(code, b) \in Nat
    BY NewIndexLemma
  <2> QED BY <2>1, <2>2, <2>3
<1> QED BY <1>1, <1>2

\* The instruction that ends up at offset j.
Old(code, j) == CHOOSE pc \in Kept(code) : NewIndex(code, pc) = j

LEMMA OldLemma ==
  ASSUME NEW code, IsCode(code)
  PROVE  /\ \A j \in 0 .. Cardinality(Kept(code)) - 1 :
              /\ Old(code, j) \in Kept(code) /\ Old(code, j) \in Offsets(code)
              /\ NewIndex(code, Old(code, j)) = j
         /\ \A k \in Kept(code) : /\ NewIndex(code, k) \in 0 .. Cardinality(Kept(code)) - 1
                                  /\ Old(code, NewIndex(code, k)) = k
<1>1. PICK m : m = Cardinality(Kept(code))
  OBVIOUS
<1>2. m \in Nat /\ Len(code) \in Nat /\ Kept(code) \subseteq Nat
  BY <1>1, CodeShapeLemma, KeptNatLemma, NewIndexLemma
<1>3. ASSUME NEW j \in 0 .. m - 1
      PROVE  \E k \in Kept(code) : NewIndex(code, k) = j
  <2>1. PICK T : T = {pc \in Nat : NewIndex(code, pc) > j}
    OBVIOUS
  <2>2. Len(code) \in T
    <3>1. NewIndex(code, Len(code)) = m
      BY <1>1, <1>2, NewIndexLemma
    <3>2. m > j
      BY <1>2, <1>3
    <3> QED BY <1>2, <2>1, <3>1, <3>2
  <2>3. PICK pc \in T : \A k \in T : pc <= k
    BY <2>1, <2>2, LeastLemma
  <2>4. pc \in Nat /\ NewIndex(code, pc) > j /\ pc # 0
    BY <1>2, <2>1, <2>3, NewIndexLemma
  <2>5. PICK k \in Nat : pc = k + 1
    <3>1. pc - 1 \in Nat /\ pc = (pc - 1) + 1
      BY <2>4
    <3> QED BY <3>1
  <2>6. k \notin T
    BY <2>3, <2>5
  <2>7. NewIndex(code, k) <= j /\ NewIndex(code, k) \in Nat
    <3>1. ~ (NewIndex(code, k) > j)
      BY <2>1, <2>6
    <3>2. NewIndex(code, k) \in Nat
      BY NewIndexLemma
    <3> QED BY <1>2, <3>1, <3>2
  <2>8. k \in Kept(code) /\ NewIndex(code, k) = j
    <3>1. NewIndex(code, k + 1) = IF k \in Kept(code) THEN NewIndex(code, k) + 1
                                  ELSE NewIndex(code, k)
      BY NewIndexLemma
    <3>2. NewIndex(code, k + 1) > j
      BY <2>4, <2>5
    <3> QED BY <1>2, <2>7, <3>1, <3>2
  <2> QED BY <2>8
<1>4. ASSUME NEW k \in Kept(code) PROVE NewIndex(code, k) \in 0 .. m - 1
  <2>1. k \in Nat /\ k < Len(code)
    BY <1>4, KeptNatLemma
  <2>2. NewIndex(code, k) < NewIndex(code, Len(code))
    BY <1>2, <2>1, MonotoneLemma
  <2>3. NewIndex(code, Len(code)) = m /\ NewIndex(code, k) \in Nat
    BY <1>1, <1>2, <2>1, NewIndexLemma
  <2> QED BY <1>2, <2>2, <2>3
<1>5. ASSUME NEW j \in 0 .. m - 1
      PROVE  Old(code, j) \in Kept(code) /\ NewIndex(code, Old(code, j)) = j
  BY <1>3 DEF Old
<1>6. ASSUME NEW k \in Kept(code) PROVE Old(code, NewIndex(code, k)) = k
  <2>1. PICK l : l = Old(code, NewIndex(code, k))
    OBVIOUS
  <2>2. l \in Kept(code) /\ NewIndex(code, l) = NewIndex(code, k)
    BY <1>4, <1>5, <2>1
  <2>3. k \in Nat /\ l \in Nat /\ NewIndex(code, k) \in Nat
    BY <1>2, <1>4, <2>2
  <2>4. ~ (k < l) /\ ~ (l < k)
    BY <2>2, <2>3, MonotoneLemma
  <2> QED BY <2>1, <2>3, <2>4
<1> QED BY <1>1, <1>4, <1>5, <1>6, KeptLemma

LEMMA EliminateShapeLemma ==
  ASSUME NEW code, IsCode(code)
  PROVE  /\ IsCode(EliminatePushPop(code))
         /\ Offsets(EliminatePushPop(code)) = 0 .. Cardinality(Kept(code)) - 1
         /\ \A j \in 0 .. Cardinality(Kept(code)) - 1 :
              InstrAt(EliminatePushPop(code), j) = Remap(code, InstrAt(code, Old(code, j)))
<1>1. PICK new, m : new = EliminatePushPop(code) /\ m = Cardinality(Kept(code))
  OBVIOUS
<1>2. m \in Nat
  BY <1>1, NewIndexLemma
<1>3. new = [i \in 1 .. m |-> Remap(code, InstrAt(code, Old(code, i - 1)))]
  BY <1>1 DEF EliminatePushPop, Old
<1>4. ASSUME NEW i \in 1 .. m PROVE new[i] \in Ops /\ IsOp(new[i])
  <2>1. PICK o : o = InstrAt(code, Old(code, i - 1))
    OBVIOUS
  <2>2. IsOp(o)
    <3>1. i - 1 \in 0 .. m - 1
      BY <1>2
    <3>2. Old(code, i - 1) \in Offsets(code)
      BY <1>1, <3>1, OldLemma
    <3> QED BY <2>1, <3>2, CodeShapeLemma
  <2>3. new[i] = Remap(code, o)
    BY <1>3, <2>1
  <2>4. CASE IsJump(o)
    <3>1. o.n \in Nat
      BY <2>2, <2>4 DEF IsOp, IsJump, JumpOps
    <3>2. PICK t : t = NewIndex(code, o.n)
      OBVIOUS
    <3>3. t \in Nat
      BY <3>1, <3>2, NewIndexLemma
    <3>4. new[i] = [o EXCEPT !.n = t]
      BY <2>3, <2>4, <3>2 DEF Remap
    <3> QED BY <2>2, <3>3, <3>4 DEF IsOp, Ops
  <2>5. CASE ~ IsJump(o)
    BY <2>2, <2>3, <2>5 DEF Remap, IsOp
  <2> QED BY <2>4, <2>5
<1>5. new = [i \in 1 .. m |-> new[i]]
  BY <1>3
<1>6. new \in Seq(Ops) /\ Len(new) = m /\ DOMAIN new = 1 .. m
  BY <1>2, <1>4, <1>5
<1>7. ASSUME NEW j \in 0 .. m - 1
      PROVE  InstrAt(new, j) = Remap(code, InstrAt(code, Old(code, j)))
  <2>1. j + 1 \in 1 .. m /\ (j + 1) - 1 = j
    BY <1>2
  <2> QED BY <1>3, <2>1 DEF InstrAt
<1> QED BY <1>1, <1>4, <1>6, <1>7 DEF IsCode, Offsets

\* A reached offset that is not the pop of a removed pair ends up at an
\* instruction of the same height: removed pairs give back what they take.
LEMMA SkipLemma ==
  ASSUME NEW p, IsProgram(p), NEW f \in FnIds(p), NEW H, IsTyping(p, f, H),
         NEW code, code = Fn(p, f).code,
         NEW pc0 \in Offsets(code), H[pc0] # NoHeight, ~ Fuses(code, pc0 - 1)
  PROVE  \E k \in Kept(code) : NewIndex(code, k) = NewIndex(code, pc0) /\ H[k] = H[pc0]
<1>1. /\ IsCode(code) /\ Pcs(p, f) = Offsets(code)
      /\ \A pc : OpAt(p, f, pc) = InstrAt(code, pc)
  BY CodeOfLemma
<1>2. /\ Len(code) \in Nat /\ Offsets(code) = 0 .. Len(code) - 1
      /\ \A pc \in Offsets(code) : pc \in Nat
  BY <1>1, CodeShapeLemma
<1>3. PICK D, m, Good :
        /\ D = {pc \in Offsets(code) : H[pc] # NoHeight /\ ~ Fuses(code, pc - 1)}
        /\ m = [pc \in D |-> Len(code) - pc]
        /\ Good = {pc \in D : \E k \in Kept(code) : /\ NewIndex(code, k) = NewIndex(code, pc)
                                                    /\ H[k] = H[pc]}
  OBVIOUS
<1>4. m \in [D -> Nat]
  <2>1. \A pc \in D : Len(code) - pc \in Nat
    BY <1>2, <1>3
  <2> QED BY <1>3, <2>1
<1>5. ASSUME NEW pc \in D, \A y \in D : m[y] < m[pc] => y \in Good PROVE pc \in Good
  <2>1. pc \in Offsets(code) /\ pc \in Nat /\ H[pc] # NoHeight /\ ~ Fuses(code, pc - 1)
    BY <1>2, <1>3
  <2>2. CASE ~ Fuses(code, pc)
    <3>1. pc \in Kept(code)
      BY <1>1, <2>1, <2>2, KeptLemma
    <3> QED BY <1>3, <3>1
  <2>3. CASE Fuses(code, pc)
    <3>1. PICK o, r : o = InstrAt(code, pc) /\ r = InstrAt(code, pc + 1)
      OBVIOUS
    <3>2. pc + 1 \in Offsets(code) /\ o.op \in PurePushes /\ r.op = "Pop"
      BY <2>3, <3>1 DEF Fuses
    <3>3. Delta(o) = 1 /\ Successors(o, pc) = {pc + 1}
      BY <3>2 DEF PurePushes, PushOps, Delta, Needed, Successors, SinkOps, BinaryOps, UnaryOps,
                  CallOps, IntArith, FltArith, IntOrder, FltOrder, EqOps
    <3>4. Delta(r) = -1 /\ Successors(r, pc + 1) = {(pc + 1) + 1}
      BY <3>2 DEF Delta, Successors, SinkOps
    <3>5. H[pc] \in Nat
      BY <1>1, <2>1 DEF IsTyping
    <3>6. H[pc + 1] = H[pc] + 1
      BY <1>1, <2>1, <3>1, <3>3 DEF IsTyping, LocallyTyped
    <3>7. H[pc + 1] # NoHeight
      BY <3>5, <3>6 DEF NoHeight
    <3>8. (pc + 1) + 1 \in Offsets(code) /\ H[(pc + 1) + 1] = H[pc + 1] + (-1)
      BY <1>1, <3>1, <3>2, <3>4, <3>7 DEF IsTyping, LocallyTyped
    <3>9. PICK s : s = (pc + 1) + 1
      OBVIOUS
    <3>10. /\ s \in Offsets(code) /\ s \in Nat /\ H[s] = H[pc] /\ s - 1 = pc + 1
           /\ pc + 1 \in Nat /\ (pc + 1) - 1 = pc
      BY <2>1, <3>5, <3>6, <3>8, <3>9
    <3>11. ~ Fuses(code, s - 1)
      BY <3>1, <3>2, <3>10 DEF Fuses, PurePushes, PushOps
    <3>12. s \in D /\ m[s] < m[pc]
      <4>1. s \in D
        BY <1>3, <2>1, <3>10, <3>11
      <4>2. m[s] = Len(code) - s /\ m[pc] = Len(code) - pc
        BY <1>3, <4>1
      <4>3. pc < s
        BY <2>1, <3>10
      <4> QED BY <1>2, <2>1, <3>10, <4>1, <4>2, <4>3
    <3>13. PICK k \in Kept(code) : NewIndex(code, k) = NewIndex(code, s) /\ H[k] = H[s]
      BY <1>3, <1>5, <3>12
    <3>14. pc \notin Kept(code) /\ pc + 1 \notin Kept(code)
      BY <1>1, <2>1, <2>3, <3>2, <3>10, KeptLemma
    <3>15. NewIndex(code, s) = NewIndex(code, pc)
      BY <1>1, <2>1, <3>9, <3>10, <3>14, NewIndexLemma
    <3> QED BY <1>3, <3>10, <3>13, <3>15
  <2> QED BY <2>2, <2>3
<1>6. D \subseteq Good
  BY <1>4, <1>5, MeasureLemma
<1> QED BY <1>3, <1>6

\* Elimination keeps a function typed: its instructions keep their heights.
LEMMA EliminateLemma ==
  ASSUME NEW p, IsProgram(p), NEW f \in FnIds(p), NEW H, IsTyping(p, f, H), Pcs(p, f) # {},
         NEW q, q = Recoded(p, f, EliminatePushPop(Fn(p, f).code))
  PROVE  \E G : IsTyping(q, f, G)
<1>1. PICK code, new, m : /\ code = Fn(p, f).code /\ new = EliminatePushPop(code)
                          /\ m = Cardinality(Kept(code))
  OBVIOUS
<1>2. /\ IsCode(code) /\ Pcs(p, f) = Offsets(code)
      /\ \A pc : OpAt(p, f, pc) = InstrAt(code, pc)
  BY <1>1, CodeOfLemma
<1>3. /\ IsCode(new) /\ Offsets(new) = 0 .. m - 1 /\ m \in Nat
      /\ \A j \in 0 .. m - 1 : InstrAt(new, j) = Remap(code, InstrAt(code, Old(code, j)))
  BY <1>1, <1>2, EliminateShapeLemma, NewIndexLemma
<1>4. FnIds(q) = FnIds(p) /\ Fn(q, f).code = new
  BY <1>1, <1>3, RecodedLemma
<1>5. Pcs(q, f) = 0 .. m - 1 /\ \A pc : OpAt(q, f, pc) = InstrAt(new, pc)
  BY <1>3, <1>4 DEF Pcs, CodeLen, Offsets, OpAt, InstrAt
<1>6. PICK G : G = [j \in 0 .. m - 1 |-> H[Old(code, j)]]
  OBVIOUS
<1>7. \A j \in 0 .. m - 1 : /\ Old(code, j) \in Kept(code) /\ Old(code, j) \in Offsets(code)
                            /\ NewIndex(code, Old(code, j)) = j
  BY <1>1, <1>2, OldLemma
\* What is reached and does not follow a removed push is reached at its height.
<1>8. ASSUME NEW pc \in Offsets(code), H[pc] # NoHeight, ~ Fuses(code, pc - 1)
      PROVE  NewIndex(code, pc) \in 0 .. m - 1 /\ G[NewIndex(code, pc)] = H[pc]
  <2>1. PICK k \in Kept(code) : NewIndex(code, k) = NewIndex(code, pc) /\ H[k] = H[pc]
    BY <1>1, <1>8, SkipLemma
  <2>2. NewIndex(code, k) \in 0 .. m - 1 /\ Old(code, NewIndex(code, k)) = k
    BY <1>1, <1>2, <2>1, OldLemma
  <2> QED BY <1>6, <2>1, <2>2
<1>9. G \in [Pcs(q, f) -> Nat \cup {NoHeight}]
  <2>1. \A pc \in Offsets(code) : H[pc] \in Nat \cup {NoHeight}
    BY <1>2 DEF IsTyping
  <2> QED BY <1>5, <1>6, <1>7, <2>1
<1>10. G[0] = 0
  <2>1. 0 \in Offsets(code)
    BY <1>2 DEF Offsets, IsCode
  <2>2. ~ Fuses(code, 0 - 1)
    BY DEF Fuses, Offsets
  <2>3. H[0] = 0 /\ H[0] # NoHeight
    BY DEF IsTyping, NoHeight
  <2>4. NewIndex(code, 0) = 0
    BY <1>2, NewIndexLemma
  <2> QED BY <1>8, <2>1, <2>2, <2>3, <2>4
<1>11. ASSUME NEW j \in Pcs(q, f), G[j] # NoHeight PROVE LocallyTyped(q, f, G, j)
  <2>1. PICK k, o, r : k = Old(code, j) /\ o = InstrAt(code, k) /\ r = InstrAt(new, j)
    OBVIOUS
  <2>2. /\ j \in 0 .. m - 1 /\ k \in Kept(code) /\ k \in Offsets(code) /\ k \in Nat
        /\ NewIndex(code, k) = j /\ r = Remap(code, o) /\ G[j] = H[k]
    <3>1. j \in 0 .. m - 1
      BY <1>5
    <3>2. k \in Kept(code) /\ k \in Offsets(code) /\ NewIndex(code, k) = j
      BY <1>7, <2>1, <3>1
    <3> QED BY <1>2, <1>3, <1>6, <2>1, <3>1, <3>2, KeptNatLemma
  <2>3. IsOp(o) /\ k + 1 \in DOMAIN code /\ o = code[k + 1]
    BY <1>2, <2>1, <2>2, CodeShapeLemma DEF InstrAt
  <2>4. /\ H[k] # NoHeight /\ Needed(o) <= H[k] /\ OperandError(p, f, o) = "none"
        /\ \A s \in Successors(o, k) : s \in Offsets(code) /\ H[s] = H[k] + Delta(o)
    <3>1. H[k] # NoHeight
      BY <1>11, <2>2
    <3>2. LocallyTyped(p, f, H, k)
      BY <1>2, <2>2, <3>1 DEF IsTyping
    <3> QED BY <1>2, <2>1, <3>1, <3>2 DEF LocallyTyped
  <2>5. H[k] \in Nat /\ H[k] + Delta(o) \in Nat /\ H[k] + Delta(o) # NoHeight
    <3>1. H[k] \in Nat
      BY <1>2, <2>2, <2>4 DEF IsTyping
    <3>2. H[k] + Delta(o) \in Nat
      BY <2>3, <2>4, <3>1, LeavesLemma
    <3> QED BY <3>1, <3>2 DEF NoHeight
  <2>6. /\ Needed(r) = Needed(o) /\ Delta(r) = Delta(o) /\ OperandError(p, f, r) = "none"
    <3>1. CASE IsJump(o)
      <4>1. r.op = o.op
        BY <2>2, <2>3, <3>1 DEF Remap, IsOp, Ops
      <4> QED BY <2>4, <3>1, <4>1 DEF Needed, Delta, OperandError, IsJump, JumpOps, CallOps,
                 SinkOps, BinaryOps, UnaryOps, IntArith, FltArith, IntOrder, FltOrder, EqOps
    <3>2. CASE ~ IsJump(o)
      BY <2>2, <2>4, <3>2 DEF Remap
    <3> QED BY <3>1, <3>2
  <2>7. OperandError(q, f, r) = "none"
    BY <1>1, <1>3, <2>6, SameOperandsLemma
  <2>8. ASSUME NEW s \in Successors(r, j)
        PROVE  \E t \in Successors(o, k) : s = NewIndex(code, t) /\ ~ Fuses(code, t - 1)
    <3>1. j + 1 = NewIndex(code, k + 1) /\ ~ Fuses(code, (k + 1) - 1)
      <4>1. ~ Fuses(code, k) /\ (k + 1) - 1 = k
        BY <1>2, <2>2, KeptLemma
      <4> QED BY <1>2, <2>2, <4>1, NewIndexLemma
    <3>2. CASE IsJump(o)
      <4>1. r.op = o.op /\ r.n = NewIndex(code, o.n)
        BY <2>2, <2>3, <3>2 DEF Remap, IsOp, Ops
      <4>2. ~ Fuses(code, o.n - 1)
        <5>1. o.n \in JumpTargets(code)
          BY <2>3, <3>2 DEF JumpTargets
        <5>2. o.n \in Nat
          BY <2>3, <3>2 DEF IsOp, IsJump, JumpOps
        <5>3. (o.n - 1) + 1 = o.n
          BY <5>2
        <5> QED BY <5>1, <5>3 DEF Fuses
      <4>3. CASE o.op = "Jump"
        BY <2>8, <4>1, <4>2, <4>3 DEF Successors
      <4>4. CASE o.op = "JumpIfFalse"
        <5>1. Successors(r, j) = {NewIndex(code, o.n), j + 1} /\ Successors(o, k) = {o.n, k + 1}
          BY <4>1, <4>4 DEF Successors
        <5> QED BY <2>8, <3>1, <4>2, <5>1
      <4> QED BY <3>2, <4>3, <4>4 DEF IsJump, JumpOps
    <3>3. CASE ~ IsJump(o)
      <4>1. r = o
        BY <2>2, <3>3 DEF Remap
      <4>2. CASE o.op = "Return"
        BY <2>8, <4>1, <4>2 DEF Successors
      <4>3. CASE o.op # "Return"
        <5>1. Successors(r, j) = {j + 1} /\ Successors(o, k) = {k + 1}
          BY <3>3, <4>1, <4>3 DEF Successors, IsJump, JumpOps
        <5> QED BY <2>8, <3>1, <5>1
      <4> QED BY <4>2, <4>3
    <3> QED BY <3>2, <3>3
  <2>9. ASSUME NEW s \in Successors(r, j)
        PROVE  s \in Pcs(q, f) /\ G[s] = G[j] + Delta(r)
    <3>1. PICK t \in Successors(o, k) : s = NewIndex(code, t) /\ ~ Fuses(code, t - 1)
      BY <2>8
    <3>2. t \in Offsets(code) /\ H[t] = H[k] + Delta(o) /\ H[t] # NoHeight
      BY <2>4, <2>5
    <3> QED BY <1>5, <1>8, <2>2, <2>6, <3>1, <3>2
  <2> QED BY <1>5, <2>1, <2>2, <2>4, <2>6, <2>7, <2>9 DEF LocallyTyped
<1> QED BY <1>9, <1>10, <1>11 DEF IsTyping

----------------------------------------------------------------------------
(* The turn.                                                               *)

\* An instruction as it was, or a jump with another target.
Retargeted(o, r) == r = o \/ (IsJump(o) /\ \E t \in Nat : r = [o EXCEPT !.n = t])

\* Its instructions are instructions of the code it starts from, but for the
\* targets of jumps.
LEMMA TurnInstructionsLemma ==
  ASSUME NEW code, IsCode(code), NEW new, new = EliminatePushPop(ThreadJumps(code)),
         NEW j \in Offsets(new)
  PROVE  \E s \in Offsets(code) : Retargeted(InstrAt(code, s), InstrAt(new, j))
<1>1. PICK mid : mid = ThreadJumps(code)
  OBVIOUS
<1>2. IsCode(mid) /\ Len(mid) = Len(code) /\ IsCode(new)
  BY <1>1, ThreadShapeLemma, EliminateShapeLemma
<1>3. PICK k, o, c, r : /\ k = Old(mid, j) /\ o = InstrAt(mid, k)
                        /\ c = code[k + 1] /\ r = InstrAt(new, j)
  OBVIOUS
<1>4. j \in 0 .. Cardinality(Kept(mid)) - 1 /\ r = Remap(mid, o)
  BY <1>1, <1>2, <1>3, EliminateShapeLemma
<1>5. k \in Offsets(mid) /\ k \in Offsets(code)
  BY <1>2, <1>3, <1>4, OldLemma DEF Offsets
<1>6. k + 1 \in DOMAIN code /\ k + 1 \in DOMAIN mid /\ IsOp(o) /\ IsOp(c) /\ IsOp(r)
  BY <1>2, <1>3, <1>5, CodeShapeLemma DEF IsCode
<1>7. o = IF IsJump(c) THEN [c EXCEPT !.n = Resolve(code, c.n)] ELSE c
  BY <1>1, <1>3, <1>6, ThreadShapeLemma DEF InstrAt
<1>8. CASE IsJump(c)
  <2>1. PICK s, t : s = Resolve(code, c.n) /\ t = NewIndex(mid, o.n)
    OBVIOUS
  <2>2. o = [c EXCEPT !.n = s] /\ c \in Ops /\ o.op = c.op
    BY <1>6, <1>7, <1>8, <2>1 DEF IsOp, Ops
  <2>3. r = [o EXCEPT !.n = t]
    BY <1>4, <1>8, <2>1, <2>2 DEF Remap, IsJump
  <2>4. r = [c EXCEPT !.n = t] /\ r.op = c.op /\ r.n = t
    BY <2>2, <2>3 DEF Ops
  <2>5. r.n \in Nat
    BY <1>6, <1>8, <2>4 DEF IsOp, IsJump, JumpOps
  <2>6. Retargeted(c, r)
    BY <1>8, <2>4, <2>5 DEF Retargeted
  <2> QED BY <1>3, <1>5, <2>6 DEF InstrAt
<1>9. CASE ~ IsJump(c)
  <2>1. r = c
    BY <1>4, <1>7, <1>9 DEF Remap
  <2> QED BY <1>3, <1>5, <2>1 DEF InstrAt, Retargeted
<1> QED BY <1>8, <1>9

\* Elimination leaves some of the code of a typed function.
LEMMA TurnLeavesCodeLemma ==
  ASSUME NEW p, IsProgram(p), NEW f \in FnIds(p), NEW H, IsTyping(p, f, H), Pcs(p, f) # {}
  PROVE  Offsets(EliminatePushPop(Fn(p, f).code)) # {}
<1>1. PICK code : code = Fn(p, f).code
  OBVIOUS
<1>2. IsCode(code) /\ Pcs(p, f) = Offsets(code)
  BY <1>1, CodeOfLemma
<1>3. 0 \in Offsets(code) /\ ~ Fuses(code, 0 - 1)
  BY <1>2 DEF Offsets, IsCode, Fuses
<1>4. H[0] # NoHeight
  BY DEF IsTyping, NoHeight
<1>5. PICK k \in Kept(code) : NewIndex(code, k) = NewIndex(code, 0)
  BY <1>1, <1>3, <1>4, SkipLemma
<1>6. NewIndex(code, k) \in 0 .. Cardinality(Kept(code)) - 1
  BY <1>2, <1>5, OldLemma
<1> QED BY <1>1, <1>2, <1>6, EliminateShapeLemma

\* A turn of peephole.rs over one function of a well-formed, typed program leaves
\* a well-formed, typed program, whatever else the function calls: the jumps it
\* threads and the ones it remaps still arrive at instructions, at the height
\* these expect.  With the verifier deciding exactly whether a program is typed
\* (VerifierIsComplete), what verified before the pass verifies after it.  No
\* function loses all of its code, and every instruction is one that was there,
\* but for the target of a jump.
THEOREM PeepholeKeepsTypings ==
  ASSUME NEW p, IsProgram(p), NEW T, TypedBy(p, T), NEW f \in FnIds(p),
         NEW q, q = [p EXCEPT !.functions[f + 1] = PeepholeTurn(@)]
  PROVE  /\ IsProgram(q) /\ \E U : TypedBy(q, U)
         /\ FnIds(q) = FnIds(p) /\ q.main = p.main
         /\ \A g \in FnIds(p) :
              /\ Pcs(p, g) # {} => Pcs(q, g) # {}
              /\ \A pc \in Pcs(q, g) :
                   \E s \in Pcs(p, g) : Retargeted(OpAt(p, g, s), OpAt(q, g, pc))
<1>1. PICK code, mid, new : /\ code = Fn(p, f).code /\ mid = ThreadJumps(code)
                            /\ new = EliminatePushPop(mid)
  OBVIOUS
<1>2. IsCode(code) /\ IsCode(mid) /\ IsCode(new) /\ Len(mid) = Len(code)
  BY <1>1, CodeOfLemma, ThreadShapeLemma, EliminateShapeLemma
<1>3. PICK r : r = Recoded(p, f, mid)
  OBVIOUS
<1>4. /\ IsProgram(r) /\ FnIds(r) = FnIds(p) /\ Fn(r, f).code = mid
      /\ \A g \in FnIds(p) \ {f} : Fn(r, g) = Fn(p, g)
  BY <1>2, <1>3, RecodedLemma
<1>5. q = Recoded(p, f, new)
  <2>1. PICK c : c = p.functions[f + 1]
    OBVIOUS
  <2>2. q = [p EXCEPT !.functions = [p.functions EXCEPT ![f + 1] = PeepholeTurn(c)]]
    BY <2>1
  <2>3. PeepholeTurn(c) = [c EXCEPT !.code = new]
    BY <1>1, <2>1 DEF PeepholeTurn, Fn
  <2> QED BY <2>1, <2>2, <2>3 DEF Recoded
<1>6. /\ IsProgram(q) /\ FnIds(q) = FnIds(p) /\ Fn(q, f).code = new /\ q.main = p.main
      /\ \A g \in FnIds(p) \ {f} : Fn(q, g) = Fn(p, g)
  <2>1. PICK v : v = Recoded(p, f, new)
    OBVIOUS
  <2>2. /\ IsProgram(v) /\ FnIds(v) = FnIds(p) /\ Fn(v, f).code = new /\ v.main = p.main
        /\ \A g \in FnIds(p) \ {f} : Fn(v, g) = Fn(p, g)
    BY <1>2, <2>1, RecodedLemma
  <2>3. v = q
    BY <1>5, <2>1
  <2> QED BY <2>2, <2>3
<1>7. q = Recoded(r, f, new)
  <2>1. PICK c, fns : c = p.functions[f + 1] /\ fns = p.functions
    OBVIOUS
  <2>2. f + 1 \in DOMAIN fns /\ IsChunk(c) /\ p \in [functions : Seq(Chunks), main : Nat]
    BY <2>1 DEF IsProgram, FnIds
  <2>3. PICK d, e : d = [c EXCEPT !.code = mid] /\ e = [c EXCEPT !.code = new]
    OBVIOUS
  <2>4. [d EXCEPT !.code = new] = e
    BY <2>2, <2>3 DEF IsChunk, Chunks
  <2>5. PICK fns2 : fns2 = [fns EXCEPT ![f + 1] = d]
    OBVIOUS
  <2>6. r = [p EXCEPT !.functions = fns2] /\ q = [p EXCEPT !.functions = [fns EXCEPT ![f + 1] = e]]
    BY <1>3, <1>5, <2>1, <2>3, <2>5 DEF Recoded
  <2>7. r.functions = fns2 /\ fns2[f + 1] = d
    BY <2>2, <2>5, <2>6
  <2>8. [fns2 EXCEPT ![f + 1] = e] = [fns EXCEPT ![f + 1] = e]
    BY <2>5
  <2>9. Recoded(r, f, new) = [r EXCEPT !.functions = [fns2 EXCEPT ![f + 1] = e]]
    BY <2>4, <2>7 DEF Recoded
  <2> QED BY <2>6, <2>8, <2>9
<1>8. ASSUME NEW g \in FnIds(p) \ {f}, Pcs(q, g) # {} PROVE \E G : IsTyping(q, g, G)
  <2>1. Pcs(q, g) = Pcs(p, g)
    BY <1>6 DEF Pcs, CodeLen
  <2>2. IsTyping(p, g, T[g])
    BY <1>8, <2>1 DEF TypedBy
  <2> QED BY <1>2, <1>5, <2>2, OthersLemma
<1>9. ASSUME Pcs(q, f) # {} PROVE \E G : IsTyping(q, f, G)
  <2>1. Pcs(p, f) = Offsets(code) /\ Pcs(r, f) = Offsets(code) /\ Pcs(q, f) = Offsets(new)
    BY <1>1, <1>2, <1>4, <1>6 DEF Pcs, CodeLen, Offsets
  <2>2. Offsets(code) # {}
    <3>1. Offsets(new) = 0 .. Cardinality(Kept(mid)) - 1
      BY <1>1, <1>2, EliminateShapeLemma
    <3>2. Offsets(mid) = Offsets(code)
      BY <1>2 DEF Offsets
    <3>3. Kept(mid) \subseteq Offsets(mid)
      BY <1>2, KeptLemma
    <3>4. ASSUME Kept(mid) = {} PROVE FALSE
      <4>1. Cardinality(Kept(mid)) = 0
        BY <3>4, FS_EmptySet
      <4>2. Offsets(new) = {}
        BY <3>1, <4>1
      <4> QED BY <1>9, <2>1, <4>2
    <3> QED BY <3>2, <3>3, <3>4
  <2>3. IsTyping(p, f, T[f])
    BY <2>1, <2>2 DEF TypedBy
  <2>4. IsTyping(r, f, T[f])
    BY <1>1, <1>3, <2>3, ThreadLemma
  <2> QED BY <1>1, <1>4, <1>7, <2>1, <2>2, <2>4, EliminateLemma
<1>10. PICK U : U = [g \in FnIds(p) |-> CHOOSE G : IsTyping(q, g, G)]
  OBVIOUS
<1>11. ASSUME NEW g \in FnIds(q), Pcs(q, g) # {} PROVE IsTyping(q, g, U[g])
  BY <1>6, <1>8, <1>9, <1>10, <1>11
<1>12. Pcs(p, f) = Offsets(code) /\ Pcs(q, f) = Offsets(new)
       /\ \A pc : OpAt(p, f, pc) = InstrAt(code, pc) /\ OpAt(q, f, pc) = InstrAt(new, pc)
  BY <1>1, <1>6 DEF Pcs, CodeLen, Offsets, OpAt, InstrAt
<1>13. ASSUME Pcs(p, f) # {} PROVE Pcs(q, f) # {}
  <2>1. IsTyping(p, f, T[f])
    BY <1>13 DEF TypedBy
  <2>2. IsTyping(r, f, T[f])
    BY <1>1, <1>3, <2>1, ThreadLemma
  <2>3. Pcs(r, f) # {}
    BY <1>2, <1>4, <1>12, <1>13 DEF Pcs, CodeLen, Offsets
  <2>4. Offsets(EliminatePushPop(Fn(r, f).code)) # {}
    BY <1>4, <2>2, <2>3, TurnLeavesCodeLemma
  <2> QED BY <1>1, <1>4, <1>12, <2>4
<1>14. ASSUME NEW pc \in Pcs(q, f)
       PROVE  \E s \in Pcs(p, f) : Retargeted(OpAt(p, f, s), OpAt(q, f, pc))
  <2>1. pc \in Offsets(new)
    BY <1>12, <1>14
  <2>2. PICK s \in Offsets(code) : Retargeted(InstrAt(code, s), InstrAt(new, pc))
    BY <1>1, <1>2, <2>1, TurnInstructionsLemma
  <2> QED BY <1>12, <2>2
<1>15. ASSUME NEW g \in FnIds(p) \ {f}
       PROVE  Pcs(q, g) = Pcs(p, g) /\ \A pc : OpAt(q, g, pc) = OpAt(p, g, pc)
  BY <1>6, <1>15 DEF Pcs, CodeLen, OpAt
<1>16. ASSUME NEW g \in FnIds(p), NEW pc \in Pcs(q, g)
       PROVE  \E s \in Pcs(p, g) : Retargeted(OpAt(p, g, s), OpAt(q, g, pc))
  <2>1. CASE g = f
    BY <1>14, <2>1
  <2>2. CASE g # f
    BY <1>15, <2>2 DEF Retargeted
  <2> QED BY <2>1, <2>2
<1> QED BY <1>6, <1>11, <1>13, <1>15, <1>16 DEF TypedBy
=============================================================================
