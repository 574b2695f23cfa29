------------------------------- MODULE Peephole -------------------------------
(***************************************************************************)
(* The peephole optimizer (backend/peephole.rs), on one chunk: jumps to    *)
(* jumps are threaded, a push that is popped at once is removed with its   *)
(* pop, and the targets of the jumps that stay are moved to the new        *)
(* offsets.  Offsets count from 0.                                         *)
(***************************************************************************)
EXTENDS Bytecode, FiniteSets

Offsets(code)  == 0 .. Len(code) - 1
InstrAt(code, pc) == code[pc + 1]
IsJump(o)      == o.op \in JumpOps

\* An unconditional jump, and not one to itself.
Leads(code, t) ==
  t \in Offsets(code) /\ InstrAt(code, t).op = "Jump" /\ InstrAt(code, t).n # t

\* Where a jump to `target' ends up: through such jumps, at most as many as there
\* are instructions.
Resolve(code, target) ==
  LET after[k \in 0 .. Len(code)] ==
        IF k = 0 THEN target
        ELSE LET t == after[k - 1]
             IN IF Leads(code, t) THEN InstrAt(code, t).n ELSE t
  IN after[Len(code)]

ThreadJumps(code) ==
  [i \in DOMAIN code |->
     IF IsJump(code[i]) THEN [code[i] EXCEPT !.n = Resolve(code, @)] ELSE code[i]]

JumpTargets(code) == {code[i].n : i \in {j \in DOMAIN code : IsJump(code[j])}}

PurePushes == PushOps \cup {"LoadLocal"}

\* Faulty variant: only the push must not be a target.
FusesTarget(code, pc) ==
  /\ {pc, pc + 1} \subseteq Offsets(code)
  /\ InstrAt(code, pc).op \in PurePushes /\ InstrAt(code, pc + 1).op = "Pop"
  /\ pc \notin JumpTargets(code)

\* A push and its pop at pc and pc + 1, neither of them the target of a jump.
\* Two such pairs never overlap.
Fuses(code, pc) ==
  /\ {pc, pc + 1} \subseteq Offsets(code)
  /\ InstrAt(code, pc).op \in PurePushes /\ InstrAt(code, pc + 1).op = "Pop"
  /\ {pc, pc + 1} \cap JumpTargets(code) = {}

Removed(code) ==
  UNION {{pc, pc + 1} : pc \in {q \in Offsets(code) : Fuses(code, q)}}

Kept(code) == Offsets(code) \ Removed(code)

\* The offset at which the instruction at pc, or the next one that is kept, ends up.
NewIndex(code, pc) == Cardinality({q \in Kept(code) : q < pc})

Remap(code, o) == IF IsJump(o) THEN [o EXCEPT !.n = NewIndex(code, @)] ELSE o

EliminatePushPop(code) ==
  [i \in 1 .. Cardinality(Kept(code)) |->
     Remap(code, InstrAt(code, CHOOSE pc \in Kept(code) : NewIndex(code, pc) = i - 1))]

\* One turn of the loop on a chunk; the loop ends when a turn removed nothing.
PeepholeTurn(c) == [c EXCEPT !.code = EliminatePushPop(ThreadJumps(@))]
Removes(chunk)  == Removed(ThreadJumps(chunk.code)) # {}
=============================================================================
