------------------------------ MODULE Verifier ------------------------------
(***************************************************************************)
(* The bytecode verifier (backend/verify.rs): `verify' walks the functions *)
(* in order, and for each one `verify_chunk' interprets the code abstractly*)
(* with a worklist, tracking only the height of the operand stack.         *)
(*                                                                         *)
(* One step is one iteration of a loop of the code: the check of the entry *)
(* point, the start of a function, one instruction taken off the worklist, *)
(* the end of a function.  What it promises is stated without a worklist:  *)
(* it accepts exactly the programs all of whose functions have a typing    *)
(* (Bytecode!IsTyping).                                                    *)
(***************************************************************************)
EXTENDS Bytecode

CONSTANT Programs    \* the programs that may be presented to the verifier

ASSUME ProgramsAssumption == \A p \in Programs : IsProgram(p)

VARIABLES
  program,   \* the program being verified
  stage,     \* where `verify' is: "entry", "chunk", "visit" or "done"
  fn,        \* the function under verification
  heights,   \* pc -> proven stack height on entry, NoHeight while unknown
  work,      \* the worklist, a stack of <<pc, height>>
  verdict,   \* "none", then "ok" or the kind of the VerifyError
  typings    \* history: the final heights of the functions that passed

vars == <<program, stage, fn, heights, work, verdict, typings>>

NoTyping == <<>>

\* Before verify is called on the program.
Unverified ==
  /\ stage = "entry" /\ fn = 0 /\ verdict = "none"
  /\ heights = NoTyping /\ work = <<>>
  /\ typings = [f \in FnIds(program) |-> NoTyping]

Init == program \in Programs /\ Unverified

\* Faulty variant: the error is recorded and the walk goes on.
ConcludeAndGoOn(v) == /\ stage' = stage /\ verdict' = v
                      /\ UNCHANGED <<program, fn, heights, work, typings>>

Conclude(v) == /\ stage' = "done" /\ verdict' = v
               /\ UNCHANGED <<program, fn, heights, work, typings>>

----------------------------------------------------------------------------
(* verify: the entry point, then every function.                           *)

CheckEntry ==
  /\ stage = "entry"
  /\ IF program.main >= Len(program.functions)
     THEN Conclude("BadCallTarget")
     ELSE /\ stage' = "chunk"
          /\ UNCHANGED <<program, fn, heights, work, verdict, typings>>

Accept ==
  /\ stage = "chunk" /\ fn = Len(program.functions)
  /\ Conclude("ok")

\* verify_chunk returns Ok at once for a function without code.
SkipEmptyChunk ==
  /\ stage = "chunk" /\ fn < Len(program.functions)
  /\ CodeLen(program, fn) = 0
  /\ fn' = fn + 1
  /\ UNCHANGED <<program, stage, heights, work, verdict, typings>>

StartChunk ==
  /\ stage = "chunk" /\ fn < Len(program.functions)
  /\ CodeLen(program, fn) > 0
  /\ heights' = [pc \in Pcs(program, fn) |-> IF pc = 0 THEN 0 ELSE NoHeight]
  /\ work' = << <<0, 0>> >>
  /\ stage' = "visit"
  /\ UNCHANGED <<program, fn, verdict, typings>>

FinishChunk ==
  /\ stage = "visit" /\ work = <<>>
  /\ typings' = [typings EXCEPT ![fn] = heights]
  /\ fn' = fn + 1
  /\ stage' = "chunk"
  /\ UNCHANGED <<program, heights, work, verdict>>

----------------------------------------------------------------------------
(* push_edge: range and merge checks of one successor edge.                *)

\* Faulty variant: merging paths are not compared.
EdgeErrorNoMerge(H, target, height) ==
  IF target >= CodeLen(program, fn) THEN "JumpOutOfRange" ELSE "none"

EdgeError(H, target, height) ==
  IF target >= CodeLen(program, fn) THEN "JumpOutOfRange"
  ELSE IF H[target] \notin {NoHeight, height} THEN "InconsistentStack"
  ELSE "none"

EdgeHeights(H, target, height) == [H EXCEPT ![target] = height]

\* Faulty variant: an instruction whose height is known is queued again.
EdgeWorkAgain(W, H, target, height) == Append(W, <<target, height>>)

EdgeWork(W, H, target, height) ==
  IF H[target] = NoHeight THEN Append(W, <<target, height>>) ELSE W

----------------------------------------------------------------------------
(* verify_chunk: one instruction off the worklist.                         *)

Last(s)  == s[Len(s)]
Front(s) == SubSeq(s, 1, Len(s) - 1)

Pc     == Last(work)[1]
Height == Last(work)[2]
Instr  == OpAt(program, fn, Pc)
Next_height == Height + Delta(Instr)

Visiting == stage = "visit" /\ work # <<>>

\* Faulty variant: an instruction that takes the whole stack is refused.
VisitTightUnderflow ==
  /\ Visiting /\ Height <= Needed(Instr) /\ Height > 0
  /\ Conclude("StackUnderflow")

VisitUnderflow ==
  /\ Visiting /\ Height < Needed(Instr)
  /\ Conclude("StackUnderflow")

VisitBadOperand ==
  /\ Visiting /\ Height >= Needed(Instr)
  /\ OperandError(program, fn, Instr) # "none"
  /\ Conclude(OperandError(program, fn, Instr))

Sane == /\ Visiting /\ Height >= Needed(Instr)
        /\ OperandError(program, fn, Instr) = "none"

VisitReturn ==
  /\ Sane /\ Instr.op = "Return"
  /\ work' = Front(work)
  /\ UNCHANGED <<program, stage, fn, heights, verdict, typings>>

\* One successor edge to `target'.
FollowEdge(target) ==
  LET e == EdgeError(heights, target, Next_height)
  IN IF e # "none" THEN Conclude(e)
     ELSE /\ heights' = EdgeHeights(heights, target, Next_height)
          /\ work' = EdgeWork(Front(work), heights, target, Next_height)
          /\ UNCHANGED <<program, stage, fn, verdict, typings>>

VisitJump == Sane /\ Instr.op = "Jump" /\ FollowEdge(Instr.n)

\* Faulty variant: the fall-through is forgotten.
VisitBranchTargetOnly == Sane /\ Instr.op = "JumpIfFalse" /\ FollowEdge(Instr.n)

\* The target first, then the fall-through, which sees the target's height.
VisitBranch ==
  /\ Sane /\ Instr.op = "JumpIfFalse"
  /\ LET e1 == EdgeError(heights, Instr.n, Next_height)
         H1 == EdgeHeights(heights, Instr.n, Next_height)
         W1 == EdgeWork(Front(work), heights, Instr.n, Next_height)
         e2 == EdgeError(H1, Pc + 1, Next_height)
     IN IF e1 # "none" THEN Conclude(e1)
        ELSE IF e2 # "none" THEN Conclude(e2)
        ELSE /\ heights' = EdgeHeights(H1, Pc + 1, Next_height)
             /\ work' = EdgeWork(W1, H1, Pc + 1, Next_height)
             /\ UNCHANGED <<program, stage, fn, verdict, typings>>

VisitPlain ==
  /\ Sane /\ Instr.op \notin JumpOps \cup {"Return"}
  /\ IF Pc + 1 >= CodeLen(program, fn)
     THEN Conclude("FellOffEnd")
     ELSE FollowEdge(Pc + 1)

Done == stage = "done" /\ UNCHANGED vars

Next ==
  \/ CheckEntry \/ Accept \/ SkipEmptyChunk \/ StartChunk \/ FinishChunk
  \/ VisitUnderflow \/ VisitBadOperand \/ VisitReturn
  \/ VisitJump \/ VisitBranch \/ VisitPlain
  \/ Done

\* `verify' is one sequential loop: it takes its next step while it has one.
Spec == Init /\ [][Next]_vars /\ WF_vars(Next)

----------------------------------------------------------------------------
(* Properties.                                                             *)

Stages == {"entry", "chunk", "visit", "done"}
OperandErrors == {"BadLocal", "BadConst", "BadCallTarget", "ArityMismatch", "BuiltinArity"}
FlowErrors == {"StackUnderflow", "InconsistentStack", "JumpOutOfRange", "FellOffEnd"}
Verdicts == {"none", "ok"} \cup OperandErrors \cup FlowErrors

\* The type invariant; `heights' and `work' are typed by the function under
\* verification once one has been started.
TypeOK ==
  /\ program \in Programs
  /\ stage \in Stages
  /\ verdict \in Verdicts /\ (verdict = "none" <=> stage # "done")
  /\ fn \in 0 .. Len(program.functions)
  /\ DOMAIN typings = FnIds(program)
  /\ stage = "visit" =>
       /\ fn \in FnIds(program) /\ Pcs(program, fn) # {}
       /\ heights \in [Pcs(program, fn) -> Nat \cup {NoHeight}]
       /\ work \in Seq(Pcs(program, fn) \X Nat)

Pending  == {work[i][1] : i \in DOMAIN work}
Known    == {pc \in Pcs(program, fn) : heights[pc] # NoHeight}
Settled  == Known \ Pending

\* Soundness.  If verify returns Ok, then the entry point exists and every
\* function that has code has a consistent typing, the one the walk recorded: the
\* height of the stack is a function of the program counter, nothing underflows,
\* every operand refers to something that exists and control never leaves the
\* code (verify.rs:13-26).
Sound ==
  verdict = "ok" => program.main \in FnIds(program) /\ TypedBy(program, typings)

\* The strengthening that makes Sound inductive: an instruction that is known
\* and no longer on the worklist is locally typed, and the worklist holds the
\* known height of every instruction on it, each instruction once.
NoDuplicateWork == \A i, j \in DOMAIN work : work[i][1] = work[j][1] => i = j
WalkInv ==
  /\ verdict = "ok" => fn = Len(program.functions)
  /\ stage \in {"chunk", "visit"} \/ verdict = "ok"
       => program.main < Len(program.functions)
  /\ \A f \in FnIds(program) :
       (f < fn /\ Pcs(program, f) # {}) => IsTyping(program, f, typings[f])
  /\ stage = "visit" =>
       /\ heights[0] = 0
       /\ NoDuplicateWork
       /\ \A i \in DOMAIN work : heights[work[i][1]] = work[i][2]
       /\ \A pc \in Settled : LocallyTyped(program, fn, heights, pc)

\* Completeness.  A function is only rejected when it has no typing at all: a
\* program with consistent heights is never turned away, whatever order the
\* worklist visits its instructions in.  MaxHeight bounds the typings tried.
CompleteUpTo(MaxHeight) ==
  verdict \in OperandErrors \cup FlowErrors /\ stage = "done" /\ fn \in FnIds(program)
    /\ program.main < Len(program.functions)
    => ~ \E H \in [Pcs(program, fn) -> NoHeight .. MaxHeight] : IsTyping(program, fn, H)

\* "Each is processed at most once, when its stack height first becomes known"
\* (verify.rs:28): the worklist never holds an instruction twice, and once an
\* instruction has been processed it neither returns to the worklist nor changes
\* its height.
ProcessedOnce ==
  [][ (stage = "visit" /\ stage' = "visit") =>
        /\ NoDuplicateWork'
        /\ Settled \subseteq Settled'
        /\ \A pc \in Known : heights'[pc] = heights[pc] ]_vars

\* verify returns, on every program, however its jumps loop.
Terminates == <>(stage = "done")
=============================================================================
