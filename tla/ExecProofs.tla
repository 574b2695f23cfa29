----------------------------- MODULE ExecProofs -----------------------------
(***************************************************************************)
(* Proofs about the composition: what the verifier promises is what the    *)
(* machine needs.  A program that verifies never trips a structural check  *)
(* of the machine, whatever the program, the step budget and the values.   *)
(*                                                                         *)
(* The verifier's definitions are here under two names, V!... from Exec    *)
(* and VP!... from the module of their proofs, and those of Bytecode under *)
(* a third: the first lemmas say that they are the same.                   *)
(***************************************************************************)
EXTENDS Exec, VMProofs

VP == INSTANCE VerifierProofs WITH Heights <- Nat

LEMMA SameNext == V!Next => VP!Next
BY DEF V!Signature, V!Signatures, V!IsGeneric, V!Arity, V!PushOps, V!IntArith,
     V!FltArith, V!IntOrder, V!FltOrder, V!EqOps, V!UnaryOps, V!BinaryOps,
     V!JumpOps, V!CallOps, V!SinkOps, V!OpNames, V!Needed, V!Delta, V!FnIds,
     V!Fn, V!CodeLen, V!Pcs, V!OpAt, V!Successors, V!OperandError, V!NoHeight,
     V!vars, V!NoTyping, V!Conclude, V!CheckEntry, V!Accept, V!SkipEmptyChunk,
     V!StartChunk, V!FinishChunk, V!EdgeError, V!EdgeHeights, V!EdgeWork,
     V!Last, V!Front, V!Pc, V!Height, V!Instr, V!Next_height, V!Visiting,
     V!VisitUnderflow, V!VisitBadOperand, V!Sane, V!VisitReturn, V!FollowEdge,
     V!VisitJump, V!VisitBranch, V!VisitPlain, V!Done, V!Next, VP!Signature,
     VP!Signatures, VP!IsGeneric, VP!Arity, VP!PushOps, VP!IntArith,
     VP!FltArith, VP!IntOrder, VP!FltOrder, VP!EqOps, VP!UnaryOps, VP!BinaryOps,
     VP!JumpOps, VP!CallOps, VP!SinkOps, VP!OpNames, VP!Needed, VP!Delta,
     VP!FnIds, VP!Fn, VP!CodeLen, VP!Pcs, VP!OpAt, VP!Successors,
     VP!OperandError, VP!NoHeight, VP!vars, VP!NoTyping, VP!Conclude,
     VP!CheckEntry, VP!Accept, VP!SkipEmptyChunk, VP!StartChunk, VP!FinishChunk,
     VP!EdgeError, VP!EdgeHeights, VP!EdgeWork, VP!Last, VP!Front, VP!Pc,
     VP!Height, VP!Instr, VP!Next_height, VP!Visiting, VP!VisitUnderflow,
     VP!VisitBadOperand, VP!Sane, VP!VisitReturn, VP!FollowEdge, VP!VisitJump,
     VP!VisitBranch, VP!VisitPlain, VP!Done, VP!Next

LEMMA SamePrograms == \A p \in Programs : VP!IsProgram(p)
BY ProgramsAssumption DEF IsLoadable, IsProgram, IsChunk, Chunks, IsOp, Ops, OpNames, BuiltinNames, Signatures,
     Signature, PushOps, SinkOps, UnaryOps, BinaryOps, CallOps, IntArith,
     FltArith, IntOrder, FltOrder, EqOps, VP!IsProgram, VP!IsChunk, VP!Chunks, VP!IsOp,
     VP!Ops, VP!OpNames, VP!BuiltinNames, VP!Signatures, VP!Signature,
     VP!PushOps, VP!SinkOps, VP!UnaryOps, VP!BinaryOps, VP!CallOps, VP!IntArith,
     VP!FltArith, VP!IntOrder, VP!FltOrder, VP!EqOps

LEMMA SameEffect ==
  ASSUME NEW p, NEW f, NEW o
  PROVE  /\ VP!Needed(o) = Needed(o)
         /\ VP!Delta(o) = Delta(o)
         /\ \A pc : VP!Successors(o, pc) = Successors(o, pc)
         /\ VP!OperandError(p, f, o) = OperandError(p, f, o)
<1>1. VP!Needed(o) = Needed(o)
  BY DEF Needed, UnaryOps, BinaryOps, CallOps, SinkOps, IntArith, FltArith,
     IntOrder, FltOrder, EqOps, VP!Needed, VP!UnaryOps, VP!BinaryOps,
     VP!CallOps, VP!SinkOps, VP!IntArith, VP!FltArith, VP!IntOrder, VP!FltOrder,
     VP!EqOps
<1>2. VP!Delta(o) = Delta(o)
  BY <1>1 DEF Delta, VP!Delta, SinkOps, VP!SinkOps
<1>3. \A pc : VP!Successors(o, pc) = Successors(o, pc)
  BY DEF Successors, VP!Successors
<1>4. \A b : VP!Arity(b) = Arity(b)
  BY DEF Arity, VP!Arity, IsGeneric, VP!IsGeneric, Signatures, VP!Signatures, Signature,
     VP!Signature
<1>5. VP!OperandError(p, f, o) = OperandError(p, f, o)
  BY <1>4 DEF OperandError, VP!OperandError, FnIds, VP!FnIds, Fn, VP!Fn
<1> QED BY <1>1, <1>2, <1>3, <1>5

LEMMA SameTyping ==
  ASSUME NEW p, NEW T, VP!TypedBy(p, T)
  PROVE  TypedBy(p, T)
<1>1. \A f : VP!Pcs(p, f) = Pcs(p, f)
  BY DEF Pcs, VP!Pcs, CodeLen, VP!CodeLen, Fn, VP!Fn
<1>2. \A f, pc : VP!OpAt(p, f, pc) = OpAt(p, f, pc)
  BY DEF OpAt, VP!OpAt, Fn, VP!Fn
<1>3. ASSUME NEW f, NEW L, NEW pc, VP!LocallyTyped(p, f, L, pc)
      PROVE  LocallyTyped(p, f, L, pc)
  BY <1>1, <1>2, <1>3, SameEffect DEF LocallyTyped, VP!LocallyTyped
<1>4. ASSUME NEW f, NEW L, VP!IsTyping(p, f, L)
      PROVE  IsTyping(p, f, L)
  BY <1>1, <1>3, <1>4 DEF IsTyping, VP!IsTyping, NoHeight, VP!NoHeight
<1> QED BY <1>1, <1>4 DEF TypedBy, VP!TypedBy, FnIds, VP!FnIds

----------------------------------------------------------------------------
\* Nothing but the verifier's walk changes the typings, nothing runs before the
\* verdict is "ok", a running machine obeys the typings, and the exit code is set
\* when the process ends.
ExecInv ==
  /\ VP!Inv
  /\ phase \in Phases
  /\ status # "idle" => phase \in {"execute", "exited"} /\ verdict = "ok"
  /\ phase = "execute" => verdict = "ok"
  /\ Shape /\ Guarded(typings)
  /\ phase # "exited" => exit = NoExit /\ terminal = <<>>
  /\ ExitCodeTells

LEMMA ExecInitLemma == ExecInit => ExecInv
<1> SUFFICES ASSUME ExecInit PROVE ExecInv
  OBVIOUS
<1>1. VP!Inv
  <2>1. VP!Init
    BY DEF ExecInit, V!Init, VP!Init, V!Unverified, VP!Unverified, V!NoTyping, VP!NoTyping, V!FnIds, VP!FnIds
  <2> QED BY <2>1, VP!InitLemma, SamePrograms
<1>2. Shape
  BY EmptyLemma, ProgramsAssumption DEF ExecInit, Init, Idle, Shape, IsLoadable
<1>3. Guarded(typings)
  BY DEF ExecInit, Init, Idle, Guarded, Discipline, Tight, OnlyStuckFails, StructureErrors
<1> QED BY <1>1, <1>2, <1>3 DEF ExecInit, ExecInv, Phases, Init, Idle, ExitCodeTells

\* A step that leaves the machine alone.
LEMMA MachineRestsLemma ==
  ASSUME ExecInv, UNCHANGED program, UNCHANGED machineVars,
         status = "idle" \/ UNCHANGED typings
  PROVE  Shape' /\ Guarded(typings)'
<1>0. PICK T, U : T = typings /\ U = typings'
  OBVIOUS
<1>1. Shape' /\ Shape
  BY DEF ExecInv, Shape, FrameSet, machineVars
<1>2. UNCHANGED <<program, status, stack, frames>>
  BY DEF machineVars
<1>3. CASE status = "idle"
  <2>1. Guarded(T)'
    BY <1>0, <1>2, RestLemma DEF ExecInv
  <2>2. Guarded(U)'
    BY <1>2, <1>3, <2>1 DEF Guarded, Discipline, Tight, OnlyStuckFails
  <2> QED BY <1>0, <1>1, <2>2
<1>4. CASE UNCHANGED typings
  <2>1. Guarded(T)'
    BY <1>0, <1>2, RestLemma DEF ExecInv
  <2> QED BY <1>0, <1>1, <1>4, <2>1
<1> QED BY <1>3, <1>4

\* A turn of the machine under an accepted program.
LEMMA ExecuteLemma ==
  ASSUME ExecInv, Execute
  PROVE  /\ UNCHANGED program
         /\ Shape' /\ Guarded(typings)'
         /\ CallersUntouched
<1>1. PICK T : T = typings
  OBVIOUS
<1>2. typings' = T /\ verdict = "ok" /\ (Start \/ Step)
  BY <1>1 DEF Execute, verifierVars, ExecInv
<1>3. program' = program
  BY <1>2, ProgramLemma
<1>4. TypedBy(program, T) /\ program.main \in FnIds(program)
  <2>1. VP!Sound
    BY VP!SoundLemma, SamePrograms DEF ExecInv
  <2> QED BY <1>1, <1>2, <2>1, SameTyping DEF VP!Sound, FnIds, VP!FnIds
<1>5. Shape /\ TypedMain(T) /\ Guarded(T)
  BY <1>1, <1>4 DEF ExecInv, TypedMain
<1>6. Keeps(T)
  BY <1>2, <1>5, StartLemma, StepLemma
<1> QED BY <1>2, <1>3, <1>6 DEF Keeps

\* The verifier's variables outside its own steps.
LEMMA VerifierRestsLemma ==
  ASSUME ExecInv, UNCHANGED program, UNCHANGED verifierVars
  PROVE  VP!Inv'
BY VP!NextLemma, SamePrograms DEF ExecInv, verifierVars, VP!vars

LEMMA ExecNextLemma == ExecInv /\ [ExecNext]_execVars => ExecInv'
<1> SUFFICES ASSUME ExecInv, [ExecNext]_execVars PROVE ExecInv'
  OBVIOUS
<1>1. CASE Execute
  <2>1. UNCHANGED program /\ Shape' /\ Guarded(typings)'
    BY <1>1, ExecuteLemma
  <2>2. /\ UNCHANGED verifierVars /\ UNCHANGED <<phase, exit, terminal>>
        /\ phase = "execute"
    BY <1>1 DEF Execute, processVars
  <2>3. VP!Inv'
    BY <2>1, <2>2, VerifierRestsLemma
  <2> QED BY <2>1, <2>2, <2>3 DEF ExecInv, verifierVars, ExitCodeTells
<1>2. CASE Verify
  <2>1. /\ VP!Next /\ UNCHANGED machineVars /\ UNCHANGED <<phase, exit, terminal>>
        /\ phase = "verify"
    BY <1>2, SameNext DEF Verify, processVars
  <2>2. VP!Inv'
    BY <2>1, VP!NextLemma, SamePrograms DEF ExecInv
  <2>3. status = "idle" /\ status' = "idle"
    BY <2>1 DEF ExecInv, machineVars
  <2>4. UNCHANGED program
    BY <2>1, VP!ProgramLemma, SamePrograms
  <2>5. Shape' /\ Guarded(typings)'
    BY <2>1, <2>3, <2>4, MachineRestsLemma
  <2> QED BY <2>1, <2>2, <2>3, <2>5 DEF ExecInv, ExitCodeTells
<1>3. CASE UNCHANGED <<program, verifierVars, machineVars>> /\ phase' \in Phases
           /\ (status # "idle" => phase' \in {"execute", "exited"})
           /\ (phase' = "execute" => verdict = "ok")
           /\ (phase' # "exited" => exit' = NoExit /\ terminal' = <<>>)
           /\ ExitCodeTells'
  <2>1. UNCHANGED program /\ UNCHANGED verifierVars /\ UNCHANGED machineVars
    BY <1>3
  <2>2. UNCHANGED typings /\ UNCHANGED verdict /\ UNCHANGED status
    BY <2>1 DEF verifierVars, machineVars
  <2>3. VP!Inv'
    BY <2>1, VerifierRestsLemma
  <2>4. Shape' /\ Guarded(typings)'
    BY <2>1, <2>2, MachineRestsLemma
  <2> QED BY <1>3, <2>2, <2>3, <2>4 DEF ExecInv
<1>4. CASE LoadFails
  <2>1. status = "idle"
    BY <1>4 DEF LoadFails, ExecInv
  <2> QED BY <1>3, <1>4, <2>1 DEF LoadFails, Exit, Phases, ExitCodeTells, machineVars
<1>5. CASE Load
  BY <1>3, <1>5 DEF Load, Phases, ExecInv, ExitCodeTells
<1>6. CASE Rejected
  <2>1. status = "idle"
    BY <1>6 DEF Rejected, ExecInv
  <2> QED BY <1>3, <1>6, <2>1 DEF Rejected, Exit, Phases, ExitCodeTells, machineVars
<1>7. CASE Accepted
  BY <1>3, <1>7 DEF Accepted, Phases, ExecInv, ExitCodeTells
<1>8. CASE Report
  <2>1. verdict = "ok" /\ status # "idle" /\ phase' = "exited"
        /\ UNCHANGED <<program, verifierVars, machineVars>>
    BY <1>8 DEF Report, Exit, ExecInv
  <2>2. UNCHANGED status /\ UNCHANGED verdict
    BY <2>1 DEF machineVars, verifierVars
  <2>3. IF status = "finished" THEN exit' = 0 ELSE exit' \in {1, 101, 134} /\ terminal' = <<>>
    BY <1>8 DEF Report, Exit
  <2>4. exit' = 0 <=> status = "finished"
    BY <2>3
  <2>5. exit' # 2
    BY <2>3
  <2>6. terminal' # <<>> => exit' = 0
    BY <2>3
  <2>7. ExitCodeTells'
    BY <2>1, <2>2, <2>4, <2>5, <2>6 DEF ExitCodeTells
  <2> QED BY <1>3, <2>1, <2>7 DEF Phases
<1>9. CASE UNCHANGED execVars
  <2>1. UNCHANGED <<program, verifierVars, machineVars, phase, exit, terminal>>
    BY <1>9 DEF execVars, processVars
  <2>2. UNCHANGED status /\ UNCHANGED verdict
    BY <2>1 DEF machineVars, verifierVars
  <2> QED BY <1>3, <2>1, <2>2 DEF ExecInv, ExitCodeTells
<1> QED
  BY <1>1, <1>2, <1>4, <1>5, <1>6, <1>7, <1>8, <1>9 DEF ExecNext, Exited

----------------------------------------------------------------------------
(* The types of the composition.                                           *)

LEMMA SameTypes == VP!TypeOK => V!TypeOK
BY DEF VP!TypeOK, V!TypeOK, VP!Stages, V!Stages, VP!Verdicts, V!Verdicts, VP!FlowErrors,
       V!FlowErrors, VP!OperandErrors, V!OperandErrors, VP!FnIds, V!FnIds, VP!Pcs, V!Pcs,
       VP!CodeLen, V!CodeLen, VP!Fn, V!Fn, VP!NoHeight, V!NoHeight

\* Whatever the verifier does, the machine only moves by its own actions; and only
\* the end of the process sets its exit code.
ExecTypeInv ==
  /\ TypeInv
  /\ exit \in {NoExit, 0, 1, 2, 101, 134}
  /\ exit = NoExit <=> phase # "exited"

LEMMA ExecTypeInitLemma == ExecInit => ExecTypeInv
BY TypeInitLemma DEF ExecInit, ExecTypeInv

LEMMA ExecTypeNextLemma == ExecInv /\ ExecTypeInv /\ [ExecNext]_execVars => ExecTypeInv'
<1> SUFFICES ASSUME ExecInv, ExecTypeInv, [ExecNext]_execVars PROVE ExecTypeInv'
  OBVIOUS
<1>1. [Next]_vars
  <2>1. CASE Execute
    BY <2>1 DEF Execute, Next
  <2>2. CASE Verify
    <3>1. UNCHANGED machineVars /\ VP!Next
      BY <2>2, SameNext DEF Verify
    <3>2. UNCHANGED program
      BY <3>1, VP!ProgramLemma, SamePrograms
    <3> QED BY <3>1, <3>2 DEF machineVars, vars
  <2>3. CASE ~ Execute /\ ~ Verify
    <3>1. UNCHANGED program /\ UNCHANGED machineVars
      BY <2>3 DEF ExecNext, LoadFails, Load, Rejected, Accepted, Report, Exited, Exit, execVars
    <3> QED BY <3>1 DEF machineVars, vars
  <2> QED BY <2>1, <2>2, <2>3
<1>2. TypeInv'
  BY <1>1, TypeNextLemma DEF ExecTypeInv
<1>3. exit' \in {NoExit, 0, 1, 2, 101, 134} /\ (exit' = NoExit <=> phase' # "exited")
  <2>1. CASE LoadFails \/ Rejected \/ Report
    <3>1. phase' = "exited" /\ exit' \in {0, 1, 2, 101, 134}
      BY <2>1 DEF LoadFails, Rejected, Report, Exit
    <3> QED BY <3>1 DEF NoExit
  <2>2. CASE ~ (LoadFails \/ Rejected \/ Report)
    <3>1. exit' = exit /\ (phase' = "exited" <=> phase = "exited")
      BY <2>2 DEF ExecNext, Load, Verify, Accepted, Execute, Exited, execVars, processVars
    <3> QED BY <3>1 DEF ExecTypeInv
  <2> QED BY <2>1, <2>2
<1> QED BY <1>2, <1>3 DEF ExecTypeInv

----------------------------------------------------------------------------
(* The theorems.                                                           *)

\* The strengthening holds at every moment of `lumenc exec'.
THEOREM ExecInvHolds == ExecSpec => []ExecInv
BY ExecInitLemma, ExecNextLemma, PTL DEF ExecSpec

\* Through load, verification and run, of any program: the verifier's tables and the
\* machine's values have their types, no array reference dangles, and the process
\* has an exit code exactly when it has ended.
THEOREM ExecTypesHold == ExecSpec => []ExecTypeOK
<1>1. ExecInv /\ ExecTypeInv => ExecTypeOK
  <2>1. ExecInv => program \in Programs
    BY DEF ExecInv, VP!Inv, VP!TypeOK
  <2> QED BY <2>1, TypeInvLemma, SameTypes DEF ExecInv, ExecTypeInv, ExecTypeOK, VP!Inv
<1> QED BY <1>1, ExecInvHolds, ExecInitLemma, ExecNextLemma, ExecTypeInitLemma, ExecTypeNextLemma,
           PTL DEF ExecSpec

\* The promise of verify.rs, for every program, step budget and width: a program
\* that verifies and has no function without code never makes the machine report
\* a structural error.
THEOREM VerifiedProgramsRunSafely == ExecSpec => []VerifiedRunsSafely
<1>1. ExecInv => VerifiedRunsSafely
  BY NotStuckLemma DEF ExecInv, VerifiedRunsSafely
<1> QED BY <1>1, ExecInvHolds, PTL

\* And its exception, of every program: a verified program can only report the one
\* structural error of a fetch in a function without code, which verify skips
\* (verify.rs:249-251).
OnlyEmptyCodeFails ==
  status \in StructureErrors => status = "ip out of bounds" /\ Pcs(program, Top.func) = {}

THEOREM VerifiedProgramsFailInEmptyCodeOnly == ExecSpec => []OnlyEmptyCodeFails
<1>1. ExecInv => OnlyEmptyCodeFails
  BY DEF ExecInv, Guarded, OnlyStuckFails, Stuck, OnlyEmptyCodeFails
<1> QED BY <1>1, ExecInvHolds, PTL

\* Why: the frames of a verified program tile the stack along the verifier's own
\* heights.
THEOREM VerifiedProgramsKeepDiscipline == ExecSpec => []VerifiedDiscipline
<1>1. ExecInv => VerifiedDiscipline
  BY NotStuckLemma DEF ExecInv, VerifiedDiscipline
<1> QED BY <1>1, ExecInvHolds, PTL

\* "The height is a function of the program counter alone": with parameters counted
\* among the locals the running stack is exactly as high as the verifier recorded.
THEOREM VerifiedHeightsAreExact == ExecSpec => []VerifiedHeightIsExact
<1>1. ExecInv => VerifiedHeightIsExact
  BY ExactLemma DEF ExecInv, VerifiedHeightIsExact
<1> QED BY <1>1, ExecInvHolds, PTL

\* The exit code of `lumenc exec' tells a rejected object file, a failed run and a
\* finished one apart, and only the last prints.
THEOREM ExitCodesTell == ExecSpec => []ExitCodeTells
<1>1. ExecInv => ExitCodeTells
  BY DEF ExecInv
<1> QED BY <1>1, ExecInvHolds, PTL

\* No callee of a verified program reaches below its own frame.
THEOREM VerifiedProgramsSpareCallers == ExecSpec => VerifiedCallersUntouched
<1> DEFINE Spared == (phase = "execute" /\ phase' = "execute") => CallersUntouched
<1>1. ExecInv /\ [ExecNext]_execVars => [Spared]_execVars
  <2> SUFFICES ASSUME ExecInv, ExecNext, phase = "execute", phase' = "execute"
               PROVE  CallersUntouched
    OBVIOUS
  <2>1. CASE Execute
    BY <2>1, ExecuteLemma
  <2>2. CASE ~ Execute
    BY <2>2 DEF ExecNext, LoadFails, Load, Verify, Rejected, Accepted, Report, Exited, Exit
  <2> QED BY <2>1, <2>2
<1> QED BY <1>1, ExecInvHolds, PTL DEF ExecSpec, VerifiedCallersUntouched
=============================================================================
