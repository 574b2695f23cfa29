---------------------------- MODULE SessionProofs ----------------------------
(***************************************************************************)
(* Proofs about an invocation of `lumenc', whatever the optimizer and the  *)
(* code generator compute: nothing happens after an error and every        *)
(* command finds its artifact; and code that is generated with a typing is *)
(* accepted by the verifier after any number of peephole turns, runs       *)
(* safely without it, and is read back from the file that `build' writes.  *)
(***************************************************************************)
EXTENDS Session, PeepholeProofs, VMProofs, ObjectProofs

----------------------------------------------------------------------------
(* The control of the pipeline.                                            *)

Gated   == {"lex", "parse", "resolve", "check", "driver", "exited"}
Ungated == {"lower", "optimize", "optimized", "generate", "peephole", "generated"}

\* The machine and the process have not started.
Quiescent ==
  /\ hir = NoHir /\ program = NoProgram /\ status = "idle"
  /\ artifacts \cap {"hir", "opt_stats", "program"} = {}

\* Before the gate, and after an error, there is neither tree nor program; the
\* process has ended exactly when it is "exited"; past a stop point the command is
\* not one that stops there; and the driver is entered with its artifact.
PipelineInv ==
  /\ phase \in Gated \cup Ungated \cup {"verify", "execute"} /\ errors \in BOOLEAN
  /\ command \in Commands
  /\ phase \in {"lex", "parse", "resolve", "check"} => Quiescent
  /\ phase = "lex" => ~ errors
  /\ errors => phase \in Gated /\ Quiescent
  /\ phase # "exited" => exit = NoExit /\ terminal = <<>>
  /\ phase = "exited" /\ errors => exit = 1 /\ terminal = <<>>
  /\ phase \in {"parse", "resolve", "check"} \cup Ungated => command # "tokens"
  /\ phase \in {"resolve", "check"} \cup Ungated => command \notin {"ast", "fmt"}
  /\ DriverFindsItsArtifact

LEMMA PipelineInitLemma == SessionInit => PipelineInv
BY AskedAssumption DEF SessionInit, Idle, PipelineInv, Quiescent, Gated, Ungated,
                        DriverFindsItsArtifact

\* What a phase of the front-end leaves alone.
LEMMA ProceedLemma ==
  ASSUME NEW next, NEW more, Proceed(next, more)
  PROVE  /\ phase' = next /\ artifacts' = artifacts \cup more
         /\ UNCHANGED <<status, exit, terminal, command>>
<1>1. /\ phase' = next /\ artifacts' = artifacts \cup more
      /\ UNCHANGED machineVars /\ UNCHANGED <<exit, terminal, command>>
  BY DEF Proceed
<1> QED BY <1>1 DEF machineVars

LEMMA PipelineNextLemma == PipelineInv /\ [SessionNext]_allVars => PipelineInv'
<1> SUFFICES ASSUME PipelineInv, [SessionNext]_allVars PROVE PipelineInv'
  OBVIOUS
<1> USE DEF PipelineInv, Gated, Ungated
<1>1. CASE SourceUnreadable
  <2>1. /\ phase = "lex" /\ phase' = "exited" /\ ~ errors
        /\ UNCHANGED <<errors, command>>
    BY <1>1 DEF SourceUnreadable, Exit, sessionVars
  <2> QED BY <2>1 DEF DriverFindsItsArtifact
<1>2. CASE Lex
  <2>1. /\ phase = "lex" /\ errors' \in BOOLEAN /\ UNCHANGED <<program, hir>>
        /\ IF StopAfter(command) = "tokens" THEN Deliver({"tokens"}) ELSE Proceed("parse", {})
    BY <1>2 DEF Lex, MayReport, FrontEnd
  <2>2. CASE StopAfter(command) = "tokens"
    <3>1. /\ phase' = "driver" /\ artifacts' = artifacts \cup {"tokens"}
          /\ UNCHANGED <<status, exit, terminal, command>>
      BY <2>1, <2>2, ProceedLemma DEF Deliver
    <3>2. command = "tokens"
      BY <2>2 DEF StopAfter
    <3> QED BY <2>1, <3>1, <3>2 DEF Quiescent, DriverFindsItsArtifact, Present, Needs
  <2>3. CASE StopAfter(command) # "tokens"
    <3>1. /\ phase' = "parse" /\ artifacts' = artifacts \cup {}
          /\ UNCHANGED <<status, exit, terminal, command>>
      BY <2>1, <2>3, ProceedLemma
    <3>2. command # "tokens"
      BY <2>3 DEF StopAfter
    <3> QED BY <2>1, <3>1, <3>2 DEF Quiescent, DriverFindsItsArtifact
  <2> QED BY <2>2, <2>3
<1>3. CASE Parse
  <2>1. /\ phase = "parse" /\ errors' \in BOOLEAN /\ UNCHANGED <<program, hir>>
        /\ IF StopAfter(command) = "ast" THEN Deliver({"ast"}) ELSE Proceed("resolve", {})
    BY <1>3 DEF Parse, MayReport, FrontEnd
  <2>2. CASE StopAfter(command) = "ast"
    <3>1. /\ phase' = "driver" /\ artifacts' = artifacts \cup {"ast"}
          /\ UNCHANGED <<status, exit, terminal, command>>
      BY <2>1, <2>2, ProceedLemma DEF Deliver
    <3>2. command \in {"ast", "fmt"}
      BY <2>2 DEF StopAfter
    <3> QED BY <2>1, <3>1, <3>2 DEF Quiescent, DriverFindsItsArtifact, Present, Needs
  <2>3. CASE StopAfter(command) # "ast"
    <3>1. /\ phase' = "resolve" /\ artifacts' = artifacts \cup {}
          /\ UNCHANGED <<status, exit, terminal, command>>
      BY <2>1, <2>3, ProceedLemma
    <3>2. command \notin {"tokens", "ast", "fmt"}
      BY <2>1, <2>3 DEF StopAfter
    <3> QED BY <2>1, <3>1, <3>2 DEF Quiescent, DriverFindsItsArtifact
  <2> QED BY <2>2, <2>3
<1>4. CASE ResolveNames
  <2>1. /\ phase = "resolve" /\ errors' \in BOOLEAN /\ UNCHANGED <<program, hir>>
        /\ phase' = "check" /\ artifacts' = artifacts \cup {}
        /\ UNCHANGED <<status, exit, terminal, command>>
    BY <1>4, ProceedLemma DEF ResolveNames, MayReport, FrontEnd
  <2> QED BY <2>1 DEF Quiescent, DriverFindsItsArtifact
<1>5. CASE Check
  <2>1. /\ phase = "check" /\ errors' \in BOOLEAN /\ UNCHANGED <<program, hir>>
        /\ IF errors' THEN Deliver(Analysed) ELSE Proceed("lower", Analysed)
    BY <1>5 DEF Check, MayReport, FrontEnd
  <2>2. /\ phase' = IF errors' THEN "driver" ELSE "lower"
        /\ artifacts' = artifacts \cup Analysed
        /\ UNCHANGED <<status, exit, terminal, command>>
    BY <2>1, ProceedLemma DEF Deliver
  <2>3. Quiescent'
    BY <2>1, <2>2 DEF Quiescent, Analysed
  <2> QED BY <2>1, <2>2, <2>3 DEF DriverFindsItsArtifact
<1>6. CASE Lower \/ OptimizeRound \/ OptimizeSkipped \/ GenerateCode \/ PeepholeStep
             \/ PeepholeDone \/ Optimized \/ Generated
  <2>1. phase \in Ungated /\ ~ errors /\ UNCHANGED errors
    BY <1>6 DEF Lower, OptimizeRound, OptimizeSkipped, GenerateCode, PeepholeStep, PeepholeDone,
                Optimized, Generated
  <2>2. PICK next, more : /\ Proceed(next, more) /\ next \in Ungated \cup {"driver"}
                          /\ next = "driver" => Needs(command) \in more
    <3>1. CASE Lower
      <4>1. StopAfter(command) = "hir" => Needs(command) \in {"hir"}
        BY DEF StopAfter, Needs
      <4>2. \/ Proceed("driver", {"hir"}) /\ StopAfter(command) = "hir"
            \/ Proceed("optimize", {})
        BY <3>1 DEF Lower, Deliver
      <4> QED BY <4>1, <4>2
    <3>2. CASE OptimizeRound
      <4>1. Proceed("optimize", {}) \/ Proceed("optimized", {})
        BY <3>2 DEF OptimizeRound
      <4> QED BY <4>1
    <3>3. CASE OptimizeSkipped
      BY <3>3 DEF OptimizeSkipped
    <3>4. CASE Optimized
      <4>1. StopAfter(command) \in {"hir-opt"} \cup MirForms
              => Needs(command) \in {"opt_stats", "hir"}
        BY DEF StopAfter, Needs, MirForms
      <4>2. \/ /\ Proceed("driver", {"opt_stats", "hir"})
               /\ StopAfter(command) \in {"hir-opt"} \cup MirForms
            \/ Proceed("generate", {"opt_stats"})
        BY <3>4 DEF Optimized, Deliver
      <4> QED BY <4>1, <4>2
    <3>5. CASE GenerateCode
      <4>1. Proceed("peephole", {}) \/ Proceed("generated", {})
        BY <3>5 DEF GenerateCode
      <4> QED BY <4>1
    <3>6. CASE PeepholeStep
      BY <3>6 DEF PeepholeStep
    <3>7. CASE PeepholeDone
      BY <3>7 DEF PeepholeDone
    <3>8. CASE Generated
      <4>1. Needs(command) \in {"hir", "program"}
        BY <2>1 DEF Needs
      <4>2. Proceed("driver", {"hir", "program"})
        BY <3>8 DEF Generated, Deliver
      <4> QED BY <4>1, <4>2
    <3> QED BY <1>6, <3>1, <3>2, <3>3, <3>4, <3>5, <3>6, <3>7, <3>8
  <2>3. /\ phase' = next /\ artifacts' = artifacts \cup more
        /\ UNCHANGED <<exit, terminal, command>>
    BY <2>2, ProceedLemma
  <2> QED BY <2>1, <2>2, <2>3 DEF DriverFindsItsArtifact, Present
<1>7. CASE ReportErrors
  <2>1. /\ phase = "driver" /\ errors /\ phase' = "exited" /\ exit' = 1 /\ terminal' = <<>>
        /\ UNCHANGED <<program, status, errors, command, hir, artifacts>>
    BY <1>7 DEF ReportErrors, Exit, sessionVars, machineVars
  <2> QED BY <2>1 DEF Quiescent, DriverFindsItsArtifact
<1>8. CASE Drive /\ ~ ReportErrors
  <2>1. ~ errors /\ UNCHANGED <<errors, command>> /\ phase \in {"driver", "verify", "execute"}
    <3>1. CASE CheckOnly \/ Dump \/ Build \/ DumpVerify \/ Run
      BY <3>1 DEF CheckOnly, Dump, Build, DumpVerify, Run, Driving, sessionVars
    <3>2. CASE VerifyStep \/ Verified \/ ExecuteStep \/ ReportRun
      BY <3>2 DEF VerifyStep, Verified, ExecuteStep, ReportRun, Verify, Execute, Report, sessionVars
    <3> QED BY <1>8, <3>1, <3>2 DEF Drive
  <2>2. \/ phase' = "exited"
        \/ phase' \in {"verify", "execute"} /\ UNCHANGED <<exit, terminal>>
    <3>1. CASE CheckOnly \/ Dump \/ Verified \/ ReportRun
      BY <3>1 DEF CheckOnly, Dump, Verified, ReportRun, Report, Exit
    <3>2. CASE Build
      BY <3>2 DEF Build, Exit
    <3>3. CASE DumpVerify
      BY <3>3 DEF DumpVerify, Exit
    <3>4. CASE Run
      BY <3>4 DEF Run, Exit
    <3>5. CASE VerifyStep \/ ExecuteStep
      BY <3>5 DEF VerifyStep, ExecuteStep, Verify, Execute, processVars
    <3> QED BY <1>8, <3>1, <3>2, <3>3, <3>4, <3>5 DEF Drive
  <2> QED BY <2>1, <2>2 DEF DriverFindsItsArtifact
<1>9. CASE SessionOver \/ UNCHANGED allVars
  <2>1. UNCHANGED <<phase, exit, terminal, program, status, errors, command, hir, artifacts>>
    BY <1>9 DEF SessionOver, Exited, allVars, execVars, processVars, machineVars, sessionVars
  <2> QED BY <2>1 DEF Quiescent, DriverFindsItsArtifact, Present
<1> QED BY <1>1, <1>2, <1>3, <1>4, <1>5, <1>6, <1>7, <1>8, <1>9 DEF SessionNext, Compile, Drive

\* The inductive invariant of the pipeline's control.
THEOREM PipelineInvHolds == SessionSpec => []PipelineInv
BY PipelineInitLemma, PipelineNextLemma, PTL DEF SessionSpec

\* "lowering and code generation run only if the program is error-free"
\* (session.rs:136): whatever the phases after the gate compute, none of them runs, and
\* nothing is printed, once a phase reported an error; and the process ends with 1.
THEOREM ErrorsStopThePipeline == SessionSpec => []NothingAfterErrors
<1>1. PipelineInv => NothingAfterErrors
  BY DEF PipelineInv, NothingAfterErrors, Quiescent
<1> QED BY <1>1, PipelineInvHolds, PTL

\* Every stage leaves the artifact the driver asks for, for every command: the
\* "internal error: no program was produced" of main.rs is never printed.
THEOREM ArtifactsAreFound == SessionSpec => []DriverFindsItsArtifact
<1>1. PipelineInv => DriverFindsItsArtifact
  BY DEF PipelineInv
<1> QED BY <1>1, PipelineInvHolds, PTL

----------------------------------------------------------------------------
(* What is generated, and the verifier.  Its definitions are here under    *)
(* two names, V!... from Exec and W!... from the module of their proofs,   *)
(* over every program there is; the first lemmas say that they agree.      *)

AllPrograms == {p \in [functions : Seq(Chunks), main : Nat] : IsProgram(p)}

W == INSTANCE VerifierProofs WITH Programs <- AllPrograms, Heights <- Nat

LEMMA SameStep == V!Next => W!Next
BY DEF V!Signature, V!Signatures, V!IsGeneric, V!Arity, V!PushOps, V!IntArith,
     V!FltArith, V!IntOrder, V!FltOrder, V!EqOps, V!UnaryOps, V!BinaryOps,
     V!JumpOps, V!CallOps, V!SinkOps, V!OpNames, V!Needed, V!Delta, V!FnIds,
     V!Fn, V!CodeLen, V!Pcs, V!OpAt, V!Successors, V!OperandError, V!NoHeight,
     V!vars, V!NoTyping, V!Conclude, V!CheckEntry, V!Accept, V!SkipEmptyChunk,
     V!StartChunk, V!FinishChunk, V!EdgeError, V!EdgeHeights, V!EdgeWork,
     V!Last, V!Front, V!Pc, V!Height, V!Instr, V!Next_height, V!Visiting,
     V!VisitUnderflow, V!VisitBadOperand, V!Sane, V!VisitReturn, V!FollowEdge,
     V!VisitJump, V!VisitBranch, V!VisitPlain, V!Done, V!Next, W!Signature,
     W!Signatures, W!IsGeneric, W!Arity, W!PushOps, W!IntArith,
     W!FltArith, W!IntOrder, W!FltOrder, W!EqOps, W!UnaryOps, W!BinaryOps,
     W!JumpOps, W!CallOps, W!SinkOps, W!OpNames, W!Needed, W!Delta,
     W!FnIds, W!Fn, W!CodeLen, W!Pcs, W!OpAt, W!Successors,
     W!OperandError, W!NoHeight, W!vars, W!NoTyping, W!Conclude,
     W!CheckEntry, W!Accept, W!SkipEmptyChunk, W!StartChunk, W!FinishChunk,
     W!EdgeError, W!EdgeHeights, W!EdgeWork, W!Last, W!Front, W!Pc,
     W!Height, W!Instr, W!Next_height, W!Visiting, W!VisitUnderflow,
     W!VisitBadOperand, W!Sane, W!VisitReturn, W!FollowEdge, W!VisitJump,
     W!VisitBranch, W!VisitPlain, W!Done, W!Next

LEMMA SameProgram == \A p \in AllPrograms : W!IsProgram(p)
BY DEF AllPrograms, IsProgram, IsChunk, Chunks, IsOp, Ops, OpNames, BuiltinNames, Signatures,
     Signature, PushOps, SinkOps, UnaryOps, BinaryOps, CallOps, IntArith,
     FltArith, IntOrder, FltOrder, EqOps, W!IsProgram, W!IsChunk, W!Chunks, W!IsOp,
     W!Ops, W!OpNames, W!BuiltinNames, W!Signatures, W!Signature,
     W!PushOps, W!SinkOps, W!UnaryOps, W!BinaryOps, W!CallOps, W!IntArith,
     W!FltArith, W!IntOrder, W!FltOrder, W!EqOps

LEMMA SameTyping ==
  ASSUME NEW p, NEW f, NEW T, IsTyping(p, f, T)
  PROVE  W!IsTyping(p, f, T)
<1>1. W!Pcs(p, f) = Pcs(p, f)
  BY DEF Pcs, W!Pcs, CodeLen, W!CodeLen, Fn, W!Fn
<1>2. \A pc : W!OpAt(p, f, pc) = OpAt(p, f, pc)
  BY DEF OpAt, W!OpAt, Fn, W!Fn
<1>3. \A o : W!Needed(o) = Needed(o)
  BY DEF Needed, UnaryOps, BinaryOps, CallOps, SinkOps, IntArith, FltArith,
     IntOrder, FltOrder, EqOps, W!Needed, W!UnaryOps, W!BinaryOps,
     W!CallOps, W!SinkOps, W!IntArith, W!FltArith, W!IntOrder, W!FltOrder,
     W!EqOps
<1>4. \A o : W!Delta(o) = Delta(o)
  BY <1>3 DEF Delta, W!Delta, SinkOps, W!SinkOps
<1>5. \A o, pc : W!Successors(o, pc) = Successors(o, pc)
  BY DEF Successors, W!Successors
<1>6. \A b : W!Arity(b) = Arity(b)
  BY DEF Arity, W!Arity, IsGeneric, W!IsGeneric, Signatures, W!Signatures, Signature,
     W!Signature
<1>7. \A o : W!OperandError(p, f, o) = OperandError(p, f, o)
  BY <1>6 DEF OperandError, W!OperandError, FnIds, W!FnIds, Fn, W!Fn
<1>8. ASSUME NEW pc, LocallyTyped(p, f, T, pc)
      PROVE  W!LocallyTyped(p, f, T, pc)
  BY <1>1, <1>2, <1>3, <1>4, <1>5, <1>7, <1>8 DEF LocallyTyped, W!LocallyTyped
<1> QED BY <1>1, <1>8 DEF IsTyping, W!IsTyping, NoHeight, W!NoHeight

\* A program as a code generator ought to emit it.
WellTyped(p) ==
  /\ IsLoadable(p) /\ p.main \in FnIds(p) /\ \E T : TypedBy(p, T)
  /\ \A f \in FnIds(p) : Pcs(p, f) # {} /\ \A pc \in Pcs(p, f) : IsInstruction(OpAt(p, f, pc))

LEMMA RetargetedLemma ==
  ASSUME NEW o, IsInstruction(o), o.op \in JumpOps, NEW t \in Nat, NEW r, r = [o EXCEPT !.n = t]
  PROVE  IsInstruction(r) /\ r.op \in JumpOps
<1>1. PICK w \in NumberOps, n \in Int : o = WithN(w, n)
  <2>1. ASSUME NEW w, o = Plain(w), w \in PlainOps PROVE FALSE
    BY <2>1 DEF Plain, Op, PlainOps, NumberOps
  <2>2. ASSUME NEW n, o = WithN("PushBool", n) PROVE FALSE
    BY <2>2 DEF WithN, Op, JumpOps
  <2>3. ASSUME NEW g, NEW argc, o = Call(g, argc) PROVE FALSE
    BY <2>3 DEF Call, Op, JumpOps
  <2>4. ASSUME NEW b, NEW argc, o = CallBuiltin(b, argc) PROVE FALSE
    BY <2>4 DEF CallBuiltin, Op, JumpOps
  <2> QED BY <2>1, <2>2, <2>3, <2>4 DEF IsInstruction
<1>2. w \in JumpOps /\ o = WithN(w, n)
  BY <1>1 DEF WithN, Op
<1>3. r = WithN(w, t) /\ r.op = w
  BY <1>2 DEF WithN, Op
<1>4. w \in NumberOps /\ t \in Int
  BY <1>2 DEF NumberOps
<1> QED BY <1>2, <1>3, <1>4 DEF IsInstruction

LEMMA WellTypedTurn ==
  ASSUME NEW p, WellTyped(p), NEW f \in FnIds(p)
  PROVE  LET q == [p EXCEPT !.functions[f + 1] = PeepholeTurn(@)]
         IN WellTyped(q) /\ FnIds(q) = FnIds(p)
<1>1. PICK q : q = [p EXCEPT !.functions[f + 1] = PeepholeTurn(@)]
  OBVIOUS
<1>2. PICK T : TypedBy(p, T)
  BY DEF WellTyped
<1>3. IsProgram(p)
  BY DEF WellTyped, IsLoadable
<1>4. /\ IsProgram(q) /\ \E U : TypedBy(q, U)
      /\ FnIds(q) = FnIds(p) /\ q.main = p.main
      /\ \A g \in FnIds(p) :
           /\ Pcs(p, g) # {} => Pcs(q, g) # {}
           /\ \A pc \in Pcs(q, g) :
                \E s \in Pcs(p, g) : Retargeted(OpAt(p, g, s), OpAt(q, g, pc))
  BY <1>1, <1>2, <1>3, PeepholeKeepsTypings
<1>5. ASSUME NEW g \in FnIds(q), NEW pc \in Pcs(q, g)
      PROVE  /\ OpAt(q, g, pc).op = "PushInt" => InWidth(OpAt(q, g, pc).n)
             /\ OpAt(q, g, pc).op = "PushFloat" => OpAt(q, g, pc).n \in F64.floats
             /\ IsInstruction(OpAt(q, g, pc))
  <2>1. PICK s \in Pcs(p, g) : Retargeted(OpAt(p, g, s), OpAt(q, g, pc))
    BY <1>4
  <2>2. PICK o, r : o = OpAt(p, g, s) /\ r = OpAt(q, g, pc)
    OBVIOUS
  <2>3. /\ o.op = "PushInt" => InWidth(o.n)
        /\ o.op = "PushFloat" => o.n \in F64.floats
        /\ IsInstruction(o) /\ Retargeted(o, r)
    BY <1>4, <2>1, <2>2 DEF WellTyped, IsLoadable
  <2>4. CASE r = o
    BY <2>2, <2>3, <2>4
  <2>5. CASE r # o
    <3>1. IsJump(o) /\ \E t \in Nat : r = [o EXCEPT !.n = t]
      BY <2>3, <2>5 DEF Retargeted
    <3>2. IsInstruction(r) /\ r.op \in JumpOps
      BY <2>3, <3>1, RetargetedLemma DEF IsJump
    <3> QED BY <2>2, <3>2 DEF JumpOps
  <2> QED BY <2>4, <2>5
<1>6. WellTyped(q)
  BY <1>4, <1>5 DEF WellTyped, IsLoadable
<1> QED BY <1>1, <1>4, <1>6

\* Trees is a set of programs that holds what lowering yields, that the optimizer
\* stays in, and from which the code generator emits what it ought to.
Emits(Trees) ==
  /\ Corpus \subseteq Trees
  /\ \A h \in Trees : RoundOf(h) \in Trees /\ WellTyped(CodeOf(h))

\* The tree up to code generation, the program from there on, and the verifier,
\* before and during its walk.
EmitInv(Trees) ==
  /\ phase \in {"optimize", "optimized", "generate"} => hir \in Trees
  /\ phase \in {"peephole", "generated", "verify"} \/ "program" \in artifacts
       => WellTyped(program)
  /\ phase \in Ungated \cup {"lex", "parse", "resolve", "check", "driver"}
       => stage = "entry" /\ fn = 0 /\ verdict = "none"
  /\ phase = "verify" => W!Inv /\ W!Complete

LEMMA EmitInitLemma == ASSUME NEW Trees PROVE SessionInit => EmitInv(Trees)
BY DEF SessionInit, V!Unverified, EmitInv

\* The phases that only move the tree and the artifacts along.
LEMMA EmitMovesLemma ==
  ASSUME NEW Trees, EmitInv(Trees), NEW next, NEW more, Proceed(next, more),
         phase \notin {"verify", "execute", "exited"},
         phase \in Gated \cup Ungated, next \in Ungated \cup {"parse", "resolve", "check", "driver"},
         next \in {"optimize", "optimized", "generate"} => hir' \in Trees,
         next \in {"peephole", "generated"} \/ "program" \in artifacts \/ "program" \in more
           => WellTyped(program')
  PROVE  EmitInv(Trees)'
<1>1. /\ phase' = next /\ artifacts' = artifacts \cup more
      /\ UNCHANGED <<stage, fn, verdict>>
  BY DEF Proceed, verifierVars
<1>2. "program" \in artifacts' => "program" \in artifacts \/ "program" \in more
  BY <1>1
<1>3. stage = "entry" /\ fn = 0 /\ verdict = "none"
  BY DEF EmitInv, Gated, Ungated
<1>4. (phase' \in {"peephole", "generated", "verify"} \/ "program" \in artifacts')
        => WellTyped(program')
  BY <1>1, <1>2 DEF Ungated
<1> QED BY <1>1, <1>3, <1>4 DEF EmitInv, Ungated

LEMMA EmitCompileLemma ==
  ASSUME NEW Trees, Emits(Trees), EmitInv(Trees), PipelineInv, Compile
  PROVE  EmitInv(Trees)'
<1>0. \A next, more : Deliver(more) <=> Proceed("driver", more)
  BY DEF Deliver
<1>1. CASE SourceUnreadable
  BY <1>1 DEF SourceUnreadable, Exit, sessionVars, EmitInv, Ungated
<1>2. CASE Lex \/ Parse \/ ResolveNames \/ Check
  <2>1. PICK next, more : /\ Proceed(next, more) /\ "program" \notin more
                          /\ next \in {"parse", "resolve", "check", "lower", "driver"}
    <3>1. CASE Lex
      <4>1. Proceed("driver", {"tokens"}) \/ Proceed("parse", {})
        BY <3>1 DEF Lex, Deliver
      <4> QED BY <4>1
    <3>2. CASE Parse
      <4>1. Proceed("driver", {"ast"}) \/ Proceed("resolve", {})
        BY <3>2 DEF Parse, Deliver
      <4> QED BY <4>1
    <3>3. CASE ResolveNames
      BY <3>3 DEF ResolveNames
    <3>4. CASE Check
      <4>1. Proceed("driver", Analysed) \/ Proceed("lower", Analysed)
        BY <3>4 DEF Check, Deliver
      <4> QED BY <4>1 DEF Analysed
    <3> QED BY <1>2, <3>1, <3>2, <3>3, <3>4
  <2>2. phase \in {"lex", "parse", "resolve", "check"} /\ UNCHANGED program
    BY <1>2 DEF Lex, Parse, ResolveNames, Check, FrontEnd
  <2>3. "program" \in artifacts => WellTyped(program')
    BY <2>2 DEF EmitInv
  <2> QED BY <2>1, <2>2, <2>3, EmitMovesLemma DEF Gated, Ungated
<1>3. CASE Lower \/ OptimizeRound \/ OptimizeSkipped \/ Optimized
  <2>1. phase \in {"lower", "optimize", "optimized"} /\ UNCHANGED program
    BY <1>3 DEF Lower, OptimizeRound, OptimizeSkipped, Optimized
  <2>2. hir' \in Trees
    <3>1. CASE Lower
      BY <3>1 DEF Lower, Emits
    <3>2. CASE OptimizeRound
      BY <3>2 DEF OptimizeRound, Emits, EmitInv
    <3>3. CASE OptimizeSkipped \/ Optimized
      BY <3>3 DEF OptimizeSkipped, Optimized, EmitInv
    <3> QED BY <1>3, <3>1, <3>2, <3>3
  <2>3. PICK next, more : /\ Proceed(next, more) /\ "program" \notin more
                          /\ next \in {"optimize", "optimized", "generate", "driver"}
    <3>1. CASE Lower
      <4>1. Proceed("driver", {"hir"}) \/ Proceed("optimize", {})
        BY <3>1 DEF Lower, Deliver
      <4> QED BY <4>1
    <3>2. CASE OptimizeRound
      <4>1. Proceed("optimize", {}) \/ Proceed("optimized", {})
        BY <3>2 DEF OptimizeRound
      <4> QED BY <4>1
    <3>3. CASE OptimizeSkipped
      BY <3>3 DEF OptimizeSkipped
    <3>4. CASE Optimized
      <4>1. Proceed("driver", {"opt_stats", "hir"}) \/ Proceed("generate", {"opt_stats"})
        BY <3>4 DEF Optimized, Deliver
      <4> QED BY <4>1
    <3> QED BY <1>3, <3>1, <3>2, <3>3, <3>4
  <2>4. "program" \in artifacts => WellTyped(program')
    BY <2>1 DEF EmitInv
  <2> QED BY <2>1, <2>2, <2>3, <2>4, EmitMovesLemma DEF Gated, Ungated
<1>4. CASE GenerateCode
  <2>1. phase = "generate" /\ WellTyped(program')
    BY <1>4 DEF GenerateCode, EmitInv, Emits
  <2>2. Proceed("peephole", {}) \/ Proceed("generated", {})
    BY <1>4 DEF GenerateCode
  <2> QED BY <2>1, <2>2, EmitMovesLemma DEF Gated, Ungated
<1>5. CASE PeepholeStep
  <2>1. phase = "peephole" /\ chunk \in FnIds(program) /\ Proceed("peephole", {})
        /\ program' = [program EXCEPT !.functions[chunk + 1] = PeepholeTurn(@)]
    BY <1>5 DEF PeepholeStep
  <2>2. WellTyped(program)
    BY <2>1 DEF EmitInv
  <2>3. WellTyped(program')
    BY <2>1, <2>2, WellTypedTurn
  <2> QED BY <2>1, <2>3, EmitMovesLemma DEF Gated, Ungated
<1>6. CASE PeepholeDone \/ Generated
  <2>1. phase \in {"peephole", "generated"} /\ UNCHANGED program
    BY <1>6 DEF PeepholeDone, Generated
  <2>2. Proceed("generated", {}) \/ Proceed("driver", {"hir", "program"})
    BY <1>6 DEF PeepholeDone, Generated, Deliver
  <2>3. WellTyped(program')
    BY <2>1 DEF EmitInv
  <2> QED BY <2>1, <2>2, <2>3, EmitMovesLemma DEF Gated, Ungated
<1> QED BY <1>1, <1>2, <1>3, <1>4, <1>5, <1>6 DEF Compile

\* `dump verify' starts the walk from its beginning.
LEMMA EmitDumpLemma ==
  ASSUME NEW Trees, EmitInv(Trees), DumpVerify
  PROVE  EmitInv(Trees)'
<1>1. phase = "driver" /\ command = "verify" /\ UNCHANGED sessionVars
  BY DEF DumpVerify, Driving
<1>2. CASE ~ Present
  BY <1>1, <1>2 DEF DumpVerify, Exit, sessionVars, EmitInv, Ungated
<1>3. CASE Present
  <2>1. /\ phase' = "verify" /\ UNCHANGED <<program, stage, fn, heights, work, verdict>>
        /\ typings' = [f \in FnIds(program) |-> V!NoTyping] /\ UNCHANGED artifacts
    BY <1>1, <1>3 DEF DumpVerify, sessionVars
  <2>2. "program" \in artifacts
    BY <1>1, <1>3 DEF Present, Needs, Forms, MirForms
  <2>3. WellTyped(program) /\ stage = "entry" /\ fn = 0 /\ verdict = "none"
    BY <1>1, <2>2 DEF EmitInv
  <2>4. program \in AllPrograms /\ Len(program.functions) \in Nat
    BY <2>3 DEF WellTyped, IsLoadable, IsProgram, AllPrograms
  <2>5. W!TypeOK'
    BY <2>1, <2>3, <2>4 DEF W!TypeOK, W!Stages, W!Verdicts, W!FnIds, FnIds
  <2>6. W!WalkInv'
    BY <2>1, <2>3, <2>4 DEF W!WalkInv, W!FnIds
  <2>7. W!Complete'
    BY <2>1, <2>3 DEF W!Complete, W!Errors, W!OperandErrors, W!FlowErrors
  <2> QED BY <2>1, <2>3, <2>5, <2>6, <2>7 DEF EmitInv, Ungated, W!Inv
<1> QED BY <1>2, <1>3

LEMMA EmitNextLemma ==
  ASSUME NEW Trees, Emits(Trees), EmitInv(Trees), PipelineInv, [SessionNext]_allVars
  PROVE  EmitInv(Trees)'
<1>1. CASE Compile
  BY <1>1, EmitCompileLemma
<1>2. CASE DumpVerify
  BY <1>2, EmitDumpLemma
<1>3. CASE VerifyStep
  <2>1. /\ phase = "verify" /\ phase' = "verify" /\ UNCHANGED artifacts /\ W!Next
    BY <1>3, SameStep DEF VerifyStep, Verify, processVars, sessionVars
  <2>2. UNCHANGED program
    BY <2>1, W!ProgramLemma, SameProgram
  <2>3. W!Inv' /\ W!Complete'
    BY <2>1, W!NextLemma, W!CompleteNext, SameProgram DEF EmitInv
  <2> QED BY <2>1, <2>2, <2>3 DEF EmitInv, Ungated
<1>4. CASE CheckOnly \/ Dump \/ Build \/ Run \/ Verified \/ ReportErrors \/ ExecuteStep \/ ReportRun
  <2>1. phase' \in {"execute", "exited"} /\ UNCHANGED artifacts
    BY <1>4 DEF CheckOnly, Dump, Build, Run, Verified, ReportErrors, ExecuteStep, ReportRun,
                Driving, Exit, Execute, Report, processVars, sessionVars
  <2>2. UNCHANGED program
    BY <1>4, ProgramLemma
       DEF CheckOnly, Dump, Build, Run, Verified, ReportErrors, ExecuteStep, ReportRun, Driving,
           Exit, Execute, Report
  <2> QED BY <2>1, <2>2 DEF EmitInv, Ungated
<1>5. CASE SessionOver \/ UNCHANGED allVars
  <2>1. UNCHANGED <<phase, program, stage, fn, heights, work, verdict, typings, artifacts, hir>>
    BY <1>5 DEF SessionOver, Exited, allVars, execVars, processVars, verifierVars, sessionVars
  <2>2. W!Inv /\ W!Complete => W!Inv' /\ W!Complete'
    BY <2>1, W!NextLemma, W!CompleteNext, SameProgram DEF W!vars
  <2> QED BY <2>1, <2>2 DEF EmitInv
<1> QED BY <1>1, <1>2, <1>3, <1>4, <1>5 DEF SessionNext, Drive

\* "every program the compiler itself emits must verify" (backend/verify/tests.rs:3):
\* if the code generator's output has a typing for every tree the optimizer can
\* reach, the verifier accepts the program of every session, optimized or not: no
\* turn of the peephole pass and no order of the walk turns it away.
THEOREM TypedCodeVerifies ==
  ASSUME NEW Trees, Emits(Trees)
  PROVE  SessionSpec => []EmittedVerifies
<1>1. SessionInit => EmitInv(Trees)
  BY EmitInitLemma
<1>2. EmitInv(Trees) /\ PipelineInv /\ [SessionNext]_allVars => EmitInv(Trees)'
  BY EmitNextLemma
<1>3. EmitInv(Trees) => EmittedVerifies
  <2> SUFFICES ASSUME EmitInv(Trees), phase = "verify", stage = "done", verdict # "ok" PROVE FALSE
    BY DEF EmittedVerifies
  <2>1. W!TypeOK /\ W!Complete /\ WellTyped(program)
    BY DEF EmitInv, W!Inv
  <2>2. verdict \in W!Errors
    BY <2>1 DEF W!TypeOK, W!Verdicts, W!Errors
  <2>3. PICK T : TypedBy(program, T)
    BY <2>1 DEF WellTyped
  <2>4. program.main < Len(program.functions) /\ FnIds(program) = W!FnIds(program)
        /\ Pcs(program, fn) = W!Pcs(program, fn)
    BY <2>1 DEF WellTyped, IsLoadable, IsProgram, FnIds, W!FnIds, Pcs, W!Pcs, CodeLen, W!CodeLen, Fn, W!Fn
  <2>5. fn \in FnIds(program) /\ Pcs(program, fn) # {} /\ W!NoTypingOf(program, fn)
    BY <2>1, <2>2, <2>4 DEF W!Complete
  <2>6. W!IsTyping(program, fn, T[fn])
    BY <2>3, <2>5, SameTyping DEF TypedBy
  <2> QED BY <2>5, <2>6 DEF W!NoTypingOf
<1> QED BY <1>1, <1>2, <1>3, PipelineInvHolds, PTL DEF SessionSpec

----------------------------------------------------------------------------
(* The machine that runs what was compiled.                                *)

\* There is no program, or one as it ought to be; the machine is idle, or runs the
\* program along a typing it has.
MachineInv ==
  /\ program = NoProgram \/ WellTyped(program)
  /\ phase = "execute" => WellTyped(program)
  /\ Idle \/ /\ phase \in {"execute", "exited"} /\ WellTyped(program)
             /\ TypeInv /\ Shape /\ \E T : TypedMain(T) /\ Guarded(T)

\* A step that leaves the machine alone, and the program of a machine that started.
LEMMA MachineRestsLemma ==
  ASSUME MachineInv, UNCHANGED machineVars, program' = NoProgram \/ WellTyped(program'),
         phase' = "execute" => WellTyped(program'),
         phase \in {"execute", "exited"} =>
           UNCHANGED program /\ phase' \in {"execute", "exited"}
  PROVE  MachineInv'
<1>1. Idle => Idle'
  BY DEF Idle, machineVars
<1>2. ASSUME ~ Idle
      PROVE  /\ phase' \in {"execute", "exited"} /\ WellTyped(program)'
             /\ TypeInv' /\ Shape' /\ \E T : TypedMain(T)' /\ Guarded(T)'
  <2>1. /\ phase \in {"execute", "exited"} /\ WellTyped(program)
        /\ TypeInv /\ Shape /\ \E T : TypedMain(T) /\ Guarded(T)
    BY <1>2 DEF MachineInv
  <2>2. UNCHANGED vars /\ UNCHANGED program
    BY <2>1 DEF machineVars, vars
  <2>3. TypeInv'
    BY <2>1, <2>2, TypeNextLemma
  <2>4. Shape'
    BY <2>1, <2>2 DEF Shape, FrameSet, vars
  <2>5. PICK T : TypedMain(T) /\ Guarded(T)
    BY <2>1
  <2>6. UNCHANGED <<program, status, stack, frames>>
    BY <2>2 DEF vars
  <2>7. Guarded(T)'
    BY <2>5, <2>6, RestLemma
  <2>8. TypedMain(T)'
    BY <2>5, <2>6 DEF TypedMain
  <2> QED BY <2>1, <2>2, <2>3, <2>4, <2>7, <2>8
<1> QED BY <1>1, <1>2 DEF MachineInv

\* A machine that starts, or goes on.
LEMMA MachineRunsLemma ==
  ASSUME MachineInv, ExecuteStep
  PROVE  MachineInv' /\ UNCHANGED program /\ UNCHANGED phase /\ CallersUntouched
<1>1. /\ phase = "execute" /\ UNCHANGED phase /\ (Start \/ Step)
  BY DEF ExecuteStep, Execute, processVars
<1>2. UNCHANGED program
  BY <1>1, ProgramLemma
<1>3. WellTyped(program)
  BY <1>1 DEF MachineInv
<1>4. IsLoadable(program) /\ IsProgram(program)
  BY <1>3 DEF WellTyped, IsLoadable
<1>5. TypeInv /\ Shape /\ \E T : TypedMain(T) /\ Guarded(T)
  <2>1. CASE Idle
    <3>1. TypeInv
      BY <1>4, <2>1, IdleTypeLemma
    <3>2. Shape
      BY <1>4, <2>1, EmptyLemma DEF Idle, Shape
    <3>3. PICK T : TypedBy(program, T)
      BY <1>3 DEF WellTyped
    <3>4. TypedMain(T)
      BY <1>3, <3>3 DEF WellTyped, TypedMain
    <3>5. Guarded(T)
      BY <2>1 DEF Idle, Guarded, Discipline, Tight, OnlyStuckFails, StructureErrors
    <3> QED BY <3>1, <3>2, <3>4, <3>5
  <2>2. CASE ~ Idle
    BY <2>2 DEF MachineInv
  <2> QED BY <2>1, <2>2
<1>6. PICK T : TypedMain(T) /\ Guarded(T)
  BY <1>5
<1>7. TypeInv'
  BY <1>1, <1>5, TypeNextLemma DEF Next
<1>8. Keeps(T)
  BY <1>1, <1>5, <1>6, StartLemma, StepLemma
<1>9. TypedMain(T)'
  BY <1>2, <1>6 DEF TypedMain
<1> QED BY <1>1, <1>2, <1>3, <1>7, <1>8, <1>9 DEF MachineInv, Keeps

LEMMA MachineInitLemma == SessionInit => MachineInv
BY DEF SessionInit, MachineInv

\* Compiling leaves the machine alone, and what it hands on is as it ought to be.
LEMMA MachineCompileLemma ==
  ASSUME NEW Trees, EmitInv(Trees), EmitInv(Trees)', MachineInv, Compile
  PROVE  MachineInv'
<1>1. CASE SourceUnreadable
  <2>1. phase = "lex" /\ phase' = "exited" /\ UNCHANGED program /\ UNCHANGED machineVars
    BY <1>1 DEF SourceUnreadable, Exit
  <2> QED BY <2>1, MachineRestsLemma DEF MachineInv
<1>2. CASE Lex \/ Parse \/ ResolveNames \/ Check \/ Lower \/ OptimizeRound \/ OptimizeSkipped
             \/ Optimized \/ PeepholeDone \/ Generated
  <2>1. /\ phase \notin {"execute", "exited"} /\ phase' # "execute"
        /\ UNCHANGED program /\ UNCHANGED machineVars
    <3>1. CASE Lex \/ Parse \/ ResolveNames \/ Check
      BY <3>1 DEF Lex, Parse, ResolveNames, Check, FrontEnd, Deliver, Proceed
    <3>2. CASE Lower \/ OptimizeRound \/ OptimizeSkipped \/ Optimized
      BY <3>2 DEF Lower, OptimizeRound, OptimizeSkipped, Optimized, Deliver, Proceed
    <3>3. CASE PeepholeDone \/ Generated
      BY <3>3 DEF PeepholeDone, Generated, Deliver, Proceed
    <3> QED BY <1>2, <3>1, <3>2, <3>3
  <2> QED BY <2>1, MachineRestsLemma DEF MachineInv
<1>3. CASE GenerateCode \/ PeepholeStep
  <2>1. /\ phase \in {"generate", "peephole"} /\ phase' \in {"peephole", "generated"}
        /\ UNCHANGED machineVars
    BY <1>3 DEF GenerateCode, PeepholeStep, Proceed
  <2>2. WellTyped(program')
    BY <2>1 DEF EmitInv
  <2> QED BY <2>1, <2>2, MachineRestsLemma
<1> QED BY <1>1, <1>2, <1>3 DEF Compile

\* The driver starts the machine on the program it was handed, and on no other.
LEMMA MachineNextLemma ==
  ASSUME NEW Trees, EmitInv(Trees), EmitInv(Trees)', MachineInv, [SessionNext]_allVars
  PROVE  MachineInv'
<1>1. CASE Compile
  BY <1>1, MachineCompileLemma
<1>2. CASE Run /\ Present
  <2>1. /\ phase = "driver" /\ command = "run" /\ phase' = "execute"
        /\ UNCHANGED program /\ UNCHANGED machineVars
    BY <1>2 DEF Run, Driving
  <2>2. WellTyped(program)
    BY <1>2, <2>1 DEF Present, Needs, Forms, MirForms, EmitInv
  <2> QED BY <2>1, <2>2, MachineRestsLemma
<1>3. CASE ExecuteStep
  BY <1>3, MachineRunsLemma
<1>4. CASE VerifyStep
  <2>1. phase = "verify" /\ phase' = "verify" /\ W!Next /\ UNCHANGED machineVars
    BY <1>4, SameStep DEF VerifyStep, Verify, processVars
  <2>2. UNCHANGED program
    BY <2>1, W!ProgramLemma, SameProgram
  <2> QED BY <2>1, <2>2, MachineRestsLemma DEF MachineInv
<1>5. CASE CheckOnly \/ Dump \/ Build \/ DumpVerify \/ Verified \/ ReportErrors \/ ReportRun
             \/ (Run /\ ~ Present)
  <2>1. /\ phase' \in {"verify", "exited"} /\ phase \in {"driver", "verify", "execute"}
        /\ phase = "execute" => phase' = "exited"
        /\ UNCHANGED program /\ UNCHANGED machineVars
    BY <1>5 DEF CheckOnly, Dump, Build, DumpVerify, Run, Verified, ReportErrors, ReportRun,
                Report, Driving, Exit
  <2> QED BY <2>1, MachineRestsLemma DEF MachineInv
<1>6. CASE SessionOver \/ UNCHANGED allVars
  <2>1. UNCHANGED <<phase, program>> /\ UNCHANGED machineVars
    BY <1>6 DEF SessionOver, Exited, allVars, execVars, processVars, machineVars
  <2> QED BY <2>1, MachineRestsLemma DEF MachineInv
<1> QED BY <1>1, <1>2, <1>3, <1>4, <1>5, <1>6 DEF SessionNext, Drive

\* `run' does not verify: it trusts the compiler.  It may: a program that leaves the
\* code generator with a typing never meets one of the machine's structural errors,
\* peephole turns or not, and no callee of it reaches below its own frame.
THEOREM CompiledProgramsRunSafely ==
  ASSUME NEW Trees, Emits(Trees)
  PROVE  SessionSpec => []NoStructureError /\ VerifiedCallersUntouched
<1> DEFINE I == EmitInv(Trees) /\ PipelineInv /\ MachineInv
           Spared == (phase = "execute" /\ phase' = "execute") => CallersUntouched
<1>1. SessionInit => I
  BY EmitInitLemma, PipelineInitLemma, MachineInitLemma
<1>2. I /\ [SessionNext]_allVars => I'
  BY EmitNextLemma, PipelineNextLemma, MachineNextLemma
<1>3. I => NoStructureError
  <2> SUFFICES ASSUME MachineInv PROVE NoStructureError
    OBVIOUS
  <2>1. CASE Idle
    BY <2>1 DEF Idle, NoStructureError, StructureErrors
  <2>2. CASE ~ Idle
    <3>1. Shape /\ NoEmptyCode
      BY <2>2 DEF MachineInv, WellTyped, NoEmptyCode
    <3> QED BY <2>2, <3>1, NotStuckLemma DEF MachineInv
  <2> QED BY <2>1, <2>2
<1>4. I /\ [SessionNext]_allVars => [Spared]_execVars
  <2> SUFFICES ASSUME MachineInv, [SessionNext]_allVars, phase = "execute", phase' = "execute",
                      execVars' # execVars
               PROVE  CallersUntouched
    OBVIOUS
  <2>1. CASE ExecuteStep
    BY <2>1, MachineRunsLemma
  <2>2. CASE Compile \/ ReportErrors \/ CheckOnly \/ Dump \/ Build \/ DumpVerify \/ VerifyStep
             \/ Verified \/ Run
    BY <2>2 DEF Compile, SourceUnreadable, Lex, Parse, ResolveNames, Check, Lower, OptimizeRound,
                OptimizeSkipped, Optimized, GenerateCode, PeepholeStep, PeepholeDone, Generated,
                ReportErrors, CheckOnly, Dump, Build, DumpVerify, VerifyStep, Verify, Verified,
                Run, Driving
  <2>3. CASE ReportRun \/ SessionOver
    BY <2>3 DEF ReportRun, Report, Exit, SessionOver, Exited
  <2>4. CASE UNCHANGED allVars
    BY <2>4 DEF allVars
  <2> QED BY <2>1, <2>2, <2>3, <2>4 DEF SessionNext, Drive
<1> QED BY <1>1, <1>2, <1>3, <1>4, PTL DEF SessionSpec, VerifiedCallersUntouched

----------------------------------------------------------------------------
(* The types of a session.                                                 *)

\* The counters stay in their ranges; the peephole pass has not begun before there
\* is code.
CountersInv ==
  /\ optimizing \in BOOLEAN /\ artifacts \subseteq ArtifactNames
  /\ rounds \in 0 .. MaxIterations /\ chunk \in 0 .. Len(program.functions)
  /\ phase \in {"lex", "parse", "resolve", "check", "lower", "optimize", "optimized", "generate"}
       => chunk = 0
  /\ verdict \in V!Verdicts

LEMMA CountersInitLemma == SessionInit => CountersInv
<1> SUFFICES ASSUME SessionInit PROVE CountersInv
  OBVIOUS
<1>1. program.functions = <<>> /\ Len(<<>>) = 0
  BY EmptyLemma DEF SessionInit, NoProgram
<1>2. verdict \in V!Verdicts
  BY DEF SessionInit, V!Unverified, V!Verdicts
<1> QED BY <1>1, <1>2, MaxIterationsAssumption DEF SessionInit, CountersInv

\* A phase of the compiler that counts as it should.
LEMMA CountersProceedLemma ==
  ASSUME CountersInv, NEW next, NEW more, Proceed(next, more), more \subseteq ArtifactNames,
         rounds' \in 0 .. MaxIterations, chunk' \in 0 .. Len(program'.functions),
         next \in {"parse", "resolve", "check", "lower", "optimize", "optimized", "generate"}
           => chunk' = 0,
         next # "lex"
  PROVE  CountersInv'
<1>1. /\ phase' = next /\ artifacts' = artifacts \cup more /\ UNCHANGED <<optimizing, verdict>>
  BY DEF Proceed, verifierVars
<1>2. verdict' \in V!Verdicts'
  BY <1>1 DEF CountersInv, V!Verdicts
<1> QED BY <1>1, <1>2 DEF CountersInv

LEMMA CountersCompileLemma ==
  ASSUME NEW Trees, EmitInv(Trees), EmitInv(Trees)', CountersInv, Compile
  PROVE  CountersInv'
<1>1. CASE SourceUnreadable
  <2>1. /\ phase' = "exited" /\ UNCHANGED <<program, verdict, optimizing, artifacts, rounds, chunk>>
    BY <1>1 DEF SourceUnreadable, Exit, verifierVars, sessionVars
  <2> QED BY <2>1 DEF CountersInv, V!Verdicts
<1>2. CASE Lex \/ Parse \/ ResolveNames \/ Check
  <2>1. /\ chunk = 0 /\ UNCHANGED <<program, rounds, chunk>>
    BY <1>2 DEF Lex, Parse, ResolveNames, Check, FrontEnd, CountersInv
  <2>2. PICK next, more : /\ Proceed(next, more) /\ more \subseteq ArtifactNames /\ next # "lex"
    <3>1. CASE Lex
      <4>1. Proceed("driver", {"tokens"}) \/ Proceed("parse", {})
        BY <3>1 DEF Lex, Deliver
      <4> QED BY <4>1 DEF ArtifactNames
    <3>2. CASE Parse
      <4>1. Proceed("driver", {"ast"}) \/ Proceed("resolve", {})
        BY <3>2 DEF Parse, Deliver
      <4> QED BY <4>1 DEF ArtifactNames, Analysed
    <3>3. CASE ResolveNames
      BY <3>3 DEF ResolveNames
    <3>4. CASE Check
      <4>1. Proceed("driver", Analysed) \/ Proceed("lower", Analysed)
        BY <3>4 DEF Check, Deliver
      <4> QED BY <4>1 DEF ArtifactNames
    <3> QED BY <1>2, <3>1, <3>2, <3>3, <3>4
  <2>3. rounds' \in 0 .. MaxIterations /\ chunk' \in 0 .. Len(program'.functions)
    BY <2>1 DEF CountersInv
  <2> QED BY <2>1, <2>2, <2>3, CountersProceedLemma
<1>3. CASE Lower \/ OptimizeRound \/ OptimizeSkipped \/ Optimized
  <2>1. /\ chunk = 0 /\ UNCHANGED <<program, chunk>>
    BY <1>3 DEF Lower, OptimizeRound, OptimizeSkipped, Optimized, CountersInv
  <2>2. PICK next, more : /\ Proceed(next, more) /\ more \subseteq ArtifactNames /\ next # "lex"
    <3>1. CASE Lower
      <4>1. Proceed("driver", {"hir"}) \/ Proceed("optimize", {})
        BY <3>1 DEF Lower, Deliver
      <4> QED BY <4>1 DEF ArtifactNames
    <3>2. CASE OptimizeRound
      <4>1. Proceed("optimize", {}) \/ Proceed("optimized", {})
        BY <3>2 DEF OptimizeRound
      <4> QED BY <4>1
    <3>3. CASE OptimizeSkipped
      BY <3>3 DEF OptimizeSkipped
    <3>4. CASE Optimized
      <4>1. Proceed("driver", {"opt_stats", "hir"}) \/ Proceed("generate", {"opt_stats"})
        BY <3>4 DEF Optimized, Deliver
      <4> QED BY <4>1 DEF ArtifactNames
    <3> QED BY <1>3, <3>1, <3>2, <3>3, <3>4
  <2>3. rounds' \in 0 .. MaxIterations
    <3>1. CASE OptimizeRound
      BY <3>1, MaxIterationsAssumption DEF OptimizeRound, CountersInv
    <3>2. CASE Lower \/ OptimizeSkipped \/ Optimized
      BY <3>2 DEF Lower, OptimizeSkipped, Optimized, CountersInv
    <3> QED BY <1>3, <3>1, <3>2
  <2>4. chunk' \in 0 .. Len(program'.functions)
    BY <2>1 DEF CountersInv
  <2> QED BY <2>1, <2>2, <2>3, <2>4, CountersProceedLemma
<1>4. CASE GenerateCode
  <2>1. /\ phase = "generate" /\ UNCHANGED <<rounds, chunk>>
        /\ Proceed("peephole", {}) \/ Proceed("generated", {})
    BY <1>4 DEF GenerateCode
  <2>2. phase' \in {"peephole", "generated"}
    BY <2>1 DEF Proceed
  <2>3. Len(program'.functions) \in Nat
    BY <2>2, LenLemma DEF EmitInv, WellTyped, IsLoadable, IsProgram
  <2>4. chunk' \in 0 .. Len(program'.functions) /\ rounds' \in 0 .. MaxIterations
    BY <2>1, <2>3 DEF CountersInv
  <2> QED BY <2>1, <2>4, CountersProceedLemma
<1>5. CASE PeepholeStep
  <2>1. /\ phase = "peephole" /\ chunk \in FnIds(program) /\ Proceed("peephole", {})
        /\ UNCHANGED rounds /\ chunk' \in {chunk, chunk + 1}
        /\ program' = [program EXCEPT !.functions[chunk + 1] = PeepholeTurn(@)]
    BY <1>5 DEF PeepholeStep
  <2>2. PICK q : q = [program EXCEPT !.functions[chunk + 1] = PeepholeTurn(@)]
    OBVIOUS
  <2>3. WellTyped(program) /\ WellTyped(q) /\ FnIds(q) = FnIds(program)
    BY <2>1, <2>2, WellTypedTurn DEF EmitInv
  <2>4. Len(program.functions) \in Nat /\ Len(q.functions) \in Nat
    BY <2>3, LenLemma DEF WellTyped, IsLoadable, IsProgram
  <2>5. Len(q.functions) = Len(program.functions)
    BY <2>3, <2>4 DEF FnIds
  <2>6. chunk' \in 0 .. Len(program'.functions) /\ rounds' \in 0 .. MaxIterations
    BY <2>1, <2>2, <2>4, <2>5 DEF FnIds, CountersInv
  <2> QED BY <2>1, <2>6, CountersProceedLemma
<1>6. CASE PeepholeDone \/ Generated
  <2>1. /\ UNCHANGED <<program, rounds, chunk>>
        /\ Proceed("generated", {}) \/ Proceed("driver", {"hir", "program"})
    BY <1>6 DEF PeepholeDone, Generated, Deliver
  <2>2. chunk' \in 0 .. Len(program'.functions) /\ rounds' \in 0 .. MaxIterations
    BY <2>1 DEF CountersInv
  <2> QED BY <2>1, <2>2, CountersProceedLemma DEF ArtifactNames
<1> QED BY <1>1, <1>2, <1>3, <1>4, <1>5, <1>6 DEF Compile

LEMMA CountersNextLemma ==
  ASSUME NEW Trees, EmitInv(Trees), EmitInv(Trees)', MachineInv, CountersInv,
         [SessionNext]_allVars
  PROVE  CountersInv'
<1>1. CASE Compile
  BY <1>1, CountersCompileLemma
<1>2. CASE VerifyStep
  <2>1. /\ phase = "verify" /\ phase' = "verify" /\ W!Next
        /\ UNCHANGED <<optimizing, artifacts, rounds, chunk>>
    BY <1>2, SameStep DEF VerifyStep, Verify, processVars, sessionVars
  <2>2. UNCHANGED program
    BY <2>1, W!ProgramLemma, SameProgram
  <2>3. verdict' \in W!Verdicts'
    BY <2>1 DEF EmitInv, W!Inv, W!TypeOK
  <2>4. verdict' \in V!Verdicts'
    BY <2>3 DEF W!Verdicts, V!Verdicts, W!OperandErrors, V!OperandErrors, W!FlowErrors, V!FlowErrors
  <2> QED BY <2>1, <2>2, <2>4 DEF CountersInv
<1>3. CASE \/ ReportErrors \/ CheckOnly \/ Dump \/ Build \/ DumpVerify \/ Verified
           \/ Run \/ ExecuteStep \/ ReportRun \/ SessionOver \/ UNCHANGED allVars
  <2>1. UNCHANGED <<verdict, optimizing, artifacts, rounds, chunk>>
        /\ phase' \in {"verify", "execute", "exited"} \cup {phase}
    <3>1. CASE ReportErrors \/ CheckOnly \/ Dump \/ Build
      BY <3>1 DEF ReportErrors, CheckOnly, Dump, Build, Driving, Exit, verifierVars, sessionVars
    <3>2. CASE DumpVerify \/ Verified
      BY <3>2 DEF DumpVerify, Verified, Driving, Exit, verifierVars, sessionVars
    <3>3. CASE Run \/ ExecuteStep \/ ReportRun
      BY <3>3 DEF Run, ExecuteStep, Execute, ReportRun, Report, Driving, Exit, verifierVars,
                  processVars, sessionVars
    <3>4. CASE SessionOver \/ UNCHANGED allVars
      BY <3>4 DEF SessionOver, Exited, allVars, execVars, verifierVars, processVars, sessionVars
    <3> QED BY <1>3, <3>1, <3>2, <3>3, <3>4
  <2>2. UNCHANGED program
    <3>1. CASE ExecuteStep
      BY <3>1, MachineRunsLemma
    <3>2. CASE ~ ExecuteStep
      BY <1>3, <3>2
         DEF ReportErrors, CheckOnly, Dump, Build, DumpVerify, Verified, Run, ReportRun, Report,
             Driving, Exit, SessionOver, Exited, allVars, execVars
    <3> QED BY <3>1, <3>2
  <2> QED BY <2>1, <2>2 DEF CountersInv, V!Verdicts
<1> QED BY <1>1, <1>2, <1>3 DEF SessionNext, Drive

\* The types of a session: from code generation on the program is well formed at every
\* turn of the peephole pass and no literal is wider than an integer; the optimizer keeps
\* to its iterations and the peephole pass to the program's functions.
THEOREM SessionTypesHold ==
  ASSUME NEW Trees, Emits(Trees)
  PROVE  SessionSpec => []SessionTypeOK
<1> DEFINE I == EmitInv(Trees) /\ PipelineInv /\ MachineInv /\ CountersInv
<1>1. SessionInit => I
  BY EmitInitLemma, PipelineInitLemma, MachineInitLemma, CountersInitLemma
<1>2. I /\ [SessionNext]_allVars => I'
  BY EmitNextLemma, PipelineNextLemma, MachineNextLemma, CountersNextLemma
<1>3. I => SessionTypeOK
  <2> SUFFICES ASSUME PipelineInv, MachineInv, CountersInv PROVE SessionTypeOK
    OBVIOUS
  <2>1. phase \in CompilePhases \cup {"driver", "verify", "execute", "exited"}
    BY DEF PipelineInv, Gated, Ungated, CompilePhases
  <2>2. status \in Statuses
    BY DEF MachineInv, Idle, TypeInv, Statuses
  <2>3. CASE program = NoProgram
    <3>1. program.functions = <<>> /\ Len(<<>>) = 0 /\ program.main = 0
      BY <2>3, EmptyLemma DEF NoProgram
    <3>2. FnIds(program) = {}
      BY <3>1 DEF FnIds
    <3>3. IsProgram(program)
      BY <2>3, <3>1, EmptyLemma DEF NoProgram, IsProgram
    <3> QED BY <2>1, <2>2, <3>2, <3>3 DEF SessionTypeOK, PipelineInv, CountersInv
  <2>4. CASE WellTyped(program)
    BY <2>1, <2>2, <2>4 DEF WellTyped, IsLoadable, SessionTypeOK, PipelineInv, CountersInv
  <2> QED BY <2>3, <2>4 DEF MachineInv
<1> QED BY <1>1, <1>2, <1>3, PTL DEF SessionSpec

----------------------------------------------------------------------------
(* The file that `build' leaves.                                           *)

\* Only `run' comes to the machine and only `dump verify' to the walk; `build' ends
\* well with the text of the program it was handed.
BuiltInv ==
  /\ phase = "verify" => command = "verify"
  /\ phase = "execute" => command = "run"
  /\ phase = "exited" /\ command = "build" /\ exit = 0
       => "program" \in artifacts /\ terminal = ToText(program)

LEMMA BuiltNextLemma ==
  ASSUME BuiltInv, PipelineInv, MachineInv, [SessionNext]_allVars
  PROVE  BuiltInv'
<1>1. CASE Compile
  <2>1. /\ UNCHANGED command /\ phase' \notin {"verify", "execute"}
        /\ phase' = "exited" => exit' = 2
    <3>1. CASE SourceUnreadable
      BY <3>1 DEF SourceUnreadable, Exit, sessionVars
    <3>2. CASE Lex \/ Parse \/ ResolveNames \/ Check
      BY <3>2 DEF Lex, Parse, ResolveNames, Check, Deliver, Proceed
    <3>3. CASE Lower \/ OptimizeRound \/ OptimizeSkipped \/ Optimized
      BY <3>3 DEF Lower, OptimizeRound, OptimizeSkipped, Optimized, Deliver, Proceed
    <3>4. CASE GenerateCode \/ PeepholeStep \/ PeepholeDone \/ Generated
      BY <3>4 DEF GenerateCode, PeepholeStep, PeepholeDone, Generated, Deliver, Proceed
    <3> QED BY <1>1, <3>1, <3>2, <3>3, <3>4 DEF Compile
  <2> QED BY <2>1 DEF BuiltInv
<1>2. CASE Build
  <2>1. /\ phase' = "exited" /\ UNCHANGED <<command, artifacts, program>>
        /\ exit' = 0 => "program" \in artifacts /\ terminal' = ToText(program)
    <3>1. command = "build" /\ UNCHANGED sessionVars
      BY <1>2 DEF Build, Driving
    <3>2. CASE ~ Present
      BY <1>2, <3>1, <3>2 DEF Build, Exit, sessionVars
    <3>3. CASE Present
      <4>1. "program" \in artifacts
        BY <3>1, <3>3 DEF Present, Needs, Forms, MirForms
      <4>2. Exit(0, ToText(program)) \/ Exit(2, <<>>)
        BY <1>2, <3>3 DEF Build
      <4> QED BY <3>1, <4>1, <4>2 DEF Exit, sessionVars
    <3> QED BY <3>2, <3>3
  <2> QED BY <2>1 DEF BuiltInv
<1>3. CASE CheckOnly \/ Dump \/ DumpVerify \/ Run
  <2>1. command \in Commands \ {"build"} /\ UNCHANGED command
    BY <1>3 DEF CheckOnly, Dump, DumpVerify, Run, Driving, sessionVars, PipelineInv, Commands,
                Forms, MirForms
  <2>2. phase' = "verify" => command = "verify"
    BY <1>3 DEF CheckOnly, Dump, DumpVerify, Run, Driving, Exit
  <2>3. phase' = "execute" => command = "run"
    BY <1>3 DEF CheckOnly, Dump, DumpVerify, Run, Driving, Exit
  <2> QED BY <2>1, <2>2, <2>3 DEF BuiltInv
<1>4. CASE ReportErrors
  BY <1>4 DEF ReportErrors, Exit, sessionVars, BuiltInv
<1>5. CASE VerifyStep \/ ExecuteStep
  BY <1>5 DEF VerifyStep, Verify, ExecuteStep, Execute, processVars, sessionVars, BuiltInv
<1>6. CASE Verified \/ ReportRun
  <2>1. command \in {"verify", "run"} /\ UNCHANGED command /\ phase' = "exited"
    BY <1>6 DEF Verified, ReportRun, Report, Exit, sessionVars, BuiltInv
  <2> QED BY <2>1 DEF BuiltInv
<1>7. CASE SessionOver \/ UNCHANGED allVars
  BY <1>7 DEF SessionOver, Exited, allVars, execVars, processVars, machineVars, sessionVars, BuiltInv
<1> QED BY <1>1, <1>2, <1>3, <1>4, <1>5, <1>6, <1>7 DEF SessionNext, Drive

\* Such a program is one that a file can hold, and hold without loss.
LEMMA WellTypedObject ==
  ASSUME NEW p, WellTyped(p)
  PROVE  IsObject(p) /\ HasCode(p)
<1>1. PICK fs : fs = p.functions
  OBVIOUS
<1>2. PICK n \in Nat : n = Len(fs)
  BY <1>1 DEF WellTyped, IsLoadable, IsProgram
<1>3. p.main \in Nat /\ fs \in Seq(Chunks)
  BY <1>1 DEF WellTyped, IsLoadable, IsProgram
<1>4. ASSUME NEW k \in 1 .. n PROVE IsFunction(fs[k]) /\ Len(fs[k].code) # 0
  <2>1. k - 1 \in FnIds(p) /\ Fn(p, k - 1) = fs[k] /\ fs[k] \in Chunks
    <3>1. k - 1 \in 0 .. n - 1 /\ (k - 1) + 1 = k
      BY <1>2
    <3> QED BY <1>1, <1>2, <1>3, <3>1 DEF FnIds, Fn
  <2>2. PICK c, f : c = fs[k] /\ f = k - 1
    OBVIOUS
  <2>3. PICK l \in Nat : l = Len(c.code) /\ DOMAIN c.code = 1 .. l
    BY <2>1, <2>2 DEF Chunks
  <2>4. Pcs(p, f) = 0 .. l - 1
    BY <2>1, <2>2, <2>3 DEF Pcs, CodeLen
  <2>5. l # 0
    BY <2>1, <2>2, <2>4 DEF WellTyped
  <2>6. ASSUME NEW i \in 1 .. l PROVE IsInstruction(c.code[i])
    <3>1. i - 1 \in Pcs(p, f) /\ (i - 1) + 1 = i
      BY <2>3, <2>4
    <3>2. OpAt(p, f, i - 1) = c.code[i]
      BY <2>1, <2>2, <3>1 DEF OpAt
    <3> QED BY <2>1, <2>2, <3>1, <3>2 DEF WellTyped
  <2> QED BY <2>1, <2>2, <2>3, <2>5, <2>6 DEF IsFunction
<1> QED BY <1>1, <1>2, <1>3, <1>4 DEF IsObject, HasCode

\* "exact inverses" (backend/object.rs:9-10), for the file of every session: what `build'
\* writes reads back as the program, and a file that lost its end, lost a line or has
\* one twice is refused, or gives the first functions of the program as they were.
THEOREM BuiltFilesTell ==
  ASSUME NEW Trees, Emits(Trees)
  PROVE  SessionSpec => []ObjectFilesTell
<1> DEFINE I == EmitInv(Trees) /\ PipelineInv /\ MachineInv /\ BuiltInv
<1>1. SessionInit => I
  <2>1. SessionInit => BuiltInv
    BY DEF SessionInit, BuiltInv
  <2> QED BY <2>1, EmitInitLemma, PipelineInitLemma, MachineInitLemma
<1>2. I /\ [SessionNext]_allVars => I'
  BY EmitNextLemma, PipelineNextLemma, MachineNextLemma, BuiltNextLemma
<1>3. I => ObjectFilesTell
  <2> SUFFICES ASSUME EmitInv(Trees), BuiltInv, phase = "exited", command = "build", exit = 0
               PROVE  ObjectFilesTell
    BY DEF ObjectFilesTell
  <2>1. WellTyped(program) /\ terminal = ToText(program)
    BY DEF EmitInv, BuiltInv
  <2>2. IsObject(program) /\ HasCode(program)
    BY <2>1, WellTypedObject
  <2>3. PICK fs, main : fs = program.functions /\ main = program.main
    OBVIOUS
  <2>4. PICK r : r = FromText(terminal)
    OBVIOUS
  <2>5. r = [ok |-> TRUE, functions |-> fs, main |-> main]
    BY <2>1, <2>2, <2>3, <2>4, ObjectFilesRoundTrip
  <2>6. r.ok /\ r.main = main /\ r.functions = fs
    BY <2>5
  <2>7. r.functions = SubSeq(fs, 1, Len(r.functions))
    BY <2>2, <2>3, <2>6, SubSeqFull DEF IsObject
  <2>8. \A lines \in Damaged(terminal) : FromText(lines).ok => Intact(FromText(lines), program)
    BY <2>1, <2>2, DamageIsNoticed
  <2> QED BY <2>3, <2>4, <2>6, <2>7, <2>8 DEF ObjectFilesTell, Intact
<1> QED BY <1>1, <1>2, <1>3, PTL DEF SessionSpec
=============================================================================
