------------------------------- MODULE Session -------------------------------
(***************************************************************************)
(* One invocation of `lumenc' on a source file: the pipeline of session.rs *)
(* (Session::compile) and the driver of main.rs that asks for a stage and  *)
(* uses the artifacts it gets back.                                        *)
(*                                                                         *)
(* The phases before lowering are abstracted to what they hand on: any of  *)
(* them may report an error; without one, lowering yields some well-typed  *)
(* program of Corpus.  What a tree means, and what the optimizer and the   *)
(* code generator make of it, are parameters: the runs give them Meaning,  *)
(* Round and Generate, and the theorems hold whatever they are.            *)
(***************************************************************************)
EXTENDS Exec, Peephole, Object

CONSTANTS Asked,          \* the commands the user may give
          Corpus,         \* the programs lowering may yield
          MaxIterations,  \* OptOptions::max_iterations
          MeaningOf(_),   \* what a tree means
          RoundOf(_),     \* an iteration of opt::optimize
          CodeOf(_)       \* codegen::generate

ASSUME MaxIterationsAssumption == MaxIterations \in Nat

VARIABLES
  command,     \* what the user asked for: a command, or the form to dump
  optimizing,  \* OptOptions::enabled, -O1
  errors,      \* Diagnostics::has_errors
  artifacts,   \* the artifacts that are present, by name
  hir,         \* the program between lowering and code generation
  rounds,      \* iterations of the optimizer
  chunk,       \* the function the peephole pass is at
  meaning      \* history: what the program meant when it was lowered

sessionVars == <<command, optimizing, errors, artifacts, hir, rounds, chunk, meaning>>
allVars     == <<execVars, sessionVars>>

NoHir     == [functions |-> <<>>, main |-> 0]
NoProgram == [functions |-> <<>>, main |-> 0]
NoMeaning == [status |-> "none", stdout |-> <<>>]

MirForms == {"mir", "cfg", "c"}
Forms    == {"tokens", "ast", "hir", "hir-opt", "bytecode", "verify"} \cup MirForms
Commands == {"run", "check", "build", "fmt"} \cup Forms

ASSUME AskedAssumption == Asked \subseteq Commands

\* The stage the driver lets the session stop after.
StopAfter(c) ==
  IF c \in {"run", "check", "build"} THEN "bytecode" ELSE IF c = "fmt" THEN "ast" ELSE c

SessionInit ==
  /\ program = NoProgram /\ Idle /\ V!Unverified
  /\ phase = "lex" /\ exit = NoExit /\ terminal = <<>>
  /\ command \in Asked /\ optimizing \in BOOLEAN
  /\ errors = FALSE /\ artifacts = {}
  /\ hir = NoHir /\ rounds = 0 /\ chunk = 0 /\ meaning = NoMeaning

----------------------------------------------------------------------------
(* Session::compile.                                                       *)

\* The phase goes on to `next' with more artifacts, or compile returns.
Proceed(next, more) ==
  /\ phase' = next /\ artifacts' = artifacts \cup more
  /\ UNCHANGED <<verifierVars, machineVars, exit, terminal, command, optimizing>>
Deliver(more) == Proceed("driver", more)

\* A phase of the front-end may add errors to the ones there are.
MayReport == errors' \in {errors, TRUE}
FrontEnd  == UNCHANGED <<program, hir, rounds, chunk, meaning>>

SourceUnreadable == phase = "lex" /\ Exit(2, <<>>) /\ UNCHANGED sessionVars

Lex ==
  /\ phase = "lex" /\ MayReport /\ FrontEnd
  /\ IF StopAfter(command) = "tokens" THEN Deliver({"tokens"}) ELSE Proceed("parse", {})

Parse ==
  /\ phase = "parse" /\ MayReport /\ FrontEnd
  /\ IF StopAfter(command) = "ast" THEN Deliver({"ast"}) ELSE Proceed("resolve", {})

ResolveNames ==
  /\ phase = "resolve" /\ MayReport /\ FrontEnd
  /\ Proceed("check", {})

Analysed == {"ast", "resolution", "typeck"}

\* Faulty variant: only the errors of the type checker stop the pipeline.
CheckOwnErrors ==
  /\ phase = "check" /\ MayReport /\ FrontEnd
  /\ IF errors' # errors THEN Deliver(Analysed) ELSE Proceed("lower", Analysed)

\* The type checker runs whatever the resolver found; lowering only if nothing did.
Check ==
  /\ phase = "check" /\ MayReport /\ FrontEnd
  /\ IF errors' THEN Deliver(Analysed) ELSE Proceed("lower", Analysed)

Lower ==
  /\ phase = "lower"
  /\ \E h \in Corpus : hir' = h /\ meaning' = MeaningOf(h)
  /\ IF StopAfter(command) = "hir" THEN Deliver({"hir"}) ELSE Proceed("optimize", {})
  /\ UNCHANGED <<program, errors, rounds, chunk>>

\* One iteration; the last is one that changed nothing.
OptimizeRound ==
  /\ phase = "optimize" /\ optimizing /\ rounds < MaxIterations
  /\ hir' = RoundOf(hir) /\ rounds' = rounds + 1
  /\ Proceed(IF hir' = hir THEN "optimized" ELSE "optimize", {})
  /\ UNCHANGED <<program, errors, chunk, meaning>>

OptimizeSkipped ==
  /\ phase = "optimize" /\ (~ optimizing \/ rounds = MaxIterations)
  /\ Proceed("optimized", {})
  /\ UNCHANGED <<program, errors, hir, rounds, chunk, meaning>>

\* Faulty variant: the tree is not handed over.
OptimizedNoHir ==
  /\ phase = "optimized"
  /\ IF StopAfter(command) \in {"hir-opt"} \cup MirForms THEN Deliver({"opt_stats"})
     ELSE Proceed("generate", {"opt_stats"})
  /\ UNCHANGED <<program, errors, hir, rounds, chunk, meaning>>

Optimized ==
  /\ phase = "optimized"
  /\ IF StopAfter(command) \in {"hir-opt"} \cup MirForms THEN Deliver({"opt_stats", "hir"})
     ELSE Proceed("generate", {"opt_stats"})
  /\ UNCHANGED <<program, errors, hir, rounds, chunk, meaning>>

GenerateCode ==
  /\ phase = "generate"
  /\ program' = CodeOf(hir)
  /\ Proceed(IF optimizing THEN "peephole" ELSE "generated", {})
  /\ UNCHANGED <<errors, hir, rounds, chunk, meaning>>

\* One turn of the loop over a function's chunk; the last is one that removed
\* nothing.
PeepholeStep ==
  /\ phase = "peephole" /\ chunk \in FnIds(program)
  /\ program' = [program EXCEPT !.functions[chunk + 1] = PeepholeTurn(@)]
  /\ chunk' = IF Removes(Fn(program, chunk)) THEN chunk ELSE chunk + 1
  /\ Proceed("peephole", {})
  /\ UNCHANGED <<errors, hir, rounds, meaning>>

PeepholeDone ==
  /\ phase = "peephole" /\ chunk \notin FnIds(program)
  /\ Proceed("generated", {})
  /\ UNCHANGED <<program, errors, hir, rounds, chunk, meaning>>

Generated ==
  /\ phase = "generated"
  /\ Deliver({"hir", "program"})
  /\ UNCHANGED <<program, errors, hir, rounds, chunk, meaning>>

----------------------------------------------------------------------------
(* The driver, once compile has returned.                                  *)

\* The artifact a command or a form is made from.
Needs(c) ==
  IF c = "tokens" THEN "tokens"
  ELSE IF c \in {"ast", "fmt"} THEN "ast"
  ELSE IF c \in {"hir", "hir-opt"} \cup MirForms THEN "hir"
  ELSE "program"

Driving(commands) == phase = "driver" /\ ~ errors /\ command \in commands /\ UNCHANGED sessionVars
Present           == Needs(command) \in artifacts

ReportErrors ==
  /\ phase = "driver" /\ errors
  /\ Exit(1, <<>>) /\ UNCHANGED sessionVars

CheckOnly == Driving({"check"}) /\ Exit(0, <<>>)

\* A missing artifact prints nothing, and succeeds.
Dump ==
  /\ Driving((Forms \ {"verify"}) \cup {"fmt"})
  /\ Exit(0, IF Present THEN <<StrV(Needs(command))>> ELSE <<>>)

Build ==
  /\ Driving({"build"})
  /\ IF ~ Present THEN Exit(1, <<>>)
     ELSE Exit(0, ToText(program)) \/ Exit(2, <<>>)      \* the file may not be writable

\* `dump verify' runs the verifier on the program; `run' does not.
DumpVerify ==
  /\ Driving({"verify"})
  /\ IF ~ Present THEN Exit(0, <<>>)
     ELSE /\ phase' = "verify"
          /\ typings' = [f \in FnIds(program) |-> V!NoTyping]
          /\ UNCHANGED <<program, stage, fn, heights, work, verdict, machineVars, exit, terminal>>

VerifyStep == Verify /\ UNCHANGED sessionVars

Verified ==
  /\ phase = "verify" /\ stage = "done"
  /\ Exit(0, <<StrV(verdict)>>) /\ UNCHANGED sessionVars

Run ==
  /\ Driving({"run"})
  /\ IF ~ Present THEN Exit(1, <<>>)
     ELSE /\ phase' = "execute"
          /\ UNCHANGED <<program, verifierVars, machineVars, exit, terminal>>

ExecuteStep == Execute /\ UNCHANGED sessionVars
ReportRun   == Report /\ UNCHANGED sessionVars
SessionOver == Exited /\ UNCHANGED sessionVars

Compile ==
  \/ SourceUnreadable \/ Lex \/ Parse \/ ResolveNames \/ Check \/ Lower
  \/ OptimizeRound \/ OptimizeSkipped \/ Optimized
  \/ GenerateCode \/ PeepholeStep \/ PeepholeDone \/ Generated

Drive ==
  \/ ReportErrors \/ CheckOnly \/ Dump \/ Build
  \/ DumpVerify \/ VerifyStep \/ Verified
  \/ Run \/ ExecuteStep \/ ReportRun

SessionNext == Compile \/ Drive \/ SessionOver

\* One process that takes its phases one after the other: it keeps taking steps
\* while it has not exited.  This is WF_allVars(SessionNext), with what enables a step
\* spelled out, and what every step changes in place of allVars.
Position == <<phase, rounds, chunk, [f \in FnIds(program) |-> Len(Fn(program, f).code)],
              stage, fn, work, status, steps, Len(stack), [k \in DOMAIN frames |-> frames[k].ip]>>
KeepsRunning == <>[](phase # "exited") => []<><<TRUE>>_Position
SessionSpec == SessionInit /\ [][SessionNext]_allVars /\ KeepsRunning

----------------------------------------------------------------------------
(* Properties.                                                             *)

CompilePhases == {"lex", "parse", "resolve", "check", "lower", "optimize", "optimized",
                  "generate", "peephole", "generated"}
ArtifactNames == Analysed \cup {"tokens", "hir", "opt_stats", "program"}

\* The type invariant; from code generation on the program is well formed at
\* every turn, and no rewrite makes a literal wider than an integer.
SessionTypeOK ==
  /\ phase \in CompilePhases \cup {"driver", "verify", "execute", "exited"}
  /\ command \in Commands /\ optimizing \in BOOLEAN /\ errors \in BOOLEAN
  /\ artifacts \subseteq ArtifactNames
  /\ rounds \in 0 .. MaxIterations /\ chunk \in 0 .. Len(program.functions)
  /\ status \in Statuses /\ verdict \in V!Verdicts
  /\ IsProgram(program)
  /\ \A f \in FnIds(program) : \A pc \in Pcs(program, f) :
       OpAt(program, f, pc).op = "PushInt" => InWidth(OpAt(program, f, pc).n)

\* "lowering and code generation run only if the program is error-free"
\* (session.rs:136): whichever phase found an error, nothing after the type
\* checker runs, nothing is printed, and the process ends with 1.
NothingAfterErrors ==
  errors =>
    /\ hir = NoHir /\ program = NoProgram /\ status = "idle"
    /\ artifacts \cap {"hir", "opt_stats", "program"} = {}
    /\ exit \in {NoExit, 1} /\ terminal = <<>>

\* The session and the driver agree on which artifact each stage leaves behind:
\* no command ends with "internal error: no program was produced" (main.rs:278, 394),
\* and no dump of a correct program prints nothing.
DriverFindsItsArtifact ==
  (phase = "driver" /\ ~ errors) => (command = "check" \/ Present)

\* "every program the compiler itself emits must verify"
\* (backend/verify/tests.rs:3), optimized or not.
EmittedVerifies == (phase = "verify" /\ stage = "done") => verdict = "ok"

\* Every round of the optimizer preserves what the program means: calls and
\* stores are not dropped, duplicated or reordered, by any sequence of passes.
OptimizerPreserves ==
  (phase = "optimize" /\ rounds > 0) =>
    LET now == MeaningOf(hir) IN Preserves(meaning, now.status, now.stdout)

Ran == phase = "exited" /\ status # "idle"

\* The whole back-end: a compiled program does what it means.  Without the
\* optimizer it traps exactly where it should, and it never meets VmError::Internal,
\* "an invariant the front-end should guarantee" that "was violated" (vm.rs:39).
CompiledMeansTheSame ==
  Ran => /\ status \notin StructureErrors \cup KindErrors
         /\ IF optimizing THEN Preserves(meaning, status, stdout)
            ELSE SameOutcome(meaning, status, stdout)

\* What build writes, exec reads back ("exact inverses", backend/object.rs:9-10), and of a
\* file that lost its end, lost a line or has one twice it reads nothing, or whole
\* functions as they were: no code is taken for a constant, nor for another function's.
ObjectFilesTell ==
  (phase = "exited" /\ command = "build" /\ exit = 0) =>
    LET read(lines) == FromText(lines)
        intact(r)   == /\ r.ok /\ r.main = program.main
                       /\ r.functions = SubSeq(program.functions, 1, Len(r.functions))
    IN /\ intact(read(terminal)) /\ Len(read(terminal).functions) = Len(program.functions)
       /\ \A lines \in Damaged(terminal) : read(lines).ok => intact(read(lines))

\* "optimized and unoptimized builds always produce identical results"
\* (docs/DESIGN.md:115), a trap being a result.
OptimizationIsInvisible == Ran => SameOutcome(meaning, status, stdout)

\* lumenc ends, whatever it is asked to do: the optimizer, the peephole loop, the
\* verifier and the machine all stop.
SessionFinishes == <>(phase = "exited")
=============================================================================
