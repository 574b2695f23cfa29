-------------------------------- MODULE Exec --------------------------------
(***************************************************************************)
(* `lumenc exec' (main.rs, exec_object): an object file is read and        *)
(* decoded, verified, and run if the verifier accepts it.  This module     *)
(* composes the verifier and the machine over the same program, and states *)
(* what the pair promises: a program that verifies never trips one of the  *)
(* machine's structural errors.                                            *)
(***************************************************************************)
EXTENDS VM

VARIABLES
  stage, fn, heights, work, verdict, typings,   \* the verifier's, see Verifier
  phase,      \* "load", "verify", "execute" or "exited"
  exit,       \* the exit code of the process, NoExit before
  terminal    \* what the process printed on its standard output

V == INSTANCE Verifier

verifierVars == <<stage, fn, heights, work, verdict, typings>>
machineVars  == <<status, stack, frames, heap, stdout, steps, result>>
processVars  == <<phase, exit, terminal>>
execVars     == <<program, verifierVars, machineVars, processVars>>

NoExit == -1

ExecInit ==
  /\ Init /\ V!Init
  /\ phase = "load" /\ exit = NoExit /\ terminal = <<>>

Exit(code, text) ==
  /\ phase' = "exited" /\ exit' = code /\ terminal' = text
  /\ UNCHANGED <<program, verifierVars, machineVars>>

\* The file may be missing or not be an object file.
LoadFails == phase = "load" /\ Exit(2, <<>>)

Load ==
  /\ phase = "load" /\ phase' = "verify"
  /\ UNCHANGED <<program, verifierVars, machineVars, exit, terminal>>

Verify ==
  /\ phase = "verify" /\ stage # "done"
  /\ V!Next
  /\ UNCHANGED <<machineVars, processVars>>

Rejected == phase = "verify" /\ stage = "done" /\ verdict # "ok" /\ Exit(2, <<>>)

Accepted ==
  /\ phase = "verify" /\ stage = "done" /\ verdict = "ok"
  /\ phase' = "execute"
  /\ UNCHANGED <<program, verifierVars, machineVars, exit, terminal>>

Execute ==
  /\ phase = "execute" /\ status \in {"idle", "running"}
  /\ Start \/ Step
  /\ UNCHANGED <<verifierVars, processVars>>

\* Faulty variant: what a failed run had printed is shown as well.
ReportAll ==
  /\ phase = "execute" /\ status \notin {"idle", "running"}
  /\ IF status = "finished" THEN Exit(0, stdout) ELSE Exit(1, stdout)

\* A Rust panic ends the process with code 101, a native stack overflow kills it.
Panics == {"capacity overflow", "constant out of bounds"}

\* Only a run that succeeded prints: an error drops the captured output.
Report ==
  /\ phase = "execute" /\ status \notin {"idle", "running"}
  /\ IF status = "finished" THEN Exit(0, stdout)
     ELSE IF status \in Panics THEN Exit(101, <<>>)
     ELSE IF status = "native stack overflow" THEN Exit(134, <<>>)
     ELSE Exit(1, <<>>)

Exited == phase = "exited" /\ UNCHANGED execVars

ExecNext ==
  \/ LoadFails \/ Load \/ Verify \/ Rejected \/ Accepted
  \/ Execute \/ Report \/ Exited

\* One process that runs its phases one after the other.
ExecSpec == ExecInit /\ [][ExecNext]_execVars /\ WF_execVars(ExecNext)

----------------------------------------------------------------------------
(* Properties.                                                             *)

Phases == {"load", "verify", "execute", "exited"}

\* The type invariant of the composition.
ExecTypeOK ==
  /\ TypeOK /\ V!TypeOK
  /\ phase \in Phases /\ exit \in {NoExit, 0, 1, 2, 101, 134}
  /\ (exit = NoExit <=> phase # "exited")

\* "Running such a program directly could make the VM index past the end of the
\* stack, jump to a bogus address, or read a local that does not exist. `verify'
\* rejects those programs up front" (verify.rs:6-9).  A function without code is
\* the exception verify lets through.
VerifiedRunsSafely == NoEmptyCode => NoStructureError

\* "Control never runs past the last instruction; every path ends at a `return`"
\* (verify.rs:25-26): a program that verified and runs stands at an instruction.  It is
\* not so of a function without code, which verify skips (249-251).
ControlStaysInCode ==
  (phase = "execute" /\ status = "running") => Top.ip \in Pcs(program, Top.func)

\* What carries it: while a verified program runs its frames tile the stack
\* along the heights the verifier recorded.
VerifiedDiscipline == (phase = "execute" /\ NoEmptyCode) => Discipline(typings)

\* In the programs a code generator emits, the verifier's height is exactly the
\* height of the running frame's stack.
VerifiedHeightIsExact == (phase = "execute" /\ NoEmptyCode) => ExactHeight(typings)

\* In a verified program no callee reaches into the frames below its own.
VerifiedCallersUntouched ==
  [][(phase = "execute" /\ phase' = "execute") => CallersUntouched]_execVars

\* Nothing runs before it is verified, nothing is printed unless the run
\* succeeded, and the exit code tells the three outcomes apart.
ExitCodeTells ==
  phase = "exited" =>
    /\ exit = 0 <=> (verdict = "ok" /\ status = "finished")
    /\ exit = 2 <=> status = "idle"
    /\ terminal # <<>> => exit = 0

\* exec ends, whatever the object file holds.
Finishes == <>(phase = "exited")
=============================================================================
