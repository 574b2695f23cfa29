------------------------------- MODULE Engines -------------------------------
(***************************************************************************)
(* The second engine, from HIR to what a program prints: the HIR optimizer *)
(* or not, mir::build, mir::optimize or not, mir::interpret.               *)
(*                                                                         *)
(* Its tests compare it with the VM (mir/interp/tests.rs).  Here, as in    *)
(* Session, a run is compared with the meaning of the program instead, so  *)
(* that the two engines are tied to the same specification; and again the  *)
(* functions that work on trees are parameters.                            *)
(***************************************************************************)
EXTENDS MirOpt, MirInterp

CONSTANTS Corpus,         \* well-typed programs
          MaxIterations,  \* OptOptions::max_iterations
          MeaningOf(_),   \* what a tree means
          RoundOf(_),     \* an iteration of opt::optimize
          BuildOf(_)      \* mir::build

ASSUME MaxIterationsAssumption == MaxIterations \in Nat

VARIABLES
  phase,     \* "hir", "build", "passes", "run"
  level,     \* which optimizers run
  hir,       \* the program as a tree
  rounds,    \* iterations of the HIR optimizer
  fn, turn,  \* the function `optimize' is at, and the turns it had
  meaning    \* history: what the program meant at first

engineVars == <<phase, level, hir, rounds, mir, fn, turn, meaning>>
allVars    == <<engineVars, interpVars>>

Levels == {"none", "mir", "both"}
NoMir  == [functions |-> <<>>, main |-> 0]

EnginesInit ==
  /\ phase = "hir" /\ level \in Levels
  /\ hir \in Corpus /\ meaning = MeaningOf(hir)
  /\ rounds = 0 /\ mir = NoMir /\ fn = 0 /\ turn = 0
  /\ InterpInit

----------------------------------------------------------------------------

HirRound ==
  /\ phase = "hir" /\ level = "both" /\ rounds < MaxIterations
  /\ hir' = RoundOf(hir) /\ rounds' = rounds + 1
  /\ phase' = IF hir' = hir THEN "build" ELSE "hir"
  /\ UNCHANGED <<level, mir, fn, turn, meaning, interpVars>>

HirReady ==
  /\ phase = "hir" /\ (level # "both" \/ rounds = MaxIterations)
  /\ phase' = "build"
  /\ UNCHANGED <<level, hir, rounds, mir, fn, turn, meaning, interpVars>>

BuildMir ==
  /\ phase = "build"
  /\ mir' = BuildOf(hir)
  /\ phase' = IF level = "none" THEN "run" ELSE "passes"
  /\ UNCHANGED <<level, hir, rounds, fn, turn, meaning, interpVars>>

\* One turn of the loop over a function; the last counted no change, or is the eighth.
OptimizeTurn ==
  /\ phase = "passes" /\ fn \in MirFns(mir)
  /\ LET f == MirFn(mir, fn)
     IN /\ mir' = [mir EXCEPT !.functions[fn + 1] = MirTurn(f)]
        /\ IF Quiet(f) \/ turn = MaxTurns - 1
           THEN fn' = fn + 1 /\ turn' = 0
           ELSE fn' = fn /\ turn' = turn + 1
  /\ UNCHANGED <<phase, level, hir, rounds, meaning, interpVars>>

Optimized ==
  /\ phase = "passes" /\ fn \notin MirFns(mir)
  /\ phase' = "run"
  /\ UNCHANGED <<level, hir, rounds, mir, fn, turn, meaning, interpVars>>

Interpret == phase = "run" /\ InterpStep /\ UNCHANGED engineVars

Ended   == status \notin {"idle", "running"}
AllOver == Ended /\ UNCHANGED allVars

EnginesNext ==
  \/ HirRound \/ HirReady \/ BuildMir \/ OptimizeTurn \/ Optimized \/ Interpret \/ AllOver

\* One sequential process, as in Session: WF_allVars(EnginesNext), with what enables
\* a step spelled out, and what every step changes in place of allVars.
Position == <<phase, rounds, fn, turn, status, steps,
              [k \in DOMAIN frames |-> <<frames[k].block, frames[k].pc>>]>>
KeepsRunning == <>[](~ Ended) => []<><<EnginesNext>>_Position
EnginesSpec  == EnginesInit /\ [][EnginesNext]_allVars /\ KeepsRunning

----------------------------------------------------------------------------
(* Properties.                                                             *)

\* The type invariant: the functions keep the shape of mir/mod.rs through every pass,
\* their constants stay in the width, and so do the values of the registers, the locals,
\* the heap, the output and the result, whose array references stay valid.
EnginesTypeOK ==
  /\ phase \in {"hir", "build", "passes", "run"} /\ level \in Levels
  /\ rounds \in 0 .. MaxIterations /\ turn \in 0 .. MaxTurns - 1
  /\ fn \in 0 .. Len(mir.functions)
  /\ \A f \in MirFns(mir) : IsFunction(mir, f)
  /\ status \in MirStatuses /\ steps \in 0 .. MirSteps + 1
  /\ Len(frames) <= MaxDepth
  /\ \A k \in DOMAIN frames :
       /\ frames[k].func \in MirFns(mir)
       /\ frames[k].block \in BlockIds(MirFn(mir, frames[k].func))
       /\ \A r \in DOMAIN frames[k].regs : IsValue(frames[k].regs[r], Len(heap))
       /\ \A l \in DOMAIN frames[k].locals : IsValue(frames[k].locals[l], Len(heap))
  /\ AreValues(stdout, Len(heap)) /\ IsValue(result, Len(heap))
  /\ \A a \in DOMAIN heap : AreValues(heap[a], Len(heap))

\* Where the register r of f is assigned: pairs of a block and a position.
Assigns(i) == IsAssign(i) \/ IsCall(i)
AssignsTo(i, r) == Assigns(i) /\ i.dst = r
Definitions(f, r) ==
  UNION {{<<b, k>> : k \in {k \in DOMAIN BlockOf(f, b).insts : AssignsTo(BlockOf(f, b).insts[k], r)}} :
         b \in BlockIds(f)}

\* The registers read at a position of a block; the terminator is the last.
ReadAt(f, b, k) ==
  LET block == BlockOf(f, b)
  IN RegsOf(IF k \in DOMAIN block.insts THEN block.insts[k].args ELSE <<block.term.arg>>)

\* Every path from the entry to position k of block b passes the position d.
Dominates(f, d, b, k) ==
  IF d[1] = b THEN d[2] < k ELSE b \notin ReachableFrom(f, {f.entry}, {d[1]})

WellFormed(f) ==
  /\ f.entry \in BlockIds(f)
  /\ \A b \in BlockIds(f) : /\ BlockOf(f, b).term.kind # "Unreachable"
                            /\ Exits(f, b) \subseteq BlockIds(f)
  /\ \A b \in BlockIds(f) : \A k \in DOMAIN BlockOf(f, b).insts :
       Assigns(BlockOf(f, b).insts[k]) => BlockOf(f, b).insts[k].dst \in 0 .. f.regs - 1
  /\ \A r \in 0 .. f.regs - 1 : \A d, e \in Definitions(f, r) : d = e
  /\ \A b \in Reachable(f) : \A k \in 1 .. Len(BlockOf(f, b).insts) + 1 :
       \A r \in ReadAt(f, b, k) :
         \E d \in Definitions(f, r) : Dominates(f, d, b, k)

\* The instruction about to be executed reads registers that this call has assigned.
ReadsAssignedOnly ==
  status = "running" /\ Top.pc # 0 => ReadAt(Func, Top.block, Top.pc) \subseteq Top.assigned

\* What every pass relies on and none checks, after the builder and after every turn
\* of the passes: no block is left with the placeholder (mir/mod.rs:150 "never present
\* in finished MIR"), jumps stay inside the function however blocks are renumbered,
\* registers are assigned once, and wherever a register is read it was assigned before.
\* And that it is so whichever way a run takes: the interpreter would read a Unit.
MirWellFormed ==
  /\ phase = "passes" \/ (phase = "run" /\ status = "idle") =>
       \A f \in MirFns(mir) : WellFormed(MirFn(mir, f))
  /\ ReadsAssignedOnly

\* What a program does here is what it means; the interpreter alone traps exactly where
\* it should, and with the optimizers nothing done before a trap is lost or reordered.
\* No well-typed program ends in VmError::Internal, which stands for a compiler bug
\* (vm.rs:39).
MirMeansTheSame ==
  /\ status \notin MirInternal
  /\ Ended => IF level = "none" THEN SameOutcome(meaning, status, stdout)
             ELSE Preserves(meaning, status, stdout)

\* What the next instruction, or the terminator, reads.
ReadHere  == IF Top.pc \in DOMAIN Current.insts THEN Instr.args ELSE <<Ending.arg>>
Executes  == Top.pc \in DOMAIN Current.insts
Gives(o, v) == o.status = "ok" /\ Equals(o.v, v)
Mistyped(o) == o.status = "unexpected kind"

\* copy_propagation: what is read instead of a copy is what the copy holds.
CopiesAreCurrent ==
  \A k \in DOMAIN ReadHere : Value(Source(ReadHere[k], Copies(Func))) = Value(ReadHere[k])

\* const_fold: an operation on constants that does not fail gives what it is folded to.
FoldsToItsValue ==
  Executes /\ Foldable(Instr) /\ Folded(Instr).status = "ok" => Gives(Rvalue(Args), Folded(Instr).v)

\* algebraic_simplify: so does one with a neutral or absorbing operand, if it has a value
\* at all.  The difference of a float and itself is left out, which may be NaN.
SimplifiesToItsValue ==
  Executes /\ SimplifyInst(Instr) # Instr /\ ~ (Instr.op = "Sub" /\ Args[1].t = "Float") =>
    Mistyped(Rvalue(Args)) \/ Gives(Rvalue(Args), Value(SimplifyInst(Instr).args[1]))

\* local_cse: the register of the first instruction of its kind still has the result.
\* Left out are comparisons of arrays, which SetIndex may change in between, and constants
\* that are equal but not the same, as -0.0 and 0.0.
RepeatsItsValue ==
  Executes =>
    LET same   == Repeats(Current.insts, Seen(Current.insts)[Top.pc - 1], Instr)
        first  == Current.insts[First(same)]
        arrays == Instr.op \in {"Eq", "Ne"} /\ Args[1].t = "Array"
    IN same # {} /\ SameReads(first.args, Instr.args) /\ ~ arrays
         => Gives(Rvalue(Args), Top.regs[first.dst])

\* Wherever a run has got to, whatever an optimizing pass would put in the place of the
\* next instruction or operand has the value that is computed or read there.
RewritesHold ==
  status = "running" /\ Top.pc # 0 =>
    CopiesAreCurrent /\ FoldsToItsValue /\ SimplifiesToItsValue /\ RepeatsItsValue

\* The engine stops on every program, whatever it loops or recurses.
EngineStops == <>Ended
=============================================================================
