------------------------------ MODULE MirInterp ------------------------------
(***************************************************************************)
(* The MIR interpreter (mir/interp.rs), the second machine of the program: *)
(* a register file and locals per call, blocks instead of a code vector.   *)
(* One action per instruction and per terminator; entering a block is the  *)
(* turn of the loop that is counted.                                       *)
(*                                                                         *)
(* A call of the program is a call of `Interp::call': the frames are the   *)
(* native stack, which ends after MaxDepth of them.                        *)
(***************************************************************************)
EXTENDS Mir

CONSTANTS MirSteps,  \* STEP_LIMIT: blocks entered in one run
          MaxDepth   \* the calls that fit on the native stack

ASSUME MirStepsAssumption == MirSteps \in Nat
ASSUME MaxDepthAssumption == MaxDepth \in Nat \ {0}

VARIABLES
  mir,       \* the program
  status,    \* "idle", "running", "finished" or an error
  frames,    \* [func, block, pc, regs, locals, assigned]; pc = 0 before the block is entered
  heap,      \* the arrays, by address
  stdout,    \* the values printed, in order
  steps,     \* blocks entered
  result     \* what main returned

interpVars == <<status, frames, heap, stdout, steps, result>>

InterpInit ==
  /\ status = "idle" /\ frames = <<>> /\ heap = <<>> /\ stdout = <<>>
  /\ steps = 0 /\ result = UnitV

----------------------------------------------------------------------------

Top     == frames[Len(frames)]
Func    == MirFn(mir, Top.func)
Current == BlockOf(Func, Top.block)
Instr   == Current.insts[Top.pc]
Ending  == Current.term

\* Arguments beyond the locals are dropped.  The registers assigned so far are history.
Called(f, args) ==
  LET fn == MirFn(mir, f)
  IN [func |-> f, block |-> fn.entry, pc |-> 0,
      regs   |-> [r \in 0 .. fn.regs - 1 |-> UnitV],
      locals |-> [l \in 0 .. fn.locals - 1 |-> IF l < Len(args) THEN args[l + 1] ELSE UnitV],
      assigned |-> {}]

\* `operand': a constant, or what a register holds.
Readable(args) == \A k \in DOMAIN args : IsReg(args[k]) => args[k].v \in DOMAIN Top.regs
Value(o)       == IF IsReg(o) THEN Top.regs[o.v] ELSE o
Args           == [k \in DOMAIN Instr.args |-> Value(Instr.args[k])]

InTop(frame) == frames' = [frames EXCEPT ![Len(frames)] = frame]
Stop(e)      == status' = e /\ UNCHANGED <<frames, steps, result>>
Fail(e)      == Stop(e) /\ UNCHANGED <<heap, stdout>>

\* An instruction of one of these kinds, or a terminator, whose operands can be read.
Reading(args, act) == IF Readable(args) THEN act ELSE Fail("bad reg")
Executing(kinds, act) ==
  /\ status = "running" /\ Top.pc \in DOMAIN Current.insts /\ Instr.kind \in kinds
  /\ Reading(Instr.args, act)
Leaving(kinds, act) ==
  /\ status = "running" /\ Top.pc = Len(Current.insts) + 1 /\ Ending.kind \in kinds
  /\ Reading(<<Ending.arg>>, act)

Advanced(frame)   == [frame EXCEPT !.pc = @ + 1]
Into(frame, r, v) == Advanced([frame EXCEPT !.regs[r] = v, !.assigned = @ \cup {r}])

\* The outcome of an instruction goes to its register.
Yields(o) ==
  IF o.status # "ok" THEN Stop(o.status)
  ELSE IF Instr.dst \notin DOMAIN Top.regs THEN Stop("bad reg")
  ELSE InTop(Into(Top, Instr.dst, o.v)) /\ UNCHANGED <<status, steps, result>>

----------------------------------------------------------------------------
(* The loop of `call'.                                                     *)

Start ==
  /\ status = "idle"
  /\ IF mir.main \notin MirFns(mir) THEN Fail("bad function")
     ELSE /\ status' = "running" /\ frames' = <<Called(mir.main, <<>>)>>
          /\ UNCHANGED <<heap, stdout, steps, result>>

Entered == InTop([Top EXCEPT !.pc = 1]) /\ UNCHANGED status

\* Faulty variant: the turns of the loop are not counted.
EnterUncounted ==
  /\ status = "running" /\ Top.pc = 0
  /\ Entered /\ UNCHANGED <<heap, stdout, steps, result>>

EnterBlock ==
  /\ status = "running" /\ Top.pc = 0
  /\ steps' = steps + 1
  /\ IF steps' > MirSteps THEN status' = "step limit exceeded" /\ UNCHANGED frames ELSE Entered
  /\ UNCHANGED <<heap, stdout, result>>

\* A condition that is anything but true goes to the second block.
Follow ==
  Leaving({"Goto", "Branch", "Unreachable"},
    IF Ending.kind = "Unreachable" THEN Fail("unreachable block")
    ELSE LET c     == Value(Ending.arg)
             taken == Ending.kind = "Goto" \/ (c.t = "Bool" /\ c.v)
         IN /\ InTop([Top EXCEPT !.block = Ending.succ[IF taken THEN 1 ELSE 2], !.pc = 0])
            /\ UNCHANGED <<status, heap, stdout, steps, result>>)

\* The value of a call goes to the register the caller's instruction names.
ReturnValue ==
  Leaving({"Return"},
    IF Len(frames) = 1
    THEN /\ status' = "finished" /\ result' = Value(Ending.arg) /\ frames' = <<>>
         /\ UNCHANGED <<heap, stdout, steps>>
    ELSE LET caller == frames[Len(frames) - 1]
             call   == BlockOf(MirFn(mir, caller.func), caller.block).insts[caller.pc]
         IN IF call.dst \notin DOMAIN caller.regs THEN Fail("bad reg")
            ELSE /\ frames' = Append(SubSeq(frames, 1, Len(frames) - 2),
                                     Into(caller, call.dst, Value(Ending.arg)))
                 /\ UNCHANGED <<status, heap, stdout, steps, result>>)

----------------------------------------------------------------------------
(* exec and eval_rvalue.                                                   *)

\* The element of the array of the first operand, at the index of the second.
Element(args) ==
  IF args[1].t # "Array" \/ args[2].t # "Int" THEN Err("unexpected kind")
  ELSE IF ~ IndexInBounds(args[2].v, Len(heap[args[1].v])) THEN Err("index out of bounds")
  ELSE Ok(heap[args[1].v][args[2].v + 1])

Rvalue(args) ==
  CASE Instr.kind = "Use"    -> Ok(args[1])
    [] Instr.kind = "Load"   -> IF Instr.n \in DOMAIN Top.locals THEN Ok(Top.locals[Instr.n]) ELSE Err("bad local")
    [] Instr.kind = "Unary"  -> UnaryValue(Instr.op, args[1])
    [] Instr.kind = "Binary" -> BinaryValue(Instr.op, heap, args[1], args[2])
    [] Instr.kind = "Concat" -> IF args[1].t = "Str" /\ args[2].t = "Str"
                            THEN Ok(StrV(args[1].v \o args[2].v)) ELSE Err("unexpected kind")
    [] Instr.kind = "Index"  -> Element(args)

AssignReg == Executing(RvalueKinds \ {"MakeArray"}, Yields(Rvalue(Args)) /\ UNCHANGED <<heap, stdout>>)

MakeArray ==
  Executing({"MakeArray"},
     /\ heap' = Append(heap, Args)
     /\ Yields(Ok(ArrayV(Len(heap) + 1))) /\ UNCHANGED stdout)

Store ==
  Executing({"Store"},
     IF Instr.n \notin DOMAIN Top.locals THEN Fail("bad local")
     ELSE /\ InTop(Advanced([Top EXCEPT !.locals[Instr.n] = Args[1]]))
          /\ UNCHANGED <<status, heap, stdout, steps, result>>)

SetIndex ==
  Executing({"SetIndex"},
     IF Element(Args).status # "ok" THEN Fail(Element(Args).status)
     ELSE /\ heap' = [heap EXCEPT ![Args[1].v][Args[2].v + 1] = Args[3]]
          /\ InTop(Advanced(Top))
          /\ UNCHANGED <<status, stdout, steps, result>>)

\* The recursion of `call' has no bound of its own.
CallFn ==
  Executing({"Call"},
     IF Instr.n \notin MirFns(mir) THEN Fail("bad function")
     ELSE IF Len(frames) = MaxDepth THEN Fail("native stack overflow")
     ELSE /\ frames' = Append(frames, Called(Instr.n, Args))
          /\ UNCHANGED <<status, heap, stdout, steps, result>>)

ArrayLength(a) == IF a.t = "Array" THEN Ok(IntV(Wrap(Len(heap[a.v])))) ELSE Err("unexpected kind")

\* `len' is a call here; every other builtin is shared with the VM.
CallBuiltinFn ==
  Executing({"CallBuiltin"},
     /\ Yields(IF Instr.op = "len" THEN ArrayLength(Args[1]) ELSE Eval(Instr.op, Args))
     /\ stdout' = stdout \o Printed(Instr.op, Args) /\ UNCHANGED heap)

InterpStep ==
  \/ Start \/ EnterBlock \/ Follow \/ ReturnValue
  \/ AssignReg \/ MakeArray \/ Store \/ SetIndex \/ CallFn \/ CallBuiltinFn

\* What the errors called Internal stand for, and all ways a run can stand.
MirStructureErrors == {"bad function", "bad local", "bad reg", "unreachable block"}
MirInternal        == KindErrors \cup MirStructureErrors
MirStatuses == {"idle", "running", "finished", "step limit exceeded"}
                 \cup UserErrors \cup MirInternal \cup Aborts
=============================================================================
