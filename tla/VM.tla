--------------------------------- MODULE VM ---------------------------------
(***************************************************************************)
(* The virtual machine (backend/vm.rs): one operand stack shared by all    *)
(* calls, a stack of frames, a heap of arrays, captured output and a step  *)
(* budget.  One action per family of instructions; each is a whole turn of *)
(* the run loop, its fetch, the increment of ip and every error path       *)
(* included.                                                               *)
(*                                                                         *)
(* Nothing in the machine looks at a frame's bounds: `pop' takes whatever  *)
(* lies on the shared stack.  That a callee never eats its caller's values *)
(* rests on the discipline the verifier checks, not on the machine.        *)
(***************************************************************************)
EXTENDS Runtime

CONSTANTS Programs,  \* the programs the machine may be given
          MaxSteps   \* max_steps: the step budget of one execution

\* A program whose literals are integers of their width and floats.
IsLoadable(p) ==
  /\ IsProgram(p)
  /\ \A f \in FnIds(p) : \A pc \in Pcs(p, f) :
       /\ OpAt(p, f, pc).op = "PushInt" => InWidth(OpAt(p, f, pc).n)
       /\ OpAt(p, f, pc).op = "PushFloat" => OpAt(p, f, pc).n \in F64.floats

ASSUME ProgramsAssumption == \A p \in Programs : IsLoadable(p)
ASSUME MaxStepsAssumption == MaxSteps \in Nat

VARIABLES
  program,   \* the program being executed
  status,    \* "idle" before `execute', "running", "finished" or an error
  stack,     \* operands and locals of all frames; stack[i+1] is Rust's stack[i]
  frames,    \* [func, ip, base], the active one last
  heap,      \* the arrays, by address: sequences of values
  stdout,    \* the values printed, in order
  steps,     \* instructions started
  result     \* the value of the entry frame, once it has returned

vars == <<program, status, stack, frames, heap, stdout, steps, result>>

\* Vm::new, before execute.
Idle ==
  /\ status = "idle"
  /\ stack = <<>> /\ frames = <<>> /\ heap = <<>> /\ stdout = <<>>
  /\ steps = 0 /\ result = UnitV

Init == program \in Programs /\ Idle

----------------------------------------------------------------------------
(* Frames and operands.                                                    *)

Top      == frames[Len(frames)]
TopPcs   == Pcs(program, Top.func)
Instr    == OpAt(program, Top.func, Top.ip)

Frame(f, ip, base) == [func |-> f, ip |-> ip, base |-> base]
Advanced    == [frames EXCEPT ![Len(frames)].ip = @ + 1]
Jumped(pc)  == [frames EXCEPT ![Len(frames)].ip = pc]

Operand(k)  == stack[Len(stack) - k + 1]                    \* k-th from the top
Operands(k) == SubSeq(stack, Len(stack) - k + 1, Len(stack))
Below(k)    == SubSeq(stack, 1, Len(stack) - k)

Times(kind, k) == [i \in 1 .. k |-> kind]

\* The kinds of the operands an instruction pops, the top of the stack last.
Wanted(o) ==
  CASE o.op \in IntArith \cup IntOrder -> <<"Int", "Int">>
    [] o.op \in FltArith \cup FltOrder -> <<"Float", "Float">>
    [] o.op \in EqOps -> <<"Any", "Any">>
    [] o.op = "ConcatStr" -> <<"Str", "Str">>
    [] o.op = "Index"     -> <<"Array", "Int">>
    [] o.op = "SetIndex"  -> <<"Array", "Int", "Any">>
    [] o.op = "NegInt"    -> <<"Int">>
    [] o.op = "NegFloat"  -> <<"Float">>
    [] o.op \in {"NotBool", "JumpIfFalse"} -> <<"Bool">>
    [] o.op = "ArrayLen"  -> <<"Array">>
    [] OTHER -> Times("Any", Needed(o))

Mismatch(kinds, k) ==
  LET want == kinds[Len(kinds) - k + 1]
  IN k > Len(stack) \/ (want # "Any" /\ Operand(k).t # want)

\* Operands are popped one by one: the first that is missing or of another kind
\* decides the error, and it is a missing one only if no other is of another kind.
PopFault(kinds) ==
  LET bad == {k \in DOMAIN kinds : Mismatch(kinds, k)}
  IN IF bad = {} THEN "none"
     ELSE IF \A k \in bad : k > Len(stack) THEN "stack underflow"
     ELSE "unexpected kind"

----------------------------------------------------------------------------
(* One turn of the run loop.                                               *)

\* Faulty variant: the turn is not counted.
FetchesUncounted(names) ==
  /\ status = "running" /\ steps < MaxSteps
  /\ Top.ip \in TopPcs /\ Instr.op \in names
  /\ steps' = steps

\* The loop has fetched an instruction named in `names'.
Fetches(names) ==
  /\ status = "running" /\ steps < MaxSteps
  /\ Top.ip \in TopPcs /\ Instr.op \in names
  /\ steps' = steps + 1

\* An error ends the run; what was on the stack and printed is dropped with it.
Fail(e) == status' = e /\ UNCHANGED <<program, stack, frames, heap, stdout, result>>

\* Pops `kinds', then does `succeed'.
Pops(kinds, succeed) ==
  IF PopFault(kinds) # "none" THEN Fail(PopFault(kinds)) ELSE succeed

\* Pops `kinds' and pushes the value of the outcome, or fails with its error.
Yields(kinds, outcome) ==
  Pops(kinds,
       IF outcome.status # "ok" THEN Fail(outcome.status)
       ELSE /\ stack' = Append(Below(Len(kinds)), outcome.v)
            /\ frames' = Advanced
            /\ UNCHANGED <<program, status, heap, stdout, result>>)

\* The budget is counted before the fetch.
StepLimit ==
  /\ status = "running" /\ steps >= MaxSteps
  /\ steps' = steps + 1
  /\ Fail("step limit exceeded")

RunOff ==
  /\ status = "running" /\ steps < MaxSteps /\ Top.ip \notin TopPcs
  /\ steps' = steps + 1
  /\ Fail("ip out of bounds")

----------------------------------------------------------------------------
(* Constants and locals.                                                   *)

Constant(o) ==
  CASE o.op = "PushInt"   -> Ok(IntV(o.n))
    [] o.op = "PushFloat" -> Ok(FloatV(o.n))
    [] o.op = "PushBool"  -> Ok(BoolV(o.n = 1))
    [] o.op = "PushUnit"  -> Ok(UnitV)
    [] o.op = "PushStr"   ->
         LET consts == Fn(program, Top.func).consts
         IN IF o.n < Len(consts) THEN Ok(StrV(consts[o.n + 1])) ELSE Err("constant out of bounds")

Push == Fetches(PushOps) /\ Yields(<<>>, Constant(Instr))

Slot(n) == Top.base + n + 1

LoadLocal ==
  /\ Fetches({"LoadLocal"})
  /\ Yields(<<>>, IF Slot(Instr.n) <= Len(stack) THEN Ok(stack[Slot(Instr.n)])
                  ELSE Err("bad local"))

\* The value is popped before the slot is looked up.
StoreLocal ==
  /\ Fetches({"StoreLocal"})
  /\ Pops(Wanted(Instr),
          IF Slot(Instr.n) >= Len(stack) THEN Fail("bad local")
          ELSE /\ stack' = [Below(1) EXCEPT ![Slot(Instr.n)] = Operand(1)]
               /\ frames' = Advanced
               /\ UNCHANGED <<program, status, heap, stdout, result>>)

PopTop ==
  /\ Fetches({"Pop"})
  /\ Pops(Wanted(Instr),
          /\ stack' = Below(1)
          /\ frames' = Advanced
          /\ UNCHANGED <<program, status, heap, stdout, result>>)

----------------------------------------------------------------------------
(* Operators.                                                              *)

Equality(o) ==
  LET e == ValueEq(heap, Operand(2), Operand(1))
  IN IF e = "overflow" THEN Err("native stack overflow")
     ELSE Ok(BoolV((e = "equal") <=> (o.op = "Eq")))

IntOp ==
  /\ Fetches(IntArith \cup IntOrder)
  /\ Yields(Wanted(Instr),
            LET a == Operand(2).v   b == Operand(1).v
            IN IF Instr.op \in IntArith THEN ArithInt(Instr.op, a, b)
               ELSE Ok(BoolV(OrderInt(Instr.op, a, b))))

FloatOp ==
  /\ Fetches(FltArith \cup FltOrder)
  /\ Yields(Wanted(Instr),
            LET a == Operand(2).v   b == Operand(1).v
            IN IF Instr.op \in FltArith THEN Ok(FloatV(ArithFloat(Instr.op, a, b)))
               ELSE Ok(BoolV(OrderFloat(Instr.op, a, b))))

UnaryOp ==
  /\ Fetches(UnaryOps)
  /\ Yields(Wanted(Instr),
            LET a == Operand(1).v
            IN CASE Instr.op = "NegInt"   -> Ok(IntV(Wrap(-a)))
                 [] Instr.op = "NegFloat" -> Ok(FloatV(UnaryFloat("NegFloat", a)))
                 [] Instr.op = "NotBool"  -> Ok(BoolV(~ a))
                 [] Instr.op = "ArrayLen" -> Ok(IntV(Wrap(Len(heap[a])))))

Compare == Fetches(EqOps) /\ Yields(Wanted(Instr), Equality(Instr))

ConcatStr ==
  /\ Fetches({"ConcatStr"})
  /\ Yields(Wanted(Instr), Ok(StrV(Operand(2).v \o Operand(1).v)))

----------------------------------------------------------------------------
(* Arrays.                                                                 *)

\* split_off takes the items at once: no kind is looked at.
MakeArray ==
  /\ Fetches({"MakeArray"})
  /\ IF Len(stack) < Instr.n THEN Fail("stack underflow")
     ELSE /\ heap' = Append(heap, Operands(Instr.n))
          /\ stack' = Append(Below(Instr.n), ArrayV(Len(heap) + 1))
          /\ frames' = Advanced
          /\ UNCHANGED <<program, status, stdout, result>>

Index ==
  /\ Fetches({"Index"})
  /\ Yields(Wanted(Instr),
            LET items == heap[Operand(2).v]   i == Operand(1).v
            IN IF IndexInBounds(i, Len(items)) THEN Ok(items[i + 1])
               ELSE Err("index out of bounds"))

SetIndex ==
  /\ Fetches({"SetIndex"})
  /\ Pops(Wanted(Instr),
          LET a == Operand(3).v   i == Operand(2).v
          IN IF ~ IndexInBounds(i, Len(heap[a])) THEN Fail("index out of bounds")
             ELSE /\ heap' = [heap EXCEPT ![a][i + 1] = Operand(1)]
                  /\ stack' = Append(Below(3), UnitV)
                  /\ frames' = Advanced
                  /\ UNCHANGED <<program, status, stdout, result>>)

----------------------------------------------------------------------------
(* Control flow and calls.                                                 *)

Jump ==
  /\ Fetches({"Jump"})
  /\ frames' = Jumped(Instr.n)
  /\ UNCHANGED <<program, status, stack, heap, stdout, result>>

JumpIfFalse ==
  /\ Fetches({"JumpIfFalse"})
  /\ Pops(Wanted(Instr),
          /\ stack' = Below(1)
          /\ frames' = IF Operand(1).v THEN Advanced ELSE Jumped(Instr.n)
          /\ UNCHANGED <<program, status, heap, stdout, result>>)

\* Faulty variant: one slot too few.
ReservedTooFew(f, argc) ==
  LET locals == Fn(program, f).n_locals
  IN Times(UnitV, IF locals > argc THEN locals - argc - 1 ELSE 0)

\* The arguments on the stack become the first locals of the callee; only the
\* slots beyond them are reserved.
Reserved(f, argc) ==
  LET locals == Fn(program, f).n_locals
  IN Times(UnitV, IF locals > argc THEN locals - argc ELSE 0)

\* Faulty variant: the base lies above the arguments.
EnterAboveArguments(callers, f, argc) ==
  IF f \notin FnIds(program) THEN Fail("bad function")
  ELSE IF Len(stack) < argc THEN Fail("not enough arguments on stack")
  ELSE /\ stack' = stack \o Reserved(f, argc)
       /\ frames' = Append(callers, Frame(f, 0, Len(stack)))
       /\ status' = "running"
       /\ UNCHANGED <<program, heap, stdout, result>>

Enter(callers, f, argc) ==
  IF f \notin FnIds(program) THEN Fail("bad function")
  ELSE IF Len(stack) < argc THEN Fail("not enough arguments on stack")
  ELSE /\ stack' = stack \o Reserved(f, argc)
       /\ frames' = Append(callers, Frame(f, 0, Len(stack) - argc))
       /\ status' = "running"
       /\ UNCHANGED <<program, heap, stdout, result>>

\* execute: enters main without arguments, whatever main declares.
Start == status = "idle" /\ steps' = steps /\ Enter(frames, program.main, 0)

CallFn == Fetches({"Call"}) /\ Enter(Advanced, Instr.n, Instr.argc)

\* Faulty variants: the callee's locals stay, or a slot of the caller goes.
TruncateNothing(s, n) == s
TruncateTooFar(s, n)  == IF n - 1 < Len(s) THEN SubSeq(s, 1, n - 1) ELSE s

\* truncate does nothing to a stack that is already shorter.
Truncate(s, n) == IF n < Len(s) THEN SubSeq(s, 1, n) ELSE s

Return ==
  /\ Fetches({"Return"})
  /\ Pops(Wanted(Instr),
          LET rest == Truncate(Below(1), Top.base)
          IN /\ IF Len(frames) = 1
                THEN status' = "finished" /\ result' = Operand(1) /\ stack' = rest
                ELSE status' = status /\ result' = result /\ stack' = Append(rest, Operand(1))
             /\ frames' = SubSeq(frames, 1, Len(frames) - 1)
             /\ UNCHANGED <<program, heap, stdout>>)

CallBuiltinFn ==
  /\ Fetches({"CallBuiltin"})
  /\ Pops(Wanted(Instr),
          LET args == Operands(Instr.argc)
              r    == Eval(Instr.x, args)
          IN IF r.status # "ok" THEN Fail(r.status)
             ELSE /\ stack' = Append(Below(Instr.argc), r.v)
                  /\ stdout' = stdout \o Printed(Instr.x, args)
                  /\ frames' = Advanced
                  /\ UNCHANGED <<program, status, heap, result>>)

----------------------------------------------------------------------------

Stopped == status \notin {"idle", "running"} /\ UNCHANGED vars

Step ==
  \/ StepLimit \/ RunOff
  \/ Push \/ LoadLocal \/ StoreLocal \/ PopTop
  \/ IntOp \/ FloatOp \/ UnaryOp \/ Compare \/ ConcatStr
  \/ MakeArray \/ Index \/ SetIndex
  \/ Jump \/ JumpIfFalse \/ CallFn \/ Return \/ CallBuiltinFn

Next == Start \/ Step \/ Stopped

\* The run loop is sequential: it takes its next turn while the machine runs.
Spec == Init /\ [][Next]_vars /\ WF_vars(Next)

----------------------------------------------------------------------------
(* Properties.                                                             *)

\* VmError::Internal, and the unchecked access of PushStr, about the structure
\* of the code and the stack: what the verifier is to exclude.
StructureErrors == {"ip out of bounds", "bad local", "bad function",
                    "not enough arguments on stack", "stack underflow",
                    "constant out of bounds"}

Statuses == {"idle", "running", "finished", "step limit exceeded"}
              \cup UserErrors \cup KindErrors \cup StructureErrors \cup Aborts

\* The type invariant: integers stay in their width, references stay valid.
TypeOK ==
  /\ program \in Programs /\ status \in Statuses /\ steps \in 0 .. MaxSteps + 1
  /\ AreValues(stack, Len(heap)) /\ AreValues(stdout, Len(heap)) /\ IsValue(result, Len(heap))
  /\ \A a \in DOMAIN heap : AreValues(heap[a], Len(heap))
  /\ \A i \in DOMAIN frames :
       /\ frames[i].func \in FnIds(program)
       /\ frames[i].ip \in Nat /\ frames[i].base \in Nat

(***************************************************************************)
(* The stack discipline.  T is a table of typings of the program           *)
(* (Bytecode!TypedBy).                                                     *)
(***************************************************************************)
FrameHeight(T, i) == T[frames[i].func][frames[i].ip]
FrameLocals(i)    == Fn(program, frames[i].func).n_locals

\* A frame that waits for a call sits after its Call instruction, whose height
\* already counts the result.
FrameOK(T, i) ==
  /\ frames[i].func \in FnIds(program)
  /\ frames[i].ip \in Pcs(program, frames[i].func)
  /\ FrameHeight(T, i) # NoHeight

\* Frames tile the shared stack: below the base of a frame lie all the locals
\* and the remaining operands of its caller, and the active frame has at least
\* the operands its typing promises.
Discipline(T) ==
  status = "running" =>
    /\ frames # <<>>
    /\ \A i \in DOMAIN frames : FrameOK(T, i)
    /\ \A i \in DOMAIN frames : i < Len(frames) =>
         /\ FrameHeight(T, i) >= 1
         /\ frames[i].base + FrameLocals(i) + FrameHeight(T, i) - 1 <= frames[i + 1].base
    /\ Top.base + FrameLocals(Len(frames)) + FrameHeight(T, Len(frames)) <= Len(stack)

\* Every function of the program has at least one instruction.
NoEmptyCode == \A f \in FnIds(program) : Pcs(program, f) # {}

NoStructureError == status \notin StructureErrors

\* "The height is a function of the program counter alone (the property the VM
\* relies on)" (verify.rs:20): not a bound, the exact height.  It needs what no
\* check of the verifier gives: parameters are counted among the locals.
ParamsAreLocals ==
  \A f \in FnIds(program) : Fn(program, f).n_params <= Fn(program, f).n_locals
ExactHeight(T) ==
  (status = "running" /\ ParamsAreLocals) =>
    Len(stack) = Top.base + FrameLocals(Len(frames)) + FrameHeight(T, Len(frames))

\* A callee never touches the slots of its callers: whatever the active frame
\* does, the stack below its base stays as it was.
CallersUntouched ==
  frames # <<>> => \A i \in 1 .. Top.base : i \in DOMAIN stack' /\ stack'[i] = stack[i]

\* Every execution ends, a runaway loop or recursion included: the step budget
\* "bounds execution so a runaway loop fails cleanly instead of hanging".
Halts == <>(status \notin {"idle", "running"})
=============================================================================
