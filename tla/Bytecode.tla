------------------------------ MODULE Bytecode ------------------------------
(***************************************************************************)
(* The instruction set, the program container and the stack effect of every*)
(* instruction (backend/bytecode.rs, and the tables of backend/verify.rs). *)
(* There is no state here: the verifier, the virtual machine, the code     *)
(* generator and the peephole pass are all written over these definitions. *)
(*                                                                         *)
(* An instruction is a record [op, n, argc, x]: `op' is the constructor,   *)
(* `n' its integer operand (a literal, a slot, a constant index, a jump    *)
(* target, a function, the size of an array, 0/1 for a Boolean), `argc'    *)
(* the argument count of a call, and `x' the name of a builtin or of a     *)
(* float constant.  Functions and code offsets count from 0, as in Rust.   *)
(***************************************************************************)
EXTENDS Integers, Sequences, Builtins

CONSTANT MaxArgc    \* the largest argument count an instruction holds, u8::MAX

Op(name, n, argc, x) == [op |-> name, n |-> n, argc |-> argc, x |-> x]

\* Instructions without an operand, and with an integer operand.
Plain(name)          == Op(name, 0, 0, "")
WithN(name, n)       == Op(name, n, 0, "")
Call(f, argc)        == Op("Call", f, argc, "")
CallBuiltin(b, argc) == Op("CallBuiltin", 0, argc, b)

PushOps  == {"PushInt", "PushFloat", "PushBool", "PushUnit", "PushStr"}
IntArith == {"AddInt", "SubInt", "MulInt", "DivInt", "RemInt"}
FltArith == {"AddFloat", "SubFloat", "MulFloat", "DivFloat", "RemFloat"}
IntOrder == {"LtInt", "LeInt", "GtInt", "GeInt"}
FltOrder == {"LtFloat", "LeFloat", "GtFloat", "GeFloat"}
EqOps    == {"Eq", "Ne"}
UnaryOps == {"NegInt", "NegFloat", "NotBool", "ArrayLen"}
BinaryOps == IntArith \cup FltArith \cup IntOrder \cup FltOrder \cup EqOps
               \cup {"ConcatStr", "Index"}
JumpOps  == {"Jump", "JumpIfFalse"}
CallOps  == {"Call", "CallBuiltin"}
SinkOps  == {"StoreLocal", "Pop", "JumpIfFalse", "Return"}

OpNames == PushOps \cup {"LoadLocal", "SetIndex", "MakeArray", "Jump"}
             \cup SinkOps \cup UnaryOps \cup BinaryOps \cup CallOps

(***************************************************************************)
(* The `Effect' of an instruction: how many operands it consumes, and the  *)
(* change of the stack height.                                             *)
(***************************************************************************)
Needed(o) ==
  IF o.op \in BinaryOps THEN 2
  ELSE IF o.op \in UnaryOps \cup SinkOps THEN 1
  ELSE IF o.op = "SetIndex" THEN 3
  ELSE IF o.op = "MakeArray" THEN o.n
  ELSE IF o.op \in CallOps THEN o.argc
  ELSE 0

Delta(o) ==
  IF o.op \in SinkOps THEN -1
  ELSE IF o.op = "Jump" THEN 0
  ELSE 1 - Needed(o)

(***************************************************************************)
(* A chunk is [n_params, n_locals, code, consts], a program is             *)
(* [functions, main].                                                      *)
(***************************************************************************)
FnIds(p)       == 0 .. Len(p.functions) - 1
Fn(p, f)       == p.functions[f + 1]
CodeLen(p, f)  == Len(Fn(p, f).code)
Pcs(p, f)      == 0 .. CodeLen(p, f) - 1
OpAt(p, f, pc) == Fn(p, f).code[pc + 1]

\* The offsets control can reach in one step from the instruction o at pc,
\* other than through a call.
Successors(o, pc) ==
  IF o.op = "Return" THEN {}
  ELSE IF o.op = "Jump" THEN {o.n}
  ELSE IF o.op = "JumpIfFalse" THEN {o.n, pc + 1}
  ELSE {pc + 1}

(***************************************************************************)
(* The operands check_operands rejects, as the kind of the error it        *)
(* returns; "none" when it returns Ok.                                     *)
(***************************************************************************)
OperandError(p, f, o) ==
  IF o.op \in {"LoadLocal", "StoreLocal"} /\ o.n >= Fn(p, f).n_locals
    THEN "BadLocal"
  ELSE IF o.op = "PushStr" /\ o.n >= Len(Fn(p, f).consts)
    THEN "BadConst"
  ELSE IF o.op = "Call" /\ o.n \notin FnIds(p)
    THEN "BadCallTarget"
  ELSE IF o.op = "Call" /\ Fn(p, o.n).n_params # o.argc
    THEN "ArityMismatch"
  ELSE IF o.op = "CallBuiltin" /\ Arity(o.x) # o.argc
    THEN "BuiltinArity"
  ELSE "none"

(***************************************************************************)
(* The shape of what object::from_text and codegen::generate can build.    *)
(***************************************************************************)
Ops == [op : OpNames, n : Int, argc : Nat, x : STRING]

\* Every operand but an integer literal is unsigned in Rust.
IsOp(o) == /\ o \in Ops
           /\ o.op # "PushInt" => o.n \in Nat
           /\ o.op = "CallBuiltin" => o.x \in BuiltinNames

Chunks == [n_params : Nat, n_locals : Nat, code : Seq(Ops), consts : Seq(Seq(Nat))]

IsChunk(c) == c \in Chunks /\ \A i \in DOMAIN c.code : IsOp(c.code[i])

IsProgram(p) ==
  /\ p \in [functions : Seq(Chunks), main : Nat]
  /\ \A i \in DOMAIN p.functions : IsChunk(p.functions[i])

(***************************************************************************)
(* What the verifier is for.  A typing of a function gives every offset it *)
(* knows one stack height, 0 at the entry, such that every known           *)
(* instruction has its operands and hands each of its successors the       *)
(* height it leaves.  NoHeight marks an offset no path reaches.            *)
(***************************************************************************)
NoHeight == -1

LocallyTyped(p, f, H, pc) ==
  LET o == OpAt(p, f, pc)
  IN /\ Needed(o) <= H[pc]
     /\ OperandError(p, f, o) = "none"
     /\ \A s \in Successors(o, pc) : s \in Pcs(p, f) /\ H[s] = H[pc] + Delta(o)

IsTyping(p, f, H) ==
  /\ H \in [Pcs(p, f) -> Nat \cup {NoHeight}]
  /\ H[0] = 0
  /\ \A pc \in Pcs(p, f) : H[pc] # NoHeight => LocallyTyped(p, f, H, pc)

\* Every function that has code is typed by its entry of the table T.
TypedBy(p, T) ==
  \A f \in FnIds(p) : Pcs(p, f) # {} => IsTyping(p, f, T[f])
=============================================================================
