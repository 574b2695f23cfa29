----------------------------- MODULE MCVerifier -----------------------------
(***************************************************************************)
(* The programs the verifier is checked on.                                *)
(***************************************************************************)
EXTENDS Judgement

CONSTANT MaxLen      \* longest code of the exhaustive part
CONSTANT MaxHeight   \* highest stack of the typings that are tried

Chunk(params, locals, code) ==
  [n_params |-> params, n_locals |-> locals, code |-> code, consts |-> << <<65>> >>]
Program(fns, m) == [functions |-> fns, main |-> m]

\* Every code of at most MaxLen instructions over pushes, pops, a binary
\* instruction, returns and jumps to every offset, one out of range included,
\* and every code one longer without the binary instruction and Jump.
FlowOps(n) ==
  {Plain("PushUnit"), Plain("Pop"), Plain("Return")}
    \cup {WithN("JumpIfFalse", t) : t \in 0 .. n}
MoreOps(n) == {Plain("AddInt")} \cup {WithN("Jump", t) : t \in 0 .. n}
Codes ==
  UNION {[1 .. n -> FlowOps(n) \cup MoreOps(n)] : n \in 0 .. MaxLen}
    \cup [1 .. MaxLen + 1 -> FlowOps(MaxLen + 1)]
FlowPrograms == {Program(<<Chunk(0, 0, code)>>, 0) : code \in Codes}

\* Pairs of functions that exercise the operand checks; the second function has
\* one parameter, or has no code at all.
OperandOps ==
  {WithN("LoadLocal", 0), WithN("LoadLocal", 1), WithN("StoreLocal", 1),
   WithN("PushStr", 0), WithN("PushStr", 1), WithN("MakeArray", 2), Plain("SetIndex"),
   Call(0, 0), Call(1, 0), Call(1, 1), Call(2, 0),
   CallBuiltin("print_int", 1), CallBuiltin("print_int", 2),
   CallBuiltin("len", 1), CallBuiltin("len", 0)}
Callees == {Chunk(1, 1, <<WithN("LoadLocal", 0), Plain("Return")>>),
            Chunk(1, 0, <<Plain("Pop"), Plain("Return")>>),
            Chunk(0, 0, <<>>)}
OperandPrograms ==
  {Program(<<Chunk(0, 1, <<a, b, Plain("Return")>>), c>>, m) :
     a, b \in OperandOps, c \in Callees, m \in {0, 2}}

MCPrograms == FlowPrograms \cup OperandPrograms

MCHeights == 0 .. MaxHeight
=============================================================================
