------------------------------- MODULE MCExec -------------------------------
(***************************************************************************)
(* The programs `lumenc exec' is checked on: every short code over a small *)
(* instruction set, and hand-written programs for the rest of it.          *)
(***************************************************************************)
EXTENDS Exec, MCFloats

CONSTANT MaxLen      \* longest code of the exhaustive part

Chunk(params, locals, code) ==
  [n_params |-> params, n_locals |-> locals, code |-> code,
   consts |-> << <<65, 98>>, <<98>> >>]
Program(fns) == [functions |-> fns, main |-> 0]
Main(locals, code) == Program(<<Chunk(0, locals, code)>>)

I(i)     == WithN("PushInt", i)
B(b)     == WithN("PushBool", b)
F(f)     == WithN("PushFloat", f)
S(i)     == WithN("PushStr", i)
Get(s)   == WithN("LoadLocal", s)
Set(s)   == WithN("StoreLocal", s)
Jmp(t)   == WithN("Jump", t)
JmpF(t)  == WithN("JumpIfFalse", t)
Arr(n)   == WithN("MakeArray", n)
Do(name) == Plain(name)
Ret      == Plain("Return")

----------------------------------------------------------------------------
\* Every code of at most MaxLen instructions for main, followed by nothing, by
\* Return, or by a callee that takes one argument.
ShortOps(n) ==
  {B(0), B(1), Do("Pop"), Ret, Get(0), Set(0), Call(1, 1)}
    \cup {WithN(j, t) : j \in JumpOps, t \in 0 .. n}
Callee == Chunk(1, 2, <<Get(0), Do("NotBool"), Ret>>)
ShortPrograms ==
  {Program(<<Chunk(0, 1, code), Callee>>) :
     code \in UNION {[1 .. n -> ShortOps(n)] : n \in 0 .. MaxLen}}
  \cup {Program(<<Chunk(0, 1, Append(code, Ret)), Callee>>) :
     code \in [1 .. MaxLen -> ShortOps(MaxLen)]}

----------------------------------------------------------------------------
\* fact(3), recursive: the frames of four calls share the stack.
Factorial == Program(<<
  Chunk(0, 0, <<I(3), Call(1, 1), CallBuiltin("print_int", 1), Ret>>),
  Chunk(1, 1, <<Get(0), I(2), Do("LtInt"), JmpF(6), I(1), Ret,
                Get(0), Get(0), I(1), Do("SubInt"), Call(1, 1), Do("MulInt"), Ret>>)>>)

\* Two arguments, an extra local, operands of the caller below the arguments.
Nested == Program(<<
  Chunk(0, 1, <<I(5), Set(0), Get(0), I(1), I(2), Call(1, 2), Do("AddInt"), Ret>>),
  Chunk(2, 3, <<Get(0), Get(1), Do("SubInt"), Set(2), Get(2), Set(0), Get(0), Ret>>)>>)

\* A callee with parameters it does not count as locals, and a main that is
\* entered without the parameter it declares: both verify.
Uncounted == Program(<<
  Chunk(1, 0, <<I(1), Call(1, 1), Ret>>),
  Chunk(1, 0, <<Do("PushUnit"), Ret>>)>>)

\* The result of reading element i of <<7, 9>> after an alias changed it.
Aliased(i) == Main(2, <<
  I(7), I(9), Arr(2), Set(0), Get(0), Set(1),
  Get(1), I(i), I(3), Do("SetIndex"), Do("Pop"),
  Get(0), Get(1), Do("Eq"), JmpF(19), Get(0), I(i), Do("Index"), Ret,
  Do("PushUnit"), Ret>>)
ReadPast(i) == Main(0, <<I(7), Arr(1), I(i), Do("Index"), Ret>>)
Lengths == Main(0, <<I(7), I(7), Arr(2), Do("ArrayLen"), I(7), Arr(1), I(8), Arr(1),
                     Do("Ne"), Do("Pop"), Ret>>)

\* Arrays that contain themselves: compared with themselves, and with each other
\* after an element that differs.
Cyclic == Main(1, <<Do("PushUnit"), Arr(1), Set(0), Get(0), I(0), Get(0), Do("SetIndex"),
                    Do("Pop"), Get(0), Get(0), Do("Eq"), Ret>>)
CyclicButDifferent == Main(2, <<
  I(1), Do("PushUnit"), Arr(2), Set(0), Get(0), I(1), Get(0), Do("SetIndex"), Do("Pop"),
  I(2), Do("PushUnit"), Arr(2), Set(1), Get(1), I(1), Get(1), Do("SetIndex"), Do("Pop"),
  Get(0), Get(1), Do("Ne"), Ret>>)

Arithmetic(a, op, b) == Main(0, <<I(a), I(b), Do(op), Do("NegInt"), Ret>>)
Ordering(a, op, b)   == Main(0, <<I(a), I(b), Do(op), Do("NotBool"), Ret>>)
Floating(a, op, b)   == Main(0, <<F(a), F(b), Do(op), Do("NegFloat"), Ret>>)
FloatOrdering(op)    == Main(0, <<F(99), F(1), Do(op), F(99), F(99), Do("Eq"), Do("Eq"), Ret>>)

Strings == Main(0, <<S(0), S(1), Do("ConcatStr"), CallBuiltin("to_upper", 1),
                     CallBuiltin("print_str", 1), S(0), I(1), CallBuiltin("char_at", 2), Ret>>)
Repeats(n)  == Main(0, <<S(0), I(n), CallBuiltin("str_repeat", 2), Ret>>)
CharAt(n)   == Main(0, <<S(0), I(n), CallBuiltin("char_at", 2), Ret>>)
Powers(n)   == Main(0, <<I(1), CallBuiltin("print_int", 1), Do("Pop"),
                         I(3), I(n), CallBuiltin("pow_int", 2), Ret>>)
Confused(op) == Main(0, <<B(1), Do("PushUnit"), Do(op), Ret>>)
PrintsUnit  == Main(0, <<Do("PushUnit"), CallBuiltin("print_int", 1), Ret>>)
Forever     == Main(0, <<Jmp(0)>>)
Deeper      == Program(<<Chunk(0, 1, <<Call(0, 0), Ret>>)>>)

HandWritten ==
  {Factorial, Nested, Uncounted, Cyclic, CyclicButDifferent, Lengths, Strings, PrintsUnit,
   Forever, Deeper}
  \cup {Aliased(i) : i \in {1, 2}} \cup {ReadPast(i) : i \in {-1, 0, 1}}
  \cup {Arithmetic(a, op, b) : a \in {MinInt, -7}, op \in IntArith, b \in {-1, 0, 3}}
  \cup {Ordering(a, op, 3) : a \in {2, 3, 4}, op \in IntOrder}
  \cup {Floating(a, op, 0) : a \in {0, 1}, op \in FltArith}
  \cup {FloatOrdering(op) : op \in FltOrder}
  \cup {Repeats(n) : n \in {-1, 2, 9}} \cup {CharAt(n) : n \in {-1, 2}}
  \cup {Powers(n) : n \in {-1, 3, 16}}
  \cup {Confused(op) : op \in {"AddInt", "Index", "ConcatStr", "LtFloat", "Eq"}}

\* A call of a function without code: verify lets it through.
EmptyCallee == {Program(<<Chunk(0, 1, <<Call(1, 0), Ret>>), Chunk(0, 0, <<>>)>>)}

\* A string that is too long to repeat nine times.
LongRepeat == {Repeats(n) : n \in {2, 9}}

Samples    == HandWritten \cup EmptyCallee
MCPrograms == ShortPrograms \cup Samples

=============================================================================
