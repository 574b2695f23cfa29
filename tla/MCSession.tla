------------------------------ MODULE MCSession ------------------------------
(***************************************************************************)
(* What `lumenc' is checked on.                                            *)
(***************************************************************************)
EXTENDS Session, Codegen, Optimizer, HirSemantics, MCPrograms

CONSTANT Fuel    \* the loop turns and calls a program's meaning is computed for

FueledMeaning(h) == Meaning(h, Fuel)

\* Before code generation there is no program.
NoPrograms == {NoProgram}

\* A call of n arguments.
Wide(n) == With(<<Function(n, n, Block(<<Show(X(0))>>, X(n - 1)))>>, 0,
                <<Show(FnCall("Int", 6, [k \in 1 .. n |-> N(k)]))>>)

MCCorpus == Sums \cup Nests \cup Conditions \cup Written
              \cup {Wide(MaxArgc), MainOf(0, <<>>)}

\* The commands that look at the code itself.
CodeCommands == {"run", "verify", "build"}

----------------------------------------------------------------------------
\* A let that nothing reads, of a division by zero.
Traps == {Unread(Op2("Div", N(1), N(0)))}
=============================================================================
