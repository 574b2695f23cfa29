-------------------------------- MODULE MCMir --------------------------------
(***************************************************************************)
(* What the second engine is checked on: the programs of MCPrograms, and   *)
(* ones about values that are kept in registers while locals and arrays    *)
(* change, about blocks nothing jumps to, and about runs that do not end.  *)
(***************************************************************************)
EXTENDS Engines, MirBuild, Optimizer, HirSemantics, MCPrograms

CONSTANT Fuel    \* the loop turns and calls a program's meaning is computed for

FueledMeaning(h) == Meaning(h, Fuel)

\* The local is read before and after a store of the same block.
Rereads == {
  MainOf(2, <<Let(0, N(5)), Let(1, Op2(op, X(0), Block(<<Do(Assign(0, N(7)))>>, X(0)))),
              Do(Assign(0, Op2("Add", X(1), X(0)))), Show(X(0)), Show(X(0))>>) :
     op \in {"Add", "Sub", "Mul"}}

\* The operands of an operator are in different blocks.
Splits == {
  MainOf(1, <<Let(0, N(5)),
              Show(Op2("Sub", Op2("Mul", X(0), N(3)), Pick(c, Noisy(N(1)), X(0)))),
              Show(Op2("Mul", X(0), N(3)))>>) : c \in Facts}

\* The same computation twice, of an element that changes in between.
Elements == {
  MainOf(1, <<Let(0, ArrayLit(<<N(1), N(2)>>)),
              Show(Op2("Add", GetItem("Int", Arr(0), N(i)), N(1))),
              Do(SetItem(Arr(0), N(0), N(9))),
              Show(Op2("Add", GetItem("Int", Arr(0), N(i)), N(1)))>>) : i \in {0, 2}}

\* Empty branches and loops, one that only leaves, and a loop in a loop that does nothing.
Empties == {
  MainOf(1, <<Let(0, N(0)), When(Test("Lt", X(0), N(1)), <<>>), Show(X(0))>>),
  MainOf(2, <<For(0, N(0), N(2), Unit(<<>>)), Show(N(9))>>),
  MainOf(1, <<Let(0, N(5)), While(Test("Lt", X(0), N(9)), Unit(<<Break>>)), Show(N(9))>>),
  MainOf(0, <<While(BoolLit(TRUE), Unit(<<While(BoolLit(TRUE), Unit(<<>>))>>))>>)}

\* 1 + 2 + ... + n, of which the passes fold one addition a turn.
SumTo(n) ==
  LET sum[k \in 1 .. n] == IF k = 1 THEN N(1) ELSE Op2("Add", sum[k - 1], N(k))
  IN MainOf(0, <<Show(sum[n])>>)

\* A function that never stops calling itself.
Endless == {With(<<Function(0, 0, Block(<<>>, FnCall("Int", 6, <<>>)))>>, 0,
                 <<Show(FnCall("Int", 6, <<>>))>>)}

MirCorpus == Sums \cup Nests \cup Conditions \cup Written \cup OperandJumps
               \cup Rereads \cup Splits \cup Elements \cup Empties \cup {SumTo(11)} \cup Endless

----------------------------------------------------------------------------
\* Two arrays that are equal until an element changes.
Same == Do(BuiltinCall("print_bool", <<Test("Eq", Arr(0), Arr(1))>>))
StaleEquality == {MainOf(2, <<Let(0, ArrayLit(<<N(1)>>)), Let(1, ArrayLit(<<N(1)>>)),
                              Same, Do(SetItem(Arr(0), N(0), N(2))), Same>>)}
=============================================================================
