------------------------------ MODULE MCPrograms ------------------------------
(***************************************************************************)
(* The programs both engines are checked on: every expression of one       *)
(* operator over operands that print, trap, are inlined or are constant,   *)
(* and hand-written ones for statements, data, calls and desugarings.      *)
(***************************************************************************)
EXTENDS Hir, Runtime, MCFloats

Program(fns)  == [functions |-> fns, main |-> 0]
Text(i)       == StrLit(i)
MCTexts       == << <<97>>, <<92, 110, 10, 34>>, <<97>> >>   \* "a", "\\n\n\"" and "a" again

X(l)          == Local("Int", l)
N(i)          == IntLit(i)
Show(e)      == Do(BuiltinCall("print_int", <<e>>))
PrintStr(e)   == Do(BuiltinCall("print_str", <<e>>))
Op2(op, a, b) == Binary("Int", op, a, b)
Test(op, a, b) == Binary("Bool", op, a, b)
Unit(stmts)   == Block(stmts, Nothing)
When(c, stmts) == Do(If("Unit", c, Unit(stmts), Nothing))
Pick(c, a, b) == If("Int", c, Block(<<>>, a), Block(<<>>, b))

\* The functions every program has: 1 prints its argument and returns it, 2 to 5
\* are inlined: an expression, one that uses its argument twice, one that traps
\* on 0, and one with a call in it.
Noisy(e) == FnCall("Int", 1, <<e>>)
Inc(e)   == FnCall("Int", 2, <<e>>)
Twice(e) == FnCall("Int", 3, <<e>>)
Over(e)  == FnCall("Int", 4, <<e>>)
Both(a, b) == FnCall("Int", 5, <<a, b>>)
Library == <<
  Function(1, 1, Block(<<Show(X(0))>>, X(0))),
  Function(1, 1, Block(<<>>, Op2("Add", X(0), N(1)))),
  Function(1, 1, Block(<<>>, Op2("Mul", X(0), X(0)))),
  Function(1, 1, Block(<<>>, Op2("Div", N(6), X(0)))),
  Function(2, 2, Block(<<>>, Op2("Sub", Noisy(X(1)), X(0)))) >>

MainOf(locals, stmts)  == Program(<<Function(0, locals, Unit(stmts))>> \o Library)
With(f, locals, stmts) == Program(<<Function(0, locals, Unit(stmts))>> \o Library \o f)

----------------------------------------------------------------------------
\* a op b, printed or bound to a local that nothing reads.
Atoms == {N(0), N(1), N(127), X(0), Noisy(N(2)), Inc(Noisy(N(4))), Over(X(0))}
Operators == {"Add", "Sub", "Mul", "Div", "Rem"}
Shown(e) == MainOf(1, <<Let(0, N(5)), Show(e)>>)
Unread(e)   == MainOf(2, <<Let(0, N(5)), Let(1, e), Show(X(0))>>)
Expressions == {Op2(op, a, b) : op \in Operators, a \in Atoms, b \in Atoms}
Sums == {Shown(e) : e \in Expressions} \cup {Unread(e) : e \in Expressions}

\* Two operators, of operands that print, are constant or are inlined.
Leaves == {N(0), X(0), Noisy(N(2)), Inc(N(4))}
Nests  == {Shown(Op2(outer, Op2(inner, a, b), c)) :
             outer \in Operators, inner \in Operators, a \in Leaves, b \in Leaves, c \in Leaves}

\* Conditions, with operands that print when they are evaluated.
Facts == {BoolLit(TRUE), BoolLit(FALSE), Test("Lt", X(0), N(3)), Test("Ge", Noisy(N(1)), N(1))}
Conditions ==
  {MainOf(1, <<Let(0, N(5)), Show(Pick(Test(op, a, b), N(1), Noisy(N(0))))>>) :
     op \in {"And", "Or", "Eq", "Ne"}, a \in Facts, b \in Facts}
  \cup {MainOf(0, <<When(Unary("Not", a), <<Show(N(1))>>), Show(Unary("Neg", N(b)))>>) :
     a \in {BoolLit(TRUE), BoolLit(FALSE), Test("Gt", Noisy(N(1)), N(1))}, b \in {0, MinInt}}
  \cup {MainOf(0, <<Do(If("Int", a, Block(<<Show(N(1))>>, N(2)), Block(<<Show(N(3))>>, N(4))))>>) :
     a \in {BoolLit(FALSE), Test("Gt", Noisy(N(1)), N(0))}}
  \cup {MainOf(0, <<Do(BuiltinCall("print_bool", <<Test(op, FloatLit(f), FloatLit(1))>>)),
                    Do(BuiltinCall("print_float", <<Unary("Neg",
                       Binary("Float", "Sub", FloatLit(f), FloatLit(1)))>>))>>) :
     op \in {"Le", "Ne", "Eq"}, f \in {0, 99}}

----------------------------------------------------------------------------
\* Loops that leave, skip or return when their counter reaches `at'.
Jumps == {Break, Continue, ReturnStmt(Nothing)}
ForLoop(jump, at) == MainOf(3, <<
  For(0, N(0), Noisy(N(3)), Unit(<<When(Test("Eq", X(0), N(at)), <<jump>>), Show(X(0))>>)),
  Let(2, N(9)), Show(X(2))>>)
WhileLoop(jump, at) == MainOf(1, <<
  Let(0, N(0)),
  While(Test("Lt", X(0), N(3)),
        Unit(<<Do(Assign(0, Op2("Add", X(0), N(1)))),
               When(Test("Eq", X(0), N(at)), <<jump>>), Show(X(0))>>)),
  Show(N(9))>>)
\* The jump leaves the inner loop only.
NestedLoops(jump) == MainOf(4, <<
  For(0, N(0), N(2), Unit(<<
    For(2, N(0), N(3), Unit(<<When(Test("Eq", X(2), X(0)), <<jump>>), Show(X(2))>>)),
    Show(N(7))>>))>>)
Whiles == {
  MainOf(0, <<While(BoolLit(FALSE), Unit(<<Show(N(1))>>)), Show(N(2))>>),
  MainOf(0, <<While(BoolLit(TRUE), Unit(<<>>))>>),
  MainOf(0, <<While(BoolLit(TRUE), Unit(<<Show(N(1)), Break, Show(N(2))>>)), Show(N(3))>>)}
Loops == {ForLoop(j, at) : j \in Jumps, at \in {0, 2}} \cup {WhileLoop(j, at) : j \in Jumps, at \in {1, 3}}
           \cup {NestedLoops(j) : j \in Jumps} \cup Whiles

----------------------------------------------------------------------------
\* A match is a chain of tests of a scrutinee that is evaluated once.
Match(v) == MainOf(1, <<Show(Block(<<Let(0, Noisy(N(v)))>>,
  Pick(Test("Eq", X(0), N(1)), N(10), Pick(Test("Eq", X(0), N(2)), N(20), X(0)))))>>)

\* The code behind a return is dead, and a return inside an expression is not.
Returns == {
  With(<<Function(0, 0, Block(<<ReturnStmt(N(1)), Show(N(2))>>, N(3)))>>, 0,
       <<Show(FnCall("Int", 6, <<>>))>>),
  With(<<Function(1, 1, Block(<<When(Test("Lt", X(0), N(2)), <<ReturnStmt(N(1))>>)>>,
                              Op2("Mul", X(0), FnCall("Int", 6, <<Op2("Sub", X(0), N(1))>>))))>>,
       0, <<Show(FnCall("Int", 6, <<N(4)>>))>>)}

\* Calls that are inlined into each other, and a pair that call one another.
Even(e) == FnCall("Bool", 6, <<e>>)
Odd(e)  == FnCall("Bool", 7, <<e>>)
Countdown(e, other(_), zero) ==
  If("Bool", Test("Eq", e, N(0)), Block(<<>>, BoolLit(zero)),
     Block(<<>>, other(Op2("Sub", e, N(1)))))
Inlinings == {
  MainOf(0, <<Show(Both(Noisy(N(1)), Inc(Noisy(N(2)))))>>),
  MainOf(1, <<Let(0, N(2)), Show(Twice(Twice(Inc(X(0))))), Show(Over(Twice(N(0))))>>),
  With(<<Function(1, 1, Block(<<>>, Countdown(X(0), Odd, TRUE))),
         Function(1, 1, Block(<<>>, Countdown(X(0), Even, FALSE)))>>, 0,
       <<Do(BuiltinCall("print_bool", <<Even(N(3))>>))>>)}

\* Arrays and structs are shared; a string literal may occur twice.
Arr(l) == Local("Array", l)
Data == {
  MainOf(2, <<Let(0, ArrayLit(<<N(1), Noisy(N(2))>>)), Let(1, Arr(0)),
              Do(SetItem(Arr(1), N(0), Noisy(N(9)))),
              Show(GetItem("Int", Arr(0), N(0))),
              Do(BuiltinCall("print_bool", <<Test("Eq", Arr(0), Arr(1))>>))>>),
  MainOf(1, <<Let(0, ArrayLit(<<N(1)>>)), Do(SetItem(Arr(0), Noisy(N(1)), Noisy(N(3)))), Show(N(4))>>),
  MainOf(1, <<Let(0, ArrayLit(<<N(1)>>)), Show(GetItem("Int", Arr(0), N(-1)))>>),
  MainOf(2, <<Let(0, StructLit(<<N(1), Text(2)>>)), Let(1, Arr(0)),
              Do(SetField(Arr(1), 0, Noisy(N(6)))), Show(GetField("Int", Arr(0), 0)),
              PrintStr(GetField("Str", Arr(1), 1))>>),
  MainOf(5, <<Let(0, ArrayLit(<<N(4), N(5)>>)), Let(1, BuiltinCall("len", <<Arr(0)>>)),
              For(2, N(0), X(1), Unit(<<Let(4, GetItem("Int", Arr(0), X(2))),
                                          When(Test("Eq", X(4), N(4)), <<Continue>>),
                                          Show(X(4))>>))>>),
  MainOf(1, <<Let(0, Text(3)),
              PrintStr(Binary("Str", "Add", Text(1), Binary("Str", "Add", Text(2), Local("Str", 0)))),
              Do(BuiltinCall("print_bool", <<Test("Eq", Text(1), Text(3))>>))>>)}

\* Powers, up to the largest exponent that pow_int takes.
Powers == {MainOf(0, <<Show(BuiltinCall("pow_int", <<N(3), Noisy(N(n))>>))>>) : n \in {0, 2, MaxExp}}

\* Hand-written ones, each about more than one operator.
Written == Powers \cup Loops \cup {Match(v) : v \in 1 .. 3} \cup Returns \cup Inlinings \cup Data

\* A jump while the left operand of an addition is already evaluated.
OperandJumps == {MainOf(0, <<While(BoolLit(TRUE),
  Unit(<<Show(Op2("Add", N(1), Block(<<Break>>, N(2))))>>))>>)}
=============================================================================
