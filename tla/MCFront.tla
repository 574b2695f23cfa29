------------------------------- MODULE MCFront -------------------------------
(***************************************************************************)
(* What the front end is checked on: programs without mistakes, each also  *)
(* with one mistake at every place; and every form of expression and       *)
(* statement over operands of every type, most of them ill-typed.          *)
(***************************************************************************)
EXTENDS FrontEnd, MCFloats

MCTexts == << <<>>, <<97>>, <<98>> >>       \* "", "a", "b"

I(i)  == IntExpr(i)
V(x)  == NameExpr(x)
T     == BoolExpr(TRUE)
F     == BoolExpr(FALSE)
I64   == NamedType("i64")
Logic == NamedType("bool")
Use(f, args)    == CallExpr(V(f), args)
Show(e)          == ExprStmt(Use("print_int", <<e>>))
Run(e)            == ExprStmt(e)
Noisy(i)         == Use("noisy", <<I(i)>>)
Bin(op, a, b)     == BinaryExpr(op, a, b)
Is(x, e)         == LetStmt(FALSE, x, NoType, e)
Mut(x, e)        == LetStmt(TRUE, x, NoType, e)
As(x, ty, e)     == LetStmt(FALSE, x, ty, e)
Braces(stmts)    == BlockExpr(stmts, Absent)
Value(e)         == BlockExpr(<<>>, e)
When(c, stmts)   == Run(IfExpr(c, Braces(stmts), Absent))
Pick(c, a, b)    == IfExpr(c, Value(a), Value(b))
Func(name, params, ret, stmts, tail) == FnItem(name, params, ret, BlockExpr(stmts, tail))
Pt(a, b)         == StructExpr("P", <<"y", "x">>, <<b, a>>)

\* What every program can use; `late' is declared after it is used.
Library == <<
  StructItem("P", <<Member("x", I64), Member("y", I64)>>),
  ConstItem("K", I64, I(2)),
  Func("noisy", <<Member("n", I64)>>, I64, <<Show(V("n"))>>, V("n"))>>
MainOf(stmts)       == Library \o <<Func("main", <<>>, NoType, stmts, Absent)>>
With(others, stmts) == MainOf(stmts) \o others

----------------------------------------------------------------------------
(* Programs without mistakes.                                              *)

Scoping == {
  MainOf(<<Is("x", I(1)), Is("x", Bin("Add", V("x"), V("K"))), Show(V("x")),
           Run(Braces(<<Is("x", I(7)), Show(V("x"))>>)), Show(V("x")),
           ForStmt("x", V("x"), I(5), Braces(<<Show(V("x")), Is("x", I(9)), Show(V("x"))>>)),
           Show(V("x"))>>),
  MainOf(<<Is("K", ArrayExpr(<<V("K"), I(4)>>)),
           ForEachStmt("K", V("K"), Braces(<<Show(V("K"))>>)),
           Show(Pick(T, IndexExpr(V("K"), I(0)), I(3)))>>),
  With(<<Func("late", <<Member("K", I64), Member("p", NamedType("P"))>>, I64,
            <<Is("q", V("p")), Run(AssignExpr(FieldExpr(V("q"), "x"), V("K")))>>,
            Bin("Sub", FieldExpr(V("p"), "x"), FieldExpr(V("p"), "y")))>>,
       <<Show(Use("late", <<I(5), Pt(I(1), Noisy(3))>>))>>)}

Desugared == {
  MainOf(<<Mut("y", I(10)), Run(AssignOpExpr(V("y"), "Sub", Noisy(3))), Show(V("y")),
           Run(AssignOpExpr(V("y"), "Div",
                BlockExpr(<<Run(AssignExpr(V("y"), I(2)))>>, V("y")))), Show(V("y"))>>),
  MainOf(<<Is("p", Pt(Noisy(1), Noisy(2))), Show(Bin("Sub", FieldExpr(V("p"), "x"), FieldExpr(V("p"), "y"))),
           Run(AssignExpr(FieldExpr(V("p"), "y"), Noisy(6))), Show(FieldExpr(V("p"), "y"))>>),
  MainOf(<<As("t", TupleType(<<I64, Logic>>), TupleExpr(<<Noisy(1), T>>)),
           Run(AssignExpr(TupleIndexExpr(V("t"), 0), Noisy(4))),
           Show(Pick(TupleIndexExpr(V("t"), 1), TupleIndexExpr(V("t"), 0), I(0)))>>),
  MainOf(<<As("a", ArrayType(I64), ArrayExpr(<<I(1), I(2), Noisy(3)>>)),
           ForEachStmt("v", V("a"), Braces(<<
             Run(AssignExpr(IndexExpr(V("a"), I(1)), I(8))),
             When(Bin("Eq", V("v"), I(8)), <<ContinueStmt>>), Show(V("v"))>>)),
           ForEachStmt("v", ArrayExpr(<<Noisy(5)>>), Braces(<<
             ForEachStmt("w", V("a"), Braces(<<Show(Bin("Add", V("v"), V("w"))), BreakStmt>>))>>)),
           Show(Use("len", <<V("a")>>)), Show(IndexExpr(V("a"), I(3)))>>),
  MainOf(<<ForStmt("k", Noisy(0), I(4), Braces(<<
             Show(MatchExpr(V("k"), <<I(1), I(3), Wild, I(2)>>,
                            <<Noisy(9), I(6), Bin("Mul", V("k"), I(3)), I(0)>>))>>)),
           Show(MatchExpr(Bin("Lt", Noisy(1), V("K")), <<T, F>>,
                          <<MatchExpr(F, <<F, Wild>>, <<I(4), I(5)>>), I(7)>>)),
           Run(MatchExpr(I(3), <<I(3), Wild>>, <<Braces(<<Show(I(3))>>), Braces(<<>>)>>))>>)}

Flow == {
  MainOf(<<Mut("n", I(0)),
           WhileStmt(Bin("Lt", V("n"), I(9)), Braces(<<
             Run(AssignExpr(V("n"), Bin("Add", V("n"), I(1)))),
             When(Bin("Eq", Bin("Rem", V("n"), I(2)), I(0)), <<ContinueStmt>>),
             When(Bin("Gt", V("n"), I(6)), <<BreakStmt>>), Show(V("n"))>>)),
           Show(UnaryExpr("Neg", V("n")))>>),
  With(<<Func("late", <<Member("n", I64)>>, I64,
            <<When(Bin("Le", V("n"), I(1)), <<RetStmt(I(1))>>)>>,
            Bin("Mul", V("n"), Use("late", <<Bin("Sub", V("n"), I(1))>>))),
         Func("sign", <<Member("n", I64)>>, I64, <<
            Run(IfExpr(Bin("Lt", V("n"), I(0)), Braces(<<RetStmt(UnaryExpr("Neg", I(1)))>>),
               IfExpr(Bin("Gt", V("n"), I(0)), Braces(<<RetStmt(I(1))>>), Braces(<<RetStmt(I(0))>>))))>>,
            Absent)>>,
       <<Show(Use("late", <<I(6)>>)), Show(Use("sign", <<Noisy(3)>>)),
         When(T, <<RetStmt(Absent)>>), Show(I(1))>>),
  MainOf(<<Is("b", Bin("And", F, Bin("Eq", Noisy(1), I(1)))),
           Is("c", Bin("Or", UnaryExpr("Not", V("b")), Bin("Eq", Noisy(2), I(1)))),
           Run(Use("print_bool", <<Bin("Ne", V("b"), V("c"))>>)),
           Show(Bin("Div", I(1), Use("str_len", <<StrExpr(1)>>)))>>)}

Data == {
  <<ConstItem("A", I64, Bin("Mul", I(100), UnaryExpr("Neg", I(3)))),
    ConstItem("B", Logic, Bin("And", Bin("Lt", V("A"), I(0)), UnaryExpr("Not", F))),
    ConstItem("C", NamedType("str"), StrExpr(2)),
    ConstItem("D", NamedType("f64"), Bin("Add", FloatExpr(1), UnaryExpr("Neg", FloatExpr(0))))>>
  \o With(<<>>, <<Show(V("A")), Run(Use("print_bool", <<V("B")>>)), Show(Bin("Rem", V("A"), V("K"))),
                  Run(Use("print_str", <<Bin("Add", V("C"), StrExpr(3))>>)),
                  Run(Use("print_float", <<Bin("Sub", V("D"), FloatExpr(2))>>))>>),
  With(<<StructItem("Q", <<Member("p", NamedType("P")), Member("a", ArrayType(NamedType("str")))>>)>>,
       <<Is("q", StructExpr("Q", <<"a", "p">>, <<ArrayExpr(<<StrExpr(2)>>), Pt(I(1), I(2))>>)),
         Is("r", FieldExpr(V("q"), "p")),
         Run(AssignExpr(FieldExpr(V("r"), "x"), I(8))), Show(FieldExpr(FieldExpr(V("q"), "p"), "x")),
         Run(Use("print_bool", <<Bin("Eq", V("r"), Pt(I(8), I(2)))>>)),
         Run(Use("print_str", <<IndexExpr(FieldExpr(V("q"), "a"), I(0))>>))>>)}

Correct == Scoping \cup Desugared \cup Flow \cup Data

----------------------------------------------------------------------------
(* One mistake.                                                            *)

RECURSIVE Replace(_, _, _)
\* e, with the node at the path replaced.
Replace(e, path, new) ==
  IF path = <<>> THEN new ELSE [e EXCEPT !.kids[path[1]] = Replace(@, Tail(path), new)]

\* The places of the expressions the parser would accept a name at.
Replaceable(e) == e.kind \notin StatementKinds \cup {"Absent", "Block"} /\ ~ Diverges(e)
Places(item) == {n.at : n \in {n \in Nodes(item.body, <<>>) : Replaceable(n.e)}}

WithName(items) ==
  UNION {{[items EXCEPT ![i].body = Replace(@, path, V("nowhere"))] :
            path \in IF items[i].kind = "Const" THEN {<<>>} ELSE Places(items[i])} :
         i \in {i \in DOMAIN items : items[i].kind \in {"Fn", "Const"}}}

\* A written type: of an item, of a member, or of a let.
WithType(items, ty) ==
  UNION {
    {[items EXCEPT ![i].ty = ty] : i \in {i \in DOMAIN items : items[i].ty # NoType}},
    UNION {{[items EXCEPT ![i].members[k].ty = ty] : k \in DOMAIN items[i].members} : i \in DOMAIN items},
    UNION {{[items EXCEPT ![i].body = Replace(@, n.at, [n.e EXCEPT !.ann = ty])] :
              n \in {n \in Nodes(items[i].body, <<>>) : n.e.kind = "Let"}} :
           i \in {i \in DOMAIN items : items[i].kind = "Fn"}}}

Candidate(items, malformed, mistakes) ==
  [items |-> items, malformed |-> malformed, mistakes |-> mistakes]
Sound   == {Candidate(p, FALSE, {0}) : p \in Correct}
Slipped == UNION {{Candidate(q, FALSE, {1}) :
                     q \in WithName(p) \cup WithType(p, NamedType("nowhere"))
                             \cup WithType(p, ArrayType(NamedType("nowhere")))} : p \in Correct}
Broken  == UNION {{Candidate(q, TRUE, {0}) : q \in WithType(p, Malformed)} : p \in Correct}

----------------------------------------------------------------------------
(* Every form, over operands of every type.                                *)

Prelude == <<
  Mut("m", I(1)), Is("c", I(0)), Is("b", T), Mut("s", StrExpr(2)), Mut("f", FloatExpr(1)),
  Mut("a", ArrayExpr(<<I(1), I(0)>>)), Is("p", Pt(I(3), I(4))),
  Is("t", TupleExpr(<<I(1), F>>)), Is("u", Braces(<<>>))>>
Names == {V(x) : x \in {"m", "c", "b", "s", "f", "a", "p", "t", "u", "K"}}
Atoms == Names \cup {I(0), V("noisy"), V("len"), V("nowhere")}
Few   == {I(1), T, V("u"), V("a"), V("t")}

Operators == Equality \cup Ordered \cup Logical \cup Numeric
Types == {NoType, I64, Logic, NamedType("P"), ArrayType(I64), ArrayType(NamedType("P")),
          TupleType(<<I64, Logic>>), NamedType("nowhere")}
Targets == Names \cup {V("noisy"), I(1)} \cup {FieldExpr(a, "x") : a \in Names}
             \cup {TupleIndexExpr(a, 1) : a \in Names} \cup {IndexExpr(a, I(1)) : a \in Names}

Forms == UNION {
  {UnaryExpr(op, a) : op \in {"Neg", "Not"}, a \in Atoms},
  {Bin(op, a, b) : op \in Operators, a \in Atoms, b \in Atoms},
  {IndexExpr(a, b) : a \in Atoms, b \in Few},
  {FieldExpr(a, f) : a \in Atoms, f \in {"x", "z"}},
  {TupleIndexExpr(a, k) : a \in Atoms, k \in {0, 2}},
  {CallExpr(f, args) : f \in Atoms, args \in {<<>>} \cup {<<a>> : a \in Atoms} \cup {<<I(1), I(1)>>}},
  {Use(f, <<a>>) : f \in {"str_len", "to_float", "nowhere"}, a \in Atoms},
  {AssignExpr(to, a) : to \in Targets, a \in Few \cup {V("K")}},
  {AssignOpExpr(to, op, a) : to \in Targets, op \in {"Add", "Div"}, a \in {I(2), V("b"), V("f"), V("s")}},
  {ArrayExpr(<<>>)} \cup {ArrayExpr(<<a, b>>) : a \in Atoms, b \in Few},
  {TupleExpr(<<a, b>>) : a \in Atoms, b \in Few},
  {StructExpr(x, names, <<a, I(1)>>) :
     x \in {"P", "nowhere"}, names \in {<<"x", "y">>, <<"x", "x">>, <<"y", "z">>}, a \in Atoms},
  {StructExpr("P", <<"y">>, <<a>>) : a \in Few},
  {IfExpr(c, Value(a), e) : c \in Few, a \in Atoms, e \in {Absent} \cup {Value(b) : b \in Few}},
  {MatchExpr(a, pats, <<I(1), b>>) :
     a \in Atoms, b \in Few, pats \in {<<I(1), Wild>>, <<T, F>>, <<Wild, F>>, <<F, F>>, <<I(0), T>>}}}

FormStmts == UNION {
  {Is("r", e) : e \in Forms},
  {As("r", ty, a) : ty \in Types, a \in Atoms},
  {WhileStmt(a, Braces(<<BreakStmt>>)) : a \in Atoms},
  {ForStmt("i", a, b, Braces(<<Show(V("i"))>>)) : a \in Atoms, b \in Few},
  {ForEachStmt("i", a, Braces(<<Run(AssignExpr(V("i"), b))>>)) : a \in Atoms, b \in Few},
  {ForEachStmt("i", a, Braces(<<Show(V("i"))>>)) : a \in Atoms},
  {RetStmt(a) : a \in Atoms \cup {Absent}},
  {BreakStmt, ContinueStmt}}

\* Functions, and constants, of every type and value.
FormItems == UNION {
  {Func("late", <<Member(x, I64), Member("k", ty)>>, ty, <<>>, tail) :
     x \in {"m", "k"}, ty \in Types \ {NoType}, tail \in {Absent, I(1), T, V("k"), V("m")}},
  {Func("late", <<Member("n", I64), Member("k", I64)>>, I64, <<Run(e)>>, Absent) :
     e \in {Pick(c, I(1), I(2)) : c \in {T, F}}
             \cup {IfExpr(c, Braces(<<RetStmt(I(1))>>), e) :
                     c \in {T, F}, e \in {Absent, Braces(<<>>), Braces(<<RetStmt(F)>>),
                                          Braces(<<RetStmt(V("n")), Show(V("k"))>>)}}},
  {ConstItem(x, ty, e) : x \in {"C", "K"}, ty \in Types \ {NoType},
     e \in {I(1), V("K"), Bin("Div", V("K"), I(0)), Bin("Eq", V("K"), I(2)), Noisy(1), T, StrExpr(1)}},
  {Func("noisy", <<>>, NoType, <<>>, Absent), Func("print_int", <<>>, NoType, <<>>, Absent),
   StructItem("P", <<>>), StructItem("Q", <<Member("x", I64), Member("x", Logic)>>)}}

Formed ==
  {Candidate(MainOf(Append(Prelude, s)), FALSE, {}) : s \in FormStmts}
  \cup {Candidate(With(<<it>>, <<Show(Use("late", <<I(4), e>>))>>), FALSE, {}) :
          it \in {it \in FormItems : it.name = "late"}, e \in {I(5), F, Pt(I(1), I(2))}}
  \cup {Candidate(With(<<it>>, <<Show(V("K"))>>), FALSE, {}) : it \in FormItems}
  \cup {Candidate(<<Func(x, params, ret, <<>>, Absent)>>, FALSE, {}) :
          x \in {"main", "late"}, params \in {<<>>, <<Member("n", I64)>>}, ret \in {NoType, I64}}

MCCandidates == Sound \cup Slipped \cup Broken \cup Formed

----------------------------------------------------------------------------
\* A constant that refers to one declared after it.
ForwardConstants ==
  {Candidate(<<ConstItem("A", I64, V("B")), ConstItem("B", I64, I(1))>> \o MainOf(<<Show(V("A"))>>),
             FALSE, {})}
=============================================================================
