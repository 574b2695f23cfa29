------------------------------ MODULE Optimizer ------------------------------
(***************************************************************************)
(* The HIR optimizer (opt): inlining, constant folding and dead-code       *)
(* elimination, each one walk over the program.  The walks of the code     *)
(* visit every child of every node, so they are written once over `kids'.  *)
(*                                                                         *)
(* The code counts its rewrites; every rewrite changes the tree, so a pass *)
(* rewrote nothing exactly if it returns the tree it was given.            *)
(***************************************************************************)
EXTENDS Hir, Runtime

LOCAL INSTANCE SequencesExt

WithKids(e, kids) == [e EXCEPT !.kids = kids]
OnBodies(hir, body(_)) ==
  [hir EXCEPT !.functions = [i \in DOMAIN @ |-> [@[i] EXCEPT !.body = body(@)]]]

\* is_pure: calls, stores and control flow have effects.  An operator that can
\* fail has none.
Effects == CallKinds \cup {"Assign", "SetIndex", "SetField",
                           "Return", "While", "For", "Break", "Continue"}

\* Faulty variant: a call is taken to be pure.
RECURSIVE IsPureCalls(_)
IsPureCalls(e) == /\ e.kind \notin Effects \ CallKinds
                  /\ \A i \in DOMAIN e.kids : IsPureCalls(e.kids[i])

RECURSIVE IsPure(_)
IsPure(e) == e.kind \notin Effects /\ \A i \in DOMAIN e.kids : IsPure(e.kids[i])

----------------------------------------------------------------------------
(* fold: children first, then the node.                                    *)

IsLit(e)  == e.kind \in {"Int", "Float", "Bool", "Str"}
IsZero(e) == \/ e.kind = "Int" /\ e.n = 0
             \/ e.kind = "Float" /\ F64.eq[e.n, F64.ofInt[0]]
IsOne(e)  == \/ e.kind = "Int" /\ e.n = 1
             \/ e.kind = "Float" /\ F64.eq[e.n, F64.ofInt[1]]
IsBool(e, b) == e = BoolLit(b)

Arithmetic == {"Add", "Sub", "Mul", "Div", "Rem"}
Orders     == {"Lt", "Le", "Gt", "Ge"}

\* const_binary on two literals of one type; the node itself when there is no
\* constant, as for a division by zero.
ConstInt(e, a, b) ==
  IF e.x \in Arithmetic
  THEN LET r == ArithInt(Named(e.x, "Int"), a, b)
       IN IF r.status = "ok" THEN IntLit(r.v.v) ELSE e
  ELSE CASE e.x \in Orders -> BoolLit(OrderInt(Named(e.x, "Int"), a, b))
         [] e.x = "Eq"     -> BoolLit(a = b)
         [] e.x = "Ne"     -> BoolLit(a # b)

ConstFloat(e, a, b) ==
  CASE e.x \in Arithmetic -> FloatLit(ArithFloat(Named(e.x, "Float"), a, b))
    [] e.x \in Orders     -> BoolLit(OrderFloat(Named(e.x, "Float"), a, b))
    [] e.x = "Eq"         -> BoolLit(F64.eq[a, b])
    [] e.x = "Ne"         -> BoolLit(~ F64.eq[a, b])

ConstBool(e, a, b) ==
  CASE e.x = "Eq"  -> BoolLit(a = b)
    [] e.x = "Ne"  -> BoolLit(a # b)
    [] e.x = "And" -> BoolLit(a = 1 /\ b = 1)
    [] e.x = "Or"  -> BoolLit(a = 1 \/ b = 1)

ConstBinary(e) ==
  LET a == e.kids[1]   b == e.kids[2]
  IN IF ~ (IsLit(a) /\ a.kind = b.kind) THEN e
     ELSE CASE a.kind = "Int"   -> ConstInt(e, a.n, b.n)
            [] a.kind = "Float" -> ConstFloat(e, a.n, b.n)
            [] a.kind = "Bool"  -> ConstBool(e, a.n, b.n)
            [] a.kind = "Str"   ->
                 CASE e.x = "Eq" -> BoolLit(Texts[a.n] = Texts[b.n])
                   [] e.x = "Ne" -> BoolLit(Texts[a.n] # Texts[b.n])
                   [] OTHER      -> e

\* The algebraic identities; two literals were folded before.
Identity(e) ==
  LET a == e.kids[1]   b == e.kids[2]
  IN CASE e.x \in {"Add", "Sub"} /\ IsZero(b)       -> a
       [] e.x = "Add" /\ IsZero(a)                  -> b
       [] e.x = "Mul" /\ IsOne(b)                   -> a
       [] e.x = "Mul" /\ IsOne(a)                   -> b
       [] e.x = "Mul" /\ IsZero(b) /\ IsPure(a)     -> b
       [] e.x = "Mul" /\ IsZero(a) /\ IsPure(b)     -> a
       [] e.x = "And" /\ IsBool(a, TRUE)            -> b
       [] e.x = "And" /\ IsBool(a, FALSE)           -> a
       [] e.x = "Or"  /\ IsBool(a, TRUE)            -> a
       [] e.x = "Or"  /\ IsBool(a, FALSE)           -> b
       [] OTHER                                     -> e

FoldUnary(e) ==
  LET a == e.kids[1]
  IN CASE e.x = "Neg" /\ a.kind = "Int"   -> IntLit(Wrap(-a.n))
       [] e.x = "Neg" /\ a.kind = "Float" -> FloatLit(UnaryFloat("NegFloat", a.n))
       [] e.x = "Not" /\ a.kind = "Bool"  -> BoolLit(a.n = 0)
       [] OTHER                           -> e

FoldBinary(e) == IF ConstBinary(e) # e THEN ConstBinary(e) ELSE Identity(e)

UnitExpr == Block(<<>>, Nothing)

FoldIf(e) ==
  IF IsBool(e.kids[1], TRUE) THEN [e.kids[2] EXCEPT !.ty = e.ty]
  ELSE IF IsBool(e.kids[1], FALSE)
       THEN IF e.kids[3] = Nothing THEN UnitExpr ELSE e.kids[3]
  ELSE e

Rewrite(e) ==
  CASE e.kind = "Unary"  -> FoldUnary(e)
    [] e.kind = "Binary" -> FoldBinary(e)
    [] e.kind = "If"     -> FoldIf(e)
    [] OTHER             -> e

RECURSIVE FoldExpr(_)
FoldExpr(e) == Rewrite(WithKids(e, [i \in DOMAIN e.kids |-> FoldExpr(e.kids[i])]))

Fold(hir) == OnBodies(hir, FoldExpr)

----------------------------------------------------------------------------
(* dce: unreachable code after a return, `while false', unread pure lets.  *)

RECURSIVE Reads(_)
Reads(e) ==
  (CASE e.kind = "Local" -> {e.n}
     [] e.kind = "For"   -> {e.n, EndVar(e)}
     [] OTHER            -> {})
    \cup UNION {Reads(e.kids[i]) : i \in DOMAIN e.kids}

KeepStmt(s, reads) ==
  CASE s.kind = "While" -> ~ IsBool(s.kids[1], FALSE)
    [] s.kind = "Let"   -> s.n \in reads \/ ~ IsPure(s.kids[1])
    [] OTHER            -> TRUE

DceBlock(b, reads) ==
  LET stmts   == Stmts(b)
      returns == {i \in DOMAIN stmts : stmts[i].kind = "Return"}
      keep(s) == KeepStmt(s, reads)
  IN IF returns = {} THEN WithKids(b, Append(SelectSeq(stmts, keep), TailOf(b)))
     ELSE LET first == CHOOSE i \in returns : \A j \in returns : i <= j
          IN WithKids(b, Append(SelectSeq(SubSeq(stmts, 1, first), keep), Nothing))

RECURSIVE DceExpr(_, _)
DceExpr(e, reads) ==
  LET inner == WithKids(e, [i \in DOMAIN e.kids |-> DceExpr(e.kids[i], reads)])
  IN IF e.kind = "Block" THEN DceBlock(inner, reads) ELSE inner

Dce(hir) == OnBodies(hir, LAMBDA body : DceExpr(body, Reads(body)))

----------------------------------------------------------------------------
(* inline: a call of a small expression function becomes a block that binds*)
(* its arguments to fresh locals of the caller and evaluates the body.     *)

SimpleKinds == {"Int", "Float", "Bool", "Str", "Local", "Unary", "Binary", "Call",
                "CallBuiltin", "ArrayLit", "StructLit", "Index", "GetField", "If",
                "Block", "Nothing"}

RECURSIVE IsSimple(_, _)
IsSimple(e, params) ==
  /\ e.kind \in SimpleKinds
  /\ e.kind = "Local" => e.n < params
  /\ e.kind = "Block" => Stmts(e) = <<>>
  /\ \A i \in DOMAIN e.kids : IsSimple(e.kids[i], params)

RECURSIVE Calls(_, _)
Calls(e, f) == \/ e.kind = "Call" /\ e.n = f
               \/ \E i \in DOMAIN e.kids : Calls(e.kids[i], f)

Candidates(hir) ==
  {f \in HirFns(hir) \ {hir.main} :
     LET body == FnOf(hir, f).body
     IN /\ Stmts(body) = <<>> /\ TailOf(body) # Nothing
        /\ IsSimple(TailOf(body), FnOf(hir, f).params)
        /\ ~ Calls(TailOf(body), f)}

\* The parameters of the body become the locals from `first' on.
RECURSIVE RemapLocals(_, _)
RemapLocals(e, first) ==
  IF e.kind = "Local" THEN [e EXCEPT !.n = first + @]
  ELSE WithKids(e, [i \in DOMAIN e.kids |-> RemapLocals(e.kids[i], first)])

BuildInlined(e, body, first) ==
  [Block([i \in DOMAIN e.kids |-> Let(first + i - 1, e.kids[i])], RemapLocals(body, first))
     EXCEPT !.ty = e.ty]

\* Inlines in e, in a function that has `locals' locals: [e, locals] after it.
RECURSIVE InlineExpr(_, _, _, _)
InlineExpr(hir, self, e, locals) ==
  LET step(acc, k) == LET r == InlineExpr(hir, self, k, acc.locals)
                      IN [kids |-> Append(acc.kids, r.e), locals |-> r.locals]
      all  == FoldLeft(step, [kids |-> <<>>, locals |-> locals], e.kids)
      inner == WithKids(e, all.kids)
  IN IF e.kind = "Call" /\ e.n # self /\ e.n \in Candidates(hir)
     THEN [e |-> BuildInlined(inner, TailOf(FnOf(hir, e.n).body), all.locals),
           locals |-> all.locals + Len(e.kids)]
     ELSE [e |-> inner, locals |-> all.locals]

Inline(hir) ==
  [hir EXCEPT !.functions =
     [i \in DOMAIN @ |->
        LET r == InlineExpr(hir, i - 1, @[i].body, @[i].locals)
        IN [@[i] EXCEPT !.body = r.e, !.locals = r.locals]]]

\* One iteration of `optimize': inline first, so the others see across the call.
Round(hir) == Dce(Fold(Inline(hir)))
=============================================================================
