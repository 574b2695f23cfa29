------------------------------ MODULE FrontEnd ------------------------------
(***************************************************************************)
(* From the syntax tree to HIR, as the session runs it (session.rs): the   *)
(* resolver, the type checker, and the lowering of a program that has no   *)
(* errors.  A step is one turn of one of their loops over the items.       *)
(***************************************************************************)
EXTENDS Lowering, Source, FiniteSets

\* What the front end is given: [items, malformed, mistakes], of which it sees the
\* items and whether the parser reported anything.  `mistakes' holds the number of
\* mistakes a reader finds, and is empty if nobody counted them.
CONSTANTS Candidates,
          Fuel         \* the loop turns and calls a program's meaning is computed for

VARIABLES
  program,   \* the candidate, which no phase changes
  phase,     \* the loop that runs
  at,        \* its next turn
  tabs,      \* Resolution: the tables of the items of each kind
  rs,        \* the resolver, and the rest of Resolution
  tc,        \* the checker and Typeck
  fns        \* Hir::functions, each with whether it holds a placeholder

frontVars == <<program, phase, at, tabs, rs, tc, fns>>

Items      == program.items
Errors     == rs.errs \o tc.errs
HasErrors  == program.malformed \/ Errors # <<>>
Resolution == [items |-> Items, tabs |-> tabs, uses |-> rs.uses, locals |-> rs.locals]
LowerInput == Resolution @@ [tc |-> tc]

FrontInit ==
  /\ program \in Candidates
  /\ phase = "collect" /\ at = 1
  /\ tabs = [fns |-> <<>>, consts |-> <<>>, structs |-> <<>>]
  /\ rs = NothingResolved /\ tc = NothingChecked /\ fns = <<>>

----------------------------------------------------------------------------

Enter(p) == phase' = p /\ at' = 1
Turn(p, n) == phase = p /\ at <= n /\ at' = at + 1 /\ phase' = p

Collect ==
  /\ phase = "collect"
  /\ Enter("resolve")
  /\ tabs' = CollectGlobals(Items)
  /\ rs' = [rs EXCEPT !.errs = DuplicateErrors(Items)]
  /\ UNCHANGED <<program, tc, fns>>

ResolveTurn ==
  /\ Turn("resolve", Len(Items))
  /\ rs' = ResolveItem(Items, tabs, at, rs)
  /\ UNCHANGED <<program, tabs, tc, fns>>

\* The signatures name the structs, which are all known by then.
CollectTypes ==
  /\ phase = "resolve" /\ at > Len(Items)
  /\ Enter("consts")
  /\ tc' = CollectSignatures(Resolution, CollectStructs(Resolution, tc))
  /\ UNCHANGED <<program, tabs, rs, fns>>

ConstTurn ==
  /\ Turn("consts", Len(tabs.consts))
  /\ tc' = CheckConst(Resolution, tabs.consts[at], tc)
  /\ UNCHANGED <<program, tabs, rs, fns>>

Main ==
  /\ phase = "consts" /\ at > Len(tabs.consts)
  /\ Enter("functions")
  /\ tc' = CheckMain(Resolution, tc)
  /\ UNCHANGED <<program, tabs, rs, fns>>

FnTurn ==
  /\ Turn("functions", Len(tabs.fns))
  /\ tc' = CheckFn(Resolution, at, tc)
  /\ UNCHANGED <<program, tabs, rs, fns>>

Checked ==
  /\ phase = "functions" /\ at > Len(tabs.fns)
  /\ Enter(IF HasErrors THEN "rejected" ELSE "lower")
  /\ UNCHANGED <<program, tabs, rs, tc, fns>>

LowerTurn ==
  /\ Turn("lower", Len(tabs.fns))
  /\ fns' = Append(fns, LowerFn(LowerInput, at))
  /\ UNCHANGED <<program, tabs, rs, tc>>

LoweredAll ==
  /\ phase = "lower" /\ at > Len(tabs.fns)
  /\ Enter("accepted")
  /\ UNCHANGED <<program, tabs, rs, tc, fns>>

FrontNext ==
  \/ Collect \/ ResolveTurn \/ CollectTypes \/ ConstTurn \/ Main \/ FnTurn
  \/ Checked \/ LowerTurn \/ LoweredAll

FrontSpec == FrontInit /\ [][FrontNext]_frontVars

Tree == [functions |-> [k \in DOMAIN fns |-> fns[k].fn], main |-> tc.main - 1]

----------------------------------------------------------------------------
(* Scoping, without scopes: by the paths of names and of the nodes that    *)
(* bind them.                                                              *)

ItemNodes(i) == Nodes(Items[i].body, <<i>>)

Binders(i) ==
  {[at |-> n.at, x |-> n.e.x, body |-> Len(n.e.kids),
    mutable |-> n.e.kind = "Let" /\ n.e.n = 1, scope |-> n.e.kind] :
     n \in {n \in ItemNodes(i) : n.e.kind \in {"Let", "For", "ForEach"}}}
  \cup {[at |-> <<i, -k>>, x |-> Items[i].members[k].name, body |-> 0,
         mutable |-> FALSE, scope |-> "Param"] :
           k \in IF Items[i].kind = "Fn" THEN DOMAIN Items[i].members ELSE {}}

\* A binding is visible in the statements after it, and in the tail, of its own
\* block; a loop variable in the body; a parameter everywhere.
Visible(b, u) ==
  LET n == Len(b.at)
  IN CASE b.scope = "Param" -> TRUE
       [] b.scope = "Let"   -> /\ Len(u) >= n /\ u[n] > b.at[n]
                               /\ SubSeq(u, 1, n - 1) = SubSeq(b.at, 1, n - 1)
       [] OTHER             -> Len(u) > n /\ SubSeq(u, 1, n) = b.at /\ u[n + 1] = b.body

\* Of two visible bindings, the one deeper in the tree or, in a block, the later one.
Inner(a, b) ==
  LET n == Len(a.at) m == Len(b.at)
  IN CASE a.scope = "Param" -> b.scope = "Param" /\ a.at[2] < b.at[2]
       [] b.scope = "Param" -> a.scope # "Param"
       [] OTHER             -> n > m \/ (n = m /\ a.at[n] > b.at[n])

Denoted(i, u, x) ==
  LET seen    == {b \in Binders(i) : b.x = x /\ Visible(b, u)}
      first(kind) == {j \in DOMAIN Items : /\ Items[j].name = x /\ Items[j].kind = kind
                                           /\ \A k \in 1 .. j - 1 : Items[k].name # x}
      number(j) == Cardinality({k \in 1 .. j : /\ Items[k].kind = Items[j].kind
                                               /\ \A l \in 1 .. k - 1 : Items[l].name # Items[k].name})
  IN IF seen # {} THEN ResLocal((CHOOSE b \in seen : \A o \in seen \ {b} : Inner(b, o)).at)
     ELSE IF first("Fn") # {} THEN ResGlobal("Fn", number(TheOne(first("Fn"))))
     ELSE IF first("Const") # {} THEN ResGlobal("Const", number(TheOne(first("Const"))))
     ELSE IF x \in BuiltinNames THEN ResBuiltin(x)
     ELSE Unresolved

----------------------------------------------------------------------------
(* Properties.                                                             *)

\* The nodes a finished program is made of.
RECURSIVE HirNodes(_)
HirNodes(e) == {e} \cup UNION {HirNodes(e.kids[k]) : k \in DOMAIN e.kids}

\* Between two turns no scope and no loop is open (resolve.rs:471, typeck.rs:515),
\* whatever the turn met, and every table refers to what the program holds.
FrontTypeOK ==
  /\ phase \in {"collect", "resolve", "consts", "functions", "lower", "accepted", "rejected"}
  /\ rs.scopes = <<>> /\ tc.depth = 0
  /\ \A id \in DOMAIN rs.uses : id[1] \in DOMAIN Items
  /\ \A id \in DOMAIN rs.uses : rs.uses[id].r = "Local" => rs.uses[id].def \in DOMAIN rs.locals
  /\ DOMAIN tc.locals \subseteq {<<i, -k>> : i \in DOMAIN Items, k \in 1 .. 4} \cup DOMAIN rs.locals
  /\ Len(tc.consts) <= Len(tabs.consts) /\ Len(fns) <= Len(tabs.fns)
  /\ tc.main \in 0 .. Len(tabs.fns)

\* Every name means what lexical scoping says, and the table of locals holds the
\* bindings of the program (resolve.rs:428-496): shadowing in the same block and in
\* an inner one, an initialiser that cannot see its own name, a loop variable that
\* its bounds cannot see.
UsesAreLexical ==
  phase = "consts" /\ at = 1 =>
    \A i \in DOMAIN Items :
      /\ \A n \in {n \in ItemNodes(i) : n.e.kind = "Name"} :
           UseOf(Resolution, n.at) = Denoted(i, n.at, n.e.x)
      /\ \A b \in Binders(i) : b.at \in DOMAIN rs.locals /\ rs.locals[b.at] = b.mutable

\* A program without mistakes gets no diagnostic, and a mistake exactly one: what
\* cannot be typed has the error type, which everything accepts (types.rs:108).
ErrorsMatchMistakes ==
  phase \in {"accepted", "rejected"} /\ program.mistakes # {} => Len(Errors) \in program.mistakes

\* A program that is accepted does not go wrong: it finishes, traps, or goes on, and
\* never meets an operation the language gives no meaning to.
AcceptedDoNotGoWrong ==
  phase = "accepted" =>
    SourceMeaning(Items, Fuel).status \in {"finished", "out of fuel"} \cup UserErrors

\* The tree means what the source means (hir/lower.rs): slots do not overlap, a field
\* has its own index, and what is desugared evaluates the same operands, in the same
\* order, as many times.
LoweringMeansTheSame ==
  phase = "accepted" =>
    LET m == Meaning(Tree, Fuel)
    IN SameOutcome(SourceMeaning(Items, Fuel), m.status, m.stdout)

\* Nothing that was not resolved, or not typed, reaches the tree: the fallbacks of
\* lower.rs (lower_name, local_of, type_of) are never taken.
NoPlaceholders ==
  phase = "accepted" => \A k \in DOMAIN fns :
    /\ ~ fns[k].holes
    /\ \A e \in HirNodes(fns[k].fn.body) : e.ty # "Error"

\* "A constant may reference only constants declared before it" (typeck.rs:256).
OnlyEarlierConstants ==
  phase = "accepted" => \A i \in DOMAIN Items : Items[i].kind = "Const" =>
    \A n \in {n \in ItemNodes(i) : n.e.kind = "Name"} :
      LET res == UseOf(Resolution, n.at) IN res.r = "Const" => tabs.consts[res.def[1]] < i
=============================================================================
