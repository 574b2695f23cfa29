------------------------------ MODULE Resolver ------------------------------
(***************************************************************************)
(* Name resolution (sema/resolve.rs): a walk with a stack of scopes that   *)
(* binds every use of a name to a definition.                              *)
(*                                                                         *)
(* The walk threads [scopes, uses, locals, errs]: the scopes, each a       *)
(* function from names to definitions; the side tables `uses', from names  *)
(* in expressions to what they refer to, and `locals', from definitions to *)
(* their mutability; the codes of the diagnostics.                         *)
(***************************************************************************)
EXTENDS Ast, Builtins, TLC

LOCAL INSTANCE SequencesExt

\* What a name refers to: a local by its definition, a global by its index.
Res(r, def, name) == [r |-> r, def |-> def, name |-> name]
ResLocal(def)     == Res("Local", def, "")
ResGlobal(r, id)  == Res(r, <<id>>, "")
ResBuiltin(b)     == Res("Builtin", <<>>, b)
Unresolved        == Res("None", <<>>, "")

----------------------------------------------------------------------------
(* collect_globals: one namespace for all items; a duplicate keeps the     *)
(* first.  Each table holds the items of its kind, in declaration order.   *)

IsDuplicate(items, i) == \E j \in 1 .. i - 1 : items[j].name = items[i].name

Table(items, kind) ==
  SelectSeq([i \in DOMAIN items |-> i],
            LAMBDA i : items[i].kind = kind /\ ~ IsDuplicate(items, i))

CollectGlobals(items) ==
  [fns |-> Table(items, "Fn"), consts |-> Table(items, "Const"),
   structs |-> Table(items, "Struct")]

DuplicateErrors(items) ==
  LET again == SelectSeq([i \in DOMAIN items |-> i], LAMBDA i : IsDuplicate(items, i))
  IN [k \in DOMAIN again |-> "DuplicateDefinition"]

\* The index in a table of the item called `name': a set of at most one.
Lookup(items, table, name) == {id \in DOMAIN table : items[table[id]].name = name}

----------------------------------------------------------------------------
(* Scopes.                                                                 *)

NothingResolved == [scopes |-> <<>>, uses |-> <<>>, locals |-> <<>>, errs |-> <<>>]

\* Faulty variant: a scope that stays open.
PopScopeNever(s) == s

PushScope(s) == [s EXCEPT !.scopes = Append(@, <<>>)]
PopScope(s)  == [s EXCEPT !.scopes = SubSeq(@, 1, Len(@) - 1)]

Declare(s, def, name, mutable) ==
  [s EXCEPT !.scopes[Len(s.scopes)] = (name :> def) @@ @,
            !.locals = (def :> mutable) @@ @]

InScopes(s, name) == {k \in DOMAIN s.scopes : name \in DOMAIN s.scopes[k]}

\* Faulty variant: the search starts at the outermost scope.
LookupLocalOutermost(s, name) ==
  LET k == CHOOSE k \in InScopes(s, name) : \A j \in InScopes(s, name) : j >= k
  IN s.scopes[k][name]

\* The nearest enclosing definition of a name.
LookupLocal(s, name) ==
  LET k == CHOOSE k \in InScopes(s, name) : \A j \in InScopes(s, name) : j <= k
  IN s.scopes[k][name]

Meant(items, tabs, s, name) ==
  IF InScopes(s, name) # {} THEN ResLocal(LookupLocal(s, name))
  ELSE IF Lookup(items, tabs.fns, name) # {}
       THEN ResGlobal("Fn", TheOne(Lookup(items, tabs.fns, name)))
  ELSE IF Lookup(items, tabs.consts, name) # {}
       THEN ResGlobal("Const", TheOne(Lookup(items, tabs.consts, name)))
  ELSE IF name \in BuiltinNames THEN ResBuiltin(name)
  ELSE Unresolved

ResolveName(items, tabs, id, name, s) ==
  LET res == Meant(items, tabs, s, name)
  IN IF res = Unresolved THEN [s EXCEPT !.errs = Append(@, "UnresolvedName")]
     ELSE [s EXCEPT !.uses = (id :> res) @@ @]

----------------------------------------------------------------------------
(* The walk.  A node whose children are all in its own scope resolves them *)
(* in order; a pattern, a field name and the name of a struct bind nothing *)
(* and are not looked up here.                                             *)

RECURSIVE Resolve(_, _, _, _, _)

ResolveKids(items, tabs, id, kids, s) ==
  Steps(LAMBDA t, k : Resolve(items, tabs, Append(id, k), kids[k], t), Len(kids), s)

ResolveBlock(items, tabs, id, block, s) ==
  PopScope(ResolveKids(items, tabs, id, block.kids, PushScope(s)))

\* Faulty variant: the binding is visible in its own initialiser.
ResolveLetRec(items, tabs, id, let, s) ==
  ResolveKids(items, tabs, id, let.kids, Declare(s, id, let.x, let.n = 1))

\* The initialiser, then the name: it cannot see the binding it defines.
ResolveLet(items, tabs, id, let, s) ==
  Declare(ResolveKids(items, tabs, id, let.kids, s), id, let.x, let.n = 1)

\* The bounds, or the array, are outside the scope of the loop variable.
ResolveLoop(items, tabs, id, loop, s) ==
  LET n      == Len(loop.kids)
      outer  == ResolveKids(items, tabs, id, SubSeq(loop.kids, 1, n - 1), s)
      opened == Declare(PushScope(outer), id, loop.x, FALSE)
  IN PopScope(Resolve(items, tabs, Append(id, n), loop.kids[n], opened))

Resolve(items, tabs, id, e, s) ==
  CASE e.kind = "Name"               -> ResolveName(items, tabs, id, e.x, s)
    [] e.kind = "Block"              -> ResolveBlock(items, tabs, id, e, s)
    [] e.kind = "Let"                -> ResolveLet(items, tabs, id, e, s)
    [] e.kind \in {"For", "ForEach"} -> ResolveLoop(items, tabs, id, e, s)
    [] OTHER                         -> ResolveKids(items, tabs, id, e.kids, s)

\* A parameter that repeats the name of an earlier one is reported, and declared.
DeclareParam(item, i, s, k) ==
  LET param == item.members[k]
      seen  == \E j \in 1 .. k - 1 : item.members[j].name = param.name
      t     == Declare(s, <<i, -k>>, param.name, FALSE)
  IN IF seen THEN [t EXCEPT !.errs = Append(@, "DuplicateParameter")] ELSE t

ResolveFn(items, tabs, i, s) ==
  PopScope(Resolve(items, tabs, <<i>>, items[i].body,
    FoldLeftDomain(LAMBDA t, k : DeclareParam(items[i], i, t, k), PushScope(s), items[i].members)))

\* One turn of the loop over all items, the duplicates included.
ResolveItem(items, tabs, i, s) ==
  CASE items[i].kind = "Fn"     -> ResolveFn(items, tabs, i, s)
    [] items[i].kind = "Const"  -> Resolve(items, tabs, <<i>>, items[i].body, s)
    [] items[i].kind = "Struct" -> s
=============================================================================
