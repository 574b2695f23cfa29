------------------------------ MODULE Builtins ------------------------------
(***************************************************************************)
(* The signatures of the builtin functions (sema/types.rs): the contract   *)
(* between the type checker, the verifier and the evaluators.              *)
(***************************************************************************)
EXTENDS Integers, Sequences

Signature(params, ret) == [params |-> params, ret |-> ret]

Signatures ==
  LET I == "Int"   F == "Float"   B == "Bool"   S == "Str"   U == "Unit"
  IN [ print_int    |-> Signature(<<I>>, U),       print_float |-> Signature(<<F>>, U),
       print_bool   |-> Signature(<<B>>, U),       print_str   |-> Signature(<<S>>, U),
       int_to_str   |-> Signature(<<I>>, S),       float_to_str |-> Signature(<<F>>, S),
       bool_to_str  |-> Signature(<<B>>, S),       str_len     |-> Signature(<<S>>, I),
       len          |-> Signature(<<>>, I),        abs         |-> Signature(<<I>>, I),
       min          |-> Signature(<<I, I>>, I),    max         |-> Signature(<<I, I>>, I),
       pow_int      |-> Signature(<<I, I>>, I),    gcd         |-> Signature(<<I, I>>, I),
       sign         |-> Signature(<<I>>, I),       clamp       |-> Signature(<<I, I, I>>, I),
       sqrt         |-> Signature(<<F>>, F),       abs_float   |-> Signature(<<F>>, F),
       floor        |-> Signature(<<F>>, I),       pow_float   |-> Signature(<<F, F>>, F),
       min_float    |-> Signature(<<F, F>>, F),    max_float   |-> Signature(<<F, F>>, F),
       ceil         |-> Signature(<<F>>, I),       round       |-> Signature(<<F>>, I),
       to_float     |-> Signature(<<I>>, F),       to_int      |-> Signature(<<F>>, I),
       substring    |-> Signature(<<S, I, I>>, S), char_at     |-> Signature(<<S, I>>, I),
       str_repeat   |-> Signature(<<S, I>>, S),    starts_with |-> Signature(<<S, S>>, B),
       ends_with    |-> Signature(<<S, S>>, B),    contains    |-> Signature(<<S, S>>, B),
       index_of     |-> Signature(<<S, S>>, I),    parse_int   |-> Signature(<<S>>, I),
       char_to_str  |-> Signature(<<I>>, S),       to_upper    |-> Signature(<<S>>, S),
       to_lower     |-> Signature(<<S>>, S),       trim        |-> Signature(<<S>>, S),
       lcm          |-> Signature(<<I, I>>, I) ]

BuiltinNames == DOMAIN Signatures

\* `len' is generic: it declares no parameter and is checked specially.
IsGeneric(b) == b = "len"

\* The arity the verifier demands of a call.
Arity(b) == IF IsGeneric(b) THEN 1 ELSE Len(Signatures[b].params)
=============================================================================
