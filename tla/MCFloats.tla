------------------------------ MODULE MCFloats ------------------------------
(***************************************************************************)
(* A small f64 for model checking: four finite numbers, an infinity that   *)
(* everything larger saturates to, and NaN, which is unequal to itself.    *)
(***************************************************************************)
EXTENDS Integers, Sequences

LOCAL Inf == 50
LOCAL NaN == 99
LOCAL Floats == {-1, 0, 1, 2, Inf, NaN}

LOCAL Round(i) == IF i \in Floats THEN i ELSE Inf
LOCAL Arith(op, a, b) ==
  IF op \in {"min_float", "max_float"} /\ NaN \in {a, b}
    THEN CHOOSE x \in {a, b} : x # NaN \/ a = b
  ELSE IF NaN \in {a, b} THEN NaN
  ELSE CASE op = "AddFloat" -> Round(a + b)
         [] op = "SubFloat" -> IF a = b /\ a = Inf THEN NaN ELSE Round(a - b)
         [] op \in {"MulFloat", "pow_float"} ->
              IF {a, b} = {0, Inf} THEN NaN ELSE Round(a * b)
         [] op \in {"DivFloat", "RemFloat"} ->
              IF b = 0 THEN (IF a = 0 THEN NaN ELSE Inf) ELSE Round(a * b)
         [] op = "min_float" -> IF a < b THEN a ELSE b
         [] op = "max_float" -> IF a > b THEN a ELSE b

LOCAL Order(op, a, b) ==
  /\ NaN \notin {a, b}
  /\ CASE op = "LtFloat" -> a < b   [] op = "LeFloat" -> a <= b
       [] op = "GtFloat" -> a > b   [] op = "GeFloat" -> a >= b

MCF64 ==
  [ floats |-> Floats,
    arith |-> [op \in {"AddFloat", "SubFloat", "MulFloat", "DivFloat", "RemFloat",
                       "pow_float", "min_float", "max_float"},
               a \in Floats, b \in Floats |-> Arith(op, a, b)],
    order |-> [op \in {"LtFloat", "LeFloat", "GtFloat", "GeFloat"},
               a \in Floats, b \in Floats |-> Order(op, a, b)],
    eq    |-> [a \in Floats, b \in Floats |-> a = b /\ a # NaN],
    unary |-> [op \in {"NegFloat", "sqrt", "abs_float"}, a \in Floats |->
                 IF op = "NegFloat" /\ a \in {-1, 0, 1} THEN -a ELSE a],
    toInt |-> [op \in {"floor", "ceil", "round", "to_int"}, a \in Floats |->
                 IF a = NaN THEN 0 ELSE a],
    ofInt |-> [i \in -200 .. 200 |-> Round(i)],
    text  |-> [a \in Floats |-> <<102>>] ]
=============================================================================
