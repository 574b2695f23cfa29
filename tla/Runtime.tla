------------------------------ MODULE Runtime -------------------------------
(***************************************************************************)
(* Run-time values and every operation on them that needs no machine       *)
(* state: the arithmetic of backend/vm.rs and the builtin evaluator of     *)
(* backend/builtins.rs, which the VM and the MIR interpreter share.        *)
(*                                                                         *)
(* Integers are two's complement with 2*Half values (Half is 2^63 in the   *)
(* program).  Strings are sequences of bytes.  f64 is the constant F64, a  *)
(* record of tables over a finite set of floats: nothing here depends on   *)
(* what IEEE 754 computes, only on the operations being functions.         *)
(***************************************************************************)
EXTENDS Bytecode

CONSTANTS Half,      \* half the number of integers
          F64,       \* the float operations, see above
          MaxBytes,  \* the longest string the allocator can provide
          MaxExp     \* the largest exponent pow_int takes, u32::MAX

ASSUME HalfAssumption == Half \in Nat \ {0, 1}
ASSUME MaxBytesAssumption == MaxBytes \in Nat
ASSUME MaxExpAssumption == MaxExp \in Nat

----------------------------------------------------------------------------
(* Values: a kind and a payload.  An array is a reference: an address.     *)

IntV(i)    == [t |-> "Int",   v |-> i]
FloatV(f)  == [t |-> "Float", v |-> f]
BoolV(b)   == [t |-> "Bool",  v |-> b]
StrV(s)    == [t |-> "Str",   v |-> s]
ArrayV(a)  == [t |-> "Array", v |-> a]
UnitV      == [t |-> "Unit",  v |-> 0]

MinInt     == -Half
MaxInt     == Half - 1
Wrap(i)    == ((i + Half) % (2 * Half)) - Half
InWidth(i) == i \in MinInt .. MaxInt

Kinds == {"Int", "Float", "Bool", "Str", "Array", "Unit"}

\* A value whose array reference, if it is one, points into a heap of n arrays.
IsValue(x, n) ==
  /\ x.t \in Kinds
  /\ x.t = "Int"   => InWidth(x.v)
  /\ x.t = "Float" => x.v \in F64.floats
  /\ x.t = "Bool"  => x.v \in BOOLEAN
  /\ x.t = "Str"   => x.v \in Seq(Nat)
  /\ x.t = "Array" => x.v \in 1 .. n

\* A sequence of such values.
AreValues(s, n) ==
  /\ DOMAIN s = 1 .. Len(s) /\ Len(s) \in Nat
  /\ \A i \in DOMAIN s : IsValue(s[i], n)

\* The outcome of an operation: a value, or the error it returns.
Ok(v)  == [status |-> "ok", v |-> v]
Err(e) == [status |-> e, v |-> UnitV]

----------------------------------------------------------------------------
(* Float arithmetic, by the tables.                                        *)

ArithFloat(op, a, b) == F64.arith[op, a, b]
OrderFloat(op, a, b) == F64.order[op, a, b]
UnaryFloat(op, a)    == F64.unary[op, a]
ToInt(op, a)         == F64.toInt[op, a]

FloatFunctions == {"sqrt", "abs_float"}
FloatRoundings == {"floor", "ceil", "round", "to_int"}
FloatPairings  == {"pow_float", "min_float", "max_float"}

\* All that is assumed of the floats: operations stay among them, comparisons are
\* Boolean, `as i64' saturates to the width, and a float prints as bytes.
ASSUME F64Assumption ==
  /\ \A a, b \in F64.floats :
       /\ \A op \in FltArith \cup FloatPairings : ArithFloat(op, a, b) \in F64.floats
       /\ \A op \in FltOrder : OrderFloat(op, a, b) \in BOOLEAN
  /\ \A a \in F64.floats :
       /\ \A op \in {"NegFloat"} \cup FloatFunctions : UnaryFloat(op, a) \in F64.floats
       /\ \A op \in FloatRoundings : InWidth(ToInt(op, a))
       /\ F64.text[a] \in Seq(Nat)
  /\ \A i \in MinInt .. MaxInt : F64.ofInt[i] \in F64.floats

(***************************************************************************)
(* Integer arithmetic.  Division truncates towards zero; the two checked   *)
(* operations fail on a zero divisor and on MinInt / -1.                   *)
(***************************************************************************)

Abs(i) == IF i < 0 THEN -i ELSE i
TruncDiv(a, b) ==
  LET q == Abs(a) \div Abs(b) IN IF (a < 0) <=> (b < 0) THEN q ELSE -q
TruncRem(a, b) == a - b * TruncDiv(a, b)

CheckedDiv(a, b, r) ==
  IF b = 0 THEN Err("division by zero")
  ELSE IF a = MinInt /\ b = -1 THEN Err("integer overflow")
  ELSE Ok(IntV(r))

\* Faulty variant: addition without a width.
ArithIntUnbounded(op, a, b) ==
  IF op = "AddInt" THEN Ok(IntV(a + b))
  ELSE IF op \in {"SubInt", "MulInt"} THEN Ok(IntV(Wrap(IF op = "SubInt" THEN a - b ELSE a * b)))
  ELSE CheckedDiv(a, b, IF op = "DivInt" THEN TruncDiv(a, b) ELSE TruncRem(a, b))

ArithInt(op, a, b) ==
  CASE op = "AddInt" -> Ok(IntV(Wrap(a + b)))
    [] op = "SubInt" -> Ok(IntV(Wrap(a - b)))
    [] op = "MulInt" -> Ok(IntV(Wrap(a * b)))
    [] op = "DivInt" -> CheckedDiv(a, b, TruncDiv(a, b))
    [] op = "RemInt" -> CheckedDiv(a, b, TruncRem(a, b))

OrderInt(op, a, b) ==
  CASE op = "LtInt" -> a < b
    [] op = "LeInt" -> a <= b
    [] op = "GtInt" -> a > b
    [] op = "GeInt" -> a >= b

\* index_in_bounds: a negative index never becomes a large unsigned one.
IndexInBounds(i, len) == 0 <= i /\ i < len

----------------------------------------------------------------------------
(* value_eq.                                                               *)

\* Two arrays are compared element by element, up to the first difference.  A
\* comparison whose recursion meets the same pair of arrays again never returns:
\* the native stack overflows.
ItemVerdict(x, y, arrays) ==
  IF x.t # y.t THEN "differ"
  ELSE IF x.t = "Array" THEN arrays
  ELSE IF (IF x.t = "Float" THEN F64.eq[x.v, y.v] ELSE x.v = y.v)
       THEN "equal" ELSE "differ"

\* The verdict on the arrays at two addresses, by the depth of the recursion.
ArrayVerdict(heap) ==
  LET at[d \in Nat] ==
        [a \in DOMAIN heap, b \in DOMAIN heap |->
           LET verdict(i) == ItemVerdict(heap[a][i], heap[b][i],
                               IF d = 0 THEN "overflow"
                               ELSE at[d - 1][heap[a][i].v, heap[b][i].v])
               unequal == {i \in DOMAIN heap[a] : verdict(i) # "equal"}
           IN IF Len(heap[a]) # Len(heap[b]) THEN "differ"
              ELSE IF unequal = {} THEN "equal"
              ELSE verdict(CHOOSE i \in unequal : \A j \in unequal : i <= j)]
  IN at

\* A chain of nested pairs longer than this repeats one of them.
Depth(heap) == Len(heap) * Len(heap)

ValueEq(heap, x, y) == ItemVerdict(x, y, ArrayVerdict(heap)[Depth(heap)][x.v, y.v])

\* The errors a correct program can end in.
UserErrors == {"division by zero", "integer overflow", "index out of bounds"}

\* VmError::Internal, "situations that the type checker and code generator make
\* impossible", about the kinds of values.
KindErrors == {"unexpected kind", "builtin called with wrong argument", "negative exponent"}

\* The process dies instead of returning a VmError.
Aborts == {"capacity overflow", "native stack overflow"}

----------------------------------------------------------------------------
(* Helpers of the builtins.                                                *)

Euclid[p \in Nat \X Nat] ==
  IF p[2] = 0 THEN p[1] ELSE Euclid[<<p[2], p[1] % p[2]>>]

\* unsigned_abs makes the magnitudes; `as i64' wraps the result.
Gcd(a, b) == Wrap(Euclid[<<Abs(a), Abs(b)>>])

Lcm(a, b) ==
  LET g == Gcd(a, b)
  IN IF g = 0 THEN 0 ELSE Wrap(Abs(Wrap(TruncDiv(a, g) * b)))

\* wrapping_pow
Power(a, n) ==
  LET pow[k \in 0 .. n] == IF k = 0 THEN 1 ELSE Wrap(pow[k - 1] * a) IN pow[n]

Sign(i) == IF i > 0 THEN 1 ELSE IF i < 0 THEN -1 ELSE 0

\* v.clamp(lo, hi) for lo <= hi
Clamp(v, lo, hi) == IF v < lo THEN lo ELSE IF v > hi THEN hi ELSE v

Digit(d) == 48 + d
Decimal[n \in Nat] ==
  IF n < 10 THEN <<Digit(n)>> ELSE Append(Decimal[n \div 10], Digit(n % 10))
IntText(i) == IF i < 0 THEN <<45>> \o Decimal[-i] ELSE Decimal[i]

IsUpper(c) == c \in 65 .. 90
IsLower(c) == c \in 97 .. 122
ToUpper(s) == [i \in DOMAIN s |-> IF IsLower(s[i]) THEN s[i] - 32 ELSE s[i]]
ToLower(s) == [i \in DOMAIN s |-> IF IsUpper(s[i]) THEN s[i] + 32 ELSE s[i]]

\* The ASCII part of White_Space.
IsSpace(c) == c \in (9 .. 13) \cup {32}
Trim(s) ==
  LET kept == {i \in DOMAIN s : ~ IsSpace(s[i])}
  IN IF kept = {} THEN <<>>
     ELSE SubSeq(s, CHOOSE i \in kept : \A j \in kept : i <= j,
                    CHOOSE i \in kept : \A j \in kept : i >= j)

\* s.trim().parse::<i64>().unwrap_or(0): an optional sign, digits, in range.
ParseInt(s) ==
  LET t       == Trim(s)
      signed  == t # <<>> /\ t[1] \in {43, 45}
      digits  == IF signed THEN Tail(t) ELSE t
      val[k \in 0 .. Len(digits)] ==
        IF k = 0 THEN 0 ELSE 10 * val[k - 1] + digits[k] - 48
      number  == IF signed /\ t[1] = 45 THEN -val[Len(digits)] ELSE val[Len(digits)]
  IN IF /\ digits # <<>>
        /\ \A k \in DOMAIN digits : digits[k] \in 48 .. 57
        /\ InWidth(number)
     THEN number ELSE 0

\* A byte offset that does not split a UTF-8 sequence.
IsBoundary(s, i) == i = Len(s) \/ s[i + 1] \notin 128 .. 191

Substring(s, start, end) ==
  LET from == Clamp(start, 0, Len(s))
      to   == Clamp(end, 0, Len(s))
  IN IF from >= to \/ ~ IsBoundary(s, from) \/ ~ IsBoundary(s, to) THEN <<>>
     ELSE SubSeq(s, from + 1, to)

MatchesAt(s, p, i) == i + Len(p) <= Len(s) /\ SubSeq(s, i + 1, i + Len(p)) = p
Matches(s, p) == {i \in 0 .. Len(s) : MatchesAt(s, p, i)}

IndexOf(s, p) ==
  IF Matches(s, p) = {} THEN -1
  ELSE CHOOSE i \in Matches(s, p) : \A j \in Matches(s, p) : i <= j

\* A repetition too long to allocate panics.
Repeat(s, n) ==
  LET count == IF n < 0 THEN 0 ELSE n
      total == Len(s) * count
  IN IF total > MaxBytes THEN Err("capacity overflow")
     ELSE Ok(StrV([i \in 1 .. total |-> s[((i - 1) % Len(s)) + 1]]))

----------------------------------------------------------------------------
(* eval: dispatch on the builtin and the shape of its arguments.           *)

IntBuiltin(b, x) ==
  CASE b = "abs"   -> Ok(IntV(Wrap(Abs(x[1]))))
    [] b = "min"   -> Ok(IntV(IF x[1] <= x[2] THEN x[1] ELSE x[2]))
    [] b = "max"   -> Ok(IntV(IF x[1] >= x[2] THEN x[1] ELSE x[2]))
    [] b = "gcd"   -> Ok(IntV(Gcd(x[1], x[2])))
    [] b = "lcm"   -> Ok(IntV(Lcm(x[1], x[2])))
    [] b = "sign"  -> Ok(IntV(Sign(x[1])))
    [] b = "clamp" -> Ok(IntV(IF x[2] > x[3] THEN x[2] ELSE Clamp(x[1], x[2], x[3])))
    [] b = "pow_int" ->
         IF x[2] \notin 0 .. MaxExp THEN Err("negative exponent") ELSE Ok(IntV(Power(x[1], x[2])))

StrBuiltin(b, x) ==
  CASE b = "str_len"     -> Ok(IntV(Wrap(Len(x[1]))))
    [] b = "substring"   -> Ok(StrV(Substring(x[1], x[2], x[3])))
    [] b = "char_at"     -> IF IndexInBounds(x[2], Len(x[1]))
                            THEN Ok(IntV(Wrap(x[1][x[2] + 1]))) ELSE Err("index out of bounds")
    [] b = "str_repeat"  -> Repeat(x[1], x[2])
    [] b = "starts_with" -> Ok(BoolV(MatchesAt(x[1], x[2], 0)))
    [] b = "ends_with"   -> Ok(BoolV(/\ Len(x[2]) <= Len(x[1])
                                     /\ MatchesAt(x[1], x[2], Len(x[1]) - Len(x[2]))))
    [] b = "contains"    -> Ok(BoolV(Matches(x[1], x[2]) # {}))
    [] b = "index_of"    -> Ok(IntV(Wrap(IndexOf(x[1], x[2]))))
    [] b = "parse_int"   -> Ok(IntV(ParseInt(x[1])))
    [] b = "to_upper"    -> Ok(StrV(ToUpper(x[1])))
    [] b = "to_lower"    -> Ok(StrV(ToLower(x[1])))
    [] b = "trim"        -> Ok(StrV(Trim(x[1])))

FloatBuiltin(b, x) ==
  CASE b \in FloatRoundings -> Ok(IntV(ToInt(b, x[1])))
    [] b \in FloatFunctions -> Ok(FloatV(UnaryFloat(b, x[1])))
    [] b \in FloatPairings  -> Ok(FloatV(ArithFloat(b, x[1], x[2])))

ConvertBuiltin(b, x) ==
  CASE b = "int_to_str"   -> Ok(StrV(IntText(x[1])))
    [] b = "float_to_str" -> Ok(StrV(F64.text[x[1]]))
    [] b = "bool_to_str"  -> Ok(StrV(IF x[1] THEN <<116, 114, 117, 101>>
                                              ELSE <<102, 97, 108, 115, 101>>))
    [] b = "char_to_str"  -> Ok(StrV(IF x[1] \in 0 .. 127 THEN <<x[1]>> ELSE <<>>))
    [] b = "to_float"     -> Ok(FloatV(F64.ofInt[x[1]]))

PrintOps      == {"print_int", "print_float", "print_bool", "print_str"}
IntBuiltins   == {"abs", "min", "max", "gcd", "lcm", "sign", "clamp", "pow_int"}
FloatBuiltins == FloatRoundings \cup FloatFunctions \cup FloatPairings
Conversions   == {"int_to_str", "float_to_str", "bool_to_str", "char_to_str", "to_float"}

\* `len' never reaches eval: the code generator emits ArrayLen for it.
WellShaped(b, args) ==
  ~ IsGeneric(b) /\ [i \in DOMAIN args |-> args[i].t] = Signatures[b].params

Eval(b, args) ==
  LET x == [i \in DOMAIN args |-> args[i].v]
  IN IF ~ WellShaped(b, args) THEN Err("builtin called with wrong argument")
     ELSE IF b \in PrintOps THEN Ok(UnitV)
     ELSE IF b \in IntBuiltins THEN IntBuiltin(b, x)
     ELSE IF b \in FloatBuiltins THEN FloatBuiltin(b, x)
     ELSE IF b \in Conversions THEN ConvertBuiltin(b, x)
     ELSE StrBuiltin(b, x)

\* What a builtin appends to the captured output: print_* append their argument.
Printed(b, args) == IF b \in PrintOps /\ WellShaped(b, args) THEN args ELSE <<>>

----------------------------------------------------------------------------
(* Comparing what a run does with what the program means.                  *)

\* How the run of a program ends when it means m.  A run that exceeds its budget
\* is not compared.
SameOutcome(m, st, out) ==
  m.status # "out of fuel" => st = m.status /\ out = m.stdout

\* What the optimizer promises: a program that finishes keeps its outcome and
\* its output.  One that traps may lose the trap, and go on, but nothing it did
\* before is lost or reordered.
Preserves(m, st, out) ==
  IF m.status = "finished" THEN SameOutcome(m, st, out)
  ELSE m.status \in UserErrors => /\ Len(m.stdout) <= Len(out)
                                  /\ SubSeq(out, 1, Len(m.stdout)) = m.stdout
=============================================================================
