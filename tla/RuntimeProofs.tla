---------------------------- MODULE RuntimeProofs ----------------------------
(***************************************************************************)
(* What both machines share in their proofs.                               *)
(*                                                                         *)
(* First, induction and recursion over data, without an operator           *)
(* parameter.  The library's theorems quantify over a predicate or a       *)
(* definition, and no prover here can instantiate those; the least-number  *)
(* principle for sets needs no such parameter, and carries the recursive   *)
(* functions the model is built from: loops that go on with one smaller    *)
(* argument.                                                               *)
(*                                                                         *)
(* Then the values of module Runtime: an integer never leaves its width, a *)
(* string stays a sequence of bytes, whatever the operators and the        *)
(* builtins compute.                                                       *)
(***************************************************************************)
EXTENDS Runtime, WellFoundedInduction, TLAPS

LEMMA LeastLemma ==
  ASSUME NEW T, T \subseteq Nat, T # {}
  PROVE  \E n \in T : \A k \in T : n <= k
<1> DEFINE R == {ss \in Nat \X Nat : ss[1] < ss[2]}
<1>1. IsWellFoundedOn(R, Nat)
  BY NatLessThanWellFounded DEF OpToRel
<1> HIDE DEF R
<1>2. PICK n \in T : \A k \in T : ~ (<<k, n>> \in R)
  BY <1>1, WFMin
<1>3. \A k \in T : ~ (k < n)
  BY <1>2 DEF R
<1> QED BY <1>3

\* Induction on a measure, for a set of arguments.
LEMMA MeasureLemma ==
  ASSUME NEW D, NEW m \in [D -> Nat], NEW Good,
         \A x \in D : (\A y \in D : m[y] < m[x] => y \in Good) => x \in Good
  PROVE  D \subseteq Good
<1> SUFFICES ASSUME NEW x0 \in D, x0 \notin Good PROVE FALSE
  OBVIOUS
<1> DEFINE B == {n \in Nat : \E x \in D : x \notin Good /\ m[x] = n}
<1>1. B \subseteq Nat /\ m[x0] \in B
  OBVIOUS
<1>2. PICK n \in B : \A k \in B : n <= k
  BY <1>1, LeastLemma
<1>3. PICK x \in D : x \notin Good /\ m[x] = n
  BY <1>2
<1>4. \A y \in D : m[y] < m[x] => y \in Good
  BY <1>2, <1>3
<1> QED BY <1>3, <1>4

(***************************************************************************)
(* A recursion over D that, unless x is in Stop, goes on with the single   *)
(* argument step[x], whose measure is smaller.                             *)
(***************************************************************************)
Descends(D, Stop, m, step) ==
  /\ m \in [D -> Nat] /\ step \in [D -> D]
  /\ \A x \in D \ Stop : m[step[x]] < m[x]

\* The function f combines x with the result for step[x].
Follows(D, Stop, out, step, comb, f) ==
  \A x \in D : f[x] = IF x \in Stop THEN out[x] ELSE comb[<<x, f[step[x]]>>]

\* There is such a function.
LEMMA RecursionExists ==
  ASSUME NEW D, NEW S, NEW Stop, NEW m, NEW step, Descends(D, Stop, m, step),
         NEW out \in [D -> S], NEW comb \in [D \X S -> S]
  PROVE  \E f \in [D -> S] : Follows(D, Stop, out, step, comb, f)
<1>0. /\ m \in [D -> Nat] /\ step \in [D -> D]
      /\ \A x \in D \ Stop : m[step[x]] < m[x]
  BY DEF Descends
<1> DEFINE Closed(C) == /\ \A x \in D \cap Stop : <<x, out[x]>> \in C
                        /\ \A x \in D \ Stop : \A w \in S :
                             <<step[x], w>> \in C => <<x, comb[<<x, w>>]>> \in C
           G == {p \in D \X S : \A C \in SUBSET (D \X S) : Closed(C) => p \in C}
           One == {x \in D : \E v \in S : \A w \in S : <<x, w>> \in G <=> w = v}
<1>1. Closed(G)
  <2>1. ASSUME NEW x \in D \cap Stop PROVE <<x, out[x]>> \in G
    OBVIOUS
  <2>2. ASSUME NEW x \in D \ Stop, NEW w \in S, <<step[x], w>> \in G
        PROVE  <<x, comb[<<x, w>>]>> \in G
    <3>1. <<x, comb[<<x, w>>]>> \in D \X S
      OBVIOUS
    <3>2. ASSUME NEW C \in SUBSET (D \X S), Closed(C) PROVE <<x, comb[<<x, w>>]>> \in C
      BY <2>2, <3>2
    <3> QED BY <3>1, <3>2
  <2> QED BY <2>1, <2>2
<1>2. ASSUME NEW x \in D, NEW w \in S, <<x, w>> \in G
      PROVE  \/ x \in Stop /\ w = out[x]
             \/ x \notin Stop /\ \E u \in S : <<step[x], u>> \in G /\ w = comb[<<x, u>>]
  <2> SUFFICES ASSUME x \in Stop => w # out[x],
                      x \notin Stop => \A u \in S : <<step[x], u>> \in G => w # comb[<<x, u>>]
               PROVE  FALSE
    OBVIOUS
  <2> DEFINE C == G \ {<<x, w>>}
  <2>1. C \in SUBSET (D \X S)
    OBVIOUS
  <2>2. Closed(C)
    <3>1. ASSUME NEW y \in D \cap Stop PROVE <<y, out[y]>> \in C
      BY <1>1
    <3>2. ASSUME NEW y \in D \ Stop, NEW u \in S, <<step[y], u>> \in C
          PROVE  <<y, comb[<<y, u>>]>> \in C
      BY <1>1, <3>2
    <3> QED BY <3>1, <3>2
  <2>3. <<x, w>> \in C
    <3> HIDE DEF C, Closed
    <3> QED BY <1>2, <2>1, <2>2
  <2> QED BY <2>3
<1> HIDE DEF G
<1>3. \A x \in D : (\A y \in D : m[y] < m[x] => y \in One) => x \in One
  <2> SUFFICES ASSUME NEW x \in D, \A y \in D : m[y] < m[x] => y \in One PROVE x \in One
    OBVIOUS
  <2>1. CASE x \in Stop
    <3>1. out[x] \in S /\ <<x, out[x]>> \in G
      BY <1>1, <2>1
    <3>2. \A w \in S : <<x, w>> \in G <=> w = out[x]
      BY <1>2, <2>1, <3>1
    <3> QED BY <3>1, <3>2
  <2>2. CASE x \notin Stop
    <3>1. step[x] \in One
      BY <1>0, <2>2
    <3>2. PICK u \in S : \A w \in S : <<step[x], w>> \in G <=> w = u
      BY <3>1
    <3>3. comb[<<x, u>>] \in S /\ <<x, comb[<<x, u>>]>> \in G
      BY <1>1, <2>2, <3>2
    <3>4. ASSUME NEW w \in S, <<x, w>> \in G PROVE w = comb[<<x, u>>]
      <4>1. PICK u2 \in S : <<step[x], u2>> \in G /\ w = comb[<<x, u2>>]
        BY <1>2, <2>2, <3>4
      <4> QED BY <3>2, <4>1
    <3>5. \A w \in S : <<x, w>> \in G <=> w = comb[<<x, u>>]
      BY <3>3, <3>4
    <3> QED BY <3>3, <3>5
  <2> QED BY <2>1, <2>2
<1>4. D \subseteq One
  <2> HIDE DEF One
  <2> QED BY <1>0, <1>3, MeasureLemma
<1> DEFINE f == [x \in D |-> CHOOSE w \in S : <<x, w>> \in G]
<1>5. ASSUME NEW x \in D
      PROVE  f[x] \in S /\ <<x, f[x]>> \in G /\ \A w \in S : <<x, w>> \in G => w = f[x]
  <2>1. PICK v \in S : \A w \in S : <<x, w>> \in G <=> w = v
    BY <1>4
  <2>2. f[x] = v
    BY <2>1
  <2> QED BY <2>1, <2>2
<1>8. f \in [D -> S]
  BY <1>5
<1> HIDE DEF f
<1>6. ASSUME NEW x \in D PROVE f[x] = IF x \in Stop THEN out[x] ELSE comb[<<x, f[step[x]]>>]
  <2>1. CASE x \in Stop
    BY <1>1, <1>5, <2>1
  <2>2. CASE x \notin Stop
    <3>1. step[x] \in D
      BY <1>0
    <3>2. f[step[x]] \in S /\ <<step[x], f[step[x]]>> \in G
      BY <1>5, <3>1
    <3>3. <<x, comb[<<x, f[step[x]]>>]>> \in G /\ comb[<<x, f[step[x]]>>] \in S
      BY <1>1, <2>2, <3>2
    <3> QED BY <1>5, <2>2, <3>3
  <2> QED BY <2>1, <2>2
<1> QED BY <1>6, <1>8 DEF Follows

\* A set that contains the results it starts from and that a step does not leave,
\* contains them all.
Carries(D, Stop, step, f, S) ==
  /\ \A x \in D \cap Stop : f[x] \in S
  /\ \A x \in D \ Stop : f[step[x]] \in S => f[x] \in S

LEMMA RecursionType ==
  ASSUME NEW D, NEW S, NEW Stop, NEW m, NEW step, Descends(D, Stop, m, step),
         NEW f, Carries(D, Stop, step, f, S)
  PROVE  \A x \in D : f[x] \in S
<1> DEFINE Good == {x \in D : f[x] \in S}
<1>1. \A x \in D : (\A y \in D : m[y] < m[x] => y \in Good) => x \in Good
  BY DEF Descends, Carries
<1>2. D \subseteq Good
  <2>1. m \in [D -> Nat]
    BY DEF Descends
  <2> HIDE DEF Good
  <2> QED BY <1>1, <2>1, MeasureLemma
<1> QED BY <1>2

----------------------------------------------------------------------------
(* Loops that count.                                                       *)

LEMMA CountingLemma ==
  ASSUME NEW n \in Nat, NEW G, 0 \in G, \A k \in 1 .. n : k - 1 \in G => k \in G
  PROVE  0 .. n \subseteq G
<1>1. PICK D, m : D = 0 .. n /\ m = [k \in D |-> k]
  OBVIOUS
<1>2. m \in [D -> Nat]
  BY <1>1
<1>3. \A x \in D : (\A y \in D : m[y] < m[x] => y \in G) => x \in G
  BY <1>1
<1>4. D \subseteq G
  BY <1>2, <1>3, MeasureLemma
<1> QED BY <1>1, <1>4

\* A loop of n turns, from x on, each turn of which is g.
Loops(n, S, x, g, f) ==
  /\ f \in [0 .. n -> S] /\ f[0] = x
  /\ \A k \in 1 .. n : f[k - 1] \in S /\ f[k] = g[<<k, f[k - 1]>>]

LEMMA LoopExists ==
  ASSUME NEW n \in Nat, NEW S, NEW x \in S, NEW g \in [(1 .. n) \X S -> S]
  PROVE  \E f : Loops(n, S, x, g, f)
<1>1. PICK D, Last, m, out, step, comb :
        /\ D = 0 .. n /\ Last = {0}
        /\ m    = [k \in D |-> k]
        /\ out  = [k \in D |-> x]
        /\ step = [k \in D |-> IF k = 0 THEN 0 ELSE k - 1]
        /\ comb = [q \in D \X S |-> IF q[1] = 0 THEN x ELSE g[q]]
  OBVIOUS
<1>2. Descends(D, Last, m, step)
  BY <1>1 DEF Descends
<1>3. out \in [D -> S] /\ comb \in [D \X S -> S]
  <2>1. ASSUME NEW q \in D \X S PROVE comb[q] \in S
    <3>1. q[1] # 0 => q \in (1 .. n) \X S
      BY <1>1
    <3> QED BY <1>1, <3>1
  <2> QED BY <1>1, <2>1
<1>4. PICK f \in [D -> S] : Follows(D, Last, out, step, comb, f)
  BY <1>2, <1>3, RecursionExists
<1>5. f[0] = x
  <2>1. 0 \in D /\ 0 \in Last
    BY <1>1
  <2> QED BY <1>1, <1>4, <2>1 DEF Follows
<1>6. ASSUME NEW k \in 1 .. n PROVE f[k - 1] \in S /\ f[k] = g[<<k, f[k - 1]>>]
  <2>1. k \in D /\ k # 0 /\ k - 1 \in D /\ step[k] = k - 1 /\ k \notin Last
    BY <1>1
  <2>2. <<k, f[k - 1]>> \in D \X S
    BY <2>1
  <2>3. f[k] = comb[<<k, f[k - 1]>>]
    BY <1>4, <2>1 DEF Follows
  <2> QED BY <1>1, <2>1, <2>2, <2>3
<1> QED BY <1>1, <1>4, <1>5, <1>6 DEF Loops

----------------------------------------------------------------------------
(* Sequences of anything.                                                  *)

IsSeq(s) == \E S : s \in Seq(S)

LEMMA EmptyLemma == IsSeq(<<>>) /\ Len(<<>>) = 0
<1>1. <<>> \in Seq({})
  OBVIOUS
<1> QED BY <1>1 DEF IsSeq

LEMMA LenLemma ==
  ASSUME NEW s, IsSeq(s)
  PROVE  Len(s) \in Nat /\ DOMAIN s = 1 .. Len(s)
BY DEF IsSeq

LEMMA AppendLemma ==
  ASSUME NEW s, NEW e, IsSeq(s)
  PROVE  /\ IsSeq(Append(s, e))
         /\ Len(Append(s, e)) = Len(s) + 1
         /\ \A i \in 1 .. Len(s) : Append(s, e)[i] = s[i]
<1>1. PICK S : s \in Seq(S)
  BY DEF IsSeq
<1>2. s \in Seq(S \cup {e}) /\ e \in S \cup {e}
  BY <1>1
<1> QED BY <1>2 DEF IsSeq

LEMMA PrefixLemma ==
  ASSUME NEW s, IsSeq(s), NEW n \in 0 .. Len(s)
  PROVE  /\ IsSeq(SubSeq(s, 1, n))
         /\ Len(SubSeq(s, 1, n)) = n
         /\ \A i \in 1 .. n : SubSeq(s, 1, n)[i] = s[i]
<1>1. PICK S : s \in Seq(S)
  BY DEF IsSeq
<1>2. SubSeq(s, 1, n) \in Seq(S)
  BY <1>1
<1> QED BY <1>1, <1>2 DEF IsSeq

LEMMA ConcatLemma ==
  ASSUME NEW s, NEW t, IsSeq(s), IsSeq(t)
  PROVE  /\ IsSeq(s \o t)
         /\ Len(s \o t) = Len(s) + Len(t)
         /\ \A i \in 1 .. Len(s) : (s \o t)[i] = s[i]
<1>1. PICK S : s \in Seq(S)
  BY DEF IsSeq
<1>2. PICK S2 : t \in Seq(S2)
  BY DEF IsSeq
<1>3. s \in Seq(S \cup S2) /\ t \in Seq(S \cup S2)
  BY <1>1, <1>2
<1>4. s \o t \in Seq(S \cup S2)
  BY <1>3
<1> QED BY <1>3, <1>4 DEF IsSeq

LEMMA UpdateLemma ==
  ASSUME NEW s, NEW e, IsSeq(s), NEW n \in 1 .. Len(s)
  PROVE  /\ IsSeq([s EXCEPT ![n] = e])
         /\ Len([s EXCEPT ![n] = e]) = Len(s)
         /\ \A i \in 1 .. Len(s) : i # n => [s EXCEPT ![n] = e][i] = s[i]
<1>1. PICK S : s \in Seq(S)
  BY DEF IsSeq
<1>2. s \in Seq(S \cup {e}) /\ e \in S \cup {e}
  BY <1>1
<1>3. [s EXCEPT ![n] = e] \in Seq(S \cup {e})
  BY <1>2
<1> QED BY <1>1, <1>3 DEF IsSeq

----------------------------------------------------------------------------
(* Integer arithmetic.                                                     *)

Ints == MinInt .. MaxInt

\* Wrapping brings every integer into the width, and does nothing inside it.
LEMMA WrapLemma ==
  ASSUME NEW i \in Int
  PROVE  Wrap(i) \in Ints /\ (i \in Ints => Wrap(i) = i)
<1>1. PICK h : h = Half /\ h \in Nat /\ h > 1
  BY HalfAssumption
<1>2. (i + h) % (2 * h) \in 0 .. 2 * h - 1
  BY <1>1
<1>3. i + h \in 0 .. 2 * h - 1 => (i + h) % (2 * h) = i + h
  BY <1>1
<1> QED BY <1>1, <1>2, <1>3 DEF Wrap, Ints, MinInt, MaxInt

LEMMA WidthLemma ==
  /\ Half \in Nat /\ Half > 1 /\ MinInt = -Half /\ MaxInt = Half - 1
  /\ Ints \subseteq Int /\ {-1, 0, 1} \subseteq Ints
  /\ \A i : InWidth(i) <=> i \in Ints
BY HalfAssumption DEF Ints, MinInt, MaxInt, InWidth

\* What division with a remainder says of naturals.
LEMMA DivLemma ==
  ASSUME NEW a \in Nat, NEW b \in Nat, b > 0
  PROVE  /\ a \div b \in 0 .. a /\ a % b \in 0 .. b - 1
         /\ a = b * (a \div b) + (a % b)
         /\ a > 0 /\ b > 1 => a \div b < a
<1>1. a \div b \in 0 .. a
  OBVIOUS
<1>2. a % b \in 0 .. b - 1
  OBVIOUS
<1>3. a = b * (a \div b) + (a % b)
  OBVIOUS
<1>4. a > 0 /\ b > 1 => a \div b < a
  OBVIOUS
<1> QED BY <1>1, <1>2, <1>3, <1>4

\* The quotient that checked division computes stays in the width.
LEMMA TruncDivLemma ==
  ASSUME NEW a \in Ints, NEW b \in Ints, b # 0, ~ (a = MinInt /\ b = -1)
  PROVE  TruncDiv(a, b) \in Ints
<1>1. PICK h, x, y : /\ h = Half /\ h \in Nat /\ h > 1 /\ x = Abs(a) /\ y = Abs(b)
                     /\ a \in -h .. h - 1 /\ b \in -h .. h - 1
  BY WidthLemma DEF Ints
<1>2. /\ x \in Nat /\ y \in Nat /\ y > 0 /\ x <= h
      /\ a >= 0 => x = a
      /\ a < 0 => x = -a
      /\ b >= 0 => y = b
      /\ b < 0 => y = -b
  BY <1>1 DEF Abs
<1>3. PICK q : q = x \div y
  OBVIOUS
<1>4. q \in 0 .. x /\ (x > 0 /\ y > 1 => q < x)
  BY <1>2, <1>3, DivLemma
<1>5. CASE (a < 0) <=> (b < 0)
  <2>1. TruncDiv(a, b) = q
    BY <1>1, <1>3, <1>5 DEF TruncDiv
  <2>2. q <= h - 1
    <3>1. CASE a >= 0
      BY <1>1, <1>2, <1>4, <3>1
    <3>2. CASE a < 0 /\ b = -1
      BY <1>1, <1>2, <1>4, <3>2, WidthLemma
    <3>3. CASE a < 0 /\ b < -1
      BY <1>1, <1>2, <1>4, <3>3
    <3> QED BY <1>1, <1>5, <3>1, <3>2, <3>3
  <2> QED BY <1>1, <1>2, <1>4, <2>1, <2>2, WidthLemma DEF Ints
<1>6. CASE ~ ((a < 0) <=> (b < 0))
  <2>1. TruncDiv(a, b) = -q
    BY <1>1, <1>3, <1>6 DEF TruncDiv
  <2> QED BY <1>1, <1>2, <1>4, <2>1, WidthLemma DEF Ints
<1> QED BY <1>5, <1>6

\* And so does the remainder, which is smaller than the divisor.
LEMMA TruncRemLemma ==
  ASSUME NEW a \in Ints, NEW b \in Ints, b # 0
  PROVE  TruncRem(a, b) \in Ints
<1>1. PICK h, x, y : /\ h = Half /\ h \in Nat /\ h > 1 /\ x = Abs(a) /\ y = Abs(b)
                     /\ a \in -h .. h - 1 /\ b \in -h .. h - 1
  BY WidthLemma DEF Ints
<1>2. /\ x \in Nat /\ y \in Nat /\ y > 0 /\ y <= h
      /\ a >= 0 => x = a
      /\ a < 0 => x = -a
      /\ b >= 0 => y = b
      /\ b < 0 => y = -b
  BY <1>1 DEF Abs
<1>3. PICK q, r : q = x \div y /\ r = x % y
  OBVIOUS
<1>4. q \in Nat /\ r \in 0 .. y - 1 /\ x = y * q + r
  BY <1>2, <1>3, DivLemma
<1>5. TruncRem(a, b) = IF a < 0 THEN -r ELSE r
  <2>1. CASE (a < 0) <=> (b < 0)
    <3>1. TruncRem(a, b) = a - b * q
      BY <1>1, <1>3, <2>1 DEF TruncRem, TruncDiv
    <3> QED BY <1>1, <1>2, <1>4, <2>1, <3>1
  <2>2. CASE ~ ((a < 0) <=> (b < 0))
    <3>1. TruncRem(a, b) = a - b * (-q)
      BY <1>1, <1>3, <2>2 DEF TruncRem, TruncDiv
    <3> QED BY <1>1, <1>2, <1>4, <2>2, <3>1
  <2> QED BY <2>1, <2>2
<1> QED BY <1>1, <1>2, <1>4, <1>5, WidthLemma DEF Ints

\* An outcome that is a value, is one in a heap of n arrays.
GoodOutcome(r, n) == r.status = "ok" => IsValue(r.v, n)

LEMMA ValueLemma ==
  ASSUME NEW n
  PROVE  /\ \A i \in Ints : GoodOutcome(Ok(IntV(i)), n)
         /\ \A f \in F64.floats : GoodOutcome(Ok(FloatV(f)), n)
         /\ \A b \in BOOLEAN : GoodOutcome(Ok(BoolV(b)), n)
         /\ \A s \in Seq(Nat) : GoodOutcome(Ok(StrV(s)), n)
         /\ GoodOutcome(Ok(UnitV), n)
         /\ \A e : e # "ok" => GoodOutcome(Err(e), n)
BY WidthLemma DEF GoodOutcome, IsValue, Ok, Err, IntV, FloatV, BoolV, StrV, UnitV, Kinds

LEMMA ArithTypeLemma ==
  ASSUME NEW n, NEW op \in IntArith, NEW a \in Ints, NEW b \in Ints
  PROVE  GoodOutcome(ArithInt(op, a, b), n)
<1>1. a \in Int /\ b \in Int /\ a + b \in Int /\ a - b \in Int /\ a * b \in Int
  BY WidthLemma
<1>2. Wrap(a + b) \in Ints /\ Wrap(a - b) \in Ints /\ Wrap(a * b) \in Ints
  BY <1>1, WrapLemma
<1>3. CASE op \in {"AddInt", "SubInt", "MulInt"}
  BY <1>2, <1>3, ValueLemma DEF ArithInt
<1>4. ASSUME NEW r, b # 0 /\ ~ (a = MinInt /\ b = -1) => r \in Ints
      PROVE  GoodOutcome(CheckedDiv(a, b, r), n)
  BY <1>4, ValueLemma DEF CheckedDiv
<1>5. CASE op = "DivInt"
  BY <1>4, <1>5, TruncDivLemma DEF ArithInt
<1>6. CASE op = "RemInt"
  BY <1>4, <1>6, TruncRemLemma DEF ArithInt
<1> QED BY <1>3, <1>5, <1>6 DEF IntArith

----------------------------------------------------------------------------
(* The recursive helpers: each is a recursion as above for some measure,   *)
(* so it exists, and its values have the type of a step.                   *)

\* The remainders of Euclid's algorithm stay natural.
LEMMA EuclidLemma == \A p \in Nat \X Nat : Euclid[p] \in Nat
<1>1. PICK D, S, Stop, m, out, step, comb :
        /\ D = Nat \X Nat /\ S = Nat
        /\ Stop = {p \in D : p[2] = 0}
        /\ m    = [p \in D |-> p[2]]
        /\ out  = [p \in D |-> p[1]]
        /\ step = [p \in D |-> IF p[2] = 0 THEN p ELSE <<p[2], p[1] % p[2]>>]
        /\ comb = [q \in D \X S |-> q[2]]
  OBVIOUS
<1>2. \A p \in D : p[1] \in S /\ p[2] \in S /\ (p[2] # 0 => p[1] % p[2] \in 0 .. p[2] - 1)
  BY <1>1
<1>3. Descends(D, Stop, m, step) /\ step \in [D -> D]
  BY <1>1, <1>2 DEF Descends
<1>10. out \in [D -> S] /\ comb \in [D \X S -> S]
  BY <1>1, <1>2
<1>4. PICK f \in [D -> S] : Follows(D, Stop, out, step, comb, f)
  BY <1>3, <1>10, RecursionExists
<1>5. ASSUME NEW p \in D
      PROVE  f[p] = IF p[2] = 0 THEN p[1] ELSE f[<<p[2], p[1] % p[2]>>]
  <2>1. f[step[p]] \in S
    BY <1>3
  <2> QED BY <1>1, <1>4, <2>1 DEF Follows
<1>6. f = [p \in Nat \X Nat |-> IF p[2] = 0 THEN p[1] ELSE f[<<p[2], p[1] % p[2]>>]]
  <2>1. f = [p \in D |-> f[p]]
    OBVIOUS
  <2> QED BY <1>1, <1>5, <2>1
<1>7. Euclid = [p \in Nat \X Nat |-> IF p[2] = 0 THEN p[1] ELSE Euclid[<<p[2], p[1] % p[2]>>]]
  BY <1>6 DEF Euclid
<1>8. Carries(D, Stop, step, Euclid, S)
  BY <1>1, <1>2, <1>7 DEF Carries
<1>9. \A p \in D : Euclid[p] \in S
  BY <1>3, <1>8, RecursionType
<1> QED BY <1>1, <1>9

\* The text of a natural is a sequence of bytes.
LEMMA DecimalLemma == \A n \in Nat : Decimal[n] \in Seq(Nat)
<1>1. PICK D, S, Stop, m, out, step, comb :
        /\ D = Nat /\ S = Seq(Nat)
        /\ Stop = {n \in D : n < 10}
        /\ m    = [n \in D |-> n]
        /\ out  = [n \in D |-> <<Digit(n)>>]
        /\ step = [n \in D |-> n \div 10]
        /\ comb = [q \in D \X S |-> Append(q[2], Digit(q[1] % 10))]
  OBVIOUS
<1>2. \A n \in D : /\ Digit(n) \in Nat /\ Digit(n % 10) \in Nat
                   /\ n \div 10 \in Nat /\ (n >= 10 => n \div 10 < n)
  <2>1. \A n \in Nat : n % 10 \in Nat /\ n \div 10 \in Nat /\ (n >= 10 => n \div 10 < n)
    BY DivLemma
  <2> QED BY <1>1, <2>1 DEF Digit
<1>3. Descends(D, Stop, m, step)
  BY <1>1, <1>2 DEF Descends
<1>4. out \in [D -> S] /\ comb \in [D \X S -> S]
  <2>1. out \in [D -> S]
    BY <1>1, <1>2
  <2>2. ASSUME NEW n \in D, NEW s \in S PROVE Append(s, Digit(n % 10)) \in S
    <3>1. PICK d : d = Digit(n % 10)
      OBVIOUS
    <3>2. d \in Nat /\ s \in Seq(Nat)
      BY <1>1, <1>2, <3>1
    <3>3. Append(s, d) \in Seq(Nat)
      BY <3>2
    <3> QED BY <1>1, <3>1, <3>3
  <2>3. comb \in [D \X S -> S]
    BY <1>1, <2>2
  <2> QED BY <2>1, <2>3
<1>5. PICK f \in [D -> S] : Follows(D, Stop, out, step, comb, f)
  BY <1>3, <1>4, RecursionExists
<1>6. ASSUME NEW n \in D
      PROVE  f[n] = IF n < 10 THEN <<Digit(n)>> ELSE Append(f[n \div 10], Digit(n % 10))
  <2>1. f[n \div 10] \in S
    BY <1>1, <1>2
  <2> QED BY <1>1, <1>5, <2>1 DEF Follows
<1>7. f = [n \in Nat |-> IF n < 10 THEN <<Digit(n)>> ELSE Append(f[n \div 10], Digit(n % 10))]
  <2>1. f = [n \in D |-> f[n]]
    OBVIOUS
  <2> QED BY <1>1, <1>6, <2>1
<1>8. Decimal = [n \in Nat |-> IF n < 10 THEN <<Digit(n)>>
                               ELSE Append(Decimal[n \div 10], Digit(n % 10))]
  BY <1>7 DEF Decimal
<1>9. Carries(D, Stop, step, Decimal, S)
  <2>1. \A n \in D \cap Stop : Decimal[n] \in S
    BY <1>1, <1>2, <1>8
  <2>2. ASSUME NEW n \in D \ Stop, Decimal[step[n]] \in S PROVE Decimal[n] \in S
    <3>1. Decimal[n] = Append(Decimal[n \div 10], Digit(n % 10)) /\ step[n] = n \div 10
      BY <1>1, <1>8
    <3> QED BY <1>1, <1>2, <2>2, <3>1
  <2> QED BY <2>1, <2>2 DEF Carries
<1>10. \A n \in D : Decimal[n] \in S
  BY <1>3, <1>9, RecursionType
<1> QED BY <1>1, <1>10

LEMMA IntTextLemma == ASSUME NEW i \in Int PROVE IntText(i) \in Seq(Nat)
<1>1. i < 0 => -i \in Nat
  OBVIOUS
<1>2. i < 0 => Decimal[-i] \in Seq(Nat)
  BY <1>1, DecimalLemma
<1>3. <<45>> \in Seq(Nat)
  OBVIOUS
<1>4. i < 0 => <<45>> \o Decimal[-i] \in Seq(Nat)
  BY <1>2, <1>3
<1>5. ~ (i < 0) => Decimal[i] \in Seq(Nat)
  BY DecimalLemma
<1> QED BY <1>4, <1>5 DEF IntText

\* A power is wrapped at every multiplication.
LEMMA PowerLemma == ASSUME NEW a \in Int, NEW n \in Nat PROVE Power(a, n) \in Ints
<1>1. PICK D, S, Stop, m, out, step, comb :
        /\ D = 0 .. n /\ S = Ints /\ Stop = {0}
        /\ m    = [k \in D |-> k]
        /\ out  = [k \in D |-> 1]
        /\ step = [k \in D |-> IF k = 0 THEN 0 ELSE k - 1]
        /\ comb = [q \in D \X S |-> Wrap(q[2] * a)]
  OBVIOUS
<1>2. \A w \in S : Wrap(w * a) \in S
  <2>1. \A w \in S : w * a \in Int
    BY <1>1, WidthLemma
  <2> QED BY <1>1, <2>1, WrapLemma
<1>3. Descends(D, Stop, m, step)
  BY <1>1 DEF Descends
<1>4. out \in [D -> S] /\ comb \in [D \X S -> S]
  BY <1>1, <1>2, WidthLemma
<1>5. PICK f \in [D -> S] : Follows(D, Stop, out, step, comb, f)
  BY <1>3, <1>4, RecursionExists
<1>6. ASSUME NEW k \in D
      PROVE  f[k] = IF k = 0 THEN 1 ELSE Wrap(f[k - 1] * a)
  <2>1. k # 0 => k - 1 \in D /\ f[k - 1] \in S
    BY <1>1
  <2> QED BY <1>1, <1>5, <2>1 DEF Follows
<1>7. f = [k \in 0 .. n |-> IF k = 0 THEN 1 ELSE Wrap(f[k - 1] * a)]
  <2>1. f = [k \in D |-> f[k]]
    OBVIOUS
  <2> QED BY <1>1, <1>6, <2>1
<1>8. PICK pow : /\ pow = [k \in 0 .. n |-> IF k = 0 THEN 1 ELSE Wrap(pow[k - 1] * a)]
                 /\ Power(a, n) = pow[n]
  BY <1>7 DEF Power
<1>9. Carries(D, Stop, step, pow, S)
  BY <1>1, <1>2, <1>8, WidthLemma DEF Carries
<1>10. \A k \in D : pow[k] \in S
  BY <1>3, <1>9, RecursionType
<1> QED BY <1>1, <1>8, <1>10

----------------------------------------------------------------------------
(* Strings: every operation makes a sequence of bytes.                     *)

LEMMA SubSeqLemma ==
  ASSUME NEW s \in Seq(Nat), NEW i \in 1 .. Len(s) + 1, NEW j \in 0 .. Len(s)
  PROVE  SubSeq(s, i, j) \in Seq(Nat)
OBVIOUS

\* A non-empty set of positions has a first and a last one.
LEMMA EndsLemma ==
  ASSUME NEW n \in Nat, NEW K \in SUBSET (0 .. n), K # {}
  PROVE  /\ \E i \in K : \A j \in K : i <= j
         /\ \E i \in K : \A j \in K : i >= j
<1>0. K \subseteq Nat /\ \A i \in K : i \in Nat /\ i <= n
  OBVIOUS
<1>1. \E i \in K : \A j \in K : i <= j
  BY <1>0, LeastLemma
<1>2. PICK R : R = {n - i : i \in K}
  OBVIOUS
<1>3. R \subseteq Nat /\ R # {}
  <2>1. \A i \in K : n - i \in Nat
    BY <1>0
  <2> QED BY <1>2, <2>1
<1>4. PICK r \in R : \A k \in R : r <= k
  BY <1>3, LeastLemma
<1>5. PICK i \in K : r = n - i
  BY <1>2, <1>4
<1>6. ASSUME NEW j \in K PROVE i >= j
  <2>1. n - j \in R
    BY <1>2
  <2>2. n - i <= n - j
    BY <1>4, <1>5, <2>1
  <2> QED BY <2>2
<1> QED BY <1>1, <1>6

LEMMA TrimLemma == ASSUME NEW s \in Seq(Nat) PROVE Trim(s) \in Seq(Nat)
<1>1. PICK kept : kept = {i \in DOMAIN s : ~ IsSpace(s[i])}
  OBVIOUS
<1>2. kept \subseteq 1 .. Len(s) /\ kept \subseteq 0 .. Len(s) /\ Len(s) \in Nat
  BY <1>1
<1>3. CASE kept = {}
  BY <1>1, <1>3 DEF Trim
<1>4. CASE kept # {}
  <2>1. PICK a, b : /\ a = CHOOSE i \in kept : \A j \in kept : i <= j
                    /\ b = CHOOSE i \in kept : \A j \in kept : i >= j
    OBVIOUS
  <2>2. a \in kept
    BY <1>2, <1>4, <2>1, EndsLemma
  <2>3. b \in kept
    BY <1>2, <1>4, <2>1, EndsLemma
  <2>4. SubSeq(s, a, b) \in Seq(Nat)
    BY <1>2, <2>2, <2>3, SubSeqLemma
  <2>5. Trim(s) = SubSeq(s, a, b)
    BY <1>1, <1>4, <2>1 DEF Trim
  <2> QED BY <2>4, <2>5
<1> QED BY <1>3, <1>4

LEMMA CaseLemma ==
  ASSUME NEW s \in Seq(Nat)
  PROVE  ToUpper(s) \in Seq(Nat) /\ ToLower(s) \in Seq(Nat)
<1>1. \A c \in Nat : (IsLower(c) => c - 32 \in Nat) /\ c + 32 \in Nat
  BY DEF IsLower
<1>5. \A i \in 1 .. Len(s) : s[i] \in Nat
  OBVIOUS
<1>2. DOMAIN s = 1 .. Len(s) /\ Len(s) \in Nat
  OBVIOUS
<1>3. ToUpper(s) \in [1 .. Len(s) -> Nat]
  BY <1>1, <1>2, <1>5 DEF ToUpper
<1>4. ToLower(s) \in [1 .. Len(s) -> Nat]
  BY <1>1, <1>2, <1>5 DEF ToLower
<1>6. \A f \in [1 .. Len(s) -> Nat] : f \in Seq(Nat)
  BY <1>2
<1> QED BY <1>3, <1>4, <1>6

LEMMA SubstringLemma ==
  ASSUME NEW s \in Seq(Nat), NEW i \in Int, NEW j \in Int
  PROVE  Substring(s, i, j) \in Seq(Nat)
<1>1. PICK from, to : from = Clamp(i, 0, Len(s)) /\ to = Clamp(j, 0, Len(s))
  OBVIOUS
<1>2. from \in 0 .. Len(s) /\ to \in 0 .. Len(s) /\ Len(s) \in Nat
  BY <1>1 DEF Clamp
<1>3. from + 1 \in 1 .. Len(s) + 1
  BY <1>2
<1>4. SubSeq(s, from + 1, to) \in Seq(Nat)
  BY <1>2, <1>3, SubSeqLemma
<1>5. <<>> \in Seq(Nat)
  OBVIOUS
<1> QED BY <1>1, <1>4, <1>5 DEF Substring

LEMMA IndexOfLemma ==
  ASSUME NEW s \in Seq(Nat), NEW p
  PROVE  IndexOf(s, p) \in Int
<1>1. Matches(s, p) \subseteq 0 .. Len(s) /\ Len(s) \in Nat
  BY DEF Matches
<1>2. CASE Matches(s, p) = {}
  BY <1>2 DEF IndexOf
<1>3. CASE Matches(s, p) # {}
  <2>1. \E i \in Matches(s, p) : \A j \in Matches(s, p) : i <= j
    BY <1>1, <1>3, EndsLemma
  <2>2. IndexOf(s, p) \in Matches(s, p)
    BY <1>3, <2>1 DEF IndexOf
  <2> QED BY <1>1, <2>2
<1> QED BY <1>2, <1>3

LEMMA ParseIntLemma == ASSUME NEW s PROVE ParseInt(s) \in Ints
BY WidthLemma DEF ParseInt

LEMMA RepeatLemma ==
  ASSUME NEW s \in Seq(Nat), NEW k \in Int, NEW n
  PROVE  GoodOutcome(Repeat(s, k), n)
<1>1. PICK count, total : count = (IF k < 0 THEN 0 ELSE k) /\ total = Len(s) * count
  OBVIOUS
<1>2. count \in Nat /\ Len(s) \in Nat /\ total \in Nat
  BY <1>1
<1>3. CASE total > MaxBytes
  BY <1>1, <1>3, ValueLemma DEF Repeat
<1>4. CASE ~ (total > MaxBytes)
  <2>1. ASSUME NEW i \in 1 .. total PROVE s[((i - 1) % Len(s)) + 1] \in Nat
    <3>1. Len(s) # 0
      BY <1>1, <1>2
    <3>2. (i - 1) % Len(s) \in 0 .. Len(s) - 1
      BY <1>2, <3>1, DivLemma
    <3> QED BY <1>2, <3>2
  <2>2. [i \in 1 .. total |-> s[((i - 1) % Len(s)) + 1]] \in Seq(Nat)
    BY <1>2, <2>1
  <2> QED BY <1>1, <1>4, <2>2, ValueLemma DEF Repeat
<1> QED BY <1>3, <1>4

----------------------------------------------------------------------------
(* The builtins: a call that has the shape of the signature yields a value.*)

\* The payloads of each kind that a signature names.
Payload(k) ==
  CASE k = "Int" -> Ints [] k = "Float" -> F64.floats
    [] k = "Bool" -> BOOLEAN [] k = "Str" -> Seq(Nat)

\* The signatures of the builtins that yield a value, by the shape of their arguments.
LEMMA SignatureLemma ==
  /\ \A b \in {"abs", "sign", "int_to_str", "char_to_str", "to_float"} :
       Signatures[b].params = <<"Int">>
  /\ \A b \in {"min", "max", "gcd", "lcm", "pow_int"} : Signatures[b].params = <<"Int", "Int">>
  /\ Signatures["clamp"].params = <<"Int", "Int", "Int">>
  /\ \A b \in FloatRoundings \cup FloatFunctions \cup {"float_to_str"} :
       Signatures[b].params = <<"Float">>
  /\ \A b \in FloatPairings : Signatures[b].params = <<"Float", "Float">>
  /\ Signatures["bool_to_str"].params = <<"Bool">>
  /\ \A b \in {"str_len", "parse_int", "to_upper", "to_lower", "trim"} :
       Signatures[b].params = <<"Str">>
  /\ \A b \in {"char_at", "str_repeat"} : Signatures[b].params = <<"Str", "Int">>
  /\ \A b \in {"starts_with", "ends_with", "contains", "index_of"} :
       Signatures[b].params = <<"Str", "Str">>
  /\ Signatures["substring"].params = <<"Str", "Int", "Int">>
BY DEF Signatures, Signature, FloatRoundings, FloatFunctions, FloatPairings

\* What such a call gives the builtin to work on.
LEMMA ArgsLemma ==
  ASSUME NEW b, NEW n, NEW args, AreValues(args, n), WellShaped(b, args),
         NEW x, x = [i \in DOMAIN args |-> args[i].v],
         NEW params, params = Signatures[b].params, params \in Seq({"Int", "Float", "Bool", "Str"})
  PROVE  \A i \in 1 .. Len(params) : x[i] \in Payload(params[i])
<1> SUFFICES ASSUME NEW i \in 1 .. Len(params) PROVE x[i] \in Payload(params[i])
  OBVIOUS
<1>1. [j \in DOMAIN args |-> args[j].t] = params
  BY DEF WellShaped
<1>2. i \in DOMAIN params /\ params[i] \in {"Int", "Float", "Bool", "Str"}
  OBVIOUS
<1>3. i \in DOMAIN args /\ args[i].t = params[i]
  BY <1>1, <1>2
<1>4. IsValue(args[i], n) /\ x[i] = args[i].v
  BY <1>3 DEF AreValues
<1> QED BY <1>2, <1>3, <1>4, WidthLemma DEF IsValue, Payload

LEMMA IntBuiltinType ==
  ASSUME NEW n, NEW b \in IntBuiltins, NEW x, x[1] \in Ints,
         b \notin {"abs", "sign"} => x[2] \in Ints,
         b = "clamp" => x[3] \in Ints
  PROVE  GoodOutcome(IntBuiltin(b, x), n)
<1>0. x[1] \in Int
  BY WidthLemma
<1>1. CASE b = "abs"
  <2>1. Abs(x[1]) \in Int
    BY <1>0 DEF Abs
  <2>2. Wrap(Abs(x[1])) \in Ints
    BY <2>1, WrapLemma
  <2> QED BY <1>1, <2>2, ValueLemma DEF IntBuiltin
<1>2. CASE b \in {"min", "max"}
  BY <1>2, ValueLemma DEF IntBuiltin
<1>3. CASE b \in {"gcd", "lcm"}
  <2>0. x[2] \in Int
    BY <1>3, WidthLemma
  <2>1. Abs(x[1]) \in Nat /\ Abs(x[2]) \in Nat
    BY <1>0, <2>0 DEF Abs
  <2>2. Euclid[<<Abs(x[1]), Abs(x[2])>>] \in Int
    <3>1. <<Abs(x[1]), Abs(x[2])>> \in Nat \X Nat
      BY <2>1
    <3>2. Euclid[<<Abs(x[1]), Abs(x[2])>>] \in Nat
      BY <3>1, EuclidLemma
    <3> QED BY <3>2
  <2>3. Gcd(x[1], x[2]) \in Ints
    BY <2>2, WrapLemma DEF Gcd
  <2>4. Gcd(x[1], x[2]) # 0 => Lcm(x[1], x[2]) \in Ints
    <3> SUFFICES ASSUME Gcd(x[1], x[2]) # 0 PROVE Lcm(x[1], x[2]) \in Ints
      OBVIOUS
    <3>1. PICK g : g = Gcd(x[1], x[2]) /\ g \in Int /\ g # 0
      BY <2>3, WidthLemma
    <3>2. TruncDiv(x[1], g) \in Int
      <4>1. Abs(x[1]) \in Nat /\ Abs(g) \in Nat /\ Abs(g) > 0
        BY <1>0, <3>1 DEF Abs
      <4>2. Abs(x[1]) \div Abs(g) \in Nat
        BY <4>1, DivLemma
      <4> QED BY <4>2 DEF TruncDiv
    <3>3. Wrap(TruncDiv(x[1], g) * x[2]) \in Int
      <4>1. TruncDiv(x[1], g) * x[2] \in Int
        BY <2>0, <3>2
      <4> QED BY <4>1, WrapLemma, WidthLemma
    <3>4. Abs(Wrap(TruncDiv(x[1], g) * x[2])) \in Int
      BY <3>3 DEF Abs
    <3>5. Wrap(Abs(Wrap(TruncDiv(x[1], g) * x[2]))) \in Ints
      BY <3>4, WrapLemma
    <3> QED BY <3>1, <3>5 DEF Lcm
  <2>5. Lcm(x[1], x[2]) \in Ints
    BY <2>4, WidthLemma DEF Lcm
  <2> QED BY <1>3, <2>3, <2>5, ValueLemma DEF IntBuiltin
<1>4. CASE b = "sign"
  BY <1>4, WidthLemma, ValueLemma DEF IntBuiltin, Sign
<1>5. CASE b = "clamp"
  BY <1>5, ValueLemma DEF IntBuiltin, Clamp
<1>6. CASE b = "pow_int"
  <2>1. CASE x[2] \in 0 .. MaxExp
    <3>1. Power(x[1], x[2]) \in Ints
      BY <1>0, <2>1, MaxExpAssumption, PowerLemma
    <3> QED BY <1>6, <2>1, <3>1, ValueLemma DEF IntBuiltin
  <2>2. CASE x[2] \notin 0 .. MaxExp
    BY <1>6, <2>2, ValueLemma DEF IntBuiltin
  <2> QED BY <2>1, <2>2
<1> QED BY <1>1, <1>2, <1>3, <1>4, <1>5, <1>6 DEF IntBuiltins

LEMMA FloatBuiltinType ==
  ASSUME NEW n, NEW b \in FloatBuiltins, NEW x, x[1] \in F64.floats,
         b \in FloatPairings => x[2] \in F64.floats
  PROVE  GoodOutcome(FloatBuiltin(b, x), n)
<1>0. /\ FloatRoundings \cap FloatFunctions = {} /\ FloatRoundings \cap FloatPairings = {}
      /\ FloatFunctions \cap FloatPairings = {}
  BY DEF FloatRoundings, FloatFunctions, FloatPairings
<1>1. CASE b \in FloatRoundings
  <2>1. ToInt(b, x[1]) \in Ints
    BY <1>1, F64Assumption, WidthLemma
  <2>2. FloatBuiltin(b, x) = Ok(IntV(ToInt(b, x[1])))
    BY <1>0, <1>1 DEF FloatBuiltin
  <2> QED BY <2>1, <2>2, ValueLemma
<1>2. CASE b \in FloatFunctions
  <2>1. UnaryFloat(b, x[1]) \in F64.floats
    BY <1>2, F64Assumption
  <2>3. FloatBuiltin(b, x) = Ok(FloatV(UnaryFloat(b, x[1])))
    BY <1>0, <1>2 DEF FloatBuiltin
  <2> QED BY <2>1, <2>3, ValueLemma
<1>3. CASE b \in FloatPairings
  <2>1. ArithFloat(b, x[1], x[2]) \in F64.floats
    BY <1>3, F64Assumption
  <2>2. FloatBuiltin(b, x) = Ok(FloatV(ArithFloat(b, x[1], x[2])))
    BY <1>0, <1>3 DEF FloatBuiltin
  <2> QED BY <2>1, <2>2, ValueLemma
<1> QED BY <1>1, <1>2, <1>3 DEF FloatBuiltins

LEMMA ConvertBuiltinType ==
  ASSUME NEW n, NEW b \in Conversions, NEW x,
         b \in {"int_to_str", "char_to_str", "to_float"} => x[1] \in Ints,
         b = "float_to_str" => x[1] \in F64.floats
  PROVE  GoodOutcome(ConvertBuiltin(b, x), n)
<1>1. CASE b = "int_to_str"
  <2>1. IntText(x[1]) \in Seq(Nat)
    BY <1>1, WidthLemma, IntTextLemma
  <2> QED BY <1>1, <2>1, ValueLemma DEF ConvertBuiltin
<1>2. CASE b = "float_to_str"
  <2>1. F64.text[x[1]] \in Seq(Nat)
    BY <1>2, F64Assumption
  <2> QED BY <1>2, <2>1, ValueLemma DEF ConvertBuiltin
<1>3. CASE b = "bool_to_str"
  <2>1. <<116, 114, 117, 101>> \in Seq(Nat) /\ <<102, 97, 108, 115, 101>> \in Seq(Nat)
    OBVIOUS
  <2> QED BY <1>3, <2>1, ValueLemma DEF ConvertBuiltin
<1>4. CASE b = "char_to_str"
  <2>1. <<>> \in Seq(Nat) /\ (x[1] \in 0 .. 127 => <<x[1]>> \in Seq(Nat))
    OBVIOUS
  <2> QED BY <1>4, <2>1, ValueLemma DEF ConvertBuiltin
<1>5. CASE b = "to_float"
  <2>1. F64.ofInt[x[1]] \in F64.floats
    BY <1>5, F64Assumption DEF Ints
  <2> QED BY <1>5, <2>1, ValueLemma DEF ConvertBuiltin
<1> QED BY <1>1, <1>2, <1>3, <1>4, <1>5 DEF Conversions

StrBuiltins == {"str_len", "substring", "char_at", "str_repeat", "starts_with", "ends_with",
                "contains", "index_of", "parse_int", "to_upper", "to_lower", "trim"}

LEMMA StrBuiltinType ==
  ASSUME NEW n, NEW b \in StrBuiltins, NEW x, x[1] \in Seq(Nat),
         b \in {"char_at", "str_repeat", "substring"} => x[2] \in Ints,
         b = "substring" => x[3] \in Ints
  PROVE  GoodOutcome(StrBuiltin(b, x), n)
<1>1. CASE b = "str_len"
  <2>1. Wrap(Len(x[1])) \in Ints
    BY WrapLemma
  <2> QED BY <1>1, <2>1, ValueLemma DEF StrBuiltin
<1>2. CASE b = "substring"
  <2>1. Substring(x[1], x[2], x[3]) \in Seq(Nat)
    BY <1>2, WidthLemma, SubstringLemma
  <2> QED BY <1>2, <2>1, ValueLemma DEF StrBuiltin
<1>3. CASE b = "char_at"
  <2>1. IndexInBounds(x[2], Len(x[1])) => x[1][x[2] + 1] \in Nat
    <3>1. PICK s, i : s = x[1] /\ i = x[2] /\ s \in Seq(Nat) /\ i \in Int
      BY <1>3, WidthLemma
    <3>2. 0 <= i /\ i < Len(s) => i + 1 \in 1 .. Len(s)
      BY <3>1
    <3> QED BY <3>1, <3>2 DEF IndexInBounds
  <2>2. IndexInBounds(x[2], Len(x[1])) => Wrap(x[1][x[2] + 1]) \in Ints
    BY <2>1, WrapLemma
  <2> QED BY <1>3, <2>2, ValueLemma DEF StrBuiltin
<1>4. CASE b = "str_repeat"
  <2>1. GoodOutcome(Repeat(x[1], x[2]), n)
    BY <1>4, WidthLemma, RepeatLemma
  <2> QED BY <1>4, <2>1 DEF StrBuiltin
<1>5. CASE b = "starts_with"
  <2>1. MatchesAt(x[1], x[2], 0) \in BOOLEAN
    BY DEF MatchesAt
  <2> QED BY <1>5, <2>1, ValueLemma DEF StrBuiltin
<1>6. CASE b = "ends_with"
  <2>1. (Len(x[2]) <= Len(x[1]) /\ MatchesAt(x[1], x[2], Len(x[1]) - Len(x[2]))) \in BOOLEAN
    OBVIOUS
  <2> QED BY <1>6, <2>1, ValueLemma DEF StrBuiltin
<1>7. CASE b = "contains"
  <2>1. (Matches(x[1], x[2]) # {}) \in BOOLEAN
    OBVIOUS
  <2> QED BY <1>7, <2>1, ValueLemma DEF StrBuiltin
<1>8. CASE b = "index_of"
  <2>1. Wrap(IndexOf(x[1], x[2])) \in Ints
    BY IndexOfLemma, WrapLemma
  <2> QED BY <1>8, <2>1, ValueLemma DEF StrBuiltin
<1>9. CASE b = "parse_int"
  BY <1>9, ParseIntLemma, ValueLemma DEF StrBuiltin
<1>10. CASE b \in {"to_upper", "to_lower"}
  BY <1>10, CaseLemma, ValueLemma DEF StrBuiltin
<1>11. CASE b = "trim"
  BY <1>11, TrimLemma, ValueLemma DEF StrBuiltin
<1> QED
  BY <1>1, <1>2, <1>3, <1>4, <1>5, <1>6, <1>7, <1>8, <1>9, <1>10, <1>11 DEF StrBuiltins

\* The payloads by the shape of the signature.
LEMMA ShapesLemma ==
  ASSUME NEW b, NEW n, NEW args, AreValues(args, n), WellShaped(b, args),
         NEW x, x = [i \in DOMAIN args |-> args[i].v]
  PROVE  /\ \A k \in {"Int", "Float", "Bool", "Str"} :
              Signatures[b].params = <<k>> => x[1] \in Payload(k)
         /\ \A k, l \in {"Int", "Float", "Bool", "Str"} :
              Signatures[b].params = <<k, l>> => x[1] \in Payload(k) /\ x[2] \in Payload(l)
         /\ \A k, l, m \in {"Int", "Float", "Bool", "Str"} :
              Signatures[b].params = <<k, l, m>> =>
                x[1] \in Payload(k) /\ x[2] \in Payload(l) /\ x[3] \in Payload(m)
<1>1. ASSUME NEW k \in {"Int", "Float", "Bool", "Str"}, Signatures[b].params = <<k>>
      PROVE  x[1] \in Payload(k)
  <2>1. PICK p : p = <<k>>
    OBVIOUS
  <2>2. p \in Seq({"Int", "Float", "Bool", "Str"}) /\ Len(p) = 1 /\ p[1] = k
    BY <2>1
  <2>3. \A i \in 1 .. Len(p) : x[i] \in Payload(p[i])
    BY <1>1, <2>1, <2>2, ArgsLemma
  <2> QED BY <2>2, <2>3
<1>2. ASSUME NEW k \in {"Int", "Float", "Bool", "Str"}, NEW l \in {"Int", "Float", "Bool", "Str"},
             Signatures[b].params = <<k, l>>
      PROVE  x[1] \in Payload(k) /\ x[2] \in Payload(l)
  <2>1. PICK p : p = <<k, l>>
    OBVIOUS
  <2>2. p \in Seq({"Int", "Float", "Bool", "Str"}) /\ Len(p) = 2 /\ p[1] = k /\ p[2] = l
    BY <2>1
  <2>3. \A i \in 1 .. Len(p) : x[i] \in Payload(p[i])
    BY <1>2, <2>1, <2>2, ArgsLemma
  <2> QED BY <2>2, <2>3
<1>3. ASSUME NEW k \in {"Int", "Float", "Bool", "Str"}, NEW l \in {"Int", "Float", "Bool", "Str"},
             NEW m \in {"Int", "Float", "Bool", "Str"}, Signatures[b].params = <<k, l, m>>
      PROVE  x[1] \in Payload(k) /\ x[2] \in Payload(l) /\ x[3] \in Payload(m)
  <2>1. PICK p : p = <<k, l, m>>
    OBVIOUS
  <2>2. p \in Seq({"Int", "Float", "Bool", "Str"}) /\ Len(p) = 3 /\ p[1] = k /\ p[2] = l /\ p[3] = m
    BY <2>1
  <2>3. \A i \in 1 .. Len(p) : x[i] \in Payload(p[i])
    BY <1>3, <2>1, <2>2, ArgsLemma
  <2> QED BY <2>2, <2>3
<1> QED BY <1>1, <1>2, <1>3

\* A builtin given values yields a value.
LEMMA EvalTypeLemma ==
  ASSUME NEW b \in BuiltinNames, NEW n, NEW args, AreValues(args, n)
  PROVE  GoodOutcome(Eval(b, args), n)
<1>1. PICK x : x = [i \in DOMAIN args |-> args[i].v]
  OBVIOUS
<1>2. CASE ~ WellShaped(b, args)
  BY <1>2, ValueLemma DEF Eval
<1>3. CASE WellShaped(b, args) /\ b \in PrintOps
  BY <1>3, ValueLemma DEF Eval
<1>4. CASE WellShaped(b, args) /\ b \notin PrintOps
  <2>1. b \in IntBuiltins \cup FloatBuiltins \cup Conversions \cup StrBuiltins
    BY <1>4 DEF BuiltinNames, Signatures, PrintOps, IntBuiltins, FloatBuiltins, FloatRoundings,
                FloatFunctions, FloatPairings, Conversions, StrBuiltins, WellShaped, IsGeneric
  <2>2. /\ Payload("Int") = Ints /\ Payload("Float") = F64.floats /\ Payload("Str") = Seq(Nat)
    BY DEF Payload
  <2>7. PICK p : p = Signatures[b].params
    OBVIOUS
  <2>8. /\ p = <<"Int">> => x[1] \in Ints
        /\ p = <<"Int", "Int">> => x[1] \in Ints /\ x[2] \in Ints
        /\ p = <<"Int", "Int", "Int">> => x[1] \in Ints /\ x[2] \in Ints /\ x[3] \in Ints
        /\ p = <<"Float">> => x[1] \in F64.floats
        /\ p = <<"Float", "Float">> => x[1] \in F64.floats /\ x[2] \in F64.floats
    BY <1>1, <1>4, <2>2, <2>7, ShapesLemma
  <2>9. /\ p = <<"Str">> => x[1] \in Seq(Nat)
        /\ p = <<"Str", "Int">> => x[1] \in Seq(Nat) /\ x[2] \in Ints
        /\ p = <<"Str", "Str">> => x[1] \in Seq(Nat)
        /\ p = <<"Str", "Int", "Int">> => x[1] \in Seq(Nat) /\ x[2] \in Ints /\ x[3] \in Ints
    BY <1>1, <1>4, <2>2, <2>7, ShapesLemma
  <2>3. CASE b \in IntBuiltins
    <3>1. x[1] \in Ints /\ (b \notin {"abs", "sign"} => x[2] \in Ints)
            /\ (b = "clamp" => x[3] \in Ints)
      <4>1. CASE b \in {"abs", "sign"}
        BY <2>7, <2>8, <2>9, <4>1, SignatureLemma
      <4>2. CASE b \in {"min", "max", "gcd", "lcm", "pow_int"}
        BY <2>7, <2>8, <2>9, <4>2, SignatureLemma
      <4>3. CASE b = "clamp"
        BY <2>7, <2>8, <2>9, <4>3, SignatureLemma
      <4> QED BY <2>3, <4>1, <4>2, <4>3 DEF IntBuiltins
    <3> QED BY <1>1, <1>4, <2>3, <3>1, IntBuiltinType DEF Eval
  <2>4. CASE b \in FloatBuiltins
    <3>1. x[1] \in F64.floats /\ (b \in FloatPairings => x[2] \in F64.floats)
      <4>1. CASE b \in FloatRoundings \cup FloatFunctions
        <5>1. b \notin FloatPairings
          BY <4>1 DEF FloatPairings, FloatRoundings, FloatFunctions
        <5> QED BY <2>7, <2>8, <2>9, <4>1, <5>1, SignatureLemma
      <4>2. CASE b \in FloatPairings
        BY <2>7, <2>8, <2>9, <4>2, SignatureLemma
      <4> QED BY <2>4, <4>1, <4>2 DEF FloatBuiltins
    <3>2. b \notin IntBuiltins
      BY <2>4 DEF FloatBuiltins, IntBuiltins, FloatPairings, FloatRoundings, FloatFunctions
    <3> QED BY <1>1, <1>4, <2>4, <3>1, <3>2, FloatBuiltinType DEF Eval
  <2>5. CASE b \in Conversions
    <3>1. /\ b \in {"int_to_str", "char_to_str", "to_float"} => x[1] \in Ints
          /\ b = "float_to_str" => x[1] \in F64.floats
      BY <2>7, <2>8, SignatureLemma
    <3>2. b \notin IntBuiltins /\ b \notin FloatBuiltins
      BY <2>5 DEF Conversions, FloatBuiltins, IntBuiltins, FloatPairings, FloatRoundings,
                  FloatFunctions
    <3> QED BY <1>1, <1>4, <2>5, <3>1, <3>2, ConvertBuiltinType DEF Eval
  <2>6. CASE b \in StrBuiltins
    <3>1. /\ x[1] \in Seq(Nat)
          /\ b \in {"char_at", "str_repeat", "substring"} => x[2] \in Ints
          /\ b = "substring" => x[3] \in Ints
      <4>1. CASE b \in {"str_len", "parse_int", "to_upper", "to_lower", "trim"}
        BY <2>7, <2>8, <2>9, <4>1, SignatureLemma
      <4>2. CASE b \in {"char_at", "str_repeat"}
        BY <2>7, <2>8, <2>9, <4>2, SignatureLemma
      <4>3. CASE b \in {"starts_with", "ends_with", "contains", "index_of"}
        BY <2>7, <2>8, <2>9, <4>3, SignatureLemma
      <4>4. CASE b = "substring"
        BY <2>7, <2>8, <2>9, <4>4, SignatureLemma
      <4> QED BY <2>6, <4>1, <4>2, <4>3, <4>4 DEF StrBuiltins
    <3>2. b \notin IntBuiltins /\ b \notin FloatBuiltins /\ b \notin Conversions
      BY <2>6 DEF StrBuiltins, Conversions, FloatBuiltins, IntBuiltins, FloatPairings,
                  FloatRoundings, FloatFunctions
    <3> QED BY <1>1, <1>4, <2>6, <3>1, <3>2, StrBuiltinType DEF Eval
  <2> QED BY <2>1, <2>3, <2>4, <2>5, <2>6
<1> QED BY <1>2, <1>3, <1>4

----------------------------------------------------------------------------
(* Sequences of values.                                                    *)

Typed(s, n) == IsSeq(s) /\ AreValues(s, n)

\* A value of a heap is one of a larger heap.
LEMMA GrowLemma ==
  ASSUME NEW n \in Nat, NEW m \in Nat, n <= m
  PROVE  /\ \A x : IsValue(x, n) => IsValue(x, m)
         /\ \A s : Typed(s, n) => Typed(s, m)
<1>1. \A x : IsValue(x, n) => IsValue(x, m)
  BY DEF IsValue
<1> QED BY <1>1 DEF Typed, AreValues

LEMMA TypedLemma ==
  ASSUME NEW s, NEW n
  PROVE  Typed(s, n) <=> IsSeq(s) /\ \A i \in 1 .. Len(s) : IsValue(s[i], n)
BY LenLemma DEF Typed, AreValues

LEMMA TypedAppend ==
  ASSUME NEW s, NEW n, NEW v, Typed(s, n), IsValue(v, n)
  PROVE  Typed(Append(s, v), n)
<1>1. IsSeq(s) /\ Len(s) \in Nat
  BY LenLemma DEF Typed
<1>2. Append(s, v)[Len(s) + 1] = v
  <2>1. PICK S : s \in Seq(S)
    BY <1>1 DEF IsSeq
  <2>2. s \in Seq(S \cup {v})
    BY <2>1
  <2> QED BY <2>2
<1>3. ASSUME NEW i \in 1 .. Len(s) + 1 PROVE IsValue(Append(s, v)[i], n)
  <2>1. CASE i = Len(s) + 1
    BY <1>2, <2>1
  <2>2. CASE i # Len(s) + 1
    <3>1. i \in 1 .. Len(s)
      BY <1>1, <2>2
    <3> QED BY <1>1, <3>1, AppendLemma, TypedLemma
  <2> QED BY <2>1, <2>2
<1> QED BY <1>1, <1>3, AppendLemma, TypedLemma

LEMMA TypedPrefix ==
  ASSUME NEW s, NEW n, Typed(s, n), NEW k \in 0 .. Len(s)
  PROVE  Typed(SubSeq(s, 1, k), n)
<1>1. IsSeq(s) /\ Len(s) \in Nat
  BY LenLemma DEF Typed
<1>2. /\ IsSeq(SubSeq(s, 1, k)) /\ Len(SubSeq(s, 1, k)) = k
      /\ \A i \in 1 .. k : SubSeq(s, 1, k)[i] = s[i]
  BY <1>1, PrefixLemma
<1>3. \A i \in 1 .. k : i \in 1 .. Len(s)
  BY <1>1
<1> QED BY <1>2, <1>3, TypedLemma

LEMMA TypedConcat ==
  ASSUME NEW s, NEW t, NEW n, Typed(s, n), Typed(t, n)
  PROVE  Typed(s \o t, n)
<1>1. IsSeq(s) /\ IsSeq(t) /\ Len(s) \in Nat /\ Len(t) \in Nat
  BY LenLemma DEF Typed
<1>2. /\ IsSeq(s \o t) /\ Len(s \o t) = Len(s) + Len(t)
      /\ \A i \in 1 .. Len(s) : (s \o t)[i] = s[i]
  BY <1>1, ConcatLemma
<1>3. \A i \in 1 .. Len(t) : (s \o t)[Len(s) + i] = t[i]
  <2>1. PICK S : s \in Seq(S)
    BY <1>1 DEF IsSeq
  <2>2. PICK U : t \in Seq(U)
    BY <1>1 DEF IsSeq
  <2>3. s \in Seq(S \cup U) /\ t \in Seq(S \cup U)
    BY <2>1, <2>2
  <2> QED BY <2>3
<1>4. ASSUME NEW i \in 1 .. Len(s) + Len(t) PROVE IsValue((s \o t)[i], n)
  <2>1. CASE i <= Len(s)
    <3>1. i \in 1 .. Len(s)
      BY <1>1, <2>1
    <3> QED BY <1>2, <3>1, TypedLemma
  <2>2. CASE i > Len(s)
    <3>1. PICK j \in 1 .. Len(t) : i = Len(s) + j
      <4>1. i - Len(s) \in 1 .. Len(t) /\ i = Len(s) + (i - Len(s))
        BY <1>1, <2>2
      <4> QED BY <4>1
    <3> QED BY <1>3, <3>1, TypedLemma
  <2> QED BY <1>1, <2>1, <2>2
<1> QED BY <1>2, <1>4, TypedLemma

LEMMA TypedUpdate ==
  ASSUME NEW s, NEW n, NEW v, Typed(s, n), IsValue(v, n), NEW k \in 1 .. Len(s)
  PROVE  Typed([s EXCEPT ![k] = v], n)
<1>1. IsSeq(s) /\ Len(s) \in Nat /\ DOMAIN s = 1 .. Len(s)
  BY LenLemma DEF Typed
<1>2. /\ IsSeq([s EXCEPT ![k] = v]) /\ Len([s EXCEPT ![k] = v]) = Len(s)
      /\ \A i \in 1 .. Len(s) : i # k => [s EXCEPT ![k] = v][i] = s[i]
      /\ [s EXCEPT ![k] = v][k] = v
  BY <1>1, UpdateLemma
<1> QED BY <1>2, TypedLemma

\* The last k items.
LEMMA TypedSuffix ==
  ASSUME NEW s, NEW n, Typed(s, n), NEW k \in 0 .. Len(s)
  PROVE  Typed(SubSeq(s, Len(s) - k + 1, Len(s)), n)
<1>1. IsSeq(s) /\ Len(s) \in Nat
  BY LenLemma DEF Typed
<1>2. PICK S : s \in Seq(S)
  BY <1>1 DEF IsSeq
<1>3. PICK a, t : a = Len(s) - k + 1 /\ t = SubSeq(s, a, Len(s))
  OBVIOUS
<1>4. a \in 1 .. Len(s) + 1
  BY <1>1, <1>3
<1>5. /\ t \in Seq(S) /\ Len(t) = Len(s) - a + 1
      /\ \A i \in 1 .. Len(s) - a + 1 : t[i] = s[a + i - 1]
  BY <1>2, <1>3, <1>4
<1>6. \A i \in 1 .. Len(s) - a + 1 : a + i - 1 \in 1 .. Len(s)
  BY <1>1, <1>4
<1>7. \A i \in 1 .. Len(t) : IsValue(t[i], n)
  BY <1>5, <1>6, TypedLemma
<1> QED BY <1>3, <1>5, <1>7, TypedLemma DEF IsSeq

----------------------------------------------------------------------------
(* Outcomes: no operation on values reports an error about the structure   *)
(* of the code or of the stack.                                            *)

Clean == UserErrors \cup KindErrors \cup Aborts \cup {"step limit exceeded"}

LEMMA ArithLemma ==
  ASSUME NEW op \in IntArith, NEW a, NEW b
  PROVE  ArithInt(op, a, b).status \in Clean \cup {"ok"}
BY DEF ArithInt, CheckedDiv, IntArith, Ok, Err, Clean, UserErrors

LEMMA IntBuiltinLemma ==
  ASSUME NEW b \in IntBuiltins, NEW x
  PROVE  IntBuiltin(b, x).status \in Clean \cup {"ok"}
BY DEF IntBuiltin, IntBuiltins, Ok, Err, Clean, KindErrors

LEMMA FloatBuiltinLemma ==
  ASSUME NEW b \in FloatBuiltins, NEW x
  PROVE  FloatBuiltin(b, x).status \in Clean \cup {"ok"}
BY DEF FloatBuiltin, FloatBuiltins, Ok

LEMMA ConvertBuiltinLemma ==
  ASSUME NEW b \in Conversions, NEW x
  PROVE  ConvertBuiltin(b, x).status \in Clean \cup {"ok"}
BY DEF ConvertBuiltin, Conversions, Ok

LEMMA StrBuiltinLemma ==
  ASSUME NEW b \in StrBuiltins, NEW x
  PROVE  StrBuiltin(b, x).status \in Clean \cup {"ok"}
BY DEF StrBuiltin, StrBuiltins, Repeat, Ok, Err, Clean, UserErrors, Aborts

LEMMA EvalLemma ==
  ASSUME NEW b \in BuiltinNames, NEW args
  PROVE  Eval(b, args).status \in Clean \cup {"ok"}
<1>1. b \in PrintOps \cup IntBuiltins \cup FloatBuiltins \cup Conversions \cup StrBuiltins
        \cup {"len"}
  BY DEF BuiltinNames, Signatures, PrintOps, IntBuiltins, FloatBuiltins, FloatRoundings,
         FloatFunctions, FloatPairings, Conversions, StrBuiltins
<1>2. WellShaped(b, args) => b # "len"
  BY DEF WellShaped, IsGeneric
<1>3. /\ Ok(UnitV).status = "ok"
      /\ Err("builtin called with wrong argument").status \in Clean
  BY DEF Ok, Err, Clean, KindErrors
<1> QED
  BY <1>1, <1>2, <1>3, IntBuiltinLemma, FloatBuiltinLemma, ConvertBuiltinLemma, StrBuiltinLemma
     DEF Eval
==============================================================================
