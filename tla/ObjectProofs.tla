----------------------------- MODULE ObjectProofs -----------------------------
(***************************************************************************)
(* Proofs about the object format: what `lumenc build' writes `lumenc      *)
(* exec' reads back, and of a damaged file it reads nothing but whole      *)
(* functions as they were.                                                 *)
(***************************************************************************)
EXTENDS Object, RuntimeProofs, SequenceTheorems

Bytes == Seq(Nat)

LEMMA CatLemma ==
  ASSUME NEW S, NEW s \in Seq(S), NEW t \in Seq(S)
  PROVE  /\ s \o t \in Seq(S) /\ Len(s \o t) = Len(s) + Len(t)
         /\ Len(s) \in Nat /\ Len(t) \in Nat
         /\ \A i \in 1 .. Len(s) : (s \o t)[i] = s[i]
         /\ \A i \in 1 .. Len(t) : (s \o t)[Len(s) + i] = t[i]
OBVIOUS

----------------------------------------------------------------------------
(* A text that is written piece by piece.                                  *)

\* The text u[k] after k of n pieces, from what was there at first.
Appended(n, first, pieces, u) ==
  u = [k \in 0 .. n |-> IF k = 0 THEN first ELSE u[k - 1] \o pieces[k]]

LEMMA AppendedExists ==
  ASSUME NEW S, NEW n \in Nat, NEW first \in Seq(S), NEW pieces \in [1 .. n -> Seq(S)]
  PROVE  \E u : Appended(n, first, pieces, u)
<1>1. PICK D, Stop, T : D = 0 .. n /\ Stop = {0} /\ T = Seq(S)
  OBVIOUS
<1>2. PICK m, out, step, comb :
        /\ m    = [k \in D |-> k]
        /\ out  = [k \in D |-> first]
        /\ step = [k \in D |-> IF k = 0 THEN 0 ELSE k - 1]
        /\ comb = [q \in D \X T |-> IF q[1] = 0 THEN first ELSE q[2] \o pieces[q[1]]]
  OBVIOUS
<1>3. D = 0 .. n /\ Stop = {0} /\ \A k \in D : step[k] = IF k = 0 THEN 0 ELSE k - 1
  BY <1>1, <1>2
<1>4. \A k \in D : k # 0 => k \in 1 .. n /\ k - 1 \in D
  BY <1>3
<1>5. /\ D = 0 .. n /\ Stop = {0}
      /\ \A k \in D : step[k] = IF k = 0 THEN 0 ELSE k - 1
      /\ \A k \in D : k # 0 => k \in 1 .. n /\ k - 1 \in D
  BY <1>3, <1>4
<1>6. Descends(D, Stop, m, step)
  BY <1>1, <1>2, <1>5 DEF Descends
<1>7. out \in [D -> T] /\ comb \in [D \X T -> T]
  <2>1. ASSUME NEW q \in D \X T PROVE comb[q] \in T
    <3>1. q[1] \in 0 .. n /\ q[2] \in Seq(S)
      BY <1>1, <1>2
    <3>2. q[1] # 0 => pieces[q[1]] \in Seq(S)
      BY <1>5, <3>1
    <3> QED BY <1>1, <1>2, <3>1, <3>2
  <2> QED BY <1>1, <1>2, <2>1
<1>8. PICK u \in [D -> T] : Follows(D, Stop, out, step, comb, u)
  BY <1>6, <1>7, RecursionExists
<1>9. ASSUME NEW k \in D PROVE u[k] = IF k = 0 THEN first ELSE u[k - 1] \o pieces[k]
  <2>1. CASE k = 0
    BY <1>1, <1>2, <1>8, <2>1 DEF Follows
  <2>2. CASE k # 0
    <3>1. k - 1 \in D /\ step[k] = k - 1 /\ k \notin Stop
      BY <1>5, <2>2
    <3>2. u[k - 1] \in T
      BY <3>1
    <3>3. u[k] = comb[<<k, u[k - 1]>>]
      BY <1>8, <3>1 DEF Follows
    <3>4. comb[<<k, u[k - 1]>>] = u[k - 1] \o pieces[k]
      BY <1>1, <1>2, <2>2, <3>2
    <3> QED BY <2>2, <3>3, <3>4
  <2> QED BY <2>1, <2>2
<1>10. u = [k \in 0 .. n |-> IF k = 0 THEN first ELSE u[k - 1] \o pieces[k]]
  <2>1. u = [k \in D |-> u[k]]
    OBVIOUS
  <2> QED BY <1>5, <1>9, <2>1
<1> QED BY <1>10 DEF Appended

\* What is written stays written.
Grows(S, n, first, pieces, u) ==
  /\ u[0] = first /\ \A k \in 1 .. n : u[k] = u[k - 1] \o pieces[k]
  /\ \A k \in 0 .. n : u[k] \in Seq(S)
  /\ \A k \in 0 .. n : \A j \in k .. n :
       Len(u[k]) <= Len(u[j]) /\ \A i \in 1 .. Len(u[k]) : u[j][i] = u[k][i]

LEMMA AppendedLemma ==
  ASSUME NEW S, NEW n \in Nat, NEW first \in Seq(S), NEW pieces \in [1 .. n -> Seq(S)],
         NEW u, Appended(n, first, pieces, u)
  PROVE  Grows(S, n, first, pieces, u)
<1>1. \A k \in 0 .. n : u[k] = IF k = 0 THEN first ELSE u[k - 1] \o pieces[k]
  BY DEF Appended
<1>2. u[0] = first /\ \A k \in 1 .. n : u[k] = u[k - 1] \o pieces[k]
  <2>1. 0 \in 0 .. n /\ \A k \in 1 .. n : k \in 0 .. n /\ k # 0
    OBVIOUS
  <2> QED BY <1>1, <2>1
<1>3. \A k \in 0 .. n : u[k] \in Seq(S)
  <2> DEFINE Good == {k \in 0 .. n : u[k] \in Seq(S)}
  <2>1. PICK D, m : D = 0 .. n /\ m = [k \in D |-> k]
    OBVIOUS
  <2>2. ASSUME NEW k \in D, \A j \in D : m[j] < m[k] => j \in Good PROVE k \in Good
    <3>1. CASE k = 0
      BY <1>2, <2>1, <3>1
    <3>2. CASE k # 0
      <4>1. k \in 1 .. n /\ k - 1 \in D /\ m[k - 1] < m[k]
        BY <2>1, <3>2
      <4>2. u[k - 1] \in Seq(S)
        BY <2>2, <4>1
      <4>3. u[k - 1] \o pieces[k] \in Seq(S)
        BY <4>1, <4>2
      <4> QED BY <1>2, <2>1, <4>1, <4>3
    <3> QED BY <3>1, <3>2
  <2>3. m \in [D -> Nat]
    BY <2>1
  <2>4. D \subseteq Good
    <3> HIDE DEF Good
    <3> QED BY <2>2, <2>3, MeasureLemma
  <2> QED BY <2>1, <2>4
<1>4. ASSUME NEW k \in 0 .. n, NEW j0 \in k .. n
      PROVE  Len(u[k]) <= Len(u[j0]) /\ \A i \in 1 .. Len(u[k]) : u[j0][i] = u[k][i]
  <2>1. PICK D, m : D = k .. n /\ m = [j \in D |-> j - k]
    OBVIOUS
  <2>2. Len(u[k]) \in Nat
    BY <1>3
  <2> DEFINE Good == {j \in D : /\ Len(u[k]) <= Len(u[j])
                                /\ \A i \in 1 .. Len(u[k]) : u[j][i] = u[k][i]}
  <2>3. ASSUME NEW j \in D, \A i \in D : m[i] < m[j] => i \in Good PROVE j \in Good
    <3>1. CASE j = k
      BY <2>2, <3>1
    <3>2. CASE j # k
      <4>1. j - 1 \in D /\ m[j - 1] < m[j] /\ j \in 1 .. n /\ j - 1 \in 0 .. n
        BY <2>1, <3>2
      <4>2. j - 1 \in Good
        BY <2>3, <4>1
      <4>3. PICK s, t : s = u[j - 1] /\ t = pieces[j]
        OBVIOUS
      <4>4. s \in Seq(S) /\ t \in Seq(S) /\ u[j] = s \o t
        BY <1>2, <1>3, <4>1, <4>3
      <4>5. /\ Len(s \o t) = Len(s) + Len(t) /\ Len(s) \in Nat /\ Len(t) \in Nat
            /\ \A i \in 1 .. Len(s) : (s \o t)[i] = s[i]
        BY <4>4, CatLemma
      <4>6. Len(u[k]) <= Len(s) /\ \A i \in 1 .. Len(u[k]) : s[i] = u[k][i]
        BY <4>2, <4>3
      <4> QED BY <2>2, <4>4, <4>5, <4>6
    <3> QED BY <3>1, <3>2
  <2>4. m \in [D -> Nat]
    BY <2>1
  <2>5. D \subseteq Good
    <3> HIDE DEF Good
    <3> QED BY <2>3, <2>4, MeasureLemma
  <2> QED BY <2>1, <2>5
<1> QED BY <1>2, <1>3, <1>4 DEF Grows

----------------------------------------------------------------------------
(* Strings.                                                                *)

LEMMA QuoteByteLemma ==
  ASSUME NEW b \in Nat
  PROVE  \/ /\ QuoteByte(b) = <<b>> /\ b # Backslash
         \/ \E e \in Nat : QuoteByte(b) = <<Backslash, e>> /\ Unescaped(e) = b
                           /\ (e = Backslash <=> b = Backslash)
<1>1. CASE \E e \in ObjectEscapes : e[1] = b
  <2>1. PICK e : e = CHOOSE x \in ObjectEscapes : x[1] = b
    OBVIOUS
  <2>2. e \in ObjectEscapes /\ e[1] = b
    BY <1>1, <2>1
  <2>3. QuoteByte(b) = <<Backslash, e[2]>>
    BY <1>1, <2>1 DEF QuoteByte
  <2>4. PICK g : g = CHOOSE x \in ObjectEscapes : x[2] = e[2]
    OBVIOUS
  <2>5. g \in ObjectEscapes /\ g[2] = e[2]
    BY <2>2, <2>4
  <2>6. g[1] = e[1] /\ e[2] \in Nat /\ (e[2] = Backslash <=> e[1] = Backslash)
    BY <2>2, <2>5 DEF ObjectEscapes, Backslash
  <2>7. Unescaped(e[2]) = g[1]
    BY <2>2, <2>4 DEF Unescaped
  <2> QED BY <2>2, <2>3, <2>6, <2>7
<1>2. CASE ~ \E e \in ObjectEscapes : e[1] = b
  <2>1. QuoteByte(b) = <<b>>
    BY <1>2 DEF QuoteByte
  <2>2. <<92, 92>> \in ObjectEscapes /\ <<92, 92>>[1] = 92
    BY DEF ObjectEscapes
  <2>3. b # Backslash
    BY <1>2, <2>2 DEF Backslash
  <2> QED BY <2>1, <2>3
<1> QED BY <1>1, <1>2

LEMMA QuoteByteType ==
  ASSUME NEW b \in Nat
  PROVE  QuoteByte(b) \in Bytes /\ Len(QuoteByte(b)) \in {1, 2}
<1>1. CASE QuoteByte(b) = <<b>>
  BY <1>1 DEF Bytes
<1>2. CASE \E e \in Nat : QuoteByte(b) = <<Backslash, e>>
  BY <1>2 DEF Bytes, Backslash
<1> QED BY <1>1, <1>2, QuoteByteLemma

\* How a string is escaped: u[k] are the escapes of its first k bytes.
Escapes(str, u) ==
  /\ u[0] = <<>> /\ \A k \in 1 .. Len(str) : u[k] = u[k - 1] \o QuoteByte(str[k])
  /\ \A k \in 0 .. Len(str) : u[k] \in Seq(Nat)
  /\ \A k \in 0 .. Len(str) : \A j \in k .. Len(str) :
       Len(u[k]) <= Len(u[j]) /\ \A i \in 1 .. Len(u[k]) : u[j][i] = u[k][i]
  /\ Escaped(str) = u[Len(str)]

LEMMA EscapedLemma == ASSUME NEW str \in Bytes PROVE \E u : Escapes(str, u)
<1>1. PICK n, pieces : n = Len(str) /\ pieces = [k \in 1 .. n |-> QuoteByte(str[k])]
  OBVIOUS
<1>2. n \in Nat /\ \A k \in 1 .. n : str[k] \in Nat
  BY <1>1 DEF Bytes
<1>3. \A k \in 1 .. n : QuoteByte(str[k]) \in Seq(Nat)
  BY <1>2, QuoteByteType DEF Bytes
<1>4. pieces \in [1 .. n -> Seq(Nat)] /\ \A k \in 1 .. n : pieces[k] = QuoteByte(str[k])
  BY <1>1, <1>3
<1>5. <<>> \in Seq(Nat)
  OBVIOUS
<1>6. PICK f : Appended(n, <<>>, pieces, f)
  BY <1>2, <1>4, <1>5, AppendedExists
<1>7. ASSUME NEW u
      PROVE  Appended(n, <<>>, pieces, u)
               <=> u = [k \in 0 .. n |-> IF k = 0 THEN <<>> ELSE u[k - 1] \o QuoteByte(str[k])]
  <2>1. [k \in 0 .. n |-> IF k = 0 THEN <<>> ELSE u[k - 1] \o pieces[k]]
          = [k \in 0 .. n |-> IF k = 0 THEN <<>> ELSE u[k - 1] \o QuoteByte(str[k])]
    <3>1. \A k \in 0 .. n : k # 0 => pieces[k] = QuoteByte(str[k])
      BY <1>2, <1>4
    <3> QED BY <3>1
  <2> QED BY <2>1 DEF Appended
<1>8. PICK u :
        /\ u = [k \in 0 .. n |-> IF k = 0 THEN <<>> ELSE u[k - 1] \o QuoteByte(str[k])]
        /\ Escaped(str) = u[n]
  BY <1>1, <1>6, <1>7 DEF Escaped
<1>9. Appended(n, <<>>, pieces, u)
  BY <1>7, <1>8
<1>10. /\ u[0] = <<>> /\ \A k \in 1 .. n : u[k] = u[k - 1] \o pieces[k]
       /\ \A k \in 0 .. n : u[k] \in Seq(Nat)
       /\ \A k \in 0 .. n : \A j \in k .. n :
            Len(u[k]) <= Len(u[j]) /\ \A i \in 1 .. Len(u[k]) : u[j][i] = u[k][i]
  <2>1. PICK first : first = <<>>
    OBVIOUS
  <2>2. first \in Seq(Nat) /\ Appended(n, first, pieces, u)
    BY <1>5, <1>9, <2>1
  <2>3. Grows(Nat, n, first, pieces, u)
    BY <1>2, <1>4, <2>2, AppendedLemma
  <2> QED BY <2>1, <2>3 DEF Grows
<1>11. \A k \in 1 .. n : u[k] = u[k - 1] \o QuoteByte(str[k])
  BY <1>4, <1>10
<1> QED BY <1>1, <1>8, <1>10, <1>11 DEF Escapes

\* How it is read: from[k] is what the text says from its k-th byte on.
Unquotes(text, from) ==
  from = [k \in 1 .. Len(text) + 2 |->
            IF k > Len(text) THEN <<>>
            ELSE IF text[k] = Backslash /\ k < Len(text)
                 THEN <<Unescaped(text[k + 1])>> \o from[k + 2]
                 ELSE <<text[k]>> \o from[k + 1]]

LEMMA UnescapedType == ASSUME NEW b \in Nat PROVE Unescaped(b) \in Nat
<1>1. PICK e : e = CHOOSE x \in ObjectEscapes : x[2] = b
  OBVIOUS
<1>2. CASE \E x \in ObjectEscapes : x[2] = b
  <2>1. e \in ObjectEscapes
    BY <1>1, <1>2
  <2>2. e[1] \in Nat
    BY <2>1 DEF ObjectEscapes
  <2> QED BY <1>1, <1>2, <2>2 DEF Unescaped
<1>3. CASE ~ \E x \in ObjectEscapes : x[2] = b
  BY <1>3 DEF Unescaped
<1> QED BY <1>2, <1>3

LEMMA UnquotesExists ==
  ASSUME NEW text \in Bytes
  PROVE  \E from : Unquotes(text, from)
<1>1. PICK n, D, T : n = Len(text) /\ D = 1 .. n + 2 /\ T = Seq(Nat)
  OBVIOUS
<1>2. n \in Nat /\ \A k \in 1 .. n : text[k] \in Nat
  BY <1>1 DEF Bytes
<1>3. PICK Stop, Two : /\ Stop = {k \in D : k > n}
                       /\ Two = {k \in D : text[k] = Backslash /\ k < n}
  OBVIOUS
<1>4. PICK m, out, step, comb :
        /\ m    = [k \in D |-> n + 2 - k]
        /\ out  = [k \in D |-> <<>>]
        /\ step = [k \in D |-> IF k > n THEN k ELSE IF k \in Two THEN k + 2 ELSE k + 1]
        /\ comb = [q \in D \X T |->
                     IF q[1] > n THEN <<>>
                     ELSE IF q[1] \in Two THEN <<Unescaped(text[q[1] + 1])>> \o q[2]
                     ELSE <<text[q[1]]>> \o q[2]]
  OBVIOUS
<1>5. \A k \in D : k \in Nat /\ (k \notin Stop => k \in 1 .. n /\ k + 1 \in D /\ k + 2 \in D)
  BY <1>1, <1>2, <1>3
<1>6. Descends(D, Stop, m, step)
  <2>1. m \in [D -> Nat]
    BY <1>1, <1>2, <1>4
  <2>2. step \in [D -> D]
    BY <1>3, <1>4, <1>5
  <2>3. ASSUME NEW k \in D \ Stop PROVE m[step[k]] < m[k]
    <3>1. step[k] \in {k + 1, k + 2} /\ step[k] \in D
      BY <1>3, <1>4, <1>5
    <3>2. m[step[k]] = n + 2 - step[k] /\ m[k] = n + 2 - k
      BY <1>4, <3>1
    <3> QED BY <1>2, <1>5, <3>1, <3>2
  <2> QED BY <2>1, <2>2, <2>3 DEF Descends
<1>7. out \in [D -> T] /\ comb \in [D \X T -> T]
  <2>1. ASSUME NEW q \in D \X T PROVE comb[q] \in T
    <3>1. q[1] \in D /\ q[2] \in Seq(Nat)
      BY <1>1
    <3>2. PICK k, w : k = q[1] /\ w = q[2]
      OBVIOUS
    <3>3. CASE k > n
      BY <1>1, <1>4, <3>2, <3>3
    <3>4. CASE ~ (k > n)
      <4>1. k \in 1 .. n /\ text[k] \in Nat /\ w \in Seq(Nat)
        BY <1>2, <1>3, <1>5, <3>1, <3>2, <3>4
      <4>5. k \in Two => k < n
        BY <1>3
      <4>2. k \in Two => k + 1 \in 1 .. n
        BY <1>2, <4>1, <4>5
      <4>3. k \in Two => Unescaped(text[k + 1]) \in Nat
        BY <1>2, <4>2, UnescapedType
      <4>4. /\ k \in Two => <<Unescaped(text[k + 1])>> \o w \in Seq(Nat)
            /\ <<text[k]>> \o w \in Seq(Nat)
        BY <4>1, <4>3
      <4> QED BY <1>1, <1>4, <3>2, <3>4, <4>4
    <3> QED BY <3>3, <3>4
  <2>2. <<>> \in T
    BY <1>1
  <2> QED BY <1>4, <2>1, <2>2
<1>8. PICK from \in [D -> T] : Follows(D, Stop, out, step, comb, from)
  BY <1>6, <1>7, RecursionExists
<1>9. ASSUME NEW k \in D
      PROVE  from[k] = IF k > n THEN <<>>
                       ELSE IF text[k] = Backslash /\ k < n
                            THEN <<Unescaped(text[k + 1])>> \o from[k + 2]
                            ELSE <<text[k]>> \o from[k + 1]
  <2>1. CASE k > n
    BY <1>3, <1>4, <1>8, <2>1 DEF Follows
  <2>2. CASE ~ (k > n)
    <3>1. k \notin Stop /\ step[k] = IF k \in Two THEN k + 2 ELSE k + 1
      BY <1>3, <1>4, <2>2
    <3>2. step[k] \in D
      BY <1>5, <3>1
    <3>3. from[step[k]] \in T
      BY <3>2
    <3>4. from[k] = comb[<<k, from[step[k]]>>]
      BY <1>8, <3>1 DEF Follows
    <3>5. comb[<<k, from[step[k]]>>]
            = IF k \in Two THEN <<Unescaped(text[k + 1])>> \o from[step[k]]
              ELSE <<text[k]>> \o from[step[k]]
      BY <1>4, <2>2, <3>3
    <3>6. k \in Two <=> text[k] = Backslash /\ k < n
      BY <1>3
    <3> QED BY <2>2, <3>1, <3>4, <3>5, <3>6
  <2> QED BY <2>1, <2>2
<1>10. from = [k \in D |-> from[k]]
  OBVIOUS
<1> QED BY <1>1, <1>9, <1>10 DEF Unquotes

LEMMA UnquoteLemma ==
  ASSUME NEW text, Inner(text) \in Bytes
  PROVE  \E from : Unquotes(Inner(text), from) /\ Unquote(text) = from[1]
<1>1. PICK inner : inner = Inner(text)
  OBVIOUS
<1>2. PICK f : Unquotes(inner, f)
  BY <1>1, UnquotesExists
<1> QED BY <1>1, <1>2, ZenonT(30) DEF Unquotes, Unquote

\* Between the quotation marks.
LEMMA InnerLemma ==
  ASSUME NEW str \in Bytes
  PROVE  Escaped(str) \in Bytes /\ Inner(Quote(str)) = Escaped(str)
<1>1. PICK u : Escapes(str, u)
  BY EscapedLemma
<1>2. Len(str) \in 0 .. Len(str)
  BY DEF Bytes
<1>4. PICK e : e = Escaped(str)
  OBVIOUS
<1>5. e \in Seq(Nat)
  BY <1>1, <1>2, <1>4 DEF Escapes
<1>6. PICK q, a : q = <<Quotation>> /\ a = q \o e
  OBVIOUS
<1>7. q \in Seq(Nat) /\ Len(q) = 1 /\ a \in Seq(Nat) /\ Len(a) = 1 + Len(e)
      /\ \A i \in 1 .. Len(e) : a[1 + i] = e[i]
  BY <1>5, <1>6 DEF Quotation
<1>8. PICK t : t = a \o q
  OBVIOUS
<1>9. /\ t \in Seq(Nat) /\ Len(t) = Len(a) + 1 /\ \A i \in 1 .. Len(a) : t[i] = a[i]
  <2>1. a \in Seq(Nat) /\ q \in Seq(Nat) /\ Len(q) = 1
    BY <1>7
  <2>2. /\ a \o q \in Seq(Nat) /\ Len(a \o q) = Len(a) + Len(q)
        /\ \A i \in 1 .. Len(a) : (a \o q)[i] = a[i]
    BY <2>1, CatLemma
  <2> QED BY <1>8, <2>1, <2>2
<1>10. PICK b : b = SubSeq(t, 2, Len(t) - 1)
  OBVIOUS
<1>11. Len(e) \in Nat /\ Len(t) - 1 = 1 + Len(e)
  BY <1>5, <1>7, <1>9
<1>12. \A i \in 2 .. 1 + Len(e) : t[i] \in Nat
  BY <1>9, <1>11
<1>13. /\ b \in Seq(Nat) /\ Len(b) = IF 2 <= 1 + Len(e) THEN 1 + Len(e) - 2 + 1 ELSE 0
       /\ \A i \in 1 .. 1 + Len(e) - 2 + 1 : b[i] = t[2 + i - 1]
  BY <1>10, <1>11, <1>12, SubSeqProperties
<1>14. Len(b) = Len(e)
  BY <1>11, <1>13
<1>15. ASSUME NEW i \in 1 .. Len(b) PROVE b[i] = e[i]
  <2>1. i \in 1 .. Len(e) /\ i \in 1 .. 1 + Len(e) - 2 + 1 /\ 2 + i - 1 = 1 + i /\ 1 + i \in 1 .. Len(a)
    BY <1>7, <1>11, <1>14
  <2> QED BY <1>7, <1>9, <1>13, <2>1
<1>16. b = e
  BY <1>5, <1>13, <1>14, <1>15, SeqEqual
<1>17. Quote(str) = t
  BY <1>4, <1>6, <1>8 DEF Quote
<1> QED BY <1>4, <1>5, <1>10, <1>16, <1>17 DEF Inner, Bytes

\* A quoted string is read back as it was.
LEMMA UnquoteQuoteLemma == ASSUME NEW str \in Bytes PROVE Unquote(Quote(str)) = str
<1>1. PICK u : Escapes(str, u)
  BY EscapedLemma
<1>2. PICK n, text : n = Len(str) /\ text = Escaped(str)
  OBVIOUS
<1>3. n \in Nat /\ str \in Seq(Nat) /\ \A k \in 1 .. n : str[k] \in Nat
  BY <1>2 DEF Bytes
<1>4. /\ u[0] = <<>> /\ \A k \in 1 .. n : u[k] = u[k - 1] \o QuoteByte(str[k])
      /\ \A k \in 0 .. n : u[k] \in Seq(Nat)
  BY <1>1, <1>2 DEF Escapes
<1>5. \A k \in 0 .. n : Len(u[k]) <= Len(u[n]) /\ \A i \in 1 .. Len(u[k]) : u[n][i] = u[k][i]
  <2>1. \A k \in 0 .. n : n \in k .. n
    BY <1>3
  <2> QED BY <1>1, <1>2, <2>1 DEF Escapes
<1>6. Inner(Quote(str)) = text /\ text \in Seq(Nat) /\ text = u[n]
  BY <1>1, <1>2, InnerLemma DEF Bytes, Escapes
<1>7. PICK from : Unquotes(text, from) /\ Unquote(Quote(str)) = from[1]
  BY <1>6, UnquoteLemma DEF Bytes
<1>8. \A k \in 1 .. Len(text) + 2 :
        from[k] = IF k > Len(text) THEN <<>>
                  ELSE IF text[k] = Backslash /\ k < Len(text)
                       THEN <<Unescaped(text[k + 1])>> \o from[k + 2]
                       ELSE <<text[k]>> \o from[k + 1]
  BY <1>7 DEF Unquotes
<1>9. PICK D, m, pos : /\ D = 1 .. n + 1
                       /\ m = [k \in D |-> n + 1 - k] /\ pos = [k \in D |-> Len(u[k - 1]) + 1]
  OBVIOUS
<1>10. \A k \in D : k - 1 \in 0 .. n /\ m[k] = n + 1 - k /\ pos[k] = Len(u[k - 1]) + 1
  BY <1>3, <1>9
<1> DEFINE Good == {k \in D : from[pos[k]] = SubSeq(str, k, n)}
<1>11. ASSUME NEW k \in D, \A j \in D : m[j] < m[k] => j \in Good PROVE k \in Good
  <2>1. CASE k = n + 1
    <3>1. pos[k] = Len(text) + 1 /\ Len(text) \in Nat
      BY <1>3, <1>6, <1>10, <2>1
    <3>4. Len(text) + 1 \in 1 .. Len(text) + 2 /\ Len(text) + 1 > Len(text)
      BY <3>1
    <3>2. from[pos[k]] = <<>>
      BY <1>8, <3>1, <3>4
    <3>3. SubSeq(str, k, n) = <<>>
      BY <1>3, <2>1, SubSeqEmpty
    <3> QED BY <3>2, <3>3
  <2>2. CASE k # n + 1
    <3>1. k \in 1 .. n /\ k + 1 \in D /\ (k + 1) - 1 = k /\ k - 1 \in 0 .. n /\ k \in 0 .. n
      BY <1>3, <1>9, <2>2
    <3>2. m[k + 1] < m[k]
      <4>1. m[k + 1] = n + 1 - (k + 1) /\ m[k] = n + 1 - k
        BY <1>10, <3>1
      <4> QED BY <1>3, <3>1, <4>1
    <3>3. from[pos[k + 1]] = SubSeq(str, k + 1, n)
      BY <1>11, <3>1, <3>2
    <3>4. SubSeq(str, k, n) = <<str[k]>> \o SubSeq(str, k + 1, n)
      BY <1>2, <1>3, <3>1, SubSeqRecursiveFirst
    <3>5. PICK s, t, b : s = u[k - 1] /\ t = QuoteByte(str[k]) /\ b = str[k]
      OBVIOUS
    <3>6. /\ s \in Seq(Nat) /\ t \in Seq(Nat) /\ b \in Nat /\ u[k] = s \o t
      BY <1>3, <1>4, <3>1, <3>5, QuoteByteType DEF Bytes
    <3>7. /\ Len(s) \in Nat /\ Len(t) \in Nat /\ Len(u[k]) = Len(s) + Len(t)
          /\ \A i \in 1 .. Len(t) : u[k][Len(s) + i] = t[i]
      BY <3>6, CatLemma
    <3>8. Len(u[k]) <= Len(text) /\ \A i \in 1 .. Len(u[k]) : text[i] = u[k][i]
      BY <1>5, <1>6, <3>1
    <3>9. Len(text) \in Nat
      BY <1>6
    <3>10. pos[k] = Len(s) + 1 /\ pos[k + 1] = Len(s) + Len(t) + 1
      BY <1>10, <3>1, <3>5, <3>7
    <3>11. CASE t = <<b>> /\ b # Backslash
      <4>1. Len(t) = 1 /\ t[1] = b
        BY <3>11
      <4>2. text[Len(s) + 1] = b /\ Len(s) + 1 <= Len(text)
        BY <3>7, <3>8, <3>9, <4>1
      <4>3. from[Len(s) + 1] = <<b>> \o from[Len(s) + 2]
        <5>1. Len(s) + 1 \in 1 .. Len(text) + 2 /\ ~ (Len(s) + 1 > Len(text))
              /\ (Len(s) + 1) + 1 = Len(s) + 2
          BY <3>7, <3>9, <4>2
        <5> QED BY <1>8, <3>11, <4>2, <5>1
      <4>4. pos[k + 1] = Len(s) + 2
        BY <3>7, <3>10, <4>1
      <4> QED BY <3>3, <3>4, <3>5, <3>10, <4>3, <4>4
    <3>12. CASE \E e \in Nat : t = <<Backslash, e>> /\ Unescaped(e) = b
      <4>1. PICK e \in Nat : t = <<Backslash, e>> /\ Unescaped(e) = b
        BY <3>12
      <4>2. Len(t) = 2 /\ t[1] = Backslash /\ t[2] = e
        BY <4>1
      <4>3. /\ text[Len(s) + 1] = Backslash /\ text[Len(s) + 2] = e
            /\ Len(s) + 2 <= Len(text)
        BY <3>7, <3>8, <3>9, <4>2
      <4>4. from[Len(s) + 1] = <<b>> \o from[Len(s) + 3]
        <5>1. Len(s) + 1 \in 1 .. Len(text) + 2 /\ ~ (Len(s) + 1 > Len(text))
              /\ (Len(s) + 1) + 1 = Len(s) + 2 /\ (Len(s) + 1) + 2 = Len(s) + 3
              /\ Len(s) + 1 < Len(text)
          BY <3>7, <3>9, <4>3
        <5> QED BY <1>8, <4>1, <4>3, <5>1
      <4>5. pos[k + 1] = Len(s) + 3
        BY <3>7, <3>10, <4>2
      <4> QED BY <3>3, <3>4, <3>5, <3>10, <4>4, <4>5
    <3> QED BY <3>5, <3>6, <3>11, <3>12, QuoteByteLemma
  <2> QED BY <2>1, <2>2
<1>12. m \in [D -> Nat]
  BY <1>3, <1>9
<1>13. D \subseteq Good
  <2> HIDE DEF Good
  <2> QED BY <1>11, <1>12, MeasureLemma
<1>14. 1 \in D /\ pos[1] = 1
  BY <1>3, <1>4, <1>9, <1>10
<1>15. SubSeq(str, 1, n) = str
  BY <1>2, <1>3, SubSeqFull
<1> QED BY <1>7, <1>13, <1>14, <1>15

\* A text ends in an even number of backslashes.
EvenEnd(s) ==
  \A j \in 1 .. Len(s) :
    (\A i \in j .. Len(s) : s[i] = Backslash) /\ (j = 1 \/ s[j - 1] # Backslash)
      => (Len(s) - j) % 2 = 1

LEMMA EvenEndLemma ==
  ASSUME NEW s \in Seq(Nat), EvenEnd(s), NEW b \in Nat
  PROVE  EvenEnd(s \o QuoteByte(b))
<1>1. PICK t, r : t = QuoteByte(b) /\ r = s \o t
  OBVIOUS
<1>2. t \in Seq(Nat) /\ Len(t) \in {1, 2}
  BY <1>1, QuoteByteType DEF Bytes
<1>3. /\ Len(s) \in Nat /\ Len(r) = Len(s) + Len(t)
      /\ \A i \in 1 .. Len(s) : r[i] = s[i]
      /\ \A i \in 1 .. Len(t) : r[Len(s) + i] = t[i]
  BY <1>1, <1>2, CatLemma
<1> SUFFICES ASSUME NEW j \in 1 .. Len(r), \A i \in j .. Len(r) : r[i] = Backslash,
                    j = 1 \/ r[j - 1] # Backslash
             PROVE  (Len(r) - j) % 2 = 1
  BY <1>1 DEF EvenEnd
<1>4. r[Len(r)] = Backslash
  BY <1>2, <1>3
<1>5. t[Len(t)] = Backslash
  <2>1. Len(t) \in 1 .. Len(t) /\ Len(r) = Len(s) + Len(t)
    <3>1. PICK m : m = Len(t)
      OBVIOUS
    <3>2. m \in 1 .. m
      BY <1>2, <3>1
    <3> QED BY <1>3, <3>1, <3>2
  <2>2. r[Len(s) + Len(t)] = t[Len(t)]
    BY <1>3, <2>1
  <2> QED BY <1>4, <2>1, <2>2
<1>6. Len(t) = 2 /\ t[1] = Backslash
  <2>1. CASE t = <<b>> /\ b # Backslash
    BY <1>5, <2>1
  <2>2. CASE \E e \in Nat : t = <<Backslash, e>>
    BY <2>2
  <2> QED BY <1>1, <2>1, <2>2, QuoteByteLemma
<1>7. CASE j <= Len(s)
  <2>1. j \in 1 .. Len(s)
    BY <1>3, <1>7
  <2>2. \A i \in j .. Len(s) : s[i] = Backslash
    BY <1>2, <1>3, <2>1
  <2>3. j = 1 \/ s[j - 1] # Backslash
    <3>1. j # 1 => j - 1 \in 1 .. Len(s)
      BY <1>3, <2>1
    <3> QED BY <1>3, <3>1
  <2>4. (Len(s) - j) % 2 = 1
    BY <2>1, <2>2, <2>3 DEF EvenEnd
  <2>5. Len(r) - j = (Len(s) - j) + 2 /\ Len(s) - j \in Nat
    BY <1>3, <1>6, <2>1
  <2> QED BY <2>4, <2>5
<1>8. CASE j = Len(s) + 1
  BY <1>3, <1>6, <1>8
<1>9. CASE j = Len(s) + 2
  <2>1. r[j - 1] = t[1] /\ j # 1
    <3>1. j - 1 = Len(s) + 1 /\ j # 1
      BY <1>3, <1>9
    <3> QED BY <1>3, <1>6, <3>1
  <2> QED BY <1>6, <2>1
<1> QED BY <1>3, <1>6, <1>7, <1>8, <1>9

\* A quoted string is never taken for one that goes on.
LEMMA NotDanglingLemma == ASSUME NEW str \in Bytes PROVE ~ Dangling(Quote(str))
<1>1. PICK u : Escapes(str, u)
  BY EscapedLemma
<1>2. PICK n, D, m : n = Len(str) /\ D = 0 .. n /\ m = [k \in D |-> k]
  OBVIOUS
<1>3. n \in Nat /\ \A k \in 1 .. n : str[k] \in Nat
  BY <1>2 DEF Bytes
<1>4. /\ u[0] = <<>> /\ \A k \in 1 .. n : u[k] = u[k - 1] \o QuoteByte(str[k])
      /\ \A k \in 0 .. n : u[k] \in Seq(Nat)
  BY <1>1, <1>2 DEF Escapes
<1> DEFINE Good == {k \in D : EvenEnd(u[k])}
<1>5. ASSUME NEW k \in D, \A j \in D : m[j] < m[k] => j \in Good PROVE k \in Good
  <2>1. CASE k = 0
    <3>1. PICK z : z = u[0]
      OBVIOUS
    <3>2. z = <<>> /\ 1 .. Len(z) = {}
      BY <1>4, <3>1
    <3>3. EvenEnd(z)
      BY <3>2 DEF EvenEnd
    <3> QED BY <2>1, <3>1, <3>3
  <2>2. CASE k # 0
    <3>1. k \in 1 .. n /\ k - 1 \in D
      BY <1>2, <1>3, <2>2
    <3>2. m[k - 1] < m[k]
      <4>1. m[k - 1] = k - 1 /\ m[k] = k
        BY <1>2, <3>1
      <4> QED BY <3>1, <4>1
    <3>3. EvenEnd(u[k - 1]) /\ u[k - 1] \in Seq(Nat) /\ str[k] \in Nat
      BY <1>2, <1>3, <1>4, <1>5, <3>1, <3>2
    <3>4. EvenEnd(u[k - 1] \o QuoteByte(str[k]))
      BY <3>3, EvenEndLemma
    <3> QED BY <1>4, <3>1, <3>4
  <2> QED BY <2>1, <2>2
<1>6. m \in [D -> Nat]
  BY <1>2
<1>7. D \subseteq Good
  <2> HIDE DEF Good
  <2> QED BY <1>5, <1>6, MeasureLemma
<1>8. PICK text : text = Inner(Quote(str))
  OBVIOUS
<1>9. EvenEnd(text) /\ text \in Seq(Nat)
  <2>1. n \in D
    BY <1>2, <1>3
  <2>2. text = u[n]
    BY <1>1, <1>2, <1>8, InnerLemma DEF Escapes
  <2> QED BY <1>2, <1>4, <1>7, <2>1, <2>2
<1>10. ASSUME NEW k \in DOMAIN text, \A j \in k .. Len(text) : text[j] = Backslash,
              k = 1 \/ text[k - 1] # Backslash, (Len(text) - k) % 2 = 0
       PROVE  FALSE
  <2>1. k \in 1 .. Len(text)
    BY <1>9
  <2>2. (Len(text) - k) % 2 = 1
    BY <1>9, <1>10, <2>1 DEF EvenEnd
  <2> QED BY <1>10, <2>2
<1> QED BY <1>8, <1>10 DEF Dangling

----------------------------------------------------------------------------
(* Instructions.                                                           *)

PlainOps == OpNames \ (NumberOps \cup {"PushBool", "Call", "CallBuiltin"})
\* The values of the instruction type of Rust: every constructor with its operands,
\* and nothing else.
IsInstruction(o) ==
  \/ \E w \in PlainOps : o = Plain(w)
  \/ \E w \in NumberOps, n \in Int : o = WithN(w, n)
  \/ \E n \in {0, 1} : o = WithN("PushBool", n)
  \/ \E f \in Nat, argc \in 0 .. MaxArgc : o = Call(f, argc)
  \/ \E b \in BuiltinNames, argc \in 0 .. MaxArgc : o = CallBuiltin(b, argc)

\* The lines of a file, and those that could be a header only if its counts can be read.
Words == OpNames \cup {"lumen-obj", "fn", "const"}
Names == BuiltinNames \cup {"", "true", "false"}
AnyLines == [word : Words, name : Names, nums : Seq(Int), str : Seq(Nat)]
ObjectLines == {l \in AnyLines : l.word = "fn" => l.nums[3] \in Nat /\ l.nums[4] \in Nat}

IsLine(l, w, name, nums, str) ==
  l \in AnyLines /\ l.word = w /\ l.name = name /\ l.nums = nums /\ l.str = str

LEMMA LineLemma ==
  ASSUME NEW w \in Words, NEW name \in Names, NEW nums \in Seq(Int), NEW str \in Seq(Nat)
  PROVE  IsLine(Line(w, name, nums, str), w, name, nums, str)
BY DEF Line, AnyLines, IsLine

LEMMA OpNamesLemma ==
  /\ \A w \in NumberOps : w \in OpNames /\ w # "PushBool" /\ w # "Call" /\ w # "CallBuiltin"
  /\ "PushBool" \in OpNames /\ "Call" \in OpNames /\ "CallBuiltin" \in OpNames
  /\ "PushBool" \notin NumberOps /\ "Call" \notin NumberOps /\ "CallBuiltin" \notin NumberOps
  /\ \A w \in OpNames : w # "fn" /\ w # "const" /\ w # "lumen-obj"
<1> USE DEF PushOps, SinkOps, UnaryOps, BinaryOps, CallOps, IntArith, FltArith, IntOrder, FltOrder,
        EqOps, JumpOps
<1>2. \A w \in NumberOps : w \in OpNames /\ w # "PushBool" /\ w # "Call" /\ w # "CallBuiltin"
  BY DEF OpNames, NumberOps
<1>3. "PushBool" \in OpNames /\ "Call" \in OpNames /\ "CallBuiltin" \in OpNames
  BY DEF OpNames
<1>4. "PushBool" \notin NumberOps /\ "Call" \notin NumberOps /\ "CallBuiltin" \notin NumberOps
  BY DEF NumberOps
<1>5. \A w \in OpNames : w # "fn" /\ w # "const" /\ w # "lumen-obj"
  BY DEF OpNames
<1> QED BY <1>2, <1>3, <1>4, <1>5

\* An instruction is read back as it was.
LEMMA OpLineLemma ==
  ASSUME NEW o, IsInstruction(o)
  PROVE  /\ OpLine(o) \in AnyLines /\ OpLine(o).word \in OpNames /\ ParseOp(OpLine(o)) = o
<1>01. \A w \in OpNames : w \in Words
  BY DEF Words
<1>02. "" \in Names /\ "true" \in Names /\ "false" \in Names /\ \A b \in BuiltinNames : b \in Names
  BY DEF Names
<1>00. <<>> \in Seq(Int) /\ <<>> \in Seq(Nat)
  OBVIOUS
<1>0. PICK nil : nil = <<>> /\ nil \in Seq(Int) /\ nil \in Seq(Nat)
  BY <1>00
<1>1. CASE \E w \in PlainOps : o = Plain(w)
  <2>1. PICK w \in PlainOps : o = Plain(w)
    BY <1>1
  <2>2. o.op = w
    BY <2>1 DEF Plain, Op
  <2>3. w \in OpNames /\ w \notin NumberOps /\ w # "PushBool" /\ w # "Call" /\ w # "CallBuiltin"
    BY DEF PlainOps
  <2>5. OpLine(o) = Line(w, "", nil, nil)
    BY <1>0, <2>2, <2>3 DEF OpLine
  <2>6. OpLine(o).word = w /\ OpLine(o) \in AnyLines
    <3>1. IsLine(OpLine(o), w, "", nil, nil)
      BY <1>0, <1>01, <1>02, <2>3, <2>5, LineLemma
    <3> QED BY <3>1 DEF IsLine
  <2>7. ParseOp(OpLine(o)) = Plain(w)
    BY <2>3, <2>6 DEF ParseOp
  <2> QED BY <2>1, <2>3, <2>6, <2>7
<1>2. CASE \E w \in NumberOps, n \in Int : o = WithN(w, n)
  <2>1. PICK w \in NumberOps, n \in Int : o = WithN(w, n)
    BY <1>2
  <2>2. o.op = w /\ o.n = n
    BY <2>1 DEF WithN, Op
  <2>3. w \in OpNames /\ w # "PushBool" /\ w # "Call" /\ w # "CallBuiltin"
    BY OpNamesLemma
  <2>4. <<n>> \in Seq(Int) /\ <<n>>[1] = n
    OBVIOUS
  <2>5. PICK nums : nums = <<n>> /\ nums \in Seq(Int) /\ nums[1] = n
    BY <2>4
  <2>6. OpLine(o) = Line(w, "", nums, nil)
    BY <1>0, <2>2, <2>3, <2>5 DEF OpLine
  <2>7. OpLine(o).word = w /\ OpLine(o).nums = nums /\ OpLine(o) \in AnyLines
    <3>1. IsLine(OpLine(o), w, "", nums, nil)
      BY <1>0, <1>01, <1>02, <2>3, <2>5, <2>6, LineLemma
    <3> QED BY <3>1 DEF IsLine
  <2>8. ParseOp(OpLine(o)) = WithN(w, n)
    BY <2>3, <2>5, <2>7 DEF ParseOp
  <2> QED BY <2>1, <2>3, <2>7, <2>8
<1>3. CASE \E n \in {0, 1} : o = WithN("PushBool", n)
  <2>1. PICK n \in {0, 1} : o = WithN("PushBool", n)
    BY <1>3
  <2>2. o.op = "PushBool" /\ o.n = n
    BY <2>1 DEF WithN, Op
  <2>3. PICK name \in {"true", "false"} : name = IF n = 1 THEN "true" ELSE "false"
    <3>1. CASE n = 1
      BY <3>1
    <3>2. CASE n # 1
      BY <3>2
    <3> QED BY <3>1, <3>2
  <2>4. OpLine(o) = Line("PushBool", name, nil, nil)
    BY <1>0, <2>2, <2>3, OpNamesLemma DEF OpLine
  <2>5. OpLine(o).word = "PushBool" /\ OpLine(o).name = name /\ OpLine(o) \in AnyLines
    <3>1. IsLine(OpLine(o), "PushBool", name, nil, nil)
      BY <1>0, <1>01, <1>02, <2>3, <2>4, OpNamesLemma, LineLemma
    <3> QED BY <3>1 DEF IsLine
  <2>6. n = IF name = "true" THEN 1 ELSE 0
    BY <2>1, <2>3
  <2>7. ParseOp(OpLine(o)) = WithN("PushBool", n)
    BY <2>5, <2>6, OpNamesLemma DEF ParseOp
  <2> QED BY <2>1, <2>5, <2>7, OpNamesLemma
<1>4. CASE \E f \in Nat, argc \in 0 .. MaxArgc : o = Call(f, argc)
  <2>1. PICK f \in Nat, argc \in 0 .. MaxArgc : o = Call(f, argc)
    BY <1>4
  <2>2. o.op = "Call" /\ o.n = f /\ o.argc = argc
    BY <2>1 DEF Call, Op
  <2>3. f \in Int /\ argc \in Int /\ argc % (MaxArgc + 1) = argc
    BY MaxArgcAssumption
  <2>8. <<f, argc>> \in Seq(Int) /\ <<f, argc>>[1] = f /\ <<f, argc>>[2] = argc
    BY <2>3
  <2>4. PICK nums : nums = <<f, argc>> /\ nums \in Seq(Int) /\ nums[1] = f /\ nums[2] = argc
    BY <2>8
  <2>5. OpLine(o) = Line("Call", "", nums, nil)
    BY <1>0, <2>2, <2>4, OpNamesLemma DEF OpLine
  <2>6. OpLine(o).word = "Call" /\ OpLine(o).nums = nums /\ OpLine(o) \in AnyLines
    <3>1. IsLine(OpLine(o), "Call", "", nums, nil)
      BY <1>0, <1>01, <1>02, <2>4, <2>5, OpNamesLemma, LineLemma
    <3> QED BY <3>1 DEF IsLine
  <2>7. ParseOp(OpLine(o)) = Call(f, argc)
    BY <2>3, <2>4, <2>6, OpNamesLemma DEF ParseOp
  <2> QED BY <2>1, <2>6, <2>7, OpNamesLemma
<1>5. CASE \E b \in BuiltinNames, argc \in 0 .. MaxArgc : o = CallBuiltin(b, argc)
  <2>1. PICK b \in BuiltinNames, argc \in 0 .. MaxArgc : o = CallBuiltin(b, argc)
    BY <1>5
  <2>2. o.op = "CallBuiltin" /\ o.x = b /\ o.argc = argc
    BY <2>1 DEF CallBuiltin, Op
  <2>3. argc \in Int /\ argc % (MaxArgc + 1) = argc
    BY MaxArgcAssumption
  <2>4. b \in Names
    BY <1>02
  <2>9. <<argc>> \in Seq(Int) /\ <<argc>>[1] = argc
    BY <2>3
  <2>5. PICK nums : nums = <<argc>> /\ nums \in Seq(Int) /\ nums[1] = argc
    BY <2>9
  <2>6. OpLine(o) = Line("CallBuiltin", b, nums, nil)
    BY <1>0, <2>2, <2>5, OpNamesLemma DEF OpLine
  <2>7. /\ OpLine(o).word = "CallBuiltin" /\ OpLine(o).nums = nums /\ OpLine(o).name = b
        /\ OpLine(o) \in AnyLines
    <3>1. IsLine(OpLine(o), "CallBuiltin", b, nums, nil)
      BY <1>0, <1>01, <1>02, <2>4, <2>5, <2>6, OpNamesLemma, LineLemma
    <3> QED BY <3>1 DEF IsLine
  <2>8. ParseOp(OpLine(o)) = CallBuiltin(b, argc)
    BY <2>3, <2>5, <2>7, OpNamesLemma DEF ParseOp
  <2> QED BY <2>1, <2>7, <2>8, OpNamesLemma
<1> QED BY <1>1, <1>2, <1>3, <1>4, <1>5 DEF IsInstruction

LEMMA OpLineType == \A o : IsInstruction(o) => OpLine(o) \in ObjectLines
<1> SUFFICES ASSUME NEW o, IsInstruction(o) PROVE OpLine(o) \in ObjectLines
  OBVIOUS
<1>1. OpLine(o) \in AnyLines /\ OpLine(o).word # "fn"
  BY OpLineLemma, OpNamesLemma
<1> QED BY <1>1 DEF ObjectLines

----------------------------------------------------------------------------
(* Functions.                                                              *)

IsFunction(c) == c \in Chunks /\ \A k \in DOMAIN c.code : IsInstruction(c.code[k])

\* The function c stands in the lines, its header at `at'.
Holds(lines, at, c) ==
  /\ at + Len(c.consts) + Len(c.code) <= Len(lines)
  /\ lines[at].word = "fn"
  /\ lines[at].nums = <<c.n_params, c.n_locals, Len(c.consts), Len(c.code)>>
  /\ \A k \in 1 .. Len(c.consts) :
       lines[at + k].word = "const" /\ lines[at + k].str = Quote(c.consts[k])
  /\ \A k \in 1 .. Len(c.code) : lines[at + Len(c.consts) + k] = OpLine(c.code[k])

LEMMA FunctionLemma ==
  ASSUME NEW c, IsFunction(c)
  PROVE  /\ c.n_params \in Nat /\ c.n_locals \in Nat
         /\ c.consts \in Seq(Seq(Nat)) /\ Len(c.consts) \in Nat
         /\ \A k \in 1 .. Len(c.consts) : c.consts[k] \in Seq(Nat)
         /\ c.code \in Seq(Ops) /\ Len(c.code) \in Nat
         /\ \A k \in 1 .. Len(c.code) : IsInstruction(c.code[k])
<1>1. /\ c.n_params \in Nat /\ c.n_locals \in Nat
      /\ c.consts \in Seq(Seq(Nat)) /\ c.code \in Seq(Ops)
  BY DEF IsFunction, Chunks
<1>2. Len(c.consts) \in Nat /\ \A k \in 1 .. Len(c.consts) : c.consts[k] \in Seq(Nat)
  BY <1>1
<1>3. Len(c.code) \in Nat /\ DOMAIN c.code = 1 .. Len(c.code)
  BY <1>1
<1> QED BY <1>1, <1>2, <1>3 DEF IsFunction

IsHeader(h, a, b, nc, n) ==
  h \in ObjectLines /\ h.word = "fn" /\ h.nums = <<a, b, nc, n>>

LEMMA HeaderLemma ==
  ASSUME NEW a \in Nat, NEW b \in Nat, NEW nc \in Nat, NEW n \in Nat
  PROVE  IsHeader(Line("fn", "", <<a, b, nc, n>>, <<>>), a, b, nc, n)
<1>1. /\ <<a, b, nc, n>> \in Seq(Int) /\ <<a, b, nc, n>>[3] = nc /\ <<a, b, nc, n>>[4] = n
  <2>1. a \in Int /\ b \in Int /\ nc \in Int /\ n \in Int
    OBVIOUS
  <2> QED BY <2>1
<1>2. PICK nums : nums = <<a, b, nc, n>> /\ nums \in Seq(Int) /\ nums[3] = nc /\ nums[4] = n
  BY <1>1
<1>3. PICK nil : nil = <<>> /\ nil \in Seq(Nat)
  BY EmptySeq
<1>4. "fn" \in Words /\ "" \in Names
  BY DEF Words, Names
<1>5. PICK h : h = Line("fn", "", <<a, b, nc, n>>, <<>>)
  OBVIOUS
<1>6. IsLine(h, "fn", "", nums, nil)
  BY <1>2, <1>3, <1>4, <1>5, LineLemma
<1> QED BY <1>2, <1>5, <1>6 DEF IsLine, ObjectLines, IsHeader

LEMMA QuoteType == ASSUME NEW str \in Seq(Nat) PROVE Quote(str) \in Seq(Nat)
<1>1. Escaped(str) \in Seq(Nat)
  BY InnerLemma DEF Bytes
<1>2. PICK e : e = Escaped(str)
  OBVIOUS
<1>3. PICK n \in Nat : n = Quotation
  BY DEF Quotation
<1>4. e \in Seq(Nat)
  BY <1>1, <1>2
<1>5. <<n>> \in Seq(Nat)
  OBVIOUS
<1>6. <<n>> \o e \in Seq(Nat)
  BY <1>4, <1>5, ConcatProperties
<1>7. (<<n>> \o e) \o <<n>> \in Seq(Nat)
  BY <1>5, <1>6, ConcatProperties
<1> QED BY <1>2, <1>3, <1>7 DEF Quote

LEMMA ConstLineLemma ==
  ASSUME NEW str \in Seq(Nat), NEW l, l = Line("const", "", <<>>, Quote(str))
  PROVE  l \in ObjectLines /\ l.word = "const" /\ l.str = Quote(str)
<1>1. PICK q : q = Quote(str)
  OBVIOUS
<1>2. q \in Seq(Nat)
  BY <1>1, QuoteType
<1>3. PICK nil : nil = <<>> /\ nil \in Seq(Int)
  BY EmptySeq
<1>4. "const" \in Words /\ "" \in Names
  BY DEF Words, Names
<1>5. IsLine(l, "const", "", nil, q)
  BY <1>1, <1>2, <1>3, <1>4, LineLemma
<1> QED BY <1>1, <1>5 DEF IsLine, ObjectLines

LEMMA WriteChunkLemma ==
  ASSUME NEW c, IsFunction(c)
  PROVE  /\ WriteChunk(c) \in Seq(ObjectLines)
         /\ Len(WriteChunk(c)) = 1 + Len(c.consts) + Len(c.code)
         /\ Holds(WriteChunk(c), 1, c)
<1>1. PICK nc, n : nc = Len(c.consts) /\ n = Len(c.code)
  OBVIOUS
<1>2. /\ nc \in Nat /\ n \in Nat /\ DOMAIN c.consts = 1 .. nc /\ DOMAIN c.code = 1 .. n
      /\ \A k \in 1 .. nc : c.consts[k] \in Seq(Nat)
      /\ \A k \in 1 .. n : IsInstruction(c.code[k])
  BY <1>1, FunctionLemma
<1>3. PICK h : h = Line("fn", "", <<c.n_params, c.n_locals, Len(c.consts), Len(c.code)>>, <<>>)
  OBVIOUS
<1>4. /\ h \in ObjectLines /\ h.word = "fn"
      /\ h.nums = <<c.n_params, c.n_locals, Len(c.consts), Len(c.code)>>
  <2>1. IsHeader(h, c.n_params, c.n_locals, Len(c.consts), Len(c.code))
    BY <1>3, FunctionLemma, HeaderLemma
  <2> QED BY <2>1 DEF IsHeader
<1>5. PICK a, b, d : /\ a = <<h>>
                     /\ b = [k \in 1 .. nc |-> Line("const", "", <<>>, Quote(c.consts[k]))]
                     /\ d = [k \in 1 .. n |-> OpLine(c.code[k])]
  OBVIOUS
<1>6. WriteChunk(c) = (a \o b) \o d
  BY <1>2, <1>3, <1>5 DEF WriteChunk
<1>7. a \in Seq(ObjectLines) /\ Len(a) = 1 /\ a[1] = h
  <2>1. <<h>> \in Seq(ObjectLines) /\ Len(<<h>>) = 1 /\ <<h>>[1] = h
    BY <1>4
  <2> QED BY <1>5, <2>1
<1>8. /\ b \in Seq(ObjectLines) /\ Len(b) = nc
      /\ \A k \in 1 .. nc : b[k].word = "const" /\ b[k].str = Quote(c.consts[k])
  <2>1. ASSUME NEW k \in 1 .. nc
        PROVE  b[k] \in ObjectLines /\ b[k].word = "const" /\ b[k].str = Quote(c.consts[k])
    <3>1. b[k] = Line("const", "", <<>>, Quote(c.consts[k])) /\ c.consts[k] \in Seq(Nat)
      BY <1>2, <1>5
    <3> QED BY <3>1, ConstLineLemma
  <2>2. b \in [1 .. nc -> ObjectLines]
    BY <1>5, <2>1
  <2>3. b \in Seq(ObjectLines) /\ Len(b) = nc
    BY <1>2, <2>2
  <2> QED BY <2>1, <2>3
<1>9. d \in Seq(ObjectLines) /\ Len(d) = n /\ \A k \in 1 .. n : d[k] = OpLine(c.code[k])
  <2>1. d \in [1 .. n -> ObjectLines]
    BY <1>2, <1>5, OpLineType
  <2>2. d \in Seq(ObjectLines) /\ Len(d) = n
    BY <1>2, <2>1
  <2> QED BY <1>5, <2>2
<1>10. PICK ab, w : ab = a \o b /\ w = ab \o d
  OBVIOUS
<1>11. /\ ab \in Seq(ObjectLines) /\ Len(ab) = 1 + nc /\ ab[1] = h
       /\ \A k \in 1 .. nc : ab[1 + k] = b[k]
  <2>1. /\ a \o b \in Seq(ObjectLines) /\ Len(a \o b) = Len(a) + Len(b)
        /\ \A i \in 1 .. Len(a) : (a \o b)[i] = a[i]
        /\ \A j \in 1 .. Len(b) : (a \o b)[Len(a) + j] = b[j]
    BY <1>7, <1>8, CatLemma
  <2> QED BY <1>7, <1>8, <1>10, <2>1
<1>12. /\ w \in Seq(ObjectLines) /\ Len(w) = 1 + nc + n
       /\ \A i \in 1 .. 1 + nc : w[i] = ab[i]
       /\ \A k \in 1 .. n : w[1 + nc + k] = d[k]
  <2>1. /\ ab \o d \in Seq(ObjectLines) /\ Len(ab \o d) = Len(ab) + Len(d)
        /\ \A i \in 1 .. Len(ab) : (ab \o d)[i] = ab[i]
        /\ \A j \in 1 .. Len(d) : (ab \o d)[Len(ab) + j] = d[j]
    <3>1. ab \in Seq(ObjectLines) /\ d \in Seq(ObjectLines)
      BY <1>9, <1>11
    <3> QED BY <3>1, CatLemma
  <2> QED BY <1>9, <1>10, <1>11, <2>1
<1>13. w[1] = h
  BY <1>2, <1>11, <1>12
<1>14. \A k \in 1 .. nc : w[1 + k].word = "const" /\ w[1 + k].str = Quote(c.consts[k])
  <2>1. \A k \in 1 .. nc : 1 + k \in 1 .. 1 + nc
    BY <1>2
  <2> QED BY <1>8, <1>11, <1>12, <2>1
<1>15. Holds(w, 1, c)
  <2>1. 1 + Len(c.consts) + Len(c.code) <= Len(w)
    BY <1>1, <1>2, <1>12
  <2>2. /\ w[1].word = "fn"
        /\ w[1].nums = <<c.n_params, c.n_locals, Len(c.consts), Len(c.code)>>
    BY <1>4, <1>13
  <2>3. \A k \in 1 .. Len(c.code) : w[1 + Len(c.consts) + k] = OpLine(c.code[k])
    BY <1>1, <1>9, <1>12
  <2> QED BY <1>1, <1>14, <2>1, <2>2, <2>3 DEF Holds
<1> QED BY <1>1, <1>6, <1>10, <1>12, <1>15

LEMMA HoldsReads ==
  ASSUME NEW c, IsFunction(c), NEW lines \in Seq(ObjectLines), NEW at \in 1 .. Len(lines),
         Holds(lines, at, c)
  PROVE  /\ CodeEnd(lines, at) = at + Len(c.consts) + Len(c.code)
         /\ Readable(lines, at) /\ ReadFn(lines, at) = c
<1>1. PICK nc, n : nc = Len(c.consts) /\ n = Len(c.code)
  OBVIOUS
<1>2. /\ nc \in Nat /\ n \in Nat /\ DOMAIN c.consts = 1 .. nc /\ DOMAIN c.code = 1 .. n
      /\ \A k \in 1 .. nc : c.consts[k] \in Seq(Nat)
      /\ \A k \in 1 .. n : IsInstruction(c.code[k])
  BY <1>1, FunctionLemma
<1>3. PICK h : h = lines[at].nums
  OBVIOUS
<1>4. h[1] = c.n_params /\ h[2] = c.n_locals /\ h[3] = nc /\ h[4] = n
  <2>1. h = <<c.n_params, c.n_locals, nc, n>>
    BY <1>1, <1>3 DEF Holds
  <2> QED BY <2>1
<1>5. CodeEnd(lines, at) = at + nc + n
  BY <1>3, <1>4 DEF CodeEnd
<1>6. at + nc + n <= Len(lines) /\ Len(lines) \in Nat
  BY <1>1 DEF Holds
<1>7. \A k \in 1 .. nc : lines[at + k].word = "const" /\ lines[at + k].str = Quote(c.consts[k])
  BY <1>1 DEF Holds
<1>8. \A k \in 1 .. n : lines[at + nc + k] = OpLine(c.code[k])
  BY <1>1 DEF Holds
<1>9. Readable(lines, at)
  <2>1. ASSUME NEW k \in at + 1 .. at + nc + n
        PROVE  IF k <= at + nc THEN lines[k].word = "const" /\ ~ Dangling(lines[k].str)
               ELSE lines[k].word \in OpNames
    <3>1. CASE k <= at + nc
      <4>1. PICK j \in 1 .. nc : k = at + j
        <5>1. k - at \in 1 .. nc /\ k = at + (k - at)
          BY <1>2, <3>1
        <5> QED BY <5>1
      <4> QED BY <1>2, <1>7, <3>1, <4>1, NotDanglingLemma DEF Bytes
    <3>2. CASE ~ (k <= at + nc)
      <4>1. PICK j \in 1 .. n : k = at + nc + j
        <5>1. k - (at + nc) \in 1 .. n /\ k = at + nc + (k - (at + nc))
          BY <1>2, <3>2
        <5> QED BY <5>1
      <4>2. lines[k] = OpLine(c.code[j]) /\ IsInstruction(c.code[j])
        BY <1>2, <1>8, <4>1
      <4>3. lines[k].word \in OpNames
        BY <4>2, OpLineLemma
      <4> QED BY <3>2, <4>3
    <3> QED BY <3>1, <3>2
  <2>2. lines[at].word = "fn"
    BY DEF Holds
  <2> QED BY <1>3, <1>4, <1>5, <1>6, <2>1, <2>2 DEF Readable
<1>10. PICK cs, cd : cs = SubSeq(lines, at + 1, at + nc) /\ cd = SubSeq(lines, at + 1 + nc, at + nc + n)
  OBVIOUS
<1>11. Len(cs) = nc /\ cs \in Seq(ObjectLines) /\ \A k \in 1 .. nc : cs[k] = lines[at + k]
  <2>1. \A i \in at + 1 .. at + nc : lines[i] \in ObjectLines
    BY <1>2, <1>6
  <2>2. /\ cs \in Seq(ObjectLines)
        /\ Len(cs) = IF at + 1 <= at + nc THEN at + nc - (at + 1) + 1 ELSE 0
        /\ \A i \in 1 .. at + nc - (at + 1) + 1 : cs[i] = lines[at + 1 + i - 1]
    BY <1>2, <1>10, <2>1, SubSeqProperties
  <2>3. at + nc - (at + 1) + 1 = nc /\ \A i \in 1 .. nc : at + 1 + i - 1 = at + i
    BY <1>2
  <2> QED BY <1>2, <2>2, <2>3
<1>12. Len(cd) = n /\ cd \in Seq(ObjectLines) /\ \A k \in 1 .. n : cd[k] = lines[at + nc + k]
  <2>1. \A i \in at + 1 + nc .. at + nc + n : lines[i] \in ObjectLines
    BY <1>2, <1>6
  <2>2. /\ cd \in Seq(ObjectLines)
        /\ Len(cd) = IF at + 1 + nc <= at + nc + n THEN at + nc + n - (at + 1 + nc) + 1 ELSE 0
        /\ \A i \in 1 .. at + nc + n - (at + 1 + nc) + 1 : cd[i] = lines[at + 1 + nc + i - 1]
    BY <1>2, <1>10, <2>1, SubSeqProperties
  <2>3. at + nc + n - (at + 1 + nc) + 1 = n /\ \A i \in 1 .. n : at + 1 + nc + i - 1 = at + nc + i
    BY <1>2
  <2> QED BY <1>2, <2>2, <2>3
<1>13. [k \in DOMAIN cd |-> ParseOp(cd[k])] = c.code
  <2>1. DOMAIN cd = 1 .. n
    BY <1>2, <1>12
  <2>2. \A k \in 1 .. n : ParseOp(cd[k]) = c.code[k]
    BY <1>2, <1>8, <1>12, OpLineLemma
  <2>3. c.code = [k \in 1 .. n |-> c.code[k]]
    <3>1. c.code \in [1 .. n -> Ops]
      BY <1>1, FunctionLemma
    <3> QED BY <3>1
  <2> QED BY <2>1, <2>2, <2>3
<1>14. [k \in DOMAIN cs |-> Unquote(cs[k].str)] = c.consts
  <2>1. DOMAIN cs = 1 .. nc
    BY <1>2, <1>11
  <2>2. \A k \in 1 .. nc : Unquote(cs[k].str) = c.consts[k]
    BY <1>2, <1>7, <1>11, UnquoteQuoteLemma DEF Bytes
  <2>3. c.consts = [k \in 1 .. nc |-> c.consts[k]]
    <3>1. c.consts \in [1 .. nc -> Seq(Nat)]
      BY <1>1, FunctionLemma
    <3> QED BY <3>1
  <2> QED BY <2>1, <2>2, <2>3
<1>15. ReadFn(lines, at) = [n_params |-> c.n_params, n_locals |-> c.n_locals,
                            code |-> c.code, consts |-> c.consts]
  BY <1>3, <1>4, <1>5, <1>10, <1>13, <1>14 DEF ReadFn
<1>16. c = [n_params |-> c.n_params, n_locals |-> c.n_locals, code |-> c.code, consts |-> c.consts]
  BY DEF IsFunction, Chunks
<1> QED BY <1>1, <1>5, <1>9, <1>15, <1>16

\* Lines that say the same hold the same function.
Copied(lines, at, other, ot, m) == \A i \in 0 .. m : other[ot + i] = lines[at + i]

LEMMA HoldsMoved ==
  ASSUME NEW c, IsFunction(c), NEW lines, NEW at \in Nat, NEW other, NEW ot \in Nat,
         Holds(lines, at, c), ot + Len(c.consts) + Len(c.code) <= Len(other),
         Copied(lines, at, other, ot, Len(c.consts) + Len(c.code))
  PROVE  Holds(other, ot, c)
<1>1. Len(c.consts) \in Nat /\ Len(c.code) \in Nat
  BY FunctionLemma
<1>2. PICK nc \in Nat, n \in Nat : nc = Len(c.consts) /\ n = Len(c.code)
  BY <1>1
<1>6. \A i \in 0 .. nc + n : other[ot + i] = lines[at + i]
  BY <1>2 DEF Copied
<1>7. /\ 0 \in 0 .. nc + n /\ ot + 0 = ot /\ at + 0 = at
      /\ \A k \in 1 .. nc : k \in 0 .. nc + n
      /\ \A k \in 1 .. n : nc + k \in 0 .. nc + n /\ ot + nc + k = ot + (nc + k)
                             /\ at + nc + k = at + (nc + k)
  OBVIOUS
<1>3. other[ot] = lines[at]
  BY <1>6, <1>7
<1>4. \A k \in 1 .. nc : other[ot + k] = lines[at + k]
  BY <1>6, <1>7
<1>5. \A k \in 1 .. n : other[ot + nc + k] = lines[at + nc + k]
  BY <1>6, <1>7
<1> QED BY <1>2, <1>3, <1>4, <1>5 DEF Holds

----------------------------------------------------------------------------
(* Files.                                                                  *)

\* The functions follow each other: where each starts, and where the last ends.
Starts(fs, S) ==
  /\ S \in [1 .. Len(fs) + 1 -> {i \in Nat : i >= 2}] /\ S[1] = 2
  /\ \A k \in 1 .. Len(fs) : S[k + 1] = S[k] + 1 + Len(fs[k].consts) + Len(fs[k].code)

\* The first K of them stand in the lines.
Standing(lines, fs, S, K) == \A k \in 1 .. K : Holds(lines, S[k], fs[k])

IsText(lines, p, S) ==
  /\ lines \in Seq(ObjectLines) /\ Len(lines) = S[Len(p.functions) + 1] - 1
  /\ lines[1].word = "lumen-obj" /\ lines[1].nums[1] = p.main
  /\ Starts(p.functions, S) /\ Standing(lines, p.functions, S, Len(p.functions))

\* A program as the type of Rust has it.
IsObject(p) ==
  /\ p.main \in Nat /\ p.functions \in Seq(Chunks)
  /\ \A k \in 1 .. Len(p.functions) : IsFunction(p.functions[k])

LEMMA FirstLineLemma ==
  ASSUME NEW main \in Nat
  PROVE  LET l == Line("lumen-obj", "", <<main>>, <<>>)
         IN l \in ObjectLines /\ l.word = "lumen-obj" /\ l.nums[1] = main
<1>1. <<main>> \in Seq(Int) /\ <<main>>[1] = main
  <2>1. main \in Int
    OBVIOUS
  <2> QED BY <2>1
<1>2. PICK nums : nums = <<main>> /\ nums \in Seq(Int) /\ nums[1] = main
  BY <1>1
<1>3. PICK nil : nil = <<>> /\ nil \in Seq(Nat)
  BY EmptySeq
<1>4. "lumen-obj" \in Words /\ "" \in Names
  BY DEF Words, Names
<1>5. PICK l : l = Line("lumen-obj", "", <<main>>, <<>>)
  OBVIOUS
<1>6. IsLine(l, "lumen-obj", "", nums, nil)
  BY <1>2, <1>3, <1>4, <1>5, LineLemma
<1> QED BY <1>2, <1>5, <1>6 DEF IsLine, ObjectLines

LEMMA TextLemma == ASSUME NEW p, IsObject(p) PROVE \E S : IsText(ToText(p), p, S)
<1>1. PICK fs : fs = p.functions
  OBVIOUS
<1>2. PICK n \in Nat : n = Len(fs)
  BY <1>1 DEF IsObject
<1>3. \A k \in 1 .. n : IsFunction(fs[k])
  BY <1>1, <1>2 DEF IsObject
<1>4. PICK first : first = <<Line("lumen-obj", "", <<p.main>>, <<>>)>>
  OBVIOUS
<1>5. /\ first \in Seq(ObjectLines) /\ Len(first) = 1
      /\ first[1].word = "lumen-obj" /\ first[1].nums[1] = p.main
  <2>1. PICK l : l = Line("lumen-obj", "", <<p.main>>, <<>>)
    OBVIOUS
  <2>2. l \in ObjectLines /\ l.word = "lumen-obj" /\ l.nums[1] = p.main
    BY <2>1, FirstLineLemma DEF IsObject
  <2>3. <<l>> \in Seq(ObjectLines) /\ Len(<<l>>) = 1 /\ <<l>>[1] = l
    BY <2>2
  <2> QED BY <1>4, <2>1, <2>2, <2>3
<1>6. PICK pieces : pieces = [k \in 1 .. n |-> WriteChunk(fs[k])]
  OBVIOUS
<1>7. pieces \in [1 .. n -> Seq(ObjectLines)] /\ \A k \in 1 .. n : pieces[k] = WriteChunk(fs[k])
  <2>1. \A k \in 1 .. n : WriteChunk(fs[k]) \in Seq(ObjectLines)
    BY <1>3, WriteChunkLemma
  <2> QED BY <1>6, <2>1
<1>8. PICK f : Appended(n, first, pieces, f)
  BY <1>5, <1>7, AppendedExists
<1>9. ASSUME NEW u
      PROVE  Appended(n, first, pieces, u)
               <=> u = [k \in 0 .. n |-> IF k = 0 THEN first ELSE u[k - 1] \o WriteChunk(fs[k])]
  <2>1. [k \in 0 .. n |-> IF k = 0 THEN first ELSE u[k - 1] \o pieces[k]]
          = [k \in 0 .. n |-> IF k = 0 THEN first ELSE u[k - 1] \o WriteChunk(fs[k])]
    <3>1. \A k \in 0 .. n : k # 0 => pieces[k] = WriteChunk(fs[k])
      BY <1>7
    <3> QED BY <3>1
  <2> QED BY <2>1 DEF Appended
<1>10. PICK u :
         /\ u = [k \in 0 .. n |-> IF k = 0 THEN first ELSE u[k - 1] \o WriteChunk(fs[k])]
         /\ ToText(p) = u[n]
  <2>1. f = [k \in 0 .. Len(p.functions) |->
               IF k = 0 THEN <<Line("lumen-obj", "", <<p.main>>, <<>>)>>
               ELSE f[k - 1] \o WriteChunk(p.functions[k])]
    <3>1. f = [k \in 0 .. n |-> IF k = 0 THEN first ELSE f[k - 1] \o WriteChunk(fs[k])]
      BY <1>8, <1>9
    <3> QED BY <1>1, <1>2, <1>4, <3>1
  <2>2. PICK u : /\ u = [k \in 0 .. Len(p.functions) |->
                           IF k = 0 THEN <<Line("lumen-obj", "", <<p.main>>, <<>>)>>
                           ELSE u[k - 1] \o WriteChunk(p.functions[k])]
                 /\ TextUpTo(p) = u
    BY <2>1 DEF TextUpTo
  <2>3. u = [k \in 0 .. n |-> IF k = 0 THEN first ELSE u[k - 1] \o WriteChunk(fs[k])]
    BY <1>1, <1>2, <1>4, <2>2
  <2> QED BY <1>1, <1>2, <2>2, <2>3 DEF ToText
<1>11. Grows(ObjectLines, n, first, pieces, u)
  <2>1. Appended(n, first, pieces, u)
    BY <1>9, <1>10
  <2> QED BY <1>5, <1>7, <2>1, AppendedLemma
<1>12. /\ u[0] = first /\ \A k \in 0 .. n : u[k] \in Seq(ObjectLines) /\ Len(u[k]) \in Nat
       /\ \A k \in 1 .. n : u[k] = u[k - 1] \o WriteChunk(fs[k])
  <2>1. /\ u[0] = first /\ \A k \in 0 .. n : u[k] \in Seq(ObjectLines)
        /\ \A k \in 1 .. n : u[k] = u[k - 1] \o pieces[k]
    BY <1>11 DEF Grows
  <2>2. \A k \in 0 .. n : Len(u[k]) \in Nat
    BY <2>1, LenProperties
  <2>3. \A k \in 1 .. n : u[k] = u[k - 1] \o WriteChunk(fs[k])
    BY <1>7, <2>1
  <2> QED BY <2>1, <2>2, <2>3
<1>13. \A k \in 0 .. n : Len(u[k]) <= Len(u[n]) /\ \A i \in 1 .. Len(u[k]) : u[n][i] = u[k][i]
  <2>1. \A k \in 0 .. n : n \in k .. n
    OBVIOUS
  <2> QED BY <1>11, <2>1 DEF Grows
<1>14. PICK S : S = [k \in 1 .. n + 1 |-> Len(u[k - 1]) + 1]
  OBVIOUS
<1>15. \A k \in 1 .. n + 1 : k - 1 \in 0 .. n /\ S[k] = Len(u[k - 1]) + 1
  BY <1>14
<1>16. S[1] = 2
  <2>1. 1 \in 1 .. n + 1 /\ 1 - 1 = 0
    OBVIOUS
  <2>2. S[1] = Len(u[0]) + 1
    BY <1>15, <2>1
  <2> QED BY <1>5, <1>12, <2>2
<1>17. ASSUME NEW k \in 1 .. n
       PROVE  /\ S[k + 1] = S[k] + 1 + Len(fs[k].consts) + Len(fs[k].code)
              /\ Holds(u[n], S[k], fs[k])
  <2>1. PICK s, w, c : s = u[k - 1] /\ w = WriteChunk(fs[k]) /\ c = fs[k]
    OBVIOUS
  <2>2. k - 1 \in 0 .. n /\ k \in 0 .. n /\ k \in 1 .. n + 1 /\ k + 1 \in 1 .. n + 1
        /\ (k + 1) - 1 = k
    OBVIOUS
  <2>3. /\ s \in Seq(ObjectLines) /\ w \in Seq(ObjectLines) /\ u[k] = s \o w
        /\ IsFunction(c) /\ Len(w) = 1 + Len(c.consts) + Len(c.code) /\ Holds(w, 1, c)
    BY <1>3, <1>12, <2>1, <2>2, WriteChunkLemma
  <2>4. PICK nc \in Nat, m \in Nat : nc = Len(c.consts) /\ m = Len(c.code)
    BY <2>3, FunctionLemma
  <2>5. /\ Len(s) \in Nat /\ Len(s \o w) = Len(s) + Len(w)
        /\ \A i \in 1 .. Len(w) : (s \o w)[Len(s) + i] = w[i]
    <3>1. s \in Seq(ObjectLines) /\ w \in Seq(ObjectLines)
      BY <2>3
    <3> QED BY <3>1, CatLemma
  <2>6. /\ S[k] = Len(s) + 1 /\ S[k + 1] = Len(s) + 1 + nc + m + 1
        /\ Len(u[k]) = Len(s) + 1 + nc + m /\ Len(w) = 1 + nc + m
    <3>1. Len(w) = 1 + nc + m
      BY <2>3, <2>4
    <3>2. Len(u[k]) = Len(s) + 1 + nc + m
      <4>1. Len(u[k]) = Len(s) + Len(w) /\ Len(s) \in Nat
        BY <2>3, <2>5
      <4> QED BY <3>1, <4>1
    <3>3. S[k] = Len(s) + 1 /\ S[k + 1] = Len(u[k]) + 1
      BY <1>15, <2>1, <2>2
    <3> QED BY <3>1, <3>2, <3>3
  <2>7. Len(u[k]) <= Len(u[n]) /\ \A i \in 1 .. Len(u[k]) : u[n][i] = u[k][i]
    BY <1>13, <2>2
  <2>8. \A i \in 0 .. nc + m : u[n][S[k] + i] = w[1 + i]
    <3>1. ASSUME NEW i \in 0 .. nc + m PROVE u[n][S[k] + i] = w[1 + i]
      <4>1. /\ S[k] + i = Len(s) + (1 + i) /\ 1 + i \in 1 .. Len(w)
            /\ Len(s) + (1 + i) \in 1 .. Len(u[k])
        <5>1. Len(s) \in Nat /\ nc \in Nat /\ m \in Nat /\ i \in 0 .. nc + m
          BY <2>5
        <5> QED BY <2>6, <5>1
      <4>2. u[k][Len(s) + (1 + i)] = w[1 + i]
        BY <2>3, <2>5, <4>1
      <4> QED BY <2>7, <4>1, <4>2
    <3> QED BY <3>1
  <2>9. S[k] \in Nat /\ S[k] + nc + m <= Len(u[n])
    BY <1>12, <2>2, <2>5, <2>6, <2>7
  <2>10. Holds(u[n], S[k], c)
    <3>1. Copied(w, 1, u[n], S[k], Len(c.consts) + Len(c.code))
      BY <2>4, <2>8 DEF Copied
    <3>2. S[k] \in Nat /\ S[k] + Len(c.consts) + Len(c.code) <= Len(u[n])
      BY <2>4, <2>9
    <3> QED BY <2>3, <3>1, <3>2, HoldsMoved
  <2>11. S[k + 1] = S[k] + 1 + nc + m
    <3>1. Len(s) \in Nat
      BY <2>5
    <3> QED BY <2>6, <3>1
  <2> QED BY <2>1, <2>4, <2>10, <2>11
<1>18. S \in [1 .. n + 1 -> {i \in Nat : i >= 2}]
  <2>1. ASSUME NEW k \in 1 .. n + 1 PROVE S[k] \in Nat /\ S[k] >= 2
    <3>1. PICK j \in 0 .. n : j = k - 1 /\ 0 \in 0 .. n /\ j \in 0 .. j /\ j \in 0 .. n
      OBVIOUS
    <3>2. Len(u[0]) <= Len(u[j])
      BY <1>11, <3>1 DEF Grows
    <3>3. Len(u[0]) = 1 /\ Len(u[j]) \in Nat /\ S[k] = Len(u[j]) + 1
      BY <1>5, <1>12, <1>15, <3>1
    <3> QED BY <3>2, <3>3
  <2> QED BY <1>14, <2>1
<1>19. Starts(fs, S) /\ Standing(u[n], fs, S, n)
  BY <1>2, <1>16, <1>17, <1>18 DEF Starts, Standing
<1>20. Len(u[n]) = S[n + 1] - 1
  <2>1. n + 1 \in 1 .. n + 1 /\ (n + 1) - 1 = n /\ n \in 0 .. n
    OBVIOUS
  <2> QED BY <1>12, <1>15, <2>1
<1>21. u[n] \in Seq(ObjectLines) /\ u[n][1] = first[1]
  <2>1. 0 \in 0 .. n /\ n \in 0 .. n /\ 1 \in 1 .. Len(u[0])
    BY <1>5, <1>12
  <2> QED BY <1>12, <1>13, <2>1
<1> QED BY <1>1, <1>2, <1>5, <1>10, <1>19, <1>20, <1>21 DEF IsText

\* What is read from each line on.
Reads(lines, from) ==
  from = [at \in 2 .. Len(lines) + 1 |->
            IF at > Len(lines) THEN [ok |-> TRUE, functions |-> <<>>]
            ELSE IF ~ Readable(lines, at) THEN [ok |-> FALSE, functions |-> <<>>]
            ELSE LET rest == from[CodeEnd(lines, at) + 1]
                 IN [rest EXCEPT !.functions = <<ReadFn(lines, at)>> \o @]]

LEMMA CodeEndLemma ==
  ASSUME NEW lines \in Seq(ObjectLines), NEW at \in 2 .. Len(lines), Readable(lines, at)
  PROVE  CodeEnd(lines, at) \in at .. Len(lines)
<1>1. PICK l : l = lines[at]
  OBVIOUS
<1>2. l \in ObjectLines /\ l.word = "fn"
  <2>1. at \in 1 .. Len(lines)
    OBVIOUS
  <2> QED BY <1>1, <2>1 DEF Readable
<1>3. l.nums[3] \in Nat /\ l.nums[4] \in Nat
  BY <1>2 DEF ObjectLines
<1>4. CodeEnd(lines, at) = at + l.nums[3] + l.nums[4] /\ CodeEnd(lines, at) <= Len(lines)
  BY <1>1 DEF CodeEnd, Readable
<1> QED BY <1>3, <1>4

LEMMA ReadsExists ==
  ASSUME NEW lines \in Seq(ObjectLines), lines # <<>>
  PROVE  \E from : Reads(lines, from)
<1>1. PICK n \in Nat : n = Len(lines)
  OBVIOUS
<1>2. PICK D : D = 2 .. n + 1
  OBVIOUS
<1>3. PICK Stop, F : /\ Stop = {k \in D : k > n \/ ~ Readable(lines, k)}
                     /\ F = {ReadFn(lines, k) : k \in D}
  OBVIOUS
<1>4. PICK T : T = [ok : BOOLEAN, functions : Seq(F)]
  OBVIOUS
<1>5. PICK m, out, step, comb :
        /\ m    = [k \in D |-> n + 1 - k]
        /\ out  = [k \in D |-> IF k > n THEN [ok |-> TRUE, functions |-> <<>>]
                               ELSE [ok |-> FALSE, functions |-> <<>>]]
        /\ step = [k \in D |-> IF k \in Stop THEN k ELSE CodeEnd(lines, k) + 1]
        /\ comb = [q \in D \X T |-> [q[2] EXCEPT !.functions = <<ReadFn(lines, q[1])>> \o @]]
  OBVIOUS
<1>6. \A k \in D : k \notin Stop => k \in 2 .. n /\ CodeEnd(lines, k) + 1 \in D
                                    /\ CodeEnd(lines, k) + 1 > k
  <2> SUFFICES ASSUME NEW k \in D, k \notin Stop
               PROVE  k \in 2 .. n /\ CodeEnd(lines, k) + 1 \in D /\ CodeEnd(lines, k) + 1 > k
    OBVIOUS
  <2>1. k \in 2 .. n /\ Readable(lines, k)
    BY <1>2, <1>3
  <2>2. CodeEnd(lines, k) \in k .. n
    BY <1>1, <2>1, CodeEndLemma
  <2> QED BY <1>2, <2>1, <2>2
<1>7. Descends(D, Stop, m, step)
  <2>1. m \in [D -> Nat]
    BY <1>1, <1>2, <1>5
  <2>2. step \in [D -> D]
    BY <1>5, <1>6
  <2>3. ASSUME NEW k \in D \ Stop PROVE m[step[k]] < m[k]
    <3>1. step[k] = CodeEnd(lines, k) + 1 /\ step[k] \in D /\ step[k] > k
      BY <1>5, <1>6
    <3>2. m[step[k]] = n + 1 - step[k] /\ m[k] = n + 1 - k
      BY <1>5, <3>1
    <3>3. step[k] \in Int /\ k \in Int
      BY <1>2, <3>1
    <3> QED BY <3>1, <3>2, <3>3
  <2> QED BY <2>1, <2>2, <2>3 DEF Descends
<1>8. out \in [D -> T] /\ comb \in [D \X T -> T]
  <2>1. \A b \in BOOLEAN : [ok |-> b, functions |-> <<>>] \in T
    <3>1. <<>> \in Seq(F)
      BY EmptySeq
    <3> QED BY <1>4, <3>1
  <2>2. out \in [D -> T]
    BY <1>5, <2>1
  <2>3. ASSUME NEW k \in D, NEW w \in T PROVE comb[<<k, w>>] \in T
    <3>1. PICK g : g = ReadFn(lines, k)
      OBVIOUS
    <3>2. g \in F
      BY <1>3, <3>1
    <3>3. <<g>> \in Seq(F) /\ w.functions \in Seq(F)
      BY <1>4, <3>2
    <3>4. <<g>> \o w.functions \in Seq(F)
      BY <3>3, ConcatProperties
    <3>5. comb[<<k, w>>] = [w EXCEPT !.functions = <<g>> \o @]
      BY <1>5, <3>1
    <3> QED BY <1>4, <3>4, <3>5
  <2>4. comb \in [D \X T -> T]
    BY <1>5, <2>3
  <2> QED BY <2>2, <2>4
<1>9. PICK from \in [D -> T] : Follows(D, Stop, out, step, comb, from)
  BY <1>7, <1>8, RecursionExists
<1>10. ASSUME NEW at \in D
       PROVE  from[at] = IF at > n THEN [ok |-> TRUE, functions |-> <<>>]
                         ELSE IF ~ Readable(lines, at) THEN [ok |-> FALSE, functions |-> <<>>]
                         ELSE [from[CodeEnd(lines, at) + 1] EXCEPT
                                 !.functions = <<ReadFn(lines, at)>> \o @]
  <2>1. CASE at > n
    BY <1>3, <1>5, <1>9, <2>1 DEF Follows
  <2>2. CASE ~ (at > n) /\ ~ Readable(lines, at)
    BY <1>3, <1>5, <1>9, <2>2 DEF Follows
  <2>3. CASE ~ (at > n) /\ Readable(lines, at)
    <3>1. at \notin Stop /\ step[at] = CodeEnd(lines, at) + 1
      BY <1>3, <1>5, <2>3
    <3>2. step[at] \in D
      BY <1>6, <3>1
    <3>3. from[step[at]] \in T
      BY <3>2
    <3>4. from[at] = comb[<<at, from[step[at]]>>]
      BY <1>9, <3>1 DEF Follows
    <3>5. comb[<<at, from[step[at]]>>]
            = [from[step[at]] EXCEPT !.functions = <<ReadFn(lines, at)>> \o @]
      BY <1>5, <3>3
    <3> QED BY <2>3, <3>1, <3>4, <3>5
  <2> QED BY <2>1, <2>2, <2>3
<1>11. from = [at \in D |-> from[at]]
  OBVIOUS
<1>12. from = [at \in 2 .. Len(lines) + 1 |->
                 IF at > Len(lines) THEN [ok |-> TRUE, functions |-> <<>>]
                 ELSE IF ~ Readable(lines, at) THEN [ok |-> FALSE, functions |-> <<>>]
                 ELSE [from[CodeEnd(lines, at) + 1] EXCEPT !.functions = <<ReadFn(lines, at)>> \o @]]
  BY <1>1, <1>2, <1>10, <1>11
<1> QED BY <1>12 DEF Reads

LEMMA ReadFnsLemma ==
  ASSUME NEW lines \in Seq(ObjectLines), lines # <<>>
  PROVE  \E from : Reads(lines, from) /\ ReadFns(lines) = from[2]
<1>1. PICK f : Reads(lines, f)
  BY ReadsExists
<1> QED BY <1>1 DEF Reads, ReadFns

Prepended(c, rest) == [rest EXCEPT !.functions = <<c>> \o @]

LEMMA PrependedLemma ==
  ASSUME NEW c, NEW b, NEW w
  PROVE  Prepended(c, [ok |-> b, functions |-> w]) = [ok |-> b, functions |-> <<c>> \o w]
<1>1. PICK r : r = [ok |-> b, functions |-> w]
  OBVIOUS
<1>2. PICK x : x = <<c>> \o w
  OBVIOUS
<1>3. r.functions = w
  BY <1>1
<1>4. [r EXCEPT !.functions = x] = [ok |-> b, functions |-> x]
  BY <1>1
<1>5. Prepended(c, r) = [r EXCEPT !.functions = x]
  BY <1>2, <1>3 DEF Prepended
<1> QED BY <1>1, <1>2, <1>4, <1>5

\* One turn of the reader, on lines that hold a function.
LEMMA ReadOneLemma ==
  ASSUME NEW lines \in Seq(ObjectLines), NEW from, Reads(lines, from), NEW c, IsFunction(c),
         NEW at \in Nat, at >= 2, Holds(lines, at, c)
  PROVE  from[at] = Prepended(c, from[at + 1 + Len(c.consts) + Len(c.code)])
<1>1. Len(c.consts) \in Nat /\ Len(c.code) \in Nat
  BY FunctionLemma
<1>2. PICK nc \in Nat, n \in Nat, m \in Nat : nc = Len(c.consts) /\ n = Len(c.code) /\ m = Len(lines)
  BY <1>1
<1>3. at + nc + n <= m
  BY <1>2 DEF Holds
<1>4. at \in 1 .. m /\ at \in 2 .. m + 1 /\ ~ (at > m) /\ (at + nc + n) + 1 = at + 1 + nc + n
  BY <1>3
<1>5. CodeEnd(lines, at) = at + nc + n /\ Readable(lines, at) /\ ReadFn(lines, at) = c
  BY <1>2, <1>4, HoldsReads
<1>6. from[at] = IF at > m THEN [ok |-> TRUE, functions |-> <<>>]
                 ELSE IF ~ Readable(lines, at) THEN [ok |-> FALSE, functions |-> <<>>]
                 ELSE [from[CodeEnd(lines, at) + 1] EXCEPT !.functions = <<ReadFn(lines, at)>> \o @]
  BY <1>2, <1>4 DEF Reads
<1>7. from[at] = Prepended(c, from[at + 1 + nc + n])
  BY <1>4, <1>5, <1>6 DEF Prepended
<1> QED BY <1>2, <1>7

\* The reader goes through the first K functions, and on with the rest.
GoesThrough(from, fs, S, K, V) ==
  \A ok \in BOOLEAN, rest \in Seq(V) :
    from[S[K + 1]] = [ok |-> ok, functions |-> rest]
      => from[2] = [ok |-> ok, functions |-> SubSeq(fs, 1, K) \o rest]

LEMMA ReadAllLemma ==
  ASSUME NEW V, NEW fs, NEW n \in Nat, n = Len(fs), fs \in Seq(V), \A k \in 1 .. n : IsFunction(fs[k]),
         NEW S, Starts(fs, S), NEW K \in 0 .. n,
         NEW lines \in Seq(ObjectLines), Standing(lines, fs, S, K),
         NEW from, Reads(lines, from)
  PROVE  GoesThrough(from, fs, S, K, V)
<1> SUFFICES ASSUME NEW ok \in BOOLEAN, NEW rest \in Seq(V),
                    from[S[K + 1]] = [ok |-> ok, functions |-> rest]
             PROVE  from[2] = [ok |-> ok, functions |-> SubSeq(fs, 1, K) \o rest]
  BY DEF GoesThrough
<1>1. PICK D : D = 1 .. K + 1
  OBVIOUS
<1>2. PICK m : m = [k \in D |-> K + 1 - k]
  OBVIOUS
<1> DEFINE Good == {k \in D : from[S[k]] = [ok |-> ok, functions |-> SubSeq(fs, k, K) \o rest]}
<1>3. ASSUME NEW k \in D, \A j \in D : m[j] < m[k] => j \in Good PROVE k \in Good
  <2>1. CASE k = K + 1
    <3>1. SubSeq(fs, k, K) = <<>>
      BY <2>1, SubSeqEmpty
    <3>2. <<>> \o rest = rest
      BY ConcatEmptySeq
    <3> QED BY <2>1, <3>1, <3>2
  <2>2. CASE k # K + 1
    <3>1. k \in 1 .. n /\ k \in 1 .. K /\ k + 1 \in D /\ k \in 1 .. n + 1
      BY <1>1, <2>2
    <3>2. m[k + 1] < m[k]
      <4>1. m[k + 1] = K + 1 - (k + 1) /\ m[k] = K + 1 - k
        BY <1>2, <3>1
      <4> QED BY <3>1, <4>1
    <3>3. k + 1 \in Good
      BY <1>3, <3>1, <3>2
    <3>4. S[k] \in Nat /\ S[k] >= 2
      BY <3>1 DEF Starts
    <3>5. PICK c, next, w : c = fs[k] /\ next = S[k + 1] /\ w = SubSeq(fs, k + 1, K) \o rest
      OBVIOUS
    <3>6. IsFunction(c) /\ next = S[k] + 1 + Len(c.consts) + Len(c.code) /\ Holds(lines, S[k], c)
      BY <3>1, <3>5 DEF Starts, Standing
    <3>7. from[S[k]] = Prepended(c, from[next])
      <4>1. PICK at \in Nat : at = S[k]
        BY <3>4
      <4>2. IsFunction(c) /\ Holds(lines, at, c) /\ at >= 2
        BY <3>4, <3>6, <4>1
      <4>3. from[at] = Prepended(c, from[at + 1 + Len(c.consts) + Len(c.code)])
        BY <4>2, ReadOneLemma, ZenonT(60)
      <4> QED BY <3>6, <4>1, <4>3
    <3>8. from[next] = [ok |-> ok, functions |-> w]
      BY <3>3, <3>5
    <3>9. from[S[k]] = [ok |-> ok, functions |-> <<c>> \o w]
      BY <3>7, <3>8, PrependedLemma, ZenonT(30)
    <3>10. <<c>> \o w = SubSeq(fs, k, K) \o rest
      <4>1. SubSeq(fs, k, K) = <<c>> \o SubSeq(fs, k + 1, K)
        BY <3>1, <3>5, SubSeqRecursiveFirst
      <4>2. c \in V
        BY <3>1, <3>5
      <4>3. SubSeq(fs, k + 1, K) \in Seq(V) /\ <<c>> \in Seq(V)
        BY <3>1, <4>2
      <4>4. PICK t \in Seq(V) : t = SubSeq(fs, k + 1, K)
        BY <4>3
      <4>5. (<<c>> \o t) \o rest = <<c>> \o (t \o rest)
        BY <4>3, ConcatAssociative
      <4> QED BY <3>5, <4>1, <4>4, <4>5
    <3> QED BY <3>9, <3>10
  <2> QED BY <2>1, <2>2
<1>4. m \in [D -> Nat]
  BY <1>1, <1>2
<1>5. D \subseteq Good
  <2> HIDE DEF Good
  <2> QED BY <1>3, <1>4, MeasureLemma
<1>6. 1 \in D /\ S[1] = 2
  BY <1>1 DEF Starts
<1> QED BY <1>5, <1>6

\* What is built is read back: the program, whole.
THEOREM ObjectFilesRoundTrip ==
  ASSUME NEW p, IsObject(p)
  PROVE  FromText(ToText(p)) = [ok |-> TRUE, functions |-> p.functions, main |-> p.main]
<1>1. PICK text, fs : text = ToText(p) /\ fs = p.functions
  OBVIOUS
<1>2. PICK n \in Nat : n = Len(fs)
  BY <1>1 DEF IsObject
<1>3. PICK S : IsText(text, p, S)
  BY <1>1, TextLemma
<1>4. /\ text \in Seq(ObjectLines) /\ Starts(fs, S) /\ Standing(text, fs, S, n)
      /\ Len(text) = S[n + 1] - 1 /\ text[1].word = "lumen-obj" /\ text[1].nums[1] = p.main
  BY <1>1, <1>2, <1>3 DEF IsText
<1>5. S[n + 1] \in Nat /\ S[n + 1] >= 2
  <2>1. n + 1 \in 1 .. n + 1
    OBVIOUS
  <2> QED BY <1>2, <1>4, <2>1 DEF Starts
<1>6. text # <<>>
  <2>1. Len(text) # 0
    BY <1>4, <1>5
  <2> QED BY <2>1, EmptySeq
<1>7. PICK from : Reads(text, from) /\ ReadFns(text) = from[2]
  BY <1>4, <1>6, ReadFnsLemma
<1>8. from[S[n + 1]] = [ok |-> TRUE, functions |-> <<>>]
  <2>1. S[n + 1] \in 2 .. Len(text) + 1 /\ S[n + 1] > Len(text)
    BY <1>4, <1>5
  <2> QED BY <1>7, <2>1 DEF Reads
<1>9. PICK nil \in Seq(Chunks) : nil = <<>>
  BY EmptySeq
<1>10. fs \in Seq(Chunks) /\ \A k \in 1 .. n : IsFunction(fs[k])
  BY <1>1, <1>2 DEF IsObject
<1>11. from[2] = [ok |-> TRUE, functions |-> SubSeq(fs, 1, n) \o nil]
  <2>1. n \in 0 .. n /\ TRUE \in BOOLEAN
    OBVIOUS
  <2>2. from[S[n + 1]] = [ok |-> TRUE, functions |-> nil]
    BY <1>8, <1>9
  <2>3. GoesThrough(from, fs, S, n, Chunks)
    BY <1>2, <1>4, <1>7, <1>10, <2>1, ReadAllLemma
  <2> QED BY <2>1, <2>2, <2>3 DEF GoesThrough
<1>12. SubSeq(fs, 1, n) \o nil = fs
  BY <1>2, <1>9, <1>10, SubSeqFull, ConcatEmptySeq
<1>13. ReadFns(text) = [ok |-> TRUE, functions |-> fs]
  BY <1>7, <1>11, <1>12
<1>14. FromText(text) = [ok |-> TRUE, functions |-> fs, main |-> p.main]
  BY <1>4, <1>6, <1>13 DEF FromText
<1> QED BY <1>1, <1>14

----------------------------------------------------------------------------
(* Damage.                                                                 *)

LEMMA StartsGrow ==
  ASSUME NEW fs, NEW n \in Nat, n = Len(fs), \A k \in 1 .. n : IsFunction(fs[k]),
         NEW S, Starts(fs, S), NEW j \in 1 .. n + 1, NEW k0 \in j .. n + 1
  PROVE  S[j] <= S[k0]
<1>1. PICK D : D = j .. n + 1
  OBVIOUS
<1>2. PICK m : m = [k \in D |-> k - j]
  OBVIOUS
<1>3. \A k \in 1 .. n + 1 : S[k] \in Nat
  BY DEF Starts
<1> DEFINE Good == {k \in D : S[j] <= S[k]}
<1>4. ASSUME NEW k \in D, \A i \in D : m[i] < m[k] => i \in Good PROVE k \in Good
  <2>1. CASE k = j
    BY <1>3, <2>1
  <2>2. CASE k # j
    <3>1. k - 1 \in D /\ k - 1 \in 1 .. n /\ (k - 1) + 1 = k /\ k \in 1 .. n + 1 /\ k - 1 \in 1 .. n + 1
      BY <1>1, <2>2
    <3>2. m[k - 1] < m[k]
      <4>1. m[k - 1] = k - 1 - j /\ m[k] = k - j /\ k \in Int
        BY <1>1, <1>2, <3>1
      <4> QED BY <4>1
    <3>3. S[j] <= S[k - 1]
      BY <1>4, <3>1, <3>2
    <3>4. S[k] = S[k - 1] + 1 + Len(fs[k - 1].consts) + Len(fs[k - 1].code)
      BY <3>1 DEF Starts
    <3>5. PICK a \in Nat, b \in Nat : a = Len(fs[k - 1].consts) /\ b = Len(fs[k - 1].code)
      BY <3>1, FunctionLemma
    <3>6. PICK x \in Nat, y \in Nat : x = S[j] /\ y = S[k - 1]
      BY <1>3, <3>1
    <3>7. S[k] = y + 1 + a + b /\ x <= y
      BY <3>3, <3>4, <3>5, <3>6
    <3>8. x <= S[k]
      BY <3>7
    <3> QED BY <3>6, <3>8
  <2> QED BY <2>1, <2>2
<1>5. m \in [D -> Nat]
  BY <1>1, <1>2
<1>6. D \subseteq Good
  <2> HIDE DEF Good
  <2> QED BY <1>4, <1>5, MeasureLemma
<1> QED BY <1>1, <1>6

\* Every line but the first belongs to one function.
LEMMA FindLemma ==
  ASSUME NEW fs, NEW n \in Nat, n = Len(fs), NEW S, Starts(fs, S), NEW d \in Nat,
         d >= 2, d < S[n + 1]
  PROVE  \E k \in 0 .. n - 1 : S[k + 1] <= d /\ d < S[k + 2]
<1> DEFINE T == {j \in 1 .. n + 1 : d < S[j]}
<1>1. n + 1 \in T /\ T \subseteq Nat
  OBVIOUS
<1>2. PICK j \in T : \A i \in T : j <= i
  BY <1>1, LeastLemma
<1>3. S[1] = 2 /\ \A i \in 1 .. n + 1 : S[i] \in Nat
  BY DEF Starts
<1>4. j # 1
  BY <1>3
<1>5. PICK k \in 0 .. n - 1 : j = k + 2
  <2>1. j - 2 \in 0 .. n - 1 /\ j = (j - 2) + 2
    BY <1>4
  <2> QED BY <2>1
<1>6. k + 1 \in 1 .. n + 1 /\ k + 1 < j
  BY <1>5
<1>7. k + 1 \notin T
  BY <1>2, <1>5, <1>6
<1>8. S[k + 1] <= d
  BY <1>3, <1>6, <1>7
<1> QED BY <1>5, <1>8

\* Every function has code: a file that lost a function of one line does not show it.
HasCode(p) == \A k \in 1 .. Len(p.functions) : Len(p.functions[k].code) # 0

\* The lines are those of the text up to line d, of the function k + 1.
SameUpTo(p, text, S, k, d, lines) ==
  /\ IsObject(p) /\ HasCode(p) /\ IsText(text, p, S)
  /\ k \in 0 .. Len(p.functions) - 1 /\ d \in Nat /\ S[k + 1] <= d /\ d < S[k + 2]
  /\ lines \in Seq(ObjectLines) /\ d - 1 <= Len(lines)
  /\ \A i \in 1 .. d - 1 : lines[i] = text[i]

\* What the text says of the function whose lines are from at to `last'.
OneFunction(text, at, nc, n, last) ==
  /\ at \in Nat /\ at >= 2 /\ nc \in Nat /\ n \in Nat /\ n # 0
  /\ last = at + nc + n /\ last <= Len(text) /\ Len(text) \in Nat
  /\ text[at].word = "fn" /\ text[at].nums[3] = nc /\ text[at].nums[4] = n
  /\ \A i \in at + 1 .. last : text[i].word # "fn"
  /\ last < Len(text) => text[last + 1].word = "fn"

LEMMA OneFunctionLemma ==
  ASSUME NEW p, IsObject(p), HasCode(p), NEW S, NEW text, IsText(text, p, S),
         NEW k \in 0 .. Len(p.functions) - 1
  PROVE  \E nc, n : OneFunction(text, S[k + 1], nc, n, S[k + 2] - 1)
<1>1. PICK fs : fs = p.functions
  OBVIOUS
<1>2. PICK m \in Nat : m = Len(fs)
  BY <1>1 DEF IsObject
<1>3. k + 1 \in 1 .. m /\ k + 1 \in 1 .. m + 1 /\ k + 2 \in 1 .. m + 1 /\ (k + 1) + 1 = k + 2
      /\ m + 1 \in k + 2 .. m + 1
  BY <1>1, <1>2
<1>4. PICK c : c = fs[k + 1]
  OBVIOUS
<1>5. PICK at, last : at = S[k + 1] /\ last = S[k + 2] - 1
  OBVIOUS
<1>6. /\ Starts(fs, S) /\ Standing(text, fs, S, m) /\ Len(text) = S[m + 1] - 1
      /\ \A j \in 1 .. m : IsFunction(fs[j])
  BY <1>1, <1>2 DEF IsText, IsObject
<1>7. IsFunction(c) /\ Len(c.code) # 0
  BY <1>1, <1>2, <1>3, <1>4, <1>6 DEF HasCode
<1>8. PICK nc \in Nat, n \in Nat : nc = Len(c.consts) /\ n = Len(c.code)
  BY <1>7, FunctionLemma
<1>9. at \in Nat /\ at >= 2 /\ S[k + 2] = at + 1 + nc + n /\ S[m + 1] \in Nat /\ S[k + 2] \in Nat
  <2>1. \A j \in 1 .. m + 1 : S[j] \in Nat /\ S[j] >= 2
    BY <1>2, <1>6 DEF Starts
  <2>2. S[k + 2] = S[k + 1] + 1 + Len(c.consts) + Len(c.code)
    BY <1>2, <1>3, <1>4, <1>6 DEF Starts
  <2>3. m + 1 \in 1 .. m + 1
    OBVIOUS
  <2>4. S[k + 2] = at + 1 + nc + n
    BY <1>5, <1>8, <2>2
  <2> QED BY <1>3, <1>5, <2>1, <2>3, <2>4
<1>10. S[k + 2] <= S[m + 1]
  BY <1>2, <1>3, <1>6, StartsGrow
<1>11. last = at + nc + n /\ last <= Len(text) /\ Len(text) \in Nat
  <2>1. PICK x \in Nat, y \in Nat : x = S[k + 2] /\ y = S[m + 1]
    BY <1>9
  <2>2. x = at + 1 + nc + n /\ x <= y /\ Len(text) = y - 1 /\ last = x - 1
    BY <1>5, <1>6, <1>9, <1>10, <2>1
  <2> QED BY <1>9, <2>2
<1>12. Holds(text, at, c)
  BY <1>3, <1>4, <1>5, <1>6 DEF Standing
<1>13. text[at].word = "fn" /\ text[at].nums[3] = nc /\ text[at].nums[4] = n
  <2>1. text[at].nums = <<c.n_params, c.n_locals, nc, n>>
    BY <1>8, <1>12 DEF Holds
  <2> QED BY <1>12, <2>1 DEF Holds
<1>14. \A j \in 1 .. n : text[at + nc + j].word \in OpNames
  <2>1. \A j \in 1 .. n : text[at + nc + j] = OpLine(c.code[j]) /\ IsInstruction(c.code[j])
    BY <1>7, <1>8, <1>12, FunctionLemma DEF Holds
  <2> QED BY <2>1, OpLineLemma
<1>15. \A i \in at + 1 .. last : text[i].word # "fn"
  <2> SUFFICES ASSUME NEW i \in at + 1 .. last PROVE text[i].word # "fn"
    OBVIOUS
  <2>1. CASE i <= at + nc
    <3>1. PICK j \in 1 .. nc : i = at + j
      <4>1. i - at \in 1 .. nc /\ i = at + (i - at)
        BY <1>9, <1>11, <2>1
      <4> QED BY <4>1
    <3> QED BY <1>8, <1>12, <3>1 DEF Holds
  <2>2. CASE ~ (i <= at + nc)
    <3>1. PICK j \in 1 .. n : i = at + nc + j
      <4>1. i - (at + nc) \in 1 .. n /\ i = at + nc + (i - (at + nc))
        BY <1>9, <1>11, <2>2
      <4> QED BY <4>1
    <3> QED BY <1>14, <3>1, OpNamesLemma
  <2> QED BY <2>1, <2>2
<1>17. last < Len(text) => text[last + 1].word = "fn"
  <2> SUFFICES ASSUME last < Len(text) PROVE text[last + 1].word = "fn"
    OBVIOUS
  <2>1. k + 2 # m + 1 /\ last + 1 = S[k + 2]
    <3>1. PICK x \in Nat : x = S[k + 2]
      BY <1>9
    <3>2. last = x - 1
      BY <1>5, <3>1
    <3>3. k + 2 = m + 1 => last = Len(text)
      BY <1>5, <1>6
    <3> QED BY <1>11, <3>1, <3>2, <3>3
  <2>2. k + 2 \in 1 .. m
    BY <1>3, <2>1
  <2>3. Holds(text, S[k + 2], fs[k + 2])
    BY <1>6, <2>2 DEF Standing
  <2> QED BY <2>1, <2>3 DEF Holds
<1>18. OneFunction(text, at, nc, n, last)
  BY <1>7, <1>8, <1>9, <1>11, <1>13, <1>15, <1>17 DEF OneFunction
<1> QED BY <1>5, <1>18

\* What is known of lines that are the text's up to line d.
Begun(lines, p, text, S, k) ==
  /\ lines # <<>> /\ lines[1].word = "lumen-obj" /\ lines[1].nums[1] = p.main
  /\ Standing(lines, p.functions, S, k)
  /\ S[k + 1] \in Nat /\ S[k + 1] >= 2
  /\ \E nc, n : OneFunction(text, S[k + 1], nc, n, S[k + 2] - 1)

LEMMA SameUpToLemma ==
  ASSUME NEW p, NEW text, NEW S, NEW k, NEW d, NEW lines, SameUpTo(p, text, S, k, d, lines)
  PROVE  Begun(lines, p, text, S, k)
<1>1. PICK fs : fs = p.functions
  OBVIOUS
<1>2. PICK m \in Nat : m = Len(fs)
  BY <1>1 DEF IsObject, SameUpTo
<1>3. /\ k \in 0 .. m - 1 /\ d \in Nat /\ S[k + 1] <= d /\ d - 1 <= Len(lines)
      /\ \A i \in 1 .. d - 1 : lines[i] = text[i]
      /\ lines \in Seq(ObjectLines)
  BY <1>1, <1>2 DEF SameUpTo
<1>4. /\ Starts(fs, S) /\ Standing(text, fs, S, m) /\ \A j \in 1 .. m : IsFunction(fs[j])
      /\ text[1].word = "lumen-obj" /\ text[1].nums[1] = p.main
  BY <1>1, <1>2 DEF SameUpTo, IsText, IsObject
<1>5. \A j \in 1 .. m + 1 : S[j] \in Nat /\ S[j] >= 2
  BY <1>2, <1>4 DEF Starts
<1>6. k + 1 \in 1 .. m + 1 /\ k \in 0 .. m
  BY <1>3
<1>7. PICK at \in Nat : at = S[k + 1] /\ at >= 2 /\ at <= d
  BY <1>3, <1>5, <1>6
<1>8. lines[1] = text[1] /\ Len(lines) # 0 /\ Len(lines) \in Nat
  <2>1. Len(lines) \in Nat
    BY <1>3
  <2>2. 1 \in 1 .. d - 1
    BY <1>3, <1>7
  <2> QED BY <1>3, <1>7, <2>1, <2>2
<1>9. lines # <<>>
  BY <1>8, EmptySeq
<1>10. ASSUME NEW j \in 1 .. k PROVE Holds(lines, S[j], fs[j])
  <2>1. j \in 1 .. m /\ j \in 1 .. m + 1 /\ j + 1 \in 1 .. m + 1 /\ k + 1 \in j + 1 .. m + 1
    BY <1>6
  <2>2. PICK c : c = fs[j]
    OBVIOUS
  <2>3. IsFunction(c) /\ Holds(text, S[j], c)
    BY <1>4, <2>1, <2>2 DEF Standing
  <2>4. PICK nc \in Nat, n \in Nat : nc = Len(c.consts) /\ n = Len(c.code)
    BY <2>3, FunctionLemma
  <2>5. PICK x \in Nat : x = S[j] /\ x >= 2
    BY <1>5, <2>1
  <2>6. S[j + 1] = S[j] + 1 + Len(c.consts) + Len(c.code)
    BY <1>2, <1>4, <2>1, <2>2 DEF Starts
  <2>7. S[j + 1] = x + 1 + nc + n
    BY <2>4, <2>5, <2>6
  <2>8. S[j + 1] <= S[k + 1]
    BY <1>2, <1>4, <2>1, StartsGrow
  <2>9. x + nc + n <= d - 1
    <3>1. x + 1 + nc + n <= at
      BY <1>7, <2>7, <2>8
    <3> QED BY <1>3, <1>7, <3>1
  <2>10. Copied(text, x, lines, x, nc + n)
    <3>1. \A i \in 0 .. nc + n : x + i \in 1 .. d - 1
      BY <1>3, <2>5, <2>9, SMTT(30)
    <3> QED BY <1>3, <3>1 DEF Copied
  <2>11. x + nc + n <= Len(lines)
    <3>1. PICK t \in Nat : t = Len(lines)
      BY <1>8
    <3> QED BY <1>3, <2>9, <3>1
  <2>12. Holds(lines, x, c)
    <3>1. Copied(text, x, lines, x, Len(c.consts) + Len(c.code))
      BY <2>4, <2>10
    <3>2. x + Len(c.consts) + Len(c.code) <= Len(lines) /\ Holds(text, x, c)
      BY <2>3, <2>4, <2>5, <2>11
    <3> QED BY <2>3, <3>1, <3>2, HoldsMoved
  <2> QED BY <2>2, <2>5, <2>12
<1>11. \E nc, n : OneFunction(text, S[k + 1], nc, n, S[k + 2] - 1)
  BY OneFunctionLemma DEF SameUpTo
<1> QED BY <1>1, <1>4, <1>7, <1>8, <1>9, <1>10, <1>11 DEF Begun, Standing

\* A reader that comes to line `at' gives up there, or at the next function.
GivesUp(lines, at) ==
  /\ at <= Len(lines)
  /\ \/ ~ Readable(lines, at)
     \/ /\ CodeEnd(lines, at) + 1 <= Len(lines)
        /\ ~ Readable(lines, CodeEnd(lines, at) + 1)

LEMMA GivesUpLemma ==
  ASSUME NEW p, NEW text, NEW S, NEW k, NEW d, NEW lines, SameUpTo(p, text, S, k, d, lines),
         GivesUp(lines, S[k + 1])
  PROVE  ~ FromText(lines).ok
<1>1. PICK fs : fs = p.functions
  OBVIOUS
<1>2. PICK m \in Nat : m = Len(fs)
  BY <1>1 DEF IsObject, SameUpTo
<1>3. /\ lines # <<>> /\ lines[1].word = "lumen-obj" /\ Standing(lines, fs, S, k)
      /\ S[k + 1] \in Nat /\ S[k + 1] >= 2
  BY <1>1, SameUpToLemma DEF Begun
<1>4. lines \in Seq(ObjectLines) /\ k \in 0 .. m
  BY <1>1, <1>2 DEF SameUpTo
<1>5. PICK at, len : at = S[k + 1] /\ len = Len(lines)
  OBVIOUS
<1>6. PICK from : Reads(lines, from) /\ ReadFns(lines) = from[2]
  BY <1>3, <1>4, ReadFnsLemma
<1>7. at \in 2 .. len /\ len \in Nat
  BY <1>3, <1>4, <1>5 DEF GivesUp
<1>8. \A i \in 2 .. len :
        from[i] = IF ~ Readable(lines, i) THEN [ok |-> FALSE, functions |-> <<>>]
                  ELSE Prepended(ReadFn(lines, i), from[CodeEnd(lines, i) + 1])
  <2> SUFFICES ASSUME NEW i \in 2 .. len
               PROVE  from[i] = IF ~ Readable(lines, i) THEN [ok |-> FALSE, functions |-> <<>>]
                                ELSE Prepended(ReadFn(lines, i), from[CodeEnd(lines, i) + 1])
    OBVIOUS
  <2>1. i \in 2 .. len + 1 /\ ~ (i > len)
    BY <1>7
  <2>2. from[i] = IF i > len THEN [ok |-> TRUE, functions |-> <<>>]
                  ELSE IF ~ Readable(lines, i) THEN [ok |-> FALSE, functions |-> <<>>]
                  ELSE [from[CodeEnd(lines, i) + 1] EXCEPT !.functions = <<ReadFn(lines, i)>> \o @]
    BY <1>5, <1>6, <2>1 DEF Reads
  <2> QED BY <2>1, <2>2 DEF Prepended
<1>9. PICK V : V = Chunks \cup {ReadFn(lines, at)}
  OBVIOUS
<1>10. \E rest \in Seq(V) : from[at] = [ok |-> FALSE, functions |-> rest]
  <2>1. <<>> \in Seq(V)
    BY EmptySeq
  <2>2. CASE ~ Readable(lines, at)
    BY <1>7, <1>8, <2>1, <2>2
  <2>3. CASE Readable(lines, at)
    <3>1. PICK next : next = CodeEnd(lines, at) + 1
      OBVIOUS
    <3>2. next \in 2 .. len /\ ~ Readable(lines, next)
      <4>1. CodeEnd(lines, at) \in at .. len
        BY <1>4, <1>5, <1>7, <2>3, CodeEndLemma
      <4>2. next <= len /\ ~ Readable(lines, next)
        BY <1>5, <2>3, <3>1 DEF GivesUp
      <4> QED BY <1>7, <3>1, <4>1, <4>2
    <3>3. PICK nil \in Seq(V) : nil = <<>>
      BY <2>1
    <3>4. from[next] = [ok |-> FALSE, functions |-> nil]
      BY <1>8, <3>2, <3>3
    <3>5. PICK g \in V : g = ReadFn(lines, at)
      BY <1>9
    <3>6. from[at] = Prepended(g, from[next])
      BY <1>7, <1>8, <2>3, <3>1, <3>5
    <3>7. from[at] = [ok |-> FALSE, functions |-> <<g>> \o nil]
      BY <3>4, <3>6, PrependedLemma
    <3>8. <<g>> \o nil \in Seq(V)
      <4>1. <<g>> \in Seq(V)
        OBVIOUS
      <4> QED BY <4>1, ConcatProperties
    <3> QED BY <3>7, <3>8
  <2> QED BY <2>2, <2>3
<1>11. GoesThrough(from, fs, S, k, V)
  <2>1. Starts(fs, S) /\ \A j \in 1 .. m : IsFunction(fs[j])
    BY <1>1, <1>2 DEF SameUpTo, IsText, IsObject
  <2>2. fs \in Seq(V)
    <3>1. fs \in Seq(Chunks) /\ Chunks \subseteq V
      BY <1>1, <1>9 DEF SameUpTo, IsObject
    <3> QED BY <3>1, SeqMonotonic
  <2> QED BY <1>2, <1>3, <1>4, <1>6, <2>1, <2>2, ReadAllLemma
<1>12. \E w : from[2] = [ok |-> FALSE, functions |-> w]
  BY <1>5, <1>10, <1>11 DEF GoesThrough
<1>13. ~ ReadFns(lines).ok
  BY <1>6, <1>12
<1> QED BY <1>3, <1>13 DEF FromText

\* What it takes for the lines of a function to be readable.
LEMMA ReadableLines ==
  ASSUME NEW lines, NEW at \in Nat, NEW nc \in Nat, NEW n \in Nat,
         lines[at].nums[3] = nc, lines[at].nums[4] = n, Readable(lines, at)
  PROVE  /\ CodeEnd(lines, at) = at + nc + n /\ at + nc + n <= Len(lines)
         /\ lines[at].word = "fn" /\ \A i \in at + 1 .. at + nc + n : lines[i].word # "fn"
<1>1. CodeEnd(lines, at) = at + nc + n
  BY DEF CodeEnd
<1>2. \A i \in at + 1 .. at + nc + n : lines[i].word = "const" \/ lines[i].word \in OpNames
  BY <1>1 DEF Readable
<1>3. \A i \in at + 1 .. at + nc + n : lines[i].word # "fn"
  BY <1>2, OpNamesLemma
<1> QED BY <1>1, <1>3 DEF Readable

\* A line is missing.
LEMMA RemovedLemma ==
  ASSUME NEW p, NEW text, NEW S, NEW k, NEW d, NEW lines, SameUpTo(p, text, S, k, d, lines),
         Len(lines) = Len(text) - 1, \A i \in d .. Len(lines) : lines[i] = text[i + 1]
  PROVE  ~ FromText(lines).ok
<1>1. PICK at, last : at = S[k + 1] /\ last = S[k + 2] - 1
  OBVIOUS
<1>2. PICK nc, n : OneFunction(text, at, nc, n, last)
  BY <1>1, SameUpToLemma DEF Begun
<1>3. PICK len \in Nat : len = Len(text)
  BY <1>2 DEF OneFunction
<1>4. /\ at \in Nat /\ at >= 2 /\ nc \in Nat /\ n \in Nat /\ n # 0
      /\ last = at + nc + n /\ last <= len
      /\ text[at].nums[3] = nc /\ text[at].nums[4] = n
      /\ \A i \in at + 1 .. last : text[i].word # "fn"
      /\ last < len => text[last + 1].word = "fn"
  BY <1>2, <1>3 DEF OneFunction
<1>5. /\ d \in Nat /\ at <= d /\ d < S[k + 2] /\ \A i \in 1 .. d - 1 : lines[i] = text[i]
  BY <1>1 DEF SameUpTo
<1>6. d <= last
  <2>1. S[k + 2] = last + 1
    <3>1. PICK z : z = S[k + 2]
      OBVIOUS
    <3>2. z \in Int
      BY <3>1 DEF SameUpTo, IsText, Starts
    <3> QED BY <1>1, <1>4, <3>1, <3>2
  <2> QED BY <1>4, <1>5, <2>1
<1>7. Len(lines) = len - 1
  BY <1>3
<1>8. ~ Readable(lines, at)
  <2>1. CASE d = at
    <3>1. lines[at] = text[at + 1] /\ at + 1 \in at + 1 .. last
      <4>1. at \in d .. len - 1 /\ at + 1 \in at + 1 .. last
        BY <1>4, <2>1
      <4> QED BY <1>7, <4>1
    <3> QED BY <1>4, <3>1 DEF Readable
  <2>2. CASE d # at
    <3>1. lines[at] = text[at]
      <4>1. at \in 1 .. d - 1
        BY <1>4, <1>5, <2>2
      <4> QED BY <1>5, <4>1
    <3>2. SUFFICES ASSUME Readable(lines, at) PROVE FALSE
      OBVIOUS
    <3>3. last <= len - 1 /\ \A i \in at + 1 .. last : lines[i].word # "fn"
      BY <1>4, <1>7, <3>1, <3>2, ReadableLines
    <3>4. lines[last] = text[last + 1] /\ last \in at + 1 .. last /\ last < len
      <4>1. last \in d .. len - 1 /\ last \in at + 1 .. last /\ last < len
        BY <1>4, <1>5, <1>6, <3>3
      <4> QED BY <1>7, <4>1
    <3> QED BY <1>4, <3>3, <3>4
  <2> QED BY <2>1, <2>2
<1>9. at <= Len(lines)
  BY <1>4, <1>7
<1> QED BY <1>1, <1>8, <1>9, GivesUpLemma DEF GivesUp

\* A line is there twice.
LEMMA TwiceLemma ==
  ASSUME NEW p, NEW text, NEW S, NEW k, NEW d, NEW lines, SameUpTo(p, text, S, k, d, lines),
         Len(lines) = Len(text) + 1, lines[d] = text[d],
         \A i \in d + 1 .. Len(lines) : lines[i] = text[i - 1]
  PROVE  ~ FromText(lines).ok
<1>1. PICK at, last : at = S[k + 1] /\ last = S[k + 2] - 1
  OBVIOUS
<1>2. PICK nc, n : OneFunction(text, at, nc, n, last)
  BY <1>1, SameUpToLemma DEF Begun
<1>3. PICK len \in Nat : len = Len(text)
  BY <1>2 DEF OneFunction
<1>4. /\ at \in Nat /\ at >= 2 /\ nc \in Nat /\ n \in Nat /\ n # 0
      /\ last = at + nc + n /\ last <= len
      /\ text[at].word = "fn" /\ text[at].nums[3] = nc /\ text[at].nums[4] = n
      /\ \A i \in at + 1 .. last : text[i].word # "fn"
  BY <1>2, <1>3 DEF OneFunction
<1>5. /\ d \in Nat /\ at <= d /\ d < S[k + 2] /\ \A i \in 1 .. d - 1 : lines[i] = text[i]
  BY <1>1 DEF SameUpTo
<1>6. d <= last
  <2>1. S[k + 2] = last + 1
    <3>1. PICK z : z = S[k + 2]
      OBVIOUS
    <3>2. z \in Int
      BY <3>1 DEF SameUpTo, IsText, Starts
    <3> QED BY <1>1, <1>4, <3>1, <3>2
  <2> QED BY <1>4, <1>5, <2>1
<1>7. Len(lines) = len + 1
  BY <1>3
<1>8. lines[at] = text[at]
  <2>1. CASE d = at
    BY <2>1
  <2>2. CASE d # at
    <3>1. at \in 1 .. d - 1
      BY <1>4, <1>5, <2>2
    <3> QED BY <1>5, <3>1
  <2> QED BY <2>1, <2>2
<1>9. CASE d = at
  <2>1. lines[at + 1] = text[at] /\ at + 1 \in at + 1 .. last
    <3>1. at + 1 \in d + 1 .. len + 1 /\ at + 1 \in at + 1 .. last /\ (at + 1) - 1 = at
      BY <1>4, <1>9
    <3> QED BY <1>7, <3>1
  <2>2. ~ Readable(lines, at)
    <3>1. SUFFICES ASSUME Readable(lines, at) PROVE FALSE
      OBVIOUS
    <3>2. \A i \in at + 1 .. last : lines[i].word # "fn"
      BY <1>4, <1>8, <3>1, ReadableLines, SMTT(30)
    <3> QED BY <1>4, <2>1, <3>2
  <2>3. at <= Len(lines)
    BY <1>4, <1>7
  <2> QED BY <1>1, <2>2, <2>3, GivesUpLemma DEF GivesUp
<1>10. CASE d # at
  <2>1. CodeEnd(lines, at) = last
    BY <1>4, <1>8 DEF CodeEnd
  <2>2. lines[last + 1] = text[last] /\ last \in at + 1 .. last /\ last + 1 <= len + 1
    <3>1. last + 1 \in d + 1 .. len + 1 /\ last \in at + 1 .. last /\ (last + 1) - 1 = last
      BY <1>4, <1>5, <1>6
    <3>2. lines[last + 1] = text[(last + 1) - 1]
      BY <1>7, <3>1
    <3>3. last + 1 <= len + 1
      BY <3>1
    <3> QED BY <3>1, <3>2, <3>3
  <2>3. ~ Readable(lines, last + 1)
    BY <1>4, <2>2 DEF Readable
  <2>4. at <= Len(lines) /\ CodeEnd(lines, at) + 1 <= Len(lines)
    BY <1>4, <1>7, <2>1, <2>2
  <2> QED BY <1>1, <2>1, <2>3, <2>4, GivesUpLemma DEF GivesUp
<1> QED BY <1>9, <1>10

\* What is read, when the functions are.
LEMMA FromTextLemma ==
  ASSUME NEW lines, lines # <<>>, lines[1].word = "lumen-obj", NEW w,
         ReadFns(lines) = [ok |-> TRUE, functions |-> w]
  PROVE  FromText(lines) = [ok |-> TRUE, functions |-> w, main |-> lines[1].nums[1]]
BY DEF FromText

\* The program, as far as its first k functions.
ReadsTo(r, p, k) == r.main = p.main /\ r.functions = SubSeq(p.functions, 1, k)

\* The end is missing.
LEMMA CutLemma ==
  ASSUME NEW p, NEW text, NEW S, NEW k, NEW d, NEW lines, SameUpTo(p, text, S, k, d, lines),
         Len(lines) = d - 1, FromText(lines).ok
  PROVE  ReadsTo(FromText(lines), p, k)
<1>1. PICK fs : fs = p.functions
  OBVIOUS
<1>2. PICK m \in Nat : m = Len(fs)
  BY <1>1 DEF IsObject, SameUpTo
<1>3. PICK at, last : at = S[k + 1] /\ last = S[k + 2] - 1
  OBVIOUS
<1>4. /\ lines # <<>> /\ lines[1].word = "lumen-obj" /\ lines[1].nums[1] = p.main
      /\ Standing(lines, fs, S, k) /\ at \in Nat /\ at >= 2
  BY <1>1, <1>3, SameUpToLemma DEF Begun
<1>5. /\ lines \in Seq(ObjectLines) /\ k \in 0 .. m /\ d \in Nat /\ at <= d /\ d < S[k + 2]
      /\ \A i \in 1 .. d - 1 : lines[i] = text[i]
  BY <1>1, <1>2, <1>3 DEF SameUpTo
<1>6. PICK from : Reads(lines, from) /\ ReadFns(lines) = from[2]
  BY <1>4, <1>5, ReadFnsLemma
<1>7. d = at
  <2>1. SUFFICES ASSUME d # at PROVE FALSE
    OBVIOUS
  <2>2. PICK nc, n : OneFunction(text, at, nc, n, last)
    BY <1>3, SameUpToLemma DEF Begun
  <2>3. /\ nc \in Nat /\ n \in Nat /\ last = at + nc + n
        /\ text[at].nums[3] = nc /\ text[at].nums[4] = n
    BY <2>2 DEF OneFunction
  <2>4. lines[at] = text[at] /\ at <= d - 1
    <3>1. at \in 1 .. d - 1 /\ at <= d - 1
      BY <1>4, <1>5, <2>1
    <3> QED BY <1>5, <3>1
  <2>5. last >= d
    <3>1. PICK z : z = S[k + 2]
      OBVIOUS
    <3>2. z \in Int
      BY <3>1 DEF SameUpTo, IsText, Starts
    <3> QED BY <1>3, <1>5, <3>1, <3>2
  <2>6. ~ Readable(lines, at)
    <3>1. SUFFICES ASSUME Readable(lines, at) PROVE FALSE
      OBVIOUS
    <3>2. at + nc + n <= Len(lines)
      BY <1>4, <2>3, <2>4, <3>1, ReadableLines
    <3> QED BY <1>4, <1>5, <2>3, <2>5, <3>2
  <2> QED BY <1>3, <2>4, <2>6, GivesUpLemma DEF GivesUp
<1>8. from[S[k + 1]] = [ok |-> TRUE, functions |-> <<>>]
  <2>1. at \in 2 .. (d - 1) + 1 /\ at > d - 1
    BY <1>4, <1>5, <1>7
  <2>2. at \in 2 .. Len(lines) + 1 /\ at > Len(lines)
    BY <2>1
  <2> QED BY <1>3, <1>6, <2>2 DEF Reads
<1>9. PICK nil \in Seq(Chunks) : nil = <<>>
  BY EmptySeq
<1>10. fs \in Seq(Chunks) /\ \A j \in 1 .. m : IsFunction(fs[j])
  BY <1>1, <1>2 DEF SameUpTo, IsObject
<1>11. from[2] = [ok |-> TRUE, functions |-> SubSeq(fs, 1, k) \o nil]
  <2>1. Starts(fs, S)
    BY <1>1 DEF SameUpTo, IsText
  <2>2. GoesThrough(from, fs, S, k, Chunks)
    BY <1>2, <1>4, <1>5, <1>6, <1>10, <2>1, ReadAllLemma
  <2>3. from[S[k + 1]] = [ok |-> TRUE, functions |-> nil]
    BY <1>8, <1>9
  <2> QED BY <2>2, <2>3 DEF GoesThrough
<1>12. SubSeq(fs, 1, k) \o nil = SubSeq(fs, 1, k)
  <2>1. SubSeq(fs, 1, k) \in Seq(Chunks)
    BY <1>2, <1>5, <1>10
  <2> QED BY <1>9, <2>1, ConcatEmptySeq
<1>13. ReadFns(lines) = [ok |-> TRUE, functions |-> SubSeq(fs, 1, k)]
  BY <1>6, <1>11, <1>12
<1>14. PICK w : w = SubSeq(fs, 1, k)
  OBVIOUS
<1>15. ReadFns(lines) = [ok |-> TRUE, functions |-> w]
  BY <1>13, <1>14
<1>16. lines # <<>> /\ lines[1].word = "lumen-obj" /\ lines[1].nums[1] = p.main
  BY <1>4
<1>17. FromText(lines) = [ok |-> TRUE, functions |-> w, main |-> lines[1].nums[1]]
  BY <1>15, <1>16, FromTextLemma
<1>18. PICK r, main : r = FromText(lines) /\ main = lines[1].nums[1]
  OBVIOUS
<1>19. r = [ok |-> TRUE, functions |-> w, main |-> main]
  BY <1>17, <1>18
<1>20. r.functions = w /\ r.main = main
  BY <1>19
<1>21. r.functions = SubSeq(p.functions, 1, k)
  BY <1>1, <1>14, <1>20
<1>22. r.main = p.main
  BY <1>16, <1>18, <1>20
<1> QED BY <1>18, <1>21, <1>22 DEF ReadsTo

\* The lines up to a, and from b on.
Spliced(X, s, n, a, b, t) ==
  /\ t \in Seq(X) /\ Len(t) = a + (n - b + 1)
  /\ \A i \in 1 .. a : t[i] = s[i]
  /\ \A i \in 1 .. n - b + 1 : t[a + i] = s[b + i - 1]

LEMMA SpliceLemma ==
  ASSUME NEW X, NEW s \in Seq(X), NEW n, n = Len(s), NEW a \in 0 .. n, NEW b \in 1 .. n + 1,
         NEW t, t = SubSeq(s, 1, a) \o SubSeq(s, b, n)
  PROVE  Spliced(X, s, n, a, b, t)
<1>1. n \in Nat /\ n = Len(s)
  OBVIOUS
<1>2. PICK u, v : u = SubSeq(s, 1, a) /\ v = SubSeq(s, b, n)
  OBVIOUS
<1>3. u \in Seq(X) /\ Len(u) = a /\ \A i \in 1 .. a : u[i] = s[i]
  <2>1. \A i \in 1 .. a : s[i] \in X
    BY <1>1
  <2>2. /\ u \in Seq(X) /\ Len(u) = IF 1 <= a THEN a - 1 + 1 ELSE 0
        /\ \A i \in 1 .. a - 1 + 1 : u[i] = s[1 + i - 1]
    BY <1>1, <1>2, <2>1, SubSeqProperties
  <2>3. a - 1 + 1 = a /\ \A i \in 1 .. a : 1 + i - 1 = i
    BY <1>1
  <2> QED BY <1>1, <2>2, <2>3
<1>4. v \in Seq(X) /\ Len(v) = n - b + 1 /\ \A i \in 1 .. n - b + 1 : v[i] = s[b + i - 1]
  <2>1. \A i \in b .. n : s[i] \in X
    BY <1>1
  <2>2. /\ v \in Seq(X) /\ Len(v) = IF b <= n THEN n - b + 1 ELSE 0
        /\ \A i \in 1 .. n - b + 1 : v[i] = s[b + i - 1]
    BY <1>1, <1>2, <2>1, SubSeqProperties
  <2>3. ~ (b <= n) => n - b + 1 = 0
    BY <1>1
  <2> QED BY <2>2, <2>3
<1>5. /\ u \o v \in Seq(X) /\ Len(u \o v) = Len(u) + Len(v)
      /\ \A i \in 1 .. Len(u) : (u \o v)[i] = u[i]
      /\ \A i \in 1 .. Len(v) : (u \o v)[Len(u) + i] = v[i]
  <2>1. u \in Seq(X) /\ v \in Seq(X)
    BY <1>3, <1>4
  <2> QED BY <2>1, CatLemma
<1>6. t = u \o v
  BY <1>2
<1>7. t \in Seq(X) /\ Len(t) = a + (n - b + 1) /\ \A i \in 1 .. a : t[i] = s[i]
  BY <1>3, <1>4, <1>5, <1>6
<1>8. \A i \in 1 .. n - b + 1 : t[a + i] = s[b + i - 1]
  BY <1>3, <1>4, <1>5, <1>6
<1> QED BY <1>7, <1>8 DEF Spliced

\* The text, line by line: the first line, and then functions.
LEMMA TextLines ==
  ASSUME NEW p, IsObject(p), NEW text, NEW S, IsText(text, p, S), NEW len, len = Len(text)
  PROVE  /\ text \in Seq(ObjectLines) /\ len \in Nat /\ len >= 1
         /\ \A d \in 2 .. len : \E k \in 0 .. Len(p.functions) - 1 : S[k + 1] <= d /\ d < S[k + 2]
<1>1. PICK fs : fs = p.functions
  OBVIOUS
<1>2. PICK m \in Nat : m = Len(fs)
  BY <1>1 DEF IsObject
<1>3. text \in Seq(ObjectLines) /\ Starts(fs, S) /\ Len(text) = S[m + 1] - 1
  BY <1>1, <1>2 DEF IsText
<1>4. PICK z \in Nat : z = S[m + 1] /\ z >= 2
  <2>1. m + 1 \in 1 .. m + 1
    OBVIOUS
  <2> QED BY <1>2, <1>3, <2>1 DEF Starts
<1>5. len = z - 1
  BY <1>3, <1>4
<1>6. ASSUME NEW d \in 2 .. len
      PROVE  \E k \in 0 .. m - 1 : S[k + 1] <= d /\ d < S[k + 2]
  <2>1. d \in Nat /\ d >= 2 /\ d < S[m + 1]
    BY <1>4, <1>5
  <2> QED BY <1>2, <1>3, <2>1, FindLemma
<1> QED BY <1>1, <1>2, <1>3, <1>4, <1>5, <1>6

\* What is read is the program as far as it goes.
Intact(r, p) == r.main = p.main /\ r.functions = SubSeq(p.functions, 1, Len(r.functions))

LEMMA IntactLemma ==
  ASSUME NEW p, IsObject(p), NEW k \in 0 .. Len(p.functions), NEW r,
         ReadsTo(r, p, k)
  PROVE  Intact(r, p)
<1>1. PICK fs : fs = p.functions
  OBVIOUS
<1>2. PICK m \in Nat : m = Len(fs) /\ fs \in Seq(Chunks)
  BY <1>1 DEF IsObject
<1>3. \A i \in 1 .. k : fs[i] \in Chunks
  BY <1>1, <1>2
<1>4. Len(SubSeq(fs, 1, k)) = k
  <2>1. k \in Int /\ (1 <= k => k - 1 + 1 = k) /\ (~ (1 <= k) => k = 0)
    OBVIOUS
  <2>2. Len(SubSeq(fs, 1, k)) = IF 1 <= k THEN k - 1 + 1 ELSE 0
    BY <1>3, SubSeqProperties
  <2> QED BY <2>1, <2>2
<1> QED BY <1>1, <1>4 DEF Intact, ReadsTo

LEMMA NotAnObject ==
  ASSUME NEW lines, lines = <<>> \/ lines[1].word # "lumen-obj"
  PROVE  ~ FromText(lines).ok
<1>1. lines = <<>> \/ (lines # <<>> /\ lines[1].word # "lumen-obj")
  OBVIOUS
<1>2. FromText(lines) = [ok |-> FALSE, functions |-> <<>>, main |-> 0]
  BY <1>1 DEF FromText
<1> QED BY <1>2

LEMMA CutFileLemma ==
  ASSUME NEW p, IsObject(p), HasCode(p), NEW text, NEW S, IsText(text, p, S),
         NEW a \in 0 .. Len(text) - 1, NEW lines, lines = SubSeq(text, 1, a), FromText(lines).ok
  PROVE  Intact(FromText(lines), p)
<1>1. PICK len : len = Len(text)
  OBVIOUS
<1>2. /\ text \in Seq(ObjectLines) /\ len \in Nat
      /\ \A d \in 2 .. len : \E k \in 0 .. Len(p.functions) - 1 : S[k + 1] <= d /\ d < S[k + 2]
  BY <1>1, TextLines
<1>3. a \in 0 .. len - 1
  BY <1>1
<1>4. lines \in Seq(ObjectLines) /\ Len(lines) = a /\ \A i \in 1 .. a : lines[i] = text[i]
  <2>1. \A i \in 1 .. a : text[i] \in ObjectLines
    BY <1>1, <1>2, <1>3
  <2>2. /\ lines \in Seq(ObjectLines) /\ Len(lines) = IF 1 <= a THEN a - 1 + 1 ELSE 0
        /\ \A i \in 1 .. a - 1 + 1 : lines[i] = text[1 + i - 1]
    BY <2>1, SubSeqProperties
  <2>3. a - 1 + 1 = a /\ (~ (1 <= a) => a = 0) /\ \A i \in 1 .. a : 1 + i - 1 = i
    BY <1>3
  <2> QED BY <2>2, <2>3
<1>5. a # 0
  <2>1. a = 0 => lines = <<>>
    BY <1>4, EmptySeq
  <2> QED BY <2>1, NotAnObject
<1>6. PICK d \in 2 .. len : d = a + 1
  <2>1. a + 1 \in 2 .. len
    BY <1>2, <1>3, <1>5
  <2> QED BY <2>1
<1>7. PICK k \in 0 .. Len(p.functions) - 1 : S[k + 1] <= d /\ d < S[k + 2]
  BY <1>2
<1>8. a = d - 1 /\ d \in Nat
  BY <1>3, <1>6
<1>9. SameUpTo(p, text, S, k, d, lines)
  <2>1. d - 1 <= Len(lines) /\ \A i \in 1 .. d - 1 : lines[i] = text[i]
    BY <1>3, <1>4, <1>8
  <2> QED BY <1>4, <1>7, <1>8, <2>1 DEF SameUpTo
<1>10. Len(lines) = d - 1
  BY <1>4, <1>8
<1>11. ReadsTo(FromText(lines), p, k)
  BY <1>9, <1>10, CutLemma
<1>12. k \in 0 .. Len(p.functions)
  BY DEF IsObject
<1> QED BY <1>11, <1>12, IntactLemma

LEMMA LineLostLemma ==
  ASSUME NEW p, IsObject(p), HasCode(p), NEW text, NEW S, IsText(text, p, S),
         NEW d \in DOMAIN text, NEW lines,
         lines = SubSeq(text, 1, d - 1) \o SubSeq(text, d + 1, Len(text))
  PROVE  ~ FromText(lines).ok
<1>1. PICK len : len = Len(text)
  OBVIOUS
<1>2. /\ text \in Seq(ObjectLines) /\ len \in Nat /\ len >= 1
      /\ \A e \in 2 .. len : \E k \in 0 .. Len(p.functions) - 1 : S[k + 1] <= e /\ e < S[k + 2]
  BY <1>1, TextLines
<1>3. d \in 1 .. len
  BY <1>1, <1>2
<1>4. /\ lines \in Seq(ObjectLines) /\ Len(lines) = len - 1
      /\ \A i \in 1 .. d - 1 : lines[i] = text[i]
      /\ \A i \in d .. len - 1 : lines[i] = text[i + 1]
  <2>1. PICK a \in 0 .. len, b \in 1 .. len + 1 : a = d - 1 /\ b = d + 1
    <3>1. d - 1 \in 0 .. len /\ d + 1 \in 1 .. len + 1
      BY <1>2, <1>3
    <3> QED BY <3>1
  <2>2. /\ lines \in Seq(ObjectLines) /\ Len(lines) = a + (len - b + 1)
        /\ \A i \in 1 .. a : lines[i] = text[i]
        /\ \A i \in 1 .. len - b + 1 : lines[a + i] = text[b + i - 1]
    <3>1. lines = SubSeq(text, 1, a) \o SubSeq(text, b, len)
      BY <1>1, <2>1
    <3>2. Spliced(ObjectLines, text, len, a, b, lines)
      BY <1>1, <1>2, <3>1, SpliceLemma
    <3> QED BY <3>2 DEF Spliced
  <2>3. a + (len - b + 1) = len - 1
    BY <1>2, <1>3, <2>1, SMTT(30)
  <2>4. ASSUME NEW i \in d .. len - 1 PROVE lines[i] = text[i + 1]
    <3>1. PICK j : j = i - a
      OBVIOUS
    <3>2. d \in Int /\ len \in Int /\ i \in Int /\ d <= i /\ i <= len - 1 /\ d >= 1
      BY <1>2, <1>3
    <3>3. j = i - d + 1
      BY <2>1, <3>1, <3>2
    <3>4. j \in 1 .. len - b + 1
      BY <2>1, <3>2, <3>3, SMTT(30)
    <3>5. a = d - 1 /\ b = d + 1
      BY <2>1
    <3>6. a \in Int /\ b \in Int /\ j \in Int /\ b = a + 2
      BY <3>2, <3>3, <3>5, SMTT(30)
    <3>7. a + j = i
      BY <3>1, <3>2, <3>6
    <3>8. b + j - 1 = i + 1
      BY <3>2, <3>6, <3>7
    <3> QED BY <2>2, <3>4, <3>7, <3>8
  <2> QED BY <2>1, <2>2, <2>3, <2>4
<1>5. CASE d = 1
  <2>1. CASE len = 1
    <3>1. lines = <<>>
      BY <1>4, <2>1, EmptySeq
    <3> QED BY <3>1, NotAnObject
  <2>2. CASE len # 1
    <3>1. lines[1] = text[2]
      <4>1. 1 \in d .. len - 1 /\ 1 + 1 = 2
        BY <1>2, <1>5, <2>2
      <4> QED BY <1>4, <4>1
    <3>2. PICK k \in 0 .. Len(p.functions) - 1 : S[k + 1] <= 2
      <4>1. 2 \in 2 .. len
        BY <1>2, <2>2
      <4> QED BY <1>2, <4>1
    <3>3. S[k + 1] = 2
      <4>1. k + 1 \in 1 .. Len(p.functions) + 1
        BY DEF IsObject
      <4>2. PICK z \in Nat : z = S[k + 1] /\ z >= 2
        BY <4>1 DEF IsText, Starts
      <4> QED BY <3>2, <4>2
    <3>4. text[2].word = "fn"
      <4>1. PICK nc, n : OneFunction(text, S[k + 1], nc, n, S[k + 2] - 1)
        BY OneFunctionLemma
      <4> QED BY <3>3, <4>1 DEF OneFunction
    <3>5. lines[1].word # "lumen-obj"
      BY <3>1, <3>4
    <3> QED BY <3>5, NotAnObject
  <2> QED BY <2>1, <2>2
<1>6. CASE d # 1
  <2>1. d \in 2 .. len /\ d \in Nat
    BY <1>3, <1>6
  <2>2. PICK k \in 0 .. Len(p.functions) - 1 : S[k + 1] <= d /\ d < S[k + 2]
    BY <1>2, <2>1
  <2>3. SameUpTo(p, text, S, k, d, lines)
    <3>1. d - 1 <= Len(lines)
      BY <1>2, <1>4, <2>1, SMTT(30)
    <3> QED BY <1>4, <2>1, <2>2, <3>1 DEF SameUpTo
  <2>4. Len(lines) = Len(text) - 1 /\ \A i \in d .. Len(lines) : lines[i] = text[i + 1]
    BY <1>1, <1>4
  <2> QED BY <2>3, <2>4, RemovedLemma
<1> QED BY <1>5, <1>6

LEMMA LineTwiceLemma ==
  ASSUME NEW p, IsObject(p), HasCode(p), NEW text, NEW S, IsText(text, p, S),
         NEW d \in DOMAIN text, NEW lines,
         lines = SubSeq(text, 1, d) \o SubSeq(text, d, Len(text))
  PROVE  ~ FromText(lines).ok
<1>1. PICK len : len = Len(text)
  OBVIOUS
<1>2. /\ text \in Seq(ObjectLines) /\ len \in Nat /\ len >= 1
      /\ \A e \in 2 .. len : \E k \in 0 .. Len(p.functions) - 1 : S[k + 1] <= e /\ e < S[k + 2]
  BY <1>1, TextLines
<1>3. d \in 1 .. len
  BY <1>1, <1>2
<1>4. /\ lines \in Seq(ObjectLines) /\ Len(lines) = len + 1
      /\ \A i \in 1 .. d : lines[i] = text[i]
      /\ \A i \in d + 1 .. len + 1 : lines[i] = text[i - 1]
  <2>1. d \in 0 .. len /\ d \in 1 .. len + 1
    BY <1>2, <1>3
  <2>2. /\ lines \in Seq(ObjectLines) /\ Len(lines) = d + (len - d + 1)
        /\ \A i \in 1 .. d : lines[i] = text[i]
        /\ \A i \in 1 .. len - d + 1 : lines[d + i] = text[d + i - 1]
    <3>1. lines = SubSeq(text, 1, d) \o SubSeq(text, d, len)
      BY <1>1
    <3>2. Spliced(ObjectLines, text, len, d, d, lines)
      BY <1>1, <1>2, <2>1, <3>1, SpliceLemma
    <3> QED BY <3>2 DEF Spliced
  <2>3. d + (len - d + 1) = len + 1
    BY <1>2, <1>3
  <2>4. ASSUME NEW i \in d + 1 .. len + 1 PROVE lines[i] = text[i - 1]
    <3>1. PICK j : j = i - d
      OBVIOUS
    <3>2. j \in 1 .. len - d + 1 /\ d + j = i /\ d + j - 1 = i - 1
      BY <1>2, <1>3, <3>1, SMTT(30)
    <3> QED BY <2>2, <3>2
  <2> QED BY <2>2, <2>3, <2>4
<1>5. CASE d = 1
  <2>1. lines[1] = text[1] /\ lines[2] = text[1]
    <3>1. 1 \in 1 .. d /\ 2 \in d + 1 .. len + 1 /\ 2 - 1 = 1
      BY <1>2, <1>5
    <3> QED BY <1>4, <3>1
  <2>2. text[1].word = "lumen-obj"
    BY DEF IsText
  <2>3. ~ Readable(lines, 2)
    BY <2>1, <2>2 DEF Readable
  <2>4. lines # <<>> /\ Len(lines) >= 2
    BY <1>2, <1>4, EmptySeq
  <2>5. PICK from : Reads(lines, from) /\ ReadFns(lines) = from[2]
    BY <1>4, <2>4, ReadFnsLemma
  <2>6. from[2] = [ok |-> FALSE, functions |-> <<>>]
    <3>1. 2 \in 2 .. Len(lines) + 1 /\ ~ (2 > Len(lines))
      BY <1>2, <1>4
    <3> QED BY <2>3, <2>5, <3>1 DEF Reads
  <2>7. ~ ReadFns(lines).ok
    BY <2>5, <2>6
  <2> QED BY <2>1, <2>2, <2>4, <2>7 DEF FromText
<1>6. CASE d # 1
  <2>1. d \in 2 .. len /\ d \in Nat
    BY <1>3, <1>6
  <2>2. PICK k \in 0 .. Len(p.functions) - 1 : S[k + 1] <= d /\ d < S[k + 2]
    BY <1>2, <2>1
  <2>3. SameUpTo(p, text, S, k, d, lines)
    <3>1. d - 1 <= Len(lines) /\ \A i \in 1 .. d - 1 : lines[i] = text[i]
      BY <1>2, <1>4, <2>1, SMTT(30)
    <3> QED BY <1>4, <2>1, <2>2, <3>1 DEF SameUpTo
  <2>4. /\ Len(lines) = Len(text) + 1 /\ lines[d] = text[d]
        /\ \A i \in d + 1 .. Len(lines) : lines[i] = text[i - 1]
    BY <1>1, <1>4, <2>1
  <2> QED BY <2>3, <2>4, TwiceLemma
<1> QED BY <1>5, <1>6

\* A file that lost its end, lost a line or has one twice is refused, or what is read of it
\* is the first functions of the program, as they were (object.rs, from_text): no line is
\* taken for another function's, or code for a constant.
THEOREM DamageIsNoticed ==
  ASSUME NEW p, IsObject(p), HasCode(p), NEW lines \in Damaged(ToText(p)), FromText(lines).ok
  PROVE  Intact(FromText(lines), p)
<1>1. PICK text : text = ToText(p)
  OBVIOUS
<1>2. PICK S : IsText(text, p, S)
  BY <1>1, TextLemma
<1>3. ASSUME NEW d \in DOMAIN text,
             lines = SubSeq(text, 1, d - 1) \o SubSeq(text, d + 1, Len(text))
      PROVE  FALSE
  BY <1>2, <1>3, LineLostLemma
<1>4. ASSUME NEW d \in DOMAIN text, lines = SubSeq(text, 1, d) \o SubSeq(text, d, Len(text))
      PROVE  FALSE
  BY <1>2, <1>4, LineTwiceLemma
<1>5. PICK a \in 0 .. Len(text) - 1 : lines = SubSeq(text, 1, a)
  BY <1>1, <1>3, <1>4 DEF Damaged
<1> QED BY <1>2, <1>5, CutFileLemma
=============================================================================
