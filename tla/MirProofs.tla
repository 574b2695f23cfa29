------------------------------ MODULE MirProofs ------------------------------
(***************************************************************************)
(* Proofs about the passes over MIR (mir/opt.rs): each keeps a function    *)
(* well formed, so what the builder promises the interpreter gets, however *)
(* many turns the optimizer takes.  And about the interpreter that runs    *)
(* them (mir/interp.rs) and checks little of it: its frames fit the        *)
(* functions they run, its values keep their types, and no register is     *)
(* read before the call has assigned it.  And about both together: what a  *)
(* pass puts in the place of something has its value, wherever a run is.   *)
(*                                                                         *)
(* Of dominance only one thing is used: the blocks that a walk from the    *)
(* entry meets, when it does not enter the block of a definition, are the  *)
(* least set that holds the entry and that no other jump leaves.  A pass   *)
(* keeps a definition dominating by not letting the walk get further.      *)
(***************************************************************************)
EXTENDS Engines, RuntimeProofs, FiniteSetTheorems

----------------------------------------------------------------------------
(* Reachability.                                                           *)

\* The jumps stay inside the function.
Framed(f) ==
  /\ Len(f.blocks) \in Nat /\ f.entry \in BlockIds(f)
  /\ \A b \in BlockIds(f) : Exits(f, b) \subseteq BlockIds(f)

\* What a walk from the entry meets that does not enter the blocks A.
From(f, A) == ReachableFrom(f, {f.entry}, A)

\* A set that holds the entry and that only jumps into A leave.
Covers(f, C, A) ==
  /\ {f.entry} \ A \subseteq C
  /\ \A b \in C : Exits(f, b) \ A \subseteq C

Onward(f, A, R) == R \cup ((UNION {Exits(f, b) : b \in R}) \ A)

LEMMA OnwardLemma ==
  ASSUME NEW f, NEW A, NEW R
  PROVE  \A x : x \in Onward(f, A, R) <=> x \in R \/ (x \notin A /\ \E b \in R : x \in Exits(f, b))
<1> TAKE x
<1>1. ASSUME x \in UNION {Exits(f, b) : b \in R} PROVE \E b \in R : x \in Exits(f, b)
  <2>1. PICK y \in {Exits(f, b) : b \in R} : x \in y
    BY <1>1
  <2> QED BY <2>1
<1>2. ASSUME NEW b \in R, x \in Exits(f, b) PROVE x \in UNION {Exits(f, c) : c \in R}
  <2>1. Exits(f, b) \in {Exits(f, c) : c \in R}
    OBVIOUS
  <2> QED BY <1>2, <2>1
<1> DEFINE U == UNION {Exits(f, b) : b \in R}
<1>3. Onward(f, A, R) = R \cup (U \ A)
  BY DEF Onward
<1>4. x \in U <=> \E b \in R : x \in Exits(f, b)
  BY <1>1, <1>2
<1> HIDE DEF U
<1> QED BY <1>3, <1>4

\* The walk, by its length.
Walks(f, A, w) ==
  /\ w \in [0 .. Len(f.blocks) -> SUBSET (BlockIds(f) \ A)]
  /\ w[0] = {f.entry} \ A
  /\ \A d \in 1 .. Len(f.blocks) : w[d] = Onward(f, A, w[d - 1])
  /\ From(f, A) = w[Len(f.blocks)]

LEMMA WalksExist ==
  ASSUME NEW f, Framed(f), NEW A
  PROVE  \E w : Walks(f, A, w)
<1>1. PICK n, S, g :
        /\ n = Len(f.blocks) /\ S = SUBSET (BlockIds(f) \ A)
        /\ g = [q \in (1 .. n) \X S |-> Onward(f, A, q[2])]
  OBVIOUS
<1>2. n \in Nat
  BY <1>1 DEF Framed
<1>3. PICK x \in S : x = {f.entry} \ A
  BY <1>1 DEF Framed
<1>4. g \in [(1 .. n) \X S -> S]
  <2>1. ASSUME NEW q \in (1 .. n) \X S PROVE g[q] \in S
    <3>1. q[2] \subseteq BlockIds(f) \ A
      BY <1>1
    <3>2. Onward(f, A, q[2]) \subseteq BlockIds(f) \ A
      BY <3>1, OnwardLemma DEF Framed
    <3> QED BY <1>1, <3>2
  <2> QED BY <1>1, <2>1
<1>5. PICK h : Loops(n, S, x, g, h)
  BY <1>2, <1>3, <1>4, LoopExists
<1>6. \A k \in 1 .. n : h[k] = Onward(f, A, h[k - 1])
  BY <1>1, <1>5 DEF Loops
<1>7. h = [d \in 0 .. n |-> IF d = 0 THEN {f.entry} \ A
                            ELSE Onward(f, A, h[d - 1])]
  <2>1. \A d \in 0 .. n : h[d] = IF d = 0 THEN {f.entry} \ A
                                 ELSE Onward(f, A, h[d - 1])
    BY <1>2, <1>3, <1>5, <1>6 DEF Loops
  <2> QED BY <1>5, <2>1 DEF Loops
<1>8. PICK w :
        /\ w = [d \in 0 .. n |-> IF d = 0 THEN {f.entry} \ A
                                 ELSE Onward(f, A, w[d - 1])]
        /\ From(f, A) = w[n]
  BY <1>1, <1>7 DEF From, ReachableFrom, Onward
<1>9. w[0] = {f.entry} \ A
  BY <1>2, <1>8
<1>10. ASSUME NEW d \in 1 .. n PROVE w[d] = Onward(f, A, w[d - 1])
  <2>1. d \in 0 .. n /\ d # 0
    BY <1>2
  <2> QED BY <1>8, <2>1
<1>11. w \in [0 .. n -> S]
  <2>1. PICK G : G = {k \in 0 .. n : w[k] \in S}
    OBVIOUS
  <2>2. ASSUME NEW k \in 1 .. n, k - 1 \in G PROVE k \in G
    <3>1. w[k - 1] \in S /\ <<k, w[k - 1]>> \in (1 .. n) \X S
      BY <2>1, <2>2
    <3>2. w[k] = g[<<k, w[k - 1]>>]
      BY <1>1, <1>10, <3>1
    <3> QED BY <1>4, <2>1, <3>1, <3>2
  <2>3. 0 .. n \subseteq G
    <3>1. 0 \in G
      <4>1. 0 \in 0 .. n /\ w[0] \in S
        BY <1>2, <1>3, <1>9
      <4> QED BY <2>1, <4>1
    <3> QED BY <1>2, <2>2, <3>1, CountingLemma
  <2> QED BY <1>8, <2>1, <2>3
<1> QED BY <1>1, <1>8, <1>9, <1>10, <1>11 DEF Walks

\* The walk stays inside any set that covers it.
LEMMA LeastCover ==
  ASSUME NEW f, Framed(f), NEW A, NEW C, Covers(f, C, A)
  PROVE  From(f, A) \subseteq C
<1>1. PICK w : Walks(f, A, w)
  BY WalksExist
<1>2. PICK n \in Nat : n = Len(f.blocks)
  BY DEF Framed
<1>3. PICK G : G = {k \in 0 .. n : w[k] \subseteq C}
  OBVIOUS
<1>4. 0 \in G
  BY <1>1, <1>2, <1>3 DEF Walks, Covers
<1>5. ASSUME NEW k \in 1 .. n, k - 1 \in G PROVE k \in G
  <2>1. w[k] = Onward(f, A, w[k - 1])
    BY <1>1, <1>2 DEF Walks
  <2>2. w[k - 1] \subseteq C
    BY <1>3, <1>5
  <2>3. Onward(f, A, w[k - 1]) \subseteq C
    BY <2>2, OnwardLemma DEF Covers
  <2> QED BY <1>3, <2>1, <2>3
<1>6. 0 .. n \subseteq G
  BY <1>4, <1>5, CountingLemma
<1>7. n \in G
  BY <1>6
<1> QED BY <1>1, <1>2, <1>3, <1>7 DEF Walks

\* As many steps as there are blocks are enough to get everywhere.
LEMMA FromCovers ==
  ASSUME NEW f, Framed(f), NEW A
  PROVE  Covers(f, From(f, A), A) /\ From(f, A) \subseteq BlockIds(f) \ A
<1>1. PICK w : Walks(f, A, w)
  BY WalksExist
<1>2. PICK n \in Nat : n = Len(f.blocks) /\ BlockIds(f) = 0 .. n - 1
  BY DEF Framed, BlockIds
<1>3. IsFiniteSet(BlockIds(f)) /\ Cardinality(BlockIds(f)) = n
  <2>1. IsFiniteSet(0 .. n - 1) /\ Cardinality(0 .. n - 1) = IF 0 > n - 1 THEN 0 ELSE n - 1 - 0 + 1
    BY FS_Interval
  <2> QED BY <1>2, <2>1
<1>4. \A k \in 0 .. n : w[k] \subseteq BlockIds(f) \ A
  BY <1>1, <1>2 DEF Walks
<1>5. \A k \in 0 .. n : /\ IsFiniteSet(w[k]) /\ Cardinality(w[k]) \in Nat
                        /\ Cardinality(w[k]) <= n
  <2> TAKE k \in 0 .. n
  <2>1. w[k] \in SUBSET BlockIds(f)
    BY <1>4
  <2>2. IsFiniteSet(w[k]) /\ Cardinality(w[k]) <= n
    BY <1>3, <2>1, FS_Subset
  <2> QED BY <2>2, FS_CardinalityType
<1> DEFINE Done(k)  == \A b \in w[k] : Exits(f, b) \ A \subseteq w[k]
           Reached(k) == Done(k) \/ Cardinality(w[k]) >= k + 1
<1>6. \A k \in 1 .. n : w[k] = Onward(f, A, w[k - 1])
  BY <1>1, <1>2 DEF Walks
<1>7. PICK G : G = {k \in 0 .. n : Reached(k)}
  OBVIOUS
<1>8. 0 \in G
  <2>1. CASE w[0] = {}
    BY <1>2, <1>7, <2>1
  <2>2. CASE w[0] # {}
    <3>1. PICK x : x \in w[0]
      BY <2>2
    <3>2. Cardinality({x}) = 1 /\ {x} \in SUBSET w[0]
      BY <3>1, FS_Singleton
    <3>3. 1 <= Cardinality(w[0])
      BY <1>5, <3>2, FS_Subset
    <3> QED BY <1>7, <3>3
  <2> QED BY <2>1, <2>2
<1>9. ASSUME NEW k \in 1 .. n, k - 1 \in G PROVE k \in G
  <2>1. CASE Done(k - 1)
    <3>1. w[k] = w[k - 1]
      <4>1. \A x : x \in w[k] <=> x \in w[k - 1]
        BY <1>6, <2>1, OnwardLemma
      <4>2. w[k - 1] \subseteq BlockIds(f) /\ w[k] \subseteq BlockIds(f)
        BY <1>4
      <4> QED BY <4>1, <4>2
    <3> QED BY <1>7, <2>1, <3>1
  <2>2. CASE ~ Done(k - 1)
    <3>1. PICK x : x \in w[k] /\ x \notin w[k - 1]
      BY <1>6, <2>2, OnwardLemma
    <3>2. PICK S : S = w[k - 1]
      OBVIOUS
    <3>3. IsFiniteSet(S) /\ Cardinality(S) >= (k - 1) + 1 /\ Cardinality(S) \in Nat
      BY <1>5, <1>7, <1>9, <2>2, <3>2
    <3>4. Cardinality(S \cup {x}) = Cardinality(S) + 1
      BY <3>1, <3>2, <3>3, FS_AddElement
    <3>5. S \cup {x} \in SUBSET w[k]
      BY <1>6, <3>1, <3>2, OnwardLemma
    <3>6. Cardinality(S \cup {x}) <= Cardinality(w[k])
      BY <1>5, <3>5, FS_Subset
    <3>7. Cardinality(w[k]) >= k + 1
      BY <1>5, <3>3, <3>4, <3>6
    <3> QED BY <1>7, <3>7
  <2> QED BY <2>1, <2>2
<1>10. n \in G
  <2>1. 0 .. n \subseteq G
    BY <1>8, <1>9, CountingLemma
  <2> QED BY <2>1
<1>11. Done(n)
  <2>1. ~ (Cardinality(w[n]) >= n + 1)
    BY <1>5
  <2> QED BY <1>7, <1>10, <2>1
<1>12. {f.entry} \ A \subseteq w[n]
  <2> DEFINE H == {k \in 0 .. n : {f.entry} \ A \subseteq w[k]}
  <2>1. 0 \in H
    BY <1>1, <1>2 DEF Walks
  <2>2. \A k \in 1 .. n : k - 1 \in H => k \in H
    BY <1>6, OnwardLemma
  <2>3. 0 .. n \subseteq H
    <3> HIDE DEF H
    <3> QED BY <2>1, <2>2, CountingLemma
  <2> QED BY <2>3
<1>13. From(f, A) = w[n]
  BY <1>1, <1>2 DEF Walks
<1> QED BY <1>4, <1>11, <1>12, <1>13 DEF Covers

\* Who never gets to a gets as far without entering it.
LEMMA AvoidLemma ==
  ASSUME NEW f, Framed(f), NEW A, NEW a, a \notin From(f, A)
  PROVE  From(f, A) \subseteq From(f, {a})
<1>1. PICK C, F, G : F = From(f, A) /\ G = From(f, {a}) /\ C = F \cap G
  OBVIOUS
<1>2. Covers(f, F, A) /\ Covers(f, G, {a}) /\ a \notin F
  BY <1>1, FromCovers
<1>3. {f.entry} \ A \subseteq C
  BY <1>1, <1>2 DEF Covers
<1>4. ASSUME NEW b \in C PROVE Exits(f, b) \ A \subseteq C
  <2>1. Exits(f, b) \ A \subseteq F /\ Exits(f, b) \ {a} \subseteq G
    BY <1>1, <1>2 DEF Covers
  <2> QED BY <1>1, <1>2, <2>1
<1>5. Covers(f, C, A)
  BY <1>3, <1>4 DEF Covers
<1> QED BY <1>1, <1>5, LeastCover

LEMMA DominatesLemma ==
  ASSUME NEW f, NEW d, NEW b, NEW k
  PROVE  Dominates(f, d, b, k) <=> (d[1] = b /\ d[2] < k) \/ (d[1] # b /\ b \notin From(f, {d[1]}))
BY DEF Dominates, From

\* Of two blocks that are reached, each cannot stand before the other.
LEMMA BeforeLemma ==
  ASSUME NEW f, Framed(f), NEW a, NEW b \in Reachable(f), a # b, b \notin From(f, {a})
  PROVE  a \in From(f, {b})
<1> SUFFICES ASSUME a \notin From(f, {b}) PROVE FALSE
  OBVIOUS
<1>1. PICK C, F, G : F = From(f, {a}) /\ G = From(f, {b}) /\ C = F \cap G
  OBVIOUS
<1>2. Covers(f, F, {a}) /\ Covers(f, G, {b})
  BY <1>1, FromCovers
<1>3. f.entry \in C
  BY <1>1, <1>2 DEF Covers
<1>4. ASSUME NEW c \in C PROVE Exits(f, c) \subseteq C
  <2>1. Exits(f, c) \ {a} \subseteq F /\ Exits(f, c) \ {b} \subseteq G
    BY <1>1, <1>2 DEF Covers
  <2> QED BY <1>1, <2>1
<1>5. Covers(f, C, {})
  BY <1>3, <1>4 DEF Covers
<1>6. Reachable(f) \subseteq C
  BY <1>5, LeastCover DEF Reachable, From
<1> QED BY <1>1, <1>6

LEMMA DominatesTransitively ==
  ASSUME NEW f, Framed(f), NEW d, d[2] \in Int, NEW e, e[2] \in Int, NEW b \in Reachable(f),
         NEW k \in Int, Dominates(f, e, d[1], d[2]), Dominates(f, d, b, k)
  PROVE  Dominates(f, e, b, k)
<1>0. (e[1] = d[1] /\ e[2] < d[2]) \/ (e[1] # d[1] /\ d[1] \notin From(f, {e[1]}))
  BY DominatesLemma
<1>1. CASE d[1] = b /\ d[2] < k
  <2>1. (e[1] = b /\ e[2] < k) \/ (e[1] # b /\ b \notin From(f, {e[1]}))
    BY <1>0, <1>1
  <2> QED BY <2>1, DominatesLemma
<1>2. CASE d[1] # b /\ b \notin From(f, {d[1]})
  <2>1. CASE e[1] = d[1]
    BY <1>2, <2>1, DominatesLemma
  <2>2. CASE e[1] # d[1] /\ d[1] \notin From(f, {e[1]})
    <3>1. From(f, {e[1]}) \subseteq From(f, {d[1]})
      BY <2>2, AvoidLemma
    <3>2. e[1] # b
      BY <1>2, <2>2, BeforeLemma
    <3> QED BY <1>2, <3>1, <3>2, DominatesLemma
  <2> QED BY <1>0, <2>1, <2>2, DominatesLemma
<1> QED BY <1>1, <1>2, DominatesLemma

----------------------------------------------------------------------------
(* Definitions and reads.                                                  *)

InstAt(f, b, k) == BlockOf(f, b).insts[k]

LEMMA DefinitionsLemma ==
  ASSUME NEW f, NEW r
  PROVE  \A d : d \in Definitions(f, r) <=>
                  \E b \in BlockIds(f) : \E k \in DOMAIN BlockOf(f, b).insts :
                    d = <<b, k>> /\ AssignsTo(InstAt(f, b, k), r)
<1> TAKE d
<1> DEFINE In(b) == {<<b, k>> : k \in {k \in DOMAIN BlockOf(f, b).insts :
                                         AssignsTo(BlockOf(f, b).insts[k], r)}}
<1>1. \A b : d \in In(b) <=> \E k \in DOMAIN BlockOf(f, b).insts :
                               d = <<b, k>> /\ AssignsTo(InstAt(f, b, k), r)
  BY DEF InstAt
<1>2. Definitions(f, r) = UNION {In(b) : b \in BlockIds(f)}
  BY DEF Definitions
<1> HIDE DEF In
<1>3. ASSUME d \in UNION {In(b) : b \in BlockIds(f)} PROVE \E b \in BlockIds(f) : d \in In(b)
  <2>1. PICK y \in {In(b) : b \in BlockIds(f)} : d \in y
    BY <1>3
  <2> QED BY <2>1
<1>4. ASSUME NEW b \in BlockIds(f), d \in In(b) PROVE d \in UNION {In(c) : c \in BlockIds(f)}
  <2>1. In(b) \in {In(c) : c \in BlockIds(f)}
    OBVIOUS
  <2> QED BY <1>4, <2>1
<1> QED BY <1>1, <1>2, <1>3, <1>4

\* The instruction or, last, the terminator: what the operand o is read by.
Operands(f, b, k) ==
  IF k \in DOMAIN BlockOf(f, b).insts THEN InstAt(f, b, k).args ELSE <<BlockOf(f, b).term.arg>>

LEMMA ReadAtLemma ==
  ASSUME NEW f, NEW b, NEW k
  PROVE  \A r : r \in ReadAt(f, b, k) <=> \E j \in DOMAIN Operands(f, b, k) :
                  IsReg(Operands(f, b, k)[j]) /\ r = Operands(f, b, k)[j].v
<1> DEFINE as == Operands(f, b, k)
<1>1. ReadAt(f, b, k) = RegsOf(as)
  BY DEF ReadAt, Operands, InstAt
<1> HIDE DEF as
<1>2. \A r : r \in RegsOf(as) <=> \E j \in DOMAIN as : IsReg(as[j]) /\ r = as[j].v
  BY DEF RegsOf
<1> QED BY <1>1, <1>2 DEF as

\* The register r is assigned wherever position k of block b is reached.
Assigned(f, r, b, k) ==
  \E c \in BlockIds(f) : \E j \in DOMAIN BlockOf(f, c).insts :
    AssignsTo(InstAt(f, c, j), r) /\ Dominates(f, <<c, j>>, b, k)

\* Single assignment, without the set of all definitions.
AssignsOnce(f) ==
  \A b, c \in BlockIds(f) :
    \A k \in DOMAIN BlockOf(f, b).insts, j \in DOMAIN BlockOf(f, c).insts :
      /\ Assigns(InstAt(f, b, k)) => InstAt(f, b, k).dst \in 0 .. f.regs - 1
      /\ Assigns(InstAt(f, b, k)) /\ Assigns(InstAt(f, c, j)) /\ InstAt(f, b, k).dst = InstAt(f, c, j).dst
           => b = c /\ k = j

JumpsInside(f) ==
  /\ f.entry \in BlockIds(f)
  /\ \A b \in BlockIds(f) : /\ BlockOf(f, b).term.kind # "Unreachable"
                            /\ Exits(f, b) \subseteq BlockIds(f)

ReadsAssigned(f) ==
  \A b \in Reachable(f) : \A k \in 1 .. Len(BlockOf(f, b).insts) + 1 :
    \A r \in ReadAt(f, b, k) : Assigned(f, r, b, k)

LEMMA WellFormedLemma ==
  ASSUME NEW f
  PROVE  WellFormed(f) <=> JumpsInside(f) /\ AssignsOnce(f) /\ ReadsAssigned(f)
<1>1. ASSUME NEW r, NEW b, NEW k
      PROVE  (\E d \in Definitions(f, r) : Dominates(f, d, b, k)) <=> Assigned(f, r, b, k)
  <2>1. ASSUME NEW d \in Definitions(f, r), Dominates(f, d, b, k) PROVE Assigned(f, r, b, k)
    <3>1. PICK c, j : /\ c \in BlockIds(f) /\ j \in DOMAIN BlockOf(f, c).insts
                      /\ d = <<c, j>> /\ AssignsTo(InstAt(f, c, j), r)
      BY DefinitionsLemma
    <3> QED BY <2>1, <3>1 DEF Assigned
  <2>2. ASSUME Assigned(f, r, b, k) PROVE \E d \in Definitions(f, r) : Dominates(f, d, b, k)
    <3>1. PICK c, j : /\ c \in BlockIds(f) /\ j \in DOMAIN BlockOf(f, c).insts
                      /\ AssignsTo(InstAt(f, c, j), r) /\ Dominates(f, <<c, j>>, b, k)
      BY <2>2 DEF Assigned
    <3>2. <<c, j>> \in Definitions(f, r)
      BY <3>1, DefinitionsLemma
    <3> QED BY <3>1, <3>2
  <2> QED BY <2>1, <2>2
<1>2. ReadsAssigned(f) <=>
        \A b \in Reachable(f) : \A k \in 1 .. Len(BlockOf(f, b).insts) + 1 :
          \A r \in ReadAt(f, b, k) : \E d \in Definitions(f, r) : Dominates(f, d, b, k)
  BY <1>1 DEF ReadsAssigned
<1>3. AssignsOnce(f) <=>
        /\ \A b \in BlockIds(f) : \A k \in DOMAIN BlockOf(f, b).insts :
             Assigns(BlockOf(f, b).insts[k]) => BlockOf(f, b).insts[k].dst \in 0 .. f.regs - 1
        /\ \A r \in 0 .. f.regs - 1 : \A d, e \in Definitions(f, r) : d = e
  <2> DEFINE Ranged == \A b \in BlockIds(f) : \A k \in DOMAIN BlockOf(f, b).insts :
                         Assigns(BlockOf(f, b).insts[k]) => BlockOf(f, b).insts[k].dst \in 0 .. f.regs - 1
             Once == \A r \in 0 .. f.regs - 1 : \A d, e \in Definitions(f, r) : d = e
  <2>1. ASSUME AssignsOnce(f) PROVE Ranged
    BY <2>1 DEF AssignsOnce, InstAt
  <2>2. ASSUME AssignsOnce(f) PROVE Once
    <3> TAKE r \in 0 .. f.regs - 1
    <3> TAKE d, e \in Definitions(f, r)
    <3>1. PICK b, k : /\ b \in BlockIds(f) /\ k \in DOMAIN BlockOf(f, b).insts
                      /\ d = <<b, k>> /\ AssignsTo(InstAt(f, b, k), r)
      BY DefinitionsLemma
    <3>2. PICK c, j : /\ c \in BlockIds(f) /\ j \in DOMAIN BlockOf(f, c).insts
                      /\ e = <<c, j>> /\ AssignsTo(InstAt(f, c, j), r)
      BY DefinitionsLemma
    <3> QED BY <2>2, <3>1, <3>2 DEF AssignsOnce, AssignsTo
  <2>3. ASSUME Ranged, Once,
               NEW b \in BlockIds(f), NEW c \in BlockIds(f),
               NEW k \in DOMAIN BlockOf(f, b).insts, NEW j \in DOMAIN BlockOf(f, c).insts,
               Assigns(InstAt(f, b, k)), Assigns(InstAt(f, c, j)),
               InstAt(f, b, k).dst = InstAt(f, c, j).dst
        PROVE  b = c /\ k = j
    <3>1. PICK r : r = InstAt(f, b, k).dst
      OBVIOUS
    <3>2. r \in 0 .. f.regs - 1
      BY <2>3, <3>1 DEF InstAt
    <3>3. <<b, k>> \in Definitions(f, r) /\ <<c, j>> \in Definitions(f, r)
      BY <2>3, <3>1, DefinitionsLemma DEF AssignsTo
    <3> QED BY <2>3, <3>2, <3>3
  <2> QED BY <2>1, <2>2, <2>3 DEF AssignsOnce, InstAt
<1> QED BY <1>2, <1>3 DEF WellFormed, JumpsInside

----------------------------------------------------------------------------
(* What a pass has to show that keeps the blocks where they are.           *)

IsList(s) == Len(s) \in Nat /\ DOMAIN s = 1 .. Len(s)

\* The instructions of the block to are some of those of from, in order, each at its
\* place in `at', and assign what these assign.  The terminators stand last.
Moved(from, to, at) ==
  /\ IsList(from.insts) /\ IsList(to.insts)
  /\ at[Len(to.insts) + 1] = Len(from.insts) + 1
  /\ \A k \in DOMAIN to.insts :
       /\ at[k] \in DOMAIN from.insts
       /\ Assigns(to.insts[k]) <=> Assigns(from.insts[at[k]])
       /\ to.insts[k].dst = from.insts[at[k]].dst
  /\ \A j, k \in 1 .. Len(to.insts) + 1 : j < k => at[j] < at[k]

\* No walk through g gets further than through f.
NoFurther(f, g) ==
  /\ Reachable(g) \subseteq Reachable(f)
  /\ \A a \in BlockIds(f) : BlockOf(f, a).insts # <<>> => From(g, {a}) \subseteq From(f, {a})

\* What is read in g is assigned in g, at a place that in f dominated the one where
\* it is read.
ReadsMoved(f, g, at) ==
  \A b \in Reachable(g) : \A k \in 1 .. Len(BlockOf(g, b).insts) + 1 :
    \A r \in ReadAt(g, b, k) :
      \E c \in BlockIds(f) : \E j \in DOMAIN BlockOf(g, c).insts :
        AssignsTo(InstAt(g, c, j), r) /\ Dominates(f, <<c, at[c][j]>>, b, at[b][k])

Kept(f, g, at) ==
  /\ BlockIds(g) = BlockIds(f) /\ g.regs = f.regs
  /\ \A b \in BlockIds(f) : Moved(BlockOf(f, b), BlockOf(g, b), at[b])

LEMMA PlaceLemma ==
  ASSUME NEW from, NEW to, NEW at, Moved(from, to, at),
         NEW j \in 1 .. Len(to.insts) + 1, NEW k \in 1 .. Len(to.insts) + 1
  PROVE  /\ at[k] \in 1 .. Len(from.insts) + 1 /\ at[k] \in Int
         /\ at[j] < at[k] => j < k
         /\ at[j] = at[k] => j = k
<1>1. \A i \in 1 .. Len(to.insts) + 1 : at[i] \in 1 .. Len(from.insts) + 1
  <2>1. Len(to.insts) \in Nat /\ DOMAIN to.insts = 1 .. Len(to.insts)
        /\ Len(from.insts) \in Nat /\ DOMAIN from.insts = 1 .. Len(from.insts)
    BY DEF Moved, IsList
  <2>2. \A i \in 1 .. Len(to.insts) : at[i] \in 1 .. Len(from.insts)
    BY <2>1 DEF Moved
  <2>3. at[Len(to.insts) + 1] = Len(from.insts) + 1
    BY DEF Moved
  <2>4. ASSUME NEW i \in 1 .. Len(to.insts) + 1 PROVE at[i] \in 1 .. Len(from.insts) + 1
    <3>1. i \in 1 .. Len(to.insts) \/ i = Len(to.insts) + 1
      BY <2>1
    <3> QED BY <2>1, <2>2, <2>3, <3>1
  <2> QED BY <2>4
<1>2. \A x, y \in 1 .. Len(to.insts) + 1 : x < y => at[x] < at[y]
  BY DEF Moved
<1>3. Len(to.insts) \in Nat /\ Len(from.insts) \in Nat
  BY DEF Moved, IsList
<1>4. j \in Int /\ k \in Int /\ at[j] \in Int /\ at[k] \in Int
  BY <1>1, <1>3
<1>5. j < k \/ j = k \/ k < j
  BY <1>4
<1> QED BY <1>1, <1>2, <1>4, <1>5

LEMMA PassLemma ==
  ASSUME NEW f, AssignsOnce(f), NEW g, JumpsInside(g), NEW at, Kept(f, g, at),
         NoFurther(f, g), ReadsMoved(f, g, at)
  PROVE  WellFormed(g)
<1>1. BlockIds(g) = BlockIds(f) /\ g.regs = f.regs
      /\ \A b \in BlockIds(f) : Moved(BlockOf(f, b), BlockOf(g, b), at[b])
  BY DEF Kept
<1>2. ASSUME NEW b \in BlockIds(f), NEW k \in DOMAIN BlockOf(g, b).insts
      PROVE  /\ k \in 1 .. Len(BlockOf(g, b).insts) + 1
             /\ at[b][k] \in DOMAIN BlockOf(f, b).insts
             /\ Assigns(InstAt(g, b, k)) <=> Assigns(InstAt(f, b, at[b][k]))
             /\ InstAt(g, b, k).dst = InstAt(f, b, at[b][k]).dst
  <2>1. Moved(BlockOf(f, b), BlockOf(g, b), at[b])
    BY <1>1
  <2> QED BY <2>1 DEF Moved, IsList, InstAt
<1>3. AssignsOnce(g)
  <2> SUFFICES ASSUME NEW b \in BlockIds(f), NEW c \in BlockIds(f),
                      NEW k \in DOMAIN BlockOf(g, b).insts, NEW j \in DOMAIN BlockOf(g, c).insts
               PROVE  /\ Assigns(InstAt(g, b, k)) => InstAt(g, b, k).dst \in 0 .. f.regs - 1
                      /\ Assigns(InstAt(g, b, k)) /\ Assigns(InstAt(g, c, j))
                           /\ InstAt(g, b, k).dst = InstAt(g, c, j).dst => b = c /\ k = j
    BY <1>1 DEF AssignsOnce
  <2>1. Assigns(InstAt(g, b, k)) => InstAt(g, b, k).dst \in 0 .. f.regs - 1
    BY <1>2 DEF AssignsOnce
  <2>2. ASSUME Assigns(InstAt(g, b, k)), Assigns(InstAt(g, c, j)),
               InstAt(g, b, k).dst = InstAt(g, c, j).dst
        PROVE  b = c /\ k = j
    <3>1. b = c /\ at[b][k] = at[c][j]
      BY <1>2, <2>2 DEF AssignsOnce
    <3>2. Moved(BlockOf(f, b), BlockOf(g, b), at[b])
      BY <1>1
    <3>3. k \in 1 .. Len(BlockOf(g, b).insts) + 1 /\ j \in 1 .. Len(BlockOf(g, b).insts) + 1
      BY <1>2, <3>1
    <3> QED BY <3>1, <3>2, <3>3, PlaceLemma
  <2> QED BY <2>1, <2>2
<1>4. ASSUME NEW b \in Reachable(g), NEW k \in 1 .. Len(BlockOf(g, b).insts) + 1,
             NEW r \in ReadAt(g, b, k)
      PROVE  Assigned(g, r, b, k)
  <2>1. PICK c, j : /\ c \in BlockIds(f) /\ j \in DOMAIN BlockOf(g, c).insts
                    /\ AssignsTo(InstAt(g, c, j), r)
                    /\ Dominates(f, <<c, at[c][j]>>, b, at[b][k])
    BY DEF ReadsMoved
  <2>2. Dominates(g, <<c, j>>, b, k)
    <3>1. CASE c = b /\ at[c][j] < at[b][k]
      <4>1. Moved(BlockOf(f, b), BlockOf(g, b), at[b])
        BY <1>1, <2>1, <3>1
      <4>2. j \in 1 .. Len(BlockOf(g, b).insts) + 1
        BY <1>2, <2>1, <3>1
      <4>3. j < k
        BY <3>1, <4>1, <4>2, PlaceLemma
      <4> QED BY <3>1, <4>3, DominatesLemma
    <3>2. CASE c # b /\ b \notin From(f, {c})
      <4>1. at[c][j] \in DOMAIN BlockOf(f, c).insts
        BY <1>2, <2>1
      <4>2. BlockOf(f, c).insts # <<>>
        BY <4>1
      <4>3. b \notin From(g, {c})
        BY <2>1, <3>2, <4>2 DEF NoFurther
      <4> QED BY <3>2, <4>3, DominatesLemma
    <3> QED BY <2>1, <3>1, <3>2, DominatesLemma
  <2> QED BY <1>1, <2>1, <2>2 DEF Assigned
<1> QED BY <1>3, <1>4, WellFormedLemma DEF ReadsAssigned

\* A jump of g is one of f, or two of them through a block without instructions.
Shortens(f, g) ==
  \A b \in BlockIds(f) : \A x \in Exits(g, b) :
    \/ x \in Exits(f, b)
    \/ \E t \in Exits(f, b) : x \in Exits(f, t) /\ BlockOf(f, t).insts = <<>>

LEMMA NoFurtherLemma ==
  ASSUME NEW f, Framed(f), NEW g, Framed(g), BlockIds(g) = BlockIds(f), g.entry = f.entry,
         Shortens(f, g)
  PROVE  NoFurther(f, g)
<1>1. ASSUME NEW A, \A a \in A : a \in BlockIds(f) /\ BlockOf(f, a).insts # <<>>
      PROVE  From(g, A) \subseteq From(f, A)
  <2>1. PICK F : F = From(f, A)
    OBVIOUS
  <2>2. Covers(f, F, A) /\ F \subseteq BlockIds(f)
    BY <2>1, FromCovers
  <2>3. ASSUME NEW b \in F, NEW x \in Exits(g, b), x \notin A PROVE x \in F
    <3>1. CASE x \in Exits(f, b)
      BY <2>2, <2>3, <3>1 DEF Covers
    <3>2. CASE \E t \in Exits(f, b) : x \in Exits(f, t) /\ BlockOf(f, t).insts = <<>>
      <4>1. PICK t \in Exits(f, b) : x \in Exits(f, t) /\ BlockOf(f, t).insts = <<>>
        BY <3>2
      <4>2. t \notin A
        BY <1>1, <4>1
      <4>3. t \in F
        BY <2>2, <4>2 DEF Covers
      <4> QED BY <2>2, <2>3, <4>1, <4>3 DEF Covers
    <3> QED BY <2>2, <2>3, <3>1, <3>2 DEF Shortens
  <2>4. Covers(g, F, A)
    BY <2>2, <2>3 DEF Covers
  <2> QED BY <2>1, <2>4, LeastCover
<1>2. Reachable(g) \subseteq Reachable(f)
  BY <1>1 DEF Reachable, From
<1>3. ASSUME NEW a \in BlockIds(f), BlockOf(f, a).insts # <<>> PROVE From(g, {a}) \subseteq From(f, {a})
  <2>1. PICK A : A = {a}
    OBVIOUS
  <2> QED BY <1>1, <1>3, <2>1
<1> QED BY <1>2, <1>3 DEF NoFurther

----------------------------------------------------------------------------
(* Shapes.                                                                 *)

LEMMA MapLemma ==
  ASSUME NEW S, NEW s \in Seq(S), NEW T, NEW t \in [DOMAIN s -> T]
  PROVE  t \in Seq(T) /\ Len(t) = Len(s) /\ DOMAIN t = DOMAIN s /\ IsList(s) /\ IsList(t)
<1>1. PICK n \in Nat : n = Len(s) /\ DOMAIN s = 1 .. n
  OBVIOUS
<1>2. t \in [1 .. n -> T]
  BY <1>1
<1>3. t \in Seq(T) /\ Len(t) = n
  BY <1>2
<1> QED BY <1>1, <1>2, <1>3 DEF IsList

LEMMA GraphLemma ==
  ASSUME NEW N, NEW O, NEW f \in Graphs(O, N)
  PROVE  /\ IsList(f.blocks) /\ BlockIds(f) = 0 .. Len(f.blocks) - 1
         /\ \A b \in BlockIds(f) : /\ b \in Int /\ b + 1 \in DOMAIN f.blocks
                                   /\ BlockOf(f, b) = f.blocks[b + 1] /\ BlockOf(f, b) \in Blocks(O, N)
                                   /\ IsList(BlockOf(f, b).insts)
                                   /\ BlockOf(f, b).term \in Terms(O)
         /\ \A b \in BlockIds(f) : \A k \in DOMAIN BlockOf(f, b).insts : InstAt(f, b, k) \in Insts(O, N)
<1>1. f.blocks \in Seq(Blocks(O, N))
  BY DEF Graphs
<1>2. PICK n \in Nat : n = Len(f.blocks) /\ DOMAIN f.blocks = 1 .. n
  BY <1>1
<1>3. \A k \in 1 .. n : f.blocks[k] \in Blocks(O, N)
  BY <1>1, <1>2
<1>4. BlockIds(f) = 0 .. n - 1
  BY <1>2 DEF BlockIds
<1>5. ASSUME NEW b \in BlockIds(f)
      PROVE  /\ b \in Int /\ b + 1 \in DOMAIN f.blocks
             /\ BlockOf(f, b) = f.blocks[b + 1] /\ BlockOf(f, b) \in Blocks(O, N)
  BY <1>2, <1>3, <1>4 DEF BlockOf
<1>6. ASSUME NEW b \in BlockIds(f)
      PROVE  /\ IsList(BlockOf(f, b).insts) /\ BlockOf(f, b).term \in Terms(O)
             /\ BlockOf(f, b).insts \in Seq(Insts(O, N))
  BY <1>5 DEF Blocks, IsList
<1>7. \A b \in BlockIds(f) : \A k \in DOMAIN BlockOf(f, b).insts : InstAt(f, b, k) \in Insts(O, N)
  BY <1>6 DEF InstAt
<1> QED BY <1>2, <1>4, <1>5, <1>6, <1>7 DEF IsList

LEMMA JumpsFrameLemma ==
  ASSUME NEW N, NEW O, NEW f \in Graphs(O, N), JumpsInside(f)
  PROVE  Framed(f)
BY GraphLemma DEF Framed, JumpsInside, IsList

\* The function g is f with other blocks, one for each.
Reblocked(f, g, blocks) ==
  /\ BlockIds(g) = BlockIds(f) /\ g.entry = f.entry /\ g.regs = f.regs /\ g.locals = f.locals
  /\ \A b \in BlockIds(f) : BlockOf(g, b) = blocks[b + 1]

LEMMA ReblockedLemma ==
  ASSUME NEW N, NEW O, NEW f \in Graphs(O, N), NEW P, NEW blocks \in [DOMAIN f.blocks -> Blocks(P, N)],
         NEW g, g = [f EXCEPT !.blocks = blocks]
  PROVE  g \in Graphs(P, N) /\ Reblocked(f, g, blocks)
<1>1. f.blocks \in Seq(Blocks(O, N))
  BY DEF Graphs
<1>2. blocks \in Seq(Blocks(P, N)) /\ Len(blocks) = Len(f.blocks)
  BY <1>1, MapLemma
<1>3. g.blocks = blocks /\ g.entry = f.entry /\ g.regs = f.regs /\ g.locals = f.locals
  BY DEF Graphs
<1>4. g \in Graphs(P, N)
  BY <1>2 DEF Graphs
<1> QED BY <1>2, <1>3, <1>4 DEF Reblocked, BlockIds, BlockOf

----------------------------------------------------------------------------
(* Passes that leave every instruction at its place.                       *)

\* The block to assigns at each place what from does, and ends.
InPlace(from, to) ==
  /\ IsList(from.insts) /\ IsList(to.insts) /\ Len(to.insts) = Len(from.insts)
  /\ \A k \in DOMAIN from.insts : /\ Assigns(to.insts[k]) <=> Assigns(from.insts[k])
                                  /\ to.insts[k].dst = from.insts[k].dst
  /\ to.term.kind # "Unreachable"

AllInPlace(f, g) ==
  /\ BlockIds(g) = BlockIds(f) /\ g.entry = f.entry /\ g.regs = f.regs /\ g.locals = f.locals
  /\ \A b \in BlockIds(f) : InPlace(BlockOf(f, b), BlockOf(g, b))

LEMMA InPlaceLemma ==
  ASSUME NEW f, Framed(f), AssignsOnce(f), NEW g, Len(g.blocks) \in Nat,
         AllInPlace(f, g), Shortens(f, g),
         \A b \in Reachable(f) : \A k \in 1 .. Len(BlockOf(f, b).insts) + 1 :
           \A r \in ReadAt(g, b, k) : Assigned(f, r, b, k)
  PROVE  WellFormed(g)
<1>1. /\ BlockIds(g) = BlockIds(f) /\ g.entry = f.entry /\ g.regs = f.regs
      /\ \A b \in BlockIds(f) : InPlace(BlockOf(f, b), BlockOf(g, b))
  BY DEF AllInPlace
<1>2. JumpsInside(g) /\ Framed(g)
  <2>1. ASSUME NEW b \in BlockIds(f), NEW x \in Exits(g, b) PROVE x \in BlockIds(f)
    <3>1. CASE x \in Exits(f, b)
      BY <3>1 DEF Framed
    <3>2. CASE \E t \in Exits(f, b) : x \in Exits(f, t) /\ BlockOf(f, t).insts = <<>>
      BY <3>2 DEF Framed
    <3> QED BY <3>1, <3>2 DEF Shortens
  <2>2. \A b \in BlockIds(f) : BlockOf(g, b).term.kind # "Unreachable"
    BY <1>1 DEF InPlace
  <2> QED BY <1>1, <2>1, <2>2 DEF JumpsInside, Framed
<1>3. NoFurther(f, g)
  BY <1>1, <1>2, NoFurtherLemma
<1>4. PICK at : at = [b \in BlockIds(f) |-> [k \in 1 .. Len(BlockOf(f, b).insts) + 1 |-> k]]
  OBVIOUS
<1>5. ASSUME NEW b \in BlockIds(f) PROVE Moved(BlockOf(f, b), BlockOf(g, b), at[b])
  BY <1>1, <1>4 DEF InPlace, Moved, IsList
<1>6. Kept(f, g, at)
  BY <1>1, <1>5 DEF Kept
<1>7. Reachable(f) \subseteq BlockIds(f)
  BY FromCovers DEF Reachable, From
<1>8. ASSUME NEW b \in Reachable(g), NEW k \in 1 .. Len(BlockOf(g, b).insts) + 1,
             NEW r \in ReadAt(g, b, k)
      PROVE  \E c \in BlockIds(f) : \E j \in DOMAIN BlockOf(g, c).insts :
               AssignsTo(InstAt(g, c, j), r) /\ Dominates(f, <<c, at[c][j]>>, b, at[b][k])
  <2>1. b \in BlockIds(f) /\ b \in Reachable(f)
    BY <1>3, <1>7 DEF NoFurther
  <2>2. Len(BlockOf(g, b).insts) = Len(BlockOf(f, b).insts)
    BY <1>1, <2>1 DEF InPlace
  <2>3. PICK c, j : /\ c \in BlockIds(f) /\ j \in DOMAIN BlockOf(f, c).insts
                    /\ AssignsTo(InstAt(f, c, j), r) /\ Dominates(f, <<c, j>>, b, k)
    BY <2>1, <2>2 DEF Assigned
  <2>4. InPlace(BlockOf(f, c), BlockOf(g, c))
    BY <1>1, <2>3
  <2>5. j \in DOMAIN BlockOf(g, c).insts /\ AssignsTo(InstAt(g, c, j), r)
        /\ j \in 1 .. Len(BlockOf(f, c).insts) + 1
    BY <2>3, <2>4 DEF InPlace, IsList, AssignsTo, InstAt
  <2>6. at[c][j] = j /\ at[b][k] = k
    BY <1>4, <2>1, <2>2, <2>3, <2>5
  <2> QED BY <2>3, <2>5, <2>6
<1>9. ReadsMoved(f, g, at)
  BY <1>8 DEF ReadsMoved
<1> QED BY <1>2, <1>3, <1>6, <1>9, PassLemma

\* The block to reads at each place no more registers than from.
ReadsNoMore(from, to) ==
  /\ \A k \in DOMAIN from.insts : RegsOf(to.insts[k].args) \subseteq RegsOf(from.insts[k].args)
  /\ RegsOf(<<to.term.arg>>) \subseteq RegsOf(<<from.term.arg>>)

LEMMA ReadsNoMoreLemma ==
  ASSUME NEW N, NEW f, NEW g, NEW b, InPlace(BlockOf(f, b), BlockOf(g, b)),
         ReadsNoMore(BlockOf(f, b), BlockOf(g, b)), NEW k
  PROVE  ReadAt(g, b, k) \subseteq ReadAt(f, b, k)
<1>1. DOMAIN BlockOf(g, b).insts = DOMAIN BlockOf(f, b).insts
  BY DEF InPlace, IsList
<1>2. CASE k \in DOMAIN BlockOf(f, b).insts
  BY <1>1, <1>2 DEF ReadAt, ReadsNoMore
<1>3. CASE k \notin DOMAIN BlockOf(f, b).insts
  BY <1>1, <1>3 DEF ReadAt, ReadsNoMore
<1> QED BY <1>2, <1>3

\* Registers and constants.
Wide(O) == \A o \in O : IsOperand(o)

\* The theorems are about functions of this kind, that may name N.
Well(f, N) ==
  /\ WellFormed(f) /\ N.locals = 0 .. f.locals - 1
  /\ \E O : Wide(O) /\ f \in Graphs(O, N)

LEMMA WellLemma ==
  ASSUME NEW N, NEW f, Well(f, N)
  PROVE  Framed(f) /\ JumpsInside(f) /\ AssignsOnce(f) /\ ReadsAssigned(f)
BY WellFormedLemma, JumpsFrameLemma DEF Well

LEMMA RewriteLemma ==
  ASSUME NEW N, NEW f, Well(f, N), NEW g, NEW P, Wide(P), g \in Graphs(P, N), AllInPlace(f, g), Shortens(f, g),
         \A b \in BlockIds(f) : ReadsNoMore(BlockOf(f, b), BlockOf(g, b))
  PROVE  Well(g, N)
<1>1. Framed(f) /\ AssignsOnce(f) /\ ReadsAssigned(f)
  BY WellLemma
<1>2. Len(g.blocks) \in Nat
  BY GraphLemma DEF IsList
<1>3. Reachable(f) \subseteq BlockIds(f)
  BY <1>1, FromCovers DEF Reachable, From
<1>4. ASSUME NEW b \in Reachable(f), NEW k \in 1 .. Len(BlockOf(f, b).insts) + 1,
             NEW r \in ReadAt(g, b, k)
      PROVE  Assigned(f, r, b, k)
  <2>1. b \in BlockIds(f)
    BY <1>3
  <2>2. r \in ReadAt(f, b, k)
    BY <2>1, ReadsNoMoreLemma DEF AllInPlace
  <2> QED BY <1>1, <2>2 DEF ReadsAssigned
<1>5. WellFormed(g)
  BY <1>1, <1>2, <1>4, InPlaceLemma
<1> QED BY <1>5 DEF Well, AllInPlace

\* What a pass may do to an instruction, and to a terminator.
Rewrites(i, j) ==
  /\ Assigns(j) <=> Assigns(i)
  /\ j.dst = i.dst
  /\ RegsOf(j.args) \subseteq RegsOf(i.args)

Targets(t) == {t.succ[k] : k \in DOMAIN t.succ}
Redirects(t, u) ==
  /\ t.kind # "Unreachable" => u.kind # "Unreachable"
  /\ RegsOf(<<u.arg>>) \subseteq RegsOf(<<t.arg>>)
  /\ Targets(u) \subseteq Targets(t)

\* What it may do to a block, but for the targets.
Simplifies(from, to) ==
  /\ \A k \in DOMAIN from.insts : Rewrites(from.insts[k], to.insts[k])
  /\ DOMAIN to.insts = DOMAIN from.insts
  /\ from.term.kind # "Unreachable" => to.term.kind # "Unreachable"
  /\ RegsOf(<<to.term.arg>>) \subseteq RegsOf(<<from.term.arg>>)

Rebuilt(b, insts, term, c) == c = [[b EXCEPT !.insts = insts] EXCEPT !.term = term]

LEMMA BlockLemma ==
  ASSUME NEW N, NEW O, NEW b \in Blocks(O, N), NEW P, NEW insts \in [DOMAIN b.insts -> Insts(P, N)],
         NEW term \in Terms(P),
         NEW c, Rebuilt(b, insts, term, c)
  PROVE  c \in Blocks(P, N) /\ c.insts = insts /\ c.term = term
<1>1. b \in [insts : Seq(Insts(O, N)), term : Terms(O)]
  BY DEF Blocks
<1>2. insts \in Seq(Insts(P, N))
  BY <1>1, MapLemma
<1> QED BY <1>1, <1>2 DEF Blocks, Rebuilt

\* A pass that simplifies every block and shortens the jumps.
LEMMA SimplifyLemma ==
  ASSUME NEW N, NEW f, Well(f, N), NEW O, f \in Graphs(O, N), NEW P, Wide(P),
         NEW blocks \in [DOMAIN f.blocks -> Blocks(P, N)],
         \A k \in DOMAIN f.blocks : Simplifies(f.blocks[k], blocks[k]),
         NEW g, g = [f EXCEPT !.blocks = blocks], Shortens(f, g)
  PROVE  Well(g, N)
<1>1. g \in Graphs(P, N) /\ Reblocked(f, g, blocks)
  BY ReblockedLemma
<1>2. JumpsInside(f)
  BY WellLemma
<1>3. ASSUME NEW b \in BlockIds(f)
      PROVE  /\ InPlace(BlockOf(f, b), BlockOf(g, b))
             /\ ReadsNoMore(BlockOf(f, b), BlockOf(g, b))
  <2>1. Simplifies(BlockOf(f, b), BlockOf(g, b))
    <3>1. b + 1 \in DOMAIN f.blocks /\ BlockOf(f, b) = f.blocks[b + 1]
      BY GraphLemma
    <3>2. BlockOf(g, b) = blocks[b + 1]
      BY <1>1 DEF Reblocked
    <3> QED BY <3>1, <3>2
  <2>2. IsList(BlockOf(f, b).insts) /\ IsList(BlockOf(g, b).insts)
    <3>1. b \in BlockIds(g)
      BY <1>1 DEF Reblocked
    <3> QED BY <1>1, <3>1, GraphLemma
  <2>3. Len(BlockOf(g, b).insts) = Len(BlockOf(f, b).insts)
    BY <2>1, <2>2 DEF Simplifies, IsList
  <2>4. BlockOf(f, b).term.kind # "Unreachable"
    BY <1>2 DEF JumpsInside
  <2> QED BY <2>1, <2>2, <2>3, <2>4 DEF InPlace, ReadsNoMore, Simplifies, Rewrites
<1>4. AllInPlace(f, g)
  BY <1>1, <1>3 DEF AllInPlace, Reblocked
<1> QED BY <1>1, <1>3, <1>4, RewriteLemma

\* The same, for a pass that leaves every jump or drops it.
LEMMA RedirectLemma ==
  ASSUME NEW N, NEW f, Well(f, N), NEW O, f \in Graphs(O, N), NEW P, Wide(P),
         NEW blocks \in [DOMAIN f.blocks -> Blocks(P, N)],
         \A k \in DOMAIN f.blocks :
           /\ Simplifies(f.blocks[k], blocks[k])
           /\ Targets(blocks[k].term) \subseteq Targets(f.blocks[k].term),
         NEW g, g = [f EXCEPT !.blocks = blocks]
  PROVE  Well(g, N)
<1>1. Reblocked(f, g, blocks)
  BY ReblockedLemma
<1>2. ASSUME NEW b \in BlockIds(f) PROVE Exits(g, b) \subseteq Exits(f, b)
  <2>1. b + 1 \in DOMAIN f.blocks /\ BlockOf(f, b) = f.blocks[b + 1]
    BY GraphLemma
  <2>2. BlockOf(g, b) = blocks[b + 1]
    BY <1>1 DEF Reblocked
  <2>3. Exits(f, b) = Targets(f.blocks[b + 1].term) /\ Exits(g, b) = Targets(blocks[b + 1].term)
    BY <2>1, <2>2 DEF Exits, Targets
  <2> QED BY <2>1, <2>3
<1>3. Shortens(f, g)
  BY <1>2 DEF Shortens
<1> QED BY <1>3, SimplifyLemma

LEMMA RegsOfOne ==
  ASSUME NEW o
  PROVE  \A r : r \in RegsOf(<<o>>) <=> IsReg(o) /\ r = o.v
BY DEF RegsOf

LEMMA WiderLemma ==
  ASSUME NEW N, NEW O, NEW P, O \subseteq P
  PROVE  Insts(O, N) \subseteq Insts(P, N) /\ Terms(O) \subseteq Terms(P)
<1>1. Seq(O) \subseteq Seq(P)
  OBVIOUS
<1> QED BY <1>1 DEF Insts, Terms

IsCopy(i, o, c) == Assigns(c) /\ c.dst = i.dst /\ c.args = <<o>>

LEMMA CopyLemma ==
  ASSUME NEW N, NEW O, NEW i \in Insts(O, N), NEW P, O \subseteq P, NEW o \in P
  PROVE  CopyOf(i, o) \in Insts(P, N) /\ IsCopy(i, o, CopyOf(i, o))
<1>1. <<o>> \in Seq(P) /\ Len(<<o>>) = 1
  OBVIOUS
<1>2. "Use" \in InstKinds /\ "" \in MirOps
  BY DEF InstKinds, RvalueKinds, MirOps
<1>3. i \in [kind : InstKinds, dst : Int, op : MirOps, n : Int, args : Seq(P)]
  BY WiderLemma DEF Insts
<1>4. PICK c : c = CopyOf(i, o)
  OBVIOUS
<1>5. c.kind = "Use" /\ c.dst = i.dst /\ c.args = <<o>>
  BY <1>3, <1>4 DEF CopyOf
<1>6. c \in [kind : InstKinds, dst : Int, op : MirOps, n : Int, args : Seq(P)]
  <2>0. PICK z \in Int : z = 0
    OBVIOUS
  <2>1. PICK K, M, S, kind, op, s :
          /\ K = InstKinds /\ M = MirOps /\ S = Seq(P)
          /\ kind = "Use" /\ op = "" /\ s = <<o>>
    OBVIOUS
  <2>2. kind \in K /\ op \in M /\ s \in S
    BY <1>1, <1>2, <2>1
  <2>3. i \in [kind : K, dst : Int, op : M, n : Int, args : S]
    BY <1>3, <2>1
  <2>4. c = [i EXCEPT !.kind = kind, !.op = op, !.n = z, !.args = s]
    BY <1>4, <2>0, <2>1 DEF CopyOf
  <2>5. c \in [kind : K, dst : Int, op : M, n : Int, args : S]
    BY <2>2, <2>3, <2>4
  <2> QED BY <2>1, <2>5
<1> QED BY <1>1, <1>4, <1>5, <1>6 DEF Insts, IsCopy, Assigns, IsAssign, RvalueKinds

----------------------------------------------------------------------------
(* const_fold and algebraic_simplify.                                      *)

\* What is folded is no register.
LEMMA FoldedLemma ==
  ASSUME NEW i
  PROVE  ~ IsReg(Folded(i).v)
<1>1. ASSUME NEW v, ~ IsReg(v) PROVE ~ IsReg(Ok(v).v)
  BY <1>1 DEF Ok
<1>2. ASSUME NEW e PROVE ~ IsReg(Err(e).v)
  BY DEF Err, UnitV, IsReg
<1>3. ASSUME NEW v
      PROVE  ~ IsReg(IntV(v)) /\ ~ IsReg(FloatV(v)) /\ ~ IsReg(BoolV(v)) /\ ~ IsReg(StrV(v))
  BY DEF IsReg, IntV, FloatV, BoolV, StrV
<1>4. ASSUME NEW op, NEW x PROVE ~ IsReg(UnaryValue(op, x).v)
  BY <1>1, <1>2, <1>3 DEF UnaryValue
<1>5. ASSUME NEW a, NEW b, NEW r PROVE ~ IsReg(CheckedDiv(a, b, r).v)
  BY <1>1, <1>2, <1>3 DEF CheckedDiv
<1>6. ASSUME NEW op \in ArithOps, NEW a, NEW b PROVE ~ IsReg(ArithInt(IntOpOf[op], a, b).v)
  <2>1. IntOpOf[op] \in {"AddInt", "SubInt", "MulInt", "DivInt", "RemInt"}
    BY DEF IntOpOf, ArithOps
  <2>2. ASSUME NEW o \in {"AddInt", "SubInt", "MulInt"} PROVE ~ IsReg(ArithInt(o, a, b).v)
    BY <1>1, <1>3 DEF ArithInt
  <2>3. ASSUME NEW o \in {"DivInt", "RemInt"} PROVE ~ IsReg(ArithInt(o, a, b).v)
    BY <1>5 DEF ArithInt
  <2> QED BY <2>1, <2>2, <2>3
<1>7. ASSUME NEW op, NEW hp, NEW x, NEW y PROVE ~ IsReg(Equal(op, hp, x, y).v)
  BY <1>1, <1>2, <1>3 DEF Equal
<1>8. ASSUME NEW op, NEW hp, NEW x, NEW y PROVE ~ IsReg(BinaryValue(op, hp, x, y).v)
  BY <1>1, <1>2, <1>3, <1>6, <1>7 DEF BinaryValue
<1> QED BY <1>1, <1>3, <1>4, <1>8 DEF Folded

\* The operators make values of values, whatever their kinds.
LEMMA UnaryTypeLemma ==
  ASSUME NEW n, NEW op, NEW x, IsValue(x, n)
  PROVE  GoodOutcome(UnaryValue(op, x), n)
<1>1. CASE op = "Neg" /\ x.t = "Int"
  <2>1. PICK i \in Int : i = -x.v
    <3>1. x.v \in Int
      BY <1>1, WidthLemma DEF IsValue
    <3> QED BY <3>1
  <2>2. Wrap(i) \in Ints
    BY WrapLemma
  <2> QED BY <1>1, <2>1, <2>2, ValueLemma DEF UnaryValue
<1>2. CASE op = "Neg" /\ x.t = "Float"
  <2>1. UnaryFloat("NegFloat", x.v) \in F64.floats
    BY <1>2, F64Assumption DEF IsValue
  <2> QED BY <1>2, <2>1, ValueLemma DEF UnaryValue
<1>3. CASE op = "Not" /\ x.t = "Bool"
  <2>1. (~ x.v) \in BOOLEAN
    OBVIOUS
  <2> QED BY <1>3, <2>1, ValueLemma DEF UnaryValue
<1>4. CASE ~ (op = "Neg" /\ x.t \in {"Int", "Float"}) /\ ~ (op = "Not" /\ x.t = "Bool")
  BY <1>4, ValueLemma DEF UnaryValue
<1> QED BY <1>1, <1>2, <1>3, <1>4

LEMMA BinaryTypeLemma ==
  ASSUME NEW n, NEW op, NEW hp, NEW x, NEW y, IsValue(x, n), IsValue(y, n)
  PROVE  GoodOutcome(BinaryValue(op, hp, x, y), n)
<1>0. /\ ArithOps \cap OrderOps = {} /\ {"Eq", "Ne"} \cap ArithOps = {} /\ {"Eq", "Ne"} \cap OrderOps = {}
      /\ \A o \in ArithOps : IntOpOf[o] \in IntArith /\ FloatOpOf[o] \in FltArith
      /\ \A o \in OrderOps : IntOpOf[o] \in IntOrder /\ FloatOpOf[o] \in FltOrder
  BY DEF ArithOps, OrderOps, IntOpOf, FloatOpOf, IntArith, FltArith, IntOrder, FltOrder
<1>1. CASE op \in {"Eq", "Ne"}
  <2>1. \A e : ((e = "equal") <=> (op = "Eq")) \in BOOLEAN
    OBVIOUS
  <2>2. GoodOutcome(Equal(op, hp, x, y), n)
    BY <2>1, ValueLemma DEF Equal
  <2> QED BY <1>1, <2>2 DEF BinaryValue
<1>2. CASE op \in ArithOps /\ x.t = "Int" /\ y.t = "Int"
  <2>1. x.v \in Ints /\ y.v \in Ints
    BY <1>2, WidthLemma DEF IsValue
  <2>2. GoodOutcome(ArithInt(IntOpOf[op], x.v, y.v), n)
    BY <1>0, <1>2, <2>1, ArithTypeLemma
  <2> QED BY <1>0, <1>2, <2>2 DEF BinaryValue
<1>3. CASE op \in OrderOps /\ x.t = "Int" /\ y.t = "Int"
  <2>0. PICK o \in IntOrder : o = IntOpOf[op]
    BY <1>0, <1>3
  <2>1. OrderInt(IntOpOf[op], x.v, y.v) \in BOOLEAN
    <3>1. PICK a \in Int, b \in Int : a = x.v /\ b = y.v
      BY <1>3, WidthLemma DEF IsValue
    <3>2. (a < b) \in BOOLEAN /\ (a <= b) \in BOOLEAN /\ (a > b) \in BOOLEAN /\ (a >= b) \in BOOLEAN
      OBVIOUS
    <3>3. OrderInt(o, a, b) \in BOOLEAN
      BY <3>2, Zenon DEF OrderInt, IntOrder
    <3> QED BY <2>0, <3>1, <3>3
  <2> QED BY <1>0, <1>3, <2>1, ValueLemma DEF BinaryValue
<1>4. CASE op \in ArithOps /\ x.t = "Float" /\ y.t = "Float"
  <2>1. ArithFloat(FloatOpOf[op], x.v, y.v) \in F64.floats
    BY <1>0, <1>4, F64Assumption DEF IsValue
  <2> QED BY <1>0, <1>4, <2>1, ValueLemma DEF BinaryValue
<1>5. CASE op \in OrderOps /\ x.t = "Float" /\ y.t = "Float"
  <2>1. OrderFloat(FloatOpOf[op], x.v, y.v) \in BOOLEAN
    BY <1>0, <1>5, F64Assumption DEF IsValue
  <2> QED BY <1>0, <1>5, <2>1, ValueLemma DEF BinaryValue
<1>6. CASE /\ op \notin {"Eq", "Ne"}
           /\ ~ (x.t = y.t /\ x.t \in {"Int", "Float"} /\ op \in ArithOps \cup OrderOps)
  <2>1. BinaryValue(op, hp, x, y) = Err("unexpected kind")
    BY <1>6 DEF BinaryValue
  <2> QED BY <2>1, ValueLemma
<1> QED BY <1>1, <1>2, <1>3, <1>4, <1>5, <1>6

\* The constants of a function make constants.
LEMMA ConstantsLemma ==
  ASSUME NEW N, NEW O, Wide(O), NEW i \in Insts(O, N), Foldable(i), Folded(i).status = "ok"
  PROVE  IsOperand(Folded(i).v)
<1>1. \A k \in DOMAIN i.args : IsValue(i.args[k], 0)
  <2>1. i.args \in Seq(O)
    BY DEF Insts
  <2>2. \A k \in DOMAIN i.args : i.args[k] \in O
    BY <2>1
  <2> QED BY <2>2 DEF Wide, IsOperand, Foldable
<1>2. CASE i.kind = "Unary"
  <2>1. 1 \in DOMAIN i.args
    BY <1>2 DEF Insts
  <2>2. GoodOutcome(UnaryValue(i.op, i.args[1]), 0)
    BY <1>1, <2>1, UnaryTypeLemma
  <2> QED BY <1>2, <2>2 DEF Folded, GoodOutcome, IsOperand
<1>3. ASSUME i.kind \in {"Binary", "Concat"} PROVE 1 \in DOMAIN i.args /\ 2 \in DOMAIN i.args
  BY <1>3 DEF Insts
<1>4. CASE i.kind = "Concat"
  <2>1. i.args[1].v \in Seq(Nat) /\ i.args[2].v \in Seq(Nat)
    BY <1>1, <1>3, <1>4 DEF Foldable, IsValue
  <2>2. i.args[1].v \o i.args[2].v \in Seq(Nat)
    BY <2>1
  <2>3. GoodOutcome(Ok(StrV(i.args[1].v \o i.args[2].v)), 0)
    BY <2>2, ValueLemma
  <2> QED BY <1>4, <2>3 DEF Folded, GoodOutcome, IsOperand
<1>5. CASE i.kind = "Binary"
  <2>1. GoodOutcome(BinaryValue(i.op, <<>>, i.args[1], i.args[2]), 0)
    BY <1>1, <1>3, <1>5, BinaryTypeLemma
  <2> QED BY <1>5, <2>1 DEF Folded, GoodOutcome, IsOperand
<1> QED BY <1>2, <1>4, <1>5 DEF Foldable

LEMMA UnitLemma == IsOperand(UnitV) /\ IsOperand(IntV(0)) /\ \A r : IsOperand(Reg(r))
BY WidthLemma DEF IsOperand, IsReg, IsValue, UnitV, IntV, Reg, Kinds

LEMMA FoldInstLemma ==
  ASSUME NEW N, NEW O, NEW i \in Insts(O, N), NEW P, O \subseteq P,
         Foldable(i) /\ Folded(i).status = "ok" => Folded(i).v \in P
  PROVE  FoldInst(i) \in Insts(P, N) /\ Rewrites(i, FoldInst(i))
<1>1. CASE Foldable(i) /\ Folded(i).status = "ok"
  <2>1. FoldInst(i) = CopyOf(i, Folded(i).v)
    BY <1>1 DEF FoldInst
  <2>2. Assigns(i) /\ ~ IsReg(Folded(i).v)
    BY <1>1, FoldedLemma DEF Foldable, Assigns, IsAssign, RvalueKinds
  <2>3. RegsOf(<<Folded(i).v>>) = {}
    BY <2>2, RegsOfOne
  <2>4. PICK v \in P : v = Folded(i).v
    BY <1>1
  <2>5. CopyOf(i, v) \in Insts(P, N) /\ IsCopy(i, v, CopyOf(i, v))
    BY CopyLemma
  <2> QED BY <2>1, <2>2, <2>3, <2>4, <2>5 DEF IsCopy, Rewrites
<1>2. CASE ~ (Foldable(i) /\ Folded(i).status = "ok")
  <2>1. FoldInst(i) = i
    BY <1>2 DEF FoldInst
  <2> QED BY <2>1, WiderLemma DEF Rewrites
<1> QED BY <1>1, <1>2

LEMMA GotoLemma ==
  ASSUME NEW O, NEW t \in Terms(O), NEW P, UnitV \in P, NEW k \in DOMAIN t.succ
  PROVE  Goto(t.succ[k]) \in Terms(P) /\ Redirects(t, Goto(t.succ[k]))
<1>1. PICK n \in Nat : n = t.succ[k]
  BY DEF Terms
<1>2. <<n>> \in Seq(Nat) /\ Len(<<n>>) = 1
  OBVIOUS
<1>3. Goto(n) = [kind |-> "Goto", arg |-> UnitV, succ |-> <<n>>]
  BY DEF Goto, Term
<1>6. Goto(n) \in [kind : TermKinds, arg : P, succ : Seq(Nat)]
  BY <1>2, <1>3 DEF TermKinds
<1>7. Goto(n) \in Terms(P)
  BY <1>2, <1>3, <1>6 DEF Terms
<1>4. \A j \in DOMAIN <<n>> : <<n>>[j] = n
  OBVIOUS
<1>5. RegsOf(<<UnitV>>) = {}
  BY RegsOfOne DEF UnitV, IsReg
<1> QED BY <1>1, <1>3, <1>4, <1>5, <1>7 DEF Targets, Redirects

LEMMA FoldTermLemma ==
  ASSUME NEW O, NEW t \in Terms(O), NEW P, O \subseteq P, UnitV \in P
  PROVE  FoldTerm(t) \in Terms(P) /\ Redirects(t, FoldTerm(t))
<1>1. CASE t.kind = "Branch" /\ t.arg.t = "Bool"
  <2>1. 1 \in DOMAIN t.succ /\ 2 \in DOMAIN t.succ
    BY <1>1 DEF Terms
  <2>2. PICK k \in DOMAIN t.succ : FoldTerm(t) = Goto(t.succ[k])
    <3>1. PICK k : k = IF t.arg.v THEN 1 ELSE 2
      OBVIOUS
    <3>2. k \in {1, 2}
      BY <3>1
    <3> QED BY <1>1, <2>1, <3>1, <3>2 DEF FoldTerm
  <2> QED BY <2>2, GotoLemma
<1>2. CASE ~ (t.kind = "Branch" /\ t.arg.t = "Bool")
  <2>1. FoldTerm(t) = t
    BY <1>2 DEF FoldTerm
  <2> QED BY <2>1, WiderLemma DEF Redirects
<1> QED BY <1>1, <1>2

LEMMA ConstFoldKeeps ==
  ASSUME NEW N, NEW f, Well(f, N)
  PROVE  Well(ConstFold(f), N)
<1>1. PICK O : Wide(O) /\ f \in Graphs(O, N)
  BY DEF Well
<1>2. PICK P : /\ O \subseteq P /\ UnitV \in P /\ Wide(P)
               /\ \A i \in Insts(O, N) : Foldable(i) /\ Folded(i).status = "ok" => Folded(i).v \in P
  <2>1. PICK F : F = {i \in Insts(O, N) : Foldable(i) /\ Folded(i).status = "ok"}
    OBVIOUS
  <2>2. PICK P : P = O \cup {UnitV} \cup {Folded(i).v : i \in F}
    OBVIOUS
  <2>3. \A i \in F : IsOperand(Folded(i).v)
    BY <1>1, <2>1, ConstantsLemma
  <2>4. Wide(P)
    BY <1>1, <2>2, <2>3, UnitLemma DEF Wide
  <2> QED BY <2>1, <2>2, <2>4
<1> DEFINE New(b) == [OnInsts(b, FoldInst) EXCEPT !.term = FoldTerm(@)]
<1>3. ASSUME NEW b \in Blocks(O, N)
      PROVE  New(b) \in Blocks(P, N) /\ Simplifies(b, New(b)) /\ Targets(New(b).term) \subseteq Targets(b.term)
  <2>1. b.insts \in Seq(Insts(O, N)) /\ b.term \in Terms(O)
    BY DEF Blocks
  <2>2. PICK insts : insts = [k \in DOMAIN b.insts |-> FoldInst(b.insts[k])]
    OBVIOUS
  <2>3. \A k \in DOMAIN b.insts :
          /\ b.insts[k] \in Insts(O, N)
          /\ LET i == b.insts[k]
             IN Foldable(i) /\ Folded(i).status = "ok" => Folded(i).v \in P
    BY <1>2, <2>1
  <2>4. \A k \in DOMAIN b.insts : insts[k] \in Insts(P, N) /\ Rewrites(b.insts[k], insts[k])
    BY <1>2, <2>2, <2>3, FoldInstLemma
  <2>5. insts \in [DOMAIN b.insts -> Insts(P, N)] /\ DOMAIN insts = DOMAIN b.insts
    BY <2>2, <2>4
  <2>6. PICK term \in Terms(P) : term = FoldTerm(b.term) /\ Redirects(b.term, term)
    BY <1>2, <2>1, FoldTermLemma
  <2>7. PICK c : Rebuilt(b, insts, term, c)
    BY DEF Rebuilt
  <2>8. New(b) = c
    BY <2>2, <2>6, <2>7 DEF OnInsts, Blocks, Rebuilt
  <2>9. c \in Blocks(P, N) /\ c.insts = insts /\ c.term = term
    BY <2>5, <2>6, <2>7, BlockLemma
  <2>10. Simplifies(b, c) /\ Targets(c.term) \subseteq Targets(b.term)
    BY <2>4, <2>5, <2>6, <2>9 DEF Simplifies, Redirects
  <2> HIDE DEF New
  <2> QED BY <2>8, <2>9, <2>10
<1>4. PICK blocks : blocks = [k \in DOMAIN f.blocks |-> New(f.blocks[k])]
  OBVIOUS
<1>5. ConstFold(f) = [f EXCEPT !.blocks = blocks]
  BY <1>4 DEF ConstFold, OnBlocks
<1>6. \A k \in DOMAIN f.blocks : f.blocks[k] \in Blocks(O, N)
  BY <1>1 DEF Graphs
<1> HIDE DEF New
<1>7. \A k \in DOMAIN f.blocks :
        /\ blocks[k] \in Blocks(P, N) /\ Simplifies(f.blocks[k], blocks[k])
        /\ Targets(blocks[k].term) \subseteq Targets(f.blocks[k].term)
  BY <1>3, <1>4, <1>6
<1>8. blocks \in [DOMAIN f.blocks -> Blocks(P, N)]
  BY <1>4, <1>7
<1> QED BY <1>1, <1>2, <1>5, <1>7, <1>8, RedirectLemma

\* A copy of one of the operands, or of a constant.
LEMMA ToCopyLemma ==
  ASSUME NEW N, NEW O, NEW i \in Insts(O, N), Assigns(i), NEW P, O \subseteq P, NEW o \in P,
         IsReg(o) => \E k \in DOMAIN i.args : o = i.args[k]
  PROVE  CopyOf(i, o) \in Insts(P, N) /\ Rewrites(i, CopyOf(i, o))
<1>1. PICK c : c = CopyOf(i, o)
  OBVIOUS
<1>2. c \in Insts(P, N) /\ IsCopy(i, o, c)
  BY <1>1, CopyLemma
<1>3. RegsOf(<<o>>) \subseteq RegsOf(i.args)
  <2>1. ASSUME NEW r \in RegsOf(<<o>>) PROVE r \in RegsOf(i.args)
    <3>1. IsReg(o) /\ r = o.v
      BY <2>1, RegsOfOne
    <3> QED BY <3>1 DEF RegsOf
  <2> QED BY <2>1
<1> QED BY <1>1, <1>2, <1>3 DEF IsCopy, Rewrites

LEMMA SimplifyInstLemma ==
  ASSUME NEW N, NEW O, NEW i \in Insts(O, N), NEW P, O \subseteq P, IntV(0) \in P
  PROVE  SimplifyInst(i) \in Insts(P, N) /\ Rewrites(i, SimplifyInst(i))
<1>1. CASE SimplifyInst(i) = i
  BY <1>1, WiderLemma DEF Rewrites
<1>2. CASE i.kind = "Binary" /\ \E o \in {i.args[1], i.args[2], IntV(0)} : SimplifyInst(i) = CopyOf(i, o)
  <2>1. PICK o : o \in {i.args[1], i.args[2], IntV(0)} /\ SimplifyInst(i) = CopyOf(i, o)
    BY <1>2
  <2>2. i.args \in Seq(O) /\ Len(i.args) = 2
    BY <1>2 DEF Insts
  <2>3. 1 \in DOMAIN i.args /\ 2 \in DOMAIN i.args /\ i.args[1] \in O /\ i.args[2] \in O
    BY <2>2
  <2>4. Assigns(i)
    BY <1>2 DEF Assigns, IsAssign, RvalueKinds
  <2>5. ~ IsReg(IntV(0))
    BY DEF IsReg, IntV
  <2>6. o \in P /\ (IsReg(o) => \E k \in DOMAIN i.args : o = i.args[k])
    BY <2>1, <2>3, <2>5
  <2> QED BY <2>1, <2>4, <2>6, ToCopyLemma
<1>3. \/ SimplifyInst(i) = i
      \/ i.kind = "Binary" /\ \E o \in {i.args[1], i.args[2], IntV(0)} : SimplifyInst(i) = CopyOf(i, o)
  BY DEF SimplifyInst
<1> QED BY <1>1, <1>2, <1>3

LEMMA AlgebraicSimplifyKeeps ==
  ASSUME NEW N, NEW f, Well(f, N)
  PROVE  Well(AlgebraicSimplify(f), N)
<1>1. PICK O : Wide(O) /\ f \in Graphs(O, N)
  BY DEF Well
<1>2. PICK P : O \subseteq P /\ IntV(0) \in P /\ Wide(P)
  <2>1. PICK P : P = O \cup {IntV(0)}
    OBVIOUS
  <2> QED BY <1>1, <2>1, UnitLemma DEF Wide
<1> DEFINE New(b) == OnInsts(b, SimplifyInst)
<1>3. ASSUME NEW b \in Blocks(O, N)
      PROVE  New(b) \in Blocks(P, N) /\ Simplifies(b, New(b)) /\ Targets(New(b).term) \subseteq Targets(b.term)
  <2>1. b.insts \in Seq(Insts(O, N))
    BY DEF Blocks
  <2>2. PICK insts : insts = [k \in DOMAIN b.insts |-> SimplifyInst(b.insts[k])]
    OBVIOUS
  <2>3. \A k \in DOMAIN b.insts : insts[k] \in Insts(P, N) /\ Rewrites(b.insts[k], insts[k])
    BY <1>2, <2>1, <2>2, SimplifyInstLemma
  <2>4. insts \in [DOMAIN b.insts -> Insts(P, N)] /\ DOMAIN insts = DOMAIN b.insts
    BY <2>2, <2>3
  <2>5. PICK term \in Terms(P) : term = b.term
    BY <1>2, WiderLemma DEF Blocks
  <2>6. PICK c : Rebuilt(b, insts, term, c)
    BY DEF Rebuilt
  <2>7. New(b) = c
    BY <2>2, <2>5, <2>6 DEF OnInsts, Blocks, Rebuilt
  <2>8. c \in Blocks(P, N) /\ c.insts = insts /\ c.term = term
    BY <2>4, <2>5, <2>6, BlockLemma
  <2>9. Simplifies(b, c) /\ Targets(c.term) \subseteq Targets(b.term)
    BY <2>3, <2>4, <2>5, <2>8 DEF Simplifies
  <2> HIDE DEF New
  <2> QED BY <2>7, <2>8, <2>9
<1>4. PICK blocks : blocks = [k \in DOMAIN f.blocks |-> New(f.blocks[k])]
  OBVIOUS
<1>5. AlgebraicSimplify(f) = [f EXCEPT !.blocks = blocks]
  BY <1>4 DEF AlgebraicSimplify, OnBlocks
<1>6. \A k \in DOMAIN f.blocks : f.blocks[k] \in Blocks(O, N)
  BY <1>1 DEF Graphs
<1> HIDE DEF New
<1>7. \A k \in DOMAIN f.blocks :
        /\ blocks[k] \in Blocks(P, N) /\ Simplifies(f.blocks[k], blocks[k])
        /\ Targets(blocks[k].term) \subseteq Targets(f.blocks[k].term)
  BY <1>3, <1>4, <1>6
<1>8. blocks \in [DOMAIN f.blocks -> Blocks(P, N)]
  BY <1>4, <1>7
<1> QED BY <1>1, <1>2, <1>5, <1>7, <1>8, RedirectLemma

----------------------------------------------------------------------------
(* simplify_cfg, but for the blocks it removes.                            *)

LEMMA CollapseLemma ==
  ASSUME NEW O, NEW t \in Terms(O), NEW P, O \subseteq P, UnitV \in P
  PROVE  Collapse(t) \in Terms(P) /\ Redirects(t, Collapse(t))
<1>1. CASE t.kind = "Branch" /\ t.succ[1] = t.succ[2]
  <2>1. PICK k \in DOMAIN t.succ : k = 1
    BY <1>1 DEF Terms
  <2>2. Collapse(t) = Goto(t.succ[k])
    BY <1>1, <2>1 DEF Collapse
  <2> QED BY <2>2, GotoLemma
<1>2. CASE ~ (t.kind = "Branch" /\ t.succ[1] = t.succ[2])
  <2>1. Collapse(t) = t
    BY <1>2 DEF Collapse
  <2> QED BY <2>1, WiderLemma DEF Redirects
<1> QED BY <1>1, <1>2

\* A block with another terminator.
LEMMA TermLemma ==
  ASSUME NEW N, NEW O, NEW b \in Blocks(O, N), NEW P, O \subseteq P, NEW term \in Terms(P),
         NEW c, c = [b EXCEPT !.term = term]
  PROVE  c \in Blocks(P, N) /\ c.insts = b.insts /\ c.term = term
<1>1. b \in [insts : Seq(Insts(O, N)), term : Terms(O)]
  BY DEF Blocks
<1>2. Seq(Insts(O, N)) \subseteq Seq(Insts(P, N))
  <2>1. PICK S, T : S = Insts(O, N) /\ T = Insts(P, N)
    OBVIOUS
  <2>2. S \subseteq T
    BY <2>1, WiderLemma
  <2>3. Seq(S) \subseteq Seq(T)
    BY <2>2
  <2> QED BY <2>1, <2>3
<1> QED BY <1>1, <1>2 DEF Blocks

LEMMA CollapseKeeps ==
  ASSUME NEW N, NEW f, Well(f, N)
  PROVE  Well(OnBlocks(f, LAMBDA b : [b EXCEPT !.term = Collapse(@)]), N)
<1>1. PICK O : Wide(O) /\ f \in Graphs(O, N)
  BY DEF Well
<1>2. PICK P : O \subseteq P /\ UnitV \in P /\ Wide(P)
  <2>1. PICK P : P = O \cup {UnitV}
    OBVIOUS
  <2> QED BY <1>1, <2>1, UnitLemma DEF Wide
<1> DEFINE New(b) == [b EXCEPT !.term = Collapse(@)]
<1>3. ASSUME NEW b \in Blocks(O, N)
      PROVE  New(b) \in Blocks(P, N) /\ Simplifies(b, New(b)) /\ Targets(New(b).term) \subseteq Targets(b.term)
  <2>1. b.term \in Terms(O)
    BY DEF Blocks
  <2>2. PICK term \in Terms(P) : term = Collapse(b.term) /\ Redirects(b.term, term)
    BY <1>2, <2>1, CollapseLemma
  <2>3. PICK c : c = [b EXCEPT !.term = term]
    OBVIOUS
  <2>4. New(b) = c
    BY <2>2, <2>3
  <2>5. c \in Blocks(P, N) /\ c.insts = b.insts /\ c.term = term
    BY <1>2, <2>2, <2>3, TermLemma
  <2>6. Simplifies(b, c) /\ Targets(c.term) \subseteq Targets(b.term)
    BY <2>2, <2>5 DEF Simplifies, Redirects, Rewrites
  <2> HIDE DEF New
  <2> QED BY <2>4, <2>5, <2>6
<1>4. PICK blocks : blocks = [k \in DOMAIN f.blocks |-> New(f.blocks[k])]
  OBVIOUS
<1>5. OnBlocks(f, LAMBDA b : [b EXCEPT !.term = Collapse(@)]) = [f EXCEPT !.blocks = blocks]
  BY <1>4 DEF OnBlocks
<1>6. \A k \in DOMAIN f.blocks : f.blocks[k] \in Blocks(O, N)
  BY <1>1 DEF Graphs
<1> HIDE DEF New
<1>7. \A k \in DOMAIN f.blocks :
        /\ blocks[k] \in Blocks(P, N) /\ Simplifies(f.blocks[k], blocks[k])
        /\ Targets(blocks[k].term) \subseteq Targets(f.blocks[k].term)
  BY <1>3, <1>4, <1>6
<1>8. blocks \in [DOMAIN f.blocks -> Blocks(P, N)]
  BY <1>4, <1>7
<1>9. PICK g : g = [f EXCEPT !.blocks = blocks]
  OBVIOUS
<1>10. Well(g, N)
  BY <1>1, <1>2, <1>7, <1>8, <1>9, RedirectLemma
<1> QED BY <1>5, <1>9, <1>10

LEMMA HopLemma ==
  ASSUME NEW f, Framed(f), NEW N, NEW O, f \in Graphs(O, N), NEW x \in BlockIds(f)
  PROVE  /\ Hop(f)[x] \in Nat
         /\ Hop(f)[x] = x \/ (Hop(f)[x] \in Exits(f, x) /\ BlockOf(f, x).insts = <<>>)
<1>1. x \in Nat
  BY DEF Framed, BlockIds
<1>2. CASE ~ Forwards(f, x)
  BY <1>1, <1>2 DEF Hop
<1>3. CASE Forwards(f, x)
  <2>1. BlockOf(f, x).term \in Terms(O)
    BY GraphLemma
  <2>2. 1 \in DOMAIN BlockOf(f, x).term.succ /\ BlockOf(f, x).term.succ[1] \in Nat
    BY <1>3, <2>1 DEF Terms, Forwards
  <2>3. Hop(f)[x] = BlockOf(f, x).term.succ[1]
    BY <1>3 DEF Hop
  <2> QED BY <1>3, <2>2, <2>3 DEF Exits, Forwards
<1> QED BY <1>2, <1>3

\* Another table for the targets.
LEMMA RetargetLemma ==
  ASSUME NEW O, NEW t \in Terms(O), NEW to, \A k \in DOMAIN t.succ : to[t.succ[k]] \in Nat
  PROVE  /\ Retarget(t, to) \in Terms(O)
         /\ Retarget(t, to).kind = t.kind /\ Retarget(t, to).arg = t.arg
         /\ \A x : x \in Targets(Retarget(t, to)) <=> \E y \in Targets(t) : x = to[y]
<1>1. t.succ \in Seq(Nat) /\ t \in [kind : TermKinds, arg : O, succ : Seq(Nat)]
  BY DEF Terms
<1>2. PICK succ : succ = [k \in DOMAIN t.succ |-> to[t.succ[k]]]
  OBVIOUS
<1>3. succ \in [DOMAIN t.succ -> Nat]
  BY <1>2
<1>4. succ \in Seq(Nat) /\ Len(succ) = Len(t.succ) /\ DOMAIN succ = DOMAIN t.succ
  BY <1>1, <1>3, MapLemma
<1>5. PICK u : u = Retarget(t, to)
  OBVIOUS
<1>6. u = [t EXCEPT !.succ = succ]
  BY <1>2, <1>5 DEF Retarget
<1>7. u.kind = t.kind /\ u.arg = t.arg /\ u.succ = succ
  BY <1>1, <1>6
<1>8. u \in [kind : TermKinds, arg : O, succ : Seq(Nat)]
  BY <1>1, <1>4, <1>6
<1>9. u \in Terms(O)
  BY <1>4, <1>7, <1>8 DEF Terms
<1>10. \A x : x \in Targets(u) <=> \E y \in Targets(t) : x = to[y]
  BY <1>2, <1>4, <1>7, SMTT(30) DEF Targets
<1> QED BY <1>5, <1>7, <1>9, <1>10

LEMMA ThreadBlocksKeeps ==
  ASSUME NEW N, NEW f, Well(f, N)
  PROVE  Well(ThreadBlocks(f), N)
<1>1. PICK O : Wide(O) /\ f \in Graphs(O, N)
  BY DEF Well
<1>2. Framed(f)
  BY WellLemma
<1>3. PICK new : new = [b \in Blocks(O, N) |-> [b EXCEPT !.term = Retarget(@, Hop(f))]]
  OBVIOUS
<1>4. PICK blocks : blocks = [k \in DOMAIN f.blocks |-> new[f.blocks[k]]]
  OBVIOUS
<1>5. \A k \in DOMAIN f.blocks : f.blocks[k] \in Blocks(O, N)
  BY <1>1 DEF Graphs
<1>6. ThreadBlocks(f) = [f EXCEPT !.blocks = blocks]
  BY <1>3, <1>4, <1>5 DEF ThreadBlocks, OnBlocks
<1>7. ASSUME NEW b \in BlockIds(f)
      PROVE  /\ blocks[b + 1] \in Blocks(O, N) /\ Simplifies(BlockOf(f, b), blocks[b + 1])
             /\ \A x \in Targets(blocks[b + 1].term) : \E y \in Exits(f, b) : x = Hop(f)[y]
  <2>1. PICK from \in Blocks(O, N) : from = BlockOf(f, b)
    BY <1>1, GraphLemma
  <2>2. b + 1 \in DOMAIN f.blocks /\ from = f.blocks[b + 1]
    BY <1>1, <2>1, GraphLemma
  <2>3. PICK t \in Terms(O) : t = from.term
    BY <2>1 DEF Blocks
  <2>4. Targets(t) = Exits(f, b)
    BY <2>1, <2>3 DEF Exits, Targets
  <2>5. \A y \in Targets(t) : Hop(f)[y] \in Nat
    BY <1>1, <1>2, <2>4, HopLemma DEF Framed
  <2>6. \A k \in DOMAIN t.succ : Hop(f)[t.succ[k]] \in Nat
    BY <2>5 DEF Targets
  <2>7. PICK term \in Terms(O) :
          /\ term = Retarget(t, Hop(f)) /\ term.kind = t.kind /\ term.arg = t.arg
          /\ \A x : x \in Targets(term) <=> \E y \in Targets(t) : x = Hop(f)[y]
    BY <2>6, RetargetLemma
  <2>8. PICK c : c = [from EXCEPT !.term = term]
    OBVIOUS
  <2>9. c = blocks[b + 1]
    BY <1>3, <1>4, <2>2, <2>3, <2>7, <2>8
  <2>10. c \in Blocks(O, N) /\ c.insts = from.insts /\ c.term = term
    BY <2>7, <2>8, TermLemma
  <2>11. Simplifies(from, c)
    BY <2>3, <2>7, <2>10 DEF Simplifies, Rewrites
  <2> QED BY <2>1, <2>4, <2>7, <2>9, <2>10, <2>11
<1>8. ASSUME NEW k \in DOMAIN f.blocks
      PROVE  blocks[k] \in Blocks(O, N) /\ Simplifies(f.blocks[k], blocks[k])
  <2>1. PICK n \in Nat : n = Len(f.blocks) /\ DOMAIN f.blocks = 1 .. n
    BY <1>1, GraphLemma DEF IsList
  <2>2. PICK b : b = k - 1
    OBVIOUS
  <2>3. b \in BlockIds(f) /\ k = b + 1
    BY <2>1, <2>2 DEF BlockIds
  <2>4. BlockOf(f, b) = f.blocks[k]
    BY <1>1, <2>3, GraphLemma
  <2> QED BY <1>7, <2>3, <2>4
<1>9. blocks \in [DOMAIN f.blocks -> Blocks(O, N)]
  BY <1>4, <1>8
<1>10. PICK g : g = [f EXCEPT !.blocks = blocks]
  OBVIOUS
<1>11. Reblocked(f, g, blocks)
  BY <1>1, <1>9, <1>10, ReblockedLemma
<1>12. Shortens(f, g)
  <2>1. ASSUME NEW b \in BlockIds(f), NEW x \in Exits(g, b)
        PROVE  \/ x \in Exits(f, b)
               \/ \E t \in Exits(f, b) : x \in Exits(f, t) /\ BlockOf(f, t).insts = <<>>
    <3>1. x \in Targets(blocks[b + 1].term)
      BY <1>11, <2>1 DEF Reblocked, Exits, Targets
    <3>2. PICK y \in Exits(f, b) : x = Hop(f)[y]
      BY <1>7, <3>1
    <3>3. y \in BlockIds(f)
      BY <1>2, <3>2 DEF Framed
    <3> QED BY <1>1, <1>2, <3>2, <3>3, HopLemma
  <2> QED BY <2>1 DEF Shortens
<1>13. Well(g, N)
  BY <1>1, <1>8, <1>9, <1>10, <1>12, SimplifyLemma
<1> QED BY <1>6, <1>10, <1>13

----------------------------------------------------------------------------
(* local_cse.                                                              *)

\* What a pass leaves that only changes what is read.
SamePlaces(from, to) ==
  /\ DOMAIN to.insts = DOMAIN from.insts
  /\ \A k \in DOMAIN from.insts : /\ Assigns(to.insts[k]) <=> Assigns(from.insts[k])
                                  /\ to.insts[k].dst = from.insts[k].dst
  /\ to.term.kind = from.term.kind /\ to.term.succ = from.term.succ

LEMMA RereadLemma ==
  ASSUME NEW N, NEW f, Well(f, N), NEW O, f \in Graphs(O, N), NEW P, Wide(P),
         NEW blocks \in [DOMAIN f.blocks -> Blocks(P, N)],
         \A b \in BlockIds(f) : SamePlaces(BlockOf(f, b), blocks[b + 1]),
         NEW g, g = [f EXCEPT !.blocks = blocks],
         \A b \in Reachable(f) : \A k \in 1 .. Len(BlockOf(f, b).insts) + 1 :
           \A r \in ReadAt(g, b, k) : Assigned(f, r, b, k)
  PROVE  Well(g, N)
<1>1. g \in Graphs(P, N) /\ Reblocked(f, g, blocks)
  BY ReblockedLemma
<1>2. Framed(f) /\ JumpsInside(f) /\ AssignsOnce(f)
  BY WellLemma
<1>3. ASSUME NEW b \in BlockIds(f)
      PROVE  InPlace(BlockOf(f, b), BlockOf(g, b)) /\ Exits(g, b) = Exits(f, b)
  <2>1. SamePlaces(BlockOf(f, b), BlockOf(g, b))
    BY <1>1 DEF Reblocked
  <2>2. IsList(BlockOf(f, b).insts) /\ IsList(BlockOf(g, b).insts)
    <3>1. b \in BlockIds(g)
      BY <1>1 DEF Reblocked
    <3> QED BY <1>1, <3>1, GraphLemma
  <2>3. Len(BlockOf(g, b).insts) = Len(BlockOf(f, b).insts)
    BY <2>1, <2>2 DEF SamePlaces, IsList
  <2>4. BlockOf(f, b).term.kind # "Unreachable"
    BY <1>2 DEF JumpsInside
  <2> QED BY <2>1, <2>2, <2>3, <2>4 DEF InPlace, SamePlaces, Exits
<1>4. AllInPlace(f, g) /\ Shortens(f, g)
  BY <1>1, <1>3 DEF AllInPlace, Reblocked, Shortens
<1>5. Len(g.blocks) \in Nat
  BY <1>1, GraphLemma DEF IsList
<1>6. WellFormed(g)
  BY <1>2, <1>4, <1>5, InPlaceLemma
<1> QED BY <1>1, <1>6 DEF Well

\* What Seen does with the instruction k.
SeenNext(insts, seen, k) ==
  IF insts[k].kind \in CseKinds /\ Repeats(insts, seen, insts[k]) = {} THEN seen \cup {k}
  ELSE Forget(insts, seen, insts[k])

LEMMA SeenSteps ==
  ASSUME NEW insts, IsList(insts)
  PROVE  /\ Seen(insts)[0] = {}
         /\ \A k \in 1 .. Len(insts) : Seen(insts)[k] = SeenNext(insts, Seen(insts)[k - 1], k)
<1>1. PICK n, S, g :
        /\ n = Len(insts) /\ S = SUBSET (1 .. n)
        /\ g = [q \in (1 .. n) \X S |-> SeenNext(insts, q[2], q[1])]
  OBVIOUS
<1>2. n \in Nat
  BY <1>1 DEF IsList
<1>3. PICK x \in S : x = {}
  BY <1>1
<1>4. g \in [(1 .. n) \X S -> S]
  <2>1. ASSUME NEW q \in (1 .. n) \X S PROVE g[q] \in S
    <3>1. q[2] \subseteq 1 .. n /\ q[1] \in 1 .. n
      BY <1>1
    <3>2. SeenNext(insts, q[2], q[1]) \subseteq 1 .. n
      BY <3>1 DEF SeenNext, Forget
    <3> QED BY <1>1, <3>2
  <2> QED BY <1>1, <2>1
<1>5. PICK h : Loops(n, S, x, g, h)
  BY <1>2, <1>3, <1>4, LoopExists
<1>6. \A k \in 1 .. n : h[k] = SeenNext(insts, h[k - 1], k)
  BY <1>1, <1>5 DEF Loops
<1>7. h = [k \in 0 .. n |-> IF k = 0 THEN {} ELSE SeenNext(insts, h[k - 1], k)]
  <2>1. \A k \in 0 .. n : h[k] = IF k = 0 THEN {} ELSE SeenNext(insts, h[k - 1], k)
    BY <1>2, <1>3, <1>5, <1>6 DEF Loops
  <2> QED BY <1>5, <2>1 DEF Loops
<1>8. PICK w :
        /\ w = [k \in 0 .. n |-> IF k = 0 THEN {} ELSE SeenNext(insts, w[k - 1], k)]
        /\ Seen(insts) = w
  BY <1>1, <1>7 DEF Seen, SeenNext
<1>9. w[0] = {}
  BY <1>2, <1>8
<1>10. ASSUME NEW k \in 1 .. n PROVE w[k] = SeenNext(insts, w[k - 1], k)
  <2>1. k \in 0 .. n /\ k # 0
    BY <1>2
  <2> QED BY <1>8, <2>1
<1> QED BY <1>1, <1>8, <1>9, <1>10

LEMMA SeenLemma ==
  ASSUME NEW insts, IsList(insts)
  PROVE  \A k \in 0 .. Len(insts) :
           Seen(insts)[k] \subseteq {j \in 1 .. k : insts[j].kind \in CseKinds}
<1>1. PICK n, w : n \in Nat /\ n = Len(insts) /\ w = Seen(insts)
  BY DEF IsList
<1>2. w[0] = {} /\ \A k \in 1 .. n : w[k] = SeenNext(insts, w[k - 1], k)
  BY <1>1, SeenSteps
<1>3. PICK G : G = {k \in 0 .. n : w[k] \subseteq {j \in 1 .. k : insts[j].kind \in CseKinds}}
  OBVIOUS
<1>4. ASSUME NEW k \in 1 .. n, k - 1 \in G PROVE k \in G
  <2>1. w[k - 1] \subseteq {j \in 1 .. k - 1 : insts[j].kind \in CseKinds}
    BY <1>3, <1>4
  <2>2. w[k] \subseteq {j \in 1 .. k : insts[j].kind \in CseKinds}
    <3>1. CASE insts[k].kind \in CseKinds /\ Repeats(insts, w[k - 1], insts[k]) = {}
      <4>1. w[k] = w[k - 1] \cup {k}
        BY <1>2, <3>1 DEF SeenNext
      <4> QED BY <1>1, <2>1, <3>1, <4>1
    <3>2. CASE ~ (insts[k].kind \in CseKinds /\ Repeats(insts, w[k - 1], insts[k]) = {})
      <4>1. w[k] \subseteq w[k - 1]
        BY <1>2, <3>2 DEF SeenNext, Forget
      <4> QED BY <1>1, <2>1, <4>1
    <3> QED BY <3>1, <3>2
  <2> QED BY <1>1, <1>3, <2>2
<1>5. 0 .. n \subseteq G
  <2>1. 0 \in G
    BY <1>1, <1>2, <1>3
  <2> QED BY <1>1, <1>4, <2>1, CountingLemma
<1> QED BY <1>1, <1>3, <1>5

LEMMA FirstLemma ==
  ASSUME NEW K, K \subseteq Nat, K # {}
  PROVE  First(K) \in K
BY LeastLemma DEF First

\* An instruction stays, or copies the result of one before it in the block.
FromBefore(from, to) ==
  \A k \in DOMAIN from.insts :
    \/ to.insts[k] = from.insts[k]
    \/ \E j \in DOMAIN from.insts : /\ j < k /\ Assigns(from.insts[j])
                                    /\ to.insts[k].args = <<Reg(from.insts[j].dst)>>

LEMMA CseBlockLemma ==
  ASSUME NEW N, NEW O, NEW b \in Blocks(O, N), NEW P, O \subseteq P, \A r \in Int : Reg(r) \in P
  PROVE  /\ CseBlock(b) \in Blocks(P, N) /\ SamePlaces(b, CseBlock(b)) /\ CseBlock(b).term = b.term
         /\ FromBefore(b, CseBlock(b))
<1>1. b.insts \in Seq(Insts(O, N)) /\ IsList(b.insts)
  BY DEF Blocks, IsList
<1>2. PICK same : same = [k \in DOMAIN b.insts |-> Repeats(b.insts, Seen(b.insts)[k - 1], b.insts[k])]
  OBVIOUS
<1>3. PICK insts : insts = [k \in DOMAIN b.insts |->
                              IF same[k] = {} THEN b.insts[k]
                              ELSE CopyOf(b.insts[k], Reg(b.insts[First(same[k])].dst))]
  OBVIOUS
<1>4. ASSUME NEW k \in DOMAIN b.insts
      PROVE  /\ insts[k] \in Insts(P, N)
             /\ Assigns(insts[k]) <=> Assigns(b.insts[k])
             /\ insts[k].dst = b.insts[k].dst
             /\ \/ insts[k] = b.insts[k]
                \/ \E j \in DOMAIN b.insts : /\ j < k /\ Assigns(b.insts[j])
                                             /\ insts[k].args = <<Reg(b.insts[j].dst)>>
  <2>0. b.insts[k] \in Insts(O, N)
    BY <1>1
  <2>1. CASE same[k] = {}
    <3>1. insts[k] = b.insts[k]
      BY <1>3, <2>1
    <3> QED BY <2>0, <3>1, WiderLemma
  <2>2. CASE same[k] # {}
    <3>1. PICK n \in Nat : n = Len(b.insts) /\ DOMAIN b.insts = 1 .. n
      BY <1>1 DEF IsList
    <3>2. k \in 1 .. n /\ k - 1 \in 0 .. n
      BY <3>1
    <3>3. Seen(b.insts)[k - 1] \subseteq {j \in 1 .. k - 1 : b.insts[j].kind \in CseKinds}
      BY <1>1, <3>1, <3>2, SeenLemma
    <3>4. b.insts[k].kind \in CseKinds /\ same[k] \subseteq Seen(b.insts)[k - 1]
      BY <1>2, <2>2 DEF Repeats
    <3>5. PICK j \in same[k] : j = First(same[k])
      <4>1. same[k] \subseteq Nat
        BY <3>3, <3>4
      <4> QED BY <2>2, <4>1, FirstLemma
    <3>6. j \in 1 .. k - 1 /\ b.insts[j].kind \in CseKinds
      BY <3>3, <3>4, <3>5
    <3>7. j \in DOMAIN b.insts /\ j < k
      BY <3>1, <3>2, <3>6
    <3>8. Assigns(b.insts[j]) /\ Assigns(b.insts[k])
      BY <3>4, <3>6 DEF CseKinds, Assigns, IsAssign, RvalueKinds
    <3>9. b.insts[j] \in Insts(O, N)
      BY <1>1, <3>7
    <3>10. PICK o \in P : o = Reg(b.insts[j].dst)
      BY <3>9 DEF Insts
    <3>11. PICK i, c : i \in Insts(O, N) /\ i = b.insts[k] /\ c = CopyOf(i, o)
      BY <2>0
    <3>12. c \in Insts(P, N) /\ IsCopy(i, o, c)
      BY <3>11, CopyLemma
    <3>13. c = insts[k]
      BY <1>3, <2>2, <3>5, <3>10, <3>11
    <3> QED BY <3>7, <3>8, <3>10, <3>11, <3>12, <3>13 DEF IsCopy
  <2> QED BY <2>1, <2>2
<1>5. insts \in [DOMAIN b.insts -> Insts(P, N)] /\ DOMAIN insts = DOMAIN b.insts
  BY <1>3, <1>4
<1>6. PICK term \in Terms(P) : term = b.term
  BY WiderLemma DEF Blocks
<1>7. PICK c : Rebuilt(b, insts, term, c)
  BY DEF Rebuilt
<1>8. CseBlock(b) = c
  BY <1>2, <1>3, <1>6, <1>7 DEF CseBlock, Blocks, Rebuilt
<1>9. c \in Blocks(P, N) /\ c.insts = insts /\ c.term = term
  BY <1>5, <1>6, <1>7, BlockLemma
<1>10. SamePlaces(b, c)
  BY <1>4, <1>5, <1>6, <1>9 DEF SamePlaces
<1> QED BY <1>4, <1>6, <1>8, <1>9, <1>10 DEF FromBefore

LEMMA LocalCseKeeps ==
  ASSUME NEW N, NEW f, Well(f, N)
  PROVE  Well(LocalCse(f), N)
<1>1. PICK O : Wide(O) /\ f \in Graphs(O, N)
  BY DEF Well
<1>2. PICK P : O \subseteq P /\ (\A r \in Int : Reg(r) \in P) /\ Wide(P)
  <2>1. PICK P : P = O \cup {Reg(r) : r \in Int}
    OBVIOUS
  <2> QED BY <1>1, <2>1, UnitLemma DEF Wide
<1>3. Framed(f) /\ ReadsAssigned(f)
  BY WellLemma
<1>4. PICK blocks : blocks = [k \in DOMAIN f.blocks |-> CseBlock(f.blocks[k])]
  OBVIOUS
<1>5. \A k \in DOMAIN f.blocks : f.blocks[k] \in Blocks(O, N)
  BY <1>1 DEF Graphs
<1>6. blocks \in [DOMAIN f.blocks -> Blocks(P, N)]
  <2>1. \A k \in DOMAIN f.blocks : CseBlock(f.blocks[k]) \in Blocks(P, N)
    BY <1>2, <1>5, CseBlockLemma
  <2> QED BY <1>4, <2>1
<1>7. PICK g : g = [f EXCEPT !.blocks = blocks]
  OBVIOUS
<1>8. LocalCse(f) = g
  BY <1>4, <1>7 DEF LocalCse, OnBlocks
<1>9. ASSUME NEW b \in BlockIds(f)
      PROVE  BlockOf(f, b) \in Blocks(O, N) /\ blocks[b + 1] = CseBlock(BlockOf(f, b))
  BY <1>1, <1>4, GraphLemma
<1>10. \A b \in BlockIds(f) : SamePlaces(BlockOf(f, b), blocks[b + 1])
  <2> TAKE b \in BlockIds(f)
  <2>1. PICK from \in Blocks(O, N) : from = BlockOf(f, b) /\ blocks[b + 1] = CseBlock(from)
    BY <1>9
  <2>2. SamePlaces(from, CseBlock(from))
    BY <1>2, CseBlockLemma
  <2> QED BY <2>1, <2>2
<1>11. ASSUME NEW b \in Reachable(f), NEW k \in 1 .. Len(BlockOf(f, b).insts) + 1,
              NEW r \in ReadAt(g, b, k)
       PROVE  Assigned(f, r, b, k)
  <2>1. b \in BlockIds(f)
    BY <1>3, FromCovers DEF Reachable, From
  <2>2. PICK from \in Blocks(O, N) : from = BlockOf(f, b) /\ blocks[b + 1] = CseBlock(from)
    BY <1>9, <2>1
  <2>3. PICK to : to = BlockOf(g, b) /\ to = CseBlock(from)
    BY <1>1, <1>6, <1>7, <2>1, <2>2, ReblockedLemma DEF Reblocked
  <2>4. /\ DOMAIN to.insts = DOMAIN from.insts /\ to.term = from.term
        /\ \A i \in DOMAIN from.insts :
              \/ to.insts[i] = from.insts[i]
              \/ \E j \in DOMAIN from.insts : /\ j < i /\ Assigns(from.insts[j])
                                              /\ to.insts[i].args = <<Reg(from.insts[j].dst)>>
    <3>1. SamePlaces(from, to) /\ to.term = from.term /\ FromBefore(from, to)
      BY <1>2, <2>3, CseBlockLemma
    <3> QED BY <3>1 DEF SamePlaces, FromBefore
  <2>5. CASE k \in DOMAIN from.insts /\ to.insts[k] # from.insts[k]
    <3>1. PICK j \in DOMAIN from.insts : /\ j < k /\ Assigns(from.insts[j])
                                         /\ to.insts[k].args = <<Reg(from.insts[j].dst)>>
      BY <2>4, <2>5
    <3>2. r \in RegsOf(<<Reg(from.insts[j].dst)>>)
      BY <2>3, <2>4, <2>5, <3>1 DEF ReadAt
    <3>3. r = from.insts[j].dst
      BY <3>2, RegsOfOne DEF Reg
    <3>4. AssignsTo(InstAt(f, b, j), r) /\ j \in DOMAIN BlockOf(f, b).insts
      BY <2>2, <3>1, <3>3 DEF AssignsTo, InstAt
    <3>5. Dominates(f, <<b, j>>, b, k)
      BY <3>1, DominatesLemma
    <3> QED BY <2>1, <3>4, <3>5 DEF Assigned
  <2>6. CASE ~ (k \in DOMAIN from.insts /\ to.insts[k] # from.insts[k])
    <3>1. r \in ReadAt(f, b, k)
      BY <2>2, <2>3, <2>4, <2>6, <1>11 DEF ReadAt
    <3> QED BY <1>3, <3>1 DEF ReadsAssigned
  <2> QED BY <2>5, <2>6
<1> QED BY <1>1, <1>2, <1>6, <1>7, <1>8, <1>10, <1>11, RereadLemma

----------------------------------------------------------------------------
(* copy_propagation.                                                       *)

\* What an operand is in the call F.
ValueIn(F, o) == IF IsReg(o) THEN F.regs[o.v] ELSE o

\* The copies made on every way to where F stands are still what they are copies of.
CopiesHold(f, F) ==
  \A c \in BlockIds(f) : \A j \in DOMAIN BlockOf(f, c).insts :
    InstAt(f, c, j).kind = "Use" /\ Dominates(f, <<c, j>>, F.block, F.pc)
      => F.regs[InstAt(f, c, j).dst] = ValueIn(F, InstAt(f, c, j).args[1])

\* A call F has entered the block it is in.
Inside(f, F) ==
  /\ CopiesHold(f, F) /\ F.block \in Reachable(f)
  /\ F.pc \in 1 .. Len(BlockOf(f, F.block).insts) + 1

\* Where the register r is assigned the operand o has its value.
Tracks(f, o, r) ==
  \A F : Inside(f, F) /\ Assigned(f, r, F.block, F.pc) => ValueIn(F, o) = F.regs[r]

\* The operand o can be read wherever the register r can, with the same result.
Stands(f, o, r) ==
  /\ IsReg(o) =>
       \A b \in Reachable(f) : \A k \in 1 .. Len(BlockOf(f, b).insts) + 1 :
         Assigned(f, r, b, k) => Assigned(f, o.v, b, k)
  /\ Tracks(f, o, r)

\* The tables of copies that say nothing wrong.
Tables(f, O) ==
  {T \in UNION {[A -> O] : A \in SUBSET Int} :
     IsFiniteSet(DOMAIN T) /\ \A r \in DOMAIN T : Stands(f, T[r], r)}

LEMMA TablesLemma ==
  ASSUME NEW f, NEW O, NEW T
  PROVE  T \in Tables(f, O) <=>
           /\ \E A \in SUBSET Int : T \in [A -> O]
           /\ IsFiniteSet(DOMAIN T) /\ \A r \in DOMAIN T : Stands(f, T[r], r)
<1>1. T \in UNION {[A -> O] : A \in SUBSET Int} <=> \E A \in SUBSET Int : T \in [A -> O]
  OBVIOUS
<1> QED BY <1>1 DEF Tables

LEMMA NoCopies ==
  ASSUME NEW f, NEW O
  PROVE  <<>> \in Tables(f, O)
<1>1. <<>> \in [{} -> O]
  OBVIOUS
<1>2. DOMAIN <<>> = {} /\ IsFiniteSet({})
  BY FS_EmptySet
<1>3. {} \in SUBSET Int
  OBVIOUS
<1> QED BY <1>1, <1>2, <1>3, TablesLemma

LEMMA SourceLemma ==
  ASSUME NEW f, NEW O, NEW o \in O, NEW T \in Tables(f, O), NEW r, Stands(f, o, r)
  PROVE  Source(o, T) \in O /\ Stands(f, Source(o, T), r)
<1>1. PICK A \in SUBSET Int : T \in [A -> O]
  BY TablesLemma
<1>2. CASE IsReg(o) /\ o.v \in DOMAIN T
  <2>1. PICK s : s = T[o.v]
    OBVIOUS
  <2>2. s \in O /\ Stands(f, s, o.v) /\ Source(o, T) = s
    BY <1>1, <1>2, <2>1, TablesLemma DEF Source
  <2>3. Tracks(f, s, r)
    <3> SUFFICES ASSUME NEW F, Inside(f, F), Assigned(f, r, F.block, F.pc)
                 PROVE  ValueIn(F, s) = F.regs[r]
      BY DEF Tracks
    <3>1. Assigned(f, o.v, F.block, F.pc)
      BY <1>2 DEF Stands, Inside
    <3>2. ValueIn(F, s) = F.regs[o.v] /\ ValueIn(F, o) = F.regs[r]
      BY <2>2, <3>1 DEF Stands, Tracks
    <3> QED BY <1>2, <3>2 DEF ValueIn
  <2> QED BY <1>2, <2>2, <2>3 DEF Stands
<1>3. CASE ~ (IsReg(o) /\ o.v \in DOMAIN T)
  BY <1>3 DEF Source
<1> QED BY <1>2, <1>3

LEMMA ResolveLemma ==
  ASSUME NEW f, NEW O, NEW o \in O, NEW T \in Tables(f, O), NEW r, Stands(f, o, r)
  PROVE  Resolve(o, T) \in O /\ Stands(f, Resolve(o, T), r)
<1>1. PICK n, S, g :
        /\ n = Cardinality(DOMAIN T) /\ S = {s \in O : Stands(f, s, r)}
        /\ g = [q \in (1 .. n) \X S |-> Source(q[2], T)]
  OBVIOUS
<1>2. n \in Nat
  BY <1>1, TablesLemma, FS_CardinalityType
<1>3. o \in S
  BY <1>1
<1>4. g \in [(1 .. n) \X S -> S]
  <2>1. ASSUME NEW q \in (1 .. n) \X S PROVE g[q] \in S
    <3>1. PICK s \in O : s = q[2] /\ Stands(f, s, r)
      BY <1>1
    <3>2. Source(s, T) \in O /\ Stands(f, Source(s, T), r)
      BY <3>1, SourceLemma
    <3> QED BY <1>1, <3>1, <3>2
  <2> QED BY <1>1, <2>1
<1>5. PICK h : Loops(n, S, o, g, h)
  BY <1>2, <1>3, <1>4, LoopExists
<1>6. \A k \in 1 .. n : h[k] = Source(h[k - 1], T)
  BY <1>1, <1>5 DEF Loops
<1>7. h = [k \in 0 .. n |-> IF k = 0 THEN o ELSE Source(h[k - 1], T)]
  <2>1. \A k \in 0 .. n : h[k] = IF k = 0 THEN o ELSE Source(h[k - 1], T)
    BY <1>2, <1>5, <1>6 DEF Loops
  <2> QED BY <1>5, <2>1 DEF Loops
<1>8. PICK w :
        /\ w = [k \in 0 .. n |-> IF k = 0 THEN o ELSE Source(w[k - 1], T)]
        /\ Resolve(o, T) = w[n]
  BY <1>1, <1>7 DEF Resolve
<1>9. w[0] = o
  BY <1>2, <1>8
<1>10. ASSUME NEW k \in 1 .. n PROVE w[k] = Source(w[k - 1], T)
  <2>1. k \in 0 .. n /\ k # 0
    BY <1>2
  <2> QED BY <1>8, <2>1
<1>11. PICK G : G = {k \in 0 .. n : w[k] \in S}
  OBVIOUS
<1>12. ASSUME NEW k \in 1 .. n, k - 1 \in G PROVE k \in G
  <2>1. PICK s \in O : s = w[k - 1] /\ Stands(f, s, r)
    BY <1>1, <1>11, <1>12
  <2>2. Source(s, T) \in O /\ Stands(f, Source(s, T), r)
    BY <2>1, SourceLemma
  <2> QED BY <1>1, <1>2, <1>10, <1>11, <2>1, <2>2
<1>13. 0 .. n \subseteq G
  <2>1. 0 \in G
    BY <1>2, <1>3, <1>9, <1>11
  <2> QED BY <1>2, <1>12, <2>1, CountingLemma
<1>14. w[n] \in S
  BY <1>2, <1>11, <1>13
<1> QED BY <1>1, <1>8, <1>14

\* What is assigned somewhere the entry reaches is assigned by a block it reaches.
LEMMA ReachedLemma ==
  ASSUME NEW f, Framed(f), NEW c, NEW j, NEW b \in Reachable(f), NEW k,
         Dominates(f, <<c, j>>, b, k)
  PROVE  c \in Reachable(f)
<1>1. Reachable(f) = From(f, {})
  BY DEF Reachable, From
<1>2. CASE c = b
  BY <1>2
<1>3. CASE b \notin From(f, {c})
  <2>1. ASSUME c \notin From(f, {}) PROVE FALSE
    <3>1. From(f, {}) \subseteq From(f, {c})
      BY <2>1, AvoidLemma
    <3> QED BY <1>1, <1>3, <3>1
  <2> QED BY <1>1, <2>1
<1> QED BY <1>2, <1>3, DominatesLemma

\* A copy reads what is assigned wherever it is.
LEMMA CopySourceLemma ==
  ASSUME NEW N, NEW O, NEW f \in Graphs(O, N), Framed(f), AssignsOnce(f), ReadsAssigned(f),
         NEW b \in BlockIds(f), NEW k \in DOMAIN BlockOf(f, b).insts,
         InstAt(f, b, k).kind = "Use", 1 \in DOMAIN InstAt(f, b, k).args
  PROVE  Stands(f, InstAt(f, b, k).args[1], InstAt(f, b, k).dst)
<1>1. PICK o, r : o = InstAt(f, b, k).args[1] /\ r = InstAt(f, b, k).dst
  OBVIOUS
<1>2. AssignsTo(InstAt(f, b, k), r)
  BY <1>1 DEF AssignsTo, Assigns, IsAssign, RvalueKinds
<1>3. Tracks(f, o, r)
  <2> SUFFICES ASSUME NEW F, Inside(f, F), Assigned(f, r, F.block, F.pc)
               PROVE  ValueIn(F, o) = F.regs[r]
    BY DEF Tracks
  <2>1. PICK d, i : /\ d \in BlockIds(f) /\ i \in DOMAIN BlockOf(f, d).insts
                    /\ AssignsTo(InstAt(f, d, i), r) /\ Dominates(f, <<d, i>>, F.block, F.pc)
    BY DEF Assigned
  <2>2. d = b /\ i = k
    BY <1>2, <2>1 DEF AssignsOnce, AssignsTo
  <2> QED BY <1>1, <2>1, <2>2 DEF Inside, CopiesHold
<1>4. SUFFICES ASSUME IsReg(o), NEW c \in Reachable(f), NEW j \in 1 .. Len(BlockOf(f, c).insts) + 1,
                      Assigned(f, r, c, j)
               PROVE  Assigned(f, o.v, c, j)
  BY <1>3, <1>1 DEF Stands
<1>5. PICK d, i : /\ d \in BlockIds(f) /\ i \in DOMAIN BlockOf(f, d).insts
                  /\ AssignsTo(InstAt(f, d, i), r) /\ Dominates(f, <<d, i>>, c, j)
  BY <1>4 DEF Assigned
<1>6. d = b /\ i = k
  BY <1>2, <1>5 DEF AssignsOnce, AssignsTo
<1>7. b \in Reachable(f)
  BY <1>4, <1>5, <1>6, ReachedLemma
<1>8. o.v \in ReadAt(f, b, k)
  BY <1>1, <1>4 DEF ReadAt, RegsOf, InstAt
<1>9. Assigned(f, o.v, b, k)
  <2>1. k \in 1 .. Len(BlockOf(f, b).insts) + 1
    BY GraphLemma DEF IsList
  <2> QED BY <1>7, <1>8, <2>1 DEF ReadsAssigned
<1>10. PICK e, m : /\ e \in BlockIds(f) /\ m \in DOMAIN BlockOf(f, e).insts
                  /\ AssignsTo(InstAt(f, e, m), o.v) /\ Dominates(f, <<e, m>>, b, k)
  BY <1>9 DEF Assigned
<1>11. k \in Int /\ m \in Int /\ j \in Int
  <2>1. c \in BlockIds(f)
    BY <1>4, FromCovers DEF Reachable, From
  <2> QED BY <1>4, <1>10, <2>1, GraphLemma, SMTT(30) DEF IsList
<1>12. PICK x, y : x = <<b, k>> /\ y = <<e, m>>
  OBVIOUS
<1>13. x[2] \in Int /\ y[2] \in Int /\ Dominates(f, y, x[1], x[2]) /\ Dominates(f, x, c, j)
  BY <1>5, <1>6, <1>10, <1>11, <1>12
<1>14. Dominates(f, y, c, j)
  BY <1>11, <1>13, DominatesTransitively
<1> QED BY <1>10, <1>12, <1>14 DEF Assigned

LEMMA CopyAlsoLemma ==
  ASSUME NEW N, NEW O, NEW f \in Graphs(O, N), Framed(f), AssignsOnce(f), ReadsAssigned(f),
         NEW b \in BlockIds(f), NEW k \in DOMAIN BlockOf(f, b).insts, NEW T \in Tables(f, O)
  PROVE  CopyAlso(T, InstAt(f, b, k)) \in Tables(f, O)
<1>1. PICK i \in Insts(O, N) : i = InstAt(f, b, k)
  BY GraphLemma
<1>2. CASE i.kind # "Use"
  BY <1>1, <1>2 DEF CopyAlso
<1>3. CASE i.kind = "Use"
  <2>1. i.args \in Seq(O) /\ Len(i.args) = 1 /\ i.dst \in Int
    BY <1>3 DEF Insts
  <2>2. PICK o \in O : o = i.args[1] /\ 1 \in DOMAIN i.args
    BY <2>1
  <2>3. Stands(f, o, i.dst)
    BY <1>1, <1>3, <2>2, CopySourceLemma
  <2>4. PICK s \in O : s = Resolve(o, T) /\ Stands(f, s, i.dst)
    BY <2>3, ResolveLemma
  <2>5. PICK U : U = CopyAlso(T, i)
    OBVIOUS
  <2>6. U = [r \in DOMAIN T \cup {i.dst} |-> IF r = i.dst THEN s ELSE T[r]]
    BY <1>3, <2>2, <2>4, <2>5 DEF CopyAlso
  <2>7. PICK A \in SUBSET Int : T \in [A -> O]
    BY TablesLemma
  <2>8. U \in [A \cup {i.dst} -> O] /\ A \cup {i.dst} \in SUBSET Int
    BY <2>1, <2>4, <2>6, <2>7
  <2>9. IsFiniteSet(DOMAIN U)
    <3>1. IsFiniteSet(DOMAIN T)
      BY TablesLemma
    <3> QED BY <2>6, <3>1, FS_AddElement
  <2>10. ASSUME NEW r \in DOMAIN U PROVE Stands(f, U[r], r)
    <3>1. CASE r = i.dst
      BY <2>4, <2>6, <3>1
    <3>2. CASE r # i.dst
      <4>1. U[r] = T[r] /\ r \in DOMAIN T
        BY <2>6, <2>10, <3>2
      <4> QED BY <4>1, TablesLemma
    <3> QED BY <3>1, <3>2
  <2>11. U \in Tables(f, O)
    BY <2>8, <2>9, <2>10, TablesLemma
  <2> QED BY <1>1, <2>5, <2>11
<1> QED BY <1>2, <1>3

LEMMA CopiesAfterLemma ==
  ASSUME NEW N, NEW O, NEW f \in Graphs(O, N), Framed(f), AssignsOnce(f), ReadsAssigned(f),
         NEW b \in BlockIds(f), NEW T \in Tables(f, O)
  PROVE  CopiesAfter(T, BlockOf(f, b).insts) \in Tables(f, O)
<1>1. PICK insts, n, S, g :
        /\ insts = BlockOf(f, b).insts /\ n = Len(insts) /\ S = Tables(f, O)
        /\ g = [q \in (1 .. n) \X S |-> CopyAlso(q[2], insts[q[1]])]
  OBVIOUS
<1>2. n \in Nat /\ DOMAIN insts = 1 .. n
  BY <1>1, GraphLemma DEF IsList
<1>3. T \in S
  BY <1>1
<1>4. ASSUME NEW k \in 1 .. n, NEW U \in S PROVE CopyAlso(U, insts[k]) \in S
  <2>1. k \in DOMAIN BlockOf(f, b).insts /\ insts[k] = InstAt(f, b, k)
    BY <1>1, <1>2 DEF InstAt
  <2> QED BY <1>1, <2>1, CopyAlsoLemma
<1>5. g \in [(1 .. n) \X S -> S]
  BY <1>1, <1>4
<1>6. PICK h : Loops(n, S, T, g, h)
  BY <1>2, <1>3, <1>5, LoopExists
<1>7. \A k \in 1 .. n : h[k] = CopyAlso(h[k - 1], insts[k])
  BY <1>1, <1>6 DEF Loops
<1>8. h = [k \in 0 .. n |-> IF k = 0 THEN T ELSE CopyAlso(h[k - 1], insts[k])]
  <2>1. \A k \in 0 .. n : h[k] = IF k = 0 THEN T ELSE CopyAlso(h[k - 1], insts[k])
    BY <1>2, <1>6, <1>7 DEF Loops
  <2> QED BY <1>6, <2>1 DEF Loops
<1>9. PICK w :
        /\ w = [k \in 0 .. n |-> IF k = 0 THEN T ELSE CopyAlso(w[k - 1], insts[k])]
        /\ CopiesAfter(T, insts) = w[n]
  BY <1>1, <1>8 DEF CopiesAfter
<1>10. w[0] = T
  BY <1>2, <1>9
<1>11. ASSUME NEW k \in 1 .. n PROVE w[k] = CopyAlso(w[k - 1], insts[k])
  <2>1. k \in 0 .. n /\ k # 0
    BY <1>2
  <2> QED BY <1>9, <2>1
<1>12. PICK G : G = {k \in 0 .. n : w[k] \in S}
  OBVIOUS
<1>13. ASSUME NEW k \in 1 .. n, k - 1 \in G PROVE k \in G
  BY <1>2, <1>4, <1>11, <1>12, <1>13
<1>14. 0 .. n \subseteq G
  <2>1. 0 \in G
    BY <1>2, <1>3, <1>10, <1>12
  <2> QED BY <1>2, <1>13, <2>1, CountingLemma
<1>15. w[n] \in S
  BY <1>2, <1>12, <1>14
<1> QED BY <1>1, <1>9, <1>15

LEMMA CopiesLemma ==
  ASSUME NEW N, NEW O, NEW f \in Graphs(O, N), Framed(f), AssignsOnce(f), ReadsAssigned(f)
  PROVE  Copies(f) \in Tables(f, O)
<1>1. PICK n, S, g :
        /\ n = Len(f.blocks) /\ S = Tables(f, O)
        /\ g = [q \in (1 .. n) \X S |-> CopiesAfter(q[2], f.blocks[q[1]].insts)]
  OBVIOUS
<1>2. n \in Nat
  BY <1>1, GraphLemma DEF IsList
<1>3. PICK x \in S : x = <<>>
  BY <1>1, NoCopies
<1>4. ASSUME NEW k \in 1 .. n, NEW U \in S PROVE CopiesAfter(U, f.blocks[k].insts) \in S
  <2>1. PICK b \in BlockIds(f) : k = b + 1
    <3>1. PICK b : b = k - 1
      OBVIOUS
    <3>2. b \in BlockIds(f) /\ k = b + 1
      BY <1>1, <1>2, <3>1 DEF BlockIds
    <3> QED BY <3>2
  <2>2. f.blocks[k] = BlockOf(f, b)
    BY <2>1 DEF BlockOf
  <2> QED BY <1>1, <2>2, CopiesAfterLemma
<1>5. g \in [(1 .. n) \X S -> S]
  BY <1>1, <1>4
<1>6. PICK h : Loops(n, S, x, g, h)
  BY <1>2, <1>5, LoopExists
<1>7. \A k \in 1 .. n : h[k] = CopiesAfter(h[k - 1], f.blocks[k].insts)
  BY <1>1, <1>6 DEF Loops
<1>8. h = [k \in 0 .. n |-> IF k = 0 THEN <<>> ELSE CopiesAfter(h[k - 1], f.blocks[k].insts)]
  <2>1. \A k \in 0 .. n : h[k] = IF k = 0 THEN x ELSE CopiesAfter(h[k - 1], f.blocks[k].insts)
    BY <1>2, <1>6, <1>7 DEF Loops
  <2>2. h = [k \in 0 .. n |-> IF k = 0 THEN x ELSE CopiesAfter(h[k - 1], f.blocks[k].insts)]
    BY <1>6, <2>1 DEF Loops
  <2> QED BY <1>3, <2>2
<1>9. PICK w :
        /\ w = [k \in 0 .. n |-> IF k = 0 THEN <<>> ELSE CopiesAfter(w[k - 1], f.blocks[k].insts)]
        /\ Copies(f) = w[n]
  BY <1>1, <1>8 DEF Copies
<1>10. w[0] = x
  BY <1>2, <1>3, <1>9
<1>11. ASSUME NEW k \in 1 .. n PROVE w[k] = CopiesAfter(w[k - 1], f.blocks[k].insts)
  <2>1. k \in 0 .. n /\ k # 0
    BY <1>2
  <2> QED BY <1>9, <2>1
<1>12. PICK G : G = {k \in 0 .. n : w[k] \in S}
  OBVIOUS
<1>13. ASSUME NEW k \in 1 .. n, k - 1 \in G PROVE k \in G
  BY <1>2, <1>4, <1>11, <1>12, <1>13
<1>14. 0 .. n \subseteq G
  <2>1. 0 \in G
    BY <1>2, <1>10, <1>12
  <2> QED BY <1>2, <1>13, <2>1, CountingLemma
<1>15. w[n] \in S
  BY <1>2, <1>12, <1>14
<1> QED BY <1>1, <1>9, <1>15

\* An instruction in the place of another of the same kind.
LEMMA SameShapeLemma ==
  ASSUME NEW N, NEW O, NEW i \in Insts(O, N),
         NEW j \in [kind : InstKinds, dst : Int, op : MirOps, n : Int, args : Seq(O)],
         j.kind = i.kind, j.op = i.op, j.n = i.n, Len(j.args) = Len(i.args)
  PROVE  j \in Insts(O, N)
BY DEF Insts

LEMMA CopyPropagationKeeps ==
  ASSUME NEW N, NEW f, Well(f, N)
  PROVE  Well(CopyPropagation(f), N)
<1>1. PICK O : Wide(O) /\ f \in Graphs(O, N)
  BY DEF Well
<1>2. Framed(f) /\ AssignsOnce(f) /\ ReadsAssigned(f)
  BY WellLemma
<1>3. PICK T \in Tables(f, O) : T = Copies(f)
  BY <1>1, <1>2, CopiesLemma
<1>4. \A o \in O : Source(o, T) \in O
  <2>1. PICK A \in SUBSET Int : T \in [A -> O]
    BY TablesLemma
  <2> QED BY <2>1 DEF Source
<1> DEFINE Reread(i) == [i EXCEPT !.args = [k \in DOMAIN i.args |-> Source(i.args[k], T)]]
           New(b)    == [OnInsts(b, Reread) EXCEPT !.term.arg = Source(@, T)]
<1>5. ASSUME NEW i \in Insts(O, N)
      PROVE  /\ Reread(i) \in Insts(O, N) /\ (Assigns(Reread(i)) <=> Assigns(i)) /\ Reread(i).dst = i.dst
             /\ DOMAIN Reread(i).args = DOMAIN i.args
             /\ \A k \in DOMAIN i.args : i.args[k] \in O /\ Reread(i).args[k] = Source(i.args[k], T)
  <2>1. i.args \in Seq(O) /\ i \in [kind : InstKinds, dst : Int, op : MirOps, n : Int, args : Seq(O)]
    BY DEF Insts
  <2>2. PICK as : as = [k \in DOMAIN i.args |-> Source(i.args[k], T)]
    OBVIOUS
  <2>3. as \in [DOMAIN i.args -> O]
    BY <1>4, <2>1, <2>2
  <2>4. as \in Seq(O) /\ Len(as) = Len(i.args) /\ DOMAIN as = DOMAIN i.args
    BY <2>1, <2>3, MapLemma
  <2>5. PICK j : j = [i EXCEPT !.args = as]
    OBVIOUS
  <2>6. j = Reread(i)
    BY <2>2, <2>5
  <2>7. j.kind = i.kind /\ j.dst = i.dst /\ j.args = as
    BY <2>1, <2>5
  <2>8. j \in [kind : InstKinds, dst : Int, op : MirOps, n : Int, args : Seq(O)]
    BY <2>1, <2>4, <2>5
  <2>9. j \in Insts(O, N)
    <3>1. j.op = i.op /\ j.n = i.n
      BY <2>1, <2>5
    <3>2. Len(j.args) = Len(i.args)
      BY <2>4, <2>7
    <3> QED BY <2>7, <2>8, <3>1, <3>2, SameShapeLemma
  <2>10. Assigns(j) <=> Assigns(i)
    BY <2>7 DEF Assigns, IsAssign, IsCall
  <2>11. \A k \in DOMAIN i.args : i.args[k] \in O /\ j.args[k] = Source(i.args[k], T)
    BY <2>1, <2>2, <2>7
  <2> HIDE DEF Reread
  <2> QED BY <2>4, <2>6, <2>7, <2>9, <2>10, <2>11
<1> HIDE DEF Reread
<1>6. ASSUME NEW b \in Blocks(O, N)
      PROVE  /\ New(b) \in Blocks(O, N) /\ SamePlaces(b, New(b))
             /\ b.term.arg \in O /\ New(b).term.arg = Source(b.term.arg, T)
             /\ \A k \in DOMAIN b.insts : b.insts[k] \in Insts(O, N) /\ New(b).insts[k] = Reread(b.insts[k])
  <2>1. b.insts \in Seq(Insts(O, N)) /\ b.term \in Terms(O)
    BY DEF Blocks
  <2>2. \A k \in DOMAIN b.insts : b.insts[k] \in Insts(O, N)
    BY <2>1
  <2>3. PICK insts : insts = [k \in DOMAIN b.insts |-> Reread(b.insts[k])]
    OBVIOUS
  <2>4. insts \in [DOMAIN b.insts -> Insts(O, N)] /\ DOMAIN insts = DOMAIN b.insts
    BY <1>5, <2>2, <2>3
  <2>5. b.term \in [kind : TermKinds, arg : O, succ : Seq(Nat)]
    BY <2>1 DEF Terms
  <2>6. PICK arg \in O : arg = Source(b.term.arg, T)
    BY <1>4, <2>5
  <2>7. PICK term : term = [b.term EXCEPT !.arg = arg]
    OBVIOUS
  <2>8. term \in Terms(O) /\ term.kind = b.term.kind /\ term.succ = b.term.succ /\ term.arg = arg
    BY <2>1, <2>5, <2>6, <2>7 DEF Terms
  <2>9. PICK c : Rebuilt(b, insts, term, c)
    BY DEF Rebuilt
  <2>10. New(b) = c
    BY <2>3, <2>6, <2>7, <2>9 DEF OnInsts, Blocks, Rebuilt
  <2>11. c \in Blocks(O, N) /\ c.insts = insts /\ c.term = term
    BY <2>4, <2>8, <2>9, BlockLemma
  <2>12. \A k \in DOMAIN b.insts : c.insts[k] = Reread(b.insts[k])
    BY <2>3, <2>11
  <2>13. SamePlaces(b, c)
    BY <1>5, <2>2, <2>4, <2>8, <2>11, <2>12 DEF SamePlaces
  <2> HIDE DEF New
  <2> QED BY <2>2, <2>5, <2>6, <2>8, <2>10, <2>11, <2>12, <2>13
<1>7. PICK blocks : blocks = [k \in DOMAIN f.blocks |-> New(f.blocks[k])]
  OBVIOUS
<1>8. PICK g : g = [f EXCEPT !.blocks = blocks]
  OBVIOUS
<1>9. CopyPropagation(f) = g
  BY <1>3, <1>7, <1>8 DEF CopyPropagation, OnBlocks, Reread
<1>10. \A k \in DOMAIN f.blocks : f.blocks[k] \in Blocks(O, N)
  BY <1>1 DEF Graphs
<1> HIDE DEF New
<1>11. blocks \in [DOMAIN f.blocks -> Blocks(O, N)]
  BY <1>6, <1>7, <1>10
<1>12. \A b \in BlockIds(f) : BlockOf(f, b) \in Blocks(O, N) /\ blocks[b + 1] = New(BlockOf(f, b))
  BY <1>1, <1>7, GraphLemma
<1>13. \A b \in BlockIds(f) : SamePlaces(BlockOf(f, b), blocks[b + 1])
  BY <1>6, <1>12
<1>14. \A b \in BlockIds(f) : BlockOf(g, b) = New(BlockOf(f, b))
  BY <1>1, <1>8, <1>11, <1>12, ReblockedLemma DEF Reblocked
<1>15. ASSUME NEW b \in Reachable(f), NEW k \in 1 .. Len(BlockOf(f, b).insts) + 1,
              NEW r \in ReadAt(g, b, k)
       PROVE  Assigned(f, r, b, k)
  <2>1. b \in BlockIds(f)
    BY <1>2, FromCovers DEF Reachable, From
  <2>2. PICK from \in Blocks(O, N) : from = BlockOf(f, b) /\ BlockOf(g, b) = New(from)
    BY <1>12, <1>14, <2>1
  <2>3. PICK m \in DOMAIN Operands(g, b, k) :
          IsReg(Operands(g, b, k)[m]) /\ r = Operands(g, b, k)[m].v
    BY ReadAtLemma
  <2>4. DOMAIN New(from).insts = DOMAIN from.insts
    BY <1>6 DEF SamePlaces
  <2>5. /\ m \in DOMAIN Operands(f, b, k) /\ Operands(f, b, k)[m] \in O
        /\ Operands(g, b, k)[m] = Source(Operands(f, b, k)[m], T)
    <3>1. CASE k \in DOMAIN from.insts
      <4>1. PICK i \in Insts(O, N) : i = from.insts[k] /\ New(from).insts[k] = Reread(i)
        BY <1>6, <3>1
      <4>2. Operands(f, b, k) = i.args /\ Operands(g, b, k) = Reread(i).args
        BY <2>2, <2>4, <3>1, <4>1 DEF Operands, InstAt
      <4> QED BY <1>5, <2>3, <4>2
    <3>2. CASE k \notin DOMAIN from.insts
      <4>1. PICK a \in O : a = from.term.arg /\ New(from).term.arg = Source(a, T)
        BY <1>6
      <4>2. Operands(f, b, k) = <<a>> /\ Operands(g, b, k) = <<Source(a, T)>>
        BY <2>2, <2>4, <3>2, <4>1 DEF Operands
      <4>3. m = 1
        BY <2>3, <4>2
      <4> QED BY <4>1, <4>2, <4>3
    <3> QED BY <3>1, <3>2
  <2>6. PICK o \in O : o = Operands(f, b, k)[m] /\ Operands(g, b, k)[m] = Source(o, T)
    BY <2>5
  <2>7. CASE IsReg(o) /\ o.v \in DOMAIN T
    <3>1. Source(o, T) = T[o.v]
      BY <2>7 DEF Source
    <3>2. Stands(f, T[o.v], o.v)
      BY <2>7, TablesLemma
    <3>3. o.v \in ReadAt(f, b, k)
      BY <2>5, <2>6, <2>7, ReadAtLemma
    <3>4. Assigned(f, o.v, b, k)
      BY <1>2, <3>3 DEF ReadsAssigned
    <3> QED BY <2>3, <2>6, <3>1, <3>2, <3>4 DEF Stands
  <2>8. CASE ~ (IsReg(o) /\ o.v \in DOMAIN T)
    <3>1. Source(o, T) = o
      BY <2>8 DEF Source
    <3>2. r \in ReadAt(f, b, k)
      BY <2>3, <2>5, <2>6, <3>1, ReadAtLemma
    <3> QED BY <1>2, <3>2 DEF ReadsAssigned
  <2> QED BY <2>7, <2>8
<1> QED BY <1>1, <1>8, <1>9, <1>11, <1>13, <1>15, RereadLemma

----------------------------------------------------------------------------
(* dead_store and dead_code.                                               *)

LEMMA RankLemma ==
  ASSUME NEW K, K \subseteq Int, IsFiniteSet(K)
  PROVE  /\ \A k \in Int : Rank(K, k) \in Nat
         /\ \A k \in K : Rank(K, k) \in 0 .. Cardinality(K) - 1
         /\ \A j \in K, k \in Int : j < k => Rank(K, j) < Rank(K, k)
         /\ \A i \in 0 .. Cardinality(K) - 1 : \E k \in K : Rank(K, k) = i
<1> DEFINE Below(k) == {j \in K : j < k}
<1>1. PICK m \in Nat : m = Cardinality(K)
  BY FS_CardinalityType
<1>2. ASSUME NEW k \in Int
      PROVE  Rank(K, k) = Cardinality(Below(k)) /\ IsFiniteSet(Below(k)) /\ Rank(K, k) \in Nat
  <2>1. Below(k) \in SUBSET K
    OBVIOUS
  <2>2. Rank(K, k) = Cardinality(Below(k))
    BY DEF Rank
  <2> HIDE DEF Below
  <2> QED BY <2>1, <2>2, FS_Subset, FS_CardinalityType
<1>3. ASSUME NEW j \in K, NEW k \in Int, j < k PROVE Rank(K, j) < Rank(K, k)
  <2>1. j \in Int
    OBVIOUS
  <2>2. j \notin Below(j) /\ Below(j) \cup {j} \in SUBSET Below(k)
    <3>1. j \notin Below(j) /\ j \in Below(k)
      BY <1>3, <2>1
    <3>2. ASSUME NEW i \in Below(j) PROVE i \in Below(k)
      <4>1. i \in Int /\ i \in K /\ i < j
        OBVIOUS
      <4> QED BY <1>3, <2>1, <4>1
    <3> HIDE DEF Below
    <3> QED BY <3>1, <3>2
  <2> HIDE DEF Below
  <2>3. Cardinality(Below(j) \cup {j}) = Cardinality(Below(j)) + 1
    BY <1>2, <2>1, <2>2, FS_AddElement
  <2>4. Cardinality(Below(j) \cup {j}) <= Cardinality(Below(k))
    BY <1>2, <2>2, FS_Subset
  <2> QED BY <1>2, <2>1, <2>3, <2>4
<1>4. ASSUME NEW k \in K PROVE Rank(K, k) \in 0 .. m - 1
  <2>1. k \in Int
    OBVIOUS
  <2>2. Below(k) \in SUBSET (K \ {k})
    BY <2>1
  <2> HIDE DEF Below
  <2>3. IsFiniteSet(K \ {k}) /\ Cardinality(K \ {k}) = m - 1
    BY <1>1, FS_RemoveElement
  <2>4. Cardinality(Below(k)) <= m - 1
    BY <2>2, <2>3, FS_Subset
  <2> QED BY <1>1, <1>2, <2>1, <2>4
<1>5. PICK T, r : T = 0 .. m - 1 /\ r = [k \in K |-> Rank(K, k)]
  OBVIOUS
<1>6. IsFiniteSet(T) /\ Cardinality(T) = m
  <2>1. IsFiniteSet(0 .. m - 1) /\ Cardinality(0 .. m - 1) = IF 0 > m - 1 THEN 0 ELSE m - 1 - 0 + 1
    BY FS_Interval
  <2> QED BY <1>5, <2>1
<1>7. r \in [K -> T]
  BY <1>4, <1>5
<1>8. ASSUME NEW a \in K, NEW b \in K, r[a] = r[b] PROVE a = b
  <2>1. a \in Int /\ b \in Int
    OBVIOUS
  <2>2. PICK i \in Nat : i = Rank(K, a)
    BY <1>2, <2>1
  <2>3. i = Rank(K, b)
    BY <1>5, <1>8, <2>2
  <2>4. ASSUME a < b PROVE FALSE
    <3>1. Rank(K, a) < Rank(K, b)
      BY <1>3, <2>1, <2>4
    <3> QED BY <2>2, <2>3, <3>1
  <2>5. ASSUME b < a PROVE FALSE
    <3>1. Rank(K, b) < Rank(K, a)
      BY <1>3, <2>1, <2>5
    <3> QED BY <2>2, <2>3, <3>1
  <2> QED BY <2>1, <2>4, <2>5
<1>9. r \in Injection(K, T)
  BY <1>7, <1>8 DEF Injection, IsInjective
<1>10. r \in Surjection(K, T)
  BY <1>1, <1>6, <1>9, FS_Injection
<1>11. \A i \in T : \E k \in K : r[k] = i
  BY <1>10 DEF Surjection
<1> QED BY <1>1, <1>2, <1>3, <1>4, <1>5, <1>11

\* Where the items that are kept were; last, the end.
Place(K, n) ==
  [i \in 1 .. Cardinality(K) + 1 |->
     IF i = Cardinality(K) + 1 THEN n + 1 ELSE CHOOSE k \in K : Rank(K, k) = i - 1]

\* The list t is s without the positions outside K, and was at P.
KeptBy(s, K, t, P) ==
  /\ IsList(t)
  /\ P[Len(t) + 1] = Len(s) + 1
  /\ \A i \in DOMAIN t : P[i] \in K /\ t[i] = s[P[i]]
  /\ \A i, j \in 1 .. Len(t) + 1 : i < j => P[i] < P[j]
  /\ \A k \in K : \E i \in DOMAIN t : P[i] = k

LEMMA KeepLemma ==
  ASSUME NEW S, NEW s \in Seq(S), NEW K, K \subseteq DOMAIN s
  PROVE  /\ Keep(s, K) \in Seq(S)
         /\ Len(Keep(s, K)) = Cardinality(K)
         /\ KeptBy(s, K, Keep(s, K), Place(K, Len(s)))
<1>1. PICK n \in Nat : n = Len(s) /\ DOMAIN s = 1 .. n
  OBVIOUS
<1>2. IsFiniteSet(K) /\ K \subseteq Int
  <2>1. K \in SUBSET (1 .. n) /\ IsFiniteSet(1 .. n)
    BY <1>1, FS_Interval
  <2> QED BY <2>1, FS_Subset
<1>3. PICK m \in Nat : m = Cardinality(K)
  BY <1>2, FS_CardinalityType
<1>4. PICK P : P = Place(K, n)
  OBVIOUS
<1>5. ASSUME NEW i \in 1 .. m
      PROVE  P[i] \in K /\ Rank(K, P[i]) = i - 1 /\ P[i] = CHOOSE k \in K : Rank(K, k) = i - 1
  <2>1. P[i] = CHOOSE k \in K : Rank(K, k) = i - 1
    BY <1>3, <1>4 DEF Place
  <2>2. i - 1 \in 0 .. m - 1
    BY <1>3
  <2>3. \E k \in K : Rank(K, k) = i - 1
    BY <1>2, <1>3, <2>2, RankLemma
  <2> QED BY <2>1, <2>3
<1>6. P[m + 1] = n + 1
  BY <1>3, <1>4 DEF Place
<1>7. PICK t : t = Keep(s, K)
  OBVIOUS
<1>8. t \in [1 .. m -> S] /\ \A i \in 1 .. m : t[i] = s[P[i]]
  <2>1. t = [i \in 1 .. m |-> s[CHOOSE k \in K : Rank(K, k) = i - 1]]
    BY <1>3, <1>7 DEF Keep
  <2>2. \A i \in 1 .. m : t[i] = s[P[i]]
    BY <1>5, <2>1
  <2>3. \A i \in 1 .. m : s[P[i]] \in S
    BY <1>1, <1>5
  <2> QED BY <2>1, <2>2, <2>3
<1>9. t \in Seq(S) /\ Len(t) = m /\ DOMAIN t = 1 .. m
  BY <1>8
<1>10. ASSUME NEW i \in 1 .. m + 1, NEW j \in 1 .. m + 1, i < j PROVE P[i] < P[j]
  <2>1. i \in 1 .. m /\ P[i] \in K /\ P[i] \in 1 .. n
    BY <1>1, <1>5, <1>10
  <2>2. CASE j = m + 1
    BY <1>1, <1>6, <2>1, <2>2
  <2>3. CASE j \in 1 .. m
    <3>1. P[j] \in K /\ P[j] \in Int /\ P[i] \in Int
      BY <1>2, <1>5, <2>1, <2>3
    <3>2. Rank(K, P[i]) = i - 1 /\ Rank(K, P[j]) = j - 1
      BY <1>5, <2>1, <2>3
    <3>3. P[i] # P[j] /\ ~ (P[j] < P[i])
      <4>1. P[j] < P[i] => j - 1 < i - 1
        BY <1>2, <3>1, <3>2, RankLemma
      <4>2. i - 1 # j - 1
        BY <1>10
      <4> QED BY <1>10, <3>2, <4>1, <4>2
    <3> QED BY <3>1, <3>3
  <2> QED BY <2>2, <2>3
<1>11. ASSUME NEW k \in K PROVE \E i \in 1 .. m : P[i] = k
  <2>1. k \in Int /\ Rank(K, k) \in 0 .. m - 1
    BY <1>2, <1>3, RankLemma
  <2>2. PICK i \in 1 .. m : i = Rank(K, k) + 1
    BY <2>1
  <2>3. P[i] \in K /\ P[i] \in Int /\ Rank(K, P[i]) = Rank(K, k)
    BY <1>2, <1>5, <2>1, <2>2
  <2>4. ~ (P[i] < k) /\ ~ (k < P[i])
    <3>1. P[i] < k => Rank(K, P[i]) < Rank(K, k)
      BY <1>2, <2>1, <2>3, RankLemma
    <3>2. k < P[i] => Rank(K, k) < Rank(K, P[i])
      BY <1>2, <2>1, <2>3, RankLemma
    <3> QED BY <2>1, <2>3, <3>1, <3>2
  <2> QED BY <2>1, <2>3, <2>4
<1>12. KeptBy(s, K, t, P)
  BY <1>1, <1>5, <1>6, <1>8, <1>9, <1>10, <1>11 DEF KeptBy, IsList
<1> QED BY <1>1, <1>3, <1>4, <1>7, <1>9, <1>12

\* A pass that keeps the instructions at the positions keep[k] of each block, and drops
\* none whose result is read.
LEMMA DropLemma ==
  ASSUME NEW N, NEW f, Well(f, N), NEW O, Wide(O), f \in Graphs(O, N), NEW keep,
         \A b \in BlockIds(f) : keep[b + 1] \subseteq DOMAIN BlockOf(f, b).insts,
         \A b \in BlockIds(f) : \A k \in DOMAIN BlockOf(f, b).insts :
           k \notin keep[b + 1] /\ Assigns(InstAt(f, b, k)) =>
             \A c \in BlockIds(f) : \A j \in 1 .. Len(BlockOf(f, c).insts) + 1 :
               InstAt(f, b, k).dst \notin ReadAt(f, c, j),
         NEW g, g = [f EXCEPT !.blocks = [k \in DOMAIN f.blocks |->
                       [f.blocks[k] EXCEPT !.insts = Keep(f.blocks[k].insts, keep[k])]]]
  PROVE  Well(g, N)
<1>1. Framed(f) /\ JumpsInside(f) /\ AssignsOnce(f) /\ ReadsAssigned(f)
  BY WellLemma
<1>2. PICK blocks : blocks = [k \in DOMAIN f.blocks |->
                       [f.blocks[k] EXCEPT !.insts = Keep(f.blocks[k].insts, keep[k])]]
  OBVIOUS
<1>3. ASSUME NEW b \in BlockIds(f)
      PROVE  /\ b + 1 \in DOMAIN f.blocks /\ blocks[b + 1] \in Blocks(O, N)
             /\ blocks[b + 1].term = BlockOf(f, b).term
             /\ blocks[b + 1].insts = Keep(BlockOf(f, b).insts, keep[b + 1])
  <2>1. b + 1 \in DOMAIN f.blocks /\ BlockOf(f, b) = f.blocks[b + 1]
    BY GraphLemma
  <2>2. PICK from \in Blocks(O, N) : from = BlockOf(f, b)
    BY GraphLemma
  <2>3. PICK insts : insts = Keep(from.insts, keep[b + 1])
    OBVIOUS
  <2>4. insts \in Seq(Insts(O, N))
    <3>1. from.insts \in Seq(Insts(O, N)) /\ keep[b + 1] \subseteq DOMAIN from.insts
      BY <2>2 DEF Blocks
    <3> QED BY <2>3, <3>1, KeepLemma
  <2>5. PICK c : c = [from EXCEPT !.insts = insts]
    OBVIOUS
  <2>6. c \in Blocks(O, N) /\ c.term = from.term /\ c.insts = insts
    BY <2>4, <2>5 DEF Blocks
  <2>7. blocks[b + 1] = c
    BY <1>2, <2>1, <2>2, <2>3, <2>5
  <2> QED BY <2>1, <2>2, <2>3, <2>6, <2>7
<1>4. PICK n \in Nat : n = Len(f.blocks) /\ DOMAIN f.blocks = 1 .. n
  BY GraphLemma DEF IsList
<1>5. blocks \in [DOMAIN f.blocks -> Blocks(O, N)]
  <2>1. ASSUME NEW k \in DOMAIN f.blocks PROVE blocks[k] \in Blocks(O, N)
    <3>1. PICK b : b = k - 1
      OBVIOUS
    <3>2. b \in BlockIds(f) /\ k = b + 1
      BY <1>4, <3>1 DEF BlockIds
    <3> QED BY <1>3, <3>2
  <2> QED BY <1>2, <2>1
<1>6. g = [f EXCEPT !.blocks = blocks]
  BY <1>2
<1>7. g \in Graphs(O, N) /\ Reblocked(f, g, blocks)
  BY <1>5, <1>6, ReblockedLemma
<1>8. BlockIds(g) = BlockIds(f) /\ g.entry = f.entry /\ g.regs = f.regs /\ g.locals = f.locals
  BY <1>7 DEF Reblocked
<1>9. PICK at : at = [b \in BlockIds(f) |-> Place(keep[b + 1], Len(BlockOf(f, b).insts))]
  OBVIOUS
<1>10. ASSUME NEW b \in BlockIds(f)
       PROVE  /\ BlockOf(g, b).term = BlockOf(f, b).term
              /\ Moved(BlockOf(f, b), BlockOf(g, b), at[b])
              /\ \A i \in DOMAIN BlockOf(g, b).insts :
                    InstAt(g, b, i) = InstAt(f, b, at[b][i])
              /\ \A k \in keep[b + 1] : \E i \in DOMAIN BlockOf(g, b).insts : at[b][i] = k
  <2>1. PICK s, K : s = BlockOf(f, b).insts /\ K = keep[b + 1]
    OBVIOUS
  <2>2. s \in Seq(Insts(O, N)) /\ IsList(s) /\ K \subseteq DOMAIN s
    <3>1. BlockOf(f, b) \in Blocks(O, N) /\ IsList(s)
      BY <2>1, GraphLemma
    <3> QED BY <2>1, <3>1 DEF Blocks
  <2>3. BlockOf(g, b).insts = Keep(s, K) /\ BlockOf(g, b).term = BlockOf(f, b).term
    BY <1>3, <1>7, <2>1 DEF Reblocked
  <2>4. PICK t, P : t = Keep(s, K) /\ P = Place(K, Len(s)) /\ P = at[b]
    BY <1>9, <2>1
  <2>5. KeptBy(s, K, t, P)
    BY <2>2, <2>4, KeepLemma
  <2>6. PICK u, v : u = BlockOf(f, b) /\ v = BlockOf(g, b) /\ u.insts = s /\ v.insts = t
    BY <2>1, <2>3, <2>4
  <2>7. \A i \in DOMAIN t : P[i] \in DOMAIN s /\ t[i] = s[P[i]]
    BY <2>2, <2>5 DEF KeptBy
  <2>8. Moved(u, v, P)
    BY <2>2, <2>5, <2>6, <2>7 DEF KeptBy, Moved
  <2>9. \A k \in K : \E i \in DOMAIN t : P[i] = k
    BY <2>5 DEF KeptBy
  <2> QED BY <2>1, <2>3, <2>4, <2>6, <2>7, <2>8, <2>9 DEF InstAt
<1>11. Kept(f, g, at)
  BY <1>8, <1>10 DEF Kept
<1>12. ASSUME NEW b \in BlockIds(f) PROVE Exits(g, b) = Exits(f, b)
  <2>1. BlockOf(g, b).term = BlockOf(f, b).term
    BY <1>10
  <2> QED BY <2>1 DEF Exits
<1>13. JumpsInside(g) /\ Framed(g)
  <2>1. JumpsInside(g)
    BY <1>1, <1>8, <1>10, <1>12 DEF JumpsInside
  <2> QED BY <1>7, <2>1, JumpsFrameLemma
<1>14. NoFurther(f, g)
  <2>1. Shortens(f, g)
    BY <1>12 DEF Shortens
  <2> QED BY <1>1, <1>8, <1>13, <2>1, NoFurtherLemma
<1>15. ASSUME NEW b \in Reachable(g), NEW k \in 1 .. Len(BlockOf(g, b).insts) + 1,
              NEW r \in ReadAt(g, b, k)
       PROVE  \E c \in BlockIds(f) : \E j \in DOMAIN BlockOf(g, c).insts :
                AssignsTo(InstAt(g, c, j), r) /\ Dominates(f, <<c, at[c][j]>>, b, at[b][k])
  <2>1. b \in BlockIds(f) /\ b \in Reachable(f)
    <3>1. b \in Reachable(f)
      BY <1>14 DEF NoFurther
    <3> QED BY <1>1, <3>1, FromCovers DEF Reachable, From
  <2>2. Moved(BlockOf(f, b), BlockOf(g, b), at[b])
    BY <1>10, <2>1
  <2>3. at[b][k] \in 1 .. Len(BlockOf(f, b).insts) + 1
    BY <2>2, PlaceLemma
  <2>4. r \in ReadAt(f, b, at[b][k])
    <3>1. CASE k \in DOMAIN BlockOf(g, b).insts
      <4>1. at[b][k] \in DOMAIN BlockOf(f, b).insts
        BY <2>2, <3>1 DEF Moved
      <4>2. InstAt(g, b, k) = InstAt(f, b, at[b][k])
        BY <1>10, <2>1, <3>1
      <4> QED BY <3>1, <4>1, <4>2 DEF ReadAt, InstAt
    <3>2. CASE k \notin DOMAIN BlockOf(g, b).insts
      <4>1. k = Len(BlockOf(g, b).insts) + 1
        <5>1. PICK m \in Nat : m = Len(BlockOf(g, b).insts) /\ DOMAIN BlockOf(g, b).insts = 1 .. m
          BY <2>2 DEF Moved, IsList
        <5>2. k \in 1 .. m + 1
          BY <5>1
        <5> QED BY <3>2, <5>1, <5>2
      <4>2. at[b][k] = Len(BlockOf(f, b).insts) + 1
        BY <2>2, <4>1 DEF Moved
      <4>3. at[b][k] \notin DOMAIN BlockOf(f, b).insts
        BY <2>2, <4>2 DEF Moved, IsList
      <4>4. BlockOf(g, b).term = BlockOf(f, b).term
        BY <1>10, <2>1
      <4> QED BY <3>2, <4>3, <4>4 DEF ReadAt
    <3> QED BY <3>1, <3>2
  <2>5. Assigned(f, r, b, at[b][k])
    BY <1>1, <2>1, <2>3, <2>4 DEF ReadsAssigned
  <2>6. PICK c, i : /\ c \in BlockIds(f) /\ i \in DOMAIN BlockOf(f, c).insts
                    /\ AssignsTo(InstAt(f, c, i), r) /\ Dominates(f, <<c, i>>, b, at[b][k])
    BY <2>5 DEF Assigned
  <2>7. i \in keep[c + 1]
    BY <2>1, <2>3, <2>4, <2>6 DEF AssignsTo
  <2>8. PICK j \in DOMAIN BlockOf(g, c).insts : at[c][j] = i
    BY <1>10, <2>6, <2>7
  <2>9. InstAt(g, c, j) = InstAt(f, c, i)
    BY <1>10, <2>6, <2>8
  <2> QED BY <2>6, <2>8, <2>9
<1>16. ReadsMoved(f, g, at)
  BY <1>15 DEF ReadsMoved
<1>17. WellFormed(g)
  BY <1>1, <1>11, <1>13, <1>14, <1>16, PassLemma
<1> QED BY <1>7, <1>8, <1>17 DEF Well

LEMMA DeadStoreKeeps ==
  ASSUME NEW N, NEW f, Well(f, N)
  PROVE  Well(DeadStore(f), N)
<1>1. PICK O : Wide(O) /\ f \in Graphs(O, N)
  BY DEF Well
<1>2. PICK keep : keep = [k \in DOMAIN f.blocks |->
                            {j \in DOMAIN f.blocks[k].insts : ~ Overwritten(f.blocks[k].insts, j)}]
  OBVIOUS
<1>3. PICK g : g = [f EXCEPT !.blocks = [k \in DOMAIN f.blocks |->
                      [f.blocks[k] EXCEPT !.insts = Keep(f.blocks[k].insts, keep[k])]]]
  OBVIOUS
<1>4. DeadStore(f) = g
  <2>1. DeadStore(f) = [f EXCEPT !.blocks = [k \in DOMAIN f.blocks |->
          [f.blocks[k] EXCEPT !.insts =
             Keep(f.blocks[k].insts,
                  {j \in DOMAIN f.blocks[k].insts : ~ Overwritten(f.blocks[k].insts, j)})]]]
    <3>1. \A k \in DOMAIN f.blocks : f.blocks[k] \in [insts : Seq(Insts(O, N)), term : Terms(O)]
      <4>1. \A k \in DOMAIN f.blocks : f.blocks[k] \in Blocks(O, N)
        BY <1>1 DEF Graphs
      <4> QED BY <4>1 DEF Blocks
    <3> QED BY <3>1 DEF DeadStore, OnBlocks
  <2> QED BY <1>2, <1>3, <2>1
<1>5. \A b \in BlockIds(f) : b + 1 \in DOMAIN f.blocks /\ BlockOf(f, b) = f.blocks[b + 1]
  BY <1>1, GraphLemma
<1>6. \A b \in BlockIds(f) : keep[b + 1] \subseteq DOMAIN BlockOf(f, b).insts
  BY <1>2, <1>5
<1>7. ASSUME NEW b \in BlockIds(f), NEW k \in DOMAIN BlockOf(f, b).insts, k \notin keep[b + 1]
      PROVE  ~ Assigns(InstAt(f, b, k))
  <2>1. Overwritten(BlockOf(f, b).insts, k)
    BY <1>2, <1>5, <1>7
  <2>2. InstAt(f, b, k).kind = "Store"
    BY <2>1 DEF Overwritten, InstAt
  <2> QED BY <2>2 DEF Assigns, IsAssign, IsCall, RvalueKinds
<1>8. Well(g, N)
  BY <1>1, <1>3, <1>6, <1>7, DropLemma
<1> QED BY <1>4, <1>8

LEMMA UsedRegsLemma ==
  ASSUME NEW f, NEW b \in BlockIds(f), b + 1 \in DOMAIN f.blocks, NEW k
  PROVE  ReadAt(f, b, k) \subseteq UsedRegs(f)
<1> DEFINE In(j) == {RegsOf(f.blocks[j].insts[i].args) : i \in DOMAIN f.blocks[j].insts}
           Of(j) == RegsOf(<<f.blocks[j].term.arg>>) \cup UNION In(j)
<1>1. UsedRegs(f) = UNION {Of(j) : j \in DOMAIN f.blocks}
  BY DEF UsedRegs
<1>2. ReadAt(f, b, k) \subseteq Of(b + 1)
  <2>1. CASE k \in DOMAIN f.blocks[b + 1].insts
    <3>1. ReadAt(f, b, k) \in In(b + 1)
      BY <2>1 DEF ReadAt, BlockOf
    <3>2. UNION In(b + 1) \subseteq Of(b + 1)
      OBVIOUS
    <3> HIDE DEF In, Of
    <3> QED BY <3>1, <3>2
  <2>2. CASE k \notin DOMAIN f.blocks[b + 1].insts
    <3>1. ReadAt(f, b, k) = RegsOf(<<f.blocks[b + 1].term.arg>>)
      BY <2>2 DEF ReadAt, BlockOf
    <3> HIDE DEF In
    <3> QED BY <3>1
  <2> QED BY <2>1, <2>2
<1> HIDE DEF Of
<1>3. Of(b + 1) \in {Of(j) : j \in DOMAIN f.blocks}
  OBVIOUS
<1> QED BY <1>1, <1>2, <1>3

LEMMA DeadCodeKeeps ==
  ASSUME NEW N, NEW f, Well(f, N)
  PROVE  Well(DeadCode(f), N)
<1>1. PICK O : Wide(O) /\ f \in Graphs(O, N)
  BY DEF Well
<1>2. PICK keep : keep = [k \in DOMAIN f.blocks |->
                            {j \in DOMAIN f.blocks[k].insts :
                               ~ IsAssign(f.blocks[k].insts[j]) \/ f.blocks[k].insts[j].dst \in UsedRegs(f)}]
  OBVIOUS
<1>3. PICK g : g = [f EXCEPT !.blocks = [k \in DOMAIN f.blocks |->
                      [f.blocks[k] EXCEPT !.insts = Keep(f.blocks[k].insts, keep[k])]]]
  OBVIOUS
<1>4. DeadCode(f) = g
  <2>1. DeadCode(f) = [f EXCEPT !.blocks = [k \in DOMAIN f.blocks |->
          [f.blocks[k] EXCEPT !.insts =
             Keep(f.blocks[k].insts,
                  {j \in DOMAIN f.blocks[k].insts :
                     ~ IsAssign(f.blocks[k].insts[j]) \/ f.blocks[k].insts[j].dst \in UsedRegs(f)})]]]
    <3>1. \A k \in DOMAIN f.blocks : f.blocks[k] \in [insts : Seq(Insts(O, N)), term : Terms(O)]
      <4>1. \A k \in DOMAIN f.blocks : f.blocks[k] \in Blocks(O, N)
        BY <1>1 DEF Graphs
      <4> QED BY <4>1 DEF Blocks
    <3> QED BY <3>1 DEF DeadCode, OnBlocks
  <2> QED BY <1>2, <1>3, <2>1
<1>5. \A b \in BlockIds(f) : b + 1 \in DOMAIN f.blocks /\ BlockOf(f, b) = f.blocks[b + 1]
  BY <1>1, GraphLemma
<1>6. \A b \in BlockIds(f) : keep[b + 1] \subseteq DOMAIN BlockOf(f, b).insts
  BY <1>2, <1>5
<1>7. ASSUME NEW b \in BlockIds(f), NEW k \in DOMAIN BlockOf(f, b).insts, k \notin keep[b + 1],
             NEW c \in BlockIds(f), NEW j
      PROVE  InstAt(f, b, k).dst \notin ReadAt(f, c, j)
  <2>1. InstAt(f, b, k).dst \notin UsedRegs(f)
    BY <1>2, <1>5, <1>7 DEF InstAt
  <2>2. ReadAt(f, c, j) \subseteq UsedRegs(f)
    BY <1>5, UsedRegsLemma
  <2> QED BY <2>1, <2>2
<1>8. Well(g, N)
  BY <1>1, <1>3, <1>6, <1>7, DropLemma
<1> QED BY <1>4, <1>8

----------------------------------------------------------------------------
(* The blocks that are removed.                                            *)

\* The blocks of g are those of f that the entry reaches: `new' gives their numbers in
\* g, and `old' the ones they had.
Renumbered(f, g, new, old) ==
  /\ new \in [Reachable(f) -> BlockIds(g)] /\ old \in [BlockIds(g) -> Reachable(f)]
  /\ \A b \in Reachable(f) : old[new[b]] = b
  /\ \A i \in BlockIds(g) : new[old[i]] = i
  /\ g.entry = new[f.entry] /\ g.regs = f.regs
  /\ \A i \in BlockIds(g) :
       /\ BlockOf(g, i).insts = BlockOf(f, old[i]).insts
       /\ BlockOf(g, i).term.kind = BlockOf(f, old[i]).term.kind
       /\ BlockOf(g, i).term.arg = BlockOf(f, old[i]).term.arg
       /\ \A x : x \in Exits(g, i) <=> \E y \in Exits(f, old[i]) : x = new[y]

LEMMA RenumberLemma ==
  ASSUME NEW N, NEW O, NEW f \in Graphs(O, N), JumpsInside(f), AssignsOnce(f), ReadsAssigned(f),
         NEW g, Len(g.blocks) \in Nat, NEW new, NEW old, Renumbered(f, g, new, old)
  PROVE  WellFormed(g)
<1>1. Framed(f)
  BY JumpsFrameLemma
<1>2. PICK R : R = Reachable(f)
  OBVIOUS
<1>3. /\ R \subseteq BlockIds(f) /\ f.entry \in R
      /\ \A b \in R : Exits(f, b) \subseteq R
  <2>1. Covers(f, From(f, {}), {}) /\ From(f, {}) \subseteq BlockIds(f) \ {}
    BY <1>1, FromCovers
  <2>2. R = From(f, {})
    BY <1>2 DEF Reachable, From
  <2> QED BY <2>1, <2>2 DEF Covers
<1>4. /\ \A b \in R : new[b] \in BlockIds(g) /\ old[new[b]] = b
      /\ \A i \in BlockIds(g) : old[i] \in R /\ new[old[i]] = i
      /\ g.entry = new[f.entry] /\ g.regs = f.regs
  BY <1>2 DEF Renumbered
<1>5. \A i \in BlockIds(g) :
       /\ BlockOf(g, i).insts = BlockOf(f, old[i]).insts
       /\ BlockOf(g, i).term.kind = BlockOf(f, old[i]).term.kind
       /\ BlockOf(g, i).term.arg = BlockOf(f, old[i]).term.arg
  BY DEF Renumbered
<1>6. \A i \in BlockIds(g) : \A x : x \in Exits(g, i) <=> \E y \in Exits(f, old[i]) : x = new[y]
  BY DEF Renumbered
<1>7. JumpsInside(g) /\ Framed(g)
  <2>1. g.entry \in BlockIds(g)
    BY <1>3, <1>4
  <2>2. ASSUME NEW i \in BlockIds(g)
        PROVE  BlockOf(g, i).term.kind # "Unreachable" /\ Exits(g, i) \subseteq BlockIds(g)
    <3>1. old[i] \in R /\ old[i] \in BlockIds(f)
      BY <1>3, <1>4
    <3>2. BlockOf(g, i).term.kind # "Unreachable"
      BY <1>5, <3>1 DEF JumpsInside
    <3>3. Exits(g, i) \subseteq BlockIds(g)
      BY <1>3, <1>4, <1>6, <3>1
    <3> QED BY <3>2, <3>3
  <2> QED BY <2>1, <2>2 DEF JumpsInside, Framed
<1>8. \A i \in BlockIds(g) : \A k : InstAt(g, i, k) = InstAt(f, old[i], k)
  BY <1>5 DEF InstAt
<1>9. AssignsOnce(g)
  <2> SUFFICES ASSUME NEW b \in BlockIds(g), NEW c \in BlockIds(g),
                      NEW k \in DOMAIN BlockOf(g, b).insts, NEW j \in DOMAIN BlockOf(g, c).insts
               PROVE  /\ Assigns(InstAt(g, b, k)) => InstAt(g, b, k).dst \in 0 .. g.regs - 1
                      /\ Assigns(InstAt(g, b, k)) /\ Assigns(InstAt(g, c, j))
                           /\ InstAt(g, b, k).dst = InstAt(g, c, j).dst => b = c /\ k = j
    BY DEF AssignsOnce
  <2>1. PICK x, y : x = old[b] /\ y = old[c]
    OBVIOUS
  <2>2. x \in BlockIds(f) /\ y \in BlockIds(f) /\ (x = y => b = c)
    BY <1>3, <1>4, <2>1
  <2>3. k \in DOMAIN BlockOf(f, x).insts /\ j \in DOMAIN BlockOf(f, y).insts
    BY <1>5, <2>1
  <2>4. InstAt(g, b, k) = InstAt(f, x, k) /\ InstAt(g, c, j) = InstAt(f, y, j)
    BY <1>8, <2>1
  <2> QED BY <1>4, <2>2, <2>3, <2>4 DEF AssignsOnce
<1>10. ASSUME NEW c \in R PROVE \A b \in BlockIds(g) : b \in From(g, {new[c]}) => old[b] \in From(f, {c})
  <2>1. PICK F : F = From(f, {c}) /\ Covers(f, F, {c})
    BY <1>1, FromCovers
  <2>2. PICK C : C = {i \in BlockIds(g) : old[i] \in F}
    OBVIOUS
  <2>3. g.entry # new[c] => g.entry \in C
    BY <1>3, <1>4, <1>7, <2>1, <2>2 DEF Covers, Framed
  <2>4. ASSUME NEW i \in C, NEW x \in Exits(g, i), x # new[c] PROVE x \in C
    <3>1. i \in BlockIds(g) /\ old[i] \in F /\ old[i] \in R
      BY <1>4, <2>2
    <3>2. PICK y \in Exits(f, old[i]) : x = new[y]
      BY <1>6, <3>1
    <3>3. y \in R /\ y # c
      BY <1>3, <2>4, <3>1, <3>2
    <3>4. y \in F
      BY <2>1, <3>1, <3>3 DEF Covers
    <3> QED BY <1>4, <2>2, <3>2, <3>3, <3>4
  <2>5. Covers(g, C, {new[c]})
    BY <2>3, <2>4 DEF Covers
  <2>6. From(g, {new[c]}) \subseteq C
    BY <1>7, <2>5, LeastCover
  <2> QED BY <2>1, <2>2, <2>6
<1>11. ASSUME NEW b \in Reachable(g), NEW k \in 1 .. Len(BlockOf(g, b).insts) + 1,
              NEW r \in ReadAt(g, b, k)
       PROVE  Assigned(g, r, b, k)
  <2>1. b \in BlockIds(g)
    BY <1>7, FromCovers DEF Reachable, From
  <2>2. PICK x \in R : x = old[b] /\ new[x] = b
    BY <1>4, <2>1
  <2>3. BlockOf(g, b).insts = BlockOf(f, x).insts /\ BlockOf(g, b).term.arg = BlockOf(f, x).term.arg
    BY <1>5, <2>1, <2>2
  <2>4. r \in ReadAt(f, x, k)
    BY <2>3 DEF ReadAt
  <2>5. Assigned(f, r, x, k)
    BY <1>2, <2>2, <2>3, <2>4 DEF ReadsAssigned
  <2>6. PICK c, j : /\ c \in BlockIds(f) /\ j \in DOMAIN BlockOf(f, c).insts
                    /\ AssignsTo(InstAt(f, c, j), r) /\ Dominates(f, <<c, j>>, x, k)
    BY <2>5 DEF Assigned
  <2>7. c \in R
    BY <1>1, <1>2, <2>2, <2>6, ReachedLemma
  <2>8. PICK d \in BlockIds(g) : d = new[c] /\ old[d] = c
    BY <1>4, <2>7
  <2>9. j \in DOMAIN BlockOf(g, d).insts /\ AssignsTo(InstAt(g, d, j), r)
    BY <1>5, <1>8, <2>6, <2>8
  <2>10. Dominates(g, <<d, j>>, b, k)
    <3>1. CASE c = x /\ j < k
      <4>1. d = b /\ j < k
        BY <2>2, <2>8, <3>1
      <4> QED BY <4>1, DominatesLemma
    <3>2. CASE c # x /\ x \notin From(f, {c})
      <4>1. b \notin From(g, {d}) /\ d # b
        BY <1>10, <2>1, <2>2, <2>7, <2>8, <3>2
      <4> QED BY <4>1, DominatesLemma
    <3> QED BY <2>6, <3>1, <3>2, DominatesLemma
  <2> QED BY <2>8, <2>9, <2>10 DEF Assigned
<1>12. ReadsAssigned(g)
  BY <1>11 DEF ReadsAssigned
<1> QED BY <1>7, <1>9, <1>12, WellFormedLemma

LEMMA RemoveUnreachableKeeps ==
  ASSUME NEW N, NEW f, Well(f, N)
  PROVE  Well(RemoveUnreachable(f), N)
<1>1. PICK O : Wide(O) /\ f \in Graphs(O, N)
  BY DEF Well
<1>2. Framed(f) /\ JumpsInside(f) /\ AssignsOnce(f) /\ ReadsAssigned(f)
  BY WellLemma
<1>3. PICK R, n : R = Reachable(f) /\ n = Len(f.blocks)
  OBVIOUS
<1>4. n \in Nat /\ DOMAIN f.blocks = 1 .. n /\ BlockIds(f) = 0 .. n - 1 /\ f.blocks \in Seq(Blocks(O, N))
  <2>1. f.blocks \in Seq(Blocks(O, N))
    BY <1>1 DEF Graphs
  <2> QED BY <1>1, <1>3, <2>1, GraphLemma DEF IsList
<1>5. R \subseteq 0 .. n - 1 /\ f.entry \in R /\ \A b \in R : Exits(f, b) \subseteq R
  <2>1. Covers(f, From(f, {}), {}) /\ From(f, {}) \subseteq BlockIds(f) \ {}
    BY <1>2, FromCovers
  <2>2. R = From(f, {})
    BY <1>3 DEF Reachable, From
  <2> QED BY <1>2, <1>4, <2>1, <2>2 DEF Covers, Framed
<1>6. PICK K : K = {b + 1 : b \in R}
  OBVIOUS
<1>7. K \subseteq DOMAIN f.blocks /\ \A b \in Int : b + 1 \in K <=> b \in R
  <2>1. K \subseteq 1 .. n
    BY <1>4, <1>5, <1>6
  <2>2. ASSUME NEW b \in Int, b + 1 \in K PROVE b \in R
    <3>1. PICK c \in R : b + 1 = c + 1
      BY <1>6, <2>2
    <3>2. c \in Int
      BY <1>5
    <3>3. b = c
      BY <3>1, <3>2
    <3> QED BY <3>3
  <2> QED BY <1>4, <1>6, <2>1, <2>2
<1>8. IsFiniteSet(R) /\ IsFiniteSet(K) /\ R \subseteq Int /\ K \subseteq Int
  <2>1. IsFiniteSet(0 .. n - 1) /\ IsFiniteSet(1 .. n)
    BY <1>4, FS_Interval
  <2>2. R \in SUBSET (0 .. n - 1) /\ K \in SUBSET (1 .. n)
    BY <1>4, <1>5, <1>7
  <2>3. IsFiniteSet(R) /\ IsFiniteSet(K)
    BY <2>1, <2>2, FS_Subset
  <2> QED BY <1>4, <2>2, <2>3
<1>9. PICK kept, P, m : kept = Keep(f.blocks, K) /\ P = Place(K, n) /\ m = Cardinality(K)
  OBVIOUS
<1>10. kept \in Seq(Blocks(O, N)) /\ Len(kept) = m /\ KeptBy(f.blocks, K, kept, P)
  BY <1>3, <1>4, <1>7, <1>9, KeepLemma
<1>11. m \in Nat /\ DOMAIN kept = 1 .. m
  BY <1>8, <1>9, <1>10, FS_CardinalityType
<1>12. ASSUME NEW i \in 1 .. m
       PROVE  /\ P[i] \in K /\ P[i] - 1 \in R /\ kept[i] = f.blocks[P[i]]
              /\ Rank(K, P[i]) = i - 1
  <2>1. P[i] \in K /\ kept[i] = f.blocks[P[i]]
    BY <1>10, <1>11 DEF KeptBy
  <2>2. PICK b \in Int : b = P[i] - 1 /\ b + 1 = P[i]
    <3>1. PICK k \in Int : k = P[i]
      BY <1>8, <2>1
    <3>2. k - 1 \in Int /\ (k - 1) + 1 = k
      OBVIOUS
    <3> QED BY <3>1, <3>2
  <2>3. b \in R
    BY <1>7, <2>1, <2>2
  <2>4. P[i] = CHOOSE k \in K : Rank(K, k) = i - 1
    BY <1>9, <1>11 DEF Place
  <2>5. \E k \in K : Rank(K, k) = i - 1
    <3>1. i - 1 \in 0 .. m - 1
      BY <1>11
    <3> QED BY <1>8, <1>9, <3>1, RankLemma
  <2> QED BY <2>1, <2>2, <2>3, <2>4, <2>5
<1>13. ASSUME NEW b \in R PROVE Rank(R, b) = Rank(K, b + 1)
  <2>1. PICK S, T : S = {c \in R : c < b} /\ T = {k \in K : k < b + 1}
    OBVIOUS
  <2>2. PICK h : h = [c \in S |-> c + 1]
    OBVIOUS
  <2>3. b \in Int /\ S \subseteq R /\ R \subseteq Int
    BY <1>8, <2>1
  <2>4. h \in Bijection(S, T)
    <3>1. \A c \in S : h[c] \in T
      BY <1>7, <2>1, <2>2, <2>3
    <3>2. \A k \in T : \E c \in S : h[c] = k
      <4> TAKE k \in T
      <4>1. k \in K /\ k \in Int /\ k < b + 1
        BY <1>8, <2>1
      <4>2. PICK c \in Int : k = c + 1
        BY <4>1
      <4>3. c \in R /\ c < b
        BY <1>7, <2>3, <4>1, <4>2
      <4> QED BY <2>1, <2>2, <4>2, <4>3
    <3>3. \A c, d \in S : h[c] = h[d] => c = d
      BY <2>2, <2>3
    <3> QED BY <2>2, <3>1, <3>2, <3>3 DEF Bijection, Injection, Surjection, IsInjective
  <2>5. ExistsBijection(S, T)
    BY <2>4 DEF ExistsBijection
  <2>6. IsFiniteSet(S)
    <3>1. S \in SUBSET R
      BY <2>3
    <3> QED BY <1>8, <3>1, FS_Subset
  <2>7. Cardinality(T) = Cardinality(S)
    BY <2>5, <2>6, FS_Bijection
  <2> QED BY <2>1, <2>7 DEF Rank
<1>14. PICK new, old : new = Remap(f) /\ old = [i \in 0 .. m - 1 |-> P[i + 1] - 1]
  OBVIOUS
<1>15. ASSUME NEW b \in R
       PROVE  new[b] \in 0 .. m - 1 /\ new[b] = Rank(K, b + 1) /\ b + 1 \in K
  <2>1. b \in Int /\ b + 1 \in K
    BY <1>7, <1>8
  <2>2. new[b] = Rank(K, b + 1)
    BY <1>3, <1>13, <1>14 DEF Remap
  <2> QED BY <1>8, <1>9, <2>1, <2>2, RankLemma
<1>16. ASSUME NEW i \in 0 .. m - 1 PROVE old[i] \in R /\ new[old[i]] = i /\ kept[i + 1] = BlockOf(f, old[i])
  <2>1. PICK j \in 1 .. m : j = i + 1
    BY <1>11
  <2>2. P[j] \in K /\ P[j] - 1 \in R /\ kept[j] = f.blocks[P[j]] /\ Rank(K, P[j]) = j - 1
    BY <1>12
  <2>3. P[j] \in Int
    BY <1>8, <2>2
  <2>4. old[i] = P[j] - 1 /\ old[i] + 1 = P[j]
    BY <1>14, <2>1, <2>3
  <2>5. new[old[i]] = j - 1
    BY <1>15, <2>2, <2>4
  <2> QED BY <2>1, <2>2, <2>4, <2>5 DEF BlockOf
<1>17. ASSUME NEW b \in R PROVE old[new[b]] = b
  <2>1. PICK i \in 0 .. m - 1 : i = new[b]
    BY <1>15
  <2>2. old[i] \in R /\ new[old[i]] = i
    BY <1>16
  <2>3. PICK x, y : x = old[i] + 1 /\ y = b + 1
    OBVIOUS
  <2>4. old[i] \in Int /\ b \in Int /\ x \in K /\ y \in K /\ Rank(K, x) = i /\ Rank(K, y) = i
    BY <1>8, <1>15, <2>1, <2>2, <2>3
  <2>5. ~ (x < y) /\ ~ (y < x)
    <3>1. x < y => Rank(K, x) < Rank(K, y)
      BY <1>8, <2>3, <2>4, RankLemma
    <3>2. y < x => Rank(K, y) < Rank(K, x)
      BY <1>8, <2>3, <2>4, RankLemma
    <3> QED BY <2>1, <2>4, <3>1, <3>2
  <2> QED BY <2>1, <2>3, <2>4, <2>5
<1>18. ASSUME NEW i \in 1 .. m
       PROVE  /\ kept[i] \in Blocks(O, N) /\ kept[i].term \in Terms(O)
              /\ \A k \in DOMAIN kept[i].term.succ : new[kept[i].term.succ[k]] \in Nat
  <2>1. kept[i] \in Blocks(O, N)
    BY <1>10, <1>11
  <2>2. PICK j \in 0 .. m - 1 : j = i - 1 /\ j + 1 = i
    BY <1>11
  <2>3. old[j] \in R /\ kept[i] = BlockOf(f, old[j])
    BY <1>16, <2>2
  <2>4. ASSUME NEW k \in DOMAIN kept[i].term.succ PROVE new[kept[i].term.succ[k]] \in Nat
    <3>1. kept[i].term.succ[k] \in Exits(f, old[j])
      BY <2>3 DEF Exits
    <3>2. kept[i].term.succ[k] \in R
      BY <1>5, <2>3, <3>1
    <3> QED BY <1>15, <3>2
  <2> QED BY <2>1, <2>4 DEF Blocks
<1>19. PICK blocks : blocks = [k \in DOMAIN kept |-> [kept[k] EXCEPT !.term = Retarget(@, new)]]
  OBVIOUS
<1>20. ASSUME NEW i \in 1 .. m
       PROVE  /\ blocks[i] \in Blocks(O, N) /\ blocks[i].insts = kept[i].insts
              /\ blocks[i].term = Retarget(kept[i].term, new)
  <2>1. PICK b \in Blocks(O, N) : b = kept[i] /\ b.term \in Terms(O)
    BY <1>18
  <2>2. PICK term \in Terms(O) : term = Retarget(b.term, new)
    BY <1>18, <2>1, RetargetLemma
  <2>3. PICK c : c = [b EXCEPT !.term = term]
    OBVIOUS
  <2>4. c = blocks[i]
    BY <1>11, <1>19, <2>1, <2>2, <2>3
  <2>5. c \in Blocks(O, N) /\ c.insts = b.insts /\ c.term = term
    BY <2>3, TermLemma
  <2> QED BY <2>1, <2>2, <2>4, <2>5
<1>21. blocks \in Seq(Blocks(O, N)) /\ Len(blocks) = m
  <2>1. blocks \in [1 .. m -> Blocks(O, N)]
    BY <1>11, <1>19, <1>20
  <2> QED BY <1>11, <2>1
<1>22. PICK g : g = RemoveUnreachable(f)
  OBVIOUS
<1>23. g = [f EXCEPT !.entry = new[f.entry], !.blocks = blocks]
  BY <1>3, <1>6, <1>9, <1>14, <1>19, <1>22 DEF RemoveUnreachable, Graphs
<1>24. /\ g \in Graphs(O, N) /\ g.entry = new[f.entry] /\ g.blocks = blocks
       /\ g.regs = f.regs /\ g.locals = f.locals
  <2>1. PICK e \in Nat : e = new[f.entry]
    <3>1. new[f.entry] \in 0 .. m - 1
      BY <1>5, <1>15
    <3> QED BY <3>1
  <2>2. PICK bs \in Seq(Blocks(O, N)) : bs = blocks
    BY <1>21
  <2>3. g = [f EXCEPT !.entry = e, !.blocks = bs]
    BY <1>23, <2>1, <2>2
  <2> QED BY <1>1, <2>1, <2>2, <2>3 DEF Graphs
<1>25. BlockIds(g) = 0 .. m - 1
  BY <1>21, <1>24 DEF BlockIds
<1>26. ASSUME NEW i \in BlockIds(g)
       PROVE  /\ BlockOf(g, i).insts = BlockOf(f, old[i]).insts
              /\ BlockOf(g, i).term.kind = BlockOf(f, old[i]).term.kind
              /\ BlockOf(g, i).term.arg = BlockOf(f, old[i]).term.arg
              /\ \A x : x \in Exits(g, i) <=> \E y \in Exits(f, old[i]) : x = new[y]
  <2>1. PICK j \in 1 .. m : j = i + 1
    BY <1>11, <1>25
  <2>2. PICK b, c : b = BlockOf(f, old[i]) /\ c = BlockOf(g, i)
    OBVIOUS
  <2>3. b = kept[j] /\ c = blocks[j]
    BY <1>16, <1>24, <1>25, <2>1, <2>2 DEF BlockOf
  <2>4. c.insts = b.insts /\ c.term = Retarget(b.term, new)
    BY <1>20, <2>3
  <2>5. PICK t \in Terms(O) : t = b.term /\ \A k \in DOMAIN t.succ : new[t.succ[k]] \in Nat
    BY <1>18, <2>3
  <2>6. /\ c.term.kind = t.kind /\ c.term.arg = t.arg
        /\ \A x : x \in Targets(c.term) <=> \E y \in Targets(t) : x = new[y]
    BY <2>4, <2>5, RetargetLemma
  <2>7. Exits(g, i) = Targets(c.term) /\ Exits(f, old[i]) = Targets(t)
    BY <2>2, <2>5 DEF Exits, Targets
  <2> QED BY <2>2, <2>4, <2>5, <2>6, <2>7
<1>27. Renumbered(f, g, new, old)
  <2>1. new \in [Reachable(f) -> BlockIds(g)]
    <3>1. DOMAIN new = R /\ new = [b \in R |-> new[b]]
      BY <1>3, <1>14 DEF Remap
    <3> QED BY <1>3, <1>15, <1>25, <3>1
  <2>2. old \in [BlockIds(g) -> Reachable(f)]
    <3>1. DOMAIN old = 0 .. m - 1 /\ old = [i \in 0 .. m - 1 |-> old[i]]
      BY <1>14
    <3> QED BY <1>3, <1>16, <1>25, <3>1
  <2> QED BY <1>3, <1>16, <1>17, <1>24, <1>25, <1>26, <2>1, <2>2 DEF Renumbered
<1>28. WellFormed(g)
  <2>1. Len(g.blocks) \in Nat
    BY <1>11, <1>21, <1>24
  <2> QED BY <1>1, <1>2, <1>27, <2>1, RenumberLemma
<1> QED BY <1>1, <1>22, <1>24, <1>28 DEF Well

----------------------------------------------------------------------------
(* The optimizer.                                                          *)

LEMMA MirTurnKeeps ==
  ASSUME NEW N, NEW f, Well(f, N)
  PROVE  Well(MirTurn(f), N)
<1>1. PICK a : a = CopyPropagation(AlgebraicSimplify(ConstFold(f))) /\ Well(a, N)
  BY ConstFoldKeeps, AlgebraicSimplifyKeeps, CopyPropagationKeeps
<1>2. PICK b : b = DeadCode(DeadStore(LocalCse(a))) /\ Well(b, N)
  BY <1>1, LocalCseKeeps, DeadStoreKeeps, DeadCodeKeeps
<1>3. PICK c : c = OnBlocks(b, LAMBDA x : [x EXCEPT !.term = Collapse(@)]) /\ Well(c, N)
  BY <1>2, CollapseKeeps
<1>4. PICK d : d = RemoveUnreachable(ThreadBlocks(c)) /\ Well(d, N)
  BY <1>3, ThreadBlocksKeeps, RemoveUnreachableKeeps
<1>5. MirTurn(f) = d
  BY <1>1, <1>2, <1>3, <1>4 DEF MirTurn, Passes, SimplifyCfg
<1> QED BY <1>4, <1>5

\* What mir::build is to return.
WellBuilt(m) ==
  /\ \E S, M : m \in [functions : Seq(S), main : M]
  /\ m.main \in MirFns(m)
  /\ \A f \in MirFns(m) : Well(MirFn(m, f), NamesIn(m, f))

\* The trees the program goes through are among Trees, and each is built well.
EmitsMir(Trees) ==
  /\ Corpus \subseteq Trees
  /\ \A h \in Trees : RoundOf(h) \in Trees /\ WellBuilt(BuildOf(h))

\* A program after a turn over one of its functions: what the others can name stays.
LEMMA TurnLemma ==
  ASSUME NEW m, WellBuilt(m), NEW i \in MirFns(m),
         NEW n, n = [m EXCEPT !.functions[i + 1] = MirTurn(MirFn(m, i))]
  PROVE  WellBuilt(n) /\ MirFns(n) = MirFns(m)
<1>1. PICK S, M : m \in [functions : Seq(S), main : M]
  BY DEF WellBuilt
<1>2. PICK k \in Nat : k = Len(m.functions) /\ DOMAIN m.functions = 1 .. k /\ MirFns(m) = 0 .. k - 1
  BY <1>1 DEF MirFns
<1>3. PICK f, N : f = MirTurn(MirFn(m, i)) /\ N = NamesIn(m, i) /\ Well(f, N)
  BY MirTurnKeeps DEF WellBuilt
<1>4. PICK fs : fs = [m.functions EXCEPT ![i + 1] = f]
  OBVIOUS
<1>5. fs \in Seq(S \cup {f}) /\ Len(fs) = k
  <2>1. fs \in [1 .. k -> S \cup {f}]
    BY <1>1, <1>2, <1>4
  <2> QED BY <2>1
<1>6. n = [m EXCEPT !.functions = fs]
  BY <1>3, <1>4
<1>7. n \in [functions : Seq(S \cup {f}), main : M] /\ n.functions = fs /\ n.main = m.main
  BY <1>1, <1>5, <1>6
<1>8. MirFns(n) = MirFns(m)
  BY <1>2, <1>5, <1>7 DEF MirFns
<1>9. ASSUME NEW j \in MirFns(n) PROVE Well(MirFn(n, j), NamesIn(n, j))
  <2>1. j \in 0 .. k - 1 /\ i \in 0 .. k - 1
    BY <1>2, <1>8
  <2>2. CASE j = i
    <3>1. MirFn(n, j) = f
      BY <1>2, <1>4, <1>7, <2>1, <2>2 DEF MirFn
    <3>2. NamesIn(n, j) = N
      <4>1. N = [locals |-> 0 .. MirFn(m, i).locals - 1, functions |-> MirFns(m)]
        BY <1>3 DEF NamesIn
      <4>2. N.locals = 0 .. f.locals - 1
        BY <1>3 DEF Well
      <4>3. N = [locals |-> 0 .. f.locals - 1, functions |-> MirFns(n)]
        BY <1>8, <4>1, <4>2
      <4> QED BY <3>1, <4>3 DEF NamesIn
    <3> QED BY <1>3, <3>1, <3>2
  <2>3. CASE j # i
    <3>1. MirFn(n, j) = MirFn(m, j)
      BY <1>2, <1>4, <1>7, <2>1, <2>3 DEF MirFn
    <3>2. NamesIn(n, j) = NamesIn(m, j)
      BY <1>8, <3>1 DEF NamesIn
    <3> QED BY <1>8, <3>1, <3>2 DEF WellBuilt
  <2> QED BY <2>2, <2>3
<1>10. n.main \in MirFns(n)
  BY <1>7, <1>8 DEF WellBuilt
<1> QED BY <1>7, <1>8, <1>9, <1>10 DEF WellBuilt

----------------------------------------------------------------------------
(* The calls of the interpreter.                                           *)

FnOf(m, F)   == MirFn(m, F.func)
HereIn(m, F) == BlockOf(FnOf(m, F), F.block)

IsFrame(F) ==
  \E R, L, A : F \in [func : Int, block : Nat, pc : Nat, regs : R, locals : L, assigned : A]

\* A call of the program m stands in its function, and has all registers and locals.
Placed(m, F) ==
  /\ IsFrame(F) /\ F.func \in MirFns(m) /\ F.block \in Reachable(FnOf(m, F))
  /\ F.pc \in 0 .. Len(HereIn(m, F).insts) + 1
  /\ DOMAIN F.regs = 0 .. FnOf(m, F).regs - 1 /\ DOMAIN F.locals = 0 .. FnOf(m, F).locals - 1

\* They hold values of a heap of n arrays.
Holds(F, n) ==
  /\ \A r \in DOMAIN F.regs : IsValue(F.regs[r], n)
  /\ \A l \in DOMAIN F.locals : IsValue(F.locals[l], n)

\* It has assigned what is assigned on every way to where it stands.
Knows(f, F) ==
  \A c \in BlockIds(f) : \A j \in DOMAIN BlockOf(f, c).insts :
    Assigns(InstAt(f, c, j)) /\ Dominates(f, <<c, j>>, F.block, F.pc)
      => InstAt(f, c, j).dst \in F.assigned

\* What an instruction that local_cse looks at gives in F.  The heap is read to compare
\* arrays only.
ComparesArrays(F, i) ==
  i.kind = "Binary" /\ i.op \in {"Eq", "Ne"} /\ ValueIn(F, i.args[1]).t = "Array"
Computed(F, i) ==
  LET a == ValueIn(F, i.args[1])   b == ValueIn(F, i.args[2])
  IN CASE i.kind = "Load"   -> Ok(F.locals[i.n])
       [] i.kind = "Unary"  -> UnaryValue(i.op, a)
       [] i.kind = "Binary" -> BinaryValue(i.op, <<>>, a, b)
       [] i.kind = "Concat" -> IF a.t = "Str" /\ b.t = "Str" THEN Ok(StrV(a.v \o b.v))
                               ELSE Err("unexpected kind")

\* The value v is what the instruction i gives in F.
Explains(F, i, v) ==
  /\ i.kind = "Use" => v = ValueIn(F, i.args[1])
  /\ i.kind \in CseKinds /\ ~ ComparesArrays(F, i) => Computed(F, i).status = "ok" /\ Computed(F, i).v = v

\* The register of i still has what i would give.
Remembers(F, i) ==
  ~ ComparesArrays(F, i) => Computed(F, i).status = "ok" /\ Computed(F, i).v = F.regs[i.dst]

\* So it is of the instructions whose results local_cse takes for those that repeat them.
SeenHolds(f, F) ==
  F.pc # 0 => \A j \in Seen(BlockOf(f, F.block).insts)[F.pc - 1] : Remembers(F, InstAt(f, F.block, j))

CallOK(m, F, n) ==
  /\ Placed(m, F) /\ Holds(F, n) /\ Knows(FnOf(m, F), F)
  /\ CopiesHold(FnOf(m, F), F) /\ SeenHolds(FnOf(m, F), F)

\* The blocks a run can be in.
Visitable(f) ==
  /\ Reachable(f) \subseteq BlockIds(f) /\ f.entry \in Reachable(f)
  /\ \A b \in Reachable(f) : Exits(f, b) \subseteq Reachable(f)

LEMMA FnLemma ==
  ASSUME NEW m, WellBuilt(m), NEW i \in MirFns(m)
  PROVE  LET f == MirFn(m, i)
         IN /\ Well(f, NamesIn(m, i)) /\ Framed(f) /\ JumpsInside(f) /\ AssignsOnce(f) /\ ReadsAssigned(f)
            /\ Visitable(f)
<1>1. PICK f, N : f = MirFn(m, i) /\ N = NamesIn(m, i) /\ Well(f, N)
  BY DEF WellBuilt
<1>2. Framed(f) /\ JumpsInside(f) /\ AssignsOnce(f) /\ ReadsAssigned(f)
  BY <1>1, WellLemma
<1>3. Covers(f, From(f, {}), {}) /\ From(f, {}) \subseteq BlockIds(f) \ {}
  BY <1>2, FromCovers
<1>4. Reachable(f) = From(f, {})
  BY DEF Reachable, From
<1>5. Visitable(f)
  BY <1>3, <1>4 DEF Covers, Visitable
<1> QED BY <1>1, <1>2, <1>5

\* A step from where F stands to where G does passes nothing but the instruction F is at.
StepsTo(f, F, G) ==
  \A c \in BlockIds(f) : \A j \in DOMAIN BlockOf(f, c).insts :
    Dominates(f, <<c, j>>, G.block, G.pc)
      => (c = F.block /\ j = F.pc) \/ Dominates(f, <<c, j>>, F.block, F.pc)

AreLists(f) == \A c \in BlockIds(f) : IsList(BlockOf(f, c).insts)

\* Past an instruction.
LEMMA FollowsNext ==
  ASSUME NEW f, AreLists(f), NEW F, F.pc \in Nat, NEW G, G.block = F.block, G.pc = F.pc + 1
  PROVE  StepsTo(f, F, G)
<1> SUFFICES ASSUME NEW c \in BlockIds(f), NEW j \in DOMAIN BlockOf(f, c).insts,
                    Dominates(f, <<c, j>>, G.block, G.pc), ~ (c = F.block /\ j = F.pc)
             PROVE  Dominates(f, <<c, j>>, F.block, F.pc)
  BY DEF StepsTo
<1>1. j \in Nat
  BY DEF AreLists, IsList
<1>2. (c = F.block /\ j < F.pc + 1) \/ (c # F.block /\ F.block \notin From(f, {c}))
  BY DominatesLemma
<1>3. (c = F.block /\ j < F.pc) \/ (c # F.block /\ F.block \notin From(f, {c}))
  BY <1>1, <1>2
<1> QED BY <1>3, DominatesLemma

\* Into a block, before it is entered.
LEMMA FollowsJump ==
  ASSUME NEW f, Framed(f), AreLists(f), NEW F,
         F.block \in BlockIds(f), F.pc = Len(BlockOf(f, F.block).insts) + 1,
         NEW G, G.block \in Exits(f, F.block), G.pc = 0
  PROVE  StepsTo(f, F, G)
<1> SUFFICES ASSUME NEW c \in BlockIds(f), NEW j \in DOMAIN BlockOf(f, c).insts,
                    Dominates(f, <<c, j>>, G.block, G.pc)
             PROVE  Dominates(f, <<c, j>>, F.block, F.pc)
  BY DEF StepsTo
<1>1. Len(BlockOf(f, c).insts) \in Nat /\ j \in 1 .. Len(BlockOf(f, c).insts)
  BY DEF AreLists, IsList
<1>2. c # G.block /\ G.block \notin From(f, {c})
  <2>1. (c = G.block /\ j < 0) \/ (c # G.block /\ G.block \notin From(f, {c}))
    BY DominatesLemma
  <2> QED BY <1>1, <2>1
<1>3. c = F.block \/ F.block \notin From(f, {c})
  <2>1. Covers(f, From(f, {c}), {c})
    BY FromCovers
  <2> QED BY <1>2, <2>1 DEF Covers
<1>4. (c = F.block /\ j < F.pc) \/ (c # F.block /\ F.block \notin From(f, {c}))
  BY <1>1, <1>3
<1> QED BY <1>4, DominatesLemma

\* Where a block is entered.
LEMMA FollowsEntered ==
  ASSUME NEW f, AreLists(f), NEW F, F.pc = 0, NEW G, G.block = F.block, G.pc = 1
  PROVE  StepsTo(f, F, G)
<1> SUFFICES ASSUME NEW c \in BlockIds(f), NEW j \in DOMAIN BlockOf(f, c).insts,
                    Dominates(f, <<c, j>>, G.block, G.pc)
             PROVE  Dominates(f, <<c, j>>, F.block, F.pc)
  BY DEF StepsTo
<1>1. j \in Nat /\ j >= 1
  BY DEF AreLists, IsList
<1>2. (c = F.block /\ j < 1) \/ (c # F.block /\ F.block \notin From(f, {c}))
  BY DominatesLemma
<1>3. c # F.block /\ F.block \notin From(f, {c})
  BY <1>1, <1>2
<1> QED BY <1>3, DominatesLemma

\* At the start of a call there is nothing to keep.
LEMMA NothingBefore ==
  ASSUME NEW f, Framed(f), AreLists(f),
         NEW c \in BlockIds(f), NEW j \in DOMAIN BlockOf(f, c).insts
  PROVE  ~ Dominates(f, <<c, j>>, f.entry, 0)
<1> SUFFICES ASSUME Dominates(f, <<c, j>>, f.entry, 0) PROVE FALSE
  OBVIOUS
<1>1. j \in Nat
  BY DEF AreLists, IsList
<1>2. (c = f.entry /\ j < 0) \/ (c # f.entry /\ f.entry \notin From(f, {c}))
  BY DominatesLemma
<1>3. c # f.entry /\ f.entry \notin From(f, {c})
  BY <1>1, <1>2
<1>4. {f.entry} \ {c} \subseteq From(f, {c})
  BY FromCovers DEF Covers
<1> QED BY <1>3, <1>4

LEMMA KnowsStep ==
  ASSUME NEW f, NEW F, NEW G, Knows(f, F), StepsTo(f, F, G), F.assigned \subseteq G.assigned,
         F.pc \in DOMAIN BlockOf(f, F.block).insts /\ Assigns(InstAt(f, F.block, F.pc))
           => InstAt(f, F.block, F.pc).dst \in G.assigned
  PROVE  Knows(f, G)
BY DEF Knows, StepsTo

\* A step that changes no register.
LEMMA CopiesStep ==
  ASSUME NEW f, NEW F, NEW G, CopiesHold(f, F), StepsTo(f, F, G), G.regs = F.regs,
         F.pc \in DOMAIN BlockOf(f, F.block).insts => InstAt(f, F.block, F.pc).kind # "Use"
  PROVE  CopiesHold(f, G)
BY DEF CopiesHold, StepsTo, ValueIn

\* What is computed on every way to an instruction does not depend on its register, nor
\* does what it computes itself.
LEMMA ReadsOthers ==
  ASSUME NEW f, Framed(f), AssignsOnce(f), ReadsAssigned(f), AreLists(f), Visitable(f),
         NEW b \in Reachable(f), NEW k \in DOMAIN BlockOf(f, b).insts, Assigns(InstAt(f, b, k)),
         NEW c \in BlockIds(f), NEW j \in DOMAIN BlockOf(f, c).insts,
         (c = b /\ j = k) \/ Dominates(f, <<c, j>>, b, k),
         NEW a \in DOMAIN InstAt(f, c, j).args, IsReg(InstAt(f, c, j).args[a])
  PROVE  InstAt(f, c, j).args[a].v \in (0 .. f.regs - 1) \ {InstAt(f, b, k).dst}
<1>1. PICK q : q = InstAt(f, c, j).args[a].v
  OBVIOUS
<1>2. q \in ReadAt(f, c, j)
  <2>1. Operands(f, c, j) = InstAt(f, c, j).args
    BY DEF Operands
  <2> QED BY <1>1, <2>1, ReadAtLemma
<1>3. c \in Reachable(f) /\ b \in BlockIds(f)
  BY ReachedLemma DEF Visitable
<1>4. j \in Nat /\ k \in Nat /\ j \in 1 .. Len(BlockOf(f, c).insts) + 1
  BY <1>3 DEF AreLists, IsList
<1>5. Assigned(f, q, c, j)
  BY <1>2, <1>3, <1>4 DEF ReadsAssigned
<1>6. PICK e, m : /\ e \in BlockIds(f) /\ m \in DOMAIN BlockOf(f, e).insts
                  /\ AssignsTo(InstAt(f, e, m), q) /\ Dominates(f, <<e, m>>, c, j)
  BY <1>5 DEF Assigned
<1>7. q \in 0 .. f.regs - 1
  BY <1>6 DEF AssignsOnce, AssignsTo
<1>8. ASSUME q = InstAt(f, b, k).dst PROVE FALSE
  <2>1. e = b /\ m = k
    BY <1>3, <1>6, <1>8 DEF AssignsOnce, AssignsTo
  <2>2. Dominates(f, <<b, k>>, b, k)
    <3>1. CASE c = b /\ j = k
      BY <1>6, <2>1, <3>1
    <3>2. CASE Dominates(f, <<c, j>>, b, k)
      <4>1. PICK x, y : x = <<c, j>> /\ y = <<b, k>>
        OBVIOUS
      <4>2. x[2] \in Int /\ y[2] \in Int /\ Dominates(f, y, x[1], x[2]) /\ Dominates(f, x, b, k)
        BY <1>4, <1>6, <2>1, <3>2, <4>1
      <4> QED BY <1>4, <4>1, <4>2, DominatesTransitively
    <3> QED BY <3>1, <3>2
  <2>3. (b = b /\ k < k) \/ (b # b /\ b \notin From(f, {b}))
    BY <2>2, DominatesLemma
  <2> QED BY <1>4, <2>3
<1> QED BY <1>1, <1>7, <1>8

\* Whose operands can be had.
Shaped(f) ==
  \A c \in BlockIds(f) : \A j \in DOMAIN BlockOf(f, c).insts :
    LET i == InstAt(f, c, j)
    IN /\ i.kind \in {"Use", "Unary", "Binary", "Concat"} => 1 \in DOMAIN i.args
       /\ i.kind \in {"Binary", "Concat"} => 2 \in DOMAIN i.args
       /\ i.kind = "Load" => i.n \in 0 .. f.locals - 1

Sound(f) ==
  /\ Framed(f) /\ AssignsOnce(f) /\ ReadsAssigned(f) /\ AreLists(f) /\ Visitable(f) /\ Shaped(f)

\* F is at an instruction of f.
At(f, F) ==
  /\ F.block \in Reachable(f) /\ F.pc \in DOMAIN BlockOf(f, F.block).insts
  /\ DOMAIN F.regs = 0 .. f.regs - 1 /\ DOMAIN F.locals = 0 .. f.locals - 1

\* It assigns v and nothing else.
Sets(i, F, G, v) ==
  /\ Assigns(i) /\ G.locals = F.locals
  /\ \A q \in DOMAIN F.regs : G.regs[q] = IF q = i.dst THEN v ELSE F.regs[q]

LEMMA AtLemma ==
  ASSUME NEW f, Sound(f), NEW F, At(f, F)
  PROVE  F.block \in BlockIds(f) /\ F.pc \in Nat /\ F.pc # 0 /\ IsList(BlockOf(f, F.block).insts)
         /\ F.pc \in 1 .. Len(BlockOf(f, F.block).insts)
<1>1. F.block \in BlockIds(f)
  BY DEF Sound, Visitable, At
<1>2. IsList(BlockOf(f, F.block).insts)
  BY <1>1 DEF Sound, AreLists
<1> QED BY <1>1, <1>2 DEF At, IsList

LEMMA ArgsKept ==
  ASSUME NEW f, Sound(f), NEW F, At(f, F), NEW G, NEW v, Sets(InstAt(f, F.block, F.pc), F, G, v),
         NEW c \in BlockIds(f), NEW j \in DOMAIN BlockOf(f, c).insts,
         (c = F.block /\ j = F.pc) \/ Dominates(f, <<c, j>>, F.block, F.pc),
         NEW a \in DOMAIN InstAt(f, c, j).args
  PROVE  ValueIn(G, InstAt(f, c, j).args[a]) = ValueIn(F, InstAt(f, c, j).args[a])
<1>1. CASE IsReg(InstAt(f, c, j).args[a])
  <2>1. PICK q : q = InstAt(f, c, j).args[a].v
    OBVIOUS
  <2>2. q # InstAt(f, F.block, F.pc).dst /\ q \in 0 .. f.regs - 1
    BY <1>1, <2>1, ReadsOthers DEF Sound, At, Sets
  <2>3. G.regs[q] = F.regs[q]
    BY <2>2 DEF At, Sets
  <2> QED BY <1>1, <2>1, <2>3 DEF ValueIn
<1>2. CASE ~ IsReg(InstAt(f, c, j).args[a])
  BY <1>2 DEF ValueIn
<1> QED BY <1>1, <1>2

\* Another instruction has another register.
LEMMA OthersKept ==
  ASSUME NEW f, Sound(f), NEW F, At(f, F), NEW G, NEW v, Sets(InstAt(f, F.block, F.pc), F, G, v),
         NEW c \in BlockIds(f), NEW j \in DOMAIN BlockOf(f, c).insts, Assigns(InstAt(f, c, j)),
         c # F.block \/ j # F.pc
  PROVE  G.regs[InstAt(f, c, j).dst] = F.regs[InstAt(f, c, j).dst]
<1>1. PICK q : q = InstAt(f, c, j).dst
  OBVIOUS
<1>2. F.block \in BlockIds(f)
  BY AtLemma
<1>3. q \in DOMAIN F.regs /\ q # InstAt(f, F.block, F.pc).dst
  BY <1>1, <1>2 DEF Sound, AssignsOnce, At, Sets
<1> QED BY <1>1, <1>3 DEF Sets

LEMMA OwnSet ==
  ASSUME NEW f, Sound(f), NEW F, At(f, F), NEW G, NEW v, Sets(InstAt(f, F.block, F.pc), F, G, v)
  PROVE  G.regs[InstAt(f, F.block, F.pc).dst] = v
<1>1. F.block \in BlockIds(f) /\ F.pc \in DOMAIN BlockOf(f, F.block).insts
  BY AtLemma DEF At
<1>2. InstAt(f, F.block, F.pc).dst \in DOMAIN F.regs
  BY <1>1 DEF Sound, AssignsOnce, At, Sets
<1> QED BY <1>2 DEF Sets

LEMMA CopiesInto ==
  ASSUME NEW f, Sound(f), NEW F, At(f, F), CopiesHold(f, F), NEW G, StepsTo(f, F, G),
         NEW v, Sets(InstAt(f, F.block, F.pc), F, G, v), Explains(F, InstAt(f, F.block, F.pc), v)
  PROVE  CopiesHold(f, G)
<1> SUFFICES ASSUME NEW c \in BlockIds(f), NEW j \in DOMAIN BlockOf(f, c).insts,
                    InstAt(f, c, j).kind = "Use", Dominates(f, <<c, j>>, G.block, G.pc)
             PROVE  G.regs[InstAt(f, c, j).dst] = ValueIn(G, InstAt(f, c, j).args[1])
  BY DEF CopiesHold
<1>1. (c = F.block /\ j = F.pc) \/ Dominates(f, <<c, j>>, F.block, F.pc)
  BY DEF StepsTo
<1>2. Assigns(InstAt(f, c, j))
  BY DEF Assigns, IsAssign, RvalueKinds
<1>3. 1 \in DOMAIN InstAt(f, c, j).args
  BY DEF Sound, Shaped
<1>4. ValueIn(G, InstAt(f, c, j).args[1]) = ValueIn(F, InstAt(f, c, j).args[1])
  BY <1>1, <1>3, ArgsKept
<1>5. CASE c = F.block /\ j = F.pc
  <2>1. G.regs[InstAt(f, c, j).dst] = v
    BY <1>5, OwnSet
  <2> QED BY <1>4, <1>5, <2>1 DEF Explains
<1>6. CASE c # F.block \/ j # F.pc
  <2>1. G.regs[InstAt(f, c, j).dst] = F.regs[InstAt(f, c, j).dst]
    BY <1>2, <1>6, OthersKept
  <2>2. F.regs[InstAt(f, c, j).dst] = ValueIn(F, InstAt(f, c, j).args[1])
    BY <1>1, <1>6 DEF CopiesHold
  <2> QED BY <1>4, <2>1, <2>2
<1> QED BY <1>5, <1>6

\* An instruction gives the same when its operands and its local are the same.
LEMMA ComputedKept ==
  ASSUME NEW f, Shaped(f), NEW c \in BlockIds(f), NEW j \in DOMAIN BlockOf(f, c).insts,
         NEW i, i = InstAt(f, c, j), i.kind \in CseKinds, NEW F, NEW G,
         \A a \in DOMAIN i.args : ValueIn(G, i.args[a]) = ValueIn(F, i.args[a]),
         i.kind = "Load" => G.locals[i.n] = F.locals[i.n]
  PROVE  Computed(G, i) = Computed(F, i) /\ (ComparesArrays(G, i) <=> ComparesArrays(F, i))
<1>1. /\ i.kind \in {"Unary", "Binary", "Concat"} => ValueIn(G, i.args[1]) = ValueIn(F, i.args[1])
      /\ i.kind \in {"Binary", "Concat"} => ValueIn(G, i.args[2]) = ValueIn(F, i.args[2])
  BY DEF Shaped
<1>2. CASE i.kind = "Load"
  BY <1>2 DEF Computed, ComparesArrays
<1>3. CASE i.kind = "Unary"
  BY <1>1, <1>3 DEF Computed, ComparesArrays
<1>4. CASE i.kind = "Binary"
  BY <1>1, <1>4 DEF Computed, ComparesArrays
<1>5. CASE i.kind = "Concat"
  <2>1. PICK x, y : x = ValueIn(F, i.args[1]) /\ y = ValueIn(F, i.args[2])
    OBVIOUS
  <2>2. ValueIn(G, i.args[1]) = x /\ ValueIn(G, i.args[2]) = y
    BY <1>1, <1>5, <2>1
  <2> QED BY <1>5, <2>1, <2>2 DEF Computed, ComparesArrays
<1> QED BY <1>2, <1>3, <1>4, <1>5 DEF CseKinds

\* What is remembered after an instruction was remembered before it, or is the instruction.
LEMMA SeenStep ==
  ASSUME NEW f, Sound(f), NEW F, At(f, F), SeenHolds(f, F), NEW i, i = InstAt(f, F.block, F.pc),
         NEW G, G.block = F.block, G.pc = F.pc + 1,
         \A j \in DOMAIN BlockOf(f, F.block).insts :
           LET e == InstAt(f, F.block, j)
           IN /\ j < F.pc /\ e.kind \in CseKinds /\ Remembers(F, e)
              /\ i.kind = "Store" => ~ (e.kind = "Load" /\ e.n = i.n)
              => Remembers(G, e),
         i.kind \in CseKinds => Remembers(G, i)
  PROVE  SeenHolds(f, G)
<1>1. PICK s, k, S : s = BlockOf(f, F.block).insts /\ k = F.pc /\ S = Seen(s)[k - 1]
  OBVIOUS
<1>2. IsList(s) /\ k \in 1 .. Len(s) /\ i = s[k] /\ DOMAIN s = 1 .. Len(s) /\ Len(s) \in Nat
  BY <1>1, AtLemma DEF InstAt, IsList
<1>3. S \subseteq {j \in 1 .. k - 1 : s[j].kind \in CseKinds}
  <2>1. k - 1 \in 0 .. Len(s)
    BY <1>2
  <2> QED BY <1>1, <1>2, <2>1, SeenLemma
<1>4. Seen(s)[k] = SeenNext(s, S, k)
  BY <1>1, <1>2, SeenSteps
<1>5. ASSUME NEW j \in Seen(s)[k]
      PROVE  \/ j = k /\ i.kind \in CseKinds
             \/ j \in S /\ (i.kind = "Store" => ~ (s[j].kind = "Load" /\ s[j].n = i.n))
  <2>1. CASE i.kind \in CseKinds /\ Repeats(s, S, i) = {}
    <3>1. j \in S \cup {k}
      BY <1>2, <1>4, <1>5, <2>1 DEF SeenNext
    <3>2. i.kind # "Store"
      BY <2>1 DEF CseKinds
    <3> QED BY <2>1, <3>1, <3>2
  <2>2. CASE ~ (i.kind \in CseKinds /\ Repeats(s, S, i) = {})
    <3>1. j \in Forget(s, S, i)
      BY <1>2, <1>4, <1>5, <2>2 DEF SeenNext
    <3> QED BY <3>1 DEF Forget
  <2> QED BY <2>1, <2>2
<1>6. ASSUME NEW j \in S PROVE Remembers(F, s[j]) /\ j < k /\ s[j].kind \in CseKinds /\ j \in DOMAIN s
  <2>1. Remembers(F, s[j])
    BY <1>1, <1>2 DEF SeenHolds, InstAt
  <2> QED BY <1>2, <1>3, <2>1
<1>7. ASSUME NEW j \in Seen(s)[k] PROVE Remembers(G, s[j])
  BY <1>1, <1>2, <1>5, <1>6 DEF InstAt
<1>8. G.pc - 1 = k
  BY <1>1, <1>2
<1> QED BY <1>1, <1>7, <1>8 DEF SeenHolds, InstAt

LEMMA SeenInto ==
  ASSUME NEW f, Sound(f), NEW F, At(f, F), SeenHolds(f, F),
         NEW G, G.block = F.block, G.pc = F.pc + 1,
         NEW v, Sets(InstAt(f, F.block, F.pc), F, G, v), Explains(F, InstAt(f, F.block, F.pc), v)
  PROVE  SeenHolds(f, G)
<1>1. PICK i : i = InstAt(f, F.block, F.pc)
  OBVIOUS
<1>2. F.block \in BlockIds(f) /\ F.pc \in DOMAIN BlockOf(f, F.block).insts
  BY AtLemma DEF At
<1>3. ASSUME NEW j \in DOMAIN BlockOf(f, F.block).insts, NEW e, e = InstAt(f, F.block, j),
             j < F.pc \/ j = F.pc, e.kind \in CseKinds
      PROVE  /\ Computed(G, e) = Computed(F, e) /\ (ComparesArrays(G, e) <=> ComparesArrays(F, e))
             /\ j = F.pc => G.regs[e.dst] = v
             /\ j # F.pc => G.regs[e.dst] = F.regs[e.dst]
  <2>1. (F.block = F.block /\ j = F.pc) \/ Dominates(f, <<F.block, j>>, F.block, F.pc)
    BY <1>3, DominatesLemma
  <2>2. \A a \in DOMAIN e.args : ValueIn(G, e.args[a]) = ValueIn(F, e.args[a])
    <3>1. \A a \in DOMAIN InstAt(f, F.block, j).args :
            ValueIn(G, InstAt(f, F.block, j).args[a]) = ValueIn(F, InstAt(f, F.block, j).args[a])
      BY <1>2, <2>1, ArgsKept
    <3> QED BY <1>3, <3>1
  <2>3. G.locals = F.locals
    BY DEF Sets
  <2>4. Computed(G, e) = Computed(F, e) /\ (ComparesArrays(G, e) <=> ComparesArrays(F, e))
    BY <1>2, <1>3, <2>2, <2>3, ComputedKept DEF Sound
  <2>5. Assigns(e)
    BY <1>3 DEF Assigns, IsAssign, RvalueKinds, CseKinds
  <2>6. j = F.pc => G.regs[e.dst] = v
    BY <1>3, OwnSet
  <2>7. j # F.pc => G.regs[e.dst] = F.regs[e.dst]
    BY <1>2, <1>3, <2>5, OthersKept
  <2> QED BY <2>4, <2>6, <2>7
<1>4. ASSUME NEW j \in DOMAIN BlockOf(f, F.block).insts, NEW e, e = InstAt(f, F.block, j),
             j < F.pc, e.kind \in CseKinds, Remembers(F, e)
      PROVE  Remembers(G, e)
  <2>1. j # F.pc
    BY <1>4, AtLemma DEF IsList
  <2> QED BY <1>3, <1>4, <2>1 DEF Remembers
<1>5. i.kind \in CseKinds => Remembers(G, i)
  BY <1>1, <1>2, <1>3 DEF Remembers, Explains
<1> QED BY <1>1, <1>4, <1>5, SeenStep

\* A step that changes one local, or none.
LEMMA SeenStored ==
  ASSUME NEW f, Sound(f), NEW F, At(f, F), SeenHolds(f, F), NEW i, i = InstAt(f, F.block, F.pc),
         ~ Assigns(i), NEW G, G.block = F.block, G.pc = F.pc + 1, G.regs = F.regs,
         \A l \in DOMAIN F.locals : (i.kind = "Store" => l # i.n) => G.locals[l] = F.locals[l]
  PROVE  SeenHolds(f, G)
<1>1. i.kind \notin CseKinds
  BY DEF Assigns, IsAssign, RvalueKinds, CseKinds
<1>2. F.block \in BlockIds(f)
  BY AtLemma
<1>3. ASSUME NEW j \in DOMAIN BlockOf(f, F.block).insts, NEW e, e = InstAt(f, F.block, j),
             e.kind \in CseKinds, Remembers(F, e), i.kind = "Store" => ~ (e.kind = "Load" /\ e.n = i.n)
      PROVE  Remembers(G, e)
  <2>1. \A o : ValueIn(G, o) = ValueIn(F, o)
    BY DEF ValueIn
  <2>2. e.kind = "Load" => G.locals[e.n] = F.locals[e.n]
    <3>1. e.kind = "Load" => e.n \in DOMAIN F.locals
      BY <1>2, <1>3 DEF Sound, Shaped, At
    <3> QED BY <1>3, <3>1
  <2>3. Computed(G, e) = Computed(F, e) /\ (ComparesArrays(G, e) <=> ComparesArrays(F, e))
    BY <1>2, <1>3, <2>1, <2>2, ComputedKept DEF Sound
  <2> QED BY <1>3, <2>3 DEF Remembers
<1> QED BY <1>1, <1>3, SeenStep

\* A block is entered with nothing remembered.
LEMMA SeenEntered ==
  ASSUME NEW f, AreLists(f), NEW G, G.block \in BlockIds(f), G.pc = 1
  PROVE  SeenHolds(f, G)
<1>1. Seen(BlockOf(f, G.block).insts)[0] = {}
  BY SeenSteps DEF AreLists
<1> QED BY <1>1 DEF SeenHolds

----------------------------------------------------------------------------
(* What the actions do to a call.                                          *)

\* F after register r got v, or after the local l got v, and one position on.
LEMMA IntoFrame ==
  ASSUME NEW F, IsFrame(F), NEW r \in DOMAIN F.regs, NEW v, NEW G, G = Into(F, r, v)
  PROVE  /\ IsFrame(G) /\ G.func = F.func /\ G.block = F.block /\ G.pc = F.pc + 1
         /\ DOMAIN G.regs = DOMAIN F.regs /\ G.locals = F.locals /\ G.assigned = F.assigned \cup {r}
         /\ \A q \in DOMAIN F.regs : G.regs[q] = IF q = r THEN v ELSE F.regs[q]
<1>1. PICK R, L, A : F \in [func : Int, block : Nat, pc : Nat, regs : R, locals : L, assigned : A]
  BY DEF IsFrame
<1>2. PICK rs, as, R2, A2, p :
        /\ rs = [F.regs EXCEPT ![r] = v] /\ as = F.assigned \cup {r} /\ p = F.pc + 1
        /\ R2 = R \cup {rs} /\ A2 = A \cup {as}
  OBVIOUS
<1>3. PICK E : E = [F EXCEPT !.regs = rs, !.assigned = as]
  OBVIOUS
<1>4. E \in [func : Int, block : Nat, pc : Nat, regs : R2, locals : L, assigned : A2]
      /\ E.regs = rs /\ E.assigned = as /\ E.func = F.func /\ E.block = F.block /\ E.locals = F.locals
      /\ E.pc = F.pc
  BY <1>1, <1>2, <1>3
<1>5. G = [E EXCEPT !.pc = p]
  <2>1. G = [E EXCEPT !.pc = E.pc + 1]
    BY <1>2, <1>3 DEF Into, Advanced
  <2> QED BY <1>2, <1>4, <2>1
<1>6. p \in Nat
  BY <1>1, <1>2
<1>7. G \in [func : Int, block : Nat, pc : Nat, regs : R2, locals : L, assigned : A2]
      /\ G.regs = rs /\ G.assigned = as /\ G.func = F.func /\ G.block = F.block /\ G.locals = F.locals
      /\ G.pc = p
  BY <1>4, <1>5, <1>6
<1>8. IsFrame(G)
  BY <1>7 DEF IsFrame
<1> QED BY <1>2, <1>7, <1>8

LEMMA AdvancedFrame ==
  ASSUME NEW F, IsFrame(F), NEW G, G = Advanced(F)
  PROVE  /\ IsFrame(G) /\ G.func = F.func /\ G.block = F.block /\ G.pc = F.pc + 1
         /\ G.regs = F.regs /\ G.locals = F.locals /\ G.assigned = F.assigned
<1>1. PICK R, L, A : F \in [func : Int, block : Nat, pc : Nat, regs : R, locals : L, assigned : A]
  BY DEF IsFrame
<1>2. PICK p \in Nat : p = F.pc + 1
  BY <1>1
<1>3. G = [F EXCEPT !.pc = p]
  BY <1>2 DEF Advanced
<1>4. G \in [func : Int, block : Nat, pc : Nat, regs : R, locals : L, assigned : A]
  BY <1>1, <1>3
<1>5. /\ G.func = F.func /\ G.block = F.block /\ G.pc = p
      /\ G.regs = F.regs /\ G.locals = F.locals /\ G.assigned = F.assigned
  BY <1>1, <1>3
<1> QED BY <1>2, <1>4, <1>5 DEF IsFrame

StoredIn(F, E, l, v) ==
  /\ IsFrame(E) /\ E.func = F.func /\ E.block = F.block /\ E.pc = F.pc
  /\ E.regs = F.regs /\ DOMAIN E.locals = DOMAIN F.locals /\ E.assigned = F.assigned
  /\ \A q \in DOMAIN F.locals : E.locals[q] = IF q = l THEN v ELSE F.locals[q]

LEMMA StoredFrame ==
  ASSUME NEW F, IsFrame(F), NEW l \in DOMAIN F.locals, NEW v, NEW E, E = [F EXCEPT !.locals[l] = v]
  PROVE  StoredIn(F, E, l, v)
<1>1. PICK R, L, A : F \in [func : Int, block : Nat, pc : Nat, regs : R, locals : L, assigned : A]
  BY DEF IsFrame
<1>2. PICK ls, L2 : ls = [F.locals EXCEPT ![l] = v] /\ L2 = L \cup {ls}
  OBVIOUS
<1>3. E = [F EXCEPT !.locals = ls]
  BY <1>2
<1>4. E \in [func : Int, block : Nat, pc : Nat, regs : R, locals : L2, assigned : A]
  BY <1>1, <1>2, <1>3
<1>5. /\ E.func = F.func /\ E.block = F.block /\ E.pc = F.pc
      /\ E.regs = F.regs /\ E.locals = ls /\ E.assigned = F.assigned
  BY <1>1, <1>3
<1>6. IsFrame(E)
  BY <1>4 DEF IsFrame
<1>7. DOMAIN ls = DOMAIN F.locals /\ \A q \in DOMAIN F.locals : ls[q] = IF q = l THEN v ELSE F.locals[q]
  BY <1>2
<1> QED BY <1>5, <1>6, <1>7 DEF StoredIn

JumpedTo(F, b) == [F EXCEPT !.block = b, !.pc = 0]

LEMMA JumpedFrame ==
  ASSUME NEW F, IsFrame(F), NEW b \in Nat, NEW G, G = JumpedTo(F, b)
  PROVE  /\ IsFrame(G) /\ G.func = F.func /\ G.block = b /\ G.pc = 0
         /\ G.regs = F.regs /\ G.locals = F.locals /\ G.assigned = F.assigned
<1>1. PICK R, L, A : F \in [func : Int, block : Nat, pc : Nat, regs : R, locals : L, assigned : A]
  BY DEF IsFrame
<1>2. G \in [func : Int, block : Nat, pc : Nat, regs : R, locals : L, assigned : A]
  BY <1>1 DEF JumpedTo
<1>3. /\ G.func = F.func /\ G.block = b /\ G.pc = 0
      /\ G.regs = F.regs /\ G.locals = F.locals /\ G.assigned = F.assigned
  BY <1>1 DEF JumpedTo
<1> QED BY <1>2, <1>3 DEF IsFrame

LEMMA EnteredFrame ==
  ASSUME NEW F, IsFrame(F), NEW G, G = [F EXCEPT !.pc = 1]
  PROVE  /\ IsFrame(G) /\ G.func = F.func /\ G.block = F.block /\ G.pc = 1
         /\ G.regs = F.regs /\ G.locals = F.locals /\ G.assigned = F.assigned
<1>1. PICK R, L, A : F \in [func : Int, block : Nat, pc : Nat, regs : R, locals : L, assigned : A]
  BY DEF IsFrame
<1>2. G \in [func : Int, block : Nat, pc : Nat, regs : R, locals : L, assigned : A]
  BY <1>1
<1>3. /\ G.func = F.func /\ G.block = F.block /\ G.pc = 1
      /\ G.regs = F.regs /\ G.locals = F.locals /\ G.assigned = F.assigned
  BY <1>1
<1> QED BY <1>2, <1>3 DEF IsFrame

----------------------------------------------------------------------------
(* So a call stays one that is right.                                      *)

\* The function of a call, where it stands, and what its code may name.
LEMMA CallLemma ==
  ASSUME NEW m, WellBuilt(m), NEW F, NEW n, CallOK(m, F, n)
  PROVE  /\ IsFrame(F) /\ F.func \in MirFns(m) /\ F.pc \in Nat /\ F.block \in Nat
         /\ F.block \in BlockIds(FnOf(m, F)) /\ F.block \in Reachable(FnOf(m, F))
         /\ Framed(FnOf(m, F)) /\ JumpsInside(FnOf(m, F)) /\ AssignsOnce(FnOf(m, F))
         /\ ReadsAssigned(FnOf(m, F)) /\ Visitable(FnOf(m, F)) /\ Sound(FnOf(m, F))
         /\ \A c \in BlockIds(FnOf(m, F)) : IsList(BlockOf(FnOf(m, F), c).insts)
         /\ \E O : /\ Wide(O) /\ FnOf(m, F) \in Graphs(O, NamesIn(m, F.func))
                   /\ HereIn(m, F).term \in Terms(O)
                   /\ \A k \in DOMAIN HereIn(m, F).insts :
                        InstAt(FnOf(m, F), F.block, k) \in Insts(O, NamesIn(m, F.func))
<1>1. PICK f, N : f = FnOf(m, F) /\ N = NamesIn(m, F.func)
  OBVIOUS
<1>2. IsFrame(F) /\ F.func \in MirFns(m) /\ F.block \in Reachable(f)
  BY <1>1 DEF CallOK, Placed
<1>3. /\ Well(f, N) /\ Framed(f) /\ JumpsInside(f) /\ AssignsOnce(f) /\ ReadsAssigned(f)
      /\ Visitable(f)
  BY <1>1, <1>2, FnLemma DEF FnOf
<1>4. PICK O : Wide(O) /\ f \in Graphs(O, N)
  BY <1>3 DEF Well
<1>5. F.block \in BlockIds(f)
  BY <1>2, <1>3 DEF Visitable
<1>6. \A c \in BlockIds(f) : IsList(BlockOf(f, c).insts)
  BY <1>4, GraphLemma
<1>7. /\ BlockOf(f, F.block).term \in Terms(O)
      /\ \A k \in DOMAIN BlockOf(f, F.block).insts : InstAt(f, F.block, k) \in Insts(O, N)
  BY <1>4, <1>5, GraphLemma
<1>8. F.pc \in Nat /\ F.block \in Nat
  BY <1>2 DEF IsFrame
<1>9. HereIn(m, F) = BlockOf(f, F.block)
  BY <1>1 DEF HereIn
<1>10. Shaped(f)
  <2> SUFFICES ASSUME NEW c \in BlockIds(f), NEW j \in DOMAIN BlockOf(f, c).insts,
                      NEW i, i = InstAt(f, c, j)
               PROVE  /\ i.kind \in {"Use", "Unary", "Binary", "Concat"} => 1 \in DOMAIN i.args
                      /\ i.kind \in {"Binary", "Concat"} => 2 \in DOMAIN i.args
                      /\ i.kind = "Load" => i.n \in 0 .. f.locals - 1
    BY DEF Shaped
  <2>1. i \in Insts(O, N)
    BY <1>4, GraphLemma
  <2>2. /\ i.args \in Seq(O)
        /\ i.kind \in {"Use", "Unary"} => Len(i.args) = 1
        /\ i.kind \in {"Binary", "Concat"} => Len(i.args) = 2
        /\ i.kind = "Load" => i.n \in N.locals
    BY <2>1 DEF Insts
  <2>3. N.locals = 0 .. f.locals - 1
    BY <1>1 DEF NamesIn, FnOf
  <2> QED BY <2>2, <2>3
<1>11. Sound(f)
  BY <1>3, <1>6, <1>10 DEF Sound, AreLists
<1> QED BY <1>1, <1>2, <1>3, <1>4, <1>5, <1>6, <1>7, <1>8, <1>9, <1>11

\* Where an instruction is executed.
LEMMA HereLemma ==
  ASSUME NEW m, WellBuilt(m), NEW F, NEW n, CallOK(m, F, n), F.pc \in DOMAIN HereIn(m, F).insts
  PROVE  /\ At(FnOf(m, F), F) /\ InstAt(FnOf(m, F), F.block, F.pc) = HereIn(m, F).insts[F.pc]
         /\ F.pc + 1 \in 0 .. Len(HereIn(m, F).insts) + 1
<1>1. PICK f : f = FnOf(m, F) /\ HereIn(m, F) = BlockOf(f, F.block)
  BY DEF HereIn
<1>2. F.block \in Reachable(f) /\ IsList(BlockOf(f, F.block).insts)
  BY <1>1, CallLemma
<1>3. DOMAIN F.regs = 0 .. f.regs - 1 /\ DOMAIN F.locals = 0 .. f.locals - 1
  BY <1>1 DEF CallOK, Placed
<1>4. At(f, F)
  BY <1>1, <1>2, <1>3 DEF At
<1> QED BY <1>1, <1>2, <1>4 DEF InstAt, IsList

\* What a step that stays in its function has to show.
LEMMA StaysLemma ==
  ASSUME NEW m, NEW F, NEW n, CallOK(m, F, n), NEW k,
         NEW G, IsFrame(G), G.func = F.func, G.block \in Reachable(FnOf(m, F)),
         G.pc \in 0 .. Len(BlockOf(FnOf(m, F), G.block).insts) + 1,
         DOMAIN G.regs = DOMAIN F.regs, DOMAIN G.locals = DOMAIN F.locals,
         Holds(G, k), Knows(FnOf(m, F), G), CopiesHold(FnOf(m, F), G), SeenHolds(FnOf(m, F), G)
  PROVE  CallOK(m, G, k)
<1>1. FnOf(m, G) = FnOf(m, F)
  BY DEF FnOf
<1>2. HereIn(m, G) = BlockOf(FnOf(m, F), G.block)
  BY <1>1 DEF HereIn
<1>3. /\ F.func \in MirFns(m) /\ DOMAIN F.regs = 0 .. FnOf(m, F).regs - 1
      /\ DOMAIN F.locals = 0 .. FnOf(m, F).locals - 1
  BY DEF CallOK, Placed
<1>4. Placed(m, G)
  BY <1>1, <1>2, <1>3 DEF Placed
<1> QED BY <1>1, <1>4 DEF CallOK

LEMMA IntoLemma ==
  ASSUME NEW m, WellBuilt(m), NEW F, NEW n, CallOK(m, F, n), F.pc \in DOMAIN HereIn(m, F).insts,
         Assigns(HereIn(m, F).insts[F.pc]), NEW r \in DOMAIN F.regs, r = HereIn(m, F).insts[F.pc].dst,
         NEW v, IsValue(v, n), Explains(F, HereIn(m, F).insts[F.pc], v)
  PROVE  CallOK(m, Into(F, r, v), n)
<1>1. PICK f, G, i : f = FnOf(m, F) /\ G = Into(F, r, v) /\ i = HereIn(m, F).insts[F.pc]
  OBVIOUS
<1>2. IsFrame(F) /\ F.pc \in Nat /\ F.block \in Reachable(f) /\ Sound(f)
  BY <1>1, CallLemma
<1>3. /\ IsFrame(G) /\ G.func = F.func /\ G.block = F.block /\ G.pc = F.pc + 1
      /\ DOMAIN G.regs = DOMAIN F.regs /\ G.locals = F.locals /\ G.assigned = F.assigned \cup {r}
      /\ \A q \in DOMAIN F.regs : G.regs[q] = IF q = r THEN v ELSE F.regs[q]
  BY <1>1, <1>2, IntoFrame
<1>4. At(f, F) /\ InstAt(f, F.block, F.pc) = i /\ F.pc + 1 \in 0 .. Len(HereIn(m, F).insts) + 1
  BY <1>1, HereLemma
<1>5. Sets(InstAt(f, F.block, F.pc), F, G, v) /\ Explains(F, InstAt(f, F.block, F.pc), v)
  <2>1. Assigns(i) /\ i.dst = r /\ Explains(F, i, v)
    BY <1>1
  <2>2. Sets(i, F, G, v)
    BY <1>3, <2>1 DEF Sets
  <2> QED BY <1>4, <2>1, <2>2
<1>6. Knows(f, F) /\ Holds(F, n) /\ CopiesHold(f, F) /\ SeenHolds(f, F)
  BY <1>1 DEF CallOK
<1>7. StepsTo(f, F, G)
  BY <1>2, <1>3, FollowsNext DEF Sound
<1>8. Knows(f, G)
  BY <1>1, <1>3, <1>4, <1>6, <1>7, KnowsStep
<1>9. Holds(G, n)
  BY <1>3, <1>6 DEF Holds
<1>10. CopiesHold(f, G) /\ SeenHolds(f, G)
  <2>1. At(f, F)
    BY <1>4
  <2>2. CopiesHold(f, G)
    BY <1>2, <1>5, <1>6, <1>7, <2>1, CopiesInto
  <2>3. SeenHolds(f, G)
    BY <1>2, <1>3, <1>5, <1>6, <2>1, SeenInto
  <2> QED BY <2>2, <2>3
<1>11. G.pc \in 0 .. Len(BlockOf(f, G.block).insts) + 1
  <2>1. HereIn(m, F) = BlockOf(f, F.block)
    BY <1>1 DEF HereIn
  <2>2. BlockOf(f, G.block) = HereIn(m, F) /\ G.pc = F.pc + 1
    BY <1>3, <2>1
  <2> QED BY <1>4, <2>2
<1> QED BY <1>1, <1>2, <1>3, <1>8, <1>9, <1>10, <1>11, StaysLemma

\* Past an instruction that assigns nothing, and leaves all locals but the one it stores to.
LEMMA PassesLemma ==
  ASSUME NEW m, WellBuilt(m), NEW F, NEW n, CallOK(m, F, n), F.pc \in DOMAIN HereIn(m, F).insts,
         NEW i, i = HereIn(m, F).insts[F.pc], ~ Assigns(i),
         NEW G, IsFrame(G), G.func = F.func, G.block = F.block, G.pc = F.pc + 1, G.regs = F.regs,
         DOMAIN G.locals = DOMAIN F.locals, G.assigned = F.assigned, Holds(G, n),
         \A l \in DOMAIN F.locals : (i.kind = "Store" => l # i.n) => G.locals[l] = F.locals[l]
  PROVE  CallOK(m, G, n)
<1>1. PICK f : f = FnOf(m, F)
  OBVIOUS
<1>2. F.pc \in Nat /\ F.block \in Reachable(f) /\ Sound(f)
  BY <1>1, CallLemma
<1>3. At(f, F) /\ InstAt(f, F.block, F.pc) = i /\ HereIn(m, F) = BlockOf(f, F.block)
      /\ G.pc \in 0 .. Len(BlockOf(f, G.block).insts) + 1
  BY <1>1, HereLemma DEF HereIn
<1>4. Knows(f, F) /\ CopiesHold(f, F) /\ SeenHolds(f, F)
  BY <1>1 DEF CallOK
<1>5. StepsTo(f, F, G)
  BY <1>2, FollowsNext DEF Sound
<1>6. Knows(f, G)
  BY <1>3, <1>4, <1>5, KnowsStep
<1>7. CopiesHold(f, G)
  <2>1. i.kind # "Use"
    BY DEF Assigns, IsAssign, RvalueKinds
  <2> QED BY <1>3, <1>4, <1>5, <2>1, CopiesStep
<1>8. SeenHolds(f, G)
  BY <1>2, <1>3, <1>4, SeenStored
<1> QED BY <1>1, <1>2, <1>3, <1>6, <1>7, <1>8, StaysLemma

LEMMA AdvancedLemma ==
  ASSUME NEW m, WellBuilt(m), NEW F, NEW n, CallOK(m, F, n), F.pc \in DOMAIN HereIn(m, F).insts,
         ~ Assigns(HereIn(m, F).insts[F.pc]), HereIn(m, F).insts[F.pc].kind # "Store"
  PROVE  CallOK(m, Advanced(F), n)
<1>1. PICK G, i : G = Advanced(F) /\ i = HereIn(m, F).insts[F.pc]
  OBVIOUS
<1>2. IsFrame(F) /\ Holds(F, n)
  BY CallLemma DEF CallOK
<1>3. /\ IsFrame(G) /\ G.func = F.func /\ G.block = F.block /\ G.pc = F.pc + 1
      /\ G.regs = F.regs /\ G.locals = F.locals /\ G.assigned = F.assigned
  BY <1>1, <1>2, AdvancedFrame
<1>4. Holds(G, n)
  BY <1>2, <1>3 DEF Holds
<1> QED BY <1>1, <1>3, <1>4, PassesLemma

LEMMA StoredLemma ==
  ASSUME NEW m, WellBuilt(m), NEW F, NEW n, CallOK(m, F, n), F.pc \in DOMAIN HereIn(m, F).insts,
         HereIn(m, F).insts[F.pc].kind = "Store", NEW l \in DOMAIN F.locals,
         l = HereIn(m, F).insts[F.pc].n, NEW v, IsValue(v, n), NEW E, StoredIn(F, E, l, v)
  PROVE  CallOK(m, Advanced(E), n)
<1>1. PICK G, i : G = Advanced(E) /\ i = HereIn(m, F).insts[F.pc]
  OBVIOUS
<1>2. IsFrame(F) /\ Holds(F, n)
  BY CallLemma DEF CallOK
<1>3. IsFrame(E)
  BY DEF StoredIn
<1>4. /\ E.func = F.func /\ E.block = F.block /\ E.pc = F.pc
      /\ E.regs = F.regs /\ DOMAIN E.locals = DOMAIN F.locals /\ E.assigned = F.assigned
      /\ \A q \in DOMAIN F.locals : E.locals[q] = IF q = l THEN v ELSE F.locals[q]
  BY DEF StoredIn
<1>5. /\ IsFrame(G) /\ G.func = E.func /\ G.block = E.block /\ G.pc = E.pc + 1
      /\ G.regs = E.regs /\ G.locals = E.locals /\ G.assigned = E.assigned
  BY <1>1, <1>3, AdvancedFrame
<1>6. Holds(G, n)
  BY <1>2, <1>4, <1>5 DEF Holds
<1>7. ~ Assigns(i) /\ i.kind = "Store" /\ i.n = l
  BY <1>1 DEF Assigns, IsAssign, IsCall, RvalueKinds
<1> QED BY <1>1, <1>4, <1>5, <1>6, <1>7, PassesLemma

LEMMA FollowLemma ==
  ASSUME NEW m, WellBuilt(m), NEW F, NEW n, CallOK(m, F, n), F.pc = Len(HereIn(m, F).insts) + 1,
         NEW b \in Exits(FnOf(m, F), F.block)
  PROVE  CallOK(m, JumpedTo(F, b), n)
<1>1. PICK f, G : f = FnOf(m, F) /\ G = JumpedTo(F, b)
  OBVIOUS
<1>2. IsFrame(F) /\ F.block \in Reachable(f) /\ F.block \in BlockIds(f) /\ Sound(f)
  BY <1>1, CallLemma
<1>3. b \in Reachable(f) /\ b \in BlockIds(f)
  BY <1>1, <1>2 DEF Sound, Visitable
<1>4. b \in Nat
  BY <1>2, <1>3 DEF BlockIds, Framed, Sound
<1>5. /\ IsFrame(G) /\ G.func = F.func /\ G.block = b /\ G.pc = 0
      /\ G.regs = F.regs /\ G.locals = F.locals /\ G.assigned = F.assigned
  BY <1>1, <1>2, <1>4, JumpedFrame
<1>6. Knows(f, F) /\ Holds(F, n) /\ CopiesHold(f, F)
  BY <1>1 DEF CallOK
<1>7. F.pc = Len(BlockOf(f, F.block).insts) + 1 /\ F.pc \notin DOMAIN BlockOf(f, F.block).insts
  <2>1. F.pc = Len(BlockOf(f, F.block).insts) + 1
    BY <1>1 DEF HereIn
  <2> QED BY <1>2, <2>1 DEF Sound, AreLists, IsList
<1>8. StepsTo(f, F, G)
  BY <1>1, <1>2, <1>5, <1>7, FollowsJump DEF Sound
<1>9. Knows(f, G) /\ CopiesHold(f, G)
  BY <1>5, <1>6, <1>7, <1>8, KnowsStep, CopiesStep
<1>10. Holds(G, n) /\ SeenHolds(f, G)
  BY <1>5, <1>6 DEF Holds, SeenHolds
<1>11. G.pc \in 0 .. Len(BlockOf(f, G.block).insts) + 1
  BY <1>2, <1>3, <1>5 DEF Sound, AreLists, IsList
<1> QED BY <1>1, <1>3, <1>5, <1>9, <1>10, <1>11, StaysLemma

LEMMA EnteredLemma ==
  ASSUME NEW m, WellBuilt(m), NEW F, NEW n, CallOK(m, F, n), F.pc = 0
  PROVE  CallOK(m, [F EXCEPT !.pc = 1], n)
<1>1. PICK f, G : f = FnOf(m, F) /\ G = [F EXCEPT !.pc = 1]
  OBVIOUS
<1>2. IsFrame(F) /\ F.block \in Reachable(f) /\ F.block \in BlockIds(f) /\ Sound(f)
  BY <1>1, CallLemma
<1>3. /\ IsFrame(G) /\ G.func = F.func /\ G.block = F.block /\ G.pc = 1
      /\ G.regs = F.regs /\ G.locals = F.locals /\ G.assigned = F.assigned
  BY <1>1, <1>2, EnteredFrame
<1>4. Knows(f, F) /\ Holds(F, n) /\ CopiesHold(f, F)
  BY <1>1 DEF CallOK
<1>5. StepsTo(f, F, G)
  BY <1>2, <1>3, FollowsEntered DEF Sound
<1>6. F.pc \notin DOMAIN BlockOf(f, F.block).insts
  BY <1>2 DEF Sound, AreLists, IsList
<1>7. Knows(f, G) /\ CopiesHold(f, G)
  BY <1>3, <1>4, <1>5, <1>6, KnowsStep, CopiesStep
<1>8. Holds(G, n)
  BY <1>3, <1>4 DEF Holds
<1>9. SeenHolds(f, G)
  BY <1>2, <1>3, SeenEntered DEF Sound
<1>10. G.pc \in 0 .. Len(BlockOf(f, G.block).insts) + 1
  BY <1>2, <1>3 DEF Sound, AreLists, IsList
<1> QED BY <1>1, <1>2, <1>3, <1>7, <1>8, <1>9, <1>10, StaysLemma

\* A new call.
LEMMA CalledLemma ==
  ASSUME WellBuilt(mir), NEW i \in MirFns(mir), NEW args, NEW n, Typed(args, n)
  PROVE  CallOK(mir, Called(i, args), n)
<1>1. PICK f, G : f = MirFn(mir, i) /\ G = Called(i, args)
  OBVIOUS
<1>2. Well(f, NamesIn(mir, i)) /\ Framed(f) /\ Visitable(f)
  BY <1>1, FnLemma
<1>3. PICK O, N : f \in Graphs(O, N)
  BY <1>2 DEF Well
<1>4. \A c \in BlockIds(f) : IsList(BlockOf(f, c).insts)
  BY <1>3, GraphLemma
<1>5. PICK rs, ls : /\ rs = [r \in 0 .. f.regs - 1 |-> UnitV]
                    /\ ls = [l \in 0 .. f.locals - 1 |-> IF l < Len(args) THEN args[l + 1] ELSE UnitV]
  OBVIOUS
<1>6. G = [func |-> i, block |-> f.entry, pc |-> 0, regs |-> rs, locals |-> ls, assigned |-> {}]
  BY <1>1, <1>5 DEF Called
<1>7. i \in Int /\ f.entry \in Nat /\ f.regs \in Nat /\ f.locals \in Nat
  BY <1>3 DEF Graphs, MirFns
<1>8. IsFrame(G)
  <2>1. PICK R, L, A : R = {rs} /\ L = {ls} /\ A = {{}}
    OBVIOUS
  <2>2. G \in [func : Int, block : Nat, pc : Nat, regs : R, locals : L, assigned : A]
    BY <1>6, <1>7, <2>1
  <2> QED BY <2>2 DEF IsFrame
<1>9. G.func = i /\ G.block = f.entry /\ G.pc = 0 /\ G.regs = rs /\ G.locals = ls
  BY <1>6
<1>10. FnOf(mir, G) = f /\ HereIn(mir, G) = BlockOf(f, f.entry)
  BY <1>1, <1>9 DEF FnOf, HereIn
<1>11. Placed(mir, G)
  <2>1. f.entry \in Reachable(f) /\ f.entry \in BlockIds(f)
    BY <1>2 DEF Visitable
  <2>2. 0 \in 0 .. Len(BlockOf(f, f.entry).insts) + 1
    BY <1>4, <2>1 DEF IsList
  <2> QED BY <1>5, <1>8, <1>9, <1>10, <2>1, <2>2 DEF Placed
<1>12. Holds(G, n)
  <2>1. IsValue(UnitV, n)
    BY DEF IsValue, UnitV, Kinds
  <2>2. ASSUME NEW l \in DOMAIN ls PROVE IsValue(ls[l], n)
    <3>1. l \in Int /\ l >= 0 /\ ls[l] = IF l < Len(args) THEN args[l + 1] ELSE UnitV
      BY <1>5, <1>7
    <3>2. ASSUME l < Len(args) PROVE IsValue(args[l + 1], n)
      <4>1. Len(args) \in Nat
        BY LenLemma DEF Typed
      <4>2. l + 1 \in 1 .. Len(args)
        BY <3>1, <3>2, <4>1
      <4> QED BY <4>2, TypedLemma
    <3> QED BY <2>1, <3>1, <3>2
  <2>3. \A r \in DOMAIN rs : rs[r] = UnitV
    BY <1>5
  <2> QED BY <1>9, <2>1, <2>2, <2>3 DEF Holds
<1>13. Knows(f, G) /\ CopiesHold(f, G)
  BY <1>2, <1>4, <1>9, NothingBefore DEF Knows, CopiesHold, AreLists
<1>14. SeenHolds(f, G)
  BY <1>9 DEF SeenHolds
<1> QED BY <1>1, <1>10, <1>11, <1>12, <1>13, <1>14 DEF CallOK

\* A call is as right when the heap is larger.
LEMMA CallGrows ==
  ASSUME NEW n \in Nat, NEW k \in Nat, n <= k, NEW m, NEW F, CallOK(m, F, n)
  PROVE  CallOK(m, F, k)
BY GrowLemma DEF CallOK, Holds

----------------------------------------------------------------------------
(* The stack of calls: all but the last wait at the instruction that calls. *)

Waits(m, F) == F.pc \in DOMAIN HereIn(m, F).insts /\ HereIn(m, F).insts[F.pc].kind = "Call"

StackOK(m, s, n) ==
  /\ IsSeq(s) /\ Len(s) <= MaxDepth
  /\ \A k \in 1 .. Len(s) : CallOK(m, s[k], n)
  /\ \A k \in 1 .. Len(s) - 1 : Waits(m, s[k])

LEMMA StackGrows ==
  ASSUME NEW n \in Nat, NEW k \in Nat, n <= k, NEW m, NEW s, StackOK(m, s, n)
  PROVE  StackOK(m, s, k)
BY CallGrows DEF StackOK

Retopped(s, G) == [s EXCEPT ![Len(s)] = G]

LEMMA ReplaceTop ==
  ASSUME NEW m, NEW s, NEW n, StackOK(m, s, n), Len(s) # 0, NEW G, CallOK(m, G, n)
  PROVE  StackOK(m, Retopped(s, G), n) /\ Len(Retopped(s, G)) = Len(s)
<1>1. PICK l, t : l = Len(s) /\ t = [s EXCEPT ![l] = G] /\ t = Retopped(s, G)
  BY DEF Retopped
<1>2. IsSeq(s) /\ l \in Nat /\ l >= 1 /\ DOMAIN s = 1 .. l
  BY <1>1, LenLemma DEF StackOK
<1>3. IsSeq(t) /\ Len(t) = l /\ \A i \in 1 .. l : i # l => t[i] = s[i]
  <2>1. l \in 1 .. Len(s)
    BY <1>1, <1>2
  <2>2. /\ IsSeq([s EXCEPT ![l] = G]) /\ Len([s EXCEPT ![l] = G]) = Len(s)
        /\ \A i \in 1 .. Len(s) : i # l => [s EXCEPT ![l] = G][i] = s[i]
    BY <1>2, <2>1, UpdateLemma
  <2> QED BY <1>1, <2>2
<1>4. t[l] = G
  BY <1>1, <1>2
<1> QED BY <1>1, <1>2, <1>3, <1>4 DEF StackOK

LEMMA PushCall ==
  ASSUME NEW m, NEW s, NEW n, StackOK(m, s, n), Len(s) # 0, Len(s) # MaxDepth, Waits(m, s[Len(s)]),
         NEW G, CallOK(m, G, n)
  PROVE  StackOK(m, Append(s, G), n) /\ Len(Append(s, G)) # 0
<1>1. PICK l, t : l = Len(s) /\ t = Append(s, G)
  OBVIOUS
<1>2. IsSeq(s) /\ l \in Nat /\ l >= 1 /\ l <= MaxDepth
  BY <1>1, LenLemma DEF StackOK
<1>3. IsSeq(t) /\ Len(t) = l + 1 /\ \A i \in 1 .. l : t[i] = s[i]
  BY <1>1, <1>2, AppendLemma
<1>4. t[l + 1] = G
  <2>1. PICK S : s \in Seq(S)
    BY <1>2 DEF IsSeq
  <2>2. s \in Seq(S \cup {G})
    BY <2>1
  <2> QED BY <1>1, <2>2
<1>5. ASSUME NEW k \in 1 .. l + 1 PROVE CallOK(m, t[k], n)
  <2>1. CASE k = l + 1
    BY <1>4, <2>1
  <2>2. CASE k # l + 1
    <3>1. k \in 1 .. l
      BY <1>2, <2>2
    <3> QED BY <1>1, <1>3, <3>1 DEF StackOK
  <2> QED BY <2>1, <2>2
<1>6. ASSUME NEW k \in 1 .. l PROVE Waits(m, t[k])
  <2>1. CASE k = l
    BY <1>1, <1>2, <1>3, <2>1
  <2>2. CASE k # l
    <3>1. k \in 1 .. l - 1
      BY <1>2, <2>2
    <3> QED BY <1>1, <1>3, <3>1 DEF StackOK
  <2> QED BY <2>1, <2>2
<1>7. l + 1 <= MaxDepth
  BY <1>1, <1>2, MaxDepthAssumption
<1> QED BY <1>1, <1>2, <1>3, <1>5, <1>6, <1>7 DEF StackOK

\* The last call returns: its caller goes on as G.
LEMMA PopCall ==
  ASSUME NEW m, NEW s, NEW n, StackOK(m, s, n), Len(s) # 0, Len(s) # 1, NEW G, CallOK(m, G, n),
         NEW t, t = Append(SubSeq(s, 1, Len(s) - 2), G)
  PROVE  StackOK(m, t, n) /\ Len(t) # 0
<1>1. PICK l : l = Len(s)
  OBVIOUS
<1>2. IsSeq(s) /\ l \in Nat /\ l >= 2 /\ l <= MaxDepth
  BY <1>1, LenLemma DEF StackOK
<1>3. PICK u, k : k = l - 2 /\ u = SubSeq(s, 1, k)
  OBVIOUS
<1>4. k \in 0 .. l
  BY <1>2, <1>3
<1>5. IsSeq(u) /\ Len(u) = k /\ \A i \in 1 .. k : u[i] = s[i]
  BY <1>1, <1>2, <1>3, <1>4, PrefixLemma
<1>6. t = Append(u, G)
  BY <1>1, <1>3
<1>7. IsSeq(t) /\ Len(t) = k + 1 /\ \A i \in 1 .. k : t[i] = u[i]
  <2>1. IsSeq(u) /\ Len(u) = k
    BY <1>5
  <2>2. /\ IsSeq(Append(u, G)) /\ Len(Append(u, G)) = Len(u) + 1
        /\ \A i \in 1 .. Len(u) : Append(u, G)[i] = u[i]
    BY <2>1, AppendLemma
  <2> QED BY <1>6, <2>1, <2>2
<1>8. t[k + 1] = G
  <2>1. PICK S : u \in Seq(S)
    BY <1>5 DEF IsSeq
  <2>2. u \in Seq(S \cup {G})
    BY <2>1
  <2> QED BY <1>5, <1>6, <2>2
<1>9. \A i \in 1 .. k : t[i] = s[i] /\ i \in 1 .. l /\ i \in 1 .. l - 1
  BY <1>2, <1>3, <1>5, <1>7
<1>10. ASSUME NEW i \in 1 .. k + 1 PROVE CallOK(m, t[i], n)
  <2>1. CASE i = k + 1
    BY <1>8, <2>1
  <2>2. CASE i # k + 1
    <3>1. i \in 1 .. k
      BY <1>4, <2>2
    <3> QED BY <1>1, <1>9, <3>1 DEF StackOK
  <2> QED BY <2>1, <2>2
<1>11. \A i \in 1 .. k : Waits(m, t[i])
  BY <1>1, <1>9 DEF StackOK
<1>12. k + 1 <= MaxDepth /\ k + 1 # 0
  BY <1>2, <1>3, <1>4, MaxDepthAssumption
<1>13. Len(t) - 1 = k
  BY <1>4, <1>7
<1> QED BY <1>7, <1>10, <1>11, <1>12, <1>13 DEF StackOK

----------------------------------------------------------------------------
(* What an instruction reads.                                              *)

LEMMA ReadLemma ==
  ASSUME NEW m, WellBuilt(m), NEW F, NEW n \in Nat, CallOK(m, F, n), F.pc # 0,
         NEW args, args = Operands(FnOf(m, F), F.block, F.pc)
  PROVE  /\ IsSeq(args)
         /\ \A k \in DOMAIN args :
              IF IsReg(args[k]) THEN args[k].v \in DOMAIN F.regs /\ IsValue(F.regs[args[k].v], n)
              ELSE IsValue(args[k], n)
<1>1. PICK f, N : f = FnOf(m, F) /\ N = NamesIn(m, F.func)
  OBVIOUS
<1>2. /\ F.block \in Reachable(f) /\ F.block \in BlockIds(f) /\ AssignsOnce(f) /\ ReadsAssigned(f)
      /\ IsList(BlockOf(f, F.block).insts) /\ F.pc \in Nat
  BY <1>1, CallLemma
<1>3. PICK O : /\ Wide(O) /\ BlockOf(f, F.block).term \in Terms(O)
               /\ \A k \in DOMAIN BlockOf(f, F.block).insts : InstAt(f, F.block, k) \in Insts(O, N)
  BY <1>1, CallLemma DEF HereIn
<1>4. args \in Seq(O)
  <2>1. CASE F.pc \in DOMAIN BlockOf(f, F.block).insts
    <3>1. InstAt(f, F.block, F.pc) \in Insts(O, N)
      BY <1>3, <2>1
    <3> QED BY <1>1, <2>1, <3>1 DEF Operands, Insts
  <2>2. CASE F.pc \notin DOMAIN BlockOf(f, F.block).insts
    <3>1. BlockOf(f, F.block).term.arg \in O
      BY <1>3 DEF Terms
    <3> QED BY <1>1, <2>2, <3>1 DEF Operands
  <2> QED BY <2>1, <2>2
<1>5. F.pc \in 1 .. Len(BlockOf(f, F.block).insts) + 1
  <2>1. F.pc \in 0 .. Len(BlockOf(f, F.block).insts) + 1
    BY <1>1 DEF CallOK, Placed, HereIn
  <2> QED BY <1>2, <2>1 DEF IsList
<1>6. DOMAIN F.regs = 0 .. f.regs - 1 /\ Holds(F, n)
  BY <1>1 DEF CallOK, Placed
<1>7. ASSUME NEW k \in DOMAIN args
      PROVE  IF IsReg(args[k]) THEN args[k].v \in DOMAIN F.regs /\ IsValue(F.regs[args[k].v], n)
             ELSE IsValue(args[k], n)
  <2>1. CASE IsReg(args[k])
    <3>1. PICK r : r = args[k].v
      OBVIOUS
    <3>2. r \in ReadAt(f, F.block, F.pc)
      BY <1>1, <2>1, <3>1, ReadAtLemma
    <3>3. Assigned(f, r, F.block, F.pc)
      BY <1>2, <1>5, <3>2 DEF ReadsAssigned
    <3>4. r \in 0 .. f.regs - 1
      BY <1>2, <3>3 DEF Assigned, AssignsTo, AssignsOnce
    <3> QED BY <1>6, <2>1, <3>1, <3>4 DEF Holds
  <2>2. CASE ~ IsReg(args[k])
    <3>1. args[k] \in O
      BY <1>4
    <3>2. IsValue(args[k], 0)
      BY <1>3, <2>2, <3>1 DEF Wide, IsOperand
    <3> QED BY <2>2, <3>2, GrowLemma
  <2> QED BY <2>1, <2>2
<1> QED BY <1>4, <1>7 DEF IsSeq

\* A sequence of values from one of operands.
LEMMA MapIsSeq ==
  ASSUME NEW s, IsSeq(s), NEW t, DOMAIN t = DOMAIN s, t = [k \in DOMAIN s |-> t[k]]
  PROVE  IsSeq(t) /\ Len(t) = Len(s)
<1>1. PICK n \in Nat : n = Len(s) /\ DOMAIN s = 1 .. n
  BY LenLemma
<1>2. PICK S : S = {t[k] : k \in 1 .. n}
  OBVIOUS
<1>3. t \in [1 .. n -> S]
  BY <1>1, <1>2
<1>4. t \in Seq(S) /\ Len(t) = n
  BY <1>3
<1> QED BY <1>1, <1>4 DEF IsSeq

LEMMA ValuesLemma ==
  ASSUME WellBuilt(mir), NEW n \in Nat, CallOK(mir, Top, n), Top.pc # 0,
         NEW args, args = Operands(Func, Top.block, Top.pc)
  PROVE  /\ Readable(args) /\ Typed([k \in DOMAIN args |-> Value(args[k])], n)
         /\ IsSeq(args) /\ Len([k \in DOMAIN args |-> Value(args[k])]) = Len(args)
<1>1. Func = FnOf(mir, Top)
  BY DEF Func, FnOf
<1>2. /\ IsSeq(args)
      /\ \A k \in DOMAIN args :
           IF IsReg(args[k]) THEN args[k].v \in DOMAIN Top.regs /\ IsValue(Top.regs[args[k].v], n)
           ELSE IsValue(args[k], n)
  BY <1>1, ReadLemma
<1>3. PICK t : t = [k \in DOMAIN args |-> Value(args[k])]
  OBVIOUS
<1>4. \A k \in DOMAIN args : IsValue(t[k], n)
  BY <1>2, <1>3 DEF Value
<1>5. IsSeq(t) /\ Len(t) = Len(args) /\ DOMAIN t = DOMAIN args
  BY <1>2, <1>3, MapIsSeq
<1>6. Typed(t, n)
  BY <1>4, <1>5, LenLemma, TypedLemma
<1> QED BY <1>2, <1>3, <1>5, <1>6 DEF Readable

----------------------------------------------------------------------------
(* What an instruction makes of it.                                        *)

LEMMA OperatorStatuses ==
  ASSUME NEW op, NEW hp, NEW x, NEW y
  PROVE  /\ UnaryValue(op, x).status \in Clean \cup {"ok"}
         /\ BinaryValue(op, hp, x, y).status \in Clean \cup {"ok"}
<1>1. \A v : Ok(v).status = "ok"
  BY DEF Ok
<1>2. Err("unexpected kind").status \in Clean /\ Err("native stack overflow").status \in Clean
  BY DEF Err, Clean, KindErrors, Aborts
<1>3. UnaryValue(op, x).status \in Clean \cup {"ok"}
  BY <1>1, <1>2 DEF UnaryValue
<1>4. Equal(op, hp, x, y).status \in Clean \cup {"ok"}
  BY <1>1, <1>2 DEF Equal
<1>5. ASSUME op \in ArithOps PROVE ArithInt(IntOpOf[op], x.v, y.v).status \in Clean \cup {"ok"}
  <2>1. IntOpOf[op] \in IntArith
    BY <1>5 DEF ArithOps, IntOpOf, IntArith
  <2> QED BY <2>1, ArithLemma
<1>6. BinaryValue(op, hp, x, y).status \in Clean \cup {"ok"}
  BY <1>1, <1>2, <1>4, <1>5 DEF BinaryValue
<1> QED BY <1>3, <1>6

HeapOK(h) == IsSeq(h) /\ \A a \in 1 .. Len(h) : Typed(h[a], Len(h))

LEMMA ElementLemma ==
  ASSUME HeapOK(heap), NEW args, Typed(args, Len(heap)), 1 \in DOMAIN args, 2 \in DOMAIN args
  PROVE  /\ Element(args).status \in Clean \cup {"ok"} /\ GoodOutcome(Element(args), Len(heap))
         /\ Element(args).status = "ok" =>
              /\ args[1].v \in 1 .. Len(heap) /\ Typed(heap[args[1].v], Len(heap))
              /\ args[2].v + 1 \in 1 .. Len(heap[args[1].v])
<1>1. IsValue(args[1], Len(heap)) /\ IsValue(args[2], Len(heap))
  BY DEF Typed, AreValues
<1>2. CASE args[1].t # "Array" \/ args[2].t # "Int"
  BY <1>2 DEF Element, Err, Clean, KindErrors, GoodOutcome
<1>3. CASE args[1].t = "Array" /\ args[2].t = "Int"
  <2>1. PICK a \in 1 .. Len(heap), i \in Int : a = args[1].v /\ i = args[2].v
    BY <1>1, <1>3, WidthLemma DEF IsValue
  <2>2. Typed(heap[a], Len(heap)) /\ Len(heap[a]) \in Nat
    BY LenLemma DEF HeapOK, Typed
  <2>3. CASE IndexInBounds(i, Len(heap[a]))
    <3>1. i + 1 \in 1 .. Len(heap[a])
      BY <2>2, <2>3 DEF IndexInBounds
    <3>2. IsValue(heap[a][i + 1], Len(heap))
      BY <2>2, <3>1, TypedLemma
    <3>3. Element(args) = Ok(heap[a][i + 1])
      BY <1>3, <2>1, <2>3 DEF Element
    <3> QED BY <2>1, <2>2, <3>1, <3>2, <3>3 DEF Ok, GoodOutcome
  <2>4. CASE ~ IndexInBounds(i, Len(heap[a]))
    <3>1. Element(args) = Err("index out of bounds")
      BY <1>3, <2>1, <2>4 DEF Element
    <3>2. PICK e : e = Err("index out of bounds")
      OBVIOUS
    <3>3. e.status = "index out of bounds"
      BY <3>2 DEF Err
    <3>4. e.status \in Clean /\ e.status # "ok"
      BY <3>3 DEF Clean, UserErrors
    <3> QED BY <3>1, <3>2, <3>4 DEF GoodOutcome
  <2> QED BY <2>3, <2>4
<1> QED BY <1>2, <1>3

----------------------------------------------------------------------------
(* The state of the interpreter.                                           *)

RunOK ==
  /\ StackOK(mir, frames, Len(heap)) /\ HeapOK(heap)
  /\ Typed(stdout, Len(heap)) /\ IsValue(result, Len(heap))
  /\ status \in Clean \cup {"idle", "running", "finished"} /\ steps \in 0 .. MirSteps + 1
  /\ status = "idle" => steps = 0 /\ frames = <<>>
  /\ status = "running" => steps <= MirSteps /\ Len(frames) # 0

LEMMA RunningLemma ==
  ASSUME RunOK, status = "running"
  PROVE  /\ CallOK(mir, Top, Len(heap)) /\ Len(heap) \in Nat
         /\ IsSeq(frames) /\ Len(frames) \in Nat /\ Len(frames) # 0
         /\ Func = FnOf(mir, Top) /\ Current = HereIn(mir, Top)
<1>1. IsSeq(frames) /\ Len(frames) \in Nat /\ Len(frames) # 0 /\ Len(heap) \in Nat
  BY LenLemma DEF RunOK, StackOK, HeapOK
<1>2. Len(frames) \in 1 .. Len(frames)
  BY <1>1
<1>3. CallOK(mir, Top, Len(heap))
  BY <1>2 DEF RunOK, StackOK, Top
<1> QED BY <1>1, <1>3 DEF Func, Current, FnOf, HereIn

LEMMA CleanLemma ==
  /\ "running" \notin Clean /\ "idle" \notin Clean /\ "finished" \notin Clean /\ "ok" \notin Clean
  /\ Clean \cap MirStructureErrors = {} /\ Clean \subseteq MirStatuses
BY DEF Clean, UserErrors, KindErrors, Aborts, MirStructureErrors, MirStatuses, MirInternal

LEMMA FailLemma ==
  ASSUME RunOK, status = "running", mir' = mir, NEW e \in Clean, Fail(e)
  PROVE  RunOK'
<1>1. /\ status' = e /\ frames' = frames /\ heap' = heap /\ stdout' = stdout
      /\ steps' = steps /\ result' = result
  BY DEF Fail, Stop
<1> QED BY <1>1, CleanLemma DEF RunOK

LEMMA GoOnLemma ==
  ASSUME RunOK, status = "running", mir' = mir, NEW G, CallOK(mir, G, Len(heap)), InTop(G),
         HeapOK(heap'), Len(heap') = Len(heap), UNCHANGED <<status, stdout, steps, result>>
  PROVE  RunOK'
<1>1. Len(frames) # 0 /\ StackOK(mir, frames, Len(heap))
  BY DEF RunOK
<1>2. StackOK(mir, frames', Len(heap)) /\ Len(frames') = Len(frames)
  <2>1. frames' = Retopped(frames, G)
    BY DEF InTop, Retopped
  <2> QED BY <1>1, <2>1, ReplaceTop
<1> QED BY <1>1, <1>2 DEF RunOK

\* The instruction of the last call.
LEMMA InstrLemma ==
  ASSUME WellBuilt(mir), RunOK, status = "running", Top.pc \in DOMAIN Current.insts
  PROVE  /\ Readable(Instr.args) /\ Typed(Args, Len(heap)) /\ Len(Args) = Len(Instr.args)
         /\ Assigns(Instr) => Instr.dst \in DOMAIN Top.regs
         /\ Instr.kind \in {"Load", "Store"} => Instr.n \in DOMAIN Top.locals
         /\ Instr.kind = "Call" => Instr.n \in MirFns(mir)
         /\ \E O, N : Instr \in Insts(O, N)
<1>1. /\ CallOK(mir, Top, Len(heap)) /\ Len(heap) \in Nat
      /\ Func = FnOf(mir, Top) /\ Current = HereIn(mir, Top)
  BY RunningLemma
<1>2. PICK f, N : f = FnOf(mir, Top) /\ N = NamesIn(mir, Top.func)
  OBVIOUS
<1>3. PICK O : \A k \in DOMAIN Current.insts : InstAt(f, Top.block, k) \in Insts(O, N)
  BY <1>1, <1>2, CallLemma
<1>4. Instr = InstAt(f, Top.block, Top.pc) /\ Current = BlockOf(f, Top.block)
  BY <1>1, <1>2 DEF Instr, InstAt, HereIn
<1>5. Instr \in Insts(O, N)
  BY <1>3, <1>4
<1>6. Operands(Func, Top.block, Top.pc) = Instr.args
  BY <1>1, <1>2, <1>4 DEF Operands
<1>7. Top.pc # 0 /\ AssignsOnce(f) /\ Top.block \in BlockIds(f)
  <2>1. IsList(Current.insts) /\ AssignsOnce(f) /\ Top.block \in BlockIds(f)
    BY <1>1, <1>2, <1>4, CallLemma
  <2> QED BY <2>1 DEF IsList
<1>8. Readable(Instr.args) /\ Typed(Args, Len(heap)) /\ Len(Args) = Len(Instr.args)
  BY <1>1, <1>6, <1>7, ValuesLemma DEF Args
<1>9. DOMAIN Top.regs = 0 .. f.regs - 1 /\ DOMAIN Top.locals = 0 .. f.locals - 1
  BY <1>1, <1>2 DEF CallOK, Placed
<1>10. Assigns(Instr) => Instr.dst \in DOMAIN Top.regs
  BY <1>4, <1>7, <1>9 DEF AssignsOnce
<1>11. N.locals = 0 .. f.locals - 1 /\ N.functions = MirFns(mir)
  BY <1>2 DEF NamesIn, FnOf
<1> QED BY <1>5, <1>8, <1>9, <1>10, <1>11 DEF Insts

LEMMA YieldsLemma ==
  ASSUME WellBuilt(mir), RunOK, status = "running", mir' = mir, Top.pc \in DOMAIN Current.insts, Assigns(Instr),
         NEW o, o.status \in Clean \cup {"ok"}, GoodOutcome(o, Len(heap')), Yields(o),
         o.status = "ok" => Explains(Top, Instr, o.v),
         HeapOK(heap'), Len(heap) <= Len(heap'), Typed(stdout', Len(heap'))
  PROVE  RunOK'
<1>1. Instr.dst \in DOMAIN Top.regs
  BY InstrLemma
<1>2. /\ CallOK(mir, Top, Len(heap)) /\ Len(heap) \in Nat /\ Len(frames) # 0
      /\ Current = HereIn(mir, Top)
  BY RunningLemma
<1>3. PICK n \in Nat : n = Len(heap')
  BY LenLemma DEF HeapOK
<1>4. IsValue(result, n) /\ StackOK(mir, frames, n) /\ CallOK(mir, Top, n)
  BY <1>2, <1>3, GrowLemma, StackGrows, CallGrows DEF RunOK
<1>5. CASE o.status # "ok"
  <2>1. /\ status' = o.status /\ frames' = frames /\ steps' = steps /\ result' = result
    BY <1>5 DEF Yields, Stop
  <2> QED BY <1>3, <1>4, <1>5, <2>1, CleanLemma DEF RunOK
<1>6. CASE o.status = "ok"
  <2>1. /\ InTop(Into(Top, Instr.dst, o.v)) /\ status' = status /\ steps' = steps /\ result' = result
    BY <1>1, <1>6 DEF Yields
  <2>2. IsValue(o.v, n)
    BY <1>3, <1>6 DEF GoodOutcome
  <2>3. CallOK(mir, Into(Top, Instr.dst, o.v), n)
    BY <1>1, <1>2, <1>4, <1>6, <2>2, IntoLemma DEF Instr
  <2>4. StackOK(mir, frames', n) /\ Len(frames') = Len(frames)
    <3>1. frames' = Retopped(frames, Into(Top, Instr.dst, o.v))
      BY <2>1 DEF InTop, Retopped
    <3> QED BY <1>2, <1>4, <2>3, <3>1, ReplaceTop
  <2> QED BY <1>2, <1>3, <1>4, <2>1, <2>4 DEF RunOK
<1> QED BY <1>5, <1>6

LEMMA RvalueLemma ==
  ASSUME WellBuilt(mir), RunOK, status = "running", Top.pc \in DOMAIN Current.insts,
         Instr.kind \in RvalueKinds \ {"MakeArray"}
  PROVE  Rvalue(Args).status \in Clean \cup {"ok"} /\ GoodOutcome(Rvalue(Args), Len(heap))
<1>1. PICK args, n, k, o : args = Args /\ n = Len(heap) /\ k = Instr.kind /\ o = Rvalue(args)
  OBVIOUS
<1>2. PICK O, N : Instr \in Insts(O, N)
  BY InstrLemma
<1>3. Typed(args, n) /\ Len(args) = Len(Instr.args)
  BY <1>1, InstrLemma
<1>4. /\ k \in {"Use", "Unary"} => Len(args) = 1
      /\ k \in {"Binary", "Concat", "Index"} => Len(args) = 2
  BY <1>1, <1>2, <1>3 DEF Insts
<1>5. /\ k \in {"Use", "Unary", "Binary", "Concat", "Index"} => 1 \in DOMAIN args /\ IsValue(args[1], n)
      /\ k \in {"Binary", "Concat", "Index"} => 2 \in DOMAIN args /\ IsValue(args[2], n)
  <2>1. \A i \in 1 .. Len(args) : i \in DOMAIN args /\ IsValue(args[i], n)
    BY <1>3 DEF Typed, AreValues
  <2>2. Len(args) = 1 => 1 \in 1 .. Len(args)
    OBVIOUS
  <2>3. Len(args) = 2 => 1 \in 1 .. Len(args) /\ 2 \in 1 .. Len(args)
    OBVIOUS
  <2>4. k \in {"Use", "Unary"} => 1 \in 1 .. Len(args)
    BY <1>4, <2>2
  <2>5. k \in {"Binary", "Concat", "Index"} => 1 \in 1 .. Len(args) /\ 2 \in 1 .. Len(args)
    BY <1>4, <2>3
  <2> QED BY <2>1, <2>4, <2>5
<1>6. \A v : Ok(v).status = "ok" /\ Ok(v).v = v
  BY DEF Ok
<1>7. CASE k = "Use"
  <2>1. o = Ok(args[1])
    BY <1>1, <1>7 DEF Rvalue
  <2> QED BY <1>1, <1>5, <1>6, <1>7, <2>1 DEF GoodOutcome
<1>8. CASE k = "Load"
  <2>1. Instr.n \in DOMAIN Top.locals
    BY <1>1, <1>8, InstrLemma
  <2>2. o = Ok(Top.locals[Instr.n])
    BY <1>1, <1>8, <2>1 DEF Rvalue
  <2>3. IsValue(Top.locals[Instr.n], n)
    BY <1>1, <2>1, RunningLemma DEF CallOK, Holds
  <2> QED BY <1>1, <1>6, <2>2, <2>3 DEF GoodOutcome
<1>9. CASE k = "Unary"
  <2>1. o = UnaryValue(Instr.op, args[1])
    BY <1>1, <1>9 DEF Rvalue
  <2>2. IsValue(args[1], n)
    BY <1>5, <1>9
  <2> QED BY <1>1, <2>1, <2>2, OperatorStatuses, UnaryTypeLemma
<1>10. CASE k = "Binary"
  <2>1. o = BinaryValue(Instr.op, heap, args[1], args[2])
    BY <1>1, <1>10 DEF Rvalue
  <2>2. IsValue(args[1], n) /\ IsValue(args[2], n)
    BY <1>5, <1>10
  <2> QED BY <1>1, <2>1, <2>2, OperatorStatuses, BinaryTypeLemma
<1>11. CASE k = "Concat"
  <2>1. IsValue(args[1], n) /\ IsValue(args[2], n)
    BY <1>5, <1>11
  <2>2. CASE args[1].t = "Str" /\ args[2].t = "Str"
    <3>1. PICK x \in Seq(Nat), y \in Seq(Nat) : x = args[1].v /\ y = args[2].v
      BY <2>1, <2>2 DEF IsValue
    <3>2. x \o y \in Seq(Nat)
      OBVIOUS
    <3>3. o = Ok(StrV(x \o y))
      BY <1>1, <1>11, <2>2, <3>1 DEF Rvalue
    <3> QED BY <1>1, <1>6, <3>2, <3>3, ValueLemma
  <2>3. CASE ~ (args[1].t = "Str" /\ args[2].t = "Str")
    <3>1. o = Err("unexpected kind")
      BY <1>1, <1>11, <2>3 DEF Rvalue
    <3>2. PICK e : e = Err("unexpected kind")
      OBVIOUS
    <3>3. e.status \in Clean /\ e.status # "ok"
      BY <3>2 DEF Err, Clean, KindErrors
    <3> QED BY <1>1, <3>1, <3>2, <3>3 DEF GoodOutcome
  <2> QED BY <2>2, <2>3
<1>12. CASE k = "Index"
  <2>1. o = Element(args)
    BY <1>1, <1>12 DEF Rvalue
  <2>2. 1 \in DOMAIN args /\ 2 \in DOMAIN args /\ HeapOK(heap)
    BY <1>5, <1>12 DEF RunOK
  <2> QED BY <1>1, <1>3, <2>1, <2>2, ElementLemma
<1> QED BY <1>1, <1>7, <1>8, <1>9, <1>10, <1>11, <1>12 DEF RvalueKinds

\* Only comparing two arrays reads the heap.
LEMMA HeapUnread ==
  ASSUME NEW op, NEW hp, NEW x, NEW y, ~ (op \in {"Eq", "Ne"} /\ x.t = "Array")
  PROVE  BinaryValue(op, hp, x, y) = BinaryValue(op, <<>>, x, y)
<1>1. CASE op \in {"Eq", "Ne"}
  <2>1. x.t # "Array"
    BY <1>1
  <2>2. ValueEq(hp, x, y) = ValueEq(<<>>, x, y)
    BY <2>1 DEF ValueEq, ItemVerdict
  <2> QED BY <1>1, <2>2 DEF BinaryValue, Equal
<1>2. CASE op \notin {"Eq", "Ne"}
  BY <1>2 DEF BinaryValue
<1> QED BY <1>1, <1>2

\* What an assignment computes.
LEMMA ComputedLemma ==
  ASSUME WellBuilt(mir), RunOK, status = "running", Top.pc \in DOMAIN Current.insts,
         Instr.kind \in CseKinds, ~ ComparesArrays(Top, Instr)
  PROVE  Rvalue(Args) = Computed(Top, Instr)
<1>1. PICK args : args = Args
  OBVIOUS
<1>2. PICK O, N : Instr \in Insts(O, N)
  BY InstrLemma
<1>3. \A k \in DOMAIN Instr.args : args[k] = ValueIn(Top, Instr.args[k])
  BY <1>1 DEF Args, Value, ValueIn
<1>4. /\ Instr.kind \in {"Unary", "Binary", "Concat"} => args[1] = ValueIn(Top, Instr.args[1])
      /\ Instr.kind \in {"Binary", "Concat"} => args[2] = ValueIn(Top, Instr.args[2])
  <2>1. /\ Instr.kind \in {"Unary", "Binary", "Concat"} => 1 \in DOMAIN Instr.args
        /\ Instr.kind \in {"Binary", "Concat"} => 2 \in DOMAIN Instr.args
    BY <1>2 DEF Insts
  <2> QED BY <1>3, <2>1
<1>5. CASE Instr.kind = "Load"
  <2>1. Instr.n \in DOMAIN Top.locals
    BY <1>5, InstrLemma
  <2> QED BY <1>5, <2>1 DEF Rvalue, Computed
<1>6. CASE Instr.kind = "Unary"
  BY <1>1, <1>4, <1>6 DEF Rvalue, Computed
<1>7. CASE Instr.kind = "Binary"
  <2>1. BinaryValue(Instr.op, heap, args[1], args[2]) = BinaryValue(Instr.op, <<>>, args[1], args[2])
    BY <1>4, <1>7, HeapUnread DEF ComparesArrays
  <2> QED BY <1>1, <1>4, <1>7, <2>1 DEF Rvalue, Computed
<1>8. CASE Instr.kind = "Concat"
  BY <1>1, <1>4, <1>8 DEF Rvalue, Computed
<1> QED BY <1>5, <1>6, <1>7, <1>8 DEF CseKinds

LEMMA ExplainsLemma ==
  ASSUME WellBuilt(mir), RunOK, status = "running", Top.pc \in DOMAIN Current.insts,
         Rvalue(Args).status = "ok"
  PROVE  Explains(Top, Instr, Rvalue(Args).v)
<1>1. ASSUME Instr.kind = "Use" PROVE Rvalue(Args).v = ValueIn(Top, Instr.args[1])
  <2>1. PICK args : args = Args
    OBVIOUS
  <2>2. PICK O, N : Instr \in Insts(O, N)
    BY InstrLemma
  <2>3. 1 \in DOMAIN Instr.args
    BY <1>1, <2>2 DEF Insts
  <2>4. args[1] = ValueIn(Top, Instr.args[1])
    BY <2>1, <2>3 DEF Args, Value, ValueIn
  <2>5. Rvalue(args) = Ok(args[1])
    BY <1>1 DEF Rvalue
  <2> QED BY <2>1, <2>4, <2>5 DEF Ok
<1>2. ASSUME Instr.kind \in CseKinds, ~ ComparesArrays(Top, Instr)
      PROVE  Rvalue(Args) = Computed(Top, Instr)
  BY <1>2, ComputedLemma
<1> QED BY <1>1, <1>2 DEF Explains

\* The terminator of the block the last call is in.
LEMMA EndingLemma ==
  ASSUME WellBuilt(mir), RunOK, status = "running", Top.pc = Len(Current.insts) + 1
  PROVE  /\ Readable(<<Ending.arg>>) /\ IsValue(Value(Ending.arg), Len(heap))
         /\ Ending.kind # "Unreachable"
         /\ Ending.kind \in {"Goto", "Branch"} => Ending.succ[1] \in Exits(Func, Top.block)
         /\ Ending.kind = "Branch" => Ending.succ[2] \in Exits(Func, Top.block)
<1>1. /\ CallOK(mir, Top, Len(heap)) /\ Len(heap) \in Nat
      /\ Func = FnOf(mir, Top) /\ Current = HereIn(mir, Top)
  BY RunningLemma
<1>2. PICK f : f = FnOf(mir, Top) /\ f = Func
  BY <1>1
<1>3. /\ Top.block \in BlockIds(f) /\ JumpsInside(f)
      /\ \A c \in BlockIds(f) : IsList(BlockOf(f, c).insts)
  BY <1>1, <1>2, CallLemma
<1>4. PICK O : Current.term \in Terms(O)
  BY <1>1, <1>2, CallLemma
<1>5. Current = BlockOf(f, Top.block) /\ Ending = Current.term
  BY <1>2 DEF Current, Ending
<1>6. Top.pc # 0 /\ Top.pc \notin DOMAIN Current.insts
  BY <1>3, <1>5 DEF IsList
<1>7. PICK args : args = <<Ending.arg>>
  OBVIOUS
<1>8. args = Operands(f, Top.block, Top.pc)
  BY <1>5, <1>6, <1>7 DEF Operands
<1>9. Readable(args) /\ Typed([k \in DOMAIN args |-> Value(args[k])], Len(heap))
  BY <1>1, <1>2, <1>6, <1>8, ValuesLemma
<1>10. IsValue(Value(Ending.arg), Len(heap))
  <2>1. DOMAIN args = {1} /\ args[1] = Ending.arg
    BY <1>7
  <2>2. PICK t : t = [k \in DOMAIN args |-> Value(args[k])]
    OBVIOUS
  <2>3. DOMAIN t = {1} /\ t[1] = Value(Ending.arg)
    BY <2>1, <2>2
  <2> QED BY <1>9, <2>2, <2>3 DEF Typed, AreValues
<1>11. Ending.kind # "Unreachable"
  BY <1>3, <1>5 DEF JumpsInside
<1>12. \A k \in DOMAIN Ending.succ : Ending.succ[k] \in Exits(f, Top.block)
  BY <1>5 DEF Exits
<1>13. /\ Ending.succ \in Seq(Nat)
       /\ Ending.kind = "Goto" => Len(Ending.succ) = 1
       /\ Ending.kind = "Branch" => Len(Ending.succ) = 2
  BY <1>4, <1>5 DEF Terms
<1>14. /\ Ending.kind \in {"Goto", "Branch"} => 1 \in DOMAIN Ending.succ
       /\ Ending.kind = "Branch" => 2 \in DOMAIN Ending.succ
  BY <1>13
<1> QED BY <1>2, <1>7, <1>9, <1>10, <1>11, <1>12, <1>14

----------------------------------------------------------------------------
(* What the passes would put in the place of what is read and executed.    *)

\* What the operands before an instruction, or a terminator, are copies of.
LEMMA CopiesCurrentLemma ==
  ASSUME WellBuilt(mir), RunOK, status = "running", Top.pc # 0
  PROVE  CopiesAreCurrent
<1>1. /\ CallOK(mir, Top, Len(heap)) /\ Func = FnOf(mir, Top) /\ Current = HereIn(mir, Top)
  BY RunningLemma
<1>2. PICK f, T : f = Func /\ T = Copies(f)
  OBVIOUS
<1>3. /\ Top.block \in Reachable(f) /\ Framed(f) /\ AssignsOnce(f) /\ ReadsAssigned(f)
      /\ IsList(BlockOf(f, Top.block).insts)
      /\ \E O : f \in Graphs(O, NamesIn(mir, Top.func))
  BY <1>1, <1>2, CallLemma
<1>4. Top.pc \in 1 .. Len(BlockOf(f, Top.block).insts) + 1
  <2>1. Top.pc \in 0 .. Len(BlockOf(f, Top.block).insts) + 1
    BY <1>1, <1>2 DEF CallOK, Placed, HereIn
  <2> QED BY <1>3, <2>1 DEF IsList
<1>5. PICK O : f \in Graphs(O, NamesIn(mir, Top.func))
  BY <1>3
<1>6. T \in Tables(f, O)
  BY <1>2, <1>3, <1>5, CopiesLemma
<1>7. Inside(f, Top)
  BY <1>1, <1>2, <1>3, <1>4 DEF Inside, CallOK
<1>8. ReadHere = Operands(f, Top.block, Top.pc)
  BY <1>2 DEF ReadHere, Operands, Instr, InstAt, Ending, Current
<1> SUFFICES ASSUME NEW k \in DOMAIN ReadHere
             PROVE  Value(Source(ReadHere[k], T)) = Value(ReadHere[k])
  BY <1>2 DEF CopiesAreCurrent
<1>9. PICK o, r : o = ReadHere[k] /\ r = o.v
  OBVIOUS
<1>10. CASE IsReg(o) /\ r \in DOMAIN T
  <2>1. Source(o, T) = T[r] /\ Stands(f, T[r], r)
    BY <1>6, <1>9, <1>10, TablesLemma DEF Source
  <2>2. r \in ReadAt(f, Top.block, Top.pc)
    BY <1>8, <1>9, <1>10, ReadAtLemma
  <2>3. Assigned(f, r, Top.block, Top.pc)
    BY <1>3, <1>4, <2>2 DEF ReadsAssigned
  <2>4. ValueIn(Top, T[r]) = Top.regs[r]
    BY <1>7, <2>1, <2>3 DEF Stands, Tracks
  <2> QED BY <1>9, <1>10, <2>1, <2>4 DEF Value, ValueIn
<1>11. CASE ~ (IsReg(o) /\ r \in DOMAIN T)
  BY <1>9, <1>11 DEF Source
<1> QED BY <1>10, <1>11

LEMMA FoldsLemma ==
  ASSUME WellBuilt(mir), RunOK, status = "running"
  PROVE  FoldsToItsValue
<1> SUFFICES ASSUME Executes, Foldable(Instr), Folded(Instr).status = "ok"
             PROVE  Gives(Rvalue(Args), Folded(Instr).v)
  BY DEF FoldsToItsValue
<1>1. PICK args, i : args = Args /\ i = Instr
  OBVIOUS
<1>2. PICK O, N : i \in Insts(O, N)
  BY <1>1, InstrLemma DEF Executes
<1>3. \A k \in DOMAIN i.args : args[k] = i.args[k]
  BY <1>1 DEF Args, Value, Foldable
<1>4. /\ i.kind \in {"Unary", "Binary", "Concat"} => args[1] = i.args[1]
      /\ i.kind \in {"Binary", "Concat"} => args[2] = i.args[2]
  <2>1. /\ i.kind \in {"Unary", "Binary", "Concat"} => 1 \in DOMAIN i.args
        /\ i.kind \in {"Binary", "Concat"} => 2 \in DOMAIN i.args
    BY <1>2 DEF Insts
  <2> QED BY <1>3, <2>1
<1>5. CASE i.kind = "Unary"
  BY <1>1, <1>4, <1>5 DEF Rvalue, Folded, Gives, Equals
<1>6. CASE i.kind = "Binary"
  <2>1. args[1].t \in {"Int", "Float", "Bool"}
    BY <1>1, <1>4, <1>6 DEF Foldable
  <2>2. BinaryValue(i.op, heap, args[1], args[2]) = BinaryValue(i.op, <<>>, args[1], args[2])
    BY <2>1, HeapUnread
  <2> QED BY <1>1, <1>4, <1>6, <2>2 DEF Rvalue, Folded, Gives, Equals
<1>7. CASE i.kind = "Concat"
  <2>1. args[1].t = "Str" /\ args[2].t = "Str"
    BY <1>1, <1>4, <1>7 DEF Foldable
  <2> QED BY <1>1, <1>4, <1>7, <2>1 DEF Rvalue, Folded, Gives, Equals
<1> QED BY <1>1, <1>5, <1>6, <1>7 DEF Foldable

\* Operands that are not both integers, nor both floats.
LEMMA MistypedLemma ==
  ASSUME NEW op, op \notin {"Eq", "Ne"}, NEW hp, NEW x, NEW y,
         ~ (x.t = "Int" /\ y.t = "Int"), ~ (x.t = "Float" /\ y.t = "Float")
  PROVE  Mistyped(BinaryValue(op, hp, x, y))
<1>1. Mistyped(Err("unexpected kind"))
  BY Zenon DEF Err, Mistyped
<1>2. BinaryValue(op, hp, x, y) = Err("unexpected kind")
  BY Zenon DEF BinaryValue
<1> QED BY <1>1, <1>2, Zenon

\* Arithmetic of which one side is an integer.
LEMMA IntSide ==
  ASSUME NEW op \in ArithOps, NEW hp, NEW x, NEW y, NEW o, o = BinaryValue(op, hp, x, y),
         x.t = "Int" \/ y.t = "Int"
  PROVE  Mistyped(o) \/ (x.t = "Int" /\ y.t = "Int" /\ o = ArithInt(IntOpOf[op], x.v, y.v))
<1>1. op \notin {"Eq", "Ne"}
  BY DEF ArithOps
<1>2. ~ (x.t = "Float" /\ y.t = "Float")
  OBVIOUS
<1>3. CASE x.t = "Int" /\ y.t = "Int"
  <2>1. BinaryValue(op, hp, x, y) = ArithInt(IntOpOf[op], x.v, y.v)
    BY <1>1, <1>3, Zenon DEF BinaryValue
  <2> QED BY <1>3, <2>1
<1>4. CASE ~ (x.t = "Int" /\ y.t = "Int")
  BY <1>1, <1>2, <1>4, MistypedLemma
<1> QED BY <1>3, <1>4

\* The neutral and the absorbing operands.
LEMMA NeutralLemma ==
  ASSUME NEW x \in Ints
  PROVE  /\ ArithInt("AddInt", x, 0) = Ok(IntV(x)) /\ ArithInt("AddInt", 0, x) = Ok(IntV(x))
         /\ ArithInt("SubInt", x, 0) = Ok(IntV(x)) /\ ArithInt("SubInt", x, x) = Ok(IntV(0))
         /\ ArithInt("MulInt", x, 1) = Ok(IntV(x)) /\ ArithInt("MulInt", 1, x) = Ok(IntV(x))
         /\ ArithInt("MulInt", x, 0) = Ok(IntV(0)) /\ ArithInt("MulInt", 0, x) = Ok(IntV(0))
         /\ ArithInt("DivInt", x, 1) = Ok(IntV(x)) /\ ArithInt("RemInt", x, 1) = Ok(IntV(0))
<1>1. x \in Int /\ 0 \in Ints
  BY WidthLemma
<1>2. Wrap(x) = x /\ Wrap(0) = 0
  BY <1>1, WrapLemma
<1>3. x + 0 = x /\ 0 + x = x /\ x - 0 = x /\ x - x = 0 /\ x * 1 = x /\ 1 * x = x /\ x * 0 = 0 /\ 0 * x = 0
  BY <1>1
<1>4. TruncDiv(x, 1) = x
  <2>1. Abs(1) = 1
    BY DEF Abs
  <2>2. Abs(x) \in Nat /\ Abs(x) \div 1 = Abs(x)
    BY <1>1 DEF Abs
  <2>3. TruncDiv(x, 1) = IF x < 0 THEN -Abs(x) ELSE Abs(x)
    BY <1>1, <2>1, <2>2 DEF TruncDiv
  <2> QED BY <1>1, <2>3 DEF Abs
<1>5. TruncRem(x, 1) = 0
  BY <1>1, <1>4 DEF TruncRem
<1>6. \A r : CheckedDiv(x, 1, r) = Ok(IntV(r))
  BY DEF CheckedDiv
<1> QED BY <1>2, <1>3, <1>4, <1>5, <1>6 DEF ArithInt

LEMMA SimplifiesLemma ==
  ASSUME WellBuilt(mir), RunOK, status = "running"
  PROVE  SimplifiesToItsValue
<1> SUFFICES ASSUME Executes, SimplifyInst(Instr) # Instr, ~ (Instr.op = "Sub" /\ Args[1].t = "Float")
             PROVE  Mistyped(Rvalue(Args)) \/ Gives(Rvalue(Args), Value(SimplifyInst(Instr).args[1]))
  BY DEF SimplifiesToItsValue
<1>1. PICK i, a, b, x, y, o, n :
        /\ i = Instr /\ a = i.args[1] /\ b = i.args[2] /\ x = Args[1] /\ y = Args[2]
        /\ o = BinaryValue(i.op, heap, x, y) /\ n = Len(heap)
  OBVIOUS
<1>2. i.kind = "Binary"
  BY <1>1 DEF SimplifyInst
<1>3. PICK O, N : i \in Insts(O, N)
  BY <1>1, InstrLemma DEF Executes
<1>4. Rvalue(Args) = o
  BY <1>1, <1>2 DEF Rvalue
<1>5. x = Value(a) /\ y = Value(b) /\ IsValue(x, n) /\ IsValue(y, n)
  <2>1. 1 \in DOMAIN i.args /\ 2 \in DOMAIN i.args
    BY <1>2, <1>3 DEF Insts
  <2>2. Typed(Args, n) /\ DOMAIN Args = DOMAIN i.args
    BY <1>1, InstrLemma DEF Executes, Args
  <2> QED BY <1>1, <2>1, <2>2 DEF Args, Typed, AreValues
<1>6. \A c : CopyOf(i, c).args[1] = c
  BY <1>3 DEF CopyOf, Insts
<1>7. \A c : IsInt(a, c) => x.t = "Int" /\ x.v = c
  BY <1>5 DEF IsInt, Value, IsReg
<1>8. \A c : IsInt(b, c) => y.t = "Int" /\ y.v = c
  BY <1>5 DEF IsInt, Value, IsReg
<1>9. SameReg(a, b) => x = y
  BY <1>5 DEF SameReg, Value
<1>10. Value(IntV(0)) = IntV(0)
  BY DEF Value, IsReg, IntV
<1>11. /\ x.t = "Int" => x.v \in Ints
       /\ y.t = "Int" => y.v \in Ints
  BY <1>5, WidthLemma DEF IsValue
<1>12. \A v, w : v.t = "Int" /\ v.v = w => Gives(Ok(IntV(w)), v)
  BY DEF Gives, Ok, IntV, Equals
<1> SUFFICES \E c : SimplifyInst(i) = CopyOf(i, c) /\ (Mistyped(o) \/ Gives(o, Value(c)))
  BY <1>1, <1>4, <1>6
<1>13. CASE (i.op \in {"Add", "Sub"} /\ IsInt(b, 0)) \/ (i.op \in {"Mul", "Div"} /\ IsInt(b, 1))
  <2>1. SimplifyInst(i) = CopyOf(i, a)
    BY <1>1, <1>2, <1>13 DEF SimplifyInst
  <2>2. i.op \in ArithOps /\ y.t = "Int"
    BY <1>8, <1>13 DEF ArithOps
  <2>3. ASSUME ~ Mistyped(o) PROVE Gives(o, x)
    <3>1. x.t = "Int" /\ o = ArithInt(IntOpOf[i.op], x.v, y.v)
      BY <1>1, <2>2, <2>3, IntSide
    <3>2. o = Ok(IntV(x.v))
      BY <1>8, <1>11, <1>13, <3>1, NeutralLemma DEF IntOpOf
    <3> QED BY <1>12, <3>1, <3>2
  <2> QED BY <1>5, <2>1, <2>3
<1>14. CASE /\ ~ ((i.op \in {"Add", "Sub"} /\ IsInt(b, 0)) \/ (i.op \in {"Mul", "Div"} /\ IsInt(b, 1)))
            /\ (i.op = "Add" /\ IsInt(a, 0)) \/ (i.op = "Mul" /\ IsInt(a, 1))
  <2>1. SimplifyInst(i) = CopyOf(i, b)
    BY <1>1, <1>2, <1>14 DEF SimplifyInst
  <2>2. i.op \in ArithOps /\ x.t = "Int"
    BY <1>7, <1>14 DEF ArithOps
  <2>3. ASSUME ~ Mistyped(o) PROVE Gives(o, y)
    <3>1. y.t = "Int" /\ o = ArithInt(IntOpOf[i.op], x.v, y.v)
      BY <1>1, <2>2, <2>3, IntSide
    <3>2. o = Ok(IntV(y.v))
      BY <1>7, <1>11, <1>14, <3>1, NeutralLemma DEF IntOpOf
    <3> QED BY <1>12, <3>1, <3>2
  <2> QED BY <1>5, <2>1, <2>3
<1>15. CASE /\ ~ ((i.op \in {"Add", "Sub"} /\ IsInt(b, 0)) \/ (i.op \in {"Mul", "Div"} /\ IsInt(b, 1)))
            /\ ~ ((i.op = "Add" /\ IsInt(a, 0)) \/ (i.op = "Mul" /\ IsInt(a, 1)))
  <2>1. /\ SimplifyInst(i) = CopyOf(i, IntV(0))
        /\ \/ i.op = "Sub" /\ SameReg(a, b)
           \/ i.op = "Mul" /\ (IsInt(a, 0) \/ IsInt(b, 0))
           \/ i.op = "Rem" /\ IsInt(b, 1)
    BY <1>1, <1>2, <1>15 DEF SimplifyInst
  <2>2. i.op \in ArithOps
    BY <2>1 DEF ArithOps
  <2>3. ASSUME ~ Mistyped(o) PROVE Gives(o, IntV(0))
    <3>1. x.t = "Int" \/ y.t = "Int"
      <4>1. CASE i.op = "Sub" /\ SameReg(a, b)
        <5>1. x = y /\ x.t # "Float"
          BY <1>1, <1>9, <4>1
        <5>2. i.op \notin {"Eq", "Ne"}
          BY <4>1
        <5>3. o = BinaryValue(i.op, heap, x, y)
          BY <1>1
        <5> QED BY <2>3, <5>1, <5>2, <5>3, MistypedLemma
      <4>2. CASE ~ (i.op = "Sub" /\ SameReg(a, b))
        BY <1>7, <1>8, <2>1, <4>2
      <4> QED BY <4>1, <4>2
    <3>2. x.t = "Int" /\ y.t = "Int" /\ o = ArithInt(IntOpOf[i.op], x.v, y.v)
      BY <1>1, <2>2, <2>3, <3>1, IntSide
    <3>3. o = Ok(IntV(0))
      BY <1>7, <1>8, <1>9, <1>11, <2>1, <3>2, NeutralLemma DEF IntOpOf
    <3> QED BY <3>3 DEF Gives, Ok, Equals
  <2> QED BY <1>10, <2>1, <2>3
<1> QED BY <1>13, <1>14, <1>15

\* The operators see the kinds and the payloads only.
LEMMA UnaryAlike ==
  ASSUME NEW op, NEW x, NEW v, x.t = v.t, x.v = v.v
  PROVE  UnaryValue(op, x) = UnaryValue(op, v)
<1>1. /\ Ok(IntV(Wrap(-x.v))) = Ok(IntV(Wrap(-v.v)))
      /\ Ok(FloatV(UnaryFloat("NegFloat", x.v))) = Ok(FloatV(UnaryFloat("NegFloat", v.v)))
      /\ Ok(BoolV(~ x.v)) = Ok(BoolV(~ v.v))
  OBVIOUS
<1> QED BY <1>1, Zenon DEF UnaryValue

LEMMA BinaryAlike ==
  ASSUME NEW op, NEW hp, NEW x, NEW y, NEW v, NEW w, x.t = v.t, x.v = v.v, y.t = w.t, y.v = w.v
  PROVE  BinaryValue(op, hp, x, y) = BinaryValue(op, hp, v, w)
<1>1. Equal(op, hp, x, y) = Equal(op, hp, v, w)
  <2>1. ValueEq(hp, x, y) = ValueEq(hp, v, w)
    BY DEF ValueEq, ItemVerdict
  <2> QED BY <2>1, Zenon DEF Equal
<1>2. /\ ArithInt(IntOpOf[op], x.v, y.v) = ArithInt(IntOpOf[op], v.v, w.v)
      /\ Ok(BoolV(OrderInt(IntOpOf[op], x.v, y.v))) = Ok(BoolV(OrderInt(IntOpOf[op], v.v, w.v)))
      /\ Ok(FloatV(ArithFloat(FloatOpOf[op], x.v, y.v))) = Ok(FloatV(ArithFloat(FloatOpOf[op], v.v, w.v)))
      /\ Ok(BoolV(OrderFloat(FloatOpOf[op], x.v, y.v))) = Ok(BoolV(OrderFloat(FloatOpOf[op], v.v, w.v)))
  OBVIOUS
<1> QED BY <1>1, <1>2, Zenon DEF BinaryValue

\* Two instructions of a kind give the same when their operands are equal.
LEMMA AlikeLemma ==
  ASSUME NEW F, NEW i, NEW j, i.kind = j.kind, i.op = j.op, i.n = j.n, i.kind \in CseKinds,
         NEW x, x = ValueIn(F, i.args[1]), NEW y, y = ValueIn(F, i.args[2]),
         NEW v, v = ValueIn(F, j.args[1]), NEW w, w = ValueIn(F, j.args[2]),
         i.kind # "Load" => x.t = v.t /\ x.v = v.v,
         i.kind \in {"Binary", "Concat"} => y.t = w.t /\ y.v = w.v
  PROVE  Computed(F, i) = Computed(F, j) /\ (ComparesArrays(F, i) <=> ComparesArrays(F, j))
<1>1. CASE i.kind = "Load"
  BY <1>1 DEF Computed, ComparesArrays
<1>2. CASE i.kind = "Unary"
  <2>1. UnaryValue(i.op, x) = UnaryValue(i.op, v)
    BY <1>2, UnaryAlike
  <2> QED BY <1>2, <2>1 DEF Computed, ComparesArrays
<1>3. CASE i.kind = "Binary"
  <2>1. BinaryValue(i.op, <<>>, x, y) = BinaryValue(i.op, <<>>, v, w)
    BY <1>3, BinaryAlike
  <2> QED BY <1>3, <2>1 DEF Computed, ComparesArrays
<1>4. CASE i.kind = "Concat"
  BY <1>4 DEF Computed, ComparesArrays
<1> QED BY <1>1, <1>2, <1>3, <1>4 DEF CseKinds

LEMMA RepeatsLemma ==
  ASSUME WellBuilt(mir), RunOK, status = "running"
  PROVE  RepeatsItsValue
<1>1. PICK s, K, e : /\ s = Current.insts /\ K = Repeats(s, Seen(s)[Top.pc - 1], Instr)
                     /\ e = s[First(K)]
  OBVIOUS
<1> SUFFICES ASSUME Executes, K # {}, SameReads(e.args, Instr.args),
                    ~ (Instr.op \in {"Eq", "Ne"} /\ Args[1].t = "Array")
             PROVE  Gives(Rvalue(Args), Top.regs[e.dst])
  BY <1>1 DEF RepeatsItsValue
<1>2. PICK i : i = Instr
  OBVIOUS
<1>3. /\ CallOK(mir, Top, Len(heap)) /\ Func = FnOf(mir, Top) /\ Current = HereIn(mir, Top)
  BY RunningLemma
<1>4. PICK f : f = Func /\ Current = BlockOf(f, Top.block)
  BY DEF Current
<1>5. IsList(s) /\ Top.pc \in 1 .. Len(s) /\ Len(s) \in Nat
  <2>1. IsList(s)
    BY <1>1, <1>3, <1>4, CallLemma
  <2> QED BY <1>1, <2>1 DEF IsList, Executes
<1>6. Seen(s)[Top.pc - 1] \subseteq {j \in 1 .. Top.pc - 1 : s[j].kind \in CseKinds}
  <2>1. Top.pc - 1 \in 0 .. Len(s)
    BY <1>5
  <2> QED BY <1>5, <2>1, SeenLemma
<1>7. i.kind \in CseKinds /\ K \subseteq Seen(s)[Top.pc - 1] /\ \A j \in K : SameRvalue(s[j], i)
  BY <1>1, <1>2 DEF Repeats
<1>8. First(K) \in K
  BY <1>6, <1>7, FirstLemma
<1>9. e.kind = i.kind /\ e.op = i.op /\ e.n = i.n /\ Remembers(Top, e)
  <2>1. First(K) \in Seen(s)[Top.pc - 1] /\ SameRvalue(e, i)
    BY <1>1, <1>7, <1>8
  <2>2. SeenHolds(f, Top)
    BY <1>3, <1>4 DEF CallOK
  <2>3. Top.pc # 0
    BY <1>5
  <2>4. Remembers(Top, InstAt(f, Top.block, First(K)))
    BY <1>1, <1>4, <2>1, <2>2, <2>3 DEF SeenHolds
  <2>5. InstAt(f, Top.block, First(K)) = e
    BY <1>1, <1>4 DEF InstAt
  <2>6. e.kind = i.kind /\ e.op = i.op /\ e.n = i.n
    BY <2>1 DEF SameRvalue
  <2> QED BY <2>4, <2>5, <2>6
<1>10. PICK O, N : e \in Insts(O, N) /\ i \in Insts(O, N)
  <2>1. PICK O, N : \A k \in DOMAIN s : InstAt(f, Top.block, k) \in Insts(O, N)
    BY <1>1, <1>3, <1>4, CallLemma
  <2>2. First(K) \in 1 .. Top.pc - 1
    BY <1>6, <1>7, <1>8
  <2>3. First(K) \in DOMAIN s /\ Top.pc \in DOMAIN s
    BY <1>5, <2>2 DEF IsList
  <2>4. InstAt(f, Top.block, First(K)) = e /\ InstAt(f, Top.block, Top.pc) = i
    BY <1>1, <1>2, <1>4 DEF InstAt, Instr
  <2> QED BY <2>1, <2>3, <2>4
<1>11. PICK x, y, v, w : /\ x = ValueIn(Top, e.args[1]) /\ y = ValueIn(Top, e.args[2])
                         /\ v = ValueIn(Top, i.args[1]) /\ w = ValueIn(Top, i.args[2])
  OBVIOUS
<1>12. /\ DOMAIN i.args = 1 .. Len(i.args) /\ Len(i.args) \in Nat
       /\ DOMAIN e.args = 1 .. Len(e.args)
       /\ i.kind = "Unary" => Len(i.args) = 1
       /\ i.kind \in {"Binary", "Concat"} => Len(i.args) = 2
  BY <1>10 DEF Insts
<1>13. \A p, q : Equals(p, q) => ValueIn(Top, p).t = ValueIn(Top, q).t
                                 /\ ValueIn(Top, p).v = ValueIn(Top, q).v
  BY DEF Equals, ValueIn, IsReg
<1>14. /\ i.kind # "Load" => x.t = v.t /\ x.v = v.v
       /\ i.kind \in {"Binary", "Concat"} => y.t = w.t /\ y.v = w.v
  <2>1. \A k \in 1 .. Len(i.args) : Equals(e.args[k], i.args[k])
    BY <1>2, <1>12 DEF SameReads
  <2>2. i.kind # "Load" => Equals(e.args[1], i.args[1])
    BY <1>7, <1>12, <2>1 DEF CseKinds
  <2>3. i.kind \in {"Binary", "Concat"} => Equals(e.args[2], i.args[2])
    BY <1>12, <2>1
  <2> QED BY <1>11, <1>13, <2>2, <2>3
<1>15. Computed(Top, e) = Computed(Top, i) /\ (ComparesArrays(Top, e) <=> ComparesArrays(Top, i))
  BY <1>7, <1>9, <1>11, <1>14, AlikeLemma
<1>16. ~ ComparesArrays(Top, i)
  <2>1. ASSUME i.kind = "Binary" PROVE Args[1] = v
    <3>1. Len(i.args) = 2
      BY <1>12, <2>1
    <3>2. 1 \in DOMAIN i.args
      BY <1>12, <3>1
    <3> QED BY <1>2, <1>11, <3>2 DEF Args, Value, ValueIn
  <2> QED BY <1>2, <1>11, <2>1 DEF ComparesArrays
<1>17. Rvalue(Args) = Computed(Top, i)
  BY <1>2, <1>7, <1>16, ComputedLemma DEF Executes
<1> QED BY <1>9, <1>15, <1>16, <1>17 DEF Remembers, Gives, Equals

LEMMA RewritesLemma ==
  ASSUME WellBuilt(mir), RunOK
  PROVE  RewritesHold
BY CopiesCurrentLemma, FoldsLemma, SimplifiesLemma, RepeatsLemma DEF RewritesHold

----------------------------------------------------------------------------
(* The steps of the interpreter.                                           *)

LEMMA StartStep ==
  ASSUME WellBuilt(mir), mir' = mir, RunOK, Start
  PROVE  RunOK'
<1>1. PICK G : G = Called(mir.main, <<>>)
  OBVIOUS
<1>2. mir.main \in MirFns(mir)
  BY DEF WellBuilt
<1>3. /\ status = "idle" /\ status' = "running" /\ frames' = <<G>>
      /\ heap' = heap /\ stdout' = stdout /\ steps' = steps /\ result' = result
  BY <1>1, <1>2 DEF Start
<1>4. Typed(<<>>, Len(heap))
  BY EmptyLemma, TypedLemma
<1>5. CallOK(mir, G, Len(heap))
  BY <1>1, <1>2, <1>4, CalledLemma
<1>6. IsSeq(<<G>>) /\ Len(<<G>>) = 1 /\ <<G>>[1] = G
  <2>1. <<G>> \in Seq({G})
    OBVIOUS
  <2> QED BY <2>1 DEF IsSeq
<1>7. StackOK(mir, <<G>>, Len(heap))
  <2>1. 1 <= MaxDepth
    BY MaxDepthAssumption
  <2>2. \A k \in 1 .. 1 : k = 1
    OBVIOUS
  <2>3. 1 .. 1 - 1 = {}
    OBVIOUS
  <2> QED BY <1>5, <1>6, <2>1, <2>2, <2>3 DEF StackOK
<1>8. steps <= MirSteps
  BY <1>3, MirStepsAssumption DEF RunOK
<1> QED BY <1>3, <1>6, <1>7, <1>8, CleanLemma DEF RunOK

LEMMA EnterStep ==
  ASSUME WellBuilt(mir), mir' = mir, RunOK, EnterBlock
  PROVE  RunOK'
<1>1. PICK G : G = [Top EXCEPT !.pc = 1]
  OBVIOUS
<1>2. /\ status = "running" /\ Top.pc = 0 /\ steps' = steps + 1
      /\ heap' = heap /\ stdout' = stdout /\ result' = result
      /\ IF steps' > MirSteps THEN status' = "step limit exceeded" /\ frames' = frames
         ELSE InTop(G) /\ status' = status
  BY <1>1 DEF EnterBlock, Entered
<1>3. /\ steps \in 0 .. MirSteps + 1 /\ steps <= MirSteps /\ Len(frames) # 0
      /\ StackOK(mir, frames, Len(heap))
  BY <1>2 DEF RunOK
<1>4. steps + 1 \in 0 .. MirSteps + 1
  BY <1>3, MirStepsAssumption
<1>5. CASE steps' > MirSteps
  <2>1. "step limit exceeded" \in Clean
    BY DEF Clean
  <2> QED BY <1>2, <1>4, <1>5, <2>1, CleanLemma DEF RunOK
<1>6. CASE ~ (steps' > MirSteps)
  <2>1. CallOK(mir, G, Len(heap))
    BY <1>1, <1>2, RunningLemma, EnteredLemma
  <2>2. frames' = Retopped(frames, G)
    BY <1>2, <1>6 DEF InTop, Retopped
  <2>3. StackOK(mir, frames', Len(heap)) /\ Len(frames') = Len(frames)
    BY <1>3, <2>1, <2>2, ReplaceTop
  <2>4. steps' <= MirSteps
    BY <1>2, <1>4, <1>6, MirStepsAssumption
  <2> QED BY <1>2, <1>3, <1>4, <1>6, <2>3, <2>4, CleanLemma DEF RunOK
<1> QED BY <1>5, <1>6

LEMMA FollowStep ==
  ASSUME WellBuilt(mir), mir' = mir, RunOK, Follow
  PROVE  RunOK'
<1>1. /\ status = "running" /\ Top.pc = Len(Current.insts) + 1
      /\ Ending.kind \in {"Goto", "Branch", "Unreachable"}
  BY DEF Follow, Leaving
<1>2. Readable(<<Ending.arg>>) /\ Ending.kind # "Unreachable"
  BY <1>1, EndingLemma
<1>3. PICK taken, b :
        /\ taken = (Ending.kind = "Goto" \/ (Value(Ending.arg).t = "Bool" /\ Value(Ending.arg).v))
        /\ b = Ending.succ[IF taken THEN 1 ELSE 2]
  OBVIOUS
<1>4. /\ InTop([Top EXCEPT !.block = b, !.pc = 0])
      /\ heap' = heap /\ UNCHANGED <<status, stdout, steps, result>>
  BY <1>2, <1>3 DEF Follow, Leaving, Reading
<1>5. b \in Exits(Func, Top.block)
  <2>1. CASE taken
    BY <1>1, <1>2, <1>3, <2>1, EndingLemma
  <2>2. CASE ~ taken
    <3>1. Ending.kind = "Branch"
      BY <1>1, <1>2, <1>3, <2>2
    <3> QED BY <1>1, <1>3, <2>2, <3>1, EndingLemma
  <2> QED BY <2>1, <2>2
<1>6. CallOK(mir, JumpedTo(Top, b), Len(heap))
  BY <1>1, <1>5, RunningLemma, FollowLemma
<1>7. InTop(JumpedTo(Top, b))
  BY <1>4 DEF JumpedTo
<1>8. HeapOK(heap)
  BY DEF RunOK
<1> QED BY <1>1, <1>4, <1>6, <1>7, <1>8, GoOnLemma

LEMMA ReturnStep ==
  ASSUME WellBuilt(mir), mir' = mir, RunOK, ReturnValue
  PROVE  RunOK'
<1>1. PICK n, v : n = Len(heap) /\ v = Value(Ending.arg)
  OBVIOUS
<1>2. /\ status = "running" /\ Top.pc = Len(Current.insts) + 1 /\ Ending.kind \in {"Return"}
  BY DEF ReturnValue, Leaving
<1>3. Readable(<<Ending.arg>>) /\ IsValue(v, n)
  BY <1>1, <1>2, EndingLemma
<1>4. /\ StackOK(mir, frames, n) /\ HeapOK(heap) /\ Len(frames) # 0 /\ Len(frames) \in Nat
  BY <1>1, <1>2, RunningLemma DEF RunOK
<1>5. CASE Len(frames) = 1
  <2>1. /\ status' = "finished" /\ result' = v /\ frames' = <<>>
        /\ heap' = heap /\ stdout' = stdout /\ steps' = steps
    BY <1>1, <1>3, <1>5 DEF ReturnValue, Leaving, Reading
  <2>2. StackOK(mir, <<>>, n)
    <3>1. 1 .. 0 = {} /\ 1 .. 0 - 1 = {} /\ 0 <= MaxDepth
      BY MaxDepthAssumption
    <3> QED BY <3>1, EmptyLemma DEF StackOK
  <2> QED BY <1>1, <1>3, <2>1, <2>2, CleanLemma DEF RunOK
<1>6. CASE Len(frames) # 1
  <2>1. PICK k, F, i, r :
          /\ k = Len(frames) - 1 /\ F = frames[k]
          /\ i = BlockOf(MirFn(mir, F.func), F.block).insts[F.pc] /\ r = i.dst
    OBVIOUS
  <2>2. k \in 1 .. Len(frames) /\ k \in 1 .. Len(frames) - 1
    BY <1>4, <1>6, <2>1
  <2>3. CallOK(mir, F, n) /\ Waits(mir, F)
    BY <1>4, <2>1, <2>2 DEF StackOK
  <2>4. i = HereIn(mir, F).insts[F.pc]
    BY <2>1 DEF HereIn, FnOf
  <2>5. F.pc \in DOMAIN HereIn(mir, F).insts /\ Assigns(i)
    BY <2>3, <2>4 DEF Waits, Assigns, IsCall
  <2>6. r \in DOMAIN F.regs
    <3>1. PICK f : f = FnOf(mir, F)
      OBVIOUS
    <3>2. AssignsOnce(f) /\ F.block \in BlockIds(f)
      BY <2>3, <3>1, CallLemma
    <3>3. DOMAIN F.regs = 0 .. f.regs - 1
      BY <2>3, <3>1 DEF CallOK, Placed
    <3>4. HereIn(mir, F) = BlockOf(f, F.block) /\ i = InstAt(f, F.block, F.pc)
      BY <2>4, <3>1 DEF HereIn, InstAt
    <3> QED BY <2>1, <2>5, <3>2, <3>3, <3>4 DEF AssignsOnce
  <2>7. PICK G : G = Into(F, r, v)
    OBVIOUS
  <2>8. CallOK(mir, G, n)
    <3>1. Explains(F, i, v)
      BY <2>3, <2>4 DEF Waits, Explains, CseKinds
    <3> QED BY <1>3, <2>1, <2>3, <2>4, <2>5, <2>6, <2>7, <3>1, IntoLemma
  <2>9. /\ frames' = Append(SubSeq(frames, 1, Len(frames) - 2), G)
        /\ status' = status /\ heap' = heap /\ stdout' = stdout /\ steps' = steps /\ result' = result
    BY <1>1, <1>3, <1>6, <2>1, <2>6, <2>7 DEF ReturnValue, Leaving, Reading
  <2>10. StackOK(mir, frames', n) /\ Len(frames') # 0
    BY <1>4, <1>6, <2>8, <2>9, PopCall
  <2> QED BY <1>1, <1>2, <1>4, <2>9, <2>10, CleanLemma DEF RunOK
<1> QED BY <1>5, <1>6

LEMMA AssignStep ==
  ASSUME WellBuilt(mir), mir' = mir, RunOK, AssignReg
  PROVE  RunOK'
<1>1. /\ status = "running" /\ Top.pc \in DOMAIN Current.insts
      /\ Instr.kind \in RvalueKinds \ {"MakeArray"}
  BY DEF AssignReg, Executing
<1>2. Readable(Instr.args)
  BY <1>1, InstrLemma
<1>3. Yields(Rvalue(Args)) /\ heap' = heap /\ stdout' = stdout
  BY <1>2 DEF AssignReg, Executing, Reading
<1>4. Assigns(Instr)
  BY <1>1 DEF Assigns, IsAssign
<1>5. Rvalue(Args).status \in Clean \cup {"ok"} /\ GoodOutcome(Rvalue(Args), Len(heap))
  BY <1>1, RvalueLemma
<1>6. HeapOK(heap) /\ Typed(stdout, Len(heap)) /\ Len(heap) \in Nat
  BY LenLemma DEF RunOK, HeapOK
<1>7. Rvalue(Args).status = "ok" => Explains(Top, Instr, Rvalue(Args).v)
  BY <1>1, ExplainsLemma
<1> QED BY <1>1, <1>3, <1>4, <1>5, <1>6, <1>7, YieldsLemma

LEMMA MakeArrayStep ==
  ASSUME WellBuilt(mir), mir' = mir, RunOK, MakeArray
  PROVE  RunOK'
<1>1. /\ status = "running" /\ Top.pc \in DOMAIN Current.insts /\ Instr.kind \in {"MakeArray"}
  BY DEF MakeArray, Executing
<1>2. Readable(Instr.args) /\ Typed(Args, Len(heap))
  BY <1>1, InstrLemma
<1>3. PICK n, o : n = Len(heap) /\ o = Ok(ArrayV(n + 1))
  OBVIOUS
<1>4. Yields(o) /\ heap' = Append(heap, Args) /\ stdout' = stdout
  BY <1>2, <1>3 DEF MakeArray, Executing, Reading
<1>5. Assigns(Instr)
  BY <1>1 DEF Assigns, IsAssign, RvalueKinds
<1>6. HeapOK(heap) /\ n \in Nat /\ Typed(stdout, n) /\ n <= n + 1
  BY <1>3, LenLemma DEF RunOK, HeapOK
<1>7. IsSeq(heap') /\ Len(heap') = n + 1 /\ \A i \in 1 .. n : heap'[i] = heap[i]
  BY <1>3, <1>4, <1>6, AppendLemma DEF HeapOK
<1>8. heap'[n + 1] = Args
  <2>1. PICK S : heap \in Seq(S)
    BY <1>6 DEF HeapOK, IsSeq
  <2>2. heap \in Seq(S \cup {Args})
    BY <2>1
  <2> QED BY <1>3, <1>4, <2>2
<1>9. HeapOK(heap')
  <2>1. ASSUME NEW a \in 1 .. n + 1 PROVE Typed(heap'[a], n + 1)
    <3>1. CASE a = n + 1
      BY <1>2, <1>3, <1>6, <1>8, <3>1, GrowLemma
    <3>2. CASE a # n + 1
      <4>1. a \in 1 .. n
        BY <1>6, <3>2
      <4>2. Typed(heap[a], n)
        BY <1>3, <1>6, <4>1 DEF HeapOK
      <4> QED BY <1>6, <1>7, <4>1, <4>2, GrowLemma
    <3> QED BY <3>1, <3>2
  <2> QED BY <1>7, <2>1 DEF HeapOK
<1>10. o.status = "ok" /\ GoodOutcome(o, n + 1)
  <2>1. n + 1 \in 1 .. n + 1
    BY <1>6
  <2> QED BY <1>3, <2>1 DEF Ok, ArrayV, GoodOutcome, IsValue, Kinds
<1>11. Typed(stdout', Len(heap')) /\ Len(heap) <= Len(heap')
  BY <1>3, <1>4, <1>6, <1>7, GrowLemma
<1>12. Explains(Top, Instr, o.v)
  BY <1>1 DEF Explains, CseKinds
<1> QED BY <1>1, <1>4, <1>5, <1>7, <1>9, <1>10, <1>11, <1>12, YieldsLemma

LEMMA StoreStep ==
  ASSUME WellBuilt(mir), mir' = mir, RunOK, Store
  PROVE  RunOK'
<1>1. /\ status = "running" /\ Top.pc \in DOMAIN Current.insts /\ Instr.kind \in {"Store"}
  BY DEF Store, Executing
<1>2. /\ Readable(Instr.args) /\ Typed(Args, Len(heap)) /\ Len(Args) = Len(Instr.args)
      /\ Instr.n \in DOMAIN Top.locals
  BY <1>1, InstrLemma
<1>3. PICK l, v, G : l = Instr.n /\ v = Args[1] /\ G = [Top EXCEPT !.locals[l] = v]
  OBVIOUS
<1>4. /\ InTop(Advanced(G)) /\ heap' = heap
      /\ UNCHANGED <<status, stdout, steps, result>>
  BY <1>2, <1>3 DEF Store, Executing, Reading
<1>5. IsValue(v, Len(heap))
  <2>1. PICK O, N : Instr \in Insts(O, N)
    BY <1>1, InstrLemma
  <2>2. Len(Args) = 1
    BY <1>1, <1>2, <2>1 DEF Insts
  <2>3. 1 \in 1 .. Len(Args)
    BY <2>2
  <2> QED BY <1>2, <1>3, <2>3, TypedLemma
<1>6. /\ CallOK(mir, Top, Len(heap)) /\ Current = HereIn(mir, Top)
  BY <1>1, RunningLemma
<1>7. CallOK(mir, Advanced(G), Len(heap))
  <2>1. StoredIn(Top, G, l, v)
    <3>1. IsFrame(Top)
      BY <1>6, CallLemma
    <3> QED BY <1>2, <1>3, <3>1, StoredFrame
  <2> QED BY <1>1, <1>2, <1>3, <1>5, <1>6, <2>1, StoredLemma DEF Instr
<1>8. HeapOK(heap)
  BY DEF RunOK
<1> QED BY <1>1, <1>4, <1>7, <1>8, GoOnLemma

LEMMA SetIndexStep ==
  ASSUME WellBuilt(mir), mir' = mir, RunOK, SetIndex
  PROVE  RunOK'
<1>1. /\ status = "running" /\ Top.pc \in DOMAIN Current.insts /\ Instr.kind \in {"SetIndex"}
  BY DEF SetIndex, Executing
<1>2. PICK args, n : args = Args /\ n = Len(heap)
  OBVIOUS
<1>3. /\ Readable(Instr.args) /\ Typed(args, n) /\ Len(args) = Len(Instr.args)
  BY <1>1, <1>2, InstrLemma
<1>4. 1 \in DOMAIN args /\ 2 \in DOMAIN args /\ IsValue(args[3], n)
  <2>1. PICK O, N : Instr \in Insts(O, N)
    BY <1>1, InstrLemma
  <2>2. Len(args) = 3
    BY <1>1, <1>3, <2>1 DEF Insts
  <2>3. 1 \in 1 .. Len(args) /\ 2 \in 1 .. Len(args) /\ 3 \in 1 .. Len(args)
    BY <2>2
  <2>4. DOMAIN args = 1 .. Len(args)
    BY <1>3 DEF Typed, AreValues
  <2> QED BY <1>3, <2>3, <2>4, TypedLemma
<1>5. HeapOK(heap) /\ n \in Nat
  BY <1>2, LenLemma DEF RunOK, HeapOK
<1>6. /\ Element(args).status \in Clean \cup {"ok"}
      /\ Element(args).status = "ok" => /\ args[1].v \in 1 .. n /\ Typed(heap[args[1].v], n)
                                        /\ args[2].v + 1 \in 1 .. Len(heap[args[1].v])
  BY <1>2, <1>3, <1>4, <1>5, ElementLemma
<1>7. CASE Element(args).status # "ok"
  <2>1. Fail(Element(args).status)
    BY <1>2, <1>3, <1>7 DEF SetIndex, Executing, Reading
  <2> QED BY <1>1, <1>6, <1>7, <2>1, FailLemma
<1>8. CASE Element(args).status = "ok"
  <2>1. PICK a, k, v : a = args[1].v /\ k = args[2].v + 1 /\ v = args[3]
    OBVIOUS
  <2>2. /\ heap' = [heap EXCEPT ![a][k] = v] /\ InTop(Advanced(Top))
        /\ UNCHANGED <<status, stdout, steps, result>>
    BY <1>2, <1>3, <1>8, <2>1 DEF SetIndex, Executing, Reading
  <2>3. PICK row : row = [heap[a] EXCEPT ![k] = v]
    OBVIOUS
  <2>4. Typed(row, n) /\ a \in 1 .. Len(heap)
    BY <1>2, <1>4, <1>6, <1>8, <2>1, <2>3, TypedUpdate
  <2>5. PICK h : h = [heap EXCEPT ![a] = row] /\ h = heap'
    BY <2>2, <2>3
  <2>6. /\ IsSeq(h) /\ Len(h) = n /\ h[a] = row
        /\ \A i \in 1 .. n : i # a => h[i] = heap[i]
    <3>1. IsSeq(heap)
      BY <1>5 DEF HeapOK
    <3>2. /\ IsSeq([heap EXCEPT ![a] = row]) /\ Len([heap EXCEPT ![a] = row]) = Len(heap)
          /\ \A i \in 1 .. Len(heap) : i # a => [heap EXCEPT ![a] = row][i] = heap[i]
          /\ [heap EXCEPT ![a] = row][a] = row
      BY <2>4, <3>1, UpdateLemma
    <3> QED BY <1>2, <2>5, <3>2
  <2>7. HeapOK(h)
    <3>1. ASSUME NEW i \in 1 .. n PROVE Typed(h[i], n)
      BY <1>2, <1>5, <2>4, <2>6 DEF HeapOK
    <3> QED BY <2>6, <3>1 DEF HeapOK
  <2>8. CallOK(mir, Top, n) /\ Current = HereIn(mir, Top)
    BY <1>1, <1>2, RunningLemma
  <2>9. ~ Assigns(Instr) /\ Instr.kind # "Store"
    BY <1>1 DEF Assigns, IsAssign, IsCall, RvalueKinds
  <2>10. CallOK(mir, Advanced(Top), n)
    BY <1>1, <2>8, <2>9, AdvancedLemma DEF Instr
  <2> QED BY <1>1, <1>2, <2>2, <2>5, <2>6, <2>7, <2>10, GoOnLemma
<1> QED BY <1>7, <1>8

LEMMA CallStep ==
  ASSUME WellBuilt(mir), mir' = mir, RunOK, CallFn
  PROVE  RunOK'
<1>1. /\ status = "running" /\ Top.pc \in DOMAIN Current.insts /\ Instr.kind \in {"Call"}
  BY DEF CallFn, Executing
<1>2. Readable(Instr.args) /\ Typed(Args, Len(heap)) /\ Instr.n \in MirFns(mir)
  BY <1>1, InstrLemma
<1>3. CASE Len(frames) = MaxDepth
  <2>1. Fail("native stack overflow")
    BY <1>2, <1>3 DEF CallFn, Executing, Reading
  <2>2. "native stack overflow" \in Clean
    BY DEF Clean, Aborts
  <2> QED BY <1>1, <2>1, <2>2, FailLemma
<1>4. CASE Len(frames) # MaxDepth
  <2>1. PICK G, n : G = Called(Instr.n, Args) /\ n = Len(heap)
    OBVIOUS
  <2>2. /\ frames' = Append(frames, G)
        /\ status' = status /\ heap' = heap /\ stdout' = stdout /\ steps' = steps /\ result' = result
    BY <1>2, <1>4, <2>1 DEF CallFn, Executing, Reading
  <2>3. CallOK(mir, G, n)
    BY <1>2, <2>1, CalledLemma
  <2>4. Waits(mir, frames[Len(frames)])
    <3>1. Current = HereIn(mir, Top)
      BY <1>1, RunningLemma
    <3> QED BY <1>1, <3>1 DEF Waits, Instr, Top
  <2>5. StackOK(mir, frames, n) /\ Len(frames) # 0
    BY <1>1, <2>1 DEF RunOK
  <2>6. StackOK(mir, frames', n) /\ Len(frames') # 0
    BY <1>4, <2>2, <2>3, <2>4, <2>5, PushCall
  <2> QED BY <1>1, <2>1, <2>2, <2>6, CleanLemma DEF RunOK
<1> QED BY <1>3, <1>4

LEMMA BuiltinStep ==
  ASSUME WellBuilt(mir), mir' = mir, RunOK, CallBuiltinFn
  PROVE  RunOK'
<1>1. /\ status = "running" /\ Top.pc \in DOMAIN Current.insts /\ Instr.kind \in {"CallBuiltin"}
  BY DEF CallBuiltinFn, Executing
<1>2. PICK args, n, op : args = Args /\ n = Len(heap) /\ op = Instr.op
  OBVIOUS
<1>3. Readable(Instr.args) /\ Typed(args, n) /\ Len(args) = Len(Instr.args)
  BY <1>1, <1>2, InstrLemma
<1>4. op \in BuiltinNames /\ Len(args) = Arity(op)
  <2>1. PICK O, N : Instr \in Insts(O, N)
    BY <1>1, InstrLemma
  <2> QED BY <1>1, <1>2, <1>3, <2>1 DEF Insts
<1>5. PICK o : o = IF op = "len" THEN ArrayLength(args[1]) ELSE Eval(op, args)
  OBVIOUS
<1>6. Yields(o) /\ stdout' = stdout \o Printed(op, args) /\ heap' = heap
  BY <1>2, <1>3, <1>5 DEF CallBuiltinFn, Executing, Reading
<1>7. HeapOK(heap) /\ n \in Nat /\ Typed(stdout, n)
  BY <1>2, LenLemma DEF RunOK, HeapOK
<1>8. o.status \in Clean \cup {"ok"} /\ GoodOutcome(o, n)
  <2>1. CASE op # "len"
    <3>1. AreValues(args, n) /\ o = Eval(op, args)
      BY <1>3, <1>5, <2>1 DEF Typed
    <3> QED BY <1>4, <3>1, EvalLemma, EvalTypeLemma
  <2>2. CASE op = "len"
    <3>1. IsValue(args[1], n) /\ o = ArrayLength(args[1])
      <4>1. Len(args) = 1
        BY <1>4, <2>2 DEF Arity, IsGeneric
      <4>2. 1 \in 1 .. Len(args)
        BY <4>1
      <4> QED BY <1>3, <1>5, <2>2, <4>2, TypedLemma
    <3>2. CASE args[1].t = "Array"
      <4>1. PICK a \in 1 .. n : a = args[1].v
        BY <3>1, <3>2 DEF IsValue
      <4>2. PICK l \in Nat : l = Len(heap[a])
        BY <1>2, <1>7, LenLemma DEF HeapOK, Typed
      <4>3. Wrap(l) \in Ints
        BY WrapLemma
      <4>4. o = Ok(IntV(Wrap(l)))
        BY <3>1, <3>2, <4>1, <4>2 DEF ArrayLength
      <4>5. o.status = "ok"
        BY <4>4 DEF Ok
      <4> QED BY <4>3, <4>4, <4>5, ValueLemma
    <3>3. CASE args[1].t # "Array"
      <4>1. o = Err("unexpected kind")
        BY <3>1, <3>3 DEF ArrayLength
      <4>2. o.status \in Clean /\ o.status # "ok"
        BY <4>1 DEF Err, Clean, KindErrors
      <4> QED BY <4>2 DEF GoodOutcome
    <3> QED BY <3>2, <3>3
  <2> QED BY <2>1, <2>2
<1>9. Typed(stdout', n)
  <2>1. Typed(Printed(op, args), n)
    BY <1>3, EmptyLemma, TypedLemma DEF Printed
  <2> QED BY <1>6, <1>7, <2>1, TypedConcat
<1>10. Assigns(Instr)
  BY <1>1 DEF Assigns, IsCall
<1>11. Explains(Top, Instr, o.v)
  BY <1>1 DEF Explains, CseKinds
<1> QED BY <1>1, <1>2, <1>6, <1>7, <1>8, <1>9, <1>10, <1>11, YieldsLemma

LEMMA RunStep ==
  ASSUME WellBuilt(mir), mir' = mir, RunOK, InterpStep
  PROVE  RunOK'
BY StartStep, EnterStep, FollowStep, ReturnStep, AssignStep, MakeArrayStep, StoreStep, SetIndexStep,
   CallStep, BuiltinStep DEF InterpStep

----------------------------------------------------------------------------
(* The shape of mir/mod.rs.                                                *)

LEMMA BareInst ==
  ASSUME NEW O, NEW N, NEW i \in Insts(O, N),
         NEW g, g = [i EXCEPT !.args = [a \in DOMAIN i.args |-> NoReg]]
  PROVE  g \in Insts({NoReg}, N)
<1>1. i \in [kind : InstKinds, dst : Int, op : MirOps, n : Int, args : Seq(O)]
  BY DEF Insts
<1>2. PICK n \in Nat : n = Len(i.args) /\ DOMAIN i.args = 1 .. n
  BY <1>1
<1>3. PICK as : as = [a \in 1 .. n |-> NoReg]
  OBVIOUS
<1>4. as \in Seq({NoReg}) /\ Len(as) = n
  <2>1. PICK S : S = {NoReg}
    OBVIOUS
  <2>2. as \in [1 .. n -> S]
    BY <1>3, <2>1
  <2>3. as \in Seq(S) /\ Len(as) = n
    BY <1>2, <1>3, <2>2
  <2> QED BY <2>1, <2>3
<1>5. g = [i EXCEPT !.args = as]
  BY <1>2, <1>3
<1>6. g \in [kind : InstKinds, dst : Int, op : MirOps, n : Int, args : Seq({NoReg})]
  BY <1>1, <1>4, <1>5
<1>7. g.kind = i.kind /\ g.op = i.op /\ g.n = i.n /\ g.args = as
  BY <1>1, <1>5
<1>8. /\ i.kind \in {"Use", "Unary", "Store"} => n = 1
      /\ i.kind \in {"Binary", "Concat", "Index"} => n = 2
      /\ i.kind = "SetIndex" => n = 3
      /\ i.kind = "CallBuiltin" => i.op \in BuiltinNames /\ n = Arity(i.op)
      /\ i.kind \in {"Load", "Store"} => i.n \in N.locals
      /\ i.kind = "Call" => i.n \in N.functions
  BY <1>2 DEF Insts
<1> QED BY <1>4, <1>6, <1>7, <1>8 DEF Insts

LEMMA BareTerm ==
  ASSUME NEW O, NEW t \in Terms(O), NEW g, g = [t EXCEPT !.arg = NoReg]
  PROVE  g \in Terms({NoReg})
BY DEF Terms

BareList(s)   == [k \in DOMAIN s |-> [s[k] EXCEPT !.args = [a \in DOMAIN s[k].args |-> NoReg]]]
BareBlock(b)  == [insts |-> BareList(b.insts), term |-> [b.term EXCEPT !.arg = NoReg]]
BareBlocks(s) == [b \in DOMAIN s |-> BareBlock(s[b])]

LEMMA BareBlockLemma ==
  ASSUME NEW O, NEW N, NEW b \in Blocks(O, N)
  PROVE  BareBlock(b) \in Blocks({NoReg}, N)
<1>1. b.insts \in Seq(Insts(O, N)) /\ b.term \in Terms(O)
  BY DEF Blocks
<1>2. PICK n \in Nat : DOMAIN b.insts = 1 .. n /\ \A k \in 1 .. n : b.insts[k] \in Insts(O, N)
  BY <1>1
<1>3. PICK L, t : L = BareList(b.insts) /\ t = [b.term EXCEPT !.arg = NoReg]
  OBVIOUS
<1>4. ASSUME NEW k \in 1 .. n PROVE L[k] \in Insts({NoReg}, N)
  <2>1. PICK i, g : i = b.insts[k] /\ g = [i EXCEPT !.args = [a \in DOMAIN i.args |-> NoReg]]
    OBVIOUS
  <2>2. g \in Insts({NoReg}, N)
    BY <1>2, <2>1, BareInst
  <2>3. L[k] = g
    BY <1>2, <1>3, <2>1 DEF BareList
  <2> QED BY <2>2, <2>3
<1>5. L \in Seq(Insts({NoReg}, N))
  <2>1. PICK S : S = Insts({NoReg}, N)
    OBVIOUS
  <2>2. L \in [1 .. n -> S]
    BY <1>2, <1>3, <1>4, <2>1 DEF BareList
  <2>3. L \in Seq(S)
    BY <2>2
  <2> QED BY <2>1, <2>3
<1>6. t \in Terms({NoReg})
  BY <1>1, <1>3, BareTerm
<1>7. BareBlock(b) = [insts |-> L, term |-> t]
  BY <1>3 DEF BareBlock
<1> QED BY <1>5, <1>6, <1>7 DEF Blocks

LEMMA OutlineLemma ==
  ASSUME NEW O, NEW N, NEW f \in Graphs(O, N)
  PROVE  Outline(f) \in Graphs({NoReg}, N)
<1>1. f \in [params : Nat, locals : Nat, regs : Nat, blocks : Seq(Blocks(O, N)), entry : Nat]
  BY DEF Graphs
<1>2. PICK n \in Nat : DOMAIN f.blocks = 1 .. n /\ \A k \in 1 .. n : f.blocks[k] \in Blocks(O, N)
  BY <1>1
<1>3. PICK B : B = BareBlocks(f.blocks)
  OBVIOUS
<1>4. B \in Seq(Blocks({NoReg}, N))
  <2>1. PICK S : S = Blocks({NoReg}, N)
    OBVIOUS
  <2>2. B \in [1 .. n -> S]
    BY <1>2, <1>3, <2>1, BareBlockLemma DEF BareBlocks
  <2>3. B \in Seq(S)
    BY <2>2
  <2> QED BY <2>1, <2>3
<1>5. Outline(f) = [f EXCEPT !.blocks = B]
  <2>1. Outline(f) = [f EXCEPT !.blocks = BareBlocks(f.blocks)]
    BY DEF Outline, BareBlocks, BareBlock, BareList
  <2> QED BY <1>3, <2>1
<1> QED BY <1>1, <1>4, <1>5 DEF Graphs

LEMMA IsFunctionLemma ==
  ASSUME NEW m, WellBuilt(m), NEW i \in MirFns(m)
  PROVE  IsFunction(m, i)
<1>1. PICK f, N : f = MirFn(m, i) /\ N = NamesIn(m, i)
  OBVIOUS
<1>2. PICK O : Wide(O) /\ f \in Graphs(O, N)
  BY <1>1 DEF WellBuilt, Well
<1>3. Outline(f) \in Graphs({NoReg}, N)
  BY <1>2, OutlineLemma
<1>4. ASSUME NEW b \in BlockIds(f)
      PROVE  /\ IsOperand(BlockOf(f, b).term.arg)
             /\ \A k \in DOMAIN BlockOf(f, b).insts : AreOperands(BlockOf(f, b).insts[k].args)
  <2>1. /\ BlockOf(f, b).term \in Terms(O)
        /\ \A k \in DOMAIN BlockOf(f, b).insts : InstAt(f, b, k) \in Insts(O, N)
    BY <1>2, GraphLemma
  <2>2. IsOperand(BlockOf(f, b).term.arg)
    BY <1>2, <2>1 DEF Terms, Wide
  <2>3. ASSUME NEW k \in DOMAIN BlockOf(f, b).insts PROVE AreOperands(BlockOf(f, b).insts[k].args)
    <3>1. BlockOf(f, b).insts[k].args \in Seq(O)
      BY <2>1 DEF Insts, InstAt
    <3> QED BY <1>2, <3>1 DEF AreOperands, Wide
  <2> QED BY <2>2, <2>3
<1> QED BY <1>1, <1>3, <1>4 DEF IsFunction

----------------------------------------------------------------------------
(* The whole engine.                                                       *)

EnginesInv(Trees) ==
  /\ phase \in {"hir", "build", "passes", "run"} /\ level \in Levels
  /\ rounds \in 0 .. MaxIterations /\ turn \in 0 .. MaxTurns - 1
  /\ phase \in {"hir", "build"} => hir \in Trees /\ mir = NoMir /\ fn = 0
  /\ phase \in {"passes", "run"} => WellBuilt(mir) /\ fn \in 0 .. Len(mir.functions)
  /\ phase # "run" => status = "idle"
  /\ RunOK

\* Before the first step.
LEMMA StillLemma ==
  ASSUME InterpInit
  PROVE  RunOK
<1>1. /\ status = "idle" /\ frames = <<>> /\ heap = <<>> /\ stdout = <<>>
      /\ steps = 0 /\ result = UnitV
  BY DEF InterpInit
<1>2. StackOK(mir, <<>>, 0) /\ HeapOK(<<>>) /\ Typed(<<>>, 0)
  <2>1. 1 .. 0 = {} /\ 1 .. 0 - 1 = {} /\ 0 <= MaxDepth
    BY MaxDepthAssumption
  <2> QED BY <2>1, EmptyLemma, TypedLemma DEF StackOK, HeapOK
<1>3. IsValue(UnitV, 0)
  BY DEF IsValue, UnitV, Kinds
<1>4. Len(heap) = 0 /\ steps \in 0 .. MirSteps + 1
  BY <1>1, EmptyLemma, MirStepsAssumption
<1> QED BY <1>1, <1>2, <1>3, <1>4 DEF RunOK

LEMMA InitLemma ==
  ASSUME NEW Trees, EmitsMir(Trees), EnginesInit
  PROVE  EnginesInv(Trees)
<1>1. /\ phase = "hir" /\ level \in Levels /\ hir \in Corpus /\ rounds = 0 /\ mir = NoMir
      /\ fn = 0 /\ turn = 0 /\ InterpInit /\ status = "idle"
  BY DEF EnginesInit, InterpInit
<1>2. hir \in Trees
  BY <1>1 DEF EmitsMir
<1>3. 0 \in 0 .. MaxIterations /\ 0 \in 0 .. MaxTurns - 1
  BY MaxIterationsAssumption DEF MaxTurns
<1>4. RunOK
  BY <1>1, StillLemma
<1> QED BY <1>1, <1>2, <1>3, <1>4 DEF EnginesInv

\* Before it runs, a program may still change.
LEMMA IdleLemma ==
  ASSUME RunOK, status = "idle", UNCHANGED interpVars
  PROVE  RunOK'
<1>1. /\ status' = status /\ frames' = frames /\ heap' = heap /\ stdout' = stdout
      /\ steps' = steps /\ result' = result
  BY DEF interpVars
<1>2. frames = <<>>
  BY DEF RunOK
<1>3. StackOK(mir', <<>>, Len(heap))
  <2>1. 1 .. 0 = {} /\ 1 .. 0 - 1 = {} /\ 0 <= MaxDepth
    BY MaxDepthAssumption
  <2> QED BY <2>1, EmptyLemma DEF StackOK
<1> QED BY <1>1, <1>2, <1>3 DEF RunOK

LEMMA EnginesStep ==
  ASSUME NEW Trees, EmitsMir(Trees), EnginesInv(Trees), [EnginesNext]_allVars
  PROVE  EnginesInv(Trees)'
<1>1. /\ phase \in {"hir", "build", "passes", "run"} /\ level \in Levels
      /\ rounds \in 0 .. MaxIterations /\ turn \in 0 .. MaxTurns - 1
      /\ phase \in {"hir", "build"} => hir \in Trees /\ mir = NoMir /\ fn = 0
      /\ phase \in {"passes", "run"} => WellBuilt(mir) /\ fn \in 0 .. Len(mir.functions)
      /\ phase # "run" => status = "idle"
      /\ RunOK
  BY DEF EnginesInv
<1>2. CASE HirRound
  <2>1. /\ phase = "hir" /\ rounds < MaxIterations /\ hir' = RoundOf(hir) /\ rounds' = rounds + 1
        /\ phase' \in {"hir", "build"} /\ level' = level /\ mir' = mir /\ fn' = fn /\ turn' = turn
        /\ UNCHANGED interpVars
    BY <1>2 DEF HirRound
  <2>2. hir' \in Trees
    BY <1>1, <2>1 DEF EmitsMir
  <2>3. rounds' \in 0 .. MaxIterations
    BY <1>1, <2>1, MaxIterationsAssumption
  <2>4. RunOK' /\ status' = status
    BY <1>1, <2>1, IdleLemma DEF interpVars
  <2> QED BY <1>1, <2>1, <2>2, <2>3, <2>4 DEF EnginesInv
<1>3. CASE HirReady
  <2>1. /\ phase = "hir" /\ phase' = "build" /\ hir' = hir /\ rounds' = rounds
        /\ level' = level /\ mir' = mir /\ fn' = fn /\ turn' = turn /\ UNCHANGED interpVars
    BY <1>3 DEF HirReady
  <2>2. RunOK' /\ status' = status
    BY <1>1, <2>1, IdleLemma DEF interpVars
  <2> QED BY <1>1, <2>1, <2>2 DEF EnginesInv
<1>4. CASE BuildMir
  <2>1. /\ phase = "build" /\ phase' \in {"passes", "run"} /\ mir' = BuildOf(hir) /\ rounds' = rounds
        /\ level' = level /\ fn' = fn /\ turn' = turn /\ UNCHANGED interpVars
    BY <1>4 DEF BuildMir
  <2>2. RunOK' /\ status' = status
    BY <1>1, <2>1, IdleLemma DEF interpVars
  <2>3. WellBuilt(mir')
    BY <1>1, <2>1 DEF EmitsMir
  <2>4. fn' \in 0 .. Len(mir'.functions)
    <3>1. PICK S, M : mir' \in [functions : Seq(S), main : M]
      BY <2>3 DEF WellBuilt
    <3>2. Len(mir'.functions) \in Nat
      BY <3>1
    <3> QED BY <1>1, <2>1, <3>2
  <2> QED BY <1>1, <2>1, <2>2, <2>3, <2>4 DEF EnginesInv
<1>5. CASE OptimizeTurn
  <2>1. /\ phase = "passes" /\ phase' = phase /\ fn \in MirFns(mir)
        /\ mir' = [mir EXCEPT !.functions[fn + 1] = MirTurn(MirFn(mir, fn))]
        /\ rounds' = rounds /\ level' = level /\ UNCHANGED interpVars
        /\ IF Quiet(MirFn(mir, fn)) \/ turn = MaxTurns - 1
           THEN fn' = fn + 1 /\ turn' = 0 ELSE fn' = fn /\ turn' = turn + 1
    BY <1>5 DEF OptimizeTurn
  <2>2. RunOK' /\ status' = status
    BY <1>1, <2>1, IdleLemma DEF interpVars
  <2>3. WellBuilt(mir') /\ MirFns(mir') = MirFns(mir)
    BY <1>1, <2>1, TurnLemma
  <2>4. fn' \in 0 .. Len(mir'.functions)
    <3>1. PICK S, M : mir' \in [functions : Seq(S), main : M]
      BY <2>3 DEF WellBuilt
    <3>2. PICK n \in Nat : n = Len(mir'.functions)
      BY <3>1
    <3>3. fn \in 0 .. n - 1
      BY <2>1, <2>3, <3>2 DEF MirFns
    <3>4. fn + 1 \in 0 .. n /\ fn \in 0 .. n
      BY <3>3
    <3> QED BY <2>1, <3>2, <3>4
  <2>5. turn' \in 0 .. MaxTurns - 1
    BY <1>1, <2>1 DEF MaxTurns
  <2> QED BY <1>1, <2>1, <2>2, <2>3, <2>4, <2>5 DEF EnginesInv
<1>6. CASE Optimized
  <2>1. /\ phase = "passes" /\ phase' = "run" /\ rounds' = rounds
        /\ level' = level /\ mir' = mir /\ fn' = fn /\ turn' = turn /\ UNCHANGED interpVars
    BY <1>6 DEF Optimized
  <2>2. RunOK' /\ status' = status
    BY <1>1, <2>1, IdleLemma DEF interpVars
  <2> QED BY <1>1, <2>1, <2>2 DEF EnginesInv
<1>7. CASE Interpret
  <2>1. /\ phase = "run" /\ phase' = phase /\ InterpStep /\ rounds' = rounds
        /\ level' = level /\ mir' = mir /\ fn' = fn /\ turn' = turn
    BY <1>7 DEF Interpret, engineVars
  <2>2. RunOK'
    BY <1>1, <2>1, RunStep
  <2> QED BY <1>1, <2>1, <2>2 DEF EnginesInv
<1>8. CASE UNCHANGED allVars
  <2>1. UNCHANGED <<phase, level, hir, rounds, mir, fn, turn>> /\ UNCHANGED interpVars
    BY <1>8 DEF allVars, engineVars
  <2>2. RunOK'
    BY <1>1, <2>1 DEF RunOK, interpVars
  <2> QED BY <1>1, <2>1, <2>2 DEF EnginesInv, interpVars
<1> QED BY <1>2, <1>3, <1>4, <1>5, <1>6, <1>7, <1>8 DEF EnginesNext, AllOver

\* Whatever the program, its width and the number of turns: if mir::build leaves every
\* function well formed, the passes of mir/opt.rs do, and whichever way a run then takes
\* it reads no register that it has not assigned (the property MirWellFormed).
THEOREM PassesKeepMirWellFormed ==
  ASSUME NEW Trees, EmitsMir(Trees)
  PROVE  EnginesSpec => []MirWellFormed
<1>1. EnginesInit => EnginesInv(Trees)
  BY InitLemma
<1>2. EnginesInv(Trees) /\ [EnginesNext]_allVars => EnginesInv(Trees)'
  BY EnginesStep
<1>3. EnginesInv(Trees) => MirWellFormed
  <2> SUFFICES ASSUME EnginesInv(Trees) PROVE MirWellFormed
    OBVIOUS
  <2>1. phase \in {"passes", "run"} => \A f \in MirFns(mir) : WellFormed(MirFn(mir, f))
    BY DEF EnginesInv, WellBuilt, Well
  <2>2. ASSUME status = "running", Top.pc # 0
        PROVE  ReadAt(Func, Top.block, Top.pc) \subseteq Top.assigned
    <3> SUFFICES ASSUME NEW r \in ReadAt(Func, Top.block, Top.pc) PROVE r \in Top.assigned
      OBVIOUS
    <3>1. WellBuilt(mir) /\ RunOK
      BY <2>2 DEF EnginesInv
    <3>2. CallOK(mir, Top, Len(heap)) /\ Func = FnOf(mir, Top) /\ Current = HereIn(mir, Top)
      BY <2>2, <3>1, RunningLemma
    <3>3. PICK f : f = FnOf(mir, Top) /\ f = Func
      BY <3>2
    <3>4. Top.block \in Reachable(f) /\ Top.block \in BlockIds(f) /\ ReadsAssigned(f)
          /\ \A c \in BlockIds(f) : IsList(BlockOf(f, c).insts)
      BY <3>1, <3>2, <3>3, CallLemma
    <3>5. Top.pc \in 1 .. Len(BlockOf(f, Top.block).insts) + 1
      <4>1. Top.pc \in 0 .. Len(BlockOf(f, Top.block).insts) + 1
        BY <3>2, <3>3 DEF CallOK, Placed, HereIn
      <4> QED BY <2>2, <3>4, <4>1 DEF IsList
    <3>6. Assigned(f, r, Top.block, Top.pc)
      BY <3>3, <3>4, <3>5 DEF ReadsAssigned
    <3>7. PICK c \in BlockIds(f) : \E j \in DOMAIN BlockOf(f, c).insts :
            AssignsTo(InstAt(f, c, j), r) /\ Dominates(f, <<c, j>>, Top.block, Top.pc)
      BY <3>6 DEF Assigned
    <3>8. PICK j \in DOMAIN BlockOf(f, c).insts :
            AssignsTo(InstAt(f, c, j), r) /\ Dominates(f, <<c, j>>, Top.block, Top.pc)
      BY <3>7
    <3>9. Knows(f, Top)
      BY <3>2, <3>3 DEF CallOK
    <3> QED BY <3>8, <3>9 DEF Knows, AssignsTo
  <2> QED BY <2>1, <2>2 DEF MirWellFormed, ReadsAssignedOnly
<1> QED BY <1>1, <1>2, <1>3, PTL DEF EnginesSpec

\* The type invariant of the second engine, on the same condition: through every pass the
\* functions keep the shape of mir/mod.rs, and whatever is run on them, every register,
\* local, element, printed value and result is a value, whose arrays are on the heap.
THEOREM EnginesTypesHold ==
  ASSUME NEW Trees, EmitsMir(Trees)
  PROVE  EnginesSpec => []EnginesTypeOK
<1>1. EnginesInit => EnginesInv(Trees)
  BY InitLemma
<1>2. EnginesInv(Trees) /\ [EnginesNext]_allVars => EnginesInv(Trees)'
  BY EnginesStep
<1>3. EnginesInv(Trees) => EnginesTypeOK
  <2> SUFFICES ASSUME EnginesInv(Trees) PROVE EnginesTypeOK
    OBVIOUS
  <2>1. /\ phase \in {"hir", "build", "passes", "run"} /\ level \in Levels
        /\ rounds \in 0 .. MaxIterations /\ turn \in 0 .. MaxTurns - 1
        /\ phase # "run" => status = "idle"
    BY DEF EnginesInv
  <2>2. /\ fn \in 0 .. Len(mir.functions)
        /\ \A f \in MirFns(mir) : IsFunction(mir, f)
    <3>1. CASE phase \in {"hir", "build"}
      <4>1. mir.functions = <<>> /\ fn = 0
        BY <3>1 DEF EnginesInv, NoMir
      <4> QED BY <4>1, EmptyLemma DEF MirFns
    <3>2. CASE phase \in {"passes", "run"}
      BY <3>2, IsFunctionLemma DEF EnginesInv
    <3> QED BY <2>1, <3>1, <3>2
  <2>3. RunOK
    BY DEF EnginesInv
  <2>4. status \in MirStatuses /\ steps \in 0 .. MirSteps + 1
    BY <2>3, CleanLemma DEF RunOK, MirStatuses
  <2>5. Len(frames) <= MaxDepth /\ DOMAIN frames = 1 .. Len(frames)
    BY <2>3, LenLemma DEF RunOK, StackOK
  <2>6. ASSUME NEW k \in DOMAIN frames
        PROVE  /\ frames[k].func \in MirFns(mir)
               /\ frames[k].block \in BlockIds(MirFn(mir, frames[k].func))
               /\ \A r \in DOMAIN frames[k].regs : IsValue(frames[k].regs[r], Len(heap))
               /\ \A l \in DOMAIN frames[k].locals : IsValue(frames[k].locals[l], Len(heap))
    <3>1. status # "idle"
      <4>1. frames = <<>> => DOMAIN frames = {}
        OBVIOUS
      <4> QED BY <2>3, <4>1 DEF RunOK
    <3>2. WellBuilt(mir)
      BY <2>1, <3>1 DEF EnginesInv
    <3>3. CallOK(mir, frames[k], Len(heap))
      BY <2>3, <2>5 DEF RunOK, StackOK
    <3>4. frames[k].func \in MirFns(mir) /\ frames[k].block \in BlockIds(FnOf(mir, frames[k]))
      BY <3>2, <3>3, CallLemma
    <3> QED BY <3>3, <3>4 DEF CallOK, Holds, FnOf
  <2>7. AreValues(stdout, Len(heap)) /\ IsValue(result, Len(heap))
    BY <2>3 DEF RunOK, Typed
  <2>8. \A a \in DOMAIN heap : AreValues(heap[a], Len(heap))
    BY <2>3, LenLemma DEF RunOK, HeapOK, Typed
  <2> QED BY <2>1, <2>2, <2>4, <2>5, <2>6, <2>7, <2>8 DEF EnginesTypeOK
<1> QED BY <1>1, <1>2, <1>3, PTL DEF EnginesSpec

\* The interpreter's checks of the structure of MIR (mir/interp.rs reports each as an
\* internal error) are never taken: no register, local, function or block is missing, and
\* no call of main or of a function finds the placeholder of an unfinished block.
THEOREM MirStructureHolds ==
  ASSUME NEW Trees, EmitsMir(Trees)
  PROVE  EnginesSpec => [](status \notin MirStructureErrors)
<1>1. EnginesInit => EnginesInv(Trees)
  BY InitLemma
<1>2. EnginesInv(Trees) /\ [EnginesNext]_allVars => EnginesInv(Trees)'
  BY EnginesStep
<1>3. EnginesInv(Trees) => status \notin MirStructureErrors
  <2>1. {"idle", "running", "finished"} \cap MirStructureErrors = {}
    BY DEF MirStructureErrors
  <2> QED BY <2>1, CleanLemma DEF EnginesInv, RunOK
<1> QED BY <1>1, <1>2, <1>3, PTL DEF EnginesSpec

\* Wherever a run has got to, in a program the builder made or the passes are done with,
\* each pass that replaces a value by another is right about it: copy_propagation about
\* what an operand is a copy of, const_fold and algebraic_simplify about what an operation
\* gives, local_cse about the register that has the result already.  As RewritesHold does,
\* it leaves out x - x of a float, comparisons of arrays, and constants that are equal but
\* not the same.
THEOREM MirRewritesHold ==
  ASSUME NEW Trees, EmitsMir(Trees)
  PROVE  EnginesSpec => []RewritesHold
<1>1. EnginesInit => EnginesInv(Trees)
  BY InitLemma
<1>2. EnginesInv(Trees) /\ [EnginesNext]_allVars => EnginesInv(Trees)'
  BY EnginesStep
<1>3. EnginesInv(Trees) => RewritesHold
  <2> SUFFICES ASSUME EnginesInv(Trees), status = "running" PROVE RewritesHold
    BY DEF RewritesHold
  <2>1. WellBuilt(mir) /\ RunOK
    BY DEF EnginesInv
  <2> QED BY <2>1, RewritesLemma
<1> QED BY <1>1, <1>2, <1>3, PTL DEF EnginesSpec

\* A run of the interpreter on a program that stays as it is.
Interpreting == InterpInit /\ [][InterpStep /\ mir' = mir]_<<mir, interpVars>>

\* The same of every program whose functions are well formed, whether mir::build could
\* have made it or not: what a run needs of the builder is that and nothing else.
THEOREM WellFormedMirRunsSafely ==
  WellBuilt(mir) /\ Interpreting =>
    [](RewritesHold /\ status \notin MirStructureErrors
       /\ (status = "running" => \A r \in DOMAIN Top.regs : IsValue(Top.regs[r], Len(heap))))
<1> DEFINE I == WellBuilt(mir) /\ RunOK
<1>1. WellBuilt(mir) /\ InterpInit => I
  <2> SUFFICES ASSUME InterpInit PROVE RunOK
    OBVIOUS
  <2> QED BY StillLemma
<1>2. I /\ [InterpStep /\ mir' = mir]_<<mir, interpVars>> => I'
  <2>1. ASSUME I, InterpStep, mir' = mir PROVE I'
    BY <2>1, RunStep
  <2>2. ASSUME I, UNCHANGED <<mir, interpVars>> PROVE I'
    BY <2>2 DEF RunOK, interpVars
  <2> QED BY <2>1, <2>2
<1>3. I => /\ RewritesHold /\ status \notin MirStructureErrors
           /\ status = "running" => \A r \in DOMAIN Top.regs : IsValue(Top.regs[r], Len(heap))
  <2> SUFFICES ASSUME I
               PROVE  /\ RewritesHold /\ status \notin MirStructureErrors
                      /\ status = "running" => \A r \in DOMAIN Top.regs : IsValue(Top.regs[r], Len(heap))
    OBVIOUS
  <2>1. {"idle", "running", "finished"} \cap MirStructureErrors = {}
    BY DEF MirStructureErrors
  <2>2. status \notin MirStructureErrors
    BY <2>1, CleanLemma DEF RunOK
  <2>3. status = "running" => \A r \in DOMAIN Top.regs : IsValue(Top.regs[r], Len(heap))
    BY RunningLemma DEF CallOK, Holds
  <2> QED BY <2>2, <2>3, RewritesLemma
<1> QED BY <1>1, <1>2, <1>3, PTL DEF Interpreting
==============================================================================
