------------------------------ MODULE Judgement ------------------------------
(***************************************************************************)
(* The verifier as a decision: its worklist implements Verdict.            *)
(***************************************************************************)
EXTENDS Verifier

\* The heights a typing may give, Nat but for what TLC can enumerate.
CONSTANT Heights

HasTyping(p, f) ==
  \E H \in [Pcs(p, f) -> Heights \cup {NoHeight}] : IsTyping(p, f, H)

Typable ==
  {p \in Programs : /\ p.main \in FnIds(p)
                    /\ \A f \in FnIds(p) : Pcs(p, f) # {} => HasTyping(p, f)}

\* Every VerifyError is the same answer.
Answer == IF verdict \in {"none", "ok"} THEN verdict ELSE "rejected"

V == INSTANCE Verdict WITH verdict <- Answer

\* verify decides typability: through all the steps of its walk the answer is
\* given once, and it is the right one (verify.rs:13-26).  A program is neither
\* accepted for a height the walk did not compare nor turned away for the order
\* in which the worklist met its jumps.
DecidesTypability == V!Safety
=============================================================================
