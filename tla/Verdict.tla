------------------------------- MODULE Verdict -------------------------------
(***************************************************************************)
(* What verify promises (backend/verify.rs:13-26), with nothing of how:    *)
(* one decision on the program it is given, that it is typable or that it  *)
(* is not, and never another word on it.                                   *)
(***************************************************************************)
CONSTANTS Programs, Typable

VARIABLES program, verdict

Init == program \in Programs /\ verdict = "none"

Decide ==
  /\ verdict = "none"
  /\ verdict' = IF program \in Typable THEN "ok" ELSE "rejected"
  /\ UNCHANGED program

Safety == Init /\ [][Decide]_<<program, verdict>>
=============================================================================
