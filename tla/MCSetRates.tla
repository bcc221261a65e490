----------------------------- MODULE MCSetRates -----------------------------
(***************************************************************************)
(* Small instances of SetRates: two or three calls, at most one other      *)
(* pending activity.                                                       *)
(***************************************************************************)
EXTENDS SetRates, TLC

RequestSymmetry == Permutations(Requests)
=============================================================================
