---------------------------- MODULE MCReserveData ----------------------------
(***************************************************************************)
(* Small instances of ReserveData: two requests, one or two exchanges and  *)
(* tokens; every pair has a deposit address.                               *)
(***************************************************************************)
EXTENDS ReserveData, TLC

MCSupported == Exchanges \X Tokens

RequestSymmetry == Permutations(Requests)
=============================================================================
