-------------------------- MODULE ExchangeDeposits --------------------------
(***************************************************************************)
(* The exchanges whose DepositStatus has effects, under the auth data      *)
(* cycle.  A behaviour is about one of them: the variables of the other    *)
(* keep their initial values.                                              *)
(***************************************************************************)
EXTENDS HuobiDeposit, Bittrex

depositsVars == <<huobiVars, bittrexVars, cycleVars>>

DepositsInit == HuobiInit /\ BittrexInit /\ CycleInit

DepositsNext ==
  \/ HuobiNext /\ UNCHANGED bittrexVars
  \/ BittrexNext /\ UNCHANGED huobiVars

DepositsSpec ==
  DepositsInit /\ [][DepositsNext]_depositsVars /\ HuobiFairness /\ BittrexFairness

\* The type invariants of the two exchanges.
DepositsTypeOK == TypeOK /\ BittrexTypeOK
=============================================================================
