------------------------------ MODULE MCRates ------------------------------
(***************************************************************************)
(* Everything about the reserve's own rates on a small instance: setting   *)
(* them (SetRates and the bytes of PricingRates) and the two histories     *)
(* kept of them (RateData, ReserveRates).  The four share no state, so a   *)
(* behaviour follows one, part.                                            *)
(***************************************************************************)
EXTENDS SetRates, PricingRates, RateData, ReserveRates, TLC

CONSTANTS zrx, omg    \* two tokens

VARIABLE part

MCBulkOf     == [t \in PrTokens |-> 0]
MCTargets    == {<<11, 19>>, <<40, 20>>}
MCFirstBases == {<<0, 0>>, <<10, 20>>}

RatesInit ==
  /\ part \in {"set", "pricing", "data", "reserves"}
  /\ Init /\ PricingInit /\ RateDataInit /\ ReserveRatesInit
  /\ part # "pricing" => prBase = [t \in PrTokens |-> <<0, 0>>]

RatesNext ==
  /\ \/ part = "set"      /\ Next             /\ UNCHANGED <<pricingVars, rdVars, rateVars>>
     \/ part = "pricing"  /\ PricingNext      /\ UNCHANGED <<setRateVars, rdVars, rateVars>>
     \/ part = "data"     /\ RateDataNext     /\ UNCHANGED <<setRateVars, pricingVars, rateVars>>
     \/ part = "reserves" /\ ReserveRatesNext /\ UNCHANGED <<setRateVars, pricingVars, rdVars>>
  /\ UNCHANGED part

RatesSpec == RatesInit /\ [][RatesNext]_<<part, setRateVars, pricingVars, rdVars, rateVars>>

\* RatesAsAsked says nothing any more once calls have crossed.
NotCrossed == ~crossed

\* The requests are interchangeable.
RequestSymmetry == Permutations(Requests)
=============================================================================
