----------------------------- MODULE MCDeposits -----------------------------
(***************************************************************************)
(* Small instances of the deposits that have effects when asked about.  No *)
(* symmetry: deposits are asked about in a fixed order.                    *)
(***************************************************************************)
EXTENDS ExchangeDeposits, TLC

CONSTANTS d1, d2

Scenario(exch, fs, ds) == [exchange |-> exch, faults |-> fs, waiting |-> ds]

\* One Huobi deposit with every fault but "read", one with that and failing
\* stores, two with dropped transactions only;
\* Bittrex without faults, and with all of them.
MCScenarios ==
  {Scenario("huobi", {"node", "disk", "crash", "drop"}, {d1}),
   Scenario("huobi", {"read", "disk"}, {d1}),
   Scenario("huobi", {"drop"}, {d1, d2}),
   Scenario("bittrex", {}, {}),
   Scenario("bittrex", {"node", "crash", "race"}, {}),
   Scenario("bittrex", {"disk"}, {})}

LostScenarios == {Scenario("huobi", {"drop"}, {d1})}

MCAmountOf == [d \in Deposits |-> IF d = d1 THEN 1 ELSE 2]
=============================================================================
