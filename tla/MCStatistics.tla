---------------------------- MODULE MCStatistics ----------------------------
(***************************************************************************)
(* Small instances of the log fetcher and the statistics.  An aggregation  *)
(* shares with the others only the tables of first trades and the list of  *)
(* countries, so behaviours follow two of them at a time, or the           *)
(* categories.  One trade is enough for the country and volume             *)
(* aggregations to meet: the list of countries grows once.                 *)
(***************************************************************************)
EXTENDS StatServer

CONSTANTS u1, u2, w1, tok, res, a1, a2, kyc, other

Buy(u)  == [type |-> "trade",
            data |-> [user |-> u, wallet |-> w1, src |-> ETH, dst |-> tok, reserve |-> res]]
Sell(u) == [type |-> "trade",
            data |-> [user |-> u, wallet |-> NoWallet, src |-> tok, dst |-> ETH, reserve |-> res]]
SetCat(a, c) == [type |-> "cat", data |-> [addr |-> a, cat |-> c]]

MCScenarios ==
  {<<{"summary", "wallet"}, <<Buy(u1), Sell(u1)>>, {}>>, <<{"summary"}, <<Buy(u1), Sell(u1)>>, {"tables"}>>}
    \cup {<<{"country"}, <<Buy(u1), Sell(u1)>>, {"geo"}>>, <<{"country", "volume"}, <<Buy(u1)>>, {"geo"}>>}
    \cup {<<{k}, <<Buy(u1)>>, {"tables", "names", "crash"}>> : k \in {"country", "wallet"}}
    \cup {<<{k}, <<Buy(u1), Sell(u2), Sell(u1)>>, {}>> : k \in {"volume", "wallet"}}
    \cup {<<{k}, <<Buy(u1), Sell(u2)>>, {"crash"}>> : k \in {"burn", "user", "wallet"}}
    \cup {<<{"cat"}, <<SetCat(a1, kyc), SetCat(a1, other), SetCat(a1, kyc)>>, {"crash"}>>,
          <<{"cat"}, <<SetCat(a2, kyc), SetCat(a2, other)>>, {"store", "crash"}>>}
    \cup {<<{}, txs, {"crash", "reorg"}>> : txs \in [1 .. 3 -> {Buy(u1), SetCat(a1, kyc)}]}
    \cup {<<{}, <<Buy(u1), SetCat(a1, kyc), Buy(u1)>>, f>> : f \in {{"head", "reorg"}, {"store", "crash"}}}

MCZones == {-1, 2}
=============================================================================
