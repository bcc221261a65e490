------------------------------ MODULE Activity ------------------------------
(***************************************************************************)
(* The activity record of common/types.go and the predicates that decide   *)
(* which side of an activity is still open.  A record keeps what the       *)
(* control flow reads: the kind of operation, its destination and token,   *)
(* the two statuses and what Result["tx"] holds.                           *)
(***************************************************************************)

\* Result["tx"]: empty for a withdrawal whose transaction is not known yet
\* (and, by convention here, for a trade, which has none), the all-zero hash
\* for a transaction that was never broadcast, or the hash of the activity's
\* own transaction.
NoTx   == ""
ZeroTx == "0x0"
TxHash == "0xhash"

ActivityKinds    == {"trade", "deposit", "withdraw", "set_rates"}
ExchangeStatuses == {"", "submitted", "pending", "done", "failed"}
MiningStatuses   == {"", "submitted", "mined", "failed"}
TxValues         == {NoTx, ZeroTx, TxHash}

(***************************************************************************)
(* The waiting statuses of each side, per kind of operation.               *)
(***************************************************************************)
ExchangeWaits(a) ==
  CASE a.action = "deposit" -> a.est \in {"", "pending"}
    [] OTHER                -> a.est \in {"", "submitted"}

MiningWaits(a) == a.mst \in {"", "submitted"}

\* Mutant of IsExchangePending: the activity's own exchange status is ignored.
ExchangePendingUntilFailed(a) == a.action = "trade" \/ a.mst # "failed"

\* The exchange must still be asked about the activity.
IsExchangePending(a) ==
  CASE a.action \in {"withdraw", "deposit"} -> ExchangeWaits(a) /\ a.mst # "failed"
    [] a.action = "trade"                   -> ExchangeWaits(a)
    [] OTHER                                -> TRUE

\* The node must still be asked about the activity's transaction.
IsBlockchainPending(a) ==
  CASE a.action \in {"withdraw", "deposit", "set_rates"} ->
         MiningWaits(a) /\ a.est # "failed"
    [] OTHER -> TRUE

\* The activity belongs in the pending bucket.
IsPending(a) ==
  CASE a.action \in {"withdraw", "deposit"} ->
         /\ ExchangeWaits(a) \/ MiningWaits(a)
         /\ a.mst # "failed"
         /\ a.est # "failed"
    [] a.action = "trade"     -> ExchangeWaits(a) /\ a.est # "failed"
    [] a.action = "set_rates" -> MiningWaits(a) /\ a.est # "failed"
    [] OTHER                  -> TRUE
=============================================================================
