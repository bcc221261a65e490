----------------------------- MODULE ReserveCore -----------------------------
(***************************************************************************)
(* core/reserve_core.go: Trade, Deposit, Withdraw and CancelOrder, called  *)
(* by HTTP handlers that run concurrently.  SetRates has a module of its   *)
(* own (SetRates).  A handler that calls out is several steps: what it     *)
(* reads from the storage, what it asks of the exchange or of the network, *)
(* and the final Record are separate, since other handlers, the fetcher    *)
(* and the environment move in between.                                    *)
(*                                                                         *)
(* A request is "new" until its handler starts, then "send" (a deposit that *)
(* passed its checks), "record" (its outcome is known and not stored yet), *)
(* and "recorded"; "lost" when the process died before it was stored, or   *)
(* storing it failed.                                                      *)
(***************************************************************************)
EXTENDS ActivityStorage, ExchangeSite

CONSTANTS Exchanges,  \* the exchanges the reserve is set up with
          Tokens,     \* the tokens requests are about
          Supported,  \* the <<exchange, token>> pairs with a deposit address
          Kinds       \* the operations clients ask for

ASSUME CoreAssumption ==
  /\ Supported \subseteq Exchanges \X Tokens
  /\ Kinds \subseteq {"trade", "deposit", "withdraw"}

VARIABLES rpc,        \* rpc[r]: how far the handler of request r is
          draft       \* draft[r]: the record the handler is going to store

coreVars == <<rpc, draft>>

RequestSteps == {"new", "send", "record", "recorded", "lost"}

ActivityRecords ==
  [action : {"trade", "deposit", "withdraw"}, dest : Exchanges, token : Tokens,
   est : ExchangeStatuses, mst : MiningStatuses, tx : TxValues]

CoreTypeOK ==
  /\ rpc \in [Requests -> RequestSteps]
  /\ IsMap(draft, Requests, ActivityRecords)

CoreInit ==
  /\ rpc = [r \in Requests |-> "new"]
  /\ draft = [r \in {} |-> {}]

NewActivity(action, e, t, est, mst, tx) ==
  [action |-> action, dest |-> e, token |-> t, est |-> est, mst |-> mst, tx |-> tx]

\* The handler of r knows what it is going to record.
Outcome(r, step, a) ==
  /\ rpc' = [rpc EXCEPT ![r] = step]
  /\ draft' = Put(draft, r, a)

------------------------------------------------------------------------------
\* Trade.  Refused by sanityCheckTrading or by the exchange; placed and found
\* finished or still open; or placed while the follow-up QueryOrder failed,
\* which the caller records as a failure.
Trade(r, e, t) ==
  /\ "trade" \in Kinds
  /\ rpc[r] = "new"
  /\ \/ /\ Outcome(r, "record", NewActivity("trade", e, t, "failed", "", NoTx))
        /\ UNCHANGED site
     \/ /\ Outcome(r, "record", NewActivity("trade", e, t, "submitted", "", NoTx))
        /\ site' = [site EXCEPT ![r] = "open"]
     \/ /\ Outcome(r, "record", NewActivity("trade", e, t, "done", "", NoTx))
        /\ site' = [site EXCEPT ![r] = "closed"]
     \/ /\ "reply" \in Faults
        /\ Outcome(r, "record", NewActivity("trade", e, t, "failed", "", NoTx))
        /\ site' = [site EXCEPT ![r] = "open"]
  /\ UNCHANGED <<chain, storageVars>>

\* Deposit, up to the blockchain call: the address lookup, HasPendingDeposit
\* and sanityCheckAmount (which depends on the amount, not modelled).
Deposit(r, e, t) ==
  /\ "deposit" \in Kinds
  /\ rpc[r] = "new"
  /\ \/ /\ <<e, t>> \in Supported
        /\ ~HasPendingDeposit(t, e)
        /\ Outcome(r, "send", NewActivity("deposit", e, t, "", "submitted", TxHash))
     \/ Outcome(r, "record", NewActivity("deposit", e, t, "", "failed", ZeroTx))
  /\ UNCHANGED <<site, chain, storageVars>>

\* blockchain.Send: broadcast, or an error.  A node that accepted the
\* transaction and then timed out counts as an error too.
Send(r) ==
  /\ rpc[r] = "send"
  /\ rpc' = [rpc EXCEPT ![r] = "record"]
  /\ \/ /\ UNCHANGED draft
        /\ Broadcast(r)
     \/ /\ draft' = [draft EXCEPT ![r].mst = "failed", ![r].tx = ZeroTx]
        /\ UNCHANGED chain
     \/ /\ "node" \in Faults
        /\ draft' = [draft EXCEPT ![r].mst = "failed", ![r].tx = ZeroTx]
        /\ Broadcast(r)
  /\ UNCHANGED <<site, storageVars>>

\* Withdraw: refused (unsupported token, amount too small, exchange error) or
\* accepted; the transaction is not known until the fetcher learns it.
Withdraw(r, e, t) ==
  /\ "withdraw" \in Kinds
  /\ rpc[r] = "new"
  /\ \/ /\ Outcome(r, "record", NewActivity("withdraw", e, t, "failed", "", NoTx))
        /\ UNCHANGED site
     \/ /\ <<e, t>> \in Supported
        /\ Outcome(r, "record", NewActivity("withdraw", e, t, "submitted", "", NoTx))
        /\ site' = [site EXCEPT ![r] = "processing"]
     \/ /\ <<e, t>> \in Supported
        /\ "reply" \in Faults
        /\ Outcome(r, "record", NewActivity("withdraw", e, t, "failed", "", NoTx))
        /\ site' = [site EXCEPT ![r] = "processing"]
  /\ UNCHANGED <<chain, storageVars>>

\* The end of every handler: Record under a fresh timebasedID.  Its error is ignored.
RecordOutcome(r) ==
  /\ rpc[r] = "record"
  /\ \/ /\ Record(r, draft[r])
        /\ rpc' = [rpc EXCEPT ![r] = "recorded"]
     \/ /\ "disk" \in Faults
        /\ rpc' = [rpc EXCEPT ![r] = "lost"]
        /\ UNCHANGED storageVars
  /\ draft' = Delete(draft, r)
  /\ UNCHANGED <<site, chain>>

\* CancelOrder of a recorded trade: the exchange closes the order.  Nothing is
\* stored; the fetcher learns the outcome like any other.
CancelOrder(id) ==
  /\ id \in DOMAIN activityBucket
  /\ activityBucket[id].action = "trade"
  /\ site[id] = "open"
  /\ site' = [site EXCEPT ![id] = "closed"]
  /\ UNCHANGED <<chain, coreVars, storageVars>>

\* The HTTP handlers: a request that is not signed, or whose exchange, token or amount
\* is not known, is refused and changes nothing.
TradeHandler(r)    == \E e \in Exchanges, t \in Tokens : Trade(r, e, t)
DepositHandler(r)  == \E e \in Exchanges, t \in Tokens : Deposit(r, e, t)
WithdrawHandler(r) == \E e \in Exchanges, t \in Tokens : Withdraw(r, e, t)

CoreStep(r) ==
  \/ TradeHandler(r) \/ DepositHandler(r) \/ WithdrawHandler(r)
  \/ Send(r)
  \/ RecordOutcome(r)

\* The process dies: what no handler stored is forgotten.
CoreCrash ==
  /\ rpc' = [r \in Requests |-> IF rpc[r] \in {"send", "record"} THEN "lost" ELSE rpc[r]]
  /\ draft' = [r \in {} |-> {}]
=============================================================================
