---------------------------- MODULE ExchangeSite ----------------------------
(***************************************************************************)
(* A centralized exchange as the reserve sees it through exchange/*.go:    *)
(* what has become of each order, deposit and withdrawal, and the answers  *)
(* of OrderStatus, DepositStatus, WithdrawStatus and FetchEBalanceData.    *)
(* The site itself is external to the repository; the answers are those of *)
(* exchange/binance.go, which bittrex.go shares in kind.                   *)
(*                                                                         *)
(* An answer is a set of possible [est, tx, err] triples: the true one and, *)
(* where the environment may fail, the ones the code returns on failure.   *)
(***************************************************************************)
EXTENDS Activity, Ethereum

VARIABLE site     \* site[r]: what the exchange knows of request r

SiteStates ==
  {"none",
   "open", "closed",                                      \* an order
   "credited",                                            \* a deposit
   "processing", "broadcast", "completed", "rejected"}    \* a withdrawal

SiteTypeOK == site \in [Requests -> SiteStates]

SiteInit == site = [r \in Requests |-> "none"]

Answers == [est : ExchangeStatuses, tx : TxValues, err : BOOLEAN]

Answer(est, tx) == [est |-> est, tx |-> tx, err |-> FALSE]

\* The call failed and the code reports the error along with status "".
ErrorAnswers ==
  IF "reply" \in Faults THEN {[est |-> "", tx |-> NoTx, err |-> TRUE]} ELSE {}

\* The exchange answered Success = false: the code returns status "" and a nil
\* error, which the caller cannot tell from a pending one.
SilentAnswers == IF "silent" \in Faults THEN {Answer("", NoTx)} ELSE {}

OrderStatus(r) ==
  {Answer(IF site[r] = "open" THEN "" ELSE "done", NoTx)} \cup ErrorAnswers

DepositStatus(r) ==
  {Answer(IF site[r] = "credited" THEN "done" ELSE "", NoTx)}
    \cup ErrorAnswers \cup SilentAnswers

WithdrawStatus(r) ==
  {CASE site[r] = "completed" -> Answer("done", TxHash)
     [] site[r] = "rejected"  -> Answer("done", NoTx)
     [] site[r] = "broadcast" -> Answer("", TxHash)
     [] OTHER                 -> Answer("", NoTx)}
    \cup ErrorAnswers \cup SilentAnswers

\* The effects that balances show at this moment: closed orders and credited
\* deposits.  An exchange's entry is only ever read for its own activities, so
\* the others need not be taken out of it.
ExchangeBalances == {r \in Requests : site[r] \in {"closed", "credited"}}

\* FetchEBalanceData: an entry that is valid, or one marked invalid.
Balances == [valid : BOOLEAN, effects : SUBSET Requests]

FetchEBalanceData ==
  {[valid |-> TRUE, effects |-> ExchangeBalances]}
    \cup (IF "reply" \in Faults THEN {[valid |-> FALSE, effects |-> {}]} ELSE {})

------------------------------------------------------------------------------
\* What the exchange does on its own.  A deposit is credited once its
\* transaction is mined; a withdrawal is announced on the network, or rejected.
SiteStep(r) ==
  \/ /\ site[r] = "open"
     /\ site' = [site EXCEPT ![r] = "closed"]
     /\ UNCHANGED chain
  \/ /\ site[r] = "processing"
     /\ site' = [site EXCEPT ![r] = "broadcast"]
     /\ Broadcast(r)
  \/ /\ site[r] = "processing"
     /\ "reject" \in Faults
     /\ site' = [site EXCEPT ![r] = "rejected"]
     /\ UNCHANGED chain
  \/ /\ site[r] = "broadcast"
     /\ site' = [site EXCEPT ![r] = "completed"]
     /\ UNCHANGED chain

Credit(r) ==
  /\ site[r] = "none"
  /\ chain[r] = "mined"
  /\ site' = [site EXCEPT ![r] = "credited"]
  /\ UNCHANGED chain
=============================================================================
