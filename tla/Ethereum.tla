------------------------------ MODULE Ethereum ------------------------------
(***************************************************************************)
(* The Ethereum network as the reserve sees it through its nodes: the fate *)
(* of the transaction that belongs to each activity, and the answers of    *)
(* TxStatus and of the balance call of common/blockchain and blockchain.   *)
(* The network itself is external to the repository.                       *)
(***************************************************************************)
CONSTANTS Requests,   \* the activities that may own a transaction
          Faults      \* the failures the environment may show

VARIABLE chain        \* chain[r]: where the transaction of r is

ChainStates == {"none", "pooled", "dropped", "mined", "reverted"}

ChainTypeOK == chain \in [Requests -> ChainStates]

ChainInit == chain = [r \in Requests |-> "none"]

\* A transaction reaches the pool, or is announced again after it was dropped.
Broadcast(r) == chain' = [chain EXCEPT ![r] = "pooled"]

\* What the network does on its own: include a transaction, successful or
\* reverted, forget it, or see it announced again by some node that kept it.
ChainStep(r) ==
  \/ /\ chain[r] = "pooled"
     /\ \E s \in {"mined", "reverted", "dropped"} : chain' = [chain EXCEPT ![r] = s]
  \/ /\ chain[r] = "dropped"
     /\ Broadcast(r)

\* The reserve's balances show the transfers that are mined.
ReserveBalances == {r \in Requests : chain[r] = "mined"}

\* FetchBalanceData: no error is ever returned; when the call fails every entry
\* is marked invalid.
FetchBalanceData ==
  {[valid |-> TRUE, effects |-> ReserveBalances]}
    \cup (IF "node" \in Faults THEN {[valid |-> FALSE, effects |-> {}]} ELSE {})

\* TxStatus: "" while pending (or when the node cannot be reached), the
\* receipt's verdict once included, "lost" when the node does not know the
\* transaction, which may also happen while other nodes have it pooled.
TxStatus(r) ==
  (CASE chain[r] = "mined"    -> {"mined"}
     [] chain[r] = "reverted" -> {"failed"}
     [] chain[r] = "pooled"   -> {"", "lost"}
     [] OTHER                 -> {"lost"})
  \cup (IF "status" \in Faults THEN {""} ELSE {})
=============================================================================
