---------------------------- MODULE HuobiDeposit ----------------------------
(***************************************************************************)
(* exchange/huobi.go, DepositStatus.  A deposit to Huobi takes two         *)
(* transactions: the reserve pays an intermediate account (tx1), and once  *)
(* that is mined DepositStatus itself sends the fund on to Huobi (tx2).    *)
(* A status call therefore has effects, and the double check of the auth   *)
(* data cycle makes it twice per cycle, or more.                           *)
(*                                                                         *)
(* One goroutine asks about every deposit in turn.  A call is several      *)
(* steps: the look-up with the transaction status, the broadcast, and each *)
(* bolt transaction on the exchange's own database.                        *)
(***************************************************************************)
EXTENDS DepositCycle, Sequences

CONSTANT MaxSends       \* bound: second transactions per deposit

ASSUME HuobiAssumption == MaxSends \in Nat \ {0}

VARIABLES funded,      \* the deposits whose first transaction is mined
          tx2,         \* tx2[d]: the second transactions sent for d, in order
          pendingTx,   \* PENDING_INTERMEDIATE_TX
          finalTx      \* INTERMEDIATE_TX

dbVars    == <<pendingTx, finalTx>>
netVars   == <<funded, tx2>>
huobiVars == <<netVars, dbVars>>
vars      == <<huobiVars, cycleVars>>

TxStates  == {"pooled", "mined", "credited", "reverted", "dropped"}
Entries   == [hash : 1 .. MaxSends, old : BOOLEAN]   \* old: for over 15 minutes

\* Mutant of Young: the entry is stored without its time.
Unstamped(h) == [hash |-> h]

\* A TXEntry made now.
Young(h) == [hash |-> h, old |-> FALSE]

CallSteps == {"none", "send", "storeSent", "storeMined", "history", "storeFinal", "removePending"}

TypeOK ==
  /\ funded \subseteq Deposits
  /\ tx2 \in [Deposits -> Seq(TxStates)]
  /\ IsMap(pendingTx, Deposits, Entries)
  /\ IsMap(finalTx, Deposits, Entries)
  /\ CycleTypeOK
  /\ exchange = "huobi" => call.pc \in CallSteps

HuobiInit ==
  /\ funded = {}
  /\ tx2 = [d \in Deposits |-> <<>>]
  /\ pendingTx = Empty /\ finalTx = Empty

------------------------------------------------------------------------------
\* The network and the exchange.
Fund(d) ==
  /\ exchange = "huobi"
  /\ d \notin funded
  /\ funded' = funded \cup {d}
  /\ UNCHANGED <<tx2, dbVars, cycleVars>>

Move(d, i) ==
  /\ i \in DOMAIN tx2[d]
  /\ \/ /\ tx2[d][i] = "pooled"
        /\ \E s \in {"mined", "reverted"} : tx2' = [tx2 EXCEPT ![d][i] = s]
     \/ /\ tx2[d][i] = "pooled" /\ "drop" \in faults
        /\ tx2' = [tx2 EXCEPT ![d][i] = "dropped"]
     \/ /\ tx2[d][i] = "mined"
        /\ tx2' = [tx2 EXCEPT ![d][i] = "credited"]
  /\ UNCHANGED <<funded, dbVars, cycleVars>>

\* More than 15 minutes pass.  A cycle is much shorter, so only between cycles.
Age ==
  LET aged(m) == [d \in DOMAIN m |-> [m[d] EXCEPT !.old = TRUE]]
  IN  /\ round = "idle"
      /\ <<pendingTx, finalTx>> # <<aged(pendingTx), aged(finalTx)>>
      /\ pendingTx' = aged(pendingTx)
      /\ finalTx' = aged(finalTx)
      /\ UNCHANGED <<netVars, cycleVars>>

------------------------------------------------------------------------------
OnFile(bucket, d) == IF d \in DOMAIN bucket THEN {bucket[d]} ELSE {}

\* Mutant of FindTx2: the pending bucket is not searched.
FindTx2InFinal(d) == {OnFile(finalTx, d)}

\* FindTx2: the permanent bucket first, then the pending one.  A bucket with a
\* record that cannot be read answers like one that has no entry.  The possible
\* answers, each the entry found or none.
FindTx2(d) ==
  LET inFinal   == OnFile(finalTx, d)
      inPending == OnFile(pendingTx, d)
  IN  {IF inFinal # {} THEN inFinal ELSE inPending}
        \cup (IF "read" \in faults THEN {inPending, {}} ELSE {})

\* What the status of a known second transaction leads to.
OnTx2(d, entry) ==
  LET s == tx2[d][entry.hash]
  IN  \/ s \in {"mined", "credited"} /\ Continue("storeMined", entry.hash, "")
      \/ s = "reverted" /\ Answer(d, "failed")
      \/ s = "pooled" /\ Answer(d, "")
      \/ s = "dropped" /\ entry.old /\ Continue("storeFinal", entry.hash, "failed")
      \/ s = "dropped" /\ ~entry.old /\ Answer(d, "")

\* The look-up; a node that does not answer makes the status "".
LookUp(d) ==
  /\ round # "idle" /\ call = NoCall
  /\ d \in left /\ d = Current
  /\ \/ \E found \in FindTx2(d) :
          \/ found = {} /\ d \in funded /\ Continue("send", 0, "")
          \/ found = {} /\ d \notin funded /\ Answer(d, "")
          \/ \E entry \in found : OnTx2(d, entry)
     \/ "node" \in faults /\ Answer(d, "")
  /\ UNCHANGED <<netVars, dbVars>>

\* Send2ndTransaction: sent, refused, or sent while the answer is lost.
Send2ndTransaction(d) ==
  LET sent == tx2' = [tx2 EXCEPT ![d] = Append(@, "pooled")]
  IN  /\ call.pc = "send" /\ d = Current
      /\ Len(tx2[d]) < MaxSends
      /\ \/ sent /\ Continue("storeSent", Len(tx2[d]) + 1, "")
         \/ "node" \in faults /\ UNCHANGED tx2 /\ Answer(d, "")
         \/ "node" \in faults /\ sent /\ Answer(d, "")
      /\ UNCHANGED <<funded, dbVars>>

\* StorePendingIntermediateTx after the broadcast; a failure is only logged.
StoreSent(d) ==
  /\ call.pc = "storeSent" /\ d = Current
  /\ \/ pendingTx' = Put(pendingTx, d, Young(call.hash))
     \/ "disk" \in faults /\ UNCHANGED pendingTx
  /\ Answer(d, "")
  /\ UNCHANGED <<netVars, finalTx>>

\* The same when tx2 is mined; a failure ends the call.
StoreMined(d) ==
  /\ call.pc = "storeMined" /\ d = Current
  /\ \/ /\ pendingTx' = Put(pendingTx, d, Young(call.hash))
        /\ Continue("history", call.hash, "")
     \/ "disk" \in faults /\ UNCHANGED pendingTx /\ Answer(d, "")
  /\ UNCHANGED <<netVars, finalTx>>

\* Mutant of DepositHistory: a deposit counts as soon as its transaction is mined.
HistoryIgnoresState(d) ==
  /\ call.pc = "history" /\ d = Current
  /\ Continue("storeFinal", call.hash, "done")
  /\ UNCHANGED <<netVars, dbVars>>

\* DepositHistory: Huobi has confirmed the deposit, or not yet, or fails.
DepositHistory(d) ==
  /\ call.pc = "history" /\ d = Current
  /\ \/ tx2[d][call.hash] = "credited" /\ Continue("storeFinal", call.hash, "done")
     \/ tx2[d][call.hash] # "credited" /\ Answer(d, "")
     \/ "node" \in faults /\ Answer(d, "")
  /\ UNCHANGED <<netVars, dbVars>>

\* StoreIntermediateTx: drops the error of its transaction.  The entry is
\* stamped with the present time.
StoreFinal(d) ==
  /\ call.pc = "storeFinal" /\ d = Current
  /\ \/ finalTx' = Put(finalTx, d, Young(call.hash))
     \/ "disk" \in faults /\ UNCHANGED finalTx
  /\ Continue("removePending", call.hash, call.verdict)
  /\ UNCHANGED <<netVars, pendingTx>>

\* Mutant of RemovePending: the pending entry stays.
KeepPending(d) ==
  /\ call.pc = "removePending" /\ d = Current
  /\ Answer(d, call.verdict)
  /\ UNCHANGED <<netVars, dbVars>>

\* Mutant of RemovePending: the verdict is not returned.
RemoveStillPending(d) ==
  /\ call.pc = "removePending" /\ d = Current
  /\ pendingTx' = Delete(pendingTx, d)
  /\ Answer(d, "")
  /\ UNCHANGED <<netVars, finalTx>>

\* RemovePendingIntermediateTx: drops its error as well.
RemovePending(d) ==
  /\ call.pc = "removePending" /\ d = Current
  /\ \/ pendingTx' = Delete(pendingTx, d)
     \/ "disk" \in faults /\ UNCHANGED pendingTx
  /\ Answer(d, call.verdict)
  /\ UNCHANGED <<netVars, finalTx>>

DepositStatus(d) ==
  \/ LookUp(d) \/ Send2ndTransaction(d) \/ StoreSent(d) \/ StoreMined(d)
  \/ DepositHistory(d) \/ StoreFinal(d) \/ RemovePending(d)

Cycle ==
  /\ exchange = "huobi"
  /\ \/ (StartCycle \/ EndRound) /\ UNCHANGED huobiVars
     \/ \E d \in Deposits : DepositStatus(d)

HuobiNext ==
  \/ Cycle
  \/ \E d \in Deposits : Fund(d) \/ \E i \in 1 .. MaxSends : Move(d, i)
  \/ Age
  \/ exchange = "huobi" /\ Crash /\ UNCHANGED huobiVars

(***************************************************************************)
(* The runner ticks for ever, the calls have time limits, a pooled         *)
(* transaction is mined or dropped and a mined one is credited.  Time      *)
(* passes between some two cycles, whenever there is an entry to grow old: *)
(* strong fairness, because Age is enabled only while no cycle runs.       *)
(***************************************************************************)
HuobiFairness ==
  /\ WF_vars(Cycle)
  /\ SF_vars(Age)
  /\ \A d \in Deposits : /\ WF_vars(Fund(d))
                         /\ \A i \in 1 .. MaxSends : WF_vars(Move(d, i))

------------------------------------------------------------------------------
(***************************************************************************)
(* SentOnce: the fund is never sent on to Huobi while a second transaction *)
(* for the same deposit is on file, however often DepositStatus is called, *)
(* whatever fails on the way and wherever the process dies, provided that  *)
(* the two buckets can be read: FindTx2 takes one that cannot for one that *)
(* has no entry.                                                           *)
(***************************************************************************)
SentOnce ==
  [][\A d \in Deposits :
       "read" \notin faults /\ d \in DOMAIN pendingTx \cup DOMAIN finalTx
         => Len(tx2'[d]) = Len(tx2[d])]_vars

(***************************************************************************)
(* DoneIsCredited: a deposit that is stored as done has been credited by   *)
(* Huobi, whatever fails on the way and wherever the process dies.         *)
(***************************************************************************)
DoneIsCredited ==
  exchange = "huobi" => \A d \in Deposits :
    est[d] = "done" => \E i \in DOMAIN tx2[d] : tx2[d][i] = "credited"

(***************************************************************************)
(* DoneLeavesNoPending: unless the database failed, once a deposit is done *)
(* its entry has left the pending bucket, which PendingIntermediateTxs     *)
(* serves, although every call about a mined transaction puts it there     *)
(* again before it looks into the deposit history.                         *)
(***************************************************************************)
DoneLeavesNoPending ==
  "disk" \notin faults => \A d \in Deposits : est[d] = "done" => d \notin DOMAIN pendingTx

(***************************************************************************)
(* DepositSettles: when nothing else fails, a deposit whose second         *)
(* transaction is never dropped ends as done or failed.                    *)
(***************************************************************************)
DepositSettles ==
  faults \subseteq {"drop"} => \A d \in Deposits :
    [](\A i \in DOMAIN tx2[d] : tx2[d][i] # "dropped") => <>(est[d] # "")

(***************************************************************************)
(* LostDepositFails: "The tx is not found for over 15mins, it is considered *)
(* as lost and the deposit failed": a deposit whose only second            *)
(* transaction is lost for good is stored as failed in the end.            *)
(***************************************************************************)
LostDepositFails ==
  \A d \in Deposits : <>[](tx2[d] = <<"dropped">>) => <>(est[d] = "failed")
=============================================================================
