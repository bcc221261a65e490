----------------------------- MODULE AuthFetcher -----------------------------
(***************************************************************************)
(* The auth data cycle of data/fetcher/fetcher.go: FetchAllAuthData with   *)
(* everything it calls.  One goroutine runs one cycle at a time; inside it *)
(* one goroutine per exchange runs concurrently, then the network is       *)
(* asked, then each activity is written back in a transaction of its own   *)
(* and the snapshot is stored in a last one.                               *)
(*                                                                         *)
(* FetchAuthDataFromExchange and FetchAuthDataFromBlockchain share one     *)
(* shape, the double check: ask for every status (pre), ask for the        *)
(* balances, ask for every status again (post), and start over unless the  *)
(* two answers agree.  A source is an exchange or "blockchain".            *)
(***************************************************************************)
EXTENDS ReserveCore

Blockchain == "blockchain"
Sources    == Exchanges \cup {Blockchain}

VARIABLES fpc,        \* where the cycle is
          list,       \* the activities GetPendingActivities returned
          check,      \* check[s]: the double check of source s
          todo,       \* the activities that are not written back yet
          valid,      \* snapshot.Valid so far
          late,       \* activities older than 15 minutes
          snapshot    \* the last stored AuthDataSnapshot

fetcherVars == <<fpc, list, check, todo, valid, snapshot>>

CycleSteps == {"idle", "exchanges", "blockchain", "persist"}
CheckSteps == {"pre", "post", "done"}

\* A status: the exchange's answer next to the activity's mining status, or the
\* node's verdict next to the activity's exchange status and transaction.
Statuses == [est : ExchangeStatuses, tx : TxValues, mst : MiningStatuses, err : BOOLEAN]

Empty      == [r \in {} |-> {}]
NoBalances == [valid |-> FALSE, effects |-> {}]

\* The locals of a double check: the round, the activities not asked about yet
\* in this round, the statuses of this round, those of the first round, and the
\* balances fetched in between.
IsCheck(c) ==
  /\ DOMAIN c = {"step", "left", "statuses", "preStatuses", "bal"}
  /\ c.step \in CheckSteps
  /\ c.left \subseteq DOMAIN list
  /\ IsMap(c.statuses, DOMAIN list, Statuses)
  /\ IsMap(c.preStatuses, DOMAIN list, Statuses)
  /\ c.bal \in Balances

Unstarted == [step |-> "done", left |-> {}, statuses |-> Empty,
              preStatuses |-> Empty, bal |-> NoBalances]

IsSnapshot(x) ==
  /\ DOMAIN x = {"valid", "ebal", "rbal", "pendings"}
  /\ x.valid \in BOOLEAN
  /\ x.ebal \in [Exchanges -> Balances]
  /\ x.rbal \in Balances
  /\ IsMap(x.pendings, Requests, ActivityRecords)

\* What GetAuthData returns when nothing is stored: a zero value, no error.
NoSnapshot == [valid |-> FALSE, ebal |-> [e \in Exchanges |-> NoBalances],
               rbal |-> NoBalances, pendings |-> Empty]

FetcherTypeOK ==
  /\ fpc \in CycleSteps
  /\ IsMap(list, Requests, ActivityRecords)
  /\ check = [s \in Sources |-> check[s]]
  /\ \A s \in Sources : IsCheck(check[s])
  /\ todo \subseteq DOMAIN list
  /\ valid \in BOOLEAN
  /\ late \subseteq Requests
  /\ IsSnapshot(snapshot)

FetcherInit ==
  /\ fpc = "idle"
  /\ list = Empty
  /\ check = [s \in Sources |-> Unstarted]
  /\ todo = {}
  /\ valid = TRUE
  /\ late = {}
  /\ snapshot = NoSnapshot

------------------------------------------------------------------------------
\* The activities a source is asked about.  For the network: those whose
\* transaction hash is not the zero hash ("" also parses to it).
Targets(s, l) ==
  {r \in DOMAIN l :
     IF s = Blockchain
       THEN IsBlockchainPending(l[r]) /\ l[r].action # "trade" /\ l[r].tx = TxHash
       ELSE IsExchangePending(l[r]) /\ l[r].dest = s}

Started(s, l) == [Unstarted EXCEPT !.step = "pre", !.left = Targets(s, l)]

\* FetchStatusFromExchange, one activity: every answer is stored.
ExchangeResults(r, a, result) ==
  {Put(result, r, [est |-> w.est, tx |-> w.tx, mst |-> a.mst, err |-> w.err]) :
     w \in CASE a.action = "trade"   -> OrderStatus(r)
             [] a.action = "deposit" -> DepositStatus(r)
             [] OTHER                -> WithdrawStatus(r)}

\* A verdict on a transaction is final when it is mined, failed, or lost for
\* more than 15 minutes.
IsFinal(r, w) == w \in {"mined", "failed"} \/ (w = "lost" /\ r \in late)

\* Mutants of BlockchainResults: the verdict is stored as it comes, "lost"
\* included; a lost transaction counts as mined.
VerdictAsItComes(r, a, result) ==
  {IF IsFinal(r, w)
     THEN Put(result, r, [est |-> a.est, tx |-> a.tx, err |-> FALSE, mst |-> w])
     ELSE result : w \in TxStatus(r)}

LostIsMined(r, a, result) ==
  {IF IsFinal(r, w)
     THEN Put(result, r, [est |-> a.est, tx |-> a.tx, err |-> FALSE,
                          mst |-> IF w = "failed" THEN "failed" ELSE "mined"])
     ELSE result : w \in TxStatus(r)}

\* FetchStatusFromBlockchain, one activity: only a final verdict is stored.
BlockchainResults(r, a, result) ==
  {IF IsFinal(r, w)
     THEN Put(result, r, [est |-> a.est, tx |-> a.tx, err |-> FALSE,
                          mst |-> IF w = "mined" THEN "mined" ELSE "failed"])
     ELSE result : w \in TxStatus(r)}

Results(s, r, a, result) ==
  IF s = Blockchain THEN BlockchainResults(r, a, result)
                    ELSE ExchangeResults(r, a, result)

FetchBalances(s) == IF s = Blockchain THEN FetchBalanceData ELSE FetchEBalanceData

\* Mutants of unchanged: the second round is not compared; the test is inverted.
AlwaysUnchanged(pre, post) == TRUE

Changed(pre, post) ==
  \/ DOMAIN pre # DOMAIN post
  \/ \E r \in DOMAIN pre : pre[r].est # post[r].est \/ pre[r].mst # post[r].mst

\* unchanged: the same activities with the same statuses and transactions.

unchanged(pre, post) ==
  /\ DOMAIN pre = DOMAIN post
  /\ \A r \in DOMAIN pre : /\ pre[r].est = post[r].est
                           /\ pre[r].mst = post[r].mst
                           /\ pre[r].tx = post[r].tx

------------------------------------------------------------------------------
otherVars == <<rpc, draft, site, chain, late>>

\* FetchAllAuthData begins: read the pending activities, start every exchange.
StartCycle ==
  /\ fpc = "idle"
  /\ fpc' = "exchanges"
  /\ list' = GetPendingActivities
  /\ check' = [s \in Sources |-> IF s = Blockchain THEN Unstarted
                                                   ELSE Started(s, GetPendingActivities)]
  /\ valid' = TRUE
  /\ UNCHANGED <<todo, snapshot, storageVars, otherVars>>

Running(s) == fpc = IF s = Blockchain THEN "blockchain" ELSE "exchanges"

\* One status call of source s about activity r, in either round.
FetchStatus(s, r) ==
  /\ Running(s)
  /\ check[s].step # "done"
  /\ r \in check[s].left
  /\ \E result \in Results(s, r, list[r], check[s].statuses) :
       check' = [check EXCEPT ![s].left = @ \ {r}, ![s].statuses = result]
  /\ UNCHANGED <<fpc, list, todo, valid, snapshot, storageVars, otherVars>>

\* The balance call between the two rounds.
FetchBalance(s) ==
  /\ Running(s)
  /\ check[s].step = "pre"
  /\ check[s].left = {}
  /\ \E b \in FetchBalances(s) :
       check' = [check EXCEPT ![s] =
         [step |-> "post", left |-> Targets(s, list), statuses |-> Empty,
          preStatuses |-> check[s].statuses, bal |-> b]]
  /\ UNCHANGED <<fpc, list, todo, valid, snapshot, storageVars, otherVars>>

\* The comparison that ends the loop or starts it over.
Compare(s) ==
  /\ Running(s)
  /\ check[s].step = "post"
  /\ check[s].left = {}
  /\ check' = [check EXCEPT ![s] =
       IF unchanged(check[s].preStatuses, check[s].statuses)
         THEN [check[s] EXCEPT !.step = "done", !.preStatuses = Empty]
         ELSE Started(s, list)]
  /\ UNCHANGED <<fpc, list, todo, valid, snapshot, storageVars, otherVars>>

\* estatuses and bstatuses: an activity is asked about at its destination only.
HasEStatus(r) == r \in DOMAIN check[list[r].dest].statuses
estatus(r)    == check[list[r].dest].statuses[r]
HasBStatus(r) == r \in DOMAIN check[Blockchain].statuses
bstatus(r)    == check[Blockchain].statuses[r]

\* Mutant of LearnTx: the exchange's transaction is not copied.
NeverLearnTx(r) == list[r].tx

\* Result["tx"] is filled in once, as soon as the exchange has told it.
LearnTx(r) == IF HasEStatus(r) /\ list[r].tx = NoTx THEN estatus(r).tx ELSE list[r].tx

\* wait.Wait returns: copy the transactions the exchanges told, then ask the
\* network about every activity of the list.
JoinExchanges ==
  /\ fpc = "exchanges"
  /\ \A e \in Exchanges : check[e].step = "done"
  /\ fpc' = "blockchain"
  /\ list' = [r \in DOMAIN list |-> [list[r] EXCEPT !.tx = LearnTx(r)]]
  /\ check' = [check EXCEPT ![Blockchain] = Started(Blockchain, list')]
  /\ UNCHANGED <<todo, valid, snapshot, storageVars, otherVars>>

\* PersistSnapshot begins: balances marked invalid make the snapshot invalid.
BeginPersist ==
  /\ fpc = "blockchain"
  /\ check[Blockchain].step = "done"
  /\ fpc' = "persist"
  /\ todo' = DOMAIN list
  /\ valid' = \A e \in Exchanges : check[e].bal.valid
  /\ UNCHANGED <<list, check, snapshot, storageVars, otherVars>>

\* The final record of one activity: each status is taken over only while its
\* side is pending, the exchange's first.
Settle(r) ==
  LET a == [list[r] EXCEPT
              !.est = IF HasEStatus(r) /\ IsExchangePending(list[r]) THEN estatus(r).est ELSE @,
              !.tx  = LearnTx(r)]
  IN  [a EXCEPT !.mst = IF HasBStatus(r) /\ IsBlockchainPending(a) THEN bstatus(r).mst ELSE @]

\* Mutant of Persist: a failed transaction does not invalidate the snapshot.
PersistIgnoresFailure(r) ==
  /\ fpc = "persist"
  /\ r \in todo
  /\ list' = [list EXCEPT ![r] = Settle(r)]
  /\ \/ UpdateActivity(r, Settle(r))
     \/ "disk" \in Faults /\ UNCHANGED storageVars
  /\ valid' = (valid /\ ~(HasEStatus(r) /\ estatus(r).err))
  /\ todo' = todo \ {r}
  /\ UNCHANGED <<fpc, check, snapshot, otherVars>>

\* One turn of the loop of PersistSnapshot; the transaction may fail, which
\* leaves both buckets alone and makes the snapshot invalid.
Persist(r) ==
  /\ fpc = "persist"
  /\ r \in todo
  /\ list' = [list EXCEPT ![r] = Settle(r)]
  /\ \/ /\ UpdateActivity(r, Settle(r))
        /\ valid' = (valid /\ ~(HasEStatus(r) /\ estatus(r).err))
     \/ /\ "disk" \in Faults
        /\ valid' = FALSE
        /\ UNCHANGED storageVars
  /\ todo' = todo \ {r}
  /\ UNCHANGED <<fpc, check, snapshot, otherVars>>

\* An invalid entry is replaced by the one of the last stored snapshot.
EBalances ==
  [e \in Exchanges |-> IF check[e].bal.valid THEN check[e].bal ELSE snapshot.ebal[e]]

\* StoreAuthSnapshot, the last transaction of the cycle.
StoreAuthSnapshot ==
  /\ fpc = "persist"
  /\ todo = {}
  /\ \/ snapshot' = [valid |-> valid, ebal |-> EBalances, rbal |-> check[Blockchain].bal,
                     pendings |-> [r \in {q \in DOMAIN list : IsPending(list[q])} |-> list[r]]]
     \/ "disk" \in Faults /\ UNCHANGED snapshot
  /\ fpc' = "idle"
  /\ list' = Empty
  /\ check' = [s \in Sources |-> Unstarted]
  /\ valid' = TRUE
  /\ UNCHANGED <<todo, storageVars, otherVars>>

SourceStep(s) ==
  \/ \E r \in Requests : FetchStatus(s, r)
  \/ FetchBalance(s)
  \/ Compare(s)

FetcherStep ==
  \/ StartCycle
  \/ \E s \in Sources : SourceStep(s)
  \/ JoinExchanges
  \/ BeginPersist
  \/ \E r \in Requests : Persist(r)
  \/ StoreAuthSnapshot

\* The process dies in the middle of a cycle; the buckets and the last stored
\* snapshot remain.
FetcherCrash ==
  /\ fpc' = "idle"
  /\ list' = Empty
  /\ check' = [s \in Sources |-> Unstarted]
  /\ todo' = {}
  /\ valid' = TRUE
  /\ UNCHANGED <<late, snapshot>>
=============================================================================
