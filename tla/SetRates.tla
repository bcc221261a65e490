------------------------------ MODULE SetRates ------------------------------
(***************************************************************************)
(* core.SetRates: concurrent handlers that submit a transaction from the   *)
(* pricing operator's account, replacing one that is still pending, next   *)
(* to the fetcher that settles set_rates activities and to the other       *)
(* activities that share the pending bucket.                               *)
(*                                                                         *)
(* Keys of the buckets are positive numbers in the order of the clock.  A  *)
(* transaction hash is the request that signed the transaction.  Gas       *)
(* prices are in steps of 10 gwei.                                         *)
(***************************************************************************)
EXTENDS ActivityStorage, Ethereum, TimeWindow, Integers, FiniteSets

CONSTANTS Others,        \* the other kinds of activities that may be pending
          DepositNonces, \* the nonces of the deposit operator's transactions
          MaxOthers      \* bound: how many other activities are recorded

OtherTx == "other"

ASSUME OthersAssumption ==
  /\ Others \subseteq {"deposit", "trade"}
  /\ DepositNonces \subseteq Nat
  /\ MaxOthers \in Nat

\* The hash of a transaction is neither zero nor that of another activity.
ASSUME RequestsAssumption ==
  IsFiniteSet(Requests) /\ ZeroTx \notin Requests /\ OtherTx \notin Requests

VARIABLES minedNonce,   \* the nonces below are used up on the chain
          handler,      \* handler[r]: the SetRates call of request r
          fpc, list, fmined, verdicts,   \* the fetcher's status round
          late          \* activities older than 15 minutes

fetchVars   == <<fpc, list, fmined, verdicts>>
setRateVars == <<storageVars, nonceVars, chain, minedNonce, handler, fetchVars, late>>

NoNonce    == -1
FreshPrice == 5                          \* 50.1 gwei

Keys == 1 .. Cardinality(Requests) + MaxOthers

HandlerSteps == {"new", "asked", "fresh", "nonce", "built", "failed", "sent", "recorded", "panic"}

\* The record of an activity; deposits carry the nonce and price of the deposit
\* operator's account, trades have neither.
Record_(action, est, mst, tx, nonce, price) ==
  [action |-> action, est |-> est, mst |-> mst, tx |-> tx, nonce |-> nonce, price |-> price]

TypeOK ==
  /\ ChainTypeOK
  /\ NonceTypeOK
  /\ minedNonce \in Nat
  /\ DOMAIN pendingBucket \subseteq DOMAIN activityBucket
  /\ DOMAIN activityBucket \subseteq Keys
  /\ \A k \in DOMAIN activityBucket :
       /\ activityBucket[k].est \in ExchangeStatuses
       /\ activityBucket[k].mst \in MiningStatuses
  /\ \A r \in Requests : handler[r].pc \in HandlerSteps
  /\ fpc \in {"idle", "start", "ask", "persist"}
  /\ DOMAIN verdicts \subseteq DOMAIN list
  /\ late \subseteq Keys

Init ==
  /\ StorageInit /\ ChainInit /\ NonceInit
  /\ minedNonce = 0
  /\ handler = [r \in Requests |->
                  [pc |-> "new", mined |-> 0, cell |-> 0, nonce |-> NoNonce, price |-> 0, old |-> 0]]
  /\ fpc = "idle" /\ list = <<>> /\ fmined = 0 /\ verdicts = <<>>
  /\ late = {}

------------------------------------------------------------------------------
\* The pool of the pricing account.
Pooled(n) == {r \in Requests : chain[r] = "pooled" /\ handler[r].nonce = n}

\* PendingNonceAt: the first nonce that is neither mined nor pooled.
PendingNonce ==
  CHOOSE n \in minedNonce .. minedNonce + Cardinality(Requests) :
    /\ Pooled(n) = {}
    /\ \A m \in minedNonce .. n - 1 : Pooled(m) # {}

\* A node takes a transaction that is not too low and outbids what it replaces.
Accepts(r) ==
  /\ handler[r].nonce >= minedNonce
  /\ \A q \in Pooled(handler[r].nonce) : handler[q].price < handler[r].price

Pool(r) ==
  chain' = [q \in Requests |-> IF q = r THEN "pooled"
                               ELSE IF q \in Pooled(handler[r].nonce) THEN "dropped"
                               ELSE chain[q]]

\* What the network does on its own.
Mine(r) ==
  /\ chain[r] = "pooled"
  /\ handler[r].nonce = minedNonce
  /\ \E s \in {"mined", "reverted"} : chain' = [chain EXCEPT ![r] = s]
  /\ minedNonce' = minedNonce + 1
  /\ UNCHANGED <<storageVars, nonceVars, handler, fetchVars, late>>

Forget(r) ==
  /\ chain[r] = "pooled"
  /\ chain' = [chain EXCEPT ![r] = "dropped"]
  /\ UNCHANGED <<storageVars, nonceVars, minedNonce, handler, fetchVars, late>>

Reannounce(r) ==
  /\ chain[r] = "dropped"
  /\ Accepts(r)
  /\ Pool(r)
  /\ UNCHANGED <<storageVars, nonceVars, minedNonce, handler, fetchVars, late>>

------------------------------------------------------------------------------
\* getLastPendingSetrate over the pending activities, newest first.  A result
\* is found when some set_rates activity is not below the mined nonce; but
\* "result = &act" points to the loop variable, which the loop goes on to
\* overwrite (one variable for the whole loop in the Go of this build), so what
\* it holds in the end is the last activity of the list, the oldest one.
IsLive(a, mined) == a.action = "set_rates" /\ a.nonce >= mined

HasPendingSetrate(mined) ==
  \E k \in DOMAIN pendingBucket : IsLive(pendingBucket[k], mined)

OldestPending ==
  CHOOSE k \in DOMAIN pendingBucket : \A j \in DOMAIN pendingBucket : k <= j

At(r, pc, fields) == handler' = [handler EXCEPT ![r] = [fields EXCEPT !.pc = pc]]

restVars == <<fetchVars, late, minedNonce>>

\* Different lengths, a failed sanityCheck, or no answer from a node (the mined
\* nonce, the current rates, the nonce, the gas estimate).
Refuse(r) ==
  /\ handler[r].pc \in {"new", "asked", "fresh", "nonce", "built"}
  /\ handler[r].pc # "new" => "node" \in Faults
  /\ At(r, "failed", handler[r])
  /\ UNCHANGED <<storageVars, nonceVars, chain, restVars>>

SetRateMinedNonce(r) ==
  /\ handler[r].pc = "new"
  /\ At(r, "asked", [handler[r] EXCEPT !.mined = minedNonce])
  /\ UNCHANGED <<storageVars, nonceVars, chain, restVars>>

\* pendingSetrateInfo: the old nonce with a higher price, a fresh nonce, or a
\* panic when the activity it got has no nonce.
PendingSetrateInfo(r) ==
  /\ handler[r].pc = "asked"
  /\ IF ~HasPendingSetrate(handler[r].mined)
       THEN At(r, "fresh", [handler[r] EXCEPT !.price = FreshPrice])
       ELSE LET act == pendingBucket[OldestPending]
            IN  IF act.nonce = NoNonce
                  THEN At(r, "panic", handler[r])
                  ELSE At(r, "built", [handler[r] EXCEPT !.nonce = act.nonce,
                                         !.price = act.price + 1, !.old = OldestPending])
  /\ UNCHANGED <<storageVars, nonceVars, chain, restVars>>

NextNonce(r) ==
  /\ handler[r].pc = "fresh"
  /\ GetNextNonce(PendingNonce)
  /\ At(r, "nonce", [handler[r] EXCEPT !.cell = Len(cells')])
  /\ UNCHANGED <<storageVars, chain, restVars>>

\* transactTx reads the number behind the pointer.
TransactTx(r) ==
  /\ handler[r].pc = "nonce"
  /\ At(r, "built", [handler[r] EXCEPT !.nonce = cells[handler[r].cell]])
  /\ UNCHANGED <<storageVars, nonceVars, chain, restVars>>

\* SignAndBroadcast: some node takes it, every node refuses it, or one takes
\* it and its answer is lost.
SignAndBroadcast(r) ==
  /\ handler[r].pc = "built"
  /\ \/ /\ Accepts(r)
        /\ Pool(r)
        /\ At(r, "sent", handler[r])
     \/ /\ ~Accepts(r)
        /\ At(r, "failed", handler[r])
        /\ UNCHANGED chain
     \/ /\ "node" \in Faults
        /\ Accepts(r)
        /\ Pool(r)
        /\ At(r, "failed", handler[r])
  /\ UNCHANGED <<storageVars, nonceVars, restVars>>

NextKey == Cardinality(DOMAIN activityBucket) + 1

RecordRates(r) ==
  /\ handler[r].pc \in {"sent", "failed"}
  /\ Record(NextKey,
            IF handler[r].pc = "sent"
              THEN Record_("set_rates", "", "submitted", r, handler[r].nonce, handler[r].price)
              ELSE Record_("set_rates", "", "failed", ZeroTx, 0, 0))
  /\ At(r, "recorded", handler[r])
  /\ UNCHANGED <<nonceVars, chain, restVars>>

------------------------------------------------------------------------------
\* The other activities: recorded pending by their handlers, settled by the
\* cycle (ReserveCore and AuthFetcher model how).
OtherKeys == {k \in DOMAIN activityBucket : activityBucket[k].action # "set_rates"}

RecordOther ==
  /\ Cardinality(OtherKeys) < MaxOthers
  /\ \E kind \in Others, n \in DepositNonces :
       Record(NextKey,
              IF kind = "deposit"
                THEN Record_("deposit", "", "submitted", OtherTx, n, FreshPrice)
                ELSE Record_("trade", "submitted", "", OtherTx, NoNonce, 0))
  /\ UNCHANGED <<nonceVars, chain, handler, restVars>>

SettleOther(k) ==
  /\ k \in OtherKeys \cap DOMAIN pendingBucket
  /\ UpdateActivity(k, [pendingBucket[k] EXCEPT !.est = "done",
                          !.mst = IF pendingBucket[k].action = "trade" THEN "" ELSE "mined"])
  /\ UNCHANGED <<nonceVars, chain, handler, restVars>>

------------------------------------------------------------------------------
\* The fetcher's cycle, as far as set_rates activities are concerned.
FetchStart ==
  /\ fpc = "idle"
  /\ fpc' = "start"
  /\ list' = [k \in DOMAIN GetPendingActivities \ OtherKeys |-> GetPendingActivities[k]]
  /\ UNCHANGED <<storageVars, nonceVars, chain, minedNonce, handler, fmined, verdicts, late>>

\* The mined nonce is asked once per round, before any status; 0 on failure.
FetchMinedNonce ==
  /\ fpc = "start"
  /\ fpc' = "ask"
  /\ \/ fmined' = minedNonce
     \/ "node" \in Faults /\ fmined' = 0
  /\ UNCHANGED <<storageVars, nonceVars, chain, minedNonce, handler, list, verdicts, late>>

\* Mutant of IsStale: the transaction that is due next counts as overtaken.
IsStaleOffByOne(a, mined) == a.nonce <= mined

\* A transaction that is not mined while its nonce is used up was overtaken.
IsStale(a, mined) == a.nonce < mined

\* Mutant of Verdict: what the node said is taken over, "lost" included.
VerdictAsAnswered(k, w) == w

\* The verdict on one activity, "" when none is reached.
Verdict(k, w) ==
  CASE w = ""     -> IF IsStale(list[k], fmined) THEN "failed" ELSE ""
    [] w = "lost" -> IF k \in late THEN "failed" ELSE ""
    [] OTHER      -> w

FetchTxStatus(k) ==
  /\ fpc = "ask"
  /\ k \in DOMAIN list \ DOMAIN verdicts
  /\ \E w \in TxStatus(list[k].tx) : verdicts' = Put(verdicts, k, Verdict(k, w))
  /\ UNCHANGED <<storageVars, nonceVars, chain, minedNonce, handler, fpc, list, fmined, late>>

EndRound ==
  /\ fpc = "ask"
  /\ DOMAIN verdicts = DOMAIN list
  /\ fpc' = "persist"
  /\ UNCHANGED <<storageVars, nonceVars, chain, minedNonce, handler, list, fmined, verdicts, late>>

\* One activity of PersistSnapshot; an activity without a verdict is written
\* back as it was read.
PersistRates(k) ==
  /\ fpc = "persist"
  /\ k \in DOMAIN list
  /\ UpdateActivity(k, [list[k] EXCEPT
       !.mst = IF verdicts[k] # "" /\ IsBlockchainPending(list[k]) THEN verdicts[k] ELSE @])
  /\ list' = Delete(list, k)
  /\ verdicts' = Delete(verdicts, k)
  /\ UNCHANGED <<nonceVars, chain, minedNonce, handler, fpc, fmined, late>>

EndCycle ==
  /\ fpc = "persist"
  /\ list = <<>>
  /\ fpc' = "idle"
  /\ UNCHANGED <<storageVars, nonceVars, chain, minedNonce, handler, list, fmined, verdicts, late>>

Age(k) ==
  /\ k \in DOMAIN pendingBucket \ (late \cup OtherKeys)
  /\ late' = late \cup {k}
  /\ UNCHANGED <<storageVars, nonceVars, chain, minedNonce, handler, fetchVars>>

Elapse ==
  /\ WindowElapses
  /\ UNCHANGED <<storageVars, chain, minedNonce, handler, fetchVars, late>>

------------------------------------------------------------------------------
Handlers(r) ==
  \/ Refuse(r) \/ SetRateMinedNonce(r) \/ PendingSetrateInfo(r) \/ NextNonce(r)
  \/ TransactTx(r) \/ SignAndBroadcast(r) \/ RecordRates(r)

Network(r) == Mine(r) \/ Forget(r) \/ Reannounce(r)

Fetching ==
  \/ FetchStart \/ FetchMinedNonce \/ EndRound \/ EndCycle
  \/ \E k \in Keys : FetchTxStatus(k) \/ PersistRates(k)

Next ==
  \/ \E r \in Requests : Handlers(r) \/ Network(r)
  \/ RecordOther \/ \E k \in Keys : SettleOther(k) \/ Age(k)
  \/ Fetching
  \/ Elapse

Spec == Init /\ [][Next]_setRateVars

------------------------------------------------------------------------------
(***************************************************************************)
(* VerdictsTrue: a set_rates activity recorded as mined was mined, and one  *)
(* recorded as failed before its 15 minutes are over will never be: the    *)
(* verdict is put together from a mined nonce read before the statuses and *)
(* a status read while the transaction may be mined or replaced.           *)
(***************************************************************************)
VerdictsTrue ==
  \A k \in DOMAIN activityBucket :
    LET a == activityBucket[k]
    IN  a.tx \in Requests =>
          /\ a.mst = "mined" => chain[a.tx] = "mined"
          /\ a.mst = "failed" /\ k \notin late => chain[a.tx] # "mined"

(***************************************************************************)
(* NonceIsUsable: a fresh nonce is one the chain has not used, although    *)
(* inside the window GetNextNonce does not ask the node; unless it was     *)
(* used by a transaction that did not take its number in this window: one  *)
(* of an earlier window, which overtook what the node counts, or one that  *)
(* replaced a pending activity.                                            *)
(***************************************************************************)
Used(r) == chain[r] \in {"mined", "reverted"}

UsedByOutsider(n, cell) ==
  \E q \in Requests : Used(q) /\ handler[q].nonce = n /\ handler[q].cell # cell

NonceIsUsable ==
  [][\A r \in Requests :
       handler[r].pc = "fresh" /\ handler'[r].pc = "nonce" =>
         LET cell == handler'[r].cell
         IN  cells'[cell] >= minedNonce \/ UsedByOutsider(cells'[cell], cell)]_setRateVars

\* The handler of r decides to replace, on behalf of the activity "old".
Replaces(r) == handler[r].pc = "asked" /\ handler'[r].pc \in {"built", "panic"}

(***************************************************************************)
(* ReplacesPendingSetrate: what SetRates replaces is a pending set_rates   *)
(* transaction that is not stale ("if there is a pending set rate tx, we   *)
(* replace it").                                                           *)
(***************************************************************************)
ReplacesPendingSetrate ==
  [][\A r \in Requests :
       Replaces(r) => /\ handler'[r].pc = "built"
                      /\ IsLive(pendingBucket[handler'[r].old], handler[r].mined)]_setRateVars
=============================================================================
