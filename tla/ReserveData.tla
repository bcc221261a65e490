----------------------------- MODULE ReserveData -----------------------------
(***************************************************************************)
(* The core of the reserve server put together: the HTTP handlers of       *)
(* ReserveCore, the auth data cycle of AuthFetcher, both working on the    *)
(* buckets of ActivityStorage, next to an exchange and a network that move *)
(* on their own, in a process that may die at any point and restart on the *)
(* same database.                                                          *)
(***************************************************************************)
EXTENDS AuthFetcher

FaultKinds == {"reply",    \* an exchange call fails and reports it
               "silent",   \* an exchange answers Success = false
               "reject",   \* an exchange rejects a withdrawal it accepted
               "node",     \* a broadcast or balance call to a node fails
               "status",   \* a transaction status call to a node fails
               "disk",     \* a bolt transaction fails
               "crash"}    \* the process dies and restarts

ASSUME FaultAssumption == Faults \subseteq FaultKinds
ASSUME SourceAssumption == Blockchain \notin Exchanges

vars == <<storageVars, coreVars, fetcherVars, late, site, chain>>

TypeOK ==
  /\ IsMap(activityBucket, Requests, ActivityRecords)
  /\ IsMap(pendingBucket, Requests, ActivityRecords)
  /\ CoreTypeOK
  /\ FetcherTypeOK
  /\ SiteTypeOK
  /\ ChainTypeOK

Init == StorageInit /\ CoreInit /\ FetcherInit /\ SiteInit /\ ChainInit

\* More than 15 minutes have passed since r was recorded.
Age(r) ==
  /\ r \in DOMAIN activityBucket
  /\ r \notin late
  /\ late' = late \cup {r}
  /\ UNCHANGED <<storageVars, coreVars, fetcherVars, site, chain>>

NetworkMoves(r) ==
  /\ ChainStep(r)
  /\ UNCHANGED <<storageVars, coreVars, fetcherVars, late, site>>

SiteMoves(r) ==
  /\ SiteStep(r) \/ Credit(r)
  /\ UNCHANGED <<storageVars, coreVars, fetcherVars, late>>

Environment(r) == NetworkMoves(r) \/ SiteMoves(r) \/ Age(r)

Crash ==
  /\ "crash" \in Faults
  /\ CoreCrash
  /\ FetcherCrash
  /\ UNCHANGED <<storageVars, site, chain>>

Core(r) ==
  /\ CoreStep(r) \/ CancelOrder(r)
  /\ UNCHANGED <<fetcherVars, late>>

Next ==
  \/ \E r \in Requests : Core(r) \/ Environment(r)
  \/ FetcherStep
  \/ Crash

Spec == Init /\ [][Next]_vars

------------------------------------------------------------------------------
(***************************************************************************)
(* Fairness.  The runner ticks for ever and every call has a time limit, so *)
(* a cycle that can move does; handlers that started finish.  Exchanges    *)
(* process what they accepted, time passes, and a transaction is not       *)
(* dropped and announced again for ever: if it keeps being pooled it is    *)
(* included in the end.                                                    *)
(***************************************************************************)
Included(r) == NetworkMoves(r) /\ chain'[r] = "mined"

Fairness ==
  /\ WF_vars(FetcherStep)
  /\ \A r \in Requests :
       /\ WF_vars(RecordOutcome(r) /\ UNCHANGED <<fetcherVars, late>>)
       /\ WF_vars(SiteMoves(r))
       /\ WF_vars(Age(r))
       /\ SF_vars(Included(r))

FairSpec == Spec /\ Fairness

------------------------------------------------------------------------------
(***************************************************************************)
(* StatusesHonest: what the activity bucket says about an activity is true *)
(* of the world: "done" only after the exchange settled it, "mined" only   *)
(* after its transaction was mined.  The statuses travel through a list    *)
(* read at the start of the cycle, two rounds of answers and a write-back  *)
(* that runs later, per activity.                                          *)
(***************************************************************************)
TrueOf(r, action, est, mst) ==
  /\ est = "done" => CASE action = "trade"   -> site[r] = "closed"
                       [] action = "deposit" -> site[r] = "credited"
                       [] OTHER              -> site[r] \in {"completed", "rejected"}
  /\ mst = "mined" => chain[r] = "mined"

Honest(r, a) == TrueOf(r, a.action, a.est, a.mst)

StatusesHonest == \A r \in DOMAIN activityBucket : Honest(r, activityBucket[r])

(***************************************************************************)
(* SettledSidesStay: a side of an activity that reached its end (done,     *)
(* mined or failed) is never rewritten, although every cycle writes back   *)
(* whole records from its own stale copy and failed calls come back as "". *)
(***************************************************************************)
SettledSidesStay ==
  [][\A r \in DOMAIN activityBucket :
       /\ activityBucket[r].est \in {"done", "failed"} =>
            activityBucket'[r].est = activityBucket[r].est
       /\ activityBucket[r].mst \in {"mined", "failed"} =>
            activityBucket'[r].mst = activityBucket[r].mst]_vars

\* The snapshot is stored by this step, marked valid.
StoresValidSnapshot == fpc = "persist" /\ fpc' = "idle" /\ snapshot'.valid /\ snapshot' # snapshot

(***************************************************************************)
(* ExchangeCoherent: in a snapshot marked valid, the exchange balances and *)
(* the activities tell the same story: of the trades and deposits the      *)
(* cycle knew, exactly the ones recorded as done are in the balances.      *)
(* This is what the double check of FetchAuthDataFromExchange is for: an   *)
(* order may fill between any two calls of the cycle.                      *)
(***************************************************************************)
ExchangeCoherent ==
  [][StoresValidSnapshot =>
       \A r \in DOMAIN list :
         list[r].action \in {"trade", "deposit"} =>
           (activityBucket[r].est = "done" <=> r \in snapshot'.ebal[list[r].dest].effects)]_vars

(***************************************************************************)
(* DepositsCoherent: the same for the reserve's own balances: in a valid   *)
(* snapshot with valid reserve balances, a deposit the cycle knew has left *)
(* the reserve exactly when it is recorded as mined.                       *)
(***************************************************************************)
DepositsCoherent ==
  [][StoresValidSnapshot /\ snapshot'.rbal.valid =>
       \A r \in DOMAIN list :
         list[r].action = "deposit" =>
           (activityBucket[r].mst = "mined" <=> r \in snapshot'.rbal.effects)]_vars

(***************************************************************************)
(* SnapshotMatchesBuckets: a valid snapshot lists, of the activities the   *)
(* cycle knew, exactly those the pending bucket holds at that moment, with *)
(* the same records: the write-back of each activity and the snapshot are  *)
(* separate transactions that must not drift apart.                        *)
(***************************************************************************)
SnapshotMatchesBuckets ==
  [][StoresValidSnapshot =>
       \A r \in DOMAIN list :
         /\ r \in DOMAIN snapshot'.pendings <=> r \in DOMAIN pendingBucket
         /\ r \in DOMAIN pendingBucket => snapshot'.pendings[r] = pendingBucket[r]]_vars

(***************************************************************************)
(* OneDepositAtATime: never two pending deposits of a token to the same    *)
(* exchange, what Deposit's check of HasPendingDeposit is meant to ensure. *)
(***************************************************************************)
OneDepositAtATime ==
  \A r, q \in DOMAIN pendingBucket :
    /\ pendingBucket[r].action = "deposit" /\ pendingBucket[q].action = "deposit"
    /\ pendingBucket[r].token = pendingBucket[q].token
    /\ pendingBucket[r].dest = pendingBucket[q].dest
    => r = q

(***************************************************************************)
(* PendingSettles: with an exchange that settles what it accepted and does *)
(* not reject, every activity leaves the pending bucket in the end, however *)
(* its two sides are interleaved with the cycles.                          *)
(***************************************************************************)
PendingSettles ==
  \A r \in Requests : (r \in DOMAIN pendingBucket) ~> (r \notin DOMAIN pendingBucket)

(***************************************************************************)
(* CycleEnds: a cycle that started stores its snapshot; the double checks  *)
(* cannot start over for ever.                                             *)
(***************************************************************************)
CycleEnds == (fpc # "idle") ~> (fpc = "idle")

------------------------------------------------------------------------------
(***************************************************************************)
(* The inductive invariant behind BucketsAgree.                            *)
(*                                                                         *)
(* HandlersFresh: nothing is stored under the key of a request that has not *)
(* recorded yet, so Record never overwrites; a handler that is about to    *)
(* record has something to record.                                         *)
(* CycleOwnsList: what the cycle has read and not written back is still in *)
(* the pending bucket, so UpdateActivity always takes its "found" branch.  *)
(***************************************************************************)
HandlersFresh ==
  \A r \in Requests :
    /\ rpc[r] # "recorded" => r \notin DOMAIN activityBucket
    /\ rpc[r] \in {"send", "record"} => r \in DOMAIN draft

CycleOwnsList ==
  /\ fpc \in {"exchanges", "blockchain"} => DOMAIN list \subseteq DOMAIN pendingBucket
  /\ todo \subseteq DOMAIN pendingBucket
  /\ fpc # "persist" => todo = {}

StorageInv == TypeOK /\ BucketsAgree /\ HandlersFresh /\ CycleOwnsList

(***************************************************************************)
(* The inductive invariant behind StatusesHonest: not only the stored      *)
(* records are true of the world, but also every copy on its way into the  *)
(* store: the handlers' drafts, the cycle's list, and the answers of the   *)
(* current round.  WorldIsNew says why the world never takes a fact back:  *)
(* a request that has not called out yet has left no trace, and a          *)
(* withdrawal is processed before it has a transaction.  OrdersPlaced says *)
(* why an order that is not open is a closed one: what is stored as a      *)
(* trade that did not fail was placed.                                     *)
(***************************************************************************)
WorldIsNew ==
  \A r \in Requests :
    /\ rpc[r] \in {"new", "send"} => site[r] = "none" /\ chain[r] = "none"
    /\ site[r] = "processing" => chain[r] = "none"

IsPlaced(r) == site[r] \in {"open", "closed"}

OrdersPlaced ==
  /\ \A r \in DOMAIN draft :
       draft[r].action = "trade" /\ draft[r].est # "failed" => IsPlaced(r)
  /\ \A r \in DOMAIN activityBucket :
       activityBucket[r].action = "trade" /\ activityBucket[r].est # "failed" => IsPlaced(r)
  /\ \A r \in DOMAIN list : list[r].action = "trade" => IsPlaced(r)

CopiesHonest ==
  /\ \A r \in DOMAIN draft : Honest(r, draft[r])
  /\ \A r \in DOMAIN list : Honest(r, list[r])
  /\ \A s \in Sources : \A r \in DOMAIN check[s].statuses :
       TrueOf(r, list[r].action, check[s].statuses[r].est, check[s].statuses[r].mst)

HonestInv == StorageInv /\ WorldIsNew /\ OrdersPlaced /\ StatusesHonest /\ CopiesHonest

(***************************************************************************)
(* The inductive invariant behind SettledSidesStay: an activity that is not *)
(* written back yet has the same statuses in the cycle's list as in the    *)
(* activity bucket, and the network is never asked about a trade.          *)
(***************************************************************************)
SameStatuses(r) ==
  /\ list[r].action = activityBucket[r].action
  /\ list[r].est = activityBucket[r].est
  /\ list[r].mst = activityBucket[r].mst

ListIsFresh ==
  /\ fpc \in {"exchanges", "blockchain"} => \A r \in DOMAIN list : SameStatuses(r)
  /\ \A r \in todo : SameStatuses(r)

NoTradeOnChain ==
  \A r \in check[Blockchain].left \cup DOMAIN check[Blockchain].statuses :
    list[r].action # "trade"

StayInv == StorageInv /\ ListIsFresh /\ NoTradeOnChain
=============================================================================
