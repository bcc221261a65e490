---------------------------- MODULE StatusProofs ----------------------------
(***************************************************************************)
(* What the stored statuses mean: they are never rewritten once a side is  *)
(* settled, and they are true of the exchange and of the network: the      *)
(* world never takes a fact back, and every copy of a status on its way    *)
(* into the activity bucket is true when it is taken.                      *)
(***************************************************************************)
EXTENDS ReserveData, TLAPS

------------------------------------------------------------------------------
(***************************************************************************)
(* Proofs about ReserveData, for any sets of requests, exchanges and       *)
(* tokens and any set of faults.                                           *)
(***************************************************************************)

\* Put adds one entry and keeps the others.
LEMMA PutMap ==
  ASSUME NEW f, NEW S, NEW T, NEW id \in S, NEW a \in T, IsMap(f, S, T)
  PROVE  /\ IsMap(Put(f, id, a), S, T)
         /\ DOMAIN Put(f, id, a) = DOMAIN f \cup {id}
         /\ Put(f, id, a)[id] = a
         /\ \A k \in DOMAIN f : k # id => Put(f, id, a)[k] = f[k]
  BY DEF IsMap, Put

\* Delete removes one entry and keeps the others.
LEMMA DeleteMap ==
  ASSUME NEW f, NEW S, NEW T, NEW id, IsMap(f, S, T)
  PROVE  /\ IsMap(Delete(f, id), S, T)
         /\ DOMAIN Delete(f, id) = DOMAIN f \ {id}
         /\ \A k \in DOMAIN f : k # id => Delete(f, id)[k] = f[k]
  BY DEF IsMap, Delete

\* The empty bucket is a bucket of any kind.
LEMMA EmptyMap ==
  ASSUME NEW S, NEW T
  PROVE  /\ IsMap(Empty, S, T)
         /\ DOMAIN Empty = {}
  BY DEF IsMap, Empty

------------------------------------------------------------------------------
\* A fresh key keeps the buckets in agreement.
LEMMA RecordAgrees ==
  ASSUME NEW id, NEW a, BucketsAgree, id \notin DOMAIN activityBucket, Record(id, a)
  PROVE  BucketsAgree'
  BY DEF BucketsAgree, PendingIsRecorded, PendingIsComplete, Record, Put

\* An update of a key that is pending keeps the buckets in agreement.
LEMMA UpdateAgrees ==
  ASSUME NEW id, NEW a, BucketsAgree, id \in DOMAIN pendingBucket, UpdateActivity(id, a)
  PROVE  BucketsAgree'
  BY DEF BucketsAgree, PendingIsRecorded, PendingIsComplete, UpdateActivity, Put, Delete

\* Every reply of an exchange is an answer.
LEMMA AnswersType ==
  ASSUME NEW r
  PROVE  /\ OrderStatus(r) \subseteq Answers
         /\ DepositStatus(r) \subseteq Answers
         /\ WithdrawStatus(r) \subseteq Answers
<1>1. \A est \in ExchangeStatuses, tx \in TxValues : Answer(est, tx) \in Answers
  BY DEF Answer, Answers
<1>2. /\ "" \in ExchangeStatuses /\ "done" \in ExchangeStatuses
      /\ NoTx \in TxValues /\ TxHash \in TxValues
  BY DEF ExchangeStatuses, TxValues
<1>3. [est |-> "", tx |-> NoTx, err |-> TRUE] \in Answers
  BY <1>2 DEF Answers
<1>4. ErrorAnswers \subseteq Answers
  BY <1>3 DEF ErrorAnswers
<1>5. SilentAnswers \subseteq Answers
  BY <1>1, <1>2 DEF SilentAnswers
<1>6. OrderStatus(r) \subseteq Answers
  BY <1>1, <1>2, <1>4 DEF OrderStatus
<1>7. DepositStatus(r) \subseteq Answers
  BY <1>1, <1>2, <1>4, <1>5 DEF DepositStatus
<1>8. WithdrawStatus(r) \subseteq Answers
  BY <1>1, <1>2, <1>4, <1>5 DEF WithdrawStatus
<1> QED BY <1>6, <1>7, <1>8

\* The type-correct world answers with well-typed statuses.
LEMMA ResultsType ==
  ASSUME TypeOK, NEW s \in Sources, NEW r \in DOMAIN list,
         NEW result \in Results(s, r, list[r], check[s].statuses)
  PROVE  IsMap(result, DOMAIN list, Statuses)
<1> USE DEF TypeOK, FetcherTypeOK
<1>1. list[r] \in ActivityRecords /\ r \in Requests
  BY DEF IsMap
<1>2. IsMap(check[s].statuses, DOMAIN list, Statuses)
  BY DEF IsCheck
<1>3. CASE s = Blockchain
  <2>1. PICK w \in TxStatus(r) :
          result = IF IsFinal(r, w)
                     THEN Put(check[s].statuses, r,
                              [est |-> list[r].est, tx |-> list[r].tx, err |-> FALSE,
                               mst |-> IF w = "mined" THEN "mined" ELSE "failed"])
                     ELSE check[s].statuses
    BY <1>3 DEF Results, BlockchainResults
  <2>2. [est |-> list[r].est, tx |-> list[r].tx, err |-> FALSE,
         mst |-> IF w = "mined" THEN "mined" ELSE "failed"] \in Statuses
    BY <1>1 DEF ActivityRecords, Statuses, MiningStatuses
  <2> QED BY <1>2, <2>1, <2>2, PutMap
<1>4. CASE s # Blockchain
  <2> DEFINE W == CASE list[r].action = "trade"   -> OrderStatus(r)
                    [] list[r].action = "deposit" -> DepositStatus(r)
                    [] OTHER                      -> WithdrawStatus(r)
  <2>1. PICK w \in W :
          result = Put(check[s].statuses, r,
                       [est |-> w.est, tx |-> w.tx, mst |-> list[r].mst, err |-> w.err])
    BY <1>4 DEF Results, ExchangeResults
  <2>2. /\ OrderStatus(r) \subseteq Answers
        /\ DepositStatus(r) \subseteq Answers
        /\ WithdrawStatus(r) \subseteq Answers
    BY AnswersType
  <2>5. w \in Answers
    BY <2>1, <2>2
  <2>6. [est |-> w.est, tx |-> w.tx, mst |-> list[r].mst, err |-> w.err] \in Statuses
    BY <1>1, <2>5 DEF Answers, Statuses, ActivityRecords
  <2> HIDE DEF W
  <2> QED BY <1>2, <2>1, <2>6, PutMap
<1> QED BY <1>3, <1>4

\* The record Settle computes is an activity record.
LEMMA SettleType ==
  ASSUME TypeOK, NEW r \in DOMAIN list
  PROVE  Settle(r) \in ActivityRecords /\ LearnTx(r) \in TxValues
<1>1. list[r] \in ActivityRecords
  BY DEF TypeOK, FetcherTypeOK, IsMap
<1>2. list[r].dest \in Sources
  BY <1>1 DEF ActivityRecords, Sources
<1>3. HasEStatus(r) => estatus(r) \in Statuses
  BY <1>2 DEF TypeOK, FetcherTypeOK, IsCheck, IsMap, HasEStatus, estatus
<1>4. HasBStatus(r) => bstatus(r) \in Statuses
  BY DEF TypeOK, FetcherTypeOK, IsCheck, IsMap, HasBStatus, bstatus, Sources
<1>5. LearnTx(r) \in TxValues
  BY <1>1, <1>3 DEF LearnTx, Statuses, ActivityRecords
<1>6. Settle(r) \in ActivityRecords
  BY <1>1, <1>3, <1>4, <1>5 DEF Settle, Statuses, ActivityRecords
<1> QED BY <1>5, <1>6

------------------------------------------------------------------------------
\* The server starts on empty buckets, with no cycle running.
LEMMA InitInv == Init => StorageInv
<1> SUFFICES ASSUME Init PROVE StorageInv
  OBVIOUS
<1> USE DEF Init, StorageInit, CoreInit, FetcherInit, SiteInit, ChainInit
<1>1. activityBucket = Empty /\ pendingBucket = Empty /\ draft = Empty /\ list = Empty
  BY DEF Empty
<1>2. IsCheck(Unstarted)
  BY <1>1, EmptyMap DEF IsCheck, Unstarted, CheckSteps, Balances, NoBalances
<1>3. IsSnapshot(NoSnapshot)
  BY EmptyMap DEF IsSnapshot, NoSnapshot, Balances, NoBalances
<1>4. FetcherTypeOK
  BY <1>1, <1>2, <1>3, EmptyMap DEF FetcherTypeOK, CycleSteps
<1>5. TypeOK
  BY <1>1, <1>4, EmptyMap
  DEF TypeOK, CoreTypeOK, SiteTypeOK, ChainTypeOK, RequestSteps, SiteStates, ChainStates
<1>6. BucketsAgree
  BY <1>1, EmptyMap DEF BucketsAgree, PendingIsRecorded, PendingIsComplete
<1>7. HandlersFresh /\ CycleOwnsList
  BY <1>1, EmptyMap DEF HandlersFresh, CycleOwnsList
<1> QED BY <1>5, <1>6, <1>7 DEF StorageInv

\* The handlers' steps up to the final Record touch neither bucket.
LEMMA OutcomeInv ==
  ASSUME StorageInv, NEW r \in Requests, NEW a \in ActivityRecords,
         NEW step \in {"send", "record"}, rpc[r] = "new", Outcome(r, step, a)
  PROVE  /\ rpc' \in [Requests -> RequestSteps]
         /\ IsMap(draft', Requests, ActivityRecords)
         /\ \A q \in Requests :
              /\ rpc'[q] # "recorded" => q \notin DOMAIN activityBucket
              /\ rpc'[q] \in {"send", "record"} => q \in DOMAIN draft'
<1>0. IsMap(draft, Requests, ActivityRecords)
  BY DEF StorageInv, TypeOK, CoreTypeOK
<1>1. /\ IsMap(draft', Requests, ActivityRecords)
      /\ DOMAIN draft' = DOMAIN draft \cup {r}
  <2>1. draft' = Put(draft, r, a)
    BY DEF Outcome
  <2>2. /\ IsMap(Put(draft, r, a), Requests, ActivityRecords)
        /\ DOMAIN Put(draft, r, a) = DOMAIN draft \cup {r}
    BY <1>0 DEF IsMap, Put
  <2> QED BY <2>1, <2>2
<1>2. rpc' \in [Requests -> RequestSteps]
  BY DEF Outcome, StorageInv, TypeOK, CoreTypeOK, RequestSteps
<1>3. \A q \in Requests : rpc'[q] = IF q = r THEN step ELSE rpc[q]
  BY DEF Outcome, StorageInv, TypeOK, CoreTypeOK
<1> QED BY <1>1, <1>2, <1>3 DEF StorageInv, HandlersFresh

\* Nothing of the fetcher's state but late, and neither bucket, changes.
LEMMA QuietFetcher ==
  ASSUME StorageInv, UNCHANGED <<storageVars, fetcherVars>>, late' \subseteq Requests
  PROVE  /\ FetcherTypeOK' /\ CycleOwnsList' /\ BucketsAgree'
         /\ IsMap(activityBucket', Requests, ActivityRecords)
         /\ IsMap(pendingBucket', Requests, ActivityRecords)
<1> USE DEF StorageInv, storageVars, fetcherVars
<1>1. FetcherTypeOK'
  BY DEF TypeOK, FetcherTypeOK, IsCheck, IsSnapshot, IsMap
<1>2. CycleOwnsList'
  BY DEF CycleOwnsList
<1>3. BucketsAgree'
  BY DEF BucketsAgree, PendingIsRecorded, PendingIsComplete
<1>4. /\ IsMap(activityBucket', Requests, ActivityRecords)
      /\ IsMap(pendingBucket', Requests, ActivityRecords)
  BY DEF TypeOK
<1> QED BY <1>1, <1>2, <1>3, <1>4

\* Trade: an exchange is called, nothing is stored yet.
LEMMA TradeInv ==
  ASSUME StorageInv, NEW r \in Requests, NEW e \in Exchanges, NEW t \in Tokens,
         Trade(r, e, t), UNCHANGED <<fetcherVars, late>>
  PROVE  StorageInv'
<1>1. PICK a \in ActivityRecords : Outcome(r, "record", a)
  BY DEF Trade, NewActivity, ActivityRecords, ExchangeStatuses, MiningStatuses, TxValues, NoTx
<1>2. SiteTypeOK' /\ ChainTypeOK'
  BY DEF Trade, StorageInv, TypeOK, SiteTypeOK, ChainTypeOK, SiteStates
<1>3. UNCHANGED storageVars /\ rpc[r] = "new"
  BY DEF Trade
<1>4. late' \subseteq Requests
  BY DEF StorageInv, TypeOK, FetcherTypeOK
<1>5. CoreTypeOK' /\ HandlersFresh'
  BY <1>1, <1>3, OutcomeInv DEF CoreTypeOK, HandlersFresh, storageVars
<1> QED BY <1>2, <1>3, <1>4, <1>5, QuietFetcher DEF StorageInv, TypeOK

\* Withdraw: as Trade.
LEMMA WithdrawInv ==
  ASSUME StorageInv, NEW r \in Requests, NEW e \in Exchanges, NEW t \in Tokens,
         Withdraw(r, e, t), UNCHANGED <<fetcherVars, late>>
  PROVE  StorageInv'
<1>1. PICK a \in ActivityRecords : Outcome(r, "record", a)
  BY DEF Withdraw, NewActivity, ActivityRecords, ExchangeStatuses, MiningStatuses, TxValues, NoTx
<1>2. SiteTypeOK' /\ ChainTypeOK'
  BY DEF Withdraw, StorageInv, TypeOK, SiteTypeOK, ChainTypeOK, SiteStates
<1>3. UNCHANGED storageVars /\ rpc[r] = "new"
  BY DEF Withdraw
<1>4. late' \subseteq Requests
  BY DEF StorageInv, TypeOK, FetcherTypeOK
<1>5. CoreTypeOK' /\ HandlersFresh'
  BY <1>1, <1>3, OutcomeInv DEF CoreTypeOK, HandlersFresh, storageVars
<1> QED BY <1>2, <1>3, <1>4, <1>5, QuietFetcher DEF StorageInv, TypeOK

\* Deposit up to the broadcast: the buckets are only read.
LEMMA DepositInv ==
  ASSUME StorageInv, NEW r \in Requests, NEW e \in Exchanges, NEW t \in Tokens,
         Deposit(r, e, t), UNCHANGED <<fetcherVars, late>>
  PROVE  StorageInv'
<1>1. PICK a \in ActivityRecords, step \in {"send", "record"} : Outcome(r, step, a)
  BY DEF Deposit, NewActivity, ActivityRecords, ExchangeStatuses, MiningStatuses, TxValues,
         ZeroTx, TxHash
<1>2. SiteTypeOK' /\ ChainTypeOK'
  BY DEF Deposit, StorageInv, TypeOK, SiteTypeOK, ChainTypeOK
<1>3. UNCHANGED storageVars /\ rpc[r] = "new"
  BY DEF Deposit
<1>4. late' \subseteq Requests
  BY DEF StorageInv, TypeOK, FetcherTypeOK
<1>5. CoreTypeOK' /\ HandlersFresh'
  BY <1>1, <1>3, OutcomeInv DEF CoreTypeOK, HandlersFresh, storageVars
<1> QED BY <1>2, <1>3, <1>4, <1>5, QuietFetcher DEF StorageInv, TypeOK

\* blockchain.Send settles the draft, not a stored record.
LEMMA SendInv ==
  ASSUME StorageInv, NEW r \in Requests, Send(r), UNCHANGED <<fetcherVars, late>>
  PROVE  StorageInv'
<1> USE DEF StorageInv, TypeOK
<1>1. r \in DOMAIN draft /\ IsMap(draft, Requests, ActivityRecords)
  BY DEF HandlersFresh, Send, CoreTypeOK
<1>2. IsMap(draft', Requests, ActivityRecords) /\ DOMAIN draft' = DOMAIN draft
  <2>1. CASE UNCHANGED draft
    BY <1>1, <2>1
  <2>2. CASE draft' = [draft EXCEPT ![r].mst = "failed", ![r].tx = ZeroTx]
    <3>1. draft[r] \in ActivityRecords
      BY <1>1 DEF IsMap
    <3>2. [[draft[r] EXCEPT !.mst = "failed"] EXCEPT !.tx = ZeroTx] \in ActivityRecords
      BY <3>1 DEF ActivityRecords, MiningStatuses, TxValues
    <3> QED BY <1>1, <2>2, <3>2 DEF IsMap
  <2> QED BY <2>1, <2>2 DEF Send
<1>3. /\ rpc' \in [Requests -> RequestSteps]
      /\ rpc[r] = "send"
      /\ \A q \in Requests : rpc'[q] = IF q = r THEN "record" ELSE rpc[q]
  BY DEF Send, CoreTypeOK, RequestSteps
<1>4. SiteTypeOK' /\ ChainTypeOK'
  BY DEF Send, Broadcast, SiteTypeOK, ChainTypeOK, ChainStates
<1>5. UNCHANGED storageVars /\ late' \subseteq Requests
  BY DEF Send, FetcherTypeOK
<1>6. CoreTypeOK' /\ HandlersFresh'
  BY <1>1, <1>2, <1>3, <1>5 DEF CoreTypeOK, HandlersFresh, storageVars
<1> QED BY <1>4, <1>5, <1>6, QuietFetcher

\* Record stores a fresh key, or nothing when it fails; the cycle's list is not
\* concerned.
LEMMA RecordInv ==
  ASSUME StorageInv, NEW r \in Requests, RecordOutcome(r), UNCHANGED <<fetcherVars, late>>
  PROVE  StorageInv'
<1> USE DEF StorageInv, TypeOK
<1>1. /\ r \in DOMAIN draft /\ r \notin DOMAIN activityBucket
      /\ IsMap(draft, Requests, ActivityRecords)
      /\ IsMap(activityBucket, Requests, ActivityRecords)
      /\ IsMap(pendingBucket, Requests, ActivityRecords)
  BY DEF HandlersFresh, RecordOutcome, CoreTypeOK
<1>2. draft[r] \in ActivityRecords
  BY <1>1 DEF IsMap
<1>3. \/ Record(r, draft[r])
      \/ UNCHANGED storageVars
  BY DEF RecordOutcome
<1>4. /\ IsMap(activityBucket', Requests, ActivityRecords)
      /\ DOMAIN activityBucket \subseteq DOMAIN activityBucket'
      /\ DOMAIN activityBucket' \subseteq DOMAIN activityBucket \cup {r}
  BY <1>1, <1>2, <1>3 DEF Record, IsMap, Put, storageVars
<1>5. /\ IsMap(pendingBucket', Requests, ActivityRecords)
      /\ DOMAIN pendingBucket \subseteq DOMAIN pendingBucket'
  BY <1>1, <1>2, <1>3 DEF Record, IsMap, Put, storageVars
<1>6. BucketsAgree'
  <2>1. CASE Record(r, draft[r])
    BY <1>1, <2>1, RecordAgrees
  <2>2. CASE UNCHANGED storageVars
    BY <2>2 DEF storageVars, BucketsAgree, PendingIsRecorded, PendingIsComplete
  <2> QED BY <1>3, <2>1, <2>2
<1>7. IsMap(draft', Requests, ActivityRecords) /\ DOMAIN draft' = DOMAIN draft \ {r}
  BY <1>1 DEF RecordOutcome, IsMap, Delete
<1>8. /\ rpc' \in [Requests -> RequestSteps]
      /\ \A q \in Requests : q # r => rpc'[q] = rpc[q]
      /\ rpc'[r] = "recorded" \/ (rpc'[r] = "lost" /\ UNCHANGED storageVars)
  BY DEF RecordOutcome, CoreTypeOK, RequestSteps
<1>9. CoreTypeOK' /\ HandlersFresh'
  BY <1>1, <1>4, <1>7, <1>8 DEF CoreTypeOK, HandlersFresh, storageVars
<1>10. SiteTypeOK' /\ ChainTypeOK'
  BY DEF RecordOutcome, SiteTypeOK, ChainTypeOK
<1>11. FetcherTypeOK'
  BY DEF FetcherTypeOK, IsCheck, IsSnapshot, IsMap, fetcherVars
<1>12. CycleOwnsList'
  BY <1>5 DEF CycleOwnsList, fetcherVars
<1> QED BY <1>4, <1>5, <1>6, <1>9, <1>10, <1>11, <1>12

\* CancelOrder and the moves of the exchange and of the network.
LEMMA WorldInv ==
  ASSUME StorageInv, UNCHANGED <<storageVars, coreVars, fetcherVars>>,
         late' \subseteq Requests, SiteTypeOK', ChainTypeOK'
  PROVE  StorageInv'
<1>1. CoreTypeOK' /\ HandlersFresh'
  BY DEF StorageInv, TypeOK, CoreTypeOK, HandlersFresh, IsMap, storageVars, coreVars
<1> QED BY <1>1, QuietFetcher DEF StorageInv, TypeOK

\* The moves of the environment touch neither bucket.
LEMMA EnvironmentInv ==
  ASSUME StorageInv, NEW r \in Requests, Environment(r)
  PROVE  StorageInv'
<1> USE DEF StorageInv, TypeOK
<1>1. CASE NetworkMoves(r)
  <2>1. SiteTypeOK' /\ ChainTypeOK'
    BY <1>1 DEF NetworkMoves, ChainStep, Broadcast, SiteTypeOK, ChainTypeOK, ChainStates
  <2> QED BY <1>1, <2>1, WorldInv DEF NetworkMoves, FetcherTypeOK
<1>2. CASE SiteMoves(r)
  <2>1. SiteTypeOK' /\ ChainTypeOK'
    BY <1>2 DEF SiteMoves, SiteStep, Credit, Broadcast, SiteTypeOK, ChainTypeOK,
                SiteStates, ChainStates
  <2> QED BY <1>2, <2>1, WorldInv DEF SiteMoves, FetcherTypeOK
<1>3. CASE Age(r)
  <2>1. SiteTypeOK' /\ ChainTypeOK' /\ late' \subseteq Requests
    BY <1>3 DEF Age, SiteTypeOK, ChainTypeOK, FetcherTypeOK
  <2> QED BY <1>3, <2>1, WorldInv DEF Age
<1> QED BY <1>1, <1>2, <1>3 DEF Environment

\* Every step of a handler.
LEMMA CoreInv ==
  ASSUME StorageInv, NEW r \in Requests, Core(r)
  PROVE  StorageInv'
<1>1. CASE CancelOrder(r)
  <2>1. SiteTypeOK' /\ ChainTypeOK' /\ late' \subseteq Requests
    BY <1>1 DEF Core, CancelOrder, StorageInv, TypeOK, FetcherTypeOK, SiteTypeOK, ChainTypeOK,
                SiteStates
  <2> QED BY <1>1, <2>1, WorldInv DEF CancelOrder, Core
<1>2. CASE CoreStep(r)
  BY <1>2, TradeInv, DepositInv, WithdrawInv, SendInv, RecordInv
     DEF CoreStep, TradeHandler, DepositHandler, WithdrawHandler, Core
<1> QED BY <1>1, <1>2 DEF Core

------------------------------------------------------------------------------
\* Fresh locals of a double check.
LEMMA UnstartedCheck == IsCheck(Unstarted) /\ IsCheck(Unstarted)'
<1>1. IsMap(Empty, DOMAIN list, Statuses) /\ IsMap(Empty, DOMAIN list', Statuses)
  BY DEF IsMap, Empty
<1>2. NoBalances \in Balances
  BY DEF NoBalances, Balances
<1> QED BY <1>1, <1>2 DEF IsCheck, Unstarted, CheckSteps

\* A round that starts asks only about listed activities.
LEMMA StartedCheck ==
  ASSUME NEW s
  PROVE  IsCheck(Started(s, list)) /\ IsCheck(Started(s, list))'
<1>1. IsMap(Empty, DOMAIN list, Statuses) /\ IsMap(Empty, DOMAIN list', Statuses)
  BY DEF IsMap, Empty
<1>2. NoBalances \in Balances
  BY DEF NoBalances, Balances
<1>3. ASSUME NEW l
      PROVE  /\ DOMAIN Started(s, l) = {"step", "left", "statuses", "preStatuses", "bal"}
             /\ Started(s, l).step = "pre" /\ Started(s, l).left = Targets(s, l)
             /\ Started(s, l).statuses = Empty /\ Started(s, l).preStatuses = Empty
             /\ Started(s, l).bal = NoBalances
  BY DEF Started, Unstarted
<1>4. Targets(s, list) \subseteq DOMAIN list /\ Targets(s, list') \subseteq DOMAIN list'
  BY DEF Targets
<1> QED BY <1>1, <1>2, <1>3, <1>4 DEF IsCheck, CheckSteps

\* The parts of the invariant the fetcher's steps do not touch.
LEMMA QuietCore ==
  ASSUME StorageInv, UNCHANGED otherVars, DOMAIN activityBucket' = DOMAIN activityBucket
  PROVE  CoreTypeOK' /\ HandlersFresh' /\ SiteTypeOK' /\ ChainTypeOK' /\ late' \subseteq Requests
  BY DEF StorageInv, TypeOK, CoreTypeOK, HandlersFresh, SiteTypeOK, ChainTypeOK,
         FetcherTypeOK, otherVars, IsMap

\* A step that leaves the buckets alone.
LEMMA QuietStorage ==
  ASSUME StorageInv, UNCHANGED <<storageVars, otherVars>>, FetcherTypeOK', CycleOwnsList'
  PROVE  StorageInv'
<1>1. DOMAIN activityBucket' = DOMAIN activityBucket
  BY DEF storageVars
<1>2. BucketsAgree'
  BY DEF StorageInv, BucketsAgree, PendingIsRecorded, PendingIsComplete, storageVars
<1>3. /\ IsMap(activityBucket', Requests, ActivityRecords)
      /\ IsMap(pendingBucket', Requests, ActivityRecords)
  BY DEF StorageInv, TypeOK, storageVars
<1> QED BY <1>1, <1>2, <1>3, QuietCore DEF StorageInv, TypeOK

\* The list a cycle starts with is the pending bucket itself.
LEMMA StartCycleInv ==
  ASSUME StorageInv, StartCycle
  PROVE  StorageInv'
<1> USE DEF StorageInv, TypeOK
<1>1. list' = pendingBucket /\ todo = {} /\ todo' = {}
  BY DEF StartCycle, GetPendingActivities, CycleOwnsList
<1>2. /\ check' = [s \in Sources |-> check'[s]]
      /\ \A s \in Sources : IsCheck(check[s])'
  <2>1. check' = [s \in Sources |-> IF s = Blockchain THEN Unstarted ELSE Started(s, list')]
    BY <1>1 DEF StartCycle, GetPendingActivities
  <2>2. \A s \in Sources : check'[s] = Unstarted \/ check'[s] = Started(s, list')
    BY <2>1
  <2>3. ASSUME NEW s \in Sources PROVE IsCheck(check[s])'
    BY <2>2, UnstartedCheck, StartedCheck DEF IsCheck
  <2> QED BY <2>1, <2>3
<1>3. FetcherTypeOK'
  BY <1>1, <1>2 DEF StartCycle, FetcherTypeOK, CycleSteps, IsSnapshot, IsMap, otherVars
<1>4. CycleOwnsList'
  BY <1>1 DEF StartCycle, CycleOwnsList, storageVars
<1> QED BY <1>3, <1>4, QuietStorage DEF StartCycle

\* A step of one double check.
LEMMA CheckStepInv ==
  ASSUME StorageInv, NEW s \in Sources, NEW c, IsCheck(c),
         check' = [check EXCEPT ![s] = c],
         UNCHANGED <<fpc, list, todo, valid, snapshot, storageVars, otherVars>>
  PROVE  StorageInv'
<1> USE DEF StorageInv, TypeOK
<1>1. \A q \in Sources : check'[q] = IF q = s THEN c ELSE check[q]
  BY DEF FetcherTypeOK
<1>2. check' = [q \in Sources |-> check'[q]]
  BY DEF FetcherTypeOK
<1>3. \A q \in Sources : IsCheck(check[q])'
  BY <1>1 DEF IsCheck, FetcherTypeOK
<1>4. FetcherTypeOK'
  BY <1>2, <1>3 DEF FetcherTypeOK, IsSnapshot, IsMap, otherVars
<1>5. CycleOwnsList'
  BY DEF CycleOwnsList, storageVars
<1> QED BY <1>4, <1>5, QuietStorage

\* Every step of a double check.
LEMMA SourceStepInv ==
  ASSUME StorageInv, NEW s \in Sources, SourceStep(s)
  PROVE  StorageInv'
<1> USE DEF StorageInv, TypeOK
<1>0. IsCheck(check[s])
  BY DEF FetcherTypeOK
<1>1. ASSUME NEW r \in Requests, FetchStatus(s, r) PROVE StorageInv'
  <2>1. PICK result \in Results(s, r, list[r], check[s].statuses) :
          check' = [check EXCEPT ![s].left = @ \ {r}, ![s].statuses = result]
    BY <1>1 DEF FetchStatus
  <2>2. r \in DOMAIN list
    BY <1>0, <1>1 DEF FetchStatus, IsCheck
  <2>3. IsMap(result, DOMAIN list, Statuses)
    BY <2>2, ResultsType
  <2> DEFINE c == [[check[s] EXCEPT !.left = @ \ {r}] EXCEPT !.statuses = result]
  <2>5. IsCheck(c)
    BY <1>0, <2>3 DEF IsCheck
  <2>6. check' = [check EXCEPT ![s] = c]
    BY <2>1 DEF FetcherTypeOK
  <2> HIDE DEF c
  <2> QED BY <1>1, <2>5, <2>6, CheckStepInv DEF FetchStatus
<1>2. CASE FetchBalance(s)
  <2>1. PICK b \in FetchBalances(s) :
          check' = [check EXCEPT ![s] =
            [step |-> "post", left |-> Targets(s, list), statuses |-> Empty,
             preStatuses |-> check[s].statuses, bal |-> b]]
    BY <1>2 DEF FetchBalance
  <2>2. b \in Balances
    <3>1. ReserveBalances \in SUBSET Requests /\ ExchangeBalances \in SUBSET Requests
      BY DEF ReserveBalances, ExchangeBalances
    <3>2. \A v \in BOOLEAN, x \in SUBSET Requests : [valid |-> v, effects |-> x] \in Balances
      BY DEF Balances
    <3>3. FetchBalanceData \subseteq Balances /\ FetchEBalanceData \subseteq Balances
      BY <3>1, <3>2 DEF FetchBalanceData, FetchEBalanceData
    <3> QED BY <2>1, <3>3 DEF FetchBalances
  <2>3. IsMap(Empty, DOMAIN list, Statuses) /\ Targets(s, list) \subseteq DOMAIN list
    BY DEF IsMap, Empty, Targets
  <2>4. IsCheck([step |-> "post", left |-> Targets(s, list), statuses |-> Empty,
                 preStatuses |-> check[s].statuses, bal |-> b])
    BY <1>0, <2>2, <2>3 DEF IsCheck, CheckSteps
  <2> QED BY <1>2, <2>1, <2>4, CheckStepInv DEF FetchBalance
<1>3. CASE Compare(s)
  <2>1. CASE check' = [check EXCEPT ![s] = Started(s, list)]
    BY <1>3, <2>1, StartedCheck, CheckStepInv DEF Compare
  <2>2. CASE check' = [check EXCEPT ![s] = [check[s] EXCEPT !.step = "done", !.preStatuses = Empty]]
    <3>1. IsMap(Empty, DOMAIN list, Statuses)
      BY DEF IsMap, Empty
    <3>3. IsCheck([check[s] EXCEPT !.step = "done", !.preStatuses = Empty])
      BY <1>0, <3>1 DEF IsCheck, CheckSteps
    <3> QED BY <1>3, <2>2, <3>3, CheckStepInv DEF Compare
  <2> QED BY <1>3, <2>1, <2>2 DEF Compare
<1> QED BY <1>1, <1>2, <1>3 DEF SourceStep

\* Copying the transactions the exchanges told keeps the list's keys.
LEMMA JoinExchangesInv ==
  ASSUME StorageInv, JoinExchanges
  PROVE  StorageInv'
<1> USE DEF StorageInv, TypeOK
<1>1. DOMAIN list' = DOMAIN list
  BY DEF JoinExchanges
<1>2. IsMap(list', Requests, ActivityRecords)
  <2>1. ASSUME NEW r \in DOMAIN list PROVE list'[r] \in ActivityRecords
    <3>1. list[r] \in ActivityRecords
      BY DEF FetcherTypeOK, IsMap
    <3>2. list'[r] = [list[r] EXCEPT !.tx = LearnTx(r)]
      BY DEF JoinExchanges
    <3> QED BY <3>1, <3>2, SettleType DEF ActivityRecords
  <2> QED BY <1>1, <2>1 DEF JoinExchanges, FetcherTypeOK, IsMap
<1>3. \A q \in Sources : check'[q] = IF q = Blockchain THEN Started(Blockchain, list') ELSE check[q]
  BY DEF JoinExchanges, FetcherTypeOK
<1>4. \A q \in Sources : IsCheck(check[q])'
  <2>1. IsCheck(Started(Blockchain, list))'
    BY StartedCheck
  <2> QED BY <1>1, <1>3, <2>1 DEF IsCheck, FetcherTypeOK
<1>5. FetcherTypeOK'
  BY <1>1, <1>2, <1>4 DEF JoinExchanges, FetcherTypeOK, CycleSteps, IsSnapshot, IsMap, otherVars
<1>6. CycleOwnsList'
  BY <1>1 DEF JoinExchanges, CycleOwnsList, storageVars
<1> QED BY <1>5, <1>6, QuietStorage DEF JoinExchanges

\* PersistSnapshot starts with every listed activity still to be written.
LEMMA BeginPersistInv ==
  ASSUME StorageInv, BeginPersist
  PROVE  StorageInv'
<1> USE DEF StorageInv, TypeOK
<1>1. \A q \in Sources : IsCheck(check[q])'
  BY DEF BeginPersist, IsCheck, FetcherTypeOK
<1>2. valid' \in BOOLEAN
  BY DEF BeginPersist
<1>3. FetcherTypeOK'
  BY <1>1, <1>2 DEF BeginPersist, FetcherTypeOK, CycleSteps, IsSnapshot, IsMap, otherVars
<1>4. CycleOwnsList'
  BY DEF BeginPersist, CycleOwnsList, storageVars
<1> QED BY <1>3, <1>4, QuietStorage DEF BeginPersist

\* The write-back of one activity finds it in the pending bucket.
LEMMA PersistInv ==
  ASSUME StorageInv, NEW r \in Requests, Persist(r)
  PROVE  StorageInv'
<1> USE DEF StorageInv, TypeOK
<1>1. /\ r \in DOMAIN list /\ r \in DOMAIN pendingBucket /\ r \in DOMAIN activityBucket
      /\ Settle(r) \in ActivityRecords
  BY SettleType DEF Persist, FetcherTypeOK, CycleOwnsList, BucketsAgree, PendingIsRecorded
<1>2. IsMap(list', Requests, ActivityRecords) /\ DOMAIN list' = DOMAIN list
  BY <1>1 DEF Persist, FetcherTypeOK, IsMap
<1>3. \A q \in Sources : IsCheck(check[q])'
  BY <1>2 DEF Persist, IsCheck, FetcherTypeOK
<1>4. valid' \in BOOLEAN
  BY DEF Persist
<1>5. FetcherTypeOK'
  BY <1>2, <1>3, <1>4 DEF Persist, FetcherTypeOK, CycleSteps, IsSnapshot, IsMap, otherVars
<1>6. CASE UNCHANGED storageVars
  <2>1. CycleOwnsList'
    BY <1>6 DEF Persist, CycleOwnsList, storageVars
  <2> QED BY <1>5, <1>6, <2>1, QuietStorage DEF Persist
<1>7. CASE UpdateActivity(r, Settle(r))
  <2>1. BucketsAgree'
    BY <1>1, <1>7, UpdateAgrees
  <2>2. /\ IsMap(activityBucket', Requests, ActivityRecords)
        /\ DOMAIN activityBucket' = DOMAIN activityBucket
    BY <1>1, <1>7 DEF UpdateActivity, IsMap, Put
  <2>3. /\ IsMap(pendingBucket', Requests, ActivityRecords)
        /\ DOMAIN pendingBucket \ {r} \subseteq DOMAIN pendingBucket'
    BY <1>1, <1>7 DEF UpdateActivity, IsMap, Put, Delete
  <2>4. CycleOwnsList'
    BY <2>3 DEF Persist, CycleOwnsList
  <2>5. CoreTypeOK' /\ HandlersFresh' /\ SiteTypeOK' /\ ChainTypeOK'
    BY <2>2, QuietCore DEF Persist
  <2> QED BY <1>5, <2>1, <2>2, <2>3, <2>4, <2>5
<1> QED BY <1>6, <1>7 DEF Persist

\* StoreAuthSnapshot ends the cycle; nothing is left to be written.
LEMMA StoreInv ==
  ASSUME StorageInv, StoreAuthSnapshot
  PROVE  StorageInv'
<1> USE DEF StorageInv, TypeOK
<1>1. list' = Empty /\ IsMap(list', Requests, ActivityRecords) /\ todo' = {}
  BY DEF StoreAuthSnapshot, IsMap, Empty
<1>2. \A q \in Sources : IsCheck(check[q])'
  <2>1. \A q \in Sources : check'[q] = Unstarted
    BY DEF StoreAuthSnapshot
  <2> QED BY <2>1, UnstartedCheck DEF IsCheck
<1>3. IsSnapshot(snapshot)'
  <2>1. CASE UNCHANGED snapshot
    BY <2>1 DEF FetcherTypeOK, IsSnapshot
  <2>2. CASE snapshot' = [valid |-> valid, ebal |-> EBalances, rbal |-> check[Blockchain].bal,
                 pendings |-> [r \in {q \in DOMAIN list : IsPending(list[q])} |-> list[r]]]
    <3>1. check[Blockchain].bal \in Balances /\ \A e \in Exchanges : check[e].bal \in Balances
      BY DEF FetcherTypeOK, IsCheck, Sources
    <3>2. EBalances \in [Exchanges -> Balances]
      BY <3>1 DEF EBalances, FetcherTypeOK, IsSnapshot
    <3>3. IsMap([r \in {q \in DOMAIN list : IsPending(list[q])} |-> list[r]],
                Requests, ActivityRecords)
      BY DEF IsMap, FetcherTypeOK
    <3>4. valid \in BOOLEAN
      BY DEF FetcherTypeOK
    <3> QED BY <2>2, <3>1, <3>2, <3>3, <3>4 DEF IsSnapshot
  <2> QED BY <2>1, <2>2 DEF StoreAuthSnapshot
<1>4. FetcherTypeOK'
  BY <1>1, <1>2, <1>3 DEF StoreAuthSnapshot, FetcherTypeOK, CycleSteps, otherVars
<1>5. CycleOwnsList'
  BY <1>1 DEF StoreAuthSnapshot, CycleOwnsList
<1> QED BY <1>4, <1>5, QuietStorage DEF StoreAuthSnapshot

\* A restart forgets drafts and the cycle; the buckets are as they were.
LEMMA CrashInv ==
  ASSUME StorageInv, Crash
  PROVE  StorageInv'
<1> USE DEF StorageInv, TypeOK
<1>1. /\ list' = Empty /\ draft' = Empty /\ todo' = {}
      /\ IsMap(Empty, Requests, ActivityRecords)
  BY DEF Crash, CoreCrash, FetcherCrash, IsMap, Empty
<1>2. \A q \in Sources : IsCheck(check[q])'
  <2>1. \A q \in Sources : check'[q] = Unstarted
    BY DEF Crash, FetcherCrash
  <2> QED BY <2>1, UnstartedCheck DEF IsCheck
<1>3. FetcherTypeOK'
  BY <1>1, <1>2 DEF Crash, FetcherCrash, FetcherTypeOK, CycleSteps, IsSnapshot
<1>4. CycleOwnsList'
  BY <1>1 DEF Crash, FetcherCrash, CycleOwnsList
<1>5. CoreTypeOK' /\ HandlersFresh'
  BY <1>1 DEF Crash, CoreCrash, CoreTypeOK, HandlersFresh, RequestSteps, storageVars
<1>6. BucketsAgree' /\ SiteTypeOK' /\ ChainTypeOK'
  BY DEF Crash, BucketsAgree, PendingIsRecorded, PendingIsComplete, storageVars,
         SiteTypeOK, ChainTypeOK
<1>7. /\ IsMap(activityBucket', Requests, ActivityRecords)
      /\ IsMap(pendingBucket', Requests, ActivityRecords)
  BY DEF Crash, storageVars
<1> QED BY <1>3, <1>4, <1>5, <1>6, <1>7

\* Stuttering steps.
LEMMA StutterInv == StorageInv /\ UNCHANGED vars => StorageInv'
<1> SUFFICES ASSUME StorageInv, UNCHANGED vars PROVE StorageInv'
  OBVIOUS
<1> QED BY WorldInv DEF vars, StorageInv, TypeOK, FetcherTypeOK, SiteTypeOK, ChainTypeOK

\* The inductive step: one case per actor.
LEMMA NextInv == StorageInv /\ [Next]_vars => StorageInv'
<1> SUFFICES ASSUME StorageInv, [Next]_vars PROVE StorageInv'
  OBVIOUS
<1>1. CASE \E r \in Requests : Core(r) \/ Environment(r)
  BY <1>1, CoreInv, EnvironmentInv
<1>2. CASE FetcherStep
  BY <1>2, StartCycleInv, SourceStepInv, JoinExchangesInv, BeginPersistInv, PersistInv, StoreInv
  DEF FetcherStep
<1>3. CASE Crash
  BY <1>3, CrashInv
<1>4. CASE UNCHANGED vars
  BY <1>4, StutterInv
<1> QED BY <1>1, <1>2, <1>3, <1>4 DEF Next

\* The inductive invariant holds in every reachable state of the server.
THEOREM StorageInvHolds == Spec => []StorageInv
  BY InitInv, NextInv, PTL DEF Spec

\* Every variable keeps its type: no operation stores a record, a status or a
\* snapshot of another shape than the next reader expects.
THEOREM TypeCorrect == Spec => []TypeOK
<1>1. StorageInv => TypeOK
  BY DEF StorageInv
<1> QED BY <1>1, StorageInvHolds, PTL

\* The pending bucket is exactly the pending part of the activity bucket, with
\* any number of concurrent requests and exchanges and whatever fails.
THEOREM BucketsAlwaysAgree == Spec => []BucketsAgree
<1>1. StorageInv => BucketsAgree
  BY DEF StorageInv
<1> QED BY <1>1, StorageInvHolds, PTL

------------------------------------------------------------------------------
\* SettledSidesStay

\* Nothing is listed and nobody was asked when the server starts.
LEMMA StayInit == Init => StayInv
<1> SUFFICES ASSUME Init PROVE StayInv
  OBVIOUS
<1>1. DOMAIN list = {} /\ todo = {} /\ fpc = "idle"
  BY DEF Init, FetcherInit, Empty
<1>2. check[Blockchain].left = {} /\ DOMAIN check[Blockchain].statuses = {}
  BY DEF Init, FetcherInit, Unstarted, Sources, Empty
<1> QED BY <1>1, <1>2, InitInv DEF StayInv, ListIsFresh, NoTradeOnChain

\* A step that keeps the list and the known entries of the activity bucket.
LEMMA StayQuiet ==
  ASSUME StayInv, StorageInv', UNCHANGED <<fpc, list, check, todo>>,
         \A r \in DOMAIN activityBucket : activityBucket'[r] = activityBucket[r]
  PROVE  StayInv'
<1>1. fpc \in {"exchanges", "blockchain"} => DOMAIN list \subseteq DOMAIN activityBucket
  BY DEF StayInv, StorageInv, CycleOwnsList, BucketsAgree, PendingIsRecorded
<1>2. todo \subseteq DOMAIN activityBucket
  BY DEF StayInv, StorageInv, CycleOwnsList, BucketsAgree, PendingIsRecorded
<1>3. ListIsFresh'
  BY <1>1, <1>2 DEF StayInv, ListIsFresh, SameStatuses
<1> QED BY <1>3 DEF StayInv, NoTradeOnChain

\* The handlers never touch a stored record.
LEMMA CoreKeepsRecords ==
  ASSUME StorageInv, NEW r \in Requests, Core(r)
  PROVE  \A q \in DOMAIN activityBucket : activityBucket'[q] = activityBucket[q]
<1>1. CASE RecordOutcome(r)
  <2>1. r \notin DOMAIN activityBucket
    BY <1>1 DEF StorageInv, HandlersFresh, RecordOutcome
  <2> QED BY <1>1, <2>1 DEF RecordOutcome, Record, Put, storageVars
<1>2. CASE CancelOrder(r)
  BY <1>2 DEF CancelOrder, storageVars
<1>3. CASE CoreStep(r) /\ ~RecordOutcome(r)
  BY <1>3
     DEF CoreStep, TradeHandler, DepositHandler, WithdrawHandler, Trade, Deposit, Withdraw, Send, storageVars
<1> QED BY <1>1, <1>2, <1>3 DEF Core

\* A round about the network asks about no trade.
LEMMA StartedTargets ==
  ASSUME NEW l
  PROVE  /\ \A r \in Started(Blockchain, l).left : l[r].action # "trade"
         /\ DOMAIN Started(Blockchain, l).statuses = {}
  BY DEF Started, Unstarted, Targets, Empty

\* A step of a double check leaves the list alone.
LEMMA StaySource ==
  ASSUME StayInv, StorageInv', NEW s \in Sources, SourceStep(s)
  PROVE  StayInv'
<1>1. UNCHANGED <<fpc, list, todo, storageVars>>
  BY DEF SourceStep, FetchStatus, FetchBalance, Compare
<1>2. ListIsFresh'
  BY <1>1 DEF StayInv, ListIsFresh, SameStatuses, storageVars
<1>3. Blockchain \in Sources
  BY DEF Sources
<1>4. IsCheck(check[Blockchain])
  BY <1>3 DEF StayInv, StorageInv, TypeOK, FetcherTypeOK
<1>5. NoTradeOnChain'
  <2>1. CASE s # Blockchain
    <3>1. check'[Blockchain] = check[Blockchain]
      BY <1>3, <2>1 DEF SourceStep, FetchStatus, FetchBalance, Compare,
                        StayInv, StorageInv, TypeOK, FetcherTypeOK
    <3> QED BY <1>1, <3>1 DEF StayInv, NoTradeOnChain
  <2>2. CASE s = Blockchain /\ \E r \in Requests : FetchStatus(s, r)
    <3>1. PICK r \in Requests : FetchStatus(s, r)
      BY <2>2
    <3>2. PICK result \in Results(s, r, list[r], check[s].statuses) :
            check' = [check EXCEPT ![s].left = @ \ {r}, ![s].statuses = result]
      BY <3>1 DEF FetchStatus
    <3>3. /\ check'[Blockchain].left = check[Blockchain].left \ {r}
          /\ check'[Blockchain].statuses = result
      BY <1>3, <1>4, <2>2, <3>2 DEF IsCheck, StayInv, StorageInv, TypeOK, FetcherTypeOK
    <3>4. r \in check[Blockchain].left
      BY <2>2, <3>1 DEF FetchStatus
    <3>5. DOMAIN result \subseteq DOMAIN check[Blockchain].statuses \cup {r}
      BY <2>2 DEF Results, BlockchainResults, Put
    <3> QED BY <1>1, <3>3, <3>4, <3>5 DEF StayInv, NoTradeOnChain
  <2>3. CASE s = Blockchain /\ FetchBalance(s)
    <3>1. /\ check'[Blockchain].left = Targets(Blockchain, list)
          /\ check'[Blockchain].statuses = Empty
      BY <1>3, <2>3 DEF FetchBalance, StayInv, StorageInv, TypeOK, FetcherTypeOK
    <3>2. /\ \A r \in Targets(Blockchain, list) : list[r].action # "trade"
          /\ DOMAIN Empty = {}
      BY DEF Targets, Empty
    <3> QED BY <1>1, <3>1, <3>2 DEF NoTradeOnChain
  <2>4. CASE s = Blockchain /\ Compare(s)
    <3>1. CASE check' = [check EXCEPT ![s] = Started(s, list)]
      <4>1. check'[Blockchain] = Started(Blockchain, list)
        BY <1>3, <2>4, <3>1 DEF StayInv, StorageInv, TypeOK, FetcherTypeOK
      <4> QED BY <1>1, <4>1, StartedTargets DEF NoTradeOnChain
    <3>2. CASE check' = [check EXCEPT ![s] = [check[s] EXCEPT !.step = "done", !.preStatuses = Empty]]
      <4>1. /\ check'[Blockchain].left = check[Blockchain].left
            /\ check'[Blockchain].statuses = check[Blockchain].statuses
        BY <1>3, <1>4, <2>4, <3>2 DEF IsCheck, StayInv, StorageInv, TypeOK, FetcherTypeOK
      <4> QED BY <1>1, <4>1 DEF StayInv, NoTradeOnChain
    <3> QED BY <2>4, <3>1, <3>2 DEF Compare
  <2> QED BY <2>1, <2>2, <2>3, <2>4 DEF SourceStep
<1> QED BY <1>2, <1>5 DEF StayInv

\* The cycle's own steps that are not status calls.
LEMMA StayCycle ==
  ASSUME StayInv, StorageInv'
  PROVE  /\ StartCycle => StayInv'
         /\ JoinExchanges => StayInv'
         /\ BeginPersist => StayInv'
         /\ StoreAuthSnapshot => StayInv'
         /\ Crash => StayInv'
<1>0. Blockchain \in Sources
  BY DEF Sources
<1>a. Unstarted.left = {} /\ DOMAIN Unstarted.statuses = {}
  BY DEF Unstarted, Empty
<1>1. ASSUME StartCycle PROVE StayInv'
  <2>1. list' = pendingBucket /\ todo' = {} /\ UNCHANGED activityBucket
    BY <1>1 DEF StartCycle, GetPendingActivities, StayInv, StorageInv, CycleOwnsList, storageVars
  <2>2. \A r \in DOMAIN list' : list'[r] = activityBucket'[r]
    BY <2>1 DEF StayInv, StorageInv, BucketsAgree, PendingIsRecorded
  <2>3. check'[Blockchain] = Unstarted
    BY <1>0, <1>1 DEF StartCycle
  <2> QED BY <1>a, <2>1, <2>2, <2>3 DEF StayInv, ListIsFresh, SameStatuses, NoTradeOnChain
<1>2. ASSUME JoinExchanges PROVE StayInv'
  <2>1. /\ fpc = "exchanges" /\ todo' = {} /\ UNCHANGED activityBucket
        /\ DOMAIN list' = DOMAIN list
        /\ list' = [r \in DOMAIN list |-> [list[r] EXCEPT !.tx = LearnTx(r)]]
    BY <1>2 DEF JoinExchanges, StayInv, StorageInv, CycleOwnsList, storageVars
  <2>2. ASSUME NEW r \in DOMAIN list
        PROVE  /\ list'[r].action = list[r].action
               /\ list'[r].est = list[r].est
               /\ list'[r].mst = list[r].mst
    <3>1. list[r] \in ActivityRecords
      BY DEF StayInv, StorageInv, TypeOK, FetcherTypeOK, IsMap
    <3> QED BY <2>1, <3>1 DEF ActivityRecords
  <2>3. ListIsFresh'
    BY <2>1, <2>2 DEF StayInv, ListIsFresh, SameStatuses
  <2>4. check'[Blockchain] = Started(Blockchain, list')
    BY <1>0, <1>2 DEF JoinExchanges, StayInv, StorageInv, TypeOK, FetcherTypeOK
  <2> QED BY <2>3, <2>4, StartedTargets DEF StayInv, NoTradeOnChain
<1>3. ASSUME BeginPersist PROVE StayInv'
  BY <1>3 DEF BeginPersist, StayInv, ListIsFresh, SameStatuses, NoTradeOnChain, storageVars
<1>4. ASSUME StoreAuthSnapshot PROVE StayInv'
  <2>1. todo' = {} /\ fpc' = "idle" /\ check'[Blockchain] = Unstarted
    BY <1>0, <1>4 DEF StoreAuthSnapshot
  <2> QED BY <1>a, <2>1 DEF StayInv, ListIsFresh, NoTradeOnChain
<1>5. ASSUME Crash PROVE StayInv'
  <2>1. todo' = {} /\ fpc' = "idle" /\ check'[Blockchain] = Unstarted
    BY <1>0, <1>5 DEF Crash, FetcherCrash
  <2> QED BY <1>a, <2>1 DEF StayInv, ListIsFresh, NoTradeOnChain
<1> QED BY <1>1, <1>2, <1>3, <1>4, <1>5

\* What Settle keeps of the record it starts from.
LEMMA SettleKeeps ==
  ASSUME StayInv, NEW r \in DOMAIN list
  PROVE  /\ Settle(r).action = list[r].action
         /\ list[r].est \in {"done", "failed"} => Settle(r).est = list[r].est
         /\ list[r].mst \in {"mined", "failed"} => Settle(r).mst = list[r].mst
<1>1. list[r] \in ActivityRecords
  BY DEF StayInv, StorageInv, TypeOK, FetcherTypeOK, IsMap
<1>2. list[r].est \in {"done", "failed"} => ~IsExchangePending(list[r])
  BY <1>1 DEF IsExchangePending, ExchangeWaits, ActivityRecords
<1> DEFINE a == [list[r] EXCEPT
                   !.est = IF HasEStatus(r) /\ IsExchangePending(list[r])
                             THEN estatus(r).est ELSE list[r].est,
                   !.tx  = LearnTx(r)]
<1>3. a.action = list[r].action /\ a.mst = list[r].mst
  BY <1>1 DEF ActivityRecords
<1>4. list[r].est \in {"done", "failed"} => a.est = list[r].est
  BY <1>1, <1>2 DEF ActivityRecords
<1>5. HasBStatus(r) => list[r].action # "trade"
  BY DEF StayInv, NoTradeOnChain, HasBStatus
<1>6. list[r].action # "trade" /\ list[r].mst \in {"mined", "failed"} => ~IsBlockchainPending(a)
  <2> HIDE DEF a
  <2> QED BY <1>1, <1>3 DEF IsBlockchainPending, MiningWaits, ActivityRecords
<1>7. Settle(r) = [a EXCEPT !.mst = IF HasBStatus(r) /\ IsBlockchainPending(a)
                                      THEN bstatus(r).mst ELSE a.mst]
  BY DEF Settle
<1>8. DOMAIN a = {"action", "dest", "token", "est", "mst", "tx"}
  BY <1>1 DEF ActivityRecords
<1> HIDE DEF a
<1> QED BY <1>3, <1>4, <1>5, <1>6, <1>7, <1>8

\* The write-back of one activity leaves the others as listed.
LEMMA StayPersist ==
  ASSUME StayInv, StorageInv', NEW r \in Requests, Persist(r)
  PROVE  StayInv'
<1>1. /\ todo' = todo \ {r} /\ fpc = "persist" /\ fpc' = "persist" /\ r \in DOMAIN list
      /\ check' = check
      /\ list' = [list EXCEPT ![r] = Settle(r)]
  BY DEF Persist, StayInv, StorageInv, TypeOK, FetcherTypeOK
<1>2. \A q \in DOMAIN list : q # r => list'[q] = list[q]
  BY <1>1
<1>3. \A q \in DOMAIN activityBucket : q # r => activityBucket'[q] = activityBucket[q]
  BY DEF Persist, UpdateActivity, Put, storageVars
<1>4. todo \subseteq DOMAIN list /\ todo \subseteq DOMAIN activityBucket
  BY DEF StayInv, StorageInv, TypeOK, FetcherTypeOK, CycleOwnsList, BucketsAgree, PendingIsRecorded
<1>5. ListIsFresh'
  BY <1>1, <1>2, <1>3, <1>4 DEF StayInv, ListIsFresh, SameStatuses
<1>6. \A q \in DOMAIN list : list'[q].action = list[q].action
  <2>1. list'[r].action = list[r].action
    BY <1>1, SettleKeeps DEF StayInv, StorageInv, TypeOK, FetcherTypeOK
  <2> QED BY <1>1, <1>2, <2>1
<1>7. check[Blockchain].left \cup DOMAIN check[Blockchain].statuses \subseteq DOMAIN list
  BY DEF StayInv, StorageInv, TypeOK, FetcherTypeOK, IsCheck, IsMap, Sources
<1>8. NoTradeOnChain'
  BY <1>1, <1>6, <1>7 DEF StayInv, NoTradeOnChain
<1> QED BY <1>5, <1>8 DEF StayInv

\* The inductive step: one case per actor.
LEMMA StayNext == StayInv /\ [Next]_vars => StayInv'
<1> SUFFICES ASSUME StayInv, [Next]_vars PROVE StayInv'
  OBVIOUS
<1>1. StorageInv'
  BY NextInv DEF StayInv
<1>2. ASSUME NEW r \in Requests, Core(r) PROVE StayInv'
  <2>1. \A q \in DOMAIN activityBucket : activityBucket'[q] = activityBucket[q]
    BY <1>2, CoreKeepsRecords DEF StayInv
  <2> QED BY <1>1, <1>2, <2>1, StayQuiet DEF Core, fetcherVars
<1>3. ASSUME NEW r \in Requests, Environment(r) PROVE StayInv'
  BY <1>1, <1>3, StayQuiet
  DEF Environment, NetworkMoves, SiteMoves, Age, fetcherVars, storageVars
<1>4. CASE FetcherStep
  BY <1>1, <1>4, StayCycle, StaySource, StayPersist DEF FetcherStep
<1>5. CASE Crash
  BY <1>1, <1>5, StayCycle
<1>6. CASE UNCHANGED vars
  BY <1>1, <1>6, StayQuiet DEF vars, fetcherVars, storageVars
<1> QED BY <1>2, <1>3, <1>4, <1>5, <1>6 DEF Next

\* The body of SettledSidesStay.
SettledSidesKept ==
  \A r \in DOMAIN activityBucket :
    /\ activityBucket[r].est \in {"done", "failed"} =>
         activityBucket'[r].est = activityBucket[r].est
    /\ activityBucket[r].mst \in {"mined", "failed"} =>
         activityBucket'[r].mst = activityBucket[r].mst

\* Only the write-back of the cycle changes a stored record.
LEMMA StayStep == StayInv /\ [Next]_vars => SettledSidesKept
<1> SUFFICES ASSUME StayInv, [Next]_vars PROVE SettledSidesKept
  OBVIOUS
<1>1. ASSUME NEW r \in Requests, Persist(r) PROVE SettledSidesKept
  <2>1. r \in todo /\ r \in DOMAIN list
    BY <1>1 DEF Persist, StayInv, StorageInv, TypeOK, FetcherTypeOK
  <2>2. SameStatuses(r)
    BY <2>1 DEF StayInv, ListIsFresh
  <2>3. \A q \in DOMAIN activityBucket :
          activityBucket'[q] = activityBucket[q] \/ (q = r /\ activityBucket'[q] = Settle(r))
    BY <1>1 DEF Persist, UpdateActivity, Put, storageVars
  <2> QED BY <2>1, <2>2, <2>3, SettleKeeps DEF SettledSidesKept, SameStatuses
<1>2. ASSUME NEW r \in Requests, Core(r) PROVE SettledSidesKept
  BY <1>2, CoreKeepsRecords DEF StayInv, SettledSidesKept
<1>3. ASSUME NEW r \in Requests, Environment(r) PROVE SettledSidesKept
  BY <1>3 DEF Environment, NetworkMoves, SiteMoves, Age, storageVars, SettledSidesKept
<1>4. ASSUME NEW s \in Sources, SourceStep(s) PROVE SettledSidesKept
  BY <1>4 DEF SourceStep, FetchStatus, FetchBalance, Compare, storageVars, SettledSidesKept
<1>5. CASE StartCycle \/ JoinExchanges \/ BeginPersist \/ StoreAuthSnapshot
  BY <1>5 DEF StartCycle, JoinExchanges, BeginPersist, StoreAuthSnapshot, storageVars,
              SettledSidesKept
<1>6. CASE Crash
  BY <1>6 DEF Crash, storageVars, SettledSidesKept
<1>7. CASE UNCHANGED vars
  BY <1>7 DEF vars, storageVars, SettledSidesKept
<1> QED BY <1>1, <1>2, <1>3, <1>4, <1>5, <1>6, <1>7 DEF Next, FetcherStep

\* A settled side of an activity is never rewritten.
THEOREM SettledSidesAlwaysStay == Spec => SettledSidesStay
<1>1. StayInv /\ [Next]_vars => [SettledSidesKept]_vars
  BY StayStep
<1>2. Spec => []StayInv
  BY StayInit, StayNext, PTL DEF Spec
<1> QED BY <1>1, <1>2, PTL DEF Spec, SettledSidesStay, SettledSidesKept

------------------------------------------------------------------------------
\* StatusesHonest

\* What the exchange and the network settled stays settled.
WorldKeeps ==
  \A r \in Requests :
    /\ site[r] \in {"closed", "credited", "completed", "rejected"} => site'[r] = site[r]
    /\ site[r] = "open" => site'[r] \in {"open", "closed"}
    /\ chain[r] = "mined" => chain'[r] = "mined"

\* The step leaves the exchange and the network alone.
LEMMA QuietWorld == UNCHANGED <<site, chain>> => WorldKeeps
  BY DEF WorldKeeps

\* A fact that was true stays true.
LEMMA TrueStays ==
  ASSUME WorldKeeps, NEW r \in Requests, NEW action, NEW est, NEW mst,
         TrueOf(r, action, est, mst)
  PROVE  TrueOf(r, action, est, mst)'
  BY DEF WorldKeeps, TrueOf

\* An order that was placed stays placed.
LEMMA PlacedStays ==
  ASSUME WorldKeeps, NEW r \in Requests, IsPlaced(r)
  PROVE  IsPlaced(r)'
  BY DEF WorldKeeps, IsPlaced

\* Nothing was placed, credited or mined when the server starts.
LEMMA HonestInit == Init => HonestInv
<1> SUFFICES ASSUME Init PROVE HonestInv
  OBVIOUS
<1>1. StorageInv
  BY InitInv
<1>2. DOMAIN list = {} /\ DOMAIN draft = {} /\ DOMAIN activityBucket = {}
  BY DEF Init, FetcherInit, Empty, CoreInit, StorageInit
<1>3. \A s \in Sources : DOMAIN check[s].statuses = {}
  BY DEF Init, FetcherInit, Unstarted, Empty
<1>4. WorldIsNew
  BY DEF Init, SiteInit, ChainInit, WorldIsNew
<1> QED BY <1>1, <1>2, <1>3, <1>4
          DEF HonestInv, OrdersPlaced, StatusesHonest, CopiesHonest

------------------------------------------------------------------------------
\* The handlers call out at most once per request, so they take nothing back.
LEMMA CoreWorld ==
  ASSUME HonestInv, NEW r \in Requests, Core(r)
  PROVE  WorldKeeps /\ WorldIsNew'
<1> USE DEF HonestInv, WorldIsNew, WorldKeeps
<1>0. /\ site \in [Requests -> SiteStates] /\ chain \in [Requests -> ChainStates]
      /\ rpc \in [Requests -> RequestSteps]
  BY DEF StorageInv, TypeOK, SiteTypeOK, ChainTypeOK, CoreTypeOK
<1>1. ASSUME NEW e, NEW t, Trade(r, e, t) PROVE WorldKeeps /\ WorldIsNew'
  BY <1>0, <1>1 DEF Trade, Outcome
<1>2. ASSUME NEW e, NEW t, Deposit(r, e, t) PROVE WorldKeeps /\ WorldIsNew'
  BY <1>0, <1>2 DEF Deposit, Outcome
<1>3. ASSUME NEW e, NEW t, Withdraw(r, e, t) PROVE WorldKeeps /\ WorldIsNew'
  BY <1>0, <1>3 DEF Withdraw, Outcome
<1>4. CASE Send(r)
  BY <1>0, <1>4 DEF Send, Broadcast
<1>5. CASE RecordOutcome(r)
  BY <1>0, <1>5 DEF RecordOutcome
<1>6. CASE CancelOrder(r)
  BY <1>0, <1>6 DEF CancelOrder, coreVars
<1> QED BY <1>1, <1>2, <1>3, <1>4, <1>5, <1>6
   DEF Core, CoreStep, TradeHandler, DepositHandler, WithdrawHandler

\* The environment moves forward only.
LEMMA EnvironmentWorld ==
  ASSUME HonestInv, NEW r \in Requests, Environment(r)
  PROVE  WorldKeeps /\ WorldIsNew'
<1> USE DEF HonestInv, WorldIsNew, WorldKeeps
<1>0. /\ site \in [Requests -> SiteStates] /\ chain \in [Requests -> ChainStates]
      /\ rpc \in [Requests -> RequestSteps]
  BY DEF StorageInv, TypeOK, SiteTypeOK, ChainTypeOK, CoreTypeOK
<1>1. CASE NetworkMoves(r)
  BY <1>0, <1>1 DEF NetworkMoves, ChainStep, Broadcast, coreVars
<1>2. CASE SiteMoves(r)
  BY <1>0, <1>2 DEF SiteMoves, SiteStep, Credit, Broadcast, coreVars
<1>3. CASE Age(r)
  BY <1>0, <1>3 DEF Age, coreVars
<1> QED BY <1>1, <1>2, <1>3 DEF Environment

------------------------------------------------------------------------------
\* A step that leaves every copy alone.
LEMMA HonestQuiet ==
  ASSUME HonestInv, StorageInv', WorldKeeps, WorldIsNew',
         UNCHANGED <<draft, activityBucket, list, check>>
  PROVE  HonestInv'
<1>1. /\ DOMAIN draft \subseteq Requests /\ DOMAIN activityBucket \subseteq Requests
      /\ DOMAIN list \subseteq Requests
      /\ \A s \in Sources : DOMAIN check[s].statuses \subseteq Requests
  BY DEF HonestInv, StorageInv, TypeOK, CoreTypeOK, FetcherTypeOK, IsMap, IsCheck
<1>2. OrdersPlaced'
  BY <1>1, PlacedStays DEF HonestInv, OrdersPlaced
<1>3. StatusesHonest'
  BY <1>1, TrueStays DEF HonestInv, StatusesHonest, Honest
<1>4. CopiesHonest'
  BY <1>1, TrueStays DEF HonestInv, CopiesHonest, Honest
<1> QED BY <1>2, <1>3, <1>4 DEF HonestInv

\* The record a handler is going to store, and those of the other handlers.
LEMMA OutcomeDraft ==
  ASSUME NEW r \in Requests, NEW step, NEW a, Outcome(r, step, a)
  PROVE  /\ r \in DOMAIN draft' /\ draft'[r] = a
         /\ \A q \in DOMAIN draft' \ {r} : q \in DOMAIN draft /\ draft'[q] = draft[q]
  BY DEF Outcome, Put

\* The fields of a new record.
LEMMA TradeFields ==
  ASSUME NEW r \in Requests, NEW step, NEW e, NEW t, NEW est,
         Outcome(r, step, NewActivity("trade", e, t, est, "", NoTx))
  PROVE  draft'[r].action = "trade" /\ draft'[r].est = est /\ draft'[r].mst # "mined"
<1> DEFINE n == NewActivity("trade", e, t, est, "", NoTx)
<1>1. Outcome(r, step, n)
  OBVIOUS
<1>2. n.action = "trade" /\ n.est = est /\ n.mst # "mined"
  BY Zenon DEF NewActivity
<1> HIDE DEF n
<1>3. draft'[r] = n
  BY <1>1, OutcomeDraft
<1> QED BY <1>2, <1>3

\* A new withdrawal has no transaction yet.
LEMMA WithdrawFields ==
  ASSUME NEW r \in Requests, NEW step, NEW e, NEW t, NEW est,
         est # "done", Outcome(r, step, NewActivity("withdraw", e, t, est, "", NoTx))
  PROVE  draft'[r].action # "trade" /\ draft'[r].est # "done" /\ draft'[r].mst # "mined"
<1> DEFINE n == NewActivity("withdraw", e, t, est, "", NoTx)
<1>1. Outcome(r, step, n)
  OBVIOUS
<1>2. n.action # "trade" /\ n.est # "done" /\ n.mst # "mined"
  BY Zenon DEF NewActivity
<1> HIDE DEF n
<1>3. draft'[r] = n
  BY <1>1, OutcomeDraft
<1> QED BY <1>2, <1>3

\* A new deposit has not arrived anywhere yet.
LEMMA DepositFields ==
  ASSUME NEW r \in Requests, NEW step, NEW e, NEW t, NEW mst, NEW tx,
         mst # "mined", Outcome(r, step, NewActivity("deposit", e, t, "", mst, tx))
  PROVE  draft'[r].action # "trade" /\ draft'[r].est # "done" /\ draft'[r].mst # "mined"
<1> DEFINE n == NewActivity("deposit", e, t, "", mst, tx)
<1>1. Outcome(r, step, n)
  OBVIOUS
<1>2. n.action # "trade" /\ n.est # "done" /\ n.mst # "mined"
  BY Zenon DEF NewActivity
<1> HIDE DEF n
<1>3. draft'[r] = n
  BY <1>1, OutcomeDraft
<1> QED BY <1>2, <1>3

\* The draft of a trade: done only if the order is closed.
LEMMA TradeDraft ==
  ASSUME NEW r \in Requests, NEW e, NEW t, Trade(r, e, t), site \in [Requests -> SiteStates]
  PROVE  /\ \A q \in DOMAIN draft' \ {r} : q \in DOMAIN draft /\ draft'[q] = draft[q]
         /\ draft'[r].action = "trade" /\ draft'[r].mst # "mined"
         /\ \/ draft'[r].est = "failed"
            \/ draft'[r].est = "submitted" /\ site'[r] = "open"
            \/ draft'[r].est = "done" /\ site'[r] = "closed"
<1>1. ASSUME Outcome(r, "record", NewActivity("trade", e, t, "failed", "", NoTx))
      PROVE  draft'[r].action = "trade" /\ draft'[r].mst # "mined" /\ draft'[r].est = "failed"
  BY <1>1, TradeFields
<1>2. ASSUME Outcome(r, "record", NewActivity("trade", e, t, "submitted", "", NoTx))
      PROVE  draft'[r].action = "trade" /\ draft'[r].mst # "mined" /\ draft'[r].est = "submitted"
  BY <1>2, TradeFields
<1>3. ASSUME Outcome(r, "record", NewActivity("trade", e, t, "done", "", NoTx))
      PROVE  draft'[r].action = "trade" /\ draft'[r].mst # "mined" /\ draft'[r].est = "done"
  BY <1>3, TradeFields
<1>4. \A q \in DOMAIN draft' \ {r} : q \in DOMAIN draft /\ draft'[q] = draft[q]
  BY OutcomeDraft DEF Trade
<1> QED BY <1>1, <1>2, <1>3, <1>4 DEF Trade

\* The draft of a deposit or a withdrawal claims neither done nor mined.
LEMMA TransferDraft ==
  ASSUME NEW r \in Requests, NEW e, NEW t, Deposit(r, e, t) \/ Withdraw(r, e, t)
  PROVE  /\ \A q \in DOMAIN draft' \ {r} : q \in DOMAIN draft /\ draft'[q] = draft[q]
         /\ draft'[r].action # "trade" /\ draft'[r].mst # "mined" /\ draft'[r].est # "done"
<1> DEFINE Claimless ==
      draft'[r].action # "trade" /\ draft'[r].mst # "mined" /\ draft'[r].est # "done"
<1>1. ASSUME Outcome(r, "send", NewActivity("deposit", e, t, "", "submitted", TxHash))
      PROVE  Claimless
  BY <1>1, DepositFields
<1>2. ASSUME Outcome(r, "record", NewActivity("deposit", e, t, "", "failed", ZeroTx))
      PROVE  Claimless
  BY <1>2, DepositFields
<1>3. ASSUME Outcome(r, "record", NewActivity("withdraw", e, t, "submitted", "", NoTx))
      PROVE  Claimless
  BY <1>3, WithdrawFields
<1>4. ASSUME Outcome(r, "record", NewActivity("withdraw", e, t, "failed", "", NoTx))
      PROVE  Claimless
  BY <1>4, WithdrawFields
<1>5. \A q \in DOMAIN draft' \ {r} : q \in DOMAIN draft /\ draft'[q] = draft[q]
  BY OutcomeDraft DEF Deposit, Withdraw
<1> HIDE DEF Claimless
<1>6. Claimless
  BY <1>1, <1>2, <1>3, <1>4 DEF Deposit, Withdraw
<1> QED BY <1>5, <1>6 DEF Claimless

\* A handler's step: the draft it leaves is true of the world.
LEMMA HonestCore ==
  ASSUME HonestInv, StorageInv', NEW r \in Requests, Core(r)
  PROVE  HonestInv'
<1>0. WorldKeeps /\ WorldIsNew'
  BY CoreWorld
<1>1. /\ DOMAIN draft \subseteq Requests /\ DOMAIN activityBucket \subseteq Requests
      /\ DOMAIN list \subseteq Requests
      /\ \A s \in Sources : DOMAIN check[s].statuses \subseteq Requests
  BY DEF HonestInv, StorageInv, TypeOK, CoreTypeOK, FetcherTypeOK, IsMap, IsCheck
<1>2. UNCHANGED <<list, check>>
  BY DEF Core, fetcherVars
<1>3. /\ site \in [Requests -> SiteStates] /\ chain \in [Requests -> ChainStates]
  BY DEF HonestInv, StorageInv, TypeOK, SiteTypeOK, ChainTypeOK
<1> DEFINE OthersKept == \A q \in DOMAIN draft' \ {r} : q \in DOMAIN draft /\ draft'[q] = draft[q]
           DraftTrue == r \in DOMAIN draft' =>
             /\ Honest(r, draft[r])'
             /\ draft'[r].action = "trade" /\ draft'[r].est # "failed" => IsPlaced(r)'
<1>4. OthersKept /\ DraftTrue
  <2>1. ASSUME NEW e, NEW t, Trade(r, e, t) PROVE OthersKept /\ DraftTrue
    BY <1>3, <2>1, TradeDraft DEF Honest, TrueOf, IsPlaced
  <2>2. ASSUME NEW e, NEW t, Deposit(r, e, t) \/ Withdraw(r, e, t) PROVE OthersKept /\ DraftTrue
    BY <2>2, TransferDraft DEF Honest, TrueOf
  <2>3. CASE Send(r)
    <3>1. r \in DOMAIN draft /\ draft[r] \in ActivityRecords
      BY <2>3 DEF Send, HonestInv, StorageInv, HandlersFresh, TypeOK, CoreTypeOK, IsMap
    <3>2. /\ Honest(r, draft[r])
          /\ draft[r].action = "trade" /\ draft[r].est # "failed" => IsPlaced(r)
      BY <3>1 DEF HonestInv, CopiesHonest, OrdersPlaced
    <3>3. /\ DOMAIN draft' = DOMAIN draft
          /\ \A q \in DOMAIN draft \ {r} : draft'[q] = draft[q]
          /\ draft'[r].action = draft[r].action /\ draft'[r].est = draft[r].est
          /\ draft'[r].mst \in {draft[r].mst, "failed"}
      BY <2>3, <3>1 DEF Send, ActivityRecords, HonestInv, StorageInv, TypeOK, CoreTypeOK, IsMap
    <3>4. Honest(r, draft[r])'
      BY <1>0, <2>3, <3>2, <3>3, TrueStays DEF Honest, TrueOf
    <3> QED BY <1>0, <3>1, <3>2, <3>3, <3>4, PlacedStays
  <2>4. CASE RecordOutcome(r)
    BY <2>4 DEF RecordOutcome, Delete
  <2>5. CASE CancelOrder(r)
    BY <1>0, <1>1, <2>5, TrueStays, PlacedStays
       DEF CancelOrder, coreVars, HonestInv, CopiesHonest, OrdersPlaced, Honest
  <2> QED BY <2>1, <2>2, <2>3, <2>4, <2>5 DEF Core, CoreStep, TradeHandler, DepositHandler, WithdrawHandler
<1>5. /\ \A q \in DOMAIN activityBucket' :
           \/ q \in DOMAIN activityBucket /\ activityBucket'[q] = activityBucket[q]
           \/ q \in DOMAIN draft /\ activityBucket'[q] = draft[q]
  <2>1. CASE RecordOutcome(r)
    <3>1. r \in DOMAIN draft
      BY <2>1 DEF RecordOutcome, HonestInv, StorageInv, HandlersFresh
    <3> QED BY <2>1, <3>1 DEF RecordOutcome, Record, Put, storageVars
  <2>2. CASE CancelOrder(r)
    BY <2>2 DEF CancelOrder, storageVars
  <2>3. CASE CoreStep(r) /\ ~RecordOutcome(r)
    BY <2>3
       DEF CoreStep, TradeHandler, DepositHandler, WithdrawHandler, Trade, Deposit, Withdraw, Send, storageVars
  <2> QED BY <2>1, <2>2, <2>3 DEF Core
<1>6. OrdersPlaced'
  BY <1>0, <1>1, <1>2, <1>4, <1>5, PlacedStays DEF HonestInv, OrdersPlaced
<1>7. StatusesHonest'
  BY <1>0, <1>1, <1>5, TrueStays DEF HonestInv, StatusesHonest, CopiesHonest, Honest
<1>8. CopiesHonest'
  BY <1>0, <1>1, <1>2, <1>4, TrueStays DEF HonestInv, CopiesHonest, Honest
<1> QED BY <1>0, <1>6, <1>7, <1>8 DEF HonestInv

------------------------------------------------------------------------------
\* An answer says what the code was told.
LEMMA AnswerFields ==
  /\ \A est, tx : Answer(est, tx).est = est
  /\ \A w \in ErrorAnswers \cup SilentAnswers : w.est # "done"
<1>1. \A est, tx : Answer(est, tx).est = est
  BY DEF Answer
<1>2. \A w \in ErrorAnswers : w.est # "done"
  <2> DEFINE n == [est |-> "", tx |-> NoTx, err |-> TRUE]
  <2>1. n.est # "done"
    BY Zenon
  <2>2. \A w \in ErrorAnswers : w = n
    BY DEF ErrorAnswers
  <2> HIDE DEF n
  <2> QED BY <2>1, <2>2
<1>3. Answer("", NoTx).est # "done"
  BY Zenon DEF Answer
<1>4. \A w \in SilentAnswers : w.est # "done"
  BY <1>3, Zenon DEF SilentAnswers
<1> QED BY <1>1, <1>2, <1>4

\* "done" is told only of an order that is not open, of a deposit that is
\* credited, of a withdrawal that is over.
LEMMA DoneIsTold ==
  ASSUME NEW r, NEW w, w.est = "done"
  PROVE  /\ w \in OrderStatus(r) => site[r] # "open"
         /\ w \in DepositStatus(r) => site[r] = "credited"
         /\ w \in WithdrawStatus(r) => site[r] \in {"completed", "rejected"}
<1>1. Answer("", NoTx).est # "done" /\ Answer("", TxHash).est # "done"
  BY Zenon DEF Answer
<1>2. w \notin ErrorAnswers /\ w \notin SilentAnswers
  BY AnswerFields
<1>3. w # Answer("", NoTx) /\ w # Answer("", TxHash)
  BY <1>1
<1>4. w \in OrderStatus(r) => site[r] # "open"
  BY <1>2, <1>3, Zenon DEF OrderStatus
<1>5. w \in DepositStatus(r) => site[r] = "credited"
  BY <1>2, <1>3, Zenon DEF DepositStatus
<1>6. w \in WithdrawStatus(r) => site[r] \in {"completed", "rejected"}
  BY <1>2, <1>3, Zenon DEF WithdrawStatus
<1> QED BY <1>4, <1>5, <1>6

\* One status call adds at most one answer, and that answer is true.
LEMMA ResultsHonest ==
  ASSUME HonestInv, NEW s \in Sources, NEW r \in DOMAIN list,
         NEW result \in Results(s, r, list[r], check[s].statuses)
  PROVE  \A q \in DOMAIN result :
           \/ q \in DOMAIN check[s].statuses /\ result[q] = check[s].statuses[q]
           \/ q = r /\ TrueOf(r, list[r].action, result[r].est, result[r].mst)
<1>1. list[r] \in ActivityRecords /\ r \in Requests
  BY DEF HonestInv, StorageInv, TypeOK, FetcherTypeOK, IsMap
<1>2. Honest(r, list[r]) /\ (list[r].action = "trade" => IsPlaced(r))
  BY DEF HonestInv, CopiesHonest, OrdersPlaced
<1>3. CASE s = Blockchain
  <2>1. PICK w \in TxStatus(r) :
          result = IF IsFinal(r, w)
                     THEN Put(check[s].statuses, r,
                              [est |-> list[r].est, tx |-> list[r].tx, err |-> FALSE,
                               mst |-> IF w = "mined" THEN "mined" ELSE "failed"])
                     ELSE check[s].statuses
    BY <1>3 DEF Results, BlockchainResults
  <2>2. w = "mined" => chain[r] = "mined"
    BY <2>1, Zenon DEF TxStatus
  <2>3. TrueOf(r, list[r].action, list[r].est, IF w = "mined" THEN "mined" ELSE "failed")
    BY <1>2, <2>2 DEF Honest, TrueOf
  <2> QED BY <2>1, <2>3 DEF Put
<1>4. CASE s # Blockchain
  <2> DEFINE W == CASE list[r].action = "trade"   -> OrderStatus(r)
                    [] list[r].action = "deposit" -> DepositStatus(r)
                    [] OTHER                      -> WithdrawStatus(r)
  <2>1. PICK w \in W :
          result = Put(check[s].statuses, r,
                       [est |-> w.est, tx |-> w.tx, mst |-> list[r].mst, err |-> w.err])
    BY <1>4 DEF Results, ExchangeResults
  <2>2. w.est = "done" => CASE list[r].action = "trade"   -> site[r] = "closed"
                            [] list[r].action = "deposit" -> site[r] = "credited"
                            [] OTHER -> site[r] \in {"completed", "rejected"}
    BY <1>2, <2>1, DoneIsTold DEF IsPlaced
  <2>3. TrueOf(r, list[r].action, w.est, list[r].mst)
    BY <1>2, <2>2 DEF Honest, TrueOf
  <2> HIDE DEF W
  <2> QED BY <2>1, <2>3 DEF Put
<1> QED BY <1>3, <1>4

\* A step of a double check leaves true answers behind.
LEMMA HonestSource ==
  ASSUME HonestInv, StorageInv', NEW s \in Sources, SourceStep(s)
  PROVE  HonestInv'
<1>1. UNCHANGED <<list, storageVars, otherVars>>
  BY DEF SourceStep, FetchStatus, FetchBalance, Compare
<1>2. IsCheck(check[s]) /\ check = [q \in Sources |-> check[q]]
  BY DEF HonestInv, StorageInv, TypeOK, FetcherTypeOK
<1>3. \A q \in Sources : q # s => check'[q] = check[q]
  BY <1>2 DEF SourceStep, FetchStatus, FetchBalance, Compare
<1> DEFINE AnswersTrue ==
      \A r \in DOMAIN check'[s].statuses :
        TrueOf(r, list[r].action, check'[s].statuses[r].est, check'[s].statuses[r].mst)
<1>4. \A r \in DOMAIN check[s].statuses :
        TrueOf(r, list[r].action, check[s].statuses[r].est, check[s].statuses[r].mst)
  BY DEF HonestInv, CopiesHonest
<1>5. AnswersTrue
  <2>1. ASSUME NEW r \in Requests, FetchStatus(s, r) PROVE AnswersTrue
    <3>1. PICK result \in Results(s, r, list[r], check[s].statuses) :
            check' = [check EXCEPT ![s].left = @ \ {r}, ![s].statuses = result]
      BY <2>1 DEF FetchStatus
    <3>2. check'[s].statuses = result
      BY <1>2, <3>1 DEF IsCheck
    <3>3. r \in DOMAIN list
      BY <1>2, <2>1 DEF FetchStatus, IsCheck
    <3> QED BY <1>4, <3>2, <3>3, ResultsHonest
  <2>2. CASE FetchBalance(s)
    <3>1. check'[s].statuses = Empty
      BY <1>2, <2>2 DEF FetchBalance
    <3> QED BY <3>1 DEF Empty
  <2>3. CASE Compare(s)
    <3>1. check'[s].statuses = check[s].statuses \/ check'[s] = Started(s, list)
      BY <1>2, <2>3 DEF Compare, IsCheck
    <3>2. DOMAIN Started(s, list).statuses = {}
      BY DEF Started, Unstarted, Empty
    <3> QED BY <1>4, <3>1, <3>2
  <2> QED BY <2>1, <2>2, <2>3 DEF SourceStep
<1>6. UNCHANGED <<site, chain, draft, rpc, activityBucket>>
  BY <1>1 DEF otherVars, storageVars
<1>7. CopiesHonest'
  BY <1>1, <1>3, <1>5, <1>6 DEF HonestInv, CopiesHonest, Honest, TrueOf
<1>8. WorldIsNew' /\ OrdersPlaced' /\ StatusesHonest'
  BY <1>1, <1>6 DEF HonestInv, WorldIsNew, OrdersPlaced, IsPlaced, StatusesHonest, Honest, TrueOf
<1> QED BY <1>7, <1>8 DEF HonestInv

------------------------------------------------------------------------------
\* The cycle's own steps: a cycle starts from true records, and hands them on.
LEMMA HonestCycle ==
  ASSUME HonestInv, StorageInv'
  PROVE  /\ StartCycle => HonestInv'
         /\ JoinExchanges => HonestInv'
         /\ BeginPersist => HonestInv'
         /\ StoreAuthSnapshot => HonestInv'
<1>a. DOMAIN Unstarted.statuses = {} /\ DOMAIN Empty = {}
  BY DEF Unstarted, Empty
<1>b. \A s, l : DOMAIN Started(s, l).statuses = {}
  BY DEF Started, Unstarted, Empty
<1>1. ASSUME StartCycle PROVE HonestInv'
  <2>1. list' = pendingBucket /\ UNCHANGED <<activityBucket, draft, rpc, site, chain>>
    BY <1>1 DEF StartCycle, GetPendingActivities, storageVars, otherVars
  <2>2. \A r \in DOMAIN list' : /\ r \in DOMAIN activityBucket
                               /\ list'[r] = activityBucket[r]
                               /\ IsPending(activityBucket[r])
    BY <2>1 DEF HonestInv, StorageInv, BucketsAgree, PendingIsRecorded, PendingIsComplete
  <2>3. \A r \in DOMAIN list' : list'[r].action = "trade" => list'[r].est # "failed"
    BY <2>2 DEF IsPending
  <2>4. \A s \in Sources : DOMAIN check'[s].statuses = {}
    BY <1>1, <1>a, <1>b DEF StartCycle
  <2>5. OrdersPlaced'
    BY <2>1, <2>2, <2>3 DEF HonestInv, OrdersPlaced, IsPlaced
  <2>6. CopiesHonest'
    BY <2>1, <2>2, <2>4 DEF HonestInv, StatusesHonest, CopiesHonest, Honest, TrueOf
  <2>7. WorldIsNew' /\ StatusesHonest'
    BY <2>1 DEF HonestInv, WorldIsNew, StatusesHonest, Honest, TrueOf
  <2> QED BY <2>5, <2>6, <2>7 DEF HonestInv
<1>2. ASSUME JoinExchanges PROVE HonestInv'
  <2>1. /\ UNCHANGED <<activityBucket, draft, rpc, site, chain>>
        /\ list' = [r \in DOMAIN list |-> [list[r] EXCEPT !.tx = LearnTx(r)]]
    BY <1>2 DEF JoinExchanges, storageVars, otherVars
  <2>2. ASSUME NEW r \in DOMAIN list
        PROVE  /\ list'[r].action = list[r].action
               /\ list'[r].est = list[r].est
               /\ list'[r].mst = list[r].mst
    <3>1. list[r] \in ActivityRecords
      BY DEF HonestInv, StorageInv, TypeOK, FetcherTypeOK, IsMap
    <3> QED BY <2>1, <3>1 DEF ActivityRecords
  <2>3. \A s \in Sources : \/ check'[s].statuses = check[s].statuses
                           \/ DOMAIN check'[s].statuses = {}
    BY <1>2, <1>b DEF JoinExchanges, HonestInv, StorageInv, TypeOK, FetcherTypeOK
  <2>4. \A s \in Sources : DOMAIN check[s].statuses \subseteq DOMAIN list
    BY DEF HonestInv, StorageInv, TypeOK, FetcherTypeOK, IsCheck, IsMap
  <2>5. OrdersPlaced'
    BY <2>1, <2>2 DEF HonestInv, OrdersPlaced, IsPlaced
  <2>6. CopiesHonest'
    <3>1. DOMAIN list' = DOMAIN list
      BY <2>1
    <3>2. \A r \in DOMAIN draft : Honest(r, draft[r])'
      BY <2>1 DEF HonestInv, CopiesHonest, Honest, TrueOf
    <3>3. \A r \in DOMAIN list : Honest(r, list[r])'
      BY <2>1, <2>2 DEF HonestInv, CopiesHonest, Honest, TrueOf
    <3>4. ASSUME NEW s \in Sources, NEW r \in DOMAIN check'[s].statuses
          PROVE  TrueOf(r, list[r].action, check[s].statuses[r].est, check[s].statuses[r].mst)'
      <4>1. r \in DOMAIN check[s].statuses /\ check'[s].statuses = check[s].statuses
        BY <2>3, <3>4
      <4>2. list'[r].action = list[r].action
        BY <2>2, <2>4, <4>1
      <4>3. TrueOf(r, list[r].action, check[s].statuses[r].est, check[s].statuses[r].mst)
        BY <4>1 DEF HonestInv, CopiesHonest
      <4> QED BY <2>1, <4>1, <4>2, <4>3 DEF TrueOf
    <3> QED BY <2>1, <3>1, <3>2, <3>3, <3>4 DEF CopiesHonest
  <2>7. WorldIsNew' /\ StatusesHonest'
    BY <2>1 DEF HonestInv, WorldIsNew, StatusesHonest, Honest, TrueOf
  <2> QED BY <2>5, <2>6, <2>7 DEF HonestInv
<1>3. ASSUME BeginPersist PROVE HonestInv'
  <2>1. UNCHANGED <<activityBucket, draft, rpc, site, chain, list, check>>
    BY <1>3 DEF BeginPersist, storageVars, otherVars
  <2>2. WorldIsNew'
    BY <2>1 DEF HonestInv, WorldIsNew
  <2> QED BY <2>1, <2>2, QuietWorld, HonestQuiet
<1>4. ASSUME StoreAuthSnapshot PROVE HonestInv'
  <2>1. UNCHANGED <<activityBucket, draft, rpc, site, chain>> /\ list' = Empty
    BY <1>4 DEF StoreAuthSnapshot, storageVars, otherVars
  <2>2. \A s \in Sources : DOMAIN check'[s].statuses = {}
    BY <1>4, <1>a DEF StoreAuthSnapshot
  <2>3. OrdersPlaced' /\ CopiesHonest'
    BY <1>a, <2>1, <2>2 DEF HonestInv, OrdersPlaced, IsPlaced, CopiesHonest, Honest, TrueOf
  <2>4. WorldIsNew' /\ StatusesHonest'
    BY <2>1 DEF HonestInv, WorldIsNew, StatusesHonest, Honest, TrueOf
  <2> QED BY <2>3, <2>4 DEF HonestInv
<1> QED BY <1>1, <1>2, <1>3, <1>4

\* A restart forgets the copies.
LEMMA HonestCrash == ASSUME HonestInv, StorageInv', Crash PROVE HonestInv'
<1>1. /\ UNCHANGED <<activityBucket, site, chain>>
      /\ DOMAIN draft' = {} /\ DOMAIN list' = {}
  BY DEF Crash, CoreCrash, FetcherCrash, storageVars, Empty
<1>2. \A s \in Sources : DOMAIN check'[s].statuses = {}
  BY DEF Crash, FetcherCrash, Unstarted, Empty
<1>3. WorldIsNew'
  BY <1>1 DEF HonestInv, WorldIsNew, Crash, CoreCrash
<1>4. OrdersPlaced' /\ CopiesHonest' /\ StatusesHonest'
  BY <1>1, <1>2 DEF HonestInv, OrdersPlaced, IsPlaced, CopiesHonest, StatusesHonest, Honest, TrueOf
<1> QED BY <1>3, <1>4 DEF HonestInv

\* The final record of an activity is put together from true parts.
LEMMA SettleHonest ==
  ASSUME HonestInv, NEW r \in DOMAIN list
  PROVE  Settle(r).action = list[r].action /\ Honest(r, Settle(r))
<1>1. list[r] \in ActivityRecords
  BY DEF HonestInv, StorageInv, TypeOK, FetcherTypeOK, IsMap
<1>2. list[r].dest \in Sources /\ Blockchain \in Sources
  BY <1>1 DEF ActivityRecords, Sources
<1>3. TrueOf(r, list[r].action, list[r].est, list[r].mst)
  BY DEF HonestInv, CopiesHonest, Honest
<1>4. HasEStatus(r) => TrueOf(r, list[r].action, estatus(r).est, list[r].mst)
  BY <1>2, <1>3 DEF HonestInv, CopiesHonest, HasEStatus, estatus, TrueOf
<1>5. HasBStatus(r) => TrueOf(r, list[r].action, bstatus(r).est, bstatus(r).mst)
  BY <1>2 DEF HonestInv, CopiesHonest, HasBStatus, bstatus
<1> DEFINE a == [list[r] EXCEPT
                   !.est = IF HasEStatus(r) /\ IsExchangePending(list[r])
                             THEN estatus(r).est ELSE list[r].est,
                   !.tx  = LearnTx(r)]
<1>6. /\ a.action = list[r].action /\ a.mst = list[r].mst
      /\ TrueOf(r, a.action, a.est, a.mst)
  BY <1>1, <1>3, <1>4 DEF ActivityRecords
<1>7. Settle(r) = [a EXCEPT !.mst = IF HasBStatus(r) /\ IsBlockchainPending(a)
                                      THEN bstatus(r).mst ELSE a.mst]
  BY DEF Settle
<1>8. DOMAIN a = {"action", "dest", "token", "est", "mst", "tx"}
  BY <1>1 DEF ActivityRecords
<1> HIDE DEF a
<1>9. /\ Settle(r).action = a.action /\ Settle(r).est = a.est
      /\ Settle(r).mst \in {a.mst} \cup (IF HasBStatus(r) THEN {bstatus(r).mst} ELSE {})
  BY <1>7, <1>8
<1> QED BY <1>5, <1>6, <1>9 DEF Honest, TrueOf

\* The write-back of one activity.
LEMMA HonestPersist ==
  ASSUME HonestInv, StorageInv', NEW r \in Requests, Persist(r)
  PROVE  HonestInv'
<1>1. /\ UNCHANGED <<draft, rpc, site, chain, check>> /\ r \in DOMAIN list
      /\ list' = [list EXCEPT ![r] = Settle(r)]
  BY DEF Persist, otherVars, HonestInv, StorageInv, TypeOK, FetcherTypeOK
<1>2. Settle(r).action = list[r].action /\ Honest(r, Settle(r))
  BY <1>1, SettleHonest
<1>3. \A q \in DOMAIN list : /\ list'[q].action = list[q].action
                             /\ list'[q] = list[q] \/ (q = r /\ list'[q] = Settle(r))
  BY <1>1, <1>2
<1>4. \A q \in DOMAIN activityBucket' :
        \/ q \in DOMAIN activityBucket /\ activityBucket'[q] = activityBucket[q]
        \/ q = r /\ activityBucket'[q] = Settle(r)
  BY DEF Persist, UpdateActivity, Put, storageVars
<1>5. list[r].action = "trade" => IsPlaced(r)
  BY <1>1 DEF HonestInv, OrdersPlaced
<1>6. OrdersPlaced'
  BY <1>1, <1>2, <1>3, <1>4, <1>5 DEF HonestInv, OrdersPlaced, IsPlaced
<1>7. StatusesHonest'
  BY <1>1, <1>2, <1>4 DEF HonestInv, StatusesHonest, Honest, TrueOf
<1>8. \A s \in Sources : DOMAIN check[s].statuses \subseteq DOMAIN list
  BY DEF HonestInv, StorageInv, TypeOK, FetcherTypeOK, IsCheck, IsMap
<1>9. CopiesHonest'
  BY <1>1, <1>2, <1>3, <1>8 DEF HonestInv, CopiesHonest, Honest, TrueOf
<1>10. WorldIsNew'
  BY <1>1 DEF HonestInv, WorldIsNew
<1> QED BY <1>6, <1>7, <1>9, <1>10 DEF HonestInv

\* The inductive step: one case per actor.
LEMMA HonestNext == HonestInv /\ [Next]_vars => HonestInv'
<1> SUFFICES ASSUME HonestInv, [Next]_vars PROVE HonestInv'
  OBVIOUS
<1>1. StorageInv'
  BY NextInv DEF HonestInv
<1>2. ASSUME NEW r \in Requests, Core(r) PROVE HonestInv'
  BY <1>1, <1>2, HonestCore
<1>3. ASSUME NEW r \in Requests, Environment(r) PROVE HonestInv'
  <2>1. UNCHANGED <<draft, activityBucket, list, check>>
    BY <1>3 DEF Environment, NetworkMoves, SiteMoves, Age, coreVars, storageVars, fetcherVars
  <2> QED BY <1>1, <1>3, <2>1, EnvironmentWorld, HonestQuiet
<1>4. CASE FetcherStep
  BY <1>1, <1>4, HonestCycle, HonestSource, HonestPersist DEF FetcherStep
<1>5. CASE Crash
  BY <1>1, <1>5, HonestCrash
<1>6. CASE UNCHANGED vars
  <2>1. UNCHANGED <<draft, rpc, site, chain, activityBucket, list, check>>
    BY <1>6 DEF vars, coreVars, storageVars, fetcherVars
  <2>2. WorldIsNew'
    BY <2>1 DEF HonestInv, WorldIsNew
  <2> QED BY <1>1, <2>1, <2>2, QuietWorld, HonestQuiet
<1> QED BY <1>2, <1>3, <1>4, <1>5, <1>6 DEF Next

\* What the activity bucket says of an activity is true of the exchange and of
\* the network, for any number of requests and exchanges, whatever fails and
\* wherever the process dies.
THEOREM StatusesAlwaysHonest == Spec => []StatusesHonest
<1>1. Spec => []HonestInv
  BY HonestInit, HonestNext, PTL DEF Spec
<1>2. HonestInv => StatusesHonest
  BY DEF HonestInv
<1> QED BY <1>1, <1>2, PTL
=============================================================================
