-------------------------- MODULE CoherenceProofs --------------------------
(***************************************************************************)
(* What a valid snapshot tells: the records it lists are those of the      *)
(* pending bucket, and the balances it shows are those that belong to the  *)
(* recorded statuses.                                                      *)
(***************************************************************************)
EXTENDS StatusProofs

(***************************************************************************)
(* The double check of a source, and what is known of r from it.  Open: the *)
(* record of r in the cycle's list is not settled yet.                     *)
(***************************************************************************)
Open(r) == fpc \in {"exchanges", "blockchain"} \/ r \in todo

\* r has reached the exchange's balances, or the reserve's.
InBalance(r) == site[r] \in {"closed", "credited"}
IsMined(r)   == chain[r] = "mined"

\* The rounds, and the balances of a snapshot that is valid so far.
ChecksInStep ==
  /\ \A s \in Sources : check[s].step = "done" => check[s].left = {}
  /\ fpc \in {"blockchain", "persist"} => \A e \in Exchanges : check[e].step = "done"
  /\ fpc = "persist" => check[Blockchain].step = "done"
  /\ fpc = "persist" /\ valid => \A e \in Exchanges : check[e].bal.valid

\* What was written back is stored, unless the snapshot is invalid.
Written ==
  /\ DOMAIN list \subseteq DOMAIN activityBucket
  /\ fpc = "persist" /\ valid => \A r \in DOMAIN list \ todo : activityBucket[r] = list[r]

\* A deposit is credited or not, and unless it failed it knows its transaction;
\* its request is nothing else at the exchange.
AtRest == {"none", "credited"}

IsPlain(a) == a.action = "deposit" => a.est \in {"", "done"} /\ (a.mst # "failed" => a.tx = TxHash)

Plain(r, a) == IsPlain(a) /\ (a.action = "deposit" => site[r] \in AtRest)

DepositsPlain ==
  /\ \A r \in DOMAIN draft : Plain(r, draft[r])
  /\ \A r \in DOMAIN activityBucket : Plain(r, activityBucket[r])
  /\ \A r \in DOMAIN list : Plain(r, list[r])
  /\ \A e \in Exchanges : \A r \in DOMAIN check[e].statuses : check[e].statuses[r].est \in {"", "done"}

\* An exchange's balances are fetched after the first answers and before the
\* second: they show what the former call done, and nothing the latter deny.
ToldDone(c, r) ==
  \/ list[r].est = "done"
  \/ c.step = "post" /\ r \in DOMAIN c.preStatuses /\ c.preStatuses[r].est = "done"
  \/ c.step = "done" /\ r \in DOMAIN c.statuses /\ c.statuses[r].est = "done"

DeniedDone(c, r) == r \in DOMAIN c.statuses /\ c.statuses[r].est # "done" /\ ~c.statuses[r].err

ExchangeFits(c, r) ==
  /\ IsExchangePending(list[r]) => r \in c.left \cup DOMAIN c.statuses
  /\ c.step # "pre" => /\ c.bal.valid /\ ToldDone(c, r) => r \in c.bal.effects
                       /\ DeniedDone(c, r) => r \notin c.bal.effects

ExchangeHolds(r) ==
  LET c == check[list[r].dest]
  IN  /\ r \in c.bal.effects => InBalance(r)
      /\ Open(r) => ExchangeFits(c, r)
      /\ fpc = "persist" /\ valid /\ r \notin todo => (list[r].est = "done" <=> r \in c.bal.effects)

ExchangesFit ==
  "silent" \notin Faults =>
    \A r \in DOMAIN list : list[r].action \in {"trade", "deposit"} => ExchangeHolds(r)

\* The same for the network, which stores no answer about a transaction that is
\* not final.
SaysMined(statuses, r) == r \in DOMAIN statuses /\ statuses[r].mst = "mined"

ToldMined(c, r) ==
  \/ list[r].mst = "mined"
  \/ c.step = "post" /\ SaysMined(c.preStatuses, r)
  \/ c.step = "done" /\ SaysMined(c.statuses, r)

DeniedMined(c, r) == r \in Targets(Blockchain, list) \ c.left /\ ~SaysMined(c.statuses, r)

ReserveFits(c, r) ==
  c.step # "pre" => /\ c.bal.valid /\ ToldMined(c, r) => r \in c.bal.effects
                    /\ DeniedMined(c, r) => r \notin c.bal.effects

ReserveHolds(r) ==
  LET c == check[Blockchain]
  IN  /\ r \in c.bal.effects => IsMined(r)
      /\ Open(r) /\ fpc # "exchanges" => ReserveFits(c, r)
      /\ fpc = "persist" /\ r \notin todo /\ c.bal.valid =>
           (list[r].mst = "mined" <=> r \in c.bal.effects)

ReservesFit ==
  "status" \notin Faults => \A r \in DOMAIN list : list[r].action = "deposit" => ReserveHolds(r)

CoherentInv == HonestInv /\ StayInv /\ ChecksInStep /\ Written /\ DepositsPlain
                 /\ ExchangesFit /\ ReservesFit

------------------------------------------------------------------------------
(***************************************************************************)
(* The steps of a double check, by what becomes of check[s].               *)
(***************************************************************************)
Asks(s) ==
  \E q \in check[s].left : \E result \in Results(s, q, list[q], check[s].statuses) :
    /\ check[s].step # "done"
    /\ check'[s].step = check[s].step
    /\ check'[s].left = check[s].left \ {q}
    /\ check'[s].statuses = result
    /\ check'[s].preStatuses = check[s].preStatuses
    /\ check'[s].bal = check[s].bal

Weighs(s) ==
  /\ check[s].step = "pre"
  /\ check'[s].step = "post"
  /\ check'[s].left = Targets(s, list)
  /\ DOMAIN check'[s].statuses = {}
  /\ check'[s].preStatuses = check[s].statuses
  /\ check'[s].bal \in FetchBalances(s)

Agrees(s) ==
  /\ check[s].step = "post"
  /\ check[s].left = {}
  /\ unchanged(check[s].preStatuses, check[s].statuses)
  /\ check'[s].step = "done"
  /\ check'[s].left = {}
  /\ check'[s].statuses = check[s].statuses
  /\ check'[s].bal = check[s].bal

StartsOver(s) ==
  /\ check'[s].step = "pre"
  /\ check'[s].left = Targets(s, list)
  /\ DOMAIN check'[s].statuses = {}
  /\ check'[s].bal.effects = {}

\* What a check starts with.
LEMMA StartedFields ==
  ASSUME NEW s, NEW l
  PROVE  /\ Started(s, l).step = "pre" /\ Started(s, l).left = Targets(s, l)
         /\ DOMAIN Started(s, l).statuses = {} /\ Started(s, l).bal.effects = {}
<1>1. /\ Started(s, l).step = "pre" /\ Started(s, l).left = Targets(s, l)
      /\ Started(s, l).statuses = Empty /\ Started(s, l).bal = NoBalances
  BY DEF Started, Unstarted
<1>2. DOMAIN Empty = {} /\ NoBalances.effects = {}
  BY DEF Empty, NoBalances
<1> QED BY <1>1, <1>2

\* What a check is before it starts.
LEMMA UnstartedFields ==
  /\ Unstarted.step = "done" /\ Unstarted.left = {}
  /\ DOMAIN Unstarted.statuses = {} /\ Unstarted.bal.effects = {}
<1>1. /\ Unstarted.step = "done" /\ Unstarted.left = {}
      /\ Unstarted.statuses = Empty /\ Unstarted.bal = NoBalances
  BY DEF Unstarted
<1>2. DOMAIN Empty = {} /\ NoBalances.effects = {}
  BY DEF Empty, NoBalances
<1> QED BY <1>1, <1>2

\* A step of a double check moves that check alone, in one of the four ways.
LEMMA SourceCases ==
  ASSUME StorageInv, NEW s \in Sources, SourceStep(s)
  PROVE  /\ Running(s) /\ UNCHANGED <<fpc, list, todo, valid, snapshot, storageVars, otherVars>>
         /\ \A q \in Sources : q # s => check'[q] = check[q]
         /\ Asks(s) \/ Weighs(s) \/ Agrees(s) \/ StartsOver(s)
<1>1. Running(s) /\ UNCHANGED <<fpc, list, todo, valid, snapshot, storageVars, otherVars>>
  BY DEF SourceStep, FetchStatus, FetchBalance, Compare
<1>2. IsCheck(check[s]) /\ check = [q \in Sources |-> check[q]]
  BY DEF StorageInv, TypeOK, FetcherTypeOK
<1>3. \A q \in Sources : q # s => check'[q] = check[q]
  BY <1>2 DEF SourceStep, FetchStatus, FetchBalance, Compare
<1>4. ASSUME NEW r \in Requests, FetchStatus(s, r) PROVE Asks(s)
  <2>1. PICK result \in Results(s, r, list[r], check[s].statuses) :
          check' = [check EXCEPT ![s].left = @ \ {r}, ![s].statuses = result]
    BY <1>4 DEF FetchStatus
  <2>2. /\ check'[s].step = check[s].step
        /\ check'[s].left = check[s].left \ {r}
        /\ check'[s].statuses = result
        /\ check'[s].preStatuses = check[s].preStatuses
        /\ check'[s].bal = check[s].bal
    BY <1>2, <2>1 DEF IsCheck
  <2> QED BY <1>4, <2>2 DEF FetchStatus, Asks
<1>5. ASSUME FetchBalance(s) PROVE Weighs(s)
  <2>1. PICK b \in FetchBalances(s) :
          check' = [check EXCEPT ![s] =
            [step |-> "post", left |-> Targets(s, list), statuses |-> Empty,
             preStatuses |-> check[s].statuses, bal |-> b]]
    BY <1>5 DEF FetchBalance
  <2>2. check'[s] = [step |-> "post", left |-> Targets(s, list), statuses |-> Empty,
                     preStatuses |-> check[s].statuses, bal |-> b]
    BY <1>2, <2>1
  <2>3. DOMAIN Empty = {}
    BY DEF Empty
  <2> QED BY <1>5, <2>2, <2>3 DEF FetchBalance, Weighs
<1>6. ASSUME Compare(s) PROVE Agrees(s) \/ StartsOver(s)
  <2>1. CASE unchanged(check[s].preStatuses, check[s].statuses)
    <3>1. check'[s] = [check[s] EXCEPT !.step = "done", !.preStatuses = Empty]
      BY <1>2, <1>6, <2>1 DEF Compare
    <3>2. /\ check'[s].step = "done" /\ check'[s].left = check[s].left
          /\ check'[s].statuses = check[s].statuses /\ check'[s].bal = check[s].bal
      BY <1>2, <3>1 DEF IsCheck
    <3> QED BY <1>6, <2>1, <3>2 DEF Compare, Agrees
  <2>2. CASE ~unchanged(check[s].preStatuses, check[s].statuses)
    <3>1. check'[s] = Started(s, list)
      BY <1>2, <1>6, <2>2 DEF Compare
    <3> QED BY <3>1, StartedFields DEF StartsOver
  <2> QED BY <2>1, <2>2
<1>7. Asks(s) \/ Weighs(s) \/ Agrees(s) \/ StartsOver(s)
  BY <1>4, <1>5, <1>6 DEF SourceStep
<1> QED BY <1>1, <1>3, <1>7

------------------------------------------------------------------------------
\* The rounds and the records that are written back.
LEMMA StepsStart == Init => ChecksInStep /\ Written
<1> SUFFICES ASSUME Init PROVE ChecksInStep /\ Written
  OBVIOUS
<1>1. fpc = "idle" /\ DOMAIN list = {} /\ \A s \in Sources : check[s] = Unstarted
  BY DEF Init, FetcherInit, Empty
<1> QED BY <1>1, UnstartedFields DEF ChecksInStep, Written

\* A step of a handler, of the environment, or none.
Outside == /\ UNCHANGED fetcherVars
           /\ DOMAIN activityBucket \subseteq DOMAIN activityBucket'
           /\ \A q \in DOMAIN activityBucket : activityBucket'[q] = activityBucket[q]

\* Handlers and the environment leave the cycle and the stored records alone.
LEMMA OutsideSteps ==
  ASSUME StorageInv
  PROVE  /\ \A r \in Requests : Core(r) \/ Environment(r) => Outside
         /\ UNCHANGED vars => Outside
<1>1. ASSUME NEW r \in Requests, Core(r) PROVE Outside
  <2>1. DOMAIN activityBucket \subseteq DOMAIN activityBucket'
    <3>1. CASE RecordOutcome(r)
      BY <3>1 DEF RecordOutcome, Record, Put, storageVars
    <3>2. CASE CancelOrder(r)
      BY <3>2 DEF CancelOrder, storageVars
    <3>3. CASE CoreStep(r) /\ ~RecordOutcome(r)
      BY <3>3
         DEF CoreStep, TradeHandler, DepositHandler, WithdrawHandler, Trade, Deposit, Withdraw, Send, storageVars
    <3> QED BY <1>1, <3>1, <3>2, <3>3 DEF Core
  <2> QED BY <1>1, <2>1, CoreKeepsRecords DEF Core, Outside
<1>2. ASSUME NEW r \in Requests, Environment(r) PROVE Outside
  BY <1>2 DEF Environment, NetworkMoves, SiteMoves, Age, storageVars, Outside
<1>3. ASSUME UNCHANGED vars PROVE Outside
  BY <1>3 DEF vars, storageVars, fetcherVars, Outside
<1> QED BY <1>1, <1>2, <1>3

\* What one turn of the write-back changes.
LEMMA PersistFields ==
  ASSUME StorageInv, NEW r \in Requests, Persist(r)
  PROVE  /\ fpc = "persist" /\ fpc' = "persist" /\ r \in todo /\ todo' = todo \ {r}
         /\ r \in DOMAIN list /\ DOMAIN list' = DOMAIN list /\ list'[r] = Settle(r)
         /\ \A q \in DOMAIN list : q # r => list'[q] = list[q]
         /\ UNCHANGED <<check, site, chain, draft>>
         /\ valid' => valid /\ ~(HasEStatus(r) /\ estatus(r).err)
         /\ valid' => activityBucket'[r] = Settle(r)
         /\ DOMAIN activityBucket' = DOMAIN activityBucket
         /\ \A q \in DOMAIN activityBucket :
              activityBucket'[q] = activityBucket[q] \/ (q = r /\ activityBucket'[q] = Settle(r))
<1>1. r \in DOMAIN list /\ r \in DOMAIN activityBucket
  BY DEF Persist, StorageInv, TypeOK, FetcherTypeOK, CycleOwnsList, BucketsAgree, PendingIsRecorded
<1>2. CASE UpdateActivity(r, Settle(r)) /\ valid' = (valid /\ ~(HasEStatus(r) /\ estatus(r).err))
  BY <1>1, <1>2 DEF Persist, UpdateActivity, Put, otherVars
<1>3. CASE valid' = FALSE /\ UNCHANGED storageVars
  BY <1>1, <1>3 DEF Persist, storageVars, otherVars
<1> QED BY <1>2, <1>3 DEF Persist

\* The rounds stay in step, and what was written back stays written.
LEMMA StepsKeep ==
  ASSUME StorageInv, ChecksInStep, Written, [Next]_vars
  PROVE  ChecksInStep' /\ Written'
<1>1. ASSUME Outside PROVE ChecksInStep' /\ Written'
  BY <1>1 DEF Outside, fetcherVars, ChecksInStep, Written
<1>2. ASSUME NEW s \in Sources, SourceStep(s) PROVE ChecksInStep' /\ Written'
  <2>1. /\ Running(s) /\ UNCHANGED <<fpc, list, todo, valid, activityBucket>>
        /\ \A q \in Sources : q # s => check'[q] = check[q]
        /\ Asks(s) \/ Weighs(s) \/ Agrees(s) \/ StartsOver(s)
    BY <1>2, SourceCases DEF storageVars
  <2>2. check'[s].step = "done" => check'[s].left = {}
    BY <2>1 DEF Asks, Weighs, Agrees, StartsOver
  <2>3. fpc # "persist" /\ (fpc = "blockchain" => s = Blockchain)
    BY <2>1 DEF Running
  <2>4. fpc = "blockchain" => \A e \in Exchanges : e \in Sources /\ e # s
    BY <2>3, SourceAssumption DEF Sources
  <2> QED BY <2>1, <2>2, <2>3, <2>4 DEF ChecksInStep, Written
<1>3. ASSUME StartCycle PROVE ChecksInStep' /\ Written'
  <2>1. /\ fpc' = "exchanges" /\ list' = pendingBucket /\ UNCHANGED activityBucket
        /\ \A s \in Sources : check'[s] \in {Unstarted, Started(s, pendingBucket)}
    BY <1>3 DEF StartCycle, GetPendingActivities, storageVars
  <2>2. \A s \in Sources : check'[s].step = "done" => check'[s].left = {}
    BY <2>1, UnstartedFields, StartedFields
  <2> QED BY <2>1, <2>2 DEF ChecksInStep, Written, StorageInv, BucketsAgree, PendingIsRecorded
<1>4. ASSUME JoinExchanges PROVE ChecksInStep' /\ Written'
  <2>1. /\ fpc = "exchanges" /\ fpc' = "blockchain" /\ DOMAIN list' = DOMAIN list
        /\ UNCHANGED activityBucket /\ \A e \in Exchanges : check[e].step = "done"
    BY <1>4 DEF JoinExchanges, storageVars
  <2>2. /\ check'[Blockchain] = Started(Blockchain, list')
        /\ \A s \in Sources : s # Blockchain => check'[s] = check[s]
    BY <1>4 DEF JoinExchanges, StorageInv, TypeOK, FetcherTypeOK, Sources
  <2>3. \A s \in Sources : check'[s].step = "done" => check'[s].left = {}
    BY <2>2, StartedFields DEF ChecksInStep
  <2>4. \A e \in Exchanges : e \in Sources /\ e # Blockchain
    BY SourceAssumption DEF Sources
  <2> QED BY <2>1, <2>2, <2>3, <2>4 DEF ChecksInStep, Written
<1>5. ASSUME BeginPersist PROVE ChecksInStep' /\ Written'
  BY <1>5 DEF BeginPersist, storageVars, ChecksInStep, Written
<1>6. ASSUME NEW r \in Requests, Persist(r) PROVE ChecksInStep' /\ Written'
  BY <1>6, PersistFields DEF ChecksInStep, Written
<1>7. ASSUME StoreAuthSnapshot \/ Crash PROVE ChecksInStep' /\ Written'
  <2>1. fpc' = "idle" /\ DOMAIN list' = {} /\ \A s \in Sources : check'[s] = Unstarted
    BY <1>7 DEF StoreAuthSnapshot, Crash, FetcherCrash, Empty
  <2> QED BY <2>1, UnstartedFields DEF ChecksInStep, Written
<1> QED BY <1>1, <1>2, <1>3, <1>4, <1>5, <1>6, <1>7, OutsideSteps DEF Next, FetcherStep

------------------------------------------------------------------------------
\* Deposits: what their records say, and where they are at the exchange.

\* A site is left only by the handler that places an order or a withdrawal.
LEMMA SiteRests ==
  ASSUME StorageInv, [Next]_vars, NEW q \in Requests, site[q] \in AtRest
  PROVE  \/ site'[q] \in AtRest
         \/ rpc'[q] = "record" /\ q \in DOMAIN draft' /\ draft'[q].action # "deposit"
<1>0. site \in [Requests -> SiteStates] /\ rpc \in [Requests -> RequestSteps]
  BY DEF StorageInv, TypeOK, SiteTypeOK, CoreTypeOK
<1> DEFINE Goal == \/ site'[q] \in AtRest
                   \/ rpc'[q] = "record" /\ q \in DOMAIN draft' /\ draft'[q].action # "deposit"
<1>1. ASSUME NEW r \in Requests, NEW e, NEW t, Trade(r, e, t) PROVE Goal
  <2>1. CASE q # r
    BY <1>0, <1>1, <2>1 DEF Trade
  <2>2. CASE q = r
    <3>1. PICK est : Outcome(r, "record", NewActivity("trade", e, t, est, "", NoTx))
      BY <1>1 DEF Trade
    <3>2. r \in DOMAIN draft' /\ draft'[r].action = "trade"
      BY <3>1, OutcomeDraft, TradeFields
    <3>3. rpc'[r] = "record"
      BY <1>0, <3>1 DEF Outcome
    <3> QED BY <2>2, <3>2, <3>3
  <2> QED BY <2>1, <2>2
<1>2. ASSUME NEW r \in Requests, NEW e, NEW t, Withdraw(r, e, t) PROVE Goal
  <2>1. CASE q # r
    BY <1>0, <1>2, <2>1 DEF Withdraw
  <2>2. CASE q = r
    <3>1. PICK est : Outcome(r, "record", NewActivity("withdraw", e, t, est, "", NoTx))
      BY <1>2 DEF Withdraw
    <3>2. r \in DOMAIN draft' /\ draft'[r] = NewActivity("withdraw", e, t, est, "", NoTx)
      BY <3>1, OutcomeDraft
    <3>3. NewActivity("withdraw", e, t, est, "", NoTx).action # "deposit"
      BY Zenon DEF NewActivity
    <3>4. rpc'[r] = "record"
      BY <1>0, <3>1 DEF Outcome
    <3> QED BY <2>2, <3>2, <3>3, <3>4
  <2> QED BY <2>1, <2>2
<1>3. ASSUME NEW r \in Requests, Core(r), ~\E e \in Exchanges, t \in Tokens : Trade(r, e, t) \/ Withdraw(r, e, t)
      PROVE  Goal
  BY <1>0, <1>3
     DEF Core, CoreStep, TradeHandler, DepositHandler, WithdrawHandler, Deposit, Send, RecordOutcome, CancelOrder, AtRest
<1>4. ASSUME NEW r \in Requests, Environment(r) PROVE Goal
  BY <1>0, <1>4 DEF Environment, NetworkMoves, SiteMoves, Age, SiteStep, Credit, AtRest
<1>5. ASSUME FetcherStep PROVE site' = site
  BY <1>5 DEF FetcherStep, SourceStep, FetchStatus, FetchBalance, Compare, StartCycle,
              JoinExchanges, BeginPersist, Persist, StoreAuthSnapshot, otherVars
<1>6. ASSUME Crash \/ UNCHANGED vars PROVE site' = site
  BY <1>6 DEF Crash, vars
<1> HIDE DEF Goal
<1>7. ASSUME NEW r \in Requests, Core(r) PROVE Goal
  BY <1>1, <1>2, <1>3, <1>7
<1>8. site' = site => Goal
  BY DEF Goal
<1>9. Goal
  BY <1>4, <1>5, <1>6, <1>7, <1>8 DEF Next
<1> QED BY <1>9 DEF Goal

\* The answers one by one.
LEMMA AnswerCases ==
  ASSUME NEW r, NEW w
  PROVE  /\ w \in ErrorAnswers => w.est = "" /\ w.err = TRUE
         /\ w \in SilentAnswers => w.est = ""
         /\ w \in OrderStatus(r) \ ErrorAnswers =>
              IF site[r] = "open" THEN w = Answer("", NoTx) ELSE w = Answer("done", NoTx)
         /\ w \in DepositStatus(r) \ (ErrorAnswers \cup SilentAnswers) =>
              IF site[r] = "credited" THEN w = Answer("done", NoTx) ELSE w = Answer("", NoTx)
         /\ w \in WithdrawStatus(r) \ (ErrorAnswers \cup SilentAnswers) =>
              w \in {Answer("", NoTx), Answer("", TxHash), Answer("done", NoTx), Answer("done", TxHash)}
<1>1. w \in ErrorAnswers => w.est = "" /\ w.err = TRUE
  <2> DEFINE n == [est |-> "", tx |-> NoTx, err |-> TRUE]
  <2>1. n.est = "" /\ n.err = TRUE
    BY Zenon
  <2>2. w \in ErrorAnswers => w = n
    BY DEF ErrorAnswers
  <2> HIDE DEF n
  <2> QED BY <2>1, <2>2
<1>2. w \in SilentAnswers => w.est = ""
  <2>1. Answer("", NoTx).est = ""
    BY AnswerFields
  <2>2. w \in SilentAnswers => w = Answer("", NoTx)
    BY Zenon DEF SilentAnswers
  <2> QED BY <2>1, <2>2
<1>3. w \in OrderStatus(r) \ ErrorAnswers =>
        IF site[r] = "open" THEN w = Answer("", NoTx) ELSE w = Answer("done", NoTx)
  BY Zenon DEF OrderStatus
<1>4. w \in DepositStatus(r) \ (ErrorAnswers \cup SilentAnswers) =>
        IF site[r] = "credited" THEN w = Answer("done", NoTx) ELSE w = Answer("", NoTx)
  BY Zenon DEF DepositStatus
<1>5. w \in WithdrawStatus(r) \ (ErrorAnswers \cup SilentAnswers) =>
        w \in {Answer("", NoTx), Answer("", TxHash), Answer("done", NoTx), Answer("done", TxHash)}
  BY Zenon DEF WithdrawStatus
<1> QED BY <1>1, <1>2, <1>3, <1>4, <1>5

\* An exchange answers "" or "done"; and unless it reports an error, "" only of
\* an order or a deposit that is not in its balances.
LEMMA ExchangeAnswers ==
  ASSUME StorageInv, NEW e \in Exchanges, NEW q \in DOMAIN list,
         NEW result \in Results(e, q, list[q], check[e].statuses)
  PROVE  /\ DOMAIN result = DOMAIN check[e].statuses \cup {q}
         /\ \A r \in DOMAIN result : r # q => result[r] = check[e].statuses[r]
         /\ result[q].est \in {"", "done"}
         /\ /\ "silent" \notin Faults
            /\ result[q].est # "done" /\ ~result[q].err
            /\ list[q].action = "trade" \/ (list[q].action = "deposit" /\ site[q] \in AtRest)
            => ~InBalance(q)
<1>0. e # Blockchain
  BY SourceAssumption
<1> DEFINE W == CASE list[q].action = "trade"   -> OrderStatus(q)
                  [] list[q].action = "deposit" -> DepositStatus(q)
                  [] OTHER                      -> WithdrawStatus(q)
<1>1. PICK w \in W :
        result = Put(check[e].statuses, q,
                     [est |-> w.est, tx |-> w.tx, mst |-> list[q].mst, err |-> w.err])
  BY <1>0 DEF Results, ExchangeResults
<1>2. list[q].action \in {"trade", "deposit", "withdraw"}
  BY DEF StorageInv, TypeOK, FetcherTypeOK, IsMap, ActivityRecords
<1>3. /\ list[q].action = "trade" => w \in OrderStatus(q)
      /\ list[q].action = "deposit" => w \in DepositStatus(q)
      /\ w \in OrderStatus(q) \/ w \in DepositStatus(q) \/ w \in WithdrawStatus(q)
  BY <1>1, <1>2
<1>4. /\ DOMAIN result = DOMAIN check[e].statuses \cup {q}
      /\ \A r \in DOMAIN result : r # q => result[r] = check[e].statuses[r]
      /\ result[q].est = w.est /\ result[q].err = w.err
  <2> HIDE DEF W
  <2> QED BY <1>1 DEF Put
<1>5. w.est \in {"", "done"}
  <2>1. \A tx : Answer("", tx).est = "" /\ Answer("done", tx).est = "done"
    BY AnswerFields
  <2>2. CASE w \in ErrorAnswers \cup SilentAnswers
    BY <2>2, AnswerCases
  <2>3. CASE w \notin ErrorAnswers \cup SilentAnswers
    <3>1. w \in {Answer("", NoTx), Answer("", TxHash), Answer("done", NoTx), Answer("done", TxHash)}
      <4> HIDE DEF W
      <4> QED BY <1>3, <2>3, AnswerCases
    <3> QED BY <2>1, <3>1
  <2> QED BY <2>2, <2>3
<1>6. ASSUME "silent" \notin Faults, w.est # "done", ~w.err,
             list[q].action = "trade" \/ (list[q].action = "deposit" /\ site[q] \in AtRest)
      PROVE  ~InBalance(q)
  <2>1. w \notin ErrorAnswers /\ w \notin SilentAnswers
    BY <1>6, AnswerCases DEF SilentAnswers
  <2>2. w # Answer("done", NoTx)
    BY <1>6, AnswerFields
  <2> QED BY <1>3, <1>6, <2>1, <2>2, AnswerCases DEF InBalance, AtRest
<1> QED BY <1>4, <1>5, <1>6

\* The records of the handlers.
LEMMA CorePlain ==
  ASSUME HonestInv, DepositsPlain, NEW r \in Requests, Core(r)
  PROVE  /\ \A q \in DOMAIN draft' : Plain(q, draft'[q])
         /\ \A q \in DOMAIN activityBucket' : Plain(q, activityBucket'[q])
<1>0. /\ \A q \in DOMAIN draft : Plain(q, draft[q])
      /\ \A q \in DOMAIN activityBucket : Plain(q, activityBucket[q])
  BY DEF DepositsPlain
<1>1. ASSUME NEW step, NEW a, Outcome(r, step, a), UNCHANGED activityBucket, Plain(r, a)
      PROVE  /\ \A q \in DOMAIN draft' : Plain(q, draft'[q])
             /\ \A q \in DOMAIN activityBucket' : Plain(q, activityBucket'[q])
  BY <1>0, <1>1, OutcomeDraft
<1>2. ASSUME NEW a, a.action # "deposit" PROVE Plain(r, a)
  BY <1>2 DEF Plain, IsPlain
<1>3. ASSUME NEW e, NEW t, Trade(r, e, t) \/ Withdraw(r, e, t)
      PROVE  /\ \A q \in DOMAIN draft' : Plain(q, draft'[q])
             /\ \A q \in DOMAIN activityBucket' : Plain(q, activityBucket'[q])
  <2>1. PICK action \in {"trade", "withdraw"}, est \in {"failed", "submitted", "done"} :
          Outcome(r, "record", NewActivity(action, e, t, est, "", NoTx))
    BY <1>3 DEF Trade, Withdraw
  <2>2. UNCHANGED activityBucket
    BY <1>3 DEF Trade, Withdraw, storageVars
  <2>3. /\ NewActivity("trade", e, t, est, "", NoTx).action # "deposit"
        /\ NewActivity("withdraw", e, t, est, "", NoTx).action # "deposit"
    BY Zenon DEF NewActivity
  <2>4. Plain(r, NewActivity(action, e, t, est, "", NoTx))
    BY <1>2, <2>1, <2>3
  <2> QED BY <1>1, <2>1, <2>2, <2>4
<1>4. ASSUME NEW e, NEW t, Deposit(r, e, t)
      PROVE  /\ \A q \in DOMAIN draft' : Plain(q, draft'[q])
             /\ \A q \in DOMAIN activityBucket' : Plain(q, activityBucket'[q])
  <2>1. PICK step, mst, tx : /\ Outcome(r, step, NewActivity("deposit", e, t, "", mst, tx))
                             /\ <<mst, tx>> \in {<<"submitted", TxHash>>, <<"failed", ZeroTx>>}
    BY <1>4 DEF Deposit
  <2>2. UNCHANGED activityBucket /\ site[r] = "none"
    BY <1>4 DEF Deposit, storageVars, HonestInv, WorldIsNew
  <2> DEFINE n == NewActivity("deposit", e, t, "", mst, tx)
  <2>3. n.est = "" /\ n.mst = mst /\ n.tx = tx
    BY Zenon DEF NewActivity
  <2> HIDE DEF n
  <2>4. Plain(r, n)
    BY <2>1, <2>2, <2>3 DEF Plain, IsPlain, AtRest
  <2> QED BY <1>1, <2>1, <2>2, <2>4 DEF n
<1>5. CASE Send(r)
  <2>1. UNCHANGED activityBucket /\ r \in DOMAIN draft
    BY <1>5 DEF Send, storageVars, HonestInv, StorageInv, HandlersFresh
  <2>2. draft[r] \in ActivityRecords
    BY <2>1 DEF HonestInv, StorageInv, TypeOK, CoreTypeOK, IsMap
  <2>3. CASE draft' = draft
    BY <1>0, <2>1, <2>3
  <2>4. CASE draft' = [draft EXCEPT ![r].mst = "failed", ![r].tx = ZeroTx]
    <3>1. /\ DOMAIN draft' = DOMAIN draft /\ \A q \in DOMAIN draft : q # r => draft'[q] = draft[q]
          /\ draft'[r].mst = "failed" /\ draft'[r].est = draft[r].est
          /\ draft'[r].action = draft[r].action
      BY <2>1, <2>2, <2>4 DEF ActivityRecords
    <3>2. Plain(r, draft'[r])
      BY <1>0, <2>1, <3>1 DEF Plain, IsPlain
    <3> QED BY <1>0, <2>1, <3>1, <3>2
  <2> QED BY <1>5, <2>3, <2>4 DEF Send
<1>6. CASE RecordOutcome(r)
  <2>1. r \in DOMAIN draft
    BY <1>6 DEF RecordOutcome, HonestInv, StorageInv, HandlersFresh
  <2> QED BY <1>0, <1>6, <2>1 DEF RecordOutcome, Record, Put, Delete, storageVars
<1>7. CASE CancelOrder(r)
  BY <1>0, <1>7 DEF CancelOrder, coreVars, storageVars
<1> QED BY <1>3, <1>4, <1>5, <1>6, <1>7 DEF Core, CoreStep, TradeHandler, DepositHandler, WithdrawHandler

\* The final record of a deposit.
LEMMA SettlePlain ==
  ASSUME StorageInv, DepositsPlain, NEW r \in DOMAIN list
  PROVE  Plain(r, Settle(r)) /\ Settle(r).action = list[r].action
<1>1. list[r] \in ActivityRecords
  BY DEF StorageInv, TypeOK, FetcherTypeOK, IsMap
<1>2. list[r].dest \in Exchanges
  BY <1>1 DEF ActivityRecords
<1>3. Plain(r, list[r]) /\ (HasEStatus(r) => estatus(r).est \in {"", "done"})
  BY <1>2 DEF DepositsPlain, HasEStatus, estatus
<1> DEFINE a == [list[r] EXCEPT
                   !.est = IF HasEStatus(r) /\ IsExchangePending(list[r])
                             THEN estatus(r).est ELSE list[r].est,
                   !.tx  = LearnTx(r)]
<1>4. /\ a.action = list[r].action /\ a.mst = list[r].mst /\ a.tx = LearnTx(r)
      /\ a.est = IF HasEStatus(r) /\ IsExchangePending(list[r]) THEN estatus(r).est ELSE list[r].est
      /\ DOMAIN a = {"action", "dest", "token", "est", "mst", "tx"}
  BY <1>1 DEF ActivityRecords
<1>5. list[r].tx = TxHash => LearnTx(r) = TxHash
  BY DEF LearnTx, TxHash, NoTx
<1>6. Settle(r) = [a EXCEPT !.mst = IF HasBStatus(r) /\ IsBlockchainPending(a)
                                      THEN bstatus(r).mst ELSE a.mst]
  BY DEF Settle
<1> HIDE DEF a
<1>7. /\ Settle(r).action = a.action /\ Settle(r).est = a.est /\ Settle(r).tx = a.tx
      /\ Settle(r).mst = IF HasBStatus(r) /\ IsBlockchainPending(a) THEN bstatus(r).mst ELSE a.mst
  BY <1>4, <1>6
<1>8. a.action = "deposit" /\ a.mst = "failed" => Settle(r).mst = "failed"
  BY <1>7 DEF IsBlockchainPending, MiningWaits
<1> QED BY <1>3, <1>4, <1>5, <1>7, <1>8 DEF Plain, IsPlain

\* Deposits stay plain: their requests never take another path at the exchange.
LEMMA PlainKeeps ==
  ASSUME HonestInv, ChecksInStep, Written, DepositsPlain, [Next]_vars
  PROVE  DepositsPlain'
<1> DEFINE Records == /\ \A q \in DOMAIN draft' : Plain(q, draft'[q])
                      /\ \A q \in DOMAIN activityBucket' : Plain(q, activityBucket'[q])
                      /\ \A q \in DOMAIN list' : Plain(q, list'[q])
           AnswersKeep == \A e \in Exchanges : \A q \in DOMAIN check'[e].statuses :
                            check'[e].statuses[q].est \in {"", "done"}
<1>0. StorageInv /\ \A e \in Exchanges : e \in Sources /\ e # Blockchain
  BY SourceAssumption DEF HonestInv, Sources
<1>a. /\ \A q \in DOMAIN draft : Plain(q, draft[q])
      /\ \A q \in DOMAIN activityBucket : Plain(q, activityBucket[q])
      /\ \A q \in DOMAIN list : Plain(q, list[q])
      /\ \A e \in Exchanges : \A q \in DOMAIN check[e].statuses : check[e].statuses[q].est \in {"", "done"}
  BY DEF DepositsPlain
<1>1. ASSUME NEW r \in Requests, Core(r) PROVE Records /\ AnswersKeep
  BY <1>0, <1>a, <1>1, CorePlain, OutsideSteps DEF Outside, fetcherVars
<1>2. ASSUME NEW r \in Requests, Environment(r) PROVE Records /\ AnswersKeep
  BY <1>a, <1>2 DEF Environment, NetworkMoves, SiteMoves, Age, coreVars, storageVars, fetcherVars
<1>3. ASSUME UNCHANGED vars PROVE Records /\ AnswersKeep
  BY <1>a, <1>3 DEF vars, coreVars, storageVars, fetcherVars
<1>4. ASSUME NEW s \in Sources, SourceStep(s) PROVE Records /\ AnswersKeep
  <2>1. /\ UNCHANGED <<list, activityBucket, draft>>
        /\ \A q \in Sources : q # s => check'[q] = check[q]
        /\ Asks(s) \/ Weighs(s) \/ Agrees(s) \/ StartsOver(s)
    BY <1>0, <1>4, SourceCases DEF storageVars, otherVars
  <2>2. ASSUME s \in Exchanges, NEW q \in DOMAIN check'[s].statuses
        PROVE  check'[s].statuses[q].est \in {"", "done"}
    <3>1. CASE Asks(s)
      <4>1. check[s].left \subseteq DOMAIN list
        BY <1>0 DEF StorageInv, TypeOK, FetcherTypeOK, IsCheck
      <4>2. PICK p \in check[s].left : \E result \in Results(s, p, list[p], check[s].statuses) :
              check'[s].statuses = result
        BY <3>1 DEF Asks
      <4>3. p \in DOMAIN list /\ check'[s].statuses \in Results(s, p, list[p], check[s].statuses)
        BY <4>1, <4>2
      <4>4. /\ DOMAIN check'[s].statuses = DOMAIN check[s].statuses \cup {p}
            /\ \A r \in DOMAIN check'[s].statuses : r # p => check'[s].statuses[r] = check[s].statuses[r]
            /\ check'[s].statuses[p].est \in {"", "done"}
        BY <1>0, <2>2, <4>3, ExchangeAnswers
      <4> QED BY <1>a, <2>2, <4>4
    <3>2. CASE Weighs(s) \/ Agrees(s) \/ StartsOver(s)
      BY <1>a, <2>2, <3>2 DEF Weighs, Agrees, StartsOver
    <3> QED BY <2>1, <3>1, <3>2
  <2> QED BY <1>0, <1>a, <2>1, <2>2
<1>5. ASSUME StartCycle PROVE Records /\ AnswersKeep
  <2>1. /\ list' = pendingBucket /\ UNCHANGED <<activityBucket, draft>>
        /\ \A s \in Sources : check'[s] \in {Unstarted, Started(s, pendingBucket)}
    BY <1>5 DEF StartCycle, GetPendingActivities, storageVars, otherVars
  <2>2. \A s \in Sources : DOMAIN check'[s].statuses = {}
    BY <2>1, UnstartedFields, StartedFields
  <2>3. \A q \in DOMAIN list' : q \in DOMAIN activityBucket /\ list'[q] = activityBucket[q]
    BY <1>0, <2>1 DEF StorageInv, BucketsAgree, PendingIsRecorded
  <2> QED BY <1>0, <1>a, <2>1, <2>2, <2>3
<1>6. ASSUME JoinExchanges PROVE Records /\ AnswersKeep
  <2>1. /\ UNCHANGED <<activityBucket, draft>>
        /\ list' = [r \in DOMAIN list |-> [list[r] EXCEPT !.tx = LearnTx(r)]]
    BY <1>6 DEF JoinExchanges, storageVars, otherVars
  <2>2. \A s \in Sources : s # Blockchain => check'[s] = check[s]
    BY <1>0, <1>6 DEF JoinExchanges, StorageInv, TypeOK, FetcherTypeOK
  <2>3. ASSUME NEW q \in DOMAIN list PROVE Plain(q, list'[q])
    <3>1. list[q] \in ActivityRecords
      BY <1>0 DEF StorageInv, TypeOK, FetcherTypeOK, IsMap
    <3>2. /\ list'[q].action = list[q].action /\ list'[q].est = list[q].est
          /\ list'[q].mst = list[q].mst /\ list'[q].tx = LearnTx(q)
      BY <2>1, <3>1 DEF ActivityRecords
    <3>3. list[q].tx = TxHash => LearnTx(q) = TxHash
      BY DEF LearnTx, TxHash, NoTx
    <3> QED BY <1>a, <3>2, <3>3 DEF Plain, IsPlain
  <2> QED BY <1>0, <1>a, <2>1, <2>2, <2>3
<1>7. ASSUME BeginPersist PROVE Records /\ AnswersKeep
  BY <1>a, <1>7 DEF BeginPersist, storageVars, otherVars
<1>8. ASSUME NEW r \in Requests, Persist(r) PROVE Records /\ AnswersKeep
  <2>1. r \in DOMAIN list
    BY <1>0, <1>8, PersistFields
  <2>2. Plain(r, Settle(r))
    BY <1>0, <2>1, SettlePlain
  <2>3. /\ DOMAIN list' = DOMAIN list /\ list'[r] = Settle(r)
        /\ \A q \in DOMAIN list : q # r => list'[q] = list[q]
        /\ check' = check /\ draft' = draft /\ DOMAIN activityBucket' = DOMAIN activityBucket
        /\ \A q \in DOMAIN activityBucket :
             activityBucket'[q] = activityBucket[q] \/ (q = r /\ activityBucket'[q] = Settle(r))
    BY <1>0, <1>8, PersistFields
  <2>4. \A q \in DOMAIN list' : Plain(q, list'[q])
    BY <1>a, <2>2, <2>3
  <2>5. \A q \in DOMAIN activityBucket' : Plain(q, activityBucket'[q])
    BY <1>a, <2>2, <2>3
  <2> QED BY <1>a, <2>3, <2>4, <2>5
<1>9. ASSUME DOMAIN list' = {}, \A s \in Sources : check'[s] = Unstarted,
             draft' = draft \/ DOMAIN draft' = {}, activityBucket' = activityBucket
      PROVE  Records /\ AnswersKeep
  <2>1. Records
    BY <1>a, <1>9
  <2>2. AnswersKeep
    BY <1>0, <1>9, UnstartedFields
  <2> QED BY <2>1, <2>2
<1>10. ASSUME StoreAuthSnapshot PROVE Records /\ AnswersKeep
  <2>1. DOMAIN list' = {} /\ (\A s \in Sources : check'[s] = Unstarted) /\ UNCHANGED <<draft, activityBucket>>
    BY <1>10 DEF StoreAuthSnapshot, Empty, storageVars, otherVars
  <2> HIDE DEF Records, AnswersKeep
  <2> QED BY <1>9, <2>1
<1>11. ASSUME Crash PROVE Records /\ AnswersKeep
  <2>1. /\ DOMAIN list' = {} /\ (\A s \in Sources : check'[s] = Unstarted)
        /\ DOMAIN draft' = {} /\ UNCHANGED activityBucket
    BY <1>11 DEF Crash, FetcherCrash, CoreCrash, Empty, storageVars
  <2> HIDE DEF Records, AnswersKeep
  <2> QED BY <1>9, <2>1
<1> HIDE DEF Records, AnswersKeep
<1>12. Records /\ AnswersKeep
  BY <1>1, <1>2, <1>3, <1>4, <1>5, <1>6, <1>7, <1>8, <1>10, <1>11 DEF Next, FetcherStep
<1>13. StorageInv' /\ HonestInv'
  BY <1>0, NextInv, HonestNext
<1>14. Written'
  BY <1>0, StepsKeep
<1>15. /\ DOMAIN draft' \subseteq Requests /\ DOMAIN activityBucket' \subseteq Requests
       /\ DOMAIN list' \subseteq DOMAIN activityBucket'
  BY <1>13, <1>14 DEF StorageInv, TypeOK, CoreTypeOK, IsMap, Written
\* Where the request of a record is at the exchange after the step.
<1>16. ASSUME NEW q \in Requests, site[q] \in AtRest,
              q \in DOMAIN activityBucket' \/ (q \in DOMAIN draft' /\ draft'[q].action = "deposit")
       PROVE  site'[q] \in AtRest
  <2>1. q \in DOMAIN activityBucket' => rpc'[q] = "recorded"
    BY <1>13 DEF StorageInv, HandlersFresh
  <2> QED BY <1>0, <1>16, <2>1, SiteRests
<1>17. ASSUME NEW q \in DOMAIN draft' PROVE Plain(q, draft[q])'
  <2>1. Plain(q, draft'[q])
    BY <1>12 DEF Records
  <2> QED BY <1>15, <1>16, <2>1 DEF Plain, IsPlain
<1>18. ASSUME NEW q \in DOMAIN activityBucket' PROVE Plain(q, activityBucket[q])'
  <2>1. Plain(q, activityBucket'[q])
    BY <1>12 DEF Records
  <2> QED BY <1>15, <1>16, <2>1 DEF Plain, IsPlain
<1>19. ASSUME NEW q \in DOMAIN list' PROVE Plain(q, list[q])'
  <2>1. Plain(q, list'[q])
    BY <1>12 DEF Records
  <2> QED BY <1>15, <1>16, <2>1 DEF Plain, IsPlain
<1> QED BY <1>12, <1>17, <1>18, <1>19 DEF DepositsPlain, AnswersKeep

------------------------------------------------------------------------------
\* The exchanges' balances.

\* What is told done is in the balances the exchange shows now.
LEMMA DoneIsInBalance ==
  ASSUME HonestInv, NEW r \in DOMAIN list, list[r].action \in {"trade", "deposit"}
  PROVE  /\ list[r].est = "done" => InBalance(r)
         /\ \A s \in Sources : r \in DOMAIN check[s].statuses /\ check[s].statuses[r].est = "done"
              => InBalance(r)
  BY DEF HonestInv, CopiesHonest, Honest, TrueOf, InBalance

\* The balances an exchange may answer with.
LEMMA BalanceAnswers ==
  ASSUME NEW e \in Exchanges, NEW b \in FetchBalances(e)
  PROVE  /\ b.effects \subseteq ExchangeBalances
         /\ b.valid => b.effects = ExchangeBalances
<1>0. e # Blockchain
  BY SourceAssumption
<1> DEFINE n == [valid |-> TRUE, effects |-> ExchangeBalances]
           m == [valid |-> FALSE, effects |-> {}]
<1>1. n.effects = ExchangeBalances /\ m.effects = {} /\ m.valid = FALSE
  BY Zenon
<1>2. b = n \/ b = m
  BY <1>0 DEF FetchBalances, FetchEBalanceData
<1> HIDE DEF n, m
<1> QED BY <1>1, <1>2

\* A step of a double check: the balances lie between the two rounds of answers.
LEMMA ExchangeSource ==
  ASSUME HonestInv, DepositsPlain, "silent" \notin Faults, NEW s \in Sources, SourceStep(s),
         NEW r \in DOMAIN list, list[r].action \in {"trade", "deposit"}, ExchangeHolds(r)
  PROVE  ExchangeHolds(r)'
<1>0. StorageInv /\ r \in Requests /\ list[r].dest \in Exchanges /\ list[r].dest \in Sources
  BY DEF HonestInv, StorageInv, TypeOK, FetcherTypeOK, IsMap, ActivityRecords, Sources
<1>1. /\ Running(s) /\ fpc' = fpc /\ list' = list /\ todo' = todo /\ valid' = valid /\ site' = site
      /\ \A q \in Sources : q # s => check'[q] = check[q]
      /\ Asks(s) \/ Weighs(s) \/ Agrees(s) \/ StartsOver(s)
  BY <1>0, SourceCases DEF otherVars
<1>2. CASE list[r].dest # s
  BY <1>0, <1>1, <1>2 DEF ExchangeHolds, ExchangeFits, ToldDone, DeniedDone, Open, InBalance
<1>3. CASE list[r].dest = s
  <2>1. s \in Exchanges /\ fpc = "exchanges" /\ Open(r)
    BY <1>0, <1>1, <1>3, SourceAssumption DEF Running, Open
  <2>2. (r \in check[s].bal.effects => InBalance(r)) /\ ExchangeFits(check[s], r)
    BY <1>3, <2>1 DEF ExchangeHolds
  <2>3. ASSUME r \in check'[s].bal.effects => InBalance(r), ExchangeFits(check[s], r)'
        PROVE  ExchangeHolds(r)'
    BY <1>1, <1>3, <2>1, <2>3 DEF ExchangeHolds, InBalance
  <2>4. r \in Targets(s, list) <=> IsExchangePending(list[r])
    BY <1>3, <2>1, SourceAssumption DEF Targets
  <2>5. CASE Asks(s)
    <3>1. PICK q \in check[s].left : \E result \in Results(s, q, list[q], check[s].statuses) :
            /\ check[s].step # "done"
            /\ check'[s].step = check[s].step
            /\ check'[s].left = check[s].left \ {q}
            /\ check'[s].statuses = result
            /\ check'[s].preStatuses = check[s].preStatuses
            /\ check'[s].bal = check[s].bal
      BY <2>5 DEF Asks
    <3>2. q \in DOMAIN list /\ check'[s].statuses \in Results(s, q, list[q], check[s].statuses)
      BY <1>0, <3>1 DEF StorageInv, TypeOK, FetcherTypeOK, IsCheck
    <3>3. list[q].action = "deposit" => site[q] \in AtRest
      BY <3>2 DEF DepositsPlain, Plain
    <3>4. /\ DOMAIN check'[s].statuses = DOMAIN check[s].statuses \cup {q}
          /\ \A p \in DOMAIN check'[s].statuses : p # q => check'[s].statuses[p] = check[s].statuses[p]
          /\ /\ check'[s].statuses[q].est # "done" /\ ~check'[s].statuses[q].err
             /\ list[q].action \in {"trade", "deposit"}
             => ~InBalance(q)
      <4>1. /\ DOMAIN check'[s].statuses = DOMAIN check[s].statuses \cup {q}
            /\ \A p \in DOMAIN check'[s].statuses : p # q => check'[s].statuses[p] = check[s].statuses[p]
        BY ONLY <1>0, <2>1, <3>2, ExchangeAnswers
      <4>2. ASSUME check'[s].statuses[q].est # "done", ~check'[s].statuses[q].err,
                   list[q].action \in {"trade", "deposit"}
            PROVE  ~InBalance(q)
        <5>1. list[q].action = "trade" \/ (list[q].action = "deposit" /\ site[q] \in AtRest)
          BY <3>3, <4>2
        <5> QED BY <1>0, <2>1, <3>2, <4>2, <5>1, ExchangeAnswers
      <4> QED BY <4>1, <4>2
    <3>5. IsExchangePending(list[r]) => r \in check'[s].left \cup DOMAIN check'[s].statuses
      BY <2>2, <3>1, <3>4 DEF ExchangeFits
    <3>6. ToldDone(check[s], r)' => ToldDone(check[s], r)
      BY <1>1, <3>1 DEF ToldDone
    <3>7. DeniedDone(check[s], r)' => DeniedDone(check[s], r) \/ ~InBalance(r)
      BY <3>4 DEF DeniedDone
    <3>8. ExchangeFits(check[s], r)'
      BY <1>1, <2>2, <3>1, <3>5, <3>6, <3>7 DEF ExchangeFits
    <3> QED BY <2>2, <2>3, <3>1, <3>8
  <2>6. CASE Weighs(s)
    <3>1. /\ check'[s].bal.effects \subseteq ExchangeBalances
          /\ check'[s].bal.valid => check'[s].bal.effects = ExchangeBalances
      BY <2>1, <2>6, BalanceAnswers DEF Weighs
    <3>2. r \in ExchangeBalances <=> InBalance(r)
      BY <1>0 DEF ExchangeBalances, InBalance
    <3>3. ToldDone(check[s], r)' => InBalance(r)
      BY <1>1, <2>6, DoneIsInBalance DEF ToldDone, Weighs
    <3>4. ExchangeFits(check[s], r)'
      BY <1>1, <2>4, <2>6, <3>1, <3>2, <3>3 DEF ExchangeFits, DeniedDone, Weighs
    <3> QED BY <2>3, <3>1, <3>2, <3>4
  <2>7. CASE Agrees(s)
    <3>1. ToldDone(check[s], r)' => ToldDone(check[s], r)
      BY <1>1, <2>7 DEF ToldDone, Agrees, unchanged
    <3>2. ExchangeFits(check[s], r)'
      BY <1>1, <2>2, <2>7, <3>1 DEF ExchangeFits, DeniedDone, Agrees
    <3> QED BY <2>2, <2>3, <2>7, <3>2 DEF Agrees
  <2>8. CASE StartsOver(s)
    <3>1. ExchangeFits(check[s], r)'
      BY <1>1, <2>4, <2>8 DEF ExchangeFits, StartsOver
    <3> QED BY <2>3, <2>8, <3>1 DEF StartsOver
  <2> QED BY <1>1, <2>5, <2>6, <2>7, <2>8
<1> QED BY <1>2, <1>3

\* The write-back turns what the double check knows into the final record.
LEMMA ExchangePersist ==
  ASSUME StayInv, ChecksInStep, DepositsPlain, NEW p \in Requests, Persist(p),
         NEW r \in DOMAIN list, list[r].action \in {"trade", "deposit"}, ExchangeHolds(r)
  PROVE  ExchangeHolds(r)'
<1>0. /\ StorageInv /\ list[r] \in ActivityRecords
      /\ list[r].dest \in Exchanges /\ list[r].dest \in Sources
  BY DEF StayInv, StorageInv, TypeOK, FetcherTypeOK, IsMap, ActivityRecords, Sources
<1>1. /\ fpc = "persist" /\ fpc' = "persist" /\ p \in todo /\ todo' = todo \ {p}
      /\ p \in DOMAIN list /\ list'[p] = Settle(p)
      /\ \A q \in DOMAIN list : q # p => list'[q] = list[q]
      /\ check' = check /\ site' = site
      /\ valid' => valid /\ ~(HasEStatus(p) /\ estatus(p).err)
  BY <1>0, PersistFields
<1>2. CASE r # p
  BY <1>1, <1>2 DEF ExchangeHolds, ExchangeFits, ToldDone, DeniedDone, Open, InBalance
<1>3. CASE r = p
  <2>1. Settle(r).dest = list[r].dest
    BY <1>0 DEF Settle, ActivityRecords
  <2>2. Settle(r).est = IF HasEStatus(r) /\ IsExchangePending(list[r]) THEN estatus(r).est ELSE list[r].est
    BY <1>0 DEF Settle, ActivityRecords
  <2>3. Open(r)
    BY <1>1, <1>3 DEF Open
  <2>4. /\ check[list[r].dest].step = "done" /\ check[list[r].dest].left = {}
        /\ valid => check[list[r].dest].bal.valid
    BY <1>0, <1>1 DEF ChecksInStep
  <2>5. IsExchangePending(list[r]) \/ list[r].est = "done"
    <3>1. /\ IsPending(activityBucket[r]) /\ r \in DOMAIN activityBucket
          /\ activityBucket[r].est = list[r].est /\ activityBucket[r].mst = list[r].mst
          /\ activityBucket[r].action = list[r].action
      BY <1>0, <1>1, <1>3 DEF StayInv, ListIsFresh, SameStatuses, StorageInv, CycleOwnsList,
                            BucketsAgree, PendingIsRecorded, PendingIsComplete
    <3>2. list[r].action = "deposit" => list[r].est \in {"", "done"}
      BY DEF DepositsPlain, Plain, IsPlain
    <3> QED BY <3>1, <3>2 DEF IsPending, IsExchangePending, ExchangeWaits
  <2>6. IsExchangePending(list[r]) => HasEStatus(r)
    BY <2>3, <2>4 DEF ExchangeHolds, ExchangeFits, HasEStatus
  <2>7. ASSUME valid' PROVE Settle(r).est = "done" <=> r \in check[list[r].dest].bal.effects
    <3>1. /\ ToldDone(check[list[r].dest], r) => r \in check[list[r].dest].bal.effects
          /\ DeniedDone(check[list[r].dest], r) => r \notin check[list[r].dest].bal.effects
      BY <1>1, <2>3, <2>4, <2>7 DEF ExchangeHolds, ExchangeFits
    <3>2. Settle(r).est = "done" => ToldDone(check[list[r].dest], r)
      BY <2>2, <2>4 DEF ToldDone, HasEStatus, estatus
    <3>3. Settle(r).est # "done" => DeniedDone(check[list[r].dest], r)
      BY <1>1, <1>3, <2>2, <2>5, <2>6, <2>7 DEF DeniedDone, HasEStatus, estatus
    <3> QED BY <3>1, <3>2, <3>3
  <2>8. r \in check[list[r].dest].bal.effects => InBalance(r)
    BY DEF ExchangeHolds
  <2>9. ~Open(r)'
    BY <1>1, <1>3 DEF Open
  <2> QED BY <1>1, <1>3, <2>1, <2>7, <2>8, <2>9 DEF ExchangeHolds, InBalance
<1> QED BY <1>2, <1>3

\* Every step keeps the exchanges' balances and the records in line.
LEMMA ExchangeKeeps ==
  ASSUME HonestInv, StayInv, ChecksInStep, DepositsPlain, ExchangesFit, [Next]_vars
  PROVE  ExchangesFit'
<1> SUFFICES ASSUME "silent" \notin Faults, NEW r \in DOMAIN list', list'[r].action \in {"trade", "deposit"}
             PROVE  ExchangeHolds(r)'
  BY DEF ExchangesFit
<1>0. /\ StorageInv /\ DOMAIN list \subseteq Requests
      /\ \A q \in DOMAIN list : list[q] \in ActivityRecords
      /\ \A e \in Exchanges : e \in Sources /\ e # Blockchain
  BY SourceAssumption DEF HonestInv, StorageInv, TypeOK, FetcherTypeOK, IsMap, Sources
<1>1. r \in DOMAIN list /\ list[r].action \in {"trade", "deposit"} => ExchangeHolds(r)
  BY DEF ExchangesFit
<1>2. ASSUME Outside, WorldKeeps PROVE ExchangeHolds(r)'
  <2>1. r \in DOMAIN list /\ ExchangeHolds(r) /\ UNCHANGED <<fpc, list, check, todo, valid>>
    BY <1>1, <1>2 DEF Outside, fetcherVars
  <2>2. InBalance(r) => InBalance(r)'
    BY <1>0, <1>2, <2>1 DEF WorldKeeps, InBalance
  <2> QED BY <2>1, <2>2 DEF ExchangeHolds, ExchangeFits, ToldDone, DeniedDone, Open
<1>3. ASSUME NEW s \in Sources, SourceStep(s) PROVE ExchangeHolds(r)'
  BY <1>0, <1>1, <1>3, SourceCases, ExchangeSource
<1>4. ASSUME StartCycle PROVE ExchangeHolds(r)'
  <2>1. /\ fpc' = "exchanges" /\ list' = pendingBucket
        /\ \A s \in Sources : s # Blockchain => check'[s] = Started(s, list')
    BY <1>4 DEF StartCycle, GetPendingActivities
  <2>2. list'[r].dest \in Exchanges
    BY <1>0, <2>1 DEF StorageInv, TypeOK, IsMap, ActivityRecords
  <2>3. /\ check'[list'[r].dest].step = "pre" /\ check'[list'[r].dest].bal.effects = {}
        /\ check'[list'[r].dest].left = Targets(list'[r].dest, list')
    BY <1>0, <2>1, <2>2, StartedFields
  <2>4. r \in Targets(list'[r].dest, list') <=> IsExchangePending(list'[r])
    BY <1>0, <2>2 DEF Targets
  <2> QED BY <2>1, <2>3, <2>4 DEF ExchangeHolds, ExchangeFits
<1>5. ASSUME JoinExchanges PROVE ExchangeHolds(r)'
  <2>1. /\ fpc = "exchanges" /\ fpc' = "blockchain" /\ todo' = todo /\ site' = site
        /\ list' = [q \in DOMAIN list |-> [list[q] EXCEPT !.tx = LearnTx(q)]]
        /\ \A s \in Sources : s # Blockchain => check'[s] = check[s]
    BY <1>0, <1>5 DEF JoinExchanges, otherVars, StorageInv, TypeOK, FetcherTypeOK
  <2>2. r \in DOMAIN list /\ list[r].dest \in Exchanges
    BY <1>0, <2>1 DEF ActivityRecords
  <2>3. /\ list'[r].action = list[r].action /\ list'[r].est = list[r].est
        /\ list'[r].mst = list[r].mst /\ list'[r].dest = list[r].dest
    BY <1>0, <2>1, <2>2 DEF ActivityRecords
  <2>4. check'[list'[r].dest] = check[list[r].dest]
    BY <1>0, <2>1, <2>2, <2>3
  <2>5. IsExchangePending(list'[r]) <=> IsExchangePending(list[r])
    BY <2>3 DEF IsExchangePending, ExchangeWaits
  <2>6. ExchangeHolds(r) /\ Open(r)
    BY <1>1, <2>1, <2>2, <2>3 DEF Open
  <2> QED BY <2>1, <2>3, <2>4, <2>5, <2>6 DEF ExchangeHolds, ExchangeFits, ToldDone, DeniedDone, InBalance
<1>6. ASSUME BeginPersist PROVE ExchangeHolds(r)'
  <2>1. fpc = "blockchain" /\ todo' = DOMAIN list /\ UNCHANGED <<list, check, site>>
    BY <1>6 DEF BeginPersist, otherVars
  <2> QED BY <1>1, <2>1 DEF ExchangeHolds, ExchangeFits, ToldDone, DeniedDone, Open, InBalance
<1>7. ASSUME NEW p \in Requests, Persist(p) PROVE ExchangeHolds(r)'
  <2>1. /\ DOMAIN list' = DOMAIN list /\ p \in DOMAIN list /\ list'[p] = Settle(p)
        /\ \A q \in DOMAIN list : q # p => list'[q] = list[q]
    BY <1>0, <1>7, PersistFields
  <2>2. Settle(p).action = list[p].action
    BY <1>0, <2>1, SettlePlain
  <2> QED BY <1>1, <1>7, <2>1, <2>2, ExchangePersist
<1>8. ASSUME StoreAuthSnapshot \/ Crash PROVE FALSE
  BY <1>8 DEF StoreAuthSnapshot, Crash, FetcherCrash, Empty
<1>9. ASSUME NEW q \in Requests, Core(q) \/ Environment(q) PROVE ExchangeHolds(r)'
  BY <1>0, <1>2, <1>9, OutsideSteps, CoreWorld, EnvironmentWorld
<1>10. ASSUME UNCHANGED vars PROVE ExchangeHolds(r)'
  <2>1. UNCHANGED <<site, chain>>
    BY <1>10 DEF vars
  <2> QED BY <1>0, <1>2, <1>10, <2>1, OutsideSteps, QuietWorld
<1> QED BY <1>3, <1>4, <1>5, <1>6, <1>7, <1>8, <1>9, <1>10 DEF Next, FetcherStep

------------------------------------------------------------------------------
\* The reserve's balances.

\* What is told mined is in the balances a node shows now.
LEMMA MinedIsMined ==
  ASSUME HonestInv, NEW r \in DOMAIN list
  PROVE  /\ list[r].mst = "mined" => IsMined(r)
         /\ \A s \in Sources : SaysMined(check[s].statuses, r) => IsMined(r)
  BY DEF HonestInv, CopiesHonest, Honest, TrueOf, IsMined, SaysMined

\* The balances a node may answer with.
LEMMA ReserveAnswers ==
  ASSUME NEW b \in FetchBalances(Blockchain)
  PROVE  /\ b.effects \subseteq ReserveBalances
         /\ b.valid => b.effects = ReserveBalances
<1> DEFINE n == [valid |-> TRUE, effects |-> ReserveBalances]
           m == [valid |-> FALSE, effects |-> {}]
<1>1. n.effects = ReserveBalances /\ m.effects = {} /\ m.valid = FALSE
  BY Zenon
<1>2. b = n \/ b = m
  BY DEF FetchBalances, FetchBalanceData
<1> HIDE DEF n, m
<1> QED BY <1>1, <1>2

\* Without failing status calls, a transaction that is not reported as mined is
\* not mined.
LEMMA ChainAnswers ==
  ASSUME StorageInv, "status" \notin Faults, NEW q \in DOMAIN list,
         NEW result \in Results(Blockchain, q, list[q], check[Blockchain].statuses)
  PROVE  /\ \A r : r # q => (SaysMined(result, r) <=> SaysMined(check[Blockchain].statuses, r))
         /\ ~SaysMined(result, q) => ~IsMined(q)
<1>1. PICK w \in TxStatus(q) :
        result = IF IsFinal(q, w)
                   THEN Put(check[Blockchain].statuses, q,
                            [est |-> list[q].est, tx |-> list[q].tx, err |-> FALSE,
                             mst |-> IF w = "mined" THEN "mined" ELSE "failed"])
                   ELSE check[Blockchain].statuses
  BY DEF Results, BlockchainResults
<1>2. IsMined(q) => w = "mined"
  BY <1>1 DEF TxStatus, IsMined
<1> DEFINE n == [est |-> list[q].est, tx |-> list[q].tx, err |-> FALSE,
                 mst |-> IF w = "mined" THEN "mined" ELSE "failed"]
<1>3. n.mst = IF w = "mined" THEN "mined" ELSE "failed"
  BY Zenon
<1>4. result = IF IsFinal(q, w) THEN Put(check[Blockchain].statuses, q, n)
                                ELSE check[Blockchain].statuses
  BY <1>1
<1> HIDE DEF n
<1>5. \A r : r # q => (SaysMined(result, r) <=> SaysMined(check[Blockchain].statuses, r))
  BY <1>4 DEF SaysMined, Put
<1>6. w = "mined" => SaysMined(result, q)
  BY <1>3, <1>4 DEF SaysMined, Put, IsFinal
<1> QED BY <1>2, <1>5, <1>6

\* A step of the network's double check.
LEMMA ReserveSource ==
  ASSUME HonestInv, "status" \notin Faults, NEW s \in Sources, SourceStep(s),
         NEW r \in DOMAIN list, ReserveHolds(r)
  PROVE  ReserveHolds(r)'
<1>0. StorageInv /\ r \in Requests /\ Blockchain \in Sources
  BY DEF HonestInv, StorageInv, TypeOK, FetcherTypeOK, IsMap, Sources
<1>1. /\ Running(s) /\ fpc' = fpc /\ list' = list /\ todo' = todo /\ chain' = chain
      /\ \A q \in Sources : q # s => check'[q] = check[q]
      /\ Asks(s) \/ Weighs(s) \/ Agrees(s) \/ StartsOver(s)
  BY <1>0, SourceCases DEF otherVars
<1>2. CASE s # Blockchain
  BY <1>0, <1>1, <1>2 DEF Running, ReserveHolds, IsMined
<1>3. CASE s = Blockchain
  <2>1. fpc = "blockchain" /\ Open(r)
    BY <1>1, <1>3 DEF Running, Open
  <2>2. (r \in check[Blockchain].bal.effects => IsMined(r)) /\ ReserveFits(check[Blockchain], r)
    BY <2>1 DEF ReserveHolds
  <2>3. ASSUME r \in check'[Blockchain].bal.effects => IsMined(r), ReserveFits(check[Blockchain], r)'
        PROVE  ReserveHolds(r)'
    BY <1>1, <2>1, <2>3 DEF ReserveHolds, IsMined
  <2>4. CASE Asks(s)
    <3>1. PICK q \in check[Blockchain].left :
            \E result \in Results(Blockchain, q, list[q], check[Blockchain].statuses) :
              /\ check[Blockchain].step # "done"
              /\ check'[Blockchain].step = check[Blockchain].step
              /\ check'[Blockchain].left = check[Blockchain].left \ {q}
              /\ check'[Blockchain].statuses = result
              /\ check'[Blockchain].preStatuses = check[Blockchain].preStatuses
              /\ check'[Blockchain].bal = check[Blockchain].bal
      BY <1>3, <2>4 DEF Asks
    <3>2. /\ q \in DOMAIN list
          /\ check'[Blockchain].statuses \in Results(Blockchain, q, list[q], check[Blockchain].statuses)
      BY <1>0, <3>1 DEF StorageInv, TypeOK, FetcherTypeOK, IsCheck
    <3>3. /\ r # q /\ SaysMined(check[Blockchain].statuses, r) => SaysMined(check'[Blockchain].statuses, r)
          /\ r = q /\ ~SaysMined(check'[Blockchain].statuses, r) => ~IsMined(r)
      BY ONLY <1>0, <3>2, "status" \notin Faults, ChainAnswers
    <3>4. ToldMined(check[Blockchain], r)' => ToldMined(check[Blockchain], r)
      BY <1>1, <3>1 DEF ToldMined, SaysMined
    <3>5. DeniedMined(check[Blockchain], r)' => DeniedMined(check[Blockchain], r) \/ ~IsMined(r)
      BY <1>1, <3>1, <3>3 DEF DeniedMined, SaysMined
    <3>6. ReserveFits(check[Blockchain], r)'
      BY <2>2, <3>1, <3>4, <3>5 DEF ReserveFits
    <3> QED BY <2>2, <2>3, <3>1, <3>6
  <2>5. CASE Weighs(s)
    <3>1. /\ check'[Blockchain].bal.effects \subseteq ReserveBalances
          /\ check'[Blockchain].bal.valid => check'[Blockchain].bal.effects = ReserveBalances
      BY <1>3, <2>5, ReserveAnswers DEF Weighs
    <3>2. r \in ReserveBalances <=> IsMined(r)
      BY <1>0 DEF ReserveBalances, IsMined
    <3>3. ToldMined(check[Blockchain], r)' => IsMined(r)
      BY <1>0, <1>1, <1>3, <2>5, MinedIsMined DEF ToldMined, Weighs, SaysMined
    <3>4. ~DeniedMined(check[Blockchain], r)'
      BY <1>1, <1>3, <2>5 DEF DeniedMined, Weighs
    <3>5. ReserveFits(check[Blockchain], r)'
      BY <3>1, <3>2, <3>3, <3>4 DEF ReserveFits
    <3> QED BY <2>3, <3>1, <3>2, <3>5
  <2>6. CASE Agrees(s)
    <3>1. ToldMined(check[Blockchain], r)' => ToldMined(check[Blockchain], r)
      BY <1>1, <1>3, <2>6 DEF ToldMined, Agrees, unchanged, SaysMined
    <3>2. DeniedMined(check[Blockchain], r)' => DeniedMined(check[Blockchain], r)
      BY <1>1, <1>3, <2>6 DEF DeniedMined, Agrees, SaysMined
    <3>3. ReserveFits(check[Blockchain], r)'
      BY <1>3, <2>2, <2>6, <3>1, <3>2 DEF ReserveFits, Agrees
    <3> QED BY <1>3, <2>2, <2>3, <2>6, <3>3 DEF Agrees
  <2>7. CASE StartsOver(s)
    <3>1. ReserveFits(check[Blockchain], r)'
      BY <1>3, <2>7 DEF ReserveFits, StartsOver
    <3> QED BY <1>3, <2>3, <2>7, <3>1 DEF StartsOver
  <2> QED BY <1>1, <2>4, <2>5, <2>6, <2>7
<1> QED BY <1>2, <1>3

\* The write-back of a deposit.
LEMMA ReservePersist ==
  ASSUME StayInv, ChecksInStep, DepositsPlain, NEW p \in Requests, Persist(p),
         NEW r \in DOMAIN list, list[r].action = "deposit", ReserveHolds(r)
  PROVE  ReserveHolds(r)'
<1>0. StorageInv /\ list[r] \in ActivityRecords /\ Blockchain \in Sources
  BY DEF StayInv, StorageInv, TypeOK, FetcherTypeOK, IsMap, Sources
<1>1. /\ fpc = "persist" /\ fpc' = "persist" /\ p \in todo /\ todo' = todo \ {p}
      /\ p \in DOMAIN list /\ DOMAIN list' = DOMAIN list /\ list'[p] = Settle(p)
      /\ \A q \in DOMAIN list : q # p => list'[q] = list[q]
      /\ check' = check /\ chain' = chain
  BY <1>0, PersistFields
<1>2. CASE r # p
  <2>1. r \in Targets(Blockchain, list') <=> r \in Targets(Blockchain, list)
    BY <1>1, <1>2 DEF Targets
  <2>2. list'[r] = list[r]
    BY <1>1, <1>2
  <2>3. ReserveFits(check[Blockchain], r) => ReserveFits(check[Blockchain], r)'
    BY <1>1, <2>1, <2>2 DEF ReserveFits, ToldMined, DeniedMined, SaysMined
  <2> QED BY <1>1, <1>2, <2>2, <2>3 DEF ReserveHolds, Open, IsMined
<1>3. CASE r = p
  <2> DEFINE c == check[Blockchain]
  <2>1. Open(r) /\ c.step = "done" /\ c.left = {}
    BY <1>0, <1>1, <1>3 DEF Open, ChecksInStep
  <2>2. /\ IsPending(list[r]) /\ list[r].mst # "failed" /\ list[r].tx = TxHash
        /\ list[r].est \in {"", "done"}
    <3>1. /\ IsPending(activityBucket[r]) /\ r \in DOMAIN activityBucket
          /\ activityBucket[r].est = list[r].est /\ activityBucket[r].mst = list[r].mst
          /\ activityBucket[r].action = list[r].action
      BY <1>0, <1>1, <1>3 DEF StayInv, ListIsFresh, SameStatuses, StorageInv, CycleOwnsList,
                            BucketsAgree, PendingIsRecorded, PendingIsComplete
    <3>2. IsPending(list[r]) /\ list[r].mst # "failed"
      BY <3>1 DEF IsPending, ExchangeWaits, MiningWaits
    <3> QED BY <3>2 DEF DepositsPlain, Plain, IsPlain
  <2>3. list[r].mst # "mined" => MiningWaits(list[r]) /\ r \in Targets(Blockchain, list)
    BY <1>0, <2>2 DEF ActivityRecords, MiningStatuses, MiningWaits, IsBlockchainPending, Targets
  <2>4. Settle(r).mst = IF HasBStatus(r) /\ MiningWaits(list[r]) THEN bstatus(r).mst ELSE list[r].mst
    <3> DEFINE a == [list[r] EXCEPT
                       !.est = IF HasEStatus(r) /\ IsExchangePending(list[r])
                                 THEN estatus(r).est ELSE list[r].est,
                       !.tx  = LearnTx(r)]
    <3>1. /\ a.action = list[r].action /\ a.mst = list[r].mst
          /\ a.est = IF HasEStatus(r) /\ IsExchangePending(list[r]) THEN estatus(r).est ELSE list[r].est
          /\ DOMAIN a = {"action", "dest", "token", "est", "mst", "tx"}
      BY <1>0 DEF ActivityRecords
    <3>2. HasEStatus(r) => estatus(r).est \in {"", "done"}
      BY <1>0 DEF DepositsPlain, HasEStatus, estatus, ActivityRecords
    <3>3. Settle(r) = [a EXCEPT !.mst = IF HasBStatus(r) /\ IsBlockchainPending(a)
                                          THEN bstatus(r).mst ELSE a.mst]
      BY DEF Settle
    <3> HIDE DEF a
    <3>4. Settle(r).mst = IF HasBStatus(r) /\ IsBlockchainPending(a) THEN bstatus(r).mst ELSE a.mst
      BY <3>1, <3>3
    <3>5. IsBlockchainPending(a) <=> MiningWaits(list[r])
      BY <2>2, <3>1, <3>2 DEF IsBlockchainPending, MiningWaits
    <3> QED BY <3>1, <3>4, <3>5
  <2>5. /\ c.bal.valid /\ ToldMined(c, r) => r \in c.bal.effects
        /\ DeniedMined(c, r) => r \notin c.bal.effects
    BY <1>1, <2>1 DEF ReserveHolds, ReserveFits
  <2>6. Settle(r).mst = "mined" => ToldMined(c, r)
    BY <2>1, <2>4 DEF ToldMined, SaysMined, HasBStatus, bstatus
  <2>7. Settle(r).mst # "mined" => DeniedMined(c, r)
    BY <2>1, <2>3, <2>4 DEF DeniedMined, SaysMined, HasBStatus, bstatus, MiningWaits
  <2>8. (r \in c.bal.effects => IsMined(r)) /\ ~Open(r)'
    BY <1>1, <1>3 DEF ReserveHolds, Open
  <2> QED BY <1>1, <1>3, <2>5, <2>6, <2>7, <2>8 DEF ReserveHolds, IsMined
<1> QED BY <1>2, <1>3

\* Every step keeps the reserve's balances and the records in line.
LEMMA ReserveKeeps ==
  ASSUME HonestInv, StayInv, ChecksInStep, DepositsPlain, ReservesFit, [Next]_vars
  PROVE  ReservesFit'
<1> SUFFICES ASSUME "status" \notin Faults, NEW r \in DOMAIN list', list'[r].action = "deposit"
             PROVE  ReserveHolds(r)'
  BY DEF ReservesFit
<1>0. /\ StorageInv /\ DOMAIN list \subseteq Requests /\ Blockchain \in Sources
      /\ \A q \in DOMAIN list : list[q] \in ActivityRecords
  BY DEF HonestInv, StorageInv, TypeOK, FetcherTypeOK, IsMap, Sources
<1>1. r \in DOMAIN list /\ list[r].action = "deposit" => ReserveHolds(r)
  BY DEF ReservesFit
<1>2. ASSUME Outside, WorldKeeps PROVE ReserveHolds(r)'
  <2>1. r \in DOMAIN list /\ ReserveHolds(r) /\ UNCHANGED <<fpc, list, check, todo>>
    BY <1>1, <1>2 DEF Outside, fetcherVars
  <2>2. IsMined(r) => IsMined(r)'
    BY <1>0, <1>2, <2>1 DEF WorldKeeps, IsMined
  <2> QED BY <2>1, <2>2 DEF ReserveHolds, ReserveFits, ToldMined, DeniedMined, SaysMined, Open
<1>3. ASSUME NEW s \in Sources, SourceStep(s) PROVE ReserveHolds(r)'
  BY <1>0, <1>1, <1>3, SourceCases, ReserveSource
<1>4. ASSUME StartCycle PROVE ReserveHolds(r)'
  <2>1. fpc' = "exchanges" /\ check'[Blockchain] = Unstarted
    BY <1>0, <1>4 DEF StartCycle
  <2> QED BY <2>1, UnstartedFields DEF ReserveHolds
<1>5. ASSUME JoinExchanges PROVE ReserveHolds(r)'
  <2>1. fpc' = "blockchain" /\ check'[Blockchain] = Started(Blockchain, list')
    BY <1>0, <1>5 DEF JoinExchanges, StorageInv, TypeOK, FetcherTypeOK
  <2> QED BY <2>1, StartedFields DEF ReserveHolds, ReserveFits
<1>6. ASSUME BeginPersist PROVE ReserveHolds(r)'
  <2>1. fpc = "blockchain" /\ todo' = DOMAIN list /\ UNCHANGED <<list, check, chain>>
    BY <1>6 DEF BeginPersist, otherVars
  <2> QED BY <1>1, <2>1 DEF ReserveHolds, ReserveFits, ToldMined, DeniedMined, SaysMined, Open, IsMined
<1>7. ASSUME NEW p \in Requests, Persist(p) PROVE ReserveHolds(r)'
  <2>1. /\ DOMAIN list' = DOMAIN list /\ p \in DOMAIN list /\ list'[p] = Settle(p)
        /\ \A q \in DOMAIN list : q # p => list'[q] = list[q]
    BY <1>0, <1>7, PersistFields
  <2>2. Settle(p).action = list[p].action
    BY <1>0, <2>1, SettlePlain
  <2> QED BY <1>1, <1>7, <2>1, <2>2, ReservePersist
<1>8. ASSUME StoreAuthSnapshot \/ Crash PROVE FALSE
  BY <1>8 DEF StoreAuthSnapshot, Crash, FetcherCrash, Empty
<1>9. ASSUME NEW q \in Requests, Core(q) \/ Environment(q) PROVE ReserveHolds(r)'
  BY <1>0, <1>2, <1>9, OutsideSteps, CoreWorld, EnvironmentWorld
<1>10. ASSUME UNCHANGED vars PROVE ReserveHolds(r)'
  <2>1. UNCHANGED <<site, chain>>
    BY <1>10 DEF vars
  <2> QED BY <1>0, <1>2, <1>10, <2>1, OutsideSteps, QuietWorld
<1> QED BY <1>3, <1>4, <1>5, <1>6, <1>7, <1>8, <1>9, <1>10 DEF Next, FetcherStep

------------------------------------------------------------------------------
\* The cycle is idle and nothing is recorded when the server starts.
LEMMA CoherentInit == Init => CoherentInv
<1> SUFFICES ASSUME Init PROVE CoherentInv
  OBVIOUS
<1>1. HonestInv /\ StayInv /\ ChecksInStep /\ Written
  BY HonestInit, StayInit, StepsStart
<1>2. DOMAIN list = {} /\ DOMAIN draft = {} /\ DOMAIN activityBucket = {}
  BY DEF Init, FetcherInit, Empty, CoreInit, StorageInit
<1>3. \A e \in Exchanges : check[e] = Unstarted
  BY DEF Init, FetcherInit, Sources
<1>4. DepositsPlain
  BY <1>2, <1>3, UnstartedFields DEF DepositsPlain
<1> QED BY <1>1, <1>2, <1>4 DEF CoherentInv, ExchangesFit, ReservesFit

\* The inductive step: the parts one after the other.
LEMMA CoherentNext == CoherentInv /\ [Next]_vars => CoherentInv'
<1> SUFFICES ASSUME CoherentInv, [Next]_vars PROVE CoherentInv'
  OBVIOUS
<1>1. /\ HonestInv /\ StayInv /\ StorageInv /\ ChecksInStep /\ Written /\ DepositsPlain
      /\ ExchangesFit /\ ReservesFit
  BY DEF CoherentInv, HonestInv
<1>2. HonestInv' /\ StayInv'
  BY <1>1, HonestNext, StayNext
<1>3. ChecksInStep' /\ Written'
  BY <1>1, StepsKeep
<1>4. DepositsPlain'
  BY <1>1, PlainKeeps
<1>5. ExchangesFit'
  BY <1>1, ExchangeKeeps
<1>6. ReservesFit'
  BY <1>1, ReserveKeeps
<1> QED BY <1>2, <1>3, <1>4, <1>5, <1>6 DEF CoherentInv

\* The inductive invariant of the double checks.
LEMMA CoherentInvHolds == Spec => []CoherentInv
  BY CoherentInit, CoherentNext, PTL DEF Spec

\* The step that stores a valid snapshot, and what it stores.
LEMMA SnapshotStep ==
  ASSUME CoherentInv, [Next]_vars, StoresValidSnapshot
  PROVE  /\ fpc = "persist" /\ valid /\ todo = {}
         /\ snapshot'.rbal = check[Blockchain].bal
         /\ \A e \in Exchanges : snapshot'.ebal[e] = check[e].bal
         /\ snapshot'.pendings = [r \in {q \in DOMAIN list : IsPending(list[q])} |-> list[r]]
         /\ \A r \in DOMAIN list : r \in DOMAIN activityBucket /\ activityBucket[r] = list[r]
<1>0. StorageInv /\ ChecksInStep /\ Written
  BY DEF CoherentInv, HonestInv
<1>1. fpc = "persist" /\ fpc' = "idle" /\ snapshot' # snapshot /\ snapshot'.valid
  BY DEF StoresValidSnapshot
<1>2. ~Crash /\ ~UNCHANGED vars
  BY <1>1 DEF Crash, FetcherCrash, vars, fetcherVars
<1>3. \A r \in Requests : ~Core(r) /\ ~Environment(r)
  BY <1>1 DEF Core, Environment, NetworkMoves, SiteMoves, Age, fetcherVars
<1>4. StoreAuthSnapshot
  BY <1>1, <1>2, <1>3 DEF Next, FetcherStep, SourceStep, FetchStatus, FetchBalance, Compare,
                         StartCycle, JoinExchanges, BeginPersist, Persist
<1>5. /\ todo = {}
      /\ snapshot' = [valid |-> valid, ebal |-> EBalances, rbal |-> check[Blockchain].bal,
                      pendings |-> [r \in {q \in DOMAIN list : IsPending(list[q])} |-> list[r]]]
  BY <1>1, <1>4 DEF StoreAuthSnapshot
<1> DEFINE P == [r \in {q \in DOMAIN list : IsPending(list[q])} |-> list[r]]
           n == [valid |-> valid, ebal |-> EBalances, rbal |-> check[Blockchain].bal, pendings |-> P]
<1>6. n.valid = valid /\ n.ebal = EBalances /\ n.rbal = check[Blockchain].bal /\ n.pendings = P
  <2> HIDE DEF P
  <2> QED BY Zenon
<1>7. snapshot' = n
  BY <1>5
<1> HIDE DEF n
<1>8. /\ valid /\ snapshot'.ebal = EBalances
      /\ snapshot'.rbal = check[Blockchain].bal /\ snapshot'.pendings = P
  <2> HIDE DEF P
  <2> QED BY <1>1, <1>6, <1>7
<1>9. \A e \in Exchanges : EBalances[e] = check[e].bal
  BY <1>0, <1>1, <1>8 DEF EBalances, ChecksInStep
<1>10. \A r \in DOMAIN list : r \in DOMAIN activityBucket /\ activityBucket[r] = list[r]
  BY <1>0, <1>1, <1>5, <1>8 DEF Written
<1> QED BY <1>1, <1>5, <1>8, <1>9, <1>10

(***************************************************************************)
(* SnapshotMatchesBuckets: the pending activities of a valid snapshot are  *)
(* those of the pending bucket, although each was written back in a        *)
(* transaction of its own that may have failed (PersistSnapshot) while     *)
(* handlers kept recording new ones.                                       *)
(***************************************************************************)
THEOREM SnapshotAlwaysMatches == Spec => SnapshotMatchesBuckets
<1> DEFINE Matches == StoresValidSnapshot =>
             \A r \in DOMAIN list :
               /\ r \in DOMAIN snapshot'.pendings <=> r \in DOMAIN pendingBucket
               /\ r \in DOMAIN pendingBucket => snapshot'.pendings[r] = pendingBucket[r]
<1>1. CoherentInv /\ [Next]_vars => Matches
  <2> SUFFICES ASSUME CoherentInv, [Next]_vars, StoresValidSnapshot, NEW r \in DOMAIN list
               PROVE  /\ r \in DOMAIN snapshot'.pendings <=> r \in DOMAIN pendingBucket
                      /\ r \in DOMAIN pendingBucket => snapshot'.pendings[r] = pendingBucket[r]
    OBVIOUS
  <2>1. BucketsAgree
    BY DEF CoherentInv, HonestInv, StorageInv
  <2>2. /\ snapshot'.pendings = [q \in {p \in DOMAIN list : IsPending(list[p])} |-> list[q]]
        /\ r \in DOMAIN activityBucket /\ activityBucket[r] = list[r]
    BY SnapshotStep
  <2> QED BY <2>1, <2>2 DEF BucketsAgree, PendingIsRecorded, PendingIsComplete
<1>2. CoherentInv /\ [Next]_vars => [Matches]_vars
  BY <1>1
<1> HIDE DEF Matches
<1>3. Spec => [][Matches]_vars
  BY <1>2, CoherentInvHolds, PTL DEF Spec
<1> QED BY <1>3 DEF Matches, SnapshotMatchesBuckets

(***************************************************************************)
(* ExchangeCoherent: in a valid snapshot the balances of an exchange show  *)
(* a trade or a deposit exactly when it is recorded as done, whatever      *)
(* happened between the calls of FetchAuthDataFromExchange.  It is assumed *)
(* that no call fails without an error: a "Success: false" that comes back *)
(* as status "" is an answer the code takes for a pending one.             *)
(***************************************************************************)
THEOREM ExchangesAlwaysCoherent ==
  ASSUME "silent" \notin Faults
  PROVE  Spec => ExchangeCoherent
<1> DEFINE Coherent == StoresValidSnapshot =>
             \A r \in DOMAIN list :
               list[r].action \in {"trade", "deposit"} =>
                 (activityBucket[r].est = "done" <=> r \in snapshot'.ebal[list[r].dest].effects)
<1>1. CoherentInv /\ [Next]_vars => Coherent
  <2> SUFFICES ASSUME CoherentInv, [Next]_vars, StoresValidSnapshot,
                      NEW r \in DOMAIN list, list[r].action \in {"trade", "deposit"}
               PROVE  activityBucket[r].est = "done" <=> r \in snapshot'.ebal[list[r].dest].effects
    OBVIOUS
  <2>1. list[r].dest \in Exchanges
    BY DEF CoherentInv, HonestInv, StorageInv, TypeOK, FetcherTypeOK, IsMap, ActivityRecords
  <2>2. ExchangeHolds(r)
    BY DEF CoherentInv, ExchangesFit
  <2>3. /\ fpc = "persist" /\ valid /\ todo = {} /\ activityBucket[r] = list[r]
        /\ snapshot'.ebal[list[r].dest] = check[list[r].dest].bal
    BY <2>1, SnapshotStep
  <2> QED BY <2>2, <2>3 DEF ExchangeHolds
<1>2. CoherentInv /\ [Next]_vars => [Coherent]_vars
  BY <1>1
<1> HIDE DEF Coherent
<1>3. Spec => [][Coherent]_vars
  BY <1>2, CoherentInvHolds, PTL DEF Spec
<1> QED BY <1>3 DEF Coherent, ExchangeCoherent

(***************************************************************************)
(* DepositsCoherent: in a valid snapshot with valid reserve balances these *)
(* show a deposit exactly when it is recorded as mined, whatever was mined *)
(* between the calls of FetchAuthDataFromBlockchain.  It is assumed that   *)
(* the status calls to the node do not fail: a failed one is taken for a   *)
(* transaction that is still pending.                                      *)
(***************************************************************************)
THEOREM DepositsAlwaysCoherent ==
  ASSUME "status" \notin Faults
  PROVE  Spec => DepositsCoherent
<1> DEFINE Coherent == StoresValidSnapshot /\ snapshot'.rbal.valid =>
             \A r \in DOMAIN list :
               list[r].action = "deposit" =>
                 (activityBucket[r].mst = "mined" <=> r \in snapshot'.rbal.effects)
<1>1. CoherentInv /\ [Next]_vars => Coherent
  <2> SUFFICES ASSUME CoherentInv, [Next]_vars, StoresValidSnapshot, snapshot'.rbal.valid,
                      NEW r \in DOMAIN list, list[r].action = "deposit"
               PROVE  activityBucket[r].mst = "mined" <=> r \in snapshot'.rbal.effects
    OBVIOUS
  <2>1. ReserveHolds(r)
    BY DEF CoherentInv, ReservesFit
  <2>2. /\ fpc = "persist" /\ todo = {} /\ activityBucket[r] = list[r]
        /\ snapshot'.rbal = check[Blockchain].bal
    BY SnapshotStep
  <2> QED BY <2>1, <2>2 DEF ReserveHolds
<1>2. CoherentInv /\ [Next]_vars => [Coherent]_vars
  BY <1>1
<1> HIDE DEF Coherent
<1>3. Spec => [][Coherent]_vars
  BY <1>2, CoherentInvHolds, PTL DEF Spec
<1> QED BY <1>3 DEF Coherent, DepositsCoherent
=============================================================================
