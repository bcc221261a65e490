---------------------------- MODULE ReserveRates ----------------------------
(***************************************************************************)
(* The rates of the reserves as the statistics keep them: the fetcher asks *)
(* every reserve for its rates at the block before the newest one it knows *)
(* (stat/fetcher.go), stat/storage/rate_bolt.go stores them, and           *)
(* stat/reserve_stat.go answers with ranges of blocks that have the same   *)
(* rates.  A reserve's rates are one value here; NoRates are rates that    *)
(* are all zero, which is also what a missing entry is read as.            *)
(***************************************************************************)
EXTENDS Naturals, Sequences, SequencesExt

CONSTANTS Reserves,     \* supportedReserves
          Rates,        \* what a reserve may answer
          NoRates,      \* one of them
          RateHead      \* bound: blocks mined

ASSUME ReserveRatesAssumption == NoRates \in Rates /\ RateHead \in Nat

VARIABLES rateChain,    \* rateChain[b]: the rates of the reserves at block b
          rateBlock,    \* currentBlock of the fetcher
          rateJob,      \* FetchReserveRates: its block and the reserves to store
          rateDb        \* rateDb[r]: the bucket of reserve r, in the order of time

rateVars == <<rateChain, rateBlock, rateJob, rateDb>>

ReserveRatesInit ==
  /\ rateChain = <<>>
  /\ rateBlock = 0
  /\ rateJob = [block |-> 0, todo |-> {}]
  /\ rateDb = [r \in Reserves |-> <<>>]

\* A block is mined.
MineRates ==
  /\ Len(rateChain) < RateHead
  /\ \E rates \in [Reserves -> Rates] : rateChain' = Append(rateChain, rates)
  /\ UNCHANGED <<rateBlock, rateJob, rateDb>>

\* RunBlockFetcher: a node that lags behind answers with an older block.
FetchRateBlock ==
  /\ rateBlock' \in 1 .. Len(rateChain)
  /\ UNCHANGED <<rateChain, rateJob, rateDb>>

\* FetchReserveRates starts: one block for all reserves.
StartReserveRates ==
  /\ rateJob.todo = {}
  /\ rateJob' = [block |-> rateBlock, todo |-> Reserves]
  /\ UNCHANGED <<rateChain, rateBlock, rateDb>>

\* Blockchain.GetReserveRates: the record starts without a block number and
\* keeps it when the call fails.
FailedRates == [block |-> 0, to |-> 0, data |-> NoRates]

RatesAt(r, block) ==
  {FailedRates} \cup
    (IF block - 1 \in 1 .. Len(rateChain)
       THEN {[block |-> block - 1, to |-> block, data |-> rateChain[block - 1][r]]}
       ELSE {})

\* Mutant of StoreReserveRates: no test of the block number.
StoreAnyRates(bucket, rate) == Append(bucket, rate)

\* Stored only when the block is newer than that of the last record.
StoreReserveRates(bucket, rate) ==
  LET last == IF bucket = <<>> THEN 0 ELSE Last(bucket).block
  IN IF last < rate.block THEN Append(bucket, rate) ELSE bucket

\* The rates of one reserve are stored; a failed call is only logged.
StoreFetchedRates ==
  /\ \E r \in rateJob.todo :
       /\ \E rate \in RatesAt(r, rateJob.block) :
            rateDb' = [rateDb EXCEPT ![r] = StoreReserveRates(@, rate)]
       /\ rateJob' = [rateJob EXCEPT !.todo = @ \ {r}]
  /\ UNCHANGED <<rateChain, rateBlock>>

\* The process dies and starts again.
RestartReserveRates ==
  /\ rateBlock' = 0
  /\ rateJob' = [block |-> 0, todo |-> {}]
  /\ UNCHANGED <<rateChain, rateDb>>

ReserveRatesNext ==
  \/ MineRates \/ FetchRateBlock \/ StartReserveRates \/ StoreFetchedRates \/ RestartReserveRates

ReserveRatesSpec == ReserveRatesInit /\ [][ReserveRatesNext]_rateVars

------------------------------------------------------------------------------
\* isDuplicate.
IsDuplicate(current, latest) == current.data = latest.data

\* One turn of the loop of GetReserveRates: a duplicate extends the last range,
\* and is dropped when there is none.
Extend(answer, rate) ==
  LET n == Len(answer.result)
  IN [result |-> IF ~IsDuplicate(rate, answer.latest) THEN Append(answer.result, rate)
                 ELSE IF n > 0 THEN [answer.result EXCEPT ![n].to = rate.block]
                 ELSE answer.result,
      latest |-> rate]

\* GetReserveRates of the storage: the records of a window of time are those from
\* one index to another.
StoredReserveRates(r, from, to) == SubSeq(rateDb[r], from, to)

GetReserveRates(r, from, to) ==
  FoldLeft(Extend, [result |-> <<>>, latest |-> FailedRates], StoredReserveRates(r, from, to)).result

\* The handler: an address that is not valid is refused.
GetReserveRate(r, from, to) == IF r \in Reserves THEN {GetReserveRates(r, from, to)} ELSE {}

------------------------------------------------------------------------------
(***************************************************************************)
(* ReserveRatesCovered: the ranges GetReserveRates answers with for any    *)
(* window are in order and do not overlap, and every record of the window  *)
(* lies in the range that has its rates; only zero rates before the first  *)
(* others are left out.  Failed calls, restarts and a newest block that    *)
(* goes back leave no trace in the answer.                                 *)
(***************************************************************************)
ReserveRatesCovered ==
  \A r \in Reserves : \A from, to \in DOMAIN rateDb[r] : \A answer \in GetReserveRate(r, from, to) :
       /\ \A i \in 1 .. Len(answer) - 1 : answer[i].block < answer[i + 1].block
                                          /\ answer[i].to <= answer[i + 1].block
       /\ \A k \in from .. to :
            LET e == rateDb[r][k]
            IN \/ \E i \in DOMAIN answer : /\ answer[i].data = e.data
                                           /\ e.block \in answer[i].block .. answer[i].to
               \/ \A j \in from .. k : rateDb[r][j].data = NoRates
=============================================================================
