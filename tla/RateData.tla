------------------------------ MODULE RateData ------------------------------
(***************************************************************************)
(* The history of the rates the reserve has set: the block fetcher keeps   *)
(* the newest block, the rate fetcher reads the rates of the contract at   *)
(* the block before it (data/fetcher/fetcher.go), the storage keeps one    *)
(* record for a block (data/storage/bolt.go) and data/reserve_data.go      *)
(* answers with ranges of blocks that have the same rates.                 *)
(*                                                                         *)
(* The two fetchers share currentBlock and currentBlockUpdateTime without  *)
(* a lock, and FetchRate reads the block twice.  The newest block of the   *)
(* node does not go back.  Rates of a block are one value.                 *)
(***************************************************************************)
EXTENDS Naturals, Sequences, SequencesExt

CONSTANTS TokenRates,   \* what the contract may hold
          NoData,       \* a record without rates, of a call that failed
          RateDelay,    \* the 5000 ms after a new block
          Word,         \* 2^64
          RatePeriod,   \* MAX_GET_RATES_PERIOD
          MaxRateTime,  \* bound: time points
          MaxRateBlock  \* bound: blocks

ASSUME RateDataAssumption ==
  /\ NoData \notin TokenRates
  /\ {RateDelay, Word, RatePeriod, MaxRateTime, MaxRateBlock} \subseteq Nat
  /\ MaxRateTime < Word

VARIABLES rdTime,       \* the present time point
          contract,     \* contract[b]: the rates at block b
          curBlock,     \* currentBlock
          curTime,      \* currentBlockUpdateTime
          newBlock,     \* FetchCurrentBlock between its two assignments: the block, or 0
          rdJob,        \* FetchRate: how far it is, its time and the block it reads at
          rateBucket    \* RATE_BUCKET in the order of time

rdVars == <<rdTime, contract, curBlock, curTime, newBlock, rdJob, rateBucket>>

NoRateJob == [pc |-> "wait", time |-> 0, at |-> 0]

RateDataInit ==
  /\ rdTime = 1
  /\ contract = <<>>
  /\ curBlock = 0 /\ curTime = 0 /\ newBlock = 0
  /\ rdJob = NoRateJob
  /\ rateBucket = <<>>

RateClock ==
  /\ rdTime < MaxRateTime
  /\ rdTime' = rdTime + 1
  /\ UNCHANGED <<contract, curBlock, curTime, newBlock, rdJob, rateBucket>>

MineBlock ==
  /\ Len(contract) < MaxRateBlock
  /\ \E r \in TokenRates : contract' = Append(contract, r)
  /\ UNCHANGED <<rdTime, curBlock, curTime, newBlock, rdJob, rateBucket>>

\* FetchCurrentBlock: the time first, "to avoid race condition", then the block.
FetchBlock ==
  /\ newBlock = 0 /\ Len(contract) > 0
  /\ curTime' = rdTime
  /\ newBlock' = Len(contract)
  /\ UNCHANGED <<rdTime, contract, curBlock, rdJob, rateBucket>>

SetBlock ==
  /\ newBlock # 0
  /\ curBlock' = newBlock
  /\ newBlock' = 0
  /\ UNCHANGED <<rdTime, contract, curTime, rdJob, rateBucket>>

\* The first lines of FetchRate, for a tick of this moment or an earlier one.
\* The difference is unsigned: only a block fetched since the tick counts as new.
FetchRate(t) ==
  /\ rdJob.pc = "wait"
  /\ t <= rdTime /\ \A i \in DOMAIN rateBucket : rateBucket[i].time < t
  /\ (Word + curTime - t) % Word > RateDelay
  /\ rdJob' = [pc |-> "read", time |-> t, at |-> (Word + curBlock - 1) % Word]
  /\ UNCHANGED <<rdTime, contract, curBlock, curTime, newBlock, rateBucket>>

\* FetchRates: the record has the number of the block read second; a failed call
\* leaves the rates out.
FetchRates(at, current) ==
  {[time |-> rdJob.time, block |-> current, data |-> NoData]} \cup
    {[time |-> rdJob.time, block |-> current, data |-> contract[b]] : b \in {at} \cap DOMAIN contract}

\* Mutant of StoreRate: no test of the block number.
StoreEveryRate(e) == rateBucket' = Append(rateBucket, e)

\* A record is kept when its block is newer than that of the last one.
StoreRate(e) ==
  LET last == IF rateBucket = <<>> THEN 0 ELSE Last(rateBucket).block
  IN  rateBucket' = IF last < e.block THEN Append(rateBucket, e) ELSE rateBucket

FinishRate ==
  /\ rdJob.pc = "read"
  /\ \E e \in FetchRates(rdJob.at, curBlock) : StoreRate(e)
  /\ rdJob' = NoRateJob
  /\ UNCHANGED <<rdTime, contract, curBlock, curTime, newBlock>>

RateDataNext ==
  \/ RateClock \/ MineBlock \/ FetchBlock \/ SetBlock
  \/ \E t \in 1 .. MaxRateTime : FetchRate(t)
  \/ FinishRate

RateDataSpec == RateDataInit /\ [][RateDataNext]_rdVars

------------------------------------------------------------------------------
\* isDuplicated: a record without rates has nothing that differs.
isDuplicated(old, new) == old = NoData \/ old = new

\* One turn of the loop of GetRates.
MergeRate(answer, e) ==
  LET n == Len(answer.result)
  IN  IF ~isDuplicated(e.data, answer.current)
      THEN [result |-> Append(answer.result, [block |-> e.block, to |-> e.block, data |-> e.data]),
            current |-> e.data]
      ELSE [answer EXCEPT !.result = IF n = 0 THEN @ ELSE [@ EXCEPT ![n].to = e.block]]

\* Cursor.Seek of bolt: the first record that is not before t, or the end.
Seek(t) ==
  CHOOSE i \in 1 .. Len(rateBucket) + 1 :
    \A j \in DOMAIN rateBucket : rateBucket[j].time < t <=> j < i

\* GetRates of the storage: the records from the one Seek finds to the last one
\* of the window, newest first.  The length of the window is unsigned.
StoredRates(from, to) ==
  IF (Word + to - from) % Word > RatePeriod THEN {}
  ELSE {Reverse(SubSeq(rateBucket, Seek(from), Seek(to + 1) - 1))}

GetRates(from, to) ==
  {FoldLeft(MergeRate, [result |-> <<>>, current |-> NoData], rates).result : rates \in StoredRates(from, to)}

\* The handler: without an end the window has no end.
GetRatesHandler(from, to) == GetRates(from, IF to = 0 THEN Word - 1 ELSE to)

\* CurrentRateVersion and GetRate, by way of the handler GetRate.
CurrentRateVersion(t) ==
  {i \in DOMAIN rateBucket : /\ rateBucket[i].time <= t
                            /\ \A j \in DOMAIN rateBucket : rateBucket[j].time <= t => j <= i}

GetRate(t) == {rateBucket[i] : i \in CurrentRateVersion(t)}

(***************************************************************************)
(* RatesCovered: the ranges GetRates answers with for any window go down   *)
(* and do not meet, and every record that has rates lies in a range with   *)
(* those rates: neither failed calls nor a block that changes between the  *)
(* two reads of FetchRate put a block into two ranges.  GetRate answers    *)
(* with the record of the newest block known at its time.                  *)
(***************************************************************************)
RatesCovered ==
  \A from, to \in 0 .. MaxRateTime :
    /\ \A e \in GetRate(to) : \A i \in DOMAIN rateBucket :
         rateBucket[i].time <= to => rateBucket[i].block <= e.block
    /\ \A answer \in GetRatesHandler(from, to) :
         /\ \A i \in DOMAIN answer : answer[i].to <= answer[i].block
         /\ \A i \in 1 .. Len(answer) - 1 : answer[i].to > answer[i + 1].block
         /\ \A k \in DOMAIN rateBucket :
              LET e == rateBucket[k]
              IN  e.data # NoData /\ e.time \in from .. to =>
                    \E i \in DOMAIN answer : /\ answer[i].data = e.data
                                             /\ e.block \in answer[i].to .. answer[i].block
=============================================================================
