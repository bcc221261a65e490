------------------------------ MODULE StatLogs ------------------------------
(***************************************************************************)
(* The log fetcher of stat/fetcher.go and its storage,                     *)
(* stat/storage/log_bolt.go: the logs of trades and of address categories  *)
(* are read from the chain and stored one bolt transaction at a time.      *)
(* The cursor, the block up to which logs were fetched, is kept in memory  *)
(* only; after a restart it is the block of the last stored trade log.     *)
(*                                                                         *)
(* The chain is the environment: it grows, and its last ReorgSafe blocks   *)
(* may be replaced.  A failing query changes nothing and is not a step,    *)
(* but for the first query of the head: without its answer the fetcher     *)
(* starts from block 0.  A log whose transaction fails is passed over.     *)
(* All arithmetic on block numbers is modulo WordSize (2^64 in the code).  *)
(***************************************************************************)
EXTENDS Naturals, FiniteSets, Sequences, SequencesExt

CONSTANTS Countries,    \* the answers of the geolocation service
          DeployBlock,  \* the block the contracts were deployed in
          ReorgSafe,    \* REORG_BLOCK_SAFE, 7 in the code
          Window,       \* blocks asked for at once, 1440 in the code
          WordSize,     \* 2^64
          MaxBlock,     \* bound: length of the chain, and how far the cursor goes ahead of it
          BlockTxs,     \* bound: transactions per block
          MaxCrashes    \* bound: restarts

ASSUME StatLogsAssumption ==
  /\ {DeployBlock, ReorgSafe, Window, WordSize, MaxBlock, BlockTxs} \subseteq Nat \ {0}
  /\ MaxCrashes \in Nat
  /\ ReorgSafe <= DeployBlock /\ DeployBlock <= MaxBlock
  /\ MaxBlock + 1 + Window + ReorgSafe <= WordSize

VARIABLES faults,        \* what may go wrong in this behaviour
          pool,          \* the transactions still to be mined
          chain,         \* chain[b]: the transactions of block b
          currentBlock,  \* the fetcher's idea of the head
          block,         \* the cursor of the log storage, 0: none
          tradeLogs,     \* TRADELOG_BUCKET
          catLogs,       \* CATLOG_BUCKET
          fetch,         \* the logs FetchLogs still has to store, its maxBlock
          early,         \* history: blocks read too near the head, which was not known
          dropped,       \* history: logs whose transaction failed
          crashes

lostVars == <<early, dropped>>
logVars == <<faults, pool, chain, currentBlock, block, tradeLogs, catLogs, fetch, lostVars>>

Idle == [logs |-> <<>>, max |-> 0]

\* Every transaction emits at most two events, so block time and log index
\* make one number, as InterpretTimestamp does.
SlotsPerBlock == 2 * BlockTxs + 1
InterpretTimestamp(blockno, index) == blockno * SlotsPerBlock + index

Timestamp(l) == InterpretTimestamp(l.block, l.index)

\* SetBlockchain asks for the head; when that fails currentBlock keeps its zero.
FirstHead(head) == {head} \cup IF "head" \in faults THEN {0} ELSE {}

\* pool is a sequence of [type |-> "trade" or "cat", data |-> what it carries].
StatLogsInit ==
  /\ chain = [b \in 1 .. DeployBlock |-> <<>>]
  /\ currentBlock \in FirstHead(DeployBlock)
  /\ block = 0
  /\ tradeLogs = {} /\ catLogs = {}
  /\ fetch = Idle
  /\ early = {} /\ dropped = {}
  /\ crashes = 0

------------------------------------------------------------------------------
\* The chain: the next n transactions make a block.
Mine(n) ==
  /\ Len(chain) < MaxBlock
  /\ n <= Len(pool)
  /\ chain' = Append(chain, SubSeq(pool, 1, n))
  /\ pool' = SubSeq(pool, n + 1, Len(pool))
  /\ UNCHANGED <<faults, currentBlock, block, tradeLogs, catLogs, fetch, lostVars, crashes>>

\* One of the newest ReorgSafe blocks is replaced by an empty one, its transactions
\* are mined later.
Reorg(b) ==
  /\ "reorg" \in faults
  /\ b > DeployBlock
  /\ b \in DOMAIN chain /\ b + ReorgSafe > Len(chain)
  /\ chain[b] # <<>>
  /\ chain' = [chain EXCEPT ![b] = <<>>]
  /\ pool' = chain[b] \o pool
  /\ UNCHANGED <<faults, currentBlock, block, tradeLogs, catLogs, fetch, lostVars, crashes>>

\* The events of the transaction p of block b: a trade emits its fee and the
\* trade itself; setting a category emits one event.
Event(b, p, i, kind) == [block |-> b, index |-> i, tx |-> <<b, p>>, kind |-> kind, data |-> chain[b][p].data]

EventsOf(b, p) ==
  IF chain[b][p].type = "cat" THEN <<Event(b, p, 2 * p - 1, "cat")>>
  ELSE <<Event(b, p, 2 * p - 1, "fee"), Event(b, p, 2 * p, "trade")>>

Events(b) == FlattenSeq([p \in 1 .. Len(chain[b]) |-> EventsOf(b, p)])

GetRawLogs(from, to) ==
  FlattenSeq([b \in 1 .. MaxBlock |->
    IF b \in from .. to /\ b \in DOMAIN chain THEN Events(b) ELSE <<>>])

AsLog(type, e) == [type |-> type, block |-> e.block, index |-> e.index, tx |-> e.tx, data |-> e.data]

\* One turn of the loop of GetLogs: the events of one transaction are folded into
\* one trade log, which is emitted when the next trade starts; a category log is
\* emitted at once, so it overtakes the trade before it.
AddEvent(acc, e) ==
  IF e.kind = "cat" THEN [out |-> Append(acc.out, AsLog("cat", e)), open |-> acc.open]
  ELSE IF acc.open # <<>> /\ acc.open[1].tx = e.tx THEN acc
  ELSE [out |-> acc.out \o acc.open, open |-> <<AsLog("trade", e)>>]

\* GetLogs: the last trade is emitted at the end.
GetLogs(from, to) ==
  LET end == FoldLeft(AddEvent, [out |-> <<>>, open |-> <<>>], GetRawLogs(from, to))
  IN  IF end.open # <<>> /\ end.out # <<>> /\ Last(end.out).tx = end.open[1].tx
      THEN end.out ELSE end.out \o end.open

------------------------------------------------------------------------------
\* The storage.  Keys are timestamps.
NoLog == [block |-> 0, index |-> 0]

LastLog(bucket) ==
  IF bucket = {} THEN NoLog
  ELSE CHOOSE l \in bucket : \A m \in bucket : Timestamp(m) <= Timestamp(l)

FirstLog(bucket) == CHOOSE l \in bucket : \A m \in bucket : Timestamp(l) <= Timestamp(m)

\* The duplicate test.  LoadLastCatLogIndex reads the trade bucket, so category
\* logs are compared with the last trade log as well.
Duplicated(l) ==
  LET last == LastLog(tradeLogs)
  IN  last.block > l.block \/ (last.block = l.block /\ last.index >= l.index)

StoreTradeLog(l, country) ==
  /\ tradeLogs' = IF Duplicated(l) THEN tradeLogs
                  ELSE tradeLogs \cup {[block |-> l.block, index |-> l.index,
                                        data |-> l.data, country |-> country]}
  /\ UNCHANGED catLogs

StoreCatLog(l) ==
  /\ catLogs' = IF Duplicated(l) THEN catLogs
                ELSE catLogs \cup {[block |-> l.block, index |-> l.index, data |-> l.data]}
  /\ UNCHANGED tradeLogs

\* Mutant of LoadLastLogIndex: the category bucket is read for category logs.
LoadLastOfBoth ==
  LET cat == LastLog(catLogs).block
      trade == LastLog(tradeLogs).block
  IN  IF cat > trade THEN cat ELSE trade

LoadLastLogIndex == LastLog(tradeLogs).block

\* GetTradeLogs and GetCatLogs walk the keys in their order, the latter backwards:
\* the category logs come newest first.
InRange(bucket, from, to) == {l \in bucket : from <= Timestamp(l) /\ Timestamp(l) <= to}

Ordered(logs) ==
  CHOOSE s \in SetToSeqs(logs) : \A i, j \in DOMAIN s : i < j => Timestamp(s[i]) < Timestamp(s[j])

GetTradeLogs(from, to) == Ordered(InRange(tradeLogs, from, to))
GetCatLogs(from, to)   == Reverse(Ordered(InRange(catLogs, from, to)))

------------------------------------------------------------------------------
\* Mutant of FetchCurrentBlock: the pending block counts.
FetchPendingBlock ==
  /\ currentBlock # Len(chain) + 1
  /\ currentBlock' = Len(chain) + 1
  /\ UNCHANGED <<faults, pool, chain, block, tradeLogs, catLogs, fetch, lostVars, crashes>>

FetchCurrentBlock ==
  /\ currentBlock # Len(chain)
  /\ currentBlock' = Len(chain)
  /\ UNCHANGED <<faults, pool, chain, block, tradeLogs, catLogs, fetch, lostVars, crashes>>

\* Mutant of SafeHead: the newest blocks are taken too.
UnsafeHead == currentBlock

\* Unsigned: the number wraps when the head was never fetched.
SafeHead == (WordSize + currentBlock - ReorgSafe) % WordSize

LastBlock == IF block = 0 THEN DeployBlock ELSE block

\* The blocks up to the last log, or up to the end of a window without one, that
\* can still be replaced, or are not mined yet, when the window is read.
Unsafe(from, to, logs) ==
  {b \in from .. to : b + ReorgSafe > Len(chain)
                      /\ (logs = <<>> \/ \E i \in DOMAIN logs : b <= logs[i].block)}

\* RunLogFetcher up to the answer of GetLogs.  Without a log the cursor moves to
\* the end of the window.
RunLogFetcher ==
  LET to   == IF LastBlock + 1 + Window > SafeHead THEN SafeHead ELSE LastBlock + 1 + Window
      logs == GetLogs(LastBlock + 1, to)
  IN  /\ fetch = Idle
      /\ LastBlock + 1 <= to
      /\ LastBlock <= MaxBlock
      /\ IF logs = <<>> THEN block' = to /\ UNCHANGED fetch
                        ELSE fetch' = [logs |-> logs, max |-> 0] /\ UNCHANGED block
      /\ early' = IF currentBlock = 0 THEN early \cup Unsafe(LastBlock + 1, to, logs) ELSE early
      /\ UNCHANGED <<faults, pool, chain, currentBlock, tradeLogs, catLogs, dropped, crashes>>

Key(l) == <<l.block, l.index, l.data>>

\* GetTradeGeo: the country is empty when the service or its answer fails.
GetTradeGeo == IF "geo" \in faults THEN Countries ELSE Countries \ {""}

\* The transaction of StoreTradeLog or StoreCatLog fails, which is only logged.
StoreFails(l) ==
  /\ "store" \in faults
  /\ dropped' = dropped \cup {Key(l)}
  /\ UNCHANGED <<tradeLogs, catLogs>>

\* The loop of FetchLogs: one log is stored and the cursor follows its block; at
\* the end the cursor is the highest block seen.
FetchLogs ==
  LET l   == Head(fetch.logs)
      max == IF l.block > fetch.max THEN l.block ELSE fetch.max
  IN  /\ fetch # Idle
      /\ \/ l.type = "trade" /\ (\E country \in GetTradeGeo : StoreTradeLog(l, country)) /\ UNCHANGED dropped
         \/ l.type = "cat" /\ StoreCatLog(l) /\ UNCHANGED dropped
         \/ StoreFails(l)
      /\ IF Len(fetch.logs) = 1
         THEN block' = max /\ fetch' = Idle
         ELSE /\ block' = IF max > fetch.max THEN max ELSE block
              /\ fetch' = [logs |-> Tail(fetch.logs), max |-> max]
      /\ UNCHANGED <<faults, pool, chain, currentBlock, early, crashes>>

\* The process dies and starts again: NewBoltLogStorage, SetBlockchain.
RestartLogs ==
  /\ "crash" \in faults /\ crashes < MaxCrashes
  /\ crashes' = crashes + 1
  /\ block' = LoadLastLogIndex
  /\ currentBlock' \in FirstHead(Len(chain))
  /\ fetch' = Idle
  /\ UNCHANGED <<faults, pool, chain, tradeLogs, catLogs, lostVars>>

StatLogsNext ==
  \/ \E n \in 0 .. BlockTxs : Mine(n)
  \/ \E b \in 1 .. MaxBlock : Reorg(b)
  \/ FetchCurrentBlock
  \/ RunLogFetcher
  \/ FetchLogs

------------------------------------------------------------------------------
\* The logs a reader of the chain would see in the blocks from .. to.
LogsOnChain(from, to) == Range(GetLogs(from, to))

Stored == {Key(l) : l \in tradeLogs \cup catLogs}

(***************************************************************************)
(* StoredLogsCanonical: every stored log is on the chain: nothing is       *)
(* stored from a block that is replaced later (fetcher.go keeps            *)
(* REORG_BLOCK_SAFE blocks away from the head).  The blocks excepted were  *)
(* read while the fetcher had never been told the head, when the unsigned  *)
(* subtraction of fetcher.go:572 wraps, and were less than                 *)
(* REORG_BLOCK_SAFE deep at that moment.                                   *)
(***************************************************************************)
StoredLogsCanonical ==
  {x \in Stored : x[1] \notin early} \subseteq {Key(l) : l \in LogsOnChain(1, MaxBlock)}

(***************************************************************************)
(* LossConfined: between two fetches, a log at or before the cursor that is *)
(* not stored lies behind a stored trade log of its own block, or its own  *)
(* transaction failed, or its block was read too early for want of a head: *)
(* whatever the order in which GetLogs emits them and wherever the process *)
(* dies, a restart loses at most the rest of the block it was storing, and *)
(* a failing transaction no log but its own.                               *)
(***************************************************************************)
LossConfined ==
  fetch = Idle =>
    \A l \in LogsOnChain(1, block) :
      \/ Key(l) \in Stored \cup dropped
      \/ l.block \in early
      \/ \E m \in tradeLogs : m.block = l.block /\ m.index < l.index
=============================================================================
