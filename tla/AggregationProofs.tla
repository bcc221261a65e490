-------------------------- MODULE AggregationProofs -------------------------
(***************************************************************************)
(* Proofs about the statistics: the aggregations and the categories.       *)
(***************************************************************************)
EXTENDS StatProofs

\* The logs of the two buckets.
TradeLogSet == [block : Nat, index : Nat, data : TradeData, country : Countries]
CatData     == [addr : Addresses, cat : Categories]
CatLogSet   == [block : Nat, index : Nat, data : CatData]

\* A finite set of logs, each with a time of its own.
Bucket(logs) ==
  /\ IsFiniteSet(logs)
  /\ \A l \in logs : Timestamp(l) \in Nat /\ Timestamp(l) > 0
  /\ \A l, m \in logs : Timestamp(l) = Timestamp(m) => l = m

\* s has the logs in their order.
IsOrdered(s, logs) ==
  /\ s \in Seq(logs)
  /\ \A l \in logs : \E i \in 1 .. Len(s) : s[i] = l
  /\ \A i, j \in 1 .. Len(s) : i < j => Timestamp(s[i]) < Timestamp(s[j])

\* What the storage reads in the order of the keys.
LEMMA OrderedIs ==
  ASSUME NEW logs, Bucket(logs)
  PROVE  IsOrdered(Ordered(logs), logs)
<1> DEFINE n == Cardinality(logs)
           K == [l \in logs |-> Timestamp(l)]
           Good(s) == \A i, j \in DOMAIN s : i < j => Timestamp(s[i]) < Timestamp(s[j])
<1>1. IsFiniteSet(logs) /\ n \in Nat
  BY FS_CardinalityType DEF Bucket
<1>2. /\ K \in [logs -> Nat] /\ \A l \in logs : K[l] = Timestamp(l)
      /\ \A x, y \in logs : K[x] = K[y] => x = y
  BY DEF Bucket
<1>3. PICK s : IsSorting(s, n, logs, K)
  <2> HIDE DEF K
  <2> QED BY <1>1, <1>2, SortingExists
<1> HIDE DEF K, n
<1>4. s \in SetToSeqs(logs) /\ Good(s)
  <2>1. s \in [1 .. n -> logs] /\ DOMAIN s = 1 .. n
    BY <1>3 DEF IsSorting
  <2>2. \A i, j \in 1 .. n : i < j => Timestamp(s[i]) < Timestamp(s[j])
    BY <1>2, <1>3, <2>1 DEF IsSorting
  <2>3. \A i \in 1 .. n : Timestamp(s[i]) \in Nat
    BY <2>1 DEF Bucket
  <2>4. ASSUME NEW i \in 1 .. n, NEW j \in 1 .. n, i # j PROVE s[i] # s[j]
    <3>1. i < j \/ j < i
      BY <1>1, <2>4
    <3> QED BY <3>1, <2>2, <2>3
  <2> QED BY <2>1, <2>2, <2>4 DEF SetToSeqs, n
<1> DEFINE o == Ordered(logs)
<1>5. o \in SetToSeqs(logs) /\ Good(o)
  <2> HIDE DEF Good
  <2>1. o = CHOOSE x \in SetToSeqs(logs) : Good(x)
    BY DEF Ordered, Good
  <2> QED BY <1>4, <2>1, Zenon
<1> HIDE DEF o
<1>6. o \in [1 .. n -> logs] /\ \A i, j \in 1 .. n : i # j => o[i] # o[j]
  BY <1>5 DEF SetToSeqs, n
<1>7. o \in Injection(1 .. n, logs)
  BY <1>6 DEF Injection, IsInjective
<1>8. Cardinality(1 .. n) = Cardinality(logs) /\ Cardinality(1 .. n) = n
  <2>1. Cardinality(1 .. n) = IF 1 > n THEN 0 ELSE n - 1 + 1
    BY <1>1, FS_Interval
  <2> QED BY <2>1, <1>1 DEF n
<1>9. o \in Surjection(1 .. n, logs)
  BY <1>1, <1>7, <1>8, FS_Injection
<1>10. o \in Seq(logs) /\ Len(o) = n /\ DOMAIN o = 1 .. n
  BY <1>1, <1>6
<1>11. \A l \in logs : \E i \in 1 .. n : o[i] = l
  BY <1>9 DEF Surjection
<1> QED BY <1>5, <1>10, <1>11 DEF IsOrdered, o

------------------------------------------------------------------------------
\* Every transaction is a trade or sets a category.
LEMMA TxKinds ==
  ASSUME NEW tx \in AllTx
  PROVE  /\ tx.type = "trade" => tx.data \in TradeData
         /\ tx.type # "trade" => tx.type = "cat" /\ tx.data \in CatData
<1>1. PICK s \in Scenarios : tx \in Range(s[2])
  BY DEF AllTx
<1>2. tx.type = "trade" \/ tx \in [type : {"cat"}, data : CatData]
  BY <1>1, AggregationAssumption DEF CatData
<1>3. tx.type = "trade" => tx.data \in TradeData
  BY <1>1 DEF TradeData
<1> QED BY <1>2, <1>3

\* The order of logs is that of their times.
LEMMA TimesInOrder ==
  ASSUME SlotsPerBlock \in Nat, NEW l, NEW m,
         l.block \in Nat, l.index \in Nat, l.index < SlotsPerBlock,
         m.block \in Nat, m.index \in Nat, m.index < SlotsPerBlock
  PROVE  /\ Timestamp(l) \in Nat /\ Timestamp(m) \in Nat
         /\ Before(l, m) => Timestamp(l) < Timestamp(m)
         /\ Timestamp(l) = Timestamp(m) => l.block = m.block /\ l.index = m.index
         /\ ~Before(l, m) /\ ~Before(m, l) => l.block = m.block /\ l.index = m.index
<1> DEFINE x == l.block * SlotsPerBlock
           y == m.block * SlotsPerBlock
<1>1. Timestamp(l) = x + l.index /\ Timestamp(m) = y + m.index /\ x \in Nat /\ y \in Nat
  BY DEF Timestamp, InterpretTimestamp
<1>2. Timestamp(m) <= Timestamp(l) => m.block <= l.block
  BY <1>1, TimesFollowBlocks
<1>3. Timestamp(l) <= Timestamp(m) => l.block <= m.block
  BY <1>1, TimesFollowBlocks
<1>4. l.block = m.block => x = y
  OBVIOUS
<1> HIDE DEF x, y
<1>5. ASSUME Before(l, m) PROVE Timestamp(l) < Timestamp(m)
  <2>1. CASE l.block < m.block
    BY <2>1, <1>1, <1>2
  <2>2. CASE l.block = m.block /\ l.index < m.index
    BY <2>2, <1>1, <1>4
  <2> QED BY <1>5, <2>1, <2>2 DEF Before
<1>6. ASSUME Timestamp(l) = Timestamp(m) PROVE l.block = m.block /\ l.index = m.index
  <2>0. Timestamp(l) <= Timestamp(m) /\ Timestamp(m) <= Timestamp(l)
    BY <1>1, <1>6
  <2>1. l.block = m.block
    BY <2>0, <1>2, <1>3
  <2> QED BY <2>1, <1>1, <1>4, <1>6
<1>7. ~Before(l, m) /\ ~Before(m, l) => l.block = m.block /\ l.index = m.index
  BY DEF Before
<1> QED BY <1>1, <1>5, <1>6, <1>7

\* Two logs of one place.
SamePlace(l, m) == l.block = m.block /\ l.index = m.index

\* What the buckets hold, and what is to be stored: a place has one log.
BucketInv ==
  /\ tradeLogs \subseteq TradeLogSet /\ IsFiniteSet(tradeLogs)
  /\ catLogs \subseteq CatLogSet /\ IsFiniteSet(catLogs)
  /\ \A l, m \in tradeLogs : SamePlace(l, m) => l = m
  /\ \A l, m \in catLogs : SamePlace(l, m) => l = m
  /\ \A i \in 1 .. Len(fetch.logs) :
       /\ fetch.logs[i].type = "trade" => fetch.logs[i].data \in TradeData
       /\ fetch.logs[i].type = "cat" => /\ fetch.logs[i].data \in CatData
                                        /\ \A c \in catLogs : SamePlace(c, fetch.logs[i]) => c.data = fetch.logs[i].data

\* new has all of old, and at most one more, which is later than all of them.
Appends(old, new) ==
  \/ new = old
  \/ \E x : new = old \cup {x} /\ x \notin old /\ \A l \in old : Timestamp(l) < Timestamp(x)

\* Fields of a stored log.
LEMMA PlacedFields ==
  ASSUME LogInv, NEW l \in tradeLogs \cup catLogs
  PROVE  /\ l.block \in Nat /\ l.index \in Nat /\ l.block >= 1 /\ l.block <= MaxBlock
         /\ l.index < SlotsPerBlock /\ SlotsPerBlock \in Nat /\ MaxBlock \in Nat
<1>1. PICK b, p \in Nat : KeptAt(l, chain, b, p)
  BY DEF LogInv, SettledPart
<1>2. /\ b \in 1 .. Len(chain) /\ p \in 1 .. BlockTxs /\ Len(chain) \in Nat /\ Len(chain) <= MaxBlock
      /\ l.block = b /\ l.index = 2 * p - 1
  BY <1>1 DEF KeptAt, Place, LogInv, ChainPart
<1>3. BlockTxs \in Nat /\ MaxBlock \in Nat
  BY LogNumbers
<1> QED BY <1>2, <1>3 DEF SlotsPerBlock

\* Fields of a log that is to be stored.
LEMMA HeadFields ==
  ASSUME LogInv, NEW i \in 1 .. Len(fetch.logs)
  PROVE  /\ fetch.logs[i].block \in Nat /\ fetch.logs[i].index \in Nat
         /\ fetch.logs[i].index < SlotsPerBlock /\ SlotsPerBlock \in Nat
<1>1. PICK b, p \in Nat : ReadAt(fetch.logs[i], chain, b, p)
  BY DEF LogInv, SettledPart
<1>2. p \in 1 .. BlockTxs /\ fetch.logs[i].block = b /\ fetch.logs[i].index = 2 * p - 1
  BY <1>1 DEF ReadAt, Place
<1>3. BlockTxs \in Nat
  BY LogNumbers
<1> QED BY <1>2, <1>3 DEF SlotsPerBlock

\* The buckets are ordered by time.
LEMMA BucketsOrdered ==
  ASSUME LogInv, BucketInv
  PROVE  Bucket(tradeLogs) /\ Bucket(catLogs)
<1>1. ASSUME NEW l \in tradeLogs \cup catLogs PROVE Timestamp(l) \in Nat /\ Timestamp(l) > 0
  <2>1. /\ l.block \in Nat /\ l.index \in Nat /\ l.block >= 1
        /\ l.index < SlotsPerBlock /\ SlotsPerBlock \in Nat
    BY PlacedFields
  <2>2. Timestamp(l) \in Nat
    BY <2>1, TimesInOrder
  <2>3. Timestamp(l) = l.block * SlotsPerBlock + l.index /\ SlotsPerBlock >= 1
    BY <2>1 DEF Timestamp, InterpretTimestamp
  <2>4. ~(Timestamp(l) = 0)
    <3>1. l.block * SlotsPerBlock # 0 /\ l.block * SlotsPerBlock \in Nat
      BY <2>1, <2>3
    <3> QED BY <2>1, <2>3, <3>1
  <2> QED BY <2>2, <2>4
<1>2. ASSUME NEW l \in tradeLogs \cup catLogs, NEW m \in tradeLogs \cup catLogs, Timestamp(l) = Timestamp(m)
      PROVE  SamePlace(l, m)
  <2>1. /\ l.block \in Nat /\ l.index \in Nat /\ l.index < SlotsPerBlock /\ SlotsPerBlock \in Nat
        /\ m.block \in Nat /\ m.index \in Nat /\ m.index < SlotsPerBlock
    BY PlacedFields
  <2> QED BY <2>1, <1>2, TimesInOrder DEF SamePlace
<1> QED BY <1>1, <1>2 DEF BucketInv, Bucket

\* What one turn of FetchLogs stores, if anything.
LEMMA StoresHead ==
  ASSUME LogInv, FetchLogs
  PROVE  /\ fetch.logs \in Seq(LogSet) /\ 1 \in 1 .. Len(fetch.logs) /\ fetch.logs[1] \in LogSet
         /\ fetch'.logs = Tail(fetch.logs)
         /\ \/ /\ fetch.logs[1].type = "trade" /\ catLogs' = catLogs
               /\ \E country \in Countries :
                    tradeLogs' = tradeLogs \cup {[block |-> fetch.logs[1].block, index |-> fetch.logs[1].index,
                                                  data |-> fetch.logs[1].data, country |-> country]}
            \/ /\ fetch.logs[1].type = "cat" /\ tradeLogs' = tradeLogs
               /\ catLogs' = catLogs \cup {[block |-> fetch.logs[1].block, index |-> fetch.logs[1].index,
                                            data |-> fetch.logs[1].data]}
            \/ tradeLogs' = tradeLogs /\ catLogs' = catLogs
<1> DEFINE l == Head(fetch.logs)
<1>1. /\ fetch # Idle /\ fetch.logs \in Seq(LogSet) /\ fetch.logs # <<>>
      /\ Len(fetch.logs) \in Nat /\ Len(fetch.logs) >= 1 /\ l = fetch.logs[1] /\ fetch.logs[1] \in LogSet
  BY DEF FetchLogs, LogInv, SettledPart
<1>2. ~Duplicated(l)
  BY <1>1, NeverDuplicated
<1>3. \/ l.type = "trade" /\ \E country \in GetTradeGeo : StoreTradeLog(l, country)
      \/ l.type = "cat" /\ StoreCatLog(l)
      \/ tradeLogs' = tradeLogs /\ catLogs' = catLogs
  BY DEF FetchLogs, StoreFails
<1>4. fetch'.logs = Tail(fetch.logs)
  <2>1. CASE Len(fetch.logs) = 1
    <3> DEFINE rest == Tail(fetch.logs)
    <3>1. Len(rest) = 0 /\ rest \in Seq(LogSet)
      BY <2>1, <1>1
    <3> HIDE DEF rest
    <3>2. rest = <<>>
      BY <3>1
    <3>3. fetch' = Idle
      BY <2>1 DEF FetchLogs
    <3> QED BY <3>2, <3>3 DEF Idle, rest
  <2>2. CASE Len(fetch.logs) # 1
    <3>1. \E max : fetch' = [logs |-> Tail(fetch.logs), max |-> max]
      BY <2>2 DEF FetchLogs
    <3> QED BY <3>1
  <2> QED BY <2>1, <2>2
<1>5. 1 \in 1 .. Len(fetch.logs)
  BY <1>1
<1> HIDE DEF l
<1>6. CASE l.type = "trade" /\ \E country \in GetTradeGeo : StoreTradeLog(l, country)
  <2>1. PICK country \in GetTradeGeo : StoreTradeLog(l, country)
    BY <1>6
  <2>2. country \in Countries
    BY <2>1, Zenon DEF GetTradeGeo
  <2>3. catLogs' = catLogs /\
          tradeLogs' = tradeLogs \cup {[block |-> l.block, index |-> l.index, data |-> l.data, country |-> country]}
    BY <1>2, <2>1 DEF StoreTradeLog
  <2> QED BY <2>2, <2>3, <1>1, <1>4, <1>5, <1>6
<1>7. CASE l.type = "cat" /\ StoreCatLog(l)
  <2>1. tradeLogs' = tradeLogs /\ catLogs' = catLogs \cup {[block |-> l.block, index |-> l.index, data |-> l.data]}
    BY <1>2, <1>7 DEF StoreCatLog
  <2> QED BY <2>1, <1>1, <1>4, <1>5, <1>7
<1> QED BY <1>1, <1>3, <1>4, <1>5, <1>6, <1>7

\* What a step may do to the logs: nothing, a window is asked for, a log is
\* stored, or the fetcher starts again.
LEMMA LogSteps ==
  ASSUME [StatNext]_statVars
  PROVE  \/ UNCHANGED <<tradeLogs, catLogs, fetch>>
         \/ RunLogFetcher
         \/ FetchLogs
         \/ UNCHANGED <<tradeLogs, catLogs>> /\ fetch' = Idle
<1>1. CASE Restart
  BY <1>1 DEF Restart, RestartLogs
<1>2. ASSUME UNCHANGED logVars PROVE UNCHANGED <<tradeLogs, catLogs, fetch>>
  BY <1>2 DEF logVars
<1>3. CASE UNCHANGED statVars
  BY <1>2, <1>3 DEF statVars
<1>4. CASE FetcherStep
  BY <1>4 DEF FetcherStep, StatLogsNext, Mine, Reorg, FetchCurrentBlock
<1> QED BY <1>1, <1>2, <1>3, <1>4, AggregationsAside DEF StatNext

\* The fetcher asks for a window: what it reads of a category that is stored is the same.
LEMMA BucketRun ==
  ASSUME LogInv, BucketInv, RunLogFetcher
  PROVE  BucketInv' /\ UNCHANGED <<tradeLogs, catLogs>>
<1> DEFINE from == LastBlock + 1
           to   == IF LastBlock + 1 + Window > SafeHead THEN SafeHead ELSE LastBlock + 1 + Window
           L    == GetLogs(from, to)
<1>1. /\ fetch = Idle /\ UNCHANGED <<tradeLogs, catLogs>>
      /\ IF L = <<>> THEN fetch' = fetch ELSE fetch' = [logs |-> L, max |-> 0]
  BY DEF RunLogFetcher
<1>2. fetch'.logs = L
  <2>1. CASE L = <<>>
    BY <2>1, <1>1 DEF Idle
  <2>2. CASE L # <<>>
    <3>1. fetch' = [logs |-> L, max |-> 0]
      BY <2>2, <1>1
    <3> HIDE DEF L
    <3> QED BY <3>1
  <2> QED BY <2>1, <2>2
<1>3. from \in Nat /\ to \in Nat
  <2>1. block \in Nat /\ DeployBlock \in Nat /\ Window \in Nat /\ ReorgSafe \in Nat /\ WordSize \in Nat
        /\ ReorgSafe <= DeployBlock /\ ReorgSafe <= WordSize
        /\ currentBlock \in Nat /\ (currentBlock # 0 => currentBlock >= DeployBlock)
    BY LogNumbers DEF LogInv, ChainPart, SettledPart
  <2>2. SafeHead \in Nat
    BY <2>1, SafeHeadIs, UnknownHead
  <2>3. LastBlock \in Nat
    BY <2>1 DEF LastBlock
  <2> QED BY <2>1, <2>2, <2>3
<1> HIDE DEF from, to, L
<1>4. LogList(L, Asked(from, to))
  BY <1>3, LogsOf DEF ChainOK, LogInv, ChainPart, L
<1>5. ASSUME NEW i \in 1 .. Len(L)
      PROVE  /\ L[i].type = "trade" => L[i].data \in TradeData
             /\ L[i].type = "cat" => L[i].data \in CatData
             /\ \A c \in catLogs : SamePlace(c, L[i]) => c.data = L[i].data
  <2>1. PICK b \in Asked(from, to) : \E p \in 1 .. Len(chain[b]) : L[i] = LogAt(b, p)
    BY <1>4 DEF LogList, IsLog
  <2>2. PICK p \in 1 .. Len(chain[b]) : L[i] = LogAt(b, p)
    BY <2>1
  <2>3. b \in 1 .. Len(chain) /\ chain \in Seq(Seq(AllTx))
    BY DEF Asked, LogInv, ChainPart
  <2>4. chain[b] \in Seq(AllTx) /\ chain[b][p] \in AllTx /\ chain[b] # <<>>
    BY <2>3
  <2>5. /\ L[i].block = b /\ L[i].index = 2 * p - 1 /\ L[i].data = chain[b][p].data
        /\ L[i].type = IF chain[b][p].type = "cat" THEN "cat" ELSE "trade"
    BY <2>2 DEF LogAt, LogIn
  <2>6. ASSUME NEW c \in catLogs, SamePlace(c, L[i]) PROVE c.data = L[i].data
    <3>1. PICK d, q \in Nat : KeptAt(c, chain, d, q)
      BY DEF LogInv, SettledPart
    <3>2. c.block = d /\ c.index = 2 * q - 1
      BY <3>1 DEF KeptAt, Place
    <3>3. d = b /\ q = p
      BY <3>2, <2>5, <2>6, <2>3, <2>4 DEF SamePlace
    <3>4. Marks(c, chain, b, p)
      BY <3>1, <3>3, <2>4 DEF KeptAt, Intact
    <3> QED BY <3>4, <2>5 DEF Marks
  <2>7. /\ L[i].type = "trade" => chain[b][p].type # "cat"
        /\ L[i].type = "cat" => chain[b][p].type = "cat"
    BY <2>5
  <2> QED BY <2>4, <2>5, <2>6, <2>7, TxKinds
<1> QED BY <1>1, <1>2, <1>5 DEF BucketInv

\* The fetcher stores a trade.
LEMMA BucketTrade ==
  ASSUME LogInv, BucketInv, FetchLogs, fetch.logs[1].type = "trade", catLogs' = catLogs,
         NEW country \in Countries,
         tradeLogs' = tradeLogs \cup {[block |-> fetch.logs[1].block, index |-> fetch.logs[1].index,
                                       data |-> fetch.logs[1].data, country |-> country]}
  PROVE  BucketInv' /\ Appends(tradeLogs, tradeLogs')
<1> DEFINE l == fetch.logs[1]
           x == [block |-> l.block, index |-> l.index, data |-> l.data, country |-> country]
<1>1. fetch.logs \in Seq(LogSet) /\ 1 \in 1 .. Len(fetch.logs) /\ fetch'.logs = Tail(fetch.logs)
  BY StoresHead
<1>2. l.block \in Nat /\ l.index \in Nat /\ l.index < SlotsPerBlock /\ l.data \in TradeData
  BY <1>1, HeadFields DEF BucketInv
<1> HIDE DEF l
<1>3. x \in TradeLogSet
  BY <1>2 DEF TradeLogSet
<1>4. ASSUME NEW m \in tradeLogs PROVE Timestamp(m) < Timestamp(x) /\ ~SamePlace(m, x) /\ ~SamePlace(x, m)
  <2>1. Before(m, l)
    BY <1>1 DEF LogInv, OrderPart, l
  <2>2. Before(m, x)
    BY <2>1 DEF Before
  <2>3. /\ m.block \in Nat /\ m.index \in Nat /\ m.index < SlotsPerBlock /\ SlotsPerBlock \in Nat
        /\ x.block \in Nat /\ x.index \in Nat /\ x.index < SlotsPerBlock
    BY <1>2, PlacedFields
  <2> HIDE DEF x
  <2>4. Timestamp(m) < Timestamp(x)
    BY <2>2, <2>3, TimesInOrder
  <2>5. ~SamePlace(m, x) /\ ~SamePlace(x, m)
    BY <2>2, <2>3 DEF Before, SamePlace
  <2> QED BY <2>4, <2>5
<1>5. tradeLogs' = tradeLogs \cup {x}
  BY DEF l
<1> HIDE DEF x
<1>6. IsFiniteSet(tradeLogs')
  <2>1. IsFiniteSet(tradeLogs)
    BY DEF BucketInv
  <2>2. IsFiniteSet(tradeLogs \cup {x})
    BY <2>1, FS_AddElement
  <2> QED BY <2>2, <1>5
<1>7. \A i \in 1 .. Len(fetch'.logs) : i + 1 \in 1 .. Len(fetch.logs) /\ fetch'.logs[i] = fetch.logs[i + 1]
  BY <1>1
<1>8. \A m, n \in tradeLogs' : SamePlace(m, n) => m = n
  BY <1>4, <1>5 DEF BucketInv
<1>9. BucketInv'
  BY <1>3, <1>5, <1>6, <1>7, <1>8, SMTT(30) DEF BucketInv, SamePlace
<1>10. Appends(tradeLogs, tradeLogs')
  BY <1>4, <1>5 DEF Appends
<1> QED BY <1>9, <1>10

\* The fetcher stores a category.
LEMMA BucketCat ==
  ASSUME LogInv, BucketInv, FetchLogs, fetch.logs[1].type = "cat", tradeLogs' = tradeLogs,
         catLogs' = catLogs \cup {[block |-> fetch.logs[1].block, index |-> fetch.logs[1].index,
                                   data |-> fetch.logs[1].data]}
  PROVE  BucketInv'
<1> DEFINE l == fetch.logs[1]
           x == [block |-> l.block, index |-> l.index, data |-> l.data]
<1>1. fetch.logs \in Seq(LogSet) /\ 1 \in 1 .. Len(fetch.logs) /\ fetch'.logs = Tail(fetch.logs)
  BY StoresHead
<1>2. /\ l.block \in Nat /\ l.index \in Nat /\ l.data \in CatData
      /\ \A c \in catLogs : SamePlace(c, l) => c.data = l.data
  BY <1>1, HeadFields DEF BucketInv
<1>3. catLogs' = catLogs \cup {x}
  OBVIOUS
<1>4. ASSUME NEW i \in 1 .. Len(fetch.logs), i # 1, fetch.logs[i].type = "cat" PROVE ~SamePlace(l, fetch.logs[i])
  <2>1. Before(l, fetch.logs[i])
    BY <1>1, <1>4 DEF LogInv, OrderPart
  <2>2. fetch.logs[i].block \in Nat /\ fetch.logs[i].index \in Nat
    BY HeadFields
  <2> QED BY <2>1, <2>2, <1>2 DEF Before, SamePlace
<1> HIDE DEF l
<1>5. x \in CatLogSet /\ x.block = l.block /\ x.index = l.index /\ x.data = l.data
  BY <1>2 DEF CatLogSet
<1> HIDE DEF x
<1>6. ASSUME NEW c \in catLogs, SamePlace(c, l) PROVE c = x
  <2>1. c \in CatLogSet
    BY DEF BucketInv
  <2> QED BY <2>1, <1>2, <1>5, <1>6 DEF CatLogSet, SamePlace
<1>7. \A m, n \in catLogs' : SamePlace(m, n) => m = n
  <2>1. ASSUME NEW m \in catLogs, SamePlace(m, x) \/ SamePlace(x, m) PROVE m = x
    BY <2>1, <1>5, <1>6 DEF SamePlace
  <2> QED BY <2>1, <1>3 DEF BucketInv
<1>8. IsFiniteSet(catLogs')
  BY <1>3, FS_AddElement DEF BucketInv
<1>9. \A i \in 1 .. Len(fetch'.logs) :
        i + 1 \in 1 .. Len(fetch.logs) /\ i + 1 # 1 /\ fetch'.logs[i] = fetch.logs[i + 1]
  BY <1>1
<1>10. ASSUME NEW i \in 1 .. Len(fetch'.logs), fetch'.logs[i].type = "cat", NEW c \in catLogs', SamePlace(c, fetch'.logs[i])
       PROVE  c.data = fetch'.logs[i].data
  <2> DEFINE r == fetch.logs[i + 1]
  <2>1. i + 1 \in 1 .. Len(fetch.logs) /\ i + 1 # 1 /\ fetch'.logs[i] = r
    BY <1>9
  <2>2. CASE c \in catLogs
    BY <2>1, <2>2, <1>10 DEF BucketInv
  <2>3. CASE c = x
    <3>1. ~SamePlace(l, r)
      BY <2>1, <1>4, <1>10
    <3> HIDE DEF r
    <3> QED BY <3>1, <2>1, <2>3, <1>5, <1>10 DEF SamePlace
  <2> QED BY <2>2, <2>3, <1>3
<1>11. ASSUME NEW i \in 1 .. Len(fetch'.logs)
       PROVE  /\ fetch'.logs[i].type = "trade" => fetch'.logs[i].data \in TradeData
              /\ fetch'.logs[i].type = "cat" => fetch'.logs[i].data \in CatData
  BY <1>9 DEF BucketInv
<1> QED BY <1>3, <1>5, <1>7, <1>8, <1>10, <1>11 DEF BucketInv, SamePlace

\* Every step keeps the invariant of the buckets and adds only the latest trade.
LEMMA BucketStep ==
  ASSUME LogInv, BucketInv, [StatNext]_statVars
  PROVE  BucketInv' /\ Appends(tradeLogs, tradeLogs') /\ catLogs \subseteq catLogs'
<1>1. CASE FetchLogs
  <2>1. CASE UNCHANGED <<tradeLogs, catLogs>>
    <3>1. \A i \in 1 .. Len(fetch'.logs) : i + 1 \in 1 .. Len(fetch.logs) /\ fetch'.logs[i] = fetch.logs[i + 1]
      <4>1. fetch.logs \in Seq(LogSet) /\ 1 \in 1 .. Len(fetch.logs) /\ fetch'.logs = Tail(fetch.logs)
        BY <1>1, StoresHead
      <4> QED BY <4>1
    <3>2. ASSUME NEW i \in 1 .. Len(fetch'.logs)
          PROVE  /\ fetch'.logs[i].type = "trade" => fetch'.logs[i].data \in TradeData
                 /\ fetch'.logs[i].type = "cat" =>
                      /\ fetch'.logs[i].data \in CatData
                      /\ \A c \in catLogs : SamePlace(c, fetch'.logs[i]) => c.data = fetch'.logs[i].data
      <4>1. i + 1 \in 1 .. Len(fetch.logs) /\ fetch'.logs[i] = fetch.logs[i + 1]
        BY <3>1
      <4>2. /\ fetch.logs[i + 1].type = "trade" => fetch.logs[i + 1].data \in TradeData
            /\ fetch.logs[i + 1].type = "cat" =>
                 /\ fetch.logs[i + 1].data \in CatData
                 /\ \A c \in catLogs : SamePlace(c, fetch.logs[i + 1]) => c.data = fetch.logs[i + 1].data
        BY <4>1 DEF BucketInv
      <4> QED BY <4>1, <4>2
    <3> QED BY <3>2, <2>1 DEF BucketInv, SamePlace, Appends
  <2>2. ASSUME fetch.logs[1].type = "trade", catLogs' = catLogs, NEW country \in Countries,
               tradeLogs' = tradeLogs \cup {[block |-> fetch.logs[1].block, index |-> fetch.logs[1].index,
                                             data |-> fetch.logs[1].data, country |-> country]}
        PROVE  BucketInv' /\ Appends(tradeLogs, tradeLogs')
    BY <1>1, <2>2, BucketTrade
  <2>3. ASSUME fetch.logs[1].type = "cat", tradeLogs' = tradeLogs,
               catLogs' = catLogs \cup {[block |-> fetch.logs[1].block, index |-> fetch.logs[1].index,
                                         data |-> fetch.logs[1].data]}
        PROVE  BucketInv' /\ catLogs \subseteq catLogs'
    BY <1>1, <2>3, BucketCat
  <2> QED BY <2>1, <2>2, <2>3, <1>1, StoresHead DEF Appends
<1>2. CASE RunLogFetcher
  BY <1>2, BucketRun DEF Appends
<1>3. CASE UNCHANGED <<tradeLogs, catLogs>> /\ (fetch' = fetch \/ fetch' = Idle)
  <2>1. Len(Idle.logs) = 0
    BY DEF Idle
  <2> QED BY <1>3, <2>1 DEF BucketInv, SamePlace, Appends
<1> QED BY <1>1, <1>2, <1>3, LogSteps

\* The buckets at the start.
LEMMA BucketInit == StatInit => BucketInv
<1> SUFFICES ASSUME StatInit PROVE BucketInv
  OBVIOUS
<1>1. tradeLogs = {} /\ catLogs = {} /\ fetch = Idle
  BY DEF StatInit, StatLogsInit
<1> QED BY <1>1, FS_EmptySet DEF BucketInv, Idle

------------------------------------------------------------------------------
\* Numbers: what is left of a word, buckets of time, times and ranges of time.
\* A number below the word is what is left of it.
LEMMA WordRest ==
  ASSUME NEW w \in Nat, NEW x \in Nat, x < w
  PROVE  (w + x) % w = x
<1> DEFINE q == (w + x) \div w
           r == (w + x) % w
<1>2. q \in Int /\ r \in 0 .. w - 1 /\ w + x = w * q + r
  OBVIOUS
<1> HIDE DEF q, r
<1>3. q = 1
  <2>1. CASE q >= 2
    <3>1. w * q = 2 * w + w * (q - 2) /\ w * (q - 2) >= 0
      BY <1>2, <2>1
    <3> QED BY <3>1, <1>2
  <2>2. CASE q <= 0
    <3>1. w * q <= 0
      BY <1>2, <2>2
    <3> QED BY <3>1, <1>2
  <2> QED BY <2>1, <2>2, <1>2
<1>4. r = x
  BY <1>2, <1>3
<1> QED BY <1>4 DEF r

\* A number below the word is its own rest.
LEMMA SmallRest ==
  ASSUME NEW w \in Nat, NEW x \in Nat, x < w
  PROVE  x % w = x
<1> DEFINE q == x \div w
           r == x % w
<1>1. q \in Int /\ r \in 0 .. w - 1 /\ x = w * q + r
  OBVIOUS
<1>2. ~(q >= 1)
  <2>1. q >= 1 => w * q >= w
    BY <1>1
  <2> HIDE DEF q, r
  <2> QED BY <2>1, <1>1
<1>3. ~(q <= 0 - 1)
  <2>1. q <= 0 - 1 => w * q <= 0 - w
    BY <1>1
  <2> HIDE DEF q, r
  <2> QED BY <2>1, <1>1
<1>4. q = 0
  <2> HIDE DEF q, r
  <2> QED BY <1>1, <1>2, <1>3
<1>5. w * q = 0
  BY <1>4
<1> HIDE DEF q
<1> QED BY <1>1, <1>5

\* A time lies in its bucket.
LEMMA FloorBounds ==
  ASSUME NEW t \in Nat, NEW unit \in Nat, unit > 0
  PROVE  Floor(t, unit) \in Nat /\ Floor(t, unit) <= t /\ t < Floor(t, unit) + unit
<1> DEFINE q == t \div unit
           r == t % unit
<1>1. q \in Int /\ r \in 0 .. unit - 1 /\ t = unit * q + r
  OBVIOUS
<1> HIDE DEF q, r
<1>2. q >= 0
  <2>1. CASE q < 0
    <3>1. unit * q <= unit * (0 - 1)
      <4>1. unit * q = unit * (0 - 1) + unit * (q + 1) /\ unit * (q + 1) <= 0
        BY <2>1, <1>1
      <4> QED BY <4>1, <1>1
    <3> QED BY <3>1, <1>1
  <2> QED BY <2>1, <1>1
<1>3. unit * q \in Nat /\ q * unit = unit * q
  BY <1>1, <1>2
<1> QED BY <1>1, <1>3 DEF Floor, q

\* The numbers of time.
LEMMA TimeNumbers ==
  ASSUME LogInv
  PROVE  /\ Day \in Nat /\ Day > 0 /\ WordSize \in Nat /\ Day < WordSize /\ SlotsPerBlock \in Nat
         /\ (Len(chain) + 1) * SlotsPerBlock - 1 \in Nat
         /\ (Len(chain) + 1) * SlotsPerBlock - 1 < WordSize
<1> DEFINE S == SlotsPerBlock
           n == Len(chain)
<1>1. Day \in Nat /\ Day > 0 /\ WordSize > (MaxBlock + 1) * S + Day
  BY AggregationAssumption
<1>2. WordSize \in Nat /\ MaxBlock \in Nat /\ BlockTxs \in Nat /\ BlockTxs > 0
  BY LogNumbers
<1>3. S \in Nat /\ S >= 1
  BY <1>2 DEF SlotsPerBlock
<1>4. n \in Nat /\ n <= MaxBlock
  BY DEF LogInv, ChainPart
<1> HIDE DEF S, n
<1>5. PICK d \in Nat : MaxBlock = n + d
  <2>1. MaxBlock - n \in Nat /\ MaxBlock = n + (MaxBlock - n)
    BY <1>2, <1>4
  <2> QED BY <2>1
<1>6. /\ (MaxBlock + 1) * S = (n + 1) * S + d * S /\ d * S \in Nat
      /\ (n + 1) * S = n * S + S /\ n * S \in Nat
  BY <1>3, <1>4, <1>5
<1>7. (n + 1) * S >= 1 /\ (n + 1) * S \in Nat
  BY <1>3, <1>6
<1>8. (n + 1) * S - 1 \in Nat /\ (n + 1) * S - 1 < WordSize /\ Day < WordSize
  BY <1>1, <1>2, <1>6, <1>7
<1> QED BY <1>1, <1>2, <1>3, <1>8 DEF S, n

\* The last of the category logs.
LEMMA LastOfBucket ==
  ASSUME NEW logs, Bucket(logs), logs # {}
  PROVE  LastLog(logs) \in logs /\ \A m \in logs : Timestamp(m) <= Timestamp(LastLog(logs))
<1> DEFINE s == Ordered(logs)
<1>1. IsOrdered(s, logs)
  BY OrderedIs
<1> HIDE DEF s
<1>2. s \in Seq(logs) /\ Len(s) \in Nat
  BY <1>1 DEF IsOrdered
<1>3. PICK l0 \in logs : TRUE
  OBVIOUS
<1>4. PICK i0 \in 1 .. Len(s) : s[i0] = l0
  BY <1>1 DEF IsOrdered
<1>5. Len(s) \in 1 .. Len(s)
  BY <1>2, <1>4
<1>6. s[Len(s)] \in logs
  BY <1>2, <1>5
<1>7. ASSUME NEW m \in logs PROVE Timestamp(m) <= Timestamp(s[Len(s)])
  <2>1. PICK i \in 1 .. Len(s) : s[i] = m
    BY <1>1 DEF IsOrdered
  <2>2. Timestamp(m) \in Nat /\ Timestamp(s[Len(s)]) \in Nat
    BY <1>6 DEF Bucket
  <2>3. CASE i = Len(s)
    BY <2>1, <2>2, <2>3
  <2>4. CASE i # Len(s)
    <3>1. i < Len(s)
      BY <2>4, <1>2
    <3>2. Timestamp(s[i]) < Timestamp(s[Len(s)])
      BY <3>1, <1>1, <1>5 DEF IsOrdered
    <3> QED BY <3>2, <2>1, <2>2
  <2> QED BY <2>3, <2>4
<1>8. \E l \in logs : \A m \in logs : Timestamp(m) <= Timestamp(l)
  BY <1>6, <1>7
<1> QED BY <1>8 DEF LastLog

\* The times of stored logs are within the chain's.
EndTime == (MaxBlock + 1) * SlotsPerBlock

LEMMA LogsInTime ==
  ASSUME LogInv
  PROVE  /\ EndTime \in Nat /\ EndTime > 0 /\ WordSize \in Nat /\ Day \in Nat /\ Day > 0 /\ WordSize > EndTime + Day
         /\ \A l \in tradeLogs \cup catLogs : Timestamp(l) \in Nat /\ Timestamp(l) < EndTime
<1>1. /\ WordSize \in Nat /\ Day \in Nat /\ Day > 0 /\ SlotsPerBlock \in Nat /\ MaxBlock \in Nat
  BY TimeNumbers, LogNumbers
<1>2. EndTime \in Nat /\ WordSize > EndTime + Day
  BY <1>1, AggregationAssumption DEF EndTime
<1>3. ASSUME NEW l \in tradeLogs \cup catLogs PROVE Timestamp(l) \in Nat /\ Timestamp(l) < EndTime
  <2> DEFINE S == SlotsPerBlock
             b == l.block
             i == l.index
  <2>1. b \in Nat /\ i \in Nat /\ b <= MaxBlock /\ i < S
    BY PlacedFields
  <2>2. Timestamp(l) = b * S + i /\ EndTime = (MaxBlock + 1) * S
    BY DEF Timestamp, InterpretTimestamp, EndTime
  <2> HIDE DEF S, b, i
  <2>3. S \in Nat
    BY <1>1 DEF S
  <2>4. b * S <= MaxBlock * S /\ (MaxBlock + 1) * S = MaxBlock * S + S /\ b * S \in Nat /\ MaxBlock * S \in Nat
    BY <1>1, <2>1, <2>3
  <2> QED BY <2>1, <2>2, <2>3, <2>4
<1>4. EndTime > 0
  <2> DEFINE S == SlotsPerBlock
  <2>1. S \in Nat /\ S >= 1
    BY LogNumbers DEF SlotsPerBlock
  <2>2. EndTime = (MaxBlock + 1) * S
    BY DEF EndTime
  <2> HIDE DEF S
  <2>3. (MaxBlock + 1) * S = MaxBlock * S + S /\ MaxBlock * S \in Nat
    BY <2>1, <1>1
  <2> QED BY <2>1, <2>2, <2>3
<1>5. \A l \in tradeLogs \cup catLogs : Timestamp(l) \in Nat /\ Timestamp(l) < EndTime
  BY <1>3
<1> QED BY <1>1, <1>2, <1>4, <1>5, Zenon

\* The range a processor reads: it starts behind the cursor and before what is left
\* of the logs, does not end before it starts, and is a day at most.
LEMMA RangeIs ==
  ASSUME LogInv, NEW logs, logs \subseteq tradeLogs \cup catLogs, Bucket(logs),
         NEW k, cursor[k] \in Nat, cursor[k] # 0 => \E l \in logs : cursor[k] <= Timestamp(l), NEW t \in Nat
  PROVE  LET range == TimeRange(k, logs, t)
         IN  /\ range.from \in Nat /\ range.to \in Nat /\ range.from <= range.to
             /\ t < WordSize => range.to <= range.from + Day
             /\ cursor[k] <= range.from /\ (cursor[k] = 0 \/ cursor[k] < range.from)
             /\ range.from = cursor[k] + 1 \/ \E l \in logs : range.from <= Timestamp(l)
             /\ \A m \in logs : cursor[k] < Timestamp(m) <=> range.from <= Timestamp(m)
<1> DEFINE c    == cursor[k]
           from == IF cursor[k] = 0 /\ logs # {} THEN Timestamp(FirstLog(logs)) - 1 ELSE cursor[k] + 1
           len  == WordSize + t - from
           end  == IF len % WordSize > Day THEN from + Day ELSE t
<1>1. TimeRange(k, logs, t).from = from /\ TimeRange(k, logs, t).to = end
  BY DEF TimeRange
<1>2. /\ EndTime \in Nat /\ EndTime > 0 /\ WordSize \in Nat /\ Day \in Nat /\ WordSize > EndTime + Day
      /\ \A m \in logs : Timestamp(m) \in Nat /\ Timestamp(m) > 0 /\ Timestamp(m) < EndTime
  <2>1. \A m \in logs : Timestamp(m) \in Nat /\ Timestamp(m) > 0
    BY DEF Bucket
  <2> QED BY <2>1, LogsInTime
<1>3. /\ from \in Nat /\ from <= EndTime /\ c <= from /\ (c = 0 \/ c < from)
      /\ from = c + 1 \/ \E l \in logs : from <= Timestamp(l)
      /\ \A m \in logs : c < Timestamp(m) <=> from <= Timestamp(m)
  <2>1. CASE cursor[k] = 0 /\ logs # {}
    <3> DEFINE T == {Timestamp(m) : m \in logs}
    <3>1. T \subseteq Nat /\ T # {}
      BY <1>2, <2>1
    <3>2. PICK u \in T : \A v \in T : u <= v
      BY <3>1, LeastOf
    <3>3. \E l \in logs : \A m \in logs : Timestamp(l) <= Timestamp(m)
      BY <3>2
    <3> DEFINE f == FirstLog(logs)
    <3>4. f \in logs /\ \A m \in logs : Timestamp(f) <= Timestamp(m)
      BY <3>3 DEF FirstLog
    <3>5. from = Timestamp(f) - 1
      BY <2>1
    <3> HIDE DEF f, from
    <3> QED BY <3>4, <3>5, <1>2, <2>1
  <2>2. CASE ~(cursor[k] = 0 /\ logs # {})
    <3>1. from = c + 1
      BY <2>2
    <3>2. c < EndTime
      BY <1>2
    <3> HIDE DEF from
    <3> QED BY <3>1, <3>2, <1>2
  <2> QED BY <2>1, <2>2
<1> HIDE DEF from
<1>4. CASE t >= from
  <2>1. end >= from /\ end \in Nat
    BY <1>2, <1>3, <1>4
  <2>2. ASSUME t < WordSize PROVE end <= from + Day
    <3>1. t - from \in Nat /\ t - from < WordSize /\ len = WordSize + (t - from)
      BY <1>2, <1>3, <1>4, <2>2
    <3>2. (WordSize + (t - from)) % WordSize = t - from
      BY <3>1, <1>2, WordRest
    <3>3. len % WordSize = t - from
      BY <3>1, <3>2
    <3> HIDE DEF len
    <3> QED BY <3>1, <3>3, <1>2, <1>3
  <2> HIDE DEF end
  <2> QED BY <2>1, <2>2, <1>1, <1>3
<1>5. CASE t < from
  <2>1. len \in Nat /\ len < WordSize /\ len > Day
    BY <1>2, <1>3, <1>5
  <2> HIDE DEF len
  <2>2. len % WordSize = len
    BY <2>1, <1>2, SmallRest
  <2>3. end = from + Day
    BY <2>1, <2>2
  <2> HIDE DEF end
  <2> QED BY <2>3, <1>1, <1>2, <1>3
<1> QED BY <1>3, <1>4, <1>5

------------------------------------------------------------------------------
\* The category logs RunCatLogProcessor has read and not applied.
Waiting == {catRun.logs[i] : i \in 1 .. Len(catRun.logs)}

\* The category logs that count as processed, now or when the run ends.
Applied(m) ==
  \/ Timestamp(m) <= cursor["cat"]
  \/ Timestamp(m) <= catRun.last /\ m \notin Waiting

\* What the run holds.  Of the logs that are not passed over, nothing after the
\* cursor is before the range, nor in a range found empty; what is waiting is within
\* a day, later logs first, and has everything up to its latest.
CatRunSet == [pc : {"idle", "read", "last", "apply"}, from : Nat, to : Nat, logs : Seq(catLogs), last : Nat]

CatRunPart ==
  /\ catRun \in CatRunSet
  /\ catRun.pc # "apply" => catRun.logs = <<>> /\ catRun.last = 0
  /\ catRun.pc # "idle" => cursor["cat"] <= catRun.to
  /\ catRun.last <= catRun.to
  /\ catRun.pc = "read" =>
       /\ catRun.to <= catRun.from + Day
       /\ cursor["cat"] <= catRun.from /\ (cursor["cat"] = 0 \/ cursor["cat"] < catRun.from)
       /\ \A m \in catLogs \ skipped : cursor["cat"] < Timestamp(m) => catRun.from <= Timestamp(m)
  /\ catRun.pc = "last" => \A m \in catLogs \ skipped : cursor["cat"] < Timestamp(m) => catRun.to < Timestamp(m)
  /\ \A i, j \in 1 .. Len(catRun.logs) : i < j => Timestamp(catRun.logs[j]) < Timestamp(catRun.logs[i])
  /\ \A r \in Waiting : /\ cursor["cat"] <= Timestamp(r) /\ Timestamp(r) <= catRun.to
                        /\ catRun.last <= Timestamp(r) + Day
  /\ \A r, s \in Waiting : Timestamp(r) <= Timestamp(s) + Day
  /\ \A m \in catLogs \ skipped, r \in Waiting :
       cursor["cat"] < Timestamp(m) /\ Timestamp(m) <= Timestamp(r) => m \in Waiting

\* Neither the cursor nor the latest time of the run is past the stored logs.
CatCursorPart ==
  /\ cursor["cat"] \in Nat
  /\ cursor["cat"] # 0 => \E l \in catLogs : cursor["cat"] <= Timestamp(l)
  /\ catRun.last # 0 => \E l \in catLogs : catRun.last <= Timestamp(l)

\* l gave address a its category, and no log applied since is much newer.
GaveCategory(l, a) ==
  /\ l.data = [addr |-> a, cat |-> category[a]]
  /\ \A m \in catLogs \ skipped :
       m.data.addr = a /\ Applied(m) => Timestamp(m) <= Timestamp(l) + Day

CategoryPart == \A a \in DOMAIN category : \E l \in catLogs : GaveCategory(l, a)

(***************************************************************************)
(* The inductive invariant of the category processor.                      *)
(***************************************************************************)
CatInv ==
  /\ DOMAIN cursor = group
  /\ "cat" \in group => CatRunPart /\ CatCursorPart /\ CategoryPart

\* Steps that neither move the cursor of the categories nor apply a log: a log that
\* is stored behind what the processor has read counts as passed over.
LEMMA CatCarried ==
  ASSUME "cat" \in group, CatRunPart, CatCursorPart, CategoryPart,
         Bucket(catLogs), Bucket(catLogs'), catLogs \subseteq catLogs',
         cursor'["cat"] = cursor["cat"], catRun' = catRun, category' = category, skipped \subseteq skipped',
         \A m \in catLogs' \ skipped' : m \in catLogs \/ Timestamp(m) > Reach
  PROVE  CatRunPart' /\ CatCursorPart' /\ CategoryPart'
<1> DEFINE c == cursor["cat"]
<1>1. /\ catRun \in CatRunSet /\ catRun.pc \in {"idle", "read", "last", "apply"}
      /\ catRun.from \in Nat /\ catRun.to \in Nat /\ catRun.logs \in Seq(catLogs) /\ catRun.last \in Nat
      /\ c \in Nat /\ Waiting \subseteq catLogs
  BY DEF CatRunPart, CatCursorPart, Waiting, CatRunSet
<1>2. \A m \in catLogs' : Timestamp(m) \in Nat /\ Timestamp(m) > 0
  BY DEF Bucket
<1>3. Waiting' = Waiting
  BY DEF Waiting
<1>4. ASSUME NEW m \in catLogs' \ skipped', m \notin catLogs
      PROVE  /\ c < Timestamp(m) /\ catRun.last < Timestamp(m)
             /\ catRun.pc = "read" => catRun.from <= Timestamp(m)
             /\ catRun.pc \in {"last", "apply"} => catRun.to < Timestamp(m)
  <2>0. Timestamp(m) \in Nat /\ Timestamp(m) > 0 /\ Timestamp(m) > Reach
    BY <1>2, <1>4
  <2>1. CASE catRun.pc = "idle"
    BY <2>0, <2>1, <1>1 DEF Reach, CatRunPart
  <2>2. CASE catRun.pc = "read"
    <3>1. Reach = catRun.from - 1
      BY <2>2 DEF Reach
    <3>2. catRun.last = 0 /\ (c = 0 \/ c < catRun.from)
      BY <2>2 DEF CatRunPart
    <3> QED BY <2>0, <2>2, <3>1, <3>2, <1>1
  <2>3. CASE catRun.pc \in {"last", "apply"}
    <3>1. Reach = catRun.to
      BY <2>3 DEF Reach
    <3>2. catRun.last <= catRun.to /\ c <= catRun.to
      BY <2>3 DEF CatRunPart
    <3> QED BY <2>0, <2>3, <3>1, <3>2, <1>1
  <2> QED BY <2>1, <2>2, <2>3, <1>1
<1>5. catRun' \in CatRunSet'
  <2>1. catRun.logs \in Seq(catLogs')
    BY <1>1
  <2> QED BY <2>1, <1>1 DEF CatRunSet
<1>6. CatRunPart'
  <2>1. ASSUME catRun.pc = "read", NEW m \in catLogs' \ skipped', c < Timestamp(m) PROVE catRun.from <= Timestamp(m)
    BY <2>1, <1>4 DEF CatRunPart
  <2>2. ASSUME catRun.pc = "last", NEW m \in catLogs' \ skipped', c < Timestamp(m) PROVE catRun.to < Timestamp(m)
    BY <2>2, <1>4 DEF CatRunPart
  <2>3. ASSUME NEW m \in catLogs' \ skipped', NEW r \in Waiting, c < Timestamp(m), Timestamp(m) <= Timestamp(r)
        PROVE  m \in Waiting
    <3>1. CASE m \in catLogs
      BY <2>3, <3>1 DEF CatRunPart
    <3>2. CASE m \notin catLogs
      <4>1. catRun.pc = "apply"
        BY <2>3 DEF CatRunPart, Waiting
      <4>2. catRun.to < Timestamp(m) /\ Timestamp(r) <= catRun.to
        BY <2>3, <3>2, <4>1, <1>4 DEF CatRunPart
      <4>3. Timestamp(r) \in Nat /\ Timestamp(m) \in Nat
        BY <1>1, <1>2
      <4> QED BY <2>3, <4>2, <4>3, <1>1
    <3> QED BY <3>1, <3>2
  <2> QED BY <2>1, <2>2, <2>3, <1>3, <1>5 DEF CatRunPart
<1>7. CatCursorPart'
  BY DEF CatCursorPart
<1>8. ASSUME NEW m \in catLogs' \ skipped', Applied(m)' PROVE m \in catLogs \ skipped /\ Applied(m)
  <2>1. Applied(m)
    BY <1>3, <1>8 DEF Applied
  <2>2. m \in catLogs
    BY <2>1, <1>1, <1>2, <1>4 DEF Applied
  <2> QED BY <2>1, <2>2
<1>9. ASSUME NEW a \in DOMAIN category PROVE \E l \in catLogs' : GaveCategory(l, a)'
  <2>1. PICK l \in catLogs : GaveCategory(l, a)
    BY DEF CategoryPart
  <2>2. ASSUME NEW m \in catLogs' \ skipped', m.data.addr = a, Applied(m)' PROVE Timestamp(m) <= Timestamp(l) + Day
    BY <2>1, <2>2, <1>8 DEF GaveCategory
  <2>3. GaveCategory(l, a)'
    BY <2>1, <2>2 DEF GaveCategory
  <2> QED BY <2>1, <2>3
<1>10. CategoryPart'
  BY <1>9 DEF CategoryPart
<1> QED BY <1>6, <1>7, <1>10

\* The run ends, or its memory is lost, and the cursor does not pass a log that was
\* not applied.
LEMMA CatEnds ==
  ASSUME LogInv, "cat" \in group, CatRunPart, CatCursorPart, CategoryPart, Bucket(catLogs),
         UNCHANGED <<catLogs, category, skipped>>, catRun' = NoCatRun, cursor'["cat"] \in Nat,
         cursor'["cat"] # 0 => \E l \in catLogs : cursor'["cat"] <= Timestamp(l),
         \A m \in catLogs \ skipped : Timestamp(m) <= cursor'["cat"] => Applied(m)
  PROVE  CatRunPart' /\ CatCursorPart' /\ CategoryPart'
<1>1. /\ Waiting' = {} /\ catRun'.last = 0 /\ catRun'.to = 0 /\ catRun'.logs = <<>> /\ catRun'.pc = "idle"
      /\ Len(catRun'.logs) = 0 /\ catRun' \in CatRunSet'
  BY DEF Waiting, NoCatRun, CatRunSet
<1>2. CatRunPart'
  BY <1>1 DEF CatRunPart
<1>3. CatCursorPart'
  BY <1>1 DEF CatCursorPart
<1>4. ASSUME NEW m \in catLogs \ skipped, Applied(m)' PROVE Applied(m)
  <2>1. Timestamp(m) \in Nat /\ Timestamp(m) > 0
    BY DEF Bucket
  <2> QED BY <2>1, <1>1, <1>4 DEF Applied
<1>5. CategoryPart'
  <2>1. ASSUME NEW a \in DOMAIN category PROVE \E l \in catLogs' : GaveCategory(l, a)'
    <3>1. PICK l \in catLogs : GaveCategory(l, a)
      BY DEF CategoryPart
    <3>2. GaveCategory(l, a)'
      BY <3>1, <1>4 DEF GaveCategory
    <3> QED BY <3>1, <3>2
  <2> QED BY <2>1 DEF CategoryPart
<1> QED BY <1>2, <1>3, <1>5

\* What GetCatLogs reads.
LEMMA CatLogsRead ==
  ASSUME Bucket(catLogs), NEW from \in Nat, NEW to \in Nat
  PROVE  LET L == GetCatLogs(from, to)
         IN  /\ L \in Seq(catLogs)
             /\ \A i \in 1 .. Len(L) : from <= Timestamp(L[i]) /\ Timestamp(L[i]) <= to
             /\ \A l \in catLogs : from <= Timestamp(l) /\ Timestamp(l) <= to => \E i \in 1 .. Len(L) : L[i] = l
             /\ \A i, j \in 1 .. Len(L) : i < j => Timestamp(L[j]) < Timestamp(L[i])
<1> DEFINE R == InRange(catLogs, from, to)
           o == Ordered(R)
           L == GetCatLogs(from, to)
<1>1. R \subseteq catLogs /\ (\A l \in catLogs : l \in R <=> from <= Timestamp(l) /\ Timestamp(l) <= to)
  BY DEF InRange
<1> HIDE DEF R
<1>2. Bucket(R)
  BY <1>1, FS_Subset DEF Bucket
<1>3. IsOrdered(o, R)
  BY <1>2, OrderedIs
<1>4. L = Reverse(o)
  BY DEF GetCatLogs, R
<1> HIDE DEF o, L
<1>5. o \in Seq(R) /\ Len(o) \in Nat
  BY <1>3 DEF IsOrdered
<1>6. /\ L = [i \in 1 .. Len(o) |-> o[Len(o) - i + 1]]
  BY <1>4 DEF Reverse
<1>7. L \in Seq(R) /\ Len(L) = Len(o)
  BY <1>5, <1>6
<1>8. \A i \in 1 .. Len(o) : L[i] = o[Len(o) - i + 1] /\ Len(o) - i + 1 \in 1 .. Len(o)
  BY <1>5, <1>6
<1>9. \A i \in 1 .. Len(o) : o[i] \in R
  BY <1>5
<1>10. \A i \in 1 .. Len(L) : L[i] \in catLogs /\ from <= Timestamp(L[i]) /\ Timestamp(L[i]) <= to
  BY <1>1, <1>7, <1>8, <1>9
<1>11. ASSUME NEW l \in R PROVE \E i \in 1 .. Len(L) : L[i] = l
  <2>1. PICK j \in 1 .. Len(o) : o[j] = l
    BY <1>3 DEF IsOrdered
  <2>2. Len(o) - j + 1 \in 1 .. Len(o) /\ Len(o) - (Len(o) - j + 1) + 1 = j
    BY <1>5
  <2>3. L[Len(o) - j + 1] = l
    BY <2>1, <2>2, <1>8
  <2> QED BY <2>2, <2>3, <1>7
<1>12. ASSUME NEW i \in 1 .. Len(L), NEW j \in 1 .. Len(L), i < j PROVE Timestamp(L[j]) < Timestamp(L[i])
  <2>1. /\ Len(o) - j + 1 < Len(o) - i + 1 /\ Len(o) - j + 1 \in 1 .. Len(o) /\ Len(o) - i + 1 \in 1 .. Len(o)
        /\ L[i] = o[Len(o) - i + 1] /\ L[j] = o[Len(o) - j + 1]
    <3>1. i \in 1 .. Len(o) /\ j \in 1 .. Len(o)
      BY <1>7
    <3>2. Len(o) - j + 1 < Len(o) - i + 1
      BY <3>1, <1>5, <1>12
    <3> QED BY <3>1, <3>2, <1>8
  <2> QED BY <2>1, <1>3 DEF IsOrdered
<1>13. L \in Seq(catLogs)
  BY <1>1, <1>7
<1> QED BY <1>1, <1>10, <1>11, <1>12, <1>13 DEF L

\* The categories stay when no more logs count as applied.
LEMMA CategoryKept ==
  ASSUME CategoryPart, UNCHANGED <<catLogs, category, skipped>>, \A m \in catLogs \ skipped : Applied(m)' => Applied(m)
  PROVE  CategoryPart'
<1>1. ASSUME NEW a \in DOMAIN category PROVE \E l \in catLogs' : GaveCategory(l, a)'
  <2>1. PICK l \in catLogs : GaveCategory(l, a)
    BY DEF CategoryPart
  <2>2. GaveCategory(l, a)'
    BY <2>1 DEF GaveCategory
  <2> QED BY <2>1, <2>2
<1> QED BY <1>1 DEF CategoryPart

\* The processor takes a range.
LEMMA CatRuns ==
  ASSUME LogInv, BucketInv, CatInv, RunCatLogProcessor
  PROVE  CatInv'
<1> DEFINE c     == cursor["cat"]
           range == TimeRange("cat", catLogs, Now)
<1>1. /\ "cat" \in group /\ catRun = NoCatRun /\ DOMAIN cursor = group
      /\ CatRunPart /\ CatCursorPart /\ CategoryPart
      /\ UNCHANGED <<catLogs, group, cursor, category, skipped>>
      /\ catRun' = [NoCatRun EXCEPT !.pc = "read", !.from = range.from, !.to = range.to]
  BY DEF RunCatLogProcessor, CatInv, logVars, usersVars
<1>2. Bucket(catLogs) /\ Now \in Nat /\ Now < WordSize /\ c \in Nat
      /\ (c # 0 => \E l \in catLogs : c <= Timestamp(l))
  BY <1>1, BucketsOrdered, TimeNumbers DEF CatCursorPart, Now
<1>3. /\ range.from \in Nat /\ range.to \in Nat /\ range.from <= range.to
      /\ range.to <= range.from + Day
      /\ c <= range.from /\ (c = 0 \/ c < range.from)
      /\ \A m \in catLogs : c < Timestamp(m) <=> range.from <= Timestamp(m)
  BY <1>2, RangeIs
<1> HIDE DEF range
<1>4. /\ catRun'.pc = "read" /\ catRun'.from = range.from /\ catRun'.to = range.to
      /\ catRun'.logs = <<>> /\ catRun'.last = 0 /\ catRun' \in CatRunSet'
  <2>1. catRun' = [pc |-> "read", from |-> range.from, to |-> range.to, logs |-> <<>>, last |-> 0]
    BY <1>1 DEF NoCatRun
  <2>2. <<>> \in Seq(catLogs')
    OBVIOUS
  <2> QED BY <2>1, <2>2, <1>3 DEF CatRunSet
<1>5. Waiting' = {} /\ Len(catRun'.logs) = 0
  BY <1>4 DEF Waiting
<1>6. c <= range.to
  BY <1>2, <1>3
<1>7. CatRunPart'
  BY <1>1, <1>3, <1>4, <1>5, <1>6 DEF CatRunPart
<1>8. CatCursorPart'
  BY <1>1, <1>4 DEF CatCursorPart
<1>9. ASSUME NEW m \in catLogs, Applied(m)' PROVE Applied(m)
  <2>1. Timestamp(m) \in Nat /\ Timestamp(m) > 0
    BY <1>2 DEF Bucket
  <2> QED BY <2>1, <1>1, <1>4, <1>9 DEF Applied
<1>10. CategoryPart'
  BY <1>1, <1>9, CategoryKept
<1> QED BY <1>1, <1>7, <1>8, <1>10 DEF CatInv

\* It reads the logs of the range.
LEMMA CatReads ==
  ASSUME LogInv, BucketInv, CatInv, ReadCatLogs, "cat" \in group
  PROVE  CatInv'
<1> DEFINE c == cursor["cat"]
           L == GetCatLogs(catRun.from, catRun.to)
<1>1. /\ DOMAIN cursor = group /\ CatRunPart /\ CatCursorPart /\ CategoryPart /\ catRun.pc = "read"
      /\ UNCHANGED <<catLogs, group, cursor, category, skipped>>
      /\ catRun' = [catRun EXCEPT !.pc = IF L = <<>> THEN "last" ELSE "apply", !.logs = L]
  BY DEF ReadCatLogs, CatInv, logVars, usersVars
<1>2. /\ catRun \in CatRunSet /\ catRun.from \in Nat /\ catRun.to \in Nat /\ catRun.last = 0
      /\ c \in Nat /\ Day \in Nat /\ c <= catRun.from /\ c <= catRun.to /\ catRun.to <= catRun.from + Day
      /\ \A m \in catLogs \ skipped : c < Timestamp(m) => catRun.from <= Timestamp(m)
  BY <1>1, TimeNumbers DEF CatRunPart, CatRunSet, CatCursorPart
<1>3. Bucket(catLogs) /\ \A m \in catLogs : Timestamp(m) \in Nat /\ Timestamp(m) > 0
  BY BucketsOrdered DEF Bucket
<1>4. /\ L \in Seq(catLogs)
      /\ \A i \in 1 .. Len(L) : catRun.from <= Timestamp(L[i]) /\ Timestamp(L[i]) <= catRun.to
      /\ \A l \in catLogs : catRun.from <= Timestamp(l) /\ Timestamp(l) <= catRun.to => \E i \in 1 .. Len(L) : L[i] = l
      /\ \A i, j \in 1 .. Len(L) : i < j => Timestamp(L[j]) < Timestamp(L[i])
  BY <1>2, <1>3, CatLogsRead
<1> HIDE DEF L
<1>5. /\ catRun'.pc = (IF L = <<>> THEN "last" ELSE "apply") /\ catRun'.from = catRun.from /\ catRun'.to = catRun.to
      /\ catRun'.logs = L /\ catRun'.last = 0 /\ catRun' \in CatRunSet'
  BY <1>1, <1>2, <1>4 DEF CatRunSet
<1>6. Waiting' = {L[i] : i \in 1 .. Len(L)}
  BY <1>5 DEF Waiting
<1>7. ASSUME NEW r \in Waiting'
      PROVE  /\ r \in catLogs /\ Timestamp(r) \in Nat /\ c <= Timestamp(r)
             /\ catRun.from <= Timestamp(r) /\ Timestamp(r) <= catRun.to
  BY <1>2, <1>3, <1>4, <1>6
<1>8. CatRunPart'
  <2>1. ASSUME L = <<>>, NEW m \in catLogs \ skipped, c < Timestamp(m) PROVE catRun.to < Timestamp(m)
    <3>1. ~(Timestamp(m) <= catRun.to)
      BY <2>1, <1>2, <1>4
    <3> QED BY <3>1, <1>2, <1>3
  <2>2. ASSUME NEW m \in catLogs \ skipped, NEW r \in Waiting', c < Timestamp(m), Timestamp(m) <= Timestamp(r)
        PROVE  m \in Waiting'
    <3>1. catRun.from <= Timestamp(m) /\ Timestamp(m) <= catRun.to
      BY <2>2, <1>2, <1>3, <1>7
    <3> QED BY <3>1, <1>4, <1>6
  <2>3. ASSUME NEW r \in Waiting', NEW s \in Waiting' PROVE Timestamp(r) <= Timestamp(s) + Day
    BY <1>2, <1>7
  <2>4. ASSUME NEW r \in Waiting' PROVE c <= Timestamp(r) /\ Timestamp(r) <= catRun'.to /\ catRun'.last <= Timestamp(r) + Day
    BY <1>2, <1>5, <1>7
  <2>5. catRun'.pc # "apply" => catRun'.logs = <<>> /\ catRun'.last = 0
    BY <1>5
  <2>6. catRun'.pc \in {"last", "apply"} /\ (catRun'.pc = "last" => L = <<>>)
    BY <1>5
  <2> QED BY <2>1, <2>2, <2>3, <2>4, <2>5, <2>6, <1>1, <1>2, <1>4, <1>5 DEF CatRunPart
<1>9. CatCursorPart'
  BY <1>1, <1>5 DEF CatCursorPart
<1>10. ASSUME NEW m \in catLogs, Applied(m)' PROVE Applied(m)
  <2>1. ~(Timestamp(m) <= catRun'.last) /\ cursor' = cursor
    BY <1>1, <1>3, <1>5
  <2> QED BY <2>1, <1>10 DEF Applied
<1>11. CategoryPart'
  BY <1>1, <1>10, CategoryKept
<1> QED BY <1>1, <1>8, <1>9, <1>11 DEF CatInv

\* The run ends.
LEMMA CatFinishes ==
  ASSUME LogInv, BucketInv, CatInv, FinishCatLogs, "cat" \in group
  PROVE  CatInv'
<1>1. DOMAIN cursor = group /\ CatRunPart /\ CatCursorPart /\ CategoryPart /\ Bucket(catLogs)
  BY BucketsOrdered DEF CatInv
<1>2. /\ UNCHANGED <<catLogs, group, category, skipped>> /\ catRun.logs = <<>> /\ catRun' = NoCatRun
      /\ cursor' = cursor \/ cursor' = [cursor EXCEPT !["cat"] = catRun.last]
  BY DEF FinishCatLogs, logVars, usersVars
<1>3. DOMAIN cursor' = group /\ (cursor'["cat"] = cursor["cat"] \/ cursor'["cat"] = catRun.last)
  BY <1>1, <1>2
<1>4. Waiting = {} /\ catRun.last \in Nat
  BY <1>1, <1>2 DEF Waiting, CatRunPart, CatRunSet
<1>5. cursor'["cat"] \in Nat /\ (cursor'["cat"] # 0 => \E l \in catLogs : cursor'["cat"] <= Timestamp(l))
  BY <1>1, <1>3, <1>4 DEF CatCursorPart
<1>6. \A m \in catLogs : Timestamp(m) <= cursor'["cat"] => Applied(m)
  BY <1>3, <1>4 DEF Applied
<1>7. CatRunPart' /\ CatCursorPart' /\ CategoryPart'
  BY <1>1, <1>2, <1>5, <1>6, CatEnds
<1> QED BY <1>2, <1>3, <1>7 DEF CatInv

\* A range without a log is skipped.
LEMMA CatSkips ==
  ASSUME LogInv, BucketInv, CatInv, SkipCatLogs, "cat" \in group
  PROVE  CatInv'
<1>1. DOMAIN cursor = group /\ CatRunPart /\ CatCursorPart /\ CategoryPart /\ Bucket(catLogs)
  BY BucketsOrdered DEF CatInv
<1>2. /\ UNCHANGED <<catLogs, group, category, skipped>> /\ catRun.pc = "last" /\ catRun' = NoCatRun
      /\ \/ cursor' = cursor
         \/ LaterLogs(catRun.to, catLogs) /\ cursor' = [cursor EXCEPT !["cat"] = catRun.to]
  BY DEF SkipCatLogs, logVars, usersVars
<1>3. /\ catRun.to \in Nat /\ cursor["cat"] \in Nat
      /\ \A m \in catLogs \ skipped : cursor["cat"] < Timestamp(m) => catRun.to < Timestamp(m)
  BY <1>1, <1>2 DEF CatRunPart, CatRunSet, CatCursorPart
<1>4. \A m \in catLogs : Timestamp(m) \in Nat
  BY <1>1 DEF Bucket
<1>5. CASE cursor' = cursor
  <2>1. \A m \in catLogs : Timestamp(m) <= cursor'["cat"] => Applied(m)
    BY <1>5 DEF Applied
  <2>2. CatRunPart' /\ CatCursorPart' /\ CategoryPart'
    BY <2>1, <1>1, <1>2, <1>5, CatEnds DEF CatCursorPart
  <2> QED BY <2>2, <1>1, <1>2, <1>5 DEF CatInv
<1>6. CASE LaterLogs(catRun.to, catLogs) /\ cursor' = [cursor EXCEPT !["cat"] = catRun.to]
  <2>1. cursor'["cat"] = catRun.to /\ DOMAIN cursor' = group
    BY <1>1, <1>6
  <2>2. \E l \in catLogs : catRun.to <= Timestamp(l)
    <3>1. catLogs # {} /\ catRun.to < Timestamp(LastLog(catLogs))
      BY <1>6 DEF LaterLogs
    <3>2. LastLog(catLogs) \in catLogs
      BY <3>1, <1>1, LastOfBucket
    <3> QED BY <3>1, <3>2, <1>3, <1>4
  <2>3. \A m \in catLogs \ skipped : Timestamp(m) <= catRun.to => Applied(m)
    BY <1>3, <1>4 DEF Applied
  <2>4. CatRunPart' /\ CatCursorPart' /\ CategoryPart'
    BY <2>1, <2>2, <2>3, <1>1, <1>2, <1>3, CatEnds
  <2> QED BY <2>1, <2>4, <1>2 DEF CatInv
<1> QED BY <1>2, <1>5, <1>6

\* A log is applied, or passed over.
LEMMA CatApplies ==
  ASSUME LogInv, BucketInv, CatInv, ApplyCatLog, "cat" \in group
  PROVE  CatInv'
<1> DEFINE c == cursor["cat"]
           l == Head(catRun.logs)
           last == IF Timestamp(l) > catRun.last THEN Timestamp(l) ELSE catRun.last
           rest == Tail(catRun.logs)
<1>1. DOMAIN cursor = group /\ CatRunPart /\ CatCursorPart /\ CategoryPart
  BY DEF CatInv
<1>0. Bucket(catLogs) /\ catLogs \subseteq CatLogSet
  BY BucketsOrdered DEF BucketInv
<1>2. /\ UNCHANGED <<catLogs, group, cursor>> /\ catRun.logs # <<>>
      /\ \/ /\ category' = Put(category, l.data.addr, l.data.cat)
            /\ catRun' = [catRun EXCEPT !.logs = rest, !.last = last]
            /\ skipped' = skipped \ {l}
         \/ /\ category' = category
            /\ catRun' = [catRun EXCEPT !.logs = rest]
            /\ skipped' = skipped \cup {l}
  BY DEF ApplyCatLog, logVars, usersVars, UpdateAddressCategory
<1>3. catRun \in CatRunSet /\ catRun.to \in Nat /\ c \in Nat /\ Day \in Nat /\ catRun.pc = "apply"
      /\ c <= catRun.to /\ catRun.last <= catRun.to
  BY <1>1, <1>2, TimeNumbers DEF CatRunPart, CatRunSet, CatCursorPart
<1>4. catRun.logs \in Seq(catLogs) /\ catRun.last \in Nat
  BY <1>3 DEF CatRunSet
<1>5. \A m \in catLogs : Timestamp(m) \in Nat /\ Timestamp(m) > 0
  BY <1>0 DEF Bucket
<1>6. /\ Len(catRun.logs) \in Nat /\ Len(catRun.logs) >= 1 /\ l = catRun.logs[1] /\ l \in catLogs
      /\ rest \in Seq(catLogs) /\ Len(rest) = Len(catRun.logs) - 1
      /\ \A i \in 1 .. Len(rest) : rest[i] = catRun.logs[i + 1] /\ i + 1 \in 1 .. Len(catRun.logs)
  BY <1>2, <1>4
<1> HIDE DEF l, rest
<1>7. last \in Nat /\ Timestamp(l) \in Nat /\ (last = Timestamp(l) \/ last = catRun.last) /\ last >= catRun.last
  BY <1>4, <1>5, <1>6
<1>8. catRun'.logs = rest /\ (catRun'.last = last \/ catRun'.last = catRun.last)
      /\ catRun' \in CatRunSet' /\ catRun'.pc = "apply" /\ catRun'.to = catRun.to
  <2> HIDE DEF last
  <2> QED BY <1>2, <1>3, <1>6, <1>7 DEF CatRunSet
<1>9. Waiting' = {rest[i] : i \in 1 .. Len(rest)}
  BY <1>8 DEF Waiting
<1>10. l \in Waiting /\ Waiting \subseteq catLogs
  <2>1. 1 \in 1 .. Len(catRun.logs)
    BY <1>6
  <2> QED BY <2>1, <1>4, <1>6 DEF Waiting
<1>11. ASSUME NEW r \in Waiting' PROVE r \in Waiting /\ Timestamp(r) < Timestamp(l) /\ Timestamp(r) \in Nat
  <2>1. PICK i \in 1 .. Len(rest) : r = rest[i]
    BY <1>9, <1>11
  <2>2. r = catRun.logs[i + 1] /\ i + 1 \in 1 .. Len(catRun.logs) /\ 1 \in 1 .. Len(catRun.logs) /\ 1 < i + 1
    BY <2>1, <1>6
  <2>3. Timestamp(r) < Timestamp(l)
    BY <2>2, <1>1, <1>6 DEF CatRunPart
  <2>4. r \in Waiting
    BY <2>2 DEF Waiting
  <2> QED BY <2>3, <2>4, <1>5, <1>10
<1>12. ASSUME NEW r \in Waiting, r # l PROVE r \in Waiting'
  <2>1. PICK i \in 1 .. Len(catRun.logs) : r = catRun.logs[i]
    BY <1>12 DEF Waiting
  <2>2. i # 1
    BY <2>1, <1>6, <1>12
  <2>3. i - 1 \in 1 .. Len(rest) /\ (i - 1) + 1 = i
    BY <2>2, <1>6
  <2>4. rest[i - 1] = catRun.logs[i]
    BY <2>3, <1>6
  <2> QED BY <2>1, <2>3, <2>4, <1>9
<1>13. ASSUME NEW r \in Waiting
       PROVE  /\ c <= Timestamp(r) /\ catRun.last <= Timestamp(r) + Day /\ Timestamp(l) <= Timestamp(r) + Day
              /\ last <= Timestamp(r) + Day /\ catRun'.last <= Timestamp(r) + Day /\ Timestamp(r) \in Nat
              /\ Timestamp(r) <= catRun.to
  <2>1. c <= Timestamp(r) /\ Timestamp(r) <= catRun.to /\ catRun.last <= Timestamp(r) + Day /\ Timestamp(l) <= Timestamp(r) + Day
    BY <1>1, <1>10 DEF CatRunPart
  <2> HIDE DEF last
  <2> QED BY <2>1, <1>5, <1>7, <1>8, <1>10
<1>14. CatRunPart'
  <2>1. ASSUME NEW i \in 1 .. Len(rest), NEW j \in 1 .. Len(rest), i < j PROVE Timestamp(rest[j]) < Timestamp(rest[i])
    <3>1. /\ rest[i] = catRun.logs[i + 1] /\ i + 1 \in 1 .. Len(catRun.logs)
          /\ rest[j] = catRun.logs[j + 1] /\ j + 1 \in 1 .. Len(catRun.logs)
      BY <1>6
    <3>2. i + 1 < j + 1
      BY <2>1
    <3> QED BY <3>1, <3>2, <1>1 DEF CatRunPart
  <2>2. ASSUME NEW r \in Waiting'
        PROVE  c <= Timestamp(r) /\ Timestamp(r) <= catRun.to /\ catRun'.last <= Timestamp(r) + Day
    BY <1>11, <1>13
  <2>3. ASSUME NEW r \in Waiting', NEW s \in Waiting' PROVE Timestamp(r) <= Timestamp(s) + Day
    BY <1>1, <1>11 DEF CatRunPart
  <2>4. ASSUME NEW m \in catLogs \ skipped', NEW r \in Waiting', c < Timestamp(m), Timestamp(m) <= Timestamp(r)
        PROVE  m \in Waiting'
    <3>1. m # l
      <4>1. Timestamp(r) < Timestamp(l) /\ Timestamp(r) \in Nat
        BY <1>11
      <4> QED BY <4>1, <2>4, <1>7
    <3>2. m \in catLogs \ skipped
      BY <2>4, <3>1, <1>2
    <3>3. m \in Waiting
      BY <2>4, <3>2, <1>1, <1>11 DEF CatRunPart
    <3> QED BY <3>1, <3>3, <1>12
  <2>5. catRun'.last <= catRun.to
    <3>1. Timestamp(l) <= catRun.to
      BY <1>10, <1>13
    <3> HIDE DEF last
    <3> QED BY <3>1, <1>3, <1>7, <1>8
  <2> QED BY <2>1, <2>2, <2>3, <2>4, <2>5, <1>2, <1>3, <1>8 DEF CatRunPart
<1>15. CatCursorPart'
  <2>1. catRun'.last # 0 => \E k \in catLogs : catRun'.last <= Timestamp(k)
    <3>1. CASE catRun'.last = catRun.last
      BY <3>1, <1>1 DEF CatCursorPart
    <3>2. CASE catRun'.last = Timestamp(l)
      <4>1. catRun'.last <= Timestamp(l)
        BY <3>2, <1>7
      <4> QED BY <4>1, <1>6
    <3> QED BY <3>1, <3>2, <1>7, <1>8
  <2> QED BY <2>1, <1>1, <1>2 DEF CatCursorPart
<1>16. CASE /\ category' = Put(category, l.data.addr, l.data.cat)
            /\ catRun' = [catRun EXCEPT !.logs = rest, !.last = last] /\ skipped' = skipped \ {l}
  <2>0. catRun'.last = last
    <3> HIDE DEF last
    <3> QED BY <1>3, <1>16 DEF CatRunSet
  <2>1. l.data \in CatData /\ l.data = [addr |-> l.data.addr, cat |-> l.data.cat]
    BY <1>0, <1>6 DEF CatLogSet, CatData
  <2>2. /\ DOMAIN category' = DOMAIN category \cup {l.data.addr} /\ category'[l.data.addr] = l.data.cat
        /\ \A a \in DOMAIN category : a # l.data.addr => category'[a] = category[a]
    BY <1>16 DEF Put
  <2>7. PICK x \in catLogs : x = l
    BY <1>6
  <2>3. GaveCategory(x, x.data.addr)'
    <3>1. ASSUME NEW m \in catLogs, Applied(m)' PROVE Timestamp(m) <= Timestamp(l) + Day
      <4>1. Timestamp(m) <= c \/ Timestamp(m) <= last
        BY <2>0, <3>1, <1>2 DEF Applied
      <4>2. c <= Timestamp(l) /\ last <= Timestamp(l) + Day
        BY <1>10, <1>13
      <4>3. Timestamp(m) \in Nat
        BY <1>5
      <4> HIDE DEF last
      <4> QED BY <4>1, <4>2, <4>3, <1>3, <1>7
    <3>2. x.data = [addr |-> x.data.addr, cat |-> category'[x.data.addr]]
      BY <2>1, <2>2, <2>7
    <3> QED BY <2>7, <3>1, <3>2, <1>2 DEF GaveCategory
  <2>4. ASSUME NEW m \in catLogs \ skipped, Applied(m)', m # l PROVE Applied(m)
    <3>1. CASE Timestamp(m) <= c
      BY <3>1 DEF Applied
    <3>2. CASE ~(Timestamp(m) <= c)
      <4>1. Timestamp(m) <= last /\ m \notin Waiting'
        BY <2>0, <2>4, <3>2, <1>2 DEF Applied
      <4>2. m \notin Waiting
        BY <2>4, <4>1, <1>12
      <4>3. ~(Timestamp(m) <= Timestamp(l))
        BY <3>2, <4>2, <1>1, <1>3, <1>5, <1>10 DEF CatRunPart
      <4>4. Timestamp(m) <= catRun.last
        <5> HIDE DEF last
        <5> QED BY <4>1, <4>3, <1>7
      <4> QED BY <4>2, <4>4 DEF Applied
    <3> QED BY <3>1, <3>2
  <2>5. ASSUME NEW a \in DOMAIN category, a # l.data.addr PROVE \E k \in catLogs : GaveCategory(k, a)'
    <3>1. PICK k \in catLogs : GaveCategory(k, a)
      BY <1>1 DEF CategoryPart
    <3>2. ASSUME NEW m \in catLogs \ skipped', m.data.addr = a, Applied(m)' PROVE Timestamp(m) <= Timestamp(k) + Day
      <4>1. m # l /\ m \in catLogs \ skipped
        BY <2>5, <3>2, <1>16
      <4> QED BY <4>1, <2>4, <3>1, <3>2 DEF GaveCategory
    <3>3. GaveCategory(k, a)'
      BY <2>2, <2>5, <3>1, <3>2, <1>2 DEF GaveCategory
    <3> QED BY <3>3
  <2>6. CategoryPart'
    BY <2>2, <2>3, <2>5, <2>7, <1>2 DEF CategoryPart
  <2> QED BY <2>6, <1>1, <1>2, <1>14, <1>15 DEF CatInv
<1>17. CASE category' = category /\ catRun' = [catRun EXCEPT !.logs = rest] /\ skipped' = skipped \cup {l}
  <2>0. catRun'.last = catRun.last
    BY <1>3, <1>17 DEF CatRunSet
  <2>1. ASSUME NEW m \in catLogs \ skipped', Applied(m)' PROVE m \in catLogs \ skipped /\ Applied(m)
    <3>1. m # l /\ m \in catLogs \ skipped
      BY <1>17, <2>1
    <3>2. m \notin Waiting' => m \notin Waiting
      BY <3>1, <1>12
    <3> QED BY <2>0, <2>1, <3>1, <3>2, <1>2 DEF Applied
  <2>2. ASSUME NEW a \in DOMAIN category PROVE \E k \in catLogs : GaveCategory(k, a)'
    <3>1. PICK k \in catLogs : GaveCategory(k, a)
      BY <1>1 DEF CategoryPart
    <3>2. GaveCategory(k, a)'
      BY <2>1, <3>1, <1>2, <1>17 DEF GaveCategory
    <3> QED BY <3>2
  <2>3. CategoryPart'
    BY <2>2, <1>2, <1>17 DEF CategoryPart
  <2> QED BY <2>3, <1>1, <1>2, <1>14, <1>15 DEF CatInv
<1> QED BY <1>2, <1>16, <1>17

\* The other aggregations do not touch what the categories are made of.
LEMMA CatAside ==
  ASSUME DOMAIN cursor = group,
         \/ RunTradeLogProcessor
         \/ RunBurnFeeAggregation \/ RunVolumeStatAggregation \/ RunUserInfoAggregation
         \/ RunTradeSummaryAggregation \/ RunWalletStatAggregation \/ RunCountryStatAggregation
  PROVE  /\ UNCHANGED <<catRun, skipped, category, group>>
         /\ DOMAIN cursor' = group /\ ("cat" \in group => cursor'["cat"] = cursor["cat"])
<1> DEFINE Aside == /\ UNCHANGED <<catRun, skipped, category, group>>
                    /\ DOMAIN cursor' = group /\ ("cat" \in group => cursor'["cat"] = cursor["cat"])
<1>1. ASSUME NEW k, k # "cat", ReadTrades(k) PROVE Aside
  <2>1. UNCHANGED <<catRun, skipped, category, group>>
    BY <1>1 DEF ReadTrades, ReadCursor, ReadTradeLogs, SkipTradeLogs, catVars, usersVars
  <2>2. cursor' = cursor \/ \E v : cursor' = [cursor EXCEPT ![k] = v]
    BY <1>1, Zenon DEF ReadTrades, ReadCursor, ReadTradeLogs, SkipTradeLogs
  <2> QED BY <1>1, <2>1, <2>2
<1>2. ASSUME NEW k, FirstTrades(k) PROVE Aside
  BY <1>2 DEF FirstTrades, SetFirstTradeEver, SetFirstTradeInDay, LoadFirstTrades, catVars, usersVars
<1>3. ASSUME NEW k, k # "cat", SetStat(k) PROVE Aside
  <2>1. UNCHANGED <<catRun, skipped, category, group>>
    BY <1>3 DEF SetStat, catVars, usersVars
  <2>2. cursor' = cursor \/ \E v : cursor' = [cursor EXCEPT ![k] = v]
    BY <1>3, Zenon DEF SetStat
  <2> QED BY <1>3, <2>1, <2>2
<1>4. CASE RunTradeLogProcessor
  BY <1>4 DEF RunTradeLogProcessor, catVars, usersVars
<1> HIDE DEF Aside
<1>5. CASE RunBurnFeeAggregation \/ RunVolumeStatAggregation \/ RunUserInfoAggregation
  <2>1. Aside
    BY <1>1, <1>3, <1>5 DEF RunBurnFeeAggregation, RunVolumeStatAggregation, RunUserInfoAggregation,
       SetBurnFeeStat, SetVolumeStat, SetUserList
  <2> QED BY <2>1 DEF Aside
<1>6. CASE RunTradeSummaryAggregation \/ RunWalletStatAggregation \/ RunCountryStatAggregation
  <2>1. Aside
    BY <1>1, <1>2, <1>3, <1>6 DEF RunTradeSummaryAggregation, RunWalletStatAggregation,
       RunCountryStatAggregation, SetTradeSummary, SetWalletStat, SetCountryStat
  <2> QED BY <2>1 DEF Aside
<1> QED BY <1>4, <1>5, <1>6

\* The buckets after a step.
LEMMA OrderedStates == LogInv /\ BucketInv => Bucket(tradeLogs) /\ Bucket(catLogs)
BY BucketsOrdered

\* Every step keeps the invariant of the categories.
LEMMA CatStep ==
  LogInv /\ BucketInv /\ CatInv /\ LogInv' /\ BucketInv' /\ [StatNext]_statVars => CatInv'
<1>1. (LogInv /\ BucketInv => Bucket(tradeLogs) /\ Bucket(catLogs))'
  BY OrderedStates, PTL
<1> SUFFICES ASSUME LogInv, BucketInv, CatInv, LogInv', BucketInv', [StatNext]_statVars PROVE CatInv'
  OBVIOUS
<1>2. Bucket(catLogs) /\ Bucket(catLogs') /\ catLogs \subseteq catLogs' /\ DOMAIN cursor = group
  BY <1>1, OrderedStates, BucketStep DEF CatInv
<1>3. ASSUME UNCHANGED <<catRun, category, group>>, skipped \subseteq skipped',
             "cat" \in group => \A m \in catLogs' \ skipped' : m \in catLogs \/ Timestamp(m) > Reach,
             DOMAIN cursor' = group, "cat" \in group => cursor'["cat"] = cursor["cat"]
      PROVE  CatInv'
  <2>1. CASE "cat" \in group
    BY <2>1, <1>2, <1>3, CatCarried DEF CatInv
  <2>2. CASE "cat" \notin group
    BY <2>2, <1>3 DEF CatInv
  <2> QED BY <2>1, <2>2
<1>4. ASSUME UNCHANGED <<catRun, category, group, skipped, catLogs>>, DOMAIN cursor' = group,
             "cat" \in group => cursor'["cat"] = cursor["cat"]
      PROVE  CatInv'
  BY <1>3, <1>4
<1>5. CASE FetcherStep
  <2>1. /\ UNCHANGED <<catRun, category, group, cursor>> /\ skipped' = skipped \cup StoredTooLate
    BY <1>5 DEF FetcherStep, usersVars
  <2>2. ASSUME "cat" \in group, NEW m \in catLogs' \ skipped', m \notin catLogs PROVE Timestamp(m) > Reach
    <3>1. ~(Timestamp(m) <= Reach)
      BY <2>1, <2>2 DEF StoredTooLate
    <3>2. Timestamp(m) \in Nat /\ Reach \in Int
      <4>1. /\ catRun \in CatRunSet /\ cursor["cat"] \in Nat
        BY <2>2 DEF CatInv, CatRunPart, CatCursorPart
      <4>2. catRun.from \in Nat /\ catRun.to \in Nat
        BY <4>1 DEF CatRunSet
      <4> QED BY <4>1, <4>2, <1>2 DEF Bucket, Reach
    <3> QED BY <3>1, <3>2
  <2> QED BY <2>1, <2>2, <1>2, <1>3
<1>6. CASE RunCatLogProcessor
  BY <1>6, CatRuns
<1>7. ASSUME ReadCatLogs \/ ApplyCatLog \/ FinishCatLogs \/ SkipCatLogs PROVE CatInv'
  <2>1. CASE "cat" \in group
    BY <2>1, <1>7, CatReads, CatApplies, CatFinishes, CatSkips
  <2>2. CASE "cat" \notin group
    <3>1. group' = group /\ DOMAIN cursor' = DOMAIN cursor
      BY <1>7 DEF ReadCatLogs, ApplyCatLog, FinishCatLogs, SkipCatLogs
    <3> QED BY <3>1, <2>2, <1>2 DEF CatInv
  <2> QED BY <2>1, <2>2
<1>8. CASE Restart
  <2>1. UNCHANGED <<catLogs, category, skipped, group, cursor>> /\ catRun' = NoCatRun
    BY <1>8 DEF Restart, RestartLogs, usersVars
  <2>2. CASE "cat" \in group
    <3>1. \A m \in catLogs : Timestamp(m) <= cursor'["cat"] => Applied(m)
      BY <2>1 DEF Applied
    <3>2. CatRunPart' /\ CatCursorPart' /\ CategoryPart'
      BY <2>1, <2>2, <3>1, <1>2, CatEnds DEF CatInv, CatCursorPart
    <3> QED BY <3>2, <2>1, <1>2 DEF CatInv
  <2>3. CASE "cat" \notin group
    BY <2>1, <2>3, <1>2 DEF CatInv
  <2> QED BY <2>2, <2>3
<1>9. CASE UNCHANGED statVars
  BY <1>2, <1>4, <1>9 DEF statVars, logVars, aggVars, catVars, usersVars
<1>10. ASSUME \/ RunTradeLogProcessor
              \/ RunBurnFeeAggregation \/ RunVolumeStatAggregation \/ RunUserInfoAggregation
              \/ RunTradeSummaryAggregation \/ RunWalletStatAggregation \/ RunCountryStatAggregation
       PROVE  CatInv'
  BY <1>2, <1>4, <1>10, CatAside, AggregationsAside DEF logVars
<1> QED BY <1>5, <1>6, <1>7, <1>8, <1>9, <1>10 DEF StatNext

\* The invariant of the categories at the start.
LEMMA CatInit == StatInit => CatInv
<1> SUFFICES ASSUME StatInit PROVE CatInv
  OBVIOUS
<1>1. /\ DOMAIN cursor = group /\ ("cat" \in group => cursor["cat"] = 0)
      /\ catRun = NoCatRun /\ catLogs = {} /\ DOMAIN category = {}
  BY DEF StatInit, AggregationInit, UsersInit, NoEntries, StatLogsInit
<1>2. /\ Waiting = {} /\ catRun.last = 0 /\ catRun.to = 0 /\ catRun.logs = <<>> /\ Len(catRun.logs) = 0
      /\ catRun.pc = "idle" /\ catRun \in CatRunSet
  BY <1>1 DEF Waiting, NoCatRun, CatRunSet
<1>3. CatRunPart
  BY <1>2 DEF CatRunPart
<1>4. "cat" \in group => CatCursorPart
  BY <1>1, <1>2 DEF CatCursorPart
<1>5. CategoryPart
  BY <1>1 DEF CategoryPart
<1> QED BY <1>1, <1>3, <1>4, <1>5 DEF CatInv

\* The inductive invariant of the logs, the buckets and the categories.
LEMMA CatInvAlways == StatSpec => [](LogInv /\ BucketInv /\ CatInv)
<1>1. LogInv /\ BucketInv /\ [StatNext]_statVars => BucketInv'
  BY BucketStep
<1> QED BY <1>1, LogInvInit, LogInvStep, BucketInit, CatInit, CatStep, PTL DEF StatSpec

\* A client that asks for the day of a log is served it.
LEMMA DayServed ==
  ASSUME LogInv, Bucket(catLogs), NEW l \in catLogs
  PROVE  \E logs \in CatLogsHandler(Query(DayWindow(l), "D")) : l \in Range(logs)
<1> DEFINE t    == Timestamp(l)
           from == Floor(t, Day)
           to   == Floor(t, Day) + Day
           q    == Query(DayWindow(l), "D")
           L    == GetCatLogs(from, to)
<1>1. t \in Nat
  BY DEF Bucket
<1>2. Day \in Nat /\ Day > 0 /\ WordSize \in Nat /\ Day < WordSize
  BY TimeNumbers
<1>3. from \in Nat /\ from <= t /\ t < to
  <2> HIDE DEF t
  <2> QED BY <1>1, <1>2, FloorBounds
<1>4. q.fromTime = from /\ q.toTime = to
  BY DEF Query, DayWindow
<1> HIDE DEF t, q
<1>5. to \in Nat /\ to > 0 /\ to = from + Day
  BY <1>2, <1>3
<1> HIDE DEF from, to
<1>6. ParseUint(q.fromTime) = from /\ OrNow(q.toTime) = to
  BY <1>3, <1>4, <1>5, ServerAssumption DEF ParseUint, OrNow
<1>7. (WordSize + to - from) % WordSize <= Day
  <2>1. WordSize + to - from = WordSize + Day
    BY <1>2, <1>3, <1>5
  <2>2. (WordSize + Day) % WordSize = Day
    BY <1>2, WordRest
  <2> QED BY <2>1, <2>2, <1>2
<1>8. CatLogsHandler(q) = {L}
  BY <1>6, <1>7 DEF CatLogsHandler, CatLogsOf
<1>9. \E i \in 1 .. Len(L) : L[i] = l
  <2>1. \A m \in catLogs : from <= Timestamp(m) /\ Timestamp(m) <= to => \E i \in 1 .. Len(L) : L[i] = m
    BY <1>3, <1>5, CatLogsRead
  <2>2. from <= Timestamp(l) /\ Timestamp(l) <= to
    BY <1>1, <1>3, <1>5 DEF t
  <2> HIDE DEF L
  <2> QED BY <2>1, <2>2
<1>10. L \in Seq(catLogs)
  BY <1>3, <1>5, CatLogsRead
<1> HIDE DEF L
<1>11. l \in Range(L)
  BY <1>9, <1>10 DEF Range
<1> QED BY <1>8, <1>11 DEF q

\* What the invariant says of the categories.
LEMMA CatInvDayOld == LogInv /\ BucketInv /\ CatInv => CategoryADayOld
<1> SUFFICES ASSUME LogInv, BucketInv, CatInv, "cat" \in group, NEW a \in DOMAIN category
             PROVE  \E l \in catLogs :
                      /\ \E logs \in CatLogsHandler(Query(DayWindow(l), "D")) : l \in Range(logs)
                      /\ l.data = [addr |-> a, cat |-> category[a]]
                      /\ \A m \in catLogs \ skipped :
                           m.data.addr = a /\ Timestamp(m) <= cursor["cat"] => Timestamp(m) <= Timestamp(l) + Day
  BY DEF CategoryADayOld
<1>1. PICK l \in catLogs : GaveCategory(l, a)
  BY DEF CatInv, CategoryPart
<1>2. \E logs \in CatLogsHandler(Query(DayWindow(l), "D")) : l \in Range(logs)
  BY OrderedStates, DayServed
<1>3. ASSUME NEW m \in catLogs \ skipped, m.data.addr = a, Timestamp(m) <= cursor["cat"]
      PROVE  Timestamp(m) <= Timestamp(l) + Day
  BY <1>1, <1>3 DEF GaveCategory, Applied
<1>4. l.data = [addr |-> a, cat |-> category[a]]
  BY <1>1 DEF GaveCategory
<1> QED BY <1>2, <1>3, <1>4

(***************************************************************************)
(* The category of an address comes from a stored log that a client can    *)
(* look up, and no processed log of the address that was not passed over   *)
(* is more than a day newer, although RunCatLogProcessor applies the logs  *)
(* of a range newest first, may fail on any of them and may die between    *)
(* two of them.                                                            *)
(***************************************************************************)
THEOREM CategoriesADayOld == StatSpec => []CategoryADayOld
BY CatInvAlways, CatInvDayOld, PTL

------------------------------------------------------------------------------
\* The state of the aggregations.
Pcs     == {"idle", "start", "read", "last", "ever", "day", "load", "set"}
Firsts  == UNION {[U -> Nat] : U \in SUBSET Traders}
CellSet == [trades : Nat, users : Nat, newUsers : Nat]
Rounds(logs) == [pc : Pcs, from : Nat, to : Nat, batch : SUBSET logs, ever : Firsts]

\* No cursor is ahead of the stored trades.
CursorFits(logs, from) == from # 0 => \E l \in logs : from <= Timestamp(l)

AggPart ==
  /\ agg \in [group \cap Kinds -> Rounds(tradeLogs)]
  /\ cursor \in [group -> Nat]
  /\ \A k \in group \cap Kinds : CursorFits(tradeLogs, cursor[k])
  /\ missed \in [group \cap Kinds -> SUBSET tradeLogs]
  /\ firstEver \in Firsts
  /\ \A c \in DOMAIN stats : stats[c] \in CellSet

\* What comes after the logs that are there.
LEMMA AppendsFacts ==
  ASSUME NEW old, NEW new, Appends(old, new)
  PROVE  old \subseteq new /\ \A m \in new : m \in old \/ \A l \in old : Timestamp(l) < Timestamp(m)
BY DEF Appends

\* Sums of cells are cells.
LEMMA SumOfCells ==
  ASSUME NEW c \in CellSet, NEW d \in CellSet
  PROVE  Sum(c, d) \in CellSet
<1>1. DOMAIN c = {"trades", "users", "newUsers"}
  BY DEF CellSet
<1>2. c.trades + d.trades \in Nat /\ c.users + d.users \in Nat /\ c.newUsers + d.newUsers \in Nat
  BY DEF CellSet
<1>3. Sum(c, d) = [trades |-> c.trades + d.trades, users |-> c.users + d.users, newUsers |-> c.newUsers + d.newUsers]
  BY <1>1 DEF Sum
<1> QED BY <1>2, <1>3 DEF CellSet

\* What GetTradeLogs reads.
LEMMA TradeLogsRead ==
  ASSUME Bucket(tradeLogs), NEW from \in Nat, NEW to \in Nat
  PROVE  Range(GetTradeLogs(from, to)) = InRange(tradeLogs, from, to)
<1> DEFINE R == InRange(tradeLogs, from, to)
           L == GetTradeLogs(from, to)
<1>1. R \subseteq tradeLogs
  BY DEF InRange
<1>2. L = Ordered(R)
  BY DEF GetTradeLogs
<1> HIDE DEF R
<1>3. Bucket(R)
  BY <1>1, FS_Subset DEF Bucket
<1>4. IsOrdered(L, R)
  BY <1>2, <1>3, OrderedIs
<1> HIDE DEF L
<1>5. L \in Seq(R) /\ (\A l \in R : \E i \in 1 .. Len(L) : L[i] = l)
  BY <1>4 DEF IsOrdered
<1>6. Range(L) = R
  BY <1>5 DEF Range
<1> QED BY <1>6 DEF L, R

\* The trades of a batch and their times.
LEMMA BatchTimes ==
  ASSUME Bucket(tradeLogs), AggPart, NEW k \in group \cap Kinds
  PROVE  /\ agg[k].batch \subseteq tradeLogs /\ IsFiniteSet(agg[k].batch)
         /\ LastCounted(k) \in Nat
         /\ agg[k].batch = {} => LastCounted(k) = 0
         /\ agg[k].batch # {} => /\ \E l \in agg[k].batch : Timestamp(l) = LastCounted(k)
                                 /\ LastCounted(k) # 0
         /\ \A l \in agg[k].batch : Timestamp(l) <= LastCounted(k)
<1> DEFINE B     == agg[k].batch
           times == {Timestamp(l) : l \in B}
           last  == CHOOSE t \in times : \A u \in times : u <= t
           n     == Timestamp(LastLog(tradeLogs))
<1>1. agg[k] \in Rounds(tradeLogs)
  BY DEF AggPart
<1>2. B \subseteq tradeLogs
  BY <1>1 DEF Rounds
<1>3. IsFiniteSet(B)
  BY <1>2, FS_Subset DEF Bucket
<1>4. LastCounted(k) = IF times = {} THEN 0 ELSE last
  BY DEF LastCounted
<1>5. CASE B = {}
  <2>1. times = {}
    BY <1>5
  <2> HIDE DEF times, last
  <2> QED BY <2>1, <1>2, <1>3, <1>4, <1>5
<1>6. CASE B # {}
  <2>1. tradeLogs # {}
    BY <1>2, <1>6
  <2>2. n \in Nat /\ \A m \in tradeLogs : Timestamp(m) <= n /\ Timestamp(m) \in Nat /\ Timestamp(m) > 0
    BY <2>1, LastOfBucket DEF Bucket
  <2> HIDE DEF n
  <2>3. times \subseteq Nat /\ times # {} /\ \A y \in times : y <= n
    BY <2>2, <1>2, <1>6
  <2>4. \E t \in times : \A u \in times : u <= t
    <3> HIDE DEF times
    <3> QED BY <2>2, <2>3, GreatestOf
  <2>5. last \in times /\ \A u \in times : u <= last
    <3> HIDE DEF times
    <3> QED BY <2>4
  <2>6. LastCounted(k) = last
    <3> HIDE DEF times, last
    <3> QED BY <2>3, <1>4
  <2> HIDE DEF last
  <2>7. last \in Nat /\ (\E l \in B : Timestamp(l) = last) /\ \A l \in B : Timestamp(l) <= last
    BY <2>3, <2>5
  <2>8. last # 0
    <3>1. PICK l \in B : Timestamp(l) = last
      BY <2>7
    <3>2. l \in tradeLogs
      BY <1>2
    <3> HIDE DEF B
    <3> QED BY <3>1, <3>2, <2>2
  <2> HIDE DEF B, times
  <2>9. /\ \E l \in B : Timestamp(l) = LastCounted(k)
        /\ \A l \in B : Timestamp(l) <= LastCounted(k)
    BY <2>6, <2>7
  <2> QED BY <2>6, <2>7, <2>8, <2>9, <1>2, <1>3, <1>6 DEF B
<1> QED BY <1>5, <1>6

\* The entry of a trade in a table of first trades has the earliest time found.
LEMMA WithFirstTyped ==
  ASSUME NEW table \in Firsts, NEW found \in SUBSET (Traders \X Nat)
  PROVE  WithFirst(table, found) \in Firsts
<1> DEFINE times(w) == {p[2] : p \in {q \in found : q[1] = w}}
           D == DOMAIN table \cup {p[1] : p \in found}
           new == WithFirst(table, found)
<1>1. PICK U \in SUBSET Traders : table \in [U -> Nat]
  BY DEF Firsts
<1>2. D \subseteq Traders
  BY <1>1
<1>3. ASSUME NEW w \in D
      PROVE  (IF times(w) = {} THEN table[w] ELSE CHOOSE t \in times(w) : \A u \in times(w) : t <= u) \in Nat
  <2>1. CASE times(w) = {}
    <3>1. w \in U
      <4>1. \A p \in found : p[1] # w
        BY <2>1
      <4> QED BY <4>1, <1>1
    <3> QED BY <2>1, <3>1, <1>1
  <2>2. CASE times(w) # {}
    <3>1. times(w) \subseteq Nat
      OBVIOUS
    <3> HIDE DEF times
    <3>2. \E t \in times(w) : \A u \in times(w) : t <= u
      BY <2>2, <3>1, LeastOf
    <3> QED BY <2>2, <3>1, <3>2
  <2> QED BY <2>1, <2>2
<1>4. new = [w \in D |-> IF times(w) = {} THEN table[w] ELSE CHOOSE t \in times(w) : \A u \in times(w) : t <= u]
  BY DEF WithFirst
<1> HIDE DEF D, times, new
<1>5. new \in [D -> Nat]
  BY <1>3, <1>4
<1> QED BY <1>2, <1>5 DEF Firsts, new

\* A round at rest, and one that goes on from there.
LEMMA IdleTyped ==
  ASSUME NEW X
  PROVE  /\ Empty \in Firsts
         /\ NotRunning \in Rounds(X)
         /\ \A pc \in Pcs, f \in Nat, t \in Nat, b \in SUBSET X :
              [pc |-> pc, from |-> f, to |-> t, batch |-> b, ever |-> Empty] \in Rounds(X)
         /\ \A t : [NotRunning EXCEPT !.pc = "start", !.to = t]
                   = [pc |-> "start", from |-> 0, to |-> t, batch |-> {}, ever |-> Empty]
         /\ \A f, t : [NotRunning EXCEPT !.pc = "read", !.from = f, !.to = t]
                      = [pc |-> "read", from |-> f, to |-> t, batch |-> {}, ever |-> Empty]
         /\ \A pc, b : [NotRunning EXCEPT !.pc = pc, !.batch = b]
                       = [pc |-> pc, from |-> 0, to |-> 0, batch |-> b, ever |-> Empty]
<1>1. Empty \in [{} -> Nat] /\ {} \in SUBSET Traders
  BY DEF Empty
<1>2. Empty \in Firsts
  BY <1>1 DEF Firsts
<1>3. {} \in SUBSET X /\ "idle" \in Pcs
  BY DEF Pcs
<1>4. \A pc \in Pcs, f \in Nat, t \in Nat, b \in SUBSET X :
        [pc |-> pc, from |-> f, to |-> t, batch |-> b, ever |-> Empty] \in Rounds(X)
  BY <1>2 DEF Rounds
<1>5. NotRunning \in Rounds(X)
  BY <1>2, <1>3 DEF NotRunning, Rounds
<1>6. ASSUME NEW pc PROVE [NotRunning EXCEPT !.pc = pc] = [pc |-> pc, from |-> 0, to |-> 0, batch |-> {}, ever |-> Empty]
  BY DEF NotRunning
<1>7. ASSUME NEW t PROVE [NotRunning EXCEPT !.pc = "start", !.to = t]
                         = [pc |-> "start", from |-> 0, to |-> t, batch |-> {}, ever |-> Empty]
  <2> DEFINE r == [NotRunning EXCEPT !.pc = "start"]
  <2>1. r = [pc |-> "start", from |-> 0, to |-> 0, batch |-> {}, ever |-> Empty]
    BY <1>6
  <2> HIDE DEF r
  <2>2. [r EXCEPT !.to = t] = [pc |-> "start", from |-> 0, to |-> t, batch |-> {}, ever |-> Empty]
    BY <2>1
  <2> QED BY <2>2, Zenon DEF r
<1>8. ASSUME NEW f, NEW t
      PROVE  [NotRunning EXCEPT !.pc = "read", !.from = f, !.to = t]
             = [pc |-> "read", from |-> f, to |-> t, batch |-> {}, ever |-> Empty]
  <2> DEFINE r == [NotRunning EXCEPT !.pc = "read"]
             s == [r EXCEPT !.from = f]
  <2>1. r = [pc |-> "read", from |-> 0, to |-> 0, batch |-> {}, ever |-> Empty]
    BY <1>6
  <2>2. s = [pc |-> "read", from |-> f, to |-> 0, batch |-> {}, ever |-> Empty]
    <3> HIDE DEF r
    <3> QED BY <2>1
  <2>3. [s EXCEPT !.to = t] = [pc |-> "read", from |-> f, to |-> t, batch |-> {}, ever |-> Empty]
    <3> HIDE DEF s
    <3> QED BY <2>2
  <2> QED BY <2>3, Zenon DEF r, s
<1>9. ASSUME NEW pc, NEW b
      PROVE  [NotRunning EXCEPT !.pc = pc, !.batch = b] = [pc |-> pc, from |-> 0, to |-> 0, batch |-> b, ever |-> Empty]
  <2> DEFINE r == [NotRunning EXCEPT !.pc = pc]
  <2>1. r = [pc |-> pc, from |-> 0, to |-> 0, batch |-> {}, ever |-> Empty]
    BY <1>6
  <2> HIDE DEF r
  <2>2. [r EXCEPT !.batch = b] = [pc |-> pc, from |-> 0, to |-> 0, batch |-> b, ever |-> Empty]
    BY <2>1
  <2> QED BY <2>2, Zenon DEF r
<1> QED BY <1>2, <1>4, <1>5, <1>7, <1>8, <1>9

\* An aggregation reads its cursor, its trades, or moves on over a range without any.
LEMMA ReadTyped ==
  ASSUME LogInv, Bucket(tradeLogs), AggPart, NEW k \in group \cap Kinds, ReadTrades(k)
  PROVE  AggPart'
<1>1. /\ agg \in [group \cap Kinds -> Rounds(tradeLogs)] /\ cursor \in [group -> Nat] /\ firstEver \in Firsts
      /\ missed \in [group \cap Kinds -> SUBSET tradeLogs]
      /\ \A j \in group \cap Kinds : CursorFits(tradeLogs, cursor[j])
      /\ \A c \in DOMAIN stats : stats[c] \in CellSet
  BY DEF AggPart
<1>2. UNCHANGED <<tradeLogs, group, firstEver, stats>>
  BY DEF ReadTrades, ReadCursor, ReadTradeLogs, SkipTradeLogs, logVars, tableVars
<1>3. k \in group /\ cursor[k] \in Nat /\ agg[k] \in Rounds(tradeLogs)
  BY <1>1
<1>4. agg[k].from \in Nat /\ agg[k].to \in Nat
  BY <1>3 DEF Rounds
<1>5. ASSUME NEW r \in Rounds(tradeLogs), agg' = [agg EXCEPT ![k] = r], UNCHANGED <<cursor, missed>> PROVE AggPart'
  BY <1>1, <1>2, <1>5 DEF AggPart
<1>6. CASE ReadCursor(k)
  <2> DEFINE range == TimeRange(k, tradeLogs, agg[k].to)
             r     == [NotRunning EXCEPT !.pc = "read", !.from = range.from, !.to = range.to]
  <2>1. agg' = [agg EXCEPT ![k] = r] /\ UNCHANGED <<cursor, missed>>
    BY <1>6 DEF ReadCursor, lossVars
  <2>2. range.from \in Nat /\ range.to \in Nat
    <3>1. cursor[k] # 0 => \E l \in tradeLogs : cursor[k] <= Timestamp(l)
      BY <1>1 DEF CursorFits
    <3> QED BY <3>1, <1>3, <1>4, RangeIs
  <2> HIDE DEF range
  <2>3. r = [pc |-> "read", from |-> range.from, to |-> range.to, batch |-> {}, ever |-> Empty]
    BY IdleTyped
  <2> HIDE DEF r
  <2>4. r \in Rounds(tradeLogs)
    BY <2>2, <2>3, IdleTyped DEF Pcs
  <2> QED BY <2>1, <2>4, <1>5
<1>7. CASE ReadTradeLogs(k)
  <2> DEFINE batch == Range(GetTradeLogs(agg[k].from, agg[k].to))
             pc    == IF k \in MetricKinds THEN "ever" ELSE "set"
             r     == IF batch = {} THEN [agg[k] EXCEPT !.pc = "last"]
                      ELSE [NotRunning EXCEPT !.pc = pc, !.batch = batch]
  <2>1. agg' = [agg EXCEPT ![k] = r] /\ UNCHANGED <<cursor, missed>>
    BY <1>7 DEF ReadTradeLogs, lossVars
  <2>2. batch \subseteq tradeLogs
    BY <1>4, TradeLogsRead DEF InRange
  <2>3. pc \in Pcs
    BY DEF Pcs
  <2> HIDE DEF batch, pc
  <2>4. [agg[k] EXCEPT !.pc = "last"] \in Rounds(tradeLogs)
    BY <1>3 DEF Rounds, Pcs
  <2>5. [NotRunning EXCEPT !.pc = pc, !.batch = batch]
        = [pc |-> pc, from |-> 0, to |-> 0, batch |-> batch, ever |-> Empty]
    BY IdleTyped
  <2>6. [pc |-> pc, from |-> 0, to |-> 0, batch |-> batch, ever |-> Empty] \in Rounds(tradeLogs)
    BY <2>2, <2>3, IdleTyped
  <2>7. r \in Rounds(tradeLogs)
    BY <2>4, <2>5, <2>6, Zenon
  <2> HIDE DEF r
  <2> QED BY <2>1, <2>7, <1>5
<1>8. CASE SkipTradeLogs(k)
  <2> DEFINE late == InRange(tradeLogs, agg[k].from, agg[k].to)
  <2>1. /\ agg' = [agg EXCEPT ![k] = NotRunning]
        /\ \/ /\ LaterLogs(agg[k].to, tradeLogs) /\ cursor' = [cursor EXCEPT ![k] = agg[k].to]
              /\ missed' = [missed EXCEPT ![k] = missed[k] \cup late]
           \/ UNCHANGED <<cursor, missed>>
    BY <1>8 DEF SkipTradeLogs
  <2>2. NotRunning \in Rounds(tradeLogs)
    BY IdleTyped
  <2>3. CASE UNCHANGED <<cursor, missed>>
    BY <2>1, <2>2, <2>3, <1>5
  <2>4. CASE /\ LaterLogs(agg[k].to, tradeLogs) /\ cursor' = [cursor EXCEPT ![k] = agg[k].to]
             /\ missed' = [missed EXCEPT ![k] = missed[k] \cup late]
    <3>1. agg' \in [group \cap Kinds -> Rounds(tradeLogs)] /\ cursor' \in [group -> Nat]
      BY <2>1, <2>2, <2>4, <1>1, <1>4
    <3>2. late \subseteq tradeLogs
      BY DEF InRange
    <3>3. missed' \in [group \cap Kinds -> SUBSET tradeLogs]
      <4>1. missed[k] \cup late \in SUBSET tradeLogs
        BY <3>2, <1>1
      <4> HIDE DEF late
      <4> QED BY <4>1, <2>4, <1>1
    <3>4. ASSUME NEW j \in group \cap Kinds PROVE CursorFits(tradeLogs, cursor'[j])
      <4>1. CASE j # k
        BY <4>1, <2>4, <1>1
      <4>2. CASE j = k
        <5>1. tradeLogs # {} /\ agg[k].to < Timestamp(LastLog(tradeLogs)) /\ cursor'[j] = agg[k].to
          BY <4>2, <2>4, <1>1 DEF LaterLogs
        <5>2. LastLog(tradeLogs) \in tradeLogs /\ Timestamp(LastLog(tradeLogs)) \in Nat
          BY <5>1, LastOfBucket DEF Bucket
        <5>3. agg[k].to <= Timestamp(LastLog(tradeLogs))
          BY <5>1, <5>2, <1>4
        <5> QED BY <5>1, <5>2, <5>3 DEF CursorFits
      <4> QED BY <4>1, <4>2
    <3> QED BY <3>1, <3>3, <3>4, <1>1, <1>2 DEF AggPart
  <2> QED BY <2>1, <2>3, <2>4
<1> QED BY <1>6, <1>7, <1>8 DEF ReadTrades

\* What the steps on the tables do to a round: it goes on, and in the end it has a
\* part of the batch and the first trades.
TableStep(k, pc, batch, ever) ==
  /\ agg' = [agg EXCEPT ![k] = [pc |-> pc, from |-> agg[k].from, to |-> agg[k].to, batch |-> batch, ever |-> ever]]
  /\ pc \in {"day", "load", "set"} /\ batch \subseteq agg[k].batch /\ ever \in Firsts
  /\ pc = "day" => agg[k].pc = "ever" /\ SetFirstTradeEver(k)
  /\ pc = "load" => agg[k].pc = "day" /\ SetFirstTradeInDay(k)
  /\ pc # "set" \/ k # "country" => batch = agg[k].batch
  /\ pc = "set" => agg[k].pc = "load" /\ ever = firstEver /\ LoadFirstTrades(k)

LEMMA TableRound ==
  ASSUME AggPart, NEW k \in group \cap Kinds, FirstTrades(k)
  PROVE  \E pc, batch, ever : TableStep(k, pc, batch, ever)
<1> DEFINE B == agg[k].batch
           Round(pc, batch, ever) == [pc |-> pc, from |-> agg[k].from, to |-> agg[k].to, batch |-> batch, ever |-> ever]
<1>1. /\ agg \in [group \cap Kinds -> Rounds(tradeLogs)] /\ firstEver \in Firsts
      /\ agg[k] \in Rounds(tradeLogs) /\ agg[k].ever \in Firsts /\ k \in DOMAIN agg
  BY DEF AggPart, Rounds
<1>2. agg[k] = Round(agg[k].pc, B, agg[k].ever)
  BY <1>1 DEF Rounds
<1>3. ASSUME NEW pc PROVE [agg[k] EXCEPT !.pc = pc] = Round(pc, B, agg[k].ever)
  BY <1>2
<1>4. ASSUME NEW pc, agg' = [agg EXCEPT ![k].pc = pc] PROVE agg' = [agg EXCEPT ![k] = Round(pc, B, agg[k].ever)]
  <2>1. agg' = [agg EXCEPT ![k] = [agg[k] EXCEPT !.pc = pc]]
    BY <1>4
  <2> HIDE DEF Round
  <2> QED BY <2>1, <1>3
<1>5. CASE SetFirstTradeEver(k)
  <2>1. agg[k].pc = "ever" /\ agg' = [agg EXCEPT ![k].pc = "day"]
    BY <1>5 DEF SetFirstTradeEver, Step
  <2>2. TableStep(k, "day", B, agg[k].ever)
    BY <2>1, <1>1, <1>4, <1>5 DEF TableStep
  <2> QED BY <2>2
<1>6. CASE SetFirstTradeInDay(k)
  <2>1. agg[k].pc = "day" /\ agg' = [agg EXCEPT ![k].pc = "load"]
    BY <1>6 DEF SetFirstTradeInDay, Step
  <2>2. TableStep(k, "load", B, agg[k].ever)
    BY <2>1, <1>1, <1>4, <1>6 DEF TableStep
  <2> QED BY <2>2
<1>7. CASE LoadFirstTrades(k)
  <2>1. PICK done \in SUBSET Named(k, B) :
          agg' = [agg EXCEPT ![k].pc = "set", ![k].ever = firstEver, ![k].batch = IF k = "country" THEN done ELSE @]
    BY <1>7 DEF LoadFirstTrades
  <2> DEFINE batch == IF k = "country" THEN done ELSE B
             r == [agg[k] EXCEPT !.pc = "set"]
             s == [r EXCEPT !.ever = firstEver]
  <2>2. agg' = [agg EXCEPT ![k] = [s EXCEPT !.batch = batch]]
    <3>1. [agg EXCEPT ![k].pc = "set"] = [agg EXCEPT ![k] = r]
      OBVIOUS
    <3>2. [agg EXCEPT ![k].pc = "set", ![k].ever = firstEver] = [agg EXCEPT ![k] = s]
      BY <1>1
    <3>3. s.batch = B
      BY <1>2, <1>3
    <3> QED BY <2>1, <3>2, <3>3, <1>1
  <2>3. r = Round("set", B, agg[k].ever)
    BY <1>3
  <2>4. s = Round("set", B, firstEver)
    <3> HIDE DEF r
    <3> QED BY <2>3
  <2>5. [s EXCEPT !.batch = batch] = Round("set", batch, firstEver)
    <3> HIDE DEF s, batch
    <3> QED BY <2>4
  <2>6. batch \in SUBSET B /\ (k # "country" => batch = B)
    <3>1. k = "country" => Named(k, B) \subseteq B
      BY Zenon DEF Named, SetCountry
    <3> QED BY <3>1
  <2>7. agg[k].pc = "load"
    BY <1>7 DEF LoadFirstTrades
  <2>8. agg' = [agg EXCEPT ![k] = Round("set", batch, firstEver)]
    BY <2>2, <2>5, Zenon
  <2> HIDE DEF batch, s, r
  <2>9. TableStep(k, "set", batch, firstEver)
    BY <2>6, <2>7, <2>8, <1>1, <1>7 DEF TableStep
  <2> QED BY <2>9
<1> QED BY <1>5, <1>6, <1>7 DEF FirstTrades

\* The steps on the tables of first trades.
LEMMA FirstTradesTyped ==
  ASSUME Bucket(tradeLogs), BucketInv, AggPart, NEW k \in group \cap Kinds, FirstTrades(k)
  PROVE  AggPart'
<1>1. /\ agg \in [group \cap Kinds -> Rounds(tradeLogs)] /\ firstEver \in Firsts
  BY DEF AggPart
<1>2. UNCHANGED <<tradeLogs, group, cursor, missed, stats>>
  BY DEF FirstTrades, SetFirstTradeEver, SetFirstTradeInDay, LoadFirstTrades, logVars
<1>3. agg' \in [group \cap Kinds -> Rounds(tradeLogs)]
  <2>1. PICK pc, batch, ever : TableStep(k, pc, batch, ever)
    BY TableRound
  <2>2. agg[k] \in Rounds(tradeLogs)
    BY <1>1
  <2>3. [pc |-> pc, from |-> agg[k].from, to |-> agg[k].to, batch |-> batch, ever |-> ever] \in Rounds(tradeLogs)
    BY <2>1, <2>2 DEF Rounds, Pcs, TableStep
  <2> QED BY <2>1, <2>3, <1>1 DEF TableStep
<1>4. firstEver' \in Firsts
  <2> DEFINE found == {<<l.data.user, Timestamp(l)>> :
                         l \in {m \in agg[k].batch : ~DidTrade(m.data.user, Timestamp(m))}}
  <2>1. firstEver' = firstEver \/ firstEver' = WithFirst(firstEver, found)
    BY DEF FirstTrades, SetFirstTradeEver, SetFirstTradeInDay, LoadFirstTrades
  <2>2. ASSUME NEW l \in agg[k].batch PROVE l.data.user \in Traders /\ Timestamp(l) \in Nat
    <3>1. l \in tradeLogs
      BY BatchTimes
    <3>2. l.data \in TradeData
      BY <3>1 DEF BucketInv, TradeLogSet
    <3> QED BY <3>1, <3>2 DEF Traders, Bucket
  <2>3. found \in SUBSET (Traders \X Nat)
    BY <2>2
  <2> HIDE DEF found
  <2> QED BY <2>1, <2>3, <1>1, WithFirstTyped
<1> QED BY <1>2, <1>3, <1>4 DEF AggPart

\* What the transaction of an aggregation does.
LEMMA SetStatDoes ==
  ASSUME AggPart, NEW k \in group \cap Kinds, SetStat(k)
  PROVE  /\ UNCHANGED <<tradeLogs, group, firstEver, firstDay, listed, unlisted>>
         /\ agg[k].pc = "set" /\ agg' = [agg EXCEPT ![k] = NotRunning]
         /\ \/ /\ LastCounted(k) = 0 /\ Processed(k) # {} => "rewound" \in spoilt'
               /\ stats' = WithBatch(k) /\ cursor' = [cursor EXCEPT ![k] = LastCounted(k)]
               /\ missed' = [missed EXCEPT ![k] = IF LastCounted(k) = 0 THEN {}
                                                  ELSE missed[k] \cup PassedOver(k, LastCounted(k))]
               /\ spoilt' = spoilt \cup {"rewound"} \/ spoilt' = spoilt
            \/ UNCHANGED <<stats, cursor, missed, spoilt>>
<1>1. /\ UNCHANGED <<tradeLogs, group, firstEver, firstDay, listed, unlisted>>
      /\ agg[k].pc = "set" /\ agg' = [agg EXCEPT ![k] = NotRunning]
  BY DEF SetStat, logVars
<1>2. k \in DOMAIN missed
  BY DEF AggPart
<1> QED BY <1>1, <1>2 DEF SetStat

\* The statistics of a batch are stored.
LEMMA SetStatTyped ==
  ASSUME Bucket(tradeLogs), AggPart, NEW k \in group \cap Kinds, SetStat(k)
  PROVE  AggPart'
<1> DEFINE cells  == UNION {CellsOf(k, l) : l \in agg[k].batch}
           last   == LastCounted(k)
           Old(c) == IF c \in DOMAIN stats THEN stats[c] ELSE ZeroCell
           New(c) == IF c \in cells THEN Added(k, c) ELSE ZeroCell
<1>1. /\ agg \in [group \cap Kinds -> Rounds(tradeLogs)] /\ cursor \in [group -> Nat] /\ firstEver \in Firsts
      /\ missed \in [group \cap Kinds -> SUBSET tradeLogs]
      /\ \A j \in group \cap Kinds : CursorFits(tradeLogs, cursor[j])
      /\ \A c \in DOMAIN stats : stats[c] \in CellSet
  BY DEF AggPart
<1>2. UNCHANGED <<tradeLogs, group, firstEver>> /\ agg' = [agg EXCEPT ![k] = NotRunning]
  BY SetStatDoes
<1>3. agg' \in [group \cap Kinds -> Rounds(tradeLogs)]
  <2>1. NotRunning \in Rounds(tradeLogs)
    BY IdleTyped
  <2> QED BY <2>1, <1>1, <1>2
<1>4. CASE UNCHANGED <<stats, cursor, missed>>
  BY <1>1, <1>2, <1>3, <1>4 DEF AggPart
<1>5. CASE /\ stats' = WithBatch(k) /\ cursor' = [cursor EXCEPT ![k] = last]
           /\ missed' = [missed EXCEPT ![k] = IF last = 0 THEN {} ELSE missed[k] \cup PassedOver(k, last)]
  <2>1. /\ last \in Nat /\ (last # 0 => \E l \in tradeLogs : Timestamp(l) = last)
        /\ agg[k].batch \subseteq tradeLogs /\ IsFiniteSet(agg[k].batch)
    BY BatchTimes
  <2>2. ZeroCell \in CellSet
    BY DEF ZeroCell, CellSet
  <2>3. ASSUME NEW c PROVE Added(k, c) \in CellSet
    <3> DEFINE here  == {l \in agg[k].batch : c \in CellsOf(k, l)}
               new(l) == l.data.user \in DOMAIN agg[k].ever /\ agg[k].ever[l.data.user] = Timestamp(l)
               news  == {l \in here : k \in MetricKinds /\ new(l)}
               first == {l \in here : k \in MetricKinds
                                      /\ (new(l) \/ GetFirstTradeInDay(l, c[3][2]) = Timestamp(l))}
    <3>1. here \subseteq agg[k].batch /\ news \subseteq agg[k].batch /\ first \subseteq agg[k].batch
      OBVIOUS
    <3>2. Added(k, c) = [trades |-> Cardinality(here), users |-> Cardinality(first), newUsers |-> Cardinality(news)]
      BY DEF Added
    <3> HIDE DEF here, first, news
    <3>3. Cardinality(here) \in Nat /\ Cardinality(first) \in Nat /\ Cardinality(news) \in Nat
      BY <2>1, <3>1, FS_Subset, FS_CardinalityType
    <3> QED BY <3>2, <3>3 DEF CellSet
  <2>4. stats' = [c \in DOMAIN stats \cup cells |-> Sum(Old(c), New(c))]
    BY <1>5 DEF WithBatch
  <2>5. (\A c : Old(c) \in CellSet) /\ (\A c : New(c) \in CellSet)
    BY <2>2, <2>3, <1>1
  <2> HIDE DEF Old, New, cells, last
  <2>6. \A c \in DOMAIN stats' : stats'[c] \in CellSet
    <3> SUFFICES ASSUME NEW c \in DOMAIN stats' PROVE stats'[c] \in CellSet
      OBVIOUS
    <3>1. stats'[c] = Sum(Old(c), New(c))
      BY <2>4
    <3> QED BY <3>1, <2>5, SumOfCells
  <2>7. cursor' \in [group -> Nat]
    BY <2>1, <1>1, <1>5
  <2>8. ASSUME NEW j \in group \cap Kinds PROVE CursorFits(tradeLogs, cursor'[j])
    <3>1. CASE j # k
      BY <3>1, <1>1, <1>5
    <3>2. CASE j = k
      <4>1. cursor'[j] = last
        BY <3>2, <1>1, <1>5
      <4>2. last # 0 => \E l \in tradeLogs : last <= Timestamp(l)
        BY <2>1
      <4> QED BY <4>1, <4>2 DEF CursorFits
    <3> QED BY <3>1, <3>2
  <2>9. missed' \in [group \cap Kinds -> SUBSET tradeLogs]
    <3> DEFINE m == IF last = 0 THEN {} ELSE missed[k] \cup PassedOver(k, last)
    <3>1. m \in SUBSET tradeLogs
      <4>1. PassedOver(k, last) \subseteq tradeLogs
        BY Zenon DEF PassedOver, InRange
      <4>2. missed[k] \subseteq tradeLogs
        BY <1>1
      <4> QED BY <4>1, <4>2
    <3>2. missed' = [missed EXCEPT ![k] = m]
      BY <1>5
    <3> HIDE DEF m
    <3> QED BY <3>1, <3>2, <1>1
  <2> QED BY <2>6, <2>7, <2>8, <2>9, <1>2, <1>1, <1>3 DEF AggPart
<1> QED BY <1>4, <1>5, SetStatDoes

\* Which aggregation a step belongs to.
LEMMA AggregationSteps ==
  ASSUME \/ RunBurnFeeAggregation \/ RunVolumeStatAggregation \/ RunUserInfoAggregation
         \/ RunTradeSummaryAggregation \/ RunWalletStatAggregation \/ RunCountryStatAggregation
  PROVE  \E k \in group \cap Kinds : ReadTrades(k) \/ (k \in MetricKinds /\ FirstTrades(k)) \/ SetStat(k)
<1>1. Kinds = {"burn", "volume", "summary", "wallet", "country", "user"} /\ MetricKinds = {"summary", "wallet", "country"}
  BY DEF Kinds, MetricKinds
<1> QED BY <1>1 DEF RunBurnFeeAggregation, RunVolumeStatAggregation, RunUserInfoAggregation,
       RunTradeSummaryAggregation, RunWalletStatAggregation, RunCountryStatAggregation,
       SetBurnFeeStat, SetVolumeStat, SetUserList, SetTradeSummary, SetWalletStat, SetCountryStat

\* What the other steps do to the aggregations: nothing, a round starts, or all stop.
Elsewhere ==
  /\ UNCHANGED <<group, tableVars, lossVars>>
  /\ cursor' = cursor \/ \E v : cursor' = [cursor EXCEPT !["cat"] = v]
  /\ \/ agg' = agg
     \/ agg' = [k \in DOMAIN agg |-> [NotRunning EXCEPT !.pc = "start", !.to = Now]]
     \/ agg' = [k \in DOMAIN agg |-> NotRunning]

LEMMA StepKinds ==
  ASSUME [StatNext]_statVars
  PROVE  \/ Elsewhere
         \/ \E k \in group \cap Kinds : ReadTrades(k) \/ (k \in MetricKinds /\ FirstTrades(k)) \/ SetStat(k)
<1>1. CASE FetcherStep \/ RunTradeLogProcessor \/ Restart \/ ReadCatLogs \/ ApplyCatLog
  BY <1>1 DEF FetcherStep, RunTradeLogProcessor, Restart, ReadCatLogs, ApplyCatLog, Elsewhere
<1>2. CASE RunCatLogProcessor
  BY <1>2 DEF RunCatLogProcessor, Elsewhere
<1>3. CASE FinishCatLogs
  BY <1>3 DEF FinishCatLogs, Elsewhere
<1>4. CASE SkipCatLogs
  <2>1. cursor' = cursor \/ cursor' = [cursor EXCEPT !["cat"] = catRun.to]
    BY <1>4 DEF SkipCatLogs
  <2> QED BY <2>1, <1>4 DEF SkipCatLogs, Elsewhere
<1>5. CASE UNCHANGED statVars
  BY <1>5 DEF statVars, aggVars, Elsewhere
<1> QED BY <1>1, <1>2, <1>3, <1>4, <1>5, AggregationSteps DEF StatNext

\* Every step keeps the types of the aggregations.
LEMMA AggStep ==
  ASSUME LogInv, BucketInv, CatInv', AggPart, [StatNext]_statVars, Appends(tradeLogs, tradeLogs')
  PROVE  AggPart'
<1>1. /\ agg \in [group \cap Kinds -> Rounds(tradeLogs)] /\ cursor \in [group -> Nat] /\ firstEver \in Firsts
      /\ missed \in [group \cap Kinds -> SUBSET tradeLogs]
      /\ \A k \in group \cap Kinds : CursorFits(tradeLogs, cursor[k])
      /\ \A c \in DOMAIN stats : stats[c] \in CellSet
  BY DEF AggPart
<1>2. Bucket(tradeLogs) /\ tradeLogs \subseteq tradeLogs'
  BY OrderedStates, AppendsFacts
<1>3. CASE Elsewhere
  <2>1. UNCHANGED <<group, firstEver, stats, missed>>
    BY <1>3 DEF Elsewhere, tableVars, lossVars
  <2>2. Rounds(tradeLogs) \subseteq Rounds(tradeLogs')
    BY <1>2 DEF Rounds
  <2>3. NotRunning \in Rounds(tradeLogs') /\ [NotRunning EXCEPT !.pc = "start", !.to = Now] \in Rounds(tradeLogs')
    <3>1. Now \in Nat
      BY TimeNumbers DEF Now
    <3>2. [NotRunning EXCEPT !.pc = "start", !.to = Now]
          = [pc |-> "start", from |-> 0, to |-> Now, batch |-> {}, ever |-> Empty]
      BY IdleTyped
    <3>3. "start" \in Pcs /\ 0 \in Nat /\ {} \in SUBSET tradeLogs'
      BY DEF Pcs
    <3>4. [pc |-> "start", from |-> 0, to |-> Now, batch |-> {}, ever |-> Empty] \in Rounds(tradeLogs')
      <4>1. \A pc \in Pcs, f \in Nat, t \in Nat, b \in SUBSET tradeLogs' :
              [pc |-> pc, from |-> f, to |-> t, batch |-> b, ever |-> Empty] \in Rounds(tradeLogs')
        BY IdleTyped
      <4> HIDE DEF Rounds
      <4> QED BY <4>1, <3>1, <3>3
    <3>5. NotRunning \in Rounds(tradeLogs')
      BY IdleTyped
    <3> QED BY <3>2, <3>4, <3>5
  <2>4. agg' \in [group \cap Kinds -> Rounds(tradeLogs')]
    BY <1>1, <1>3, <2>2, <2>3 DEF Elsewhere
  <2>5. cursor' \in [group -> Nat] /\ \A k \in group \cap Kinds : cursor'[k] = cursor[k]
    <3>1. CASE cursor' = cursor
      BY <3>1, <1>1
    <3>2. ASSUME NEW v, cursor' = [cursor EXCEPT !["cat"] = v]
          PROVE  cursor' \in [group -> Nat] /\ \A k \in group \cap Kinds : cursor'[k] = cursor[k]
      <4>1. "cat" \in group => cursor'["cat"] \in Nat
        BY <2>1 DEF CatInv, CatCursorPart
      <4>2. "cat" \notin Kinds
        BY DEF Kinds
      <4> QED BY <3>2, <4>1, <4>2, <1>1
    <3> QED BY <3>1, <3>2, <1>3 DEF Elsewhere
  <2>6. missed' \in [group \cap Kinds -> SUBSET tradeLogs']
    <3>1. SUBSET tradeLogs \subseteq SUBSET tradeLogs'
      BY <1>2
    <3> QED BY <3>1, <1>1, <2>1
  <2>7. \A k \in group \cap Kinds : CursorFits(tradeLogs', cursor'[k])
    BY <1>1, <1>2, <2>5 DEF CursorFits
  <2> QED BY <2>1, <2>4, <2>5, <2>6, <2>7, <1>1 DEF AggPart
<1>4. ASSUME NEW k \in group \cap Kinds, ReadTrades(k) \/ FirstTrades(k) \/ SetStat(k) PROVE AggPart'
  BY <1>2, <1>4, ReadTyped, FirstTradesTyped, SetStatTyped
<1> QED BY <1>3, <1>4, StepKinds

\* The aggregations at the start.
LEMMA AggInit == StatInit => AggPart
<1> SUFFICES ASSUME StatInit PROVE AggPart
  OBVIOUS
<1>1. /\ agg = [k \in group \cap Kinds |-> NotRunning] /\ cursor = [k \in group |-> 0]
      /\ missed = [k \in group \cap Kinds |-> {}] /\ firstEver = Empty /\ DOMAIN stats = {}
  BY DEF StatInit, AggregationInit, Empty
<1>2. NotRunning \in Rounds(tradeLogs) /\ Empty \in Firsts
  BY IdleTyped
<1>3. \A k \in group \cap Kinds : CursorFits(tradeLogs, cursor[k])
  BY <1>1 DEF CursorFits
<1> QED BY <1>1, <1>2, <1>3 DEF AggPart

\* The cursor of the log fetcher is a block number, also where the head has wrapped.
BlockPart == block <= WordSize /\ fetch.max <= MaxBlock

LEMMA BlockStep ==
  ASSUME LogInv, BlockPart, [StatNext]_statVars
  PROVE  BlockPart'
<1>1. /\ WordSize \in Nat /\ MaxBlock \in Nat /\ ReorgSafe \in Nat /\ MaxBlock <= WordSize /\ Window \in Nat
  BY LogNumbers
<1>2. ASSUME UNCHANGED <<block, fetch>> PROVE BlockPart'
  BY <1>2 DEF BlockPart
<1>3. CASE FetchLogs
  <2>1. /\ fetch.logs \in Seq(LogSet) /\ fetch.logs # <<>> /\ fetch.max \in Nat /\ block \in Nat
        /\ Head(fetch.logs) = fetch.logs[1] /\ 1 \in 1 .. Len(fetch.logs)
    BY <1>3 DEF FetchLogs, LogInv, SettledPart
  <2>2. PICK b, p \in Nat : ReadAt(fetch.logs[1], chain, b, p)
    BY <2>1 DEF LogInv, SettledPart
  <2>3. Head(fetch.logs).block \in Nat /\ Head(fetch.logs).block <= MaxBlock
    BY <2>1, <2>2, <1>1 DEF ReadAt, Place, LogInv, ChainPart
  <2> DEFINE max == IF Head(fetch.logs).block > fetch.max THEN Head(fetch.logs).block ELSE fetch.max
  <2>4. \/ block' = max /\ fetch'.max = 0
        \/ ((block' = max \/ block' = block) /\ fetch'.max = max)
    BY <1>3 DEF FetchLogs, Idle
  <2> QED BY <2>1, <2>3, <2>4, <1>1 DEF BlockPart
<1>4. CASE RunLogFetcher
  <2> DEFINE to == IF LastBlock + 1 + Window > SafeHead THEN SafeHead ELSE LastBlock + 1 + Window
  <2>1. SafeHead \in Int /\ SafeHead <= WordSize
    BY <1>1, UnknownHead, SafeHeadIs DEF LogInv, ChainPart
  <2>2. LastBlock \in Nat
    BY LogNumbers DEF LastBlock, LogInv, SettledPart
  <2>3. to <= WordSize
    BY <2>1, <2>2, <1>1
  <2>4. (block' = to /\ fetch' = fetch) \/ (block' = block /\ fetch'.max = 0)
    BY <1>4 DEF RunLogFetcher
  <2> HIDE DEF to
  <2> QED BY <2>3, <2>4, <1>1 DEF BlockPart
<1>5. CASE Restart
  <2>1. block' = LastLog(tradeLogs).block /\ fetch' = Idle
    BY <1>5 DEF Restart, RestartLogs, LoadLastLogIndex
  <2>2. LastLog(tradeLogs).block \in Nat /\ LastLog(tradeLogs).block <= MaxBlock
    <3>1. CASE tradeLogs = {}
      BY <3>1, <1>1 DEF LastLog, NoLog
    <3>2. CASE tradeLogs # {}
      BY <3>2, LastTrade, StoredFields
    <3> QED BY <3>1, <3>2
  <2> QED BY <2>1, <2>2, <1>1 DEF BlockPart, Idle
<1>6. CASE FetcherStep
  <2>1. UNCHANGED <<block, fetch>> \/ RunLogFetcher \/ FetchLogs
    BY <1>6 DEF FetcherStep, StatLogsNext, Mine, Reorg, FetchCurrentBlock
  <2> QED BY <2>1, <1>2, <1>3, <1>4
<1>7. CASE UNCHANGED statVars
  BY <1>2, <1>7 DEF statVars, logVars
<1>8. ASSUME UNCHANGED <<logVars, crashes>> PROVE BlockPart'
  BY <1>2, <1>8 DEF logVars
<1> QED BY <1>5, <1>6, <1>7, <1>8, AggregationsAside DEF StatNext

LEMMA BlockInit == StatInit => BlockPart
BY LogNumbers DEF StatInit, StatLogsInit, Idle, BlockPart

\* What holds of the logs, the buckets, the categories and the types.
StatInv == LogInv /\ BucketInv /\ CatInv /\ AggPart /\ BlockPart

\* Every step keeps it.
LEMMA StatInvStep == StatInv /\ [StatNext]_statVars => StatInv' /\ Appends(tradeLogs, tradeLogs')
<1> SUFFICES ASSUME LogInv, BucketInv, CatInv, AggPart, BlockPart, [StatNext]_statVars
             PROVE  /\ LogInv' /\ BucketInv' /\ CatInv' /\ AggPart' /\ BlockPart'
                    /\ Appends(tradeLogs, tradeLogs')
  BY DEF StatInv
<1>1. LogInv'
  BY LogInvStep
<1>2. BucketInv' /\ Appends(tradeLogs, tradeLogs')
  BY BucketStep
<1>3. CatInv'
  BY <1>1, <1>2, CatStep
<1>4. AggPart'
  BY <1>2, <1>3, AggStep
<1>5. BlockPart'
  BY BlockStep
<1> QED BY <1>1, <1>2, <1>3, <1>4, <1>5

\* It holds always.
THEOREM StatInvAlways == StatSpec => []StatInv
<1>1. StatInit => StatInv
  BY LogInvInit, BucketInit, CatInit, AggInit, BlockInit DEF StatInv
<1> QED BY <1>1, StatInvStep, PTL DEF StatSpec

\* The type invariant follows.
LEMMA StatInvTypes == StatInv => StatTypeOK
<1> SUFFICES ASSUME LogInv, BucketInv, CatInv, AggPart, BlockPart PROVE StatTypeOK
  BY DEF StatInv
<1>1. DeployBlock \in Nat /\ MaxBlock \in Nat /\ WordSize \in Nat
  BY LogNumbers
<1>2. Len(chain) \in Nat /\ Len(chain) >= DeployBlock /\ Len(chain) <= MaxBlock
      /\ currentBlock \in Nat /\ currentBlock <= Len(chain)
  BY DEF LogInv, ChainPart
<1>3. block \in Nat /\ block <= WordSize
  BY DEF LogInv, SettledPart, BlockPart
<1>4. Len(chain) \in DeployBlock .. MaxBlock /\ currentBlock \in 0 .. MaxBlock /\ block \in 0 .. WordSize
  BY <1>1, <1>2, <1>3
<1>5. \A l \in tradeLogs : l.data \in TradeData /\ l.country \in Countries
  BY DEF BucketInv, TradeLogSet
<1>6. \A k \in DOMAIN agg : agg[k].pc \in {"idle", "start", "read", "last", "ever", "day", "load", "set"}
  BY DEF AggPart, Rounds, Pcs
<1>7. IsMap(firstEver, Traders, Nat)
  <2>1. PICK U \in SUBSET Traders : firstEver \in [U -> Nat]
    BY DEF AggPart, Firsts
  <2> QED BY <2>1 DEF IsMap
<1> QED BY <1>4, <1>5, <1>6, <1>7 DEF AggPart, CellSet, StatTypeOK

\* The type invariant of the log storage and the statistics: among others, the
\* cursors are times whatever range was empty or batch not counted, and only
\* traders have a first trade.
THEOREM StatTyped == StatSpec => []StatTypeOK
BY StatInvAlways, StatInvTypes, PTL

------------------------------------------------------------------------------

\* What the statistics count, cell by cell.

\* The trades of logs a cell counts, and what it should say of them.
Here(k, c, logs) == {l \in logs : c \in CellsOf(k, l)}
CountOf(k, c, logs) ==
  [trades   |-> Cardinality(logs),
   users    |-> Cardinality({l \in logs : k \in MetricKinds /\ FirstHere(l, c[3][2])}),
   newUsers |-> Cardinality({l \in logs : k \in MetricKinds /\ NewHere(l)})]

\* Of the processed trades.
InCell(c) == Here(c[1], c, Processed(c[1]))
CellOf(c) == CountOf(c[1], c, InCell(c))

\* The aggregations that count every processed trade once: that of the countries
\* counts again after its cursor went back.
ExactKinds == {k \in group \cap Kinds : k = "country" => "rewound" \notin spoilt}

\* A range starts behind the cursor and before all trades that are not processed.
RangeFits(logs, from, a) ==
  a.pc \in {"read", "last"} =>
    /\ a.from <= a.to /\ from <= a.from /\ (from = 0 \/ from < a.from)
    /\ a.from = from + 1 \/ \E l \in logs : a.from <= Timestamp(l)
    /\ \A m \in logs : from < Timestamp(m) => a.from <= Timestamp(m)

\* A batch holds the next trades behind the cursor, without a gap but for what the
\* country aggregation leaves out in the end.
Working == {"ever", "day", "load", "set"}
BatchFits(k, logs, from, a) ==
  /\ \A l \in a.batch : from < Timestamp(l)
  /\ \A l \in a.batch, m \in logs :
       from < Timestamp(m) /\ Timestamp(m) <= Timestamp(l) => m \in a.batch \/ (a.pc = "set" /\ LeftOut(k, m))
  /\ a.pc \in Working => a.batch # {} \/ (a.pc = "set" /\ k = "country")

Fits(k) ==
  /\ RangeFits(tradeLogs, cursor[k], agg[k])
  /\ BatchFits(k, tradeLogs, cursor[k], agg[k])
  /\ \A l \in missed[k] : Timestamp(l) <= cursor[k]

BatchPart == \A k \in group \cap Kinds : Fits(k)

\* The tables of first trades know a trade, and know the first.
KnownEver(l) == l.data.user \in DOMAIN firstEver
KnownDay(l)  == \A z \in Zones : DayOf(l, z) \in DOMAIN firstDay

FirstsPart ==
  /\ \A u \in DOMAIN firstEver :
       \E l \in tradeLogs : l.data.user = u /\ Timestamp(l) = firstEver[u] /\ NewHere(l)
  /\ \A d \in DOMAIN firstDay :
       \E l \in tradeLogs, z \in Zones : DayOf(l, z) = d /\ Timestamp(l) = firstDay[d] /\ FirstHere(l, z)

\* An aggregation that counts users has put the trades behind its cursor into the
\* tables, and those of its batch as far as it has come.
Behind(logs, from) == {l \in logs : Timestamp(l) <= from}
TableFits(k) ==
  /\ \A l \in Behind(tradeLogs, cursor[k]) : KnownEver(l) /\ KnownDay(l)
  /\ agg[k].pc \in {"day", "load"} => \A l \in agg[k].batch : KnownEver(l)
  /\ agg[k].pc = "load" => \A l \in agg[k].batch : KnownDay(l)
  /\ agg[k].pc = "set" => \A l \in agg[k].batch :
       /\ l.data.user \in DOMAIN agg[k].ever /\ agg[k].ever[l.data.user] = firstEver[l.data.user]
       /\ \A m \in Behind(tradeLogs, Timestamp(l)) : KnownEver(m) /\ KnownDay(m)

TablePart == \A k \in group \cap MetricKinds : TableFits(k)

\* The cells say what they should, of users as long as the tables can be trusted.
SameCell(bad, x, y) == x.trades = y.trades /\ ("tables" \notin bad => x = y)
Doubt(k)            == IF k \in MetricKinds THEN spoilt ELSE {}
CellPart ==
  /\ \A c \in DOMAIN stats : c[1] \in ExactKinds => InCell(c) # {} /\ SameCell(Doubt(c[1]), stats[c], CellOf(c))
  /\ \A k \in ExactKinds : \A l \in Processed(k) : CellsOf(k, l) \subseteq DOMAIN stats

(***************************************************************************)
(* The inductive invariant of the statistics.                              *)
(***************************************************************************)
ExactInv == BatchPart /\ CellPart /\ ("tables" \notin spoilt => FirstsPart /\ TablePart)

\* What every step does: trades are only added, at the end, and what was spoilt
\* remains so.
Onward ==
  /\ Bucket(tradeLogs) /\ Bucket(tradeLogs)' /\ Appends(tradeLogs, tradeLogs')
  /\ group' = group /\ spoilt \subseteq spoilt' /\ unlisted \subseteq unlisted'

LEMMA OnwardStep ==
  ASSUME StatInv, [StatNext]_statVars
  PROVE  Onward
<1>1. StatInv' /\ Appends(tradeLogs, tradeLogs')
  BY StatInvStep
<1>2. Bucket(tradeLogs)
  BY OrderedStates DEF StatInv
<1>3. Bucket(tradeLogs)'
  <2>1. (LogInv /\ BucketInv => Bucket(tradeLogs))'
    BY OrderedStates, PTL
  <2> QED BY <2>1, <1>1 DEF StatInv
<1>4. group' = group /\ spoilt \subseteq spoilt' /\ unlisted \subseteq unlisted'
  <2>1. CASE Elsewhere
    BY <2>1 DEF Elsewhere, lossVars
  <2>2. ASSUME NEW k, ReadTrades(k) PROVE <1>4!:
    BY <2>2 DEF ReadTrades, ReadCursor, ReadTradeLogs, SkipTradeLogs, lossVars
  <2>3. ASSUME NEW k, FirstTrades(k) PROVE <1>4!:
    BY <2>3 DEF FirstTrades, SetFirstTradeEver, SetFirstTradeInDay, LoadFirstTrades, TableFails
  <2>4. ASSUME NEW k, SetStat(k) PROVE <1>4!:
    BY <2>4 DEF SetStat
  <2> QED BY <2>1, <2>2, <2>3, <2>4, StepKinds
<1> QED BY <1>1, <1>2, <1>3, <1>4 DEF Onward

\* A log stored later does not change which trades come first.
LEMMA FirstsStay ==
  ASSUME Bucket(tradeLogs), Bucket(tradeLogs)', Appends(tradeLogs, tradeLogs'), NEW l \in tradeLogs
  PROVE  /\ l \in tradeLogs'
         /\ NewHere(l)' <=> NewHere(l)
         /\ \A z : FirstHere(l, z)' <=> FirstHere(l, z)
<1>1. CASE tradeLogs' = tradeLogs
  BY <1>1 DEF NewHere, FirstHere
<1>2. ASSUME NEW x, tradeLogs' = tradeLogs \cup {x}, \A m \in tradeLogs : Timestamp(m) < Timestamp(x)
      PROVE  /\ l \in tradeLogs'
             /\ NewHere(l)' <=> NewHere(l)
             /\ \A z : FirstHere(l, z)' <=> FirstHere(l, z)
  <2>1. Timestamp(l) <= Timestamp(x) /\ l \in tradeLogs'
    <3>1. Timestamp(l) \in Nat /\ Timestamp(x) \in Nat /\ Timestamp(l) < Timestamp(x)
      BY <1>2 DEF Bucket
    <3> QED BY <3>1, <1>2
  <2>2. \A m \in tradeLogs' : m \in tradeLogs \/ m = x
    BY <1>2
  <2>3. \A m \in tradeLogs : m \in tradeLogs'
    BY <1>2
  <2>4. NewHere(l)' <=> NewHere(l)
    BY <2>1, <2>2, <2>3 DEF NewHere
  <2>5. ASSUME NEW z PROVE FirstHere(l, z)' <=> FirstHere(l, z)
    BY <2>1, <2>2, <2>3 DEF FirstHere
  <2> QED BY <2>1, <2>4, <2>5
<1> QED BY <1>1, <1>2 DEF Appends

\* Nor does it lie behind a cursor.
LEMMA NothingBehind ==
  ASSUME Bucket(tradeLogs), Bucket(tradeLogs)', Appends(tradeLogs, tradeLogs'),
         NEW from \in Nat, CursorFits(tradeLogs, from)
  PROVE  /\ {l \in tradeLogs' : Timestamp(l) <= from} = {l \in tradeLogs : Timestamp(l) <= from}
         /\ CursorFits(tradeLogs', from)
<1>1. CASE tradeLogs' = tradeLogs
  BY <1>1
<1>2. ASSUME NEW x, tradeLogs' = tradeLogs \cup {x}, \A m \in tradeLogs : Timestamp(m) < Timestamp(x)
      PROVE  /\ {l \in tradeLogs' : Timestamp(l) <= from} = {l \in tradeLogs : Timestamp(l) <= from}
             /\ CursorFits(tradeLogs', from)
  <2>1. Timestamp(x) \in Nat /\ Timestamp(x) > 0
    BY <1>2 DEF Bucket
  <2>2. from < Timestamp(x)
    <3>1. CASE from = 0
      BY <3>1, <2>1
    <3>2. CASE from # 0
      <4>1. PICK l \in tradeLogs : from <= Timestamp(l)
        BY <3>2 DEF CursorFits
      <4>2. Timestamp(l) \in Nat /\ Timestamp(l) < Timestamp(x)
        BY <1>2 DEF Bucket
      <4> QED BY <4>1, <4>2, <2>1
    <3> QED BY <3>1, <3>2
  <2>3. ~(Timestamp(x) <= from)
    BY <2>1, <2>2
  <2> QED BY <2>3, <1>2 DEF CursorFits
<1> QED BY <1>1, <1>2 DEF Appends

\* What is left out stays out.
LEMMA LeftOutStays ==
  ASSUME unlisted \subseteq unlisted', NEW k, NEW l, LeftOut(k, l)
  PROVE  LeftOut(k, l)'
BY Zenon DEF LeftOut

\* Numbers of a round.
LEMMA RoundNumbers ==
  ASSUME AggPart, NEW k \in group \cap Kinds
  PROVE  /\ cursor[k] \in Nat /\ agg[k].from \in Nat /\ agg[k].to \in Nat /\ agg[k].batch \subseteq tradeLogs
         /\ missed[k] \subseteq tradeLogs /\ CursorFits(tradeLogs, cursor[k])
         /\ k \in DOMAIN agg /\ k \in DOMAIN cursor /\ k \in DOMAIN missed
<1>1. agg[k] \in Rounds(tradeLogs)
  BY DEF AggPart
<1>2. agg[k].from \in Nat /\ agg[k].to \in Nat /\ agg[k].batch \subseteq tradeLogs
  BY <1>1 DEF Rounds
<1> QED BY <1>2 DEF AggPart

\* An aggregation that goes on, or stops before it has read anything.
LEMMA FitsStay ==
  ASSUME Onward, AggPart, NEW k \in group \cap Kinds, Fits(k),
         cursor'[k] = cursor[k], missed'[k] = missed[k],
         \/ agg'[k] = agg[k]
         \/ agg'[k].pc \in {"idle", "start"} /\ agg'[k].batch = {}
  PROVE  /\ Fits(k)' /\ Processed(k)' = Processed(k)
         /\ Behind(tradeLogs, cursor[k])' = Behind(tradeLogs, cursor[k])
<1>1. /\ Bucket(tradeLogs) /\ Bucket(tradeLogs)' /\ Appends(tradeLogs, tradeLogs') /\ unlisted \subseteq unlisted'
      /\ tradeLogs \subseteq tradeLogs'
      /\ \A m \in tradeLogs' : m \in tradeLogs \/ \A l \in tradeLogs : Timestamp(l) < Timestamp(m)
  BY AppendsFacts DEF Onward
<1>2. /\ cursor[k] \in Nat /\ agg[k].from \in Nat /\ agg[k].to \in Nat /\ agg[k].batch \subseteq tradeLogs
      /\ CursorFits(tradeLogs, cursor[k])
  BY RoundNumbers
<1>3. Behind(tradeLogs, cursor[k])' = Behind(tradeLogs, cursor[k])
  <2>1. {l \in tradeLogs' : Timestamp(l) <= cursor[k]} = {l \in tradeLogs : Timestamp(l) <= cursor[k]}
    BY <1>1, <1>2, NothingBehind
  <2> QED BY <2>1 DEF Behind
<1>4. Processed(k)' = Processed(k)
  BY <1>3 DEF Processed, Behind
<1>5. \A m \in tradeLogs' : Timestamp(m) \in Nat
  BY <1>1 DEF Bucket
<1>6. CASE agg'[k] = agg[k]
  <2>1. RangeFits(tradeLogs', cursor[k], agg[k])
    <3>1. RangeFits(tradeLogs, cursor[k], agg[k])
      BY DEF Fits
    <3>2. ASSUME agg[k].pc \in {"read", "last"}, NEW m \in tradeLogs', m \notin tradeLogs, cursor[k] < Timestamp(m)
          PROVE  agg[k].from <= Timestamp(m)
      <4>1. \A l \in tradeLogs : Timestamp(l) < Timestamp(m)
        BY <3>2, <1>1
      <4>2. CASE agg[k].from = cursor[k] + 1
        BY <4>2, <3>2, <1>2, <1>5
      <4>3. CASE \E l \in tradeLogs : agg[k].from <= Timestamp(l)
        <5>1. PICK l \in tradeLogs : agg[k].from <= Timestamp(l)
          BY <4>3
        <5>2. Timestamp(l) \in Nat /\ Timestamp(m) \in Nat /\ Timestamp(l) < Timestamp(m)
          BY <4>1, <1>1, <1>5
        <5> QED BY <5>1, <5>2, <1>2
      <4> QED BY <3>1, <3>2, <4>2, <4>3 DEF RangeFits
    <3> QED BY <3>1, <3>2, <1>1 DEF RangeFits
  <2>2. BatchFits(k, tradeLogs, cursor[k], agg[k])'
    <3>1. BatchFits(k, tradeLogs, cursor[k], agg[k])
      BY DEF Fits
    <3>2. ASSUME NEW l \in agg[k].batch, NEW m \in tradeLogs', cursor[k] < Timestamp(m), Timestamp(m) <= Timestamp(l)
          PROVE  m \in agg[k].batch \/ (agg[k].pc = "set" /\ LeftOut(k, m)')
      <4>1. l \in tradeLogs /\ Timestamp(l) \in Nat /\ Timestamp(m) \in Nat
        BY <1>1, <1>2, <1>5
      <4>2. m \in tradeLogs
        BY <3>2, <4>1, <1>1
      <4>3. m \in agg[k].batch \/ (agg[k].pc = "set" /\ LeftOut(k, m))
        BY <3>1, <3>2, <4>2 DEF BatchFits
      <4> QED BY <4>3, <1>1, LeftOutStays
    <3> QED BY <3>1, <3>2, <1>6 DEF BatchFits
  <2> QED BY <2>1, <2>2, <1>3, <1>4, <1>6 DEF Fits
<1>7. CASE agg'[k].pc \in {"idle", "start"} /\ agg'[k].batch = {}
  <2>1. RangeFits(tradeLogs, cursor[k], agg[k])' /\ BatchFits(k, tradeLogs, cursor[k], agg[k])'
    BY <1>7 DEF RangeFits, BatchFits, Working
  <2> QED BY <2>1, <1>3, <1>4 DEF Fits
<1> QED BY <1>6, <1>7

\* The reads of an aggregation: a range without trades is skipped, and what it reads
\* is the next trades.
LEMMA ReadFits ==
  ASSUME Onward, LogInv, BucketInv, AggPart, NEW k \in group \cap Kinds, Fits(k), ReadTrades(k)
  PROVE  /\ Fits(k)' /\ Processed(k)' = Processed(k)
         /\ k \in MetricKinds /\ "tables" \notin spoilt' =>
              Behind(tradeLogs, cursor[k])' = Behind(tradeLogs, cursor[k])
         /\ agg'[k].pc \notin {"day", "load"} /\ (k \in MetricKinds => agg'[k].pc # "set")
<1>1. /\ cursor[k] \in Nat /\ agg[k].from \in Nat /\ agg[k].to \in Nat /\ CursorFits(tradeLogs, cursor[k])
      /\ k \in DOMAIN agg /\ k \in DOMAIN cursor /\ k \in DOMAIN missed
  BY RoundNumbers
<1>2. Bucket(tradeLogs) /\ \A m \in tradeLogs : Timestamp(m) \in Nat /\ Timestamp(m) > 0
  BY DEF Onward, Bucket
<1>3. tradeLogs' = tradeLogs
  BY DEF ReadTrades, ReadCursor, ReadTradeLogs, SkipTradeLogs, logVars
<1>4. RangeFits(tradeLogs, cursor[k], agg[k]) /\ \A l \in missed[k] : Timestamp(l) <= cursor[k]
  BY DEF Fits
<1>5. CASE ReadCursor(k)
  <2> DEFINE range == TimeRange(k, tradeLogs, agg[k].to)
             r     == [NotRunning EXCEPT !.pc = "read", !.from = range.from, !.to = range.to]
  <2>1. agg' = [agg EXCEPT ![k] = r] /\ UNCHANGED <<cursor, missed>>
    BY <1>5 DEF ReadCursor, lossVars
  <2>2. /\ range.from <= range.to /\ cursor[k] <= range.from /\ (cursor[k] = 0 \/ cursor[k] < range.from)
        /\ range.from = cursor[k] + 1 \/ \E l \in tradeLogs : range.from <= Timestamp(l)
        /\ \A m \in tradeLogs : cursor[k] < Timestamp(m) <=> range.from <= Timestamp(m)
    BY <1>1, <1>2, RangeIs DEF CursorFits
  <2> HIDE DEF range
  <2>3. r = [pc |-> "read", from |-> range.from, to |-> range.to, batch |-> {}, ever |-> Empty]
    BY IdleTyped
  <2>4. agg'[k] = r
    BY <2>1, <1>1
  <2>5. agg'[k].pc = "read" /\ agg'[k].from = range.from /\ agg'[k].to = range.to /\ agg'[k].batch = {}
    <3> HIDE DEF r
    <3> QED BY <2>3, <2>4
  <2>6. RangeFits(tradeLogs, cursor[k], agg'[k])
    BY <2>2, <2>5 DEF RangeFits
  <2>7. BatchFits(k, tradeLogs, cursor[k], agg[k])'
    BY <2>5 DEF BatchFits, Working
  <2>8. Fits(k)'
    BY <2>1, <2>6, <2>7, <1>3, <1>4 DEF Fits
  <2> QED BY <2>1, <2>5, <2>8, <1>3 DEF Processed, Behind
<1>6. CASE ReadTradeLogs(k)
  <2> DEFINE batch == Range(GetTradeLogs(agg[k].from, agg[k].to))
             pc    == IF k \in MetricKinds THEN "ever" ELSE "set"
             r     == [NotRunning EXCEPT !.pc = pc, !.batch = batch]
  <2>1. /\ agg[k].pc = "read" /\ UNCHANGED <<cursor, missed>>
        /\ agg' = [agg EXCEPT ![k] = IF batch = {} THEN [agg[k] EXCEPT !.pc = "last"] ELSE r]
    BY <1>6 DEF ReadTradeLogs, lossVars
  <2>2. batch = InRange(tradeLogs, agg[k].from, agg[k].to)
    BY <1>1, <1>2, TradeLogsRead
  <2> HIDE DEF batch
  <2>3. CASE batch = {}
    <3>1. agg'[k] = [agg[k] EXCEPT !.pc = "last"]
      BY <2>1, <2>3, <1>1
    <3>2. agg[k] \in Rounds(tradeLogs)
      BY DEF AggPart
    <3>3. /\ agg'[k].pc = "last" /\ agg'[k].from = agg[k].from /\ agg'[k].to = agg[k].to
          /\ agg'[k].batch = agg[k].batch
      BY <3>1, <3>2 DEF Rounds
    <3>4. RangeFits(tradeLogs, cursor[k], agg'[k])
      BY <3>3, <2>1, <1>4 DEF RangeFits
    <3>5. BatchFits(k, tradeLogs, cursor[k], agg[k])'
      <4>1. BatchFits(k, tradeLogs, cursor[k], agg[k])
        BY DEF Fits
      <4> QED BY <4>1, <3>3, <2>1, <1>3 DEF BatchFits, Working
    <3>6. Fits(k)'
      BY <3>4, <3>5, <2>1, <1>3, <1>4 DEF Fits
    <3> QED BY <3>3, <3>6, <2>1, <1>3 DEF Processed, Behind
  <2>4. CASE batch # {}
    <3>1. r = [pc |-> pc, from |-> 0, to |-> 0, batch |-> batch, ever |-> Empty]
      BY IdleTyped
    <3>2. agg'[k] = r
      BY <2>1, <2>4, <1>1
    <3>3. agg'[k].pc = pc /\ agg'[k].batch = batch
      <4> HIDE DEF r, pc
      <4> QED BY <3>1, <3>2
    <3>4. ASSUME NEW m \in tradeLogs
          PROVE  m \in batch <=> cursor[k] < Timestamp(m) /\ Timestamp(m) <= agg[k].to
      <4>1. cursor[k] < Timestamp(m) <=> agg[k].from <= Timestamp(m)
        <5>1. Timestamp(m) \in Nat /\ Timestamp(m) > 0
          BY <1>2
        <5>2. /\ cursor[k] <= agg[k].from /\ (cursor[k] = 0 \/ cursor[k] < agg[k].from)
              /\ cursor[k] < Timestamp(m) => agg[k].from <= Timestamp(m)
          BY <2>1, <1>4 DEF RangeFits
        <5> QED BY <5>1, <5>2, <1>1
      <4> QED BY <4>1, <2>2 DEF InRange
    <3>5. batch \subseteq tradeLogs
      BY <2>2 DEF InRange
    <3>6. ASSUME NEW l \in batch, NEW m \in tradeLogs, cursor[k] < Timestamp(m), Timestamp(m) <= Timestamp(l)
          PROVE  m \in batch
      <4>1. Timestamp(m) \in Nat /\ Timestamp(l) \in Nat /\ Timestamp(l) <= agg[k].to
        BY <3>4, <3>5, <1>2
      <4>2. Timestamp(m) <= agg[k].to
        BY <4>1, <3>6, <1>1
      <4> QED BY <4>2, <3>4, <3>6
    <3>7. BatchFits(k, tradeLogs, cursor[k], agg[k])'
      BY <3>3, <3>4, <3>5, <3>6, <2>1, <2>4, <1>3 DEF BatchFits
    <3>8. RangeFits(tradeLogs, cursor[k], agg'[k])
      BY <3>3 DEF RangeFits
    <3>9. Fits(k)'
      BY <3>7, <3>8, <2>1, <1>3, <1>4 DEF Fits
    <3> QED BY <3>3, <3>9, <2>1, <1>3 DEF Processed, Behind
  <2> QED BY <2>3, <2>4
<1>7. CASE SkipTradeLogs(k)
  <2> DEFINE late == InRange(tradeLogs, agg[k].from, agg[k].to)
  <2>1. /\ agg[k].pc = "last" /\ agg' = [agg EXCEPT ![k] = NotRunning]
        /\ \/ /\ cursor' = [cursor EXCEPT ![k] = agg[k].to]
              /\ missed' = [missed EXCEPT ![k] = missed[k] \cup late]
              /\ k \in MetricKinds /\ late # {} => "tables" \in spoilt'
           \/ UNCHANGED <<cursor, missed>>
    BY <1>1, <1>7 DEF SkipTradeLogs
  <2>2. agg'[k].pc = "idle" /\ agg'[k].batch = {}
    <3>1. agg'[k] = NotRunning
      BY <2>1, <1>1
    <3> QED BY <3>1 DEF NotRunning
  <2>3. RangeFits(tradeLogs, cursor[k], agg[k])' /\ BatchFits(k, tradeLogs, cursor[k], agg[k])'
    BY <2>2 DEF RangeFits, BatchFits, Working
  <2>4. CASE UNCHANGED <<cursor, missed>>
    <3>1. Fits(k)'
      BY <2>3, <2>4, <1>4 DEF Fits
    <3> QED BY <3>1, <2>2, <2>4, <1>3 DEF Processed, Behind
  <2>5. CASE /\ cursor' = [cursor EXCEPT ![k] = agg[k].to]
             /\ missed' = [missed EXCEPT ![k] = missed[k] \cup late]
             /\ k \in MetricKinds /\ late # {} => "tables" \in spoilt'
    <3>1. cursor'[k] = agg[k].to /\ missed'[k] = missed[k] \cup late
      BY <2>5, <1>1
    <3>2. /\ agg[k].from <= agg[k].to /\ cursor[k] <= agg[k].from /\ (cursor[k] = 0 \/ cursor[k] < agg[k].from)
          /\ \A m \in tradeLogs : cursor[k] < Timestamp(m) => agg[k].from <= Timestamp(m)
      BY <2>1, <1>4 DEF RangeFits
    <3>3. ASSUME NEW m \in tradeLogs
          PROVE  /\ Timestamp(m) <= agg[k].to <=> (Timestamp(m) <= cursor[k] \/ m \in late)
                 /\ ~(Timestamp(m) <= cursor[k] /\ m \in late)
      <4>1. Timestamp(m) \in Nat /\ Timestamp(m) > 0
        BY <1>2
      <4>2. m \in late <=> agg[k].from <= Timestamp(m) /\ Timestamp(m) <= agg[k].to
        BY DEF InRange
      <4> HIDE DEF late
      <4> QED BY <4>1, <4>2, <3>2, <1>1
    <3>4. late \subseteq tradeLogs
      BY DEF InRange
    <3> HIDE DEF late
    <3>5. Processed(k)' = Processed(k)
      BY <3>1, <3>3, <1>3 DEF Processed
    <3>6. ASSUME NEW l \in missed'[k] PROVE Timestamp(l) <= cursor'[k]
      <4>1. l \in tradeLogs
        BY <3>1, <3>4, RoundNumbers
      <4> QED BY <3>1, <3>3, <4>1, <1>4
    <3>7. Fits(k)'
      BY <2>3, <3>6 DEF Fits
    <3>8. late = {} => Behind(tradeLogs, cursor[k])' = Behind(tradeLogs, cursor[k])
      BY <3>1, <3>3, <1>3 DEF Behind
    <3> QED BY <2>2, <2>5, <3>5, <3>7, <3>8
  <2> QED BY <2>1, <2>4, <2>5
<1> QED BY <1>5, <1>6, <1>7 DEF ReadTrades

\* What the country aggregation does not keep of a batch it leaves out.
LEMMA NotListed ==
  ASSUME NEW k, NEW B, NEW done, k = "country", NEW m \in B, m \notin done,
         \A l \in Named(k, B) : l \in done \/ NameOf(k, l) \in unlisted'
  PROVE  LeftOut(k, m)'
<1>1. Named(k, B) = SetCountry(B)
  BY Zenon DEF Named
<1>2. CASE m \in SetCountry(B)
  <2>1. NameOf(k, m) = m.country
    BY DEF NameOf
  <2>2. NameOf(k, m) \in unlisted'
    BY <1>1, <1>2
  <2>3. m.country \in unlisted'
    BY <2>1, <2>2
  <2> QED BY <2>3, Zenon DEF LeftOut
<1>3. CASE m \notin SetCountry(B)
  BY <1>3, Zenon DEF SetCountry, LeftOut
<1> QED BY <1>2, <1>3

\* What the steps on the tables leave alone, and what they do.
LEMMA TablesStep ==
  ASSUME AggPart, NEW k \in group \cap Kinds, FirstTrades(k)
  PROVE  /\ UNCHANGED <<tradeLogs, group, cursor, missed, stats>>
         /\ \A j \in group \cap Kinds : j # k => agg'[j] = agg[j]
         /\ agg[k].pc \in Working \ {"set"} /\ agg'[k].pc \in {"day", "load", "set"}
         /\ agg'[k].batch \subseteq agg[k].batch
         /\ agg'[k].pc # "set" \/ k # "country" => agg'[k].batch = agg[k].batch
         /\ agg'[k].pc = "day" => agg[k].pc = "ever" /\ SetFirstTradeEver(k)
         /\ agg'[k].pc = "load" => agg[k].pc = "day" /\ SetFirstTradeInDay(k)
         /\ agg'[k].pc = "set" => agg[k].pc = "load" /\ LoadFirstTrades(k) /\ agg'[k].ever = firstEver
<1>1. UNCHANGED <<tradeLogs, group, cursor, missed, stats>>
  BY DEF FirstTrades, SetFirstTradeEver, SetFirstTradeInDay, LoadFirstTrades, logVars
<1>2. PICK pc, batch, ever : TableStep(k, pc, batch, ever)
  BY TableRound
<1> DEFINE r == [pc |-> pc, from |-> agg[k].from, to |-> agg[k].to, batch |-> batch, ever |-> ever]
<1>3. agg' = [agg EXCEPT ![k] = r] /\ DOMAIN agg = group \cap Kinds
  BY <1>2 DEF TableStep, AggPart
<1>4. agg'[k] = r /\ \A j \in group \cap Kinds : j # k => agg'[j] = agg[j]
  <2> HIDE DEF r
  <2> QED BY <1>3
<1>5. agg'[k].pc = pc /\ agg'[k].batch = batch /\ agg'[k].ever = ever
  BY <1>4
<1> QED BY <1>1, <1>2, <1>4, <1>5 DEF TableStep, Working

\* The rest of the batch has no gap but for what is left out.
LEMMA TablesFit ==
  ASSUME Onward, AggPart, NEW k \in group \cap Kinds, Fits(k), FirstTrades(k)
  PROVE  Fits(k)'
<1>1. /\ UNCHANGED <<tradeLogs, group, cursor, missed, stats>>
      /\ agg[k].pc \in Working \ {"set"} /\ agg'[k].pc \in {"day", "load", "set"}
      /\ agg'[k].batch \subseteq agg[k].batch
      /\ agg'[k].pc # "set" \/ k # "country" => agg'[k].batch = agg[k].batch
      /\ agg'[k].pc = "set" => agg[k].pc = "load" /\ LoadFirstTrades(k)
  BY TablesStep
<1>2. BatchFits(k, tradeLogs, cursor[k], agg[k])
  BY DEF Fits
<1>3. ASSUME agg'[k].pc = "set", k = "country", NEW m \in agg[k].batch, m \notin agg'[k].batch
      PROVE  LeftOut(k, m)'
  <2>1. PICK done \in SUBSET Named(k, agg[k].batch) :
          /\ agg' = [agg EXCEPT ![k].pc = "set", ![k].ever = firstEver, ![k].batch = IF k = "country" THEN done ELSE @]
          /\ unlisted' = unlisted \cup {NameOf(k, l) : l \in Named(k, agg[k].batch) \ done}
    BY <1>1, <1>3 DEF LoadFirstTrades
  <2>2. k \in DOMAIN agg /\ agg[k] \in Rounds(tradeLogs)
    BY DEF AggPart
  <2> DEFINE r == [agg[k] EXCEPT !.pc = "set"]
             s == [r EXCEPT !.ever = firstEver]
  <2>3. agg'[k] = [s EXCEPT !.batch = done]
    BY <2>1, <2>2, <1>3
  <2>4. agg'[k].batch = done
    <3>1. "batch" \in DOMAIN s
      BY <2>2 DEF Rounds
    <3> HIDE DEF s
    <3> QED BY <2>3, <3>1
  <2> HIDE DEF s, r
  <2>5. m \notin done /\ k = "country"
    BY <2>4, <1>3
  <2>6. \A l \in Named(k, agg[k].batch) : l \in done \/ NameOf(k, l) \in unlisted'
    BY <2>1
  <2> QED BY <2>5, <2>6, NotListed
<1>4. ASSUME NEW l \in agg'[k].batch, NEW m \in tradeLogs, cursor[k] < Timestamp(m), Timestamp(m) <= Timestamp(l)
      PROVE  m \in agg'[k].batch \/ (agg'[k].pc = "set" /\ LeftOut(k, m)')
  <2>1. m \in agg[k].batch
    BY <1>1, <1>2, <1>4 DEF BatchFits
  <2> QED BY <2>1, <1>1, <1>3
<1>5. BatchFits(k, tradeLogs, cursor[k], agg[k])'
  <2>1. agg[k].batch # {}
    BY <1>1, <1>2 DEF BatchFits
  <2>2. agg'[k].batch # {} \/ (agg'[k].pc = "set" /\ k = "country")
    BY <2>1, <1>1
  <2>3. \A l \in agg'[k].batch : cursor[k] < Timestamp(l)
    BY <1>1, <1>2 DEF BatchFits
  <2> QED BY <2>2, <2>3, <1>1, <1>4 DEF BatchFits
<1>6. RangeFits(tradeLogs, cursor[k], agg[k])'
  BY <1>1 DEF RangeFits
<1> QED BY <1>1, <1>5, <1>6 DEF Fits

\* A successful transaction moves the cursor over the batch, or back to 0.
LEMMA CursorMoves ==
  ASSUME Onward, AggPart, NEW k \in group \cap Kinds, Fits(k), agg[k].pc = "set",
         tradeLogs' = tradeLogs, cursor' = [cursor EXCEPT ![k] = LastCounted(k)],
         missed' = [missed EXCEPT ![k] = IF LastCounted(k) = 0 THEN {}
                                         ELSE missed[k] \cup PassedOver(k, LastCounted(k))],
         LastCounted(k) = 0 /\ Processed(k) # {} => "rewound" \in spoilt'
  PROVE  /\ \A l \in missed'[k] : Timestamp(l) <= cursor'[k]
         /\ Processed(k) \cap agg[k].batch = {}
         /\ k \in ExactKinds' => Processed(k)' = Processed(k) \cup agg[k].batch
         /\ Processed(k)' \subseteq Processed(k) \cup agg[k].batch
         /\ \A l \in Behind(tradeLogs, cursor'[k]) : \E m \in agg[k].batch : Timestamp(l) <= Timestamp(m)
<1> DEFINE B    == agg[k].batch
           last == LastCounted(k)
<1>1. /\ B \subseteq tradeLogs /\ last \in Nat /\ (B = {} => last = 0)
      /\ B # {} => (\E l \in B : Timestamp(l) = last) /\ last # 0
      /\ \A l \in B : Timestamp(l) <= last
  BY BatchTimes DEF Onward
<1>2. /\ cursor[k] \in Nat /\ cursor'[k] = last /\ missed[k] \subseteq tradeLogs
      /\ missed'[k] = IF last = 0 THEN {} ELSE missed[k] \cup PassedOver(k, last)
  BY RoundNumbers
<1>3. BatchFits(k, tradeLogs, cursor[k], agg[k]) /\ \A l \in missed[k] : Timestamp(l) <= cursor[k]
  BY DEF Fits
<1>4. /\ \A l \in B : cursor[k] < Timestamp(l)
      /\ \A l \in B, m \in tradeLogs :
           cursor[k] < Timestamp(m) /\ Timestamp(m) <= Timestamp(l) => m \in B \/ LeftOut(k, m)
      /\ B # {} \/ k = "country"
  BY <1>3 DEF BatchFits, Working
<1>5. \A m \in tradeLogs : Timestamp(m) \in Nat /\ Timestamp(m) > 0
  BY DEF Onward, Bucket
<1>6. \A m : m \in PassedOver(k, last) <=>
        m \in tradeLogs /\ cursor[k] + 1 <= Timestamp(m) /\ Timestamp(m) <= last /\ LeftOut(k, m) /\ m \notin B
  BY Zenon DEF PassedOver, InRange
<1> HIDE DEF B, last
<1>7. Processed(k) \cap B = {}
  <2>1. ASSUME NEW l \in B PROVE ~(Timestamp(l) <= cursor[k])
    BY <1>1, <1>2, <1>4, <1>5
  <2> QED BY <2>1 DEF Processed
<1>8. CASE B = {}
  <2>1. last = 0 /\ missed'[k] = {} /\ cursor'[k] = 0
    BY <1>1, <1>2, <1>8
  <2>2. \A m \in tradeLogs : ~(Timestamp(m) <= 0)
    BY <1>5
  <2>3. Behind(tradeLogs, cursor'[k]) = {} /\ Processed(k)' = {}
    BY <2>1, <2>2 DEF Behind, Processed
  <2>4. k \in ExactKinds' => Processed(k) = {}
    BY <2>1, <1>4, <1>8 DEF ExactKinds, last
  <2> QED BY <2>1, <2>3, <2>4, <1>7, <1>8 DEF B
<1>9. CASE B # {}
  <2>1. PICK l \in B : Timestamp(l) = last
    BY <1>1, <1>9
  <2>2. last # 0 /\ l \in tradeLogs /\ cursor[k] < last
    BY <2>1, <1>1, <1>4, <1>9
  <2>3. missed'[k] = missed[k] \cup PassedOver(k, last)
    BY <2>2, <1>2
  <2>4. ASSUME NEW m \in tradeLogs
        PROVE  (Timestamp(m) <= last /\ m \notin missed'[k]) <=>
                 ((Timestamp(m) <= cursor[k] /\ m \notin missed[k]) \/ m \in B)
    <3>1. Timestamp(m) \in Nat
      BY <1>5
    <3>2. CASE Timestamp(m) <= cursor[k]
      <4>1. Timestamp(m) <= last /\ m \notin PassedOver(k, last) /\ m \notin B
        BY <3>1, <3>2, <2>2, <1>1, <1>2, <1>4, <1>6
      <4> QED BY <4>1, <3>2, <2>3
    <3>3. CASE ~(Timestamp(m) <= cursor[k])
      <4>1. cursor[k] < Timestamp(m) /\ cursor[k] + 1 <= Timestamp(m) /\ m \notin missed[k]
        BY <3>1, <3>3, <1>2, <1>3
      <4>2. CASE m \in B
        <5>1. m \notin PassedOver(k, last) /\ Timestamp(m) <= last
          BY <4>2, <1>1, <1>6
        <5> QED BY <5>1, <4>1, <4>2, <2>3
      <4>3. CASE m \notin B
        <5>1. Timestamp(m) <= last => LeftOut(k, m)
          BY <4>1, <4>3, <2>1, <1>4
        <5>2. Timestamp(m) <= last => m \in PassedOver(k, last)
          BY <5>1, <4>1, <4>3, <1>6
        <5> QED BY <5>2, <4>3, <3>3, <2>3
      <4> QED BY <4>2, <4>3
    <3> QED BY <3>2, <3>3
  <2>5. Processed(k)' = Processed(k) \cup B
    <3>1. Processed(k)' = {m \in tradeLogs : Timestamp(m) <= last /\ m \notin missed'[k]}
      BY <1>2 DEF Processed
    <3>2. Processed(k) = {m \in tradeLogs : Timestamp(m) <= cursor[k] /\ m \notin missed[k]}
      BY DEF Processed
    <3> QED BY <3>1, <3>2, <2>4, <1>1
  <2>6. ASSUME NEW m \in missed'[k] PROVE Timestamp(m) <= cursor'[k]
    <3>1. CASE m \in missed[k]
      <4>1. Timestamp(m) <= cursor[k] /\ Timestamp(m) \in Nat
        BY <3>1, <1>2, <1>3, <1>5
      <4> QED BY <4>1, <2>2, <1>1, <1>2
    <3>2. CASE m \in PassedOver(k, last)
      BY <3>2, <1>2, <1>6
    <3> QED BY <3>1, <3>2, <2>3
  <2>7. \A m \in Behind(tradeLogs, cursor'[k]) : \E n \in B : Timestamp(m) <= Timestamp(n)
    BY <2>1, <1>2 DEF Behind
  <2> QED BY <2>5, <2>6, <2>7, <1>7 DEF B
<1> QED BY <1>8, <1>9

\* A cell of an aggregation that processed nothing keeps its meaning.
LEMMA CellStays ==
  ASSUME Bucket(tradeLogs), Bucket(tradeLogs)', Appends(tradeLogs, tradeLogs'),
         NEW c, Processed(c[1])' = Processed(c[1])
  PROVE  InCell(c)' = InCell(c) /\ CellOf(c)' = CellOf(c)
<1>1. InCell(c)' = InCell(c)
  BY DEF InCell, Here
<1>2. InCell(c) \subseteq tradeLogs
  BY DEF InCell, Here, Processed
<1>3. \A l \in InCell(c) : (NewHere(l)' <=> NewHere(l)) /\ \A z : FirstHere(l, z)' <=> FirstHere(l, z)
  BY <1>2, FirstsStay
<1> DEFINE U == {l \in InCell(c) : c[1] \in MetricKinds /\ FirstHere(l, c[3][2])}
           N == {l \in InCell(c) : c[1] \in MetricKinds /\ NewHere(l)}
<1>4. U' = U
  BY <1>1, <1>3
<1>5. N' = N
  BY <1>1, <1>3
<1>6. CellOf(c) = [trades |-> Cardinality(InCell(c)), users |-> Cardinality(U), newUsers |-> Cardinality(N)]
  BY DEF CellOf, CountOf
<1>7. CellOf(c)' = [trades |-> Cardinality(InCell(c)'), users |-> Cardinality(U'), newUsers |-> Cardinality(N')]
  BY DEF CellOf, CountOf
<1> QED BY <1>1, <1>4, <1>5, <1>6, <1>7

\* Fewer and fewer aggregations are exact.
LEMMA FewerExact ==
  ASSUME Onward
  PROVE  ExactKinds' \subseteq ExactKinds /\ ExactKinds \subseteq group \cap Kinds
BY DEF Onward, ExactKinds

\* And so do all of them.
LEMMA CellPartStays ==
  ASSUME Onward, CellPart, stats' = stats, \A k \in group \cap Kinds : Processed(k)' = Processed(k)
  PROVE  CellPart'
<1>1. ExactKinds' \subseteq ExactKinds /\ ExactKinds \subseteq group \cap Kinds
  BY FewerExact
<1>2. Bucket(tradeLogs) /\ Bucket(tradeLogs)' /\ Appends(tradeLogs, tradeLogs') /\ \A k : Doubt(k) \subseteq Doubt(k)'
  BY DEF Onward, Doubt
<1>3. ASSUME NEW c \in DOMAIN stats, c[1] \in ExactKinds'
      PROVE  InCell(c)' # {} /\ SameCell(Doubt(c[1])', stats[c], CellOf(c)')
  <2>1. InCell(c) # {} /\ SameCell(Doubt(c[1]), stats[c], CellOf(c))
    BY <1>1, <1>3 DEF CellPart
  <2>2. InCell(c)' = InCell(c) /\ CellOf(c)' = CellOf(c)
    BY <1>1, <1>2, <1>3, CellStays
  <2> QED BY <2>1, <2>2, <1>2 DEF SameCell
<1>4. ASSUME NEW k \in ExactKinds', NEW l \in Processed(k)' PROVE CellsOf(k, l) \subseteq DOMAIN stats
  BY <1>1, <1>4 DEF CellPart
<1> QED BY <1>3, <1>4 DEF CellPart

\* The trades the tables know are still known.
LEMMA FirstsPartStays ==
  ASSUME Onward, FirstsPart, UNCHANGED <<firstEver, firstDay>>
  PROVE  FirstsPart'
<1>0. Bucket(tradeLogs) /\ Bucket(tradeLogs)' /\ Appends(tradeLogs, tradeLogs')
  BY DEF Onward
<1>1. ASSUME NEW u \in DOMAIN firstEver
      PROVE  \E l \in tradeLogs' : l.data.user = u /\ Timestamp(l) = firstEver[u] /\ NewHere(l)'
  <2>1. PICK l \in tradeLogs : l.data.user = u /\ Timestamp(l) = firstEver[u] /\ NewHere(l)
    BY DEF FirstsPart
  <2> QED BY <2>1, <1>0, FirstsStay
<1>2. ASSUME NEW d \in DOMAIN firstDay
      PROVE  \E l \in tradeLogs', z \in Zones : DayOf(l, z) = d /\ Timestamp(l) = firstDay[d] /\ FirstHere(l, z)'
  <2>1. PICK l \in tradeLogs, z \in Zones : DayOf(l, z) = d /\ Timestamp(l) = firstDay[d] /\ FirstHere(l, z)
    BY DEF FirstsPart
  <2>2. l \in tradeLogs' /\ FirstHere(l, z)'
    BY <2>1, <1>0, FirstsStay
  <2> QED BY <2>1, <2>2
<1> QED BY <1>1, <1>2 DEF FirstsPart

\* The tables only grow.
TablesGrow ==
  /\ \A u \in DOMAIN firstEver : u \in DOMAIN firstEver' /\ firstEver'[u] = firstEver[u]
  /\ \A d \in DOMAIN firstDay : d \in DOMAIN firstDay'

\* An aggregation that counts users goes on, or has not started.
LEMMA TableFitsStay ==
  ASSUME Onward, TablesGrow, AggPart, NEW k \in group \cap Kinds, TableFits(k),
         Behind(tradeLogs, cursor[k])' = Behind(tradeLogs, cursor[k]),
         agg'[k] = agg[k] \/ agg'[k].pc \notin {"day", "load", "set"}
  PROVE  TableFits(k)'
<1>1. \A l : (KnownEver(l) => KnownEver(l)') /\ (KnownDay(l) => KnownDay(l)')
  BY DEF TablesGrow, KnownEver, KnownDay
<1>2. \A l \in Behind(tradeLogs, cursor[k])' : KnownEver(l)' /\ KnownDay(l)'
  BY <1>1 DEF TableFits
<1>3. CASE agg'[k].pc \notin {"day", "load", "set"}
  BY <1>2, <1>3 DEF TableFits
<1>4. CASE agg'[k] = agg[k]
  <2>1. agg[k].batch \subseteq tradeLogs
    BY RoundNumbers
  <2>2. /\ Bucket(tradeLogs)' /\ tradeLogs \subseteq tradeLogs'
        /\ \A m \in tradeLogs' : m \in tradeLogs \/ \A l \in tradeLogs : Timestamp(l) < Timestamp(m)
    BY AppendsFacts DEF Onward
  <2>3. ASSUME agg[k].pc = "set", NEW l \in agg[k].batch
        PROVE  /\ l.data.user \in DOMAIN agg[k].ever /\ agg[k].ever[l.data.user] = firstEver'[l.data.user]
               /\ \A m \in tradeLogs' : Timestamp(m) <= Timestamp(l) => KnownEver(m)' /\ KnownDay(m)'
    <3>1. /\ l.data.user \in DOMAIN agg[k].ever /\ agg[k].ever[l.data.user] = firstEver[l.data.user]
          /\ \A m \in tradeLogs : Timestamp(m) <= Timestamp(l) => KnownEver(m) /\ KnownDay(m)
      BY <2>3 DEF TableFits, Behind
    <3>2. l \in tradeLogs /\ Timestamp(l) \in Nat
      BY <2>1, <2>2 DEF Bucket
    <3>3. KnownEver(l)
      BY <3>1, <3>2
    <3>4. ASSUME NEW m \in tradeLogs', Timestamp(m) <= Timestamp(l) PROVE m \in tradeLogs
      <4>1. Timestamp(m) \in Nat
        BY <2>2 DEF Bucket
      <4> QED BY <4>1, <3>2, <3>4, <2>2
    <3> QED BY <3>1, <3>3, <3>4, <1>1 DEF KnownEver, TablesGrow
  <2>4. agg[k].pc \in {"day", "load"} => \A l \in agg[k].batch : KnownEver(l)'
    BY <1>1 DEF TableFits
  <2>5. agg[k].pc = "load" => \A l \in agg[k].batch : KnownDay(l)'
    BY <1>1 DEF TableFits
  <2>6. agg[k].pc = "set" => \A l \in agg[k].batch :
          /\ l.data.user \in DOMAIN agg[k].ever /\ agg[k].ever[l.data.user] = firstEver'[l.data.user]
          /\ \A m \in Behind(tradeLogs', Timestamp(l)) : KnownEver(m)' /\ KnownDay(m)'
    BY <2>3 DEF Behind
  <2> QED BY <1>2, <1>4, <2>4, <2>5, <2>6 DEF TableFits
<1> QED BY <1>3, <1>4

\* The table keeps its entries, except those found, and takes the earliest of those.
TakesFirsts(table, found, new) ==
  /\ DOMAIN new = DOMAIN table \cup {p[1] : p \in found}
  /\ \A w \in DOMAIN table : (\A p \in found : p[1] # w) => new[w] = table[w]
  /\ \A q \in found : \E p \in found :
       p[1] = q[1] /\ new[q[1]] = p[2] /\ \A r \in found : r[1] = q[1] => p[2] <= r[2]

LEMMA WithFirstIs ==
  ASSUME NEW table, NEW found, \A p \in found : p[2] \in Nat, NEW new, new = WithFirst(table, found)
  PROVE  TakesFirsts(table, found, new)
<1> DEFINE times(w) == {p[2] : p \in {q \in found : q[1] = w}}
           First(w) == CHOOSE t \in times(w) : \A u \in times(w) : t <= u
           D   == DOMAIN table \cup {p[1] : p \in found}
<1>1. new = [w \in D |-> IF times(w) = {} THEN table[w] ELSE First(w)]
  BY DEF WithFirst
<1>2. DOMAIN new = D /\ \A w \in D : new[w] = IF times(w) = {} THEN table[w] ELSE First(w)
  <2> HIDE DEF First, times
  <2> QED BY <1>1
<1>3. ASSUME NEW w \in DOMAIN table, \A p \in found : p[1] # w PROVE new[w] = table[w]
  <2>1. times(w) = {} /\ w \in D
    BY <1>3
  <2> HIDE DEF First, times, D
  <2> QED BY <2>1, <1>2
<1>4. ASSUME NEW q \in found
      PROVE  \E p \in found : p[1] = q[1] /\ new[q[1]] = p[2] /\ \A r \in found : r[1] = q[1] => p[2] <= r[2]
  <2> DEFINE w == q[1]
             T == times(w)
  <2>1. T \subseteq Nat /\ q[2] \in T /\ w \in D
    OBVIOUS
  <2>2. \E t \in T : \A u \in T : t <= u
    <3> HIDE DEF T
    <3> QED BY <2>1, LeastOf
  <2>3. First(w) \in T /\ \A u \in T : First(w) <= u
    <3>1. First(w) = CHOOSE t \in T : \A u \in T : t <= u
      OBVIOUS
    <3> HIDE DEF T, First
    <3> QED BY <2>2, <3>1, Zenon
  <2>4. new[w] = First(w)
    <3> HIDE DEF First, D
    <3>1. T # {}
      BY <2>1
    <3> QED BY <3>1, <2>1, <1>2
  <2>5. \A r \in found : r[1] = w => r[2] \in T
    OBVIOUS
  <2>6. PICK p \in found : p[1] = w /\ p[2] = First(w)
    <3> HIDE DEF First
    <3> QED BY <2>3
  <2> HIDE DEF First, T
  <2> QED BY <2>3, <2>4, <2>5, <2>6
<1> QED BY <1>2, <1>3, <1>4 DEF TakesFirsts

\* A trade of a batch is the first of its kind when no trade behind the cursor is of
\* that kind and none of the batch is earlier.
LEMMA FirstOfBatch ==
  ASSUME Bucket(tradeLogs), AggPart, NEW k \in group \cap Kinds, Fits(k), agg[k].pc # "set",
         NEW l \in agg[k].batch, NEW m \in tradeLogs, m \notin Behind(tradeLogs, cursor[k]),
         m \in agg[k].batch => Timestamp(l) <= Timestamp(m)
  PROVE  Timestamp(l) <= Timestamp(m)
<1>1. agg[k].batch \subseteq tradeLogs /\ BatchFits(k, tradeLogs, cursor[k], agg[k]) /\ cursor[k] \in Nat
  BY RoundNumbers DEF Fits
<1>2. Timestamp(l) \in Nat /\ Timestamp(m) \in Nat
  BY <1>1 DEF Bucket
<1>3. cursor[k] < Timestamp(m)
  BY <1>1, <1>2 DEF Behind
<1>4. Timestamp(m) <= Timestamp(l) => m \in agg[k].batch
  BY <1>1, <1>3 DEF BatchFits
<1> QED BY <1>2, <1>4

\* SetFirstTradeEver adds the users of the batch it does not know.
LEMMA EverGrows ==
  ASSUME Bucket(tradeLogs), AggPart, FirstsPart, NEW k \in group \cap Kinds, Fits(k), TableFits(k),
         SetFirstTradeEver(k), "tables" \notin spoilt'
  PROVE  /\ DOMAIN firstEver \subseteq DOMAIN firstEver'
         /\ \A u \in DOMAIN firstEver : firstEver'[u] = firstEver[u]
         /\ \A l \in agg[k].batch : l.data.user \in DOMAIN firstEver'
         /\ \A u \in DOMAIN firstEver' :
              \E l \in tradeLogs : l.data.user = u /\ Timestamp(l) = firstEver'[u] /\ NewHere(l)
<1> DEFINE B == agg[k].batch
           found == {<<l.data.user, Timestamp(l)>> : l \in {m \in B : ~DidTrade(m.data.user, Timestamp(m))}}
<1>1. firstEver' = WithFirst(firstEver, found)
  BY DEF SetFirstTradeEver, TableFails
<1>2. B \subseteq tradeLogs /\ \A l \in B : Timestamp(l) \in Nat
  BY RoundNumbers DEF Bucket
<1> HIDE DEF B
<1>3. ASSUME NEW l \in B
      PROVE  DidTrade(l.data.user, Timestamp(l)) <=> l.data.user \in DOMAIN firstEver
  <2>1. ASSUME l.data.user \in DOMAIN firstEver PROVE firstEver[l.data.user] <= Timestamp(l)
    <3>1. PICK m \in tradeLogs : m.data.user = l.data.user /\ Timestamp(m) = firstEver[l.data.user] /\ NewHere(m)
      BY <2>1 DEF FirstsPart
    <3>2. l \in tradeLogs
      BY <1>2
    <3>3. Timestamp(m) <= Timestamp(l)
      BY <3>1, <3>2 DEF NewHere
    <3> QED BY <3>1, <3>3
  <2> QED BY <2>1 DEF DidTrade
<1>4. \A p \in found : /\ p[2] \in Nat /\ p[1] \notin DOMAIN firstEver
                       /\ \E l \in B : p = <<l.data.user, Timestamp(l)>>
  BY <1>2, <1>3
<1>5. \A l \in B : l.data.user \notin DOMAIN firstEver => <<l.data.user, Timestamp(l)>> \in found
  BY <1>3
<1> HIDE DEF found
<1>6. /\ DOMAIN firstEver' = DOMAIN firstEver \cup {p[1] : p \in found}
      /\ \A w \in DOMAIN firstEver : (\A p \in found : p[1] # w) => firstEver'[w] = firstEver[w]
      /\ \A q \in found : \E p \in found :
           p[1] = q[1] /\ firstEver'[q[1]] = p[2] /\ \A r \in found : r[1] = q[1] => p[2] <= r[2]
  <2>1. \A p \in found : p[2] \in Nat
    BY <1>4
  <2>2. TakesFirsts(firstEver, found, firstEver')
    BY <2>1, <1>1, WithFirstIs, Zenon
  <2> QED BY <2>2 DEF TakesFirsts
<1>7. \A u \in DOMAIN firstEver : u \in DOMAIN firstEver' /\ firstEver'[u] = firstEver[u]
  BY <1>4, <1>6
<1>8. ASSUME NEW l \in B PROVE l.data.user \in DOMAIN firstEver'
  <2>1. CASE l.data.user \in DOMAIN firstEver
    BY <2>1, <1>7
  <2>2. CASE l.data.user \notin DOMAIN firstEver
    <3> DEFINE p == <<l.data.user, Timestamp(l)>>
    <3>1. p \in found /\ p[1] = l.data.user
      BY <2>2, <1>5
    <3> QED BY <3>1, <1>6
  <2> QED BY <2>1, <2>2
<1>9. ASSUME NEW u \in DOMAIN firstEver'
      PROVE  \E l \in tradeLogs : l.data.user = u /\ Timestamp(l) = firstEver'[u] /\ NewHere(l)
  <2>1. CASE u \in DOMAIN firstEver
    BY <2>1, <1>7 DEF FirstsPart
  <2>2. CASE u \notin DOMAIN firstEver
    <3>1. PICK q \in found : q[1] = u
      BY <2>2, <1>6
    <3>2. PICK p \in found : p[1] = u /\ firstEver'[u] = p[2] /\ \A r \in found : r[1] = u => p[2] <= r[2]
      BY <3>1, <1>6
    <3>3. PICK l \in B : p = <<l.data.user, Timestamp(l)>>
      BY <1>4
    <3>4. l.data.user = u /\ Timestamp(l) = firstEver'[u] /\ l \in tradeLogs
      BY <3>2, <3>3, <1>2
    <3>5. ASSUME NEW m \in tradeLogs, m.data.user = u PROVE Timestamp(l) <= Timestamp(m)
      <4>1. m \notin Behind(tradeLogs, cursor[k]) /\ agg[k].pc # "set"
        BY <3>5, <2>2 DEF TableFits, KnownEver, SetFirstTradeEver
      <4>2. ASSUME m \in B PROVE Timestamp(l) <= Timestamp(m)
        <5> DEFINE r == <<m.data.user, Timestamp(m)>>
        <5>1. r \in found /\ r[1] = u /\ r[2] = Timestamp(m)
          BY <4>2, <3>5, <2>2, <1>5
        <5> QED BY <5>1, <3>2, <3>4
      <4> QED BY <4>1, <4>2, FirstOfBatch DEF B
    <3>6. NewHere(l)
      BY <3>4, <3>5 DEF NewHere
    <3> QED BY <3>4, <3>6
  <2> QED BY <2>1, <2>2
<1> QED BY <1>7, <1>8, <1>9 DEF B

\* SetFirstTradeInDay adds the days of the batch it does not know.
LEMMA DaysGrow ==
  ASSUME Bucket(tradeLogs), AggPart, FirstsPart, NEW k \in group \cap Kinds, Fits(k), TableFits(k),
         SetFirstTradeInDay(k), "tables" \notin spoilt'
  PROVE  /\ DOMAIN firstDay \subseteq DOMAIN firstDay'
         /\ \A l \in agg[k].batch, z \in Zones : DayOf(l, z) \in DOMAIN firstDay'
         /\ \A d \in DOMAIN firstDay' :
              \E l \in tradeLogs, z \in Zones : DayOf(l, z) = d /\ Timestamp(l) = firstDay'[d] /\ FirstHere(l, z)
<1> DEFINE B == agg[k].batch
           found == {<<DayOf(p[1], p[2]), Timestamp(p[1])>> :
                       p \in {q \in B \X Zones : ~DidTradeInDay(DayOf(q[1], q[2]), Timestamp(q[1]))}}
<1>1. firstDay' = WithFirst(firstDay, found)
  BY DEF SetFirstTradeInDay, TableFails
<1>2. B \subseteq tradeLogs /\ \A l \in B : Timestamp(l) \in Nat
  BY RoundNumbers DEF Bucket
<1> HIDE DEF B
<1>3. ASSUME NEW l \in B, NEW z \in Zones
      PROVE  DidTradeInDay(DayOf(l, z), Timestamp(l)) <=> DayOf(l, z) \in DOMAIN firstDay
  <2>1. ASSUME DayOf(l, z) \in DOMAIN firstDay PROVE firstDay[DayOf(l, z)] <= Timestamp(l)
    <3>1. PICK m \in tradeLogs, y \in Zones :
            DayOf(m, y) = DayOf(l, z) /\ Timestamp(m) = firstDay[DayOf(l, z)] /\ FirstHere(m, y)
      BY <2>1 DEF FirstsPart
    <3>2. y = z
      BY <3>1 DEF DayOf
    <3>3. l \in tradeLogs
      BY <1>2
    <3>4. Timestamp(m) <= Timestamp(l)
      BY <3>1, <3>2, <3>3 DEF FirstHere
    <3> QED BY <3>1, <3>4
  <2> QED BY <2>1 DEF DidTradeInDay
<1>4. ASSUME NEW p \in found
      PROVE  \E l \in B, z \in Zones : p = <<DayOf(l, z), Timestamp(l)>> /\ DayOf(l, z) \notin DOMAIN firstDay
  <2>1. PICK q \in B \X Zones : /\ ~DidTradeInDay(DayOf(q[1], q[2]), Timestamp(q[1]))
                                /\ p = <<DayOf(q[1], q[2]), Timestamp(q[1])>>
    OBVIOUS
  <2>2. q[1] \in B /\ q[2] \in Zones
    BY <2>1
  <2> QED BY <2>1, <2>2, <1>3
<1>5. ASSUME NEW l \in B, NEW z \in Zones, DayOf(l, z) \notin DOMAIN firstDay
      PROVE  <<DayOf(l, z), Timestamp(l)>> \in found
  <2> DEFINE q == <<l, z>>
  <2>1. q \in B \X Zones /\ q[1] = l /\ q[2] = z
    OBVIOUS
  <2>2. ~DidTradeInDay(DayOf(q[1], q[2]), Timestamp(q[1]))
    BY <1>3, <1>5, <2>1
  <2> HIDE DEF q
  <2> QED BY <2>1, <2>2
<1> HIDE DEF found
<1>6. \A p \in found : p[2] \in Nat /\ p[1] \notin DOMAIN firstDay
  BY <1>2, <1>4
<1>7. /\ DOMAIN firstDay' = DOMAIN firstDay \cup {p[1] : p \in found}
      /\ \A w \in DOMAIN firstDay : (\A p \in found : p[1] # w) => firstDay'[w] = firstDay[w]
      /\ \A q \in found : \E p \in found :
           p[1] = q[1] /\ firstDay'[q[1]] = p[2] /\ \A r \in found : r[1] = q[1] => p[2] <= r[2]
  <2>1. \A p \in found : p[2] \in Nat
    BY <1>6
  <2>2. TakesFirsts(firstDay, found, firstDay')
    BY <2>1, <1>1, WithFirstIs, Zenon
  <2> QED BY <2>2 DEF TakesFirsts
<1>8. \A d \in DOMAIN firstDay : d \in DOMAIN firstDay' /\ firstDay'[d] = firstDay[d]
  BY <1>6, <1>7
<1>9. ASSUME NEW l \in B, NEW z \in Zones PROVE DayOf(l, z) \in DOMAIN firstDay'
  <2>1. CASE DayOf(l, z) \in DOMAIN firstDay
    BY <2>1, <1>8
  <2>2. CASE DayOf(l, z) \notin DOMAIN firstDay
    <3> DEFINE p == <<DayOf(l, z), Timestamp(l)>>
    <3>1. p \in found /\ p[1] = DayOf(l, z)
      BY <2>2, <1>5
    <3> QED BY <3>1, <1>7
  <2> QED BY <2>1, <2>2
<1>10. ASSUME NEW d \in DOMAIN firstDay'
       PROVE  \E l \in tradeLogs, z \in Zones : DayOf(l, z) = d /\ Timestamp(l) = firstDay'[d] /\ FirstHere(l, z)
  <2>1. CASE d \in DOMAIN firstDay
    BY <2>1, <1>8 DEF FirstsPart
  <2>2. CASE d \notin DOMAIN firstDay
    <3>1. PICK q \in found : q[1] = d
      BY <2>2, <1>7
    <3>2. PICK p \in found : p[1] = d /\ firstDay'[d] = p[2] /\ \A r \in found : r[1] = d => p[2] <= r[2]
      BY <3>1, <1>7
    <3>3. PICK l \in B, z \in Zones : p = <<DayOf(l, z), Timestamp(l)>>
      BY <1>4
    <3>4. DayOf(l, z) = d /\ Timestamp(l) = firstDay'[d] /\ l \in tradeLogs
      BY <3>2, <3>3, <1>2
    <3>5. ASSUME NEW m \in tradeLogs, DayOf(m, z) = d PROVE Timestamp(l) <= Timestamp(m)
      <4>1. m \notin Behind(tradeLogs, cursor[k]) /\ agg[k].pc # "set"
        BY <3>5, <2>2 DEF TableFits, KnownDay, SetFirstTradeInDay
      <4>2. ASSUME m \in B PROVE Timestamp(l) <= Timestamp(m)
        <5> DEFINE r == <<DayOf(m, z), Timestamp(m)>>
        <5>1. r \in found /\ r[1] = d /\ r[2] = Timestamp(m)
          BY <4>2, <3>5, <2>2, <1>5
        <5> QED BY <5>1, <3>2, <3>4
      <4> QED BY <4>1, <4>2, FirstOfBatch DEF B
    <3>6. FirstHere(l, z)
      BY <3>4, <3>5 DEF FirstHere
    <3> QED BY <3>4, <3>6
  <2> QED BY <2>1, <2>2
<1> QED BY <1>8, <1>9, <1>10 DEF B

\* The steps on the tables: what is known stays known, and the trades of the batch
\* become known.
LEMMA TablesKnown ==
  ASSUME Bucket(tradeLogs), AggPart, FirstsPart, NEW k \in group \cap Kinds, Fits(k), TableFits(k),
         FirstTrades(k), "tables" \notin spoilt'
  PROVE  /\ TablesGrow
         /\ \A u \in DOMAIN firstEver' :
              \E l \in tradeLogs : l.data.user = u /\ Timestamp(l) = firstEver'[u] /\ NewHere(l)
         /\ \A d \in DOMAIN firstDay' :
              \E l \in tradeLogs, z \in Zones : DayOf(l, z) = d /\ Timestamp(l) = firstDay'[d] /\ FirstHere(l, z)
         /\ \A l \in agg[k].batch : KnownEver(l)'
         /\ agg'[k].pc \in {"load", "set"} => \A l \in agg[k].batch : KnownDay(l)'
         /\ agg'[k].pc = "set" => agg'[k].ever = firstEver'
<1>1. /\ agg[k].pc \in Working \ {"set"} /\ agg'[k].pc \in {"day", "load", "set"}
      /\ agg'[k].pc = "day" => agg[k].pc = "ever" /\ SetFirstTradeEver(k)
      /\ agg'[k].pc = "load" => agg[k].pc = "day" /\ SetFirstTradeInDay(k)
      /\ agg'[k].pc = "set" => agg[k].pc = "load" /\ LoadFirstTrades(k) /\ agg'[k].ever = firstEver
  BY TablesStep
<1>2. /\ agg[k].pc \in {"day", "load"} => \A l \in agg[k].batch : KnownEver(l)
      /\ agg[k].pc = "load" => \A l \in agg[k].batch : KnownDay(l)
  BY DEF TableFits
<1>3. CASE agg'[k].pc = "day"
  <2>1. SetFirstTradeEver(k) /\ firstDay' = firstDay
    BY <1>1, <1>3 DEF SetFirstTradeEver
  <2>2. /\ DOMAIN firstEver \subseteq DOMAIN firstEver'
        /\ \A u \in DOMAIN firstEver : firstEver'[u] = firstEver[u]
        /\ \A l \in agg[k].batch : l.data.user \in DOMAIN firstEver'
        /\ \A u \in DOMAIN firstEver' :
             \E l \in tradeLogs : l.data.user = u /\ Timestamp(l) = firstEver'[u] /\ NewHere(l)
    BY <2>1, EverGrows
  <2>3. \A d \in DOMAIN firstDay' :
          \E l \in tradeLogs, z \in Zones : DayOf(l, z) = d /\ Timestamp(l) = firstDay'[d] /\ FirstHere(l, z)
    BY <2>1 DEF FirstsPart
  <2> QED BY <2>1, <2>2, <2>3, <1>3 DEF TablesGrow, KnownEver
<1>4. CASE agg'[k].pc = "load"
  <2>1. SetFirstTradeInDay(k) /\ firstEver' = firstEver /\ agg[k].pc = "day"
    BY <1>1, <1>4 DEF SetFirstTradeInDay
  <2>2. /\ DOMAIN firstDay \subseteq DOMAIN firstDay'
        /\ \A l \in agg[k].batch, z \in Zones : DayOf(l, z) \in DOMAIN firstDay'
        /\ \A d \in DOMAIN firstDay' :
             \E l \in tradeLogs, z \in Zones : DayOf(l, z) = d /\ Timestamp(l) = firstDay'[d] /\ FirstHere(l, z)
    BY <2>1, DaysGrow
  <2>3. \A u \in DOMAIN firstEver' :
          \E l \in tradeLogs : l.data.user = u /\ Timestamp(l) = firstEver'[u] /\ NewHere(l)
    BY <2>1 DEF FirstsPart
  <2>4. \A l \in agg[k].batch : KnownEver(l)'
    BY <2>1, <1>2 DEF KnownEver
  <2> QED BY <2>1, <2>2, <2>3, <2>4, <1>4 DEF TablesGrow, KnownDay
<1>5. CASE agg'[k].pc = "set"
  <2>1. UNCHANGED <<firstEver, firstDay>> /\ agg[k].pc = "load" /\ agg'[k].ever = firstEver
    BY <1>1, <1>5 DEF LoadFirstTrades
  <2>2. \A l \in agg[k].batch : KnownEver(l)' /\ KnownDay(l)'
    BY <2>1, <1>2 DEF KnownEver, KnownDay
  <2>3. \A u \in DOMAIN firstEver' :
          \E l \in tradeLogs : l.data.user = u /\ Timestamp(l) = firstEver'[u] /\ NewHere(l)
    BY <2>1 DEF FirstsPart
  <2>4. \A d \in DOMAIN firstDay' :
          \E l \in tradeLogs, z \in Zones : DayOf(l, z) = d /\ Timestamp(l) = firstDay'[d] /\ FirstHere(l, z)
    BY <2>1 DEF FirstsPart
  <2> QED BY <2>1, <2>2, <2>3, <2>4, <1>5 DEF TablesGrow
<1> QED BY <1>1, <1>3, <1>4, <1>5

\* The trades up to one of the batch are known once the batch is.
LEMMA TableFitsMove ==
  ASSUME Onward, AggPart, FirstsPart, NEW k \in group \cap Kinds, Fits(k), TableFits(k),
         FirstTrades(k), "tables" \notin spoilt'
  PROVE  TableFits(k)'
<1>1. /\ UNCHANGED <<tradeLogs, cursor>>
      /\ agg[k].pc \in Working \ {"set"} /\ agg'[k].pc \in {"day", "load", "set"}
      /\ agg'[k].batch \subseteq agg[k].batch
  BY TablesStep
<1>2. /\ TablesGrow
      /\ \A l \in agg[k].batch : KnownEver(l)'
      /\ agg'[k].pc \in {"load", "set"} => \A l \in agg[k].batch : KnownDay(l)'
      /\ agg'[k].pc = "set" => agg'[k].ever = firstEver'
  <2>1. Bucket(tradeLogs)
    BY DEF Onward
  <2> QED BY <2>1, TablesKnown
<1>3. \A l : (KnownEver(l) => KnownEver(l)') /\ (KnownDay(l) => KnownDay(l)')
  BY <1>2 DEF TablesGrow, KnownEver, KnownDay
<1>4. \A l \in tradeLogs : Timestamp(l) <= cursor[k] => KnownEver(l)' /\ KnownDay(l)'
  BY <1>3 DEF TableFits, Behind
<1>5. ASSUME agg'[k].pc = "set", NEW l \in agg'[k].batch
      PROVE  /\ l.data.user \in DOMAIN agg'[k].ever /\ agg'[k].ever[l.data.user] = firstEver'[l.data.user]
             /\ \A m \in tradeLogs : Timestamp(m) <= Timestamp(l) => KnownEver(m)' /\ KnownDay(m)'
  <2>1. l \in agg[k].batch /\ KnownEver(l)'
    BY <1>1, <1>2
  <2>2. l.data.user \in DOMAIN agg'[k].ever /\ agg'[k].ever[l.data.user] = firstEver'[l.data.user]
    BY <2>1, <1>2, <1>5 DEF KnownEver
  <2>3. ASSUME NEW m \in tradeLogs, Timestamp(m) <= Timestamp(l) PROVE KnownEver(m)' /\ KnownDay(m)'
    <3>1. cursor[k] \in Nat /\ Timestamp(m) \in Nat
      BY RoundNumbers DEF Onward, Bucket
    <3>2. CASE Timestamp(m) <= cursor[k]
      BY <3>2, <1>4
    <3>3. CASE cursor[k] < Timestamp(m)
      <4>1. m \in agg[k].batch
        BY <2>1, <2>3, <3>3, <1>1 DEF Fits, BatchFits
      <4> QED BY <4>1, <1>2, <1>5
    <3> QED BY <3>1, <3>2, <3>3
  <2> QED BY <2>2, <2>3
<1>6. \A l \in Behind(tradeLogs, cursor[k])' : KnownEver(l)' /\ KnownDay(l)'
  BY <1>1, <1>4 DEF Behind
<1>7. agg'[k].pc = "set" => \A l \in agg'[k].batch :
        /\ l.data.user \in DOMAIN agg'[k].ever /\ agg'[k].ever[l.data.user] = firstEver'[l.data.user]
        /\ \A m \in Behind(tradeLogs', Timestamp(l)) : KnownEver(m)' /\ KnownDay(m)'
  BY <1>1, <1>5 DEF Behind
<1>8. /\ agg'[k].pc \in {"day", "load"} => \A l \in agg'[k].batch : KnownEver(l)'
      /\ agg'[k].pc = "load" => \A l \in agg'[k].batch : KnownDay(l)'
  BY <1>1, <1>2
<1> QED BY <1>6, <1>7, <1>8 DEF TableFits

LEMMA MetricsCount == MetricKinds \subseteq Kinds
BY DEF MetricKinds, Kinds

\* So they keep the invariant.
LEMMA TablesExact ==
  ASSUME Onward, AggPart, ExactInv, NEW k \in group \cap Kinds, k \in MetricKinds, FirstTrades(k)
  PROVE  ExactInv'
<1>1. /\ UNCHANGED <<tradeLogs, group, cursor, missed, stats>>
      /\ \A j \in group \cap Kinds : j # k => agg'[j] = agg[j]
  BY TablesStep
<1>2. BatchPart /\ CellPart /\ Bucket(tradeLogs)
  BY DEF ExactInv, Onward
<1>3. ASSUME NEW j \in group \cap Kinds
      PROVE  Fits(j)' /\ Processed(j)' = Processed(j) /\ Behind(tradeLogs, cursor[j])' = Behind(tradeLogs, cursor[j])
  <2>1. Processed(j)' = Processed(j) /\ Behind(tradeLogs, cursor[j])' = Behind(tradeLogs, cursor[j])
    BY <1>1 DEF Processed, Behind
  <2>2. Fits(j)
    BY <1>2 DEF BatchPart
  <2>3. CASE j = k
    BY <2>1, <2>2, <2>3, TablesFit
  <2>4. CASE j # k
    BY <2>1, <2>2, <2>4, <1>1, FitsStay
  <2> QED BY <2>3, <2>4
<1>4. BatchPart'
  BY <1>1, <1>3 DEF BatchPart
<1>5. CellPart'
  BY <1>1, <1>2, <1>3, CellPartStays
<1>6. ASSUME "tables" \notin spoilt' PROVE FirstsPart' /\ TablePart'
  <2>1. FirstsPart /\ TablePart /\ Fits(k) /\ TableFits(k)
    BY <1>2, <1>6 DEF ExactInv, Onward, TablePart, BatchPart
  <2>2. /\ TablesGrow
        /\ \A u \in DOMAIN firstEver' :
             \E l \in tradeLogs : l.data.user = u /\ Timestamp(l) = firstEver'[u] /\ NewHere(l)
        /\ \A d \in DOMAIN firstDay' :
             \E l \in tradeLogs, z \in Zones : DayOf(l, z) = d /\ Timestamp(l) = firstDay'[d] /\ FirstHere(l, z)
    BY <2>1, <1>2, <1>6, TablesKnown
  <2>3. FirstsPart'
    <3>1. \A l : NewHere(l)' <=> NewHere(l)
      BY <1>1 DEF NewHere
    <3>2. \A l, z : FirstHere(l, z)' <=> FirstHere(l, z)
      BY <1>1 DEF FirstHere
    <3>3. \A u \in DOMAIN firstEver' :
            \E l \in tradeLogs' : l.data.user = u /\ Timestamp(l) = firstEver'[u] /\ NewHere(l)'
      BY <3>1, <2>2, <1>1
    <3>4. \A d \in DOMAIN firstDay' :
            \E l \in tradeLogs', z \in Zones : DayOf(l, z) = d /\ Timestamp(l) = firstDay'[d] /\ FirstHere(l, z)'
      BY <3>2, <2>2, <1>1
    <3> QED BY <3>3, <3>4 DEF FirstsPart
  <2>4. ASSUME NEW j \in group \cap MetricKinds PROVE TableFits(j)'
    <3>1. j \in group \cap Kinds /\ TableFits(j)
      BY <2>1, MetricsCount DEF TablePart
    <3>2. CASE j = k
      BY <3>2, <2>1, <1>6, TableFitsMove
    <3>3. CASE j # k
      BY <3>1, <3>3, <2>2, <1>1, <1>3, TableFitsStay
    <3> QED BY <3>2, <3>3
  <2> QED BY <2>3, <2>4, <1>1 DEF TablePart
<1> QED BY <1>4, <1>5, <1>6 DEF ExactInv

\* The cells of a trade are those of the aggregation, in one of the zones when it
\* counts users.
LEMMA CellKind ==
  ASSUME NEW k \in Kinds, NEW l, NEW c \in CellsOf(k, l)
  PROVE  c[1] = k /\ (k \in MetricKinds => \E z \in Zones : c[3] = <<"utc", z>>)
<1>1. CASE k = "volume"
  <2>1. PICK key, f : c = <<"volume", key, <<f, 0>>, TimestampFor(Timestamp(l), <<f, 0>>)>>
    BY <1>1 DEF CellsOf, aggregateVolumeStats, aggregateVolumeStat
  <2> QED BY <2>1, <1>1 DEF MetricKinds
<1>2. CASE k = "burn"
  <2>1. PICK key, f : c = <<"burn", key, <<f, 0>>, TimestampFor(Timestamp(l), <<f, 0>>)>>
    BY <1>2 DEF CellsOf, aggregateBurnFeeStats, aggregateBurnfee
  <2> QED BY <2>1, <1>2 DEF MetricKinds
<1>3. CASE k \in MetricKinds
  <2>1. PICK f \in ZoneFrames : \E key : c = <<k, key, f, TimestampFor(Timestamp(l), f)>>
    BY <1>3 DEF CellsOf, MetricKinds, aggregateTradeSumary, aggregateWalletStats, aggregateCountryStats, MetricCells
  <2>2. c[1] = k /\ c[3] = f
    BY <2>1
  <2> QED BY <2>2 DEF ZoneFrames
<1>4. CASE k = "user"
  <2>1. PICK f \in ZoneFrames :
          c = <<"user", <<l.data.user>>, f, TimestampByFreq(TimestampFor(Timestamp(l), f), f)>>
    BY <1>4 DEF CellsOf, aggregateUserInfo
  <2> QED BY <2>1, <1>4 DEF MetricKinds
<1> QED BY <1>1, <1>2, <1>3, <1>4 DEF Kinds, MetricKinds

\* The table of the batch tells which of its trades are the first of their users,
\* that of the days which are the first of the day.
LEMMA TablesTell ==
  ASSUME Bucket(tradeLogs), AggPart, FirstsPart, NEW k \in group \cap Kinds, TableFits(k), agg[k].pc = "set",
         NEW l \in agg[k].batch, NEW z \in Zones
  PROVE  /\ (l.data.user \in DOMAIN agg[k].ever /\ agg[k].ever[l.data.user] = Timestamp(l)) <=> NewHere(l)
         /\ (GetFirstTradeInDay(l, z) = Timestamp(l)) <=> FirstHere(l, z)
         /\ NewHere(l) => FirstHere(l, z)
<1>2. l \in tradeLogs
  BY RoundNumbers
<1>4. /\ KnownEver(l) /\ KnownDay(l)
      /\ l.data.user \in DOMAIN agg[k].ever /\ agg[k].ever[l.data.user] = firstEver[l.data.user]
  <2>1. Timestamp(l) <= Timestamp(l)
    BY <1>2 DEF Bucket
  <2> QED BY <1>2, <2>1 DEF TableFits, Behind
<1>5. \A m \in tradeLogs : Timestamp(m) \in Nat
  BY DEF Bucket
<1>6. firstEver[l.data.user] = Timestamp(l) <=> NewHere(l)
  <2>1. PICK m \in tradeLogs : m.data.user = l.data.user /\ Timestamp(m) = firstEver[l.data.user] /\ NewHere(m)
    BY <1>4 DEF FirstsPart, KnownEver
  <2>2. Timestamp(m) <= Timestamp(l)
    BY <2>1, <1>2 DEF NewHere
  <2>3. NewHere(l) => Timestamp(l) <= Timestamp(m)
    BY <2>1, <1>2 DEF NewHere
  <2>4. Timestamp(m) = Timestamp(l) => NewHere(l)
    BY <2>1 DEF NewHere
  <2>5. Timestamp(m) \in Nat /\ Timestamp(l) \in Nat
    BY <1>2, <1>5
  <2>6. Timestamp(l) <= Timestamp(m) => Timestamp(m) = Timestamp(l)
    BY <2>2, <2>5
  <2> QED BY <2>1, <2>3, <2>4, <2>6
<1>7. (GetFirstTradeInDay(l, z) = Timestamp(l)) <=> FirstHere(l, z)
  <2>0. DayOf(l, z) \in DOMAIN firstDay
    BY <1>4 DEF KnownDay
  <2>1. PICK m \in tradeLogs, y \in Zones :
          DayOf(m, y) = DayOf(l, z) /\ Timestamp(m) = firstDay[DayOf(l, z)] /\ FirstHere(m, y)
    BY <2>0 DEF FirstsPart
  <2>2. y = z
    BY <2>1 DEF DayOf
  <2>3. Timestamp(m) <= Timestamp(l)
    BY <2>1, <2>2, <1>2 DEF FirstHere
  <2>4. FirstHere(l, z) => Timestamp(l) <= Timestamp(m)
    BY <2>1, <2>2, <1>2 DEF FirstHere
  <2>5. Timestamp(m) = Timestamp(l) => FirstHere(l, z)
    BY <2>1, <2>2 DEF FirstHere
  <2>6. Timestamp(m) \in Nat /\ Timestamp(l) \in Nat
    BY <1>2, <1>5
  <2>7. Timestamp(l) <= Timestamp(m) => Timestamp(m) = Timestamp(l)
    BY <2>3, <2>6
  <2>8. GetFirstTradeInDay(l, z) = Timestamp(m)
    BY <2>0, <2>1 DEF GetFirstTradeInDay
  <2> QED BY <2>4, <2>5, <2>7, <2>8
<1>8. NewHere(l) => FirstHere(l, z)
  BY DEF NewHere, FirstHere, DayOf
<1> QED BY <1>4, <1>6, <1>7, <1>8

\* So a batch adds to a cell what it should.
LEMMA AddedIs ==
  ASSUME Bucket(tradeLogs), AggPart, NEW k \in group \cap Kinds, agg[k].pc = "set", NEW c,
         "tables" \notin spoilt /\ k \in MetricKinds => FirstsPart /\ TableFits(k)
  PROVE  SameCell(Doubt(k), Added(k, c), CountOf(k, c, Here(k, c, agg[k].batch)))
<1> DEFINE here  == {l \in agg[k].batch : c \in CellsOf(k, l)}
           new(l) == l.data.user \in DOMAIN agg[k].ever /\ agg[k].ever[l.data.user] = Timestamp(l)
           news  == {l \in here : k \in MetricKinds /\ new(l)}
           first == {l \in here : k \in MetricKinds
                                  /\ (new(l) \/ GetFirstTradeInDay(l, c[3][2]) = Timestamp(l))}
           News  == {l \in here : k \in MetricKinds /\ NewHere(l)}
           First == {l \in here : k \in MetricKinds /\ FirstHere(l, c[3][2])}
<1>1. Added(k, c) = [trades |-> Cardinality(here), users |-> Cardinality(first), newUsers |-> Cardinality(news)]
  BY DEF Added
<1>2. CountOf(k, c, here) = [trades |-> Cardinality(here), users |-> Cardinality(First), newUsers |-> Cardinality(News)]
  BY DEF CountOf
<1>3. ASSUME NEW l \in here, k \in MetricKinds, "tables" \notin spoilt
      PROVE  /\ new(l) <=> NewHere(l)
             /\ (new(l) \/ GetFirstTradeInDay(l, c[3][2]) = Timestamp(l)) <=> FirstHere(l, c[3][2])
  <2>1. l \in agg[k].batch /\ c \in CellsOf(k, l)
    OBVIOUS
  <2>2. PICK z \in Zones : c[3] = <<"utc", z>>
    BY <2>1, <1>3, CellKind
  <2>3. c[3][2] = z
    BY <2>2
  <2>4. /\ new(l) <=> NewHere(l)
        /\ (GetFirstTradeInDay(l, z) = Timestamp(l)) <=> FirstHere(l, z)
        /\ NewHere(l) => FirstHere(l, z)
    BY <2>1, <1>3, TablesTell
  <2> QED BY <2>3, <2>4
<1>4. "tables" \notin Doubt(k) => news = News /\ first = First
  <2> HIDE DEF new, here
  <2>1. CASE k \in MetricKinds
    BY <2>1, <1>3 DEF Doubt
  <2>2. CASE k \notin MetricKinds
    BY <2>2
  <2> QED BY <2>1, <2>2
<1>5. here = Here(k, c, agg[k].batch)
  BY DEF Here
<1> HIDE DEF news, News, first, First, here
<1> QED BY <1>1, <1>2, <1>4, <1>5 DEF SameCell

\* Two disjoint finite sets are counted apart.
LEMMA CountedApart ==
  ASSUME NEW A, NEW B, NEW C, IsFiniteSet(A), IsFiniteSet(B), A \cap B = {}, C = A \cup B
  PROVE  Cardinality(C) = Cardinality(A) + Cardinality(B)
<1>1. Cardinality(A \cup B) = Cardinality(A) + Cardinality(B) - Cardinality(A \cap B)
  BY FS_Union
<1>2. Cardinality(A \cap B) = 0
  BY FS_EmptySet
<1>3. Cardinality(A) \in Nat /\ Cardinality(B) \in Nat
  BY FS_CardinalityType
<1> QED BY <1>1, <1>2, <1>3

LEMMA SumOfCounts ==
  ASSUME NEW k, NEW c, NEW A, NEW B, IsFiniteSet(A), IsFiniteSet(B), A \cap B = {}
  PROVE  Sum(CountOf(k, c, A), CountOf(k, c, B)) = CountOf(k, c, A \cup B)
<1> DEFINE U(S) == {l \in S : k \in MetricKinds /\ FirstHere(l, c[3][2])}
           N(S) == {l \in S : k \in MetricKinds /\ NewHere(l)}
<1>1. \A S : CountOf(k, c, S) = [trades |-> Cardinality(S), users |-> Cardinality(U(S)), newUsers |-> Cardinality(N(S))]
  BY DEF CountOf
<1>2. \A x, y, z, p, q, r : Sum([trades |-> x, users |-> y, newUsers |-> z], [trades |-> p, users |-> q, newUsers |-> r])
        = [trades |-> x + p, users |-> y + q, newUsers |-> z + r]
  BY DEF Sum
<1>3. Cardinality(A \cup B) = Cardinality(A) + Cardinality(B)
  BY CountedApart
<1>4. Cardinality(U(A \cup B)) = Cardinality(U(A)) + Cardinality(U(B))
  <2>1. U(A \cup B) = U(A) \cup U(B) /\ U(A) \cap U(B) = {} /\ U(A) \subseteq A /\ U(B) \subseteq B
    OBVIOUS
  <2>2. IsFiniteSet(U(A)) /\ IsFiniteSet(U(B))
    <3> HIDE DEF U
    <3> QED BY <2>1, FS_Subset
  <2> HIDE DEF U
  <2> QED BY <2>1, <2>2, CountedApart
<1>5. Cardinality(N(A \cup B)) = Cardinality(N(A)) + Cardinality(N(B))
  <2>1. N(A \cup B) = N(A) \cup N(B) /\ N(A) \cap N(B) = {} /\ N(A) \subseteq A /\ N(B) \subseteq B
    OBVIOUS
  <2>2. IsFiniteSet(N(A)) /\ IsFiniteSet(N(B))
    <3> HIDE DEF N
    <3> QED BY <2>1, FS_Subset
  <2> HIDE DEF N
  <2> QED BY <2>1, <2>2, CountedApart
<1> HIDE DEF U, N
<1> QED BY <1>1, <1>2, <1>3, <1>4, <1>5

\* Nothing counts for nothing.
LEMMA CountOfNone ==
  ASSUME NEW k, NEW c
  PROVE  CountOf(k, c, {}) = ZeroCell
BY FS_EmptySet DEF CountOf, ZeroCell

LEMMA SumWithZero ==
  ASSUME NEW x \in CellSet
  PROVE  Sum(x, ZeroCell) = x
<1>1. PICK a \in Nat, b \in Nat, d \in Nat : x = [trades |-> a, users |-> b, newUsers |-> d]
  BY DEF CellSet
<1>2. Sum(x, ZeroCell) = [trades |-> a + 0, users |-> b + 0, newUsers |-> d + 0]
  BY <1>1 DEF Sum, ZeroCell
<1> QED BY <1>1, <1>2

\* Sums of cells that are the same are the same.
LEMMA SumOfSame ==
  ASSUME NEW bad, NEW x, NEW y, NEW p, NEW q, "trades" \in DOMAIN x, "trades" \in DOMAIN y,
         SameCell(bad, x, y), SameCell(bad, p, q)
  PROVE  SameCell(bad, Sum(x, p), Sum(y, q))
<1>1. Sum(x, p).trades = x.trades + p.trades /\ Sum(y, q).trades = y.trades + q.trades
  BY DEF Sum
<1> QED BY <1>1 DEF SameCell

\* The cells after a successful transaction.
LEMMA CellsGrow ==
  ASSUME Onward, AggPart, ExactInv, NEW k \in group \cap Kinds, agg[k].pc = "set", tradeLogs' = tradeLogs,
         \A j \in group \cap Kinds : j # k => Processed(j)' = Processed(j),
         Processed(k) \cap agg[k].batch = {},
         k \in ExactKinds' => Processed(k)' = Processed(k) \cup agg[k].batch,
         stats' = WithBatch(k)
  PROVE  CellPart'
<1> DEFINE cells  == UNION {CellsOf(k, l) : l \in agg[k].batch}
           Old(c) == IF c \in DOMAIN stats THEN stats[c] ELSE ZeroCell
           New(c) == IF c \in cells THEN Added(k, c) ELSE ZeroCell
<1>1. DOMAIN stats' = DOMAIN stats \cup cells /\ \A c \in DOMAIN stats \cup cells : stats'[c] = Sum(Old(c), New(c))
  <2>1. stats' = [c \in DOMAIN stats \cup cells |-> Sum(Old(c), New(c))]
    BY DEF WithBatch
  <2> HIDE DEF cells, Old, New
  <2> QED BY <2>1
<1>2. /\ ExactKinds' \subseteq ExactKinds /\ ExactKinds \subseteq group \cap Kinds /\ (\A j : Doubt(j) \subseteq Doubt(j)')
      /\ \A l : NewHere(l)' <=> NewHere(l)
      /\ \A l, z : FirstHere(l, z)' <=> FirstHere(l, z)
  BY FewerExact DEF Onward, NewHere, FirstHere, Doubt
<1>3. /\ \A c \in DOMAIN stats : c[1] \in ExactKinds => InCell(c) # {} /\ SameCell(Doubt(c[1]), stats[c], CellOf(c))
      /\ \A j \in ExactKinds : \A l \in Processed(j) : CellsOf(j, l) \subseteq DOMAIN stats
  BY DEF ExactInv, CellPart
<1>4. \A c \in cells : c[1] = k
  BY CellKind
<1>5. Bucket(tradeLogs) /\ Bucket(tradeLogs)' /\ Appends(tradeLogs, tradeLogs')
  BY DEF Onward
<1>6. ASSUME NEW c \in DOMAIN stats', c[1] \in ExactKinds', c[1] # k
      PROVE  InCell(c)' # {} /\ SameCell(Doubt(c[1])', stats'[c], CellOf(c)')
  <2>1. c \notin cells /\ c \in DOMAIN stats
    BY <1>1, <1>4, <1>6
  <2>2. Old(c) = stats[c] /\ New(c) = ZeroCell
    BY <2>1
  <2>3. stats'[c] = Sum(stats[c], ZeroCell) /\ stats[c] \in CellSet
    <3> HIDE DEF Old, New
    <3> QED BY <2>1, <2>2, <1>1 DEF AggPart
  <2>4. stats'[c] = stats[c]
    BY <2>3, SumWithZero
  <2>5. InCell(c)' = InCell(c) /\ CellOf(c)' = CellOf(c)
    BY <1>2, <1>5, <1>6, CellStays
  <2>6. InCell(c) # {} /\ SameCell(Doubt(c[1]), stats[c], CellOf(c))
    BY <2>1, <1>2, <1>3, <1>6
  <2> QED BY <2>4, <2>5, <2>6, <1>2 DEF SameCell
<1>7. ASSUME NEW c \in DOMAIN stats', c[1] \in ExactKinds', c[1] = k
      PROVE  InCell(c)' # {} /\ SameCell(Doubt(c[1])', stats'[c], CellOf(c)')
  <2> DEFINE A == InCell(c)
             B == Here(k, c, agg[k].batch)
  <2>0. c[1] \in ExactKinds
    BY <1>2, <1>7
  <2>1. A = Here(k, c, Processed(k)) /\ CellOf(c) = CountOf(k, c, A)
    BY <1>7 DEF InCell, CellOf
  <2>2. InCell(c)' = A \cup B /\ A \cap B = {}
    BY <1>7 DEF InCell, Here
  <2>3. IsFiniteSet(A) /\ IsFiniteSet(B)
    <3>1. A \subseteq tradeLogs /\ B \subseteq tradeLogs
      BY <2>1, RoundNumbers DEF Here, Processed
    <3> HIDE DEF A, B
    <3> QED BY <3>1, <1>5, FS_Subset DEF Bucket
  <2>4. SameCell(Doubt(k), Old(c), CountOf(k, c, A)) /\ "trades" \in DOMAIN Old(c)
    <3>1. CASE c \in DOMAIN stats
      <4>1. SameCell(Doubt(k), stats[c], CountOf(k, c, A)) /\ stats[c] \in CellSet
        BY <3>1, <2>0, <2>1, <1>3, <1>7 DEF AggPart
      <4>2. "trades" \in DOMAIN stats[c]
        BY <4>1 DEF CellSet
      <4> HIDE DEF A
      <4> QED BY <3>1, <4>1, <4>2
    <3>2. CASE c \notin DOMAIN stats
      <4>1. A = {}
        BY <3>2, <2>0, <2>1, <1>3, <1>7 DEF Here
      <4>2. CountOf(k, c, A) = ZeroCell
        BY <4>1, CountOfNone
      <4>3. "trades" \in DOMAIN ZeroCell
        BY DEF ZeroCell
      <4> HIDE DEF A
      <4> QED BY <3>2, <4>2, <4>3 DEF SameCell
    <3> QED BY <3>1, <3>2
  <2>5. SameCell(Doubt(k), New(c), CountOf(k, c, B))
    <3>1. CASE c \in cells
      <4>1. SameCell(Doubt(k), Added(k, c), CountOf(k, c, B))
        <5>1. "tables" \notin spoilt /\ k \in MetricKinds => FirstsPart /\ TableFits(k)
          BY DEF ExactInv, TablePart
        <5> QED BY <5>1, <1>5, AddedIs
      <4> HIDE DEF B, cells
      <4> QED BY <3>1, <4>1
    <3>2. CASE c \notin cells
      <4>1. B = {}
        BY <3>2 DEF Here
      <4>2. CountOf(k, c, B) = ZeroCell
        BY <4>1, CountOfNone
      <4> HIDE DEF B, cells
      <4> QED BY <3>2, <4>2 DEF SameCell
    <3> QED BY <3>1, <3>2
  <2>6. CellOf(c)' = CountOf(k, c, A \cup B)
    <3> DEFINE W == InCell(c)
               U == {l \in W : c[1] \in MetricKinds /\ FirstHere(l, c[3][2])}
               N == {l \in W : c[1] \in MetricKinds /\ NewHere(l)}
               X == A \cup B
               V == {l \in X : k \in MetricKinds /\ FirstHere(l, c[3][2])}
               M == {l \in X : k \in MetricKinds /\ NewHere(l)}
    <3>1. CellOf(c)' = [trades |-> Cardinality(W'), users |-> Cardinality(U'), newUsers |-> Cardinality(N')]
      BY DEF CellOf, CountOf
    <3>2. CountOf(k, c, X) = [trades |-> Cardinality(X), users |-> Cardinality(V), newUsers |-> Cardinality(M)]
      BY DEF CountOf
    <3>3. W' = X
      BY <2>2
    <3>4. U' = V
      BY <2>2, <1>2, <1>7
    <3>5. N' = M
      BY <2>2, <1>2, <1>7
    <3> QED BY <3>1, <3>2, <3>3, <3>4, <3>5
  <2>7. InCell(c)' # {}
    <3>1. CASE c \in DOMAIN stats
      BY <3>1, <2>0, <2>2, <1>3
    <3>2. CASE c \in cells
      BY <3>2, <2>2 DEF Here
    <3> QED BY <3>1, <3>2, <1>1
  <2>8. stats'[c] = Sum(Old(c), New(c)) /\ "trades" \in DOMAIN CountOf(k, c, A)
    <3>1. "trades" \in DOMAIN CountOf(k, c, A)
      BY DEF CountOf
    <3> HIDE DEF A, B, Old, New, cells
    <3> QED BY <3>1, <1>1
  <2>9. Sum(CountOf(k, c, A), CountOf(k, c, B)) = CountOf(k, c, A \cup B)
    <3> HIDE DEF A, B
    <3> QED BY <2>2, <2>3, SumOfCounts
  <2>10. SameCell(Doubt(k), Sum(Old(c), New(c)), Sum(CountOf(k, c, A), CountOf(k, c, B)))
    <3> HIDE DEF A, B, Old, New
    <3> QED BY <2>4, <2>5, <2>8, SumOfSame
  <2> HIDE DEF A, B, Old, New
  <2> QED BY <2>6, <2>7, <2>8, <2>9, <2>10, <1>2, <1>7 DEF SameCell
<1>8. ASSUME NEW j \in ExactKinds', NEW l \in Processed(j)' PROVE CellsOf(j, l) \subseteq DOMAIN stats'
  <2>0. j \in ExactKinds /\ j \in group \cap Kinds
    BY <1>2
  <2>1. CASE l \in Processed(j)
    BY <2>0, <2>1, <1>1, <1>3
  <2>2. CASE l \notin Processed(j)
    <3>1. j = k /\ l \in agg[k].batch
      BY <2>0, <2>2, <1>8
    <3> QED BY <3>1, <1>1
  <2> QED BY <2>1, <2>2
<1> QED BY <1>6, <1>7, <1>8 DEF CellPart

\* The transaction of an aggregation keeps the invariant, successful or not.
LEMMA SetStatExact ==
  ASSUME Onward, AggPart, ExactInv, NEW k \in group \cap Kinds, SetStat(k)
  PROVE  ExactInv'
<1> DEFINE last == LastCounted(k)
           Done == /\ LastCounted(k) = 0 /\ Processed(k) # {} => "rewound" \in spoilt'
                   /\ stats' = WithBatch(k) /\ cursor' = [cursor EXCEPT ![k] = LastCounted(k)]
                   /\ missed' = [missed EXCEPT ![k] = IF LastCounted(k) = 0 THEN {}
                                                      ELSE missed[k] \cup PassedOver(k, LastCounted(k))]
                   /\ spoilt' = spoilt \cup {"rewound"} \/ spoilt' = spoilt
<1>1. /\ UNCHANGED <<tradeLogs, group, firstEver, firstDay>>
      /\ agg[k].pc = "set" /\ agg' = [agg EXCEPT ![k] = NotRunning]
      /\ Done \/ UNCHANGED <<stats, cursor, missed, spoilt>>
  BY SetStatDoes
<1>2. DOMAIN agg = group \cap Kinds /\ DOMAIN missed = group \cap Kinds /\ DOMAIN cursor = group
  BY DEF AggPart
<1>3. /\ agg'[k] = NotRunning /\ NotRunning.pc = "idle" /\ NotRunning.batch = {}
      /\ \A j \in group \cap Kinds : j # k => agg'[j] = agg[j]
  BY <1>1, <1>2 DEF NotRunning
<1>4. BatchPart /\ CellPart
  BY DEF ExactInv
<1>5. "tables" \in spoilt' <=> "tables" \in spoilt
  BY <1>1
<1>6. ASSUME NEW j \in group \cap Kinds, j # k \/ UNCHANGED <<cursor, missed>>
      PROVE  Fits(j)' /\ Processed(j)' = Processed(j) /\ Behind(tradeLogs, cursor[j])' = Behind(tradeLogs, cursor[j])
  <2>1. Fits(j)
    BY <1>4 DEF BatchPart
  <2>2. cursor'[j] = cursor[j] /\ missed'[j] = missed[j]
    BY <1>1, <1>2, <1>6
  <2>3. agg'[j] = agg[j] \/ (agg'[j].pc \in {"idle", "start"} /\ agg'[j].batch = {})
    BY <1>3
  <2> QED BY <2>1, <2>2, <2>3, FitsStay
<1>7. FirstsPart => FirstsPart' /\ TablesGrow
  BY <1>1, FirstsPartStays DEF TablesGrow
<1>8. ASSUME NEW j \in group \cap Kinds, j # k \/ UNCHANGED <<cursor, missed>>, FirstsPart, TableFits(j)
      PROVE  TableFits(j)'
  BY <1>3, <1>6, <1>7, <1>8, TableFitsStay
<1>9. CASE UNCHANGED <<stats, cursor, missed, spoilt>>
  <2>1. BatchPart'
    BY <1>1, <1>6, <1>9 DEF BatchPart
  <2>2. CellPart'
    BY <1>4, <1>6, <1>9, CellPartStays
  <2>3. ASSUME "tables" \notin spoilt' PROVE FirstsPart' /\ TablePart'
    <3>1. FirstsPart /\ TablePart
      BY <2>3, <1>5 DEF ExactInv
    <3> QED BY <3>1, <1>1, <1>7, <1>8, <1>9, MetricsCount DEF TablePart
  <2> QED BY <2>1, <2>2, <2>3 DEF ExactInv
<1>10. CASE Done
  <2>0. Fits(k)
    BY <1>4 DEF BatchPart
  <2>1. /\ \A l \in missed'[k] : Timestamp(l) <= cursor'[k]
        /\ Processed(k) \cap agg[k].batch = {}
        /\ k \in ExactKinds' => Processed(k)' = Processed(k) \cup agg[k].batch
        /\ \A l \in Behind(tradeLogs, cursor'[k]) : \E m \in agg[k].batch : Timestamp(l) <= Timestamp(m)
    BY <2>0, <1>1, <1>10, CursorMoves
  <2>2. Fits(k)'
    <3>1. RangeFits(tradeLogs, cursor[k], agg[k])' /\ BatchFits(k, tradeLogs, cursor[k], agg[k])'
      BY <1>3 DEF RangeFits, BatchFits, Working
    <3> QED BY <3>1, <2>1 DEF Fits
  <2>3. BatchPart'
    BY <2>2, <1>1, <1>6 DEF BatchPart
  <2>4. CellPart'
    BY <2>1, <1>1, <1>6, <1>10, CellsGrow
  <2>5. ASSUME "tables" \notin spoilt' PROVE FirstsPart' /\ TablePart'
    <3>1. FirstsPart /\ TablePart
      BY <2>5, <1>5 DEF ExactInv
    <3>2. ASSUME NEW j \in group \cap MetricKinds PROVE TableFits(j)'
      <4>1. j \in group \cap Kinds /\ TableFits(j)
        BY <3>1, MetricsCount DEF TablePart
      <4>2. CASE j # k
        BY <3>1, <4>1, <4>2, <1>8
      <4>3. CASE j = k
        <5>1. \A m \in agg[k].batch : \A l \in Behind(tradeLogs, Timestamp(m)) : KnownEver(l) /\ KnownDay(l)
          BY <4>1, <4>3, <1>1 DEF TableFits
        <5>2. ASSUME NEW l \in Behind(tradeLogs, cursor'[k]) PROVE KnownEver(l) /\ KnownDay(l)
          <6>1. PICK m \in agg[k].batch : Timestamp(l) <= Timestamp(m)
            BY <2>1
          <6>2. l \in Behind(tradeLogs, Timestamp(m))
            BY <6>1 DEF Behind
          <6> QED BY <6>2, <5>1
        <5>3. \A l : (KnownEver(l)' <=> KnownEver(l)) /\ (KnownDay(l)' <=> KnownDay(l))
          BY <1>1 DEF KnownEver, KnownDay
        <5>4. \A l \in Behind(tradeLogs, cursor[k])' : KnownEver(l)' /\ KnownDay(l)'
          BY <5>2, <5>3, <1>1
        <5> QED BY <5>4, <4>3, <1>3 DEF TableFits
      <4> QED BY <4>2, <4>3
    <3> QED BY <3>1, <3>2, <1>1, <1>7 DEF TablePart
  <2> QED BY <2>3, <2>4, <2>5 DEF ExactInv
<1> QED BY <1>1, <1>9, <1>10

\* A step that counts nothing and leaves the tables alone keeps it too.
CountsNothing ==
  /\ UNCHANGED tableVars
  /\ \A k \in group \cap Kinds :
       /\ Fits(k)' /\ Processed(k)' = Processed(k)
       /\ k \in MetricKinds => agg'[k] = agg[k] \/ agg'[k].pc \notin {"day", "load", "set"}
       /\ k \in MetricKinds /\ "tables" \notin spoilt' =>
            Behind(tradeLogs, cursor[k])' = Behind(tradeLogs, cursor[k])

LEMMA QuietExact ==
  ASSUME Onward, AggPart, ExactInv, CountsNothing
  PROVE  ExactInv'
<1>0. /\ UNCHANGED <<stats, firstEver, firstDay>>
      /\ \A k \in group \cap Kinds :
           /\ Fits(k)' /\ Processed(k)' = Processed(k)
           /\ k \in MetricKinds => agg'[k] = agg[k] \/ agg'[k].pc \notin {"day", "load", "set"}
           /\ k \in MetricKinds /\ "tables" \notin spoilt' =>
                Behind(tradeLogs, cursor[k])' = Behind(tradeLogs, cursor[k])
  BY DEF CountsNothing, tableVars
<1>1. BatchPart /\ CellPart /\ group' = group
  BY DEF ExactInv, Onward
<1>2. BatchPart'
  BY <1>0, <1>1 DEF BatchPart
<1>3. CellPart'
  BY <1>0, <1>1, CellPartStays
<1>4. ASSUME "tables" \notin spoilt' PROVE FirstsPart' /\ TablePart'
  <2>1. FirstsPart /\ TablePart
    BY <1>4 DEF ExactInv, Onward
  <2>2. FirstsPart' /\ TablesGrow
    BY <2>1, <1>0, FirstsPartStays DEF TablesGrow
  <2>3. ASSUME NEW k \in group \cap MetricKinds PROVE TableFits(k)'
    <3>1. k \in group \cap Kinds /\ k \in MetricKinds /\ TableFits(k)
      BY <2>1, MetricsCount DEF TablePart
    <3> QED BY <3>1, <2>2, <1>0, <1>4, TableFitsStay
  <2> QED BY <2>2, <2>3, <1>1 DEF TablePart
<1> QED BY <1>2, <1>3, <1>4 DEF ExactInv

\* The reads and the steps of others.
LEMMA ReadsQuiet ==
  ASSUME Onward, StatInv, ExactInv, NEW k \in group \cap Kinds, ReadTrades(k)
  PROVE  CountsNothing
<1>1. LogInv /\ BucketInv /\ AggPart
  BY DEF StatInv
<1>2. UNCHANGED tableVars
  BY DEF ReadTrades, ReadCursor, ReadTradeLogs, SkipTradeLogs
<1>3. DOMAIN agg = group \cap Kinds /\ DOMAIN missed = group \cap Kinds /\ DOMAIN cursor = group
  BY <1>1 DEF AggPart
<1>4. ASSUME NEW j \in group \cap Kinds, j # k PROVE agg'[j] = agg[j] /\ cursor'[j] = cursor[j] /\ missed'[j] = missed[j]
  <2>1. CASE ReadCursor(k)
    BY <2>1, <1>3, <1>4 DEF ReadCursor, lossVars
  <2>2. CASE ReadTradeLogs(k)
    BY <2>2, <1>3, <1>4 DEF ReadTradeLogs, lossVars
  <2>3. CASE SkipTradeLogs(k)
    BY <2>3, <1>3, <1>4 DEF SkipTradeLogs, lossVars
  <2> QED BY <2>1, <2>2, <2>3 DEF ReadTrades
<1>5. ASSUME NEW j \in group \cap Kinds
      PROVE  /\ Fits(j)' /\ Processed(j)' = Processed(j)
             /\ j \in MetricKinds => agg'[j] = agg[j] \/ agg'[j].pc \notin {"day", "load", "set"}
             /\ j \in MetricKinds /\ "tables" \notin spoilt' =>
                  Behind(tradeLogs, cursor[j])' = Behind(tradeLogs, cursor[j])
  <2>1. Fits(j)
    BY DEF ExactInv, BatchPart
  <2>2. CASE j # k
    BY <2>1, <2>2, <1>1, <1>4, FitsStay
  <2>3. CASE j = k
    BY <2>1, <2>3, <1>1, ReadFits
  <2> QED BY <2>2, <2>3
<1> QED BY <1>2, <1>5 DEF CountsNothing

LEMMA ElsewhereQuiet ==
  ASSUME Onward, StatInv, ExactInv, Elsewhere
  PROVE  CountsNothing
<1>1. AggPart /\ UNCHANGED <<tableVars, missed>>
  BY DEF StatInv, Elsewhere, lossVars
<1>2. DOMAIN agg = group \cap Kinds /\ DOMAIN cursor = group /\ "cat" \notin Kinds
  BY <1>1 DEF AggPart, Kinds
<1>3. /\ NotRunning.pc = "idle" /\ NotRunning.batch = {}
      /\ [NotRunning EXCEPT !.pc = "start", !.to = Now].pc = "start"
      /\ [NotRunning EXCEPT !.pc = "start", !.to = Now].batch = {}
  BY DEF NotRunning
<1>4. ASSUME NEW k \in group \cap Kinds
      PROVE  /\ cursor'[k] = cursor[k]
             /\ agg'[k] = agg[k] \/ (agg'[k].pc \in {"idle", "start"} /\ agg'[k].batch = {})
  <2>1. cursor'[k] = cursor[k]
    BY <1>2 DEF Elsewhere
  <2>2. CASE agg' = agg
    BY <2>1, <2>2
  <2>3. CASE agg' = [j \in DOMAIN agg |-> [NotRunning EXCEPT !.pc = "start", !.to = Now]]
    <3>1. agg'[k] = [NotRunning EXCEPT !.pc = "start", !.to = Now]
      BY <2>3, <1>2
    <3> QED BY <3>1, <2>1, <1>3
  <2>4. CASE agg' = [j \in DOMAIN agg |-> NotRunning]
    BY <2>1, <2>4, <1>2, <1>3
  <2> QED BY <2>2, <2>3, <2>4 DEF Elsewhere
<1>5. ASSUME NEW k \in group \cap Kinds
      PROVE  /\ Fits(k)' /\ Processed(k)' = Processed(k)
             /\ Behind(tradeLogs, cursor[k])' = Behind(tradeLogs, cursor[k])
             /\ agg'[k] = agg[k] \/ agg'[k].pc \notin {"day", "load", "set"}
  <2>1. Fits(k)
    BY DEF ExactInv, BatchPart
  <2> QED BY <2>1, <1>1, <1>4, FitsStay
<1> QED BY <1>1, <1>5 DEF CountsNothing

\* Every step keeps the invariant.
LEMMA ExactStep == StatInv /\ ExactInv /\ [StatNext]_statVars => ExactInv'
<1> SUFFICES ASSUME StatInv, ExactInv, [StatNext]_statVars PROVE ExactInv'
  OBVIOUS
<1>1. AggPart /\ Onward
  BY OnwardStep DEF StatInv
<1>2. CASE Elsewhere
  BY <1>1, <1>2, ElsewhereQuiet, QuietExact
<1>3. ASSUME NEW k \in group \cap Kinds, ReadTrades(k) PROVE ExactInv'
  BY <1>1, <1>3, ReadsQuiet, QuietExact
<1>4. ASSUME NEW k \in group \cap Kinds, k \in MetricKinds, FirstTrades(k) PROVE ExactInv'
  BY <1>1, <1>4, TablesExact
<1>5. ASSUME NEW k \in group \cap Kinds, SetStat(k) PROVE ExactInv'
  BY <1>1, <1>5, SetStatExact
<1> QED BY <1>2, <1>3, <1>4, <1>5, StepKinds

\* It holds at the start.
LEMMA ExactInit == StatInit => ExactInv
<1> SUFFICES ASSUME StatInit PROVE ExactInv
  OBVIOUS
<1>1. /\ agg = [k \in group \cap Kinds |-> NotRunning] /\ cursor = [k \in group |-> 0]
      /\ missed = [k \in group \cap Kinds |-> {}]
      /\ DOMAIN firstEver = {} /\ DOMAIN firstDay = {} /\ DOMAIN stats = {} /\ tradeLogs = {}
  BY DEF StatInit, AggregationInit, StatLogsInit, Empty
<1>2. NotRunning.batch = {} /\ NotRunning.pc = "idle"
  BY DEF NotRunning
<1>3. BatchPart
  <2>1. ASSUME NEW k \in group \cap Kinds PROVE Fits(k)
    <3>1. agg[k] = NotRunning /\ missed[k] = {}
      BY <1>1
    <3> QED BY <3>1, <1>2 DEF Fits, RangeFits, BatchFits, Working
  <2> QED BY <2>1 DEF BatchPart
<1>4. FirstsPart
  BY <1>1 DEF FirstsPart
<1>5. (\A k : Processed(k) = {}) /\ \A t : Behind(tradeLogs, t) = {}
  BY <1>1 DEF Processed, Behind
<1>6. TablePart
  <2>1. ASSUME NEW k \in group \cap MetricKinds PROVE agg[k].pc = "idle"
    BY <1>1, <1>2, MetricsCount
  <2> QED BY <2>1, <1>5 DEF TablePart, TableFits
<1>7. CellPart
  BY <1>1, <1>5 DEF CellPart
<1> QED BY <1>3, <1>4, <1>6, <1>7 DEF ExactInv

\* It holds always.
LEMMA ExactAlways == StatSpec => [](StatInv /\ ExactInv)
<1>1. StatInit => StatInv /\ ExactInv
  BY ExactInit, LogInvInit, BucketInit, CatInit, AggInit, BlockInit DEF StatInv
<1>2. StatInv /\ ExactInv /\ [StatNext]_statVars => (StatInv /\ ExactInv)'
  BY ExactStep, StatInvStep
<1> QED BY <1>1, <1>2, PTL DEF StatSpec

------------------------------------------------------------------------------
\* What a client collects.

\* The statistics served by bucket of time, and their time frames.
ServedKinds == {"volume", "burn"} \cup MetricKinds
FramesOf(k) == IF k \in MetricKinds THEN ZoneFrames ELSE {<<f, 0>> : f \in Freqs}

\* A trade is counted under each of its keys in every time frame, in its bucket.
LEMMA CellShape ==
  ASSUME NEW k \in ServedKinds, NEW l, NEW c \in CellsOf(k, l)
  PROVE  /\ c[3] \in FramesOf(k) /\ c = <<k, c[2], c[3], TimestampFor(Timestamp(l), c[3])>>
         /\ \A f \in FramesOf(k) : <<k, c[2], f, TimestampFor(Timestamp(l), f)>> \in CellsOf(k, l)
<1>1. CASE k = "volume"
  <2> DEFINE keys == {<<"token", l.data.src>>, <<"token", l.data.dst>>, <<"user", l.data.user>>,
                      <<"reserve", l.data.reserve, AssetOf(l)>>, <<"reserve", l.data.reserve, ETH>>,
                      <<"heat", l.country, AssetOf(l)>>}
             T(f) == TimestampFor(Timestamp(l), f)
  <2>1. CellsOf(k, l) = UNION {{<<k, key, <<f, 0>>, T(<<f, 0>>)>> : f \in Freqs} : key \in keys}
    BY <1>1 DEF CellsOf, aggregateVolumeStats, aggregateVolumeStat
  <2>2. FramesOf(k) = {<<f, 0>> : f \in Freqs}
    BY <1>1 DEF FramesOf, MetricKinds
  <2> HIDE DEF keys, T
  <2>3. PICK key \in keys, f \in Freqs : c = <<k, key, <<f, 0>>, T(<<f, 0>>)>>
    BY <2>1
  <2>4. c[2] = key /\ c[3] = <<f, 0>>
    BY <2>3
  <2>5. c[3] \in FramesOf(k) /\ c = <<k, c[2], c[3], T(c[3])>>
    BY <2>2, <2>3, <2>4
  <2>6. \A g \in FramesOf(k) : <<k, c[2], g, T(g)>> \in CellsOf(k, l)
    BY <2>1, <2>2, <2>4
  <2> QED BY <2>5, <2>6 DEF T
<1>2. CASE k = "burn"
  <2> DEFINE keys == {<<"reserve", l.data.reserve>>, <<"fee", l.data.reserve, l.data.wallet>>}
             T(f) == TimestampFor(Timestamp(l), f)
  <2>1. CellsOf(k, l) = UNION {{<<k, key, <<f, 0>>, T(<<f, 0>>)>> : f \in Freqs} : key \in keys}
    BY <1>2 DEF CellsOf, aggregateBurnFeeStats, aggregateBurnfee
  <2>2. FramesOf(k) = {<<f, 0>> : f \in Freqs}
    BY <1>2 DEF FramesOf, MetricKinds
  <2> HIDE DEF keys, T
  <2>3. PICK key \in keys, f \in Freqs : c = <<k, key, <<f, 0>>, T(<<f, 0>>)>>
    BY <2>1
  <2>4. c[2] = key /\ c[3] = <<f, 0>>
    BY <2>3
  <2>5. c[3] \in FramesOf(k) /\ c = <<k, c[2], c[3], T(c[3])>>
    BY <2>2, <2>3, <2>4
  <2>6. \A g \in FramesOf(k) : <<k, c[2], g, T(g)>> \in CellsOf(k, l)
    BY <2>1, <2>2, <2>4
  <2> QED BY <2>5, <2>6 DEF T
<1>3. CASE k \in MetricKinds
  <2> DEFINE T(f) == TimestampFor(Timestamp(l), f)
  <2>1. PICK key : CellsOf(k, l) = {<<k, key, f, T(f)>> : f \in ZoneFrames}
    BY <1>3 DEF CellsOf, MetricKinds, aggregateTradeSumary, aggregateWalletStats, aggregateCountryStats, MetricCells
  <2>2. FramesOf(k) = ZoneFrames
    BY <1>3 DEF FramesOf
  <2> HIDE DEF T
  <2>3. PICK f \in ZoneFrames : c = <<k, key, f, T(f)>>
    BY <2>1
  <2>4. c[2] = key /\ c[3] = f
    BY <2>3
  <2>5. c[3] \in FramesOf(k) /\ c = <<k, c[2], c[3], T(c[3])>>
    BY <2>2, <2>3, <2>4
  <2>6. \A g \in FramesOf(k) : <<k, c[2], g, T(g)>> \in CellsOf(k, l)
    BY <2>1, <2>2, <2>4
  <2> QED BY <2>5, <2>6 DEF T
<1> QED BY <1>1, <1>2, <1>3 DEF ServedKinds

\* The buckets of time of the trades.
LEMMA BucketTimes ==
  ASSUME LogInv, BucketInv, NEW k \in ServedKinds, NEW f \in FramesOf(k), NEW l \in tradeLogs
  PROVE  TimestampFor(Timestamp(l), f) \in Nat /\ TimestampFor(Timestamp(l), f) <= EndTime + 2 * Day
<1> DEFINE t == Timestamp(l)
<1>1. EndTime \in Nat /\ Day \in Nat /\ Day > 0 /\ t \in Nat /\ t < EndTime
  BY LogsInTime, Zenon
<1>2. Minute \in Nat /\ Minute > 0 /\ Hour \in Nat /\ Hour > 0
  BY AggregationAssumption
<1> HIDE DEF t
<1>3. CASE f[1] = "M"
  <2>1. TimestampFor(t, f) = Floor(t, Minute)
    BY <1>3 DEF TimestampFor
  <2>2. Floor(t, Minute) \in Nat /\ Floor(t, Minute) <= t
    BY <1>1, <1>2, FloorBounds
  <2> QED BY <2>1, <2>2, <1>1 DEF t
<1>4. CASE f[1] = "H"
  <2>1. TimestampFor(t, f) = Floor(t, Hour)
    BY <1>4 DEF TimestampFor
  <2>2. Floor(t, Hour) \in Nat /\ Floor(t, Hour) <= t
    BY <1>1, <1>2, FloorBounds
  <2> QED BY <2>1, <2>2, <1>1 DEF t
<1>5. CASE f[1] = "D"
  <2>1. TimestampFor(t, f) = Floor(t, Day)
    BY <1>5 DEF TimestampFor
  <2>2. Floor(t, Day) \in Nat /\ Floor(t, Day) <= t
    BY <1>1, FloorBounds
  <2> QED BY <2>1, <2>2, <1>1 DEF t
<1>6. CASE f \in ZoneFrames
  <2>1. PICK z \in Zones : f = <<"utc", z>>
    BY <1>6 DEF ZoneFrames
  <2>2. f[1] = "utc" /\ f[2] = z
    BY <2>1
  <2>3. z \in Int /\ z * Hour <= Day /\ 0 - z * Hour <= Day
    <3>1. Zones \subseteq -11 .. 14 /\ \A y \in Zones : y * Hour <= Day /\ 0 - y * Hour <= Day
      BY AggregationAssumption, Zenon
    <3> QED BY <3>1
  <2> DEFINE away == (IF z < 0 THEN 0 - z ELSE z) * Hour
  <2>4. TimestampFor(t, f) = Floor(t + away, Day) + away
    BY <2>2 DEF TimestampFor
  <2>5. away \in Nat /\ away <= Day
    <3>1. CASE z < 0
      <4>1. away = (0 - z) * Hour /\ (0 - z) * Hour = 0 - z * Hour /\ (0 - z) * Hour \in Nat
        BY <3>1, <2>3, <1>2
      <4> QED BY <4>1, <2>3
    <3>2. CASE z >= 0
      <4>1. away = z * Hour /\ z * Hour \in Nat
        BY <3>2, <2>3, <1>2
      <4> QED BY <4>1, <2>3
    <3> QED BY <3>1, <3>2, <2>3
  <2> HIDE DEF away
  <2>6. t + away \in Nat
    BY <2>5, <1>1
  <2>7. Floor(t + away, Day) \in Nat /\ Floor(t + away, Day) <= t + away
    BY <2>6, <1>1, FloorBounds
  <2> QED BY <2>4, <2>5, <2>7, <1>1 DEF t
<1>7. f \in ZoneFrames \/ f[1] \in Freqs
  BY DEF FramesOf
<1> QED BY <1>3, <1>4, <1>5, <1>6, <1>7 DEF Freqs

\* A tick is served for every bucket of the window that has processed trades, and
\* says what the logs say.
Shows(bad, ticks, all, from, to) ==
  /\ DOMAIN ticks = {b \in DOMAIN all : from <= b /\ b <= to}
  /\ \A b \in DOMAIN ticks : SameCell(bad, ticks[b], all[b])

LEMMA TicksAre ==
  ASSUME ExactInv, NEW k \in ExactKinds \cap ServedKinds, NEW key, NEW f \in FramesOf(k), NEW from, NEW to
  PROVE  Shows(Doubt(k), Ticks(k, key, f, from, to), Expected(k, key, f), from, to)
<1> DEFINE E       == Expected(k, key, f)
           T       == Ticks(k, key, f, from, to)
           B(l)    == TimestampFor(Timestamp(l), f)
           mine    == {l \in Processed(k) : \E c \in CellsOf(k, l) : c[2] = key}
           here(b) == {l \in mine : B(l) = b}
           cell(b) == <<k, key, f, b>>
           cells   == {c \in DOMAIN stats : c[1] = k /\ c[2] = key /\ c[3] = f /\ from <= c[4] /\ c[4] <= to}
           count(b) == [trades   |-> Cardinality(here(b)),
                        users    |-> Cardinality({l \in here(b) : k \in MetricKinds /\ FirstHere(l, f[2])}),
                        newUsers |-> Cardinality({l \in here(b) : k \in MetricKinds /\ NewHere(l)})]
<1>1. E = [b \in {B(l) : l \in mine} |-> count(b)]
  BY DEF Expected
<1>2. DOMAIN E = {B(l) : l \in mine} /\ \A b \in DOMAIN E : E[b] = count(b)
  <2> HIDE DEF E, count, mine, B
  <2> QED BY <1>1
<1>3. T = [b \in {c[4] : c \in cells} |-> stats[cell(b)]]
  BY DEF Ticks
<1>4. DOMAIN T = {c[4] : c \in cells} /\ \A b \in DOMAIN T : T[b] = stats[cell(b)]
  <2> HIDE DEF T, cells, cell
  <2> QED BY <1>3
<1>5. /\ \A c \in DOMAIN stats : c[1] \in ExactKinds => InCell(c) # {} /\ SameCell(Doubt(c[1]), stats[c], CellOf(c))
      /\ \A l \in Processed(k) : CellsOf(k, l) \subseteq DOMAIN stats
  BY DEF ExactInv, CellPart
<1>6. ASSUME NEW l \in Processed(k), NEW b PROVE cell(b) \in CellsOf(k, l) <=> l \in here(b)
  <2>1. ASSUME cell(b) \in CellsOf(k, l) PROVE l \in here(b)
    <3>1. cell(b)[2] = key /\ cell(b)[3] = f /\ cell(b)[4] = b
      OBVIOUS
    <3>2. cell(b) = <<k, cell(b)[2], cell(b)[3], TimestampFor(Timestamp(l), cell(b)[3])>>
      BY <2>1, CellShape
    <3>3. b = B(l)
      BY <3>1, <3>2
    <3> QED BY <2>1, <3>1, <3>3
  <2>2. ASSUME l \in here(b) PROVE cell(b) \in CellsOf(k, l)
    <3>1. PICK c \in CellsOf(k, l) : c[2] = key
      BY <2>2
    <3>2. <<k, c[2], f, B(l)>> \in CellsOf(k, l)
      BY CellShape
    <3> QED BY <2>2, <3>1, <3>2
  <2> QED BY <2>1, <2>2
<1>7. ASSUME NEW c \in cells PROVE c = cell(c[4]) /\ here(c[4]) # {}
  <2>1. InCell(c) # {} /\ c[1] = k /\ c[2] = key /\ c[3] = f
    BY <1>5
  <2>2. PICK l \in Processed(k) : c \in CellsOf(k, l)
    BY <2>1 DEF InCell, Here
  <2>3. c = <<k, c[2], c[3], TimestampFor(Timestamp(l), c[3])>>
    BY <2>2, CellShape
  <2>4. c = cell(c[4])
    BY <2>1, <2>3
  <2> HIDE DEF cell, here
  <2> QED BY <2>2, <2>4, <1>6
<1>8. ASSUME NEW b \in DOMAIN E PROVE cell(b) \in DOMAIN stats
  <2>1. PICK l \in mine : B(l) = b
    BY <1>2
  <2>2. l \in here(b) /\ l \in Processed(k)
    BY <2>1
  <2> HIDE DEF cell, here
  <2> QED BY <2>2, <1>5, <1>6
<1>9. DOMAIN T = {b \in DOMAIN E : from <= b /\ b <= to}
  <2>1. ASSUME NEW b \in DOMAIN T PROVE b \in DOMAIN E /\ from <= b /\ b <= to
    <3>1. PICK c \in cells : c[4] = b
      BY <1>4
    <3>2. here(b) # {}
      BY <3>1, <1>7
    <3>3. b \in DOMAIN E
      BY <3>2, <1>2
    <3> QED BY <3>1, <3>3
  <2>2. ASSUME NEW b \in DOMAIN E, from <= b, b <= to PROVE b \in DOMAIN T
    <3>1. cell(b) \in cells /\ cell(b)[4] = b
      BY <2>2, <1>8
    <3> HIDE DEF cells, cell
    <3> QED BY <3>1, <1>4
  <2> HIDE DEF T, E
  <2> QED BY <2>1, <2>2
<1>10. ASSUME NEW b \in DOMAIN T PROVE SameCell(Doubt(k), T[b], E[b])
  <2>1. b \in DOMAIN E
    BY <1>9
  <2>2. T[b] = stats[cell(b)] /\ E[b] = count(b) /\ cell(b) \in DOMAIN stats
    <3> HIDE DEF T, E, cell, count
    <3> QED BY <2>1, <1>2, <1>4, <1>8
  <2>3. cell(b)[1] = k /\ cell(b)[3] = f
    OBVIOUS
  <2>4. SameCell(Doubt(k), stats[cell(b)], CellOf(cell(b)))
    <3> HIDE DEF cell
    <3> QED BY <2>2, <2>3, <1>5
  <2>5. InCell(cell(b)) = here(b)
    <3>1. InCell(cell(b)) = {l \in Processed(k) : cell(b) \in CellsOf(k, l)}
      BY <2>3 DEF InCell, Here
    <3>2. here(b) \subseteq Processed(k)
      OBVIOUS
    <3> HIDE DEF cell, here
    <3> QED BY <3>1, <3>2, <1>6
  <2>6. CellOf(cell(b)) = CountOf(k, cell(b), here(b))
    <3> HIDE DEF here
    <3> QED BY <2>3, <2>5 DEF CellOf
  <2>7. CountOf(k, cell(b), here(b)) = count(b)
    <3> HIDE DEF here, cell
    <3> QED BY <2>3 DEF CountOf
  <2> HIDE DEF T, E, cell, count
  <2> QED BY <2>2, <2>4, <2>6, <2>7
<1> QED BY <1>9, <1>10 DEF Shows

\* Quotients and products of natural numbers.
LEMMA QuotientIs ==
  ASSUME NEW a \in Nat, NEW m \in Nat, m > 0, NEW q, q = a \div m
  PROVE  q \in Nat /\ m * q <= a /\ a < m * q + m
<1> DEFINE r == a % m
<1>1. q \in Int /\ r \in 0 .. m - 1 /\ a = m * q + r
  OBVIOUS
<1> HIDE DEF r
<1>2. ~(q <= 0 - 1)
  <2>1. q <= 0 - 1 => m * q <= 0 - m
    BY <1>1
  <2> QED BY <2>1, <1>1
<1>3. m * q \in Int
  BY <1>1
<1> QED BY <1>1, <1>2, <1>3

LEMMA ProductGrows ==
  ASSUME NEW m \in Nat, NEW x \in Nat, NEW y \in Nat
  PROVE  /\ m * x \in Nat
         /\ x <= y => m * x <= m * y
         /\ x < y => m * x + m <= m * y
         /\ m * x < m * y => x < y
<1>1. m * x \in Nat /\ m * y \in Nat
  OBVIOUS
<1>2. ASSUME NEW u \in Nat, NEW v \in Nat, u <= v PROVE m * u <= m * v
  <2>1. PICK d \in Nat : v = u + d
    <3>1. v - u \in Nat /\ v = u + (v - u)
      BY <1>2
    <3> QED BY <3>1
  <2>2. m * v = m * u + m * d /\ m * d \in Nat /\ m * u \in Nat
    BY <2>1
  <2> QED BY <2>2
<1>3. x <= y => m * x <= m * y
  BY <1>2
<1>4. x < y => m * x + m <= m * y
  <2>1. x + 1 <= y => m * (x + 1) <= m * y
    BY <1>2
  <2>2. m * (x + 1) = m * x + m
    OBVIOUS
  <2> QED BY <2>1, <2>2, <1>1
<1>5. m * x < m * y => x < y
  <2>1. y <= x => m * y <= m * x
    BY <1>2
  <2> QED BY <2>1, <1>1
<1> QED BY <1>1, <1>3, <1>4, <1>5

\* The limits of the windows are at least a day and at most three years.
LEMMA LimitIs ==
  ASSUME NEW freq \in Freqs, Day \in Nat
  PROVE  WindowLimit[freq] \in Nat /\ Day <= WindowLimit[freq] /\ WindowLimit[freq] <= 1095 * Day
         /\ freq \in DOMAIN WindowLimit
<1>1. WindowLimit = [M |-> Day, H |-> 180 * Day, D |-> 3 * 365 * Day]
  BY DEF WindowLimit
<1>2. CASE freq = "M"
  BY <1>1, <1>2
<1>3. CASE freq = "H"
  BY <1>1, <1>3
<1>4. CASE freq = "D"
  BY <1>1, <1>4
<1> QED BY <1>2, <1>3, <1>4 DEF Freqs

\* The windows a client asks for are accepted, and cover the buckets of all trades.
LEMMA WindowsServed ==
  ASSUME LogInv, BucketInv, NEW freq \in Freqs
  PROVE  /\ \A w \in Windows(freq) :
              /\ w[1] \in Nat /\ w[2] \in Nat /\ w[2] # 0
              /\ validateTimeWindow(w[1], w[2], freq) = {<<w[1] * PerMilli, w[2] * PerMilli>>}
         /\ \A b \in Nat : b <= EndTime + 4 * Day =>
              \E w \in Windows(freq) : w[1] * PerMilli <= b /\ b <= w[2] * PerMilli
<1> DEFINE P   == PerMilli
           X   == EndTime + 4 * Day
           L   == WindowLimit[freq]
           len == L \div P
           end == X \div P
           n   == end \div len
<1>1. EndTime \in Nat /\ Day \in Nat /\ Day > 0 /\ WordSize \in Nat
  BY LogsInTime, Zenon
<1>2. P \in Nat /\ P > 0 /\ P <= Day /\ WordSize > EndTime + 1100 * Day
  BY QueriesAssumption DEF EndTime
<1>3. L \in Nat /\ Day <= L /\ L <= 1095 * Day /\ freq \in DOMAIN WindowLimit
  BY <1>1, LimitIs
<1>4. X \in Nat
  BY <1>1
<1>5. Windows(freq) = {<<d * len, d * len + len>> : d \in 0 .. n}
  BY DEF Windows, LastTime, EndTime
<1> HIDE DEF P, X, L, len, end, n
<1>6. len \in Nat /\ P * len <= L /\ L < P * len + P
  BY <1>2, <1>3, QuotientIs DEF len
<1>7. end \in Nat /\ P * end <= X /\ X < P * end + P
  BY <1>2, <1>4, QuotientIs DEF end
<1>8. len > 0
  <2>1. len = 0 => P * len = 0
    BY <1>2
  <2> QED BY <2>1, <1>2, <1>3, <1>6, <1>1
<1>9. n \in Nat /\ len * n <= end /\ end < len * n + len
  BY <1>6, <1>7, <1>8, QuotientIs DEF n
<1>10. ASSUME NEW w \in Windows(freq)
       PROVE  /\ w[1] \in Nat /\ w[2] \in Nat /\ w[2] # 0
              /\ validateTimeWindow(w[1], w[2], freq) = {<<w[1] * PerMilli, w[2] * PerMilli>>}
  <2>1. PICK d \in 0 .. n : w = <<d * len, d * len + len>>
    BY <1>5
  <2> DEFINE a == w[1]
             b == w[2]
             A == a * PerMilli
             B == b * PerMilli
  <2>2. d \in Nat /\ d <= n
    BY <1>9
  <2>3. a = len * d /\ b = a + len
    BY <2>1, <2>2, <1>6
  <2>4. len * d \in Nat /\ len * d <= len * n
    BY <2>2, <1>6, <1>9, ProductGrows
  <2> HIDE DEF a, b
  <2>5. a \in Nat /\ a <= end /\ b \in Nat /\ b # 0
    BY <2>3, <2>4, <1>6, <1>7, <1>8, <1>9
  <2>6. A = P * a /\ B = P * a + P * len
    BY <2>3, <2>5, <1>2, <1>6 DEF P
  <2>7. P * a \in Nat /\ P * a <= P * end /\ P * len \in Nat /\ P * end \in Nat
    BY <2>5, <1>2, <1>6, <1>7, ProductGrows
  <2> HIDE DEF A, B
  <2>8. A \in Nat /\ B \in Nat /\ A <= B /\ B <= X + L /\ B - A \in Nat /\ B - A <= L
    BY <2>6, <2>7, <1>3, <1>4, <1>6, <1>7
  <2>9. X + L < WordSize
    BY <1>1, <1>2, <1>3 DEF X
  <2>10. A < WordSize /\ B < WordSize /\ B - A < WordSize
    BY <2>8, <2>9, <1>1, <1>3, <1>4
  <2>11. A % WordSize = A /\ B % WordSize = B
    BY <2>8, <2>10, <1>1, SmallRest
  <2>12. (WordSize + B - A) % WordSize = B - A
    <3>1. (WordSize + (B - A)) % WordSize = B - A
      BY <2>8, <2>10, <1>1, WordRest
    <3>2. WordSize + B - A = WordSize + (B - A)
      BY <2>8, <1>1
    <3> QED BY <3>1, <3>2
  <2>13. validateTimeWindow(a, b, freq) = {v \in {<<A, B>>} : (WordSize + v[2] - v[1]) % WordSize <= L}
    BY <2>11, <1>3 DEF validateTimeWindow, A, B, L
  <2>14. validateTimeWindow(a, b, freq) = {<<A, B>>}
    BY <2>13, <2>12, <2>8
  <2> QED BY <2>5, <2>14 DEF a, b, A, B
<1>11. ASSUME NEW b \in Nat, b <= X
       PROVE  \E w \in Windows(freq) : w[1] * PerMilli <= b /\ b <= w[2] * PerMilli
  <2> DEFINE q == b \div P
             d == q \div len
             w == <<d * len, d * len + len>>
  <2>1. q \in Nat /\ P * q <= b /\ b < P * q + P
    BY <1>2, QuotientIs
  <2> HIDE DEF q
  <2>2. d \in Nat /\ len * d <= q /\ q < len * d + len
    BY <2>1, <1>6, <1>8, QuotientIs
  <2> HIDE DEF d
  <2>3. q <= end
    <3>1. P * end + P = P * (end + 1) /\ P * q \in Nat /\ P * (end + 1) \in Nat /\ end + 1 \in Nat
      BY <1>2, <1>7, <2>1
    <3>2. P * q < P * (end + 1)
      BY <3>1, <2>1, <1>4, <1>7, <1>11
    <3>3. q < end + 1
      BY <3>1, <3>2, <2>1, <1>2, ProductGrows
    <3> QED BY <3>3, <2>1, <1>7
  <2>4. d <= n
    <3>1. len * n + len = len * (n + 1) /\ len * d \in Nat /\ len * (n + 1) \in Nat /\ n + 1 \in Nat
      BY <1>6, <1>9, <2>2
    <3>2. len * d < len * (n + 1)
      BY <3>1, <2>1, <2>2, <2>3, <1>7, <1>9
    <3>3. d < n + 1
      BY <3>1, <3>2, <2>2, <1>6, ProductGrows
    <3> QED BY <3>3, <2>2, <1>9
  <2>5. d \in 0 .. n /\ w \in Windows(freq)
    BY <2>2, <2>4, <1>5, <1>9
  <2>6. w[1] * PerMilli = P * (len * d) /\ w[2] * PerMilli = P * (len * d + len)
    BY <2>2, <1>2, <1>6 DEF P
  <2>7. len * d \in Nat /\ P * (len * d) \in Nat /\ P * (len * d + len) \in Nat /\ P * q \in Nat
    BY <2>1, <2>2, <1>2, <1>6
  <2>8. P * (len * d) <= P * q
    BY <2>1, <2>2, <2>7, <1>2, ProductGrows
  <2>9. P * q + P <= P * (len * d + len)
    <3>1. len * d + len \in Nat
      BY <2>7, <1>6
    <3> QED BY <3>1, <2>1, <2>2, <1>2, ProductGrows
  <2>10. w[1] * PerMilli <= b /\ b <= w[2] * PerMilli
    <3> HIDE DEF w
    <3> QED BY <2>1, <2>6, <2>7, <2>8, <2>9, <1>2
  <2> QED BY <2>5, <2>10
<1> QED BY <1>10, <1>11 DEF X

\* What a client collects window by window is what the logs say.
AnswersAre(answers, freq, k, key, f) ==
  /\ DOMAIN answers = Windows(freq)
  /\ \A w \in Windows(freq) : answers[w] = {Ticks(k, key, f, w[1] * PerMilli, w[2] * PerMilli)}

LEMMA GatheredIs ==
  ASSUME LogInv, BucketInv, ExactInv, NEW freq \in Freqs, NEW k \in ExactKinds \cap ServedKinds, NEW key,
         NEW f \in FramesOf(k), NEW answers, AnswersAre(answers, freq, k, key, f)
  PROVE  /\ Sound(Gathered(answers)) = Sound(Pairs(Expected(k, key, f)))
         /\ "tables" \notin Doubt(k) => Gathered(answers) = Pairs(Expected(k, key, f))
<1> DEFINE E    == Expected(k, key, f)
           T(w) == Ticks(k, key, f, w[1] * PerMilli, w[2] * PerMilli)
<1>1. \A w \in Windows(freq) :
        /\ DOMAIN T(w) = {b \in DOMAIN E : w[1] * PerMilli <= b /\ b <= w[2] * PerMilli}
        /\ \A b \in DOMAIN T(w) : SameCell(Doubt(k), T(w)[b], E[b])
  <2>1. \A w \in Windows(freq) : Shows(Doubt(k), T(w), E, w[1] * PerMilli, w[2] * PerMilli)
    BY TicksAre, Zenon
  <2> HIDE DEF E, T
  <2> QED BY <2>1 DEF Shows
<1>2. Gathered(answers) = UNION {Pairs(T(w)) : w \in Windows(freq)}
  BY DEF Gathered, AnswersAre
<1>3. \A b \in DOMAIN E : \E w \in Windows(freq) : w[1] * PerMilli <= b /\ b <= w[2] * PerMilli
  <2>1. ASSUME NEW b \in DOMAIN E PROVE \E l \in tradeLogs : b = TimestampFor(Timestamp(l), f)
    BY DEF Expected, Processed
  <2>2. ASSUME NEW b \in DOMAIN E PROVE b \in Nat /\ b <= EndTime + 4 * Day
    <3>1. b \in Nat /\ b <= EndTime + 2 * Day
      BY <2>1, BucketTimes
    <3>2. EndTime \in Nat /\ Day \in Nat
      BY LogsInTime, Zenon
    <3> QED BY <3>1, <3>2
  <2> HIDE DEF E
  <2> QED BY <2>2, WindowsServed
<1> HIDE DEF E, T
<1>4. ASSUME NEW p \in Pairs(E)
      PROVE  \E q \in Gathered(answers) : q[1] = p[1] /\ SameCell(Doubt(k), q[2], p[2])
  <2>1. PICK b \in DOMAIN E : p = <<b, E[b]>>
    BY DEF Pairs
  <2>2. PICK w \in Windows(freq) : w[1] * PerMilli <= b /\ b <= w[2] * PerMilli
    BY <1>3
  <2>3. b \in DOMAIN T(w) /\ SameCell(Doubt(k), T(w)[b], E[b])
    BY <2>2, <1>1
  <2>4. <<b, T(w)[b]>> \in Pairs(T(w))
    BY <2>3 DEF Pairs
  <2>5. <<b, T(w)[b]>> \in Gathered(answers)
    BY <2>4, <1>2
  <2> QED BY <2>1, <2>3, <2>5
<1>5. ASSUME NEW q \in Gathered(answers)
      PROVE  \E p \in Pairs(E) : q[1] = p[1] /\ SameCell(Doubt(k), q[2], p[2])
  <2>1. PICK w \in Windows(freq) : q \in Pairs(T(w))
    BY <1>2
  <2>2. PICK b \in DOMAIN T(w) : q = <<b, T(w)[b]>>
    BY <2>1 DEF Pairs
  <2>3. b \in DOMAIN E /\ SameCell(Doubt(k), T(w)[b], E[b])
    BY <1>1
  <2>4. <<b, E[b]>> \in Pairs(E)
    BY <2>3 DEF Pairs
  <2> QED BY <2>2, <2>3, <2>4
<1>6. \A p \in Gathered(answers) \cup Pairs(E) : p = <<p[1], p[2]>>
  <2>1. \A p \in Pairs(E) : p = <<p[1], p[2]>>
    BY DEF Pairs
  <2>2. \A w \in Windows(freq) : \A p \in Pairs(T(w)) : p = <<p[1], p[2]>>
    BY DEF Pairs
  <2> QED BY <2>1, <2>2, <1>2
<1>7. ASSUME "tables" \notin Doubt(k) PROVE Gathered(answers) = Pairs(E)
  <2>1. \A p \in Pairs(E) : p \in Gathered(answers)
    <3>1. ASSUME NEW p \in Pairs(E) PROVE p \in Gathered(answers)
      <4>1. PICK q \in Gathered(answers) : q[1] = p[1] /\ SameCell(Doubt(k), q[2], p[2])
        BY <1>4
      <4>2. q[2] = p[2]
        BY <4>1, <1>7 DEF SameCell
      <4>3. p = <<p[1], p[2]>> /\ q = <<q[1], q[2]>>
        BY <1>6
      <4> QED BY <4>1, <4>2, <4>3
    <3> QED BY <3>1
  <2>2. \A q \in Gathered(answers) : q \in Pairs(E)
    <3>1. ASSUME NEW q \in Gathered(answers) PROVE q \in Pairs(E)
      <4>1. PICK p \in Pairs(E) : q[1] = p[1] /\ SameCell(Doubt(k), q[2], p[2])
        BY <1>5
      <4>2. q[2] = p[2]
        BY <4>1, <1>7 DEF SameCell
      <4>3. p = <<p[1], p[2]>> /\ q = <<q[1], q[2]>>
        BY <1>6
      <4> QED BY <4>1, <4>2, <4>3
    <3> QED BY <3>1
  <2> QED BY <2>1, <2>2
<1>8. Sound(Gathered(answers)) = Sound(Pairs(E))
  <2>1. CASE "tables" \notin spoilt
    <3>1. "tables" \notin Doubt(k)
      BY <2>1 DEF Doubt
    <3> QED BY <3>1, <1>7
  <2>2. CASE "tables" \in spoilt
    <3> DEFINE G == Gathered(answers)
               P == Pairs(E)
    <3>1. Sound(G) = {<<p[1], p[2].trades>> : p \in G} /\ Sound(P) = {<<p[1], p[2].trades>> : p \in P}
      BY <2>2 DEF Sound
    <3>2. \A p \in P : \E q \in G : q[1] = p[1] /\ q[2].trades = p[2].trades
      BY <1>4 DEF SameCell
    <3>3. \A q \in G : \E p \in P : q[1] = p[1] /\ q[2].trades = p[2].trades
      BY <1>5 DEF SameCell
    <3> HIDE DEF G, P
    <3>4. Sound(G) = Sound(P)
      BY <3>1, <3>2, <3>3
    <3> QED BY <3>4 DEF G, P
  <2> QED BY <2>1, <2>2
<1> QED BY <1>7, <1>8 DEF E

\* The answers to the requests for volumes and fees.
LEMMA VolumeAnswers ==
  ASSUME LogInv, BucketInv, NEW f \in Freqs, NEW w \in Windows(f)
  PROVE  LET ticks(k, key) == {Ticks(k, key, <<f, 0>>, w[1] * PerMilli, w[2] * PerMilli)}
         IN  /\ \A t \in Tokens :
                  GetAssetVolumeHandler([Query(w, f) EXCEPT !.asset = t]) = ticks("volume", <<"token", t>>)
             /\ \A u \in Traders :
                  /\ GetUserVolumeHandler([Query(w, f) EXCEPT !.userAddr = u]) = ticks("volume", <<"user", u>>)
                  /\ {all[u] : all \in GetUsersVolumeHandler([Query(w, f) EXCEPT !.userAddr = Traders])}
                       = ticks("volume", <<"user", u>>)
             /\ \A r \in Reserves :
                  GetBurnFeeHandler([Query(w, f) EXCEPT !.reserveAddr = r]) = ticks("burn", <<"reserve", r>>)
<1> DEFINE A == w[1] * PerMilli
           B == w[2] * PerMilli
           ticks(k, key) == {Ticks(k, key, <<f, 0>>, A, B)}
<1>1. /\ w[1] \in Nat /\ w[2] \in Nat
      /\ validateTimeWindow(w[1], w[2], f) = {<<A, B>>}
  BY WindowsServed
<1>2. NoParam \notin Int /\ NoParam \notin Traders \cup Reserves \cup Tokens \cup {Traders}
  BY ServerAssumption
<1>3. ParseUint(w[1]) = w[1] /\ ParseUint(w[2]) = w[2]
  BY <1>1, <1>2 DEF ParseUint
<1>4. Query(w, f) = [fromTime |-> w[1], toTime |-> w[2], freq |-> f, timeZone |-> NoParam, asset |-> NoParam, token |-> NoParam,
                     reserveAddr |-> NoParam, walletAddr |-> NoParam, userAddr |-> NoParam, country |-> NoParam]
  BY DEF Query
<1> DEFINE v == <<A, B>>
<1>5. v[1] = A /\ v[2] = B
  OBVIOUS
<1>6. ASSUME NEW t \in Tokens
      PROVE  GetAssetVolumeHandler([Query(w, f) EXCEPT !.asset = t]) = ticks("volume", <<"token", t>>)
  <2> DEFINE q == [Query(w, f) EXCEPT !.asset = t]
  <2>1. q.fromTime = w[1] /\ q.toTime = w[2] /\ q.freq = f /\ q.asset = t
    BY <1>4
  <2> HIDE DEF q
  <2>2. GetAssetVolumeHandler(q) = GetAssetVolume(w[1], w[2], f, t)
    BY <2>1, <1>3 DEF GetAssetVolumeHandler
  <2>3. GetAssetVolume(w[1], w[2], f, t) = {StoredAssetVolume(x, f, t) : x \in {v}}
    BY <1>1 DEF GetAssetVolume, Supported, Within
  <2>4. StoredAssetVolume(v, f, t) = Ticks("volume", <<"token", t>>, <<f, 0>>, A, B)
    BY <1>5 DEF StoredAssetVolume
  <2> HIDE DEF v, A, B
  <2> QED BY <2>2, <2>3, <2>4 DEF q
<1>7. ASSUME NEW u \in Traders
      PROVE  GetUserVolumeHandler([Query(w, f) EXCEPT !.userAddr = u]) = ticks("volume", <<"user", u>>)
  <2> DEFINE q == [Query(w, f) EXCEPT !.userAddr = u]
  <2>1. q.fromTime = w[1] /\ q.toTime = w[2] /\ q.freq = f /\ q.userAddr = u
    BY <1>4
  <2> HIDE DEF q
  <2>2. GetUserVolumeHandler(q) = GetUserVolume(w[1], w[2], f, u)
    BY <2>1, <1>2, <1>3 DEF GetUserVolumeHandler
  <2>3. GetUserVolume(w[1], w[2], f, u) = {StoredUserVolume(x, f, u) : x \in {v}}
    BY <1>1 DEF GetUserVolume, Within
  <2>4. StoredUserVolume(v, f, u) = Ticks("volume", <<"user", u>>, <<f, 0>>, A, B)
    BY <1>5 DEF StoredUserVolume
  <2> HIDE DEF v, A, B
  <2> QED BY <2>2, <2>3, <2>4 DEF q
<1>8. ASSUME NEW u \in Traders
      PROVE  {all[u] : all \in GetUsersVolumeHandler([Query(w, f) EXCEPT !.userAddr = Traders])}
               = ticks("volume", <<"user", u>>)
  <2> DEFINE q == [Query(w, f) EXCEPT !.userAddr = Traders]
             F(x) == [y \in Traders |-> StoredUserVolume(x, f, y)]
  <2>1. q.fromTime = w[1] /\ q.toTime = w[2] /\ q.freq = f /\ q.userAddr = Traders
    BY <1>4
  <2> HIDE DEF q
  <2>2. GetUsersVolumeHandler(q) = GetUsersVolume(w[1], w[2], f, Traders)
    BY <2>1, <1>2, <1>3 DEF GetUsersVolumeHandler
  <2>3. GetUsersVolume(w[1], w[2], f, Traders) = {F(x) : x \in {v}}
    BY <1>1 DEF GetUsersVolume, Within
  <2>4. StoredUserVolume(v, f, u) = Ticks("volume", <<"user", u>>, <<f, 0>>, A, B)
    BY <1>5 DEF StoredUserVolume
  <2> HIDE DEF v, A, B
  <2>5. F(v)[u] = Ticks("volume", <<"user", u>>, <<f, 0>>, A, B)
    BY <2>4
  <2> HIDE DEF F
  <2> QED BY <2>2, <2>3, <2>5 DEF q
<1>9. ASSUME NEW r \in Reserves
       PROVE  GetBurnFeeHandler([Query(w, f) EXCEPT !.reserveAddr = r]) = ticks("burn", <<"reserve", r>>)
  <2> DEFINE q == [Query(w, f) EXCEPT !.reserveAddr = r]
  <2>1. q.fromTime = w[1] /\ q.toTime = w[2] /\ q.freq = f /\ q.reserveAddr = r
    BY <1>4
  <2> HIDE DEF q
  <2>2. GetBurnFeeHandler(q) = GetBurnFee(w[1], w[2], f, r)
    BY <2>1, <1>2, <1>3 DEF GetBurnFeeHandler
  <2>3. GetBurnFee(w[1], w[2], f, r) = {StoredBurnFee(x, f, r) : x \in {v}}
    BY <1>1 DEF GetBurnFee, Within
  <2>4. StoredBurnFee(v, f, r) = Ticks("burn", <<"reserve", r>>, <<f, 0>>, A, B)
    BY <1>5 DEF StoredBurnFee
  <2> HIDE DEF v, A, B
  <2> QED BY <2>2, <2>3, <2>4 DEF q
<1> QED BY <1>6, <1>7, <1>8, <1>9, Zenon

LEMMA ReserveAnswer ==
  ASSUME LogInv, BucketInv, NEW f \in Freqs, NEW w \in Windows(f), NEW r \in Reserves, NEW t \in Tokens
  PROVE  GetReserveVolumeHandler([Query(w, f) EXCEPT !.reserveAddr = r, !.token = t])
           = {Ticks("volume", <<"reserve", r, t>>, <<f, 0>>, w[1] * PerMilli, w[2] * PerMilli)}
<1> DEFINE A == w[1] * PerMilli
           B == w[2] * PerMilli
<1>1. /\ w[1] \in Nat /\ w[2] \in Nat
      /\ validateTimeWindow(w[1], w[2], f) = {<<A, B>>}
  BY WindowsServed
<1>2. NoParam \notin Int /\ NoParam \notin Traders \cup Reserves \cup Tokens \cup {Traders}
  BY ServerAssumption
<1>3. ParseUint(w[1]) = w[1] /\ ParseUint(w[2]) = w[2]
  BY <1>1, <1>2 DEF ParseUint
<1>4. Query(w, f) = [fromTime |-> w[1], toTime |-> w[2], freq |-> f, timeZone |-> NoParam, asset |-> NoParam, token |-> NoParam,
                     reserveAddr |-> NoParam, walletAddr |-> NoParam, userAddr |-> NoParam, country |-> NoParam]
  BY DEF Query
<1> DEFINE v == <<A, B>>
<1>5. v[1] = A /\ v[2] = B
  OBVIOUS
<1> DEFINE q == [Query(w, f) EXCEPT !.reserveAddr = r, !.token = t]
<1>6. q.fromTime = w[1] /\ q.toTime = w[2] /\ q.freq = f /\ q.reserveAddr = r /\ q.token = t
  BY <1>4
<1> HIDE DEF q
<1>7. GetReserveVolumeHandler(q) = GetReserveVolume(w[1], w[2], f, r, t)
  BY <1>6, <1>2, <1>3 DEF GetReserveVolumeHandler, Supported
<1>8. GetReserveVolume(w[1], w[2], f, r, t) = {StoredReserveVolume(x, f, r, t) : x \in {v}}
  BY <1>1 DEF GetReserveVolume, Within
<1>9. StoredReserveVolume(v, f, r, t) = Ticks("volume", <<"reserve", r, t>>, <<f, 0>>, A, B)
  BY <1>5 DEF StoredReserveVolume
<1> HIDE DEF v, A, B
<1> QED BY <1>7, <1>8, <1>9 DEF q, A, B

LEMMA WalletFeeAnswer ==
  ASSUME LogInv, BucketInv, NEW f \in Freqs, NEW w \in Windows(f), NEW r \in Reserves, NEW a \in Wallets
  PROVE  GetWalletFeeHandler([Query(w, f) EXCEPT !.reserveAddr = r, !.walletAddr = a])
           = {Ticks("burn", <<"fee", r, a>>, <<f, 0>>, w[1] * PerMilli, w[2] * PerMilli)}
<1> DEFINE A == w[1] * PerMilli
           B == w[2] * PerMilli
<1>1. /\ w[1] \in Nat /\ w[2] \in Nat
      /\ validateTimeWindow(w[1], w[2], f) = {<<A, B>>}
  BY WindowsServed
<1>2. NoParam \notin Int /\ NoParam \notin Traders \cup Reserves \cup Tokens \cup {Traders}
  BY ServerAssumption
<1>3. ParseUint(w[1]) = w[1] /\ ParseUint(w[2]) = w[2]
  BY <1>1, <1>2 DEF ParseUint
<1>4. Query(w, f) = [fromTime |-> w[1], toTime |-> w[2], freq |-> f, timeZone |-> NoParam, asset |-> NoParam, token |-> NoParam,
                     reserveAddr |-> NoParam, walletAddr |-> NoParam, userAddr |-> NoParam, country |-> NoParam]
  BY DEF Query
<1> DEFINE v == <<A, B>>
<1>5. v[1] = A /\ v[2] = B
  OBVIOUS
<1> DEFINE q == [Query(w, f) EXCEPT !.reserveAddr = r, !.walletAddr = a]
<1>6. q.fromTime = w[1] /\ q.toTime = w[2] /\ q.freq = f /\ q.reserveAddr = r /\ q.walletAddr = a
  BY <1>4
<1> HIDE DEF q
<1>7. GetWalletFeeHandler(q) = GetWalletFee(w[1], w[2], f, r, a)
  BY <1>6, <1>3 DEF GetWalletFeeHandler
<1>8. GetWalletFee(w[1], w[2], f, r, a) = {StoredWalletFee(x, f, r, a) : x \in {v}}
  BY <1>1 DEF GetWalletFee, Within
<1>9. StoredWalletFee(v, f, r, a) = Ticks("burn", <<"fee", r, a>>, <<f, 0>>, A, B)
  BY <1>5 DEF StoredWalletFee
<1> HIDE DEF v, A, B
<1> QED BY <1>7, <1>8, <1>9 DEF q, A, B

\* The answers to the requests by time zone.
LEMMA ZoneAnswers ==
  ASSUME LogInv, BucketInv, NEW z \in Zones, NEW w \in Windows("D")
  PROVE  LET ticks(k, key) == {Ticks(k, key, <<"utc", z>>, w[1] * PerMilli, w[2] * PerMilli)}
         IN  /\ GetTradeSummaryHandler(ZoneQuery(w, z)) = ticks("summary", <<"trade_summary">>)
             /\ \A a \in Wallets \ {NoWallet} :
                  GetWalletStatsHandler([ZoneQuery(w, z) EXCEPT !.walletAddr = a]) = ticks("wallet", <<a>>)
             /\ \A c \in Countries :
                  GetCountryStatsHandler([ZoneQuery(w, z) EXCEPT !.country = c]) = ticks("country", <<c>>)
<1> DEFINE A == w[1] * PerMilli
           B == w[2] * PerMilli
           ticks(k, key) == {Ticks(k, key, <<"utc", z>>, A, B)}
<1>1. /\ w[1] \in Nat /\ w[2] \in Nat /\ w[2] # 0
      /\ validateTimeWindow(w[1], w[2], "D") = {<<A, B>>}
  BY WindowsServed DEF Freqs
<1>2. NoParam \notin Int
  BY ServerAssumption
<1>3. w[1] # NoParam /\ OrNow(w[2]) = w[2]
  BY <1>1, <1>2 DEF ParseUint, OrNow
<1>4. ZoneQuery(w, z) = [fromTime |-> w[1], toTime |-> w[2], freq |-> "D", timeZone |-> z, asset |-> NoParam, token |-> NoParam,
                         reserveAddr |-> NoParam, walletAddr |-> NoParam, userAddr |-> NoParam, country |-> NoParam]
  BY DEF ZoneQuery, Query
<1>5. z \in -11 .. 14 /\ z \in Int
  <2>1. Zones \subseteq -11 .. 14
    BY AggregationAssumption, Zenon
  <2> QED BY <2>1
<1>6. ASSUME NEW q, q.fromTime = w[1], q.toTime = w[2], q.timeZone = z
      PROVE  InZone(q) = {<<w[1], w[2], z>>}
  <2>1. ValidateTimeInput(q) = {<<w[1], w[2]>>}
    BY <1>3, <1>6 DEF ValidateTimeInput
  <2>2. ParseUint(q.timeZone) = z
    BY <1>2, <1>5, <1>6 DEF ParseUint
  <2>3. InZone(q) = {<<t[1], t[2], z>> : t \in ValidateTimeInput(q)}
    BY <2>2, <1>5 DEF InZone
  <2> QED BY <2>1, <2>3
<1> DEFINE v == <<A, B>>
           i == <<w[1], w[2], z>>
<1>7. v[1] = A /\ v[2] = B /\ i[1] = w[1] /\ i[2] = w[2] /\ i[3] = z
  OBVIOUS
<1>8. GetTradeSummaryHandler(ZoneQuery(w, z)) = ticks("summary", <<"trade_summary">>)
  <2> DEFINE q == ZoneQuery(w, z)
  <2>1. q.fromTime = w[1] /\ q.toTime = w[2] /\ q.timeZone = z
    BY <1>4
  <2> HIDE DEF q
  <2>2. InZone(q) = {i}
    BY <2>1, <1>6
  <2> HIDE DEF i
  <2>3. GetTradeSummaryHandler(q) = GetTradeSummary(w[1], w[2], z)
    BY <2>2, <1>7 DEF GetTradeSummaryHandler
  <2>4. GetTradeSummary(w[1], w[2], z) = {StoredTradeSummary(x, z) : x \in {v}}
    BY <1>1 DEF GetTradeSummary, Within
  <2>5. StoredTradeSummary(v, z) = Ticks("summary", <<"trade_summary">>, <<"utc", z>>, A, B)
    BY <1>7 DEF StoredTradeSummary
  <2> HIDE DEF v, A, B
  <2> QED BY <2>3, <2>4, <2>5 DEF q
<1>9. ASSUME NEW a \in Wallets \ {NoWallet}
      PROVE  GetWalletStatsHandler([ZoneQuery(w, z) EXCEPT !.walletAddr = a]) = ticks("wallet", <<a>>)
  <2> DEFINE q == [ZoneQuery(w, z) EXCEPT !.walletAddr = a]
  <2>1. q.fromTime = w[1] /\ q.toTime = w[2] /\ q.timeZone = z /\ q.walletAddr = a
    BY <1>4
  <2> HIDE DEF q
  <2>2. InZone(q) = {i}
    BY <2>1, <1>6
  <2> HIDE DEF i
  <2>3. GetWalletStatsHandler(q) = GetWalletStats(w[1], w[2], a, z)
    BY <2>1, <2>2, <1>7 DEF GetWalletStatsHandler, checkWalletAddress
  <2>4. GetWalletStats(w[1], w[2], a, z) = {StoredWalletStats(x, a, z) : x \in {v}}
    BY <1>1 DEF GetWalletStats, Within
  <2>5. StoredWalletStats(v, a, z) = Ticks("wallet", <<a>>, <<"utc", z>>, A, B)
    BY <1>7 DEF StoredWalletStats
  <2> HIDE DEF v, A, B
  <2> QED BY <2>3, <2>4, <2>5 DEF q
<1>10. ASSUME NEW c \in Countries
       PROVE  GetCountryStatsHandler([ZoneQuery(w, z) EXCEPT !.country = c]) = ticks("country", <<c>>)
  <2> DEFINE q == [ZoneQuery(w, z) EXCEPT !.country = c]
  <2>1. q.fromTime = w[1] /\ q.toTime = w[2] /\ q.timeZone = z /\ q.country = c
    BY <1>4
  <2> HIDE DEF q
  <2>2. InZone(q) = {i}
    BY <2>1, <1>6
  <2> HIDE DEF i
  <2>3. GetCountryStatsHandler(q) = GetGeoData(w[1], w[2], c, z)
    BY <2>1, <2>2, <1>7 DEF GetCountryStatsHandler
  <2>4. GetGeoData(w[1], w[2], c, z) = {StoredCountryStats(x, c, z) : x \in {v}}
    BY <1>1 DEF GetGeoData, Within
  <2>5. StoredCountryStats(v, c, z) = Ticks("country", <<c>>, <<"utc", z>>, A, B)
    BY <1>7 DEF StoredCountryStats
  <2> HIDE DEF v, A, B
  <2> QED BY <2>3, <2>4, <2>5 DEF q
<1> QED BY <1>8, <1>9, <1>10, Zenon

\* The inductive invariant implies that the volumes and fees match.
LEMMA ExactVolumes == StatInv /\ ExactInv => VolumesMatchLogs
<1> SUFFICES ASSUME StatInv, ExactInv, NEW f \in Freqs
             PROVE  LET logged(k, key) == Pairs(Expected(k, key, <<f, 0>>))
                    IN  /\ "volume" \in group =>
                             /\ \A t \in Tokens :
                                  Gathered([w \in Windows(f) |-> GetAssetVolumeHandler([Query(w, f) EXCEPT !.asset = t])])
                                    = logged("volume", <<"token", t>>)
                             /\ \A u \in Traders :
                                  /\ Gathered([w \in Windows(f) |-> GetUserVolumeHandler([Query(w, f) EXCEPT !.userAddr = u])])
                                       = logged("volume", <<"user", u>>)
                                  /\ Gathered([w \in Windows(f) |->
                                                  {all[u] : all \in GetUsersVolumeHandler([Query(w, f) EXCEPT !.userAddr = Traders])}])
                                       = logged("volume", <<"user", u>>)
                             /\ \A r \in Reserves, t \in Tokens :
                                  Gathered([w \in Windows(f) |->
                                               GetReserveVolumeHandler([Query(w, f) EXCEPT !.reserveAddr = r, !.token = t])])
                                    = logged("volume", <<"reserve", r, t>>)
                        /\ "burn" \in group => \A r \in Reserves :
                             /\ Gathered([w \in Windows(f) |-> GetBurnFeeHandler([Query(w, f) EXCEPT !.reserveAddr = r])])
                                  = logged("burn", <<"reserve", r>>)
                             /\ \A a \in Wallets :
                                  Gathered([w \in Windows(f) |->
                                               GetWalletFeeHandler([Query(w, f) EXCEPT !.reserveAddr = r, !.walletAddr = a])])
                                    = logged("burn", <<"fee", r, a>>)
  BY DEF VolumesMatchLogs
<1> DEFINE logged(k, key)   == Pairs(Expected(k, key, <<f, 0>>))
           ticks(k, key, w) == {Ticks(k, key, <<f, 0>>, w[1] * PerMilli, w[2] * PerMilli)}
<1>1. LogInv /\ BucketInv
  BY DEF StatInv
<1>2. ASSUME NEW k \in {"volume", "burn"}, k \in group, NEW key, NEW answers,
             DOMAIN answers = Windows(f), \A w \in Windows(f) : answers[w] = ticks(k, key, w)
      PROVE  Gathered(answers) = logged(k, key)
  <2>1. k \in ExactKinds \cap ServedKinds /\ <<f, 0>> \in FramesOf(k)
    BY <1>2 DEF ExactKinds, Kinds, ServedKinds, FramesOf, MetricKinds
  <2>2. AnswersAre(answers, f, k, key, <<f, 0>>)
    BY <1>2 DEF AnswersAre
  <2>3. PICK frame : frame = <<f, 0>>
    OBVIOUS
  <2>4. "tables" \notin Doubt(k)
    BY <1>2 DEF Doubt, MetricKinds
  <2>5. Gathered(answers) = Pairs(Expected(k, key, frame))
    BY <2>1, <2>2, <2>3, <2>4, <1>1, GatheredIs
  <2> QED BY <2>3, <2>5
<1>3. ASSUME "volume" \in group, NEW t \in Tokens
      PROVE  Gathered([w \in Windows(f) |-> GetAssetVolumeHandler([Query(w, f) EXCEPT !.asset = t])])
               = logged("volume", <<"token", t>>)
  <2> DEFINE H(w) == GetAssetVolumeHandler([Query(w, f) EXCEPT !.asset = t])
             F    == [w \in Windows(f) |-> H(w)]
  <2>1. \A w \in Windows(f) : H(w) = ticks("volume", <<"token", t>>, w)
    BY <1>1, VolumeAnswers, Zenon
  <2> HIDE DEF H, ticks
  <2>2. DOMAIN F = Windows(f) /\ \A w \in Windows(f) : F[w] = ticks("volume", <<"token", t>>, w)
    BY <2>1
  <2> HIDE DEF F, logged
  <2>3. Gathered(F) = logged("volume", <<"token", t>>)
    BY <2>2, <1>2, <1>3
  <2> QED BY <2>3 DEF F, H
<1>4. ASSUME "volume" \in group, NEW u \in Traders
      PROVE  Gathered([w \in Windows(f) |-> GetUserVolumeHandler([Query(w, f) EXCEPT !.userAddr = u])])
               = logged("volume", <<"user", u>>)
  <2> DEFINE H(w) == GetUserVolumeHandler([Query(w, f) EXCEPT !.userAddr = u])
             F    == [w \in Windows(f) |-> H(w)]
  <2>1. \A w \in Windows(f) : H(w) = ticks("volume", <<"user", u>>, w)
    BY <1>1, VolumeAnswers, Zenon
  <2> HIDE DEF H, ticks
  <2>2. DOMAIN F = Windows(f) /\ \A w \in Windows(f) : F[w] = ticks("volume", <<"user", u>>, w)
    BY <2>1
  <2> HIDE DEF F, logged
  <2>3. Gathered(F) = logged("volume", <<"user", u>>)
    BY <2>2, <1>2, <1>4
  <2> QED BY <2>3 DEF F, H
<1>5. ASSUME "volume" \in group, NEW u \in Traders
      PROVE  Gathered([w \in Windows(f) |-> {all[u] : all \in GetUsersVolumeHandler([Query(w, f) EXCEPT !.userAddr = Traders])}])
               = logged("volume", <<"user", u>>)
  <2> DEFINE H(w) == {all[u] : all \in GetUsersVolumeHandler([Query(w, f) EXCEPT !.userAddr = Traders])}
             F    == [w \in Windows(f) |-> H(w)]
  <2>1. \A w \in Windows(f) : H(w) = ticks("volume", <<"user", u>>, w)
    BY <1>1, VolumeAnswers, Zenon
  <2> HIDE DEF H, ticks
  <2>2. DOMAIN F = Windows(f) /\ \A w \in Windows(f) : F[w] = ticks("volume", <<"user", u>>, w)
    BY <2>1
  <2> HIDE DEF F, logged
  <2>3. Gathered(F) = logged("volume", <<"user", u>>)
    BY <2>2, <1>2, <1>5
  <2> QED BY <2>3 DEF F, H
<1>6. ASSUME "volume" \in group, NEW r \in Reserves, NEW t \in Tokens
      PROVE  Gathered([w \in Windows(f) |-> GetReserveVolumeHandler([Query(w, f) EXCEPT !.reserveAddr = r, !.token = t])])
               = logged("volume", <<"reserve", r, t>>)
  <2> DEFINE H(w) == GetReserveVolumeHandler([Query(w, f) EXCEPT !.reserveAddr = r, !.token = t])
             F    == [w \in Windows(f) |-> H(w)]
  <2>1. ASSUME NEW w \in Windows(f) PROVE H(w) = ticks("volume", <<"reserve", r, t>>, w)
    BY <1>1, <1>6, ReserveAnswer, Zenon
  <2> HIDE DEF H, ticks
  <2>2. DOMAIN F = Windows(f) /\ \A w \in Windows(f) : F[w] = ticks("volume", <<"reserve", r, t>>, w)
    BY <2>1
  <2> HIDE DEF F, logged
  <2>3. Gathered(F) = logged("volume", <<"reserve", r, t>>)
    BY <2>2, <1>2, <1>6
  <2> QED BY <2>3 DEF F, H
<1>7. ASSUME "burn" \in group, NEW r \in Reserves
      PROVE  Gathered([w \in Windows(f) |-> GetBurnFeeHandler([Query(w, f) EXCEPT !.reserveAddr = r])])
               = logged("burn", <<"reserve", r>>)
  <2> DEFINE H(w) == GetBurnFeeHandler([Query(w, f) EXCEPT !.reserveAddr = r])
             F    == [w \in Windows(f) |-> H(w)]
  <2>1. \A w \in Windows(f) : H(w) = ticks("burn", <<"reserve", r>>, w)
    BY <1>1, VolumeAnswers, Zenon
  <2> HIDE DEF H, ticks
  <2>2. DOMAIN F = Windows(f) /\ \A w \in Windows(f) : F[w] = ticks("burn", <<"reserve", r>>, w)
    BY <2>1
  <2> HIDE DEF F, logged
  <2>3. Gathered(F) = logged("burn", <<"reserve", r>>)
    BY <2>2, <1>2, <1>7
  <2> QED BY <2>3 DEF F, H
<1>8. ASSUME "burn" \in group, NEW r \in Reserves, NEW a \in Wallets
      PROVE  Gathered([w \in Windows(f) |-> GetWalletFeeHandler([Query(w, f) EXCEPT !.reserveAddr = r, !.walletAddr = a])])
               = logged("burn", <<"fee", r, a>>)
  <2> DEFINE H(w) == GetWalletFeeHandler([Query(w, f) EXCEPT !.reserveAddr = r, !.walletAddr = a])
             F    == [w \in Windows(f) |-> H(w)]
  <2>1. ASSUME NEW w \in Windows(f) PROVE H(w) = ticks("burn", <<"fee", r, a>>, w)
    BY <1>1, <1>8, WalletFeeAnswer, Zenon
  <2> HIDE DEF H, ticks
  <2>2. DOMAIN F = Windows(f) /\ \A w \in Windows(f) : F[w] = ticks("burn", <<"fee", r, a>>, w)
    BY <2>1
  <2> HIDE DEF F, logged
  <2>3. Gathered(F) = logged("burn", <<"fee", r, a>>)
    BY <2>2, <1>2, <1>8
  <2> QED BY <2>3 DEF F, H
<1> QED BY <1>3, <1>4, <1>5, <1>6, <1>7, <1>8, Zenon

\* So do the numbers of users.
LEMMA ExactUsers == StatInv /\ ExactInv => UsersMatchLogs
<1> SUFFICES ASSUME StatInv, ExactInv, NEW z \in Zones
             PROVE  LET logged(k, key)  == Sound(Pairs(Expected(k, key, <<"utc", z>>)))
                        served(answers) == Sound(Gathered(answers))
                    IN  /\ "summary" \in group =>
                             served([w \in Windows("D") |-> GetTradeSummaryHandler(ZoneQuery(w, z))])
                               = logged("summary", <<"trade_summary">>)
                        /\ "wallet" \in group => \A a \in Wallets \ {NoWallet} :
                             served([w \in Windows("D") |-> GetWalletStatsHandler([ZoneQuery(w, z) EXCEPT !.walletAddr = a])])
                               = logged("wallet", <<a>>)
                        /\ "country" \in group /\ "rewound" \notin spoilt => \A c \in Countries :
                             served([w \in Windows("D") |-> GetCountryStatsHandler([ZoneQuery(w, z) EXCEPT !.country = c])])
                               = logged("country", <<c>>)
  BY DEF UsersMatchLogs
<1> DEFINE logged(k, key)   == Sound(Pairs(Expected(k, key, <<"utc", z>>)))
           served(answers)  == Sound(Gathered(answers))
           ticks(k, key, w) == {Ticks(k, key, <<"utc", z>>, w[1] * PerMilli, w[2] * PerMilli)}
<1>1. LogInv /\ BucketInv
  BY DEF StatInv
<1>2. ASSUME NEW k \in MetricKinds, k \in group, k = "country" => "rewound" \notin spoilt, NEW key, NEW answers,
             DOMAIN answers = Windows("D"), \A w \in Windows("D") : answers[w] = ticks(k, key, w)
      PROVE  served(answers) = logged(k, key)
  <2>1. k \in ExactKinds \cap ServedKinds /\ <<"utc", z>> \in FramesOf(k) /\ "D" \in Freqs
    BY <1>2 DEF ExactKinds, Kinds, ServedKinds, FramesOf, MetricKinds, ZoneFrames, Freqs
  <2>2. AnswersAre(answers, "D", k, key, <<"utc", z>>)
    BY <1>2 DEF AnswersAre
  <2> QED BY <2>1, <2>2, <1>1, GatheredIs, Zenon
<1>3. ASSUME "summary" \in group
      PROVE  served([w \in Windows("D") |-> GetTradeSummaryHandler(ZoneQuery(w, z))])
               = logged("summary", <<"trade_summary">>)
  <2> DEFINE H(w) == GetTradeSummaryHandler(ZoneQuery(w, z))
             F    == [w \in Windows("D") |-> H(w)]
  <2>1. \A w \in Windows("D") : H(w) = ticks("summary", <<"trade_summary">>, w)
    BY <1>1, ZoneAnswers, Zenon
  <2> HIDE DEF H, ticks
  <2>2. DOMAIN F = Windows("D") /\ \A w \in Windows("D") : F[w] = ticks("summary", <<"trade_summary">>, w)
    BY <2>1
  <2> HIDE DEF F, logged, served
  <2>3. served(F) = logged("summary", <<"trade_summary">>)
    BY <2>2, <1>2, <1>3 DEF MetricKinds
  <2> QED BY <2>3 DEF F, H
<1>4. ASSUME "wallet" \in group, NEW a \in Wallets \ {NoWallet}
      PROVE  served([w \in Windows("D") |-> GetWalletStatsHandler([ZoneQuery(w, z) EXCEPT !.walletAddr = a])])
               = logged("wallet", <<a>>)
  <2> DEFINE H(w) == GetWalletStatsHandler([ZoneQuery(w, z) EXCEPT !.walletAddr = a])
             F    == [w \in Windows("D") |-> H(w)]
  <2>1. \A w \in Windows("D") : H(w) = ticks("wallet", <<a>>, w)
    BY <1>1, ZoneAnswers, Zenon
  <2> HIDE DEF H, ticks
  <2>2. DOMAIN F = Windows("D") /\ \A w \in Windows("D") : F[w] = ticks("wallet", <<a>>, w)
    BY <2>1
  <2> HIDE DEF F, logged, served
  <2>3. served(F) = logged("wallet", <<a>>)
    BY <2>2, <1>2, <1>4 DEF MetricKinds
  <2> QED BY <2>3 DEF F, H
<1>5. ASSUME "country" \in group, "rewound" \notin spoilt, NEW c \in Countries
      PROVE  served([w \in Windows("D") |-> GetCountryStatsHandler([ZoneQuery(w, z) EXCEPT !.country = c])])
               = logged("country", <<c>>)
  <2> DEFINE H(w) == GetCountryStatsHandler([ZoneQuery(w, z) EXCEPT !.country = c])
             F    == [w \in Windows("D") |-> H(w)]
  <2>1. \A w \in Windows("D") : H(w) = ticks("country", <<c>>, w)
    BY <1>1, ZoneAnswers, Zenon
  <2> HIDE DEF H, ticks
  <2>2. DOMAIN F = Windows("D") /\ \A w \in Windows("D") : F[w] = ticks("country", <<c>>, w)
    BY <2>1
  <2> HIDE DEF F, logged, served
  <2>3. served(F) = logged("country", <<c>>)
    BY <2>2, <1>2, <1>5 DEF MetricKinds
  <2> QED BY <2>3 DEF F, H
<1> QED BY <1>3, <1>4, <1>5, Zenon

(***************************************************************************)
(* The volumes and fees a client collects window by window count every     *)
(* processed trade once under each of its keys, always: the cursor moves   *)
(* with the statistics, in one transaction, and only over trades that were *)
(* counted or were never there.                                            *)
(***************************************************************************)
THEOREM VolumesAlwaysMatch == StatSpec => []VolumesMatchLogs
BY ExactAlways, ExactVolumes, PTL

(***************************************************************************)
(* The summaries, wallet and country statistics always count every         *)
(* processed trade once, and its user at the first trade, as long as every *)
(* write of the tables of first trades succeeded and no trade was passed   *)
(* over unread, the countries until their cursor goes back; the trades are *)
(* counted right even with wrong tables.                                   *)
(***************************************************************************)
THEOREM UsersAlwaysMatch == StatSpec => []UsersMatchLogs
BY ExactAlways, ExactUsers, PTL

------------------------------------------------------------------------------
\* The lists of countries and wallets.

\* The aggregations that list names.  The name of a trade is listed, or it is a
\* wallet that is none or whose listing failed.
ListingKinds == {"country", "wallet"}
Told(k, l)   == NameOf(k, l) \in listed \/ (k = "wallet" /\ l.data.wallet \in {NoWallet} \cup unlisted)

\* The names of processed trades are told, and those of a batch before it is counted.
ListedPart ==
  \A k \in group \cap ListingKinds :
    /\ \A l \in Processed(k) : Told(k, l)
    /\ agg[k].pc = "set" => \A l \in agg[k].batch : Told(k, l)

\* What is told stays told.
LEMMA ToldStays ==
  ASSUME Onward, listed \subseteq listed', NEW k, NEW l, Told(k, l)
  PROVE  Told(k, l)'
BY DEF Told, Onward, NameOf

\* Through a step that counts nothing.
LEMMA ListedQuiet ==
  ASSUME Onward, ListedPart, CountsNothing
  PROVE  ListedPart'
<1>1. group' = group /\ listed' = listed
  BY DEF CountsNothing, Onward, tableVars
<1>2. ASSUME NEW k \in group \cap ListingKinds
      PROVE  /\ \A l \in Processed(k)' : Told(k, l)'
             /\ agg'[k].pc = "set" => \A l \in agg'[k].batch : Told(k, l)'
  <2>1. k \in group \cap Kinds /\ k \in MetricKinds
    BY DEF ListingKinds, Kinds, MetricKinds
  <2>2. Processed(k)' = Processed(k) /\ (agg'[k] = agg[k] \/ agg'[k].pc # "set")
    BY <2>1 DEF CountsNothing
  <2>3. \A l : Told(k, l) => Told(k, l)'
    BY <1>1, ToldStays
  <2>4. \A l \in Processed(k)' : Told(k, l)'
    BY <2>2, <2>3 DEF ListedPart
  <2>5. CASE agg'[k] = agg[k]
    BY <2>3, <2>4, <2>5 DEF ListedPart
  <2> QED BY <2>2, <2>4, <2>5
<1> QED BY <1>1, <1>2 DEF ListedPart

\* The names are listed before a batch is counted.
LEMMA ListedFirsts ==
  ASSUME Onward, AggPart, ListedPart, NEW k \in group \cap Kinds, FirstTrades(k)
  PROVE  ListedPart'
<1>1. /\ UNCHANGED <<tradeLogs, group, cursor, missed, stats>>
      /\ \A j \in group \cap Kinds : j # k => agg'[j] = agg[j]
      /\ agg'[k].pc # "set" \/ k # "country" => agg'[k].batch = agg[k].batch
      /\ agg'[k].pc = "set" => LoadFirstTrades(k)
  BY TablesStep
<1>2. listed \subseteq listed'
  BY DEF FirstTrades, SetFirstTradeEver, SetFirstTradeInDay, LoadFirstTrades
<1>3. ASSUME k \in ListingKinds, agg'[k].pc = "set", NEW l \in agg'[k].batch PROVE Told(k, l)'
  <2>1. PICK done \in SUBSET Named(k, agg[k].batch) :
          /\ agg' = [agg EXCEPT ![k].pc = "set", ![k].ever = firstEver, ![k].batch = IF k = "country" THEN done ELSE @]
          /\ listed' = listed \cup {NameOf(k, m) : m \in done}
          /\ unlisted' = unlisted \cup {NameOf(k, m) : m \in Named(k, agg[k].batch) \ done}
    BY <1>1, <1>3 DEF LoadFirstTrades
  <2>2. CASE l \in done
    BY <2>1, <2>2 DEF Told, NameOf
  <2>3. CASE k = "country"
    <3>1. k \in DOMAIN agg /\ agg[k] \in Rounds(tradeLogs)
      BY DEF AggPart
    <3> DEFINE r == [agg[k] EXCEPT !.pc = "set"]
               s == [r EXCEPT !.ever = firstEver]
    <3>2. agg'[k] = [s EXCEPT !.batch = done]
      BY <2>1, <2>3, <3>1
    <3>3. agg'[k].batch = done
      <4>1. "batch" \in DOMAIN s
        BY <3>1 DEF Rounds
      <4> HIDE DEF s
      <4> QED BY <3>2, <4>1
    <3> HIDE DEF r, s
    <3> QED BY <3>3, <2>2, <1>3
  <2>4. CASE k = "wallet" /\ l \notin done
    <3>1. l \in agg[k].batch
      BY <2>4, <1>1, <1>3
    <3>2. Named(k, agg[k].batch) = SetWalletAddress(agg[k].batch)
      BY <2>4, Zenon DEF Named
    <3>3. l.data.wallet = NoWallet \/ l \in Named(k, agg[k].batch)
      BY <3>1, <3>2 DEF SetWalletAddress, checkWalletAddress
    <3>4. NameOf(k, l) = l.data.wallet
      BY <2>4 DEF NameOf
    <3>5. l.data.wallet = NoWallet \/ l.data.wallet \in unlisted'
      BY <2>1, <2>4, <3>3, <3>4
    <3> QED BY <2>4, <3>5 DEF Told
  <2> QED BY <2>2, <2>3, <2>4, <1>3 DEF ListingKinds
<1>4. ASSUME NEW j \in group \cap ListingKinds
      PROVE  /\ \A l \in Processed(j)' : Told(j, l)'
             /\ agg'[j].pc = "set" => \A l \in agg'[j].batch : Told(j, l)'
  <2>1. Processed(j)' = Processed(j) /\ \A l : Told(j, l) => Told(j, l)'
    BY <1>1, <1>2, ToldStays DEF Processed
  <2>2. CASE j = k
    BY <2>1, <2>2, <1>3 DEF ListedPart
  <2>3. CASE j # k
    <3>1. agg'[j] = agg[j]
      BY <2>3, <1>1 DEF ListingKinds, Kinds
    <3> QED BY <3>1, <2>1 DEF ListedPart
  <2> QED BY <2>2, <2>3
<1> QED BY <1>1, <1>4 DEF ListedPart

\* And a batch that is counted has its names told.
LEMMA ListedStats ==
  ASSUME Onward, AggPart, ExactInv, ListedPart, NEW k \in group \cap Kinds, SetStat(k)
  PROVE  ListedPart'
<1> DEFINE Done == /\ LastCounted(k) = 0 /\ Processed(k) # {} => "rewound" \in spoilt'
                   /\ stats' = WithBatch(k) /\ cursor' = [cursor EXCEPT ![k] = LastCounted(k)]
                   /\ missed' = [missed EXCEPT ![k] = IF LastCounted(k) = 0 THEN {}
                                                      ELSE missed[k] \cup PassedOver(k, LastCounted(k))]
                   /\ spoilt' = spoilt \cup {"rewound"} \/ spoilt' = spoilt
<1>1. /\ UNCHANGED <<tradeLogs, group, listed, unlisted>>
      /\ agg[k].pc = "set" /\ agg' = [agg EXCEPT ![k] = NotRunning]
      /\ Done \/ UNCHANGED <<stats, cursor, missed, spoilt>>
  BY SetStatDoes
<1>2. DOMAIN agg = group \cap Kinds /\ DOMAIN missed = group \cap Kinds /\ DOMAIN cursor = group
  BY DEF AggPart
<1>3. agg'[k].pc = "idle" /\ \A j \in group \cap Kinds : j # k => agg'[j] = agg[j]
  BY <1>1, <1>2 DEF NotRunning
<1>4. \A j \in group \cap Kinds : j # k => Processed(j)' = Processed(j)
  BY <1>1, <1>2 DEF Processed
<1>5. Processed(k)' \subseteq Processed(k) \cup agg[k].batch
  <2>1. CASE UNCHANGED <<stats, cursor, missed, spoilt>>
    BY <2>1, <1>1 DEF Processed
  <2>2. CASE Done
    <3>1. Fits(k)
      BY DEF ExactInv, BatchPart
    <3> QED BY <2>2, <3>1, <1>1, CursorMoves
  <2> QED BY <2>1, <2>2, <1>1
<1>6. \A j, l : Told(j, l)' <=> Told(j, l)
  BY <1>1 DEF Told, NameOf
<1>7. ASSUME NEW j \in group \cap ListingKinds
      PROVE  /\ \A l \in Processed(j)' : Told(j, l)'
             /\ agg'[j].pc = "set" => \A l \in agg'[j].batch : Told(j, l)'
  <2>1. CASE j = k
    BY <2>1, <1>1, <1>3, <1>5, <1>6 DEF ListedPart
  <2>2. CASE j # k
    <3>1. j \in group \cap Kinds
      BY DEF ListingKinds, Kinds
    <3> QED BY <3>1, <2>2, <1>3, <1>4, <1>6 DEF ListedPart
  <2> QED BY <2>1, <2>2
<1> QED BY <1>1, <1>7 DEF ListedPart

\* The names are always told.
LEMMA ListedAlways == StatSpec => [](StatInv /\ ExactInv /\ ListedPart)
<1>1. StatInit => ListedPart
  <2> SUFFICES ASSUME StatInit PROVE ListedPart
    OBVIOUS
  <2>1. agg = [k \in group \cap Kinds |-> NotRunning] /\ tradeLogs = {}
    BY DEF StatInit, AggregationInit, StatLogsInit
  <2>2. ASSUME NEW k \in group \cap ListingKinds PROVE agg[k].pc = "idle" /\ Processed(k) = {}
    BY <2>1 DEF ListingKinds, Kinds, NotRunning, Processed
  <2> QED BY <2>2 DEF ListedPart
<1>2. StatInv /\ ExactInv /\ ListedPart /\ [StatNext]_statVars => ListedPart'
  <2> SUFFICES ASSUME StatInv, ExactInv, ListedPart, [StatNext]_statVars PROVE ListedPart'
    OBVIOUS
  <2>1. AggPart /\ Onward
    BY OnwardStep DEF StatInv
  <2>2. CASE Elsewhere
    BY <2>1, <2>2, ElsewhereQuiet, ListedQuiet
  <2>3. ASSUME NEW k \in group \cap Kinds, ReadTrades(k) PROVE ListedPart'
    BY <2>1, <2>3, ReadsQuiet, ListedQuiet
  <2>4. ASSUME NEW k \in group \cap Kinds, FirstTrades(k) PROVE ListedPart'
    BY <2>1, <2>4, ListedFirsts
  <2>5. ASSUME NEW k \in group \cap Kinds, SetStat(k) PROVE ListedPart'
    BY <2>1, <2>5, ListedStats
  <2> QED BY <2>2, <2>3, <2>4, <2>5, StepKinds
<1> QED BY <1>1, <1>2, ExactAlways, PTL DEF StatSpec

------------------------------------------------------------------------------
\* Sums over the buckets of a window.

\* The bucket of time of a trade: that of the user list is truncated twice.
BucketOf(k, l, f) ==
  IF k = "user" THEN TimestampByFreq(TimestampFor(Timestamp(l), f), f) ELSE TimestampFor(Timestamp(l), f)

LEMMA OneBucket ==
  ASSUME NEW k \in Kinds, NEW l, NEW c \in CellsOf(k, l)
  PROVE  c = <<k, c[2], c[3], BucketOf(k, l, c[3])>>
<1>1. CASE k = "user"
  <2> DEFINE B(f) == BucketOf(k, l, f)
  <2>1. CellsOf(k, l) = {<<k, <<l.data.user>>, f, B(f)>> : f \in ZoneFrames}
    BY <1>1 DEF CellsOf, aggregateUserInfo, BucketOf
  <2> HIDE DEF B
  <2>2. PICK f \in ZoneFrames : c = <<k, <<l.data.user>>, f, B(f)>>
    BY <2>1
  <2>3. c[2] = <<l.data.user>> /\ c[3] = f
    BY <2>2
  <2>4. c = <<k, c[2], c[3], B(c[3])>>
    BY <2>2, <2>3
  <2> QED BY <2>4 DEF B
<1>2. CASE k # "user"
  <2>1. k \in ServedKinds
    BY <1>2 DEF ServedKinds, Kinds, MetricKinds
  <2> QED BY <2>1, <1>2, CellShape DEF BucketOf
<1> QED BY <1>1, <1>2

\* The processed trades counted under a key, in a range of time.
TradesIn(k, key, f, from, to) ==
  {l \in Processed(k) : \E c \in CellsOf(k, l) : c[2] = key /\ c[3] = f /\ from <= c[4] /\ c[4] <= to}

\* The ticks of a key add up to them.
TicksCount(k, key, f, from, to) ==
  /\ Totals(Ticks(k, key, f, from, to)).trades = Cardinality(TradesIn(k, key, f, from, to))
  /\ DOMAIN Ticks(k, key, f, from, to) = {} <=> TradesIn(k, key, f, from, to) = {}

LEMMA TicksAddUp ==
  ASSUME ExactInv, IsFiniteSet(tradeLogs), NEW k \in ExactKinds, NEW key, NEW f, NEW from, NEW to
  PROVE  TicksCount(k, key, f, from, to)
<1> DEFINE T       == Ticks(k, key, f, from, to)
           all     == TradesIn(k, key, f, from, to)
           cell(b) == <<k, key, f, b>>
           cells   == {c \in DOMAIN stats : c[1] = k /\ c[2] = key /\ c[3] = f /\ from <= c[4] /\ c[4] <= to}
           g       == [b \in DOMAIN T |-> T[b].trades]
           part    == [b \in DOMAIN T |-> InCell(cell(b))]
<1>1. k \in Kinds
  BY DEF ExactKinds
<1>2. /\ \A c \in DOMAIN stats : c[1] \in ExactKinds => InCell(c) # {} /\ SameCell(Doubt(c[1]), stats[c], CellOf(c))
      /\ \A l \in Processed(k) : CellsOf(k, l) \subseteq DOMAIN stats
  BY DEF ExactInv, CellPart
<1>3. DOMAIN T = {c[4] : c \in cells} /\ \A b \in DOMAIN T : T[b] = stats[cell(b)]
  <2>1. T = [b \in {c[4] : c \in cells} |-> stats[cell(b)]]
    BY DEF Ticks
  <2> HIDE DEF T, cells, cell
  <2> QED BY <2>1
<1>4. ASSUME NEW b PROVE InCell(cell(b)) = {l \in Processed(k) : cell(b) \in CellsOf(k, l)}
  <2>1. cell(b)[1] = k
    OBVIOUS
  <2> HIDE DEF cell
  <2> QED BY <2>1 DEF InCell, Here
<1>5. ASSUME NEW b, NEW l \in InCell(cell(b)) PROVE b = BucketOf(k, l, f)
  <2>1. l \in Processed(k) /\ cell(b) \in CellsOf(k, l)
    BY <1>4
  <2>2. cell(b) = <<k, cell(b)[2], cell(b)[3], BucketOf(k, l, cell(b)[3])>>
    BY <2>1, <1>1, OneBucket
  <2>3. cell(b)[3] = f /\ cell(b)[4] = b
    OBVIOUS
  <2> QED BY <2>2, <2>3
<1>6. ASSUME NEW c \in cells PROVE c = cell(c[4])
  <2>1. InCell(c) # {} /\ c[1] = k /\ c[2] = key /\ c[3] = f
    BY <1>2
  <2>2. PICK l \in Processed(k) : c \in CellsOf(k, l)
    BY <2>1 DEF InCell, Here
  <2>3. c = <<k, c[2], c[3], BucketOf(k, l, c[3])>>
    BY <2>2, <1>1, OneBucket
  <2> QED BY <2>1, <2>3
<1>7. ASSUME NEW b \in DOMAIN T
      PROVE  /\ InCell(cell(b)) # {} /\ T[b].trades = Cardinality(InCell(cell(b)))
             /\ InCell(cell(b)) \subseteq all
  <2>1. PICK c \in cells : c[4] = b
    BY <1>3
  <2>2. cell(b) \in cells
    BY <2>1, <1>6
  <2>3. cell(b) \in DOMAIN stats /\ cell(b)[1] = k /\ cell(b)[2] = key /\ cell(b)[3] = f /\ cell(b)[4] = b
        /\ from <= b /\ b <= to
    BY <2>2
  <2>4. InCell(cell(b)) # {} /\ T[b].trades = CellOf(cell(b)).trades
    <3> HIDE DEF cell, T
    <3> QED BY <2>3, <1>2, <1>3 DEF SameCell
  <2>5. CellOf(cell(b)).trades = Cardinality(InCell(cell(b)))
    <3> HIDE DEF cell
    <3> QED BY DEF CellOf, CountOf
  <2>6. InCell(cell(b)) \subseteq all
    <3> HIDE DEF cell
    <3> QED BY <2>3, <1>4 DEF TradesIn
  <2> QED BY <2>4, <2>5, <2>6
<1>8. ASSUME NEW l \in all PROVE \E b \in DOMAIN T : l \in InCell(cell(b))
  <2>1. PICK c \in CellsOf(k, l) : c[2] = key /\ c[3] = f /\ from <= c[4] /\ c[4] <= to
    BY DEF TradesIn
  <2>2. l \in Processed(k)
    BY DEF TradesIn
  <2>3. c[1] = k /\ c \in DOMAIN stats
    <3>1. c = <<k, c[2], c[3], BucketOf(k, l, c[3])>>
      BY <1>1, OneBucket
    <3> QED BY <3>1, <2>2, <1>2
  <2>4. c \in cells
    BY <2>1, <2>3
  <2>5. c[4] \in DOMAIN T /\ c = cell(c[4])
    BY <2>4, <1>3, <1>6
  <2>6. l \in InCell(cell(c[4]))
    BY <2>2, <2>5, <1>4
  <2> QED BY <2>5, <2>6
<1> HIDE DEF T, all, cell, cells
<1>9. IsFiniteSet(all)
  <2>1. all \subseteq tradeLogs
    BY DEF all, TradesIn, Processed
  <2> QED BY <2>1, FS_Subset
<1>10. IsFiniteSet(DOMAIN T)
  <2> DEFINE h     == [l \in all |-> BucketOf(k, l, f)]
             image == {h[l] : l \in all}
  <2>0. DOMAIN h = all
    OBVIOUS
  <2>1. IsFiniteSet(image)
    <3> HIDE DEF h
    <3> QED BY <2>0, <1>9, FiniteValues
  <2>2. ASSUME NEW b \in DOMAIN T PROVE b \in image
    <3>1. PICK l : l \in InCell(cell(b))
      BY <1>7
    <3>2. l \in all /\ b = BucketOf(k, l, f)
      BY <3>1, <1>5, <1>7
    <3> QED BY <3>2
  <2> HIDE DEF image
  <2> QED BY <2>1, <2>2, FS_Subset
<1>11. SumFunction(g) = Cardinality(all)
  <2>1. DOMAIN g = DOMAIN T
    OBVIOUS
  <2>2. \A x \in DOMAIN g : part[x] \subseteq all /\ g[x] = Cardinality(part[x])
    BY <1>7
  <2>3. \A x, y \in DOMAIN g : x # y => part[x] \cap part[y] = {}
    BY <1>5
  <2>4. \A a \in all : \E x \in DOMAIN g : a \in part[x]
    BY <1>8
  <2> HIDE DEF g, part
  <2> QED BY <2>1, <2>2, <2>3, <2>4, <1>9, <1>10, SumOfParts
<1>12. Totals(T).trades = SumFunction(g)
  BY DEF Totals
<1>13. DOMAIN T = {} <=> all = {}
  BY <1>7, <1>8
<1> QED BY <1>11, <1>12, <1>13 DEF TicksCount, T, all

\* Totals of names whose keys split the trades of a window.
Splits(k, keyOf, f, from, to, all) ==
  /\ \A n \in DOMAIN keyOf : TradesIn(k, keyOf[n], f, from, to) \subseteq all
  /\ \A n, m \in DOMAIN keyOf :
       n # m => TradesIn(k, keyOf[n], f, from, to) \cap TradesIn(k, keyOf[m], f, from, to) = {}
  /\ \A l \in all : \E n \in DOMAIN keyOf : l \in TradesIn(k, keyOf[n], f, from, to)

\* A map with the totals of the names that have any.
HasTotals(map, k, keyOf, f, from, to) ==
  /\ DOMAIN map = {n \in DOMAIN keyOf : DOMAIN Ticks(k, keyOf[n], f, from, to) # {}}
  /\ \A n \in DOMAIN map : map[n] = Totals(Ticks(k, keyOf[n], f, from, to)).trades

LEMMA NamesAddUp ==
  ASSUME ExactInv, IsFiniteSet(tradeLogs), NEW k \in ExactKinds, NEW keyOf, NEW f, NEW from, NEW to,
         NEW all, all \subseteq tradeLogs, Splits(k, keyOf, f, from, to, all),
         NEW map, HasTotals(map, k, keyOf, f, from, to)
  PROVE  SumFunction(map) = Cardinality(all)
<1> DEFINE in(n) == TradesIn(k, keyOf[n], f, from, to)
           part  == [n \in DOMAIN map |-> in(n)]
<1>1. \A key : TicksCount(k, key, f, from, to)
  BY TicksAddUp
<1>2. DOMAIN map = {n \in DOMAIN keyOf : in(n) # {}} /\ \A n \in DOMAIN map : map[n] = Cardinality(in(n))
  BY <1>1 DEF TicksCount, HasTotals
<1>3. /\ \A n \in DOMAIN keyOf : in(n) \subseteq all
      /\ \A n, m \in DOMAIN keyOf : n # m => in(n) \cap in(m) = {}
      /\ \A l \in all : \E n \in DOMAIN keyOf : l \in in(n)
  BY DEF Splits
<1> HIDE DEF in
<1>4. IsFiniteSet(all)
  BY FS_Subset
<1>5. IsFiniteSet(DOMAIN map)
  <2> DEFINE h     == [l \in all |-> CHOOSE n \in DOMAIN keyOf : l \in in(n)]
             image == {h[l] : l \in all}
  <2>1. DOMAIN h = all
    OBVIOUS
  <2>2. ASSUME NEW n \in DOMAIN map PROVE n \in image
    <3>1. PICK l \in all : l \in in(n)
      BY <1>2, <1>3
    <3>2. h[l] \in DOMAIN keyOf /\ l \in in(h[l])
      BY <1>3
    <3>3. h[l] = n
      <4> HIDE DEF h
      <4> QED BY <3>1, <3>2, <1>2, <1>3
    <3> HIDE DEF h
    <3> QED BY <3>3
  <2>3. IsFiniteSet(image)
    <3> HIDE DEF h
    <3> QED BY <2>1, <1>4, FiniteValues
  <2> HIDE DEF image
  <2> QED BY <2>2, <2>3, FS_Subset
<1>6. \A n \in DOMAIN map : part[n] \subseteq all /\ map[n] = Cardinality(part[n])
  BY <1>2, <1>3
<1>7. \A n, m \in DOMAIN map : n # m => part[n] \cap part[m] = {}
  BY <1>2, <1>3
<1>8. \A l \in all : \E n \in DOMAIN map : l \in part[n]
  BY <1>2, <1>3
<1> HIDE DEF part
<1> QED BY <1>4, <1>5, <1>6, <1>7, <1>8, SumOfParts

\* The keys of a trade.
LEMMA KeysOfTrade ==
  ASSUME NEW l
  PROVE  /\ \A c \in CellsOf("country", l) : c[2] = <<l.country>>
         /\ \A c \in CellsOf("user", l) : c[2] = <<l.data.user>>
         /\ \A c \in CellsOf("volume", l) :
              /\ \A x, t : c[2] = <<"heat", x, t>> => x = l.country /\ t = AssetOf(l)
              /\ \E d \in CellsOf("volume", l) : d[2] = <<"heat", l.country, AssetOf(l)>> /\ d[3] = c[3] /\ d[4] = c[4]
<1>1. \A c \in CellsOf("country", l) : c[2] = <<l.country>>
  BY DEF CellsOf, aggregateCountryStats, MetricCells
<1>2. \A c \in CellsOf("user", l) : c[2] = <<l.data.user>>
  BY DEF CellsOf, aggregateUserInfo
<1>3. ASSUME NEW c \in CellsOf("volume", l)
      PROVE  /\ \A x, t : c[2] = <<"heat", x, t>> => x = l.country /\ t = AssetOf(l)
             /\ \E d \in CellsOf("volume", l) : d[2] = <<"heat", l.country, AssetOf(l)>> /\ d[3] = c[3] /\ d[4] = c[4]
  <2> DEFINE heat == <<"heat", l.country, AssetOf(l)>>
             keys == {<<"token", l.data.src>>, <<"token", l.data.dst>>, <<"user", l.data.user>>,
                      <<"reserve", l.data.reserve, AssetOf(l)>>, <<"reserve", l.data.reserve, ETH>>, heat}
             T(f) == TimestampFor(Timestamp(l), f)
  <2>1. CellsOf("volume", l) = UNION {{<<"volume", key, <<f, 0>>, T(<<f, 0>>)>> : f \in Freqs} : key \in keys}
    BY DEF CellsOf, aggregateVolumeStats, aggregateVolumeStat
  <2>2. \A key \in keys : key # heat => key[1] # "heat"
    OBVIOUS
  <2>3. heat \in keys
    OBVIOUS
  <2> HIDE DEF keys, T, heat
  <2>4. PICK key \in keys : \E f \in Freqs : c = <<"volume", key, <<f, 0>>, T(<<f, 0>>)>>
    BY <2>1
  <2>5. PICK f \in Freqs : c = <<"volume", key, <<f, 0>>, T(<<f, 0>>)>>
    BY <2>4
  <2>6. ASSUME NEW x, NEW t, c[2] = <<"heat", x, t>> PROVE x = l.country /\ t = AssetOf(l)
    <3>1. key = <<"heat", x, t>>
      BY <2>5, <2>6
    <3>2. key[1] = "heat"
      BY <3>1
    <3>3. key = heat
      BY <3>2, <2>2
    <3>4. <<"heat", x, t>> = <<"heat", l.country, AssetOf(l)>>
      BY <3>1, <3>3 DEF heat
    <3> QED BY <3>4
  <2>7. \E d \in CellsOf("volume", l) : d[2] = heat /\ d[3] = c[3] /\ d[4] = c[4]
    <3> DEFINE d == <<"volume", heat, <<f, 0>>, T(<<f, 0>>)>>
    <3>1. d \in CellsOf("volume", l)
      BY <2>1, <2>3
    <3>2. d[2] = heat /\ d[3] = c[3] /\ d[4] = c[4]
      BY <2>5
    <3> HIDE DEF d
    <3> QED BY <3>1, <3>2
  <2> QED BY <2>6, <2>7 DEF heat
<1> QED BY <1>1, <1>2, <1>3

\* The trades of a window are split by their countries or users.
LEMMA CountrySplits ==
  ASSUME NEW names, NEW f, NEW w, \A l \in Processed("country") : l.country \in names
  PROVE  Splits("country", [n \in names |-> <<n>>], f, w[1] * PerMilli, w[2] * PerMilli, InWindow("country", f, w))
<1> DEFINE from  == w[1] * PerMilli
           to    == w[2] * PerMilli
           all   == InWindow("country", f, w)
           keyOf == [n \in names |-> <<n>>]
           in(n) == TradesIn("country", <<n>>, f, from, to)
<1>1. DOMAIN keyOf = names /\ \A n \in names : keyOf[n] = <<n>>
  OBVIOUS
<1>2. ASSUME NEW n PROVE in(n) = {l \in all : l.country = n}
  <2>1. \A l : \A c \in CellsOf("country", l) : c[2] = <<n>> <=> l.country = n
    BY KeysOfTrade
  <2> QED BY <2>1 DEF TradesIn, InWindow
<1>3. \A l \in all : l.country \in names
  BY DEF InWindow
<1> HIDE DEF keyOf, in, all
<1>4. /\ \A n \in DOMAIN keyOf : in(n) \subseteq all
      /\ \A n, m \in DOMAIN keyOf : n # m => in(n) \cap in(m) = {}
      /\ \A l \in all : \E n \in DOMAIN keyOf : l \in in(n)
  BY <1>1, <1>2, <1>3
<1>5. \A n \in DOMAIN keyOf : in(n) = TradesIn("country", keyOf[n], f, from, to)
  BY <1>1 DEF in
<1> HIDE DEF from, to
<1>6. Splits("country", keyOf, f, from, to, all)
  BY <1>4, <1>5 DEF Splits
<1> QED BY <1>6 DEF keyOf, all, from, to

LEMMA UserSplits ==
  ASSUME NEW names, NEW f, NEW w, \A l \in Processed("user") : l.data.user \in names
  PROVE  Splits("user", [n \in names |-> <<n>>], f, w[1] * PerMilli, w[2] * PerMilli, InWindow("user", f, w))
<1> DEFINE from  == w[1] * PerMilli
           to    == w[2] * PerMilli
           all   == InWindow("user", f, w)
           keyOf == [n \in names |-> <<n>>]
           in(n) == TradesIn("user", <<n>>, f, from, to)
<1>1. DOMAIN keyOf = names /\ \A n \in names : keyOf[n] = <<n>>
  OBVIOUS
<1>2. ASSUME NEW n PROVE in(n) = {l \in all : l.data.user = n}
  <2>1. \A l : \A c \in CellsOf("user", l) : c[2] = <<n>> <=> l.data.user = n
    BY KeysOfTrade
  <2> QED BY <2>1 DEF TradesIn, InWindow
<1>3. \A l \in all : l.data.user \in names
  BY DEF InWindow
<1> HIDE DEF keyOf, in, all
<1>4. /\ \A n \in DOMAIN keyOf : in(n) \subseteq all
      /\ \A n, m \in DOMAIN keyOf : n # m => in(n) \cap in(m) = {}
      /\ \A l \in all : \E n \in DOMAIN keyOf : l \in in(n)
  BY <1>1, <1>2, <1>3
<1>5. \A n \in DOMAIN keyOf : in(n) = TradesIn("user", keyOf[n], f, from, to)
  BY <1>1 DEF in
<1> HIDE DEF from, to
<1>6. Splits("user", keyOf, f, from, to, all)
  BY <1>4, <1>5 DEF Splits
<1> QED BY <1>6 DEF keyOf, all, from, to

TokenTrades(f, w, t) ==
  {l \in InWindow("volume", f, w) : AssetOf(l) = t /\ (l \in missed["country"] => l.country \in StoredCountries)}
TokenKeys(names, t)  == [n \in names |-> <<"heat", n, t>>]

LEMMA TokenSplits ==
  ASSUME NEW f, NEW w, NEW t, \A l \in TokenTrades(f, w, t) : l.country \in StoredCountries
  PROVE  Splits("volume", TokenKeys(StoredCountries, t), f, w[1] * PerMilli, w[2] * PerMilli, TokenTrades(f, w, t))
<1> DEFINE from  == w[1] * PerMilli
           to    == w[2] * PerMilli
           all   == TokenTrades(f, w, t)
           names == StoredCountries
           keyOf == [n \in names |-> <<"heat", n, t>>]
           in(n) == TradesIn("volume", <<"heat", n, t>>, f, from, to)
<1>1. DOMAIN keyOf = names /\ \A n \in names : keyOf[n] = <<"heat", n, t>>
  OBVIOUS
<1>2. ASSUME NEW n \in names, NEW l \in in(n) PROVE l \in all /\ l.country = n
  <2>1. l \in Processed("volume") /\ \E c \in CellsOf("volume", l) :
          c[2] = <<"heat", n, t>> /\ c[3] = f /\ from <= c[4] /\ c[4] <= to
    BY DEF TradesIn
  <2>2. PICK c \in CellsOf("volume", l) : c[2] = <<"heat", n, t>> /\ c[3] = f /\ from <= c[4] /\ c[4] <= to
    BY <2>1
  <2>3. n = l.country /\ t = AssetOf(l)
    BY <2>2, KeysOfTrade
  <2>4. l \in InWindow("volume", f, w)
    BY <2>1, <2>2 DEF InWindow
  <2> QED BY <2>3, <2>4 DEF TokenTrades
<1>3. ASSUME NEW l \in all PROVE l \in in(l.country) /\ l.country \in names
  <2>1. l \in Processed("volume") /\ AssetOf(l) = t
    BY DEF TokenTrades, InWindow
  <2>2. PICK c \in CellsOf("volume", l) : c[3] = f /\ from <= c[4] /\ c[4] <= to
    BY DEF TokenTrades, InWindow
  <2>3. PICK d \in CellsOf("volume", l) : d[2] = <<"heat", l.country, AssetOf(l)>> /\ d[3] = c[3] /\ d[4] = c[4]
    BY KeysOfTrade
  <2>4. d[2] = <<"heat", l.country, t>> /\ d[3] = f /\ from <= d[4] /\ d[4] <= to
    BY <2>1, <2>2, <2>3
  <2> QED BY <2>1, <2>4 DEF TradesIn
<1> HIDE DEF keyOf, in, all, names
<1>4. /\ \A n \in DOMAIN keyOf : in(n) \subseteq all
      /\ \A n, m \in DOMAIN keyOf : n # m => in(n) \cap in(m) = {}
      /\ \A l \in all : \E n \in DOMAIN keyOf : l \in in(n)
  BY <1>1, <1>2, <1>3
<1>5. \A n \in DOMAIN keyOf : in(n) = TradesIn("volume", keyOf[n], f, from, to)
  BY <1>1 DEF in
<1> HIDE DEF from, to
<1>6. Splits("volume", keyOf, f, from, to, all)
  BY <1>4, <1>5 DEF Splits
<1> QED BY <1>6 DEF keyOf, all, from, to, names, TokenKeys

------------------------------------------------------------------------------
\* The answers that add up.

\* The windows of a day are accepted too where three years are.
LEMMA DaysServed ==
  ASSUME LogInv, BucketInv, NEW w \in Windows("M") \cup Windows("D")
  PROVE  /\ w[1] \in Nat /\ w[2] \in Nat /\ w[2] # 0
         /\ validateTimeWindow(w[1], w[2], "D") = {<<w[1] * PerMilli, w[2] * PerMilli>>}
<1>0. "M" \in Freqs /\ "D" \in Freqs
  BY DEF Freqs
<1>1. CASE w \in Windows("D")
  BY <1>0, <1>1, WindowsServed
<1>2. CASE w \in Windows("M")
  <2>1. /\ w[1] \in Nat /\ w[2] \in Nat /\ w[2] # 0
        /\ validateTimeWindow(w[1], w[2], "M") = {<<w[1] * PerMilli, w[2] * PerMilli>>}
    BY <1>0, <1>2, WindowsServed
  <2> DEFINE V == {<<(w[1] * PerMilli) % WordSize, (w[2] * PerMilli) % WordSize>>}
             N(v) == (WordSize + v[2] - v[1]) % WordSize
  <2>2. Day \in Nat /\ WordSize \in Nat /\ WordSize > 0 /\ PerMilli \in Nat
    BY LogsInTime, LogNumbers, QueriesAssumption
  <2>3. WindowLimit = [M |-> Day, H |-> 180 * Day, D |-> 3 * 365 * Day]
    BY DEF WindowLimit
  <2>4. WindowLimit["M"] = Day /\ WindowLimit["D"] = 1095 * Day /\ "M" \in DOMAIN WindowLimit /\ "D" \in DOMAIN WindowLimit
    BY <2>3
  <2>5. validateTimeWindow(w[1], w[2], "M") = {v \in V : N(v) <= Day}
    BY <2>4 DEF validateTimeWindow
  <2>6. validateTimeWindow(w[1], w[2], "D") = {v \in V : N(v) <= 1095 * Day}
    BY <2>4 DEF validateTimeWindow
  <2>7. \A v \in V : N(v) \in Int
    BY <2>1, <2>2
  <2> HIDE DEF N, V
  <2>8. \A v \in V : N(v) <= Day => N(v) <= 1095 * Day
    BY <2>2, <2>7
  <2>9. PICK v : V = {v}
    BY DEF V
  <2> DEFINE one == <<w[1] * PerMilli, w[2] * PerMilli>>
  <2>10. {x \in V : N(x) <= Day} = {one}
    BY <2>1, <2>5
  <2> HIDE DEF one
  <2>11. v = one /\ N(v) <= Day
    BY <2>9, <2>10
  <2>12. {x \in V : N(x) <= 1095 * Day} = {one}
    BY <2>8, <2>9, <2>11
  <2> QED BY <2>1, <2>6, <2>12 DEF one
<1> QED BY <1>1, <1>2

\* The heat map of the countries.
LEMMA HeatMapAnswer ==
  ASSUME LogInv, BucketInv, NEW z \in Zones, NEW w \in Windows("M") \cup Windows("D")
  PROVE  \E map \in GetHeatMapHandler(ZoneQuery(w, z)) :
           HasTotals([c \in DOMAIN map |-> map[c].trades], "country", [n \in StoredCountries |-> <<n>>],
                     <<"utc", z>>, w[1] * PerMilli, w[2] * PerMilli)
<1> DEFINE A == w[1] * PerMilli
           B == w[2] * PerMilli
<1>1. /\ w[1] \in Nat /\ w[2] \in Nat /\ w[2] # 0
      /\ validateTimeWindow(w[1], w[2], "D") = {<<A, B>>}
  BY DaysServed
<1>2. NoParam \notin Int
  BY ServerAssumption
<1>3. w[1] # NoParam /\ OrNow(w[2]) = w[2]
  BY <1>1, <1>2 DEF ParseUint, OrNow
<1>4. z \in -11 .. 14 /\ z \in Int
  <2>1. Zones \subseteq -11 .. 14
    BY AggregationAssumption, Zenon
  <2> QED BY <2>1
<1> DEFINE v    == <<A, B>>
           i    == <<w[1], w[2], z>>
           q    == ZoneQuery(w, z)
           T(c) == Ticks("country", <<c>>, <<"utc", z>>, A, B)
           map  == [c \in {d \in StoredCountries : DOMAIN T(d) # {}} |-> Totals(T(c))]
<1>5. q.fromTime = w[1] /\ q.toTime = w[2] /\ q.timeZone = z
  BY DEF ZoneQuery, Query
<1>6. v[1] = A /\ v[2] = B /\ i[1] = w[1] /\ i[2] = w[2] /\ i[3] = z
  OBVIOUS
<1> HIDE DEF q
<1>7. InZone(q) = {i}
  <2>1. ValidateTimeInput(q) = {<<w[1], w[2]>>}
    BY <1>3, <1>5 DEF ValidateTimeInput
  <2>2. ParseUint(q.timeZone) = z
    BY <1>2, <1>4, <1>5 DEF ParseUint
  <2>3. InZone(q) = {<<t[1], t[2], z>> : t \in ValidateTimeInput(q)}
    BY <2>2, <1>4 DEF InZone
  <2> QED BY <2>1, <2>3
<1> HIDE DEF i
<1>8. GetHeatMapHandler(q) = GetHeatMap(w[1], w[2], z)
  BY <1>6, <1>7 DEF GetHeatMapHandler
<1>9. \A c : StoredCountryStats(v, c, z) = T(c)
  BY <1>6 DEF StoredCountryStats
<1>10. GetHeatMap(w[1], w[2], z) =
         {[c \in {d \in StoredCountries : DOMAIN StoredCountryStats(x, d, z) # {}} |-> Totals(StoredCountryStats(x, c, z))]
            : x \in {v}}
  BY <1>1 DEF GetHeatMap, Within, OfCountries
<1> HIDE DEF v, T
<1>11. map \in GetHeatMapHandler(q)
  BY <1>8, <1>9, <1>10
<1> DEFINE m     == [c \in DOMAIN map |-> map[c].trades]
           keyOf == [n \in StoredCountries |-> <<n>>]
<1>12. DOMAIN keyOf = StoredCountries /\ \A n \in StoredCountries : keyOf[n] = <<n>>
  OBVIOUS
<1>13. DOMAIN m = {n \in StoredCountries : DOMAIN T(n) # {}} /\ \A n \in DOMAIN m : m[n] = Totals(T(n)).trades
  OBVIOUS
<1> HIDE DEF map
<1>14. HasTotals(m, "country", keyOf, <<"utc", z>>, A, B)
  <2>1. \A n \in StoredCountries : T(n) = Ticks("country", keyOf[n], <<"utc", z>>, A, B)
    BY <1>12 DEF T
  <2> HIDE DEF m, keyOf, T, A, B
  <2> QED BY <2>1, <1>12, <1>13 DEF HasTotals
<1> QED BY <1>11, <1>14 DEF q

\* The heat map of a token.
LEMMA TokenMapAnswer ==
  ASSUME LogInv, BucketInv, NEW f \in Freqs, NEW t \in Tokens, NEW w \in Windows("M") \cup Windows("D")
  PROVE  \E map \in GetTokenHeatmapHandler([Query(w, f) EXCEPT !.token = t]) :
           HasTotals([c \in DOMAIN map |-> map[c].trades], "volume", TokenKeys(StoredCountries, t),
                     <<f, 0>>, w[1] * PerMilli, w[2] * PerMilli)
<1> DEFINE A == w[1] * PerMilli
           B == w[2] * PerMilli
<1>1. /\ w[1] \in Nat /\ w[2] \in Nat /\ w[2] # 0
      /\ validateTimeWindow(w[1], w[2], "D") = {<<A, B>>}
  BY DaysServed
<1>2. NoParam \notin Int /\ NoParam # t
  BY ServerAssumption
<1>3. w[1] # NoParam /\ OrNow(w[2]) = w[2]
  BY <1>1, <1>2 DEF ParseUint, OrNow
<1> DEFINE v    == <<A, B>>
           i    == <<w[1], w[2]>>
           q    == [Query(w, f) EXCEPT !.token = t]
           T(c) == Ticks("volume", <<"heat", c, t>>, <<f, 0>>, A, B)
           map  == [c \in {d \in StoredCountries : DOMAIN T(d) # {}} |-> Totals(T(c))]
<1>4. q.fromTime = w[1] /\ q.toTime = w[2] /\ q.freq = f /\ q.token = t
  BY DEF Query
<1>5. v[1] = A /\ v[2] = B /\ i[1] = w[1] /\ i[2] = w[2]
  OBVIOUS
<1> HIDE DEF q
<1>6. ValidateTimeInput(q) = {i}
  BY <1>3, <1>4 DEF ValidateTimeInput
<1> HIDE DEF i
<1>7. GetTokenHeatmapHandler(q) = GetTokenHeatmap(w[1], w[2], t, f)
  BY <1>2, <1>4, <1>5, <1>6 DEF GetTokenHeatmapHandler
<1>8. \A c : StoredTokenHeatmap(v, f, c, t) = T(c)
  BY <1>5 DEF StoredTokenHeatmap
<1>9. GetTokenHeatmap(w[1], w[2], t, f) =
         {[c \in {d \in StoredCountries : DOMAIN StoredTokenHeatmap(x, f, d, t) # {}} |-> Totals(StoredTokenHeatmap(x, f, c, t))]
            : x \in {v}}
  BY <1>1 DEF GetTokenHeatmap, Supported, Within, OfCountries
<1> HIDE DEF v, T
<1>10. map \in GetTokenHeatmapHandler(q)
  BY <1>7, <1>8, <1>9
<1> DEFINE m     == [c \in DOMAIN map |-> map[c].trades]
           keyOf == TokenKeys(StoredCountries, t)
<1>11. DOMAIN keyOf = StoredCountries /\ \A n \in StoredCountries : keyOf[n] = <<"heat", n, t>>
  BY DEF TokenKeys
<1>12. DOMAIN m = {n \in StoredCountries : DOMAIN T(n) # {}} /\ \A n \in DOMAIN m : m[n] = Totals(T(n)).trades
  OBVIOUS
<1> HIDE DEF map
<1>13. HasTotals(m, "volume", keyOf, <<f, 0>>, A, B)
  <2>1. \A n \in StoredCountries : T(n) = Ticks("volume", keyOf[n], <<f, 0>>, A, B)
    BY <1>11 DEF T
  <2> HIDE DEF m, keyOf, T, A, B
  <2> QED BY <2>1, <1>11, <1>12 DEF HasTotals
<1> QED BY <1>10, <1>13 DEF q

\* The list of the users.
ListedUsers == {c[2][1] : c \in {d \in DOMAIN stats : d[1] = "user"}}

LEMMA UserListAnswer ==
  ASSUME LogInv, BucketInv, NEW z \in Zones, NEW w \in Windows("M") \cup Windows("D")
  PROVE  \E list \in GetUserListHandler(ZoneQuery(w, z)) :
           HasTotals(list, "user", [n \in ListedUsers |-> <<n>>], <<"utc", z>>, w[1] * PerMilli, w[2] * PerMilli)
<1> DEFINE A == w[1] * PerMilli
           B == w[2] * PerMilli
<1>1. /\ w[1] \in Nat /\ w[2] \in Nat /\ w[2] # 0
      /\ validateTimeWindow(w[1], w[2], "D") = {<<A, B>>}
  BY DaysServed
<1>2. NoParam \notin Int
  BY ServerAssumption
<1>3. w[1] # NoParam /\ OrNow(w[2]) = w[2]
  BY <1>1, <1>2 DEF ParseUint, OrNow
<1>4. z # NoParam
  <2>1. Zones \subseteq -11 .. 14
    BY AggregationAssumption, Zenon
  <2> QED BY <2>1, <1>2
<1> DEFINE v    == <<A, B>>
           i    == <<w[1], w[2]>>
           q    == ZoneQuery(w, z)
           T(u) == Ticks("user", <<u>>, <<"utc", z>>, A, B)
           list == [u \in {x \in ListedUsers : DOMAIN T(x) # {}} |-> Totals(T(u)).trades]
<1>5. q.fromTime = w[1] /\ q.toTime = w[2] /\ q.timeZone = z
  BY DEF ZoneQuery, Query
<1>6. v[1] = A /\ v[2] = B /\ i[1] = w[1] /\ i[2] = w[2]
  OBVIOUS
<1> HIDE DEF q
<1>7. ValidateTimeInput(q) = {i}
  BY <1>3, <1>5 DEF ValidateTimeInput
<1> HIDE DEF i
<1>8. GetUserListHandler(q) = GetUserList(w[1], w[2], z)
  BY <1>4, <1>5, <1>6, <1>7 DEF GetUserListHandler
<1>9. GetUserList(w[1], w[2], z) = {StoredUserList(x, z) : x \in {v}}
  BY <1>1 DEF GetUserList, Within
<1>10. StoredUserList(v, z) = list
  BY <1>6 DEF StoredUserList, ListedUsers
<1> HIDE DEF v, T
<1>11. list \in GetUserListHandler(q)
  <2> HIDE DEF list
  <2> QED BY <1>8, <1>9, <1>10
<1> DEFINE keyOf == [n \in ListedUsers |-> <<n>>]
<1>12. DOMAIN keyOf = ListedUsers /\ \A n \in ListedUsers : keyOf[n] = <<n>>
  OBVIOUS
<1>13. DOMAIN list = {n \in ListedUsers : DOMAIN T(n) # {}} /\ \A n \in DOMAIN list : list[n] = Totals(T(n)).trades
  OBVIOUS
<1>14. HasTotals(list, "user", keyOf, <<"utc", z>>, A, B)
  <2>1. \A n \in ListedUsers : T(n) = Ticks("user", keyOf[n], <<"utc", z>>, A, B)
    BY <1>12 DEF T
  <2> HIDE DEF list, keyOf, T, A, B
  <2> QED BY <2>1, <1>12, <1>13 DEF HasTotals
<1> HIDE DEF list
<1> QED BY <1>11, <1>14 DEF q

\* The trade logs of a day each are all of them.
LEMMA LogsServed ==
  ASSUME LogInv, BucketInv
  PROVE  UNION {UNION {Range(logs) : logs \in TradeLogsHandler(Query(w, "M"))} : w \in Windows("M")} = tradeLogs
<1> DEFINE S(w) == {l \in tradeLogs : w[1] * PerMilli <= Timestamp(l) /\ Timestamp(l) <= w[2] * PerMilli}
<1>1. /\ \A w \in Windows("M") : w[1] \in Nat /\ w[2] \in Nat /\ w[2] # 0
      /\ \A b \in Nat : b <= EndTime + 4 * Day =>
           \E w \in Windows("M") : w[1] * PerMilli <= b /\ b <= w[2] * PerMilli
  BY WindowsServed DEF Freqs
<1>2. ASSUME NEW w \in Windows("M") PROVE UNION {Range(logs) : logs \in TradeLogsHandler(Query(w, "M"))} = S(w)
  <2> DEFINE q    == Query(w, "M")
             from == w[1] * PerMilli
             to   == w[2] * PerMilli
             len  == Day \div PerMilli
             L    == GetTradeLogs(from, to)
  <2>1. /\ Day \in Nat /\ WordSize \in Nat /\ Day < WordSize /\ PerMilli \in Nat /\ PerMilli > 0
        /\ NoParam \notin Int
    BY TimeNumbers, QueriesAssumption, ServerAssumption
  <2>2. len \in Nat /\ PerMilli * len <= Day
    BY <2>1, QuotientIs
  <2>3. len <= PerMilli * len /\ len < WordSize
    <3>1. PerMilli * len = len + (PerMilli - 1) * len /\ PerMilli - 1 \in Nat
      BY <2>1, <2>2
    <3>2. (PerMilli - 1) * len \in Nat
      BY <3>1, <2>2
    <3> QED BY <3>1, <3>2, <2>1, <2>2
  <2>4. w[2] = w[1] + len
    <3>1. WindowLimit["M"] = Day
      BY DEF WindowLimit
    <3>2. PICK d \in 0 .. LastTime \div len : w = <<d * len, d * len + len>>
      BY <3>1 DEF Windows
    <3> QED BY <3>2
  <2>5. q.fromTime = w[1] /\ q.toTime = w[2]
    BY DEF Query
  <2> HIDE DEF q, len
  <2>6. ParseUint(q.fromTime) = w[1] /\ OrNow(q.toTime) = w[2]
    BY <2>1, <2>5, <1>1 DEF ParseUint, OrNow
  <2>7. (WordSize + w[2] - w[1]) % WordSize <= len
    <3>1. WordSize + w[2] - w[1] = WordSize + len
      BY <2>1, <2>2, <2>4, <1>1
    <3>2. (WordSize + len) % WordSize = len
      BY <2>1, <2>2, <2>3, WordRest
    <3> QED BY <3>1, <3>2, <2>2
  <2>8. TradeLogsHandler(q) = {L}
    BY <2>6, <2>7 DEF TradeLogsHandler, TradeLogsOf, len
  <2>9. from \in Nat /\ to \in Nat
    BY <2>1, <1>1
  <2>10. Bucket(tradeLogs)
    BY OrderedStates
  <2> HIDE DEF from, to
  <2>11. Range(L) = InRange(tradeLogs, from, to)
    BY <2>9, <2>10, TradeLogsRead
  <2>12. S(w) = InRange(tradeLogs, from, to)
    BY DEF InRange, from, to
  <2> HIDE DEF L, S
  <2> QED BY <2>8, <2>11, <2>12 DEF q
<1>3. ASSUME NEW l \in tradeLogs PROVE \E w \in Windows("M") : l \in S(w)
  <2>1. EndTime \in Nat /\ Day \in Nat /\ Timestamp(l) \in Nat /\ Timestamp(l) < EndTime
    BY LogsInTime, Zenon
  <2> QED BY <2>1, <1>1
<1> HIDE DEF S
<1>4. \A w : S(w) \subseteq tradeLogs
  BY DEF S
<1>5. UNION {S(w) : w \in Windows("M")} = tradeLogs
  BY <1>3, <1>4
<1> QED BY <1>2, <1>5

\* The names of the processed trades are served.
LEMMA NamesServed ==
  ASSUME StatInv, ExactInv, ListedPart
  PROVE  /\ "country" \in group => \A l \in Processed("country") : l.country \in StoredCountries
         /\ "wallet" \in group => \A l \in Processed("wallet") : l.data.wallet \in StoredWalletAddresses \cup {NoWallet} \cup unlisted
         /\ "user" \in group => \A z \in Zones : \A l \in Processed("user") : l.data.user \in ListedUsers
<1>1. \A l \in tradeLogs : l.data \in TradeData /\ l.country \in Countries
  BY StatInvTypes DEF StatTypeOK
<1>2. \A k : Processed(k) \subseteq tradeLogs
  BY DEF Processed
<1>3. ASSUME "country" \in group, NEW l \in Processed("country") PROVE l.country \in StoredCountries
  <2>1. Told("country", l)
    BY <1>3 DEF ListedPart, ListingKinds
  <2>2. l.country \in Countries /\ NameOf("country", l) = l.country
    BY <1>1, <1>2 DEF NameOf
  <2>3. l.country \in listed
    BY <2>1, <2>2 DEF Told
  <2> QED BY <2>2, <2>3 DEF StoredCountries
<1>4. ASSUME "wallet" \in group, NEW l \in Processed("wallet")
      PROVE  l.data.wallet \in StoredWalletAddresses \cup {NoWallet} \cup unlisted
  <2>1. Told("wallet", l) /\ NameOf("wallet", l) = l.data.wallet
    BY <1>4 DEF ListedPart, ListingKinds, NameOf
  <2>2. l.data.wallet \in Wallets
    BY <1>1, <1>2 DEF Wallets
  <2>3. l.data.wallet \notin Countries
    BY <2>2, ServerAssumption
  <2> QED BY <2>1, <2>3 DEF Told, StoredWalletAddresses
<1>5. ASSUME "user" \in group, NEW z \in Zones, NEW l \in Processed("user") PROVE l.data.user \in ListedUsers
  <2>1. PICK b : b = TimestampByFreq(TimestampFor(Timestamp(l), <<"utc", z>>), <<"utc", z>>)
    OBVIOUS
  <2> DEFINE c == <<"user", <<l.data.user>>, <<"utc", z>>, b>>
  <2>2. c \in CellsOf("user", l)
    BY <2>1 DEF CellsOf, aggregateUserInfo, ZoneFrames
  <2>3. "user" \in ExactKinds
    BY <1>5 DEF ExactKinds, Kinds
  <2>4. c \in DOMAIN stats
    BY <2>2, <2>3 DEF ExactInv, CellPart
  <2>5. c[1] = "user" /\ c[2][1] = l.data.user
    OBVIOUS
  <2> HIDE DEF c
  <2> QED BY <2>4, <2>5 DEF ListedUsers
<1> QED BY <1>3, <1>4, <1>5

\* What the invariant says of the maps and lists.
LEMMA ExactHeat == StatInv /\ ExactInv /\ ListedPart => HeatMapComplete
<1> SUFFICES ASSUME StatInv, ExactInv, ListedPart PROVE HeatMapComplete
  OBVIOUS
<1>1. LogInv /\ BucketInv /\ IsFiniteSet(tradeLogs)
  BY DEF StatInv, BucketInv
<1>2. \A k, f, w : InWindow(k, f, w) \subseteq tradeLogs
  BY DEF InWindow, Processed
<1>3. \A k \in {"country", "user", "volume"} :
        k \in group /\ (k = "country" => "rewound" \notin spoilt) => k \in ExactKinds
  BY DEF ExactKinds, Kinds
<1>4. /\ "country" \in group => {l.country : l \in Processed("country")} \subseteq UNION GetCountriesHandler
      /\ "wallet" \in group =>
           {l.data.wallet : l \in Processed("wallet")}
             \subseteq (UNION GetWalletAddressHandler) \cup {NoWallet} \cup unlisted
  <2>1. UNION GetCountriesHandler = StoredCountries /\ UNION GetWalletAddressHandler = StoredWalletAddresses
    BY DEF GetCountriesHandler, GetWalletAddressHandler
  <2>2. /\ "country" \in group => \A l \in Processed("country") : l.country \in StoredCountries
        /\ "wallet" \in group => \A l \in Processed("wallet") : l.data.wallet \in StoredWalletAddresses \cup {NoWallet} \cup unlisted
    BY NamesServed
  <2>3. "country" \in group => {l.country : l \in Processed("country")} \subseteq StoredCountries
    BY <2>2
  <2>4. "wallet" \in group =>
          {l.data.wallet : l \in Processed("wallet")} \subseteq StoredWalletAddresses \cup {NoWallet} \cup unlisted
    BY <2>2
  <2> QED BY <2>1, <2>3, <2>4
<1>5. ASSUME NEW w \in Windows("M") \cup Windows("D"), NEW z \in Zones, "country" \in group, "rewound" \notin spoilt
      PROVE  \E map \in GetHeatMapHandler(ZoneQuery(w, z)) :
               TradesOf(map) = Cardinality(InWindow("country", <<"utc", z>>, w))
  <2> DEFINE f     == <<"utc", z>>
             from  == w[1] * PerMilli
             to    == w[2] * PerMilli
             all   == InWindow("country", f, w)
             keyOf == [n \in StoredCountries |-> <<n>>]
  <2>1. PICK map \in GetHeatMapHandler(ZoneQuery(w, z)) :
          HasTotals([c \in DOMAIN map |-> map[c].trades], "country", keyOf, f, from, to)
    BY <1>1, HeatMapAnswer, Zenon
  <2>2. Splits("country", keyOf, f, from, to, all)
    <3>1. \A l \in Processed("country") : l.country \in StoredCountries
      BY <1>5, NamesServed
    <3> QED BY <3>1, CountrySplits, Zenon
  <2>3. all \subseteq tradeLogs /\ "country" \in ExactKinds
    BY <1>2, <1>3, <1>5
  <2> DEFINE m == [c \in DOMAIN map |-> map[c].trades]
  <2>4. HasTotals(m, "country", keyOf, f, from, to)
    BY <2>1
  <2> HIDE DEF f, from, to, all, keyOf, m
  <2>5. SumFunction(m) = Cardinality(all)
    BY <2>2, <2>3, <2>4, <1>1, NamesAddUp
  <2>6. TradesOf(map) = SumFunction(m)
    BY DEF TradesOf, m
  <2> QED BY <2>5, <2>6 DEF all, f
<1>6. ASSUME NEW w \in Windows("M") \cup Windows("D"), NEW z \in Zones, "user" \in group
      PROVE  \E list \in GetUserListHandler(ZoneQuery(w, z)) :
               SumFunction(list) = Cardinality(InWindow("user", <<"utc", z>>, w))
  <2> DEFINE f     == <<"utc", z>>
             from  == w[1] * PerMilli
             to    == w[2] * PerMilli
             all   == InWindow("user", f, w)
             keyOf == [n \in ListedUsers |-> <<n>>]
  <2>1. PICK list \in GetUserListHandler(ZoneQuery(w, z)) : HasTotals(list, "user", keyOf, f, from, to)
    BY <1>1, UserListAnswer, Zenon
  <2>2. Splits("user", keyOf, f, from, to, all)
    <3>1. \A l \in Processed("user") : l.data.user \in ListedUsers
      BY <1>6, NamesServed
    <3> QED BY <3>1, UserSplits, Zenon
  <2>3. all \subseteq tradeLogs /\ "user" \in ExactKinds
    BY <1>2, <1>3, <1>6
  <2> HIDE DEF f, from, to, all, keyOf
  <2>4. SumFunction(list) = Cardinality(all)
    BY <2>1, <2>2, <2>3, <1>1, NamesAddUp
  <2> QED BY <2>4 DEF all, f
<1>7. ASSUME NEW w \in Windows("M") \cup Windows("D"), {"country", "volume"} \subseteq group,
             cursor["country"] >= cursor["volume"], NEW t \in Tokens, NEW freq \in Freqs
      PROVE  \E map \in GetTokenHeatmapHandler([Query(w, freq) EXCEPT !.token = t]) :
               TradesOf(map) =
                 Cardinality({l \in InWindow("volume", <<freq, 0>>, w) :
                                AssetOf(l) = t /\ (l \in missed["country"] => l.country \in StoredCountries)})
  <2> DEFINE f     == <<freq, 0>>
             from  == w[1] * PerMilli
             to    == w[2] * PerMilli
             all   == TokenTrades(f, w, t)
             keyOf == TokenKeys(StoredCountries, t)
  <2>1. PICK map \in GetTokenHeatmapHandler([Query(w, freq) EXCEPT !.token = t]) :
          HasTotals([c \in DOMAIN map |-> map[c].trades], "volume", keyOf, f, from, to)
    BY <1>1, TokenMapAnswer, Zenon
  <2>2. \A l \in TokenTrades(f, w, t) : l.country \in StoredCountries
    <3>1. cursor["country"] \in Nat /\ cursor["volume"] \in Nat /\ Bucket(tradeLogs)
      BY <1>1, <1>7, OrderedStates DEF StatInv, AggPart
    <3>2. \A l \in tradeLogs : Timestamp(l) <= cursor["volume"] => Timestamp(l) <= cursor["country"]
      BY <3>1, <1>7 DEF Bucket
    <3>3. \A l \in Processed("volume") : l \in Processed("country") \/ l \in missed["country"]
      BY <3>2 DEF Processed
    <3>4. ASSUME NEW l \in TokenTrades(f, w, t) PROVE l.country \in StoredCountries
      <4>1. l \in Processed("volume") /\ (l \in missed["country"] => l.country \in StoredCountries)
        BY DEF TokenTrades, InWindow
      <4> QED BY <4>1, <3>3, <1>7, NamesServed
    <3> QED BY <3>4
  <2>3. Splits("volume", keyOf, f, from, to, all)
    <3> HIDE DEF f
    <3> QED BY <2>2, TokenSplits, Zenon
  <2>4. all \subseteq tradeLogs /\ "volume" \in ExactKinds
    BY <1>2, <1>3, <1>7 DEF TokenTrades
  <2> DEFINE m == [c \in DOMAIN map |-> map[c].trades]
  <2>5. HasTotals(m, "volume", keyOf, f, from, to)
    BY <2>1
  <2> HIDE DEF f, from, to, all, keyOf, m
  <2>6. SumFunction(m) = Cardinality(all)
    BY <2>3, <2>4, <2>5, <1>1, NamesAddUp
  <2>7. TradesOf(map) = SumFunction(m)
    BY DEF TradesOf, m
  <2> QED BY <2>6, <2>7 DEF all, f, TokenTrades
<1>8. UNION {UNION {Range(logs) : logs \in TradeLogsHandler(Query(w, "M"))} : w \in Windows("M")} = tradeLogs
  BY <1>1, LogsServed
<1> QED BY <1>4, <1>5, <1>6, <1>7, <1>8, Zenon DEF HeatMapComplete

(***************************************************************************)
(* The heat maps and the user list always add up to the processed trades   *)
(* of their window, the heat map until the country cursor goes back: the   *)
(* names a map is made from are listed before the trades are counted, in a *)
(* transaction that is not the one of the cursor, and are never taken      *)
(* back.  A wallet whose listing failed is missing from the wallets only.  *)
(***************************************************************************)
THEOREM HeatMapsComplete == StatSpec => []HeatMapComplete
BY ListedAlways, ExactHeat, PTL
=============================================================================
