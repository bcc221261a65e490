--------------------------- MODULE StatAggregation --------------------------
(***************************************************************************)
(* The statistics of the trades (stat/fetcher.go, stat/storage/            *)
(* stat_bolt.go) and the categories of addresses, built from the logs that *)
(* StatLogs stores.  Every aggregation has its cursor, the timestamp up to *)
(* which it has processed trade logs; at every tick all run in parallel,   *)
(* each bolt transaction one step, and the next tick waits for all.        *)
(* The errors of the transactions are ignored; those of the kinds in       *)
(* faults may fail, and those that move a cursor always may.               *)
(*                                                                         *)
(* What is added up (ETH and USD volume, fees) is added in the same places *)
(* as the number of trades, so a cell keeps that number, and the numbers   *)
(* of users the metric statistics keep.  KYC counts are left out.          *)
(***************************************************************************)
EXTENDS StatLogs, Users, Integers

CONSTANTS Scenarios,          \* triples: the processors, the transactions and the faults of a behaviour
          Zones,              \* time zones, START_TIMEZONE .. END_TIMEZONE
          Minute, Hour, Day,  \* lengths of time
          ETH,                \* the ether token
          NoWallet            \* an address too small to be a wallet

ASSUME AggregationAssumption ==
  /\ {Minute, Hour, Day} \subseteq Nat \ {0}
  /\ Zones \subseteq -11 .. 14 /\ \A z \in Zones : z * Hour <= Day /\ 0 - z * Hour <= Day
  /\ \A s \in Scenarios : /\ s[2] \in Seq(Range(s[2]))
                          /\ \A tx \in Range(s[2]) :
                               \/ tx.type = "trade"
                               \/ tx \in [type : {"cat"}, data : [addr : Addresses, cat : Categories]]
  /\ WordSize > (MaxBlock + 1) * SlotsPerBlock + Day

VARIABLES group,      \* the processors of this behaviour
          agg,        \* agg[k]: how far aggregation k is in its round, first to: the time of the round
          cursor,     \* TRADELOG_PROCESSOR_STATE, CATLOG_PROCESSOR_STATE
          firstEver,  \* USER_FIRST_TRADE_EVER
          firstDay,   \* USER_STAT_BUCKET: first trades of users per zone and day
          stats,      \* the cells of all statistics
          listed,     \* COUNTRY_BUCKET and WALLET_ADDRESS_BUCKET
          missed,     \* history: missed[k], the trades the cursor of k passed without counting them
          spoilt,     \* history: "tables", a first trade may be wrong; "rewound", see SetStat
          unlisted,   \* history: the names whose listing failed
          catRun,     \* how far RunCatLogProcessor is, the category logs it has not applied yet
          skipped     \* history: the category logs whose last update failed, or stored too late

tableVars == <<firstEver, firstDay, stats, listed>>
lossVars  == <<missed, spoilt, unlisted>>
catVars   == <<catRun, skipped>>
aggVars   == <<group, agg, cursor, tableVars, lossVars, usersVars, catVars>>
statVars == <<logVars, crashes, aggVars>>

Kinds       == {"burn", "volume", "summary", "wallet", "country", "user"}
MetricKinds == {"summary", "wallet", "country"}
Empty       == [x \in {} |-> {}]
NotRunning  == [pc |-> "idle", from |-> 0, to |-> 0, batch |-> {}, ever |-> Empty]
NoCatRun    == [pc |-> "idle", from |-> 0, to |-> 0, logs |-> <<>>, last |-> 0]
ZeroCell    == [trades |-> 0, users |-> 0, newUsers |-> 0]

AggregationInit ==
  /\ \E s \in Scenarios : group = s[1] /\ pool = s[2] /\ faults = s[3]
  /\ agg = [k \in group \cap Kinds |-> NotRunning]
  /\ cursor = [k \in group |-> 0]
  /\ firstEver = Empty /\ firstDay = Empty
  /\ stats = Empty
  /\ listed = {}
  /\ missed = [k \in group \cap Kinds |-> {}] /\ spoilt = {} /\ unlisted = {}
  /\ UsersInit
  /\ catRun = NoCatRun /\ skipped = {}

------------------------------------------------------------------------------
\* Time frames and the buckets of a day, an hour or a minute.
Freqs     == {"M", "H", "D"}
ZoneFrames == {<<"utc", z>> : z \in Zones}

Floor(t, unit) == (t \div unit) * unit

\* getTimestampFromTimeZone, of the fetcher.  Offsets are unsigned: to subtract
\* a negative one adds it, so zones east and west of UTC are alike.
TimestampFor(t, f) ==
  LET away == (IF f[2] < 0 THEN 0 - f[2] ELSE f[2]) * Hour
  IN  CASE f[1] = "M"   -> Floor(t, Minute)
        [] f[1] = "H"   -> Floor(t, Hour)
        [] f[1] = "D"   -> Floor(t, Day)
        [] f[1] = "utc" -> Floor(t + away, Day) + away

\* getTimestampByFreq, of the storage, computes the same.
TimestampByFreq(t, f) == TimestampFor(t, f)

\* getTradeInfo: the token traded against ether.
AssetOf(l) == IF l.data.src # ETH THEN l.data.src ELSE l.data.dst

\* A cell is <<statistic, key, frame, bucket of time>>.  The keys of the code are bare
\* addresses; here they name the role as well, so the addresses of tokens, users,
\* reserves and wallets are taken to be different.  What a trade is counted in:
aggregateVolumeStat(key, t) == {<<"volume", key, <<f, 0>>, TimestampFor(t, <<f, 0>>)>> : f \in Freqs}
aggregateBurnfee(key, t)    == {<<"burn", key, <<f, 0>>, TimestampFor(t, <<f, 0>>)>> : f \in Freqs}
MetricCells(k, key, t)      == {<<k, key, f, TimestampFor(t, f)>> : f \in ZoneFrames}

aggregateVolumeStats(l) ==
  UNION {aggregateVolumeStat(key, Timestamp(l)) :
           key \in {<<"token", l.data.src>>, <<"token", l.data.dst>>, <<"user", l.data.user>>,
                    <<"reserve", l.data.reserve, AssetOf(l)>>, <<"reserve", l.data.reserve, ETH>>,
                    <<"heat", l.country, AssetOf(l)>>}}

aggregateBurnFeeStats(l) ==
  UNION {aggregateBurnfee(key, Timestamp(l)) :
           key \in {<<"reserve", l.data.reserve>>, <<"fee", l.data.reserve, l.data.wallet>>}}

aggregateTradeSumary(l)  == MetricCells("summary", <<"trade_summary">>, Timestamp(l))
aggregateWalletStats(l)  == MetricCells("wallet", <<l.data.wallet>>, Timestamp(l))
aggregateCountryStats(l) == MetricCells("country", <<l.country>>, Timestamp(l))

\* SetUserList truncates what aggregateUserInfo has truncated already.
aggregateUserInfo(l) ==
  {<<"user", <<l.data.user>>, f, TimestampByFreq(TimestampFor(Timestamp(l), f), f)>> : f \in ZoneFrames}

CellsOf(k, l) ==
  CASE k = "volume"  -> aggregateVolumeStats(l)
    [] k = "burn"    -> aggregateBurnFeeStats(l)
    [] k = "summary" -> aggregateTradeSumary(l)
    [] k = "wallet"  -> aggregateWalletStats(l)
    [] k = "country" -> aggregateCountryStats(l)
    [] k = "user"    -> aggregateUserInfo(l)

DayOf(l, z) == <<l.data.user, z, TimestampByFreq(Timestamp(l), <<"utc", z>>)>>

\* An entry of a table of first trades is not later than t.
DidTrade(user, t)     == user \in DOMAIN firstEver /\ firstEver[user] <= t
DidTradeInDay(day, t) == day \in DOMAIN firstDay /\ firstDay[day] <= t

\* The table with the entries found, <<where, time>> pairs, the earliest first.
WithFirst(table, found) ==
  [w \in DOMAIN table \cup {p[1] : p \in found} |->
     LET times == {p[2] : p \in {q \in found : q[1] = w}}
     IN  IF times = {} THEN table[w] ELSE CHOOSE t \in times : \A u \in times : t <= u]

\* GetFirstTradeInDay; 0 when there is none.
GetFirstTradeInDay(l, z) == IF DayOf(l, z) \in DOMAIN firstDay THEN firstDay[DayOf(l, z)] ELSE 0

------------------------------------------------------------------------------
\* The time: the moment before the next block.
Now == (Len(chain) + 1) * SlotsPerBlock - 1

\* Mutant of TimeRange: no limit on the range of time.
UnlimitedRange(k, bucket, to) ==
  [from |-> IF cursor[k] = 0 /\ bucket # {} THEN Timestamp(FirstLog(bucket)) - 1 ELSE cursor[k] + 1, to |-> to]

\* GetTradeLogTimeRange, and the same lines of RunCatLogProcessor.  The range is
\* unsigned: a tick before the first moment counts as too long a range.
TimeRange(k, bucket, to) ==
  LET from == IF cursor[k] = 0 /\ bucket # {} THEN Timestamp(FirstLog(bucket)) - 1 ELSE cursor[k] + 1
  IN  [from |-> from,
       to |-> IF (WordSize + to - from) % WordSize > Day THEN from + Day ELSE to]

\* The trades an aggregation has processed: the ones its cursor has passed, without
\* those it passed over.
Processed(k) == {l \in tradeLogs : Timestamp(l) <= cursor[k]} \ missed[k]

\* The trades the country aggregation leaves out, when its cursor moves to a time: the
\* country is empty, or its listing failed.
LeftOut(k, l)     == k = "country" /\ (l.country = "" \/ l.country \in unlisted)
PassedOver(k, to) == {l \in InRange(tradeLogs, cursor[k] + 1, to) : LeftOut(k, l)} \ agg[k].batch

\* A range without a log ends before the last log of the bucket.
LaterLogs(to, bucket) == bucket # {} /\ to < Timestamp(LastLog(bucket))

Step(k, pc) == agg' = [agg EXCEPT ![k].pc = pc]

\* RunTradeLogProcessor: a tick, when the last round has ended.
RunTradeLogProcessor ==
  /\ DOMAIN agg # {}
  /\ \A k \in DOMAIN agg : agg[k].pc = "idle"
  /\ agg' = [k \in DOMAIN agg |-> [NotRunning EXCEPT !.pc = "start", !.to = Now]]
  /\ UNCHANGED <<logVars, crashes, group, cursor, tableVars, lossVars, usersVars, catVars>>

\* The first lines of every Run*Aggregation: the cursor and the range,
ReadCursor(k) ==
  LET range == TimeRange(k, tradeLogs, agg[k].to)
  IN  /\ agg[k].pc = "start"
      /\ agg' = [agg EXCEPT ![k] = [NotRunning EXCEPT !.pc = "read", !.from = range.from, !.to = range.to]]
      /\ UNCHANGED <<logVars, crashes, group, cursor, tableVars, lossVars, usersVars, catVars>>

\* the trade logs of the range,
ReadTradeLogs(k) ==
  LET batch == Range(GetTradeLogs(agg[k].from, agg[k].to))
  IN  /\ agg[k].pc = "read"
      /\ agg' = [agg EXCEPT ![k] =
                   IF batch = {} THEN [@ EXCEPT !.pc = "last"]
                   ELSE [NotRunning EXCEPT !.pc = IF k \in MetricKinds THEN "ever" ELSE "set", !.batch = batch]]
      /\ UNCHANGED <<logVars, crashes, group, cursor, tableVars, lossVars, usersVars, catVars>>

\* and when there is none the last log: the cursor moves to the end of the range if
\* there are later ones, past the trades stored since the range was read.
SkipTradeLogs(k) ==
  LET to   == agg[k].to
      late == InRange(tradeLogs, agg[k].from, to)
  IN  /\ agg[k].pc = "last"
      /\ \/ /\ LaterLogs(to, tradeLogs)
            /\ cursor' = [cursor EXCEPT ![k] = to]
            /\ missed' = [missed EXCEPT ![k] = @ \cup late]
            /\ spoilt' = IF k \in MetricKinds /\ late # {} THEN spoilt \cup {"tables"} ELSE spoilt
         \/ UNCHANGED <<cursor, missed, spoilt>>
      /\ agg' = [agg EXCEPT ![k] = NotRunning]
      /\ UNCHANGED <<logVars, crashes, group, tableVars, unlisted, usersVars, catVars>>

\* A transaction on the tables of first trades that fails.
TableFails == "tables" \in faults /\ spoilt' = spoilt \cup {"tables"}

\* Mutant of SetFirstTradeEver: the latest trade wins.
SetLastTradeEver(k) ==
  /\ agg[k].pc = "ever"
  /\ firstEver' = [u \in DOMAIN firstEver \cup {l.data.user : l \in agg[k].batch} |->
       LET times == {Timestamp(l) : l \in {m \in agg[k].batch : m.data.user = u}}
       IN  IF times = {} THEN firstEver[u] ELSE CHOOSE t \in times : \A v \in times : v <= t]
  /\ Step(k, "day")
  /\ UNCHANGED <<logVars, crashes, group, cursor, firstDay, stats, listed, lossVars, usersVars, catVars>>

SetFirstTradeEver(k) ==
  /\ agg[k].pc = "ever"
  /\ \/ /\ firstEver' = WithFirst(firstEver,
              {<<l.data.user, Timestamp(l)>> :
                 l \in {m \in agg[k].batch : ~DidTrade(m.data.user, Timestamp(m))}})
        /\ UNCHANGED spoilt
     \/ TableFails /\ UNCHANGED firstEver
  /\ Step(k, "day")
  /\ UNCHANGED <<logVars, crashes, group, cursor, firstDay, stats, listed, missed, unlisted, usersVars, catVars>>

SetFirstTradeInDay(k) ==
  /\ agg[k].pc = "day"
  /\ \/ /\ firstDay' = WithFirst(firstDay,
              {<<DayOf(p[1], p[2]), Timestamp(p[1])>> :
                 p \in {q \in agg[k].batch \X Zones : ~DidTradeInDay(DayOf(q[1], q[2]), Timestamp(q[1]))}})
        /\ UNCHANGED spoilt
     \/ TableFails /\ UNCHANGED firstDay
  /\ Step(k, "load")
  /\ UNCHANGED <<logVars, crashes, group, cursor, firstEver, stats, listed, missed, unlisted, usersVars, catVars>>

\* The trades whose country or wallet is written to the lists, a transaction for
\* each; a bolt key must not be empty.
checkWalletAddress(w)   == w # NoWallet
SetCountry(batch)       == {l \in batch : l.country # ""}
SetWalletAddress(batch) == {l \in batch : checkWalletAddress(l.data.wallet)}

Named(k, batch) ==
  CASE k = "country" -> SetCountry(batch)
    [] k = "wallet"  -> SetWalletAddress(batch)
    [] k = "summary" -> {}

NameOf(k, l) == IF k = "country" THEN l.country ELSE l.data.wallet

\* Mutant of LoadFirstTrades: no name is listed.
LoadOnly(k) ==
  /\ agg[k].pc = "load"
  /\ agg' = [agg EXCEPT ![k].pc = "set", ![k].ever = firstEver]
  /\ UNCHANGED <<logVars, crashes, group, cursor, tableVars, lossVars, usersVars, catVars>>

\* GetAllFirstTradeEver, which needs a bucket that only SetFirstTradeEver creates,
\* then the names: a trade whose country is not listed is not counted, one whose
\* wallet is not listed is.
LoadFirstTrades(k) ==
  LET named == Named(k, agg[k].batch)
  IN  /\ agg[k].pc = "load"
      /\ DOMAIN firstEver # {}
      /\ \E done \in SUBSET named :
           /\ done = named \/ "names" \in faults
           /\ agg' = [agg EXCEPT ![k].pc = "set", ![k].ever = firstEver,
                                 ![k].batch = IF k = "country" THEN done ELSE @]
           /\ listed' = listed \cup {NameOf(k, l) : l \in done}
           /\ unlisted' = unlisted \cup {NameOf(k, l) : l \in named \ done}
      /\ UNCHANGED <<logVars, crashes, group, cursor, firstEver, firstDay, stats, missed, spoilt, usersVars, catVars>>

\* What the batch adds to a cell; aggregateMetricStat also counts a user at the
\* first trade ever, or of the day.
Added(k, c) ==
  LET here  == {l \in agg[k].batch : c \in CellsOf(k, l)}
      new(l) == l.data.user \in DOMAIN agg[k].ever /\ agg[k].ever[l.data.user] = Timestamp(l)
      news  == {l \in here : k \in MetricKinds /\ new(l)}
      first == {l \in here : k \in MetricKinds
                             /\ (new(l) \/ GetFirstTradeInDay(l, c[3][2]) = Timestamp(l))}
  IN  [trades |-> Cardinality(here), users |-> Cardinality(first), newUsers |-> Cardinality(news)]

Sum(c, d) == [x \in DOMAIN c |-> c[x] + d[x]]

\* The statistics with the batch of k added to its cells.
WithBatch(k) ==
  LET cells == UNION {CellsOf(k, l) : l \in agg[k].batch}
  IN  [c \in DOMAIN stats \cup cells |->
         Sum(IF c \in DOMAIN stats THEN stats[c] ELSE ZeroCell, IF c \in cells THEN Added(k, c) ELSE ZeroCell)]

\* Mutant of SetStat: the cursor is left for another transaction.
SetStatOnly(k) ==
  /\ agg[k].pc = "set"
  /\ stats' = WithBatch(k)
  /\ agg' = [agg EXCEPT ![k] = NotRunning]
  /\ UNCHANGED <<logVars, crashes, group, cursor, firstEver, firstDay, listed, lossVars, usersVars, catVars>>

\* The time of the last trade that was counted; 0 when there is none.
LastCounted(k) ==
  LET times == {Timestamp(l) : l \in agg[k].batch}
  IN  IF times = {} THEN 0 ELSE CHOOSE t \in times : \A u \in times : u <= t

\* Statistics and cursor are stored in one transaction, which may fail.  When no
\* country of the batch could be listed the cursor goes back to 0, and the trades
\* counted before are counted again; the bound is to go back once.
SetStat(k) ==
  LET last  == LastCounted(k)
      again == last = 0 /\ Processed(k) # {}
  IN  /\ agg[k].pc = "set"
      /\ \/ /\ again => "rewound" \notin spoilt
            /\ stats' = WithBatch(k)
            /\ cursor' = [cursor EXCEPT ![k] = last]
            /\ missed' = [missed EXCEPT ![k] = IF last = 0 THEN {} ELSE @ \cup PassedOver(k, last)]
            /\ spoilt' = IF again THEN spoilt \cup {"rewound"} ELSE spoilt
         \/ UNCHANGED <<stats, cursor, missed, spoilt>>
      /\ agg' = [agg EXCEPT ![k] = NotRunning]
      /\ UNCHANGED <<logVars, crashes, group, firstEver, firstDay, listed, unlisted, usersVars, catVars>>

SetBurnFeeStat  == SetStat("burn")
SetVolumeStat   == SetStat("volume")
SetTradeSummary == SetStat("summary")
SetWalletStat   == SetStat("wallet")
SetCountryStat  == SetStat("country")
SetUserList     == SetStat("user")

ReadTrades(k)  == ReadCursor(k) \/ ReadTradeLogs(k) \/ SkipTradeLogs(k)
FirstTrades(k) == SetFirstTradeEver(k) \/ SetFirstTradeInDay(k) \/ LoadFirstTrades(k)

RunBurnFeeAggregation      == "burn" \in group /\ (ReadTrades("burn") \/ SetBurnFeeStat)
RunVolumeStatAggregation   == "volume" \in group /\ (ReadTrades("volume") \/ SetVolumeStat)
RunUserInfoAggregation     == "user" \in group /\ (ReadTrades("user") \/ SetUserList)
RunTradeSummaryAggregation ==
  "summary" \in group /\ (ReadTrades("summary") \/ FirstTrades("summary") \/ SetTradeSummary)
RunWalletStatAggregation   ==
  "wallet" \in group /\ (ReadTrades("wallet") \/ FirstTrades("wallet") \/ SetWalletStat)
RunCountryStatAggregation  ==
  "country" \in group /\ (ReadTrades("country") \/ FirstTrades("country") \/ SetCountryStat)

------------------------------------------------------------------------------
\* RunCatLogProcessor: the range; without a log to start from there is none,
RunCatLogProcessor ==
  LET range == TimeRange("cat", catLogs, Now)
  IN  /\ "cat" \in group /\ catRun = NoCatRun
      /\ cursor["cat"] = 0 => catLogs # {}
      /\ catRun' = [NoCatRun EXCEPT !.pc = "read", !.from = range.from, !.to = range.to]
      /\ UNCHANGED <<logVars, crashes, group, agg, cursor, tableVars, lossVars, usersVars, skipped>>

\* the category logs of the range,
ReadCatLogs ==
  LET logs == GetCatLogs(catRun.from, catRun.to)
  IN  /\ catRun.pc = "read"
      /\ catRun' = [catRun EXCEPT !.pc = IF logs = <<>> THEN "last" ELSE "apply", !.logs = logs]
      /\ UNCHANGED <<logVars, crashes, group, agg, cursor, tableVars, lossVars, usersVars, skipped>>

\* one transaction for each, where a log whose update fails is passed over,
ApplyCatLog ==
  LET l    == Head(catRun.logs)
      last == IF Timestamp(l) > catRun.last THEN Timestamp(l) ELSE catRun.last
  IN  /\ catRun.logs # <<>>
      /\ \/ /\ UpdateAddressCategory(l.data.addr, l.data.cat)
            /\ catRun' = [catRun EXCEPT !.logs = Tail(@), !.last = last]
            /\ skipped' = skipped \ {l}
         \/ /\ catRun' = [catRun EXCEPT !.logs = Tail(@)]
            /\ skipped' = skipped \cup {l}
            /\ UNCHANGED usersVars
      /\ UNCHANGED <<logVars, crashes, group, agg, cursor, tableVars, lossVars>>

\* the cursor at the end,
FinishCatLogs ==
  /\ catRun.pc = "apply" /\ catRun.logs = <<>>
  /\ cursor' \in {cursor, [cursor EXCEPT !["cat"] = catRun.last]}
  /\ catRun' = NoCatRun
  /\ UNCHANGED <<logVars, crashes, group, agg, tableVars, lossVars, usersVars, skipped>>

\* or, in a range without a log, at its end if there are later ones.
SkipCatLogs ==
  /\ catRun.pc = "last"
  /\ \/ LaterLogs(catRun.to, catLogs) /\ cursor' = [cursor EXCEPT !["cat"] = catRun.to]
     \/ UNCHANGED cursor
  /\ catRun' = NoCatRun
  /\ UNCHANGED <<logVars, crashes, group, agg, tableVars, lossVars, usersVars, skipped>>

\* The time up to which RunCatLogProcessor has read, or will not read.
Reach ==
  CASE catRun.pc = "idle" -> cursor["cat"]
    [] catRun.pc = "read" -> catRun.from - 1
    [] OTHER              -> catRun.to

\* History: a category log that is stored behind that time.
StoredTooLate == {l \in catLogs' \ catLogs : "cat" \in group /\ Timestamp(l) <= Reach}

\* A step of the log fetcher or of the chain.
FetcherStep ==
  /\ StatLogsNext
  /\ skipped' = skipped \cup StoredTooLate
  /\ UNCHANGED <<group, agg, cursor, tableVars, lossVars, usersVars, catRun>>

\* The process dies; the databases remain.
Restart ==
  /\ RestartLogs
  /\ agg' = [k \in DOMAIN agg |-> NotRunning]
  /\ catRun' = NoCatRun
  /\ UNCHANGED <<group, cursor, tableVars, lossVars, usersVars, skipped>>

StatNext ==
  \/ FetcherStep
  \/ RunTradeLogProcessor
  \/ RunBurnFeeAggregation \/ RunVolumeStatAggregation \/ RunUserInfoAggregation
  \/ RunTradeSummaryAggregation \/ RunWalletStatAggregation \/ RunCountryStatAggregation
  \/ RunCatLogProcessor \/ ReadCatLogs \/ ApplyCatLog \/ FinishCatLogs \/ SkipCatLogs
  \/ Restart

StatInit == AggregationInit /\ StatLogsInit
StatSpec == StatInit /\ [][StatNext]_statVars
=============================================================================
