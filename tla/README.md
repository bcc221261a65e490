# reserve-data in TLA+

`reserve-data` runs an Ethereum reserve: it trades on centralised exchanges,
moves funds between them and a reserve contract, sets the reserve's conversion
rates, and keeps the statistics of the trades that pass through it.  This
project models the parts of it that keep state, checks them with TLC on small
instances and proves most of the safety properties with TLAPS.

## 1. Inventory

| part | state it keeps | operations | what is hard | what makes it correct |
|---|---|---|---|---|
| core (`core/reserve_core.go`) | none of its own; one goroutine per HTTP request | Trade, Deposit, Withdraw, CancelOrder, SetRates | check, call out, record are separate; replacement of pending `set_rates` | one record per request, its first statuses true; no second deposit while one is pending; a replacement replaces a pending `set_rates` |
| activity storage (`data/storage/bolt.go`) | ACTIVITY and PENDING_ACTIVITY buckets | Record, UpdateActivity, GetPendingActivities, HasPendingDeposit, PendingSetrate | two buckets, records written back from a stale copy | the pending bucket holds exactly the pending activities |
| auth data fetcher (`data/fetcher/fetcher.go`) | the cycle's locals; the stored snapshot | FetchAllAuthData and what it calls | exchanges and network move between calls; one goroutine per exchange; partial failure, crash | recorded statuses are true and final; a valid snapshot is coherent with balances and buckets; cycles end, activities settle |
| other fetchers (same file), readers (`data/reserve_data.go`) | prices, gold, rates, trade history under the time of a tick; the newest block in memory | tickers; version lookup and read | two transactions per reader, pruning; block shared without a lock; failed calls stored | a version that was found can be read; the served ranges cover the records once |
| exchange adapters (`exchange/*.go`) | Huobi and Bittrex: a bolt file each | Trade, Withdraw, OrderStatus, DepositStatus, WithdrawStatus, FetchEBalanceData | status calls with effects (Huobi sends a transaction, Bittrex claims a history entry), failures reported as "pending" | money sent once; done means credited; no entry claimed twice; lost deposits fail |
| Ethereum access (`blockchain`, `common/blockchain`) | nonce corpora | SignAndBroadcast, TxStatus, balances, rates, logs | nonce counted inside a window without asking the node; lost answers; rates sent against a base read earlier | nonces usable; verdicts true; rates as asked |
| settings (`data/storage/bolt.go`, `http/server.go`) | pending and confirmed buckets of target quantities, PWI equations, stable token parameters | set, confirm, cancel | several transactions per call, overlapping calls | only the pending proposal comes into force, and it takes two keys |
| control flags, exchange status, reports (`data/storage/bolt.go`) | one bucket each | get, set | a write transaction nested in a read transaction; whole maps read and written back | what was set last is served |
| log fetcher (`stat/fetcher.go`, `stat/storage/log_bolt.go`) | trade and category logs; a block cursor in memory | FetchCurrentBlock, FetchLogs | logs stored one by one, restart, reorganisations | no log of a replaced block, a bounded loss |
| aggregations (`stat/fetcher.go`, `stat/storage/stat_bolt.go`, `stat/reserve_stat.go`) | one bucket per statistic, a cursor per aggregation, shared tables of first trades | six aggregations, the category processor, the queries | aggregations at different cursors, failed transactions, time zones, ranges without trades | every processed trade counted once |
| users (`stat/storage/user_bolt.go`) | five indexes of addresses, users, categories | UpdateAddressCategory, UpdateUserAddresses | a nested read of the state before the transaction | the indexes agree |
| reserve rates (`stat/fetcher.go`, `stat/storage/rate_bolt.go`) | rates per reserve | FetchReserveRates, GetReserveRates | failed calls, a block that goes back | ranges cover the records |
| price analytics (`stat/storage/analytic_bolt.go`, `common/archive`) | records, export files | store, read, export and archive | deletion before upload, partial uploads, crash | no record lost |
| http (`http`) | none | authentication, parsing, dispatch | handlers run concurrently | requests are authorised |
| world, metric, cmd, vendor | - | feeds, configuration, tools | I/O | - |

How they interact: the HTTP handlers call the core, which calls an exchange or
a node and then records an activity; the fetcher reads the pending activities,
asks exchanges and nodes about them, writes them back and stores a snapshot of
statuses and balances that analytics reads.  Core and fetcher share nothing but
the two buckets.  `PROJECT.json` lists every part and every hazard with its
source line.

The statistics are a separate chain: the log fetcher writes logs, the
aggregations read them and write statistics, and the handlers serve those; the
category processor and the operators write the users.

## 2. Modules

```
Activity --- ActivityStorage --- ReserveCore --- AuthFetcher --- ReserveData --- MCReserveData
Buckets ----/        \          ExchangeSite -/                       \
                      \         Ethereum                               StatusProofs -- CoherenceProofs
TimeWindow ----------- SetRates --- MCSetRates
SetRates, PricingRates, RateData, ReserveRates --- MCRates
                         the same and FoldProofs --- RatesProofs
DepositCycle --- HuobiDeposit, Bittrex --- ExchangeDeposits --- MCDeposits, DepositProofs
Proposal <= Settings --- MCSettings
Settings, Users, Analytics, PriceData, ControlData, Authentication --- HttpServer --- MCServices, ServicesProofs
StatLogs --- StatAggregation (with Users) --- StatQueries --- StatServer --- MCStatistics
                       StatServer, FoldProofs --- StatProofs --- AggregationProofs
```

* **Activity**: the pending tests of `common/types.go`.  A record keeps its
  action, destination, token, the two statuses and what is known of its
  transaction (`NoTx` for "", `ZeroTx`, `TxHash`).
* **Buckets**: a bolt bucket as a function from keys to records.
* **ActivityStorage**: the two buckets.  One bolt transaction is one step.
* **Ethereum**: `chain[r]`, where the transaction of request r is.  The network
  is external: it includes, reverts, drops and re-announces transactions.
  `TxStatus` and `FetchBalanceData` are translated.
* **ExchangeSite**: `site[r]`, what the exchange knows of r.  The exchange is
  external; the status calls are those of `exchange/binance.go`, with a reported
  failure (`reply`) and the answer `Success = false`, which the code turns into
  "" without an error (`silent`).
* **ReserveCore**: a request is "new", "send", "record", "recorded" or "lost"
  (the process died, or the Record that ends a handler failed, whose error is
  ignored).  The sanity checks depend on amounts that nothing else
  reads, so a handler may be refused freely.
* **AuthFetcher**: the cycle.  `fpc` is the place in `FetchAllAuthData`, `list`
  the activities it read, `check[s]` the locals of the double check of source s
  (statuses of the first round, balances, statuses of the second), `todo` what
  `PersistSnapshot` has not written back yet.
* **ReserveData**: core, fetcher, exchange, network and crashes composed, with
  the properties and the inductive invariants.
* **TimeWindow**: the nonce corpus.  `GetNextNonce` returns its pointer, so
  numbers live in cells that a later call may change before a caller reads them.
* **SetRates**: concurrent `SetRates` handlers on one account, gas prices in
  steps of 10 gwei, next to the fetcher's verdicts and other pending activities.
  `getLastPendingSetrate` returns the address of its loop variable; with the Go
  version of `Godeps/Godeps.json` (1.9) one variable serves the whole loop, so the result
  is the last activity of the list.
* **PricingRates**: how `blockchain.SetRates` turns the rates asked for into
  bases and signed bytes, what is broadcast, and what the contract holds when a
  transaction is mined.  `setter[s]` is a call, `prPool` its transaction.
  Floating point is exact, a byte has `ByteSize` values (256 in the code).
* **RateData**: the block fetcher and the rate fetcher with the two reads of
  `currentBlock`, the 5 s test with its unsigned difference, `StoreRate`, bolt's
  `Seek`, and the merging of records into ranges by `data/reserve_data.go`.
* **ReserveRates**: the same for the statistics: one call per reserve, a newest
  block that may go back, failed calls, whose empty answer has block 0 and so is
  never stored.
* **DepositCycle**: the double check around a DepositStatus that takes several
  steps; both exchanges below answer through it.
* **HuobiDeposit**: `DepositStatus` of Huobi with the second transaction and the
  two intermediate buckets.
* **Bittrex**: the deposit history as Bittrex shows it, the match by amount and
  time, and the registration of an entry for an activity.
* **ExchangeDeposits**: the two above as one specification, each with its cycle.
* **Settings**, **Proposal**: the settings that one key proposes and another
  confirms, and the abstract promise.  The mapping takes a pending entry that is
  already in force (and only waits to be removed) as not proposed.
* **Authentication**: keys, their permissions, and the time window of a nonce.
  A comment (`http/server.go:95`) and `README.md:1218` say 10 s, the code 30 s.
* **Users**: the five buckets of `user_bolt.go`; each call is one transaction,
  but the addresses of a user are read in a second one that sees the state from
  before (`GetAddressesOfUser` inside `UpdateUserAddresses`).
* **Analytics**: records, local files and the archive; the job's place.
* **PriceData**: one bucket of versions with its fetcher, its pruning (prices)
  and readers that look up a version and read it in two transactions.  Both set
  their error inside the transaction, whose own nil replaces it, so a version
  that is missing is answered with empty data.
* **ControlData**: flags, exchange status, trade history, metrics, notifications.
* **HttpServer**: the handlers of the above with the key that signed them, and
  the services together (`ServicesSpec`).
* **StatLogs**: the chain as the environment, the log fetcher one stored log per
  step, the log buckets.  After a restart the cursor is the block of the last
  stored trade log, and `currentBlock` is the head or, when its first fetch fails,
  0, so that `SafeHead` wraps.  A log whose transaction fails is passed over while
  the cursor moves on; the country of a trade may be empty (`GetTradeGeo`).
  `AddEvent` is one turn of the loop of `GetLogs`, `Ordered` the walk of a bolt
  cursor over the keys of a range.  Two history variables: `early`, the blocks
  read too near the head while it was not known, and `dropped`, the logs whose
  transaction failed.
* **StatAggregation**: `agg[k]` is the place of aggregation k and the range or
  batch it read; `stats` the cells it stored.  Cursor, trades of the range, last
  trade, first trades, names and statistics are read and written in transactions
  of their own, with the log fetcher in between, and each of the writes may fail.
  A cell is a statistic, a key and a bucket of time; a trade adds 1 to each cell
  it belongs to.  The code keys the cells of all roles by bare addresses
  (`stat/fetcher.go:803-807`); here a key names its role, which takes tokens,
  users, reserves and wallets to have different addresses.  History variables:
  `missed[k]`, the trades the cursor of k passed without counting them; `spoilt`,
  whether a first trade may be wrong, or the country cursor went back to 0;
  `unlisted`, the names whose listing failed; `skipped`, the category logs whose
  last update failed or that were stored behind a range already read.
* **StatQueries**, **StatServer**: the reading side, from `stat_bolt.go` through
  `reserve_stat.go` to the handlers with their parameters.

Faults are a constant set, so that each run says which failures it includes:
`reply`, `silent`, `reject` (exchange), `node`, `status` (nodes; `status` is a
failing transaction status call), `disk` (a bolt transaction fails, the Record
that ends a handler included), `read` (a record on file cannot be read), `crash`,
`drop`, `race` (a Bittrex deposit next to another, or paid in by hand).  In the
statistics a scenario carries them: `crash`, `reorg`, `head` (the first fetch of
the head fails), `store` (a log cannot be stored), `geo` (no country is found),
`tables` (a write of the first trades fails), `names` (the listing of a country or
a wallet fails); a failing update of a cursor or of statistics is always possible.

## 3. Runs

| run | instance | checks | result |
|---|---|---|---|
| lifecycle | 1 request, all kinds, all faults | TypeOK, BucketsAgree, StatusesHonest, SettledSidesStay | holds, 336,132 states |
| pair | 2 requests, trade and deposit, `reply`, `disk` | ExchangeCoherent, DepositsCoherent, SnapshotMatchesBuckets | holds, 4.8 million states |
| settles | 1 request, all kinds, fair, no faults | PendingSettles, CycleEnds | holds |
| concurrent_deposits | 2 deposits, no faults | OneDepositAtATime | violated |
| rates | 2 SetRates handlers and 1 other activity with `node`; 2 calls on 2 tokens of one bulk; 3 blocks of rates; 2 reserves | TypeOK, VerdictsTrue, NonceIsUsable; RatesAsAsked; RatesCovered; ReserveRatesCovered | holds, 1.7 million states |
| setrates_foreign | 2 handlers, 1 deposit | ReplacesPendingSetrate | violated |
| setrates_status | 1 handler, `status` | VerdictsTrue | violated |
| deposits | Huobi: 1 deposit with all faults but `read`, 1 with `read` and `disk`, 2 with `drop`; Bittrex: 2 deposits, 2 credits, without faults and with them; fair | DepositsTypeOK; DoneIsCredited, DoneLeavesNoPending, SentOnce, DepositSettles; DoneHasOwnEntry, CreditIsSeen | holds, 145,375 states |
| huobi_lost | 1 deposit, fair, `drop` | LostDepositFails | violated |
| services | 4 calls on 3 values and 3 settings; 3 addresses and 2 users; 3 time points of analytic records; 4 ticks of prices, 2 versions kept; 1 exchange, 2 requests; 5 keys | ServicesTypeOK, TwoKeys, ImplementsProposal; UsersIndexed, PendingNotKyced; NoRecordLost; VersionsReadable; FlagIsLastStored, StatusKept | holds, 125,674 states |
| stable_params | 3 calls on the stable parameters | ConfirmsPending | violated |
| statistics | 5 blocks, 1 to 3 transactions, 1 restart, single and pairs of aggregations with their faults, 2 zones, 2 addresses, a country and none | StatTypeOK; StoredLogsCanonical, LossConfined; VolumesMatchLogs, UsersMatchLogs, HeatMapComplete; CategoryADayOld | holds, 353,081 states |

Three runs cover parts that share no state (rates: four, services: five,
deposits: two exchanges).  A variable says which part a behaviour is about; the
others stay as they are, so the run is the union of the parts' state spaces, not
their product.

The violated properties state what a test, a comment, a log line or the API
documentation says; `PROJECT.json` quotes each one.  In short:

* two Deposit handlers pass the pending test together;
* `SetRates` replaces the oldest pending activity, whatever it is (a deposit's
  nonce and price; a panic for a trade, which has no nonce);
* a failing status call makes a mined `set_rates` transaction "failed", because
  the mined nonce of the same round is past its own;
* a lost second Huobi transaction is stamped anew between the two rounds of the
  double check, so the two never agree on "failed" and the deposit stays pending;
* stable token parameters are compared and stored in different transactions,
  and a missing record compares equal to `{}`.

What the properties of the passing runs leave out on purpose, because the code
does not provide it:

* RatesAsAsked: a call that is not given the nonce of the transaction that waits
  is mined beside it, with bytes against the base that one may change, and sets
  other rates than asked.  It happens to overlapping calls with different fresh
  nonces, to a call that got the nonce of an older activity (setrates_foreign), and to one
  that finds no pending `set_rates` although its transaction waits: `crossed` names them.
* StoredLogsCanonical: while the head was never fetched the fetcher takes every
  block for safe; the blocks it reads too near the head (`early`) are left out.
* LossConfined: after a restart the log fetcher starts behind the block of the
  last stored trade log, so the rest of that block is lost; a log whose own
  transaction fails is lost too (`dropped`), and what an `early` block should have held.
* VolumesMatchLogs, UsersMatchLogs, HeatMapComplete: a range without trades is
  read in one transaction and the last trade in another.  A trade stored in the
  range in between is passed by the cursor and counted nowhere: it belongs to
  `missed`, not to the processed trades.
* UsersMatchLogs: after a failed write of the tables of first trades, or a trade
  passed over like that, the numbers of users are not compared, only those of trades.
* UsersMatchLogs, HeatMapComplete: a trade whose country is empty or cannot be
  listed is left out by the country aggregation.  When a batch has no other, the
  cursor is set to 0 and everything is counted again, so the countries are not
  compared after that (`rewound`).  A wallet whose listing failed is counted and
  not listed.
* CategoryADayOld: the logs of a range are applied newest first, so of two logs
  of an address within a day the older may win.  A log whose update fails is
  passed over, and for good when the cursor moves beyond it with a later one, as
  is a log stored after its range was read: `skipped` names those.
* StatusKept: overlapping changes of exchange statuses lose one another, and a
  name in another case is accepted and stored beside the exchange's own.
* FlagIsLastStored: a reader that found no flag stores the default and may undo
  what was set in between.
* VersionsReadable: a reader delayed by as many stores as there are versions
  kept, or that asks for a time before the first version, is answered with empty
  data as if that were the answer (one price is refused).
* TwoKeys: a missing target quantity, or missing stable parameters, are served as
  an empty record that no key sent.
* SentOnce: a bucket that cannot be read (`read`) counts as one without an entry,
  and the fund is sent again.
* DoneHasOwnEntry: the registration of an entry may fail unnoticed (`disk`), and
  any smaller payment matches an activity too.
* Trade history: new histories are stored under new keys while reader and writer
  use the first one, so what is served is the first history.

All runs say CHECK_DEADLOCK FALSE: the requests, calls or transactions of an
instance are used up at some point and the rest may then stand still, which is
how the program idles.

**Bounds.**  Requests, calls and deposits are finite sets.  Two are enough for
the interleavings at issue: a check of one handler against the record of
another, a write-back of one activity next to another, a replacement next to
what it replaces.  One exchange and one token: handlers and double checks of
different exchanges touch disjoint entries, and a collision needs the same
exchange and token.  `MaxOthers` bounds the other pending activities, `MaxSends`
the second transactions of a deposit (only crashes and failures lead to more
than one), `MaxClock` the milliseconds at which settings are proposed (2: same
or different), `MaxCredits` and `MaxHour` Bittrex's history (an entry before, at
and after an activity), `MaxNonce` the transactions of the pricing account (one
to replace and one after it), `MaxBlock`, `MaxRateBlock` and `RateHead` the
chain, `MaxTick`, `MaxTime`, `MaxMoment` and `MaxRateTime` the clocks,
`MaxCrashes` the restarts of the statistics (the second starts from the same
kind of state as the first).  `MaxBlock` also ends the walk of a log cursor that
wrapped beyond the chain, and the country cursor goes back to 0 once at most.
Windows are scaled with them: a day of 6 slots in hours of 2, a reorganisation
of 1 block, 2 versions kept, a rate unit of 1/10 with a byte of 8 values, so
that overflow, pruning, the end of a window and the change of a day all happen.
Deadlines (15 minutes) are sets of aged activities, the nonce window a flag:
time may pass or not at any point.  Symmetry is used over requests and calls
where no liveness property is checked.

**Fairness.**  `FairSpec` of ReserveData: weak fairness of the cycle (a ticker
starts it for ever and its calls have time limits), of the Record that ends a
started handler, of the exchange's own steps and of time; strong fairness of
inclusion, since a transaction may be dropped and announced again any number of
times but not for ever.  `HuobiFairness` and `BittrexFairness`: the cycle, time,
and the network's and the exchange's steps; strong fairness of Huobi's 15
minutes, which pass between two cycles and not within one.  With it
LostDepositFails holds when `StoreFinal` keeps the entry's time, so the violation
is due to the new stamp and to nothing else.  Nothing is assumed of clients or
crashes; liveness is stated without faults that the code does not recover from
(a rejected withdrawal keeps its activity pending for ever).

## 4. Proofs

| theorem | module | says |
|---|---|---|
| StorageInvHolds | StatusProofs | Spec => []StorageInv |
| TypeCorrect | StatusProofs | Spec => []TypeOK |
| BucketsAlwaysAgree | StatusProofs | Spec => []BucketsAgree |
| SettledSidesAlwaysStay | StatusProofs | Spec => SettledSidesStay |
| StatusesAlwaysHonest | StatusProofs | Spec => []StatusesHonest |
| SnapshotAlwaysMatches | CoherenceProofs | Spec => SnapshotMatchesBuckets |
| ExchangesAlwaysCoherent | CoherenceProofs | Spec => ExchangeCoherent, if `silent` is not among the faults |
| DepositsAlwaysCoherent | CoherenceProofs | Spec => DepositsCoherent, if `status` is not among the faults |
| SetRatesTyped | RatesProofs | Spec => []TypeOK |
| VerdictsAlwaysTrue | RatesProofs | Spec => []VerdictsTrue, if `status` is not among the faults |
| NonceAlwaysUsable | RatesProofs | Spec => NonceIsUsable |
| RatesAlwaysAsAsked | RatesProofs | PricingSpec => []RatesAsAsked |
| RatesAlwaysCovered | RatesProofs | RateDataSpec => []RatesCovered |
| ReserveRatesAlwaysCovered | RatesProofs | ReserveRatesSpec => []ReserveRatesCovered |
| DepositsTyped | DepositProofs | DepositsSpec => []DepositsTypeOK |
| DoneCredited, DoneRemoved | DepositProofs | DepositsSpec => []DoneIsCredited, []DoneLeavesNoPending |
| SentAtMostOnce | DepositProofs | DepositsSpec => SentOnce |
| DoneOwnsEntry | DepositProofs | DepositsSpec => []DoneHasOwnEntry |
| SettingsInvHolds | ServicesProofs | Spec => []SettingsInv |
| SettingsImplementProposal | ServicesProofs | Spec => ImplementsProposal |
| UsersInvHolds | ServicesProofs | UsersSpec => []UsersInv |
| UsersAlwaysIndexed | ServicesProofs | UsersSpec => []UsersIndexed |
| PendingNeverKyced | ServicesProofs | UsersSpec => []PendingNotKyced |
| ServicesRunSettings, ServicesRunUsers | ServicesProofs | ServicesSpec => Spec, UsersSpec |
| ServicesTyped | ServicesProofs | ServicesSpec => []ServicesTypeOK |
| SettingsTakeTwoKeys | ServicesProofs | ServicesSpec => []TwoKeys |
| RecordsNeverLost | ServicesProofs | ServicesSpec => NoRecordLost |
| VersionsAlwaysReadable | ServicesProofs | ServicesSpec => []VersionsReadable |
| FlagAlwaysLastStored, StatusAlwaysKept | ServicesProofs | ServicesSpec => []FlagIsLastStored, []StatusKept |
| StoredLogsAlwaysCanonical | StatProofs | StatSpec => []StoredLogsCanonical |
| LossAlwaysConfined | StatProofs | StatSpec => []LossConfined |
| CategoriesADayOld | AggregationProofs | StatSpec => []CategoryADayOld |
| StatInvAlways | AggregationProofs | StatSpec => []StatInv |
| StatTyped | AggregationProofs | StatSpec => []StatTypeOK |
| VolumesAlwaysMatch | AggregationProofs | StatSpec => []VolumesMatchLogs |
| UsersAlwaysMatch | AggregationProofs | StatSpec => []UsersMatchLogs |
| HeatMapsComplete | AggregationProofs | StatSpec => []HeatMapComplete |

They hold for every set of requests, exchanges, tokens, supported pairs, calls,
deposits, values, keys, addresses and users, every set of faults and every
bound, from the assumptions named in the modules that declare the constants.
Beyond types these say: the sets of requests of SetRates are finite and
the hashes `ZeroTx` and `OtherTx` are none of them (`RequestsAssumption`: a
program has handled finitely many requests); no Bittrex deposit is pending before
its time is known (`WaitingAssumption`); clocks start at 1, so their bounds are
not 0; the unit is positive and a byte has an even number of values.  Of the
statistics: `ReorgSafe` <= `DeployBlock` <= `MaxBlock` (7 and 5069586 in the code, so
that the safe head does not wrap once a head is known), block numbers and times fit a word, the
transactions of a scenario are trades or category changes of known addresses, a
missing parameter is not a number and not an address, no address is the name of a
country, a day is at least a millisecond, the zones are among the code's -11 .. 14
and differ from UTC by a day at most, and the last block's time and the three years
a client may ask for, with the days the zones add, fit a word together.

* *BucketsAgree* is not inductive: UpdateActivity touches the pending bucket
  only where the key is present, so it keeps the buckets in agreement only when
  the activity it writes is still pending.  `StorageInv` adds that nothing is
  stored under the key of a request that has not recorded (HandlersFresh), and
  that everything the cycle has not written back is still in the pending bucket
  (CycleOwnsList): only the cycle removes entries.
* *SettledSidesStay* needs the list the cycle holds to be fresh: the statuses it
  will write back, apart from the ones it changes, are those of the bucket
  (`StayInv`: ListIsFresh), and no trade has a transaction status (NoTradeOnChain).
* *StatusesHonest* follows the statuses on their way: drafts of handlers, the
  list, and the answers of both rounds are all true of the world when they are
  taken, and the world never takes a settled fact back (`HonestInv`:
  CopiesHonest, WorldIsNew, OrdersPlaced).
* *ExchangeCoherent, DepositsCoherent, SnapshotMatchesBuckets* (`CoherentInv`).  The
  balances of a source are fetched after its first round of answers and before
  its second.  What the first round calls done had happened by then, and facts
  are not taken back, so the balances show it (ToldDone); what the second round
  denies has not happened even later, so they do not (DeniedDone).  When the two
  rounds agree, the answers and the balances say the same, and the write-back
  turns the answers into records (ExchangeHolds; ReserveHolds for the network,
  which stores no answer about a transaction that is not final, so that there
  silence is the denial).  This needs that a record which is still pending was
  asked about or is done, hence ListIsFresh and BucketsAgree, and that a deposit
  knows its transaction and takes no other path at the exchange (DepositsPlain).
  What a valid snapshot lists was written (Written).  The two assumptions are
  needed: with the fault `silent`, or `status`, TLC violates the respective property
  on the instance of the run pair, since "" after a failed call reads as a denial.
* *VerdictsTrue* (`TruthInv`) follows a verdict from the two node calls of a round
  to the bucket.  A transaction below the mined nonce that is not mined can
  never be, so a verdict that was true stays true; what the round read is never
  more than the present nonce, and what it holds is what is stored (`RoundInv`).
  With failing status calls it is false, which the run setrates_status shows.
* *NonceIsUsable* (`NoncesInv`): every nonce below the mined one was used by some
  call, and a call that took its number from the current cell has one the
  counter has passed, so a used nonce ahead of the counter belongs to a call of
  another cell.  That the node's pending nonce exists at all is the pigeonhole
  principle (`PendingNonceFound`).  The attempt to prove the property in its
  first form, "a fresh nonce is unused", failed: it held in the run because there
  are two calls, and with four TLC finds that a caller of an earlier window, whose
  number moved on with the shared pointer, gets ahead of what the node counted
  for the new window.  The property now names that exception; it was checked
  with four calls as well (without the fetcher, 7.8 million states).
* *RatesAsAsked* (`PricingInv`): as long as nothing crossed there is one call and
  one waiting transaction, both with the next nonce or one that is used; the bytes of
  the ones with the next nonce fit the base they will find.  A call whose base
  was changed under it has a used nonce, and is never accepted.  The
  arithmetic (`RoundedNear`, `SignedByte`, `ByteIsClose`) is proved for any unit and
  any byte.
* *DoneIsCredited, DoneLeavesNoPending, SentOnce* (`HuobiInv`, `CycleInv`): the two
  answers of the double check are each true of the buckets and the chain when they
  were given, and a credit is never taken back; a call about to send has seen
  both buckets without an entry (or could not read them, which SentOnce leaves
  out), and no other call about the same deposit runs.
* *DoneHasOwnEntry* (`BittrexInv`): an activity that is answered "done" has its
  entry registered, and a registration is never overwritten.
* *ImplementsProposal*: every step adds one entry to an empty pending bucket,
  empties it, stores the pending entry, or leaves both buckets alone; only the
  stable parameters, left out of the mapping, store anything else.
* *TwoKeys* (`KeysInv`): a value in a bucket, or held by a call between two of its
  transactions, was sent by a call with the permission for it; calls keep
  their value and signer.  What a reader answers is in a bucket or empty.
* *UsersIndexed*: an address the chain announces becomes its own user and must
  not have a registration time by then, so `UsersInv` adds that every address
  with a time has a user (TimesRegistered).  That an address is listed under one
  user only rests on the deletion of the bucket of its former user.
* *NoRecordLost* (`RecordsInv`): a time has one record; the file the job works on
  exists until it is removed, and is removed only when the archive holds all of
  it, which is compared by size: what arrived is a part of the file, and a part
  of equal size is the whole.
* *VersionsReadable* (`BooksInv`, `ReaderInv`): versions that are missing were
  pruned, so enough later ones were stored, and a round that is under way stores the
  newest.  Pruning takes the oldest, so what a reader looked up is the newest of all
  that was stored by its time, or everything stored by its time was pruned.
* *FlagIsLastStored* (`FlagsInv`): the bucket has one flag at most, whatever its key.
* *StatusKept* (`StatusInv`): unless changes overlapped, a change under way holds
  the stored map and is the only one; changes start once all exchanges are known.

* *RatesCovered, ReserveRatesCovered*: a loop over the records is a fold.  The
  library's induction theorems take a predicate as a parameter, which the provers
  cannot instantiate; `FoldProofs` restates induction for a *set* of numbers
  (`LeastOf`, `InductionOn`) and proves once that a left fold is its table of partial
  results (`FoldTable`).  The loop invariants `Extended` and `Merged` then say what
  the ranges built from the first n records cover.  The histories stay ordered
  (`RateHistoryInv`, `RdHistoryInv`), also when the newest block goes back.
* *StoredLogsCanonical, LossConfined* (`LogInv`).  The loop of `GetLogs` is proved
  to emit exactly the logs of the blocks asked for, almost in the order of their
  keys: a category log overtakes at most the trade that is still open.  So what is still to be
  stored is not behind what is stored by more than that, the duplicate test
  drops only what is stored or lies behind a trade of its block, and blocks up to
  the cursor and those in hand are out of reach of a reorganisation or `early`: only
  a head of 0 lets the fetcher pass the safe head, and it may pass the end of the
  chain with it, where the cursor is ahead of every block still to come.
* *CategoryADayOld* (`BucketInv`, `CatInv`).  A run holds logs of one range of at
  most a day above its cursor, newest first, and what it has applied is in the range
  too; every stored log up to the time the processor has read, or will not read, was
  applied, is still to be applied in the run, or is in `skipped` (`CatInv`).  The
  attempt to prove the property in its first form failed: a log whose update fails
  is passed over when the cursor moves, which the run missed with one address and
  shows with two.  The property names the logs passed over.
* *StatTypeOK* (`StatInv`, which adds the types of the aggregations' tables and
  cells, `AggPart`): that the first trades are found with CHOOSE rests on batches
  being finite and not empty.
* *VolumesMatchLogs, UsersMatchLogs* (`ExactInv`).  A batch holds the next stored
  trades behind the cursor without a gap, those the country aggregation leaves out
  excepted (BatchPart), which rests on logs being stored with growing times.  As long
  as nothing spoilt them, the tables of first trades hold no time but that of the
  first stored trade of the user, or of the user's day (FirstsPart), and an
  aggregation that counts users has put its trades into them before it counts
  (TablePart); so it does not matter which aggregation came first.  A cell then counts
  exactly the processed trades that fall into it (CellPart): SetStat stores the cells
  of a batch and the cursor in one transaction, and counting a batch adds the
  disjoint trades.  A step that neither counts nor moves a cursor changes nothing the
  invariant speaks of (`CountsNothing`).  What clients see follows from arithmetic:
  windows of the longest length a handler serves, side by side, meet every bucket,
  truncated and shifted by the zone as it is (`WindowsServed`, `GatheredIs`).

* *HeatMapComplete* (`ExactInv` and `ListedPart`).  A heat map is built from the
  list of countries, which is written in transactions of its own; it is complete
  because the country or wallet of a processed trade is listed, or its listing
  failed and it is a wallet, that of a batch is listed before the batch is counted,
  and no name is taken back (ListedPart).  That
  the totals add up is a fact about sums: the trades of a cell are those of its
  buckets, and every trade of the window has one bucket, one country, one user, so
  the totals are sums of the sizes of disjoint sets (`TicksAddUp`, `CountrySplits`,
  `UserSplits`, `TokenSplits`, `NamesAddUp`).  A sum over a set is a fold;
  `FoldProofs` describes it by the table of the sums of its subsets (`SumIsTable`)
  and proves that the sizes of disjoint parts add up by induction over a set of
  numbers (`SumOfParts`).

The inductive invariants were first checked with TLC as invariants of the
instances of the runs.

Only model-checked: the liveness properties, since fairness is out of the prover's
reach.  Every invariant and every other action property of the passing runs is stated
by a theorem.

## 5. Not modelled, and the plan

Not modelled: JSON and HTTP parsing, signatures as computations, amounts and
prices (hence the sanity checks, caps and daily limits), generated contract
bindings and their wrappers, Liqui, Bitfinex and the stable exchange (not set up
by the configuration, or stubs), exchange endpoints, the RAM storages used by
tests, feeds, configuration and commands.  They are I/O, generated, or unused by
the server.  Of the daily limits one thing was seen on the way: `ExceedDailyLimit`
(`stat/reserve_stat.go:453`) declares `addrs` again in its inner block, so for a
registered user no address is summed up.  Equal nanosecond readings of two
activities, which would share a bolt key, are excluded.
