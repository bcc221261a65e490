----------------------------- MODULE StatServer -----------------------------
(***************************************************************************)
(* The HTTP handlers of the statistics (http/server.go), and what a client *)
(* sees through them against what the stored logs say.  A request q is a   *)
(* record of parameters, NoParam where one is missing.                     *)
(***************************************************************************)
EXTENDS StatQueries

CONSTANTS NoParam      \* a parameter that is not given, or cannot be parsed

\* GetTimepoint, in milliseconds.
PresentTime == ((Len(chain) + 1) * SlotsPerBlock - 1) \div PerMilli

ParseUint(x) == IF x = NoParam THEN 0 ELSE x
OrNow(x)     == IF ParseUint(x) = 0 THEN PresentTime ELSE x

\* The start is required, the end is the present by default.
ValidateTimeInput(q) ==
  IF q.fromTime = NoParam THEN {} ELSE {<<q.fromTime, OrNow(q.toTime)>>}

\* The window and the time zone, 0 by default, of a valid request.
InZone(q) ==
  LET zone == ParseUint(q.timeZone)
  IN  IF zone \in -11 .. 14 THEN {<<t[1], t[2], zone>> : t \in ValidateTimeInput(q)} ELSE {}

------------------------------------------------------------------------------
GetAssetVolumeHandler(q) ==
  GetAssetVolume(ParseUint(q.fromTime), ParseUint(q.toTime), q.freq, q.asset)
GetBurnFeeHandler(q) ==
  IF q.reserveAddr = NoParam THEN {}
  ELSE GetBurnFee(ParseUint(q.fromTime), ParseUint(q.toTime), q.freq, q.reserveAddr)
GetWalletFeeHandler(q) ==
  GetWalletFee(ParseUint(q.fromTime), ParseUint(q.toTime), q.freq, q.reserveAddr, q.walletAddr)
GetUserVolumeHandler(q) ==
  IF q.userAddr = NoParam THEN {}
  ELSE GetUserVolume(ParseUint(q.fromTime), ParseUint(q.toTime), q.freq, q.userAddr)
GetUsersVolumeHandler(q) ==
  IF q.userAddr = NoParam THEN {}
  ELSE GetUsersVolume(ParseUint(q.fromTime), ParseUint(q.toTime), q.freq, q.userAddr)
GetReserveVolumeHandler(q) ==
  IF NoParam \in {q.reserveAddr, q.token} \/ ~Supported(q.token) THEN {}
  ELSE GetReserveVolume(ParseUint(q.fromTime), ParseUint(q.toTime), q.freq, q.reserveAddr, q.token)
GetTokenHeatmapHandler(q) ==
  IF q.token = NoParam THEN {}
  ELSE UNION {GetTokenHeatmap(t[1], t[2], q.token, q.freq) : t \in ValidateTimeInput(q)}

GetTradeSummaryHandler(q) == UNION {GetTradeSummary(w[1], w[2], w[3]) : w \in InZone(q)}
GetCountryStatsHandler(q) == UNION {GetGeoData(w[1], w[2], q.country, w[3]) : w \in InZone(q)}
GetHeatMapHandler(q)      == UNION {GetHeatMap(w[1], w[2], w[3]) : w \in InZone(q)}
GetWalletStatsHandler(q)  ==
  IF checkWalletAddress(q.walletAddr)
  THEN UNION {GetWalletStats(w[1], w[2], q.walletAddr, w[3]) : w \in InZone(q)} ELSE {}

\* The time zone is required and any is accepted; the key is checked elsewhere.
GetUserListHandler(q) ==
  IF q.timeZone = NoParam THEN {}
  ELSE UNION {GetUserList(t[1], t[2], q.timeZone) : t \in ValidateTimeInput(q)}

GetCountriesHandler     == {StoredCountries}
GetWalletAddressHandler == {StoredWalletAddresses}
\* The window of category logs is used as it is given, unlike that of trade logs.
CatLogsHandler(q)       == CatLogsOf(ParseUint(q.fromTime), OrNow(q.toTime))
TradeLogsHandler(q)     == TradeLogsOf(ParseUint(q.fromTime), OrNow(q.toTime))

------------------------------------------------------------------------------
\* What the stored logs say.
NewHere(l)   == \A m \in tradeLogs : m.data.user = l.data.user => Timestamp(l) <= Timestamp(m)
FirstHere(l, z) ==
  \A m \in tradeLogs : DayOf(m, z) = DayOf(l, z) => Timestamp(l) <= Timestamp(m)

Expected(k, key, f) ==
  LET mine    == {l \in Processed(k) : \E c \in CellsOf(k, l) : c[2] = key}
      here(b) == {l \in mine : TimestampFor(Timestamp(l), f) = b}
      metric  == k \in MetricKinds
  IN  [b \in {TimestampFor(Timestamp(l), f) : l \in mine} |->
         [trades   |-> Cardinality(here(b)),
          users    |-> Cardinality({l \in here(b) : metric /\ FirstHere(l, f[2])}),
          newUsers |-> Cardinality({l \in here(b) : metric /\ NewHere(l)})]]

TradeData == {tx.data : tx \in {t \in UNION {Range(s[2]) : s \in Scenarios} : t.type = "trade"}}
Traders   == {d.user : d \in TradeData}
Reserves  == {d.reserve : d \in TradeData}
Wallets   == {d.wallet : d \in TradeData}

\* No address is a parameter that is missing, or the name of a country.
ASSUME ServerAssumption ==
  /\ NoParam \notin Int /\ NoParam \notin Traders \cup Reserves \cup Tokens \cup {Traders}
  /\ Wallets \cap Countries = {}

\* The windows a client asks for, one after the other, to see everything.
LastTime      == ((MaxBlock + 1) * SlotsPerBlock + 4 * Day) \div PerMilli
Windows(freq) ==
  LET length == WindowLimit[freq] \div PerMilli
  IN  {<<d * length, d * length + length>> : d \in 0 .. LastTime \div length}

\* A request with these parameters only, and with the time zone as well.
Query(w, freq) ==
  [fromTime |-> w[1], toTime |-> w[2], freq |-> freq, timeZone |-> NoParam, asset |-> NoParam, token |-> NoParam,
   reserveAddr |-> NoParam, walletAddr |-> NoParam, userAddr |-> NoParam, country |-> NoParam]
ZoneQuery(w, zone) == [Query(w, "D") EXCEPT !.timeZone = zone]
DayWindow(l)       == <<Floor(Timestamp(l), Day), Floor(Timestamp(l), Day) + Day>>

\* What the answers to the windows add up to.
Pairs(ticks)      == {<<b, ticks[b]>> : b \in DOMAIN ticks}
Gathered(answers) == UNION {UNION {Pairs(ticks) : ticks \in answers[w]} : w \in DOMAIN answers}

\* Without sound tables of first trades only the numbers of trades are compared.
Sound(pairs) == IF "tables" \in spoilt THEN {<<p[1], p[2].trades>> : p \in pairs} ELSE pairs

\* The trades a heat map counts, and the processed ones whose bucket of time is in a window.
TradesOf(map)     == SumFunction([c \in DOMAIN map |-> map[c].trades])
InWindow(k, f, w) ==
  {l \in Processed(k) :
     \E c \in CellsOf(k, l) : c[3] = f /\ w[1] * PerMilli <= c[4] /\ c[4] <= w[2] * PerMilli}

(***************************************************************************)
(* The type invariant of the log storage and the statistics.               *)
(***************************************************************************)
StatTypeOK ==
  /\ Len(chain) \in DeployBlock .. MaxBlock
  /\ currentBlock \in 0 .. MaxBlock /\ block \in 0 .. WordSize
  /\ \A l \in tradeLogs : l.data \in TradeData /\ l.country \in Countries
  /\ \A k \in DOMAIN agg : agg[k].pc \in {"idle", "start", "read", "last", "ever", "day", "load", "set"}
  /\ cursor \in [group -> Nat]
  /\ IsMap(firstEver, Traders, Nat)
  /\ \A c \in DOMAIN stats : stats[c] \in [trades : Nat, users : Nat, newUsers : Nat]

(***************************************************************************)
(* VolumesMatchLogs: the volumes and fees a client collects window by      *)
(* window count every processed trade exactly once under every key it      *)
(* belongs to, through restarts, failed transactions and ranges without    *)
(* trades, and no window with a trade is refused.  Not processed, and not  *)
(* counted, is a trade stored between the two reads of an empty range.     *)
(***************************************************************************)
VolumesMatchLogs ==
  \A f \in Freqs :
    LET logged(k, key) == Pairs(Expected(k, key, <<f, 0>>))
    IN  /\ "volume" \in group =>
             /\ \A t \in Tokens :
                  Gathered([w \in Windows(f) |-> GetAssetVolumeHandler([Query(w, f) EXCEPT !.asset = t])])
                    = logged("volume", <<"token", t>>)
             /\ \A u \in Traders :
                  /\ Gathered([w \in Windows(f) |-> GetUserVolumeHandler([Query(w, f) EXCEPT !.userAddr = u])])
                       = logged("volume", <<"user", u>>)
                  /\ Gathered([w \in Windows(f) |->
                                  {all[u] : all \in GetUsersVolumeHandler([Query(w, f) EXCEPT !.userAddr = Traders])}])
                       = logged("volume", <<"user", u>>)
             /\ \A r \in Reserves, t \in Tokens :
                  Gathered([w \in Windows(f) |->
                               GetReserveVolumeHandler([Query(w, f) EXCEPT !.reserveAddr = r, !.token = t])])
                    = logged("volume", <<"reserve", r, t>>)
        /\ "burn" \in group => \A r \in Reserves :
             /\ Gathered([w \in Windows(f) |-> GetBurnFeeHandler([Query(w, f) EXCEPT !.reserveAddr = r])])
                  = logged("burn", <<"reserve", r>>)
             /\ \A a \in Wallets :
                  Gathered([w \in Windows(f) |->
                               GetWalletFeeHandler([Query(w, f) EXCEPT !.reserveAddr = r, !.walletAddr = a])])
                    = logged("burn", <<"fee", r, a>>)

(***************************************************************************)
(* UsersMatchLogs: the summaries, wallet and country statistics count      *)
(* every processed trade once, a new user at the first trade ever and a    *)
(* user of the day at the first trade of the day, although the tables of   *)
(* first trades are shared by aggregations that are not equally far.  The  *)
(* users are wrong only after a failed write of those tables or after a    *)
(* trade that was passed over unread, the countries only after their       *)
(* cursor went back.                                                       *)
(***************************************************************************)
UsersMatchLogs ==
  \A z \in Zones :
    LET logged(k, key)  == Sound(Pairs(Expected(k, key, <<"utc", z>>)))
        served(answers) == Sound(Gathered(answers))
    IN  /\ "summary" \in group =>
             served([w \in Windows("D") |-> GetTradeSummaryHandler(ZoneQuery(w, z))])
               = logged("summary", <<"trade_summary">>)
        /\ "wallet" \in group => \A a \in Wallets \ {NoWallet} :
             served([w \in Windows("D") |-> GetWalletStatsHandler([ZoneQuery(w, z) EXCEPT !.walletAddr = a])])
               = logged("wallet", <<a>>)
        /\ "country" \in group /\ "rewound" \notin spoilt => \A c \in Countries :
             served([w \in Windows("D") |-> GetCountryStatsHandler([ZoneQuery(w, z) EXCEPT !.country = c])])
               = logged("country", <<c>>)

(***************************************************************************)
(* HeatMapComplete: in every window the totals of the heat maps and of the *)
(* user list are the processed trades of the window: no country, wallet or *)
(* user is counted and then not listed, although the lists are written by  *)
(* transactions of their own, and by the country aggregation for the token *)
(* heat map too; the trade logs served day by day are all there are.       *)
(* Excepted are a wallet whose listing failed, the heat map once the       *)
(* country cursor went back, and in the token heat map the trades the      *)
(* country aggregation passed over, unless their country is listed for     *)
(* another trade.                                                          *)
(***************************************************************************)
HeatMapComplete ==
  /\ UNION {UNION {Range(logs) : logs \in TradeLogsHandler(Query(w, "M"))} : w \in Windows("M")} = tradeLogs
  /\ "country" \in group => {l.country : l \in Processed("country")} \subseteq UNION GetCountriesHandler
  /\ "wallet" \in group =>
       {l.data.wallet : l \in Processed("wallet")}
         \subseteq (UNION GetWalletAddressHandler) \cup {NoWallet} \cup unlisted
  /\ \A w \in Windows("M") \cup Windows("D") :
       /\ \A z \in Zones :
            /\ "country" \in group /\ "rewound" \notin spoilt => \E map \in GetHeatMapHandler(ZoneQuery(w, z)) :
                 TradesOf(map) = Cardinality(InWindow("country", <<"utc", z>>, w))
            /\ "user" \in group => \E list \in GetUserListHandler(ZoneQuery(w, z)) :
                 SumFunction(list) = Cardinality(InWindow("user", <<"utc", z>>, w))
       /\ {"country", "volume"} \subseteq group /\ cursor["country"] >= cursor["volume"] =>
            \A t \in Tokens, f \in Freqs :
              \E map \in GetTokenHeatmapHandler([Query(w, f) EXCEPT !.token = t]) :
                TradesOf(map) =
                  Cardinality({l \in InWindow("volume", <<f, 0>>, w) :
                                 AssetOf(l) = t /\ (l \in missed["country"] => l.country \in StoredCountries)})

(***************************************************************************)
(* CategoryADayOld: category logs of one range are applied newest first,   *)
(* so an older category may win, and a log whose update failed is passed   *)
(* over for good when a later one succeeds, as is a log that is stored     *)
(* behind the range already read; but the category of an address is always *)
(* that of a stored log, which a client can look up, and no processed log  *)
(* of the same address, other than the ones passed over, is more than a    *)
(* day newer.                                                              *)
(***************************************************************************)
CategoryADayOld ==
  "cat" \in group =>
    \A a \in DOMAIN category :
      \E l \in catLogs :
        /\ \E logs \in CatLogsHandler(Query(DayWindow(l), "D")) : l \in Range(logs)
        /\ l.data = [addr |-> a, cat |-> category[a]]
        /\ \A m \in catLogs \ skipped :
             m.data.addr = a /\ Timestamp(m) <= cursor["cat"] => Timestamp(m) <= Timestamp(l) + Day
=============================================================================
