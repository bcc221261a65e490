----------------------------- MODULE StatQueries ----------------------------
(***************************************************************************)
(* What the statistics answer: the readers of stat/storage/stat_bolt.go,   *)
(* and stat/reserve_stat.go, which limits the window of time and adds up.  *)
(***************************************************************************)
EXTENDS StatAggregation

CONSTANTS PerMilli,   \* nanoseconds in a millisecond
          Tokens      \* the tokens of the network

\* A day is at least a millisecond, and the years a client may ask for fit a word.
ASSUME QueriesAssumption ==
  /\ PerMilli \in Nat \ {0} /\ PerMilli <= Day
  /\ WordSize > (MaxBlock + 1) * SlotsPerBlock + 1100 * Day

\* The cells of one key and time frame in a range of time.
Ticks(k, key, f, from, to) ==
  LET cells == {c \in DOMAIN stats : c[1] = k /\ c[2] = key /\ c[3] = f /\ from <= c[4] /\ c[4] <= to}
  IN  [b \in {c[4] : c \in cells} |-> stats[<<k, key, f, b>>]]

\* stat_bolt.go.
StoredAssetVolume(w, freq, token)      == Ticks("volume", <<"token", token>>, <<freq, 0>>, w[1], w[2])
StoredUserVolume(w, freq, user)        == Ticks("volume", <<"user", user>>, <<freq, 0>>, w[1], w[2])
StoredReserveVolume(w, freq, r, token) == Ticks("volume", <<"reserve", r, token>>, <<freq, 0>>, w[1], w[2])
StoredTokenHeatmap(w, freq, c, token)  == Ticks("volume", <<"heat", c, token>>, <<freq, 0>>, w[1], w[2])
StoredBurnFee(w, freq, r)              == Ticks("burn", <<"reserve", r>>, <<freq, 0>>, w[1], w[2])
StoredWalletFee(w, freq, r, wallet)    == Ticks("burn", <<"fee", r, wallet>>, <<freq, 0>>, w[1], w[2])
StoredTradeSummary(w, zone)            == Ticks("summary", <<"trade_summary">>, <<"utc", zone>>, w[1], w[2])
StoredWalletStats(w, wallet, zone)     == Ticks("wallet", <<wallet>>, <<"utc", zone>>, w[1], w[2])
StoredCountryStats(w, c, zone)         == Ticks("country", <<c>>, <<"utc", zone>>, w[1], w[2])
StoredCountries                        == listed \cap Countries
StoredWalletAddresses                  == listed \ Countries

\* The ticks of a window added up.
Totals(ticks) ==
  [trades |-> SumFunction([b \in DOMAIN ticks |-> ticks[b].trades]),
   users  |-> SumFunction([b \in DOMAIN ticks |-> ticks[b].users])]

\* The volume of every user in the window.
StoredUserList(w, zone) ==
  LET volume(u) == Ticks("user", <<u>>, <<"utc", zone>>, w[1], w[2])
      users     == {u \in {c[2][1] : c \in {d \in DOMAIN stats : d[1] = "user"}} : DOMAIN volume(u) # {}}
  IN  [u \in users |-> Totals(volume(u)).trades]

------------------------------------------------------------------------------
\* reserve_stat.go.  Clients give milliseconds, the storage keeps nanoseconds.
\* An answer is a set: empty when the request is refused, else the data alone.
WindowLimit == [M |-> Day, H |-> 180 * Day, D |-> 3 * 365 * Day]

\* The length of the window is unsigned.
validateTimeWindow(from, to, freq) ==
  {w \in {<<(from * PerMilli) % WordSize, (to * PerMilli) % WordSize>>} :
     /\ freq \in DOMAIN WindowLimit
     /\ (WordSize + w[2] - w[1]) % WordSize <= WindowLimit[freq]}

\* What read answers for the window, when it is accepted.
Within(from, to, freq, read(_)) == {read(w) : w \in validateTimeWindow(from, to, freq)}

\* GetNetworkToken.
Supported(token) == token \in Tokens

GetAssetVolume(from, to, freq, token) ==
  IF Supported(token) THEN Within(from, to, freq, LAMBDA w : StoredAssetVolume(w, freq, token)) ELSE {}
GetBurnFee(from, to, freq, r) == Within(from, to, freq, LAMBDA w : StoredBurnFee(w, freq, r))
GetWalletFee(from, to, freq, r, wallet) ==
  Within(from, to, freq, LAMBDA w : StoredWalletFee(w, freq, r, wallet))
GetUserVolume(from, to, freq, user) == Within(from, to, freq, LAMBDA w : StoredUserVolume(w, freq, user))
GetUsersVolume(from, to, freq, users) ==
  Within(from, to, freq, LAMBDA w : [u \in users |-> StoredUserVolume(w, freq, u)])
GetReserveVolume(from, to, freq, r, token) ==
  Within(from, to, freq, LAMBDA w : StoredReserveVolume(w, freq, r, token))
GetTradeSummary(from, to, zone) == Within(from, to, "D", LAMBDA w : StoredTradeSummary(w, zone))
GetGeoData(from, to, c, zone)   == Within(from, to, "D", LAMBDA w : StoredCountryStats(w, c, zone))
GetWalletStats(from, to, wallet, zone) ==
  Within(from, to, "D", LAMBDA w : StoredWalletStats(w, wallet, zone))
GetUserList(from, to, zone)     == Within(from, to, "D", LAMBDA w : StoredUserList(w, zone))

\* The totals of the listed countries that have any.
OfCountries(ticksOf(_)) ==
  [c \in {d \in StoredCountries : DOMAIN ticksOf(d) # {}} |-> Totals(ticksOf(c))]

GetHeatMap(from, to, zone) ==
  Within(from, to, "D", LAMBDA w : OfCountries(LAMBDA c : StoredCountryStats(w, c, zone)))
GetTokenHeatmap(from, to, token, freq) ==
  IF Supported(token)
  THEN Within(from, to, "D", LAMBDA w : OfCountries(LAMBDA c : StoredTokenHeatmap(w, freq, c, token)))
  ELSE {}

\* GetTradeLogs of reserve_stat.go: at most MAX_GET_RATES_PERIOD, a day.
TradeLogsOf(from, to) ==
  IF (WordSize + to - from) % WordSize <= Day \div PerMilli
  THEN {GetTradeLogs(from * PerMilli, to * PerMilli)} ELSE {}

\* GetCatLogs of reserve_stat.go asks the storage, which serves at most
\* MAX_GET_LOG_PERIOD, a day; GetTradeLogs has the same limit there and here.
CatLogsOf(from, to) ==
  IF (WordSize + to - from) % WordSize <= Day THEN {GetCatLogs(from, to)} ELSE {}
=============================================================================
