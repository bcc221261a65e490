----------------------------- MODULE ControlData -----------------------------
(***************************************************************************)
(* Small tables of data/storage/bolt.go that the HTTP handlers write while *)
(* others read them: the flags that hold or enable rebalancing and setting *)
(* rates, the status of the exchanges, and what the analytics and the      *)
(* exchanges report (metrics, notifications, trade history).               *)
(*                                                                         *)
(* table is the one this behaviour is about; they do not interact.         *)
(***************************************************************************)
EXTENDS Authentication, Buckets, FiniteSets

CONSTANTS Venues,       \* the exchanges of the configuration
          Updates,      \* concurrent requests to change a status or read a flag
          Reports,      \* what is reported
          MaxMoment     \* bound: time points

ASSUME ControlAssumption == MaxMoment \in Nat \ {0}

VARIABLES table,        \* one of Tables
          moment,       \* the present time point
          flags,        \* ENABLE_REBALANCE or SETRATE_CONTROL: time -> status
          lastFlag,     \* what was stored last
          status,       \* the last entry of EXCHANGE_STATUS: name -> up?
          wanted,       \* what was last asked for, by name
          overlap,      \* two changes of the status have overlapped
          adding,       \* the exchanges AddExchange has not seen yet
          update,       \* update[u]: how far a request is, and what it read
          history,      \* TRADE_HISTORY: time -> exchange -> trades
          metrics,      \* METRIC_BUCKET: time -> report
          notices       \* EXCHANGE_NOTIFICATIONS: exchange -> last report

flagVars    == <<flags, lastFlag>>
statusVars  == <<status, wanted, overlap, adding>>
reportVars  == <<history, metrics, notices>>
controlVars == <<table, moment, flagVars, statusVars, update, reportVars>>

Tables == {"rebalance", "setrate", "status", "history", "metric", "notice"}

\* A name is an exchange and how it is written: TRUE as in the configuration.
Names    == Venues \X BOOLEAN
NoUpdate == [pc |-> "idle", read |-> [n \in {} |-> n], name |-> {}, up |-> TRUE]

ControlInit ==
  /\ table \in Tables
  /\ moment = 1
  /\ flags = [t \in {} |-> t] /\ lastFlag = FALSE
  /\ status = [n \in {} |-> n] /\ wanted = status /\ overlap = FALSE
  /\ adding = Venues
  /\ update = [u \in Updates |-> NoUpdate]
  /\ history = [t \in {} |-> t] /\ metrics = history /\ notices = history

\* Time passes; only these tables have keys it matters for.
ControlTick ==
  /\ table \in {"rebalance", "setrate", "history"} /\ moment < MaxMoment
  /\ moment' = moment + 1
  /\ UNCHANGED <<table, flagVars, statusVars, update, reportVars>>

FirstKey(bucket) == {t \in DOMAIN bucket : \A u \in DOMAIN bucket : t <= u}

------------------------------------------------------------------------------
\* Mutant of StoreControl: old entries are not pruned.
StoreControlOnly(up) ==
  /\ flags' = Put(flags, moment, up)
  /\ lastFlag' = up

\* StoreRebalanceControl, StoreSetrateControl: the first entry is replaced.
StoreControl(up) ==
  /\ flags' = Put([t \in DOMAIN flags \ FirstKey(flags) |-> flags[t]], moment, up)
  /\ lastFlag' = up

\* The flag of a table is set.
SetFlag(flag, up) ==
  /\ table = flag
  /\ StoreControl(up)
  /\ UNCHANGED <<table, moment, statusVars, update, reportVars>>

HoldRebalance(r)   == Authenticated(r, {"ConfirmConf"}) /\ SetFlag("rebalance", FALSE)
EnableRebalance(r) == Authenticated(r, {"ConfirmConf"}) /\ SetFlag("rebalance", TRUE)
HoldSetrate(r)     == Authenticated(r, {"ConfirmConf"}) /\ SetFlag("setrate", FALSE)
EnableSetrate(r)   == Authenticated(r, {"ConfirmConf"}) /\ SetFlag("setrate", TRUE)

\* GetRebalanceControl, GetSetrateControl: the first entry is read; without one
\* the default is stored in a write transaction opened inside the read one.
GetControl(u, flag) ==
  /\ table = flag
  /\ update[u].pc = "idle" /\ flags = [t \in {} |-> t]
  /\ update' = [update EXCEPT ![u].pc = "default"]
  /\ UNCHANGED <<table, moment, flagVars, statusVars, reportVars>>

GetRebalanceStatus(r, u) == Authenticated(r, Permissions) /\ GetControl(u, "rebalance")
GetSetrateStatus(r, u)   == Authenticated(r, Permissions) /\ GetControl(u, "setrate")

StoreDefault(u) ==
  /\ update[u].pc = "default"
  /\ StoreControl(FALSE)
  /\ update' = [update EXCEPT ![u] = NoUpdate]
  /\ UNCHANGED <<table, moment, statusVars, reportVars>>

\* What a status request is answered with.
FlagServed(r) ==
  Answer(r, IF FirstKey(flags) = {} THEN {FALSE} ELSE {flags[t] : t \in FirstKey(flags)})

------------------------------------------------------------------------------
\* Mutant of AddExchange: the exchange is up after every start.
AddExchangeUp(e) ==
  /\ table = "status" /\ e \in adding
  /\ status' = Put(status, <<e, TRUE>>, TRUE)
  /\ adding' = adding \ {e}
  /\ UNCHANGED <<table, moment, flagVars, wanted, overlap, update, reportVars>>

\* AddExchange, while the program starts: an exchange without a status is up.
AddExchange(e) ==
  /\ table = "status" /\ e \in adding
  /\ status' = IF <<e, TRUE>> \in DOMAIN status THEN status ELSE Put(status, <<e, TRUE>>, TRUE)
  /\ adding' = adding \ {e}
  /\ UNCHANGED <<table, moment, flagVars, wanted, overlap, update, reportVars>>

\* UpdateExchangeStatus of data/reserve_data.go: the statuses are read in one
\* transaction and written in another.
ReadStatus(u, name, up) ==
  /\ table = "status" /\ adding = {}
  /\ update[u].pc = "idle"
  /\ update' = [update EXCEPT ![u] = [pc |-> "read", read |-> status, name |-> name, up |-> up]]
  /\ overlap' = (overlap \/ \E v \in Updates : update[v].pc = "read")
  /\ UNCHANGED <<table, moment, flagVars, status, wanted, adding, reportVars>>

\* The handler checks the name in lower case and passes it on as it was given.
UpdateExchangeStatus(r, u, name, up) ==
  Authenticated(r, {"ConfirmConf"}) /\ ReadStatus(u, name, up)

WriteStatus(u) ==
  /\ update[u].pc = "read"
  /\ status' = Put(update[u].read, update[u].name, update[u].up)
  /\ wanted' = Put(wanted, update[u].name, update[u].up)
  /\ update' = [update EXCEPT ![u] = NoUpdate]
  /\ UNCHANGED <<table, moment, flagVars, overlap, adding, reportVars>>

\* The process dies and starts again.
RestartStatus ==
  /\ table = "status"
  /\ adding' = Venues
  /\ update' = [u \in Updates |-> NoUpdate]
  /\ UNCHANGED <<table, moment, flagVars, status, wanted, overlap, reportVars>>

\* The handler GetExchangesStatus asks for no signature.
GetExchangesStatus == status

------------------------------------------------------------------------------
\* StoreTradeHistory: the exchanges that answered replace theirs in what the
\* first entry has; the result is a new entry.
StoreTradeHistory(data) ==
  LET old == UNION {{history[t]} : t \in FirstKey(history)}
      merged == IF old = {} THEN data
                ELSE LET first == CHOOSE h \in old : TRUE
                     IN  [e \in DOMAIN first \cup DOMAIN data |-> IF e \in DOMAIN data THEN data[e] ELSE first[e]]
  IN  history' = Put(history, moment, merged)

\* FetchAllTradeHistory: every exchange that answers, in one entry.
FetchAllTradeHistory ==
  /\ table = "history" /\ moment \notin DOMAIN history
  /\ \E answered \in SUBSET Venues : \E data \in [answered -> Reports] : StoreTradeHistory(data)
  /\ UNCHANGED <<table, moment, flagVars, statusVars, update, metrics, notices>>

\* GetTradeHistory of the storage reads the first entry.
GetTradeHistory(r) == Answer(r, {history[t] : t \in FirstKey(history)})

\* StoreMetrics: a time stamp that is not a number is reported and taken as 0.
StoreMetrics(r, t, data) ==
  /\ Authenticated(r, {"Rebalance"})
  /\ table = "metric"
  /\ metrics' = Put(metrics, t, data)
  /\ UNCHANGED <<table, moment, flagVars, statusVars, update, history, notices>>

\* UpdateExchangeNotification of the storage: the last one counts.
UpdateExchangeNotification(e, data) ==
  /\ table = "notice"
  /\ notices' = Put(notices, e, data)
  /\ UNCHANGED <<table, moment, flagVars, statusVars, update, history, metrics>>

\* The handler does not ask whether the exchange is known.
ExchangeNotification(r, e, data) ==
  Authenticated(r, {"Rebalance"}) /\ UpdateExchangeNotification(e, data)

ControlNext ==
  \/ ControlTick
  \/ \E r \in Requests :
       \/ HoldRebalance(r) \/ EnableRebalance(r) \/ HoldSetrate(r) \/ EnableSetrate(r)
       \/ \E u \in Updates :
            \/ GetRebalanceStatus(r, u) \/ GetSetrateStatus(r, u)
            \/ \E name \in Names, up \in BOOLEAN : UpdateExchangeStatus(r, u, name, up)
       \/ \E data \in Reports :
            \/ \E t \in 0 .. MaxMoment : StoreMetrics(r, t, data)
            \/ \E e \in Venues : ExchangeNotification(r, e, data)
  \/ \E u \in Updates : StoreDefault(u) \/ WriteStatus(u)
  \/ \E e \in Venues : AddExchange(e)
  \/ RestartStatus \/ FetchAllTradeHistory

------------------------------------------------------------------------------
\* The types of the tables.
ControlTypeOK ==
  /\ IsMap(flags, 1 .. MaxMoment, BOOLEAN)
  /\ IsMap(status, Names, BOOLEAN) /\ IsMap(wanted, Names, BOOLEAN)
  /\ \A r \in Requests : \A h \in GetTradeHistory(r) : IsMap(h, Venues, Reports)
  /\ IsMap(metrics, 0 .. MaxMoment, Reports)
  /\ IsMap(notices, Venues, Reports)

(***************************************************************************)
(* FlagIsLastStored: the status requests are answered with the flag that   *)
(* was stored last, although the reader takes the first entry of the       *)
(* bucket and the writer the present time as its key.                      *)
(***************************************************************************)
FlagIsLastStored == \A r \in Requests : \A up \in FlagServed(r) : up = lastFlag

(***************************************************************************)
(* StatusKept: as long as no two changes overlapped, every exchange has    *)
(* the status that was last asked for, through restarts, and once started  *)
(* the program knows the status of every exchange.                         *)
(***************************************************************************)
StatusKept ==
  /\ ~overlap => \A n \in DOMAIN wanted : GetExchangesStatus[n] = wanted[n]
  /\ adding = {} => \A e \in Venues : <<e, TRUE>> \in DOMAIN GetExchangesStatus
=============================================================================
