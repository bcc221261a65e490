------------------------------ MODULE PriceData ------------------------------
(***************************************************************************)
(* The versioned data of the reserve: order books, snapshots of balances   *)
(* and gold prices, which fetchers store under the time of their tick      *)
(* (data/fetcher/fetcher.go, data/storage/bolt.go) and clients read        *)
(* (data/reserve_data.go).  A reader looks up the version of its time in   *)
(* one bolt transaction and reads that version in another; in between the  *)
(* fetcher may store, and for prices prune, versions.                      *)
(*                                                                         *)
(* An order book is the set of exchanges that answered.  How a snapshot is *)
(* made is the subject of AuthFetcher; here it is only stored and read.    *)
(* The three buckets do not interact: a behaviour follows one, source.     *)
(***************************************************************************)
EXTENDS Buckets, Naturals, FiniteSets

CONSTANTS Exchanges,     \* the exchanges the fetcher asks
          MaxVersions,   \* MAX_NUMBER_VERSION
          MaxTick,       \* bound: time points
          MaxTimespot,   \* MAX_TIMESPOT, later than every time point
          NoTime         \* a request without a time stamp

ASSUME PriceDataAssumption ==
  /\ MaxVersions \in Nat \ {0}
  /\ MaxTick \in Nat \ {0}
  /\ MaxTimespot \in Nat /\ MaxTimespot > MaxTick

VARIABLES running,    \* the tickers of the runner have not been stopped
          present,    \* the present time point
          book,       \* FetchOrderbook: its time, the exchanges not heard of and those that answered
          source,     \* the bucket: "price", "auth" or "gold"
          versions,   \* PRICE_BUCKET, AUTH_DATA_BUCKET or GOLD_BUCKET
          written,    \* all versions ever stored
          reader      \* a request that reads a version; had is history: the versions
                      \* stored until then that it might have found

priceVars == <<running, present, book, source, versions, written, reader>>

NoBook       == [on |-> FALSE, time |-> 0, todo |-> {}, got |-> {}]
NoReader     == [pc |-> "idle", one |-> FALSE, version |-> 0, data |-> {}, had |-> {}]

PriceTypeOK ==
  /\ running \in BOOLEAN
  /\ present \in 1 .. MaxTick
  /\ source \in {"price", "auth", "gold"}
  /\ IsMap(versions, 1 .. MaxTick, SUBSET Exchanges)
  /\ DOMAIN versions \subseteq DOMAIN written
  /\ book.todo \cap book.got = {}
  /\ reader.pc \in {"idle", "asked", "answered", "empty", "failed"}

PriceInit ==
  /\ running = TRUE
  /\ present = 1
  /\ book = NoBook
  /\ source \in {"price", "auth", "gold"}
  /\ versions = [t \in {} |-> {}]
  /\ written = versions
  /\ reader = NoReader

PriceTick ==
  /\ present < MaxTick
  /\ present' = present + 1
  /\ UNCHANGED <<source, running, book, versions, written, reader>>

\* The handler StopFetcher: Stop of the app, the fetcher and the runner.
StopFetcher ==
  /\ running
  /\ running' = FALSE
  /\ UNCHANGED <<source, present, book, versions, written, reader>>

------------------------------------------------------------------------------
\* The storage.
GetNumberOfVersion(bucket) == Cardinality(DOMAIN bucket)

\* Mutant of PruneOutdatedData: one more is removed.
PruneOneMore(bucket) ==
  LET kept == {t \in DOMAIN bucket : Cardinality({u \in DOMAIN bucket : u > t}) < MaxVersions - 2}
  IN  [t \in kept |-> bucket[t]]

\* The first versions are removed until fewer than MaxVersions remain.
PruneOutdatedData(bucket) ==
  LET kept == {t \in DOMAIN bucket : Cardinality({u \in DOMAIN bucket : u > t}) < MaxVersions - 1}
  IN  IF GetNumberOfVersion(bucket) < MaxVersions THEN bucket ELSE [t \in kept |-> bucket[t]]

\* The transaction may fail, which is only logged.
Store(bucket, t, data) ==
  \/ /\ versions' = Put(bucket, t, data)
     /\ written' = Put(written, t, data)
  \/ UNCHANGED <<versions, written>>

StorePrice(t, data)        == Store(PruneOutdatedData(versions), t, data)
StoreAuthSnapshot(t, data) == Store(versions, t, data)
StoreGoldInfo(t, data)     == Store(versions, t, data)

\* The newest version not later than a time point, if any.
reverseSeek(t, bucket) ==
  {v \in DOMAIN bucket : v <= t /\ \A u \in DOMAIN bucket : u <= t => u <= v}

CurrentPriceVersion(t)    == reverseSeek(t, versions)
CurrentAuthDataVersion(t) == reverseSeek(t, versions)
CurrentGoldInfoVersion(t) == reverseSeek(t, versions)

------------------------------------------------------------------------------
\* FetchOrderbook: a round starts, one at a time.
FetchOrderbook ==
  /\ source = "price" /\ running /\ ~book.on
  /\ present \notin DOMAIN written
  /\ book' = [on |-> TRUE, time |-> present, todo |-> Exchanges, got |-> {}]
  /\ UNCHANGED <<source, running, present, versions, written, reader>>

\* fetchPriceFromExchange, SetOnePrice: an exchange answers or fails.
fetchPriceFromExchange(e) ==
  /\ e \in book.todo
  /\ \E answered \in {{}, {e}} :
       book' = [book EXCEPT !.todo = @ \ {e}, !.got = @ \cup answered]
  /\ UNCHANGED <<source, running, present, versions, written, reader>>

\* wait.Wait: the order books are stored under the time of the tick.
FinishOrderbook ==
  /\ book.on /\ book.todo = {}
  /\ StorePrice(book.time, book.got)
  /\ book' = NoBook
  /\ UNCHANGED <<source, running, present, reader>>

\* A snapshot; FetchGlobalData stores what it got, an error included.
FetchAuthSnapshot ==
  /\ source = "auth" /\ running /\ present \notin DOMAIN written
  /\ StoreAuthSnapshot(present, {})
  /\ UNCHANGED <<source, running, present, book, reader>>

FetchGlobalData ==
  /\ source = "gold" /\ running /\ present \notin DOMAIN written
  /\ StoreGoldInfo(present, {})
  /\ UNCHANGED <<source, running, present, book, reader>>

------------------------------------------------------------------------------
getTimePoint(t) == IF t = NoTime THEN MaxTimespot ELSE t

\* A request looks its version up and goes on to read it.  The error of finding
\* none is lost, and the version is 0.
Ask(kind, t, found, one) ==
  /\ source = kind /\ reader.pc = "idle"
  /\ \E v \in IF found = {} THEN {0} ELSE found :
       reader' = [NoReader EXCEPT !.pc = "asked", !.one = one, !.version = v,
                                  !.had = {w \in DOMAIN written : w <= t}]
  /\ UNCHANGED <<source, running, present, book, versions, written>>

\* The handlers up to the first transaction; AllPricesVersion and AuthDataVersion
\* end there.  Price takes one pair from the version.
AllPrices(t)   == Ask("price", getTimePoint(t), CurrentPriceVersion(getTimePoint(t)), FALSE)
Price(t)       == Ask("price", getTimePoint(t), CurrentPriceVersion(getTimePoint(t)), TRUE)
AuthData(t)    == Ask("auth", getTimePoint(t), CurrentAuthDataVersion(getTimePoint(t)), FALSE)
GetGoldData(t) == Ask("gold", getTimePoint(t), CurrentGoldInfoVersion(getTimePoint(t)), FALSE)

\* GetAllPrices, GetAuthData, GetGoldInfo of the storage lose the error of a
\* version that is not there: the request is answered with empty data.  For
\* GetOnePrice the pair is not in that data, nor in a book no exchange gave.
ReadVersion ==
  LET found == reader.version \in DOMAIN versions
      data  == IF found THEN versions[reader.version] ELSE {}
  IN  /\ reader.pc = "asked"
      /\ reader' = [reader EXCEPT !.data = data,
                                  !.pc = IF reader.one /\ data = {} THEN "failed"
                                         ELSE IF found THEN "answered" ELSE "empty"]
      /\ UNCHANGED <<source, running, present, book, versions, written>>

PriceNext ==
  \/ PriceTick \/ StopFetcher
  \/ FetchOrderbook \/ FinishOrderbook \/ \E e \in Exchanges : fetchPriceFromExchange(e)
  \/ FetchAuthSnapshot \/ FetchGlobalData
  \/ \E t \in 1 .. MaxTick \cup {NoTime} : AllPrices(t) \/ Price(t) \/ AuthData(t) \/ GetGoldData(t)
  \/ ReadVersion

------------------------------------------------------------------------------
(***************************************************************************)
(* VersionsReadable: a reader is answered with the newest data that was    *)
(* stored at or before its time.  It gets empty data (for one price, an    *)
(* error) only when nothing had been stored by then, or, for prices, when  *)
(* MAX_NUMBER_VERSION later ones were stored before its second             *)
(* transaction; found balances and gold prices are never lost.  One price  *)
(* is also refused when no exchange had given a book.                      *)
(***************************************************************************)
VersionsReadable ==
  /\ reader.pc = "answered" =>
       /\ reader.version \in reader.had /\ \A v \in reader.had : v <= reader.version
       /\ reader.data = written[reader.version]
  /\ reader.pc \in {"empty", "failed"} =>
       \/ \A v \in reader.had :
            source = "price" /\ Cardinality({t \in DOMAIN written : t > v}) >= MaxVersions
       \/ reader.pc = "failed" /\ written[reader.version] = {}
=============================================================================
