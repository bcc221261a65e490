------------------------------ MODULE Analytics ------------------------------
(***************************************************************************)
(* The price analytic data (stat/storage/analytic_bolt.go) and the job     *)
(* that moves expired records to an archive (RunAnalyticStorageController  *)
(* of stat/reserve_stat.go, common/archive/s3.go).  The records are put in *)
(* a local file and deleted in one bolt transaction; the file is uploaded, *)
(* its size is compared, and only then is it removed.                      *)
(***************************************************************************)
EXTENDS Authentication, Buckets, FiniteSets

CONSTANTS MaxTime,     \* bound: time points
          Expiry,      \* PRICE_ANALYTIC_EXPIRED
          MaxPeriod    \* MAX_GET_ANALYTIC_PERIOD

ASSUME AnalyticsAssumption == MaxTime \in Nat \ {0} /\ Expiry \in Nat /\ MaxPeriod \in Nat

VARIABLES anaTime,     \* the present time point
          records,     \* the bucket: the time and whether the value is a JSON map
          files,       \* the local files, by the tick that made them
          archived,    \* the files of the archive
          export       \* how far the job is, and the file it works on

anaVars == <<anaTime, records, files, archived, export>>

AnaRecords == [time : 1 .. MaxTime, json : BOOLEAN]

AnalyticsTypeOK ==
  /\ anaTime \in 1 .. MaxTime
  /\ records \subseteq AnaRecords
  /\ IsMap(files, 1 .. MaxTime, SUBSET AnaRecords)
  /\ IsMap(archived, 1 .. MaxTime, SUBSET AnaRecords)
  /\ export \in [pc : {"wait", "backup", "check"}, file : 1 .. MaxTime]

AnalyticsInit ==
  /\ anaTime = 1
  /\ records = {}
  /\ files = [k \in {} |-> k]
  /\ archived = [k \in {} |-> k]
  /\ export = [pc |-> "wait", file |-> 1]

AnalyticsTick ==
  /\ anaTime < MaxTime
  /\ anaTime' = anaTime + 1
  /\ UNCHANGED <<records, files, archived, export>>

------------------------------------------------------------------------------
\* Any stored key from the timestamp on counts as the same timestamp.
UpdatePriceAnalyticData(r) ==
  /\ records' = IF \E s \in records : s.time >= r.time THEN records ELSE records \cup {r}
  /\ UNCHANGED <<anaTime, files, archived, export>>

\* The length of the range is unsigned, so a reversed one is too broad.  One
\* record that is not a JSON map makes the whole answer an error.
GetPriceAnalyticData(from, to) ==
  LET asked == {r \in records : r.time \in from .. to}
  IN  IF to < from \/ to - from > MaxPeriod \/ \E r \in asked : ~r.json THEN {} ELSE asked

\* The handlers; the end of the range is the present by default.
UpdatePriceAnalyticDataHandler(q, r) ==
  Authenticated(q, {"Rebalance"}) /\ UpdatePriceAnalyticData(r)

GetPriceAnalyticDataHandler(q, from, to) ==
  Answer(q, GetPriceAnalyticData(from, IF to = 0 THEN anaTime ELSE to))

Expired == {r \in records : r.time + Expiry <= anaTime}

\* The expired records before the first that is not a JSON map.
Readable == {r \in Expired : \A s \in Expired : s.time <= r.time => s.json}

\* Mutant of ExportPruneExpired: what was read before the error stays deleted.
ExportPruneSome ==
  /\ export.pc = "wait"
  /\ anaTime \notin DOMAIN files \cup DOMAIN archived
  /\ records' = records \ Expired
  /\ IF Expired = {} THEN UNCHANGED <<files, export>>
     ELSE /\ files' = Put(files, anaTime, Readable)
          /\ export' = IF Readable # Expired THEN export
                       ELSE [pc |-> "backup", file |-> anaTime]
  /\ UNCHANGED <<anaTime, archived>>

\* One tick of the job: create the file, write and delete; a value that cannot
\* be read rolls the deletions back and leaves the file.  An empty file is
\* removed.  A tick comes at most once for a file name.
ExportPruneExpired ==
  /\ export.pc = "wait"
  /\ anaTime \notin DOMAIN files \cup DOMAIN archived
  /\ records' = IF Readable = Expired THEN records \ Expired ELSE records
  /\ IF Expired = {} THEN UNCHANGED <<files, export>>
     ELSE /\ files' = Put(files, anaTime, Readable)
          /\ export' = IF Readable # Expired THEN export
                       ELSE [pc |-> "backup", file |-> anaTime]
  /\ UNCHANGED <<anaTime, archived>>

\* UploadFile: the archive gets the file, or part of it, or an error comes.
UploadFile ==
  /\ export.pc = "backup"
  /\ \/ \E part \in SUBSET files[export.file] :
          /\ archived' = Put(archived, export.file, part)
          /\ export' = [export EXCEPT !.pc = "check"]
     \/ export' = [export EXCEPT !.pc = "wait"] /\ UNCHANGED archived
  /\ UNCHANGED <<anaTime, records, files>>

\* Mutant of CheckFileIntergrity: the name is enough.
CheckFileName(f) == f \in DOMAIN archived

\* A file of that name and size is in the archive.
CheckFileIntergrity(f) ==
  f \in DOMAIN archived /\ Cardinality(archived[f]) = Cardinality(files[f])

\* The rest of BackupFile: the listing, or the removal, may fail.
RemoveBackedUp ==
  /\ export.pc = "check"
  /\ files' \in {files} \cup
       (IF CheckFileIntergrity(export.file) THEN {Delete(files, export.file)} ELSE {})
  /\ export' = [export EXCEPT !.pc = "wait"]
  /\ UNCHANGED <<anaTime, records, archived>>

\* The process dies: in the middle of an export some of the records are in the
\* file and none is deleted; later, the file stays.
AnalyticsCrash ==
  /\ \/ export.pc # "wait" /\ UNCHANGED files
     \/ /\ export.pc = "wait"
        /\ anaTime \notin DOMAIN files \cup DOMAIN archived
        /\ \E part \in SUBSET Readable : files' = Put(files, anaTime, part)
  /\ export' = [export EXCEPT !.pc = "wait"]
  /\ UNCHANGED <<anaTime, records, archived>>

AnalyticsNext ==
  \/ AnalyticsTick
  \/ \E q \in Requests, r \in AnaRecords : UpdatePriceAnalyticDataHandler(q, r)
  \/ ExportPruneExpired \/ UploadFile \/ RemoveBackedUp \/ AnalyticsCrash

------------------------------------------------------------------------------
Served == {r \in records : \E q \in Requests : r \in GetPriceAnalyticDataHandler(q, r.time, r.time)}
Held   == Served \cup {r \in records : ~r.json}
            \cup (UNION {files[f] : f \in DOMAIN files})
            \cup (UNION {archived[f] : f \in DOMAIN archived})

(***************************************************************************)
(* NoRecordLost: a record the server accepted is served, unless it cannot  *)
(* be read, or it is in a local file or in the archive, whatever part of   *)
(* an upload arrives and wherever the process dies.                        *)
(***************************************************************************)
NoRecordLost == [][Held \subseteq Held']_anaVars
=============================================================================
