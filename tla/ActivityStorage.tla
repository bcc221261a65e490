--------------------------- MODULE ActivityStorage ---------------------------
(***************************************************************************)
(* The two activity buckets of data/storage/bolt.go.  A bucket is a        *)
(* function whose domain is the set of keys it holds.  Each operation is   *)
(* one bolt transaction, hence one atomic step on both buckets.            *)
(*                                                                         *)
(* Keys.  The bolt key of an activity is the nanosecond reading of the     *)
(* clock when the activity was recorded (ActivityID.ToBytes keeps the first *)
(* 64 bytes, and the exchange id starts at byte 65).  Two readings are     *)
(* taken to differ; the modules that use this one choose what stands for a *)
(* reading.                                                                *)
(***************************************************************************)
EXTENDS Activity, Buckets

VARIABLES activityBucket,   \* ACTIVITY_BUCKET
          pendingBucket     \* PENDING_ACTIVITY_BUCKET

storageVars == <<activityBucket, pendingBucket>>

StorageInit ==
  /\ activityBucket = [k \in {} |-> {}]
  /\ pendingBucket  = [k \in {} |-> {}]

------------------------------------------------------------------------------
\* Record: always into the activity bucket, into the pending bucket only when
\* the new record is pending.
Record(id, a) ==
  /\ activityBucket' = Put(activityBucket, id, a)
  /\ pendingBucket'  = IF IsPending(a) THEN Put(pendingBucket, id, a)
                                       ELSE pendingBucket

\* Mutant of UpdateActivity: the delete of a settled activity is forgotten.
UpdateActivityKeepsPending(id, a) ==
  /\ activityBucket' = Put(activityBucket, id, a)
  /\ pendingBucket'  = IF id \in DOMAIN pendingBucket
                         THEN Put(pendingBucket, id, a)
                         ELSE pendingBucket

\* UpdateActivity: the pending bucket changes only where the key is present
\* (put, then delete when nothing is pending any more); the activity bucket is
\* overwritten in any case.
UpdateActivity(id, a) ==
  /\ activityBucket' = Put(activityBucket, id, a)
  /\ pendingBucket'  =
       IF id \in DOMAIN pendingBucket
         THEN IF IsPending(a) THEN Put(pendingBucket, id, a)
                              ELSE Delete(pendingBucket, id)
         ELSE pendingBucket

\* GetPendingActivities: one read transaction over the whole pending bucket.
GetPendingActivities == pendingBucket

\* HasPendingDeposit: one read transaction; any pending deposit of the token
\* to the exchange counts.
HasPendingDeposit(token, exchange) ==
  \E k \in DOMAIN pendingBucket :
    /\ pendingBucket[k].action = "deposit"
    /\ pendingBucket[k].token = token
    /\ pendingBucket[k].dest = exchange

------------------------------------------------------------------------------
(***************************************************************************)
(* BucketsAgree: the pending bucket is exactly the pending part of the     *)
(* activity bucket.  Record and UpdateActivity write the two buckets under *)
(* different conditions, and UpdateActivity writes back a record the       *)
(* fetcher read a whole cycle earlier; if the buckets ever disagreed, an   *)
(* unsettled activity would never be asked about again, or a settled one   *)
(* would be served to the analytics as pending for ever.                   *)
(***************************************************************************)
PendingIsRecorded ==
  /\ DOMAIN pendingBucket \subseteq DOMAIN activityBucket
  /\ \A k \in DOMAIN pendingBucket : pendingBucket[k] = activityBucket[k]

PendingIsComplete ==
  \A k \in DOMAIN activityBucket :
    (k \in DOMAIN pendingBucket) <=> IsPending(activityBucket[k])

BucketsAgree == PendingIsRecorded /\ PendingIsComplete
=============================================================================
