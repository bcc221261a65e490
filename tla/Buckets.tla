------------------------------ MODULE Buckets ------------------------------
(***************************************************************************)
(* A bolt bucket, or a Go map, as a function whose domain is the set of    *)
(* keys it holds.                                                          *)
(***************************************************************************)

\* f is a bucket with keys in S and values in T.
IsMap(f, S, T) == DOMAIN f \subseteq S /\ f \in [DOMAIN f -> T]

Put(bucket, id, a) ==
  [k \in DOMAIN bucket \cup {id} |-> IF k = id THEN a ELSE bucket[k]]

Delete(bucket, id) == [k \in DOMAIN bucket \ {id} |-> bucket[k]]
=============================================================================
