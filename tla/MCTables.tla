------------------------------ MODULE MCTables ------------------------------
(***************************************************************************)
(* Four keys: two with the same hash, one that shares a bucket with them   *)
(* until the table has four buckets, one in the bucket of the null key.    *)
(***************************************************************************)
EXTENDS Tables

CONSTANTS k1, k2, k3, k4

MCKeys == {k1, k2, k3, k4}
MCHash == [k \in MCKeys \cup {NullKey} |->
              CASE k = k1 -> 5 [] k = k2 -> 5 [] k = k3 -> 7 [] k = k4 -> 8 [] k = NullKey -> 0]
=============================================================================
