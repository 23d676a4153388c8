--------------------------- MODULE MCServingLease ---------------------------
(* Two streams, three snapshots and three challenges: enough for a renewal *)
(* that races a refresh, a stream that is replaced while its request is    *)
(* being granted, and a second period after the first was lost.            *)
EXTENDS ServingLease
=============================================================================
