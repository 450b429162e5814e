----------------------------- MODULE MCCtidPool -----------------------------
(***************************************************************************)
(* Three cThreads of two host processes on a vFPGA with three ID chunks.   *)
(***************************************************************************)
EXTENDS CtidPool, TLC

CONSTANTS t1, t2, t3, h1, h2, k1, k2

MCHpidOf == (t1 :> h1) @@ (t2 :> h1) @@ (t3 :> h2)
MCBucketOf == (h1 :> k1) @@ (h2 :> k2)
\* The properties say nothing about what follows an overlap.
NoOverlapYet == "overlap" \notin seen
=============================================================================
