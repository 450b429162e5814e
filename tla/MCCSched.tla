------------------------------ MODULE MCCSched ------------------------------
(***************************************************************************)
(* A small scheduler: two clients with one task each and two functions     *)
(* with different bitstreams.                                              *)
(***************************************************************************)
EXTENDS CSched, TLC

CONSTANTS c1, c2, f1, f2, b1, b2

MCTidsOf == (c1 :> {1}) @@ (c2 :> {2})
MCBitstreamOf == (f1 :> b1) @@ (f2 :> b2)
=============================================================================
