---------------------------- MODULE MCSimTarget ----------------------------
(***************************************************************************)
(* The simulation target with two buffers.                                 *)
(***************************************************************************)
EXTENDS SimTarget, TLC

CONSTANTS b1, b2

MCBufs == {b1, b2}

=============================================================================
