---------------------------- MODULE MCUserPages ----------------------------
(***************************************************************************)
(* Small instances of the memory of a vFPGA.                               *)
(***************************************************************************)
EXTENDS UserPages

MCProc == [c \in Ctids |-> "h1"]
MCReqs == {[v |-> 0, n |-> 2], [v |-> 1, n |-> 2]}
MCMoves == {[v |-> 0, n |-> 2]}

=============================================================================
