----------------------------- MODULE MCReconfig -----------------------------
(***************************************************************************)
(* A small instance of the driver with two shells and two processes.       *)
(***************************************************************************)
EXTENDS Reconfig

MCShells == {[reg |-> 2, chan |-> 1, mem |-> TRUE, wb |-> TRUE],
             [reg |-> 1, chan |-> 2, mem |-> FALSE, wb |-> FALSE]}

=============================================================================
