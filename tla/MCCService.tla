----------------------------- MODULE MCCService -----------------------------
(* Two clients and two descriptors. The requests are a known function with *)
(* arguments and an unknown one without; arguments that come too late show *)
(* what those of an unknown function would.                                *)
EXTENDS CService

MCRequests == {[known |-> TRUE, args |-> TRUE], [known |-> FALSE, args |-> FALSE]}
=============================================================================
