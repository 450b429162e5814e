---------------------------- MODULE MCHypervisor ----------------------------
(* Two VMs on one vFPGA with two thread numbers, for model checking. *)
EXTENDS Hypervisor

MCProcsOf == [m \in Mdevs |-> IF m = 1 THEN {1, 2} ELSE {1}]
=============================================================================
