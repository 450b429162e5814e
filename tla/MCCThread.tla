----------------------------- MODULE MCCThread -----------------------------
(* The RDMA scatter baseline that writes and the RDMA benchmark that reads,   *)
(* and two threads that share one vFPGA, with AVX and with the write-back of  *)
(* the counters, for model checking.                                          *)
EXTENDS CThread

Rdma(w, scat) == [prog |-> [t \in Threads |-> IF t = 1 THEN "client" ELSE "server"],
            at |-> [t \in Threads |-> t],
            fcnfg |-> [en_avx |-> TRUE, en_wb |-> FALSE], write |-> w,
            scatter |-> scat, alloc |-> "HPF"]

Local(avx, wb) == [prog |-> [t \in Threads |-> "local"],
                   at |-> [t \in Threads |-> 1],
                   fcnfg |-> [en_avx |-> avx, en_wb |-> wb], write |-> FALSE,
                   scatter |-> FALSE, alloc |-> "REG"]

\* A run of the baseline without a GPU in use is one of the plain benchmark.
MCScenarios == {Rdma(TRUE, TRUE), Rdma(FALSE, FALSE),
                Local(TRUE, FALSE), Local(FALSE, TRUE)}
=============================================================================
