----------------------------- MODULE MCUnitTest -----------------------------
(* Suites of two tests, with an empty output before another one, or with an   *)
(* output that is not waited for, for model checking.                         *)
EXTENDS UnitTest

D(time, top) == [time |-> time, vfpga_top |-> top]
MCSuites == {[tests |-> <<D(1, "b"), D(1, "a")>>, compiled |-> D(1, "a")],
             [tests |-> <<D(1, "a"), D(1, "a")>>, compiled |-> D(0, "a")]}

O(n, last) == [len |-> n, last |-> last]
MCOuts == {<<O(0, TRUE), O(1, TRUE)>>, <<O(1, FALSE)>>}
=============================================================================
