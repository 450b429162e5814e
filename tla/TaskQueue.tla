----------------------------- MODULE TaskQueue -----------------------------
(***************************************************************************)
(* What a client of the scheduler may rely on, without bitstreams, locks   *)
(* and threads: a task ID is accepted once, a task runs at most once and   *)
(* never next to another one, and an outcome is final.                     *)
(***************************************************************************)
CONSTANT Tids

VARIABLE status

Init == status = [t \in Tids |-> "absent"]

Submit(t) ==
  /\ status[t] = "absent"
  /\ status' = [status EXCEPT ![t] = "queued"]

Dispatch(t) ==
  /\ status[t] = "queued"
  /\ \A u \in Tids : status[u] # "running"
  /\ status' = [status EXCEPT ![t] = "running"]

Complete(t) ==
  /\ status[t] = "running"
  /\ \E outcome \in {"done", "failed"} :
       status' = [status EXCEPT ![t] = outcome]

\* Tasks that cannot run are failed without running, several at a time.
Reject(S) ==
  /\ \A t \in S : status[t] = "queued"
  /\ status' = [t \in Tids |-> IF t \in S THEN "failed" ELSE status[t]]

Next ==
  \/ \E t \in Tids : Submit(t) \/ Dispatch(t) \/ Complete(t)
  \/ \E S \in SUBSET Tids : Reject(S)

Spec == Init /\ [][Next]_status

=============================================================================
