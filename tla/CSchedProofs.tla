---------------------------- MODULE CSchedProofs ----------------------------
(***************************************************************************)
(* Proofs about CSched for any number of clients, tasks, functions and     *)
(* bitstreams.                                                             *)
(***************************************************************************)
EXTENDS CSched, TLAPS

\* The time each prover has for a leaf that names none.
USE ZenonT(10), SMTT(60), ZenonT(60)

\* A function on 1..n is a sequence.
LEMMA FunctionIsSequence ==
  ASSUME NEW S, NEW n \in Nat, NEW f \in [1 .. n -> S]
  PROVE  f \in Seq(S) /\ Len(f) = n
  OBVIOUS

\* Completing task i of the list gives a list of the same length.
LEMMA CompletedType ==
  ASSUME TypeOK, NEW i \in DOMAIN tasks, NEW code \in {"ok", "error"}
  PROVE  /\ Completed(i, code) \in Seq(Task)
         /\ DOMAIN Completed(i, code) = DOMAIN tasks
         /\ \A j \in DOMAIN tasks :
              /\ Completed(i, code)[j].tid = tasks[j].tid
              /\ Completed(i, code)[j].fid = tasks[j].fid
              /\ Completed(i, code)[j].is_completed
                   = (tasks[j].is_completed \/ j = i)
              /\ j # i => Completed(i, code)[j] = tasks[j]
              /\ j = i => Completed(i, code)[j].ret_code = code
<1> DEFINE C == Completed(i, code)
<1>1. DOMAIN tasks = 1 .. Len(tasks) /\ Len(tasks) \in Nat
  BY DEF TypeOK
<1>2. \A j \in DOMAIN tasks : tasks[j] \in Task
  BY DEF TypeOK
<1>3. C = [j \in DOMAIN tasks |->
             IF j = i THEN [tasks[i] EXCEPT !.is_completed = TRUE,
                                            !.ret_code = code]
                      ELSE tasks[j]]
  BY DEF Completed
<1>4. [tasks[i] EXCEPT !.is_completed = TRUE, !.ret_code = code] \in Task
  BY <1>2 DEF Task
<1>5. C \in [1 .. Len(tasks) -> Task]
  BY <1>1, <1>2, <1>3, <1>4
<1>6. C \in Seq(Task)
  BY <1>1, <1>5, FunctionIsSequence
<1> HIDE DEF C
<1>7. \A j \in DOMAIN tasks :
        /\ C[j].tid = tasks[j].tid
        /\ C[j].fid = tasks[j].fid
        /\ C[j].is_completed = (tasks[j].is_completed \/ j = i)
        /\ j # i => C[j] = tasks[j]
        /\ j = i => C[j].ret_code = code
  BY <1>2, <1>3 DEF Task
<1>8. DOMAIN C = DOMAIN tasks
  BY <1>3
<1>9. QED
  BY <1>6, <1>7, <1>8 DEF C

\* The scan leaves the length of the list, every ID and every function alone,
\* completes only tasks that are pending and cannot run, and chooses a task
\* that is pending and runnable and stays so.
LEMMA ScanShape ==
  ASSUME TypeOK, Scan
  PROVE  /\ tasks' \in Seq(Task)
         /\ DOMAIN tasks' = DOMAIN tasks
         /\ \A j \in DOMAIN tasks :
              /\ tasks'[j].tid = tasks[j].tid
              /\ tasks'[j].fid = tasks[j].fid
              /\ tasks'[j].is_completed \in BOOLEAN
              /\ tasks[j].is_completed => tasks'[j] = tasks[j]
              /\ Runnable(j) => tasks'[j] = tasks[j]
              /\ tasks'[j].is_completed =>
                   tasks[j].is_completed \/ \A k \in Stops : j <= k
              /\ j \in Pending /\ ~Runnable(j) /\ (\A k \in Stops : j <= k)
                   => tasks'[j].is_completed
              /\ \/ tasks'[j] = tasks[j]
                 \/ /\ j \in Pending
                    /\ tasks'[j].is_completed
                    /\ tasks'[j].ret_code = "error"
<1> DEFINE Failed(j) == [tasks[j] EXCEPT !.is_completed = TRUE,
                                         !.ret_code = "error"]
<1>1. DOMAIN tasks = 1 .. Len(tasks) /\ Len(tasks) \in Nat
  BY DEF TypeOK
<1>2. \A j \in DOMAIN tasks : tasks[j] \in Task
  BY DEF TypeOK
<1>3. \A j \in DOMAIN tasks :
        /\ Failed(j) \in Task
        /\ Failed(j).tid = tasks[j].tid
        /\ Failed(j).fid = tasks[j].fid
        /\ Failed(j).is_completed = TRUE
        /\ Failed(j).ret_code = "error"
  BY <1>2 DEF Task
<1>4. tasks' = [j \in DOMAIN tasks |->
                  IF j \in Pending /\ ~Runnable(j) /\ \A k \in Stops : j <= k
                  THEN Failed(j) ELSE tasks[j]]
  BY DEF Scan
<1> HIDE DEF Failed
<1>5. tasks' \in [1 .. Len(tasks) -> Task]
  BY <1>1, <1>2, <1>3, <1>4
<1>6. tasks' \in Seq(Task)
  BY <1>1, <1>5, FunctionIsSequence
<1>7. DOMAIN tasks' = DOMAIN tasks
  BY <1>4
<1>8. ASSUME NEW j \in DOMAIN tasks
      PROVE  /\ tasks'[j].tid = tasks[j].tid
             /\ tasks'[j].fid = tasks[j].fid
             /\ tasks'[j].is_completed \in BOOLEAN
             /\ tasks[j].is_completed => tasks'[j] = tasks[j]
             /\ Runnable(j) => tasks'[j] = tasks[j]
             /\ tasks'[j].is_completed =>
                  tasks[j].is_completed \/ \A k \in Stops : j <= k
             /\ j \in Pending /\ ~Runnable(j) /\ (\A k \in Stops : j <= k)
                  => tasks'[j].is_completed
             /\ \/ tasks'[j] = tasks[j]
                \/ /\ j \in Pending
                   /\ tasks'[j].is_completed
                   /\ tasks'[j].ret_code = "error"
  <2>1. tasks'[j] = IF j \in Pending /\ ~Runnable(j) /\ \A k \in Stops : j <= k
                    THEN Failed(j) ELSE tasks[j]
    BY <1>4
  <2>2. tasks[j].is_completed \in BOOLEAN
    BY <1>2 DEF Task
  <2>3. CASE j \in Pending /\ ~Runnable(j) /\ \A k \in Stops : j <= k
    BY <1>3, <2>1, <2>3 DEF Pending
  <2>4. CASE ~(j \in Pending /\ ~Runnable(j) /\ \A k \in Stops : j <= k)
    BY <2>1, <2>2, <2>4
  <2>5. QED
    BY <2>3, <2>4
<1>9. QED
  BY <1>6, <1>7, <1>8

-----------------------------------------------------------------------------
(* Typing. The list is indexed by next_idx while the scheduler thread works *)
(* on a task, so the type invariant needs to know that the index is good.   *)

Busy == sched \in {"picked", "reconfigure", "execute", "running"}

ChosenIsPending == Busy => next_idx \in Pending

TypeInv == TypeOK /\ ChosenIsPending

\* The constructor establishes the type invariant.
LEMMA InitTypeInv == Init => TypeInv
<1> SUFFICES ASSUME Init PROVE TypeInv
  OBVIOUS
<1>1. tasks \in Seq(Task)
  BY DEF Init
<1>2. region \in [loaded : Bitstreams \cup {NoBitstream}, coupled : BOOLEAN,
                  rcnfg_lock : BOOLEAN]
  BY SchedAssumption DEF Init
<1>3. current_bitstream \in Bitstreams \cup {NoBitstream}
  BY <1>2, SchedAssumption DEF Init
<1>4. QED
  BY <1>1, <1>2, <1>3 DEF Init, TypeInv, TypeOK, ChosenIsPending, Busy

\* addTask appends an unfinished task and changes no other.
LEMMA PushShape ==
  ASSUME TypeOK, NEW c \in Clients, AddTaskPush(c)
  PROVE  /\ tasks' \in Seq(Task)
         /\ DOMAIN tasks' = DOMAIN tasks \cup {Len(tasks) + 1}
         /\ Len(tasks) + 1 \notin DOMAIN tasks
         /\ \A j \in DOMAIN tasks : tasks'[j] = tasks[j]
         /\ tasks'[Len(tasks) + 1].tid = request[c].tid
         /\ tasks'[Len(tasks) + 1].fid = request[c].fid
         /\ tasks'[Len(tasks) + 1].is_completed = FALSE
         /\ tasks'[Len(tasks) + 1].ret_code = "unset"
         /\ request[c] \in Request
<1>1. request[c] \in Request
  BY DEF AddTaskPush, TypeOK
<1> DEFINE new == [tid |-> request[c].tid, fid |-> request[c].fid,
                   cthread |-> request[c].cthread, is_completed |-> FALSE,
                   ret_code |-> "unset"]
<1>2. new \in Task
  BY <1>1 DEF Task, Request
<1>3. tasks' = Append(tasks, new)
  BY DEF AddTaskPush
<1>4. /\ new.tid = request[c].tid
      /\ new.fid = request[c].fid
      /\ new.is_completed = FALSE
      /\ new.ret_code = "unset"
  OBVIOUS
<1> HIDE DEF new
<1>5. tasks \in Seq(Task)
  BY DEF TypeOK
<1>6. QED
  BY <1>1, <1>2, <1>3, <1>4, <1>5

\* Finishing or failing the chosen task.
LEMMA CompleteChosenShape ==
  ASSUME TypeInv, Busy, NEW code \in {"ok", "error"},
         tasks' = Completed(next_idx, code)
  PROVE  /\ next_idx \in DOMAIN tasks
         /\ tasks' \in Seq(Task)
         /\ DOMAIN tasks' = DOMAIN tasks
         /\ \A j \in DOMAIN tasks :
              /\ tasks'[j].tid = tasks[j].tid
              /\ tasks'[j].fid = tasks[j].fid
              /\ tasks'[j].is_completed = (tasks[j].is_completed \/ j = next_idx)
              /\ j # next_idx => tasks'[j] = tasks[j]
              /\ j = next_idx => tasks'[j].ret_code = code
<1>1. next_idx \in DOMAIN tasks /\ TypeOK
  BY DEF TypeInv, ChosenIsPending, Pending
<1>2. QED
  BY <1>1, CompletedType

\* Every step keeps the type invariant.
LEMMA NextTypeInv == TypeInv /\ [Next]_vars => TypeInv'
<1> SUFFICES ASSUME TypeInv, [Next]_vars PROVE TypeInv'
  OBVIOUS
<1> USE DEF TypeInv
<1>1. ASSUME NEW f \in Fids, AddFunctionBegin(f) \/ AddFunctionEnd(f)
      PROVE  TypeInv'
  <2>1. functions' \in [Fids -> {"absent", "loading", "ready"}]
    BY <1>1 DEF TypeOK, AddFunctionBegin, AddFunctionEnd
  <2>2. late' \in BOOLEAN
    BY <1>1 DEF TypeOK, AddFunctionBegin, AddFunctionEnd
  <2>3. QED
    BY <1>1, <2>1, <2>2 DEF TypeOK, ChosenIsPending, Busy, Pending,
                            AddFunctionBegin, AddFunctionEnd
<1>2. ASSUME NEW c \in Clients, NEW t \in Tids, NEW f \in Fids,
             NEW cthread \in BOOLEAN, AddTaskCheck(c, t, f, cthread)
      PROVE  TypeInv'
  <2>1. request' \in [Clients -> Request \cup {NoRequest}]
    BY <1>2 DEF TypeOK, AddTaskCheck, Request
  <2>2. late' \in BOOLEAN
    BY <1>2 DEF TypeOK, AddTaskCheck
  <2>3. QED
    BY <1>2, <2>1, <2>2 DEF TypeOK, ChosenIsPending, Busy, Pending, AddTaskCheck
<1>3. ASSUME NEW c \in Clients, AddTaskPush(c)
      PROVE  TypeInv'
  <2>1. /\ tasks' \in Seq(Task)
        /\ request[c] \in Request
    BY <1>3, PushShape
  <2>2. task_id_map' \in [Tids -> Nat]
    BY <1>3, <2>1 DEF TypeOK, AddTaskPush, Request
  <2>3. request' \in [Clients -> Request \cup {NoRequest}]
    BY <1>3 DEF TypeOK, AddTaskPush
  <2>4. ~Busy'
    BY <1>3 DEF AddTaskPush, TlockFree, Busy
  <2>5. QED
    BY <1>3, <2>1, <2>2, <2>3, <2>4 DEF TypeOK, ChosenIsPending, AddTaskPush
<1>4. CASE Start
  BY <1>4 DEF TypeOK, ChosenIsPending, Busy, Start
<1>5. CASE Stop
  <2>1. ChosenIsPending'
    BY <1>5 DEF ChosenIsPending, Busy, Pending, Stop
  <2>2. scheduler_running' \in BOOLEAN
    BY <1>5 DEF Stop
  <2>3. UNCHANGED <<functions, tasks, task_id_map, request, sched, next_idx,
                    current_bitstream, cnfg, region, vlock, late>>
    BY <1>5 DEF Stop
  <2>4. QED
    BY <2>1, <2>2, <2>3 DEF TypeOK
<1>6. CASE Exit
  BY <1>6 DEF TypeOK, ChosenIsPending, Busy, Exit
<1>7. CASE Scan
  <2>1. /\ tasks' \in Seq(Task)
        /\ DOMAIN tasks' = DOMAIN tasks
        /\ \A j \in DOMAIN tasks : Runnable(j) => tasks'[j] = tasks[j]
    BY <1>7, ScanShape
  <2>2. \/ sched' = sched /\ sched = "idle" /\ next_idx' = next_idx
        \/ /\ sched' = "picked"
           /\ next_idx' \in Pending
           /\ Runnable(next_idx')
    BY <1>7 DEF Scan, Stops
  <2>3. next_idx' \in Nat
    BY <2>2 DEF TypeOK, Pending
  <2>4. sched' = "picked" => next_idx' \in Pending'
    BY <2>1, <2>2 DEF Pending
  <2>5. sched' \in {"idle", "picked"}
    BY <2>2
  <2>6. ChosenIsPending'
    BY <2>4, <2>5 DEF ChosenIsPending, Busy
  <2>7. QED
    BY <1>7, <2>1, <2>3, <2>5, <2>6 DEF TypeOK, Scan
<1>8. CASE Compare
  <2>1. CASE tasks' = tasks
    BY <1>8, <2>1 DEF TypeOK, ChosenIsPending, Busy, Pending, Compare
  <2>2. CASE tasks' = Completed(next_idx, "error") /\ sched' = "idle"
    <3>0. Busy
      BY <1>8 DEF Busy, Compare
    <3>1. tasks' \in Seq(Task)
      BY <2>2, <3>0, CompleteChosenShape
    <3>2. QED
      BY <1>8, <2>2, <3>1 DEF TypeOK, ChosenIsPending, Busy, Compare
  <2>3. QED
    BY <1>8, <2>1, <2>2 DEF Compare
<1>9. CASE Reconfigure
  <2>1. next_idx \in DOMAIN tasks /\ tasks[next_idx] \in Task
    BY <1>9 DEF Reconfigure, ChosenIsPending, Busy, Pending, TypeOK
  <2>2. Target(next_idx) \in Bitstreams
    BY <2>1, SchedAssumption DEF Target, Task
  <2>3. CASE /\ tasks' = tasks
             /\ sched' \in {"execute", "crashed"}
             /\ \/ region' = region /\ current_bitstream' = current_bitstream
                \/ /\ region' = Loaded(next_idx)
                   /\ current_bitstream' = Target(next_idx)
    <3>1. region' \in [loaded : Bitstreams \cup {NoBitstream},
                       coupled : BOOLEAN, rcnfg_lock : BOOLEAN]
      BY <2>2, <2>3 DEF TypeOK, Loaded
    <3>2. current_bitstream' \in Bitstreams \cup {NoBitstream}
      BY <2>2, <2>3 DEF TypeOK
    <3>3. ChosenIsPending'
      BY <1>9, <2>3 DEF ChosenIsPending, Busy, Pending, Reconfigure
    <3>4. QED
      BY <1>9, <2>3, <3>1, <3>2, <3>3 DEF TypeOK, Reconfigure
  <2>4. CASE /\ tasks' = Completed(next_idx, "error")
             /\ sched' = "idle"
             /\ region' = [region EXCEPT !.coupled = FALSE, !.rcnfg_lock = TRUE]
             /\ current_bitstream' = current_bitstream
    <3>0. Busy
      BY <1>9 DEF Busy, Reconfigure
    <3>1. tasks' \in Seq(Task)
      BY <2>4, <3>0, CompleteChosenShape
    <3>2. QED
      BY <1>9, <2>4, <3>1 DEF TypeOK, ChosenIsPending, Busy, Reconfigure
  <2>5. QED
    BY <1>9, <2>3, <2>4 DEF Reconfigure
<1>10. CASE Execute
  <2>1. ChosenIsPending'
    BY <1>10 DEF ChosenIsPending, Busy, Pending, Execute
  <2>2. QED
    BY <1>10, <2>1 DEF TypeOK, Execute
<1>11. CASE Finish
  <2>1. CASE tasks' = tasks /\ sched' = "crashed" /\ vlock' = vlock
    BY <1>11, <2>1 DEF TypeOK, ChosenIsPending, Busy, Finish
  <2>2. ASSUME NEW code \in {"ok", "error"},
               tasks' = Completed(next_idx, code), sched' = "idle",
               vlock' = "none"
        PROVE  TypeInv'
    <3>0. Busy
      BY <1>11 DEF Busy, Finish
    <3>1. tasks' \in Seq(Task)
      BY <2>2, <3>0, CompleteChosenShape
    <3>2. QED
      BY <1>11, <2>2, <3>1 DEF TypeOK, ChosenIsPending, Busy, Finish
  <2>3. QED
    BY <1>11, <2>1, <2>2 DEF Finish
<1>12. ASSUME NEW u \in Users, UserLock(u) \/ UserUnlock(u)
       PROVE  TypeInv'
  <2>1. ChosenIsPending'
    BY <1>12 DEF ChosenIsPending, Busy, Pending, UserLock, UserUnlock
  <2>2. QED
    BY <1>12, <2>1 DEF TypeOK, UserLock, UserUnlock
<1>13. CASE UNCHANGED vars
  <2>1. ChosenIsPending'
    BY <1>13 DEF ChosenIsPending, Busy, Pending, vars
  <2>2. QED
    BY <1>13, <2>1 DEF TypeOK, vars
<1>14. QED
  BY <1>1, <1>2, <1>3, <1>4, <1>5, <1>6, <1>7, <1>8, <1>9, <1>10, <1>11,
     <1>12, <1>13 DEF Next, SchedulerStep

\* The type invariant holds throughout.
LEMMA AlwaysTypeInv == Spec => []TypeInv
  BY InitTypeInv, NextTypeInv, PTL DEF Spec

\* Type correctness, and: from its scan to the end of the iteration the
\* scheduler thread (schedule()) works on a task that is not completed, although
\* clients append to the list and functions come and go meanwhile.
THEOREM TypeCorrect == Spec => [](TypeOK /\ (Busy => next_idx \in Pending))
<1>1. TypeInv => TypeOK /\ (Busy => next_idx \in Pending)
  BY DEF TypeInv, ChosenIsPending
<1>2. QED
  BY <1>1, AlwaysTypeInv, PTL

-----------------------------------------------------------------------------
(* The bitstream a function runs on. What the scheduler believes about the   *)
(* device has to be true, which the constructor's argument must not spoil.   *)

BitstreamInv ==
  /\ sched \in {"execute", "running"} => current_bitstream = Target(next_idx)
  /\ current_bitstream # NoBitstream => region.loaded = current_bitstream
  /\ sched = "running" => vlock = "sched"

\* The constructor is told what is loaded, or nothing.
TruthfulArgument == \A g \in Given, p \in Preloaded : g \in {NoBitstream, p}

\* Initially the scheduler knows nothing, or was told the truth.
LEMMA InitBitstreamInv ==
  ASSUME TruthfulArgument
  PROVE  Init => BitstreamInv
<1> SUFFICES ASSUME Init PROVE BitstreamInv
  OBVIOUS
<1>1. sched = "off"
  BY DEF Init
<1>2. CASE cnfg.en_pr
  <2>1. current_bitstream \in Given /\ region.loaded \in Preloaded
    BY <1>2 DEF Init
  <2>2. QED
    BY <1>1, <2>1 DEF BitstreamInv, TruthfulArgument
<1>3. CASE ~cnfg.en_pr
  BY <1>1, <1>3 DEF Init, BitstreamInv
<1>4. QED
  BY <1>2, <1>3

\* Every step keeps the scheduler's belief true.
LEMMA NextBitstreamInv ==
  TypeInv /\ BitstreamInv /\ [Next]_vars => BitstreamInv'
<1> SUFFICES ASSUME TypeInv, BitstreamInv, [Next]_vars PROVE BitstreamInv'
  OBVIOUS
<1>1. ASSUME NEW f \in Fids, AddFunctionBegin(f) \/ AddFunctionEnd(f)
      PROVE  BitstreamInv'
  BY <1>1 DEF BitstreamInv, Target, AddFunctionBegin, AddFunctionEnd
<1>2. ASSUME NEW c \in Clients, NEW t \in Tids, NEW f \in Fids,
             NEW cthread \in BOOLEAN, AddTaskCheck(c, t, f, cthread)
      PROVE  BitstreamInv'
  BY <1>2 DEF BitstreamInv, Target, AddTaskCheck
<1>3. ASSUME NEW c \in Clients, AddTaskPush(c)
      PROVE  BitstreamInv'
  BY <1>3 DEF BitstreamInv, AddTaskPush, TlockFree
<1>4. CASE Start \/ Stop \/ Exit
  BY <1>4 DEF BitstreamInv, Target, Start, Stop, Exit
<1>5. CASE Scan
  <2>1. sched' \in {"idle", "picked"}
    BY <1>5 DEF Scan
  <2>2. QED
    BY <1>5, <2>1 DEF BitstreamInv, Scan
<1>6. CASE Compare
  <2>1. sched' \in {"crashed", "reconfigure", "idle"}
        \/ /\ sched' = "execute"
           /\ tasks' = tasks
           /\ current_bitstream = Target(next_idx)
    BY <1>6 DEF Compare
  <2>2. UNCHANGED <<next_idx, current_bitstream, region, vlock>>
    BY <1>6 DEF Compare
  <2>3. QED
    BY <2>1, <2>2 DEF BitstreamInv, Target
<1>7. CASE Reconfigure
  <2>1. region.loaded \in Bitstreams \cup {NoBitstream}
        /\ region \in [loaded : Bitstreams \cup {NoBitstream},
                       coupled : BOOLEAN, rcnfg_lock : BOOLEAN]
    BY DEF TypeInv, TypeOK
  <2>2. CASE /\ sched' \in {"crashed", "idle"}
             /\ region'.loaded = region.loaded
             /\ current_bitstream' = current_bitstream
    BY <2>2 DEF BitstreamInv
  <2>3. CASE /\ sched' = "execute"
             /\ region' = Loaded(next_idx)
             /\ current_bitstream' = Target(next_idx)
             /\ tasks' = tasks
    <3>1. region'.loaded = Target(next_idx)
      BY <2>1, <2>3 DEF Loaded
    <3>2. next_idx' = next_idx
      BY <1>7 DEF Reconfigure
    <3>3. QED
      BY <2>3, <3>1, <3>2 DEF BitstreamInv, Target
  <2>4. QED
    BY <1>7, <2>1, <2>2, <2>3 DEF Reconfigure
<1>8. CASE Execute
  BY <1>8 DEF BitstreamInv, Target, Execute
<1>9. CASE Finish
  BY <1>9 DEF BitstreamInv, Finish
<1>10. ASSUME NEW u \in Users, UserLock(u) \/ UserUnlock(u)
       PROVE  BitstreamInv'
  <2>1. u # "sched"
    BY SchedAssumption
  <2>2. QED
    BY <1>10, <2>1 DEF BitstreamInv, Target, UserLock, UserUnlock
<1>11. CASE UNCHANGED vars
  BY <1>11 DEF BitstreamInv, Target, vars
<1>12. QED
  BY <1>1, <1>2, <1>3, <1>4, <1>5, <1>6, <1>7, <1>8, <1>9, <1>10, <1>11
     DEF Next, SchedulerStep

\* Unless the constructor is told a bitstream that is not loaded, every
\* function runs on its own one with the vFPGA lock held (schedule()).
THEOREM FunctionsRunOnTheirBitstream ==
  ASSUME TruthfulArgument
  PROVE  Spec => []RunsOnItsBitstream
<1>1. TypeInv /\ BitstreamInv => RunsOnItsBitstream
  <2> SUFFICES ASSUME TypeInv, BitstreamInv, sched = "running"
               PROVE  /\ region.loaded = Target(next_idx)
                      /\ vlock = "sched"
                      /\ next_idx \in Pending
    BY DEF RunsOnItsBitstream
  <2>1. next_idx \in Pending
    BY DEF TypeInv, ChosenIsPending, Busy
  <2>2. tasks[next_idx] \in Task
    BY <2>1 DEF Pending, TypeInv, TypeOK
  <2>3. Target(next_idx) \in Bitstreams
    BY <2>2, SchedAssumption DEF Target, Task
  <2>4. Target(next_idx) # NoBitstream
    BY <2>3, SchedAssumption
  <2>5. QED
    BY <2>1, <2>4 DEF BitstreamInv
<1>2. Init => BitstreamInv
  BY InitBitstreamInv
<1>3. QED
  BY <1>1, <1>2, NextBitstreamInv, AlwaysTypeInv, PTL DEF Spec

-----------------------------------------------------------------------------
(* First-come, first-served. While a task is being processed, everything     *)
(* before it is finished.                                                    *)

OrderInv ==
  ~cnfg.reorder =>
    /\ \A i, j \in DOMAIN tasks :
         i < j /\ tasks[j].is_completed => tasks[i].is_completed
    /\ Busy => \A i \in DOMAIN tasks : i < next_idx => tasks[i].is_completed

\* The scan finishes, in order, what cannot run, and stops at the first task
\* that can.
LEMMA ScanOrder ==
  ASSUME TypeInv, OrderInv, Scan
  PROVE  OrderInv'
<1>1. DOMAIN tasks = 1 .. Len(tasks) /\ Len(tasks) \in Nat
  BY DEF TypeInv, TypeOK
<1>2. DOMAIN tasks' = DOMAIN tasks
  BY ScanShape DEF TypeInv
<1>3. \A j \in DOMAIN tasks :
        /\ tasks[j].is_completed => tasks'[j].is_completed
        /\ Runnable(j) => tasks'[j] = tasks[j]
        /\ tasks'[j].is_completed =>
             tasks[j].is_completed \/ \A k \in Stops : j <= k
        /\ j \in Pending /\ ~Runnable(j) /\ (\A k \in Stops : j <= k)
             => tasks'[j].is_completed
  BY ScanShape DEF TypeInv
<1>4. cnfg' = cnfg
  BY DEF Scan
<1> SUFFICES ASSUME ~cnfg.reorder
             PROVE  /\ \A i, j \in DOMAIN tasks :
                         i < j /\ tasks'[j].is_completed
                           => tasks'[i].is_completed
                    /\ Busy' => \A i \in DOMAIN tasks :
                                  i < next_idx' => tasks'[i].is_completed
  BY <1>2, <1>4 DEF OrderInv
<1>5. Stops = {i \in Pending : Runnable(i)}
  BY DEF Stops
<1>6. ASSUME NEW i \in DOMAIN tasks, NEW j \in DOMAIN tasks, i < j,
             \A k \in Stops : j <= k
      PROVE  tasks'[i].is_completed
  <2>1. \A k \in Stops : i < k
    BY <1>1, <1>5, <1>6 DEF Pending
  <2>2. i \notin Stops
    BY <1>1, <2>1
  <2>3. CASE tasks[i].is_completed
    BY <1>3, <2>3
  <2>4. CASE ~tasks[i].is_completed
    <3>1. i \in Pending /\ ~Runnable(i)
      BY <1>5, <2>2, <2>4 DEF Pending
    <3>2. \A k \in Stops : i <= k
      BY <1>1, <1>5, <2>1 DEF Pending
    <3>3. QED
      BY <1>3, <3>1, <3>2
  <2>5. QED
    BY <2>3, <2>4
<1>7. ASSUME NEW i \in DOMAIN tasks, NEW j \in DOMAIN tasks, i < j,
             tasks'[j].is_completed
      PROVE  tasks'[i].is_completed
  <2>1. CASE tasks[j].is_completed
    BY <1>3, <1>7, <2>1 DEF OrderInv
  <2>2. CASE \A k \in Stops : j <= k
    BY <1>6, <1>7, <2>2
  <2>3. QED
    BY <1>3, <1>7, <2>1, <2>2
<1>8. ASSUME Busy', NEW i \in DOMAIN tasks, i < next_idx'
      PROVE  tasks'[i].is_completed
  <2>1. /\ next_idx' \in Stops
        /\ \A k \in Stops : next_idx' <= k
    BY <1>5, <1>8 DEF Scan, Busy
  <2>2. next_idx' \in DOMAIN tasks
    BY <2>1 DEF Stops, Pending
  <2>3. QED
    BY <1>6, <1>8, <2>1, <2>2
<1>9. QED
  BY <1>7, <1>8

\* Finishing the chosen task respects the order.
LEMMA CompleteOrder ==
  ASSUME TypeInv, OrderInv, Busy, NEW code \in {"ok", "error"},
         tasks' = Completed(next_idx, code), cnfg' = cnfg, ~Busy'
  PROVE  OrderInv'
<1>1. /\ next_idx \in DOMAIN tasks
      /\ DOMAIN tasks' = DOMAIN tasks
      /\ \A j \in DOMAIN tasks :
           tasks'[j].is_completed = (tasks[j].is_completed \/ j = next_idx)
  BY CompleteChosenShape
<1>2. QED
  BY <1>1 DEF OrderInv

\* A step that leaves the list and the chosen task alone keeps the order.
LEMMA SameListOrder ==
  ASSUME OrderInv, tasks' = tasks, next_idx' = next_idx, cnfg' = cnfg,
         Busy' => Busy
  PROVE  OrderInv'
  BY DEF OrderInv

\* Every step keeps the order.
LEMMA NextOrderInv == TypeInv /\ OrderInv /\ [Next]_vars => OrderInv'
<1> SUFFICES ASSUME TypeInv, OrderInv, [Next]_vars PROVE OrderInv'
  OBVIOUS
<1>1. ASSUME NEW f \in Fids, AddFunctionBegin(f) \/ AddFunctionEnd(f)
      PROVE  OrderInv'
  BY <1>1, SameListOrder DEF Busy, AddFunctionBegin, AddFunctionEnd
<1>2. ASSUME NEW c \in Clients, NEW t \in Tids, NEW f \in Fids,
             NEW cthread \in BOOLEAN, AddTaskCheck(c, t, f, cthread)
      PROVE  OrderInv'
  BY <1>2, SameListOrder DEF Busy, AddTaskCheck
<1>3. ASSUME NEW c \in Clients, AddTaskPush(c)
      PROVE  OrderInv'
  <2>1. ~Busy' /\ cnfg' = cnfg
    BY <1>3 DEF AddTaskPush, TlockFree, Busy
  <2>2. /\ DOMAIN tasks' = DOMAIN tasks \cup {Len(tasks) + 1}
        /\ \A j \in DOMAIN tasks : tasks'[j] = tasks[j]
        /\ tasks'[Len(tasks) + 1].is_completed = FALSE
    BY <1>3, PushShape DEF TypeInv
  <2>3. DOMAIN tasks = 1 .. Len(tasks) /\ Len(tasks) \in Nat
    BY DEF TypeInv, TypeOK
  <2>4. QED
    BY <2>1, <2>2, <2>3 DEF OrderInv
<1>4. CASE Start \/ Stop \/ Exit
  BY <1>4, SameListOrder DEF Busy, Start, Stop, Exit
<1>5. CASE Scan
  BY <1>5, ScanOrder
<1>6. CASE Compare
  <2>1. CASE tasks' = tasks
    BY <1>6, <2>1, SameListOrder DEF Busy, Compare
  <2>2. CASE tasks' = Completed(next_idx, "error") /\ sched' = "idle"
    BY <1>6, <2>2, CompleteOrder DEF Busy, Compare
  <2>3. QED
    BY <1>6, <2>1, <2>2 DEF Compare
<1>7. CASE Reconfigure
  <2>1. CASE tasks' = tasks
    BY <1>7, <2>1, SameListOrder DEF Busy, Reconfigure
  <2>2. CASE tasks' = Completed(next_idx, "error") /\ sched' = "idle"
    BY <1>7, <2>2, CompleteOrder DEF Busy, Reconfigure
  <2>3. QED
    BY <1>7, <2>1, <2>2 DEF Reconfigure
<1>8. CASE Execute
  BY <1>8, SameListOrder DEF Busy, Execute
<1>9. CASE Finish
  <2>1. CASE tasks' = tasks
    BY <1>9, <2>1, SameListOrder DEF Busy, Finish
  <2>2. ASSUME NEW code \in {"ok", "error"},
               tasks' = Completed(next_idx, code), sched' = "idle"
        PROVE  OrderInv'
    BY <1>9, <2>2, CompleteOrder DEF Busy, Finish
  <2>3. QED
    BY <1>9, <2>1, <2>2 DEF Finish
<1>10. ASSUME NEW u \in Users, UserLock(u) \/ UserUnlock(u)
       PROVE  OrderInv'
  BY <1>10, SameListOrder DEF Busy, UserLock, UserUnlock
<1>11. CASE UNCHANGED vars
  BY <1>11, SameListOrder DEF Busy, vars
<1>12. QED
  BY <1>1, <1>2, <1>3, <1>4, <1>5, <1>6, <1>7, <1>8, <1>9, <1>10, <1>11
     DEF Next, SchedulerStep

\* Without reordering, tasks are completed in the order of the list.
THEOREM TasksCompleteInOrder == Spec => []FirstComeFirstServed
<1>1. Init => OrderInv
  BY DEF Init, OrderInv, Busy
<1>2. OrderInv => FirstComeFirstServed
  BY DEF OrderInv, FirstComeFirstServed
<1>3. QED
  BY <1>1, <1>2, NextOrderInv, AlwaysTypeInv, PTL DEF Spec

(***************************************************************************)
(* When the scheduler reconfigures, and what registering the bitstreams    *)
(* before starting it guarantees.                                          *)
(***************************************************************************)

(* Minimize reconfigurations. tlock keeps new tasks out between the scan and *)
(* the reconfiguration, so what the scan saw still holds.                    *)

NoMatchInv ==
  cnfg.reorder /\ sched \in {"picked", "reconfigure"}
    /\ current_bitstream # Target(next_idx)
    => \A i \in Pending : Target(i) # current_bitstream

\* With reordering the scan passes over a matching task only to take another.
LEMMA ScanNoMatch ==
  ASSUME TypeInv, Scan
  PROVE  NoMatchInv'
<1>1. /\ DOMAIN tasks' = DOMAIN tasks
      /\ \A j \in DOMAIN tasks :
           /\ tasks'[j].fid = tasks[j].fid
           /\ tasks[j].is_completed => tasks'[j] = tasks[j]
           /\ j \in Pending /\ ~Runnable(j) /\ (\A k \in Stops : j <= k)
                => tasks'[j].is_completed
  BY ScanShape DEF TypeInv
<1>2. UNCHANGED <<cnfg, current_bitstream>>
  BY DEF Scan
<1> SUFFICES ASSUME cnfg.reorder, sched' = "picked",
                    current_bitstream # Target(next_idx)',
                    NEW i \in Pending'
             PROVE  Target(i)' # current_bitstream
  <2>1. sched' \in {"idle", "picked"}
    BY DEF Scan
  <2>2. QED
    BY <1>2, <2>1 DEF NoMatchInv
<1>3. \A j \in DOMAIN tasks : Target(j)' = Target(j)
  BY <1>1 DEF Target
<1>4. next_idx' \in DOMAIN tasks
  BY DEF Scan, Stops, Pending
<1>5. Target(next_idx)' = Target(next_idx')
  BY <1>1, <1>4 DEF Target
<1>6. next_idx' \notin Stops
  BY <1>5 DEF Stops
<1>7. Stops = {}
  BY <1>6 DEF Scan
<1>8. i \in DOMAIN tasks /\ ~tasks'[i].is_completed
  BY <1>1 DEF Pending
<1>9. i \in Pending
  BY <1>1, <1>8 DEF Pending
<1>10. Runnable(i)
  BY <1>1, <1>7, <1>8, <1>9
<1>11. Target(i) # current_bitstream
  BY <1>7, <1>9, <1>10 DEF Stops
<1>12. QED
  BY <1>3, <1>8, <1>11

\* Every step keeps what the scan saw.
LEMMA NextNoMatchInv == TypeInv /\ NoMatchInv /\ [Next]_vars => NoMatchInv'
<1> SUFFICES ASSUME TypeInv, NoMatchInv, [Next]_vars PROVE NoMatchInv'
  OBVIOUS
<1> USE DEF NoMatchInv, Target, Pending
<1>1. ASSUME NEW f \in Fids, AddFunctionBegin(f) \/ AddFunctionEnd(f)
      PROVE  NoMatchInv'
  BY <1>1 DEF AddFunctionBegin, AddFunctionEnd
<1>2. ASSUME NEW c \in Clients, NEW t \in Tids, NEW f \in Fids,
             NEW cthread \in BOOLEAN, AddTaskCheck(c, t, f, cthread)
      PROVE  NoMatchInv'
  BY <1>2 DEF AddTaskCheck
<1>3. ASSUME NEW c \in Clients, AddTaskPush(c)
      PROVE  NoMatchInv'
  BY <1>3 DEF AddTaskPush, TlockFree
<1>4. CASE Start \/ Stop \/ Exit
  BY <1>4 DEF Start, Stop, Exit
<1>5. CASE Scan
  BY <1>5, ScanNoMatch
<1>6. CASE Compare
  BY <1>6 DEF Compare
<1>7. CASE Reconfigure
  BY <1>7 DEF Reconfigure
<1>8. CASE Execute
  BY <1>8 DEF Execute
<1>9. CASE Finish
  BY <1>9 DEF Finish
<1>10. ASSUME NEW u \in Users, UserLock(u) \/ UserUnlock(u)
       PROVE  NoMatchInv'
  BY <1>10 DEF UserLock, UserUnlock
<1>11. CASE UNCHANGED vars
  BY <1>11 DEF vars
<1>12. QED
  BY <1>1, <1>2, <1>3, <1>4, <1>5, <1>6, <1>7, <1>8, <1>9, <1>10, <1>11
     DEF Next, SchedulerStep

\* With reordering, a bitstream that some unfinished task wants is never
\* replaced.
THEOREM ReconfiguresLast == Spec => ReconfiguresOnlyWhenIdle
<1>1. Init => NoMatchInv
  BY DEF Init, NoMatchInv
<1>2. NoMatchInv /\ [Next]_vars =>
        [cnfg.reorder /\ current_bitstream' # current_bitstream =>
           \A i \in Pending : Target(i) # current_bitstream]_vars
  <2> SUFFICES ASSUME NoMatchInv, [Next]_vars, cnfg.reorder,
                      current_bitstream' # current_bitstream
               PROVE  \A i \in Pending : Target(i) # current_bitstream
    OBVIOUS
  <2>1. Reconfigure
    BY DEF Next, SchedulerStep, vars, AddFunctionBegin, AddFunctionEnd,
           AddTaskCheck, AddTaskPush, Start, Stop, Exit, Scan, Compare,
           Execute, Finish, UserLock, UserUnlock
  <2>2. sched = "reconfigure" /\ current_bitstream' = Target(next_idx)
    BY <2>1 DEF Reconfigure
  <2>3. QED
    BY <2>2 DEF NoMatchInv
<1>3. QED
  BY <1>1, <1>2, NextNoMatchInv, AlwaysTypeInv, PTL
     DEF Spec, ReconfiguresOnlyWhenIdle

\* Both scheduling policies of cSched keep what the class comment promises.
THEOREM PolicyKept == Spec => PolicyIsKept
BY TasksCompleteInOrder, ReconfiguresLast, PTL DEF PolicyIsKept

-----------------------------------------------------------------------------
(* Registration before operation. Functions are only being loaded while      *)
(* nothing else goes on, so everything that was submitted can run.           *)

EarlyInv ==
  ~late =>
    /\ sched # "crashed"
    /\ ~region.rcnfg_lock
    /\ Crid = Vfid => region.coupled
    /\ Loading => Quiet
    /\ \A i \in DOMAIN tasks : functions[tasks[i].fid] = "ready"
    /\ \A c \in Clients : request[c] # NoRequest =>
                            functions[request[c].fid] = "ready"

\* Once something was submitted or started, no function is being loaded.
LEMMA NextEarlyInv == TypeInv /\ EarlyInv /\ [Next]_vars => EarlyInv'
<1> SUFFICES ASSUME TypeInv, EarlyInv, [Next]_vars, ~late' PROVE EarlyInv'
  BY DEF EarlyInv
<1> USE DEF TypeInv
<1>0. ~late
  BY DEF Next, SchedulerStep, vars, AddFunctionBegin, AddFunctionEnd,
         AddTaskCheck, AddTaskPush, Start, Stop, Exit, Scan, Compare,
         Reconfigure, Execute, Finish, UserLock, UserUnlock
<1>1. ASSUME NEW f \in Fids, AddFunctionBegin(f)
      PROVE  EarlyInv'
  <2>1. Quiet
    BY <1>1 DEF AddFunctionBegin
  <2>2. UNCHANGED <<tasks, request, sched, region>>
    BY <1>1 DEF AddFunctionBegin
  <2>3. QED
    BY <1>0, <2>1, <2>2 DEF EarlyInv, Quiet
<1>2. ASSUME NEW f \in Fids, AddFunctionEnd(f)
      PROVE  EarlyInv'
  <2>1. Quiet
    BY <1>0, <1>2 DEF AddFunctionEnd, EarlyInv, Loading
  <2>2. UNCHANGED <<tasks, request, sched, region>>
    BY <1>2 DEF AddFunctionEnd
  <2>3. QED
    BY <1>0, <2>1, <2>2 DEF EarlyInv, Quiet
<1>3. ASSUME NEW c \in Clients, NEW t \in Tids, NEW f \in Fids,
             NEW cthread \in BOOLEAN, AddTaskCheck(c, t, f, cthread)
      PROVE  EarlyInv'
  <2>1. ~Loading
    BY <1>3 DEF AddTaskCheck
  <2>2. functions[f] = "ready"
    BY <1>3, <2>1 DEF AddTaskCheck, Loading, TypeOK
  <2>3. UNCHANGED <<functions, tasks, sched, region>>
    BY <1>3 DEF AddTaskCheck
  <2>4. ~Loading'
    BY <2>1, <2>3 DEF Loading
  <2>5. \A d \in Clients : request'[d] # NoRequest =>
                             functions[request'[d].fid] = "ready"
    <3> SUFFICES ASSUME NEW d \in Clients, request'[d] # NoRequest
                 PROVE  functions[request'[d].fid] = "ready"
      OBVIOUS
    <3>1. CASE d = c
      BY <1>3, <2>2, <3>1 DEF AddTaskCheck, TypeOK
    <3>2. CASE d # c
      BY <1>0, <1>3, <3>2 DEF AddTaskCheck, EarlyInv, TypeOK
    <3>3. QED
      BY <3>1, <3>2
  <2>6. QED
    BY <1>0, <2>3, <2>4, <2>5 DEF EarlyInv
<1>4. ASSUME NEW c \in Clients, AddTaskPush(c)
      PROVE  EarlyInv'
  <2>1. request[c] # NoRequest
    BY <1>4 DEF AddTaskPush
  <2>2. ~Loading /\ functions[request[c].fid] = "ready"
    BY <1>0, <2>1 DEF EarlyInv, Quiet
  <2>3. /\ UNCHANGED <<functions, sched, region>>
        /\ request' = [request EXCEPT ![c] = NoRequest]
    BY <1>4 DEF AddTaskPush
  <2>4. /\ DOMAIN tasks' = DOMAIN tasks \cup {Len(tasks) + 1}
        /\ \A j \in DOMAIN tasks : tasks'[j] = tasks[j]
        /\ tasks'[Len(tasks) + 1].fid = request[c].fid
    BY <1>4, PushShape
  <2>5. ~Loading'
    BY <2>2, <2>3 DEF Loading
  <2>6. \A i \in DOMAIN tasks' : functions[tasks'[i].fid] = "ready"
    BY <1>0, <2>2, <2>4 DEF EarlyInv
  <2>7. \A d \in Clients : request'[d] # NoRequest =>
                             functions[request'[d].fid] = "ready"
    BY <1>0, <2>3 DEF EarlyInv, TypeOK
  <2>8. QED
    BY <1>0, <2>3, <2>5, <2>6, <2>7 DEF EarlyInv
<1>5. CASE Start
  BY <1>0, <1>5 DEF EarlyInv, Start, Loading
<1>6. CASE Stop \/ Exit
  BY <1>0, <1>6 DEF EarlyInv, Stop, Exit, Loading, Quiet
<1>7. ASSUME sched # "off", sched' # "crashed", functions' = functions,
             request' = request, ~region'.rcnfg_lock,
             Crid = Vfid => region'.coupled, DOMAIN tasks' = DOMAIN tasks,
             \A j \in DOMAIN tasks : tasks'[j].fid = tasks[j].fid
      PROVE  EarlyInv'
  BY <1>0, <1>7 DEF EarlyInv, Loading, Quiet
<1>8. CASE Scan
  <2>1. /\ DOMAIN tasks' = DOMAIN tasks
        /\ \A j \in DOMAIN tasks : tasks'[j].fid = tasks[j].fid
    BY <1>8, ScanShape
  <2>2. QED
    BY <1>0, <1>7, <1>8, <2>1 DEF EarlyInv, Scan
<1>9. ASSUME Busy PROVE functions[tasks[next_idx].fid] = "ready"
  BY <1>0, <1>9 DEF EarlyInv, ChosenIsPending, Pending
<1>10. CASE Compare
  <2>1. CASE tasks' = tasks
    BY <1>0, <1>7, <1>9, <1>10, <2>1 DEF EarlyInv, Compare, Busy
  <2>2. CASE tasks' = Completed(next_idx, "error") /\ sched' = "idle"
    <3>0. Busy
      BY <1>10 DEF Busy, Compare
    <3>1. /\ DOMAIN tasks' = DOMAIN tasks
          /\ \A j \in DOMAIN tasks : tasks'[j].fid = tasks[j].fid
      BY <2>2, <3>0, CompleteChosenShape
    <3>2. QED
      BY <1>0, <1>7, <1>10, <2>2, <3>1 DEF EarlyInv, Compare
  <2>3. QED
    BY <1>10, <2>1, <2>2 DEF Compare
<1>11. CASE Reconfigure
  <2>1. functions[tasks[next_idx].fid] = "ready"
    BY <1>9, <1>11 DEF Reconfigure, Busy
  <2>2. /\ region' = Loaded(next_idx)
        /\ ~region.rcnfg_lock
        /\ sched' = "execute"
        /\ tasks' = tasks
    BY <1>11, <2>1 DEF Reconfigure
  <2>3. ~region'.rcnfg_lock /\ region'.coupled = (Crid = Vfid)
    BY <2>2 DEF TypeOK, Loaded
  <2>4. QED
    BY <1>7, <1>11, <2>2, <2>3 DEF Reconfigure
<1>12. CASE Execute
  BY <1>0, <1>7, <1>9, <1>12 DEF EarlyInv, Execute, Busy
<1>13. CASE Finish
  <2>1. functions[tasks[next_idx].fid] = "ready"
    BY <1>9, <1>13 DEF Finish, Busy
  <2>2. PICK code \in {"ok", "error"} : tasks' = Completed(next_idx, code)
    BY <1>13, <2>1 DEF Finish
  <2>0. Busy
    BY <1>13 DEF Busy, Finish
  <2>3. /\ DOMAIN tasks' = DOMAIN tasks
        /\ \A j \in DOMAIN tasks : tasks'[j].fid = tasks[j].fid
    BY <2>0, <2>2, CompleteChosenShape
  <2>4. QED
    BY <1>0, <1>7, <1>13, <2>1, <2>3 DEF EarlyInv, Finish
<1>14. ASSUME NEW u \in Users, UserLock(u) \/ UserUnlock(u)
       PROVE  EarlyInv'
  BY <1>0, <1>14 DEF EarlyInv, Loading, Quiet, UserLock, UserUnlock
<1>15. CASE UNCHANGED vars
  BY <1>0, <1>15 DEF EarlyInv, Loading, Quiet, vars
<1>16. QED
  BY <1>1, <1>2, <1>3, <1>4, <1>5, <1>6, <1>8, <1>10, <1>11, <1>12, <1>13,
     <1>14, <1>15 DEF Next, SchedulerStep

\* Functions registered before operation: no crash, no leaked rcnfg_lock, and
\* the region is coupled whenever a function runs.
THEOREM EarlyRegistration == Spec => []EarlyRegistrationIsSafe
<1>1. Init => EarlyInv
  <2> SUFFICES ASSUME Init PROVE EarlyInv
    OBVIOUS
  <2>1. ~region.rcnfg_lock /\ region.coupled
    BY DEF Init
  <2>2. ~Loading
    BY DEF Init, Loading
  <2>3. tasks = <<>> /\ sched = "off" /\ \A c \in Clients : request[c] = NoRequest
    BY DEF Init
  <2>4. QED
    BY <2>1, <2>2, <2>3 DEF EarlyInv
<1>2. EarlyInv => EarlyRegistrationIsSafe
  BY DEF EarlyInv, EarlyRegistrationIsSafe
<1>3. QED
  BY <1>1, <1>2, NextEarlyInv, AlwaysTypeInv, PTL DEF Spec

-----------------------------------------------------------------------------
(***************************************************************************)
(* The scheduler implements TaskQueue when no two clients submit under the *)
(* same task ID, as in cService, whose IDs come from one atomic counter.   *)
(***************************************************************************)

DisjointTids ==
  \A c, d \in Clients : c # d => TidsOf[c] \cap TidsOf[d] = {}

\* A request that passed the checks of addTask is still good when it gets
\* tlock.
MapInv ==
  /\ MapAgreesWithList
  /\ \A c \in Clients : request[c] # NoRequest =>
       /\ request[c].tid \in TidsOf[c]
       /\ task_id_map[request[c].tid] = 0

\* Steps that leave the list, the map and the requests alone.
LEMMA SameMap ==
  ASSUME MapInv, request' = request, task_id_map' = task_id_map,
         DOMAIN tasks' = DOMAIN tasks,
         \A j \in DOMAIN tasks : tasks'[j].tid = tasks[j].tid
  PROVE  MapInv'
  BY DEF MapInv, MapAgreesWithList

\* Every step keeps map and list in step.
LEMMA NextMapInv ==
  ASSUME DisjointTids
  PROVE  TypeInv /\ MapInv /\ [Next]_vars => MapInv'
<1> SUFFICES ASSUME TypeInv, MapInv, [Next]_vars PROVE MapInv'
  OBVIOUS
<1> USE DEF TypeInv
<1>1. ASSUME NEW f \in Fids, AddFunctionBegin(f) \/ AddFunctionEnd(f)
      PROVE  MapInv'
  BY <1>1, SameMap DEF AddFunctionBegin, AddFunctionEnd
<1>2. ASSUME NEW c \in Clients, NEW t \in Tids, NEW f \in Fids,
             NEW cthread \in BOOLEAN, AddTaskCheck(c, t, f, cthread)
      PROVE  MapInv'
  <2>1. MapAgreesWithList'
    BY <1>2 DEF MapInv, MapAgreesWithList, AddTaskCheck
  <2>2. ASSUME NEW d \in Clients, request'[d] # NoRequest
        PROVE  /\ request'[d].tid \in TidsOf[d]
               /\ task_id_map[request'[d].tid] = 0
    <3>1. CASE d = c
      BY <1>2, <3>1 DEF AddTaskCheck, TypeOK
    <3>2. CASE d # c
      BY <1>2, <2>2, <3>2 DEF AddTaskCheck, MapInv, TypeOK
    <3>3. QED
      BY <3>1, <3>2
  <2>3. task_id_map' = task_id_map
    BY <1>2 DEF AddTaskCheck
  <2>4. QED
    BY <2>1, <2>2, <2>3 DEF MapInv
<1>3. ASSUME NEW c \in Clients, AddTaskPush(c)
      PROVE  MapInv'
  <2> DEFINE t == request[c].tid
             n == Len(tasks) + 1
  <2>1. request[c] # NoRequest /\ t \in Tids /\ t \in TidsOf[c]
    BY <1>3, PushShape DEF AddTaskPush, MapInv, Request
  <2>2. task_id_map[t] = 0
    BY <2>1 DEF MapInv
  <2>3. /\ task_id_map' = [task_id_map EXCEPT ![t] = n]
        /\ request' = [request EXCEPT ![c] = NoRequest]
    BY <1>3, <2>2 DEF AddTaskPush
  <2>4. /\ DOMAIN tasks' = DOMAIN tasks \cup {n}
        /\ n \notin DOMAIN tasks
        /\ \A j \in DOMAIN tasks : tasks'[j] = tasks[j]
        /\ tasks'[n].tid = t
    BY <1>3, PushShape
  <2>5. n \in Nat \ {0} /\ task_id_map \in [Tids -> Nat]
    BY DEF TypeOK
  <2>6. \A j \in DOMAIN tasks : tasks[j].tid \in Tids /\ tasks[j].tid # t
    <3> SUFFICES ASSUME NEW j \in DOMAIN tasks
                 PROVE  tasks[j].tid \in Tids /\ tasks[j].tid # t
      OBVIOUS
    <3>1. task_id_map[tasks[j].tid] = j /\ j # 0 /\ tasks[j] \in Task
      BY DEF MapInv, MapAgreesWithList, TypeOK
    <3>2. QED
      BY <2>2, <3>1 DEF Task
  <2> HIDE DEF t, n
  <2>7. ASSUME NEW u \in Tids, task_id_map'[u] # 0
        PROVE  /\ task_id_map'[u] \in DOMAIN tasks'
               /\ tasks'[task_id_map'[u]].tid = u
    <3>1. CASE u = t
      BY <2>3, <2>4, <2>5, <3>1
    <3>2. CASE u # t
      BY <2>3, <2>4, <2>5, <2>7, <3>2 DEF MapInv, MapAgreesWithList
    <3>3. QED
      BY <3>1, <3>2
  <2>8. ASSUME NEW i \in DOMAIN tasks'
        PROVE  task_id_map'[tasks'[i].tid] = i
    <3>1. CASE i = n
      BY <2>1, <2>3, <2>4, <2>5, <3>1
    <3>2. CASE i \in DOMAIN tasks
      BY <2>3, <2>4, <2>5, <2>6, <3>2 DEF MapInv, MapAgreesWithList
    <3>3. QED
      BY <2>4, <3>1, <3>2
  <2>9. ASSUME NEW d \in Clients, request'[d] # NoRequest
        PROVE  /\ request'[d].tid \in TidsOf[d]
               /\ task_id_map'[request'[d].tid] = 0
    <3>1. d # c /\ request'[d] = request[d]
      BY <2>3, <2>9 DEF TypeOK
    <3>2. /\ request[d].tid \in TidsOf[d]
          /\ task_id_map[request[d].tid] = 0
      BY <2>9, <3>1 DEF MapInv
    <3>3. request[d].tid # t
      BY <2>1, <3>1, <3>2 DEF DisjointTids
    <3>4. QED
      BY <2>3, <2>5, <3>1, <3>2, <3>3
  <2>10. QED
    BY <2>7, <2>8, <2>9 DEF MapInv, MapAgreesWithList
<1>4. CASE Start \/ Stop \/ Exit
  BY <1>4, SameMap DEF Start, Stop, Exit
<1>5. CASE Scan
  <2>1. /\ DOMAIN tasks' = DOMAIN tasks
        /\ \A j \in DOMAIN tasks : tasks'[j].tid = tasks[j].tid
    BY <1>5, ScanShape
  <2>2. QED
    BY <1>5, <2>1, SameMap DEF Scan
<1>6. ASSUME Busy, NEW code \in {"ok", "error"},
             tasks' = Completed(next_idx, code), request' = request,
             task_id_map' = task_id_map
      PROVE  MapInv'
  BY <1>6, CompleteChosenShape, SameMap
<1>7. CASE Compare
  BY <1>6, <1>7, SameMap DEF Compare, Busy
<1>8. CASE Reconfigure
  BY <1>6, <1>8, SameMap DEF Reconfigure, Busy
<1>9. CASE Execute
  BY <1>9, SameMap DEF Execute
<1>10. CASE Finish
  BY <1>6, <1>10, SameMap DEF Finish, Busy
<1>11. ASSUME NEW u \in Users, UserLock(u) \/ UserUnlock(u)
       PROVE  MapInv'
  BY <1>11, SameMap DEF UserLock, UserUnlock
<1>12. CASE UNCHANGED vars
  BY <1>12, SameMap DEF vars
<1>13. QED
  BY <1>1, <1>2, <1>3, <1>4, <1>5, <1>7, <1>8, <1>9, <1>10, <1>11, <1>12
     DEF Next, SchedulerStep

\* With IDs that no two clients share, every task can be found under its ID.
THEOREM TasksAreFound ==
  ASSUME DisjointTids
  PROVE  Spec => []MapAgreesWithList
<1>1. Init => MapInv
  BY DEF Init, MapInv, MapAgreesWithList
<1>2. MapInv => MapAgreesWithList
  BY DEF MapInv
<1>3. TypeInv /\ MapInv /\ [Next]_vars => MapInv'
  BY NextMapInv
<1>4. QED
  BY <1>1, <1>2, <1>3, AlwaysTypeInv, PTL DEF Spec

-----------------------------------------------------------------------------
(* Return codes tell whether a task is finished, and the scheduler holds the *)
(* vFPGA lock only around an unfinished task.                                *)

OutcomeInv ==
  /\ \A i \in DOMAIN tasks :
       tasks[i].is_completed = (tasks[i].ret_code # "unset")
  /\ vlock = "sched" => /\ sched \in {"running", "crashed"}
                        /\ next_idx \in Pending

\* Steps that leave the list and the chosen task alone.
LEMMA SameOutcome ==
  ASSUME OutcomeInv, tasks' = tasks, next_idx' = next_idx,
         vlock' = "sched" => /\ sched' \in {"running", "crashed"}
                             /\ vlock = "sched" \/ next_idx \in Pending
  PROVE  OutcomeInv'
  BY DEF OutcomeInv, Pending

\* Every step keeps codes and lock in step.
LEMMA NextOutcomeInv == TypeInv /\ OutcomeInv /\ [Next]_vars => OutcomeInv'
<1> SUFFICES ASSUME TypeInv, OutcomeInv, [Next]_vars PROVE OutcomeInv'
  OBVIOUS
<1> USE DEF TypeInv
<1>1. ASSUME NEW f \in Fids, AddFunctionBegin(f) \/ AddFunctionEnd(f)
      PROVE  OutcomeInv'
  BY <1>1, SameOutcome DEF OutcomeInv, AddFunctionBegin, AddFunctionEnd
<1>2. ASSUME NEW c \in Clients, NEW t \in Tids, NEW f \in Fids,
             NEW cthread \in BOOLEAN, AddTaskCheck(c, t, f, cthread)
      PROVE  OutcomeInv'
  BY <1>2, SameOutcome DEF OutcomeInv, AddTaskCheck
<1>3. ASSUME NEW c \in Clients, AddTaskPush(c)
      PROVE  OutcomeInv'
  <2>1. vlock' # "sched"
    BY <1>3 DEF AddTaskPush, TlockFree, Alive, OutcomeInv
  <2>2. /\ DOMAIN tasks' = DOMAIN tasks \cup {Len(tasks) + 1}
        /\ \A j \in DOMAIN tasks : tasks'[j] = tasks[j]
        /\ tasks'[Len(tasks) + 1].is_completed = FALSE
        /\ tasks'[Len(tasks) + 1].ret_code = "unset"
    BY <1>3, PushShape
  <2>3. QED
    BY <2>1, <2>2 DEF OutcomeInv
<1>4. CASE Start \/ Stop \/ Exit
  BY <1>4, SameOutcome DEF OutcomeInv, Start, Stop, Exit
<1>5. CASE Scan
  <2>1. vlock' # "sched"
    BY <1>5 DEF Scan, OutcomeInv
  <2>2. /\ DOMAIN tasks' = DOMAIN tasks
        /\ \A j \in DOMAIN tasks :
             \/ tasks'[j] = tasks[j]
             \/ /\ tasks'[j].is_completed
                /\ tasks'[j].ret_code = "error"
    BY <1>5, ScanShape
  <2>3. \A j \in DOMAIN tasks :
          tasks'[j].is_completed = (tasks'[j].ret_code # "unset")
    <3> SUFFICES ASSUME NEW j \in DOMAIN tasks
                 PROVE  tasks'[j].is_completed = (tasks'[j].ret_code # "unset")
      OBVIOUS
    <3>1. CASE tasks'[j] = tasks[j]
      BY <3>1 DEF OutcomeInv
    <3>2. CASE tasks'[j].is_completed /\ tasks'[j].ret_code = "error"
      <4>1. tasks'[j].is_completed \in BOOLEAN
        BY <1>5, ScanShape
      <4>2. QED
        BY <3>2, <4>1
    <3>3. QED
      BY <1>5, <3>1, <3>2, ScanShape
  <2>4. QED
    BY <2>1, <2>2, <2>3 DEF OutcomeInv
<1>6. ASSUME Busy, NEW code \in {"ok", "error"},
             tasks' = Completed(next_idx, code), vlock' # "sched"
      PROVE  OutcomeInv'
  <2>1. /\ DOMAIN tasks' = DOMAIN tasks
        /\ \A j \in DOMAIN tasks :
             /\ tasks'[j].is_completed = (tasks[j].is_completed \/ j = next_idx)
             /\ j # next_idx => tasks'[j] = tasks[j]
             /\ j = next_idx => tasks'[j].ret_code = code
    BY <1>6, CompleteChosenShape
  <2>2. code # "unset"
    BY <1>6
  <2>3. QED
    BY <1>6, <2>1, <2>2 DEF OutcomeInv
<1>7. CASE Compare
  <2>1. vlock' = vlock /\ vlock # "sched" /\ Busy /\ next_idx' = next_idx
    BY <1>7 DEF Compare, OutcomeInv, Busy
  <2>2. QED
    BY <1>6, <1>7, <2>1, SameOutcome DEF Compare
<1>8. CASE Reconfigure
  <2>1. vlock' = vlock /\ vlock # "sched" /\ Busy /\ next_idx' = next_idx
    BY <1>8 DEF Reconfigure, OutcomeInv, Busy
  <2>2. QED
    BY <1>6, <1>8, <2>1, SameOutcome DEF Reconfigure
<1>9. CASE Execute
  <2>1. next_idx \in Pending
    BY <1>9 DEF Execute, ChosenIsPending, Busy
  <2>2. QED
    BY <1>9, <2>1, SameOutcome DEF Execute
<1>10. CASE Finish
  <2>1. Busy /\ next_idx' = next_idx /\ next_idx \in Pending
    BY <1>10 DEF Finish, ChosenIsPending, Busy
  <2>2. QED
    BY <1>6, <1>10, <2>1, SameOutcome DEF Finish
<1>11. ASSUME NEW u \in Users, UserLock(u) \/ UserUnlock(u)
       PROVE  OutcomeInv'
  <2>1. u # "sched"
    BY SchedAssumption
  <2>2. QED
    BY <1>11, <2>1, SameOutcome DEF UserLock, UserUnlock
<1>12. CASE UNCHANGED vars
  BY <1>12, SameOutcome DEF OutcomeInv, vars
<1>13. QED
  BY <1>1, <1>2, <1>3, <1>4, <1>5, <1>7, <1>8, <1>9, <1>10, <1>11, <1>12
     DEF Next, SchedulerStep

\* A function runs under the vFPGA lock.
LockInv == sched = "running" => vlock = "sched"

\* Only Finish gives the scheduler's lock back, and it ends the run.
LEMMA NextLockInv == TypeInv /\ LockInv /\ [Next]_vars => LockInv'
<1> SUFFICES ASSUME LockInv, [Next]_vars PROVE LockInv'
  OBVIOUS
<1>1. ASSUME NEW u \in Users, UserLock(u) \/ UserUnlock(u)
      PROVE  LockInv'
  <2>1. u # "sched"
    BY SchedAssumption
  <2>2. QED
    BY <1>1, <2>1 DEF LockInv, UserLock, UserUnlock
<1>2. ASSUME NEW f \in Fids, AddFunctionBegin(f) \/ AddFunctionEnd(f)
      PROVE  LockInv'
  BY <1>2 DEF LockInv, AddFunctionBegin, AddFunctionEnd
<1>3. ASSUME NEW c \in Clients, NEW t \in Tids, NEW f \in Fids,
             NEW cthread \in BOOLEAN, AddTaskCheck(c, t, f, cthread)
      PROVE  LockInv'
  BY <1>3 DEF LockInv, AddTaskCheck
<1>4. ASSUME NEW c \in Clients, AddTaskPush(c)
      PROVE  LockInv'
  BY <1>4 DEF LockInv, AddTaskPush
<1>5. CASE Start \/ Stop \/ Exit
  BY <1>5 DEF LockInv, Start, Stop, Exit
<1>6. CASE Scan
  BY <1>6 DEF LockInv, Scan
<1>7. CASE Compare \/ Reconfigure
  BY <1>7 DEF LockInv, Compare, Reconfigure
<1>8. CASE Execute \/ Finish
  BY <1>8 DEF LockInv, Execute, Finish
<1>9. CASE UNCHANGED vars
  BY <1>9 DEF LockInv, vars
<1>10. QED
  BY <1>1, <1>2, <1>3, <1>4, <1>5, <1>6, <1>7, <1>8, <1>9
     DEF Next, SchedulerStep

-----------------------------------------------------------------------------
(* The refinement mapping. *)

st == [t \in Tids |-> Status(t)]

\* Where a task is, from its entry in the list.
StatusFacts ==
  \A t \in Tids :
    /\ task_id_map[t] = 0 => st[t] = "absent"
    /\ task_id_map[t] # 0 =>
         /\ tasks[task_id_map[t]].ret_code = "ok" => st[t] = "done"
         /\ tasks[task_id_map[t]].ret_code = "error" => st[t] = "failed"
         /\ task_id_map[t] \in Pending =>
              st[t] = IF vlock = "sched" /\ next_idx = task_id_map[t]
                      THEN "running" ELSE "queued"
         /\ \/ task_id_map[t] \in Pending
            \/ tasks[task_id_map[t]].ret_code \in {"ok", "error"}

QueueInv == TypeInv /\ MapInv /\ OutcomeInv /\ LockInv

\* The status of a task follows from the state of its entry.
LEMMA StatusOf == QueueInv => StatusFacts
<1> SUFFICES ASSUME QueueInv, NEW t \in Tids
             PROVE  /\ task_id_map[t] = 0 => st[t] = "absent"
                    /\ task_id_map[t] # 0 =>
                         /\ tasks[task_id_map[t]].ret_code = "ok" =>
                              st[t] = "done"
                         /\ tasks[task_id_map[t]].ret_code = "error" =>
                              st[t] = "failed"
                         /\ task_id_map[t] \in Pending =>
                              st[t] = IF vlock = "sched"
                                         /\ next_idx = task_id_map[t]
                                      THEN "running" ELSE "queued"
                         /\ \/ task_id_map[t] \in Pending
                            \/ tasks[task_id_map[t]].ret_code
                                 \in {"ok", "error"}
  BY DEF StatusFacts
<1>1. st[t] = Status(t)
  BY DEF st
<1>2. CASE task_id_map[t] = 0
  BY <1>1, <1>2 DEF Status
<1>3. CASE task_id_map[t] # 0
  <2>1. /\ task_id_map[t] \in DOMAIN tasks
        /\ tasks[task_id_map[t]] \in Task
    BY <1>3 DEF QueueInv, MapInv, MapAgreesWithList, TypeInv, TypeOK
  <2>2. /\ tasks[task_id_map[t]].ret_code \in {"unset", "ok", "error"}
        /\ tasks[task_id_map[t]].is_completed
             = (tasks[task_id_map[t]].ret_code # "unset")
    BY <2>1 DEF Task, QueueInv, OutcomeInv
  <2>3. /\ tasks[task_id_map[t]].ret_code = "ok" => st[t] = "done"
        /\ tasks[task_id_map[t]].ret_code = "error" => st[t] = "failed"
        /\ tasks[task_id_map[t]].ret_code = "unset" =>
             st[t] = IF vlock = "sched" /\ next_idx = task_id_map[t]
                     THEN "running" ELSE "queued"
    BY <1>1, <1>3 DEF Status
  <2>4. QED
    BY <1>3, <2>1, <2>2, <2>3 DEF Pending
<1>4. QED
  BY <1>2, <1>3

\* No entry changed, no new entry, and the lock is not passed to or from the
\* scheduler: clients see nothing.
LEMMA Invisible ==
  ASSUME tasks' = tasks, task_id_map' = task_id_map, next_idx' = next_idx,
         (vlock' = "sched") <=> (vlock = "sched")
  PROVE  st' = st
<1>1. ASSUME NEW t \in Tids
      PROVE  Status(t)' = Status(t)
  <2>1. CASE vlock = "sched"
    BY <2>1 DEF Status
  <2>2. CASE vlock # "sched"
    BY <2>2 DEF Status
  <2>3. QED
    BY <2>1, <2>2
<1>2. QED
  BY <1>1 DEF st

\* Failing or finishing the chosen task changes the status of its ID alone.
LEMMA CompleteVisible ==
  ASSUME QueueInv, StatusFacts, StatusFacts', Busy,
         NEW code \in {"ok", "error"}, tasks' = Completed(next_idx, code),
         task_id_map' = task_id_map, vlock' # "sched"
  PROVE  \E t \in Tids :
           /\ task_id_map[t] = next_idx
           /\ st[t] = IF vlock = "sched" THEN "running" ELSE "queued"
           /\ \A u \in Tids : u # t => st'[u] = st[u]
           /\ st'[t] = IF code = "ok" THEN "done" ELSE "failed"
<1> DEFINE t == tasks[next_idx].tid
<1>1. next_idx \in Pending /\ next_idx \in DOMAIN tasks
  BY DEF QueueInv, TypeInv, ChosenIsPending, Pending
<1>2. t \in Tids /\ task_id_map[t] = next_idx /\ next_idx # 0
  <2>1. tasks \in Seq(Task)
    BY DEF QueueInv, TypeInv, TypeOK
  <2>2. tasks[next_idx] \in Task /\ next_idx # 0
    BY <1>1, <2>1
  <2>3. task_id_map[t] = next_idx
    BY <1>1 DEF QueueInv, MapInv, MapAgreesWithList
  <2>4. QED
    BY <2>2, <2>3 DEF Task
<1>3. st[t] = IF vlock = "sched" THEN "running" ELSE "queued"
  BY <1>1, <1>2 DEF StatusFacts
<1>4. /\ DOMAIN tasks' = DOMAIN tasks
      /\ \A j \in DOMAIN tasks :
           /\ j # next_idx => tasks'[j] = tasks[j]
           /\ j = next_idx => tasks'[j].ret_code = code
  BY CompleteChosenShape DEF QueueInv
<1>5. st'[t] = IF code = "ok" THEN "done" ELSE "failed"
  BY <1>1, <1>2, <1>4 DEF StatusFacts
<1>6. ASSUME NEW u \in Tids, u # t
      PROVE  st'[u] = st[u]
  <2>1. CASE task_id_map[u] = 0
    BY <2>1 DEF StatusFacts
  <2>2. CASE task_id_map[u] # 0
    <3>1. task_id_map[u] \in DOMAIN tasks /\ task_id_map[u] # next_idx
      BY <1>6, <2>2 DEF QueueInv, MapInv, MapAgreesWithList
    <3>2. tasks'[task_id_map[u]] = tasks[task_id_map[u]]
      BY <1>4, <3>1
    <3>3. task_id_map[u] \in Pending' <=> task_id_map[u] \in Pending
      BY <1>4, <3>1, <3>2 DEF Pending
    <3>4. CASE task_id_map[u] \in Pending
      BY <2>2, <3>1, <3>3, <3>4 DEF StatusFacts
    <3>5. CASE tasks[task_id_map[u]].ret_code \in {"ok", "error"}
      BY <2>2, <3>2, <3>5 DEF StatusFacts
    <3>6. QED
      BY <2>2, <3>4, <3>5 DEF StatusFacts
  <2>3. QED
    BY <2>1, <2>2
<1> HIDE DEF t
<1>7. QED
  BY <1>2, <1>3, <1>5, <1>6

\* A push shows as the submission of one task.
LEMMA PushVisible ==
  ASSUME QueueInv, StatusFacts, StatusFacts', NEW c \in Clients, AddTaskPush(c)
  PROVE  \E t \in Tids :
           /\ st[t] = "absent"
           /\ st'[t] = "queued"
           /\ \A u \in Tids : u # t => st'[u] = st[u]
<1> DEFINE t == request[c].tid
           n == Len(tasks) + 1
<1>1. t \in Tids /\ task_id_map[t] = 0
  BY PushShape DEF QueueInv, TypeInv, AddTaskPush, MapInv, Request
<1>2. task_id_map' = [task_id_map EXCEPT ![t] = n]
  BY <1>1 DEF AddTaskPush
<1>3. /\ DOMAIN tasks' = DOMAIN tasks \cup {n}
      /\ \A j \in DOMAIN tasks : tasks'[j] = tasks[j]
      /\ tasks'[n].is_completed = FALSE
  BY PushShape DEF QueueInv, TypeInv
<1>4. vlock # "sched" /\ vlock' # "sched"
  BY DEF AddTaskPush, TlockFree, Alive, QueueInv, OutcomeInv
<1>5. n \in Nat \ {0} /\ task_id_map \in [Tids -> Nat]
  BY DEF QueueInv, TypeInv, TypeOK
<1> HIDE DEF t, n
<1>6. st[t] = "absent"
  BY <1>1 DEF StatusFacts
<1>7. task_id_map'[t] = n
  BY <1>1, <1>2, <1>5
<1>8. n \in Pending'
  BY <1>3 DEF Pending
<1>9. st'[t] = "queued"
  BY <1>1, <1>4, <1>5, <1>7, <1>8 DEF StatusFacts
<1>10. ASSUME NEW u \in Tids, u # t
       PROVE  st'[u] = st[u]
  <2>1. task_id_map'[u] = task_id_map[u]
    BY <1>2, <1>5, <1>10
  <2>2. CASE task_id_map[u] = 0
    BY <2>1, <2>2 DEF StatusFacts
  <2>3. CASE task_id_map[u] # 0
    <3>1. task_id_map[u] \in DOMAIN tasks
      BY <2>3 DEF QueueInv, MapInv, MapAgreesWithList
    <3>2. tasks'[task_id_map[u]] = tasks[task_id_map[u]]
      BY <1>3, <3>1
    <3>3. task_id_map[u] \in Pending' <=> task_id_map[u] \in Pending
      BY <1>3, <3>1, <3>2 DEF Pending
    <3>4. CASE task_id_map[u] \in Pending
      BY <1>4, <2>1, <2>3, <3>3, <3>4 DEF StatusFacts
    <3>5. CASE tasks[task_id_map[u]].ret_code \in {"ok", "error"}
      BY <2>1, <2>3, <3>2, <3>5 DEF StatusFacts
    <3>6. QED
      BY <2>3, <3>4, <3>5 DEF StatusFacts
  <2>4. QED
    BY <2>2, <2>3
<1>11. QED
  BY <1>1, <1>6, <1>9, <1>10

\* A scan shows as the rejection of the queued tasks that cannot run.
LEMMA ScanVisible ==
  ASSUME QueueInv, StatusFacts, StatusFacts', Scan
  PROVE  \A t \in Tids : st'[t] = st[t] \/ (st[t] = "queued" /\ st'[t] = "failed")
<1>1. vlock # "sched" /\ vlock' # "sched" /\ task_id_map' = task_id_map
  <2>1. sched = "idle" /\ vlock' = vlock /\ task_id_map' = task_id_map
    BY DEF Scan
  <2>2. QED
    BY <2>1 DEF QueueInv, OutcomeInv
<1> SUFFICES ASSUME NEW t \in Tids
             PROVE  st'[t] = st[t] \/ (st[t] = "queued" /\ st'[t] = "failed")
  OBVIOUS
<1>2. CASE task_id_map[t] = 0
  BY <1>1, <1>2 DEF StatusFacts
<1>3. CASE task_id_map[t] # 0
  <2> DEFINE k == task_id_map[t]
  <2>1. k \in DOMAIN tasks
    BY <1>3 DEF QueueInv, MapInv, MapAgreesWithList
  <2>2. /\ DOMAIN tasks' = DOMAIN tasks
        /\ \/ tasks'[k] = tasks[k]
           \/ /\ k \in Pending
              /\ tasks'[k].ret_code = "error"
    BY <2>1, ScanShape DEF QueueInv, TypeInv
  <2>3. k = task_id_map[t] /\ k = task_id_map'[t] /\ k # 0
    BY <1>1, <1>3
  <2> HIDE DEF k
  <2>4. CASE tasks'[k] = tasks[k]
    <3>1. k \in Pending' <=> k \in Pending
      BY <2>1, <2>2, <2>4 DEF Pending
    <3>2. CASE k \in Pending
      BY <1>1, <2>3, <3>1, <3>2 DEF StatusFacts
    <3>3. CASE tasks[k].ret_code \in {"ok", "error"}
      BY <2>4, <2>3, <3>3 DEF StatusFacts
    <3>4. QED
      BY <2>3, <3>2, <3>3 DEF StatusFacts
  <2>5. CASE k \in Pending /\ tasks'[k].ret_code = "error"
    BY <1>1, <2>5, <2>3 DEF StatusFacts
  <2>6. QED
    BY <2>2, <2>4, <2>5
<1>4. QED
  BY <1>2, <1>3

\* Every step of the scheduler is a step of the queue, or invisible.
LEMMA StepRefines ==
  QueueInv /\ StatusFacts /\ StatusFacts' /\ [Next]_vars => [Queue!Next]_st
<1> SUFFICES ASSUME QueueInv, StatusFacts, StatusFacts', [Next]_vars
             PROVE  Queue!Next \/ st' = st
  BY DEF st
<1>0. DOMAIN st = Tids /\ DOMAIN st' = Tids /\ st = [t \in Tids |-> st[t]]
      /\ st' = [t \in Tids |-> st'[t]]
  BY DEF st
<1>1. ASSUME NEW f \in Fids, AddFunctionBegin(f) \/ AddFunctionEnd(f)
      PROVE  st' = st
  BY <1>1, Invisible DEF AddFunctionBegin, AddFunctionEnd
<1>2. ASSUME NEW c \in Clients, NEW t \in Tids, NEW f \in Fids,
             NEW cthread \in BOOLEAN, AddTaskCheck(c, t, f, cthread)
      PROVE  st' = st
  BY <1>2, Invisible DEF AddTaskCheck
<1>3. ASSUME NEW c \in Clients, AddTaskPush(c)
      PROVE  Queue!Next
  <2>1. PICK t \in Tids : /\ st[t] = "absent"
                          /\ st'[t] = "queued"
                          /\ \A u \in Tids : u # t => st'[u] = st[u]
    BY <1>3, PushVisible
  <2>2. st' = [st EXCEPT ![t] = "queued"]
    BY <1>0, <2>1
  <2>3. Queue!Submit(t)
    BY <2>1, <2>2 DEF Queue!Submit, st
  <2>4. QED
    BY <2>3 DEF Queue!Next
<1>4. CASE Start \/ Stop \/ Exit
  BY <1>4, Invisible DEF Start, Stop, Exit
<1>5. CASE Scan
  <2> DEFINE S == {t \in Tids : st'[t] # st[t]}
  <2>1. \A t \in Tids : st'[t] = IF t \in S THEN "failed" ELSE st[t]
    BY <1>5, ScanVisible
  <2>2. \A t \in S : st[t] = "queued"
    BY <1>5, ScanVisible
  <2>3. S \in SUBSET Tids
    OBVIOUS
  <2> HIDE DEF S
  <2>4. st' = [t \in Tids |-> IF t \in S THEN "failed" ELSE st[t]]
    BY <1>0, <2>1
  <2>5. Queue!Reject(S)
    BY <2>2, <2>3, <2>4 DEF Queue!Reject, st
  <2>6. QED
    BY <2>3, <2>5 DEF Queue!Next
<1>6. ASSUME Busy, NEW code \in {"ok", "error"}, vlock # "sched" => code = "error",
             tasks' = Completed(next_idx, code), task_id_map' = task_id_map,
             vlock' # "sched"
      PROVE  Queue!Next
  <2>1. PICK t \in Tids :
          /\ st[t] = IF vlock = "sched" THEN "running" ELSE "queued"
          /\ \A u \in Tids : u # t => st'[u] = st[u]
          /\ st'[t] = IF code = "ok" THEN "done" ELSE "failed"
    BY <1>6, CompleteVisible
  <2>2. CASE vlock = "sched"
    <3>1. st' = [st EXCEPT ![t] = IF code = "ok" THEN "done" ELSE "failed"]
      BY <1>0, <2>1
    <3>2. Queue!Complete(t)
      BY <2>1, <2>2, <3>1 DEF Queue!Complete, st
    <3>3. QED
      BY <3>2 DEF Queue!Next
  <2>3. CASE vlock # "sched"
    <3>1. st' = [u \in Tids |-> IF u \in {t} THEN "failed" ELSE st[u]]
      BY <1>0, <1>6, <2>1, <2>3
    <3>2. Queue!Reject({t})
      BY <2>1, <2>3, <3>1 DEF Queue!Reject, st
    <3>3. QED
      BY <3>2 DEF Queue!Next
  <2>4. QED
    BY <2>2, <2>3
<1>7. CASE Compare
  <2>1. vlock' = vlock /\ vlock # "sched" /\ Busy /\ next_idx' = next_idx
        /\ task_id_map' = task_id_map
    BY <1>7 DEF Compare, QueueInv, OutcomeInv, Busy
  <2>2. tasks' = tasks \/ tasks' = Completed(next_idx, "error")
    BY <1>7 DEF Compare
  <2>3. QED
    BY <1>6, <2>1, <2>2, Invisible
<1>8. CASE Reconfigure
  <2>1. vlock' = vlock /\ vlock # "sched" /\ Busy /\ next_idx' = next_idx
        /\ task_id_map' = task_id_map
    BY <1>8 DEF Reconfigure, QueueInv, OutcomeInv, Busy
  <2>2. tasks' = tasks \/ tasks' = Completed(next_idx, "error")
    BY <1>8 DEF Reconfigure
  <2>3. QED
    BY <1>6, <2>1, <2>2, Invisible
<1>9. CASE Execute
  <2>1. UNCHANGED <<tasks, task_id_map, next_idx>>
    BY <1>9 DEF Execute
  <2>2. vlock # "sched"
    BY <1>9 DEF Execute, QueueInv, OutcomeInv
  <2>3. CASE vlock' # "sched"
    BY <2>1, <2>2, <2>3, Invisible
  <2>4. CASE vlock' = "sched"
    <3> DEFINE t == tasks[next_idx].tid
    <3>1. next_idx \in Pending /\ next_idx \in DOMAIN tasks
      BY <1>9 DEF QueueInv, TypeInv, ChosenIsPending, Pending, Execute, Busy
    <3>2. tasks[next_idx] \in Task /\ next_idx # 0
      BY <3>1 DEF QueueInv, TypeInv, TypeOK
    <3>3. t \in Tids /\ task_id_map[t] = next_idx
      BY <3>1, <3>2 DEF QueueInv, MapInv, MapAgreesWithList, Task
    <3> HIDE DEF t
    <3>4. Pending' = Pending
      BY <2>1 DEF Pending
    <3>5. st[t] = "queued" /\ st'[t] = "running"
      BY <2>1, <2>2, <2>4, <3>1, <3>2, <3>3, <3>4 DEF StatusFacts
    <3>6. \A u \in Tids : st[u] # "running"
      BY <2>2 DEF StatusFacts
    <3>7. ASSUME NEW u \in Tids, u # t
          PROVE  st'[u] = st[u]
      <4>1. CASE task_id_map[u] = 0
        BY <2>1, <4>1 DEF StatusFacts
      <4>2. CASE task_id_map[u] # 0
        <5>1. task_id_map[u] # next_idx
          BY <3>3, <3>7, <4>2 DEF QueueInv, MapInv, MapAgreesWithList
        <5>2. CASE task_id_map[u] \in Pending
          BY <2>1, <3>4, <4>2, <5>1, <5>2 DEF StatusFacts
        <5>3. CASE tasks[task_id_map[u]].ret_code \in {"ok", "error"}
          BY <2>1, <4>2, <5>3 DEF StatusFacts
        <5>4. QED
          BY <4>2, <5>2, <5>3 DEF StatusFacts
      <4>3. QED
        BY <4>1, <4>2
    <3>8. st' = [st EXCEPT ![t] = "running"]
      BY <1>0, <3>3, <3>5, <3>7
    <3>9. Queue!Dispatch(t)
      BY <3>5, <3>6, <3>8 DEF Queue!Dispatch, st
    <3>10. QED
      BY <3>3, <3>9 DEF Queue!Next
  <2>5. QED
    BY <2>3, <2>4
<1>10. CASE Finish
  <2>1. Busy /\ next_idx' = next_idx /\ task_id_map' = task_id_map
    BY <1>10 DEF Finish, Busy
  <2>2. CASE tasks' = tasks /\ vlock' = vlock
    BY <2>1, <2>2, Invisible
  <2>3. ASSUME NEW code \in {"ok", "error"},
               tasks' = Completed(next_idx, code), vlock' = "none",
               vlock = "sched"
        PROVE  Queue!Next
    BY <1>6, <2>1, <2>3
  <2>4. vlock = "sched"
    BY <1>10 DEF Finish, QueueInv, LockInv
  <2>5. QED
    BY <1>10, <2>2, <2>3, <2>4 DEF Finish
<1>11. ASSUME NEW u \in Users, UserLock(u) \/ UserUnlock(u)
       PROVE  st' = st
  <2>1. u # "sched"
    BY SchedAssumption
  <2>2. QED
    BY <1>11, <2>1, Invisible DEF UserLock, UserUnlock
<1>12. CASE UNCHANGED vars
  BY <1>12, Invisible DEF vars
<1>13. QED
  BY <1>1, <1>2, <1>3, <1>4, <1>5, <1>7, <1>8, <1>9, <1>10, <1>11, <1>12
     DEF Next, SchedulerStep

\* The scheduler implements the queue its clients see: TaskQueue's
\* specification holds of the status read off tasks and task_id_map.
THEOREM ImplementsQueue ==
  ASSUME DisjointTids
  PROVE  Spec => ImplementsTaskQueue
<1>1. Init => QueueInv /\ Queue!Init
  <2> SUFFICES ASSUME Init PROVE QueueInv /\ Queue!Init
    OBVIOUS
  <2>1. TypeInv
    BY InitTypeInv
  <2>2. MapInv
    BY DEF Init, MapInv, MapAgreesWithList
  <2>3. OutcomeInv /\ LockInv
    BY DEF Init, OutcomeInv, LockInv
  <2>4. \A t \in Tids : Status(t) = "absent"
    BY DEF Init, Status
  <2>5. QED
    BY <2>1, <2>2, <2>3, <2>4 DEF QueueInv, Queue!Init
<1>2. QueueInv /\ [Next]_vars => QueueInv'
  BY NextTypeInv, NextMapInv, NextOutcomeInv, NextLockInv DEF QueueInv
<1>3. QueueInv => StatusFacts
  BY StatusOf
<1>4. QueueInv /\ StatusFacts /\ StatusFacts' /\ [Next]_vars => [Queue!Next]_st
  BY StepRefines
<1>5. [Queue!Next]_st => [Queue!Next]_([t \in Tids |-> Status(t)])
  BY DEF st
<1>6. QED
  BY <1>1, <1>2, <1>3, <1>4, <1>5, PTL DEF Spec, ImplementsTaskQueue, Queue!Spec

=============================================================================
