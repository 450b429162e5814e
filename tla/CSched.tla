------------------------------- MODULE CSched -------------------------------
(***************************************************************************)
(* The run-time scheduler of one vFPGA (sw/src/cSched.cpp,                 *)
(* sw/include/cSched.hpp) with the part of cRcnfg and of the driver that   *)
(* a reconfiguration goes through (IOCTL_RECONFIGURE_APP), and the         *)
(* inter-process vFPGA lock of cThread.                                    *)
(*                                                                         *)
(* Four kinds of threads interleave: the thread that registers functions   *)
(* (addFunction holds no lock), the client threads that submit tasks       *)
(* (addTask checks without tlock and inserts under it), the scheduler      *)
(* thread, which holds tlock from its scan to the end of the task, and     *)
(* other processes that take the vFPGA lock.                               *)
(***************************************************************************)
EXTENDS Naturals, Sequences

CONSTANTS
  Clients,        \* threads that call addTask
  Tids,           \* task IDs
  TidsOf,         \* [Clients -> SUBSET Tids]: the IDs a client submits under
  MayLackCThread, \* clients whose tasks may come without a cThread
  Fids,           \* function IDs
  Bitstreams,     \* application bitstreams
  BitstreamOf,    \* [Fids -> Bitstreams]: cFunc::app_bitstream
  NoBitstream,    \* the empty path
  Preloaded,      \* what the region may hold when the scheduler is created
  Given,          \* values of the constructor's current_bitstream argument
  Users,          \* other cThreads that lock the vFPGA
  Vfid,           \* cSched::vfid, the region that is scheduled
  Crid,           \* cRcnfg::crid: how many cRcnfg the process made before
  NoRequest       \* a client that is not inside addTask

ASSUME SchedAssumption ==
  /\ TidsOf \in [Clients -> SUBSET Tids]
  /\ MayLackCThread \subseteq Clients
  /\ BitstreamOf \in [Fids -> Bitstreams]
  /\ NoBitstream \notin Bitstreams
  /\ Preloaded \cup Given \subseteq Bitstreams \cup {NoBitstream}
  /\ \A r \in [tid : Tids, fid : Fids, cthread : BOOLEAN] : NoRequest # r
  /\ Users \cap {"none", "sched"} = {}
  /\ Vfid \in Nat /\ Crid \in Nat

VARIABLES
  functions,          \* [Fids -> "absent" | "loading" | "ready"]
  tasks,              \* vector of tasks
  task_id_map,        \* [Tids -> index into tasks, 0 if there is no entry]
  request,            \* [Clients -> task that passed addTask's checks]
  sched,              \* where the scheduler thread is
  scheduler_running,
  next_idx,           \* the task the scheduler works on
  current_bitstream,  \* what the scheduler believes is loaded
  cnfg,               \* constructor arguments and fcnfg.en_pr
  region,             \* the device: loaded bitstream, coupled, rcnfg_lock
  vlock,              \* holder of the inter-process vFPGA lock
  late                \* history: a function was registered during operation

vars == <<functions, tasks, task_id_map, request, sched, scheduler_running,
          next_idx, current_bitstream, cnfg, region, vlock, late>>

Task == [tid : Tids, fid : Fids, cthread : BOOLEAN,
         is_completed : BOOLEAN, ret_code : {"unset", "ok", "error"}]

Request == [tid : Tids, fid : Fids, cthread : BOOLEAN]

TypeOK ==
  /\ functions \in [Fids -> {"absent", "loading", "ready"}]
  /\ tasks \in Seq(Task)
  /\ task_id_map \in [Tids -> Nat]
  /\ request \in [Clients -> Request \cup {NoRequest}]
  /\ sched \in {"off", "idle", "picked", "reconfigure", "execute", "running",
                "crashed"}
  /\ scheduler_running \in BOOLEAN
  /\ next_idx \in Nat
  /\ current_bitstream \in Bitstreams \cup {NoBitstream}
  /\ cnfg \in [reorder : BOOLEAN, en_pr : BOOLEAN]
  /\ region \in [loaded : Bitstreams \cup {NoBitstream}, coupled : BOOLEAN,
                 rcnfg_lock : BOOLEAN]
  /\ vlock \in Users \cup {"none", "sched"}
  /\ late \in BOOLEAN

-----------------------------------------------------------------------------
\* The scheduler thread owns tlock from its scan to the end of the task.
TlockFree == sched \notin {"picked", "reconfigure", "execute", "running"}

\* A null dereference in the scheduler thread takes the whole process down.
Alive == sched # "crashed"

\* No function is being registered, and no client has started to submit.
Quiet ==
  /\ sched = "off"
  /\ tasks = <<>>
  /\ \A c \in Clients : request[c] = NoRequest

Loading == \E f \in Fids : functions[f] = "loading"

\* cSched::cSched. Without partial reconfiguration the user has to name the
\* bitstream that is loaded; with it, the argument need not say so.
Init ==
  /\ functions = [f \in Fids |-> "absent"]
  /\ tasks = <<>>
  /\ task_id_map = [t \in Tids |-> 0]
  /\ request = [c \in Clients |-> NoRequest]
  /\ sched = "off"
  /\ scheduler_running = FALSE
  /\ next_idx = 0
  /\ cnfg \in [reorder : BOOLEAN, en_pr : BOOLEAN]
  /\ region \in [loaded : Preloaded, coupled : {TRUE}, rcnfg_lock : {FALSE}]
  /\ current_bitstream \in IF cnfg.en_pr THEN Given ELSE {region.loaded}
  /\ vlock = "none"
  /\ late = FALSE

-----------------------------------------------------------------------------
\* addFunction: the map entry is visible before the bitstream is in memory.
AddFunctionBegin(f) ==
  /\ Alive
  /\ functions[f] = "absent"
  /\ functions' = [functions EXCEPT ![f] = "loading"]
  /\ late' = (late \/ ~Quiet)
  /\ UNCHANGED <<tasks, task_id_map, request, sched, scheduler_running,
                 next_idx, current_bitstream, cnfg, region, vlock>>

\* readBitstream succeeded, setBitstreamPointer; or the file could not be
\* opened or read, and the entry is erased again.
AddFunctionEnd(f) ==
  /\ Alive
  /\ functions[f] = "loading"
  /\ \E outcome \in {"ready", "absent"} :
       functions' = [functions EXCEPT ![f] = outcome]
  /\ UNCHANGED <<tasks, task_id_map, request, sched, scheduler_running,
                 next_idx, current_bitstream, cnfg, region, vlock, late>>

\* addTask up to tlock.lock(): both checks are made without the lock.
AddTaskCheck(c, t, f, cthread) ==
  /\ Alive
  /\ request[c] = NoRequest
  /\ t \in TidsOf[c]
  /\ cthread \/ c \in MayLackCThread
  /\ task_id_map[t] = 0
  /\ functions[f] # "absent"
  /\ request' = [request EXCEPT
                   ![c] = [tid |-> t, fid |-> f, cthread |-> cthread]]
  /\ late' = (late \/ Loading)
  /\ UNCHANGED <<functions, tasks, task_id_map, sched, scheduler_running,
                 next_idx, current_bitstream, cnfg, region, vlock>>

\* addTask from tlock.lock(): emplace leaves an existing map entry alone.
AddTaskPush(c) ==
  /\ Alive
  /\ TlockFree
  /\ request[c] # NoRequest
  /\ LET r == request[c]
     IN  /\ tasks' = Append(tasks, [tid |-> r.tid, fid |-> r.fid,
                                    cthread |-> r.cthread,
                                    is_completed |-> FALSE,
                                    ret_code |-> "unset"])
         /\ task_id_map' = [task_id_map EXCEPT
                              ![r.tid] = IF @ = 0 THEN Len(tasks) + 1 ELSE @]
  /\ request' = [request EXCEPT ![c] = NoRequest]
  /\ UNCHANGED <<functions, sched, scheduler_running, next_idx,
                 current_bitstream, cnfg, region, vlock, late>>

Start ==
  /\ sched = "off"
  /\ ~scheduler_running
  /\ scheduler_running' = TRUE
  /\ sched' = "idle"
  /\ late' = (late \/ Loading)
  /\ UNCHANGED <<functions, tasks, task_id_map, request, next_idx,
                 current_bitstream, cnfg, region, vlock>>

\* stop clears the flag and joins; the thread leaves at its loop head.
Stop ==
  /\ Alive
  /\ scheduler_running
  /\ scheduler_running' = FALSE
  /\ UNCHANGED <<functions, tasks, task_id_map, request, sched, next_idx,
                 current_bitstream, cnfg, region, vlock, late>>

Exit ==
  /\ sched = "idle"
  /\ ~scheduler_running
  /\ sched' = "off"
  /\ UNCHANGED <<functions, tasks, task_id_map, request, scheduler_running,
                 next_idx, current_bitstream, cnfg, region, vlock, late>>

-----------------------------------------------------------------------------
\* One iteration of schedule().

\* Mutant: the scan also picks up tasks that were completed before.
PendingForever == DOMAIN tasks

Pending == {i \in DOMAIN tasks : ~tasks[i].is_completed}

Runnable(i) == tasks[i].cthread /\ functions[tasks[i].fid] # "absent"

Target(i) == BitstreamOf[tasks[i].fid]

\* Mutant: the scan takes the first task whatever the policy.
StopsAtFirst == {i \in Pending : Runnable(i)}

\* Tasks at which the scan stops: with reordering, the ones that match.
Stops == {i \in Pending : /\ Runnable(i)
                          /\ cnfg.reorder => Target(i) = current_bitstream}

\* Mutant: the return code is set, is_completed is not.
CompletedCode(i, code) == [tasks EXCEPT ![i].ret_code = code]

Completed(i, code) ==
  [tasks EXCEPT ![i].is_completed = TRUE, ![i].ret_code = code]

\* The scan fails every pending task it passes that has lost its cThread or
\* its function, and remembers the task to process: the first one it stops
\* at or, when it stops at none, the first one that can run.
Scan ==
  /\ sched = "idle"
  /\ scheduler_running
  /\ tasks' = [i \in DOMAIN tasks |->
                 IF i \in Pending /\ ~Runnable(i) /\ \A j \in Stops : i <= j
                 THEN [tasks[i] EXCEPT !.is_completed = TRUE,
                                       !.ret_code = "error"]
                 ELSE tasks[i]]
  /\ LET candidates == {i \in Pending : Runnable(i)}
         choice == IF Stops = {} THEN candidates ELSE Stops
     IN  \/ /\ candidates = {}
            /\ UNCHANGED <<sched, next_idx>>
         \/ \E i \in choice :
              /\ \A j \in choice : i <= j
              /\ sched' = "picked"
              /\ next_idx' = i
  /\ UNCHANGED <<functions, task_id_map, request, scheduler_running,
                 current_bitstream, cnfg, region, vlock, late>>

\* functions[...]->getBitstreamPath() of the chosen task, and what follows
\* from comparing it with current_bitstream.
Compare ==
  /\ sched = "picked"
  /\ \/ /\ functions[tasks[next_idx].fid] = "absent"
        /\ sched' = "crashed"
        /\ UNCHANGED tasks
     \/ /\ functions[tasks[next_idx].fid] # "absent"
        /\ \/ /\ current_bitstream = Target(next_idx)
              /\ sched' = "execute"
              /\ UNCHANGED tasks
           \/ /\ current_bitstream # Target(next_idx)
              /\ cnfg.en_pr
              /\ sched' = "reconfigure"
              /\ UNCHANGED tasks
           \/ /\ current_bitstream # Target(next_idx)
              /\ ~cnfg.en_pr
              /\ sched' = "idle"
              /\ tasks' = Completed(next_idx, "error")
  /\ UNCHANGED <<functions, task_id_map, request, scheduler_running, next_idx,
                 current_bitstream, cnfg, region, vlock, late>>

\* Mutants: the ioctl returns before the bitstream is loaded, or forgets to
\* couple the region again.
LoadedTooSoon(i) == [region EXCEPT !.coupled = TRUE]
LoadedDecoupled(i) == [region EXCEPT !.loaded = Target(i), !.coupled = FALSE]

\* The region after a reconfiguration. IOCTL_RECONFIGURE_APP decouples region
\* tmp[4], the vfid, and couples region tmp[3], the crid.
Loaded(i) == [region EXCEPT !.loaded = Target(i), !.coupled = (Crid = Vfid)]

\* reconfigureBase and IOCTL_RECONFIGURE_APP: decouple, load, couple. The
\* ioctl of a bitstream that is not in memory fails after the decoupling and
\* returns with rcnfg_lock held.
Reconfigure ==
  /\ sched = "reconfigure"
  /\ \/ /\ functions[tasks[next_idx].fid] = "absent"
        /\ sched' = "crashed"
        /\ UNCHANGED <<tasks, current_bitstream, region>>
     \/ /\ functions[tasks[next_idx].fid] = "loading"
        /\ ~region.rcnfg_lock
        /\ region' = [region EXCEPT !.coupled = FALSE, !.rcnfg_lock = TRUE]
        /\ sched' = "idle"
        /\ tasks' = Completed(next_idx, "error")
        /\ UNCHANGED current_bitstream
     \/ /\ functions[tasks[next_idx].fid] = "ready"
        /\ ~region.rcnfg_lock
        /\ region' = Loaded(next_idx)
        /\ current_bitstream' = Target(next_idx)
        /\ sched' = "execute"
        /\ UNCHANGED tasks
  /\ UNCHANGED <<functions, task_id_map, request, scheduler_running, next_idx,
                 cnfg, vlock, late>>

\* cthread->lock(), then the function is looked up again and called; it may
\* have been erased while the thread waited for the lock.
Execute ==
  /\ sched = "execute"
  /\ \/ /\ functions[tasks[next_idx].fid] = "absent"
        /\ sched' = "crashed"
        /\ vlock' \in {vlock} \cup (IF vlock = "none" THEN {"sched"} ELSE {})
     \/ /\ functions[tasks[next_idx].fid] # "absent"
        /\ vlock = "none"
        /\ vlock' = "sched"
        /\ sched' = "running"
  /\ UNCHANGED <<functions, tasks, task_id_map, request, scheduler_running,
                 next_idx, current_bitstream, cnfg, region, late>>

\* The function returns or throws; either way the lock is released, the task
\* is completed and tlock is released. A function that was erased while it
\* ran may also bring the process down, which leaves the lock held.
Finish ==
  /\ sched = "running"
  /\ \/ /\ vlock' = "none"
        /\ \E code \in {"ok", "error"} : tasks' = Completed(next_idx, code)
        /\ sched' = "idle"
     \/ /\ functions[tasks[next_idx].fid] = "absent"
        /\ sched' = "crashed"
        /\ UNCHANGED <<tasks, vlock>>
  /\ UNCHANGED <<functions, task_id_map, request, scheduler_running, next_idx,
                 current_bitstream, cnfg, region, late>>

-----------------------------------------------------------------------------
\* cThread::lock and cThread::unlock of another process on the same vFPGA.
UserLock(u) ==
  /\ vlock = "none"
  /\ vlock' = u
  /\ UNCHANGED <<functions, tasks, task_id_map, request, sched,
                 scheduler_running, next_idx, current_bitstream, cnfg, region,
                 late>>

UserUnlock(u) ==
  /\ vlock = u
  /\ vlock' = "none"
  /\ UNCHANGED <<functions, tasks, task_id_map, request, sched,
                 scheduler_running, next_idx, current_bitstream, cnfg, region,
                 late>>

SchedulerStep == Exit \/ Scan \/ Compare \/ Reconfigure \/ Execute \/ Finish

Next ==
  \/ \E f \in Fids : AddFunctionBegin(f) \/ AddFunctionEnd(f)
  \/ \E c \in Clients, t \in Tids, f \in Fids, cthread \in BOOLEAN :
       AddTaskCheck(c, t, f, cthread)
  \/ \E c \in Clients : AddTaskPush(c)
  \/ Start
  \/ Stop
  \/ SchedulerStep
  \/ \E u \in Users : UserLock(u) \/ UserUnlock(u)

Spec == Init /\ [][Next]_vars

\* The scheduler thread keeps being scheduled, and the functions it calls
\* return.
FairSpec == Spec /\ WF_vars(SchedulerStep)

-----------------------------------------------------------------------------
(* Properties *)

\* A function only ever runs on the bitstream it was registered with, with
\* the vFPGA lock held, for a task that has not been completed (schedule():
\* reconfigure, then lock, then run).
RunsOnItsBitstream ==
  sched = "running" =>
    /\ region.loaded = Target(next_idx)
    /\ vlock = "sched"
    /\ next_idx \in Pending

\* When every function was registered before the first task was submitted,
\* the driver's rcnfg_lock is never left behind, the scheduler never
\* dereferences a missing function and, in the setup where crid and vfid
\* agree, a running function finds its region coupled.
EarlyRegistrationIsSafe ==
  ~late => /\ sched # "crashed"
           /\ ~region.rcnfg_lock
           /\ sched = "running" /\ Crid = Vfid => region.coupled

\* First-come, first-served: without reordering no task is completed before
\* a task that entered the list earlier (policy (1) of the class comment).
FirstComeFirstServed ==
  ~cnfg.reorder =>
    \A i, j \in DOMAIN tasks :
      i < j /\ tasks[j].is_completed => tasks[i].is_completed

\* Task IDs stay in step with the list: taskChecker's "UNEXPECTED BUG" branch
\* is dead, and every task of the list can be found under its ID, so that its
\* completion can be observed.
MapAgreesWithList ==
  /\ \A t \in Tids : task_id_map[t] # 0 =>
       /\ task_id_map[t] \in DOMAIN tasks
       /\ tasks[task_id_map[t]].tid = t
  /\ \A i \in DOMAIN tasks : task_id_map[tasks[i].tid] = i

\* Minimize reconfigurations: with reordering the bitstream is replaced only
\* when no unfinished task wants the one that is loaded (policy (2)).
ReconfiguresOnlyWhenIdle ==
  [][cnfg.reorder /\ current_bitstream' # current_bitstream =>
       \A i \in Pending : Target(i) # current_bitstream]_vars

\* The two policies of the class comment, whichever the constructor was given.
PolicyIsKept == []FirstComeFirstServed /\ ReconfiguresOnlyWhenIdle

-----------------------------------------------------------------------------
(* What the scheduler promises its clients, see TaskQueue. *)

Status(t) ==
  IF task_id_map[t] = 0 THEN "absent"
  ELSE LET task == tasks[task_id_map[t]]
       IN  CASE task.ret_code = "ok" -> "done"
             [] task.ret_code = "error" -> "failed"
             [] OTHER -> IF vlock = "sched" /\ next_idx = task_id_map[t]
                         THEN "running" ELSE "queued"

\* A submitted task is eventually completed, once other processes leave the
\* vFPGA lock alone, unless the scheduler is stopped or functions are still
\* being registered.
SubmittedTasksComplete ==
  <>[](vlock \notin Users) =>
    \A t \in Tids :
      Status(t) = "queued" ~> \/ Status(t) \in {"done", "failed"}
                              \/ ~scheduler_running
                              \/ late

Queue == INSTANCE TaskQueue WITH status <- [t \in Tids |-> Status(t)]

\* Seen through isTaskCompleted and getTask, a task is submitted once, runs
\* at most once, alone, and keeps its outcome.
ImplementsTaskQueue == Queue!Spec

=============================================================================
