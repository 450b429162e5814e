----------------------------- MODULE UserNotify -----------------------------
(***************************************************************************)
(* User interrupts (notifications) for one Coyote thread ID of a vFPGA:    *)
(* the interrupt service routine and its work items (vfpga_isr.c), the     *)
(* eventfd registration (vfpga_uisr.c), the two notification ioctls        *)
(* (vfpga_ops.c), and the parts of cThread that use them: constructor,     *)
(* destructor and the event thread (cThread.cpp).                          *)
(*                                                                         *)
(* Several cThreads may own the ID one after the other. The work queue is  *)
(* unbound, so work items run concurrently. user_notifier_lock is taken by *)
(* a work item and released from user space by whoever calls               *)
(* IOCTL_SET_NOTIFICATION_PROCESSED, or by mutex_init: a binary semaphore. *)
(* Kernels from 6.8 on are modelled, where eventfd_signal cannot fail.     *)
(***************************************************************************)
EXTENDS Naturals, FiniteSets

CONSTANTS
  CThreads,  \* cThreads with a user interrupt service routine
  Last,      \* bound: notifications raised in all, valued 1 .. Last
  None

Values == 1 .. Last

ASSUME NotifyAssumption ==
  /\ Last \in Nat
  /\ None \notin CThreads

VARIABLES
  pc,                \* [CThreads -> progress of constructor and destructor]
  holder,            \* the cThread the ctid is registered for
  user_notifier,     \* whose eventfd is signalled
  user_notifier_lock,
  interrupt_value,
  efd,               \* [CThreads -> counter of the eventfd]
  handler,           \* [CThreads -> event thread: state and isr_val]
  work,              \* [Values -> progress of the work item]
  raised,            \* notifications raised so far
  calls,             \* [CThreads -> [Values -> calls of uisr with the value]]
  seen               \* history: "stray", "reuse"

vars == <<pc, holder, user_notifier, user_notifier_lock, interrupt_value, efd,
          handler, work, raised, calls, seen>>

TypeOK ==
  /\ pc \in [CThreads -> {"new", "ctid", "thread", "mutex", "live", "noctid",
                          "noefd", "terminate", "joined", "gone"}]
  /\ holder \in CThreads \cup {None}
  /\ user_notifier \in CThreads \cup {None}
  /\ user_notifier_lock \in BOOLEAN
  /\ interrupt_value \in 0 .. Last
  /\ efd \in [CThreads -> Nat]
  /\ handler \in [CThreads -> [at : {"off", "wait", "read", "got", "called"},
                               isr_val : 0 .. Last]]
  /\ work \in [Values -> {"none", "queued", "locked", "checked", "signalled",
                          "dropped", "oops"}]
  /\ raised \in 0 .. Last
  /\ calls \in [CThreads -> [Values -> Nat]]
  /\ seen \subseteq {"stray", "reuse"}

Init ==
  /\ pc = [c \in CThreads |-> "new"]
  /\ holder = None
  /\ user_notifier = None
  /\ user_notifier_lock = FALSE
  /\ interrupt_value = 0
  /\ efd = [c \in CThreads |-> 0]
  /\ handler = [c \in CThreads |-> [at |-> "off", isr_val |-> 0]]
  /\ work = [v \in Values |-> "none"]
  /\ raised = 0
  /\ calls = [c \in CThreads |-> [v \in Values |-> 0]]
  /\ seen = {}

-----------------------------------------------------------------------------
\* A notification is over when its value was processed, or never will be.
Handling == {c \in CThreads : handler[c].at \in {"read", "got", "called"}}

Outstanding ==
  \/ \E v \in Values : work[v] \in {"queued", "locked", "checked"}
  \/ \E c \in CThreads : efd[c] > 0
  \/ Handling # {}

Closing == {c \in CThreads : pc[c] \in {"noctid", "noefd", "terminate", "joined"}}

\* cThread::cThread, step by step: register the ctid, start the event thread,
\* and IOCTL_REGISTER_EVENTFD, which initialises the mutex and then sets the
\* notifier.
RegisterCtid(c) ==
  /\ pc[c] = "new"
  /\ holder = None
  /\ holder' = c
  /\ pc' = [pc EXCEPT ![c] = "ctid"]
  /\ seen' = seen \cup (IF Closing = {} THEN {} ELSE {"reuse"})
  /\ UNCHANGED <<user_notifier, user_notifier_lock, interrupt_value, efd,
                 handler, work, raised, calls>>

StartEventThread(c) ==
  /\ pc[c] = "ctid"
  /\ pc' = [pc EXCEPT ![c] = "thread"]
  /\ handler' = [handler EXCEPT ![c].at = "wait"]
  /\ UNCHANGED <<holder, user_notifier, user_notifier_lock, interrupt_value,
                 efd, work, raised, calls, seen>>

RegisterEventfdMutex(c) ==
  /\ pc[c] = "thread"
  /\ pc' = [pc EXCEPT ![c] = "mutex"]
  /\ user_notifier_lock' = FALSE
  /\ UNCHANGED <<holder, user_notifier, interrupt_value, efd, handler, work,
                 raised, calls, seen>>

RegisterEventfd(c) ==
  /\ pc[c] = "mutex"
  /\ pc' = [pc EXCEPT ![c] = "live"]
  /\ user_notifier' = c
  /\ UNCHANGED <<holder, user_notifier_lock, interrupt_value, efd, handler,
                 work, raised, calls, seen>>

-----------------------------------------------------------------------------
\* cThread::~cThread, in the order of the code: the ctid is given back before
\* the eventfd is unregistered.
UnregisterCtid(c) ==
  /\ pc[c] = "live"
  /\ pc' = [pc EXCEPT ![c] = "noctid"]
  /\ holder' = None
  /\ seen' = seen \cup (IF Outstanding THEN {"stray"} ELSE {})
  /\ UNCHANGED <<user_notifier, user_notifier_lock, interrupt_value, efd,
                 handler, work, raised, calls>>

UnregisterEventfd(c) ==
  /\ pc[c] = "noctid"
  /\ pc' = [pc EXCEPT ![c] = "noefd"]
  /\ user_notifier' = None
  /\ UNCHANGED <<holder, user_notifier_lock, interrupt_value, efd, handler,
                 work, raised, calls, seen>>

WriteTerminateEfd(c) ==
  /\ pc[c] = "noefd"
  /\ pc' = [pc EXCEPT ![c] = "terminate"]
  /\ UNCHANGED <<holder, user_notifier, user_notifier_lock, interrupt_value,
                 efd, handler, work, raised, calls, seen>>

Join(c) ==
  /\ pc[c] = "terminate"
  /\ handler[c].at = "off"
  /\ pc' = [pc EXCEPT ![c] = "joined"]
  /\ UNCHANGED <<holder, user_notifier, user_notifier_lock, interrupt_value,
                 efd, handler, work, raised, calls, seen>>

\* The destructor's own IOCTL_SET_NOTIFICATION_PROCESSED.
LastProcessed(c) ==
  /\ pc[c] = "joined"
  /\ pc' = [pc EXCEPT ![c] = "gone"]
  /\ user_notifier_lock' = FALSE
  /\ UNCHANGED <<holder, user_notifier, interrupt_value, efd, handler, work,
                 raised, calls, seen>>

-----------------------------------------------------------------------------
\* The user logic raises an interrupt; vfpga_isr queues a work item for it.
Raise ==
  /\ raised < Last
  /\ raised' = raised + 1
  /\ work' = [work EXCEPT ![raised + 1] = "queued"]
  /\ seen' = seen \cup (IF \E c \in CThreads : pc[c] = "live" THEN {}
                        ELSE {"stray"})
  /\ UNCHANGED <<pc, holder, user_notifier, user_notifier_lock,
                 interrupt_value, efd, handler, calls>>

\* Mutant: the work item does not wait for the mutex.
NotifyLockFree(v) ==
  /\ work[v] = "queued"
  /\ user_notifier_lock' = TRUE
  /\ work' = [work EXCEPT ![v] = "locked"]
  /\ UNCHANGED <<pc, holder, user_notifier, interrupt_value, efd, handler,
                 raised, calls, seen>>

\* vfpga_notify_handler: mutex_lock.
NotifyLock(v) ==
  /\ work[v] = "queued"
  /\ ~user_notifier_lock
  /\ user_notifier_lock' = TRUE
  /\ work' = [work EXCEPT ![v] = "locked"]
  /\ UNCHANGED <<pc, holder, user_notifier, interrupt_value, efd, handler,
                 raised, calls, seen>>

\* Without a recipient the event is dropped; otherwise its value is stored.
NotifyCheck(v) ==
  /\ work[v] = "locked"
  /\ \/ /\ user_notifier = None
        /\ user_notifier_lock' = FALSE
        /\ work' = [work EXCEPT ![v] = "dropped"]
        /\ UNCHANGED interrupt_value
     \/ /\ user_notifier # None
        /\ interrupt_value' = v
        /\ work' = [work EXCEPT ![v] = "checked"]
        /\ UNCHANGED user_notifier_lock
  /\ UNCHANGED <<pc, holder, user_notifier, efd, handler, raised, calls, seen>>

\* eventfd_signal of user_notifier as it is now.
NotifySignal(v) ==
  /\ work[v] = "checked"
  /\ \/ /\ user_notifier = None
        /\ work' = [work EXCEPT ![v] = "oops"]
        /\ UNCHANGED efd
     \/ /\ user_notifier # None
        /\ efd' = [efd EXCEPT ![user_notifier] = @ + 1]
        /\ work' = [work EXCEPT ![v] = "signalled"]
  /\ UNCHANGED <<pc, holder, user_notifier, user_notifier_lock,
                 interrupt_value, handler, raised, calls, seen>>

-----------------------------------------------------------------------------
\* eventHandler: eventfd_read takes the whole counter.
EventRead(c) ==
  /\ handler[c].at = "wait"
  /\ efd[c] > 0
  /\ efd' = [efd EXCEPT ![c] = 0]
  /\ handler' = [handler EXCEPT ![c].at = "read"]
  /\ UNCHANGED <<pc, holder, user_notifier, user_notifier_lock,
                 interrupt_value, work, raised, calls, seen>>

\* IOCTL_GET_NOTIFICATION_VALUE.
EventGetValue(c) ==
  /\ handler[c].at = "read"
  /\ handler' = [handler EXCEPT ![c].at = "got", ![c].isr_val = interrupt_value]
  /\ UNCHANGED <<pc, holder, user_notifier, user_notifier_lock,
                 interrupt_value, efd, work, raised, calls, seen>>

EventUisr(c) ==
  /\ handler[c].at = "got"
  /\ handler' = [handler EXCEPT ![c].at = "called"]
  /\ calls' = [calls EXCEPT ![c][handler[c].isr_val] = @ + 1]
  /\ UNCHANGED <<pc, holder, user_notifier, user_notifier_lock,
                 interrupt_value, efd, work, raised, seen>>

\* Mutant: the handler does not report the notification as processed.
EventUnprocessed(c) ==
  /\ handler[c].at = "called"
  /\ handler' = [handler EXCEPT ![c] = [at |-> "wait", isr_val |-> 0]]
  /\ UNCHANGED <<pc, holder, user_notifier, user_notifier_lock,
                 interrupt_value, efd, work, raised, calls, seen>>

\* IOCTL_SET_NOTIFICATION_PROCESSED.
EventProcessed(c) ==
  /\ handler[c].at = "called"
  /\ handler' = [handler EXCEPT ![c] = [at |-> "wait", isr_val |-> 0]]
  /\ user_notifier_lock' = FALSE
  /\ UNCHANGED <<pc, holder, user_notifier, interrupt_value, efd, work, raised,
                 calls, seen>>

\* Mutant: termination is noticed only together with an interrupt.
EventTerminateLate(c) ==
  /\ handler[c].at = "wait"
  /\ efd[c] > 0
  /\ pc[c] = "terminate"
  /\ handler' = [handler EXCEPT ![c].at = "off"]
  /\ UNCHANGED <<pc, holder, user_notifier, user_notifier_lock,
                 interrupt_value, efd, work, raised, calls, seen>>

\* A pending event is served before the termination event ends the loop.
EventTerminate(c) ==
  /\ handler[c].at = "wait"
  /\ efd[c] = 0
  /\ pc[c] = "terminate"
  /\ handler' = [handler EXCEPT ![c].at = "off"]
  /\ UNCHANGED <<pc, holder, user_notifier, user_notifier_lock,
                 interrupt_value, efd, work, raised, calls, seen>>

Worker == \E v \in Values : NotifyLock(v) \/ NotifyCheck(v) \/ NotifySignal(v)

EventThread(c) ==
  \/ EventRead(c)
  \/ EventGetValue(c)
  \/ EventUisr(c)
  \/ EventProcessed(c)
  \/ EventTerminate(c)

Destructor(c) ==
  \/ UnregisterEventfd(c)
  \/ WriteTerminateEfd(c)
  \/ Join(c)
  \/ LastProcessed(c)

Next ==
  \/ Raise
  \/ Worker
  \/ \E c \in CThreads :
       \/ RegisterCtid(c)
       \/ StartEventThread(c)
       \/ RegisterEventfdMutex(c)
       \/ RegisterEventfd(c)
       \/ UnregisterCtid(c)
       \/ Destructor(c)
       \/ EventThread(c)

Spec == Init /\ [][Next]_vars

\* The kernel runs queued work, event threads are scheduled and their uisr
\* returns, and a destructor that has begun runs on.
FairSpec ==
  /\ Spec
  /\ WF_vars(Worker)
  /\ \A c \in CThreads : WF_vars(EventThread(c)) /\ WF_vars(Destructor(c))

-----------------------------------------------------------------------------
(* Properties. A notification is stray when it was raised while no cThread   *)
(* was ready for it, or was still under way when its cThread began to        *)
(* destruct; the ID is reused when a cThread registers it while its previous *)
(* owner is still in the destructor.                                         *)

Called(v) == \E c \in CThreads : calls[c][v] > 0

InFlight(v) ==
  /\ interrupt_value = v
  /\ user_notifier_lock
  /\ \E c \in CThreads : \/ efd[c] = 1
                         \/ handler[c].at = "read"
                         \/ handler[c].at = "got" /\ handler[c].isr_val = v

\* Without strays and reuse every value is delivered once ("a mutex (to prevent
\* some interrupts being dropped)", vfpga_notify_handler): once signalled it is
\* either on its way, with the mutex held so that no other value can replace
\* it, or it reached the user's routine, which is called for it only once.
DeliveredOnce ==
  seen = {} => \A v \in Values :
                 /\ work[v] \notin {"dropped", "oops"}
                 /\ work[v] = "signalled" => InFlight(v) \/ Called(v)
                 /\ \A c, d \in CThreads :
                      /\ calls[c][v] <= 1
                      /\ calls[c][v] = 1 /\ calls[d][v] = 1 => c = d

\* Every notification eventually reaches the user's routine.
NotificationsArrive ==
  \A v \in Values : work[v] = "queued" ~> Called(v) \/ seen # {}

\* A destructor always finishes, whatever interrupts are under way: the join
\* of the event thread cannot block.
DestructorsFinish ==
  \A c \in CThreads : pc[c] = "noctid" ~> pc[c] = "gone"
=============================================================================
