------------------------------ MODULE CService ------------------------------
(***************************************************************************)
(* The background service and its clients: cService with its accepting     *)
(* loop, the request and the response thread of every connection and the   *)
(* clean-up thread; cConn with its completion thread; the byte streams     *)
(* between them; and the scheduler as TaskQueue specifies it, which runs a *)
(* task on the cThread of its connection.                                  *)
(*                                                                         *)
(* Connections are known by their file descriptor, as in the code. A       *)
(* stream carries the units that are written with one call: requests,      *)
(* arguments, headers (return code and task ID) and return values.         *)
(***************************************************************************)
EXTENDS Integers, Sequences, FiniteSets

CONSTANTS
  Clients,   \* cConn objects, numbered in the order in which they connect
  Fds,       \* file descriptors of the service, numbers
  Requests,  \* kinds of requests: function known to the service, with arguments
  MaxTasks   \* bound: tasks submitted

VARIABLES
  cl,        \* the clients
  out, in,   \* streams to and from the service
  fds,       \* what the service's descriptors stand for
  backlog,   \* clients that are connected and not yet accepted
  main,      \* accepting loop: its step and the descriptor it deals with
  sess,      \* task_locks, tasks, coyote_threads and connection_threads
  conns_to_clean,
  sched,     \* tasks in the scheduler
  task_counter,
  hz         \* what has happened that the properties make an exception for

vars == <<cl, out, in, fds, backlog, main, sess, conns_to_clean, sched, task_counter, hz>>

None == 0
Gone == [c |-> None]

Init ==
  /\ cl = [c \in Clients |-> [st |-> "new", owe |-> FALSE, next |-> 1, rd |-> 0, res |-> <<>>]]
  /\ out = [c \in Clients |-> <<>>] /\ in = [c \in Clients |-> <<>>]
  /\ fds = [f \in Fds |-> None] /\ backlog = {} /\ main = [at |-> "accept"]
  /\ sess = [f \in Fds |-> Gone]
  /\ conns_to_clean = {} /\ sched = <<>> /\ task_counter = 0 /\ hz = {}

Noting(h) == hz' = hz \cup h
Up(f) == sess[f] # Gone

----------------------------------------------------------------------------
(* Clients. A result is 0 while the task is not completed, -1 for an       *)
(* error, the number of the service's task that produced it, or -2 when    *)
(* something else was read as the return value.                            *)

connect(c) ==
  /\ cl[c].st = "new" /\ \A d \in Clients : d < c => cl[d].st # "new"
  /\ cl' = [cl EXCEPT ![c].st = "hello"]
  /\ backlog' = backlog \cup {c}
  /\ UNCHANGED <<out, in, fds, main, sess, conns_to_clean, sched, task_counter, hz>>

Connected(c) == c \in backlog \/ \E f \in Fds : fds[f] = c

(* The process ID follows; the write fails when the service has given up.  *)
hello(c) ==
  /\ cl[c].st = "hello"
  /\ IF Connected(c)
     THEN out' = [out EXCEPT ![c] = <<[op |-> "pid"]>>] /\ cl' = [cl EXCEPT ![c].st = "up"]
     ELSE UNCHANGED out /\ cl' = [cl EXCEPT ![c].st = "left"]
  /\ UNCHANGED <<in, fds, backlog, main, sess, conns_to_clean, sched, task_counter, hz>>

Pending(c) == {t \in DOMAIN cl[c].res : cl[c].res[t] = 0}

(* task and iTask: the request, then the arguments.                        *)
Submit(c) ==
  /\ cl[c].st = "up" /\ ~cl[c].owe
  /\ Cardinality({<<d, t>> \in Clients \X (1 .. MaxTasks) : t \in DOMAIN cl[d].res}) < MaxTasks
  /\ \E r \in Requests :
       /\ out' = [out EXCEPT ![c] = Append(@, [op |-> "submit", tid |-> cl[c].next, r |-> r])]
       /\ cl' = [cl EXCEPT ![c].owe = r.args, ![c].next = @ + 1, ![c].res = Append(@, 0)]
  /\ UNCHANGED <<in, fds, backlog, main, sess, conns_to_clean, sched, task_counter, hz>>

SendArgs(c) ==
  /\ cl[c].st = "up" /\ cl[c].owe
  /\ out' = [out EXCEPT ![c] = Append(@, [op |-> "args"])]
  /\ cl' = [cl EXCEPT ![c].owe = FALSE]
  /\ UNCHANGED <<in, fds, backlog, main, sess, conns_to_clean, sched, task_counter, hz>>

(* checkCompletedTasks: a header, and after a return code of 0 the value.  *)
checkCompletedTasks(c) ==
  /\ cl[c].st = "up" /\ in[c] # <<>>
  /\ LET i == Head(in[c])  t == cl[c].rd IN
     cl' = IF t # 0
           THEN [cl EXCEPT ![c].rd = 0, ![c].res[t] = IF i.op = "value" THEN i.of ELSE -2]
           ELSE IF i.op = "value" \/ i.tid \notin DOMAIN cl[c].res THEN cl
           ELSE IF i.code = 0 THEN [cl EXCEPT ![c].rd = i.tid]
           ELSE [cl EXCEPT ![c].res[i.tid] = -1]
  /\ in' = [in EXCEPT ![c] = Tail(@)]
  /\ UNCHANGED <<out, fds, backlog, main, sess, conns_to_clean, sched, task_counter, hz>>

(* The destructor: a request to close, close, and the completion thread is *)
(* joined, which returns from its read when the service closes its end.    *)
disconnect(c) ==
  /\ cl[c].st = "up" /\ ~cl[c].owe
  /\ out' = [out EXCEPT ![c] = Append(@, [op |-> "close"])]
  /\ cl' = [cl EXCEPT ![c].st = "closing", ![c].rd = 0]
  /\ in' = [in EXCEPT ![c] = <<>>]
  /\ Noting(IF Pending(c) # {} THEN {"early"} ELSE {})
  /\ UNCHANGED <<fds, backlog, main, sess, conns_to_clean, sched, task_counter>>

join(c) ==
  /\ cl[c].st = "closing" /\ ~Connected(c)
  /\ cl' = [cl EXCEPT ![c].st = "left"]
  /\ UNCHANGED <<out, in, fds, backlog, main, sess, conns_to_clean, sched, task_counter, hz>>

(* Bound: one client dies.                                                 *)
kill(c) ==
  /\ "killed" \notin hz
  /\ cl[c].st \in {"hello", "up"}
  /\ cl' = [cl EXCEPT ![c].st = "dead", ![c].rd = 0, ![c].owe = FALSE]
  /\ in' = [in EXCEPT ![c] = <<>>]
  /\ Noting({"killed"})
  /\ UNCHANGED <<out, fds, backlog, main, sess, conns_to_clean, sched, task_counter>>

----------------------------------------------------------------------------
(* acceptConnectionLocal: accept returns the lowest free descriptor. If    *)
(* the maps still hold that number, the two new threads cannot be inserted *)
(* and are destroyed while they run, which ends the service.               *)

Lowest(f) == fds[f] = None /\ \A g \in Fds : g < f => fds[g] # None

Accept(c) ==
  /\ main.at = "accept" /\ c \in backlog
  /\ \E f \in Fds :
       /\ Lowest(f)
       /\ fds' = [fds EXCEPT ![f] = c]
       /\ main' = [at |-> "pid", fd |-> f]
       /\ Noting(IF Up(f) THEN {"reuse"} ELSE {})
  /\ backlog' = backlog \ {c}
  /\ UNCHANGED <<cl, out, in, sess, conns_to_clean, sched, task_counter>>

(* The process ID is read and the client gets its list, lock, cThread and  *)
(* threads. An exception of cThread's constructor ends the accepting loop  *)
(* and with it the service. Without a process ID the connection is closed. *)
Register ==
  /\ main.at = "pid"
  /\ LET f == main.fd  c == fds[f] IN
     \/ /\ out[c] # <<>>
        /\ out' = [out EXCEPT ![c] = Tail(@)]
        /\ sess' = [sess EXCEPT ![f] = [c |-> c, tasks |-> <<>>, lock |-> FALSE, joinable |-> FALSE,
                                        req |-> "read", cur |-> 0, rsp |-> "idle", i |-> 0]]
        /\ main' = [at |-> "insert", fd |-> f]
        /\ UNCHANGED <<fds, hz>>
     \/ /\ out[c] # <<>>
        /\ Noting({"nothread"})
        /\ UNCHANGED <<out, sess, main, fds>>
     \/ /\ out[c] = <<>>
        /\ fds' = [fds EXCEPT ![f] = None]
        /\ main' = [at |-> "accept"]
        /\ UNCHANGED <<out, sess, hz>>
  /\ UNCHANGED <<cl, in, backlog, conns_to_clean, sched, task_counter>>

(* The threads run before they are entered in connection_threads.          *)
InsertThreads ==
  /\ main.at = "insert"
  /\ sess' = [sess EXCEPT ![main.fd].joinable = TRUE]
  /\ main' = [at |-> "accept"]
  /\ UNCHANGED <<cl, out, in, fds, backlog, conns_to_clean, sched, task_counter, hz>>

----------------------------------------------------------------------------
(* Writing to a descriptor: nothing happens when it is closed; a client    *)
(* that has closed its end may still take the data or not, and then, as    *)
(* for a client that died, SIGPIPE ends the service.                       *)

CanWrite(f, item) ==
  /\ fds[f] # None
  /\ cl[fds[f]].st \in {"up", "closing"}
  /\ in' = IF cl[fds[f]].st = "up" THEN [in EXCEPT ![fds[f]] = Append(@, item)] ELSE in

Fails(f) == fds[f] = None /\ UNCHANGED in

Pipe(f) == fds[f] # None /\ cl[fds[f]].st # "up" /\ Noting({"sigpipe"}) /\ UNCHANGED in

(* The request thread of a connection.                                     *)
Reading(f, s) == Up(f) /\ sess[f].req = s
Going(f, s) == sess' = [sess EXCEPT ![f].req = s]

Unit(f) == Head(out[fds[f]])
Arrived(f) == fds[f] # None /\ out[fds[f]] # <<>>
Consume(f) == out' = [out EXCEPT ![fds[f]] = Tail(@)]

ReadClose(f) ==
  /\ Reading(f, "read") /\ Arrived(f) /\ Unit(f).op = "close"
  /\ Consume(f)
  /\ fds' = [fds EXCEPT ![f] = None]
  /\ Going(f, "mark")
  /\ UNCHANGED <<cl, in, backlog, main, conns_to_clean, sched, task_counter, hz>>

Mark(f) ==
  /\ Reading(f, "mark")
  /\ conns_to_clean' = conns_to_clean \cup {f}
  /\ Going(f, "end")
  /\ UNCHANGED <<cl, out, in, fds, backlog, main, sched, task_counter, hz>>

(* An unknown function is answered with an error, between whatever the     *)
(* response thread writes; its arguments stay in the stream.               *)
Error(f) ==
  \/ /\ CanWrite(f, [op |-> "header", code |-> 1, tid |-> sess'[f].cur])
     /\ Noting(IF sess[f].rsp = "value" THEN {"interleaved"} ELSE {})
  \/ Pipe(f)

ReadSubmit(f) ==
  /\ Reading(f, "read") /\ Arrived(f) /\ Unit(f).op = "submit"
  /\ Consume(f)
  /\ LET m == Unit(f) IN
     /\ sess' = [sess EXCEPT ![f].cur = m.tid,
                             ![f].req = IF ~m.r.known THEN "read" ELSE IF m.r.args THEN "args" ELSE "push"]
     /\ IF m.r.known THEN UNCHANGED <<in, hz>> ELSE Error(f)
  /\ UNCHANGED <<cl, fds, backlog, main, conns_to_clean, sched, task_counter>>

(* Arguments that nobody waits for are taken for a request.                *)
Misread(f) ==
  /\ Reading(f, "read") /\ Arrived(f) /\ Unit(f).op = "args"
  /\ Consume(f)
  /\ Noting({"misframed"})
  /\ UNCHANGED <<cl, in, fds, backlog, main, sess, conns_to_clean, sched, task_counter>>

(* The arguments arrive, or SERVER_RECV_TIMEOUT passes.                    *)
ReadArgs(f) ==
  /\ Reading(f, "args")
  /\ \/ /\ Arrived(f) /\ Unit(f).op = "args"
        /\ Consume(f) /\ Going(f, "push")
        /\ UNCHANGED <<in, hz>>
     \/ /\ ~Arrived(f)
        /\ Going(f, "read") /\ Error(f)
        /\ UNCHANGED out
  /\ UNCHANGED <<cl, fds, backlog, main, conns_to_clean, sched, task_counter>>

(* The task enters the list of the connection and then the scheduler,      *)
(* which accepts every new number.                                         *)
Push(f) ==
  /\ Reading(f, "push") /\ sess[f].lock = FALSE
  /\ task_counter' = task_counter + 1
  /\ sess' = [sess EXCEPT ![f].tasks = Append(@, [tid |-> sess[f].cur, of |-> task_counter']),
                          ![f].req = "read"]
  /\ sched' = Append(sched, [c |-> sess[f].c, tid |-> sess[f].cur, of |-> task_counter', done |-> FALSE])
  /\ UNCHANGED <<cl, out, in, fds, backlog, main, conns_to_clean, hz>>

----------------------------------------------------------------------------
(* The scheduler (external: TaskQueue) completes its tasks.                *)
Complete ==
  /\ \E j \in DOMAIN sched : ~sched[j].done /\ sched' = [sched EXCEPT ![j].done = TRUE]
  /\ UNCHANGED <<cl, out, in, fds, backlog, main, sess, conns_to_clean, task_counter, hz>>

(* Mutant: a task counts as completed once the scheduler knows it.         *)
IsKnown(of) == \E j \in DOMAIN sched : sched[j].of = of

isTaskCompleted(of) == \E j \in DOMAIN sched : sched[j].of = of /\ sched[j].done

(* The response thread of a connection goes through the list with the lock *)
(* held. Entries of tasks that are not completed are passed over; a pass   *)
(* that finds no completed task changes nothing. After a pass the thread   *)
(* ends if the connection is marked.                                       *)
Responding(f, s) == Up(f) /\ sess[f].rsp = s

Completed(tasks, i) == {j \in i .. Len(tasks) : isTaskCompleted(tasks[j].of)}

Pass(f, tasks, i, end) ==
  LET js == Completed(tasks, i) IN
  IF js = {} THEN [sess[f] EXCEPT !.tasks = tasks, !.rsp = end, !.lock = FALSE, !.i = 0]
  ELSE [sess[f] EXCEPT !.tasks = tasks, !.rsp = "header", !.lock = TRUE,
                       !.i = CHOOSE j \in js : \A k \in js : j <= k]

AfterPass(f) == IF f \in conns_to_clean THEN "end" ELSE "idle"

(* Mutant: the first task is passed over.                                  *)
SkipFirst(f) ==
  /\ Responding(f, "idle") /\ sess[f].lock = FALSE
  /\ sess' = [sess EXCEPT ![f] = Pass(f, sess[f].tasks, 2, AfterPass(f))]
  /\ UNCHANGED <<cl, out, in, fds, backlog, main, conns_to_clean, sched, task_counter, hz>>

StartPass(f) ==
  /\ Responding(f, "idle") /\ sess[f].lock = FALSE
  /\ sess' = [sess EXCEPT ![f] = Pass(f, sess[f].tasks, 1, AfterPass(f))]
  /\ UNCHANGED <<cl, out, in, fds, backlog, main, conns_to_clean, sched, task_counter, hz>>

Task(f) == sess[f].tasks[sess[f].i]

(* When the header cannot be written the pass ends.                        *)
WriteHeader(f) ==
  /\ Responding(f, "header")
  /\ \/ /\ CanWrite(f, [op |-> "header", code |-> 0, tid |-> Task(f).tid])
        /\ sess' = [sess EXCEPT ![f].rsp = "value"]
        /\ UNCHANGED hz
     \/ /\ Fails(f)
        /\ sess' = [sess EXCEPT ![f].rsp = AfterPass(f), ![f].lock = FALSE, ![f].i = 0]
        /\ UNCHANGED hz
     \/ Pipe(f) /\ UNCHANGED sess
  /\ UNCHANGED <<cl, out, fds, backlog, main, conns_to_clean, sched, task_counter>>

Value(f) ==
  /\ Responding(f, "value")
  /\ \/ CanWrite(f, [op |-> "value", of |-> Task(f).of]) /\ UNCHANGED hz
     \/ Fails(f) /\ UNCHANGED hz
     \/ Pipe(f)
  /\ UNCHANGED <<cl, out, fds, backlog, main, conns_to_clean, sched, task_counter>>

(* Mutant: the task is not removed from the list.                          *)
KeepTask(f) ==
  /\ Value(f)
  /\ sess' = [sess EXCEPT ![f] = Pass(f, sess[f].tasks, sess[f].i + 1, AfterPass(f))]

Without(s, i) == SubSeq(s, 1, i - 1) \o SubSeq(s, i + 1, Len(s))

(* erase returns the next element, and unless it is the end the iterator   *)
(* is advanced once more.                                                  *)
WriteValue(f) ==
  /\ Value(f)
  /\ sess' = [sess EXCEPT ![f] = Pass(f, Without(sess[f].tasks, sess[f].i), sess[f].i + 1, AfterPass(f))]

(* cleanConns joins the threads of a stale connection and releases the     *)
(* cThread, the list and the lock. The iterator skips an entry, which the  *)
(* next pass reaches. Threads that are not entered yet are not joined and  *)
(* lose their list and lock; tasks that are not completed lose their       *)
(* cThread.                                                                *)
cleanConns ==
  /\ \E f \in conns_to_clean :
       /\ sess[f].joinable => sess[f].req = "end" /\ sess[f].rsp = "end"
       /\ sess' = [sess EXCEPT ![f] = Gone]
       /\ conns_to_clean' = conns_to_clean \ {f}
       /\ Noting((IF sess[f].joinable THEN {} ELSE {"unjoined"})
                 \cup IF \E j \in DOMAIN sched : sched[j].c = sess[f].c /\ ~sched[j].done
                      THEN {"dangling"} ELSE {})
  /\ UNCHANGED <<cl, out, in, fds, backlog, main, sched, task_counter>>

----------------------------------------------------------------------------
ReqThread(f) ==
  ReadClose(f) \/ Mark(f) \/ ReadSubmit(f) \/ Misread(f) \/ ReadArgs(f) \/ Push(f)

RspThread(f) == StartPass(f) \/ WriteHeader(f) \/ WriteValue(f)

Client(c) == hello(c) \/ SendArgs(c) \/ checkCompletedTasks(c) \/ join(c)

(* The service ends, or nothing more is known about what it does.          *)
Broken == {"reuse", "sigpipe", "misframed", "nothread", "unjoined", "dangling", "interleaved"}
Alive == hz \cap Broken = {}

Next ==
  /\ Alive
  /\ \/ \E c \in Clients : connect(c) \/ Submit(c) \/ Client(c) \/ disconnect(c) \/ kill(c) \/ Accept(c)
     \/ Register \/ InsertThreads \/ Complete \/ cleanConns
     \/ \E f \in Fds : ReqThread(f) \/ RspThread(f)

(* Every thread keeps running, and the scheduler completes every task      *)
(* (SubmittedTasksComplete of CSched). Only the response threads can go on *)
(* for ever, so weak fairness of the rest serves every other thread.       *)
Others ==
  \/ \E c \in Clients : Client(c) \/ Accept(c)
  \/ Register \/ InsertThreads \/ Complete \/ cleanConns
  \/ \E f \in Fds : ReqThread(f)

Fairness ==
  /\ WF_vars(Alive /\ Others)
  /\ \A f \in Fds : WF_vars(Alive /\ RspThread(f))

Spec == Init /\ [][Next]_vars /\ Fairness

----------------------------------------------------------------------------
Results == UNION {{<<c, t>> : t \in DOMAIN cl[c].res} : c \in Clients}

(* What a client gets as the result of a task is the return value of the   *)
(* completed task that the service created for that very request, and the  *)
(* service will not answer the request again: client and server number the *)
(* tasks on their own, and two threads of the service write to the stream. *)
(* The exception is an error report of the request thread between the two  *)
(* writes of the response thread: the client reads the report as a value.  *)
ResultsAreRight ==
  \A <<c, t>> \in Results :
    LET r == cl[c].res[t] IN
    /\ r # -2
    /\ r > 0 => /\ \E j \in DOMAIN sched : sched[j] = [c |-> c, tid |-> t, of |-> r, done |-> TRUE]
                /\ \A f \in Fds : Up(f) /\ sess[f].c = c =>
                     \A i \in DOMAIN sess[f].tasks : sess[f].tasks[i].tid # t

(* A task that the scheduler has not completed still has its cThread, if   *)
(* clients leave only after their tasks are completed: cleanConns destroys *)
(* the cThread although the scheduler holds a pointer to it.               *)
ThreadsOutliveTasks ==
  "early" \notin hz =>
    \A j \in DOMAIN sched : ~sched[j].done => \E f \in Fds : Up(f) /\ sess[f].c = sched[j].c

(* A client that waits for the result of a task gets it: the response      *)
(* thread, which skips the entry after one it has removed, comes back for  *)
(* it in a later pass.                                                     *)
RequestsAreAnswered ==
  []<>(Alive => \A c \in Clients : cl[c].st = "up" => Pending(c) = {})

(* After a client has asked to close, its destructor returns and all that  *)
(* the service held for the connection is released: the request thread     *)
(* ends first, the response thread when it sees the mark of the request    *)
(* thread, and then the clean-up thread joins both.                        *)
ClosedIsCleaned ==
  []<>(Alive => \A c \in Clients :
         cl[c].st \in {"closing", "left"} => cl[c].st = "left" /\ \A f \in Fds : sess[f].c # c)

(* Every client is served to the end: its requests are answered, and its   *)
(* connection is cleaned up after it.                                      *)
ClientsAreServed == RequestsAreAnswered /\ ClosedIsCleaned

=============================================================================
