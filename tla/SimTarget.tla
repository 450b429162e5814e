----------------------------- MODULE SimTarget -----------------------------
(***************************************************************************)
(* The simulation target of the software stack (sim/sw): the class cThread *)
(* built against a Vivado simulation instead of the driver.                *)
(*                                                                         *)
(* Four threads share the process.  The main thread runs the program and   *)
(* the cThread operations; executeUnlessCrash runs the body of each of     *)
(* them in a helper thread and waits on return_queue for its end, or for   *)
(* the end of one of the other two: sim_thread, which drives Vivado        *)
(* through a pseudo terminal, and out_thread, which reads the pipe that    *)
(* the simulation writes.  The test bench (sim/hw) reads the other pipe.   *)
(*                                                                         *)
(* Data are abstracted to their age.  A buffer has copies in the program's *)
(* memory, in the two memory mocks of the test bench and in messages; a    *)
(* copy is either current or old, and whoever writes a buffer makes one    *)
(* copy current and all the others old.  The program is free of races: it  *)
(* leaves a buffer alone while a transfer uses it, and goes by what        *)
(* checkCompleted, getCSR and the interrupt handler tell it.               *)
(***************************************************************************)
EXTENDS Naturals, Sequences, FiniteSets

CONSTANTS Bufs,     \* buffers the program may allocate
          NoBuf,    \* none of them
          MaxOps,   \* operations of the program before it destroys its cThread
          InCap,    \* messages that fit into input.bin
          OutCap    \* messages that fit into output.bin

ASSUME SimAssumption == NoBuf \notin Bufs /\ MaxOps \in Nat /\ InCap \in Nat \ {0} /\ OutCap \in Nat \ {0}

VARIABLES
  main,    \* the main thread: where it is, its operation and the helper bodies left
  helper,  \* the steps left to the helper thread; <<>>: there is none
  q,       \* return_queue, csr_queue and completed_queue
  prog,    \* what the program knows and owns
  pipe,    \* input.bin and output.bin, and the message the simulator blocks on
  simt,    \* sim_thread
  outt,    \* out_thread
  bench,   \* the test bench: memory mocks, streams, counters
  kern,    \* a job the design works on by itself, started through a CSR
  cause    \* the first thing that went wrong outside the simulation target

vars == <<main, helper, q, prog, pipe, simt, outt, bench, kern, cause>>

Opers == {"read", "write", "offload", "sync"}

(***************************************************************************)
(* Operations as bodies for executeUnlessCrash: sequences of the steps of  *)
(* the helper.  A step writes a message or waits for one of the queues.    *)
(***************************************************************************)
Msg(k, b) == [k |-> k, b |-> b, o |-> "none", s |-> "host", cur |-> FALSE, n |-> 0]
Inv(o, b, s) == [Msg("INVOKE", b) EXCEPT !.o = o, !.s = s]
Check(o) == [Msg("CHECK_COMPLETED", NoBuf) EXCEPT !.o = o]
CheckPoll(o) == [Check(o) EXCEPT !.k = "CHECK_POLL"]
Open == Msg("open", NoBuf)
GetCompleted == Msg("completed_queue", NoBuf)
GetResult == Msg("csr_queue", NoBuf)

Operation(k, b, d, s) == [k |-> k, b |-> b, d |-> d, s |-> s]
NoOp == Operation("none", NoBuf, NoBuf, "host")

\* A read takes its data along: the memory first, then the request
ReadSwapped(op, n) == <<[Inv("read", op.b, op.s) EXCEPT !.n = n], Msg("MEM_WRITE", op.b)>>
ReadBody(op, n) == <<Msg("MEM_WRITE", op.b), [Inv("read", op.b, op.s) EXCEPT !.n = n]>>

\* The last body of a sync or an offload waits for its completion
NotAwaited(o) == <<CheckPoll(o)>>
Awaited(o) == <<CheckPoll(o), GetCompleted>>

Bodies(op) ==
  CASE op.k = "open"     -> << <<Open>>, <<Msg("CLEAR_COMPLETED", NoBuf)>> >>
    [] op.k = "getMem"   -> << <<Msg("USER_MAP", op.b)>> >>
    [] op.k = "freeMem"  -> << <<Msg("USER_UNMAP", op.b)>> >>
    [] op.k = "read"     -> <<ReadBody(op, 0)>>
    [] op.k = "write"    -> << <<Inv("write", op.b, op.s)>> >>
    [] op.k = "transfer" -> <<ReadBody(op, 1),
                               <<[Inv("write", op.d, op.s) EXCEPT !.n = 1]>> >>
    [] op.k = "offload"  -> << <<Check("offload"), GetCompleted>>,
                               <<Msg("MEM_WRITE", op.b), Inv("offload", op.b, "card")>>,
                               Awaited("offload")>>
    [] op.k = "sync"     -> << <<Check("sync"), GetCompleted>>,
                               <<Inv("sync", op.b, "card")>>,
                               Awaited("sync")>>
    [] op.k = "check"    -> << <<Check(op.s), GetCompleted>> >>
    [] op.k = "clear"    -> << <<Msg("CLEAR_COMPLETED", NoBuf)>> >>
    [] op.k = "setCSR"   -> << <<Msg("SET_CSR", op.b)>> >>
    [] op.k = "getCSR"   -> << <<Msg("GET_CSR", NoBuf), GetResult>> >>

(***************************************************************************)
(* State                                                                   *)
(***************************************************************************)
Init ==
  /\ main = [at |-> "new", op |-> NoOp, calls |-> <<>>, res |-> 0]
  /\ helper = <<>>
  /\ q = [ret |-> <<>>, csr |-> <<>>, cmp |-> <<>>]
  /\ \E isr \in BOOLEAN :
       prog = [mapped |-> {}, mem |-> [b \in Bufs |-> TRUE],
               place |-> [b \in Bufs |-> "host"], busy |-> [b \in Bufs |-> "no"],
               due |-> [o \in Opers |-> 0], left |-> MaxOps,
               isr |-> isr, uisr |-> FALSE, irq |-> FALSE]
  /\ pipe = [in |-> <<>>, inEnd |-> "none", out |-> <<>>, pend |-> <<>>]
  /\ simt = "none"
  /\ outt = [at |-> "none", m |-> Msg("none", NoBuf)]
  /\ bench = [st |-> "off", segs |-> {}, mock |-> [b \in Bufs |-> FALSE],
              card |-> [b \in Bufs |-> FALSE], marker |-> [b \in Bufs |-> FALSE],
              cnt |-> [o \in Opers |-> 0], jobs |-> {}, acks |-> {}, ctrl |-> <<>>]
  /\ \E design \in {"plain", "irq", "eager"} : kern = [st |-> "idle", b |-> NoBuf, design |-> design]
  /\ cause = "none"

Running == main.at \notin {"done", "dead"}
Blame(c) == cause' = IF cause = "none" THEN c ELSE cause
Dies == main' = [main EXCEPT !.at = "dead"]

(***************************************************************************)
(* Somebody writes buffer b: every other copy becomes old.                 *)
(***************************************************************************)
Age(s, b) == [i \in DOMAIN s |-> IF s[i].b = b THEN [s[i] EXCEPT !.cur = FALSE] ELSE s[i]]
AgePipe(b) == [pipe EXCEPT !.in = Age(@, b), !.out = Age(@, b), !.pend = Age(@, b)]
AgeBench(b) == [bench EXCEPT !.mock[b] = FALSE, !.card[b] = FALSE]
AgeOut(b) == IF outt.m.b = b THEN [outt EXCEPT !.m.cur = FALSE] ELSE outt

(***************************************************************************)
(* Constructor.                                                            *)
(***************************************************************************)
MakePipes ==
  /\ main.at = "new"
  /\ \/ /\ main' = [main EXCEPT !.at = "project"]
        /\ pipe' = [in |-> <<>>, inEnd |-> "none", out |-> <<>>, pend |-> <<>>]
        /\ UNCHANGED cause
     \/ Dies /\ Blame("setup") /\ UNCHANGED pipe
  /\ UNCHANGED <<helper, q, prog, simt, outt, bench, kern>>

OpenProject ==
  /\ main.at = "project"
  /\ \/ main' = [main EXCEPT !.at = "compile"] /\ UNCHANGED cause
     \/ Dies /\ Blame("setup")
  /\ UNCHANGED <<helper, q, prog, pipe, simt, outt, bench, kern>>

\* executeUnlessCrash: start a helper for the first body of an operation
Call(op) ==
  /\ main' = [main EXCEPT !.at = "call", !.op = op, !.calls = Tail(Bodies(op))]
  /\ helper' = Bodies(op)[1] \o <<Msg("return", NoBuf)>>

\* compileProject, and on success both threads start and input.bin is opened
CompileProject ==
  /\ main.at = "compile"
  /\ \/ /\ simt' = "launch"
        /\ outt' = [outt EXCEPT !.at = "open"]
        /\ Call(Operation("open", NoBuf, NoBuf, "host"))
        /\ UNCHANGED cause
     \/ Dies /\ Blame("setup") /\ UNCHANGED <<helper, simt, outt>>
  /\ UNCHANGED <<q, prog, pipe, bench, kern>>

(***************************************************************************)
(* executeUnlessCrash: take the first entry of return_queue.  The end of   *)
(* one of the other threads terminates the process.  At the end of the     *)
(* last body the operation takes effect for the program.                   *)
(***************************************************************************)
Races == outt.at \in {"boundsCheck", "boundsCheckRead"}

Freed(kind) == [b \in Bufs |-> IF prog.busy[b] = kind THEN "no" ELSE prog.busy[b]]

Finish(op) ==
  CASE op.k = "open" -> prog
    [] op.k = "getMem" -> [prog EXCEPT !.mapped = @ \cup {op.b}, !.mem[op.b] = TRUE,
                                       !.place[op.b] = "host"]
    [] op.k = "freeMem" -> [prog EXCEPT !.mapped = @ \ {op.b}]
    [] op.k = "sync" -> [prog EXCEPT !.place[op.b] = "host"]
    [] op.k = "check" /\ main.res = prog.due[op.s] -> [prog EXCEPT !.busy = Freed(op.s)]
    [] op.k = "getCSR" /\ main.res = 1 -> [prog EXCEPT !.busy = Freed("kern")]
    [] OTHER -> prog

Return ==
  /\ main.at = "call" /\ q.ret # <<>>
  /\ q' = [q EXCEPT !.ret = Tail(@)]
  /\ IF Head(q.ret) # "OTHER"
     THEN Dies /\ UNCHANGED <<helper, prog, pipe, outt, bench, cause>>
     ELSE IF main.calls # <<>>
     THEN /\ main' = [main EXCEPT !.calls = Tail(@)]
          /\ helper' = Head(main.calls) \o <<Msg("return", NoBuf)>>
             \* registerIRQ lies between the two calls of the constructor
          /\ prog' = IF main.op.k = "open" THEN [prog EXCEPT !.uisr = prog.isr] ELSE prog
          /\ UNCHANGED <<pipe, outt, bench, cause>>
     ELSE /\ prog' = Finish(main.op)
          /\ helper' = <<>>
          /\ IF main.op.k = "getMem"   \* fresh memory, whose first byte is set
             THEN pipe' = AgePipe(main.op.b) /\ bench' = AgeBench(main.op.b) /\ outt' = AgeOut(main.op.b)
             ELSE UNCHANGED <<pipe, bench, outt>>
          /\ \/ main' = [main EXCEPT !.at = "run", !.op = NoOp] /\ UNCHANGED cause
                \* mapped_pages changes while boundsCheck walks it
             \/ main.op.k \in {"getMem", "freeMem"} /\ Races /\ Dies /\ Blame("race")
  /\ UNCHANGED <<simt, kern>>

(***************************************************************************)
(* The helper: writes under write_mtx, waits on a queue, and reports.  A   *)
(* write to a pipe without a reader raises SIGPIPE.                        *)
(***************************************************************************)
Waits == {"open", "completed_queue", "csr_queue", "return"}
Filled(m) ==
  CASE m.k = "MEM_WRITE" -> [m EXCEPT !.cur = prog.mem[m.b]]
    [] m.k = "CHECK_POLL" -> [m EXCEPT !.k = "CHECK_COMPLETED", !.n = main.res + 1]
    [] OTHER -> m

WriteData ==
  /\ Running /\ helper # <<>> /\ Head(helper).k \notin Waits
  /\ \/ /\ bench.st = "run" /\ Len(pipe.in) < InCap
        /\ pipe' = [pipe EXCEPT !.in = Append(@, Filled(Head(helper)))]
        /\ helper' = Tail(helper) /\ UNCHANGED main
     \/ bench.st = "gone" /\ Dies /\ UNCHANGED <<pipe, helper>>
  /\ UNCHANGED <<q, prog, simt, outt, bench, kern, cause>>

OpenInput ==
  /\ Running /\ helper # <<>> /\ Head(helper).k = "open"
  /\ bench.st = "run"
  /\ pipe' = [pipe EXCEPT !.inEnd = "open"]
  /\ helper' = Tail(helper)
  /\ UNCHANGED <<main, q, prog, simt, outt, bench, kern, cause>>

HelperWaits ==
  /\ Running /\ helper # <<>>
  /\ \/ /\ Head(helper).k = "completed_queue" /\ q.cmp # <<>>
        /\ main' = [main EXCEPT !.res = Head(q.cmp)]
        /\ q' = [q EXCEPT !.cmp = Tail(@)]
     \/ /\ Head(helper).k = "csr_queue" /\ q.csr # <<>>
        /\ main' = [main EXCEPT !.res = Head(q.csr)]
        /\ q' = [q EXCEPT !.csr = Tail(@)]
     \/ /\ Head(helper).k = "return"
        /\ q' = [q EXCEPT !.ret = Append(@, "OTHER")]
        /\ UNCHANGED main
  /\ helper' = Tail(helper)
  /\ UNCHANGED <<prog, pipe, simt, outt, bench, kern, cause>>

(***************************************************************************)
(* The program between two operations.                                     *)
(***************************************************************************)
Usable(b) == b \in prog.mapped /\ prog.busy[b] = "no"
Spend == prog' = [prog EXCEPT !.left = @ - 1]

Allocate ==
  /\ main.at = "run" /\ prog.left > 0
  /\ \E b \in Bufs \ prog.mapped : Call(Operation("getMem", b, NoBuf, "host"))
  /\ Spend
  /\ UNCHANGED <<q, pipe, simt, outt, bench, kern, cause>>

\* freeMem: free and erase follow the message, so the buffer is unmapped there first
Free ==
  /\ main.at = "run" /\ prog.left > 0
  /\ \E b \in prog.mapped : Usable(b) /\ Call(Operation("freeMem", b, NoBuf, "host"))
  /\ Spend
  /\ UNCHANGED <<q, pipe, simt, outt, bench, kern, cause>>

\* The program writes its own memory
Store ==
  /\ main.at = "run" /\ prog.left > 0
  /\ \E b \in prog.mapped :
       /\ Usable(b) /\ prog.place[b] = "host"
       /\ prog' = [prog EXCEPT !.left = @ - 1, !.mem[b] = TRUE]
       /\ pipe' = AgePipe(b) /\ bench' = AgeBench(b) /\ outt' = AgeOut(b)
  /\ UNCHANGED <<main, helper, q, simt, kern, cause>>

Streams(b) == {"card"} \cup (IF prog.place[b] = "host" THEN {"host"} ELSE {})

\* invoke with one scatter-gather entry
InvokeOne ==
  /\ main.at = "run" /\ prog.left > 0
  /\ \E b \in prog.mapped, o \in {"read", "write"} : \E s \in Streams(b) :
       /\ Usable(b)
       /\ Call(Operation(o, b, NoBuf, s))
       /\ prog' = [prog EXCEPT !.left = @ - 1, !.due[o] = @ + 1, !.busy[b] = o, !.place[b] = s]
  /\ UNCHANGED <<q, pipe, simt, outt, bench, kern, cause>>

\* invoke with a source and a destination
InvokeTransfer ==
  /\ main.at = "run" /\ prog.left > 0
  /\ \E b, d \in prog.mapped : \E s \in Streams(b) \cap Streams(d) :
       /\ Usable(b) /\ Usable(d) /\ b # d
       /\ Call(Operation("transfer", b, d, s))
       /\ prog' = [prog EXCEPT !.left = @ - 1, !.due = [@ EXCEPT !["read"] = @ + 1, !["write"] = @ + 1],
                               !.busy = [@ EXCEPT ![b] = "write", ![d] = "write"],
                               !.place = [@ EXCEPT ![b] = s, ![d] = s]]
  /\ UNCHANGED <<q, pipe, simt, outt, bench, kern, cause>>

\* invoke of an offload or a sync, which waits for its completion
InvokeSync ==
  /\ main.at = "run" /\ prog.left > 0
  /\ \E b \in prog.mapped :
       /\ Usable(b)
       /\ \/ /\ prog.place[b] = "host"
             /\ Call(Operation("offload", b, NoBuf, "card"))
             /\ prog' = [prog EXCEPT !.left = @ - 1, !.place[b] = "card"]
          \/ /\ prog.place[b] = "card"
             /\ Call(Operation("sync", b, NoBuf, "card"))
             /\ Spend
  /\ UNCHANGED <<q, pipe, simt, outt, bench, kern, cause>>

Outstanding(kind) == \E b \in Bufs : prog.busy[b] = kind

CheckCompleted ==
  /\ main.at = "run"
  /\ \E o \in {"read", "write"} : Outstanding(o) /\ Call(Operation("check", NoBuf, NoBuf, o))
  /\ UNCHANGED <<q, prog, pipe, simt, outt, bench, kern, cause>>

ClearCompleted ==
  /\ main.at = "run" /\ prog.left > 0
  /\ \A b \in Bufs : prog.busy[b] = "no"
  /\ Call(Operation("clear", NoBuf, NoBuf, "host"))
  /\ prog' = [prog EXCEPT !.left = @ - 1, !.due = [o \in Opers |-> 0]]
  /\ UNCHANGED <<q, pipe, simt, outt, bench, kern, cause>>

\* setCSR starts a job of the design, whose transfers count like the program's
SetCSR ==
  /\ main.at = "run" /\ prog.left > 0
  /\ ~Outstanding("kern")
  /\ \E b \in prog.mapped :
       /\ Usable(b) /\ prog.place[b] = "host"
       /\ Call(Operation("setCSR", b, NoBuf, "host"))
       /\ prog' = [prog EXCEPT !.left = @ - 1, !.due = [@ EXCEPT !["read"] = @ + 1, !["write"] = @ + 1],
                               !.busy[b] = "kern"]
  /\ UNCHANGED <<q, pipe, simt, outt, bench, kern, cause>>

\* With an interrupt handler the program waits for that, otherwise it reads the status
AwaitsIrq == prog.isr /\ kern.design = "irq"

GetCSR ==
  /\ main.at = "run" /\ Outstanding("kern") /\ ~AwaitsIrq
  /\ Call(Operation("getCSR", NoBuf, NoBuf, "host"))
  /\ UNCHANGED <<q, prog, pipe, simt, outt, bench, kern, cause>>

SeeIrq ==
  /\ main.at = "run" /\ AwaitsIrq /\ prog.irq
  /\ prog' = [prog EXCEPT !.irq = FALSE, !.busy = Freed("kern")]
  /\ UNCHANGED <<main, helper, q, pipe, simt, outt, bench, kern, cause>>

\* Networking, locks and other calls that the target does not implement assert
Unsupported ==
  /\ main.at = "run" /\ prog.left > 0
  /\ Dies /\ Blame("unsupported")
  /\ UNCHANGED <<helper, q, prog, pipe, simt, outt, bench, kern>>

(***************************************************************************)
(* Destructor: free the buffers that are left, close input.bin, join.      *)
(***************************************************************************)
Destroy ==
  /\ main.at = "run" /\ \A b \in Bufs : prog.busy[b] = "no"
  /\ \/ /\ prog.mapped # {}
        /\ \E b \in prog.mapped : Call(Operation("freeMem", b, NoBuf, "host"))
        /\ UNCHANGED pipe
     \/ /\ prog.mapped = {}
        /\ main' = [main EXCEPT !.at = "joinSim"]
        /\ pipe' = [pipe EXCEPT !.inEnd = "closed"]
        /\ UNCHANGED helper
  /\ prog' = [prog EXCEPT !.left = 0]
  /\ UNCHANGED <<q, simt, outt, bench, kern, cause>>

JoinSim ==
  /\ main.at = "joinSim" /\ simt = "ended"
  /\ main' = [main EXCEPT !.at = "joinOut"]
  /\ UNCHANGED <<helper, q, prog, pipe, simt, outt, bench, kern, cause>>

JoinOut ==
  /\ main.at = "joinOut" /\ outt.at = "ended"
  /\ main' = [main EXCEPT !.at = "done"]
  /\ UNCHANGED <<helper, q, prog, pipe, simt, outt, bench, kern, cause>>

\* A second cThread in the process: the queues are global and keep their entries
Again ==
  /\ main.at = "done" /\ cause = "none"
  /\ main' = [main EXCEPT !.at = "new"]
  /\ Blame("again")
  /\ bench' = [bench EXCEPT !.st = "off"]
  /\ UNCHANGED <<helper, q, prog, pipe, simt, outt, kern>>

(***************************************************************************)
(* sim_thread: runSimulation launches the simulation, runs it to its end   *)
(* and closes it; a command that fails ends the thread early.  When Vivado *)
(* itself dies, waitTillReady keeps reading from the pseudo terminal.      *)
(***************************************************************************)
SimSilent == UNCHANGED q
SimReports == q' = [q EXCEPT !.ret = Append(@, "SIM")]

RunSimulation ==
  /\ Running
  /\ \/ /\ simt = "launch"
        /\ \/ /\ simt' = "run" /\ bench' = [bench EXCEPT !.st = "scb"]
              /\ UNCHANGED <<q, cause>>
           \/ /\ simt' = "ended" /\ SimReports
              /\ Blame("setup") /\ UNCHANGED bench
     \/ /\ simt = "run" /\ bench.st = "gone"
        /\ simt' = "ended" /\ SimReports
        /\ UNCHANGED <<bench, cause>>
  /\ UNCHANGED <<main, helper, prog, pipe, outt, kern>>

Alive == Running /\ bench.st \in {"scb", "gen", "run", "ending"}
Gone == bench' = [bench EXCEPT !.st = "gone", !.jobs = {}, !.acks = {}, !.ctrl = <<>>]

VivadoDies ==
  /\ Alive /\ simt = "run" /\ cause = "none"
  /\ Gone /\ simt' = "hung" /\ Blame("vivado")
  /\ pipe' = [pipe EXCEPT !.pend = <<>>]
  /\ UNCHANGED <<main, helper, q, prog, outt, kern>>

\* An assertion of the test bench or of the design stops the simulation
BenchFails ==
  /\ Alive /\ cause = "none" /\ pipe.pend = <<>>
  /\ Gone /\ Blame("bench")
  /\ UNCHANGED <<main, helper, q, prog, pipe, simt, outt, kern>>

(***************************************************************************)
(* out_thread: open output.bin, handle messages until its end, report.     *)
(***************************************************************************)
OpenOutput ==
  /\ Running /\ outt.at = "open" /\ bench.st = "scb"
  /\ outt' = [outt EXCEPT !.at = "read"]
  /\ bench' = [bench EXCEPT !.st = "gen"]
  /\ UNCHANGED <<main, helper, q, prog, pipe, simt, kern, cause>>

ReadMessage ==
  /\ Running /\ outt.at = "read" /\ pipe.out # <<>>
  /\ pipe' = [pipe EXCEPT !.out = Tail(@)]
  /\ LET m == Head(pipe.out) IN
     CASE m.k = "GET_CSR" ->
            q' = [q EXCEPT !.csr = Append(@, m.n)] /\ UNCHANGED <<main, prog, outt, cause>>
       [] m.k = "CHECK_COMPLETED" ->
            q' = [q EXCEPT !.cmp = Append(@, m.n)] /\ UNCHANGED <<main, prog, outt, cause>>
       [] m.k = "IRQ" ->
            /\ IF prog.uisr
               THEN prog' = [prog EXCEPT !.irq = (kern.design = "irq")] /\ UNCHANGED <<main, cause>>
               ELSE Dies /\ Blame("noisr") /\ UNCHANGED prog
            /\ UNCHANGED <<q, outt>>
       [] m.k = "HOST_WRITE" ->
            outt' = [at |-> "boundsCheck", m |-> m] /\ UNCHANGED <<main, q, prog, cause>>
       [] m.k = "HOST_READ" ->
            outt' = [at |-> "boundsCheckRead", m |-> m] /\ UNCHANGED <<main, q, prog, cause>>
  /\ UNCHANGED <<helper, simt, bench, kern>>

\* boundsCheck, then the data: an address outside mapped_pages terminates
HostWrite ==
  /\ Running /\ outt.at = "boundsCheck"
  /\ IF outt.m.b \in prog.mapped
     THEN /\ prog' = [prog EXCEPT !.mem[outt.m.b] = outt.m.cur]
          /\ outt' = [at |-> "read", m |-> Msg("none", NoBuf)]
          /\ UNCHANGED main
     ELSE Dies /\ UNCHANGED <<prog, outt>>
  /\ UNCHANGED <<helper, q, pipe, simt, bench, kern, cause>>

HostReadCheck ==
  /\ Running /\ outt.at = "boundsCheckRead"
  /\ IF outt.m.b \in prog.mapped
     THEN outt' = [outt EXCEPT !.at = "syncMem"] /\ UNCHANGED main
     ELSE Dies /\ UNCHANGED outt
  /\ UNCHANGED <<helper, q, prog, pipe, simt, bench, kern, cause>>

\* syncMem: out_thread itself writes the buffer to input.bin
SyncMem ==
  /\ Running /\ outt.at = "syncMem"
  /\ \/ /\ bench.st = "run" /\ pipe.inEnd = "open" /\ Len(pipe.in) < InCap
        /\ pipe' = [pipe EXCEPT !.in = Append(@, Filled(Msg("MEM_WRITE", outt.m.b)))]
        /\ outt' = [at |-> "read", m |-> Msg("none", NoBuf)]
        /\ UNCHANGED main
     \/ /\ bench.st = "gone" \/ pipe.inEnd # "open"
        /\ Dies /\ UNCHANGED <<pipe, outt>>
  /\ UNCHANGED <<helper, q, prog, simt, bench, kern, cause>>

EndOfOutput ==
  /\ Running /\ outt.at = "read" /\ pipe.out = <<>> /\ bench.st = "gone"
  /\ outt' = [outt EXCEPT !.at = "ended"]
  /\ q' = [q EXCEPT !.ret = Append(@, "OUT")]
  /\ UNCHANGED <<main, helper, prog, pipe, simt, bench, kern, cause>>

(***************************************************************************)
(* The test bench (external to the software, sim/hw).  A write to a full   *)
(* output.bin blocks the whole simulator.                                  *)
(***************************************************************************)
Steps == Alive /\ pipe.pend = <<>>
Emit(p, m) == IF Len(p.out) < OutCap THEN [p EXCEPT !.out = Append(@, m)] ELSE [p EXCEPT !.pend = <<m>>]

Unblock ==
  /\ Alive /\ pipe.pend # <<>> /\ Len(pipe.out) < OutCap
  /\ pipe' = [pipe EXCEPT !.out = Append(@, pipe.pend[1]), !.pend = <<>>]
  /\ UNCHANGED <<main, helper, q, prog, simt, outt, bench, kern, cause>>

OpenGen ==
  /\ Steps /\ bench.st = "gen"
  /\ bench' = [bench EXCEPT !.st = "run"]
  /\ pipe' = IF kern.design = "eager" THEN Emit(pipe, Msg("IRQ", NoBuf)) ELSE pipe
  /\ UNCHANGED <<main, helper, q, prog, simt, outt, kern, cause>>

Job(k, b, s, by) == [k |-> k, b |-> b, s |-> s, by |-> by]

\* invokeRead with the page fault of the card stream, invokeWrite
Requested(bn, k, b, s, by) ==
  [bn EXCEPT !.jobs = @ \cup {Job(k, b, s, by)},
             !.card[b] = IF k = "read" /\ s = "card" /\ ~bn.marker[b] THEN bn.mock[b] ELSE @,
             !.marker[b] = @ \/ s = "card"]

\* run_gen: one message of input.bin
RunGen ==
  /\ Steps /\ bench.st = "run" /\ pipe.in # <<>>
  /\ LET m == Head(pipe.in)
         p == [pipe EXCEPT !.in = Tail(@)] IN
     CASE m.k = "SET_CSR" \/ m.k = "GET_CSR" ->
            bench' = [bench EXCEPT !.ctrl = Append(@, m)] /\ pipe' = p /\ UNCHANGED kern
       [] m.k = "USER_MAP" ->
            /\ bench' = [bench EXCEPT !.segs = @ \cup {m.b}, !.mock[m.b] = FALSE,
                                      !.card[m.b] = FALSE, !.marker[m.b] = FALSE]
            /\ pipe' = p /\ UNCHANGED kern
       [] m.k = "USER_UNMAP" ->
            bench' = [bench EXCEPT !.segs = @ \ {m.b}] /\ pipe' = p /\ UNCHANGED kern
       [] m.k = "MEM_WRITE" ->
            LET synced == kern.st = "sync" /\ kern.b = m.b
                bn == [bench EXCEPT !.mock[m.b] = m.cur] IN
            /\ bench' = IF synced THEN Requested(bn, "read", m.b, "host", "kern") ELSE bn
            /\ kern' = IF synced THEN [kern EXCEPT !.st = "read"] ELSE kern
            /\ pipe' = p
       [] m.k = "INVOKE" /\ m.o \in {"read", "write"} ->
            bench' = Requested(bench, m.o, m.b, m.s, IF m.n = 1 THEN "transfer" ELSE "prog") /\ pipe' = p /\ UNCHANGED kern
       [] m.k = "INVOKE" /\ m.o = "offload" ->
            /\ bench' = [bench EXCEPT !.card[m.b] = bench.mock[m.b], !.marker[m.b] = TRUE, !.cnt["offload"] = @ + 1]
            /\ pipe' = p /\ UNCHANGED kern
       [] m.k = "INVOKE" /\ m.o = "sync" ->
            /\ bench' = [bench EXCEPT !.mock[m.b] = bench.card[m.b], !.marker[m.b] = FALSE, !.cnt["sync"] = @ + 1]
            /\ pipe' = Emit(p, [Msg("HOST_WRITE", m.b) EXCEPT !.cur = bench.card[m.b]])
            /\ UNCHANGED kern
       [] m.k = "CHECK_COMPLETED" ->
            /\ bench.cnt[m.o] >= m.n
            /\ pipe' = Emit(p, [Msg("CHECK_COMPLETED", NoBuf) EXCEPT !.n = bench.cnt[m.o]])
            /\ UNCHANGED <<bench, kern>>
       [] m.k = "CLEAR_COMPLETED" ->
            bench' = [bench EXCEPT !.cnt = [o \in Opers |-> 0]] /\ pipe' = p /\ UNCHANGED kern
  /\ UNCHANGED <<main, helper, q, prog, simt, outt, cause>>

\* ctrl_simulation: the registers of the design
RunCtrl ==
  /\ Steps /\ bench.ctrl # <<>>
  /\ bench' = [bench EXCEPT !.ctrl = Tail(@)]
  /\ LET m == Head(bench.ctrl) IN
     IF m.k = "SET_CSR"
     THEN kern' = [kern EXCEPT !.st = "start", !.b = m.b] /\ UNCHANGED pipe
     ELSE /\ pipe' = Emit(pipe, [Msg("GET_CSR", NoBuf) EXCEPT !.n = IF kern.st = "done" THEN 1 ELSE 0])
          /\ UNCHANGED kern
  /\ UNCHANGED <<main, helper, q, prog, simt, outt, cause>>

\* run_read_queue: the design takes the data of a read
RunRead ==
  /\ Steps
  /\ \E j \in bench.jobs :
       /\ j.k = "read"
       /\ bench' = [bench EXCEPT !.jobs = @ \ {j}, !.acks = @ \cup {j}]
  /\ UNCHANGED <<main, helper, q, prog, pipe, simt, outt, kern, cause>>

\* run_write_queue: the design delivers the data of a write, for a transfer after its input
RunWrite ==
  /\ Steps
  /\ \E j \in bench.jobs :
       /\ j.k = "write"
       /\ j.by = "transfer" => \A r \in bench.jobs : r.by # "transfer" \/ r.k # "read"
       /\ prog' = [prog EXCEPT !.mem[j.b] = FALSE]
       /\ bench' = [AgeBench(j.b) EXCEPT !.jobs = @ \ {j}, !.acks = @ \cup {j},
                       !.mock[j.b] = (j.s = "host"), !.card[j.b] = (j.s = "card")]
       /\ pipe' = IF j.s = "host"
                  THEN Emit(AgePipe(j.b), [Msg("HOST_WRITE", j.b) EXCEPT !.cur = TRUE])
                  ELSE AgePipe(j.b)
       /\ outt' = AgeOut(j.b)
  /\ UNCHANGED <<main, helper, q, simt, kern, cause>>

\* run_ack: the completion queue of the design, then the counter
RunAck ==
  /\ Steps
  /\ \E j \in bench.acks :
       LET bn == [bench EXCEPT !.acks = @ \ {j}, !.cnt[j.k] = @ + 1]
           next == IF j.k = "read" THEN "write" ELSE "done" IN
       IF j.by = "kern"
       THEN /\ kern' = [kern EXCEPT !.st = next]
            /\ bench' = IF next = "write" THEN Requested(bn, "write", j.b, "host", "kern") ELSE bn
            /\ pipe' = IF next = "done" /\ kern.design = "irq" THEN Emit(pipe, Msg("IRQ", NoBuf)) ELSE pipe
       ELSE bench' = bn /\ UNCHANGED <<kern, pipe>>
  /\ UNCHANGED <<main, helper, q, prog, simt, outt, cause>>

\* run_sq_rd_recv: a read of the design first asks the program for the data
KernRead ==
  /\ Steps /\ kern.st = "start"
  /\ kern' = [kern EXCEPT !.st = "sync"]
  /\ pipe' = Emit(pipe, Msg("HOST_READ", kern.b))
  /\ UNCHANGED <<main, helper, q, prog, simt, outt, bench, cause>>

\* The end of input.bin, and after ten cycles the end of the simulation
EndOfInput ==
  /\ Steps
  /\ \/ /\ bench.st = "run" /\ pipe.in = <<>> /\ pipe.inEnd = "closed"
        /\ bench' = [bench EXCEPT !.st = "ending"]
     \/ bench.st = "ending" /\ Gone
  /\ UNCHANGED <<main, helper, q, prog, pipe, simt, outt, kern, cause>>

MainStep ==
  \/ MakePipes \/ OpenProject \/ CompileProject \/ Return
  \/ Allocate \/ Free \/ Store \/ InvokeOne \/ InvokeTransfer \/ InvokeSync
  \/ CheckCompleted \/ ClearCompleted \/ SetCSR \/ GetCSR \/ SeeIrq \/ Unsupported
  \/ Destroy \/ JoinSim \/ JoinOut
HelperStep == WriteData \/ OpenInput \/ HelperWaits
OutStep == OpenOutput \/ ReadMessage \/ HostWrite \/ HostReadCheck \/ SyncMem \/ EndOfOutput

Next ==
  \/ MainStep \/ HelperStep \/ RunSimulation \/ OutStep
  \/ Unblock \/ OpenGen \/ RunGen \/ RunCtrl \/ RunRead \/ RunWrite \/ RunAck \/ KernRead \/ EndOfInput
  \/ Again \/ VivadoDies \/ BenchFails

(***************************************************************************)
(* Every thread of the process and every process of the test bench goes on *)
(* while it can; Again, VivadoDies and BenchFails need not happen.         *)
(***************************************************************************)
Fairness ==
  /\ WF_vars(MainStep) /\ WF_vars(HelperStep) /\ WF_vars(RunSimulation) /\ WF_vars(OutStep)
  /\ WF_vars(Unblock) /\ WF_vars(OpenGen) /\ WF_vars(RunGen) /\ WF_vars(RunCtrl) /\ WF_vars(RunRead)
  /\ WF_vars(RunWrite) /\ WF_vars(RunAck) /\ WF_vars(KernRead) /\ WF_vars(EndOfInput)

Spec == Init /\ [][Next]_vars /\ Fairness

(***************************************************************************)
(* Properties                                                              *)
(***************************************************************************)
\* A copy that is used is current.  A buffer that the program may touch, because
\* checkCompleted, getCSR, the interrupt handler or the return of invoke told it so,
\* holds the last data written to it by the program or the design, in host memory or
\* after an offload in card memory; and the data a pending read of the design takes
\* from the memory mock are not older than the request.
TransfersAreCurrent ==
  /\ \A b \in prog.mapped :
       prog.busy[b] = "no" /\ main.op.b # b /\ bench.st = "run" =>
         IF prog.place[b] = "host" THEN prog.mem[b] ELSE bench.card[b]
  /\ \A j \in bench.jobs : j.k = "read" => IF j.s = "host" THEN bench.mock[j.b] ELSE bench.card[j.b]

\* For a program free of races the process ends abnormally (terminate, SIGPIPE, an access
\* outside the mapped pages) only after a failure outside the target or one of the calls it
\* does not support, a design that interrupts a program without a registered handler, an
\* allocation during a transfer, or a second cThread; and no answer waits in a queue
\* between two operations, so that an operation gets its own.
TerminatesForACause ==
  /\ main.at = "dead" => cause # "none"
  /\ main.at = "run" => q.csr = <<>> /\ q.cmp = <<>> /\ helper = <<>>

\* output.bin and input.bin are both full, and out_thread waits to answer a read of the design
Jam == outt.at = "syncMem" /\ Len(pipe.in) = InCap /\ pipe.pend # <<>>

\* The program waits, outside any operation, for an interrupt of a simulation that has ended
Deaf == main.at = "run" /\ AwaitsIrq /\ Outstanding("kern") /\ bench.st = "gone"

\* Every program that waits for its transfers and then destroys its cThread comes to an end,
\* also when the simulation fails, unless Vivado itself dies, both pipes are full at once, or
\* the program waits for an interrupt in its own code and so does not see the failure.
ProgramsEnd == <>(main.at \in {"done", "dead"} \/ Jam \/ Deaf \/ cause = "vivado")

=============================================================================
