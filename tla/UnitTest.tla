----------------------------- MODULE UnitTest -----------------------------
(***************************************************************************)
(* The Python unit tests of a design (sim/unit_test): the test itself, the *)
(* threads that write and read the named pipes of the simulation, the      *)
(* thread that drives Vivado over a pseudo terminal, Vivado, and the test  *)
(* bench with the design under test (sim/hw).                              *)
(*                                                                         *)
(* The tests of a suite run one after the other, each with its own pipes   *)
(* and threads; Vivado, and what its runner remembers of it, is shared by  *)
(* all of them.  A test sends one input and expects some outputs, as in    *)
(* the framework's README: arrange, simulate_fpga,                         *)
(* assert_simulation_output.                                               *)
(***************************************************************************)
EXTENDS Integers, Sequences, FiniteSets

CONSTANTS
  Suites,      \* suites of tests: the design (the latest modification time of its
               \* files, its vfpga_top file) of each test, and the one compiled last
  None,        \* not a design
  InLen,       \* bytes of a test's input
  Outs,        \* kinds of test: the len and last of each expected output
  PIPE         \* messages a pipe takes before its writer has to wait

VARIABLES
  suite,       \* the suite
  test,        \* the test that runs
  pc,          \* per thread, where it is
  stop,        \* stop_event of each SafeThread
  errors,      \* exception_queue of each SafeThread: how many it holds
  finished,    \* _simulation_finished of the test
  input,       \* input_queue and input_done_event
  output,      \* the output pipe, csr_output_queue, check_completed_output_queue
  allocations, \* memory of the I/O writer: vaddr -> bytes
  expected,    \* _expected_output: vaddr, len and last of each
  verdict,     \* "none" while nothing was raised, then "pass" or "fail"
  todo,        \* commands the simulation thread has still to run
  vivado,      \* the Vivado process, its terminal, and what the runner knows of it
  tb,          \* the simulation: generator, host memory, design under test
  cause        \* what happened in this test that makes it fail

vars == <<suite, test, pc, stop, errors, finished, input, output, allocations,
          expected, verdict, todo, vivado, tb, cause>>

\* Bytes of memory: not written, input, output as the test expects it, other output.
Zero == 0
InByte == 1
OutByte == 2
WrongByte == 3
Bytes(n, b) == [i \in 1..n |-> b]
----------------------------------------------------------------------------
(***************************************************************************)
(* Allocations of simulation memory                                        *)
(***************************************************************************)
Largest(S) == CHOOSE x \in S : \A y \in S : y <= x

\* The allocation that contains vaddr or ends just before it, or -1.
ContainingOrNeighboring(a, vaddr) ==
  LET below == {x \in DOMAIN a : x <= vaddr}
  IN  IF below # {} /\ vaddr <= Largest(below) + Len(a[Largest(below)])
        THEN Largest(below) ELSE -1

\* The allocation that contains the size bytes from vaddr on, or -1.
ContainingAllocation(a, vaddr, size) ==
  LET x == ContainingOrNeighboring(a, vaddr)
  IN  IF x >= 0 /\ x + Len(a[x]) - 1 >= vaddr + size - 1 THEN x ELSE -1

\* Extends the allocation that vaddr is in or next to, or adds one.
AddMemoryAllocation(a, vaddr, size) ==
  LET x == ContainingOrNeighboring(a, vaddr)
  IN  IF x = -1
        THEN [y \in DOMAIN a \union {vaddr} |->
                IF y = vaddr THEN Bytes(size, Zero) ELSE a[y]]
        ELSE [a EXCEPT ![x] = @ \o Bytes(vaddr + size - x - Len(@), Zero)]

NextFreeAddress(a) ==
  IF DOMAIN a = {} THEN 0 ELSE Largest(DOMAIN a) + Len(a[Largest(DOMAIN a)])

\* The allocations with data at vaddr; one of them contains it.
Store(a, vaddr, data) ==
  LET x == ContainingAllocation(a, vaddr, Len(data))
  IN  [a EXCEPT ![x] = [i \in DOMAIN @ |->
         IF x + i - 1 \in vaddr..(vaddr + Len(data) - 1)
           THEN data[x + i - vaddr] ELSE @[i]]]

\* The size bytes from vaddr on; an allocation contains them.
read_from_sim_memory(a, vaddr, size) ==
  LET x == ContainingAllocation(a, vaddr, size)
  IN  SubSeq(a[x], vaddr - x + 1, vaddr - x + size)
----------------------------------------------------------------------------
(***************************************************************************)
(* Calls of the I/O writer before the simulation: s.a are its allocations, *)
(* s.q its input queue                                                     *)
(***************************************************************************)
Msg(op, vaddr, len, last) == [op |-> op, vaddr |-> vaddr, len |-> len, last |-> last]

WriteInput(s, m) == [s EXCEPT !.q = Append(@, m)]

\* At least one byte is allocated.
allocate_sim_memory(s, vaddr, size) ==
  LET n == IF size = 0 THEN 1 ELSE size
  IN  [WriteInput(s, Msg("map", vaddr, n, FALSE)) EXCEPT
         !.a = AddMemoryAllocation(@, vaddr, n)]

write_to_sim_memory(s, vaddr, data) ==
  [WriteInput(s, Msg("write", vaddr, Len(data), FALSE)) EXCEPT
     !.a = Store(@, vaddr, data)]

ctrl_write(s) == WriteInput(s, Msg("csr", 0, 0, FALSE))

allocate_next_free_sim_memory(s, len) == allocate_sim_memory(s, NextFreeAddress(s.a), len)

allocate_and_write_to_next_free_sim_memory(s, data) ==
  write_to_sim_memory(allocate_next_free_sim_memory(s, Len(data)), NextFreeAddress(s.a), data)

\* The memory is allocated, as _memory_is_allocated asserts.
invoke_transfer(s, op, vaddr, len, last) == WriteInput(s, Msg(op, vaddr, len, last))

\* Memory for the input, the input in it, and a LOCAL_READ of it.
set_stream_input(s, len) ==
  invoke_transfer(allocate_and_write_to_next_free_sim_memory(s, Bytes(len, InByte)),
                  "read", NextFreeAddress(s.a), len, TRUE)

set_expected_data_at_memory_location(s, e) == [s EXCEPT !.e = Append(@, e)]

ExpectedOutput(vaddr, o) == [vaddr |-> vaddr, len |-> o.len, last |-> o.last]

\* Memory for the output, a LOCAL_WRITE to it, and what is expected of it.
set_expected_output(s, o) ==
  LET v == NextFreeAddress(s.a)
      t == invoke_transfer(allocate_next_free_sim_memory(s, o.len), "out", v, o.len, o.last)
  IN  set_expected_data_at_memory_location(t, ExpectedOutput(v, o))

\* A test writes a register, sets its input and its expected outputs.
Arranged(outs) ==
  LET s0 == ctrl_write([a |-> <<>>, q |-> <<>>, e |-> <<>>])
      set[n \in 0..Len(outs)] ==
        IF n = 0 THEN set_stream_input(s0, InLen)
        ELSE set_expected_output(set[n - 1], outs[n])
  IN  set[Len(outs)]

\* _expected_completed_write_transfers, and a variant that is one short.
ExpectedCompletedBug == Cardinality({i \in DOMAIN expected : expected[i].last}) - 1
ExpectedCompleted == Cardinality({i \in DOMAIN expected : expected[i].last})
----------------------------------------------------------------------------
(***************************************************************************)
(* Starting state                                                          *)
(***************************************************************************)
\* No simulation.  st: "none", "loaded", "open" (in
\* open_pipe_for_non_blocking_reads), "run", "eof" (the input was closed),
\* "over".  in: the input pipe; poll: completions the generator waits for;
\* mem: addresses with input; reads: LOCAL_READs not done; fed: whether the design
\* got its input, and with the register set; wr: LOCAL_WRITEs not done.
NoTb == [st |-> "none", test |-> 0, in |-> <<>>, poll |-> 0, csr |-> 0,
         segs |-> {}, mem |-> {}, reads |-> <<>>, fed |-> "no", wr |-> <<>>,
         completed |-> 0, irq |-> FALSE]

\* tty: commands Vivado has not run yet; out: results the runner has not read;
\* info: the design of the compile check file; fatal: there is a fatal error in
\* log_buffer; logs: the logger writes to it; behind: some simulation thread was
\* stopped.
NoVivado(d) == [alive |-> FALSE, open |-> FALSE, tty |-> <<>>, out |-> <<>>,
                snapshot |-> d, info |-> d, fatal |-> FALSE, logs |-> TRUE,
                behind |-> FALSE]

design == suite.tests[test]

Threads == {"input", "output", "sim"}
FirstPc == [main |-> "arrange", input |-> "open", output |-> "read", sim |-> "none"]
NoInput == [queue |-> <<>>, done |-> FALSE]
NoOutput == [pipe |-> <<>>, csrs |-> <<>>, counts |-> <<>>]

Init ==
  /\ suite \in Suites /\ test = 1 /\ pc = FirstPc
  /\ stop = [t \in Threads |-> FALSE] /\ errors = [t \in Threads |-> 0]
  /\ finished = FALSE /\ input = NoInput /\ output = NoOutput
  /\ allocations = <<>> /\ expected = <<>> /\ verdict = "none" /\ todo = <<>>
  /\ vivado = NoVivado(suite.compiled) /\ tb = NoTb /\ cause = {}

\* The next test: an I/O writer with new pipes, queues and threads.  A fatal error
\* that is in the log already makes it fail.  Bound: after a test whose simulation
\* thread was stopped, Vivado may be out of step with the runner, and nothing is
\* claimed of the tests that follow.
setUp ==
  /\ pc.main = "ended" /\ test < Len(suite.tests) /\ ~vivado.behind
  /\ test' = test + 1 /\ pc' = FirstPc
  /\ stop' = [t \in Threads |-> FALSE] /\ errors' = [t \in Threads |-> 0]
  /\ finished' = FALSE /\ input' = NoInput /\ output' = NoOutput
  /\ allocations' = <<>> /\ expected' = <<>> /\ verdict' = "none" /\ todo' = <<>>
  /\ cause' = IF vivado.fatal THEN {"earlier"} ELSE {}
  /\ UNCHANGED <<suite, vivado, tb>>
----------------------------------------------------------------------------
(***************************************************************************)
(* The test                                                                *)
(***************************************************************************)
\* The rest of the run of the test after an exception: tearDown.
Raise == pc' = [pc EXCEPT !.main = "tearDown"] /\ verdict' = "fail"
Goto(where) == pc' = [pc EXCEPT !.main = where] /\ UNCHANGED verdict

\* Register, input and outputs.  simulate_fpga waits for the outputs that are
\* marked as last only.
arrange ==
  /\ pc.main = "arrange"
  /\ \E outs \in Outs :
       LET s == Arranged(outs)
       IN  /\ allocations' = s.a /\ expected' = s.e
           /\ input' = [input EXCEPT !.queue = s.q]
           /\ cause' = cause \union
                (IF \E i \in DOMAIN outs : ~outs[i].last THEN {"unwaited"} ELSE {})
  /\ Goto("simulate")
  /\ UNCHANGED <<suite, test, stop, errors, finished, output, todo, vivado, tb>>

\* Starts the simulation thread, and reads the register back.
simulate_fpga_non_blocking ==
  /\ pc.main = "simulate"
  /\ pc' = [pc EXCEPT !.main = "ctrl_read", !.sim = "start"]
  /\ input' = [input EXCEPT !.queue = Append(@, Msg("get", 0, 0, FALSE))]
  /\ UNCHANGED <<suite, test, stop, errors, finished, output, allocations, expected,
                 verdict, todo, vivado, tb, cause>>

\* _try_dequeue_till_stop with the finished event of the simulation: while the
\* simulation thread runs, or just before it ended, it returns an element.  A variant
\* that is not cancelled.
CancelledBug == FALSE
Cancelled == pc.sim = "ended"

\* CHECK_COMPLETION is sent, if there is an output to wait for.
WaitForOutputs ==
  /\ Goto("block")
  /\ input' = [input EXCEPT !.queue = IF ExpectedCompleted > 0
                 THEN Append(@, Msg("check", 0, ExpectedCompleted, FALSE)) ELSE @]

ctrl_read ==
  /\ pc.main = "ctrl_read"
  /\ \/ /\ output.csrs # <<>>
        /\ output' = [output EXCEPT !.csrs = Tail(@)]
        /\ IF Head(output.csrs) # 1 THEN Raise /\ UNCHANGED input ELSE WaitForOutputs
     \/ Cancelled /\ WaitForOutputs /\ UNCHANGED output
  /\ UNCHANGED <<suite, test, stop, errors, finished, allocations, expected, todo,
                 vivado, tb, cause>>

block_till_completed ==
  /\ pc.main = "block"
  /\ \/ /\ output.counts # <<>>
        /\ output' = [output EXCEPT !.counts = Tail(@)]
        /\ IF Head(output.counts) < ExpectedCompleted THEN Raise ELSE Goto("done")
     \/ (Cancelled \/ ExpectedCompleted = 0) /\ Goto("done") /\ UNCHANGED output
  /\ UNCHANGED <<suite, test, stop, errors, finished, input, allocations, expected,
                 todo, vivado, tb, cause>>

all_input_done ==
  /\ pc.main = "done"
  /\ input' = [input EXCEPT !.done = TRUE]
  /\ Goto("join")
  /\ UNCHANGED <<suite, test, stop, errors, finished, output, allocations, expected,
                 todo, vivado, tb, cause>>

\* join_blocking of the simulation thread; its exception, if one is there, is
\* fetched in a step of its own.
finish_fpga_simulation ==
  /\ pc.main = "join" /\ pc.sim = "ended"
  /\ IF errors["sim"] > 0 THEN Goto("get") /\ UNCHANGED finished
                          ELSE Goto("assert") /\ finished' = TRUE
  /\ UNCHANGED <<suite, test, stop, errors, input, output, allocations, expected, todo,
                 vivado, tb, cause>>

raise_exception ==
  /\ pc.main = "get" /\ errors["sim"] > 0
  /\ errors' = [errors EXCEPT !["sim"] = @ - 1]
  /\ Raise
  /\ UNCHANGED <<suite, test, stop, finished, input, output, allocations, expected,
                 todo, vivado, tb, cause>>

Matches(e) == read_from_sim_memory(allocations, e.vaddr, e.len) = Bytes(e.len, OutByte)

assert_simulation_output ==
  /\ pc.main = "assert"
  /\ IF \A i \in DOMAIN expected : Matches(expected[i]) THEN Goto("tearDown") ELSE Raise
  /\ UNCHANGED <<suite, test, stop, errors, finished, input, output, allocations,
                 expected, todo, vivado, tb, cause>>

\* terminate_and_join: asks the thread to stop; the caller joins it next.
AskToStop(t) == stop' = [stop EXCEPT ![t] = TRUE]

\* terminate_io_threads: the input thread, and if it did not fail the output thread.
tearDown ==
  /\ \/ pc.main = "tearDown"
        /\ AskToStop("input")
        /\ pc' = [pc EXCEPT !.main = "input"] /\ UNCHANGED verdict
     \/ /\ pc.main = "input" /\ pc.input = "ended"
        /\ IF errors["input"] > 0
             THEN /\ pc' = [pc EXCEPT !.main = "ended"] /\ verdict' = "fail"
                  /\ UNCHANGED stop
             ELSE /\ pc' = [pc EXCEPT !.main = "output"] /\ UNCHANGED verdict
                  /\ AskToStop("output")
     \/ /\ pc.main = "output" /\ pc.output = "ended"
        /\ pc' = [pc EXCEPT !.main = "ended"]
        /\ verdict' = IF errors["output"] > 0 \/ verdict = "fail" THEN "fail" ELSE "pass"
        /\ UNCHANGED stop
  /\ UNCHANGED <<suite, test, errors, finished, input, output, allocations, expected,
                 todo, vivado, tb, cause>>
----------------------------------------------------------------------------
(***************************************************************************)
(* The I/O threads                                                         *)
(***************************************************************************)
\* The thread's exception is kept for who joins it, and _handle_io_error is called.
Fail(t) == /\ errors' = [errors EXCEPT ![t] = @ + 1]
           /\ pc' = [pc EXCEPT ![t] = "callback"]

\* _handle_io_error: stops and joins a simulation that was started and not
\* finished.  What the join raises is dropped.
handle_io_error(t) ==
  /\ \/ /\ pc[t] = "callback"
        /\ IF pc.sim # "none" /\ ~finished
             THEN /\ AskToStop("sim")
                  /\ pc' = [pc EXCEPT ![t] = "join"]
             ELSE /\ pc' = [pc EXCEPT ![t] = "ended"] /\ UNCHANGED stop
        /\ UNCHANGED errors
     \/ /\ pc[t] = "join" /\ pc.sim = "ended"
        /\ pc' = [pc EXCEPT ![t] = IF errors["sim"] > 0 THEN "get" ELSE "ended"]
        /\ UNCHANGED <<stop, errors>>
     \/ /\ pc[t] = "get" /\ errors["sim"] > 0
        /\ errors' = [errors EXCEPT !["sim"] = @ - 1]
        /\ pc' = [pc EXCEPT ![t] = "ended"] /\ UNCHANGED stop
  /\ UNCHANGED <<suite, test, finished, input, output, allocations, expected, verdict,
                 todo, vivado, tb, cause>>

\* The generator has the input pipe of this test open.
ReaderIsThere == tb.test = test /\ tb.st \in {"open", "run", "eof", "over"}

\* _open_pipe_none_blocking: succeeds once the generator opened the other end.
open_input ==
  /\ pc.input = "open"
  /\ \/ stop["input"] /\ pc' = [pc EXCEPT !.input = "ended"]
     \/ ~stop["input"] /\ ReaderIsThere /\ pc' = [pc EXCEPT !.input = "loop"]
  /\ UNCHANGED <<suite, test, stop, errors, finished, input, output, allocations,
                 expected, verdict, todo, vivado, tb, cause>>

\* The loop of _write_simulation_input, with flush_elem of the element it takes:
\* tried again while the pipe is full; a pipe nobody reads any more raises.  With the
\* done event the queue is drained and the pipe closed.
write_simulation_input ==
  /\ pc.input = "loop"
  /\ IF stop["input"] \/ (input.done /\ input.queue = <<>>)
       THEN pc' = [pc EXCEPT !.input = "ended"] /\ UNCHANGED <<errors, input, tb>>
     ELSE /\ input.queue # <<>>
          /\ input' = [input EXCEPT !.queue = Tail(@)]
          /\ IF ~ReaderIsThere THEN Fail("input") /\ UNCHANGED tb
             ELSE /\ Len(tb.in) < PIPE
                  /\ tb' = [tb EXCEPT !.in = Append(@, Head(input.queue))]
                  /\ UNCHANGED <<pc, errors>>
  /\ UNCHANGED <<suite, test, stop, finished, output, allocations, expected, verdict,
                 todo, vivado, cause>>

\* A whole message can be read: the scoreboard flushes whole messages.
MessageIsThere == output.pipe # <<>>
Rest == [output EXCEPT !.pipe = Tail(@)]

read_get_csr_output(m) ==
  /\ output' = [Rest EXCEPT !.csrs = Append(@, m.value)]
  /\ UNCHANGED <<pc, errors, allocations, cause>>

\* Data for memory that is not allocated raises.
read_host_write_output(m) ==
  /\ output' = Rest
  /\ IF ContainingAllocation(allocations, m.vaddr, 1) = -1
       THEN Fail("output") /\ UNCHANGED allocations
       ELSE /\ allocations' = Store(allocations, m.vaddr, <<m.value>>)
            /\ UNCHANGED <<pc, errors>>
  /\ UNCHANGED cause

\* The test's interrupt handler returns, or raises.
read_interrupt_output ==
  /\ output' = Rest
  /\ \/ UNCHANGED <<pc, errors, cause>>
     \/ Fail("output") /\ cause' = cause \union {"handler"}
  /\ UNCHANGED allocations

read_check_completed_output(m) ==
  /\ output' = [Rest EXCEPT !.counts = Append(@, m.value)]
  /\ UNCHANGED <<pc, errors, allocations, cause>>

read_simulation_output ==
  /\ pc.output = "read"
  /\ \/ /\ stop["output"] /\ pc' = [pc EXCEPT !.output = "ended"]
        /\ UNCHANGED <<errors, output, allocations, cause>>
     \/ /\ ~stop["output"] /\ MessageIsThere
        /\ LET m == Head(output.pipe)
           IN  \/ m.op = "GET_CSR" /\ read_get_csr_output(m)
               \/ m.op = "HOST_WRITE" /\ read_host_write_output(m)
               \/ m.op = "IRQ" /\ read_interrupt_output
               \/ m.op = "CHECK_COMPLETED" /\ read_check_completed_output(m)
  /\ UNCHANGED <<suite, test, stop, finished, input, expected, verdict, todo, vivado, tb>>
----------------------------------------------------------------------------
(***************************************************************************)
(* The simulation thread: VivadoRunner.run_simulation                      *)
(***************************************************************************)
Cmd(name) == [name |-> name, design |-> design]

\* _ensure_initialized_state: Vivado is started, and prints its first prompt.
EnsureInitialized ==
  IF vivado.alive THEN vivado
  ELSE [vivado EXCEPT !.alive = TRUE, !.open = FALSE, !.fatal = FALSE, !.tty = <<>>,
                      !.out = <<"0">>]

\* requires_recompilation: a file was changed later, or another vfpga_top file is used.
\* A variant that only asks for the time.
RequiresRecompilationBug == vivado.info.time < design.time
RequiresRecompilation ==
  vivado.info.time < design.time \/ vivado.info.vfpga_top # design.vfpga_top

\* The project is opened, the design compiled unless it is the one compiled last,
\* and the simulation launched, run and closed.
run_simulation ==
  /\ pc.sim = "start"
  /\ vivado' = EnsureInitialized
  /\ todo' = (IF vivado'.open THEN <<>> ELSE <<Cmd("open")>>)
             \o (IF RequiresRecompilation THEN <<Cmd("compile")>> ELSE <<>>)
             \o <<Cmd("launch"), Cmd("run"), Cmd("close")>>
  /\ pc' = [pc EXCEPT !.sim = IF vivado'.open THEN "send" ELSE "ready"]
  /\ UNCHANGED <<suite, test, stop, errors, finished, input, output, allocations,
                 expected, verdict, tb, cause>>

\* _open_project waits for the first prompt.
wait_first_prompt ==
  /\ pc.sim = "ready"
  /\ IF stop["sim"] THEN UNCHANGED vivado
     ELSE vivado.out # <<>> /\ vivado' = [vivado EXCEPT !.out = Tail(@)]
  /\ pc' = [pc EXCEPT !.sim = "send"]
  /\ UNCHANGED <<suite, test, stop, errors, finished, input, output, allocations,
                 expected, verdict, todo, tb, cause>>

\* A fatal error in the log fails the simulation although the commands did not.
fatal_errors_in_log == vivado.fatal

\* The exception of _run_simulation of the test case.
Ends(success) ==
  /\ errors' = [errors EXCEPT !["sim"] = IF success THEN 0 ELSE 1]
  /\ pc' = [pc EXCEPT !.sim = "ended"]

\* run_in_vivado sends the next command.  After the last one the log is searched for
\* fatal errors.
run_in_vivado ==
  /\ pc.sim = "send"
  /\ IF todo # <<>>
       THEN /\ vivado' = [vivado EXCEPT !.tty = Append(@, Head(todo))]
            /\ pc' = [pc EXCEPT !.sim = "wait"] /\ UNCHANGED errors
       ELSE /\ Ends(~fatal_errors_in_log)
            /\ vivado' = [vivado EXCEPT !.behind = @ \/ stop["sim"]]
  /\ UNCHANGED <<suite, test, stop, finished, input, output, allocations, expected,
                 verdict, todo, tb, cause>>

\* run_command was successful.
Done(v) == CASE Head(todo).name = "open"    -> [v EXCEPT !.open = TRUE]
             [] Head(todo).name = "compile" -> [v EXCEPT !.info = Head(todo).design]
             [] OTHER                       -> v

\* Reads the result of the command.  Once the thread is asked to stop it does not
\* wait: what it takes for the result is what it has read of it.
run_command ==
  /\ pc.sim = "wait"
  /\ \E r \in {"0", "1"} :
       /\ \/ /\ ~stop["sim"] /\ vivado.out # <<>> /\ r = Head(vivado.out)
             /\ LET v == [vivado EXCEPT !.out = Tail(@)]
                IN  vivado' = IF r = "0" THEN Done(v) ELSE v
          \/ stop["sim"] /\ vivado' = IF r = "0" THEN Done(vivado) ELSE vivado
       /\ IF r = "0" THEN todo' = Tail(todo) /\ pc' = [pc EXCEPT !.sim = "send"]
                     ELSE todo' = todo /\ pc' = [pc EXCEPT !.sim = "puts"]
  /\ UNCHANGED <<suite, test, stop, errors, finished, input, output, allocations,
                 expected, verdict, tb, cause>>

\* terminate_vivado.  The logger keeps writing to the log of the first Vivado.
Terminated(v) == [v EXCEPT !.alive = FALSE, !.logs = FALSE, !.tty = <<>>, !.out = <<>>,
                           !.behind = TRUE]

\* A command failed: its error is printed, and Vivado terminated if the thread is
\* asked to stop.
run_till_failure_or_stopped ==
  /\ \/ /\ pc.sim = "puts"
        /\ vivado' = [vivado EXCEPT !.tty = Append(@, Cmd("puts"))]
        /\ pc' = [pc EXCEPT !.sim = "failed"] /\ UNCHANGED <<errors, todo, tb>>
     \/ /\ pc.sim = "failed"
        /\ \/ /\ ~stop["sim"] /\ vivado.out # <<>>
              /\ vivado' = [vivado EXCEPT !.out = Tail(@)] /\ UNCHANGED tb
           \/ stop["sim"] /\ vivado' = Terminated(vivado) /\ tb' = NoTb
        /\ Ends(FALSE) /\ todo' = <<>>
  /\ UNCHANGED <<suite, test, stop, finished, input, output, allocations, expected,
                 verdict, cause>>
----------------------------------------------------------------------------
(***************************************************************************)
(* Vivado                                                                  *)
(***************************************************************************)
\* The command at the head of the terminal ends with a result.
Result(v, r) == [v EXCEPT !.tty = Tail(@), !.out = Append(@, r)]

\* The command is executed, and it is not the one that runs the simulation.  A failed
\* compilation may lose the snapshot of the last one.
VivadoExecutes ==
  /\ vivado.alive /\ vivado.tty # <<>>
  /\ LET c == Head(vivado.tty)
     IN  \/ /\ c.name \in {"open", "puts"}
            /\ vivado' = Result(vivado, "0") /\ UNCHANGED <<tb, cause>>
         \/ /\ c.name = "compile"
            /\ vivado' = Result([vivado EXCEPT !.snapshot = c.design], "0")
            /\ UNCHANGED <<tb, cause>>
         \/ /\ c.name = "launch"
            /\ IF vivado.snapshot = None
                 THEN /\ vivado' = Result(vivado, "1") /\ UNCHANGED tb
                      /\ cause' = cause \union {"lost"}
                 ELSE /\ vivado' = Result(vivado, "0")
                      /\ tb' = [NoTb EXCEPT !.st = "loaded"]
                      /\ cause' = IF vivado.snapshot # c.design
                                    THEN cause \union {"stale"} ELSE cause
         \/ /\ c.name = "run" /\ tb.st \in {"none", "over"}
            /\ vivado' = Result(vivado, IF tb.st = "over" THEN "0" ELSE "1")
            /\ UNCHANGED <<tb, cause>>
         \/ /\ c.name = "close"
            /\ vivado' = Result(vivado, IF tb.st = "none" THEN "1" ELSE "0")
            /\ tb' = NoTb /\ UNCHANGED cause
  /\ UNCHANGED <<suite, test, pc, stop, errors, finished, input, output, allocations,
                 expected, verdict, todo>>

VivadoFails ==
  /\ vivado.alive /\ vivado.tty # <<>>
  /\ Head(vivado.tty).name \in {"open", "compile"}
  /\ \E s \in {vivado.snapshot, None} :
       /\ Head(vivado.tty).name = "open" => s = vivado.snapshot
       /\ vivado' = Result([vivado EXCEPT !.snapshot = s], "1")
  /\ cause' = cause \union {Head(vivado.tty).name}
  /\ UNCHANGED <<suite, test, pc, stop, errors, finished, input, output, allocations,
                 expected, verdict, todo, tb>>
----------------------------------------------------------------------------
(***************************************************************************)
(* The test bench                                                          *)
(***************************************************************************)
Running == tb.st \in {"run", "eof"}

\* The scoreboard writes a message to the output pipe, which has room for it; the
\* message of a simulation whose pipe nobody reads is lost.
Heard == tb.test = test /\ pc.output = "read"
Room == Heard => Len(output.pipe) < PIPE
Write(m) == output' = IF Heard THEN [output EXCEPT !.pipe = Append(@, m)] ELSE output
Out(op, vaddr, value) == [op |-> op, vaddr |-> vaddr, value |-> value]

\* The simulation ends; a fatal error is in Vivado's output.
Over(fatal) ==
  /\ tb' = [NoTb EXCEPT !.st = "over", !.test = tb.test]
  /\ vivado' = [vivado EXCEPT !.fatal = @ \/ (fatal /\ vivado.logs)]

\* The generator opens the input pipe, or finds that there is none.
OpenPipe ==
  /\ vivado.alive /\ vivado.tty # <<>> /\ Head(vivado.tty).name = "run"
  /\ tb.st = "loaded"
  /\ tb' = [tb EXCEPT !.st = IF pc.input = "ended" THEN "over" ELSE "open", !.test = test]
  /\ UNCHANGED <<suite, test, pc, stop, errors, finished, input, output, allocations,
                 expected, verdict, todo, vivado, cause>>

\* The writer of the input pipe.
WriterIsThere == tb.test = test /\ pc.input = "loop"

\* The poll of open_pipe_for_non_blocking_reads returns: there is input.
StartGen ==
  /\ tb.st = "open" /\ tb.in # <<>>
  /\ tb' = [tb EXCEPT !.st = "run"]
  /\ UNCHANGED <<suite, test, pc, stop, errors, finished, input, output, allocations,
                 expected, verdict, todo, vivado, cause>>

\* The segment of host memory that holds the len bytes from vaddr on.
HasSegment(vaddr, len) ==
  \E g \in tb.segs : g.vaddr <= vaddr /\ g.vaddr + g.size >= vaddr + len

Overlaps(vaddr, size) ==
  \E g \in tb.segs : vaddr < g.vaddr + g.size /\ vaddr + size > g.vaddr

\* run_gen: one message of the input pipe.
RunGen ==
  /\ tb.st = "run" /\ tb.poll = 0 /\ tb.in # <<>>
  /\ LET m == Head(tb.in)
         t == [tb EXCEPT !.in = Tail(@)]
     IN  \/ /\ m.op = "csr" /\ tb' = [t EXCEPT !.csr = 1] /\ UNCHANGED <<output, vivado>>
         \/ /\ m.op = "get" /\ Room /\ Write(Out("GET_CSR", 0, tb.csr))
            /\ tb' = t /\ UNCHANGED vivado
         \/ /\ m.op = "map" /\ UNCHANGED output
            /\ IF Overlaps(m.vaddr, m.len) THEN Over(TRUE)
               ELSE /\ tb' = [t EXCEPT !.segs = @ \union {[vaddr |-> m.vaddr, size |-> m.len]}]
                    /\ UNCHANGED vivado
         \/ /\ m.op = "write" /\ UNCHANGED output
            /\ IF ~HasSegment(m.vaddr, 1) THEN Over(TRUE)
               ELSE /\ tb' = [t EXCEPT !.mem = @ \union m.vaddr..(m.vaddr + m.len - 1)]
                    /\ UNCHANGED vivado
         \/ /\ m.op = "read" /\ tb' = [t EXCEPT !.reads = Append(@, m)]
            /\ UNCHANGED <<output, vivado>>
         \/ /\ m.op = "out"
            /\ tb' = [t EXCEPT !.wr = Append(@, [vaddr |-> m.vaddr, len |-> m.len,
                                                 last |-> m.last, n |-> 0])]
            /\ UNCHANGED <<output, vivado>>
         \/ /\ m.op = "check" /\ tb' = [t EXCEPT !.poll = m.len]
            /\ UNCHANGED <<output, vivado>>
  /\ UNCHANGED <<suite, test, pc, stop, errors, finished, input, allocations, expected,
                 verdict, todo, cause>>

\* CHECK_COMPLETED: the transfers the generator polls for are completed.
CheckCompleted ==
  /\ tb.st = "run" /\ tb.poll > 0 /\ tb.completed >= tb.poll /\ Room
  /\ Write(Out("CHECK_COMPLETED", 0, tb.completed))
  /\ tb' = [tb EXCEPT !.poll = 0]
  /\ UNCHANGED <<suite, test, pc, stop, errors, finished, input, allocations, expected,
                 verdict, todo, vivado, cause>>

\* The input was closed: the generator is done, and the simulation ends after some
\* more cycles.
CloseFile ==
  /\ \/ /\ tb.st = "run" /\ tb.poll = 0 /\ tb.in = <<>> /\ ~WriterIsThere
        /\ tb' = [tb EXCEPT !.st = "eof"] /\ UNCHANGED vivado
     \/ tb.st = "eof" /\ Over(FALSE)
  /\ UNCHANGED <<suite, test, pc, stop, errors, finished, input, output, allocations,
                 expected, verdict, todo, cause>>

\* run_read_queue: the next LOCAL_READ brings the memory to the design.
RunReadQueue ==
  /\ Running /\ tb.reads # <<>>
  /\ LET m == Head(tb.reads)
     IN  IF ~HasSegment(m.vaddr, m.len) THEN Over(TRUE)
         ELSE /\ tb' = [tb EXCEPT !.reads = Tail(@),
                          !.fed = IF tb.csr = 1 /\ m.vaddr..(m.vaddr + m.len - 1) \subseteq tb.mem
                                  THEN "right" ELSE "wrong"]
              /\ UNCHANGED vivado
  /\ UNCHANGED <<suite, test, pc, stop, errors, finished, input, output, allocations,
                 expected, verdict, todo, cause>>

\* run_write_queue: a beat of the design's output goes to the output pipe.  A
\* right design waits for its input; one that got the wrong input is not to blame.
RunWriteQueue ==
  /\ Running /\ tb.wr # <<>> /\ Head(tb.wr).n < Head(tb.wr).len
  /\ LET w == Head(tb.wr)
     IN  IF ~HasSegment(w.vaddr, w.len)
           THEN Over(TRUE) /\ UNCHANGED <<output, cause>>
           ELSE /\ Room /\ UNCHANGED vivado
                /\ \E b \in {WrongByte} \union (IF tb.fed = "right" THEN {OutByte} ELSE {}) :
                     /\ Write(Out("HOST_WRITE", w.vaddr + w.n, b))
                     /\ cause' = IF b = WrongByte /\ tb.fed # "wrong"
                                   THEN cause \union {"wrong"} ELSE cause
                /\ tb' = [tb EXCEPT !.wr = <<[w EXCEPT !.n = @ + 1]>> \o Tail(@)]
  /\ UNCHANGED <<suite, test, pc, stop, errors, finished, input, allocations, expected,
                 verdict, todo>>

\* Its last beat was written: run_ack counts the transfer if it is marked as last.
RunAck ==
  /\ Running /\ tb.wr # <<>> /\ Head(tb.wr).n = Head(tb.wr).len
  /\ tb' = [tb EXCEPT !.wr = Tail(@),
                      !.completed = IF Head(tb.wr).last THEN @ + 1 ELSE @]
  /\ UNCHANGED <<suite, test, pc, stop, errors, finished, input, output, allocations,
                 expected, verdict, todo, vivado, cause>>

\* The design raises its interrupt.
Interrupt ==
  /\ tb.st = "run" /\ ~tb.irq /\ Room
  /\ Write(Out("IRQ", 0, 0))
  /\ tb' = [tb EXCEPT !.irq = TRUE]
  /\ UNCHANGED <<suite, test, pc, stop, errors, finished, input, allocations, expected,
                 verdict, todo, vivado, cause>>

\* The simulation time is over.
TimeOver ==
  /\ tb.st = "run" /\ Over(FALSE)
  /\ cause' = cause \union {"time"}
  /\ UNCHANGED <<suite, test, pc, stop, errors, finished, input, output, allocations,
                 expected, verdict, todo>>

\* An assertion of the test bench about the design's streams fails.
Fatal ==
  /\ Running /\ Over(TRUE)
  /\ cause' = cause \union {"fatal"}
  /\ UNCHANGED <<suite, test, pc, stop, errors, finished, input, output, allocations,
                 expected, verdict, todo>>
----------------------------------------------------------------------------
(***************************************************************************)
(* The suite                                                               *)
(***************************************************************************)
Main == \/ setUp \/ arrange \/ simulate_fpga_non_blocking \/ ctrl_read
        \/ block_till_completed \/ all_input_done \/ finish_fpga_simulation
        \/ raise_exception \/ assert_simulation_output \/ tearDown

InputThread == open_input \/ write_simulation_input \/ handle_io_error("input")

OutputThread == read_simulation_output \/ handle_io_error("output")

SimThread == \/ run_simulation \/ wait_first_prompt \/ run_in_vivado \/ run_command
             \/ run_till_failure_or_stopped

\* What Vivado and the simulator do whatever the design does.
Simulator == \/ VivadoExecutes \/ OpenPipe \/ StartGen \/ RunGen \/ CheckCompleted
             \/ CloseFile \/ RunReadQueue \/ RunAck \/ TimeOver

\* What the design may do, and what may fail.
Environment == VivadoFails \/ RunWriteQueue \/ Interrupt \/ Fatal

Next == Main \/ InputThread \/ OutputThread \/ SimThread \/ Simulator \/ Environment

\* Threads of Python and the processes run; the simulation time passes.  Nothing is
\* assumed of the design.
Fairness == /\ WF_vars(Main) /\ WF_vars(InputThread) /\ WF_vars(OutputThread)
            /\ WF_vars(SimThread) /\ WF_vars(Simulator)

Spec == Init /\ [][Next]_vars /\ Fairness
----------------------------------------------------------------------------
(***************************************************************************)
(* Properties                                                              *)
(***************************************************************************)
\* A test passes only if the design it asked for was simulated, that design wrote no
\* wrong output, and no fatal error was reported (assert_simulation_output,
\* _fatal_errors_in_log, requires_recompilation); unless an earlier simulation thread
\* was stopped.
PassMeansRight ==
  verdict = "pass" /\ ~vivado.behind =>
    cause \intersect {"wrong", "fatal", "stale", "compile", "handler"} = {}

\* A test of a right design passes: a failure has a cause in the test, or a fatal
\* error in the log since an earlier test.  The outputs that were waited for are
\* in the memory when they are compared (block_till_completed).
FailureHasACause ==
  verdict = "fail" => cause # {} \/ vivado.behind

\* Every test ends, whatever the design and Vivado do, unless two threads fetch the one
\* exception of the simulation (join_blocking), an earlier simulation thread was
\* stopped, or Vivado could not open the project in an earlier test.
Stranded ==
  \/ errors["sim"] = 0 /\ \E t \in {"main", "input", "output"} : pc[t] = "get"
  \/ vivado.behind
  \/ vivado.alive /\ ~vivado.open /\ vivado.out = <<>> /\ pc.sim = "ready"
TestsEnd == (pc.main = "arrange") ~> (pc.main = "ended" \/ Stranded)
=============================================================================
