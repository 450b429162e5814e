------------------------------ MODULE CThread ------------------------------
(***************************************************************************)
(* The data path of a cThread (sw/src/cThread.cpp): the command registers  *)
(* and the command queue of the vFPGA, the completion counters and their   *)
(* write-back to host memory, the inter-process lock, the buffers, and the *)
(* out-of-band connection of two cThreads that exchange queue pairs and    *)
(* then run the RDMA benchmark of the examples.                            *)
(*                                                                         *)
(* A thread runs one of three programs.  "local" takes the lock, clears    *)
(* its counters, invokes LOCAL_TRANSFERs, polls, and releases the lock     *)
(* (what cSched does around a task); "client" and "server" are the two     *)
(* sides of examples/09_perf_rdma, or of the scatter baseline of examples  *)
(* 12 and 13, which copies what it received to several GPUs.  Threads of   *)
(* one vFPGA share its registers; client and server are on two nodes.      *)
(***************************************************************************)
EXTENDS Naturals, Sequences, FiniteSets

CONSTANTS
  Threads,     \* cThreads
  Vfpgas,      \* vFPGAs, of any node
  None,
  Scenarios,   \* which program each thread runs, and on what: see Scenario
  Transfers,   \* transfers a program posts in a run
  Runs,        \* runs of a program
  CMD_FIFO_DEPTH, CMD_FIFO_THR,
  NUM_GPUS,    \* GPUs of the scatter baseline
  MaxKills     \* processes that may be killed, or end with an exception of set-up

VARIABLES
  sc,          \* the scenario of this behaviour
  th,          \* per thread: the members of the cThread and its program counter
  hw,          \* per vFPGA: cnfg_slave, with its command queue
  wback,       \* the write-back region: per thread and kind, a counter
  vlock,       \* per vFPGA: the thread that holds the named mutex
  sock,        \* the out-of-band connection: words on their way to each thread
  net,         \* RDMA packets on their way to each thread's node
  landed,      \* per thread: writes that have landed in its buffer
  kills

vars == <<sc, th, hw, wback, vlock, sock, net, landed, kills>>

\* The four completion counters of a thread, N_WBACKS.
Kinds == {"rd", "wr", "rrd", "rwr"}

\* CoyoteOper, without the operations on card memory and TCP, which none of
\* these programs invokes; and which of them read and write local memory.
CoyoteOper == {"LOCAL_READ", "LOCAL_WRITE", "LOCAL_TRANSFER",
               "REMOTE_RDMA_READ", "REMOTE_RDMA_WRITE"}
isLocalRead(oper) == oper \in {"LOCAL_READ", "LOCAL_TRANSFER"}
isLocalWrite(oper) == oper \in {"LOCAL_WRITE", "LOCAL_TRANSFER"}
isRemoteRead(oper) == oper = "REMOTE_RDMA_READ"

\* The kinds of host memory; the first two come from malloc, the third from
\* mmap.
CoyoteAllocType == {"REG", "THP", "HPF"}

\* The shell's options that the thread asks for.
fpgaCnfg == [en_avx : BOOLEAN, en_wb : BOOLEAN]

\* Programs and placement, the shell, the buffers, and for the benchmark
\* whether it reads or writes, and whether it is the scatter baseline.
Scenario == [prog : [Threads -> {"local", "client", "server"}],
             at : [Threads -> Vfpgas],
             fcnfg : fpgaCnfg, write : BOOLEAN, scatter : BOOLEAN,
             alloc : CoyoteAllocType]

ASSUME ScenariosAssumption == Scenarios \subseteq Scenario
ASSUME BoundsAssumption == /\ Transfers \in Nat \ {0}
                           /\ Runs \in Nat \ {0}
                           /\ MaxKills \in Nat /\ NUM_GPUS \in Nat \ {0}
                           /\ CMD_FIFO_DEPTH \in Nat
                           /\ CMD_FIFO_THR \in 1..CMD_FIFO_DEPTH

\* The other end of a thread's out-of-band connection.
Peer(t) == CHOOSE u \in Threads : {sc.prog[t], sc.prog[u]} = {"client", "server"}

IsRdma(t) == sc.prog[t] # "local"

\* A control word: the thread that wrote it and what it asks for.  START is
\* set in both words of a transfer, and in the remote one of an RDMA command.
Ctl(t, k) == [t |-> t, k |-> k]
NoCtl == Ctl(None, "none")
CTRL_START(c) == c.k \in {"tr", "remote"}

\* What t's program invokes.
Oper(t) == IF ~IsRdma(t) THEN "LOCAL_TRANSFER"
           ELSE IF sc.write THEN "REMOTE_RDMA_WRITE" ELSE "REMOTE_RDMA_READ"

\* invoke: the control words of a command, source then destination.  The
\* source of an RDMA read and the destination of a write are remote.
invokeLocal(t) == <<Ctl(t, "tr"), Ctl(t, "tr")>>
invokeRdma(t, oper) == IF isRemoteRead(oper) THEN <<Ctl(t, "remote"), Ctl(t, "lcl")>>
                                             ELSE <<Ctl(t, "lcl"), Ctl(t, "remote")>>
invoke(t, oper) == IF IsRdma(t) THEN invokeRdma(t, oper) ELSE invokeLocal(t)

\* A command is whole if one thread wrote all four of its words.
Whole(c) == /\ c.src.t = c.dst.t /\ c.raddr = c.src.t /\ c.waddr = c.src.t
            /\ <<c.src, c.dst>> = invoke(c.src.t, Oper(c.src.t))
-----------------------------------------------------------------------------
(* cnfg_slave and cnfg_slave_avx: registers, command queue, counters.       *)

Zero == [k \in Kinds |-> 0]

NewHw == [waddr |-> None, ctrl2 |-> NoCtl, raddr |-> None,
          fifo |-> <<>>, wrq |-> <<>>, lost |-> FALSE,
          ram |-> [t \in Threads |-> Zero],
          wbq |-> <<>>]

\* In a shell with write-back, the new value of t's counter k goes to the
\* queue of the write-backs.  (Each kind has its queue before the arbiter; no
\* program compares counters of two kinds, and one queue stands for them.)
Queue(h, k, t, n) == IF sc.fcnfg.en_wb THEN [h EXCEPT !.wbq = Append(@, <<t, k, n>>)] ELSE h

\* A completion of kind k.  The counter of remote reads is stored as the
\* counter of remote writes plus one; and remote completions are written back
\* to an address made from the whole record, which is not t's word.
Complete(h, k, t) ==
  LET n == h.ram[t][IF k = "rrd" THEN "rwr" ELSE k] + 1
      stored == [h EXCEPT !.ram[t][k] = n]
  IN  IF k \in {"rd", "wr"} THEN Queue(stored, k, t, n) ELSE stored

\* CTRL_CLR_STAT in the two control words clears a thread's read and write
\* counters and writes the zeros back.
Clear2(h, c, k1, k2) ==
  IF c.k = "clr"
    THEN Queue(Queue([h EXCEPT !.ram[c.t][k1] = 0, !.ram[c.t][k2] = 0], k1, c.t, 0), k2, c.t, 0)
    ELSE h

\* The request is offered to the queue for one cycle: a full queue loses it.
Push(h, c) ==
  IF Len(h.fifo) < CMD_FIFO_DEPTH THEN [h EXCEPT !.fifo = Append(@, c)]
                                  ELSE [h EXCEPT !.lost = TRUE]

\* A write of the word c to CTRL_REG posts what the registers hold.
WriteCtrl(h, c) ==
  LET cmd == [src |-> c, raddr |-> h.raddr, dst |-> h.ctrl2, waddr |-> h.waddr]
      cleared == Clear2(Clear2(h, c, "rd", "rrd"), h.ctrl2, "wr", "rwr")
  IN  IF CTRL_START(c) \/ CTRL_START(h.ctrl2) THEN Push(cleared, cmd) ELSE cleared

\* With AVX the four words are one register and one write.
WriteAvx(h, src, dst, t) ==
  WriteCtrl([h EXCEPT !.waddr = t, !.ctrl2 = dst, !.raddr = t], src)
-----------------------------------------------------------------------------
(* The thread.                                                              *)

NewThread == [pc |-> "new", ret |-> "none", cmd_cnt |-> 0, left |-> 0, run |-> 0,
              buf |-> "none", freed |-> FALSE, locked |-> FALSE, ctx |-> FALSE,
              copying |-> {}]

\* Where t is, and where it goes on.
At(t, pc) == th[t].pc = pc
Go(t, pc) == [th EXCEPT ![t].pc = pc]

\* The process of t ends at pc: the kernel closes its files, and the driver
\* unmaps its buffers.
Exit(t, pc) == [th EXCEPT ![t].pc = pc, ![t].buf = IF @ = "mapped" THEN "freed" ELSE @,
                          ![t].copying = {}]

Hw(t) == hw[sc.at[t]]
SetHw(t, h) == hw' = [hw EXCEPT ![sc.at[t]] = h]

Dead == {"killed", "died", "aborted"}
Ended == Dead \cup {"gone"}

\* A call of set-up throws, and no program catches it.
Throw(t) ==
  /\ kills < MaxKills
  /\ kills' = kills + 1
  /\ th' = Exit(t, "died")
  /\ sock' = IF IsRdma(t) THEN [sock EXCEPT !.closed = @ \cup {t}] ELSE sock

\* The constructor opens the device and registers the ctid, maps the
\* registers, and clears the counters.
Construct(t) ==
  /\ At(t, "new")
  /\ \/ th' = Go(t, "mmap") /\ UNCHANGED <<sock, kills>>
     \/ Throw(t)
  /\ UNCHANGED <<sc, hw, wback, vlock, net, landed>>

\* What the mapping of a region of registers may return: any remap can fail.
vfpga_dev_mmap(region) ==
  IF region \in {"ctrl", "cnfg", "cnfg_avx", "wb"} THEN {"ok", "EIO"} ELSE {"EINVAL"}

\* The regions a thread maps, one after the other.
MmapRegions ==
  {"ctrl", IF sc.fcnfg.en_avx THEN "cnfg_avx" ELSE "cnfg"}
    \cup (IF sc.fcnfg.en_wb THEN {"wb"} ELSE {})

mmapFpga(t) ==
  /\ At(t, "mmap")
  /\ \/ /\ \A r \in MmapRegions : "ok" \in vfpga_dev_mmap(r)
        /\ th' = [th EXCEPT ![t].pc = "clear", ![t].ret = IF IsRdma(t) THEN "init" ELSE "getmem"]
        /\ UNCHANGED <<sock, kills>>
     \/ /\ \E r \in MmapRegions : vfpga_dev_mmap(r) # {"ok"}
        /\ Throw(t)
  /\ UNCHANGED <<sc, hw, wback, vlock, net, landed>>

\* clearCompleted zeroes the write-back words and then clears the counters in
\* the hardware, without AVX with two writes.
clearCompleted(t) ==
  /\ At(t, "clear")
  /\ wback' = IF sc.fcnfg.en_wb THEN [wback EXCEPT ![t] = Zero] ELSE wback
  /\ th' = Go(t, IF sc.fcnfg.en_avx THEN "clear_ctrl" ELSE "clear_ctrl2")
  /\ UNCHANGED <<sc, hw, vlock, sock, net, landed, kills>>

ClearWrites(t) ==
  /\ \/ /\ At(t, "clear_ctrl2")
        /\ SetHw(t, [Hw(t) EXCEPT !.ctrl2 = Ctl(t, "clr")])
        /\ th' = Go(t, "clear_ctrl")
     \/ /\ At(t, "clear_ctrl")
        /\ SetHw(t, IF sc.fcnfg.en_avx THEN WriteAvx(Hw(t), Ctl(t, "clr"), Ctl(t, "clr"), None)
                              ELSE WriteCtrl(Hw(t), Ctl(t, "clr")))
        /\ th' = Go(t, th[t].ret)
  /\ UNCHANGED <<sc, wback, vlock, sock, net, landed, kills>>

\* Mutant: the threshold is off by one.
WaitsLater(t) == th[t].cmd_cnt > CMD_FIFO_DEPTH - CMD_FIFO_THR + 1

\* The wait of postCmd: while too many commands are outstanding, cmd_cnt is
\* read back from the hardware, which counts the commands of every thread.
Waits(t) == th[t].cmd_cnt > CMD_FIFO_DEPTH - CMD_FIFO_THR

postCmdWait(t) ==
  /\ At(t, "post") /\ Waits(t)
  /\ th' = [th EXCEPT ![t].cmd_cnt = Len(Hw(t).fifo)]
  /\ UNCHANGED <<sc, hw, wback, vlock, sock, net, landed, kills>>

\* One command is out: the next one, or what follows the loop, which is the
\* poll, and for the server that writes back its next run.
Posted(t) ==
  [th EXCEPT ![t].cmd_cnt = @ + 1, ![t].left = @ - 1,
             ![t].pc = IF th[t].left > 1 THEN "post"
                       ELSE IF sc.prog[t] = "server" THEN "idle" ELSE "poll"]

\* With AVX the command is one write; otherwise the destination address, the
\* destination control word, the source address and the source control word
\* are written one after the other.
postCmd(t) ==
  LET src == invoke(t, Oper(t))[1]
      dst == invoke(t, Oper(t))[2]
  IN  /\ \/ /\ At(t, "post") /\ ~Waits(t)
            /\ IF sc.fcnfg.en_avx THEN /\ SetHw(t, WriteAvx(Hw(t), src, dst, t))
                              /\ th' = Posted(t)
                         ELSE /\ SetHw(t, [Hw(t) EXCEPT !.waddr = t])
                              /\ th' = Go(t, "post_ctrl2")
         \/ /\ At(t, "post_ctrl2")
            /\ SetHw(t, [Hw(t) EXCEPT !.ctrl2 = dst])
            /\ th' = Go(t, "post_raddr")
         \/ /\ At(t, "post_raddr")
            /\ SetHw(t, [Hw(t) EXCEPT !.raddr = t])
            /\ th' = Go(t, "post_ctrl")
         \/ /\ At(t, "post_ctrl")
            /\ SetHw(t, WriteCtrl(Hw(t), src))
            /\ th' = Posted(t)
      /\ UNCHANGED <<sc, wback, vlock, sock, net, landed, kills>>

\* The counter an operation is looked up in: writes before reads, because a
\* LOCAL_TRANSFER is both.
CounterOf(oper) ==
  IF isLocalWrite(oper) THEN "wr"
  ELSE IF isLocalRead(oper) THEN "rd"
  ELSE IF isRemoteRead(oper) THEN "rrd" ELSE "rwr"

checkCompleted(t, oper) ==
  IF sc.fcnfg.en_wb THEN wback[t][CounterOf(oper)] ELSE Hw(t).ram[t][CounterOf(oper)]

\* The loop "while (checkCompleted(..) != transfers)" of the programs.
Poll(t) ==
  /\ At(t, "poll")
  /\ checkCompleted(t, IF IsRdma(t) THEN "LOCAL_WRITE" ELSE "LOCAL_TRANSFER") = Transfers
  /\ th' = Go(t, "polled")
  /\ UNCHANGED <<sc, hw, wback, vlock, sock, net, landed, kills>>
-----------------------------------------------------------------------------
(* Buffers and the lock.                                                    *)

\* The driver maps t's buffer for the vFPGA, and unmaps it.
userMap(t) == [th EXCEPT ![t].buf = "mapped"]
userUnmap(t) == [th EXCEPT ![t].buf = "freed"]

\* A buffer is allocated and mapped; either may fail.
getMem(t) ==
  /\ At(t, "getmem")
  /\ \/ /\ th' = [userMap(t) EXCEPT ![t].pc = IF IsRdma(t) THEN "sendqp" ELSE "idle"]
        /\ UNCHANGED <<sock, kills>>
     \/ Throw(t)
  /\ UNCHANGED <<sc, hw, wback, vlock, net, landed>>

\* A call of freeMem by the program, once it is through: the buffer is
\* unmapped and released, its entry in mapped_pages stays.
freeMem(t) ==
  /\ At(t, "idle") /\ ~IsRdma(t)
  /\ th[t].run = Runs /\ th[t].buf = "mapped"
  /\ th' = [userUnmap(t) EXCEPT ![t].freed = TRUE]
  /\ UNCHANGED <<sc, hw, wback, vlock, sock, net, landed, kills>>

\* A run of the local program starts with lock(), which returns at once if
\* this thread has the lock already, and clearCompleted.  The programs without
\* AVX construct their threads first: the constructor writes the registers
\* that a running thread is using.
lock(t) ==
  LET v == sc.at[t]
  IN  /\ At(t, "idle") /\ ~IsRdma(t) /\ th[t].run < Runs
      /\ th[t].locked \/ vlock[v] = None
      /\ sc.fcnfg.en_avx \/ \A u \in Threads :
                               th[u].pc \notin {"new", "mmap", "clear", "clear_ctrl2", "clear_ctrl"}
      /\ vlock' = [vlock EXCEPT ![v] = t]
      /\ th' = [th EXCEPT ![t].locked = TRUE, ![t].run = @ + 1, ![t].left = Transfers,
                          ![t].pc = "clear", ![t].ret = "post"]
      /\ UNCHANGED <<sc, hw, wback, sock, net, landed, kills>>

\* The local program goes on after its transfers: it gives the lock back, or
\* keeps it to the next run or to the destructor.
unlock(t) ==
  /\ At(t, "polled") /\ ~IsRdma(t)
  /\ \/ /\ vlock' = [vlock EXCEPT ![sc.at[t]] = None]
        /\ th' = [th EXCEPT ![t].locked = FALSE, ![t].pc = "idle"]
     \/ /\ th' = Go(t, "idle")
        /\ UNCHANGED vlock
  /\ UNCHANGED <<sc, hw, wback, sock, net, landed, kills>>

\* The destructor releases the lock and every buffer of mapped_pages, also
\* one that the program has released itself: a second free of malloc'ed
\* memory is undefined, and may abort the process; a second munmap does not.
Destruct(t) ==
  LET v == sc.at[t]
  IN  /\ \/ At(t, "dtor")
         \/ At(t, "idle") /\ ~IsRdma(t) /\ th[t].run = Runs
      /\ vlock' = IF th[t].locked THEN [vlock EXCEPT ![v] = None] ELSE vlock
      /\ \E pc \in {"munmap"} \cup (IF th[t].freed /\ sc.alloc # "HPF" THEN {"aborted"} ELSE {}) :
           th' = [userUnmap(t) EXCEPT ![t].locked = FALSE, ![t].pc = pc]
      /\ UNCHANGED <<sc, hw, wback, sock, net, landed, kills>>

\* Then the registers are unmapped and the ctid is given back.
munmapFpga(t) ==
  /\ At(t, "munmap")
  /\ th' = Go(t, IF IsRdma(t) THEN "close" ELSE "gone")
  /\ UNCHANGED <<sc, hw, wback, vlock, sock, net, landed, kills>>
-----------------------------------------------------------------------------
(* The out-of-band connection: initRDMA, connSync, closeConn.  A queue      *)
(* holds "qp" and "zero", which an ack and DEF_OP_CLOSE_CONN both are.        *)

NewSock == [listen |-> FALSE, up |-> FALSE, closed |-> {}, q |-> [t \in Threads |-> <<>>]]

\* A write to t's peer.  Once the peer has closed its end the bytes are lost,
\* or SIGPIPE ends the process.
Write(t, w, pc) ==
  IF Peer(t) \in sock.closed
    THEN \/ th' = Go(t, pc) /\ UNCHANGED sock
         \/ th' = Exit(t, "died") /\ sock' = [sock EXCEPT !.closed = @ \cup {t}]
    ELSE /\ sock' = [sock EXCEPT !.q[Peer(t)] = Append(@, w)]
         /\ th' = Go(t, pc)

\* A read blocks until the word is there; the end of the stream throws an
\* exception that no program catches.
Read(t, pc) ==
  \/ /\ sock.q[t] # <<>>
     /\ sock' = [sock EXCEPT !.q[t] = Tail(@)]
     /\ th' = Go(t, pc)
  \/ /\ sock.q[t] = <<>> /\ Peer(t) \in sock.closed
     /\ sock' = [sock EXCEPT !.closed = @ \cup {t}]
     /\ th' = Exit(t, "died")

\* initRDMA: the server listens and accepts, the client connects (it is
\* started once the server listens); a connection that is refused throws.
Connect(t) ==
  /\ At(t, "init") /\ sc.prog[t] = "client" /\ sock.listen
  /\ IF Peer(t) \in sock.closed
       THEN th' = Exit(t, "died") /\ UNCHANGED sock
       ELSE th' = Go(t, "getmem") /\ sock' = [sock EXCEPT !.up = TRUE]
  /\ UNCHANGED <<sc, hw, wback, vlock, net, landed, kills>>

Accept(t) ==
  /\ sc.prog[t] = "server"
  /\ \/ At(t, "init") /\ ~sock.listen /\ sock' = [sock EXCEPT !.listen = TRUE] /\ UNCHANGED th
     \/ At(t, "init") /\ sock.up /\ th' = Go(t, "readqp") /\ UNCHANGED sock
  /\ UNCHANGED <<sc, hw, wback, vlock, net, landed, kills>>

\* The queue pair with the buffer's address goes to the peer: from the client
\* first, from the server when it has the client's.
SendQp(t) ==
  /\ At(t, "sendqp")
  /\ Write(t, "qp", IF sc.prog[t] = "client" THEN "readqp" ELSE "ctx")
  /\ UNCHANGED <<sc, hw, wback, vlock, net, landed, kills>>

ReadQp(t) ==
  /\ At(t, "readqp")
  /\ Read(t, IF sc.prog[t] = "client" THEN "ctx" ELSE "getmem")
  /\ UNCHANGED <<sc, hw, wback, vlock, net, landed, kills>>

\* The queue pair and the connection go to the hardware; then the ARP lookup.
writeQpContext(t) ==
  /\ At(t, "ctx")
  /\ th' = [th EXCEPT ![t].ctx = TRUE, ![t].pc = IF sc.scatter THEN "gpumem" ELSE "idle"]
  /\ UNCHANGED <<sc, hw, wback, vlock, sock, net, landed, kills>>

\* The mains go through the sizes, and through the runs of each; Runs is the
\* number of all of them.
Sweep(t) == th[t].run < Runs

\* Mutant: the last run is not followed by a synchronisation.
StartRunNoSync(t) ==
  /\ At(t, "idle") /\ IsRdma(t)
  /\ th' = [th EXCEPT ![t].run = @ + 1, ![t].left = Transfers,
                      ![t].pc = IF Sweep(t) THEN "clear" ELSE "dtor",
                      ![t].ret = "sync"]
  /\ UNCHANGED <<sc, hw, wback, vlock, sock, net, landed, kills>>

\* run_bench of both sides: a run clears the counters and synchronises; after
\* the last run main synchronises once more.
StartRun(t) ==
  /\ At(t, "idle") /\ IsRdma(t)
  /\ th' = [th EXCEPT ![t].run = @ + 1, ![t].left = Transfers,
                      ![t].pc = IF Sweep(t) THEN "clear"
                                ELSE IF sc.scatter /\ sc.prog[t] = "server" THEN "hipfree" ELSE "sync",
                      ![t].ret = "sync"]
  /\ UNCHANGED <<sc, hw, wback, vlock, sock, net, landed, kills>>

\* What follows connSync: the client posts and polls, a server that is
\* written to polls and posts, one that is read from is passive.
AfterSync(t) ==
  CASE th[t].run > Runs -> "dtor"
    [] th[t].run <= Runs /\ sc.prog[t] = "client" -> "post"
    [] OTHER -> IF sc.write THEN "poll" ELSE "idle"

\* Mutant: both sides wait for the other's word first.
SyncReadsFirst(t) ==
  /\ \/ At(t, "sync") /\ Read(t, "sync2")
     \/ At(t, "sync2") /\ Write(t, "zero", AfterSync(t))
  /\ UNCHANGED <<sc, hw, wback, vlock, net, landed, kills>>

connSync(t) ==
  /\ \/ /\ sc.prog[t] = "client"
        /\ \/ At(t, "sync") /\ Write(t, "zero", "sync2")
           \/ At(t, "sync2") /\ Read(t, AfterSync(t))
     \/ /\ sc.prog[t] = "server"
        /\ \/ At(t, "sync") /\ Read(t, "sync2")
           \/ At(t, "sync2") /\ Write(t, "zero", AfterSync(t))
  /\ UNCHANGED <<sc, hw, wback, vlock, net, landed, kills>>

\* A run is over for the client, and half over for the server.
AfterRun(t) == IF sc.prog[t] = "client" THEN "idle" ELSE "post"

Polled(t) ==
  /\ At(t, "polled") /\ IsRdma(t) /\ ~sc.scatter
  /\ th' = Go(t, AfterRun(t))
  /\ UNCHANGED <<sc, hw, wback, vlock, sock, net, landed, kills>>

\* The scatter baseline.  Its mains allocate a buffer on each GPU; a GPU that
\* cannot be selected or a buffer that is not allocated throws.
GpuBuffers(t) ==
  /\ At(t, "gpumem")
  /\ \/ th' = Go(t, "idle") /\ UNCHANGED <<sock, kills>>
     \/ Throw(t)
  /\ UNCHANGED <<sc, hw, wback, vlock, net, landed>>

\* The client starts the copies of the chunks, to the GPUs in turn: a short
\* transfer does not reach every GPU, or none.  A copy that does not start
\* throws.
ClientScatter(t) ==
  /\ At(t, "polled") /\ sc.scatter /\ sc.prog[t] = "client"
  /\ \/ /\ \E n \in 0..NUM_GPUS : th' = [th EXCEPT ![t].pc = "gpusync", ![t].copying = 1..n]
        /\ UNCHANGED <<sock, kills>>
     \/ Throw(t)
  /\ UNCHANGED <<sc, hw, wback, vlock, net, landed>>

\* The server does the same, but for a copy that does not start, which it
\* does not notice.
ServerScatter(t) ==
  /\ At(t, "polled") /\ sc.scatter /\ sc.prog[t] = "server"
  /\ \/ /\ \E n \in 0..NUM_GPUS, failed \in SUBSET (1..NUM_GPUS) :
             th' = [th EXCEPT ![t].pc = "gpusync", ![t].copying = (1..n) \ failed]
        /\ UNCHANGED <<sock, kills>>
     \/ Throw(t)
  /\ UNCHANGED <<sc, hw, wback, vlock, net, landed>>

\* The copies of chunks to GPU g are done.
GpuCopied(t, g) ==
  /\ g \in th[t].copying
  /\ th' = [th EXCEPT ![t].copying = @ \ {g}]
  /\ UNCHANGED <<sc, hw, wback, vlock, sock, net, landed, kills>>

\* Mutant: nobody waits for the GPUs.
SyncNothing(t) ==
  /\ At(t, "gpusync")
  /\ th' = Go(t, AfterRun(t))
  /\ UNCHANGED <<sc, hw, wback, vlock, sock, net, landed, kills>>

\* Then both wait for all GPUs.
hipDeviceSynchronize(t) ==
  /\ At(t, "gpusync") /\ th[t].copying = {}
  /\ \/ th' = Go(t, AfterRun(t)) /\ UNCHANGED <<sock, kills>>
     \/ Throw(t)
  /\ UNCHANGED <<sc, hw, wback, vlock, net, landed>>

\* At the end the server releases its GPU buffers before it synchronises (the
\* destructor finds them in mapped_pages and reports that it cannot).
hipFree(t) ==
  /\ At(t, "hipfree")
  /\ \/ th' = Go(t, "sync") /\ UNCHANGED <<sock, kills>>
     \/ Throw(t)
  /\ UNCHANGED <<sc, hw, wback, vlock, net, landed>>

\* closeConn: the client asks for the close and closes; the server reads the
\* request.
closeConn(t) ==
  /\ At(t, "close")
  /\ \/ /\ sc.prog[t] = "client"
        /\ \E pc \in {"gone"} \cup (IF Peer(t) \in sock.closed THEN {"died"} ELSE {}) :
             th' = Go(t, pc)
        /\ sock' = [sock EXCEPT !.q[Peer(t)] = Append(@, "zero"), !.closed = @ \cup {t}]
     \/ /\ sc.prog[t] = "server"
        /\ sock.q[t] # <<>> \/ Peer(t) \in sock.closed
        /\ sock' = [sock EXCEPT !.q[t] = <<>>, !.closed = @ \cup {t}]
        /\ th' = Go(t, "gone")
  /\ UNCHANGED <<sc, hw, wback, vlock, net, landed, kills>>

\* A process is killed: the named mutex stays as it is.
Kill(t) ==
  /\ th[t].pc \notin Ended \cup {"new"} /\ kills < MaxKills
  /\ kills' = kills + 1
  /\ th' = Exit(t, "killed")
  /\ sock' = IF IsRdma(t) THEN [sock EXCEPT !.closed = @ \cup {t}] ELSE sock
  /\ UNCHANGED <<sc, hw, wback, vlock, net, landed>>
-----------------------------------------------------------------------------
(* The hardware and the network.                                            *)

\* The head of the command queue is executed.  A transfer reads and then
\* writes; an RDMA write sends the data, an RDMA read the request.
Exec(v) ==
  LET h == hw[v]
      c == Head(h.fifo)
      t == c.src.t
      popped == [h EXCEPT !.fifo = Tail(@)]
  IN  /\ h.fifo # <<>>
      /\ hw' = [hw EXCEPT ![v] = IF Whole(c) /\ ~IsRdma(t)
                                   THEN Complete([popped EXCEPT !.wrq = Append(@, t)], "rd", t)
                                   ELSE popped]
      /\ net' = IF Whole(c) /\ IsRdma(t)
                  THEN [net EXCEPT ![Peer(t)] = Append(@, IF sc.write THEN "write" ELSE "rreq")]
                  ELSE net
      /\ UNCHANGED <<sc, th, wback, vlock, sock, landed, kills>>

\* The write of a local transfer is done.
WriteDone(v) ==
  LET t == Head(hw[v].wrq)
  IN  /\ hw[v].wrq # <<>>
      /\ hw' = [hw EXCEPT ![v] = Complete([@ EXCEPT !.wrq = Tail(@)], "wr", t)]
      /\ landed' = [landed EXCEPT ![t] = @ + 1]
      /\ UNCHANGED <<sc, th, wback, vlock, sock, net, kills>>

\* A packet reaches t's node.  Data is written to the buffer and counted as
\* a local write, a written packet is acknowledged, a read one answered.
\* Without a queue pair or a mapped buffer it gets no further.
Arrive(t) ==
  LET m == Head(net[t])
      reach == th[t].ctx /\ th[t].buf = "mapped"
      wr == Complete(Hw(t), "wr", t)
      Answer(n) == [net EXCEPT ![t] = Tail(@), ![Peer(t)] = Append(@, n)]
  IN  /\ net[t] # <<>>
      /\ net' = CASE m = "write" /\ reach -> Answer("ack")
                   [] m = "rreq" /\ reach -> Answer("rresp")
                   [] OTHER -> [net EXCEPT ![t] = Tail(@)]
      /\ SetHw(t, CASE m = "write" /\ reach -> wr
                     [] m = "rresp" /\ reach -> Complete(wr, "rrd", t)
                     [] m = "ack" -> Complete(Hw(t), "rwr", t)
                     [] OTHER -> Hw(t))
      /\ landed' = IF m \in {"write", "rresp"} /\ reach
                     THEN [landed EXCEPT ![t] = @ + 1] ELSE landed
      /\ UNCHANGED <<sc, th, wback, vlock, sock, kills>>

\* A queued write-back reaches host memory.
WriteBack(v) ==
  LET w == Head(hw[v].wbq)
  IN  /\ hw[v].wbq # <<>>
      /\ hw' = [hw EXCEPT ![v].wbq = Tail(@)]
      /\ wback' = [wback EXCEPT ![w[1]][w[2]] = w[3]]
      /\ UNCHANGED <<sc, th, vlock, sock, net, landed, kills>>
-----------------------------------------------------------------------------
Init ==
  /\ sc \in Scenarios
  /\ th = [t \in Threads |-> NewThread]
  /\ hw = [v \in Vfpgas |-> NewHw]
  /\ wback = [t \in Threads |-> Zero]
  /\ vlock = [v \in Vfpgas |-> None]
  /\ sock = NewSock
  /\ net = [t \in Threads |-> <<>>]
  /\ landed = [t \in Threads |-> 0]
  /\ kills = 0

Step(t) ==
  \/ Construct(t) \/ mmapFpga(t) \/ clearCompleted(t) \/ ClearWrites(t)
  \/ postCmdWait(t) \/ postCmd(t) \/ Poll(t)
  \/ getMem(t) \/ freeMem(t) \/ lock(t) \/ unlock(t)
  \/ Destruct(t) \/ munmapFpga(t)
  \/ Connect(t) \/ Accept(t) \/ SendQp(t) \/ ReadQp(t) \/ writeQpContext(t)
  \/ StartRun(t) \/ connSync(t) \/ Polled(t) \/ closeConn(t)
  \/ GpuBuffers(t) \/ ClientScatter(t) \/ ServerScatter(t)
  \/ hipDeviceSynchronize(t) \/ hipFree(t)

Hardware ==
  \/ \E v \in Vfpgas : Exec(v) \/ WriteDone(v) \/ WriteBack(v)
  \/ \E t \in Threads : Arrive(t) \/ \E g \in 1..NUM_GPUS : GpuCopied(t, g)

Next == Hardware \/ \E t \in Threads : Step(t) \/ Kill(t)

\* Every thread runs, and the hardware goes on as long as it has work.
Spec == Init /\ [][Next]_vars /\ WF_vars(Hardware) /\ \A t \in Threads : WF_vars(Step(t))
-----------------------------------------------------------------------------
(* Properties.                                                              *)

\* The initiator has to keep its buffer and its queue pair for as long as a
\* transfer can touch them: a queued command or a running write of a local
\* thread finds its buffer mapped, and so does a packet that reaches a node
\* whose process did not die.  The destructor unmaps the buffer before it
\* closes the connection, so this rests on the final connSync.
BuffersOutliveTransfers ==
  \A t \in Threads :
    /\ th[t].pc \notin Dead =>
         \A i \in 1..Len(net[t]) : net[t][i] # "ack" => th[t].ctx /\ th[t].buf = "mapped"
    /\ ~IsRdma(t) /\ th[t].pc \notin Dead /\ th[t].buf # "mapped" =>
         /\ \A i \in 1..Len(Hw(t).fifo) : Hw(t).fifo[i].src.t # t
         /\ \A i \in 1..Len(Hw(t).wrq) : Hw(t).wrq[i] # t

\* checkCompleted says that the data is there: a program whose poll has ended
\* finds in its buffer the transfers of every run up to this one, and none of
\* the next (clearCompleted leaves no old completion behind).  The same holds
\* for as long as a GPU copies from the buffer.
CompletedMeansLanded ==
  \A t \in Threads : At(t, "polled") \/ th[t].copying # {} => landed[t] = th[t].run * Transfers

\* The wait of postCmd keeps the command queue from overflowing, as long as
\* the threads of a vFPGA take turns.
NoCommandIsLost == \A v \in Vfpgas : ~hw[v].lost

\* lock() keeps other threads away: what waits in the queue of a vFPGA of
\* local threads is what one thread wrote, the one that holds the lock.
LockedOperationsAreAlone ==
  \A v \in Vfpgas : \A i \in 1..Len(hw[v].fifo) :
    LET c == hw[v].fifo[i]
    IN  Whole(c) /\ (~IsRdma(c.src.t) => vlock[v] = c.src.t)

\* Threads that take turns by lock() neither lose commands nor mix them.
TurnsKeepCommandsApart == NoCommandIsLost /\ LockedOperationsAreAlone

\* Every program comes to its end, unless a process died: no lock is left
\* behind, no completion is missed by the "!=" of the poll, and the two
\* sides of the connection never wait for each other.
ThreadsEnd ==
  <>(\/ \A t \in Threads : th[t].pc \in Ended
     \/ \E t \in Threads : th[t].pc \in Dead)
=============================================================================
