---------------------------- MODULE RdmaScatter ----------------------------
(***************************************************************************)
(* The receive side of the RDMA scatter vFPGA (example 11).  The network   *)
(* stack hands every incoming packet over as one command (rq_wr) and as    *)
(* beats of data (axis_rdma_sink).  Commands and data then travel through  *)
(* separate queues:                                                        *)
(*                                                                         *)
(*   rq  --> axis_mux_user_rq --> m_rq ---------> user logic --> sq_wr     *)
(*   sink -> axis_mux_user_rq --> resp / recv --> user logic --> host send *)
(*                                                                         *)
(* The user logic replaces the address of each command by the address of   *)
(* the buffer that pkt_cnt selects, and pkt_cnt counts the packets that    *)
(* left on the *data* channel.  One step of the model is one clock cycle:  *)
(* all registers change together, from the handshakes of that cycle.       *)
(* The environment chooses, in every cycle, whether a packet arrives,      *)
(* whether the stack has a beat ready, which host streams are ready, which *)
(* queued commands the host side takes and whether a posted register write *)
(* reaches the vFPGA.                                                      *)
(*                                                                         *)
(* Packets carry two fields that no wire has, for the properties: id tells *)
(* the packets in flight apart, and n is the number of write packets that  *)
(* arrived before this one, modulo 4.                                      *)
(***************************************************************************)
EXTENDS Integers, Sequences

CONSTANTS
  Lens,      \* packet lengths in bytes, all positive
  Beat,      \* bytes per beat (2^BEAT_LOG_BITS)
  Window,    \* bound: packets in flight
  FifoDepth, \* capacity of m_rq and of the two data FIFOs
  SqDepth    \* capacity of the command queue of each host stream

ASSUME LensAssumption == Lens \subseteq Nat \ {0}
ASSUME DepthAssumption == {Beat, Window, FifoDepth, SqDepth} \subseteq Nat \ {0}

VARIABLES
  ctrl_reg,  \* the five registers of the AXI-Lite parser
  posted,    \* setCSR writes that have reached the parser
  rq,        \* commands the stack offers, in order
  sink,      \* beats the stack offers, in order
  mux,       \* axis_mux_user_rq: [state, cnt]
  m_rq,      \* commands between the multiplexer and the user logic
  resp,      \* beats of read responses before the user logic
  recv,      \* beats of writes before the user logic
  pkt_cnt,   \* which buffer the next write command gets
  sq,        \* commands queued for each host stream
  sq_wr,     \* the command handed over in the cycle before, if any
  arrived,   \* write packets that arrived, modulo 4, a history variable
  paced      \* every packet so far arrived in an empty pipeline, history

vars == <<ctrl_reg, posted, rq, sink, mux, m_rq, resp, recv, pkt_cnt, sq,
          sq_wr, arrived, paced>>

Ids == 1 .. Window
Ops == {"write", "rd_resp"}
Packet == [id : Ids, opcode : Ops, len : Lens, n : 0 .. 3]
BeatT == [id : Ids, opcode : Ops, n : 0 .. 3, tlast : BOOLEAN]

\* Registers: 0..3 hold the buffer addresses, 4 says that they are valid.
\* Address 0 is the reset value, 1..4 are the four GPU buffers.
BENCH_VADDR_VALID_REG == 4
NoAddress == 0
Buffers == 1 .. 4
Original == 5          \* the address the remote node put into the packet

NoCommand == [vaddr |-> Original, scattered |-> FALSE, opcode |-> "rd_resp", n |-> 0]

TypeOK ==
  /\ ctrl_reg \in [0 .. 4 -> 0 .. 4]
  /\ posted \in 0 .. 5
  /\ rq \in Seq(Packet)
  /\ sink \in Seq(BeatT)
  /\ mux \in [state : {"idle", "resp", "recv"}, cnt : Nat]
  /\ m_rq \in Seq(Packet) /\ Len(m_rq) <= FifoDepth
  /\ resp \in Seq(BeatT) /\ Len(resp) <= FifoDepth
  /\ recv \in Seq(BeatT) /\ Len(recv) <= FifoDepth
  /\ pkt_cnt \in 0 .. 3
  /\ sq \in [0 .. 1 -> 0 .. SqDepth]
  /\ sq_wr \in [vaddr : NoAddress .. Original, scattered : BOOLEAN,
                opcode : Ops, n : 0 .. 3]
  /\ arrived \in 0 .. 3
  /\ paced \in BOOLEAN

\* is_opcode_rd_resp(opcode) ? 0 : 1.
Dest(opcode) == IF opcode = "rd_resp" THEN 0 ELSE 1

\* Reset.  Both programs issue their five setCSR calls before connSync, and
\* the remote node sends nothing before connSync returns.  The writes are
\* posted: they arrive later, in order.
Init ==
  /\ ctrl_reg = [i \in 0 .. 4 |-> NoAddress]
  /\ posted = 0
  /\ rq = << >> /\ sink = << >>
  /\ mux = [state |-> "idle", cnt |-> 0]
  /\ m_rq = << >> /\ resp = << >> /\ recv = << >>
  /\ pkt_cnt = 0
  /\ sq = [d \in 0 .. 1 |-> 0]
  /\ sq_wr = NoCommand
  /\ arrived = 0
  /\ paced = TRUE

-----------------------------------------------------------------------------
\* The network stack (external: the RoCE core).

InFlight == {rq[i].id : i \in DOMAIN rq} \cup {m_rq[i].id : i \in DOMAIN m_rq}
              \cup {sink[i].id : i \in DOMAIN sink}
              \cup {resp[i].id : i \in DOMAIN resp}
              \cup {recv[i].id : i \in DOMAIN recv}

Empty == InFlight = {} /\ sq = [d \in 0 .. 1 |-> 0]

\* The packets that may arrive next, the least free id on each; none while
\* every id is in flight.
Arrivals ==
  [id : {i \in Ids \ InFlight : \A j \in Ids \ InFlight : i <= j},
   opcode : Ops, len : Lens, n : {arrived}]

\* The beats of a packet: enough for its length, tlast on the last one.
Beats(p) ==
  [i \in 1 .. (p.len + Beat - 1) \div Beat |->
     [id |-> p.id, opcode |-> p.opcode, n |-> p.n,
      tlast |-> i = (p.len + Beat - 1) \div Beat]]

-----------------------------------------------------------------------------
\* The handshakes of one cycle.  tvalid: the stack presents its next beat.

\* axis_mux_user_rq: a beat passes into the FIFO the state selects.
BeatIn(tvalid) ==
  /\ tvalid
  /\ sink # << >>
  /\ \/ mux.state = "resp" /\ Len(resp) < FifoDepth
     \/ mux.state = "recv" /\ Len(recv) < FifoDepth

TrDone(tvalid) == mux.cnt = 0 /\ BeatIn(tvalid)

\* axis_mux_user_rq: the next command is taken when the multiplexer is idle
\* or passes the last beat of the command before.
CommandIn(tvalid) ==
  /\ rq # << >>
  /\ Len(m_rq) < FifoDepth
  /\ mux.state = "idle" \/ TrDone(tvalid)

\* User logic: sq_wr.valid = rq_wr.valid, rq_wr.ready = sq_wr.ready.
CommandOut ==
  /\ m_rq # << >>
  /\ sq[Dest(Head(m_rq).opcode)] < SqDepth

\* User logic: axis_rreq_recv and axis_rrsp_recv are wired to the two host
\* streams.
RespOut(tready) == resp # << >> /\ tready[0]
RecvOut(tready) == recv # << >> /\ tready[1]

-----------------------------------------------------------------------------
\* The next value of each register.

\* rdma_scatter_axi_ctrl_parser: the i-th setCSR call writes register i.
CtrlReg(arrives) ==
  IF ~arrives THEN ctrl_reg
  ELSE [ctrl_reg EXCEPT ![posted] =
          IF posted = BENCH_VADDR_VALID_REG THEN 1 ELSE posted + 1]

\* Mutant: the beat count of a packet that does not fill its last beat.
BeatCountRoundedDown(p) == IF p.len < Beat THEN 0 ELSE (p.len \div Beat) - 1

\* Mutant: one beat too many for a packet that fills its last beat.
BeatCountUnadjusted(p) == p.len \div Beat

\* cnt_N = (len - 1) >> BEAT_LOG_BITS.
BeatCount(p) == (p.len - 1) \div Beat

\* axis_mux_user_rq: state and beat counter.
Mux(tvalid) ==
  IF CommandIn(tvalid)
  THEN [state |-> IF Head(rq).opcode = "rd_resp" THEN "resp" ELSE "recv",
        cnt |-> BeatCount(Head(rq))]
  ELSE IF TrDone(tvalid) THEN [mux EXCEPT !.state = "idle"]
  ELSE IF BeatIn(tvalid) THEN [mux EXCEPT !.cnt = @ - 1]
  ELSE mux

\* Mutant: every beat counts, not only the last one of a packet.
PktCntPerBeat(tready) ==
  IF RecvOut(tready) THEN (IF pkt_cnt = 3 THEN 0 ELSE pkt_cnt + 1) ELSE pkt_cnt

\* User logic: the packet counter.
PktCnt(tready) ==
  IF RecvOut(tready) /\ Head(recv).tlast
  THEN (IF pkt_cnt = 3 THEN 0 ELSE pkt_cnt + 1)
  ELSE pkt_cnt

\* User logic: the address of a command, read responses included.
Vaddr == IF ctrl_reg[BENCH_VADDR_VALID_REG] = 1 THEN ctrl_reg[pkt_cnt] ELSE Original

PopIf(fires, s) == IF fires THEN Tail(s) ELSE s
PushIf(fires, s, e) == IF fires THEN Append(s, e) ELSE s

-----------------------------------------------------------------------------
\* One clock cycle.  new: the set of packets (none or one) that arrive.
\* taken: the host streams whose command queue is drained by one.
Cycle(new, tvalid, tready, taken, arrives) ==
  /\ arrives => posted < 5
  /\ \A d \in taken : sq[d] > 0
  /\ ctrl_reg' = CtrlReg(arrives)
  /\ posted' = IF arrives THEN posted + 1 ELSE posted
  /\ \/ /\ new = {}
        /\ rq' = PopIf(CommandIn(tvalid), rq)
        /\ sink' = PopIf(BeatIn(tvalid), sink)
        /\ UNCHANGED <<arrived, paced>>
     \/ \E p \in new :
          /\ rq' = Append(PopIf(CommandIn(tvalid), rq), p)
          /\ sink' = PopIf(BeatIn(tvalid), sink) \o Beats(p)
          /\ arrived' = IF p.opcode = "write" THEN (arrived + 1) % 4 ELSE arrived
          /\ paced' = (paced /\ Empty)
  /\ mux' = Mux(tvalid)
  /\ m_rq' = PushIf(CommandIn(tvalid), PopIf(CommandOut, m_rq), Head(rq))
  /\ resp' = PushIf(BeatIn(tvalid) /\ mux.state = "resp",
                    PopIf(RespOut(tready), resp), Head(sink))
  /\ recv' = PushIf(BeatIn(tvalid) /\ mux.state = "recv",
                    PopIf(RecvOut(tready), recv), Head(sink))
  /\ pkt_cnt' = PktCnt(tready)
  /\ sq' = [d \in 0 .. 1 |->
              sq[d] - (IF d \in taken THEN 1 ELSE 0)
                    + (IF CommandOut /\ Dest(Head(m_rq).opcode) = d THEN 1 ELSE 0)]
  /\ sq_wr' = IF CommandOut
              THEN [vaddr |-> Vaddr,
                    scattered |-> ctrl_reg[BENCH_VADDR_VALID_REG] = 1,
                    opcode |-> Head(m_rq).opcode, n |-> Head(m_rq).n]
              ELSE NoCommand

Ready == [0 .. 1 -> BOOLEAN]

AnyCycle(tvalid, tready, taken) ==
  \E new \in {{}} \cup {{p} : p \in Arrivals}, arrives \in BOOLEAN :
    Cycle(new, tvalid, tready, taken, arrives)

Next ==
  \E tvalid \in BOOLEAN, tready \in Ready, taken \in SUBSET (0 .. 1) :
    AnyCycle(tvalid, tready, taken)

Spec == Init /\ [][Next]_vars

-----------------------------------------------------------------------------
\* Properties

\* axis_mux_user_rq routes by counting beats: the data of read responses and
\* of writes never end up in each other's stream, and whenever the
\* multiplexer waits for a command, the next beat belongs to that command.
StreamsStayApart ==
  /\ \A i \in DOMAIN resp : resp[i].opcode = "rd_resp"
  /\ \A i \in DOMAIN recv : recv[i].opcode = "write"
  /\ mux.state = "idle" /\ sink # << >> => rq # << >> /\ Head(rq).id = Head(sink).id

\* As long as each packet arrives after the ones before it have been passed
\* on, as in the latency benchmark with one transfer of one packet at a time,
\* the i-th write packet goes to buffer i modulo 4.
PacedWritesScatterInOrder ==
  paced /\ sq_wr.scattered /\ sq_wr.opcode = "write" => sq_wr.vaddr = sq_wr.n + 1

\* Commands wait for data in axis_mux_user_rq, data waits for commands, and
\* both wait for room: while a packet is in flight, a cycle in which the
\* environment is ready on every port moves a command or a beat.
NeverStuck ==
  InFlight # {} =>
    \/ CommandIn(TRUE) \/ BeatIn(TRUE) \/ CommandOut
    \/ resp # << >> \/ recv # << >>
    \/ \E d \in 0 .. 1 : sq[d] > 0

=============================================================================
