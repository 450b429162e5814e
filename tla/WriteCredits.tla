---------------------------- MODULE WriteCredits ----------------------------
(***************************************************************************)
(* The write path out of a vFPGA (local_credits_host_wr, EN_CRED_LOCAL):   *)
(* one lane per destination with a request queue, a parser that splits a   *)
(* request into pieces of at most PARSE_SIZE bytes (req_parser), a credit  *)
(* counter that holds a piece back until its data has arrived              *)
(* (req_credits_wr) and a data FIFO; then a round-robin arbiter            *)
(* (dest_req_arb) that tells a stream multiplexer (axis_mux_user_wr) the   *)
(* order in which to drain the FIFOs.                                      *)
(*                                                                         *)
(* A step is one handshake or one clock edge of one block; blocks          *)
(* interleave in every order, a superset of what their common clock does.  *)
(* A valid/ready register or queue is a bounded sequence. A beat of data   *)
(* is the tag of the request it belongs to.                                *)
(***************************************************************************)
EXTENDS Integers, Sequences

CONSTANTS
  N_DESTS,
  Lens,                  \* lengths, in bytes, of the requests of the user logic
  BeatBytes,             \* bytes of a beat, 2^BEAT_LOG_BITS
  PARSE_SIZE,
  CntSize,               \* 2^(BLEN_BITS + 1), the range of the credit counter
  QDEPTH,                \* request queue of a lane
  RegDepth,              \* meta_reg: pieces an output register holds
  FifoDepth,             \* beats of the data FIFO of a lane
  N_OUTSTANDING_REGION,  \* entries of the sequence queue
  Ahead,                 \* pieces the shell takes ahead of their data
  Backlog                \* bound: beats the user logic owes a lane

Dests == 0 .. N_DESTS - 1
Tags == 0 .. 1

ASSUME CreditsAssumption ==
  /\ N_DESTS \in Nat \ {0}
  /\ Lens \subseteq Nat \ {0}
  /\ {BeatBytes, PARSE_SIZE, CntSize, QDEPTH, RegDepth, FifoDepth,
      N_OUTSTANDING_REGION, Ahead, Backlog} \subseteq Nat \ {0}

VARIABLES
  req_q,     \* [Dests -> queue of requests (queue_meta)]
  feed,      \* [Dests -> beats the user logic has yet to send]
  tag,       \* [Dests -> tag of the latest request]
  parser,    \* [Dests -> state, tag, len_C and plen_C]
  cnt,       \* [Dests -> cnt_C of req_credits_wr]
  xfer_int,  \* [Dests -> a beat went in at the last edge]
  req_cred,  \* [Dests -> output register of req_credits_wr]
  fifo,      \* [Dests -> data FIFO]
  rr_reg,
  m_req,     \* output register of the arbiter
  ahead,     \* pieces taken by the shell minus pieces whose data has started
  mux_q,     \* inst_seq_que_user
  mux,       \* axis_mux_user_wr: state_C, dest_C, cnt_C and the tag it serves
  lost       \* history: a piece was consumed and not passed on

lane == <<req_q, feed, tag, parser, cnt, xfer_int>>
arb == <<rr_reg, m_req, ahead, lost>>
vars == <<lane, req_cred, fifo, arb, mux_q, mux>>

Piece == [tag : Tags, len : Nat \ {0}]
Order == [dest : Dests, tag : Tags, n_tr : Nat]

TypeOK ==
  /\ req_q \in [Dests -> Seq(Piece)] /\ \A d \in Dests : Len(req_q[d]) <= QDEPTH
  /\ feed \in [Dests -> Seq(Tags)]
  /\ tag \in [Dests -> Tags]
  /\ parser \in [Dests -> [state : {"IDLE", "PARSE", "SEND"}, tag : Tags,
                           len : Nat, plen : Nat]]
  /\ cnt \in [Dests -> 0 .. CntSize - 1]
  /\ xfer_int \in [Dests -> BOOLEAN]
  /\ req_cred \in [Dests -> Seq(Piece)]
  /\ \A d \in Dests : Len(req_cred[d]) <= RegDepth
  /\ fifo \in [Dests -> Seq(Tags)] /\ \A d \in Dests : Len(fifo[d]) <= FifoDepth
  /\ rr_reg \in Dests
  /\ m_req \in Seq(Piece) /\ Len(m_req) <= RegDepth
  /\ ahead \in Int /\ ahead <= Ahead
  /\ mux_q \in Seq(Order) /\ Len(mux_q) <= N_OUTSTANDING_REGION
  /\ mux \in [state : {"IDLE", "MUX"}, dest : Dests, tag : Tags, cnt : Nat]
  /\ lost \in BOOLEAN

\* What an idle block remembers of its last request is never read again.
IdleParser == [state |-> "IDLE", tag |-> 0, len |-> 0, plen |-> 0]
IdleMux == [state |-> "IDLE", dest |-> 0, tag |-> 0, cnt |-> 0]

Init ==
  /\ req_q = [d \in Dests |-> <<>>]
  /\ feed = [d \in Dests |-> <<>>]
  /\ tag = [d \in Dests |-> 0]
  /\ parser = [d \in Dests |-> IdleParser]
  /\ cnt = [d \in Dests |-> 0]
  /\ xfer_int = [d \in Dests |-> FALSE]
  /\ req_cred = [d \in Dests |-> <<>>]
  /\ fifo = [d \in Dests |-> <<>>]
  /\ rr_reg = 0
  /\ m_req = <<>>
  /\ ahead = 0
  /\ mux_q = <<>>
  /\ mux = IdleMux
  /\ lost = FALSE

\* Beats the data of len bytes comes in.
Beats(len) == (len + BeatBytes - 1) \div BeatBytes

(***************************************************************************)
(* The user logic: it hands over a request, and sends its beats in the     *)
(* order of its requests, before or after the request is looked at.        *)
(***************************************************************************)

\* dest_req_mux and queue_meta: a request goes to the queue of its dest.
Request(d, len) ==
  LET t == 1 - tag[d] IN
  /\ Len(req_q[d]) < QDEPTH
  /\ Len(feed[d]) + Beats(len) <= Backlog
  /\ tag' = [tag EXCEPT ![d] = t]
  /\ req_q' = [req_q EXCEPT ![d] = Append(@, [tag |-> t, len |-> len])]
  /\ feed' = [feed EXCEPT ![d] = @ \o [i \in 1 .. Beats(len) |-> t]]
  /\ UNCHANGED <<parser, cnt, xfer_int, req_cred, fifo, arb, mux_q, mux>>

\* A beat enters the data FIFO; xfer is registered as xfer_int.
Beat(d) ==
  /\ feed[d] # <<>>
  /\ Len(fifo[d]) < FifoDepth
  /\ ~xfer_int[d]
  /\ fifo' = [fifo EXCEPT ![d] = Append(@, Head(feed[d]))]
  /\ feed' = [feed EXCEPT ![d] = Tail(@)]
  /\ xfer_int' = [xfer_int EXCEPT ![d] = TRUE]
  /\ UNCHANGED <<req_q, tag, parser, cnt, req_cred, arb, mux_q, mux>>

(***************************************************************************)
(* req_parser.                                                             *)
(***************************************************************************)

Accept(d) ==
  /\ parser[d].state = "IDLE"
  /\ req_q[d] # <<>>
  /\ parser' = [parser EXCEPT ![d] = [@ EXCEPT !.state = "PARSE",
                  !.tag = Head(req_q[d]).tag, !.len = Head(req_q[d]).len]]
  /\ req_q' = [req_q EXCEPT ![d] = Tail(@)]
  /\ UNCHANGED <<feed, tag, cnt, xfer_int, req_cred, fifo, arb, mux_q, mux>>

\* Mutant: requests are not split.
ParsedWhole(len) == len

Parsed(len) == IF len > PARSE_SIZE THEN PARSE_SIZE ELSE len

Parse(d) ==
  LET len == parser[d].len
      plen == Parsed(len) IN
  /\ parser[d].state = "PARSE"
  /\ parser' = [parser EXCEPT ![d] =
                  [@ EXCEPT !.state = "SEND", !.len = len - plen, !.plen = plen]]
  /\ UNCHANGED <<req_q, feed, tag, cnt, xfer_int, req_cred, fifo, arb, mux_q, mux>>

(***************************************************************************)
(* req_credits_wr: a clock edge. It passes the parsed piece on when the    *)
(* counter covers it, and counts the beat of the edge before.              *)
(***************************************************************************)

\* Mutant: the credits are counted like the n_tr of the arbiter.
NBeatsLessOne(len) == (len - 1) \div BeatBytes

n_beats(len) == len \div BeatBytes

Releasable(d) ==
  /\ parser[d].state = "SEND"
  /\ Len(req_cred[d]) < RegDepth
  /\ cnt[d] >= n_beats(parser[d].plen)

xfer(d) == IF xfer_int[d] THEN 1 ELSE 0

Release(d) ==
  /\ Releasable(d)
  /\ cnt' = [cnt EXCEPT ![d] =
               (@ - n_beats(parser[d].plen) + xfer(d)) % CntSize]
  /\ xfer_int' = [xfer_int EXCEPT ![d] = FALSE]
  /\ req_cred' = [req_cred EXCEPT ![d] =
                    Append(@, [tag |-> parser[d].tag, len |-> parser[d].plen])]
  /\ parser' = [parser EXCEPT ![d] = IF @.len # 0 THEN [@ EXCEPT !.state = "PARSE", !.plen = 0]
                                                  ELSE IdleParser]
  /\ UNCHANGED <<req_q, feed, tag, fifo, arb, mux_q, mux>>

Count(d) ==
  /\ xfer_int[d]
  /\ ~Releasable(d)
  /\ cnt' = [cnt EXCEPT ![d] = (@ + 1) % CntSize]
  /\ xfer_int' = [xfer_int EXCEPT ![d] = FALSE]
  /\ UNCHANGED <<req_q, feed, tag, parser, req_cred, fifo, arb, mux_q, mux>>

(***************************************************************************)
(* dest_req_arb: the first lane with a piece, from rr_reg on. The lane     *)
(* sees ready_src even when the sequence queue has no room: the piece is   *)
(* then consumed while valid_src is low, so nobody gets it.                *)
(***************************************************************************)

\* Mutant: the multiplexer's count includes the last beat.
NTrAll(len) == len \div BeatBytes

n_tr(len) == (len - 1) \div BeatBytes

SeqReady == Len(mux_q) < N_OUTSTANDING_REGION

RrNext == (rr_reg + 1) % N_DESTS

Arbitrate(i) ==
  LET d == (rr_reg + i) % N_DESTS
      p == Head(req_cred[d]) IN
  /\ req_cred[d] # <<>>
  /\ \A j \in 0 .. i - 1 : req_cred[(rr_reg + j) % N_DESTS] = <<>>
  /\ Len(m_req) < RegDepth
  /\ req_cred' = [req_cred EXCEPT ![d] = Tail(@)]
  /\ IF SeqReady
       THEN /\ m_req' = Append(m_req, p)
            /\ mux_q' = Append(mux_q, [dest |-> d, tag |-> p.tag, n_tr |-> n_tr(p.len)])
            /\ rr_reg' = RrNext
            /\ UNCHANGED lost
       ELSE lost' = TRUE /\ UNCHANGED <<m_req, mux_q, rr_reg>>
  /\ UNCHANGED <<lane, fifo, ahead, mux>>

\* The shell takes a piece (external: the MMU and the DMA engine).
Take ==
  /\ m_req # <<>>
  /\ ahead < Ahead
  /\ m_req' = Tail(m_req)
  /\ ahead' = ahead + 1
  /\ UNCHANGED <<lane, req_cred, fifo, rr_reg, lost, mux_q, mux>>

(***************************************************************************)
(* axis_mux_user_wr.                                                       *)
(***************************************************************************)

\* mux.ready: the next order is loaded.
Load ==
  /\ mux' = [state |-> "MUX", dest |-> Head(mux_q).dest, tag |-> Head(mux_q).tag,
             cnt |-> Head(mux_q).n_tr]
  /\ mux_q' = Tail(mux_q)
  /\ ahead' = ahead - 1

MuxStart ==
  /\ mux.state = "IDLE"
  /\ mux_q # <<>>
  /\ Load
  /\ UNCHANGED <<lane, req_cred, fifo, rr_reg, m_req, lost>>

MuxBeat ==
  /\ mux.state = "MUX"
  /\ fifo[mux.dest] # <<>>
  /\ fifo' = [fifo EXCEPT ![mux.dest] = Tail(@)]
  /\ \/ mux.cnt # 0 /\ mux' = [mux EXCEPT !.cnt = @ - 1] /\ UNCHANGED <<mux_q, ahead>>
     \/ mux.cnt = 0 /\ mux_q # <<>> /\ Load
     \/ mux.cnt = 0 /\ mux_q = <<>> /\ mux' = IdleMux
        /\ UNCHANGED <<mux_q, ahead>>
  /\ UNCHANGED <<lane, req_cred, rr_reg, m_req, lost>>

Lane(d) == Beat(d) \/ Accept(d) \/ Parse(d) \/ Release(d) \/ Count(d)

Arbiter == \E i \in Dests : Arbitrate(i)

Next ==
  \/ \E d \in Dests, len \in Lens : Request(d, len)
  \/ \E d \in Dests : Lane(d)
  \/ Arbiter
  \/ Take
  \/ MuxStart \/ MuxBeat

Fairness ==
  /\ \A d \in Dests : /\ WF_vars(Beat(d))
                      /\ WF_vars(Accept(d) \/ Parse(d))
                      /\ WF_vars(Release(d) \/ Count(d))
  /\ WF_vars(Arbiter)
  /\ WF_vars(Take)
  /\ WF_vars(MuxStart \/ MuxBeat)

Spec == Init /\ [][Next]_vars /\ Fairness

-----------------------------------------------------------------------------

(***************************************************************************)
(* Every beat the multiplexer forwards belongs to the request whose piece  *)
(* it is serving: commands (m_req) and data (m_axis) leave in the same     *)
(* order although lanes, arbiter and multiplexer each keep their own       *)
(* count of beats.                                                         *)
(***************************************************************************)
BeatsBelongToTheirRequest ==
  mux.state = "MUX" /\ fifo[mux.dest] # <<>> => Head(fifo[mux.dest]) = mux.tag

\* Beats the multiplexer has yet to forward of the piece it serves, if that is
\* one of lane d, and those of the pieces released after it.
Served(d) == IF mux.state = "MUX" /\ mux.dest = d THEN mux.cnt + 1 ELSE 0
Due(d) ==
  [i \in 1 .. Len(mux_q) |-> IF mux_q[i].dest = d THEN mux_q[i].n_tr + 1 ELSE 0]
  \o [i \in 1 .. Len(req_cred[d]) |-> Beats(req_cred[d][i].len)]

(***************************************************************************)
(* A piece that req_credits_wr passed on has all its data in the FIFO of   *)
(* its lane, so a lane whose user logic stalls never holds up the          *)
(* multiplexer that all lanes share: "Prevents region stalls from          *)
(* propagating to the whole system" (req_credits_wr.sv:34). The beats of   *)
(* the FIFO can be dealt out to the pieces one after the other, up to      *)
(* beat f[i] for those up to the i-th. It takes the credit count, the      *)
(* splitting and the multiplexer's own count of beats to agree over every  *)
(* interleaving.                                                           *)
(***************************************************************************)
ReleasedDataIsPresent ==
  \A d \in Dests :
    \E f \in [0 .. Len(Due(d)) -> 0 .. Len(fifo[d])] :
      /\ f[0] = Served(d)
      /\ \A i \in 1 .. Len(Due(d)) : f[i] = f[i - 1] + Due(d)[i]

(***************************************************************************)
(* No piece vanishes in dest_req_arb, as long as the shell takes at most   *)
(* Ahead pieces before their data starts and that, with the output         *)
(* register, fits the sequence queue.                                      *)
(***************************************************************************)
NothingIsLost == Ahead + RegDepth <= N_OUTSTANDING_REGION => ~lost

(***************************************************************************)
(* A piece that waits in req_parser for credits is always released: the    *)
(* data FIFO is deep enough for a whole piece, the credits suffice in the  *)
(* end, and the round robin of dest_req_arb starves no lane.               *)
(***************************************************************************)
HeldPiecesAreReleased ==
  \A d \in Dests : parser[d].state = "SEND" ~> parser[d].state # "SEND"

=============================================================================
