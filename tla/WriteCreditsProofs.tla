------------------------- MODULE WriteCreditsProofs -------------------------
(***************************************************************************)
(* For any number of lanes, any lengths and any depths: the state keeps    *)
(* its type, and the arbiter loses no piece as long as the shell does not  *)
(* run too far ahead of the data. With pieces of whole beats, the beats a  *)
(* piece takes are then its own, and wait in the FIFO from its release on. *)
(***************************************************************************)
EXTENDS WriteCredits, TLAPS

\* The time each prover has for a leaf that names none.
USE ZenonT(3), SMTT(60), ZenonT(60)

\* Remainders and quotients stay in range.
LEMMA DivMod ==
  ASSUME NEW x \in Int, NEW n \in Nat \ {0}
  PROVE  /\ x % n \in 0 .. n - 1
         /\ x \div n \in Int
         /\ x >= 0 => x \div n \in Nat
  OBVIOUS

\* The counts of beats are natural numbers.
LEMMA CountsType ==
  ASSUME NEW len \in Nat \ {0}
  PROVE  Beats(len) \in Nat /\ n_beats(len) \in Nat /\ n_tr(len) \in Nat
<1>1. BeatBytes \in Nat \ {0}
  BY CreditsAssumption
<1>2. len + BeatBytes - 1 \in Nat /\ len - 1 \in Nat
  BY <1>1
<1>3. QED
  BY <1>1, <1>2, DivMod DEF Beats, n_beats, n_tr

\* The arbiter stays within the lanes.
LEMMA LaneType ==
  ASSUME rr_reg \in Dests
  PROVE  RrNext \in Dests /\ \A i \in Dests : (rr_reg + i) % N_DESTS \in Dests
<1>1. N_DESTS \in Nat \ {0}
  BY CreditsAssumption
<1>2. QED
  BY <1>1, DivMod DEF Dests, RrNext

(* The parser never holds an empty piece: req_parser goes back to IDLE     *)
(* when nothing is left. Without this n_tr would underflow.                *)
ParserInv ==
  \A d \in Dests : /\ parser[d].state = "PARSE" => parser[d].len # 0
                   /\ parser[d].state = "SEND" => parser[d].plen # 0

(* Every piece handed to the shell has its order in the sequence queue     *)
(* until its data starts, so the queue is as long as the pieces in the     *)
(* output register and those the shell has taken ahead.                    *)
QueueInv == Len(mux_q) = Len(m_req) + ahead

CreditInv == TypeOK /\ ParserInv /\ QueueInv

Parsers == [state : {"IDLE", "PARSE", "SEND"}, tag : Tags, len : Nat, plen : Nat]
Muxes == [state : {"IDLE", "MUX"}, dest : Dests, tag : Tags, cnt : Nat]

\* The type invariant, one fact at a time.
LEMMA Types ==
  ASSUME CreditInv
  PROVE  /\ req_q \in [Dests -> Seq(Piece)]
         /\ \A d \in Dests : Len(req_q[d]) <= QDEPTH
         /\ feed \in [Dests -> Seq(Tags)]
         /\ tag \in [Dests -> Tags]
         /\ parser \in [Dests -> Parsers]
         /\ cnt \in [Dests -> 0 .. CntSize - 1]
         /\ xfer_int \in [Dests -> BOOLEAN]
         /\ req_cred \in [Dests -> Seq(Piece)]
         /\ \A d \in Dests : Len(req_cred[d]) <= RegDepth
         /\ fifo \in [Dests -> Seq(Tags)]
         /\ \A d \in Dests : Len(fifo[d]) <= FifoDepth
  BY DEF CreditInv, TypeOK, Parsers

\* The same for the arbiter and the multiplexer.
LEMMA ArbTypes ==
  ASSUME CreditInv
  PROVE  /\ m_req \in Seq(Piece) /\ Len(m_req) \in Nat /\ Len(m_req) <= RegDepth
         /\ mux_q \in Seq(Order) /\ Len(mux_q) \in Nat
         /\ Len(mux_q) <= N_OUTSTANDING_REGION
         /\ ahead \in Int /\ ahead <= Ahead
         /\ mux \in Muxes
<1>1. /\ m_req \in Seq(Piece) /\ Len(m_req) <= RegDepth
      /\ mux_q \in Seq(Order) /\ Len(mux_q) <= N_OUTSTANDING_REGION
      /\ ahead \in Int /\ ahead <= Ahead
      /\ mux \in Muxes
  BY DEF CreditInv, TypeOK, Muxes
<1>2. QED
  BY <1>1

\* After reset every queue is empty and every block idle.
LEMMA InitCreditInv == Init => CreditInv
<1> SUFFICES ASSUME Init PROVE CreditInv
  OBVIOUS
<1>1. /\ 0 \in Dests /\ 0 \in 0 .. CntSize - 1 /\ 0 \in Tags
      /\ 0 <= QDEPTH /\ 0 <= RegDepth /\ 0 <= FifoDepth /\ 0 <= Ahead
      /\ 0 <= N_OUTSTANDING_REGION
  BY CreditsAssumption DEF Dests, Tags
<1>2. /\ IdleParser \in [state : {"IDLE", "PARSE", "SEND"}, tag : Tags,
                           len : Nat, plen : Nat]
      /\ IdleMux \in [state : {"IDLE", "MUX"}, dest : Dests, tag : Tags, cnt : Nat]
  BY <1>1 DEF IdleParser, IdleMux
<1>3. xfer_int \in [Dests -> BOOLEAN] /\ lost \in BOOLEAN
  BY DEF Init
<1>4. /\ req_q \in [Dests -> Seq(Piece)] /\ \A d \in Dests : Len(req_q[d]) <= QDEPTH
      /\ feed \in [Dests -> Seq(Tags)]
      /\ req_cred \in [Dests -> Seq(Piece)]
      /\ \A d \in Dests : Len(req_cred[d]) <= RegDepth
      /\ fifo \in [Dests -> Seq(Tags)] /\ \A d \in Dests : Len(fifo[d]) <= FifoDepth
      /\ m_req \in Seq(Piece) /\ Len(m_req) <= RegDepth
      /\ mux_q \in Seq(Order) /\ Len(mux_q) <= N_OUTSTANDING_REGION
  BY <1>1 DEF Init
<1>5. /\ tag \in [Dests -> Tags] /\ cnt \in [Dests -> 0 .. CntSize - 1]
      /\ rr_reg \in Dests /\ ahead \in Int /\ ahead <= Ahead
  BY <1>1 DEF Init
<1>6. TypeOK
  BY <1>2, <1>3, <1>4, <1>5 DEF Init, TypeOK
<1>7. QED
  BY <1>6 DEF Init, CreditInv, ParserInv, QueueInv, IdleParser

\* Nothing but the state matters.
LEMMA StutterCreditInv == CreditInv /\ UNCHANGED vars => CreditInv'
  BY DEF CreditInv, TypeOK, ParserInv, QueueInv, vars, lane, arb

\* Putting an element into the queue of one lane.
LEMMA Push ==
  ASSUME NEW S, NEW n \in Nat, NEW q \in [Dests -> Seq(S)],
         \A e \in Dests : Len(q[e]) <= n,
         NEW d \in Dests, Len(q[d]) < n, NEW x \in S
  PROVE  /\ [q EXCEPT ![d] = Append(@, x)] \in [Dests -> Seq(S)]
         /\ \A e \in Dests : Len([q EXCEPT ![d] = Append(@, x)][e]) <= n
  OBVIOUS

\* Taking one out.
LEMMA Pop ==
  ASSUME NEW S, NEW q \in [Dests -> Seq(S)], NEW d \in Dests, q[d] # <<>>
  PROVE  /\ Head(q[d]) \in S /\ Tail(q[d]) \in Seq(S)
         /\ Len(Tail(q[d])) = Len(q[d]) - 1
         /\ [q EXCEPT ![d] = Tail(@)] \in [Dests -> Seq(S)]
         /\ \A n \in Nat : (\A e \in Dests : Len(q[e]) <= n)
              => \A e \in Dests : Len([q EXCEPT ![d] = Tail(@)][e]) <= n
<1>1. Head(q[d]) \in S /\ Tail(q[d]) \in Seq(S) /\ Len(Tail(q[d])) = Len(q[d]) - 1
  OBVIOUS
<1>2. QED
  BY <1>1

\* The depths are natural numbers.
LEMMA Depths ==
  /\ QDEPTH \in Nat /\ RegDepth \in Nat /\ FifoDepth \in Nat /\ Ahead \in Nat
  /\ N_OUTSTANDING_REGION \in Nat
  BY CreditsAssumption

\* A parser that moves to a consistent state.
LEMMA ParserMoves ==
  ASSUME CreditInv, NEW d \in Dests, NEW p \in Parsers,
         p.state = "PARSE" => p.len # 0, p.state = "SEND" => p.plen # 0,
         parser' = [parser EXCEPT ![d] = p]
  PROVE  parser' \in [Dests -> Parsers] /\ ParserInv'
<1>1. parser' \in [Dests -> Parsers]
  BY Types
<1>2. \A e \in Dests : parser'[e] = IF e = d THEN p ELSE parser[e]
  BY Types
<1>3. QED
  BY <1>1, <1>2 DEF ParserInv, CreditInv

\* Requests of the user logic.
LEMMA RequestCreditInv ==
  ASSUME CreditInv, NEW d \in Dests, NEW len \in Lens, Request(d, len)
  PROVE  CreditInv'
<1>1. len \in Nat \ {0} /\ Beats(len) \in Nat
  BY CreditsAssumption, CountsType
<1>2. PICK t \in Tags : t = 1 - tag[d]
  <2>1. tag[d] \in Tags
    BY Types
  <2>2. QED
    BY <2>1 DEF Tags
<1>3. /\ Len(req_q[d]) < QDEPTH
      /\ tag' = [tag EXCEPT ![d] = t]
      /\ req_q' = [req_q EXCEPT ![d] = Append(@, [tag |-> t, len |-> len])]
      /\ feed' = [feed EXCEPT ![d] = @ \o [i \in 1 .. Beats(len) |-> t]]
  BY <1>2 DEF Request
<1>4. [tag |-> t, len |-> len] \in Piece
  BY <1>1 DEF Piece
<1>5. tag' \in [Dests -> Tags]
  BY Types, <1>3
<1>6. feed' \in [Dests -> Seq(Tags)]
  <2>1. [i \in 1 .. Beats(len) |-> t] \in Seq(Tags)
    BY <1>1
  <2>2. QED
    BY Types, <1>3, <2>1
<1>7. req_q' \in [Dests -> Seq(Piece)] /\ \A e \in Dests : Len(req_q'[e]) <= QDEPTH
  BY Types, Depths, Push, <1>3, <1>4
<1>8. QED
  BY <1>5, <1>6, <1>7
     DEF Request, CreditInv, TypeOK, ParserInv, QueueInv, arb

\* Beats of the user logic.
LEMMA BeatCreditInv ==
  ASSUME CreditInv, NEW d \in Dests, Beat(d) PROVE CreditInv'
<1>1. Head(feed[d]) \in Tags /\ feed' \in [Dests -> Seq(Tags)]
  BY Types, Pop DEF Beat
<1>2. fifo' \in [Dests -> Seq(Tags)] /\ \A e \in Dests : Len(fifo'[e]) <= FifoDepth
  <2>1. /\ Len(fifo[d]) < FifoDepth
        /\ fifo' = [fifo EXCEPT ![d] = Append(@, Head(feed[d]))]
    BY DEF Beat
  <2>2. QED
    BY Types, Depths, Push, <1>1, <2>1
<1>3. xfer_int' \in [Dests -> BOOLEAN]
  BY Types DEF Beat
<1>4. QED
  BY <1>1, <1>2, <1>3
     DEF Beat, CreditInv, TypeOK, ParserInv, QueueInv, arb

\* req_parser takes a request.
LEMMA AcceptCreditInv ==
  ASSUME CreditInv, NEW d \in Dests, Accept(d) PROVE CreditInv'
<1>1. /\ Head(req_q[d]) \in Piece
      /\ req_q' \in [Dests -> Seq(Piece)]
      /\ \A e \in Dests : Len(req_q'[e]) <= QDEPTH
  <2>1. req_q[d] # <<>> /\ req_q' = [req_q EXCEPT ![d] = Tail(@)]
    BY DEF Accept
  <2>2. QED
    BY Types, Depths, Pop, <2>1
<1>2. PICK p \in Parsers : p = [parser[d] EXCEPT !.state = "PARSE",
                                  !.tag = Head(req_q[d]).tag,
                                  !.len = Head(req_q[d]).len]
  <2>1. parser[d] \in Parsers
    BY Types
  <2>2. Head(req_q[d]).tag \in Tags /\ Head(req_q[d]).len \in Nat
    BY <1>1 DEF Piece
  <2>3. QED
    BY <2>1, <2>2 DEF Parsers
<1>3. p.state = "PARSE" /\ p.len # 0 /\ parser' = [parser EXCEPT ![d] = p]
  <2>1. parser[d] \in Parsers
    BY Types
  <2>2. p.state = "PARSE" /\ p.len # 0
    BY <1>1, <1>2, <2>1 DEF Parsers, Piece
  <2>3. QED
    BY <1>2, <2>2 DEF Accept
<1>4. parser' \in [Dests -> Parsers] /\ ParserInv'
  BY <1>3, ParserMoves
<1>5. QED
  BY <1>1, <1>4 DEF Accept, CreditInv, TypeOK, QueueInv, arb, Parsers

\* req_parser cuts off a piece.
LEMMA ParseCreditInv ==
  ASSUME CreditInv, NEW d \in Dests, Parse(d) PROVE CreditInv'
<1>1. parser[d] \in Parsers /\ parser[d].len \in Nat \ {0}
  BY Types DEF Parse, CreditInv, ParserInv, Parsers
<1>2. /\ Parsed(parser[d].len) \in Nat \ {0}
      /\ parser[d].len - Parsed(parser[d].len) \in Nat
  BY <1>1, CreditsAssumption DEF Parsed
<1>3. PICK p \in Parsers : p = [parser[d] EXCEPT !.state = "SEND",
                                  !.len = parser[d].len - Parsed(parser[d].len),
                                  !.plen = Parsed(parser[d].len)]
  BY <1>1, <1>2 DEF Parsers
<1>4. p.state = "SEND" /\ p.plen # 0 /\ parser' = [parser EXCEPT ![d] = p]
  BY Types, <1>1, <1>2, <1>3 DEF Parse, Parsers
<1>5. parser' \in [Dests -> Parsers] /\ ParserInv'
  BY <1>4, ParserMoves
<1>6. QED
  BY <1>5 DEF Parse, CreditInv, TypeOK, QueueInv, arb, Parsers

\* The counter of one lane is set.
LEMMA Counts ==
  ASSUME CreditInv, NEW d \in Dests, NEW n \in 0 .. CntSize - 1,
         cnt' = [cnt EXCEPT ![d] = n]
  PROVE  cnt' \in [Dests -> 0 .. CntSize - 1]
  BY Types

\* A clock edge of req_credits_wr.
LEMMA EdgeCreditInv ==
  ASSUME CreditInv, NEW d \in Dests, Release(d) \/ Count(d) PROVE CreditInv'
<1>0. cnt[d] \in Int /\ CntSize \in Nat \ {0}
  BY Types, CreditsAssumption
<1>1. xfer_int' \in [Dests -> BOOLEAN]
  BY Types DEF Release, Count
<1>2. CASE Release(d)
  <2>1. parser[d] \in Parsers /\ parser[d].plen \in Nat \ {0}
    BY Types, <1>2 DEF Release, Releasable, CreditInv, ParserInv, Parsers
  <2>2. n_beats(parser[d].plen) \in Nat /\ xfer(d) \in Nat
    BY <2>1, CountsType DEF xfer
  <2>3. (cnt[d] - n_beats(parser[d].plen) + xfer(d)) % CntSize \in 0 .. CntSize - 1
    <3>1. cnt[d] - n_beats(parser[d].plen) + xfer(d) \in Int
      BY <1>0, <2>2
    <3>2. QED
      BY <1>0, <3>1, DivMod
  <2>4. cnt' \in [Dests -> 0 .. CntSize - 1]
    BY Counts, <1>2, <2>3 DEF Release
  <2>5. [tag |-> parser[d].tag, len |-> parser[d].plen] \in Piece
    BY <2>1 DEF Parsers, Piece
  <2>6. /\ req_cred' \in [Dests -> Seq(Piece)]
        /\ \A e \in Dests : Len(req_cred'[e]) <= RegDepth
    BY Types, Depths, Push, <1>2, <2>5 DEF Release, Releasable
  <2>7. PICK p : p = IF parser[d].len # 0
                     THEN [parser[d] EXCEPT !.state = "PARSE", !.plen = 0]
                     ELSE IdleParser
    OBVIOUS
  <2>8. /\ p \in Parsers
        /\ p.state = "PARSE" => p.len # 0
        /\ p.state # "SEND"
    <3>1. IdleParser \in Parsers /\ IdleParser.state = "IDLE"
      BY DEF Parsers, IdleParser, Tags
    <3>2. CASE parser[d].len # 0
      BY <2>1, <2>7, <3>2 DEF Parsers
    <3>3. QED
      BY <2>7, <3>1, <3>2
  <2>9. parser' = [parser EXCEPT ![d] = p]
    BY <1>2, <2>7 DEF Release
  <2>10. parser' \in [Dests -> Parsers] /\ ParserInv'
    BY <2>8, <2>9, ParserMoves
  <2>11. QED
    BY <1>1, <1>2, <2>4, <2>6, <2>10
       DEF Release, CreditInv, TypeOK, QueueInv, arb, Parsers
<1>3. CASE Count(d)
  <2>1. cnt' \in [Dests -> 0 .. CntSize - 1]
    <3>0. cnt[d] + 1 \in Int
      BY <1>0
    <3>1. (cnt[d] + 1) % CntSize \in 0 .. CntSize - 1
      BY <1>0, <3>0, DivMod
    <3>2. QED
      BY Counts, <1>3, <3>1 DEF Count
  <2>2. QED
    BY <1>1, <1>3, <2>1
       DEF Count, CreditInv, TypeOK, ParserInv, QueueInv, arb
<1>4. QED
  BY <1>2, <1>3

\* The arbiter, whether or not the sequence queue has room.
LEMMA ArbitrateCreditInv ==
  ASSUME CreditInv, NEW i \in Dests, Arbitrate(i) PROVE CreditInv'
<1>1. PICK d \in Dests : d = (rr_reg + i) % N_DESTS
  BY LaneType DEF CreditInv, TypeOK
<1>2. /\ Head(req_cred[d]) \in Piece
      /\ req_cred' \in [Dests -> Seq(Piece)]
      /\ \A e \in Dests : Len(req_cred'[e]) <= RegDepth
  <2>1. req_cred[d] # <<>> /\ req_cred' = [req_cred EXCEPT ![d] = Tail(@)]
    BY <1>1 DEF Arbitrate
  <2>2. QED
    BY Types, Depths, Pop, <2>1
<1>3. PICK p \in Piece : p = Head(req_cred[d])
  BY <1>2
<1>4. CASE SeqReady
  <2>1. /\ m_req' = Append(m_req, p) /\ Len(m_req) < RegDepth
        /\ mux_q' = Append(mux_q, [dest |-> d, tag |-> p.tag, n_tr |-> n_tr(p.len)])
        /\ rr_reg' = RrNext /\ lost' = lost /\ ahead' = ahead
    BY <1>1, <1>3, <1>4 DEF Arbitrate
  <2>2. [dest |-> d, tag |-> p.tag, n_tr |-> n_tr(p.len)] \in Order
    BY <1>3, CountsType DEF Piece, Order
  <2>3. /\ m_req' \in Seq(Piece) /\ Len(m_req') = Len(m_req) + 1
        /\ mux_q' \in Seq(Order) /\ Len(mux_q') = Len(mux_q) + 1
    BY ArbTypes, <2>1, <2>2
  <2>4. /\ Len(m_req') <= RegDepth /\ Len(mux_q') <= N_OUTSTANDING_REGION
        /\ Len(mux_q') = Len(m_req') + ahead'
    <3>1. /\ Len(m_req) \in Nat /\ Len(mux_q) \in Nat /\ ahead \in Int
          /\ Len(m_req) < RegDepth /\ Len(mux_q) < N_OUTSTANDING_REGION
      BY ArbTypes, <1>4, <2>1 DEF SeqReady
    <3>2. Len(mux_q) = Len(m_req) + ahead
      BY DEF CreditInv, QueueInv
    <3>3. QED
      BY Depths, <2>1, <2>3, <3>1, <3>2
  <2>5. rr_reg' \in Dests
    BY <2>1, LaneType DEF CreditInv, TypeOK
  <2>6. QED
    BY <1>2, <2>1, <2>3, <2>4, <2>5
       DEF Arbitrate, CreditInv, TypeOK, ParserInv, QueueInv, lane
<1>5. CASE ~SeqReady
  BY <1>2, <1>5
     DEF Arbitrate, CreditInv, TypeOK, ParserInv, QueueInv, lane
<1>6. QED
  BY <1>4, <1>5

\* The shell takes a piece.
LEMMA TakeCreditInv ==
  ASSUME CreditInv, Take PROVE CreditInv'
<1>1. /\ m_req' \in Seq(Piece) /\ Len(m_req') = Len(m_req) - 1
      /\ Len(m_req) \in Nat /\ Len(m_req) <= RegDepth
  BY ArbTypes DEF Take
<1>2. /\ ahead' \in Int /\ ahead' <= Ahead /\ ahead' = ahead + 1 /\ ahead \in Int
      /\ mux_q' = mux_q /\ Len(mux_q) = Len(m_req) + ahead
  BY ArbTypes, Depths DEF Take, CreditInv, QueueInv
<1>3. Len(m_req') <= RegDepth /\ Len(mux_q') = Len(m_req') + ahead'
  BY <1>1, <1>2, Depths
<1>4. QED
  BY <1>1, <1>2, <1>3 DEF Take, CreditInv, TypeOK, ParserInv, QueueInv, lane

\* The multiplexer takes its next order.
LEMMA LoadTypes ==
  ASSUME CreditInv, mux_q # <<>>, Load
  PROVE  /\ mux' \in Muxes
         /\ mux_q' \in Seq(Order) /\ Len(mux_q') <= N_OUTSTANDING_REGION
         /\ ahead' \in Int /\ ahead' <= Ahead
         /\ Len(mux_q') = Len(m_req) + ahead'
<1>1. /\ Head(mux_q) \in Order /\ mux_q' \in Seq(Order)
      /\ Len(mux_q') = Len(mux_q) - 1
      /\ Len(mux_q) \in Nat /\ Len(mux_q) <= N_OUTSTANDING_REGION
  BY ArbTypes DEF Load
<1>2. mux' \in Muxes
  BY <1>1 DEF Load, Muxes, Order
<1>3. /\ ahead' = ahead - 1 /\ ahead \in Int /\ ahead <= Ahead
      /\ Len(mux_q) = Len(m_req) + ahead /\ Len(m_req) \in Nat
  BY ArbTypes DEF Load, CreditInv, QueueInv
<1>4. QED
  BY <1>1, <1>2, <1>3, Depths

\* axis_mux_user_wr.
LEMMA MuxCreditInv ==
  ASSUME CreditInv, MuxStart \/ MuxBeat PROVE CreditInv'
<1>1. CASE MuxStart
  <2>1. mux_q # <<>> /\ Load
    BY <1>1 DEF MuxStart
  <2>2. QED
    BY <1>1, <2>1, LoadTypes
       DEF MuxStart, CreditInv, TypeOK, ParserInv, QueueInv, lane, Muxes
<1>2. CASE MuxBeat
  <2>1. mux \in Muxes /\ mux.dest \in Dests
    BY ArbTypes DEF Muxes
  <2>2. fifo' \in [Dests -> Seq(Tags)] /\ \A e \in Dests : Len(fifo'[e]) <= FifoDepth
    <3>1. /\ fifo[mux.dest] # <<>>
          /\ fifo' = [fifo EXCEPT ![mux.dest] = Tail(@)]
      BY <1>2 DEF MuxBeat
    <3>2. QED
      BY Types, Depths, Pop, <2>1, <3>1
  <2>3. CASE mux.cnt # 0
    <3>1. mux' \in Muxes
      BY <1>2, <2>1, <2>3 DEF MuxBeat, Muxes
    <3>2. mux_q' = mux_q /\ ahead' = ahead
      BY <1>2, <2>3 DEF MuxBeat
    <3>3. QED
      BY <1>2, <2>2, <3>1, <3>2
         DEF MuxBeat, CreditInv, TypeOK, ParserInv, QueueInv, lane, Muxes
  <2>4. CASE mux.cnt = 0 /\ mux_q # <<>>
    <3>1. Load
      BY <1>2, <2>4 DEF MuxBeat
    <3>2. QED
      BY <1>2, <2>2, <2>4, <3>1, LoadTypes
         DEF MuxBeat, CreditInv, TypeOK, ParserInv, QueueInv, lane, Muxes
  <2>5. CASE mux.cnt = 0 /\ mux_q = <<>>
    <3>1. mux' = IdleMux /\ mux_q' = mux_q /\ ahead' = ahead
      BY <1>2, <2>5 DEF MuxBeat
    <3>2. mux' \in Muxes
      <4>1. 0 \in Dests
        BY CreditsAssumption DEF Dests
      <4>2. QED
        BY <3>1, <4>1 DEF IdleMux, Muxes, Tags
    <3>3. QED
      BY <1>2, <2>2, <3>1, <3>2
         DEF MuxBeat, CreditInv, TypeOK, ParserInv, QueueInv, lane, Muxes
  <2>6. QED
    BY <2>3, <2>4, <2>5
<1>3. QED
  BY <1>1, <1>2

\* Every step of every block keeps the invariant.
LEMMA NextCreditInv == CreditInv /\ [Next]_vars => CreditInv'
<1> SUFFICES ASSUME CreditInv, [Next]_vars PROVE CreditInv'
  OBVIOUS
<1>1. CASE Next
  BY <1>1, RequestCreditInv, BeatCreditInv, AcceptCreditInv, ParseCreditInv,
     EdgeCreditInv, ArbitrateCreditInv, TakeCreditInv, MuxCreditInv
     DEF Next, Lane, Arbiter
<1>2. CASE UNCHANGED vars
  BY <1>2, StutterCreditInv
<1>3. QED
  BY <1>1, <1>2

(* The write path keeps its type: in particular no counter of beats        *)
(* underflows, since req_parser never sends an empty piece.                *)
THEOREM CreditTypeCorrect == Spec => []TypeOK
<1>1. CreditInv => TypeOK
  BY DEF CreditInv
<1>2. QED
  BY <1>1, InitCreditInv, NextCreditInv, PTL DEF Spec

\* The sequence queue has room when the arbiter fires, as long as the shell
\* does not run too far ahead.
LEMMA ArbiterHasRoom ==
  ASSUME CreditInv, Ahead + RegDepth <= N_OUTSTANDING_REGION,
         NEW i \in Dests, Arbitrate(i)
  PROVE  SeqReady
<1>1. Len(m_req) < RegDepth
  BY DEF Arbitrate
<1>2. /\ Len(m_req) \in Nat /\ ahead \in Int /\ ahead <= Ahead
      /\ Len(mux_q) = Len(m_req) + ahead
  BY ArbTypes DEF CreditInv, QueueInv
<1>3. QED
  BY <1>1, <1>2, Depths DEF SeqReady

(* dest_req_arb consumes a piece without passing it on only when the       *)
(* sequence queue is full, and the queue is never full while the shell     *)
(* takes at most Ahead pieces before their data.                           *)
THEOREM NoPieceIsLost == Spec => []NothingIsLost
<1> DEFINE Inv == CreditInv /\ NothingIsLost
<1>1. Init => Inv
  BY InitCreditInv DEF Init, NothingIsLost
<1>2. Inv /\ [Next]_vars => NothingIsLost'
  <2> SUFFICES ASSUME CreditInv, NothingIsLost, [Next]_vars,
                      Ahead + RegDepth <= N_OUTSTANDING_REGION
               PROVE  ~lost'
    BY DEF NothingIsLost
  <2>1. ~lost
    BY DEF NothingIsLost
  <2>2. ASSUME NEW i \in Dests, Arbitrate(i) PROVE lost' = lost
    BY <2>2, ArbiterHasRoom DEF Arbitrate
  <2>3. (\E i \in Dests : Arbitrate(i)) \/ lost' = lost
    BY DEF Next, Lane, Arbiter, Request, Beat, Accept, Parse, Release,
                 Count, Take, MuxStart, MuxBeat, arb, vars
  <2>4. QED
    BY <2>1, <2>2, <2>3
<1>3. QED
  BY <1>1, <1>2, NextCreditInv, PTL DEF Spec

-----------------------------------------------------------------------------
(* The beats of a lane, those in its FIFO and those still to come, are     *)
(* those of the piece the multiplexer serves, of the orders for the lane,  *)
(* of the released pieces, of what the parser holds and of the requests    *)
(* that wait, in this order.                                               *)

\* Data and pieces fill whole beats, and the FIFO never outruns the counter.
Whole(len) == \E k \in Nat : len = k * BeatBytes
WholeData == FifoDepth < CntSize /\ \A len \in Lens : Whole(len)

\* Beats of a piece, and of an order for lane d.
PieceBeats == [x \in Piece |-> Beats(x.len)]
OrderBeats(d) == [x \in Order |-> IF x.dest = d THEN x.n_tr + 1 ELSE 0]

\* Beats of what the parser holds.
HeldBeats(p) ==
  CASE p.state = "IDLE" -> 0
    [] p.state = "PARSE" -> Beats(p.len)
    [] p.state = "SEND" -> Beats(p.plen) + Beats(p.len)

\* After beat a of s come those of the elements of q, up to beat b: Z says
\* how many each has, and f where each ends.
Runs(f, Z, a, q, b, s) ==
  /\ f[0] = a /\ f[Len(q)] = b
  /\ \A i, j \in 0 .. Len(q) : i <= j => f[i] <= f[j]
  /\ \A i \in 1 .. Len(q) :
       /\ f[i] = f[i - 1] + Z[q[i]]
       /\ \A j \in f[i - 1] + 1 .. f[i] : s[j] = q[i].tag

Chain(Z, a, q, b, s) == \E f \in [0 .. Len(q) -> 0 .. Len(s)] : Runs(f, Z, a, q, b, s)

\* The n beats after beat a have tag t.
Filled(s, a, n, t) == \A j \in a + 1 .. a + n : s[j] = t

\* Beats s of a lane: a of tag t, those of orders o and pieces p, h of tag g
\* and those of requests r. At most n belong to what was released.
Ordered(Z, s, a, t, o, p, h, g, r, n) ==
  \E b, c \in 0 .. Len(s) :
    /\ Filled(s, 0, a, t)
    /\ Chain(Z, a, o, b, s)
    /\ Chain(PieceBeats, b, p, c, s)
    /\ Filled(s, c, h, g)
    /\ Chain(PieceBeats, c + h, r, Len(s), s)
    /\ WholeData => c <= n

InOrder(d) ==
  Ordered(OrderBeats(d), fifo[d] \o feed[d], Served(d), mux.tag, mux_q, req_cred[d],
          HeldBeats(parser[d]), parser[d].tag, req_q[d],
          Len(fifo[d]) - cnt[d] - xfer(d))

WholeInv ==
  WholeData =>
    \A d \in Dests : /\ \A i \in 1 .. Len(req_q[d]) : Whole(req_q[d][i].len)
                     /\ Whole(parser[d].len) /\ Whole(parser[d].plen)

BeatInv == ~lost /\ WholeInv /\ \A d \in Dests : InOrder(d)

-----------------------------------------------------------------------------
(* Counting beats. *)

\* The quotient is the number of multiples below.
LEMMA Quotient ==
  ASSUME NEW x \in Int, NEW n \in Nat \ {0}, NEW k \in Int, n * k <= x, x < n * k + n
  PROVE  x \div n = k
<1> DEFINE e == x \div n
<1>1. e \in Int /\ n * e <= x /\ x < n * e + n
  OBVIOUS
<1> HIDE DEF e
<1>2. ASSUME NEW i \in Int, NEW j \in Int, i < j PROVE n * i + n <= n * j
  <2>1. PICK m \in Nat : j = i + 1 + m
    BY <1>2
  <2>2. n * j = n * i + n + n * m /\ n * m >= 0
    BY <2>1
  <2>3. QED
    BY <2>2
<1>3. ~ (e < k) /\ ~ (k < e)
  BY <1>1, <1>2
<1>4. QED
  BY <1>1, <1>3 DEF e

\* The least number of beats that hold len bytes.
LEMMA BeatsCover ==
  ASSUME NEW len \in Nat
  PROVE  /\ Beats(len) \in Nat
         /\ len <= BeatBytes * Beats(len) /\ BeatBytes * Beats(len) < len + BeatBytes
<1>1. BeatBytes \in Nat \ {0}
  BY CreditsAssumption
<1>2. PICK x \in Nat : x = len + BeatBytes - 1
  BY <1>1
<1>3. Beats(len) = x \div BeatBytes
  BY <1>2 DEF Beats
<1>4. /\ x \div BeatBytes \in Nat
      /\ BeatBytes * (x \div BeatBytes) <= x
      /\ x < BeatBytes * (x \div BeatBytes) + BeatBytes
  BY <1>1, <1>2
<1>5. QED
  BY <1>1, <1>2, <1>3, <1>4

\* They are the only such number.
LEMMA BeatsAre ==
  ASSUME NEW len \in Nat, NEW k \in Nat,
         len <= BeatBytes * k, BeatBytes * k < len + BeatBytes
  PROVE  Beats(len) = k
<1>1. BeatBytes \in Nat \ {0}
  BY CreditsAssumption
<1>2. len + BeatBytes - 1 \in Int /\ BeatBytes * k \in Int
  BY <1>1
<1>3. /\ BeatBytes * k <= len + BeatBytes - 1
      /\ len + BeatBytes - 1 < BeatBytes * k + BeatBytes
  BY <1>1, <1>2
<1>4. QED
  BY <1>1, <1>2, <1>3, Quotient DEF Beats

\* No bytes, no beats.
LEMMA NoBeats == Beats(0) = 0 /\ Whole(0)
<1>1. BeatBytes \in Nat \ {0}
  BY CreditsAssumption
<1>2. 0 <= BeatBytes * 0 /\ BeatBytes * 0 < 0 + BeatBytes /\ 0 = 0 * BeatBytes
  BY <1>1
<1>3. QED
  BY <1>2, BeatsAre DEF Whole

\* dest_req_arb counts one beat less: the last one ends the transfer.
LEMMA NTrBeats ==
  ASSUME NEW len \in Nat \ {0} PROVE Beats(len) = n_tr(len) + 1
<1>1. BeatBytes \in Nat \ {0} /\ len - 1 \in Nat
  BY CreditsAssumption
<1>2. /\ n_tr(len) \in Nat /\ BeatBytes * n_tr(len) <= len - 1
      /\ len - 1 < BeatBytes * n_tr(len) + BeatBytes
  BY <1>1 DEF n_tr
<1>3. /\ len <= BeatBytes * (n_tr(len) + 1)
      /\ BeatBytes * (n_tr(len) + 1) < len + BeatBytes
  BY <1>1, <1>2
<1>4. QED
  BY <1>2, <1>3, BeatsAre

\* For whole beats req_credits_wr counts right.
LEMMA NBeatsWhole ==
  ASSUME NEW len \in Nat, Whole(len) PROVE n_beats(len) = Beats(len)
<1>1. BeatBytes \in Nat \ {0}
  BY CreditsAssumption
<1>2. PICK k \in Nat : len = k * BeatBytes
  BY DEF Whole
<1>3. BeatBytes * k = len
  BY <1>1, <1>2
<1>4. Beats(len) = k
  BY <1>1, <1>3, BeatsAre
<1>5. len \div BeatBytes = k
  BY <1>1, <1>3, Quotient
<1>6. QED
  BY <1>4, <1>5 DEF n_beats

\* A piece that is cut off takes its beats with it: req_parser cuts at whole
\* beats.
LEMMA ParsedBeats ==
  ASSUME NEW len \in Nat \ {0}, Whole(PARSE_SIZE)
  PROVE  /\ Beats(len) = Beats(Parsed(len)) + Beats(len - Parsed(len))
         /\ Whole(len) => Whole(Parsed(len)) /\ Whole(len - Parsed(len))
<1>1. BeatBytes \in Nat \ {0} /\ PARSE_SIZE \in Nat \ {0}
  BY CreditsAssumption
<1>3. CASE len > PARSE_SIZE
  <2>1. Parsed(len) = PARSE_SIZE /\ len - PARSE_SIZE \in Nat
    BY <1>1, <1>3 DEF Parsed
  <2>2. PICK k \in Nat : PARSE_SIZE = k * BeatBytes
    BY DEF Whole
  <2>3. BeatBytes * k = PARSE_SIZE
    BY <1>1, <2>2
  <2>4. Beats(PARSE_SIZE) = k
    BY <1>1, <2>3, BeatsAre
  <2>5. PICK m \in Nat : m = Beats(len - PARSE_SIZE)
    BY <2>1, BeatsCover
  <2>6. len - PARSE_SIZE <= BeatBytes * m /\ BeatBytes * m < len - PARSE_SIZE + BeatBytes
    BY <2>1, <2>5, BeatsCover
  <2>7. BeatBytes * (k + m) = PARSE_SIZE + BeatBytes * m /\ BeatBytes * m \in Nat
    BY <1>1, <2>3
  <2>8. len <= BeatBytes * (k + m) /\ BeatBytes * (k + m) < len + BeatBytes
    BY <1>1, <2>6, <2>7
  <2>9. Beats(len) = k + m
    BY <2>8, BeatsAre
  <2>10. ASSUME Whole(len) PROVE Whole(len - PARSE_SIZE)
    <3>1. PICK i \in Nat : len = i * BeatBytes
      BY <2>10 DEF Whole
    <3>2. i > k
      <4>1. SUFFICES ASSUME i <= k PROVE FALSE
        OBVIOUS
      <4>2. PICK j \in Nat : k = i + j
        BY <4>1
      <4>3. k * BeatBytes = i * BeatBytes + j * BeatBytes /\ j * BeatBytes >= 0
        BY <1>1, <4>2
      <4>4. QED
        BY <1>1, <1>3, <2>2, <3>1, <4>3
    <3>3. i - k \in Nat /\ len - PARSE_SIZE = (i - k) * BeatBytes
      BY <1>1, <2>2, <3>1, <3>2
    <3>4. QED
      BY <3>3 DEF Whole
  <2>11. QED
    BY <2>1, <2>4, <2>5, <2>9, <2>10
<1>4. CASE ~ (len > PARSE_SIZE)
  <2>1. Parsed(len) = len /\ len - Parsed(len) = 0
    BY <1>4 DEF Parsed
  <2>2. Beats(len) \in Nat
    BY BeatsCover
  <2>3. QED
    BY <2>1, <2>2, NoBeats
<1>5. QED
  BY <1>3, <1>4

-----------------------------------------------------------------------------
(* Chains of beats. *)

\* A chain lies in the beats.
LEMMA ChainLies ==
  ASSUME NEW S, NEW Z \in [S -> Nat], NEW q \in Seq(S), NEW s \in Seq(Tags),
         NEW a, NEW b, Chain(Z, a, q, b, s)
  PROVE  a \in 0 .. Len(s) /\ b \in 0 .. Len(s) /\ a <= b
<1>1. PICK f \in [0 .. Len(q) -> 0 .. Len(s)] : Runs(f, Z, a, q, b, s)
  BY DEF Chain
<1>2. Len(q) \in Nat
  OBVIOUS
<1>3. f[0] = a /\ f[Len(q)] = b /\ \A i, j \in 0 .. Len(q) : i <= j => f[i] <= f[j]
  BY <1>1 DEF Runs
<1>4. 0 \in 0 .. Len(q) /\ Len(q) \in 0 .. Len(q) /\ 0 <= Len(q)
  BY <1>2
<1>5. QED
  BY <1>3, <1>4

\* A chain of nothing.
LEMMA ChainOfNone ==
  ASSUME NEW Z, NEW s \in Seq(Tags), NEW a \in 0 .. Len(s)
  PROVE  Chain(Z, a, << >>, a, s)
<1> DEFINE f == [i \in 0 .. 0 |-> a]
<1>1. Len(<< >>) = 0 /\ 0 \in 0 .. 0
  OBVIOUS
<1>2. f \in [0 .. 0 -> 0 .. Len(s)] /\ f[0] = a /\ \A i \in 0 .. 0 : f[i] = a
  BY <1>1
<1> HIDE DEF f
<1>3. Runs(f, Z, a, << >>, a, s)
  BY <1>1, <1>2 DEF Runs
<1>4. QED
  BY <1>1, <1>2, <1>3 DEF Chain

\* The first element of a chain taken off.
LEMMA ChainTail ==
  ASSUME NEW S, NEW Z \in [S -> Nat], NEW q \in Seq(S), q # << >>, NEW s \in Seq(Tags),
         NEW a, NEW b, Chain(Z, a, q, b, s)
  PROVE  /\ Chain(Z, a + Z[Head(q)], Tail(q), b, s)
         /\ Filled(s, a, Z[Head(q)], Head(q).tag)
<1>1. PICK f \in [0 .. Len(q) -> 0 .. Len(s)] : Runs(f, Z, a, q, b, s)
  BY DEF Chain
<1>2. PICK n \in Nat : Len(q) = n + 1
  <2>1. Len(q) \in Nat /\ Len(q) # 0
    OBVIOUS
  <2>2. Len(q) - 1 \in Nat /\ Len(q) = (Len(q) - 1) + 1
    BY <2>1
  <2>3. QED
    BY <2>2
<1> DEFINE r == Tail(q)
<1>3. r \in Seq(S) /\ Len(r) = n /\ \A i \in 1 .. n : r[i] = q[i + 1]
  BY <1>2
<1>4. Head(q) = q[1] /\ q[1] \in S
  BY <1>2
<1> DEFINE g == [i \in 0 .. n |-> f[i + 1]]
<1>5. g \in [0 .. n -> 0 .. Len(s)] /\ \A i \in 0 .. n : g[i] = f[i + 1]
  BY <1>2
<1> HIDE DEF r, g
<1>6. /\ f[0] = a /\ f[n + 1] = b
      /\ \A i, j \in 0 .. n + 1 : i <= j => f[i] <= f[j]
      /\ \A i \in 1 .. n + 1 :
           /\ f[i] = f[i - 1] + Z[q[i]]
           /\ \A j \in f[i - 1] + 1 .. f[i] : s[j] = q[i].tag
  BY <1>1, <1>2 DEF Runs
<1>7. f[1] = a + Z[q[1]] /\ Filled(s, a, Z[q[1]], q[1].tag)
  <2>1. 1 \in 1 .. n + 1 /\ 1 - 1 = 0
    OBVIOUS
  <2>2. f[1] = a + Z[q[1]] /\ \A j \in a + 1 .. f[1] : s[j] = q[1].tag
    BY <1>6, <2>1
  <2>3. QED
    BY <2>2 DEF Filled
<1>8. g[0] = f[1] /\ g[n] = b
  <2>1. 0 \in 0 .. n /\ n \in 0 .. n /\ 0 + 1 = 1
    OBVIOUS
  <2>2. QED
    BY <1>5, <1>6, <2>1
<1>9. \A i, j \in 0 .. n : i <= j => g[i] <= g[j]
  <2>1. SUFFICES ASSUME NEW i \in 0 .. n, NEW j \in 0 .. n, i <= j PROVE g[i] <= g[j]
    OBVIOUS
  <2>2. i + 1 \in 0 .. n + 1 /\ j + 1 \in 0 .. n + 1 /\ i + 1 <= j + 1
    BY <2>1
  <2>3. QED
    BY <1>5, <1>6, <2>2
<1>10. ASSUME NEW i \in 1 .. n
       PROVE  g[i] = g[i - 1] + Z[r[i]] /\ \A j \in g[i - 1] + 1 .. g[i] : s[j] = r[i].tag
  <2>1. /\ i + 1 \in 1 .. n + 1 /\ (i + 1) - 1 = i /\ i \in 0 .. n /\ i - 1 \in 0 .. n
        /\ (i - 1) + 1 = i
    OBVIOUS
  <2>2. g[i] = f[i + 1] /\ g[i - 1] = f[i]
    BY <1>5, <2>1
  <2>3. r[i] = q[i + 1]
    BY <1>3
  <2>4. /\ f[i + 1] = f[(i + 1) - 1] + Z[q[i + 1]]
        /\ \A j \in f[(i + 1) - 1] + 1 .. f[i + 1] : s[j] = q[i + 1].tag
    BY <1>6, <2>1
  <2>5. QED
    BY <2>1, <2>2, <2>3, <2>4
<1>11. Runs(g, Z, f[1], r, b, s)
  BY <1>3, <1>8, <1>9, <1>10 DEF Runs
<1>12. Chain(Z, f[1], r, b, s)
  BY <1>3, <1>5, <1>11 DEF Chain
<1>13. QED
  BY <1>4, <1>7, <1>12 DEF r

\* An element put to the end of a chain.
LEMMA ChainAppend ==
  ASSUME NEW S, NEW Z \in [S -> Nat], NEW q \in Seq(S), NEW s \in Seq(Tags),
         NEW a, NEW b, Chain(Z, a, q, b, s), NEW x \in S, b + Z[x] <= Len(s),
         Filled(s, b, Z[x], x.tag)
  PROVE  Chain(Z, a, Append(q, x), b + Z[x], s)
<1>1. PICK f \in [0 .. Len(q) -> 0 .. Len(s)] : Runs(f, Z, a, q, b, s)
  BY DEF Chain
<1>2. PICK n \in Nat : Len(q) = n
  OBVIOUS
<1>3. b \in 0 .. Len(s) /\ Z[x] \in Nat /\ Len(s) \in Nat
  BY ChainLies
<1> DEFINE r == Append(q, x)
<1>4. /\ r \in Seq(S) /\ Len(r) = n + 1 /\ r[n + 1] = x
      /\ \A i \in 1 .. n : r[i] = q[i]
  BY <1>2
<1> DEFINE g == [i \in 0 .. n + 1 |-> IF i = n + 1 THEN b + Z[x] ELSE f[i]]
<1>5. /\ g \in [0 .. n + 1 -> 0 .. Len(s)]
      /\ g[n + 1] = b + Z[x] /\ \A i \in 0 .. n : g[i] = f[i]
  <2>1. b + Z[x] \in 0 .. Len(s)
    BY <1>3
  <2>2. \A i \in 0 .. n + 1 : i # n + 1 => i \in 0 .. n
    OBVIOUS
  <2>3. \A i \in 0 .. n : i \in 0 .. n + 1 /\ i # n + 1
    OBVIOUS
  <2>4. QED
    BY <1>2, <2>1, <2>2, <2>3
<1> HIDE DEF r, g
<1>6. /\ f[0] = a /\ f[n] = b
      /\ \A i, j \in 0 .. n : i <= j => f[i] <= f[j]
      /\ \A i \in 1 .. n :
           /\ f[i] = f[i - 1] + Z[q[i]]
           /\ \A j \in f[i - 1] + 1 .. f[i] : s[j] = q[i].tag
  BY <1>1, <1>2 DEF Runs
<1>7. g[0] = a /\ g[n] = b
  <2>1. 0 \in 0 .. n /\ n \in 0 .. n
    OBVIOUS
  <2>2. QED
    BY <1>5, <1>6, <2>1
<1>8. \A i, j \in 0 .. n + 1 : i <= j => g[i] <= g[j]
  <2>1. SUFFICES ASSUME NEW i \in 0 .. n + 1, NEW j \in 0 .. n + 1, i <= j
                 PROVE  g[i] <= g[j]
    OBVIOUS
  <2>2. CASE j \in 0 .. n
    <3>1. i \in 0 .. n
      BY <2>1, <2>2
    <3>2. QED
      BY <1>5, <1>6, <2>1, <2>2, <3>1
  <2>3. CASE j = n + 1 /\ i \in 0 .. n
    <3>1. f[i] <= f[n] /\ f[i] \in 0 .. Len(s)
      <4>1. n \in 0 .. n /\ i <= n
        BY <2>3
      <4>2. QED
        BY <1>2, <1>6, <2>3, <4>1
    <3>2. QED
      BY <1>3, <1>5, <1>6, <2>3, <3>1
  <2>4. CASE j = n + 1 /\ i = n + 1
    BY <1>3, <1>5, <2>4
  <2>5. QED
    BY <2>2, <2>3, <2>4
<1>9. ASSUME NEW i \in 1 .. n + 1
      PROVE  g[i] = g[i - 1] + Z[r[i]] /\ \A j \in g[i - 1] + 1 .. g[i] : s[j] = r[i].tag
  <2>1. CASE i = n + 1
    <3>1. i - 1 = n
      BY <2>1
    <3>2. \A j \in b + 1 .. b + Z[x] : s[j] = x.tag
      BY DEF Filled
    <3>3. QED
      BY <1>4, <1>5, <1>7, <2>1, <3>1, <3>2
  <2>2. CASE i \in 1 .. n
    <3>1. i \in 0 .. n /\ i - 1 \in 0 .. n
      BY <2>2
    <3>2. g[i] = f[i] /\ g[i - 1] = f[i - 1] /\ r[i] = q[i]
      BY <1>4, <1>5, <2>2, <3>1
    <3>3. QED
      BY <1>6, <2>2, <3>2
  <2>3. QED
    BY <2>1, <2>2
<1>10. Runs(g, Z, a, r, b + Z[x], s)
  BY <1>4, <1>5, <1>7, <1>8, <1>9 DEF Runs
<1>11. QED
  BY <1>4, <1>5, <1>10 DEF Chain, r

\* More beats after a chain.
LEMMA ChainExtend ==
  ASSUME NEW S, NEW Z \in [S -> Nat], NEW q \in Seq(S), NEW s \in Seq(Tags),
         NEW a, NEW b, Chain(Z, a, q, b, s), NEW u \in Seq(Tags), Len(s) <= Len(u),
         \A j \in 1 .. Len(s) : u[j] = s[j]
  PROVE  Chain(Z, a, q, b, u)
<1>1. PICK f \in [0 .. Len(q) -> 0 .. Len(s)] : Runs(f, Z, a, q, b, s)
  BY DEF Chain
<1>2. Len(q) \in Nat /\ Len(s) \in Nat /\ Len(u) \in Nat
  OBVIOUS
<1>3. f \in [0 .. Len(q) -> 0 .. Len(u)]
  BY <1>2
<1>4. ASSUME NEW i \in 1 .. Len(q), NEW j \in f[i - 1] + 1 .. f[i] PROVE u[j] = q[i].tag
  <2>1. i \in 0 .. Len(q) /\ i - 1 \in 0 .. Len(q)
    BY <1>2
  <2>2. f[i] \in 0 .. Len(s) /\ f[i - 1] \in 0 .. Len(s)
    BY <2>1
  <2>3. j \in 1 .. Len(s)
    BY <1>2, <2>2
  <2>4. s[j] = q[i].tag
    BY <1>1 DEF Runs
  <2>5. QED
    BY <2>3, <2>4
<1>5. Runs(f, Z, a, q, b, u)
  BY <1>1, <1>4 DEF Runs
<1>6. QED
  BY <1>3, <1>5 DEF Chain

\* A beat less before a chain.
LEMMA ChainShift ==
  ASSUME NEW S, NEW Z \in [S -> Nat], NEW q \in Seq(S), NEW s \in Seq(Tags),
         NEW a, NEW b, Chain(Z, a, q, b, s), a # 0
  PROVE  Chain(Z, a - 1, q, b - 1, Tail(s))
<1>1. PICK f \in [0 .. Len(q) -> 0 .. Len(s)] : Runs(f, Z, a, q, b, s)
  BY DEF Chain
<1>2. PICK n \in Nat : Len(q) = n
  OBVIOUS
<1>3. a \in 1 .. Len(s) /\ b \in 1 .. Len(s)
  BY ChainLies
<1>4. PICK m \in Nat : Len(s) = m + 1
  <2>1. Len(s) \in Nat /\ Len(s) >= 1
    BY <1>3
  <2>2. Len(s) - 1 \in Nat /\ Len(s) = (Len(s) - 1) + 1
    BY <2>1
  <2>3. QED
    BY <2>2
<1> DEFINE u == Tail(s)
<1>5. u \in Seq(Tags) /\ Len(u) = m /\ \A j \in 1 .. m : u[j] = s[j + 1]
  BY <1>4
<1>6. /\ f[0] = a /\ f[n] = b
      /\ \A i, j \in 0 .. n : i <= j => f[i] <= f[j]
      /\ \A i \in 1 .. n :
           /\ f[i] = f[i - 1] + Z[q[i]]
           /\ \A j \in f[i - 1] + 1 .. f[i] : s[j] = q[i].tag
  BY <1>1, <1>2 DEF Runs
<1>7. \A i \in 0 .. n : f[i] \in 1 .. m + 1
  <2>1. SUFFICES ASSUME NEW i \in 0 .. n PROVE f[i] \in 1 .. m + 1
    OBVIOUS
  <2>2. f[i] \in 0 .. m + 1
    BY <1>2, <1>4
  <2>3. 0 \in 0 .. n /\ 0 <= i
    OBVIOUS
  <2>4. f[0] <= f[i]
    BY <1>6, <2>3
  <2>5. QED
    BY <1>3, <1>6, <2>2, <2>4
<1> DEFINE g == [i \in 0 .. n |-> f[i] - 1]
<1>8. g \in [0 .. n -> 0 .. m] /\ \A i \in 0 .. n : g[i] = f[i] - 1
  BY <1>7
<1> HIDE DEF u, g
<1>9. g[0] = a - 1 /\ g[n] = b - 1
  <2>1. 0 \in 0 .. n /\ n \in 0 .. n
    OBVIOUS
  <2>2. QED
    BY <1>6, <1>8, <2>1
<1>10. \A i, j \in 0 .. n : i <= j => g[i] <= g[j]
  <2>1. SUFFICES ASSUME NEW i \in 0 .. n, NEW j \in 0 .. n, i <= j PROVE g[i] <= g[j]
    OBVIOUS
  <2>2. f[i] <= f[j]
    BY <1>6, <2>1
  <2>3. f[i] \in 1 .. m + 1 /\ f[j] \in 1 .. m + 1
    BY <1>7
  <2>4. g[i] = f[i] - 1 /\ g[j] = f[j] - 1
    BY <1>8
  <2>5. QED
    BY <2>2, <2>3, <2>4
<1>11. ASSUME NEW i \in 1 .. n
       PROVE  g[i] = g[i - 1] + Z[q[i]] /\ \A j \in g[i - 1] + 1 .. g[i] : u[j] = q[i].tag
  <2>1. i \in 0 .. n /\ i - 1 \in 0 .. n
    OBVIOUS
  <2>2. g[i] = f[i] - 1 /\ g[i - 1] = f[i - 1] - 1
    BY <1>8, <2>1
  <2>3. f[i] \in 1 .. m + 1 /\ f[i - 1] \in 1 .. m + 1
    BY <1>7, <2>1
  <2>4. q[i] \in S /\ Z[q[i]] \in Nat
    BY <1>2
  <2>5. f[i] = f[i - 1] + Z[q[i]]
    BY <1>6
  <2>6. ASSUME NEW j \in g[i - 1] + 1 .. g[i] PROVE u[j] = q[i].tag
    <3>1. j \in 1 .. m /\ j + 1 \in f[i - 1] + 1 .. f[i]
      <4>1. PICK k \in 1 .. m + 1, l \in 1 .. m + 1 : k = f[i - 1] /\ l = f[i]
        BY <2>3
      <4>2. j \in (k - 1) + 1 .. l - 1
        BY <2>2, <4>1
      <4>3. j \in 1 .. m /\ j + 1 \in k + 1 .. l
        BY <4>2
      <4>4. QED
        BY <4>1, <4>3
    <3>2. s[j + 1] = q[i].tag
      BY <1>6, <3>1
    <3>3. QED
      BY <1>5, <3>1, <3>2
  <2>7. QED
    BY <2>2, <2>3, <2>4, <2>5, <2>6
<1>12. Runs(g, Z, a - 1, q, b - 1, u)
  BY <1>2, <1>9, <1>10, <1>11 DEF Runs
<1>13. QED
  BY <1>2, <1>5, <1>8, <1>12 DEF Chain, u

-----------------------------------------------------------------------------
(* What happens to the beats of a lane. *)

\* The number of beats of a piece.
LEMMA PieceBeatsType == PieceBeats \in [Piece -> Nat]
<1>1. \A x \in Piece : Beats(x.len) \in Nat
  BY BeatsCover DEF Piece
<1>2. QED
  BY <1>1 DEF PieceBeats

\* Request: its beats come last.
LEMMA Requested ==
  ASSUME NEW Z \in [Order -> Nat], NEW s \in Seq(Tags), NEW a \in Nat, NEW t,
         NEW o \in Seq(Order), NEW p \in Seq(Piece), NEW h \in Nat, NEW g,
         NEW r \in Seq(Piece), NEW n, Ordered(Z, s, a, t, o, p, h, g, r, n),
         NEW x \in Piece, NEW u \in Seq(Tags), Len(u) = Len(s) + PieceBeats[x],
         \A j \in 1 .. Len(s) : u[j] = s[j],
         Filled(u, Len(s), PieceBeats[x], x.tag)
  PROVE  Ordered(Z, u, a, t, o, p, h, g, Append(r, x), n)
<1>1. PICK b \in 0 .. Len(s), c \in 0 .. Len(s) :
        /\ Filled(s, 0, a, t)
        /\ Chain(Z, a, o, b, s)
        /\ Chain(PieceBeats, b, p, c, s)
        /\ Filled(s, c, h, g)
        /\ Chain(PieceBeats, c + h, r, Len(s), s)
        /\ WholeData => c <= n
  BY DEF Ordered
<1>2. Len(s) \in Nat /\ Len(u) \in Nat /\ PieceBeats[x] \in Nat /\ Len(s) <= Len(u)
  BY PieceBeatsType
<1>3. b \in 0 .. Len(u) /\ c \in 0 .. Len(u)
  BY <1>2
<1>4. a \in 0 .. Len(s) /\ c + h \in 0 .. Len(s)
  <2>1. a \in 0 .. Len(s)
    BY <1>1, ChainLies
  <2>2. c + h \in 0 .. Len(s)
    BY <1>1, ChainLies, PieceBeatsType
  <2>3. QED
    BY <2>1, <2>2
<1>5. Filled(u, 0, a, t)
  <2>1. \A j \in 0 + 1 .. 0 + a : j \in 1 .. Len(s)
    BY <1>2, <1>4
  <2>2. QED
    BY <1>1, <2>1 DEF Filled
<1>6. Filled(u, c, h, g)
  <2>1. \A j \in c + 1 .. c + h : j \in 1 .. Len(s)
    BY <1>2, <1>4
  <2>2. QED
    BY <1>1, <2>1 DEF Filled
<1>7. Chain(Z, a, o, b, u)
  BY <1>1, <1>2, ChainExtend
<1>8. Chain(PieceBeats, b, p, c, u) /\ Chain(PieceBeats, c + h, r, Len(s), u)
  BY <1>1, <1>2, ChainExtend, PieceBeatsType
<1>9. Chain(PieceBeats, c + h, Append(r, x), Len(s) + PieceBeats[x], u)
  <2>1. Len(s) + PieceBeats[x] <= Len(u)
    BY <1>2
  <2>2. QED
    BY <1>8, <2>1, ChainAppend, PieceBeatsType
<1>10. QED
  BY <1>1, <1>3, <1>5, <1>6, <1>7, <1>8, <1>9 DEF Ordered

\* Accept: the parser holds the beats of the first request.
LEMMA Accepted ==
  ASSUME NEW Z \in [Order -> Nat], NEW s \in Seq(Tags), NEW a \in Nat, NEW t,
         NEW o \in Seq(Order), NEW p \in Seq(Piece), NEW g,
         NEW r \in Seq(Piece), r # << >>, NEW n,
         Ordered(Z, s, a, t, o, p, 0, g, r, n)
  PROVE  Ordered(Z, s, a, t, o, p, PieceBeats[Head(r)], Head(r).tag, Tail(r), n)
<1>1. PICK b \in 0 .. Len(s), c \in 0 .. Len(s) :
        /\ Filled(s, 0, a, t)
        /\ Chain(Z, a, o, b, s)
        /\ Chain(PieceBeats, b, p, c, s)
        /\ Chain(PieceBeats, c + 0, r, Len(s), s)
        /\ WholeData => c <= n
  BY DEF Ordered
<1>2. c + 0 = c
  OBVIOUS
<1>3. /\ Chain(PieceBeats, c + PieceBeats[Head(r)], Tail(r), Len(s), s)
      /\ Filled(s, c, PieceBeats[Head(r)], Head(r).tag)
  <2>1. Chain(PieceBeats, c, r, Len(s), s)
    BY <1>1, <1>2
  <2>2. QED
    BY <2>1, ChainTail, PieceBeatsType
<1>4. QED
  BY <1>1, <1>3 DEF Ordered

\* Release: the first beats the parser holds are those of the piece.
LEMMA Released ==
  ASSUME NEW Z \in [Order -> Nat], NEW s \in Seq(Tags), NEW a \in Nat, NEW t,
         NEW o \in Seq(Order), NEW p \in Seq(Piece), NEW h \in Nat, NEW g,
         NEW r \in Seq(Piece), NEW n \in Int, NEW x \in Piece,
         Ordered(Z, s, a, t, o, p, PieceBeats[x] + h, x.tag, r, n),
         h # 0 => g = x.tag, NEW m \in Int, WholeData => m = n + PieceBeats[x]
  PROVE  Ordered(Z, s, a, t, o, Append(p, x), h, g, r, m)
<1>0. PICK k \in Nat : k = PieceBeats[x]
  BY PieceBeatsType
<1>1. PICK b \in 0 .. Len(s), c \in 0 .. Len(s) :
        /\ Filled(s, 0, a, t)
        /\ Chain(Z, a, o, b, s)
        /\ Chain(PieceBeats, b, p, c, s)
        /\ Filled(s, c, k + h, x.tag)
        /\ Chain(PieceBeats, c + (k + h), r, Len(s), s)
        /\ WholeData => c <= n
  BY <1>0 DEF Ordered
<1>2. Len(s) \in Nat /\ c + (k + h) \in 0 .. Len(s)
  <2>1. Chain(PieceBeats, c + (k + h), r, Len(s), s)
    BY <1>1
  <2>2. c + (k + h) \in 0 .. Len(s)
    BY <2>1, ChainLies, PieceBeatsType
  <2>3. QED
    BY <2>2
<1>3. c + k \in 0 .. Len(s) /\ c + k <= Len(s)
  BY <1>2
<1>4. Filled(s, c, k, x.tag)
  <2>1. \A j \in c + 1 .. c + k : j \in c + 1 .. c + (k + h)
    BY <1>2
  <2>2. QED
    BY <1>1, <2>1 DEF Filled
<1>5. Chain(PieceBeats, b, Append(p, x), c + k, s)
  BY <1>0, <1>1, <1>3, <1>4, ChainAppend, PieceBeatsType
<1>6. Filled(s, c + k, h, g)
  <2>1. \A j \in (c + k) + 1 .. (c + k) + h : h # 0 /\ j \in c + 1 .. c + (k + h)
    BY <1>2
  <2>2. QED
    BY <1>1, <2>1 DEF Filled
<1>7. (c + k) + h = c + (k + h)
  OBVIOUS
<1>8. WholeData => c + k <= m
  <2>1. SUFFICES ASSUME WholeData PROVE c + k <= m
    OBVIOUS
  <2>2. c <= n /\ m = n + k
    BY <1>0, <1>1, <2>1
  <2>3. QED
    BY <2>2
<1>9. QED
  BY <1>1, <1>3, <1>5, <1>6, <1>7, <1>8 DEF Ordered

\* Arbitrate: the first released piece of a lane becomes the last order.
LEMMA Arbitrated ==
  ASSUME NEW Z \in [Order -> Nat], NEW s \in Seq(Tags), NEW a \in Nat, NEW t,
         NEW o \in Seq(Order), NEW p \in Seq(Piece), p # << >>, NEW h \in Nat, NEW g,
         NEW r \in Seq(Piece), NEW n, Ordered(Z, s, a, t, o, p, h, g, r, n),
         NEW x \in Order, Z[x] = PieceBeats[Head(p)], x.tag = Head(p).tag
  PROVE  Ordered(Z, s, a, t, Append(o, x), Tail(p), h, g, r, n)
<1>1. PICK b \in 0 .. Len(s), c \in 0 .. Len(s) :
        /\ Filled(s, 0, a, t)
        /\ Chain(Z, a, o, b, s)
        /\ Chain(PieceBeats, b, p, c, s)
        /\ Filled(s, c, h, g)
        /\ Chain(PieceBeats, c + h, r, Len(s), s)
        /\ WholeData => c <= n
  BY DEF Ordered
<1>2. /\ Chain(PieceBeats, b + Z[x], Tail(p), c, s)
      /\ Filled(s, b, Z[x], x.tag)
  <2>1. Chain(PieceBeats, b, p, c, s)
    BY <1>1
  <2>2. /\ Chain(PieceBeats, b + PieceBeats[Head(p)], Tail(p), c, s)
        /\ Filled(s, b, PieceBeats[Head(p)], Head(p).tag)
    BY <2>1, ChainTail, PieceBeatsType
  <2>3. QED
    BY <2>2
<1>3. b + Z[x] \in 0 .. Len(s)
  <2>1. Tail(p) \in Seq(Piece)
    OBVIOUS
  <2>2. QED
    BY <1>2, <2>1, ChainLies, PieceBeatsType
<1>4. b + Z[x] <= Len(s)
  BY <1>3
<1>5. Chain(Z, a, Append(o, x), b + Z[x], s)
  BY <1>1, <1>2, <1>4, ChainAppend
<1>6. QED
  BY <1>1, <1>2, <1>3, <1>5 DEF Ordered

\* Arbitrate: an order for another lane has no beat of this one.
LEMMA ArbitratedElsewhere ==
  ASSUME NEW Z \in [Order -> Nat], NEW s \in Seq(Tags), NEW a \in Nat, NEW t,
         NEW o \in Seq(Order), NEW p \in Seq(Piece), NEW h \in Nat, NEW g,
         NEW r \in Seq(Piece), NEW n, Ordered(Z, s, a, t, o, p, h, g, r, n),
         NEW x \in Order, Z[x] = 0
  PROVE  Ordered(Z, s, a, t, Append(o, x), p, h, g, r, n)
<1>1. PICK b \in 0 .. Len(s), c \in 0 .. Len(s) :
        /\ Filled(s, 0, a, t)
        /\ Chain(Z, a, o, b, s)
        /\ Chain(PieceBeats, b, p, c, s)
        /\ Filled(s, c, h, g)
        /\ Chain(PieceBeats, c + h, r, Len(s), s)
        /\ WholeData => c <= n
  BY DEF Ordered
<1>2. Len(s) \in Nat
  OBVIOUS
<1>3. b + Z[x] = b /\ b + Z[x] <= Len(s) /\ Filled(s, b, Z[x], x.tag)
  <2>1. \A j \in b + 1 .. b + 0 : FALSE
    OBVIOUS
  <2>2. b + 0 = b /\ b <= Len(s)
    BY <1>2
  <2>3. QED
    BY <2>1, <2>2 DEF Filled
<1>4. Chain(Z, a, Append(o, x), b + Z[x], s)
  BY <1>1, <1>3, ChainAppend
<1>5. QED
  BY <1>1, <1>3, <1>4 DEF Ordered

\* Load: the multiplexer, which has forwarded its piece, serves the first order.
LEMMA Loaded ==
  ASSUME NEW Z \in [Order -> Nat], NEW s \in Seq(Tags), NEW t,
         NEW o \in Seq(Order), o # << >>, NEW p \in Seq(Piece), NEW h \in Nat, NEW g,
         NEW r \in Seq(Piece), NEW n, Ordered(Z, s, 0, t, o, p, h, g, r, n)
  PROVE  Ordered(Z, s, Z[Head(o)], Head(o).tag, Tail(o), p, h, g, r, n)
<1>1. PICK b \in 0 .. Len(s), c \in 0 .. Len(s) :
        /\ Chain(Z, 0, o, b, s)
        /\ Chain(PieceBeats, b, p, c, s)
        /\ Filled(s, c, h, g)
        /\ Chain(PieceBeats, c + h, r, Len(s), s)
        /\ WholeData => c <= n
  BY DEF Ordered
<1>2. Chain(Z, 0 + Z[Head(o)], Tail(o), b, s) /\ Filled(s, 0, Z[Head(o)], Head(o).tag)
  <2>1. Chain(Z, 0, o, b, s)
    BY <1>1
  <2>2. QED
    BY <2>1, ChainTail
<1>3. Head(o) \in Order /\ Z[Head(o)] \in Nat
  OBVIOUS
<1>4. 0 + Z[Head(o)] = Z[Head(o)]
  BY <1>3
<1>5. QED
  BY <1>1, <1>2, <1>4 DEF Ordered

\* MuxBeat: the first beat of the piece leaves.
LEMMA Forwarded ==
  ASSUME NEW Z \in [Order -> Nat], NEW s \in Seq(Tags), NEW a \in Nat, a # 0, NEW t,
         NEW o \in Seq(Order), NEW p \in Seq(Piece), NEW h \in Nat, NEW g,
         NEW r \in Seq(Piece), NEW n \in Int, Ordered(Z, s, a, t, o, p, h, g, r, n)
  PROVE  Ordered(Z, Tail(s), a - 1, t, o, p, h, g, r, n - 1)
<1>1. PICK b \in 0 .. Len(s), c \in 0 .. Len(s) :
        /\ Filled(s, 0, a, t)
        /\ Chain(Z, a, o, b, s)
        /\ Chain(PieceBeats, b, p, c, s)
        /\ Filled(s, c, h, g)
        /\ Chain(PieceBeats, c + h, r, Len(s), s)
        /\ WholeData => c <= n
  BY DEF Ordered
<1>2. a \in 0 .. Len(s) /\ a <= b
  BY <1>1, ChainLies
<1>3. b <= c /\ c + h \in 0 .. Len(s)
  BY <1>1, ChainLies, PieceBeatsType
<1>4. PICK m \in Nat : Len(s) = m + 1
  <2>1. Len(s) \in Nat /\ Len(s) >= 1
    BY <1>2
  <2>2. Len(s) - 1 \in Nat /\ Len(s) = (Len(s) - 1) + 1
    BY <2>1
  <2>3. QED
    BY <2>2
<1> DEFINE u == Tail(s)
<1>5. /\ u \in Seq(Tags) /\ Len(u) = m /\ Len(u) = Len(s) - 1
      /\ \A j \in 1 .. m : u[j] = s[j + 1]
  BY <1>4
<1>6. /\ Chain(Z, a - 1, o, b - 1, u)
  BY <1>1, ChainShift
<1>7. b # 0 /\ c + h # 0
  BY <1>2, <1>3
<1>8. Chain(PieceBeats, b - 1, p, c - 1, u)
  BY <1>1, <1>7, ChainShift, PieceBeatsType
<1>9. Chain(PieceBeats, (c + h) - 1, r, Len(s) - 1, u)
  BY <1>1, <1>7, ChainShift, PieceBeatsType
<1> HIDE DEF u
<1>10. Filled(u, 0, a - 1, t)
  <2>1. \A j \in 0 + 1 .. 0 + (a - 1) : j \in 1 .. m /\ j + 1 \in 0 + 1 .. 0 + a
    BY <1>2, <1>4
  <2>2. QED
    BY <1>1, <1>5, <2>1 DEF Filled
<1>11. Filled(u, c - 1, h, g)
  <2>1. \A j \in (c - 1) + 1 .. (c - 1) + h : j \in 1 .. m /\ j + 1 \in c + 1 .. c + h
    BY <1>2, <1>3, <1>4
  <2>2. QED
    BY <1>1, <1>5, <2>1 DEF Filled
<1>12. /\ (c - 1) + h = (c + h) - 1
       /\ b - 1 \in 0 .. Len(u) /\ c - 1 \in 0 .. Len(u)
       /\ WholeData => c - 1 <= n - 1
  <2>1. (c - 1) + h = (c + h) - 1 /\ b - 1 \in 0 .. Len(u) /\ c - 1 \in 0 .. Len(u)
    BY <1>2, <1>3, <1>4, <1>5
  <2>2. c <= n => c - 1 <= n - 1
    OBVIOUS
  <2>3. QED
    BY <1>1, <2>1, <2>2
<1>13. Ordered(Z, u, a - 1, t, o, p, h, g, r, n - 1)
  BY <1>5, <1>6, <1>8, <1>9, <1>10, <1>11, <1>12 DEF Ordered
<1>14. QED
  BY <1>13 DEF u

\* A multiplexer that serves no piece of the lane may name any tag.
LEMMA Retagged ==
  ASSUME NEW Z, NEW s, NEW t, NEW o, NEW p, NEW h, NEW g, NEW r, NEW n,
         Ordered(Z, s, 0, t, o, p, h, g, r, n), NEW v
  PROVE  Ordered(Z, s, 0, v, o, p, h, g, r, n)
<1>1. \A j \in 0 + 1 .. 0 + 0 : FALSE
  OBVIOUS
<1>2. Filled(s, 0, 0, v)
  BY <1>1 DEF Filled
<1>3. QED
  BY <1>2 DEF Ordered

-----------------------------------------------------------------------------
(* The steps of the blocks. *)

\* w has the elements of s and then those of t.
Joins(w, s, t) ==
  /\ Len(w) = Len(s) + Len(t)
  /\ \A i \in 1 .. Len(s) : w[i] = s[i]
  /\ \A i \in 1 .. Len(t) : w[Len(s) + i] = t[i]

\* What joining two sequences gives.
LEMMA Joined ==
  ASSUME NEW S, NEW s \in Seq(S), NEW t \in Seq(S)
  PROVE  s \o t \in Seq(S) /\ Joins(s \o t, s, t)
  BY DEF Joins

\* Sequences with the same elements are the same.
LEMMA SameElements ==
  ASSUME NEW S, NEW s \in Seq(S), NEW t \in Seq(S),
         Len(s) = Len(t), \A i \in 1 .. Len(s) : s[i] = t[i]
  PROVE  s = t
  OBVIOUS

\* A beat goes from the user logic to the FIFO.
LEMMA MovedOver ==
  ASSUME NEW S, NEW s \in Seq(S), NEW t \in Seq(S), t # << >>
  PROVE  Append(s, Head(t)) \o Tail(t) = s \o t
<1> DEFINE u == Append(s, Head(t))
           v == Tail(t)
           x == u \o v
           y == s \o t
<1>1. PICK n \in Nat : Len(s) = n
  OBVIOUS
<1>2. PICK m \in Nat : Len(t) = m + 1
  <2>1. Len(t) \in Nat /\ Len(t) # 0
    OBVIOUS
  <2>2. Len(t) - 1 \in Nat /\ Len(t) = (Len(t) - 1) + 1
    BY <2>1
  <2>3. QED
    BY <2>2
<1>3. /\ u \in Seq(S) /\ Len(u) = n + 1 /\ u[n + 1] = t[1]
      /\ \A i \in 1 .. n : u[i] = s[i]
  BY <1>1, <1>2
<1>4. v \in Seq(S) /\ Len(v) = m /\ \A i \in 1 .. m : v[i] = t[i + 1]
  BY <1>2
<1> HIDE DEF u, v
<1>5. x \in Seq(S) /\ Joins(x, u, v) /\ y \in Seq(S) /\ Joins(y, s, t)
  BY <1>3, <1>4, Joined
<1> HIDE DEF x, y
<1>6. /\ Len(x) = (n + 1) + m
      /\ \A i \in 1 .. n + 1 : x[i] = u[i]
      /\ \A i \in 1 .. m : x[(n + 1) + i] = v[i]
  BY <1>3, <1>4, <1>5 DEF Joins
<1>7. /\ Len(y) = n + (m + 1)
      /\ \A i \in 1 .. n : y[i] = s[i]
      /\ \A i \in 1 .. m + 1 : y[n + i] = t[i]
  BY <1>1, <1>2, <1>5 DEF Joins
<1>8. ASSUME NEW i \in 1 .. (n + 1) + m PROVE x[i] = y[i]
  <2>1. CASE i \in 1 .. n
    <3>1. i \in 1 .. n + 1
      BY <2>1
    <3>2. QED
      BY <1>3, <1>6, <1>7, <2>1, <3>1
  <2>2. CASE i = n + 1
    <3>1. n + 1 \in 1 .. n + 1 /\ 1 \in 1 .. m + 1
      OBVIOUS
    <3>2. QED
      BY <1>3, <1>6, <1>7, <2>2, <3>1
  <2>3. ASSUME NEW j \in 1 .. m, i = (n + 1) + j PROVE x[i] = y[i]
    <3>1. j + 1 \in 1 .. m + 1 /\ i = n + (j + 1)
      BY <2>3
    <3>2. x[i] = v[j]
      BY <1>6, <2>3
    <3>3. v[j] = t[j + 1]
      BY <1>4
    <3>4. y[i] = t[j + 1]
      BY <1>7, <3>1
    <3>5. QED
      BY <3>2, <3>3, <3>4
  <2>4. \/ i \in 1 .. n \/ i = n + 1
        \/ i - (n + 1) \in 1 .. m /\ i = (n + 1) + (i - (n + 1))
    OBVIOUS
  <2>5. QED
    BY <2>1, <2>2, <2>3, <2>4
<1>9. x = y
  <2>1. (n + 1) + m = n + (m + 1)
    OBVIOUS
  <2>2. QED
    BY <1>5, <1>6, <1>7, <1>8, <2>1, SameElements
<1>10. QED
  BY <1>9 DEF u, v, x, y

\* A beat leaves the FIFO.
LEMMA TakenOff ==
  ASSUME NEW S, NEW s \in Seq(S), NEW t \in Seq(S), s # << >>
  PROVE  Tail(s) \o t = Tail(s \o t)
<1> DEFINE u == Tail(s)
           w == s \o t
           x == u \o t
<1>1. PICK n \in Nat : Len(s) = n + 1
  <2>1. Len(s) \in Nat /\ Len(s) # 0
    OBVIOUS
  <2>2. Len(s) - 1 \in Nat /\ Len(s) = (Len(s) - 1) + 1
    BY <2>1
  <2>3. QED
    BY <2>2
<1>2. PICK m \in Nat : Len(t) = m
  OBVIOUS
<1>3. u \in Seq(S) /\ Len(u) = n /\ \A i \in 1 .. n : u[i] = s[i + 1]
  BY <1>1
<1> HIDE DEF u
<1>4. w \in Seq(S) /\ Joins(w, s, t) /\ x \in Seq(S) /\ Joins(x, u, t)
  BY <1>3, Joined
<1> HIDE DEF w, x
<1>5. /\ Len(w) = (n + 1) + m
      /\ \A i \in 1 .. n + 1 : w[i] = s[i]
      /\ \A i \in 1 .. m : w[(n + 1) + i] = t[i]
  BY <1>1, <1>2, <1>4 DEF Joins
<1>6. /\ Len(x) = n + m
      /\ \A i \in 1 .. n : x[i] = u[i]
      /\ \A i \in 1 .. m : x[n + i] = t[i]
  BY <1>2, <1>3, <1>4 DEF Joins
<1>7. /\ Tail(w) \in Seq(S) /\ Len(Tail(w)) = n + m
      /\ \A i \in 1 .. n + m : Tail(w)[i] = w[i + 1]
  <2>1. PICK k \in Nat : k = n + m
    OBVIOUS
  <2>2. w \in Seq(S)
    BY <1>4
  <2>3. Len(w) = k + 1
    BY <1>5, <2>1
  <2>4. /\ Tail(w) \in Seq(S) /\ Len(Tail(w)) = k
        /\ \A i \in 1 .. k : Tail(w)[i] = w[i + 1]
    BY <2>2, <2>3
  <2>5. QED
    BY <2>1, <2>4
<1>8. ASSUME NEW i \in 1 .. n + m PROVE x[i] = Tail(w)[i]
  <2>1. CASE i \in 1 .. n
    <3>1. i + 1 \in 1 .. n + 1
      BY <2>1
    <3>2. QED
      BY <1>3, <1>5, <1>6, <1>7, <2>1, <3>1
  <2>2. ASSUME NEW j \in 1 .. m, i = n + j PROVE x[i] = Tail(w)[i]
    <3>1. i + 1 = (n + 1) + j
      BY <2>2
    <3>2. QED
      BY <1>5, <1>6, <1>7, <2>2, <3>1
  <2>3. i \in 1 .. n \/ (i - n \in 1 .. m /\ i = n + (i - n))
    OBVIOUS
  <2>4. QED
    BY <2>1, <2>2, <2>3
<1>9. x = Tail(w)
  BY <1>4, <1>6, <1>7, <1>8, SameElements
<1>10. QED
  BY <1>9 DEF u, w, x

\* Nothing released has more beats than came in.
LEMMA Covered ==
  ASSUME NEW Z, NEW s \in Seq(Tags), NEW a, NEW t, NEW o, NEW p, NEW h, NEW g, NEW r,
         NEW n \in Int, Ordered(Z, s, a, t, o, p, h, g, r, n), WholeData
  PROVE  n >= 0
<1>1. PICK c \in 0 .. Len(s) : c <= n
  BY DEF Ordered
<1>2. QED
  BY <1>1

\* The same beats, counted again.
LEMMA Recounted ==
  ASSUME NEW Z, NEW s, NEW a, NEW t, NEW o, NEW p, NEW h, NEW g, NEW r, NEW n, NEW m,
         Ordered(Z, s, a, t, o, p, h, g, r, n), WholeData => m = n
  PROVE  Ordered(Z, s, a, t, o, p, h, g, r, m)
  BY DEF Ordered

\* What a lane consists of.
LEMMA LaneTypes ==
  ASSUME CreditInv, NEW d \in Dests
  PROVE  /\ OrderBeats(d) \in [Order -> Nat]
         /\ fifo[d] \in Seq(Tags) /\ feed[d] \in Seq(Tags)
         /\ fifo[d] \o feed[d] \in Seq(Tags)
         /\ Served(d) \in Nat
         /\ mux_q \in Seq(Order) /\ req_cred[d] \in Seq(Piece) /\ req_q[d] \in Seq(Piece)
         /\ parser[d] \in Parsers /\ HeldBeats(parser[d]) \in Nat
         /\ cnt[d] \in Nat /\ cnt[d] < CntSize /\ xfer(d) \in 0 .. 1
         /\ Len(fifo[d]) \in Nat /\ Len(fifo[d]) <= FifoDepth
         /\ Len(fifo[d]) - cnt[d] - xfer(d) \in Int
<1>1. OrderBeats(d) \in [Order -> Nat]
  <2>1. \A x \in Order : x.n_tr \in Nat
    BY DEF Order
  <2>2. \A x \in Order : (IF x.dest = d THEN x.n_tr + 1 ELSE 0) \in Nat
    BY <2>1
  <2>3. QED
    BY <2>2 DEF OrderBeats
<1>2. /\ fifo[d] \in Seq(Tags) /\ feed[d] \in Seq(Tags)
      /\ mux_q \in Seq(Order) /\ req_cred[d] \in Seq(Piece) /\ req_q[d] \in Seq(Piece)
      /\ parser[d] \in Parsers /\ Len(fifo[d]) <= FifoDepth
      /\ cnt[d] \in 0 .. CntSize - 1
  BY Types, ArbTypes
<1>3. fifo[d] \o feed[d] \in Seq(Tags) /\ Len(fifo[d]) \in Nat
  BY <1>2
<1>4. Served(d) \in Nat
  BY ArbTypes DEF Served, Muxes
<1>5. HeldBeats(parser[d]) \in Nat
  <2>1. /\ parser[d].state \in {"IDLE", "PARSE", "SEND"}
        /\ parser[d].len \in Nat /\ parser[d].plen \in Nat
    BY <1>2 DEF Parsers
  <2>2. Beats(parser[d].len) \in Nat /\ Beats(parser[d].plen) \in Nat
    BY <2>1, BeatsCover
  <2>3. QED
    BY <2>1, <2>2 DEF HeldBeats
<1>6. cnt[d] \in Nat /\ cnt[d] < CntSize /\ xfer(d) \in 0 .. 1
  BY <1>2, CreditsAssumption DEF xfer
<1>7. QED
  BY <1>1, <1>2, <1>3, <1>4, <1>5, <1>6

\* A lane that a step leaves alone.
LEMMA LeftAlone ==
  ASSUME NEW e, InOrder(e), mux' = mux, mux_q' = mux_q,
         fifo'[e] = fifo[e], feed'[e] = feed[e], req_cred'[e] = req_cred[e],
         parser'[e] = parser[e], req_q'[e] = req_q[e], cnt'[e] = cnt[e],
         xfer_int'[e] = xfer_int[e]
  PROVE  InOrder(e)'
<1>1. Served(e)' = Served(e) /\ xfer(e)' = xfer(e)
  BY DEF Served, xfer
<1>2. QED
  BY <1>1 DEF InOrder

\* Requests and parsers that stay.
LEMMA WholeStays ==
  ASSUME WholeInv, req_q' = req_q, parser' = parser PROVE WholeInv'
  BY DEF WholeInv

\* A request comes with its beats.
LEMMA RequestBeats ==
  ASSUME CreditInv, BeatInv, NEW d \in Dests, NEW len \in Lens, Request(d, len)
  PROVE  BeatInv'
<1>1. len \in Nat \ {0} /\ Beats(len) \in Nat
  BY CreditsAssumption, BeatsCover
<1>2. PICK t \in Tags : t = 1 - tag[d]
  <2>1. tag[d] \in Tags
    BY Types
  <2>2. QED
    BY <2>1 DEF Tags
<1>3. PICK x \in Piece : x = [tag |-> t, len |-> len]
  BY <1>1 DEF Piece
<1>4. x.tag = t /\ x.len = len /\ PieceBeats[x] = Beats(len)
  BY <1>3 DEF PieceBeats
<1> DEFINE k == [i \in 1 .. Beats(len) |-> t]
<1>5. k \in Seq(Tags) /\ Len(k) = Beats(len) /\ \A i \in 1 .. Beats(len) : k[i] = t
  BY <1>1
<1>6. /\ req_q' = [req_q EXCEPT ![d] = Append(@, x)]
      /\ feed' = [feed EXCEPT ![d] = @ \o k]
      /\ UNCHANGED <<parser, cnt, xfer_int, req_cred, fifo, lost, mux_q, mux>>
  BY <1>2, <1>3 DEF Request, arb
<1> HIDE DEF k
<1>7. /\ req_q'[d] = Append(req_q[d], x) /\ feed'[d] = feed[d] \o k
      /\ \A e \in Dests \ {d} : req_q'[e] = req_q[e] /\ feed'[e] = feed[e]
  BY <1>6, Types
<1>8. InOrder(d)'
  <2> DEFINE F == fifo[d]
             G == feed[d]
             H == feed[d] \o k
             s == fifo[d] \o feed[d]
             u == fifo[d] \o (feed[d] \o k)
  <2>1. PICK i \in Nat, j \in Nat, m \in Nat : i = Len(F) /\ j = Len(G) /\ m = Len(k)
    BY <1>5, LaneTypes
  <2>2. /\ H \in Seq(Tags) /\ Len(H) = j + m
        /\ \A y \in 1 .. j : H[y] = G[y]
        /\ \A y \in 1 .. m : H[j + y] = k[y]
    <3>1. G \in Seq(Tags)
      BY LaneTypes
    <3>2. H \in Seq(Tags) /\ Joins(H, G, k)
      BY <1>5, <3>1, Joined
    <3> HIDE DEF F, G, H
    <3>3. QED
      BY <2>1, <3>2 DEF Joins
  <2> HIDE DEF H
  <2>3. /\ s \in Seq(Tags) /\ Len(s) = i + j
        /\ \A y \in 1 .. i : s[y] = F[y]
        /\ \A y \in 1 .. j : s[i + y] = G[y]
    <3>1. F \in Seq(Tags) /\ G \in Seq(Tags)
      BY LaneTypes
    <3>2. s \in Seq(Tags) /\ Joins(s, F, G)
      BY <3>1, Joined
    <3> HIDE DEF F, G, s
    <3>3. QED
      BY <2>1, <3>2 DEF Joins
  <2>4. /\ u \in Seq(Tags) /\ Len(u) = i + (j + m)
        /\ \A y \in 1 .. i : u[y] = F[y]
        /\ \A y \in 1 .. j + m : u[i + y] = H[y]
    <3>1. F \in Seq(Tags)
      BY LaneTypes
    <3>2. u = F \o H
      BY DEF H
    <3>3. u \in Seq(Tags) /\ Joins(u, F, H)
      BY <2>2, <3>1, <3>2, Joined
    <3> HIDE DEF F, u
    <3>4. QED
      BY <2>1, <2>2, <3>3 DEF Joins
  <2> HIDE DEF F, G, s, u
  <2>5. ASSUME NEW z \in 1 .. i + j PROVE u[z] = s[z]
    <3>1. CASE z \in 1 .. i
      BY <2>3, <2>4, <3>1
    <3>2. ASSUME NEW y \in 1 .. j, z = i + y PROVE u[z] = s[z]
      <4>1. y \in 1 .. j + m
        OBVIOUS
      <4>2. QED
        BY <2>2, <2>3, <2>4, <3>2, <4>1
    <3>3. z \in 1 .. i \/ (z - i \in 1 .. j /\ z = i + (z - i))
      OBVIOUS
    <3>4. QED
      BY <3>1, <3>2, <3>3
  <2>6. ASSUME NEW z \in (i + j) + 1 .. (i + j) + m PROVE u[z] = t
    <3>1. PICK y \in 1 .. m : z = i + (j + y)
      <4>1. z - (i + j) \in 1 .. m /\ z = i + (j + (z - (i + j)))
        OBVIOUS
      <4>2. QED
        BY <4>1
    <3>2. j + y \in 1 .. j + m
      OBVIOUS
    <3>3. u[z] = k[y]
      BY <2>2, <2>4, <3>1, <3>2
    <3>4. QED
      BY <1>5, <2>1, <3>3
  <2>7. i + (j + m) = (i + j) + m
    OBVIOUS
  <2>8. Ordered(OrderBeats(d), s, Served(d), mux.tag, mux_q, req_cred[d],
                HeldBeats(parser[d]), parser[d].tag, req_q[d],
                Len(fifo[d]) - cnt[d] - xfer(d))
    BY DEF BeatInv, InOrder, s
  <2>9. Ordered(OrderBeats(d), u, Served(d), mux.tag, mux_q, req_cred[d],
                HeldBeats(parser[d]), parser[d].tag, Append(req_q[d], x),
                Len(fifo[d]) - cnt[d] - xfer(d))
    <3>1. Len(u) = Len(s) + PieceBeats[x]
      BY <1>4, <1>5, <2>1, <2>3, <2>4, <2>7
    <3>2. \A z \in 1 .. Len(s) : u[z] = s[z]
      BY <2>3, <2>5
    <3>3. Filled(u, Len(s), PieceBeats[x], x.tag)
      BY <1>4, <1>5, <2>1, <2>3, <2>6 DEF Filled
    <3>4. QED
      BY <2>3, <2>4, <2>8, <3>1, <3>2, <3>3, LaneTypes, Requested
  <2>10. Served(d)' = Served(d) /\ xfer(d)' = xfer(d)
    BY <1>6 DEF Served, xfer
  <2>11. QED
    BY <1>6, <1>7, <2>9, <2>10 DEF InOrder, u
<1>9. ASSUME NEW e \in Dests \ {d} PROVE InOrder(e)'
  BY <1>6, <1>7, LeftAlone DEF BeatInv
<1>10. WholeInv'
  <2>1. SUFFICES ASSUME WholeData, NEW e \in Dests
                 PROVE  \A i \in 1 .. Len(req_q'[e]) : Whole(req_q'[e][i].len)
    BY <1>6 DEF WholeInv, BeatInv
  <2>2. \A i \in 1 .. Len(req_q[e]) : Whole(req_q[e][i].len)
    BY <2>1 DEF WholeInv, BeatInv
  <2>3. CASE e = d
    <3>1. Whole(x.len)
      BY <1>4, <2>1 DEF WholeData
    <3>2. \A i \in 1 .. Len(Append(req_q[d], x)) :
            \/ i \in 1 .. Len(req_q[d]) /\ Append(req_q[d], x)[i] = req_q[d][i]
            \/ Append(req_q[d], x)[i] = x
      BY LaneTypes
    <3>3. QED
      BY <1>7, <2>2, <2>3, <3>1, <3>2
  <2>4. CASE e # d
    BY <1>7, <2>2, <2>4
  <2>5. QED
    BY <2>3, <2>4
<1>11. QED
  BY <1>6, <1>8, <1>9, <1>10 DEF BeatInv

\* A beat enters the FIFO: the credit it is worth is still to be counted.
LEMMA BeatBeats ==
  ASSUME CreditInv, BeatInv, NEW d \in Dests, Beat(d) PROVE BeatInv'
<1>1. /\ feed[d] # << >> /\ xfer_int[d] = FALSE
      /\ fifo' = [fifo EXCEPT ![d] = Append(@, Head(feed[d]))]
      /\ feed' = [feed EXCEPT ![d] = Tail(@)]
      /\ xfer_int' = [xfer_int EXCEPT ![d] = TRUE]
      /\ UNCHANGED <<req_q, parser, cnt, req_cred, lost, mux_q, mux>>
  BY Types DEF Beat, arb
<1>2. /\ fifo'[d] = Append(fifo[d], Head(feed[d])) /\ feed'[d] = Tail(feed[d])
      /\ xfer_int'[d] = TRUE
      /\ \A e \in Dests \ {d} : /\ fifo'[e] = fifo[e] /\ feed'[e] = feed[e]
                                /\ xfer_int'[e] = xfer_int[e]
  BY <1>1, Types
<1>3. InOrder(d)'
  <2>1. fifo'[d] \o feed'[d] = fifo[d] \o feed[d]
    <3>1. fifo[d] \in Seq(Tags) /\ feed[d] \in Seq(Tags)
      BY LaneTypes
    <3>2. Append(fifo[d], Head(feed[d])) \o Tail(feed[d]) = fifo[d] \o feed[d]
      BY <1>1, <3>1, MovedOver
    <3>3. QED
      BY <1>2, <3>2
  <2>2. Len(fifo'[d]) = Len(fifo[d]) + 1
    BY <1>2, LaneTypes
  <2>3. xfer(d) = 0 /\ xfer(d)' = 1 /\ Served(d)' = Served(d)
    BY <1>1, <1>2 DEF xfer, Served
  <2>4. Len(fifo'[d]) - cnt[d] - xfer(d)' = Len(fifo[d]) - cnt[d] - xfer(d)
    BY <2>2, <2>3, LaneTypes
  <2>5. InOrder(d)
    BY DEF BeatInv
  <2>6. QED
    BY <1>1, <2>1, <2>3, <2>4, <2>5 DEF InOrder
<1>4. ASSUME NEW e \in Dests \ {d} PROVE InOrder(e)'
  BY <1>1, <1>2, LeftAlone DEF BeatInv
<1>5. WholeInv'
  BY <1>1, WholeStays DEF BeatInv
<1>6. QED
  BY <1>1, <1>3, <1>4, <1>5 DEF BeatInv

\* req_parser holds the beats of the request it takes.
LEMMA AcceptBeats ==
  ASSUME CreditInv, BeatInv, NEW d \in Dests, Accept(d) PROVE BeatInv'
<1>1. PICK x \in Piece : x = Head(req_q[d]) /\ req_q[d] # << >>
  BY LaneTypes DEF Accept
<1>2. PICK p : p = [parser[d] EXCEPT !.state = "PARSE", !.tag = x.tag, !.len = x.len]
  OBVIOUS
<1>3. /\ p.state = "PARSE" /\ p.tag = x.tag /\ p.len = x.len /\ p.plen = parser[d].plen
  <2>1. parser[d] \in Parsers
    BY LaneTypes
  <2>2. QED
    BY <1>2, <2>1 DEF Parsers
<1>4. /\ parser[d].state = "IDLE"
      /\ parser' = [parser EXCEPT ![d] = p]
      /\ req_q' = [req_q EXCEPT ![d] = Tail(@)]
      /\ UNCHANGED <<feed, cnt, xfer_int, req_cred, fifo, lost, mux_q, mux>>
  BY <1>1, <1>2 DEF Accept, arb
<1>5. /\ parser'[d] = p /\ req_q'[d] = Tail(req_q[d])
      /\ \A e \in Dests \ {d} : parser'[e] = parser[e] /\ req_q'[e] = req_q[e]
  BY <1>4, Types
<1>6. InOrder(d)'
  <2>1. HeldBeats(parser[d]) = 0
    BY <1>4 DEF HeldBeats
  <2>2. HeldBeats(p) = PieceBeats[x]
    BY <1>3 DEF HeldBeats, PieceBeats
  <2>3. Ordered(OrderBeats(d), fifo[d] \o feed[d], Served(d), mux.tag, mux_q, req_cred[d],
                0, parser[d].tag, req_q[d], Len(fifo[d]) - cnt[d] - xfer(d))
    BY <2>1 DEF BeatInv, InOrder
  <2>4. Ordered(OrderBeats(d), fifo[d] \o feed[d], Served(d), mux.tag, mux_q, req_cred[d],
                HeldBeats(p), p.tag, Tail(req_q[d]), Len(fifo[d]) - cnt[d] - xfer(d))
    BY <1>1, <1>3, <2>2, <2>3, LaneTypes, Accepted
  <2>5. Served(d)' = Served(d) /\ xfer(d)' = xfer(d)
    BY <1>4 DEF Served, xfer
  <2>6. QED
    BY <1>4, <1>5, <2>4, <2>5 DEF InOrder
<1>7. ASSUME NEW e \in Dests \ {d} PROVE InOrder(e)'
  BY <1>4, <1>5, LeftAlone DEF BeatInv
<1>8. WholeInv'
  <2>1. SUFFICES ASSUME WholeData, NEW e \in Dests
                 PROVE  /\ \A i \in 1 .. Len(req_q'[e]) : Whole(req_q'[e][i].len)
                        /\ Whole(parser'[e].len) /\ Whole(parser'[e].plen)
    BY DEF WholeInv
  <2>2. /\ \A i \in 1 .. Len(req_q[e]) : Whole(req_q[e][i].len)
        /\ Whole(parser[e].len) /\ Whole(parser[e].plen)
    BY <2>1 DEF WholeInv, BeatInv
  <2>3. CASE e = d
    <3>1. /\ 1 \in 1 .. Len(req_q[d]) /\ x = req_q[d][1]
          /\ \A i \in 1 .. Len(Tail(req_q[d])) :
               i + 1 \in 1 .. Len(req_q[d]) /\ Tail(req_q[d])[i] = req_q[d][i + 1]
      BY <1>1, LaneTypes
    <3>2. \A i \in 1 .. Len(Tail(req_q[d])) : Whole(Tail(req_q[d])[i].len)
      BY <2>2, <2>3, <3>1
    <3>3. Whole(p.len) /\ Whole(p.plen)
      BY <1>3, <2>2, <2>3, <3>1
    <3>4. QED
      BY <1>5, <2>3, <3>2, <3>3
  <2>4. CASE e # d
    BY <1>5, <2>2, <2>4
  <2>5. QED
    BY <2>3, <2>4
<1>9. QED
  BY <1>4, <1>6, <1>7, <1>8 DEF BeatInv

\* req_parser cuts between two beats.
LEMMA ParseBeats ==
  ASSUME CreditInv, BeatInv, Whole(PARSE_SIZE), NEW d \in Dests, Parse(d) PROVE BeatInv'
<1>1. parser[d] \in Parsers /\ parser[d].len \in Nat \ {0} /\ parser[d].state = "PARSE"
  BY Types DEF Parse, CreditInv, ParserInv, Parsers
<1>2. PICK len \in Nat \ {0}, plen \in Nat : len = parser[d].len /\ plen = Parsed(len)
  BY <1>1, CreditsAssumption DEF Parsed
<1>3. PICK p : p = [parser[d] EXCEPT !.state = "SEND", !.len = len - plen, !.plen = plen]
  OBVIOUS
<1>4. p.state = "SEND" /\ p.tag = parser[d].tag /\ p.len = len - plen /\ p.plen = plen
  BY <1>1, <1>3 DEF Parsers
<1>5. /\ parser' = [parser EXCEPT ![d] = p]
      /\ UNCHANGED <<req_q, feed, cnt, xfer_int, req_cred, fifo, lost, mux_q, mux>>
  BY <1>2, <1>3 DEF Parse, arb
<1>6. parser'[d] = p /\ \A e \in Dests \ {d} : parser'[e] = parser[e]
  BY <1>5, Types
<1>7. /\ Beats(len) = Beats(plen) + Beats(len - plen)
      /\ Whole(len) => Whole(plen) /\ Whole(len - plen)
  BY <1>2, ParsedBeats
<1>8. InOrder(d)'
  <2>1. HeldBeats(p) = HeldBeats(parser[d])
    BY <1>1, <1>2, <1>4, <1>7 DEF HeldBeats
  <2>2. InOrder(d)
    BY DEF BeatInv
  <2>3. Served(d)' = Served(d) /\ xfer(d)' = xfer(d)
    BY <1>5 DEF Served, xfer
  <2>4. QED
    BY <1>4, <1>5, <1>6, <2>1, <2>2, <2>3 DEF InOrder
<1>9. ASSUME NEW e \in Dests \ {d} PROVE InOrder(e)'
  BY <1>5, <1>6, LeftAlone DEF BeatInv
<1>10. WholeInv'
  <2>1. SUFFICES ASSUME WholeData, NEW e \in Dests
                 PROVE  Whole(parser'[e].len) /\ Whole(parser'[e].plen)
    BY <1>5 DEF WholeInv, BeatInv
  <2>2. Whole(parser[e].len) /\ Whole(parser[e].plen)
    BY <2>1 DEF WholeInv, BeatInv
  <2>3. QED
    BY <1>2, <1>4, <1>6, <1>7, <2>2
<1>11. QED
  BY <1>5, <1>8, <1>9, <1>10 DEF BeatInv

\* A number below the modulus is its own remainder.
LEMMA NoWrap == ASSUME NEW n \in Nat, NEW x \in 0 .. n - 1 PROVE x % n = x
  OBVIOUS

\* Credits are never more than the beats in the FIFO, so the counter does not
\* wrap round.
LEMMA CreditsAreBeats ==
  ASSUME CreditInv, BeatInv, WholeData, NEW d \in Dests
  PROVE  cnt[d] + xfer(d) <= Len(fifo[d]) /\ cnt[d] + xfer(d) < CntSize
<1>1. InOrder(d)
  BY DEF BeatInv
<1>2. Len(fifo[d]) - cnt[d] - xfer(d) >= 0
  BY <1>1, LaneTypes, Covered DEF InOrder
<1>3. /\ Len(fifo[d]) \in Nat /\ cnt[d] \in Nat /\ xfer(d) \in 0 .. 1
      /\ Len(fifo[d]) <= FifoDepth /\ FifoDepth < CntSize
      /\ FifoDepth \in Nat /\ CntSize \in Nat
  BY LaneTypes, CreditsAssumption DEF WholeData
<1>4. QED
  BY <1>2, <1>3

\* req_credits_wr passes a piece on.
LEMMA ReleaseBeats ==
  ASSUME CreditInv, BeatInv, NEW d \in Dests, Release(d) PROVE BeatInv'
<1>1. /\ parser[d] \in Parsers /\ parser[d].state = "SEND"
      /\ parser[d].plen \in Nat \ {0} /\ parser[d].len \in Nat
  BY Types DEF Release, Releasable, CreditInv, ParserInv, Parsers
<1>2. PICK x \in Piece : x = [tag |-> parser[d].tag, len |-> parser[d].plen]
  BY <1>1 DEF Parsers, Piece
<1>3. x.tag = parser[d].tag /\ x.len = parser[d].plen /\ PieceBeats[x] = Beats(parser[d].plen)
  BY <1>2 DEF PieceBeats
<1>4. PICK p : p = IF parser[d].len # 0
                   THEN [parser[d] EXCEPT !.state = "PARSE", !.plen = 0]
                   ELSE IdleParser
  OBVIOUS
<1>5. PICK k : k = (cnt[d] - n_beats(parser[d].plen) + xfer(d)) % CntSize
  OBVIOUS
<1>6. /\ cnt[d] >= n_beats(parser[d].plen)
      /\ cnt' = [cnt EXCEPT ![d] = k]
      /\ xfer_int' = [xfer_int EXCEPT ![d] = FALSE]
      /\ req_cred' = [req_cred EXCEPT ![d] = Append(@, x)]
      /\ parser' = [parser EXCEPT ![d] = p]
      /\ UNCHANGED <<req_q, feed, fifo, lost, mux_q, mux>>
  BY <1>2, <1>4, <1>5 DEF Release, Releasable, arb
<1>7. /\ cnt'[d] = k /\ xfer_int'[d] = FALSE /\ parser'[d] = p
      /\ req_cred'[d] = Append(req_cred[d], x)
      /\ \A e \in Dests \ {d} : /\ cnt'[e] = cnt[e] /\ xfer_int'[e] = xfer_int[e]
                                /\ req_cred'[e] = req_cred[e] /\ parser'[e] = parser[e]
  BY <1>6, Types
<1>8. PICK h \in Nat : h = Beats(parser[d].len)
  BY <1>1, BeatsCover
<1>9. /\ HeldBeats(p) = h /\ (h # 0 => p.tag = x.tag)
      /\ p.len = parser[d].len /\ p.plen = 0
  <2>1. CASE parser[d].len # 0
    <3>1. /\ p.state = "PARSE" /\ p.len = parser[d].len /\ p.tag = parser[d].tag
          /\ p.plen = 0
      BY <1>1, <1>4, <2>1 DEF Parsers
    <3>2. QED
      BY <1>3, <1>8, <3>1 DEF HeldBeats
  <2>2. CASE parser[d].len = 0
    <3>1. p.state = "IDLE" /\ p.len = 0 /\ p.plen = 0
      BY <1>4, <2>2 DEF IdleParser
    <3>2. h = 0
      BY <1>8, <2>2, NoBeats
    <3>3. QED
      BY <2>2, <3>1, <3>2 DEF HeldBeats
  <2>3. QED
    BY <2>1, <2>2
<1>10. k \in Int /\ (WholeData => k = cnt[d] - PieceBeats[x] + xfer(d))
  <2>1. n_beats(parser[d].plen) \in Nat /\ cnt[d] \in Nat /\ xfer(d) \in 0 .. 1
    BY <1>1, CountsType, LaneTypes
  <2>2. CntSize \in Nat \ {0}
    BY CreditsAssumption
  <2>3. k \in Int
    <3>1. cnt[d] - n_beats(parser[d].plen) + xfer(d) \in Int
      BY <2>1
    <3>2. k \in 0 .. CntSize - 1
      BY <1>5, <2>2, <3>1, DivMod
    <3>3. QED
      BY <3>2
  <2>4. ASSUME WholeData PROVE k = cnt[d] - PieceBeats[x] + xfer(d)
    <3>1. Whole(parser[d].plen)
      BY <2>4 DEF BeatInv, WholeInv
    <3>2. n_beats(parser[d].plen) = PieceBeats[x]
      BY <1>1, <1>3, <3>1, NBeatsWhole
    <3>3. cnt[d] - n_beats(parser[d].plen) + xfer(d) \in 0 .. CntSize - 1
      BY <1>6, <2>1, <2>2, <2>4, CreditsAreBeats
    <3>4. QED
      BY <1>5, <2>2, <3>2, <3>3, NoWrap
  <2>5. QED
    BY <2>3, <2>4
<1>11. InOrder(d)'
  <2> DEFINE n == Len(fifo[d]) - cnt[d] - xfer(d)
             m == Len(fifo[d]) - k - 0
  <2>1. HeldBeats(parser[d]) = PieceBeats[x] + h
    BY <1>1, <1>3, <1>8 DEF HeldBeats
  <2>2. Ordered(OrderBeats(d), fifo[d] \o feed[d], Served(d), mux.tag, mux_q, req_cred[d],
                PieceBeats[x] + h, x.tag, req_q[d], n)
    BY <1>3, <2>1 DEF BeatInv, InOrder
  <2>3. n \in Int /\ m \in Int /\ (WholeData => m = n + PieceBeats[x])
    <3>1. /\ Len(fifo[d]) \in Nat /\ cnt[d] \in Nat /\ xfer(d) \in 0 .. 1
          /\ PieceBeats[x] \in Nat
      BY LaneTypes, PieceBeatsType
    <3>2. k = cnt[d] - PieceBeats[x] + xfer(d) => m = n + PieceBeats[x]
      BY <1>10, <3>1
    <3>3. n \in Int /\ m \in Int
      BY <1>10, <3>1
    <3>4. QED
      BY <1>10, <3>2, <3>3
  <2> HIDE DEF n, m
  <2>4. Ordered(OrderBeats(d), fifo[d] \o feed[d], Served(d), mux.tag, mux_q,
                Append(req_cred[d], x), h, p.tag, req_q[d], m)
    BY <1>9, <2>2, <2>3, LaneTypes, Released
  <2>5. Served(d)' = Served(d) /\ xfer(d)' = 0
    BY <1>6, <1>7 DEF Served, xfer
  <2>6. Ordered(OrderBeats(d), fifo'[d] \o feed'[d], Served(d)', mux'.tag, mux_q',
                req_cred'[d], HeldBeats(parser'[d]), parser'[d].tag, req_q'[d],
                Len(fifo'[d]) - cnt'[d] - xfer(d)')
    BY <1>6, <1>7, <1>9, <2>4, <2>5 DEF m
  <2>7. QED
    BY <2>6 DEF InOrder
<1>12. ASSUME NEW e \in Dests \ {d} PROVE InOrder(e)'
  BY <1>6, <1>7, LeftAlone DEF BeatInv
<1>13. WholeInv'
  <2>1. SUFFICES ASSUME WholeData, NEW e \in Dests
                 PROVE  Whole(parser'[e].len) /\ Whole(parser'[e].plen)
    BY <1>6 DEF WholeInv, BeatInv
  <2>2. Whole(parser[e].len) /\ Whole(parser[e].plen)
    BY <2>1 DEF WholeInv, BeatInv
  <2>3. QED
    BY <1>7, <1>9, <2>2, NoBeats
<1>14. QED
  BY <1>6, <1>11, <1>12, <1>13 DEF BeatInv

\* It counts the beat of the edge before.
LEMMA CountBeats ==
  ASSUME CreditInv, BeatInv, NEW d \in Dests, Count(d) PROVE BeatInv'
<1>1. PICK k : k = (cnt[d] + 1) % CntSize
  OBVIOUS
<1>2. /\ xfer_int[d]
      /\ cnt' = [cnt EXCEPT ![d] = k]
      /\ xfer_int' = [xfer_int EXCEPT ![d] = FALSE]
      /\ UNCHANGED <<req_q, feed, parser, req_cred, fifo, lost, mux_q, mux>>
  BY <1>1 DEF Count, arb
<1>3. /\ cnt'[d] = k /\ xfer_int'[d] = FALSE
      /\ \A e \in Dests \ {d} : cnt'[e] = cnt[e] /\ xfer_int'[e] = xfer_int[e]
  BY <1>2, Types
<1>4. InOrder(d)'
  <2> DEFINE n == Len(fifo[d]) - cnt[d] - xfer(d)
             m == Len(fifo[d]) - k - 0
  <2>1. xfer(d) = 1 /\ xfer(d)' = 0 /\ Served(d)' = Served(d)
    BY <1>2, <1>3 DEF xfer, Served
  <2>2. ASSUME WholeData PROVE m = n
    <3>1. CntSize \in Nat /\ cnt[d] \in Nat /\ Len(fifo[d]) \in Nat
      BY CreditsAssumption, LaneTypes
    <3>2. cnt[d] + 1 < CntSize
      BY <2>1, <2>2, CreditsAreBeats
    <3>3. cnt[d] + 1 \in 0 .. CntSize - 1
      BY <3>1, <3>2
    <3>4. k = cnt[d] + 1
      BY <1>1, <3>1, <3>3, NoWrap
    <3>5. QED
      BY <2>1, <3>1, <3>4
  <2>3. Ordered(OrderBeats(d), fifo[d] \o feed[d], Served(d), mux.tag, mux_q, req_cred[d],
                HeldBeats(parser[d]), parser[d].tag, req_q[d], n)
    BY DEF BeatInv, InOrder
  <2> HIDE DEF n, m
  <2>4. Ordered(OrderBeats(d), fifo[d] \o feed[d], Served(d), mux.tag, mux_q, req_cred[d],
                HeldBeats(parser[d]), parser[d].tag, req_q[d], m)
    BY <2>2, <2>3, Recounted
  <2>5. QED
    BY <1>2, <1>3, <2>1, <2>4 DEF InOrder, m
<1>5. ASSUME NEW e \in Dests \ {d} PROVE InOrder(e)'
  BY <1>2, <1>3, LeftAlone DEF BeatInv
<1>6. WholeInv'
  BY <1>2, WholeStays DEF BeatInv
<1>7. QED
  BY <1>2, <1>4, <1>5, <1>6 DEF BeatInv

\* dest_req_arb passes the first piece of a lane on and orders its beats.
LEMMA ArbitrateBeats ==
  ASSUME CreditInv, BeatInv, Ahead + RegDepth <= N_OUTSTANDING_REGION,
         NEW i \in Dests, Arbitrate(i)
  PROVE  BeatInv'
<1>1. PICK d \in Dests : d = (rr_reg + i) % N_DESTS
  BY LaneType DEF CreditInv, TypeOK
<1>2. SeqReady
  BY ArbiterHasRoom
<1>3. req_cred[d] # << >>
  BY <1>1 DEF Arbitrate
<1>4. PICK p \in Piece : p = Head(req_cred[d])
  BY <1>3, LaneTypes
<1>5. PICK x : x = [dest |-> d, tag |-> p.tag, n_tr |-> n_tr(p.len)]
  OBVIOUS
<1>6. /\ req_cred' = [req_cred EXCEPT ![d] = Tail(@)]
      /\ mux_q' = Append(mux_q, x)
      /\ UNCHANGED <<req_q, feed, parser, cnt, xfer_int, fifo, lost, mux>>
  BY <1>1, <1>2, <1>4, <1>5 DEF Arbitrate, lane
<1>7. /\ req_cred'[d] = Tail(req_cred[d])
      /\ \A e \in Dests \ {d} : req_cred'[e] = req_cred[e]
  BY <1>6, Types
<1>8. p.len \in Nat \ {0} /\ p.tag \in Tags
  BY DEF Piece
<1>9. x \in Order /\ x.dest = d /\ x.tag = p.tag /\ x.n_tr = n_tr(p.len)
  BY <1>5, <1>8, CountsType DEF Order
<1>10. \A e \in Dests : Served(e)' = Served(e) /\ xfer(e)' = xfer(e)
  BY <1>6 DEF Served, xfer
<1>11. InOrder(d)'
  <2>1. OrderBeats(d)[x] = PieceBeats[p]
    <3>1. OrderBeats(d)[x] = n_tr(p.len) + 1
      BY <1>9 DEF OrderBeats
    <3>2. PieceBeats[p] = Beats(p.len)
      BY DEF PieceBeats
    <3>3. QED
      BY <1>8, <3>1, <3>2, NTrBeats
  <2>2. Ordered(OrderBeats(d), fifo[d] \o feed[d], Served(d), mux.tag, mux_q, req_cred[d],
                HeldBeats(parser[d]), parser[d].tag, req_q[d],
                Len(fifo[d]) - cnt[d] - xfer(d))
    BY DEF BeatInv, InOrder
  <2>3. Ordered(OrderBeats(d), fifo[d] \o feed[d], Served(d), mux.tag, Append(mux_q, x),
                Tail(req_cred[d]), HeldBeats(parser[d]), parser[d].tag, req_q[d],
                Len(fifo[d]) - cnt[d] - xfer(d))
    BY <1>3, <1>4, <1>9, <2>1, <2>2, LaneTypes, Arbitrated
  <2>4. QED
    BY <1>6, <1>7, <1>10, <2>3 DEF InOrder
<1>12. ASSUME NEW e \in Dests \ {d} PROVE InOrder(e)'
  <2>1. OrderBeats(e)[x] = 0
    BY <1>9 DEF OrderBeats
  <2>2. Ordered(OrderBeats(e), fifo[e] \o feed[e], Served(e), mux.tag, mux_q, req_cred[e],
                HeldBeats(parser[e]), parser[e].tag, req_q[e],
                Len(fifo[e]) - cnt[e] - xfer(e))
    BY DEF BeatInv, InOrder
  <2>3. Ordered(OrderBeats(e), fifo[e] \o feed[e], Served(e), mux.tag, Append(mux_q, x),
                req_cred[e], HeldBeats(parser[e]), parser[e].tag, req_q[e],
                Len(fifo[e]) - cnt[e] - xfer(e))
    BY <1>9, <2>1, <2>2, LaneTypes, ArbitratedElsewhere
  <2>4. QED
    BY <1>6, <1>7, <1>10, <2>3 DEF InOrder
<1>13. WholeInv'
  BY <1>6, WholeStays DEF BeatInv
<1>14. QED
  BY <1>6, <1>11, <1>12, <1>13 DEF BeatInv

\* The multiplexer, done with its piece, takes the next order: s are the beats
\* of lane e that are left, n those of them that came with credits.
LEMMA LoadBeats ==
  ASSUME CreditInv, mux_q # << >>, Load, NEW e \in Dests, NEW s \in Seq(Tags), NEW t, NEW n,
         Ordered(OrderBeats(e), s, 0, t, mux_q, req_cred[e], HeldBeats(parser[e]),
                 parser[e].tag, req_q[e], n)
  PROVE  Ordered(OrderBeats(e), s, Served(e)', mux'.tag, mux_q', req_cred[e],
                 HeldBeats(parser[e]), parser[e].tag, req_q[e], n)
<1>1. PICK x \in Order : x = Head(mux_q)
  BY ArbTypes
<1>2. /\ mux' = [state |-> "MUX", dest |-> x.dest, tag |-> x.tag, cnt |-> x.n_tr]
      /\ mux_q' = Tail(mux_q)
  BY <1>1 DEF Load
<1>3. mux'.state = "MUX" /\ mux'.dest = x.dest /\ mux'.tag = x.tag /\ mux'.cnt = x.n_tr
  BY <1>2
<1>4. Served(e)' = OrderBeats(e)[x]
  BY <1>3 DEF Served, OrderBeats
<1>5. Ordered(OrderBeats(e), s, OrderBeats(e)[x], x.tag, Tail(mux_q), req_cred[e],
              HeldBeats(parser[e]), parser[e].tag, req_q[e], n)
  BY <1>1, LaneTypes, Loaded
<1>6. QED
  BY <1>2, <1>3, <1>4, <1>5

\* axis_mux_user_wr starts.
LEMMA MuxStartBeats ==
  ASSUME CreditInv, BeatInv, MuxStart PROVE BeatInv'
<1>1. /\ mux.state = "IDLE" /\ mux_q # << >> /\ Load
      /\ UNCHANGED <<req_q, feed, parser, cnt, xfer_int, req_cred, fifo, lost>>
  BY DEF MuxStart, lane
<1>2. ASSUME NEW e \in Dests PROVE InOrder(e)'
  <2>1. Served(e) = 0 /\ xfer(e)' = xfer(e)
    BY <1>1 DEF Served, xfer
  <2>2. Ordered(OrderBeats(e), fifo[e] \o feed[e], 0, mux.tag, mux_q, req_cred[e],
                HeldBeats(parser[e]), parser[e].tag, req_q[e],
                Len(fifo[e]) - cnt[e] - xfer(e))
    BY <2>1 DEF BeatInv, InOrder
  <2>3. Ordered(OrderBeats(e), fifo[e] \o feed[e], Served(e)', mux'.tag, mux_q',
                req_cred[e], HeldBeats(parser[e]), parser[e].tag, req_q[e],
                Len(fifo[e]) - cnt[e] - xfer(e))
    BY <1>1, <2>2, LaneTypes, LoadBeats
  <2>4. QED
    BY <1>1, <2>1, <2>3 DEF InOrder
<1>3. WholeInv'
  BY <1>1, WholeStays DEF BeatInv
<1>4. QED
  BY <1>1, <1>2, <1>3 DEF BeatInv

\* It forwards a beat, and goes on with the piece, with the next one or idle.
LEMMA MuxBeatBeats ==
  ASSUME CreditInv, BeatInv, MuxBeat PROVE BeatInv'
<1>1. PICK d \in Dests : d = mux.dest
  BY ArbTypes DEF Muxes
<1>2. mux \in Muxes /\ mux.cnt \in Nat /\ mux.state = "MUX"
  BY ArbTypes DEF Muxes, MuxBeat
<1>3. /\ fifo[d] # << >> /\ fifo' = [fifo EXCEPT ![d] = Tail(@)]
      /\ UNCHANGED <<req_q, feed, parser, cnt, xfer_int, req_cred, lost>>
  BY <1>1 DEF MuxBeat, lane
<1>4. fifo'[d] = Tail(fifo[d]) /\ \A e \in Dests \ {d} : fifo'[e] = fifo[e]
  BY <1>3, Types
<1> DEFINE s(e) == fifo'[e] \o feed[e]
           n(e) == Len(fifo'[e]) - cnt[e] - xfer(e)
           Left(e, a, t) ==
             Ordered(OrderBeats(e), s(e), a, t, mux_q, req_cred[e], HeldBeats(parser[e]),
                     parser[e].tag, req_q[e], n(e))
<1>5. Left(d, mux.cnt, mux.tag) /\ s(d) \in Seq(Tags)
  <2>1. Served(d) = mux.cnt + 1 /\ mux.cnt + 1 \in Nat /\ mux.cnt + 1 # 0
        /\ (mux.cnt + 1) - 1 = mux.cnt
    BY <1>1, <1>2 DEF Served
  <2>2. fifo[d] \in Seq(Tags) /\ feed[d] \in Seq(Tags) /\ fifo[d] \o feed[d] \in Seq(Tags)
    BY LaneTypes
  <2>3. s(d) = Tail(fifo[d] \o feed[d])
    BY <1>3, <1>4, <2>2, TakenOff
  <2>4. s(d) \in Seq(Tags)
    <3>1. fifo'[d] \in Seq(Tags)
      BY <1>3, <1>4, Types, Pop
    <3>2. QED
      BY <2>2, <3>1, Joined
  <2>5. n(d) = (Len(fifo[d]) - cnt[d] - xfer(d)) - 1
    <3>1. Len(fifo'[d]) = Len(fifo[d]) - 1
      BY <1>3, <1>4, Types, Pop
    <3>2. Len(fifo[d]) \in Nat /\ cnt[d] \in Nat /\ xfer(d) \in 0 .. 1
      BY LaneTypes
    <3>3. QED
      BY <3>1, <3>2
  <2>6. Ordered(OrderBeats(d), fifo[d] \o feed[d], mux.cnt + 1, mux.tag, mux_q, req_cred[d],
                HeldBeats(parser[d]), parser[d].tag, req_q[d],
                Len(fifo[d]) - cnt[d] - xfer(d))
    BY <2>1 DEF BeatInv, InOrder
  <2>7. Ordered(OrderBeats(d), Tail(fifo[d] \o feed[d]), (mux.cnt + 1) - 1, mux.tag, mux_q,
                req_cred[d], HeldBeats(parser[d]), parser[d].tag, req_q[d],
                (Len(fifo[d]) - cnt[d] - xfer(d)) - 1)
    BY <2>1, <2>6, LaneTypes, Forwarded
  <2>8. QED
    BY <2>1, <2>3, <2>4, <2>5, <2>7
<1>6. ASSUME NEW e \in Dests \ {d} PROVE Left(e, 0, mux.tag) /\ s(e) \in Seq(Tags)
  <2>1. Served(e) = 0 /\ fifo'[e] = fifo[e]
    BY <1>1, <1>4 DEF Served
  <2>2. InOrder(e) /\ s(e) \in Seq(Tags)
    BY <2>1, LaneTypes DEF BeatInv
  <2>3. QED
    BY <2>1, <2>2 DEF InOrder
<1> HIDE DEF s, n
<1>7. \A e \in Dests : xfer(e)' = xfer(e)
  BY <1>3 DEF xfer
<1>8. ASSUME NEW e \in Dests,
             Ordered(OrderBeats(e), s(e), Served(e)', mux'.tag, mux_q', req_cred[e],
                     HeldBeats(parser[e]), parser[e].tag, req_q[e], n(e))
      PROVE  InOrder(e)'
  BY <1>3, <1>7, <1>8 DEF InOrder, s, n
<1>9. ASSUME NEW e \in Dests PROVE InOrder(e)'
  <2>1. CASE mux.cnt # 0
    <3>1. mux' = [mux EXCEPT !.cnt = @ - 1] /\ mux_q' = mux_q
      BY <2>1 DEF MuxBeat
    <3>2. /\ mux'.state = "MUX" /\ mux'.dest = d /\ mux'.tag = mux.tag
          /\ mux'.cnt + 1 = mux.cnt
      BY <1>1, <1>2, <3>1 DEF Muxes
    <3>3. CASE e = d
      <4>1. Served(e)' = mux.cnt
        BY <3>2, <3>3 DEF Served
      <4>2. QED
        BY <1>5, <1>8, <3>1, <3>2, <3>3, <4>1
    <3>4. CASE e # d
      <4>1. Served(e)' = 0
        BY <3>2, <3>4 DEF Served
      <4>2. QED
        BY <1>6, <1>8, <3>1, <3>2, <3>4, <4>1
    <3>5. QED
      BY <3>3, <3>4
  <2>2. CASE mux.cnt = 0
    <3>1. Left(e, 0, mux.tag) /\ s(e) \in Seq(Tags)
      BY <1>5, <1>6, <2>2
    <3>2. CASE mux_q # << >>
      <4>1. Load
        BY <2>2, <3>2 DEF MuxBeat
      <4>2. QED
        BY <1>8, <3>1, <3>2, <4>1, LoadBeats
    <3>3. CASE mux_q = << >>
      <4>1. mux' = IdleMux /\ mux_q' = mux_q
        BY <2>2, <3>3 DEF MuxBeat
      <4>2. Served(e)' = 0
        BY <4>1 DEF Served, IdleMux
      <4>3. Left(e, 0, mux'.tag)
        BY <3>1, Retagged
      <4>4. QED
        BY <1>8, <4>1, <4>2, <4>3
    <3>4. QED
      BY <3>2, <3>3
  <2>3. QED
    BY <2>1, <2>2
<1>10. WholeInv'
  BY <1>3, WholeStays DEF BeatInv
<1>11. QED
  BY <1>3, <1>9, <1>10 DEF BeatInv

\* After reset there are no beats.
LEMMA InitBeatInv == Init => BeatInv
<1>1. SUFFICES ASSUME Init PROVE BeatInv
  OBVIOUS
<1>2. CreditInv
  BY <1>1, InitCreditInv
<1>3. ASSUME NEW d \in Dests PROVE InOrder(d)
  <2>1. /\ fifo[d] = << >> /\ feed[d] = << >> /\ mux_q = << >> /\ req_cred[d] = << >>
        /\ req_q[d] = << >> /\ cnt[d] = 0 /\ xfer_int[d] = FALSE
        /\ parser[d] = IdleParser /\ mux = IdleMux
    BY <1>1 DEF Init
  <2>2. /\ Served(d) = 0 /\ HeldBeats(parser[d]) = 0 /\ xfer(d) = 0
    BY <2>1 DEF Served, HeldBeats, IdleParser, IdleMux, xfer
  <2>3. << >> \in Seq(Tags) /\ Len(<< >>) = 0 /\ << >> \o << >> = << >> /\ 0 \in 0 .. 0
    OBVIOUS
  <2>4. \A Z : Chain(Z, 0, << >>, 0, << >>)
    BY <2>3, ChainOfNone
  <2>5. 0 + 0 = 0 /\ 0 - 0 - 0 = 0 /\ 0 <= 0 /\ \A t : Filled(<< >>, 0, 0, t)
    <3>1. \A j \in 0 + 1 .. 0 + 0 : FALSE
      OBVIOUS
    <3>2. \A t : Filled(<< >>, 0, 0, t)
      BY <3>1 DEF Filled
    <3>3. 0 + 0 = 0 /\ 0 - 0 - 0 = 0 /\ 0 <= 0
      OBVIOUS
    <3>4. QED
      BY <3>2, <3>3
  <2>6. Ordered(OrderBeats(d), << >>, 0, mux.tag, << >>, << >>, 0, parser[d].tag, << >>, 0)
    BY <2>3, <2>4, <2>5 DEF Ordered
  <2>7. QED
    BY <2>1, <2>2, <2>3, <2>5, <2>6 DEF InOrder
<1>4. WholeInv
  <2>1. SUFFICES ASSUME NEW d \in Dests
                 PROVE  /\ \A i \in 1 .. Len(req_q[d]) : Whole(req_q[d][i].len)
                        /\ Whole(parser[d].len) /\ Whole(parser[d].plen)
    BY DEF WholeInv
  <2>2. req_q[d] = << >> /\ parser[d].len = 0 /\ parser[d].plen = 0
    BY <1>1 DEF Init, IdleParser
  <2>3. \A i \in 1 .. Len(<< >>) : FALSE
    OBVIOUS
  <2>4. QED
    BY <2>2, <2>3, NoBeats
<1>5. QED
  BY <1>1, <1>3, <1>4 DEF Init, BeatInv

\* Nothing but the state matters.
LEMMA StutterBeatInv ==
  ASSUME BeatInv, UNCHANGED <<req_q, feed, parser, cnt, xfer_int, req_cred, fifo, lost, mux_q, mux>>
  PROVE  BeatInv'
<1>1. ASSUME NEW e \in Dests PROVE InOrder(e)'
  BY LeftAlone DEF BeatInv
<1>2. WholeInv'
  BY WholeStays DEF BeatInv
<1>3. QED
  BY <1>1, <1>2 DEF BeatInv

\* Every step of every block keeps the beats in order.
LEMMA NextBeatInv ==
  ASSUME Whole(PARSE_SIZE), Ahead + RegDepth <= N_OUTSTANDING_REGION,
         CreditInv, BeatInv, [Next]_vars
  PROVE  BeatInv'
<1>1. ASSUME NEW d \in Dests, Lane(d) PROVE BeatInv'
  BY <1>1, BeatBeats, AcceptBeats, ParseBeats, ReleaseBeats, CountBeats DEF Lane
<1>2. CASE Take
  BY <1>2, StutterBeatInv DEF Take, lane
<1>3. CASE UNCHANGED vars
  BY <1>3, StutterBeatInv DEF vars, lane, arb
<1>4. QED
  BY <1>1, <1>2, <1>3, RequestBeats, ArbitrateBeats, MuxStartBeats, MuxBeatBeats
     DEF Next, Arbiter

\* The next beat of the FIFO is one of the piece that is served.
LEMMA BeatsBelong ==
  ASSUME CreditInv, BeatInv PROVE BeatsBelongToTheirRequest
<1>1. SUFFICES ASSUME mux.state = "MUX", fifo[mux.dest] # << >>
               PROVE  Head(fifo[mux.dest]) = mux.tag
  BY DEF BeatsBelongToTheirRequest
<1>2. PICK d \in Dests : d = mux.dest
  BY ArbTypes DEF Muxes
<1>3. Served(d) \in Nat /\ 1 \in 1 .. Served(d)
  <2>1. mux.cnt \in Nat /\ Served(d) = mux.cnt + 1
    BY <1>1, <1>2, ArbTypes DEF Served, Muxes
  <2>2. QED
    BY <2>1
<1>4. (fifo[d] \o feed[d])[1] = mux.tag
  <2>1. InOrder(d)
    BY DEF BeatInv
  <2>2. Filled(fifo[d] \o feed[d], 0, Served(d), mux.tag)
    BY <2>1 DEF InOrder, Ordered
  <2>3. 1 \in 0 + 1 .. 0 + Served(d)
    BY <1>3
  <2>4. QED
    BY <2>2, <2>3 DEF Filled
<1>5. (fifo[d] \o feed[d])[1] = fifo[d][1] /\ Head(fifo[d]) = fifo[d][1]
  <2> DEFINE u == fifo[d]
             v == feed[d]
             w == fifo[d] \o feed[d]
  <2>1. u \in Seq(Tags) /\ v \in Seq(Tags) /\ u # << >>
    BY <1>1, <1>2, LaneTypes
  <2>2. Joins(w, u, v)
    BY <2>1, Joined
  <2> HIDE DEF u, v, w
  <2>3. 1 \in 1 .. Len(u) /\ Head(u) = u[1]
    BY <2>1
  <2>4. w[1] = u[1]
    BY <2>2, <2>3 DEF Joins
  <2>5. QED
    BY <2>3, <2>4 DEF u, w
<1>6. QED
  BY <1>2, <1>4, <1>5

\* A function on 1..n is a sequence.
LEMMA FunctionIsSequence ==
  ASSUME NEW S, NEW n \in Nat, NEW f \in [1 .. n -> S]
  PROVE  f \in Seq(S) /\ Len(f) = n
  OBVIOUS

\* The beats of what was released are dealt out from the FIFO.
LEMMA DataPresent ==
  ASSUME CreditInv, BeatInv, WholeData PROVE ReleasedDataIsPresent
<1>1. SUFFICES ASSUME NEW d \in Dests
               PROVE  \E f \in [0 .. Len(Due(d)) -> 0 .. Len(fifo[d])] :
                        /\ f[0] = Served(d)
                        /\ \A i \in 1 .. Len(Due(d)) : f[i] = f[i - 1] + Due(d)[i]
  BY DEF ReleasedDataIsPresent
<1> DEFINE s == fifo[d] \o feed[d]
           r == req_cred[d]
           Z == OrderBeats(d)
<1>2. PICK b \in 0 .. Len(s), c \in 0 .. Len(s) :
        /\ Chain(Z, Served(d), mux_q, b, s)
        /\ Chain(PieceBeats, b, r, c, s)
        /\ c <= Len(fifo[d]) - cnt[d] - xfer(d)
  BY DEF BeatInv, InOrder, Ordered
<1>3. s \in Seq(Tags) /\ Len(s) \in Nat /\ c <= Len(fifo[d]) /\ Len(fifo[d]) \in Nat
  <2>1. /\ s \in Seq(Tags) /\ Len(fifo[d]) \in Nat /\ cnt[d] \in Nat /\ xfer(d) \in 0 .. 1
    BY LaneTypes
  <2> HIDE DEF s
  <2>2. Len(s) \in Nat
    BY <2>1
  <2>3. c \in Int /\ c <= Len(fifo[d]) - cnt[d] - xfer(d)
    BY <1>2, <2>2
  <2>4. c <= Len(fifo[d])
    BY <2>1, <2>3
  <2>5. QED
    BY <2>1, <2>2, <2>4
<1>4. PICK n \in Nat, m \in Nat : n = Len(mux_q) /\ m = Len(r)
  <2>1. Len(mux_q) \in Nat /\ Len(r) \in Nat
    BY LaneTypes
  <2>2. QED
    BY <2>1
<1> HIDE DEF s
<1>5. PICK f \in [0 .. n -> 0 .. Len(s)] :
        /\ f[0] = Served(d) /\ f[n] = b
        /\ \A i, j \in 0 .. n : i <= j => f[i] <= f[j]
        /\ \A i \in 1 .. n : f[i] = f[i - 1] + Z[mux_q[i]]
  BY <1>2, <1>4 DEF Chain, Runs
<1>6. PICK g \in [0 .. m -> 0 .. Len(s)] :
        /\ g[0] = b /\ g[m] = c
        /\ \A i, j \in 0 .. m : i <= j => g[i] <= g[j]
        /\ \A i \in 1 .. m : g[i] = g[i - 1] + PieceBeats[r[i]]
  BY <1>2, <1>4 DEF Chain, Runs
<1> DEFINE A == [i \in 1 .. Len(mux_q) |-> IF mux_q[i].dest = d THEN mux_q[i].n_tr + 1 ELSE 0]
           B == [i \in 1 .. Len(req_cred[d]) |-> Beats(req_cred[d][i].len)]
<1>7. A \in Seq(Nat) /\ Len(A) = n /\ \A i \in 1 .. n : A[i] = Z[mux_q[i]]
  <2>1. \A i \in 1 .. n : mux_q[i] \in Order
    BY <1>4, LaneTypes
  <2>2. \A i \in 1 .. n : A[i] = Z[mux_q[i]] /\ A[i] \in Nat
    BY <1>4, <2>1 DEF OrderBeats, Order
  <2>3. A \in [1 .. n -> Nat]
    BY <1>4, <2>2
  <2> HIDE DEF A
  <2>4. A \in Seq(Nat) /\ Len(A) = n
    BY <2>3, FunctionIsSequence
  <2>5. QED
    BY <2>2, <2>4
<1>8. B \in Seq(Nat) /\ Len(B) = m /\ \A i \in 1 .. m : B[i] = PieceBeats[r[i]]
  <2>1. \A i \in 1 .. m : r[i] \in Piece
    BY <1>4, LaneTypes
  <2>2. \A i \in 1 .. m : B[i] = PieceBeats[r[i]] /\ B[i] \in Nat
    BY <1>4, <2>1, PieceBeatsType DEF PieceBeats
  <2>3. B \in [1 .. m -> Nat]
    BY <1>4, <2>2
  <2> HIDE DEF B
  <2>4. B \in Seq(Nat) /\ Len(B) = m
    BY <2>3, FunctionIsSequence
  <2>5. QED
    BY <2>2, <2>4
<1>9. Due(d) = A \o B
  BY DEF Due
<1> HIDE DEF A, B
<1>10. Joins(Due(d), A, B)
  BY <1>7, <1>8, <1>9, Joined
<1> DEFINE D == Due(d)
<1> HIDE DEF D
<1>11. /\ Len(D) = n + m
       /\ \A i \in 1 .. n : D[i] = Z[mux_q[i]]
       /\ \A i \in 1 .. m : D[n + i] = PieceBeats[r[i]]
  <2>1. Joins(D, A, B)
    BY <1>10 DEF D
  <2>2. /\ Len(D) = n + m
        /\ \A i \in 1 .. n : D[i] = A[i]
        /\ \A i \in 1 .. m : D[n + i] = B[i]
    BY <1>7, <1>8, <2>1 DEF Joins
  <2>3. ASSUME NEW i \in 1 .. m PROVE D[n + i] = PieceBeats[r[i]]
    BY <1>8, <2>2
  <2>4. QED
    BY <1>7, <2>2, <2>3
<1> HIDE DEF Z, r
<1> DEFINE F == [i \in 0 .. n + m |-> IF i <= n THEN f[i] ELSE g[i - n]]
<1>12. /\ \A i \in 0 .. n : F[i] = f[i]
       /\ \A i \in 0 .. m : F[n + i] = g[i]
  <2>1. ASSUME NEW i \in 0 .. n PROVE F[i] = f[i]
    <3>1. i \in 0 .. n + m /\ i <= n
      OBVIOUS
    <3>2. QED
      BY <3>1
  <2>2. ASSUME NEW i \in 0 .. m PROVE F[n + i] = g[i]
    <3>1. CASE i = 0
      <4>1. n + i = n /\ n \in 0 .. n
        BY <3>1
      <4>2. QED
        BY <1>5, <1>6, <2>1, <3>1, <4>1
    <3>2. CASE i # 0
      <4>1. n + i \in 0 .. n + m /\ ~ (n + i <= n) /\ (n + i) - n = i
        BY <3>2
      <4>2. QED
        BY <4>1
    <3>3. QED
      BY <3>1, <3>2
  <2>3. QED
    BY <2>1, <2>2
<1>13. F \in [0 .. n + m -> 0 .. Len(fifo[d])]
  <2>1. b \in Nat /\ c \in Nat /\ b <= c
    <3>1. g[0] <= g[m]
      BY <1>6
    <3>2. QED
      BY <1>3, <1>6, <3>1
  <2>2. ASSUME NEW i \in 0 .. n PROVE f[i] \in 0 .. Len(fifo[d])
    <3>1. f[i] <= f[n] /\ f[i] \in 0 .. Len(s)
      BY <1>5
    <3>2. QED
      BY <1>3, <1>5, <2>1, <3>1
  <2>3. ASSUME NEW i \in 0 .. m PROVE g[i] \in 0 .. Len(fifo[d])
    <3>1. g[i] <= g[m] /\ g[i] \in 0 .. Len(s)
      BY <1>6
    <3>2. QED
      BY <1>3, <1>6, <2>1, <3>1
  <2>4. ASSUME NEW i \in 0 .. n + m
        PROVE  (IF i <= n THEN f[i] ELSE g[i - n]) \in 0 .. Len(fifo[d])
    <3>1. CASE i <= n
      <4>1. i \in 0 .. n
        BY <3>1
      <4>2. QED
        BY <2>2, <3>1, <4>1
    <3>2. CASE ~ (i <= n)
      <4>1. i - n \in 0 .. m
        BY <3>2
      <4>2. QED
        BY <2>3, <3>2, <4>1
    <3>3. QED
      BY <3>1, <3>2
  <2>5. QED
    BY <2>4
<1> HIDE DEF F
<1>14. ASSUME NEW i \in 1 .. n + m PROVE F[i] = F[i - 1] + D[i]
  <2>1. CASE i \in 1 .. n
    <3>1. i \in 0 .. n /\ i - 1 \in 0 .. n
      BY <2>1
    <3>2. QED
      BY <1>5, <1>11, <1>12, <2>1, <3>1
  <2>2. ASSUME NEW j \in 1 .. m, i = n + j PROVE F[i] = F[i - 1] + D[i]
    <3>1. j \in 0 .. m /\ j - 1 \in 0 .. m /\ i - 1 = n + (j - 1)
      BY <2>2
    <3>2. F[i] = g[j] /\ F[i - 1] = g[j - 1] /\ D[i] = PieceBeats[r[j]]
      BY <1>11, <1>12, <2>2, <3>1
    <3>3. QED
      BY <1>6, <3>2
  <2>3. i \in 1 .. n \/ (i - n \in 1 .. m /\ i = n + (i - n))
    OBVIOUS
  <2>4. QED
    BY <2>1, <2>2, <2>3
<1>15. F[0] = Served(d)
  <2>1. 0 \in 0 .. n
    OBVIOUS
  <2>2. QED
    BY <1>5, <1>12, <2>1
<1>16. \E w \in [0 .. Len(D) -> 0 .. Len(fifo[d])] :
         w[0] = Served(d) /\ \A i \in 1 .. Len(D) : w[i] = w[i - 1] + D[i]
  BY <1>11, <1>13, <1>14, <1>15
<1>17. QED
  BY <1>16 DEF D

(* Data and commands leave in the same order: every beat the multiplexer   *)
(* forwards is one of the request whose piece it serves. req_parser must   *)
(* cut at whole beats (PARSE_SIZE is the PMTU), and the sequence queue     *)
(* must hold the pieces the shell takes ahead of their data.               *)
THEOREM DataFollowsCommands ==
  ASSUME Whole(PARSE_SIZE), Ahead + RegDepth <= N_OUTSTANDING_REGION
  PROVE  Spec => []BeatsBelongToTheirRequest
<1> DEFINE Inv == CreditInv /\ BeatInv
<1>1. Init => Inv
  BY InitCreditInv, InitBeatInv
<1>2. Inv /\ [Next]_vars => Inv'
  BY NextCreditInv, NextBeatInv
<1>3. Inv => BeatsBelongToTheirRequest
  BY BeatsBelong
<1>4. QED
  BY <1>1, <1>2, <1>3, PTL DEF Spec

(* What req_credits_wr has passed on can be forwarded without waiting for  *)
(* the user logic, if besides the requests are of whole beats and the      *)
(* credit counter cannot wrap round.                                       *)
THEOREM CreditsCoverReleases ==
  ASSUME Whole(PARSE_SIZE), Ahead + RegDepth <= N_OUTSTANDING_REGION, WholeData
  PROVE  Spec => []ReleasedDataIsPresent
<1> DEFINE Inv == CreditInv /\ BeatInv
<1>1. Init => Inv
  BY InitCreditInv, InitBeatInv
<1>2. Inv /\ [Next]_vars => Inv'
  BY NextCreditInv, NextBeatInv
<1>3. Inv => ReleasedDataIsPresent
  BY DataPresent
<1>4. QED
  BY <1>1, <1>2, <1>3, PTL DEF Spec

=============================================================================
