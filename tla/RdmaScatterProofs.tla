------------------------- MODULE RdmaScatterProofs -------------------------
(***************************************************************************)
(* The three properties of RdmaScatter for packets of any length, beats of *)
(* any width and queues of any depth.                                      *)
(***************************************************************************)
EXTENDS RdmaScatter, TLAPS

\* The time each prover has for a leaf that names none.
USE SMTT(60), ZenonT(60)

-----------------------------------------------------------------------------
\* Sequences.

\* What joining two sequences gives.
LEMMA Joined ==
  ASSUME NEW S, NEW s \in Seq(S), NEW t \in Seq(S)
  PROVE  /\ s \o t \in Seq(S) /\ Len(s \o t) = Len(s) + Len(t)
         /\ \A i \in 1 .. Len(s) + Len(t) :
              (s \o t)[i] = IF i <= Len(s) THEN s[i] ELSE t[i - Len(s)]
OBVIOUS

\* An empty sequence has no length.
LEMMA NoElement ==
  ASSUME NEW S, NEW s \in Seq(S)
  PROVE  s = << >> <=> Len(s) = 0
OBVIOUS

\* Joining with nothing.
LEMMA JoinedNothing ==
  ASSUME NEW S, NEW s \in Seq(S)
  PROVE  s \o << >> = s /\ << >> \o s = s
OBVIOUS

\* Two sequences that join to nothing.
LEMMA JoinedToNothing ==
  ASSUME NEW S, NEW s \in Seq(S), NEW t \in Seq(S), s \o t = << >>
  PROVE  s = << >> /\ t = << >>
<1>1. Len(s) + Len(t) = 0 /\ Len(s) \in Nat /\ Len(t) \in Nat
  BY Joined, NoElement
<1>2. QED
  BY <1>1, NoElement

\* Sequences with the same elements are the same.
LEMMA SameElements ==
  ASSUME NEW S, NEW s \in Seq(S), NEW t \in Seq(S),
         Len(s) = Len(t), \A i \in 1 .. Len(s) : s[i] = t[i]
  PROVE  s = t
OBVIOUS

(***************************************************************************)
(* The beats of a packet, and the beats the multiplexer still waits for.   *)
(***************************************************************************)
NBeats(p) == BeatCount(p) + 1
Rem(m) == IF m.state = "idle" THEN 0 ELSE m.cnt + 1
OpOf(state) == IF state = "resp" THEN "rd_resp" ELSE "write"

(***************************************************************************)
(* f cuts the beats s the stack still has to present into those of the     *)
(* command that the multiplexer m works on, up to f[0], and those of each  *)
(* command of q, the i-th of which end at f[i].                            *)
(***************************************************************************)
Cuts(f, q, s, m) ==
  /\ f \in [0 .. Len(q) -> Nat]
  /\ f[0] = Rem(m)
  /\ f[Len(q)] = Len(s)
  /\ \A i \in 0 .. Len(q) : \A j \in i .. Len(q) : f[i] <= f[j]
  /\ \A i \in 1 .. Len(q) : f[i] = f[i - 1] + NBeats(q[i])
  /\ \A i \in 1 .. Len(q) : \A j \in f[i - 1] + 1 .. f[i] :
       s[j].id = q[i].id /\ s[j].opcode = q[i].opcode
  /\ \A j \in 1 .. Rem(m) : s[j].opcode = OpOf(m.state)

\* There is such a cut.
HasCuts(q, s, m) == \E f \in [0 .. Len(q) -> Nat] : Cuts(f, q, s, m)

\* Beats are where they belong, and those to come can be told apart by
\* counting.
StreamInv ==
  /\ \A i \in DOMAIN resp : resp[i].opcode = "rd_resp"
  /\ \A i \in DOMAIN recv : recv[i].opcode = "write"
  /\ HasCuts(rq, sink, mux)

(***************************************************************************)
(* The registers are written in order, the valid flag last.                *)
(***************************************************************************)
CtrlInv ==
  /\ \A i \in 0 .. 3 : i < posted => ctrl_reg[i] = i + 1
  /\ ctrl_reg[4] = 1 => posted = 5

(***************************************************************************)
(* The one packet that is in flight while packets are paced: its command   *)
(* waits for the multiplexer, waits for the user logic, or has left.       *)
(***************************************************************************)
Due(op) == IF op = "write" THEN (pkt_cnt + 1) % 4 = arrived ELSE pkt_cnt = arrived
LastBeatOf(op, s) == \A j \in DOMAIN s : s[j].opcode = op /\ (s[j].tlast <=> j = Len(s))

Idle == /\ rq = << >> /\ m_rq = << >> /\ sink = << >> /\ resp = << >> /\ recv = << >>
        /\ mux.state = "idle" /\ pkt_cnt = arrived
Waiting == /\ Len(rq) = 1 /\ m_rq = << >> /\ resp = << >> /\ recv = << >>
           /\ mux.state = "idle" /\ sq = [d \in 0 .. 1 |-> 0]
           /\ LastBeatOf(rq[1].opcode, sink) /\ Due(rq[1].opcode)
           /\ rq[1].opcode = "write" => rq[1].n = pkt_cnt
Commanded == /\ rq = << >> /\ Len(m_rq) = 1 /\ resp = << >> /\ recv = << >>
             /\ mux.state # "idle" /\ sq = [d \in 0 .. 1 |-> 0]
             /\ LastBeatOf(m_rq[1].opcode, sink) /\ Due(m_rq[1].opcode)
             /\ m_rq[1].opcode = "write" => m_rq[1].n = pkt_cnt
Receiving == /\ rq = << >> /\ m_rq = << >> /\ resp = << >>
             /\ recv \o sink # << >>
             /\ mux.state \in {"idle", "recv"} /\ Due("write")
             /\ LastBeatOf("write", recv \o sink)
Responding == /\ rq = << >> /\ m_rq = << >> /\ recv = << >>
              /\ mux.state \in {"idle", "resp"} /\ Due("rd_resp")

PacedInv ==
  paced => \/ Idle \/ Waiting \/ Commanded \/ Receiving \/ Responding

(***************************************************************************)
(* The inductive invariant.                                                *)
(***************************************************************************)
IInv == TypeOK /\ StreamInv /\ CtrlInv /\ PacedInv /\ PacedWritesScatterInOrder

-----------------------------------------------------------------------------
\* Rounding up to whole beats is rounding down the length minus one, plus one.
LEMMA RoundUp ==
  ASSUME NEW a \in Nat, NEW b \in Nat, b > 0
  PROVE  a \div b \in Nat /\ (a + b) \div b = a \div b + 1
<1> DEFINE q == a \div b
           r == (a + b) \div b
<1>1. /\ q \in Int /\ b * q <= a /\ a < b * q + b
      /\ r \in Int /\ b * r <= a + b /\ a + b < b * r + b
  OBVIOUS
<1>2. a \div b \in Nat
  OBVIOUS
<1> HIDE DEF q, r
<1>3. b * (q - (r - 1)) < b /\ b * ((r - 1) - q) < b
  BY <1>1
<1>4. ASSUME NEW x \in Int, b * x < b PROVE x <= 0
  BY <1>4
<1>5. q <= r - 1 /\ r - 1 <= q
  BY <1>1, <1>3, <1>4
<1>6. QED
  BY <1>1, <1>2, <1>5 DEF q, r

\* A packet has as many beats as the multiplexer counts for it.
LEMMA BeatsOfLength ==
  ASSUME NEW p \in Packet
  PROVE  /\ NBeats(p) \in Nat /\ NBeats(p) > 0 /\ BeatCount(p) \in Nat
         /\ (p.len + Beat - 1) \div Beat = NBeats(p)
<1>1. p.len \in Lens
  BY DEF Packet
<1>2. p.len \in Nat /\ p.len # 0
  BY ZenonT(60), <1>1, LensAssumption
<1>3. Beat \in Nat /\ Beat > 0
  BY DepthAssumption
<1>4. p.len + Beat - 1 = (p.len - 1) + Beat /\ p.len - 1 \in Nat
  BY <1>2, <1>3
<1>5. (p.len - 1) \div Beat \in Nat /\ ((p.len - 1) + Beat) \div Beat = (p.len - 1) \div Beat + 1
  BY ZenonT(60), <1>3, <1>4, RoundUp
<1>6. QED
  BY <1>4, <1>5 DEF NBeats, BeatCount

\* Beats(p) is that many beats, with the id and the opcode of p.
LEMMA BeatsType ==
  ASSUME NEW p \in Packet
  PROVE  /\ Beats(p) \in Seq(BeatT)
         /\ Len(Beats(p)) = NBeats(p)
         /\ \A j \in 1 .. NBeats(p) : /\ Beats(p)[j].id = p.id
                                      /\ Beats(p)[j].opcode = p.opcode
                                      /\ Beats(p)[j].tlast = (j = NBeats(p))
<1>1. /\ NBeats(p) \in Nat
      /\ (p.len + Beat - 1) \div Beat = NBeats(p)
  BY BeatsOfLength
<1>2. Beats(p) = [i \in 1 .. NBeats(p) |->
                    [id |-> p.id, opcode |-> p.opcode, n |-> p.n, tlast |-> i = NBeats(p)]]
  BY <1>1 DEF Beats
<1>3. \A i \in 1 .. NBeats(p) :
        [id |-> p.id, opcode |-> p.opcode, n |-> p.n, tlast |-> i = NBeats(p)] \in BeatT
  BY DEF BeatT, Packet
<1>4. QED
  BY <1>1, <1>2, <1>3

-----------------------------------------------------------------------------
\* What one cycle does to the cuts.
MuxT == [state : {"idle", "resp", "recv"}, cnt : Nat]
IdleMux(m) == [m EXCEPT !.state = "idle"]
Serve(p) == [state |-> IF p.opcode = "rd_resp" THEN "resp" ELSE "recv",
             cnt |-> BeatCount(p)]

\* An idle multiplexer takes a command: the beats up to the first cut are now
\* the ones it waits for.
LEMMA TakeCommand ==
  ASSUME NEW q \in Seq(Packet), NEW s \in Seq(BeatT), NEW m \in MuxT,
         HasCuts(q, s, m), m.state = "idle", q # << >>
  PROVE  HasCuts(Tail(q), s, Serve(Head(q)))
<1>1. PICK f \in [0 .. Len(q) -> Nat] : Cuts(f, q, s, m)
  BY DEF HasCuts
<1>2. /\ Len(q) \in Nat /\ Len(q) > 0 /\ Tail(q) \in Seq(Packet)
      /\ Len(Tail(q)) = Len(q) - 1 /\ Head(q) = q[1] /\ q[1] \in Packet
      /\ \A i \in 1 .. Len(q) - 1 : Tail(q)[i] = q[i + 1]
  OBVIOUS
<1> DEFINE g == [i \in 0 .. Len(q) - 1 |-> f[i + 1]]
<1>3. g \in [0 .. Len(Tail(q)) -> Nat] /\ \A i \in 0 .. Len(q) - 1 : g[i] = f[i + 1]
  BY <1>2
<1>4. BeatCount(q[1]) + 1 = NBeats(q[1]) /\ NBeats(q[1]) \in Nat
  BY <1>2, BeatsOfLength DEF NBeats
<1>5. Rem(Serve(Head(q))) = NBeats(q[1])
  BY <1>2, <1>4 DEF Serve, Rem
<1>6. g[0] = Rem(Serve(Head(q)))
  BY <1>1, <1>2, <1>3, <1>4, <1>5 DEF Cuts, Rem
<1>7. g[Len(Tail(q))] = Len(s)
  BY <1>1, <1>2, <1>3 DEF Cuts
<1>8. ASSUME NEW i \in 0 .. Len(Tail(q)), NEW j \in i .. Len(Tail(q)) PROVE g[i] <= g[j]
  BY <1>1, <1>2, <1>3 DEF Cuts
<1>9. ASSUME NEW i \in 1 .. Len(Tail(q)) PROVE g[i] = g[i - 1] + NBeats(Tail(q)[i])
  BY <1>1, <1>2, <1>3 DEF Cuts
<1>10. ASSUME NEW i \in 1 .. Len(Tail(q)), NEW j \in g[i - 1] + 1 .. g[i]
       PROVE  s[j].id = Tail(q)[i].id /\ s[j].opcode = Tail(q)[i].opcode
  BY <1>1, <1>2, <1>3 DEF Cuts
<1>11. ASSUME NEW j \in 1 .. Rem(Serve(Head(q))) PROVE s[j].opcode = OpOf(Serve(Head(q)).state)
  <2>1. j \in f[0] + 1 .. f[1]
    BY <1>1, <1>2, <1>4, <1>5 DEF Cuts, Rem
  <2>2. s[j].opcode = q[1].opcode
    BY <1>1, <1>2, <2>1 DEF Cuts
  <2>3. q[1].opcode \in {"write", "rd_resp"}
    BY <1>2 DEF Packet, Ops
  <2>4. QED
    BY <1>2, <2>2, <2>3 DEF Serve, OpOf
<1> HIDE DEF g
<1>12. Cuts(g, Tail(q), s, Serve(Head(q)))
  BY <1>3, <1>6, <1>7, <1>8, <1>9, <1>10, <1>11 DEF Cuts
<1>13. QED
  BY <1>3, <1>12 DEF HasCuts

\* A beat passes: every cut moves down by one.
LEMMA PassBeat ==
  ASSUME NEW q \in Seq(Packet), NEW s \in Seq(BeatT), NEW m \in MuxT, NEW n \in MuxT,
         HasCuts(q, s, m), m.state # "idle", s # << >>,
         Rem(n) = Rem(m) - 1, n.state \in {m.state, "idle"}
  PROVE  HasCuts(q, Tail(s), n) /\ Head(s).opcode = OpOf(m.state)
<1>1. PICK f \in [0 .. Len(q) -> Nat] : Cuts(f, q, s, m)
  BY DEF HasCuts
<1>2. /\ Len(s) \in Nat /\ Len(s) > 0 /\ Len(Tail(s)) = Len(s) - 1 /\ Head(s) = s[1]
      /\ \A i \in 1 .. Len(s) - 1 : Tail(s)[i] = s[i + 1]
      /\ Len(q) \in Nat
  OBVIOUS
<1>3. Rem(m) \in Nat /\ Rem(m) > 0 /\ Rem(n) \in Nat
  BY DEF Rem, MuxT
<1>4. \A i \in 0 .. Len(q) : f[i] \in Nat /\ f[i] >= f[0] /\ f[0] = Rem(m)
  BY <1>1, <1>2 DEF Cuts
<1> DEFINE g == [i \in 0 .. Len(q) |-> f[i] - 1]
<1>5. g \in [0 .. Len(q) -> Nat] /\ \A i \in 0 .. Len(q) : g[i] = f[i] - 1
  BY <1>3, <1>4
<1> HIDE DEF g
<1>6. g[0] = Rem(n) /\ g[Len(q)] = Len(Tail(s))
  BY <1>1, <1>2, <1>4, <1>5 DEF Cuts
<1>7. ASSUME NEW i \in 0 .. Len(q), NEW j \in i .. Len(q) PROVE g[i] <= g[j]
  BY <1>1, <1>2, <1>4, <1>5, <1>7 DEF Cuts
<1>8. ASSUME NEW i \in 1 .. Len(q)
      PROVE  /\ f[i] = f[i - 1] + NBeats(q[i]) /\ NBeats(q[i]) \in Nat
             /\ g[i] = g[i - 1] + NBeats(q[i])
  <2>1. i - 1 \in 0 .. Len(q) /\ i \in 0 .. Len(q) /\ q[i] \in Packet
    BY <1>2
  <2>2. NBeats(q[i]) \in Nat
    BY <2>1, BeatsOfLength
  <2>3. f[i] = f[i - 1] + NBeats(q[i])
    BY <1>1 DEF Cuts
  <2>4. /\ f[i] \in Nat /\ f[i - 1] \in Nat
        /\ g[i] = f[i] - 1 /\ g[i - 1] = f[i - 1] - 1
    BY <1>4, <1>5, <2>1
  <2>5. QED
    BY <2>2, <2>3, <2>4
<1>9. ASSUME NEW i \in 1 .. Len(q), NEW j \in g[i - 1] + 1 .. g[i]
      PROVE  Tail(s)[j].id = q[i].id /\ Tail(s)[j].opcode = q[i].opcode
  <2>1. i - 1 \in 0 .. Len(q) /\ i \in 0 .. Len(q)
    BY <1>2
  <2>2. /\ f[i] \in Nat /\ f[i - 1] \in Nat /\ f[i - 1] >= Rem(m)
        /\ j \in f[i - 1] - 1 + 1 .. f[i] - 1
    BY <1>4, <1>5, <2>1
  <2>7. j \in Int /\ j + 1 \in f[i - 1] + 1 .. f[i]
    BY <2>2
  <2>3. s[j + 1].id = q[i].id /\ s[j + 1].opcode = q[i].opcode
    BY <1>1, <2>7 DEF Cuts
  <2>4. f[i] <= Len(s)
    BY <1>1, <1>2 DEF Cuts
  <2>5. j \in 1 .. Len(s) - 1
    BY <1>2, <1>3, <2>2, <2>4
  <2>6. QED
    BY <1>2, <2>3, <2>5
<1>10. \A j \in 1 .. Rem(m) : s[j].opcode = OpOf(m.state)
  BY <1>1 DEF Cuts
<1>11. ASSUME NEW j \in 1 .. Rem(n) PROVE Tail(s)[j].opcode = OpOf(n.state)
  <2>1. n.state = m.state
    BY <1>3 DEF Rem
  <2>2. Rem(m) <= Len(s)
    BY <1>1, <1>2, <1>4 DEF Cuts
  <2>3. j + 1 \in 1 .. Rem(m) /\ j \in 1 .. Len(s) - 1
    BY <1>2, <1>3, <2>2
  <2>4. QED
    BY <1>2, <1>10, <2>1, <2>3
<1>12. Cuts(g, q, Tail(s), n)
  BY ZenonT(60), <1>5, <1>6, <1>7, <1>8, <1>9, <1>11 DEF Cuts
<1>13. Head(s).opcode = OpOf(m.state)
  BY <1>2, <1>3, <1>10
<1>14. QED
  BY <1>5, <1>12, <1>13 DEF HasCuts

\* A packet arrives: its command and its beats come last.
LEMMA Arrive ==
  ASSUME NEW q \in Seq(Packet), NEW s \in Seq(BeatT), NEW m \in MuxT, NEW p \in Packet,
         HasCuts(q, s, m)
  PROVE  HasCuts(Append(q, p), s \o Beats(p), m)
<1>1. PICK f \in [0 .. Len(q) -> Nat] : Cuts(f, q, s, m)
  BY DEF HasCuts
<1> DEFINE r == Append(q, p)
           t == s \o Beats(p)
           g == [i \in 0 .. Len(q) + 1 |-> IF i <= Len(q) THEN f[i] ELSE f[Len(q)] + NBeats(p)]
<1>2. /\ NBeats(p) \in Nat /\ Beats(p) \in Seq(BeatT) /\ Len(Beats(p)) = NBeats(p)
      /\ \A j \in 1 .. NBeats(p) : Beats(p)[j].id = p.id /\ Beats(p)[j].opcode = p.opcode
  BY BeatsOfLength, BeatsType
<1>3. /\ Len(q) \in Nat /\ Len(r) = Len(q) + 1 /\ r[Len(q) + 1] = p
      /\ \A i \in 1 .. Len(q) : r[i] = q[i]
  OBVIOUS
<1>4. /\ Len(s) \in Nat /\ Len(t) = Len(s) + NBeats(p)
      /\ \A j \in 1 .. Len(s) : t[j] = s[j]
      /\ \A j \in Len(s) + 1 .. Len(s) + NBeats(p) : t[j] = Beats(p)[j - Len(s)]
  BY <1>2, Joined
<1>5. /\ g \in [0 .. Len(r) -> Nat]
      /\ \A i \in 0 .. Len(q) : g[i] = f[i]
      /\ g[Len(q) + 1] = Len(s) + NBeats(p)
  BY <1>1, <1>2, <1>3 DEF Cuts
<1> HIDE DEF g, r, t
<1>6. \A i \in 0 .. Len(q) : f[i] \in Nat /\ f[i] <= Len(s) /\ f[0] <= f[i]
  BY <1>1, <1>3 DEF Cuts
<1>7. g[0] = Rem(m) /\ g[Len(r)] = Len(t)
  BY <1>1, <1>3, <1>4, <1>5 DEF Cuts
<1>8. ASSUME NEW i \in 0 .. Len(r), NEW j \in i .. Len(r) PROVE g[i] <= g[j]
  <2>1. CASE j <= Len(q)
    BY <1>1, <1>3, <1>5, <2>1 DEF Cuts
  <2>2. CASE j = Len(q) + 1
    <3>1. g[j] = Len(s) + NBeats(p)
      BY <1>5, <2>2
    <3>2. CASE i = Len(q) + 1
      BY <1>2, <1>4, <2>2, <3>1, <3>2
    <3>3. CASE i \in 0 .. Len(q)
      BY <1>2, <1>4, <1>5, <1>6, <3>1, <3>3
    <3>4. QED
      BY <1>3, <3>2, <3>3
  <2>3. QED
    BY <1>3, <2>1, <2>2
<1>9. ASSUME NEW i \in 1 .. Len(r) PROVE g[i] = g[i - 1] + NBeats(r[i])
  <2>1. CASE i <= Len(q)
    BY <1>1, <1>3, <1>5, <2>1 DEF Cuts
  <2>2. CASE i = Len(q) + 1
    BY <1>1, <1>2, <1>3, <1>4, <1>5, <1>6, <2>2 DEF Cuts
  <2>3. QED
    BY <1>3, <2>1, <2>2
<1>10. ASSUME NEW i \in 1 .. Len(r), NEW j \in g[i - 1] + 1 .. g[i]
       PROVE  t[j].id = r[i].id /\ t[j].opcode = r[i].opcode
  <2>1. CASE i <= Len(q)
    <3>1. i - 1 \in 0 .. Len(q) /\ i \in 0 .. Len(q) /\ i \in 1 .. Len(q)
      BY <1>3, <2>1
    <3>2. /\ j \in f[i - 1] + 1 .. f[i] /\ f[i] <= Len(s)
          /\ f[i - 1] \in Nat /\ f[i] \in Nat
      BY <1>5, <1>6, <3>1
    <3>3. j \in 1 .. Len(s)
      BY <1>4, <3>2
    <3>4. s[j].id = q[i].id /\ s[j].opcode = q[i].opcode
      BY ZenonT(60), <1>1, <3>1, <3>2 DEF Cuts
    <3>5. QED
      BY <1>3, <1>4, <3>1, <3>3, <3>4
  <2>2. CASE i = Len(q) + 1
    <3>1. j \in Len(s) + 1 .. Len(s) + NBeats(p)
      BY <1>1, <1>3, <1>5, <2>2 DEF Cuts
    <3>2. j - Len(s) \in 1 .. NBeats(p)
      BY <1>2, <1>4, <3>1
    <3>3. QED
      BY <1>2, <1>3, <1>4, <2>2, <3>1, <3>2
  <2>3. QED
    BY <1>3, <2>1, <2>2
<1>11. ASSUME NEW j \in 1 .. Rem(m) PROVE t[j].opcode = OpOf(m.state)
  <2>1. Rem(m) <= Len(s) /\ Rem(m) \in Nat
    BY <1>1, <1>3, <1>6 DEF Cuts
  <2>2. j \in 1 .. Len(s)
    BY <1>4, <2>1
  <2>3. QED
    BY <1>1, <1>4, <2>2 DEF Cuts
<1>12. Cuts(g, r, t, m)
  BY <1>5, <1>7, <1>8, <1>9, <1>10, <1>11 DEF Cuts
<1>13. QED
  BY <1>5, <1>12 DEF HasCuts, r, t

-----------------------------------------------------------------------------
\* The packet that arrives is one of the model's, with an id that is not in use.
LEMMA ArrivalsType == ASSUME TypeOK PROVE Arrivals \subseteq Packet
<1>1. arrived \in 0 .. 3
  BY DEF TypeOK
<1>2. QED
  BY <1>1 DEF Arrivals, Packet

\* A queue from which an element leaves and to which one is added.
LEMMA Fifo ==
  ASSUME NEW T, NEW s \in Seq(T), NEW e, NEW pop \in BOOLEAN, NEW push \in BOOLEAN,
         NEW d \in Nat, Len(s) <= d,
         pop => s # << >>, push => e \in T /\ Len(s) < d
  PROVE  /\ PushIf(push, PopIf(pop, s), e) \in Seq(T)
         /\ Len(PushIf(push, PopIf(pop, s), e)) <= d
BY DEF PushIf, PopIf

\* One cycle keeps the types.
LEMMA CycleType ==
  ASSUME TypeOK,
         NEW tvalid \in BOOLEAN, NEW tready \in Ready, NEW taken \in SUBSET (0 .. 1),
         NEW arrives \in BOOLEAN, NEW new \in {{}} \cup {{p} : p \in Arrivals},
         Cycle(new, tvalid, tready, taken, arrives)
  PROVE  TypeOK'
<1>1. \A p \in new : p \in Packet
  BY ArrivalsType
<1>2. FifoDepth \in Nat /\ FifoDepth > 0 /\ SqDepth \in Nat /\ SqDepth > 0
  BY DepthAssumption
<1>3. ctrl_reg' \in [0 .. 4 -> 0 .. 4] /\ posted' \in 0 .. 5
  <2>1. /\ arrives => posted < 5
        /\ ctrl_reg' = CtrlReg(arrives)
        /\ posted' = IF arrives THEN posted + 1 ELSE posted
    BY DEF Cycle
  <2>2. ctrl_reg \in [0 .. 4 -> 0 .. 4] /\ posted \in 0 .. 5
    BY DEF TypeOK
  <2>3. QED
    BY <2>1, <2>2 DEF CtrlReg, BENCH_VADDR_VALID_REG
<1>4. /\ PopIf(CommandIn(tvalid), rq) \in Seq(Packet)
      /\ PopIf(BeatIn(tvalid), sink) \in Seq(BeatT)
  BY DEF PopIf, CommandIn, BeatIn, TypeOK
<1>5. rq' \in Seq(Packet) /\ sink' \in Seq(BeatT) /\ arrived' \in 0 .. 3 /\ paced' \in BOOLEAN
  <2>1. CASE new = {}
    BY <1>4, <2>1 DEF Cycle, TypeOK
  <2>2. ASSUME NEW p \in new,
               rq' = Append(PopIf(CommandIn(tvalid), rq), p),
               sink' = PopIf(BeatIn(tvalid), sink) \o Beats(p),
               arrived' = (IF p.opcode = "write" THEN (arrived + 1) % 4 ELSE arrived),
               paced' = (paced /\ Empty)
        PROVE  /\ rq' \in Seq(Packet) /\ sink' \in Seq(BeatT)
               /\ arrived' \in 0 .. 3 /\ paced' \in BOOLEAN
    <3>1. p \in Packet /\ Beats(p) \in Seq(BeatT)
      BY <1>1, BeatsType
    <3>2. rq' \in Seq(Packet) /\ sink' \in Seq(BeatT)
      BY <1>4, <2>2, <3>1, Joined
    <3>3. arrived' \in 0 .. 3
      BY <2>2 DEF TypeOK
    <3>4. QED
      BY <2>2, <3>2, <3>3
  <2>3. QED
    BY <2>1, <2>2 DEF Cycle
<1>6. mux' \in MuxT
  <2>0. mux' = Mux(tvalid)
    BY DEF Cycle
  <2>1. CASE CommandIn(tvalid)
    <3>1. Head(rq) \in Packet
      BY <2>1 DEF CommandIn, TypeOK
    <3>2. BeatCount(Head(rq)) \in Nat
      BY <3>1, BeatsOfLength
    <3>3. QED
      BY <2>0, <2>1, <3>2 DEF Mux, MuxT
  <2>2. mux \in MuxT
    BY DEF TypeOK, MuxT
  <2>3. CASE ~ CommandIn(tvalid) /\ TrDone(tvalid)
    BY <2>0, <2>2, <2>3 DEF Mux, MuxT
  <2>4. CASE ~ CommandIn(tvalid) /\ ~ TrDone(tvalid) /\ BeatIn(tvalid)
    <3>1. mux.cnt \in Nat /\ mux.cnt # 0 /\ mux' = [mux EXCEPT !.cnt = @ - 1]
      BY <2>0, <2>2, <2>4 DEF Mux, MuxT, TrDone
    <3>2. QED
      BY <2>2, <3>1 DEF MuxT
  <2>5. CASE ~ CommandIn(tvalid) /\ ~ TrDone(tvalid) /\ ~ BeatIn(tvalid)
    BY <2>0, <2>2, <2>5 DEF Mux
  <2>6. QED
    BY <2>1, <2>3, <2>4, <2>5
<1>7. m_rq' \in Seq(Packet) /\ Len(m_rq') <= FifoDepth
  <2>1. m_rq' = PushIf(CommandIn(tvalid), PopIf(CommandOut, m_rq), Head(rq))
    BY DEF Cycle
  <2>2. m_rq \in Seq(Packet) /\ Len(m_rq) <= FifoDepth
    BY DEF TypeOK
  <2>3. CommandOut \in BOOLEAN /\ (CommandOut => m_rq # << >>)
    BY DEF CommandOut
  <2>4. /\ CommandIn(tvalid) \in BOOLEAN
        /\ CommandIn(tvalid) => Head(rq) \in Packet /\ Len(m_rq) < FifoDepth
    BY DEF CommandIn, TypeOK
  <2>5. QED
    BY ZenonT(60), <1>2, <2>1, <2>2, <2>3, <2>4, Fifo
<1>8. resp' \in Seq(BeatT) /\ Len(resp') <= FifoDepth
  <2> DEFINE push == BeatIn(tvalid) /\ mux.state = "resp"
  <2>1. resp' = PushIf(push, PopIf(RespOut(tready), resp), Head(sink))
    BY DEF Cycle
  <2>2. resp \in Seq(BeatT) /\ Len(resp) <= FifoDepth
    BY DEF TypeOK
  <2>3. RespOut(tready) \in BOOLEAN /\ (RespOut(tready) => resp # << >>)
    BY DEF RespOut
  <2>4. push \in BOOLEAN /\ (push => Head(sink) \in BeatT /\ Len(resp) < FifoDepth)
    BY DEF BeatIn, TypeOK
  <2> HIDE DEF push
  <2>5. QED
    BY ZenonT(60), <1>2, <2>1, <2>2, <2>3, <2>4, Fifo
<1>9. recv' \in Seq(BeatT) /\ Len(recv') <= FifoDepth
  <2> DEFINE push == BeatIn(tvalid) /\ mux.state = "recv"
  <2>1. recv' = PushIf(push, PopIf(RecvOut(tready), recv), Head(sink))
    BY DEF Cycle
  <2>2. recv \in Seq(BeatT) /\ Len(recv) <= FifoDepth
    BY DEF TypeOK
  <2>3. RecvOut(tready) \in BOOLEAN /\ (RecvOut(tready) => recv # << >>)
    BY DEF RecvOut
  <2>4. push \in BOOLEAN /\ (push => Head(sink) \in BeatT /\ Len(recv) < FifoDepth)
    BY DEF BeatIn, TypeOK
  <2> HIDE DEF push
  <2>5. QED
    BY ZenonT(60), <1>2, <2>1, <2>2, <2>3, <2>4, Fifo
<1>10. pkt_cnt' \in 0 .. 3
  BY DEF Cycle, PktCnt, TypeOK
<1>11. sq' \in [0 .. 1 -> 0 .. SqDepth]
  <2>1. ASSUME NEW d \in 0 .. 1
        PROVE  sq[d] - (IF d \in taken THEN 1 ELSE 0)
                 + (IF CommandOut /\ Dest(Head(m_rq).opcode) = d THEN 1 ELSE 0) \in 0 .. SqDepth
    <3>1. d \in taken => sq[d] > 0
      BY DEF Cycle
    <3>2. sq[d] \in 0 .. SqDepth
      BY DEF TypeOK
    <3>3. CommandOut /\ Dest(Head(m_rq).opcode) = d => sq[d] < SqDepth
      BY ZenonT(60) DEF CommandOut
    <3>4. QED
      BY <1>2, <3>1, <3>2, <3>3
  <2>2. QED
    BY ZenonT(60), <2>1 DEF Cycle
<1>12. sq_wr' \in [vaddr : NoAddress .. Original, scattered : BOOLEAN, opcode : Ops, n : 0 .. 3]
  <2>1. CASE CommandOut
    <3>1. Head(m_rq) \in Packet
      BY <2>1 DEF CommandOut, TypeOK
    <3>2. Head(m_rq).opcode \in Ops /\ Head(m_rq).n \in 0 .. 3
      BY <3>1 DEF Packet
    <3>3. Vaddr \in NoAddress .. Original
      BY DEF Vaddr, TypeOK, NoAddress, Original, BENCH_VADDR_VALID_REG
    <3>4. QED
      BY ZenonT(60), <2>1, <3>2, <3>3 DEF Cycle
  <2>2. CASE ~ CommandOut
    BY <2>2 DEF Cycle, NoCommand, Original, NoAddress, Ops
  <2>3. QED
    BY <2>1, <2>2
<1>13. QED
  BY <1>3, <1>5, <1>6, <1>7, <1>8, <1>9, <1>10, <1>11, <1>12 DEF TypeOK, MuxT

\* What holds for every element of a queue and for the one that is added.
LEMMA AppendOps ==
  ASSUME NEW r \in Seq(BeatT), NEW e \in BeatT, NEW op,
         \A i \in 1 .. Len(r) : r[i].opcode = op, e.opcode = op
  PROVE  \A i \in DOMAIN Append(r, e) : Append(r, e)[i].opcode = op
<1> DEFINE t == Append(r, e)
<1>1. /\ Len(r) \in Nat /\ DOMAIN t = 1 .. Len(r) + 1
      /\ t[Len(r) + 1] = e /\ \A i \in 1 .. Len(r) : t[i] = r[i]
  OBVIOUS
<1> HIDE DEF t
<1>2. ASSUME NEW i \in 1 .. Len(r) + 1 PROVE t[i].opcode = op
  <2>1. CASE i \in 1 .. Len(r)
    BY <1>1, <2>1
  <2>2. CASE i = Len(r) + 1
    BY <1>1, <2>2
  <2>3. QED
    BY <1>1, <2>1, <2>2
<1>3. QED
  BY <1>1, <1>2 DEF t

\* What holds for every element of a queue, after one has left.
LEMMA PopOps ==
  ASSUME NEW r \in Seq(BeatT), NEW op, \A i \in DOMAIN r : r[i].opcode = op,
         NEW pop \in BOOLEAN, pop => r # << >>
  PROVE  /\ PopIf(pop, r) \in Seq(BeatT)
         /\ \A i \in 1 .. Len(PopIf(pop, r)) : PopIf(pop, r)[i].opcode = op
<1>1. CASE pop
  <2>1. /\ Tail(r) \in Seq(BeatT) /\ Len(r) \in Nat /\ Len(Tail(r)) = Len(r) - 1
        /\ \A i \in 1 .. Len(r) - 1 : Tail(r)[i] = r[i + 1]
        /\ \A i \in 1 .. Len(r) : r[i].opcode = op
    BY <1>1
  <2>2. PopIf(pop, r) = Tail(r)
    BY <1>1 DEF PopIf
  <2>3. \A i \in 1 .. Len(Tail(r)) : Tail(r)[i].opcode = op
    BY <2>1
  <2>4. QED
    BY <2>1, <2>2, <2>3
<1>2. CASE ~ pop
  BY <1>2 DEF PopIf
<1>3. QED
  BY <1>1, <1>2

\* The command and the beat that the multiplexer takes in a cycle leave the
\* rest cut the way the next state of the multiplexer asks for.
LEMMA CutsKept ==
  ASSUME TypeOK, StreamInv, NEW tvalid \in BOOLEAN
  PROVE  /\ HasCuts(PopIf(CommandIn(tvalid), rq), PopIf(BeatIn(tvalid), sink), Mux(tvalid))
         /\ BeatIn(tvalid) => Head(sink).opcode = OpOf(mux.state)
<1> USE DEF IdleMux
<1>1. /\ rq \in Seq(Packet) /\ sink \in Seq(BeatT) /\ mux \in MuxT
      /\ HasCuts(rq, sink, mux)
  BY DEF TypeOK, StreamInv, MuxT
<1>2. IdleMux(mux) \in MuxT /\ IdleMux(mux).state = "idle"
  BY <1>1 DEF MuxT
<1>3. CASE ~ BeatIn(tvalid)
  <2>1. ~ TrDone(tvalid) /\ PopIf(BeatIn(tvalid), sink) = sink
    BY <1>3 DEF TrDone, PopIf
  <2>2. CASE CommandIn(tvalid)
    <3>1. mux.state = "idle" /\ rq # << >>
      BY <2>1, <2>2 DEF CommandIn
    <3>2. Mux(tvalid) = Serve(Head(rq)) /\ PopIf(CommandIn(tvalid), rq) = Tail(rq)
      BY <2>2 DEF Mux, Serve, PopIf
    <3>3. HasCuts(Tail(rq), sink, Serve(Head(rq)))
      BY <1>1, <3>1, TakeCommand
    <3>4. QED
      BY <1>3, <2>1, <3>2, <3>3
  <2>3. CASE ~ CommandIn(tvalid)
    <3>1. Mux(tvalid) = mux /\ PopIf(CommandIn(tvalid), rq) = rq
      BY <1>3, <2>1, <2>3 DEF Mux, PopIf
    <3>2. QED
      BY <1>1, <1>3, <2>1, <3>1
  <2>4. QED
    BY <2>2, <2>3
<1>4. CASE BeatIn(tvalid)
  <2>1. sink # << >> /\ mux.state # "idle" /\ PopIf(BeatIn(tvalid), sink) = Tail(sink)
    BY <1>4 DEF BeatIn, PopIf
  <2>2. Tail(sink) \in Seq(BeatT)
    BY <1>1, <2>1
  <2>3. CASE mux.cnt = 0
    <3>1. Rem(IdleMux(mux)) = Rem(mux) - 1
      BY <1>2, <2>1, <2>3 DEF Rem
    <3>2. HasCuts(rq, Tail(sink), IdleMux(mux)) /\ Head(sink).opcode = OpOf(mux.state)
      BY ZenonT(60), <1>1, <1>2, <2>1, <3>1, PassBeat
    <3>3. TrDone(tvalid)
      BY <1>4, <2>3 DEF TrDone
    <3>4. CASE CommandIn(tvalid)
      <4>1. Mux(tvalid) = Serve(Head(rq)) /\ PopIf(CommandIn(tvalid), rq) = Tail(rq)
        BY <3>4 DEF Mux, Serve, PopIf
      <4>2. HasCuts(Tail(rq), Tail(sink), Serve(Head(rq)))
        BY ZenonT(60), <1>1, <1>2, <2>2, <3>2, <3>4, TakeCommand DEF CommandIn
      <4>3. QED
        BY <2>1, <3>2, <4>1, <4>2
    <3>5. CASE ~ CommandIn(tvalid)
      <4>1. Mux(tvalid) = IdleMux(mux) /\ PopIf(CommandIn(tvalid), rq) = rq
        BY <3>3, <3>5 DEF Mux, PopIf
      <4>2. QED
        BY <2>1, <3>2, <4>1
    <3>6. QED
      BY <3>4, <3>5
  <2>4. CASE mux.cnt # 0
    <3> DEFINE n == [mux EXCEPT !.cnt = @ - 1]
    <3>1. ~ TrDone(tvalid) /\ ~ CommandIn(tvalid)
      BY <2>1, <2>4 DEF TrDone, CommandIn
    <3>2. n \in MuxT /\ n.state = mux.state /\ n.cnt = mux.cnt - 1 /\ mux.cnt \in Nat
      BY <1>1, <2>4 DEF MuxT
    <3>3. Rem(n) = Rem(mux) - 1
      BY <2>1, <3>2 DEF Rem
    <3>4. Mux(tvalid) = n /\ PopIf(CommandIn(tvalid), rq) = rq
      BY <1>4, <3>1 DEF Mux, PopIf
    <3> HIDE DEF n
    <3>5. HasCuts(rq, Tail(sink), n) /\ Head(sink).opcode = OpOf(mux.state)
      BY <1>1, <2>1, <3>2, <3>3, PassBeat
    <3>6. QED
      BY <2>1, <3>4, <3>5
  <2>5. QED
    BY <2>3, <2>4
<1>5. QED
  BY <1>3, <1>4

\* One cycle keeps the streams apart.
LEMMA CycleStream ==
  ASSUME TypeOK, StreamInv, TypeOK',
         NEW tvalid \in BOOLEAN, NEW tready \in Ready, NEW taken \in SUBSET (0 .. 1),
         NEW arrives \in BOOLEAN, NEW new \in {{}} \cup {{p} : p \in Arrivals},
         Cycle(new, tvalid, tready, taken, arrives)
  PROVE  StreamInv'
<1> DEFINE Q == PopIf(CommandIn(tvalid), rq)
           S == PopIf(BeatIn(tvalid), sink)
<1>1. /\ HasCuts(Q, S, Mux(tvalid))
      /\ BeatIn(tvalid) => Head(sink).opcode = OpOf(mux.state)
  BY CutsKept
<1>2. Q \in Seq(Packet) /\ S \in Seq(BeatT)
  BY DEF PopIf, CommandIn, BeatIn, TypeOK
<1>3. mux' = Mux(tvalid) /\ mux' \in MuxT
  BY ZenonT(60) DEF Cycle, TypeOK, MuxT
<1>4. \/ rq' = Q /\ sink' = S
      \/ \E p \in new : rq' = Append(Q, p) /\ sink' = S \o Beats(p)
  BY DEF Cycle
<1>5. \A p \in new : p \in Packet
  BY ArrivalsType
<1>6. BeatIn(tvalid) => Head(sink) \in BeatT
  <2>1. BeatIn(tvalid) => sink # << >>
    BY DEF BeatIn
  <2>2. sink \in Seq(BeatT)
    BY DEF TypeOK
  <2>3. QED
    BY <2>1, <2>2
<1> HIDE DEF Q, S
<1>7. HasCuts(rq', sink', mux')
  <2>1. CASE rq' = Q /\ sink' = S
    BY <1>1, <1>3, <2>1
  <2>2. ASSUME NEW p \in new, rq' = Append(Q, p), sink' = S \o Beats(p)
        PROVE  HasCuts(rq', sink', mux')
    <3>1. HasCuts(Append(Q, p), S \o Beats(p), mux')
      BY <1>1, <1>2, <1>3, <1>5, Arrive
    <3>2. QED
      BY <2>2, <3>1
  <2>3. QED
    BY <1>4, <2>1, <2>2
<1>8. \A i \in DOMAIN resp' : resp'[i].opcode = "rd_resp"
  <2> DEFINE r == PopIf(RespOut(tready), resp)
  <2>1. resp' = PushIf(BeatIn(tvalid) /\ mux.state = "resp", r, Head(sink))
    BY DEF Cycle
  <2>2. r \in Seq(BeatT) /\ \A i \in 1 .. Len(r) : r[i].opcode = "rd_resp"
    <3>1. resp \in Seq(BeatT) /\ \A i \in DOMAIN resp : resp[i].opcode = "rd_resp"
      BY DEF TypeOK, StreamInv
    <3>2. RespOut(tready) \in BOOLEAN /\ (RespOut(tready) => resp # << >>)
      BY DEF RespOut
    <3>3. QED
      BY ZenonT(60), <3>1, <3>2, PopOps
  <2> HIDE DEF r
  <2>3. CASE BeatIn(tvalid) /\ mux.state = "resp"
    <3>1. Head(sink) \in BeatT /\ Head(sink).opcode = "rd_resp"
      BY <1>1, <1>6, <2>3 DEF OpOf
    <3>2. resp' = Append(r, Head(sink))
      BY <2>1, <2>3 DEF PushIf
    <3>3. QED
      BY <2>2, <3>1, <3>2, AppendOps
  <2>4. CASE ~ (BeatIn(tvalid) /\ mux.state = "resp")
    <3>1. resp' = r
      BY <2>1, <2>4 DEF PushIf
    <3>2. QED
      BY <2>2, <3>1
  <2>5. QED
    BY <2>3, <2>4
<1>9. \A i \in DOMAIN recv' : recv'[i].opcode = "write"
  <2> DEFINE r == PopIf(RecvOut(tready), recv)
  <2>1. recv' = PushIf(BeatIn(tvalid) /\ mux.state = "recv", r, Head(sink))
    BY DEF Cycle
  <2>2. r \in Seq(BeatT) /\ \A i \in 1 .. Len(r) : r[i].opcode = "write"
    <3>1. recv \in Seq(BeatT) /\ \A i \in DOMAIN recv : recv[i].opcode = "write"
      BY DEF TypeOK, StreamInv
    <3>2. RecvOut(tready) \in BOOLEAN /\ (RecvOut(tready) => recv # << >>)
      BY DEF RecvOut
    <3>3. QED
      BY ZenonT(60), <3>1, <3>2, PopOps
  <2> HIDE DEF r
  <2>3. CASE BeatIn(tvalid) /\ mux.state = "recv"
    <3>1. Head(sink) \in BeatT /\ Head(sink).opcode = "write"
      BY <1>1, <1>6, <2>3 DEF OpOf
    <3>2. recv' = Append(r, Head(sink))
      BY <2>1, <2>3 DEF PushIf
    <3>3. QED
      BY <2>2, <3>1, <3>2, AppendOps
  <2>4. CASE ~ (BeatIn(tvalid) /\ mux.state = "recv")
    <3>1. recv' = r
      BY <2>1, <2>4 DEF PushIf
    <3>2. QED
      BY <2>2, <3>1
  <2>5. QED
    BY <2>3, <2>4
<1>10. QED
  BY ZenonT(60), <1>7, <1>8, <1>9 DEF StreamInv, HasCuts, Cuts, Rem

\* What the cuts say about the next beat.
LEMMA CutsSay ==
  ASSUME NEW q \in Seq(Packet), NEW s \in Seq(BeatT), NEW m \in MuxT, HasCuts(q, s, m)
  PROVE  /\ m.state # "idle" => s # << >> /\ Head(s).opcode = OpOf(m.state)
         /\ m.state = "idle" /\ s # << >> => q # << >> /\ Head(q).id = Head(s).id
<1>1. PICK f \in [0 .. Len(q) -> Nat] : Cuts(f, q, s, m)
  BY DEF HasCuts
<1>2. Len(q) \in Nat /\ Len(s) \in Nat
  OBVIOUS
<1>3. CASE m.state # "idle"
  <2>1. Rem(m) \in Nat /\ Rem(m) > 0
    BY <1>3 DEF Rem, MuxT
  <2>2. Rem(m) <= Len(s)
    BY <1>1, <1>2 DEF Cuts
  <2>3. s # << >> /\ Head(s) = s[1]
    BY <1>2, <2>1, <2>2
  <2>4. s[1].opcode = OpOf(m.state)
    BY <1>1, <2>1 DEF Cuts
  <2>5. QED
    BY <1>3, <2>3, <2>4
<1>4. CASE m.state = "idle" /\ s # << >>
  <2>1. Len(s) > 0 /\ f[0] = 0 /\ f[Len(q)] = Len(s)
    BY <1>1, <1>4 DEF Cuts, Rem
  <2>2. Len(q) > 0 /\ q # << >> /\ Head(q) = q[1] /\ q[1] \in Packet /\ Head(s) = s[1]
    BY <1>2, <1>4, <2>1
  <2>3. NBeats(q[1]) \in Nat /\ NBeats(q[1]) > 0
    BY <2>2, BeatsOfLength
  <2>4. f[1] = NBeats(q[1])
    BY <1>1, <1>2, <2>1, <2>2, <2>3 DEF Cuts
  <2>5. 1 \in f[0] + 1 .. f[1]
    BY <2>1, <2>3, <2>4
  <2>6. s[1].id = q[1].id
    BY <1>1, <1>2, <2>2, <2>5 DEF Cuts
  <2>7. QED
    BY <1>4, <2>2, <2>6
<1>5. QED
  BY <1>3, <1>4

\* The parser's registers.
LEMMA CycleCtrl ==
  ASSUME TypeOK, CtrlInv,
         NEW tvalid, NEW tready, NEW taken, NEW arrives \in BOOLEAN, NEW new,
         Cycle(new, tvalid, tready, taken, arrives)
  PROVE  CtrlInv'
<1>1. /\ arrives => posted < 5
      /\ ctrl_reg' = CtrlReg(arrives)
      /\ posted' = IF arrives THEN posted + 1 ELSE posted
  BY DEF Cycle
<1>2. ctrl_reg \in [0 .. 4 -> 0 .. 4] /\ posted \in 0 .. 5
  BY DEF TypeOK
<1>3. CASE ~ arrives
  BY <1>1, <1>2, <1>3 DEF CtrlInv, CtrlReg
<1>4. CASE arrives
  BY <1>1, <1>2, <1>4 DEF CtrlInv, CtrlReg, BENCH_VADDR_VALID_REG
<1>5. QED
  BY <1>3, <1>4

-----------------------------------------------------------------------------
\* The beats of one packet, on their way.

\* Moving a beat from one queue to the other leaves their concatenation alone.
LEMMA Moved ==
  ASSUME NEW r \in Seq(BeatT), NEW s \in Seq(BeatT), s # << >>
  PROVE  Append(r, Head(s)) \o Tail(s) = r \o s
<1>1. /\ Append(r, Head(s)) \in Seq(BeatT) /\ Len(Append(r, Head(s))) = Len(r) + 1
      /\ Tail(s) \in Seq(BeatT) /\ Len(Tail(s)) = Len(s) - 1
      /\ Len(r) \in Nat /\ Len(s) \in Nat /\ Len(s) > 0
  OBVIOUS
<1> DEFINE a == Append(r, Head(s)) \o Tail(s)
           b == r \o s
<1>2. a \in Seq(BeatT) /\ b \in Seq(BeatT) /\ Len(a) = Len(r) + Len(s) /\ Len(b) = Len(r) + Len(s)
  BY <1>1, Joined
<1>3. ASSUME NEW i \in 1 .. Len(r) + Len(s) PROVE a[i] = b[i]
  <2>1. b[i] = IF i <= Len(r) THEN r[i] ELSE s[i - Len(r)]
    BY Joined
  <2>2. a[i] = IF i <= Len(r) + 1 THEN Append(r, Head(s))[i] ELSE Tail(s)[i - (Len(r) + 1)]
    BY <1>1, Joined
  <2>3. CASE i <= Len(r)
    BY <1>1, <2>1, <2>2, <2>3
  <2>4. CASE i = Len(r) + 1
    BY <1>1, <2>1, <2>2, <2>4
  <2>5. CASE i > Len(r) + 1
    BY <1>1, <2>1, <2>2, <2>5
  <2>6. QED
    BY <1>1, <2>3, <2>4, <2>5
<1> HIDE DEF a, b
<1>4. a = b
  BY <1>2, <1>3, SameElements
<1>5. QED
  BY <1>4 DEF a, b

\* The first beat of the first queue is the first of the concatenation.
LEMMA Popped ==
  ASSUME NEW r \in Seq(BeatT), NEW s \in Seq(BeatT), r # << >>
  PROVE  /\ Tail(r) \in Seq(BeatT)
         /\ Tail(r) \o s = Tail(r \o s) /\ Head(r \o s) = Head(r) /\ r \o s # << >>
<1>1. /\ Tail(r) \in Seq(BeatT) /\ Len(Tail(r)) = Len(r) - 1
      /\ Len(r) \in Nat /\ Len(r) > 0 /\ Len(s) \in Nat
      /\ \A i \in 1 .. Len(r) - 1 : Tail(r)[i] = r[i + 1]
  OBVIOUS
<1> DEFINE w == r \o s
           a == Tail(r) \o s
           b == Tail(w)
<1>2. /\ w \in Seq(BeatT) /\ Len(w) = Len(r) + Len(s)
      /\ \A i \in 1 .. Len(r) + Len(s) : w[i] = IF i <= Len(r) THEN r[i] ELSE s[i - Len(r)]
  BY Joined
<1>3. /\ a \in Seq(BeatT) /\ Len(a) = Len(r) - 1 + Len(s)
      /\ \A i \in 1 .. Len(r) - 1 + Len(s) :
           a[i] = IF i <= Len(r) - 1 THEN Tail(r)[i] ELSE s[i - (Len(r) - 1)]
  BY <1>1, Joined
<1> HIDE DEF w, a
<1>4. w # << >> /\ Head(w) = w[1] /\ Head(r) = r[1]
  BY <1>1, <1>2
<1>5. /\ b \in Seq(BeatT) /\ Len(b) = Len(r) + Len(s) - 1
      /\ \A i \in 1 .. Len(r) + Len(s) - 1 : b[i] = w[i + 1]
  BY <1>1, <1>2, <1>4
<1> HIDE DEF b
<1>6. ASSUME NEW i \in 1 .. Len(r) + Len(s) - 1 PROVE a[i] = b[i]
  BY <1>1, <1>2, <1>3, <1>5
<1>7. a = b
  <2>1. Len(a) = Len(r) + Len(s) - 1 /\ Len(b) = Len(r) + Len(s) - 1
    BY <1>1, <1>3, <1>5
  <2>2. Len(a) = Len(b) /\ \A i \in 1 .. Len(a) : a[i] = b[i]
    BY <1>6, <2>1
  <2>3. QED
    BY ZenonT(60), <1>3, <1>5, <2>2, SameElements
<1>8. QED
  BY <1>1, <1>2, <1>4, <1>7 DEF a, b, w

\* Beats of which the last has tlast, after one has left.
LEMMA LastTail ==
  ASSUME NEW w \in Seq(BeatT), NEW op, w # << >>, LastBeatOf(op, w)
  PROVE  /\ Tail(w) \in Seq(BeatT) /\ LastBeatOf(op, Tail(w))
         /\ Head(w).tlast <=> Tail(w) = << >>
<1>1. /\ Tail(w) \in Seq(BeatT) /\ Len(Tail(w)) = Len(w) - 1 /\ Len(w) \in Nat /\ Len(w) > 0
      /\ Head(w) = w[1] /\ \A i \in 1 .. Len(w) - 1 : Tail(w)[i] = w[i + 1]
      /\ DOMAIN w = 1 .. Len(w) /\ DOMAIN Tail(w) = 1 .. Len(Tail(w))
  OBVIOUS
<1>2. Tail(w) = << >> <=> Len(w) = 1
  BY <1>1
<1>3. ASSUME NEW j \in 1 .. Len(w) PROVE w[j].opcode = op /\ (w[j].tlast <=> j = Len(w))
  BY ZenonT(60), <1>1 DEF LastBeatOf
<1>4. ASSUME NEW j \in 1 .. Len(w) - 1
      PROVE  Tail(w)[j].opcode = op /\ (Tail(w)[j].tlast <=> j = Len(w) - 1)
  <2>1. j + 1 \in 1 .. Len(w) /\ Tail(w)[j] = w[j + 1]
    BY <1>1
  <2>2. w[j + 1].opcode = op /\ (w[j + 1].tlast <=> j + 1 = Len(w))
    BY <1>3, <2>1
  <2>3. j + 1 = Len(w) <=> j = Len(w) - 1
    BY <1>1
  <2>4. QED
    BY ZenonT(60), <2>1, <2>2, <2>3
<1>5. LastBeatOf(op, Tail(w))
  BY ZenonT(60), <1>1, <1>4 DEF LastBeatOf
<1>6. Head(w).tlast <=> Len(w) = 1
  <2>1. 1 \in 1 .. Len(w)
    BY <1>1
  <2>2. w[1].tlast <=> 1 = Len(w)
    BY ZenonT(60), <1>3, <2>1
  <2>3. QED
    BY ZenonT(60), <1>1, <2>2
<1>7. QED
  BY <1>1, <1>2, <1>5, <1>6

-----------------------------------------------------------------------------
\* The phases of the one packet in flight, one lemma for each.

\* A queue with one element.
LEMMA OneElement ==
  ASSUME NEW T, NEW s \in Seq(T), Len(s) = 1
  PROVE  s # << >> /\ Tail(s) = << >> /\ Head(s) = s[1] /\ s[1] \in T
<1>0. Len(s) # 0
  OBVIOUS
<1>1. s # << >>
  BY ZenonT(60), <1>0, NoElement
<1>2. Tail(s) \in Seq(T) /\ Len(Tail(s)) = 0
  BY <1>1
<1>3. Tail(s) = << >>
  BY ZenonT(60), <1>2, NoElement
<1>4. QED
  BY <1>1, <1>3

\* When nothing is in flight, every queue is empty.
LEMMA EmptyIsEmpty ==
  ASSUME TypeOK, InFlight = {}
  PROVE  rq = << >> /\ sink = << >> /\ m_rq = << >> /\ resp = << >> /\ recv = << >>
<1>1. ASSUME NEW T, NEW s \in Seq(T), {s[i].id : i \in DOMAIN s} = {} PROVE s = << >>
  <2>1. \A i \in DOMAIN s : s[i].id \in {s[k].id : k \in DOMAIN s}
    OBVIOUS
  <2>2. DOMAIN s = {}
    BY ZenonT(60), <1>1, <2>1
  <2>3. QED
    BY <2>2
<1>2. /\ {rq[i].id : i \in DOMAIN rq} = {} /\ {m_rq[i].id : i \in DOMAIN m_rq} = {}
      /\ {sink[i].id : i \in DOMAIN sink} = {} /\ {resp[i].id : i \in DOMAIN resp} = {}
      /\ {recv[i].id : i \in DOMAIN recv} = {}
  BY ZenonT(60) DEF InFlight
<1>3. /\ rq \in Seq(Packet) /\ m_rq \in Seq(Packet)
      /\ sink \in Seq(BeatT) /\ resp \in Seq(BeatT) /\ recv \in Seq(BeatT)
  BY DEF TypeOK
<1>4. rq = << >> /\ m_rq = << >>
  BY ZenonT(60), <1>1, <1>2, <1>3
<1>5. sink = << >> /\ resp = << >> /\ recv = << >>
  BY ZenonT(60), <1>1, <1>2, <1>3
<1>6. QED
  BY <1>4, <1>5

\* A cycle in which no packet arrives.
Quiet(tvalid, tready, taken, arrives) ==
  /\ Cycle({}, tvalid, tready, taken, arrives)
  /\ tvalid \in BOOLEAN /\ tready \in Ready /\ taken \in SUBSET (0 .. 1)

\* What such a cycle does to each queue.
LEMMA QuietFacts ==
  ASSUME NEW tvalid, NEW tready, NEW taken, NEW arrives, Quiet(tvalid, tready, taken, arrives)
  PROVE  /\ rq' = PopIf(CommandIn(tvalid), rq) /\ sink' = PopIf(BeatIn(tvalid), sink)
         /\ arrived' = arrived /\ mux' = Mux(tvalid) /\ pkt_cnt' = PktCnt(tready)
         /\ m_rq' = PushIf(CommandIn(tvalid), PopIf(CommandOut, m_rq), Head(rq))
         /\ resp' = PushIf(BeatIn(tvalid) /\ mux.state = "resp",
                           PopIf(RespOut(tready), resp), Head(sink))
         /\ recv' = PushIf(BeatIn(tvalid) /\ mux.state = "recv",
                           PopIf(RecvOut(tready), recv), Head(sink))
BY DEF Quiet, Cycle

\* With every command passed on and none queued for the host, that stays so
\* until the user logic has a command.
LEMMA SqKept ==
  ASSUME NEW tvalid, NEW tready, NEW taken \in SUBSET (0 .. 1), NEW arrives, NEW new,
         Cycle(new, tvalid, tready, taken, arrives),
         m_rq = << >>, sq = [d \in 0 .. 1 |-> 0]
  PROVE  sq' = [d \in 0 .. 1 |-> 0]
<1>1. \A d \in 0 .. 1 : d \notin taken
  BY DEF Cycle
<1>2. ~ CommandOut
  BY DEF CommandOut
<1>3. sq' = [d \in 0 .. 1 |-> sq[d] - (IF d \in taken THEN 1 ELSE 0)
                    + (IF CommandOut /\ Dest(Head(m_rq).opcode) = d THEN 1 ELSE 0)]
  BY DEF Cycle
<1>4. QED
  BY <1>1, <1>2, <1>3

\* With nothing in flight, nothing happens.
LEMMA IdleStep ==
  ASSUME NEW tvalid, NEW tready, NEW taken, NEW arrives, Quiet(tvalid, tready, taken, arrives),
         Idle
  PROVE  Idle'
<1>1. /\ rq = << >> /\ m_rq = << >> /\ sink = << >> /\ resp = << >> /\ recv = << >>
      /\ mux.state = "idle" /\ pkt_cnt = arrived
  BY DEF Idle
<1>2. /\ ~ CommandIn(tvalid) /\ ~ BeatIn(tvalid) /\ ~ CommandOut /\ ~ TrDone(tvalid)
      /\ ~ RespOut(tready) /\ ~ RecvOut(tready)
  BY <1>1 DEF CommandIn, BeatIn, CommandOut, TrDone, RespOut, RecvOut
<1>3. /\ rq' = rq /\ sink' = sink /\ m_rq' = m_rq /\ resp' = resp /\ recv' = recv
      /\ mux' = mux /\ pkt_cnt' = pkt_cnt /\ arrived' = arrived
  BY <1>2, QuietFacts DEF PushIf, PopIf, Mux, PktCnt
<1>4. QED
  BY <1>1, <1>3 DEF Idle

\* The multiplexer takes the command at once, and no beat yet.
LEMMA WaitingStep ==
  ASSUME TypeOK, NEW tvalid, NEW tready, NEW taken, NEW arrives,
         Quiet(tvalid, tready, taken, arrives), Waiting
  PROVE  Commanded'
<1>1. /\ Len(rq) = 1 /\ m_rq = << >> /\ resp = << >> /\ recv = << >> /\ mux.state = "idle"
  BY DEF Waiting
<1>2. rq \in Seq(Packet) /\ FifoDepth \in Nat /\ FifoDepth > 0
  BY DepthAssumption DEF TypeOK
<1>3. rq # << >> /\ Tail(rq) = << >> /\ Head(rq) = rq[1]
  BY <1>1, <1>2, OneElement
<1>4. /\ CommandIn(tvalid) /\ ~ BeatIn(tvalid) /\ ~ CommandOut
      /\ ~ RespOut(tready) /\ ~ RecvOut(tready)
  BY <1>1, <1>2, <1>3 DEF CommandIn, BeatIn, CommandOut, RespOut, RecvOut
<1>5. /\ rq' = << >> /\ sink' = sink /\ m_rq' = << rq[1] >> /\ resp' = << >> /\ recv' = << >>
      /\ mux'.state # "idle" /\ pkt_cnt' = pkt_cnt /\ arrived' = arrived
  BY <1>1, <1>3, <1>4, QuietFacts DEF PushIf, PopIf, Mux, PktCnt
<1>6. sq' = [d \in 0 .. 1 |-> 0]
  BY <1>1, SqKept DEF Quiet, Waiting
<1>7. m_rq'[1] = rq[1] /\ Len(m_rq') = 1
  BY <1>5
<1>8. /\ LastBeatOf(m_rq'[1].opcode, sink')
      /\ m_rq'[1].opcode = "write" => m_rq'[1].n = pkt_cnt'
  BY <1>5, <1>7 DEF Waiting
<1>9. Due(m_rq[1].opcode)'
  BY <1>5, <1>7 DEF Waiting, Due
<1>10. QED
  BY <1>5, <1>6, <1>7, <1>8, <1>9 DEF Commanded

\* Beats of the write packet move from the stack to the FIFO and on to the
\* host; only the last one of them advances pkt_cnt.
LEMMA ReceivingStep ==
  ASSUME TypeOK, TypeOK', StreamInv', NEW tvalid, NEW tready, NEW taken, NEW arrives,
         Quiet(tvalid, tready, taken, arrives),
         rq = << >>, resp = << >>, mux.state \in {"idle", "recv"}, recv \o sink # << >>,
         LastBeatOf("write", recv \o sink), Due("write"), m_rq' = << >>
  PROVE  (Receiving \/ Idle)'
<1> DEFINE r == PopIf(RecvOut(tready), recv)
<1>1. /\ ~ CommandIn(tvalid) /\ ~ RespOut(tready)
      /\ BeatIn(tvalid) => mux.state = "recv" /\ sink # << >>
  BY DEF CommandIn, RespOut, BeatIn
<1>2. rq' = << >> /\ resp' = << >> /\ arrived' = arrived /\ sink' = PopIf(BeatIn(tvalid), sink)
  BY <1>1, QuietFacts DEF PopIf, PushIf
<1>3. mux'.state \in {"idle", "recv"}
  <2>1. mux' = Mux(tvalid) /\ mux \in MuxT
    BY QuietFacts DEF TypeOK, MuxT
  <2>2. QED
    BY <1>1, <2>1 DEF Mux, MuxT
<1>4. recv' = PushIf(BeatIn(tvalid), r, Head(sink))
  BY <1>1, QuietFacts DEF PushIf
<1>5. /\ recv \in Seq(BeatT) /\ sink \in Seq(BeatT) /\ recv' \in Seq(BeatT) /\ sink' \in Seq(BeatT)
      /\ mux' \in MuxT /\ rq' \in Seq(Packet) /\ pkt_cnt \in 0 .. 3 /\ arrived \in 0 .. 3
  BY DEF TypeOK, MuxT
<1>6. r \in Seq(BeatT)
  BY <1>5 DEF PopIf, RecvOut
<1>7. pkt_cnt' = PktCnt(tready) /\ (pkt_cnt + 1) % 4 = arrived
  BY QuietFacts DEF Due
<1>8. recv' \o sink' = r \o sink
  <2> HIDE DEF r
  <2>1. CASE BeatIn(tvalid)
    <3>1. recv' = Append(r, Head(sink)) /\ sink' = Tail(sink)
      BY <1>2, <1>4, <2>1 DEF PushIf, PopIf
    <3>2. QED
      BY <1>1, <1>5, <1>6, <2>1, <3>1, Moved
  <2>2. CASE ~ BeatIn(tvalid)
    BY <1>2, <1>4, <2>2 DEF PushIf, PopIf
  <2>3. QED
    BY <2>1, <2>2
<1>9. CASE RecvOut(tready)
  <2>1. r = Tail(recv) /\ recv # << >>
    BY <1>9 DEF PopIf, RecvOut
  <2>2. /\ r \o sink = Tail(recv \o sink) /\ Head(recv \o sink) = Head(recv)
        /\ recv \o sink \in Seq(BeatT)
    BY ZenonT(60), <1>5, <2>1, Popped, Joined
  <2>3. /\ LastBeatOf("write", recv' \o sink')
        /\ Head(recv).tlast <=> recv' \o sink' = << >>
    BY ZenonT(60), <1>8, <2>2, LastTail
  <2>4. CASE Head(recv).tlast
    <3>1. pkt_cnt' = arrived
      <4>1. pkt_cnt' = IF pkt_cnt = 3 THEN 0 ELSE pkt_cnt + 1
        BY <1>7, <1>9, <2>4 DEF PktCnt
      <4>2. pkt_cnt = 0 \/ pkt_cnt = 1 \/ pkt_cnt = 2 \/ pkt_cnt = 3
        BY <1>5
      <4>3. QED
        BY <1>7, <4>1, <4>2
    <3>2. recv' = << >> /\ sink' = << >>
      <4>1. recv' \o sink' = << >>
        BY <2>3, <2>4
      <4>2. QED
        BY <1>5, <4>1, JoinedToNothing
    <3>3. mux'.state = "idle"
      <4>1. HasCuts(rq, sink, mux)'
        BY DEF StreamInv
      <4>2. HasCuts(rq', sink', mux')
        BY ZenonT(60), <4>1 DEF HasCuts, Cuts, Rem
      <4>3. QED
        BY ZenonT(60), <1>5, <3>2, <4>2, CutsSay
    <3>4. QED
      BY <1>2, <3>1, <3>2, <3>3 DEF Idle
  <2>5. CASE ~ Head(recv).tlast
    <3>1. pkt_cnt' = pkt_cnt /\ recv' \o sink' # << >>
      BY <1>7, <1>9, <2>3, <2>5 DEF PktCnt
    <3>2. QED
      BY <1>2, <1>3, <1>7, <2>3, <3>1 DEF Receiving, Due
  <2>6. QED
    BY <2>4, <2>5
<1>10. CASE ~ RecvOut(tready)
  <2>1. pkt_cnt' = pkt_cnt /\ recv' \o sink' = recv \o sink
    BY <1>7, <1>8, <1>10 DEF PktCnt, PopIf
  <2>2. LastBeatOf("write", recv' \o sink') /\ recv' \o sink' # << >>
    BY <2>1
  <2>3. QED
    BY <1>2, <1>3, <1>7, <2>1, <2>2 DEF Receiving, Due
<1>11. QED
  BY <1>9, <1>10

\* The beats of a read response leave pkt_cnt alone.
LEMMA RespondingStep ==
  ASSUME TypeOK, NEW tvalid, NEW tready, NEW taken, NEW arrives,
         Quiet(tvalid, tready, taken, arrives),
         rq = << >>, recv = << >>, mux.state \in {"idle", "resp"}, Due("rd_resp"), m_rq' = << >>
  PROVE  Responding'
<1>1. ~ CommandIn(tvalid) /\ ~ RecvOut(tready)
  BY DEF CommandIn, RecvOut
<1>2. /\ rq' = << >> /\ recv' = << >> /\ arrived' = arrived /\ pkt_cnt' = pkt_cnt
  BY <1>1, QuietFacts DEF PopIf, PushIf, PktCnt
<1>3. mux'.state \in {"idle", "resp"}
  <2>1. mux' = Mux(tvalid) /\ mux \in MuxT
    BY QuietFacts DEF TypeOK, MuxT
  <2>2. QED
    BY <1>1, <2>1 DEF Mux, MuxT
<1>4. Due("rd_resp")'
  BY <1>2 DEF Due
<1>5. QED
  BY <1>2, <1>3, <1>4 DEF Responding

\* The user logic passes the command on at once, while the first beat may
\* already be on its way.
LEMMA CommandedStep ==
  ASSUME TypeOK, TypeOK', StreamInv, StreamInv', NEW tvalid, NEW tready, NEW taken, NEW arrives,
         Quiet(tvalid, tready, taken, arrives), Commanded
  PROVE  (Receiving \/ Idle \/ Responding)'
<1>1. /\ rq = << >> /\ Len(m_rq) = 1 /\ resp = << >> /\ recv = << >> /\ mux.state # "idle"
      /\ sq = [d \in 0 .. 1 |-> 0] /\ LastBeatOf(m_rq[1].opcode, sink) /\ Due(m_rq[1].opcode)
  BY DEF Commanded
<1>2. /\ m_rq \in Seq(Packet) /\ rq \in Seq(Packet) /\ sink \in Seq(BeatT) /\ mux \in MuxT
      /\ SqDepth \in Nat /\ SqDepth > 0
  <2>1. SqDepth \in Nat /\ SqDepth > 0
    BY DepthAssumption
  <2>2. QED
    BY <2>1 DEF TypeOK, MuxT
<1>3. m_rq # << >> /\ Tail(m_rq) = << >> /\ Head(m_rq) = m_rq[1] /\ m_rq[1] \in Packet
  BY <1>1, <1>2, OneElement
<1>4. CommandOut
  BY <1>1, <1>2, <1>3 DEF CommandOut, Dest
<1>5. m_rq' = << >>
  <2>1. ~ CommandIn(tvalid)
    BY <1>1 DEF CommandIn
  <2>2. QED
    BY <1>3, <1>4, <2>1, QuietFacts DEF PushIf, PopIf
<1>6. sink # << >> /\ Head(sink).opcode = OpOf(mux.state)
  BY <1>1, <1>2, CutsSay DEF StreamInv
<1>7. m_rq[1].opcode = OpOf(mux.state)
  <2>1. Head(sink) = sink[1] /\ 1 \in DOMAIN sink
    BY <1>2, <1>6
  <2>2. QED
    BY <1>1, <1>6, <2>1 DEF LastBeatOf
<1>8. CASE mux.state = "recv"
  <2>1. m_rq[1].opcode = "write"
    BY ZenonT(60), <1>7, <1>8 DEF OpOf
  <2>2. recv \o sink = sink
    BY <1>1, <1>2, JoinedNothing
  <2>3. recv \o sink # << >> /\ LastBeatOf("write", recv \o sink) /\ Due("write")
    BY <1>1, <1>6, <2>1, <2>2
  <2>4. QED
    BY ZenonT(60), <1>1, <1>5, <1>8, <2>3, ReceivingStep
<1>9. CASE mux.state = "resp"
  <2>1. Due("rd_resp")
    BY <1>1, <1>7, <1>9 DEF OpOf
  <2>2. QED
    BY <1>1, <1>5, <1>9, <2>1, RespondingStep
<1>10. QED
  BY <1>1, <1>2, <1>8, <1>9 DEF MuxT

\* A packet arrives when nothing is in flight and nothing is queued.
LEMMA ArriveStep ==
  ASSUME TypeOK, StreamInv, paced, PacedInv, Empty, NEW p \in Packet, p.n = arrived,
         NEW tvalid \in BOOLEAN, NEW tready \in Ready, NEW taken \in SUBSET (0 .. 1), NEW arrives,
         Cycle({p}, tvalid, tready, taken, arrives)
  PROVE  Waiting'
<1>1. rq = << >> /\ sink = << >> /\ m_rq = << >> /\ resp = << >> /\ recv = << >>
  BY EmptyIsEmpty DEF Empty
<1>2. mux \in MuxT /\ pkt_cnt \in 0 .. 3 /\ arrived \in 0 .. 3
  BY DEF TypeOK, MuxT
<1>3. mux.state = "idle"
  BY ZenonT(60), <1>1, <1>2, CutsSay DEF StreamInv, TypeOK
<1>4. pkt_cnt = arrived
  <2>1. recv \o sink = << >>
    BY <1>1, JoinedNothing DEF TypeOK
  <2>2. Idle \/ Responding
    BY <1>1, <2>1 DEF PacedInv, Waiting, Commanded, Receiving
  <2>3. QED
    BY <2>2 DEF Idle, Responding, Due
<1>5. /\ ~ CommandIn(tvalid) /\ ~ BeatIn(tvalid) /\ ~ CommandOut /\ ~ TrDone(tvalid)
      /\ ~ RespOut(tready) /\ ~ RecvOut(tready)
  BY <1>1 DEF CommandIn, BeatIn, CommandOut, TrDone, RespOut, RecvOut
<1>6. /\ rq' = Append(<< >>, p) /\ sink' = << >> \o Beats(p)
      /\ arrived' = IF p.opcode = "write" THEN (arrived + 1) % 4 ELSE arrived
  BY ZenonT(60), <1>1, <1>5 DEF Cycle, PopIf
<1>7. /\ m_rq' = << >> /\ resp' = << >> /\ recv' = << >> /\ mux' = mux /\ pkt_cnt' = pkt_cnt
  BY <1>1, <1>5 DEF Cycle, PopIf, PushIf, Mux, PktCnt
<1>8. sq' = [d \in 0 .. 1 |-> 0]
  BY <1>1, SqKept DEF Empty
<1>9. rq'[1] = p /\ Len(rq') = 1
  BY <1>6
<1>10. LastBeatOf(rq'[1].opcode, sink')
  <2>1. /\ Beats(p) \in Seq(BeatT) /\ Len(Beats(p)) = NBeats(p)
        /\ \A j \in 1 .. NBeats(p) : /\ Beats(p)[j].opcode = p.opcode
                                     /\ Beats(p)[j].tlast = (j = NBeats(p))
    BY BeatsType
  <2>2. sink' = Beats(p) /\ DOMAIN Beats(p) = 1 .. NBeats(p)
    BY <1>6, <2>1, JoinedNothing
  <2>3. QED
    BY ZenonT(60), <1>9, <2>1, <2>2 DEF LastBeatOf
<1>11. Due(rq[1].opcode)'
  BY <1>2, <1>4, <1>6, <1>7, <1>9 DEF Due
<1>12. rq'[1].opcode = "write" => rq'[1].n = pkt_cnt'
  BY <1>4, <1>7, <1>9
<1>13. QED
  BY <1>3, <1>7, <1>8, <1>9, <1>10, <1>11, <1>12 DEF Waiting

\* One cycle keeps the phases.
LEMMA CyclePaced ==
  ASSUME TypeOK, TypeOK', StreamInv, StreamInv', PacedInv,
         NEW tvalid \in BOOLEAN, NEW tready \in Ready, NEW taken \in SUBSET (0 .. 1),
         NEW arrives \in BOOLEAN, NEW new \in {{}} \cup {{p} : p \in Arrivals},
         Cycle(new, tvalid, tready, taken, arrives)
  PROVE  PacedInv'
<1>1. SUFFICES ASSUME paced' PROVE (Idle \/ Waiting \/ Commanded \/ Receiving \/ Responding)'
  BY DEF PacedInv
<1>2. CASE new = {}
  <2>1. Quiet(tvalid, tready, taken, arrives) /\ paced
    BY ZenonT(60), <1>1, <1>2 DEF Quiet, Cycle
  <2>2. Idle \/ Waiting \/ Commanded \/ Receiving \/ Responding
    BY <2>1 DEF PacedInv
  <2>3. CASE Idle
    BY <2>1, <2>3, IdleStep
  <2>4. CASE Waiting
    BY <2>1, <2>4, WaitingStep
  <2>5. CASE Commanded
    BY <2>1, <2>5, CommandedStep
  <2>6. m_rq = << >> /\ rq = << >> => m_rq' = << >>
    BY <2>1, QuietFacts DEF PushIf, PopIf, CommandIn, CommandOut
  <2>7. CASE Receiving
    BY <2>1, <2>6, <2>7, ReceivingStep DEF Receiving
  <2>8. CASE Responding
    BY <2>1, <2>6, <2>8, RespondingStep DEF Responding
  <2>9. QED
    BY <2>2, <2>3, <2>4, <2>5, <2>7, <2>8
<1>3. CASE new # {}
  <2>1. PICK p \in Arrivals : new = {p}
    BY <1>3
  <2>2. p \in Packet /\ p.n = arrived
    BY ArrivalsType DEF Arrivals
  <2>3. paced /\ Empty
    BY ZenonT(60), <1>1, <2>1 DEF Cycle
  <2>4. Waiting'
    BY <2>1, <2>2, <2>3, ArriveStep
  <2>5. QED
    BY <2>4
<1>4. QED
  BY <1>2, <1>3

\* One cycle hands a paced write to its own buffer.
LEMMA CycleScatters ==
  ASSUME TypeOK, CtrlInv, PacedInv,
         NEW tvalid \in BOOLEAN, NEW tready \in Ready, NEW taken \in SUBSET (0 .. 1),
         NEW arrives \in BOOLEAN, NEW new, Cycle(new, tvalid, tready, taken, arrives)
  PROVE  PacedWritesScatterInOrder'
<1>1. SUFFICES ASSUME paced', sq_wr'.scattered, sq_wr'.opcode = "write"
               PROVE  sq_wr'.vaddr = sq_wr'.n + 1
  BY DEF PacedWritesScatterInOrder
<1>2. paced
  BY ZenonT(60), <1>1 DEF Cycle
<1>3. CommandOut
  BY ZenonT(60), <1>1 DEF Cycle, NoCommand
<1>4. sq_wr' = [vaddr |-> Vaddr, scattered |-> ctrl_reg[BENCH_VADDR_VALID_REG] = 1,
                opcode |-> Head(m_rq).opcode, n |-> Head(m_rq).n]
  BY ZenonT(60), <1>3 DEF Cycle
<1>5. Commanded
  BY <1>2, <1>3 DEF PacedInv, CommandOut, Idle, Waiting, Receiving, Responding
<1>6. Head(m_rq).opcode = "write" /\ Head(m_rq).n = pkt_cnt
  <2>1. Head(m_rq) = m_rq[1]
    BY <1>3 DEF CommandOut, TypeOK
  <2>2. QED
    BY <1>1, <1>4, <1>5, <2>1 DEF Commanded
<1>7. ctrl_reg[4] = 1 /\ Vaddr = ctrl_reg[pkt_cnt]
  BY ZenonT(60), <1>1, <1>4 DEF Vaddr, BENCH_VADDR_VALID_REG
<1>8. Vaddr = pkt_cnt + 1
  <2>1. pkt_cnt \in 0 .. 3 /\ posted = 5
    BY <1>7 DEF TypeOK, CtrlInv
  <2>2. ctrl_reg[pkt_cnt] = pkt_cnt + 1
    BY <2>1 DEF CtrlInv
  <2>3. QED
    BY <1>7, <2>2
<1>9. QED
  BY <1>4, <1>6, <1>8

-----------------------------------------------------------------------------
\* The invariant holds at reset.
LEMMA InitIInv == Init => IInv
<1>1. SUFFICES ASSUME Init PROVE IInv
  OBVIOUS
<1>2. TypeOK
  <2>1. FifoDepth \in Nat /\ SqDepth \in Nat
    BY DepthAssumption
  <2>2. /\ ctrl_reg \in [0 .. 4 -> 0 .. 4] /\ posted \in 0 .. 5
        /\ pkt_cnt \in 0 .. 3 /\ arrived \in 0 .. 3 /\ paced \in BOOLEAN
    BY <1>1 DEF Init, NoAddress
  <2>3. /\ rq \in Seq(Packet) /\ sink \in Seq(BeatT)
        /\ m_rq \in Seq(Packet) /\ Len(m_rq) <= FifoDepth
        /\ resp \in Seq(BeatT) /\ Len(resp) <= FifoDepth
        /\ recv \in Seq(BeatT) /\ Len(recv) <= FifoDepth
    BY <1>1, <2>1 DEF Init
  <2>4. /\ mux \in [state : {"idle", "resp", "recv"}, cnt : Nat]
        /\ sq \in [0 .. 1 -> 0 .. SqDepth]
    BY <1>1, <2>1 DEF Init
  <2>5. sq_wr \in [vaddr : NoAddress .. Original, scattered : BOOLEAN, opcode : Ops, n : 0 .. 3]
    BY <1>1 DEF Init, NoCommand, NoAddress, Original, Ops
  <2>6. QED
    BY <2>2, <2>3, <2>4, <2>5 DEF TypeOK
<1>3. StreamInv
  <2> DEFINE f == [i \in 0 .. 0 |-> 0]
  <2>1. Len(rq) = 0 /\ Len(sink) = 0 /\ Rem(mux) = 0 /\ rq = << >> /\ sink = << >>
    BY <1>1 DEF Init, Rem
  <2>2. f \in [0 .. Len(rq) -> Nat] /\ Cuts(f, rq, sink, mux)
    BY <2>1 DEF Cuts
  <2>3. HasCuts(rq, sink, mux)
    BY <2>2 DEF HasCuts
  <2>4. QED
    BY <1>1, <2>3 DEF StreamInv, Init
<1>4. CtrlInv
  BY <1>1 DEF Init, CtrlInv, NoAddress
<1>5. PacedInv /\ PacedWritesScatterInOrder
  BY <1>1 DEF Init, PacedInv, Idle, PacedWritesScatterInOrder, NoCommand
<1>6. QED
  BY <1>2, <1>3, <1>4, <1>5 DEF IInv

\* Every cycle keeps the invariant.
LEMMA NextIInv == IInv /\ [Next]_vars => IInv'
<1>1. SUFFICES ASSUME IInv, [Next]_vars PROVE IInv'
  OBVIOUS
<1>2. CASE Next
  <2>1. PICK tvalid \in BOOLEAN, tready \in Ready, taken \in SUBSET (0 .. 1),
             new \in {{}} \cup {{p} : p \in Arrivals}, arrives \in BOOLEAN :
               Cycle(new, tvalid, tready, taken, arrives)
    BY <1>2 DEF Next, AnyCycle
  <2>2. TypeOK'
    BY <1>1, <2>1, CycleType DEF IInv
  <2>3. StreamInv'
    BY <1>1, <2>1, <2>2, CycleStream DEF IInv
  <2>4. CtrlInv'
    BY <1>1, <2>1, CycleCtrl DEF IInv
  <2>5. PacedInv'
    BY <1>1, <2>1, <2>2, <2>3, CyclePaced DEF IInv
  <2>6. PacedWritesScatterInOrder'
    BY <1>1, <2>1, CycleScatters DEF IInv
  <2>7. QED
    BY <2>2, <2>3, <2>4, <2>5, <2>6 DEF IInv
<1>3. CASE UNCHANGED vars
  <2>1. TypeOK' /\ CtrlInv' /\ PacedWritesScatterInOrder'
    BY <1>1, <1>3 DEF vars, IInv, TypeOK, CtrlInv, PacedWritesScatterInOrder
  <2>2. StreamInv'
    <3>1. UNCHANGED <<resp, recv, rq, sink, mux>>
      BY <1>3 DEF vars
    <3>2. QED
      BY ZenonT(60), <1>1, <3>1 DEF IInv, StreamInv
  <2>3. PacedInv'
    BY <1>1, <1>3
       DEF vars, IInv, PacedInv, Idle, Waiting, Commanded, Receiving, Responding, Due
  <2>4. QED
    BY <2>1, <2>2, <2>3 DEF IInv
<1>4. QED
  BY <1>1, <1>2, <1>3

\* The cuts say where every beat belongs: the streams stay apart.
LEMMA CutsKeepApart == IInv => StreamsStayApart
<1>1. SUFFICES ASSUME IInv PROVE StreamsStayApart
  OBVIOUS
<1>2. /\ rq \in Seq(Packet) /\ sink \in Seq(BeatT) /\ mux \in MuxT /\ HasCuts(rq, sink, mux)
  BY <1>1 DEF IInv, TypeOK, StreamInv, MuxT
<1>3. mux.state = "idle" /\ sink # << >> => rq # << >> /\ Head(rq).id = Head(sink).id
  BY ZenonT(60), <1>2, CutsSay
<1>4. QED
  BY <1>1, <1>3 DEF StreamsStayApart, IInv, StreamInv

\* A multiplexer that works has a beat to wait for, and an idle one that is
\* offered a beat is offered its command: something can always move.
LEMMA CutsMove == IInv => NeverStuck
<1>1. SUFFICES ASSUME IInv, InFlight # {}, resp = << >>, recv = << >>,
                      \A d \in 0 .. 1 : ~ (sq[d] > 0)
               PROVE  CommandIn(TRUE) \/ BeatIn(TRUE) \/ CommandOut
  BY ZenonT(60) DEF NeverStuck
<1>2. /\ rq \in Seq(Packet) /\ sink \in Seq(BeatT) /\ mux \in MuxT /\ HasCuts(rq, sink, mux)
      /\ m_rq \in Seq(Packet) /\ sq \in [0 .. 1 -> 0 .. SqDepth]
  BY <1>1 DEF IInv, TypeOK, StreamInv, MuxT
<1>3. FifoDepth \in Nat /\ FifoDepth > 0 /\ SqDepth \in Nat /\ SqDepth > 0
  BY DepthAssumption
<1>4. CASE m_rq # << >>
  <2> DEFINE e == Dest(Head(m_rq).opcode)
  <2>1. e \in 0 .. 1
    BY DEF Dest
  <2> HIDE DEF e
  <2>2. sq[e] \in 0 .. SqDepth /\ ~ (sq[e] > 0)
    BY <1>1, <1>2, <2>1
  <2>3. sq[e] = 0
    BY <1>3, <2>2
  <2>4. QED
    BY ZenonT(60), <1>3, <1>4, <2>3 DEF CommandOut, e
<1>5. CASE m_rq = << >>
  <2>1. CASE mux.state # "idle"
    <3>1. sink # << >>
      BY ZenonT(60), <1>2, <2>1, CutsSay
    <3>2. QED
      BY ZenonT(60), <1>1, <1>2, <1>3, <2>1, <3>1 DEF BeatIn, MuxT
  <2>2. CASE mux.state = "idle"
    <3>1. rq # << >>
      <4>1. SUFFICES ASSUME rq = << >> PROVE FALSE
        OBVIOUS
      <4>2. sink = << >>
        BY ZenonT(60), <1>2, <2>2, <4>1, CutsSay
      <4>3. InFlight = {}
        <5>1. DOMAIN << >> = {}
          OBVIOUS
        <5>2. QED
          BY ZenonT(60), <1>1, <1>5, <4>1, <4>2, <5>1 DEF InFlight
      <4>4. QED
        BY <1>1, <4>3
    <3>2. QED
      BY ZenonT(60), <1>3, <1>5, <2>2, <3>1 DEF CommandIn
  <2>3. QED
    BY ZenonT(60), <2>1, <2>2
<1>6. QED
  BY ZenonT(60), <1>4, <1>5

-----------------------------------------------------------------------------
\* The invariant, for packets of any length, beats of any width, queues of
\* any depth and any number of packets in flight.
THEOREM ScatterInvariant == Spec => []IInv
<1>1. IInv /\ [Next]_vars => IInv'
  BY NextIInv
<1>2. QED
  BY InitIInv, <1>1, PTL DEF Spec

\* axis_mux_user_rq counts the beats of a command right whatever its length:
\* read responses and writes stay apart, and an idle multiplexer is offered
\* the command of the next beat.
THEOREM ScatterStreams == Spec => []StreamsStayApart
BY ScatterInvariant, CutsKeepApart, PTL

\* The i-th write packet goes to buffer i modulo 4 as long as packets arrive
\* one at a time.
THEOREM ScatterInOrder == Spec => []PacedWritesScatterInOrder
<1>1. IInv => PacedWritesScatterInOrder
  BY DEF IInv
<1>2. QED
  BY ScatterInvariant, <1>1, PTL

\* The receive side does not lock itself up.
THEOREM ScatterMoves == Spec => []NeverStuck
BY ScatterInvariant, CutsMove, PTL

=============================================================================
