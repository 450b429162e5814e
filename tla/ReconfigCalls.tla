-------------------------- MODULE ReconfigCalls --------------------------
(***************************************************************************)
(* The inductive invariant of partial reconfiguration, what a process has  *)
(* yet to do of a call of cRcnfg, what a step leaves alone, and the steps  *)
(* of constructor, destructor, calls and death.                            *)
(***************************************************************************)
EXTENDS Reconfig, TLAPS

\* The time each prover has for a leaf that names none.
USE ZenonT(10), SMTT(60), ZenonT(60)

(* What a process may still have to do: the rest of a call.                *)
MmapSt(m) == [s |-> "mmap", main |-> m]
FreeSt(b) == [s |-> "free", b |-> b]
RlockSt(r) == [s |-> "rlock", r |-> r]
StartSt(b, r) == [s |-> "start", b |-> b, r |-> r]
WaitSt(r) == [s |-> "wait", r |-> r]

GetRest(m) ==
  {<<St("mlock"), St("check"), St("alloc"), MmapSt(m), St("munlock")>>,
   <<St("check"), St("alloc"), MmapSt(m), St("munlock")>>,
   <<St("alloc"), MmapSt(m), St("munlock")>>,
   <<MmapSt(m), St("munlock")>>,
   <<St("munlock")>>}

FreeRest(b) ==
  {<<St("mlock"), FreeSt(b), St("munlock"), St("dtor")>>,
   <<FreeSt(b), St("munlock"), St("dtor")>>,
   <<St("munlock"), St("dtor")>>,
   <<St("dtor")>>}

AppRest(b, r) ==
  {<<RlockSt(r), StartSt(b, r), WaitSt(r)>>,
   <<StartSt(b, r), WaitSt(r)>>,
   <<WaitSt(r)>>}

ShellRest(b) ==
  {<<RlockSt(-1), St("remove"), StartSt(b, -1), WaitSt(-1), St("runlock")>>,
   <<St("remove"), StartSt(b, -1), WaitSt(-1), St("runlock")>>,
   <<StartSt(b, -1), WaitSt(-1), St("runlock")>>,
   <<WaitSt(-1), St("runlock")>>,
   <<St("runlock")>>}

Shape(s) ==
  \/ s = <<>>
  \/ \E m \in BOOLEAN : s \in GetRest(m)
  \/ \E b \in Nat : s \in FreeRest(b)
  \/ \E b \in Nat, r \in Nat : s \in AppRest(b, r)
  \/ \E b \in Nat : s \in ShellRest(b)

Steps ==
  {St(k) : k \in {"mlock", "check", "alloc", "munlock", "dtor", "remove", "runlock"}} \cup {MmapSt(m) : m \in BOOLEAN} \cup {FreeSt(b) : b \in Nat}
    \cup {RlockSt(r) : r \in Int} \cup {StartSt(b, r) : b \in Nat, r \in Int} \cup {WaitSt(r) : r \in Int}

(* The step a process is at, and the sections the two locks protect.       *)
Kind(s) == IF s = <<>> THEN "none" ELSE Head(s).s
InMtx(s) == Kind(s) \in {"check", "alloc", "mmap", "munlock", "free"}
InRcnfg(s) == Kind(s) \in {"remove", "start", "wait", "runlock"}
Reg(s) == IF Kind(s) \in {"start", "wait"} THEN Head(s).r ELSE -1
RegOf(s) == Head(s).r
BufOf(s) == Head(s).b
Frees(s, b) == \E j \in 1 .. Len(s) : s[j] = FreeSt(b)

Buffs == [b : Nat, p : Procs \cup {Free}, crid : Nat]
Objs == [open : BOOLEAN, failed : BOOLEAN, gen : Nat, crid : Nat, mem : SUBSET Nat]

ThType == th \in [Procs -> Seq(Steps)] /\ \A p \in Procs : Shape(th[p])

DriverType ==
  bd \in [known : Shells \cup {NoShell}, inuse : BOOLEAN] /\ shell \in Shells

UserType ==
  /\ obj \in [Procs -> Objs] /\ crid_gen \in [Procs -> Nat]
  /\ mtx \in Seq(Procs \cup {Free}) /\ name \in 0 .. Len(mtx)

BuffType == curr_buff \in Buffs /\ entries \subseteq Buffs /\ pages \subseteq Nat /\ nbuf \in Nat

HwType ==
  /\ rcnfg_lock \in Procs \cup {Free} /\ wait_rcnfg \in BOOLEAN
  /\ icap \in Seq([r : Int, b : Nat]) /\ dcpl \subseteq Int

TypeInv == DriverType /\ ThType /\ UserType /\ BuffType /\ HwType

(* reconfig_mtx: whoever is between lock and unlock holds the mutex of its *)
(* object, and while the name has not been split all objects share it.     *)
MtxInv ==
  /\ \A p \in Procs : th[p] # <<>> => obj[p].open
  /\ \A p \in Procs : obj[p].open => obj[p].gen \in 1 .. Len(mtx)
  /\ \A p \in Procs : InMtx(th[p]) => mtx[obj[p].gen] = p
  /\ "split" \notin hz =>
       \A p, q \in Procs : obj[p].open /\ obj[q].open => obj[p].gen = obj[q].gen

(* The buffers, as long as the mutex is one.                               *)
Mine(p, b) == b \in obj[p].mem \/ Frees(th[p], b)

BufInv ==
  "split" \notin hz =>
    /\ curr_buff.b = 0 => curr_buff = None
    /\ \A p \in Procs : Kind(th[p]) = "alloc" => curr_buff.b = 0
    /\ pages \subseteq 1 .. nbuf /\ curr_buff.b \in 0 .. nbuf
    /\ curr_buff.p \in Procs => curr_buff.b \in pages
    /\ \A e \in entries : e.b = curr_buff.b => e = curr_buff
    /\ \A p \in Procs : \A b \in Nat : Mine(p, b) => b \in 1 .. nbuf /\ b # curr_buff.b
    /\ "signal" \notin hz => \A j \in 1 .. Len(icap) : \E e \in entries : e.b = icap[j].b /\ e.p = rcnfg_lock

(* rcnfg_lock: who holds it, what the hardware does meanwhile, and which   *)
(* region is decoupled.                                                    *)
LockInv ==
  /\ "signal" \notin hz =>
       /\ \A p \in Procs : InRcnfg(th[p]) => rcnfg_lock = p
       /\ wait_rcnfg => rcnfg_lock \in Procs /\ Kind(th[rcnfg_lock]) = "wait"
       /\ Len(icap) \in {0, 1}
       /\ Len(icap) = 1 => /\ rcnfg_lock \in Procs
                           /\ Kind(th[rcnfg_lock]) = "wait" /\ ~wait_rcnfg
                           /\ icap[1].r = Head(th[rcnfg_lock]).r /\ icap[1].r \in dcpl
       /\ "nostart" \notin hz /\ rcnfg_lock # Free => InRcnfg(th[rcnfg_lock])
  /\ hz \cap {"signal", "nostart", "wrongbit"} = {} =>
       /\ rcnfg_lock = Free => dcpl = {}
       /\ rcnfg_lock # Free => dcpl \subseteq {Reg(th[rcnfg_lock])}
       /\ rcnfg_lock # Free /\ Kind(th[rcnfg_lock]) = "runlock" => dcpl = {}

IInv == TypeInv /\ MtxInv /\ BufInv /\ LockInv /\ BuffersAreKept

----------------------------------------------------------------------------
(* The rest of a call *)

(* What follows a step: the order of the system calls in getMem, freeMem,  *)
(* reconfigureApp and reconfigureShell.                                    *)
Follows(s, t) ==
  /\ Kind(s) = "mlock" => Kind(t) \in {"check", "free"}
  /\ Kind(s) = "check" => Kind(t) = "alloc"
  /\ Kind(s) = "alloc" => Kind(t) = "mmap"
  /\ Kind(s) = "mmap" => Kind(t) = "munlock"
  /\ Kind(s) = "free" => Kind(t) = "munlock"
  /\ Kind(s) = "munlock" => t = <<>> \/ Kind(t) = "dtor"
  /\ Kind(s) = "dtor" => t = <<>>
  /\ Kind(s) = "rlock" => IF RegOf(s) = -1 THEN Kind(t) = "remove"
                          ELSE Kind(t) = "start" /\ RegOf(t) = RegOf(s)
  /\ Kind(s) = "remove" => Kind(t) = "start" /\ RegOf(t) = -1
  /\ Kind(s) = "start" => Kind(t) = "wait" /\ RegOf(t) = RegOf(s)
  /\ Kind(s) = "wait" => IF RegOf(s) = -1 THEN Kind(t) = "runlock" ELSE t = <<>>
  /\ Kind(s) = "runlock" => t = <<>>

(* The fields of a step.                                                   *)
Fields(s) ==
  /\ Kind(s) \in {"rlock", "start", "wait"} => RegOf(s) \in Int
  /\ Kind(s) \in {"free", "start"} => BufOf(s) \in Nat
  /\ Kind(s) = "free" => Frees(s, BufOf(s))

(* Sequences.                                                              *)
LEMMA TakeFirst ==
  ASSUME NEW S, NEW s \in Seq(S), s # <<>>
  PROVE  Tail(s) \in Seq(S) /\ Len(Tail(s)) = Len(s) - 1
  OBVIOUS

(* Nothing is added.                                                       *)
LEMMA ConcatNothing ==
  ASSUME NEW S, NEW s \in Seq(S)
  PROVE  s \o <<>> = s /\ <<>> \o s = s
  OBVIOUS

(* A sequence without elements is empty.                                   *)
LEMMA NoElement ==
  ASSUME NEW S, NEW s \in Seq(S), Len(s) = 0
  PROVE  s = <<>>
  OBVIOUS

(* Sequences are equal when their elements are.                            *)
LEMMA SameElements ==
  ASSUME NEW S, NEW s \in Seq(S), NEW t \in Seq(S),
         Len(s) = Len(t), \A i \in 1 .. Len(s) : s[i] = t[i]
  PROVE  s = t
  OBVIOUS

(* The rest of getMem.                                                     *)
LEMMA GetSteps ==
  ASSUME NEW m \in BOOLEAN, NEW s \in GetRest(m)
  PROVE  /\ s # <<>> /\ s \in Seq(Steps)
         /\ Shape(Tail(s)) /\ Follows(s, Tail(s)) /\ Fields(s)
         /\ \A b : ~ Frees(s, b) /\ ~ Frees(Tail(s), b)
<1> DEFINE a1 == <<St("mlock"), St("check"), St("alloc"), MmapSt(m), St("munlock")>>
           a2 == <<St("check"), St("alloc"), MmapSt(m), St("munlock")>>
           a3 == <<St("alloc"), MmapSt(m), St("munlock")>>
           a4 == <<MmapSt(m), St("munlock")>>
           a5 == <<St("munlock")>>
<1>1. Tail(a1) = a2 /\ Tail(a2) = a3 /\ Tail(a3) = a4 /\ Tail(a4) = a5 /\ Tail(a5) = <<>>
  OBVIOUS
<1>2. Kind(a1) = "mlock" /\ Kind(a2) = "check" /\ Kind(a3) = "alloc"
      /\ Kind(a4) = "mmap" /\ Kind(a5) = "munlock" /\ Kind(<<>>) = "none"
  BY DEF Kind, St, MmapSt
<1>3. s \in {a1, a2, a3, a4, a5}
  BY DEF GetRest
<1>4. a1 \in Seq(Steps) /\ a2 \in Seq(Steps) /\ a3 \in Seq(Steps) /\ a4 \in Seq(Steps) /\ a5 \in Seq(Steps)
  <2>1. St("mlock") \in Steps /\ St("check") \in Steps /\ St("alloc") \in Steps /\ MmapSt(m) \in Steps /\ St("munlock") \in Steps
    BY DEF Steps
  <2> QED BY <2>1
<1>5. Shape(Tail(s))
  BY <1>1, <1>3 DEF Shape, GetRest
<1>6. Follows(s, Tail(s)) /\ Fields(s)
  <2> HIDE DEF a1, a2, a3, a4, a5
  <2> QED BY <1>1, <1>2, <1>3 DEF Follows, Fields
<1>7. \A b : ~ Frees(s, b) /\ ~ Frees(Tail(s), b)
  <2>1. \A b : St("mlock") # FreeSt(b) /\ St("check") # FreeSt(b) /\ St("alloc") # FreeSt(b) /\ MmapSt(m) # FreeSt(b) /\ St("munlock") # FreeSt(b)
    BY DEF FreeSt, St, MmapSt
  <2>2. \A b : ~ Frees(a1, b)
    BY <2>1 DEF Frees
  <2>3. \A b : ~ Frees(a2, b)
    BY <2>1 DEF Frees
  <2>4. \A b : ~ Frees(a3, b)
    BY <2>1 DEF Frees
  <2>5. \A b : ~ Frees(a4, b)
    BY <2>1 DEF Frees
  <2>6. \A b : ~ Frees(a5, b)
    BY <2>1 DEF Frees
  <2>7. \A b : ~ Frees(<<>>, b)
    BY DEF Frees
  <2> HIDE DEF a1, a2, a3, a4, a5
  <2> QED BY <1>1, <1>3, <2>2, <2>3, <2>4, <2>5, <2>6, <2>7
<1>10. s # <<>>
  <2>1. a1 # <<>> /\ a2 # <<>> /\ a3 # <<>> /\ a4 # <<>> /\ a5 # <<>>
    OBVIOUS
  <2> HIDE DEF a1, a2, a3, a4, a5
  <2> QED BY <1>3, <2>1
<1> QED BY <1>3, <1>4, <1>5, <1>10, <1>6, <1>7

(* The rest of freeMem, called by the destructor.                          *)
LEMMA FreeSteps ==
  ASSUME NEW n \in Nat, NEW s \in FreeRest(n)
  PROVE  /\ s # <<>> /\ s \in Seq(Steps)
         /\ Shape(Tail(s)) /\ Follows(s, Tail(s)) /\ Fields(s)
         /\ \A b : Frees(s, b) => b = n
         /\ \A b : Frees(Tail(s), b) => Frees(s, b)
<1> DEFINE a1 == <<St("mlock"), FreeSt(n), St("munlock"), St("dtor")>>
           a2 == <<FreeSt(n), St("munlock"), St("dtor")>>
           a3 == <<St("munlock"), St("dtor")>>
           a4 == <<St("dtor")>>
<1>1. Tail(a1) = a2 /\ Tail(a2) = a3 /\ Tail(a3) = a4 /\ Tail(a4) = <<>>
  OBVIOUS
<1>2. Kind(a1) = "mlock" /\ Kind(a2) = "free" /\ Kind(a3) = "munlock"
      /\ Kind(a4) = "dtor" /\ Kind(<<>>) = "none"
  BY DEF Kind, St, FreeSt
<1>3. s \in {a1, a2, a3, a4}
  BY DEF FreeRest
<1>4. a1 \in Seq(Steps) /\ a2 \in Seq(Steps) /\ a3 \in Seq(Steps) /\ a4 \in Seq(Steps)
  <2>1. St("mlock") \in Steps /\ FreeSt(n) \in Steps /\ St("munlock") \in Steps /\ St("dtor") \in Steps
    BY DEF Steps
  <2> QED BY <2>1
<1>5. Shape(Tail(s))
  BY <1>1, <1>3 DEF Shape, FreeRest
<1>6. Frees(a1, n) /\ Frees(a2, n) /\ BufOf(a2) = n
  BY DEF Frees, BufOf, St, FreeSt
<1>7. \A b : (Frees(a1, b) => b = n) /\ (Frees(a2, b) => b = n) /\ ~ Frees(a3, b) /\ ~ Frees(a4, b) /\ ~ Frees(<<>>, b)
  BY DEF Frees, St, FreeSt
<1>8. Follows(s, Tail(s)) /\ Fields(s)
  <2> HIDE DEF a1, a2, a3, a4
  <2> QED BY <1>1, <1>2, <1>3, <1>6 DEF Follows, Fields
<1>9. \A b : (Frees(s, b) => b = n) /\ (Frees(Tail(s), b) => Frees(s, b))
  <2> HIDE DEF a1, a2, a3, a4
  <2> QED BY <1>1, <1>3, <1>6, <1>7
<1>10. s # <<>>
  <2>1. a1 # <<>> /\ a2 # <<>> /\ a3 # <<>> /\ a4 # <<>>
    OBVIOUS
  <2> HIDE DEF a1, a2, a3, a4
  <2> QED BY <1>3, <2>1
<1> QED BY <1>3, <1>4, <1>5, <1>10, <1>8, <1>9

(* The rest of reconfigureApp.                                             *)
LEMMA AppSteps ==
  ASSUME NEW n \in Nat, NEW r \in Nat, NEW s \in AppRest(n, r)
  PROVE  /\ s # <<>> /\ s \in Seq(Steps)
         /\ Shape(Tail(s)) /\ Follows(s, Tail(s)) /\ Fields(s)
         /\ \A b : ~ Frees(s, b) /\ ~ Frees(Tail(s), b)
<1> DEFINE a1 == <<RlockSt(r), StartSt(n, r), WaitSt(r)>>
           a2 == <<StartSt(n, r), WaitSt(r)>>
           a3 == <<WaitSt(r)>>
<1>1. Tail(a1) = a2 /\ Tail(a2) = a3 /\ Tail(a3) = <<>>
  OBVIOUS
<1>2. Kind(a1) = "rlock" /\ Kind(a2) = "start" /\ Kind(a3) = "wait"
      /\ Kind(<<>>) = "none"
  BY DEF Kind, RlockSt, StartSt, WaitSt
<1>3. s \in {a1, a2, a3}
  BY DEF AppRest
<1>4. a1 \in Seq(Steps) /\ a2 \in Seq(Steps) /\ a3 \in Seq(Steps)
  <2>1. RlockSt(r) \in Steps /\ StartSt(n, r) \in Steps /\ WaitSt(r) \in Steps
    BY DEF Steps
  <2> QED BY <2>1
<1>5. Shape(Tail(s))
  BY <1>1, <1>3 DEF Shape, AppRest
<1>6. RegOf(a1) = r /\ RegOf(a2) = r /\ RegOf(a3) = r
      /\ BufOf(a2) = n
  BY DEF RegOf, BufOf, RlockSt, StartSt, WaitSt
<1>7. \A b : ~ Frees(s, b) /\ ~ Frees(Tail(s), b)
  <2>1. \A b : RlockSt(r) # FreeSt(b) /\ StartSt(n, r) # FreeSt(b) /\ WaitSt(r) # FreeSt(b)
    BY DEF FreeSt, RlockSt, StartSt, WaitSt
  <2>2. \A b : ~ Frees(a1, b)
    BY <2>1 DEF Frees
  <2>3. \A b : ~ Frees(a2, b)
    BY <2>1 DEF Frees
  <2>4. \A b : ~ Frees(a3, b)
    BY <2>1 DEF Frees
  <2>5. \A b : ~ Frees(<<>>, b)
    BY DEF Frees
  <2> HIDE DEF a1, a2, a3
  <2> QED BY <1>1, <1>3, <2>2, <2>3, <2>4, <2>5
<1>8. Follows(s, Tail(s)) /\ Fields(s)
  <2> HIDE DEF a1, a2, a3
  <2>1. Follows(a1, a2) /\ Fields(a1)
    BY <1>2, <1>6 DEF Follows, Fields
  <2>2. Follows(a2, a3) /\ Fields(a2)
    BY <1>2, <1>6 DEF Follows, Fields
  <2>3. Follows(a3, <<>>) /\ Fields(a3)
    BY <1>2, <1>6 DEF Follows, Fields
  <2> QED BY <1>1, <1>3, <2>1, <2>2, <2>3
<1>10. s # <<>>
  <2>1. a1 # <<>> /\ a2 # <<>> /\ a3 # <<>>
    OBVIOUS
  <2> HIDE DEF a1, a2, a3
  <2> QED BY <1>3, <2>1
<1> QED BY <1>3, <1>4, <1>5, <1>10, <1>7, <1>8

(* The rest of reconfigureShell.                                           *)
LEMMA ShellSteps ==
  ASSUME NEW n \in Nat, NEW s \in ShellRest(n)
  PROVE  /\ s # <<>> /\ s \in Seq(Steps)
         /\ Shape(Tail(s)) /\ Follows(s, Tail(s)) /\ Fields(s)
         /\ \A b : ~ Frees(s, b) /\ ~ Frees(Tail(s), b)
<1> DEFINE a1 == <<RlockSt(-1), St("remove"), StartSt(n, -1), WaitSt(-1), St("runlock")>>
           a2 == <<St("remove"), StartSt(n, -1), WaitSt(-1), St("runlock")>>
           a3 == <<StartSt(n, -1), WaitSt(-1), St("runlock")>>
           a4 == <<WaitSt(-1), St("runlock")>>
           a5 == <<St("runlock")>>
<1>1. Tail(a1) = a2 /\ Tail(a2) = a3 /\ Tail(a3) = a4 /\ Tail(a4) = a5 /\ Tail(a5) = <<>>
  OBVIOUS
<1>2. Kind(a1) = "rlock" /\ Kind(a2) = "remove" /\ Kind(a3) = "start"
      /\ Kind(a4) = "wait" /\ Kind(a5) = "runlock" /\ Kind(<<>>) = "none"
  BY DEF Kind, St, RlockSt, StartSt, WaitSt
<1>3. s \in {a1, a2, a3, a4, a5}
  BY DEF ShellRest
<1>4. a1 \in Seq(Steps) /\ a2 \in Seq(Steps) /\ a3 \in Seq(Steps) /\ a4 \in Seq(Steps) /\ a5 \in Seq(Steps)
  <2>1. RlockSt(-1) \in Steps /\ St("remove") \in Steps /\ StartSt(n, -1) \in Steps /\ WaitSt(-1) \in Steps /\ St("runlock") \in Steps
    BY DEF Steps
  <2> QED BY <2>1
<1>5. Shape(Tail(s))
  BY <1>1, <1>3 DEF Shape, ShellRest
<1>6. RegOf(a1) = -1 /\ RegOf(a3) = -1 /\ RegOf(a4) = -1
      /\ BufOf(a3) = n
  BY DEF RegOf, BufOf, St, RlockSt, StartSt, WaitSt
<1>7. \A b : ~ Frees(s, b) /\ ~ Frees(Tail(s), b)
  <2>1. \A b : RlockSt(-1) # FreeSt(b) /\ St("remove") # FreeSt(b) /\ StartSt(n, -1) # FreeSt(b) /\ WaitSt(-1) # FreeSt(b) /\ St("runlock") # FreeSt(b)
    BY DEF FreeSt, St, RlockSt, StartSt, WaitSt
  <2>2. \A b : ~ Frees(a1, b)
    BY <2>1 DEF Frees
  <2>3. \A b : ~ Frees(a2, b)
    BY <2>1 DEF Frees
  <2>4. \A b : ~ Frees(a3, b)
    BY <2>1 DEF Frees
  <2>5. \A b : ~ Frees(a4, b)
    BY <2>1 DEF Frees
  <2>6. \A b : ~ Frees(a5, b)
    BY <2>1 DEF Frees
  <2>7. \A b : ~ Frees(<<>>, b)
    BY DEF Frees
  <2> HIDE DEF a1, a2, a3, a4, a5
  <2> QED BY <1>1, <1>3, <2>2, <2>3, <2>4, <2>5, <2>6, <2>7
<1>8. Follows(s, Tail(s)) /\ Fields(s)
  <2> HIDE DEF a1, a2, a3, a4, a5
  <2>1. Follows(a1, a2) /\ Fields(a1)
    BY <1>2, <1>6 DEF Follows, Fields
  <2>2. Follows(a2, a3) /\ Fields(a2)
    BY <1>2, <1>6 DEF Follows, Fields
  <2>3. Follows(a3, a4) /\ Fields(a3)
    BY <1>2, <1>6 DEF Follows, Fields
  <2>4. Follows(a4, a5) /\ Fields(a4)
    BY <1>2, <1>6 DEF Follows, Fields
  <2>5. Follows(a5, <<>>) /\ Fields(a5)
    BY <1>2, <1>6 DEF Follows, Fields
  <2> QED BY <1>1, <1>3, <2>1, <2>2, <2>3, <2>4, <2>5
<1>10. s # <<>>
  <2>1. a1 # <<>> /\ a2 # <<>> /\ a3 # <<>> /\ a4 # <<>> /\ a5 # <<>>
    OBVIOUS
  <2> HIDE DEF a1, a2, a3, a4, a5
  <2> QED BY <1>3, <2>1
<1> QED BY <1>3, <1>4, <1>5, <1>10, <1>7, <1>8

(* The rest of a call after its next step is again the rest of a call.     *)
LEMMA RestStep ==
  ASSUME NEW s, Shape(s), s # <<>>
  PROVE  /\ Tail(s) \in Seq(Steps) /\ <<>> \o Tail(s) = Tail(s)
         /\ Shape(Tail(s)) /\ Follows(s, Tail(s)) /\ Fields(s)
         /\ \A b : Frees(Tail(s), b) => Frees(s, b)
<1>1. /\ s \in Seq(Steps) /\ Shape(Tail(s)) /\ Follows(s, Tail(s)) /\ Fields(s)
      /\ \A b : Frees(Tail(s), b) => Frees(s, b)
  <2>1. CASE \E m \in BOOLEAN : s \in GetRest(m) BY <2>1, GetSteps
  <2>2. CASE \E n \in Nat : s \in FreeRest(n) BY <2>2, FreeSteps
  <2>3. CASE \E n \in Nat, r \in Nat : s \in AppRest(n, r) BY <2>3, AppSteps
  <2>4. CASE \E n \in Nat : s \in ShellRest(n) BY <2>4, ShellSteps
  <2> QED BY <2>1, <2>2, <2>3, <2>4 DEF Shape
<1>2. Tail(s) \in Seq(Steps)
  BY <1>1, TakeFirst
<1>3. <<>> \o Tail(s) = Tail(s)
  BY <1>2, ConcatNothing
<1> QED BY <1>1, <1>2, <1>3

----------------------------------------------------------------------------
(* How a process moves *)

(* Nothing is left of a call.                                              *)
LEMMA Nothing ==
  Shape(<<>>) /\ <<>> \in Seq(Steps) /\ Kind(<<>>) = "none" /\ \A b : ~ Frees(<<>>, b)
BY DEF Shape, Kind, Frees

(* A process takes the next step of its call.                              *)
LEMMA Advance ==
  ASSUME TypeInv, NEW p \in Procs, th[p] # <<>>, Do(p, <<>>)
  PROVE  /\ th' \in [Procs -> Seq(Steps)] /\ \A q \in Procs : Shape(th'[q])
         /\ \A q \in Procs \ {p} : th'[q] = th[q]
         /\ Follows(th[p], th'[p]) /\ Fields(th[p])
         /\ \A q \in Procs : \A b : Frees(th'[q], b) => Frees(th[q], b)
<1>1. th'[p] = Tail(th[p]) /\ Tail(th[p]) \in Seq(Steps) /\ Shape(th'[p])
  BY RestStep DEF TypeInv, ThType, Do
<1>2. \A q \in Procs \ {p} : th'[q] = th[q]
  BY DEF TypeInv, ThType, Do
<1>3. th' \in [Procs -> Seq(Steps)]
  BY <1>1 DEF TypeInv, ThType, Do
<1>4. Follows(th[p], th'[p]) /\ Fields(th[p]) /\ \A b : Frees(th'[p], b) => Frees(th[p], b)
  BY <1>1, RestStep DEF TypeInv, ThType, DriverType, UserType, Objs
<1> QED BY <1>1, <1>2, <1>3, <1>4 DEF TypeInv, ThType, DriverType, UserType, Objs

(* A call ends early.                                                      *)
LEMMA Leave ==
  ASSUME TypeInv, NEW p \in Procs, th' = [th EXCEPT ![p] = <<>>]
  PROVE  /\ th' \in [Procs -> Seq(Steps)] /\ \A q \in Procs : Shape(th'[q])
         /\ \A q \in Procs \ {p} : th'[q] = th[q]
         /\ th'[p] = <<>>
         /\ \A q \in Procs : \A b : Frees(th'[q], b) => Frees(th[q], b)
BY Nothing DEF TypeInv, ThType, DriverType, UserType, Objs

(* A process that is at a step has one to do.                              *)
LEMMA AtStep ==
  ASSUME NEW p, NEW k, At(p, k)
  PROVE  th[p] # <<>> /\ Kind(th[p]) = k
BY DEF At, Kind

(* The calls a process may begin.                                          *)
LEMMA Begin ==
  ASSUME TypeInv, NEW p \in Procs, NEW c \in Calls(p)
  PROVE  /\ Shape(c) /\ c \in Seq(Steps) /\ c # <<>> /\ Kind(c) \in {"mlock", "rlock"}
         /\ \A b : ~ Frees(c, b)
<1>1. obj[p].mem \cup {0} \subseteq Nat /\ Regs(bd.known) \subseteq Nat
  <2>1. bd.known.reg \in Nat
    BY ShellsAssumption DEF TypeInv, ThType, DriverType, UserType, Objs, NoShell
  <2> QED BY <2>1 DEF TypeInv, ThType, DriverType, UserType, Objs, Regs
<1>2. CASE \E m \in BOOLEAN : c = getMem(m)
  <2> PICK m \in BOOLEAN : c = getMem(m) BY <1>2
  <2>1. c \in GetRest(m) BY DEF getMem, GetRest, MmapSt
  <2>2. Shape(c) BY <2>1 DEF Shape
  <2>3. Kind(c) = "mlock" BY DEF getMem, Kind, St
  <2> QED BY <2>1, <2>2, <2>3, GetSteps
<1>3. CASE \E b \in Nat, r \in Nat : c = <<RlockSt(r), StartSt(b, r), WaitSt(r)>>
  <2> PICK b \in Nat, r \in Nat : c = <<RlockSt(r), StartSt(b, r), WaitSt(r)>> BY <1>3
  <2>1. c \in AppRest(b, r) BY DEF AppRest
  <2>2. Shape(c) BY <2>1 DEF Shape
  <2>3. Kind(c) = "rlock" BY DEF Kind, RlockSt
  <2> QED BY <2>1, <2>2, <2>3, AppSteps
<1>4. CASE \E b \in Nat : c = <<RlockSt(-1), St("remove"), StartSt(b, -1), WaitSt(-1), St("runlock")>>
  <2> PICK b \in Nat : c = <<RlockSt(-1), St("remove"), StartSt(b, -1), WaitSt(-1), St("runlock")>> BY <1>4
  <2>1. c \in ShellRest(b) BY DEF ShellRest
  <2>2. Shape(c) BY <2>1 DEF Shape
  <2>3. Kind(c) = "rlock" BY DEF Kind, RlockSt
  <2> QED BY <2>1, <2>2, <2>3, ShellSteps
<1> QED BY <1>1, <1>2, <1>3, <1>4 DEF Calls, RlockSt, StartSt, WaitSt

(* A step after three others.                                              *)
LEMMA FourSteps ==
  ASSUME NEW S, NEW w \in S, NEW x \in S, NEW y \in S, NEW z \in S
  PROVE  Append(<<w, x, y>>, z) = <<w, x, y, z>>
<1> DEFINE d == <<w, x, y>>
           a == Append(d, z)
           c == <<w, x, y, z>>
<1>1. d \in Seq(S) /\ Len(d) = 3
  OBVIOUS
<1>2. a \in Seq(S) /\ Len(a) = 4 /\ a[1] = w /\ a[2] = x /\ a[3] = y /\ a[4] = z
  BY <1>1
<1>3. c \in Seq(S) /\ Len(c) = 4 /\ c[1] = w /\ c[2] = x /\ c[3] = y /\ c[4] = z
  OBVIOUS
<1> HIDE DEF a, c
<1>4. \A i \in 1 .. Len(a) : a[i] = c[i]
  BY <1>2, <1>3
<1>5. a = c
  BY <1>2, <1>3, <1>4, SameElements
<1> QED BY <1>5 DEF a, c

(* The destructor frees a buffer.                                          *)
LEMMA Destroys ==
  ASSUME NEW n \in Nat, NEW s, Shape(s), s # <<>>, Kind(s) = "dtor"
  PROVE  LET c == Append(freeMem(n), St("dtor")) \o Tail(s)
         IN  /\ Shape(c) /\ c \in Seq(Steps) /\ c # <<>> /\ Kind(c) = "mlock"
             /\ \A b : Frees(c, b) => b = n
<1> DEFINE c == <<St("mlock"), FreeSt(n), St("munlock"), St("dtor")>>
<1>1. Tail(s) = <<>>
  BY RestStep DEF Follows
<1>2. Append(freeMem(n), St("dtor")) = c
  <2>1. freeMem(n) = <<St("mlock"), FreeSt(n), St("munlock")>>
    BY DEF freeMem, FreeSt
  <2>2. St("mlock") \in Steps /\ FreeSt(n) \in Steps /\ St("munlock") \in Steps /\ St("dtor") \in Steps
    BY DEF Steps
  <2>3. Append(<<St("mlock"), FreeSt(n), St("munlock")>>, St("dtor")) = c
    BY <2>2, FourSteps
  <2> QED BY <2>1, <2>3
<1>3. c \in FreeRest(n)
  BY DEF FreeRest
<1>4. Shape(c)
  BY <1>3 DEF Shape
<1>5. c \o <<>> = c
  BY <1>3, FreeSteps, ConcatNothing
<1>6. Kind(c) = "mlock"
  BY DEF Kind, St
<1>7. c \in Seq(Steps) /\ c # <<>> /\ \A b : Frees(c, b) => b = n
  BY <1>3, FreeSteps
<1>8. Append(freeMem(n), St("dtor")) \o Tail(s) = c
  BY <1>1, <1>2, <1>5
<1> HIDE DEF c
<1> QED BY <1>4, <1>6, <1>7, <1>8

----------------------------------------------------------------------------
(* Types *)

(* The driver's own steps change nothing of the reconfiguration, and note  *)
(* nothing that its properties make an exception for.                      *)
Quiet ==
  /\ bd' \in [known : Shells \cup {NoShell}, inuse : BOOLEAN] /\ shell' \in Shells
  /\ \E h \in SUBSET {"leak", "inuse", "shellgone"} : hz' = hz \cup h
  /\ UNCHANGED rvars

(* Probing, removing and the stages of both are such steps.                *)
LEMMA DriverSteps ==
  ASSUME TypeInv,
         \/ Stage /\ UNCHANGED rvars
         \/ pci_probe /\ UNCHANGED rvars
         \/ pci_remove /\ UNCHANGED rvars
  PROVE  Quiet
<1> SUFFICES /\ bd' \in [known : Shells \cup {NoShell}, inuse : BOOLEAN] /\ shell' \in Shells
             /\ \E h \in SUBSET {"leak", "inuse", "shellgone"} : hz' = hz \cup h
  BY DEF Quiet
<1>0. hz = hz \cup {}
  OBVIOUS
<1>1. CASE Acquire
  <2>1. bd' = [bd EXCEPT !.known = Knows(Head(prog))] /\ hz' = hz /\ shell' = shell
    BY <1>1 DEF Acquire
  <2>2. Knows(Head(prog)) \in Shells \cup {NoShell}
    BY DEF TypeInv, DriverType, Knows
  <2> QED BY <2>1, <2>2, <1>0 DEF TypeInv, DriverType
<1>2. CASE Fail
  <2>1. bd' = [known |-> Knows(Head(prog)), inuse |-> (Head(prog) = "regions")] /\ shell' = shell
    BY <1>2 DEF Fail
  <2>2. Knows(Head(prog)) \in Shells \cup {NoShell}
    BY DEF TypeInv, DriverType, Knows
  <2>3. \E h \in SUBSET {"leak", "inuse", "shellgone"} : hz' = hz \cup h
    <3> PICK L \in Leaves(Head(prog), bd.known) :
          hz' = hz \cup (IF L \ (Of("bd_data") \cup Of("tlb_meta") \cup Each({"tlb_map"}, 0 .. 9)) # {}
                           THEN {"leak"} ELSE {})
                   \cup (IF Head(prog) = "regions" THEN {"inuse"} ELSE {})
      BY <1>2 DEF Fail
    <3> DEFINE h == (IF L \ (Of("bd_data") \cup Of("tlb_meta") \cup Each({"tlb_map"}, 0 .. 9)) # {}
                           THEN {"leak"} ELSE {})
                   \cup (IF Head(prog) = "regions" THEN {"inuse"} ELSE {})
    <3> WITNESS h \in SUBSET {"leak", "inuse", "shellgone"}
    <3> QED OBVIOUS
  <2> QED BY <2>1, <2>2, <2>3 DEF TypeInv, DriverType
<1>3. CASE Release
  <2>1. bd' = bd /\ shell' = shell
    BY <1>3 DEF Release
  <2>2. hz' = hz \/ hz' = hz \cup {"leak"}
    BY <1>3 DEF Release
  <2> QED BY <2>1, <2>2, <1>0 DEF TypeInv, DriverType
<1>4. CASE pci_probe
  BY <1>4, <1>0 DEF pci_probe, NoShell, TypeInv, DriverType
<1>5. CASE pci_remove
  <2>1. bd' = bd /\ shell' = shell /\ (hz' = hz \/ hz' = hz \cup {"shellgone"})
    BY <1>5 DEF pci_remove, ShellGone
  <2> QED BY <2>1, <1>0 DEF TypeInv, DriverType
<1> QED BY <1>1, <1>2, <1>3, <1>4, <1>5 DEF Stage

----------------------------------------------------------------------------
(* What a step of a process that does not touch it leaves valid *)

(* Process p moved; the others did not.                                    *)
Moved(p) ==
  /\ ThType'
  /\ \A q \in Procs \ {p} : th'[q] = th[q] /\ obj'[q] = obj[q]
  /\ hz \subseteq hz'

(* The mutex: p enters no section that it was not in.                      *)
LEMMA MtxKept ==
  ASSUME MtxInv, NEW p \in Procs, Moved(p), mtx' = mtx,
         obj'[p].open => obj[p].open /\ obj'[p].gen = obj[p].gen,
         th'[p] # <<>> => obj'[p].open,
         InMtx(th'[p]) => InMtx(th[p])
  PROVE  MtxInv'
<1>1. \A q \in Procs : th'[q] # <<>> => obj'[q].open
  BY DEF MtxInv, Moved
<1>2. \A q \in Procs : obj'[q].open => obj[q].open /\ obj'[q].gen = obj[q].gen
  BY DEF Moved
<1>3. \A q \in Procs : InMtx(th'[q]) => InMtx(th[q]) /\ th'[q] # <<>>
  BY DEF Moved, InMtx, Kind
<1>4. "split" \notin hz' => "split" \notin hz
  BY DEF Moved
<1>5. \A q \in Procs : obj'[q].open => obj'[q].gen \in 1 .. Len(mtx')
  BY <1>2 DEF MtxInv
<1>6. \A q \in Procs : InMtx(th'[q]) => mtx'[obj'[q].gen] = q
  BY <1>1, <1>2, <1>3 DEF MtxInv
<1>7. "split" \notin hz' =>
        \A q, r \in Procs : obj'[q].open /\ obj'[r].open => obj'[q].gen = obj'[r].gen
  <2> SUFFICES ASSUME "split" \notin hz', NEW q \in Procs, NEW r \in Procs, obj'[q].open, obj'[r].open
               PROVE  obj'[q].gen = obj'[r].gen
    OBVIOUS
  <2>1. obj[q].gen = obj[r].gen
    BY <1>2, <1>4 DEF MtxInv
  <2> QED BY <1>2, <2>1, Zenon
<1> QED BY <1>1, <1>5, <1>6, <1>7 DEF MtxInv

(* The buffers: p owns no buffer that it did not own before, and what is   *)
(* being loaded belongs to whoever holds the lock.                         *)
LEMMA BufMoved ==
  ASSUME BufInv, NEW p \in Procs, Moved(p), UNCHANGED buffs,
         Kind(th'[p]) = "alloc" => curr_buff.b = 0,
         \A b \in Nat : Mine(p, b)' => Mine(p, b),
         "split" \notin hz' /\ "signal" \notin hz' =>
           \A j \in 1 .. Len(icap') : \E e \in entries : e.b = icap'[j].b /\ e.p = rcnfg_lock'
  PROVE  BufInv'
<1>1. "split" \notin hz' => "split" \notin hz
  BY DEF Moved
<1>2. \A q \in Procs : \A b \in Nat : Mine(q, b)' => Mine(q, b)
  BY DEF Moved, Mine
<1>3. curr_buff' = curr_buff /\ entries' = entries /\ pages' = pages /\ nbuf' = nbuf
  BY DEF buffs
<1> SUFFICES ASSUME "split" \notin hz'
             PROVE  BufInv'
  BY DEF BufInv
<1>4. \A q \in Procs : Kind(th'[q]) = "alloc" => curr_buff'.b = 0
  BY <1>1, <1>3 DEF BufInv, Moved
<1>5. \A q \in Procs : \A b \in Nat : Mine(q, b)' => b \in 1 .. nbuf' /\ b # curr_buff'.b
  BY <1>1, <1>2, <1>3 DEF BufInv
<1>6. /\ curr_buff'.b = 0 => curr_buff' = None
      /\ pages' \subseteq 1 .. nbuf' /\ curr_buff'.b \in 0 .. nbuf'
      /\ curr_buff'.p \in Procs => curr_buff'.b \in pages'
      /\ \A e \in entries' : e.b = curr_buff'.b => e = curr_buff'
  BY <1>1, <1>3 DEF BufInv
<1>7. "signal" \notin hz' => \A j \in 1 .. Len(icap') : \E e \in entries' : e.b = icap'[j].b /\ e.p = rcnfg_lock'
  BY <1>3, Zenon
<1> QED BY <1>4, <1>5, <1>6, <1>7 DEF BufInv

(* The same when the hardware goes on with what it does.                   *)
LEMMA BufKept ==
  ASSUME BufInv, NEW p \in Procs, Moved(p), UNCHANGED <<buffs, icap>>,
         Kind(th'[p]) = "alloc" => curr_buff.b = 0,
         \A b \in Nat : Mine(p, b)' => Mine(p, b),
         rcnfg_lock' = rcnfg_lock \/ icap = <<>> \/ "signal" \in hz'
  PROVE  BufInv'
<1>1. ASSUME "split" \notin hz', "signal" \notin hz', NEW j \in 1 .. Len(icap')
      PROVE  \E e \in entries : e.b = icap'[j].b /\ e.p = rcnfg_lock'
  <2>1. "split" \notin hz /\ "signal" \notin hz /\ icap' = icap
    BY <1>1 DEF Moved
  <2>2. icap # <<>>
    BY <1>1, <2>1
  <2>3. rcnfg_lock' = rcnfg_lock
    BY <1>1, <2>2
  <2> QED BY <1>1, <2>1, <2>3 DEF BufInv
<1> QED BY <1>1, BufMoved

(* The properties of the buffers themselves.                               *)
LEMMA KeptKept ==
  ASSUME BuffersAreKept, UNCHANGED <<buffs, icap>>, hz \subseteq hz'
  PROVE  BuffersAreKept'
BY DEF BuffersAreKept, buffs

(* The lock: p is in no section of it.                                     *)
LEMMA LockKept ==
  ASSUME TypeInv, LockInv, NEW p \in Procs, Moved(p), UNCHANGED <<rcnfg_lock, hw>>,
         ~ InRcnfg(th[p]), ~ InRcnfg(th'[p])
  PROVE  LockInv'
<1>1. rcnfg_lock' = rcnfg_lock /\ wait_rcnfg' = wait_rcnfg /\ icap' = icap /\ dcpl' = dcpl
  BY DEF hw
<1>2. /\ "signal" \notin hz' => "signal" \notin hz
      /\ "nostart" \notin hz' => "nostart" \notin hz
      /\ "wrongbit" \notin hz' => "wrongbit" \notin hz
  BY DEF Moved
<1>3. /\ hz' \cap {"signal", "nostart", "wrongbit"} = {} <=>
            "signal" \notin hz' /\ "nostart" \notin hz' /\ "wrongbit" \notin hz'
      /\ hz \cap {"signal", "nostart", "wrongbit"} = {} <=>
            "signal" \notin hz /\ "nostart" \notin hz /\ "wrongbit" \notin hz
  OBVIOUS
<1>4. Kind(th[p]) # "wait"
  BY DEF InRcnfg
<1>5. ASSUME "signal" \notin hz'
      PROVE  /\ \A q \in Procs : InRcnfg(th'[q]) => rcnfg_lock' = q
             /\ wait_rcnfg' => rcnfg_lock' \in Procs /\ Kind(th'[rcnfg_lock']) = "wait"
             /\ Len(icap') \in {0, 1}
             /\ Len(icap') = 1 => /\ rcnfg_lock' \in Procs
                                  /\ Kind(th'[rcnfg_lock']) = "wait" /\ ~wait_rcnfg'
                                  /\ icap'[1].r = Head(th'[rcnfg_lock']).r /\ icap'[1].r \in dcpl'
             /\ "nostart" \notin hz' /\ rcnfg_lock' # Free => InRcnfg(th'[rcnfg_lock'])
  <2>1. \A q \in Procs : InRcnfg(th'[q]) => rcnfg_lock' = q
    BY <1>1, <1>2, <1>5 DEF LockInv, Moved
  <2>2. rcnfg_lock \in Procs /\ Kind(th[rcnfg_lock]) = "wait" => th'[rcnfg_lock] = th[rcnfg_lock]
    BY <1>4 DEF Moved
  <2>3. wait_rcnfg' => rcnfg_lock' \in Procs /\ Kind(th'[rcnfg_lock']) = "wait"
    BY <1>1, <1>2, <1>5, <2>2 DEF LockInv
  <2>4. Len(icap') \in {0, 1}
    BY <1>1, <1>2, <1>5 DEF LockInv
  <2>5. Len(icap') = 1 => /\ rcnfg_lock' \in Procs
                          /\ Kind(th'[rcnfg_lock']) = "wait" /\ ~wait_rcnfg'
                          /\ icap'[1].r = Head(th'[rcnfg_lock']).r /\ icap'[1].r \in dcpl'
    BY <1>1, <1>2, <1>5, <2>2 DEF LockInv
  <2>6. "nostart" \notin hz' /\ rcnfg_lock' # Free => InRcnfg(th'[rcnfg_lock'])
    BY <1>1, <1>2, <1>5 DEF LockInv, Moved, TypeInv, HwType
  <2> QED BY <2>1, <2>3, <2>4, <2>5, <2>6
<1>6. ASSUME hz' \cap {"signal", "nostart", "wrongbit"} = {}
      PROVE  /\ rcnfg_lock' = Free => dcpl' = {}
             /\ rcnfg_lock' # Free => dcpl' \subseteq {Reg(th'[rcnfg_lock'])}
             /\ rcnfg_lock' # Free /\ Kind(th'[rcnfg_lock']) = "runlock" => dcpl' = {}
  <2>1. hz \cap {"signal", "nostart", "wrongbit"} = {} /\ "signal" \notin hz /\ "nostart" \notin hz
    BY <1>2, <1>3, <1>6, Zenon
  <2>2. rcnfg_lock # Free => th'[rcnfg_lock] = th[rcnfg_lock]
    BY <2>1 DEF LockInv, Moved, TypeInv, HwType
  <2> QED BY <1>1, <2>1, <2>2 DEF LockInv
<1> QED BY <1>5, <1>6 DEF LockInv

(* A step outside the driver's buffers and its reconfiguration lock.       *)
LEMMA Apart ==
  ASSUME IInv, NEW p \in Procs, Moved(p), DriverType', UserType', MtxInv',
         UNCHANGED <<buffs, rcnfg_lock, hw>>,
         Kind(th'[p]) = "alloc" => curr_buff.b = 0,
         \A b \in Nat : Mine(p, b)' => Mine(p, b),
         ~ InRcnfg(th[p]), ~ InRcnfg(th'[p])
  PROVE  IInv'
<1>1. ThType' /\ hz \subseteq hz'
  BY DEF Moved
<1>2. BuffType' /\ HwType'
  BY DEF IInv, TypeInv, BuffType, HwType, buffs, hw
<1>3. UNCHANGED <<buffs, icap>> /\ rcnfg_lock' = rcnfg_lock
  BY DEF hw
<1>4. BufInv'
  BY <1>3, BufKept DEF IInv
<1>5. LockInv'
  BY LockKept DEF IInv
<1>6. BuffersAreKept'
  BY <1>1, <1>3, KeptKept DEF IInv
<1> QED BY <1>1, <1>2, <1>4, <1>5, <1>6 DEF IInv, TypeInv

----------------------------------------------------------------------------
(* Beginning and ending calls *)

(* The constructor.                                                        *)
LEMMA ConstructorStep ==
  ASSUME IInv, NEW p \in Procs, cRcnfg(p)
  PROVE  IInv'
<1> DEFINE o == [NoObj EXCEPT !.open = TRUE, !.gen = name', !.crid = crid_gen[p]]
<1>1. th[p] = <<>> /\ ~ obj[p].open /\ UNCHANGED <<driver, th, buffs, mem_lock, rcnfg_lock, hw>>
  BY DEF cRcnfg, Call
<1>2. obj' = [obj EXCEPT ![p] = o]
  BY DEF cRcnfg
<1>3. /\ name' \in 1 .. Len(mtx') /\ mtx' \in Seq(Procs \cup {Free})
      /\ Len(mtx) <= Len(mtx') /\ \A j \in 1 .. Len(mtx) : mtx'[j] = mtx[j]
  BY DEF cRcnfg, IInv, TypeInv, UserType
<1>4. UserType'
  <2>1. o \in Objs
    <3>1. NoObj \in Objs
      BY DEF NoObj, Objs
    <3>2. name' \in Nat /\ crid_gen[p] \in Nat
      BY <1>3 DEF IInv, TypeInv, UserType
    <3> QED BY <3>1, <3>2 DEF Objs
  <2> HIDE DEF o
  <2>2. crid_gen' \in [Procs -> Nat]
    BY DEF cRcnfg, IInv, TypeInv, UserType
  <2>3. obj' \in [Procs -> Objs]
    BY <1>2, <2>1 DEF IInv, TypeInv, UserType
  <2> QED BY <1>3, <2>2, <2>3 DEF UserType
<1>5. ThType' /\ BuffType' /\ HwType'
  BY <1>1 DEF IInv, TypeInv, ThType, BuffType, HwType, buffs, hw
<1>6. DriverType' /\ hz \subseteq hz'
  <2>1. hz' = hz \/ hz' = hz \cup {"split"}
    BY DEF cRcnfg, Noting
  <2>2. bd' = bd /\ shell' = shell
    BY <1>1 DEF driver
  <2> QED BY <2>1, <2>2 DEF IInv, TypeInv, DriverType
<1>7. obj'[p].gen = name' /\ obj'[p].mem = {} /\ \A q \in Procs \ {p} : obj'[q] = obj[q]
  <2>1. obj'[p] = o /\ \A q \in Procs \ {p} : obj'[q] = obj[q]
    BY <1>2 DEF IInv, TypeInv, UserType
  <2>2. o.gen = name' /\ o.mem = {}
    BY DEF NoObj
  <2> QED BY <2>1, <2>2
<1>8. Moved(p)
  BY <1>1, <1>5, <1>6, <1>7 DEF Moved
<1>9. MtxInv'
  <2>1. \A q \in Procs : th'[q] # <<>> => q # p
    BY <1>1
  <2>2. \A q \in Procs : th'[q] # <<>> => obj'[q].open
    BY <1>1, <1>7, <2>1 DEF IInv, MtxInv
  <2>3. \A q \in Procs : obj'[q].open => obj'[q].gen \in 1 .. Len(mtx')
    BY <1>3, <1>7 DEF IInv, MtxInv
  <2>4. \A q \in Procs : InMtx(th'[q]) => mtx'[obj'[q].gen] = q
    <3> SUFFICES ASSUME NEW q \in Procs, InMtx(th'[q]) PROVE mtx'[obj'[q].gen] = q
      OBVIOUS
    <3>1. InMtx(th[q]) /\ th[q] # <<>> /\ q # p
      BY <1>1 DEF InMtx, Kind
    <3>2. obj'[q] = obj[q] /\ mtx[obj[q].gen] = q /\ obj[q].gen \in 1 .. Len(mtx)
      BY <1>7, <3>1 DEF IInv, MtxInv
    <3> QED BY <1>3, <3>2
  <2>5. "split" \notin hz' =>
          \A q, r \in Procs : obj'[q].open /\ obj'[r].open => obj'[q].gen = obj'[r].gen
    <3> SUFFICES ASSUME "split" \notin hz' PROVE \A q \in Procs : obj'[q].open => obj'[q].gen = name'
      OBVIOUS
    <3>1. ~ \E q \in Procs \ {p} : obj[q].open /\ obj[q].gen # name'
      BY DEF cRcnfg, Noting
    <3> QED BY <1>7, <3>1
  <2> QED BY <2>2, <2>3, <2>4, <2>5 DEF MtxInv
<1>10. \A b \in Nat : Mine(p, b)' => Mine(p, b)
  BY <1>1, <1>7 DEF Mine
<1>11. Kind(th'[p]) # "alloc" /\ ~ InRcnfg(th[p]) /\ ~ InRcnfg(th'[p])
  BY <1>1 DEF Kind, InRcnfg
<1> QED BY <1>1, <1>4, <1>6, <1>8, <1>9, <1>10, <1>11, Apart

(* A call begins.                                                          *)
LEMMA CallStep ==
  ASSUME IInv, NEW p \in Procs, call(p)
  PROVE  IInv'
<1>1. th[p] = <<>> /\ obj[p].open /\ obj' = obj /\ mtx' = mtx
      /\ UNCHANGED <<driver, hz, crid_gen, name, buffs, mem_lock, rcnfg_lock, hw>>
  BY DEF call, Call
<1>2. PICK c \in Calls(p) : th' = [th EXCEPT ![p] = c]
  BY DEF call
<1>3. Shape(c) /\ c \in Seq(Steps) /\ c # <<>> /\ Kind(c) \in {"mlock", "rlock"} /\ \A b : ~ Frees(c, b)
  BY Begin DEF IInv
<1>4. th'[p] = c /\ (\A q \in Procs \ {p} : th'[q] = th[q]) /\ th' \in [Procs -> Seq(Steps)]
  BY <1>2, <1>3 DEF IInv, TypeInv, ThType
<1>5. ThType'
  BY <1>3, <1>4 DEF IInv, TypeInv, ThType
<1>6. Moved(p)
  BY <1>1, <1>4, <1>5 DEF Moved
<1>7. ~ InRcnfg(th[p]) /\ ~ InRcnfg(th'[p]) /\ ~ InMtx(th'[p]) /\ Kind(th'[p]) # "alloc"
  BY <1>1, <1>3, <1>4 DEF InRcnfg, InMtx, Kind
<1>8. MtxInv'
  BY <1>1, <1>6, <1>7, MtxKept DEF IInv
<1>9. UserType' /\ DriverType'
  BY <1>1 DEF IInv, TypeInv, UserType, DriverType, driver
<1>10. \A b \in Nat : Mine(p, b)' => Mine(p, b)
  BY <1>1, <1>3, <1>4 DEF Mine
<1> QED BY <1>1, <1>6, <1>7, <1>8, <1>9, <1>10, Apart

(* The destructor begins.                                                  *)
LEMMA DestroyStep ==
  ASSUME IInv, NEW p \in Procs, destroy(p)
  PROVE  IInv'
<1> DEFINE c == <<St("dtor")>>
<1>1. th[p] = <<>> /\ obj[p].open /\ obj' = obj /\ mtx' = mtx
      /\ UNCHANGED <<driver, hz, crid_gen, name, buffs, mem_lock, rcnfg_lock, hw>>
  BY DEF destroy, user
<1>2. th' = [th EXCEPT ![p] = c]
  BY DEF destroy
<1>3. Shape(c) /\ c \in Seq(Steps) /\ c # <<>> /\ Kind(c) = "dtor" /\ \A b : ~ Frees(c, b)
  <2>1. \A b \in Nat : c \in FreeRest(b)
    BY DEF FreeRest
  <2>2. \A b : Frees(c, b) => b = 0
    BY <2>1, FreeSteps
  <2>3. \A b : Frees(c, b) => b = 1
    BY <2>1, FreeSteps
  <2>4. Shape(c) /\ c \in Seq(Steps)
    BY <2>1, FreeSteps DEF Shape
  <2>5. Kind(c) = "dtor"
    BY DEF Kind, St
  <2> QED BY <2>2, <2>3, <2>4, <2>5
<1> HIDE DEF c
<1>4. th'[p] = c /\ (\A q \in Procs \ {p} : th'[q] = th[q]) /\ th' \in [Procs -> Seq(Steps)]
  BY <1>2, <1>3 DEF IInv, TypeInv, ThType
<1>5. ThType'
  BY <1>3, <1>4 DEF IInv, TypeInv, ThType
<1>6. Moved(p)
  BY <1>1, <1>4, <1>5 DEF Moved
<1>7. ~ InRcnfg(th[p]) /\ ~ InRcnfg(th'[p]) /\ ~ InMtx(th'[p]) /\ Kind(th'[p]) # "alloc"
  BY <1>1, <1>3, <1>4 DEF InRcnfg, InMtx, Kind
<1>8. MtxInv'
  BY <1>1, <1>6, <1>7, MtxKept DEF IInv
<1>9. UserType' /\ DriverType'
  BY <1>1 DEF IInv, TypeInv, UserType, DriverType, driver
<1>10. \A b \in Nat : Mine(p, b)' => Mine(p, b)
  BY <1>1, <1>3, <1>4 DEF Mine
<1> QED BY <1>1, <1>6, <1>7, <1>8, <1>9, <1>10, Apart

(* The destructor frees the next buffer, or is through.                    *)
LEMMA DtorStep ==
  ASSUME IInv, NEW p \in Procs, dtor(p)
  PROVE  IInv'
<1>1. /\ th[p] # <<>> /\ Kind(th[p]) = "dtor" /\ mtx' = mtx
      /\ UNCHANGED <<driver, hz, crid_gen, buffs, mem_lock, rcnfg_lock, hw>>
  BY AtStep DEF dtor
<1>2. obj[p].open /\ obj[p].mem \subseteq Nat /\ Shape(th[p])
  BY <1>1 DEF IInv, MtxInv, TypeInv, UserType, Objs, ThType
<1>3. CASE \E b \in obj[p].mem : /\ Do(p, Append(freeMem(b), St("dtor")))
                                 /\ obj' = [obj EXCEPT ![p].mem = @ \ {b}]
                                 /\ name' = name
  <2> PICK n \in obj[p].mem : /\ Do(p, Append(freeMem(n), St("dtor")))
                              /\ obj' = [obj EXCEPT ![p].mem = @ \ {n}]
                              /\ name' = name
    BY <1>3
  <2> DEFINE c == Append(freeMem(n), St("dtor")) \o Tail(th[p])
  <2>1. n \in Nat
    BY <1>2
  <2>2. Shape(c) /\ c \in Seq(Steps) /\ c # <<>> /\ Kind(c) = "mlock" /\ \A b : Frees(c, b) => b = n
    BY <1>1, <1>2, <2>1, Destroys
  <2>3. th' = [th EXCEPT ![p] = c]
    BY DEF Do
  <2> HIDE DEF c
  <2>4. th'[p] = c /\ (\A q \in Procs \ {p} : th'[q] = th[q]) /\ th' \in [Procs -> Seq(Steps)]
    BY <2>2, <2>3 DEF IInv, TypeInv, ThType
  <2>5. ThType'
    BY <2>2, <2>4 DEF IInv, TypeInv, ThType
  <2>6. /\ obj'[p].open = obj[p].open /\ obj'[p].gen = obj[p].gen /\ obj'[p].mem = obj[p].mem \ {n}
        /\ \A q \in Procs \ {p} : obj'[q] = obj[q]
        /\ obj' \in [Procs -> Objs]
    BY DEF IInv, TypeInv, UserType, Objs
  <2>7. Moved(p)
    BY <1>1, <2>4, <2>5, <2>6 DEF Moved
  <2>8. ~ InRcnfg(th[p]) /\ ~ InRcnfg(th'[p]) /\ ~ InMtx(th'[p]) /\ Kind(th'[p]) # "alloc"
    BY <1>1, <2>2, <2>4 DEF InRcnfg, InMtx
  <2>9. MtxInv'
    BY <1>1, <1>2, <2>6, <2>7, <2>8, MtxKept DEF IInv
  <2>10. UserType' /\ DriverType'
    BY <1>1, <2>6 DEF IInv, TypeInv, UserType, DriverType, driver
  <2>11. \A b \in Nat : Mine(p, b)' => Mine(p, b)
    BY <2>2, <2>4, <2>6 DEF Mine
  <2> QED BY <1>1, <2>7, <2>8, <2>9, <2>10, <2>11, Apart
<1>4. CASE obj' = [obj EXCEPT ![p] = NoObj] /\ name' = 0 /\ Do(p, <<>>)
  <2>1. /\ ThType' /\ (\A q \in Procs \ {p} : th'[q] = th[q]) /\ th'[p] = <<>>
        /\ \A b : Frees(th'[p], b) => Frees(th[p], b)
    BY <1>1, <1>4, Advance DEF IInv, ThType, Follows
  <2>2. /\ ~ obj'[p].open /\ obj'[p].mem = {}
        /\ \A q \in Procs \ {p} : obj'[q] = obj[q]
        /\ obj' \in [Procs -> Objs]
    BY <1>4 DEF IInv, TypeInv, UserType, Objs, NoObj
  <2>3. Moved(p)
    BY <1>1, <2>1, <2>2 DEF Moved
  <2>4. ~ InRcnfg(th[p]) /\ ~ InRcnfg(th'[p]) /\ ~ InMtx(th'[p]) /\ Kind(th'[p]) # "alloc"
    BY <1>1, <2>1, Nothing DEF InRcnfg, InMtx
  <2>5. MtxInv'
    BY <1>1, <2>1, <2>2, <2>3, <2>4, MtxKept DEF IInv
  <2>6. UserType' /\ DriverType'
    BY <1>1, <1>4, <2>2 DEF IInv, TypeInv, UserType, DriverType, driver
  <2>7. \A b \in Nat : Mine(p, b)' => Mine(p, b)
    BY <2>1, <2>2 DEF Mine
  <2> QED BY <1>1, <2>3, <2>4, <2>5, <2>6, <2>7, Apart
<1> QED BY <1>3, <1>4 DEF dtor

(* A process dies.                                                         *)
LEMMA KillStep ==
  ASSUME IInv, NEW p \in Procs, kill(p)
  PROVE  IInv'
<1>1. /\ obj' = [obj EXCEPT ![p] = NoObj] /\ th' = [th EXCEPT ![p] = <<>>] /\ mtx' = mtx
      /\ crid_gen' = [crid_gen EXCEPT ![p] = 0] /\ hz' = hz \cup {"killed"}
      /\ UNCHANGED <<driver, name, buffs, mem_lock, rcnfg_lock, hw>>
  BY DEF kill, Noting
<1>2. /\ ThType' /\ (\A q \in Procs \ {p} : th'[q] = th[q]) /\ th'[p] = <<>>
      /\ \A b : Frees(th'[p], b) => Frees(th[p], b)
  BY <1>1, Leave DEF IInv, ThType
<1>3. /\ ~ obj'[p].open /\ obj'[p].mem = {}
      /\ \A q \in Procs \ {p} : obj'[q] = obj[q]
      /\ obj' \in [Procs -> Objs]
  BY <1>1 DEF IInv, TypeInv, UserType, Objs, NoObj
<1>4. Moved(p)
  BY <1>1, <1>2, <1>3 DEF Moved
<1>5. ~ InRcnfg(th[p]) /\ ~ InRcnfg(th'[p]) /\ ~ InMtx(th'[p]) /\ Kind(th'[p]) # "alloc"
  BY <1>2, Nothing DEF kill, InRcnfg, InMtx, Kind
<1>6. MtxInv'
  BY <1>1, <1>2, <1>3, <1>4, <1>5, MtxKept DEF IInv
<1>7. UserType' /\ DriverType'
  BY <1>1, <1>3 DEF IInv, TypeInv, UserType, DriverType, driver
<1>8. \A b \in Nat : Mine(p, b)' => Mine(p, b)
  BY <1>2, <1>3 DEF Mine
<1> QED BY <1>1, <1>4, <1>5, <1>6, <1>7, <1>8, Apart

============================================================================
