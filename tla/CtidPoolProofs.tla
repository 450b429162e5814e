--------------------------- MODULE CtidPoolProofs ---------------------------
(***************************************************************************)
(* Proofs about the ctid pool, for any number of chunks, threads, host     *)
(* processes and hash buckets.                                             *)
(***************************************************************************)
EXTENDS CtidPool, FiniteSetTheorems, TLAPS

\* The time each prover has for a leaf that names none.
USE ZenonT(10), SMTT(60), ZenonT(60)

\* A remainder lies below the modulus.
LEMMA ModType ==
  ASSUME NEW x \in Int, NEW n \in Nat \ {0}
  PROVE  x % n \in 0 .. n - 1
  OBVIOUS

\* Small numbers are their own remainder.
LEMMA ModSmall ==
  ASSUME NEW x \in Nat, NEW n \in Nat \ {0}, x < n
  PROVE  x % n = x
  OBVIOUS

\* RefSize is a positive number.
LEMMA RefSizePositive == RefSize \in Nat \ {0}
<1>1. Cardinality(Threads) \in Nat
  BY PoolAssumption, FS_CardinalityType
<1>2. QED
  BY <1>1, PoolAssumption

-----------------------------------------------------------------------------
(* Type correctness. *)

\* The initial free list is well typed.
LEMMA InitType == Init => TypeOK
<1> SUFFICES ASSUME Init PROVE TypeOK
  OBVIOUS
<1>1. 0 \in Ctids /\ 0 \in 0 .. RefSize - 1
  BY PoolAssumption, RefSizePositive DEF Ctids
<1>2. next \in [Ctids -> Ctids \cup {None}]
  BY PoolAssumption DEF Init, Ctids, Tail
<1>3. ctid_list \in [Hpids -> [Ctids -> 0 .. MaxEntries]]
  BY PoolAssumption DEF Init
<1>4. QED
  BY <1>1, <1>2, <1>3 DEF Init, TypeOK, States

\* The IDs of the chunks are IDs.
LEMMA IdType == \A c \in Ctids : Id(c) \in Ctids
  BY PoolAssumption DEF Id, Ctids, Tail

\* Deleting one entry of an ID from a list (list_del in vfpga_dev_release), or
\* none when there is none left, keeps the number of entries within its bounds.
LEMMA OneEntryLess ==
  ASSUME NEW m \in 0 .. MaxEntries
  PROVE  (IF m = 0 THEN 0 ELSE m - 1) \in 0 .. MaxEntries
BY PoolAssumption

\* Lists keep their type when one count of one list is replaced.
LEMMA ListType ==
  ASSUME NEW lists \in [Hpids -> [Ctids -> 0 .. MaxEntries]],
         NEW h, NEW c, NEW n \in 0 .. MaxEntries
  PROVE  [lists EXCEPT ![h][c] = n] \in [Hpids -> [Ctids -> 0 .. MaxEntries]]
<1>1. ASSUME h \in Hpids
      PROVE  [lists[h] EXCEPT ![c] = n] \in [Ctids -> 0 .. MaxEntries]
  BY <1>1
<1>2. CASE h \in Hpids
  BY <1>1, <1>2
<1>3. CASE h \notin Hpids
  BY <1>3
<1>4. QED
  BY <1>2, <1>3

\* Every step keeps the types.
LEMMA NextType == TypeOK /\ [Next]_vars => TypeOK'
<1> SUFFICES ASSUME TypeOK, [Next]_vars PROVE TypeOK'
  OBVIOUS
<1> USE DEF TypeOK, States
<1>1. ASSUME NEW t \in Threads, OpenRead(t) PROVE TypeOK'
  BY <1>1 DEF OpenRead, Overlap
<1>2. ASSUME NEW t \in Threads, OpenWrite(t) PROVE TypeOK'
  <2>0. tmp[t] + 1 \in Int /\ 0 \in 0 .. RefSize - 1
    BY RefSizePositive
  <2>1. ref_cnt' \in 0 .. RefSize - 1
    BY <1>2, <2>0, ModType, RefSizePositive DEF OpenWrite
  <2>2. QED
    BY <1>2, <2>0, <2>1 DEF OpenWrite
<1>3. ASSUME NEW t \in Threads, Register(t) PROVE TypeOK'
  <2>1. CASE pid_alloc # None
    <3> DEFINE c == Id(pid_alloc)
    <3>1. c \in Ctids /\ HpidOf[t] \in Hpids
      BY <2>1, IdType, PoolAssumption
    <3>2. ctid_list[HpidOf[t]][c] + 1 \in 0 .. MaxEntries
      BY <1>3, <2>1, <3>1, PoolAssumption DEF Register
    <3>3. /\ ctid_list' = [ctid_list EXCEPT ![HpidOf[t]][c] = @ + 1]
          /\ ctid' = [ctid EXCEPT ![t] = c]
          /\ pid_array' = [pid_array EXCEPT ![c] = HpidOf[t]]
      BY <1>3, <2>1 DEF Register
    <3> HIDE DEF c
    <3>4. ctid_list' \in [Hpids -> [Ctids -> 0 .. MaxEntries]]
      <4> DEFINE n == ctid_list[HpidOf[t]][c] + 1
      <4>1. ctid_list' = [ctid_list EXCEPT ![HpidOf[t]][c] = n]
        BY <3>3
      <4> HIDE DEF n
      <4>2. n \in 0 .. MaxEntries
        BY <3>2 DEF n
      <4>3. QED
        BY <4>1, <4>2, ListType
    <3>5. ctid' \in [Threads -> Ctids] /\ pid_array' \in [Ctids -> Hpids \cup {None}]
      BY <3>1, <3>3
    <3>6. pid_lock' = pid_lock /\ pid_alloc' = next[pid_alloc]
          /\ pc' = [pc EXCEPT ![t] = "registered"]
          /\ seen' \subseteq {"overlap", "exhausted"}
      BY <1>3, <2>1 DEF Register
    <3>7. UNCHANGED <<tmp, ref_cnt, next, rel>>
      BY <1>3 DEF Register
    <3>8. QED
      BY <2>1, <3>4, <3>5, <3>6, <3>7
  <2>2. CASE pid_alloc = None
    <3>1. /\ pc' = [pc EXCEPT ![t] = "unregistered"]
          /\ UNCHANGED <<ctid, pid_array, ctid_list, pid_alloc, seen, tmp,
                         ref_cnt, next, rel>>
      BY <1>3, <2>2 DEF Register
    <3>2. pid_lock' \in BOOLEAN
      BY <1>3, <2>2 DEF Register
    <3>3. QED
      BY <3>1, <3>2
  <2>3. QED
    BY <2>1, <2>2
<1>4. ASSUME NEW t \in Threads, Unregister(t) PROVE TypeOK'
  <2>1. /\ next' \in [Ctids -> Ctids \cup {None}]
        /\ pid_alloc' \in Ctids \cup {None}
    BY <1>4 DEF Unregister
  <2>2. \/ ctid_list' = ctid_list
        \/ ctid_list' = [ctid_list EXCEPT ![pid_array[ctid[t]]][ctid[t]] = 0]
    BY <1>4 DEF Unregister
  <2>3. ctid_list' \in [Hpids -> [Ctids -> 0 .. MaxEntries]]
    <3>1. 0 \in 0 .. MaxEntries
      BY PoolAssumption
    <3>2. [ctid_list EXCEPT ![pid_array[ctid[t]]][ctid[t]] = 0]
            \in [Hpids -> [Ctids -> 0 .. MaxEntries]]
      BY <3>1, ListType
    <3>3. QED
      BY <2>2, <3>2
  <2>4. QED
    BY <1>4, <2>1, <2>3 DEF Unregister
<1>5. ASSUME NEW t \in Threads, CloseRead(t) PROVE TypeOK'
  <2>1. 0 \in Ctids
    BY PoolAssumption DEF Ctids
  <2>2. QED
    BY <1>5, <2>1 DEF CloseRead, Overlap
<1>6. ASSUME NEW t \in Threads, CloseWrite(t) PROVE TypeOK'
  <2>0. tmp[t] - 1 \in Int /\ 0 \in 0 .. RefSize - 1
    BY RefSizePositive
  <2>1. ref_cnt' \in 0 .. RefSize - 1
    BY <1>6, <2>0, ModType, RefSizePositive DEF CloseWrite
  <2> DEFINE todo == IF ref_cnt' = 0 THEN Buckets ELSE {}
  <2>2. rel' \in [Threads -> [todo : SUBSET Buckets, hpid : Hpids \cup {None},
                              linked : Ctids \cup {None}]]
    <3>1. rel' = [rel EXCEPT ![t].todo = todo] /\ todo \in SUBSET Buckets
      BY <1>6 DEF CloseWrite
    <3> HIDE DEF todo
    <3>2. QED
      BY <3>1
  <2>3. QED
    BY <1>6, <2>0, <2>1, <2>2 DEF CloseWrite
<1>7. ASSUME NEW t \in Threads, NEW h \in Hpids, ReleaseHpid(t, h) PROVE TypeOK'
  <2>1. rel' \in [Threads -> [todo : SUBSET Buckets, hpid : Hpids \cup {None},
                              linked : Ctids \cup {None}]]
    BY <1>7 DEF ReleaseHpid
  <2>2. QED
    BY <1>7, <2>1 DEF ReleaseHpid
<1>8. ASSUME NEW t \in Threads, NEW c \in Ctids, ReleaseLink(t, c) PROVE TypeOK'
  <2>1. rel' \in [Threads -> [todo : SUBSET Buckets, hpid : Hpids \cup {None},
                              linked : Ctids \cup {None}]]
    BY <1>8 DEF ReleaseLink
  <2>2. QED
    BY <1>8, <2>1 DEF ReleaseLink
<1>9. ASSUME NEW t \in Threads, ReleaseAdvance(t) PROVE TypeOK'
  <2> DEFINE h == rel[t].hpid
             c == rel[t].linked
             n == IF ctid_list[h][c] = 0 THEN 0 ELSE ctid_list[h][c] - 1
  <2>1. ctid_list' = [ctid_list EXCEPT ![h][c] = n]
    BY <1>9 DEF ReleaseAdvance
  <2>2. h \in Hpids => n \in 0 .. MaxEntries
    <3>1. c \in Ctids /\ h \in Hpids \cup {None}
      BY <1>9 DEF ReleaseAdvance
    <3>2. ASSUME h \in Hpids PROVE ctid_list[h][c] \in 0 .. MaxEntries
      BY <3>1, <3>2
    <3>3. QED
      BY <3>2, OneEntryLess
  <2>3. ctid_list' \in [Hpids -> [Ctids -> 0 .. MaxEntries]]
    <3> HIDE DEF h, c, n
    <3>1. CASE h \in Hpids
      BY <2>1, <2>2, <3>1, ListType
    <3>2. CASE h \notin Hpids
      BY <2>1, <3>2
    <3>3. QED
      BY <3>1, <3>2
  <2>4. rel' \in [Threads -> [todo : SUBSET Buckets, hpid : Hpids \cup {None},
                              linked : Ctids \cup {None}]]
    BY <1>9 DEF ReleaseAdvance
  <2>5. pid_alloc' \in Ctids \cup {None}
    BY <1>9 DEF ReleaseAdvance
  <2>6. QED
    BY <1>9, <2>3, <2>4, <2>5 DEF ReleaseAdvance
<1>10. ASSUME NEW t \in Threads, ReleaseNext(t) PROVE TypeOK'
  <2>1. rel' \in [Threads -> [todo : SUBSET Buckets, hpid : Hpids \cup {None},
                              linked : Ctids \cup {None}]]
    BY <1>10 DEF ReleaseNext
  <2>2. QED
    BY <1>10, <2>1 DEF ReleaseNext
<1>11. ASSUME NEW t \in Threads, ReleaseEnd(t) PROVE TypeOK'
  <2>1. rel' \in [Threads -> [todo : SUBSET Buckets, hpid : Hpids \cup {None},
                              linked : Ctids \cup {None}]]
    BY <1>11 DEF ReleaseEnd
  <2>2. QED
    BY <1>11, <2>1 DEF ReleaseEnd
<1>12. CASE UNCHANGED vars
  BY <1>12 DEF vars
<1>13. QED
  BY <1>1, <1>2, <1>3, <1>4, <1>5, <1>6, <1>7, <1>8, <1>9, <1>10, <1>11,
     <1>12 DEF Next, Release

\* Every variable of the pool stays within its type, chunk indices and
\* counts included.
THEOREM PoolTypeCorrect == Spec => []TypeOK
  BY InitType, NextType, PTL DEF Spec

-----------------------------------------------------------------------------
(* The reference count. *)

Opened == {t \in Threads :
             pc[t] \in {"open", "registered", "unregistered", "closing"}}

RefInv ==
  /\ \A t, u \in Inside : t = u
  /\ ref_cnt = Cardinality(Opened)
  /\ \A t \in Threads : pc[t] \in {"opening", "closing"} => tmp[t] = ref_cnt
  /\ \A t \in Threads : pc[t] = "releasing" => Opened = {}

\* The number of open descriptors fits into ref_cnt.
LEMMA OpenedFits ==
  ASSUME NEW S \in SUBSET Threads
  PROVE  IsFiniteSet(S) /\ Cardinality(S) \in Nat /\ Cardinality(S) < RefSize
<1>1. /\ IsFiniteSet(S)
      /\ Cardinality(S) <= Cardinality(Threads)
  BY PoolAssumption, FS_Subset
<1>2. Cardinality(S) \in Nat /\ Cardinality(Threads) \in Nat
  BY <1>1, PoolAssumption, FS_CardinalityType
<1>3. QED
  BY <1>1, <1>2, PoolAssumption

\* Without overlapping calls ref_cnt counts the open descriptors, and the
\* clean-up runs only when there is none.
LEMMA NextRefInv ==
  TypeOK /\ RefInv /\ [Next]_vars /\ seen' = {} => RefInv'
<1> SUFFICES ASSUME TypeOK, RefInv, [Next]_vars, seen' = {} PROVE RefInv'
  OBVIOUS
<1>0. Opened \in SUBSET Threads /\ Opened' \in SUBSET Threads
  BY DEF Opened
<1>1. ASSUME Opened' = Opened, ref_cnt' = ref_cnt, tmp' = tmp, Inside' \subseteq Inside,
             \A t \in Threads : pc'[t] \in {"opening", "closing", "releasing"} =>
               pc'[t] = pc[t]
      PROVE  RefInv'
  BY <1>1 DEF RefInv
<1>2. ASSUME NEW t \in Threads, OpenRead(t) PROVE RefInv'
  <2>1. Inside \subseteq {t}
    BY <1>2 DEF OpenRead, Overlap
  <2>2. /\ pc' = [pc EXCEPT ![t] = "opening"]
        /\ tmp' = [tmp EXCEPT ![t] = ref_cnt]
        /\ ref_cnt' = ref_cnt
        /\ pc[t] = "closed"
    BY <1>2 DEF OpenRead
  <2>3. Inside = {}
    BY <2>1, <2>2 DEF Inside
  <2>4. Opened' = Opened /\ Inside' = {t}
    BY <2>2, <2>3 DEF TypeOK, Opened, Inside
  <2>5. \A u \in Threads : pc'[u] \in {"opening", "closing", "releasing"} => u = t
    BY <2>4 DEF Inside
  <2>6. QED
    BY <2>2, <2>4, <2>5 DEF TypeOK, RefInv
<1>3. ASSUME NEW t \in Threads, OpenWrite(t) PROVE RefInv'
  <2>1. /\ pc' = [pc EXCEPT ![t] = "open"]
        /\ ref_cnt' = (tmp[t] + 1) % RefSize
        /\ pc[t] = "opening"
    BY <1>3 DEF OpenWrite
  <2>2. Inside = {t}
    BY <2>1 DEF Inside, RefInv
  <2>3. Inside' = {} /\ Opened' = Opened \cup {t} /\ t \notin Opened
    BY <2>1, <2>2 DEF TypeOK, Inside, Opened
  <2>4. Cardinality(Opened') = Cardinality(Opened) + 1
    BY <1>0, <2>3, OpenedFits, FS_AddElement
  <2>5. tmp[t] = Cardinality(Opened)
    BY <2>1 DEF RefInv
  <2>6. ref_cnt' = Cardinality(Opened')
    BY <1>0, <2>1, <2>4, <2>5, OpenedFits, ModSmall, RefSizePositive
  <2>7. \A u \in Threads : pc'[u] \notin {"opening", "closing", "releasing"}
    BY <2>3 DEF Inside
  <2>8. QED
    BY <2>3, <2>6, <2>7 DEF RefInv
<1>4. ASSUME NEW t \in Threads, Register(t) PROVE RefInv'
  <2>1. /\ pc[t] = "open"
        /\ \E s \in {"registered", "unregistered"} : pc' = [pc EXCEPT ![t] = s]
        /\ UNCHANGED <<tmp, ref_cnt>>
    BY <1>4 DEF Register
  <2>2. QED
    BY <1>1, <2>1 DEF TypeOK, Opened, Inside
<1>5. ASSUME NEW t \in Threads, Unregister(t) PROVE RefInv'
  <2>1. /\ pc[t] = "registered"
        /\ pc' = [pc EXCEPT ![t] = "unregistered"]
        /\ UNCHANGED <<tmp, ref_cnt>>
    BY <1>5 DEF Unregister
  <2>2. QED
    BY <1>1, <2>1 DEF TypeOK, Opened, Inside
<1>6. ASSUME NEW t \in Threads, CloseRead(t) PROVE RefInv'
  <2>1. Inside \subseteq {t}
    BY <1>6 DEF CloseRead, Overlap
  <2>2. /\ pc' = [pc EXCEPT ![t] = "closing"]
        /\ tmp' = [tmp EXCEPT ![t] = ref_cnt]
        /\ ref_cnt' = ref_cnt
        /\ pc[t] \in {"open", "registered", "unregistered"}
    BY <1>6 DEF CloseRead
  <2>3. Opened' = Opened /\ Inside' = {t}
    BY <2>1, <2>2 DEF TypeOK, Opened, Inside
  <2>4. \A u \in Threads : pc'[u] \in {"opening", "closing", "releasing"} => u = t
    BY <2>3 DEF Inside
  <2>5. QED
    BY <2>2, <2>3, <2>4 DEF TypeOK, RefInv
<1>7. ASSUME NEW t \in Threads, CloseWrite(t) PROVE RefInv'
  <2>1. /\ pc' = [pc EXCEPT ![t] = IF ref_cnt' = 0 THEN "releasing" ELSE "closed"]
        /\ ref_cnt' = (tmp[t] - 1) % RefSize
        /\ pc[t] = "closing"
    BY <1>7 DEF CloseWrite
  <2>2. Inside = {t}
    BY <2>1 DEF Inside, RefInv
  <2>3. Inside' \subseteq {t} /\ Opened' = Opened \ {t} /\ t \in Opened
    BY <2>1, <2>2 DEF TypeOK, Inside, Opened
  <2>4. Cardinality(Opened') = Cardinality(Opened) - 1
    BY <1>0, <2>3, OpenedFits, FS_RemoveElement
  <2>5. tmp[t] = Cardinality(Opened)
    BY <2>1 DEF RefInv
  <2>6. ref_cnt' = Cardinality(Opened')
    BY <1>0, <2>1, <2>4, <2>5, OpenedFits, ModSmall, RefSizePositive
  <2>7. ref_cnt' = 0 => Opened' = {}
    BY <1>0, <2>6, OpenedFits, FS_EmptySet
  <2>8. \A u \in Threads : /\ pc'[u] \notin {"opening", "closing"}
                           /\ pc'[u] = "releasing" => u = t /\ ref_cnt' = 0
    BY <2>1, <2>2 DEF TypeOK, Inside
  <2>9. QED
    BY <2>3, <2>6, <2>7, <2>8 DEF RefInv
<1>8. ASSUME NEW t \in Threads, Release(t) PROVE RefInv'
  <2>1. CASE ReleaseEnd(t)
    <3>1. pc[t] = "releasing" /\ pc' = [pc EXCEPT ![t] = "closed"]
          /\ UNCHANGED <<tmp, ref_cnt>>
      BY <2>1 DEF ReleaseEnd
    <3>2. QED
      BY <1>1, <3>1 DEF TypeOK, Opened, Inside
  <2>2. CASE ~ReleaseEnd(t)
    <3>1. UNCHANGED <<pc, tmp, ref_cnt>>
      BY <1>8, <2>2 DEF Release, ReleaseHpid, ReleaseLink, ReleaseAdvance,
                        ReleaseNext
    <3>2. QED
      BY <1>1, <3>1 DEF Opened, Inside
  <2>3. QED
    BY <2>1, <2>2
<1>9. CASE UNCHANGED vars
  BY <1>1, <1>9 DEF vars, Opened, Inside
<1>10. QED
  BY <1>2, <1>3, <1>4, <1>5, <1>6, <1>7, <1>8, <1>9 DEF Next

-----------------------------------------------------------------------------
(* The free list. A chunk is free when no list carries its ID. The links of  *)
(* the free chunks stay among them, no two meet, and none leads back to the  *)
(* head; so popping the head and pushing a used chunk keep the list apart    *)
(* from the IDs in use.                                                      *)

Free == Ctids \ InUse

ListInv ==
  \A h \in Hpids, c \in Ctids : ctid_list[h][c] > 0 =>
    /\ ctid_list[h][c] = 1
    /\ pid_array[c] = h
    /\ c # Tail

HolderInv ==
  /\ \A t \in Registered : ctid_list[HpidOf[t]][ctid[t]] > 0
  /\ CtidsAreUnique

FreeInv ==
  /\ pid_alloc \in Free
  /\ next[Tail] = None
  /\ \A c \in Free \ {Tail} : next[c] \in Free \ {pid_alloc}
  /\ \A c, d \in Free : next[c] = next[d] => c = d

LinkInv ==
  \A t \in Threads : rel[t].linked # None =>
    /\ pc[t] = "releasing"
    /\ rel[t].hpid \in Hpids
    /\ ctid_list[rel[t].hpid][rel[t].linked] > 0
    /\ next[rel[t].linked] = pid_alloc

PoolInv == ListInv /\ HolderInv /\ FreeInv /\ LinkInv /\ ~pid_lock

\* A push: an ID leaves its list and its chunk becomes the head.
LEMMA PushFree ==
  ASSUME TypeOK, FreeInv, NEW c \in InUse, c # Tail, Free' = Free \cup {c},
         next' \in [Ctids -> Ctids \cup {None}],
         pid_alloc' = c, next'[c] = pid_alloc,
         \A d \in Ctids : d # c => next'[d] = next[d]
  PROVE  FreeInv'
<1>1. c \notin Free /\ c \in Ctids /\ Free \subseteq Ctids
  BY DEF Free, InUse
<1>2. pid_alloc \in Free /\ None \notin Ctids
  BY PoolAssumption DEF FreeInv, Ctids
<1>3. Tail \in Ctids
  BY PoolAssumption DEF Ctids, Tail
<1>4. ASSUME NEW d \in Free PROVE next'[d] = next[d] /\ next[d] # pid_alloc /\ next[d] # c
  <2>1. CASE d = Tail
    BY <1>1, <1>2, <1>3, <2>1 DEF FreeInv
  <2>2. CASE d # Tail
    BY <1>1, <1>4, <2>2 DEF FreeInv
  <2>3. QED
    BY <2>1, <2>2
<1>5. next'[Tail] = None
  BY <1>3 DEF FreeInv
<1>6. ASSUME NEW d \in Free' \ {Tail} PROVE next'[d] \in Free' \ {c}
  <2>1. CASE d = c
    BY <1>1, <1>2, <2>1
  <2>2. CASE d # c
    BY <1>4, <1>6, <2>2 DEF FreeInv
  <2>3. QED
    BY <2>1, <2>2
<1>7. ASSUME NEW d \in Free', NEW e \in Free', next'[d] = next'[e] PROVE d = e
  BY <1>4, <1>7 DEF FreeInv
<1>8. QED
  BY <1>5, <1>6, <1>7 DEF FreeInv

\* A pop: the head's ID enters a list and its successor becomes the head.
LEMMA PopFree ==
  ASSUME FreeInv, pid_alloc # Tail, Free' = Free \ {pid_alloc}, next' = next,
         pid_alloc' = next[pid_alloc]
  PROVE  FreeInv'
  BY DEF FreeInv

\* Lists that stay as they are keep the free list as it is.
LEMMA SameFree ==
  ASSUME FreeInv, ctid_list' = ctid_list, pid_alloc' = pid_alloc,
         \A c \in Free \cup {Tail} : next'[c] = next[c]
  PROVE  FreeInv'
<1>1. Free' = Free
  BY DEF Free, InUse
<1>2. QED
  BY <1>1 DEF FreeInv

\* Clearing the one entry of an ID takes the ID out of use.
LEMMA ClearEntry ==
  ASSUME TypeOK, ListInv, NEW h \in Hpids, NEW c \in Ctids,
         ctid_list[h][c] > 0, ctid_list' = [ctid_list EXCEPT ![h][c] = 0],
         pid_array' = pid_array
  PROVE  /\ ListInv'
         /\ c \in InUse /\ c # Tail
         /\ Free' = Free \cup {c}
         /\ \A g \in Hpids, d \in Ctids : d # c => ctid_list'[g][d] = ctid_list[g][d]
<1>1. \A g \in Hpids, d \in Ctids :
        ctid_list'[g][d] = IF g = h /\ d = c THEN 0 ELSE ctid_list[g][d]
  BY DEF TypeOK
<1>2. \A g \in Hpids : ctid_list[g][c] > 0 => g = h
  BY DEF ListInv
<1>3. \A g \in Hpids : ~(ctid_list'[g][c] > 0)
  BY <1>1, <1>2 DEF TypeOK
<1>4. ListInv'
  BY <1>1 DEF ListInv, TypeOK
<1>5. c \in InUse /\ c # Tail
  BY DEF ListInv, InUse
<1>6. InUse' = InUse \ {c}
  BY <1>1, <1>3 DEF InUse
<1>7. QED
  BY <1>1, <1>4, <1>5, <1>6 DEF Free

\* Every step keeps the pool consistent, unless it pops the last chunk or
\* overlaps another open or release.
LEMMA NextPoolInv ==
  TypeOK /\ RefInv /\ PoolInv /\ [Next]_vars /\ seen' = {} => PoolInv'
<1> SUFFICES ASSUME TypeOK, RefInv, PoolInv, [Next]_vars, seen' = {} PROVE PoolInv'
  OBVIOUS
<1>0. Tail \in Ctids /\ None \notin Ctids /\ None \notin Hpids
  BY PoolAssumption DEF Ctids, Tail
<1>1. ASSUME UNCHANGED <<pid_alloc, next, pid_array, ctid_list, pid_lock>>,
             \A t \in Registered' : t \in Registered /\ ctid'[t] = ctid[t],
             \A t \in Threads : rel'[t].linked # None =>
               /\ rel[t].linked # None
               /\ pc'[t] = "releasing"
               /\ rel'[t].linked = rel[t].linked
               /\ rel'[t].hpid = rel[t].hpid
      PROVE  PoolInv'
  <2>1. ListInv' /\ FreeInv'
    BY <1>1, SameFree DEF PoolInv, ListInv
  <2>2. HolderInv'
    BY <1>1 DEF PoolInv, HolderInv, CtidsAreUnique
  <2>3. LinkInv'
    BY <1>1 DEF PoolInv, LinkInv
  <2>4. QED
    BY <1>1, <2>1, <2>2, <2>3 DEF PoolInv
<1>2. ASSUME NEW t \in Threads, NEW s \in States, pc[t] # "releasing",
             s # "registered", pc' = [pc EXCEPT ![t] = s],
             \A u \in Threads : u # t => ctid'[u] = ctid[u],
             rel' = rel, UNCHANGED <<pid_alloc, next, pid_array, ctid_list, pid_lock>>
      PROVE  PoolInv'
  <2>1. \A u \in Registered' : u \in Registered /\ ctid'[u] = ctid[u]
    BY <1>2 DEF TypeOK, Registered
  <2>2. \A u \in Threads : rel[u].linked # None => pc'[u] = "releasing"
    BY <1>2 DEF TypeOK, PoolInv, LinkInv
  <2>3. QED
    BY <1>1, <1>2, <2>1, <2>2
<1>3. ASSUME NEW t \in Threads, OpenRead(t) \/ OpenWrite(t) PROVE PoolInv'
  BY <1>2, <1>3 DEF OpenRead, OpenWrite, States
<1>4. ASSUME NEW t \in Threads, Register(t) PROVE PoolInv'
  <2> DEFINE c == pid_alloc
             h == HpidOf[t]
  <2>1. c \in Free /\ c \in Ctids /\ c # None /\ h \in Hpids
    BY <1>0, PoolAssumption DEF PoolInv, FreeInv, Free
  <2>2. c # Tail
    BY <1>4, <2>1 DEF Register
  <2>3. Id(c) = c
    BY <2>2 DEF Id
  <2>4. /\ pc[t] = "open"
        /\ pc' = [pc EXCEPT ![t] = "registered"]
        /\ ctid' = [ctid EXCEPT ![t] = c]
        /\ pid_array' = [pid_array EXCEPT ![c] = h]
        /\ ctid_list' = [ctid_list EXCEPT ![h][c] = @ + 1]
        /\ pid_alloc' = next[c]
        /\ next' = next /\ rel' = rel /\ pid_lock' = pid_lock
    BY <1>4, <2>1, <2>3 DEF Register
  <2> HIDE DEF c, h
  <2>5. \A g \in Hpids : ctid_list[g][c] = 0
    BY <2>1 DEF Free, InUse, TypeOK
  <2>6. \A g \in Hpids, d \in Ctids :
          ctid_list'[g][d] = IF g = h /\ d = c THEN 1 ELSE ctid_list[g][d]
    BY <2>1, <2>4, <2>5 DEF TypeOK
  <2>7. \A d \in Ctids : pid_array'[d] = IF d = c THEN h ELSE pid_array[d]
    BY <2>4 DEF TypeOK
  <2>8. ListInv'
    BY <2>2, <2>5, <2>6, <2>7 DEF PoolInv, ListInv
  <2>9. InUse' = InUse \cup {c}
    BY <2>1, <2>5, <2>6 DEF InUse
  <2>10. FreeInv'
    <3>1. Free' = Free \ {c}
      BY <2>9 DEF Free
    <3>2. QED
      BY <2>2, <2>4, <3>1, PopFree DEF PoolInv, c
  <2>11. \A u \in Registered' : \/ u = t /\ ctid'[u] = c
                                \/ u # t /\ u \in Registered /\ ctid'[u] = ctid[u]
    BY <2>4 DEF TypeOK, Registered
  <2>12. \A u \in Registered : ctid[u] # c /\ HpidOf[u] \in Hpids /\ ctid[u] \in Ctids
    <3>1. \A u \in Registered : HpidOf[u] \in Hpids /\ ctid[u] \in Ctids
      BY PoolAssumption DEF Registered, TypeOK
    <3>2. QED
      BY <2>5, <3>1 DEF PoolInv, HolderInv
  <2>13. HolderInv'
    <3>1. \A u \in Registered' : ctid_list'[HpidOf[u]][ctid'[u]] > 0
      BY <2>1, <2>6, <2>11, <2>12 DEF PoolInv, HolderInv, h
    <3>2. CtidsAreUnique'
      BY <2>11, <2>12 DEF PoolInv, HolderInv, CtidsAreUnique
    <3>3. QED
      BY <3>1, <3>2 DEF HolderInv
  <2>14. \A u \in Threads : pc[u] # "releasing"
    BY <2>4 DEF RefInv, Opened
  <2>15. LinkInv'
    BY <2>4, <2>14 DEF PoolInv, LinkInv
  <2>16. QED
    BY <2>4, <2>8, <2>10, <2>13, <2>15 DEF PoolInv
<1>5. ASSUME NEW t \in Threads, Unregister(t) PROVE PoolInv'
  <2> DEFINE c == ctid[t]
             h == HpidOf[t]
  <2>1. pc[t] = "registered" /\ t \in Registered /\ c \in Ctids /\ h \in Hpids
    BY <1>5, PoolAssumption DEF Unregister, Registered, TypeOK
  <2>2. ctid_list[h][c] > 0 /\ ctid_list[h][c] = 1 /\ pid_array[c] = h
    BY <2>1 DEF PoolInv, HolderInv, ListInv
  <2>3. ctid_list[h][c] # 0
    BY <2>2
  <2>4. /\ pc' = [pc EXCEPT ![t] = "unregistered"]
        /\ next' = [next EXCEPT ![c] = pid_alloc]
        /\ pid_alloc' = c
        /\ ctid_list' = [ctid_list EXCEPT ![h][c] = 0]
        /\ UNCHANGED <<ctid, pid_array, pid_lock, rel>>
    BY <1>5, <2>2, <2>3 DEF Unregister
  <2>5. /\ ListInv'
        /\ c \in InUse /\ c # Tail
        /\ Free' = Free \cup {c}
        /\ \A g \in Hpids, d \in Ctids : d # c => ctid_list'[g][d] = ctid_list[g][d]
    BY <2>1, <2>2, <2>4, ClearEntry DEF PoolInv
  <2>6. FreeInv'
    <3>1. /\ next' \in [Ctids -> Ctids \cup {None}]
          /\ next'[c] = pid_alloc
          /\ \A d \in Ctids : d # c => next'[d] = next[d]
      BY <2>1, <2>4 DEF TypeOK
    <3> HIDE DEF c
    <3>2. QED
      BY <2>4, <2>5, <3>1, PushFree DEF PoolInv
  <2>7. \A u \in Registered' : u \in Registered /\ u # t /\ ctid'[u] = ctid[u]
    BY <2>4 DEF TypeOK, Registered
  <2>8. HolderInv'
    <3>1. \A u \in Registered' : ctid[u] # c /\ HpidOf[u] \in Hpids /\ ctid[u] \in Ctids
      BY <2>1, <2>7, PoolAssumption
         DEF PoolInv, HolderInv, CtidsAreUnique, Registered, TypeOK
    <3>2. QED
      BY <2>5, <2>7, <3>1 DEF PoolInv, HolderInv, CtidsAreUnique
  <2>9. \A u \in Threads : pc[u] # "releasing"
    BY <2>1 DEF RefInv, Opened
  <2>10. LinkInv'
    BY <2>4, <2>9 DEF PoolInv, LinkInv
  <2>11. QED
    BY <2>4, <2>5, <2>6, <2>8, <2>10 DEF PoolInv
<1>6. ASSUME NEW t \in Threads, CloseRead(t) PROVE PoolInv'
  <2>1. \A u \in Threads : u # t => ctid'[u] = ctid[u]
    BY <1>6 DEF CloseRead, TypeOK
  <2>2. QED
    BY <1>2, <1>6, <2>1 DEF CloseRead, States
<1>7. ASSUME NEW t \in Threads, CloseWrite(t) PROVE PoolInv'
  <2>1. pc[t] = "closing" /\ rel[t].linked = None
    BY <1>7 DEF CloseWrite, PoolInv, LinkInv
  <2>2. /\ UNCHANGED <<ctid, pid_alloc, next, pid_array, ctid_list, pid_lock>>
        /\ \E s \in {"releasing", "closed"} : pc' = [pc EXCEPT ![t] = s]
        /\ \E b : rel' = [rel EXCEPT ![t].todo = b]
    BY <1>7 DEF CloseWrite
  <2>3. \A u \in Threads : /\ rel'[u].linked = rel[u].linked
                           /\ rel'[u].hpid = rel[u].hpid
    BY <2>2 DEF TypeOK
  <2>4. \A u \in Registered' : u \in Registered
    BY <2>2 DEF TypeOK, Registered
  <2>5. \A u \in Threads : rel[u].linked # None => u # t /\ pc'[u] = "releasing"
    BY <2>1, <2>2 DEF TypeOK, PoolInv, LinkInv
  <2>6. QED
    BY <1>1, <2>2, <2>3, <2>4, <2>5
<1>8. ASSUME NEW t \in Threads, pc[t] = "releasing"
      PROVE  /\ Registered = {}
             /\ \A u \in Threads : u # t => rel[u].linked = None
  <2>1. Registered = {}
    BY <1>8 DEF RefInv, Opened, Registered
  <2>2. QED
    BY <1>8, <2>1 DEF RefInv, Inside, PoolInv, LinkInv
<1>9. ASSUME NEW t \in Threads, NEW h \in Hpids, ReleaseHpid(t, h) PROVE PoolInv'
  <2>1. /\ pc[t] = "releasing" /\ rel[t].hpid = None
        /\ rel' = [rel EXCEPT ![t].hpid = h, ![t].todo = @ \ {BucketOf[h]}]
        /\ UNCHANGED <<pc, ctid, pid_alloc, next, pid_array, ctid_list, pid_lock>>
    BY <1>9 DEF ReleaseHpid
  <2>2. rel[t].linked = None
    BY <1>0, <2>1 DEF PoolInv, LinkInv
  <2>3. \A u \in Threads : /\ rel'[u].linked = rel[u].linked
                           /\ u # t => rel'[u].hpid = rel[u].hpid
    BY <2>1 DEF TypeOK
  <2>4. \A u \in Threads : rel'[u].linked = None
    BY <1>8, <2>1, <2>2, <2>3
  <2>5. QED
    BY <1>1, <2>1, <2>4 DEF Registered
<1>10. ASSUME NEW t \in Threads, NEW c \in Ctids, ReleaseLink(t, c) PROVE PoolInv'
  <2> DEFINE h == rel[t].hpid
  <2>1. /\ pc[t] = "releasing" /\ h # None
        /\ ctid_list[h][c] > 0
        /\ next' = [next EXCEPT ![c] = pid_alloc]
        /\ rel' = [rel EXCEPT ![t].linked = c]
        /\ UNCHANGED <<pc, ctid, pid_alloc, pid_array, ctid_list, pid_lock>>
    BY <1>10 DEF ReleaseLink
  <2>2. h \in Hpids
    BY <2>1 DEF TypeOK
  <2>3. c \in InUse /\ c # Tail
    BY <2>1, <2>2 DEF InUse, PoolInv, ListInv
  <2>4. \A d \in Free \cup {Tail} : next'[d] = next[d]
    BY <1>0, <2>1, <2>3 DEF TypeOK, Free
  <2>5. ListInv' /\ FreeInv'
    BY <2>1, <2>4, SameFree DEF PoolInv, ListInv
  <2>6. HolderInv'
    BY <2>1 DEF PoolInv, HolderInv, CtidsAreUnique, Registered
  <2>7. /\ rel'[t].linked = c /\ rel'[t].hpid = h
        /\ \A u \in Threads : u # t => rel'[u] = rel[u]
        /\ next'[c] = pid_alloc
    BY <2>1 DEF TypeOK
  <2>8. LinkInv'
    BY <1>8, <2>1, <2>2, <2>7 DEF LinkInv
  <2>9. QED
    BY <2>1, <2>5, <2>6, <2>8 DEF PoolInv
<1>11. ASSUME NEW t \in Threads, ReleaseAdvance(t) PROVE PoolInv'
  <2> DEFINE h == rel[t].hpid
             c == rel[t].linked
  <2>1. /\ pc[t] = "releasing" /\ c # None /\ pid_alloc' = c
        /\ ctid_list' = [ctid_list EXCEPT ![h][c] = IF @ = 0 THEN 0 ELSE @ - 1]
        /\ rel' = [rel EXCEPT ![t].linked = None]
        /\ UNCHANGED <<pc, ctid, next, pid_array, pid_lock>>
    BY <1>11 DEF ReleaseAdvance
  <2>2. h \in Hpids /\ c \in Ctids /\ ctid_list[h][c] > 0 /\ next[c] = pid_alloc
    BY <2>1 DEF PoolInv, LinkInv, TypeOK
  <2>3. ctid_list[h][c] = 1
    BY <2>2 DEF PoolInv, ListInv
  <2>4. \A u \in Threads : rel'[u].linked = None
    BY <1>8, <2>1 DEF TypeOK
  <2> HIDE DEF h, c
  <2>5. ctid_list' = [ctid_list EXCEPT ![h][c] = 0]
    BY <2>1, <2>2, <2>3 DEF TypeOK
  <2>6. /\ ListInv'
        /\ c \in InUse /\ c # Tail
        /\ Free' = Free \cup {c}
    BY <2>1, <2>2, <2>5, ClearEntry DEF PoolInv
  <2>7. FreeInv'
    <3>1. next' \in [Ctids -> Ctids \cup {None}] /\ next'[c] = pid_alloc
          /\ \A d \in Ctids : d # c => next'[d] = next[d]
      BY <2>1, <2>2 DEF TypeOK
    <3>2. QED
      BY <2>1, <2>6, <3>1, PushFree DEF PoolInv
  <2>8. HolderInv'
    BY <1>8, <2>1 DEF HolderInv, CtidsAreUnique, Registered
  <2>9. LinkInv'
    BY <2>4 DEF LinkInv
  <2>10. QED
    BY <2>1, <2>6, <2>7, <2>8, <2>9 DEF PoolInv
<1>12. ASSUME NEW t \in Threads, ReleaseNext(t) \/ ReleaseEnd(t) PROVE PoolInv'
  <2>1. /\ pc[t] = "releasing" /\ rel[t].linked = None
        /\ \/ rel' = [rel EXCEPT ![t].hpid = None] /\ pc' = pc
           \/ /\ rel' = [rel EXCEPT ![t].todo = {}]
              /\ pc' = [pc EXCEPT ![t] = "closed"]
        /\ UNCHANGED <<ctid, pid_alloc, next, pid_array, ctid_list, pid_lock>>
    BY <1>0, <1>12 DEF ReleaseNext, ReleaseEnd, PoolInv, LinkInv
  <2>2. \A u \in Threads : rel'[u].linked = None
    <3>1. CASE rel' = [rel EXCEPT ![t].hpid = None]
      BY <1>8, <2>1, <3>1 DEF TypeOK
    <3>2. CASE rel' = [rel EXCEPT ![t].todo = {}]
      BY <1>8, <2>1, <3>2 DEF TypeOK
    <3>3. QED
      BY <2>1, <3>1, <3>2
  <2>3. \A u \in Registered' : u \in Registered
    BY <2>1 DEF TypeOK, Registered
  <2>4. QED
    BY <1>1, <2>1, <2>2, <2>3
<1>13. CASE UNCHANGED vars
  BY <1>1, <1>13 DEF vars, Registered, PoolInv, LinkInv
<1>14. QED
  BY <1>3, <1>4, <1>5, <1>6, <1>7, <1>9, <1>10, <1>11, <1>12, <1>13
     DEF Next, Release

(***************************************************************************)
(* What the invariants give: identities are safe, open cThreads keep their *)
(* ID, and the last close of a device frees every ID.                      *)
(***************************************************************************)

SafeInv == TypeOK /\ (seen = {} => RefInv /\ PoolInv)

\* The events that void the guarantees are never forgotten.
LEMMA SeenGrows == [Next]_vars => seen \subseteq seen'
  BY DEF Next, Release, vars, OpenRead, OpenWrite, Register, Unregister,
         CloseRead, CloseWrite, ReleaseHpid, ReleaseLink, ReleaseAdvance,
         ReleaseNext, ReleaseEnd, Overlap

\* The pool is consistent when the driver is loaded.
LEMMA InitSafeInv == Init => SafeInv
<1> SUFFICES ASSUME Init PROVE SafeInv
  OBVIOUS
<1>1. TypeOK
  BY InitType
<1>2. Opened = {} /\ Inside = {} /\ Registered = {}
  BY DEF Init, Opened, Inside, Registered
<1>3. RefInv
  BY <1>2, FS_EmptySet DEF Init, RefInv, Opened
<1>4. \A h \in Hpids, c \in Ctids : ctid_list[h][c] = 0
  BY DEF Init
<1>5. Free = Ctids /\ ListInv
  BY <1>4 DEF Free, InUse, ListInv
<1>6. /\ \A c \in Ctids : next[c] = IF c = Tail THEN None ELSE c + 1
      /\ pid_alloc = 0
    BY DEF Init
<1>7. FreeInv
  BY <1>5, <1>6, PoolAssumption DEF FreeInv, Ctids, Tail
<1>8. HolderInv /\ LinkInv
  BY <1>2 DEF Init, HolderInv, CtidsAreUnique, LinkInv
<1>9. QED
  BY <1>1, <1>3, <1>5, <1>7, <1>8 DEF SafeInv, PoolInv, Init

\* The pool stays consistent while nothing voids its guarantees.
LEMMA NextSafeInv == SafeInv /\ [Next]_vars => SafeInv'
  BY NextType, NextRefInv, NextPoolInv, SeenGrows DEF SafeInv

\* Live ctids are unique and safe from being handed out again, and pid_array
\* names their owner, whatever the interleaving of ioctls, opens, releases
\* and deaths of processes, until the last chunk is popped or an open or
\* release overlaps another one.
THEOREM IdentitySafe == Spec => []IdentityIsSafe
<1>1. SafeInv => IdentityIsSafe
  <2> SUFFICES ASSUME SafeInv, seen = {} PROVE IdentityIsSafe
    BY DEF IdentityIsSafe
  <2>1. ASSUME NEW t \in Registered
        PROVE  ctid[t] # pid_alloc /\ pid_array[ctid[t]] = HpidOf[t]
    <3>1. ctid[t] \in Ctids /\ HpidOf[t] \in Hpids
      BY PoolAssumption DEF Registered, SafeInv, TypeOK
    <3>2. ctid_list[HpidOf[t]][ctid[t]] > 0
      BY DEF SafeInv, PoolInv, HolderInv
    <3>3. ctid[t] \in InUse
      BY <3>1, <3>2 DEF InUse
    <3>4. QED
      BY <3>1, <3>2, <3>3 DEF SafeInv, PoolInv, FreeInv, ListInv, Free
  <2>2. QED
    BY <2>1 DEF IdentityIsSafe, SafeInv, PoolInv, HolderInv
<1>2. QED
  BY <1>1, InitSafeInv, NextSafeInv, PTL DEF Spec

\* Under the conditions of IdentityIsSafe, the list of its process has exactly
\* one entry for the ID of a registered cThread.
HeldOnce ==
  seen = {} => \A t \in Registered : ctid_list[HpidOf[t]][ctid[t]] = 1

\* IOCTL_REGISTER_CTID adds one entry, and only for an ID that has none.
LEMMA SafeHeldOnce == SafeInv => HeldOnce
<1> SUFFICES ASSUME SafeInv, seen = {}, NEW t \in Registered
             PROVE  ctid_list[HpidOf[t]][ctid[t]] = 1
  BY DEF HeldOnce
<1>1. ctid[t] \in Ctids /\ HpidOf[t] \in Hpids
  BY PoolAssumption DEF SafeInv, Registered, TypeOK
<1>2. ctid_list[HpidOf[t]][ctid[t]] > 0
  BY DEF SafeInv, PoolInv, HolderInv
<1>3. QED
  BY <1>1, <1>2 DEF SafeInv, PoolInv, ListInv

\* No step changes the ID of a cThread that stays registered.
LEMMA IdIsConstant ==
  ASSUME TypeOK, [Next]_vars, NEW t \in Threads, pc[t] = "registered",
         pc'[t] = "registered"
  PROVE  ctid'[t] = ctid[t]
<1>1. ASSUME NEW u \in Threads, Register(u) PROVE ctid'[t] = ctid[t]
  <2>1. u # t
    BY <1>1 DEF Register
  <2>2. QED
    BY <1>1, <2>1 DEF Register, TypeOK
<1>2. ASSUME NEW u \in Threads, CloseRead(u) PROVE ctid'[t] = ctid[t]
  <2>1. u # t
    BY <1>2 DEF CloseRead, TypeOK
  <2>2. QED
    BY <1>2, <2>1 DEF CloseRead, TypeOK
<1>3. QED
  BY <1>1, <1>2 DEF Next, Release, vars, OpenRead, OpenWrite, Unregister,
     CloseWrite, ReleaseHpid, ReleaseLink, ReleaseAdvance, ReleaseNext,
     ReleaseEnd

\* No step of anybody else takes the ID of an open cThread off its list.
THEOREM IdsAreKept == Spec => OpenThreadsKeepTheirId
<1>1. TypeOK /\ HeldOnce /\ HeldOnce' /\ [Next]_vars =>
        [\A t \in Registered :
           seen' = {} /\ pc'[t] = "registered" =>
             ctid_list'[HpidOf[t]][ctid[t]] = ctid_list[HpidOf[t]][ctid[t]]]_vars
  <2> SUFFICES ASSUME TypeOK, HeldOnce, HeldOnce', [Next]_vars,
                      NEW t \in Registered, seen' = {}, pc'[t] = "registered"
               PROVE  ctid_list'[HpidOf[t]][ctid[t]]
                        = ctid_list[HpidOf[t]][ctid[t]]
    OBVIOUS
  <2>1. seen = {}
    BY SeenGrows
  <2>2. t \in Threads /\ pc[t] = "registered"
    BY DEF Registered
  <2>3. t \in Registered'
    BY <2>2 DEF Registered
  <2>4. ctid_list[HpidOf[t]][ctid[t]] = 1
    BY <2>1 DEF HeldOnce
  <2>5. ctid_list'[HpidOf[t]][ctid'[t]] = 1
    BY <2>3 DEF HeldOnce
  <2>6. ctid'[t] = ctid[t]
    BY <2>2, IdIsConstant
  <2>7. QED
    BY <2>4, <2>5, <2>6
<1>2. SafeInv => TypeOK
  BY DEF SafeInv
<1>3. QED
  BY <1>1, <1>2, SafeHeldOnce, InitSafeInv, NextSafeInv, PTL
     DEF Spec, OpenThreadsKeepTheirId

-----------------------------------------------------------------------------
(* The clean-up is complete when no two host processes share a bucket. *)

Entries(h) == {c \in Ctids : ctid_list[h][c] > 0}

CleanInv ==
  Opened = {} =>
    \/ \A h \in Hpids : Entries(h) = {}
    \/ \E t \in Threads :
         /\ pc[t] = "releasing"
         /\ \A h \in Hpids : Entries(h) # {} =>
              BucketOf[h] \in rel[t].todo \/ rel[t].hpid = h

\* When the last descriptor is closed every entry is ahead of the clean-up.
LEMMA NextCleanInv ==
  ASSUME \A g, h \in Hpids : BucketOf[g] = BucketOf[h] => g = h
  PROVE  SafeInv /\ SafeInv' /\ CleanInv /\ [Next]_vars /\ seen' = {} => CleanInv'
<1> SUFFICES ASSUME SafeInv, SafeInv', CleanInv, [Next]_vars, seen' = {},
                    Opened' = {}
             PROVE  CleanInv'
  BY DEF CleanInv
<1>0. seen = {} /\ TypeOK /\ RefInv /\ PoolInv /\ RefInv'
  BY SeenGrows DEF SafeInv
<1>00. None \notin Hpids
  BY PoolAssumption
<1>1. ASSUME Opened = {}, ctid_list' = ctid_list, rel' = rel,
             \A t \in Threads : pc[t] = "releasing" => pc'[t] = "releasing"
      PROVE  CleanInv'
  BY <1>1 DEF CleanInv, Entries
<1>2. ASSUME NEW t \in Threads, OpenRead(t) PROVE CleanInv'
  <2>1. Opened = {} /\ \A u \in Threads : pc[u] = "releasing" => pc'[u] = "releasing"
    BY <1>0, <1>2 DEF OpenRead, Opened, TypeOK
  <2>2. QED
    BY <1>1, <1>2, <2>1 DEF OpenRead
<1>3. ASSUME NEW t \in Threads,
             OpenWrite(t) \/ Register(t) \/ Unregister(t) \/ CloseRead(t)
      PROVE  FALSE
  <2>1. pc'[t] \in {"open", "registered", "unregistered", "closing"}
    BY <1>0, <1>3 DEF OpenWrite, Register, Unregister, CloseRead, TypeOK
  <2>2. QED
    BY <2>1 DEF Opened
<1>4. ASSUME NEW t \in Threads, CloseWrite(t) PROVE CleanInv'
  <2>1. ref_cnt' = 0
    BY <1>0, FS_EmptySet DEF RefInv
  <2>2. pc'[t] = "releasing" /\ rel'[t].todo = Buckets
    BY <1>0, <1>4, <2>1 DEF CloseWrite, TypeOK
  <2>3. \A h \in Hpids : BucketOf[h] \in rel'[t].todo
    BY <2>2, PoolAssumption
  <2>4. QED
    BY <2>2, <2>3 DEF CleanInv
<1>5. ASSUME NEW t \in Threads, pc[t] = "releasing",
             \A h \in Hpids : Entries(h) # {} =>
               BucketOf[h] \in rel[t].todo \/ rel[t].hpid = h,
             Release(t)
      PROVE  CleanInv'
  <2>1. ASSUME NEW h \in Hpids, ReleaseHpid(t, h) PROVE CleanInv'
    <3>1. /\ rel[t].hpid = None /\ pc' = pc /\ ctid_list' = ctid_list
          /\ rel'[t].hpid = h
          /\ rel'[t].todo = rel[t].todo \ {BucketOf[h]}
      BY <1>0, <2>1 DEF ReleaseHpid, TypeOK
    <3>2. \A g \in Hpids : Entries(g)' # {} =>
            BucketOf[g] \in rel'[t].todo \/ rel'[t].hpid = g
      BY <1>00, <1>5, <3>1 DEF Entries
    <3>3. QED
      BY <1>5, <3>1, <3>2 DEF CleanInv
  <2>2. ASSUME NEW c \in Ctids, ReleaseLink(t, c) PROVE CleanInv'
    <3>1. /\ pc' = pc /\ ctid_list' = ctid_list
          /\ rel'[t].hpid = rel[t].hpid /\ rel'[t].todo = rel[t].todo
      BY <1>0, <2>2 DEF ReleaseLink, TypeOK
    <3>2. QED
      BY <1>5, <3>1 DEF CleanInv, Entries
  <2>3. CASE ReleaseAdvance(t)
    <3>1. /\ pc' = pc
          /\ rel'[t].hpid = rel[t].hpid /\ rel'[t].todo = rel[t].todo
          /\ rel[t].linked \in Ctids
      BY <1>0, <2>3 DEF ReleaseAdvance, TypeOK
    <3>2. rel[t].hpid \in Hpids
      BY <1>0, <2>3 DEF ReleaseAdvance, PoolInv, LinkInv
    <3>3. \A g \in Hpids : g # rel[t].hpid => ctid_list'[g] = ctid_list[g]
      BY <1>0, <2>3 DEF ReleaseAdvance, TypeOK
    <3>4. \A g \in Hpids : Entries(g)' # {} =>
            Entries(g) # {} \/ g = rel[t].hpid
      BY <3>3 DEF Entries
    <3>5. QED
      BY <1>5, <3>1, <3>4 DEF CleanInv
  <2>4. CASE ReleaseNext(t)
    <3>1. /\ pc' = pc /\ ctid_list' = ctid_list
          /\ rel'[t].todo = rel[t].todo
          /\ \A c \in Ctids : ctid_list[rel[t].hpid][c] = 0
      BY <1>0, <2>4 DEF ReleaseNext, TypeOK
    <3>2. \A g \in Hpids : Entries(g)' = Entries(g)
      BY <3>1 DEF Entries
    <3>3. \A g \in Hpids : rel[t].hpid = g => Entries(g) = {}
      BY <3>1 DEF Entries
    <3>4. QED
      BY <1>5, <3>1, <3>2, <3>3 DEF CleanInv
  <2>5. CASE ReleaseEnd(t)
    <3>1. /\ ctid_list' = ctid_list /\ rel[t].hpid = None
          /\ \A h \in Hpids : BucketOf[h] \in rel[t].todo =>
               \A c \in Ctids : ctid_list[h][c] = 0
      BY <2>5 DEF ReleaseEnd
    <3>2. \A h \in Hpids : BucketOf[h] \in rel[t].todo => Entries(h) = {}
      BY <3>1 DEF Entries
    <3>3. \A h \in Hpids : Entries(h)' = {}
      BY <1>00, <1>5, <3>1, <3>2 DEF Entries
    <3>4. QED
      BY <3>3 DEF CleanInv
  <2>6. QED
    BY <1>5, <2>1, <2>2, <2>3, <2>4, <2>5 DEF Release
<1>6. ASSUME NEW t \in Threads, Release(t) PROVE CleanInv'
  <2>1. pc[t] = "releasing"
    BY <1>6 DEF Release, ReleaseHpid, ReleaseLink, ReleaseAdvance,
                ReleaseNext, ReleaseEnd
  <2>2. Opened = {} /\ \A u \in Threads : pc[u] = "releasing" => u = t
    BY <1>0, <2>1 DEF RefInv, Inside
  <2>3. CASE \A h \in Hpids : Entries(h) = {}
    BY <1>5, <1>6, <2>1, <2>3
  <2>4. CASE ~\A h \in Hpids : Entries(h) = {}
    BY <1>5, <1>6, <2>1, <2>2, <2>4 DEF CleanInv
  <2>5. QED
    BY <2>3, <2>4
<1>7. CASE UNCHANGED vars
  <2>1. Opened = {}
    BY <1>7 DEF vars, Opened
  <2>2. QED
    BY <1>1, <1>7, <2>1 DEF vars
<1>8. QED
  BY <1>2, <1>3, <1>4, <1>6, <1>7 DEF Next

\* Without shared buckets the last release gives every ID back, those of
\* killed processes included.
THEOREM ReleaseIsComplete ==
  ASSUME \A g, h \in Hpids : BucketOf[g] = BucketOf[h] => g = h
  PROVE  Spec => []LastReleaseFreesAll
<1> DEFINE J == SafeInv /\ (seen = {} => CleanInv)
<1>1. Init => J
  <2>1. Init => CleanInv
    BY DEF Init, CleanInv, Entries
  <2>2. QED
    BY <2>1, InitSafeInv
<1>2. J /\ [Next]_vars => J'
  <2>1. J /\ [Next]_vars /\ seen' = {} => CleanInv'
    BY NextCleanInv, NextSafeInv, SeenGrows
  <2>2. QED
    BY <2>1, NextSafeInv
<1>3. J => LastReleaseFreesAll
  <2> SUFFICES ASSUME CleanInv, \A t \in Threads : pc[t] = "closed"
               PROVE  InUse = {}
    BY DEF LastReleaseFreesAll
  <2>1. Opened = {}
    BY DEF Opened
  <2>2. \A h \in Hpids : Entries(h) = {}
    BY <2>1 DEF CleanInv
  <2>3. QED
    BY <2>2 DEF InUse, Entries
<1>4. QED
  BY <1>1, <1>2, <1>3, PTL DEF Spec
=============================================================================
