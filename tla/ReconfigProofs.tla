--------------------------- MODULE ReconfigProofs ---------------------------
(***************************************************************************)
(* Partial reconfiguration is safe for any number of processes, calls,     *)
(* failures and shells: the decoupling of regions follows the bitstream    *)
(* the hardware loads, and no buffer of the driver is lost or freed while  *)
(* it is read.                                                             *)
(***************************************************************************)
EXTENDS ReconfigCalls

\* The time each prover has for a leaf that names none.
USE ZenonT(10), SMTT(60), ZenonT(60)

----------------------------------------------------------------------------
(* getMem and freeMem *)

(* A call goes on.                                                         *)
LEMMA GoesOn ==
  ASSUME IInv, NEW p \in Procs, NEW k, At(p, k), Do(p, <<>>), obj' = obj, hz \subseteq hz'
  PROVE  /\ Moved(p) /\ Follows(th[p], th'[p]) /\ Fields(th[p]) /\ Kind(th[p]) = k
         /\ th[p] # <<>> /\ obj[p].open
         /\ \A b \in Nat : Mine(p, b)' => Mine(p, b)
<1>1. th[p] # <<>> /\ Kind(th[p]) = k
  BY AtStep
<1>2. /\ ThType' /\ (\A q \in Procs \ {p} : th'[q] = th[q])
      /\ Follows(th[p], th'[p]) /\ Fields(th[p]) /\ \A b : Frees(th'[p], b) => Frees(th[p], b)
  BY <1>1, Advance DEF IInv, ThType
<1>3. Moved(p)
  BY <1>2 DEF Moved
<1>4. \A b \in Nat : Mine(p, b)' => Mine(p, b)
  BY <1>2 DEF Mine
<1> QED BY <1>1, <1>2, <1>3, <1>4 DEF IInv, MtxInv

(* A call throws.                                                          *)
LEMMA Throws ==
  ASSUME IInv, NEW p \in Procs, NEW h, Throw(p, h)
  PROVE  /\ Moved(p) /\ th'[p] = <<>> /\ obj' \in [Procs -> Objs]
         /\ obj'[p].open = obj[p].open /\ obj'[p].gen = obj[p].gen
         /\ hz' = hz \cup h
         /\ \A b \in Nat : Mine(p, b)' => Mine(p, b)
<1>1. /\ th' = [th EXCEPT ![p] = <<>>] /\ obj' = [obj EXCEPT ![p].failed = TRUE]
      /\ hz' = hz \cup h
  BY DEF Throw, Noting
<1>2. /\ ThType' /\ (\A q \in Procs \ {p} : th'[q] = th[q]) /\ th'[p] = <<>>
      /\ \A b : Frees(th'[p], b) => Frees(th[p], b)
  BY <1>1, Leave DEF IInv, ThType
<1>3. /\ obj'[p].open = obj[p].open /\ obj'[p].gen = obj[p].gen /\ obj'[p].mem = obj[p].mem
      /\ (\A q \in Procs \ {p} : obj'[q] = obj[q])
      /\ obj' \in [Procs -> Objs]
  BY <1>1 DEF IInv, TypeInv, UserType, Objs
<1>4. Moved(p)
  BY <1>1, <1>2, <1>3 DEF Moved
<1>5. \A b \in Nat : Mine(p, b)' => Mine(p, b)
  BY <1>2, <1>3 DEF Mine
<1> QED BY <1>1, <1>2, <1>3, <1>4, <1>5

(* reconfig_mtx is locked.                                                 *)
LEMMA MlockStep ==
  ASSUME IInv, NEW p \in Procs, mlock(p)
  PROVE  IInv'
<1>1. /\ At(p, "mlock") /\ mtx[obj[p].gen] = Free /\ mtx' = [mtx EXCEPT ![obj[p].gen] = p]
      /\ Do(p, <<>>) /\ obj' = obj /\ hz' = hz
      /\ UNCHANGED <<driver, crid_gen, name, buffs, mem_lock, rcnfg_lock, hw>>
  BY DEF mlock
<1>2. /\ Moved(p) /\ Follows(th[p], th'[p]) /\ Kind(th[p]) = "mlock" /\ th[p] # <<>> /\ obj[p].open
      /\ \A b \in Nat : Mine(p, b)' => Mine(p, b)
  BY <1>1, GoesOn
<1>3. ~ InRcnfg(th[p]) /\ ~ InRcnfg(th'[p]) /\ Kind(th'[p]) # "alloc"
  BY <1>2 DEF InRcnfg, Follows
<1>4. /\ obj[p].gen \in 1 .. Len(mtx) /\ mtx' \in Seq(Procs \cup {Free}) /\ Len(mtx') = Len(mtx)
      /\ mtx'[obj[p].gen] = p
      /\ \A j \in 1 .. Len(mtx) : j # obj[p].gen => mtx'[j] = mtx[j]
  BY <1>1, <1>2 DEF IInv, MtxInv, TypeInv, UserType
<1>5. MtxInv'
  <2>1. \A q \in Procs : th'[q] # <<>> => obj'[q].open
    BY <1>1, <1>2 DEF IInv, MtxInv, Moved
  <2>2. \A q \in Procs : obj'[q].open => obj'[q].gen \in 1 .. Len(mtx')
    BY <1>1, <1>4 DEF IInv, MtxInv
  <2>3. ASSUME NEW q \in Procs, InMtx(th'[q]), q # p PROVE mtx'[obj'[q].gen] = q
    <3>1. InMtx(th[q]) /\ th[q] # <<>> /\ q # Free
      BY <1>2, <2>3, ProcsAssumption DEF Moved, InMtx, Kind
    <3>2. mtx[obj[q].gen] = q /\ obj[q].gen \in 1 .. Len(mtx)
      BY <3>1 DEF IInv, MtxInv
    <3> QED BY <1>1, <1>4, <3>1, <3>2
  <2>4. \A q \in Procs : InMtx(th'[q]) => mtx'[obj'[q].gen] = q
    BY <1>1, <1>4, <2>3
  <2>5. "split" \notin hz' =>
          \A q, r \in Procs : obj'[q].open /\ obj'[r].open => obj'[q].gen = obj'[r].gen
    BY <1>1 DEF IInv, MtxInv
  <2> QED BY <2>1, <2>2, <2>4, <2>5 DEF MtxInv
<1>6. UserType' /\ DriverType'
  BY <1>1, <1>4 DEF IInv, TypeInv, UserType, DriverType, driver
<1> QED BY <1>1, <1>2, <1>3, <1>5, <1>6, Apart

(* reconfig_mtx is unlocked by the process that holds it.                  *)
LEMMA MunlockStep ==
  ASSUME IInv, NEW p \in Procs, munlock(p)
  PROVE  IInv'
<1>1. /\ At(p, "munlock") /\ mtx' = [mtx EXCEPT ![obj[p].gen] = Free]
      /\ Do(p, <<>>) /\ obj' = obj /\ hz' = hz
      /\ UNCHANGED <<driver, crid_gen, name, buffs, mem_lock, rcnfg_lock, hw>>
  BY DEF munlock
<1>2. /\ Moved(p) /\ Follows(th[p], th'[p]) /\ Kind(th[p]) = "munlock" /\ th[p] # <<>> /\ obj[p].open
      /\ \A b \in Nat : Mine(p, b)' => Mine(p, b)
  BY <1>1, GoesOn
<1>3. ~ InRcnfg(th[p]) /\ ~ InRcnfg(th'[p]) /\ ~ InMtx(th'[p]) /\ Kind(th'[p]) # "alloc" /\ InMtx(th[p])
  BY <1>2, Nothing DEF InRcnfg, InMtx, Follows
<1>4. /\ obj[p].gen \in 1 .. Len(mtx) /\ mtx' \in Seq(Procs \cup {Free}) /\ Len(mtx') = Len(mtx)
      /\ mtx[obj[p].gen] = p
      /\ \A j \in 1 .. Len(mtx) : j # obj[p].gen => mtx'[j] = mtx[j]
  BY <1>1, <1>2, <1>3 DEF IInv, MtxInv, TypeInv, UserType
<1>5. MtxInv'
  <2>1. \A q \in Procs : th'[q] # <<>> => obj'[q].open
    BY <1>1, <1>2 DEF IInv, MtxInv, Moved
  <2>2. \A q \in Procs : obj'[q].open => obj'[q].gen \in 1 .. Len(mtx')
    BY <1>1, <1>4 DEF IInv, MtxInv
  <2>3. ASSUME NEW q \in Procs, InMtx(th'[q]) PROVE mtx'[obj'[q].gen] = q
    <3>1. InMtx(th[q]) /\ th[q] # <<>> /\ q # p
      BY <1>2, <1>3, <2>3 DEF Moved, InMtx, Kind
    <3>2. mtx[obj[q].gen] = q /\ obj[q].gen \in 1 .. Len(mtx)
      BY <3>1 DEF IInv, MtxInv
    <3> QED BY <1>1, <1>4, <3>1, <3>2
  <2>4. "split" \notin hz' =>
          \A q, r \in Procs : obj'[q].open /\ obj'[r].open => obj'[q].gen = obj'[r].gen
    BY <1>1 DEF IInv, MtxInv
  <2> QED BY <2>1, <2>2, <2>3, <2>4 DEF MtxInv
<1>6. UserType' /\ DriverType'
  BY <1>1, <1>4 DEF IInv, TypeInv, UserType, DriverType, driver
<1> QED BY <1>1, <1>2, <1>3, <1>5, <1>6, Apart

(* alloc_reconfig_buffer looks for a buffer that is not mapped yet.        *)
LEMMA CheckStep ==
  ASSUME IInv, NEW p \in Procs, AllocCheck(p)
  PROVE  IInv'
<1>1. At(p, "check") /\ mtx' = mtx /\ UNCHANGED <<driver, crid_gen, name, buffs, mem_lock, rcnfg_lock, hw>>
  BY DEF AllocCheck
<1>2. th[p] # <<>> /\ Kind(th[p]) = "check" /\ obj[p].open
  BY <1>1, AtStep DEF IInv, MtxInv
<1>3. ~ InRcnfg(th[p]) /\ InMtx(th[p])
  BY <1>2 DEF InRcnfg, InMtx
<1>4. CASE curr_buff.b # 0 /\ Throw(p, {"thrown"})
  <2>1. /\ Moved(p) /\ th'[p] = <<>> /\ obj' \in [Procs -> Objs]
        /\ obj'[p].open = obj[p].open /\ obj'[p].gen = obj[p].gen
        /\ \A b \in Nat : Mine(p, b)' => Mine(p, b)
    BY <1>4, Throws
  <2>2. ~ InRcnfg(th'[p]) /\ ~ InMtx(th'[p]) /\ Kind(th'[p]) # "alloc"
    BY <2>1, Nothing DEF InRcnfg, InMtx
  <2>3. MtxInv'
    BY <1>1, <2>1, <2>2, MtxKept DEF IInv
  <2>4. UserType' /\ DriverType'
    BY <1>1, <2>1 DEF IInv, TypeInv, UserType, DriverType, driver
  <2> QED BY <1>1, <1>3, <2>1, <2>2, <2>3, <2>4, Apart
<1>5. CASE curr_buff.b = 0 /\ Do(p, <<>>) /\ obj' = obj /\ hz' = hz
  <2>1. /\ Moved(p) /\ Follows(th[p], th'[p])
        /\ \A b \in Nat : Mine(p, b)' => Mine(p, b)
    BY <1>1, <1>5, GoesOn
  <2>2. ~ InRcnfg(th'[p])
    BY <1>2, <2>1 DEF InRcnfg, Follows
  <2>3. MtxInv'
    BY <1>1, <1>2, <1>3, <1>5, <2>1, MtxKept DEF IInv
  <2>4. UserType' /\ DriverType'
    BY <1>1, <1>5 DEF IInv, TypeInv, UserType, DriverType, driver
  <2> QED BY <1>1, <1>3, <1>5, <2>1, <2>2, <2>3, <2>4, Apart
<1> QED BY <1>4, <1>5 DEF AllocCheck

(* As long as there is one mutex, one process at a time is inside.         *)
LEMMA Alone ==
  ASSUME IInv, "split" \notin hz, NEW p \in Procs, NEW q \in Procs, InMtx(th[p]), InMtx(th[q])
  PROVE  p = q
<1>1. th[p] # <<>> /\ th[q] # <<>>
  BY DEF InMtx, Kind
<1>2. obj[p].gen = obj[q].gen
  BY <1>1 DEF IInv, MtxInv
<1> QED BY <1>2 DEF IInv, MtxInv

(* The next buffer is allocated, or something fails.                       *)
LEMMA AllocStep ==
  ASSUME IInv, NEW p \in Procs, alloc_reconfig_buffer(p)
  PROVE  IInv'
<1>1. /\ At(p, "alloc") /\ mtx' = mtx /\ nbuf' = nbuf + 1
      /\ UNCHANGED <<shell, bd, crid_gen, name, entries, rcnfg_lock, hw>>
  BY DEF alloc_reconfig_buffer
<1>2. th[p] # <<>> /\ Kind(th[p]) = "alloc" /\ obj[p].open /\ InMtx(th[p]) /\ ~ InRcnfg(th[p])
  BY <1>1, AtStep DEF IInv, MtxInv, InMtx, InRcnfg
<1>3. /\ Moved(p) /\ obj' \in [Procs -> Objs]
      /\ obj'[p].open = obj[p].open /\ obj'[p].gen = obj[p].gen
      /\ \A b \in Nat : Mine(p, b)' => Mine(p, b)
      /\ th'[p] = <<>> \/ Kind(th'[p]) = "mmap"
  <2>1. CASE Throw(p, {"thrown"})
    BY <2>1, Throws
  <2>2. CASE Do(p, <<>>) /\ obj' = obj /\ hz' = hz
    BY <1>1, <1>2, <2>2, GoesOn DEF Follows, IInv, TypeInv, UserType
  <2> QED BY <2>1, <2>2 DEF alloc_reconfig_buffer
<1>4. ~ InRcnfg(th'[p]) /\ Kind(th'[p]) # "alloc"
  BY <1>3, Nothing DEF InRcnfg
<1>5. nbuf \in Nat /\ curr_buff \in Buffs /\ entries \subseteq Buffs /\ pages \subseteq Nat /\ obj[p].crid \in Nat
  BY DEF IInv, TypeInv, BuffType, UserType, Objs
<1>6. /\ curr_buff' \in Buffs /\ curr_buff'.b \in {0, nbuf + 1}
      /\ pages' = pages \/ (pages' = pages \cup {nbuf + 1} /\ curr_buff'.b = nbuf + 1)
      /\ curr_buff'.b = 0 => curr_buff' = None
      /\ curr_buff.b = 0 /\ curr_buff = None /\ curr_buff'.p \in Procs => curr_buff'.b \in pages'
  <2>1. CASE pages' = pages \cup {nbuf'} /\ curr_buff' = [b |-> nbuf', p |-> p, crid |-> obj[p].crid]
    BY <1>1, <1>5, <2>1 DEF Buffs
  <2>2. CASE pages' = pages /\ curr_buff' = None
    BY <1>5, <2>2, ProcsAssumption DEF Buffs, None
  <2>3. CASE pages' = pages /\ curr_buff' = [curr_buff EXCEPT !.b = nbuf']
    BY <1>1, <1>5, <2>3, ProcsAssumption DEF Buffs, None
  <2> QED BY <2>1, <2>2, <2>3 DEF alloc_reconfig_buffer
<1>7. ThType' /\ UserType' /\ DriverType' /\ HwType'
  BY <1>1, <1>3 DEF IInv, TypeInv, UserType, DriverType, HwType, hw, Moved
<1>8. BuffType'
  <2>1. nbuf' \in Nat /\ nbuf + 1 \in Nat /\ entries' = entries
    BY <1>1, <1>5
  <2>2. pages' \subseteq Nat
    BY <1>5, <1>6, <2>1
  <2> QED BY <1>5, <1>6, <2>1, <2>2 DEF BuffType
<1>9. MtxInv'
  BY <1>1, <1>2, <1>3, MtxKept DEF IInv
<1>10. LockInv'
  BY <1>1, <1>2, <1>3, <1>4, LockKept DEF IInv
<1>11. ASSUME "split" \notin hz' PROVE BufInv' /\ BuffersAreKept'
  <2>1. "split" \notin hz /\ ("signal" \notin hz' => "signal" \notin hz)
    BY <1>3, <1>11 DEF Moved
  <2>2. curr_buff.b = 0 /\ curr_buff = None /\ pages \subseteq 1 .. nbuf
    BY <1>2, <2>1 DEF IInv, BufInv
  <2>3. /\ \A b \in pages : \E e \in entries : e.b = b
        /\ \A e, f \in entries : e.b = f.b => e = f
        /\ \A e \in entries : e.b \in pages
        /\ \A j \in 1 .. Len(icap) : icap[j].b \in pages
    BY <2>1, <2>2 DEF IInv, BuffersAreKept
  <2>4. entries' = entries /\ icap' = icap /\ rcnfg_lock' = rcnfg_lock
    BY <1>1 DEF hw
  <2>5. \A q \in Procs : Kind(th'[q]) # "alloc"
    BY <1>2, <1>3, <1>4, <2>1, Alone DEF Moved, InMtx
  <2>6. \A q \in Procs : \A b \in Nat : Mine(q, b)' => b \in 1 .. nbuf' /\ b # curr_buff'.b
    <3>1. \A q \in Procs : \A b \in Nat : Mine(q, b)' => Mine(q, b)
      BY <1>3 DEF Moved, Mine
    <3>2. \A q \in Procs : \A b \in Nat : Mine(q, b) => b \in 1 .. nbuf
      BY <2>1 DEF IInv, BufInv
    <3> QED BY <1>1, <1>5, <1>6, <3>1, <3>2
  <2>7. pages' \subseteq 1 .. nbuf' /\ curr_buff'.b \in 0 .. nbuf' /\ pages \subseteq pages'
    <3>1. nbuf + 1 \in 1 .. nbuf' /\ 0 \in 0 .. nbuf' /\ nbuf + 1 \in 0 .. nbuf'
          /\ 1 .. nbuf \subseteq 1 .. nbuf'
      BY <1>1, <1>5
    <3> QED BY <1>6, <2>2, <3>1
  <2>8. \A e \in entries' : e.b = curr_buff'.b => e = curr_buff'
    BY <1>5, <1>6, <2>2, <2>3, <2>4
  <2>9. "signal" \notin hz' => \A j \in 1 .. Len(icap') : \E e \in entries' : e.b = icap'[j].b /\ e.p = rcnfg_lock'
    BY <2>1, <2>4 DEF IInv, BufInv
  <2>10. BufInv'
    BY <1>6, <2>2, <2>5, <2>6, <2>7, <2>8, <2>9 DEF BufInv
  <2>11. \A b \in pages' : b = curr_buff'.b \/ \E e \in entries' : e.b = b
    BY <1>6, <2>3, <2>4
  <2>12. (\A e \in entries' : e.b \in pages') /\ \A j \in 1 .. Len(icap') : icap'[j].b \in pages'
    BY <2>3, <2>4, <2>7
  <2> QED BY <2>3, <2>4, <2>10, <2>11, <2>12 DEF BuffersAreKept
<1>12. BufInv' /\ BuffersAreKept'
  BY <1>11 DEF BufInv, BuffersAreKept
<1> QED BY <1>7, <1>8, <1>9, <1>10, <1>12 DEF IInv, TypeInv

(* The buffer is mapped, or something fails.                               *)
LEMMA MmapStep ==
  ASSUME IInv, NEW p \in Procs, reconfig_dev_mmap(p)
  PROVE  IInv'
<1>1. /\ At(p, "mmap") /\ mtx' = mtx
      /\ UNCHANGED <<shell, bd, crid_gen, name, pages, nbuf, rcnfg_lock, hw>>
  BY DEF reconfig_dev_mmap
<1>2. th[p] # <<>> /\ Kind(th[p]) = "mmap" /\ obj[p].open /\ InMtx(th[p]) /\ ~ InRcnfg(th[p])
  BY <1>1, AtStep DEF IInv, MtxInv, InMtx, InRcnfg
<1>3. nbuf \in Nat /\ curr_buff \in Buffs /\ entries \subseteq Buffs /\ pages \subseteq Nat
      /\ curr_buff.b \in Nat
  BY DEF IInv, TypeInv, BuffType, Buffs
<1>4. CASE Throw(p, {"thrown"}) /\ UNCHANGED <<curr_buff, entries>>
  <2>1. /\ Moved(p) /\ obj' \in [Procs -> Objs] /\ th'[p] = <<>>
        /\ obj'[p].open = obj[p].open /\ obj'[p].gen = obj[p].gen
        /\ \A b \in Nat : Mine(p, b)' => Mine(p, b)
    BY <1>4, Throws
  <2>2. ~ InRcnfg(th'[p]) /\ Kind(th'[p]) # "alloc"
    BY <2>1, Nothing DEF InRcnfg
  <2>3. MtxInv'
    BY <1>1, <1>2, <2>1, MtxKept DEF IInv
  <2>4. UserType' /\ DriverType'
    BY <1>1, <2>1 DEF IInv, TypeInv, UserType, DriverType
  <2>5. UNCHANGED buffs
    BY <1>1, <1>4 DEF buffs
  <2> QED BY <1>1, <1>2, <2>1, <2>2, <2>3, <2>4, <2>5, Apart
<1>5. CASE /\ curr_buff.b # 0 /\ curr_buff.p = p /\ entries' = entries \cup {curr_buff}
           /\ \/ /\ curr_buff' = None /\ hz' = hz /\ Do(p, <<>>)
                 /\ obj' = [obj EXCEPT ![p].mem = @ \cup {curr_buff.b}]
              \/ curr_buff' = curr_buff /\ Throw(p, {"thrown"})
  <2>1. /\ Moved(p) /\ obj' \in [Procs -> Objs]
        /\ obj'[p].open = obj[p].open /\ obj'[p].gen = obj[p].gen
        /\ \A b \in Nat : Mine(p, b)' => Mine(p, b) \/ (b = curr_buff.b /\ curr_buff' = None)
        /\ th'[p] = <<>> \/ Kind(th'[p]) = "munlock"
    <3>1. CASE Throw(p, {"thrown"})
      BY <3>1, Throws
    <3>2. CASE /\ curr_buff' = None /\ hz' = hz /\ Do(p, <<>>)
               /\ obj' = [obj EXCEPT ![p].mem = @ \cup {curr_buff.b}]
      <4>1. /\ ThType' /\ (\A q \in Procs \ {p} : th'[q] = th[q])
            /\ Follows(th[p], th'[p]) /\ \A b : Frees(th'[p], b) => Frees(th[p], b)
        BY <1>2, <3>2, Advance DEF IInv, ThType
      <4>2. /\ obj'[p].open = obj[p].open /\ obj'[p].gen = obj[p].gen
            /\ obj'[p].mem = obj[p].mem \cup {curr_buff.b}
            /\ (\A q \in Procs \ {p} : obj'[q] = obj[q])
            /\ obj' \in [Procs -> Objs]
        BY <1>3, <3>2 DEF IInv, TypeInv, UserType, Objs
      <4>3. Moved(p)
        BY <3>2, <4>1, <4>2 DEF Moved
      <4>4. \A b \in Nat : Mine(p, b)' => Mine(p, b) \/ (b = curr_buff.b /\ curr_buff' = None)
        BY <3>2, <4>1, <4>2 DEF Mine
      <4> QED BY <1>2, <4>1, <4>2, <4>3, <4>4 DEF Follows
    <3> QED BY <1>5, <3>1, <3>2
  <2>2. ~ InRcnfg(th'[p]) /\ Kind(th'[p]) # "alloc"
    BY <2>1, Nothing DEF InRcnfg
  <2>3. MtxInv' /\ LockInv'
    <3>1. MtxInv'
      BY <1>1, <1>2, <2>1, MtxKept DEF IInv
    <3>2. LockInv'
      BY <1>1, <1>2, <2>1, <2>2, LockKept DEF IInv
    <3> QED BY <3>1, <3>2
  <2>4. ThType' /\ UserType' /\ DriverType' /\ HwType'
    BY <1>1, <2>1 DEF IInv, TypeInv, UserType, DriverType, HwType, hw, Moved
  <2>5. curr_buff' \in Buffs /\ (curr_buff' = None \/ curr_buff' = curr_buff)
    BY <1>3, <1>5 DEF Buffs, None
  <2>6. BuffType'
    BY <1>1, <1>3, <1>5, <2>5 DEF BuffType
  <2>7. ASSUME "split" \notin hz' PROVE BufInv' /\ BuffersAreKept'
    <3>1. "split" \notin hz /\ ("signal" \notin hz' => "signal" \notin hz)
      BY <2>1, <2>7 DEF Moved
    <3>2. /\ curr_buff.b \in pages /\ pages \subseteq 1 .. nbuf
          /\ \A e \in entries : e.b = curr_buff.b => e = curr_buff
      BY <1>5, <3>1 DEF IInv, BufInv
    <3>3. /\ \A b \in pages : b = curr_buff.b \/ \E e \in entries : e.b = b
          /\ \A e, f \in entries : e.b = f.b => e = f
          /\ \A e \in entries : e.b \in pages
          /\ \A j \in 1 .. Len(icap) : icap[j].b \in pages
      BY <3>1 DEF IInv, BuffersAreKept
    <3>4. pages' = pages /\ nbuf' = nbuf /\ icap' = icap /\ rcnfg_lock' = rcnfg_lock
      BY <1>1 DEF hw
    <3>5. \A q \in Procs : Kind(th'[q]) # "alloc"
      BY <1>2, <2>1, <2>2, <3>1, Alone DEF Moved, InMtx
    <3>6. None.b = 0 /\ None.p \notin Procs
      BY ProcsAssumption DEF None
    <3>7. \A q \in Procs : \A b \in Nat : Mine(q, b)' => b \in 1 .. nbuf' /\ b # curr_buff'.b
      <4>1. \A q \in Procs : \A b \in Nat : Mine(q, b)' => Mine(q, b) \/ (b = curr_buff.b /\ curr_buff' = None)
        BY <2>1 DEF Moved, Mine
      <4>2. \A q \in Procs : \A b \in Nat : Mine(q, b) => b \in 1 .. nbuf /\ b # curr_buff.b
        BY <3>1 DEF IInv, BufInv
      <4>3. 0 \notin 1 .. nbuf
        BY <1>3
      <4> QED BY <2>5, <3>2, <3>4, <3>6, <4>1, <4>2, <4>3
    <3>8. /\ curr_buff'.b = 0 => curr_buff' = None
          /\ curr_buff'.b \in 0 .. nbuf' /\ pages' \subseteq 1 .. nbuf'
          /\ curr_buff'.p \in Procs => curr_buff'.b \in pages'
      BY <1>3, <1>5, <2>5, <3>2, <3>4, <3>6
    <3>9. \A e \in entries' : e.b \in pages' /\ (e.b = curr_buff'.b => e = curr_buff')
      <4>1. 0 \notin pages
        BY <1>3, <3>2
      <4> QED BY <1>5, <2>5, <3>2, <3>3, <3>4, <3>6, <4>1
    <3>10. "signal" \notin hz' => \A j \in 1 .. Len(icap') : \E e \in entries' : e.b = icap'[j].b /\ e.p = rcnfg_lock'
      BY <1>5, <3>1, <3>4 DEF IInv, BufInv
    <3>11. BufInv'
      BY <3>5, <3>7, <3>8, <3>9, <3>10 DEF BufInv
    <3>12. \A b \in pages' : b = curr_buff'.b \/ \E e \in entries' : e.b = b
      BY <1>5, <3>3, <3>4
    <3>13. \A e, f \in entries' : e.b = f.b => e = f
      BY <1>5, <3>2, <3>3
    <3>14. \A j \in 1 .. Len(icap') : icap'[j].b \in pages'
      BY <3>3, <3>4
    <3> QED BY <3>9, <3>11, <3>12, <3>13, <3>14 DEF BuffersAreKept
  <2>8. BufInv' /\ BuffersAreKept'
    BY <2>7 DEF BufInv, BuffersAreKept
  <2> QED BY <2>3, <2>4, <2>6, <2>8 DEF IInv, TypeInv
<1> QED BY <1>4, <1>5 DEF reconfig_dev_mmap

(* A buffer is freed.                                                      *)
LEMMA FreeStep ==
  ASSUME IInv, NEW p \in Procs, free_reconfig_buffer(p), "signal" \notin hz
  PROVE  IInv'
<1> DEFINE n == BufOf(th[p])
           M == Matching(p, n)
<1>1. /\ At(p, "free") /\ obj' = obj /\ mtx' = mtx /\ hz' = hz /\ Do(p, <<>>)
      /\ entries' = entries \ M /\ pages' = pages \ {e.b : e \in M}
      /\ UNCHANGED <<driver, user, curr_buff, nbuf, rcnfg_lock, hw>>
  BY DEF free_reconfig_buffer, BufOf, user
<1>2. /\ Moved(p) /\ Follows(th[p], th'[p]) /\ Fields(th[p]) /\ Kind(th[p]) = "free"
      /\ th[p] # <<>> /\ obj[p].open
      /\ \A b \in Nat : Mine(p, b)' => Mine(p, b)
  BY <1>1, GoesOn
<1>3. InMtx(th[p]) /\ ~ InRcnfg(th[p]) /\ ~ InRcnfg(th'[p]) /\ Kind(th'[p]) # "alloc"
  BY <1>2 DEF InMtx, InRcnfg, Follows
<1>4. n \in Nat /\ Mine(p, n) /\ \A e \in M : e.b = n /\ e.p = p
  BY <1>2 DEF Fields, Mine, Matching
<1> HIDE DEF n, M
<1>5. MtxInv' /\ LockInv'
  <2>1. MtxInv'
    BY <1>1, <1>2, <1>3, MtxKept DEF IInv
  <2>2. LockInv'
    BY <1>1, <1>2, <1>3, LockKept DEF IInv
  <2> QED BY <2>1, <2>2
<1>6. ThType' /\ UserType' /\ DriverType' /\ HwType' /\ BuffType'
  BY <1>1, <1>2
     DEF IInv, TypeInv, UserType, DriverType, driver, HwType, hw, Moved, user,
         BuffType
<1>7. ASSUME "split" \notin hz' PROVE BufInv' /\ BuffersAreKept'
  <2>1. "split" \notin hz
    BY <1>1, <1>7
  <2>2. /\ \A b \in pages : b = curr_buff.b \/ \E e \in entries : e.b = b
        /\ \A e, f \in entries : e.b = f.b => e = f
        /\ \A e \in entries : e.b \in pages
    BY <2>1 DEF IInv, BuffersAreKept
  <2>3. n # curr_buff.b
    BY <1>4, <2>1 DEF IInv, BufInv
  <2>4. curr_buff' = curr_buff /\ nbuf' = nbuf /\ icap' = icap /\ rcnfg_lock' = rcnfg_lock
    BY <1>1 DEF hw
  <2>5. M \subseteq entries
    BY DEF M, Matching
  <2>6. \A e \in entries' : e.b \in pages'
    BY <1>1, <2>2, <2>5
  <2>7. \A b \in pages' : b = curr_buff'.b \/ \E e \in entries' : e.b = b
    BY <1>1, <2>2, <2>4
  <2>8. curr_buff'.p \in Procs => curr_buff'.b \in pages'
    BY <1>1, <1>4, <2>1, <2>3, <2>4 DEF IInv, BufInv
  <2>9. ASSUME NEW j \in 1 .. Len(icap) PROVE \E e \in entries' : e.b = icap[j].b /\ e.p = rcnfg_lock
    <3>1. PICK e \in entries : e.b = icap[j].b /\ e.p = rcnfg_lock
      BY <2>1, <2>9 DEF IInv, BufInv
    <3>2. Len(icap) = 1
      BY <2>9 DEF IInv, LockInv
    <3>3. Kind(th[rcnfg_lock]) = "wait"
      BY <3>2 DEF IInv, LockInv
    <3>4. e \notin M
      BY <1>2, <1>4, <3>1, <3>3
    <3> QED BY <1>1, <3>1, <3>4
  <2>10. \A q \in Procs : \A b \in Nat : Mine(q, b)' => b \in 1 .. nbuf' /\ b # curr_buff'.b
    <3>1. \A q \in Procs : \A b \in Nat : Mine(q, b)' => Mine(q, b)
      BY <1>2 DEF Moved, Mine
    <3> QED BY <2>1, <2>4, <3>1 DEF IInv, BufInv
  <2>11. \A q \in Procs : Kind(th'[q]) # "alloc"
    BY <1>2, <1>3, <2>1, Alone DEF Moved, InMtx
  <2>12. /\ curr_buff'.b = 0 => curr_buff' = None
         /\ pages' \subseteq 1 .. nbuf' /\ curr_buff'.b \in 0 .. nbuf'
         /\ \A e \in entries' : e.b = curr_buff'.b => e = curr_buff'
    BY <1>1, <2>1, <2>4 DEF IInv, BufInv
  <2>13. BufInv'
    BY <2>4, <2>8, <2>9, <2>10, <2>11, <2>12 DEF BufInv
  <2>14. \A j \in 1 .. Len(icap') : icap'[j].b \in pages'
    BY <2>4, <2>6, <2>9
  <2>15. \A e, f \in entries' : e.b = f.b => e = f
    BY <1>1, <2>2
  <2> QED BY <2>6, <2>7, <2>13, <2>14, <2>15 DEF BuffersAreKept
<1>8. BufInv' /\ BuffersAreKept'
  BY <1>7 DEF BufInv, BuffersAreKept
<1> QED BY <1>5, <1>6, <1>8 DEF IInv, TypeInv

----------------------------------------------------------------------------
(* Reconfiguration *)

(* What the lock's invariant says once no signal has ended a wait.         *)
LEMMA Holding ==
  ASSUME IInv, "signal" \notin hz, NEW p \in Procs, InRcnfg(th[p])
  PROVE  /\ rcnfg_lock = p /\ rcnfg_lock # Free
         /\ \A q \in Procs \ {p} : ~ InRcnfg(th[q])
         /\ Kind(th[p]) # "wait" => icap = <<>> /\ ~ wait_rcnfg
         /\ wait_rcnfg => icap = <<>>
         /\ icap = <<>> \/ Len(icap) = 1
         /\ hz \cap {"signal", "nostart", "wrongbit"} = {} => dcpl \subseteq {Reg(th[p])}
<1>1. rcnfg_lock = p /\ rcnfg_lock # Free
  BY ProcsAssumption DEF IInv, LockInv
<1>2. \A q \in Procs \ {p} : ~ InRcnfg(th[q])
  BY <1>1 DEF IInv, LockInv
<1>3. Len(icap) \in {0, 1} /\ (Len(icap) = 0 => icap = <<>>)
  BY DEF IInv, LockInv, TypeInv, HwType
<1>4. Kind(th[p]) # "wait" => Len(icap) # 1 /\ ~ wait_rcnfg
  BY <1>1 DEF IInv, LockInv
<1>5. wait_rcnfg => Len(icap) # 1
  BY DEF IInv, LockInv
<1>6. hz \cap {"signal", "nostart", "wrongbit"} = {} => dcpl \subseteq {Reg(th[p])}
  BY <1>1 DEF IInv, LockInv
<1> QED BY <1>1, <1>2, <1>3, <1>4, <1>5, <1>6

(* The lock is taken and the region decoupled.                             *)
LEMMA LockStep ==
  ASSUME IInv, "signal" \notin hz, NEW p \in Procs, LockReconfig(p)
  PROVE  IInv'
<1> DEFINE r == RegOf(th[p])
<1>1. /\ At(p, "rlock") /\ rcnfg_lock = Free /\ rcnfg_lock' = p /\ Do(p, <<>>)
      /\ dcpl' = IF r = -1 THEN dcpl ELSE dcpl \cup {r}
      /\ hz' = hz /\ obj' = obj /\ mtx' = mtx
      /\ UNCHANGED <<driver, user, buffs, wait_rcnfg, icap>>
  BY DEF LockReconfig, RegOf, user
<1>2. /\ Moved(p) /\ Follows(th[p], th'[p]) /\ Fields(th[p]) /\ Kind(th[p]) = "rlock"
      /\ th[p] # <<>> /\ obj[p].open
      /\ \A b \in Nat : Mine(p, b)' => Mine(p, b)
  BY <1>1, GoesOn
<1>3. r \in Int /\ InRcnfg(th'[p]) /\ ~ InMtx(th'[p]) /\ Kind(th'[p]) \notin {"alloc", "wait", "runlock"}
  BY <1>2 DEF Fields, Follows, InRcnfg, InMtx
<1>4. Reg(th'[p]) = r
  BY <1>2 DEF Follows, Reg, RegOf
<1> HIDE DEF r
<1>5. icap = <<>> /\ ~ wait_rcnfg
  BY <1>1, ProcsAssumption DEF IInv, LockInv, TypeInv, HwType
<1>6. ThType' /\ UserType' /\ DriverType' /\ BuffType' /\ HwType'
  BY <1>1, <1>2, <1>3
     DEF IInv, TypeInv, UserType, DriverType, driver, BuffType, buffs, HwType,
         Moved, user
<1>7. MtxInv'
  BY <1>1, <1>2, <1>3, MtxKept DEF IInv
<1>8. BufInv' /\ BuffersAreKept'
  <2>1. BufInv'
    BY <1>1, <1>2, <1>3, <1>5, BufKept DEF IInv
  <2>2. BuffersAreKept'
    BY <1>1, KeptKept DEF IInv
  <2> QED BY <2>1, <2>2
<1>9. LockInv'
  <2>1. \A q \in Procs : InRcnfg(th'[q]) => q = p
    BY <1>1, <1>2, ProcsAssumption DEF Moved, IInv, LockInv
  <2>2. icap' = <<>> /\ Len(icap') = 0 /\ ~ wait_rcnfg'
    BY <1>1, <1>5
  <2>3. hz \cap {"signal", "nostart", "wrongbit"} = {} => dcpl = {}
    BY <1>1 DEF IInv, LockInv
  <2>4. hz' \cap {"signal", "nostart", "wrongbit"} = {} => dcpl' \subseteq {Reg(th'[p])}
    BY <1>1, <1>4, <2>3
  <2>5. rcnfg_lock' = p /\ rcnfg_lock' # Free
    BY <1>1, ProcsAssumption
  <2> QED BY <1>3, <2>1, <2>2, <2>4, <2>5 DEF LockInv
<1> QED BY <1>6, <1>7, <1>8, <1>9 DEF IInv, TypeInv

(* The shell is removed.                                                   *)
LEMMA RemoveStep ==
  ASSUME IInv, "signal" \notin hz, NEW p \in Procs, shell_pci_remove(p)
  PROVE  IInv'
<1>1. /\ At(p, "remove") /\ Do(p, <<>>) /\ obj' = obj /\ mtx' = mtx
      /\ hz \subseteq hz' /\ UNCHANGED <<shell, bd, user, buffs, rcnfg_lock, hw>>
  BY DEF shell_pci_remove, Noting, user
<1>2. /\ Moved(p) /\ Follows(th[p], th'[p]) /\ Kind(th[p]) = "remove"
      /\ th[p] # <<>> /\ obj[p].open
      /\ \A b \in Nat : Mine(p, b)' => Mine(p, b)
  BY <1>1, GoesOn
<1>3. InRcnfg(th[p]) /\ InRcnfg(th'[p]) /\ ~ InMtx(th'[p]) /\ Kind(th'[p]) \notin {"alloc", "wait", "runlock"}
  BY <1>2 DEF Follows, InRcnfg, InMtx
<1>4. Reg(th'[p]) = Reg(th[p])
  BY <1>2 DEF Follows, Reg, RegOf
<1>5. ThType' /\ UserType' /\ DriverType' /\ BuffType' /\ HwType'
  BY <1>1, <1>2
     DEF IInv, TypeInv, UserType, DriverType, BuffType, buffs, HwType, Moved,
         user, hw
<1>6. MtxInv'
  BY <1>1, <1>2, <1>3, MtxKept DEF IInv
<1>7. BufInv' /\ BuffersAreKept'
  <2>1. UNCHANGED <<buffs, icap>> /\ rcnfg_lock' = rcnfg_lock
    BY <1>1 DEF hw
  <2>2. BufInv'
    BY <1>2, <1>3, <2>1, BufKept DEF IInv
  <2>3. BuffersAreKept'
    BY <1>1, <2>1, KeptKept DEF IInv
  <2> QED BY <2>2, <2>3
<1>8. LockInv'
  <2>1. /\ rcnfg_lock = p /\ rcnfg_lock # Free /\ icap = <<>> /\ ~ wait_rcnfg
        /\ \A q \in Procs \ {p} : ~ InRcnfg(th[q])
        /\ hz \cap {"signal", "nostart", "wrongbit"} = {} => dcpl \subseteq {Reg(th[p])}
    BY <1>2, <1>3, Holding
  <2>2. \A q \in Procs : InRcnfg(th'[q]) => q = p
    BY <1>2, <2>1 DEF Moved
  <2>3. rcnfg_lock' = p /\ rcnfg_lock' # Free /\ dcpl' = dcpl /\ Len(icap') = 0 /\ ~ wait_rcnfg'
    BY <1>1, <2>1 DEF hw
  <2>4. hz' \cap {"signal", "nostart", "wrongbit"} = {} => dcpl' \subseteq {Reg(th'[p])}
    BY <1>1, <1>4, <2>1, <2>3
  <2> QED BY <1>3, <2>2, <2>3, <2>4 DEF LockInv
<1> QED BY <1>5, <1>6, <1>7, <1>8 DEF IInv, TypeInv

(* The bitstream is given to the hardware, or is not found.                *)
LEMMA StartStep ==
  ASSUME IInv, "signal" \notin hz, NEW p \in Procs, reconfigure_start(p)
  PROVE  IInv'
<1> DEFINE r == RegOf(th[p])
           n == BufOf(th[p])
<1>1. /\ At(p, "start") /\ dcpl' = dcpl \cup {r} /\ mtx' = mtx
      /\ \/ Throw(p, {"nostart"}) /\ icap' = icap
         \/ /\ Matching(p, n) # {} /\ icap' = Append(icap, [r |-> r, b |-> n])
            /\ Do(p, <<>>) /\ obj' = obj /\ hz' = hz
      /\ UNCHANGED <<driver, crid_gen, name, buffs, rcnfg_lock, wait_rcnfg>>
  BY DEF reconfigure_start, RegOf, BufOf
<1>2. th[p] # <<>> /\ Kind(th[p]) = "start" /\ InRcnfg(th[p]) /\ ~ InMtx(th[p]) /\ Fields(th[p]) /\ obj[p].open
  <2>1. th[p] # <<>> /\ Kind(th[p]) = "start"
    BY <1>1, AtStep
  <2>2. Fields(th[p])
    BY <2>1, RestStep DEF IInv, TypeInv, ThType
  <2> QED BY <2>1, <2>2 DEF InRcnfg, InMtx, IInv, MtxInv
<1>3. r \in Int /\ n \in Nat /\ Reg(th[p]) = r
  BY <1>2 DEF Fields, Reg, RegOf
<1> HIDE DEF r, n
<1>4. /\ rcnfg_lock = p /\ rcnfg_lock # Free /\ icap = <<>> /\ ~ wait_rcnfg
      /\ \A q \in Procs \ {p} : ~ InRcnfg(th[q])
      /\ hz \cap {"signal", "nostart", "wrongbit"} = {} => dcpl \subseteq {r}
  BY <1>2, <1>3, Holding
<1>5. rcnfg_lock' = p /\ rcnfg_lock' # Free /\ ~ wait_rcnfg'
  BY <1>1, <1>4
<1>6. CASE Throw(p, {"nostart"}) /\ icap' = icap
  <2>1. /\ Moved(p) /\ obj' \in [Procs -> Objs] /\ th'[p] = <<>>
        /\ obj'[p].open = obj[p].open /\ obj'[p].gen = obj[p].gen /\ hz' = hz \cup {"nostart"}
        /\ \A b \in Nat : Mine(p, b)' => Mine(p, b)
    BY <1>6, Throws
  <2>2. ~ InRcnfg(th'[p]) /\ ~ InMtx(th'[p]) /\ Kind(th'[p]) # "alloc"
    BY <2>1, Nothing DEF InRcnfg, InMtx
  <2>3. MtxInv'
    BY <1>1, <1>2, <2>1, <2>2, MtxKept DEF IInv
  <2>4. BufInv' /\ BuffersAreKept'
    <3>1. BufInv'
      BY <1>1, <1>6, <2>1, <2>2, BufKept DEF IInv
    <3>2. BuffersAreKept'
      BY <1>1, <1>6, <2>1, KeptKept DEF IInv
    <3> QED BY <3>1, <3>2
  <2>5. LockInv'
    <3>1. \A q \in Procs : ~ InRcnfg(th'[q])
      BY <1>4, <2>1, <2>2 DEF Moved
    <3>2. Len(icap') = 0 /\ "nostart" \in hz'
      BY <1>4, <1>6, <2>1
    <3> QED BY <1>5, <3>1, <3>2 DEF LockInv
  <2>6. ThType' /\ UserType' /\ DriverType' /\ BuffType' /\ HwType'
    BY <1>1, <1>3, <1>6, <2>1
       DEF IInv, TypeInv, UserType, DriverType, driver, BuffType, buffs, HwType,
           Moved
  <2> QED BY <2>3, <2>4, <2>5, <2>6 DEF IInv, TypeInv
<1>7. CASE /\ Matching(p, n) # {} /\ icap' = Append(icap, [r |-> r, b |-> n])
           /\ Do(p, <<>>) /\ obj' = obj /\ hz' = hz
  <2>1. Moved(p) /\ Follows(th[p], th'[p]) /\ \A b \in Nat : Mine(p, b)' => Mine(p, b)
    BY <1>1, <1>7, GoesOn
  <2>2. /\ InRcnfg(th'[p]) /\ ~ InMtx(th'[p]) /\ Kind(th'[p]) = "wait"
        /\ Reg(th'[p]) = r /\ Head(th'[p]).r = r
    BY <1>2, <2>1 DEF InRcnfg, InMtx, Follows, Reg, RegOf, r
  <2>3. /\ icap' \in Seq([r : Int, b : Nat]) /\ Len(icap') = 1
        /\ icap'[1].r = r /\ icap'[1].b = n
    BY <1>3, <1>4, <1>7
  <2>4. MtxInv'
    BY <1>1, <1>2, <1>7, <2>1, <2>2, MtxKept DEF IInv
  <2>5. PICK e \in entries : e.b = n /\ e.p = p
    BY <1>7 DEF Matching
  <2>6. BufInv'
    <3>1. \A j \in 1 .. Len(icap') : \E f \in entries : f.b = icap'[j].b /\ f.p = rcnfg_lock'
      BY <1>5, <2>3, <2>5
    <3> QED BY <1>1, <2>1, <2>2, <3>1, BufMoved DEF IInv
  <2>7. BuffersAreKept'
    <3>1. curr_buff' = curr_buff /\ entries' = entries /\ pages' = pages
      BY <1>1 DEF buffs
    <3>2. "split" \notin hz => n \in pages
      BY <2>5 DEF IInv, BuffersAreKept
    <3>3. \A j \in 1 .. Len(icap') : icap'[j].b = n
      BY <2>3
    <3> QED BY <1>7, <3>1, <3>2, <3>3 DEF IInv, BuffersAreKept
  <2>8. LockInv'
    <3>1. \A q \in Procs : InRcnfg(th'[q]) => q = p
      BY <1>4, <2>1 DEF Moved
    <3>2. hz' \cap {"signal", "nostart", "wrongbit"} = {} => dcpl' \subseteq {Reg(th'[p])}
      BY <1>1, <1>4, <1>7, <2>2
    <3>3. r \in dcpl'
      BY <1>1
    <3> QED BY <1>5, <2>2, <2>3, <3>1, <3>2, <3>3 DEF LockInv
  <2>9. ThType' /\ UserType' /\ DriverType' /\ BuffType' /\ HwType'
    BY <1>1, <1>3, <1>7, <2>1, <2>3
       DEF IInv, TypeInv, UserType, DriverType, driver, BuffType, buffs, HwType,
           Moved
  <2> QED BY <2>4, <2>6, <2>7, <2>8, <2>9 DEF IInv, TypeInv
<1> QED BY <1>1, <1>6, <1>7

(* The wait ends, with the interrupt or with a signal.                     *)
LEMMA FinishStep ==
  ASSUME IInv, "signal" \notin hz, NEW p \in Procs, WaitReconfig(p) \/ WaitInterrupted(p)
  PROVE  IInv'
<1> DEFINE r == RegOf(th[p])
<1>1. PICK h : /\ Finish(p, h)
               /\ wait_rcnfg \/ "signal" \in h
  <2>1. CASE WaitReconfig(p) BY <2>1 DEF WaitReconfig
  <2>2. CASE WaitInterrupted(p)
    <3>1. "signal" \in {"signal"} OBVIOUS
    <3> QED BY <2>2, <3>1 DEF WaitInterrupted
  <2> QED BY <2>1, <2>2
<1>2. /\ At(p, "wait") /\ wait_rcnfg' = FALSE /\ dcpl' = dcpl \ {Coupled(p, r)}
      /\ rcnfg_lock' = IF r = -1 THEN rcnfg_lock ELSE Free
      /\ hz' = hz \cup (h \cup IF r # Coupled(p, r) THEN {"wrongbit"} ELSE {})
      /\ Do(p, <<>>) /\ obj' = obj /\ mtx' = mtx
      /\ UNCHANGED <<shell, bd, user, buffs, icap>>
  BY <1>1 DEF Finish, Noting, RegOf, user
<1>3. /\ Moved(p) /\ Follows(th[p], th'[p]) /\ Kind(th[p]) = "wait"
      /\ th[p] # <<>> /\ obj[p].open
      /\ \A b \in Nat : Mine(p, b)' => Mine(p, b)
  BY <1>2, GoesOn
<1>4. /\ Reg(th[p]) = r /\ IF r = -1 THEN Kind(th'[p]) = "runlock" ELSE th'[p] = <<>>
      /\ InRcnfg(th[p])
  BY <1>3 DEF Follows, Reg, RegOf, InRcnfg
<1> HIDE DEF r
<1>5. ~ InMtx(th'[p]) /\ Kind(th'[p]) # "alloc" /\ Kind(th'[p]) # "wait"
  BY <1>4, Nothing DEF InMtx
<1>6. /\ rcnfg_lock = p /\ rcnfg_lock # Free /\ (wait_rcnfg => icap = <<>>)
      /\ \A q \in Procs \ {p} : ~ InRcnfg(th[q])
      /\ hz \cap {"signal", "nostart", "wrongbit"} = {} => dcpl \subseteq {r}
  BY <1>3, <1>4, Holding
<1>7. icap = <<>> \/ "signal" \in hz'
  BY <1>1, <1>2, <1>6
<1>8. MtxInv'
  BY <1>2, <1>3, <1>5, MtxKept DEF IInv
<1>9. BufInv' /\ BuffersAreKept'
  <2>1. BufInv'
    BY <1>2, <1>3, <1>5, <1>7, BufKept DEF IInv
  <2>2. BuffersAreKept'
    BY <1>2, KeptKept DEF IInv
  <2> QED BY <2>1, <2>2
<1>10. ThType' /\ UserType' /\ DriverType' /\ BuffType' /\ HwType'
  BY <1>2, <1>3
     DEF IInv, TypeInv, UserType, DriverType, BuffType, buffs, HwType, Moved,
         user
<1>11. LockInv'
  <2>1. CASE "signal" \in hz'
    BY <2>1 DEF LockInv
  <2>2. CASE "signal" \notin hz'
    <3>1. Len(icap') = 0 /\ ~ wait_rcnfg'
      BY <1>2, <1>7, <2>2
    <3>2. \A q \in Procs \ {p} : ~ InRcnfg(th'[q])
      BY <1>3, <1>6 DEF Moved
    <3>3. hz' \cap {"signal", "nostart", "wrongbit"} = {} => dcpl' = {}
      <4> SUFFICES ASSUME hz' \cap {"signal", "nostart", "wrongbit"} = {} PROVE dcpl' = {}
        OBVIOUS
      <4>1. r = Coupled(p, r) /\ hz \cap {"signal", "nostart", "wrongbit"} = {}
        BY <1>2
      <4> QED BY <1>2, <1>6, <4>1
    <3>4. CASE r = -1
      <4>1. rcnfg_lock' = p /\ rcnfg_lock' # Free /\ Kind(th'[p]) = "runlock" /\ InRcnfg(th'[p])
        BY <1>2, <1>4, <1>6, <3>4 DEF InRcnfg
      <4> QED BY <3>1, <3>2, <3>3, <4>1 DEF LockInv
    <3>5. CASE r # -1
      <4>1. rcnfg_lock' = Free /\ ~ InRcnfg(th'[p])
        BY <1>2, <1>4, <3>5, Nothing DEF InRcnfg
      <4> QED BY <3>1, <3>2, <3>3, <4>1 DEF LockInv
    <3> QED BY <3>4, <3>5
  <2> QED BY <2>1, <2>2
<1> QED BY <1>8, <1>9, <1>10, <1>11 DEF IInv, TypeInv

(* The lock is given back after the new shell was initialised.             *)
LEMMA UnlockStep ==
  ASSUME IInv, "signal" \notin hz, NEW p \in Procs, UnlockReconfig(p)
  PROVE  IInv'
<1>1. /\ At(p, "runlock") /\ rcnfg_lock' = Free /\ Do(p, <<>>) /\ hz' = hz
      /\ obj' = obj /\ mtx' = mtx /\ UNCHANGED <<driver, user, buffs, hw>>
  BY DEF UnlockReconfig, user
<1>2. /\ Moved(p) /\ Follows(th[p], th'[p]) /\ Kind(th[p]) = "runlock"
      /\ th[p] # <<>> /\ obj[p].open
      /\ \A b \in Nat : Mine(p, b)' => Mine(p, b)
  BY <1>1, GoesOn
<1>3. InRcnfg(th[p]) /\ ~ InRcnfg(th'[p]) /\ ~ InMtx(th'[p]) /\ Kind(th'[p]) # "alloc"
  BY <1>2, Nothing DEF Follows, InRcnfg, InMtx
<1>4. /\ rcnfg_lock = p /\ rcnfg_lock # Free /\ icap = <<>> /\ ~ wait_rcnfg
      /\ \A q \in Procs \ {p} : ~ InRcnfg(th[q])
  BY <1>2, <1>3, Holding
<1>5. MtxInv'
  BY <1>1, <1>2, <1>3, MtxKept DEF IInv
<1>6. BufInv' /\ BuffersAreKept'
  <2>1. UNCHANGED <<buffs, icap>>
    BY <1>1 DEF hw
  <2>2. BufInv'
    BY <1>2, <1>3, <1>4, <2>1, BufKept DEF IInv
  <2>3. BuffersAreKept'
    BY <1>1, <2>1, KeptKept DEF IInv
  <2> QED BY <2>2, <2>3
<1>7. ThType' /\ UserType' /\ DriverType' /\ BuffType' /\ HwType'
  BY <1>1, <1>2
     DEF IInv, TypeInv, UserType, DriverType, driver, BuffType, buffs, HwType,
         Moved, user, hw
<1>8. LockInv'
  <2>1. \A q \in Procs : ~ InRcnfg(th'[q])
    BY <1>2, <1>3, <1>4 DEF Moved
  <2>2. Len(icap') = 0 /\ ~ wait_rcnfg' /\ dcpl' = dcpl
    BY <1>1, <1>4 DEF hw
  <2>3. hz' \cap {"signal", "nostart", "wrongbit"} = {} => dcpl' = {}
    BY <1>1, <1>2, <1>4, <2>2 DEF IInv, LockInv
  <2> QED BY <1>1, <2>1, <2>2, <2>3 DEF LockInv
<1> QED BY <1>5, <1>6, <1>7, <1>8 DEF IInv, TypeInv

(* The interrupt: the hardware has loaded a bitstream.                     *)
LEMMA IsrStep ==
  ASSUME IInv, "signal" \notin hz, reconfig_isr
  PROVE  IInv'
<1>1. /\ icap # <<>> /\ icap' = Tail(icap) /\ wait_rcnfg' = TRUE
      /\ dcpl' \subseteq dcpl /\ hz' = hz
      /\ UNCHANGED <<bd, th, user, buffs, rcnfg_lock>>
      /\ shell' \in Shells
  BY DEF reconfig_isr, IInv, TypeInv, DriverType
<1>2. Len(icap) = 1 /\ icap' = <<>>
  <2>1. icap \in Seq([r : Int, b : Nat]) /\ Len(icap) \in {0, 1}
    BY DEF IInv, LockInv, TypeInv, HwType
  <2>2. Len(icap) = 1
    BY <1>1, <2>1
  <2>3. Tail(icap) \in Seq([r : Int, b : Nat]) /\ Len(Tail(icap)) = 0
    BY <1>1, <2>1, <2>2, TakeFirst
  <2>4. Tail(icap) = <<>>
    BY <2>3, NoElement
  <2> QED BY <1>1, <2>2, <2>4
<1>3. rcnfg_lock \in Procs /\ Kind(th[rcnfg_lock]) = "wait"
  BY <1>2 DEF IInv, LockInv
<1>4. ThType' /\ UserType' /\ DriverType' /\ BuffType'
  BY <1>1 DEF IInv, TypeInv, ThType, UserType, DriverType, BuffType, buffs, user
<1>5. HwType'
  BY <1>1, <1>2 DEF IInv, TypeInv, HwType
<1>6. MtxInv'
  BY <1>1 DEF IInv, MtxInv, user
<1>7. BufInv'
  <2>1. curr_buff' = curr_buff /\ entries' = entries /\ pages' = pages /\ nbuf' = nbuf /\ obj' = obj /\ th' = th
    BY <1>1 DEF buffs, user
  <2>2. \A q : \A b : Mine(q, b)' <=> Mine(q, b)
    BY <2>1 DEF Mine
  <2>3. Len(icap') = 0
    BY <1>2
  <2> QED BY <1>1, <2>1, <2>2, <2>3 DEF IInv, BufInv
<1>8. BuffersAreKept'
  BY <1>1, <1>2 DEF IInv, BuffersAreKept, buffs
<1>9. LockInv'
  <2>1. \A q \in Procs : InRcnfg(th'[q]) => rcnfg_lock' = q
    BY <1>1 DEF IInv, LockInv
  <2>2. rcnfg_lock' \in Procs /\ Kind(th'[rcnfg_lock']) = "wait" /\ InRcnfg(th'[rcnfg_lock']) /\ rcnfg_lock' # Free
    BY <1>1, <1>3, ProcsAssumption DEF InRcnfg
  <2>3. Len(icap') = 0
    BY <1>2
  <2>4. hz' \cap {"signal", "nostart", "wrongbit"} = {} => dcpl' \subseteq {Reg(th'[rcnfg_lock'])}
    <3>1. hz \cap {"signal", "nostart", "wrongbit"} = {} => dcpl \subseteq {Reg(th[rcnfg_lock])}
      BY <1>1, <2>2 DEF IInv, LockInv
    <3> QED BY <1>1, <3>1
  <2> QED BY <2>1, <2>2, <2>3, <2>4 DEF LockInv
<1> QED BY <1>4, <1>5, <1>6, <1>7, <1>8, <1>9 DEF IInv, TypeInv

(* The steps of the driver that only change its own state.                 *)
LEMMA QuietStep ==
  ASSUME IInv, Quiet
  PROVE  IInv'
<1>1. PICK h \in SUBSET {"leak", "inuse", "shellgone"} : hz' = hz \cup h
  BY DEF Quiet
<1>2. /\ "split" \in hz' <=> "split" \in hz
      /\ "signal" \in hz' <=> "signal" \in hz
      /\ "nostart" \in hz' <=> "nostart" \in hz
      /\ hz' \cap {"signal", "nostart", "wrongbit"} = {} <=> hz \cap {"signal", "nostart", "wrongbit"} = {}
      /\ hz' \cap {"split"} = {} <=> hz \cap {"split"} = {}
  BY <1>1
<1>3. /\ th' = th /\ obj' = obj /\ crid_gen' = crid_gen /\ name' = name /\ mtx' = mtx
      /\ curr_buff' = curr_buff /\ entries' = entries /\ pages' = pages /\ nbuf' = nbuf
      /\ rcnfg_lock' = rcnfg_lock /\ wait_rcnfg' = wait_rcnfg /\ icap' = icap /\ dcpl' = dcpl
  BY DEF Quiet, rvars, user, buffs, hw
<1>4. TypeInv'
  BY <1>3
     DEF Quiet, IInv, TypeInv, ThType, UserType, DriverType, BuffType, HwType
<1>5. MtxInv'
  BY <1>2, <1>3 DEF IInv, MtxInv
<1>6. BufInv'
  <2>1. \A q : \A b : Mine(q, b)' <=> Mine(q, b)
    BY <1>3 DEF Mine
  <2> QED BY <1>2, <1>3, <2>1 DEF IInv, BufInv
<1>7. LockInv'
  BY <1>2, <1>3 DEF IInv, LockInv
<1>8. BuffersAreKept'
  BY <1>2, <1>3 DEF IInv, BuffersAreKept
<1> QED BY <1>4, <1>5, <1>6, <1>7, <1>8 DEF IInv

----------------------------------------------------------------------------
(* The theorems *)

(* The initial states.                                                     *)
LEMMA InitIInv ==
  ASSUME Init
  PROVE  IInv
<1>1. /\ th = [p \in Procs |-> <<>>] /\ obj = [p \in Procs |-> NoObj] /\ crid_gen = [p \in Procs |-> 0]
      /\ name = 0 /\ mtx = <<>> /\ curr_buff = None /\ entries = {} /\ pages = {} /\ nbuf = 0
      /\ rcnfg_lock = Free /\ wait_rcnfg = FALSE /\ icap = <<>> /\ dcpl = {} /\ hz = {}
      /\ shell \in Shells /\ bd = [known |-> NoShell, inuse |-> FALSE]
  BY DEF Init, DInit
<1>2. \A p \in Procs : th[p] = <<>> /\ ~ obj[p].open /\ obj[p].mem = {} /\ ~ InMtx(th[p]) /\ ~ InRcnfg(th[p])
        /\ Kind(th[p]) # "alloc"
  BY <1>1, Nothing DEF NoObj, InMtx, InRcnfg
<1>3. ThType
  BY <1>1, Nothing DEF ThType
<1>4. UserType
  BY <1>1 DEF UserType, Objs, NoObj
<1>5. BuffType /\ HwType /\ DriverType
  <2>1. BuffType
    BY <1>1 DEF BuffType, Buffs, None
  <2>2. HwType
    <3>1. <<>> \in Seq([r : Int, b : Nat]) /\ {} \subseteq Int /\ FALSE \in BOOLEAN
      OBVIOUS
    <3> QED BY <1>1, <3>1 DEF HwType
  <2>3. DriverType
    BY <1>1 DEF DriverType
  <2> QED BY <2>1, <2>2, <2>3
<1>6. MtxInv
  BY <1>2 DEF MtxInv
<1>7. BufInv
  <2>1. None.b = 0 /\ None.p \notin Procs
    BY ProcsAssumption DEF None
  <2>2. \A p \in Procs : \A b : ~ Mine(p, b)
    BY <1>2, Nothing DEF Mine
  <2> QED BY <1>1, <1>2, <2>1, <2>2 DEF BufInv
<1>8. LockInv
  BY <1>1, <1>2 DEF LockInv
<1>9. BuffersAreKept
  BY <1>1 DEF BuffersAreKept
<1> QED BY <1>3, <1>4, <1>5, <1>6, <1>7, <1>8, <1>9 DEF IInv, TypeInv

(* Every step preserves the invariant.                                     *)
LEMMA NextIInv ==
  ASSUME IInv, [Next]_vars
  PROVE  IInv'
<1>1. CASE Next
  <2>0. "signal" \notin hz
    BY <1>1 DEF Next, Broken
  <2>1. ASSUME NEW p \in Procs, Step(p) PROVE IInv'
    BY <2>0, <2>1, DtorStep, MlockStep, MunlockStep, CheckStep, AllocStep,
       MmapStep, FreeStep,
       LockStep, RemoveStep, StartStep, FinishStep, UnlockStep DEF Step
  <2>2. ASSUME NEW p \in Procs, cRcnfg(p) \/ call(p) \/ destroy(p) \/ kill(p) \/ WaitInterrupted(p)
        PROVE  IInv'
    BY <2>0, <2>2, ConstructorStep, CallStep, DestroyStep, KillStep, FinishStep
  <2>3. CASE reconfig_isr
    BY <2>0, <2>3, IsrStep
  <2>4. CASE \/ Stage /\ UNCHANGED rvars
             \/ pci_probe /\ UNCHANGED rvars
             \/ pci_remove /\ UNCHANGED rvars
    BY <2>4, DriverSteps, QuietStep DEF IInv
  <2> QED BY <1>1, <2>1, <2>2, <2>3, <2>4 DEF Next, Progress
<1>2. CASE UNCHANGED vars
  <2>1. /\ th' = th /\ obj' = obj /\ crid_gen' = crid_gen /\ name' = name /\ mtx' = mtx
        /\ curr_buff' = curr_buff /\ entries' = entries /\ pages' = pages /\ nbuf' = nbuf
        /\ rcnfg_lock' = rcnfg_lock /\ wait_rcnfg' = wait_rcnfg /\ icap' = icap /\ dcpl' = dcpl
        /\ mem_lock' = mem_lock /\ nops' = nops /\ hz' = hz /\ bd' = bd /\ shell' = shell
    BY <1>2 DEF vars, dvars, rvars, user, buffs, hw
  <2>2. UNCHANGED rvars
    BY <2>1 DEF rvars, user, buffs, hw
  <2>3. hz' = hz \cup {} /\ {} \in SUBSET {"leak", "inuse", "shellgone"}
    BY <2>1
  <2>4. Quiet
    BY <2>1, <2>2, <2>3 DEF Quiet, IInv, TypeInv, DriverType
  <2> QED BY <2>4, QuietStep
<1> QED BY <1>1, <1>2

(***************************************************************************)
(* The inductive invariant: who is inside reconfig_mtx and rcnfg_lock,     *)
(* which buffers exist, and what the hardware is loading.                  *)
(***************************************************************************)
THEOREM ReconfigInvariant == Spec => []IInv
<1>1. Init => IInv
  BY InitIInv
<1>2. IInv /\ [Next]_vars => IInv'
  BY NextIInv
<1> QED BY <1>1, <1>2, PTL DEF Spec

(***************************************************************************)
(* The hardware loads one bitstream at a time, into a region that is       *)
(* decoupled, under rcnfg_lock; when nobody reconfigures every region is   *)
(* coupled (reconfigure_start, the wait in the ioctl, reconfig_isr).       *)
(***************************************************************************)
THEOREM ReconfigDecouples == Spec => []DecouplingFollowsTheWrite
<1>1. IInv => DecouplingFollowsTheWrite
  <2> SUFFICES ASSUME IInv PROVE DecouplingFollowsTheWrite
    OBVIOUS
  <2>1. ASSUME "signal" \notin hz
        PROVE  Len(icap) <= 1 /\ \A j \in 1 .. Len(icap) : icap[j].r \in dcpl /\ rcnfg_lock # Free
    <3>1. Len(icap) \in {0, 1} /\ (Len(icap) = 1 => rcnfg_lock \in Procs /\ icap[1].r \in dcpl)
      BY <2>1 DEF IInv, LockInv
    <3>2. rcnfg_lock \in Procs => rcnfg_lock # Free
      BY ProcsAssumption
    <3>3. ASSUME NEW j \in 1 .. Len(icap) PROVE j = 1 /\ Len(icap) = 1
      <4>1. CASE Len(icap) = 0 BY <3>3, <4>1
      <4>2. CASE Len(icap) = 1 BY <3>3, <4>2
      <4> QED BY <3>1, <4>1, <4>2
    <3>4. Len(icap) <= 1
      BY <3>1
    <3> QED BY <3>1, <3>2, <3>3, <3>4, Zenon
  <2>2. hz \cap {"signal", "nostart", "wrongbit"} = {} /\ rcnfg_lock = Free => dcpl = {}
    BY DEF IInv, LockInv
  <2> QED BY <2>1, <2>2 DEF DecouplingFollowsTheWrite
<1> QED BY <1>1, ReconfigInvariant, PTL

(***************************************************************************)
(* No buffer of the driver is lost, mapped twice or freed while the        *)
(* hardware reads it, as long as reconfig_mtx is one mutex                 *)
(* (alloc_reconfig_buffer, reconfig_dev_mmap, free_reconfig_buffer).       *)
(***************************************************************************)
THEOREM ReconfigBuffers == Spec => []BuffersAreKept
BY ReconfigInvariant, PTL DEF IInv

=============================================================================
