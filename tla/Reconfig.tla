------------------------------ MODULE Reconfig ------------------------------
(***************************************************************************)
(* Partial reconfiguration: the cRcnfg objects of several processes, the   *)
(* reconfiguration device (reconfig_ops.c, reconfig_mem.c, reconfig_hw.c)  *)
(* and its interrupt, over the driver of DriverLife: IOCTL_RECONFIGURE_    *)
(* SHELL removes the shell and initialises the new one.                    *)
(*                                                                         *)
(* A process works through a list of steps, the points where it can wait   *)
(* or where another process can come in between.                           *)
(***************************************************************************)
EXTENDS DriverLife

CONSTANTS
  Procs,     \* processes
  MaxOps     \* bound: calls of cRcnfg

Free == "free"
None == [b |-> 0, p |-> Free, crid |-> 0]

ASSUME ProcsAssumption == Free \notin Procs

VARIABLES
  th,          \* steps a process still has to do
  obj,         \* the process's cRcnfg object
  crid_gen,    \* cRcnfg::crid_gen
  name,        \* the mutex the name reconfig_mtx stands for (0: none)
  mtx,         \* holder of each mutex that has had the name
  curr_buff,   \* allocated, not yet mapped
  entries,     \* reconfig_buffs_map
  pages,       \* buffers whose pages are allocated
  mem_lock, rcnfg_lock,
  wait_rcnfg,  \* the completion flag
  icap,        \* bitstreams the hardware is loading
  dcpl,        \* decoupled regions
  nbuf, nops

buffs == <<curr_buff, entries, pages, nbuf>>
hw == <<wait_rcnfg, icap, dcpl>>
user == <<obj, crid_gen, name, mtx, nops>>
rvars == <<th, user, buffs, mem_lock, rcnfg_lock, hw>>
vars == <<dvars, rvars>>

NoObj == [open |-> FALSE, failed |-> FALSE, gen |-> 0, crid |-> 0, mem |-> {}]

Init ==
  /\ DInit
  /\ th = [p \in Procs |-> <<>>] /\ obj = [p \in Procs |-> NoObj]
  /\ crid_gen = [p \in Procs |-> 0]
  /\ name = 0 /\ mtx = <<>>
  /\ curr_buff = None /\ entries = {} /\ pages = {} /\ nbuf = 0
  /\ mem_lock = Free /\ rcnfg_lock = Free
  /\ wait_rcnfg = FALSE /\ icap = <<>> /\ dcpl = {}
  /\ nops = 0

St(s) == [s |-> s]
At(p, s) == th[p] # <<>> /\ Head(th[p]).s = s
Do(p, more) == th' = [th EXCEPT ![p] = more \o Tail(@)]
Noting(h) == hz' = hz \cup h
driver == <<shell, bd, bound, prog, held, twice, nfails>>

(* An exception leaves the call where it is; what was locked stays locked. *)
Throw(p, h) ==
  /\ th' = [th EXCEPT ![p] = <<>>]
  /\ obj' = [obj EXCEPT ![p].failed = TRUE]
  /\ Noting(h)

----------------------------------------------------------------------------
(* Calls of cRcnfg *)

Call(p) == th[p] = <<>> /\ nops < MaxOps /\ nops' = nops + 1

(* The constructor. Once the name is removed, the next one creates a       *)
(* mutex of its own, whatever others still hold.                           *)
cRcnfg(p) ==
  /\ Call(p) /\ bound /\ prog = <<>> /\ ~obj[p].open
  /\ name' = IF name = 0 THEN Len(mtx) + 1 ELSE name
  /\ mtx' = IF name = 0 THEN Append(mtx, Free) ELSE mtx
  /\ obj' = [obj EXCEPT ![p] = [NoObj EXCEPT !.open = TRUE, !.gen = name', !.crid = crid_gen[p]]]
  /\ crid_gen' = [crid_gen EXCEPT ![p] = @ + 1]
  /\ Noting(IF \E q \in Procs \ {p} : obj[q].open /\ obj[q].gen # name' THEN {"split"} ELSE {})
  /\ UNCHANGED <<driver, th, buffs, mem_lock, rcnfg_lock, hw>>

(* Buffers of the driver, from the main thread or another one.             *)
getMem(main) == <<St("mlock"), St("check"), St("alloc"), [s |-> "mmap", main |-> main], St("munlock")>>
freeMem(b) == <<St("mlock"), [s |-> "free", b |-> b], St("munlock")>>

(* readBitstream, reconfigureApp and reconfigureShell with a bitstream     *)
(* that was read, or an empty file (0), for which getMem allocates nothing. *)
Calls(p) ==
  {getMem(main) : main \in BOOLEAN}
  \cup {<<[s |-> "rlock", r |-> r], [s |-> "start", b |-> b, r |-> r], [s |-> "wait", r |-> r]>> :
          b \in obj[p].mem \cup {0}, r \in Regs(bd.known)}
  \cup {<<[s |-> "rlock", r |-> -1], St("remove"), [s |-> "start", b |-> b, r |-> -1],
          [s |-> "wait", r |-> -1], St("runlock")>> : b \in obj[p].mem \cup {0}}

call(p) ==
  /\ Call(p) /\ obj[p].open /\ ~obj[p].failed
  /\ \E c \in Calls(p) : th' = [th EXCEPT ![p] = c]
  /\ UNCHANGED <<driver, hz, obj, crid_gen, name, mtx, buffs, mem_lock, rcnfg_lock, hw>>

(* The destructor frees every buffer, removes the name and closes.         *)
destroy(p) ==
  /\ th[p] = <<>> /\ obj[p].open
  /\ th' = [th EXCEPT ![p] = <<St("dtor")>>]
  /\ UNCHANGED <<driver, hz, user, buffs, mem_lock, rcnfg_lock, hw>>

dtor(p) ==
  /\ At(p, "dtor")
  /\ \/ /\ \E b \in obj[p].mem :
             /\ Do(p, Append(freeMem(b), St("dtor")))
             /\ obj' = [obj EXCEPT ![p].mem = @ \ {b}]
        /\ UNCHANGED name
     \/ /\ obj[p].mem = {}
        /\ obj' = [obj EXCEPT ![p] = NoObj]
        /\ name' = 0
        /\ Do(p, <<>>)
  /\ UNCHANGED <<driver, hz, crid_gen, mtx, nops, buffs, mem_lock, rcnfg_lock, hw>>

(* A process dies between two system calls: nothing is freed or unlocked.  *)
kill(p) ==
  /\ obj[p].open /\ "killed" \notin hz
  /\ th[p] # <<>> => Head(th[p]).s \in {"mlock", "mmap", "munlock", "free"}
  /\ th' = [th EXCEPT ![p] = <<>>]
  /\ obj' = [obj EXCEPT ![p] = NoObj]
  /\ crid_gen' = [crid_gen EXCEPT ![p] = 0]
  /\ Noting({"killed"})
  /\ UNCHANGED <<driver, name, mtx, nops, buffs, mem_lock, rcnfg_lock, hw>>

----------------------------------------------------------------------------
(* getMem and freeMem *)

(* Mutant: the mutex is not waited for.                                    *)
LockNoWait(p) ==
  /\ At(p, "mlock")
  /\ mtx' = [mtx EXCEPT ![obj[p].gen] = p]
  /\ Do(p, <<>>)
  /\ UNCHANGED <<driver, hz, obj, crid_gen, name, nops, buffs, mem_lock, rcnfg_lock, hw>>

mlock(p) ==
  /\ At(p, "mlock") /\ mtx[obj[p].gen] = Free
  /\ mtx' = [mtx EXCEPT ![obj[p].gen] = p]
  /\ Do(p, <<>>)
  /\ UNCHANGED <<driver, hz, obj, crid_gen, name, nops, buffs, mem_lock, rcnfg_lock, hw>>

munlock(p) ==
  /\ At(p, "munlock")
  /\ mtx' = [mtx EXCEPT ![obj[p].gen] = Free]
  /\ Do(p, <<>>)
  /\ UNCHANGED <<driver, hz, obj, crid_gen, name, nops, buffs, mem_lock, rcnfg_lock, hw>>

(* IOCTL_ALLOC_HOST_RECONFIG_MEM looks for an unmapped buffer before it    *)
(* takes mem_lock.                                                         *)
AllocCheck(p) ==
  /\ At(p, "check")
  /\ IF curr_buff.b # 0 THEN Throw(p, {"thrown"}) ELSE Do(p, <<>>) /\ UNCHANGED <<obj, hz>>
  /\ UNCHANGED <<driver, crid_gen, name, mtx, nops, buffs, mem_lock, rcnfg_lock, hw>>

(* Failing pages are given back; failing to get the page array returns     *)
(* with mem_lock held and n_pages set.                                     *)
alloc_reconfig_buffer(p) ==
  /\ At(p, "alloc") /\ mem_lock = Free
  /\ nbuf' = nbuf + 1
  /\ \/ /\ pages' = pages \cup {nbuf'}
        /\ curr_buff' = [b |-> nbuf', p |-> p, crid |-> obj[p].crid]
        /\ Do(p, <<>>)
        /\ UNCHANGED <<mem_lock, obj, hz, nfails>>
     \/ /\ nfails < MaxFails /\ nfails' = nfails + 1
        /\ curr_buff' = None
        /\ Throw(p, {"thrown"})
        /\ UNCHANGED <<mem_lock, pages>>
     \/ /\ nfails < MaxFails /\ nfails' = nfails + 1
        /\ curr_buff' = [curr_buff EXCEPT !.b = nbuf']
        /\ mem_lock' = p
        /\ Throw(p, {"thrown"})
        /\ UNCHANGED pages
  /\ UNCHANGED <<shell, bd, bound, prog, held, twice, crid_gen, name, mtx, nops, entries, rcnfg_lock, hw>>

(* reconfig_dev_mmap compares the process ID of getMem with current->pid,  *)
(* the ID of the calling thread. A failing remap returns with mem_lock.    *)
reconfig_dev_mmap(p) ==
  /\ At(p, "mmap")
  /\ \/ /\ curr_buff.b = 0 \/ curr_buff.p # p \/ ~Head(th[p]).main
        /\ Throw(p, {"thrown"})
        /\ UNCHANGED <<mem_lock, curr_buff, entries, nfails>>
     \/ /\ curr_buff.b # 0 /\ curr_buff.p = p /\ Head(th[p]).main /\ mem_lock = Free
        /\ entries' = entries \cup {curr_buff}
        /\ \/ /\ curr_buff' = None
              /\ obj' = [obj EXCEPT ![p].mem = @ \cup {curr_buff.b}]
              /\ Do(p, <<>>)
              /\ UNCHANGED <<mem_lock, hz, nfails>>
           \/ /\ nfails < MaxFails /\ nfails' = nfails + 1
              /\ mem_lock' = p
              /\ Throw(p, {"thrown"})
              /\ UNCHANGED curr_buff
  /\ UNCHANGED <<shell, bd, bound, prog, held, twice, crid_gen, name, mtx, nops, pages, nbuf, rcnfg_lock, hw>>

Matching(p, b) == {e \in entries : e.p = p /\ e.crid = obj[p].crid /\ e.b = b}

(* munmap and IOCTL_FREE_HOST_RECONFIG_MEM.                                *)
free_reconfig_buffer(p) ==
  /\ At(p, "free")
  /\ LET M == Matching(p, Head(th[p]).b) IN
     /\ entries' = entries \ M
     /\ pages' = pages \ {e.b : e \in M}
  /\ Do(p, <<>>)
  /\ UNCHANGED <<driver, hz, user, curr_buff, nbuf, mem_lock, rcnfg_lock, hw>>

----------------------------------------------------------------------------
(* IOCTL_RECONFIGURE_APP and IOCTL_RECONFIGURE_SHELL (region -1) *)

(* An application region is decoupled before the bitstream is looked for.  *)
LockReconfig(p) ==
  /\ At(p, "rlock") /\ rcnfg_lock = Free
  /\ rcnfg_lock' = p
  /\ dcpl' = IF Head(th[p]).r = -1 THEN dcpl ELSE dcpl \cup {Head(th[p]).r}
  /\ Do(p, <<>>)
  /\ UNCHANGED <<driver, hz, user, buffs, mem_lock, wait_rcnfg, icap>>

shell_pci_remove(p) ==
  /\ At(p, "remove")
  /\ prog' = ShellRemove
  /\ Noting(ShellGone)
  /\ Do(p, <<>>)
  /\ UNCHANGED <<shell, bd, bound, held, twice, nfails, user, buffs, mem_lock, rcnfg_lock, hw>>

(* No buffer for the bitstream: the ioctl returns with rcnfg_lock held,    *)
(* the region decoupled and the shell removed.                             *)
reconfigure_start(p) ==
  /\ At(p, "start") /\ prog = <<>>
  /\ LET h == Head(th[p]) IN
     /\ dcpl' = dcpl \cup {h.r}
     /\ IF Matching(p, h.b) = {}
        THEN Throw(p, {"nostart"}) /\ UNCHANGED icap
        ELSE /\ icap' = Append(icap, [r |-> h.r, b |-> h.b])
             /\ Do(p, <<>>) /\ UNCHANGED <<obj, hz>>
  /\ UNCHANGED <<driver, crid_gen, name, mtx, nops, buffs, mem_lock, rcnfg_lock, wait_rcnfg>>

(* The region decoupled is the argument vfid, the one coupled is crid.     *)
Coupled(p, r) == IF r = -1 THEN -1 ELSE obj[p].crid

(* After the wait the flag is cleared, the region coupled, and the new     *)
(* shell initialised.                                                      *)
Finish(p, h) ==
  /\ At(p, "wait")
  /\ wait_rcnfg' = FALSE
  /\ LET r == Head(th[p]).r IN
     /\ dcpl' = dcpl \ {Coupled(p, r)}
     /\ prog' = IF r = -1 THEN ShellStages ELSE prog
     /\ rcnfg_lock' = IF r = -1 THEN rcnfg_lock ELSE Free
     /\ Noting(h \cup IF r # Coupled(p, r) THEN {"wrongbit"} ELSE {})
  /\ Do(p, <<>>)
  /\ UNCHANGED <<shell, bd, bound, held, twice, nfails, user, buffs, mem_lock, icap>>

(* Mutant: the region is coupled without waiting.                          *)
NoWait(p) == Finish(p, {})

(* The wait ends with the completion, or early with a signal.              *)
WaitReconfig(p) == wait_rcnfg /\ Finish(p, {})

WaitInterrupted(p) == ~wait_rcnfg /\ Finish(p, {"signal"})

(* The result of shell_pci_init is not looked at.                          *)
UnlockReconfig(p) ==
  /\ At(p, "runlock") /\ prog = <<>>
  /\ rcnfg_lock' = Free
  /\ Do(p, <<>>)
  /\ UNCHANGED <<driver, hz, user, buffs, mem_lock, hw>>

(* Mutant: the interrupt does not wake the ioctl.                          *)
NoFlag ==
  /\ icap # <<>>
  /\ icap' = Tail(icap)
  /\ shell' \in IF Head(icap).r = -1 THEN Shells ELSE {shell}
  /\ dcpl' = IF Head(icap).r = -1 THEN dcpl \cap {-1} ELSE dcpl
  /\ UNCHANGED <<bd, bound, prog, held, twice, nfails, hz, th, user, buffs, mem_lock, rcnfg_lock, wait_rcnfg>>

(* The hardware has loaded a bitstream. The registers of a new shell, the  *)
(* decoupling of its regions among them, have their reset values.          *)
reconfig_isr ==
  /\ icap # <<>>
  /\ icap' = Tail(icap)
  /\ wait_rcnfg' = TRUE
  /\ shell' \in IF Head(icap).r = -1 THEN Shells ELSE {shell}
  /\ dcpl' = IF Head(icap).r = -1 THEN dcpl \cap {-1} ELSE dcpl
  /\ UNCHANGED <<bd, bound, prog, held, twice, nfails, hz, th, user, buffs, mem_lock, rcnfg_lock>>

----------------------------------------------------------------------------
Step(p) ==
  \/ dtor(p) \/ mlock(p) \/ munlock(p) \/ AllocCheck(p) \/ alloc_reconfig_buffer(p)
  \/ reconfig_dev_mmap(p) \/ free_reconfig_buffer(p) \/ LockReconfig(p) \/ shell_pci_remove(p)
  \/ reconfigure_start(p) \/ WaitReconfig(p) \/ UnlockReconfig(p)

Progress == (\E p \in Procs : Step(p)) \/ reconfig_isr \/ (Stage /\ UNCHANGED rvars)

(* After a signal, or when a shell is removed that is not there, nothing   *)
(* is promised and the behaviour is not followed.                          *)
Broken == {"signal", "shellgone"}

(* An open file keeps the module loaded.                                   *)
Next ==
  /\ hz \cap Broken = {}
  /\ \/ Progress
     \/ \E p \in Procs : cRcnfg(p) \/ call(p) \/ destroy(p) \/ kill(p) \/ WaitInterrupted(p)
     \/ pci_probe /\ UNCHANGED rvars
     \/ pci_remove /\ (\A p \in Procs : ~obj[p].open) /\ UNCHANGED rvars

Spec == Init /\ [][Next]_vars /\ WF_vars(Progress /\ hz \cap Broken = {})

----------------------------------------------------------------------------
(***************************************************************************)
(* The hardware loads one bitstream at a time, under rcnfg_lock, and the   *)
(* region it goes to is decoupled until it is complete; when nobody        *)
(* reconfigures, every region is coupled. Exceptions: a wait that a signal *)
(* ends, a bitstream that is not found, and a vFPGA ID that differs from   *)
(* the ID of the cRcnfg object, whose bit is the one that is cleared.      *)
(***************************************************************************)
DecouplingFollowsTheWrite ==
  /\ "signal" \notin hz =>
       /\ Len(icap) <= 1
       /\ \A j \in 1 .. Len(icap) : icap[j].r \in dcpl /\ rcnfg_lock # Free
  /\ hz \cap {"signal", "nostart", "wrongbit"} = {} /\ rcnfg_lock = Free => dcpl = {}

(***************************************************************************)
(* Every buffer can be found: it is the one that waits to be mapped, or in *)
(* the map under one owner; and the hardware reads only pages that are     *)
(* allocated. The check in alloc_reconfig_buffer does not ensure it, only  *)
(* reconfig_mtx does, so it is not promised once a destructor has removed  *)
(* the name and a third object created a second mutex.                     *)
(***************************************************************************)
BuffersAreKept ==
  hz \cap {"split"} = {} =>
    /\ \A b \in pages : b = curr_buff.b \/ \E e \in entries : e.b = b
    /\ \A e, f \in entries : e.b = f.b => e = f
    /\ {e.b : e \in entries} \subseteq pages
    /\ \A j \in 1 .. Len(icap) : icap[j].b \in pages

(***************************************************************************)
(* Every call returns: nobody waits for ever for the mutex, for rcnfg_lock *)
(* or for the interrupt, also while a shell is exchanged. Exceptions: an   *)
(* exception or death inside getMem or freeMem leaves the mutex locked,    *)
(* and a failed start leaves rcnfg_lock locked.                            *)
(***************************************************************************)
CallsReturn ==
  \A p \in Procs : th[p] # <<>> ~> (th[p] = <<>> \/ hz \cap (Broken \cup {"killed", "thrown", "nostart"}) # {})

=============================================================================
