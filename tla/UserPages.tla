----------------------------- MODULE UserPages -----------------------------
(***************************************************************************)
(* The memory of a vFPGA: user pages pinned on demand and mapped into its  *)
(* TLB (vfpga_gup.c), card memory and the commands to the hardware         *)
(* (vfpga_hw.c), the memory ioctls (vfpga_ops.c), the page-fault worker    *)
(* (vfpga_isr.c), and the state machine of the TLB that serves one         *)
(* direction (tlb_fsm.sv), one per member of Sides.                        *)
(*                                                                         *)
(* A thread of the kernel is the sequence of steps it has yet to make; a   *)
(* step is what happens between two points where the code can block, or    *)
(* one command to the hardware. There is one thread per cThread (its       *)
(* ioctls), the page-fault worker "pf" and the move notification "mv" of   *)
(* the exporter of a DMABuf. An entry of user_buff_map is keyed by ctid    *)
(* and first page. A page of a process is known by its number; addresses,  *)
(* huge pages and the format of a TLB entry are left out.                  *)
(***************************************************************************)
EXTENDS Integers, Sequences, FiniteSets, FiniteSetsExt

CONSTANTS
  Ctids,
  Proc,       \* [Ctids -> the host process (hpid)]
  Sides,      \* directions, each with a TLB state machine
  Reqs,       \* ranges [v, n] of the map ioctl, in pages
  Moves,      \* ranges of the unmap, offload and sync ioctls
  FaultPages, \* pages the user logic touches
  DmaPages,   \* pages that belong to DMABufs of one page
  NBuckets,   \* size of the hash table of entries
  NChunks,    \* chunks of card memory
  MaxOps,     \* bound: ioctls and move notifications
  MaxFaults   \* bound: page faults

Span(v, n) == v .. v + n - 1
Pages == UNION {Span(r.v, r.n) : r \in Reqs}
Procs == {Proc[c] : c \in Ctids}
Threads == Ctids \cup {"pf", "mv"}
Bucket(v) == v % NBuckets
Free == "free"

ASSUME PagesAssumption ==
  /\ Ctids \cap {"pf", "mv", Free} = {}
  /\ Reqs # {} /\ \A r \in Reqs : r.v \in Nat /\ r.n \in Nat \ {0}
  /\ Moves \subseteq Reqs /\ FaultPages \subseteq Pages
  /\ DmaPages \subseteq Nat /\ DmaPages \cap Pages = {}
  /\ {NBuckets, NChunks} \subseteq Nat \ {0}

VARIABLES
  entries,   \* user_buff_map: <<ctid, vaddr>> to n_pages, host, cpages, dma, gen
  pins,      \* references the driver holds on a host page of a process
  salloc,    \* free card chunks, the next one first
  card_lock, \* held for ever by an allocation that failed
  tlb,       \* entries of the TLB: ctid, page, side of memory, address
  mmu_lock,
  flag,      \* wait_invldt, wait_offload, wait_sync
  th,        \* [Threads -> steps to make]
  registered,
  fsm, rtrn, \* state of a TLB state machine; where an invalidation returns to
  cmdq,      \* lock and invalidation commands on their way to it
  done,      \* its invalidation completions; an interrupt takes one of each side
  resp,      \* the answer to its page fault is on the way
  acc,       \* accesses of the user logic to memory in flight
  dma,       \* migrations in flight
  faults,    \* page faults queued for the worker
  hz,        \* history: what happened that voids a guarantee
  nops, nfaults

mem == <<entries, pins, salloc, card_lock>>
hw == <<fsm, rtrn, cmdq, done, resp, acc, dma>>
cnt == <<nops, nfaults>>
vars == <<mem, tlb, mmu_lock, flag, th, registered, hw, faults, hz, cnt>>

Init ==
  /\ entries = <<>>
  /\ pins = [x \in Procs \X Pages |-> 0]
  (* The loop that numbers the chunks stops one short: the last has ID 0.   *)
  /\ salloc = [i \in 1 .. NChunks |-> IF i = NChunks THEN 0 ELSE i - 1]
  /\ card_lock = FALSE
  /\ tlb = {}
  /\ mmu_lock = Free
  /\ flag = [f \in {"invldt", "card", "host"} |-> FALSE]
  /\ th = [t \in Threads |-> <<>>]
  /\ registered = Ctids
  /\ fsm = [s \in Sides |-> "idle"] /\ rtrn = [s \in Sides |-> "X"]
  /\ cmdq = [s \in Sides |-> <<>>] /\ done = [s \in Sides |-> 0]
  /\ resp = [s \in Sides |-> FALSE]
  /\ acc = {} /\ dma = {} /\ faults = {} /\ hz = {}
  /\ nops = 0 /\ nfaults = 0

----------------------------------------------------------------------------
(* Threads *)

St(s) == [s |-> s]
At(t, s) == th[t] # <<>> /\ Head(th[t]).s = s
Busy(q) == q # <<>> /\ Head(q).s \notin {"lock", "dead"}

(* The step at the head of t is replaced by ss.                            *)
Do(t, ss) == th' = [th EXCEPT ![t] = ss \o Tail(@)]

(* Two threads are between their start, or the mmu_lock, and their end.    *)
Noting(h) ==
  hz' = hz \cup h \cup
        (IF \E t, u \in Threads : t # u /\ Busy(th'[t]) /\ Busy(th'[u])
         THEN {"overlap"} ELSE {})

(* The thread used memory that was released: it does not come back.        *)
Crash(t, why) ==
  /\ th' = [th EXCEPT ![t] = <<St("dead")>>]
  /\ hz' = hz \cup {why}

Locked(body) == <<St("lock")>> \o body \o <<St("unlock")>>
Migration(k, loc) == <<[s |-> "migrate", k |-> k, loc |-> loc]>>
Unmap(k) == [s |-> "unmap", k |-> k]
MapIt(k, v, n) == [s |-> "map", k |-> k, v |-> v, n |-> n]
Put(k) == <<Unmap(k), [s |-> "release", k |-> k]>>

----------------------------------------------------------------------------
(* Entries *)

Covers(k, p) == p \in Span(k[2], entries[k].n)
Of(c) == {k \in DOMAIN entries : k[1] = c}
Same(b, c) == {k \in Of(c) : Bucket(k[2]) = b}

(* The address a page of entry k is mapped to.                             *)
HostAddr(k, p) == IF entries[k].dma THEN <<"dma", p, entries[k].gen>>
                  ELSE <<"host", Proc[k[1]], p>>
CardAddr(k, p) == <<"card", entries[k].cp[p - k[2] + 1]>>
Addr(k, p) == IF entries[k].host = "host" THEN HostAddr(k, p) ELSE CardAddr(k, p)

(* map_present: the number of pages up to the end of the entry that holds  *)
(* v, or up to the next entry.                                             *)
Clip(c, v, n) ==
  Min({n} \cup {k[2] + entries[k].n - v : k \in {l \in Of(c) : Covers(l, v)}}
          \cup {k[2] - v : k \in {l \in Of(c) : v < l[2]}})

Without(T, c, P) == {m \in T : ~(m.p \in P /\ Proc[m.c] = Proc[c])}

----------------------------------------------------------------------------
(* Steps of a thread *)

(* mmu_lock; an ioctl locks the TLB as well (change_tlb_lock).             *)
Toggled == [s \in Sides |-> Append(cmdq[s], [op |-> "lock"])]

LockMmu(t) ==
  /\ At(t, "lock") /\ mmu_lock = Free
  /\ mmu_lock' = t
  /\ cmdq' = IF t = "pf" THEN cmdq ELSE Toggled
  /\ Do(t, <<>>) /\ Noting({})
  /\ UNCHANGED <<mem, tlb, flag, registered, fsm, rtrn, done, resp, acc, dma, faults, cnt>>

UnlockMmu(t) ==
  /\ At(t, "unlock")
  /\ mmu_lock' = Free
  /\ cmdq' = IF t = "pf" THEN cmdq ELSE Toggled
  /\ Do(t, <<>>)
  /\ UNCHANGED <<mem, tlb, flag, registered, fsm, rtrn, done, resp, acc, dma, faults, hz, cnt>>

(* Chunks for n pages: a failed size check keeps card_lock.                *)
CardShort(n) == NChunks < n
CardList(n) == SubSeq(salloc, 1, n)
NewEntry(k, n, dm) ==
  /\ entries' = [x \in DOMAIN entries \cup {k} |->
       IF x = k THEN [n |-> n, host |-> "host", cp |-> CardList(n), dma |-> dm, gen |-> 0]
       ELSE entries[x]]
  /\ salloc' = SubSeq(salloc, n + 1, Len(salloc))
Exhausted(n) == IF Len(salloc) = n THEN {"cardfull"} ELSE {}

(* A fault that cannot be served is dropped and mmu_lock is kept; the map   *)
(* ioctl goes on.                                                          *)
Failed(t, h) ==
  IF t = "pf"
  THEN /\ resp' = [resp EXCEPT ![Head(th[t]).side] = TRUE]
       /\ th' = [th EXCEPT ![t] = <<>>]
       /\ hz' = hz \cup h \cup {"failed"}
  ELSE Do(t, <<>>) /\ hz' = hz \cup h /\ UNCHANGED resp

(* Mutant: pages are migrated while they are mapped.                       *)
HandlerNoUnmap(t) ==
  /\ At(t, "handler")
  /\ LET h == Head(th[t]) IN
     \E k \in Of(h.c) :
       /\ Covers(k, h.v)
       /\ Do(t, (IF entries[k].host = h.loc THEN <<>> ELSE Migration(k, h.loc))
                \o <<MapIt(k, h.v, Clip(h.c, h.v, h.n))>>)
  /\ UNCHANGED <<mem, tlb, mmu_lock, flag, registered, hw, faults, hz, cnt>>

(* mmu_handler_gup, for pages that have an entry.                          *)
HandlerPresent(t) ==
  /\ At(t, "handler")
  /\ LET h == Head(th[t]) IN
     \E k \in Of(h.c) :
       /\ Covers(k, h.v)
       /\ Do(t, (IF entries[k].host = h.loc THEN <<>>
                 ELSE <<Unmap(k)>> \o Migration(k, h.loc))
                \o <<MapIt(k, h.v, Clip(h.c, h.v, h.n))>>)
  /\ UNCHANGED <<mem, tlb, mmu_lock, flag, registered, hw, faults, hz, cnt>>

(* mmu_handler_gup, for new pages (tlb_get_user_pages): pin them, take     *)
(* card memory, add the entry.                                             *)
HandlerAbsent(t) ==
  /\ At(t, "handler") /\ ~card_lock
  /\ LET h == Head(th[t])
         n == Clip(h.c, h.v, h.n)
         k == <<h.c, h.v>>
         pinned == [x \in DOMAIN pins |->
                      IF x[1] = Proc[h.c] /\ x[2] \in Span(h.v, n) THEN pins[x] + 1 ELSE pins[x]]
     IN /\ \A l \in Of(h.c) : ~Covers(l, h.v)
        /\ \/ (* too few pages could be pinned, or there is too little card memory: *)
              (* then the pins and card_lock stay                                  *)
              \E h2 \in {{}} \cup (IF CardShort(n) THEN {{"cardfull"}} ELSE {}) :
                /\ pins' = IF h2 = {} THEN pins ELSE pinned
                /\ card_lock' = (h2 # {})
                /\ Failed(t, h2) /\ UNCHANGED <<entries, salloc>>
           \/ /\ ~CardShort(n) /\ Len(salloc) < n
              /\ pins' = pinned /\ card_lock' = TRUE
              /\ Crash(t, "cardfull") /\ UNCHANGED <<entries, salloc, resp>>
           \/ /\ ~CardShort(n) /\ Len(salloc) >= n
              /\ pins' = pinned
              /\ NewEntry(k, n, FALSE)
              /\ Do(t, (IF h.loc = "host" THEN <<>> ELSE Migration(k, "card"))
                       \o <<MapIt(k, h.v, n)>>)
              /\ hz' = hz \cup Exhausted(n)
              /\ UNCHANGED <<card_lock, resp>>
  /\ UNCHANGED <<tlb, mmu_lock, flag, registered, fsm, rtrn, cmdq, done, acc, dma, faults, cnt>>

(* The entry was released by a handler that overlaps with this one.        *)
Gone(t) == Head(th[t]).k \notin DOMAIN entries

(* Mutant: the invalidation is not waited for.                             *)
UnmapNoWait(t) ==
  /\ At(t, "unmap") /\ ~Gone(t)
  /\ LET k == Head(th[t]).k
         P == Span(k[2], entries[k].n)
     IN /\ tlb' = Without(tlb, k[1], P)
        /\ cmdq' = [s \in Sides |-> Append(cmdq[s], [op |-> "inv", c |-> k[1], P |-> P])]
  /\ Do(t, <<>>)
  /\ UNCHANGED <<mem, mmu_lock, flag, registered, fsm, rtrn, done, resp, acc, dma, faults, hz, cnt>>

(* tlb_unmap_gup: drop the TLB entries, have the hardware finish what is   *)
(* in flight, wait for its interrupt.                                      *)
tlb_unmap(t) ==
  /\ At(t, "unmap") /\ ~Gone(t)
  /\ LET k == Head(th[t]).k
         P == Span(k[2], entries[k].n)
     IN /\ tlb' = Without(tlb, k[1], P)
        /\ cmdq' = [s \in Sides |-> Append(cmdq[s], [op |-> "inv", c |-> k[1], P |-> P])]
  /\ Do(t, <<[s |-> "wait", f |-> "invldt"]>>)
  /\ UNCHANGED <<mem, mmu_lock, flag, registered, fsm, rtrn, done, resp, acc, dma, faults, hz, cnt>>

(* tlb_map_gup *)
tlb_map(t) ==
  /\ At(t, "map") /\ ~Gone(t)
  /\ LET h == Head(th[t])
         P == {p \in Span(h.v, h.n) : Covers(h.k, p)}
     IN tlb' = Without(tlb, h.k[1], P) \cup
               {[c |-> h.k[1], p |-> p, loc |-> entries[h.k].host, at |-> Addr(h.k, p)] : p \in P}
  /\ Do(t, <<>>)
  /\ UNCHANGED <<mem, mmu_lock, flag, registered, hw, faults, hz, cnt>>

(* migrate_to_card and migrate_to_host, after host is set; two would wait  *)
(* for each other on offload_lock or sync_lock, but only when handlers     *)
(* overlap.                                                                *)
migrate(t) ==
  /\ At(t, "migrate") /\ ~Gone(t)
  /\ LET h == Head(th[t])
         P == Span(h.k[2], entries[h.k].n)
     IN /\ entries' = [entries EXCEPT ![h.k].host = h.loc]
        /\ dma' = dma \cup {[loc |-> h.loc, c |-> h.k[1],
                             at |-> {HostAddr(h.k, p) : p \in P} \cup {CardAddr(h.k, p) : p \in P}]}
        /\ Do(t, <<[s |-> "wait", f |-> h.loc]>>)
  /\ UNCHANGED <<pins, salloc, card_lock, tlb, mmu_lock, flag, registered, fsm, rtrn, cmdq, done,
                 resp, acc, faults, hz, cnt>>

(* wait_event_interruptible; its result is ignored and the flag cleared.   *)
Wait(t) ==
  /\ At(t, "wait")
  /\ LET f == Head(th[t]).f IN
     /\ \/ flag[f] /\ hz' = hz
        \/ ~flag[f] /\ t # "pf" /\ hz' = hz \cup {"signal"}
     /\ flag' = [flag EXCEPT ![f] = FALSE]
  /\ Do(t, <<>>)
  /\ UNCHANGED <<mem, tlb, mmu_lock, registered, hw, faults, cnt>>

(* free_card_memory: last page first, each to the front of the list.       *)
FreeCard(cp) == cp \o salloc

(* The rest of tlb_put_user_pages and p2p_detach_dma_buf for an entry.     *)
release(t) ==
  /\ At(t, "release") /\ ~Gone(t) /\ ~card_lock
  /\ LET k == Head(th[t]).k
         e == entries[k]
     IN /\ salloc' = FreeCard(e.cp)
        /\ pins' = [x \in DOMAIN pins |->
             IF ~e.dma /\ x[1] = Proc[k[1]] /\ Covers(k, x[2]) THEN pins[x] - 1 ELSE pins[x]]
        /\ entries' = [x \in DOMAIN entries \ {k} |-> entries[x]]
  /\ Do(t, <<>>)
  /\ UNCHANGED <<card_lock, tlb, mmu_lock, flag, registered, hw, faults, hz, cnt>>

(* hash_for_each_possible in tlb_put_user_pages, p2p_detach_dma_buf and    *)
(* p2p_move_notify: entries of the bucket that hold v, or end just before. *)
Match(c, v) == {k \in Same(Bucket(v), c) : v \in k[2] .. k[2] + entries[k].n}
Wrong(k, v) == IF Covers(k, v) THEN {} ELSE {"collide"}

(* hash_del ends the walk of the bucket, so at most one entry goes.        *)
put(t) ==
  /\ At(t, "put")
  /\ LET h == Head(th[t]) IN
     \/ Match(h.c, h.v) = {} /\ Do(t, <<>>) /\ hz' = hz
     \/ \E k \in Match(h.c, h.v) : Do(t, Put(k)) /\ hz' = hz \cup Wrong(k, h.v)
  /\ UNCHANGED <<mem, tlb, mmu_lock, flag, registered, hw, faults, cnt>>

(* tlb_put_user_pages_ctid, one bucket after the other, then the rest of   *)
(* IOCTL_UNREGISTER_CTID.                                                  *)
Outstanding(c) == (\E f \in faults : f.c = c) \/ th["pf"] # <<>>

(* Mutant: the walk stops one bucket short.                                *)
PutShort(t) ==
  /\ At(t, "putall")
  /\ LET h == Head(th[t])
         left == {b \in h.b .. NBuckets - 2 : Same(b, h.c) # {}}
     IN \/ \E b \in left, k \in UNION {Same(b, h.c) : b \in left} :
             /\ k \in Same(b, h.c)
             /\ Do(t, Put(k) \o <<[h EXCEPT !.b = b + 1]>>)
             /\ UNCHANGED <<registered, hz>>
        \/ /\ left = {}
           /\ registered' = registered \ {h.c}
           /\ Do(t, <<>>)
           /\ hz' = hz \cup (IF Outstanding(h.c) THEN {"late"} ELSE {})
  /\ UNCHANGED <<mem, tlb, mmu_lock, flag, hw, faults, cnt>>

put_ctid(t) ==
  /\ At(t, "putall")
  /\ LET h == Head(th[t])
         left == {b \in h.b .. NBuckets - 1 : Same(b, h.c) # {}}
     IN \/ /\ left # {}
           /\ LET b == Min(left) IN
              \E k \in Same(b, h.c) :
                /\ Do(t, Put(k) \o <<[h EXCEPT !.b = b + 1]>>)
                /\ hz' = hz \cup (IF Cardinality(Same(b, h.c)) > 1 THEN {"collide"} ELSE {})
           /\ UNCHANGED registered
        \/ /\ left = {}
           /\ registered' = registered \ {h.c}
           /\ Do(t, <<>>)
           /\ hz' = hz \cup (IF Outstanding(h.c) THEN {"late"} ELSE {})
  /\ UNCHANGED <<mem, tlb, mmu_lock, flag, hw, faults, cnt>>

(* offload_user_pages and sync_user_pages, without mmu_lock: no entry for  *)
(* vaddr_tmp means going round for ever.                                   *)
walk(t) ==
  /\ At(t, "walk")
  /\ LET h == Head(th[t])
         hits == {k \in Same(Bucket(h.v), h.c) : Covers(k, h.v)}
     IN \/ h.v > h.last /\ Do(t, <<>>) /\ hz' = hz
        \/ /\ h.v <= h.last
           /\ \E k \in hits :
                Do(t, <<Unmap(k)>> \o Migration(k, h.loc) \o
                      <<MapIt(k, k[2], entries[k].n), [h EXCEPT !.v = @ + entries[k].n]>>)
           /\ hz' = hz
        \/ /\ h.v <= h.last /\ hits = {}
           /\ hz' = hz \cup {"nomatch"} /\ UNCHANGED th
  /\ UNCHANGED <<mem, tlb, mmu_lock, flag, registered, hw, faults, cnt>>

(* p2p_attach_dma_buf. Resv: the exporter does not hold the buffer.        *)
Resv == th["mv"] = <<>>

attach(t) ==
  /\ At(t, "attach") /\ Resv /\ ~card_lock
  /\ LET h == Head(th[t])
         k == <<h.c, h.v>>
     IN \/ (* dma_buf_get or the private data fails *)
           Do(t, <<>>) /\ hz' = hz /\ UNCHANGED mem
        \/ (* the attachment is freed, or an error, and then read *)
           /\ Do(t, <<>>) \/ th' = [th EXCEPT ![t] = <<St("dead")>>]
           /\ hz' = hz \cup {"p2pfail"} /\ UNCHANGED mem
        \/ /\ salloc = <<>>
           /\ Crash(t, "cardfull") /\ card_lock' = TRUE /\ UNCHANGED <<entries, pins, salloc>>
        \/ /\ salloc # <<>> /\ k \notin DOMAIN entries
           /\ NewEntry(k, 1, TRUE)
           /\ Do(t, <<MapIt(k, h.v, 1)>>)
           /\ hz' = hz \cup Exhausted(1)
           /\ UNCHANGED <<pins, card_lock>>
  /\ UNCHANGED <<tlb, mmu_lock, flag, registered, hw, faults, cnt>>

(* p2p_move_notify: the buffer gets a new address.                         *)
remap(t) ==
  /\ At(t, "remap") /\ ~Gone(t)
  /\ LET k == Head(th[t]).k IN
     IF entries[k].dma
     THEN /\ entries' = [entries EXCEPT ![k].gen = 1 - @]
          /\ Do(t, <<>>) /\ hz' = hz
     ELSE Crash(t, "collide") /\ UNCHANGED entries
  /\ UNCHANGED <<pins, salloc, card_lock, tlb, mmu_lock, flag, registered, hw, faults, cnt>>

move_notify ==
  /\ th["mv"] = <<>> /\ nops < MaxOps
  /\ \E a \in {k \in DOMAIN entries : entries[k].dma} :
     \E k \in Match(a[1], a[2]) :
       th' = [th EXCEPT !["mv"] = <<Unmap(k), [s |-> "remap", k |-> k], MapIt(k, a[2], entries[k].n)>>]
  /\ nops' = nops + 1
  /\ Noting({})
  /\ UNCHANGED <<mem, tlb, mmu_lock, flag, registered, hw, faults, nfaults>>

(* Mutant: the hardware is not told to go on.                              *)
NoRestart(t) ==
  /\ At(t, "restart")
  /\ Do(t, <<>>)
  /\ UNCHANGED <<mem, tlb, mmu_lock, flag, registered, hw, faults, hz, cnt>>

restart_mmu(t) ==
  /\ At(t, "restart")
  /\ resp' = [resp EXCEPT ![Head(th[t]).side] = TRUE]
  /\ Do(t, <<>>)
  /\ UNCHANGED <<mem, tlb, mmu_lock, flag, registered, fsm, rtrn, cmdq, done, acc, dma, faults, hz, cnt>>

----------------------------------------------------------------------------
(* Where a thread starts: the ioctls, and the worker for a queued fault.   *)

Handler(c, v, n, loc, s) ==
  [s |-> "handler", c |-> c, v |-> v, n |-> n, loc |-> loc, side |-> s]
Walk(c, r, loc) == <<[s |-> "walk", c |-> c, v |-> r.v, last |-> r.v + r.n - 1, loc |-> loc]>>

Ioctls(c) ==
  {Locked(<<Handler(c, r.v, r.n, "host", "none")>>) : r \in Reqs} \cup
  {Locked(<<[s |-> "put", c |-> c, v |-> v]>>) : v \in {r.v : r \in Moves} \cup DmaPages} \cup
  {Locked(<<[s |-> "attach", c |-> c, v |-> v]>>) : v \in DmaPages} \cup
  {Walk(c, r, loc) : r \in Moves, loc \in {"card", "host"}} \cup
  {<<[s |-> "putall", c |-> c, b |-> 0]>>}

vfpga_dev_ioctl(c) ==
  /\ th[c] = <<>> /\ c \in registered /\ nops < MaxOps
  /\ \E p \in Ioctls(c) : th' = [th EXCEPT ![c] = p]
  /\ nops' = nops + 1
  /\ Noting({})
  /\ UNCHANGED <<mem, tlb, mmu_lock, flag, registered, hw, faults, nfaults>>

(* IOCTL_REGISTER_CTID gives the ID to a new cThread.                      *)
register(c) ==
  /\ th[c] = <<>> /\ c \notin registered /\ nops < MaxOps
  /\ registered' = registered \cup {c}
  /\ nops' = nops + 1
  /\ UNCHANGED <<mem, tlb, mmu_lock, flag, th, hw, faults, hz, nfaults>>

vfpga_pfault_handler ==
  /\ th["pf"] = <<>>
  /\ \E f \in faults :
       /\ faults' = faults \ {f}
       /\ th' = [th EXCEPT !["pf"] = <<St("lock"), Handler(f.c, f.p, 1, f.loc, f.side),
                                       [s |-> "restart", side |-> f.side], St("unlock")>>]
  /\ UNCHANGED <<mem, tlb, mmu_lock, flag, registered, hw, hz, cnt>>

----------------------------------------------------------------------------
(* Hardware *)

Hit(c, p, loc) == {m \in tlb : m.c = c /\ m.p = p /\ m.loc = loc}

(* A request that hits in the TLB is an access until it completes.         *)
BeginAccess(s) ==
  /\ fsm[s] = "idle" /\ ~\E a \in acc : a.side = s
  /\ \E m \in tlb : acc' = acc \cup {[side |-> s, c |-> m.c, p |-> m.p, at |-> m.at]}
  /\ UNCHANGED <<mem, tlb, mmu_lock, flag, th, registered, fsm, rtrn, cmdq, done, resp, dma, faults, hz, cnt>>

EndAccess(s) ==
  /\ \E a \in acc : a.side = s /\ acc' = acc \ {a}
  /\ UNCHANGED <<mem, tlb, mmu_lock, flag, th, registered, fsm, rtrn, cmdq, done, resp, dma, faults, hz, cnt>>

(* One that misses stops the state machine; vfpga_isr queues the fault.    *)
Miss(s) ==
  /\ fsm[s] = "idle" /\ nfaults < MaxFaults
  /\ \E c \in registered, p \in FaultPages, loc \in {"host", "card"} :
       /\ Hit(c, p, loc) = {}
       /\ faults' = faults \cup {[side |-> s, c |-> c, p |-> p, loc |-> loc]}
  /\ fsm' = [fsm EXCEPT ![s] = "miss"]
  /\ nfaults' = nfaults + 1
  /\ UNCHANGED <<mem, tlb, mmu_lock, flag, th, registered, rtrn, cmdq, done, resp, acc, dma, hz, nops>>

Resume(s) ==
  /\ fsm[s] = "miss" /\ resp[s]
  /\ fsm' = [fsm EXCEPT ![s] = "idle"]
  /\ resp' = [resp EXCEPT ![s] = FALSE]
  /\ UNCHANGED <<mem, tlb, mmu_lock, flag, th, registered, rtrn, cmdq, done, acc, dma, faults, hz, cnt>>

(* An invalidation completes when nothing it covers is in flight. A lock   *)
(* command toggles ST_LOCKED, except after a miss, where it repeats the    *)
(* last invalidation and returns to where that one came from.              *)
Command(s) ==
  /\ cmdq[s] # <<>>
  /\ LET k == Head(cmdq[s]) IN
     \/ /\ k.op = "inv"
        /\ ~\E a \in acc : a.side = s /\ a.p \in k.P /\ Proc[a.c] = Proc[k.c]
        /\ done' = [done EXCEPT ![s] = @ + 1]
        /\ rtrn' = [rtrn EXCEPT ![s] = fsm[s]]
        /\ UNCHANGED <<fsm, hz>>
     \/ /\ k.op = "lock" /\ fsm[s] # "miss"
        /\ fsm' = [fsm EXCEPT ![s] = IF @ = "idle" THEN "locked" ELSE "idle"]
        /\ UNCHANGED <<done, rtrn, hz>>
     \/ /\ k.op = "lock" /\ fsm[s] = "miss"
        /\ \E to \in IF rtrn[s] = "X" THEN {"idle", "locked", "miss"} ELSE {rtrn[s]} :
             fsm' = [fsm EXCEPT ![s] = to]
        /\ done' = [done EXCEPT ![s] = @ + 1]
        /\ hz' = hz \cup {"misslock"}
        /\ UNCHANGED rtrn
  /\ cmdq' = [cmdq EXCEPT ![s] = Tail(@)]
  /\ UNCHANGED <<mem, tlb, mmu_lock, flag, th, registered, resp, acc, dma, faults, cnt>>

(* vfpga_isr for the three completions.                                    *)
vfpga_isr ==
  /\ \/ /\ \A s \in Sides : done[s] > 0
        /\ done' = [s \in Sides |-> done[s] - 1]
        /\ flag' = [flag EXCEPT !["invldt"] = TRUE]
        /\ UNCHANGED dma
     \/ /\ \E d \in dma : dma' = dma \ {d} /\ flag' = [flag EXCEPT ![d.loc] = TRUE]
        /\ UNCHANGED done
  /\ UNCHANGED <<mem, tlb, mmu_lock, th, registered, fsm, rtrn, cmdq, resp, acc, faults, hz, cnt>>

Step(t) ==
  \/ LockMmu(t) \/ UnlockMmu(t) \/ HandlerPresent(t) \/ HandlerAbsent(t)
  \/ tlb_unmap(t) \/ tlb_map(t) \/ migrate(t) \/ Wait(t)
  \/ release(t) \/ put(t) \/ put_ctid(t) \/ walk(t) \/ attach(t) \/ remap(t) \/ restart_mmu(t)

Progress ==
  \/ \E t \in Threads : Step(t)
  \/ vfpga_pfault_handler \/ vfpga_isr
  \/ \E s \in Sides : Resume(s) \/ Command(s)

EndAccesses == \E s \in Sides : EndAccess(s)

(* Two handlers at once change lists under each other's feet, a signal     *)
(* ends a wait for the hardware, a lock command hits a pending miss: from  *)
(* then on nothing is promised, and the behaviour is not followed.         *)
Broken == {"overlap", "signal", "misslock"}

Next ==
  /\ hz \cap Broken = {}
  /\ \/ Progress \/ EndAccesses \/ move_notify
     \/ \E c \in Ctids : vfpga_dev_ioctl(c) \/ register(c)
     \/ \E s \in Sides : BeginAccess(s) \/ Miss(s)

(* Threads, interrupts and hardware that can go on do go on, and accesses  *)
(* of the user logic complete.                                             *)
Fairness ==
  /\ WF_vars(Progress /\ hz \cap Broken = {})
  /\ WF_vars(EndAccesses /\ hz \cap Broken = {})

Spec == Init /\ [][Next]_vars /\ Fairness

----------------------------------------------------------------------------
(* Properties *)

Void(h) == hz \cap h # {}

Owners(i) ==
  {<<k, j>> \in (DOMAIN entries) \X (1 .. NChunks) :
     j <= entries[k].n /\ entries[k].cp[j] = i}

Backed(at) ==
  CASE at[1] = "host" -> pins[<<at[2], at[3]>>] > 0
    [] at[1] = "card" -> Cardinality(Owners(at[2])) = 1
    [] at[1] = "dma" -> \E k \in DOMAIN entries :
                          entries[k].dma /\ Covers(k, at[2]) /\ entries[k].gen = at[3]

(***************************************************************************)
(* What the user logic or a migration is reading or writing has not been   *)
(* given back or to somebody else: a host page is still pinned, a card     *)
(* chunk belongs to one entry, a DMABuf has not moved. And a cThread       *)
(* touches neither copy of a page while it is being copied for it, so that *)
(* migrate_to_card and migrate_to_host lose no write. tlb_put_user_pages,  *)
(* the migrations and p2p_move_notify rely on the invalidation having      *)
(* drained the hardware. It needs one handler at a time, an undisturbed    *)
(* wait, no lock command while a miss is pending, and card memory that is  *)
(* not used up to the last chunk, which has the ID of the first.           *)
(***************************************************************************)
AccessesAreSafe ==
  \/ Void(Broken \cup {"cardfull"})
  \/ /\ \A a \in acc : Backed(a.at)
     /\ \A d \in dma : \A x \in d.at : Backed(x)
     /\ \A a \in acc, d \in dma : a.c = d.c => a.at \notin d.at

(***************************************************************************)
(* A TLB entry leads to the copy that the page list says is current, and   *)
(* only one entry of the list holds the page, also after faults of both    *)
(* kinds, explicit maps of overlapping ranges and the migrations between   *)
(* them.                                                                   *)
(***************************************************************************)
MappingsAreCurrent ==
  \/ Void({"overlap", "collide"})
  \/ \A m \in tlb : \E k \in Of(m.c) :
       /\ {l \in Of(m.c) : Covers(l, m.p)} = {k}
       /\ entries[k].host = m.loc /\ Addr(k, m.p) = m.at

(***************************************************************************)
(* A ctid that has been unregistered has no pages and no TLB entries, so   *)
(* the next cThread with that ID cannot reach those of the last. It fails  *)
(* when entries share a bucket, or a fault of the old cThread is served    *)
(* after or during the release.                                            *)
(***************************************************************************)
UnregisteredIsClean ==
  \/ Void({"late", "collide", "overlap"})
  \/ \A c \in Ctids \ registered : Of(c) = {} /\ ~\E m \in tlb : m.c = c

(***************************************************************************)
(* A fault is answered and an ioctl comes back, whatever else runs at the  *)
(* same time. It takes that no fault has failed (mmu_lock stays locked),   *)
(* that card memory has not run out, that no thread crashed in the error   *)
(* paths of the DMABufs, and for the ioctls that none was asked to move a  *)
(* range without an entry (it goes round for ever, which holds up nobody   *)
(* else).                                                                  *)
(***************************************************************************)
NobodyHangs ==
  /\ \A s \in Sides : fsm[s] = "miss" ~>
       fsm[s] # "miss" \/ Void(Broken \cup {"failed", "cardfull", "p2pfail", "collide"})
  /\ \A c \in Ctids : th[c] # <<>> ~>
       th[c] = <<>> \/ Void(Broken \cup {"failed", "cardfull", "p2pfail", "collide", "nomatch"})

=============================================================================
