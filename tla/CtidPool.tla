------------------------------ MODULE CtidPool ------------------------------
(***************************************************************************)
(* Coyote thread IDs of one vFPGA: the free list of ID chunks              *)
(* (coyote_setup.c), the ioctls that register and unregister a cThread and *)
(* the open and release operations of the character device (vfpga_ops.c),  *)
(* called in the order in which cThread's constructor and destructor, or   *)
(* the kernel on behalf of a killed process, call them.                    *)
(*                                                                         *)
(* The two ioctls run under pid_lock and are single steps. open and        *)
(* release take no lock: reading and writing ref_cnt are separate steps,   *)
(* and so are the two halves of every push in release's clean-up loop.     *)
(* Kernels without heterogeneous memory management are modelled.           *)
(***************************************************************************)
EXTENDS Integers, FiniteSets

CONSTANTS
  N,         \* N_CTID_MAX
  Threads,   \* cThreads, each with its own file descriptor
  Hpids,     \* host process IDs
  HpidOf,    \* [Threads -> Hpids]
  Buckets,   \* buckets of hpid_ctid_map
  BucketOf,  \* [Hpids -> Buckets]: the hash function
  RefSize,   \* ref_cnt counts modulo RefSize (2^32)
  MaxEntries,\* bound: entries for one ID in one list
  None       \* NULL, and the absence of a value

Ctids == 0 .. N - 1

\* The chunk the loop of setup_vfpga_devices leaves out.
Tail == N - 1

ASSUME PoolAssumption ==
  /\ N \in Nat \ {0}
  /\ IsFiniteSet(Threads)
  /\ HpidOf \in [Threads -> Hpids]
  /\ BucketOf \in [Hpids -> Buckets]
  /\ RefSize \in Nat /\ RefSize > Cardinality(Threads)
  /\ MaxEntries \in Nat \ {0}
  /\ None \notin Nat \cup Hpids

VARIABLES
  pc,         \* [Threads -> where the thread is]
  tmp,        \* [Threads -> ref_cnt as read by open or release]
  ctid,       \* [Threads -> cThread::ctid]
  ref_cnt,
  pid_alloc,  \* head of the free list
  next,       \* [Ctids -> next chunk]
  pid_array,  \* [Ctids -> the hpid an ID was last registered for]
  ctid_list,  \* [Hpids -> [Ctids -> entries for the ID in the hpid's list]]
  pid_lock,   \* the mutex was left behind, locked
  rel,        \* [Threads -> progress of the clean-up loop]
  seen        \* history: "overlap", "exhausted"

vars == <<pc, tmp, ctid, ref_cnt, pid_alloc, next, pid_array, ctid_list,
          pid_lock, rel, seen>>

States == {"closed", "opening", "open", "registered", "unregistered",
           "closing", "releasing"}

TypeOK ==
  /\ pc \in [Threads -> States]
  /\ tmp \in [Threads -> 0 .. RefSize - 1]
  /\ ctid \in [Threads -> Ctids]
  /\ ref_cnt \in 0 .. RefSize - 1
  /\ pid_alloc \in Ctids \cup {None}
  /\ next \in [Ctids -> Ctids \cup {None}]
  /\ pid_array \in [Ctids -> Hpids \cup {None}]
  /\ ctid_list \in [Hpids -> [Ctids -> 0 .. MaxEntries]]
  /\ pid_lock \in BOOLEAN
  /\ rel \in [Threads -> [todo : SUBSET Buckets, hpid : Hpids \cup {None},
                          linked : Ctids \cup {None}]]
  /\ seen \subseteq {"overlap", "exhausted"}

-----------------------------------------------------------------------------
\* setup_vfpga_devices: the loop fills in every chunk but the last, whose
\* zeroed memory reads as ID 0 and end of list.
Id(chunk) == IF chunk = Tail THEN 0 ELSE chunk

Init ==
  /\ pc = [t \in Threads |-> "closed"]
  /\ tmp = [t \in Threads |-> 0]
  /\ ctid = [t \in Threads |-> 0]
  /\ ref_cnt = 0
  /\ pid_alloc = 0
  /\ next = [c \in Ctids |-> IF c = Tail THEN None ELSE c + 1]
  /\ pid_array = [c \in Ctids |-> None]
  /\ ctid_list = [h \in Hpids |-> [c \in Ctids |-> 0]]
  /\ pid_lock = FALSE
  /\ rel = [t \in Threads |-> [todo |-> {}, hpid |-> None, linked |-> None]]
  /\ seen = {}

\* Threads inside open or release.
Inside == {t \in Threads : pc[t] \in {"opening", "closing", "releasing"}}

Overlap(t) == IF Inside \subseteq {t} THEN seen ELSE seen \cup {"overlap"}

\* vfpga_dev_open: ref_cnt++ without a lock.
OpenRead(t) ==
  /\ pc[t] = "closed"
  /\ pc' = [pc EXCEPT ![t] = "opening"]
  /\ tmp' = [tmp EXCEPT ![t] = ref_cnt]
  /\ seen' = Overlap(t)
  /\ UNCHANGED <<ctid, ref_cnt, pid_alloc, next, pid_array, ctid_list,
                 pid_lock, rel>>

OpenWrite(t) ==
  /\ pc[t] = "opening"
  /\ pc' = [pc EXCEPT ![t] = "open"]
  /\ ref_cnt' = (tmp[t] + 1) % RefSize
  /\ tmp' = [tmp EXCEPT ![t] = 0]
  /\ UNCHANGED <<ctid, pid_alloc, next, pid_array, ctid_list, pid_lock,
                 rel, seen>>

\* IOCTL_REGISTER_CTID: pop a chunk and add its ID to the hpid's list.
\* num_free_ctid_chunks is never decremented, so its test never ends the
\* call; on an empty list the kernel thread dies of a NULL dereference,
\* with pid_lock held.
Register(t) ==
  /\ pc[t] = "open"
  /\ ~pid_lock
  /\ \/ /\ pid_alloc # None
        /\ LET c == Id(pid_alloc)
               h == HpidOf[t]
           IN  /\ ctid_list[h][c] < MaxEntries
               /\ ctid' = [ctid EXCEPT ![t] = c]
               /\ pid_array' = [pid_array EXCEPT ![c] = h]
               /\ ctid_list' = [ctid_list EXCEPT ![h][c] = @ + 1]
        /\ pid_alloc' = next[pid_alloc]
        /\ pc' = [pc EXCEPT ![t] = "registered"]
        /\ seen' = seen \cup (IF pid_alloc = Tail THEN {"exhausted"} ELSE {})
        /\ UNCHANGED pid_lock
     \/ /\ pid_alloc = None
        /\ pid_lock' = TRUE
        /\ pc' = [pc EXCEPT ![t] = "unregistered"]
        /\ UNCHANGED <<ctid, pid_array, ctid_list, pid_alloc, seen>>
  /\ UNCHANGED <<tmp, ref_cnt, next, rel>>

\* IOCTL_UNREGISTER_CTID: the hpid is looked up by ID; every entry of its
\* list that carries the ID is deleted and pushes the chunk, so a second
\* entry links the chunk to itself.
Unregister(t) ==
  /\ pc[t] = "registered"
  /\ ~pid_lock
  /\ pc' = [pc EXCEPT ![t] = "unregistered"]
  /\ LET c == ctid[t]
         h == pid_array[c]
     IN  \/ /\ ctid_list[h][c] = 0
            /\ UNCHANGED <<next, pid_alloc, ctid_list>>
         \/ /\ ctid_list[h][c] > 0
            /\ next' = [next EXCEPT
                          ![c] = IF ctid_list[h][c] = 1 THEN pid_alloc ELSE c]
            /\ pid_alloc' = c
            /\ ctid_list' = [ctid_list EXCEPT ![h][c] = 0]
  /\ UNCHANGED <<tmp, ctid, ref_cnt, pid_array, pid_lock, rel, seen>>

\* vfpga_dev_release: --ref_cnt without a lock; by the destructor, or by the
\* kernel for a process that never unregistered.
CloseRead(t) ==
  /\ pc[t] \in {"open", "registered", "unregistered"}
  /\ pc' = [pc EXCEPT ![t] = "closing"]
  /\ tmp' = [tmp EXCEPT ![t] = ref_cnt]
  /\ ctid' = [ctid EXCEPT ![t] = 0]
  /\ seen' = Overlap(t)
  /\ UNCHANGED <<ref_cnt, pid_alloc, next, pid_array, ctid_list, pid_lock,
                 rel>>

\* Mutants: every release cleans up, not only the last one; none does.
CloseWriteAlways(t) ==
  /\ pc[t] = "closing"
  /\ ref_cnt' = (tmp[t] - 1) % RefSize
  /\ pc' = [pc EXCEPT ![t] = "releasing"]
  /\ rel' = [rel EXCEPT ![t].todo = Buckets]
  /\ tmp' = [tmp EXCEPT ![t] = 0]
  /\ UNCHANGED <<ctid, pid_alloc, next, pid_array, ctid_list, pid_lock, seen>>

CloseWriteNever(t) ==
  /\ pc[t] = "closing"
  /\ ref_cnt' = (tmp[t] - 1) % RefSize
  /\ pc' = [pc EXCEPT ![t] = "closed"]
  /\ tmp' = [tmp EXCEPT ![t] = 0]
  /\ UNCHANGED <<ctid, pid_alloc, next, pid_array, ctid_list, pid_lock, rel,
                 seen>>

CloseWrite(t) ==
  /\ pc[t] = "closing"
  /\ ref_cnt' = (tmp[t] - 1) % RefSize
  /\ pc' = [pc EXCEPT ![t] = IF ref_cnt' = 0 THEN "releasing" ELSE "closed"]
  /\ rel' = [rel EXCEPT ![t].todo = IF ref_cnt' = 0 THEN Buckets ELSE {}]
  /\ tmp' = [tmp EXCEPT ![t] = 0]
  /\ UNCHANGED <<ctid, pid_alloc, next, pid_array, ctid_list, pid_lock,
                 seen>>

\* hash_for_each reaches the first entry of a bucket. hash_del ends the walk
\* through the bucket, so its other entries are not visited. Entries are in
\* no particular order.
ReleaseHpid(t, h) ==
  /\ pc[t] = "releasing"
  /\ rel[t].hpid = None
  /\ BucketOf[h] \in rel[t].todo
  /\ \E c \in Ctids : ctid_list[h][c] > 0
  /\ rel' = [rel EXCEPT ![t].hpid = h, ![t].todo = @ \ {BucketOf[h]}]
  /\ UNCHANGED <<pc, tmp, ctid, ref_cnt, pid_alloc, next, pid_array,
                 ctid_list, pid_lock, seen>>

\* ctid_chunks[ctid].next = pid_alloc, without pid_lock.
ReleaseLink(t, c) ==
  /\ pc[t] = "releasing"
  /\ rel[t].hpid # None
  /\ rel[t].linked = None
  /\ ctid_list[rel[t].hpid][c] > 0
  /\ next' = [next EXCEPT ![c] = pid_alloc]
  /\ rel' = [rel EXCEPT ![t].linked = c]
  /\ UNCHANGED <<pc, tmp, ctid, ref_cnt, pid_alloc, pid_array, ctid_list,
                 pid_lock, seen>>

\* pid_alloc = &ctid_chunks[ctid]; list_del.
ReleaseAdvance(t) ==
  /\ pc[t] = "releasing"
  /\ rel[t].linked # None
  /\ pid_alloc' = rel[t].linked
  /\ ctid_list' = [ctid_list EXCEPT
                     ![rel[t].hpid][rel[t].linked] = IF @ = 0 THEN 0 ELSE @ - 1]
  /\ rel' = [rel EXCEPT ![t].linked = None]
  /\ UNCHANGED <<pc, tmp, ctid, ref_cnt, next, pid_array, pid_lock, seen>>

\* The list of the hpid is empty.
ReleaseNext(t) ==
  /\ pc[t] = "releasing"
  /\ rel[t].hpid # None
  /\ rel[t].linked = None
  /\ \A c \in Ctids : ctid_list[rel[t].hpid][c] = 0
  /\ rel' = [rel EXCEPT ![t].hpid = None]
  /\ UNCHANGED <<pc, tmp, ctid, ref_cnt, pid_alloc, next, pid_array,
                 ctid_list, pid_lock, seen>>

ReleaseEnd(t) ==
  /\ pc[t] = "releasing"
  /\ rel[t].hpid = None
  /\ \A h \in Hpids : BucketOf[h] \in rel[t].todo =>
       \A c \in Ctids : ctid_list[h][c] = 0
  /\ pc' = [pc EXCEPT ![t] = "closed"]
  /\ rel' = [rel EXCEPT ![t].todo = {}]
  /\ UNCHANGED <<tmp, ctid, ref_cnt, pid_alloc, next, pid_array, ctid_list,
                 pid_lock, seen>>

Release(t) ==
  \/ \E h \in Hpids : ReleaseHpid(t, h)
  \/ \E c \in Ctids : ReleaseLink(t, c)
  \/ ReleaseAdvance(t)
  \/ ReleaseNext(t)
  \/ ReleaseEnd(t)

Next ==
  \E t \in Threads :
    \/ OpenRead(t)
    \/ OpenWrite(t)
    \/ Register(t)
    \/ Unregister(t)
    \/ CloseRead(t)
    \/ CloseWrite(t)
    \/ Release(t)

Spec == Init /\ [][Next]_vars

-----------------------------------------------------------------------------
(* Properties *)

Registered == {t \in Threads : pc[t] = "registered"}

InUse == {c \in Ctids : \E h \in Hpids : ctid_list[h][c] > 0}

\* Registered cThreads are identified by a unique ctid (comment on
\* IOCTL_REGISTER_CTID).
CtidsAreUnique ==
  \A t, u \in Registered : t # u => ctid[t] # ctid[u]

\* As long as the last chunk was never handed out and no open or release
\* overlapped another one, live ctids are unique, none of them can be handed
\* out again, and pid_array leads from each to its own process, whose pages
\* the memory ioctls then pin.
IdentityIsSafe ==
  seen = {} =>
    /\ CtidsAreUnique
    /\ \A t \in Registered : /\ ctid[t] # pid_alloc
                             /\ pid_array[ctid[t]] = HpidOf[t]

\* The last release frees the resources of all Coyote threads of the device
\* (comment in vfpga_dev_release), those of killed processes included.
LastReleaseFreesAll ==
  seen = {} /\ (\A t \in Threads : pc[t] = "closed") => InUse = {}

\* A cThread that is open keeps its ID: nobody but the thread itself takes an
\* ID off the lists while the device is in use.
OpenThreadsKeepTheirId ==
  [][\A t \in Registered :
       seen' = {} /\ pc'[t] = "registered" =>
         ctid_list'[HpidOf[t]][ctid[t]] = ctid_list[HpidOf[t]][ctid[t]]]_vars
=============================================================================
