----------------------------- MODULE Hypervisor -----------------------------
(***************************************************************************)
(* Virtual machines on a vFPGA (contrib/vm): the mediated devices of the   *)
(* hypervisor module, the driver in each guest, and what they share: the   *)
(* thread numbers of the vFPGA (cpid), the TLB, the pinned pages and the   *)
(* one page-fault register.                                                *)
(*                                                                         *)
(* A guest talks to its mediated device by trapped accesses to BAR2: a     *)
(* write is a command, and the answer to REGISTER_PID is fetched by a read *)
(* of the same register, a second step.  Every process of a guest has one  *)
(* buffer, all at the same virtual address; <<m, p>> is the host page of   *)
(* process p of the VM on device m.  Put operations treat all matching     *)
(* buffers alike, so sets of pages stand for the lists of buffers.         *)
(*                                                                         *)
(* hz collects what has gone wrong outside the properties' premises; a     *)
(* step that stops the host kernel (Fatal) is the last one.                *)
(***************************************************************************)
EXTENDS Integers, FiniteSets

CONSTANTS
    Mdevs,         \* mediated devices, positive numbers
    Procs,         \* processes of the guests, positive numbers
    ProcsOf,       \* the processes of each VM
    Cpids,         \* thread numbers of the vFPGA, 0 among them
    MaxBoots,      \* bound: VMs started in all
    MaxIrqs,       \* bound: page faults and test interrupts raised in all
    MaxHazards     \* bound: different things that go wrong before a run ends

ASSUME HypervisorAssumption ==
    /\ 0 \in Cpids
    /\ Mdevs \subseteq Nat \ {0} /\ Procs \subseteq Nat \ {0}
    /\ ProcsOf \in [Mdevs -> SUBSET Procs]

None == 0          \* no device, no process
NoPage == <<0, 0>>
Gone == -1         \* a pointer to a device that has been freed
INVALID_CPID == -1

VARIABLES
    md,            \* struct m_fpga_dev of each mediated device
    free,          \* thread numbers the vFPGA has to give
    vdevs,         \* fpga_dev.vdevs: the device each cpid belongs to
    epid,          \* fpga_dev.pid_array: VM and process each cpid is registered for
    tlb,           \* cpid -> host page its virtual address leads to
    leak,          \* pages in the TLB whose pin nobody remembers
    gst,           \* the guest driver of each VM and its processes
    miss,          \* the page-fault registers and how far the fault is
    boots, irqs, \* counters of the bounds
    hz             \* what has gone wrong
vars == <<md, free, vdevs, epid, tlb, leak, gst, miss, boots, irqs, hz>>

Fatal == {"bugon", "freedirq"}

----------------------------------------------------------------------------
(* PCI configuration space of a mediated device *)

\* A 32-bit word of a base address register: what is above the four low bits, and these.
Word(base, type) == [base |-> base, type |-> type]
Low(b) == b % 2 = 0

set_up_msix_header == [ctl |-> "off", shadow |-> "off"]

set_pci_config ==
    [bars |-> [b \in 0 .. 5 |-> Word("size", IF Low(b) THEN "mem64" ELSE "high")],
     line |-> "unset", msix |-> set_up_msix_header]

cfg_bar_write(bar, val, low) == IF low THEN Word(val.base, bar.type) ELSE val

\* A write of all ones asks for the size, any other word is the address.
BarWrite(bar, val, b) ==
    IF val.base = "ones"
    THEN cfg_bar_write(bar, Word("size", IF Low(b) THEN "mem64" ELSE "high"), Low(b))
    ELSE cfg_bar_write(bar, val, Low(b))

\* The header is at cfg + MSIX_OFFSET, the write goes to cap_section + MSIX_OFFSET.
write_to_msix_header(h, val) == [h EXCEPT !.shadow = val]

\* Firmware and guest kernel size the BARs, place them and turn MSI-X on.
handle_pci_cfg_write(c) ==
    LET sized(b) == BarWrite(c.bars[b], Word("ones", "ones"), b)
    IN  [bars |-> [b \in 0 .. 5 |-> BarWrite(sized(b), Word("addr", "high"), b)],
         line |-> "set", msix |-> write_to_msix_header(c.msix, "on")]

----------------------------------------------------------------------------
(* Regions of the virtual device *)

\* VFIO_DEVICE_GET_REGION_INFO: a region has a size, and may be mapped or not.
hypervisor_vfpga_ioctl(i) ==
    [size |-> i \in {"config", "bar0", "bar2", "bar4"}, mmap |-> i \in {"bar0", "bar4"}]

\* Mapping a region gives the VM the registers of the vFPGA themselves.
hypervisor_vfpga_mmap(i) ==
    CASE i = "bar0" -> "ctrl" [] i = "bar4" -> "ctrl_avx" [] OTHER -> "EINVAL"

\* What a trapped access to a region ends in: registers of the card, the
\* configuration space, a command to the hypervisor, or nothing.
hypervisor_vfpga_access(i) ==
    CASE i = "config" -> "pci_config" [] i = "bar0" -> "ctrl" [] i = "bar2" -> "command"
      [] OTHER -> "ignored"

\* What the guest reaches through a BAR: mapped where that is offered, else trapped.
Reaches(i) ==
    IF ~hypervisor_vfpga_ioctl(i).size THEN "nothing"
    ELSE IF hypervisor_vfpga_ioctl(i).mmap THEN hypervisor_vfpga_mmap(i)
    ELSE hypervisor_vfpga_access(i)

----------------------------------------------------------------------------
(* State *)

FreshMdev ==
    [st |-> "none", cur |-> INVALID_CPID, held |-> FALSE, irq |-> "never",
     kvm |-> FALSE, sbuff |-> {}, cfg |-> set_pci_config]

\* lock: the process that holds cpid_lock; st[p]: out, open, asking or in.
FreshGuest ==
    [run |-> FALSE, lock |-> None, st |-> [p \in Procs |-> "out"],
     cpid |-> [p \in Procs |-> INVALID_CPID], pid_array |-> [c \in Cpids |-> None],
     sbuff |-> {}, irq |-> FALSE]

Init ==
    /\ md = [m \in Mdevs |-> FreshMdev]
    /\ free = Cpids /\ vdevs = [c \in Cpids |-> None] /\ epid = [c \in Cpids |-> NoPage]
    /\ tlb = [c \in Cpids |-> NoPage] /\ leak = {}
    /\ gst = [m \in Mdevs |-> FreshGuest]
    /\ miss = [cpid |-> 0, busy |-> FALSE, irq |-> FALSE]
    /\ boots = 0 /\ irqs = 0 /\ hz = {}

Hazard(cond, what) == IF cond THEN {what} ELSE {}
Pinned(pg) == pg \in leak \/ pg[2] \in md[pg[1]].sbuff
Reached(pgs) == {pg \in pgs : \E c \in Cpids : tlb[c] = pg}
Registered(m) == {c \in Cpids : vdevs[c] = m}

fpga == <<free, vdevs, epid, tlb, leak>>
faults == <<miss, irqs>>

----------------------------------------------------------------------------
(* Life of a mediated device *)

hypervisor_vfpga_create(m) ==
    /\ md[m].st = "none"
    /\ md' = [md EXCEPT ![m] = [FreshMdev EXCEPT !.st = "created"]]
    /\ UNCHANGED <<fpga, gst, faults, boots, hz>>

\* The structure is freed; vdevs may still point to it.
hypervisor_vfpga_remove(m) ==
    /\ md[m].st = "created"
    /\ md' = [md EXCEPT ![m] = FreshMdev]
    /\ vdevs' = [c \in Cpids |-> IF vdevs[c] = m THEN Gone ELSE vdevs[c]]
    /\ UNCHANGED <<free, epid, tlb, leak, gst, faults, boots, hz>>

\* VFIO_GROUP_NOTIFY_SET_KVM: the VM whose page tables are walked.
hypervisor_vfio_notifier(d) == [d EXCEPT !.kvm = TRUE]

\* in_use is taken first; when a later step fails it is not given back, and
\* the device stays busy for ever ("wedged").  The group of a starting VM has
\* its kvm, so registering the notifier calls it.
hypervisor_vfpga_open(m, ok) ==
    LET taken == [md[m] EXCEPT !.st = "wedged", !.irq = "never", !.sbuff = {}]
    IN  /\ md[m].st = "created" /\ boots < MaxBoots
        /\ boots' = boots + 1
        /\ md' = [md EXCEPT ![m] =
                     IF ok THEN hypervisor_vfio_notifier([taken EXCEPT !.st = "open"]) ELSE taken]
        /\ UNCHANGED <<fpga, gst, faults, hz>>

\* The VM is gone, orderly or not.  Registrations, pins and TLB entries stay;
\* the list of buffers is emptied by the next open, their pins are lost.
hypervisor_vfpga_close(m) ==
    /\ md[m].st = "open"
    /\ md' = [md EXCEPT ![m].st = "created", ![m].sbuff = {}, ![m].irq = "never"]
    /\ leak' = leak \cup Reached({<<m, p>> : p \in md[m].sbuff})
    /\ gst' = [gst EXCEPT ![m] = FreshGuest]
    /\ hz' = hz \cup Hazard(Registered(m) # {} \/ md[m].sbuff # {} \/ gst[m].irq, "leftbehind")
    /\ UNCHANGED <<free, vdevs, epid, tlb, faults, boots>>

\* VFIO_DEVICE_SET_IRQS with an eventfd, or with none.  A context that is put
\* keeps its pointer.  A mask is noted and never consulted, so it is left out.
handle_set_irq_msix(d, what) ==
    [d EXCEPT !.irq = IF what = "eventfd" THEN "set" ELSE IF @ = "set" THEN "put" ELSE @]

\* The guest kernel places the BARs, then loads the driver, which turns on its
\* interrupt (register_msix).
guest_probe(m) ==
    /\ md[m].st = "open" /\ ~gst[m].run
    /\ Reaches("bar0") = "ctrl" /\ Reaches("bar2") = "command" /\ Reaches("bar4") = "ctrl_avx"
    /\ LET placed == [md[m] EXCEPT !.cfg = handle_pci_cfg_write(@)]
       IN  md' = [md EXCEPT ![m] = handle_set_irq_msix(placed, "eventfd")]
    /\ gst' = [gst EXCEPT ![m] = [FreshGuest EXCEPT !.run = TRUE]]
    /\ UNCHANGED <<fpga, faults, boots, hz>>

\* The driver can be unloaded when no process has its file open.
guest_remove(m) ==
    /\ gst[m].run /\ \A p \in Procs : gst[m].st[p] = "out"
    /\ md' = [md EXCEPT ![m] = handle_set_irq_msix(@, "none")]
    /\ gst' = [gst EXCEPT ![m] = FreshGuest]
    /\ hz' = hz \cup Hazard(gst[m].irq, "lostirq")
    /\ UNCHANGED <<fpga, faults, boots>>

----------------------------------------------------------------------------
(* Registration of a guest process *)

guest_open(m, p) ==
    /\ gst[m].run /\ gst[m].st[p] = "out"
    /\ gst' = [gst EXCEPT ![m].st[p] = "open"]
    /\ UNCHANGED <<md, fpga, faults, boots, hz>>

\* Write to REGISTER_PID: a cpid is taken and left in current_cpid.  When none
\* is free the handler returns with current_cpid_lock held.
REGISTER_PID_write(m, p) ==
    IF free = {}
    THEN /\ md' = [md EXCEPT ![m].held = TRUE]
         /\ hz' = hz \cup {"exhausted"}
         /\ UNCHANGED <<free, vdevs, epid>>
    ELSE \E c \in free :
         /\ free' = free \ {c}
         /\ epid' = [epid EXCEPT ![c] = <<m, p>>]
         /\ vdevs' = [vdevs EXCEPT ![c] = m]
         /\ md' = [md EXCEPT ![m].cur = c]
         /\ UNCHANGED hz

\* Mutant: cpid_lock is not taken.
AskUnlocked(m, p) ==
    /\ gst[m].st[p] = "open" /\ ~md[m].held
    /\ gst' = [gst EXCEPT ![m].st[p] = "asking"]
    /\ REGISTER_PID_write(m, p)
    /\ UNCHANGED <<tlb, leak, faults, boots>>

\* IOCTL_REGISTER_PID up to the write, under the guest's cpid_lock.
register_pid_ask(m, p) ==
    /\ gst[m].st[p] = "open" /\ gst[m].lock = None /\ ~md[m].held
    /\ gst' = [gst EXCEPT ![m].lock = p, ![m].st[p] = "asking"]
    /\ REGISTER_PID_write(m, p)
    /\ UNCHANGED <<tlb, leak, faults, boots>>

\* The read that ends the loop of register_pid: it returns current_cpid and
\* resets it.  A read of INVALID_CPID is repeated.
register_pid_get(m, p) ==
    LET c == md[m].cur
    IN  /\ gst[m].st[p] = "asking" /\ ~md[m].held /\ c # INVALID_CPID
        /\ md' = [md EXCEPT ![m].cur = INVALID_CPID]
        /\ gst' = [gst EXCEPT ![m].lock = None, ![m].st[p] = "in",
                              ![m].cpid[p] = c, ![m].pid_array[c] = p]
        /\ UNCHANGED <<fpga, faults, boots, hz>>

\* IOCTL_UNREGISTER_PID: the cpid is free again, whatever is still mapped for it.
unregister_pid(m, p) ==
    LET c == gst[m].cpid[p]
    IN  /\ gst[m].st[p] = "in" /\ gst[m].lock = None
        /\ free' = free \cup {c}
        /\ vdevs' = [vdevs EXCEPT ![c] = None]
        /\ epid' = [epid EXCEPT ![c] = NoPage]
        /\ gst' = [gst EXCEPT ![m].st[p] = "open", ![m].cpid[p] = INVALID_CPID,
                              ![m].pid_array[c] = None]
        /\ hz' = hz \cup Hazard(tlb[c] # NoPage, "stillmapped")
        /\ UNCHANGED <<md, tlb, leak, faults, boots>>

----------------------------------------------------------------------------
(* Buffers *)

\* Mutant: the mapping is sent whether or not the page could be pinned.
MapAlways(m, p, c, res) == [tlb EXCEPT ![c] = <<m, p>>]

\* The mapping is sent to the vFPGA once everything is allocated.
FireMapping(m, p, c, res) == IF res = "ok" THEN [tlb EXCEPT ![c] = <<m, p>>] ELSE tlb

\* A failure puts what was pinned, but without memory for the mapping of small
\* pages the pins are forgotten.
Forgotten(m, p, res) == leak \cup Reached(IF res = "nomem" THEN {<<m, p>>} ELSE {})

\* Pin the page, map it, remember the buffer (with cpid 0: the field is never
\* written).
hypervisor_tlb_get_user_pages(m, p, c, res) ==
    /\ md' = [md EXCEPT ![m].sbuff = IF res = "ok" THEN @ \cup {p} ELSE @]
    /\ tlb' = FireMapping(m, p, c, res)
    /\ leak' = Forgotten(m, p, res)

\* Reading from the VM's memory may fail, and needs its kvm.
hypervisor_access_kvm(m, res) == res # "unread"

\* Write to MAP_USER: the notifier is read from the VM, then its pages are mapped.
MAP_USER_write(m, p, c, res) ==
    /\ IF hypervisor_access_kvm(m, res)
       THEN hypervisor_tlb_get_user_pages(m, p, c, res)
       ELSE UNCHANGED <<md, tlb, leak>>
    /\ hz' = hz \cup Hazard(~md[m].kvm, "bugon")

\* The guest pins its page and tells the hypervisor, whose answer it never
\* sees: the buffer is on the guest's list either way.
guest_get_user_pages(m, p, c, res, irq) ==
    /\ MAP_USER_write(m, p, c, res)
    /\ gst' = [gst EXCEPT ![m].sbuff = @ \cup {c}, ![m].irq = irq]

\* IOCTL_MAP_USER; without the guest's memory nothing happens at all.
guest_map(m, p, res) ==
    LET c == gst[m].cpid[p]
    IN  /\ gst[m].st[p] = "in" /\ c \notin gst[m].sbuff
        /\ guest_get_user_pages(m, p, c, res, gst[m].irq)
        /\ UNCHANGED <<free, vdevs, epid, faults, boots>>

\* unmap_entry for each of the buffers ps: the pages are put, the TLB entry of
\* cpid 0, the number in the buffer, is removed.
unmap_entry(m, ps) ==
    /\ md' = [md EXCEPT ![m].sbuff = @ \ ps]
    /\ tlb' = IF ps = {} THEN tlb ELSE [tlb EXCEPT ![0] = NoPage]
    /\ hz' = hz \cup Hazard(\E c \in Cpids \ {0} : \E p \in ps : tlb[c] = <<m, p>>, "wrongcpid")

hypervisor_tlb_put_user_pages(m, c) == unmap_entry(m, IF c = 0 THEN md[m].sbuff ELSE {})
hypervisor_tlb_put_user_pages_all(m) == unmap_entry(m, md[m].sbuff)

\* Write to UNMAP_USER.  The notifier is in the memory of the running VM.
UNMAP_USER_write(m, c) == hypervisor_tlb_put_user_pages(m, c)

\* IOCTL_UNMAP_USER of a buffer on the guest's list.
guest_put_user_pages(m, p) ==
    LET c == gst[m].cpid[p]
    IN  /\ gst[m].st[p] = "in" /\ c \in gst[m].sbuff
        /\ gst' = [gst EXCEPT ![m].sbuff = @ \ {c}]
        /\ UNMAP_USER_write(m, c)
        /\ UNCHANGED <<free, vdevs, epid, leak, faults, boots>>

\* The file is closed, by the process or at its end: all buffers of the guest
\* are put, those of other processes too; a registration stays.
guest_release(m, p) ==
    /\ gst[m].st[p] \in {"open", "in"}
    /\ gst' = [gst EXCEPT ![m].sbuff = {}, ![m].st[p] = "out", ![m].cpid[p] = INVALID_CPID]
    /\ hypervisor_tlb_put_user_pages_all(m)
    /\ UNCHANGED <<free, vdevs, epid, leak, faults, boots>>

----------------------------------------------------------------------------
(* Page faults *)

\* The vFPGA works for process p and finds no TLB entry: the registers take
\* the fault, and no other until the engine is restarted.
Miss(m, p) ==
    LET c == gst[m].cpid[p]
    IN  /\ gst[m].st[p] = "in" /\ tlb[c] = NoPage /\ ~miss.busy /\ irqs < MaxIrqs
        /\ miss' = [cpid |-> c, busy |-> TRUE, irq |-> TRUE]
        /\ irqs' = irqs + 1
        /\ UNCHANGED <<md, fpga, gst, boots, hz>>

\* fire_interrupt looks at the context only, not at the file descriptor.
fire_interrupt(m) ==
    /\ gst' = [gst EXCEPT ![m].irq = @ \/ (md[m].irq = "set" /\ gst[m].run)]
    /\ hz' = hz \cup Hazard(md[m].irq = "put" \/ md[m].st # "open", "freedirq")
                \cup Hazard(md[m].irq = "never" \/ ~gst[m].run, "lostirq")

hypervisor_tlb_miss_isr ==
    LET m == vdevs[miss.cpid]
    IN  /\ miss.irq
        /\ miss' = [miss EXCEPT !.irq = FALSE]
        /\ IF m = None THEN hz' = hz \cup {"bugon"} /\ UNCHANGED gst
           ELSE IF m = Gone THEN hz' = hz \cup {"freedirq"} /\ UNCHANGED gst
           ELSE fire_interrupt(m)
        /\ UNCHANGED <<md, fpga, irqs, boots>>

\* IOCTL_TEST_INTERRUPT: the guest's handler runs without a fault.
TestInterrupt(m) ==
    /\ gst[m].run /\ \E p \in Procs : gst[m].st[p] \in {"open", "in"}
    /\ irqs < MaxIrqs /\ irqs' = irqs + 1
    /\ fire_interrupt(m)
    /\ UNCHANGED <<md, fpga, miss, boots>>

\* Mutant: the engine is not restarted.
NoRestart(m, res) ==
    LET c == miss.cpid
        p == gst[m].pid_array[c]
    IN  /\ gst[m].irq /\ p # None
        /\ guest_get_user_pages(m, p, c, res, FALSE)
        /\ UNCHANGED <<miss, free, vdevs, epid, irqs, boots>>

\* The guest's handler maps what the registers name and restarts the engine;
\* without a process of that number, or without memory, it does not.
guest_fpga_tlb_miss_isr(m, res) ==
    LET c == miss.cpid
        p == gst[m].pid_array[c]
        found == p # None /\ res # "guest"
        last == ~miss.irq /\ \A n \in Mdevs \ {m} : ~gst[n].irq
    IN  /\ gst[m].irq
        /\ IF found
           THEN /\ guest_get_user_pages(m, p, c, res, FALSE)
                /\ miss' = [miss EXCEPT !.busy = FALSE]
           ELSE /\ gst' = [gst EXCEPT ![m].irq = FALSE]
                /\ hz' = hz \cup Hazard(miss.busy /\ last, "unserved")
                /\ UNCHANGED <<md, tlb, leak, miss>>
        /\ UNCHANGED <<free, vdevs, epid, irqs, boots>>

----------------------------------------------------------------------------
Results == {"ok", "fail", "nomem", "unread"}

Life(m) ==
    \/ hypervisor_vfpga_create(m) \/ hypervisor_vfpga_remove(m)
    \/ \E ok \in BOOLEAN : hypervisor_vfpga_open(m, ok)
    \/ hypervisor_vfpga_close(m)
    \/ guest_probe(m) \/ guest_remove(m) \/ TestInterrupt(m)

Calls(m, p) ==
    \/ guest_open(m, p) \/ guest_release(m, p)
    \/ register_pid_ask(m, p) \/ register_pid_get(m, p) \/ unregister_pid(m, p)
    \/ \E res \in Results : guest_map(m, p, res)
    \/ guest_put_user_pages(m, p)
    \/ Miss(m, p)

GuestIsr(m) == \E res \in Results \cup {"guest"} : guest_fpga_tlb_miss_isr(m, res)

Running == hz \cap Fatal = {} /\ Cardinality(hz \ {"leftbehind"}) <= MaxHazards

Next ==
    /\ Running
    /\ \/ \E m \in Mdevs : Life(m) \/ GuestIsr(m) \/ \E p \in ProcsOf[m] : Calls(m, p)
       \/ hypervisor_tlb_miss_isr

\* A vCPU in the register loop goes on reading, and interrupts are delivered.
Fairness ==
    /\ \A m \in Mdevs :
          /\ WF_vars(Running /\ \E p \in ProcsOf[m] : register_pid_get(m, p))
          /\ WF_vars(Running /\ GuestIsr(m))
    /\ WF_vars(Running /\ hypervisor_tlb_miss_isr)

Spec == Init /\ [][Next]_vars /\ Fairness

----------------------------------------------------------------------------
(* Properties *)

In(m, p) == gst[m].st[p] = "in"

\* The cpid a guest process receives was allocated for it: the vFPGA has it
\* registered for this process of this VM, page faults for it are looked up
\* under this process, and no other process of any VM holds it, although
\* request and answer are two accesses to a register that all processes of the
\* guest share.
RegistrationIsRight ==
    \A m \in Mdevs, p \in Procs : In(m, p) =>
        LET c == gst[m].cpid[p]
        IN  /\ epid[c] = <<m, p>> /\ vdevs[c] = m /\ gst[m].pid_array[c] = p
            /\ \A n \in Mdevs, q \in Procs :
                  In(n, q) /\ gst[n].cpid[q] = c => <<n, q>> = <<m, p>>

\* The TLB leads a cpid only to pages the hypervisor has pinned, of the VM the
\* cpid is registered for, as long as no buffer of another cpid than 0 was
\* released and no cpid was given back with a mapping left.
TlbIsRight ==
    hz \cap {"wrongcpid", "stillmapped"} = {} =>
        \A c \in Cpids : tlb[c] # NoPage => Pinned(tlb[c]) /\ vdevs[c] \in {tlb[c][1], Gone}

\* A guest process that asks for a cpid gets one, unless none was left; and a
\* page fault is answered and the engine restarted, unless the VM went away
\* with it, had no interrupt set up, or could not provide the page.
CallsReturn ==
    /\ \A m \in Mdevs : []<>(gst[m].lock = None \/ "exhausted" \in hz \/ ~Running)
    /\ []<>(~miss.busy \/ hz \cap {"leftbehind", "lostirq", "unserved"} # {} \/ ~Running)
=============================================================================
