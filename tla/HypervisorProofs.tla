-------------------------- MODULE HypervisorProofs --------------------------
(***************************************************************************)
(* Guest processes get their own thread numbers, and the TLB leads a       *)
(* thread number only to pinned pages of its VM: for any number of VMs,    *)
(* processes, thread numbers, restarts, faults and hazards.                *)
(***************************************************************************)
EXTENDS Hypervisor, TLAPS

\* The time each prover has for a leaf that names none.
USE SMTT(60), ZenonT(60)

Words == [base : {"size", "ones", "addr"}, type : {"mem64", "high", "ones"}]

Configs ==
  [bars : [0 .. 5 -> Words], line : {"unset", "set"},
   msix : [ctl : {"off"}, shadow : {"off", "on"}]]

MdevType ==
  [st : {"none", "created", "wedged", "open"}, cur : Cpids \cup {INVALID_CPID},
   held : BOOLEAN, irq : {"never", "set", "put"}, kvm : BOOLEAN,
   sbuff : SUBSET Procs, cfg : Configs]

GuestType ==
  [run : BOOLEAN, lock : Procs \cup {None},
   st : [Procs -> {"out", "open", "asking", "in"}],
   cpid : [Procs -> Cpids \cup {INVALID_CPID}],
   pid_array : [Cpids -> Procs \cup {None}],
   sbuff : SUBSET (Cpids \cup {INVALID_CPID}), irq : BOOLEAN]

Pages == Mdevs \X Procs

FpgaType ==
  /\ free \subseteq Cpids
  /\ vdevs \in [Cpids -> Mdevs \cup {None, Gone}]
  /\ epid \in [Cpids -> Pages \cup {NoPage}]
  /\ tlb \in [Cpids -> Pages \cup {NoPage}]
  /\ leak \subseteq Pages
  /\ miss \in [cpid : Cpids, busy : BOOLEAN, irq : BOOLEAN]

TypeInv == md \in [Mdevs -> MdevType] /\ gst \in [Mdevs -> GuestType] /\ FpgaType

\* A guest driver runs only on an open device, and a device that is not open
\* has no buffers.
LifeInv ==
  \A m \in Mdevs :
    /\ gst[m].run => md[m].st = "open"
    /\ ~gst[m].run => /\ \A p \in Procs : gst[m].st[p] = "out"
                      /\ \A c \in Cpids : gst[m].pid_array[c] = None
    /\ md[m].st # "open" => md[m].sbuff = {}

\* c is taken and registered for process p of the VM on m.
Owns(m, p, c) == c \in Cpids \ free /\ epid[c] = <<m, p>> /\ vdevs[c] = m

\* The thread number a process holds is its own.
HoldsIt(m, p) ==
  gst[m].st[p] = "in" =>
    Owns(m, p, gst[m].cpid[p]) /\ gst[m].pid_array[gst[m].cpid[p]] = p

\* current_cpid is the thread number of the process that waits for one.
WaitsForIt(m, p) ==
  gst[m].st[p] = "asking" => gst[m].lock = p /\ (~md[m].held => Owns(m, p, md[m].cur))

\* What a guest looks up for a fault is registered for its device.
FaultsFindIt(m, c) == gst[m].pid_array[c] # None => vdevs[c] = m /\ c \notin free

RegInv ==
  \A m \in Mdevs :
    /\ \A p \in Procs : HoldsIt(m, p) /\ WaitsForIt(m, p)
    /\ \A c \in Cpids : FaultsFindIt(m, c)

Clean == hz \cap {"wrongcpid", "stillmapped"} = {}

\* The TLB has nothing for a free thread number.
FreeInv == Clean => \A c \in free : tlb[c] = NoPage

IInv == TypeInv /\ LifeInv /\ RegInv /\ FreeInv /\ TlbIsRight
-----------------------------------------------------------------------------
\* The configuration space of a device that is created, and after the guest
\* has placed its BARs.
LEMMA ConfigType ==
  /\ set_pci_config \in Configs
  /\ \A c \in Configs : handle_pci_cfg_write(c) \in Configs
<1>1. set_pci_config \in Configs
  BY DEF set_pci_config, Configs, Words, Word, set_up_msix_header, Low
<1>2. ASSUME NEW c \in Configs PROVE handle_pci_cfg_write(c) \in Configs
  <2>1. \A b \in 0 .. 5 :
          BarWrite(BarWrite(c.bars[b], Word("ones", "ones"), b), Word("addr", "high"), b) \in Words
    BY DEF BarWrite, cfg_bar_write, Word, Words, Configs, Low
  <2>2. write_to_msix_header(c.msix, "on") \in [ctl : {"off"}, shadow : {"off", "on"}]
    BY DEF write_to_msix_header, Configs
  <2>3. QED
    BY <2>1, <2>2 DEF handle_pci_cfg_write, Configs
<1>3. QED
  BY <1>1, <1>2

\* A new device and a guest without a driver.
LEMMA FreshType == FreshMdev \in MdevType /\ FreshGuest \in GuestType
BY ConfigType DEF FreshMdev, FreshGuest, MdevType, GuestType

\* An interrupt comes or is taken.
LEMMA GuestIrq ==
  ASSUME NEW f \in [Mdevs -> GuestType], NEW m \in Mdevs, NEW b \in BOOLEAN
  PROVE  [f EXCEPT ![m].irq = b] \in [Mdevs -> GuestType]
<1>1. ASSUME NEW g \in GuestType
      PROVE  [g EXCEPT !.irq = b] \in GuestType
  BY ZenonT(60) DEF GuestType
<1>2. QED
  BY <1>1

\* A process opens the device file.
LEMMA GuestOpens ==
  ASSUME NEW f \in [Mdevs -> GuestType], NEW m \in Mdevs, NEW p \in Procs
  PROVE  [f EXCEPT ![m].st[p] = "open"] \in [Mdevs -> GuestType]
<1>1. ASSUME NEW g \in GuestType
      PROVE  [g EXCEPT !.st[p] = "open"] \in GuestType
  BY ZenonT(60) DEF GuestType
<1>2. QED
  BY <1>1

\* A process closes it.
LEMMA GuestCloses ==
  ASSUME NEW f \in [Mdevs -> GuestType], NEW m \in Mdevs, NEW p \in Procs
  PROVE  [f EXCEPT ![m].sbuff = {}, ![m].st[p] = "out", ![m].cpid[p] = INVALID_CPID] \in [Mdevs -> GuestType]
<1> DEFINE Updated(g) == [g EXCEPT !.sbuff = {}, !.st[p] = "out", !.cpid[p] = INVALID_CPID]
<1>1. \A g \in GuestType : Updated(g) \in GuestType
  BY ZenonT(60) DEF GuestType
<1>2. [f EXCEPT ![m].sbuff = {}, ![m].st[p] = "out", ![m].cpid[p] = INVALID_CPID] = [f EXCEPT ![m] = Updated(f[m])]
  BY ZenonT(60)
<1> HIDE DEF Updated
<1>3. QED
  BY <1>1, <1>2

\* A process asks for a thread number.
LEMMA GuestAsks ==
  ASSUME NEW f \in [Mdevs -> GuestType], NEW m \in Mdevs, NEW p \in Procs
  PROVE  [f EXCEPT ![m].lock = p, ![m].st[p] = "asking"] \in [Mdevs -> GuestType]
<1>1. ASSUME NEW g \in GuestType
      PROVE  [g EXCEPT !.lock = p, !.st[p] = "asking"] \in GuestType
  BY ZenonT(60) DEF GuestType
<1>2. QED
  BY ZenonT(60), <1>1

\* A process gets one.
LEMMA GuestGets ==
  ASSUME NEW f \in [Mdevs -> GuestType], NEW m \in Mdevs, NEW p \in Procs, NEW c \in Cpids
  PROVE  [f EXCEPT ![m].lock = None, ![m].st[p] = "in",
                   ![m].cpid[p] = c, ![m].pid_array[c] = p] \in [Mdevs -> GuestType]
<1> DEFINE Updated(g) == [g EXCEPT !.lock = None, !.st[p] = "in",
                              !.cpid[p] = c, !.pid_array[c] = p]
<1>1. \A g \in GuestType : Updated(g) \in GuestType
  BY ZenonT(60) DEF GuestType
<1>2. [f EXCEPT ![m].lock = None, ![m].st[p] = "in",
                  ![m].cpid[p] = c, ![m].pid_array[c] = p] = [f EXCEPT ![m] = Updated(f[m])]
  BY ZenonT(60)
<1> HIDE DEF Updated
<1>3. QED
  BY <1>1, <1>2

\* A process gives it back.
LEMMA GuestGivesBack ==
  ASSUME NEW f \in [Mdevs -> GuestType], NEW m \in Mdevs, NEW p \in Procs, NEW c \in Cpids
  PROVE  [f EXCEPT ![m].st[p] = "open", ![m].cpid[p] = INVALID_CPID,
                   ![m].pid_array[c] = None] \in [Mdevs -> GuestType]
<1> DEFINE Updated(g) == [g EXCEPT !.st[p] = "open", !.cpid[p] = INVALID_CPID,
                              !.pid_array[c] = None]
<1>1. \A g \in GuestType : Updated(g) \in GuestType
  BY ZenonT(60) DEF GuestType
<1>2. [f EXCEPT ![m].st[p] = "open", ![m].cpid[p] = INVALID_CPID,
                  ![m].pid_array[c] = None] = [f EXCEPT ![m] = Updated(f[m])]
  BY ZenonT(60)
<1> HIDE DEF Updated
<1>3. QED
  BY <1>1, <1>2

\* A buffer is put on the list of the guest.
LEMMA GuestMaps ==
  ASSUME NEW f \in [Mdevs -> GuestType], NEW m \in Mdevs, NEW c \in Cpids \cup {INVALID_CPID}, NEW b \in BOOLEAN
  PROVE  [f EXCEPT ![m].sbuff = @ \cup {c}, ![m].irq = b] \in [Mdevs -> GuestType]
<1>1. ASSUME NEW g \in GuestType
      PROVE  [g EXCEPT !.sbuff = @ \cup {c}, !.irq = b] \in GuestType
  BY ZenonT(60) DEF GuestType
<1>2. QED
  BY ZenonT(60), <1>1

\* The VM of a device is gone.
LEMMA MdevClosed ==
  ASSUME NEW f \in [Mdevs -> MdevType], NEW m \in Mdevs
  PROVE  [f EXCEPT ![m].st = "created", ![m].sbuff = {}, ![m].irq = "never"] \in [Mdevs -> MdevType]
<1>1. ASSUME NEW g \in MdevType
      PROVE  [g EXCEPT !.st = "created", !.sbuff = {}, !.irq = "never"] \in MdevType
  BY ZenonT(60) DEF MdevType
<1>2. QED
  BY ZenonT(60), <1>1

\* A device whose lock is never given back.
LEMMA MdevHeld ==
  ASSUME NEW f \in [Mdevs -> MdevType], NEW m \in Mdevs
  PROVE  [f EXCEPT ![m].held = TRUE] \in [Mdevs -> MdevType]
<1>1. ASSUME NEW g \in MdevType
      PROVE  [g EXCEPT !.held = TRUE] \in MdevType
  BY ZenonT(60) DEF MdevType
<1>2. QED
  BY <1>1

\* A device that a VM takes, with or without success.
LEMMA MdevTaken ==
  ASSUME NEW d \in MdevType
  PROVE  LET taken == [d EXCEPT !.st = "wedged", !.irq = "never", !.sbuff = {}]
         IN  taken \in MdevType /\ [[taken EXCEPT !.st = "open"] EXCEPT !.kvm = TRUE] \in MdevType
<1>1. [d EXCEPT !.st = "wedged", !.irq = "never", !.sbuff = {}] \in MdevType
  BY ZenonT(60) DEF MdevType
<1>2. \A e \in MdevType : [e EXCEPT !.st = "open"] \in MdevType
  BY DEF MdevType
<1>3. \A e \in MdevType : [e EXCEPT !.kvm = TRUE] \in MdevType
  BY ZenonT(60) DEF MdevType
<1>4. QED
  BY ZenonT(60), <1>1, <1>2, <1>3

\* Every action keeps the types.
LEMMA NextTypeInv ==
  ASSUME TypeInv, RegInv, Next
  PROVE  TypeInv'
<1>1. ASSUME NEW m \in Mdevs, hypervisor_vfpga_create(m) PROVE TypeInv'
  <2>md. md[m] \in MdevType /\ gst[m] \in GuestType
    BY DEF TypeInv
  <2>1. md' \in [Mdevs -> MdevType]
    <3>1. [FreshMdev EXCEPT !.st = "created"] \in MdevType
      BY FreshType, <2>md DEF MdevType
    <3>2. md' = [md EXCEPT ![m] = [FreshMdev EXCEPT !.st = "created"]]
      BY <1>1 DEF hypervisor_vfpga_create, fpga, faults
    <3>3. QED
      BY <3>1, <3>2 DEF TypeInv
  <2>2. gst' \in [Mdevs -> GuestType]
    BY <1>1 DEF hypervisor_vfpga_create, TypeInv
  <2>3. FpgaType'
    BY <1>1 DEF hypervisor_vfpga_create, fpga, faults, TypeInv, FpgaType
  <2>4. QED
    BY <2>1, <2>2, <2>3 DEF TypeInv
<1>2. ASSUME NEW m \in Mdevs, hypervisor_vfpga_remove(m) PROVE TypeInv'
  <2>md. md[m] \in MdevType /\ gst[m] \in GuestType
    BY DEF TypeInv
  <2>1. md' \in [Mdevs -> MdevType]
    <3>1. FreshMdev \in MdevType
      BY FreshType, <2>md DEF MdevType
    <3>2. md' = [md EXCEPT ![m] = FreshMdev]
      BY <1>2 DEF hypervisor_vfpga_remove, fpga, faults
    <3>3. QED
      BY <3>1, <3>2 DEF TypeInv
  <2>2. gst' \in [Mdevs -> GuestType]
    BY <1>2 DEF hypervisor_vfpga_remove, TypeInv
  <2>3. FpgaType'
    BY <1>2 DEF hypervisor_vfpga_remove, faults, TypeInv, FpgaType
  <2>4. QED
    BY <2>1, <2>2, <2>3 DEF TypeInv
<1>3. ASSUME NEW m \in Mdevs, NEW ok \in BOOLEAN, hypervisor_vfpga_open(m, ok) PROVE TypeInv'
  <2>md. md[m] \in MdevType /\ gst[m] \in GuestType
    BY DEF TypeInv
  <2>1. md' \in [Mdevs -> MdevType]
    <3> DEFINE taken == [md[m] EXCEPT !.st = "wedged", !.irq = "never", !.sbuff = {}]
    <3>1. taken \in MdevType /\ [[taken EXCEPT !.st = "open"] EXCEPT !.kvm = TRUE] \in MdevType
      BY ZenonT(60), <2>md, MdevTaken
    <3>2. \/ md' = [md EXCEPT ![m] = taken]
          \/ md' = [md EXCEPT ![m] = [[taken EXCEPT !.st = "open"] EXCEPT !.kvm = TRUE]]
      BY ZenonT(60), <1>3 DEF hypervisor_vfpga_open, hypervisor_vfio_notifier
    <3> HIDE DEF taken
    <3>3. QED
      BY <3>1, <3>2 DEF TypeInv
  <2>2. gst' \in [Mdevs -> GuestType]
    BY <1>3 DEF hypervisor_vfpga_open, TypeInv
  <2>3. FpgaType'
    BY <1>3 DEF hypervisor_vfpga_open, fpga, faults, TypeInv, FpgaType
  <2>4. QED
    BY <2>1, <2>2, <2>3 DEF TypeInv
<1>4. ASSUME NEW m \in Mdevs, hypervisor_vfpga_close(m) PROVE TypeInv'
  <2>md. md[m] \in MdevType /\ gst[m] \in GuestType
    BY DEF TypeInv
  <2>1. md' \in [Mdevs -> MdevType]
    <3>1. md' = [md EXCEPT ![m].st = "created", ![m].sbuff = {}, ![m].irq = "never"]
      BY <1>4 DEF hypervisor_vfpga_close
    <3>2. md \in [Mdevs -> MdevType]
      BY DEF TypeInv
    <3>3. QED
      BY ZenonT(60), <3>1, <3>2, MdevClosed
  <2>2. gst' \in [Mdevs -> GuestType]
    <3>1. FreshGuest \in GuestType
      BY FreshType, <2>md DEF GuestType
    <3>2. gst' = [gst EXCEPT ![m] = FreshGuest]
      BY <1>4 DEF hypervisor_vfpga_close
    <3>3. QED
      BY <3>1, <3>2 DEF TypeInv
  <2>3. FpgaType'
    <3>1. \A q \in md[m].sbuff : <<m, q>> \in Pages
      BY <2>md DEF MdevType, Pages
    <3>2. leak' \subseteq Pages
      BY <1>4, <3>1 DEF hypervisor_vfpga_close, Reached, TypeInv, FpgaType
    <3>3. QED
      BY <1>4, <3>2 DEF hypervisor_vfpga_close, faults, TypeInv, FpgaType
  <2>4. QED
    BY <2>1, <2>2, <2>3 DEF TypeInv
<1>5. ASSUME NEW m \in Mdevs, guest_probe(m) PROVE TypeInv'
  <2>md. md[m] \in MdevType /\ gst[m] \in GuestType
    BY DEF TypeInv
  <2>1. md' \in [Mdevs -> MdevType]
    <3>1. handle_set_irq_msix([md[m] EXCEPT !.cfg = handle_pci_cfg_write(@)], "eventfd") \in MdevType
      BY ZenonT(60), ConfigType, <2>md DEF MdevType, handle_set_irq_msix
    <3>2. md' = [md EXCEPT ![m] = handle_set_irq_msix([md[m] EXCEPT !.cfg = handle_pci_cfg_write(@)], "eventfd")]
      BY <1>5 DEF guest_probe
    <3>3. QED
      BY <3>1, <3>2 DEF TypeInv
  <2>2. gst' \in [Mdevs -> GuestType]
    <3>1. [FreshGuest EXCEPT !.run = TRUE] \in GuestType
      BY ZenonT(60), FreshType, <2>md DEF GuestType
    <3>2. gst' = [gst EXCEPT ![m] = [FreshGuest EXCEPT !.run = TRUE]]
      BY <1>5 DEF guest_probe
    <3>3. QED
      BY <3>1, <3>2 DEF TypeInv
  <2>3. FpgaType'
    BY <1>5 DEF guest_probe, fpga, faults, TypeInv, FpgaType
  <2>4. QED
    BY <2>1, <2>2, <2>3 DEF TypeInv
<1>6. ASSUME NEW m \in Mdevs, guest_remove(m) PROVE TypeInv'
  <2>md. md[m] \in MdevType /\ gst[m] \in GuestType
    BY DEF TypeInv
  <2>1. md' \in [Mdevs -> MdevType]
    <3>1. handle_set_irq_msix(md[m], "none") \in MdevType
      BY <2>md DEF MdevType, handle_set_irq_msix
    <3>2. md' = [md EXCEPT ![m] = handle_set_irq_msix(md[m], "none")]
      BY <1>6 DEF guest_remove
    <3>3. QED
      BY <3>1, <3>2 DEF TypeInv
  <2>2. gst' \in [Mdevs -> GuestType]
    <3>1. FreshGuest \in GuestType
      BY FreshType, <2>md DEF GuestType
    <3>2. gst' = [gst EXCEPT ![m] = FreshGuest]
      BY <1>6 DEF guest_remove
    <3>3. QED
      BY <3>1, <3>2 DEF TypeInv
  <2>3. FpgaType'
    BY <1>6 DEF guest_remove, fpga, faults, TypeInv, FpgaType
  <2>4. QED
    BY <2>1, <2>2, <2>3 DEF TypeInv
<1>7. ASSUME NEW m \in Mdevs, TestInterrupt(m) PROVE TypeInv'
  <2>1. md' \in [Mdevs -> MdevType]
    BY <1>7 DEF TestInterrupt, TypeInv
  <2>2. gst' \in [Mdevs -> GuestType]
    <3>1. gst' = [gst EXCEPT ![m].irq = @ \/ (md[m].irq = "set" /\ gst[m].run)]
      BY <1>7 DEF TestInterrupt, fire_interrupt
    <3>2. gst \in [Mdevs -> GuestType]
      BY DEF TypeInv
    <3>3. QED
      BY ZenonT(60), <3>1, <3>2, GuestIrq
  <2>3. FpgaType'
    BY <1>7 DEF TestInterrupt, fpga, TypeInv, FpgaType
  <2>4. QED
    BY <2>1, <2>2, <2>3 DEF TypeInv
<1>8. ASSUME NEW m \in Mdevs, NEW res, guest_fpga_tlb_miss_isr(m, res) PROVE TypeInv'
  <2>c. /\ miss.cpid \in Cpids
        /\ gst[m].pid_array[miss.cpid] # None => gst[m].pid_array[miss.cpid] \in Procs
    BY DEF TypeInv, FpgaType, GuestType
  <2>1. md' \in [Mdevs -> MdevType]
    <3>1. md \in [Mdevs -> MdevType]
      BY DEF TypeInv
    <3>2. \/ md' = md
          \/ \E p \in Procs : md' = [md EXCEPT ![m].sbuff = IF res = "ok" THEN @ \cup {p} ELSE @]
      BY <1>8, <2>c
         DEF guest_fpga_tlb_miss_isr, guest_get_user_pages, MAP_USER_write,
             hypervisor_tlb_get_user_pages
    <3>3. QED
      BY <3>1, <3>2 DEF MdevType
  <2>2. gst' \in [Mdevs -> GuestType]
    <3>1. gst \in [Mdevs -> GuestType]
      BY DEF TypeInv
    <3>2. \/ gst' = [gst EXCEPT ![m].irq = FALSE]
          \/ gst' = [gst EXCEPT ![m].sbuff = @ \cup {miss.cpid}, ![m].irq = FALSE]
      BY <1>8 DEF guest_fpga_tlb_miss_isr, guest_get_user_pages
    <3>3. QED
      <4>1. CASE gst' = [gst EXCEPT ![m].irq = FALSE]
        BY ZenonT(60), <3>1, <4>1, GuestIrq
      <4>2. CASE gst' = [gst EXCEPT ![m].sbuff = @ \cup {miss.cpid}, ![m].irq = FALSE]
        BY ZenonT(60), <3>1, <4>2, <2>c, GuestMaps
      <4>3. QED
        BY <3>2, <4>1, <4>2
  <2>3. FpgaType'
    <3>1. gst[m].pid_array[miss.cpid] # None => <<m, gst[m].pid_array[miss.cpid]>> \in Pages
      BY <2>c DEF Pages
    <3>2. tlb' \in [Cpids -> Pages \cup {NoPage}] /\ leak' \subseteq Pages
      BY <1>8, <3>1
         DEF guest_fpga_tlb_miss_isr, guest_get_user_pages, MAP_USER_write,
             hypervisor_tlb_get_user_pages, FireMapping, Forgotten, Reached,
             TypeInv, FpgaType
    <3>3. miss' \in [cpid : Cpids, busy : BOOLEAN, irq : BOOLEAN]
      BY ZenonT(60), <1>8 DEF guest_fpga_tlb_miss_isr, TypeInv, FpgaType
    <3>4. QED
      BY <1>8, <3>2, <3>3 DEF guest_fpga_tlb_miss_isr, TypeInv, FpgaType
  <2>4. QED
    BY <2>1, <2>2, <2>3 DEF TypeInv
<1>9. ASSUME NEW m \in Mdevs, NEW p \in ProcsOf[m], guest_open(m, p) PROVE TypeInv'
  <2>p. p \in Procs
    BY HypervisorAssumption
  <2>1. md' \in [Mdevs -> MdevType]
    BY <1>9 DEF guest_open, TypeInv
  <2>2. gst' \in [Mdevs -> GuestType]
    <3>1. gst' = [gst EXCEPT ![m].st[p] = "open"]
      BY <1>9 DEF guest_open, fpga, faults
    <3>2. gst \in [Mdevs -> GuestType]
      BY DEF TypeInv
    <3>3. QED
      BY <3>1, <3>2, <2>p, GuestOpens
  <2>3. FpgaType'
    BY <1>9 DEF guest_open, fpga, faults, TypeInv, FpgaType
  <2>4. QED
    BY <2>1, <2>2, <2>3 DEF TypeInv
<1>10. ASSUME NEW m \in Mdevs, NEW p \in ProcsOf[m], guest_release(m, p) PROVE TypeInv'
  <2>p. p \in Procs
    BY HypervisorAssumption
  <2>1. md' \in [Mdevs -> MdevType]
    <3>1. md' = [md EXCEPT ![m].sbuff = @ \ md[m].sbuff]
      BY <1>10 DEF guest_release, hypervisor_tlb_put_user_pages_all, unmap_entry
    <3>2. md \in [Mdevs -> MdevType]
      BY DEF TypeInv
    <3>3. QED
      BY <3>1, <3>2, <2>p DEF MdevType
  <2>2. gst' \in [Mdevs -> GuestType]
    <3>1. gst' = [gst EXCEPT ![m].sbuff = {}, ![m].st[p] = "out", ![m].cpid[p] = INVALID_CPID]
      BY <1>10 DEF guest_release
    <3>2. gst \in [Mdevs -> GuestType]
      BY DEF TypeInv
    <3>3. QED
      BY ZenonT(60), <3>1, <3>2, <2>p, GuestCloses
  <2>3. FpgaType'
    BY ZenonT(60), <1>10
       DEF guest_release, hypervisor_tlb_put_user_pages_all, unmap_entry, fpga,
           faults, TypeInv, FpgaType
  <2>4. QED
    BY <2>1, <2>2, <2>3 DEF TypeInv
<1>11. ASSUME NEW m \in Mdevs, NEW p \in ProcsOf[m], register_pid_ask(m, p) PROVE TypeInv'
  <2>p. p \in Procs
    BY HypervisorAssumption
  <2>1. md' \in [Mdevs -> MdevType]
    <3>1. md \in [Mdevs -> MdevType]
      BY DEF TypeInv
    <3>2. CASE free = {}
      <4>1. md' = [md EXCEPT ![m].held = TRUE]
        BY <1>11, <3>2 DEF register_pid_ask, REGISTER_PID_write
      <4>2. QED
        BY <3>1, <4>1, MdevHeld
    <3>3. CASE free # {}
      <4>1. PICK c \in Cpids : md' = [md EXCEPT ![m].cur = c]
        BY <1>11, <3>3
           DEF register_pid_ask, REGISTER_PID_write, TypeInv, FpgaType
      <4>2. QED
        BY <3>1, <4>1 DEF MdevType
    <3>4. QED
      BY <3>2, <3>3
  <2>2. gst' \in [Mdevs -> GuestType]
    <3>1. gst' = [gst EXCEPT ![m].lock = p, ![m].st[p] = "asking"]
      BY <1>11 DEF register_pid_ask
    <3>2. gst \in [Mdevs -> GuestType]
      BY DEF TypeInv
    <3>3. QED
      BY ZenonT(60), <3>1, <3>2, <2>p, GuestAsks
  <2>3. FpgaType'
    <3>1. <<m, p>> \in Pages
      BY <2>p DEF Pages
    <3>2. QED
      BY <1>11, <3>1
         DEF register_pid_ask, REGISTER_PID_write, faults, TypeInv, FpgaType
  <2>4. QED
    BY <2>1, <2>2, <2>3 DEF TypeInv
<1>12. ASSUME NEW m \in Mdevs, NEW p \in ProcsOf[m], register_pid_get(m, p) PROVE TypeInv'
  <2>p. p \in Procs
    BY HypervisorAssumption
  <2>md. md[m] \in MdevType /\ gst[m] \in GuestType
    BY DEF TypeInv
  <2>c. md[m].cur \in Cpids
    BY <1>12, <2>md DEF register_pid_get, MdevType
  <2>1. md' \in [Mdevs -> MdevType]
    <3>1. md' = [md EXCEPT ![m].cur = INVALID_CPID]
      BY <1>12 DEF register_pid_get, fpga, faults
    <3>2. md \in [Mdevs -> MdevType]
      BY DEF TypeInv
    <3>3. QED
      BY <3>1, <3>2 DEF MdevType
  <2>2. gst' \in [Mdevs -> GuestType]
    <3>1. gst' = [gst EXCEPT ![m].lock = None, ![m].st[p] = "in",
                             ![m].cpid[p] = md[m].cur, ![m].pid_array[md[m].cur] = p]
      BY <1>12 DEF register_pid_get, fpga, faults
    <3>2. gst \in [Mdevs -> GuestType]
      BY DEF TypeInv
    <3>3. QED
      BY ZenonT(60), <3>1, <3>2, <2>p, <2>c, GuestGets
  <2>3. FpgaType'
    BY <1>12 DEF register_pid_get, fpga, faults, TypeInv, FpgaType
  <2>4. QED
    BY <2>1, <2>2, <2>3 DEF TypeInv
<1>13. ASSUME NEW m \in Mdevs, NEW p \in ProcsOf[m], unregister_pid(m, p) PROVE TypeInv'
  <2>p. p \in Procs
    BY HypervisorAssumption
  <2>md. md[m] \in MdevType /\ gst[m] \in GuestType
    BY DEF TypeInv
  <2>c. gst[m].cpid[p] \in Cpids
    BY <1>13, <2>p DEF unregister_pid, RegInv, HoldsIt, Owns
  <2>1. md' \in [Mdevs -> MdevType]
    BY <1>13 DEF unregister_pid, TypeInv
  <2>2. gst' \in [Mdevs -> GuestType]
    <3>1. gst' = [gst EXCEPT ![m].st[p] = "open", ![m].cpid[p] = INVALID_CPID,
                             ![m].pid_array[gst[m].cpid[p]] = None]
      BY <1>13 DEF unregister_pid, fpga, faults
    <3>2. gst \in [Mdevs -> GuestType]
      BY DEF TypeInv
    <3>3. QED
      BY ZenonT(60), <3>1, <3>2, <2>p, <2>md, <2>c, GuestGivesBack
  <2>3. FpgaType'
    BY <1>13, <2>c DEF unregister_pid, faults, TypeInv, FpgaType
  <2>4. QED
    BY <2>1, <2>2, <2>3 DEF TypeInv
<1>14. ASSUME NEW m \in Mdevs, NEW p \in ProcsOf[m], NEW res, guest_map(m, p, res) PROVE TypeInv'
  <2>p. p \in Procs
    BY HypervisorAssumption
  <2>md. md[m] \in MdevType /\ gst[m] \in GuestType
    BY DEF TypeInv
  <2>c. gst[m].cpid[p] \in Cpids \cup {INVALID_CPID} /\ gst[m].irq \in BOOLEAN
    BY <2>md, <2>p DEF GuestType
  <2>1. md' \in [Mdevs -> MdevType]
    <3>1. md \in [Mdevs -> MdevType]
      BY DEF TypeInv
    <3>2. \/ md' = md
          \/ md' = [md EXCEPT ![m].sbuff = IF res = "ok" THEN @ \cup {p} ELSE @]
      BY <1>14
         DEF guest_map, guest_get_user_pages, MAP_USER_write,
             hypervisor_tlb_get_user_pages
    <3>3. QED
      BY <3>1, <3>2, <2>p DEF MdevType
  <2>2. gst' \in [Mdevs -> GuestType]
    <3>1. gst' = [gst EXCEPT ![m].sbuff = @ \cup {gst[m].cpid[p]}, ![m].irq = gst[m].irq]
      BY <1>14 DEF guest_map, guest_get_user_pages
    <3>2. gst \in [Mdevs -> GuestType]
      BY DEF TypeInv
    <3>3. QED
      BY ZenonT(60), <3>1, <3>2, <2>p, <2>md, <2>c, GuestMaps
  <2>3. FpgaType'
    <3>1. <<m, p>> \in Pages
      BY <2>p DEF Pages
    <3>2. QED
      BY <1>14, <3>1
         DEF guest_map, guest_get_user_pages, MAP_USER_write, faults,
             hypervisor_tlb_get_user_pages, FireMapping, Forgotten, Reached,
             TypeInv, FpgaType
  <2>4. QED
    BY <2>1, <2>2, <2>3 DEF TypeInv
<1>15. ASSUME NEW m \in Mdevs, NEW p \in ProcsOf[m], guest_put_user_pages(m, p) PROVE TypeInv'
  <2>p. p \in Procs
    BY HypervisorAssumption
  <2>md. md[m] \in MdevType /\ gst[m] \in GuestType
    BY DEF TypeInv
  <2>1. md' \in [Mdevs -> MdevType]
    <3>1. md' = [md EXCEPT ![m].sbuff = @ \ (IF gst[m].cpid[p] = 0 THEN md[m].sbuff ELSE {})]
      BY <1>15
         DEF guest_put_user_pages, UNMAP_USER_write,
             hypervisor_tlb_put_user_pages, unmap_entry
    <3>2. md \in [Mdevs -> MdevType]
      BY DEF TypeInv
    <3>3. QED
      BY <3>1, <3>2 DEF MdevType
  <2>2. gst' \in [Mdevs -> GuestType]
    <3>1. gst' = [gst EXCEPT ![m].sbuff = @ \ {gst[m].cpid[p]}]
      BY <1>15 DEF guest_put_user_pages
    <3>2. gst \in [Mdevs -> GuestType]
      BY DEF TypeInv
    <3>3. QED
      BY ZenonT(60), <3>1, <3>2, <2>p, <2>md DEF GuestType
  <2>3. FpgaType'
    BY ZenonT(60), <1>15
       DEF guest_put_user_pages, UNMAP_USER_write,
           hypervisor_tlb_put_user_pages, unmap_entry, fpga, faults, TypeInv,
           FpgaType
  <2>4. QED
    BY <2>1, <2>2, <2>3 DEF TypeInv
<1>16. ASSUME NEW m \in Mdevs, NEW p \in ProcsOf[m], Miss(m, p) PROVE TypeInv'
  <2>p. p \in Procs
    BY HypervisorAssumption
  <2>c. gst[m].cpid[p] \in Cpids
    BY <1>16, <2>p DEF Miss, RegInv, HoldsIt, Owns
  <2>1. md' \in [Mdevs -> MdevType]
    BY <1>16 DEF Miss, TypeInv
  <2>2. gst' \in [Mdevs -> GuestType]
    BY <1>16 DEF Miss, TypeInv
  <2>3. FpgaType'
    BY <1>16, <2>c DEF Miss, fpga, TypeInv, FpgaType
  <2>4. QED
    BY <2>1, <2>2, <2>3 DEF TypeInv
<1>17. CASE hypervisor_tlb_miss_isr
  <2>1. md' \in [Mdevs -> MdevType]
    BY <1>17 DEF hypervisor_tlb_miss_isr, TypeInv
  <2>2. gst' \in [Mdevs -> GuestType]
    <3>1. gst \in [Mdevs -> GuestType]
      BY DEF TypeInv
    <3>2. \/ gst' = gst
          \/ \E m \in Mdevs : gst' = [gst EXCEPT ![m].irq = @ \/ (md[m].irq = "set" /\ gst[m].run)]
      BY <1>17 DEF hypervisor_tlb_miss_isr, fire_interrupt, TypeInv
    <3>3. ASSUME NEW m \in Mdevs,
                 gst' = [gst EXCEPT ![m].irq = @ \/ (md[m].irq = "set" /\ gst[m].run)]
          PROVE  gst' \in [Mdevs -> GuestType]
      BY ZenonT(60), <3>1, <3>3, GuestIrq
    <3>4. QED
      BY <3>1, <3>2, <3>3
  <2>3. FpgaType'
    BY ZenonT(60), <1>17
       DEF hypervisor_tlb_miss_isr, fire_interrupt, fpga, faults, TypeInv,
           FpgaType
  <2>4. QED
    BY <2>1, <2>2, <2>3 DEF TypeInv
<1>18. QED
  BY <1>1, <1>2, <1>3, <1>4, <1>5, <1>6, <1>7, <1>8, <1>9, <1>10, <1>11, <1>12,
     <1>13, <1>14, <1>15, <1>16, <1>17
     DEF Next, Life, Calls, GuestIsr

-----------------------------------------------------------------------------
\* Nothing changes in who is registered in the guests.
SameProcs ==
  \A n \in Mdevs :
    /\ gst'[n].run = gst[n].run /\ gst'[n].lock = gst[n].lock /\ gst'[n].st = gst[n].st
    /\ gst'[n].cpid = gst[n].cpid /\ gst'[n].pid_array = gst[n].pid_array

\* Of the devices only the buffers change, and only those of m.
SameDevs(m) ==
  \A n \in Mdevs :
    /\ md'[n].st = md[n].st /\ md'[n].held = md[n].held /\ md'[n].cur = md[n].cur
    /\ n # m => md'[n].sbuff = md[n].sbuff

\* An interrupt tells the guest nothing about its processes.
LEMMA IrqKeeps ==
  ASSUME TypeInv, NEW m \in Mdevs, fire_interrupt(m)
  PROVE  SameProcs
<1>1. \A n \in Mdevs : gst[n] \in GuestType
  BY DEF TypeInv, FpgaType
<1>2. gst' = [gst EXCEPT ![m].irq = @ \/ (md[m].irq = "set" /\ gst[m].run)] /\ DOMAIN gst = Mdevs
  BY DEF fire_interrupt, TypeInv, FpgaType
<1>3. QED
  BY <1>1, <1>2 DEF SameProcs, GuestType

\* Neither does a mapping.
LEMMA MapKeeps ==
  ASSUME TypeInv, NEW m \in Mdevs, NEW p, NEW c, NEW res, NEW b, guest_get_user_pages(m, p, c, res, b)
  PROVE  /\ SameProcs /\ SameDevs(m)
         /\ md'[m].sbuff \in {md[m].sbuff, md[m].sbuff \cup {p}}
         /\ res = "ok" => md'[m].sbuff = md[m].sbuff \cup {p}
<1>1. \A n \in Mdevs : gst[n] \in GuestType /\ md[n] \in MdevType
  BY DEF TypeInv, FpgaType
<1>2. DOMAIN gst = Mdevs /\ DOMAIN md = Mdevs
  BY DEF TypeInv, FpgaType
<1>3. gst' = [gst EXCEPT ![m].sbuff = @ \cup {c}, ![m].irq = b]
  BY DEF guest_get_user_pages
<1>4. SameProcs
  BY <1>2, <1>3 DEF SameProcs
<1>5. /\ \/ md' = [md EXCEPT ![m].sbuff = IF res = "ok" THEN @ \cup {p} ELSE @]
         \/ md' = md
      /\ res = "ok" => md' = [md EXCEPT ![m].sbuff = IF res = "ok" THEN @ \cup {p} ELSE @]
  BY DEF guest_get_user_pages, MAP_USER_write, hypervisor_tlb_get_user_pages,
     hypervisor_access_kvm
<1>6. QED
  BY <1>1, <1>2, <1>4, <1>5 DEF SameDevs, MdevType

\* Every action keeps LifeInv.
LEMMA NextLifeInv ==
  ASSUME TypeInv, LifeInv, Next
  PROVE  LifeInv'
<1>1. ASSUME NEW m \in Mdevs, hypervisor_vfpga_create(m) PROVE LifeInv'
  <2>1. ASSUME NEW n \in Mdevs PROVE LifeInv!(n)'
    BY <1>1 DEF hypervisor_vfpga_create, LifeInv, FreshMdev
  <2>2. QED
    BY <2>1 DEF LifeInv
<1>2. ASSUME NEW m \in Mdevs, hypervisor_vfpga_remove(m) PROVE LifeInv'
  <2>1. ASSUME NEW n \in Mdevs PROVE LifeInv!(n)'
    BY <1>2 DEF hypervisor_vfpga_remove, LifeInv, FreshMdev
  <2>2. QED
    BY <2>1 DEF LifeInv
<1>3. ASSUME NEW m \in Mdevs, NEW ok \in BOOLEAN, hypervisor_vfpga_open(m, ok) PROVE LifeInv'
  <2>1. ASSUME NEW n \in Mdevs PROVE LifeInv!(n)'
    BY <1>3 DEF hypervisor_vfpga_open, hypervisor_vfio_notifier, LifeInv
  <2>2. QED
    BY <2>1 DEF LifeInv
<1>4. ASSUME NEW m \in Mdevs, hypervisor_vfpga_close(m) PROVE LifeInv'
  <2>1. ASSUME NEW n \in Mdevs PROVE LifeInv!(n)'
    BY <1>4 DEF hypervisor_vfpga_close, LifeInv, TypeInv, FreshGuest
  <2>2. QED
    BY <2>1 DEF LifeInv
<1>5. ASSUME NEW m \in Mdevs, guest_probe(m) PROVE LifeInv'
  <2>1. ASSUME NEW n \in Mdevs PROVE LifeInv!(n)'
    BY <1>5 DEF guest_probe, handle_set_irq_msix, LifeInv
  <2>2. QED
    BY <2>1 DEF LifeInv
<1>6. ASSUME NEW m \in Mdevs, guest_remove(m) PROVE LifeInv'
  <2>1. ASSUME NEW n \in Mdevs PROVE LifeInv!(n)'
    BY <1>6 DEF guest_remove, handle_set_irq_msix, LifeInv, FreshGuest
  <2>2. QED
    BY <2>1 DEF LifeInv
<1>7. ASSUME NEW m \in Mdevs, TestInterrupt(m) PROVE LifeInv'
  <2>1. ASSUME NEW n \in Mdevs PROVE LifeInv!(n)'
    BY <1>7 DEF TestInterrupt, fire_interrupt, LifeInv
  <2>2. QED
    BY <2>1 DEF LifeInv
<1>8. ASSUME NEW m \in Mdevs, NEW res, guest_fpga_tlb_miss_isr(m, res) PROVE LifeInv'
  <2>1. CASE guest_get_user_pages(m, gst[m].pid_array[miss.cpid], miss.cpid, res, FALSE)
             /\ gst[m].pid_array[miss.cpid] # None
    <3>1. SameProcs /\ SameDevs(m)
      BY ZenonT(60), <2>1, MapKeeps
    <3>2. md[m].st = "open"
      BY <2>1 DEF LifeInv, TypeInv, FpgaType
    <3>3. QED
      BY <3>1, <3>2 DEF LifeInv, SameProcs, SameDevs
  <2>2. CASE gst' = [gst EXCEPT ![m].irq = FALSE] /\ md' = md
    BY <2>2 DEF LifeInv
  <2>3. QED
    BY ZenonT(60), <1>8, <2>1, <2>2 DEF guest_fpga_tlb_miss_isr
<1>9. ASSUME NEW m \in Mdevs, NEW p \in ProcsOf[m], guest_open(m, p) PROVE LifeInv'
  <2>1. ASSUME NEW n \in Mdevs PROVE LifeInv!(n)'
    BY <1>9 DEF guest_open, LifeInv
  <2>2. QED
    BY <2>1 DEF LifeInv
<1>10. ASSUME NEW m \in Mdevs, NEW p \in ProcsOf[m], guest_release(m, p) PROVE LifeInv'
  <2>1. ASSUME NEW n \in Mdevs PROVE LifeInv!(n)'
    BY <1>10
       DEF guest_release, hypervisor_tlb_put_user_pages_all, unmap_entry,
           LifeInv, TypeInv
  <2>2. QED
    BY <2>1 DEF LifeInv
<1>11. ASSUME NEW m \in Mdevs, NEW p \in ProcsOf[m], register_pid_ask(m, p) PROVE LifeInv'
  <2>1. p \in Procs /\ gst[m] \in GuestType
    BY HypervisorAssumption DEF TypeInv, FpgaType
  <2>2. md[m].st = "open" /\ gst[m].run
    BY <1>11, <2>1 DEF register_pid_ask, LifeInv
  <2>3. \A n \in Mdevs : md'[n].st = md[n].st /\ md'[n].sbuff = md[n].sbuff
    BY <1>11 DEF register_pid_ask, REGISTER_PID_write, TypeInv, MdevType
  <2>4. \A n \in Mdevs :
          /\ gst'[n].run = gst[n].run /\ gst'[n].pid_array = gst[n].pid_array
          /\ n # m => gst'[n].st = gst[n].st
    BY <1>11 DEF register_pid_ask, TypeInv
  <2>5. ASSUME NEW n \in Mdevs PROVE LifeInv!(n)'
    <3>1. CASE n = m
      BY <2>2, <2>3, <2>4, <3>1
    <3>2. CASE n # m
      <4>1. LifeInv!(n)
        BY DEF LifeInv
      <4>2. QED
        BY <2>3, <2>4, <3>2, <4>1
    <3>3. QED
      BY <3>1, <3>2
  <2>6. QED
    BY <2>5 DEF LifeInv
<1>12. ASSUME NEW m \in Mdevs, NEW p \in ProcsOf[m], register_pid_get(m, p) PROVE LifeInv'
  <2>1. p \in Procs /\ gst[m] \in GuestType
    BY HypervisorAssumption DEF TypeInv, FpgaType
  <2>2. md[m].st = "open" /\ gst[m].run
    BY <1>12, <2>1 DEF register_pid_get, LifeInv
  <2>3. \A n \in Mdevs : md'[n].st = md[n].st /\ md'[n].sbuff = md[n].sbuff
    BY <1>12 DEF register_pid_get, TypeInv, MdevType
  <2>4. \A n \in Mdevs :
          /\ gst'[n].run = gst[n].run
          /\ n # m => gst'[n] = gst[n]
    BY <1>12 DEF register_pid_get, TypeInv
  <2>5. ASSUME NEW n \in Mdevs PROVE LifeInv!(n)'
    <3>1. CASE n = m
      BY <2>2, <2>3, <2>4, <3>1
    <3>2. CASE n # m
      <4>1. LifeInv!(n)
        BY DEF LifeInv
      <4>2. QED
        BY <2>3, <2>4, <3>2, <4>1
    <3>3. QED
      BY <3>1, <3>2
  <2>6. QED
    BY <2>5 DEF LifeInv
<1>13. ASSUME NEW m \in Mdevs, NEW p \in ProcsOf[m], unregister_pid(m, p) PROVE LifeInv'
  <2>1. ASSUME NEW n \in Mdevs PROVE LifeInv!(n)'
    BY <1>13, HypervisorAssumption, FreshType
       DEF unregister_pid, fpga, faults, LifeInv, TypeInv, FpgaType, MdevType,
           GuestType, FreshGuest, FreshMdev
  <2>2. QED
    BY <2>1 DEF LifeInv
<1>14. ASSUME NEW m \in Mdevs, NEW p \in ProcsOf[m], NEW res, guest_map(m, p, res) PROVE LifeInv'
  <2>1. guest_get_user_pages(m, p, gst[m].cpid[p], res, gst[m].irq) /\ gst[m].st[p] = "in"
    BY <1>14 DEF guest_map
  <2>2. p \in Procs
    BY HypervisorAssumption
  <2>3. SameProcs /\ SameDevs(m)
    BY <2>1, MapKeeps
  <2>4. md[m].st = "open"
    BY <2>1, <2>2 DEF LifeInv
  <2>5. QED
    BY <2>3, <2>4 DEF LifeInv, SameProcs, SameDevs
<1>15. ASSUME NEW m \in Mdevs, NEW p \in ProcsOf[m], guest_put_user_pages(m, p) PROVE LifeInv'
  <2>1. ASSUME NEW n \in Mdevs PROVE LifeInv!(n)'
    BY <1>15
       DEF guest_put_user_pages, UNMAP_USER_write,
           hypervisor_tlb_put_user_pages, unmap_entry, LifeInv
  <2>2. QED
    BY <2>1 DEF LifeInv
<1>16. ASSUME NEW m \in Mdevs, NEW p \in ProcsOf[m], Miss(m, p) PROVE LifeInv'
  <2>1. ASSUME NEW n \in Mdevs PROVE LifeInv!(n)'
    BY <1>16 DEF Miss, LifeInv
  <2>2. QED
    BY <2>1 DEF LifeInv
<1>17. CASE hypervisor_tlb_miss_isr
  <2>1. md' = md
    BY <1>17 DEF hypervisor_tlb_miss_isr
  <2>2. SameProcs
    BY <1>17, IrqKeeps DEF hypervisor_tlb_miss_isr, SameProcs, TypeInv, FpgaType
  <2>3. QED
    BY <2>1, <2>2 DEF LifeInv, SameProcs
<1>18. QED
  BY <1>1, <1>2, <1>3, <1>4, <1>5, <1>6, <1>7, <1>8, <1>9, <1>10, <1>11, <1>12,
     <1>13, <1>14, <1>15, <1>16, <1>17
     DEF Next, Life, Calls, GuestIsr

\* Steps that leave registrations alone.
LEMMA RegKept ==
  ASSUME RegInv, SameProcs, UNCHANGED <<free, vdevs, epid>>,
         \A n \in Mdevs : md'[n].held = md[n].held /\ md'[n].cur = md[n].cur
  PROVE  RegInv'
<1>1. ASSUME NEW n \in Mdevs, NEW q \in Procs PROVE HoldsIt(n, q)'
  <2>1. HoldsIt(n, q)
    BY DEF RegInv
  <2>2. gst'[n].st = gst[n].st /\ gst'[n].cpid = gst[n].cpid /\ gst'[n].pid_array = gst[n].pid_array
    BY DEF SameProcs
  <2>3. QED
    BY <2>1, <2>2 DEF HoldsIt, Owns
<1>2. ASSUME NEW n \in Mdevs, NEW q \in Procs PROVE WaitsForIt(n, q)'
  <2>1. WaitsForIt(n, q)
    BY DEF RegInv
  <2>2. gst'[n].st = gst[n].st /\ gst'[n].lock = gst[n].lock
    BY DEF SameProcs
  <2>3. QED
    BY <2>1, <2>2 DEF WaitsForIt, Owns
<1>3. ASSUME NEW n \in Mdevs, NEW c \in Cpids PROVE FaultsFindIt(n, c)'
  BY DEF RegInv, FaultsFindIt, SameProcs
<1>4. QED
  BY <1>1, <1>2, <1>3 DEF RegInv

\* Every action keeps RegInv.
LEMMA NextRegInv ==
  ASSUME TypeInv, LifeInv, RegInv, Next
  PROVE  RegInv'
<1>1. ASSUME NEW m \in Mdevs, hypervisor_vfpga_create(m) PROVE RegInv'
  <2>7. ASSUME NEW n \in Mdevs, NEW q \in Procs PROVE HoldsIt(n, q)'
    BY <1>1
       DEF RegInv, HoldsIt, Owns, hypervisor_vfpga_create, fpga, TypeInv,
           FpgaType
  <2>8. ASSUME NEW n \in Mdevs, NEW q \in Procs PROVE WaitsForIt(n, q)'
    <3>1. CASE n = m
      BY <1>1, <3>1 DEF hypervisor_vfpga_create, LifeInv, WaitsForIt
    <3>2. CASE n # m
      <4>1. WaitsForIt(n, q) /\ md'[n] = md[n] /\ gst' = gst
        BY <1>1, <3>2 DEF hypervisor_vfpga_create, RegInv
      <4>2. \A c : Owns(n, q, c) => Owns(n, q, c)'
        BY <1>1 DEF hypervisor_vfpga_create, fpga, Owns
      <4>3. QED
        BY <4>1, <4>2 DEF WaitsForIt
    <3>3. QED
      BY <3>1, <3>2
  <2>9. ASSUME NEW n \in Mdevs, NEW c \in Cpids PROVE FaultsFindIt(n, c)'
    BY <1>1 DEF RegInv, FaultsFindIt, hypervisor_vfpga_create, fpga
  <2>10. QED
    BY <2>7, <2>8, <2>9 DEF RegInv
<1>2. ASSUME NEW m \in Mdevs, hypervisor_vfpga_remove(m) PROVE RegInv'
  <2>7. ASSUME NEW n \in Mdevs, NEW q \in Procs PROVE HoldsIt(n, q)'
    BY <1>2
       DEF RegInv, HoldsIt, Owns, hypervisor_vfpga_remove, LifeInv, TypeInv,
           FpgaType
  <2>8. ASSUME NEW n \in Mdevs, NEW q \in Procs PROVE WaitsForIt(n, q)'
    <3>1. CASE n = m
      BY <1>2, <3>1 DEF hypervisor_vfpga_remove, LifeInv, WaitsForIt
    <3>2. CASE n # m
      <4>1. WaitsForIt(n, q) /\ md'[n] = md[n] /\ gst' = gst
        BY <1>2, <3>2 DEF hypervisor_vfpga_remove, RegInv
      <4>2. \A c : Owns(n, q, c) => Owns(n, q, c)'
        BY <1>2, <3>2 DEF hypervisor_vfpga_remove, Owns
      <4>3. QED
        BY <4>1, <4>2 DEF WaitsForIt
    <3>3. QED
      BY <3>1, <3>2
  <2>9. ASSUME NEW n \in Mdevs, NEW c \in Cpids PROVE FaultsFindIt(n, c)'
    BY <1>2 DEF RegInv, FaultsFindIt, hypervisor_vfpga_remove, LifeInv
  <2>10. QED
    BY <2>7, <2>8, <2>9 DEF RegInv
<1>3. ASSUME NEW m \in Mdevs, NEW ok \in BOOLEAN, hypervisor_vfpga_open(m, ok) PROVE RegInv'
  <2>7. ASSUME NEW n \in Mdevs, NEW q \in Procs PROVE HoldsIt(n, q)'
    BY <1>3
       DEF RegInv, HoldsIt, Owns, hypervisor_vfpga_open, fpga, TypeInv, FpgaType
  <2>8. ASSUME NEW n \in Mdevs, NEW q \in Procs PROVE WaitsForIt(n, q)'
    BY <1>3
       DEF RegInv, WaitsForIt, Owns, hypervisor_vfpga_open, fpga, LifeInv,
           TypeInv, FpgaType
  <2>9. ASSUME NEW n \in Mdevs, NEW c \in Cpids PROVE FaultsFindIt(n, c)'
    BY <1>3 DEF RegInv, FaultsFindIt, hypervisor_vfpga_open, fpga
  <2>10. QED
    BY <2>7, <2>8, <2>9 DEF RegInv
<1>4. ASSUME NEW m \in Mdevs, hypervisor_vfpga_close(m) PROVE RegInv'
  <2>7. ASSUME NEW n \in Mdevs, NEW q \in Procs PROVE HoldsIt(n, q)'
    BY <1>4
       DEF RegInv, HoldsIt, Owns, hypervisor_vfpga_close, TypeInv, FreshGuest
  <2>8. ASSUME NEW n \in Mdevs, NEW q \in Procs PROVE WaitsForIt(n, q)'
    BY <1>4
       DEF RegInv, WaitsForIt, Owns, hypervisor_vfpga_close, TypeInv, FpgaType,
           FreshGuest
  <2>9. ASSUME NEW n \in Mdevs, NEW c \in Cpids PROVE FaultsFindIt(n, c)'
    BY <1>4 DEF RegInv, FaultsFindIt, hypervisor_vfpga_close, FreshGuest
  <2>10. QED
    BY <2>7, <2>8, <2>9 DEF RegInv
<1>5. ASSUME NEW m \in Mdevs, guest_probe(m) PROVE RegInv'
  <2>7. ASSUME NEW n \in Mdevs, NEW q \in Procs PROVE HoldsIt(n, q)'
    BY <1>5 DEF RegInv, HoldsIt, Owns, guest_probe, fpga, TypeInv, FreshGuest
  <2>8. ASSUME NEW n \in Mdevs, NEW q \in Procs PROVE WaitsForIt(n, q)'
    BY <1>5 DEF RegInv, WaitsForIt, Owns, guest_probe, fpga, TypeInv, FreshGuest
  <2>9. ASSUME NEW n \in Mdevs, NEW c \in Cpids PROVE FaultsFindIt(n, c)'
    BY <1>5 DEF RegInv, FaultsFindIt, guest_probe, fpga, FreshGuest
  <2>10. QED
    BY <2>7, <2>8, <2>9 DEF RegInv
<1>6. ASSUME NEW m \in Mdevs, guest_remove(m) PROVE RegInv'
  <2>7. ASSUME NEW n \in Mdevs, NEW q \in Procs PROVE HoldsIt(n, q)'
    <3>1. gst'[n] = IF n = m THEN FreshGuest ELSE gst[n]
      BY <1>6 DEF guest_remove, TypeInv
    <3>2. UNCHANGED <<free, epid, vdevs>>
      BY <1>6 DEF guest_remove, fpga
    <3>3. HoldsIt(n, q)
      BY DEF RegInv
    <3>4. CASE n = m
      BY <3>1, <3>4 DEF HoldsIt, FreshGuest
    <3>5. QED
      BY <3>1, <3>2, <3>3, <3>4 DEF HoldsIt, Owns
  <2>8. ASSUME NEW n \in Mdevs, NEW q \in Procs PROVE WaitsForIt(n, q)'
    <3>1. /\ gst'[n] = IF n = m THEN FreshGuest ELSE gst[n]
          /\ n # m => md'[n] = md[n]
      BY <1>6 DEF guest_remove, TypeInv
    <3>2. UNCHANGED <<free, epid, vdevs>>
      BY <1>6 DEF guest_remove, fpga
    <3>3. WaitsForIt(n, q)
      BY DEF RegInv
    <3>4. CASE n = m
      BY <3>1, <3>4 DEF WaitsForIt, FreshGuest
    <3>5. QED
      BY <3>1, <3>2, <3>3, <3>4 DEF WaitsForIt, Owns
  <2>9. ASSUME NEW n \in Mdevs, NEW c \in Cpids PROVE FaultsFindIt(n, c)'
    BY <1>6 DEF RegInv, FaultsFindIt, guest_remove, fpga, FreshGuest
  <2>10. QED
    BY <2>7, <2>8, <2>9 DEF RegInv
<1>7. ASSUME NEW m \in Mdevs, TestInterrupt(m) PROVE RegInv'
  <2>1. UNCHANGED <<md, free, vdevs, epid>>
    BY <1>7 DEF TestInterrupt, fpga
  <2>2. SameProcs
    BY <1>7, IrqKeeps DEF TestInterrupt
  <2>3. QED
    BY <2>1, <2>2, RegKept
<1>8. ASSUME NEW m \in Mdevs, NEW res, guest_fpga_tlb_miss_isr(m, res) PROVE RegInv'
  <2>1. UNCHANGED <<free, vdevs, epid>>
    BY <1>8 DEF guest_fpga_tlb_miss_isr
  <2>2. SameProcs /\ SameDevs(m)
    <3>1. CASE guest_get_user_pages(m, gst[m].pid_array[miss.cpid], miss.cpid, res, FALSE)
      BY ZenonT(60), <3>1, MapKeeps
    <3>2. CASE gst' = [gst EXCEPT ![m].irq = FALSE] /\ md' = md
      BY <3>2 DEF SameProcs, SameDevs
    <3>3. QED
      BY ZenonT(60), <1>8, <3>1, <3>2 DEF guest_fpga_tlb_miss_isr
  <2>3. QED
    BY <2>1, <2>2, RegKept DEF SameDevs
<1>9. ASSUME NEW m \in Mdevs, NEW p \in ProcsOf[m], guest_open(m, p) PROVE RegInv'
  <2>7. ASSUME NEW n \in Mdevs, NEW q \in Procs PROVE HoldsIt(n, q)'
    BY <1>9 DEF RegInv, HoldsIt, Owns, guest_open, fpga, TypeInv, FpgaType
  <2>8. ASSUME NEW n \in Mdevs, NEW q \in Procs PROVE WaitsForIt(n, q)'
    BY <1>9, HypervisorAssumption DEF RegInv, WaitsForIt, Owns, guest_open, fpga
  <2>9. ASSUME NEW n \in Mdevs, NEW c \in Cpids PROVE FaultsFindIt(n, c)'
    BY <1>9 DEF RegInv, FaultsFindIt, guest_open, fpga
  <2>10. QED
    BY <2>7, <2>8, <2>9 DEF RegInv
<1>10. ASSUME NEW m \in Mdevs, NEW p \in ProcsOf[m], guest_release(m, p) PROVE RegInv'
  <2>1. p \in Procs /\ gst \in [Mdevs -> GuestType]
    BY HypervisorAssumption DEF TypeInv, FpgaType
  <2>2. \A n \in Mdevs, q \in Procs :
          /\ gst'[n].st[q] = IF n = m /\ q = p THEN "out" ELSE gst[n].st[q]
          /\ gst'[n].cpid[q] = IF n = m /\ q = p THEN INVALID_CPID ELSE gst[n].cpid[q]
    BY <1>10, <2>1 DEF guest_release, GuestType
  <2>3. \A n \in Mdevs : gst'[n].lock = gst[n].lock
    BY <1>10, <2>1 DEF guest_release, GuestType
  <2>4. \A n \in Mdevs : gst'[n].pid_array = gst[n].pid_array
    BY <1>10, <2>1 DEF guest_release, GuestType
  <2>5. /\ UNCHANGED <<free, vdevs, epid>>
        /\ \A n \in Mdevs : md'[n].held = md[n].held /\ md'[n].cur = md[n].cur
    BY <1>10 DEF guest_release, hypervisor_tlb_put_user_pages_all, unmap_entry
  <2>7. ASSUME NEW n \in Mdevs, NEW q \in Procs PROVE HoldsIt(n, q)'
    <3>1. HoldsIt(n, q)
      BY DEF RegInv
    <3>2. QED
      BY <2>2, <2>4, <2>5, <3>1 DEF HoldsIt, Owns
  <2>8. ASSUME NEW n \in Mdevs, NEW q \in Procs PROVE WaitsForIt(n, q)'
    <3>1. WaitsForIt(n, q)
      BY DEF RegInv
    <3>2. QED
      BY <2>2, <2>3, <2>5, <3>1 DEF WaitsForIt, Owns
  <2>9. ASSUME NEW n \in Mdevs, NEW e \in Cpids PROVE FaultsFindIt(n, e)'
    <3>1. FaultsFindIt(n, e)
      BY DEF RegInv
    <3>2. QED
      BY <2>4, <2>5, <3>1 DEF FaultsFindIt
  <2>10. QED
    BY <2>7, <2>8, <2>9 DEF RegInv
<1>11. ASSUME NEW m \in Mdevs, NEW p \in ProcsOf[m], register_pid_ask(m, p) PROVE RegInv'
  <2>1. p \in Procs /\ gst \in [Mdevs -> GuestType]
    BY HypervisorAssumption DEF TypeInv, FpgaType
  <2>2. \A n \in Mdevs, q \in Procs :
          /\ gst'[n].st[q] = IF n = m /\ q = p THEN "asking" ELSE gst[n].st[q]
          /\ gst'[n].cpid[q] = gst[n].cpid[q]
    BY <1>11, <2>1 DEF register_pid_ask, GuestType
  <2>3. \A n \in Mdevs : gst'[n].lock = IF n = m THEN p ELSE gst[n].lock
    BY <1>11, <2>1 DEF register_pid_ask, GuestType
  <2>4. \A n \in Mdevs : gst'[n].pid_array = gst[n].pid_array
    BY <1>11, <2>1 DEF register_pid_ask, GuestType
  <2>5. gst[m].lock = None /\ None \notin Procs
    BY <1>11, HypervisorAssumption DEF register_pid_ask, None
  <2>6. CASE free = {}
    <3>1. /\ UNCHANGED <<free, vdevs, epid>> /\ md'[m].held
          /\ \A n \in Mdevs \ {m} : md'[n].held = md[n].held /\ md'[n].cur = md[n].cur
      BY <1>11, <2>6 DEF register_pid_ask, REGISTER_PID_write, TypeInv, MdevType
    <3>7. ASSUME NEW n \in Mdevs, NEW q \in Procs PROVE HoldsIt(n, q)'
      <4>1. HoldsIt(n, q)
        BY DEF RegInv
      <4>2. QED
        BY <2>2, <2>4, <3>1, <4>1 DEF HoldsIt, Owns
    <3>8. ASSUME NEW n \in Mdevs, NEW q \in Procs PROVE WaitsForIt(n, q)'
      <4>1. WaitsForIt(n, q)
        BY DEF RegInv
      <4>2. QED
        BY <2>2, <2>3, <2>5, <3>1, <4>1 DEF WaitsForIt, Owns
    <3>9. ASSUME NEW n \in Mdevs, NEW e \in Cpids PROVE FaultsFindIt(n, e)'
      <4>1. FaultsFindIt(n, e)
        BY DEF RegInv
      <4>2. QED
        BY <2>4, <3>1, <4>1 DEF FaultsFindIt
    <3>10. QED
      BY <3>7, <3>8, <3>9 DEF RegInv
  <2>7. CASE free # {}
    <3>1. PICK c \in free :
            /\ free' = free \ {c} /\ epid' = [epid EXCEPT ![c] = <<m, p>>]
            /\ vdevs' = [vdevs EXCEPT ![c] = m] /\ md' = [md EXCEPT ![m].cur = c]
      BY <1>11, <2>7 DEF register_pid_ask, REGISTER_PID_write
    <3>2. /\ md'[m].cur = c /\ c \in Cpids
          /\ \A n \in Mdevs : md'[n].held = md[n].held /\ (n # m => md'[n].cur = md[n].cur)
      BY <3>1 DEF TypeInv, FpgaType, MdevType
    <3>3. \A n \in Mdevs, q \in Procs : \A d : Owns(n, q, d) => Owns(n, q, d)'
      BY <3>1 DEF Owns, TypeInv, FpgaType
    <3>4. Owns(m, p, c)'
      BY <3>1 DEF Owns, TypeInv, FpgaType
    <3>7. ASSUME NEW n \in Mdevs, NEW q \in Procs PROVE HoldsIt(n, q)'
      BY <2>2, <2>4, <3>3 DEF RegInv, HoldsIt
    <3>8. ASSUME NEW n \in Mdevs, NEW q \in Procs PROVE WaitsForIt(n, q)'
      BY <2>2, <2>3, <2>5, <3>2, <3>3, <3>4 DEF RegInv, WaitsForIt
    <3>9. ASSUME NEW n \in Mdevs, NEW e \in Cpids PROVE FaultsFindIt(n, e)'
      BY <2>4, <3>1 DEF RegInv, FaultsFindIt
    <3>10. QED
      BY <3>7, <3>8, <3>9 DEF RegInv
  <2>8. QED
    BY <2>6, <2>7
<1>12. ASSUME NEW m \in Mdevs, NEW p \in ProcsOf[m], register_pid_get(m, p) PROVE RegInv'
  <2> DEFINE c == md[m].cur
  <2>1. p \in Procs /\ gst \in [Mdevs -> GuestType]
    BY HypervisorAssumption DEF TypeInv, FpgaType
  <2>2. \A n \in Mdevs, q \in Procs :
          /\ gst'[n].st[q] = IF n = m /\ q = p THEN "in" ELSE gst[n].st[q]
          /\ gst'[n].cpid[q] = IF n = m /\ q = p THEN c ELSE gst[n].cpid[q]
    BY <1>12, <2>1 DEF register_pid_get, GuestType
  <2>3. \A n \in Mdevs : gst'[n].lock = IF n = m THEN None ELSE gst[n].lock
    BY <1>12, <2>1 DEF register_pid_get, GuestType
  <2>4. c \in Cpids /\ Owns(m, p, c) /\ gst[m].lock = p
    BY <1>12, <2>1 DEF register_pid_get, RegInv, WaitsForIt, Owns
  <2>5. \A n \in Mdevs, e \in Cpids :
          gst'[n].pid_array[e] = IF n = m /\ e = c THEN p ELSE gst[n].pid_array[e]
    BY <1>12, <2>1 DEF register_pid_get, GuestType
  <2>6. /\ UNCHANGED <<free, vdevs, epid>>
        /\ \A n \in Mdevs : md'[n].held = md[n].held /\ (n # m => md'[n].cur = md[n].cur)
    BY <1>12 DEF register_pid_get, fpga
  <2> HIDE DEF c
  <2>7. ASSUME NEW n \in Mdevs, NEW q \in Procs PROVE HoldsIt(n, q)'
    <3>1. HoldsIt(n, q)
      BY DEF RegInv
    <3>2. QED
      BY <2>2, <2>4, <2>5, <2>6, <3>1 DEF HoldsIt, Owns
  <2>8. ASSUME NEW n \in Mdevs, NEW q \in Procs PROVE WaitsForIt(n, q)'
    <3>1. WaitsForIt(n, q)
      BY DEF RegInv
    <3>2. QED
      BY <2>2, <2>3, <2>4, <2>6, <3>1 DEF WaitsForIt, Owns
  <2>9. ASSUME NEW n \in Mdevs, NEW e \in Cpids PROVE FaultsFindIt(n, e)'
    <3>1. FaultsFindIt(n, e)
      BY DEF RegInv
    <3>2. QED
      BY <2>4, <2>5, <2>6, <3>1 DEF FaultsFindIt, Owns
  <2>10. QED
    BY <2>7, <2>8, <2>9 DEF RegInv
<1>13. ASSUME NEW m \in Mdevs, NEW p \in ProcsOf[m], unregister_pid(m, p) PROVE RegInv'
  <2> DEFINE c == gst[m].cpid[p]
  <2>1. p \in Procs /\ gst \in [Mdevs -> GuestType]
    BY HypervisorAssumption DEF TypeInv, FpgaType
  <2>2. \A n \in Mdevs, q \in Procs :
          /\ gst'[n].st[q] = IF n = m /\ q = p THEN "open" ELSE gst[n].st[q]
          /\ gst'[n].cpid[q] = IF n = m /\ q = p THEN INVALID_CPID ELSE gst[n].cpid[q]
    BY <1>13, <2>1 DEF unregister_pid, GuestType
  <2>3. \A n \in Mdevs : gst'[n].lock = gst[n].lock
    BY <1>13, <2>1 DEF unregister_pid, GuestType
  <2>4. c \in Cpids /\ Owns(m, p, c)
    BY ZenonT(60), <1>13, <2>1 DEF unregister_pid, RegInv, HoldsIt, Owns
  <2>5. \A n \in Mdevs, e \in Cpids :
          gst'[n].pid_array[e] = IF n = m /\ e = c THEN None ELSE gst[n].pid_array[e]
    BY <1>13, <2>1 DEF unregister_pid, GuestType
  <2>6. /\ md' = md /\ free' = free \cup {c}
        /\ \A e \in Cpids \ {c} : epid'[e] = epid[e] /\ vdevs'[e] = vdevs[e]
    BY <1>13 DEF unregister_pid, TypeInv, FpgaType
  <2> HIDE DEF c
  <2>7. ASSUME NEW n \in Mdevs, NEW q \in Procs PROVE HoldsIt(n, q)'
    <3>1. HoldsIt(n, q)
      BY DEF RegInv
    <3>2. QED
      BY <2>2, <2>4, <2>5, <2>6, <3>1 DEF HoldsIt, Owns
  <2>8. ASSUME NEW n \in Mdevs, NEW q \in Procs PROVE WaitsForIt(n, q)'
    <3>1. WaitsForIt(n, q)
      BY DEF RegInv
    <3>2. QED
      BY <2>2, <2>3, <2>4, <2>6, <3>1 DEF WaitsForIt, Owns
  <2>9. ASSUME NEW n \in Mdevs, NEW e \in Cpids PROVE FaultsFindIt(n, e)'
    <3>1. FaultsFindIt(n, e)
      BY DEF RegInv
    <3>2. QED
      BY <2>4, <2>5, <2>6, <3>1 DEF FaultsFindIt, Owns
  <2>10. QED
    BY <2>7, <2>8, <2>9 DEF RegInv
<1>14. ASSUME NEW m \in Mdevs, NEW p \in ProcsOf[m], NEW res, guest_map(m, p, res) PROVE RegInv'
  <2>1. SameProcs /\ SameDevs(m)
    BY <1>14, MapKeeps DEF guest_map
  <2>2. UNCHANGED <<free, vdevs, epid>>
    BY <1>14 DEF guest_map
  <2>3. QED
    BY <2>1, <2>2, RegKept DEF SameDevs
<1>15. ASSUME NEW m \in Mdevs, NEW p \in ProcsOf[m], guest_put_user_pages(m, p) PROVE RegInv'
  <2>7. ASSUME NEW n \in Mdevs, NEW q \in Procs PROVE HoldsIt(n, q)'
    BY <1>15 DEF RegInv, HoldsIt, Owns, guest_put_user_pages, TypeInv, FpgaType
  <2>8. ASSUME NEW n \in Mdevs, NEW q \in Procs PROVE WaitsForIt(n, q)'
    BY <1>15
       DEF RegInv, WaitsForIt, Owns, guest_put_user_pages, UNMAP_USER_write,
           hypervisor_tlb_put_user_pages, unmap_entry, TypeInv, FpgaType
  <2>9. ASSUME NEW n \in Mdevs, NEW c \in Cpids PROVE FaultsFindIt(n, c)'
    BY <1>15 DEF RegInv, FaultsFindIt, guest_put_user_pages
  <2>10. QED
    BY <2>7, <2>8, <2>9 DEF RegInv
<1>16. ASSUME NEW m \in Mdevs, NEW p \in ProcsOf[m], Miss(m, p) PROVE RegInv'
  <2>1. UNCHANGED <<md, gst, free, epid, vdevs>>
    BY <1>16 DEF Miss, fpga
  <2>2. QED
    BY <2>1 DEF RegInv, HoldsIt, WaitsForIt, FaultsFindIt, Owns
<1>17. CASE hypervisor_tlb_miss_isr
  <2>1. UNCHANGED <<md, free, vdevs, epid>>
    BY <1>17 DEF hypervisor_tlb_miss_isr, fpga
  <2>2. SameProcs
    BY <1>17, IrqKeeps DEF hypervisor_tlb_miss_isr, SameProcs, TypeInv, FpgaType
  <2>3. QED
    BY <2>1, <2>2, RegKept
<1>18. QED
  BY <1>1, <1>2, <1>3, <1>4, <1>5, <1>6, <1>7, <1>8, <1>9, <1>10, <1>11, <1>12,
     <1>13, <1>14, <1>15, <1>16, <1>17
     DEF Next, Life, Calls, GuestIsr

-----------------------------------------------------------------------------
\* What has gone wrong is not forgotten.
LEMMA HazardsStay == ASSUME Next PROVE hz \subseteq hz'
<1>1. ASSUME NEW m \in Mdevs, Life(m) PROVE hz \subseteq hz'
  BY <1>1
     DEF Life, hypervisor_vfpga_create, hypervisor_vfpga_remove,
         hypervisor_vfpga_open, hypervisor_vfpga_close, guest_probe,
         guest_remove, TestInterrupt, fire_interrupt
<1>2. ASSUME NEW m \in Mdevs, GuestIsr(m) PROVE hz \subseteq hz'
  BY <1>2
     DEF GuestIsr, guest_fpga_tlb_miss_isr, guest_get_user_pages, MAP_USER_write
<1>3. ASSUME NEW m \in Mdevs, NEW p \in ProcsOf[m], Calls(m, p) PROVE hz \subseteq hz'
  <2>1. CASE guest_open(m, p) \/ register_pid_get(m, p) \/ Miss(m, p)
    BY <2>1 DEF guest_open, register_pid_get, Miss
  <2>2. CASE guest_release(m, p) \/ guest_put_user_pages(m, p)
    BY ZenonT(60), <2>2
       DEF guest_release, guest_put_user_pages,
           hypervisor_tlb_put_user_pages_all, UNMAP_USER_write,
           hypervisor_tlb_put_user_pages, unmap_entry
  <2>3. CASE register_pid_ask(m, p) \/ unregister_pid(m, p)
    BY ZenonT(60), <2>3 DEF register_pid_ask, REGISTER_PID_write, unregister_pid
  <2>4. CASE \E res \in Results : guest_map(m, p, res)
    BY <2>4 DEF guest_map, guest_get_user_pages, MAP_USER_write
  <2>5. QED
    BY <1>3, <2>1, <2>2, <2>3, <2>4 DEF Calls
<1>4. CASE hypervisor_tlb_miss_isr
  BY <1>4 DEF hypervisor_tlb_miss_isr, fire_interrupt
<1>5. QED
  BY <1>1, <1>2, <1>3, <1>4 DEF Next

\* One entry of the TLB is right.
EntryIsRight(c) == tlb[c] # NoPage => Pinned(tlb[c]) /\ vdevs[c] \in {tlb[c][1], Gone}

\* Steps that change no entry and forget no pin.
LEMMA TlbKept ==
  ASSUME TypeInv, Next, FreeInv, TlbIsRight, tlb' = tlb, vdevs' = vdevs, free' = free,
         leak \subseteq leak', \A n \in Mdevs : md[n].sbuff \subseteq md'[n].sbuff
  PROVE  FreeInv' /\ TlbIsRight'
<1>1. Clean' => Clean
  BY HazardsStay DEF Clean
<1>2. ASSUME Clean', NEW c \in Cpids PROVE EntryIsRight(c)'
  <2>1. EntryIsRight(c)
    BY <1>1, <1>2 DEF TlbIsRight, EntryIsRight, Clean
  <2>2. tlb[c] # NoPage => tlb[c][1] \in Mdevs
    BY DEF TypeInv, FpgaType, Pages
  <2>3. QED
    BY <2>1, <2>2 DEF EntryIsRight, Pinned
<1>3. QED
  BY <1>1, <1>2 DEF FreeInv, TlbIsRight, EntryIsRight, Clean

\* A mapping that is added for a thread number of the VM.
LEMMA MapIsRight ==
  ASSUME TypeInv, Next, FreeInv, TlbIsRight,
         NEW m \in Mdevs, NEW p \in Procs, NEW c \in Cpids \ free, vdevs[c] = m,
         NEW res, NEW b, guest_get_user_pages(m, p, c, res, b), UNCHANGED <<free, vdevs>>
  PROVE  FreeInv' /\ TlbIsRight'
<1>1. /\ leak \subseteq leak' /\ \A n \in Mdevs : md[n].sbuff \subseteq md'[n].sbuff
      /\ res = "ok" => md'[m].sbuff = md[m].sbuff \cup {p}
  <2>1. leak \subseteq leak'
    BY DEF guest_get_user_pages, MAP_USER_write, hypervisor_tlb_get_user_pages,
       Forgotten
  <2>2. /\ SameDevs(m) /\ md'[m].sbuff \in {md[m].sbuff, md[m].sbuff \cup {p}}
        /\ res = "ok" => md'[m].sbuff = md[m].sbuff \cup {p}
    BY MapKeeps
  <2>3. QED
    BY <2>1, <2>2 DEF SameDevs
<1>2. CASE tlb' = tlb
  BY <1>1, <1>2, TlbKept
<1>3. CASE res = "ok" /\ tlb' = [tlb EXCEPT ![c] = <<m, p>>]
  <2>6. Clean' => Clean
    BY HazardsStay DEF Clean
  <2>7. ASSUME Clean', NEW e \in free' PROVE tlb'[e] = NoPage
    BY <1>3, <2>6, <2>7 DEF FreeInv
  <2>8. ASSUME Clean', NEW e \in Cpids PROVE EntryIsRight(e)'
    <3>1. EntryIsRight(e)
      BY <2>6, <2>8 DEF TlbIsRight, EntryIsRight, Clean
    <3>2. tlb[e] \in Pages \cup {NoPage} /\ (tlb[e] \in Pages => tlb[e][1] \in Mdevs /\ tlb[e] = <<tlb[e][1], tlb[e][2]>>)
      BY DEF TypeInv, FpgaType, Pages
    <3>3. QED
      <4>1. CASE e = c
        BY <1>1, <1>3, <4>1 DEF EntryIsRight, Pinned, TypeInv, FpgaType
      <4>2. CASE e # c
        <5>1. tlb'[e] = tlb[e]
          BY <1>3, <4>2 DEF TypeInv, FpgaType
        <5>2. QED
          BY <1>1, <3>1, <3>2, <5>1 DEF EntryIsRight, Pinned
      <4>3. QED
        BY <4>1, <4>2
  <2>9. QED
    BY <2>7, <2>8 DEF FreeInv, TlbIsRight, EntryIsRight, Clean
<1>4. QED
  BY <1>2, <1>3
     DEF guest_get_user_pages, MAP_USER_write, hypervisor_tlb_get_user_pages,
         FireMapping

\* Every action keeps the TLB right.
LEMMA NextTlb ==
  ASSUME TypeInv, LifeInv, RegInv, FreeInv, TlbIsRight, Next
  PROVE  (FreeInv /\ TlbIsRight)'
<1>1. ASSUME NEW m \in Mdevs, hypervisor_vfpga_create(m) PROVE (FreeInv /\ TlbIsRight)'
  <2>1. /\ UNCHANGED <<tlb, vdevs, free, leak>>
        /\ \A n \in Mdevs : md[n].sbuff \subseteq md'[n].sbuff
    BY <1>1 DEF hypervisor_vfpga_create, fpga, LifeInv
  <2>2. QED
    BY <2>1, TlbKept
<1>2. ASSUME NEW m \in Mdevs, hypervisor_vfpga_remove(m) PROVE (FreeInv /\ TlbIsRight)'
  <2>1. /\ UNCHANGED <<tlb, free, leak>>
        /\ \A n \in Mdevs : md'[n].sbuff = md[n].sbuff
    BY ZenonT(60), <1>2
       DEF hypervisor_vfpga_remove, TypeInv, FpgaType, LifeInv, MdevType,
           FreshMdev
  <2>2. \A e \in Cpids : vdevs'[e] \in {vdevs[e], Gone}
    BY <1>2 DEF hypervisor_vfpga_remove
  <2>6. Clean' => Clean
    BY HazardsStay DEF Clean
  <2>7. ASSUME Clean', NEW e \in free' PROVE tlb'[e] = NoPage
    BY <2>1, <2>6, <2>7 DEF FreeInv
  <2>8. ASSUME Clean', NEW e \in Cpids PROVE EntryIsRight(e)'
    <3>1. EntryIsRight(e)
      BY <2>6, <2>8 DEF TlbIsRight, EntryIsRight, Clean
    <3>2. tlb[e] \in Pages \cup {NoPage} /\ (tlb[e] \in Pages => tlb[e][1] \in Mdevs /\ tlb[e] = <<tlb[e][1], tlb[e][2]>>)
      BY DEF TypeInv, FpgaType, Pages
    <3>3. QED
      BY <2>1, <2>2, <3>1, <3>2 DEF EntryIsRight, Pinned
  <2>9. QED
    BY <2>7, <2>8 DEF FreeInv, TlbIsRight, EntryIsRight, Clean
<1>3. ASSUME NEW m \in Mdevs, NEW ok \in BOOLEAN, hypervisor_vfpga_open(m, ok) PROVE (FreeInv /\ TlbIsRight)'
  <2>1. /\ UNCHANGED <<tlb, vdevs, free, leak>>
        /\ \A n \in Mdevs : md[n].sbuff \subseteq md'[n].sbuff
    BY <1>3 DEF hypervisor_vfpga_open, fpga, LifeInv
  <2>2. QED
    BY <2>1, TlbKept
<1>4. ASSUME NEW m \in Mdevs, hypervisor_vfpga_close(m) PROVE (FreeInv /\ TlbIsRight)'
  <2>1. /\ UNCHANGED <<tlb, free, vdevs>>
        /\ leak' = leak \cup Reached({<<m, q>> : q \in md[m].sbuff})
    BY <1>4 DEF hypervisor_vfpga_close
  <2>2. \A n \in Mdevs \ {m} : md'[n].sbuff = md[n].sbuff
    BY <1>4 DEF hypervisor_vfpga_close, TypeInv, FpgaType
  <2>6. Clean' => Clean
    BY HazardsStay DEF Clean
  <2>7. ASSUME Clean', NEW e \in free' PROVE tlb'[e] = NoPage
    BY <2>1, <2>6, <2>7 DEF FreeInv
  <2>8. ASSUME Clean', NEW e \in Cpids PROVE EntryIsRight(e)'
    <3>1. EntryIsRight(e)
      BY <2>6, <2>8 DEF TlbIsRight, EntryIsRight, Clean
    <3>2. tlb[e] \in Pages \cup {NoPage} /\ (tlb[e] \in Pages => tlb[e][1] \in Mdevs /\ tlb[e] = <<tlb[e][1], tlb[e][2]>>)
      BY DEF TypeInv, FpgaType, Pages
    <3>3. QED
      BY ZenonT(60), <2>1, <2>2, <3>1, <3>2 DEF EntryIsRight, Pinned, Reached
  <2>9. QED
    BY <2>7, <2>8 DEF FreeInv, TlbIsRight, EntryIsRight, Clean
<1>5. ASSUME NEW m \in Mdevs, guest_probe(m) PROVE (FreeInv /\ TlbIsRight)'
  <2>1. /\ UNCHANGED <<tlb, vdevs, free, leak>>
        /\ \A n \in Mdevs : md[n].sbuff \subseteq md'[n].sbuff
    BY <1>5 DEF guest_probe, handle_set_irq_msix, fpga
  <2>2. QED
    BY <2>1, TlbKept
<1>6. ASSUME NEW m \in Mdevs, guest_remove(m) PROVE (FreeInv /\ TlbIsRight)'
  <2>1. /\ UNCHANGED <<tlb, vdevs, free, leak>>
        /\ \A n \in Mdevs : md[n].sbuff \subseteq md'[n].sbuff
    BY <1>6 DEF guest_remove, handle_set_irq_msix, fpga
  <2>2. QED
    BY <2>1, TlbKept
<1>7. ASSUME NEW m \in Mdevs, TestInterrupt(m) PROVE (FreeInv /\ TlbIsRight)'
  <2>1. /\ UNCHANGED <<tlb, vdevs, free, leak>>
        /\ \A n \in Mdevs : md[n].sbuff \subseteq md'[n].sbuff
    BY <1>7 DEF TestInterrupt, fpga
  <2>2. QED
    BY <2>1, TlbKept
<1>8. ASSUME NEW m \in Mdevs, NEW res, guest_fpga_tlb_miss_isr(m, res) PROVE (FreeInv /\ TlbIsRight)'
  <2> DEFINE c == miss.cpid
             p == gst[m].pid_array[c]
  <2>1. UNCHANGED <<free, vdevs>> /\ c \in Cpids
    BY <1>8 DEF guest_fpga_tlb_miss_isr, TypeInv, FpgaType
  <2>2. CASE p # None /\ guest_get_user_pages(m, p, c, res, FALSE)
    <3>1. p \in Procs
      BY <2>1, <2>2 DEF TypeInv, GuestType
    <3>2. vdevs[c] = m /\ c \notin free
      BY <2>1, <2>2 DEF RegInv, FaultsFindIt
    <3> HIDE DEF c, p
    <3>3. QED
      BY ZenonT(60), <2>1, <2>2, <3>1, <3>2, MapIsRight
  <2>3. CASE UNCHANGED <<md, tlb, leak>>
    BY <2>1, <2>3, TlbKept
  <2>4. QED
    BY ZenonT(60), <1>8, <2>2, <2>3 DEF guest_fpga_tlb_miss_isr
<1>9. ASSUME NEW m \in Mdevs, NEW p \in ProcsOf[m], guest_open(m, p) PROVE (FreeInv /\ TlbIsRight)'
  <2>1. /\ UNCHANGED <<tlb, vdevs, free, leak>>
        /\ \A n \in Mdevs : md[n].sbuff \subseteq md'[n].sbuff
    BY <1>9 DEF guest_open, fpga, faults
  <2>2. QED
    BY <2>1, TlbKept
<1>10. ASSUME NEW m \in Mdevs, NEW p \in ProcsOf[m], guest_release(m, p) PROVE (FreeInv /\ TlbIsRight)'
  <2>1. PICK ps : unmap_entry(m, ps)
    BY <1>10 DEF guest_release, hypervisor_tlb_put_user_pages_all
  <2>2. UNCHANGED <<free, vdevs, leak>>
    BY <1>10 DEF guest_release
  <2>3. \A n \in Mdevs : md'[n].sbuff = IF n = m THEN md[n].sbuff \ ps ELSE md[n].sbuff
    BY ZenonT(60), <2>1 DEF unmap_entry, TypeInv, FpgaType, MdevType
  <2>4. \A e \in Cpids : tlb'[e] = IF e = 0 /\ ps # {} THEN NoPage ELSE tlb[e]
    BY <2>1 DEF unmap_entry, TypeInv, FpgaType
  <2>5. Clean' => \A e \in Cpids \ {0} : \A q \in ps : tlb[e] # <<m, q>>
    BY <2>1 DEF unmap_entry, Clean, Hazard
  <2>6. Clean' => Clean
    BY HazardsStay DEF Clean
  <2>7. ASSUME Clean', NEW e \in free' PROVE tlb'[e] = NoPage
    BY <2>2, <2>4, <2>6, <2>7 DEF FreeInv, TypeInv, FpgaType
  <2>8. ASSUME Clean', NEW e \in Cpids PROVE EntryIsRight(e)'
    <3>1. EntryIsRight(e)
      BY <2>6, <2>8 DEF TlbIsRight, EntryIsRight, Clean
    <3>2. tlb[e] \in Pages \cup {NoPage} /\ (tlb[e] \in Pages => tlb[e][1] \in Mdevs /\ tlb[e] = <<tlb[e][1], tlb[e][2]>>)
      BY DEF TypeInv, FpgaType, Pages
    <3>3. QED
      <4>1. CASE e = 0 /\ ps # {}
        BY <2>4, <4>1 DEF EntryIsRight
      <4>2. CASE ps = {}
        <5>1. tlb'[e] = tlb[e] /\ vdevs' = vdevs /\ leak' = leak
          BY <2>2, <2>4, <4>2
        <5>2. \A n \in Mdevs : md'[n].sbuff = md[n].sbuff
          BY <2>3, <4>2
        <5>3. QED
          BY <3>1, <3>2, <5>1, <5>2 DEF EntryIsRight, Pinned
      <4>3. CASE e # 0
        <5>1. tlb'[e] = tlb[e] /\ vdevs' = vdevs /\ leak' = leak
          BY <2>2, <2>4, <4>3
        <5>2. \A q \in ps : tlb[e] # <<m, q>>
          BY <2>5, <2>8, <4>3
        <5>3. QED
          BY ZenonT(60), <2>3, <3>1, <3>2, <5>1, <5>2 DEF EntryIsRight, Pinned
      <4>4. QED
        BY <4>1, <4>2, <4>3
  <2>9. QED
    BY <2>7, <2>8 DEF FreeInv, TlbIsRight, EntryIsRight, Clean
<1>11. ASSUME NEW m \in Mdevs, NEW p \in ProcsOf[m], register_pid_ask(m, p) PROVE (FreeInv /\ TlbIsRight)'
  <2>1. CASE free = {}
    <3>1. /\ UNCHANGED <<tlb, vdevs, free, leak>>
          /\ \A n \in Mdevs : md[n].sbuff \subseteq md'[n].sbuff
      BY <1>11, <2>1 DEF register_pid_ask, REGISTER_PID_write, TypeInv, MdevType
    <3>2. QED
      BY <3>1, TlbKept
  <2>2. CASE free # {}
    <3>1. PICK c \in free : /\ free' = free \ {c} /\ vdevs' = [vdevs EXCEPT ![c] = m]
                            /\ md' = [md EXCEPT ![m].cur = c]
      BY <1>11, <2>2 DEF register_pid_ask, REGISTER_PID_write
    <3>2. UNCHANGED <<tlb, leak>> /\ \A n \in Mdevs : md'[n].sbuff = md[n].sbuff
      BY <1>11, <3>1 DEF register_pid_ask
    <3>6. Clean' => Clean
      BY HazardsStay DEF Clean
    <3>7. ASSUME Clean', NEW e \in free' PROVE tlb'[e] = NoPage
      BY <3>1, <3>2, <3>6, <3>7 DEF FreeInv
    <3>8. ASSUME Clean', NEW e \in Cpids PROVE EntryIsRight(e)'
      <4>1. EntryIsRight(e)
        BY <3>6, <3>8 DEF TlbIsRight, EntryIsRight, Clean
      <4>2. tlb[e] \in Pages \cup {NoPage} /\ (tlb[e] \in Pages => tlb[e][1] \in Mdevs /\ tlb[e] = <<tlb[e][1], tlb[e][2]>>)
        BY DEF TypeInv, FpgaType, Pages
      <4>3. QED
        <5>1. e \in free => tlb[e] = NoPage
          BY <3>6, <3>8 DEF FreeInv
        <5>2. e # c => vdevs'[e] = vdevs[e]
          BY <3>1 DEF TypeInv, FpgaType
        <5>3. QED
          BY <3>2, <4>1, <4>2, <5>1, <5>2 DEF EntryIsRight, Pinned
    <3>9. QED
      BY <3>7, <3>8 DEF FreeInv, TlbIsRight, EntryIsRight, Clean
  <2>3. QED
    BY <2>1, <2>2
<1>12. ASSUME NEW m \in Mdevs, NEW p \in ProcsOf[m], register_pid_get(m, p) PROVE (FreeInv /\ TlbIsRight)'
  <2>1. /\ UNCHANGED <<tlb, vdevs, free, leak>>
        /\ \A n \in Mdevs : md[n].sbuff \subseteq md'[n].sbuff
    BY <1>12 DEF register_pid_get, fpga
  <2>2. QED
    BY <2>1, TlbKept
<1>13. ASSUME NEW m \in Mdevs, NEW p \in ProcsOf[m], unregister_pid(m, p) PROVE (FreeInv /\ TlbIsRight)'
  <2>1. UNCHANGED <<md, tlb, leak>> /\ p \in Procs
    BY <1>13, HypervisorAssumption DEF unregister_pid
  <2>2. /\ free' = free \cup {gst[m].cpid[p]}
        /\ \A e \in Cpids : e # gst[m].cpid[p] => vdevs'[e] = vdevs[e]
    BY <1>13 DEF unregister_pid, TypeInv, FpgaType
  <2>3. Clean' => tlb[gst[m].cpid[p]] = NoPage
    BY <1>13 DEF unregister_pid, Clean, Hazard
  <2>6. Clean' => Clean
    BY HazardsStay DEF Clean
  <2>7. ASSUME Clean', NEW e \in free' PROVE tlb'[e] = NoPage
    BY <2>1, <2>2, <2>3, <2>6, <2>7 DEF FreeInv
  <2>8. ASSUME Clean', NEW e \in Cpids PROVE EntryIsRight(e)'
    <3>1. EntryIsRight(e)
      BY <2>6, <2>8 DEF TlbIsRight, EntryIsRight, Clean
    <3>2. tlb[e] \in Pages \cup {NoPage} /\ (tlb[e] \in Pages => tlb[e][1] \in Mdevs /\ tlb[e] = <<tlb[e][1], tlb[e][2]>>)
      BY DEF TypeInv, FpgaType, Pages
    <3>3. QED
      BY <2>1, <2>2, <2>3, <2>8, <3>1 DEF EntryIsRight, Pinned
  <2>9. QED
    BY <2>7, <2>8 DEF FreeInv, TlbIsRight, EntryIsRight, Clean
<1>14. ASSUME NEW m \in Mdevs, NEW p \in ProcsOf[m], NEW res, guest_map(m, p, res) PROVE (FreeInv /\ TlbIsRight)'
  <2>1. p \in Procs /\ UNCHANGED <<free, vdevs>>
    BY <1>14, HypervisorAssumption DEF guest_map
  <2>2. gst[m].cpid[p] \in Cpids \ free /\ vdevs[gst[m].cpid[p]] = m
    BY <1>14, <2>1 DEF guest_map, RegInv, HoldsIt, Owns
  <2>3. QED
    BY <1>14, <2>1, <2>2, MapIsRight DEF guest_map
<1>15. ASSUME NEW m \in Mdevs, NEW p \in ProcsOf[m], guest_put_user_pages(m, p) PROVE (FreeInv /\ TlbIsRight)'
  <2>1. PICK ps : unmap_entry(m, ps)
    BY <1>15
       DEF guest_put_user_pages, UNMAP_USER_write, hypervisor_tlb_put_user_pages
  <2>2. UNCHANGED <<free, vdevs, leak>>
    BY <1>15 DEF guest_put_user_pages
  <2>3. \A n \in Mdevs : md'[n].sbuff = IF n = m THEN md[n].sbuff \ ps ELSE md[n].sbuff
    BY ZenonT(60), <2>1 DEF unmap_entry, TypeInv, FpgaType, MdevType
  <2>4. \A e \in Cpids : tlb'[e] = IF e = 0 /\ ps # {} THEN NoPage ELSE tlb[e]
    BY <2>1 DEF unmap_entry, TypeInv, FpgaType
  <2>5. Clean' => \A e \in Cpids \ {0} : \A q \in ps : tlb[e] # <<m, q>>
    BY <2>1 DEF unmap_entry, Clean, Hazard
  <2>6. Clean' => Clean
    BY HazardsStay DEF Clean
  <2>7. ASSUME Clean', NEW e \in free' PROVE tlb'[e] = NoPage
    BY <2>2, <2>4, <2>6, <2>7 DEF FreeInv, TypeInv, FpgaType
  <2>8. ASSUME Clean', NEW e \in Cpids PROVE EntryIsRight(e)'
    <3>1. EntryIsRight(e)
      BY <2>6, <2>8 DEF TlbIsRight, EntryIsRight, Clean
    <3>2. tlb[e] \in Pages \cup {NoPage} /\ (tlb[e] \in Pages => tlb[e][1] \in Mdevs /\ tlb[e] = <<tlb[e][1], tlb[e][2]>>)
      BY DEF TypeInv, FpgaType, Pages
    <3>3. QED
      <4>1. CASE e = 0 /\ ps # {}
        BY <2>4, <4>1 DEF EntryIsRight
      <4>2. CASE ps = {}
        <5>1. tlb'[e] = tlb[e] /\ vdevs' = vdevs /\ leak' = leak
          BY <2>2, <2>4, <4>2
        <5>2. \A n \in Mdevs : md'[n].sbuff = md[n].sbuff
          BY <2>3, <4>2
        <5>3. QED
          BY <3>1, <3>2, <5>1, <5>2 DEF EntryIsRight, Pinned
      <4>3. CASE e # 0
        <5>1. tlb'[e] = tlb[e] /\ vdevs' = vdevs /\ leak' = leak
          BY <2>2, <2>4, <4>3
        <5>2. \A q \in ps : tlb[e] # <<m, q>>
          BY <2>5, <2>8, <4>3
        <5>3. QED
          BY ZenonT(60), <2>3, <3>1, <3>2, <5>1, <5>2 DEF EntryIsRight, Pinned
      <4>4. QED
        BY <4>1, <4>2, <4>3
  <2>9. QED
    BY <2>7, <2>8 DEF FreeInv, TlbIsRight, EntryIsRight, Clean
<1>16. ASSUME NEW m \in Mdevs, NEW p \in ProcsOf[m], Miss(m, p) PROVE (FreeInv /\ TlbIsRight)'
  <2>1. /\ UNCHANGED <<tlb, vdevs, free, leak>>
        /\ \A n \in Mdevs : md[n].sbuff \subseteq md'[n].sbuff
    BY <1>16 DEF Miss, fpga, faults
  <2>2. QED
    BY <2>1, TlbKept
<1>17. CASE hypervisor_tlb_miss_isr
  <2>1. /\ UNCHANGED <<tlb, vdevs, free, leak>>
        /\ \A n \in Mdevs : md[n].sbuff \subseteq md'[n].sbuff
    BY <1>17 DEF hypervisor_tlb_miss_isr, fpga
  <2>2. QED
    BY <2>1, TlbKept
<1>18. QED
  BY ZenonT(60), <1>1, <1>2, <1>3, <1>4, <1>5, <1>6, <1>7, <1>8, <1>9, <1>10,
     <1>11, <1>12, <1>13, <1>14, <1>15, <1>16, <1>17
     DEF Next, Life, Calls, GuestIsr

-----------------------------------------------------------------------------
\* The initial states.
LEMMA InitIInv == ASSUME Init PROVE IInv
<1>1. TypeInv
  BY FreshType, HypervisorAssumption DEF Init, TypeInv, FpgaType
<1>2. LifeInv
  BY DEF Init, LifeInv, FreshGuest, FreshMdev
<1>3. RegInv
  BY DEF Init, RegInv, HoldsIt, WaitsForIt, FaultsFindIt, FreshGuest
<1>4. FreeInv /\ TlbIsRight
  BY DEF Init, FreeInv, TlbIsRight
<1>5. QED
  BY <1>1, <1>2, <1>3, <1>4 DEF IInv

\* The inductive invariant holds in every reachable state.
THEOREM HypervisorInvariant == Spec => []IInv
<1>1. ASSUME IInv, [Next]_vars PROVE IInv'
  <2>1. CASE Next
    BY <2>1, <1>1, NextTypeInv, NextLifeInv, NextRegInv, NextTlb DEF IInv
  <2>2. CASE UNCHANGED vars
    <3>1. TypeInv' /\ LifeInv'
      BY <2>2, <1>1 DEF vars, IInv, TypeInv, FpgaType, LifeInv
    <3>2. RegInv'
      BY <2>2, <1>1
         DEF vars, IInv, RegInv, HoldsIt, WaitsForIt, FaultsFindIt, Owns
    <3>3. FreeInv' /\ TlbIsRight'
      BY <2>2, <1>1 DEF vars, IInv, FreeInv, Clean, TlbIsRight, Pinned
    <3>4. QED
      BY <3>1, <3>2, <3>3 DEF IInv
  <2>3. QED
    BY <1>1, <2>1, <2>2
<1>2. QED
  BY <1>1, InitIInv, PTL DEF Spec

\* The answer to REGISTER_PID is the thread number that was allocated for the
\* process that asked, and nobody else has it (register_pid and the BAR2
\* handlers of the hypervisor).
THEOREM RegistrationsAreRight == Spec => []RegistrationIsRight
<1>1. ASSUME IInv PROVE RegistrationIsRight
  <2>1. \A m \in Mdevs, p \in Procs : HoldsIt(m, p)
    BY <1>1 DEF IInv, RegInv
  <2>2. QED
    BY <2>1 DEF RegistrationIsRight, In, HoldsIt, Owns
<1>2. QED
  BY <1>1, HypervisorInvariant, PTL

\* The TLB leads a thread number only to pinned pages of its own VM, until a
\* buffer is released under the wrong number or a number with a mapping left.
THEOREM TlbStaysRight == Spec => []TlbIsRight
<1>1. IInv => TlbIsRight
  BY DEF IInv
<1>2. QED
  BY <1>1, HypervisorInvariant, PTL
=============================================================================
