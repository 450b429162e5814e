----------------------------- MODULE DriverLife -----------------------------
(***************************************************************************)
(* What the driver acquires and gives back: pci_probe with its unwinding,  *)
(* pci_remove, and shell_pci_remove and shell_pci_init, which exchange the *)
(* shell under a driver that stays loaded (pci_xdma.c, coyote_setup.c).    *)
(*                                                                         *)
(* The driver works through a list of stages. Each acquires some resources *)
(* or fails; a failure continues at the label the code jumps to. Resources *)
(* are pairs of a name and the vFPGA or channel they belong to.            *)
(***************************************************************************)
EXTENDS Integers, Sequences, FiniteSets

CONSTANTS
  Shells,    \* what a shell bitstream provides: n_regions, n_chan, en_mem, en_wb
  NEngines,  \* XDMA engines of the static layer, per direction
  MaxFails   \* bound: steps that fail

ASSUME ShellsAssumption == \A k \in Shells : k.reg \in Nat

VARIABLES
  shell,     \* the shell that is on the FPGA
  bd,        \* bus_driver_data: the shell the driver knows, and regions_in_use
  bound,     \* the driver is bound to the card
  prog,      \* stages the driver still has to go through
  held,      \* resources the driver has not given back
  twice,     \* resources it gave back without having them
  hz,        \* what has happened that the properties make an exception for
  nfails

dvars == <<shell, bd, bound, prog, held, twice, hz, nfails>>

NoShell == [reg |-> 0, chan |-> 0, mem |-> FALSE, wb |-> FALSE]

DInit ==
  /\ shell \in Shells /\ bd = [known |-> NoShell, inuse |-> FALSE]
  /\ bound = FALSE /\ prog = <<>>
  /\ held = {} /\ twice = {} /\ hz = {} /\ nfails = 0

Regs(k) == 0 .. (k.reg - 1)
Of(name) == {<<name, 0>>}
Each(names, I) == names \X I

(* What a vFPGA device consists of, in the order of setup_vfpga_devices;   *)
(* only the writeback memory depends on the shell.                         *)
Levels == <<"ctid_chunks", "pid_array", "wqueue_pfault", "wqueue_notify", "wb_addr", "device", "cdev">>
LevelsFrom(n) == {Levels[j] : j \in n .. Len(Levels)}
Has(k, S) == IF k.wb THEN S ELSE {r \in S : r[1] # "wb_addr"}

(* What the set-up functions acquire, under the shell configuration k.     *)
pci_check_msix == Of("msix")
map_bars == Of("bars")
probe_for_engine(n) == Each({"engine"}, 0 .. (n - 1))
create_sysfs_entry == Of("kobj") \cup Of("group")
allocate_card_resources(k) == IF k.mem THEN Of("lchunks") \cup Of("schunks") ELSE {}
alloc_reconfig_device == Of("reconfig_region") \cup Of("reconfig_class") \cup Of("reconfig_dev")
setup_reconfig_device == Of("reconfig_device") \cup Of("reconfig_cdev")
alloc_vfpga_devices == Of("vfpga_region") \cup Of("vfpga_class") \cup Of("vfpga_dev")
setup_vfpga_devices(k) == Each({"tlb_map"}, Regs(k)) \cup Has(k, Each(LevelsFrom(1), Regs(k)))
irq_setup(k, rcnfg) == Each({"irq"}, Regs(k)) \cup IF rcnfg THEN Of("reconfig_irq") ELSE {}

(* What their counterparts give back. remove_engines skips engines it has  *)
(* not found.                                                              *)
unmap_bars == Of("bars")
remove_engines(k) == held \cap Each({"engine"}, 0 .. (k.chan - 1))
remove_sysfs_entry == Of("kobj") \cup Of("group")
free_card_resources(k) == IF k.mem THEN Of("lchunks") \cup Of("schunks") ELSE {}
free_reconfig_device == Of("reconfig_region") \cup Of("reconfig_class") \cup Of("reconfig_dev")
teardown_reconfig_device == Of("reconfig_device") \cup Of("reconfig_cdev")
free_vfpga_devices == Of("vfpga_region") \cup Of("vfpga_class") \cup Of("vfpga_dev")
teardown_vfpga_devices(k) == Has(k, Each(LevelsFrom(1), Regs(k)))
irq_teardown(k, rcnfg) == Each({"irq"}, Regs(k)) \cup IF rcnfg THEN Of("reconfig_irq") ELSE {}

(* What a stage acquires when it succeeds.                                 *)
Gets(s, k) ==
  CASE s = "enable"  -> Of("bd_data") \cup Of("enabled")
    [] s = "msix"    -> pci_check_msix
    [] s = "regions" -> Of("regions")
    [] s = "bars"    -> map_bars
    [] s = "mask"    -> {}
    [] s = "engines" -> probe_for_engine(NEngines)
    [] s = "map"     -> Of("cnfg_map")
    [] s = "config"  -> Of("tlb_meta")
    [] s = "sysfs"   -> create_sysfs_entry
    [] s = "card"    -> allocate_card_resources(k)
    [] s = "reconfig_alloc" -> alloc_reconfig_device
    [] s = "reconfig_setup" -> setup_reconfig_device
    [] s = "vfpga_alloc"    -> alloc_vfpga_devices
    [] s = "vfpga_setup"    -> setup_vfpga_devices(k)
    [] s = "irq"       -> irq_setup(k, TRUE)
    [] s = "irq_shell" -> irq_setup(k, FALSE)

(* What it may leave behind when it fails. setup_vfpga_devices fails for   *)
(* device i at some level and frees what is below that level; what the     *)
(* earlier devices have above it stays, as does the node of a device whose *)
(* cdev_add fails. probe_engines knows no channels yet, so remove_engines  *)
(* frees none.                                                             *)
SetupLeaves(k) ==
  {Each({"tlb_map"}, 0 .. i) \cup
     (IF Levels[n] = "cdev" THEN {<<"device", i>>}
      ELSE Has(k, Each(LevelsFrom(n + 1), 0 .. (i - 1)))) :
     i \in Regs(k), n \in {m \in 1 .. Len(Levels) :
                            Levels[m] # "device" /\ (Levels[m] = "wb_addr" => k.wb)}}

Leaves(s, k) ==
  CASE s = "vfpga_setup" -> SetupLeaves(k)
    [] s = "sysfs"   -> {{}, Of("kobj")}
    [] s = "enable"  -> {Of("bd_data")}
    [] s = "engines" -> {probe_for_engine(n) : n \in 0 .. (NEngines - 1)}
    [] s = "config"  -> {Of("tlb_meta")}
    [] OTHER -> {{}}

(* What an undo function gives back under the configuration the driver     *)
(* knows.                                                                  *)
Puts(u, k) ==
  CASE u = "irq_teardown"       -> irq_teardown(k, TRUE)
    [] u = "irq_teardown_shell" -> irq_teardown(k, FALSE)
    [] u = "teardown_vfpga"     -> teardown_vfpga_devices(k)
    [] u = "free_vfpga"         -> free_vfpga_devices
    [] u = "teardown_reconfig"  -> teardown_reconfig_device
    [] u = "free_reconfig"      -> free_reconfig_device
    [] u = "free_card"          -> free_card_resources(k)
    [] u = "remove_sysfs"       -> remove_sysfs_entry
    [] u = "remove_engines"     -> remove_engines(k)
    [] u = "unmap_bars"         -> unmap_bars
    [] u = "release_regions"    -> Of("regions")
    [] u = "disable_msix"       -> Of("msix")
    [] u = "disable_device"     -> IF bd.inuse THEN {} ELSE Of("enabled")
    [] u = "free_bd"            -> Of("bd_data")

ProbeStages == <<"enable", "msix", "regions", "bars", "mask", "engines", "map", "config", "sysfs",
                 "card", "reconfig_alloc", "reconfig_setup", "vfpga_alloc", "vfpga_setup", "irq">>
ShellStages == <<"config", "sysfs", "card", "vfpga_alloc", "vfpga_setup", "irq_shell">>

ProbeUndo == <<"teardown_vfpga", "free_vfpga", "teardown_reconfig", "free_reconfig", "free_card",
               "remove_sysfs", "remove_engines", "unmap_bars", "release_regions", "disable_msix",
               "disable_device", "free_bd">>
ShellUndo == <<"teardown_vfpga", "free_vfpga", "free_card", "remove_sysfs">>

(* Where a failing stage jumps to: the first undo function that is called. *)
ProbeLabel == [enable |-> "free_bd", msix |-> "disable_device", regions |-> "disable_msix",
               bars |-> "release_regions", mask |-> "unmap_bars", engines |-> "unmap_bars",
               config |-> "remove_engines", sysfs |-> "remove_engines", card |-> "remove_sysfs",
               reconfig_alloc |-> "free_card", reconfig_setup |-> "free_reconfig",
               vfpga_alloc |-> "teardown_reconfig", vfpga_setup |-> "free_vfpga",
               irq |-> "teardown_vfpga"]

ShellLabel == [config |-> "end", sysfs |-> "end", card |-> "remove_sysfs",
               vfpga_alloc |-> "free_card", vfpga_setup |-> "free_vfpga",
               irq_shell |-> "teardown_vfpga"]

From(seq, u) ==
  LET at == {j \in 1 .. Len(seq) : seq[j] = u}
  IN IF at = {} THEN <<>> ELSE SubSeq(seq, CHOOSE j \in at : TRUE, Len(seq))

(* Mutant: half-made vFPGA devices are torn down.                          *)
UnwindTooEarly(s) ==
  IF bound THEN From(ShellUndo, ShellLabel[s])
  ELSE From(ProbeUndo, IF s = "vfpga_setup" THEN "teardown_vfpga" ELSE ProbeLabel[s])

Unwind(s) == IF bound THEN From(ShellUndo, ShellLabel[s]) ELSE From(ProbeUndo, ProbeLabel[s])

RemoveSteps == <<"irq_teardown">> \o ProbeUndo
ShellRemove == <<"irq_teardown_shell">> \o ShellUndo

----------------------------------------------------------------------------
Acquires(s) == s \in {ProbeStages[j] : j \in 1 .. Len(ProbeStages)} \cup {"irq_shell"}

(* read_shell_config copies what the shell says into bus_driver_data.      *)
Knows(s) == IF s = "config" THEN shell ELSE bd.known

Acquire ==
  /\ prog # <<>> /\ Acquires(Head(prog))
  /\ LET s == Head(prog) IN
     /\ held' = held \cup Gets(s, bd.known)
     /\ bd' = [bd EXCEPT !.known = Knows(s)]
     /\ bound' = (bound \/ s = "irq")
  /\ prog' = Tail(prog)
  /\ UNCHANGED <<shell, twice, hz, nfails>>

(* ioremap is not checked. What a failure leaves behind is remembered.     *)
Fail ==
  /\ prog # <<>> /\ Acquires(Head(prog)) /\ Head(prog) # "map"
  /\ nfails < MaxFails
  /\ LET s == Head(prog) IN
     \E L \in Leaves(s, bd.known) :
       /\ held' = held \cup L
       /\ bd' = [known |-> Knows(s), inuse |-> (s = "regions")]
       /\ hz' = hz \cup (IF L \ (Of("bd_data") \cup Of("tlb_meta") \cup Each({"tlb_map"}, 0 .. 9)) # {}
                           THEN {"leak"} ELSE {})
                   \cup (IF s = "regions" THEN {"inuse"} ELSE {})
       /\ prog' = Unwind(s)
  /\ nfails' = nfails + 1
  /\ UNCHANGED <<shell, bound, twice>>

(* An undo function. With fewer channels than engines, some engines stay.  *)
Release ==
  /\ prog # <<>> /\ ~Acquires(Head(prog))
  /\ LET R == Puts(Head(prog), bd.known) IN
     /\ held' = held \ R
     /\ twice' = twice \cup (R \ held)
     /\ hz' = hz \cup (IF Head(prog) = "remove_engines" /\ <<"engine", bd.known.chan>> \in held
                         THEN {"leak"} ELSE {})
  /\ bound' = (bound /\ Head(prog) # "free_bd")
  /\ prog' = Tail(prog)
  /\ UNCHANGED <<shell, bd, nfails>>

(* The card is not bound again after a failure that left something behind. *)
pci_probe ==
  /\ ~bound /\ prog = <<>> /\ hz \cap {"leak", "inuse"} = {}
  /\ prog' = ProbeStages
  /\ bd' = [known |-> NoShell, inuse |-> FALSE]
  /\ UNCHANGED <<shell, bound, held, twice, hz, nfails>>

(* A shell that could not be initialised, or was removed for a bitstream   *)
(* that was then not found, is not there to be removed.                    *)
ShellGone == IF <<"vfpga_dev", 0>> \in held THEN {} ELSE {"shellgone"}

pci_remove ==
  /\ bound /\ prog = <<>>
  /\ prog' = RemoveSteps
  /\ hz' = hz \cup ShellGone
  /\ UNCHANGED <<shell, bd, bound, held, twice, nfails>>

Stage == Acquire \/ Fail \/ Release

----------------------------------------------------------------------------
(***************************************************************************)
(* The undo functions give back what is held, and nothing twice: neither   *)
(* the goto chains of pci_probe and shell_pci_init, at whatever step they  *)
(* start, nor pci_remove after any number of exchanged shells. Not         *)
(* promised when a shell is removed that is gone already: the driver keeps *)
(* no record of it.                                                        *)
(***************************************************************************)
NothingReleasedTwice == "shellgone" \notin hz => twice = {}

(* What is never given back: the register mappings and the TLB metadata.   *)
Permanent == {"cnfg_map", "tlb_meta", "tlb_map"}

(***************************************************************************)
(* A driver that is not bound holds nothing but the mappings that no code  *)
(* releases. The exceptions are failures inside setup_vfpga_devices (after *)
(* the first device), sysfs_create_group and probe_engines, and a shell    *)
(* with fewer channels than engines ("leak"), and a card whose regions are *)
(* taken, which stays enabled ("inuse").                                   *)
(***************************************************************************)
UnboundIsClean ==
  ~bound /\ prog = <<>> /\ hz \cap {"leak", "inuse", "shellgone"} = {} =>
    \A r \in held : r[1] \in Permanent

(* Set-up and tear-down match: nothing is released twice, nothing is left. *)
ReleasesMatch == NothingReleasedTwice /\ UnboundIsClean

=============================================================================
