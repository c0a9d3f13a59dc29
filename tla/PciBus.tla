------------------------------- MODULE PciBus -------------------------------
(***************************************************************************)
(* How the net emodule finds its devices: net_init registers three buses   *)
(* and their drivers, uk_bus_lib_init initialises and then probes them     *)
(* (bus.c, platform_bus.c, pci_bus.c, virtio_bus.c), the scan of the PCI   *)
(* slots (pci_bus_riscv64.c, pci_ecam.c) hands virtio devices to           *)
(* virtio_pci.c and virtio_bus.c, and the virtio-net driver registers a    *)
(* network device (virtio_net.c, netdev.c).                                *)
(*                                                                         *)
(* Any allocation may fail.  A slot is (bus << 5 | dev); what is in it is  *)
(* abstracted to what the drivers tell apart by its identifiers.           *)
(***************************************************************************)
EXTENDS Integers, Sequences, FiniteSets, Functions

CONSTANTS
  Slot,       \* the slots scanned: 0 .. n
  Devices,    \* slots of bus 0 are those below Devices (PCI_MAX_DEVICES)
  Window,     \* slots that have room in the mapped I/O window
  Populated,  \* what may be in the slots: a set of functions of Slot
  Addresses,  \* the words of ipv4_addr
  PhaSet,     \* is the allocator that arch_pci_probe gets not NULL?
  NULL

PciAssumption ==
  /\ IsFiniteSet(Slot) /\ Slot # {} /\ Slot = 0 .. Cardinality(Slot) - 1
  /\ Devices \in Nat \ {0} /\ Window \in Nat
  /\ \A h \in Populated : h \in [Slot -> {"none", "other", "disk", "modern", "net"}]
  /\ PhaSet \in BOOLEAN /\ NULL \notin Nat

VARIABLES
  hw,       \* what is in the slots
  pc,       \* where net_init is
  buses,    \* uk_bus_list
  drivers,  \* bus to the drivers registered with it
  at,       \* the bus of the loops over uk_bus_list
  pcw,      \* are the configuration and the I/O window set up and mapped?
  pfoom,    \* history: pf_probe could not allocate its device
  slot,     \* the slot being scanned
  bar,      \* slot to the place of its registers in the I/O window
  mem,      \* allocated structures: pairs of a slot and a name
  status,   \* slot to the status register of the virtio device
  netdevs,  \* uk_netdev_list
  word,     \* ip_addr in _parse_ipv4_addr: the next word of ipv4_addr
  einfo,    \* slot to the address of its _einfo
  panicked  \* an ASSERT failed

busVars == <<hw, pc, buses, drivers, at, pcw, pfoom, slot, bar, mem, status, netdevs, word,
             einfo, panicked>>

-----------------------------------------------------------------------------
Init ==
  /\ hw \in Populated
  /\ pc = "net_init" /\ buses = <<>> /\ drivers = [b \in {"pf", "pci", "virtio"} |-> {}]
  /\ at = 1 /\ pcw = FALSE /\ pfoom = FALSE /\ slot = 0
  /\ bar = [s \in Slot |-> NULL] /\ mem = {}
  /\ status = [s \in Slot |-> {"unknown"}]
  /\ netdevs = <<>> /\ word = NULL /\ einfo = [s \in Slot |-> NULL] /\ panicked = FALSE

_uk_bus_register(list, b) == Append(list, b)

BusOrder ==
  _uk_bus_register(_uk_bus_register(_uk_bus_register(<<>>, "pf"), "pci"), "virtio")

\* The calls of net_init before uk_bus_lib_init.
net_init ==
  /\ pc = "net_init"
  /\ buses' = BusOrder
  /\ drivers' = [drivers EXCEPT !["pf"] = {"gen_pci"}, !["pci"] = {"virtio_pci"},
                                !["virtio"] = {"virtio_net"}]
  /\ pc' = "init"
  /\ UNCHANGED <<hw, at, pcw, pfoom, slot, bar, mem, status, netdevs, word, einfo, panicked>>

\* One bus: no init of a driver fails, so none is taken off its list and no
\* bus is unregistered.
uk_bus_init_all ==
  /\ pc = "init"
  /\ IF at < Len(buses) THEN at' = at + 1 /\ UNCHANGED pc ELSE at' = 1 /\ pc' = "probe"
  /\ UNCHANGED <<hw, buses, drivers, pcw, pfoom, slot, bar, mem, status, netdevs, word, einfo,
                 panicked>>

\* The next bus, or the end of uk_bus_lib_init.
NextBus == IF at < Len(buses) THEN at' = at + 1 /\ pc' = "probe"
                              ELSE at' = at /\ pc' = "lwip"

\* Sets up pcw and maps the two windows.
gen_pci_probe == pcw' = TRUE

\* The device of the bridge, unless there is no memory for it.
pf_probe ==
  /\ pc = "probe" /\ buses[at] = "pf"
  /\ IF "gen_pci" \notin drivers["pf"] THEN UNCHANGED <<pcw, pfoom>>
     ELSE \/ pfoom' = TRUE /\ UNCHANGED pcw
          \/ gen_pci_probe /\ UNCHANGED pfoom
  /\ NextBus
  /\ UNCHANGED <<hw, buses, drivers, slot, bar, mem, status, netdevs, word, einfo, panicked>>

pci_probe ==
  /\ pc = "probe" /\ buses[at] = "pci"
  /\ slot' = 0 /\ pc' = "scan"
  /\ UNCHANGED <<hw, buses, drivers, at, pcw, pfoom, bar, mem, status, netdevs, word, einfo,
                 panicked>>

virtio_bus_probe ==
  /\ pc = "probe" /\ buses[at] = "virtio" /\ NextBus
  /\ UNCHANGED <<hw, buses, drivers, pcw, pfoom, slot, bar, mem, status, netdevs, word, einfo,
                 panicked>>

NextSlot == IF slot + 1 \in Slot THEN slot' = slot + 1 /\ pc' = "scan" /\ UNCHANGED at
                                 ELSE UNCHANGED slot /\ NextBus

-----------------------------------------------------------------------------
(* The scan.                                                               *)

\* pci_ecam_map_bus without a window: base and buses are 0, so the first slot
\* gives NULL, the rest of bus 0 an address near it, and other buses NULL.
ReadsWild == ~pcw /\ slot \in 1 .. Devices - 1

\* What pci_generic_config_read finds.
Kind == IF pcw THEN hw[slot] ELSE "none"

pci_find_driver(k) == k \in {"net", "disk", "modern"} /\ "virtio_pci" \in drivers["pci"]

device_base(s) == s

\* One slot of arch_pci_probe up to arch_pci_driver_add_device.  The host
\* bridge only has its command register written.
arch_pci_probe ==
  /\ pc = "scan"
  /\ IF ReadsWild THEN pc' = "fault" /\ UNCHANGED <<slot, at, bar>>
     ELSE IF Kind = "none" \/ slot = 0 THEN NextSlot /\ UNCHANGED bar
     ELSE /\ bar' = [bar EXCEPT ![slot] = device_base(slot)]
          /\ IF pci_find_driver(Kind) THEN pc' = "add" /\ UNCHANGED <<slot, at>> ELSE NextSlot
  /\ UNCHANGED <<hw, buses, drivers, pcw, pfoom, mem, status, netdevs, word, einfo, panicked>>

virtio_pci_legacy_add_dev(k) == k # "modern"
find_match_drv(k) == k = "net" /\ "virtio_net" \in drivers["virtio"]

vpci_legacy_pci_dev_reset == status' = [status EXCEPT ![slot] = @ \cup {"reset asked"}]

\* Up to the reset of the device in virtio_bus_register_device: out of memory,
\* refused, or on.
virtio_pci_add_dev ==
  \/ NextSlot /\ UNCHANGED <<mem, status>>
  \/ /\ virtio_pci_legacy_add_dev(Kind) /\ find_match_drv(Kind)
     /\ mem' = mem \cup {<<slot, "pdev">>, <<slot, "vpci">>}
     /\ vpci_legacy_pci_dev_reset
     /\ pc' = "reset" /\ UNCHANGED <<slot, at>>

arch_pci_driver_add_device ==
  /\ pc = "add"
  /\ IF PhaSet THEN virtio_pci_add_dev /\ UNCHANGED panicked
     ELSE panicked' = TRUE /\ pc' = "panic" /\ UNCHANGED <<mem, slot, at, status>>
  /\ UNCHANGED <<hw, buses, drivers, pcw, pfoom, bar, netdevs, word, einfo>>

\* The device resets in its own time; vpci_legacy_pci_dev_reset waits for it.
DeviceReset ==
  /\ "reset asked" \in status[slot]
  /\ status' = [status EXCEPT ![slot] = {}]
  /\ UNCHANGED <<hw, pc, buses, drivers, at, pcw, pfoom, slot, bar, mem, netdevs, word, einfo,
                 panicked>>

vpci_legacy_pci_status_set(s, bit) == status' = [status EXCEPT ![s] = @ \cup bit]

\* The rest of virtio_device_reinit.
virtio_device_reinit ==
  /\ pc = "reset" /\ status[slot] = {}
  /\ vpci_legacy_pci_status_set(slot, {"ACK", "DRIVER"})
  /\ pc' = "add_dev"
  /\ UNCHANGED <<hw, buses, drivers, at, pcw, pfoom, slot, bar, mem, netdevs, word, einfo,
                 panicked>>

\* _parse_ipv4_addr: strtok_r gives the word after the last one, and sets
\* ip_addr to NULL behind the last word.  Then the next call starts again, on a
\* string that ends behind its first word since strtok_r has cut it there.
_parse_ipv4_addr == IF Addresses = <<>> THEN NULL
                    ELSE IF word = NULL THEN Addresses[1] ELSE Addresses[word]
strtok_r == LET next == IF word # NULL THEN word + 1
                        ELSE IF netdevs = <<>> THEN 2 ELSE Len(Addresses) + 1
            IN word' = IF next > Len(Addresses) THEN NULL ELSE next

\* Faulty variant: the structures of the bus stay.
AddFailed_kept(leaked) ==
  /\ mem' = mem \cup leaked
  /\ vpci_legacy_pci_status_set(slot, {"FAIL"})
  /\ NextSlot
  /\ UNCHANGED <<netdevs, word, einfo>>

\* virtio_net_add_dev fails: virtio_bus_register_device sets FAIL, and
\* virtio_pci_add_dev and arch_pci_driver_add_device free their structures.
AddFailed(leaked) ==
  /\ mem' = {m \in mem : m[1] # slot} \cup leaked
  /\ vpci_legacy_pci_status_set(slot, {"FAIL"})
  /\ NextSlot
  /\ UNCHANGED <<netdevs, word, einfo>>

_alloc_einfo == einfo' = [einfo EXCEPT ![slot] = _parse_ipv4_addr] /\ strtok_r

uk_netdev_drv_register ==
  /\ mem' = mem \cup {<<slot, n>> : n \in {"vndev", "data", "einfo"}}
  /\ _alloc_einfo
  /\ netdevs' = Append(netdevs, slot)

\* No memory for the device or its data, none for its configuration (the data
\* are then lost), or done.
virtio_net_add_dev ==
  /\ pc = "add_dev"
  /\ \/ AddFailed({})
     \/ AddFailed({<<slot, "data">>})
     \/ uk_netdev_drv_register /\ NextSlot /\ UNCHANGED status
  /\ UNCHANGED <<hw, buses, drivers, pcw, pfoom, bar, panicked>>

BusHart ==
  net_init \/ uk_bus_init_all \/ pf_probe \/ pci_probe \/ virtio_bus_probe \/ arch_pci_probe
    \/ arch_pci_driver_add_device \/ virtio_device_reinit \/ virtio_net_add_dev

BusNext == BusHart \/ DeviceReset

-----------------------------------------------------------------------------
\* Type invariant of the buses.
BusTypeOK ==
  /\ slot \in Slot /\ at \in 1 .. 3
  /\ bar \in [Slot -> Slot \cup {NULL}]
  /\ mem \subseteq Slot \X {"pdev", "vpci", "vndev", "data", "einfo", "nf", "rxqs", "txqs"}
  /\ Range(netdevs) \subseteq Slot
  /\ panicked \in BOOLEAN

\* Whatever allocation fails, a device that could not be added keeps nothing
\* (but the data that uk_netdev_drv_register forgets), and one in the list
\* has all of its structures and is the only one with its id.
NothingLost ==
  \A s \in Slot :
    IF s \in Range(netdevs)
    THEN /\ {<<s, n>> : n \in {"pdev", "vpci", "vndev", "data", "einfo"}} \subseteq mem
         /\ Cardinality({k \in DOMAIN netdevs : netdevs[k] = s}) = 1
    ELSE \/ s = slot /\ pc \in {"reset", "add_dev"}
         \/ {m \in mem : m[1] = s} \subseteq {<<s, "data">>}

\* Two devices never answer at the same place of the I/O window.
RegistersApart ==
  \A s, t \in Slot : bar[s] # NULL /\ bar[s] = bar[t] => s = t

\* The configuration space is read only after the platform bus has mapped it,
\* unless pf_probe ran out of memory: buses are probed in the order in which
\* net_init registers them.
WindowFirst == pc = "fault" => pfoom

\* A device is acknowledged only after it has finished its reset, and those
\* of the list have not failed: 'Acknowledge the virtio device' comes behind
\* 'Resetting the virtio device' (virtio_bus.c).
ResetFirst ==
  \A s \in Slot : "ACK" \in status[s] => status[s] \cap {"unknown", "reset asked"} = {}

\* What cannot be added is given back, devices answer at different places, the
\* configuration space is read when it is mapped, and a device is used after
\* its reset.
BusSound == NothingLost /\ RegistersApart /\ WindowFirst /\ ResetFirst

\* '// set io range' (pci_ecam.c:443): the window that gen_pci_probe maps has
\* the registers of every device of the buses it configures.
InWindow == \A s \in Slot : bar[s] # NULL => bar[s] < Window

\* 'ASSERT(pha != NULL)' (pci_bus_riscv64.c:74).
AssertPha == ~panicked
=============================================================================
