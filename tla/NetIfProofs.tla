----------------------------- MODULE NetIfProofs ----------------------------
(***************************************************************************)
(* For any slots, devices, features and queue sizes, and whatever          *)
(* allocation fails: the bring-up of the buses is sound, and the stack     *)
(* gets exactly the devices that run.                                      *)
(*                                                                         *)
(* The scan goes through the slots in order, so that a slot is untouched   *)
(* until it is reached, being added while it is the current one, and       *)
(* either in the list or left alone afterwards.  liblwip_init goes through *)
(* the list in the same way.                                               *)
(***************************************************************************)
EXTENDS NetIf, FiniteSetTheorems, TLAPS

ScanPcs == {"net_init", "init", "probe", "scan", "add", "reset", "add_dev", "fault", "panic"}
WorkPcs == {"addif", "configure", "rxq", "txq", "start", "live", "started", "netif"}
IfPcs == WorkPcs \cup {"lwip", "main"}

Names == {"pdev", "vpci", "vndev", "data", "einfo", "nf", "rxqs", "txqs"}
Bits == {"unknown", "reset asked", "ACK", "DRIVER", "DRIVER_OK", "FAIL"}
Features == {"MAC", "STATUS", "GUEST_ANNOUNCE", "CSUM", "GUEST_CSUM"}

BusTypes ==
  /\ pc \in ScanPcs \cup IfPcs
  /\ at \in 1 .. 3 /\ pcw \in BOOLEAN /\ pfoom \in BOOLEAN /\ panicked \in BOOLEAN
  /\ drivers \in [{"pf", "pci", "virtio"} -> SUBSET {"gen_pci", "virtio_pci", "virtio_net"}]
  /\ slot \in Slot
  /\ bar \in [Slot -> Slot \cup {NULL}]
  /\ mem \subseteq Slot \X Names
  /\ status \in [Slot -> SUBSET Bits]
  /\ netdevs \in Seq(Slot)

IfTypes ==
  /\ state \in [Slot -> {"UNPROBED", "UNCONFIGURED", "CONFIGURED", "RUNNING"}]
  /\ features \in [Slot -> SUBSET Features]
  /\ queues \in [Slot -> SUBSET {"rx", "tx"}]
  /\ cookie \in [Slot -> Slot \cup {NULL}]
  /\ intr \subseteq Slot
  /\ netifs \in Seq(Slot)
  /\ devid \in Nat

-----------------------------------------------------------------------------
(* The scan.                                                               *)

\* Before the loop over the slots.
Before == pc \in {"net_init", "init"} \/ (pc = "probe" /\ at # 3)

Adding == pc \in {"reset", "add_dev"}

Listed(s) == \E j \in 1 .. Len(netdevs) : netdevs[j] = s

Untouched(s) ==
  /\ bar[s] = NULL /\ status[s] = {"unknown"}
  /\ \A n \in Names : <<s, n>> \notin mem
  /\ ~Listed(s)

Order ==
  /\ pc = "net_init" => at = 1
  /\ pc # "net_init" => /\ Len(buses) = 3
                        /\ buses[1] = "pf" /\ buses[2] = "pci" /\ buses[3] = "virtio"
                        /\ drivers["pf"] = {"gen_pci"}
  /\ pc \in {"scan", "add", "reset", "add_dev"} => at = 2
  /\ pc \in {"scan", "add", "reset", "add_dev"} \/ (pc = "probe" /\ at # 1) => pcw \/ pfoom
  /\ pc = "fault" => pfoom

Scan ==
  /\ Before => slot = 0 /\ \A s \in Slot : Untouched(s)
  /\ pc = "scan" => \A s \in Slot : s >= slot => Untouched(s)
  /\ pc \in {"add", "reset", "add_dev"} =>
       ~Listed(slot) /\ \A s \in Slot : s > slot => Untouched(s)
  /\ pc = "add" => status[slot] = {"unknown"} /\ \A n \in Names : <<slot, n>> \notin mem
  /\ Adding => \A n \in Names : <<slot, n>> \in mem <=> n \in {"pdev", "vpci"}
  /\ pc = "reset" => status[slot] \in {{"unknown", "reset asked"}, {}}
  /\ pc = "add_dev" => status[slot] = {"ACK", "DRIVER"}

Found ==
  /\ \A s \in Slot : bar[s] \in {NULL, s}
  /\ \A s \in Slot : "reset asked" \in status[s] => pc = "reset" /\ s = slot
  /\ \A s \in Slot : "ACK" \in status[s] => "unknown" \notin status[s]
  /\ \A s \in Slot : Listed(s) => /\ \A n \in {"pdev", "vpci", "vndev", "data", "einfo"} : <<s, n>> \in mem
                                  /\ {"ACK", "DRIVER"} \subseteq status[s]
  /\ \A s \in Slot : ~Listed(s) /\ ~(s = slot /\ Adding) =>
       \A n \in Names : <<s, n>> \in mem => n = "data"
  /\ \A j, k \in 1 .. Len(netdevs) : netdevs[j] = netdevs[k] => j = k

-----------------------------------------------------------------------------
(* The devices of the list.                                                *)

InStack(s) == \E j \in 1 .. Len(netifs) : netifs[j] = s

Todo(s) ==
  /\ state[s] = "UNPROBED" /\ queues[s] = {} /\ s \notin intr
  /\ "DRIVER_OK" \notin status[s] /\ <<s, "nf">> \notin mem /\ ~InStack(s)

Down(s) ==
  /\ state[s] # "RUNNING" /\ "DRIVER_OK" \notin status[s] /\ <<s, "nf">> \notin mem /\ ~InStack(s)

Up(s) ==
  /\ state[s] = "RUNNING" /\ "FAIL" \notin status[s] /\ Required \subseteq features[s]
  /\ queues[s] = {"rx", "tx"} /\ cookie[s] = s /\ <<s, "nf">> \in mem /\ InStack(s)

\* The device that is being brought up.
Now(s) ==
  /\ "FAIL" \notin status[s] /\ Required \subseteq features[s] /\ ~InStack(s)
  /\ pc \in {"started", "netif"} <=> "DRIVER_OK" \in status[s]
  /\ <<s, "nf">> \in mem <=> pc # "addif"
  /\ state[s] = (CASE pc \in {"addif", "configure"} -> "UNCONFIGURED"
                     [] pc = "netif" -> "RUNNING"
                     [] OTHER -> "CONFIGURED")
  /\ pc \in {"addif", "configure", "rxq"} => queues[s] = {}
  /\ pc = "txq" => queues[s] = {"rx"}
  /\ pc \in {"start", "live", "started", "netif"} => queues[s] = {"rx", "tx"}
  /\ pc \in {"txq", "start", "live", "started", "netif"} => cookie[s] = s
  /\ pc \in {"live", "started", "netif"} => s \notin intr

Work ==
  /\ devid \in 1 .. Len(netdevs) + 1
  /\ pc \in ScanPcs => devid = 1
  /\ pc \in WorkPcs => devid <= Len(netdevs) /\ Now(dev)
  /\ \A s \in Slot : ~Listed(s) => Todo(s)
  /\ \A j \in 1 .. Len(netdevs) : j > devid \/ (j = devid /\ pc \notin WorkPcs) =>
       Todo(netdevs[j]) /\ "FAIL" \notin status[netdevs[j]]
  /\ \A j \in 1 .. Len(netdevs) : j < devid => Up(netdevs[j]) \/ Down(netdevs[j])

Stack ==
  /\ \A j, k \in 1 .. Len(netifs) : netifs[j] = netifs[k] => j = k
  /\ \A j \in 1 .. Len(netifs) : Up(netifs[j])
  /\ default = IF netifs = <<>> THEN NULL ELSE netifs[1]

IInv == BusTypes /\ IfTypes /\ Order /\ Scan /\ Found /\ Work /\ Stack

-----------------------------------------------------------------------------
LEMMA SlotZero ==
  ASSUME PciAssumption
  PROVE  0 \in Slot /\ Slot \subseteq Nat /\ NULL \notin Slot
<1>1. Cardinality(Slot) \in Nat
  BY FS_CardinalityType DEF PciAssumption
<1> QED BY <1>1 DEF PciAssumption

LEMMA InitInv ==
  ASSUME PciAssumption, NetInit
  PROVE  IInv
<1> USE SlotZero DEF NetInit, Init
<1>1. BusTypes
  <2>1. /\ pc \in ScanPcs \cup IfPcs
        /\ drivers \in [{"pf", "pci", "virtio"} -> SUBSET {"gen_pci", "virtio_pci", "virtio_net"}]
        /\ at \in 1 .. 3
    BY DEF ScanPcs
  <2>2. pcw \in BOOLEAN /\ pfoom \in BOOLEAN /\ panicked \in BOOLEAN
    BY Zenon
  <2>3. /\ bar \in [Slot -> Slot \cup {NULL}]
        /\ mem \subseteq Slot \X Names
        /\ status \in [Slot -> SUBSET Bits]
    BY DEF Bits
  <2>4. netdevs \in Seq(Slot)
    OBVIOUS
  <2> QED BY <2>1, <2>2, <2>3, <2>4 DEF BusTypes
<1>2. IfTypes
  BY DEF IfTypes
<1>3. Order /\ Scan
  BY DEF Order, Scan, Untouched, Listed, Adding
<1>4. Found
  BY DEF Found, Listed, Adding
<1>5. Work
  BY DEF Work, Todo, Listed, InStack, WorkPcs
<1>6. Stack
  BY DEF Stack
<1> QED BY <1>1, <1>2, <1>3, <1>4, <1>5, <1>6 DEF IInv

-----------------------------------------------------------------------------
(* What is left of the invariant when a step touches one side only.        *)

\* A step of the scan that does not change the list.
LEMMA IfFrame ==
  ASSUME PciAssumption, IInv, UNCHANGED ifVars, netdevs' = netdevs,
         pc \in ScanPcs, pc' \in ScanPcs \cup {"lwip"},
         \A s \in Slot : "DRIVER_OK" \notin status[s] => "DRIVER_OK" \notin status'[s],
         \A s \in Slot : Listed(s) /\ "FAIL" \notin status[s] => "FAIL" \notin status'[s],
         \A s \in Slot : <<s, "nf">> \in mem' => <<s, "nf">> \in mem
  PROVE  IfTypes' /\ Work' /\ Stack'
<1> USE DEF IInv, ifVars
<1>1. devid = 1 /\ devid' = 1 /\ pc \notin WorkPcs /\ pc' \notin WorkPcs
  BY DEF Work, ScanPcs, WorkPcs
<1>2. \A s \in Slot : Todo(s)
  BY <1>1 DEF Work, Listed, BusTypes
<1>3. \A s \in Slot : Todo(s)'
  BY Zenon, <1>2 DEF Todo, InStack
<1>4. \A j \in 1 .. Len(netifs) : FALSE
  <2>1. \A j \in 1 .. Len(netifs) : netifs[j] \in Slot
    BY DEF IfTypes
  <2> QED BY Zenon, <1>2, <2>1 DEF Todo, InStack
<1>5. IfTypes'
  BY DEF IfTypes
<1>6. Stack'
  BY <1>4 DEF Stack
<1>7. Work'
  <2>1. \A j \in 1 .. Len(netdevs) : netdevs[j] \in Slot
    BY DEF BusTypes
  <2>2. \A j \in 1 .. Len(netdevs) : "FAIL" \notin status'[netdevs[j]]
    BY <1>1, <2>1 DEF Work, Listed
  <2> QED BY <1>1, <1>3, <2>1, <2>2 DEF Work, Listed
<1> QED BY <1>5, <1>6, <1>7

\* Nothing about s changes.
Same(s) ==
  /\ state'[s] = state[s] /\ features'[s] = features[s] /\ queues'[s] = queues[s]
  /\ cookie'[s] = cookie[s] /\ status'[s] = status[s]
  /\ s \in intr' <=> s \in intr
  /\ <<s, "nf">> \in mem' <=> <<s, "nf">> \in mem
  /\ InStack(s)' <=> InStack(s)

\* Only d is touched, and the scan's part of it stays.
ScanNames == {"pdev", "vpci", "vndev", "data", "einfo"}
ScanBits == {"unknown", "reset asked", "ACK", "DRIVER"}
Touches(d) ==
  /\ mem' \subseteq Slot \X Names
  /\ status' \in [Slot -> SUBSET Bits]
  /\ \A s \in Slot : s # d => Same(s)
  /\ \A s \in Slot, n \in Names : s # d \/ n \in ScanNames => (<<s, n>> \in mem' <=> <<s, n>> \in mem)
  /\ \A b \in ScanBits : b \in status'[d] <=> b \in status[d]

LEMMA SameKeeps ==
  ASSUME NEW s \in Slot, Same(s)
  PROVE  /\ Todo(s) => Todo(s)'
         /\ Up(s) => Up(s)'
         /\ Down(s) => Down(s)'
  BY DEF Same, Todo, Up, Down

\* A step behind the scan.
LEMMA BusFrame ==
  ASSUME IInv, UNCHANGED scanned, pc \in IfPcs, pc' \in IfPcs, panicked' = panicked,
         NEW d \in Slot, Listed(d), Touches(d)
  PROVE  BusTypes' /\ Order' /\ Scan' /\ Found'
<1> USE DEF IInv, scanned
<1>1. BusTypes'
  BY DEF BusTypes, Touches
<1>2. /\ pc \notin ScanPcs
      /\ pc' \notin ScanPcs
      /\ \A s \in Slot : Listed(s)' <=> Listed(s)
  BY DEF IfPcs, ScanPcs, WorkPcs, Listed
<1>3. Order'
  BY <1>2 DEF Order, ScanPcs
<1>4. Scan'
  BY Zenon, <1>2 DEF Scan, ScanPcs, Before, Adding
<1>5. Found'
  <2>1. ~Adding /\ ~Adding' /\ pc # "reset"
    BY <1>2 DEF ScanPcs, Adding
  <2>2. \A s \in Slot : \A b \in ScanBits : b \in status'[s] <=> b \in status[s]
    BY Zenon DEF Touches, Same
  <2>3. \A s \in Slot : /\ "reset asked" \notin status'[s]
                        /\ "ACK" \in status'[s] => "unknown" \notin status'[s]
    BY Zenon, <2>1, <2>2 DEF Found, ScanBits
  <2>4. \A s \in Slot : bar'[s] \in {NULL, s}
    BY Zenon DEF Found
  <2>5. ASSUME NEW s \in Slot, Listed(s)'
        PROVE  /\ \A n \in {"pdev", "vpci", "vndev", "data", "einfo"} : <<s, n>> \in mem'
               /\ {"ACK", "DRIVER"} \subseteq status'[s]
    <3>1. /\ \A n \in ScanNames : <<s, n>> \in mem
          /\ "ACK" \in status[s] /\ "DRIVER" \in status[s]
      BY Zenon, <1>2, <2>5 DEF Found, ScanNames
    <3> QED BY Zenon, <2>2, <3>1 DEF Touches, ScanNames, ScanBits, Names
  <2>6. ASSUME NEW s \in Slot, ~Listed(s)', NEW n \in Names, <<s, n>> \in mem'
        PROVE  n = "data"
    <3>1. ~Listed(s) /\ s # d
      BY <1>2, <2>6
    <3>2. <<s, n>> \in mem
      BY <2>6, <3>1 DEF Touches
    <3> QED BY Zenon, <2>1, <3>1, <3>2 DEF Found
  <2>7. \A j, k \in 1 .. Len(netdevs') : netdevs'[j] = netdevs'[k] => j = k
    BY Zenon DEF Found
  <2> QED BY Zenon, <2>1, <2>3, <2>4, <2>5, <2>6, <2>7 DEF Found
<1> QED BY <1>1, <1>3, <1>4, <1>5

\* The device stays the current one, or is done with.
LEMMA WorkStay ==
  ASSUME IInv, netdevs' = netdevs, pc \in WorkPcs \cup {"lwip"}, devid <= Len(netdevs),
         pc' \in WorkPcs, devid' = devid,
         NEW d \in Slot, d = netdevs[devid], Now(d)', \A s \in Slot : s # d => Same(s)
  PROVE  Work'
<1> USE DEF IInv
<1>1. \A j \in 1 .. Len(netdevs) : netdevs[j] \in Slot
  BY DEF BusTypes
<1>2. \A j \in 1 .. Len(netdevs) : j # devid => netdevs[j] # d
  <2>1. devid \in 1 .. Len(netdevs)
    BY DEF Work, BusTypes
  <2> QED BY Zenon, <2>1 DEF Found
<1>3. pc' \notin ScanPcs
  BY DEF ScanPcs, WorkPcs
<1>4. \A s \in Slot : ~Listed(s) => Todo(s)'
  <2>1. Listed(d)
    BY DEF Listed, Work, BusTypes
  <2> QED BY <2>1, SameKeeps DEF Work
<1>5. ASSUME NEW j \in 1 .. Len(netdevs), j > devid
      PROVE  Todo(netdevs[j])' /\ "FAIL" \notin status'[netdevs[j]]
  <2>1. PICK s \in Slot : s = netdevs[j]
    BY <1>1
  <2>2. s # d /\ Todo(s) /\ "FAIL" \notin status[s]
    BY <1>2, <1>5, <2>1 DEF Work
  <2>3. Todo(s)' /\ "FAIL" \notin status'[s]
    BY Zenon, <2>2, SameKeeps DEF Same
  <2> QED BY <2>1, <2>3
<1>6. ASSUME NEW j \in 1 .. Len(netdevs), j < devid
      PROVE  Up(netdevs[j])' \/ Down(netdevs[j])'
  BY <1>1, <1>2, <1>6, SameKeeps DEF Work
<1>7. devid \in 1 .. Len(netdevs) /\ Len(netdevs) \in Nat
  BY DEF Work, BusTypes
<1>8. Now(dev)'
  BY DEF dev
<1> QED BY <1>3, <1>4, <1>5, <1>6, <1>7, <1>8 DEF Work, Listed

LEMMA WorkNext ==
  ASSUME IInv, netdevs' = netdevs, pc \in WorkPcs \cup {"lwip"}, devid <= Len(netdevs),
         pc' = "lwip", devid' = devid + 1,
         NEW d \in Slot, d = netdevs[devid], Up(d)' \/ Down(d)',
         \A s \in Slot : s # d => Same(s)
  PROVE  Work'
<1> USE DEF IInv
<1>1. \A j \in 1 .. Len(netdevs) : netdevs[j] \in Slot
  BY DEF BusTypes
<1>2. \A j \in 1 .. Len(netdevs) : j # devid => netdevs[j] # d
  <2>1. devid \in 1 .. Len(netdevs)
    BY DEF Work, BusTypes
  <2> QED BY Zenon, <2>1 DEF Found
<1>3. pc' \notin ScanPcs /\ pc' \notin WorkPcs
  BY DEF ScanPcs, WorkPcs
<1>4. \A s \in Slot : ~Listed(s) => Todo(s)'
  <2>1. Listed(d)
    BY DEF Listed, Work, BusTypes
  <2> QED BY <2>1, SameKeeps DEF Work
<1>5. ASSUME NEW j \in 1 .. Len(netdevs), j > devid
      PROVE  Todo(netdevs[j])' /\ "FAIL" \notin status'[netdevs[j]]
  <2>1. PICK s \in Slot : s = netdevs[j]
    BY <1>1
  <2>2. s # d /\ Todo(s) /\ "FAIL" \notin status[s]
    BY <1>2, <1>5, <2>1 DEF Work
  <2>3. Todo(s)' /\ "FAIL" \notin status'[s]
    BY Zenon, <2>2, SameKeeps DEF Same
  <2> QED BY <2>1, <2>3
<1>6. ASSUME NEW j \in 1 .. Len(netdevs), j < devid
      PROVE  Up(netdevs[j])' \/ Down(netdevs[j])'
  BY <1>1, <1>2, <1>6, SameKeeps DEF Work
<1>7. devid \in 1 .. Len(netdevs) /\ Len(netdevs) \in Nat
  BY DEF Work, BusTypes
<1> QED BY <1>3, <1>4, <1>5, <1>6, <1>7 DEF Work, Listed

LEMMA StackFrame ==
  ASSUME IInv, netifs' = netifs, default' = default,
         NEW d \in Slot, ~InStack(d), \A s \in Slot : s # d => Same(s)
  PROVE  Stack'
<1> USE DEF IInv
<1>1. ASSUME NEW j \in 1 .. Len(netifs)
      PROVE  Up(netifs[j])'
  <2>1. PICK s \in Slot : s = netifs[j]
    BY DEF IfTypes
  <2>2. s # d /\ Up(s)
    BY <2>1 DEF InStack, Stack
  <2>3. Up(s)'
    BY <2>2, SameKeeps
  <2> QED BY <2>1, <2>3
<1> QED BY <1>1 DEF Stack

LEMMA Current ==
  ASSUME IInv, pc \in WorkPcs \cup {"lwip"}, devid <= Len(netdevs)
  PROVE  /\ dev \in Slot
         /\ Listed(dev)
         /\ ~InStack(dev)
         /\ {"ACK", "DRIVER"} \subseteq status[dev]
<1> USE DEF IInv
<1>1. devid \in 1 .. Len(netdevs)
  BY DEF Work, BusTypes
<1>2. dev \in Slot
  BY <1>1 DEF BusTypes, dev
<1>3. Listed(dev)
  BY <1>1 DEF Listed, dev
<1>4. ~InStack(dev)
  <2>1. CASE pc \in WorkPcs
    BY <2>1 DEF Work, Now
  <2>2. CASE pc \notin WorkPcs
    BY Zenon, <1>1, <2>2 DEF Work, Todo, dev
  <2> QED BY <2>1, <2>2
<1> QED BY Zenon, <1>2, <1>3, <1>4 DEF Found

LEMMA Stays ==
  ASSUME IInv, UNCHANGED <<scanned, panicked, netifs, default, devid>>,
         pc \in WorkPcs \cup {"lwip"}, devid <= Len(netdevs), pc' \in WorkPcs,
         IfTypes', NEW d \in Slot, d = netdevs[devid], Touches(d), Now(d)'
  PROVE  IInv'
<1>1. Listed(d) /\ ~InStack(d)
  BY Current DEF dev
<1>2. netdevs' = netdevs /\ \A s \in Slot : s # d => Same(s)
  BY DEF scanned, Touches
<1>3. BusTypes' /\ Order' /\ Scan' /\ Found'
  BY <1>1, BusFrame DEF IfPcs
<1>4. Work'
  BY <1>2, WorkStay
<1>5. Stack'
  BY <1>1, <1>2, StackFrame
<1> QED BY <1>3, <1>4, <1>5 DEF IInv

LEMMA Advances ==
  ASSUME IInv, UNCHANGED <<scanned, panicked, netifs, default>>, NextDevice,
         pc \in WorkPcs \cup {"lwip"}, devid <= Len(netdevs),
         IfTypes', NEW d \in Slot, d = netdevs[devid], Touches(d), Down(d)'
  PROVE  IInv'
<1>1. Listed(d) /\ ~InStack(d)
  BY Current DEF dev
<1>2. netdevs' = netdevs /\ \A s \in Slot : s # d => Same(s)
  BY DEF scanned, Touches
<1>3. BusTypes' /\ Order' /\ Scan' /\ Found'
  BY <1>1, BusFrame DEF IfPcs, NextDevice
<1>4. Work'
  BY <1>2, WorkNext DEF NextDevice
<1>5. Stack'
  BY <1>1, <1>2, StackFrame
<1> QED BY <1>3, <1>4, <1>5 DEF IInv

-----------------------------------------------------------------------------
(* One lemma per step of liblwip_init.                                     *)

LEMMA ProbeStep ==
  ASSUME IInv, liblwip_init
  PROVE  IInv'
<1> USE DEF IInv, liblwip_init, dev
<1>1. devid \in 1 .. Len(netdevs)
  BY DEF Work, BusTypes
<1>2. PICK d \in Slot : d = netdevs[devid]
  BY Current
<1>3. Todo(d) /\ "FAIL" \notin status[d]
  BY <1>1, <1>2 DEF Work, WorkPcs
<1>4. CASE /\ Required \subseteq offer[d]
           /\ features' = [features EXCEPT ![d] = drv_features(offer[d])]
           /\ state' = [state EXCEPT ![d] = "UNCONFIGURED"]
           /\ pc' = "addif" /\ UNCHANGED <<devid, status>>
  <2>1. drv_features(offer[d]) \in SUBSET Features /\ Required \subseteq drv_features(offer[d])
    BY DEF drv_features, Required, Features
  <2>2. IfTypes'
    BY <1>4, <2>1 DEF IfTypes
  <2>3. Touches(d)
    BY <1>4 DEF Touches, Same, BusTypes, IfTypes, InStack
  <2>4. Now(d)'
    BY <1>3, <1>4, <2>1 DEF Now, Todo, InStack, IfTypes
  <2> QED BY <1>1, <1>2, <1>4, <2>2, <2>3, <2>4, Stays DEF WorkPcs
<1>5. CASE /\ status' = [status EXCEPT ![d] = @ \cup {"FAIL"}]
           /\ NextDevice /\ UNCHANGED <<state, features>>
  <2>1. IfTypes'
    BY <1>5 DEF IfTypes, NextDevice
  <2>2. Touches(d)
    BY Zenon, <1>5 DEF Touches, Same, BusTypes, IfTypes, InStack, Bits, ScanBits
  <2>3. Down(d)'
    BY <1>3, <1>5 DEF Down, Todo, InStack, BusTypes
  <2> QED BY <1>1, <1>2, <1>5, <2>1, <2>2, <2>3, Advances
<1> QED BY <1>2, <1>4, <1>5 DEF uk_netdev_probe, probe_failed, vpci_legacy_pci_status_set

\* The device of a step behind the probe.
LEMMA Working ==
  ASSUME IInv, pc \in WorkPcs
  PROVE  \E d \in Slot : d = netdevs[devid] /\ Now(d) /\ devid <= Len(netdevs)
  BY Current DEF IInv, Work, dev

LEMMA AddifStep ==
  ASSUME IInv, uknetdev_addif
  PROVE  IInv'
<1> USE DEF IInv, uknetdev_addif, dev
<1>1. PICK d \in Slot : d = netdevs[devid] /\ Now(d) /\ devid <= Len(netdevs)
  BY Working DEF WorkPcs
<1>2. CASE NextDevice /\ UNCHANGED mem
  <2>1. IfTypes'
    BY <1>2 DEF IfTypes, NextDevice
  <2>2. Touches(d)
    BY <1>2 DEF Touches, Same, BusTypes, InStack
  <2>3. Down(d)'
    BY <1>1, <1>2 DEF Now, Down, InStack
  <2> QED BY <1>1, <1>2, <2>1, <2>2, <2>3, Advances DEF WorkPcs
<1>3. CASE mem' = mem \cup {<<d, "nf">>} /\ pc' = "configure" /\ UNCHANGED devid
  <2>1. IfTypes'
    BY <1>3 DEF IfTypes
  <2>2. Touches(d)
    BY <1>3 DEF Touches, Same, BusTypes, InStack, Names, ScanNames
  <2>3. Now(d)'
    BY <1>1, <1>3 DEF Now, InStack
  <2> QED BY <1>1, <1>3, <2>1, <2>2, <2>3, Stays DEF WorkPcs
<1> QED BY <1>1, <1>2, <1>3

\* uknetdev_init fails for d, which got some memory.
LEMMA FailsStep ==
  ASSUME IInv, pc \in WorkPcs, NEW d \in Slot, d = netdevs[devid], devid <= Len(netdevs),
         Now(d), pc \notin {"started", "netif"},
         NEW got \in SUBSET {<<d, "rxqs">>, <<d, "txqs">>}, InitFails(got),
         UNCHANGED <<scanned, panicked, status, state, features, netifs, default>>,
         IfTypes', \A s \in Slot : s # d => /\ queues'[s] = queues[s] /\ cookie'[s] = cookie[s]
                                            /\ s \in intr' <=> s \in intr
  PROVE  IInv'
<1> USE DEF IInv, InitFails, dev
<1>1. Touches(d)
  <2>1. mem' \subseteq Slot \X Names
    BY DEF BusTypes, Names
  <2>2. \A s \in Slot, n \in Names : s # d \/ n \in ScanNames => (<<s, n>> \in mem' <=> <<s, n>> \in mem)
    BY DEF Names, ScanNames
  <2> QED BY Zenon, <2>1, <2>2 DEF Touches, Same, BusTypes, InStack, Names
<1>2. Down(d)'
  <2>1. <<d, "nf">> \notin mem'
    OBVIOUS
  <2> QED BY <2>1 DEF Now, Down, InStack, WorkPcs
<1> QED BY Zenon, <1>1, <1>2, Advances

LEMMA ConfigureStep ==
  ASSUME IInv, uk_netdev_configure
  PROVE  IInv'
<1> USE DEF IInv, uk_netdev_configure, dev
<1>1. PICK d \in Slot : d = netdevs[devid] /\ Now(d) /\ devid <= Len(netdevs)
  BY Working DEF WorkPcs
<1>2. ASSUME NEW got \in SUBSET {<<d, "rxqs">>, <<d, "txqs">>}, InitFails(got), UNCHANGED state
      PROVE  IInv'
  <2>1. IfTypes'
    BY <1>2 DEF IfTypes, InitFails, NextDevice
  <2> QED BY <1>1, <1>2, <2>1, FailsStep DEF WorkPcs
<1>3. ASSUME NEW got \in SUBSET {<<d, "rxqs">>, <<d, "txqs">>}, mem' = mem \cup got,
             state' = [state EXCEPT ![d] = "CONFIGURED"], pc' = "rxq", UNCHANGED devid
      PROVE  IInv'
  <2>1. IfTypes'
    BY <1>3 DEF IfTypes
  <2>2. Touches(d)
    <3>1. mem' \subseteq Slot \X Names
      BY <1>3 DEF BusTypes, Names
    <3>2. \A s \in Slot, n \in Names : s # d \/ n \in ScanNames => (<<s, n>> \in mem' <=> <<s, n>> \in mem)
      BY <1>3 DEF Names, ScanNames
    <3> QED BY Zenon, <1>3, <3>1, <3>2 DEF Touches, Same, BusTypes, IfTypes, InStack, Names
  <2>3. Now(d)'
    BY <1>1, <1>3 DEF Now, InStack, IfTypes
  <2> QED BY <1>1, <1>3, <2>1, <2>2, <2>3, Stays DEF WorkPcs
<1> QED BY Zenon, <1>1, <1>2, <1>3

LEMMA RxqStep ==
  ASSUME IInv, uk_netdev_rxq_configure
  PROVE  IInv'
<1> USE DEF IInv, uk_netdev_rxq_configure, dev
<1>1. PICK d \in Slot : d = netdevs[devid] /\ Now(d) /\ devid <= Len(netdevs)
  BY Working DEF WorkPcs
<1>2. CASE InitFails({}) /\ UNCHANGED <<queues, intr>>
  <2>1. IfTypes'
    BY <1>1, <1>2 DEF IfTypes, InitFails, NextDevice
  <2>2. \A s \in Slot : s # d => /\ queues'[s] = queues[s] /\ cookie'[s] = cookie[s]
                                 /\ s \in intr' <=> s \in intr
    BY <1>1, <1>2 DEF IfTypes
  <2> QED BY <1>1, <1>2, <2>1, <2>2, FailsStep DEF WorkPcs
<1>3. CASE virtio_netdev_rx_queue_setup /\ pc' = "txq" /\ UNCHANGED <<mem, devid>>
  <2>1. queues' = [queues EXCEPT ![d] = @ \cup {"rx"}] /\ intr' = intr \cup {d}
    BY <1>1, <1>3 DEF virtio_netdev_rx_queue_setup, virtio_netdev_vqueue_setup,
                      vpci_legacy_vq_setup
  <2>2. IfTypes'
    BY <1>1, <1>3, <2>1 DEF IfTypes
  <2>3. Touches(d)
    BY <1>1, <1>3, <2>1 DEF Touches, Same, BusTypes, IfTypes, InStack
  <2>4. Now(d)'
    BY SMTT(20), <1>1, <1>3, <2>1 DEF Now, InStack, IfTypes
  <2> QED BY <1>1, <1>3, <2>2, <2>3, <2>4, Stays DEF WorkPcs
<1> QED BY <1>2, <1>3

LEMMA TxqStep ==
  ASSUME IInv, uk_netdev_txq_configure
  PROVE  IInv'
<1> USE DEF IInv, uk_netdev_txq_configure, dev
<1>1. PICK d \in Slot : d = netdevs[devid] /\ Now(d) /\ devid <= Len(netdevs)
  BY Working DEF WorkPcs
<1>2. CASE InitFails({}) /\ UNCHANGED queues
  <2>1. IfTypes'
    BY <1>1, <1>2 DEF IfTypes, InitFails, NextDevice
  <2> QED BY <1>1, <1>2, <2>1, FailsStep DEF WorkPcs
<1>3. CASE virtio_netdev_tx_queue_setup /\ pc' = "start" /\ UNCHANGED <<mem, devid>>
  <2>1. queues' = [queues EXCEPT ![d] = @ \cup {"tx"}]
    BY <1>1, <1>3 DEF virtio_netdev_tx_queue_setup, virtio_netdev_vqueue_setup,
                      vpci_legacy_vq_setup
  <2>2. IfTypes'
    BY <1>1, <1>3, <2>1 DEF IfTypes
  <2>3. Touches(d)
    BY <1>1, <1>3, <2>1 DEF Touches, Same, BusTypes, IfTypes, InStack
  <2>4. Now(d)'
    BY <1>1, <1>3, <2>1 DEF Now, InStack, IfTypes
  <2> QED BY <1>1, <1>3, <2>2, <2>3, <2>4, Stays DEF WorkPcs
<1> QED BY <1>2, <1>3

\* virtio_net_start, virtio_dev_drv_up and uk_netdev_start.
LEMMA StartStep ==
  ASSUME IInv, virtio_net_start \/ virtio_dev_drv_up \/ uk_netdev_start
  PROVE  IInv'
<1> USE DEF IInv, dev
<1>1. PICK d \in Slot : d = netdevs[devid] /\ Now(d) /\ devid <= Len(netdevs)
  BY Working DEF WorkPcs, virtio_net_start, virtio_dev_drv_up, uk_netdev_start
<1>2. CASE virtio_net_start
  <2> USE <1>2 DEF virtio_net_start
  <2>1. IfTypes'
    BY <1>1 DEF IfTypes
  <2>2. Touches(d)
    BY <1>1 DEF Touches, Same, BusTypes, IfTypes, InStack
  <2>3. Now(d)'
    BY <1>1 DEF Now, InStack, IfTypes
  <2> QED BY <1>1, <2>1, <2>2, <2>3, Stays DEF WorkPcs
<1>3. CASE virtio_dev_drv_up
  <2> USE <1>3 DEF virtio_dev_drv_up, vpci_legacy_pci_status_set, ifVars
  <2>1. IfTypes'
    BY <1>1 DEF IfTypes
  <2>2. Touches(d)
    BY Zenon, <1>1 DEF Touches, Same, BusTypes, IfTypes, InStack, Bits, ScanBits
  <2>3. Now(d)'
    BY <1>1 DEF Now, InStack, BusTypes
  <2> QED BY <1>1, <2>1, <2>2, <2>3, Stays DEF WorkPcs
<1>4. CASE uk_netdev_start
  <2> USE <1>4 DEF uk_netdev_start
  <2>1. IfTypes'
    BY <1>1 DEF IfTypes
  <2>2. Touches(d)
    BY <1>1 DEF Touches, Same, BusTypes, IfTypes, InStack
  <2>3. Now(d)'
    BY <1>1 DEF Now, InStack, IfTypes
  <2> QED BY <1>1, <2>1, <2>2, <2>3, Stays DEF WorkPcs
<1> QED BY <1>2, <1>3, <1>4

LEMMA SetUpStep ==
  ASSUME IInv, netif_set_up
  PROVE  IInv'
<1> USE DEF IInv, dev
<1>1. PICK d \in Slot : d = netdevs[devid] /\ Now(d) /\ devid <= Len(netdevs)
  BY Working DEF WorkPcs, netif_set_up
<1>2. /\ pc = "netif" /\ state[d] = "RUNNING" /\ queues[d] = {"rx", "tx"} /\ cookie[d] = d
      /\ ~InStack(d)
  BY <1>1 DEF Now, netif_set_up
<1>3. uk_netdev_hwaddr_get /\ uk_netdev_rxq_intr_enable
  BY <1>1, <1>2 DEF uk_netdev_hwaddr_get, uk_netdev_rxq_intr_enable
<1>4. /\ netifs' = Append(netifs, d) /\ intr' = intr \cup {d} /\ NextDevice
      /\ default' = (IF netifs = <<>> THEN d ELSE default)
      /\ UNCHANGED <<scanned, panicked, mem, status, state, hwVars, features, queues, cookie>>
  BY <1>1, <1>3 DEF netif_set_up, netif_set_default, uknetdev_updown
<1>5. /\ netifs \in Seq(Slot)
      /\ netifs' \in Seq(Slot)
      /\ Len(netifs') = Len(netifs) + 1
      /\ Len(netifs) \in Nat
      /\ netifs'[Len(netifs) + 1] = d
      /\ \A j \in 1 .. Len(netifs) : netifs'[j] = netifs[j]
  BY <1>4 DEF IfTypes
<1>6. \A s \in Slot : InStack(s)' <=> InStack(s) \/ s = d
  BY <1>5 DEF InStack
<1>7. IfTypes'
  BY SMTT(20), <1>4, <1>5 DEF IfTypes, NextDevice
<1>8. Touches(d)
  BY <1>4, <1>6 DEF Touches, Same, BusTypes
<1>9. Up(d)'
  BY <1>1, <1>2, <1>4, <1>6 DEF Up, Now
<1>10. BusTypes' /\ Order' /\ Scan' /\ Found'
  BY Zenon, <1>1, <1>2, <1>4, <1>8, BusFrame, Current DEF IfPcs, WorkPcs, NextDevice
<1>11. Work'
  <2>1. netdevs' = netdevs /\ pc \in WorkPcs /\ \A s \in Slot : s # d => Same(s)
    BY Zenon, <1>2, <1>4, <1>8 DEF scanned, Touches, WorkPcs
  <2> QED BY <1>1, <1>4, <1>9, <2>1, WorkNext DEF NextDevice
<1>12. Stack'
  <2>1. ASSUME NEW j \in 1 .. Len(netifs')
        PROVE  Up(netifs[j])'
    <3>1. CASE j = Len(netifs) + 1
      BY <1>5, <1>9, <3>1
    <3>2. CASE j \in 1 .. Len(netifs)
      <4>1. PICK s \in Slot : s = netifs[j] /\ s = netifs'[j]
        BY <1>5, <3>2
      <4>2. s # d /\ Up(s)
        BY Zenon, <1>2, <3>2, <4>1 DEF InStack, Stack
      <4>3. Up(s)'
        BY <1>8, <4>2, SameKeeps DEF Touches
      <4> QED BY <4>1, <4>3
    <3> QED BY <1>5, <3>1, <3>2
  <2>2. \A j, k \in 1 .. Len(netifs') : netifs'[j] = netifs'[k] => j = k
    BY <1>2, <1>5 DEF Stack, InStack
  <2>3. default' = IF netifs' = <<>> THEN NULL ELSE netifs'[1]
    <3>1. netifs' # <<>>
      BY <1>5
    <3>2. CASE netifs = <<>>
      BY <1>4, <1>5, <3>1, <3>2
    <3>3. CASE netifs # <<>>
      BY <1>4, <1>5, <3>1, <3>3 DEF Stack
    <3> QED BY <3>2, <3>3
  <2> QED BY <2>1, <2>2, <2>3 DEF Stack
<1> QED BY <1>7, <1>10, <1>11, <1>12

LEMMA MainStep ==
  ASSUME IInv, lwip_main
  PROVE  IInv'
<1> USE DEF IInv, lwip_main, scanned, ifVars
<1>1. BusTypes' /\ IfTypes'
  BY SMTT(20) DEF BusTypes, IfTypes, IfPcs
<1>2. Order'
  BY DEF Order
<1>7. Scan' /\ Found'
  BY Zenon DEF Scan, Found, Before, Adding, Listed
<1>3. \A s : (Todo(s)' <=> Todo(s)) /\ (Up(s)' <=> Up(s)) /\ (Down(s)' <=> Down(s))
  BY Zenon DEF Todo, Up, Down, InStack
<1>4. \A s \in Slot : Listed(s)' <=> Listed(s)
  BY DEF Listed
<1>5. Work'
  BY Zenon, <1>3, <1>4 DEF Work, WorkPcs, ScanPcs
<1>6. Stack'
  BY <1>3 DEF Stack
<1> QED BY <1>1, <1>2, <1>5, <1>6, <1>7

-----------------------------------------------------------------------------
(* One lemma per step of the scan.                                         *)

\* The steps before and behind the loop over the slots.
LEMMA ProbesStep ==
  ASSUME PciAssumption, IInv, UNCHANGED ifVars,
         net_init \/ uk_bus_init_all \/ pf_probe \/ pci_probe \/ virtio_bus_probe
  PROVE  IInv'
<1> DEFINE A == net_init \/ uk_bus_init_all \/ pf_probe \/ pci_probe \/ virtio_bus_probe
<1> USE SlotZero DEF IInv
<1>1. UNCHANGED <<bar, mem, status, netdevs, panicked, hw>>
  BY DEF net_init, uk_bus_init_all, pf_probe, pci_probe, virtio_bus_probe
<1>2. /\ \A s \in Slot : Listed(s)' <=> Listed(s)
      /\ \A s \in Slot : Untouched(s)' <=> Untouched(s)
  BY Zenon, <1>1 DEF Listed, Untouched
<1>3. pc # "net_init" => /\ Len(buses) = 3
                         /\ buses[1] = "pf" /\ buses[2] = "pci" /\ buses[3] = "virtio"
  BY DEF Order
<1>4. CASE net_init
  <2>1. Len(buses') = 3 /\ buses'[1] = "pf" /\ buses'[2] = "pci" /\ buses'[3] = "virtio"
    <3> DEFINE B == {"pf", "pci", "virtio"}
               one == Append(<<>>, "pf")
               two == Append(one, "pci")
               three == Append(two, "virtio")
    <3>1. \A q \in Seq(B), e \in B :
            /\ Append(q, e) \in Seq(B)
            /\ Len(Append(q, e)) = Len(q) + 1
            /\ Append(q, e)[Len(q) + 1] = e
            /\ \A k \in 1 .. Len(q) : Append(q, e)[k] = q[k]
      OBVIOUS
    <3>2. "pf" \in B /\ "pci" \in B /\ "virtio" \in B /\ <<>> \in Seq(B) /\ Len(<<>>) = 0
      OBVIOUS
    <3> HIDE DEF B
    <3>3. one \in Seq(B) /\ Len(one) = 1 /\ one[1] = "pf"
      BY <3>1, <3>2
    <3> HIDE DEF one
    <3>4. two \in Seq(B) /\ Len(two) = 2 /\ two[1] = "pf" /\ two[2] = "pci"
      <4>1. /\ two \in Seq(B) /\ Len(two) = Len(one) + 1 /\ two[Len(one) + 1] = "pci"
            /\ \A k \in 1 .. Len(one) : two[k] = one[k]
        BY Zenon, <3>1, <3>2, <3>3
      <4> HIDE DEF two
      <4> QED BY <3>3, <4>1
    <3> HIDE DEF two
    <3>5. Len(three) = 3 /\ three[1] = "pf" /\ three[2] = "pci" /\ three[3] = "virtio"
      <4>1. /\ Len(three) = Len(two) + 1 /\ three[Len(two) + 1] = "virtio"
            /\ \A k \in 1 .. Len(two) : three[k] = two[k]
        BY SMTT(20), <3>1, <3>2, <3>4
      <4> HIDE DEF three
      <4> QED BY <3>4, <4>1
    <3>6. buses' = three
      BY <1>4 DEF net_init, BusOrder, _uk_bus_register, one, two
    <3> QED BY <3>5, <3>6
  <2>2. drivers'["pf"] = {"gen_pci"}
    BY <1>4 DEF net_init, BusTypes
  <2>3. BusTypes'
    BY <1>1, <1>4 DEF net_init, BusTypes, ScanPcs
  <2>4. Order' /\ Scan' /\ pc' = "init" /\ pc = "net_init"
    BY Zenon, <1>2, <1>4, <2>1, <2>2 DEF net_init, Order, Scan, Before, Adding
  <2>5. Found'
    BY Zenon, <1>1, <1>2, <2>4 DEF Found, Adding
  <2> QED BY <1>1, <2>3, <2>4, <2>5, IfFrame DEF ScanPcs
<1>5. CASE uk_bus_init_all
  <2>1. /\ pc = "init"
        /\ pc' \in {"init", "probe"}
        /\ at' \in 1 .. 3
        /\ pc' = "probe" => at' = 1
        /\ UNCHANGED <<buses, drivers, pcw, pfoom, slot>>
    <3>1. pc = "init" /\ Len(buses) = 3 /\ at \in 1 .. 3
      BY <1>3, <1>5 DEF uk_bus_init_all, BusTypes
    <3>2. CASE at < 3
      BY <1>5, <3>1, <3>2 DEF uk_bus_init_all
    <3>3. CASE ~(at < 3)
      BY <1>5, <3>1, <3>3 DEF uk_bus_init_all
    <3> QED BY <3>2, <3>3
  <2>2. BusTypes'
    BY <1>1, <2>1 DEF BusTypes, ScanPcs
  <2>3. Order' /\ Scan'
    BY Zenon, <1>2, <2>1 DEF Order, Scan, Before, Adding
  <2>4. Found'
    BY Zenon, <1>1, <1>2, <2>1 DEF Found, Adding
  <2> QED BY <1>1, <2>1, <2>2, <2>3, <2>4, IfFrame DEF ScanPcs
<1>6. CASE pf_probe
  <2>1. at = 1 /\ drivers["pf"] = {"gen_pci"}
    BY <1>3, <1>6 DEF pf_probe, BusTypes, Order
  <2>2. pc = "probe" /\ pc' = "probe" /\ at' = 2 /\ (pcw' \/ pfoom')
        /\ UNCHANGED <<buses, drivers, slot>>
    <3>1. pc = "probe" /\ UNCHANGED <<buses, drivers, slot>> /\ NextBus
      BY <1>6 DEF pf_probe
    <3>2. "gen_pci" \in drivers["pf"]
      BY <2>1
    <3>3. pfoom' = TRUE \/ pcw' = TRUE
      BY Zenon, <1>6, <3>2 DEF pf_probe, gen_pci_probe
    <3>4. at' = 2 /\ pc' = "probe"
      <4>1. Len(buses) = 3
        BY SMTT(20), <3>1 DEF Order
      <4> QED BY <2>1, <3>1, <4>1 DEF NextBus
    <3> QED BY <3>1, <3>3, <3>4
  <2>3. pcw' \in BOOLEAN /\ pfoom' \in BOOLEAN
    BY SMTT(20), <1>6 DEF pf_probe, gen_pci_probe, BusTypes
  <2>4. BusTypes'
    BY <1>1, <2>2, <2>3 DEF BusTypes, ScanPcs
  <2>5. Order' /\ Scan'
    BY <1>2, <2>1, <2>2 DEF Order, Scan, Before, Adding
  <2>6. Found'
    BY Zenon, <1>1, <1>2, <2>2 DEF Found, Adding
  <2> QED BY <1>1, <2>2, <2>4, <2>5, <2>6, IfFrame DEF ScanPcs
<1>7. CASE pci_probe
  <2>1. at = 2
    BY <1>3, <1>7 DEF pci_probe, BusTypes
  <2>2. pc = "probe" /\ pc' = "scan" /\ slot' = 0 /\ UNCHANGED <<at, buses, drivers, pcw, pfoom>>
    BY <1>7 DEF pci_probe
  <2>3. BusTypes'
    BY <1>1, <2>2 DEF BusTypes, ScanPcs
  <2>4. Order' /\ Scan'
    BY <1>2, <2>1, <2>2 DEF Order, Scan, Before, Adding
  <2>5. Found'
    BY Zenon, <1>1, <1>2, <2>2 DEF Found, Adding
  <2> QED BY <1>1, <2>2, <2>3, <2>4, <2>5, IfFrame DEF ScanPcs
<1>8. CASE virtio_bus_probe
  <2>1. at = 3
    BY <1>3, <1>8 DEF virtio_bus_probe, BusTypes
  <2>2. pc = "probe" /\ pc' = "lwip" /\ UNCHANGED <<at, buses, drivers, pcw, pfoom, slot>>
    <3>1. pc = "probe" /\ Len(buses) = 3
      BY <1>3, <1>8 DEF virtio_bus_probe
    <3> QED BY <1>8, <2>1, <3>1 DEF virtio_bus_probe, NextBus
  <2>3. BusTypes'
    BY <1>1, <2>2 DEF BusTypes, IfPcs
  <2>4. Order' /\ Scan'
    BY <1>2, <2>1, <2>2 DEF Order, Scan, Before, Adding
  <2>5. Found'
    BY Zenon, <1>1, <1>2, <2>2 DEF Found, Adding
  <2> QED BY <1>1, <2>2, <2>3, <2>4, <2>5, IfFrame DEF ScanPcs
<1> QED BY <1>4, <1>5, <1>6, <1>7, <1>8

LEMMA NextSlotIs ==
  ASSUME PciAssumption, IInv, pc \in {"scan", "add", "add_dev"}, NextSlot,
         UNCHANGED <<buses, drivers, pcw, pfoom>>,
         \A s \in Slot : s > slot => Untouched(s)'
  PROVE  /\ Order' /\ Scan'
         /\ pc' \in {"scan", "probe"} /\ at' \in 2 .. 3 /\ slot' \in Slot
<1> USE SlotZero DEF IInv
<1>1. at = 2 /\ Len(buses) = 3
  BY DEF Order
<1>2. \/ slot + 1 \in Slot /\ slot' = slot + 1 /\ pc' = "scan" /\ at' = 2
      \/ slot' = slot /\ pc' = "probe" /\ at' = 3
  BY <1>1 DEF NextSlot, NextBus
<1>3. slot \in Nat /\ slot \in Slot
  BY DEF BusTypes
<1>4. Order'
  BY <1>2 DEF Order
<1>5. \A s \in Slot : s >= slot + 1 => s > slot
  BY <1>3
<1>6. Scan'
  BY Zenon, <1>2, <1>3, <1>5 DEF Scan, Before, Adding
<1> QED BY <1>2, <1>3, <1>4, <1>6

LEMMA FoundFrame ==
  ASSUME IInv, pc \notin {"reset", "add_dev"}, pc' \notin {"reset", "add_dev"},
         UNCHANGED <<mem, status, netdevs>>, \A s \in Slot : bar'[s] \in {NULL, s}
  PROVE  Found'
<1> USE DEF IInv
<1>1. ~Adding /\ ~Adding' /\ \A s \in Slot : Listed(s)' <=> Listed(s)
  BY DEF Adding, Listed
<1>2. \A s \in Slot : "reset asked" \notin status[s]
  BY Zenon DEF Found
<1>3. \A s \in Slot : "ACK" \in status[s] => "unknown" \notin status[s]
  BY Zenon DEF Found
<1>4. ASSUME NEW s \in Slot, Listed(s)
      PROVE  /\ \A n \in {"pdev", "vpci", "vndev", "data", "einfo"} : <<s, n>> \in mem
             /\ {"ACK", "DRIVER"} \subseteq status[s]
  BY Zenon, <1>4 DEF Found
<1>5. ASSUME NEW s \in Slot, ~Listed(s), NEW n \in Names, <<s, n>> \in mem
      PROVE  n = "data"
  BY Zenon, <1>1, <1>5 DEF Found
<1>6. \A j, k \in 1 .. Len(netdevs) : netdevs[j] = netdevs[k] => j = k
  BY Zenon DEF Found
<1> QED BY Zenon, <1>1, <1>2, <1>3, <1>4, <1>5, <1>6 DEF Found

LEMMA SlotStep ==
  ASSUME PciAssumption, IInv, UNCHANGED ifVars, arch_pci_probe
  PROVE  IInv'
<1> USE SlotZero DEF IInv, arch_pci_probe
<1>1. slot \in Slot /\ slot \in Nat
  BY DEF BusTypes
<1>2. UNCHANGED <<buses, drivers, pcw, pfoom, mem, status, netdevs, panicked>> /\ pc = "scan"
  OBVIOUS
<1>3. /\ \A s \in Slot : Listed(s)' <=> Listed(s)
      /\ \A s \in Slot : s >= slot => Untouched(s)
      /\ \A s \in Slot : s > slot => s >= slot /\ s # slot
  BY <1>1, <1>2 DEF Listed, Scan
<1>4. CASE ReadsWild /\ pc' = "fault" /\ UNCHANGED <<slot, at, bar>>
  <2>1. pfoom
    BY <1>2, <1>4 DEF ReadsWild, Order
  <2>2. BusTypes'
    BY <1>2, <1>4 DEF BusTypes, ScanPcs
  <2>3. Order' /\ Scan'
    BY <1>2, <1>4, <2>1 DEF Order, Scan, Before, Adding
  <2>4. Found'
    <3>1. \A s \in Slot : bar'[s] \in {NULL, s}
      BY Zenon, <1>4 DEF Found
    <3> QED BY <1>2, <1>4, <3>1, FoundFrame
  <2> QED BY <1>2, <1>4, <2>2, <2>3, <2>4, IfFrame DEF ScanPcs
<1>5. bar' = bar \/ bar' = [bar EXCEPT ![slot] = slot]
  BY DEF device_base
<1>6. bar' \in [Slot -> Slot \cup {NULL}] /\ \A s \in Slot : bar'[s] \in {NULL, s}
  <2>1. bar \in [Slot -> Slot \cup {NULL}] /\ \A s \in Slot : bar[s] \in {NULL, s}
    BY Zenon DEF BusTypes, Found
  <2>2. CASE bar' = bar
    BY <2>1, <2>2
  <2>3. CASE bar' = [bar EXCEPT ![slot] = slot]
    BY <1>1, <2>1, <2>3
  <2> QED BY <1>5, <2>2, <2>3
<1>7. \A s \in Slot : s > slot => Untouched(s)'
  BY <1>1, <1>2, <1>3, <1>5 DEF Untouched, BusTypes
<1>8. CASE NextSlot
  <2>1. Order' /\ Scan' /\ pc' \in {"scan", "probe"} /\ at' \in 2 .. 3 /\ slot' \in Slot
    BY <1>2, <1>7, <1>8, NextSlotIs
  <2>2. BusTypes'
    BY <1>2, <1>6, <2>1 DEF BusTypes, ScanPcs
  <2>3. Found'
    BY Zenon, <1>2, <1>6, <2>1, FoundFrame
  <2> QED BY <1>2, <2>1, <2>2, <2>3, IfFrame DEF ScanPcs
<1>9. CASE pc' = "add" /\ UNCHANGED <<slot, at>>
  <2>1. Untouched(slot)
    BY <1>1, <1>3
  <2>2. BusTypes'
    BY Zenon, <1>2, <1>6, <1>9 DEF BusTypes, ScanPcs
  <2>3. Order'
    <3>1. at = 2 /\ (pcw \/ pfoom) /\ pc # "net_init"
      BY <1>2 DEF Order
    <3>2. /\ Len(buses) = 3
          /\ buses[1] = "pf" /\ buses[2] = "pci" /\ buses[3] = "virtio"
          /\ drivers["pf"] = {"gen_pci"}
      BY SMTT(20), <3>1 DEF Order
    <3> HIDE DEF IInv
    <3> QED BY <1>2, <1>9, <3>1, <3>2 DEF Order
  <2>4. Scan'
    BY <1>1, <1>2, <1>3, <1>7, <1>9, <2>1 DEF Scan, Before, Adding, Untouched
  <2>5. Found'
    BY <1>2, <1>6, <1>9, FoundFrame
  <2> QED BY Zenon, <1>2, <1>9, <2>2, <2>3, <2>4, <2>5, IfFrame DEF ScanPcs
<1> QED BY SMTT(20), <1>4, <1>8, <1>9

LEMMA AddStep ==
  ASSUME PciAssumption, IInv, UNCHANGED ifVars, arch_pci_driver_add_device
  PROVE  IInv'
<1> USE SlotZero DEF IInv, arch_pci_driver_add_device
<1>1. slot \in Slot /\ slot \in Nat
  BY DEF BusTypes
<1>2. UNCHANGED <<buses, drivers, pcw, pfoom, bar, netdevs>> /\ pc = "add"
  OBVIOUS
<1>3. /\ \A s \in Slot : Listed(s)' <=> Listed(s)
      /\ \A s \in Slot : s > slot => Untouched(s) /\ s # slot
      /\ ~Listed(slot)
      /\ status[slot] = {"unknown"}
      /\ \A n \in Names : <<slot, n>> \notin mem
  <2>1. \A s \in Slot : Listed(s)' <=> Listed(s)
    BY <1>2 DEF Listed
  <2>2. /\ ~Listed(slot) /\ \A s \in Slot : s > slot => Untouched(s)
        /\ status[slot] = {"unknown"} /\ \A n \in Names : <<slot, n>> \notin mem
    BY Zenon, <1>2 DEF Scan
  <2>3. \A s \in Slot : s > slot => s # slot
    BY <1>1
  <2> QED BY <2>1, <2>2, <2>3
<1>4. CASE NextSlot /\ UNCHANGED <<mem, status, panicked>>
  <2>1. \A s \in Slot : s > slot => Untouched(s)'
    BY <1>2, <1>3, <1>4 DEF Untouched
  <2>2. Order' /\ Scan' /\ pc' \in {"scan", "probe"} /\ at' \in 2 .. 3 /\ slot' \in Slot
    BY <1>2, <1>4, <2>1, NextSlotIs
  <2>3. BusTypes'
    BY <1>2, <1>4, <2>2 DEF BusTypes, ScanPcs
  <2>4. Found'
    BY Zenon, <1>2, <1>3, <1>4, <2>2 DEF Found, Adding
  <2> QED BY SMTT(20), <1>2, <1>4, <2>2, <2>3, <2>4, IfFrame DEF ScanPcs
<1>5. CASE /\ mem' = mem \cup {<<slot, "pdev">>, <<slot, "vpci">>}
           /\ status' = [status EXCEPT ![slot] = @ \cup {"reset asked"}]
           /\ pc' = "reset" /\ UNCHANGED <<slot, at, panicked>>
  <2>1. /\ status'[slot] = {"unknown", "reset asked"}
        /\ status' \in [Slot -> SUBSET Bits]
        /\ \A s \in Slot : s # slot => status'[s] = status[s]
    BY Zenon, <1>1, <1>3, <1>5 DEF BusTypes, Bits
  <2>2. /\ mem' \subseteq Slot \X Names
        /\ \A n \in Names : <<slot, n>> \in mem' <=> n \in {"pdev", "vpci"}
        /\ \A s \in Slot, n \in Names : s # slot => (<<s, n>> \in mem' <=> <<s, n>> \in mem)
    <3>1. mem' \subseteq Slot \X Names
      <4>1. <<slot, "pdev">> \in Slot \X Names /\ <<slot, "vpci">> \in Slot \X Names
        BY <1>1 DEF Names
      <4>2. mem \subseteq Slot \X Names
        BY DEF BusTypes
      <4> QED BY Zenon, <1>5, <4>1, <4>2
    <3>2. \A n \in Names : <<slot, n>> \in mem' <=> n \in {"pdev", "vpci"}
      BY Zenon, <1>3, <1>5
    <3>3. \A s \in Slot, n \in Names : s # slot => (<<s, n>> \in mem' <=> <<s, n>> \in mem)
      BY Zenon, <1>5
    <3> QED BY <3>1, <3>2, <3>3
  <2>3. BusTypes'
    BY Zenon, <1>2, <1>5, <2>1, <2>2 DEF BusTypes, ScanPcs
  <2>4. Order'
    <3>1. pc' = "reset" /\ UNCHANGED <<at, buses, drivers, pcw, pfoom>>
      BY Zenon, <1>2, <1>5
    <3> QED BY <1>2, <3>1 DEF Order
  <2>5. \A s \in Slot : s > slot => Untouched(s)'
    BY Zenon, <1>2, <1>3, <2>1, <2>2 DEF Untouched
  <2>6. Scan'
    BY Zenon, <1>1, <1>3, <1>5, <2>1, <2>2, <2>5 DEF Scan, Before, Adding
  <2>7. Found'
    <3>1. \A s \in Slot : Listed(s)' => s # slot
      BY <1>3
    <3>2. \A s \in Slot : "reset asked" \in status'[s] => s = slot
      BY Zenon, <1>2, <2>1 DEF Found
    <3>3. \A s \in Slot : "ACK" \in status'[s] => "unknown" \notin status'[s]
      <4>1. \A s \in Slot : "ACK" \in status[s] => "unknown" \notin status[s]
        BY Zenon DEF Found
      <4>2. "ACK" \notin status'[slot]
        BY Zenon, <2>1
      <4> QED BY Zenon, <2>1, <4>1, <4>2
    <3>4. ASSUME NEW s \in Slot, Listed(s)'
          PROVE  /\ \A n \in {"pdev", "vpci", "vndev", "data", "einfo"} : <<s, n>> \in mem'
                 /\ {"ACK", "DRIVER"} \subseteq status'[s]
      BY Zenon, <1>3, <1>5, <2>1, <3>1, <3>4 DEF Found
    <3>5. ASSUME NEW s \in Slot, ~Listed(s)', ~(s = slot /\ Adding)', NEW n \in Names, <<s, n>> \in mem'
          PROVE  n = "data"
      <4>1. s # slot
        BY Zenon, <1>5, <3>5 DEF Adding
      <4> QED BY Zenon, <1>3, <2>2, <3>5, <4>1 DEF Found
    <3> QED BY Zenon, <1>2, <1>5, <3>2, <3>3, <3>4, <3>5 DEF Found
  <2>8. \A s \in Slot : <<s, "nf">> \in mem' => <<s, "nf">> \in mem
    BY Zenon, <1>5
  <2>9. \A s \in Slot : Listed(s) /\ "FAIL" \notin status[s] => "FAIL" \notin status'[s]
    BY Zenon, <1>3, <2>1
  <2>10. \A s \in Slot : "DRIVER_OK" \notin status[s] => "DRIVER_OK" \notin status'[s]
    <3> DEFINE ok == "DRIVER_OK"
    <3>1. ok \notin {"unknown", "reset asked"}
      OBVIOUS
    <3> QED BY Zenon, <2>1, <3>1
  <2> QED BY Zenon, <1>2, <1>5, <2>3, <2>4, <2>6, <2>7, <2>8, <2>9, <2>10, IfFrame DEF ScanPcs
<1>6. CASE pc' = "panic" /\ panicked' = TRUE /\ UNCHANGED <<mem, slot, at, status>>
  <2>1. BusTypes'
    BY SMTT(20), <1>2, <1>6 DEF BusTypes, ScanPcs
  <2>2. Order' /\ Scan'
    BY <1>2, <1>6 DEF Order, Scan, Before, Adding
  <2>3. Found'
    BY Zenon, <1>2, <1>3, <1>6 DEF Found, Adding
  <2> QED BY <1>2, <1>6, <2>1, <2>2, <2>3, IfFrame DEF ScanPcs
<1> QED BY Zenon, <1>4, <1>5, <1>6 DEF virtio_pci_add_dev, vpci_legacy_pci_dev_reset

\* The status of the current slot changes while its device is added.
LEMMA StatusStep ==
  ASSUME PciAssumption, IInv, UNCHANGED ifVars, pc = "reset", pc' \in {"reset", "add_dev"},
         UNCHANGED <<hw, buses, drivers, at, pcw, pfoom, slot, bar, mem, netdevs, panicked>>,
         NEW v \in SUBSET Bits, status' = [status EXCEPT ![slot] = v],
         pc' = "reset" => v = {}, pc' = "add_dev" => v = {"ACK", "DRIVER"}
  PROVE  IInv'
<1> USE SlotZero DEF IInv
<1>1. slot \in Slot /\ slot \in Nat
  BY DEF BusTypes
<1>2. /\ status' \in [Slot -> SUBSET Bits]
      /\ status'[slot] = v
      /\ \A s \in Slot : s # slot => status'[s] = status[s]
  BY <1>1 DEF BusTypes
<1>3. /\ \A s \in Slot : Listed(s)' <=> Listed(s)
      /\ ~Listed(slot)
      /\ \A s \in Slot : s > slot => Untouched(s) /\ s # slot
      /\ \A n \in Names : <<slot, n>> \in mem <=> n \in {"pdev", "vpci"}
  <2>1. \A s \in Slot : Listed(s)' <=> Listed(s)
    BY DEF Listed
  <2>2. ~Listed(slot) /\ \A n \in Names : <<slot, n>> \in mem <=> n \in {"pdev", "vpci"}
    BY Zenon DEF Scan, Adding
  <2>3. \A s \in Slot : s > slot => Untouched(s)
    BY Zenon DEF Scan
  <2>4. \A s \in Slot : s > slot => s # slot
    BY <1>1
  <2> QED BY <2>1, <2>2, <2>3, <2>4
<1>4. v = {} \/ v = {"ACK", "DRIVER"}
  OBVIOUS
<1>5. /\ "unknown" \notin v /\ "reset asked" \notin v
      /\ "DRIVER_OK" \notin v /\ "FAIL" \notin v
  BY Zenon, <1>4
<1>6. BusTypes'
  BY SMTT(20), <1>2 DEF BusTypes, ScanPcs
<1>7. Order'
  BY SMTT(20) DEF Order
<1>8. \A s \in Slot : s > slot => Untouched(s)'
  BY <1>2, <1>3 DEF Untouched
<1>9. Scan'
  BY Zenon, <1>1, <1>2, <1>3, <1>8 DEF Scan, Before, Adding
<1>10. Found'
  <2>1. \A s \in Slot : bar'[s] \in {NULL, s}
    BY Zenon DEF Found
  <2>2. \A s \in Slot : /\ "reset asked" \notin status'[s]
                        /\ "ACK" \in status'[s] => "unknown" \notin status'[s]
    BY Zenon, <1>2, <1>5 DEF Found
  <2>3. ASSUME NEW s \in Slot, Listed(s)'
        PROVE  /\ \A n \in {"pdev", "vpci", "vndev", "data", "einfo"} : <<s, n>> \in mem
               /\ {"ACK", "DRIVER"} \subseteq status'[s]
    BY Zenon, <1>2, <1>3, <2>3 DEF Found
  <2>4. Adding /\ Adding'
    BY DEF Adding
  <2> QED BY Zenon, <1>3, <2>1, <2>2, <2>3, <2>4 DEF Found
<1>11. \A s \in Slot : "DRIVER_OK" \notin status[s] => "DRIVER_OK" \notin status'[s]
  BY Zenon, <1>2, <1>5
<1>12. \A s \in Slot : Listed(s) /\ "FAIL" \notin status[s] => "FAIL" \notin status'[s]
  BY Zenon, <1>2, <1>5
<1> QED BY <1>6, <1>7, <1>9, <1>10, <1>11, <1>12, IfFrame DEF ScanPcs

LEMMA ResetStep ==
  ASSUME PciAssumption, IInv, UNCHANGED ifVars, DeviceReset \/ virtio_device_reinit
  PROVE  IInv'
<1>1. slot \in Slot
  BY DEF IInv, BusTypes
<1>2. CASE DeviceReset
  <2>1. pc = "reset" /\ pc' = "reset"
    BY Zenon, <1>1, <1>2 DEF DeviceReset, IInv, Found
  <2> QED BY Zenon, <1>2, <2>1, StatusStep DEF DeviceReset, Bits
<1>3. CASE virtio_device_reinit
  <2>1. status' = [status EXCEPT ![slot] = {"ACK", "DRIVER"}]
    <3>1. status[slot] = {} /\ status' = [status EXCEPT ![slot] = status[slot] \cup {"ACK", "DRIVER"}]
      BY <1>3 DEF virtio_device_reinit, vpci_legacy_pci_status_set
    <3>2. {} \cup {"ACK", "DRIVER"} = {"ACK", "DRIVER"}
      OBVIOUS
    <3> QED BY <3>1, <3>2
  <2> QED BY Zenon, <1>3, <2>1, StatusStep DEF virtio_device_reinit, Bits
<1> QED BY <1>2, <1>3

LEMMA AddFailedStep ==
  ASSUME PciAssumption, IInv, UNCHANGED ifVars, pc = "add_dev",
         NEW leaked \in SUBSET {<<slot, "data">>}, AddFailed(leaked),
         UNCHANGED <<hw, buses, drivers, pcw, pfoom, bar, panicked>>
  PROVE  IInv'
<1> USE SlotZero DEF IInv
<1>1. slot \in Slot /\ slot \in Nat
  BY DEF BusTypes
<1>2. /\ netdevs' = netdevs
      /\ status' = [status EXCEPT ![slot] = @ \cup {"FAIL"}]
      /\ mem' = {m \in mem : m[1] # slot} \cup leaked
      /\ NextSlot
  BY DEF AddFailed, vpci_legacy_pci_status_set
<1>3. /\ \A s \in Slot : Listed(s)' <=> Listed(s)
      /\ ~Listed(slot)
      /\ \A s \in Slot : s > slot => Untouched(s) /\ s # slot
      /\ status[slot] = {"ACK", "DRIVER"}
  BY <1>1, <1>2 DEF Listed, Scan
<1>4. /\ status' \in [Slot -> SUBSET Bits]
      /\ status'[slot] = {"ACK", "DRIVER", "FAIL"}
      /\ \A s \in Slot : s # slot => status'[s] = status[s]
  BY Zenon, <1>1, <1>2, <1>3 DEF BusTypes, Bits
<1>5. mem' \subseteq Slot \X Names
  <2>1. <<slot, "data">> \in Slot \X Names
    BY <1>1 DEF Names
  <2>2. mem \subseteq Slot \X Names
    BY DEF BusTypes
  <2> QED BY <1>2, <2>1, <2>2
<1>6. /\ \A s \in Slot, n \in Names : s # slot => (<<s, n>> \in mem' <=> <<s, n>> \in mem)
      /\ \A n \in Names : <<slot, n>> \in mem' => n = "data"
  BY <1>2
<1>7. \A s \in Slot : s > slot => Untouched(s)'
  BY <1>2, <1>3, <1>4, <1>6 DEF Untouched
<1>8. Order' /\ Scan' /\ pc' \in {"scan", "probe"} /\ at' \in 2 .. 3 /\ slot' \in Slot
  BY <1>2, <1>7, NextSlotIs
<1>9. BusTypes'
  BY <1>2, <1>4, <1>5, <1>8 DEF BusTypes, ScanPcs
<1>10. Found'
  <2>1. \A s \in Slot : bar'[s] \in {NULL, s}
    BY Zenon DEF Found
  <2>2. \A s \in Slot : /\ "reset asked" \notin status'[s]
                        /\ "ACK" \in status'[s] => "unknown" \notin status'[s]
    <3>1. "reset asked" \notin status'[slot] /\ "unknown" \notin status'[slot]
      BY <1>4
    <3> QED BY Zenon, <1>4, <3>1 DEF Found
  <2>3. ASSUME NEW s \in Slot, Listed(s)'
        PROVE  /\ \A n \in {"pdev", "vpci", "vndev", "data", "einfo"} : <<s, n>> \in mem'
               /\ {"ACK", "DRIVER"} \subseteq status'[s]
    <3>1. s # slot /\ Listed(s)
      BY <1>3, <2>3
    <3> QED BY Zenon, <1>4, <1>6, <3>1 DEF Found, Names
  <2>4. ASSUME NEW s \in Slot, ~Listed(s)', NEW n \in Names, <<s, n>> \in mem'
        PROVE  n = "data"
    BY Zenon, <1>3, <1>6, <2>4 DEF Found
  <2>5. ~Adding'
    BY <1>8 DEF Adding
  <2>6. \A j, k \in 1 .. Len(netdevs') : netdevs'[j] = netdevs'[k] => j = k
    BY Zenon, <1>2 DEF Found
  <2> QED BY Zenon, <2>1, <2>2, <2>3, <2>4, <2>5, <2>6 DEF Found
<1>11. \A s \in Slot : "DRIVER_OK" \notin status[s] => "DRIVER_OK" \notin status'[s]
  BY <1>4
<1>12. \A s \in Slot : Listed(s) /\ "FAIL" \notin status[s] => "FAIL" \notin status'[s]
  BY <1>3, <1>4
<1>13. \A s \in Slot : <<s, "nf">> \in mem' => <<s, "nf">> \in mem
  BY Zenon, <1>6 DEF Names
<1> QED BY SMTT(20), <1>2, <1>8, <1>9, <1>10, <1>11, <1>12, <1>13, IfFrame DEF ScanPcs

LEMMA RegisterStep ==
  ASSUME PciAssumption, IInv, UNCHANGED ifVars, pc = "add_dev",
         uk_netdev_drv_register, NextSlot,
         UNCHANGED <<hw, buses, drivers, pcw, pfoom, bar, panicked, status>>
  PROVE  IInv'
<1> USE SlotZero DEF IInv
<1>1. slot \in Slot /\ slot \in Nat
  BY DEF BusTypes
<1>2. /\ mem' = mem \cup {<<slot, "vndev">>, <<slot, "data">>, <<slot, "einfo">>}
      /\ netdevs' = Append(netdevs, slot)
  BY DEF uk_netdev_drv_register
<1>3. /\ ~Listed(slot)
      /\ status[slot] = {"ACK", "DRIVER"}
      /\ <<slot, "pdev">> \in mem /\ <<slot, "vpci">> \in mem
  BY DEF Scan, Adding, Names
<1>4. \A s \in Slot : s > slot => Untouched(s) /\ s # slot
  BY <1>1 DEF Scan
<1>5. /\ netdevs' \in Seq(Slot)
      /\ Len(netdevs') = Len(netdevs) + 1
      /\ Len(netdevs) \in Nat
      /\ netdevs'[Len(netdevs) + 1] = slot
      /\ \A j \in 1 .. Len(netdevs) : netdevs'[j] = netdevs[j] /\ netdevs[j] \in Slot
  BY <1>1, <1>2 DEF BusTypes
<1>6. \A s \in Slot : Listed(s)' <=> Listed(s) \/ s = slot
  BY <1>5 DEF Listed
<1>7. mem' \subseteq Slot \X Names
  <2>1. /\ <<slot, "vndev">> \in Slot \X Names
        /\ <<slot, "data">> \in Slot \X Names
        /\ <<slot, "einfo">> \in Slot \X Names
    BY <1>1 DEF Names
  <2>2. mem \subseteq Slot \X Names
    BY DEF BusTypes
  <2> QED BY <1>2, <2>1, <2>2
<1>8. \A s \in Slot, n \in Names : s # slot => (<<s, n>> \in mem' <=> <<s, n>> \in mem)
  BY <1>2
<1>9. \A s \in Slot : s > slot => Untouched(s)'
  BY <1>4, <1>6, <1>8 DEF Untouched
<1>10. Order' /\ Scan' /\ pc' \in {"scan", "probe"} /\ at' \in 2 .. 3 /\ slot' \in Slot
  BY <1>9, NextSlotIs
<1>11. BusTypes'
  BY <1>5, <1>7, <1>10 DEF BusTypes, ScanPcs
<1>12. \A j, k \in 1 .. Len(netdevs') : netdevs'[j] = netdevs'[k] => j = k
  <2>1. \A j \in 1 .. Len(netdevs) : netdevs[j] # slot
    BY <1>3 DEF Listed
  <2>2. \A j, k \in 1 .. Len(netdevs) : netdevs[j] = netdevs[k] => j = k
    BY Zenon DEF Found
  <2> QED BY <1>5, <2>1, <2>2
<1>13. Found'
  <2>1. \A s \in Slot : bar'[s] \in {NULL, s}
    BY Zenon DEF Found
  <2>2. \A s \in Slot : /\ "reset asked" \notin status[s]
                        /\ "ACK" \in status[s] => "unknown" \notin status[s]
    BY Zenon DEF Found
  <2>3. ASSUME NEW s \in Slot, Listed(s)'
        PROVE  /\ \A n \in {"pdev", "vpci", "vndev", "data", "einfo"} : <<s, n>> \in mem'
               /\ {"ACK", "DRIVER"} \subseteq status[s]
    <3>1. CASE s = slot
      BY <1>2, <1>3, <3>1
    <3>2. CASE s # slot
      BY Zenon, <1>6, <1>8, <2>3, <3>2 DEF Found, Names
    <3> QED BY <3>1, <3>2
  <2>4. ASSUME NEW s \in Slot, ~Listed(s)', NEW n \in Names, <<s, n>> \in mem'
        PROVE  n = "data"
    BY Zenon, <1>6, <1>8, <2>4 DEF Found
  <2>5. ~Adding'
    BY <1>10 DEF Adding
  <2> QED BY Zenon, <1>12, <2>1, <2>2, <2>3, <2>4, <2>5 DEF Found
<1>14. devid = 1 /\ pc \notin WorkPcs /\ pc' \notin WorkPcs
  BY <1>10 DEF Work, ScanPcs, WorkPcs
<1>15. \A s \in Slot : Todo(s)
  BY SMTT(20), <1>14 DEF Work, Listed, BusTypes
<1>16. \A s \in Slot : Todo(s)'
  BY Zenon, <1>2, <1>15 DEF Todo, InStack, ifVars
<1>17. IfTypes'
  BY DEF IfTypes, ifVars
<1>18. Stack'
  <2>1. \A j \in 1 .. Len(netifs) : netifs[j] \in Slot
    BY DEF IfTypes
  <2>2. \A j \in 1 .. Len(netifs) : FALSE
    BY Zenon, <1>15, <2>1 DEF Todo, InStack
  <2> QED BY SMTT(20), <2>2 DEF Stack, ifVars
<1>19. Work'
  <2>1. \A j \in 1 .. Len(netdevs) : "FAIL" \notin status[netdevs[j]]
    <3>1. ASSUME NEW j \in 1 .. Len(netdevs) PROVE j > devid \/ j = devid
      BY <1>14
    <3> QED BY Zenon, <1>14, <3>1 DEF Work
  <2>2. "FAIL" \notin status[slot]
    BY Zenon, <1>3
  <2>3. \A j \in 1 .. Len(netdevs') : netdevs'[j] \in Slot /\ "FAIL" \notin status[netdevs'[j]]
    BY <1>1, <1>5, <2>1, <2>2
  <2>4. devid' = devid /\ devid' \in 1 .. Len(netdevs') + 1
    BY <1>5, <1>14 DEF ifVars
  <2>5. \A j \in 1 .. Len(netdevs') : ~(j < devid')
    BY <1>14, <2>4
  <2> HIDE DEF IInv
  <2> QED BY Zenon, <1>14, <1>16, <2>3, <2>4, <2>5 DEF Work
<1> QED BY <1>10, <1>11, <1>13, <1>17, <1>18, <1>19

-----------------------------------------------------------------------------
LEMMA Step ==
  ASSUME PciAssumption, IInv, [Next]_vars
  PROVE  IInv'
<1>1. CASE Bus
  <2>1. CASE net_init \/ uk_bus_init_all \/ pf_probe \/ pci_probe \/ virtio_bus_probe
    BY <1>1, <2>1, ProbesStep DEF Bus
  <2>2. CASE arch_pci_probe
    BY <1>1, <2>2, SlotStep DEF Bus
  <2>3. CASE arch_pci_driver_add_device
    BY <1>1, <2>3, AddStep DEF Bus
  <2>4. CASE virtio_device_reinit
    BY <1>1, <2>4, ResetStep DEF Bus
  <2>5. CASE virtio_net_add_dev
    <3>1. CASE AddFailed({}) \/ AddFailed({<<slot, "data">>})
      BY <1>1, <2>5, <3>1, AddFailedStep DEF Bus, virtio_net_add_dev
    <3>2. CASE uk_netdev_drv_register /\ NextSlot /\ UNCHANGED status
      BY <1>1, <2>5, <3>2, RegisterStep DEF Bus, virtio_net_add_dev
    <3> QED BY <2>5, <3>1, <3>2 DEF virtio_net_add_dev
  <2> QED BY <1>1, <2>1, <2>2, <2>3, <2>4, <2>5 DEF Bus, BusHart
<1>2. CASE Reset
  BY <1>2, ResetStep DEF Reset
<1>3. CASE liblwip_init \/ uknetdev_addif \/ uk_netdev_configure \/ uk_netdev_rxq_configure
  BY <1>3, ProbeStep, AddifStep, ConfigureStep, RxqStep
<1>4. CASE \/ uk_netdev_txq_configure \/ virtio_net_start \/ virtio_dev_drv_up
           \/ uk_netdev_start \/ netif_set_up \/ lwip_main
  BY <1>4, TxqStep, StartStep, SetUpStep, MainStep
<1>5. CASE UNCHANGED vars
  <2> USE <1>5 DEF vars, busVars, ifVars, IInv
  <2>1. BusTypes' /\ IfTypes' /\ Order'
    BY DEF BusTypes, IfTypes, Order
  <2>2. /\ \A s \in Slot : Listed(s)' <=> Listed(s)
        /\ \A s \in Slot : Untouched(s)' <=> Untouched(s)
        /\ Before' <=> Before
        /\ Adding' <=> Adding
    BY Zenon DEF Listed, Untouched, Before, Adding
  <2>3. Scan'
    BY Zenon, <2>2 DEF Scan, BusTypes
  <2>4. Found'
    BY Zenon, <2>2 DEF Found
  <2>5. \A s : /\ Todo(s)' <=> Todo(s)
               /\ Up(s)' <=> Up(s)
               /\ Down(s)' <=> Down(s)
               /\ Now(s)' <=> Now(s)
    BY DEF Todo, Up, Down, Now, InStack
  <2>6. Work' /\ Stack'
    BY Zenon, <2>2, <2>5 DEF Work, Stack, dev
  <2> QED BY SMTT(20), <2>1, <2>3, <2>4, <2>6
<1> QED BY <1>1, <1>2, <1>3, <1>4, <1>5 DEF Next, hart

-----------------------------------------------------------------------------
LEMMA ListedIsRange ==
  ASSUME IInv
  PROVE  /\ \A s \in Slot : s \in Range(netdevs) <=> Listed(s)
         /\ \A s \in Slot : s \in Range(netifs) <=> InStack(s)
         /\ Range(netdevs) \subseteq Slot /\ Range(netifs) \subseteq Slot
         /\ DOMAIN netdevs = 1 .. Len(netdevs) /\ DOMAIN netifs = 1 .. Len(netifs)
<1>1. netdevs \in Seq(Slot) /\ netifs \in Seq(Slot)
  BY DEF IInv, BusTypes, IfTypes
<1> QED BY <1>1 DEF Range, Listed, InStack

LEMMA IInvIsBusSound ==
  ASSUME PciAssumption, IInv
  PROVE  BusSound
<1> USE SlotZero DEF IInv
<1>1. ASSUME NEW s \in Slot, s \in Range(netdevs)
      PROVE  /\ {<<s, n>> : n \in {"pdev", "vpci", "vndev", "data", "einfo"}} \subseteq mem
             /\ Cardinality({k \in DOMAIN netdevs : netdevs[k] = s}) = 1
  <2>1. Listed(s)
    BY <1>1, ListedIsRange
  <2>2. {<<s, n>> : n \in {"pdev", "vpci", "vndev", "data", "einfo"}} \subseteq mem
    <3>1. \A n \in {"pdev", "vpci", "vndev", "data", "einfo"} : <<s, n>> \in mem
      BY Zenon, <2>1 DEF Found
    <3> QED BY <3>1
  <2>3. PICK j \in 1 .. Len(netdevs) : netdevs[j] = s
    BY <2>1 DEF Listed
  <2>4. {k \in DOMAIN netdevs : netdevs[k] = s} = {j}
    BY Zenon, <2>3, ListedIsRange DEF Found
  <2> QED BY Zenon, <2>2, <2>4, FS_Singleton
<1>2. ASSUME NEW s \in Slot, s \notin Range(netdevs), ~(s = slot /\ pc \in {"reset", "add_dev"})
      PROVE  {m \in mem : m[1] = s} \subseteq {<<s, "data">>}
  <2>1. ~Listed(s)
    BY <1>2, ListedIsRange
  <2>2. \A n \in Names : <<s, n>> \in mem => n = "data"
    BY Zenon, <1>2, <2>1 DEF Found, Adding
  <2>3. mem \subseteq Slot \X Names
    BY DEF BusTypes
  <2> QED BY <2>2, <2>3
<1>3. NothingLost
  BY <1>1, <1>2 DEF NothingLost
<1>4. RegistersApart
  BY Zenon DEF RegistersApart, Found
<1>5. WindowFirst
  BY DEF WindowFirst, Order
<1>6. ResetFirst
  <2>1. ASSUME NEW s \in Slot, "ACK" \in status[s]
        PROVE  "unknown" \notin status[s] /\ "reset asked" \notin status[s]
    <3>1. "unknown" \notin status[s]
      BY Zenon, <2>1 DEF Found
    <3>2. "reset asked" \in status[s] => pc = "reset" /\ s = slot
      BY Zenon DEF Found
    <3>3. pc = "reset" => status[slot] \in {{"unknown", "reset asked"}, {}}
      BY Zenon DEF Scan
    <3> QED BY Zenon, <2>1, <3>1, <3>2, <3>3
  <2> QED BY Zenon, <2>1 DEF ResetFirst
<1> QED BY <1>3, <1>4, <1>5, <1>6 DEF BusSound

\* Every device is of one of the kinds of the invariant.
LEMMA Kinds ==
  ASSUME IInv, NEW s \in Slot
  PROVE  \/ Todo(s)
         \/ Up(s) /\ Listed(s)
         \/ Down(s)
         \/ pc \in WorkPcs /\ s = dev /\ Listed(s) /\ Now(s)
<1> USE DEF IInv
<1>1. CASE ~Listed(s)
  BY <1>1 DEF Work
<1>2. CASE Listed(s)
  <2>1. PICK j \in 1 .. Len(netdevs) : netdevs[j] = s
    BY <1>2 DEF Listed
  <2>2. j > devid \/ j = devid \/ j < devid
    BY DEF Work, BusTypes
  <2>3. CASE j = devid /\ pc \in WorkPcs
    BY SMTT(20), <1>2, <2>1, <2>3 DEF Work, dev
  <2>4. CASE ~(j = devid /\ pc \in WorkPcs)
    BY <1>2, <2>1, <2>2, <2>4 DEF Work
  <2> QED BY <2>3, <2>4
<1> QED BY <1>1, <1>2

\* An assertion of the set-up of a device would fail in netif_set_up only.
LEMMA AssertStep ==
  ASSUME PciAssumption, IInv, AssertsHold, [Next]_vars
  PROVE  AssertsHold'
<1>1. CASE netif_set_up
  <2>1. PICK d \in Slot : d = netdevs[devid] /\ Now(d) /\ devid <= Len(netdevs)
    BY <1>1, Working DEF netif_set_up, WorkPcs
  <2>2. uk_netdev_hwaddr_get /\ uk_netdev_rxq_intr_enable
    BY <1>1, <2>1 DEF netif_set_up, Now, uk_netdev_hwaddr_get, uk_netdev_rxq_intr_enable, dev
  <2> QED BY <1>1, <2>2 DEF netif_set_up, AssertsHold
<1>2. CASE arch_pci_driver_add_device
  BY <1>2 DEF arch_pci_driver_add_device, AssertsHold
<1>3. CASE panicked' = panicked
  BY <1>3 DEF AssertsHold
<1>4. CASE BusHart \/ Reset \/ UNCHANGED vars
  BY Zenon, <1>2, <1>3, <1>4 DEF BusHart, net_init, uk_bus_init_all, pf_probe, pci_probe, virtio_bus_probe,
    arch_pci_probe, virtio_device_reinit, virtio_net_add_dev, Reset, DeviceReset, vars, busVars
<1>5. CASE hart /\ ~Bus
  BY Zenon, <1>1, <1>3, <1>5 DEF hart, liblwip_init, uknetdev_addif, uk_netdev_configure,
    uk_netdev_rxq_configure, uk_netdev_txq_configure, virtio_net_start, virtio_dev_drv_up,
    uk_netdev_start, lwip_main
<1> QED BY <1>4, <1>5 DEF Next, hart, Bus

LEMMA IInvIsStackReady ==
  ASSUME PciAssumption, IInv, AssertsHold
  PROVE  StackReady
<1> USE SlotZero DEF IInv
<1>1. TypeOK
  <2>1. BusTypeOK
    BY Zenon, ListedIsRange DEF BusTypes, BusTypeOK, Names
  <2>2. default \in Slot \cup {NULL}
    BY DEF Stack, IfTypes
  <2>3. devid \in 1 .. Len(netdevs) + 1
    BY Zenon DEF Work
  <2> QED BY Zenon, <2>1, <2>2, <2>3, ListedIsRange DEF TypeOK, IfTypes
<1>2. LiveComplete
  <2>1. ASSUME NEW s \in Slot, "DRIVER_OK" \in status[s]
        PROVE  /\ {"ACK", "DRIVER"} \subseteq status[s] /\ "FAIL" \notin status[s]
               /\ Required \subseteq features[s] /\ queues[s] = {"rx", "tx"}
    <3>1. (Up(s) \/ (pc \in {"started", "netif"} /\ Now(s))) /\ Listed(s)
      BY <2>1, Kinds DEF Todo, Down, Now
    <3>2. {"ACK", "DRIVER"} \subseteq status[s]
      BY Zenon, <3>1 DEF Found
    <3> QED BY <3>1, <3>2 DEF Up, Now
  <2> QED BY <2>1 DEF LiveComplete
<1>3. InterruptTaken
  <2>1. ASSUME NEW s \in intr, "DRIVER_OK" \in status[s]
        PROVE  Up(s)
    <3>1. s \in Slot
      BY DEF IfTypes
    <3> QED BY Zenon, <2>1, <3>1, Kinds DEF Todo, Down, Now
  <2> QED BY <2>1 DEF InterruptTaken, Up
<1>4. StackSound
  <2>1. ASSUME NEW s \in Slot
        PROVE  InStack(s) => state[s] = "RUNNING" /\ <<s, "nf">> \in mem
    BY DEF InStack, Stack, Up
  <2>2. ASSUME NEW s \in Slot, pc \in {"lwip", "main"}, state[s] = "RUNNING" \/ <<s, "nf">> \in mem
        PROVE  InStack(s)
    BY <2>2, Kinds DEF Todo, Down, Up, WorkPcs
  <2>3. pc = "lwip" => Range(netifs) = {s \in Slot : state[s] = "RUNNING"}
    BY Zenon, <2>1, <2>2, ListedIsRange
  <2>4. pc \in {"lwip", "main"} => {m[1] : m \in {x \in mem : x[2] = "nf"}} = Range(netifs)
    <3>1. mem \subseteq Slot \X Names
      BY DEF BusTypes
    <3>2. ASSUME pc \in {"lwip", "main"}, NEW m \in mem, m[2] = "nf"
          PROVE  m[1] \in Range(netifs)
      <4>1. m[1] \in Slot /\ m = <<m[1], "nf">>
        BY <3>1, <3>2
      <4> QED BY <2>2, <3>2, <4>1, ListedIsRange
    <3>3. ASSUME NEW s \in Range(netifs)
          PROVE  \E m \in mem : m[2] = "nf" /\ m[1] = s
      <4>1. <<s, "nf">> \in mem
        BY <2>1, ListedIsRange
      <4> QED BY <4>1
    <3> QED BY <3>2, <3>3
  <2>5. \A j, k \in DOMAIN netifs : j # k => netifs[j] # netifs[k]
    BY ListedIsRange DEF Stack
  <2>6. default = IF netifs = <<>> THEN NULL ELSE netifs[1]
    BY DEF Stack
  <2> QED BY <2>3, <2>4, <2>5, <2>6 DEF StackSound
<1> QED BY <1>1, <1>2, <1>3, <1>4 DEF StackReady

\* Whatever the slots hold and whatever allocation fails: a device that
\* arch_pci_probe cannot add gives back what it took, no two devices share
\* registers, the configuration space is read only once it is mapped, and a
\* device is acknowledged only after its reset.
THEOREM ScanSound == ASSUME PciAssumption PROVE Spec => []BusSound
<1>1. NetInit => IInv
  BY InitInv
<1>2. IInv /\ [Next]_vars => IInv'
  BY Step
<1>3. IInv => BusSound
  BY IInvIsBusSound
<1> QED BY <1>1, <1>2, <1>3, PTL DEF Spec

\* For any number of devices, features and queue sizes, and whatever step of
\* liblwip_init fails: a device goes live only when its initialisation is
\* complete, an interrupt finds its receive path and its netif, and the stack
\* has exactly the devices that run.
THEOREM DevicesUp == ASSUME PciAssumption PROVE Spec => []StackReady
<1>1. NetInit => IInv /\ AssertsHold
  BY Zenon, InitInv DEF NetInit, Init, AssertsHold
<1>2. IInv /\ AssertsHold /\ [Next]_vars => IInv' /\ AssertsHold'
  BY Step, AssertStep
<1>3. IInv /\ AssertsHold => StackReady
  BY IInvIsStackReady
<1> QED BY <1>1, <1>2, <1>3, PTL DEF Spec
=============================================================================
