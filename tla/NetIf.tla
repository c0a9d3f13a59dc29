-------------------------------- MODULE NetIf -------------------------------
(***************************************************************************)
(* How a network device that PciBus has found is brought up: liblwip_init  *)
(* (lwip_init.c) probes it and attaches it to the stack with               *)
(* uknetdev_addif and uknetdev_init (uk_netdev.c), through the network     *)
(* device API (netdev.c, netdev.h) and the set-up functions of the         *)
(* virtio-net driver (virtio_net.c) and of virtio_pci.c.  Any allocation   *)
(* may fail, and a device may offer any features and queue sizes.          *)
(***************************************************************************)
EXTENDS PciBus

CONSTANTS
  Offers,   \* sets of features a device may offer
  Sizes     \* sizes its queues may have; 0 for no queue

VARIABLES
  state,    \* slot to the state of the network device
  offer,    \* slot to the features its device offers
  sizes,    \* slot to the sizes of the two queues of its device
  features, \* slot to the features the driver has set
  queues,   \* slot to the queues the device has been told of
  cookie,   \* slot to the netif of its receive handler (rxq_handler)
  intr,     \* slots whose receive queue lets the device interrupt
  netifs,   \* the netifs of the stack that are up, in the order they were added
  default,  \* the default netif
  devid     \* devid + 1 in liblwip_init

hwVars == <<offer, sizes>>
ifVars == <<state, offer, sizes, features, queues, cookie, intr, netifs, default, devid>>
vars == <<busVars, ifVars>>

\* What does not change after the scan.
scanned == <<hw, buses, drivers, at, pcw, pfoom, slot, bar, netdevs, word, einfo>>

NetInit ==
  /\ Init
  /\ state = [s \in Slot |-> "UNPROBED"]
  /\ offer \in [Slot -> Offers \cup {{}}] /\ sizes \in [Slot -> Sizes \X Sizes]
  /\ \A s \in Slot : IF hw[s] = "net" THEN offer[s] # {} ELSE offer[s] = {} /\ sizes[s] = <<0, 0>>
  /\ features = [s \in Slot |-> {}] /\ queues = [s \in Slot |-> {}]
  /\ cookie = [s \in Slot |-> NULL]
  /\ intr = {} /\ netifs = <<>> /\ default = NULL /\ devid = 1

Reset == DeviceReset /\ UNCHANGED ifVars
Bus == BusHart /\ UNCHANGED ifVars

dev == netdevs[devid]
NextDevice == devid' = devid + 1 /\ pc' = "lwip"

-----------------------------------------------------------------------------
\* virtio_netdev_feature_negotiate: the two features it cannot do without,
\* and those it sets.
Required == {"MAC", "STATUS"}
drv_features(o) ==
  Required \cup {"GUEST_ANNOUNCE"} \cup (IF "CSUM" \in o THEN {"CSUM", "GUEST_CSUM"} ELSE {})

\* A required feature is missing: liblwip_init goes on with the next device.
probe_failed ==
  /\ vpci_legacy_pci_status_set(dev, {"FAIL"})
  /\ NextDevice /\ UNCHANGED <<state, features>>

uk_netdev_probe ==
  \/ /\ Required \subseteq offer[dev]
     /\ features' = [features EXCEPT ![dev] = drv_features(offer[dev])]
     /\ state' = [state EXCEPT ![dev] = "UNCONFIGURED"]
     /\ pc' = "addif" /\ UNCHANGED <<devid, status>>
  \/ ~(Required \subseteq offer[dev]) /\ probe_failed

\* One round of liblwip_init up to uknetdev_addif.  Each device comes once, so
\* none is met that is configured already.
liblwip_init ==
  /\ pc = "lwip" /\ devid <= Len(netdevs)
  /\ state[dev] = "UNPROBED" /\ uk_netdev_probe
  /\ UNCHANGED <<scanned, mem, panicked, hwVars, queues, cookie, intr, netifs, default>>

\* uknetdev_addif up to uknetdev_init: no memory for the netif, or on.
uknetdev_addif ==
  /\ pc = "addif"
  /\ \/ NextDevice /\ UNCHANGED mem
     \/ mem' = mem \cup {<<dev, "nf">>} /\ pc' = "configure" /\ UNCHANGED devid
  /\ UNCHANGED <<scanned, status, panicked, state, hwVars, features, queues, cookie, intr,
                 netifs, default>>

\* uknetdev_init fails and got is what it had allocated: netif_add leaves the
\* netif out, uknetdev_addif frees it and liblwip_init goes on.
InitFails(got) == mem' = (mem \cup got) \ {<<dev, "nf">>} /\ NextDevice

\* Are both queues there?
vpci_legacy_pci_vq_find == sizes[dev][1] # 0 /\ sizes[dev][2] # 0

\* What is allocated when it fails: the error path frees the pointers that are
\* NULL.
virtio_netdev_rxtx_alloc(got, ok) ==
  LET Both == {<<dev, "rxqs">>, <<dev, "txqs">>}
  IN got \subseteq Both /\ (ok <=> got = Both /\ vpci_legacy_pci_vq_find)

uk_netdev_configure ==
  /\ pc = "configure" /\ state[dev] = "UNCONFIGURED"
  /\ \E got \in SUBSET {<<dev, "rxqs">>, <<dev, "txqs">>} :
       \/ virtio_netdev_rxtx_alloc(got, FALSE) /\ InitFails(got) /\ UNCHANGED state
       \/ /\ virtio_netdev_rxtx_alloc(got, TRUE) /\ mem' = mem \cup got
          /\ state' = [state EXCEPT ![dev] = "CONFIGURED"]
          /\ pc' = "rxq" /\ UNCHANGED devid
  /\ UNCHANGED <<scanned, status, panicked, hwVars, features, queues, cookie, intr, netifs,
                 default>>

\* The number of descriptors is a power of 2, and there is memory for the ring.
PowerOfTwo(n) == \E k \in 0 .. n : n = 2 ^ k
vpci_legacy_vq_setup(q) == queues' = [queues EXCEPT ![dev] = @ \cup {q}]
virtio_netdev_vqueue_setup(n, q) == PowerOfTwo(n) /\ vpci_legacy_vq_setup(q)

\* The ring is zeroed: the device may interrupt.
virtio_netdev_rx_queue_setup ==
  virtio_netdev_vqueue_setup(sizes[dev][1], "rx") /\ intr' = intr \cup {dev}
virtio_netdev_tx_queue_setup == virtio_netdev_vqueue_setup(sizes[dev][2], "tx")

\* The handler is set before the queue is made and stays when it cannot be.
uk_netdev_rxq_configure ==
  /\ pc = "rxq" /\ state[dev] = "CONFIGURED" /\ "rx" \notin queues[dev]
  /\ cookie' = [cookie EXCEPT ![dev] = dev]
  /\ \/ InitFails({}) /\ UNCHANGED <<queues, intr>>
     \/ virtio_netdev_rx_queue_setup /\ pc' = "txq" /\ UNCHANGED <<mem, devid>>
  /\ UNCHANGED <<scanned, status, panicked, state, hwVars, features, netifs, default>>

\* Faulty variant: a device without a transmit queue is started.
uk_netdev_txq_configure_on ==
  /\ pc = "txq" /\ state[dev] = "CONFIGURED" /\ "tx" \notin queues[dev]
  /\ virtio_netdev_tx_queue_setup \/ UNCHANGED queues
  /\ pc' = "start"
  /\ UNCHANGED <<scanned, mem, devid, status, panicked, state, hwVars, features, cookie, intr,
                 netifs, default>>

uk_netdev_txq_configure ==
  /\ pc = "txq" /\ state[dev] = "CONFIGURED" /\ "tx" \notin queues[dev]
  /\ \/ InitFails({}) /\ UNCHANGED queues
     \/ virtio_netdev_tx_queue_setup /\ pc' = "start" /\ UNCHANGED <<mem, devid>>
  /\ UNCHANGED <<scanned, status, panicked, state, hwVars, features, cookie, intr, netifs,
                 default>>

\* virtio_net_start up to virtio_dev_drv_up: the interrupts are disabled.
virtio_net_start ==
  /\ pc = "start" /\ state[dev] = "CONFIGURED" /\ pc' = "live"
  /\ intr' = intr \ {dev}
  /\ UNCHANGED <<scanned, mem, status, panicked, state, hwVars, features, queues, cookie, netifs,
                 default, devid>>

virtio_dev_drv_up ==
  /\ pc = "live" /\ pc' = "started"
  /\ vpci_legacy_pci_status_set(dev, {"DRIVER_OK"})
  /\ UNCHANGED <<scanned, mem, panicked, ifVars>>

\* The rest of uk_netdev_start.
uk_netdev_start ==
  /\ pc = "started" /\ pc' = "netif"
  /\ state' = [state EXCEPT ![dev] = "RUNNING"]
  /\ UNCHANGED <<scanned, mem, status, panicked, hwVars, features, queues, cookie, intr, netifs,
                 default, devid>>

\* Declare the first network device as default interface.
netif_set_default == default' = IF netifs = <<>> THEN dev ELSE default

\* What uk_netdev_hwaddr_get and uk_netdev_mtu_get assert for the rest of
\* uknetdev_init, and uk_netdev_rxq_intr_enable for uknetdev_updown.
uk_netdev_hwaddr_get == state[dev] \in {"CONFIGURED", "RUNNING"}
uk_netdev_rxq_intr_enable == state[dev] = "RUNNING" /\ "rx" \in queues[dev]

\* The status callback of netif_set_up.
uknetdev_updown == intr' = intr \cup {dev}

\* The rest of uknetdev_init and of the round of liblwip_init.
netif_set_up ==
  /\ pc = "netif"
  /\ IF uk_netdev_hwaddr_get /\ uk_netdev_rxq_intr_enable
     THEN /\ netif_set_default /\ netifs' = Append(netifs, dev)
          /\ uknetdev_updown /\ NextDevice /\ UNCHANGED panicked
     ELSE panicked' = TRUE /\ pc' = "panic" /\ UNCHANGED <<netifs, default, intr, devid>>
  /\ UNCHANGED <<scanned, mem, status, state, hwVars, features, queues, cookie>>

\* liblwip_init returns.
lwip_main ==
  /\ pc = "lwip" /\ devid > Len(netdevs) /\ pc' = "main"
  /\ UNCHANGED <<scanned, mem, status, panicked, ifVars>>

hart ==
  \/ Bus \/ liblwip_init \/ uknetdev_addif \/ uk_netdev_configure \/ uk_netdev_rxq_configure
  \/ uk_netdev_txq_configure \/ virtio_net_start \/ virtio_dev_drv_up \/ uk_netdev_start
  \/ netif_set_up \/ lwip_main

Next == hart \/ Reset

Spec == NetInit /\ [][Next]_vars

-----------------------------------------------------------------------------
\* Type invariant.
TypeOK ==
  /\ BusTypeOK
  /\ state \in [Slot -> {"UNPROBED", "UNCONFIGURED", "CONFIGURED", "RUNNING"}]
  /\ queues \in [Slot -> SUBSET {"rx", "tx"}] /\ cookie \in [Slot -> Slot \cup {NULL}]
  /\ intr \subseteq Slot /\ Range(netifs) \subseteq Slot /\ default \in Slot \cup {NULL}
  /\ devid \in 1 .. Len(netdevs) + 1

\* Whenever a device may interrupt, the receive path is ready for it, although
\* the handler of a netif that was freed stays and a new ring allows
\* interrupts: uk_netdev_rx_one finds the device running and its queue made,
\* and the netif of the handler is allocated.
InterruptTaken ==
  \A s \in intr : "DRIVER_OK" \in status[s] =>
    /\ state[s] = "RUNNING" /\ "rx" \in queues[s]
    /\ cookie[s] = s /\ <<s, "nf">> \in mem

\* A device goes live only after each step of its initialisation has
\* succeeded, whatever step failed for it or for another device before.
LiveComplete ==
  \A s \in Slot : "DRIVER_OK" \in status[s] =>
    /\ {"ACK", "DRIVER"} \subseteq status[s] /\ "FAIL" \notin status[s]
    /\ Required \subseteq features[s] /\ queues[s] = {"rx", "tx"}

\* The stack has the devices that run, each once and with its netif, and
\* the default netif is the one added first.
StackSound ==
  /\ pc = "lwip" => Range(netifs) = {s \in Slot : state[s] = "RUNNING"}
  /\ \A j, k \in DOMAIN netifs : j # k => netifs[j] # netifs[k]
  /\ pc \in {"lwip", "main"} => {m[1] : m \in {x \in mem : x[2] = "nf"}} = Range(netifs)
  /\ default = IF netifs = <<>> THEN NULL ELSE netifs[1]

\* What the functions of netdev.c assert of the state of a device holds when
\* they are called, given an allocator for the scan.
AssertsHold == PhaSet => ~panicked

\* A device is live when all of its initialisation succeeded, its interrupts
\* find the receive path ready, the stack has exactly the devices that run, and
\* no assertion fails on the way.
StackReady == TypeOK /\ LiveComplete /\ InterruptTaken /\ StackSound /\ AssertsHold

\* 'write the subset of feature bits understood by the OS and driver to the
\* device' (virtio_net.c:881): the driver asks for nothing that the device has
\* not offered.
FeaturesSubset == \A s \in Slot : features[s] \subseteq offer[s]

\* 'err_free_txrx:' (virtio_net.c:1035): what rxtx_alloc has allocated is freed
\* when it fails.
RxtxFreed ==
  \A s \in Slot : state[s] = "UNCONFIGURED" => mem \cap {<<s, "rxqs">>, <<s, "txqs">>} = {}

\* 'Remember the reference to the ip address for successive calls'
\* (netdev.c:64): an address is given to one device only.
AddressesApart ==
  \A s, t \in Range(netdevs) : einfo[s] # NULL /\ einfo[s] = einfo[t] => s = t
=============================================================================
