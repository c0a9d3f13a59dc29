------------------------------ MODULE VirtioNet -----------------------------
(***************************************************************************)
(* The running network device: the receive and transmit paths of           *)
(* virtio_net/virtio_net.c with their interrupt state, and the glue of     *)
(* uk_netdev.c that drives them for lwIP (external).                       *)
(*                                                                         *)
(* Everything in the enclave runs on one hart: pc is where it is in        *)
(* uknetdev_input or uknetdev_output.  The device moves between any two    *)
(* steps; what it can do in the middle of one ring operation is the        *)
(* subject of VirtQueue.  A netbuf is a window [data, data + len) of its   *)
(* buffer, and csum the offset in the window where checksumming starts;    *)
(* vhdr is what the virtio header in front of the packet says of it.       *)
(***************************************************************************)
EXTENDS Vring, SequencesExt

CONSTANTS
  RxNum, TxNum,             \* descriptors of the two queues
  Buf,                      \* netbufs, numbered
  sizeof_hdr,               \* struct virtio_net_hdr
  VTNET_RX_HEADER_PAD,
  VIRTIO_HDR_LEN, UK_ETH_HDR_UNTAGGED_LEN, VIRTIO_PKT_BUFFER_LEN,
  UKNETDEV_BUFLEN, RX_FILLUP_BATCHLEN,
  RxLen,                    \* lengths the device may report
  TxLen,                    \* lengths of packets the stack sends
  Splits,                   \* extra segments of a buffer that crosses pages
  Csum,                     \* checksum starts, NULL for none
  Wired                     \* is virtio_pci_handle registered?

ASSUME NetAssumption ==
  /\ {RxNum, TxNum, sizeof_hdr, RX_FILLUP_BATCHLEN} \subseteq Nat \ {0}
  /\ Buf \subseteq Nat /\ NULL \notin Buf /\ Wired \subseteq BOOLEAN
  /\ Splits \subseteq {0, 1} /\ NULL \in Csum

VARIABLES
  rxq, txq,   \* [vq, intr_en, usr_en] and [vq]
  nb,         \* the netbufs
  own,        \* who has each netbuf
  netif,      \* "new", "up" or "down"
  pc, pkt,    \* where the hart is, and with which packet
  more, underrun,  \* status of the last receive
  irq,        \* the device's interrupt is pending
  dev,        \* [rx, tx: next avail entry; kicked: queues to look at]
  wired,
  frame,      \* history: what the stack sent or the device received
  panicked

vars == <<rxq, txq, nb, own, netif, pc, pkt, more, underrun, irq, dev, wired, frame, panicked>>

header_sz == sizeof_hdr + VTNET_RX_HEADER_PAD
Free(o) == {b \in Buf : o[b] = "free"}
Lowest(S) == CHOOSE b \in S : \A c \in S : b <= c
Lesser(a, b) == IF a < b THEN a ELSE b
blank == [data |-> 0, len |-> 0, csum |-> NULL, vhdr |-> NULL]
NoFrame == [at |-> 0, len |-> 0, csum |-> NULL]

\* uk_netbuf_free_single: what was in the netbufs S is gone.
Freed(S) ==
  /\ nb' = [b \in Buf |-> IF b \in S THEN blank ELSE nb[b]]
  /\ frame' = [b \in Buf |-> IF b \in S THEN NoFrame ELSE frame[b]]

-----------------------------------------------------------------------------
\* uk_netbuf_header: NULL when there is no room.
uk_netbuf_header(b, len) ==
  IF len > b.data \/ -len > b.len THEN NULL
  ELSE [b EXCEPT !.data = @ - len, !.len = @ + len,
                 !.csum = IF @ = NULL \/ @ + len < 0 THEN NULL ELSE @ + len]

Seg(at, len) == [at |-> at, len |-> len]

\* The segments of a header and of a packet, which may cross one page
\* (Sglist has uk_sglist_append).
Segments(hdr_at, at, len, split) ==
  IF split = 0 \/ len < 2 THEN <<Seg(hdr_at, sizeof_hdr), Seg(at, len)>>
  ELSE <<Seg(hdr_at, sizeof_hdr), Seg(at, 1), Seg(at + 1, len - 1)>>

\* s is [vq, nb, own, filled, mem, underrun]; mem is how many netbufs the
\* allocator still has.
virtio_netdev_rxq_enqueue(s, b, split) ==
  LET h == uk_netbuf_header(s.nb[b], header_sz)
      segs == Segments(h.data, s.nb[b].data, s.nb[b].len, split)
  IN IF virtqueue_is_full(s.vq) \/ enqueue_rc(s.vq, Len(segs)) # "ok"
     THEN [s EXCEPT !.underrun = TRUE]
     ELSE [s EXCEPT !.vq = virtqueue_buffer_enqueue(@, b, segs, 0), !.nb[b] = h,
                    !.own[b] = "rx", !.filled = @ + 2]

\* netif_alloc_rxpkts
AllocRx(s) ==
  LET b == Lowest(Free(s.own))
  IN [s EXCEPT !.mem = @ - 1, !.own[b] = "batch",
               !.nb[b] = [data |-> header_sz, len |-> UKNETDEV_BUFLEN - header_sz,
                          csum |-> NULL, vhdr |-> NULL]]

\* One round of the loop of virtio_netdev_rx_fillup.  The first netbuf that
\* does not fit, and all after it, are released.
FillBatch(s, nb_desc, split) ==
  LET req == Lesser(nb_desc \div 2, RX_FILLUP_BATCHLEN)
      cnt == Lesser(req, s.mem)
      alloc[k \in 0 .. cnt] == IF k = 0 THEN s ELSE AllocRx(alloc[k - 1])
      put[k \in 0 .. cnt] ==
        IF k = 0 THEN alloc[cnt]
        ELSE LET t == put[k - 1]
                 b == Lowest({c \in Buf : t.own[c] = "batch"})
                 u == virtio_netdev_rxq_enqueue(t, b, split)
             IN IF t.underrun \/ u.underrun THEN [t EXCEPT !.own[b] = "free", !.nb[b] = blank, !.underrun = TRUE]
                ELSE u
  IN [put[cnt] EXCEPT !.underrun = @ \/ cnt < req]

virtio_netdev_rx_fillup(s, nb_desc, split) ==
  LET n == nb_desc - (nb_desc % 2)
      round[k \in 0 .. RxNum] ==
        IF k = 0 THEN s
        ELSE LET t == round[k - 1]
             IN IF t.filled < n /\ ~t.underrun THEN FillBatch(t, n, split) ELSE t
  IN round[RxNum]

Fill(vq, b, o, mem) ==
  [vq |-> vq, nb |-> b, own |-> o, mem |-> mem, filled |-> 0, underrun |-> FALSE]

-----------------------------------------------------------------------------
\* The queues as uknetdev_init and virtio_net_start leave them; the first
\* fill may have found less memory than it wanted.
Init ==
  /\ \E mem \in 0 .. Cardinality(Buf), split \in Splits :
       LET s == virtio_netdev_rx_fillup(
                  Fill(virtqueue_vring_init(RxNum), [b \in Buf |-> blank],
                       [b \in Buf |-> "free"], mem), RxNum, split)
       IN /\ rxq = [vq |-> virtqueue_intr_disable(s.vq), intr_en |-> FALSE, usr_en |-> FALSE]
          /\ nb = s.nb /\ own = s.own
  /\ txq = [vq |-> virtqueue_intr_disable(virtqueue_vring_init(TxNum))]
  /\ netif = "new" /\ pc = "idle" /\ pkt = NULL /\ more = FALSE /\ underrun = FALSE
  /\ irq = FALSE /\ dev = [rx |-> 0, tx |-> 0, kicked |-> {"rx", "tx"}]
  /\ wired \in Wired
  /\ frame = [b \in Buf |-> NoFrame] /\ panicked = FALSE

virtio_net_rx_intr_enable(q) ==
  IF q.intr_en THEN q
  ELSE [vq |-> virtqueue_intr_enable(q.vq), usr_en |-> TRUE,
        intr_en |-> intr_enable_rc(q.vq) = 0]

virtio_net_rx_intr_disable(q) ==
  [vq |-> virtqueue_intr_disable(q.vq), usr_en |-> FALSE, intr_en |-> FALSE]

\* netif_set_up, and uknetdev_updown: with packets in the queue it polls.
uknetdev_updown ==
  /\ pc = "idle" /\ netif = "new" /\ netif' = "up"
  /\ rxq' = virtio_net_rx_intr_enable(rxq)
  /\ pc' = IF intr_enable_rc(rxq.vq) = 1 THEN "recv" ELSE "idle"
  /\ UNCHANGED <<txq, nb, own, pkt, more, underrun, irq, dev, wired, frame, panicked>>

\* virtio_pci_handle, virtqueue_ring_interrupt and virtio_netdev_recv_done;
\* the transmit queue has no callback.
virtio_pci_handle ==
  /\ wired /\ irq /\ irq' = FALSE /\ pc = "idle"
  /\ IF virtqueue_hasdata(rxq.vq)
     THEN rxq' = [rxq EXCEPT !.vq = virtqueue_intr_disable(@), !.intr_en = FALSE] /\ pc' = "recv"
     ELSE UNCHANGED <<rxq, pc>>
  /\ UNCHANGED <<txq, nb, own, netif, pkt, more, underrun, dev, wired, frame, panicked>>

LenOK(len) ==
  len >= VIRTIO_HDR_LEN + UK_ETH_HDR_UNTAGGED_LEN /\ len <= VIRTIO_PKT_BUFFER_LEN

\* Faulty variant: the pad is not compensated for.
dequeued_no_pad(b, len) ==
  uk_netbuf_header([b EXCEPT !.len = len,
                             !.csum = IF b.vhdr = NULL THEN NULL ELSE b.vhdr + header_sz],
                   -header_sz)

\* What virtio_netdev_rxq_dequeue makes of a netbuf.
dequeued(b, len) ==
  uk_netbuf_header([b EXCEPT !.len = len + VTNET_RX_HEADER_PAD,
                             !.csum = IF b.vhdr = NULL THEN NULL ELSE b.vhdr + header_sz],
                   -header_sz)

\* virtio_netdev_recv up to virtqueue_intr_enable: the queue is empty, or a
\* packet is taken and its descriptors are filled again.
RecvDequeue ==
  /\ pc = "recv" /\ panicked' = (panicked \/ rxq.intr_en)
  /\ \/ /\ ~virtqueue_hasdata(rxq.vq)
        /\ pkt' = NULL /\ underrun' = FALSE /\ pc' = "enable"
        /\ UNCHANGED <<rxq, nb, own, netif, dev>>
     \/ /\ virtqueue_hasdata(rxq.vq)
        /\ LET len == dequeue_elem(rxq.vq).len
               b == dequeue_cookie(rxq.vq)
               vq == virtqueue_buffer_dequeue(rxq.vq)
           IN \/ /\ LenOK(len)
                 /\ \E mem \in 0 .. Cardinality(Free(own)), split \in Splits :
                      LET s == virtio_netdev_rx_fillup(
                                 Fill(vq, [nb EXCEPT ![b] = dequeued(@, len)],
                                      [own EXCEPT ![b] = "hand"], mem),
                                 RxNum - UsedSlots(vq), split)
                      IN /\ rxq' = [rxq EXCEPT !.vq = s.vq]
                         /\ nb' = s.nb /\ own' = s.own /\ underrun' = s.underrun
                         /\ dev' = IF s.filled > 0
                                   THEN [dev EXCEPT !.kicked = @ \cup {"rx"}] ELSE dev
                 /\ pkt' = b /\ pc' = "enable" /\ UNCHANGED netif
              \* An error: uknetdev_input sets the interface down, and
              \* uknetdev_updown turns the interrupt off.
              \/ /\ ~LenOK(len)
                 /\ rxq' = virtio_net_rx_intr_disable([rxq EXCEPT !.vq = vq])
                 /\ own' = [own EXCEPT ![b] = "lost"] /\ netif' = "down"
                 /\ pkt' = NULL /\ pc' = "idle" /\ underrun' = FALSE
                 /\ UNCHANGED <<nb, dev>>
  /\ more' = FALSE
  /\ UNCHANGED <<txq, irq, wired, frame>>

\* Faulty variant: the interrupt stays off after the last packet.
RecvEnable_once ==
  /\ pc = "enable"
  /\ pc' = "input" /\ more' = (pkt # NULL /\ virtqueue_hasdata(rxq.vq))
  /\ UNCHANGED <<rxq, txq, nb, own, netif, pkt, underrun, irq, dev, wired, frame, panicked>>

\* The rest of it.  A packet that came after an empty queue was seen is taken
\* in a second round.
RecvEnable ==
  /\ pc = "enable"
  /\ rxq' = IF rxq.usr_en THEN [rxq EXCEPT !.vq = virtqueue_intr_enable(@)] ELSE rxq
  /\ pc' = IF rxq.usr_en /\ intr_enable_rc(rxq.vq) = 1 /\ pkt = NULL THEN "recv" ELSE "input"
  /\ more' = (pkt # NULL /\ (rxq.usr_en => intr_enable_rc(rxq.vq) = 1))
  /\ UNCHANGED <<txq, nb, own, netif, pkt, underrun, irq, dev, wired, frame, panicked>>

\* uknetdev_input after a receive: lwIP takes the packet or refuses it.
uknetdev_input ==
  /\ pc = "input"
  /\ \/ pkt = NULL /\ pc' = "idle" /\ UNCHANGED <<own, nb, frame>>
     \/ /\ pkt # NULL /\ pc' = IF more THEN "recv" ELSE "idle"
        /\ \/ own' = [own EXCEPT ![pkt] = "stack"] /\ UNCHANGED <<nb, frame>>
           \/ own' = [own EXCEPT ![pkt] = "free"] /\ Freed({pkt})
  /\ pkt' = NULL /\ more' = FALSE /\ underrun' = FALSE
  /\ UNCHANGED <<rxq, txq, netif, irq, dev, wired, panicked>>

\* pbuf_free of lwIP.
StackFree(b) ==
  /\ pc = "idle" /\ own[b] = "stack" /\ own' = [own EXCEPT ![b] = "free"] /\ Freed({b})
  /\ UNCHANGED <<rxq, txq, netif, pc, pkt, more, underrun, irq, dev, wired, panicked>>

-----------------------------------------------------------------------------
\* uknetdev_output up to its loop.  Without memory, or with a packet longer
\* than a buffer, it returns and nothing has changed.  liblwip_init has set the
\* netif up before the stack sends.
uknetdev_output(len) ==
  /\ pc = "idle" /\ netif # "new" /\ Free(own) # {} /\ len <= UKNETDEV_BUFLEN - header_sz
  /\ LET b == Lowest(Free(own))
     IN /\ pkt' = b /\ own' = [own EXCEPT ![b] = "hand"]
        /\ nb' = [nb EXCEPT ![b] = [data |-> header_sz, len |-> len, csum |-> NULL,
                                    vhdr |-> NULL]]
        /\ frame' = [frame EXCEPT ![b] = [at |-> header_sz, len |-> len, csum |-> NULL]]
  /\ pc' = "free"
  /\ UNCHANGED <<rxq, txq, netif, more, underrun, irq, dev, wired, panicked>>

InRing(vq) == {vq.info[i].cookie : i \in InFlight(vq)}

\* Faulty variant: the ring gets its descriptors back, the netbuf is kept.
virtio_netdev_xmit_free_leak ==
  /\ pc = "free"
  /\ IF virtqueue_hasdata(txq.vq)
     THEN txq' = [vq |-> virtqueue_buffer_dequeue(txq.vq)] /\ UNCHANGED <<own, nb, frame, pc>>
     ELSE pc' = "xmit" /\ UNCHANGED <<txq, own, nb, frame>>
  /\ UNCHANGED <<rxq, netif, pkt, more, underrun, irq, dev, wired, panicked>>

\* One round of the loop of virtio_netdev_xmit_free.
virtio_netdev_xmit_free ==
  /\ pc = "free"
  /\ IF virtqueue_hasdata(txq.vq)
     THEN LET b == dequeue_cookie(txq.vq)
          IN /\ txq' = [vq |-> virtqueue_buffer_dequeue(txq.vq)]
             /\ own' = [own EXCEPT ![b] = "free"] /\ Freed({b}) /\ UNCHANGED pc
     ELSE pc' = "xmit" /\ UNCHANGED <<txq, own, nb, frame>>
  /\ UNCHANGED <<rxq, netif, pkt, more, underrun, irq, dev, wired, panicked>>

\* What is left of the netbuf when the ring has no room.
xmit_full(b, h) == uk_netbuf_header(h, -header_sz)

\* The rest of virtio_netdev_xmit, once round the loop of uknetdev_output.
virtio_netdev_xmit(split) ==
  /\ pc = "xmit"
  /\ LET h == uk_netbuf_header(nb[pkt], header_sz)
         vhdr == IF h.csum = NULL THEN NULL ELSE h.csum - header_sz
         segs == Segments(h.data, nb[pkt].data, nb[pkt].len, split)
         rc == IF h = NULL \/ sizeof_hdr + nb[pkt].len > VIRTIO_PKT_BUFFER_LEN THEN "error"
               ELSE enqueue_rc(txq.vq, Len(segs))
     IN \/ /\ rc = "ok"
           /\ txq' = [vq |-> virtqueue_buffer_enqueue(txq.vq, pkt, segs, Len(segs))]
           /\ own' = [own EXCEPT ![pkt] = "tx"]
           /\ nb' = [nb EXCEPT ![pkt] = [h EXCEPT !.vhdr = vhdr]]
           /\ dev' = [dev EXCEPT !.kicked = @ \cup {"tx"}]
           /\ pc' = "idle" /\ pkt' = NULL /\ UNCHANGED frame
        \/ /\ rc = "ENOSPC"
           /\ nb' = [nb EXCEPT ![pkt] = xmit_full(@, h)] /\ pc' = "free"
           /\ UNCHANGED <<txq, own, dev, pkt, frame>>
        \/ /\ rc \in {"error", "EINVAL"}
           /\ own' = [own EXCEPT ![pkt] = "free"] /\ Freed({pkt})
           /\ pc' = "idle" /\ pkt' = NULL /\ UNCHANGED <<txq, dev>>
  /\ UNCHANGED <<rxq, netif, more, underrun, irq, wired, panicked>>

-----------------------------------------------------------------------------
(* The device (external).                                                  *)

DeviceReceive(len, csum) ==
  /\ "rx" \in dev.kicked /\ dev.rx # rxq.vq.avail.idx
  /\ LET head == AvailHead(rxq.vq, dev.rx)
         b == rxq.vq.info[head].cookie
         data == ChainAt(rxq.vq, head)[2].seg
     IN /\ rxq' = [rxq EXCEPT !.vq = device_publish(device_elem(@, head, len))]
        /\ nb' = [nb EXCEPT ![b].vhdr = csum]
        /\ frame' = [frame EXCEPT ![b] = [at |-> data.at, len |-> len - sizeof_hdr,
                                          csum |-> csum]]
  /\ csum # NULL => csum < len - sizeof_hdr
  /\ irq' = (irq \/ ~rxq.vq.avail.no_interrupt)
  /\ dev' = [dev EXCEPT !.rx = Inc(@)]
  /\ UNCHANGED <<txq, own, netif, pc, pkt, more, underrun, wired, panicked>>

DeviceSend ==
  /\ "tx" \in dev.kicked /\ dev.tx # txq.vq.avail.idx
  /\ LET head == AvailHead(txq.vq, dev.tx)
     IN txq' = [vq |-> device_publish(device_elem(txq.vq, head, 0))]
  /\ dev' = [dev EXCEPT !.tx = Inc(@)]
  /\ UNCHANGED <<rxq, nb, own, netif, pc, pkt, more, underrun, irq, wired, frame, panicked>>

\* With nothing to do the device waits to be notified.
DeviceRest ==
  /\ \/ /\ "rx" \in dev.kicked /\ dev.rx = rxq.vq.avail.idx
        /\ dev' = [dev EXCEPT !.kicked = @ \ {"rx"}]
     \/ /\ "tx" \in dev.kicked /\ dev.tx = txq.vq.avail.idx
        /\ dev' = [dev EXCEPT !.kicked = @ \ {"tx"}]
  /\ UNCHANGED <<rxq, txq, nb, own, netif, pc, pkt, more, underrun, irq, wired, frame, panicked>>

Receiving == virtio_pci_handle \/ RecvDequeue \/ RecvEnable \/ uknetdev_input
Sending == virtio_netdev_xmit_free \/ \E split \in Splits : virtio_netdev_xmit(split)

Next ==
  \/ uknetdev_updown \/ Receiving \/ Sending
  \/ \E len \in TxLen : uknetdev_output(len)
  \/ \E b \in Buf : StackFree(b)
  \/ \E len \in RxLen, csum \in Csum : DeviceReceive(len, csum)
  \/ DeviceSend \/ DeviceRest

\* Weak fairness of the hart's steps inside a call, written out: one is possible
\* whenever pc is not "idle", and these steps alone change pc or own then.
HartGoesOn == []<>(pc = "idle") \/ []<><<pc # "idle" /\ <<pc', own'>> # <<pc, own>>>>_vars

\* The hart goes on, an interrupt is taken when it is idle often enough, and
\* the device sends what it is given.
Fairness ==
  HartGoesOn /\ WF_vars(uknetdev_updown) /\ SF_vars(virtio_pci_handle) /\ WF_vars(DeviceSend)

Spec == Init /\ [][Next]_vars /\ Fairness
-----------------------------------------------------------------------------
\* Type invariant.
TypeOK ==
  /\ own \in [Buf -> {"free", "rx", "tx", "hand", "stack", "lost"}]
  /\ netif \in {"new", "up", "down"}
  /\ pc \in {"idle", "recv", "enable", "input", "free", "xmit"} /\ pkt \in Buf \cup {NULL}
  /\ {more, underrun, irq, wired} \subseteq BOOLEAN /\ dev.kicked \subseteq {"rx", "tx"}
  /\ \A b \in Buf : nb[b].data \in 0 .. UKNETDEV_BUFLEN /\ nb[b].len \in 0 .. UKNETDEV_BUFLEN

\* A netbuf has one owner: it is in a ring exactly when the driver has put it
\* there, both rings are whole, and the only way to lose one is the error that
\* also takes the interface down.  And "Queue interrupts have to be off when
\* calling receive" (virtio_net.c:578) holds on every way into the driver.
OneOwner ==
  /\ TypeOK
  /\ InRing(rxq.vq) = {b \in Buf : own[b] = "rx"}
  /\ InRing(txq.vq) = {b \in Buf : own[b] = "tx"}
  /\ Partitioned(rxq.vq) /\ Partitioned(txq.vq)
  /\ {b \in Buf : own[b] = "hand"} = {pkt} \ {NULL}
  /\ \A b \in Buf : own[b] = "lost" => netif = "down"
  /\ ~panicked

\* What the stack gets is what the device received, and what the device finds
\* in the transmit ring is what the stack sent: same place, length and
\* checksum start, through headers put on and taken off, and retries.
FrameExact ==
  /\ \A b \in Buf : own[b] = "stack" \/ (own[b] = "hand" /\ pc \in {"enable", "input"}) =>
       frame[b] = [at |-> nb[b].data, len |-> nb[b].len, csum |-> nb[b].csum]
  /\ \A i \in InFlight(txq.vq) :
       LET c == ChainAt(txq.vq, i)
           b == txq.vq.info[i].cookie
       IN frame[b] = [at |-> c[2].seg.at, csum |-> nb[b].vhdr,
                      len |-> c[2].seg.len + IF Len(c) = 3 THEN c[3].seg.len ELSE 0]

\* uknetdev_output returns, though it holds the hart until the ring has room.
\* With virtio_pci_handle registered, what the device has received reaches
\* uknetdev_input, unless the interface goes down: the receive path never goes
\* to sleep on a packet.
CallsProgress ==
  /\ pc = "free" ~> pc = "idle"
  /\ wired /\ virtqueue_hasdata(rxq.vq) ~> (pc = "recv" \/ netif = "down")

\* "It handles any received packets" (lwip_main.c:40): not without the handler
\* and the poll, which the code has commented out.
ReceivedHandled ==
  virtqueue_hasdata(rxq.vq) ~> (pc = "recv" \/ netif = "down")

\* "UK_NETDEV_STATUS_UNDERRUN: Informs that some available slots of the
\* receive queue could not be programmed" (netdev.h:468).
UnderrunTrue == pc = "enable" /\ underrun => rxq.vq.desc_avail >= 2
=============================================================================
