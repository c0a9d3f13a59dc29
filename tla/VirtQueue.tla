----------------------------- MODULE VirtQueue ------------------------------
(***************************************************************************)
(* One virtqueue with its driver and its device running at the same time.  *)
(*                                                                         *)
(* The driver is a thread that hands over buffers, takes back finished     *)
(* ones, turns the interrupt on when there is nothing left and then sleeps *)
(* until it comes; it may hand over buffers while it sleeps.  A driver     *)
(* call is cut where the other side can see the difference: before the     *)
(* avail index is advanced, before the notify flag is read, and before and *)
(* after the no-interrupt flag is cleared.                                 *)
(* The device is external; it takes chains from the avail ring, finishes   *)
(* them in any order, and sleeps when it finds nothing.                    *)
(***************************************************************************)
EXTENDS Vring

CONSTANTS
  Num,        \* descriptors of the queue
  Buf,        \* cookies
  Shapes,     \* <<read_bufs, write_bufs>> the user enqueues
  Length      \* lengths the device may write

ASSUME QueueAssumption ==
  /\ Num \in Nat \ {0} /\ IdxMod \in Nat /\ IdxMod % Num = 0 /\ IdxMod > Num
  /\ VIRTQUEUE_MAX_SIZE \notin 0 .. Num - 1 /\ NULL \notin Buf

VARIABLES
  vq,      \* the queue
  pc,      \* "run", "publish", "notify", "enable" or "recheck"
  asleep,  \* the driver waits for the interrupt
  irq,     \* the interrupt is pending
  dev,     \* [last_avail, chains, awake, recheck, wrote, raised]
  shape    \* history: the segments of each buffer in flight

vars == <<vq, pc, asleep, irq, dev, shape>>

Segs(b, s) == [k \in 1 .. s[1] + s[2] |-> <<b, k>>]
Cookies == {vq.info[i].cookie : i \in InFlight(vq)}

Init ==
  /\ vq = virtqueue_intr_disable(virtqueue_vring_init(Num))
  /\ pc = "run" /\ asleep = FALSE /\ irq = FALSE
  /\ dev = [last_avail |-> 0, chains |-> [i \in {} |-> <<>>], awake |-> FALSE,
            recheck |-> FALSE, wrote |-> FALSE, raised |-> TRUE]
  /\ shape = [b \in Buf |-> <<0, 0>>]

-----------------------------------------------------------------------------
(* The driver.                                                             *)

\* A buffer that is refused leaves everything as it is.
Enqueue(b, s) ==
  /\ pc = "run" /\ b \notin Cookies
  /\ enqueue_rc(vq, s[1] + s[2]) = "ok"
  /\ vq' = enqueue_unpublished(vq, b, Segs(b, s), s[1])
  /\ shape' = [shape EXCEPT ![b] = s]
  /\ pc' = "publish"
  /\ UNCHANGED <<asleep, irq, dev>>

virtqueue_ring_update_avail ==
  /\ pc = "publish"
  /\ vq' = publish(vq) /\ pc' = "notify"
  /\ UNCHANGED <<asleep, irq, dev, shape>>

virtqueue_host_notify ==
  /\ pc = "notify" /\ pc' = "run"
  /\ dev' = [dev EXCEPT !.awake = @ \/ virtqueue_notify_enabled(vq)]
  /\ UNCHANGED <<vq, asleep, irq, shape>>

Dequeue ==
  /\ pc = "run" /\ ~asleep /\ virtqueue_hasdata(vq)
  /\ vq' = virtqueue_buffer_dequeue(vq)
  /\ UNCHANGED <<pc, asleep, irq, dev, shape>>

\* virtqueue_intr_enable, after a dequeue that found nothing: the first look
\* at the used ring, and the interrupt turned on.
IntrEnable ==
  /\ pc = "run" /\ ~asleep /\ ~virtqueue_hasdata(vq)
  /\ pc' = "enable"
  /\ UNCHANGED <<vq, asleep, irq, dev, shape>>

intr_enable_flag ==
  /\ pc = "enable" /\ pc' = "recheck"
  /\ vq' = IntrOn(vq)
  /\ UNCHANGED <<asleep, irq, dev, shape>>

\* Faulty variant: the used ring is not looked at again.
intr_enable_recheck_missing ==
  /\ pc = "recheck" /\ pc' = "run"
  /\ asleep' = TRUE /\ UNCHANGED vq
  /\ UNCHANGED <<irq, dev, shape>>

\* Faulty variant: it waits for the data to go away instead of returning 1.
intr_enable_recheck_waits ==
  /\ pc = "recheck"
  /\ \/ virtqueue_hasdata(vq) /\ UNCHANGED <<pc, asleep>>
     \/ ~virtqueue_hasdata(vq) /\ asleep' = TRUE /\ pc' = "run"
  /\ UNCHANGED <<vq, irq, dev, shape>>

\* The rest of it; the user sleeps when it returns 0.
intr_enable_recheck ==
  /\ pc = "recheck" /\ pc' = "run"
  /\ \/ /\ virtqueue_hasdata(vq)
        /\ vq' = virtqueue_intr_disable(vq) /\ UNCHANGED asleep
     \/ /\ ~virtqueue_hasdata(vq)
        /\ asleep' = TRUE /\ UNCHANGED vq
  /\ UNCHANGED <<irq, dev, shape>>

\* The callback, virtio_netdev_recv_done, turns the interrupt off.
virtqueue_ring_interrupt ==
  /\ irq /\ irq' = FALSE /\ pc = "run"
  /\ IF virtqueue_hasdata(vq)
     THEN vq' = virtqueue_intr_disable(vq) /\ asleep' = FALSE
     ELSE UNCHANGED <<vq, asleep>>
  /\ UNCHANGED <<pc, dev, shape>>

-----------------------------------------------------------------------------
(* The device (external).                                                  *)

Pending == dev.last_avail # vq.avail.idx

DeviceTake ==
  /\ dev.awake /\ Pending
  /\ LET h == AvailHead(vq, dev.last_avail)
     IN dev' = [dev EXCEPT !.last_avail = Inc(@), !.recheck = FALSE,
                           !.chains = [i \in DOMAIN @ \cup {h} |->
                                        IF i = h THEN ChainAt(vq, h) ELSE @[i]]]
  /\ vq' = [vq EXCEPT !.used.no_notify = TRUE]
  /\ UNCHANGED <<pc, asleep, irq, shape>>

\* Nothing to take: ask for notifications, look again, sleep.
DeviceRest ==
  /\ dev.awake /\ ~Pending
  /\ \/ /\ ~dev.recheck /\ dev' = [dev EXCEPT !.recheck = TRUE]
        /\ vq' = [vq EXCEPT !.used.no_notify = FALSE]
     \/ /\ dev.recheck /\ dev' = [dev EXCEPT !.recheck = FALSE, !.awake = FALSE]
        /\ UNCHANGED vq
  /\ UNCHANGED <<pc, asleep, irq, shape>>

\* A chain is finished: its element, then the index, then the interrupt.
DeviceWrite(h) ==
  /\ h \in DOMAIN dev.chains /\ ~dev.wrote /\ dev.raised
  /\ \E len \in Length : vq' = device_elem(vq, h, len)
  /\ dev' = [dev EXCEPT !.wrote = TRUE,
                        !.chains = [i \in DOMAIN @ \ {h} |-> @[i]]]
  /\ UNCHANGED <<pc, asleep, irq, shape>>

DevicePublish ==
  /\ dev.wrote /\ vq' = device_publish(vq)
  /\ dev' = [dev EXCEPT !.wrote = FALSE, !.raised = FALSE]
  /\ UNCHANGED <<pc, asleep, irq, shape>>

DeviceRaise ==
  /\ ~dev.raised /\ dev' = [dev EXCEPT !.raised = TRUE]
  /\ irq' = (irq \/ ~vq.avail.no_interrupt)
  /\ UNCHANGED <<vq, pc, asleep, shape>>

Driver ==
  \/ virtqueue_ring_update_avail \/ virtqueue_host_notify
  \/ Dequeue \/ IntrEnable \/ intr_enable_flag \/ intr_enable_recheck \/ virtqueue_ring_interrupt

Next ==
  \/ \E b \in Buf, s \in Shapes : Enqueue(b, s)
  \/ Driver
  \/ DeviceTake \/ DeviceRest \/ DevicePublish \/ DeviceRaise
  \/ \E h \in 0 .. Num - 1 : DeviceWrite(h)

\* The driver thread and the device keep running, an interrupt is delivered
\* even when buffers keep being handed over, and the device gives back every
\* chain.  Nobody has to hand over buffers.
Fairness ==
  /\ WF_vars(virtqueue_ring_update_avail) /\ WF_vars(virtqueue_host_notify)
  /\ SF_vars(Dequeue) /\ SF_vars(IntrEnable)
  /\ WF_vars(intr_enable_flag) /\ WF_vars(intr_enable_recheck)
  /\ SF_vars(virtqueue_ring_interrupt)
  /\ WF_vars(DeviceTake) /\ WF_vars(DeviceRest)
  /\ WF_vars(DevicePublish) /\ WF_vars(DeviceRaise)
  /\ \A h \in 0 .. Num - 1 : SF_vars(DeviceWrite(h))

Spec == Init /\ [][Next]_vars /\ Fairness

-----------------------------------------------------------------------------
\* Type invariant.
TypeOK ==
  /\ vq.desc_avail \in 0 .. Num
  /\ vq.head_free_desc \in Desc(vq) \cup {VIRTQUEUE_MAX_SIZE}
  /\ \A i \in Desc(vq) : /\ vq.info[i].cookie \in Buf \cup {NULL}
                         /\ vq.desc[i].next \in Desc(vq) \cup {VIRTQUEUE_MAX_SIZE}
  /\ {vq.last_used_desc_idx, vq.avail.idx, vq.used.idx, dev.last_avail}
       \subseteq 0 .. IdxMod - 1
  /\ pc \in {"run", "publish", "notify", "enable", "recheck"}

\* However buffers come and go, every descriptor is in the free chain or in
\* the chain of one buffer in flight, virtqueue_detach_desc never finds a
\* chain of another length than the one enqueued, and its ASSERT holds.
DescriptorsPartitioned == Partitioned(vq) /\ ~vq.panicked

\* The device finds at a head it takes exactly the segments of one buffer in
\* flight, in order, the ones for it to write after the ones for it to read:
\* a chain is not visible before it is complete and does not change until the
\* device gives it back.
ChainsIntact ==
  \A h \in DOMAIN dev.chains :
    LET b == vq.info[h].cookie
    IN /\ b # NULL
       /\ dev.chains[h] = ChainAt(vq, h)
       /\ dev.chains[h] = [k \in 1 .. shape[b][1] + shape[b][2] |->
                            [seg |-> <<b, k>>, write |-> k > shape[b][1]]]

\* A driver asleep with finished buffers in the ring has an interrupt coming:
\* virtqueue_intr_enable loses none on the way to sleep.
NoLostInterrupt ==
  asleep /\ virtqueue_hasdata(vq) => irq \/ ~dev.raised

\* The ring stays sound however the steps of the two sides interleave.
RingSound == TypeOK /\ DescriptorsPartitioned /\ ChainsIntact /\ NoLostInterrupt

\* A buffer handed to the device comes back.
BuffersReturn == \A b \in Buf : b \in Cookies ~> b \notin Cookies

\* Buffers in the used ring that the driver has not seen yet.
UsedCount == (vq.used.idx - vq.last_used_desc_idx) % IdxMod
DoneSeq ==
  [k \in 1 .. UsedCount |->
    LET e == vq.used.ring[Slot(vq, vq.last_used_desc_idx + k - 1)]
    IN <<vq.info[e.id].cookie, e.len>>]
Unpublished ==
  IF pc = "publish" THEN {vq.info[AvailHead(vq, vq.avail.idx)].cookie} ELSE {}

\* The ring is a queue of buffers as its user understands it.
Abstract == INSTANCE BufferQueue WITH
  posted <- (Cookies \ Unpublished) \ {DoneSeq[k][1] : k \in 1 .. UsedCount},
  done <- DoneSeq
QueueSpec == Abstract!Spec

-----------------------------------------------------------------------------
(* Buffers with one segment to read, and with one more to write.           *)

MCShapes == {<<1, 0>>, <<1, 1>>}
MCLength == {1}
=============================================================================
