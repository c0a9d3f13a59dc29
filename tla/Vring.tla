------------------------------- MODULE Vring --------------------------------
(***************************************************************************)
(* One split virtqueue as virtio_net/virtio_ring.c keeps it: a record of   *)
(* the descriptor table, the two rings and the driver's bookkeeping.  The  *)
(* C functions are operators from record to record.  Whoever uses them     *)
(* adds the device, which owns the used ring.                              *)
(*                                                                         *)
(* A segment of a scatter-gather list is whatever the user puts there.     *)
(* Ring indices are free-running counters of IdxMod values (2^16 in the    *)
(* code), masked with num - 1 to find a slot.                              *)
(***************************************************************************)
EXTENDS Integers, Sequences, FiniteSets

CONSTANTS
  IdxMod,             \* number of values of a ring index
  VIRTQUEUE_MAX_SIZE, \* the end of the free chain
  NULL

Desc(vq) == 0 .. vq.num - 1
Slot(vq, idx) == idx % vq.num
Inc(idx) == (idx + 1) % IdxMod

\* The descriptors reached from head over next, head first.
Follow(vq, head) ==
  LET at[k \in 0 .. vq.num] ==
        IF k = 0 THEN head
        ELSE IF at[k - 1] \in Desc(vq) THEN vq.desc[at[k - 1]].next
        ELSE VIRTQUEUE_MAX_SIZE
  IN at

\* How many steps from head until a descriptor does not continue.
Continues(vq, head) ==
  LET at == Follow(vq, head)
  IN CHOOSE k \in 0 .. vq.num - 1 :
       /\ "NEXT" \notin vq.desc[at[k]].flags
       /\ \A j \in 0 .. k - 1 : "NEXT" \in vq.desc[at[j]].flags

-----------------------------------------------------------------------------
virtqueue_vring_init(num) ==
  [num |-> num,
   desc |-> [i \in 0 .. num - 1 |->
              [seg |-> NULL, flags |-> {},
               next |-> IF i = num - 1 THEN VIRTQUEUE_MAX_SIZE ELSE i + 1]],
   info |-> [i \in 0 .. num - 1 |-> [cookie |-> NULL, desc_count |-> 0]],
   desc_avail |-> num, head_free_desc |-> 0, last_used_desc_idx |-> 0,
   avail |-> [ring |-> [i \in 0 .. num - 1 |-> 0], idx |-> 0, no_interrupt |-> FALSE],
   used |-> [ring |-> [i \in 0 .. num - 1 |-> [id |-> 0, len |-> 0]], idx |-> 0,
             no_notify |-> FALSE],
   panicked |-> FALSE]

virtqueue_hasdata(vq) == vq.last_used_desc_idx # vq.used.idx
virtqueue_is_full(vq) == vq.desc_avail = 0
virtqueue_notify_enabled(vq) == ~vq.used.no_notify
virtqueue_intr_disable(vq) == [vq EXCEPT !.avail.no_interrupt = TRUE]
IntrOn(vq) == [vq EXCEPT !.avail.no_interrupt = FALSE]

\* virtqueue_intr_enable when the device does not move in the middle of it.
intr_enable_rc(vq) == IF virtqueue_hasdata(vq) THEN 1 ELSE 0
virtqueue_intr_enable(vq) == IF virtqueue_hasdata(vq) THEN vq ELSE IntrOn(vq)

virtqueue_buffer_enqueue_segments(vq, head, segs, read_bufs) ==
  LET at == Follow(vq, head)
      pos(i) == {k \in 0 .. Len(segs) - 1 : at[k] = i}
      fill(k, next) ==
        [seg |-> segs[k + 1], next |-> next,
         flags |-> (IF k >= read_bufs THEN {"WRITE"} ELSE {})
                     \cup (IF k < Len(segs) - 1 THEN {"NEXT"} ELSE {})]
  IN [vq EXCEPT
       !.desc = [i \in Desc(vq) |->
                  IF pos(i) = {} THEN vq.desc[i]
                  ELSE fill(CHOOSE k \in pos(i) : TRUE, vq.desc[i].next)],
       !.head_free_desc = at[Len(segs)]]

\* virtqueue_buffer_enqueue up to the write barrier of
\* virtqueue_ring_update_avail: the device cannot see the buffer yet.
enqueue_unpublished(vq, cookie, segs, read_bufs) ==
  LET head == vq.head_free_desc
      v == virtqueue_buffer_enqueue_segments(
             [vq EXCEPT !.info[head] = [cookie |-> cookie, desc_count |-> Len(segs)]],
             head, segs, read_bufs)
  IN [v EXCEPT !.desc_avail = @ - Len(segs),
               !.avail.ring[Slot(vq, vq.avail.idx)] = head]

\* The rest of virtqueue_ring_update_avail.
publish(vq) == [vq EXCEPT !.avail.idx = Inc(@)]

enqueue_rc(vq, total_desc) ==
  IF total_desc < 1 \/ total_desc > vq.num THEN "EINVAL"
  ELSE IF vq.desc_avail < total_desc THEN "ENOSPC"
  ELSE "ok"

virtqueue_buffer_enqueue(vq, cookie, segs, read_bufs) ==
  IF enqueue_rc(vq, Len(segs)) = "ok"
  THEN publish(enqueue_unpublished(vq, cookie, segs, read_bufs))
  ELSE vq

\* desc_count is counted down over the chain; ASSERT(vq_info->desc_count == 0).
virtqueue_detach_desc(vq, head) ==
  LET n == Continues(vq, head)
      last == Follow(vq, head)[n]
  IN [vq EXCEPT !.desc_avail = @ + vq.info[head].desc_count,
                !.info[head].desc_count = 0,
                !.panicked = @ \/ vq.info[head].desc_count # n + 1,
                !.desc[last].next = vq.head_free_desc,
                !.head_free_desc = head]

\* The element virtqueue_buffer_dequeue finds when there is data.
dequeue_elem(vq) == vq.used.ring[Slot(vq, vq.last_used_desc_idx)]
dequeue_cookie(vq) == vq.info[dequeue_elem(vq).id].cookie

\* Faulty variant: the element after the last one is taken.
virtqueue_buffer_dequeue_skip(vq) ==
  LET head == vq.used.ring[Slot(vq, Inc(vq.last_used_desc_idx))].id
      v == virtqueue_detach_desc([vq EXCEPT !.last_used_desc_idx = Inc(@)], head)
  IN [v EXCEPT !.info[head].cookie = NULL]

virtqueue_buffer_dequeue(vq) ==
  LET head == dequeue_elem(vq).id
      v == virtqueue_detach_desc([vq EXCEPT !.last_used_desc_idx = Inc(@)], head)
  IN [v EXCEPT !.info[head].cookie = NULL]

\* What it returns: the slots in use afterwards.
UsedSlots(vq) == vq.num - vq.desc_avail

-----------------------------------------------------------------------------
(* The device's side of the ring (external).                               *)

\* The chain the device finds at the head the avail ring names.
AvailHead(vq, last_avail) == vq.avail.ring[Slot(vq, last_avail)]
ChainAt(vq, head) ==
  LET at == Follow(vq, head)
  IN [k \in 1 .. Continues(vq, head) + 1 |->
       [seg |-> vq.desc[at[k - 1]].seg, write |-> "WRITE" \in vq.desc[at[k - 1]].flags]]

device_elem(vq, head, len) ==
  [vq EXCEPT !.used.ring[Slot(vq, vq.used.idx)] = [id |-> head, len |-> len]]
device_publish(vq) == [vq EXCEPT !.used.idx = Inc(@)]

-----------------------------------------------------------------------------
(* Facts about the record that hold between any two driver calls.          *)

InFlight(vq) == {i \in Desc(vq) : vq.info[i].cookie # NULL}
ChainSet(vq, head) ==
  {Follow(vq, head)[k] : k \in 0 .. vq.info[head].desc_count - 1}
FreeSet(vq) == {Follow(vq, vq.head_free_desc)[k] : k \in 0 .. vq.desc_avail - 1}

\* The free chain and the chains of the buffers in flight share no descriptor
\* and leave none out; each is as long as its count says.
Partitioned(vq) ==
  /\ Cardinality(FreeSet(vq)) = vq.desc_avail
  /\ \A i \in InFlight(vq) : /\ Cardinality(ChainSet(vq, i)) = vq.info[i].desc_count
                             /\ ChainSet(vq, i) \cap FreeSet(vq) = {}
                             /\ Continues(vq, i) + 1 = vq.info[i].desc_count
  /\ \A i, j \in InFlight(vq) : i # j => ChainSet(vq, i) \cap ChainSet(vq, j) = {}
  /\ Desc(vq) = FreeSet(vq) \cup UNION {ChainSet(vq, i) : i \in InFlight(vq)}
=============================================================================
