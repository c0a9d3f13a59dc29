------------------------------- MODULE NetBuf -------------------------------
(***************************************************************************)
(* Network buffers: common/netbuf.c and netbuf.h, common/refcount.h, and   *)
(* lwip_netbuf.c, which embeds an lwIP pbuf in a netbuf.                   *)
(*                                                                         *)
(* A netbuf describes a window of data in a buffer.  Netbufs are chained   *)
(* to packets; the links hold no references, so each element lives by its  *)
(* own count.  Addresses are bytes.  The users of the interface keep its   *)
(* rules: they touch netbufs they hold, and connect different chains.      *)
(***************************************************************************)
EXTENDS Integers, FiniteSets, TLC

CONSTANTS
  Netbuf, NULL,
  Allocator,      \* what callers pass as the allocator, NULL or not
  NETBUF_ADDR_ALIGNMENT, SizeofNetbuf, PrivLen,
  UINT16_MAX,
  Base,           \* addresses that memalign may return: word aligned, as ioalign is
  BufLen, Room,   \* buffer lengths and headrooms that are asked for
  Delta,          \* arguments of uk_netbuf_header
  MaxRef          \* bound: references to one netbuf

NetbufAssumption ==
  /\ NULL \notin Netbuf /\ NETBUF_ADDR_ALIGNMENT \in Nat \ {0}
  /\ SizeofNetbuf \in Nat \ {0} /\ PrivLen \in Nat /\ UINT16_MAX \in Nat
  /\ \A x \in Base : x \in Nat /\ x % NETBUF_ADDR_ALIGNMENT = 0
  /\ BufLen \subseteq Nat \ {0} /\ Room \subseteq Nat
  /\ Delta \subseteq Int \ {0} /\ MaxRef \in Nat

VARIABLES
  nb,       \* the netbufs
  refs,     \* history: references their users hold
  memory    \* history: netbufs whose memory has not been given back

vars == <<nb, refs, memory>>

NETBUF_ADDR_ALIGN_DOWN(x) == x - (x % NETBUF_ADDR_ALIGNMENT)
NETBUF_ADDR_ALIGN_UP(x) == NETBUF_ADDR_ALIGN_DOWN(x + NETBUF_ADDR_ALIGNMENT - 1)

Live == {m \in Netbuf : nb[m].refcount > 0}
uk_netbuf_headroom(b) == b.data - b.buf
uk_netbuf_tailroom(b) == (b.buf + b.buflen) - (b.data + b.len)

\* The elements of the chain from m on, and from m back.
ChainFrom(b, m) ==
  LET at[k \in 0 .. Cardinality(Netbuf)] ==
        IF k = 0 THEN m ELSE IF at[k - 1] = NULL THEN NULL ELSE b[at[k - 1]].next
  IN {at[k] : k \in DOMAIN at} \ {NULL}
uk_netbuf_chain_last(b, m) == CHOOSE e \in ChainFrom(b, m) : b[e].next = NULL

-----------------------------------------------------------------------------
Unused ==
  [next |-> NULL, prev |-> NULL, buf |-> 0, buflen |-> 0, data |-> 0, len |-> 0,
   refcount |-> 0, csum |-> FALSE, csum_start |-> 0, a |-> NULL, b |-> NULL, at |-> 0]

uk_netbuf_init_indir(buf, buflen, headroom) ==
  [Unused EXCEPT !.buf = buf, !.buflen = buflen, !.data = buf + headroom, !.refcount = 1]

uk_netbuf_alloc_indir(m, a, buf, buflen, headroom) ==
  [uk_netbuf_init_indir(buf, buflen, headroom) EXCEPT !.a = a, !.b = m]

\* The netbuf and its private data lie at the end of the memory.
uk_netbuf_prepare_buf(mem, size, headroom) ==
  LET meta_len == NETBUF_ADDR_ALIGN_UP(SizeofNetbuf + PrivLen)
      at == NETBUF_ADDR_ALIGN_DOWN(mem + size) - meta_len
  IN [uk_netbuf_init_indir(mem, at - mem, headroom) EXCEPT !.at = at]

AllocLen(buflen) ==
  NETBUF_ADDR_ALIGN_UP(buflen) + NETBUF_ADDR_ALIGN_UP(SizeofNetbuf + PrivLen)

uk_netbuf_alloc_buf(m, a, mem, buflen, headroom) ==
  [uk_netbuf_prepare_buf(mem, AllocLen(buflen), headroom) EXCEPT !.a = a, !.b = m]

Init ==
  /\ nb = [m \in Netbuf |-> Unused]
  /\ refs = [m \in Netbuf |-> 0] /\ memory = {}

Born(m, b) ==
  /\ m \notin Live /\ m \notin memory
  /\ nb' = [nb EXCEPT ![m] = b]
  /\ refs' = [refs EXCEPT ![m] = 1] /\ memory' = memory \cup {m}

\* The length becomes all there is, cut to 16 bits.
lwip_alloc_netbuf(m, a, mem, buflen, headroom) ==
  /\ headroom <= buflen
  /\ LET b == uk_netbuf_alloc_buf(m, a, mem, buflen, headroom)
     IN Born(m, [b EXCEPT !.len = (b.buflen - headroom) % (UINT16_MAX + 1)])

AllocIndir(m, a, buflen, headroom) ==
  /\ headroom <= buflen
  /\ Born(m, uk_netbuf_alloc_indir(m, a, 0, buflen, headroom))

-----------------------------------------------------------------------------
\* uk_refcount_acquire on every netbuf of S.
Acquire(b, S) == [m \in Netbuf |-> IF m \in S THEN [b[m] EXCEPT !.refcount = @ + 1] ELSE b[m]]

uk_netbuf_ref_single(m) ==
  /\ refs[m] \in 1 .. MaxRef - 1
  /\ nb' = Acquire(nb, {m}) /\ refs' = [refs EXCEPT ![m] = @ + 1]
  /\ UNCHANGED memory

uk_netbuf_ref(m) ==
  LET S == ChainFrom(nb, m)
  IN /\ \A e \in S : refs[e] \in 1 .. MaxRef - 1
     /\ nb' = Acquire(nb, S)
     /\ refs' = [e \in Netbuf |-> IF e \in S THEN refs[e] + 1 ELSE refs[e]]
     /\ UNCHANGED memory

Link(b, headtail, tail) == [b EXCEPT ![headtail].next = tail, ![tail].prev = headtail]

uk_netbuf_connect(headtail, tail) ==
  /\ headtail \in Live /\ tail \in Live /\ headtail \notin ChainFrom(nb, tail)
  /\ nb[headtail].next = NULL /\ nb[tail].prev = NULL
  /\ nb' = Link(nb, headtail, tail)
  /\ UNCHANGED <<refs, memory>>

uk_netbuf_append(head, tail) ==
  /\ head \in Live /\ tail \in Live /\ tail # head
  /\ nb[head].prev = NULL /\ nb[tail].prev = NULL
  /\ nb' = Link(nb, uk_netbuf_chain_last(nb, head), tail)
  /\ UNCHANGED <<refs, memory>>

\* Faulty variant: the element before m still leads to m.
uk_netbuf_disconnect_forward(b, m) ==
  LET p == b[m].prev
      n == b[m].next
  IN [e \in Netbuf |->
       IF e = m THEN [b[m] EXCEPT !.next = NULL, !.prev = NULL]
       ELSE IF e = n THEN [b[e] EXCEPT !.prev = p] ELSE b[e]]

uk_netbuf_disconnect(b, m) ==
  LET p == b[m].prev
      n == b[m].next
  IN [e \in Netbuf |->
       IF e = m THEN [b[m] EXCEPT !.next = NULL, !.prev = NULL]
       ELSE IF e = p THEN [b[e] EXCEPT !.next = n]
       ELSE IF e = n THEN [b[e] EXCEPT !.prev = p] ELSE b[e]]

Disconnect(m) ==
  /\ m \in Live /\ nb' = uk_netbuf_disconnect(nb, m)
  /\ UNCHANGED <<refs, memory>>

\* uk_refcount_release, and for the last reference the rest of
\* uk_netbuf_free_single; st is the pair of netbufs and memory.
Release(st, m) ==
  LET b == [st.nb EXCEPT ![m].refcount = @ - 1]
  IN IF st.nb[m].refcount > 1 THEN [st EXCEPT !.nb = b]
     ELSE [nb |-> uk_netbuf_disconnect(b, m),
           memory |-> IF b[m].a # NULL /\ b[m].b # NULL THEN st.memory \ {b[m].b}
                      ELSE st.memory]

\* Freed netbufs are forgotten.
Forget(b) == [m \in Netbuf |-> IF b[m].refcount = 0 THEN [Unused EXCEPT !.a = b[m].a] ELSE b[m]]

uk_netbuf_free_single(m) ==
  /\ refs[m] > 0
  /\ LET st == Release([nb |-> nb, memory |-> memory], m)
     IN nb' = Forget(st.nb) /\ memory' = st.memory
  /\ refs' = [refs EXCEPT ![m] = @ - 1]

\* The caller has a reference to every element.  Which of them are freed does
\* not depend on the order, as the next element is read before.
uk_netbuf_free(m) ==
  LET S == ChainFrom(nb, m)
      go[k \in 0 .. Cardinality(S)] ==
        IF k = 0 THEN [todo |-> m, nb |-> nb, memory |-> memory]
        ELSE LET st == go[k - 1]
                 r == Release([nb |-> st.nb, memory |-> st.memory], st.todo)
             IN [todo |-> st.nb[st.todo].next, nb |-> r.nb, memory |-> r.memory]
      end == go[Cardinality(S)]
  IN /\ \A e \in S : refs[e] > 0
     /\ m \in Live /\ nb[m].prev = NULL
     /\ nb' = Forget(end.nb) /\ memory' = end.memory
     /\ refs' = [e \in Netbuf |-> IF e \in S THEN refs[e] - 1 ELSE refs[e]]

-----------------------------------------------------------------------------
header_rc(b, len) ==
  IF len > uk_netbuf_headroom(b) \/ -len > b.len THEN "ENOSPC"
  ELSE IF len + b.len > UINT16_MAX THEN "EFAULT"
  ELSE "ok"

\* An operation that is refused changes nothing.
uk_netbuf_header(m, len) ==
  /\ m \in Live /\ nb[m].prev = NULL /\ header_rc(nb[m], len) = "ok"
  /\ LET b == nb[m]
         covered == len < 0 /\ -len > b.csum_start
     IN nb' = [nb EXCEPT ![m] =
                [b EXCEPT !.data = @ - len, !.len = @ + len,
                          !.csum = @ /\ ~covered,
                          !.csum_start = IF b.csum /\ ~covered THEN @ + len ELSE @]]
  /\ UNCHANGED <<refs, memory>>

\* A driver or stack marks the packet for checksumming inside its data.
SetCsum(m, start) ==
  /\ m \in Live /\ start < nb[m].len
  /\ nb' = [nb EXCEPT ![m].csum = TRUE, ![m].csum_start = start]
  /\ UNCHANGED <<refs, memory>>

Next ==
  \/ \E m \in Netbuf, a \in Allocator, buflen \in BufLen, headroom \in Room :
       \/ \E mem \in Base : lwip_alloc_netbuf(m, a, mem, buflen, headroom)
       \/ AllocIndir(m, a, buflen, headroom)
  \/ \E m \in Netbuf :
       \/ uk_netbuf_ref_single(m) \/ uk_netbuf_ref(m)
       \/ Disconnect(m) \/ uk_netbuf_free_single(m) \/ uk_netbuf_free(m)
       \/ \E t \in Netbuf : uk_netbuf_connect(m, t) \/ uk_netbuf_append(m, t)
       \/ \E d \in Delta : uk_netbuf_header(m, d)
       \/ \E d \in Delta : SetCsum(m, d)

Spec == Init /\ [][Next]_vars

-----------------------------------------------------------------------------
\* Type invariant.
TypeOK ==
  /\ \A m \in Netbuf : /\ nb[m].refcount \in 0 .. MaxRef
                       /\ {nb[m].next, nb[m].prev} \subseteq Netbuf \cup {NULL}
                       /\ nb[m].len \in 0 .. UINT16_MAX
  /\ refs \in [Netbuf -> 0 .. MaxRef] /\ memory \subseteq Netbuf

\* However netbufs are referenced, chained and freed, the count of each is the
\* number of references its users still hold: none is freed while someone
\* holds it, and none outlives its last reference.
CountsExact == \A m \in Netbuf : nb[m].refcount = refs[m]

\* Freeing an element, wherever it is in a chain and whoever holds the others,
\* leaves chains that lead through live netbufs only, forwards and backwards
\* the same, and that end.
ChainsSound ==
  \A m \in Live :
    /\ nb[m].next # NULL => nb[m].next \in Live /\ nb[nb[m].next].prev = m
    /\ nb[m].prev # NULL => nb[m].prev \in Live /\ nb[nb[m].prev].next = m
    /\ \E e \in ChainFrom(nb, m) : nb[e].next = NULL

\* The window of data stays in the buffer, and the buffer, the netbuf and its
\* private data lie one after the other in the memory allocated for them.
WindowInBuffer ==
  \A m \in Live :
    LET b == nb[m]
    IN /\ uk_netbuf_headroom(b) >= 0 /\ uk_netbuf_tailroom(b) >= 0
       /\ b.at # 0 => /\ b.buf + b.buflen <= b.at
                      /\ \E n \in BufLen :
                           /\ b.at + SizeofNetbuf + PrivLen <= b.buf + AllocLen(n)
                           /\ b.buflen >= n

\* Memory goes back to its allocator with the last reference, and not before.
ReturnedToAllocator ==
  \A m \in Netbuf : nb[m].a # NULL => (m \in memory <=> m \in Live)

\* "On uk_netbuf_free() and refcount == 0 the allocation is free'd" (netbuf.h).
MemoryReturned == memory \subseteq Live
=============================================================================
