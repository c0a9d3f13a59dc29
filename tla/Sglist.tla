------------------------------- MODULE Sglist -------------------------------
(***************************************************************************)
(* Scatter-gather lists, common/sglist.c: the physical segments that the   *)
(* device is told of for a buffer in virtual memory.  A list is an array   *)
(* of maxseg segments of which the first nseg count; what lies behind them *)
(* is whatever earlier use left there.  The functions are operators on     *)
(* lists; a list and a second one go through any sequence of them, and     *)
(* what they hold is compared as sequences of physical bytes.              *)
(***************************************************************************)
EXTENDS Integers, Sequences, SequencesExt, FiniteSets

CONSTANTS
  PAGE_SIZE, Pages, Frames,  \* virtual pages are numbered from 0
  MaxSeg,                    \* sizes of the two lists
  Frags, FragLen,            \* a packet has at most this many netbufs of this length
  MaxCalls                   \* bound: calls on one pair of lists

SglistAssumption ==
  /\ PAGE_SIZE \in Nat \ {0} /\ Pages \in Nat \ {0} /\ Frames \subseteq Nat
  /\ MaxSeg \in [{1, 2} -> Nat \ {0}] /\ {Frags, FragLen, MaxCalls} \subseteq Nat

VARIABLES
  sg, second,  \* the lists
  trans,       \* the address translation
  last,        \* history: the last call and what it is about
  calls        \* how many there were

vars == <<sg, second, trans, last, calls>>

Vaddr == 0 .. Pages * PAGE_SIZE - 1
virt_to_phys(v) == trans[v \div PAGE_SIZE] * PAGE_SIZE + (v % PAGE_SIZE)
Least(a, b) == IF a < b THEN a ELSE b

\* The bytes a list stands for, and those of a buffer: the reference.
SegBytes(s) == [i \in 1 .. s.len |-> s.paddr + i - 1]
BytesOf(l) == FlattenSeq([i \in 1 .. l.nseg |-> SegBytes(l.segs[i])])
BufBytes(buf, len) == [i \in 1 .. len |-> virt_to_phys(buf + i - 1)]

-----------------------------------------------------------------------------
uk_sglist_init(maxsegs) ==
  [segs |-> [i \in 1 .. maxsegs |-> [paddr |-> 0, len |-> 0]], nseg |-> 0,
   maxseg |-> maxsegs, error |-> "ok"]
uk_sglist_reset(l) == [l EXCEPT !.nseg = 0]

_sglist_append_range(l, s) ==
  LET e == l.segs[l.nseg]
  IN IF e.paddr + e.len = s.paddr THEN [l EXCEPT !.segs[l.nseg].len = @ + s.len]
     ELSE IF l.nseg = l.maxseg THEN [l EXCEPT !.error = "EFBIG"]
     ELSE [l EXCEPT !.nseg = @ + 1, !.segs[l.nseg + 1] = s]

\* The parts of a buffer, one for each page.
PagePieces(buf, len) ==
  LET first == buf \div PAGE_SIZE
      start(k) == IF k = 1 THEN buf ELSE (first + k - 1) * PAGE_SIZE
      end(k) == Least(buf + len, (first + k) * PAGE_SIZE)
  IN [k \in 1 .. (buf + len - 1) \div PAGE_SIZE - first + 1 |->
       [paddr |-> virt_to_phys(start(k)), len |-> end(k) - start(k)]]

_sglist_append_buf(l, buf, len) ==
  LET add(m, s) ==
        IF m.error # "ok" THEN m
        ELSE IF m.nseg = 0 THEN [m EXCEPT !.nseg = 1, !.segs[1] = s]
        ELSE _sglist_append_range(m, s)
  IN IF len = 0 THEN l ELSE FoldLeft(add, l, PagePieces(buf, len))

\* Faulty variant: the last segment keeps what was added to it.
SGLIST_RESTORE_count(l, save) == [l EXCEPT !.nseg = save.nseg]

\* SGLIST_SAVE and SGLIST_RESTORE.
SGLIST_RESTORE(l, save) ==
  IF save.nseg = 0 THEN [l EXCEPT !.nseg = 0]
  ELSE [l EXCEPT !.nseg = save.nseg, !.segs[save.nseg].len = save.segs[save.nseg].len]

uk_sglist_count(buf, len) ==
  LET first == buf \div PAGE_SIZE
      final == (buf + len - 1) \div PAGE_SIZE
  IN IF len = 0 THEN 0
     ELSE 1 + Cardinality({p \in first + 1 .. final : trans[p - 1] + 1 # trans[p]})

uk_sglist_append(l, buf, len) ==
  LET m == _sglist_append_buf([l EXCEPT !.error = "ok"], buf, len)
  IN IF m.error # "ok" THEN SGLIST_RESTORE(m, l) ELSE m

\* A chain is a sequence of buffers.
uk_sglist_append_netbuf(l, chain) ==
  LET add(m, b) == IF m.error # "ok" \/ b.len = 0 THEN m
                   ELSE uk_sglist_append(m, b.buf, b.len)
      m == FoldLeft(add, [l EXCEPT !.error = "ok"], chain)
  IN IF m.error # "ok" THEN SGLIST_RESTORE(m, l) ELSE m

\* Called with a list that is not empty.
uk_sglist_append_sglist(l, source, offset, length) ==
  LET step(c, i) ==
        IF c.length = 0 \/ c.l.error # "ok" THEN c
        ELSE IF c.offset >= source.segs[i].len
        THEN [c EXCEPT !.offset = @ - source.segs[i].len]
        ELSE LET n == Least(source.segs[i].len - c.offset, c.length)
                 m == _sglist_append_range(c.l, [paddr |-> source.segs[i].paddr + c.offset,
                                                 len |-> n])
             IN IF m.error # "ok" THEN [c EXCEPT !.l = m]
                ELSE [l |-> m, offset |-> 0, length |-> c.length - n]
      c == FoldLeft(step, [l |-> [l EXCEPT !.error = "ok"], offset |-> offset,
                           length |-> length],
                    [i \in 1 .. source.nseg |-> i])
  IN IF length = 0 THEN [l EXCEPT !.error = "EINVAL"]
     ELSE IF c.length # 0 THEN SGLIST_RESTORE([c.l EXCEPT !.error = "EINVAL"], l)
     ELSE c.l

uk_sglist_length(l) ==
  LET sum[i \in 0 .. l.nseg] == IF i = 0 THEN 0 ELSE sum[i - 1] + l.segs[i].len
  IN sum[l.nseg]

\* memmove of n segments from the array src to dst.
Move(dst, di, src, si, n) ==
  [i \in DOMAIN dst |-> IF i \in di + 1 .. di + n THEN src[i - di + si] ELSE dst[i]]

\* An array and the memory behind it, which may hold anything.
Beyond(src, junk) ==
  [i \in 1 .. MaxSeg[1] + MaxSeg[2] |-> IF i \in DOMAIN src THEN src[i] ELSE junk]
Junk == {[paddr |-> 0, len |-> 0], [paddr |-> 1, len |-> 2]}

\* Source and destination of the move are as in the code.
uk_sglist_join(l, s, junk) ==
  LET merge == IF l.nseg # 0 /\ l.segs[l.nseg].paddr + l.segs[l.nseg].len = s.segs[1].paddr
               THEN 1 ELSE 0
      m == IF merge = 1 THEN [l EXCEPT !.segs[l.nseg].len = @ + s.segs[1].len] ELSE l
  IN IF s.nseg = 0 THEN <<[l EXCEPT !.error = "ok"], s>>
     ELSE IF l.nseg + s.nseg - merge > l.maxseg THEN <<[l EXCEPT !.error = "EFBIG"], s>>
     ELSE <<[m EXCEPT !.nseg = @ + s.nseg - merge, !.error = "ok"],
            uk_sglist_reset([s EXCEPT !.segs = Move(@, merge, Beyond(m.segs, junk), m.nseg,
                                                    s.nseg - merge)])>>

\* The first segment at which the lengths reach n, or the last one.
Reach(l, n) ==
  LET space(i) == uk_sglist_length([l EXCEPT !.nseg = i])
      hit == {i \in 1 .. l.nseg : space(i) >= n}
  IN IF hit = {} THEN l.nseg ELSE CHOOSE i \in hit : \A j \in hit : i <= j

\* head is the second list, which is empty.
uk_sglist_split(l, head, length, junk) ==
  LET count == Reach(l, length)
      space == uk_sglist_length([l EXCEPT !.nseg = count])
      split == IF space >= length THEN space - length ELSE 0
      h == [head EXCEPT !.segs = Move(@, 0, l.segs, 0, count), !.nseg = count]
      trim(m, n) == [m EXCEPT !.nseg = @ - n, !.segs = Move(@, 0, Beyond(@, junk), n, n)]
  IN IF count = 0 THEN <<[l EXCEPT !.error = "ok"], head>>
     ELSE IF head.maxseg < count THEN <<[l EXCEPT !.error = "EFBIG"], head>>
     ELSE IF head.nseg # 0 THEN <<[l EXCEPT !.error = "EINVAL"], head>>
     ELSE IF split = 0 THEN <<trim([l EXCEPT !.error = "ok"], count), h>>
     ELSE <<trim([l EXCEPT !.segs[count] = [paddr |-> @.paddr + split, len |-> split],
                           !.error = "ok"], count - 1),
            [h EXCEPT !.segs[count].len = @ - split]>>

uk_sglist_slice(l, slice, offset, length) ==
  LET fseg == Reach(l, offset + 1)
      lseg == Reach(l, offset + length)
      count == lseg - fseg + 1
      before == uk_sglist_length([l EXCEPT !.nseg = fseg - 1])
      foffs == offset - before
      loffs == uk_sglist_length([l EXCEPT !.nseg = lseg]) - (offset + length)
      s == [slice EXCEPT !.segs = Move(@, 0, l.segs, fseg - 1, count),
                         !.nseg = count, !.error = "ok"]
      f == [s EXCEPT !.segs[1].paddr = @ + foffs, !.segs[1].len = @ - foffs]
  IN IF length = 0 THEN [slice EXCEPT !.error = "ok"]
     ELSE IF uk_sglist_length(l) < offset + length THEN [slice EXCEPT !.error = "EINVAL"]
     ELSE IF slice.maxseg < count THEN [slice EXCEPT !.error = "EFBIG"]
     ELSE IF slice.nseg # 0 THEN [slice EXCEPT !.error = "EINVAL"]
     ELSE [f EXCEPT !.segs[count].len = @ - loffs]

\* uk_sglist_alloc and the copy.
uk_sglist_clone(l) ==
  LET new == uk_sglist_init(l.maxseg)
  IN [new EXCEPT !.nseg = l.nseg, !.segs = Move(@, 0, l.segs, 0, l.nseg)]

-----------------------------------------------------------------------------
Ranges == {r \in [buf : Vaddr, len : 0 .. Pages * PAGE_SIZE] :
             r.buf + r.len <= Pages * PAGE_SIZE}

Init ==
  /\ trans \in {f \in [0 .. Pages - 1 -> Frames] :
                 \A p, q \in 0 .. Pages - 1 : f[p] = f[q] => p = q}
  /\ sg = uk_sglist_init(MaxSeg[1]) /\ second = uk_sglist_init(MaxSeg[2])
  /\ last = <<"init">> /\ calls = 0

AppendBuf(r) ==
  /\ sg' = uk_sglist_append(sg, r.buf, r.len)
  /\ last' = <<"append", BufBytes(r.buf, r.len)>>
  /\ UNCHANGED <<second, trans>>

AppendNetbuf(chain) ==
  /\ sg' = uk_sglist_append_netbuf(sg, chain)
  /\ last' = <<"append", FlattenSeq([i \in DOMAIN chain |-> BufBytes(chain[i].buf, chain[i].len)])>>
  /\ UNCHANGED <<second, trans>>

AppendSglist(offset, length) ==
  /\ sg.nseg > 0 /\ sg' = uk_sglist_append_sglist(sg, second, offset, length)
  /\ last' = <<"append", IF offset + length > uk_sglist_length(second) THEN <<>>
                         ELSE SubSeq(BytesOf(second), offset + 1, offset + length)>>
  /\ UNCHANGED <<second, trans>>

Slice(offset, length) ==
  /\ second' = uk_sglist_slice(sg, second, offset, length)
  /\ last' = <<"slice", offset, length>>
  /\ UNCHANGED <<sg, trans>>

Reset ==
  /\ \/ sg' = uk_sglist_reset(sg) /\ UNCHANGED second
     \/ second' = uk_sglist_reset(second) /\ UNCHANGED sg
     \/ second' = uk_sglist_clone(sg) /\ UNCHANGED sg
  /\ last' = <<"reset">> /\ UNCHANGED trans

Join(junk) ==
  /\ LET r == uk_sglist_join(sg, second, junk) IN sg' = r[1] /\ second' = r[2]
  /\ last' = <<"join">> /\ UNCHANGED trans

Split(length, junk) ==
  /\ LET r == uk_sglist_split(sg, second, length, junk) IN sg' = r[1] /\ second' = r[2]
  /\ last' = <<"split", length>> /\ UNCHANGED trans

Call == calls < MaxCalls /\ calls' = calls + 1

\* Every function of the interface, on the one pair of lists.
Next ==
  /\ Call
  /\ \/ \E r \in Ranges : AppendBuf(r)
     \/ \E n \in 2 .. Frags : \E chain \in [1 .. n -> {r \in Ranges : r.len <= FragLen}] : AppendNetbuf(chain)
     \/ \E o, n \in 0 .. Pages * PAGE_SIZE : AppendSglist(o, n)
     \/ \E o, n \in 0 .. Pages * PAGE_SIZE : Slice(o, n)
     \/ \E junk \in Junk : Join(junk) \/ \E n \in 1 .. Pages * PAGE_SIZE : Split(n, junk)
     \/ Reset

Spec == Init /\ [][Next]_vars

-----------------------------------------------------------------------------
\* Type invariant.
TypeOK == \A l \in {sg, second} : l.nseg \in 0 .. l.maxseg

\* What the device is told of is what was appended: wherever pages begin and
\* frames lie, a list grows by exactly the bytes of the buffer in order, and a
\* call that runs out of segments in the middle leaves it as it was.
AppendStep ==
  last'[1] = "append" =>
    BytesOf(sg') = IF sg'.error = "ok" THEN BytesOf(sg) \o last'[2] ELSE BytesOf(sg)

\* A slice is the part of the list that was asked for.
SliceStep ==
  last'[1] = "slice" /\ second'.error = "ok" /\ last'[3] > 0 =>
    BytesOf(second') = SubSeq(BytesOf(sg), last'[2] + 1, last'[2] + last'[3])

\* uk_sglist_build allocates as many segments as uk_sglist_count says: that is
\* always as many as appending takes.
CountExact ==
  last[1] = "init" =>
    \A r \in Ranges :
      uk_sglist_append(uk_sglist_init(Pages), r.buf, r.len).nseg = uk_sglist_count(r.buf, r.len)

\* "Append new segments from 'second' to 'first'." (sglist.c:292)
JoinExact ==
  [][last'[1] = "join" /\ sg'.error = "ok" =>
       BytesOf(sg') = BytesOf(sg) \o BytesOf(second)]_vars

\* "the first 'length' bytes of the 'original' list are stored in the '*head'
\* list and are removed from 'original'" (sglist.h:222)
SplitExact ==
  [][last'[1] = "split" /\ sg'.error = "ok" => BytesOf(second') \o BytesOf(sg') = BytesOf(sg)]_vars
=============================================================================
