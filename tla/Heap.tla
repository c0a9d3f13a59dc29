-------------------------------- MODULE Heap --------------------------------
(***************************************************************************)
(* The heap of the alloc emodule: emod_alloc/heap.c and emod_alloc/llist.c. *)
(* Memory is an array of machine words, so that headers, footers, list     *)
(* links and the callers' data all live in it, as in the code.  A chunk at *)
(* address n is a header node_t of four words (hole, size, next, prev),    *)
(* "size" words of payload and a footer_t of one word, the address of the  *)
(* header.  Free chunks hang in bins, doubly linked lists ordered by size; *)
(* the last chunk, found through the footer below heap.end, is the          *)
(* wilderness, which expand makes larger.  Sizes count words: MIN_ALLOC_SZ *)
(* is half a word, and "x > MIN_ALLOC_SZ" is "x > 0" for whole words.      *)
(***************************************************************************)
EXTENDS Integers, Sequences, FiniteSets, FiniteSetsExt, TLC

CONSTANTS PartWords,     \* PARTITION_SIZE and HEAP_INIT_SIZE
          MIN_WILDERNESS,
          BIN_MAX_IDX,
          Sizes,         \* sizes callers ask for
          Aligns,        \* alignments callers ask for
          MaxLive,       \* bound: chunks the callers hold at once
          MaxEnd,        \* bound: heap.end
          WholeWild,     \* may a request take the wilderness without a split?
          RaggedCut      \* may heap_memalign leave words that belong to no chunk?

HeapAssumption == /\ PartWords \in Nat \ {0} /\ MIN_WILDERNESS \in Nat \ {0}
                         /\ 0 \notin Sizes /\ 0 \notin Aligns
                         /\ MaxEnd >= 2 * PartWords

VARIABLES heap,   \* [mem, bins, end, top]: the words, the bins' heads, heap.end
                  \* and the end of the partitions mapped for the heap
          live    \* the payloads the callers hold: [p, size] records

vars == <<heap, live>>

NULL == 0
start == PartWords          \* heap.start = POOL_VA_START, partition aligned
SizeofNode == 4
SizeofFoot == 1
overhead == SizeofNode + SizeofFoot
Junk == -1                  \* what a caller writes into its payload
Bins == 0..BIN_MAX_IDX
ROUNDUP(x, a) == ((x + a - 1) \div a) * a
PARTITION_UP(x) == ROUNDUP(x, PartWords)

(***************************************************************************)
(* The fields of a node_t, and the lists (llist.c).                        *)
(***************************************************************************)
hole(h, n) == h.mem[n]
size(h, n) == h.mem[n + 1]
next(h, n) == h.mem[n + 2]
prev(h, n) == h.mem[n + 3]

Write(h, words) == [h EXCEPT !.mem = words @@ @]
SetHole(n, v) == n :> v
SetSize(n, v) == (n + 1) :> v
SetNext(n, v) == (n + 2) :> v
SetPrev(n, v) == (n + 3) :> v

\* the nodes reached from node n along "next"
RECURSIVE Walk(_, _)
Walk(h, n) == IF n = NULL THEN <<>> ELSE <<n>> \o Walk(h, next(h, n))

List(h, b) == Walk(h, h.bins[b])

\* floor(log2(bytes)) - 2, for a size in words of 8 bytes
RECURSIVE Log2(_)
Log2(w) == IF w <= 1 THEN 0 ELSE 1 + Log2(w \div 2)

get_bin_index(sz) == IF sz = 0 THEN 0 ELSE Min({Log2(sz) + 1, BIN_MAX_IDX})

add_node(h0, b, n) ==
  LET h == Write(h0, SetNext(n, NULL) @@ SetPrev(n, NULL))
      list == List(h, b)
      k == Cardinality({i \in DOMAIN list : \A j \in 1..i : size(h, list[j]) <= size(h, n)})
  IN CASE list = <<>> -> [h EXCEPT !.bins[b] = n]
       [] k = Len(list) /\ k > 0 -> Write(h, SetNext(list[k], n) @@ SetPrev(n, list[k]))
       [] k \in 1..(Len(list) - 1) ->
            Write(h, SetNext(n, list[k + 1]) @@ SetNext(list[k], n)
                     @@ SetPrev(n, list[k]) @@ SetPrev(list[k + 1], n))
       [] OTHER -> [Write(h, SetNext(n, list[1]) @@ SetPrev(list[1], n)) EXCEPT !.bins[b] = n]

\* faulty variant: the successor keeps its old "prev"
remove_node_one_way(h, b, n) ==
  CASE h.bins[b] = n -> [h EXCEPT !.bins[b] = next(h, n)]
    [] \E i \in DOMAIN List(h, b) : List(h, b)[i] = n ->
         Write(h, SetNext(prev(h, n), next(h, n)))
    [] OTHER -> h

remove_node(h, b, n) ==
  LET nx == next(h, n)
  IN CASE h.bins[b] = NULL -> h
       [] h.bins[b] = n -> [h EXCEPT !.bins[b] = nx]
       [] \E i \in DOMAIN List(h, b) : List(h, b)[i] = n ->
            Write(h, SetNext(prev(h, n), nx)
                     @@ (IF nx = NULL THEN <<>> ELSE SetPrev(nx, prev(h, n))))
       [] OTHER -> h

get_best_fit(h, b, sz) == SelectSeq(List(h, b), LAMBDA n : size(h, n) >= sz)

(***************************************************************************)
(* Chunks (heap.c).  The operators take a heap and return one.             *)
(***************************************************************************)
get_foot(h, n) == n + SizeofNode + size(h, n)
create_foot(h, n) == Write(h, get_foot(h, n) :> n)
get_wilderness(h) == h.mem[h.end - SizeofFoot]

add_node_to_bin(h, n) == add_node(h, get_bin_index(size(h, n)), n)

\* the first fit of the first bin, from the bin of sz upwards, that has one
search_fit_node(h, sz) ==
  LET fitting(i) == {b \in Bins : b >= i /\ get_best_fit(h, b, sz) # <<>>}
      at(b) == [node |-> Head(get_best_fit(h, b, sz)), index |-> b]
      first(bins) == IF bins = {} THEN [node |-> NULL, index |-> 0] ELSE at(Min(bins))
  IN first(fitting(get_bin_index(sz)))

expand(h, sz) ==
  LET wild == get_wilderness(h)
      h1 == Write(h, get_foot(h, wild) :> 0)
      h2 == remove_node(h1, get_bin_index(size(h1, wild)), wild)
      h3 == [Write(h2, SetSize(wild, size(h2, wild) + sz))
                EXCEPT !.end = @ + sz, !.top = PARTITION_UP(h.end + sz)]
  IN add_node_to_bin(create_foot(h3, wild), wild)

\* the refill of the wilderness at the end of heap_alloc and heap_memalign
\* (contract does nothing)
keep_wilderness(h) ==
  LET w == size(h, get_wilderness(h))
  IN IF w < MIN_WILDERNESS THEN expand(h, MIN_WILDERNESS - w) ELSE h

\* the increment when no bin has a fit; the code's 0x10000 is MIN_WILDERNESS
Increment(h, sz) == sz + MIN_WILDERNESS - size(h, get_wilderness(h))

\* search, and search again in the expanded heap
fit_or_expand(h, sz) ==
  IF search_fit_node(h, sz).node # NULL THEN h ELSE expand(h, Increment(h, sz))

\* cut the rest of a found node off and put it in its bin
split(h, n, sz) ==
  LET s == n + overhead + sz
      h1 == create_foot(Write(h, SetSize(s, size(h, n) - sz - overhead) @@ SetHole(s, 1)), s)
  IN create_foot(Write(add_node_to_bin(h1, s), SetSize(n, sz)), n)

\* heap_alloc after the search: [h, p], the heap it leaves and the result
take(h, f, sz) ==
  LET h1 == IF size(h, f.node) - sz > overhead THEN split(h, f.node, sz) ELSE h
      h2 == remove_node(Write(h1, SetHole(f.node, 0)), f.index, f.node)
      h3 == keep_wilderness(h2)
  IN [h |-> Write(h3, SetNext(f.node, NULL) @@ SetPrev(f.node, NULL)),
      p |-> f.node + SizeofNode]

\* heap_memalign when the found node f.node is not aligned
cut(h0, f, sz, align) ==
  LET found == f.node
      p == ROUNDUP(found + SizeofNode, align)
      node == p - SizeofNode
      dist == node - found
      h1 == Write(remove_node(h0, f.index, found), SetHole(node, 0) @@ SetSize(node, sz))
      prev_sz == IF dist > overhead THEN dist - overhead ELSE 0
      remain_sz == size(h1, found) - prev_sz - sz - 2 * overhead
      h2 == create_foot(h1, node)
      h3 == IF prev_sz > 0
            THEN add_node_to_bin(create_foot(Write(h2,
                     SetHole(found, 1) @@ SetSize(found, prev_sz)), found), found)
            ELSE h2
      remain == node + sz + overhead
      h4 == IF remain_sz > 0
            THEN add_node_to_bin(create_foot(Write(h3,
                     SetHole(remain, 1) @@ SetSize(remain, remain_sz)), remain), remain)
            ELSE h3
  IN [h |-> keep_wilderness(h4), p |-> p]

\* does the cut leave every word in some chunk?
Clean(h, found, sz, align) ==
  LET dist == ROUNDUP(found + SizeofNode, align) - SizeofNode - found
      rest == size(h, found) - dist - sz
  IN dist > overhead /\ (rest = 0 \/ rest > overhead)

(***************************************************************************)
(* The calls of the allocator's interface.                                 *)
(***************************************************************************)
\* a request that would take the whole wilderness, without a split
TakesWild(h, sz) ==
  LET f == search_fit_node(h, sz)
  IN f.node = get_wilderness(h) /\ size(h, f.node) - sz <= overhead

Fill(h, p, sz, v) == Write(h, [a \in p..(p + sz - 1) |-> v])

Return(r, sz) ==
  /\ r.h.end <= MaxEnd
  /\ heap' = Fill(r.h, r.p, sz, Junk)
  /\ live' = live \cup {[p |-> r.p, size |-> sz]}

\* An expansion by a negative increment asks the SM for some 2^43 partitions
\* and does not return.  An expansion stays below the bound.
Returns(sz) == search_fit_node(heap, sz).node = NULL =>
                  /\ Increment(heap, sz) >= 0
                  /\ heap.end + Increment(heap, sz) <= MaxEnd

\* The caller fills the payload it gets (after heap_calloc, over its zeros).
heap_alloc(sz) ==
  /\ Cardinality(live) < MaxLive /\ Returns(sz)
  /\ LET h == fit_or_expand(heap, sz)
         f == search_fit_node(h, sz)
     IN (WholeWild \/ ~TakesWild(h, sz)) /\ Return(take(h, f, sz), sz)

heap_memalign(n, align) ==
  LET sz == ROUNDUP(n, align)
      all == ROUNDUP(sz + overhead, align)
  IN /\ Cardinality(live) < MaxLive /\ Returns(all)
     /\ LET h == fit_or_expand(heap, all)
            f == search_fit_node(h, all)
        IN \/ /\ (f.node + SizeofNode) % align = 0
              /\ WholeWild \/ ~TakesWild(h, all)
              /\ Return(take(h, f, all), sz)
           \/ /\ (f.node + SizeofNode) % align # 0
              /\ RaggedCut \/ Clean(h, f.node, sz, align)
              /\ Return(cut(h, f, sz, align), sz)

\* merge the freed node n with the free chunk before it: [h, n]
merge_prev(h, n) ==
  LET pr == h.mem[n - SizeofFoot]
      h1 == remove_node(h, get_bin_index(size(h, pr)), pr)
      h2 == Write(h1, SetSize(pr, size(h1, pr) + overhead + size(h1, n)))
  IN IF hole(h, pr) = 0 THEN [h |-> h, n |-> n]
     ELSE [h |-> Write(h2, get_foot(h2, n) :> pr), n |-> pr]

\* Faulty variant: the next chunk is merged even if it is not free.
merge_next_always(h, n, nx) ==
  LET h1 == remove_node(h, get_bin_index(size(h, nx)), nx)
  IN create_foot(Write(h1, SetSize(n, size(h1, n) + overhead + size(h1, nx))), n)

\* merge the freed node n with the free chunk nx after it
merge_next(h, n, nx) ==
  LET h1 == remove_node(h, get_bin_index(size(h, nx)), nx)
      h2 == Write(h1, SetSize(n, size(h1, n) + overhead + size(h1, nx))
                      @@ (get_foot(h1, nx) :> 0) @@ SetSize(nx, 0) @@ SetHole(nx, 0))
  IN IF hole(h, nx) = 0 THEN h ELSE create_foot(h2, n)

\* The words of a free payload are don't-cares: no operation reads one before
\* it writes it, as long as the chunks tile the heap.  They are kept at zero.
Forget(h, n) == Fill(h, n + SizeofNode, size(h, n), 0)

free(h, n) ==
  LET nx == get_foot(h, n) + SizeofFoot
      m == merge_prev(h, n)
      h1 == merge_next(m.h, m.n, nx)
      h2 == IF n = start THEN h ELSE h1
      n2 == IF n = start THEN n ELSE m.n
  IN Forget(add_node_to_bin(Write(h2, SetHole(n2, 1)), n2), n2)

heap_free(r) ==
  /\ r \in live
  /\ live' = live \ {r}
  /\ heap' = free(heap, r.p - SizeofNode)

init_heap ==
  LET empty == [mem |-> [a \in 0..MaxEnd |-> 0], bins |-> [b \in Bins |-> NULL],
                end |-> 2 * PartWords, top |-> 2 * PartWords]
      region == Write(empty, SetHole(start, 1) @@ SetSize(start, PartWords - overhead))
  IN add_node_to_bin(create_foot(region, start), start)

Init == heap = init_heap /\ live = {}

Next == \/ \E sz \in Sizes : heap_alloc(sz)
        \/ \E sz \in Sizes, a \in Aligns : heap_memalign(sz, a)
        \/ \E r \in live : heap_free(r)

Spec == Init /\ [][Next]_vars

(***************************************************************************)
(* Properties.                                                             *)
(***************************************************************************)
\* The chunks met by walking from heap.start over the sizes, up to heap.end.
RECURSIVE ChunksFrom(_, _)
ChunksFrom(h, n) == IF n >= h.end THEN {} ELSE {n} \cup ChunksFrom(h, get_foot(h, n) + SizeofFoot)

Chunks == ChunksFrom(heap, start)

\* Type invariant of the heap's words, bins and bounds.
TypeOK == /\ heap.mem \in [0..MaxEnd -> -1..MaxEnd]
          /\ heap.bins \in [Bins -> 0..MaxEnd]
          /\ heap.end \in (2 * PartWords)..MaxEnd
          /\ heap.end <= heap.top /\ heap.top % PartWords = 0
          /\ \A r \in live : r.p \in start..heap.end

HoldHoles(h) == \A b \in Bins : \A i \in DOMAIN List(h, b) :
                   hole(h, List(h, b)[i]) = 1 /\ size(h, List(h, b)[i]) > 0

\* What add_node_to_bin asserts of a node it bins, of every node in a bin: it
\* is a hole and has a size.  So it is between calls, and inside a call that
\* had to expand the heap.
BinsHoldHoles == /\ HoldHoles(heap)
                 /\ \A sz \in Sizes : Returns(sz) => HoldHoles(fit_or_expand(heap, sz))

\* The boundary tags are sound: the chunks tile the heap exactly, from
\* heap.start to heap.end, and every footer leads back to its header, so the
\* neighbours heap_free computes from sizes and footers are the real ones.  The
\* last chunk is free and holds at least MIN_WILDERNESS, so that expand always
\* enlarges a chunk nobody holds, and far enough for the second search.
Tiled ==
  /\ \A n \in Chunks : get_foot(heap, n) < heap.end /\ heap.mem[get_foot(heap, n)] = n
  /\ \E n \in Chunks : get_foot(heap, n) + SizeofFoot = heap.end
  /\ hole(heap, get_wilderness(heap)) = 1 /\ size(heap, get_wilderness(heap)) >= MIN_WILDERNESS
  /\ \A sz \in Sizes : Returns(sz) => search_fit_node(fit_or_expand(heap, sz), sz).node # NULL

\* The bins hold exactly the free chunks, each in the bin of its size, in the
\* order of sizes, and remove_node's use of "prev" is sound: each node but
\* the first has its predecessor there.
BinsExact ==
  /\ {n \in Chunks : hole(heap, n) # 0} =
       UNION {{List(heap, b)[i] : i \in DOMAIN List(heap, b)} : b \in Bins}
  /\ \A b \in Bins : \A i \in DOMAIN List(heap, b) :
       LET list == List(heap, b)
       IN /\ get_bin_index(size(heap, list[i])) = b
          /\ i > 1 => /\ prev(heap, list[i]) = list[i - 1]
                      /\ size(heap, list[i - 1]) <= size(heap, list[i])

\* No call hands out memory somebody holds, or memory the allocator keeps its
\* own tags in: each payload held lies inside the payload of one chunk that is
\* not free, and no two of them in the same chunk.
NoOverlap ==
  /\ \A r \in live : \E n \in Chunks :
       hole(heap, n) = 0 /\ r.p = n + SizeofNode /\ r.size <= size(heap, n)
  /\ \A r, s \in live : r.p = s.p => r = s

\* No step of the allocator changes a word of a payload that is held before
\* and after it.
PayloadsKept == [][\A r \in live \cap live' : \A a \in r.p..(r.p + r.size - 1) :
                     heap'.mem[a] = heap.mem[a]]_vars
=============================================================================
