-------------------------------- MODULE Mmap --------------------------------
(***************************************************************************)
(* mmap and munmap of the vfs emodule (mmap/mmap.c): virtual addresses     *)
(* only grow, pages come from the lists of what was unmapped and else from *)
(* the monitor in M mode, by partitions.  Addresses count from the first   *)
(* mmap_top.  Only the anonymous mappings the code serves reach it; munmap *)
(* takes nothing out of the page table.                                    *)
(***************************************************************************)
EXTENDS Integers, FiniteSets, SequencesExt

CONSTANTS
  PAGE, PARTITION, \* sizes
  Lengths,         \* that the program maps
  MaxTop,          \* bound on the addresses given out
  Whole,           \* munmap is called with the start of a mapping
  ReuseMega,       \* may a mega page be taken from the list?
  FullPartition    \* may a small mapping need every page of a partition?

MmapAssumption ==
  /\ PAGE \in Nat \ {0} /\ PARTITION \in Nat /\ PARTITION % PAGE = 0 /\ PARTITION > PAGE
  /\ Lengths \subseteq Nat \ {0} /\ MaxTop \in Nat
  /\ {Whole, ReuseMega, FullPartition} \subseteq BOOLEAN

VARIABLES
  mm,      \* [top, free_page, free_mega, pt, next]: the lists, the page table
           \* from pages to [pa, ok], and the next page the monitor has
  mmap_addr,   \* the list of mappings, [begin, len] each
  live,    \* history: the mappings the program has not unmapped
  crashed  \* the list is used while it is empty

vars == <<mm, mmap_addr, live, crashed>>

N == PARTITION \div PAGE
Up(n, unit) == ((n + unit - 1) \div unit) * unit
Pages(r) == {r.begin + k * PAGE : k \in 0 .. Up(r.len, PAGE) \div PAGE - 1}

\* The flags are added to those of the entry, so one that allows nothing
\* leaves a new page unusable.
map_page(m, va, pa, ok) ==
  [m EXCEPT !.pt = [v \in DOMAIN m.pt \cup {va} |-> IF v = va THEN [pa |-> pa, ok |-> ok] ELSE m.pt[v]]]

\* n pages at the top, each leading to the page pa has for its index.
RECURSIVE MapRun(_, _, _, _, _)
MapRun(m, k, n, pa, ok) ==
  IF k = n THEN m
  ELSE MapRun([map_page(m, m.top, pa[k], ok) EXCEPT !.top = @ + PAGE], k + 1, n, pa, ok)

\* __ecall_ebi_mem_alloc: n partitions in a row.
mem_alloc(m, n) == [m EXCEPT !.next = @ + n * N]

\* Faulty variant: what is left of the partition is listed from its start.
alloc_small_fresh_start(m, num) ==
  LET t == MapRun(mem_alloc(m, 1), 0, N, [k \in 0 .. N - 1 |-> m.next + k], TRUE)
  IN IF num = N THEN t ELSE [t EXCEPT !.free_page = <<[va |-> m.top, count |-> N - num]>>]

\* A partition from the monitor is mapped whole; what is not used is listed.
alloc_small_fresh(m, num) ==
  LET t == MapRun(mem_alloc(m, 1), 0, N, [k \in 0 .. N - 1 |-> m.next + k], TRUE)
  IN IF num = N THEN t
     ELSE [t EXCEPT !.free_page = <<[va |-> m.top + num * PAGE, count |-> N - num]>>]

\* Pages of the first block of the list are mapped a second time.
RECURSIVE alloc_small_page(_, _)
alloc_small_page(m, num) ==
  IF num = 0 THEN m
  ELSE IF m.free_page = <<>> THEN alloc_small_fresh(m, num)
  ELSE LET b == Head(m.free_page)
           n == IF num >= b.count THEN b.count ELSE num
           t == MapRun(m, 0, n, [k \in 0 .. n - 1 |-> m.pt[b.va + k * PAGE].pa], TRUE)
       IN IF num >= b.count
          THEN alloc_small_page([t EXCEPT !.free_page = Tail(@)], num - n)
          ELSE [t EXCEPT !.free_page[1] = [va |-> b.va + n * PAGE, count |-> b.count - num]]

\* The loop over free_page is left with a full partition: the code goes on
\* to the head of the empty list.
NullHead(m, num) ==
  num - FoldLeft(LAMBDA a, b : a + b.count, 0, m.free_page) = N

\* One mega page at a time from the list, with no flags; what the list does
\* not have comes from the monitor, in as many grants as it takes.
RECURSIVE alloc_mega_page(_, _)
alloc_mega_page(m, num) ==
  IF num = 0 THEN m
  ELSE IF m.free_mega = <<>>
  THEN MapRun(mem_alloc(m, num), 0, num * N, [k \in 0 .. num * N - 1 |-> m.next + k], TRUE)
  ELSE LET va == Head(m.free_mega)
           t == MapRun(m, 0, N, [k \in 0 .. N - 1 |-> m.pt[va].pa + k], FALSE)
       IN alloc_mega_page([t EXCEPT !.free_mega = Tail(@)], num - 1)

-----------------------------------------------------------------------------
Init ==
  /\ mm = [top |-> 0, free_page |-> <<>>, free_mega |-> <<>>, pt |-> <<>>, next |-> 0]
  /\ mmap_addr = <<>> /\ live = {} /\ crashed = FALSE

\* An address inside a mapping that is listed is returned as it is, and no
\* memory is mapped: only the other calls change anything.
mmap(len) ==
  LET mega == [mm EXCEPT !.top = Up(@, PARTITION)]
      m == IF len >= PARTITION THEN alloc_mega_page(mega, Up(len, PARTITION) \div PARTITION)
           ELSE alloc_small_page(mm, Up(len, PAGE) \div PAGE)
      new == [begin |-> IF len >= PARTITION THEN mega.top ELSE mm.top, len |-> len]
      null == len < PARTITION /\ NullHead(mm, Up(len, PAGE) \div PAGE)
  IN /\ ~crashed /\ m.top <= MaxTop
     /\ (null => FullPartition) /\ (len >= PARTITION /\ mm.free_mega # <<>> => ReuseMega)
     /\ mm' = m /\ crashed' = null
     /\ mmap_addr' = Append(mmap_addr, new) /\ live' = live \cup {new}

\* The first mapping addr is in, if it is as long as len.  prev is never set,
\* so the list then starts behind it.  Of a large mapping one mega page is
\* listed, of a small one the pages that len fills.
munmap(addr, len) ==
  /\ ~crashed
  /\ \E i \in DOMAIN mmap_addr :
       LET in(j) == addr \in mmap_addr[j].begin .. mmap_addr[j].begin + mmap_addr[j].len - 1
       IN /\ in(i) /\ \A j \in 1 .. i - 1 : ~in(j)
          /\ len = mmap_addr[i].len /\ (Whole => addr = mmap_addr[i].begin)
          /\ mm' = IF len >= PARTITION THEN [mm EXCEPT !.free_mega = <<addr>> \o @]
                   ELSE [mm EXCEPT !.free_page = <<[va |-> addr, count |-> len \div PAGE]>> \o @]
          /\ mmap_addr' = SubSeq(mmap_addr, i + 1, Len(mmap_addr))
          /\ live' = live \ {mmap_addr[i]}
  /\ UNCHANGED crashed

Next ==
  \/ \E len \in Lengths : mmap(len)
  \/ \E k \in 0 .. MaxTop \div PAGE, len \in Lengths : munmap(k * PAGE, len)

Spec == Init /\ [][Next]_vars

-----------------------------------------------------------------------------
FreePages ==
  UNION {{b.va + k * PAGE : k \in 0 .. b.count - 1} : b \in ToSet(mm.free_page)}
    \cup UNION {{va + k * PAGE : k \in 0 .. N - 1} : va \in ToSet(mm.free_mega)}
Pa(va) == mm.pt[va].pa

\* Type invariant.
TypeOK ==
  /\ mm.top \in 0 .. MaxTop /\ mm.top % PAGE = 0 /\ mm.next \in Nat
  /\ \A v \in DOMAIN mm.pt : v % PAGE = 0 /\ mm.pt[v].pa \in 0 .. mm.next - 1
  /\ ToSet(mmap_addr) \subseteq live

\* Every page of a mapping is mapped, no physical page belongs to two
\* mappings or twice to one, and none that is on a list belongs to any: pages
\* mapped a second time never show one mapping's bytes in another.  "We cannot
\* release only some part of the allocation" (mmap.c:252): no call does.
NoAlias ==
  ~crashed =>
    /\ \A r \in live : Pages(r) \subseteq DOMAIN mm.pt
    /\ \A r, s \in live : \A v \in Pages(r), w \in Pages(s) :
         Pa(v) = Pa(w) => r = s /\ v = w
    /\ \A r \in live : \A v \in Pages(r), w \in FreePages : Pa(v) # Pa(w)
    /\ \A v, w \in FreePages : Pa(v) = Pa(w) => v = w

\* map_page is to "map given va to pa" (page_table.c:80): every page of a
\* mapping leads to its physical page, whichever pages it is made of.  An
\* entry with none of PTE_R, PTE_W and PTE_X does not.
Usable == ~crashed => \A r \in live : \A v \in Pages(r) : mm.pt[v].ok

\* "Caller wants to unmap the whole region. Easy!" (mmap.c:259): the other
\* mappings stay in the list, so that they can be found and unmapped.
OthersListed == ToSet(mmap_addr) = live

\* 'printf(KRED "More pages than expected\n" RESET)' (mmap.c:40) is for more
\* pages than a partition has: up to that many are served.
FullPartitionServed == ~crashed
=============================================================================
