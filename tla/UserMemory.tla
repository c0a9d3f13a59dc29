----------------------------- MODULE UserMemory ------------------------------
(***************************************************************************)
(* The user program's memory: the U-mode page pool (page_pool.c), the      *)
(* program break and its two backings (memory.c), and the partitions the   *)
(* security monitor grants when the pool is used up.                       *)
(*                                                                         *)
(* The pool is the tail of the partition that holds the ELF payload.  The  *)
(* break starts as far below EUSR_HEAP_START_ALIGNED as the pool has pages *)
(* left, so that the pool ends where whole partitions begin.  Addresses    *)
(* are in bytes, mappings in pages.                                        *)
(***************************************************************************)
EXTENDS Integers, FiniteSets

CONSTANTS
  PageSize,     \* PAGE_SIZE
  PartPages,    \* pages of a partition: PARTITION_SIZE / PAGE_SIZE
  HeapStart,    \* EUSR_HEAP_START_ALIGNED, in pages
  PoolSize,     \* pages of the U-mode pool left when the program starts
  LowBrk,       \* the lowest break the program asks for, in bytes
  MaxBrk,       \* bound: the highest break the program asks for, in bytes
  NParts        \* partitions of the SM: 1 .. NParts; the payload is in 0

ASSUME LayoutAssumption ==
  /\ PageSize \in Nat \ {0} /\ PartPages \in Nat \ {0}
  /\ HeapStart \in Nat /\ HeapStart % PartPages = 0
  /\ PoolSize \in 0 .. PartPages - 1 /\ PoolSize < HeapStart
  /\ LowBrk \in Nat \ {0} /\ MaxBrk \in Nat /\ NParts \in Nat
  /\ (HeapStart - PoolSize) * PageSize <= MaxBrk

VARIABLES
  prog_brk,   \* the program break
  used,       \* umode_pool_desc.used_page_count
  map,        \* leaf entries of U pages: virtual page -> physical page, or NoPage
  owned,      \* partitions granted to this enclave
  others,     \* partitions granted to other enclaves
  call,       \* the brk call that waits for the SM: {} or {[new, va, size, left, sug]}
  lowered     \* history: some call has lowered the break

vars == <<prog_brk, used, map, owned, others, call, lowered>>

PageUp(a) == (a + PageSize - 1) \div PageSize
PartUp(p) == ((p + PartPages - 1) \div PartPages) * PartPages

Avail == PoolSize - used
PoolPage(i) == PartPages - PoolSize + i
Partition(pa) == pa \div PartPages

VPage == 0 .. 2 * PartUp(PageUp(MaxBrk))
NoPage == (NParts + 1) * PartPages + 2 * PartUp(PageUp(MaxBrk))

InitialBrk == (HeapStart - PoolSize) * PageSize

\* init_prog_brk, after alloc_map_umode_stack and load_elf took their pages.
Init ==
  /\ prog_brk = InitialBrk
  /\ used = 0
  /\ map = [v \in VPage |-> NoPage]
  /\ owned = {} /\ others = {}
  /\ call = {}
  /\ lowered = FALSE

\* map_page for n pages in a row, or for n / PartPages mega pages.
MapRange(m, va, pa, n) ==
  [v \in VPage |-> IF va <= v /\ v < va + n THEN pa + (v - va) ELSE m[v]]

\* Faulty variant: the pages stay in the pool.
map_brk_from_pool_no_take(va, n) ==
  used' = used /\ map' = MapRange(map, va, PoolPage(used), n)

\* alloc_umode_page and the mapping of what it returns.
map_brk_from_pool(va, n) ==
  /\ used' = used + n
  /\ map' = MapRange(map, va, PoolPage(used), n)

set_prog_brk(new) ==
  /\ prog_brk' = new
  /\ lowered' = (lowered \/ new < prog_brk)

\* sys_brk_handler up to its return, or to its first request to the SM.
sys_brk_handler(new) ==
  /\ call = {}
  /\ LET an == PageUp(new)
         ao == PageUp(prog_brk)
         n  == IF an - ao <= Avail THEN an - ao ELSE Avail
         pn == PartUp(an)
         po == PartUp(IF an - ao > Avail THEN ao + n ELSE ao)
     IN \/ /\ an <= ao
           /\ set_prog_brk(new)
           /\ UNCHANGED <<used, map, call>>
        \/ /\ an > ao
           /\ map_brk_from_pool(ao, n)
           /\ IF pn > po
              THEN /\ call' = {[new |-> new, va |-> po, size |-> pn - po,
                                left |-> (pn - po) \div PartPages,
                                sug |-> (pn - po) \div PartPages]}
                   /\ UNCHANGED <<prog_brk, lowered>>
              ELSE set_prog_brk(new) /\ UNCHANGED call
  /\ UNCHANGED <<owned, others>>

\* Faulty variant: va is not advanced past a grant.
outside_pool_same_va(c, base) ==
  /\ map' = MapRange(map, c.va, base * PartPages, c.size)
  /\ owned' = owned \cup (base .. base + c.sug - 1)
  /\ IF c.left > c.sug
     THEN /\ call' = {[c EXCEPT !.left = @ - c.sug, !.sug = c.left - c.sug]}
          /\ UNCHANGED <<prog_brk, lowered>>
     ELSE call' = {} /\ set_prog_brk(c.new)
  /\ UNCHANGED <<used, others>>

\* One answered request of alloc_map_brk_outside_pool: the mapping loop runs
\* over all the partitions of the call, whatever this grant's size.
alloc_map_brk_outside_pool(c, base) ==
  LET run == base .. base + c.sug - 1
      left == c.left - c.sug
  IN /\ map' = MapRange(map, c.va, base * PartPages, c.size)
     /\ owned' = owned \cup run
     /\ IF left > 0
        THEN /\ call' = {[c EXCEPT !.va = @ + c.sug * PartPages, !.left = left, !.sug = left]}
             /\ UNCHANGED <<prog_brk, lowered>>
        ELSE call' = {} /\ set_prog_brk(c.new)
     /\ UNCHANGED <<used, others>>

------------------------------------------------------------------------------
(* The security monitor (external): it grants the partitions asked for, in *)
(* a row, or refuses and suggests a smaller number that is at least one.   *)

Free == (1 .. NParts) \ (owned \cup others)
Runs(n) == {b \in 1 .. NParts : b .. b + n - 1 \subseteq Free}

mem_alloc_grant ==
  \E c \in call : \E base \in Runs(c.sug) : alloc_map_brk_outside_pool(c, base)

mem_alloc_refuse ==
  \E c \in call :
    /\ Runs(c.sug) = {}
    /\ \E s \in 1 .. c.sug :
         /\ Runs(s) # {} \/ s = 1
         /\ call' = {[c EXCEPT !.sug = s]}
    /\ UNCHANGED <<prog_brk, used, map, owned, others, lowered>>

\* Other enclaves come and go.
OtherEnclave ==
  /\ \E p \in 1 .. NParts :
       \/ p \in Free /\ others' = others \cup {p}
       \/ p \in others /\ others' = others \ {p}
  /\ UNCHANGED <<prog_brk, used, map, owned, call, lowered>>

------------------------------------------------------------------------------
Next ==
  \/ \E new \in LowBrk .. MaxBrk : sys_brk_handler(new)
  \/ mem_alloc_grant
  \/ mem_alloc_refuse
  \/ OtherEnclave

Spec == Init /\ [][Next]_vars

------------------------------------------------------------------------------
Mapped(v) == map[v] # NoPage
Own(pa) == \/ pa \in {PoolPage(i) : i \in 0 .. used - 1}
           \/ Partition(pa) \in owned

\* Type invariant.
TypeOK ==
  /\ prog_brk \in LowBrk .. MaxBrk \cup {InitialBrk}
  /\ used \in 0 .. PoolSize
  /\ map \in [VPage -> 0 .. NoPage]
  /\ owned \subseteq 1 .. NParts /\ others \subseteq 1 .. NParts
  /\ owned \cap others = {}
  /\ call \subseteq [new : LowBrk .. MaxBrk, va : VPage, size : VPage,
                     left : VPage \ {0}, sug : VPage \ {0}]
  /\ Cardinality(call) <= 1

\* A program that only grows its heap can use all of it: every page from the
\* initial break up to the break is mapped, to a page that is the enclave's,
\* however the SM split its grants.  And no memory is lost: between calls the
\* pages taken from the pool and the partitions granted are what it needs.
HeapBacked ==
  TypeOK /\ (~lowered =>
    LET end == PageUp(prog_brk)
    IN /\ \A v \in HeapStart - PoolSize .. end - 1 : Mapped(v) /\ Own(map[v])
       /\ call = {} =>
            /\ used = (IF end < HeapStart THEN end ELSE HeapStart) - (HeapStart - PoolSize)
            /\ end > HeapStart => Cardinality(owned) = (PartUp(end) - HeapStart) \div PartPages
            /\ end <= HeapStart => owned = {})

\* No two pages below the break share memory, also after the break has gone
\* down and up again, and nothing below it leads to memory of another enclave.
NoAlias ==
  \A v \in HeapStart - PoolSize .. PageUp(prog_brk) - 1 :
    Mapped(v) => /\ Own(map[v])
                 /\ \A w \in HeapStart - PoolSize .. v - 1 : map[w] # map[v]

\* Growing the heap keeps what the program has: no step of a brk call remaps
\* a page below the break.
KeepsPages ==
  [][\A v \in HeapStart - PoolSize .. PageUp(prog_brk) - 1 : map'[v] = map[v]]_vars

\* "invoked after simple pool out of memory" (memory.c, of
\* alloc_map_brk_outside_pool): the SM is asked only when the pool is empty.
OutsidePoolOnlyWhenEmpty == call # {} => Avail = 0
==============================================================================
