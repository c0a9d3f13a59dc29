------------------------------ MODULE MCMemory ------------------------------
(***************************************************************************)
(* The memory of an enclave, on small instances: the heap of the program   *)
(* (UserMemory, with its own variables), the page table, the heap of the   *)
(* emodules, mmap, and the loader of the program.                          *)
(*                                                                         *)
(* A behaviour is one of a single part: on names it.  x1 to x9 are the     *)
(* variables of the parts other than UserMemory, in the order their        *)
(* modules declare them.                                                   *)
(***************************************************************************)
EXTENDS UserMemory

VARIABLES on, x1, x2, x3, x4, x5, x6, x7, x8, x9

-----------------------------------------------------------------------------
(* Three entries a table: a giga page (the linear map), a mega page (the   *)
(* heap), pages beside it in the same table (the stack) and pages          *)
(* elsewhere (an emodule).                                                 *)

Places == {<<0, 0>>, <<9, 1>>, <<12, 2>>, <<14, 2>>, <<21, 2>>}

Bits == {{"r", "w"}, {"x"}}
Memory == {27, 36}

Tables == INSTANCE PageTable WITH
  Fan <- 3, Calls <- Places, Frames <- Memory, Perms <- Bits, PoolPages <- 3,
  tables <- x1, used <- x2, mode <- x3

Requests == {1, 7, 17}

Alloc == INSTANCE Heap WITH
  PartWords <- 32, MIN_WILDERNESS <- 8, BIN_MAX_IDX <- 5, Sizes <- Requests, Aligns <- {8},
  MaxLive <- 3, MaxEnd <- 104,
  WholeWild <- FALSE, RaggedCut <- FALSE, heap <- x1, live <- x2

Area == INSTANCE Mmap WITH
  PAGE <- 2, PARTITION <- 6, Lengths <- {1, 4, 7}, MaxTop <- 24,
  Whole <- TRUE, ReuseMega <- FALSE, FullPartition <- FALSE,
  mm <- x1, mmap_addr <- x2, live <- x3, crashed <- x4

-----------------------------------------------------------------------------
(* Text, and data at every place of a page and a partition, with bss of    *)
(* every size up to three partitions; its end stays in the page that the   *)
(* file's size and the bss' size, each rounded up, reach.                  *)

Seg(v, off, file, mem) == [v |-> v, off |-> off, file |-> file, mem |-> mem]
Even(a) == ((a + 1) \div 2) * 2
Enough(s) == Even(s.v + s.mem) - Even(s.v + s.file) <= Even(s.mem) - Even(s.file)
Data == {Seg(16 + x, 4 + x, f, f + m) : x \in 0 .. 7, f \in 0 .. 3, m \in 0 .. 24}
LateData == {Seg(17, 5, 2, m) : m \in 2 .. 20}
Programs == {<<Seg(0, 0, 3, 3), d>> : d \in {s \in Data : Enough(s)}}
              \cup {<<Seg(0, 0, 1, 3), d>> : d \in {s \in LateData : Enough(s)}}

Loader == INSTANCE ElfLoad WITH
  PAGE <- 2, PARTITION <- 8, STACK <- 2, STACK_TOP <- 80,
  PayloadSize <- {14, 15, 16, 17, 20, 22}, Payloads <- Programs,
  size <- x1, phdr <- x2, pt <- x3, pool <- x4, granted <- x5, i <- x6, left <- x7, va <- x8,
  pc <- x9

-----------------------------------------------------------------------------
ASSUME PartsAssumption ==
  /\ Tables!CallsAssumption /\ Alloc!HeapAssumption /\ Area!MmapAssumption
  /\ Loader!ElfAssumption

\* The variables a part does not have.
From1 == <<x1, x2, x3, x4, x5, x6, x7, x8, x9>>
From3 == <<x3, x4, x5, x6, x7, x8, x9>>
From4 == <<x4, x5, x6, x7, x8, x9>>
From5 == <<x5, x6, x7, x8, x9>>

None5 == x5 = 0 /\ x6 = 0 /\ x7 = 0 /\ x8 = 0 /\ x9 = 0
None4 == x4 = 0 /\ None5
None3 == x3 = 0 /\ None4
None1 == x1 = 0 /\ x2 = 0 /\ None3

PartsInit ==
  /\ Init
  /\ \/ on = "brk" /\ None1
     \/ on = "tables" /\ Tables!Init /\ None4
     \/ on = "heap" /\ Alloc!Init /\ None3
     \/ on = "mmap" /\ Area!Init /\ None5
     \/ on = "elf" /\ Loader!Init

\* The area of mmap may be full, and the loader comes to its end.
Ended == on \in {"mmap", "elf"} /\ UNCHANGED <<on, vars, From1>>

PartsNext ==
  \/ on = "brk" /\ Next /\ UNCHANGED <<on, From1>>
  \/ on = "tables" /\ Tables!Next /\ UNCHANGED <<on, vars, From4>>
  \/ on = "heap" /\ Alloc!Next /\ UNCHANGED <<on, vars, From3>>
  \/ on = "mmap" /\ Area!Next /\ UNCHANGED <<on, vars, From5>>
  \/ on = "elf" /\ Loader!Next /\ UNCHANGED <<on, vars>>
  \/ Ended

allVars == <<on, vars, From1>>
PartsSpec == PartsInit /\ [][PartsNext]_allVars

-----------------------------------------------------------------------------
(* Properties, beside those of UserMemory.                                 *)

\* map_page, unmap_page and get_pa together are a partial function on pages,
\* changed one mapping at a time.
Trans == [v \in Tables!VPage |-> Tables!get_pa(v)]
MapStep == on = "tables" => Tables!TypeOK /\ (UNCHANGED Trans \/ Tables!Map!Next)
MapSpec == (on = "tables" => Tables!Map!Init) /\ [][MapStep]_allVars

\* heap_alloc, heap_memalign and heap_free keep the heap sound: its chunks tile
\* it, with a free one of MIN_WILDERNESS at the end, the bins hold exactly the
\* free chunks, and each payload handed out is in a chunk of its own.
HeapSound == on = "heap" => Alloc!TypeOK /\ Alloc!Tiled /\ Alloc!BinsExact /\ Alloc!NoOverlap

\* No step of the allocator changes a word of a payload that is held before
\* and after it.
PayloadStep ==
  on = "heap" => \A r \in x2 \cap x2' : \A a \in r.p .. r.p + r.size - 1 :
                   x1'.mem[a] = x1.mem[a]
PayloadsKept == [][PayloadStep]_allVars

\* mmap and munmap: no physical page is in two mappings, or in one and free.
MappingsApart == on = "mmap" => Area!TypeOK /\ Area!NoAlias

\* A program that starts has all of its segments, in memory of its own.
ProgramLoaded == on = "elf" => Loader!TypeOK /\ Loader!ProgramLoaded
=============================================================================
