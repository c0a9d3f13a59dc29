------------------------------ MODULE ElfLoad -------------------------------
(***************************************************************************)
(* The lower half of the enclave's boot up to init_prog_brk (boot/boot.c): *)
(* the arguments' page, the U-mode page pool behind it, the stack, and     *)
(* load_elf (elf/elf_loader.c), which maps the segments of the payload     *)
(* where they lie and finds pages for their bss in the pool or, for a      *)
(* large one, asks the security monitor, who may grant less than asked.    *)
(* Addresses are in bytes; the payload starts at physical address 0, at    *)
(* the start of a partition.  Headers that elf_check refuses are left out. *)
(***************************************************************************)
EXTENDS Integers, FiniteSets, SequencesExt

CONSTANTS
  PAGE, PARTITION,  \* PAGE_SIZE, PARTITION_SIZE
  STACK,            \* UMODE_STACK_SIZE
  STACK_TOP,        \* UMODE_STACK_TOP_VA
  PayloadSize,      \* sizes of the payload
  Payloads          \* sequences of segments [v, off, file, mem] with PT_LOAD

ElfAssumption ==
  /\ PAGE \in Nat \ {0} /\ PARTITION % PAGE = 0 /\ STACK % PAGE = 0 /\ STACK_TOP % PAGE = 0
  /\ \A p \in Payloads : \A i \in DOMAIN p :
       p[i].file <= p[i].mem /\ p[i].v % PAGE = p[i].off % PAGE

VARIABLES
  size, phdr,   \* of the payload
  pt,           \* the pages mapped for the program: va to pa
  pool,         \* [start, size, used]: umode_pool_desc
  granted,      \* end of the memory the monitor has granted
  i,            \* the segment being loaded
  left, va,     \* partitions still to ask for, and where they go
  pc            \* "argv", "file", "bss", "grant", "zero", "done", "panic" or "fault"

vars == <<size, phdr, pt, pool, granted, i, left, va, pc>>

Down(n, unit) == (n \div unit) * unit
Up(n, unit) == Down(n + unit - 1, unit)

\* map_page for n bytes from v on.
Mapped(p, v, pa, n) ==
  [x \in DOMAIN p \cup {v + k * PAGE : k \in 0 .. n \div PAGE - 1} |->
     IF x \in v .. v + n - 1 THEN pa + (x - v) ELSE p[x]]

map_user_argv(p, pa) == Mapped(p, STACK_TOP, pa, PAGE)

\* alloc_page of the U-mode pool: the next n bytes, or a panic.
PoolOut(p, n) == p.used + n > p.size

get_pool_top(p) == p.start + p.used

alloc_umode_page(p, n) == [p EXCEPT !.used = @ + n]

alloc_map_umode_stack(p, top) == Mapped(p, STACK_TOP - STACK, top, STACK)

seg == phdr[i]
end_vaddr == Up(seg.v + seg.file, PAGE)
size_diff == Up(seg.mem, PAGE) - Up(seg.file, PAGE)
number_of_partitions == Up(size_diff, PARTITION) \div PARTITION

-----------------------------------------------------------------------------
Init ==
  /\ size \in PayloadSize /\ phdr \in {p \in Payloads : \A k \in DOMAIN p : p[k].off + p[k].file <= size}
  /\ pt = <<>> /\ pool = [start |-> 0, size |-> 0, used |-> 0]
  /\ granted = Up(Up(size, PAGE) + PAGE, PARTITION)
  /\ i = 1 /\ left = 0 /\ va = 0 /\ pc = "argv"

\* emain_lower_half up to load_elf: the pool is what is left of the partition
\* the arguments end in, and the stack is the first to use it.
emain_lower_half ==
  LET argv == Up(size, PAGE)
      end == argv + PAGE
      p == [start |-> end, size |-> Up(end, PARTITION) - end, used |-> 0]
      args == map_user_argv(pt, argv)
  IN /\ pc = "argv"
     /\ IF PoolOut(p, STACK) THEN pt' = args /\ pool' = p /\ pc' = "panic"
        ELSE /\ pt' = alloc_map_umode_stack(args, get_pool_top(p))
             /\ pool' = alloc_umode_page(p, STACK)
             /\ pc' = "file"
     /\ UNCHANGED <<size, phdr, granted, i, left, va>>

\* The pages the payload has of a segment.
map_elf_file ==
  /\ pc = "file"
  /\ IF i > Len(phdr) THEN pc' = "done" /\ UNCHANGED pt
     ELSE /\ pt' = Mapped(pt, Down(seg.v, PAGE), Down(seg.off, PAGE),
                          end_vaddr - Down(seg.v, PAGE))
          /\ pc' = "bss"
  /\ UNCHANGED <<size, phdr, pool, granted, i, left, va>>

\* A bss of less than a partition: alloc_umode_page, which panics when the
\* pool is out of pages.
map_elf_bss ==
  /\ pc = "bss" /\ seg.file < seg.mem /\ size_diff < PARTITION
  /\ IF PoolOut(pool, size_diff) THEN pc' = "panic" /\ UNCHANGED <<pt, pool>>
     ELSE /\ pt' = Mapped(pt, end_vaddr, get_pool_top(pool), size_diff)
          /\ pool' = alloc_umode_page(pool, size_diff)
          /\ pc' = "zero"
  /\ UNCHANGED <<size, phdr, granted, i, left, va>>

map_elf_none ==
  /\ pc = "bss" /\ seg.file = seg.mem
  /\ i' = i + 1 /\ pc' = "file"
  /\ UNCHANGED <<size, phdr, pt, pool, granted, left, va>>

\* A larger bss: up to the next partition of virtual addresses one partition
\* of the monitor is mapped from the same offset on.
map_elf_large ==
  /\ pc = "bss" /\ seg.file < seg.mem /\ size_diff >= PARTITION
  /\ LET gap == Up(end_vaddr, PARTITION) - end_vaddr
     IN IF gap = 0 THEN UNCHANGED <<pt, granted>>
        ELSE /\ pt' = Mapped(pt, end_vaddr, granted + (end_vaddr % PARTITION), gap)
             /\ granted' = granted + PARTITION
  /\ left' = number_of_partitions /\ va' = Up(end_vaddr, PARTITION) /\ pc' = "grant"
  /\ UNCHANGED <<size, phdr, pool, i>>

\* Faulty variant: the next grant is mapped over the last one.
map_elf_grant_over ==
  /\ pc = "grant" /\ left > 0
  /\ \E allocated \in 1 .. left :
       /\ pt' = Mapped(pt, va, granted, number_of_partitions * PARTITION)
       /\ granted' = granted + allocated * PARTITION
       /\ left' = left - allocated
  /\ pc' = IF left' = 0 THEN "zero" ELSE pc
  /\ UNCHANGED <<size, phdr, pool, i, va>>

\* One round of the loop: the monitor grants what it has, and the code maps as
\* many partitions as the bss has, of which the next rounds replace the rest.
map_elf_grant ==
  /\ pc = "grant" /\ left > 0
  /\ \E allocated \in 1 .. left :
       /\ pt' = Mapped(pt, va, granted, number_of_partitions * PARTITION)
       /\ granted' = granted + allocated * PARTITION
       /\ left' = left - allocated /\ va' = va + allocated * PARTITION
  /\ pc' = IF left' = 0 THEN "zero" ELSE pc
  /\ UNCHANGED <<size, phdr, pool, i>>

\* memset of what is not in the file.
map_elf_zero ==
  /\ pc = "zero"
  /\ IF \A b \in seg.v + seg.file .. seg.v + seg.mem - 1 : Down(b, PAGE) \in DOMAIN pt
     THEN i' = i + 1 /\ pc' = "file"
     ELSE pc' = "fault" /\ UNCHANGED i
  /\ UNCHANGED <<size, phdr, pt, pool, granted, left, va>>

Next ==
  emain_lower_half \/ map_elf_file \/ map_elf_bss \/ map_elf_none \/ map_elf_large
    \/ map_elf_grant \/ map_elf_zero

Spec == Init /\ [][Next]_vars

-----------------------------------------------------------------------------
\* Type invariant.
TypeOK ==
  /\ \A v \in DOMAIN pt : v % PAGE = 0 /\ pt[v] % PAGE = 0
  /\ pool.used <= pool.size /\ pool.start + pool.size <= Up(pool.start, PARTITION)
  /\ left \in Nat /\ i \in 1 .. Len(phdr) + 1

FileBytes(s) == s.v .. s.v + s.file - 1
Bytes(s) == s.v .. s.v + s.mem - 1
PageOf(b) == Down(b, PAGE)
BssPages(s) == {PageOf(b) : b \in {c \in Bytes(s) : c >= Up(s.v + s.file, PAGE)}}
StackPages == {v \in DOMAIN pt : v >= STACK_TOP - STACK}

\* A program that starts has all of its segments: what the file has, at the
\* bytes of the payload, and the rest in memory that the enclave has been
\* given, whatever the monitor granted in one go.  Stack, arguments and bss
\* share no physical page with each other or with the payload.
ProgramLoaded ==
  pc = "done" =>
    LET own == StackPages \cup UNION {BssPages(phdr[k]) : k \in DOMAIN phdr}
    IN /\ \A k \in DOMAIN phdr :
            /\ \A b \in FileBytes(phdr[k]) :
                 /\ PageOf(b) \in DOMAIN pt
                 /\ pt[PageOf(b)] + (b % PAGE) = phdr[k].off + (b - phdr[k].v)
            /\ \A v \in BssPages(phdr[k]) : v \in DOMAIN pt /\ pt[v] < granted
       /\ \A v, w \in own \cap DOMAIN pt : pt[v] = pt[w] => v = w
       /\ \A v \in own \cap DOMAIN pt : pt[v] >= Up(size, PAGE)

\* 'debug("zero mem-only portion\n")' (elf_loader.c:173): the memory that is
\* zeroed is there.  The code does not see to it when a segment's start and
\* sizes, each rounded by itself, leave the last page out.
ZeroedIsMapped == pc # "fault"
=============================================================================
