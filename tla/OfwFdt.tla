------------------------------- MODULE OfwFdt -------------------------------
(***************************************************************************)
(* What the buses of the net emodule ask of a device tree: the address of  *)
(* a device as the CPU sees it, and its interrupts (ofw_fdt.c,             *)
(* fdt_addresses.c).  The tree is a chain of two buses below the root, and *)
(* a device and an interrupt controller; the blob is the one a writer lays *)
(* down for it.                                                            *)
(***************************************************************************)
EXTENDS Fdt

CONSTANTS
  Chains,     \* the trees: see Blob
  Indices     \* which address or interrupt of the device is asked for

VARIABLES
  chain,   \* the tree: [root, bus, sub, reg, irq, ic], <<>> before the boot
  b,       \* the blob
  res      \* what the last call returned

vars == <<chain, b, res>>

FDT_MAX_NCELLS == 4
Wide == CELL * CELL          \* values of 64 bits
FDT_BAD_ADDR == Wide - 1

-----------------------------------------------------------------------------
(* Cell counts and numbers.                                                *)

\* fdt_address_cells and fdt_size_cells: the property of the parent, or of the
\* nearest node above it that has one.
RECURSIVE CellsFrom(_, _, _, _)
CellsFrom(blob, off, name, default) ==
  LET found(prop, parent, o) ==
        IF prop.err = 0
        THEN IF ~OneCell(prop) \/ prop.val.list[1] \notin 1 .. FDT_MAX_NCELLS THEN BADNCELLS
             ELSE prop.val.list[1]
        ELSE IF parent >= 0 THEN CellsFrom(blob, o, name, default) ELSE default
      at(parent, o) == found(fdt_getprop_namelen(blob, o, name), parent, o)
      below(parent) == at(parent, IF parent >= 0 THEN parent ELSE off)
  IN below(fdt_parent_offset(blob, off))

fdt_address_cells(blob, node) == CellsFrom(blob, node, "#address-cells", 2)
fdt_size_cells(blob, node) == CellsFrom(blob, node, "#size-cells", 1)

\* size cells from the i-th on, 64 bits of them.
RECURSIVE fdt_reg_read_number(_, _, _)
fdt_reg_read_number(cells, i, size) ==
  IF size = 0 THEN 0
  ELSE (fdt_reg_read_number(cells, i, size - 1) * CELL + cells[i + size]) % Wide

-----------------------------------------------------------------------------
(* Translation.  addr is a sequence of FDT_MAX_NCELLS cells.               *)

\* Faulty variant: the address after the range is taken for one in it.
fdt_default_map_last(addr, range, i, na, ns, pna) ==
  LET cp == fdt_reg_read_number(range, i, na)
      s == fdt_reg_read_number(range, i + na + pna, ns)
      da == fdt_reg_read_number(addr, 0, na)
  IN IF da < cp \/ da > (cp + s) % Wide THEN FDT_BAD_ADDR ELSE da - cp

fdt_default_map(addr, range, i, na, ns, pna) ==
  LET cp == fdt_reg_read_number(range, i, na)
      s == fdt_reg_read_number(range, i + na + pna, ns)
      da == fdt_reg_read_number(addr, 0, na)
  IN IF da < cp \/ da >= (cp + s) % Wide THEN FDT_BAD_ADDR ELSE da - cp

fdt_default_translate(addr, offset, na) ==
  LET a == (fdt_reg_read_number(addr, 0, na) + offset) % Wide
  IN [k \in 1 .. FDT_MAX_NCELLS |->
        IF k = na THEN a % CELL
        ELSE IF k = na - 1 THEN a \div CELL
        ELSE IF k < na THEN 0 ELSE addr[k]]

\* The entry, from the i-th cell on, that holds the address.
RECURSIVE MapFrom(_, _, _, _, _, _)
MapFrom(addr, range, i, na, ns, pna) ==
  IF Len(range) - i < na + pna + ns THEN [at |-> i, offset |-> FDT_BAD_ADDR]
  ELSE LET try(offset) ==
             IF offset # FDT_BAD_ADDR THEN [at |-> i, offset |-> offset]
             ELSE MapFrom(addr, range, i + na + pna + ns, na, ns, pna)
       IN try(fdt_default_map(addr, range, i, na, ns, pna))

\* <<>> when the address cannot be translated.
fdt_translate_one(blob, parent, addr, na, ns, pna) ==
  LET base(range, m) ==
        [k \in 1 .. FDT_MAX_NCELLS |-> IF k <= pna THEN range[m.at + na + k] ELSE addr[k]]
      mapped(range, m) ==
        IF m.offset = FDT_BAD_ADDR THEN <<>>
        ELSE fdt_default_translate(base(range, m), m.offset, pna)
      by(ranges) ==
        IF ranges.err < 0 THEN <<>>
        ELSE IF ranges.val.list = <<>>
        THEN fdt_default_translate(addr, fdt_reg_read_number(addr, 0, na), pna)
        ELSE mapped(ranges.val.list, MapFrom(addr, ranges.val.list, 0, na, ns, pna))
  IN by(fdt_getprop_namelen(blob, parent, "ranges"))

BadCounts(na, ns) == na \notin 1 .. FDT_MAX_NCELLS \/ ns <= 0

RECURSIVE TranslateUp(_, _, _, _, _)
TranslateUp(blob, node, addr, na, ns) ==
  LET goOn(parent, next, pna, pns) ==
        IF next = <<>> THEN FDT_BAD_ADDR ELSE TranslateUp(blob, parent, next, pna, pns)
      counted(parent, pna, pns) ==
        IF BadCounts(pna, pns) THEN FDT_BAD_ADDR
        ELSE goOn(parent, fdt_translate_one(blob, node, addr, na, ns, pna), pna, pns)
      up(parent) ==
        IF parent < 0 THEN fdt_reg_read_number(addr, 0, na)
        ELSE counted(parent, fdt_address_cells(blob, parent), fdt_size_cells(blob, parent))
  IN up(fdt_parent_offset(blob, node))

\* stack is what the cells hold that are beyond the local array's written part
\* or beyond the property.
fdt_translate_address_by_ranges(blob, node, regs, i, stack) ==
  LET addr(na) == [k \in 1 .. FDT_MAX_NCELLS |->
                     IF k <= na /\ i + k <= Len(regs) THEN regs[i + k] ELSE stack]
      counted(parent, na, ns) ==
        IF BadCounts(na, ns) THEN FDT_BAD_ADDR ELSE TranslateUp(blob, parent, addr(na), na, ns)
      from(parent) ==
        IF parent < 0 THEN FDT_BAD_ADDR
        ELSE counted(parent, fdt_address_cells(blob, parent), fdt_size_cells(blob, parent))
  IN from(fdt_parent_offset(blob, node))

\* ret, and the address and size when it is 0.
fdt_get_address(blob, node, index, stack) ==
  LET translated(addr, size) ==
        IF addr = FDT_BAD_ADDR THEN [ret |-> NOTFOUND] ELSE [ret |-> 0, addr |-> addr, size |-> size]
      in(list, term, naddr, nsize) ==
        IF Len(list) < term * (index + 1) THEN [ret |-> NOSPACE]
        ELSE translated(fdt_translate_address_by_ranges(blob, node, list, term * index, stack),
                        fdt_reg_read_number(list, term * index + naddr, nsize))
      sought(regs, naddr, nsize) ==
        IF regs.err < 0 THEN [ret |-> regs.err] ELSE in(regs.val.list, naddr + nsize, naddr, nsize)
      counted(naddr, nsize) ==
        IF naddr < 0 \/ naddr >= FDT_MAX_NCELLS THEN [ret |-> naddr]
        ELSE IF nsize < 0 \/ nsize >= FDT_MAX_NCELLS THEN [ret |-> nsize]
        ELSE sought(fdt_getprop_namelen(blob, node, "reg"), naddr, nsize)
  IN counted(fdt_address_cells(blob, node), fdt_size_cells(blob, node))

-----------------------------------------------------------------------------
(* Interrupts.                                                             *)

fdt_getprop_u32_by_offset(blob, node, name) ==
  LET first(p) == IF p.err < 0 THEN p ELSE [err |-> 0, out |-> p.val.list[1]]
  IN first(fdt_getprop_namelen(blob, node, name))

RECURSIVE fdt_find_irq_parent_offset(_, _)

fdt_find_irq_parent_offset(blob, node) ==
  LET up(parent) == IF parent < 0 THEN parent ELSE fdt_find_irq_parent_offset(blob, parent)
      named(p) == IF p.err = 0 THEN fdt_node_offset_by_phandle(blob, p.out)
                  ELSE up(fdt_parent_offset(blob, node))
  IN named(fdt_getprop_u32_by_offset(blob, node, "interrupt-parent"))

fdt_interrupt_cells(blob, node) ==
  LET count(p) == IF p.err < 0 THEN p.err
                  ELSE IF p.out \notin 1 .. FDT_MAX_NCELLS THEN BADNCELLS ELSE p.out
      of(intc) == IF intc < 0 THEN intc
                  ELSE count(fdt_getprop_u32_by_offset(blob, intc, "#interrupt-cells"))
  IN of(fdt_find_irq_parent_offset(blob, node))

fdt_get_interrupt(blob, node, index) ==
  LET in(regs, nintr) ==
        IF regs.err < 0 \/ Len(regs.val.list) < nintr * (index + 1) THEN [ret |-> NOTFOUND]
        ELSE [ret |-> 0, prop |-> SubSeq(regs.val.list, nintr * index + 1, nintr * (index + 1))]
      counted(nintr) ==
        IF nintr < 0 \/ nintr >= FDT_MAX_NCELLS THEN [ret |-> BADNCELLS]
        ELSE IF fdt_getprop_namelen(blob, node, "interrupts-extended").err = 0
        THEN [ret |-> INTERNAL]
        ELSE in(fdt_getprop_namelen(blob, node, "interrupts"), nintr)
  IN counted(fdt_interrupt_cells(blob, node))

-----------------------------------------------------------------------------
(* The trees and the calls.                                                *)

\* A bus has its cell counts (0: no such property), its ranges (absent, or the
\* cells) and the phandle of its interrupt parent (0: none).
Opt(name, n) == IF n = 0 THEN <<>> ELSE <<Prop(name, Cells(<<n>>))>>
BusProps(n) ==
  Opt("#address-cells", n.ac) \o Opt("#size-cells", n.sc) \o Opt("interrupt-parent", n.ip)
    \o IF n.ranges = <<"absent">> THEN <<>> ELSE <<Prop("ranges", Cells(n.ranges))>>
Open(name, props) == <<Begin(<<name, "">>)>> \o props
EndNode == <<Plain("END_NODE")>>

Blob(c) ==
  Open("", BusProps(c.root))
    \o Open("intc", <<Prop("phandle", Cells(<<1>>))>> \o Opt("#interrupt-cells", c.ic)) \o EndNode
    \o Open("bus", BusProps(c.bus))
    \o Open("sub", BusProps(c.sub))
    \o Open("dev", <<Prop("reg", Cells(c.reg)), Prop("interrupts", Cells(c.irq))>>)
    \o EndNode \o EndNode \o EndNode \o EndNode \o <<Plain("END")>>

Dev == fdt_path_offset_namelen(b, "", <<<<"bus", "">>, <<"sub", "">>, <<"dev", "">>>>)

Init == b = <<>> /\ res = <<>> /\ chain = <<>>

\* The firmware hands over a tree.
Boot ==
  /\ chain = <<>>
  /\ \E c \in Chains : chain' = c /\ b' = Blob(c)
  /\ UNCHANGED res

AskAddress(index) ==
  /\ chain # <<>>
  /\ \E stack \in {0, CELL - 1} :
       res' = [call |-> "address", index |-> index, out |-> fdt_get_address(b, Dev, index, stack)]
  /\ UNCHANGED <<chain, b>>

AskInterrupt(index) ==
  /\ chain # <<>>
  /\ res' = [call |-> "interrupt", index |-> index, out |-> fdt_get_interrupt(b, Dev, index)]
  /\ UNCHANGED <<chain, b>>

Next == Boot \/ \E index \in Indices : AskAddress(index) \/ AskInterrupt(index)
Spec == Init /\ [][Next]_vars

-----------------------------------------------------------------------------
(* What the tree means.                                                    *)

\* The levels, innermost first; a count that a bus does not give is that of the
\* bus above it, and 2 and 1 at the top.
Levels == <<chain.sub, chain.bus, chain.root>>
RECURSIVE CountFrom(_, _, _)
CountFrom(counts, i, default) ==
  IF i > Len(counts) THEN default
  ELSE IF counts[i] # 0 THEN counts[i] ELSE CountFrom(counts, i + 1, default)
AC(i) == CountFrom([k \in 1 .. 3 |-> Levels[k].ac], i, 2)
SC(i) == CountFrom([k \in 1 .. 3 |-> Levels[k].sc], i, 1)
Number(cells, i, n) == fdt_reg_read_number(cells, i, n)

\* The address on the bus above the i-th, by the first entry that holds a.
Entry(i) == AC(i) + AC(i + 1) + SC(i)
Entries(i) == {k * Entry(i) : k \in 0 .. Len(Levels[i].ranges) \div Entry(i) - 1}
Holds(i, e, a) ==
  LET cp == Number(Levels[i].ranges, e, AC(i))
  IN a \in cp .. cp + Number(Levels[i].ranges, e + AC(i) + AC(i + 1), SC(i)) - 1
RECURSIVE CpuAddress(_, _)
CpuAddress(i, a) ==
  LET ranges == Levels[i].ranges
      held == {e \in Entries(i) : Holds(i, e, a)}
      e == CHOOSE x \in held : \A y \in held : x <= y
  IN IF a = FDT_BAD_ADDR \/ i = 3 THEN a
     ELSE IF ranges = <<"absent">> THEN FDT_BAD_ADDR
     ELSE IF ranges = <<>> THEN CpuAddress(i + 1, a)
     ELSE IF held = {} THEN FDT_BAD_ADDR
     ELSE CpuAddress(i + 1, Number(ranges, e + AC(i), AC(i + 1)) + a - Number(ranges, e, AC(i)))

MeantAddress(index) ==
  LET term == AC(1) + SC(1)
      a == CpuAddress(1, Number(chain.reg, index * term, AC(1)))
  IN IF Len(chain.reg) < term * (index + 1) THEN [ret |-> NOSPACE]
     ELSE IF a = FDT_BAD_ADDR THEN [ret |-> NOTFOUND]
     ELSE [ret |-> 0, addr |-> a, size |-> Number(chain.reg, index * term + AC(1), SC(1))]

MeantInterrupt(index) ==
  IF (\A i \in 1 .. 3 : Levels[i].ip = 0) \/ chain.ic \notin 1 .. 3 THEN [ret |-> BADNCELLS]
  ELSE IF Len(chain.irq) < chain.ic * (index + 1) THEN [ret |-> NOTFOUND]
  ELSE [ret |-> 0, prop |-> [k \in 1 .. chain.ic |-> chain.irq[chain.ic * index + k]]]

AddressRight == res # <<>> /\ res.call = "address" => res.out = MeantAddress(res.index)
HasEmpty == \E i \in 1 .. 2 : Levels[i].ranges = <<>>
AlikeCells == \A i \in 1 .. 3 : AC(i) = AC(1) /\ SC(i) = SC(1)

-----------------------------------------------------------------------------
(* Properties.                                                             *)

\* On a tree whose buses all count cells alike and that maps every bus by
\* entries of ranges, fdt_get_address finds the address that the CPU sees and
\* the size, and refuses an index beyond reg and an address no entry holds.
AddressExact == chain # <<>> /\ AlikeCells /\ ~HasEmpty => AddressRight

\* fdt_get_interrupt finds the cells of the index-th interrupt of the device, in
\* the width of the controller that is named by the nearest node above it.
InterruptExact ==
  res # <<>> /\ res.call = "interrupt" => res.out = MeantInterrupt(res.index)

\* "Translate an address from the device-tree into a CPU physical address, this
\* walks up the tree and applies the various bus mappings on the way"
\* (ofw_fdt.c), whatever cells the buses on the way count.
MappingsApplied == chain # <<>> /\ ~HasEmpty => AddressRight

\* "empty ranges, 1:1 translation" (ofw_fdt.c).
EmptyOneToOne == chain # <<>> /\ AlikeCells => AddressRight
=============================================================================
