----------------------------- MODULE MCNetwork ------------------------------
(***************************************************************************)
(* The network emodule below the stack, on small instances: the bring-up   *)
(* of buses, devices and netifs (NetIf over PciBus, with their own         *)
(* variables), the configuration space of a device, netbufs, scatter-      *)
(* gather lists, and the device tree.                                      *)
(*                                                                         *)
(* A behaviour is one of a single part: on names it.  x1 to x10 are the    *)
(* variables of the parts other than NetIf, in the order their modules     *)
(* declare them.                                                           *)
(***************************************************************************)
EXTENDS NetIf

CONSTANTS n1, n2, n3, heap    \* netbufs, and an allocator

VARIABLES on, x1, x2, x3, x4, x5, x6, x7, x8, x9, x10

-----------------------------------------------------------------------------
(* A bridge in slot 0, and anything in two slots behind it: the last slot  *)
(* is one of the second bus.                                               *)

MCSlot == 0 .. 2
MCPopulated ==
  {h \in [MCSlot -> {"none", "other", "disk", "modern", "net"}] : h[0] = "other"}
MCAddresses == <<"addr1">>
MCOffers == {{"MAC"}, {"MAC", "STATUS"}, {"MAC", "STATUS", "CSUM", "GUEST_CSUM", "GUEST_ANNOUNCE"}}
MCSizes == {0, 3, 4}

Config == INSTANCE ConfigSpace WITH
  len <- 3, Byte <- {0, 1}, MAX_TRY_COUNT <- 2, MaxChanges <- 3, EFAULT <- 14,
  field <- x1, seen <- x2, changes <- x3, atomic <- x4, pc <- x5, i <- x6, old_buf <- x7,
  buf <- x8, cnt <- x9, rc <- x10

-----------------------------------------------------------------------------
(* Netbufs in chains, and one netbuf with headers in front of its data.    *)

Three == {n1, n2, n3}
Allocators == {NULL, heap}
Moves == {-3, -2, 1, 2}
Bases == {8, 12}
Lengths == {3, 8, 13}

Linked == INSTANCE NetBuf WITH
  Netbuf <- Three, Allocator <- Allocators, NETBUF_ADDR_ALIGNMENT <- 2, SizeofNetbuf <- 3,
  PrivLen <- 2, UINT16_MAX <- 20, Base <- {10}, BufLen <- {4}, Room <- {1}, Delta <- {}, MaxRef <- 2,
  nb <- x1, refs <- x2, memory <- x3

Headers == INSTANCE NetBuf WITH
  Netbuf <- {n1}, Allocator <- {heap}, NETBUF_ADDR_ALIGNMENT <- 4, SizeofNetbuf <- 7,
  PrivLen <- 3, UINT16_MAX <- 9, Base <- Bases, BufLen <- Lengths, Room <- {0, 3, 6},
  Delta <- Moves, MaxRef <- 1, nb <- x1, refs <- x2, memory <- x3

(* Lists over two pages, by several calls, and over four pages, by one.    *)

Room == [k \in {1, 2} |-> k + 1]
Near == {0, 1}
Far == {0, 1, 2, 3, 5}

Calls == INSTANCE Sglist WITH
  PAGE_SIZE <- 2, Pages <- 2, Frames <- Near, MaxSeg <- Room, Frags <- 2, FragLen <- 2, MaxCalls <- 3,
  sg <- x1, second <- x2, trans <- x3, last <- x4, calls <- x5

Spread == INSTANCE Sglist WITH
  PAGE_SIZE <- 2, Pages <- 4, Frames <- Far, MaxSeg <- Room, Frags <- 0, FragLen <- 2, MaxCalls <- 1,
  sg <- x1, second <- x2, trans <- x3, last <- x4, calls <- x5

-----------------------------------------------------------------------------
(* Trees of all shapes: names with and without unit address, and an alias. *)
(* Small trees with phandles under both names and lists of strings.        *)

F == INSTANCE Fdt WITH CELL <- 4

ShapeNames == {<<"a", "">>, <<"a", "1">>, <<"aliases", "">>}
ShapeProps == {<<"net", F!Path(<<<<"a", "">>>>)>>}
ValueNames == {<<"a", "">>}
ValueProps ==
  {<<"phandle", F!Cells(<<1>>)>>, <<"linux,phandle", F!Cells(<<2>>)>>,
   <<"phandle", F!Cells(<<1, 1>>)>>,
   <<"compatible", F!Strings(<<"x">>, TRUE)>>, <<"compatible", F!Strings(<<"y", "x">>, TRUE)>>,
   <<"compatible", F!Strings(<<"x", "y">>, FALSE)>>}
ValueStrs == {"x", "y"}

Shapes == INSTANCE FdtBlob WITH
  CELL <- 4, Names <- ShapeNames, Props <- ShapeProps, Strs <- {}, MaxItems <- 10,
  b <- x1, tree <- x2, open <- x3, state <- x4

Values == INSTANCE FdtBlob WITH
  CELL <- 4, Names <- ValueNames, Props <- ValueProps, Strs <- ValueStrs, MaxItems <- 10,
  b <- x1, tree <- x2, open <- x3, state <- x4

(* Addresses: ranges of one cell each, and of two and one; one entry or    *)
(* two, of which the second may overlap the first.  The count is given at  *)
(* the root, or at every bus.                                              *)

B(ac, sc, ranges, ip) == [ac |-> ac, sc |-> sc, ranges |-> ranges, ip |-> ip]
No == <<"absent">>
Device(root, bus, sub, reg, irq, ic) ==
  [root |-> root, bus |-> bus, sub |-> sub, reg |-> reg, irq |-> irq, ic |-> ic]

Ranges1 == {No, <<0, 4, 2>>, <<1, 2, 3>>, <<0, 1, 1, 1, 5, 2>>, <<2, 3, 2, 1, 0, 5>>}
Ranges2 == {No, <<0, 0, 1, 4, 7>>, <<0, 6, 0, 2, 5>>, <<0, 1, 2, 1, 2, 1, 0, 0, 7, 7>>}
Regs1 == {<<a, 1>> : a \in 0 .. 5} \cup {<<>>, <<1, 2, 3, 4>>, <<3, 1, 2>>}
Regs2 == {<<a, c, 1>> : a \in 0 .. 1, c \in {0, 1, 2, 6, 7}} \cup {<<0, 2>>, <<0, 1, 3, 0, 2, 4>>}
OneCells ==
  {Device(B(1, 1, No, 0), B(n, n, r, 0), B(n, n, q, 0), reg, <<>>, 0) :
     n \in {0, 1}, r, q \in Ranges1, reg \in Regs1}
TwoCells ==
  {Device(B(n, 0, No, 0), B(n, 0, r, 0), B(n, 0, q, 0), reg, <<>>, 0) :
     n \in {0, 2}, r, q \in Ranges2, reg \in Regs2}
Interrupts ==
  {Device(B(1, 1, No, rip), B(0, 0, No, bip), B(0, 0, No, sip), <<>>, irq, ic) :
     rip, bip, sip \in {0, 1}, irq \in {<<>>, <<5>>, <<5, 6>>, <<5, 6, 7>>}, ic \in {0, 1, 2, 4}}
AllDevices == OneCells \cup TwoCells \cup Interrupts

Address == INSTANCE OfwFdt WITH
  CELL <- 8, Chains <- AllDevices, Indices <- {0, 1}, chain <- x1, b <- x2, res <- x3

-----------------------------------------------------------------------------
ASSUME PartsAssumption ==
  /\ PciAssumption /\ Config!ConfigAssumption
  /\ Linked!NetbufAssumption /\ Headers!NetbufAssumption
  /\ Calls!SglistAssumption /\ Spread!SglistAssumption
  /\ Shapes!CellAssumption /\ Address!CellAssumption

\* The variables a part does not have.
From1 == <<x1, x2, x3, x4, x5, x6, x7, x8, x9, x10>>
From4 == <<x4, x5, x6, x7, x8, x9, x10>>
From5 == <<x5, x6, x7, x8, x9, x10>>
From6 == <<x6, x7, x8, x9, x10>>

None6 == x6 = 0 /\ x7 = 0 /\ x8 = 0 /\ x9 = 0 /\ x10 = 0
None5 == x5 = 0 /\ None6
None4 == x4 = 0 /\ None5
None1 == x1 = 0 /\ x2 = 0 /\ x3 = 0 /\ None4

\* While another part runs, the devices are of one kind.
Quiet == \A s \in MCSlot : hw[s] = "other"

PartsInit ==
  /\ NetInit
  /\ \/ on = "bringup" /\ None1
     \/ on = "config" /\ Config!Init /\ Quiet
     \/ on = "chains" /\ Linked!Init /\ None4 /\ Quiet
     \/ on = "headers" /\ Headers!Init /\ None4 /\ Quiet
     \/ on = "calls" /\ Calls!Init /\ None6 /\ Quiet
     \/ on = "spread" /\ Spread!Init /\ None6 /\ Quiet
     \/ on = "shapes" /\ Shapes!Init /\ None5 /\ Quiet
     \/ on = "values" /\ Values!Init /\ None5 /\ Quiet
     \/ on = "address" /\ Address!Init /\ None4 /\ Quiet

PartsNext ==
  \/ on = "bringup" /\ Next /\ UNCHANGED <<on, From1>>
  \/ on = "config" /\ Config!Next /\ UNCHANGED <<on, vars>>
  \/ on = "chains" /\ Linked!Next /\ UNCHANGED <<on, vars, From4>>
  \/ on = "headers" /\ Headers!Next /\ UNCHANGED <<on, vars, From4>>
  \/ on = "calls" /\ Calls!Next /\ UNCHANGED <<on, vars, From6>>
  \/ on = "spread" /\ Spread!Next /\ UNCHANGED <<on, vars, From6>>
  \/ on = "shapes" /\ Shapes!Next /\ UNCHANGED <<on, vars, From5>>
  \/ on = "values" /\ Values!Next /\ UNCHANGED <<on, vars, From5>>
  \/ on = "address" /\ Address!Next /\ UNCHANGED <<on, vars, From4>>

allVars == <<on, vars, From1>>
PartsSpec == PartsInit /\ [][PartsNext]_allVars

-----------------------------------------------------------------------------
(* Properties, beside those of PciBus and NetIf.                           *)

\* virtio_cread_bytes_many: what is read is one value of the field, and a read
\* is given up only after the device changed the field in each try.
ReadWhole == on = "config" => Config!TypeOK /\ Config!ReadWhole /\ Config!FailsOnlyWhenChanging

\* uk_netbuf_*: counts are the references held, chains lead through netbufs in
\* use, memory goes back with the last reference, and the data of a netbuf
\* stays in its buffer.
NetbufsSound ==
  /\ on = "chains" => /\ Linked!TypeOK /\ Linked!CountsExact /\ Linked!ChainsSound
                      /\ Linked!ReturnedToAllocator
  /\ on = "headers" => Headers!WindowInBuffer

\* uk_sglist_*: a list stands for exactly the bytes appended to it, a slice for
\* the part asked for, and uk_sglist_count says how many segments it takes.
SglistStep ==
  /\ on = "calls" => Calls!TypeOK /\ Calls!AppendStep /\ Calls!SliceStep
  /\ on = "spread" => Spread!AppendStep /\ Spread!CountExact
SglistExact == [][SglistStep]_allVars

\* libfdt: the readers find in a blob the tree that was written, and no call
\* runs away on a blob that is broken.
ReadersExact ==
  /\ on = "shapes" => /\ Shapes!WalkExact /\ Shapes!PathsExact /\ Shapes!AncestorsExact
                      /\ Shapes!PathsLeadBack /\ Shapes!BrokenRefused
  /\ on = "values" => Values!PropertiesExact /\ Values!MatchExact /\ Values!StringListsAgree

\* fdt_get_address and fdt_get_interrupt find what the device has on the CPU's
\* side.
AddressExact == on = "address" => Address!AddressExact /\ Address!InterruptExact
=============================================================================
