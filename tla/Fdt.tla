-------------------------------- MODULE Fdt ---------------------------------
(***************************************************************************)
(* The readers of a flattened device tree: fdt.c and fdt_ro.c of the net   *)
(* emodule, with which the buses find devices.                             *)
(*                                                                         *)
(* The structure block is a sequence of items, each a tag with its name    *)
(* and value, and an offset is the number of an item: the first has offset *)
(* 0.  A block that ends before its FDT_END is a truncated one.  Names and *)
(* strings are compared as a whole, so the string block is left out; the   *)
(* header is a good one.                                                   *)
(***************************************************************************)
EXTENDS Integers, Sequences

CONSTANT CELL   \* number of values of a cell, 2^32 in the code

CellAssumption == CELL \in Nat /\ CELL > 2

NOTFOUND == -1
NOSPACE == -3
BADOFFSET == -4
BADPATH == -5
BADPHANDLE == -6
TRUNCATED == -8
BADSTRUCTURE == -11
INTERNAL == -13
BADNCELLS == -14
BADVALUE == -15

\* Items.  A node's name is a pair, the second its unit address after the @, or
\* "".  A value is a sequence of cells, a path, or a list of strings of which
\* the last may lack its NUL.
Begin(name) == [tag |-> "BEGIN_NODE", name |-> name]
Prop(name, val) == [tag |-> "PROP", name |-> name, val |-> val]
Plain(tag) == [tag |-> tag]
Cells(list) == [kind |-> "cells", list |-> list]
Path(names) == [kind |-> "path", list |-> names]
Strings(list, ended) == [kind |-> "strings", list |-> list, ended |-> ended]

-----------------------------------------------------------------------------
(* fdt.c                                                                   *)

fdt_next_tag(b, offset) ==
  IF offset >= Len(b) THEN [tag |-> "END", next |-> TRUNCATED]
  ELSE IF b[offset + 1].tag = "JUNK" THEN [tag |-> "END", next |-> BADSTRUCTURE]
  ELSE [tag |-> b[offset + 1].tag, next |-> offset + 1]

CheckOffset(b, offset, tag) ==
  LET of(t) == IF t.tag # tag THEN BADOFFSET ELSE t.next
  IN IF offset < 0 THEN BADOFFSET ELSE of(fdt_next_tag(b, offset))

_fdt_check_node_offset(b, offset) == CheckOffset(b, offset, "BEGIN_NODE")
_fdt_check_prop_offset(b, offset) == CheckOffset(b, offset, "PROP")

\* The loop of fdt_next_node.  counted: the caller passes a depth.
RECURSIVE NextNode(_, _, _, _)

\* Faulty variant: the end of a node is not counted.
NextNode_flat(b, offset, depth, counted) ==
  LET at(t) ==
        CASE t.tag = "BEGIN_NODE" -> [offset |-> offset, depth |-> depth + 1]
          [] t.tag = "END" ->
               [offset |-> IF t.next >= 0 \/ (t.next = TRUNCATED /\ ~counted)
                           THEN NOTFOUND ELSE t.next,
                depth |-> depth]
          [] OTHER -> NextNode(b, t.next, depth, counted)
  IN at(fdt_next_tag(b, offset))

NextNode(b, offset, depth, counted) ==
  LET at(t) ==
        CASE t.tag = "BEGIN_NODE" -> [offset |-> offset, depth |-> depth + 1]
          [] t.tag = "END" ->
               [offset |-> IF t.next >= 0 \/ (t.next = TRUNCATED /\ ~counted)
                           THEN NOTFOUND ELSE t.next,
                depth |-> depth]
          [] t.tag = "END_NODE" ->
               IF counted /\ depth - 1 < 0 THEN [offset |-> t.next, depth |-> depth - 1]
               ELSE NextNode(b, t.next, depth - 1, counted)
          [] OTHER -> NextNode(b, t.next, depth, counted)
  IN at(fdt_next_tag(b, offset))

fdt_next_node(b, offset, depth, counted) ==
  LET from(next) == IF next < 0 THEN [offset |-> next, depth |-> depth]
                    ELSE NextNode(b, next, depth, counted)
  IN from(IF offset >= 0 THEN _fdt_check_node_offset(b, offset) ELSE 0)

fdt_first_subnode(b, offset) ==
  LET child(n) == IF n.offset < 0 \/ n.depth # 1 THEN NOTFOUND ELSE n.offset
  IN child(fdt_next_node(b, offset, 0, TRUE))

RECURSIVE NextSubnode(_, _, _)
NextSubnode(b, offset, depth) ==
  LET child(n) == IF n.offset < 0 \/ n.depth < 1 THEN NOTFOUND
                  ELSE IF n.depth > 1 THEN NextSubnode(b, n.offset, n.depth) ELSE n.offset
  IN child(fdt_next_node(b, offset, depth, TRUE))
fdt_next_subnode(b, offset) == NextSubnode(b, offset, 1)

-----------------------------------------------------------------------------
(* fdt_ro.c: properties.                                                   *)

RECURSIVE _nextprop(_, _)
_nextprop(b, offset) ==
  LET at(t) == CASE t.tag = "END" -> IF t.next >= 0 THEN BADSTRUCTURE ELSE t.next
                 [] t.tag = "PROP" -> offset
                 [] t.tag = "NOP" -> _nextprop(b, t.next)
                 [] OTHER -> NOTFOUND
  IN at(fdt_next_tag(b, offset))

PropAt(b, offset) == IF offset < 0 THEN offset ELSE _nextprop(b, offset)

fdt_first_property_offset(b, node) ==
  PropAt(b, _fdt_check_node_offset(b, node))

fdt_next_property_offset(b, prop) ==
  PropAt(b, _fdt_check_prop_offset(b, prop))

RECURSIVE PropertyFrom(_, _, _)
PropertyFrom(b, offset, name) ==
  IF offset < 0 \/ b[offset + 1].name = name THEN offset
  ELSE PropertyFrom(b, fdt_next_property_offset(b, offset), name)

fdt_get_property_namelen(b, node, name) ==
  PropertyFrom(b, fdt_first_property_offset(b, node), name)

\* What the caller finds at the property's offset.
Value(b, offset) == b[offset + 1].val

\* fdt_getprop: the value where there is one, and the error in its length.
fdt_getprop_namelen(b, node, name) ==
  LET at(offset) == IF offset < 0 THEN [err |-> offset] ELSE [err |-> 0, val |-> Value(b, offset)]
  IN at(fdt_get_property_namelen(b, node, name))
OneCell(prop) == prop.err = 0 /\ prop.val.kind = "cells" /\ Len(prop.val.list) = 1

fdt_get_phandle(b, node) ==
  LET first(php, old) == IF OneCell(php) THEN php.val.list[1]
                         ELSE IF OneCell(old) THEN old.val.list[1] ELSE 0
  IN first(fdt_getprop_namelen(b, node, "phandle"), fdt_getprop_namelen(b, node, "linux,phandle"))

RECURSIVE MaxPhandle(_, _, _)
MaxPhandle(b, offset, max) ==
  IF offset = NOTFOUND THEN max
  ELSE IF offset < 0 THEN CELL - 1
  ELSE LET larger(p) == IF p # CELL - 1 /\ p > max THEN p ELSE max
       IN MaxPhandle(b, fdt_next_node(b, offset, 0, FALSE).offset,
                     larger(fdt_get_phandle(b, offset)))
fdt_get_max_phandle(b) == MaxPhandle(b, fdt_next_node(b, -1, 0, FALSE).offset, 0)

-----------------------------------------------------------------------------
(* fdt_ro.c: names and paths.                                              *)

\* A name without unit address matches one with any.
_fdt_nodename_eq(b, offset, s) ==
  LET n == b[offset + 1].name
  IN n = s \/ (s[2] = "" /\ n[1] = s[1])

RECURSIVE SubnodeFrom(_, _, _, _)

SubnodeFrom(b, offset, depth, name) ==
  IF depth < 0 THEN NOTFOUND
  ELSE IF offset < 0 THEN offset
  ELSE IF depth = 1 /\ _fdt_nodename_eq(b, offset, name) THEN offset
  ELSE LET goOn(n) == SubnodeFrom(b, n.offset, n.depth, name)
       IN goOn(fdt_next_node(b, offset, depth, TRUE))

fdt_subnode_offset_namelen(b, offset, name) == SubnodeFrom(b, offset, 0, name)

\* The components of a path, from a node on.
RECURSIVE Descend(_, _, _)
Descend(b, offset, names) ==
  IF names = <<>> THEN offset
  ELSE LET into(o) == IF o < 0 THEN o ELSE Descend(b, o, Tail(names))
       IN into(fdt_subnode_offset_namelen(b, offset, Head(names)))

fdt_get_alias_namelen(b, name) ==
  LET in(aliases) == IF aliases < 0 THEN [err |-> aliases]
                     ELSE fdt_getprop_namelen(b, aliases, name)
  IN in(Descend(b, 0, <<<<"aliases", "">>>>))

\* A path of the names from the root on, or from the alias on: "" is no alias.
\* The value of an alias is a full path.
fdt_path_offset_namelen(b, alias, names) ==
  LET from(p) == IF p.err < 0 THEN BADPATH ELSE Descend(b, Descend(b, 0, p.val.list), names)
  IN IF alias = "" THEN Descend(b, 0, names) ELSE from(fdt_get_alias_namelen(b, alias))

fdt_get_name(b, node) == b[node + 1].name
Width(name) == Len(name[1]) + (IF name[2] = "" THEN 0 ELSE 1 + Len(name[2]))

\* What the loops of fdt_get_path and fdt_supernode_atdepth_offset return when
\* they leave the tree without having met the node.
NotMet(offset) ==
  IF offset = NOTFOUND \/ offset >= 0 THEN BADOFFSET
  ELSE IF offset = BADOFFSET THEN BADSTRUCTURE ELSE offset

\* The length of what fdt_get_path has written: each name with its /.
RECURSIVE Written(_)
Written(buf) == IF buf = <<>> THEN 0 ELSE Width(Head(buf)) + 1 + Written(Tail(buf))

\* The loop of fdt_get_path: buf is the stack of names, pdepth its length.
RECURSIVE PathFrom(_, _, _, _, _, _)

PathFrom(b, node, offset, depth, buf, buflen) ==
  IF offset < 0 \/ offset > node THEN [ret |-> NotMet(offset), path |-> <<>>]
  ELSE LET with(kept, name) ==
             IF Len(kept) >= depth /\ Written(kept) + Width(name) + 1 <= buflen
             THEN Append(kept, name) ELSE kept
           goOn(n, next) == PathFrom(b, node, n.offset, n.depth, next, buflen)
           then(next) ==
             IF offset # node THEN goOn(fdt_next_node(b, offset, depth, TRUE), next)
             ELSE IF Len(next) < depth + 1 THEN [ret |-> NOSPACE, path |-> <<>>]
             ELSE [ret |-> 0, path |-> Tail(next)]
       IN then(with(IF Len(buf) > depth THEN SubSeq(buf, 1, depth) ELSE buf,
                    fdt_get_name(b, offset)))

\* The root's name is empty, and its / is the first of the path.
fdt_get_path(b, node, buflen) ==
  IF buflen < 2 THEN [ret |-> NOSPACE, path |-> <<>>]
  ELSE PathFrom(b, node, 0, 0, <<>>, buflen)

-----------------------------------------------------------------------------
(* fdt_ro.c: parents and searches.                                         *)

RECURSIVE SupernodeFrom(_, _, _, _, _, _)
SupernodeFrom(b, node, at, offset, depth, super) ==
  IF offset < 0 \/ offset > node THEN [offset |-> NotMet(offset), depth |-> 0]
  ELSE LET s == IF depth = at THEN offset ELSE super
           goOn(n) == SupernodeFrom(b, node, at, n.offset, n.depth, s)
       IN IF offset = node
          THEN [offset |-> IF at > depth THEN NOTFOUND ELSE s, depth |-> depth]
          ELSE goOn(fdt_next_node(b, offset, depth, TRUE))

fdt_supernode_atdepth_offset(b, node, at) ==
  IF at < 0 THEN [offset |-> NOTFOUND, depth |-> 0]
  ELSE SupernodeFrom(b, node, at, 0, 0, INTERNAL)

fdt_node_depth(b, node) ==
  LET of(s) == IF s.offset < 0 THEN s.offset ELSE IF s.offset # 0 THEN INTERNAL ELSE s.depth
  IN of(fdt_supernode_atdepth_offset(b, node, 0))

fdt_parent_offset(b, node) ==
  LET above(depth) == IF depth < 0 THEN depth
                      ELSE fdt_supernode_atdepth_offset(b, node, depth - 1).offset
  IN above(fdt_node_depth(b, node))

\* The walk of the searches: the first node after offset that is a hit.
RECURSIVE SearchFrom(_, _, _)
SearchFrom(b, offset, hits) ==
  IF offset < 0 \/ offset \in hits THEN offset
  ELSE SearchFrom(b, fdt_next_node(b, offset, 0, FALSE).offset, hits)
NodeAfter(b, start, hits) == SearchFrom(b, fdt_next_node(b, start, 0, FALSE).offset, hits)
Offsets(b) == 0 .. Len(b) - 1

fdt_node_offset_by_prop_value(b, start, name, val) ==
  NodeAfter(b, start, {o \in Offsets(b) : LET p == fdt_getprop_namelen(b, o, name)
                                          IN p.err = 0 /\ p.val = val})

fdt_node_offset_by_phandle(b, phandle) ==
  IF phandle \in {0, CELL - 1} THEN BADPHANDLE
  ELSE NodeAfter(b, -1, {o \in Offsets(b) : fdt_get_phandle(b, o) = phandle})

\* A byte after the value is 0, padding or of a tag, and ends a last string
\* that lacks its NUL.
fdt_stringlist_contains(list, str) == \E i \in DOMAIN list : list[i] = str

\* The strings the walk of a list meets, and what its end means.
Walked(v) == IF v.ended THEN Len(v.list) ELSE Len(v.list) - 1
Unended(v) == IF v.ended THEN NOTFOUND ELSE BADVALUE

fdt_stringlist_count(b, node, name) ==
  LET p == fdt_getprop_namelen(b, node, name)
  IN IF p.err < 0 THEN p.err ELSE IF ~p.val.ended THEN BADVALUE ELSE Len(p.val.list)

fdt_stringlist_search(b, node, name, str) ==
  LET p == fdt_getprop_namelen(b, node, name)
      at == {i \in 1 .. Walked(p.val) : p.val.list[i] = str}
  IN IF p.err < 0 THEN p.err
     ELSE IF at = {} THEN Unended(p.val)
     ELSE (CHOOSE i \in at : \A j \in at : i <= j) - 1

fdt_stringlist_get(b, node, name, idx) ==
  LET p == fdt_getprop_namelen(b, node, name)
  IN IF p.err < 0 THEN p
     ELSE IF idx < Walked(p.val) THEN [err |-> 0, str |-> p.val.list[idx + 1]]
     ELSE [err |-> Unended(p.val)]

\* 0 when it is compatible, 1 when not.
fdt_node_check_compatible(b, node, compatible) ==
  LET p == fdt_getprop_namelen(b, node, "compatible")
  IN IF p.err < 0 THEN p.err
     ELSE IF fdt_stringlist_contains(p.val.list, compatible) THEN 0 ELSE 1

\* An error other than NOTFOUND ends the search.
fdt_node_offset_by_compatible(b, start, compatible) ==
  LET check == [o \in Offsets(b) |-> fdt_node_check_compatible(b, o, compatible)]
      offset == NodeAfter(b, start, {o \in Offsets(b) : check[o] \notin {1, NOTFOUND}})
  IN IF offset >= 0 /\ check[offset] < 0 THEN check[offset] ELSE offset

\* The first entry of the list for which there is a node, and its number.
RECURSIVE CompatibleFrom(_, _, _, _)
CompatibleFrom(b, start, list, idx) ==
  IF idx = Len(list) THEN [offset |-> NOTFOUND, index |-> idx]
  ELSE LET o == fdt_node_offset_by_compatible(b, start, list[idx + 1])
       IN IF o >= 0 THEN [offset |-> o, index |-> idx]
          ELSE CompatibleFrom(b, start, list, idx + 1)
fdt_node_offset_idx_by_compatible_list(b, start, list) == CompatibleFrom(b, start, list, 0)
=============================================================================
