------------------------------ MODULE FdtBlob -------------------------------
(***************************************************************************)
(* A device tree blob and what the readers of Fdt find in it.  The blob is *)
(* laid down item by item by a writer that keeps the tree it means; the    *)
(* readers are compared with that tree when the blob is finished, and      *)
(* called on every part of it before.  The writer (the firmware) is        *)
(* outside the repository.                                                 *)
(***************************************************************************)
EXTENDS Fdt, FiniteSets, FiniteSetsExt

CONSTANTS
  Names,     \* names of nodes other than the root
  Props,     \* pairs of a property's name and its value
  Strs,      \* strings that are looked for
  MaxItems   \* bound: items of a blob

VARIABLES
  b,      \* the structure block
  tree,   \* offset of a node -> [parent, name, props]
  open,   \* offsets of the nodes that are being written, innermost first
  state   \* "properties" or "subnodes" of the innermost, "end" or "junk"

vars == <<b, tree, open, state>>

Root == <<"", "">>
Node == DOMAIN tree
Node0 == [parent |-> -1, name |-> Root, props |-> {}]

Init ==
  /\ b = <<Begin(Root)>> /\ tree = [o \in {0} |-> Node0]
  /\ open = <<0>> /\ state = "properties"

-----------------------------------------------------------------------------
(* The writer.                                                             *)

WriteBegin(name) ==
  /\ open # <<>>
  /\ b' = Append(b, Begin(name))
  /\ tree' = [o \in Node \cup {Len(b)} |->
                IF o = Len(b) THEN [parent |-> Head(open), name |-> name, props |-> {}]
                ELSE tree[o]]
  /\ open' = <<Len(b)>> \o open /\ state' = "properties"

WriteProp(p) ==
  /\ open # <<>> /\ state = "properties"
  /\ \A q \in tree[Head(open)].props : q[1] # p[1]
  /\ b' = Append(b, Prop(p[1], p[2]))
  /\ tree' = [tree EXCEPT ![Head(open)].props = @ \cup {p}]
  /\ UNCHANGED <<open, state>>

WriteNop ==
  /\ state \in {"properties", "subnodes"} /\ b[Len(b)].tag # "NOP"
  /\ b' = Append(b, Plain("NOP"))
  /\ UNCHANGED <<tree, open, state>>

WriteEndNode ==
  /\ open # <<>>
  /\ b' = Append(b, Plain("END_NODE"))
  /\ open' = Tail(open) /\ state' = "subnodes"
  /\ UNCHANGED tree

WriteEnd ==
  /\ open = <<>> /\ state = "subnodes"
  /\ b' = Append(b, Plain("END")) /\ state' = "end"
  /\ UNCHANGED <<tree, open>>

\* The blob is spoilt where the writer had got to.
WriteJunk ==
  /\ state \in {"properties", "subnodes"}
  /\ b' = Append(b, Plain("JUNK")) /\ state' = "junk"
  /\ UNCHANGED <<tree, open>>

\* Room for the items that are still needed.
Write ==
  /\ state \in {"properties", "subnodes"}
  /\ \/ Len(b) + Len(open) + 3 <= MaxItems /\ \E name \in Names : WriteBegin(name)
     \/ Len(b) + Len(open) + 2 <= MaxItems /\ \E p \in Props : WriteProp(p)
     \/ Len(b) + Len(open) + 2 <= MaxItems /\ WriteNop
     \/ WriteEndNode
     \/ WriteEnd
     \/ WriteJunk

Next == Write
Spec == Init /\ [][Next]_vars

-----------------------------------------------------------------------------
(* The tree that is meant.                                                 *)

Finished == state = "end"
Children(o) == {c \in Node : tree[c].parent = o}
First(S) == IF S = {} THEN NOTFOUND ELSE Min(S)
After(S, o) == First({c \in S : c > o})
RECURSIVE Ancestry(_)
Ancestry(o) == IF o = -1 THEN <<>> ELSE Append(Ancestry(tree[o].parent), o)
Depth(o) == Len(Ancestry(o)) - 1
PathOf(o) == [i \in 1 .. Depth(o) |-> tree[Ancestry(o)[i + 1]].name]
Has(o, name, val) == <<name, val>> \in tree[o].props

\* The node that is meant by a name below a node: a name without a unit address
\* may mean any of that base, and then the first.
Meant(c, name) == tree[c].name = name \/ (name[2] = "" /\ tree[c].name[1] = name[1])
RECURSIVE Follow(_, _)
Follow(o, names) ==
  IF o < 0 \/ names = <<>> THEN o
  ELSE Follow(First({c \in Children(o) : Meant(c, Head(names))}), Tail(names))

Phandle(o) ==
  LET new == {n \in 1 .. CELL - 1 : Has(o, "phandle", Cells(<<n>>))}
      old == {n \in 1 .. CELL - 1 : Has(o, "linux,phandle", Cells(<<n>>))}
  IN IF new # {} THEN Max(new) ELSE IF old # {} THEN Max(old) ELSE 0
Lists(o) == {p[2] : p \in {q \in tree[o].props : q[1] = "compatible"}}
Compatible(o, s) == \E v \in Lists(o) : \E i \in DOMAIN v.list : v.list[i] = s

Paths == {<<>>} \cup {<<n>> : n \in Names} \cup {<<n, m>> : n, m \in Names}

-----------------------------------------------------------------------------
(* Properties.                                                             *)

\* fdt_next_node visits every node, in the order of the blob and with its depth,
\* and leaves a subtree with a negative depth; fdt_first_subnode and
\* fdt_next_subnode visit the children, whatever is below them.
WalkExact ==
  Finished => \A o \in Node :
    /\ fdt_next_node(b, o, 0, FALSE).offset = After(Node, o)
    /\ LET n == fdt_next_node(b, o, Depth(o), TRUE)
       IN IF After(Node, o) = NOTFOUND THEN n.offset < 0 \/ n.depth < 0
          ELSE n = [offset |-> After(Node, o), depth |-> Depth(After(Node, o))]
    /\ fdt_first_subnode(b, o) = First(Children(o))
    /\ o # 0 => fdt_next_subnode(b, o) = After(Children(tree[o].parent), o)

\* A path leads to the node that it means, from the root and from an alias, and
\* to none when there is none, or no such alias.
PathsExact ==
  Finished => \A names \in Paths :
    /\ fdt_path_offset_namelen(b, "", names) = Follow(0, names)
    /\ LET alias == Follow(0, <<<<"aliases", "">>>>)
           full == {p \in Paths : alias >= 0 /\ Has(alias, "net", Path(p))}
       IN fdt_path_offset_namelen(b, "net", names)
            = IF full = {} THEN BADPATH ELSE Follow(Follow(0, CHOOSE p \in full : TRUE), names)

\* fdt_parent_offset, fdt_node_depth and fdt_supernode_atdepth_offset find the
\* ancestors of a node, and fdt_get_path the names on the way to it, when the
\* buffer takes them; an offset that is none of a node is refused.
AncestorsExact ==
  Finished => \A o \in Offsets(b) :
    IF o \notin Node
    THEN fdt_parent_offset(b, o) < 0
    ELSE /\ fdt_parent_offset(b, o) = tree[o].parent
         /\ fdt_node_depth(b, o) = Depth(o)
         /\ \A d \in 0 .. Depth(o) + 1 :
              fdt_supernode_atdepth_offset(b, o, d).offset
                = IF d > Depth(o) THEN NOTFOUND ELSE Ancestry(o)[d + 1]
         /\ \A buflen \in 0 .. 7 :
              fdt_get_path(b, o, buflen)
                = IF buflen < 2 \/ 1 + Written(PathOf(o)) > buflen
                  THEN [ret |-> NOSPACE, path |-> <<>>]
                  ELSE [ret |-> 0, path |-> PathOf(o)]

\* fdt_get_path and fdt_path_offset are inverse to each other when no two
\* siblings have the same base name.
PathsLeadBack ==
  Finished /\ (\A c, d \in Node : c # d /\ tree[c].parent = tree[d].parent
                                   => tree[c].name[1] # tree[d].name[1])
    => \A o \in Node : fdt_path_offset_namelen(b, "", fdt_get_path(b, o, 64).path) = o

\* Every property of a node is found under its name, and no other; the searches
\* by value, phandle and compatible string find the first node after the start
\* that has it, and the phandle that is given out next is not in use.
PropertiesExact ==
  Finished =>
    /\ \A o \in Node :
         /\ \A p \in Props : LET v == fdt_getprop_namelen(b, o, p[1])
                             IN IF v.err = 0 THEN Has(o, p[1], v.val)
                                ELSE v.err = NOTFOUND /\ ~Has(o, p[1], p[2])
         /\ fdt_get_phandle(b, o) = Phandle(o)
    /\ \A start \in Node \cup {-1} :
         /\ \A p \in Props : fdt_node_offset_by_prop_value(b, start, p[1], p[2])
                               = After({o \in Node : Has(o, p[1], p[2])}, start)
         /\ \A s \in Strs : fdt_node_offset_by_compatible(b, start, s)
                              = After({o \in Node : Compatible(o, s)}, start)
    /\ \A n \in 1 .. CELL - 2 : /\ fdt_node_offset_by_phandle(b, n)
                                     = First({o \in Node : Phandle(o) = n})
                                /\ n > fdt_get_max_phandle(b) => \A o \in Node : Phandle(o) # n
    /\ fdt_node_offset_by_phandle(b, 0) = BADPHANDLE

\* A driver is matched with the first entry of its list for which there is a
\* node, and with that node.
MatchExact ==
  Finished => \A s, t \in Strs :
    LET m == fdt_node_offset_idx_by_compatible_list(b, -1, <<s, t>>)
        is == First({o \in Node : Compatible(o, s)})
        it == First({o \in Node : Compatible(o, t)})
    IN m = IF is >= 0 THEN [offset |-> is, index |-> 0]
           ELSE IF it >= 0 THEN [offset |-> it, index |-> 1]
           ELSE [offset |-> NOTFOUND, index |-> 2]

\* fdt_stringlist_count, _search and _get agree with each other: what is at an
\* index is found there or before, and a last string without its NUL is neither
\* returned nor found.
StringListsAgree ==
  Finished => \A o \in Node : \A v \in Lists(o) :
    /\ fdt_stringlist_count(b, o, "compatible") = IF v.ended THEN Len(v.list) ELSE BADVALUE
    /\ \A s \in Strs :
         LET i == fdt_stringlist_search(b, o, "compatible", s)
         IN /\ i >= 0 => fdt_stringlist_get(b, o, "compatible", i) = [err |-> 0, str |-> s]
            /\ \A j \in 0 .. Len(v.list) :
                 LET g == fdt_stringlist_get(b, o, "compatible", j)
                 IN g.err = 0 /\ g.str = s => i \in 0 .. j
            /\ v.ended => (i >= 0 <=> Compatible(o, s))

\* On a blob that ends too early, or that is spoilt, every call comes to an end,
\* with an error or with a node that has been written.
BrokenRefused ==
  ~Finished => LET Sound(o) == o < 0 \/ o \in Node
               IN /\ \A o \in Node : /\ Sound(fdt_next_node(b, o, 0, FALSE).offset)
                                     /\ Sound(fdt_first_subnode(b, o))
                                     /\ Sound(fdt_next_subnode(b, o))
                                     /\ fdt_parent_offset(b, o) = tree[o].parent
                                     /\ fdt_get_path(b, o, 64).path = PathOf(o)
                  /\ \A names \in Paths : Sound(fdt_path_offset_namelen(b, "", names))
                  /\ \A s \in Strs : Sound(fdt_node_offset_by_compatible(b, -1, s))
                  /\ state = "junk" => fdt_get_max_phandle(b) = CELL - 1
=============================================================================
