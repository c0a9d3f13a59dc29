------------------------------ MODULE PageTable ------------------------------
(***************************************************************************)
(* The Sv39 page table of page_table.c: three levels of tables, the root   *)
(* in the data section and the others taken from the S-mode page pool as   *)
(* map_page first needs them.  Tables are never given back.                *)
(*                                                                         *)
(* get_leaf_pte goes down through every valid entry on its way, leaf or    *)
(* not, and walk_page_table stops at the first entry with a permission     *)
(* bit; they agree because each part of the address space is mapped at one *)
(* level only, which is what Calls states.                                 *)
(***************************************************************************)
EXTENDS Integers, FiniteSets

CONSTANTS
  Fan,         \* entries of a table: 2^SV39_VPN_LEN
  Calls,       \* the (virtual page, level) pairs that are ever mapped
  Frames,      \* physical pages they are mapped to
  Perms,       \* the permission bits map_page is called with
  PoolPages    \* pages of the S-mode pool

Level == 0 .. 2              \* SV39_LEVEL_GIGA, SV39_LEVEL_MEGA, SV39_LEVEL_PAGE
Index == 0 .. Fan - 1
VPage == 0 .. Fan * Fan * Fan - 1

\* get_vpn: the index of a page in the table of a level.
Vpn(v, l) == CASE l = 0 -> v \div (Fan * Fan)
               [] l = 1 -> (v \div Fan) % Fan
               [] l = 2 -> v % Fan

\* The pages an entry of a level covers.
Span(l) == CASE l = 0 -> Fan * Fan [] l = 1 -> Fan [] l = 2 -> 1

CallsAssumption ==
  /\ Fan \in Nat \ {0} /\ PoolPages \in Nat
  /\ Calls \subseteq VPage \X Level
  /\ \A c \in Calls : c[1] % Span(c[2]) = 0
  /\ \A c, d \in Calls : c # d => c[1] + Span(c[2]) <= d[1] \/ d[1] + Span(d[2]) <= c[1]
  /\ Frames \subseteq Nat
  /\ \A p \in Perms : p # {}

VARIABLES
  tables,   \* page_table_root (0) and the pool pages 1, 2, ...
  used,     \* pages of the pool given out
  mode      \* "run", or "panic"

vars == <<tables, used, mode>>

Zero == [v |-> FALSE, perm |-> {}, ppn |-> 0]

Init ==
  /\ tables = [t \in 0 .. PoolPages |-> [i \in Index |-> Zero]]
  /\ used = 0
  /\ mode = "run"

\* One turn of the loop of get_leaf_pte: the table below entry i of table
\* s.t, taken from the pool if the entry is not valid.
Descend(s, i) ==
  LET e == s.tables[s.t][i]
  IN IF e.v
     THEN [s EXCEPT !.t = e.ppn]
     ELSE IF s.used + 1 > PoolPages
          THEN [s EXCEPT !.ok = FALSE]
          ELSE [s EXCEPT !.tables[s.t][i] = [@ EXCEPT !.v = TRUE, !.ppn = s.used + 1],
                         !.used = @ + 1,
                         !.t = s.used + 1]

\* get_leaf_pte with GET_PTE_ALLOC: the table of the leaf entry, and what
\* was allocated on the way to it.
get_leaf_pte(v, l) ==
  LET s0 == [tables |-> tables, used |-> used, t |-> 0, ok |-> TRUE]
      s1 == Descend(s0, Vpn(v, 0))
  IN CASE l = 0 -> s0
       [] l = 1 -> s1
       [] l = 2 -> IF s1.ok THEN Descend(s1, Vpn(v, 1)) ELSE s1

\* get_leaf_pte with GET_PTE_NO_ALLOC: the chain of entries down to the leaf.
Entry(v, l) ==
  LET below(e, k) == IF e.v THEN tables[e.ppn][Vpn(v, k)] ELSE Zero
      e0 == tables[0][Vpn(v, 0)]
  IN CASE l = 0 -> e0
       [] l = 1 -> below(e0, 1)
       [] l = 2 -> below(below(e0, 1), 2)

map_page(v, pa, flags, l) ==
  /\ mode = "run"
  /\ LET s == get_leaf_pte(v, l)
         i == Vpn(v, l)
     IN IF s.ok
        THEN /\ tables' = [s.tables EXCEPT ![s.t][i] =
                             [v |-> TRUE, perm |-> @.perm \cup flags, ppn |-> pa]]
             /\ used' = s.used
             /\ UNCHANGED mode
        ELSE mode' = "panic" /\ UNCHANGED <<tables, used>>

\* Faulty variant of unmap_page: the entry of the root is cleared.
unmap_page_root(v, l) ==
  /\ mode = "run" /\ Entry(v, l).v
  /\ tables' = [tables EXCEPT ![0][Vpn(v, 0)] = Zero]
  /\ UNCHANGED <<used, mode>>

unmap_page(v, l) ==
  /\ mode = "run"
  /\ IF Entry(v, l).v
     THEN /\ tables' = [tables EXCEPT ![get_leaf_pte(v, l).t][Vpn(v, l)] = Zero]
          /\ UNCHANGED <<used, mode>>
     ELSE mode' = "panic" /\ UNCHANGED <<tables, used>>

\* panic() loops.
Halted == mode = "panic" /\ UNCHANGED vars

\* walk_page_table: the first entry on the way down with a permission bit.
walk_page_table(v) ==
  LET Leaf(l) == Entry(v, l).perm # {}
      At(l) == [level |-> l, ppn |-> Entry(v, l).ppn]
  IN IF Leaf(0) THEN At(0)
     ELSE IF Leaf(1) THEN At(1)
     ELSE IF Leaf(2) THEN At(2)
     ELSE [level |-> -1, ppn |-> 0]

NotMapped == -1

get_pa(v) ==
  LET at(r) == IF r.level = -1 THEN NotMapped ELSE r.ppn + (v % Span(r.level))
  IN at(walk_page_table(v))

------------------------------------------------------------------------------
Next ==
  \/ \E c \in Calls, pa \in Frames, flags \in Perms :
       /\ pa % Span(c[2]) = 0
       /\ map_page(c[1], pa, flags, c[2])
  \/ \E c \in Calls : unmap_page(c[1], c[2])
  \/ Halted

Spec == Init /\ [][Next]_vars

------------------------------------------------------------------------------
\* Type invariant.
TypeOK ==
  /\ tables \in [0 .. PoolPages -> [Index -> [v : BOOLEAN, perm : SUBSET UNION Perms, ppn : Nat]]]
  /\ used \in 0 .. PoolPages
  /\ mode \in {"run", "panic"}

\* map_page, unmap_page and get_pa together are a partial function on pages.
Starts == {c[1] : c \in Calls}
LevelOf(v) == (CHOOSE c \in Calls : c[1] = v)[2]
RegionOf(v) == v .. v + Span(LevelOf(v)) - 1
BaseOf(v) == {pa \in Frames : pa % Span(LevelOf(v)) = 0}
Map == INSTANCE PageMap WITH trans <- [v \in VPage |-> get_pa(v)], Start <- Starts,
                             Region <- RegionOf, Base <- BaseOf
MapSpec == Map!Spec
==============================================================================
