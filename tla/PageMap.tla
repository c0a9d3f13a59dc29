------------------------------- MODULE PageMap -------------------------------
(***************************************************************************)
(* What map_page, unmap_page and get_pa promise: a partial function from   *)
(* virtual pages to physical pages, changed one mapping at a time.         *)
(* PageTable implements it.                                                *)
(***************************************************************************)
EXTENDS Integers

CONSTANTS
  VPage,       \* virtual pages
  Start,       \* the virtual pages mappings start at
  Region(_),   \* the virtual pages a mapping at a page covers
  Base(_),     \* physical pages a mapping at a page may start at
  NotMapped    \* get_pa's answer for a page that is not mapped

VARIABLE trans

Init == trans = [v \in VPage |-> NotMapped]

\* The pages R of one mapping change, all others stay.
Remap(R, to(_)) == trans' = [w \in VPage |-> IF w \in R THEN to(w) ELSE trans[w]]

Map(v, pa) == Remap(Region(v), LAMBDA w : pa + (w - v))

Unmap(v) == trans[v] # NotMapped /\ Remap(Region(v), LAMBDA w : NotMapped)

Next == \E v \in Start :
          \/ \E pa \in Base(v) : Map(v, pa)
          \/ Unmap(v)

Spec == Init /\ [][Next]_trans
==============================================================================
