------------------------------ MODULE FileTree ------------------------------
(***************************************************************************)
(* What the program may rely on about names: there is a tree of            *)
(* directories and files, a name appears only below a directory that is    *)
(* there, a directory stays, and a step adds or removes one name, or adds  *)
(* a file together with the directories it needs.                          *)
(***************************************************************************)
EXTENDS Sequences, SequencesExt

VARIABLE tree   \* a function from paths to "VDIR" and "VREG"

Root == <<>>
Paths == DOMAIN tree

Rooted(t) ==
  /\ Root \in DOMAIN t
  /\ \A p \in DOMAIN t \ {Root} : Front(p) \in DOMAIN t /\ t[Front(p)] = "VDIR"

Init == tree = [p \in {Root} |-> "VDIR"]

\* Names are added along one path: directories, and at its end anything.
Add ==
  /\ Rooted(tree') /\ Paths \subseteq DOMAIN tree'
  /\ \A p \in Paths : tree'[p] = tree[p]
  /\ \A p, q \in DOMAIN tree' \ Paths : IsPrefix(p, q) \/ IsPrefix(q, p)

Unlink ==
  \E p \in Paths : tree[p] = "VREG" /\ tree' = [q \in Paths \ {p} |-> tree[q]]

Spec == Init /\ [][Add \/ Unlink]_tree
=============================================================================
