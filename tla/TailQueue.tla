----------------------------- MODULE TailQueue ------------------------------
(***************************************************************************)
(* The tail queues of compat_list.h, on which the network devices and the  *)
(* drivers of the virtio and platform buses are.  A head and an entry have *)
(* the same two fields, a pointer to an entry and the address of such a    *)
(* pointer: UK_TAILQ_LAST and UK_TAILQ_PREV take the one for the other.    *)
(* So first[x] is tqh_first or tqe_next, last[x] is tqh_last or tqe_prev,  *)
(* and the address of first[x] is x.                                       *)
(***************************************************************************)
EXTENDS Integers, Sequences, SequencesExt

CONSTANTS Lists, Elem, NULL

VARIABLES
  q,     \* [first, last] of every head and entry
  op     \* the last macro used, with its arguments

vars == <<q, op>>

Node == Lists \cup Elem

-----------------------------------------------------------------------------
UK_TAILQ_INIT(m, h) == [m EXCEPT !.first[h] = NULL, !.last[h] = h]
UK_TAILQ_EMPTY(m, h) == m.first[h] = NULL
UK_TAILQ_NEXT(m, e) == m.first[e]

UK_TAILQ_LAST(m, h) == m.first[m.last[m.last[h]]]
UK_TAILQ_PREV(m, e) == m.first[m.last[m.last[e]]]

\* The entry after e, or else h, gets at as the address that leads to it.
Relink(m, h, next, at) ==
  IF next # NULL THEN [m EXCEPT !.last[next] = at] ELSE [m EXCEPT !.last[h] = at]

UK_TAILQ_INSERT_HEAD(m, h, e) ==
  [Relink([m EXCEPT !.first[e] = m.first[h]], h, m.first[h], e)
     EXCEPT !.first[h] = e, !.last[e] = h]

UK_TAILQ_INSERT_TAIL(m, h, e) ==
  [m EXCEPT !.first[e] = NULL, !.last[e] = m.last[h], !.first[m.last[h]] = e, !.last[h] = e]

UK_TAILQ_INSERT_AFTER(m, h, at, e) ==
  [Relink([m EXCEPT !.first[e] = m.first[at]], h, m.first[at], e)
     EXCEPT !.first[at] = e, !.last[e] = at]

UK_TAILQ_INSERT_BEFORE(m, at, e) ==
  [m EXCEPT !.last[e] = m.last[at], !.first[e] = at, !.first[m.last[at]] = e, !.last[at] = e]

UK_TAILQ_REMOVE(m, h, e) ==
  LET u == Relink(m, h, m.first[e], m.last[e]) IN [u EXCEPT !.first[u.last[e]] = u.first[e]]

UK_TAILQ_CONCAT(m, h, k) ==
  IF UK_TAILQ_EMPTY(m, k) THEN m
  ELSE UK_TAILQ_INIT([m EXCEPT !.first[m.last[h]] = m.first[k], !.last[m.first[k]] = m.last[h],
                               !.last[h] = m.last[k]], k)

\* The end of UK_TAILQ_SWAP for one of its heads.
Rehead(m, h) == Relink(m, h, m.first[h], h)

UK_TAILQ_SWAP(m, h, k) ==
  Rehead(Rehead([m EXCEPT !.first[h] = m.first[k], !.last[h] = m.last[k],
                          !.first[k] = m.first[h], !.last[k] = m.last[h]], h), k)

-----------------------------------------------------------------------------
\* UK_TAILQ_FOREACH: the entries from x on; at most all of them.
RECURSIVE Walk(_, _, _)
Walk(m, x, room) ==
  IF x \notin room THEN <<>> ELSE <<x>> \o Walk(m, UK_TAILQ_NEXT(m, x), room \ {x})
Entries(h) == Walk(q, q.first[h], Elem)

\* UK_TAILQ_FOREACH_REVERSE.
RECURSIVE WalkBack(_, _, _)
WalkBack(m, x, room) ==
  IF x \notin room THEN <<>> ELSE <<x>> \o WalkBack(m, UK_TAILQ_PREV(m, x), room \ {x})
EntriesBack(h) == WalkBack(q, UK_TAILQ_LAST(q, h), Elem)

On(h) == {Entries(h)[i] : i \in DOMAIN Entries(h)}
Listed == UNION {On(h) : h \in Lists}

\* UK_TAILQ_HEAD_INITIALIZER for the heads; the entries are zero.
Init ==
  /\ q = [first |-> [x \in Node |-> NULL],
          last |-> [x \in Node |-> IF x \in Lists THEN x ELSE NULL]]
  /\ op = <<"init">>

Next ==
  \E h, k \in Lists, e, at \in Elem :
    \/ e \notin Listed /\ op' = <<"add", e, h>> /\ q' = UK_TAILQ_INSERT_HEAD(q, h, e)
    \/ e \notin Listed /\ op' = <<"add_tail", e, h>> /\ q' = UK_TAILQ_INSERT_TAIL(q, h, e)
    \/ /\ e \notin Listed /\ at \in On(h)
       /\ op' = <<"before", e, at>> /\ q' = UK_TAILQ_INSERT_BEFORE(q, at, e)
    \/ /\ e \notin Listed /\ at \in On(h)
       /\ op' = <<"behind", e, at>> /\ q' = UK_TAILQ_INSERT_AFTER(q, h, at, e)
    \/ e \in On(h) /\ op' = <<"del", e>> /\ q' = UK_TAILQ_REMOVE(q, h, e)
    \/ k # h /\ op' = <<"splice_tail", k, h>> /\ q' = UK_TAILQ_CONCAT(q, h, k)
    \/ op' = <<"swap", h, k>> /\ q' = UK_TAILQ_SWAP(q, h, k)

Spec == Init /\ [][Next]_vars

-----------------------------------------------------------------------------
\* Both loops go over the same entries, in opposite order.
BothWays == \A h \in Lists : EntriesBack(h) = Reverse(Entries(h))
=============================================================================
