----------------------------- MODULE LinkedList -----------------------------
(***************************************************************************)
(* The circular lists of include/util/list.h, on which the mounts, vnodes, *)
(* dentries, buses and pci drivers are: the pointers of heads and entries, *)
(* the functions that change them, and the loop that may delete the entry  *)
(* it is at.                                                               *)
(***************************************************************************)
EXTENDS Integers, Sequences, SequencesExt

CONSTANTS Lists, Elem, NULL

VARIABLES
  l,      \* [next, prev] of every head and entry
  op,     \* the last function called, with its arguments
  loop    \* [h, p, n, todo, seen] of uk_list_for_each_entry_safe, h NULL: none

vars == <<l, op, loop>>

Node == Lists \cup Elem
Null == [x \in Node |-> NULL]
Idle == [h |-> NULL, p |-> NULL, n |-> NULL, todo |-> <<>>, seen |-> <<>>]

-----------------------------------------------------------------------------
UK_INIT_LIST_HEAD(m, x) == [m EXCEPT !.next[x] = x, !.prev[x] = x]

RECURSIVE InitAll(_, _)
InitAll(m, S) ==
  IF S = {} THEN m
  ELSE LET x == CHOOSE y \in S : TRUE IN InitAll(UK_INIT_LIST_HEAD(m, x), S \ {x})

uk_list_empty(m, h) == m.next[h] = h

uk_list_unlink(m, prev, next) == [m EXCEPT !.prev[next] = prev, !.next[prev] = next]

uk_list_del(m, e) == uk_list_unlink(m, m.prev[e], m.next[e])
uk_list_del_init(m, e) == UK_INIT_LIST_HEAD(uk_list_del(m, e), e)

uk_list_link(m, new, prev, next) ==
  [m EXCEPT !.prev[next] = new, !.next[new] = next, !.prev[new] = prev, !.next[prev] = new]

uk_list_add(m, new, h) == uk_list_link(m, new, h, m.next[h])

\* Faulty variant: the new entry goes to the front.
uk_list_add_tail_front(m, new, h) == uk_list_link(m, new, h, m.next[h])
uk_list_add_tail(m, new, h) == uk_list_link(m, new, m.prev[h], h)

uk_list_move(m, e, h) == uk_list_add(uk_list_del(m, e), e, h)
uk_list_move_tail(m, e, h) == uk_list_add_tail(uk_list_del(m, e), e, h)

uk_list_replace(m, old, new) ==
  LET next == m.next[old] prev == m.prev[old]
  IN [m EXCEPT !.next[new] = next, !.prev[next] = new, !.prev[new] = prev, !.next[prev] = new]
uk_list_replace_init(m, old, new) == UK_INIT_LIST_HEAD(uk_list_replace(m, old, new), old)

uk_list_insert(m, k, prev, next) ==
  LET first == m.next[k] last == m.prev[k]
  IN IF uk_list_empty(m, k) THEN m
     ELSE [m EXCEPT !.prev[first] = prev, !.next[prev] = first,
                    !.next[last] = next, !.prev[next] = last]
uk_list_splice_init(m, k, h) == UK_INIT_LIST_HEAD(uk_list_insert(m, k, h, m.next[h]), k)
uk_list_splice_tail_init(m, k, h) == UK_INIT_LIST_HEAD(uk_list_insert(m, k, m.prev[h], h), k)

uk_list_is_singular(m, h) == ~uk_list_empty(m, h) /\ m.next[h] = m.prev[h]

CutAt(m, k, h, e) ==
  LET first == m.next[h] rest == m.next[e]
  IN [m EXCEPT !.next[k] = first, !.prev[first] = k, !.prev[k] = e, !.next[e] = k,
               !.next[h] = rest, !.prev[rest] = h]

uk_list_cut_position(m, k, h, e) ==
  IF uk_list_empty(m, h) THEN m
  ELSE IF uk_list_is_singular(m, h) /\ m.next[h] # e /\ h # e THEN m
  ELSE IF e = h THEN UK_INIT_LIST_HEAD(m, k) ELSE CutAt(m, k, h, e)

-----------------------------------------------------------------------------
\* The entries from x on, up to the head; at most all of them.
RECURSIVE Walk(_, _, _)
Walk(m, x, room) ==
  IF x \notin room THEN <<>> ELSE <<x>> \o Walk(m, m.next[x], room \ {x})
Entries(h) == Walk(l, l.next[h], Elem)
On(h) == {Entries(h)[i] : i \in DOMAIN Entries(h)}
Listed == UNION {On(h) : h \in Lists}

Init ==
  /\ l = InitAll([next |-> Null, prev |-> Null], Lists)
  /\ op = <<"init">> /\ loop = Idle

\* One call outside of a loop.
Call ==
  /\ loop.h = NULL /\ UNCHANGED loop
  /\ \E h, k \in Lists, e, f \in Elem :
       \/ e \notin Listed /\ op' = <<"add", e, h>> /\ l' = uk_list_add(l, e, h)
       \/ e \notin Listed /\ op' = <<"add_tail", e, h>> /\ l' = uk_list_add_tail(l, e, h)
       \/ e \in Listed /\ op' = <<"del", e>> /\ l' = uk_list_del_init(l, e)
       \/ e \in Listed /\ op' = <<"move", e, h>> /\ l' = uk_list_move(l, e, h)
       \/ e \in Listed /\ op' = <<"move_tail", e, h>> /\ l' = uk_list_move_tail(l, e, h)
       \/ /\ e \in Listed /\ f \notin Listed /\ op' = <<"replace", e, f>>
          /\ l' = uk_list_replace_init(l, e, f)
       \/ k # h /\ op' = <<"splice", k, h>> /\ l' = uk_list_splice_init(l, k, h)
       \/ k # h /\ op' = <<"splice_tail", k, h>> /\ l' = uk_list_splice_tail_init(l, k, h)
       \/ /\ k # h /\ On(k) = {}
          /\ \E i \in 0 .. Len(Entries(h)) :
               /\ op' = <<"cut", k, h, i>>
               /\ l' = uk_list_cut_position(l, k, h, IF i = 0 THEN h ELSE Entries(h)[i])

\* uk_list_for_each_entry_safe: its start, its body and its step.
LoopStart ==
  /\ loop.h = NULL
  /\ \E h \in Lists : loop' = [h |-> h, p |-> l.next[h], n |-> l.next[l.next[h]],
                              todo |-> Entries(h), seen |-> <<>>]
  /\ UNCHANGED <<l, op>>

\* Faulty variant: the next entry is taken from the current one after the body.
LoopNext_plain ==
  [loop EXCEPT !.seen = Append(@, loop.p), !.p = l'.next[loop.p], !.n = l'.next[loop.p]]

LoopNext == [loop EXCEPT !.seen = Append(@, loop.p), !.p = loop.n, !.n = l'.next[loop.n]]

\* The body may delete its entry or put it on another list.
LoopBody ==
  /\ loop.h # NULL /\ loop.p \in Elem /\ Len(loop.seen) <= Len(loop.todo)
  /\ \/ UNCHANGED <<l, op>>
     \/ op' = <<"del", loop.p>> /\ l' = uk_list_del_init(l, loop.p)
     \/ \E k \in Lists \ {loop.h} :
          op' = <<"move_tail", loop.p, k>> /\ l' = uk_list_move_tail(l, loop.p, k)
  /\ loop' = LoopNext

LoopEnd == loop.h # NULL /\ loop.p \notin Elem /\ loop' = Idle /\ UNCHANGED <<l, op>>

Next == Call \/ LoopStart \/ LoopBody \/ LoopEnd
Spec == Init /\ [][Next]_vars

-----------------------------------------------------------------------------
\* Each function does to the lists what its name says.
Abstract == INSTANCE ListSpec WITH seqs <- [h \in Lists |-> Entries(h)]
ListsSpec == Abstract!Spec

\* The safe loop visits every entry that was there when it started, once and in
\* order, whatever its body does with the entry it is at.
VisitsAll ==
  loop.h # NULL => /\ IsPrefix(loop.seen, loop.todo)
                   /\ loop.p = loop.h => loop.seen = loop.todo
=============================================================================
