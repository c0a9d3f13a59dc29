------------------------------ MODULE ListSpec ------------------------------
(***************************************************************************)
(* What the linked lists of the repository promise: every list is a        *)
(* sequence, an element is on at most one of them, and each operation does *)
(* what its name says, to the lists it is given and to no other.  op is    *)
(* the operation with its arguments, in the order of the code.             *)
(***************************************************************************)
EXTENDS Integers, Sequences, SequencesExt

CONSTANTS Lists, Elem

VARIABLES
  seqs,   \* list -> its elements
  op      \* the last operation and its arguments

Init == seqs = [h \in Lists |-> <<>>] /\ op = <<"init">>

Free(e) == \A h \in Lists : ~Contains(seqs[h], e)
Where(h, e) == CHOOSE i \in DOMAIN seqs[h] : seqs[h][i] = e
Without(e) == [h \in Lists |-> SelectSeq(seqs[h], LAMBDA x : x # e)]

Add(h, e) ==
  /\ Free(e)
  /\ \/ op' = <<"add", e, h>> /\ seqs' = [seqs EXCEPT ![h] = <<e>> \o @]
     \/ op' = <<"add_tail", e, h>> /\ seqs' = [seqs EXCEPT ![h] = Append(@, e)]

\* e is put before or after another element.
Beside(h, e, at) ==
  /\ Free(e) /\ Contains(seqs[h], at)
  /\ \/ op' = <<"before", e, at>>
        /\ seqs' = [seqs EXCEPT ![h] = InsertAt(@, Where(h, at), e)]
     \/ op' = <<"behind", e, at>>
        /\ seqs' = [seqs EXCEPT ![h] = InsertAt(@, Where(h, at) + 1, e)]

Del(e) == ~Free(e) /\ op' = <<"del", e>> /\ seqs' = Without(e)

Move(h, e) ==
  /\ ~Free(e)
  /\ \/ op' = <<"move", e, h>> /\ seqs' = [Without(e) EXCEPT ![h] = <<e>> \o @]
     \/ op' = <<"move_tail", e, h>> /\ seqs' = [Without(e) EXCEPT ![h] = Append(@, e)]

Replace(old, new) ==
  /\ ~Free(old) /\ Free(new) /\ op' = <<"replace", old, new>>
  /\ seqs' = [h \in Lists |-> [i \in DOMAIN seqs[h] |-> IF seqs[h][i] = old THEN new ELSE seqs[h][i]]]

\* All of k goes to the front or to the back of h.
Splice(k, h) ==
  /\ k # h
  /\ \/ op' = <<"splice", k, h>>
        /\ seqs' = [seqs EXCEPT ![h] = seqs[k] \o @, ![k] = <<>>]
     \/ op' = <<"splice_tail", k, h>>
        /\ seqs' = [seqs EXCEPT ![h] = @ \o seqs[k], ![k] = <<>>]

\* k, which is empty, gets the first i elements of h.
Cut(k, h) ==
  /\ k # h /\ seqs[k] = <<>>
  /\ \E i \in 0 .. Len(seqs[h]) :
       /\ op' = <<"cut", k, h, i>>
       /\ seqs' = [seqs EXCEPT ![k] = SubSeq(seqs[h], 1, i),
                               ![h] = SubSeq(seqs[h], i + 1, Len(seqs[h]))]

Swap(h, k) == op' = <<"swap", h, k>> /\ seqs' = [seqs EXCEPT ![h] = seqs[k], ![k] = seqs[h]]

Next ==
  \/ \E h \in Lists, e \in Elem : Add(h, e) \/ Move(h, e) \/ \E at \in Elem : Beside(h, e, at)
  \/ \E e \in Elem : Del(e) \/ \E new \in Elem : Replace(e, new)
  \/ \E h, k \in Lists : Splice(k, h) \/ Cut(k, h) \/ Swap(h, k)

Spec == Init /\ [][Next]_<<seqs, op>>
=============================================================================
