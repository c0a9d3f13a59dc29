---------------------------- MODULE Descriptors -----------------------------
(***************************************************************************)
(* What the descriptor table promises to the program: a descriptor denotes *)
(* one open file from the call that returns it to the close of that very   *)
(* descriptor; a new one is the lowest that is free, and a file that is    *)
(* opened is nobody else's.  Descriptors 0, 1 and 2 are never closed.      *)
(***************************************************************************)
EXTENDS Integers

CONSTANTS Fd, File, Stdio, NULL

VARIABLE desc     \* descriptor -> the file it denotes, or NULL

Init == desc = [fd \in Fd |-> IF fd \in 0 .. 2 THEN Stdio ELSE NULL]

Lowest(fd) == desc[fd] = NULL /\ \A k \in 0 .. fd - 1 : desc[k] # NULL

Open == \E fd \in Fd :
  /\ Lowest(fd)
  /\ \E f \in File : (\A k \in Fd : desc[k] # f) /\ desc' = [desc EXCEPT ![fd] = f]

Dup == \E fd \in Fd :
  /\ Lowest(fd)
  /\ \E old \in Fd : desc[old] # NULL /\ desc' = [desc EXCEPT ![fd] = desc[old]]

Close == \E fd \in Fd \ (0 .. 2) : desc' = [desc EXCEPT ![fd] = NULL]

Next == Open \/ Dup \/ Close

Spec == Init /\ [][Next]_desc
=============================================================================
