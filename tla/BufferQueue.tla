---------------------------- MODULE BufferQueue -----------------------------
(***************************************************************************)
(* What a virtqueue promises its user: a buffer handed to the device comes *)
(* back once, with the length the device wrote, and buffers come back in   *)
(* the order in which the device finished them.                            *)
(***************************************************************************)
EXTENDS Naturals, Sequences

CONSTANTS Buf, Length

VARIABLES
  posted,  \* buffers the device may use
  done     \* finished buffers the user has not taken back, oldest first

vars == <<posted, done>>

Finished == {done[i][1] : i \in 1 .. Len(done)}

Init == posted = {} /\ done = <<>>

Post(b) ==
  /\ b \notin posted /\ b \notin Finished
  /\ posted' = posted \cup {b} /\ UNCHANGED done

Finish(b, len) ==
  /\ b \in posted
  /\ posted' = posted \ {b} /\ done' = Append(done, <<b, len>>)

Take == done # <<>> /\ done' = Tail(done) /\ UNCHANGED posted

Next ==
  \/ \E b \in Buf : Post(b)
  \/ \E b \in Buf, len \in Length : Finish(b, len)
  \/ Take

Spec == Init /\ [][Next]_vars
=============================================================================
