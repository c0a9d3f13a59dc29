-------------------------------- MODULE Stdio -------------------------------
(***************************************************************************)
(* The standard descriptors: the calls on them that trap/syscalls.c keeps  *)
(* for itself, and those it hands to the vfs, whose stdio.c writes to the  *)
(* console and reads lines from it while somebody types.                   *)
(*                                                                         *)
(* A read polls the console: cink takes the characters there are, and the  *)
(* loop of __read_fn looks at the last one of them only.  One buffer of    *)
(* the caller is filled at a time.                                         *)
(***************************************************************************)
EXTENDS Integers, Sequences, SequencesExt

CONSTANTS
  Keys,       \* what is typed: letters, NL, CR, DEL and EOF
  Slow,       \* is each character taken before the next one is typed?
  Vectors,    \* the lengths of the buffers a call passes
  Seeks,      \* positions for lseek
  SIZE,       \* size_t is modulo this
  MaxTyped    \* bound: characters typed

StdioAssumption == Slow \in BOOLEAN /\ SIZE \in Nat /\ MaxTyped \in Nat

VARIABLES
  fifo,       \* characters typed and not yet taken
  typed,      \* how many were typed
  shown,      \* what the current call, and buffer, has put on the console
  r,          \* the read: [pc, vec, buf, total, chunk, taken], taken a history
  f_offset,   \* of stdio_file, which all three descriptors share
  ret,        \* the last call and what it returned
  panicked

vars == <<fifo, typed, shown, r, f_offset, ret, panicked>>

ESPIPE == 29
EINVAL == 22

NoRead == [pc |-> "idle", vec |-> <<>>, buf |-> <<>>, total |-> 0, chunk |-> <<>>, taken |-> <<>>]
Idle == r.pc \in {"idle", "returned"} /\ ~panicked

Init ==
  /\ fifo = <<>> /\ typed = 0 /\ shown = <<>> /\ r = NoRead
  /\ f_offset = 0 /\ ret = <<"none", 0>> /\ panicked = FALSE

\* Somebody types.
Type ==
  /\ typed < MaxTyped /\ ~panicked
  /\ Slow => fifo = <<>> /\ r.chunk = <<>>
  /\ \E c \in Keys : fifo' = Append(fifo, c)
  /\ typed' = typed + 1 /\ UNCHANGED <<shown, r, f_offset, ret, panicked>>

-----------------------------------------------------------------------------
(* The calls.                                                              *)

is_stdio(fd) == fd \in 0 .. 2

Out(text) == shown' = text
Returns(call, value) == ret' = <<call, value>>

\* SYS_close and SYS_fstat of a standard descriptor.
close_stdio(fd) ==
  /\ is_stdio(fd) /\ Idle /\ Returns("close", 0)
  /\ shown' = <<>> /\ r' = NoRead /\ UNCHANGED <<fifo, typed, f_offset, panicked>>
fstat_stdio(fd) ==
  /\ is_stdio(fd) /\ Idle /\ Returns("fstat", 0)
  /\ shown' = <<>> /\ r' = NoRead /\ UNCHANGED <<fifo, typed, f_offset, panicked>>

\* SYS_write of one character.
write_stdio(fd) ==
  /\ is_stdio(fd) /\ Idle /\ r' = NoRead
  /\ \/ fd = 1 /\ Out(<<"a">>) /\ Returns("write", 1) /\ UNCHANGED panicked
     \/ fd # 1 /\ panicked' = TRUE /\ UNCHANGED <<shown, ret>>
  /\ UNCHANGED <<fifo, typed, f_offset>>

Offset(offset) == IF offset = -1 THEN f_offset ELSE offset

\* SYS_writev, with -1 for offset, and SYS_pwrite.  UK_VFSCORE_NOPOS keeps
\* f_offset as it is.
coutk(text) == Out(text)
stdio_write(offset) ==
  /\ Idle /\ r' = NoRead
  /\ \/ Offset(offset) # 0 /\ Out(<<>>) /\ Returns(IF offset = -1 THEN "writev" ELSE "pwrite", -ESPIPE)
     \/ Offset(offset) = 0 /\ coutk(<<"a">>) /\ Returns("writev", 1)
  /\ UNCHANGED <<fifo, typed, f_offset, panicked>>

\* sys_lseek with SEEK_SET: stdio_file has a dentry.
sys_lseek(off) ==
  /\ Idle /\ r' = NoRead /\ shown' = <<>>
  /\ IF off >= 0 THEN f_offset' = off /\ Returns("lseek", off)
     ELSE Returns("lseek", -EINVAL) /\ UNCHANGED f_offset
  /\ UNCHANGED <<fifo, typed, panicked>>

\* SYS_read, SYS_readv and SYS_pread, up to the start of __read_fn.
stdio_read(vec, offset) ==
  /\ Idle /\ shown' = <<>>
  /\ \/ /\ Offset(offset) # 0 /\ r' = NoRead
        /\ Returns(IF offset = -1 THEN "read" ELSE "pread", -ESPIPE)
     \/ /\ Offset(offset) = 0 /\ UNCHANGED ret
        /\ r' = [NoRead EXCEPT !.pc = "cink", !.vec = vec]
  /\ UNCHANGED <<fifo, typed, f_offset, panicked>>

-----------------------------------------------------------------------------
(* __read_fn.                                                              *)

Count == r.vec[1]

\* cink takes one more character.
cink ==
  /\ r.pc = "cink" /\ fifo # <<>> /\ Len(r.chunk) < Count - r.total
  /\ r' = [r EXCEPT !.chunk = Append(@, fifo[1]), !.buf = Append(@, fifo[1]),
                    !.taken = Append(@, fifo[1])]
  /\ fifo' = Tail(fifo)
  /\ UNCHANGED <<typed, shown, f_offset, ret, panicked>>

Newline(c) == IF c = "CR" THEN "NL" ELSE c
Ends(c) == c \in {"NL", "EOF"}

\* The last character of the chunk, with its conversion, and what it does to
\* the buffer, the count and the console.
Chars == Front(r.chunk) \o <<Newline(Last(r.chunk))>>

\* Faulty variant: the character before stays in the buffer.
Erase_kept(u) == [u EXCEPT !.buf = SubSeq(@, 1, Len(@) - 1), !.total = (@ + SIZE - 1) % SIZE]

Erase(u) ==
  IF Len(u.buf) # 1
  THEN [u EXCEPT !.buf = SubSeq(@, 1, Len(@) - 2), !.total = (@ + SIZE - 1) % SIZE]
  ELSE [u EXCEPT !.buf = <<>>]

Stored(u) ==
  [u EXCEPT !.buf = Front(@) \o <<Newline(Last(@))>>, !.total = (@ + Len(u.chunk)) % SIZE]

Echo(s) ==
  IF Last(r.chunk) # "DEL" THEN s \o Chars
  ELSE IF Len(r.buf) # 1 THEN Append(s, "ERASE") ELSE s

\* *(buf - 1): before the buffer there may be anything.
Tested(u) == IF u.buf = <<>> THEN {"a", "NL"} ELSE {Last(u.buf)}

Continues(u, c) == u.total < u.vec[1] /\ ~Ends(c)

__read_fn ==
  /\ r.pc = "cink" /\ r.chunk # <<>> /\ (fifo = <<>> \/ Len(r.chunk) >= Count - r.total)
  /\ LET u == [(IF Last(r.chunk) = "DEL" THEN Erase(r) ELSE Stored(r)) EXCEPT !.chunk = <<>>]
     IN /\ shown' = Echo(shown)
        /\ \E c \in Tested(u) :
             \/ Continues(u, c) /\ r' = u /\ UNCHANGED ret
             \/ /\ ~Continues(u, c)
                /\ r' = [u EXCEPT !.pc = IF u.total > u.vec[1] THEN "lost"
                                         ELSE IF Ends(c) \/ Len(u.vec) = 1 THEN "returned" ELSE "next"]
                /\ Returns("read", u.total)
  /\ UNCHANGED <<fifo, typed, f_offset, panicked>>

\* vfscore_uioforeach goes to the next buffer.
NextBuffer ==
  /\ r.pc = "next" /\ r' = [NoRead EXCEPT !.pc = "cink", !.vec = Tail(r.vec)]
  /\ shown' = <<>> /\ UNCHANGED <<fifo, typed, f_offset, ret, panicked>>

Hart == cink \/ __read_fn \/ NextBuffer

Next ==
  \/ Type \/ Hart
  \/ \E fd \in 0 .. 2 : close_stdio(fd) \/ fstat_stdio(fd) \/ write_stdio(fd)
  \/ \E offset \in {-1} \cup Seeks : stdio_write(offset) \/ \E vec \in Vectors : stdio_read(vec, offset)
  \/ \E off \in Seeks : sys_lseek(off)

Spec == Init /\ [][Next]_vars

-----------------------------------------------------------------------------
(* Properties.                                                             *)

\* What is left of what was typed, and what it looks like.
RECURSIVE Edit(_)
Edit(s) ==
  IF s = <<>> THEN <<>>
  ELSE LET e == Edit(Front(s))
       IN IF Last(s) # "DEL" THEN Append(e, Last(s)) ELSE IF e = <<>> THEN e ELSE Front(e)

Lines(s) == [i \in DOMAIN s |-> Newline(s[i])]
Settled == r.pc \in {"cink", "next", "returned"} /\ r.chunk = <<>>

\* The buffer holds what was typed, edited, and is counted right, at every turn
\* of the loop and in the end: typed one by one with corrections, or in a burst
\* without.
LineExact ==
  Settled => Lines(r.buf) = Lines(Edit(r.taken)) /\ r.total = Len(r.buf) /\ r.total <= r.vec[1]

\* "Echo the input" (stdio.c): whatever is typed, and however fast, each
\* character that is no DELETE is shown.
EachEchoed ==
  LET Visible(s) == SelectSeq(Lines(s), LAMBDA c : c \notin {"DEL", "ERASE"})
  IN Settled \/ r.pc = "lost" => Visible(shown) = Visible(r.taken)

\* "Linux doesn't implement lseek() on pipes, sockets, or ttys. In OSV, we only
\* implement lseek() on regular files" (syscalls.c): no position keeps the
\* program from reading and writing its standard descriptors.
NoPosition == ret \notin {<<"read", -ESPIPE>>, <<"writev", -ESPIPE>>}

\* "One function for stderr and stdout" (stdio.c): the program may write to
\* either.
BothWritten == ~panicked
=============================================================================
