------------------------------ MODULE RamFile -------------------------------
(***************************************************************************)
(* The contents of one regular file of ramfs: the node's buffer            *)
(* (ramfs/ramfs_vnops.c), the vnode that caches its size while the file is *)
(* open, the open files with their positions (vfs/fops.c), and the calls   *)
(* that read, write, seek and truncate (vfs/syscalls.c and                 *)
(* vfs/syscall_handlers.c).  A buffer is the sequence of its bytes, so its *)
(* length is rn_bufsize, and NULL is the empty one.  IOSIZE_MAX and the    *)
(* errors of memory that ran out are left out.                             *)
(***************************************************************************)
EXTENDS Integers, SequencesExt

CONSTANTS
  Byte,            \* what the program writes
  ZERO, JUNK,      \* a zero, and a byte of memory nobody has set
  PAGE, PARTITION, \* sizes a buffer is rounded up to
  ExtraTruncate, ExtraWrite, \* partitions added, 2 and 100 in the code
  File,            \* open files
  MaxSize,         \* bound: sizes and positions the program asks for
  Vectors,         \* the lengths of the buffers it passes in a call
  NULL

RamFileAssumption ==
  /\ {PAGE, PARTITION, MaxSize} \subseteq Nat \ {0} /\ PARTITION % PAGE = 0
  /\ ZERO \notin Byte /\ JUNK \notin Byte \cup {ZERO} /\ Vectors \subseteq Seq(Nat)

VARIABLES
  np,      \* [buf, size]: rn_buf and rn_size
  v_size,  \* of the vnode, NULL while there is none
  file,    \* [off, append, read, write] of each open file, or NULL
  ref      \* history: the bytes of the file, ZERO where none was written

vars == <<np, v_size, file, ref>>

RoundUp(n, unit) == ((n + unit - 1) \div unit) * unit
Fill(n, x) == [i \in 1 .. n |-> x]
Overwrite(buf, at, bytes) ==
  [i \in DOMAIN buf |-> IF i - at \in DOMAIN bytes THEN bytes[i - at] ELSE buf[i]]
Total(vec) == FoldSeq(LAMBDA a, b : a + b, 0, vec)

\* A buffer of n bytes, all x, that takes over the contents when there are any.
Grown(n, x, size) ==
  LET new == Fill(n, x)
  IN IF np.size # 0 THEN Overwrite(new, 0, SubSeq(np.buf, 1, size)) ELSE new

-----------------------------------------------------------------------------
\* vfscore_uioforeach: what goes into, or comes out of, each buffer of the
\* vector when the file's side has the given bytes.
RECURSIVE Scatter(_, _)
Scatter(bytes, vec) ==
  IF vec = <<>> THEN <<>>
  ELSE LET cnt == IF vec[1] > Len(bytes) THEN Len(bytes) ELSE vec[1]
       IN <<SubSeq(bytes, 1, cnt)>>
            \o Scatter(SubSeq(bytes, cnt + 1, Len(bytes)), Tail(vec))

ramfs_read(off, resid) ==
  LET len == IF v_size - off < resid THEN v_size - off ELSE resid
  IN IF off >= v_size THEN <<>> ELSE SubSeq(np.buf, off + 1, off + len)

\* The first buffer is whole pages, a later one has partitions to spare.
ramfs_write(off, bytes) ==
  LET end == off + Len(bytes)
      room == IF np.buf # <<>> THEN RoundUp(end, PARTITION) + ExtraWrite * PARTITION
              ELSE RoundUp(end, PAGE)
      buf == IF end > v_size /\ end > Len(np.buf) THEN Grown(room, ZERO, v_size) ELSE np.buf
  IN /\ np' = [buf |-> Overwrite(buf, off, bytes), size |-> IF end > v_size THEN end ELSE np.size]
     /\ v_size' = IF end > v_size THEN end ELSE v_size

\* Faulty variant: the contents do not move to the new buffer.
ramfs_truncate_lost(length) ==
  /\ np' = [size |-> length,
            buf |-> IF length = 0 THEN <<>>
                    ELSE IF length > Len(np.buf)
                    THEN Fill(RoundUp(length, PARTITION) + ExtraTruncate * PARTITION, JUNK)
                    ELSE np.buf]
  /\ v_size' = length

\* kmalloc does not clear the new buffer.
ramfs_truncate(length) ==
  /\ np' = [size |-> length,
            buf |-> IF length = 0 THEN <<>>
                    ELSE IF length > Len(np.buf)
                    THEN Grown(RoundUp(length, PARTITION) + ExtraTruncate * PARTITION, JUNK, v_size)
                    ELSE np.buf]
  /\ v_size' = length

-----------------------------------------------------------------------------
Init ==
  /\ np = [buf |-> <<>>, size |-> 0] /\ v_size = NULL
  /\ file = [f \in File |-> NULL] /\ ref = <<>>

\* ramfs_lookup makes the vnode with the node's size.
sys_open(f, mode, append, trunc) ==
  /\ file[f] = NULL
  /\ file' = [file EXCEPT ![f] = [off |-> 0, append |-> append,
                                  read |-> mode # "WRONLY", write |-> mode # "RDONLY"]]
  /\ \/ /\ trunc /\ mode # "RDONLY"
        /\ ramfs_truncate(0) /\ ref' = <<>>
     \/ /\ ~trunc /\ UNCHANGED <<np, ref>>
        /\ v_size' = IF v_size = NULL THEN np.size ELSE v_size

\* vfs_close; the last one takes the vnode along.
vfs_close(f) ==
  /\ file[f] # NULL /\ file' = [file EXCEPT ![f] = NULL]
  /\ v_size' = IF \E g \in File \ {f} : file[g] # NULL THEN v_size ELSE NULL
  /\ UNCHANGED <<np, ref>>

\* Where vfs_read and vfs_write go: the offset of the call, or the position.
At(f, offset) == IF offset = -1 THEN file[f].off ELSE offset
Moved(f, offset, count) ==
  file' = IF offset = -1 THEN [file EXCEPT ![f].off = @ + count] ELSE file

vfs_read(f, vec, offset) ==
  /\ Moved(f, offset, Len(ramfs_read(At(f, offset), Total(vec))))
  /\ UNCHANGED <<np, v_size, ref>>

\* A file that is not open for reading, or nothing to read, changes nothing.
sys_read(f, vec, offset) ==
  /\ file[f] # NULL /\ file[f].read /\ At(f, offset) + Total(vec) <= MaxSize
  /\ vfs_read(f, vec, offset)

syscall_handler_preadv(f, vec, offset) == sys_read(f, vec, offset)
syscall_handler_readv(f, vec) == sys_read(f, vec, -1)

\* What a write at off makes of the file: bytes nobody wrote are zero.
RefWrite(off, bytes) ==
  LET end == IF off + Len(bytes) > Len(ref) THEN off + Len(bytes) ELSE Len(ref)
  IN Overwrite([i \in 1 .. end |-> IF i <= Len(ref) THEN ref[i] ELSE ZERO], off, bytes)

\* O_APPEND writes at the end, but moves the position by the bytes written.
vfs_write(f, bytes, offset) ==
  LET off == IF file[f].append THEN np.size ELSE At(f, offset)
  IN /\ off + Len(bytes) <= MaxSize /\ At(f, offset) + Len(bytes) <= MaxSize
     /\ ramfs_write(off, bytes)
     /\ Moved(f, offset, Len(bytes))
     /\ ref' = RefWrite(IF file[f].append THEN Len(ref) ELSE off, bytes)

\* Of b's.
sys_write(f, b, vec, offset) ==
  LET put(bytes) == IF bytes = <<>> THEN UNCHANGED vars ELSE vfs_write(f, bytes, offset)
  IN /\ file[f] # NULL /\ file[f].write
     /\ put(FlattenSeq(Scatter(Fill(Total(vec), b), vec)))

syscall_handler_pwritev(f, b, vec, offset) == sys_write(f, b, vec, offset)
syscall_handler_writev(f, b, vec) == sys_write(f, b, vec, -1)

\* The base is zero, the position, or the end of the file.
sys_lseek(f, base, off) ==
  /\ file[f] # NULL
  /\ LET to == off + CASE base = "SET" -> 0
                       [] base = "CUR" -> file[f].off
                       [] base = "END" -> v_size
     IN to \in 0 .. MaxSize /\ file' = [file EXCEPT ![f].off = to]
  /\ UNCHANGED <<np, v_size, ref>>

\* ftruncate does not ask whether the file may be written.
sys_ftruncate(f, length) ==
  /\ file[f] # NULL /\ ramfs_truncate(length)
  /\ ref' = [i \in 1 .. length |-> IF i <= Len(ref) THEN ref[i] ELSE ZERO]
  /\ UNCHANGED file

\* fcntl with F_SETFL.
fcntl_setfl(f, append) ==
  /\ file[f] # NULL /\ file' = [file EXCEPT ![f].append = append]
  /\ UNCHANGED <<np, v_size, ref>>

Next ==
  \E f \in File :
    \/ \E m \in {"RDONLY", "WRONLY", "RDWR"}, a, t \in BOOLEAN : sys_open(f, m, a, t)
    \/ vfs_close(f)
    \/ \E vec \in Vectors : syscall_handler_readv(f, vec)
    \/ \E vec \in Vectors, o \in -1 .. MaxSize : syscall_handler_preadv(f, vec, o)
    \/ \E b \in Byte, vec \in Vectors : syscall_handler_writev(f, b, vec)
    \/ \E b \in Byte, vec \in Vectors, o \in -1 .. MaxSize : syscall_handler_pwritev(f, b, vec, o)
    \/ \E base \in {"SET", "CUR", "END"}, o \in {-1, 0, 1, MaxSize} : sys_lseek(f, base, o)
    \/ \E n \in 0 .. MaxSize : sys_ftruncate(f, n)
    \/ \E a \in BOOLEAN : fcntl_setfl(f, a)

Spec == Init /\ [][Next]_vars

-----------------------------------------------------------------------------
Open == \E f \in File : file[f] # NULL

\* Type invariant.
TypeOK ==
  /\ np.buf \in Seq(Byte \cup {ZERO, JUNK}) /\ np.size \in Nat
  /\ v_size \in Nat \cup {NULL} /\ (v_size # NULL <=> Open)
  /\ \A f \in File : file[f] # NULL => file[f].off \in 0 .. MaxSize

\* The size the vnode caches is the node's whoever truncates or writes, it is
\* the size of the file, and the buffer holds that much.  Whatever a file is
\* read with, at any place and into any buffers, comes the byte last written
\* there; only where none has been written since the file was last shorter may
\* it be another.
ReadBack ==
  /\ np.size = Len(ref) /\ np.size <= Len(np.buf)
  /\ Open =>
       /\ v_size = np.size
       /\ \A off \in 0 .. MaxSize, vec \in Vectors :
            LET end == IF off + Total(vec) < Len(ref) THEN off + Total(vec) ELSE Len(ref)
                same(got, want) == /\ Len(got) = Len(want)
                                   /\ \A i \in DOMAIN got : want[i] # ZERO => got[i] = want[i]
            IN same(FlattenSeq(Scatter(ramfs_read(off, Total(vec)), vec)), SubSeq(ref, off + 1, end))
=============================================================================
