------------------------------ MODULE FdTable -------------------------------
(***************************************************************************)
(* The descriptor table of the vfs emodule and the reference counts of the *)
(* files in it: vfs/fd.c, vfs/file.c, init_stdio, and the system calls of  *)
(* vfs/syscall_handlers.c as far as they take and give back files.         *)
(*                                                                         *)
(* The table and the files are one record, and the C functions are         *)
(* operators from record to record, so that a system call is the same      *)
(* sequence of holds and drops as in the code.  A call runs to its end     *)
(* before the next one starts; open may fetch the file from the host and   *)
(* then re-enters open, write and close on its way.                        *)
(***************************************************************************)
EXTENDS Integers, FiniteSets

CONSTANTS
  FDTABLE_MAX_FILES,
  File,          \* the vfscore_file structures sys_open allocates
  Stdio,         \* stdio_file
  NULL,
  ENFILE, EBADF, \* error numbers
  FetchWhenFull, \* may open fetch a file while the table is full?
  MaxLost        \* bound: holds of one file that are not given back

FdAssumption ==
  /\ FDTABLE_MAX_FILES \in Nat /\ FDTABLE_MAX_FILES > 3
  /\ Stdio \notin File /\ NULL \notin File /\ NULL # Stdio
  /\ ENFILE \in 3 .. FDTABLE_MAX_FILES - 1 /\ EBADF \in Nat \ {0}
  /\ FetchWhenFull \in BOOLEAN /\ MaxLost \in Nat

VARIABLES
  fdt,    \* [bitmap, files, f_count, allocated, panicked]
  ret,    \* what the last system call returned
  lost    \* history: holds that calls on a full table did not give back

vars == <<fdt, ret, lost>>

Fd == 0 .. FDTABLE_MAX_FILES - 1
AnyFile == File \cup {Stdio}

-----------------------------------------------------------------------------
fhold(t, f) == [t EXCEPT !.f_count[f] = @ + 1]

\* The last drop closes the file and frees it.
fdrop(t, f) ==
  [t EXCEPT !.f_count[f] = @ - 1,
            !.allocated = IF t.f_count[f] = 1 THEN @ \ {f} ELSE @,
            !.panicked = @ \/ t.f_count[f] = 0]

\* uk_find_next_zero_bit finds fd, or nothing.
FirstZero(t, fd) == fd \in Fd \ t.bitmap /\ 0 .. fd - 1 \subseteq t.bitmap
Full(t) == Fd \subseteq t.bitmap

vfscore_install_fd(t, fd, f) ==
  LET orig == t.files[fd]
      u == fdrop([fhold(t, f) EXCEPT !.files[fd] = f], f)
  IN IF orig # NULL THEN fdrop(u, orig) ELSE u

\* Faulty variant: the descriptor does not keep a hold.
fdalloc_no_hold(t, f, fd) ==
  vfscore_install_fd([t EXCEPT !.bitmap = @ \cup {fd}], fd, f)

\* fdalloc when vfscore_alloc_fd finds fd.  When it finds none only fhold is
\* left of fdalloc.
fdalloc(t, f, fd) ==
  vfscore_install_fd([fhold(t, f) EXCEPT !.bitmap = @ \cup {fd}], fd, f)

vfscore_get_file(t, fd) == IF fd \in t.bitmap THEN t.files[fd] ELSE NULL

vfscore_put_fd(t, fd) ==
  LET u == [t EXCEPT !.bitmap = @ \ {fd}, !.files[fd] = NULL]
  IN IF t.files[fd] # NULL THEN fdrop(u, t.files[fd]) ELSE u

\* dup2(0, fd) of init_stdio: fd is free, and reserved.
dup3(t, oldfd, newfd) ==
  LET f == vfscore_get_file(t, oldfd)
      u == [fhold(t, f) EXCEPT !.bitmap = @ \cup {newfd}]
  IN fdrop(vfscore_install_fd(u, newfd, f), f)

fdtable_init ==
  [bitmap |-> {}, files |-> [fd \in Fd |-> NULL],
   f_count |-> [f \in AnyFile |-> IF f = Stdio THEN 2 ELSE 0],
   allocated |-> {Stdio}, panicked |-> FALSE]

init_stdio ==
  LET t0 == vfscore_install_fd([fdtable_init EXCEPT !.bitmap = {0}], 0, Stdio)
  IN dup3(dup3(t0, 0, 1), 0, 2)

Init == fdt = init_stdio /\ ret = 0 /\ lost = [f \in AnyFile |-> 0]

-----------------------------------------------------------------------------
(* The system calls.                                                       *)

\* sys_open: a zeroed structure with one hold.
sys_open(t, f) == fhold([t EXCEPT !.allocated = @ \cup {f}, !.f_count[f] = 0], f)

\* The rest of syscall_handler_open: with a descriptor, and on a full table,
\* where the hold of fdalloc is not given back.
Opened(t, f, fd) == fdrop(fdalloc(sys_open(t, f), f, fd), f)
OpenedFull(t, f) == fdrop(fhold(sys_open(t, f), f), f)

\* -error of the negative error of vfscore_alloc_fd is ENFILE.
syscall_handler_open(f) ==
  /\ f \notin fdt.allocated
  /\ \/ \E fd \in Fd : /\ FirstZero(fdt, fd)
                       /\ fdt' = Opened(fdt, f, fd) /\ ret' = fd
                       /\ UNCHANGED lost
     \/ /\ Full(fdt) /\ MaxLost > 0
        /\ fdt' = OpenedFull(fdt, f) /\ ret' = ENFILE
        /\ lost' = [lost EXCEPT ![f] = 1]

fdclose(t, fd) ==
  fdrop(vfscore_put_fd(fhold(t, t.files[fd]), fd), t.files[fd])

\* Faulty variant: the standard descriptors are closed like any other.
syscall_handler_close_stdio(fd) ==
  /\ vfscore_get_file(fdt, fd) # NULL
  /\ fdt' = fdclose(fdt, fd) /\ ret' = 0
  /\ UNCHANGED lost

syscall_handler_close(fd) ==
  /\ \/ fd \in 0 .. 2 /\ ret' = 0 /\ UNCHANGED fdt
     \/ /\ fd \notin 0 .. 2 /\ vfscore_get_file(fdt, fd) = NULL
        /\ ret' = -EBADF /\ UNCHANGED fdt
     \/ /\ fd \notin 0 .. 2 /\ vfscore_get_file(fdt, fd) # NULL
        /\ fdt' = fdclose(fdt, fd) /\ ret' = 0
  /\ UNCHANGED lost

\* fcntl with F_DUPFD or F_DUPFD_CLOEXEC.  On a full table it returns without
\* giving back the holds of fget and fdalloc.
fcntl_dupfd(fd) ==
  LET f == vfscore_get_file(fdt, fd)
      t == fhold(fdt, f)
  IN \/ /\ f = NULL
        /\ ret' = -EBADF /\ UNCHANGED <<fdt, lost>>
     \/ /\ f # NULL
        /\ \E n \in Fd : /\ FirstZero(fdt, n)
                         /\ fdt' = fdrop(fdalloc(t, f, n), f) /\ ret' = n
        /\ UNCHANGED lost
     \/ /\ f # NULL /\ Full(fdt) /\ lost[f] + 2 <= MaxLost
        /\ fdt' = fhold(t, f) /\ ret' = ENFILE
        /\ lost' = [lost EXCEPT ![f] = @ + 2]

\* fget and fdrop around the work of a call, in these four and in read, write,
\* getdents, ioctl and the other commands of fcntl.  What the work does to the
\* file is in RamFile and DirListing, and 0 stands for its result.
with_file(fd, bad) ==
  /\ LET f == vfscore_get_file(fdt, fd)
     IN \/ f = NULL /\ ret' = bad /\ UNCHANGED fdt
        \/ f # NULL /\ fdt' = fdrop(fhold(fdt, f), f) /\ ret' = 0
  /\ UNCHANGED lost

syscall_handler_lseek(fd) == with_file(fd, -EBADF)
syscall_handler_fstat(fd) == with_file(fd, -1)
syscall_handler_fsync(fd) == with_file(fd, -EBADF)
syscall_handler_ftruncate(fd) == with_file(fd, -EBADF)

\* fetch_from_host: the file is created with open, written and closed.  fd is
\* what that open returned.
fetch_from_host(t, f, fd) ==
  LET u == IF Full(t) THEN OpenedFull(t, f) ELSE Opened(t, f, fd)
      w == fdrop(fhold(u, u.files[fd]), u.files[fd])
  IN fdclose(w, fd)

\* syscall_handler_open of a file that only the host has: sys_open fails, the
\* file is fetched, and opened again.
open_and_fetch(f, g) ==
  /\ f \notin fdt.allocated
  /\ \E fd, n \in Fd :
       LET t == fetch_from_host(fdt, f, fd)
       IN /\ \/ FirstZero(fdt, fd) /\ UNCHANGED lost
             \/ /\ FetchWhenFull /\ Full(fdt) /\ fd = ENFILE /\ MaxLost > 0
                /\ lost' = [lost EXCEPT ![f] = 1]
          /\ g \notin t.allocated
          /\ FirstZero(t, n)
          /\ fdt' = Opened(t, g, n) /\ ret' = n

\* openat of a path below an open directory, which is held over the open.  The
\* result of the open comes back with its sign turned.  The dentry of stdio_file
\* has no mount whose path could be taken, and a file that is only the host's is
\* in open_and_fetch.
syscall_handler_openat(dirfd, f) ==
  LET d == vfscore_get_file(fdt, dirfd)
      t == fhold(fdt, d)
  IN \/ d = NULL /\ ret' = -1 /\ UNCHANGED <<fdt, lost>>
     \/ /\ d \in File /\ f \notin fdt.allocated
        /\ \E fd \in Fd : /\ FirstZero(fdt, fd)
                          /\ fdt' = fdrop(Opened(t, f, fd), d) /\ ret' = -fd
        /\ UNCHANGED lost
     \/ /\ d \in File /\ f \notin fdt.allocated /\ Full(fdt) /\ MaxLost > 0
        /\ fdt' = fdrop(OpenedFull(t, f), d) /\ ret' = -ENFILE
        /\ lost' = [lost EXCEPT ![f] = 1]

Next ==
  \/ \E f \in File : syscall_handler_open(f)
  \/ \E f \in File, dirfd \in Fd : syscall_handler_openat(dirfd, f)
  \/ \E f, g \in File : open_and_fetch(f, g)
  \/ \E fd \in Fd : syscall_handler_close(fd)
  \/ \E fd \in Fd : fcntl_dupfd(fd)
  \/ \E fd \in Fd : \/ syscall_handler_lseek(fd) \/ syscall_handler_fstat(fd)
                     \/ syscall_handler_fsync(fd) \/ syscall_handler_ftruncate(fd)

Spec == Init /\ [][Next]_vars

-----------------------------------------------------------------------------
Refs(f) == Cardinality({fd \in Fd : fdt.files[fd] = f})

\* Type invariant.
TypeOK ==
  /\ fdt \in [bitmap : SUBSET Fd, files : [Fd -> AnyFile \cup {NULL}],
              f_count : [AnyFile -> Nat], allocated : SUBSET AnyFile, panicked : BOOLEAN]
  /\ ret \in Int
  /\ lost \in [AnyFile -> 0 .. MaxLost]

\* Holds and drops balance over whatever calls the program makes: a file has
\* one hold for each of its descriptors, and those that calls on a full table
\* lost.  init_stdio leaves stdio_file with two holds for three descriptors.
\* So no descriptor leads to a freed file, fdrop never meets a count of zero,
\* and closing the last descriptor frees the file.
CountsExact ==
  /\ TypeOK
  /\ ~fdt.panicked
  /\ \A f \in fdt.allocated :
       /\ fdt.f_count[f] = Refs(f) + lost[f] - (IF f = Stdio THEN 1 ELSE 0)
       /\ f # Stdio /\ lost[f] = 0 => Refs(f) > 0
  /\ \A fd \in Fd : /\ fdt.files[fd] # NULL => fdt.files[fd] \in fdt.allocated
                    /\ fd \in fdt.bitmap <=> fdt.files[fd] # NULL

\* The table is one of descriptors as the program understands them.
Abstract == INSTANCE Descriptors WITH desc <- fdt.files
DescriptorsSpec == Abstract!Spec

\* fetch_from_host takes a result of open that is not negative for the
\* descriptor of the file it has created: 'panic("error creating file\n")'
\* (syscall_handlers.c) is for the others.  So an open never takes a
\* descriptor away from another file.
OpenKeepsOthers ==
  [][\A fd \in Fd : fdt.files[fd] # NULL /\ (\E f, g \in File : open_and_fetch(f, g))
        => fdt'.files[fd] = fdt.files[fd]]_vars
=============================================================================
