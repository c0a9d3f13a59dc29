-------------------------------- MODULE Paths -------------------------------
(***************************************************************************)
(* Path names of the vfs emodule, as strings: path_conv (vfs/task.c) that  *)
(* turns what the program passes into a full path, vfs_findroot            *)
(* (vfs/mount.c) that finds the mount for it, and mkdir_dir_for_fetch      *)
(* (vfs/syscall_handlers.c) that makes the directories of a file about to  *)
(* be fetched.  A string is the sequence of its characters.  The working   *)
(* directory is always "/": no call changes it.                            *)
(***************************************************************************)
EXTENDS Integers, SequencesExt

CONSTANTS
  Letter,     \* characters other than the slash and the dot
  PATH_MAX,
  Mounts,     \* paths of mount points, other than the root
  MaxDirs     \* directories of the files that are fetched

PathsAssumption == PATH_MAX \in Nat /\ PATH_MAX > 2 /\ MaxDirs \in Nat

VARIABLES
  cpath,   \* what the program passes
  src,     \* how much of it is done
  full,    \* the full path so far
  dir,     \* of mkdir_dir_for_fetch: the directory part of cpath, and
  p,       \* how much of it is done
  made,    \* the paths it has passed to sys_mkdir
  pc       \* "conv", "full", "mkdir", "made" or "toolong"

vars == <<cpath, src, full, dir, p, made, pc>>

Slash == "/"
Wd == <<Slash>>
Strings == UNION {[1 .. n -> Letter \cup {Slash, "."}] : n \in 0 .. PATH_MAX}

\* The place of the next slash at or behind i, or just behind the string.
NextSlash(s, i) ==
  CHOOSE j \in i .. Len(s) + 1 : /\ j = Len(s) + 1 \/ s[j] = Slash
                                 /\ \A k \in i .. j - 1 : s[k] # Slash
\* The place of the last slash, or 0.
LastSlash(s) ==
  CHOOSE j \in 0 .. Len(s) : /\ j = 0 \/ s[j] = Slash
                             /\ \A k \in j + 1 .. Len(s) : s[k] # Slash

-----------------------------------------------------------------------------
\* strlcpy cuts cpath off before its length is looked at.
Init ==
  /\ cpath \in Strings
  /\ LET len == IF Len(cpath) < PATH_MAX THEN Len(cpath) ELSE PATH_MAX - 1
     IN pc = IF Len(Wd) + len >= PATH_MAX THEN "toolong" ELSE "conv"
  /\ src = IF cpath # <<>> /\ cpath[1] = Slash THEN 1 ELSE 0
  /\ full = Wd /\ dir = <<>> /\ p = 0 /\ made = <<>>

\* "..": back over the last name.  The slash before it is left out, unless it
\* is the root's.
Back(s) ==
  IF Len(s) < 2 THEN s
  ELSE LET j == LastSlash(SubSeq(s, 1, Len(s) - 1))
       IN SubSeq(s, 1, IF j = 1 THEN 1 ELSE j - 1)

\* Faulty variant: a slash follows every name.
path_conv_slashes ==
  LET q == NextSlash(cpath, src + 1)
      name == SubSeq(cpath, src + 1, q - 1)
      tgt == CASE name = <<".", ".">> -> Back(full)
               [] name = <<".">> -> full
               [] OTHER -> full \o name
  IN /\ pc = "conv"
     /\ \/ /\ src >= Len(cpath) /\ pc' = "full" /\ UNCHANGED <<src, full>>
        \/ /\ src < Len(cpath) /\ pc' = pc
           /\ src' = q
           /\ full' = IF q > Len(cpath) THEN tgt ELSE Append(tgt, Slash)
     /\ UNCHANGED <<cpath, dir, p, made>>

\* One round of the loop over the names.
path_conv ==
  LET q == NextSlash(cpath, src + 1)
      name == SubSeq(cpath, src + 1, q - 1)
      tgt == CASE name = <<".", ".">> -> Back(full)
               [] name = <<".">> -> full
               [] OTHER -> full \o name
  IN /\ pc = "conv"
     /\ \/ /\ src >= Len(cpath) /\ pc' = "full" /\ UNCHANGED <<src, full>>
        \/ /\ src < Len(cpath) /\ pc' = pc
           /\ src' = q
           /\ full' = IF q > Len(cpath) \/ Last(tgt) = Slash THEN tgt ELSE Append(tgt, Slash)
     /\ UNCHANGED <<cpath, dir, p, made>>

-----------------------------------------------------------------------------
\* How much of path a mount point is, if it ends where a name ends.
count_match(path, root) ==
  LET len == Len(root)
  IN IF ~IsPrefix(root, path) THEN 0
     ELSE IF root = <<Slash>> \/ len = Len(path) \/ path[len + 1] = Slash THEN len
     ELSE 0

\* The nearest mount point.
vfs_findroot(path) ==
  CHOOSE m \in Mounts \cup {<<Slash>>} :
    \A n \in Mounts : count_match(path, n) <= count_match(path, m)

-----------------------------------------------------------------------------
\* The directory part; nothing is made for a file of the working directory.
\* A path with MaxDirs slashes or more below the first is left to another
\* instance.
mkdir_start ==
  /\ pc = "full" /\ LastSlash(cpath) # 0
  /\ dir' = IF LastSlash(cpath) = 1 THEN <<Slash>> ELSE SubSeq(cpath, 1, LastSlash(cpath) - 1)
  /\ Len(SelectSeq(dir', LAMBDA c : c = Slash)) < MaxDirs
  /\ pc' = "mkdir" /\ p' = 0
  /\ UNCHANGED <<cpath, src, full, made>>

\* One round: the part before the next slash, or at last the whole.  len is
\* counted from the start of dir and not from p, so p may pass the end of dir
\* into the file's name, where there is no slash.  The loop is followed up to
\* where p leaves the copy of cpath.
mkdir_dir_for_fetch ==
  /\ pc = "mkdir" /\ p <= Len(cpath)
  /\ LET len == IF p < Len(dir) THEN NextSlash(dir, p + 1) - 1 ELSE Len(dir)
     IN /\ made' = Append(made, <<Slash>> \o SubSeq(dir, 1, len))
        /\ IF len < Len(dir) THEN p' = p + len + 1 /\ pc' = pc
           ELSE pc' = "made" /\ UNCHANGED p
  /\ UNCHANGED <<cpath, src, full, dir>>

Next == path_conv \/ mkdir_start \/ mkdir_dir_for_fetch

Spec == Init /\ [][Next]_vars

-----------------------------------------------------------------------------
\* The names of a path, and what is left of them when "." and ".." are
\* followed.
RECURSIVE Split(_)
Split(s) ==
  LET q == NextSlash(s, 1)
      first == IF q = 1 THEN <<>> ELSE <<SubSeq(s, 1, q - 1)>>
  IN IF s = <<>> THEN <<>> ELSE first \o Split(SubSeq(s, q + 1, Len(s)))

Follow(names) ==
  FoldLeft(LAMBDA at, n : CASE n = <<".">> -> at
                            [] n = <<".", ".">> -> IF at = <<>> THEN at ELSE Front(at)
                            [] OTHER -> Append(at, n),
           <<>>, names)

\* Type invariant.
TypeOK ==
  /\ cpath \in Strings /\ pc \in {"conv", "full", "mkdir", "made", "toolong"}
  /\ \A i \in DOMAIN full : full[i] \in Letter \cup {Slash, "."}
  /\ src \in 0 .. Len(cpath) + 1 /\ p \in Nat

\* The full path and its terminator fit the buffer in every round, for every
\* path that is not refused.
FitsBuffer == Len(full) + 1 <= PATH_MAX

\* The full path names the same place as what the program passed, in a form
\* that namei and the dentry cache can compare: from the root, without ".",
\* ".." or an empty name.
FullPathRight ==
  pc = "full" =>
    /\ Split(full) = Follow(Split(cpath))
    /\ full[1] = Slash
    /\ \A i \in 1 .. Len(full) - 1 : full[i] # Slash \/ full[i + 1] # Slash

\* "Find mount point from nearest path": the mount whose names are the longest
\* beginning of the path's names.
NearestMount ==
  pc = "full" =>
    LET m == vfs_findroot(full)
        over == {n \in Mounts \cup {<<Slash>>} : IsPrefix(Split(n), Split(full))}
    IN m \in over /\ \A n \in over : Len(Split(n)) <= Len(Split(m))

Plain == \A n \in ToSet(Split(cpath)) : n \notin {<<".">>, <<".", ".">>}

\* Every directory above a file that is fetched is made, each before those in
\* it, when the path is written without "." and "..".
DirsMade ==
  pc = "made" /\ Plain =>
    LET want == Front(Split(cpath))
        at(k) == SubSeq(want, 1, k)
    IN LastSlash(cpath) < Len(cpath) =>
         \A k \in DOMAIN want : \E i \in DOMAIN made :
           /\ Split(made[i]) = at(k)
           /\ \A j \in 1 .. i - 1 : Len(Split(made[j])) < k

\* What path_conv, vfs_findroot and mkdir_dir_for_fetch make of a path.
PathsExact == FitsBuffer /\ FullPathRight /\ NearestMount /\ DirsMade

\* 'debug("left: %s\n", p)' (syscall_handlers.c:83): p is what is left of the
\* directory part, so it stays in the copy of the path.
LeftIsRest ==
  pc = "mkdir" /\ Last(cpath) # Slash
    /\ (\A i \in 1 .. Len(cpath) - 1 : cpath[i] # Slash \/ cpath[i + 1] # Slash)
    => p <= Len(cpath)
=============================================================================
