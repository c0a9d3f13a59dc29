-------------------------------- MODULE Vfs ---------------------------------
(***************************************************************************)
(* Names in the vfs emodule: the tree of ramfs nodes                       *)
(* (ramfs/ramfs_vnops.c), the cache of dentries over it (vfs/dentry.c,     *)
(* vfs/lookup.c), their vnodes (vfs/vnode.c), and the system calls that    *)
(* take a path (vfs/syscalls.c, vfs/syscall_handlers.c).                   *)
(*                                                                         *)
(* One ramfs is mounted at the root, and a ramfs vnode belongs to exactly  *)
(* one dentry (ramfs_lookup asks for a fresh inode number each time), so   *)
(* the two are one record here.  Symbolic links cannot be made by any      *)
(* system call and are left out, as is running out of memory.  A path is   *)
(* what task_conv makes of it (Paths): names, and possibly a slash at the  *)
(* end.  A call runs to its end before the next.                           *)
(***************************************************************************)
EXTENDS Integers, FiniteSets, SequencesExt

CONSTANTS
  Name, MaxDepth,  \* paths of up to MaxDepth names
  Node, Dent,      \* addresses of ramfs nodes and dentries: numbers from 0
  File,            \* open files
  OpenFlags,       \* the combinations of flags open is called with
  HostFile,        \* paths of files the host has
  Careful,         \* no call unlinks an open file or from a directory being
                   \* listed, and none fails to open a file that is there
                   \* and that the host has as well
  NULL

VfsAssumption ==
  /\ Node \subseteq Nat /\ Dent \subseteq Nat /\ 0 \in Node \cap Dent
  /\ NULL \notin Node \cup Dent /\ Careful \in BOOLEAN
  /\ \A fl \in OpenFlags : fl \subseteq {"CREAT", "EXCL", "TRUNC", "WRITE", "DIRECTORY", "NOFOLLOW"}

VARIABLES
  fs,     \* [rn, de, m_count]
  file,   \* for each open file [dp, write, off, seen], or NULL
  diverged   \* open and fetch_from_host call each other without end

vars == <<fs, file, diverged>>

Names == UNION {[1 .. n -> Name] : n \in 0 .. MaxDepth}
Path == {[at |-> p, slash |-> s] : p \in Names, s \in BOOLEAN} \ {[at |-> <<>>, slash |-> FALSE]}
Lowest(S) == CHOOSE x \in S : \A y \in S : x <= y
NoNode == [type |-> "free", name |-> NULL, child |-> <<>>, data |-> "none"]
NoDentry == [type |-> "free"]

-----------------------------------------------------------------------------
(* Dentries and their vnodes.  A result is an error, or a dentry with a    *)
(* reference.                                                              *)

Failed(rc, s) == [rc |-> rc, dp |-> NULL, s |-> s]
Found(d, s) == [rc |-> "ok", dp |-> d, s |-> s]

Live(s) == {d \in Dent : s.de[d] # NoDentry}

dref(s, d) == [s EXCEPT !.de[d].d_refcnt = @ + 1]

\* vput and vrele: the last reference makes the mount less busy.
vrele(s, d) ==
  [s EXCEPT !.de[d].v_refcnt = @ - 1,
            !.m_count = IF s.de[d].v_refcnt = 1 THEN @ - 1 ELSE @]

RECURSIVE drele(_, _)
drele(s, d) ==
  IF s.de[d].d_refcnt > 1 THEN [s EXCEPT !.de[d].d_refcnt = @ - 1]
  ELSE LET up(t) == IF s.de[d].parent # NULL THEN drele(t, s.de[d].parent) ELSE t
       IN up([vrele(s, d) EXCEPT !.de[d] = NoDentry])

dentry_lookup(s, path) ==
  LET hit == {d \in Live(s) : s.de[d].hashed /\ s.de[d].path = path}
  IN IF hit = {} THEN NULL ELSE Lowest(hit)

\* A vnode for node n, with one reference, at the address of its dentry.
vfscore_vget(s, d, n) ==
  [s EXCEPT !.de[d] = [type |-> s.rn[n].type, node |-> n, v_refcnt |-> 1, path |-> <<>>,
                       parent |-> NULL, hashed |-> FALSE, d_refcnt |-> 0],
            !.m_count = @ + 1]

dentry_alloc(s, parent, d, path) ==
  [dref(s, parent) EXCEPT !.de[d] = [@ EXCEPT !.path = path, !.parent = parent, !.hashed = TRUE,
                                               !.d_refcnt = 1, !.v_refcnt = @ + 1]]

\* VOP_LOOKUP, dentry_alloc and vput for a name that is not cached.
Enter(s, parent, n, path) ==
  LET at(d) == Found(d, vrele(dentry_alloc(vfscore_vget(s, d, n), parent, d, path), d))
  IN at(Lowest(Dent \ Live(s)))

dentry_remove(s, d) == [s EXCEPT !.de[d].hashed = FALSE]

-----------------------------------------------------------------------------
(* The nodes.                                                              *)

ramfs_lookup(s, dn, name) ==
  LET hit == {i \in DOMAIN s.rn[dn].child : s.rn[s.rn[dn].child[i]].name = name}
  IN IF hit = {} THEN NULL ELSE s.rn[dn].child[Lowest(hit)]

ramfs_add_node(s, dn, name, type) ==
  LET n == Lowest({m \in Node : s.rn[m] = NoNode})
  IN [s EXCEPT !.rn = [m \in Node |->
        CASE m = n -> [NoNode EXCEPT !.type = type, !.name = name]
          [] m = dn -> [s.rn[dn] EXCEPT !.child = Append(@, n)]
          [] OTHER -> s.rn[m]]]

\* Faulty variant: what follows the node in its directory is lost with it.
ramfs_remove_node_rest(s, dn, n) ==
  LET i == CHOOSE j \in DOMAIN s.rn[dn].child : s.rn[dn].child[j] = n
  IN [s EXCEPT !.rn[dn].child = SubSeq(@, 1, i - 1), !.rn[n] = NoNode]

ramfs_remove_node(s, dn, n) ==
  [s EXCEPT !.rn[dn].child = SelectSeq(@, LAMBDA m : m # n), !.rn[n] = NoNode]

-----------------------------------------------------------------------------
(* Paths to dentries.                                                      *)

RECURSIVE Walk(_, _, _, _)
Walk(s, ddp, path, i) ==
  LET node == SubSeq(path.at, 1, i)
      on(t, d) == IF (i < Len(path.at) \/ path.slash) /\ t.de[d].type # "VDIR"
                  THEN Failed("ENOTDIR", drele(t, d))
                  ELSE Walk(t, d, path, i + 1)
      at(a) == on(drele(a.s, ddp), a.dp)
      try(hit, n) == IF hit = NULL /\ n = NULL THEN Failed("ENOENT", drele(s, ddp))
                     ELSE at(IF hit # NULL THEN Found(hit, dref(s, hit))
                             ELSE Enter(s, ddp, n, node))
  IN IF i > Len(path.at) THEN Found(ddp, s)
     ELSE try(dentry_lookup(s, node), ramfs_lookup(s, s.de[ddp].node, path.at[i]))

\* The whole path is in the cache, or it is walked from the root.
namei(s, path) ==
  LET try(hit) == IF hit # NULL THEN Found(hit, dref(s, hit)) ELSE Walk(dref(s, 0), 0, path, 1)
  IN try(IF path.at = <<>> \/ ~path.slash THEN dentry_lookup(s, path.at) ELSE NULL)

\* The directory a path is in, and the name there.
DirOf(path) ==
  IF path.slash THEN [at |-> path.at, slash |-> path.at = <<>>]
  ELSE [at |-> Front(path.at), slash |-> Len(path.at) = 1]
NameOf(path) == IF path.slash THEN NULL ELSE Last(path.at)

lookup(s, path) ==
  LET dir(r) == IF r.rc = "ok" /\ r.s.de[r.dp].type # "VDIR"
                THEN Failed("ENOTDIR", drele(r.s, r.dp)) ELSE r
  IN dir(namei(s, DirOf(path)))

namei_last_nofollow(s, path, ddp) ==
  LET try(hit, n) == IF hit # NULL THEN Found(hit, dref(s, hit))
                     ELSE IF NameOf(path) = NULL \/ n = NULL THEN Failed("ENOENT", s)
                     ELSE Enter(s, ddp, n, path.at)
  IN try(dentry_lookup(s, path.at), ramfs_lookup(s, s.de[ddp].node, NameOf(path)))

\* lookup and namei_last_nofollow: the directory l, and r in it.  A failure of
\* the second gives the directory back.
InDirectory(s, path) ==
  LET last(l, r) == [l |-> l, r |-> IF r.rc # "ok" THEN Failed(r.rc, drele(r.s, l.dp)) ELSE r]
      first(l) == IF l.rc # "ok" THEN [l |-> l, r |-> l]
                  ELSE last(l, namei_last_nofollow(l.s, path, l.dp))
  IN first(lookup(s, path))

-----------------------------------------------------------------------------
(* The calls.                                                              *)

open_no_follow_chk(s, path) ==
  LET done(l, r) == IF r.rc # "ok" THEN r ELSE Failed("ok", drele(drele(r.s, r.dp), l.dp))
      in(d) == done(d.l, d.r)
  IN in(InDirectory(s, path))

\* lookup of the directory, and a new node in it.
MakeNode(s, path, type) ==
  LET in(l) == IF l.rc # "ok" THEN l
               ELSE Failed("ok", drele(ramfs_add_node(l.s, l.s.de[l.dp].node, NameOf(path), type), l.dp))
  IN in(lookup(s, path))

\* The file of an O_CREAT that is not there yet.
CreateFile(s, path) ==
  LET made(l) == IF l.rc # "ok" THEN l ELSE namei(l.s, path)
  IN made(MakeNode(s, path, "VREG"))

\* Faulty variant: the dentry is kept when the flags do not fit.
OpenFinish_kept(r, fl) ==
  IF "TRUNC" \in fl /\ ("WRITE" \notin fl \/ r.s.de[r.dp].type = "VDIR")
  THEN Failed("EINVAL", r.s)
  ELSE IF "TRUNC" \in fl THEN [r EXCEPT !.s.rn[r.s.de[r.dp].node].data = "none"]
  ELSE r

\* O_TRUNC, once the dentry is there.
OpenFinish(r, fl) ==
  IF "TRUNC" \in fl /\ ("WRITE" \notin fl \/ r.s.de[r.dp].type = "VDIR")
  THEN Failed("EINVAL", drele(r.s, r.dp))
  ELSE IF "TRUNC" \in fl THEN [r EXCEPT !.s.rn[r.s.de[r.dp].node].data = "none"]
  ELSE r

\* sys_open, with what namei says of the path: a new file, or one that is there.
OpenNew(n, fl) == IF n.rc # "ok" THEN n ELSE OpenFinish(n, fl \ {"TRUNC"})
OpenFound(r, fl) ==
  LET dir == r.s.de[r.dp].type = "VDIR"
      rc == IF "CREAT" \in fl THEN IF "EXCL" \in fl THEN "EEXIST" ELSE "ok"
            ELSE IF fl \cap {"WRITE", "TRUNC"} # {} /\ dir THEN "EISDIR"
            ELSE IF "DIRECTORY" \in fl /\ ~dir THEN "ENOTDIR" ELSE "ok"
  IN IF rc # "ok" THEN Failed(rc, drele(r.s, r.dp)) ELSE OpenFinish(r, fl)

sys_open(s, path, fl) ==
  LET named(r) == IF "CREAT" \in fl /\ r.rc = "ENOENT" THEN OpenNew(CreateFile(r.s, path), fl)
                  ELSE IF r.rc # "ok" THEN r
                  ELSE OpenFound(r, fl)
      checked(c) == IF c.rc # "ok" THEN c ELSE named(namei(c.s, path))
  IN checked(IF "NOFOLLOW" \in fl /\ "CREAT" \notin fl THEN open_no_follow_chk(s, path)
             ELSE Failed("ok", s))

sys_mkdir(s, path) ==
  LET named(r) == IF r.rc = "ok" THEN Failed("EEXIST", drele(r.s, r.dp))
                  ELSE MakeNode(r.s, path, "VDIR")
  IN named(namei(s, path))

\* Faulty variant: the dentry of a removed file stays in the cache.
sys_unlink_cached(s, path) ==
  LET remove(l, r) ==
        IF r.rc # "ok" THEN r
        ELSE IF r.s.de[r.dp].type = "VDIR" THEN Failed("EISDIR", drele(drele(r.s, r.dp), l.dp))
        ELSE Failed("ok", drele(ramfs_remove_node(r.s, l.s.de[l.dp].node, r.s.de[r.dp].node), l.dp))
      in(d) == remove(d.l, d.r)
  IN in(InDirectory(s, path))

sys_unlink(s, path) ==
  LET node(l, r) == ramfs_remove_node(r.s, l.s.de[l.dp].node, r.s.de[r.dp].node)
      remove(l, r) ==
        IF r.rc # "ok" THEN r
        ELSE IF r.s.de[r.dp].type = "VDIR" THEN Failed("EISDIR", drele(drele(r.s, r.dp), l.dp))
        ELSE Failed("ok", drele(drele(dentry_remove(node(l, r), r.dp), l.dp), r.dp))
      in(d) == remove(d.l, d.r)
  IN in(InDirectory(s, path))

\* The dentry is taken and given back.
sys_stat(s, path) ==
  LET named(r) == IF r.rc = "ok" THEN Failed("ok", drele(r.s, r.dp)) ELSE r
  IN named(namei(s, path))
sys_access(s, path) == sys_stat(s, path)
sys_lstat(s, path) == open_no_follow_chk(s, path)

\* The directories of a path, from the top.  What of them mkdir_dir_for_fetch
\* makes of longer paths is in Paths.
RECURSIVE MakeDirs(_, _, _)
MakeDirs(s, at, i) ==
  IF i >= Len(at) THEN s
  ELSE MakeDirs(sys_mkdir(s, [at |-> SubSeq(at, 1, i), slash |-> FALSE]).s, at, i + 1)
mkdir_dir_for_fetch(s, path) == MakeDirs(s, path.at, 1)

\* The host has the file: it is created, written and closed.  A creation that
\* fails tries to fetch the file again, and so on.
fetch_from_host(s, path) ==
  LET write(t, d) == IF t.de[d].type = "VREG" THEN [t EXCEPT !.rn[t.de[d].node].data = "host"] ELSE t
      opened(r) == IF r.rc # "ok" THEN r ELSE Failed("ok", drele(write(r.s, r.dp), r.dp))
  IN opened(sys_open(mkdir_dir_for_fetch(s, path), path, {"CREAT", "WRITE"}))

-----------------------------------------------------------------------------
\* mount: the root's vnode and dentry.
Init ==
  /\ fs = [rn |-> [n \in Node |-> IF n = 0 THEN [NoNode EXCEPT !.type = "VDIR", !.name = "/"]
                                  ELSE NoNode],
           de |-> [d \in Dent |->
                    IF d = 0 THEN [type |-> "VDIR", path |-> <<>>, node |-> 0, parent |-> NULL,
                                   hashed |-> TRUE, d_refcnt |-> 1, v_refcnt |-> 1]
                    ELSE NoDentry],
           m_count |-> 1]
  /\ file = [f \in File |-> NULL] /\ diverged = FALSE

FreeNodes == Cardinality({n \in Node : fs.rn[n] = NoNode})

\* vfs_close: fdrop calls it with the last descriptor.
vfs_close(f) ==
  /\ file[f] # NULL /\ ~diverged
  /\ fs' = drele(fs, file[f].dp) /\ file' = [file EXCEPT ![f] = NULL]
  /\ UNCHANGED diverged

Opened(f, r, fl) ==
  /\ fs' = r.s
  /\ file' = IF r.rc = "ok"
             THEN [file EXCEPT ![f] = [dp |-> r.dp, write |-> "WRITE" \in fl, off |-> 0,
                                       seen |-> <<>>]]
             ELSE file

\* When sys_open fails, whatever the reason, the host is asked for the file.
\* FreeNodes bounds the tree.
syscall_handler_open(f, path, fl) ==
  LET fetched(rc, h) ==
        \/ /\ h.rc = "ok" /\ (Careful => rc \in {"ENOENT", "EISDIR"})
           /\ Opened(f, sys_open(h.s, path, fl), fl) /\ UNCHANGED diverged
        \/ h.rc # "ok" /\ diverged' = TRUE /\ UNCHANGED <<fs, file>>
      opened(r) ==
        IF r.rc # "ok" /\ path.at \in HostFile /\ ~path.slash
        THEN fetched(r.rc, fetch_from_host(r.s, path))
        ELSE Opened(f, r, fl) /\ UNCHANGED diverged
  IN /\ file[f] = NULL /\ ~diverged /\ FreeNodes >= Len(path.at)
     /\ opened(sys_open(fs, path, fl))

Busy(path) ==
  \E f \in File : file[f] # NULL /\ LET d == fs.de[file[f].dp]
                                    IN d.path = path.at \/ (file[f].off > 0 /\ d.path = Front(path.at))

syscall_handler_unlinkat(path) ==
  /\ ~diverged /\ (Careful => path.at = <<>> \/ ~Busy(path))
  /\ fs' = sys_unlink(fs, path).s /\ UNCHANGED <<file, diverged>>

syscall_handler_mkdirat(path) ==
  /\ ~diverged /\ FreeNodes > 0
  /\ fs' = sys_mkdir(fs, path).s /\ UNCHANGED <<file, diverged>>

syscall_handler_fstatat(path) ==
  /\ ~diverged /\ fs' \in {sys_stat(fs, path).s, sys_lstat(fs, path).s}
  /\ UNCHANGED <<file, diverged>>

syscall_handler_faccessat(path) ==
  /\ ~diverged /\ fs' = sys_access(fs, path).s /\ UNCHANGED <<file, diverged>>

Write(f) ==
  /\ file[f] # NULL /\ file[f].write /\ fs.de[file[f].dp].type = "VREG" /\ ~diverged
  /\ fs' = [fs EXCEPT !.rn[fs.de[file[f].dp].node].data = "mine"]
  /\ UNCHANGED <<file, diverged>>

\* sys_readdir and ramfs_readdir: one entry, by its position.
sys_readdir(f) ==
  /\ file[f] # NULL /\ ~diverged
  /\ LET d == fs.de[file[f].dp]
         off == file[f].off
         child == fs.rn[d.node].child
     IN /\ d.type = "VDIR" /\ off - 2 < Len(child)
        /\ file' = [file EXCEPT ![f].off = off + 1,
                                ![f].seen = IF off < 2 THEN @ ELSE Append(@, child[off - 1])]
  /\ UNCHANGED <<fs, diverged>>

Next ==
  \/ \E f \in File : vfs_close(f) \/ Write(f) \/ sys_readdir(f)
  \/ \E f \in File, p \in Path, fl \in OpenFlags : syscall_handler_open(f, p, fl)
  \/ \E p \in Path : \/ syscall_handler_unlinkat(p) \/ syscall_handler_mkdirat(p)
                     \/ syscall_handler_fstatat(p) \/ syscall_handler_faccessat(p)

Spec == Init /\ [][Next]_vars
-----------------------------------------------------------------------------
\* Type invariant.
TypeOK ==
  /\ \A n \in Node : fs.rn[n].type \in {"free", "VDIR", "VREG"} /\ fs.rn[n].child \in Seq(Node)
  /\ \A d \in Live(fs) : /\ fs.de[d].node \in Node /\ fs.de[d].d_refcnt \in Nat \ {0}
                         /\ fs.de[d].path \in Names /\ fs.de[d].v_refcnt \in Nat
  /\ \A f \in File : file[f] # NULL => file[f].dp \in Live(fs)
  /\ fs.m_count \in Nat

\* The node a path names in the tree, whatever is cached.
RECURSIVE NodeAt(_)
NodeAt(p) ==
  IF p = <<>> THEN 0
  ELSE LET n == NodeAt(Front(p)) IN IF n = NULL THEN NULL ELSE ramfs_lookup(fs, n, Last(p))

TreePaths == {p \in Names : NodeAt(p) # NULL}

\* Every reference is accounted for whatever errors the calls ran into: a
\* dentry has one for each open file, each cached child, and the mount's on
\* the root; a vnode has its dentry's; the mount counts the vnodes; and every
\* node in use is in the tree.
RefsExact ==
  /\ TypeOK
  /\ \A d \in Live(fs) :
       /\ fs.de[d].v_refcnt = 1
       /\ fs.de[d].d_refcnt =
            Cardinality({f \in File : file[f] # NULL /\ file[f].dp = d})
              + Cardinality({c \in Live(fs) : fs.de[c].parent = d})
              + (IF d = 0 THEN 1 ELSE 0)
  /\ fs.m_count = Cardinality(Live(fs))
  /\ Cardinality(TreePaths) = Cardinality({n \in Node : fs.rn[n] # NoNode})

\* What a lookup should say of a path.
RightAnswer(path) ==
  LET upto(i) == NodeAt(SubSeq(path.at, 1, i))
      isdir(i) == upto(i) # NULL /\ fs.rn[upto(i)].type = "VDIR"
      below == (0 .. Len(path.at) - 1) \cup (IF path.slash THEN {Len(path.at)} ELSE {})
  IN IF \E i \in below : upto(i) # NULL /\ ~isdir(i) THEN "ENOTDIR"
     ELSE IF upto(Len(path.at)) = NULL THEN "ENOENT"
     ELSE "ok"

\* The cache never changes an answer: each path leads to the node that the
\* tree has there, or to the error the tree calls for.
LookupExact ==
  ~diverged /\ Cardinality(Live(fs)) + MaxDepth <= Cardinality(Dent) =>
    \A p \in Path : LET r == namei(fs, p)
                    IN /\ r.rc = RightAnswer(p)
                       /\ r.rc = "ok" => r.s.de[r.dp].node = NodeAt(p.at)

\* The nodes are a tree of names as the program understands it: the tree only
\* changes with the nodes, and then as FileTree allows.
tree == [p \in TreePaths |-> fs.rn[NodeAt(p)].type]
Tree == INSTANCE FileTree
TreeStep == UNCHANGED fs.rn \/ Tree!Add \/ Tree!Unlink \/ UNCHANGED tree
TreeSpec == Tree!Init /\ [][TreeStep]_vars

\* "Deallocate fs specific vnode data" (vnode.c:149, :166) is done with the
\* last reference: a file that is open has its node.
OpenFileHasNode ==
  \A f \in File : file[f] # NULL => fs.rn[fs.de[file[f].dp].node] # NoNode

\* fetch_from_host is there to "create file" (syscall_handlers.c:129): it
\* leaves the contents of a file that the program has written alone.
FetchKeepsFiles ==
  [][\A n \in Node : fs.rn[n].data = "mine" => fs'.rn[n].data # "host"]_vars

\* 'panic("error creating file\n")' (syscall_handlers.c:134) is where a file
\* that cannot be created ends up: no open goes on for ever.
OpenEnds == ~diverged
=============================================================================
