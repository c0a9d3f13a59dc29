------------------------------ MODULE MCFiles -------------------------------
(***************************************************************************)
(* The vfs emodule on small instances: the descriptor table (FdTable, with *)
(* its own variables), the names, the contents of a file, the listing of a *)
(* directory, and the paths the program passes.                            *)
(*                                                                         *)
(* A behaviour is one of a single part: on names it.  x1 to x7 are the     *)
(* variables of the parts other than FdTable, in the order their modules   *)
(* declare them.                                                           *)
(***************************************************************************)
EXTENDS FdTable, TLC

CONSTANTS
  VfsFile, Careful,   \* open files of Vfs, and which calls it leaves out
  Byte, ZERO, JUNK,   \* bytes of RamFile
  Handle              \* the files open on one node, in RamFile and DirListing

VARIABLES on, x1, x2, x3, x4, x5, x6, x7

-----------------------------------------------------------------------------
MCName == {"a", "b"}
MCNode == 0 .. 3
MCDent == 0 .. 5
MCOpenFlags ==
  {{}, {"WRITE"}, {"CREAT", "WRITE"}, {"CREAT", "EXCL"}, {"CREAT", "TRUNC", "WRITE"},
   {"TRUNC"}, {"DIRECTORY"}, {"NOFOLLOW", "WRITE", "TRUNC"}}
MCHostFile == {<<"b">>, <<"a", "b">>}

Named == INSTANCE Vfs WITH
  Name <- MCName, MaxDepth <- 2, Node <- MCNode, Dent <- MCDent, File <- VfsFile,
  OpenFlags <- MCOpenFlags, HostFile <- MCHostFile, fs <- x1, file <- x2, diverged <- x3

\* Bound: with more than one file open one node of ramfs stays unused.
MCBound ==
  Cardinality({f \in VfsFile : x2'[f] # NULL}) > 1 =>
    Cardinality({n \in MCNode : x1'.rn[n] # Named!NoNode}) < Cardinality(MCNode)

Buffers == {<<1>>, <<0, 2>>}
Contents == INSTANCE RamFile WITH
  PAGE <- 1, PARTITION <- 2, ExtraTruncate <- 0, ExtraWrite <- 1, File <- Handle, MaxSize <- 3,
  Vectors <- Buffers,
  np <- x1, v_size <- x2, file <- x3, ref <- x4

Listing == INSTANCE DirListing WITH
  Dir <- Handle, Counts <- {1, 2, 4}, MaxEntries <- 4,
  child <- x1, made <- x2, f_offset <- x3, seen <- x4, there <- x5, shifts <- x6, ended <- x7

Converted == INSTANCE Paths WITH
  Letter <- {"a"}, PATH_MAX <- 9, MaxDirs <- 3,
  Mounts <- {<<"/", "a">>, <<"/", "a", "/", "a">>, <<"/", "a", "a">>},
  cpath <- x1, src <- x2, full <- x3, dir <- x4, p <- x5, made <- x6, pc <- x7

\* Which open file, which handle and which byte it is makes no difference.
Symmetry == Permutations(VfsFile) \cup Permutations(Handle) \cup Permutations(Byte)

-----------------------------------------------------------------------------
ASSUME PartsAssumption ==
  /\ FdAssumption /\ Named!VfsAssumption /\ Contents!RamFileAssumption
  /\ Listing!DirAssumption /\ Converted!PathsAssumption

\* The variables a part does not have.
From1 == <<x1, x2, x3, x4, x5, x6, x7>>
From4 == <<x4, x5, x6, x7>>
From5 == <<x5, x6, x7>>

None5 == x5 = 0 /\ x6 = 0 /\ x7 = 0
None4 == x4 = 0 /\ None5
None1 == x1 = 0 /\ x2 = 0 /\ x3 = 0 /\ None4

PartsInit ==
  /\ Init
  /\ \/ on = "table" /\ None1
     \/ on = "names" /\ Named!Init /\ None4
     \/ on = "contents" /\ Contents!Init /\ None5
     \/ on = "listing" /\ Listing!Init
     \/ on = "paths" /\ Converted!Init

\* The conversion of a path comes to its end, and no call follows an open that
\* has diverged.
Ended ==
  /\ on = "paths" \/ (on = "names" /\ x3)
  /\ UNCHANGED <<on, vars, From1>>

PartsNext ==
  \/ on = "table" /\ Next /\ UNCHANGED <<on, From1>>
  \/ on = "names" /\ Named!Next /\ MCBound /\ UNCHANGED <<on, vars, From4>>
  \/ on = "contents" /\ Contents!Next /\ UNCHANGED <<on, vars, From5>>
  \/ on = "listing" /\ Listing!Next /\ UNCHANGED <<on, vars>>
  \/ on = "paths" /\ Converted!Next /\ UNCHANGED <<on, vars>>
  \/ Ended

allVars == <<on, vars, From1>>
PartsSpec == PartsInit /\ [][PartsNext]_allVars

-----------------------------------------------------------------------------
(* Properties, beside those of FdTable.                                    *)

\* dref, drele, vget, vput: every reference of a dentry and a vnode is accounted
\* for, whatever errors the calls ran into.
RefsExact == on = "names" => Named!RefsExact

\* namei: the cache of dentries never changes what a path leads to.
LookupExact == on = "names" => Named!LookupExact

\* The nodes of ramfs are a tree of names as the program understands it.
TreeStep == on = "names" => Named!TreeStep
TreeSpec == (on = "names" => Named!Tree!Init) /\ [][TreeStep]_allVars

\* "Deallocate fs specific vnode data" (vnode.c:149, :166) is done with the
\* last reference: a file that is open has its node.
OpenFileHasNode == on = "names" => Named!OpenFileHasNode

\* ramfs_read, ramfs_write, ramfs_truncate: a read gives what was written.
ReadBack == on = "contents" => Contents!TypeOK /\ Contents!ReadBack

\* getdents: a listing has each entry once, whatever changes meanwhile.
ListingExact == on = "listing" => Listing!ListingExact

\* path_conv, vfs_findroot and mkdir_dir_for_fetch: the full path leads to the
\* same place and fits its buffer, its mount is the nearest one, and the
\* directories above a file that is fetched are made.
PathsExact == on = "paths" => Converted!TypeOK /\ Converted!PathsExact
=============================================================================
