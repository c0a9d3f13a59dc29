--------------------------- MODULE FdTableProofs ----------------------------
(***************************************************************************)
(* For every size of the table, any files and any error numbers: the       *)
(* reference counts of the files are exact, and the table is one of        *)
(* descriptors as the program understands them.                            *)
(*                                                                         *)
(* A system call is a sequence of holds and drops.  The lemmas of the      *)
(* first part say what such a sequence leaves of the table, those of the   *)
(* second how the number of descriptors of a file changes, and the         *)
(* inductive invariant puts the two together.                              *)
(***************************************************************************)
EXTENDS FdTable, FiniteSetTheorems, TLAPS

Bitmaps == SUBSET Fd
Files == [Fd -> AnyFile \cup {NULL}]
Counts == [AnyFile -> Nat]
FileSets == SUBSET AnyFile
Table == [bitmap : Bitmaps, files : Files, f_count : Counts, allocated : FileSets,
          panicked : BOOLEAN]

\* A table that has not panicked, by its parts.
Tab(bitmap, files, f_count, allocated) ==
  [bitmap |-> bitmap, files |-> files, f_count |-> f_count, allocated |-> allocated,
   panicked |-> FALSE]

\* A function with f mapped to n, and a set with x and without it.
With(g, f, n) == [g EXCEPT ![f] = n]
Plus(S, x) == S \cup {x}
Minus(S, x) == S \ {x}

-----------------------------------------------------------------------------
(* What the calls leave of a table.                                        *)

LEMMA WithCount ==
  ASSUME NEW c \in Counts, NEW f \in AnyFile, NEW n \in Nat
  PROVE  /\ With(c, f, n) \in Counts
         /\ With(c, f, n)[f] = n
         /\ \A g \in AnyFile : g # f => With(c, f, n)[g] = c[g]
         /\ \A m \in Nat : With(With(c, f, n), f, m) = With(c, f, m)
         /\ With(c, f, c[f]) = c
         /\ c[f] \in Nat
<1>1. \A m \in Nat : With(With(c, f, n), f, m) = With(c, f, m)
  BY Zenon DEF Counts, With
<1>2. With(c, f, c[f]) = c
  BY DEF Counts, With
<1> QED BY <1>1, <1>2 DEF Counts, With

LEMMA WithFile ==
  ASSUME NEW s \in Files, NEW fd \in Fd, NEW f \in AnyFile \cup {NULL}
  PROVE  /\ With(s, fd, f) \in Files
         /\ With(s, fd, f)[fd] = f
         /\ \A k \in Fd : k # fd => With(s, fd, f)[k] = s[k]
         /\ \A g \in AnyFile \cup {NULL} : With(With(s, fd, f), fd, g) = With(s, fd, g)
         /\ With(s, fd, s[fd]) = s
         /\ s[fd] \in AnyFile \cup {NULL}
<1>1. \A g \in AnyFile \cup {NULL} : With(With(s, fd, f), fd, g) = With(s, fd, g)
  BY Zenon DEF Files, With
<1>2. With(s, fd, s[fd]) = s
  BY DEF Files, With
<1> QED BY <1>1, <1>2 DEF Files, With

LEMMA ByParts ==
  ASSUME NEW t \in Table, ~t.panicked
  PROVE  t = Tab(t.bitmap, t.files, t.f_count, t.allocated)
  BY DEF Tab, Table

LEMMA Parts ==
  ASSUME NEW b \in Bitmaps, NEW s \in Files, NEW c \in Counts, NEW a \in FileSets
  PROVE  /\ Tab(b, s, c, a) \in Table
         /\ Tab(b, s, c, a).bitmap = b
         /\ Tab(b, s, c, a).files = s
         /\ Tab(b, s, c, a).f_count = c
         /\ Tab(b, s, c, a).allocated = a
         /\ ~Tab(b, s, c, a).panicked
  BY DEF Tab, Table

LEMMA HoldIs ==
  ASSUME NEW b \in Bitmaps, NEW s \in Files, NEW c \in Counts, NEW a \in FileSets,
         NEW f \in AnyFile
  PROVE  fhold(Tab(b, s, c, a), f) = Tab(b, s, With(c, f, c[f] + 1), a)
<1> DEFINE t == Tab(b, s, c, a)
           u == fhold(t, f)
           more == With(c, f, c[f] + 1)
<1>1. more \in Counts
  BY WithCount
<1>2. /\ t \in Table /\ ~t.panicked /\ t.bitmap = b /\ t.files = s /\ t.f_count = c
      /\ t.allocated = a
  BY Parts
<1> HIDE DEF t
<1>3. u = [t EXCEPT !.f_count = more]
  BY <1>2 DEF fhold, With
<1> HIDE DEF u, more
<1>4. /\ u \in Table /\ ~u.panicked /\ u.bitmap = b /\ u.files = s
      /\ u.f_count = more /\ u.allocated = a
  BY <1>1, <1>2, <1>3 DEF Table
<1> QED BY <1>4, ByParts DEF u, t, more

\* No drop meets a count of zero, so none panics.  The last one frees.
LEMMA DropIs ==
  ASSUME NEW b \in Bitmaps, NEW s \in Files, NEW c \in Counts, NEW a \in FileSets,
         NEW f \in AnyFile, NEW n \in Nat, c[f] = n + 1
  PROVE  /\ n = 0 => fdrop(Tab(b, s, c, a), f) = Tab(b, s, With(c, f, n), Minus(a, f))
         /\ n # 0 => fdrop(Tab(b, s, c, a), f) = Tab(b, s, With(c, f, n), a)
<1> DEFINE t == Tab(b, s, c, a)
           u == fdrop(t, f)
           count == With(c, f, n)
           kept == IF n = 0 THEN Minus(a, f) ELSE a
<1>1. count \in Counts /\ kept \in FileSets
  BY WithCount DEF FileSets, Minus
<1>2. /\ t \in Table /\ ~t.panicked /\ t.bitmap = b /\ t.files = s /\ t.f_count = c
      /\ t.allocated = a
  BY Parts
<1> HIDE DEF t
<1>3. u = [t EXCEPT !.f_count = count, !.allocated = kept, !.panicked = FALSE]
  <2>1. c[f] - 1 = n /\ c[f] # 0 /\ (c[f] = 1 <=> n = 0)
    OBVIOUS
  <2> QED BY Zenon, <1>2, <2>1 DEF fdrop, With, Minus
<1> HIDE DEF u, count, kept
<1>4. /\ u \in Table /\ ~u.panicked /\ u.bitmap = b /\ u.files = s
      /\ u.f_count = count /\ u.allocated = kept
  BY Zenon, <1>1, <1>2, <1>3 DEF Table
<1> QED BY <1>4, ByParts DEF u, t, count, kept

LEMMA InstallIs ==
  ASSUME NEW b \in Bitmaps, NEW s \in Files, NEW c \in Counts, NEW a \in FileSets,
         NEW f \in AnyFile, NEW fd \in Fd, s[fd] = NULL, c[f] # 0
  PROVE  vfscore_install_fd(Tab(b, s, c, a), fd, f) = Tab(b, With(s, fd, f), c, a)
<1> DEFINE files == With(s, fd, f)
           more == With(c, f, c[f] + 1)
           t == Tab(b, s, more, a)
           u == [t EXCEPT !.files[fd] = f]
<1>1. /\ files \in Files
      /\ more \in Counts
      /\ more[f] = c[f] + 1
      /\ With(more, f, c[f]) = c
      /\ c[f] \in Nat
  BY WithFile, WithCount
<1>2. fhold(Tab(b, s, c, a), f) = t
  BY HoldIs
<1>3. u = Tab(b, files, more, a)
  <2>1. /\ t \in Table /\ ~t.panicked /\ t.bitmap = b /\ t.files = s
        /\ t.f_count = more /\ t.allocated = a
    BY <1>1, Parts
  <2> HIDE DEF t, more
  <2>2. u = [t EXCEPT !.files = files]
    BY <2>1 DEF With
  <2> HIDE DEF u, files
  <2>3. /\ u \in Table /\ ~u.panicked /\ u.bitmap = b /\ u.files = files
        /\ u.f_count = more /\ u.allocated = a
    BY <1>1, <2>1, <2>2 DEF Table
  <2> QED BY <2>3, ByParts
<1> HIDE DEF more, files
<1>4. fdrop(u, f) = Tab(b, files, c, a)
  <2>1. fdrop(Tab(b, files, more, a), f) = Tab(b, files, With(more, f, c[f]), a)
    BY <1>1, DropIs
  <2> QED BY <1>1, <1>3, <2>1
<1>5. Tab(b, s, c, a).files[fd] = NULL
  BY Parts
<1> QED BY <1>2, <1>4, <1>5 DEF vfscore_install_fd, files

LEMMA AllocIs ==
  ASSUME NEW b \in Bitmaps, NEW s \in Files, NEW c \in Counts, NEW a \in FileSets,
         NEW f \in AnyFile, NEW fd \in Fd, s[fd] = NULL
  PROVE  fdalloc(Tab(b, s, c, a), f, fd) =
           Tab(Plus(b, fd), With(s, fd, f), With(c, f, c[f] + 1), a)
<1> DEFINE more == With(c, f, c[f] + 1)
           t == Tab(b, s, more, a)
           u == [t EXCEPT !.bitmap = @ \cup {fd}]
<1>1. more \in Counts /\ more[f] # 0 /\ Plus(b, fd) \in Bitmaps
  BY WithCount DEF Bitmaps, Plus
<1>2. fhold(Tab(b, s, c, a), f) = t
  BY HoldIs
<1>3. u = Tab(Plus(b, fd), s, more, a)
  <2> HIDE DEF more
  <2>1. /\ t \in Table /\ ~t.panicked /\ t.bitmap = b /\ t.files = s
        /\ t.f_count = more /\ t.allocated = a
    BY <1>1, Parts
  <2> HIDE DEF t
  <2>2. u = [t EXCEPT !.bitmap = Plus(b, fd)]
    BY <2>1 DEF Plus
  <2> HIDE DEF u
  <2>3. /\ u \in Table /\ ~u.panicked /\ u.bitmap = Plus(b, fd) /\ u.files = s
        /\ u.f_count = more /\ u.allocated = a
    BY <1>1, <2>1, <2>2 DEF Table
  <2> QED BY <2>3, ByParts
<1> HIDE DEF more
<1>4. vfscore_install_fd(Tab(Plus(b, fd), s, more, a), fd, f) =
        Tab(Plus(b, fd), With(s, fd, f), more, a)
  BY <1>1, InstallIs
<1> QED BY <1>2, <1>3, <1>4 DEF fdalloc, more

\* sys_open leaves a structure with one hold.
LEMMA SysOpenIs ==
  ASSUME NEW b \in Bitmaps, NEW s \in Files, NEW c \in Counts, NEW a \in FileSets,
         NEW f \in AnyFile
  PROVE  sys_open(Tab(b, s, c, a), f) = Tab(b, s, With(c, f, 1), Plus(a, f))
<1> DEFINE t == Tab(b, s, c, a)
           u == [t EXCEPT !.allocated = @ \cup {f}, !.f_count[f] = 0]
           none == With(c, f, 0)
           more == Plus(a, f)
<1>1. none \in Counts /\ none[f] = 0 /\ With(none, f, 1) = With(c, f, 1) /\ more \in FileSets
  BY WithCount DEF FileSets, Plus
<1>2. u = Tab(b, s, none, more)
  <2>1. /\ t \in Table /\ ~t.panicked /\ t.bitmap = b /\ t.files = s
        /\ t.f_count = c /\ t.allocated = a
    BY Parts
  <2> HIDE DEF t
  <2>2. u = [t EXCEPT !.allocated = more, !.f_count = none]
    BY Zenon, <2>1 DEF With, Plus
  <2> HIDE DEF u, none, more
  <2>3. /\ u \in Table /\ ~u.panicked /\ u.bitmap = b /\ u.files = s
        /\ u.f_count = none /\ u.allocated = more
    BY Zenon, <1>1, <2>1, <2>2 DEF Table
  <2> QED BY <2>3, ByParts
<1> HIDE DEF none, more
<1>3. fhold(Tab(b, s, none, more), f) = Tab(b, s, With(none, f, none[f] + 1), more)
  BY <1>1, HoldIs
<1>4. none[f] + 1 = 1
  BY <1>1
<1> QED BY <1>1, <1>2, <1>3, <1>4 DEF sys_open, more

\* The hold and the drop around the work of a call cancel out.
LEMMA HoldDropIs ==
  ASSUME NEW b \in Bitmaps, NEW s \in Files, NEW c \in Counts, NEW a \in FileSets,
         NEW f \in AnyFile, c[f] # 0
  PROVE  fdrop(fhold(Tab(b, s, c, a), f), f) = Tab(b, s, c, a)
<1> DEFINE more == With(c, f, c[f] + 1)
<1>1. /\ more \in Counts
      /\ more[f] = c[f] + 1
      /\ With(more, f, c[f]) = c
      /\ c[f] \in Nat
  BY WithCount
<1>2. fhold(Tab(b, s, c, a), f) = Tab(b, s, more, a)
  BY HoldIs
<1> HIDE DEF more
<1>3. fdrop(Tab(b, s, more, a), f) = Tab(b, s, With(more, f, c[f]), a)
  BY <1>1, DropIs
<1> QED BY <1>1, <1>2, <1>3

\* syscall_handler_open: one hold is left, the descriptor's, or on a full table
\* the one that is lost.
LEMMA OpenedIs ==
  ASSUME NEW b \in Bitmaps, NEW s \in Files, NEW c \in Counts, NEW a \in FileSets,
         NEW f \in AnyFile, NEW fd \in Fd, s[fd] = NULL
  PROVE  Opened(Tab(b, s, c, a), f, fd) =
           Tab(Plus(b, fd), With(s, fd, f), With(c, f, 1), Plus(a, f))
<1> DEFINE one == With(c, f, 1)
           two == With(one, f, one[f] + 1)
<1>1. /\ one \in Counts
      /\ one[f] = 1
      /\ two \in Counts
      /\ two[f] = 1 + 1
      /\ With(two, f, 1) = one
      /\ With(s, fd, f) \in Files
      /\ Plus(a, f) \in FileSets
      /\ Plus(b, fd) \in Bitmaps
  BY WithCount, WithFile DEF FileSets, Bitmaps, Plus
<1>2. sys_open(Tab(b, s, c, a), f) = Tab(b, s, one, Plus(a, f))
  BY SysOpenIs
<1> HIDE DEF one
<1>3. fdalloc(Tab(b, s, one, Plus(a, f)), f, fd) =
        Tab(Plus(b, fd), With(s, fd, f), two, Plus(a, f))
  BY <1>1, AllocIs
<1> HIDE DEF two
<1>4. fdrop(Tab(Plus(b, fd), With(s, fd, f), two, Plus(a, f)), f) =
        Tab(Plus(b, fd), With(s, fd, f), With(two, f, 1), Plus(a, f))
  BY <1>1, DropIs
<1> QED BY <1>1, <1>2, <1>3, <1>4 DEF Opened, one

LEMMA OpenedFullIs ==
  ASSUME NEW b \in Bitmaps, NEW s \in Files, NEW c \in Counts, NEW a \in FileSets,
         NEW f \in AnyFile
  PROVE  OpenedFull(Tab(b, s, c, a), f) = Tab(b, s, With(c, f, 1), Plus(a, f))
<1>1. /\ With(c, f, 1) \in Counts
      /\ With(c, f, 1)[f] # 0
      /\ Plus(a, f) \in FileSets
  BY WithCount DEF FileSets, Plus
<1>2. sys_open(Tab(b, s, c, a), f) = Tab(b, s, With(c, f, 1), Plus(a, f))
  BY SysOpenIs
<1> QED BY <1>1, <1>2, HoldDropIs DEF OpenedFull

\* fdclose: the descriptor is free, and its hold is given back.
LEMMA CloseIs ==
  ASSUME FdAssumption,
         NEW b \in Bitmaps, NEW s \in Files, NEW c \in Counts, NEW a \in FileSets,
         NEW fd \in Fd, NEW f \in AnyFile, s[fd] = f, NEW n \in Nat, c[f] = n + 1
  PROVE  /\ n = 0 => fdclose(Tab(b, s, c, a), fd) =
                       Tab(Minus(b, fd), With(s, fd, NULL), With(c, f, n), Minus(a, f))
         /\ n # 0 => fdclose(Tab(b, s, c, a), fd) =
                       Tab(Minus(b, fd), With(s, fd, NULL), With(c, f, n), a)
<1> DEFINE more == With(c, f, c[f] + 1)
           t == Tab(b, s, more, a)
           u == [t EXCEPT !.bitmap = @ \ {fd}, !.files[fd] = NULL]
           free == Minus(b, fd)
           files == With(s, fd, NULL)
<1>1. /\ more \in Counts
      /\ more[f] = (n + 1) + 1
      /\ With(more, f, n + 1) = c
      /\ files \in Files
      /\ free \in Bitmaps
      /\ f # NULL
      /\ n + 1 \in Nat
      /\ n + 1 # 0
  BY WithCount, WithFile DEF Bitmaps, Minus, FdAssumption, AnyFile
<1>2. fhold(Tab(b, s, c, a), f) = t
  BY HoldIs
<1> HIDE DEF more
<1>3. /\ t \in Table /\ ~t.panicked /\ t.bitmap = b /\ t.files = s
      /\ t.f_count = more /\ t.allocated = a
  BY <1>1, Parts
<1>4. u = Tab(free, files, more, a)
  <2> HIDE DEF t
  <2>1. u = [t EXCEPT !.bitmap = free, !.files = files]
    BY Zenon, <1>3 DEF With, Minus
  <2> HIDE DEF u, free, files
  <2>2. /\ u \in Table /\ ~u.panicked /\ u.bitmap = free /\ u.files = files
        /\ u.f_count = more /\ u.allocated = a
    BY Zenon, <1>1, <1>3, <2>1 DEF Table
  <2> QED BY <2>2, ByParts
<1> HIDE DEF free, files
<1>5. fdrop(Tab(free, files, more, a), f) = Tab(free, files, c, a)
  <2>1. fdrop(Tab(free, files, more, a), f) = Tab(free, files, With(more, f, n + 1), a)
    BY <1>1, DropIs
  <2> QED BY <1>1, <2>1
<1>6. vfscore_put_fd(t, fd) = Tab(free, files, c, a)
  BY <1>1, <1>3, <1>4, <1>5 DEF vfscore_put_fd
<1>7. fdclose(Tab(b, s, c, a), fd) = fdrop(Tab(free, files, c, a), f)
  <2>1. Tab(b, s, c, a).files[fd] = f
    BY Parts
  <2> QED BY <1>2, <1>6, <2>1 DEF fdclose
<1> QED BY <1>1, <1>7, DropIs DEF free, files

\* fcntl with F_DUPFD: the new descriptor's hold is left.
LEMMA DupIs ==
  ASSUME NEW b \in Bitmaps, NEW s \in Files, NEW c \in Counts, NEW a \in FileSets,
         NEW f \in AnyFile, NEW fd \in Fd, s[fd] = NULL
  PROVE  fdrop(fdalloc(fhold(Tab(b, s, c, a), f), f, fd), f) =
           Tab(Plus(b, fd), With(s, fd, f), With(c, f, c[f] + 1), a)
<1> DEFINE one == With(c, f, c[f] + 1)
           two == With(one, f, one[f] + 1)
<1>1. /\ one \in Counts
      /\ one[f] \in Nat
      /\ one[f] # 0
      /\ two \in Counts
      /\ two[f] = one[f] + 1
      /\ With(two, f, one[f]) = one
      /\ With(s, fd, f) \in Files
      /\ Plus(b, fd) \in Bitmaps
  BY WithCount, WithFile DEF Bitmaps, Plus
<1>2. fhold(Tab(b, s, c, a), f) = Tab(b, s, one, a)
  BY HoldIs
<1> HIDE DEF one
<1>3. fdalloc(Tab(b, s, one, a), f, fd) = Tab(Plus(b, fd), With(s, fd, f), two, a)
  BY <1>1, AllocIs
<1> HIDE DEF two
<1>4. fdrop(Tab(Plus(b, fd), With(s, fd, f), two, a), f) =
        Tab(Plus(b, fd), With(s, fd, f), With(two, f, one[f]), a)
  BY <1>1, DropIs
<1> QED BY <1>1, <1>2, <1>3, <1>4 DEF one

-----------------------------------------------------------------------------
(* The number of descriptors of a file.                                    *)

RefsIn(s, f) == Cardinality({fd \in Fd : s[fd] = f})

LEMMA RefsFinite ==
  ASSUME FdAssumption, NEW s, NEW f
  PROVE  IsFiniteSet({fd \in Fd : s[fd] = f})
<1>1. IsFiniteSet(Fd)
  BY FS_Interval DEF Fd, FdAssumption
<1> QED BY <1>1, FS_Subset

LEMMA RefsType ==
  ASSUME FdAssumption, NEW s, NEW f
  PROVE  /\ RefsIn(s, f) \in Nat
         /\ RefsIn(s, f) = 0 <=> \A fd \in Fd : s[fd] # f
<1>1. IsFiniteSet({fd \in Fd : s[fd] = f})
  BY Zenon, RefsFinite
<1>2. RefsIn(s, f) = 0 <=> {fd \in Fd : s[fd] = f} = {}
  BY <1>1, FS_EmptySet DEF RefsIn
<1> QED BY <1>1, <1>2, FS_CardinalityType DEF RefsIn

\* A free descriptor is given to f.
LEMMA RefsPlus ==
  ASSUME FdAssumption, NEW s \in Files, NEW fd \in Fd, NEW f \in AnyFile, s[fd] = NULL
  PROVE  /\ RefsIn(With(s, fd, f), f) = RefsIn(s, f) + 1
         /\ \A g \in AnyFile : g # f => RefsIn(With(s, fd, f), g) = RefsIn(s, g)
<1>1. f # NULL /\ NULL \notin AnyFile
  BY DEF FdAssumption, AnyFile
<1>2. {k \in Fd : With(s, fd, f)[k] = f} = {k \in Fd : s[k] = f} \cup {fd}
  BY WithFile
<1>3. fd \notin {k \in Fd : s[k] = f}
  BY <1>1
<1>4. RefsIn(With(s, fd, f), f) = RefsIn(s, f) + 1
  <2> DEFINE S == {k \in Fd : s[k] = f}
  <2>1. IsFiniteSet(S) /\ fd \notin S
    BY Zenon, <1>3, RefsFinite
  <2> HIDE DEF S
  <2>2. Cardinality(S \cup {fd}) = Cardinality(S) + 1
    BY Zenon, <2>1, FS_AddElement
  <2> QED BY <1>2, <2>2 DEF RefsIn, S
<1>5. ASSUME NEW g \in AnyFile, g # f
      PROVE  RefsIn(With(s, fd, f), g) = RefsIn(s, g)
  <2>1. {k \in Fd : With(s, fd, f)[k] = g} = {k \in Fd : s[k] = g}
    BY <1>1, <1>5, WithFile
  <2> QED BY <2>1 DEF RefsIn
<1> QED BY <1>4, <1>5

\* A descriptor of f is given back.
LEMMA RefsMinus ==
  ASSUME FdAssumption, NEW s \in Files, NEW fd \in Fd, NEW f \in AnyFile, s[fd] = f
  PROVE  /\ RefsIn(With(s, fd, NULL), f) = RefsIn(s, f) - 1
         /\ \A g \in AnyFile : g # f => RefsIn(With(s, fd, NULL), g) = RefsIn(s, g)
<1>1. /\ With(s, fd, NULL) \in Files
      /\ With(s, fd, NULL)[fd] = NULL
      /\ With(With(s, fd, NULL), fd, f) = s
  BY WithFile
<1>2. /\ RefsIn(s, f) = RefsIn(With(s, fd, NULL), f) + 1
      /\ \A g \in AnyFile : g # f => RefsIn(s, g) = RefsIn(With(s, fd, NULL), g)
  BY <1>1, RefsPlus
<1>3. RefsIn(With(s, fd, NULL), f) \in Nat
  BY RefsType
<1> QED BY <1>2, <1>3

\* The three standard descriptors.
LEMMA RefsStdio ==
  ASSUME FdAssumption, NEW s \in Files, \A fd \in 0 .. 2 : s[fd] = Stdio
  PROVE  /\ RefsIn(s, Stdio) >= 3
         /\ \A fd \in Fd \ (0 .. 2) : s[fd] = Stdio => RefsIn(s, Stdio) >= 4
<1>1. Cardinality(0 .. 2) = 3 /\ IsFiniteSet(0 .. 2) /\ 0 .. 2 \subseteq Fd
  <2>1. IsFiniteSet(0 .. 2) /\ Cardinality(0 .. 2) = 3
    <3> DEFINE lo == 0
               hi == 2
    <3>1. lo \in Int /\ hi \in Int /\ ~(lo > hi) /\ hi - lo + 1 = 3
      OBVIOUS
    <3> HIDE DEF lo, hi
    <3>2. IsFiniteSet(lo .. hi) /\ Cardinality(lo .. hi) = 3
      BY <3>1, FS_Interval
    <3> QED BY <3>2 DEF lo, hi
  <2>2. 0 .. 2 \subseteq Fd
    BY DEF Fd, FdAssumption
  <2> QED BY <2>1, <2>2
<1>2. RefsIn(s, Stdio) >= 3
  <2>1. 0 .. 2 \subseteq {fd \in Fd : s[fd] = Stdio}
    BY <1>1
  <2> QED BY <1>1, <2>1, RefsFinite, FS_Subset DEF RefsIn
<1>3. ASSUME NEW fd \in Fd \ (0 .. 2), s[fd] = Stdio
      PROVE  RefsIn(s, Stdio) >= 4
  <2>1. (0 .. 2) \cup {fd} \subseteq {k \in Fd : s[k] = Stdio}
    BY <1>1, <1>3
  <2>2. Cardinality((0 .. 2) \cup {fd}) = 4
    <3> DEFINE S == 0 .. 2
    <3>1. IsFiniteSet(S) /\ fd \notin S /\ Cardinality(S) = 3
      BY <1>1
    <3> HIDE DEF S
    <3>2. Cardinality(S \cup {fd}) = Cardinality(S) + 1
      BY Zenon, <3>1, FS_AddElement
    <3> QED BY <3>1, <3>2 DEF S
  <2>3. Cardinality((0 .. 2) \cup {fd}) <= RefsIn(s, Stdio)
    BY <2>1, RefsFinite, FS_Subset DEF RefsIn
  <2> QED BY <2>2, <2>3, RefsType
<1> QED BY <1>2, <1>3

-----------------------------------------------------------------------------
(* The inductive invariant, of the parts of a table and of the holds that  *)
(* are lost.  Beside the exact counts it has what makes the drops safe:    *)
(* the standard descriptors are never closed, so the count of stdio_file,  *)
(* one too small, stays above zero; and a file that is not allocated has   *)
(* no hold at all, not even a lost one.                                    *)

Short(f) == IF f = Stdio THEN 1 ELSE 0

Balanced(b, s, c, a, l) ==
  /\ Stdio \in a
  /\ \A fd \in 0 .. 2 : s[fd] = Stdio
  /\ \A fd \in Fd : s[fd] # NULL => s[fd] \in a
  /\ \A fd \in Fd : fd \in b <=> s[fd] # NULL
  /\ \A f \in a : c[f] = RefsIn(s, f) + l[f] - Short(f) /\ c[f] > 0
  /\ \A f \in AnyFile : f \notin a => l[f] = 0

LEMMA BalancedOpen ==
  ASSUME FdAssumption,
         NEW b \in Bitmaps, NEW s \in Files, NEW c \in Counts, NEW a \in FileSets, NEW l \in Counts,
         Balanced(b, s, c, a, l),
         NEW f \in File, f \notin a, NEW fd \in Fd, fd \notin b
  PROVE  Balanced(Plus(b, fd), With(s, fd, f), With(c, f, 1), Plus(a, f), l)
<1>1. f \in AnyFile /\ f # Stdio /\ f # NULL /\ NULL \notin AnyFile
  BY DEF AnyFile, FdAssumption
<1>2. s[fd] = NULL /\ fd \notin 0 .. 2
  BY DEF Balanced, FdAssumption, Fd
<1>3. RefsIn(s, f) = 0 /\ l[f] = 0
  BY <1>1, RefsType DEF Balanced
<1>4. /\ RefsIn(With(s, fd, f), f) = 1
      /\ \A g \in AnyFile : g # f => RefsIn(With(s, fd, f), g) = RefsIn(s, g)
  BY <1>1, <1>2, <1>3, RefsPlus
<1>5. /\ \A k \in Fd : k # fd => With(s, fd, f)[k] = s[k]
      /\ With(s, fd, f)[fd] = f
      /\ With(c, f, 1)[f] = 1
      /\ \A g \in AnyFile : g # f => With(c, f, 1)[g] = c[g]
  BY <1>1, WithFile, WithCount
<1>6. 0 .. 2 \subseteq Fd
  BY DEF FdAssumption, Fd
<1> QED BY <1>1, <1>2, <1>3, <1>4, <1>5, <1>6 DEF Balanced, Plus, Short, FileSets

LEMMA BalancedOpenFull ==
  ASSUME FdAssumption,
         NEW b \in Bitmaps, NEW s \in Files, NEW c \in Counts, NEW a \in FileSets, NEW l \in Counts,
         Balanced(b, s, c, a, l),
         NEW f \in File, f \notin a
  PROVE  Balanced(b, s, With(c, f, 1), Plus(a, f), With(l, f, 1))
<1>1. f \in AnyFile /\ f # Stdio /\ f # NULL
  BY DEF AnyFile, FdAssumption
<1>2. RefsIn(s, f) = 0
  BY <1>1, RefsType DEF Balanced
<1>3. /\ With(c, f, 1)[f] = 1
      /\ \A g \in AnyFile : g # f => With(c, f, 1)[g] = c[g]
      /\ With(l, f, 1)[f] = 1
      /\ \A g \in AnyFile : g # f => With(l, f, 1)[g] = l[g]
  BY <1>1, WithCount
<1> QED BY <1>1, <1>2, <1>3 DEF Balanced, Plus, Short, FileSets

LEMMA BalancedDup ==
  ASSUME FdAssumption,
         NEW b \in Bitmaps, NEW s \in Files, NEW c \in Counts, NEW a \in FileSets, NEW l \in Counts,
         Balanced(b, s, c, a, l),
         NEW f \in a, NEW fd \in Fd, fd \notin b
  PROVE  Balanced(Plus(b, fd), With(s, fd, f), With(c, f, c[f] + 1), a, l)
<1>1. f \in AnyFile /\ f # NULL /\ NULL \notin AnyFile
  BY DEF AnyFile, FdAssumption, FileSets
<1>2. s[fd] = NULL /\ fd \notin 0 .. 2 /\ 0 .. 2 \subseteq Fd
  BY DEF Balanced, FdAssumption, Fd
<1>3. /\ RefsIn(With(s, fd, f), f) = RefsIn(s, f) + 1
      /\ \A g \in AnyFile : g # f => RefsIn(With(s, fd, f), g) = RefsIn(s, g)
      /\ RefsIn(s, f) \in Nat
  BY <1>1, <1>2, RefsPlus, RefsType
<1>4. /\ \A k \in Fd : k # fd => With(s, fd, f)[k] = s[k]
      /\ With(s, fd, f)[fd] = f
      /\ c[f] \in Nat
      /\ With(c, f, c[f] + 1)[f] = c[f] + 1
      /\ \A g \in AnyFile : g # f => With(c, f, c[f] + 1)[g] = c[g]
  BY <1>1, WithFile, WithCount
<1>5. l[f] \in Nat
  BY <1>1 DEF Counts
<1> QED BY <1>1, <1>2, <1>3, <1>4, <1>5 DEF Balanced, Plus, Short, FileSets

LEMMA BalancedDupFull ==
  ASSUME FdAssumption,
         NEW b \in Bitmaps, NEW s \in Files, NEW c \in Counts, NEW a \in FileSets, NEW l \in Counts,
         Balanced(b, s, c, a, l), NEW f \in a
  PROVE  Balanced(b, s, With(c, f, c[f] + 2), a, With(l, f, l[f] + 2))
<1>1. f \in AnyFile
  BY DEF FileSets
<1>2. /\ c[f] \in Nat
      /\ With(c, f, c[f] + 2)[f] = c[f] + 2
      /\ \A g \in AnyFile : g # f => With(c, f, c[f] + 2)[g] = c[g]
  BY <1>1, WithCount
<1>3. /\ l[f] \in Nat
      /\ With(l, f, l[f] + 2)[f] = l[f] + 2
      /\ \A g \in AnyFile : g # f => With(l, f, l[f] + 2)[g] = l[g]
  BY SMTT(20), <1>1, WithCount
<1>4. RefsIn(s, f) \in Nat
  BY RefsType
<1> QED BY <1>1, <1>2, <1>3, <1>4 DEF Balanced, Short, FileSets

\* The file of a descriptor that is closed: freed when it was the last hold.
LEMMA BalancedClose ==
  ASSUME FdAssumption,
         NEW b \in Bitmaps, NEW s \in Files, NEW c \in Counts, NEW a \in FileSets, NEW l \in Counts,
         Balanced(b, s, c, a, l),
         NEW fd \in Fd, fd \notin 0 .. 2, NEW f \in AnyFile, s[fd] = f,
         NEW n \in Nat, c[f] = n + 1
  PROVE  /\ n = 0 => Balanced(Minus(b, fd), With(s, fd, NULL), With(c, f, n), Minus(a, f), l)
         /\ n # 0 => Balanced(Minus(b, fd), With(s, fd, NULL), With(c, f, n), a, l)
<1>1. f # NULL /\ NULL \notin AnyFile /\ f \in a
  BY DEF AnyFile, FdAssumption, Balanced
<1>2. /\ RefsIn(With(s, fd, NULL), f) = RefsIn(s, f) - 1
      /\ \A g \in AnyFile : g # f => RefsIn(With(s, fd, NULL), g) = RefsIn(s, g)
  BY RefsMinus
<1>3. /\ \A k \in Fd : k # fd => With(s, fd, NULL)[k] = s[k]
      /\ With(s, fd, NULL)[fd] = NULL
      /\ With(c, f, n)[f] = n
      /\ \A g \in AnyFile : g # f => With(c, f, n)[g] = c[g]
  BY WithFile, WithCount
<1>4. RefsIn(s, f) \in Nat /\ l[f] \in Nat /\ RefsIn(s, f) # 0
  BY RefsType DEF Counts
<1>5. n + 1 = RefsIn(s, f) + l[f] - Short(f)
  BY <1>1 DEF Balanced
<1>6. 0 .. 2 \subseteq Fd
  BY DEF FdAssumption, Fd
<1>7. CASE n = 0
  <2>1. f # Stdio
    <3>1. f = Stdio => RefsIn(s, f) >= 4
      BY RefsStdio DEF Balanced
    <3> QED BY <1>4, <1>5, <1>7, <3>1 DEF Short
  <2>2. RefsIn(s, f) = 1 /\ l[f] = 0
    BY <1>4, <1>5, <1>7, <2>1 DEF Short
  <2>3. \A k \in Fd : With(s, fd, NULL)[k] # f
    BY <1>2, <2>2, RefsType
  <2>4. \A k \in Fd : With(s, fd, NULL)[k] # NULL => With(s, fd, NULL)[k] \in Minus(a, f)
    BY <1>3, <2>3 DEF Minus, Balanced
  <2>5. \A g \in Minus(a, f) : g \in AnyFile /\ g # f /\ g \in a
    BY DEF Minus, FileSets
  <2>6. \A g \in Minus(a, f) : /\ With(c, f, n)[g] = RefsIn(With(s, fd, NULL), g) + l[g] - Short(g)
                               /\ With(c, f, n)[g] > 0
    BY <1>2, <1>3, <2>5 DEF Balanced
  <2>7. /\ Stdio \in Minus(a, f)
        /\ \A k \in 0 .. 2 : With(s, fd, NULL)[k] = Stdio
        /\ \A k \in Fd : k \in Minus(b, fd) <=> With(s, fd, NULL)[k] # NULL
        /\ \A g \in AnyFile : g \notin Minus(a, f) => l[g] = 0
    BY <1>3, <1>6, <2>1, <2>2 DEF Balanced, Minus
  <2> QED BY <1>7, <2>4, <2>6, <2>7 DEF Balanced
<1>8. CASE n # 0
  <2>1. n = RefsIn(With(s, fd, NULL), f) + l[f] - Short(f)
    BY <1>2, <1>4, <1>5 DEF Short
  <2>2. \A g \in a : /\ With(c, f, n)[g] = RefsIn(With(s, fd, NULL), g) + l[g] - Short(g)
                     /\ With(c, f, n)[g] > 0
    BY <1>2, <1>3, <1>8, <2>1 DEF Balanced, FileSets
  <2>3. /\ \A k \in 0 .. 2 : With(s, fd, NULL)[k] = Stdio
        /\ \A k \in Fd : k \in Minus(b, fd) <=> With(s, fd, NULL)[k] # NULL
        /\ \A k \in Fd : With(s, fd, NULL)[k] # NULL => With(s, fd, NULL)[k] \in a
    BY <1>3, <1>6 DEF Balanced, Minus
  <2> QED BY <1>8, <2>2, <2>3 DEF Balanced
<1> QED BY <1>7, <1>8

-----------------------------------------------------------------------------
(* What a call does to a good table: it is good again, and its descriptors *)
(* are known.                                                              *)

Good(t, l) ==
  /\ t \in Table
  /\ ~t.panicked
  /\ Balanced(t.bitmap, t.files, t.f_count, t.allocated, l)

LEMMA GoodParts ==
  ASSUME NEW t, NEW l, Good(t, l)
  PROVE  /\ t.bitmap \in Bitmaps
         /\ t.files \in Files
         /\ t.f_count \in Counts
         /\ t.allocated \in FileSets
         /\ t = Tab(t.bitmap, t.files, t.f_count, t.allocated)
         /\ Balanced(t.bitmap, t.files, t.f_count, t.allocated, l)
  BY ByParts DEF Good, Table

LEMMA GoodTab ==
  ASSUME NEW b \in Bitmaps, NEW s \in Files, NEW c \in Counts, NEW a \in FileSets, NEW l,
         Balanced(b, s, c, a, l)
  PROVE  /\ Good(Tab(b, s, c, a), l)
         /\ Tab(b, s, c, a).files = s
         /\ Tab(b, s, c, a).allocated = a
  BY Parts DEF Good

\* The file of a descriptor is held.
LEMMA GoodFile ==
  ASSUME FdAssumption, NEW t, NEW l, Good(t, l), NEW fd \in Fd
  PROVE  /\ vfscore_get_file(t, fd) = t.files[fd]
         /\ t.files[fd] # NULL => /\ t.files[fd] \in AnyFile
                                 /\ t.files[fd] \in t.allocated
                                 /\ t.f_count[t.files[fd]] # 0
<1>1. vfscore_get_file(t, fd) = t.files[fd]
  BY GoodParts DEF Balanced, vfscore_get_file
<1>2. t.files[fd] # NULL => t.files[fd] \in AnyFile /\ t.files[fd] \in t.allocated
  BY GoodParts DEF Balanced, FileSets
<1>3. t.files[fd] # NULL => t.f_count[t.files[fd]] > 0 /\ t.f_count[t.files[fd]] \in Nat
  BY <1>2, GoodParts DEF Balanced, Counts
<1> QED BY <1>1, <1>2, <1>3

LEMMA GoodHoldDrop ==
  ASSUME NEW t, NEW l, Good(t, l), NEW f \in AnyFile, t.f_count[f] # 0
  PROVE  fdrop(fhold(t, f), f) = t
  BY GoodParts, HoldDropIs

LEMMA GoodOpen ==
  ASSUME FdAssumption, NEW t, NEW l \in Counts, Good(t, l),
         NEW f \in File, f \notin t.allocated, NEW fd \in Fd, fd \notin t.bitmap
  PROVE  /\ Good(Opened(t, f, fd), l)
         /\ Opened(t, f, fd).files = With(t.files, fd, f)
         /\ Opened(t, f, fd) =
              Tab(Plus(t.bitmap, fd), With(t.files, fd, f), With(t.f_count, f, 1), Plus(t.allocated, f))
<1> DEFINE b == Plus(t.bitmap, fd)
           s == With(t.files, fd, f)
           c == With(t.f_count, f, 1)
           a == Plus(t.allocated, f)
<1>1. f \in AnyFile /\ t.files[fd] = NULL
  BY GoodParts DEF AnyFile, Balanced
<1>2. b \in Bitmaps /\ s \in Files /\ c \in Counts /\ a \in FileSets
  BY <1>1, GoodParts, WithCount, WithFile DEF Bitmaps, FileSets, Plus
<1>3. Opened(t, f, fd) = Tab(b, s, c, a)
  BY <1>1, GoodParts, OpenedIs
<1>4. Balanced(b, s, c, a, l)
  BY GoodParts, BalancedOpen
<1> HIDE DEF b, s, c, a
<1>5. Good(Tab(b, s, c, a), l) /\ Tab(b, s, c, a).files = s
  BY <1>2, <1>4, GoodTab
<1> QED BY <1>3, <1>5 DEF b, s, c, a

LEMMA GoodOpenFull ==
  ASSUME FdAssumption, NEW t, NEW l \in Counts, Good(t, l),
         NEW f \in File, f \notin t.allocated
  PROVE  /\ Good(OpenedFull(t, f), With(l, f, 1))
         /\ OpenedFull(t, f).files = t.files
         /\ With(l, f, 1) \in Counts
<1> DEFINE c == With(t.f_count, f, 1)
           a == Plus(t.allocated, f)
<1>1. f \in AnyFile
  BY DEF AnyFile
<1>2. c \in Counts /\ a \in FileSets /\ With(l, f, 1) \in Counts
  BY <1>1, GoodParts, WithCount DEF FileSets, Plus
<1>3. OpenedFull(t, f) = Tab(t.bitmap, t.files, c, a)
  BY <1>1, GoodParts, OpenedFullIs
<1>4. Balanced(t.bitmap, t.files, c, a, With(l, f, 1))
  BY GoodParts, BalancedOpenFull
<1> HIDE DEF c, a
<1>5. /\ Good(Tab(t.bitmap, t.files, c, a), With(l, f, 1))
      /\ Tab(t.bitmap, t.files, c, a).files = t.files
  BY <1>2, <1>4, GoodParts, GoodTab
<1> QED BY <1>2, <1>3, <1>5

LEMMA GoodDup ==
  ASSUME FdAssumption, NEW t, NEW l \in Counts, Good(t, l),
         NEW f \in AnyFile, f \in t.allocated, NEW fd \in Fd, fd \notin t.bitmap
  PROVE  /\ Good(fdrop(fdalloc(fhold(t, f), f, fd), f), l)
         /\ fdrop(fdalloc(fhold(t, f), f, fd), f).files = With(t.files, fd, f)
<1> DEFINE b == Plus(t.bitmap, fd)
           s == With(t.files, fd, f)
           c == With(t.f_count, f, t.f_count[f] + 1)
<1>1. t.files[fd] = NULL /\ t.f_count[f] \in Nat
  BY GoodParts DEF Balanced, Counts
<1>2. b \in Bitmaps /\ s \in Files /\ c \in Counts
  BY <1>1, GoodParts, WithCount, WithFile DEF Bitmaps, Plus
<1>3. fdrop(fdalloc(fhold(t, f), f, fd), f) = Tab(b, s, c, t.allocated)
  BY <1>1, GoodParts, DupIs
<1>4. Balanced(b, s, c, t.allocated, l)
  BY GoodParts, BalancedDup
<1> HIDE DEF b, s, c
<1>5. Good(Tab(b, s, c, t.allocated), l) /\ Tab(b, s, c, t.allocated).files = s
  BY <1>2, <1>4, GoodParts, GoodTab
<1> QED BY <1>3, <1>5 DEF s

LEMMA GoodDupFull ==
  ASSUME FdAssumption, NEW t, NEW l \in Counts, Good(t, l),
         NEW f \in AnyFile, f \in t.allocated
  PROVE  /\ Good(fhold(fhold(t, f), f), With(l, f, l[f] + 2))
         /\ fhold(fhold(t, f), f).files = t.files
<1> DEFINE one == With(t.f_count, f, t.f_count[f] + 1)
           two == With(one, f, one[f] + 1)
<1>1. /\ one \in Counts
      /\ one[f] = t.f_count[f] + 1
      /\ t.f_count[f] \in Nat
  BY GoodParts, WithCount
<1>2. fhold(t, f) = Tab(t.bitmap, t.files, one, t.allocated)
  BY GoodParts, HoldIs
<1>3. two \in Counts /\ two = With(t.f_count, f, t.f_count[f] + 2)
  BY <1>1, GoodParts, WithCount
<1> HIDE DEF one
<1>4. fhold(fhold(t, f), f) = Tab(t.bitmap, t.files, two, t.allocated)
  BY <1>1, <1>2, GoodParts, HoldIs
<1> HIDE DEF two
<1>5. Balanced(t.bitmap, t.files, two, t.allocated, With(l, f, l[f] + 2))
  BY <1>3, GoodParts, BalancedDupFull
<1> QED BY <1>3, <1>4, <1>5, GoodParts, GoodTab

LEMMA GoodClose ==
  ASSUME FdAssumption, NEW t, NEW l \in Counts, Good(t, l),
         NEW fd \in Fd, fd \notin 0 .. 2, t.files[fd] # NULL
  PROVE  /\ Good(fdclose(t, fd), l)
         /\ fdclose(t, fd).files = With(t.files, fd, NULL)
<1> DEFINE f == t.files[fd]
           b == Minus(t.bitmap, fd)
           s == With(t.files, fd, NULL)
<1>1. f \in AnyFile /\ t.f_count[f] # 0
  BY GoodFile
<1>2. PICK n \in Nat : t.f_count[f] = n + 1
  <2>1. t.f_count[f] \in Nat
    BY <1>1, GoodParts DEF Counts
  <2> QED BY <1>1, <2>1
<1> DEFINE c == With(t.f_count, f, n)
           a == IF n = 0 THEN Minus(t.allocated, f) ELSE t.allocated
<1>3. b \in Bitmaps /\ s \in Files /\ c \in Counts /\ a \in FileSets
  BY <1>1, GoodParts, WithCount, WithFile DEF Bitmaps, FileSets, Minus
<1>4. fdclose(t, fd) = Tab(b, s, c, a)
  BY <1>1, <1>2, GoodParts, CloseIs
<1>5. Balanced(b, s, c, a, l)
  BY <1>1, <1>2, GoodParts, BalancedClose
<1> HIDE DEF b, s, c, a
<1>6. Good(Tab(b, s, c, a), l) /\ Tab(b, s, c, a).files = s
  BY <1>3, <1>5, GoodTab
<1> QED BY <1>4, <1>6 DEF s

\* fetch_from_host with a descriptor to spare leaves no trace in the table.
LEMMA GoodFetch ==
  ASSUME FdAssumption, NEW t, NEW l \in Counts, Good(t, l),
         NEW f \in File, f \notin t.allocated, NEW fd \in Fd, fd \notin t.bitmap
  PROVE  /\ Good(fetch_from_host(t, f, fd), l)
         /\ fetch_from_host(t, f, fd).files = t.files
<1> DEFINE u == Opened(t, f, fd)
<1>1. Good(u, l) /\ u.files = With(t.files, fd, f)
  BY GoodOpen
<1>2. f \in AnyFile /\ f # NULL /\ t.files[fd] = NULL /\ fd \notin 0 .. 2
  BY GoodParts DEF AnyFile, FdAssumption, Balanced, Fd
<1>3. /\ u.files[fd] = f
      /\ With(u.files, fd, NULL) = t.files
  BY <1>1, <1>2, GoodParts, WithFile
<1>4. u.f_count[f] # 0
  BY <1>1, <1>2, <1>3, GoodFile
<1> HIDE DEF u
<1>5. fdrop(fhold(u, u.files[fd]), u.files[fd]) = u
  BY <1>1, <1>2, <1>3, <1>4, GoodHoldDrop
<1>6. Good(fdclose(u, fd), l) /\ fdclose(u, fd).files = t.files
  BY <1>1, <1>2, <1>3, GoodClose
<1>7. ~Full(t)
  BY DEF Full
<1> QED BY <1>5, <1>6, <1>7 DEF fetch_from_host, u

\* On a full table it takes ENFILE for a descriptor, and closes it.
LEMMA GoodFetchFull ==
  ASSUME FdAssumption, NEW t, NEW l \in Counts, Good(t, l), Full(t),
         NEW f \in File, f \notin t.allocated
  PROVE  /\ Good(fetch_from_host(t, f, ENFILE), With(l, f, 1))
         /\ With(l, f, 1) \in Counts
<1> DEFINE u == OpenedFull(t, f)
           m == With(l, f, 1)
<1>1. Good(u, m) /\ u.files = t.files /\ m \in Counts
  BY GoodOpenFull
<1> HIDE DEF m
<1>2. ENFILE \in Fd /\ ENFILE \notin 0 .. 2
  BY DEF FdAssumption, Fd
<1>3. u.files[ENFILE] # NULL
  BY <1>1, <1>2, GoodParts DEF Balanced, Full
<1>4. u.files[ENFILE] \in AnyFile /\ u.f_count[u.files[ENFILE]] # 0
  BY <1>1, <1>2, <1>3, GoodFile
<1> HIDE DEF u
<1>5. fdrop(fhold(u, u.files[ENFILE]), u.files[ENFILE]) = u
  BY <1>1, <1>4, GoodHoldDrop
<1>6. Good(fdclose(u, ENFILE), m)
  BY <1>1, <1>2, <1>3, GoodClose
<1> QED BY <1>1, <1>5, <1>6 DEF fetch_from_host, u, m

\* openat holds the file of the directory over the open.
LEMMA GoodOpenat ==
  ASSUME FdAssumption, NEW t, NEW l \in Counts, Good(t, l),
         NEW d \in File, d \in t.allocated, NEW f \in File, f \notin t.allocated
  PROVE  /\ \A fd \in Fd : fd \notin t.bitmap =>
              fdrop(Opened(fhold(t, d), f, fd), d) = Opened(t, f, fd)
         /\ fdrop(OpenedFull(fhold(t, d), f), d) = OpenedFull(t, f)
<1> DEFINE b == t.bitmap
           s == t.files
           c == t.f_count
           a == t.allocated
           more == With(c, d, c[d] + 1)
<1>1. /\ b \in Bitmaps
      /\ s \in Files
      /\ c \in Counts
      /\ a \in FileSets
      /\ t = Tab(b, s, c, a)
  BY GoodParts
<1>2. d \in AnyFile /\ f \in AnyFile /\ d # f
  BY DEF AnyFile
<1>3. c[d] \in Nat /\ c[d] # 0
  <2>1. c[d] > 0
    BY GoodParts DEF Balanced
  <2>2. c[d] \in Nat
    BY <1>1, <1>2 DEF Counts
  <2> QED BY <2>1, <2>2
<1> HIDE DEF b, s, c, a
<1>4. /\ more \in Counts
      /\ With(more, f, 1) \in Counts
      /\ With(more, f, 1)[d] = c[d] + 1
      /\ With(With(more, f, 1), d, c[d]) = With(c, f, 1)
  <2>1. With(With(more, f, 1), d, c[d]) = With(c, f, 1)
    BY <1>1, <1>2, <1>3 DEF With, Counts
  <2>2. more \in Counts /\ more[d] = c[d] + 1
    BY <1>1, <1>2, <1>3, WithCount
  <2> HIDE DEF more
  <2> QED BY <1>2, <2>1, <2>2, WithCount
<1>5. fhold(t, d) = Tab(b, s, more, a)
  BY <1>1, <1>2, HoldIs
<1> HIDE DEF more
<1>6. Plus(a, f) \in FileSets
  BY <1>1, <1>2 DEF FileSets, Plus
<1>7. ASSUME NEW fd \in Fd, fd \notin t.bitmap
      PROVE  fdrop(Opened(fhold(t, d), f, fd), d) = Opened(t, f, fd)
  <2> DEFINE bits == Plus(b, fd)
             files == With(s, fd, f)
             one == With(more, f, 1)
             all == Plus(a, f)
  <2>1. s[fd] = NULL
    BY <1>7, GoodParts DEF Balanced, s
  <2>2. bits \in Bitmaps /\ files \in Files
    BY <1>1, <1>2, WithFile DEF Bitmaps, Plus
  <2>3. Opened(Tab(b, s, more, a), f, fd) = Tab(bits, files, one, all)
    BY <1>1, <1>2, <1>4, <2>1, OpenedIs
  <2>4. Opened(Tab(b, s, c, a), f, fd) = Tab(bits, files, With(c, f, 1), all)
    BY <1>1, <1>2, <2>1, OpenedIs
  <2>5. one \in Counts /\ one[d] = c[d] + 1 /\ With(one, d, c[d]) = With(c, f, 1)
    BY <1>4
  <2>6. all \in FileSets
    BY <1>6
  <2> HIDE DEF bits, files, one, all
  <2>7. fdrop(Tab(bits, files, one, all), d) = Tab(bits, files, With(one, d, c[d]), all)
    BY <1>2, <1>3, <2>2, <2>5, <2>6, DropIs
  <2> QED BY <1>1, <1>5, <2>3, <2>4, <2>5, <2>7
<1>8. fdrop(OpenedFull(fhold(t, d), f), d) = OpenedFull(t, f)
  <2> DEFINE one == With(more, f, 1)
             all == Plus(a, f)
  <2>1. OpenedFull(Tab(b, s, more, a), f) = Tab(b, s, one, all)
    BY <1>1, <1>2, <1>4, OpenedFullIs
  <2>2. OpenedFull(Tab(b, s, c, a), f) = Tab(b, s, With(c, f, 1), all)
    BY <1>1, <1>2, OpenedFullIs
  <2>3. one \in Counts /\ one[d] = c[d] + 1 /\ With(one, d, c[d]) = With(c, f, 1)
    BY <1>4
  <2>4. all \in FileSets
    BY <1>6
  <2> HIDE DEF one, all
  <2>5. fdrop(Tab(b, s, one, all), d) = Tab(b, s, With(one, d, c[d]), all)
    BY <1>1, <1>2, <1>3, <2>3, <2>4, DropIs
  <2> QED BY <1>1, <1>5, <2>1, <2>2, <2>3, <2>5
<1> QED BY <1>7, <1>8

-----------------------------------------------------------------------------
(* The start: stdio_file is installed once and duplicated twice.           *)

LEMMA Dup3Is ==
  ASSUME FdAssumption,
         NEW b \in Bitmaps, NEW s \in Files, NEW c \in Counts, NEW a \in FileSets,
         NEW old \in Fd, old \in b, NEW fd \in Fd, s[fd] = NULL,
         NEW f \in AnyFile, s[old] = f, c[f] # 0
  PROVE  dup3(Tab(b, s, c, a), old, fd) = Tab(Plus(b, fd), With(s, fd, f), c, a)
<1> DEFINE more == With(c, f, c[f] + 1)
           t == Tab(b, s, more, a)
           u == [t EXCEPT !.bitmap = @ \cup {fd}]
           bits == Plus(b, fd)
<1>1. /\ more \in Counts
      /\ more[f] = c[f] + 1
      /\ c[f] \in Nat
      /\ more[f] # 0
      /\ With(more, f, c[f]) = c
      /\ bits \in Bitmaps
      /\ With(s, fd, f) \in Files
  BY WithCount, WithFile DEF Bitmaps, Plus
<1>2. fhold(Tab(b, s, c, a), f) = t
  BY HoldIs
<1> HIDE DEF more
<1>3. u = Tab(bits, s, more, a)
  <2>1. /\ t \in Table /\ ~t.panicked /\ t.bitmap = b /\ t.files = s
        /\ t.f_count = more /\ t.allocated = a
    BY <1>1, Parts
  <2> HIDE DEF t
  <2>2. u = [t EXCEPT !.bitmap = bits]
    BY <2>1 DEF Plus
  <2> HIDE DEF u, bits
  <2>3. /\ u \in Table /\ ~u.panicked /\ u.bitmap = bits /\ u.files = s
        /\ u.f_count = more /\ u.allocated = a
    BY <1>1, <2>1, <2>2 DEF Table
  <2> QED BY <2>3, ByParts
<1> HIDE DEF bits
<1>4. vfscore_install_fd(Tab(bits, s, more, a), fd, f) = Tab(bits, With(s, fd, f), more, a)
  BY <1>1, InstallIs
<1>5. fdrop(Tab(bits, With(s, fd, f), more, a), f) =
        Tab(bits, With(s, fd, f), With(more, f, c[f]), a)
  BY <1>1, DropIs
<1>6. vfscore_get_file(Tab(b, s, c, a), old) = f
  BY Parts DEF vfscore_get_file
<1> QED BY Zenon, <1>1, <1>2, <1>3, <1>4, <1>5, <1>6 DEF dup3, bits

LEMMA GoodInit ==
  ASSUME FdAssumption
  PROVE  /\ Good(init_stdio, [f \in AnyFile |-> 0])
         /\ init_stdio.files = [fd \in Fd |-> IF fd \in 0 .. 2 THEN Stdio ELSE NULL]
<1> DEFINE none == [fd \in Fd |-> NULL]
           c == [f \in AnyFile |-> IF f = Stdio THEN 2 ELSE 0]
           s0 == With(none, 0, Stdio)
           s1 == With(s0, 1, Stdio)
           s2 == With(s1, 2, Stdio)
           bits == Plus(Plus({0}, 1), 2)
<1>1. 0 \in Fd /\ 1 \in Fd /\ 2 \in Fd /\ Stdio \in AnyFile /\ NULL # Stdio
  BY DEF Fd, FdAssumption, AnyFile
<1>2. /\ none \in Files
      /\ c \in Counts
      /\ c[Stdio] = 2
      /\ {Stdio} \in FileSets
      /\ {0} \in Bitmaps
      /\ Plus({0}, 1) \in Bitmaps
      /\ bits \in Bitmaps
      /\ none[0] = NULL
  BY <1>1 DEF Files, Counts, FileSets, Bitmaps, Plus
<1>3. /\ s0 \in Files
      /\ s0[0] = Stdio
      /\ s0[1] = NULL
      /\ s1 \in Files
      /\ s1[0] = Stdio
      /\ s1[2] = NULL
      /\ s2 \in Files
  BY <1>1 DEF With, Files
<1>4. s2 = [fd \in Fd |-> IF fd \in 0 .. 2 THEN Stdio ELSE NULL]
  BY <1>1 DEF With
<1>5. [fdtable_init EXCEPT !.bitmap = {0}] = Tab({0}, none, c, {Stdio})
  <2> DEFINE t == Tab({}, none, c, {Stdio})
             u == [t EXCEPT !.bitmap = {0}]
  <2>1. {} \in Bitmaps
    BY DEF Bitmaps
  <2>2. t = fdtable_init
    BY DEF fdtable_init, Tab
  <2> HIDE DEF none, c
  <2>3. /\ t \in Table /\ ~t.panicked /\ t.files = none /\ t.f_count = c
        /\ t.allocated = {Stdio}
    BY <1>2, <2>1, Parts
  <2> HIDE DEF t
  <2>4. /\ u \in Table /\ ~u.panicked /\ u.bitmap = {0} /\ u.files = none
        /\ u.f_count = c /\ u.allocated = {Stdio}
    BY <1>2, <2>3 DEF Table
  <2> HIDE DEF u
  <2> QED BY Zenon, <2>2, <2>4, ByParts DEF u
<1> HIDE DEF none, c, s0, s1, s2
<1>6. vfscore_install_fd(Tab({0}, none, c, {Stdio}), 0, Stdio) = Tab({0}, s0, c, {Stdio})
  BY <1>1, <1>2, InstallIs DEF s0
<1>7. dup3(Tab({0}, s0, c, {Stdio}), 0, 1) = Tab(Plus({0}, 1), s1, c, {Stdio})
  BY <1>1, <1>2, <1>3, Dup3Is DEF s1
<1>8. dup3(Tab(Plus({0}, 1), s1, c, {Stdio}), 0, 2) = Tab(bits, s2, c, {Stdio})
  <2>1. 0 \in Plus({0}, 1)
    BY DEF Plus
  <2> QED BY <1>1, <1>2, <1>3, <2>1, Dup3Is DEF s2
<1>9. init_stdio = Tab(bits, s2, c, {Stdio})
  BY <1>5, <1>6, <1>7, <1>8 DEF init_stdio
<1>10. Balanced(bits, s2, c, {Stdio}, [f \in AnyFile |-> 0])
  <2>1. RefsIn(s2, Stdio) = 3
    <3>1. {fd \in Fd : s2[fd] = Stdio} = 0 .. 2
      BY <1>1, <1>4 DEF Fd, FdAssumption
    <3> DEFINE lo == 0
               hi == 2
    <3>2. lo \in Int /\ hi \in Int /\ ~(lo > hi) /\ hi - lo + 1 = 3
      OBVIOUS
    <3> HIDE DEF lo, hi
    <3>3. Cardinality(lo .. hi) = 3
      BY <3>2, FS_Interval
    <3> QED BY <3>1, <3>3 DEF RefsIn, lo, hi
  <2>2. c[Stdio] = RefsIn(s2, Stdio) + 0 - Short(Stdio)
    BY <1>2, <2>1 DEF Short
  <2>3. bits = 0 .. 2
    BY DEF Plus
  <2> QED BY <1>1, <1>2, <1>4, <2>2, <2>3 DEF Balanced, Fd, FdAssumption
<1> HIDE DEF bits
<1> QED BY <1>2, <1>3, <1>4, <1>9, <1>10, GoodTab

-----------------------------------------------------------------------------
(* The inductive invariant.  CountsExact alone is not one: that the first  *)
(* three descriptors stay stdio_file's, that an allocated file is held, and *)
(* that a file which is not allocated has lost no holds are needed too.    *)

IInv == TypeOK /\ Good(fdt, lost)

LEMMA LostIsCount ==
  ASSUME FdAssumption, TypeOK
  PROVE  lost \in Counts
  BY DEF FdAssumption, TypeOK, Counts

LEMMA LostOne ==
  ASSUME FdAssumption, TypeOK, MaxLost > 0, NEW f \in File
  PROVE  /\ [lost EXCEPT ![f] = 1] = With(lost, f, 1)
         /\ With(lost, f, 1) \in [AnyFile -> 0 .. MaxLost]
  BY DEF FdAssumption, TypeOK, With, AnyFile

\* What is left to show of a step once its table is known to be good.
LEMMA GoodStep ==
  ASSUME FdAssumption, Good(fdt', lost'), ret' \in Int, lost' \in [AnyFile -> 0 .. MaxLost]
  PROVE  IInv'
  BY DEF IInv, TypeOK, Good, Table, Bitmaps, Files, Counts, FileSets

\* The lowest free bit is the lowest descriptor that denotes nothing.
LEMMA FirstZeroIsLowest ==
  ASSUME FdAssumption, NEW t, NEW l, Good(t, l), NEW fd \in Fd, FirstZero(t, fd)
  PROVE  /\ fd \notin t.bitmap
         /\ t.files[fd] = NULL
         /\ \A k \in 0 .. fd - 1 : t.files[k] # NULL
<1>1. \A k \in Fd : k \in t.bitmap <=> t.files[k] # NULL
  BY DEF Good, Balanced
<1>2. \A k \in 0 .. fd - 1 : k \in Fd
  BY DEF FdAssumption, Fd
<1> QED BY <1>1, <1>2 DEF FirstZero

\* A file that is not allocated has no descriptor.
LEMMA FreshFile ==
  ASSUME FdAssumption, NEW t, NEW l, Good(t, l), NEW f \in File, f \notin t.allocated
  PROVE  \A k \in Fd : t.files[k] # f
  BY DEF Good, Balanced, FdAssumption

\* The steps of the abstract table, by their witnesses.
LEMMA AbstractOpen ==
  ASSUME FdAssumption, NEW t, NEW l, Good(t, l), t.files = fdt.files,
         NEW f \in File, f \notin t.allocated, NEW fd \in Fd, FirstZero(t, fd),
         fdt'.files = With(t.files, fd, f)
  PROVE  Abstract!Next
  BY FirstZeroIsLowest, FreshFile DEF Abstract!Next, Abstract!Open, Abstract!Lowest, With

LEMMA AbstractDup ==
  ASSUME FdAssumption, Good(fdt, lost),
         NEW old \in Fd, fdt.files[old] # NULL, NEW fd \in Fd, FirstZero(fdt, fd),
         fdt'.files = With(fdt.files, fd, fdt.files[old])
  PROVE  Abstract!Next
<1>1. fdt.files[fd] = NULL /\ \A k \in 0 .. fd - 1 : fdt.files[k] # NULL
  BY FirstZeroIsLowest
<1> QED BY <1>1 DEF Abstract!Next, Abstract!Dup, Abstract!Lowest, With

LEMMA AbstractClose ==
  ASSUME NEW fd \in Fd, fd \notin 0 .. 2, fdt'.files = With(fdt.files, fd, NULL)
  PROVE  Abstract!Next
  BY DEF Abstract!Next, Abstract!Close, With

-----------------------------------------------------------------------------
(* One lemma per system call: it keeps the invariant, and is a step of the *)
(* abstract table or none.  Only a fetch on a full table may be neither.   *)

Implements == Abstract!Next \/ fdt'.files = fdt.files

LEMMA OpenStep ==
  ASSUME FdAssumption, IInv, NEW f \in File, syscall_handler_open(f)
  PROVE  IInv' /\ Implements
<1> USE DEF IInv
<1>1. lost \in Counts /\ f \notin fdt.allocated /\ lost \in [AnyFile -> 0 .. MaxLost]
  BY LostIsCount DEF syscall_handler_open, TypeOK
<1>2. ASSUME NEW fd \in Fd, FirstZero(fdt, fd), fdt' = Opened(fdt, f, fd), ret' = fd,
             UNCHANGED lost
      PROVE  IInv' /\ Implements
  <2>1. Good(fdt', lost') /\ fdt'.files = With(fdt.files, fd, f)
    BY <1>1, <1>2, GoodOpen, FirstZeroIsLowest
  <2>2. ret' \in Int
    BY <1>2 DEF Fd
  <2>3. IInv'
    BY <1>1, <1>2, <2>1, <2>2, GoodStep
  <2> QED BY <1>1, <1>2, <2>1, <2>3, AbstractOpen DEF Implements
<1>3. ASSUME MaxLost > 0, fdt' = OpenedFull(fdt, f), ret' = ENFILE,
             lost' = [lost EXCEPT ![f] = 1]
      PROVE  IInv' /\ Implements
  <2>1. lost' = With(lost, f, 1) /\ lost' \in [AnyFile -> 0 .. MaxLost]
    BY Zenon, <1>3, LostOne
  <2>2. Good(fdt', lost') /\ fdt'.files = fdt.files
    <3>1. Good(OpenedFull(fdt, f), With(lost, f, 1)) /\ OpenedFull(fdt, f).files = fdt.files
      BY <1>1, GoodOpenFull
    <3> QED BY Zenon, <1>3, <2>1, <3>1
  <2>3. ret' \in Int
    BY <1>3 DEF FdAssumption
  <2> QED BY <2>1, <2>2, <2>3, GoodStep DEF Implements
<1> QED BY <1>2, <1>3 DEF syscall_handler_open

LEMMA OpenatStep ==
  ASSUME FdAssumption, IInv, NEW f \in File, NEW dirfd \in Fd,
         syscall_handler_openat(dirfd, f)
  PROVE  IInv' /\ Implements
<1> USE DEF IInv
<1> DEFINE d == vfscore_get_file(fdt, dirfd)
<1>1. lost \in Counts /\ lost \in [AnyFile -> 0 .. MaxLost]
  BY LostIsCount DEF TypeOK
<1>2. d \in File => d \in fdt.allocated
  BY GoodFile DEF FdAssumption
<1>3. ASSUME ret' = -1, UNCHANGED <<fdt, lost>>
      PROVE  IInv' /\ Implements
  <2>1. IInv'
    BY <1>1, <1>3, GoodStep
  <2> QED BY <1>3, <2>1 DEF Implements
<1>4. ASSUME d \in File, f \notin fdt.allocated, NEW fd \in Fd, FirstZero(fdt, fd),
             fdt' = fdrop(Opened(fhold(fdt, d), f, fd), d), ret' = -fd, UNCHANGED lost
      PROVE  IInv' /\ Implements
  <2>1. fd \notin fdt.bitmap
    BY <1>4, FirstZeroIsLowest
  <2>2. fdt' = Opened(fdt, f, fd)
    <3> HIDE DEF d
    <3> QED BY <1>1, <1>2, <1>4, <2>1, GoodOpenat
  <2>3. Good(fdt', lost') /\ fdt'.files = With(fdt.files, fd, f)
    BY <1>1, <1>4, <2>1, <2>2, GoodOpen
  <2>4. ret' \in Int
    BY <1>4 DEF Fd
  <2>5. IInv'
    BY <1>1, <1>4, <2>3, <2>4, GoodStep
  <2> QED BY <1>4, <2>3, <2>5, AbstractOpen DEF Implements
<1>5. ASSUME d \in File, f \notin fdt.allocated, MaxLost > 0,
             fdt' = fdrop(OpenedFull(fhold(fdt, d), f), d), ret' = -ENFILE,
             lost' = [lost EXCEPT ![f] = 1]
      PROVE  IInv' /\ Implements
  <2>1. lost' = With(lost, f, 1) /\ lost' \in [AnyFile -> 0 .. MaxLost]
    BY Zenon, <1>5, LostOne
  <2>2. fdt' = OpenedFull(fdt, f)
    <3> HIDE DEF d
    <3> QED BY <1>1, <1>2, <1>5, GoodOpenat
  <2>3. Good(fdt', lost') /\ fdt'.files = fdt.files
    <3>1. Good(OpenedFull(fdt, f), With(lost, f, 1)) /\ OpenedFull(fdt, f).files = fdt.files
      BY <1>1, <1>5, GoodOpenFull
    <3> QED BY <2>1, <2>2, <3>1
  <2>4. ret' \in Int
    BY <1>5 DEF FdAssumption
  <2> QED BY <2>1, <2>3, <2>4, GoodStep DEF Implements
<1> QED BY <1>3, <1>4, <1>5 DEF syscall_handler_openat

LEMMA FetchStep ==
  ASSUME FdAssumption, IInv, NEW f \in File, NEW g \in File, open_and_fetch(f, g)
  PROVE  IInv' /\ (~FetchWhenFull => Implements)
<1> USE DEF IInv
<1>1. lost \in Counts /\ f \notin fdt.allocated /\ lost \in [AnyFile -> 0 .. MaxLost]
  BY LostIsCount DEF TypeOK, open_and_fetch
<1>2. ASSUME NEW fd \in Fd, NEW n \in Fd, FirstZero(fdt, fd), UNCHANGED lost,
             g \notin fetch_from_host(fdt, f, fd).allocated,
             FirstZero(fetch_from_host(fdt, f, fd), n),
             fdt' = Opened(fetch_from_host(fdt, f, fd), g, n), ret' = n
      PROVE  IInv' /\ Implements
  <2> DEFINE t == fetch_from_host(fdt, f, fd)
  <2>1. Good(t, lost) /\ t.files = fdt.files
    BY <1>1, <1>2, GoodFetch, FirstZeroIsLowest
  <2> HIDE DEF t
  <2>2. g \notin t.allocated /\ FirstZero(t, n) /\ fdt' = Opened(t, g, n)
    BY <1>2 DEF t
  <2>3. Good(fdt', lost') /\ fdt'.files = With(t.files, n, g)
    BY <1>1, <1>2, <2>1, <2>2, GoodOpen, FirstZeroIsLowest
  <2>4. ret' \in Int
    BY <1>2 DEF Fd
  <2>5. IInv'
    BY <1>1, <1>2, <2>3, <2>4, GoodStep
  <2> QED BY <2>1, <2>2, <2>3, <2>5, AbstractOpen DEF Implements
<1>3. ASSUME NEW n \in Fd, Full(fdt), MaxLost > 0,
             lost' = [lost EXCEPT ![f] = 1],
             g \notin fetch_from_host(fdt, f, ENFILE).allocated,
             FirstZero(fetch_from_host(fdt, f, ENFILE), n),
             fdt' = Opened(fetch_from_host(fdt, f, ENFILE), g, n), ret' = n
      PROVE  IInv'
  <2> DEFINE t == fetch_from_host(fdt, f, ENFILE)
             m == With(lost, f, 1)
  <2>1. lost' = m /\ m \in [AnyFile -> 0 .. MaxLost]
    BY <1>3, LostOne
  <2>2. Good(t, m) /\ m \in Counts
    BY <1>1, <1>3, GoodFetchFull
  <2> HIDE DEF t, m
  <2>3. g \notin t.allocated /\ FirstZero(t, n) /\ fdt' = Opened(t, g, n)
    BY <1>3 DEF t
  <2>4. Good(fdt', lost')
    BY <2>1, <2>2, <2>3, GoodOpen, FirstZeroIsLowest
  <2>5. ret' \in Int
    BY <1>3 DEF Fd
  <2> QED BY <2>1, <2>4, <2>5, GoodStep
<1> QED BY <1>2, <1>3 DEF open_and_fetch

LEMMA CloseStep ==
  ASSUME FdAssumption, IInv, NEW fd \in Fd, syscall_handler_close(fd)
  PROVE  IInv' /\ Implements
<1> USE DEF IInv
<1>1. lost \in Counts /\ lost \in [AnyFile -> 0 .. MaxLost] /\ lost' = lost
  BY LostIsCount DEF TypeOK, syscall_handler_close
<1>2. ret' \in Int
  BY DEF syscall_handler_close, FdAssumption
<1>3. CASE UNCHANGED fdt
  <2>1. IInv'
    BY <1>1, <1>2, <1>3, GoodStep
  <2> QED BY <1>3, <2>1 DEF Implements
<1>4. CASE fd \notin 0 .. 2 /\ vfscore_get_file(fdt, fd) # NULL /\ fdt' = fdclose(fdt, fd)
  <2>1. fdt.files[fd] # NULL
    BY <1>4, GoodFile
  <2>2. Good(fdt', lost') /\ fdt'.files = With(fdt.files, fd, NULL)
    BY <1>1, <1>4, <2>1, GoodClose
  <2>3. IInv'
    BY <1>1, <1>2, <2>2, GoodStep
  <2> QED BY <1>4, <2>2, <2>3, AbstractClose DEF Implements
<1> QED BY <1>3, <1>4 DEF syscall_handler_close

LEMMA DupStep ==
  ASSUME FdAssumption, IInv, NEW fd \in Fd, fcntl_dupfd(fd)
  PROVE  IInv' /\ Implements
<1> USE DEF IInv
<1> DEFINE f == vfscore_get_file(fdt, fd)
<1>1. lost \in Counts /\ lost \in [AnyFile -> 0 .. MaxLost]
  BY LostIsCount DEF TypeOK
<1>2. f = fdt.files[fd] /\ (f # NULL => f \in AnyFile /\ f \in fdt.allocated)
  BY GoodFile
<1>3. ASSUME ret' = -EBADF, UNCHANGED <<fdt, lost>>
      PROVE  IInv' /\ Implements
  <2>1. ret' \in Int
    BY <1>3 DEF FdAssumption
  <2>2. IInv'
    BY <1>1, <1>3, <2>1, GoodStep
  <2> QED BY <1>3, <2>2 DEF Implements
<1>4. ASSUME f # NULL, NEW n \in Fd, FirstZero(fdt, n),
             fdt' = fdrop(fdalloc(fhold(fdt, f), f, n), f), ret' = n, UNCHANGED lost
      PROVE  IInv' /\ Implements
  <2> HIDE DEF f
  <2>1. n \notin fdt.bitmap
    BY <1>4, FirstZeroIsLowest
  <2>2. Good(fdt', lost') /\ fdt'.files = With(fdt.files, n, f)
    BY <1>1, <1>2, <1>4, <2>1, GoodDup
  <2>3. ret' \in Int
    BY <1>4 DEF Fd
  <2>4. IInv'
    BY <1>1, <1>4, <2>2, <2>3, GoodStep
  <2> QED BY <1>2, <1>4, <2>2, <2>4, AbstractDup DEF Implements
<1>5. ASSUME f # NULL, lost[f] + 2 <= MaxLost, fdt' = fhold(fhold(fdt, f), f), ret' = ENFILE,
             lost' = [lost EXCEPT ![f] = @ + 2]
      PROVE  IInv' /\ Implements
  <2> HIDE DEF f
  <2>1. lost' = With(lost, f, lost[f] + 2) /\ lost' \in [AnyFile -> 0 .. MaxLost]
    BY <1>1, <1>2, <1>5 DEF With, FdAssumption
  <2>2. /\ Good(fhold(fhold(fdt, f), f), With(lost, f, lost[f] + 2))
        /\ fhold(fhold(fdt, f), f).files = fdt.files
    BY <1>1, <1>2, <1>5, GoodDupFull
  <2>3. Good(fdt', lost') /\ fdt'.files = fdt.files
    BY Zenon, <1>5, <2>1, <2>2
  <2>4. ret' \in Int
    BY <1>5 DEF FdAssumption
  <2> QED BY <2>1, <2>3, <2>4, GoodStep DEF Implements
<1> QED BY <1>3, <1>4, <1>5 DEF fcntl_dupfd

LEMMA WithFileStep ==
  ASSUME FdAssumption, IInv, NEW fd \in Fd, NEW bad \in Int, with_file(fd, bad)
  PROVE  IInv' /\ Implements
<1> USE DEF IInv
<1> DEFINE f == vfscore_get_file(fdt, fd)
<1>1. lost \in [AnyFile -> 0 .. MaxLost] /\ lost' = lost /\ ret' \in Int
  BY DEF TypeOK, with_file
<1>2. f # NULL => f \in AnyFile /\ fdt.f_count[f] # 0
  BY GoodFile
<1>3. fdt' = fdt
  <2>1. f = NULL => fdt' = fdt
    BY DEF with_file
  <2>2. f # NULL => fdt' = fdrop(fhold(fdt, f), f)
    BY DEF with_file
  <2> HIDE DEF f
  <2> QED BY <1>2, <2>1, <2>2, GoodHoldDrop
<1>4. IInv'
  BY <1>1, <1>3, GoodStep
<1> QED BY <1>3, <1>4 DEF Implements

LEMMA Step ==
  ASSUME FdAssumption, IInv, [Next]_vars
  PROVE  IInv' /\ (~FetchWhenFull => Implements)
<1>1. CASE \E f \in File : syscall_handler_open(f)
  BY <1>1, OpenStep
<1>2. CASE \E f \in File, dirfd \in Fd : syscall_handler_openat(dirfd, f)
  BY <1>2, OpenatStep
<1>3. CASE \E f, g \in File : open_and_fetch(f, g)
  BY <1>3, FetchStep
<1>4. CASE \E fd \in Fd : syscall_handler_close(fd)
  BY <1>4, CloseStep
<1>5. CASE \E fd \in Fd : fcntl_dupfd(fd)
  BY <1>5, DupStep
<1>6. CASE \E fd \in Fd : \/ syscall_handler_lseek(fd) \/ syscall_handler_fstat(fd)
                          \/ syscall_handler_fsync(fd) \/ syscall_handler_ftruncate(fd)
  <2>1. -EBADF \in Int /\ -1 \in Int
    BY DEF FdAssumption
  <2>2. PICK fd \in Fd : with_file(fd, -EBADF) \/ with_file(fd, -1)
    BY <1>6 DEF syscall_handler_lseek, syscall_handler_fstat, syscall_handler_fsync,
                syscall_handler_ftruncate
  <2> QED BY <2>1, <2>2, WithFileStep
<1>7. CASE UNCHANGED vars
  BY <1>7 DEF vars, IInv, TypeOK, Implements
<1> QED BY <1>1, <1>2, <1>3, <1>4, <1>5, <1>6, <1>7 DEF Next

-----------------------------------------------------------------------------
LEMMA InitGood ==
  ASSUME FdAssumption, Init
  PROVE  IInv
<1>1. Good(fdt, lost)
  BY GoodInit DEF Init
<1>2. ret \in Int /\ lost \in [AnyFile -> 0 .. MaxLost]
  BY DEF Init, FdAssumption
<1> QED BY <1>1, <1>2 DEF IInv, TypeOK, Good, Table, Bitmaps, Files, Counts, FileSets

LEMMA IInvIsCountsExact ==
  ASSUME FdAssumption, IInv
  PROVE  CountsExact
<1>1. Balanced(fdt.bitmap, fdt.files, fdt.f_count, fdt.allocated, lost) /\ ~fdt.panicked
  BY DEF IInv, Good
<1>2. ASSUME NEW f \in fdt.allocated
      PROVE  /\ fdt.f_count[f] = Refs(f) + lost[f] - (IF f = Stdio THEN 1 ELSE 0)
             /\ f # Stdio /\ lost[f] = 0 => Refs(f) > 0
  <2>1. fdt.f_count[f] = RefsIn(fdt.files, f) + lost[f] - Short(f) /\ fdt.f_count[f] > 0
    BY <1>1 DEF Balanced
  <2>2. f \in AnyFile /\ fdt.files \in Files
    BY DEF IInv, Good, Table, FileSets
  <2>3. RefsIn(fdt.files, f) \in Nat
    BY <2>2, RefsType
  <2>4. RefsIn(fdt.files, f) = Refs(f)
    BY DEF RefsIn, Refs
  <2> QED BY <2>1, <2>3, <2>4 DEF Short
<1>3. \A fd \in Fd : /\ fdt.files[fd] # NULL => fdt.files[fd] \in fdt.allocated
                     /\ fd \in fdt.bitmap <=> fdt.files[fd] # NULL
  BY <1>1 DEF Balanced
<1> QED BY <1>1, <1>2, <1>3 DEF CountsExact, IInv

\* Whatever system calls the program makes, on a table of any size: every
\* allocated file has exactly the holds of its descriptors and of the calls
\* that failed on a full table, so fdrop of vfs/file.c never meets a count of
\* zero and no descriptor leads to a freed file.
THEOREM FilesCounted == ASSUME FdAssumption PROVE Spec => []CountsExact
<1>1. Init => IInv
  BY InitGood
<1>2. IInv /\ [Next]_vars => IInv'
  BY Step
<1>3. IInv => CountsExact
  BY IInvIsCountsExact
<1> QED BY <1>1, <1>2, <1>3, PTL DEF Spec

\* As long as no file is fetched from the host on a full table, the table of
\* vfs/fd.c is one of descriptors as the program understands them: open and
\* F_DUPFD take the lowest one that is free, a descriptor denotes its file
\* until it is closed itself, and 0, 1 and 2 are never closed.
THEOREM TableImplementsDescriptors ==
  ASSUME FdAssumption, ~FetchWhenFull
  PROVE  Spec => DescriptorsSpec
<1>1. Init => IInv
  BY InitGood
<1>2. Init => Abstract!Init
  BY GoodInit DEF Init, Abstract!Init
<1>3. IInv /\ [Next]_vars => IInv' /\ [Abstract!Next]_(fdt.files)
  BY Step DEF Implements
<1> QED BY <1>1, <1>2, <1>3, PTL DEF Spec, DescriptorsSpec, Abstract!Spec
=============================================================================
