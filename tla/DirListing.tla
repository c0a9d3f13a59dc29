----------------------------- MODULE DirListing -----------------------------
(***************************************************************************)
(* Listing a directory of ramfs while files are made and removed in it:    *)
(* syscall_handler_getdents, readdir_r, sys_readdir and ramfs_readdir.     *)
(* An open directory remembers a position, not an entry; each call finds   *)
(* its way along the children anew.                                        *)
(***************************************************************************)
EXTENDS Integers, Sequences, SequencesExt, FiniteSets, FiniteSetTheorems, TLAPS

CONSTANTS
  Dir,         \* files open on the directory
  Counts,      \* the count of getdents, a number of entries
  MaxEntries   \* bound: entries ever made

DirAssumption == Counts \subseteq Nat /\ MaxEntries \in Nat

VARIABLES
  child,       \* the children of the directory, in order; numbered as made
  made,        \* how many were made
  f_offset,    \* of each file
  seen,        \* history: what each file has listed since it was rewound
  there,       \* history: the entries that have been there all that time
  shifts,      \* history: entries removed before the file's position meanwhile
  ended        \* has a call of the file found the end?

vars == <<child, made, f_offset, seen, there, shifts, ended>>

Init ==
  /\ child = <<>> /\ made = 0
  /\ f_offset = [f \in Dir |-> 0] /\ seen = [f \in Dir |-> <<>>]
  /\ there = [f \in Dir |-> {}] /\ shifts = [f \in Dir |-> 0] /\ ended = [f \in Dir |-> FALSE]

-----------------------------------------------------------------------------
\* ramfs_add_node goes to the end of the children.
Linked(s, n) == Append(s, n)

ramfs_add_node ==
  /\ made < MaxEntries
  /\ made' = made + 1 /\ child' = Linked(child, made + 1)
  /\ UNCHANGED <<f_offset, seen, there, shifts, ended>>

\* Is the child at i before a position?
Past(i, off) == i <= off - 2

\* The node is taken out of the list; those behind it move up.
ramfs_remove_node(n) ==
  \E i \in DOMAIN child :
    /\ child[i] = n
    /\ child' = RemoveAt(child, i)
    /\ there' = [f \in Dir |-> there[f] \ {n}]
    /\ shifts' = [f \in Dir |-> shifts[f] + (IF Past(i, f_offset[f]) THEN 1 ELSE 0)]
    /\ UNCHANGED <<made, f_offset, seen, ended>>

-----------------------------------------------------------------------------
DOT == -2
DOTDOT == -1
ENOENT == 0

\* Faulty variant: the children start one position too late.
ramfs_readdir_late(off) ==
  CASE off = 0 -> DOT [] off = 1 -> DOTDOT
    [] off > Len(child) -> ENOENT [] OTHER -> child[off]

\* ramfs_readdir at a position: an entry, or ENOENT.
ramfs_readdir(off) ==
  CASE off = 0 -> DOT [] off = 1 -> DOTDOT
    [] off - 1 > Len(child) -> ENOENT [] OTHER -> child[off - 1]

\* The loop of syscall_handler_getdents over readdir_r: entries up to count, or
\* to the first ENOENT.
Entries(off, count) ==
  LET all == [i \in 1 .. count |-> ramfs_readdir(off + i - 1)]
      n == Cardinality({i \in 1 .. count : \A j \in 1 .. i : all[j] # ENOENT})
  IN SubSeq(all, 1, n)

\* Each entry moves the position on by one.
syscall_handler_getdents(f, count) ==
  LET got == Entries(f_offset[f], count)
  IN /\ count > 0
     /\ f_offset' = [f_offset EXCEPT ![f] = @ + Len(got)]
     /\ seen' = [seen EXCEPT ![f] = @ \o got]
     /\ ended' = [ended EXCEPT ![f] = Len(got) < count]
     /\ UNCHANGED <<child, made, there, shifts>>

\* lseek to the start.
Rewind(f) ==
  /\ f_offset' = [f_offset EXCEPT ![f] = 0] /\ seen' = [seen EXCEPT ![f] = <<>>]
  /\ there' = [there EXCEPT ![f] = ToSet(child)] /\ shifts' = [shifts EXCEPT ![f] = 0]
  /\ ended' = [ended EXCEPT ![f] = FALSE] /\ UNCHANGED <<child, made>>

Next ==
  \/ ramfs_add_node
  \/ \E n \in 1 .. MaxEntries : ramfs_remove_node(n)
  \/ \E f \in Dir : Rewind(f) \/ \E count \in Counts : syscall_handler_getdents(f, count)

Spec == Init /\ [][Next]_vars

-----------------------------------------------------------------------------
(* Properties.                                                             *)

\* However the directory changes between the calls, no entry is listed twice,
\* and those listed come in the order they were made.  A listing that has ended
\* has every entry that was there all the time, but for at most one for each
\* entry removed behind its position: with removals only ahead, or none, it is
\* complete, and entries that are added do not disturb it.
ListingExact ==
  \A f \in Dir :
    /\ \A i, j \in DOMAIN seen[f] : i < j => seen[f][i] < seen[f][j]
    /\ ended[f] => /\ Cardinality(there[f] \ ToSet(seen[f])) <= shifts[f]
                   /\ {DOT, DOTDOT} \subseteq ToSet(seen[f])

-----------------------------------------------------------------------------
(* Proof, for any number of entries and open files.  ListingExact says     *)
(* nothing of a listing that is under way.  What holds all the time: the   *)
(* children are in the order they were made, those from the position on    *)
(* come after all that was listed, and of those before it at most shifts   *)
(* are missing.                                                            *)

Increasing(s) == \A i, j \in 1 .. Len(s) : i < j => s[i] < s[j]

\* Children before position k that have been there all the time and are not in s.
Missed(c, k, t, s) == {n \in t : /\ \E j \in 1 .. Len(c) : j <= k - 2 /\ c[j] = n
                                 /\ n \notin ToSet(s)}

\* A listing s at position k of the children c; t and x are its there and shifts.
Listed(c, m, k, s, t, x, e) ==
  /\ k \in Nat /\ s \in Seq(Int) /\ Len(s) = k /\ x \in Nat
  /\ Increasing(s)
  /\ \A i \in 1 .. Len(s) : s[i] <= m
  /\ k >= 1 => s[1] = DOT
  /\ k >= 2 => s[2] = DOTDOT
  /\ \A i \in 1 .. Len(s), j \in 1 .. Len(c) : j >= k - 1 => s[i] < c[j]
  /\ IsFiniteSet(t) /\ t \subseteq ToSet(c)
  /\ Cardinality(Missed(c, k, t, s)) <= x
  /\ e => k >= 2 /\ \A n \in t : \E j \in 1 .. Len(c) : j <= k - 2 /\ c[j] = n

Ordered(c, m) == m \in Nat /\ c \in Seq(1 .. m) /\ Increasing(c)

IInv ==
  /\ Ordered(child, made)
  /\ f_offset \in [Dir -> Nat] /\ DOMAIN seen = Dir /\ DOMAIN there = Dir
  /\ DOMAIN shifts = Dir /\ DOMAIN ended = Dir
  /\ \A f \in Dir : Listed(child, made, f_offset[f], seen[f], there[f], shifts[f], ended[f])

LEMMA MissedFinite ==
  ASSUME NEW c, NEW k, NEW t, NEW s, IsFiniteSet(t)
  PROVE  IsFiniteSet(Missed(c, k, t, s)) /\ Cardinality(Missed(c, k, t, s)) \in Nat
<1>1. Missed(c, k, t, s) \subseteq t
  BY DEF Missed
<1>2. IsFiniteSet(Missed(c, k, t, s))
  BY <1>1, FS_Subset
<1> QED BY <1>2, FS_CardinalityType

\* Fewer are missed when the set is smaller.
LEMMA FewerMissed ==
  ASSUME NEW M, NEW N, IsFiniteSet(M), N \subseteq M
  PROVE  IsFiniteSet(N) /\ Cardinality(N) \in Nat /\ Cardinality(M) \in Nat
         /\ Cardinality(N) <= Cardinality(M)
BY FS_Subset, FS_CardinalityType

\* ramfs_add_node: the new child comes after everything.
LEMMA AddKeeps ==
  ASSUME NEW m, NEW c, Ordered(c, m), NEW k, NEW s, NEW t, NEW x, NEW e,
         Listed(c, m, k, s, t, x, e)
  PROVE  /\ Ordered(Append(c, m + 1), m + 1)
         /\ Listed(Append(c, m + 1), m + 1, k, s, t, x, e)
<1> DEFINE d == Append(c, m + 1)
<1>1. /\ Len(d) = Len(c) + 1 /\ d[Len(c) + 1] = m + 1 /\ \A j \in 1 .. Len(c) : d[j] = c[j]
      /\ Len(c) \in Nat /\ m \in Nat /\ \A j \in 1 .. Len(c) : c[j] \in 1 .. m
      /\ d \in Seq(1 .. m + 1)
  <2>1. c \in Seq(1 .. m) /\ m \in Nat
    BY DEF Ordered
  <2>2. c \in Seq(1 .. m + 1)
    BY <2>1
  <2>3. m + 1 \in 1 .. m + 1
    BY <2>1
  <2> QED BY <2>1, <2>2, <2>3
<1> HIDE DEF d
<1>2. Increasing(d)
  <2> SUFFICES ASSUME NEW i \in 1 .. Len(d), NEW j \in 1 .. Len(d), i < j
               PROVE  d[i] < d[j]
    BY DEF Increasing
  <2>1. i \in 1 .. Len(c) /\ c[i] \in 1 .. m /\ d[i] = c[i]
    BY <1>1
  <2>2. CASE j = Len(c) + 1
    BY <1>1, <2>1, <2>2
  <2>3. CASE j # Len(c) + 1
    <3>1. j \in 1 .. Len(c) /\ d[j] = c[j]
      BY <1>1, <2>3
    <3> QED BY <2>1, <3>1 DEF Ordered, Increasing
  <2> QED BY <2>2, <2>3
<1>3. ToSet(c) \subseteq ToSet(d) /\ \A n \in ToSet(c) : n # m + 1
  <2>1. DOMAIN c = 1 .. Len(c) /\ DOMAIN d = 1 .. Len(d)
    BY <1>1 DEF Ordered
  <2> QED BY <1>1, <2>1 DEF ToSet
<1>4. Missed(d, k, t, s) = Missed(c, k, t, s)
  <2>1. \A n \in t : (\E j \in 1 .. Len(d) : j <= k - 2 /\ d[j] = n)
                       <=> (\E j \in 1 .. Len(c) : j <= k - 2 /\ c[j] = n)
    <3> SUFFICES ASSUME NEW n \in t
                 PROVE  (\E j \in 1 .. Len(d) : j <= k - 2 /\ d[j] = n)
                          <=> (\E j \in 1 .. Len(c) : j <= k - 2 /\ c[j] = n)
      OBVIOUS
    <3>1. n # m + 1
      BY <1>3 DEF Listed
    <3>2. \A j \in 1 .. Len(d) : d[j] = n => j \in 1 .. Len(c) /\ c[j] = n
      BY <1>1, <3>1
    <3>3. \A j \in 1 .. Len(c) : c[j] = n => j \in 1 .. Len(d) /\ d[j] = n
      BY <1>1
    <3> QED BY <3>2, <3>3
  <2> QED BY <2>1 DEF Missed
<1>5. \A i \in 1 .. Len(s) : s[i] \in Int /\ s[i] <= m
  BY DEF Listed
<1>6. \A i \in 1 .. Len(s), j \in 1 .. Len(d) : j >= k - 1 => s[i] < d[j]
  <2> SUFFICES ASSUME NEW i \in 1 .. Len(s), NEW j \in 1 .. Len(d), j >= k - 1
               PROVE  s[i] < d[j]
    OBVIOUS
  <2>1. CASE j = Len(c) + 1
    BY <1>1, <1>5, <2>1
  <2>2. CASE j # Len(c) + 1
    <3>1. j \in 1 .. Len(c) /\ d[j] = c[j]
      BY <1>1, <2>2
    <3> QED BY <3>1 DEF Listed
  <2> QED BY <2>1, <2>2
<1>7. e => \A n \in t : \E j \in 1 .. Len(d) : j <= k - 2 /\ d[j] = n
  <2> SUFFICES ASSUME e, NEW n \in t
               PROVE  \E j \in 1 .. Len(d) : j <= k - 2 /\ d[j] = n
    OBVIOUS
  <2>1. PICK j \in 1 .. Len(c) : j <= k - 2 /\ c[j] = n
    BY DEF Listed
  <2> QED BY <1>1, <2>1
<1>8. Listed(d, m + 1, k, s, t, x, e)
  <2>1. \A i \in 1 .. Len(s) : s[i] <= m + 1
    BY <1>1, <1>5
  <2> QED BY <1>3, <1>4, <1>6, <1>7, <2>1 DEF Listed
<1> QED BY <1>1, <1>2, <1>8 DEF Ordered, d

\* RemoveAt: the children behind i move up by one.
LEMMA RemoveAtIs ==
  ASSUME NEW S, NEW c \in Seq(S), NEW i \in 1 .. Len(c)
  PROVE  /\ RemoveAt(c, i) \in Seq(S)
         /\ Len(RemoveAt(c, i)) = Len(c) - 1
         /\ \A j \in 1 .. Len(c) - 1 : RemoveAt(c, i)[j] = c[IF j < i THEN j ELSE j + 1]
<1> DEFINE a == SubSeq(c, 1, i - 1)
           b == SubSeq(c, i + 1, Len(c))
<1>1. a \in Seq(S) /\ Len(a) = i - 1 /\ \A j \in 1 .. i - 1 : a[j] = c[j]
  OBVIOUS
<1>2. /\ b \in Seq(S) /\ Len(b) = Len(c) - i
      /\ \A j \in 1 .. Len(c) - i : b[j] = c[i + j]
  OBVIOUS
<1> HIDE DEF a, b
<1>3. /\ a \o b \in Seq(S) /\ Len(a \o b) = Len(c) - 1
      /\ \A j \in 1 .. Len(c) - 1 : (a \o b)[j] = IF j <= Len(a) THEN a[j] ELSE b[j - Len(a)]
  <2>1. /\ a \o b \in Seq(S) /\ Len(a \o b) = Len(a) + Len(b)
        /\ \A j \in 1 .. Len(a) + Len(b) :
             (a \o b)[j] = IF j <= Len(a) THEN a[j] ELSE b[j - Len(a)]
    <3>1. a \in Seq(S) /\ b \in Seq(S)
      BY <1>1, <1>2
    <3> QED BY <3>1
  <2>2. Len(a) + Len(b) = Len(c) - 1
    BY <1>1, <1>2
  <2> QED BY <2>1, <2>2
<1>4. ASSUME NEW j \in 1 .. Len(c) - 1
      PROVE  (a \o b)[j] = c[IF j < i THEN j ELSE j + 1]
  <2>1. CASE j < i
    BY <1>1, <1>3, <2>1
  <2>2. CASE ~(j < i)
    <3>1. j - (i - 1) \in 1 .. Len(c) - i /\ i + (j - (i - 1)) = j + 1
      BY <2>2
    <3>2. (a \o b)[j] = b[j - (i - 1)]
      BY <1>1, <1>3, <2>2
    <3> QED BY <1>2, <2>2, <3>1, <3>2
  <2> QED BY Zenon, <2>1, <2>2
<1> QED BY <1>3, <1>4 DEF RemoveAt, a, b

\* ramfs_remove_node: a child removed behind the position moves one that was
\* still to come to before it.
LEMMA RemoveKeeps ==
  ASSUME NEW m, NEW c, Ordered(c, m), NEW p \in 1 .. Len(c)
  PROVE  /\ Ordered(RemoveAt(c, p), m)
         /\ \A k, s, t, x, e : Listed(c, m, k, s, t, x, e) =>
              Listed(RemoveAt(c, p), m, k, s, t \ {c[p]},
                     x + (IF Past(p, k) THEN 1 ELSE 0), e)
<1> DEFINE d == RemoveAt(c, p)
           from(j) == IF j < p THEN j ELSE j + 1
<1>1. c \in Seq(1 .. m) /\ m \in Nat /\ Len(c) \in Nat /\ Increasing(c)
  BY DEF Ordered
<1>2. /\ d \in Seq(1 .. m) /\ Len(d) = Len(c) - 1
      /\ \A j \in 1 .. Len(d) : d[j] = c[from(j)]
  BY <1>1, RemoveAtIs
<1>3. \A j \in 1 .. Len(d) : from(j) \in 1 .. Len(c) /\ from(j) \in j .. j + 1 /\ from(j) # p
  BY <1>1, <1>2
<1>4. \A j \in 1 .. Len(c) : c[j] # c[p] => \E q \in 1 .. Len(d) : q <= j /\ d[q] = c[j]
  <2> SUFFICES ASSUME NEW j \in 1 .. Len(c), c[j] # c[p]
               PROVE  \E q \in 1 .. Len(d) : q <= j /\ d[q] = c[j]
    OBVIOUS
  <2>1. j # p
    OBVIOUS
  <2>2. CASE j < p
    <3>1. j \in 1 .. Len(d) /\ from(j) = j
      BY <1>1, <1>2, <2>2
    <3>2. d[j] = c[j] /\ j <= j
      BY <1>2, <3>1
    <3> QED BY <3>1, <3>2
  <2>3. CASE j > p
    <3>1. j - 1 \in 1 .. Len(d) /\ from(j - 1) = j
      BY <1>1, <1>2, <2>3
    <3>2. d[j - 1] = c[j]
      BY <1>2, <3>1
    <3>3. j - 1 <= j
      BY <1>1
    <3> QED BY <3>1, <3>2, <3>3
  <2> QED BY <1>1, <2>1, <2>2, <2>3
<1>5. ASSUME NEW i \in 1 .. Len(d), NEW j \in 1 .. Len(d), i < j
      PROVE  from(i) < from(j)
  <2>1. i \in Nat /\ j \in Nat /\ p \in Nat
    BY <1>1, <1>2
  <2>2. CASE j < p
    BY <1>5, <2>1, <2>2
  <2>3. CASE ~(j < p)
    BY <1>5, <2>1, <2>3
  <2> QED BY <2>2, <2>3
<1> HIDE DEF d, from
<1>6. Increasing(d)
  BY Zenon, <1>1, <1>2, <1>3, <1>5 DEF Increasing
<1>7. ASSUME NEW k, NEW s, NEW t, NEW x, NEW e, Listed(c, m, k, s, t, x, e)
      PROVE  Listed(d, m, k, s, t \ {c[p]}, x + (IF Past(p, k) THEN 1 ELSE 0), e)
  <2> DEFINE u == t \ {c[p]}
  <2>1. k \in Nat /\ x \in Nat /\ IsFiniteSet(t)
    BY <1>7 DEF Listed
  <2>2. IsFiniteSet(u)
    BY <2>1, FS_Subset
  <2>3. u \subseteq ToSet(d)
    <3>1. DOMAIN d = 1 .. Len(d) /\ DOMAIN c = 1 .. Len(c)
      BY <1>1, <1>2
    <3>2. \A n \in u : \E j \in 1 .. Len(c) : c[j] = n /\ n # c[p]
      BY <1>7, <3>1 DEF Listed, ToSet
    <3> QED BY <1>4, <3>1, <3>2 DEF ToSet
  <2>4. \A i \in 1 .. Len(s), j \in 1 .. Len(d) : j >= k - 1 => s[i] < d[j]
    <3> SUFFICES ASSUME NEW i \in 1 .. Len(s), NEW j \in 1 .. Len(d), j >= k - 1
                 PROVE  s[i] < d[j]
      OBVIOUS
    <3>1. from(j) \in 1 .. Len(c) /\ from(j) >= k - 1
      <4>1. from(j) \in 1 .. Len(c) /\ from(j) \in j .. j + 1
        BY <1>3
      <4> QED BY <2>1, <4>1
    <3>2. s[i] < c[from(j)]
      BY <1>7, <3>1 DEF Listed
    <3> QED BY <1>2, <3>2
  <2>5. e => k >= 2 /\ \A n \in u : \E j \in 1 .. Len(d) : j <= k - 2 /\ d[j] = n
    <3> SUFFICES ASSUME e PROVE k >= 2 /\ \A n \in u : \E j \in 1 .. Len(d) : j <= k - 2 /\ d[j] = n
      OBVIOUS
    <3>1. k >= 2
      BY <1>7 DEF Listed
    <3>2. ASSUME NEW n \in u PROVE \E j \in 1 .. Len(d) : j <= k - 2 /\ d[j] = n
      <4>1. PICK j \in 1 .. Len(c) : j <= k - 2 /\ c[j] = n
        BY <1>7 DEF Listed
      <4>2. PICK q \in 1 .. Len(d) : q <= j /\ d[q] = c[j]
        BY <1>4, <4>1
      <4> QED BY <1>1, <1>2, <2>1, <4>1, <4>2
    <3> QED BY <3>1, <3>2
  <2> DEFINE M == Missed(c, k, t, s)
             N == Missed(d, k, u, s)
  <2>6. IsFiniteSet(M) /\ Cardinality(M) \in Nat /\ Cardinality(M) <= x
    BY <1>7, <2>1, MissedFinite DEF Listed
  <2>7. Cardinality(N) <= x + (IF Past(p, k) THEN 1 ELSE 0)
    <3>1. CASE Past(p, k)
      <4>1. N \subseteq M \cup {c[k - 1]}
        <5> SUFFICES ASSUME NEW n \in N, n # c[k - 1] PROVE n \in M
          BY Zenon
        <5>1. n \in t /\ n \notin ToSet(s)
          BY DEF Missed
        <5>2. PICK j \in 1 .. Len(d) : j <= k - 2 /\ d[j] = n
          BY DEF Missed
        <5>3. PICK q \in 1 .. Len(c) : c[q] = n /\ q \in j .. j + 1
          <6>1. from(j) \in 1 .. Len(c) /\ from(j) \in j .. j + 1
            BY <1>3
          <6>2. c[from(j)] = n
            BY <1>2, <5>2
          <6> QED BY <6>1, <6>2
        <5>4. q # k - 1
          BY <5>3
        <5>5. q <= k - 2
          BY <1>1, <1>2, <2>1, <5>2, <5>3, <5>4
        <5> QED BY <5>1, <5>3, <5>5 DEF Missed
      <4> HIDE DEF M, N
      <4>2. /\ IsFiniteSet(M \cup {c[k - 1]})
            /\ Cardinality(M \cup {c[k - 1]}) <= Cardinality(M) + 1
            /\ Cardinality(M \cup {c[k - 1]}) \in Nat
        <5>1. /\ IsFiniteSet(M \cup {c[k - 1]})
              /\ Cardinality(M \cup {c[k - 1]})
                   = IF c[k - 1] \in M THEN Cardinality(M) ELSE Cardinality(M) + 1
          BY Zenon, <2>6, FS_AddElement
        <5> QED BY <2>6, <5>1
      <4>3. Cardinality(N) <= Cardinality(M \cup {c[k - 1]}) /\ Cardinality(N) \in Nat
        BY <4>1, <4>2, FewerMissed
      <4> QED BY <2>1, <2>6, <3>1, <4>2, <4>3
    <3>2. CASE ~Past(p, k)
      <4>1. N \subseteq M
        <5> SUFFICES ASSUME NEW n \in N PROVE n \in M
          BY Zenon
        <5>1. n \in t /\ n \notin ToSet(s)
          BY DEF Missed
        <5>2. PICK j \in 1 .. Len(d) : j <= k - 2 /\ d[j] = n
          BY DEF Missed
        <5>3. j < p
          BY <1>1, <1>2, <2>1, <3>2, <5>2 DEF Past
        <5>4. from(j) = j /\ j \in 1 .. Len(c)
          BY <1>1, <1>2, <5>3 DEF from
        <5>5. c[j] = n
          BY <1>2, <5>2, <5>4
        <5> QED BY <5>1, <5>2, <5>4, <5>5 DEF Missed
      <4> HIDE DEF M, N
      <4>2. Cardinality(N) <= Cardinality(M) /\ Cardinality(N) \in Nat
        BY <2>6, <4>1, FewerMissed
      <4> QED BY <2>1, <2>6, <3>2, <4>2
    <3> QED BY <3>1, <3>2
  <2>8. x + (IF Past(p, k) THEN 1 ELSE 0) \in Nat
    BY <2>1
  <2> HIDE DEF u
  <2> QED BY <1>7, <2>2, <2>3, <2>4, <2>5, <2>7, <2>8 DEF Listed, u
<1>8. Ordered(d, m)
  BY <1>1, <1>2, <1>6 DEF Ordered
<1> QED BY Zenon, <1>7, <1>8 DEF d

\* How many entries there are from a position on, up to count.
Left(off, count) ==
  IF off + count <= Len(child) + 2 THEN count
  ELSE IF off <= Len(child) + 2 THEN Len(child) + 2 - off ELSE 0

\* The loop of syscall_handler_getdents stops at the end of the children.
LEMMA EntriesAre ==
  ASSUME Ordered(child, made), NEW off \in Nat, NEW count \in Nat
  PROVE  /\ Left(off, count) \in 0 .. count
         /\ Entries(off, count) \in Seq(Int)
         /\ Len(Entries(off, count)) = Left(off, count)
         /\ \A i \in 1 .. Left(off, count) : Entries(off, count)[i] = ramfs_readdir(off + i - 1)
<1> DEFINE all == [i \in 1 .. count |-> ramfs_readdir(off + i - 1)]
           good == {i \in 1 .. count : \A j \in 1 .. i : all[j] # ENOENT}
           l == Left(off, count)
<1>1. Len(child) \in Nat /\ \A j \in 1 .. Len(child) : child[j] \in Nat \ {0}
  BY DEF Ordered
<1>2. l \in 0 .. count
  BY <1>1 DEF Left
<1>3. \A o \in Nat : /\ ramfs_readdir(o) \in Int
                     /\ ramfs_readdir(o) # ENOENT <=> o <= Len(child) + 1
  <2> SUFFICES ASSUME NEW o \in Nat
               PROVE  /\ ramfs_readdir(o) \in Int
                      /\ ramfs_readdir(o) # ENOENT <=> o <= Len(child) + 1
    OBVIOUS
  <2>1. CASE o \in {0, 1}
    BY <1>1, <2>1 DEF ramfs_readdir, DOT, DOTDOT, ENOENT
  <2>2. CASE o > 1 /\ o - 1 > Len(child)
    BY <1>1, <2>2 DEF ramfs_readdir, ENOENT
  <2>3. CASE o > 1 /\ ~(o - 1 > Len(child))
    <3>1. o - 1 \in 1 .. Len(child) /\ ramfs_readdir(o) = child[o - 1]
      BY <1>1, <2>3 DEF ramfs_readdir
    <3> QED BY <1>1, <2>3, <3>1 DEF ENOENT
  <2> QED BY <2>1, <2>2, <2>3
<1>4. all \in Seq(Int) /\ Len(all) = count
  <2>1. \A i \in 1 .. count : ramfs_readdir(off + i - 1) \in Int
    BY <1>3
  <2> QED BY <2>1
<1>5. \A i \in 1 .. count : all[i] # ENOENT <=> i <= l
  <2> SUFFICES ASSUME NEW i \in 1 .. count PROVE all[i] # ENOENT <=> i <= l
    OBVIOUS
  <2>1. all[i] # ENOENT <=> off + i - 1 <= Len(child) + 1
    BY <1>3
  <2>2. off + i - 1 <= Len(child) + 1 <=> i <= l
    BY <1>1 DEF Left
  <2> QED BY <2>1, <2>2
<1>6. \A i \in 1 .. count : all[i] = ramfs_readdir(off + i - 1)
  OBVIOUS
<1> HIDE DEF all, l
<1>7. good = 1 .. l
  <2>1. ASSUME NEW i \in good PROVE i \in 1 .. l
    <3>1. i \in 1 .. count /\ all[i] # ENOENT
      OBVIOUS
    <3> QED BY <1>2, <1>5, <3>1
  <2>2. ASSUME NEW i \in 1 .. l PROVE i \in good
    <3>1. i \in 1 .. count /\ \A j \in 1 .. i : j \in 1 .. count /\ j <= l
      BY <1>2
    <3> QED BY <1>5, <3>1
  <2> QED BY <2>1, <2>2
<1> HIDE DEF good
<1>8. Cardinality(good) = l
  <2>1. Cardinality(1 .. l) = IF 1 > l THEN 0 ELSE l - 1 + 1
    BY <1>2, FS_Interval
  <2> QED BY <1>2, <1>7, <2>1
<1>9. Entries(off, count) = SubSeq(all, 1, l)
  BY Zenon, <1>8 DEF Entries, all, good
<1>10. /\ SubSeq(all, 1, l) \in Seq(Int) /\ Len(SubSeq(all, 1, l)) = l
       /\ \A i \in 1 .. l : SubSeq(all, 1, l)[i] = all[i]
  BY <1>2, <1>4
<1> QED BY <1>2, <1>6, <1>9, <1>10 DEF l

\* syscall_handler_getdents: what it adds comes after all that was listed, and
\* leaves nothing out.
LEMMA GetKeeps ==
  ASSUME Ordered(child, made), NEW count \in Nat, count > 0,
         NEW k, NEW s, NEW t, NEW x, NEW e, Listed(child, made, k, s, t, x, e)
  PROVE  Listed(child, made, k + Len(Entries(k, count)), s \o Entries(k, count), t, x,
                Len(Entries(k, count)) < count)
<1> DEFINE got == Entries(k, count)
           l == Left(k, count)
           z == s \o got
           q == k + l
<1>1. /\ child \in Seq(1 .. made) /\ made \in Nat /\ Len(child) \in Nat
      /\ \A j \in 1 .. Len(child) : child[j] \in 1 .. made
      /\ Increasing(child)
  BY DEF Ordered
<1>2. /\ k \in Nat /\ s \in Seq(Int) /\ Len(s) = k /\ x \in Nat /\ IsFiniteSet(t)
      /\ \A i \in 1 .. k : s[i] \in Int /\ s[i] <= made
  BY DEF Listed
<1>3. /\ l \in 0 .. count /\ got \in Seq(Int) /\ Len(got) = l
      /\ \A i \in 1 .. l : got[i] = ramfs_readdir(k + i - 1)
  BY Zenon, <1>2, EntriesAre
<1>4. /\ l > 0 => q <= Len(child) + 2
      /\ l < count => q >= Len(child) + 2
  BY <1>1, <1>2 DEF Left
<1> HIDE DEF got, l
<1>5. /\ z \in Seq(Int) /\ Len(z) = q
      /\ \A i \in 1 .. k : z[i] = s[i]
      /\ \A i \in k + 1 .. q : z[i] = got[i - k]
  <2>1. s \in Seq(Int) /\ got \in Seq(Int)
    BY <1>2, <1>3
  <2>2. /\ z \in Seq(Int) /\ Len(z) = Len(s) + Len(got)
        /\ \A i \in 1 .. Len(s) + Len(got) : z[i] = IF i <= Len(s) THEN s[i] ELSE got[i - Len(s)]
    BY <2>1
  <2> HIDE DEF z
  <2> QED BY <1>2, <1>3, <2>2
<1>6. q \in Nat /\ q >= k
  BY <1>2, <1>3
<1>7. ASSUME NEW i \in k + 1 .. q
      PROVE  /\ i = 1 => z[i] = DOT
             /\ i = 2 => z[i] = DOTDOT
             /\ i > 2 => i - 2 \in 1 .. Len(child) /\ z[i] = child[i - 2]
  <2>1. i - k \in 1 .. l /\ k + (i - k) - 1 = i - 1
    BY <1>2, <1>3
  <2>2. z[i] = ramfs_readdir(i - 1)
    BY Zenon, <1>3, <1>5, <2>1
  <2>3. i <= Len(child) + 2
    BY <1>1, <1>2, <1>3, <1>4
  <2>4. CASE i = 1
    BY <2>2, <2>4 DEF ramfs_readdir
  <2>5. CASE i = 2
    BY <2>2, <2>5 DEF ramfs_readdir
  <2>6. CASE i > 2
    <3>1. i - 2 \in 1 .. Len(child)
      BY <1>1, <1>2, <2>3, <2>6
    <3>2. ramfs_readdir(i - 1) = child[i - 2]
      BY <1>1, <1>2, <2>3, <2>6 DEF ramfs_readdir
    <3> QED BY <2>2, <2>6, <3>1, <3>2
  <2> QED BY Zenon, <1>2, <2>4, <2>5, <2>6
<1> HIDE DEF z, q
<1>8. /\ q >= 1 => z[1] = DOT
      /\ q >= 2 => z[2] = DOTDOT
  <2>1. q >= 1 => z[1] = DOT
    <3>1. CASE k >= 1
      BY <1>2, <1>5, <3>1 DEF Listed
    <3>2. CASE k = 0
      BY <1>6, <1>7, <3>2
    <3> QED BY <1>2, <3>1, <3>2
  <2>2. q >= 2 => z[2] = DOTDOT
    <3>1. CASE k >= 2
      BY <1>2, <1>5, <3>1 DEF Listed
    <3>2. CASE k < 2
      BY <1>2, <1>6, <1>7, <3>2
    <3> QED BY <1>2, <3>1, <3>2
  <2> QED BY <2>1, <2>2
<1>9. Increasing(z)
  <2> SUFFICES ASSUME NEW i \in 1 .. Len(z), NEW j \in 1 .. Len(z), i < j
               PROVE  z[i] < z[j]
    BY DEF Increasing
  <2>0. i \in 1 .. q /\ j \in 1 .. q
    BY <1>5
  <2>1. CASE j <= k
    <3>1. i \in 1 .. Len(s) /\ j \in 1 .. Len(s) /\ z[i] = s[i] /\ z[j] = s[j]
      BY <1>2, <1>5, <1>6, <2>0, <2>1
    <3> QED BY <3>1 DEF Listed, Increasing
  <2>2. CASE i <= k /\ j > k
    <3>1. i \in 1 .. Len(s) /\ z[i] = s[i] /\ j \in k + 1 .. q
      BY <1>2, <1>5, <1>6, <2>0, <2>2
    <3>2. CASE j = 2
      <4>1. i = 1 /\ z[1] = DOT /\ z[2] = DOTDOT
        BY <1>6, <1>8, <2>0, <3>2
      <4> QED BY <3>2, <4>1 DEF DOT, DOTDOT
    <3>3. CASE j > 2
      <4>1. j - 2 \in 1 .. Len(child) /\ z[j] = child[j - 2]
        BY <1>7, <3>1, <3>3
      <4>2. j - 2 >= k - 1
        BY <1>2, <1>6, <2>0, <2>2
      <4>3. s[i] < child[j - 2]
        BY <3>1, <4>1, <4>2 DEF Listed
      <4> QED BY <3>1, <4>1, <4>3
    <3> QED BY <1>6, <2>0, <3>2, <3>3
  <2>3. CASE i > k
    <3>1. i \in k + 1 .. q /\ j \in k + 1 .. q
      BY <1>2, <1>6, <2>0, <2>3
    <3>2. CASE j = 2
      <4>1. i = 1 /\ z[1] = DOT /\ z[2] = DOTDOT
        BY <1>6, <1>8, <2>0, <3>2
      <4> QED BY <3>2, <4>1 DEF DOT, DOTDOT
    <3>3. CASE j > 2
      <4>1. j - 2 \in 1 .. Len(child) /\ z[j] = child[j - 2] /\ child[j - 2] \in 1 .. made
        BY <1>1, <1>7, <3>1, <3>3
      <4>2. CASE i = 1
        BY <1>1, <1>7, <3>1, <4>1, <4>2 DEF DOT
      <4>3. CASE i = 2
        BY <1>1, <1>7, <3>1, <4>1, <4>3 DEF DOTDOT
      <4>4. CASE i > 2
        <5>1. i - 2 \in 1 .. Len(child) /\ z[i] = child[i - 2]
          BY <1>7, <3>1, <4>4
        <5>2. i - 2 < j - 2
          BY <1>6, <2>0
        <5> QED BY Zenon, <1>1, <4>1, <5>1, <5>2 DEF Increasing
      <4> QED BY <1>6, <2>0, <4>2, <4>3, <4>4
    <3> QED BY <1>6, <2>0, <3>2, <3>3
  <2> QED BY <1>2, <1>6, <2>0, <2>1, <2>2, <2>3
<1>10. \A i \in 1 .. Len(z) : z[i] <= made
  <2> SUFFICES ASSUME NEW i \in 1 .. q PROVE z[i] <= made
    BY <1>5
  <2>1. CASE i <= k
    BY <1>2, <1>5, <1>6, <2>1
  <2>2. CASE i > k
    <3>1. i \in k + 1 .. q
      BY <1>2, <1>6, <2>2
    <3>2. CASE i = 1
      BY <1>1, <1>7, <3>1, <3>2 DEF DOT
    <3>3. CASE i = 2
      BY <1>1, <1>7, <3>1, <3>3 DEF DOTDOT
    <3>4. CASE i > 2
      BY <1>1, <1>7, <3>1, <3>4
    <3> QED BY <1>6, <3>2, <3>3, <3>4
  <2> QED BY <1>2, <1>6, <2>1, <2>2
<1>11. \A i \in 1 .. Len(z), j \in 1 .. Len(child) : j >= q - 1 => z[i] < child[j]
  <2> SUFFICES ASSUME NEW i \in 1 .. q, NEW j \in 1 .. Len(child), j >= q - 1
               PROVE  z[i] < child[j]
    BY <1>5
  <2>1. CASE i <= k
    <3>1. i \in 1 .. Len(s) /\ z[i] = s[i] /\ j >= k - 1
      BY <1>1, <1>2, <1>5, <1>6, <2>1
    <3>2. s[i] < child[j]
      BY <3>1 DEF Listed
    <3> QED BY <3>1, <3>2
  <2>2. CASE i > k
    <3>1. i \in k + 1 .. q /\ child[j] \in 1 .. made
      BY <1>1, <1>2, <1>6, <2>2
    <3>2. CASE i = 1
      BY <1>1, <1>7, <3>1, <3>2 DEF DOT
    <3>3. CASE i = 2
      BY <1>1, <1>7, <3>1, <3>3 DEF DOTDOT
    <3>4. CASE i > 2
      <4>1. i - 2 \in 1 .. Len(child) /\ z[i] = child[i - 2]
        BY <1>7, <3>1, <3>4
      <4>2. i - 2 < j
        BY <1>1, <1>6
      <4>3. child[i - 2] < child[j]
        BY Zenon, <1>1, <4>1, <4>2 DEF Increasing
      <4> QED BY <4>1, <4>3
    <3> QED BY <1>6, <3>2, <3>3, <3>4
  <2> QED BY <1>2, <1>6, <2>1, <2>2
<1>12. Missed(child, q, t, z) \subseteq Missed(child, k, t, s)
  <2> SUFFICES ASSUME NEW n \in Missed(child, q, t, z)
               PROVE  n \in Missed(child, k, t, s)
    OBVIOUS
  <2>1. DOMAIN z = 1 .. q /\ DOMAIN s = 1 .. k
    BY <1>2, <1>5
  <2>2. n \in t /\ \A i \in 1 .. q : z[i] # n
    BY <2>1 DEF Missed, ToSet
  <2>3. PICK j \in 1 .. Len(child) : j <= q - 2 /\ child[j] = n
    BY DEF Missed
  <2>4. j <= k - 2
    <3> SUFFICES ASSUME j > k - 2 PROVE FALSE
      BY <1>1, <1>2
    <3>1. j + 2 \in k + 1 .. q /\ j + 2 > 2 /\ (j + 2) - 2 = j
      BY <1>1, <1>2, <1>6, <2>3
    <3>2. z[j + 2] = child[j]
      BY <1>7, <3>1
    <3>3. j + 2 \in 1 .. q
      BY <1>1, <1>2, <3>1
    <3> QED BY <2>2, <2>3, <3>2, <3>3
  <2>5. n \notin ToSet(s)
    <3>1. \A i \in 1 .. k : i \in 1 .. q /\ z[i] = s[i]
      BY <1>2, <1>5, <1>6
    <3> QED BY <2>1, <2>2, <3>1 DEF ToSet
  <2> QED BY <2>2, <2>3, <2>4, <2>5 DEF Missed
<1>13. Cardinality(Missed(child, q, t, z)) <= x
  <2>1. /\ IsFiniteSet(Missed(child, k, t, s))
        /\ Cardinality(Missed(child, k, t, s)) <= x
    BY <1>2, MissedFinite DEF Listed
  <2>2. /\ Cardinality(Missed(child, q, t, z)) \in Nat
        /\ Cardinality(Missed(child, k, t, s)) \in Nat
        /\ Cardinality(Missed(child, q, t, z)) <= Cardinality(Missed(child, k, t, s))
    BY <1>12, <2>1, FewerMissed
  <2> QED BY <1>2, <2>1, <2>2
<1>14. l < count => q >= 2 /\ \A n \in t : \E j \in 1 .. Len(child) : j <= q - 2 /\ child[j] = n
  <2> SUFFICES ASSUME l < count
               PROVE  q >= 2 /\ \A n \in t : \E j \in 1 .. Len(child) : j <= q - 2 /\ child[j] = n
    OBVIOUS
  <2>1. q >= Len(child) + 2
    BY <1>4
  <2>2. DOMAIN child = 1 .. Len(child)
    BY <1>1
  <2>3. \A n \in t : \E j \in 1 .. Len(child) : child[j] = n
    BY <2>2 DEF Listed, ToSet
  <2>4. \A j \in 1 .. Len(child) : j <= q - 2
    BY <1>1, <1>6, <2>1
  <2> QED BY <1>1, <1>6, <2>1, <2>3, <2>4
<1>15. Listed(child, made, q, z, t, x, l < count)
  <2>1. t \subseteq ToSet(child)
    BY DEF Listed
  <2> QED BY <1>2, <1>5, <1>6, <1>8, <1>9, <1>10, <1>11, <1>13, <1>14, <2>1 DEF Listed
<1>16. q = k + Len(got)
  BY <1>3 DEF q
<1> QED BY <1>3, <1>15, <1>16 DEF got, z

\* lseek to the start: a listing that has not begun.
LEMMA RewindKeeps ==
  ASSUME NEW m, NEW c, Ordered(c, m)
  PROVE  \A t \in SUBSET ToSet(c) : Listed(c, m, 0, << >>, t, 0, FALSE)
<1> SUFFICES ASSUME NEW t \in SUBSET ToSet(c) PROVE Listed(c, m, 0, << >>, t, 0, FALSE)
  BY Zenon
<1>1. c \in Seq(1 .. m) /\ m \in Nat
  BY DEF Ordered
<1>2. t \subseteq 1 .. m
  BY <1>1 DEF ToSet
<1>3. IsFiniteSet(t)
  <2>1. IsFiniteSet(1 .. m)
    BY <1>1, FS_Interval
  <2> QED BY Zenon, <1>2, <2>1, FS_Subset
<1>4. Missed(c, 0, t, << >>) = {}
  BY <1>1 DEF Missed
<1>5. Cardinality(Missed(c, 0, t, << >>)) <= 0
  BY <1>4, FS_EmptySet
<1>6. << >> \in Seq(Int) /\ Len(<< >>) = 0
  OBVIOUS
<1> QED BY <1>3, <1>5, <1>6 DEF Listed, Increasing

LEMMA InitInv ==
  ASSUME Init
  PROVE  IInv
<1>1. Ordered(child, made)
  BY DEF Init, Ordered, Increasing
<1>2. ASSUME NEW f \in Dir
      PROVE  Listed(child, made, f_offset[f], seen[f], there[f], shifts[f], ended[f])
  <2>1. Listed(child, made, 0, << >>, {}, 0, FALSE)
    BY Zenon, <1>1, RewindKeeps
  <2> QED BY Zenon, <2>1 DEF Init
<1> QED BY Zenon, <1>1, <1>2 DEF Init, IInv

LEMMA Step ==
  ASSUME DirAssumption, IInv, [Next]_vars
  PROVE  IInv'
<1>0. Ordered(child, made)
  BY DEF IInv
<1>1. CASE ramfs_add_node
  <2>1. child' = Append(child, made + 1) /\ made' = made + 1
    BY <1>1 DEF ramfs_add_node, Linked
  <2>2. UNCHANGED <<f_offset, seen, there, shifts, ended>>
    BY <1>1 DEF ramfs_add_node
  <2>3. Ordered(child', made')
    <3>1. Listed(child, made, 0, << >>, {}, 0, FALSE)
      BY Zenon, <1>0, RewindKeeps
    <3> QED BY Zenon, <1>0, <2>1, <3>1, AddKeeps
  <2>4. ASSUME NEW f \in Dir
        PROVE  Listed(child', made', f_offset[f], seen[f], there[f], shifts[f], ended[f])
    <3>1. Listed(child, made, f_offset[f], seen[f], there[f], shifts[f], ended[f])
      BY DEF IInv
    <3> QED BY <1>0, <2>1, <3>1, AddKeeps
  <2> QED BY <2>2, <2>3, <2>4 DEF IInv
<1>2. ASSUME NEW n \in 1 .. MaxEntries, ramfs_remove_node(n) PROVE IInv'
  <2>1. PICK p \in DOMAIN child :
          /\ child[p] = n
          /\ child' = RemoveAt(child, p)
          /\ there' = [f \in Dir |-> there[f] \ {n}]
          /\ shifts' = [f \in Dir |-> shifts[f] + (IF Past(p, f_offset[f]) THEN 1 ELSE 0)]
          /\ UNCHANGED <<made, f_offset, seen, ended>>
    BY <1>2 DEF ramfs_remove_node
  <2>2. p \in 1 .. Len(child)
    BY <1>0 DEF Ordered
  <2>3. Ordered(RemoveAt(child, p), made)
    BY <1>0, <2>2, RemoveKeeps
  <2>4. ASSUME NEW f \in Dir
        PROVE  Listed(RemoveAt(child, p), made, f_offset[f], seen[f], there'[f], shifts'[f], ended[f])
    <3>1. Listed(child, made, f_offset[f], seen[f], there[f], shifts[f], ended[f])
      BY DEF IInv
    <3>2. /\ there'[f] = there[f] \ {child[p]}
          /\ shifts'[f] = shifts[f] + (IF Past(p, f_offset[f]) THEN 1 ELSE 0)
      BY <2>1
    <3>3. Listed(RemoveAt(child, p), made, f_offset[f], seen[f], there[f] \ {child[p]},
                 shifts[f] + (IF Past(p, f_offset[f]) THEN 1 ELSE 0), ended[f])
      <4>1. \A k, s, t, x, e : Listed(child, made, k, s, t, x, e) =>
              Listed(RemoveAt(child, p), made, k, s, t \ {child[p]},
                     x + (IF Past(p, k) THEN 1 ELSE 0), e)
        BY Zenon, <1>0, <2>2, RemoveKeeps
      <4> QED BY Zenon, <3>1, <4>1
    <3> QED BY <3>2, <3>3
  <2> QED BY Zenon, <2>1, <2>3, <2>4 DEF IInv
<1>3. ASSUME NEW g \in Dir, Rewind(g) PROVE IInv'
  <2>1. child' = child /\ made' = made
    BY <1>3 DEF Rewind
  <2>2. ASSUME NEW f \in Dir
        PROVE  Listed(child, made, f_offset'[f], seen'[f], there'[f], shifts'[f], ended'[f])
    <3>1. CASE f = g
      <4>1. Listed(child, made, 0, << >>, ToSet(child), 0, FALSE)
        BY Zenon, <1>0, RewindKeeps
      <4> QED BY Zenon, <1>3, <3>1, <4>1 DEF Rewind, IInv
    <3>2. CASE f # g
      <4>1. Listed(child, made, f_offset[f], seen[f], there[f], shifts[f], ended[f])
        BY DEF IInv
      <4> QED BY <1>3, <3>2, <4>1 DEF Rewind, IInv
    <3> QED BY <3>1, <3>2
  <2>3. /\ f_offset' \in [Dir -> Nat] /\ DOMAIN seen' = Dir /\ DOMAIN there' = Dir
        /\ DOMAIN shifts' = Dir /\ DOMAIN ended' = Dir
    BY <1>3 DEF Rewind, IInv
  <2> QED BY <1>0, <2>1, <2>2, <2>3 DEF IInv
<1>4. ASSUME NEW g \in Dir, NEW count \in Counts, syscall_handler_getdents(g, count) PROVE IInv'
  <2> DEFINE got == Entries(f_offset[g], count)
  <2>1. count \in Nat /\ count > 0
    BY <1>4 DEF DirAssumption, syscall_handler_getdents
  <2>2. /\ f_offset' = [f_offset EXCEPT ![g] = @ + Len(got)]
        /\ seen' = [seen EXCEPT ![g] = @ \o got]
        /\ ended' = [ended EXCEPT ![g] = Len(got) < count]
        /\ UNCHANGED <<child, made, there, shifts>>
    BY <1>4 DEF syscall_handler_getdents
  <2>3. Listed(child, made, f_offset[g], seen[g], there[g], shifts[g], ended[g])
    BY DEF IInv
  <2>4. Listed(child, made, f_offset[g] + Len(got), seen[g] \o got, there[g], shifts[g],
               Len(got) < count)
    BY <1>0, <2>1, <2>3, GetKeeps
  <2>5. f_offset[g] + Len(got) \in Nat
    BY <2>4 DEF Listed
  <2> HIDE DEF got
  <2>6. ASSUME NEW f \in Dir
        PROVE  Listed(child, made, f_offset'[f], seen'[f], there[f], shifts[f], ended'[f])
    <3>1. CASE f = g
      <4>1. /\ f_offset'[f] = f_offset[g] + Len(got) /\ seen'[f] = seen[g] \o got
            /\ ended'[f] = (Len(got) < count)
        BY <2>2, <3>1 DEF IInv
      <4> QED BY <2>4, <3>1, <4>1
    <3>2. CASE f # g
      <4>1. Listed(child, made, f_offset[f], seen[f], there[f], shifts[f], ended[f])
        BY DEF IInv
      <4>2. f_offset'[f] = f_offset[f] /\ seen'[f] = seen[f] /\ ended'[f] = ended[f]
        BY <2>2, <3>2 DEF IInv
      <4> QED BY <4>1, <4>2
    <3> QED BY <3>1, <3>2
  <2>7. f_offset' \in [Dir -> Nat] /\ DOMAIN seen' = Dir /\ DOMAIN ended' = Dir
    BY <2>2, <2>5 DEF IInv
  <2> QED BY <1>0, <2>2, <2>6, <2>7 DEF IInv
<1>5. CASE UNCHANGED vars
  BY <1>5 DEF vars, IInv
<1> QED BY <1>1, <1>2, <1>3, <1>4, <1>5 DEF Next

LEMMA IInvIsListingExact ==
  ASSUME IInv
  PROVE  ListingExact
<1> SUFFICES ASSUME NEW f \in Dir
             PROVE  /\ \A i, j \in DOMAIN seen[f] : i < j => seen[f][i] < seen[f][j]
                    /\ ended[f] => /\ Cardinality(there[f] \ ToSet(seen[f])) <= shifts[f]
                                   /\ {DOT, DOTDOT} \subseteq ToSet(seen[f])
  BY DEF ListingExact
<1> DEFINE s == seen[f]
           k == f_offset[f]
           t == there[f]
<1>1. Listed(child, made, k, s, t, shifts[f], ended[f])
  BY DEF IInv
<1> HIDE DEF s, k, t
<1>2. DOMAIN s = 1 .. k /\ Len(s) = k /\ k \in Nat
  BY <1>1 DEF Listed
<1>3. \A i, j \in DOMAIN s : i < j => s[i] < s[j]
  BY <1>1, <1>2 DEF Listed, Increasing
<1>4. ASSUME ended[f]
      PROVE  Cardinality(t \ ToSet(s)) <= shifts[f] /\ {DOT, DOTDOT} \subseteq ToSet(s)
  <2>1. k >= 2 /\ \A n \in t : \E j \in 1 .. Len(child) : j <= k - 2 /\ child[j] = n
    BY <1>1, <1>4 DEF Listed
  <2>2. t \ ToSet(s) = Missed(child, k, t, s)
    BY <2>1 DEF Missed
  <2>3. s[1] = DOT /\ s[2] = DOTDOT /\ 1 \in DOMAIN s /\ 2 \in DOMAIN s
    BY <1>1, <1>2, <2>1 DEF Listed
  <2>4. {DOT, DOTDOT} \subseteq ToSet(s)
    BY <2>3 DEF ToSet
  <2> QED BY Zenon, <1>1, <2>2, <2>4 DEF Listed
<1> QED BY <1>3, <1>4 DEF s, t

\* For any number of entries and of files open on the directory, and whatever
\* is made and removed between the calls of getdents: ramfs_readdir lists
\* nothing twice, and a listing that has ended lacks at most one entry for each
\* that was removed behind its position.
THEOREM ListsOnce == ASSUME DirAssumption PROVE Spec => []ListingExact
<1>1. Init => IInv
  BY InitInv
<1>2. IInv /\ [Next]_vars => IInv'
  BY Step
<1>3. IInv => ListingExact
  BY IInvIsListingExact
<1> QED BY <1>1, <1>2, <1>3, PTL DEF Spec
=============================================================================
