--------------------------- MODULE UserMemoryProofs --------------------------
(***************************************************************************)
(* Proofs about UserMemory for any page and partition size and any layout, *)
(* for programs that never move the break below where it started.          *)
(*                                                                         *)
(* The argument is the one the comment at init_prog_brk hints at: the      *)
(* break plus what the pool has left never goes past HeapStart (it is      *)
(* equal to it until the break is first lowered), so as long as the pool   *)
(* has pages a request either stays below HeapStart, and needs no          *)
(* partition, or empties the pool.                                         *)
(***************************************************************************)
EXTENDS UserMemory, FiniteSetTheorems, TLAPS

BrkInv ==
  /\ prog_brk \in Nat /\ prog_brk <= MaxBrk
  /\ used \in 0 .. PoolSize
  /\ HeapStart - PoolSize <= PageUp(prog_brk)
  /\ Avail # 0 => PageUp(prog_brk) + Avail <= HeapStart
  /\ \A c \in call : /\ c \in [new : LowBrk .. MaxBrk, va : Nat, size : Nat, left : Nat, sug : Nat]
                     /\ PageUp(prog_brk) <= c.va
  /\ OutsidePoolOnlyWhenEmpty

------------------------------------------------------------------------------
\* Division of a number written as quotient and remainder.
LEMMA DivUnique ==
  ASSUME NEW P \in Nat \ {0}, NEW q \in Nat, NEW r \in 0 .. P - 1
  PROVE  (q * P + r) \div P = q
BY Z3T(20)

LEMMA DivBounds ==
  ASSUME NEW P \in Nat \ {0}, NEW a \in Nat
  PROVE  a \div P \in Nat /\ (a \div P) * P <= a /\ a < (a \div P) * P + P
BY Z3T(20)

LEMMA DivMono ==
  ASSUME NEW P \in Nat \ {0}, NEW a \in Nat, NEW b \in Nat, a <= b
  PROVE  a \div P <= b \div P
BY Z3T(20)

LEMMA Multiple ==
  ASSUME NEW P \in Nat \ {0}, NEW a \in Nat, a % P = 0
  PROVE  \E q \in Nat : a = q * P
BY Z3T(20)

\* PAGE_UP is monotone, and a whole number of pages is its own PAGE_UP.
LEMMA PageUpFacts ==
  ASSUME NEW a \in Nat
  PROVE  /\ PageUp(a) \in Nat
         /\ \A b \in Nat : a <= b => PageUp(a) <= PageUp(b)
         /\ PageUp(a * PageSize) = a
<1>0. PageSize \in Nat \ {0}
  BY LayoutAssumption
<1>1. ASSUME NEW b \in Nat, a <= b PROVE PageUp(a) <= PageUp(b)
  BY <1>0, <1>1, DivMono DEF PageUp
<1>2. PageUp(a * PageSize) = a
  <2>1. PageSize - 1 \in 0 .. PageSize - 1
    BY <1>0
  <2>2. (a * PageSize + (PageSize - 1)) \div PageSize = a
    BY <1>0, <2>1, DivUnique
  <2>3. a * PageSize \in Nat
    BY <1>0
  <2> QED
    BY <1>0, <2>2, <2>3 DEF PageUp
<1>3. PageUp(a) \in Nat
  BY <1>0, DivBounds DEF PageUp
<1> QED
  BY <1>1, <1>2, <1>3

\* PARTITION_UP rounds up; within one partition below HeapStart it gives
\* HeapStart.
LEMMA PartUpFacts ==
  ASSUME NEW a \in Nat
  PROVE  /\ PartUp(a) \in Nat /\ a <= PartUp(a)
         /\ HeapStart - PartPages < a /\ a <= HeapStart => PartUp(a) = HeapStart
<1>0. PartPages \in Nat \ {0} /\ HeapStart \in Nat
  BY LayoutAssumption
<1>1. /\ (a + PartPages - 1) \div PartPages \in Nat
      /\ a + PartPages - 1 < ((a + PartPages - 1) \div PartPages) * PartPages + PartPages
  BY <1>0, DivBounds
<1>2. PartUp(a) \in Nat /\ a <= PartUp(a)
  BY <1>0, <1>1, Z3T(20) DEF PartUp
<1>3. ASSUME HeapStart - PartPages < a, a <= HeapStart PROVE PartUp(a) = HeapStart
  <2>1. PICK q \in Nat : HeapStart = q * PartPages
    BY <1>0, LayoutAssumption, Multiple
  <2>2. PartPages - 1 - (HeapStart - a) \in 0 .. PartPages - 1
    BY <1>0, <1>3
  <2>3. a + PartPages - 1 = q * PartPages + (PartPages - 1 - (HeapStart - a))
    BY <1>0, <2>1
  <2>4. (a + PartPages - 1) \div PartPages = q
    BY <1>0, <2>2, <2>3, DivUnique
  <2> QED
    BY <2>1, <2>4 DEF PartUp
<1> QED
  BY <1>2, <1>3

------------------------------------------------------------------------------
LEMMA InitBrkInv == Init => BrkInv
<1> SUFFICES ASSUME Init PROVE BrkInv
  OBVIOUS
<1>1. HeapStart - PoolSize \in Nat
  BY LayoutAssumption
<1>2. PageUp(prog_brk) = HeapStart - PoolSize
  BY <1>1, PageUpFacts DEF Init, InitialBrk
<1>3. prog_brk \in Nat /\ prog_brk <= MaxBrk
  BY <1>1, LayoutAssumption DEF Init, InitialBrk
<1> QED
  BY <1>2, <1>3, LayoutAssumption DEF Init, BrkInv, Avail, OutsidePoolOnlyWhenEmpty

\* What a brk call takes from the pool, and why it then needs no partition
\* unless the pool is empty.
LEMMA BrkStep ==
  ASSUME BrkInv, LowBrk >= InitialBrk, NEW new \in LowBrk .. MaxBrk, sys_brk_handler(new)
  PROVE  BrkInv'
<1> DEFINE an == PageUp(new)
           ao == PageUp(prog_brk)
           n  == IF an - ao <= Avail THEN an - ao ELSE Avail
           pn == PartUp(an)
           po == PartUp(IF an - ao > Avail THEN ao + n ELSE ao)
<1>0. /\ new \in Nat /\ an \in Nat /\ ao \in Nat /\ Avail \in Nat /\ used \in Nat
      /\ HeapStart \in Nat /\ PartPages \in Nat \ {0} /\ PoolSize \in Nat /\ PoolSize < PartPages
      /\ HeapStart - PoolSize \in Nat
  BY LayoutAssumption, PageUpFacts DEF BrkInv, Avail
<1>1. HeapStart - PoolSize <= an
  <2>1. InitialBrk \in Nat /\ PageUp(InitialBrk) = HeapStart - PoolSize
    BY <1>0, PageUpFacts, LayoutAssumption DEF InitialBrk
  <2>2. InitialBrk <= new
    BY <2>1, LayoutAssumption
  <2> QED
    BY <1>0, <2>1, <2>2, PageUpFacts
<1>2. HeapStart - PoolSize <= ao /\ (Avail # 0 => ao + Avail <= HeapStart)
  BY DEF BrkInv
<1>3. CASE an <= ao /\ set_prog_brk(new) /\ UNCHANGED <<used, map, call>>
  <2>1. call' = {}
    BY <1>3 DEF sys_brk_handler
  <2> QED
    BY <1>0, <1>1, <1>2, <1>3, <2>1
       DEF BrkInv, set_prog_brk, Avail, OutsidePoolOnlyWhenEmpty
<1>4. CASE /\ an > ao /\ map_brk_from_pool(ao, n)
           /\ IF pn > po
              THEN /\ call' = {[new |-> new, va |-> po, size |-> pn - po,
                                left |-> (pn - po) \div PartPages,
                                sug |-> (pn - po) \div PartPages]}
                   /\ UNCHANGED <<prog_brk, lowered>>
              ELSE set_prog_brk(new) /\ UNCHANGED call
  <2>1. used' = used + n /\ n \in Nat /\ n <= Avail /\ Avail' = Avail - n /\ used' \in 0 .. PoolSize
    BY <1>0, <1>4 DEF map_brk_from_pool, Avail
  <2>2. CASE an - ao <= Avail
    <3>1. n = an - ao /\ Avail # 0 /\ an <= HeapStart
      BY <1>0, <1>2, <1>4, <2>2
    <3>2. po = HeapStart /\ pn = HeapStart
      BY <1>0, <1>1, <1>2, <1>4, <2>2, <3>1, PartUpFacts
    <3>3. set_prog_brk(new) /\ call' = call
      BY <1>0, <1>4, <3>2
    <3>4. call = {}
      BY DEF sys_brk_handler
    <3> HIDE DEF an, ao, n, pn, po
    <3>5. prog_brk' = new /\ call' = {} /\ Avail' = Avail - (an - ao)
      BY <2>1, <3>1, <3>3, <3>4 DEF set_prog_brk
    <3>6. Avail' # 0 => an + Avail' <= HeapStart
      BY <1>0, <1>2, <3>1, <3>5
    <3> QED
      BY <1>0, <1>1, <2>1, <3>5, <3>6 DEF BrkInv, OutsidePoolOnlyWhenEmpty, an
  <2>3. CASE an - ao > Avail
    <3>1. n = Avail /\ Avail' = 0 /\ po = PartUp(ao + n)
      BY <1>0, <2>1, <2>3
    <3>2. po \in Nat /\ ao <= po /\ pn \in Nat
      BY <1>0, <2>1, <3>1, PartUpFacts
    <3>3. CASE pn > po
      <4> DEFINE c == [new |-> new, va |-> po, size |-> pn - po,
                       left |-> (pn - po) \div PartPages,
                       sug |-> (pn - po) \div PartPages]
      <4>1. call' = {c} /\ prog_brk' = prog_brk
        BY <1>4, <3>3
      <4>2. (pn - po) \div PartPages \in Nat /\ pn - po \in Nat
        BY <1>0, <3>2, <3>3, DivBounds
      <4> HIDE DEF an, ao, n, pn, po
      <4>3. c \in [new : LowBrk .. MaxBrk, va : Nat, size : Nat, left : Nat, sug : Nat] /\ c.va = po
        BY <3>2, <4>2
      <4> HIDE DEF c
      <4> QED
        BY <1>0, <1>2, <2>1, <3>1, <3>2, <4>1, <4>3 DEF BrkInv, OutsidePoolOnlyWhenEmpty, ao
    <3>4. CASE ~(pn > po)
      <4>1. set_prog_brk(new) /\ call' = {}
        BY <1>4, <3>4 DEF sys_brk_handler
      <4> QED
        BY <1>0, <1>1, <2>1, <3>1, <4>1 DEF BrkInv, set_prog_brk, OutsidePoolOnlyWhenEmpty
    <3> QED
      BY <3>3, <3>4
  <2> QED
    BY <1>0, <2>2, <2>3
<1> QED
  BY <1>3, <1>4 DEF sys_brk_handler

\* A grant, split or whole, maps pages from c.va on.
LEMMA GrantStep ==
  ASSUME BrkInv, LowBrk >= InitialBrk, mem_alloc_grant PROVE BrkInv'
<1>1. PICK c \in call : \E base \in Runs(c.sug) : alloc_map_brk_outside_pool(c, base)
  BY DEF mem_alloc_grant
<1>2. /\ c \in [new : LowBrk .. MaxBrk, va : Nat, size : Nat, left : Nat, sug : Nat]
      /\ PageUp(prog_brk) <= c.va /\ Avail = 0 /\ used' = used
      /\ PageUp(prog_brk) \in Nat /\ PartPages \in Nat /\ Avail' = 0
  BY <1>1, LayoutAssumption, PageUpFacts
     DEF BrkInv, OutsidePoolOnlyWhenEmpty, alloc_map_brk_outside_pool, Avail
<1>3. CASE c.left - c.sug > 0
  <2> DEFINE d == [c EXCEPT !.va = @ + c.sug * PartPages, !.left = c.left - c.sug,
                            !.sug = c.left - c.sug]
  <2>1. call' = {d} /\ prog_brk' = prog_brk
    BY <1>1, <1>3 DEF alloc_map_brk_outside_pool
  <2>2. c.sug * PartPages \in Nat /\ c.va + c.sug * PartPages \in Nat /\ c.left - c.sug \in Nat
    BY <1>2, <1>3
  <2>3. /\ d \in [new : LowBrk .. MaxBrk, va : Nat, size : Nat, left : Nat, sug : Nat]
        /\ d.va = c.va + c.sug * PartPages
    BY Zenon, <1>2, <2>2
  <2> HIDE DEF d
  <2>4. PageUp(prog_brk) <= d.va
    BY <1>2, <2>2, <2>3
  <2> QED
    BY <1>2, <2>1, <2>3, <2>4 DEF BrkInv, OutsidePoolOnlyWhenEmpty
<1>4. CASE ~(c.left - c.sug > 0)
  <2>1. call' = {} /\ prog_brk' = c.new /\ c.new \in LowBrk .. MaxBrk
    BY <1>1, <1>2, <1>4 DEF alloc_map_brk_outside_pool, set_prog_brk
  <2>2. InitialBrk \in Nat /\ PageUp(InitialBrk) = HeapStart - PoolSize
    BY PageUpFacts, LayoutAssumption DEF InitialBrk
  <2>3. InitialBrk <= c.new /\ c.new \in Nat
    BY <2>1, <2>2, LayoutAssumption
  <2>4. HeapStart - PoolSize <= PageUp(c.new)
    BY <2>2, <2>3, PageUpFacts
  <2> QED
    BY <1>2, <2>1, <2>3, <2>4, LayoutAssumption DEF BrkInv, OutsidePoolOnlyWhenEmpty
<1> QED
  BY <1>3, <1>4

LEMMA RefuseStep == ASSUME BrkInv, mem_alloc_refuse PROVE BrkInv'
<1>0. PICK c \in call : \E s \in 1 .. c.sug : call' = {[c EXCEPT !.sug = s]}
  BY DEF mem_alloc_refuse
<1>1. PICK s \in 1 .. c.sug : call' = {[c EXCEPT !.sug = s]}
  BY <1>0
<1>2. UNCHANGED <<prog_brk, used>>
  BY DEF mem_alloc_refuse
<1>3. c \in [new : LowBrk .. MaxBrk, va : Nat, size : Nat, left : Nat, sug : Nat]
  BY DEF BrkInv
<1>4. s \in Nat
  BY <1>3
<1> DEFINE d == [c EXCEPT !.sug = s]
<1>5. d \in [new : LowBrk .. MaxBrk, va : Nat, size : Nat, left : Nat, sug : Nat] /\ d.va = c.va
  BY <1>3, <1>4
<1>6. call' = {d}
  BY <1>1
<1> HIDE DEF d
<1> QED
  BY <1>2, <1>5, <1>6 DEF BrkInv, OutsidePoolOnlyWhenEmpty, Avail

LEMMA NextBrkInv == LowBrk >= InitialBrk /\ BrkInv /\ [Next]_vars => BrkInv'
<1> SUFFICES ASSUME LowBrk >= InitialBrk, BrkInv, [Next]_vars PROVE BrkInv'
  OBVIOUS
<1>1. CASE UNCHANGED vars
  BY <1>1 DEF vars, BrkInv, Avail, OutsidePoolOnlyWhenEmpty
<1>2. CASE OtherEnclave
  BY <1>2 DEF OtherEnclave, BrkInv, Avail, OutsidePoolOnlyWhenEmpty
<1> QED
  BY <1>1, <1>2, BrkStep, GrantStep, RefuseStep DEF Next

\* A virtual page below the break is one of the modelled pages.
LEMMA BelowBrk ==
  ASSUME BrkInv
  PROVE  \A v \in HeapStart - PoolSize .. PageUp(prog_brk) - 1 : v \in VPage
<1>1. /\ PageUp(prog_brk) \in Nat /\ PageUp(MaxBrk) \in Nat
      /\ PageUp(prog_brk) <= PageUp(MaxBrk)
      /\ HeapStart - PoolSize \in Nat
  BY PageUpFacts, LayoutAssumption DEF BrkInv
<1>2. PartUp(PageUp(MaxBrk)) \in Nat /\ PageUp(MaxBrk) <= PartUp(PageUp(MaxBrk))
  BY <1>1, PartUpFacts
<1> QED
  BY <1>1, <1>2 DEF VPage

------------------------------------------------------------------------------
\* The SM is asked for memory only once the pool is out of pages.
THEOREM PoolFirst ==
  ASSUME LowBrk >= InitialBrk
  PROVE  Spec => []OutsidePoolOnlyWhenEmpty
<1>1. BrkInv => OutsidePoolOnlyWhenEmpty
  BY DEF BrkInv
<1>2. BrkInv /\ [Next]_vars => BrkInv'
  BY NextBrkInv
<1> QED
  BY <1>1, <1>2, InitBrkInv, PTL DEF Spec

\* No step of a brk call remaps a page below the break.
THEOREM PagesKept ==
  ASSUME LowBrk >= InitialBrk
  PROVE  Spec => KeepsPages
<1>1. BrkInv /\ [Next]_vars =>
        [\A v \in HeapStart - PoolSize .. PageUp(prog_brk) - 1 : map'[v] = map[v]]_vars
  <2> SUFFICES ASSUME BrkInv, Next,
                      NEW v \in HeapStart - PoolSize .. PageUp(prog_brk) - 1
               PROVE  map'[v] = map[v]
    OBVIOUS
  <2>1. v \in VPage /\ v \in Int /\ PageUp(prog_brk) \in Nat /\ v < PageUp(prog_brk)
    BY BelowBrk, PageUpFacts, LayoutAssumption DEF BrkInv
  <2>2. ASSUME NEW va \in Nat, NEW pa, NEW n, map' = MapRange(map, va, pa, n),
               PageUp(prog_brk) <= va
        PROVE  map'[v] = map[v]
    BY <2>1, <2>2 DEF MapRange
  <2>3. ASSUME NEW new \in LowBrk .. MaxBrk, sys_brk_handler(new) PROVE map'[v] = map[v]
    BY <2>1, <2>2, <2>3 DEF sys_brk_handler, map_brk_from_pool
  <2>4. CASE mem_alloc_grant
    BY <2>2, <2>4 DEF mem_alloc_grant, alloc_map_brk_outside_pool, BrkInv
  <2> QED
    BY <2>3, <2>4 DEF Next, mem_alloc_refuse, OtherEnclave
<1>2. BrkInv /\ [Next]_vars => BrkInv'
  BY NextBrkInv
<1> QED
  BY <1>1, <1>2, InitBrkInv, PTL DEF Spec, KeepsPages

------------------------------------------------------------------------------
(* NoAlias and HeapBacked.  A call maps more than it was granted: the loop *)
(* runs over all of its partitions for every grant, so pages above what is *)
(* granted so far may lead anywhere.  What is sound lies below Top: the    *)
(* end of the partition the break is in or, while a call waits, the first  *)
(* page it has no grant for yet.  All that is above is mapped again before *)
(* the break gets there.                                                   *)

Lo == HeapStart - PoolSize

\* The mapped pages below t are the enclave's, each at one address.
Apart(t) ==
  \A v \in Lo .. t - 1 :
    Mapped(v) => /\ Own(map[v])
                 /\ \A w \in Lo .. v - 1 : map[w] # map[v]

\* Every page below t is mapped, to a page of the enclave.
Backed(t) == \A v \in Lo .. t - 1 : Mapped(v) /\ Own(map[v])

\* The partitions granted are those between HeapStart and t.
Granted(t) == Cardinality(owned) * PartPages = t - HeapStart

\* What a waiting call still asks for ends where its break's partition ends.
CallOK(c) ==
  /\ HeapStart <= c.va
  /\ c.sug <= c.left
  /\ c.va + c.left * PartPages = PartUp(PageUp(c.new))
  /\ c.left * PartPages <= c.size

\* The heap between calls, when the break is in page e - 1, ...
Idle(e) ==
  /\ Apart(PartUp(e))
  /\ ~lowered => /\ Backed(IF e <= HeapStart THEN e ELSE PartUp(e))
                 /\ used = (IF e < HeapStart THEN e ELSE HeapStart) - Lo
                 /\ Granted(PartUp(e))

\* ... and while call c waits for the SM.
Waiting(c) ==
  /\ CallOK(c)
  /\ Apart(c.va)
  /\ ~lowered => Backed(c.va) /\ used = PoolSize /\ Granted(c.va)

HeapInv ==
  /\ BrkInv /\ TypeOK
  /\ call = {} => Idle(PageUp(prog_brk))
  /\ \A c \in call : Waiting(c)

------------------------------------------------------------------------------
LEMMA TimesMono ==
  ASSUME NEW P \in Nat, NEW a \in Nat, NEW b \in Nat, a <= b
  PROVE  a * P <= b * P
BY Z3T(20)

LEMMA TimesLess ==
  ASSUME NEW P \in Nat \ {0}, NEW a \in Nat, NEW b \in Nat, a * P < b * P
  PROVE  a < b
BY Z3T(20)

\* Page d of n partitions in a row is in one of them.
LEMMA InRun ==
  ASSUME NEW P \in Nat \ {0}, NEW b \in Nat, NEW n \in Nat, NEW d \in Nat, d < n * P
  PROVE  (b * P + d) \div P \in b .. b + n - 1
<1> DEFINE q == d \div P
<1>1. q \in Nat /\ q * P <= d /\ d < q * P + P
  BY DivBounds
<1>2. d - q * P \in 0 .. P - 1
  BY <1>1
<1>3. b * P + d = (b + q) * P + (d - q * P)
  BY <1>1, Z3T(20)
<1> HIDE DEF q
<1>4. (b * P + d) \div P = b + q
  BY <1>1, <1>2, <1>3, DivUnique
<1>5. q * P < n * P
  <2>1. q * P \in Nat /\ n * P \in Nat
    BY <1>1
  <2> QED BY <1>1, <2>1
<1>6. q < n
  BY <1>1, <1>5, TimesLess
<1> QED BY <1>1, <1>4, <1>6

\* PARTITION_UP is monotone, and two of its values are whole partitions apart.
LEMMA PartUpMono ==
  ASSUME NEW a \in Nat, NEW b \in Nat, a <= b
  PROVE  PartUp(a) <= PartUp(b)
<1>0. PartPages \in Nat \ {0}
  BY LayoutAssumption
<1>1. a + PartPages - 1 \in Nat /\ b + PartPages - 1 \in Nat
  BY <1>0
<1>2. (a + PartPages - 1) \div PartPages <= (b + PartPages - 1) \div PartPages
  BY <1>0, <1>1, DivMono
<1>3. (a + PartPages - 1) \div PartPages \in Nat /\ (b + PartPages - 1) \div PartPages \in Nat
  BY <1>0, <1>1, DivBounds
<1> QED BY <1>0, <1>2, <1>3, TimesMono DEF PartUp

LEMMA PartGap ==
  ASSUME NEW a \in Nat, NEW b \in Nat, PartUp(a) < PartUp(b)
  PROVE  LET n == (PartUp(b) - PartUp(a)) \div PartPages
         IN n \in Nat \ {0} /\ n * PartPages = PartUp(b) - PartUp(a) /\ n <= PartUp(b)
<1>0. PartPages \in Nat \ {0}
  BY LayoutAssumption
<1>1. PICK p \in Nat : PartUp(a) = p * PartPages
  <2>1. a + PartPages - 1 \in Nat
    BY <1>0
  <2> QED BY Zenon, <1>0, <2>1, DivBounds DEF PartUp
<1>2. PICK q \in Nat : PartUp(b) = q * PartPages
  <2>1. b + PartPages - 1 \in Nat
    BY <1>0
  <2> QED BY Zenon, <1>0, <2>1, DivBounds DEF PartUp
<1>3. p < q
  BY <1>0, <1>1, <1>2, TimesLess
<1>4. PartUp(b) - PartUp(a) = (q - p) * PartPages + 0
  BY <1>0, <1>1, <1>2, Z3T(20)
<1>5. (PartUp(b) - PartUp(a)) \div PartPages = q - p
  <2>1. q - p \in Nat /\ 0 \in 0 .. PartPages - 1
    BY <1>0, <1>3
  <2> QED BY <1>0, <1>4, <2>1, DivUnique
<1>6. q <= q * PartPages
  <2>1. 1 \in Nat /\ 1 <= PartPages
    BY <1>0
  <2> QED BY <1>0, <2>1, Z3T(20)
<1> QED BY <1>0, <1>2, <1>3, <1>4, <1>5, <1>6

------------------------------------------------------------------------------
LEMMA Layout ==
  /\ PartPages \in Nat \ {0} /\ HeapStart \in Nat /\ PoolSize \in Nat /\ NParts \in Nat
  /\ MaxBrk \in Nat /\ LowBrk \in Nat
  /\ Lo \in Nat /\ Lo <= HeapStart /\ HeapStart - PartPages < Lo /\ HeapStart - Lo = PoolSize
  /\ PoolSize < PartPages
BY LayoutAssumption DEF Lo

\* The pages of a break, of its partition, and the modelled pages.
LEMMA BreakPages ==
  ASSUME NEW b \in Nat, b <= MaxBrk
  PROVE  /\ PageUp(b) \in Nat /\ PartUp(PageUp(b)) \in Nat /\ PageUp(b) <= PartUp(PageUp(b))
         /\ PartUp(PageUp(MaxBrk)) \in Nat /\ PartUp(PageUp(b)) <= PartUp(PageUp(MaxBrk))
<1>1. PageUp(b) \in Nat /\ PageUp(MaxBrk) \in Nat /\ PageUp(b) <= PageUp(MaxBrk)
  BY Layout, PageUpFacts
<1> QED BY <1>1, PartUpFacts, PartUpMono

LEMMA NoPageBounds ==
  /\ NoPage \in Nat /\ (NParts + 1) * PartPages <= NoPage /\ PartPages <= NoPage
  /\ \A pa \in Nat, v \in VPage : pa <= (NParts + 1) * PartPages => pa + v <= NoPage
<1>1. PartUp(PageUp(MaxBrk)) \in Nat
  BY Layout, BreakPages
<1>2. 1 * PartPages <= (NParts + 1) * PartPages /\ (NParts + 1) * PartPages \in Nat
  BY Layout, TimesMono
<1> QED BY <1>1, <1>2, Layout DEF NoPage, VPage

LEMMA MapRangeType ==
  ASSUME NEW m \in [VPage -> 0 .. NoPage], NEW va \in Nat, NEW pa \in Nat, NEW n \in Nat,
         pa <= (NParts + 1) * PartPages
  PROVE  MapRange(m, va, pa, n) \in [VPage -> 0 .. NoPage]
<1>1. ASSUME NEW v \in VPage, va <= v PROVE pa + (v - va) \in 0 .. NoPage
  <2>1. v \in Nat
    BY Layout, BreakPages DEF VPage
  <2>2. pa + v <= NoPage
    BY NoPageBounds
  <2> QED BY <1>1, <2>1, <2>2, NoPageBounds
<1> QED BY <1>1 DEF MapRange

\* Own, for a use of the pool and a set of partitions.
Holds(pa, u, o) == pa \in {PoolPage(k) : k \in 0 .. u - 1} \/ Partition(pa) \in o

\* A mapping to pages the enclave gets with it leaves the pages below it apart
\* and backed.
LEMMA MapFresh ==
  ASSUME NEW s \in Nat, NEW t \in Nat, NEW va \in Nat, NEW pa \in Nat, NEW n \in Nat,
         map' = MapRange(map, va, pa, n), t - 1 <= 2 * PartUp(PageUp(MaxBrk)),
         \A v \in Lo .. t - 1 : v < s \/ (va <= v /\ v < va + n),
         \A v \in Lo .. t - 1 : va <= v /\ v < va + n =>
           /\ pa + (v - va) # NoPage
           /\ ~Holds(pa + (v - va), used, owned)
           /\ Holds(pa + (v - va), used', owned'),
         \A q : Holds(q, used, owned) => Holds(q, used', owned')
  PROVE  (Apart(s) => Apart(t)') /\ (Backed(s) => Backed(t)')
<1> DEFINE In(v) == va <= v /\ v < va + n
<1>1. ASSUME NEW v \in Lo .. t - 1
      PROVE  v \in Nat /\ v \in VPage /\ map'[v] = IF In(v) THEN pa + (v - va) ELSE map[v]
  <2>1. v \in Nat /\ v \in VPage
    BY Layout, BreakPages DEF VPage
  <2> QED BY <2>1 DEF MapRange
<1>2. ASSUME Backed(s) PROVE Backed(t)'
  <2> SUFFICES ASSUME NEW v \in Lo .. t - 1 PROVE map'[v] # NoPage /\ Holds(map'[v], used', owned')
    BY DEF Backed, Mapped, Own, Holds
  <2>1. CASE In(v)
    BY <1>1, <2>1
  <2>2. CASE ~In(v)
    <3>1. v \in Lo .. s - 1 /\ map'[v] = map[v]
      BY <1>1, <2>2, Layout
    <3> QED BY <1>2, <3>1 DEF Backed, Mapped, Own, Holds
  <2> QED BY <2>1, <2>2
<1>3. ASSUME Apart(s) PROVE Apart(t)'
  <2> SUFFICES ASSUME NEW v \in Lo .. t - 1, map'[v] # NoPage
               PROVE  Holds(map'[v], used', owned') /\ \A w \in Lo .. v - 1 : map'[w] # map'[v]
    BY DEF Apart, Mapped, Own, Holds
  <2>1. Holds(map'[v], used', owned')
    <3>1. CASE In(v)
      BY <1>1, <3>1
    <3>2. CASE ~In(v)
      <4>1. v \in Lo .. s - 1 /\ map'[v] = map[v]
        BY <1>1, <3>2, Layout
      <4> QED BY <1>3, <4>1 DEF Apart, Mapped, Own, Holds
    <3> QED BY <3>1, <3>2
  <2>2. ASSUME NEW w \in Lo .. v - 1 PROVE map'[w] # map'[v]
    <3>1. w \in Lo .. t - 1 /\ v \in Nat /\ w \in Nat /\ w < v
      BY <1>1, Layout
    <3>2. CASE In(v) /\ In(w)
      BY <1>1, <3>1, <3>2
    <3>3. CASE ~In(v) /\ ~In(w)
      <4>1. v \in Lo .. s - 1 /\ map'[v] = map[v] /\ map'[w] = map[w]
        BY <1>1, <3>1, <3>3, Layout
      <4> QED BY <1>3, <4>1 DEF Apart, Mapped, Own, Holds
    <3>4. CASE In(v) /\ ~In(w)
      <4>1. w \in Lo .. s - 1 /\ map'[v] = pa + (v - va) /\ map'[w] = map[w]
        BY <1>1, <3>1, <3>4, Layout
      <4>2. map[w] = NoPage \/ Holds(map[w], used, owned)
        BY <1>3, <4>1 DEF Apart, Mapped, Own, Holds
      <4> QED BY <3>4, <4>1, <4>2
    <3>5. CASE ~In(v) /\ In(w)
      <4>1. v \in Lo .. s - 1 /\ map'[v] = map[v] /\ map'[w] = pa + (w - va)
        BY <1>1, <3>1, <3>5, Layout
      <4>2. Holds(map[v], used, owned)
        BY <1>3, <4>1 DEF Apart, Mapped, Own, Holds
      <4> QED BY <3>1, <3>5, <4>1, <4>2
    <3> QED BY <3>2, <3>3, <3>4, <3>5
  <2> QED BY <2>1, <2>2
<1> QED BY <1>2, <1>3

\* Pages taken from the pool were nobody's, and none is in a granted partition.
LEMMA PoolFresh ==
  ASSUME used \in 0 .. PoolSize, owned \subseteq 1 .. NParts, owned' = owned,
         NEW s \in Nat, NEW t \in Nat, NEW va \in Nat, NEW n \in Nat, used + n <= PoolSize,
         map_brk_from_pool(va, n), t - 1 <= 2 * PartUp(PageUp(MaxBrk)),
         \A v \in Lo .. t - 1 : v < s \/ (va <= v /\ v < va + n)
  PROVE  (Apart(s) => Apart(t)') /\ (Backed(s) => Backed(t)')
<1>0. PICK u \in Nat : u = used
  BY Layout
<1>1. u + n <= PoolSize /\ used' = u + n /\ map' = MapRange(map, va, PoolPage(u), n)
  BY <1>0 DEF map_brk_from_pool
<1>2. PoolPage(u) \in Nat
  BY <1>0, Layout DEF PoolPage
<1>3. ASSUME NEW v \in Lo .. t - 1, va <= v, v < va + n
      PROVE  /\ PoolPage(u) + (v - va) # NoPage
             /\ ~Holds(PoolPage(u) + (v - va), used, owned)
             /\ Holds(PoolPage(u) + (v - va), used', owned')
  <2>1. v \in Nat
    BY Layout
  <2>2. PICK k \in Nat : k = u + (v - va)
    BY <1>3, <2>1
  <2>3. u <= k /\ k < u + n /\ k < PoolSize
    BY <1>1, <1>3, <2>1, <2>2, Layout
  <2>4. PoolPage(u) + (v - va) = PoolPage(k)
    BY <2>1, <2>2, Layout DEF PoolPage
  <2>5. PoolPage(k) \in Nat /\ PoolPage(k) < PartPages
    BY <2>3, Layout DEF PoolPage
  <2>6. Partition(PoolPage(k)) = 0
    <3>1. PoolPage(k) = 0 * PartPages + PoolPage(k) /\ PoolPage(k) \in 0 .. PartPages - 1
      BY <2>5, Layout
    <3>2. (0 * PartPages + PoolPage(k)) \div PartPages = 0
      BY <3>1, Layout, DivUnique
    <3> QED BY <3>1, <3>2 DEF Partition
  <2>7. \A j \in 0 .. u - 1 : PoolPage(j) # PoolPage(k)
    BY <1>0, <2>3, Layout DEF PoolPage
  <2>8. ~Holds(PoolPage(k), used, owned)
    BY <1>0, <2>6, <2>7 DEF Holds
  <2>9. Holds(PoolPage(k), used', owned')
    BY <1>1, <2>3 DEF Holds
  <2> QED BY <2>4, <2>5, <2>8, <2>9, NoPageBounds, Layout
<1>4. \A q : Holds(q, used, owned) => Holds(q, used', owned')
  BY <1>0, <1>1 DEF Holds
<1> QED BY Zenon, <1>1, <1>2, <1>3, <1>4, MapFresh

\* So are the partitions of a grant.
LEMMA GrantFresh ==
  ASSUME used \in 0 .. PoolSize, used' = used,
         NEW base \in 1 .. NParts, NEW n \in Nat \ {0},
         base .. base + n - 1 \subseteq 1 .. NParts, (base .. base + n - 1) \cap owned = {},
         owned' = owned \cup (base .. base + n - 1),
         NEW va \in Nat, NEW size \in Nat, n * PartPages <= size,
         map' = MapRange(map, va, base * PartPages, size),
         NEW t \in Nat, t = va + n * PartPages, t - 1 <= 2 * PartUp(PageUp(MaxBrk))
  PROVE  (Apart(va) => Apart(t)') /\ (Backed(va) => Backed(t)')
<1>0. base \in Nat /\ n * PartPages \in Nat /\ base * PartPages \in Nat
  BY Layout
<1>1. PartPages <= base * PartPages /\ base * PartPages + n * PartPages <= (NParts + 1) * PartPages
  <2>1. 1 * PartPages <= base * PartPages
    BY <1>0, Layout, TimesMono
  <2>2. base + n - 1 \in base .. base + n - 1
    BY <1>0
  <2>3. base + n <= NParts + 1 /\ base + n \in Nat
    BY <1>0, <2>2, Layout
  <2>4. (base + n) * PartPages <= (NParts + 1) * PartPages
    BY <2>3, Layout, TimesMono
  <2>5. (base + n) * PartPages = base * PartPages + n * PartPages
    BY <1>0, Layout, Z3T(20)
  <2> QED BY <2>1, <2>4, <2>5, Layout
<1>2. ASSUME NEW v \in Lo .. t - 1, va <= v, v < va + size
      PROVE  /\ base * PartPages + (v - va) # NoPage
             /\ ~Holds(base * PartPages + (v - va), used, owned)
             /\ Holds(base * PartPages + (v - va), used', owned')
  <2>1. PICK d \in Nat : d = v - va
    BY <1>2, Layout
  <2>2. d < n * PartPages
    BY <1>0, <2>1, Layout
  <2>3. Partition(base * PartPages + d) \in base .. base + n - 1
    BY <1>0, <2>2, Layout, InRun DEF Partition
  <2>4. base * PartPages + d < (NParts + 1) * PartPages /\ PartPages <= base * PartPages + d
    <3>1. (NParts + 1) * PartPages \in Nat
      BY Layout
    <3> HIDE DEF Partition
    <3> QED BY <1>0, <1>1, <2>2, <3>1, Layout
  <2>5. base * PartPages + d # NoPage
    <3>1. (NParts + 1) * PartPages \in Nat
      BY Layout
    <3> QED BY <1>0, <2>4, <3>1, NoPageBounds
  <2>6. \A j \in 0 .. used - 1 : PoolPage(j) # base * PartPages + d
    <3>1. \A j \in 0 .. used - 1 : PoolPage(j) < PartPages
      BY Layout DEF PoolPage
    <3>2. \A j \in 0 .. used - 1 : PoolPage(j) \in Int
      BY Layout DEF PoolPage
    <3> QED BY <1>0, <2>4, <3>1, <3>2, Layout
  <2>7. ~Holds(base * PartPages + d, used, owned)
    BY <2>3, <2>6 DEF Holds
  <2>8. Holds(base * PartPages + d, used', owned')
    BY <2>3 DEF Holds
  <2> QED BY <2>1, <2>5, <2>7, <2>8
<1>3. \A q : Holds(q, used, owned) => Holds(q, used', owned')
  BY DEF Holds
<1>4. \A v \in Lo .. t - 1 : v < va \/ (va <= v /\ v < va + size)
  BY <1>0, Layout
<1> QED BY Zenon, <1>0, <1>2, <1>3, <1>4, MapFresh

------------------------------------------------------------------------------
LEMMA InitHeapInv == ASSUME LowBrk >= InitialBrk, Init PROVE HeapInv
<1>1. BrkInv
  BY InitBrkInv
<1>2. PageUp(prog_brk) = Lo
  BY Layout, PageUpFacts DEF Init, InitialBrk, Lo
<1>3. TypeOK
  <2>1. Cardinality(call) <= 1
    BY FS_EmptySet DEF Init
  <2> QED BY <2>1, Layout, NoPageBounds DEF Init, TypeOK
<1>4. PartUp(Lo) = HeapStart
  BY Layout, PartUpFacts
<1>5. Apart(HeapStart)
  <2>1. \A v \in Lo .. HeapStart - 1 : v \in VPage
    <3>1. PartUp(PageUp(prog_brk)) <= PartUp(PageUp(MaxBrk)) /\ PartUp(PageUp(MaxBrk)) \in Nat
      BY <1>1, BreakPages DEF BrkInv
    <3> QED BY <1>2, <1>4, <3>1, Layout DEF VPage
  <2> QED BY <2>1 DEF Apart, Mapped, Init
<1>6. Backed(Lo) /\ used = Lo - Lo
  BY Layout DEF Backed, Init
<1>7. Granted(HeapStart)
  BY FS_EmptySet, Layout DEF Granted, Init
<1>8. used = (IF Lo < HeapStart THEN Lo ELSE HeapStart) - Lo
  BY <1>6, Layout
<1>9. Idle(Lo)
  BY <1>4, <1>5, <1>6, <1>7, <1>8, Layout DEF Idle
<1> QED BY <1>1, <1>2, <1>3, <1>9 DEF HeapInv, Init

\* The end of the heap never goes below where it began.
LEMMA BreakLow ==
  ASSUME LowBrk >= InitialBrk, NEW new \in LowBrk .. MaxBrk
  PROVE  new \in Nat /\ new <= MaxBrk /\ Lo <= PageUp(new)
<1>1. InitialBrk \in Nat /\ PageUp(InitialBrk) = Lo
  BY Layout, PageUpFacts, LayoutAssumption DEF InitialBrk, Lo
<1>2. new \in Nat /\ InitialBrk <= new /\ new <= MaxBrk
  BY <1>1, Layout
<1> QED BY <1>1, <1>2, PageUpFacts

\* A call that needs no page.
LEMMA HeapLower ==
  ASSUME LowBrk >= InitialBrk, HeapInv, NEW new \in LowBrk .. MaxBrk, call = {},
         PageUp(new) <= PageUp(prog_brk), set_prog_brk(new),
         UNCHANGED <<used, map, call, owned, others>>, BrkInv'
  PROVE  HeapInv'
<1>1. PICK an \in Nat : an = PageUp(new)
  BY BreakLow, PageUpFacts
<1>2. PICK ao \in Nat : ao = PageUp(prog_brk)
  BY PageUpFacts DEF HeapInv, BrkInv
<1>3. prog_brk' = new /\ PageUp(prog_brk)' = an /\ an <= ao
  BY <1>1, <1>2 DEF set_prog_brk
<1>4. PICK t \in Nat : t = PartUp(an)
  BY PartUpFacts
<1>5. t <= PartUp(ao) /\ PartUp(ao) \in Nat
  BY <1>3, <1>4, PartUpMono, PartUpFacts
<1>6. Idle(ao)
  BY <1>2 DEF HeapInv
<1>7. Apart(t)'
  <2>1. Apart(t)
    BY <1>5, <1>6, Layout DEF Idle, Apart
  <2> QED BY <2>1 DEF Apart, Mapped, Own
<1>8. ASSUME ~lowered' PROVE ~lowered /\ an = ao
  <2>1. ~lowered /\ ~(new < prog_brk)
    BY Zenon, <1>8 DEF set_prog_brk
  <2>2. prog_brk <= new /\ prog_brk \in Nat /\ new \in Nat
    BY <2>1, BreakLow DEF HeapInv, BrkInv
  <2>3. ao <= an
    BY <1>1, <1>2, <2>2, PageUpFacts
  <2> QED BY <1>3, <2>1, <2>3
<1>9. Idle(an)'
  <2>1. ASSUME ~lowered' PROVE Idle(ao)'
    BY <1>6, <1>7, <1>4, <1>8, <2>1 DEF Idle, Apart, Backed, Granted, Mapped, Own
  <2>2. CASE ~lowered'
    BY <1>8, <2>1, <2>2
  <2>3. CASE lowered'
    BY <1>4, <1>7, <2>3 DEF Idle
  <2> QED BY <2>2, <2>3
<1>10. TypeOK'
  BY <1>3 DEF HeapInv, TypeOK
<1> QED BY <1>3, <1>9, <1>10 DEF HeapInv

\* What a call that grows the heap takes from the pool: then all below the
\* end of the old break's partition is still apart and, in a heap that only
\* grew, the pool's pages are used in order.
LEMMA PoolPart ==
  ASSUME HeapInv, call = {}, NEW an \in Nat, NEW ao \in Nat, ao = PageUp(prog_brk), an > ao,
         NEW n \in Nat, n = IF an - ao <= Avail THEN an - ao ELSE Avail,
         map_brk_from_pool(ao, n), UNCHANGED <<owned, others>>, NEW t \in Nat, t = PartUp(ao)
  PROVE  /\ Lo <= ao /\ used \in Nat /\ used + n <= PoolSize /\ used' = used + n
         /\ Apart(t)' /\ map' \in [VPage -> 0 .. NoPage]
         /\ an - ao <= Avail => an <= HeapStart /\ t = HeapStart /\ PartUp(an) = t
         /\ an - ao > Avail => used' = PoolSize /\ PartUp(ao + n) = t
         /\ ~lowered /\ an - ao <= Avail => Backed(an)' /\ used' = an - Lo
         /\ ~lowered /\ an - ao > Avail => Backed(t)' /\ ao + n >= HeapStart
<1>1. /\ used \in 0 .. PoolSize /\ Lo <= ao /\ owned \subseteq 1 .. NParts
      /\ (Avail # 0 => ao + Avail <= HeapStart) /\ map \in [VPage -> 0 .. NoPage]
      /\ Idle(ao)
  BY DEF HeapInv, BrkInv, TypeOK, Lo
<1>2. PICK a \in Nat : a = Avail /\ a = PoolSize - used
  BY <1>1, Layout DEF Avail
<1>3. used \in Nat /\ n <= a /\ used + n <= PoolSize /\ used' = used + n
  BY <1>1, <1>2, Layout DEF map_brk_from_pool
<1>4. t - 1 <= 2 * PartUp(PageUp(MaxBrk)) /\ ao <= t /\ PartUp(PageUp(MaxBrk)) \in Nat
  BY BreakPages DEF HeapInv, BrkInv
<1>5. map' \in [VPage -> 0 .. NoPage]
  <2>1. PoolPage(used) \in Nat /\ PoolPage(used) <= PartPages
    BY <1>1, Layout DEF PoolPage
  <2>2. 1 * PartPages <= (NParts + 1) * PartPages /\ (NParts + 1) * PartPages \in Nat
    BY Layout, TimesMono
  <2>3. PoolPage(used) <= (NParts + 1) * PartPages
    BY <2>1, <2>2, Layout
  <2> QED BY <1>1, <2>1, <2>3, MapRangeType DEF map_brk_from_pool
<1>6. Apart(t)'
  <2>1. \A v \in Lo .. t - 1 : v < t \/ (ao <= v /\ v < ao + n)
    BY Layout
  <2>2. Apart(t) => Apart(t)'
    BY SMTT(20), <1>1, <1>3, <1>4, <2>1, PoolFresh
  <2> QED BY <1>1, <2>2 DEF Idle
<1>7. a # 0 => t = HeapStart /\ PartUp(ao + n) = HeapStart
  <2>1. a # 0 => ao <= HeapStart /\ ao + n <= HeapStart
    BY <1>1, <1>2, <1>3, Layout
  <2> QED BY <1>1, <2>1, Layout, PartUpFacts
<1>8. a = 0 => n = 0
  BY <1>3
<1>9. ASSUME an - ao <= Avail PROVE an <= HeapStart /\ t = HeapStart /\ PartUp(an) = t
  <2>1. a # 0 /\ an <= HeapStart /\ n = an - ao /\ ao + n = an
    BY <1>1, <1>2, <1>9, Layout
  <2> QED BY <1>7, <2>1
<1>10. ASSUME an - ao > Avail PROVE used' = PoolSize /\ PartUp(ao + n) = t
  <2>1. n = a
    BY <1>2, <1>10
  <2>2. used' = PoolSize
    <3>1. used \in Int /\ PoolSize \in Int
      BY <1>3, Layout
    <3>2. a = PoolSize - used
      BY <1>2
    <3>3. used' = used + a
      BY <1>3, <2>1, Zenon
    <3> QED BY <3>1, <3>2, <3>3
  <2>3. CASE a = 0
    <3>1. ao + n = ao
      BY <1>8, <2>3
    <3> QED BY <2>2, <3>1
  <2>4. CASE a # 0
    BY <1>7, <2>2, <2>4
  <2> QED BY <2>3, <2>4
<1>11. ASSUME ~lowered, an - ao <= Avail PROVE Backed(an)' /\ used' = an - Lo
  <2>1. n = an - ao /\ ao < HeapStart /\ an <= HeapStart /\ an <= t
    BY <1>9, <1>11, Layout
  <2>2. Backed(ao) /\ used = ao - Lo
    BY <1>1, <1>11, <2>1, Layout DEF Idle
  <2>3. \A v \in Lo .. an - 1 : v < ao \/ (ao <= v /\ v < ao + n)
    BY <2>1, Layout
  <2>4. an - 1 <= 2 * PartUp(PageUp(MaxBrk))
    BY <1>4, <2>1
  <2>5. Backed(ao) => Backed(an)'
    BY Zenon, <1>1, <1>3, <2>3, <2>4, PoolFresh
  <2> QED BY <1>3, <2>1, <2>2, <2>5, Layout
<1>12. ASSUME ~lowered, an - ao > Avail PROVE Backed(t)' /\ ao + n >= HeapStart
  <2>1. n = a
    BY <1>2, <1>12
  <2>2. CASE ao <= HeapStart
    <3>1. Backed(ao) /\ used = ao - Lo
      BY <1>1, <1>12, <2>2, Layout DEF Idle
    <3>2. ao + n = HeapStart
      BY <1>2, <2>1, <3>1, Layout
    <3>3. t = HeapStart
      BY <1>1, <2>2, Layout, PartUpFacts
    <3>4. \A v \in Lo .. t - 1 : v < ao \/ (ao <= v /\ v < ao + n)
      BY <3>2, <3>3, Layout
    <3>5. Backed(ao) => Backed(t)'
      BY Zenon, <1>1, <1>3, <1>4, <3>4, PoolFresh
    <3> QED BY <3>1, <3>2, <3>5, Layout
  <2>3. CASE ao > HeapStart
    <3>1. Backed(t)
      BY <1>1, <1>12, <2>3, Layout DEF Idle
    <3>2. \A v \in Lo .. t - 1 : v < t \/ (ao <= v /\ v < ao + n)
      BY Layout
    <3>3. Backed(t) => Backed(t)'
      BY SMTT(20), <1>1, <1>3, <1>4, <3>2, PoolFresh
    <3> QED BY <2>3, <3>1, <3>3, Layout
  <2> QED BY <2>2, <2>3, Layout
<1> QED BY <1>1, <1>3, <1>5, <1>6, <1>9, <1>10, <1>11, <1>12

\* A call that grows the heap, up to its return or its first request.
LEMMA HeapGrow ==
  ASSUME LowBrk >= InitialBrk, HeapInv, NEW new \in LowBrk .. MaxBrk, call = {},
         UNCHANGED <<owned, others>>, BrkInv',
         NEW an \in Nat, an = PageUp(new), NEW ao \in Nat, ao = PageUp(prog_brk), an > ao,
         NEW n \in Nat, n = IF an - ao <= Avail THEN an - ao ELSE Avail,
         NEW pn \in Nat, pn = PartUp(an),
         NEW po \in Nat, po = PartUp(IF an - ao > Avail THEN ao + n ELSE ao),
         map_brk_from_pool(ao, n),
         IF pn > po
         THEN /\ call' = {[new |-> new, va |-> po, size |-> pn - po,
                           left |-> (pn - po) \div PartPages,
                           sug |-> (pn - po) \div PartPages]}
              /\ UNCHANGED <<prog_brk, lowered>>
         ELSE set_prog_brk(new) /\ UNCHANGED call
  PROVE  HeapInv'
<1>1. PICK t \in Nat : t = PartUp(ao)
  BY PartUpFacts
<1>2. /\ Lo <= ao /\ used \in Nat /\ used + n <= PoolSize /\ used' = used + n
      /\ Apart(t)' /\ map' \in [VPage -> 0 .. NoPage]
      /\ an - ao <= Avail => an <= HeapStart /\ t = HeapStart /\ PartUp(an) = t
      /\ an - ao > Avail => used' = PoolSize /\ PartUp(ao + n) = t
      /\ ~lowered /\ an - ao <= Avail => Backed(an)' /\ used' = an - Lo
      /\ ~lowered /\ an - ao > Avail => Backed(t)' /\ ao + n >= HeapStart
  BY <1>1, PoolPart
<1>3. Avail \in Nat
  BY <1>2, Layout DEF Avail
<1>4. po = t
  BY <1>1, <1>2, <1>3
<1>5. HeapStart <= t
  <2>1. PartUp(Lo) <= t /\ PartUp(Lo) = HeapStart
    BY <1>1, <1>2, Layout, PartUpMono, PartUpFacts
  <2> QED BY <2>1
<1>6. t <= pn
  BY <1>1, PartUpMono
<1>7. ~lowered => Granted(t)'
  BY <1>1 DEF HeapInv, Idle, Granted
<1>8. new \in Nat /\ new <= MaxBrk
  BY BreakLow
<1>9. pn <= PartUp(PageUp(MaxBrk)) /\ PartUp(PageUp(MaxBrk)) \in Nat
  BY <1>8, BreakPages
<1>10. CASE pn > po
  <2>1. an - ao > Avail
    BY <1>2, <1>3, <1>4, <1>10
  <2>2. PICK k \in Nat \ {0} : k = (pn - po) \div PartPages /\ k * PartPages = pn - po /\ k <= pn
    BY <1>1, <1>4, <1>10, PartGap
  <2>3. PICK c \in [new : LowBrk .. MaxBrk, va : Nat, size : Nat, left : Nat, sug : Nat] :
          c = [new |-> new, va |-> po, size |-> pn - po, left |-> k, sug |-> k]
    <3>1. pn - po \in Nat
      BY <1>10
    <3>2. [new |-> new, va |-> po, size |-> pn - po, left |-> k, sug |-> k]
            \in [new : LowBrk .. MaxBrk, va : Nat, size : Nat, left : Nat, sug : Nat]
      BY <3>1
    <3> QED BY <3>2, Zenon
  <2>4. call' = {c} /\ UNCHANGED <<prog_brk, lowered>>
    BY <1>10, <2>2, <2>3
  <2>5. c.new = new /\ c.va = t /\ c.size = pn - po /\ c.left = k /\ c.sug = k
    BY <1>4, <2>3
  <2>6. CallOK(c)
    BY <1>4, <1>5, <1>10, <2>2, <2>5 DEF CallOK
  <2>7. Waiting(c)'
    BY <1>2, <1>7, <2>1, <2>4, <2>5, <2>6 DEF Waiting, CallOK
  <2>8. TypeOK'
    <3>1. Cardinality({c}) = 1
      BY Zenon, FS_Singleton
    <3>2. po \in VPage /\ pn - po \in VPage /\ k \in VPage \ {0}
      BY <1>6, <1>9, <1>10, <2>2 DEF VPage
    <3>3. c \in [new : LowBrk .. MaxBrk, va : VPage, size : VPage,
                 left : VPage \ {0}, sug : VPage \ {0}]
      BY <2>3, <3>2
    <3>4. used' \in 0 .. PoolSize
      BY <1>2, Layout
    <3> QED BY <1>2, <2>4, <3>1, <3>3, <3>4 DEF TypeOK, HeapInv
  <2> QED BY <2>4, <2>7, <2>8 DEF HeapInv
<1>11. CASE ~(pn > po)
  <2>1. prog_brk' = new /\ PageUp(prog_brk)' = an /\ call' = {} /\ (~lowered' => ~lowered)
    BY Zenon, <1>11 DEF set_prog_brk
  <2>2. PartUp(an) = t
    BY <1>4, <1>6, <1>11
  <2>3. TypeOK'
    <3>1. used' \in 0 .. PoolSize
      BY <1>2, Layout
    <3> QED BY <1>2, <2>1, <3>1 DEF TypeOK, HeapInv
  <2>4. CASE an - ao <= Avail
    <3>1. ~lowered' => Backed(an)' /\ used' = (IF an < HeapStart THEN an ELSE HeapStart) - Lo
      BY <1>2, <2>1, <2>4, Layout
    <3>2. an <= HeapStart
      BY <1>2, <2>4
    <3>3. Idle(an)'
      BY <1>2, <1>7, <2>1, <2>2, <3>1, <3>2 DEF Idle
    <3> QED BY <2>1, <2>3, <3>3 DEF HeapInv
  <2>5. CASE an - ao > Avail
    <3>1. ~lowered' => an > HeapStart
      BY <1>2, <1>3, <2>1, <2>5, Layout
    <3>2. ~lowered' => used' = (IF an < HeapStart THEN an ELSE HeapStart) - Lo
      BY <1>2, <2>5, <3>1, Layout
    <3>3. ~lowered' => (IF an <= HeapStart THEN an ELSE PartUp(an)) = t
      BY <2>2, <3>1, Layout
    <3>4. ~lowered' => Backed(IF an <= HeapStart THEN an ELSE PartUp(an))'
      BY <1>2, <2>1, <2>5, <3>3
    <3>5. Idle(an)'
      BY <1>2, <1>7, <2>1, <2>2, <3>2, <3>4 DEF Idle
    <3> QED BY <2>1, <2>3, <3>5 DEF HeapInv
  <2> QED BY <1>3, <2>4, <2>5
<1> QED BY <1>10, <1>11

LEMMA OwnedFinite ==
  ASSUME owned \subseteq 1 .. NParts
  PROVE  IsFiniteSet(owned) /\ Cardinality(owned) \in Nat
<1>1. IsFiniteSet(1 .. NParts)
  BY Layout, FS_Interval
<1> QED BY Zenon, <1>1, FS_Subset, FS_CardinalityType

\* One grant, whole or partial.
LEMMA HeapGrant ==
  ASSUME LowBrk >= InitialBrk, HeapInv, mem_alloc_grant, BrkInv'
  PROVE  HeapInv'
<1>1. PICK c \in call : \E base \in Runs(c.sug) : alloc_map_brk_outside_pool(c, base)
  BY DEF mem_alloc_grant
<1>2. PICK base \in Runs(c.sug) : alloc_map_brk_outside_pool(c, base)
  BY <1>1
<1>3. /\ c \in [new : LowBrk .. MaxBrk, va : VPage, size : VPage,
                left : VPage \ {0}, sug : VPage \ {0}]
      /\ CallOK(c) /\ Waiting(c)
  BY <1>1 DEF HeapInv, TypeOK, Waiting
<1>4. VPage \subseteq Nat
  BY Layout, BreakPages DEF VPage
<1>5. PICK va \in Nat : va = c.va
  BY Zenon, <1>3, <1>4
<1>6. PICK k \in Nat \ {0} : k = c.sug
  BY Zenon, <1>3, <1>4
<1>7. PICK left \in Nat \ {0} : left = c.left
  BY Zenon, <1>3, <1>4
<1>8. c.size \in Nat /\ c.new \in LowBrk .. MaxBrk /\ k <= left
  BY Zenon, <1>3, <1>4, <1>6, <1>7 DEF CallOK
<1>9. PICK top \in Nat : top = PartUp(PageUp(c.new))
  BY <1>8, BreakLow, BreakPages
<1>10. /\ top <= PartUp(PageUp(MaxBrk)) /\ PartUp(PageUp(MaxBrk)) \in Nat
       /\ va + left * PartPages = top /\ left * PartPages <= c.size /\ HeapStart <= va
  BY <1>3, <1>5, <1>7, <1>8, <1>9, BreakLow, BreakPages DEF CallOK
<1>11. k * PartPages \in Nat /\ left * PartPages \in Nat /\ k * PartPages <= left * PartPages
  BY <1>8, Layout, TimesMono
<1>12. PICK t \in Nat : t = va + k * PartPages
  BY <1>11
<1>13. t <= top /\ k * PartPages <= c.size
  BY <1>8, <1>10, <1>11, <1>12
<1>14. /\ base \in 1 .. NParts /\ base .. base + k - 1 \subseteq 1 .. NParts
       /\ (base .. base + k - 1) \cap owned = {} /\ (base .. base + k - 1) \cap others = {}
  BY <1>2, <1>6 DEF Runs, Free
<1>15. /\ map' = MapRange(map, va, base * PartPages, c.size)
       /\ owned' = owned \cup (base .. base + k - 1) /\ UNCHANGED <<used, others>>
  BY <1>2, <1>5, <1>6 DEF alloc_map_brk_outside_pool
<1>16. used \in 0 .. PoolSize /\ owned \subseteq 1 .. NParts /\ map \in [VPage -> 0 .. NoPage]
  BY DEF HeapInv, TypeOK
<1>17. (Apart(va) => Apart(t)') /\ (Backed(va) => Backed(t)')
  BY <1>8, <1>10, <1>12, <1>13, <1>14, <1>15, <1>16, GrantFresh
<1>18. Apart(t)' /\ (~lowered => Backed(t)' /\ used' = PoolSize)
  BY <1>3, <1>5, <1>15, <1>17 DEF Waiting
<1>19. ~lowered => Granted(t)'
  <2> SUFFICES ASSUME ~lowered PROVE Granted(t)'
    OBVIOUS
  <2> DEFINE run == base .. base + k - 1
  <2>1. IsFiniteSet(owned) /\ Cardinality(owned) \in Nat
    BY <1>16, OwnedFinite
  <2>2. IsFiniteSet(run) /\ Cardinality(run) = k
    BY <1>14, FS_Interval
  <2> HIDE DEF run
  <2>3. owned' = owned \cup run /\ owned \cap run = {}
    BY <1>14, <1>15 DEF run
  <2>4. Cardinality(owned') = Cardinality(owned) + k
    <3>1. Cardinality(owned \cup run) = Cardinality(owned) + Cardinality(run) - Cardinality(owned \cap run)
      BY <2>1, <2>2, FS_Union
    <3>2. Cardinality(owned \cap run) = 0
      BY <2>3, FS_EmptySet
    <3> QED BY <2>1, <2>2, <2>3, <3>1, <3>2
  <2>5. PICK m \in Nat : m = Cardinality(owned)
    BY <2>1
  <2>6. m * PartPages = va - HeapStart
    BY <1>3, <1>5, <2>5 DEF Waiting, Granted
  <2>7. (m + k) * PartPages = m * PartPages + k * PartPages
    BY Layout, Z3T(20)
  <2>8. (m + k) * PartPages = t - HeapStart
    BY <1>11, <1>12, <2>6, <2>7, Layout
  <2> QED BY <2>4, <2>5, <2>8 DEF Granted
<1>20. map' \in [VPage -> 0 .. NoPage]
  <2>1. base \in Nat /\ base <= NParts + 1
    BY <1>14, Layout
  <2>2. base * PartPages \in Nat /\ base * PartPages <= (NParts + 1) * PartPages
    BY <2>1, Layout, TimesMono
  <2> QED BY <1>8, <1>15, <1>16, <2>2, MapRangeType
<1>21. CASE c.left - c.sug > 0
  <2>1. PICK rest \in Nat \ {0} : rest = left - k
    BY <1>6, <1>7, <1>21
  <2>2. call' = {[c EXCEPT !.va = t, !.left = rest, !.sug = rest]} /\ UNCHANGED <<prog_brk, lowered>>
    BY <1>2, <1>5, <1>6, <1>7, <1>12, <1>21, <2>1 DEF alloc_map_brk_outside_pool
  <2>3. rest \in VPage \ {0} /\ t \in VPage
    <3>1. left \in VPage
      BY <1>3, <1>7
    <3> QED BY <1>10, <1>13, <2>1, <3>1 DEF VPage
  <2>4. PICK d \in [new : LowBrk .. MaxBrk, va : VPage, size : VPage,
                    left : VPage \ {0}, sug : VPage \ {0}] :
          d = [c EXCEPT !.va = t, !.left = rest, !.sug = rest]
    BY Zenon, <1>3, <2>3
  <2>5. d.new = c.new /\ d.va = t /\ d.size = c.size /\ d.left = rest /\ d.sug = rest
    BY <1>3, <2>4
  <2>6. rest * PartPages = left * PartPages - k * PartPages
    BY <2>1, Layout, Z3T(20)
  <2>7. CallOK(d)
    <3>1. t + rest * PartPages = top /\ rest * PartPages <= c.size /\ HeapStart <= t
      BY <1>8, <1>10, <1>11, <1>12, <2>6, Layout
    <3> QED BY <1>9, <2>1, <2>5, <3>1 DEF CallOK
  <2>8. Waiting(d)'
    BY <1>18, <1>19, <2>2, <2>5, <2>7 DEF Waiting, CallOK
  <2>9. TypeOK'
    <3>1. call' = {d} /\ Cardinality({d}) = 1
      BY <2>2, <2>4, FS_Singleton
    <3>2. Cardinality(call') <= 1
      BY <3>1
    <3>3. call' \subseteq [new : LowBrk .. MaxBrk, va : VPage, size : VPage,
                           left : VPage \ {0}, sug : VPage \ {0}]
      BY <2>4, <3>1
    <3>4. owned' \subseteq 1 .. NParts /\ owned' \cap others' = {}
      BY <1>14, <1>15 DEF TypeOK, HeapInv
    <3> QED BY <1>15, <1>20, <2>2, <3>2, <3>3, <3>4 DEF TypeOK, HeapInv
  <2>10. call' = {d}
    BY <2>2, <2>4
  <2> QED BY <2>8, <2>9, <2>10 DEF HeapInv
<1>22. CASE ~(c.left - c.sug > 0)
  <2>1. t = top
    BY <1>6, <1>7, <1>8, <1>10, <1>12, <1>22
  <2>2. call' = {} /\ prog_brk' = c.new /\ (~lowered' => ~lowered)
    BY Zenon, <1>2, <1>22 DEF alloc_map_brk_outside_pool, set_prog_brk
  <2>3. PICK e \in Nat : e = PageUp(c.new)
    BY <1>8, BreakLow, PageUpFacts
  <2>4. Lo <= e /\ PartUp(e) = t /\ PageUp(prog_brk)' = e
    BY <1>8, <1>9, <2>1, <2>2, <2>3, BreakLow
  <2>5. e > HeapStart
    <3>1. HeapStart < t
      <4>1. 1 * PartPages <= k * PartPages
        BY Layout, TimesMono
      <4> QED BY <1>10, <1>11, <1>12, <4>1, Layout
    <3> QED BY <2>4, <3>1, Layout, PartUpFacts
  <2>6. ~lowered' => used' = (IF e < HeapStart THEN e ELSE HeapStart) - Lo
    BY <1>18, <2>2, <2>5, Layout
  <2>7. (IF e <= HeapStart THEN e ELSE PartUp(e)) = t
    BY <2>4, <2>5, Layout
  <2>8. ~lowered' => Backed(IF e <= HeapStart THEN e ELSE PartUp(e))'
    BY <1>18, <2>2, <2>7
  <2>9. Idle(e)'
    BY <1>18, <1>19, <2>2, <2>4, <2>6, <2>8 DEF Idle
  <2>10. TypeOK'
    BY <1>8, <1>14, <1>15, <1>20, <2>2, FS_EmptySet DEF TypeOK, HeapInv
  <2> QED BY <2>2, <2>4, <2>9, <2>10 DEF HeapInv
<1> QED BY <1>21, <1>22

\* A refusal only makes the next request smaller.
LEMMA HeapRefuse ==
  ASSUME HeapInv, mem_alloc_refuse, BrkInv'
  PROVE  HeapInv'
<1>1. PICK c \in call : \E k \in 1 .. c.sug : call' = {[c EXCEPT !.sug = k]}
  BY DEF mem_alloc_refuse
<1>2. PICK k \in 1 .. c.sug : call' = {[c EXCEPT !.sug = k]}
  BY <1>1
<1>3. UNCHANGED <<prog_brk, used, map, owned, others, lowered>>
  BY DEF mem_alloc_refuse
<1>4. c \in [new : LowBrk .. MaxBrk, va : VPage, size : VPage,
             left : VPage \ {0}, sug : VPage \ {0}] /\ Waiting(c)
  BY <1>1 DEF HeapInv, TypeOK
<1>5. k \in VPage \ {0} /\ k <= c.sug /\ c.sug \in Nat /\ c.left \in Nat /\ k \in Nat
  <2>1. PartUp(PageUp(MaxBrk)) \in Nat
    BY Layout, BreakPages
  <2> QED BY <1>4, <2>1 DEF VPage
<1>6. PICK d \in [new : LowBrk .. MaxBrk, va : VPage, size : VPage,
                  left : VPage \ {0}, sug : VPage \ {0}] : d = [c EXCEPT !.sug = k]
  BY Zenon, <1>4, <1>5
<1>7. d.new = c.new /\ d.va = c.va /\ d.size = c.size /\ d.left = c.left /\ d.sug = k
  BY <1>4, <1>6
<1>8. call' = {d} /\ Cardinality({d}) = 1
  BY Zenon, <1>2, <1>6, FS_Singleton
<1>9. PICK va \in VPage : va = c.va
  BY <1>4
<1>10. CallOK(d)
  BY <1>4, <1>5, <1>7 DEF Waiting, CallOK
<1>11. Apart(va)' /\ (~lowered' => Backed(va)' /\ used' = PoolSize /\ Granted(va)')
  BY <1>3, <1>4, <1>9 DEF Waiting, Apart, Backed, Granted, Mapped, Own
<1>12. Waiting(d)'
  BY <1>7, <1>9, <1>10, <1>11 DEF Waiting, CallOK
<1>13. TypeOK'
  <2>1. Cardinality(call') <= 1
    BY <1>8
  <2>2. call' \subseteq [new : LowBrk .. MaxBrk, va : VPage, size : VPage,
                         left : VPage \ {0}, sug : VPage \ {0}]
    BY <1>6, <1>8
  <2> QED BY <1>3, <2>1, <2>2 DEF TypeOK, HeapInv
<1> QED BY <1>8, <1>12, <1>13 DEF HeapInv

\* What the enclave has does not depend on other enclaves.
LEMMA HeapFrame ==
  ASSUME HeapInv, UNCHANGED <<prog_brk, used, map, owned, call, lowered>>, TypeOK', BrkInv'
  PROVE  HeapInv'
<1>1. PICK e \in Nat : e = PageUp(prog_brk)
  BY PageUpFacts DEF HeapInv, BrkInv
<1>2. PageUp(prog_brk)' = e
  BY <1>1
<1>3. Idle(e) => Idle(e)'
  BY DEF Idle, Apart, Backed, Granted, Mapped, Own
<1>4. ASSUME NEW c PROVE Waiting(c) => Waiting(c)'
  BY DEF Waiting, CallOK, Apart, Backed, Granted, Mapped, Own
<1> QED BY <1>1, <1>2, <1>3, <1>4 DEF HeapInv

LEMMA NextHeapInv == LowBrk >= InitialBrk /\ HeapInv /\ [Next]_vars => HeapInv'
<1> SUFFICES ASSUME LowBrk >= InitialBrk, HeapInv, [Next]_vars PROVE HeapInv'
  OBVIOUS
<1>1. BrkInv'
  BY NextBrkInv DEF HeapInv
<1>2. CASE UNCHANGED vars
  <2>1. TypeOK'
    BY <1>2 DEF vars, TypeOK, HeapInv
  <2> QED BY <1>1, <1>2, <2>1, HeapFrame DEF vars
<1>3. CASE OtherEnclave
  <2>1. TypeOK'
    BY Zenon, <1>3 DEF OtherEnclave, Free, TypeOK, HeapInv
  <2> QED BY <1>1, <1>3, <2>1, HeapFrame DEF OtherEnclave
<1>4. ASSUME NEW new \in LowBrk .. MaxBrk, sys_brk_handler(new) PROVE HeapInv'
  <2>1. PICK an \in Nat : an = PageUp(new)
    BY BreakLow, PageUpFacts
  <2>2. PICK ao \in Nat : ao = PageUp(prog_brk)
    BY PageUpFacts DEF HeapInv, BrkInv
  <2>3. call = {} /\ UNCHANGED <<owned, others>>
    BY <1>4 DEF sys_brk_handler
  <2>4. CASE an <= ao
    <3>1. set_prog_brk(new) /\ UNCHANGED <<used, map, call>>
      BY <1>4, <2>1, <2>2, <2>4 DEF sys_brk_handler
    <3> QED BY <1>1, <2>1, <2>2, <2>3, <2>4, <3>1, HeapLower
  <2>5. CASE an > ao
    <3>1. Avail \in Nat
      BY Layout DEF Avail, HeapInv, BrkInv
    <3>2. PICK n \in Nat : n = IF an - ao <= Avail THEN an - ao ELSE Avail
      BY <2>5, <3>1
    <3>3. PICK pn \in Nat : pn = PartUp(an)
      BY PartUpFacts
    <3>4. PICK po \in Nat : po = PartUp(IF an - ao > Avail THEN ao + n ELSE ao)
      BY PartUpFacts
    <3>5. /\ map_brk_from_pool(ao, n)
          /\ IF pn > po
             THEN /\ call' = {[new |-> new, va |-> po, size |-> pn - po,
                               left |-> (pn - po) \div PartPages,
                               sug |-> (pn - po) \div PartPages]}
                  /\ UNCHANGED <<prog_brk, lowered>>
             ELSE set_prog_brk(new) /\ UNCHANGED call
      <4>1. ~(an <= ao)
        BY <2>5
      <4> QED BY <1>4, <2>1, <2>2, <3>2, <3>3, <3>4, <4>1, Zenon DEF sys_brk_handler
    <3> QED BY <1>1, <2>1, <2>2, <2>3, <2>5, <3>2, <3>3, <3>4, <3>5, HeapGrow
  <2> QED BY <2>4, <2>5
<1> QED BY <1>1, <1>2, <1>3, <1>4, HeapGrant, HeapRefuse DEF Next

------------------------------------------------------------------------------
LEMMA HeapInvIsBacked == ASSUME HeapInv PROVE HeapBacked
<1>1. PICK e \in Nat : e = PageUp(prog_brk)
  BY PageUpFacts DEF HeapInv, BrkInv
<1>2. PartUp(e) \in Nat /\ e <= PartUp(e) /\ Lo <= e
  BY <1>1, PartUpFacts DEF HeapInv, BrkInv, Lo
<1>3. ASSUME ~lowered, call # {} PROVE Backed(e)
  <2>1. PICK c \in call : Waiting(c)
    BY <1>3 DEF HeapInv
  <2>2. e <= c.va /\ c.va \in Nat /\ Backed(c.va)
    BY <1>1, <1>3, <2>1 DEF HeapInv, BrkInv, Waiting
  <2> QED BY <2>2, Layout DEF Backed
<1>4. ASSUME ~lowered, call = {}
      PROVE  /\ Backed(e) /\ Granted(PartUp(e))
             /\ used = (IF e < HeapStart THEN e ELSE HeapStart) - Lo
  <2>1. Idle(e)
    BY <1>1, <1>4 DEF HeapInv
  <2>2. Backed(IF e <= HeapStart THEN e ELSE PartUp(e))
    BY <1>4, <2>1 DEF Idle
  <2>3. Backed(e)
    BY <1>2, <2>2, Layout DEF Backed
  <2> QED BY <1>4, <2>1, <2>3 DEF Idle
<1>5. IsFiniteSet(owned) /\ Cardinality(owned) \in Nat
  BY OwnedFinite DEF HeapInv, TypeOK
<1>6. ASSUME Granted(PartUp(e)), e > HeapStart
      PROVE  Cardinality(owned) = (PartUp(e) - HeapStart) \div PartPages
  <2>1. PICK m \in Nat : m = Cardinality(owned)
    BY <1>5
  <2>2. PartUp(e) - HeapStart = m * PartPages + 0
    BY <1>2, <1>6, <2>1, Layout DEF Granted
  <2>3. 0 \in 0 .. PartPages - 1
    BY Layout
  <2>4. (m * PartPages + 0) \div PartPages = m
    BY <2>3, Layout, DivUnique
  <2> QED BY <2>1, <2>2, <2>4
<1>7. ASSUME Granted(PartUp(e)), e <= HeapStart PROVE owned = {}
  <2>1. PartUp(e) = HeapStart
    BY <1>2, <1>7, Layout, PartUpFacts
  <2>2. PICK m \in Nat : m = Cardinality(owned)
    BY <1>5
  <2>3. m * PartPages = 0
    BY <1>7, <2>1, <2>2, Layout DEF Granted
  <2>4. m = 0
    BY <2>3, Layout, Z3T(20)
  <2> QED BY Zenon, <1>5, <2>2, <2>4, FS_EmptySet
<1>8. TypeOK
  BY DEF HeapInv
<1>9. ~lowered => \A v \in HeapStart - PoolSize .. e - 1 : Mapped(v) /\ Own(map[v])
  BY <1>3, <1>4 DEF Backed, Lo
<1> QED BY <1>1, <1>2, <1>4, <1>6, <1>7, <1>8, <1>9, Layout DEF HeapBacked, Lo

LEMMA HeapInvIsApart == ASSUME HeapInv PROVE NoAlias
<1>1. PICK e \in Nat : e = PageUp(prog_brk)
  BY PageUpFacts DEF HeapInv, BrkInv
<1>2. PartUp(e) \in Nat /\ e <= PartUp(e)
  BY PartUpFacts
<1>3. CASE call = {}
  BY <1>1, <1>2, <1>3, Layout DEF HeapInv, Idle, Apart, NoAlias, Lo
<1>4. CASE call # {}
  <2>1. PICK c \in call : Waiting(c)
    BY <1>4 DEF HeapInv
  <2>2. e <= c.va /\ c.va \in Nat /\ Apart(c.va)
    BY <1>1, <2>1 DEF HeapInv, BrkInv, Waiting
  <2> QED BY <1>1, <2>2, Layout DEF Apart, NoAlias, Lo
<1> QED BY <1>3, <1>4

\* A heap that only grows is mapped up to the break, to the enclave's own
\* pages, and sys_brk takes exactly the pool pages and partitions it needs,
\* whatever grants, refusals and other enclaves come between.
THEOREM HeapIsBacked ==
  ASSUME LowBrk >= InitialBrk
  PROVE  Spec => []HeapBacked
<1>1. Init => HeapInv
  BY InitHeapInv
<1>2. HeapInv /\ [Next]_vars => HeapInv'
  BY NextHeapInv
<1>3. HeapInv => HeapBacked
  BY HeapInvIsBacked
<1> QED BY <1>1, <1>2, <1>3, PTL DEF Spec

\* However the break moves, sys_brk leaves no two pages below it on the same
\* memory, and none on memory that is not the enclave's.
THEOREM PagesApart ==
  ASSUME LowBrk >= InitialBrk
  PROVE  Spec => []NoAlias
<1>1. Init => HeapInv
  BY InitHeapInv
<1>2. HeapInv /\ [Next]_vars => HeapInv'
  BY NextHeapInv
<1>3. HeapInv => NoAlias
  BY HeapInvIsApart
<1> QED BY <1>1, <1>2, <1>3, PTL DEF Spec
==============================================================================
