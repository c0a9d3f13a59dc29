-------------------------- MODULE EmodLoaderProofs ---------------------------
(***************************************************************************)
(* Proofs about EmodLoader, for any set of emodules whose dependencies     *)
(* have smaller ids, any page size, any answers of the host.               *)
(*                                                                         *)
(* The safety properties rest on one inductive invariant.  Its heart is    *)
(* StackOrder: ids decrease along the chain of nested loads, so an         *)
(* emodule is never in the middle of two loads, and none of the emodules   *)
(* being loaded is registered yet.                                         *)
(***************************************************************************)
EXTENDS EmodLoader, TLAPS

Depth == 1 .. Len(stack)

\* Nested loads are of ever smaller ids; only the innermost may be before
\* its init function; an emodule being loaded has no getter yet.
StackOrder ==
  /\ \A i, j \in Depth : i < j => stack[j].id < stack[i].id
  /\ \A i \in Depth : i < Len(stack) => stack[i].pc = "init"
  /\ \A i \in Depth : table[stack[i].id] = 0

\* An image lies between EMOD_INIT_BRK and the break, in pages the pool gave.
ImageBounds ==
  /\ InitBrk <= brk
  /\ brk <= InitBrk + used
  /\ \A x \in images : InitBrk <= x.va /\ x.va + PageUp(x.size) <= brk

\* A load past its allocation has its image; an image belongs to a
\* registered emodule or to a load past its allocation.
FrameImages ==
  /\ \A i \in Depth : stack[i].pc # "size" =>
       [id |-> stack[i].id, va |-> stack[i].va, size |-> stack[i].size] \in images
  /\ \A x \in images : table[x.id] # 0
                       \/ \E i \in Depth : stack[i].id = x.id /\ stack[i].pc # "size"

\* The host only ever fills the buffer of the innermost load, which waits.
Listening ==
  \A b \in rx : /\ stack # << >>
                /\ Top.pc = "wait" /\ b.va = Top.va /\ b.size = Top.size

\* No page above the break, nor of the buffer listened on, has been written.
Unfilled ==
  /\ \A p \in Page : p >= brk => mem[p] = "zero"
  /\ \A b \in rx : \A p \in Pages(b) : mem[p] = "zero"

\* The dependencies an init function has gone past are registered.
DepsSoFar ==
  \A i \in Depth :
    /\ stack[i].dep <= Len(Deps[stack[i].id]) + 1
    /\ \A k \in 1 .. Len(Deps[stack[i].id]) :
         k < stack[i].dep => table[Deps[stack[i].id][k]] # 0

\* The user program runs exactly when no load is in progress.
UserMode == mode = "user" <=> stack = << >>

IInv ==
  /\ TypeOK /\ StackOrder /\ ImageBounds /\ FrameImages /\ Listening
  /\ Unfilled /\ DepsSoFar /\ UserMode
  /\ table[Manager] # 0
  /\ LoadedOnce /\ RunsAttested /\ DependenciesRegistered
  /\ LoadedImpliesRegistered

------------------------------------------------------------------------------
\* Rounding a size up to pages gives a number of pages.
LEMMA PageUpNat == ASSUME NEW n \in Nat PROVE PageUp(n) \in Nat
BY SizeAssumption DEF PageUp

\* What a load_emodule call remembers, and what its steps change of it.
LEMMA FrameFacts ==
  ASSUME NEW f \in Frame
  PROVE  /\ f.id \in Emodule /\ f.pc \in {"size", "wait", "init"}
         /\ f.va \in Nat /\ f.size \in Nat /\ f.dep \in Nat \ {0}
BY DEF Frame

LEMMA FrameAlloc ==
  ASSUME NEW f \in Frame, NEW v \in Nat, NEW s \in Nat
  PROVE  LET g == [f EXCEPT !.pc = "wait", !.va = v, !.size = s]
         IN  /\ g \in Frame
             /\ g.id = f.id /\ g.pc = "wait" /\ g.va = v /\ g.size = s /\ g.dep = f.dep
BY Zenon DEF Frame

LEMMA FrameInit ==
  ASSUME NEW f \in Frame
  PROVE  LET g == [f EXCEPT !.pc = "init"]
         IN  /\ g \in Frame
             /\ g.id = f.id /\ g.pc = "init" /\ g.va = f.va /\ g.size = f.size
             /\ g.dep = f.dep
BY DEF Frame

LEMMA FrameDep ==
  ASSUME NEW f \in Frame
  PROVE  LET g == [f EXCEPT !.dep = @ + 1]
         IN  /\ g \in Frame
             /\ g.id = f.id /\ g.pc = f.pc /\ g.va = f.va /\ g.size = f.size
             /\ g.dep = f.dep + 1
BY DEF Frame

\* The loads in progress are calls, the innermost among them.
LEMMA StackFacts ==
  ASSUME TypeOK
  PROVE  /\ Len(stack) \in Nat
         /\ \A i \in Depth : stack[i] \in Frame
         /\ stack # << >> => /\ Top \in Frame /\ Len(stack) \in Depth
                             /\ Top = stack[Len(stack)]
BY DEF TypeOK, Depth, Top

\* Popping the innermost load leaves the outer ones as they were.
LEMMA PopFacts ==
  ASSUME stack \in Seq(Frame), stack # << >>
  PROVE  /\ Pop \in Seq(Frame)
         /\ Len(Pop) = Len(stack) - 1
         /\ \A i \in 1 .. Len(stack) - 1 : Pop[i] = stack[i]
BY DEF Pop

\* Replacing the innermost load leaves the outer ones as they were.
LEMMA SetTopFacts ==
  ASSUME stack \in Seq(Frame), stack # << >>, NEW f \in Frame
  PROVE  /\ SetTop(f) \in Seq(Frame)
         /\ Len(SetTop(f)) = Len(stack)
         /\ SetTop(f)[Len(stack)] = f
         /\ \A i \in 1 .. Len(stack) - 1 : SetTop(f)[i] = stack[i]
         /\ Len(stack) \in Nat \ {0}
         /\ Top \in Frame
BY DEF SetTop, Top

\* Starting a load puts it innermost.
LEMMA PushFacts ==
  ASSUME stack \in Seq(Frame), NEW f \in Frame
  PROVE  /\ Append(stack, f) \in Seq(Frame)
         /\ Len(Append(stack, f)) = Len(stack) + 1
         /\ Append(stack, f)[Len(stack) + 1] = f
         /\ \A i \in 1 .. Len(stack) : Append(stack, f)[i] = stack[i]
         /\ Len(stack) \in Nat
OBVIOUS

\* A dependency is an emodule with a smaller id.
LEMMA DepsFacts ==
  ASSUME NEW m \in Emodule
  PROVE  /\ m \in Nat /\ m \in 0 .. TableSize - 1
         /\ Len(Deps[m]) \in Nat
         /\ \A k \in 1 .. Len(Deps[m]) : Deps[m][k] \in Emodule /\ Deps[m][k] < m
<1>1. Deps[m] \in Seq(Emodule)
  BY IdAssumption
<1>2. Len(Deps[m]) \in Nat /\ \A k \in 1 .. Len(Deps[m]) : Deps[m][k] \in Emodule
  BY <1>1
<1> QED
  BY <1>2, IdAssumption

\* The user program starts in a state of the invariant.
LEMMA InitIInv == Init => IInv
BY IdAssumption, SizeAssumption DEF Init, IInv, TypeOK, StackOrder, ImageBounds,
   FrameImages, Listening, Unfilled, DepsSoFar, UserMode, LoadedOnce, RunsAttested,
   DependenciesRegistered, LoadedImpliesRegistered, Depth, Modes, Contents, NoMsg

------------------------------------------------------------------------------
\* Starting a load of an unregistered emodule whose id is smaller than that
\* of the innermost load in progress keeps the invariant.
LEMMA LoadEmodule ==
  ASSUME IInv, NEW m \in Emodule, table[m] = 0, load_emodule(m),
         \A i \in Depth : m < stack[i].id,
         \A i \in Depth : stack[i].pc = "init",
         stack = << >> \/ mode # "user"
  PROVE  IInv'
<1> DEFINE f == [id |-> m, pc |-> "size", va |-> 0, size |-> 0, dep |-> 1]
<1>1. f \in Frame
  BY DEF Frame
<1>2. /\ stack' = Append(stack, f) /\ mode' = "suspended" /\ msg' = "GET_MODULE_SIZE"
      /\ UNCHANGED <<table, loaded, brk, used, mem, a0, rx, images>>
  BY DEF load_emodule
<1>3. /\ stack' \in Seq(Frame) /\ Len(stack') = Len(stack) + 1 /\ Len(stack) \in Nat
      /\ stack'[Len(stack) + 1] = f
      /\ \A i \in Depth : stack'[i] = stack[i]
  BY <1>1, <1>2, PushFacts DEF IInv, TypeOK, Depth
<1>4. rx = {}
  BY <1>3 DEF IInv, Listening, Top, Depth
<1>5. TypeOK'
  BY <1>2, <1>3 DEF IInv, TypeOK, Modes
<1>6. StackOrder'
  BY <1>2, <1>3 DEF IInv, StackOrder, Depth
<1>7. ImageBounds' /\ Unfilled' /\ LoadedOnce' /\ DependenciesRegistered' /\ LoadedImpliesRegistered'
      /\ table'[Manager] # 0
  BY <1>2 DEF IInv, ImageBounds, Unfilled, LoadedOnce, DependenciesRegistered,
     LoadedImpliesRegistered
<1>8. FrameImages'
  BY <1>2, <1>3 DEF IInv, FrameImages, Depth
<1>9. Listening'
  BY <1>2, <1>4 DEF Listening
<1>10. DepsSoFar'
  <2>2. ASSUME NEW i \in Depth'
        PROVE  /\ stack'[i].dep <= Len(Deps[stack'[i].id]) + 1
               /\ \A k \in 1 .. Len(Deps[stack'[i].id]) :
                    k < stack'[i].dep => table'[Deps[stack'[i].id][k]] # 0
    <3>1. CASE i \in Depth
      <4>1. stack'[i] = stack[i] /\ table' = table
        BY Zenon, <1>2, <1>3, <3>1
      <4> QED
        BY <3>1, <4>1 DEF IInv, DepsSoFar
    <3>2. CASE i = Len(stack) + 1
      BY <1>3, <3>2, DepsFacts
    <3> QED
      BY <1>3, <3>1, <3>2 DEF Depth
  <2> QED
    BY <2>2 DEF DepsSoFar
<1>11. UserMode'
  BY <1>2, <1>3 DEF UserMode
<1>12. RunsAttested'
  BY <1>2, <1>3 DEF IInv, RunsAttested, Depth
<1> QED
  BY <1>5, <1>6, <1>7, <1>8, <1>9, <1>10, <1>11, <1>12 DEF IInv

\* A panic changes nothing but the mode, from inside a load.
LEMMA Panic == ASSUME IInv, panic, stack # << >> PROVE IInv'
BY DEF panic, IInv, TypeOK, StackOrder, ImageBounds, FrameImages, Listening, Unfilled,
   DepsSoFar, UserMode, LoadedOnce, RunsAttested, DependenciesRegistered,
   LoadedImpliesRegistered, Depth, Modes, Top

\* The system call wrappers.
LEMMA LoadEmod == ASSUME IInv, NEW m \in TopLevel, load_emod(m) PROVE IInv'
<1>1. m \in Emodule /\ m < TableSize
  BY IdAssumption, DepsFacts
<1>2. stack = << >> /\ mode = "user"
  BY DEF load_emod, IInv, UserMode
<1>3. CASE UNCHANGED vars
  BY <1>3 DEF vars, IInv, TypeOK, StackOrder, ImageBounds, FrameImages, Listening, Unfilled,
     DepsSoFar, UserMode, LoadedOnce, RunsAttested, DependenciesRegistered,
     LoadedImpliesRegistered, Depth, Top
<1>4. CASE /\ table[m] # 0
           /\ loaded' = [loaded EXCEPT ![m] = TRUE]
           /\ UNCHANGED <<table, stack, brk, used, mem, mode, msg, a0, rx, images>>
  BY <1>4 DEF IInv, TypeOK, StackOrder, ImageBounds, FrameImages, Listening, Unfilled,
     DepsSoFar, UserMode, LoadedOnce, RunsAttested, DependenciesRegistered,
     LoadedImpliesRegistered, Depth, Top
<1>5. CASE table[m] = 0 /\ load_emodule(m)
  BY <1>1, <1>2, <1>5, LoadEmodule DEF Depth
<1>6. get_emodule(m) = table[m]
  BY <1>1, IdAssumption, DepsFacts DEF get_emodule
<1> QED
  BY <1>3, <1>4, <1>5, <1>6 DEF load_emod

\* A step of the innermost load that keeps its id and registers nothing
\* keeps the order of the chain, and its dependencies if it keeps dep.
LEMMA TopStep ==
  ASSUME IInv, stack # << >>, NEW f \in Frame, stack' = SetTop(f),
         f.id = Top.id, table' = table
  PROVE  /\ stack' \in Seq(Frame) /\ Len(stack') = Len(stack)
         /\ Depth' = Depth /\ Len(stack) \in Depth
         /\ stack'[Len(stack)] = f /\ Top' = f /\ Top = stack[Len(stack)]
         /\ \A i \in Depth : stack'[i] = IF i = Len(stack) THEN f ELSE stack[i]
         /\ \A i \in Depth : stack'[i].id = stack[i].id
         /\ StackOrder'
         /\ f.dep = Top.dep => DepsSoFar'
<1>1. /\ stack' \in Seq(Frame) /\ Len(stack') = Len(stack)
      /\ Len(stack) \in Nat \ {0}
      /\ stack'[Len(stack)] = f
      /\ \A i \in 1 .. Len(stack) - 1 : stack'[i] = stack[i]
  BY SetTopFacts DEF IInv, TypeOK
<1>2. Depth' = Depth /\ Len(stack) \in Depth /\ Top' = f /\ Top = stack[Len(stack)]
  BY <1>1 DEF Depth, Top
<1>3. \A i \in Depth : stack'[i] = IF i = Len(stack) THEN f ELSE stack[i]
  BY <1>1 DEF Depth
<1>4. \A i \in Depth : stack'[i].id = stack[i].id
  BY <1>2, <1>3
<1>5. StackOrder'
  <2>1. \A i, j \in Depth : i < j => stack'[j].id < stack'[i].id
    BY <1>4 DEF IInv, StackOrder
  <2>2. \A i \in Depth : i < Len(stack) => stack'[i].pc = "init"
    BY <1>1, <1>3 DEF IInv, StackOrder, Depth
  <2>3. \A i \in Depth : table'[stack'[i].id] = 0
    BY <1>4 DEF IInv, StackOrder
  <2> QED
    BY <1>1, <1>2, <2>1, <2>2, <2>3 DEF StackOrder
<1>6. ASSUME f.dep = Top.dep PROVE DepsSoFar'
  <2>1. \A i \in Depth : stack'[i].dep = stack[i].dep
    BY <1>2, <1>3, <1>6
  <2>2. \A i \in Depth :
          /\ stack'[i].dep <= Len(Deps[stack'[i].id]) + 1
          /\ \A k \in 1 .. Len(Deps[stack'[i].id]) :
               k < stack'[i].dep => table'[Deps[stack'[i].id][k]] # 0
    BY <1>4, <2>1 DEF IInv, DepsSoFar
  <2> QED
    BY <1>2, <2>2 DEF DepsSoFar
<1> QED
  BY <1>1, <1>2, <1>3, <1>4, <1>5, <1>6

\* An image covers a number of pages, below the break.
LEMMA ImageFacts ==
  ASSUME IInv
  PROVE  \A y \in images : /\ y.id \in Emodule /\ y.va \in Nat /\ PageUp(y.size) \in Nat
                           /\ InitBrk <= y.va /\ y.va + PageUp(y.size) <= brk
<1>1. \A y \in images : y.id \in Emodule /\ y.va \in Nat /\ y.size \in Nat
  BY DEF IInv, TypeOK
<1> QED
  BY <1>1, PageUpNat DEF IInv, ImageBounds

\* The innermost load is of an emodule with no getter, and no other load in
\* progress is of the same one.
LEMMA TopFresh ==
  ASSUME IInv, stack # << >>
  PROVE  /\ Top.id \in Emodule /\ table[Top.id] = 0
         /\ \A i \in Depth : i # Len(stack) =>
                               stack[i].pc = "init" /\ stack[i].id # Top.id
<1>1. \A i \in Depth : stack[i] \in Frame /\ stack[i].id \in Nat
  BY StackFacts, FrameFacts, DepsFacts DEF IInv
<1>2. Top = stack[Len(stack)] /\ Len(stack) \in Depth /\ Top \in Frame
  BY StackFacts DEF IInv
<1>3. \A i \in Depth : i # Len(stack) => i < Len(stack)
  BY <1>2 DEF Depth
<1> QED
  BY <1>1, <1>2, <1>3, FrameFacts DEF IInv, StackOrder

\* Making room for an image above every image made before.
LEMMA AllocMap == ASSUME IInv, alloc_map_emodule PROVE IInv'
<1>0. stack # << >> /\ mode = "smode" /\ Top.pc = "size"
  BY DEF alloc_map_emodule
<1>1. CASE panic
  BY <1>0, <1>1, Panic
<1>2. ASSUME NEW t \in 0 .. TablePages,
             used + PageUp(a0) + t <= PoolPages,
             used' = used + PageUp(a0) + t,
             brk' = brk + PageUp(a0),
             stack' = SetTop([Top EXCEPT !.pc = "wait", !.va = brk, !.size = a0]),
             images' = images \cup {[id |-> Top.id, va |-> brk, size |-> a0]},
             mode' = "suspended", msg' = "LOAD_MODULE",
             rx' = {[va |-> brk, size |-> a0]},
             UNCHANGED <<table, loaded, mem, a0>>
      PROVE  IInv'
  <2> DEFINE f == [Top EXCEPT !.pc = "wait", !.va = brk, !.size = a0]
             x == [id |-> Top.id, va |-> brk, size |-> a0]
             b == [va |-> brk, size |-> a0]
  <2>1. /\ brk \in Nat /\ a0 \in Nat /\ Top \in Frame
        /\ PageUp(a0) \in Nat /\ used \in Nat /\ t \in Nat /\ PoolPages \in Nat
    <3>1. brk \in Nat /\ a0 \in Nat /\ used \in 0 .. PoolPages
      BY DEF IInv, TypeOK
    <3> QED
      BY SMTT(20), <1>0, <3>1, StackFacts, PageUpNat, SizeAssumption DEF IInv
  <2>2. f \in Frame /\ x \in [id : Emodule, va : Nat, size : Nat]
    BY Zenon, <2>1, FrameAlloc, FrameFacts
  <2>3. /\ f.id = Top.id /\ f.pc = "wait" /\ f.va = brk /\ f.size = a0 /\ f.dep = Top.dep
        /\ x.id = Top.id /\ x.va = brk /\ x.size = a0
        /\ x = [id |-> f.id, va |-> f.va, size |-> f.size]
        /\ b \in [va : Nat, size : Nat] /\ b.va = brk /\ b.size = a0
    BY <2>1 DEF Frame
  <2>4. stack' = SetTop(f)
    BY <1>2
  <2>5. /\ used' = used + PageUp(a0) + t /\ brk' = brk + PageUp(a0)
        /\ images' = images \cup {x} /\ mode' = "suspended" /\ msg' = "LOAD_MODULE"
        /\ rx' = {b} /\ used + PageUp(a0) + t <= PoolPages
        /\ UNCHANGED <<table, loaded, mem, a0>>
    BY <1>2
  <2> HIDE DEF f, x, b
  <2>6. /\ stack' \in Seq(Frame) /\ Len(stack') = Len(stack)
        /\ Depth' = Depth /\ Len(stack) \in Depth
        /\ stack'[Len(stack)] = f /\ Top' = f
        /\ \A i \in Depth : stack'[i] = IF i = Len(stack) THEN f ELSE stack[i]
        /\ \A i \in Depth : stack'[i].id = stack[i].id
        /\ StackOrder' /\ DepsSoFar'
    BY <1>0, <2>2, <2>3, <2>4, <2>5, TopStep
  <2>7. /\ table[Top.id] = 0
        /\ \A i \in Depth : i # Len(stack) => stack[i].pc = "init" /\ stack[i].id # Top.id
    BY <1>0, TopFresh
  <2>8. \A y \in images : y.id # Top.id
    BY <1>0, <2>7, StackFacts DEF IInv, FrameImages
  <2>9. TypeOK'
    <3>1. used' \in 0 .. PoolPages /\ brk' \in Nat
      BY <2>1, <2>5
    <3>2. images' \subseteq [id : Emodule, va : Nat, size : Nat] /\ rx' \subseteq [va : Nat, size : Nat]
      BY <2>2, <2>3, <2>5 DEF IInv, TypeOK
    <3> QED
      BY <2>5, <2>6, <3>1, <3>2 DEF IInv, TypeOK, Modes
  <2>10. ImageBounds'
    <3>1. InitBrk \in Nat /\ InitBrk <= brk /\ brk <= InitBrk + used
      BY SizeAssumption DEF IInv, ImageBounds
    <3>2. \A y \in images : InitBrk <= y.va /\ y.va + PageUp(y.size) <= brk + PageUp(a0)
      BY <2>1, ImageFacts
    <3>3. InitBrk <= x.va /\ x.va + PageUp(x.size) <= brk + PageUp(a0)
      BY <2>1, <2>3, <3>1
    <3> QED
      BY <2>1, <2>5, <3>1, <3>2, <3>3 DEF ImageBounds
  <2>11. FrameImages'
    <3>1. \A i \in Depth : i # Len(stack) =>
            [id |-> stack[i].id, va |-> stack[i].va, size |-> stack[i].size] \in images
      BY <2>7 DEF IInv, FrameImages
    <3>2. \A i \in Depth : stack'[i].pc # "size" =>
            [id |-> stack'[i].id, va |-> stack'[i].va, size |-> stack'[i].size] \in images'
      BY <2>3, <2>5, <2>6, <3>1
    <3>3. \A y \in images : table[y.id] # 0
                            \/ \E i \in Depth : stack'[i].id = y.id /\ stack'[i].pc # "size"
      BY <2>3, <2>6 DEF IInv, FrameImages
    <3>4. \E i \in Depth : stack'[i].id = x.id /\ stack'[i].pc # "size"
      BY <2>3, <2>6
    <3> QED
      BY <2>5, <2>6, <3>2, <3>3, <3>4 DEF FrameImages
  <2>12. Listening'
    BY <1>0, <2>3, <2>5, <2>6, StackFacts DEF Listening, IInv
  <2>13. UserMode'
    BY <1>0, <2>5, <2>6 DEF UserMode, Depth
  <2>14. LoadedOnce'
    <3>1. ASSUME NEW y \in images PROVE Pages(x) \cap Pages(y) = {}
      BY <2>1, <2>3, ImageFacts DEF Pages
    <3> QED
      BY <2>3, <2>5, <2>8, <3>1 DEF IInv, LoadedOnce
  <2>15. RunsAttested'
    <3>1. table'[x.id] = 0 /\ ~\E i \in Depth : stack'[i].id = x.id /\ stack'[i].pc = "init"
      BY <2>3, <2>5, <2>6, <2>7
    <3>2. \A y \in images : \A i \in Depth :
            stack'[i].id = y.id /\ stack'[i].pc = "init" =>
              stack[i].id = y.id /\ stack[i].pc = "init"
      BY <2>3, <2>6
    <3> QED
      BY <2>5, <2>6, <3>1, <3>2 DEF IInv, RunsAttested, Depth
  <2>16. Unfilled'
    <3>1. Pages(b) \subseteq Page /\ \A p \in Pages(b) : p >= brk
      BY <2>1, <2>3, <2>5, SizeAssumption DEF IInv, ImageBounds, Pages, Page
    <3>2. \A p \in Page : p >= brk' => p >= brk
      BY <2>1, <2>5, SizeAssumption DEF Page
    <3> QED
      BY <2>5, <3>1, <3>2 DEF IInv, Unfilled
  <2> QED
    BY <2>5, <2>6, <2>9, <2>10, <2>11, <2>12, <2>13, <2>14, <2>15, <2>16
       DEF IInv, DependenciesRegistered, LoadedImpliesRegistered
<1>3. PICK t \in 0 .. TablePages :
        \/ panic
        \/ /\ ~(used + PageUp(a0) + t > PoolPages)
           /\ used' = used + PageUp(a0) + t
           /\ brk' = brk + PageUp(a0)
           /\ stack' = SetTop([Top EXCEPT !.pc = "wait", !.va = brk, !.size = a0])
           /\ images' = images \cup {[id |-> Top.id, va |-> brk, size |-> a0]}
           /\ mode' = "suspended" /\ msg' = "LOAD_MODULE"
           /\ rx' = {[va |-> brk, size |-> a0]}
           /\ UNCHANGED <<table, loaded, mem, a0>>
  BY DEF alloc_map_emodule
<1>4. PageUp(a0) \in Nat /\ used \in Nat
  BY PageUpNat, SizeAssumption DEF IInv, TypeOK
<1> QED
  BY <1>1, <1>2, <1>3, <1>4, SizeAssumption

\* The innermost load past its allocation owns one image, which covers the
\* pages it attests.
LEMMA TopImage ==
  ASSUME IInv, stack # << >>, Top.pc # "size"
  PROVE  /\ [id |-> Top.id, va |-> Top.va, size |-> Top.size] \in images
         /\ Top.va \in Nat /\ PageUp(Top.size) \in Nat
         /\ InitBrk <= Top.va /\ Top.va + PageUp(Top.size) <= brk
         /\ \A y \in images : y.id = Top.id => Pages(y) = Pages(Top)
         /\ \A y \in images : y.id # Top.id => Pages(y) \cap Pages(Top) = {}
<1> DEFINE x == [id |-> Top.id, va |-> Top.va, size |-> Top.size]
<1>1. x \in images
  BY StackFacts DEF IInv, FrameImages
<1>2. x.id = Top.id /\ x.va = Top.va /\ x.size = Top.size /\ Pages(x) = Pages(Top)
  BY DEF Pages
<1> HIDE DEF x
<1>3. \A y \in images : y.id = Top.id => y = x
  BY <1>1, <1>2 DEF IInv, LoadedOnce
<1>4. \A y \in images : y.id # Top.id => Pages(y) \cap Pages(x) = {}
  BY <1>1, <1>2 DEF IInv, LoadedOnce
<1>5. /\ x.va \in Nat /\ PageUp(x.size) \in Nat
      /\ InitBrk <= x.va /\ x.va + PageUp(x.size) <= brk
  BY <1>1, ImageFacts
<1> QED
  BY <1>1, <1>2, <1>3, <1>4, <1>5 DEF x

\* An attested image is entered; its buffer was filled before.
LEMMA Attest == ASSUME IInv, attest_emodule PROVE IInv'
<1>0. stack # << >> /\ mode = "smode" /\ Top.pc = "wait"
  BY DEF attest_emodule
<1>1. CASE panic
  BY <1>0, <1>1, Panic
<1>2. CASE /\ PageUp(Top.size) # 0 /\ mem[Top.va] # "zero"
           /\ \A p \in Pages(Top) : mem[p] = "signed"
           /\ stack' = SetTop([Top EXCEPT !.pc = "init"])
           /\ UNCHANGED <<table, loaded, brk, used, mem, mode, msg, a0, rx, images>>
  <2> DEFINE f == [Top EXCEPT !.pc = "init"]
  <2>1. Top \in Frame
    BY <1>0, StackFacts DEF IInv
  <2>2. /\ f \in Frame /\ f.id = Top.id /\ f.pc = "init" /\ f.va = Top.va
        /\ f.size = Top.size /\ f.dep = Top.dep
    BY <2>1 DEF Frame
  <2>3. stack' = SetTop(f)
    BY <1>2
  <2>4. /\ \A p \in Pages(Top) : mem[p] = "signed"
        /\ PageUp(Top.size) # 0 /\ mem[Top.va] # "zero"
        /\ UNCHANGED <<table, loaded, brk, used, mem, mode, msg, a0, rx, images>>
    BY <1>2
  <2> HIDE DEF f
  <2>5. /\ stack' \in Seq(Frame) /\ Len(stack') = Len(stack)
        /\ Depth' = Depth /\ Len(stack) \in Depth
        /\ stack'[Len(stack)] = f /\ Top' = f /\ Top = stack[Len(stack)]
        /\ \A i \in Depth : stack'[i] = IF i = Len(stack) THEN f ELSE stack[i]
        /\ \A i \in Depth : stack'[i].id = stack[i].id
        /\ StackOrder' /\ DepsSoFar'
    BY <1>0, <2>2, <2>3, <2>4, TopStep
  <2>6. /\ \A y \in images : y.id = Top.id => Pages(y) = Pages(Top)
        /\ Top.va \in Nat /\ PageUp(Top.size) \in Nat
    BY <1>0, TopImage
  <2>7. rx = {}
    <3>1. Top.va \in Pages(Top)
      BY <2>4, <2>6 DEF Pages
    <3>2. \A b \in rx : Pages(b) = Pages(Top)
      BY DEF IInv, Listening, Pages
    <3> QED
      BY <2>4, <3>1, <3>2 DEF IInv, Unfilled
  <2>8. TypeOK'
    BY <2>4, <2>5 DEF IInv, TypeOK
  <2>9. FrameImages'
    <3>1. \A i \in Depth : stack'[i].pc # "size" <=> stack[i].pc # "size"
      BY <1>0, <2>2, <2>5
    <3>2. \A i \in Depth : stack'[i].va = stack[i].va /\ stack'[i].size = stack[i].size
      BY <2>2, <2>5
    <3> QED
      BY <2>4, <2>5, <3>1, <3>2 DEF IInv, FrameImages
  <2>10. RunsAttested'
    <3>1. \A y \in images : \A i \in Depth :
            stack'[i].id = y.id /\ stack'[i].pc = "init" =>
              \/ stack[i].id = y.id /\ stack[i].pc = "init"
              \/ y.id = Top.id
      BY <2>5
    <3>2. \A y \in images : y.id = Top.id => \A p \in Pages(y) : mem[p] = "signed"
      BY <2>4, <2>6
    <3> QED
      BY <2>4, <2>5, <3>1, <3>2 DEF IInv, RunsAttested, Depth
  <2> QED
    BY <1>0, <2>4, <2>5, <2>7, <2>8, <2>9, <2>10
       DEF IInv, ImageBounds, Listening, Unfilled, UserMode, LoadedOnce,
           DependenciesRegistered, LoadedImpliesRegistered, Depth
<1> QED
  BY <1>1, <1>2 DEF attest_emodule

\* An init function goes past a registered dependency or starts its load.
LEMMA InitDependency == ASSUME IInv, init_dependency PROVE IInv'
<1> DEFINE d == Deps[Top.id][Top.dep]
<1>0. /\ stack # << >> /\ mode = "smode" /\ Top.pc = "init"
      /\ Top.dep <= Len(Deps[Top.id])
  BY DEF init_dependency
<1>1. /\ Top \in Frame /\ Top.id \in Emodule /\ Top.dep \in Nat \ {0}
      /\ Top = stack[Len(stack)] /\ Len(stack) \in Depth
  BY <1>0, StackFacts, FrameFacts DEF IInv
<1>2. d \in Emodule /\ d < Top.id /\ d \in Nat /\ Len(Deps[Top.id]) \in Nat
  BY <1>0, <1>1, DepsFacts
<1>3. get_emodule(d) = table[d]
  BY <1>2, DepsFacts, IdAssumption DEF get_emodule
<1>4. CASE /\ table[d] # 0
           /\ stack' = SetTop([Top EXCEPT !.dep = @ + 1])
           /\ UNCHANGED <<table, loaded, brk, used, mem, mode, msg, a0, rx, images>>
  <2> DEFINE f == [Top EXCEPT !.dep = @ + 1]
  <2>2. /\ f \in Frame /\ f.id = Top.id /\ f.pc = "init" /\ f.va = Top.va
        /\ f.size = Top.size /\ f.dep = Top.dep + 1
    BY <1>0, <1>1 DEF Frame
  <2>3. /\ stack' = SetTop(f) /\ table[d] # 0
        /\ UNCHANGED <<table, loaded, brk, used, mem, mode, msg, a0, rx, images>>
    BY <1>4
  <2> HIDE DEF f
  <2>5. /\ stack' \in Seq(Frame) /\ Len(stack') = Len(stack)
        /\ Depth' = Depth /\ Top' = f
        /\ \A i \in Depth : stack'[i] = IF i = Len(stack) THEN f ELSE stack[i]
        /\ \A i \in Depth : stack'[i].id = stack[i].id
        /\ StackOrder'
    BY <1>0, <2>2, <2>3, TopStep
  <2>6. \A i \in Depth : /\ stack'[i].pc = stack[i].pc /\ stack'[i].va = stack[i].va
                         /\ stack'[i].size = stack[i].size
    BY <1>0, <1>1, <2>2, <2>5
  <2>7. FrameImages' /\ RunsAttested'
    BY <2>3, <2>5, <2>6 DEF IInv, FrameImages, RunsAttested, Depth
  <2>8. DepsSoFar'
    <3>1. ASSUME NEW i \in Depth
          PROVE  /\ stack'[i].dep <= Len(Deps[stack'[i].id]) + 1
                 /\ \A k \in 1 .. Len(Deps[stack'[i].id]) :
                      k < stack'[i].dep => table'[Deps[stack'[i].id][k]] # 0
      <4>1. CASE i = Len(stack)
        <5>1. stack'[i] = f /\ f.dep = Top.dep + 1 /\ f.id = Top.id
          BY <2>2, <2>5, <4>1
        <5>2. \A k \in 1 .. Len(Deps[Top.id]) : k < Top.dep => table[Deps[Top.id][k]] # 0
          BY <1>1 DEF IInv, DepsSoFar
        <5>3. \A k \in 1 .. Len(Deps[Top.id]) : k < Top.dep + 1 => k < Top.dep \/ k = Top.dep
          BY <1>1
        <5> QED
          BY <1>0, <1>1, <1>2, <2>3, <5>1, <5>2, <5>3
      <4>2. CASE i # Len(stack)
        <5>1. stack'[i] = stack[i] /\ table' = table
          BY <2>3, <2>5, <4>2
        <5> QED
          BY <5>1 DEF IInv, DepsSoFar
      <4> QED
        BY <4>1, <4>2
    <3> QED
      BY <2>5, <3>1 DEF DepsSoFar
  <2>9. Listening' /\ UserMode'
    BY <1>0, <2>2, <2>3, <2>5 DEF IInv, Listening, UserMode, Depth
  <2> QED
    BY <2>3, <2>5, <2>7, <2>8, <2>9
       DEF IInv, TypeOK, ImageBounds, Unfilled, LoadedOnce,
           DependenciesRegistered, LoadedImpliesRegistered
<1>5. CASE table[d] = 0 /\ load_emodule(d)
  <2>1. \A i \in Depth : stack[i].pc = "init"
    BY <1>0, <1>1, TopFresh
  <2>2. ASSUME NEW i \in Depth PROVE d < stack[i].id
    <3>1. stack[i].id \in Nat /\ Top.id \in Nat
      BY <1>1, StackFacts, FrameFacts, DepsFacts DEF IInv
    <3>2. Top.id <= stack[i].id
      BY <1>1, <3>1 DEF IInv, StackOrder, Depth
    <3> QED
      BY <1>2, <3>1, <3>2
  <2> HIDE DEF d
  <2> QED
    BY <1>0, <1>2, <1>5, <2>1, <2>2, LoadEmodule
<1> QED
  BY <1>3, <1>4, <1>5 DEF init_dependency

\* Registering the innermost emodule, and returning to the load that asked
\* for it or to the user program.
LEMMA Register == ASSUME IInv, register_emodule PROVE IInv'
<1> DEFINE n == Len(stack)
<1>0. /\ stack # << >> /\ mode = "smode" /\ Top.pc = "init"
      /\ Top.dep > Len(Deps[Top.id])
  BY DEF register_emodule
<1>1. /\ Top \in Frame /\ Top.id \in Emodule /\ Top.id < TableSize /\ Top.id \in 0 .. TableSize - 1
      /\ Top = stack[n] /\ n \in Depth /\ n \in Nat \ {0} /\ Top.id \in Nat /\ TableSize \in Nat
  BY <1>0, StackFacts, FrameFacts, DepsFacts, IdAssumption DEF IInv, Depth
<1>2. /\ table' = [table EXCEPT ![Top.id] = Top.va] /\ stack' = Pop
      /\ \/ n = 1 /\ loaded' = [loaded EXCEPT ![Top.id] = TRUE] /\ mode' = "user"
         \/ n # 1 /\ loaded' = loaded /\ mode' = mode
      /\ UNCHANGED <<brk, used, mem, msg, a0, rx, images>>
  BY <1>1 DEF register_emodule
<1>3. /\ stack' \in Seq(Frame) /\ Len(stack') = n - 1 /\ Depth' = 1 .. n - 1
      /\ \A i \in 1 .. n - 1 : stack'[i] = stack[i] /\ i \in Depth /\ i # n
  BY <1>0, <1>1, <1>2, PopFacts DEF IInv, TypeOK, Depth
<1>4. /\ table[Top.id] = 0
      /\ \A i \in Depth : i # n => stack[i].pc = "init" /\ stack[i].id # Top.id
  BY <1>0, TopFresh
<1>5. /\ Top.va \in Nat /\ Top.va # 0
      /\ [id |-> Top.id, va |-> Top.va, size |-> Top.size] \in images
  BY <1>0, TopImage, SizeAssumption
<1>6. /\ table' \in [0 .. TableSize - 1 -> Nat]
      /\ table'[Top.id] # 0
      /\ \A m \in 0 .. TableSize - 1 : m # Top.id => table'[m] = table[m]
  BY <1>1, <1>2, <1>5 DEF IInv, TypeOK
<1>7. \A m \in Emodule : /\ m \in 0 .. TableSize - 1
                         /\ table[m] # 0 => table'[m] # 0
                         /\ table'[m] # 0 => table[m] # 0 \/ m = Top.id
  BY <1>6, DepsFacts
<1>8. TypeOK'
  BY Zenon, <1>2, <1>3, <1>6 DEF IInv, TypeOK, Modes
<1>9. StackOrder'
  <2>1. \A i \in 1 .. n - 1 : table'[stack[i].id] = 0
    BY SMTT(20), <1>3, <1>4, <1>7, StackFacts, FrameFacts DEF IInv, StackOrder
  <2>2. \A i, j \in 1 .. n - 1 : i < j => stack[j].id < stack[i].id
    BY <1>3 DEF IInv, StackOrder
  <2> QED
    BY Zenon, <1>3, <1>4, <2>1, <2>2 DEF StackOrder
<1>10. FrameImages'
  <2>1. \A i \in 1 .. n - 1 :
          [id |-> stack[i].id, va |-> stack[i].va, size |-> stack[i].size] \in images
    BY <1>3, <1>4 DEF IInv, FrameImages
  <2>2. ASSUME NEW y \in images
        PROVE table'[y.id] # 0 \/ \E i \in 1 .. n - 1 : stack[i].id = y.id /\ stack[i].pc # "size"
    <3>1. y.id \in Emodule
      BY ImageFacts
    <3>2. CASE table[y.id] # 0
      BY <1>7, <3>1, <3>2
    <3>3. ASSUME NEW i \in Depth, stack[i].id = y.id, stack[i].pc # "size"
          PROVE  table'[y.id] # 0 \/ i \in 1 .. n - 1
      BY <1>1, <1>6, <3>3 DEF Depth
    <3> QED
      BY <3>2, <3>3 DEF IInv, FrameImages
  <2> QED
    BY SMTT(20), <1>2, <1>3, <2>1, <2>2 DEF FrameImages
<1>11. Listening' /\ Unfilled' /\ ImageBounds' /\ LoadedOnce'
  BY <1>0, <1>2 DEF IInv, Listening, Unfilled, ImageBounds, LoadedOnce
<1>12. DepsSoFar'
  <2>1. ASSUME NEW i \in 1 .. n - 1
        PROVE  /\ stack[i].dep <= Len(Deps[stack[i].id]) + 1
               /\ \A k \in 1 .. Len(Deps[stack[i].id]) :
                    k < stack[i].dep => table'[Deps[stack[i].id][k]] # 0
    <3>1. i \in Depth /\ stack[i].id \in Emodule
      BY <1>3, StackFacts, FrameFacts DEF IInv
    <3> QED
      BY <1>7, <3>1, DepsFacts DEF IInv, DepsSoFar
  <2>2. ASSUME NEW i \in Depth'
        PROVE  i \in 1 .. n - 1 /\ stack'[i] = stack[i]
    BY <1>3, <2>2
  <2>3. ASSUME NEW i \in Depth'
        PROVE  /\ stack'[i].dep <= Len(Deps[stack'[i].id]) + 1
               /\ \A k \in 1 .. Len(Deps[stack'[i].id]) :
                    k < stack'[i].dep => table'[Deps[stack'[i].id][k]] # 0
    BY <2>1, <2>2, <2>3, Zenon
  <2> QED
    BY <2>3, Zenon DEF DepsSoFar
<1>13. UserMode'
  BY <1>0, <1>1, <1>2, <1>3 DEF UserMode
<1>14. RunsAttested'
  <2>1. ASSUME NEW y \in images,
               table'[y.id] # 0 \/ \E i \in 1 .. n - 1 :
                                     stack[i].id = y.id /\ stack[i].pc = "init"
        PROVE  table[y.id] # 0 \/ \E i \in Depth : stack[i].id = y.id /\ stack[i].pc = "init"
    BY Zenon, <1>0, <1>1, <1>3, <1>7, <2>1, ImageFacts
  <2> QED
    BY <1>2, <1>3, <2>1 DEF IInv, RunsAttested, Depth
<1>15. DependenciesRegistered'
  <2>1. \A k \in 1 .. Len(Deps[Top.id]) : table[Deps[Top.id][k]] # 0
    <3>1. \A k \in 1 .. Len(Deps[Top.id]) : k < Top.dep
      BY <1>0, <1>1, DepsFacts, FrameFacts
    <3> QED
      BY <1>1, <3>1 DEF IInv, DepsSoFar
  <2> QED
    BY <1>7, <2>1, DepsFacts DEF IInv, DependenciesRegistered
<1>16. LoadedImpliesRegistered'
  <2>1. \A m \in TopLevel : loaded'[m] => loaded[m] \/ m = Top.id
    BY <1>2 DEF IInv, TypeOK
  <2> QED
    BY <1>6, <1>7, <2>1, IdAssumption DEF IInv, LoadedImpliesRegistered
<1> QED
  BY <1>7, <1>8, <1>9, <1>10, <1>11, <1>12, <1>13, <1>14, <1>15, <1>16, IdAssumption DEF IInv

\* The steps of the enclave and the host that leave the loads as they are.
LEMMA LwipMain == ASSUME IInv, lwip_main PROVE IInv'
BY DEF lwip_main, IInv, TypeOK, StackOrder, ImageBounds, FrameImages, Listening,
   Unfilled, DepsSoFar, UserMode, LoadedOnce, RunsAttested, DependenciesRegistered,
   LoadedImpliesRegistered, Depth, Modes, Top

LEMMA Resume == ASSUME IInv, HostAnswerSize \/ HostResume PROVE IInv'
<1>1. /\ mode = "suspended" /\ mode' = "smode" /\ msg' = NoMsg /\ a0' \in Nat
      /\ UNCHANGED <<table, loaded, stack, brk, used, mem, rx, images>>
  BY SizeAssumption DEF HostAnswerSize, HostResume, IInv, TypeOK
<1> QED
  BY Zenon, <1>1 DEF IInv, TypeOK, StackOrder, ImageBounds, FrameImages, Listening,
     Unfilled, DepsSoFar, UserMode, LoadedOnce, RunsAttested,
     DependenciesRegistered, LoadedImpliesRegistered, Depth, Modes, Top, NoMsg

\* The image the host sends touches no emodule that runs.
LEMMA Send == ASSUME IInv, HostSend PROVE IInv'
<1>1. PICK b \in rx, c \in {"signed", "corrupt"} :
        mem' = [p \in Page |-> IF p \in Pages(b) THEN c ELSE mem[p]]
  BY DEF HostSend
<1>2. rx' = {} /\ UNCHANGED <<table, loaded, stack, brk, used, mode, msg, a0, images>>
  BY DEF HostSend
<1>3. stack # << >> /\ Top.pc = "wait" /\ Pages(b) = Pages(Top)
  BY DEF IInv, Listening, Pages
<1>4. /\ Top.va \in Nat /\ PageUp(Top.size) \in Nat
      /\ InitBrk <= Top.va /\ Top.va + PageUp(Top.size) <= brk
      /\ \A y \in images : y.id # Top.id => Pages(y) \cap Pages(Top) = {}
  BY <1>3, TopImage
<1>5. TypeOK'
  BY <1>1, <1>2 DEF IInv, TypeOK, Contents
<1>6. Unfilled'
  <2>1. \A p \in Page : p >= brk => p \notin Pages(Top)
    BY <1>4, SizeAssumption DEF IInv, TypeOK, Pages, Page
  <2> QED
    BY <1>1, <1>2, <1>3, <2>1 DEF IInv, Unfilled
<1>7. RunsAttested'
  <2>1. ASSUME NEW y \in images,
               table[y.id] # 0 \/ \E i \in Depth : stack[i].id = y.id /\ stack[i].pc = "init",
               NEW p \in Pages(y)
        PROVE  mem'[p] = "signed"
    <3>1. y.id # Top.id
      BY <1>3, <2>1, TopFresh, StackFacts DEF IInv
    <3>2. p \notin Pages(b)
      BY <1>3, <1>4, <3>1
    <3>3. mem[p] = "signed"
      BY <2>1 DEF IInv, RunsAttested, Depth
    <3>4. p \in Page
      <4>1. y.va \in Nat /\ PageUp(y.size) \in Nat /\ InitBrk <= y.va
            /\ y.va + PageUp(y.size) <= brk
        BY ImageFacts
      <4>2. brk <= InitBrk + used /\ used <= PoolPages /\ used \in Nat /\ brk \in Nat
        BY SizeAssumption DEF IInv, ImageBounds, TypeOK
      <4> QED
        BY <4>1, <4>2, SizeAssumption DEF Pages, Page
    <3> QED
      BY <1>1, <3>2, <3>3, <3>4
  <2> QED
    BY <1>2, <2>1 DEF RunsAttested, Depth
<1> QED
  BY <1>2, <1>5, <1>6, <1>7 DEF IInv, StackOrder, ImageBounds, FrameImages,
     Listening, DepsSoFar, UserMode, LoadedOnce, DependenciesRegistered,
     LoadedImpliesRegistered, Depth

LEMMA Stutter == ASSUME IInv, UNCHANGED vars PROVE IInv'
BY Zenon DEF vars, IInv, TypeOK, StackOrder, ImageBounds, FrameImages, Listening,
   Unfilled, DepsSoFar, UserMode, LoadedOnce, RunsAttested, DependenciesRegistered,
   LoadedImpliesRegistered, Depth, Top

LEMMA NextIInv == IInv /\ [Next]_vars => IInv'
BY LoadEmod, AllocMap, Attest, InitDependency, Register, LwipMain, Resume, Send,
   Stutter DEF Next, Halted

------------------------------------------------------------------------------
\* The inductive invariant holds of the loader of emod_manager.c.
THEOREM Invariance == Spec => []IInv
BY InitIInv, NextIInv, PTL DEF Spec

\* The loader's state keeps its types.
THEOREM TypeCorrect == Spec => []TypeOK
<1>1. IInv => TypeOK
  BY DEF IInv
<1> QED
  BY <1>1, Invariance, PTL

\* However loads nest, an emodule's image gets room once, in pages of its own.
THEOREM LoadsOnce == Spec => []LoadedOnce
<1>1. IInv => LoadedOnce
  BY DEF IInv
<1> QED
  BY <1>1, Invariance, PTL

\* Whatever the host sends and when, an emodule that runs is the attested one.
THEOREM OnlyAttestedRuns == Spec => []RunsAttested
<1>1. IInv => RunsAttested
  BY DEF IInv
<1> QED
  BY <1>1, Invariance, PTL

\* A registered emodule has all its dependencies registered.
THEOREM DependenciesFirst == Spec => []DependenciesRegistered
<1>1. IInv => DependenciesRegistered
  BY DEF IInv
<1> QED
  BY <1>1, Invariance, PTL

\* The wrappers' static flags never run ahead of the table.
THEOREM FlagsAgree == Spec => []LoadedImpliesRegistered
<1>1. IInv => LoadedImpliesRegistered
  BY DEF IInv
<1> QED
  BY <1>1, Invariance, PTL

\* Only register_emodule writes the table, and only an entry that is empty.
LEMMA TableStep ==
  ASSUME IInv, [Next]_vars
  PROVE  \/ table' = table
         \/ register_emodule /\ stack # << >> /\ table[Top.id] = 0
            /\ table' = [table EXCEPT ![Top.id] = Top.va]
<1>1. CASE register_emodule
  BY <1>1, TopFresh DEF register_emodule, panic
<1>2. ASSUME NEW m \in TopLevel, load_emod(m) PROVE table' = table
  BY <1>2 DEF load_emod, load_emodule, vars
<1>3. CASE init_dependency
  BY <1>3 DEF init_dependency, load_emodule
<1> QED
  BY <1>1, <1>2, <1>3 DEF Next, Halted, vars, alloc_map_emodule, attest_emodule,
     lwip_main, HostAnswerSize, HostResume, HostSend, panic

\* A getter is never removed from the table nor replaced.
THEOREM GettersKept == Spec => GettersStable
<1>1. IInv /\ [Next]_vars =>
        [\A m \in 0 .. TableSize - 1 : table[m] # 0 => table'[m] = table[m]]_vars
  BY Zenon, TableStep DEF IInv, TypeOK
<1> QED
  BY <1>1, Invariance, PTL DEF Spec, GettersStable

\* The loader implements the abstract table: an entry appears in one step,
\* after those of its dependencies, and stays.
THEOREM Refinement == Spec => AbstractSpec
<1> DEFINE R == {m \in Emodule : table[m] # 0}
<1>1. Init => Abstract!Init
  BY Zenon, IdAssumption, SizeAssumption DEF Init, Abstract!Init
<1>2. IInv /\ IInv' /\ [Next]_vars => [Abstract!Next]_R
  <2> SUFFICES ASSUME IInv, IInv', [Next]_vars
               PROVE  [Abstract!Next]_R
    OBVIOUS
  <2>1. CASE table' = table
    BY <2>1
  <2>2. CASE /\ register_emodule /\ stack # << >> /\ table[Top.id] = 0
             /\ table' = [table EXCEPT ![Top.id] = Top.va]
    <3>1. Top.id \in Emodule /\ Top.id \notin R
      BY <2>2, TopFresh
    <3>2. \A i \in DOMAIN Deps[Top.id] : Deps[Top.id][i] \in R
      <4>1. /\ Top \in Frame /\ Top = stack[Len(stack)] /\ Len(stack) \in Depth
            /\ Top.dep > Len(Deps[Top.id])
        BY <2>2, StackFacts DEF IInv, register_emodule
      <4>2. \A k \in 1 .. Len(Deps[Top.id]) : k < Top.dep
        BY <3>1, <4>1, DepsFacts, FrameFacts
      <4>3. DOMAIN Deps[Top.id] = 1 .. Len(Deps[Top.id])
        BY <3>1, IdAssumption
      <4> QED
        BY <3>1, <4>1, <4>2, <4>3, DepsFacts DEF IInv, DepsSoFar
    <3>3. Top.va # 0
      BY <2>2, TopImage, SizeAssumption DEF register_emodule
    <3>4. R' = R \cup {Top.id}
      BY <2>2, <3>1, <3>3, DepsFacts DEF IInv, TypeOK
    <3> QED
      BY <3>1, <3>2, <3>4 DEF Abstract!Next, Abstract!Register
  <2> QED
    BY <2>1, <2>2, TableStep
<1> QED
  BY <1>1, <1>2, Invariance, PTL DEF Spec, AbstractSpec, Abstract!Spec
==============================================================================
