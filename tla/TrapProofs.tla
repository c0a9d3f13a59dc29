------------------------------ MODULE TrapProofs ------------------------------
(***************************************************************************)
(* Proofs about Trap, for every program, period and number of faults.      *)
(***************************************************************************)
EXTENDS Trap, TLAPS

Other(s) == IF s = "S" THEN "U" ELSE "S"

\* The context in slot j of stack s, when the other stack has m contexts: it
\* was saved by a kernel trap, over another context, or it holds a pointer
\* into the other stack, to an empty stack or to a context that holds in turn
\* the pointer below this one.
FrameOK(s, j, m) ==
  LET c == stacks[s][j].sp
  IN \/ c = Zero /\ j >= 2
     \/ /\ c.stk = Other(s) /\ c.depth \in 0 .. m
        /\ c.depth = 0 => j = 1
        /\ c.depth >= 1 => stacks[Other(s)][c.depth].sp = [stk |-> s, depth |-> j - 1]

\* n contexts on stack s and m on the other one.
Live(s, n, m) ==
  /\ \A j \in 1 .. n : FrameOK(s, j, m)
  /\ \A j \in 1 .. m : FrameOK(Other(s), j, n)
  /\ n + m <= faults + 1

\* Kernel or program may run with stack pointer a and sscratch ss.
Shape(a, ss) ==
  \/ /\ ss = Zero
     /\ \E k \in 1 .. a.depth :
          /\ stacks[a.stk][k].sp # Zero
          /\ \A j \in k + 1 .. a.depth : stacks[a.stk][j].sp = Zero
          /\ Live(a.stk, a.depth, stacks[a.stk][k].sp.depth)
  \/ /\ ss # Zero /\ ss.stk = Other(a.stk)
     /\ Live(a.stk, a.depth, ss.depth)
     /\ a.depth = 0 => ss.depth = 0
     /\ a.depth >= 1 => stacks[a.stk][a.depth].sp = ss

\* The trap that is handled is the program's.
UserLevel(a) == /\ a = [stk |-> "S", depth |-> 1]
                /\ stacks["S"][1].sp = Top("U") /\ stacks["S"][1].reg = "user"

Boot(a, ss) == a = Top("S") /\ ss = Top("U")

\* What holds at kernel location l.
LocOK(l, a, ss) ==
  /\ l \in {K("manager"), K("enable")} => Boot(a, ss)
  /\ l \in {K("syscall"), K("timer"), K("suspend")} => ss = Zero /\ UserLevel(a)
  /\ l = K("syscall") => /\ stacks["S"][1].sepc[1] = "user"
                         /\ resume = User((stacks["S"][1].sepc[2] + 1) % UserPCs)
  /\ l \in {K("fault"), K("loadsp")} => ss = Zero
  /\ l = K("restore") => a.depth >= 1 /\ ss = stacks[a.stk][a.depth].sp

\* Stack pointer and sscratch after the return from the trap that is handled.
Below(a) == [stk |-> a.stk, depth |-> a.depth - 1]
BackSp == IF Frame.sp # Zero THEN Frame.sp ELSE Below(sp)
BackScratch == IF Frame.sp # Zero THEN Below(sp) ELSE Zero

Stops == {K("exit"), K("panic")}

\* What sret may do: a return to S mode finds the interrupted kernel code's
\* state, and one to the program the program's.
SretOK ==
  /\ spp = "S" => /\ sp.depth >= 1
                  /\ sepc \in {K(l) : l \in Loading}
                  /\ LocOK(sepc, BackSp, BackScratch)
  /\ sepc[1] = "user" =>
       /\ spp = "U"
       /\ Boot(sp, sscratch) \/ UserLevel(sp)
       /\ pc # K("syscall") => sepc = resume

Running ==
  priv = "S" /\ pc \notin Stops =>
    Shape(sp, sscratch) /\ LocOK(pc, sp, sscratch) /\ SretOK

Program ==
  InUser => /\ priv = "U" /\ pc = resume /\ reg = "user"
            /\ sp = Top("U") /\ sscratch = Top("S")

IInv == TypeOK /\ Running /\ Program

-------------------------------------------------------------------------------
(* Locations and stack pointers.                                             *)

LEMMA LocFacts ==
  /\ \A l \in STRING : K(l)[1] = l
  /\ \A n : User(n)[1] = "user" /\ User(n)[2] = n
  /\ \A x \in Loc : x[1] = "user" => x = User(x[2]) /\ x[2] \in 0 .. UserPCs - 1
  /\ \A x \in Loc : x[1] # "user" => x = K(x[1])
  /\ \A n : n \in 0 .. UserPCs - 1 => User(n) \in Loc
  /\ \A l \in Loading \cup {"enable", "suspend", "exit", "panic"} : K(l) \in Loc
BY DEF K, User, Loc, Loading

LEMMA PointerFacts ==
  ASSUME NEW a \in StackPointer
  PROVE  /\ a.stk \in {"S", "U"} /\ a.depth \in Nat /\ a.depth <= MaxFaults + 1
         /\ a = [stk |-> a.stk, depth |-> a.depth] /\ a # Zero
         /\ Other(a.stk) \in {"S", "U"} /\ Other(a.stk) # a.stk
         /\ Other(Other(a.stk)) = a.stk
BY TrapAssumption DEF StackPointer, Zero, Other

LEMMA FrameType ==
  ASSUME TypeOK, NEW s \in {"S", "U"}, NEW d \in Slots
  PROVE  /\ stacks[s][d].sp \in StackPointer \cup {Zero}
         /\ stacks[s][d].reg \in {"user", "kernel"}
         /\ stacks[s][d].sepc \in Loc
BY DEF TypeOK

\* The state the return from a trap restores is one the kernel or the program
\* may run with.
LEMMA Pop ==
  ASSUME TypeOK, Shape(sp, sscratch), sp.depth >= 1, sscratch = Frame.sp
  PROVE  Shape(BackSp, BackScratch) /\ BackSp \in StackPointer
         /\ BackScratch \in StackPointer \cup {Zero}
<1> DEFINE s == sp.stk
           n == sp.depth
<1>1. /\ s \in {"S", "U"} /\ n \in Slots /\ sp = [stk |-> s, depth |-> n]
      /\ Other(s) \in {"S", "U"} /\ Other(s) # s /\ Other(Other(s)) = s
  BY PointerFacts DEF TypeOK, Slots
<1>2. Below(sp) \in StackPointer /\ Below(sp).stk = s /\ Below(sp).depth = n - 1
      /\ Below(sp) # Zero
  BY <1>1, TrapAssumption DEF Below, StackPointer, Slots, Zero
<1>3. CASE Frame.sp = Zero
  <2>1. BackSp = Below(sp) /\ BackScratch = Zero
    BY <1>3 DEF BackSp, BackScratch
  <2>2. PICK k \in 1 .. n : /\ stacks[s][k].sp # Zero
                            /\ \A j \in k + 1 .. n : stacks[s][j].sp = Zero
                            /\ Live(s, n, stacks[s][k].sp.depth)
    BY <1>3, <1>1 DEF Shape, Zero
  <2>3. k # n
    BY <2>2, <1>3, <1>1 DEF Frame
  <2>4. k \in 1 .. n - 1
    BY <2>3, <1>1 DEF Slots
  <2> DEFINE m == stacks[s][k].sp.depth
  <2>5. m \in Nat
    <3>1. k \in Slots
      BY <2>4, <1>1, TrapAssumption DEF Slots
    <3>2. stacks[s][k].sp \in StackPointer
      BY <3>1, <1>1, <2>2, FrameType
    <3> QED
      BY <3>2, PointerFacts
  <2>6. \A j \in 1 .. m : FrameOK(Other(s), j, n - 1)
    <3> TAKE j \in 1 .. m
    <3>1. FrameOK(Other(s), j, n)
      BY <2>2 DEF Live
    <3>2. stacks[Other(s)][j].sp.depth = n =>
             stacks[Other(s)][j].sp = Zero \/ stacks[s][n].sp = [stk |-> Other(s), depth |-> j - 1]
      BY <3>1, <1>1 DEF FrameOK, Slots
    <3>3. stacks[s][n].sp # [stk |-> Other(s), depth |-> j - 1]
      BY <1>3, <1>1 DEF Frame, Zero
    <3> QED
      BY <3>1, <3>2, <3>3, <1>1 DEF FrameOK, Slots
  <2>7. Live(s, n - 1, m)
    <3>1. \A j \in 1 .. n - 1 : FrameOK(s, j, m)
      BY <2>2, <1>1 DEF Live, Slots
    <3>2. n - 1 + m <= faults + 1
      BY <2>2, <2>5, <1>1 DEF Live, Slots, TypeOK
    <3> QED
      BY <2>6, <3>1, <3>2 DEF Live
  <2>8. \A j \in k + 1 .. n - 1 : stacks[s][j].sp = Zero
    BY <2>2, <1>1 DEF Slots
  <2> HIDE DEF s, n, m
  <2>9. Shape(Below(sp), Zero)
    BY <2>2, <2>4, <2>7, <2>8, <1>2 DEF Shape, m
  <2> QED
    BY <2>9, <2>1, <1>2
<1>4. CASE Frame.sp # Zero
  <2>1. BackSp = Frame.sp /\ BackScratch = Below(sp)
    BY <1>4 DEF BackSp, BackScratch
  <2>2. Frame.sp \in StackPointer
    BY <1>1, <1>4, FrameType DEF Frame
  <2> DEFINE m == Frame.sp.depth
  <2>3. Frame.sp.stk = Other(s) /\ Live(s, n, m) /\ m \in Nat
    BY <1>4, <2>2, PointerFacts DEF Shape
  <2>4. FrameOK(s, n, m)
    BY SMTT(20), <2>3, <1>1 DEF Live, Slots
  <2>5. /\ m = 0 => n = 1
        /\ m >= 1 => stacks[Other(s)][m].sp = Below(sp)
    BY Zenon, <2>4, <1>4 DEF FrameOK, Frame, Below
  <2>6. \A j \in 1 .. m : FrameOK(Other(s), j, n - 1)
    <3> TAKE j \in 1 .. m
    <3>1. FrameOK(Other(s), j, n)
      BY <2>3 DEF Live
    <3>2. stacks[Other(s)][j].sp.depth = n =>
             stacks[Other(s)][j].sp = Zero \/ stacks[s][n].sp = [stk |-> Other(s), depth |-> j - 1]
      BY <3>1, <1>1 DEF FrameOK, Slots
    <3>3. stacks[s][n].sp # [stk |-> Other(s), depth |-> j - 1]
      BY <2>3 DEF Frame
    <3> QED
      BY <3>1, <3>2, <3>3, <1>1 DEF FrameOK, Slots
  <2>7. \A j \in 1 .. n - 1 : FrameOK(s, j, m)
    BY <2>3, <1>1 DEF Live, Slots
  <2>8. Live(Other(s), m, n - 1)
    BY <2>3, <2>6, <2>7, <1>1 DEF Live, Slots, TypeOK
  <2>9. Shape(Frame.sp, Below(sp))
    BY <1>1, <1>2, <2>3, <2>5, <2>8 DEF Shape
  <2> QED
    BY <2>9, <2>1, <2>2, <1>2
<1> QED
  BY <1>3, <1>4

\* Saving a context: the return from this trap will restore the state it was
\* taken in, and the saved contexts keep their shape.
LEMMA Push ==
  ASSUME TypeOK, Shape(sp, sscratch), NEW h, trap_handler(h),
         faults' \in 0 .. MaxFaults,
         \/ faults' = faults + 1
         \/ faults' = faults /\ sp.depth = 0 /\ sscratch # Zero
  PROVE  /\ Shape(sp, sscratch)' /\ sp' \in StackPointer /\ sp'.depth >= 1 /\ sscratch' = Zero
         /\ BackSp' = sp /\ BackScratch' = sscratch
         /\ Frame' = [reg |-> reg, sp |-> IF sscratch # Zero THEN sp ELSE Zero, sepc |-> pc]
         /\ \A s \in {"S", "U"}, d \in Slots :
              d <= (IF s = sp.stk THEN sp.depth ELSE IF sscratch # Zero THEN sscratch.depth ELSE 0)
                => stacks'[s][d] = stacks[s][d]
         /\ stacks' \in [{"S", "U"} -> [Slots -> [reg : {"user", "kernel"},
                             sp : StackPointer \cup {Zero}, sepc : Loc]]]
<1>0. PICK s \in {"S", "U"}, n \in Nat : sp = [stk |-> s, depth |-> n]
  BY PointerFacts DEF TypeOK
<1>a. PICK o \in {"S", "U"} : o = Other(s) /\ o # s /\ Other(o) = s
  BY DEF Other
<1>1. /\ s \in {"S", "U"} /\ n \in Nat /\ sp = [stk |-> s, depth |-> n] /\ sp # Zero
      /\ sp.stk = s /\ sp.depth = n /\ n <= MaxFaults + 1
      /\ o \in {"S", "U"} /\ o # s /\ Other(o) = s /\ Other(s) = o
      /\ sp \in StackPointer
  BY <1>0, <1>a, PointerFacts DEF TypeOK
<1>2. faults \in Nat /\ MaxFaults \in Nat
  BY TrapAssumption DEF TypeOK
<1>3. CASE sscratch = Zero
  <2> DEFINE ctx == [reg |-> reg, sp |-> Zero, sepc |-> pc]
  <2>1. PICK k \in 1 .. n : /\ stacks[s][k].sp # Zero
                            /\ \A j \in k + 1 .. n : stacks[s][j].sp = Zero
                            /\ Live(s, n, stacks[s][k].sp.depth)
    BY <1>3, <1>1 DEF Shape, Zero
  <2>2. k \in Slots /\ n \in Slots
    BY <1>1, <1>2 DEF Slots
  <2>3. stacks[s][k].sp \in StackPointer
    BY <1>1, <2>1, <2>2, FrameType
  <2>4. PICK m \in Nat : m = stacks[s][k].sp.depth
    BY <2>3, PointerFacts
  <2>5. n + m <= faults + 1 /\ faults' = faults + 1
    BY <2>1, <2>4, <1>3 DEF Live
  <2>6. n + 1 \in Slots /\ m \in 0 .. MaxFaults
    BY <2>5, <1>1, <1>2, <2>4, <2>2 DEF Slots
  <2>7. /\ stacks' = [stacks EXCEPT ![s][n + 1] = ctx]
        /\ sp' = [stk |-> s, depth |-> n + 1] /\ sscratch' = Zero
    BY <1>1, <1>3 DEF trap_handler
  <2>8. /\ stacks'[s][n + 1] = ctx
        /\ \A d \in Slots : d # n + 1 => stacks'[s][d] = stacks[s][d]
        /\ stacks'[o] = stacks[o]
    BY <2>7, <2>6, <1>1 DEF TypeOK
  <2>9. sp' \in StackPointer /\ sp' # Zero
    BY <2>7, <2>6, <1>1 DEF StackPointer, Slots, Zero
  <2>10. \A j \in 1 .. n + 1 : FrameOK(s, j, m)'
    <3> TAKE j \in 1 .. n + 1
    <3>1. CASE j = n + 1
      BY <3>1, <2>8, <2>2 DEF FrameOK, Slots
    <3>2. CASE j # n + 1
      <4>1. j \in Slots /\ j \in 1 .. n /\ FrameOK(s, j, m)
        BY <1>1, <1>2, <2>4, <3>2, <2>1, <2>6 DEF Live, Slots
      <4> QED
        BY <1>1, <4>1, <2>8 DEF FrameOK
    <3> QED
      BY <3>1, <3>2
  <2>11. \A j \in 1 .. m : FrameOK(o, j, n + 1)'
    <3> TAKE j \in 1 .. m
    <3>1. FrameOK(o, j, n)
      BY <1>1, <2>4, <2>1 DEF Live
    <3>2. \A d \in 1 .. n : stacks'[s][d] = stacks[s][d]
      BY <1>1, <1>2, <2>8, <2>2 DEF Slots
    <3> QED
      BY <3>1, <3>2, <2>8, <1>1 DEF FrameOK
  <2>12. Live(s, n + 1, m)'
    BY <2>10, <2>11, <2>5, <1>1, <1>2, <2>4 DEF Live
  <2>13. stacks'[s][k] = stacks[s][k]
    BY <2>8, <2>2
  <2>14. \A j \in k + 1 .. n + 1 : stacks'[s][j].sp = Zero
    <3> TAKE j \in k + 1 .. n + 1
    <3>1. j \in Slots
      BY <1>1, <1>2, <2>6, <2>2 DEF Slots
    <3> QED
      BY <3>1, <2>1, <2>8
  <2>15. Shape(sp, sscratch)'
    <3>1. k \in 1 .. n + 1
      BY <2>2 DEF Slots
    <3> QED
      BY <2>4, <1>1, <3>1, <2>12, <2>13, <2>14, <2>7, <2>1 DEF Shape
  <2>16. Frame' = ctx
    BY <2>7, <2>8 DEF Frame
  <2>17. BackSp' = sp /\ BackScratch' = sscratch
    BY <2>16, <2>7, <1>1, <1>3 DEF BackSp, BackScratch, Below
  <2>18. ctx \in [reg : {"user", "kernel"}, sp : StackPointer \cup {Zero}, sepc : Loc]
    BY DEF TypeOK
  <2>19. \A t \in {"S", "U"}, d \in Slots :
              d <= (IF t = s THEN n ELSE 0) => stacks'[t][d] = stacks[t][d]
    BY <2>8, <1>1 DEF Slots
  <2>20. stacks' \in [{"S", "U"} -> [Slots -> [reg : {"user", "kernel"},
                             sp : StackPointer \cup {Zero}, sepc : Loc]]]
    <3> HIDE DEF ctx
    <3> QED
      BY <2>7, <2>18, <2>6 DEF TypeOK
  <2> QED
    BY <2>7, <2>9, <2>15, <2>16, <2>17, <2>19, <2>20, <1>1, <1>3
<1>4. CASE sscratch # Zero
  <2> DEFINE ctx == [reg |-> reg, sp |-> sp, sepc |-> pc]
  <2>1. sscratch \in StackPointer
    BY <1>4 DEF TypeOK
  <2>a. PICK m \in Nat : m = sscratch.depth
    BY <2>1, PointerFacts
  <2>2. /\ sscratch.stk = o /\ m \in Nat /\ sscratch = [stk |-> o, depth |-> m]
        /\ Live(s, n, m) /\ (n = 0 => m = 0) /\ (n >= 1 => stacks[s][n].sp = sscratch)
    BY <2>1, <2>a, <1>1, <1>4, PointerFacts DEF Shape
  <2>3. n + m + 1 <= faults' + 1
    BY <2>2, <1>1, <1>2 DEF Live
  <2>b. faults' \in Nat /\ faults' <= MaxFaults
    BY <1>2
  <2>4. m + 1 \in Slots /\ n <= MaxFaults
    BY <2>a, <2>b, <2>3, <1>1, <1>2 DEF Slots
  <2>5. /\ stacks' = [stacks EXCEPT ![o][m + 1] = ctx]
        /\ sp' = [stk |-> o, depth |-> m + 1] /\ sscratch' = Zero
    BY <2>2, <1>4 DEF trap_handler
  <2>6. /\ stacks'[o][m + 1] = ctx
        /\ \A d \in Slots : d # m + 1 => stacks'[o][d] = stacks[o][d]
        /\ stacks'[s] = stacks[s]
    BY <2>5, <2>4, <1>1 DEF TypeOK
  <2>7. sp' \in StackPointer /\ sp' # Zero
    BY <2>5, <2>4, <1>1 DEF StackPointer, Slots, Zero
  <2>8. \A j \in 1 .. n : FrameOK(s, j, m + 1)'
    <3> TAKE j \in 1 .. n
    <3>1. FrameOK(s, j, m)
      BY <2>2 DEF Live
    <3>2. \A d \in 1 .. m : stacks'[o][d] = stacks[o][d]
      BY <1>2, <2>a, <2>6, <2>4 DEF Slots
    <3> QED
      BY <1>1, <2>a, <3>1, <3>2, <2>6, <2>2 DEF FrameOK
  <2>9. \A j \in 1 .. m + 1 : FrameOK(o, j, n)'
    <3> TAKE j \in 1 .. m + 1
    <3>1. CASE j = m + 1
      <4>1. n >= 1 => stacks'[s][n].sp = [stk |-> o, depth |-> m + 1 - 1]
        BY <2>6, <2>2
      <4>2. stacks'[o][j].sp = [stk |-> s, depth |-> n]
        BY <2>6, <1>1, <3>1
      <4> QED
        BY <4>1, <4>2, <3>1, <2>2, <1>1 DEF FrameOK
    <3>2. CASE j # m + 1
      <4>1. j \in Slots /\ j \in 1 .. m /\ FrameOK(o, j, n)
        BY <1>2, <1>1, <2>a, <3>2, <2>2, <2>4 DEF Live, Slots
      <4> QED
        BY <4>1, <2>6, <3>2, <1>1 DEF FrameOK
    <3> QED
      BY <3>1, <3>2
  <2>10. Live(o, m + 1, n)'
    BY <2>a, <2>8, <2>9, <2>3, <1>1, <1>2, <2>2 DEF Live
  <2>11. Shape(sp, sscratch)'
    <3>1. m + 1 \in 1 .. m + 1 /\ stacks'[o][m + 1].sp = sp /\ sp.depth = n
          /\ \A j \in m + 1 + 1 .. m + 1 : stacks'[o][j].sp = Zero
      BY <2>a, <1>1, <2>2, <2>6
    <3> QED
      BY <3>1, <2>10, <2>5, <1>1 DEF Shape
  <2>12. Frame' = ctx
    BY <2>5, <2>6 DEF Frame
  <2>13. BackSp' = sp /\ BackScratch' = sscratch
    BY <2>12, <2>5, <1>1, <2>2 DEF BackSp, BackScratch, Below
  <2>14. ctx \in [reg : {"user", "kernel"}, sp : StackPointer \cup {Zero}, sepc : Loc]
    BY DEF TypeOK
  <2>15. \A t \in {"S", "U"}, d \in Slots :
              d <= (IF t = s THEN n ELSE m) => stacks'[t][d] = stacks[t][d]
    BY <2>6, <1>1, <2>2 DEF Slots
  <2>16. stacks' \in [{"S", "U"} -> [Slots -> [reg : {"user", "kernel"},
                             sp : StackPointer \cup {Zero}, sepc : Loc]]]
    <3> HIDE DEF ctx
    <3> QED
      BY <2>5, <2>14, <2>4, <1>1 DEF TypeOK
  <2> QED
    BY <2>5, <2>7, <2>11, <2>12, <2>13, <2>15, <2>16, <1>1, <1>4, <2>2
<1> QED
  BY <1>3, <1>4

-------------------------------------------------------------------------------
(* The steps.                                                                *)

LEMMA EmptyShape ==
  ASSUME TypeOK, NEW s \in {"S", "U"}, NEW o \in {"S", "U"}, o = Other(s)
  PROVE  Shape(Top(s), Top(o))
<1>1. Live(s, 0, 0)
  BY DEF Live, TypeOK
<1>2. Top(o) # Zero /\ Top(o).stk = o /\ Top(o).depth = 0 /\ Top(s).stk = s /\ Top(s).depth = 0
  BY DEF Top, Zero
<1> QED
  BY <1>1, <1>2 DEF Shape

\* A trap of the program.
LEMMA UserTrap ==
  ASSUME IInv, InUser, NEW h \in {"syscall", "fault", "timer"}, trap_handler(h),
         UNCHANGED <<stip, count, faults, since>>,
         h # "syscall" => resume' = resume,
         h = "syscall" => resume' = User((pc[2] + 1) % UserPCs)
  PROVE  IInv'
<1>1. /\ TypeOK /\ sp = Top("U") /\ sscratch = Top("S") /\ reg = "user" /\ pc = resume
      /\ priv = "U"
  BY DEF IInv, Program
<1>2. Shape(sp, sscratch) /\ sscratch # Zero /\ sp.depth = 0
  BY <1>1, EmptyShape DEF Other, Top, Zero
<1>3. faults' \in 0 .. MaxFaults /\ faults' = faults
  BY <1>1 DEF TypeOK
<1>4. /\ Shape(sp, sscratch)' /\ sp' \in StackPointer /\ sscratch' = Zero
      /\ Frame' = [reg |-> reg, sp |-> sp, sepc |-> pc]
      /\ stacks' \in [{"S", "U"} -> [Slots -> [reg : {"user", "kernel"},
                             sp : StackPointer \cup {Zero}, sepc : Loc]]]
  BY <1>1, <1>2, <1>3, Push
<1>5. /\ sp' = [stk |-> "S", depth |-> 1] /\ sepc' = pc /\ spp' = "U" /\ priv' = "S"
      /\ reg' = "kernel" /\ pc' = K(h)
  BY <1>1, <1>2 DEF trap_handler, Top
<1>6. UserLevel(sp)' /\ stacks'["S"][1].sepc = pc
  BY <1>1, <1>4, <1>5 DEF UserLevel, Frame
<1>7. pc \in Loc /\ pc[1] = "user" /\ pc[2] \in 0 .. UserPCs - 1 /\ pc' \in Loc
      /\ pc' = K(h) /\ pc'[1] = h
  <2>1. pc \in Loc /\ pc[1] = "user" /\ pc[2] \in 0 .. UserPCs - 1
    BY <1>1, LocFacts DEF TypeOK, InUser
  <2>2. K(h) \in Loc /\ K(h)[1] = h
    BY DEF K, Loc, Loading
  <2> QED
    BY <2>1, <2>2, <1>5
<1>8. resume' \in Loc
  <2>1. (pc[2] + 1) % UserPCs \in 0 .. UserPCs - 1
    BY <1>7, TrapAssumption, Z3T(20)
  <2> QED
    BY <2>1, <1>1, LocFacts DEF TypeOK
<1>9. TypeOK'
  BY <1>1, <1>4, <1>5, <1>7, <1>8 DEF TypeOK
<1>10. LocOK(pc, sp, sscratch)'
  BY <1>4, <1>5, <1>6, <1>7 DEF LocOK, K
<1>11. SretOK'
  BY <1>1, <1>5, <1>6, <1>7 DEF SretOK, K
<1>12. Running' /\ Program'
  BY <1>4, <1>7, <1>10, <1>11 DEF Running, Program, InUser
<1> QED
  BY <1>9, <1>12 DEF IInv

\* A fault of the kernel.
LEMMA KernelTrap ==
  ASSUME IInv, KernelFault
  PROVE  IInv'
<1>1. /\ TypeOK /\ priv = "S" /\ pc[1] \in Loading /\ trap_handler("fault")
      /\ faults' = faults + 1 /\ UNCHANGED <<stip, count, resume, since>>
      /\ faults' \in 0 .. MaxFaults
  BY TrapAssumption DEF KernelFault, IInv, TypeOK
<1>2. pc \in Loc /\ pc[1] # "user" /\ pc = K(pc[1]) /\ pc \notin Stops
  BY <1>1, LocFacts DEF TypeOK, Loading, Stops, K
<1>3. Shape(sp, sscratch) /\ LocOK(pc, sp, sscratch)
  BY <1>1, <1>2 DEF IInv, Running
<1>4. /\ Shape(sp, sscratch)' /\ sp' \in StackPointer /\ sp'.depth >= 1 /\ sscratch' = Zero
      /\ BackSp' = sp /\ BackScratch' = sscratch
      /\ \A s \in {"S", "U"}, d \in Slots :
           d <= (IF s = sp.stk THEN sp.depth ELSE IF sscratch # Zero THEN sscratch.depth ELSE 0)
                => stacks'[s][d] = stacks[s][d]
      /\ stacks' \in [{"S", "U"} -> [Slots -> [reg : {"user", "kernel"},
                             sp : StackPointer \cup {Zero}, sepc : Loc]]]
  BY <1>1, <1>3, Push
<1>5. /\ sepc' = pc /\ spp' = "S" /\ priv' = "S" /\ reg' = "kernel" /\ pc' = K("fault")
  BY <1>1 DEF trap_handler
<1>6. pc' \in Loc /\ pc'[1] = "fault"
  BY <1>5 DEF K, Loc, Loading
<1>7. TypeOK'
  BY <1>1, <1>2, <1>4, <1>5, <1>6 DEF TypeOK
<1>8. LocOK(pc, sp, sscratch)'
  BY <1>4, <1>5 DEF LocOK, K
<1>9. LocOK(sepc, BackSp, BackScratch)'
  <2>1. UserLevel(sp) => stacks'["S"][1] = stacks["S"][1]
    BY <1>4, TrapAssumption DEF UserLevel, Slots
  <2>2. sp.depth >= 1 => stacks'[sp.stk][sp.depth] = stacks[sp.stk][sp.depth]
    <3>1. sp.stk \in {"S", "U"} /\ (sp.depth >= 1 => sp.depth \in Slots)
      BY <1>1, PointerFacts DEF TypeOK, Slots
    <3> QED
      BY <3>1, <1>4, <1>1, PointerFacts DEF TypeOK
  <2>3. pc \in {K("syscall"), K("timer"), K("suspend")} => UserLevel(sp)
    BY <1>3 DEF LocOK
  <2> QED
    BY <1>1, <1>3, <1>4, <1>5, <2>1, <2>2, <2>3 DEF LocOK, UserLevel
<1>10. SretOK'
  BY <1>1, <1>2, <1>4, <1>5, <1>9 DEF SretOK
<1>11. Running' /\ Program'
  BY <1>4, <1>6, <1>8, <1>10 DEF Running, Program, InUser
<1> QED
  BY <1>7, <1>11 DEF IInv

\* While the program's own trap is handled, the return is to U mode: in S mode
\* no code could go on with the program's stack.
LEMMA ProgramTrap ==
  ASSUME TypeOK, SretOK, UserLevel(sp)
  PROVE  spp = "U"
<1> SUFFICES ASSUME spp = "S" PROVE FALSE
  BY DEF TypeOK
<1>1. Frame.sp = Top("U") /\ Top("U") # Zero
  BY DEF UserLevel, Frame, Top, Zero
<1>2. BackSp = Top("U") /\ BackScratch = [stk |-> "S", depth |-> 0] /\ BackScratch # Zero
  BY <1>1 DEF UserLevel, BackSp, BackScratch, Below, Zero
<1>3. PICK l \in Loading : sepc = K(l)
  BY DEF SretOK
<1>4. LocOK(K(l), Top("U"), BackScratch)
  BY <1>2, <1>3 DEF SretOK
<1>5. Top("U").depth = 0 /\ Top("U").stk = "U"
  BY DEF Top
<1> QED
  BY <1>2, <1>4, <1>5 DEF Loading, LocOK, Boot, UserLevel, Top

\* The kernel's steps that leave the stacks alone and go to another kernel
\* location.
LEMMA KernelStep ==
  ASSUME IInv, priv = "S", pc \notin Stops, UNCHANGED <<priv, sp, reg, stacks, spp, faults, resume>>,
         pc' \in Loc, pc'[1] # "user", TypeOK',
         sscratch' = sscratch \/ (pc = K("loadsp") /\ sscratch' = Frame.sp),
         pc' \notin Stops => LocOK(pc, sp, sscratch)',
         \/ sepc' = sepc /\ pc # K("syscall")
         \/ sepc' = sepc /\ pc' \in Stops
         \/ pc = K("syscall") /\ sepc' = resume
  PROVE  IInv'
<1>1. TypeOK /\ Shape(sp, sscratch) /\ LocOK(pc, sp, sscratch) /\ SretOK
  BY DEF IInv, Running
<1>2. ASSUME pc' \notin Stops
      PROVE  Shape(sp, sscratch)' /\ LocOK(pc, sp, sscratch)' /\ SretOK'
  <2>1. Shape(sp, sscratch)'
    <3>1. CASE sscratch' = sscratch
      BY ZenonT(30), <3>1, <1>1 DEF Shape, Live, FrameOK
    <3>2. CASE pc = K("loadsp") /\ sscratch' = Frame.sp
      <4>1. sscratch = Zero
        BY <1>1, <3>2 DEF LocOK
      <4>2. CASE Frame.sp = Zero
        BY ZenonT(30), <4>1, <4>2, <3>2, <1>1 DEF Shape, Live, FrameOK
      <4>3. CASE Frame.sp # Zero
        <5>1. PICK s \in {"S", "U"}, n \in Nat : sp = [stk |-> s, depth |-> n] /\ n <= MaxFaults + 1
          BY <1>1, PointerFacts DEF TypeOK
        <5>2. PICK k \in 1 .. n : /\ stacks[s][k].sp # Zero
                                  /\ \A j \in k + 1 .. n : stacks[s][j].sp = Zero
                                  /\ Live(s, n, stacks[s][k].sp.depth)
          BY <4>1, <5>1, <1>1 DEF Shape, Zero
        <5>3. k = n
          BY <5>1, <5>2, <4>3 DEF Frame
        <5>4. n >= 1 /\ Live(s, n, Frame.sp.depth) /\ Frame = stacks[s][n]
          BY <5>1, <5>2, <5>3 DEF Frame
        <5>5. FrameOK(s, n, Frame.sp.depth)
          BY <5>4, <5>1 DEF Live
        <5>6. Frame.sp.stk = Other(s)
          BY <5>5, <5>4, <4>3 DEF FrameOK
        <5>7. Shape(sp, Frame.sp)
          BY <5>1, <5>4, <5>6, <4>3 DEF Shape
        <5> QED
          BY Zenon, <5>7, <3>2 DEF Shape, Live, FrameOK
      <4> QED
        BY <4>2, <4>3
    <3> QED
      BY SMTT(20), <3>1, <3>2
  <2>2. LocOK(pc, sp, sscratch)'
    BY <1>2
  <2>3. BackSp' = BackSp /\ BackScratch' = BackScratch
    BY DEF BackSp, BackScratch, Frame, Below
  <2>4. SretOK'
    <3>1. CASE sepc' = sepc /\ pc # K("syscall")
      <4>1. LocOK(sepc, BackSp, BackScratch) => LocOK(sepc, BackSp, BackScratch)'
        BY <3>1, <2>3 DEF LocOK, UserLevel, Boot
      <4>2. sepc[1] = "user" => (Boot(sp, sscratch) \/ UserLevel(sp))'
        <5>1. Boot(sp, sscratch) => pc # K("loadsp")
          BY <1>1 DEF LocOK, Boot, Top, Zero
        <5> QED
          BY <5>1, <1>1 DEF SretOK, Boot, UserLevel
      <4> QED
        BY <3>1, <4>1, <4>2, <1>1 DEF SretOK
    <3>2. CASE pc = K("syscall") /\ sepc' = resume
      <4>1. UserLevel(sp)'
        BY SMTT(20), <3>2, <1>1 DEF LocOK, UserLevel
      <4>2. sepc'[1] = "user"
        BY <3>2, <1>1, LocFacts DEF LocOK
      <4>3. spp = "U"
        BY <3>2, <1>1, ProgramTrap DEF LocOK
      <4> QED
        BY <3>2, <4>1, <4>2, <4>3 DEF SretOK
    <3> QED
      BY <3>1, <3>2, <1>2
  <2> QED
    BY <2>1, <2>2, <2>4
<1>3. Running' /\ Program'
  BY <1>2 DEF Running, Program, InUser
<1> QED
  BY <1>3 DEF IInv

\* The return from a trap.
LEMMA TrapReturn ==
  ASSUME IInv, RESTORE_CONTEXT
  PROVE  IInv'
<1>1. /\ TypeOK /\ pc = K("restore") /\ priv = "S" /\ pc \notin Stops
      /\ pc' = sepc /\ priv' = spp /\ spp' = "U" /\ reg' = Frame.reg
      /\ UNCHANGED <<sepc, stacks, stip, count, faults, resume, since>>
  BY DEF RESTORE_CONTEXT, IInv, K, Stops
<1>2. Shape(sp, sscratch) /\ LocOK(pc, sp, sscratch) /\ SretOK
  BY <1>1 DEF IInv, Running
<1>3. sp.depth >= 1 /\ sscratch = Frame.sp
  BY <1>1, <1>2 DEF LocOK, Frame
<1>4. sp' = BackSp /\ sscratch' = BackScratch
  <2>1. sp = [stk |-> sp.stk, depth |-> sp.depth]
    BY <1>1, PointerFacts DEF TypeOK
  <2>2. [sp EXCEPT !.depth = @ - 1] = Below(sp)
    BY <2>1 DEF Below
  <2> QED
    BY <1>3, <2>2 DEF RESTORE_CONTEXT, BackSp, BackScratch
<1>5. /\ Shape(BackSp, BackScratch) /\ BackSp \in StackPointer
      /\ BackScratch \in StackPointer \cup {Zero}
  BY <1>1, <1>2, <1>3, Pop
<1>6. Frame.reg \in {"user", "kernel"}
  <2>1. sp.stk \in {"S", "U"} /\ sp.depth \in Slots
    BY <1>1, <1>3, PointerFacts DEF TypeOK, Slots
  <2> QED
    BY <1>1, <2>1, FrameType DEF Frame
<1>7. TypeOK'
  BY <1>1, <1>4, <1>5, <1>6 DEF TypeOK
<1>8. CASE spp = "S"
  <2>1. sepc \in {K(l) : l \in Loading} /\ LocOK(sepc, BackSp, BackScratch)
    BY <1>2, <1>8 DEF SretOK
  <2>2. sepc[1] # "user"
    BY <2>1 DEF K, Loading
  <2>3. LocOK(pc, sp, sscratch)'
    BY SMTT(20), <2>1, <1>1, <1>4 DEF LocOK, Boot, UserLevel
  <2>4. Shape(sp, sscratch)'
    BY Zenon, <1>1, <1>4, <1>5 DEF Shape, Live, FrameOK
  <2>5. SretOK'
    BY <1>1, <2>2 DEF SretOK
  <2> QED
    BY <1>1, <1>7, <2>2, <2>3, <2>4, <2>5 DEF IInv, Running, Program, InUser
<1>9. CASE spp = "U"
  <2>1. Running'
    BY <1>1, <1>9 DEF Running
  <2>2. Program'
    <3> SUFFICES ASSUME sepc[1] = "user"
                 PROVE  Program'
      BY <1>1 DEF Program, InUser
    <3>1. UserLevel(sp) /\ sepc = resume
      BY <1>1, <1>2, <1>3 DEF SretOK, Boot, Top, K
    <3>2. Frame.sp = Top("U") /\ Frame.reg = "user" /\ Top("U") # Zero
      BY <3>1 DEF UserLevel, Frame, Top, Zero
    <3>3. BackSp = Top("U") /\ BackScratch = Top("S")
      BY <3>1, <3>2 DEF BackSp, BackScratch, Below, UserLevel, Top
    <3> QED
      BY <1>1, <1>4, <1>9, <3>1, <3>2, <3>3 DEF Program
  <2> QED
    BY <1>7, <2>1, <2>2 DEF IInv
<1> QED
  BY <1>1, <1>8, <1>9 DEF TypeOK

\* The start of the program.
LEMMA Start ==
  ASSUME IInv, start_payload
  PROVE  IInv'
<1>1. /\ TypeOK /\ pc = K("enable") /\ priv = "S" /\ pc \notin Stops
      /\ sp' = sscratch /\ sscratch' = sp /\ reg' = "user"
      /\ pc' = sepc /\ priv' = spp /\ spp' = "U"
      /\ UNCHANGED <<sepc, stacks, stip, count, faults, resume, since>>
  BY DEF start_payload, IInv, K, Stops
<1>2. LocOK(pc, sp, sscratch) /\ SretOK
  BY <1>1 DEF IInv, Running
<1>3. sp = Top("S") /\ sscratch = Top("U") /\ sscratch # Zero
  BY <1>1, <1>2 DEF LocOK, Boot, Top, Zero
<1>4. spp = "U"
  BY <1>1, <1>2, <1>3 DEF SretOK, TypeOK, Top
<1>5. sepc[1] = "user" => sepc = resume
  BY <1>1, <1>2 DEF SretOK, K
<1>6. TypeOK'
  BY <1>1, <1>3 DEF TypeOK
<1>7. Running' /\ Program'
  BY <1>1, <1>3, <1>4, <1>5 DEF Running, Program, InUser
<1> QED
  BY <1>6, <1>7 DEF IInv

LEMMA Initially == Init => IInv
<1> SUFFICES ASSUME Init PROVE IInv
  OBVIOUS
<1>1. /\ elf_entry \in Loc /\ K("manager") \in Loc /\ K("panic") \in Loc
      /\ 1 % Period \in 0 .. Period - 1 /\ 0 \in 0 .. MaxFaults
      /\ K("manager")[1] = "manager" /\ elf_entry[1] = "user"
  <2>1. 1 % Period \in 0 .. Period - 1 /\ 0 \in 0 .. MaxFaults /\ 0 \in 0 .. UserPCs - 1
    BY TrapAssumption, Z3T(20)
  <2> QED
    BY <2>1 DEF elf_entry, Loc, User, K, Loading
<1>2. Top("S") \in StackPointer /\ Top("U") \in StackPointer
  BY TrapAssumption DEF Top, StackPointer
<1>3. Unused \in [reg : {"user", "kernel"}, sp : StackPointer \cup {Zero}, sepc : Loc]
  BY <1>1 DEF Unused
<1>4. stacks \in [{"S", "U"} -> [Slots -> [reg : {"user", "kernel"},
                                          sp : StackPointer \cup {Zero}, sepc : Loc]]]
  BY <1>3 DEF Init
<1>5. TypeOK
  BY Zenon, <1>1, <1>2, <1>4 DEF Init, TypeOK
<1>6. Shape(sp, sscratch)
  BY <1>5, EmptyShape DEF Init, Other
<1>7. LocOK(pc, sp, sscratch)
  BY DEF Init, LocOK, Boot, K
<1>8. SretOK
  BY DEF Init, SretOK, Boot
<1> QED
  BY <1>1, <1>5, <1>6, <1>7, <1>8 DEF Init, IInv, Running, Program, InUser

\* The handlers, and the first half of the exit.
LEMMA Handlers ==
  ASSUME IInv,
         \/ emod_manager_init \/ syscall_handler \/ sys_exit \/ timer_interrupt_handler
         \/ HostResumes \/ access_fault \/ restore_sscratch
  PROVE  IInv'
<1>1. /\ TypeOK /\ priv = "S" /\ pc \notin Stops
      /\ UNCHANGED <<priv, sp, reg, stacks, spp, faults, resume>>
  BY DEF IInv, Stops, K, csr, emod_manager_init, syscall_handler, sys_exit,
         timer_interrupt_handler, HostResumes, access_fault, restore_sscratch
<1>2. Shape(sp, sscratch) /\ LocOK(pc, sp, sscratch) /\ SretOK
  BY <1>1 DEF IInv, Running
<1>3. CASE emod_manager_init
  <2>1. pc = K("manager") /\ pc' = K("enable") /\ UNCHANGED <<csr, stip, count, since>>
    BY <1>3 DEF emod_manager_init
  <2>2. pc' \in Loc /\ pc'[1] # "user" /\ pc # K("syscall")
    BY <2>1 DEF K, Loc
  <2>3. TypeOK'
    BY <1>1, <2>1, <2>2 DEF TypeOK, csr
  <2>4. LocOK(pc, sp, sscratch)'
    BY <1>1, <1>2, <2>1 DEF LocOK, Boot, K, csr
  <2> QED
    BY <1>1, <2>1, <2>2, <2>3, <2>4, KernelStep DEF csr
<1>4. CASE syscall_handler
  <2>1. /\ pc = K("syscall") /\ pc' = K("loadsp") /\ UNCHANGED <<sscratch, stip, count, since>>
        /\ sepc' = User((Frame.sepc[2] + 1) % UserPCs)
    BY <1>4 DEF syscall_handler
  <2>2. pc' \in Loc /\ pc'[1] # "user"
    BY <2>1 DEF K, Loc, Loading
  <2>3. sscratch = Zero /\ UserLevel(sp) /\ resume = User((stacks["S"][1].sepc[2] + 1) % UserPCs)
    BY <1>2, <2>1 DEF LocOK
  <2>4. sepc' = resume
    BY <2>1, <2>3 DEF Frame, UserLevel
  <2>5. TypeOK'
    BY <1>1, <2>1, <2>2, <2>4 DEF TypeOK
  <2>6. LocOK(pc, sp, sscratch)'
    BY <1>1, <2>1, <2>3 DEF LocOK, K
  <2> QED
    BY <1>1, <2>1, <2>2, <2>4, <2>5, <2>6, KernelStep
<1>5. CASE sys_exit
  <2>1. pc' = K("exit") /\ UNCHANGED <<csr, stip, count, since>>
    BY <1>5 DEF sys_exit
  <2>2. pc' \in Loc /\ pc'[1] # "user" /\ pc' \in Stops
    BY <2>1 DEF K, Loc, Stops
  <2>3. TypeOK'
    BY <1>1, <2>1, <2>2 DEF TypeOK, csr
  <2> QED
    BY <1>1, <2>1, <2>2, <2>3, KernelStep DEF csr
<1>6. CASE timer_interrupt_handler
  <2>1. /\ pc = K("timer") /\ pc' \in {K("suspend"), K("loadsp")} /\ UNCHANGED csr
        /\ stip' = FALSE /\ count' = (count + 1) % Period /\ since' = since + 1
    BY <1>6 DEF timer_interrupt_handler
  <2>2. pc' \in Loc /\ pc'[1] # "user" /\ pc # K("syscall")
    BY <2>1 DEF K, Loc, Loading
  <2>3. (count + 1) % Period \in 0 .. Period - 1 /\ since + 1 \in Nat
    <3>1. count \in Nat /\ since \in Nat
      BY <1>1, TrapAssumption DEF TypeOK
    <3> QED
      BY <3>1, TrapAssumption, Z3T(20)
  <2>4. TypeOK'
    BY Zenon, <1>1, <2>1, <2>2, <2>3 DEF TypeOK, csr
  <2>5. LocOK(pc, sp, sscratch)'
    BY <1>1, <1>2, <2>1 DEF LocOK, UserLevel, K, csr
  <2> QED
    BY <1>1, <2>1, <2>2, <2>4, <2>5, KernelStep DEF csr
<1>7. CASE HostResumes
  <2>1. /\ pc = K("suspend") /\ pc' = K("loadsp") /\ UNCHANGED <<csr, stip, count>>
        /\ since' = 0
    BY <1>7 DEF HostResumes
  <2>2. pc' \in Loc /\ pc'[1] # "user" /\ pc # K("syscall")
    BY <2>1 DEF K, Loc, Loading
  <2>3. TypeOK'
    BY <1>1, <2>1, <2>2 DEF TypeOK, csr
  <2>4. LocOK(pc, sp, sscratch)'
    BY <1>1, <1>2, <2>1 DEF LocOK, K, csr
  <2> QED
    BY <1>1, <2>1, <2>2, <2>3, <2>4, KernelStep DEF csr
<1>8. CASE access_fault
  <2>1. pc = K("fault") /\ pc' = K("loadsp") /\ UNCHANGED <<csr, stip, count, since>>
    BY <1>8 DEF access_fault
  <2>2. pc' \in Loc /\ pc'[1] # "user" /\ pc # K("syscall")
    BY <2>1 DEF K, Loc, Loading
  <2>3. TypeOK'
    BY <1>1, <2>1, <2>2 DEF TypeOK, csr
  <2>4. LocOK(pc, sp, sscratch)'
    BY <1>1, <1>2, <2>1 DEF LocOK, K, csr
  <2> QED
    BY <1>1, <2>1, <2>2, <2>3, <2>4, KernelStep DEF csr
<1>9. CASE restore_sscratch
  <2>1. /\ pc = K("loadsp") /\ pc' = K("restore") /\ UNCHANGED <<sepc, stip, count, since>>
        /\ sscratch' = Frame.sp
    BY <1>9 DEF restore_sscratch
  <2>2. pc' \in Loc /\ pc'[1] # "user" /\ pc # K("syscall")
    BY <2>1 DEF K, Loc, Loading
  <2>3. sp.stk \in {"S", "U"} /\ sp.depth \in Slots /\ sp.depth >= 1
    <3>1. sp.depth >= 1
      BY <1>1, <1>2, <2>1, PointerFacts DEF Shape, LocOK, TypeOK
    <3> QED
      BY <3>1, <1>1, PointerFacts DEF TypeOK, Slots
  <2>4. Frame.sp \in StackPointer \cup {Zero}
    BY <1>1, <2>3, FrameType DEF Frame
  <2>5. TypeOK'
    BY <1>1, <2>1, <2>2, <2>4 DEF TypeOK
  <2>6. LocOK(pc, sp, sscratch)'
    BY <1>1, <2>1, <2>3 DEF LocOK, K, Frame
  <2> QED
    BY <1>1, <2>1, <2>2, <2>5, <2>6, KernelStep
<1> QED
  BY <1>3, <1>4, <1>5, <1>6, <1>7, <1>8, <1>9

LEMMA Preserved == IInv /\ [Next]_vars => IInv'
<1> SUFFICES ASSUME IInv, [Next]_vars PROVE IInv'
  OBVIOUS
<1>1. CASE \/ emod_manager_init \/ syscall_handler \/ sys_exit \/ timer_interrupt_handler
           \/ HostResumes \/ access_fault \/ restore_sscratch
  BY <1>1, Handlers
<1>2. CASE start_payload
  BY <1>2, Start
<1>3. CASE RESTORE_CONTEXT
  BY <1>3, TrapReturn
<1>4. CASE KernelFault
  BY <1>4, KernelTrap
<1>5. CASE TimerInterrupt
  BY <1>5, UserTrap DEF TimerInterrupt
<1>6. CASE Ecall
  BY <1>6, UserTrap DEF Ecall
<1>7. CASE UserFault
  BY <1>7, UserTrap DEF UserFault
<1>8. CASE panic
  <2>1. pc' = K("panic") /\ UNCHANGED <<sp, reg, csr, stacks, stip, count, faults, resume, since>>
        /\ priv' = "S"
    BY <1>8 DEF panic
  <2>2. pc' \in Loc /\ pc'[1] # "user" /\ pc' \in Stops
    BY <2>1 DEF K, Loc, Stops
  <2>3. TypeOK'
    BY <2>1, <2>2 DEF IInv, TypeOK, csr
  <2> QED
    BY <2>2, <2>3 DEF IInv, Running, Program, InUser
<1>9. CASE UserStep
  <2>1. /\ priv = "U" /\ InUser /\ resume' = pc'
        /\ UNCHANGED <<priv, sp, reg, csr, stacks, stip, count, faults, since>>
    BY <1>9 DEF UserStep
  <2>2. pc' \in Loc
    BY <1>9, LocFacts DEF UserStep
  <2>3. TypeOK'
    BY <2>1, <2>2 DEF IInv, TypeOK, csr
  <2>4. Running'
    BY <2>1 DEF Running
  <2>5. Program'
    BY <2>1 DEF IInv, Program, csr
  <2> QED
    BY <2>3, <2>4, <2>5 DEF IInv
<1>10. CASE TimerExpires \/ UNCHANGED vars
  <2>1. /\ UNCHANGED <<pc, priv, sp, reg, csr, stacks, count, faults, resume, since>>
        /\ stip' \in BOOLEAN
    BY Zenon, <1>10 DEF TimerExpires, vars, IInv, TypeOK
  <2>2. TypeOK'
    BY <2>1 DEF IInv, TypeOK, csr
  <2>3. Running'
    <3>1. Shape(sp, sscratch) => Shape(sp, sscratch)'
      BY Zenon, <2>1 DEF Shape, Live, FrameOK, csr
    <3>2. LocOK(pc, sp, sscratch) => LocOK(pc, sp, sscratch)'
      BY <2>1 DEF LocOK, Boot, UserLevel, csr
    <3>3. BackSp' = BackSp /\ BackScratch' = BackScratch
      BY <2>1 DEF BackSp, BackScratch, Frame, Below
    <3>4. SretOK => SretOK'
      BY <2>1, <3>3 DEF SretOK, LocOK, Boot, UserLevel, csr
    <3> QED
      BY <2>1, <3>1, <3>2, <3>4 DEF IInv, Running
  <2>4. Program'
    BY <2>1 DEF IInv, Program, InUser, csr
  <2> QED
    BY <2>2, <2>3, <2>4 DEF IInv
<1> QED
  BY <1>1, <1>2, <1>3, <1>4, <1>5, <1>6, <1>7, <1>8, <1>9, <1>10 DEF Next, Kernel, Stopped

THEOREM Invariance == Spec => []IInv
BY Initially, Preserved, PTL DEF Spec

-------------------------------------------------------------------------------
\* The stacks never overflow the contexts the faults account for, and every
\* register keeps its type.
THEOREM TypeCorrect == Spec => []TypeOK
<1>1. IInv => TypeOK
  BY DEF IInv
<1> QED
  BY <1>1, Invariance, PTL

\* trap_handler's exit: however many loads of the kernel fault, and wherever,
\* a program that runs has its registers and stack, and the hart its S-mode
\* stack, as before the trap.
THEOREM ProgramKept == Spec => []ProgramState
<1>1. IInv => ProgramState
  BY DEF IInv, Program, ProgramState
<1> QED
  BY <1>1, Invariance, PTL

\* A program goes on where it was interrupted, or not at all.
THEOREM InPlace == Spec => []ResumesInPlace
<1>1. IInv => ResumesInPlace
  BY DEF IInv, Program, ResumesInPlace
<1> QED
  BY <1>1, Invariance, PTL

\* sret never enters the program in S mode.
THEOREM UserModeOnly == Spec => []NoUserCodeInS
<1>1. IInv => NoUserCodeInS
  BY DEF IInv, Program, NoUserCodeInS
<1> QED
  BY <1>1, Invariance, PTL

-------------------------------------------------------------------------------
\* count runs ahead of the interrupts since the last suspension by one.  sret
\* cannot go to the suspension, which has no load that faults.
Timing ==
  /\ sepc # K("suspend")
  /\ pc = K("suspend") => priv = "S" /\ since = Period /\ count = 1 % Period
  /\ pc # K("suspend") => since = IF count = 0 THEN Period - 1 ELSE count - 1

LEMMA TimingStep == TypeOK /\ Timing /\ [Next]_vars => Timing'
<1> SUFFICES ASSUME TypeOK, Timing, [Next]_vars PROVE Timing'
  OBVIOUS
<1>1. Period \in Nat /\ Period >= 1 /\ count \in 0 .. Period - 1 /\ since \in Nat
  BY TrapAssumption DEF TypeOK
<1>2. CASE timer_interrupt_handler
  <2>1. /\ pc = K("timer") /\ pc # K("suspend") /\ priv' = "S" /\ sepc' = sepc
        /\ count' = (count + 1) % Period /\ since' = since + 1
        /\ pc' = IF count = 0 THEN K("suspend") ELSE K("loadsp")
        /\ K("loadsp") # K("suspend")
    BY <1>2 DEF timer_interrupt_handler, csr, K
  <2>2. since = IF count = 0 THEN Period - 1 ELSE count - 1
    BY <2>1 DEF Timing
  <2>3. /\ count + 1 < Period => (count + 1) % Period = count + 1
        /\ count + 1 = Period => (count + 1) % Period = 0
    BY <1>1, Z3T(20)
  <2>4. CASE count = 0
    BY <1>1, <2>1, <2>2, <2>4 DEF Timing
  <2>5. CASE count # 0
    BY <1>1, <2>1, <2>2, <2>3, <2>5 DEF Timing
  <2> QED
    BY <2>4, <2>5
<1>3. CASE HostResumes
  <2>1. /\ pc = K("suspend") /\ pc' = K("loadsp") /\ pc' # K("suspend")
        /\ sepc' = sepc /\ count' = count /\ since' = 0
    BY <1>3 DEF HostResumes, csr, K
  <2>2. count = 1 % Period
    BY <2>1 DEF Timing
  <2>3. (Period = 1 => 1 % Period = 0) /\ (Period > 1 => 1 % Period = 1)
    BY <1>1, Z3T(20)
  <2> QED
    BY <1>1, <2>1, <2>2, <2>3 DEF Timing
<1>4. ASSUME pc # K("suspend"), pc' # K("suspend"), sepc' # K("suspend"), UNCHANGED <<count, since>>
      PROVE  Timing'
  BY <1>4 DEF Timing
<1>5. CASE TimerInterrupt \/ Ecall \/ UserFault \/ KernelFault
  <2>1. PICK h \in {"timer", "syscall", "fault"} : trap_handler(h)
    BY <1>5 DEF TimerInterrupt, Ecall, UserFault, KernelFault
  <2>2. pc # K("suspend")
    BY <1>5 DEF TimerInterrupt, Ecall, UserFault, KernelFault, InUser, K, Loading
  <2>3. pc' # K("suspend") /\ sepc' = pc
    BY <2>1 DEF trap_handler, K
  <2> QED
    BY <1>4, <1>5, <2>2, <2>3 DEF TimerInterrupt, Ecall, UserFault, KernelFault
<1>6. CASE RESTORE_CONTEXT \/ start_payload
  BY <1>4, <1>6 DEF RESTORE_CONTEXT, start_payload, Timing, K
<1>7. CASE emod_manager_init \/ sys_exit \/ access_fault
  BY <1>4, <1>7 DEF emod_manager_init, sys_exit, access_fault, Timing, K, csr
<1>8. CASE syscall_handler \/ restore_sscratch
  BY <1>4, <1>8 DEF syscall_handler, restore_sscratch, Timing, K, User
<1>9. CASE panic
  <2>1. pc # K("suspend")
    BY <1>9 DEF panic, Timing, InUser, K
  <2> QED
    BY <1>4, <1>9, <2>1 DEF panic, Timing, K, csr
<1>10. CASE UserStep
  BY <1>4, <1>10 DEF UserStep, Timing, InUser, K, User, csr
<1>11. CASE TimerExpires \/ UNCHANGED vars
  BY <1>11 DEF TimerExpires, vars, Timing, csr
<1> QED
  BY <1>2, <1>3, <1>5, <1>6, <1>7, <1>8, <1>9, <1>10, <1>11 DEF Next, Kernel, Stopped

\* timer_interrupt_handler gives the hart to the host at every Period-th timer
\* interrupt, for every Period, whatever traps come in between.
THEOREM OnTime == Spec => []SuspendsOnTime
<1>1. Init => Timing
  <2> SUFFICES ASSUME Init PROVE Timing
    OBVIOUS
  <2>1. (Period = 1 => 1 % Period = 0) /\ (Period > 1 => 1 % Period = 1)
    BY TrapAssumption, Z3T(20)
  <2>2. K("manager") # K("suspend") /\ elf_entry # K("suspend")
    BY DEF K, elf_entry, User
  <2> QED
    BY <2>1, <2>2, TrapAssumption DEF Init, Timing
<1>2. TypeOK /\ Timing => SuspendsOnTime
  BY TrapAssumption DEF TypeOK, Timing, SuspendsOnTime
<1> QED
  BY <1>1, <1>2, TimingStep, TypeCorrect, PTL DEF Spec
===============================================================================
