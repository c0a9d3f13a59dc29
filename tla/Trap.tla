-------------------------------- MODULE Trap --------------------------------
(***************************************************************************)
(* Traps of the enclave's hart: entry.S (trap_handler and the end of       *)
(* _start), trap/exceptions.c, trap/interrupts.c and the frame of          *)
(* trap/syscalls.c, from init_csr of boot.c on.                            *)
(*                                                                         *)
(* trap_handler tells a trap of the program from one of the kernel by      *)
(* sscratch, which holds the stack to change to, or zero while a trap is   *)
(* handled.  The context it saves has the registers and the interrupted    *)
(* stack pointer; sepc and sstatus.SPP stay in the CSRs, where the next    *)
(* trap overwrites them.  In S mode interrupts are off, and the one trap   *)
(* that is survived is a load access fault (scause 5), after which the     *)
(* load is tried again; so a kernel step here is a stretch of code up to   *)
(* its next load.                                                          *)
(***************************************************************************)
EXTENDS Integers

CONSTANTS UserPCs,     \* the program has instructions 0 .. UserPCs - 1
          Period,      \* timer interrupts from one suspension to the next: 10
          MaxFaults    \* bound: load access faults taken in S mode

ASSUME TrapAssumption == UserPCs \in Nat \ {0} /\ Period \in Nat \ {0} /\ MaxFaults \in Nat

VARIABLES
  pc, priv,            \* what the hart executes, and in which mode
  sp, reg,             \* stack pointer; whose values the other registers hold
  sscratch, sepc, spp, \* CSRs
  stacks,              \* memory of the S-mode and of the program's stack: contexts
  stip,                \* sip.STIP: a timer interrupt is pending
  count,               \* the static counter of timer_interrupt_handler, modulo Period
  faults,              \* faults taken in S mode so far
  resume,              \* history: where the program must go on
  since                \* history: timer interrupts since the last suspension

csr == <<sscratch, sepc, spp>>
vars == <<pc, priv, sp, reg, csr, stacks, stip, count, faults, resume, since>>

User(n) == <<"user", n>>
K(l) == <<l, 0>>
InUser == pc[1] = "user"
Loading == {"manager", "syscall", "timer", "fault", "loadsp", "restore"}
Loc == {User(n) : n \in 0 .. UserPCs - 1} \cup
       {K(l) : l \in Loading \cup {"enable", "suspend", "exit", "panic"}}

\* Stack pointers: a stack and the number of contexts on it.
Zero == [stk |-> "none", depth |-> 0]
Top(s) == [stk |-> s, depth |-> 0]
Slots == 1 .. MaxFaults + 1
Frame == stacks[sp.stk][sp.depth]
Unused == [reg |-> "kernel", sp |-> Zero, sepc |-> K("panic")]

elf_entry == User(0)

\* init_csr(elf_entry, umode_stack_top); emod_manager_init comes next.
Init ==
  /\ pc = K("manager") /\ priv = "S"
  /\ sp = Top("S") /\ reg = "kernel"
  /\ sscratch = Top("U") /\ sepc = elf_entry /\ spp = "U"
  /\ stacks = [s \in {"S", "U"} |-> [d \in Slots |-> Unused]]
  /\ stip = FALSE /\ count = 1 % Period /\ faults = 0
  /\ resume = elf_entry /\ since = 0

\* emod_manager_init done; interrupt_enable sets sie.STIE.
emod_manager_init ==
  /\ pc = K("manager") /\ priv = "S"
  /\ pc' = K("enable")
  /\ UNCHANGED <<priv, sp, reg, csr, stacks, stip, count, faults, resume, since>>

\* The end of _start: csrrw sp, sscratch, sp; sret.
start_payload ==
  /\ pc = K("enable") /\ priv = "S"
  /\ sp' = sscratch /\ sscratch' = sp
  /\ reg' = "user"
  /\ pc' = sepc /\ priv' = spp /\ spp' = "U"
  /\ UNCHANGED <<sepc, stacks, stip, count, faults, resume, since>>

(***************************************************************************)
(* Entry: from stvec to the call of the handler of the cause.              *)
(***************************************************************************)
trap_handler(handler) ==
  LET user == sscratch # Zero
      base == IF user THEN sscratch ELSE sp
      t1 == IF user THEN sp ELSE Zero
      ctx == [reg |-> reg, sp |-> t1, sepc |-> pc]
  IN /\ stacks' = [stacks EXCEPT ![base.stk][base.depth + 1] = ctx]
     /\ sp' = [base EXCEPT !.depth = @ + 1]
     /\ sscratch' = Zero
     /\ sepc' = pc /\ spp' = priv /\ priv' = "S"
     /\ reg' = "kernel"
     /\ pc' = K(handler)

\* The program's own traps.  A pending timer interrupt comes before the next
\* instruction.
Ecall ==
  /\ InUser /\ priv = "U" /\ ~stip
  /\ trap_handler("syscall")
  /\ resume' = User((pc[2] + 1) % UserPCs)
  /\ UNCHANGED <<stip, count, faults, since>>

UserFault ==
  /\ InUser /\ priv = "U" /\ ~stip
  /\ trap_handler("fault")
  /\ UNCHANGED <<stip, count, faults, resume, since>>

TimerInterrupt ==
  /\ InUser /\ priv = "U" /\ stip
  /\ trap_handler("timer")
  /\ UNCHANGED <<stip, count, faults, resume, since>>

UserStep ==
  /\ InUser /\ priv = "U" /\ ~stip
  /\ pc' \in {User(n) : n \in 0 .. UserPCs - 1}
  /\ resume' = pc'
  /\ UNCHANGED <<priv, sp, reg, csr, stacks, stip, count, faults, since>>

\* A load of the kernel faults.
KernelFault ==
  /\ priv = "S" /\ pc[1] \in Loading /\ faults < MaxFaults
  /\ trap_handler("fault")
  /\ faults' = faults + 1
  /\ UNCHANGED <<stip, count, resume, since>>

\* The pages of the kernel are not the program's to execute: a return to a
\* kernel address in U mode is an instruction page fault.  Other exceptions
\* and unknown system calls: "Exception unhandled", "Unimplemented syscall".
panic ==
  /\ \/ priv = "U" /\ ~InUser
     \/ priv = "U" /\ InUser /\ ~stip
     \/ pc = K("syscall") /\ priv = "S"
  /\ pc' = K("panic") /\ priv' = "S"
  /\ UNCHANGED <<sp, reg, csr, stacks, stip, count, faults, resume, since>>

(***************************************************************************)
(* The handlers.                                                           *)
(***************************************************************************)
\* Faulty variant: the system call is not stepped over.
syscall_handler_again ==
  /\ pc = K("syscall") /\ priv = "S"
  /\ sepc' = Frame.sepc
  /\ pc' = K("loadsp")
  /\ UNCHANGED <<priv, sp, reg, sscratch, spp, stacks, stip, count, faults, resume, since>>

\* The end of syscall_handler: sepc is written from the handler's argument.
syscall_handler ==
  /\ pc = K("syscall") /\ priv = "S"
  /\ sepc' = User((Frame.sepc[2] + 1) % UserPCs)
  /\ pc' = K("loadsp")
  /\ UNCHANGED <<priv, sp, reg, sscratch, spp, stacks, stip, count, faults, resume, since>>

\* SYS_exit: the monitor takes the hart for good.
sys_exit ==
  /\ pc = K("syscall") /\ priv = "S"
  /\ pc' = K("exit")
  /\ UNCHANGED <<priv, sp, reg, csr, stacks, stip, count, faults, resume, since>>

\* Faulty variant: the interrupts are not counted.
timer_interrupt_handler_uncounted ==
  /\ pc = K("timer") /\ priv = "S"
  /\ stip' = FALSE
  /\ pc' = K(IF count = 0 THEN "suspend" ELSE "loadsp")
  /\ since' = Period
  /\ UNCHANGED <<priv, sp, reg, csr, stacks, count, faults, resume>>

\* SET_TIMER clears STIP and starts the next interval.
timer_interrupt_handler ==
  /\ pc = K("timer") /\ priv = "S"
  /\ stip' = FALSE
  /\ count' = (count + 1) % Period
  /\ pc' = K(IF count = 0 THEN "suspend" ELSE "loadsp")
  /\ since' = since + 1
  /\ UNCHANGED <<priv, sp, reg, csr, stacks, faults, resume>>

\* The host has the hart from the suspension to the resume (external).
HostResumes ==
  /\ pc = K("suspend") /\ priv = "S"
  /\ pc' = K("loadsp")
  /\ since' = 0
  /\ UNCHANGED <<priv, sp, reg, csr, stacks, stip, count, faults, resume>>

\* scause 5: the monitor is told of the address, and the load is tried again.
access_fault ==
  /\ pc = K("fault") /\ priv = "S"
  /\ pc' = K("loadsp")
  /\ UNCHANGED <<priv, sp, reg, csr, stacks, stip, count, faults, resume, since>>

(***************************************************************************)
(* Exit: LOAD t1; csrw sscratch, t1, then RESTORE_CONTEXT, the swaps, sret. *)
(***************************************************************************)

restore_sscratch ==
  /\ pc = K("loadsp") /\ priv = "S"
  /\ sscratch' = Frame.sp
  /\ pc' = K("restore")
  /\ UNCHANGED <<priv, sp, reg, sepc, spp, stacks, stip, count, faults, resume, since>>

RESTORE_CONTEXT ==
  /\ pc = K("restore") /\ priv = "S"
  /\ LET below == [sp EXCEPT !.depth = @ - 1]
     IN /\ sp' = IF sscratch # Zero THEN sscratch ELSE below
        /\ sscratch' = IF sscratch # Zero THEN below ELSE Zero
  /\ reg' = Frame.reg
  /\ pc' = sepc /\ priv' = spp /\ spp' = "U"
  /\ UNCHANGED <<sepc, stacks, stip, count, faults, resume, since>>

\* The interval set with SET_TIMER is over (external), whatever the hart does.
TimerExpires ==
  /\ ~stip /\ pc \notin {K("exit"), K("panic")}
  /\ stip' = TRUE
  /\ UNCHANGED <<pc, priv, sp, reg, csr, stacks, count, faults, resume, since>>

Kernel == \/ emod_manager_init \/ start_payload
          \/ syscall_handler \/ sys_exit \/ timer_interrupt_handler \/ HostResumes
          \/ access_fault \/ restore_sscratch \/ RESTORE_CONTEXT \/ TimerInterrupt

Stopped == pc \in {K("exit"), K("panic")} /\ UNCHANGED vars

Next == \/ Kernel \/ KernelFault \/ panic
        \/ Ecall \/ UserFault \/ UserStep \/ TimerExpires \/ Stopped

Spec == Init /\ [][Next]_vars

\* Straight-line kernel code gets on, the monitor's host resumes what it
\* suspended, and the timer that was set expires.
FairSpec == Spec /\ WF_vars(Kernel) /\ WF_vars(TimerExpires) /\ WF_vars(panic /\ ~InUser)

-----------------------------------------------------------------------------
StackPointer == [stk : {"S", "U"}, depth : 0 .. MaxFaults + 1]

\* Type invariant.
TypeOK ==
  /\ pc \in Loc /\ priv \in {"U", "S"} /\ sepc \in Loc /\ spp \in {"U", "S"}
  /\ sp \in StackPointer /\ sscratch \in StackPointer \cup {Zero}
  /\ reg \in {"user", "kernel"}
  /\ stacks \in [{"S", "U"} -> [Slots -> [reg : {"user", "kernel"},
                                          sp : StackPointer \cup {Zero}, sepc : Loc]]]
  /\ stip \in BOOLEAN /\ count \in 0 .. Period - 1
  /\ faults \in 0 .. MaxFaults /\ resume \in Loc /\ since \in Nat

\* Whenever the program runs, after whatever nesting of traps, it has its own
\* stack and registers, no context is left on its stack, and sscratch holds the
\* empty S-mode stack.
ProgramState ==
  InUser /\ priv = "U" => /\ sp = Top("U") /\ reg = "user"
                          /\ sscratch = Top("S")

\* A trap is transparent or fatal: a program that runs again runs where it was
\* interrupted, or behind its system call, though sepc is not in the context.
ResumesInPlace == InUser /\ priv = "U" => pc = resume

\* The kernel never runs program code in S mode, though SPP is not in the
\* context either.
NoUserCodeInS == priv = "S" => ~InUser

\* The host gets the hart at every Period-th timer interrupt, not earlier and
\* not later.
SuspendsOnTime == since <= Period /\ (pc = K("suspend") => since = Period)

\* Whatever the program does, the host gets the hart again and again, until
\* the program exits or the enclave panics.
HostGetsHart == []<>(pc \in {K("suspend"), K("exit"), K("panic")})

\* "After initialization, the control flow is transferred to the U mode
\* payload" (boot.c, of the entry point): the boot ends at the entry point.
PayloadStarts == [][start_payload => pc' = elf_entry]_vars
=============================================================================
