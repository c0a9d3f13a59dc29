----------------------------- MODULE EmodLoader ------------------------------
(***************************************************************************)
(* The emodule manager's lazy loader: emod_manager.c, emod_table.c, the    *)
(* load_emod_* wrappers of trap/syscalls.c and alloc_map_emodule of        *)
(* memory.c, together with the host that owns the emodule files.           *)
(*                                                                         *)
(* acquire_emodule is re-entrant: an emodule's init function acquires the  *)
(* emodules it depends on before it returns, so loads nest.  stack is the  *)
(* chain of load_emodule calls in progress, outermost first.  The enclave  *)
(* runs one such chain at a time; the host runs beside it, and is met      *)
(* wherever load_emodule suspends or spins.                                *)
(***************************************************************************)
EXTENDS Naturals, Sequences

CONSTANTS
  Emodule,        \* emodule ids (emodule_id.h)
  Manager,        \* EMODULE_ID_MANAGER
  TopLevel,       \* the emodules syscalls.c loads by itself
  Deps,           \* what each emodule's init acquires, in order
  NoReturn,       \* emodules whose init never returns (net_init: lwip_main)
  TableSize,      \* EMODULE_TABLE_SIZE
  PageBytes,      \* PAGE_SIZE
  SigBytes,       \* ECC_BYTES * 2
  HostSizes,      \* the answers the host may give to GET_MODULE_SIZE
  PoolPages,      \* pages of the S-mode pool
  TablePages,     \* page-table pages one mapping may take from the pool
  InitBrk,        \* EMOD_INIT_BRK, in pages
  ManagerGetter   \* the address of get_emod_manager

\* Ids index the table, and a dependency has the smaller id, as in
\* emodule_id.h: DEBUG < ALLOC < VFS, NET.
ASSUME IdAssumption ==
  /\ TableSize \in Nat
  /\ Emodule \subseteq 0 .. TableSize - 1
  /\ Manager \in Emodule
  /\ TopLevel \subseteq Emodule
  /\ Deps \in [Emodule -> Seq(Emodule)]
  /\ Deps[Manager] = << >>
  /\ \A m \in Emodule : \A i \in 1 .. Len(Deps[m]) : Deps[m][i] < m

ASSUME SizeAssumption ==
  /\ PageBytes \in Nat \ {0} /\ SigBytes \in Nat
  /\ HostSizes \subseteq Nat
  /\ PoolPages \in Nat /\ TablePages \in Nat
  /\ InitBrk \in Nat \ {0} /\ ManagerGetter \in Nat \ {0}

VARIABLES
  table,    \* emodule_table: id -> getter address, 0 if not loaded
  loaded,   \* the static "loaded" flags of the load_emod_* wrappers
  stack,    \* the load_emodule calls in progress, outermost first
  brk,      \* emodule_brk, in pages
  used,     \* smode_pool_desc.used_page_count
  mem,      \* what the emodule pages hold
  mode,     \* where the enclave's only hart is
  msg,      \* the short message of the pending suspend
  a0,       \* the value the last resume returned
  rx,       \* the buffer listened on, if the host has not filled it yet
  images    \* history: every image alloc_map_emodule made room for

vars == <<table, loaded, stack, brk, used, mem, mode, msg, a0, rx, images>>

PageUp(n) == ((n + PageBytes - 1) \div PageBytes)

Contents == {"zero", "signed", "corrupt"}
Page == InitBrk .. InitBrk + PoolPages
Modes == {"user", "smode", "suspended", "lwip_main", "panic"}
NoMsg == "none"
Frame == [id : Emodule, pc : {"size", "wait", "init"}, va : Nat, size : Nat,
          dep : Nat \ {0}]

Top == stack[Len(stack)]
Pop == [i \in 1 .. Len(stack) - 1 |-> stack[i]]
SetTop(f) == [stack EXCEPT ![Len(stack)] = f]

Pages(f) == f.va .. f.va + PageUp(f.size) - 1

------------------------------------------------------------------------------
\* emod_manager_init has registered the manager and the user program runs.
Init ==
  /\ table = [m \in 0 .. TableSize - 1 |-> IF m = Manager THEN ManagerGetter ELSE 0]
  /\ loaded = [m \in TopLevel |-> FALSE]
  /\ stack = << >>
  /\ brk = InitBrk
  /\ used = 0
  /\ mem = [p \in Page |-> "zero"]
  /\ mode = "user"
  /\ msg = NoMsg
  /\ a0 = 0
  /\ rx = {}
  /\ images = {}

get_emodule(m) == IF m >= TableSize THEN 0 ELSE table[m]

\* load_emodule up to the suspend of get_emodule_size.
load_emodule(m) ==
  /\ stack' = Append(stack, [id |-> m, pc |-> "size", va |-> 0, size |-> 0, dep |-> 1])
  /\ mode' = "suspended"
  /\ msg' = "GET_MODULE_SIZE"
  /\ UNCHANGED <<table, loaded, brk, used, mem, a0, rx, images>>

panic ==
  /\ mode' = "panic"
  /\ UNCHANGED <<table, loaded, stack, brk, used, mem, msg, a0, rx, images>>

\* A system call that needs emodule m: load_emod_vfs, load_emod_uart or
\* load_emod_net, and through it the outermost acquire_emodule.
load_emod(m) ==
  /\ mode = "user"
  /\ \/ /\ loaded[m]
        /\ UNCHANGED vars
     \/ /\ ~loaded[m]
        /\ get_emodule(m) # 0
        /\ loaded' = [loaded EXCEPT ![m] = TRUE]
        /\ UNCHANGED <<table, stack, brk, used, mem, mode, msg, a0, rx, images>>
     \/ /\ ~loaded[m]
        /\ get_emodule(m) = 0
        /\ load_emodule(m)

\* load_emodule from the host's size to the suspend with LOAD_MODULE: the
\* room for the image, the listen, and the request.
alloc_map_emodule ==
  /\ mode = "smode" /\ stack # << >> /\ Top.pc = "size"
  /\ \E t \in 0 .. TablePages :
       LET n == PageUp(a0)
       IN IF used + n + t > PoolPages
          THEN panic
          ELSE /\ used' = used + n + t
               /\ brk' = brk + n
               /\ stack' = SetTop([Top EXCEPT !.pc = "wait", !.va = brk, !.size = a0])
               /\ images' = images \cup {[id |-> Top.id, va |-> brk, size |-> a0]}
               /\ mode' = "suspended"
               /\ msg' = "LOAD_MODULE"
               /\ rx' = {[va |-> brk, size |-> a0]}
               /\ UNCHANGED <<table, loaded, mem, a0>>

\* Faulty variants of attest_emodule: what is in memory runs unchecked; an
\* image that is not the signed one is asked for again.
attest_emodule_unchecked ==
  /\ mode = "smode" /\ stack # << >> /\ Top.pc = "wait"
  /\ stack' = SetTop([Top EXCEPT !.pc = "init"])
  /\ UNCHANGED <<table, loaded, brk, used, mem, mode, msg, a0, rx, images>>

attest_emodule_again ==
  \/ /\ attest_emodule_unchecked
     /\ \A p \in Pages(Top) : mem[p] = "signed"
  \/ /\ mode = "smode" /\ stack # << >> /\ Top.pc = "wait"
     /\ \E p \in Pages(Top) : mem[p] # "signed"
     /\ mode' = "suspended" /\ msg' = "LOAD_MODULE"
     /\ rx' = {[va |-> Top.va, size |-> Top.size]}
     /\ UNCHANGED <<table, loaded, stack, brk, used, mem, a0, images>>

\* wait_until_non_zero and attest_emodule.  The wait reads the first word of
\* the image; an image of no pages has none, and the read faults.
attest_emodule ==
  /\ mode = "smode" /\ stack # << >> /\ Top.pc = "wait"
  /\ \/ PageUp(Top.size) = 0 /\ panic
     \/ /\ PageUp(Top.size) # 0
        /\ mem[Top.va] # "zero"
        /\ IF Top.size <= SigBytes \/ (\E p \in Pages(Top) : mem[p] # "signed")
           THEN panic
           ELSE /\ stack' = SetTop([Top EXCEPT !.pc = "init"])
                /\ UNCHANGED <<table, loaded, brk, used, mem, mode, msg, a0, rx, images>>

\* Faulty variant: a dependency is taken to be there.
init_dependency_skip ==
  /\ mode = "smode" /\ stack # << >> /\ Top.pc = "init"
  /\ Top.dep <= Len(Deps[Top.id])
  /\ stack' = SetTop([Top EXCEPT !.dep = @ + 1])
  /\ UNCHANGED <<table, loaded, brk, used, mem, mode, msg, a0, rx, images>>

\* The init function of the emodule acquires its next dependency.
init_dependency ==
  /\ mode = "smode" /\ stack # << >> /\ Top.pc = "init"
  /\ Top.dep <= Len(Deps[Top.id])
  /\ LET d == Deps[Top.id][Top.dep]
     IN \/ /\ get_emodule(d) # 0
           /\ stack' = SetTop([Top EXCEPT !.dep = @ + 1])
           /\ UNCHANGED <<table, loaded, brk, used, mem, mode, msg, a0, rx, images>>
        \/ /\ get_emodule(d) = 0
           /\ load_emodule(d)

\* The init function returns its getter and load_emodule registers it.  The
\* outermost load ends the wrapper that started it.
register_emodule ==
  /\ mode = "smode" /\ stack # << >> /\ Top.pc = "init"
  /\ Top.dep > Len(Deps[Top.id])
  /\ Top.id \notin NoReturn
  /\ IF Top.id >= TableSize
     THEN panic
     ELSE /\ table' = [table EXCEPT ![Top.id] = Top.va]
          /\ stack' = Pop
          /\ IF Len(stack) = 1
             THEN /\ loaded' = [loaded EXCEPT ![Top.id] = TRUE]
                  /\ mode' = "user"
             ELSE UNCHANGED <<loaded, mode>>
          /\ UNCHANGED <<brk, used, mem, msg, a0, rx, images>>

\* net_init ends in lwip_main and never returns.
lwip_main ==
  /\ mode = "smode" /\ stack # << >> /\ Top.pc = "init"
  /\ Top.dep > Len(Deps[Top.id])
  /\ Top.id \in NoReturn
  /\ mode' = "lwip_main"
  /\ UNCHANGED <<table, loaded, stack, brk, used, mem, msg, a0, rx, images>>

\* while (1) of panic, and of lwip_main.
Halted == mode \in {"panic", "lwip_main"} /\ UNCHANGED vars

------------------------------------------------------------------------------
(* The host daemon and the security monitor (external): the host answers a *)
(* suspend by a resume, and sends the image to the address the enclave     *)
(* listens on.  Nothing orders the send and the resume that follow         *)
(* LOAD_MODULE, which is why load_emodule spins after its suspend.         *)

HostAnswerSize ==
  /\ mode = "suspended" /\ msg = "GET_MODULE_SIZE"
  /\ \E n \in HostSizes : a0' = n
  /\ mode' = "smode" /\ msg' = NoMsg
  /\ UNCHANGED <<table, loaded, stack, brk, used, mem, rx, images>>

HostResume ==
  /\ mode = "suspended" /\ msg = "LOAD_MODULE"
  /\ mode' = "smode" /\ msg' = NoMsg
  /\ UNCHANGED <<table, loaded, stack, brk, used, mem, a0, rx, images>>

HostSend ==
  /\ \E b \in rx, c \in {"signed", "corrupt"} :
       mem' = [p \in Page |-> IF p \in Pages(b) THEN c ELSE mem[p]]
  /\ rx' = {}
  /\ UNCHANGED <<table, loaded, stack, brk, used, mode, msg, a0, images>>

------------------------------------------------------------------------------
Enclave ==
  \/ alloc_map_emodule \/ attest_emodule \/ init_dependency
  \/ register_emodule \/ lwip_main

Next ==
  \/ \E m \in TopLevel : load_emod(m)
  \/ alloc_map_emodule
  \/ attest_emodule
  \/ init_dependency
  \/ register_emodule
  \/ lwip_main
  \/ HostAnswerSize
  \/ HostResume
  \/ HostSend
  \/ Halted

Spec == Init /\ [][Next]_vars

\* The hart the enclave holds keeps running it, and the host serves every
\* request it is suspended on.
FairSpec ==
  /\ Spec
  /\ WF_vars(Enclave)
  /\ WF_vars(HostAnswerSize) /\ WF_vars(HostResume) /\ WF_vars(HostSend)

------------------------------------------------------------------------------
\* Type invariant.
TypeOK ==
  /\ table \in [0 .. TableSize - 1 -> Nat]
  /\ loaded \in [TopLevel -> BOOLEAN]
  /\ stack \in Seq(Frame)
  /\ brk \in Nat /\ used \in 0 .. PoolPages
  /\ mem \in [Page -> Contents]
  /\ mode \in Modes
  /\ msg \in {NoMsg, "GET_MODULE_SIZE", "LOAD_MODULE"}
  /\ a0 \in Nat
  /\ rx \subseteq [va : Nat, size : Nat]
  /\ images \subseteq [id : Emodule, va : Nat, size : Nat]

\* "Only one of them can be loaded into a specific enclave" (doc/emodule.md):
\* however loads nest, room is made for an emodule's image at most once, and
\* no two images share a page.
LoadedOnce ==
  \A x, y \in images :
    x # y => x.id # y.id /\ Pages(x) \cap Pages(y) = {}

\* "attestation here, before emodules get executed" (emod_manager.c): every
\* page of an emodule that runs, from its init on, holds the signed image;
\* a later load never overwrites it.
RunsAttested ==
  \A x \in images :
    (table[x.id] # 0 \/ \E i \in 1 .. Len(stack) :
                            stack[i].id = x.id /\ stack[i].pc = "init")
    => \A p \in Pages(x) : mem[p] = "signed"

\* The getters an emodule's init stores for its dependencies are real: a
\* registered emodule has all its dependencies registered.
DependenciesRegistered ==
  \A m \in Emodule :
    table[m] # 0 => \A i \in 1 .. Len(Deps[m]) : table[Deps[m][i]] # 0

\* The wrappers' static flags agree with the table: an API structure is only
\* called when the emodule is registered.
LoadedImpliesRegistered == \A m \in TopLevel : loaded[m] => table[m] # 0

\* A getter "is never supposed to be removed from the table"
\* (emod_table.c): no step changes a registered entry.
GettersStable ==
  [][\A m \in 0 .. TableSize - 1 : table[m] # 0 => table'[m] = table[m]]_vars

\* The loader implements the abstract table.
Abstract == INSTANCE EmodTable WITH registered <- {m \in Emodule : table[m] # 0}
AbstractSpec == Abstract!Spec

\* If the host serves its requests, a system call that needs an emodule gets
\* it, or the enclave panics, or (emod_net) stays in lwip_main for good.
LoadsEnd == (stack # << >>) ~> (stack = << >> \/ mode \in {"panic", "lwip_main"})

\* "it returns itself's getter function" (doc/emodule.md), said of every
\* emodule's initialization function: a load that does not panic ends.
InitReturns == (stack # << >>) ~> (stack = << >> \/ mode = "panic")

-----------------------------------------------------------------------------
(* The emodules of the repository: ids as in emodule_id.h, dependencies as *)
(* in the emodules' init_dependency functions.                             *)

DEBUG == 1
ALLOC == 2
VFS == 3
NET == 4
UART == 5

MCEmodule == 0 .. 5
MCDeps == [m \in MCEmodule |->
             CASE m = ALLOC -> <<DEBUG>>
               [] m \in {VFS, NET} -> <<DEBUG, ALLOC>>
               [] OTHER -> << >>]
MCTopLevel == {VFS, NET, UART}
MCNoReturn == {NET}
==============================================================================
