------------------------------- MODULE Paging -------------------------------
(***************************************************************************)
(* Physical pages, the three levels of page tables, and the handlers that  *)
(* build address spaces: init_shell, do_exec, do_mthread_create and the    *)
(* page faults (kernel/mm/mm.c, include/os/elf.h, kernel/sched/sched.c,    *)
(* kernel/irq/irq.c).                                                      *)
(*                                                                         *)
(* Memory is an array of words, a page a few of them; an entry of a table  *)
(* is the number of the page it points to, 0 when it is empty.  The        *)
(* attribute bits are left out: every leaf is created with all the bits    *)
(* that the fault handlers would set.  A page number of a virtual address  *)
(* stands for the address.  No handler is interrupted.                     *)
(***************************************************************************)
EXTENDS Integers, Sequences, FiniteSets
CONSTANTS
    Slot,              \* the indices of pcb[], 0 for the shell
    BASE,              \* entries of a page table (1 << PPN_BITS)
    FREEMEM,           \* the page the allocator starts at
    PGDIR,             \* the boot page table, the first page past the pool
    USER_STACK_ADDR,   \* the page above the stack of a process
    KERNEL_STACK_ADDR, \* the first page of the kernel's half
    ENTRY,             \* the first page of every program
    Images,            \* the programs: the word each of their pages holds
    Args,              \* words an argument puts on the new stack
    Touched,           \* pages of a process that it may fault on
    Values,            \* words a task stores
    GARBAGE            \* what physical memory holds at first

User == 0..(KERNEL_STACK_ADDR - 1)

(* The pages of the model: the pool, taken to end at the boot page table.  *)
(* In the code the buffers of the file system lie inside it, at 0x5d000000 *)
(* (include/os/file.h:18), and the pool reaches them earlier.              *)
Frame == FREEMEM..(PGDIR + 1)
KernelTop == (KERNEL_STACK_ADDR \div BASE) \div BASE

(* The last pages of programs and what they touch: the pool has fewer pages *)
(* than lie between these and the stack.                                   *)
Program == {ENTRY} \cup {ENTRY + Len(image) - 1 : image \in Images} \cup Touched

ASSUME PagingAssumption ==
    /\ Slot \subseteq Nat /\ 0 \in Slot
    /\ BASE \in Nat /\ BASE > 1 /\ BASE % 2 = 0
    /\ KERNEL_STACK_ADDR = (BASE \div 2) * BASE * BASE
    /\ FREEMEM \in Nat \ {0} /\ PGDIR \in Nat /\ FREEMEM < PGDIR
    /\ GARBAGE \in Frame
    /\ Values \subseteq Nat /\ Args \subseteq Nat
    /\ Images \subseteq Seq(Nat)
    /\ USER_STACK_ADDR \in User /\ ENTRY \in User /\ Touched \subseteq User
    /\ \A va \in Program : va + (PGDIR - FREEMEM) < USER_STACK_ADDR

VARIABLES
    memCurr,     \* the last page handed out
    mem,         \* physical memory
    pid,         \* pid[i], 0 when the slot is free
    type,        \* process or thread
    pgdir,       \* the page of the task's first table
    kernel_sp,   \* the page of its kernel stack
    user_sp,     \* the page number above its user stack
    num_thread   \* how many threads it created

vars == <<memCurr, mem, pid, type, pgdir, kernel_sp, user_sp, num_thread>>

Cleared == [i \in 0..(BASE - 1) |-> 0]

Init ==
    /\ memCurr = FREEMEM
    /\ mem = [f \in Frame |-> IF f = PGDIR
                              THEN [Cleared EXCEPT ![KernelTop] = PGDIR + 1]
                              ELSE [i \in 0..(BASE - 1) |-> GARBAGE]]
    /\ pid = [i \in Slot |-> 0]
    /\ type = [i \in Slot |-> "USER_PROCESS"]
    /\ pgdir = [i \in Slot |-> 0]
    /\ kernel_sp = [i \in Slot |-> 0]
    /\ user_sp = [i \in Slot |-> 0]
    /\ num_thread = [i \in Slot |-> 0]

vpn2(va) == (va \div BASE) \div BASE
vpn1(va) == (va \div BASE) % BASE
vpn0(va) == va % BASE

(***************************************************************************)
(* The memory half of a handler is a sequence of states [mem, memCurr,     *)
(* kva]; kva is the page the last call returned.                           *)
(***************************************************************************)
allocPage(s) == [s EXCEPT !.memCurr = @ + 1, !.kva = s.memCurr + 1]

Write(s, f, i, w) == [s EXCEPT !.mem[f][i] = w]
clear_pgdir(s, f) == [s EXCEPT !.mem[f] = Cleared]
share_pgtable(s, dest, src) == [s EXCEPT !.mem[dest] = s.mem[src]]

(* The next table below entry i of `dir`, made when it is missing. *)
Below_unclear(s, dir, i) ==                                     \* mutant
    LET a == allocPage(s)
    IN  IF s.mem[dir][i] = 0 THEN Write(a, dir, i, a.kva) ELSE s

Below(s, dir, i) ==
    LET a == allocPage(s)
    IN  IF s.mem[dir][i] = 0 THEN clear_pgdir(Write(a, dir, i, a.kva), a.kva) ELSE s

(* kva of a page that was there already is no page: the entry itself, shifted. *)
alloc_page_helper(s, va, dir) ==
    LET s2 == Below(s, dir, vpn2(va))
        d1 == s2.mem[dir][vpn2(va)]
        s1 == Below(s2, d1, vpn1(va))
        d0 == s1.mem[d1][vpn1(va)]
        a  == allocPage(s1)
    IN  IF s1.mem[d0][vpn0(va)] = 0 THEN Write(a, d0, vpn0(va), a.kva)
                                    ELSE [s1 EXCEPT !.kva = 0]

find_pte(m, va, dir) ==
    LET d1 == m[dir][vpn2(va)]
        d0 == m[d1][vpn1(va)]
    IN  IF d1 = 0 THEN 0 ELSE IF d0 = 0 THEN 0 ELSE m[d0][vpn0(va)]

(* One segment, from a page boundary on: every page is mapped and filled. *)
load_elf(s, image, dir) ==
    LET loaded[k \in 0..Len(image)] ==
            IF k = 0 THEN s
            ELSE LET a == alloc_page_helper(loaded[k - 1], ENTRY + k - 1, dir)
                 IN  Write(a, a.kva, 0, image[k])
    IN  loaded[Len(image)]

Now == [mem |-> mem, memCurr |-> memCurr, kva |-> 0]
Become(s) == mem' = s.mem /\ memCurr' = s.memCurr

(* Bound: a handler starts only with n pages left in the pool. *)
Room(n) == memCurr + n < PGDIR

(* A new address space with its two stacks and its image.  *)
Space_share_last(image, arg) ==                                 \* mutant
    LET dir == allocPage(Now)
        k   == alloc_page_helper(clear_pgdir(dir, dir.kva), KERNEL_STACK_ADDR - 1, dir.kva)
        u   == alloc_page_helper(k, USER_STACK_ADDR - 1, dir.kva)
        e   == load_elf(u, image, dir.kva)
    IN  [end |-> share_pgtable(e, dir.kva, PGDIR), dir |-> dir.kva, kernel |-> k.kva]

Space(image, arg) ==
    LET dir == allocPage(Now)
        c   == share_pgtable(clear_pgdir(dir, dir.kva), dir.kva, PGDIR)
        k   == alloc_page_helper(c, KERNEL_STACK_ADDR - 1, dir.kva)
        u   == alloc_page_helper(k, USER_STACK_ADDR - 1, dir.kva)
        v   == IF arg = 0 THEN u ELSE Write(u, u.kva, 0, arg)
        e   == load_elf(v, image, dir.kva)
    IN  [end |-> e, dir |-> dir.kva, kernel |-> k.kva]

(* What init_pcb_stack saves at the top of the kernel stack of slot i. *)
Context(i) == i + 1
init_pcb_stack(s, sp, i) == Write(s, sp, BASE - 1, Context(i))

Process(i, image, arg) == Room(7 + 3 * Len(image)) /\ \E sp \in {Space(image, arg)} :
    /\ Become(init_pcb_stack(sp.end, sp.kernel, i))
    /\ pid' = [pid EXCEPT ![i] = i + 1]
    /\ type' = [type EXCEPT ![i] = "USER_PROCESS"]
    /\ pgdir' = [pgdir EXCEPT ![i] = sp.dir]
    /\ kernel_sp' = [kernel_sp EXCEPT ![i] = sp.kernel]
    /\ user_sp' = [user_sp EXCEPT ![i] = USER_STACK_ADDR]
    /\ num_thread' = [num_thread EXCEPT ![i] = 0]

init_shell(image) == pid[0] = 0 /\ Process(0, image, 0)

Free(i) ==
    /\ i \in Slot \ {0} /\ pid[i] = 0
    /\ \A j \in 1..(i - 1) : pid[j] # 0

do_exec(image, arg) == \E i \in Slot :
    /\ pid[0] # 0
    /\ Free(i)
    /\ Process(i, image, arg)

(* pid[0] # 0 is implied by pid[t]: the shell is the first task. *)
Thread(t, i, number, kernel, s) ==
    \E u \in {alloc_page_helper(s, USER_STACK_ADDR - 1 - number, pgdir[t])} :
    /\ Become(init_pcb_stack(u, kernel, i))
    /\ pid' = [pid EXCEPT ![i] = i + 1]
    /\ type' = [type EXCEPT ![i] = "USER_THREAD"]
    /\ pgdir' = [pgdir EXCEPT ![i] = pgdir[t]]
    /\ kernel_sp' = [kernel_sp EXCEPT ![i] = kernel]
    /\ user_sp' = [user_sp EXCEPT ![i] = USER_STACK_ADDR - number]

do_mthread_create_late(t) == \E i \in Slot, a \in {allocPage(Now)} :   \* mutant
    /\ pid[t] # 0 /\ type[t] = "USER_PROCESS" /\ Free(i) /\ Room(4)
    /\ Thread(t, i, 1, a.kva, a)
    /\ UNCHANGED num_thread

do_mthread_create_mapped(t) == \E i \in Slot :                  \* mutant
    /\ pid[t] # 0 /\ type[t] = "USER_PROCESS" /\ Free(i) /\ Room(4)
    /\ num_thread' = [num_thread EXCEPT ![t] = @ + 1]
    /\ Thread(t, i, num_thread'[t], find_pte(mem, KERNEL_STACK_ADDR - 1, pgdir[t]), Now)

do_mthread_create_pid(t) == \E i \in Slot, a \in {allocPage(Now)} :    \* mutant
    /\ pid[t] # 0 /\ type[t] = "USER_PROCESS" /\ Free(i) /\ Room(4)
    /\ num_thread' = [num_thread EXCEPT ![t] = @ + 1]
    /\ Become(alloc_page_helper(a, USER_STACK_ADDR - 1 - num_thread'[t], pgdir[t]))
    /\ pid' = [pid EXCEPT ![i] = i]
    /\ pgdir' = [pgdir EXCEPT ![i] = pgdir[t]]
    /\ UNCHANGED <<type, kernel_sp, user_sp>>

(* By a process only: rule of the instance, a thread's count starts anywhere. *)
do_mthread_create(t) == \E i \in Slot, a \in {allocPage(Now)} :
    /\ pid[t] # 0 /\ type[t] = "USER_PROCESS"
    /\ Free(i)
    /\ Room(4)
    /\ num_thread' = [num_thread EXCEPT ![t] = @ + 1]
    /\ Thread(t, i, num_thread'[t], a.kva, a)

(* The tables and the stacks stay, and so does pgdir: nothing is freed. *)
EndTask(t) ==
    /\ t # 0 /\ pid[t] # 0
    /\ pid' = [pid EXCEPT ![t] = 0]
    /\ UNCHANGED <<memCurr, mem, type, pgdir, kernel_sp, user_sp, num_thread>>

(* A task that was ended may still run until its slot is taken again. *)
Runs(t) == pgdir[t] # 0

(* A load or a store of a user page that is not present.  Of a page in the  *)
(* kernel's half find_pte would take a leaf of two megabytes for a table   *)
(* (irq.c:128): programs do not touch those (Touched).                     *)
handle_ldst_pagefault(t, va) ==
    /\ Runs(t) /\ Room(3)
    /\ find_pte(mem, va, pgdir[t]) = 0
    /\ Become(alloc_page_helper(Now, va, pgdir[t]))
    /\ UNCHANGED <<pid, type, pgdir, kernel_sp, user_sp, num_thread>>

(* The hardware's walk of the tables; no kernel code runs. *)
Store(t, va, w) ==
    /\ Runs(t) /\ find_pte(mem, va, pgdir[t]) # 0
    /\ Become(Write(Now, find_pte(mem, va, pgdir[t]), 0, w))
    /\ UNCHANGED <<pid, type, pgdir, kernel_sp, user_sp, num_thread>>

Next ==
    \/ \E image \in Images : init_shell(image)
    \/ \E image \in Images, arg \in Args : do_exec(image, arg)
    \/ \E t \in Slot : do_mthread_create(t)
    \/ \E t \in Slot : EndTask(t)
    \/ \E t \in Slot, va \in Touched : handle_ldst_pagefault(t, va)
    \/ \E t \in Slot, w \in Values : \E va \in Touched \cup {user_sp[t] - 1} : Store(t, va, w)

Spec == Init /\ [][Next]_vars
-----------------------------------------------------------------------------
(***************************************************************************)
(* Properties                                                              *)
(***************************************************************************)
(* What each variable holds: a slot is free or has its own pid, and its    *)
(* stacks and tables are pages of the pool (init_shell, do_exec,           *)
(* do_mthread_create).                                                     *)
PagingTypeOK ==
    /\ memCurr \in FREEMEM..(PGDIR - 1)
    /\ mem \in [Frame -> [0..(BASE - 1) -> Nat]]
    /\ \A i \in Slot : pid[i] \in {0, i + 1}
    /\ type \in [Slot -> {"USER_PROCESS", "USER_THREAD"}]
    /\ pgdir \in [Slot -> {0} \cup (FREEMEM + 1)..memCurr]
    /\ kernel_sp \in [Slot -> {0} \cup (FREEMEM + 1)..memCurr]
    /\ user_sp \in [Slot -> {0} \cup User]
    /\ num_thread \in [Slot -> Nat]

Dirs == {pgdir[t] : t \in Slot} \ {0}
Entries == 0..(BASE - 1)
UserTop == 0..(KernelTop - 1)

(* Every use of a page: as a table of either level, as a page of a space,  *)
(* or as the kernel stack of a thread.                                     *)
Tables1 == {u \in Dirs \X UserTop : mem[u[1]][u[2]] # 0}
Tables0 == {u \in Dirs \X UserTop \X Entries :
                mem[u[1]][u[2]] # 0 /\ mem[mem[u[1]][u[2]]][u[3]] # 0}
Mapped == {u \in Dirs \X User : find_pte(mem, u[2], u[1]) # 0}

Uses ==
    {<<<<"directory", d>>, d>> : d \in Dirs}
    \cup {<<<<"first", u>>, mem[u[1]][u[2]]>> : u \in Tables1}
    \cup {<<<<"second", u>>, mem[mem[u[1]][u[2]]][u[3]]>> : u \in Tables0}
    \cup {<<<<"page", u>>, find_pte(mem, u[2], u[1])>> : u \in Mapped}
    \cup {<<<<"thread", t>>, kernel_sp[t]>> :
              t \in {u \in Slot : Runs(u) /\ type[u] = "USER_THREAD"}}

(* No page serves two purposes: as tables of two address spaces or of two  *)
(* places in one, as a table and as memory of a task, or as memory of two  *)
(* processes; and all of them come from the pool (allocPage,               *)
(* alloc_page_helper, share_pgtable, do_mthread_create).                   *)
FramesUsedOnce ==
    /\ Cardinality({u[2] : u \in Uses}) = Cardinality(Uses)
    /\ \A u \in Uses : u[2] \in (FREEMEM + 1)..memCurr

(* No two tasks of a space have the same stack page, and the page is       *)
(* mapped when the task first runs: a thread gets the next page below the  *)
(* stacks handed out before, also after earlier threads ended              *)
(* (do_mthread_create).  On its kernel stack a task finds what             *)
(* init_pcb_stack put there, whatever was mapped or stored since.          *)
StacksApart == \A t, u \in Slot :
    Runs(t) =>
    /\ mem[kernel_sp[t]][BASE - 1] = Context(t)
    /\ find_pte(mem, user_sp[t] - 1, pgdir[t]) # 0
    /\ t # u /\ Runs(u) /\ pgdir[t] = pgdir[u] => user_sp[t] # user_sp[u]

(* Nothing that maps, starts or stores reaches the memory of another       *)
(* process, or a page other than the one it is about: do_exec,             *)
(* do_mthread_create and the fault handlers implement separate address     *)
(* spaces (AddressSpaces), with the tables in the memory that holds the    *)
(* data.                                                                   *)
SpaceOf(d) == [va \in User |->
                  LET f == find_pte(mem, va, d) IN IF f = 0 THEN -1 ELSE mem[f][0]]

Spaces == INSTANCE AddressSpaces WITH
    Task <- Slot, Page <- User, Entry <- ENTRY, Absent <- -1,
    of <- pgdir, space <- [d \in Dirs |-> SpaceOf(d)]

ImplementsAddressSpaces == Spaces!ASSpec

=============================================================================
