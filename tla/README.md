# A TLA+ development of UCAS-OSKernel

The subject is the last snapshot of the kernel, `src/UCAS_OS/Project6`
(`Project0` to `Project5` are earlier stages that it supersedes). All paths
below are relative to that directory. It is a kernel for one RISC-V hart:
tasks and threads, a shell, mutexes, semaphores, barriers and mailboxes, a
polled network card, a file system on the SD card, and Sv39 page tables.

The development has four parts, each checked on its own:
- lists, the scheduler, the life of a task, and the mutexes (`Kernel`);
- semaphores, barriers and mailboxes, on top of the first part (`Ipc`), and the
  tables by which programs find them (`KeyTable`);
- the file system, with resets of the machine (`FileSys`);
- physical pages, page tables and address spaces (`Paging`).

All four are also proved: the file system for disks within the limits of
section 4, the others for instances of any size.

## 1. Inventory

| Component | State | Operations | Modelled |
|---|---|---|---|
| lists, `kernel/sched/list.c` | `next`, `prev` of list heads and of the node in each PCB | `list_init`, `enqueue`, `dequeue`, `delete_item` | `KList`, promise in `Fifo` |
| scheduler and tasks, `kernel/sched/sched.c`, `init/main.c` | `pcb[]`, `ready_queue`, `wait_list`s, `current_running` | `do_scheduler`, `do_block`, `do_unblock`, `do_exec`, `do_mthread_create`, `do_waitpid`, `do_exit`, `do_kill`, `do_sleep` | `Sched`, `Kernel` (not `do_sleep`) |
| timer tick, `kernel/irq/irq.c`, `kernel/sched/time.c` | `sleep_queue`, device status bits | `reset_irq_timer`, `check_net_queue`, `check_timer` | `Sched` (not `check_timer`) |
| mutexes, `kernel/sync/sync.c` | `mlocks[]`, `locks[]` and `num_lock` of the PCBs | `do_mutex_lock_acquire`, `do_mutex_lock_release`, `mutex_get` | `Mutex`, `KeyTable` |
| semaphores, barriers, mailboxes, `kernel/sync/sync.c` | counts, queues, key tables, buffers | `do_semaphore_*`, `do_barrier_*`, `do_mbox_*`, `*_get` | `Ipc`, `KeyTable` |
| file system, `kernel/file.c` | bit maps, inodes, directory blocks, the current directory, open files | `do_mkfs`, `do_mkdir`, `do_rmdir`, `do_cd`, `do_touch`, `do_ln`, `do_rm`, `do_file_*`, `do_lseek` | `FileSys`, within the direct blocks of a file and 56 inodes |
| memory, `kernel/mm/mm.c`, `include/os/elf.h` | page tables, the page frontier `memCurr` | `allocPage`, `alloc_page_helper`, `share_pgtable`, `load_elf`, the page faults, `ioremap` | `Paging` (not `ioremap`) |
| network calls, `drivers/net.c`, `drivers/emacps/xemacps_main.c` | descriptor rings, the two sleeping queues | `do_net_recv`, `do_net_send`, `do_net_irq_mode` | the sleeping and waking only, in `Sched` |
| trap entry and context switch, `arch/riscv/kernel/` | saved registers | assembly | what it means for atomicity, section 3 |
| user library and shell, `tiny_libc/`, `test/` | | who calls what | the rules of section 4 |
| screen, PLIC, boot block, image tools, string functions | | | no: output only, unused, or run at build time |

How they interact. Every blocking object is a list head, and a PCB has one list
node: a task is in the ready queue, in one list of sleepers, or in none.
`do_block` links the caller in a list and calls `do_scheduler`; a waker dequeues
and calls `do_unblock`, which makes the task ready and links it in
`ready_queue`. The end of a task (`do_exit`, `do_kill`) touches all of them at
once: it wakes the `wait_list`, releases mutexes, which wakes heirs, and frees
the slot, which `find_freepcb` gives to the next task. That task gets pages and
a page table from `kernel/mm`; nothing gives them back. The file system keeps
one current directory and one table of open files for all tasks, and every
handler of it writes the disk sector by sector.

What is hard.
- **Interleaving.** A tick may come between any two system calls of any task.
- **The fallback of `do_scheduler`.** With nobody ready it dispatches `pcb[0]`
  (`sched.c:148`), which may be the caller, and then enqueues the caller
  (`sched.c:159`): the shell ends up running *and* linked. Its next enqueue
  then relinks a linked node, and `enqueue` cuts off whatever stood behind it.
- **Stale links.** `do_kill` frees a PCB and leaves it in its list.
- **Hand-over.** A released mutex with waiters stays `LOCKED` for a task that
  has not run yet, and that task's `locks[]` does not learn of it.
- **A loop over data that its body changes.** `do_exit` walks `locks[]` while
  `do_mutex_lock_release` shifts it.
- **Test then sleep.** `do_waitpid` tests a status and then sleeps; a mailbox
  call tests the fill level, sleeps, and tests it again much later.
- **Rounds.** A barrier is used again at once by those whom it has just let go,
  while others of the round have not run yet.
- **Resets.** A call of the file system is a sequence of sector writes, and the
  machine may stop between any two of them.
- **Boundaries.** Bits of a byte, inodes of a sector, blocks of a transfer: the
  masks and loops of `file.c` are off by one or by a neighbour in many places,
  and one of the loops never ends.
- **Tables in the memory they map.** A page handed out twice, or a table written
  after the kernel's half was copied over it, shows in another address space.

PROJECT.json lists each hazard at its line, with the properties that cover it or
the reason why none does.

What makes each component correct:
- lists: each list is a closed circle of exactly its members, and a FIFO queue;
- scheduler: no PCB is linked twice, no live task is lost, nobody overtakes a
  ready task, every ready task runs, nothing dead runs;
- waiting: a waiter returns when the target has ended and only then, and nobody
  waits for a task that has ended;
- mutexes: one owner, `LOCKED` exactly while owned, waiters in order of arrival;
- semaphores: units are neither lost nor made, and go to the first in line;
- barriers: everybody stays until the last has come, then exactly those leave;
- mailboxes: bytes come out once and in order, nobody sleeps who could be served;
- keys and names: those who share find one object, the others do not;
- file system: a block is in one file, names form a tree, a call happens as it
  says or not at all, and a read or write moves all its bytes and returns (which
  it does not: `fs_tail`, `file.c:862`);
- memory: a page serves one purpose, and address spaces are separate.

## 2. Modules

| Module | Contents |
|---|---|
| `Queues` | a list as a sequence: `Link` (`enqueue`, also of a node the list holds), `Without` (`delete_item`) |
| `KList` | `list.c`, one action per function, pointer assignment by pointer assignment; `queue` is a history variable no assignment reads |
| `Fifo` | what `list.c` promises; `KList` implements it |
| `Sched` | the PCB table, the queues, `do_scheduler`, `do_block`, the tick, task creation, `do_waitpid` |
| `Mutex` | the mutexes; the history variable `owns` says which locks each task is entitled to think it holds |
| `Kernel` | the composition: the ends of a task, who calls what, `Next`, `Spec`, the properties |
| `FairLock` | what the mutexes promise; `Kernel` implements it |
| `Ipc` | semaphores, barriers and mailboxes, used by the tasks of `Kernel`, all of whose steps go on around them |
| `Semaphore`, `Rendezvous`, `ByteChannel` | what they promise; `Ipc` implements all three |
| `KeyTable` | `mutex_get`, `semaphore_get`, `barrier_get`, and the slots of `do_mbox_open` and `do_mbox_close` |
| `FileSys` | the disk, the current directory, the open files, and a reset between two writes |
| `FileTree` | what the file system promises of names; `FileSys` implements it |
| `Paging` | the page pool, the page tables, the making of address spaces, the page faults |
| `AddressSpaces` | what memory promises to tasks; `Paging` implements it |
| `Queues_proofs`, `KList_proofs`, `Kernel_proofs`, `Ipc_proofs`, `KeyTable_proofs`, `FileSys_proofs`, `Paging_proofs` | lemmas and theorems |
| `Recursion_proofs` | induction on numbers, for the recursive functions |
| `MCKList`, `MCKernel`, `MCIpc`, `MCKeyTable`, `MCFileSys`, `MCPaging` | small instances |

**Lists and tasks.** `Kernel` works on sequences and not on pointers. The step
from one to the other is `KList => Fifo`, whose only condition is `MayEnqueue`:
the caller never links a node that another list holds. `Kernel` shows that it is
met (`HeldOnce`).

Names are those of the code. `ready_queue`, `status`, `pid`, `mode`,
`current_running` and `lock_status` are its variables; `block_queue[h]` holds
the tasks linked in head `h`, a `wait_list` when `h` is a PCB, the `block_queue`
of a mutex when it is a lock; `locks[p]` is `locks[0..num_lock-1]` of PCB `p`;
`created` is the set of slots whose `wait_list` was ever initialised. `W` in
`reset_irq_timer(W)` is the set of device bits found up. Saved registers,
arguments, the screen and the cursor are left out.

**Semaphores, barriers, mailboxes.** `Ipc` EXTENDS `Kernel`. Its objects are the
further list heads `Sync` of `Sched`: a semaphore or a barrier is its own block
queue, a mailbox has `full_queue` and `empty_queue`. `val`, `total_num`,
`wait_num`, `msg`, `index` are the fields of the code. `call[p]` is the mailbox
call that the kernel stack of `p` is in the middle of while `p` sleeps: when `p`
runs again, the only thing it can do is go round its loop (`MboxResume`).
`recv_buf` is what the last receiver was given. `inited` is the set of objects
whose list heads were initialised.

**Keys.** `hash`, `next_id`, `name`, `opened`, `mbox_id` are the tables of
`sync.c`. `handle` and `box` are history: what the last look-up returned.

**The file system.** `disk` is what the sectors say, `current_inode` and
`FD_table` what memory says. A handler is the sequence of the disks that its
writes leave one after the other (`do_mkdir`, `do_rm`, ...); `Call` runs it to
its end or stops it before any of its later writes. `Grown` is that sequence for
`do_file_write`, whose inode buffer runs ahead of the disk: the pointer to a new
block is written before `block_num` counts it (`Grow`). The in-memory copies of
inodes equal the disk between two calls. A directory is the sequence of its
first `dentry_num` entries, since nothing reads a cell behind them before it was
written. `used_size` is left out, as no guard reads it.

A transfer either enters no block or never leaves the first that it enters. The
outer loops (`file.c:856`, `file.c:899`) stop before the block that holds the last
byte. In the blocks before it the inner loops (`file.c:862`, `file.c:913`) go on
while `j < end_in_this_block ? end_pos_offset : SECTOR_SIZE`, which C reads as
`(j < end_in_this_block) ? ... : SECTOR_SIZE`; the flag is 0 there, so the value
is 512, whatever `j` is. So a call that returns has moved the two points of its
descriptor and no byte (`Returns`), and any other sets `hung`: interrupts are off,
and only a reset ends it. The loop runs over whatever lies behind its buffers,
which is undefined behaviour in memory; it reaches no write of a sector, and the
reset that ends it forgets memory, so the model stops there. A write that hangs
has grown its file before, as far as the first block of the transfer (`Needed`).
Since no byte of a file ever reaches the disk, the bytes are left out. `wrote` is
history: place and length of the last write that returned.

**Memory.** `mem` is an array of pages of words and holds page tables and data
alike, so that a table that is overwritten is seen to be. An entry is the number
of a page, 0 when it is empty; attribute bits are left out, because every leaf is
made with all the bits that the fault handlers would set. `memCurr` is the last
page handed out. The memory half of a handler is a sequence of states
`[mem, memCurr, kva]`, `kva` being the page the last call returned.
`Store` is the hardware's walk of the tables; no kernel code runs there.

## 3. Why a handler is one action

Traps run with interrupts off, and the kernel is not preemptible:
`enable_preempt` and `disable_preempt` are empty (the code is commented out,
`arch/riscv/kernel/entry.S:124-145`). A handler therefore runs alone until it
returns or reaches `do_scheduler`. Everything that a handler does after its
`do_scheduler` is local to the task in the modelled code, with two exceptions,
which are actions of their own: `EmacPsWaitRecv`, which tests and sleeps again (a
further `NetWait`), and the loops of `do_mbox_send` and `do_mbox_recv`
(`MboxResume`). So an action is a handler with everything it calls,
`do_scheduler` included.

A reset of the machine is not a trap. It may come between two sector writes of
the file system, and `FileSys` has it there.

## 4. Who calls what

`Caller` is the running task, which under the rule `reap` below has not been
killed; `Task` is any but the shell. The shell
runs commands that do not block (`test/test_shell.c`); it neither locks nor
waits nor exits, because its own `wait_list` is never initialised
(`init/main.c:111-147`). Waiting for a slot that was never used follows a
NULL list head and is left out (`created`). A program releases only locks it
owns.

Five rules describe well-behaved programs and devices; `Discipline` says which
of them a run assumes, and for each of them a run shows, or the code at the
place named shows, what happens without it:

| Rule | Meaning | Without it |
|---|---|---|
| `paced` | nothing becomes ready in a slice of the shell that began with the shell still linked behind another task | `KernelBurst`: a ready task is cut off the queue and never runs |
| `nokill` | no `do_kill` | `sched.c:228`: a killed task stays linked, and runs for a slice more |
| `fifo` | locks are released in the order they were acquired | `KernelLifo`: the release is refused, the lock stays locked |
| `cleanexit` | a task exits holding at most the lock it acquired first | `sched.c:262`: the second lock stays locked with no owner |
| `reap` | a killed task that is dispatched once more makes no call, and no task is created in its slot while it runs or sleeps | `KernelReuse`: the new task is linked twice |

`do_exec` and `do_mthread_create` (`sched.c:46,100`) take the first free slot and
ask for nothing else, and so do their actions; `Reaped` and the second
conjunct of `Caller` are the rule `reap`. It says something only where `nokill` is dropped:
without kills `FreeIsUnlinked` holds and the caller is alive. So the run `kernel`
and the proofs do without it, and `kernel_kill` has this rule alone. A slot that
a kill left in `ready_queue` may be used again under the rule. No program can see
to the first half of the rule, since a task does not learn that it was killed;
where such a task goes on to sleep, acquire or exit, its pid being 0 already, the
properties of `kernel_kill` fail as well. So that run shows what a kill does as
long as the killed task only computes. What a PCB does that
is linked in two lists of sleepers is beyond sequences: its one node ties the
circles together. `HeldOnce` is what fails first, and the model says no more from
there on.

`Modes` are the spawn modes that programs pass. The passing runs use
`AUTO_CLEANUP_ON_EXIT`, the one the shell passes; `ENTER_ZOMBIE_ON_EXIT` differs in
the status that it leaves, and the proofs cover both.

In `Ipc` a program uses an object after it was initialised, and nobody
initialises one in which somebody sleeps (`Idle`): `list_init` would forget the
sleepers. Programs of `test/` set up each object once. The count given to a
semaphore or a barrier is positive. A semaphore is raised up to `VAL_MAX`.

In `KeyTable` keys are not 0, since the user library passes addresses; slots not
yet taken hold the key 0. No program uses more objects than there are slots: the
code does not ask (`sync.c:70`, `sync.c:206`), and what lies behind the tables
is outside of the model.

`FsRules` are the rules for the file system, and each is there because names or
marks go wrong without it:

| Rule | Meaning | Without it |
|---|---|---|
| `last` | what is freed is the last in use of its byte of the bit map | `FileSysClear`: its neighbours are freed too |
| `dots` | nobody removes `.` or `..` | the entry goes and the directory stays, or the other way round |
| `links` | a file that was linked is not removed | `file.c:978`: the first entry with the inode goes, whichever was named |

`Interruptible` says which calls a reset may interrupt. In the run it is
`mkdir`, `touch`, `ln` and `write`; resets between two calls come everywhere. After a
reset in `mkfs`, `rmdir` or `rm` the properties do not hold: `mkfs` writes the
magic number before the root directory (`file.c:167`), the other two shift the
entries of a directory before they lower `dentry_num` (`file.c:554`).
There is no rule for transfers: programs read, write and seek as they please, up
to `FILE_MAX` blocks, and the machine hangs when one enters a block.

`FileSysLimits` says how far the code goes, and bounds the disks of the runs and of
the proofs. A directory has its one block (18 entries) and a file its five direct
blocks. `alloc_datablock` looks at the first 4096 blocks only (`file.c:89`). Of the
inodes at most seven sectors are used, 56 in the code: `clear_inode` (`file.c:281`)
adds a byte offset to a pointer to inodes, so for the k-th inode of a sector it
clears memory 7k sectors further on (`Strayed`). Up to 56 inodes that is a buffer
that holds no inode in use (`StrayMisses`); from 57 on it may be the buffer that
`current_inode` points into, and what follows is not modelled. Disks are never full
(`alloc_inode`, `alloc_datablock`, `Room`).

In `Paging` processes create threads and threads do not: `num_thread` of a thread
counts on from what the last task in its slot left (`sched.c:115`). A program is
one segment that begins at a page boundary, as those of the repository are.
Between the last page that a program loads or faults on and its stack lie more
pages than the pool has (`PagingAssumption`): an image begins at page 0x10, the
stack of a process lies below page 0xf00010, the pool has some 53,000 pages. A
program that faults just below its stack could take the page of a later thread. A
handler starts only with enough pages left in the pool (`Room`): `allocPage`
never asks. The pool of the model ends at the boot page table, 0x5e000000. In the
code the buffers of the file system lie inside it, from 0x5d000000 on
(`include/os/file.h:18-22`): after some 49,000 pages it hands them out too, which
`Paging`, having no file system, does not show. Faults are on user pages
(`Touched`): for an address of the kernel's half `find_pte` would take a leaf of two
megabytes for a table (`irq.c:128-137`).

Fairness: `WF_vars(TimerTick)` in `Kernel`. Every tick arms the next
(`irq.c:28`), and no action disables it for good. This is the kernel in INT_MODE:
in POLL_MODE `do_net_recv` waits for the card in a loop with interrupts off
(`drivers/emacps/xemacps_main.c:670`), where no tick comes, nor does one in a file transfer
that hangs. No fairness is assumed of
programs: they may never yield, never release and never exit. The other
specifications state safety only, and no fairness.

## 5. Runs

| Run | Instance | Shows |
|---|---|---|
| `klist` | 2 lists, 4 nodes, every call in every order | the circles stay well linked (`WellLinked`); `list.c` implements `Fifo` |
| `kernel` | 4 PCBs, 2 locks, all rules (`reap` says nothing without kills) | the thirteen properties below |
| `kernel_kill` | 4 PCBs, 1 lock, the rule `reap` alone | what survives `kill` in any state, bursts of the shell and careless exits as long as a killed task makes no further call and its slot is left alone: `HeldOnce`, `SoleRunner`, `WaitReturns` |
| `kernel_reuse` | kills, and no `reap` | `HeldOnce` violated |
| `kernel_burst` | all rules but `paced` | `NoTaskLost` violated |
| `kernel_lifo` | all rules but `fifo` | `ReleaseReleases` violated |
| `ipc` | 4 PCBs, a semaphore, a barrier or a mailbox, the rules of `kernel` | nobody is lost or sleeps without need; the three refinements |
| `key_table` | 4 slots, 4 keys, 2 names | `HandlesDistinct`, `OneMailboxPerName`, `HandlesStable` |
| `filesys` | 3 inodes, 4 blocks, files of up to 3, all rules, resets, transfers that hang | blocks are not shared, names hold; `FileSys` implements `FileTree` |
| `fs_tail` | all rules, transfers below a block | `ReadsBack` violated |
| `fs_clear` | all rules but `last` | `FreesOne` violated |
| `paging` | 3 slots, tables of 4 entries, a pool of 24 pages | pages used once, stacks apart; `Paging` implements `AddressSpaces` |

`kernel`:
- `HeldOnce`: no PCB is linked twice.
- `SoleRunner`, `NoTaskLost`: a live task is where its next wake-up will look.
- `FreeIsUnlinked`, `WaitersHaveTarget`: a free slot is in no list, and nobody
  waits for it.
- `MutualExclusion`, `LocksAccounted`, `ReleaseReleases`, `ImplementsFairLock`:
  the mutexes are fair locks, none is leaked, no waiter sleeps at a free one.
- `RoundRobin`: no wake-up, creation, exit or preemption lets a task overtake a
  ready one.
- `WaitReturns`: a waiter leaves a `wait_list` when its target ends, not before.
- `ReadyRuns`: every ready task gets the processor.

`ipc`:
- `NoTaskLost`, again: also whoever sleeps in these objects is in a queue that
  somebody will look into.
- `SleepersMustWait`: whoever sleeps in a mailbox cannot be served by what it
  holds now, although the sleeper tested it long ago.
- `NoStandOff`: senders and receivers of one mailbox never sleep at once. It needs
  messages and requests that together exceed the buffer by at most one byte.
- `ImplementsSemaphore`: `val` is units when positive and the length of the line
  when negative, whatever is raised, lowered, destroyed and set up again.
- `ImplementsRendezvous`: exactly those leave who arrived in this round.
- `ImplementsByteChannel`: a message enters whole, also that of a sender that
  slept, and bytes come out once and in order.

`filesys`:
- `NothingShared`: what a path or a descriptor leads to is marked in both maps,
  and no block is in two files; a reset only leaves marks too many.
- `NamesHold`: an entry leads to an inode of its type, `..` to the directory that
  lists it; the current directory and open files exist.
- `ImplementsFileTree`: each call changes the tree of names as it says or not at
  all, also when it is cut short.

`paging`:
- `FramesUsedOnce`: no page is a table twice, a table and data, or data of two
  processes, and every page in use came from the pool.
- `StacksApart`: no two tasks of a space have one stack page, it is mapped before
  the task runs, and the context saved on a kernel stack stays as it was.
- `ImplementsAddressSpaces`: no fault, start or store changes the memory of
  another space, or a page other than the one it is about.

### Bounds

TLC exhausts every passing instance, without a state constraint.

`kernel`. Pids and slots are bounded by `NUM_MAX_TASK`, and a task is linked at
most once. Four PCBs are the shell and three others. That is enough for the shell
to be linked in front of, between and behind other tasks, for a lock with an
owner and two waiters, for a task with two waiters, and for a slot that is freed
and used again while others run. Two locks give the hand-over of one while the
other is held, and a task that holds both; the run `kernel_kill` has one lock
because undisciplined programs make `owns` and `locks` vary independently.

`ipc`. Three tasks besides the shell: two that sleep in one object and one that
wakes them, a barrier of three, two senders that race for one gap. The mailbox
has `MAX_MBOX_LENGTH = 3` bytes and messages of 1 and 2, so that one message may
fit while another does not, and the buffer is shifted by less than it holds.
`VAL_MAX = 2`. `OBJECTS_MAX = 1`: a behaviour uses one of the three objects;
they share nothing but the tasks, and that a task in one of them is in no other
is what `HeldOnce` says in the first part. `ELSEWHERE_MAX = 0`: tasks do not
sleep in other queues meanwhile, which `kernel` covers. The proofs of section 6
have none of these bounds.

`key_table`. As many keys as slots, so that the tables fill; a mailbox can have
three slots, so that two names use them up with one of them closed and opened
again.

`filesys`. Two bits of a map share a byte (`BITS`, 8 in the code), two inodes
share a sector, blocks have two bytes: every neighbour that a mask or an offset
can hit by mistake exists. Three inodes are the root and two others, so a
directory in a directory, a file with two names, and an inode that is used
again. Files have up to three blocks; programs move half a block or one, and seek
to the second block and the third: a write returns or hangs, grows a file by the
block it enters and by those before it, and is cut off by a reset between any two
of its sectors. Directories have up to four entries. `LINKS_MOD`
is 4 instead of 2^32, so that `links` wraps. The two names
are alike in every definition, so the run takes them as symmetric. The real disk
has 512 inodes, whose number does not fit the byte it is stored in (finding on
`file.h:101`); the models stay below 57 (`FileSysLimits`).

`paging`. Tables of four entries give addresses of three digits. Image and heap
lie in the first tables, stacks cross from one last-level table into another, so
that tables are made in every order. Three slots are the shell and two others: a
process with a thread, two processes side by side, a slot used again. `PGDIR`
bounds the pool; `User` is every page that a task can name.

## 6. What is proved

**Lists** (`KList_proofs`), for every set of lists and nodes.
`ListsWellLinked` proves the type invariant and `WellLinked`, which is inductive
together with it; `ListTypesKept` names the first half; `ListsImplementFifo`
proves the refinement of `Fifo`.

**Kernel** (`Kernel_proofs`), for every `NUM_MAX_TASK`, every set of locks and
every set of modes, under `Disciplined`, which says that the four rules other than
`reap` hold (nobody is killed then, and `reap` says nothing):

| Theorem | Property |
|---|---|
| `Invariance` | the inductive invariant `Inv` |
| `TypesKept` | `TypeOK` |
| `PcbsHeldOnce` | `HeldOnce` |
| `OneLiveRunner` | `SoleRunner`, `RunnerAlive` |
| `NoTaskIsLost` | `NoTaskLost` |
| `FreePcbsAreFree` | `FreeIsUnlinked` |
| `TargetsAreAlive` | `WaitersHaveTarget` |
| `MutexesExclude` | `MutualExclusion` |
| `NoLockIsLeaked` | `LocksAccounted` |
| `LocksArePassedOn` | `ReleaseReleases` |
| `WaitsAreAnswered` | `WaitReturns` |
| `ReadyQueueIsRoundRobin` | `RoundRobin` |
| `MutexesAreFairLocks` | `ImplementsFairLock` |

The properties are not inductive one by one. `NoTaskLost` fails in one step from
a state in which the shell runs while linked in the middle of the queue, so
`Inv` says where it can be (`HomeShell`: at the head or at the tail, and in the
queue whenever it does not run). `WaitersHaveTarget` fails from a state where a
free slot has a status that is not dead, so `Inv` remembers that slots once used
keep the status of their last task (`Graves`). `MutualExclusion` fails from a
state where a lock is unlocked and owned, so `Inv` has the whole of the
accounting, and that the recorded locks of a task are locks it owns (`Locking`).
`Linked` and `Placed` tie lists, statuses and pids together.

The argument follows the code. A handler changes the lists and then calls
`do_scheduler` with the changed values; `Core` is the part of `Inv` over the
lists, statuses and pids that it passes on. `BlockInv`, `WakeInv`, `EndInv` and
`BirthInv` show that sleeping, waking, ending and beginning keep `Core`, and
`DispatchInv` that the scheduler turns `Core` into `Core` with a live running
task. `Leaves` describes the tasks that leave lists of sleepers, so that the
tick, a release and an exit share `WakeInv`. `HandOverInv` is the locks' half.
Then there is one lemma per action.

**Semaphores, barriers, mailboxes** (`Ipc_proofs`), for every number of tasks,
objects, bytes and messages, under `Disciplined`; no bound of the run remains.

| Theorem | Property |
|---|---|
| `IpcInvariance` | the inductive invariant `IpcInv` |
| `IpcTypesKept` | `IpcTypeOK` |
| `NoCallerIsLost` | `NoTaskLost`, of `IpcSpec` |
| `NoWakeUpIsLost` | `SleepersMustWait` |
| `NobodyStandsOff` | `NoStandOff`, if a message and a request exceed the buffer together by at most one byte |
| `SemaphoresCount` | `ImplementsSemaphore` |
| `BarriersMeet` | `ImplementsRendezvous` |
| `MailboxesAreStreams` | `ImplementsByteChannel` |

`IpcInv` is `Inv` of the kernel and what ties counts to queues: `Counted` (a
negative `val` is minus the length of the line, and otherwise there is none),
`Gathered` (`wait_num` is the length of the barrier's queue), `Unopened` (a
mailbox that nobody opened is empty), `SleepersMustWait`, and that the shell is
in no call. Each handler has one of three effects on the lists, and a lemma for
each takes `Inv` through it: an object in use by nobody is initialised
(`Initialised`), one task sleeps (`Slept`), some wake (`Woke`, with `WokeAll` and
`WokeFirst`). `OthersFrame` says that no other step of the kernel touches these
queues. A send or a receive that is served wakes all those whom the new fill
level may concern, and leaves those asleep whom it cannot (`ServedStep`): this is
why `SleepersMustWait` is inductive. `NobodyStandsOff` follows from it: a sleeping
sender and a sleeping receiver bound the fill level from below and from above.
Each refinement has a lemma that maps a step (`CountingStep`, `MeetingStep`,
`ChannelStep`) and the frames `SemFrame`, `BarFrame` and `MboxFrame` for the
steps of the others.

**Key tables** (`KeyTable_proofs`), for every number of slots, keys and names.
`TablesKept` proves the inductive invariant: slots not yet taken hold key 0
(`Fresh`), no key is in two slots (`OneSlot`), what was handed out still holds
what it was handed out for (`Handed`, `Named`). From it follow
`NobodySharesByChance` (`HandlesDistinct`), `NamesMeet` (`OneMailboxPerName`) and
`KeysStay` (`HandlesStable`).

**Address spaces** (`Paging_proofs`), for every size of tables, pool and memory,
every set of slots and every set of programs; no bound of the run remains.

| Theorem | Property |
|---|---|
| `PagingInvariant` | the inductive invariant `PgInv` |
| `PagesTyped` | `PagingTypeOK` |
| `PagesUsedOnce` | `FramesUsedOnce` |
| `StacksAlwaysApart` | `StacksApart` |
| `SpacesSeparate` | `ImplementsAddressSpaces` |

A page table is memory, so one wrong write could turn data into a table. `Tree`
gives every page in use a level: directories, first tables, second tables, data,
kernel stacks of threads. Levels are disjoint, an entry of a level is empty or
points to the next, and two entries of a level never point to one page. `Sound`
says that such levels exist; they only grow, also when the slot that a directory
belonged to is used again. From it follow `WalkEnds` (a walk of the tables ends at
data or nowhere) and `WalksApart` (two walks do not end at one page), and from
these `PagesUsedOnce`.

`alloc_page_helper` is followed through its steps: `BelowDirectory` and
`BelowFirst` make a missing table, `PutSecond` and `PutPage` the entry of the page;
`HelperSound` is the whole of it: one walk changes, no page with data does.
`LoadSound` carries this through the recursion of `load_elf`: the states of a load
are a function of the number of pages (`LoadSequence`), and the numbers for which
`Loaded` holds are a set that has 0 and with each number the next
(`Recursion_proofs`). `SpaceBuilt` adds the directory, the stacks and the context.
`UserStacks` is the other half of the invariant: a process has the first stack, its
n-th thread the n-th below it, and below the last that was handed out nothing is
mapped, as far as the pool reaches; without it a thread could start on a page its
creator already uses. For the refinement `StartStep`, `ForkStep`, `FaultStep` and
`StoreStep` map a step each; an exit changes nothing there.

**The file system** (`FileSys_proofs`), for every size of map, sector, table and
directory, every set of names, transfers and seeks, and every disk within
`FileSysLimits` (in the code: 56 inodes, 4096 blocks, 18 entries, five blocks of a
file), under `UnderRules`: programs keep the three rules of section 4, and a reset
may cut off `mkdir`, `touch`, `ln` and `write`, and comes anywhere between two calls
and in a transfer that hangs. The run `filesys` checks under the same rules. Beyond
that no bound of the run remains but `LINKS_MOD`, the modulus of `links`, of which
the proof uses that one less than zero is not zero.

| Theorem | Property |
|---|---|
| `StrayMisses` | what `clear_inode` clears is its inode, or behind the sectors of all inodes |
| `FsInvariant` | the inductive invariant `FsInv` |
| `FsTyped` | `FsTypeOK` |
| `NothingEverShared` | `NothingShared` |
| `NamesAlwaysHold` | `NamesHold` |
| `NamesFollowTree` | `ImplementsFileTree` |
| `OneIsFreed` | `FreesOne`: with the rule `last`, without which `fs_clear` violates it |

The invariant is `Good(d, c, F)`, of a disk, a current directory and a table of
files. It is shown of every disk that a call leaves on its way, with
the directory and the files of before the call, and `GoodAfterReset` says that
forgetting those two keeps it: this is the whole argument about resets.
`Good` has four parts. `TreeSound` is stronger than `NamesHold`, which is not
inductive: the first two entries of a directory in use are `.` and `..`, the others
have names of their own, a directory is listed in one place, and that is its
parent. Without it `rmdir`, which removes the first entry with the inode, could
take out another one, and a directory could be removed under the task that stands
in it. `Apart` is `NothingShared`, `FilesSound` is about descriptors, and `Stands`
says where the current directory can be. `StrayMisses` is what `FileSysLimits`
is for: without it the definition of `clear_inode` would leave something out.

What is reachable is an iteration over as many steps as there are inodes.
`Reached` shows that it is the least set that has the root and all that its members
lead to (`Complete`): a chain of sets of inodes that grows stops in time
(`Recursion_proofs`). From then on only `Complete` is used, and reachability is
never unfolded. `Adds` and `Drops` describe a disk with one entry more or less, for
`mkdir`, `touch` and `ln` and for `rm` and `rmdir`; `AddsReach`, `AddsTree`, `DropsReach`
and `DropsTree` carry the tree over.

A write that grows its file is a recursion over blocks. `GrownFrom` relates a disk
of it to the disk it began with: the blocks it had, fresh ones behind them, and
nothing else changed. `GrowSound` carries it over one block, for the disks so far,
also those that show one block less than the inode buffer has, and `GrownDisks` over
all. `GoodGrown` then gives `FsInv`, for a write that returns, for one that hangs and
for one that was cut off. Each call has a lemma that ends in `FsInv'` and in what it
does to the names (`Follows`), from which `FollowsTree` gives the step of `FileTree`.

Under the rule `links` `do_rm` never reaches its loop over blocks: it lowers a `links`
of 0, so the file is not freed (section 7, 10). The proof shows that this is what
happens.

**Assumptions.** `SchedAssumption` (there is at least one PCB; PCBs, locks,
network queues and the queues of `Sync` are different heads),
`DisciplineAssumption`, `IpcAssumption` (each object has queues of its own;
messages and requests are positive and fit a buffer), `KeyTableAssumption`,
`FileSysAssumption` (sizes are positive, no program calls a file `.` or `..`, a
directory has room for two entries), `FileSysLimits` and `PagingAssumption` (the
kernel's half begins where the hardware says, programs and stacks lie apart).
TLC evaluates them in the runs of these modules.

**Only model-checked.** `ReadyRuns`, a liveness property. The behaviour of
undisciplined programs (`kernel_kill`): `do_kill` releases a sequence of locks
through a fold and `Woken` filters a sequence, and what those compute is an
induction over the sequence. Of the properties that a run violates without one of
the rules, the theorems say that the rules suffice. `ReadsBack` is violated under
all rules.

## 7. Where code and intent differ

Shown by a run:

1. `sched.c:148,159`: the fallback on `pcb[0]` and the burst (`kernel_burst`).
2. `sync.c:50-55`: a release out of order is refused (`kernel_lifo`).
3. `sched.c:228`: a killed task stays linked while its slot is used again
   (`kernel_reuse`).
4. `file.c:856,899`: the block of the last bytes is left out of a transfer
   (`fs_tail`).
5. `file.c:52`: the mask that frees a bit frees those behind it (`fs_clear`).

Met while modelling; the models translate them, or leave out the call:

6. `sched.c:228`: a killed task that is ready runs for a slice more. Translated
   (`do_kill`), and ruled out by `nokill`.
7. `sched.c:262`: an exit with two locks releases one. Translated: the set `L` of
   `do_exit` has at most one lock; the rule `cleanexit` keeps programs from it.
8. `file.c:862,913`: the loop over the bytes of a block never ends. Translated
   (`Returns`, `hung`).
9. `init/main.c:136`: the shell's `wait_list` is never initialised. The models
   leave out the two calls that would follow it.
10. `file.c:996`: `links` starts at 0 and is decremented before the test; the file
    is never freed. Translated (`LINKS_MOD`).
11. `file.c:978`: of two links `do_rm` removes the first. Translated
    (`PlaceOfIno`), and ruled out by `links`.
12. `file.c:1001`: an inode number is compared with a pointer, so no descriptor is
    closed. Translated: `do_rm` leaves `FD_table` alone.
13. `file.c:281,291`: `clear_inode` and `clear_datablock` compute wrong addresses.
    Translated, as far as the disk goes (`Strayed`).
14. `file.c:89`: `alloc_datablock` looks at the first sector of the map only;
    `file.c:192`: the valid bit never reaches the disk; `file.c:224` and
    `file.c:708`: `statfs` counts the wrong map and `cat` reads too far;
    `include/os/file.h:101`: an inode number in a byte. Outside of the instances.
15. `sync.c:205`: slot 0 of the mailboxes is never used and the last lies behind
    the array. Translated up to the last slot.
16. `kernel/sched/time.c:62`: `check_timer` looks at the wrong task. Not modelled.
17. `tiny_libc/mthread.c:78`: `mthread_join` does not wait. Nothing to model.
18. `sched.c:115`: `num_thread` of a thread is not reset. Left out (section 4).
19. `kernel/mm/mm.c:81`: the address of a page that was mapped already is wrong.
    Translated as a `kva` that is no page; no modelled caller uses it.

PROJECT.json quotes the line that each of them contradicts.

## 8. What is not modelled

- `do_sleep` and `check_timer`. `check_timer` reads the field `timeout` at an
  offset from the node *behind* the one it looks at; with one sleeper that is the
  list head, and the field is whatever the linker put there. What it then
  unblocks is a PCB laid over the list head. A model would have to invent the
  layout of memory.
- The descriptor rings and `num_packet_left`. The ring is shared with the card,
  whose side is not in the repository; `rxsr_reg` is read uninitialised
  (`drivers/emacps/xemacps_main.c:681`). Only the sleeping and waking of INT_MODE is modelled;
  without it nobody sleeps in the network queues (`net_poll_mode`).
- The Xilinx driver and the board support under `drivers/`: vendored code.
- What a transfer that hangs does to the memory behind its buffers, and the bytes
  of files, which no call that returns ever stores.
- More than 56 inodes (section 4).
- Indirect blocks of files. `set_file_block` ignores them (`file.c:296`), and
  `rw_datablock` goes through an `indir1_ptr` that nobody sets.
- `ls`, `cat`, `statfs`: they change nothing.
- `ioremap`, which runs once at boot; `kmalloc` and `alloc_page_phys`, which have
  no caller; unmapping, which does not exist.
- The bound of `locks[10]`, and what lies behind the key tables.
- Trap entry, context switch, boot block: assembly. Section 3 says what is used
  of it.
- Screen, serial line, PLIC, string functions, image tools.
- User programs beyond the calls they make. The bulk of the repository's lines
  are programs stored as arrays of bytes (`payload.c`, `user_programs.c`), the
  vendored driver, and the superseded snapshots.

## 9. What is left

1. Proofs for the rule `reap` alone (`kernel_kill`): what stands in the way are the
   fold of `do_kill` over `locks[]` and the filter in `Woken`, which would have to be
   functions over positions, as `Grown` is in `FileSys`. What a PCB in two lists does
   would need the pointers of `KList` in place of sequences.
2. The file system without the rule `links`: the loop of `do_rm` over blocks
   would then run.
3. A larger `ipc` instance with two objects at once; the theorems cover it, the
   run does not.
