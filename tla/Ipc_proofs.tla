----------------------------- MODULE Ipc_proofs -----------------------------
(***************************************************************************)
(* The semaphores, barriers and mailboxes for any number of tasks and      *)
(* objects, when user programs and devices keep to the rules of Kernel.tla *)
(* and nobody initialises an object in use.  Each handler has one of three *)
(* effects on the lists (nothing, one task sleeps, some tasks wake), and   *)
(* one lemma each takes Kernel's invariant through it; what IpcInv adds    *)
(* ties the counts and the fill levels to the block queues.                *)
(***************************************************************************)
EXTENDS Ipc, Kernel_proofs, FiniteSetTheorems

Calls(I) == {None} \cup {Send(b, m) : b \in I, m \in Messages}
                   \cup {Recv(b, n) : b \in I, n \in Lengths}

(* The variables of this module, but for what the queues say of them. *)
IpcTypes ==
  /\ inited \in SUBSET (Sem \cup Bar \cup Mbox)
  /\ val \in [Sem -> Int] /\ \A s \in Sem : val[s] <= VAL_MAX
  /\ total_num \in [Bar -> Nat] /\ wait_num \in [Bar -> Nat]
  /\ msg \in [Mbox -> [0..(MAX_MBOX_LENGTH - 1) -> Byte]]
  /\ index \in [Mbox -> 0..MAX_MBOX_LENGTH]
  /\ call \in [Pcb -> Calls(Mbox \cap inited)]
  /\ recv_buf = <<>> \/ \E n \in Lengths : recv_buf \in [1..n -> Byte]

(* The mailboxes that nobody has opened are empty, and so are their queues. *)
Unopened == \A b \in Mbox \ inited : index[b] = 0 /\ Idle({full_queue[b], empty_queue[b]})

(* val is minus the length of the line, or there is no line. *)
Counted == \A s \in Sem : Len(block_queue[s]) = IF val[s] < 0 THEN -val[s] ELSE 0

(* wait_num is the number of tasks that stay at the barrier. *)
Gathered == \A b \in Bar : wait_num[b] = Len(block_queue[b])

IpcInv == /\ Inv
          /\ IpcTypes
          /\ call[Shell] = None
          /\ Unopened
          /\ Counted
          /\ Gathered
          /\ SleepersMustWait

-----------------------------------------------------------------------------
(* The block queues of the objects are heads of their own. *)
LEMMA Objects ==
  /\ Sync \subseteq Heads /\ Sync \cap Pcb = {} /\ Sync \cap Lock = {} /\ Sync \cap Net = {}
  /\ Sem \subseteq Sync /\ Bar \subseteq Sync
  /\ Sem \cap Bar = {} /\ Mbox \cap (Sem \cup Bar) = {}
  /\ \A b \in Mbox : /\ full_queue[b] \in Sync \ (Sem \cup Bar)
                     /\ empty_queue[b] \in Sync \ (Sem \cup Bar)
  /\ \A b, c \in Mbox : /\ full_queue[b] # empty_queue[c]
                        /\ b # c => full_queue[b] # full_queue[c] /\ empty_queue[b] # empty_queue[c]
<1>1. /\ full_queue \in [Mbox -> Sync] /\ empty_queue \in [Mbox -> Sync]
      /\ IsInjective(full_queue) /\ IsInjective(empty_queue)
      /\ Range(full_queue) \cap Range(empty_queue) = {}
      /\ Sem \cup Bar \subseteq Sync \ (Range(full_queue) \cup Range(empty_queue))
      /\ Sem \cap Bar = {} /\ Mbox \cap (Sem \cup Bar) = {}
  BY IpcAssumption DEF IpcAssumption
<1>2. \A b \in Mbox : full_queue[b] \in Range(full_queue) /\ empty_queue[b] \in Range(empty_queue)
  BY <1>1 DEF Range
<1>3. Sync \subseteq Heads /\ Sync \cap Pcb = {} /\ Sync \cap Lock = {} /\ Sync \cap Net = {}
  BY SchedAssumption DEF SchedAssumption, Heads
<1> QED
  BY <1>1, <1>2, <1>3 DEF IsInjective

(* What the invariant says of the block queues and of the running task. *)
LEMMA Queueing ==
  ASSUME Inv
  PROVE  /\ block_queue \in [Heads -> Seq(Pcb)]
         /\ \A h \in Heads : current_running \notin ToSet(block_queue[h])
         /\ \A h \in Heads : \A p \in ToSet(block_queue[h]) : p \in Pcb /\ pid[p] # 0
<1>1. block_queue \in [Heads -> Seq(Pcb)]
  BY DEF Inv, Core, Linked
<1>2. \A h \in Heads : \A p \in ToSet(block_queue[h]) : p \in Pcb
  BY <1>1 DEF ToSet
<1> QED
  BY <1>1, <1>2 DEF Inv, Core, Placed, Running

(* A caller may be put to sleep when it is a user task or resumes a call. *)
LEMMA Sleepers ==
  ASSUME IpcInv, User \/ InCall
  PROVE  Task /\ current_running \in Pcb \ {Shell}
BY Sets DEF IpcInv, Inv, User, InCall, Task, Caller, Running, Alive

(* No effect: an object in use by nobody is initialised. *)
LEMMA Initialised ==
  ASSUME Inv, NEW H, Idle(H), list_init(H)
  PROVE  UNCHANGED schedVars
<1>1. block_queue' = block_queue
  BY Queueing DEF Idle, list_init
<1> QED
  BY <1>1 DEF list_init, schedVars

(* One task sleeps, in h. *)
LEMMA Slept ==
  ASSUME Inv, Task, NEW h \in Sync, do_block(h), UNCHANGED mutexVars
  PROVE  /\ Inv'
         /\ block_queue' = [block_queue EXCEPT ![h] = Append(@, current_running)]
<1>1. h \in Heads /\ h \notin Pcb /\ h \notin Lock
  BY Objects
<1>2. current_running \in Pcb
  BY DEF Task, Caller, Inv
<1>3. Link(block_queue[h], current_running) = Append(block_queue[h], current_running)
  BY <1>1, <1>2, Queueing, LinkNew
<1> QED
  BY <1>1, <1>3, DoBlockInv DEF do_block

(* The tasks of w leave the queue h and are ready; the caller runs on. *)
LEMMA Woke ==
  ASSUME Inv, Task, NEW h \in Sync, NEW w, Leaves(w, block_queue, block_queue'),
         Wake(w), UNCHANGED mutexVars,
         \A g \in Heads \ {h} : block_queue'[g] = block_queue[g]
  PROVE  Inv'
<1>1. current_running \in Pcb /\ current_running # Shell
  BY DEF Task, Caller, Inv
<1>2. /\ ready_queue' = ready_queue \o w
      /\ status' = Awake(status, ToSet(w))
      /\ UNCHANGED <<pid, mode, locks, created, current_running, lock_status, owns>>
  BY DEF Wake, Unblocked, Awake, mutexVars
<1>3. Core(ready_queue \o w, block_queue', Awake(status, ToSet(w)), pid, created, current_running)
  BY <1>1, WakeInv DEF Inv
<1>4. Running(Awake(status, ToSet(w)), pid, current_running)
  BY <1>1, RunnerStays
<1>5. Locking(block_queue', pid, locks, lock_status, owns)
  <2>1. \A l \in Lock : block_queue'[l] = block_queue[l]
    BY Sets, Objects
  <2> QED
    BY <2>1 DEF Inv, Locking
<1> QED
  BY <1>2, <1>3, <1>4, <1>5 DEF Inv

(* All of the queue wake. *)
LEMMA WokeAll ==
  ASSUME Inv, Task, NEW h \in Sync, wake_all(h), UNCHANGED mutexVars
  PROVE  Inv' /\ block_queue' = [block_queue EXCEPT ![h] = <<>>]
<1>1. Wake(block_queue[h]) /\ block_queue' = [block_queue EXCEPT ![h] = <<>>] /\ h \in Heads
  BY Objects DEF wake_all
<1>2. Leaves(block_queue[h], block_queue, block_queue')
  BY <1>1, AllOut DEF Inv, Core
<1>3. \A g \in Heads \ {h} : block_queue'[g] = block_queue[g]
  BY <1>1, Queueing
<1> QED
  BY <1>1, <1>2, <1>3, Woke

(* The first of the queue wakes, if there is one. *)
LEMMA WokeFirst ==
  ASSUME Inv, Task, NEW h \in Sync, Wake(First(h)), block_queue' = Advanced({h}),
         UNCHANGED mutexVars
  PROVE  /\ Inv'
         /\ block_queue' = IF block_queue[h] = <<>> THEN block_queue
                             ELSE [block_queue EXCEPT ![h] = Tail(@)]
<1>1. h \in Heads
  BY Objects
<1>2. Leaves(First(h), block_queue, block_queue')
  BY <1>1, FirstOut DEF Inv, Core
<1>3. \A g \in Heads \ {h} : block_queue'[g] = block_queue[g]
  BY DEF Advanced
<1>4. block_queue' = IF block_queue[h] = <<>> THEN block_queue
                       ELSE [block_queue EXCEPT ![h] = Tail(@)]
  BY <1>1, Queueing DEF Advanced
<1> QED
  BY <1>2, <1>3, <1>4, Woke

-----------------------------------------------------------------------------
(* The rest of the kernel puts nobody in these queues and takes nobody out. *)
LEMMA OthersFrame ==
  ASSUME Inv, Disciplined, Next
  PROVE  \A h \in Sync : block_queue'[h] = block_queue[h]
<1>0. /\ block_queue \in [Heads -> Seq(Pcb)]
      /\ Sync \subseteq Heads /\ Sync \cap Pcb = {} /\ Sync \cap Lock = {} /\ Sync \cap Net = {}
  BY Queueing, Objects
<1>1. ASSUME NEW H \in SUBSET Heads, H \cap Sync = {}, block_queue' = Advanced(H)
      PROVE  \A h \in Sync : block_queue'[h] = block_queue[h]
  BY <1>0, <1>1 DEF Advanced
<1>2. ASSUME NEW h \in Heads \ Sync, do_block(h)
      PROVE  \A g \in Sync : block_queue'[g] = block_queue[g]
  BY <1>0, <1>2 DEF do_block
<1>3. ASSUME NEW i \in find_freepcb, NEW m, NewTask(i, m)
      PROVE  \A h \in Sync : block_queue'[h] = block_queue[h]
  <2>1. i \in Pcb
    BY DEF find_freepcb, Free
  <2> QED
    BY <2>1, <1>0, <1>3 DEF NewTask
<1>4. CASE TimerTick
  <2>1. PICK W \in SUBSET Net : block_queue' = Advanced(W)
    BY <1>4 DEF TimerTick, reset_irq_timer
  <2> QED
    BY <2>1, <1>0, <1>1, Sets
<1>5. CASE Yield
  BY <1>5 DEF Yield, yield
<1>6. CASE Exec
  BY <1>6, <1>3 DEF Exec, do_exec
<1>7. CASE MthreadCreate
  BY <1>7, <1>3 DEF MthreadCreate, do_mthread_create
<1>8. CASE WaitPid
  BY <1>0, <1>8, <1>2, Sets DEF WaitPid, do_waitpid, Inv
<1>9. CASE NetWait
  BY <1>0, <1>9, <1>2, Sets DEF NetWait, net_wait
<1>10. CASE LockAcquire
  BY <1>0, <1>10, <1>2, Sets DEF LockAcquire, do_mutex_lock_acquire
<1>11. CASE LockRelease
  <2>1. PICK l \in Lock : block_queue' = Advanced({l})
    BY <1>11 DEF LockRelease, do_mutex_lock_release, Disciplined
  <2> QED
    BY <2>1, <1>0, <1>1, Sets
<1>12. CASE Exit
  <2> DEFINE c == current_running
  <2>1. c \in Pcb /\ owns[c] \subseteq Lock
        /\ block_queue' = [Advanced(owns[c]) EXCEPT ![c] = <<>>]
    BY <1>12, ExitParts
  <2> QED
    BY <2>1, <1>0, Sets DEF Advanced
<1>13. CASE Kill
  BY <1>13 DEF Kill, Disciplined
<1> QED
  BY <1>4, <1>5, <1>6, <1>7, <1>8, <1>9, <1>10, <1>11, <1>12, <1>13 DEF Next

(* The mailboxes of a step that moves nobody in their queues. *)
LEMMA SleepersKept ==
  ASSUME Inv, SleepersMustWait, Unopened, UNCHANGED index,
         inited' \cap Mbox = inited \cap Mbox,
         \A b \in Mbox : /\ block_queue'[full_queue[b]] = block_queue[full_queue[b]]
                         /\ block_queue'[empty_queue[b]] = block_queue[empty_queue[b]],
         \A p \in Pcb : pid[p] # 0 => call'[p] = call[p]
  PROVE  SleepersMustWait' /\ Unopened'
<1>1. \A b \in Mbox : full_queue[b] \in Heads /\ empty_queue[b] \in Heads
  BY Objects
<1>2. ASSUME NEW b \in Mbox \cap inited,
             NEW p \in ToSet(block_queue[full_queue[b]]) \cup ToSet(block_queue[empty_queue[b]])
      PROVE  call'[p] = call[p]
  BY <1>1, <1>2, Queueing
<1>3. SleepersMustWait'
  BY <1>2 DEF SleepersMustWait
<1>4. Unopened'
  BY DEF Unopened, Idle
<1> QED
  BY <1>3, <1>4

(* The members of Calls. *)
LEMMA CallSets ==
  ASSUME NEW I
  PROVE  /\ None \in Calls(I)
         /\ \A b \in I, m \in Messages : Send(b, m) \in Calls(I)
         /\ \A b \in I, n \in Lengths : Recv(b, n) \in Calls(I)
BY DEF Calls

(* The semaphores and barriers of a step that touches only mailboxes. *)
LEMMA CountsKept ==
  ASSUME Counted, Gathered, UNCHANGED <<val, wait_num>>,
         \A h \in Sem \cup Bar : block_queue'[h] = block_queue[h]
  PROVE  Counted' /\ Gathered'
BY DEF Counted, Gathered

-----------------------------------------------------------------------------
(* The lengths of a queue as tasks come and go. *)
LEMMA QueueLengths ==
  ASSUME NEW s \in Seq(Pcb), NEW p \in Pcb
  PROVE  /\ Len(s) \in Nat /\ (s = <<>> <=> Len(s) = 0) /\ Len(<<>>) = 0
         /\ Len(Append(s, p)) = Len(s) + 1
         /\ s # <<>> => Len(Tail(s)) = Len(s) - 1
OBVIOUS

(* Each operation on a semaphore. *)
LEMMA SemStep ==
  ASSUME IpcInv, SemInit \/ SemUp \/ SemDown \/ SemDestroy
  PROVE  IpcInv'
<1> DEFINE c == current_running
<1>1. /\ UNCHANGED <<mutexVars, total_num, wait_num, msg, index, call, recv_buf>>
      /\ User
  BY DEF SemInit, SemUp, SemDown, SemDestroy, SemUnchanged
<1>2. Task /\ c \in Pcb /\ c \in Pcb \ {Shell}
  BY <1>1, Sleepers
<1>3. PICK s \in Sem :
        \/ \E v \in Counts : /\ v <= VAL_MAX /\ Idle({s})
                             /\ val' = [val EXCEPT ![s] = v] /\ inited' = inited \cup {s}
                             /\ list_init({s})
        \/ s \in inited /\ val[s] < VAL_MAX /\ do_semaphore_up(s)
        \/ s \in inited /\ do_semaphore_down(s)
        \/ s \in inited /\ do_semaphore_destroy(s)
  BY DEF SemInit, SemUp, SemDown, SemDestroy, do_semaphore_init
<1>4. /\ s \in Sync /\ s \in Heads /\ s \notin Bar
      /\ \A b \in Mbox : s # full_queue[b] /\ s # empty_queue[b]
      /\ block_queue \in [Heads -> Seq(Pcb)] /\ block_queue[s] \in Seq(Pcb)
  BY Objects, Queueing DEF IpcInv
<1>5. /\ val \in [Sem -> Int] /\ val[s] \in Int /\ \A t \in Sem : val[t] <= VAL_MAX
      /\ \A t \in Sem : Len(block_queue[t]) = IF val[t] < 0 THEN -val[t] ELSE 0
      /\ VAL_MAX \in Nat /\ Counts \subseteq Nat
  BY IpcAssumption DEF IpcAssumption, IpcInv, IpcTypes, Counted
<1>6. /\ Inv' /\ inited' = inited \cup {s}
      /\ val' \in [Sem -> Int] /\ \A t \in Sem \ {s} : val'[t] = val[t]
      /\ val'[s] <= VAL_MAX
      /\ \A h \in Heads \ {s} : block_queue'[h] = block_queue[h]
      /\ Len(block_queue'[s]) = IF val'[s] < 0 THEN -val'[s] ELSE 0
  <2>1. CASE \E v \in Counts : /\ v <= VAL_MAX /\ Idle({s})
                               /\ val' = [val EXCEPT ![s] = v] /\ inited' = inited \cup {s}
                               /\ list_init({s})
    <3>1. UNCHANGED vars
      BY <2>1, <1>1, Initialised DEF vars, IpcInv
    <3>2. Inv'
      BY <3>1 DEF IpcInv, Inv, vars, schedVars, mutexVars
    <3>3. block_queue' = block_queue /\ block_queue[s] = <<>>
      BY <2>1, <3>1 DEF vars, schedVars, Idle
    <3> QED
      BY <2>1, <3>2, <3>3, <1>2, <1>4, <1>5, QueueLengths
  <2>2. CASE s \in inited /\ val[s] < VAL_MAX /\ do_semaphore_up(s)
    <3>1. /\ val' = [val EXCEPT ![s] = @ + 1] /\ inited' = inited
          /\ Wake(First(s)) /\ block_queue' = Advanced({s})
      BY <2>2 DEF do_semaphore_up
    <3>2. /\ Inv'
          /\ block_queue' = IF block_queue[s] = <<>> THEN block_queue
                              ELSE [block_queue EXCEPT ![s] = Tail(@)]
      BY <3>1, <1>1, <1>2, <1>4, WokeFirst DEF IpcInv
    <3>3. \A h \in Heads \ {s} : block_queue'[h] = block_queue[h]
      BY <3>2, <1>4
    <3>4. Len(block_queue'[s]) = IF block_queue[s] = <<>> THEN 0 ELSE Len(block_queue[s]) - 1
      BY <3>2, <1>2, <1>4, QueueLengths
    <3>5. /\ val' \in [Sem -> Int] /\ val'[s] = val[s] + 1
          /\ \A t \in Sem \ {s} : val'[t] = val[t]
      BY <3>1, <1>5
    <3>6. val'[s] <= VAL_MAX /\ Len(block_queue'[s]) = IF val'[s] < 0 THEN -val'[s] ELSE 0
      BY <2>2, <3>4, <3>5, <1>2, <1>4, <1>5, QueueLengths
    <3> QED
      BY <2>2, <3>1, <3>2, <3>3, <3>5, <3>6
  <2>3. CASE s \in inited /\ do_semaphore_down(s)
    <3>1. val' = [val EXCEPT ![s] = @ - 1] /\ inited' = inited /\ val'[s] = val[s] - 1
      BY <2>3, <1>5 DEF do_semaphore_down
    <3>2. CASE val'[s] < 0
      <4>1. Inv' /\ block_queue' = [block_queue EXCEPT ![s] = Append(@, c)]
        BY <2>3, <3>2, <1>1, <1>2, <1>4, Slept DEF do_semaphore_down, IpcInv
      <4> QED
        BY <2>3, <3>1, <3>2, <4>1, <1>2, <1>4, <1>5, QueueLengths
    <3>3. CASE ~(val'[s] < 0)
      <4>1. UNCHANGED vars
        BY <2>3, <3>3, <1>1 DEF do_semaphore_down, vars
      <4>2. Inv' /\ block_queue' = block_queue
        BY <4>1 DEF IpcInv, Inv, vars, schedVars, mutexVars
      <4> QED
        BY <2>3, <3>1, <3>3, <4>2, <1>2, <1>4, <1>5, QueueLengths
    <3> QED
      BY <3>2, <3>3
  <2>4. CASE s \in inited /\ do_semaphore_destroy(s)
    <3>1. val' = [val EXCEPT ![s] = 0] /\ inited' = inited /\ wake_all(s)
      BY <2>4 DEF do_semaphore_destroy
    <3>2. Inv' /\ block_queue' = [block_queue EXCEPT ![s] = <<>>]
      BY <3>1, <1>1, <1>2, <1>4, WokeAll DEF IpcInv
    <3> QED
      BY <2>4, <3>1, <3>2, <1>2, <1>4, <1>5, QueueLengths
  <2> QED
    BY <1>3, <2>1, <2>2, <2>3, <2>4, Zenon
<1>7. Counted'
  BY <1>4, <1>5, <1>6, Objects DEF Counted
<1>8. Gathered'
  BY <1>1, <1>4, <1>6, Objects DEF Gathered, IpcInv
<1>9. SleepersMustWait' /\ Unopened'
  <2>1. inited' \cap Mbox = inited \cap Mbox
    BY <1>6, Objects
  <2>2. \A b \in Mbox : /\ block_queue'[full_queue[b]] = block_queue[full_queue[b]]
                        /\ block_queue'[empty_queue[b]] = block_queue[empty_queue[b]]
    BY <1>4, <1>6, Objects
  <2> QED
    BY <2>1, <2>2, <1>1, SleepersKept DEF IpcInv
<1>10. IpcTypes'
  <2>1. inited' \in SUBSET (Sem \cup Bar \cup Mbox) /\ Mbox \cap inited' = Mbox \cap inited
    BY <1>6, Objects DEF IpcInv, IpcTypes
  <2>2. \A t \in Sem : val'[t] <= VAL_MAX
    BY <1>5, <1>6
  <2> QED
    BY <2>1, <2>2, <1>1, <1>6 DEF IpcInv, IpcTypes
<1> QED
  BY <1>1, <1>6, <1>7, <1>8, <1>9, <1>10 DEF IpcInv

(* Each operation on a barrier. *)
LEMMA BarStep ==
  ASSUME IpcInv, BarInit \/ BarWait \/ BarDestroy
  PROVE  IpcInv'
<1> DEFINE c == current_running
<1>1. UNCHANGED <<mutexVars, val, msg, index, call, recv_buf>> /\ User
  BY DEF BarInit, BarWait, BarDestroy, BarUnchanged
<1>2. Task /\ c \in Pcb /\ c \in Pcb \ {Shell}
  BY <1>1, Sleepers
<1>3. PICK b \in Bar :
        \/ \E n \in Counts : Idle({b}) /\ do_barrier_init(b, n)
        \/ b \in inited /\ do_barrier_wait(b)
        \/ b \in inited /\ do_barrier_destroy(b)
  BY DEF BarInit, BarWait, BarDestroy
<1>4. /\ b \in Sync /\ b \in Heads /\ b \notin Sem
      /\ \A m \in Mbox : b # full_queue[m] /\ b # empty_queue[m]
      /\ block_queue \in [Heads -> Seq(Pcb)] /\ block_queue[b] \in Seq(Pcb)
  BY Objects, Queueing DEF IpcInv
<1>5. /\ total_num \in [Bar -> Nat] /\ wait_num \in [Bar -> Nat]
      /\ total_num[b] \in Nat /\ wait_num[b] \in Nat
      /\ \A a \in Bar : wait_num[a] = Len(block_queue[a])
      /\ Counts \subseteq Nat
  BY IpcAssumption DEF IpcAssumption, IpcInv, IpcTypes, Gathered
<1>6. /\ Inv' /\ inited' = inited \cup {b}
      /\ total_num' \in [Bar -> Nat] /\ wait_num' \in [Bar -> Nat]
      /\ \A a \in Bar \ {b} : wait_num'[a] = wait_num[a]
      /\ \A h \in Heads \ {b} : block_queue'[h] = block_queue[h]
      /\ wait_num'[b] = Len(block_queue'[b])
  <2>1. CASE \E n \in Counts : Idle({b}) /\ do_barrier_init(b, n)
    <3>1. UNCHANGED vars
      BY <2>1, <1>1, Initialised DEF vars, IpcInv, do_barrier_init
    <3>2. Inv' /\ block_queue' = block_queue /\ block_queue[b] = <<>>
      BY <2>1, <3>1 DEF IpcInv, Inv, vars, schedVars, mutexVars, Idle
    <3> QED
      BY <2>1, <3>2, <1>2, <1>4, <1>5, QueueLengths DEF do_barrier_init
  <2>2. CASE b \in inited /\ do_barrier_wait(b)
    <3>1. CASE wait_num[b] + 1 = total_num[b]
      <4>1. /\ wake_all(b) /\ wait_num' = [wait_num EXCEPT ![b] = 0]
            /\ UNCHANGED <<total_num, inited>>
        BY <2>2, <3>1 DEF do_barrier_wait
      <4>2. Inv' /\ block_queue' = [block_queue EXCEPT ![b] = <<>>]
        BY <4>1, <1>1, <1>2, <1>4, WokeAll DEF IpcInv
      <4> QED
        BY <2>2, <4>1, <4>2, <1>2, <1>4, <1>5, QueueLengths
    <3>2. CASE wait_num[b] + 1 # total_num[b]
      <4>1. /\ do_block(b) /\ wait_num' = [wait_num EXCEPT ![b] = @ + 1]
            /\ UNCHANGED <<total_num, inited>>
        BY <2>2, <3>2 DEF do_barrier_wait
      <4>2. Inv' /\ block_queue' = [block_queue EXCEPT ![b] = Append(@, c)]
        BY <4>1, <1>1, <1>2, <1>4, Slept DEF IpcInv
      <4> QED
        BY <2>2, <4>1, <4>2, <1>2, <1>4, <1>5, QueueLengths
    <3> QED
      BY <3>1, <3>2
  <2>3. CASE b \in inited /\ do_barrier_destroy(b)
    <3>1. /\ wake_all(b) /\ wait_num' = [wait_num EXCEPT ![b] = 0]
          /\ total_num' = [total_num EXCEPT ![b] = 0] /\ UNCHANGED inited
      BY <2>3 DEF do_barrier_destroy
    <3>2. Inv' /\ block_queue' = [block_queue EXCEPT ![b] = <<>>]
      BY <3>1, <1>1, <1>2, <1>4, WokeAll DEF IpcInv
    <3> QED
      BY <2>3, <3>1, <3>2, <1>2, <1>4, <1>5, QueueLengths
  <2> QED
    BY <1>3, <2>1, <2>2, <2>3
<1>7. Gathered'
  BY <1>4, <1>5, <1>6, Objects DEF Gathered
<1>8. Counted'
  BY <1>1, <1>4, <1>6, Objects DEF Counted, IpcInv
<1>9. SleepersMustWait' /\ Unopened'
  <2>1. inited' \cap Mbox = inited \cap Mbox
    BY <1>6, Objects
  <2>2. \A m \in Mbox : /\ block_queue'[full_queue[m]] = block_queue[full_queue[m]]
                        /\ block_queue'[empty_queue[m]] = block_queue[empty_queue[m]]
    BY <1>4, <1>6, Objects
  <2> QED
    BY <2>1, <2>2, <1>1, SleepersKept DEF IpcInv
<1>10. IpcTypes'
  <2>1. inited' \in SUBSET (Sem \cup Bar \cup Mbox) /\ Mbox \cap inited' = Mbox \cap inited
    BY <1>6, Objects DEF IpcInv, IpcTypes
  <2> QED
    BY <2>1, <1>1, <1>6 DEF IpcInv, IpcTypes
<1> QED
  BY <1>1, <1>6, <1>7, <1>8, <1>9, <1>10 DEF IpcInv

(* A mailbox is opened: nobody was in its queues, and it holds nothing. *)
LEMMA OpenStep ==
  ASSUME IpcInv, MboxOpen
  PROVE  IpcInv'
<1>1. PICK b \in Mbox \ inited :
        /\ inited' = inited \cup {b} /\ index' = [index EXCEPT ![b] = 0]
        /\ list_init({full_queue[b], empty_queue[b]})
        /\ UNCHANGED <<msg, call, recv_buf, mutexVars, val, total_num, wait_num>>
  BY DEF MboxOpen, do_mbox_open, MboxUnchanged
<1>2. Idle({full_queue[b], empty_queue[b]})
  BY <1>1 DEF IpcInv, Unopened
<1>3. UNCHANGED vars
  BY <1>1, <1>2, Initialised DEF IpcInv, vars
<1>4. Inv' /\ block_queue' = block_queue
  BY <1>3 DEF IpcInv, Inv, vars, schedVars, mutexVars
<1>5. Counted' /\ Gathered'
  BY <1>1, <1>4 DEF IpcInv, Counted, Gathered
<1>6. index \in [Mbox -> 0..MAX_MBOX_LENGTH] /\ MAX_MBOX_LENGTH \in Nat
  BY IpcAssumption DEF IpcAssumption, IpcInv, IpcTypes
<1>7. index' \in [Mbox -> 0..MAX_MBOX_LENGTH] /\ \A a \in Mbox \ {b} : index'[a] = index[a]
  BY <1>1, <1>6
<1>U. Unopened'
  BY <1>1, <1>4, <1>7 DEF IpcInv, Unopened, Idle
<1>8. block_queue[full_queue[b]] = <<>> /\ block_queue[empty_queue[b]] = <<>> /\ ToSet(<<>>) = {}
  BY <1>2, Sets, ShortQueues DEF Idle
<1>9. SleepersMustWait'
  BY <1>1, <1>4, <1>7, <1>8 DEF IpcInv, SleepersMustWait
<1>10. Calls(Mbox \cap inited) \subseteq Calls(Mbox \cap inited')
  BY <1>1 DEF Calls
<1>11. IpcTypes'
  BY <1>1, <1>7, <1>10 DEF IpcInv, IpcTypes
<1> QED
  BY <1>1, <1>4, <1>5, <1>U, <1>9, <1>11 DEF IpcInv

(* The other system calls, and the tick. *)
LEMMA OthersStep ==
  ASSUME IpcInv, Disciplined, Others
  PROVE  IpcInv'
<1>1. /\ Next
      /\ call' = [p \in Pcb |-> IF pid[p] = 0 /\ pid'[p] # 0 THEN None ELSE call[p]]
      /\ UNCHANGED <<inited, val, total_num, wait_num, msg, index, recv_buf>>
  BY DEF Others
<1>2. Inv'
  BY <1>1, NextInv DEF IpcInv
<1>3. \A h \in Sync : block_queue'[h] = block_queue[h]
  BY <1>1, OthersFrame DEF IpcInv
<1>4. Counted' /\ Gathered'
  BY <1>1, <1>3, Objects, CountsKept DEF IpcInv
<1>5. SleepersMustWait' /\ Unopened'
  BY <1>1, <1>3, Objects, SleepersKept DEF IpcInv
<1>6. call' \in [Pcb -> Calls(Mbox \cap inited)] /\ call'[Shell] = None
  BY <1>1, Sets DEF IpcInv, IpcTypes, Calls
<1>7. IpcTypes'
  BY <1>1, <1>6 DEF IpcInv, IpcTypes
<1> QED
  BY <1>2, <1>4, <1>5, <1>6, <1>7 DEF IpcInv

(* A caller goes to sleep in a mailbox that cannot serve it. *)
LEMMA SleepStep ==
  ASSUME IpcInv, User \/ InCall, NEW b \in Mbox \cap inited, NEW h, NEW d,
         \/ /\ h = full_queue[b]
            /\ \E m \in Messages : d = Send(b, m) /\ index[b] + Len(m) > MAX_MBOX_LENGTH
         \/ /\ h = empty_queue[b]
            /\ \E n \in Lengths : d = Recv(b, n) /\ index[b] < n,
         Sleep(h, d), UNCHANGED inited, MboxUnchanged
  PROVE  IpcInv'
<1> DEFINE c == current_running
<1>1. /\ do_block(h) /\ call' = [call EXCEPT ![c] = d]
      /\ UNCHANGED <<msg, index, recv_buf, inited, mutexVars, val, total_num, wait_num>>
  BY DEF Sleep, MboxUnchanged
<1>2. Task /\ c \in Pcb \ {Shell}
  BY Sleepers
<1>3. h \in Sync \ (Sem \cup Bar) /\ h \in Heads /\ block_queue \in [Heads -> Seq(Pcb)]
  BY Objects, Queueing DEF IpcInv
<1>4. Inv' /\ block_queue' = [block_queue EXCEPT ![h] = Append(@, c)]
  BY <1>1, <1>2, <1>3, Slept DEF IpcInv
<1>5. \A g \in Heads \ {h} : block_queue'[g] = block_queue[g]
  BY <1>3, <1>4
<1>6. Counted' /\ Gathered'
  BY <1>1, <1>3, <1>5, Objects, CountsKept DEF IpcInv
<1>7. /\ call \in [Pcb -> Calls(Mbox \cap inited)] /\ d \in Calls(Mbox \cap inited)
      /\ call' \in [Pcb -> Calls(Mbox \cap inited)] /\ call'[Shell] = None
      /\ call'[c] = d /\ \A p \in Pcb \ {c} : call'[p] = call[p]
  <2>1. call \in [Pcb -> Calls(Mbox \cap inited)] /\ call[Shell] = None
    BY DEF IpcInv, IpcTypes
  <2>2. d \in Calls(Mbox \cap inited)
    BY CallSets
  <2> QED
    BY <2>1, <2>2, <1>1, <1>2, Sets
<1>8. IpcTypes'
  BY <1>1, <1>7 DEF IpcInv, IpcTypes
<1>9. Unopened'
  BY <1>1, <1>5, Objects DEF IpcInv, Unopened, Idle
<1>10. ToSet(block_queue'[h]) = ToSet(block_queue[h]) \cup {c}
  BY <1>2, <1>3, <1>4, AppendQueue
<1>11. ASSUME NEW g \in Heads, NEW p \in ToSet(block_queue[g])
       PROVE  call'[p] = call[p]
  BY <1>7, <1>11, Queueing DEF IpcInv
<1>12. ASSUME NEW a \in Mbox \cap inited, NEW p \in ToSet(block_queue'[full_queue[a]])
       PROVE  /\ call'[p].op = "send" /\ call'[p].box = a
              /\ index[a] + Len(call'[p].msg) > MAX_MBOX_LENGTH
  <2>1. CASE p \in ToSet(block_queue[full_queue[a]])
    BY <2>1, <1>11, Objects DEF IpcInv, SleepersMustWait
  <2>2. CASE p \notin ToSet(block_queue[full_queue[a]])
    <3>1. h = full_queue[a] /\ p = c
      BY <2>2, <1>5, <1>10, <1>12, Objects
    <3>2. a = b
      BY <3>1, Objects
    <3>3. \E m \in Messages : d = Send(b, m) /\ index[b] + Len(m) > MAX_MBOX_LENGTH
      BY <3>1, Objects
    <3> QED
      BY <3>1, <3>2, <3>3, <1>7 DEF Send
  <2> QED
    BY <2>1, <2>2
<1>13. ASSUME NEW a \in Mbox \cap inited, NEW p \in ToSet(block_queue'[empty_queue[a]])
       PROVE  call'[p].op = "recv" /\ call'[p].box = a /\ index[a] < call'[p].len
  <2>1. CASE p \in ToSet(block_queue[empty_queue[a]])
    BY <2>1, <1>11, Objects DEF IpcInv, SleepersMustWait
  <2>2. CASE p \notin ToSet(block_queue[empty_queue[a]])
    <3>1. h = empty_queue[a] /\ p = c
      BY <2>2, <1>5, <1>10, <1>13, Objects
    <3>2. a = b
      BY <3>1, Objects
    <3>3. \E n \in Lengths : d = Recv(b, n) /\ index[b] < n
      BY <3>1, Objects
    <3> QED
      BY <3>1, <3>2, <3>3, <1>7 DEF Recv
  <2> QED
    BY <2>1, <2>2
<1>14. SleepersMustWait'
  BY <1>1, <1>12, <1>13 DEF SleepersMustWait
<1> QED
  BY <1>1, <1>4, <1>6, <1>7, <1>8, <1>9, <1>14 DEF IpcInv

(* A call that was served wakes all of the queue h of its mailbox b, whose  *)
(* sleepers the new fill level may concern; it concerns no others.         *)
LEMMA ServedStep ==
  ASSUME IpcInv, User \/ InCall, NEW b \in Mbox \cap inited, NEW h, NEW k \in 0..MAX_MBOX_LENGTH,
         \/ h = empty_queue[b] /\ k >= index[b]
         \/ h = full_queue[b] /\ k <= index[b],
         index' = [index EXCEPT ![b] = k], wake_all(h), Return,
         msg' \in [Mbox -> [0..(MAX_MBOX_LENGTH - 1) -> Byte]],
         recv_buf' = recv_buf \/ \E n \in Lengths : recv_buf' \in [1..n -> Byte],
         UNCHANGED inited, MboxUnchanged
  PROVE  IpcInv'
<1> DEFINE c == current_running
<1>1. /\ call' = [call EXCEPT ![c] = None]
      /\ UNCHANGED <<inited, mutexVars, val, total_num, wait_num>>
  BY DEF Return, MboxUnchanged
<1>2. Task /\ c \in Pcb \ {Shell}
  BY Sleepers
<1>3. h \in Sync \ (Sem \cup Bar) /\ h \in Heads /\ block_queue \in [Heads -> Seq(Pcb)]
  BY Objects, Queueing DEF IpcInv
<1>4. Inv' /\ block_queue' = [block_queue EXCEPT ![h] = <<>>]
  BY <1>1, <1>2, <1>3, WokeAll DEF IpcInv
<1>5. /\ \A g \in Heads \ {h} : block_queue'[g] = block_queue[g]
      /\ ToSet(block_queue'[h]) = {}
  BY <1>3, <1>4, Sets, ShortQueues
<1>6. Counted' /\ Gathered'
  BY <1>1, <1>3, <1>5, Objects, CountsKept DEF IpcInv
<1>7. /\ call' \in [Pcb -> Calls(Mbox \cap inited)] /\ call'[Shell] = None
      /\ \A p \in Pcb \ {c} : call'[p] = call[p]
  <2>1. call \in [Pcb -> Calls(Mbox \cap inited)] /\ call[Shell] = None
    BY DEF IpcInv, IpcTypes
  <2>2. None \in Calls(Mbox \cap inited)
    BY CallSets
  <2> QED
    BY <2>1, <2>2, <1>1, <1>2, Sets
<1>8. /\ index \in [Mbox -> 0..MAX_MBOX_LENGTH] /\ index' \in [Mbox -> 0..MAX_MBOX_LENGTH]
      /\ index'[b] = k /\ \A a \in Mbox \ {b} : index'[a] = index[a]
      /\ MAX_MBOX_LENGTH \in Nat
  BY IpcAssumption DEF IpcAssumption, IpcInv, IpcTypes
<1>9. IpcTypes'
  BY ZenonT(60), <1>1, <1>7, <1>8 DEF IpcInv, IpcTypes
<1>10. Unopened'
  BY <1>1, <1>4, <1>5, <1>8, Objects DEF IpcInv, Unopened, Idle
<1>11. ASSUME NEW g \in Heads, NEW p \in ToSet(block_queue'[g])
       PROVE  /\ p \in ToSet(block_queue[g]) /\ call'[p] = call[p] /\ g # h
              /\ call[p] \in Calls(Mbox \cap inited)
  <2>1. g # h /\ p \in ToSet(block_queue[g])
    BY <1>5, <1>11
  <2> QED
    BY <2>1, <1>7, Queueing DEF IpcInv, IpcTypes
<1>12. ASSUME NEW a \in Mbox \cap inited, NEW p \in ToSet(block_queue'[full_queue[a]])
       PROVE  /\ call'[p].op = "send" /\ call'[p].box = a
              /\ index'[a] + Len(call'[p].msg) > MAX_MBOX_LENGTH
  <2>1. full_queue[a] \in Heads
    BY Objects
  <2>2. /\ p \in ToSet(block_queue[full_queue[a]]) /\ call'[p] = call[p]
        /\ full_queue[a] # h /\ call[p] \in Calls(Mbox \cap inited)
    BY <2>1, <1>11, <1>12
  <2>3. /\ call[p].op = "send" /\ call[p].box = a
        /\ index[a] + Len(call[p].msg) > MAX_MBOX_LENGTH
    BY <2>2 DEF IpcInv, SleepersMustWait
  <2>4. index'[a] >= index[a]
    BY <2>2, <1>8
  <2>5. PICK m \in Messages : call[p].msg = m
    BY <2>2, <2>3 DEF Calls, None, Send, Recv
  <2>6. Len(m) \in Nat
    BY IpcAssumption DEF IpcAssumption
  <2> QED
    BY <2>2, <2>3, <2>4, <2>5, <2>6, <1>8
<1>13. ASSUME NEW a \in Mbox \cap inited, NEW p \in ToSet(block_queue'[empty_queue[a]])
       PROVE  call'[p].op = "recv" /\ call'[p].box = a /\ index'[a] < call'[p].len
  <2>1. empty_queue[a] \in Heads
    BY Objects
  <2>2. /\ p \in ToSet(block_queue[empty_queue[a]]) /\ call'[p] = call[p]
        /\ empty_queue[a] # h /\ call[p] \in Calls(Mbox \cap inited)
    BY <2>1, <1>11, <1>13
  <2>3. call[p].op = "recv" /\ call[p].box = a /\ index[a] < call[p].len
    BY <2>2 DEF IpcInv, SleepersMustWait
  <2>4. index'[a] <= index[a]
    BY <2>2, <1>8
  <2>5. PICK n \in Lengths : call[p].len = n
    BY <2>2, <2>3 DEF Calls, None, Send, Recv
  <2>6. n \in Nat
    BY IpcAssumption DEF IpcAssumption
  <2> QED
    BY <2>2, <2>3, <2>4, <2>5, <2>6, <1>8
<1>14. SleepersMustWait'
  BY <1>1, <1>12, <1>13 DEF SleepersMustWait
<1> QED
  BY <1>4, <1>6, <1>7, <1>9, <1>10, <1>14 DEF IpcInv

(* do_mbox_send *)
LEMMA SendStep ==
  ASSUME IpcInv, User \/ InCall, NEW b \in Mbox \cap inited, NEW m \in Messages,
         do_mbox_send(b, m), MboxUnchanged
  PROVE  IpcInv'
<1>1. m \in Seq(Byte) /\ Len(m) \in 1..MAX_MBOX_LENGTH /\ MAX_MBOX_LENGTH \in Nat
  BY IpcAssumption DEF IpcAssumption
<1>2. index[b] \in 0..MAX_MBOX_LENGTH /\ msg \in [Mbox -> [0..(MAX_MBOX_LENGTH - 1) -> Byte]]
  BY DEF IpcInv, IpcTypes
<1>3. CASE index[b] + Len(m) > MAX_MBOX_LENGTH
  BY <1>3, SleepStep DEF do_mbox_send
<1>4. CASE ~(index[b] + Len(m) > MAX_MBOX_LENGTH)
  <2>1. Put(b, m) /\ UNCHANGED inited
    BY <1>4 DEF do_mbox_send
  <2> DEFINE k == index[b] + Len(m)
  <2>2. k \in 0..MAX_MBOX_LENGTH /\ k >= index[b]
    BY <1>1, <1>2, <1>4
  <2>3. Filled(b, m) \in [0..(MAX_MBOX_LENGTH - 1) -> Byte]
    <3>1. \A i \in index[b]..(k - 1) : i - index[b] + 1 \in 1..Len(m)
      BY <1>1, <1>2
    <3>2. \A i \in 1..Len(m) : m[i] \in Byte
      BY <1>1
    <3>3. msg[b] \in [0..(MAX_MBOX_LENGTH - 1) -> Byte]
      BY <1>2
    <3> QED
      BY <1>1, <1>2, <3>1, <3>2, <3>3 DEF Filled
  <2>4. /\ msg' = [msg EXCEPT ![b] = Filled(b, m)] /\ index' = [index EXCEPT ![b] = k]
        /\ wake_all(empty_queue[b]) /\ Return /\ UNCHANGED recv_buf
    BY <2>1 DEF Put
  <2> HIDE DEF k
  <2>5. msg' \in [Mbox -> [0..(MAX_MBOX_LENGTH - 1) -> Byte]]
    BY <2>3, <2>4, <1>2
  <2> QED
    BY <2>1, <2>2, <2>4, <2>5, ServedStep
<1> QED
  BY <1>3, <1>4

(* do_mbox_recv *)
LEMMA RecvStep ==
  ASSUME IpcInv, User \/ InCall, NEW b \in Mbox \cap inited, NEW n \in Lengths,
         do_mbox_recv(b, n), MboxUnchanged
  PROVE  IpcInv'
<1>1. n \in 1..MAX_MBOX_LENGTH /\ MAX_MBOX_LENGTH \in Nat
  BY IpcAssumption DEF IpcAssumption
<1>2. index[b] \in 0..MAX_MBOX_LENGTH /\ msg \in [Mbox -> [0..(MAX_MBOX_LENGTH - 1) -> Byte]]
  BY DEF IpcInv, IpcTypes
<1>3. CASE index[b] < n
  BY <1>3, SleepStep DEF do_mbox_recv
<1>4. CASE ~(index[b] < n)
  <2>1. /\ recv_buf' = [i \in 1..n |-> msg[b][i - 1]] /\ index' = [index EXCEPT ![b] = @ - n]
        /\ msg' = Shift(b, n) /\ wake_all(full_queue[b]) /\ Return /\ UNCHANGED inited
    BY <1>4 DEF do_mbox_recv, Take
  <2>2. index[b] - n \in 0..MAX_MBOX_LENGTH /\ index[b] - n <= index[b]
    BY <1>1, <1>2, <1>4
  <2> DEFINE f == [i \in DOMAIN msg[b] |-> IF i + n < MAX_MBOX_LENGTH THEN msg[b][i + n]
                                           ELSE msg[b][i]]
  <2>3. msg[b] \in [0..(MAX_MBOX_LENGTH - 1) -> Byte]
    BY <1>2
  <2>4. f \in [0..(MAX_MBOX_LENGTH - 1) -> Byte]
    <3>1. \A i \in 0..(MAX_MBOX_LENGTH - 1) :
            i + n < MAX_MBOX_LENGTH => i + n \in 0..(MAX_MBOX_LENGTH - 1)
      BY <1>1
    <3> QED
      BY <2>3, <3>1
  <2>5. msg' = [msg EXCEPT ![b] = f]
    BY <2>1 DEF Shift
  <2> HIDE DEF f
  <2>6. msg' \in [Mbox -> [0..(MAX_MBOX_LENGTH - 1) -> Byte]]
    BY <2>4, <2>5, <1>2
  <2>7. recv_buf' \in [1..n -> Byte]
    <3>1. \A i \in 1..n : i - 1 \in 0..(MAX_MBOX_LENGTH - 1)
      BY <1>1
    <3> QED
      BY <2>1, <2>3, <3>1
  <2>8. index' = [index EXCEPT ![b] = index[b] - n]
    BY <2>1
  <2> QED
    BY <2>1, <2>2, <2>6, <2>7, <2>8, ServedStep
<1> QED
  BY <1>3, <1>4

(* Every operation on a mailbox, a resumed one included. *)
LEMMA MboxStep ==
  ASSUME IpcInv, MboxSend \/ MboxRecv \/ MboxResume
  PROVE  IpcInv'
<1>1. CASE MboxSend
  BY <1>1, SendStep DEF MboxSend
<1>2. CASE MboxRecv
  BY <1>2, RecvStep DEF MboxRecv
<1>3. CASE MboxResume
  <2> DEFINE d == call[current_running]
  <2>1. /\ InCall /\ MboxUnchanged
        /\ \/ d.op = "send" /\ do_mbox_send(d.box, d.msg)
           \/ d.op = "recv" /\ do_mbox_recv(d.box, d.len)
    BY <1>3 DEF MboxResume
  <2>2. d \in Calls(Mbox \cap inited) /\ d # None
    BY <2>1 DEF InCall, IpcInv, IpcTypes
  <2>3. CASE d.op = "send"
    <3>1. do_mbox_send(d.box, d.msg) /\ d.box \in Mbox \cap inited /\ d.msg \in Messages
      BY <2>1, <2>2, <2>3 DEF Calls, Send, Recv
    <3> QED
      BY <2>1, <3>1, SendStep
  <2>4. CASE d.op = "recv"
    <3>1. do_mbox_recv(d.box, d.len) /\ d.box \in Mbox \cap inited /\ d.len \in Lengths
      BY <2>1, <2>2, <2>4 DEF Calls, Send, Recv
    <3> QED
      BY <2>1, <3>1, RecvStep
  <2> QED
    BY <2>1, <2>3, <2>4
<1> QED
  BY <1>1, <1>2, <1>3

(* Nothing has been initialised, nobody sleeps, no call is under way. *)
LEMMA IpcStart == IpcInit => IpcInv
<1> SUFFICES ASSUME IpcInit PROVE IpcInv
  OBVIOUS
<1>1. Inv
  BY InitInv DEF IpcInit
<1>2. \A h \in Heads : block_queue[h] = <<>> /\ ToSet(block_queue[h]) = {}
  BY Sets, ShortQueues DEF IpcInit, Init, SchedInit
<1>3. IpcTypes
  BY IpcAssumption DEF IpcAssumption, IpcInit, IpcTypes, Calls, Byte
<1>4. Unopened /\ Counted /\ Gathered /\ SleepersMustWait
  BY <1>2, Objects DEF IpcInit, Unopened, Idle, Counted, Gathered, SleepersMustWait
<1> QED
  BY <1>1, <1>3, <1>4, Sets DEF IpcInv, IpcInit

(* Every step keeps the invariant. *)
LEMMA IpcNextInv ==
  ASSUME IpcInv, Disciplined, [IpcNext]_allVars
  PROVE  IpcInv'
<1>1. CASE SemInit \/ SemUp \/ SemDown \/ SemDestroy
  BY <1>1, SemStep
<1>2. CASE BarInit \/ BarWait \/ BarDestroy
  BY <1>2, BarStep
<1>3. CASE MboxOpen
  BY <1>3, OpenStep
<1>4. CASE MboxSend \/ MboxRecv \/ MboxResume
  BY <1>4, MboxStep
<1>5. CASE Others
  BY <1>5, OthersStep
<1>6. CASE UNCHANGED allVars
  <2>1. UNCHANGED ipcVars /\ UNCHANGED vars
    BY <1>6 DEF allVars
  <2>2. Inv'
    BY <2>1 DEF IpcInv, Inv, vars, schedVars, mutexVars
  <2>3. block_queue' = block_queue
    BY <2>1 DEF vars, schedVars
  <2>4. IpcTypes'
    BY <2>1 DEF IpcInv, IpcTypes, ipcVars
  <2>5. Unopened' /\ Counted' /\ Gathered' /\ SleepersMustWait'
    BY <2>1, <2>3 DEF IpcInv, ipcVars, Unopened, Idle, Counted, Gathered, SleepersMustWait
  <2> QED
    BY <2>1, <2>2, <2>4, <2>5 DEF IpcInv, ipcVars
<1> QED
  BY <1>1, <1>2, <1>3, <1>4, <1>5, <1>6 DEF IpcNext

-----------------------------------------------------------------------------
(* The invariant holds in every state of every disciplined behaviour. *)
THEOREM IpcInvariance == ASSUME Disciplined PROVE IpcSpec => []IpcInv
<1>1. IpcInit => IpcInv
  BY IpcStart
<1>2. IpcInv /\ [IpcNext]_allVars => IpcInv'
  BY IpcNextInv
<1> QED
  BY <1>1, <1>2, PTL DEF IpcSpec

(* Counts, fill levels, buffers and calls keep their types. *)
THEOREM IpcTypesKept == ASSUME Disciplined PROVE IpcSpec => []IpcTypeOK
<1>1. IpcInv => IpcTypeOK
  <2> SUFFICES ASSUME IpcInv PROVE IpcTypeOK
    OBVIOUS
  <2>1. TypeOK
    BY DEF IpcInv, Inv, Core, Linked, Placed, Locking, Statuses, TypeOK
  <2>2. ASSUME NEW p \in Pcb
        PROVE  \/ call[p] = None
               \/ \E b \in Mbox : \/ \E m \in Messages : call[p] = Send(b, m)
                                  \/ \E n \in Lengths : call[p] = Recv(b, n)
    BY DEF IpcInv, IpcTypes, Calls
  <2> QED
    BY <2>1, <2>2 DEF IpcInv, IpcTypes, IpcTypeOK
<1> QED
  BY <1>1, IpcInvariance, PTL

(* No task is lost in the queues of semaphores, barriers and mailboxes     *)
(* either: who sleeps is linked where a wake-up will look for it.          *)
THEOREM NoCallerIsLost == ASSUME Disciplined PROVE IpcSpec => []NoTaskLost
<1>1. IpcInv => NoTaskLost
  BY DEF IpcInv, Inv, Core, Placed, NoTaskLost, ReadyIsQueued, BlockedIsQueued, Alive
<1> QED
  BY <1>1, IpcInvariance, PTL

(* Whoever sleeps in a mailbox cannot be served now. *)
THEOREM NoWakeUpIsLost == ASSUME Disciplined PROVE IpcSpec => []SleepersMustWait
<1>1. IpcInv => SleepersMustWait
  BY DEF IpcInv
<1> QED
  BY <1>1, IpcInvariance, PTL

(* Messages and requests that fit together exclude a stand-off. *)
THEOREM NobodyStandsOff ==
  ASSUME Disciplined, \A m \in Messages, n \in Lengths : Len(m) + n <= MAX_MBOX_LENGTH + 1
  PROVE  IpcSpec => []NoStandOff
<1>1. IpcInv => NoStandOff
  <2> SUFFICES ASSUME IpcInv, NEW b \in Mbox \cap inited,
                      block_queue[full_queue[b]] # <<>>, block_queue[empty_queue[b]] # <<>>
               PROVE  FALSE
    BY DEF NoStandOff
  <2>1. /\ full_queue[b] \in Heads /\ empty_queue[b] \in Heads
        /\ block_queue \in [Heads -> Seq(Pcb)]
    BY Objects, Queueing DEF IpcInv
  <2>2. PICK p \in ToSet(block_queue[full_queue[b]]) : TRUE
    BY <2>1, EmptyQueue
  <2>3. PICK q \in ToSet(block_queue[empty_queue[b]]) : TRUE
    BY <2>1, EmptyQueue
  <2>4. p \in Pcb /\ q \in Pcb /\ call \in [Pcb -> Calls(Mbox \cap inited)]
    BY <2>1, Queueing DEF IpcInv, IpcTypes
  <2>5. call[p].op = "send" /\ index[b] + Len(call[p].msg) > MAX_MBOX_LENGTH
    BY DEF IpcInv, SleepersMustWait
  <2>6. call[q].op = "recv" /\ index[b] < call[q].len
    BY DEF IpcInv, SleepersMustWait
  <2>7. PICK m \in Messages : call[p].msg = m
    BY <2>4, <2>5 DEF Calls, None, Send, Recv
  <2>8. PICK n \in Lengths : call[q].len = n
    BY <2>4, <2>6 DEF Calls, None, Send, Recv
  <2>9. Len(m) \in Nat /\ n \in Nat /\ MAX_MBOX_LENGTH \in Nat /\ index[b] \in Nat
    BY IpcAssumption DEF IpcAssumption, IpcInv, IpcTypes
  <2>10. Len(m) + n <= MAX_MBOX_LENGTH + 1
    OBVIOUS
  <2> QED
    BY <2>5, <2>6, <2>7, <2>8, <2>9, <2>10
<1> QED
  BY <1>1, IpcInvariance, PTL

-----------------------------------------------------------------------------
(* What an operation leaves alone. *)
LEMMA SemFrame ==
  ASSUME IpcInv, SemInit \/ SemUp \/ SemDown \/ SemDestroy
  PROVE  \A h \in Sync \ Sem : block_queue'[h] = block_queue[h]
<1>0. block_queue \in [Heads -> Seq(Pcb)] /\ Sync \subseteq Heads
  BY Queueing, Objects DEF IpcInv
<1>1. CASE SemInit
  BY <1>0, <1>1 DEF SemInit, do_semaphore_init, list_init
<1>2. CASE SemUp
  BY <1>0, <1>2 DEF SemUp, do_semaphore_up, Advanced
<1>3. CASE SemDown
  BY <1>0, <1>3 DEF SemDown, do_semaphore_down, do_block, schedVars
<1>4. CASE SemDestroy
  BY <1>0, <1>4 DEF SemDestroy, do_semaphore_destroy, wake_all
<1> QED
  BY <1>1, <1>2, <1>3, <1>4

(* Likewise of an operation on a barrier. *)
LEMMA BarFrame ==
  ASSUME IpcInv, BarInit \/ BarWait \/ BarDestroy
  PROVE  \A h \in Sync \ Bar : block_queue'[h] = block_queue[h]
<1>0. block_queue \in [Heads -> Seq(Pcb)] /\ Sync \subseteq Heads
  BY Queueing, Objects DEF IpcInv
<1>1. CASE BarInit
  BY <1>0, <1>1 DEF BarInit, do_barrier_init, list_init
<1>2. CASE BarWait
  BY <1>0, <1>2 DEF BarWait, do_barrier_wait, wake_all, do_block
<1>3. CASE BarDestroy
  BY <1>0, <1>3 DEF BarDestroy, do_barrier_destroy, wake_all
<1> QED
  BY <1>1, <1>2, <1>3

(* Likewise of an operation on a mailbox. *)
LEMMA MboxFrame ==
  ASSUME IpcInv, MboxOpen \/ MboxSend \/ MboxRecv \/ MboxResume
  PROVE  /\ \A h \in Sem \cup Bar : block_queue'[h] = block_queue[h]
         /\ UNCHANGED <<val, total_num>>
<1>0. /\ block_queue \in [Heads -> Seq(Pcb)] /\ Sem \cup Bar \subseteq Heads
      /\ \A b \in Mbox : full_queue[b] \notin Sem \cup Bar /\ empty_queue[b] \notin Sem \cup Bar
  BY Queueing, Objects DEF IpcInv
<1>1. ASSUME NEW b \in Mbox, NEW m, do_mbox_send(b, m)
      PROVE  \A h \in Sem \cup Bar : block_queue'[h] = block_queue[h]
  BY <1>0, <1>1 DEF do_mbox_send, Sleep, do_block, Put, wake_all
<1>2. ASSUME NEW b \in Mbox, NEW n, do_mbox_recv(b, n)
      PROVE  \A h \in Sem \cup Bar : block_queue'[h] = block_queue[h]
  BY <1>0, <1>2 DEF do_mbox_recv, Sleep, do_block, wake_all
<1>3. CASE MboxOpen
  BY <1>0, <1>3 DEF MboxOpen, do_mbox_open, list_init, MboxUnchanged
<1>4. CASE MboxSend
  BY <1>1, <1>4 DEF MboxSend, MboxUnchanged
<1>5. CASE MboxRecv
  BY <1>2, <1>5 DEF MboxRecv, MboxUnchanged
<1>6. CASE MboxResume
  <2> DEFINE d == call[current_running]
  <2>1. /\ InCall /\ UNCHANGED <<val, total_num>>
        /\ \/ d.op = "send" /\ do_mbox_send(d.box, d.msg)
           \/ d.op = "recv" /\ do_mbox_recv(d.box, d.len)
    BY <1>6 DEF MboxResume, MboxUnchanged
  <2>2. d \in Calls(Mbox \cap inited) /\ d # None
    BY <2>1 DEF InCall, IpcInv, IpcTypes
  <2>3. d.box \in Mbox
    BY <2>2 DEF Calls, Send, Recv
  <2> QED
    BY <2>1, <2>3, <1>1, <1>2
<1> QED
  BY <1>3, <1>4, <1>5, <1>6

(* The length of a queue is the number of tasks in it. *)
LEMMA QueueCardinality ==
  ASSUME NEW S, NEW s \in Seq(S), IsInjective(s)
  PROVE  IsFiniteSet(ToSet(s)) /\ Cardinality(ToSet(s)) = Len(s)
<1>1. Len(s) \in Nat /\ DOMAIN s = 1..Len(s) /\ \A i \in 1..Len(s) : s[i] \in ToSet(s)
  BY DEF ToSet
<1>2. s \in [1..Len(s) -> ToSet(s)]
  BY <1>1, LenProperties
<1>3. \A e \in ToSet(s) : \E i \in 1..Len(s) : s[i] = e
  BY <1>1 DEF ToSet
<1>4. s \in Bijection(1..Len(s), ToSet(s))
  BY <1>2, <1>3 DEF Bijection, Injection, Surjection
<1>5. IsFiniteSet(1..Len(s)) /\ Cardinality(1..Len(s)) = Len(s)
  BY SMTT(30), <1>1, FS_Interval
<1> QED
  BY <1>4, <1>5, FS_Bijection DEF ExistsBijection

-----------------------------------------------------------------------------
(* Two functions that agree, or agree but for one argument. *)
LEMMA Updated ==
  ASSUME NEW S, NEW f, f = [x \in S |-> f[x]], NEW g, g = [x \in S |-> g[x]]
  PROVE  /\ (\A x \in S : g[x] = f[x]) => g = f
         /\ \A s \in S : \A e : (\A x \in S : g[x] = IF x = s THEN e ELSE f[x]) => g = [f EXCEPT ![s] = e]
<1>1. ASSUME \A x \in S : g[x] = f[x] PROVE g = f
  <2>1. [x \in S |-> g[x]] = [x \in S |-> f[x]]
    BY <1>1
  <2> QED
    BY <2>1
<1>2. ASSUME NEW s \in S, NEW e, \A x \in S : g[x] = IF x = s THEN e ELSE f[x]
      PROVE  g = [f EXCEPT ![s] = e]
  <2>1. [f EXCEPT ![s] = e] = [x \in S |-> IF x = s THEN e ELSE f[x]]
    OBVIOUS
  <2>2. [x \in S |-> g[x]] = [x \in S |-> IF x = s THEN e ELSE f[x]]
    BY <1>2
  <2> QED
    BY <2>1, <2>2
<1> QED
  BY <1>1, <1>2

(* Every step is a step of the counting semaphores, or leaves them. *)
LEMMA CountingStep ==
  ASSUME IpcInv, Disciplined, [IpcNext]_allVars
  PROVE  [Counting!Next]_(Counting!vars)
<1> DEFINE c == current_running
           U == [s \in Sem |-> IF val[s] > 0 THEN val[s] ELSE 0]
           V == [s \in Sem |-> IF val'[s] > 0 THEN val'[s] ELSE 0]
           W == [s \in Sem |-> block_queue[s]]
           X == [s \in Sem |-> block_queue'[s]]
<1>0. /\ block_queue \in [Heads -> Seq(Pcb)] /\ Sem \subseteq Sync /\ Sync \subseteq Heads
      /\ val \in [Sem -> Int]
      /\ \A s \in Sem : Len(block_queue[s]) = IF val[s] < 0 THEN -val[s] ELSE 0
      /\ \A s \in Sem : block_queue[s] \in Seq(Pcb)
  BY Queueing, Objects DEF IpcInv, IpcTypes, Counted
<1>F. /\ U = [s \in Sem |-> U[s]] /\ V = [s \in Sem |-> V[s]]
      /\ W = [s \in Sem |-> W[s]] /\ X = [s \in Sem |-> X[s]]
      /\ \A s \in Sem : /\ U[s] = IF val[s] > 0 THEN val[s] ELSE 0
                        /\ V[s] = IF val'[s] > 0 THEN val'[s] ELSE 0
                        /\ W[s] = block_queue[s] /\ X[s] = block_queue'[s]
                        /\ val[s] \in Int
  BY <1>0
<1>1. ASSUME \A s \in Sem : block_queue'[s] = block_queue[s], val' = val
      PROVE  UNCHANGED Counting!vars
  <2>1. V = U /\ X = W
    BY <1>1
  <2> QED
    BY <2>1 DEF Counting!vars
<1>2. ASSUME NEW s \in Sem, NEW v \in Counts, Idle({s}), do_semaphore_init(s, v)
      PROVE  Counting!Set(s)
  <2>1. val' = [val EXCEPT ![s] = v] /\ v \in Nat /\ W[s] = <<>>
    BY <1>2, IpcAssumption DEF IpcAssumption, do_semaphore_init, Idle
  <2>2. \A t \in Sem : val'[t] \in Int /\ (t # s => val'[t] = val[t])
    BY <2>1, <1>0
  <2>3. V \in [Sem -> Nat] /\ \A t \in Sem \ {s} : V[t] = U[t]
    BY <2>2
  <2>4. X = W
    BY <1>2, <1>0 DEF do_semaphore_init, list_init, Idle
  <2> QED
    BY <2>1, <2>3, <2>4 DEF Counting!Set
<1>3. ASSUME NEW s \in Sem, do_semaphore_up(s)
      PROVE  Counting!Up(s)
  <2>1. val' = [val EXCEPT ![s] = val[s] + 1] /\ block_queue' = Advanced({s})
    BY <1>3 DEF do_semaphore_up
  <2>2. W[s] = <<>> <=> val[s] >= 0
    BY <1>0, QueueLengths
  <2>3. /\ \A t \in Sem : val'[t] = IF t = s THEN val[s] + 1 ELSE val[t]
        /\ \A t \in Sem : X[t] = IF t = s /\ W[s] # <<>> THEN Tail(W[s]) ELSE W[t]
    BY <2>1, <1>0 DEF Advanced
  <2>4. CASE W[s] = <<>>
    <3>1. /\ \A t \in Sem : V[t] = IF t = s THEN U[s] + 1 ELSE U[t]
          /\ \A t \in Sem : X[t] = W[t]
      BY <2>2, <2>3, <2>4, <1>F
    <3>2. V = [U EXCEPT ![s] = U[s] + 1] /\ X = W
      <4> HIDE DEF U, V, W, X
      <4> QED
        BY <3>1, <1>F, Updated
    <3> QED
      BY <3>2, <2>4 DEF Counting!Up
  <2>5. CASE W[s] # <<>>
    <3>1. /\ \A t \in Sem : V[t] = U[t]
          /\ \A t \in Sem : X[t] = IF t = s THEN Tail(W[s]) ELSE W[t]
      BY <2>2, <2>3, <2>5, <1>F
    <3>2. V = U /\ X = [W EXCEPT ![s] = Tail(W[s])]
      <4> HIDE DEF U, V, W, X
      <4> QED
        BY <3>1, <1>F, Updated
    <3> QED
      BY <3>2, <2>5 DEF Counting!Up
  <2> QED
    BY <2>4, <2>5
<1>4. ASSUME NEW s \in Sem, User, do_semaphore_down(s), UNCHANGED mutexVars
      PROVE  \E p \in Pcb : Counting!Down(p, s)
  <2>1. Task /\ c \in Pcb
    BY <1>4, Sleepers
  <2>2. val' = [val EXCEPT ![s] = val[s] - 1] /\ val'[s] = val[s] - 1
    BY <1>4, <1>0 DEF do_semaphore_down
  <2>3. \A t \in Sem : val'[t] = IF t = s THEN val[s] - 1 ELSE val[t]
    BY <2>2, <1>0
  <2>4. PICK p \in Pcb : p = c
    BY <2>1
  <2>5. \A t \in Sem : \A i \in DOMAIN W[t] : W[t][i] # p
    <3>1. \A t \in Sem : p \notin ToSet(block_queue[t])
      BY <2>4, <1>0, Queueing DEF IpcInv
    <3> QED
      BY <3>1, <1>0 DEF ToSet
  <2>6. CASE val[s] > 0
    <3>1. block_queue' = block_queue
      BY <1>4, <2>2, <2>6, <1>0 DEF do_semaphore_down, schedVars
    <3>2. /\ \A t \in Sem : V[t] = IF t = s THEN U[s] - 1 ELSE U[t]
          /\ \A t \in Sem : X[t] = W[t]
          /\ U[s] > 0
      BY <2>3, <2>6, <3>1, <1>F
    <3>3. V = [U EXCEPT ![s] = U[s] - 1] /\ X = W
      <4> HIDE DEF U, V, W, X
      <4> QED
        BY <3>2, <1>F, Updated
    <3>4. Counting!Down(p, s)
      BY <3>2, <3>3, <2>5 DEF Counting!Down, Counting!Waits
    <3> QED
      BY <3>4
  <2>7. CASE ~(val[s] > 0)
    <3>1. do_block(s)
      BY <1>4, <2>2, <2>7, <1>0 DEF do_semaphore_down
    <3>2. block_queue' = [block_queue EXCEPT ![s] = Append(@, c)]
      BY <3>1, <1>0, <1>4, <2>1, Slept DEF IpcInv
    <3>3. /\ \A t \in Sem : V[t] = U[t]
          /\ \A t \in Sem : X[t] = IF t = s THEN Append(W[s], p) ELSE W[t]
          /\ ~(U[s] > 0)
      <4>1. \A t \in Sem : block_queue'[t] = IF t = s THEN Append(block_queue[s], p)
                                                      ELSE block_queue[t]
        BY <2>4, <3>2, <1>0
      <4> QED
        BY <2>3, <2>7, <4>1, <1>F
    <3>4. V = U /\ X = [W EXCEPT ![s] = Append(W[s], p)]
      <4> HIDE DEF U, V, W, X
      <4> QED
        BY <3>3, <1>F, Updated
    <3>5. Counting!Down(p, s)
      BY <3>3, <3>4, <2>5 DEF Counting!Down, Counting!Waits
    <3> QED
      BY <3>5
  <2> QED
    BY <2>6, <2>7
<1>5. ASSUME NEW s \in Sem, do_semaphore_destroy(s)
      PROVE  Counting!Destroy(s)
  <2>1. val' = [val EXCEPT ![s] = 0] /\ block_queue' = [block_queue EXCEPT ![s] = <<>>]
    BY <1>5 DEF do_semaphore_destroy, wake_all
  <2>2. V = [U EXCEPT ![s] = 0] /\ X = [W EXCEPT ![s] = <<>>]
    BY <2>1, <1>0
  <2> QED
    BY <2>2 DEF Counting!Destroy
<1>6. CASE SemInit
  <2>1. PICK s \in Sem : Counting!Set(s)
    BY <1>6, <1>2 DEF SemInit
  <2> QED
    BY <2>1, Zenon DEF Counting!Next
<1>7. CASE SemUp
  <2>1. PICK s \in Sem : Counting!Up(s)
    BY <1>7, <1>3 DEF SemUp
  <2> QED
    BY <2>1, Zenon DEF Counting!Next
<1>8. CASE SemDown
  <2>1. PICK s \in Sem : \E p \in Pcb : Counting!Down(p, s)
    BY <1>8, <1>4 DEF SemDown, SemUnchanged
  <2> QED
    BY <2>1, Zenon DEF Counting!Next
<1>9. CASE SemDestroy
  <2>1. PICK s \in Sem : Counting!Destroy(s)
    BY <1>9, <1>5 DEF SemDestroy
  <2> QED
    BY <2>1, Zenon DEF Counting!Next
<1>10. CASE BarInit \/ BarWait \/ BarDestroy
  <2>1. val' = val
    BY <1>10 DEF BarInit, BarWait, BarDestroy, BarUnchanged
  <2> QED
    BY <1>10, <2>1, <1>1, BarFrame, Objects
<1>11. CASE MboxOpen \/ MboxSend \/ MboxRecv \/ MboxResume
  BY <1>11, <1>1, MboxFrame
<1>12. CASE Others
  BY <1>12, <1>1, OthersFrame, Objects DEF Others, IpcInv
<1>13. CASE UNCHANGED allVars
  BY <1>13, <1>1 DEF allVars, ipcVars, vars, schedVars
<1> QED
  BY <1>6, <1>7, <1>8, <1>9, <1>10, <1>11, <1>12, <1>13 DEF IpcNext

(***************************************************************************)
(* The semaphores implement counting semaphores: no unit is lost or made,  *)
(* and a unit given back goes to the first in line.                        *)
(***************************************************************************)
THEOREM SemaphoresCount == ASSUME Disciplined PROVE IpcSpec => ImplementsSemaphore
<1>1. IpcInit => Counting!Init
  <2> SUFFICES ASSUME IpcInit PROVE Counting!Init
    OBVIOUS
  <2>1. /\ block_queue = [h \in Heads |-> <<>>] /\ val = [s \in Sem |-> 0]
    BY DEF IpcInit, Init, SchedInit
  <2>2. \A s \in Sem : s \in Heads
    BY Objects
  <2> QED
    BY <2>1, <2>2 DEF Counting!Init
<1>2. IpcInv /\ [IpcNext]_allVars => [Counting!Next]_(Counting!vars)
  BY CountingStep
<1> QED
  BY <1>1, <1>2, IpcInvariance, PTL DEF IpcSpec, ImplementsSemaphore, Counting!Spec

-----------------------------------------------------------------------------
(* Every step is a step of the meeting points, or leaves them. *)
LEMMA MeetingStep ==
  ASSUME IpcInv, Disciplined, [IpcNext]_allVars
  PROVE  [Meeting!Next]_(Meeting!vars)
<1> DEFINE c == current_running
           A == [b \in Bar |-> ToSet(block_queue[b])]
           B == [b \in Bar |-> ToSet(block_queue'[b])]
<1>0. /\ block_queue \in [Heads -> Seq(Pcb)] /\ Bar \subseteq Sync /\ Sync \subseteq Heads
      /\ total_num \in [Bar -> Nat] /\ wait_num \in [Bar -> Nat]
      /\ \A b \in Bar : wait_num[b] = Len(block_queue[b])
      /\ \A b \in Bar : block_queue[b] \in Seq(Pcb)
  BY Queueing, Objects DEF IpcInv, IpcTypes, Gathered
<1>S. \A S : Meeting!Cardinality(S) = Cardinality(S)
  BY Zenon DEF Meeting!Cardinality, Cardinality
<1>F. A = [b \in Bar |-> A[b]] /\ B = [b \in Bar |-> B[b]]
  OBVIOUS
<1>1. ASSUME \A b \in Bar : block_queue'[b] = block_queue[b], total_num' = total_num
      PROVE  UNCHANGED Meeting!vars
  <2>1. B = A
    BY <1>1
  <2> QED
    BY <1>1, <2>1 DEF Meeting!vars
<1>2. ASSUME NEW b \in Bar, NEW n \in Counts, Idle({b}), do_barrier_init(b, n)
      PROVE  Meeting!SetUp(b)
  <2>1. total_num' = [total_num EXCEPT ![b] = n] /\ n \in Nat /\ block_queue[b] = <<>>
    BY <1>2, IpcAssumption DEF IpcAssumption, do_barrier_init, Idle
  <2>2. /\ total_num' \in [Bar -> Nat]
        /\ \A a \in Bar \ {b} : total_num'[a] = total_num[a]
    BY <2>1, <1>0
  <2>3. B = A
    BY <1>2, <1>0 DEF do_barrier_init, list_init, Idle
  <2>4. A[b] = {}
    BY <2>1, <1>0, EmptyQueue
  <2> QED
    BY <2>2, <2>3, <2>4 DEF Meeting!SetUp
<1>3. ASSUME NEW b \in Bar, User, do_barrier_wait(b), UNCHANGED mutexVars
      PROVE  \E p \in Pcb : Meeting!Arrive(p, b)
  <2>1. Task /\ c \in Pcb
    BY <1>3, Sleepers
  <2>2. PICK p \in Pcb : p = c
    BY <2>1
  <2>3. \A a \in Bar : p \notin A[a]
    BY <2>2, <1>0, Queueing DEF IpcInv
  <2>4. Cardinality(A[b] \cup {p}) = wait_num[b] + 1
    <3>1. IsInjective(block_queue[b])
      BY <1>0 DEF IpcInv, Inv, Core, Linked
    <3>2. IsFiniteSet(A[b]) /\ Cardinality(A[b]) = wait_num[b]
      BY <3>1, <1>0, QueueCardinality
    <3> QED
      BY <2>3, <3>2, FS_AddElement
  <2>5. total_num' = total_num
    BY <1>3 DEF do_barrier_wait
  <2>6. CASE wait_num[b] + 1 = total_num[b]
    <3>1. block_queue' = [block_queue EXCEPT ![b] = <<>>]
      BY <1>3, <2>6 DEF do_barrier_wait, wake_all
    <3>2. \A a \in Bar : B[a] = IF a = b THEN {} ELSE A[a]
      BY <3>1, <1>0, ShortQueues, Sets
    <3>3. B = [A EXCEPT ![b] = IF Meeting!Cardinality(A[b] \cup {p}) = total_num[b]
                                  THEN {} ELSE A[b] \cup {p}]
      <4> HIDE DEF A, B
      <4> QED
        BY <1>S, <3>2, <2>4, <2>6, <1>F, Updated
    <3>4. Meeting!Arrive(p, b)
      BY <2>3, <2>5, <3>3, Zenon DEF Meeting!Arrive
    <3> QED
      BY <3>4
  <2>7. CASE wait_num[b] + 1 # total_num[b]
    <3>1. block_queue' = [block_queue EXCEPT ![b] = Append(@, c)]
      BY <1>0, <1>3, <2>1, <2>7, Slept DEF do_barrier_wait, IpcInv
    <3>2. \A a \in Bar : B[a] = IF a = b THEN A[b] \cup {p} ELSE A[a]
      <4>1. ToSet(Append(block_queue[b], p)) = ToSet(block_queue[b]) \cup {p}
        BY <1>0, AppendQueue
      <4>2. \A a \in Bar : block_queue'[a] = IF a = b THEN Append(block_queue[b], p)
                                                      ELSE block_queue[a]
        BY <3>1, <2>2, <1>0
      <4> QED
        BY <4>1, <4>2
    <3>3. B = [A EXCEPT ![b] = IF Meeting!Cardinality(A[b] \cup {p}) = total_num[b]
                                  THEN {} ELSE A[b] \cup {p}]
      <4> HIDE DEF A, B
      <4> QED
        BY <1>S, <3>2, <2>4, <2>7, <1>F, Updated
    <3>4. Meeting!Arrive(p, b)
      BY <2>3, <2>5, <3>3, Zenon DEF Meeting!Arrive
    <3> QED
      BY <3>4
  <2> QED
    BY <2>6, <2>7
<1>4. ASSUME NEW b \in Bar, do_barrier_destroy(b)
      PROVE  Meeting!Destroy(b)
  <2>1. /\ total_num' = [total_num EXCEPT ![b] = 0]
        /\ block_queue' = [block_queue EXCEPT ![b] = <<>>]
    BY <1>4 DEF do_barrier_destroy, wake_all
  <2>2. \A a \in Bar : B[a] = IF a = b THEN {} ELSE A[a]
    BY <2>1, <1>0, ShortQueues, Sets
  <2>3. B = [A EXCEPT ![b] = {}]
    BY <2>2
  <2> QED
    BY <2>1, <2>3 DEF Meeting!Destroy
<1>5. CASE BarInit
  <2>1. PICK b \in Bar : Meeting!SetUp(b)
    BY <1>5, <1>2 DEF BarInit
  <2> QED
    BY <2>1, Zenon DEF Meeting!Next
<1>6. CASE BarWait
  <2>1. PICK b \in Bar : \E p \in Pcb : Meeting!Arrive(p, b)
    BY <1>6, <1>3 DEF BarWait, BarUnchanged
  <2> QED
    BY <2>1, Zenon DEF Meeting!Next
<1>7. CASE BarDestroy
  <2>1. PICK b \in Bar : Meeting!Destroy(b)
    BY <1>7, <1>4 DEF BarDestroy
  <2> QED
    BY <2>1, Zenon DEF Meeting!Next
<1>8. CASE SemInit \/ SemUp \/ SemDown \/ SemDestroy
  <2>1. total_num' = total_num
    BY <1>8 DEF SemInit, SemUp, SemDown, SemDestroy, SemUnchanged
  <2> QED
    BY <1>8, <2>1, <1>1, SemFrame, Objects
<1>9. CASE MboxOpen \/ MboxSend \/ MboxRecv \/ MboxResume
  BY <1>9, <1>1, MboxFrame
<1>10. CASE Others
  BY <1>10, <1>1, OthersFrame, Objects DEF Others, IpcInv
<1>11. CASE UNCHANGED allVars
  BY <1>11, <1>1 DEF allVars, ipcVars, vars, schedVars
<1> QED
  BY <1>5, <1>6, <1>7, <1>8, <1>9, <1>10, <1>11 DEF IpcNext

(***************************************************************************)
(* The barriers implement meeting points: everybody stays until the        *)
(* announced number has arrived, and exactly those leave.                  *)
(***************************************************************************)
THEOREM BarriersMeet == ASSUME Disciplined PROVE IpcSpec => ImplementsRendezvous
<1>1. IpcInit => Meeting!Init
  <2> SUFFICES ASSUME IpcInit PROVE Meeting!Init
    OBVIOUS
  <2>1. /\ block_queue = [h \in Heads |-> <<>>] /\ total_num = [b \in Bar |-> 0]
    BY DEF IpcInit, Init, SchedInit
  <2>2. \A b \in Bar : b \in Heads
    BY Objects
  <2>3. ToSet(<<>>) = {}
    BY Sets, ShortQueues
  <2> QED
    BY <2>1, <2>2, <2>3 DEF Meeting!Init
<1>2. IpcInv /\ [IpcNext]_allVars => [Meeting!Next]_(Meeting!vars)
  BY MeetingStep
<1> QED
  BY <1>1, <1>2, IpcInvariance, PTL DEF IpcSpec, ImplementsRendezvous, Meeting!Spec

-----------------------------------------------------------------------------
(* The bytes of a mailbox, as a sequence. *)
Bytes(f, k) == [i \in 1..k |-> f[i - 1]]

LEMMA BytesSeq ==
  ASSUME NEW f \in [0..(MAX_MBOX_LENGTH - 1) -> Byte], NEW k \in 0..MAX_MBOX_LENGTH
  PROVE  /\ Bytes(f, k) \in Seq(Byte) /\ Len(Bytes(f, k)) = k
         /\ \A i \in 1..k : Bytes(f, k)[i] = f[i - 1]
<1>1. MAX_MBOX_LENGTH \in Nat
  BY IpcAssumption DEF IpcAssumption
<1>2. \A i \in 1..k : i - 1 \in 0..(MAX_MBOX_LENGTH - 1)
  BY <1>1
<1>3. Bytes(f, k) \in [1..k -> Byte]
  BY <1>2 DEF Bytes
<1> QED
  BY <1>1, <1>3 DEF Bytes

(* A message that is filled in stands behind what was there. *)
LEMMA BytesIn ==
  ASSUME NEW f \in [0..(MAX_MBOX_LENGTH - 1) -> Byte], NEW k \in 0..MAX_MBOX_LENGTH,
         NEW m \in Seq(Byte), k + Len(m) <= MAX_MBOX_LENGTH,
         NEW g \in [0..(MAX_MBOX_LENGTH - 1) -> Byte],
         \A i \in 0..(MAX_MBOX_LENGTH - 1) :
            g[i] = IF i \in k..(k + Len(m) - 1) THEN m[i - k + 1] ELSE f[i]
  PROVE  Bytes(g, k + Len(m)) = Bytes(f, k) \o m
<1>1. MAX_MBOX_LENGTH \in Nat /\ k \in Nat /\ Len(m) \in Nat
  BY IpcAssumption DEF IpcAssumption
<1> DEFINE s == Bytes(f, k)
           t == Bytes(g, k + Len(m))
           u == s \o m
<1>2. s \in Seq(Byte) /\ Len(s) = k /\ \A i \in 1..k : s[i] = f[i - 1]
  BY BytesSeq
<1>3. k + Len(m) \in 0..MAX_MBOX_LENGTH
  BY <1>1
<1>4. t \in Seq(Byte) /\ Len(t) = k + Len(m) /\ \A i \in 1..(k + Len(m)) : t[i] = g[i - 1]
  BY <1>3, BytesSeq
<1>5. /\ u \in Seq(Byte) /\ Len(u) = k + Len(m)
      /\ \A i \in 1..(k + Len(m)) : u[i] = IF i <= k THEN s[i] ELSE m[i - k]
  BY <1>2, ConcatProperties
<1>6. ASSUME NEW i \in 1..(k + Len(m)) PROVE t[i] = u[i]
  <2>1. i - 1 \in 0..(MAX_MBOX_LENGTH - 1)
    BY <1>1
  <2>2. t[i] = IF i - 1 \in k..(k + Len(m) - 1) THEN m[(i - 1) - k + 1] ELSE f[i - 1]
    BY <1>4, <2>1
  <2>3. CASE i <= k
    <3>1. i - 1 \notin k..(k + Len(m) - 1) /\ i \in 1..k
      BY <2>3, <1>1
    <3> QED
      BY <3>1, <2>2, <2>3, <1>2, <1>5
  <2>4. CASE ~(i <= k)
    <3>1. i - 1 \in k..(k + Len(m) - 1) /\ (i - 1) - k + 1 = i - k
      BY <2>4, <1>1
    <3> QED
      BY <3>1, <2>2, <2>4, <1>5
  <2> QED
    BY <2>3, <2>4
<1> HIDE DEF s, t, u
<1>7. t = u
  BY <1>4, <1>5, <1>6, SeqEqual
<1> QED
  BY <1>7 DEF s, t, u

(* What is left when n bytes are taken, and what was taken. *)
LEMMA BytesOut ==
  ASSUME NEW f \in [0..(MAX_MBOX_LENGTH - 1) -> Byte], NEW k \in 0..MAX_MBOX_LENGTH,
         NEW n \in 1..k, NEW g \in [0..(MAX_MBOX_LENGTH - 1) -> Byte],
         \A i \in 0..(MAX_MBOX_LENGTH - 1) :
            g[i] = IF i + n < MAX_MBOX_LENGTH THEN f[i + n] ELSE f[i]
  PROVE  /\ Bytes(g, k - n) = SubSeq(Bytes(f, k), n + 1, Len(Bytes(f, k)))
         /\ Bytes(f, n) = SubSeq(Bytes(f, k), 1, n)
<1>1. MAX_MBOX_LENGTH \in Nat /\ k \in Nat /\ n \in Nat
  BY IpcAssumption DEF IpcAssumption
<1> DEFINE s == Bytes(f, k)
           t == Bytes(g, k - n)
           v == Bytes(f, n)
           u == SubSeq(s, n + 1, k)
           w == SubSeq(s, 1, n)
<1>2. s \in Seq(Byte) /\ Len(s) = k /\ \A i \in 1..k : s[i] = f[i - 1]
  BY BytesSeq
<1>3. k - n \in 0..MAX_MBOX_LENGTH /\ n \in 0..MAX_MBOX_LENGTH
  BY <1>1
<1>4. t \in Seq(Byte) /\ Len(t) = k - n /\ \A i \in 1..(k - n) : t[i] = g[i - 1]
  BY <1>3, BytesSeq
<1>5. v \in Seq(Byte) /\ Len(v) = n /\ \A i \in 1..n : v[i] = f[i - 1]
  BY <1>3, BytesSeq
<1>6. \A i \in 1..k : s[i] \in Byte
  BY <1>2
<1> HIDE DEF s, t, v
<1>7. /\ u \in Seq(Byte) /\ Len(u) = k - n
      /\ \A i \in 1..(k - n) : u[i] = s[n + i]
  <2>1. \A i \in (n + 1)..k : s[i] \in Byte
    BY <1>1, <1>6
  <2>2. n + 1 \in Int /\ k \in Int
    BY <1>1
  <2>3. /\ u \in Seq(Byte) /\ Len(u) = IF n + 1 <= k THEN k - (n + 1) + 1 ELSE 0
        /\ \A i \in 1..(k - (n + 1) + 1) : u[i] = s[(n + 1) + i - 1]
    BY <2>1, <2>2, SubSeqProperties
  <2>4. k - (n + 1) + 1 = k - n /\ \A i \in 1..(k - n) : (n + 1) + i - 1 = n + i
    BY <1>1
  <2> HIDE DEF u
  <2> QED
    BY <1>1, <2>3, <2>4
<1>8. w \in Seq(Byte) /\ Len(w) = n /\ \A i \in 1..n : w[i] = s[i]
  <2>1. \A i \in 1..n : s[i] \in Byte
    BY <1>1, <1>6
  <2>2. 1 \in Int /\ n \in Int
    BY <1>1
  <2>3. /\ w \in Seq(Byte) /\ Len(w) = IF 1 <= n THEN n - 1 + 1 ELSE 0
        /\ \A i \in 1..(n - 1 + 1) : w[i] = s[1 + i - 1]
    BY <2>1, <2>2, SubSeqProperties
  <2> HIDE DEF w
  <2> QED
    BY <1>1, <2>3
<1>9. ASSUME NEW i \in 1..(k - n) PROVE t[i] = u[i]
  <2>1. i - 1 \in 0..(MAX_MBOX_LENGTH - 1) /\ (i - 1) + n < MAX_MBOX_LENGTH
        /\ (i - 1) + n = (n + i) - 1 /\ n + i \in 1..k
    BY <1>1
  <2>2. t[i] = f[(n + i) - 1]
    BY <2>1, <1>4
  <2>3. u[i] = f[(n + i) - 1]
    BY <2>1, <1>2, <1>7
  <2> QED
    BY <2>2, <2>3
<1>10. ASSUME NEW i \in 1..n PROVE v[i] = w[i]
  <2>1. i \in 1..k
    BY <1>1
  <2> QED
    BY <2>1, <1>2, <1>5, <1>8
<1> HIDE DEF u, w
<1>11. t = u
  BY <1>4, <1>7, <1>9, SeqEqual
<1>12. v = w
  BY <1>5, <1>8, <1>10, SeqEqual
<1> QED
  BY <1>2, <1>11, <1>12 DEF s, t, u, v, w

(* Every step is a step of the bounded streams, or leaves them. *)
LEMMA ChannelStep ==
  ASSUME IpcInv, Disciplined, [IpcNext]_allVars
  PROVE  [Channel!Next]_(Channel!vars)
<1> DEFINE S == [b \in Mbox |-> [i \in 1..index[b] |-> msg[b][i - 1]]]
           T == [b \in Mbox |-> [i \in 1..index'[b] |-> msg'[b][i - 1]]]
<1>0. /\ MAX_MBOX_LENGTH \in Nat
      /\ index \in [Mbox -> 0..MAX_MBOX_LENGTH]
      /\ msg \in [Mbox -> [0..(MAX_MBOX_LENGTH - 1) -> Byte]]
      /\ index' \in [Mbox -> 0..MAX_MBOX_LENGTH]
      /\ msg' \in [Mbox -> [0..(MAX_MBOX_LENGTH - 1) -> Byte]]
  <2>1. IpcInv'
    BY IpcNextInv
  <2> QED
    BY <2>1, IpcAssumption DEF IpcAssumption, IpcInv, IpcTypes
<1>F. /\ S = [b \in Mbox |-> S[b]] /\ T = [b \in Mbox |-> T[b]]
      /\ \A b \in Mbox : S[b] = Bytes(msg[b], index[b]) /\ T[b] = Bytes(msg'[b], index'[b])
  BY DEF Bytes
<1>1. ASSUME UNCHANGED <<msg, index, recv_buf>>
      PROVE  UNCHANGED Channel!vars
  BY <1>1 DEF Channel!vars
<1>2. ASSUME NEW b \in Mbox, NEW m \in Messages, do_mbox_send(b, m)
      PROVE  [Channel!Next]_(Channel!vars)
  <2>1. CASE index[b] + Len(m) > MAX_MBOX_LENGTH
    BY <2>1, <1>1, <1>2 DEF do_mbox_send, Sleep
  <2>2. CASE ~(index[b] + Len(m) > MAX_MBOX_LENGTH)
    <3>1. m \in Seq(Byte) /\ Len(m) \in 1..MAX_MBOX_LENGTH /\ m \in [1..Len(m) -> Byte]
      BY IpcAssumption DEF IpcAssumption
    <3>2. index' = [index EXCEPT ![b] = index[b] + Len(m)] /\ recv_buf' = recv_buf
          /\ msg' = [msg EXCEPT ![b] = Filled(b, m)]
      BY <1>2, <2>2 DEF do_mbox_send, Put
    <3>3. /\ index'[b] = index[b] + Len(m) /\ msg'[b] = Filled(b, m)
          /\ \A a \in Mbox \ {b} : index'[a] = index[a] /\ msg'[a] = msg[a]
      BY <3>2, <1>0
    <3>4. index[b] + Len(m) <= MAX_MBOX_LENGTH
      BY <2>2, <3>1, <1>0
    <3>5. /\ msg[b] \in [0..(MAX_MBOX_LENGTH - 1) -> Byte] /\ index[b] \in 0..MAX_MBOX_LENGTH
          /\ Filled(b, m) \in [0..(MAX_MBOX_LENGTH - 1) -> Byte]
      BY <3>3, <1>0
    <3>6. \A i \in 0..(MAX_MBOX_LENGTH - 1) :
            Filled(b, m)[i] = IF i \in index[b]..(index[b] + Len(m) - 1)
                                THEN m[i - index[b] + 1] ELSE msg[b][i]
      BY <3>5 DEF Filled
    <3>7. T[b] = S[b] \o m
      <4>1. Bytes(Filled(b, m), index[b] + Len(m)) = Bytes(msg[b], index[b]) \o m
        <5> DEFINE f == msg[b]
                   g == Filled(b, m)
                   k == index[b]
        <5>1. /\ f \in [0..(MAX_MBOX_LENGTH - 1) -> Byte] /\ k \in 0..MAX_MBOX_LENGTH
              /\ g \in [0..(MAX_MBOX_LENGTH - 1) -> Byte]
              /\ m \in Seq(Byte) /\ k + Len(m) <= MAX_MBOX_LENGTH
              /\ \A i \in 0..(MAX_MBOX_LENGTH - 1) :
                    g[i] = IF i \in k..(k + Len(m) - 1) THEN m[i - k + 1] ELSE f[i]
          BY <3>1, <3>4, <3>5, <3>6
        <5> HIDE DEF f, g, k
        <5>2. Bytes(g, k + Len(m)) = Bytes(f, k) \o m
          BY <5>1, BytesIn, ZenonT(60)
        <5> QED
          BY <5>2 DEF f, g, k
      <4> QED
        BY <4>1, <3>3, <1>F
    <3>8. \A a \in Mbox : T[a] = IF a = b THEN S[b] \o m ELSE S[a]
      BY <3>3, <3>7, <1>F
    <3>9. Len(S[b]) + Len(m) <= MAX_MBOX_LENGTH
      BY <3>4, <3>5, <1>F, BytesSeq
    <3>10. T = [S EXCEPT ![b] = S[b] \o m]
      <4> HIDE DEF S, T
      <4> QED
        BY <3>8, <1>F, Updated
    <3>11. Channel!Put(b)
      BY <3>1, <3>2, <3>9, <3>10 DEF Channel!Put
    <3> QED
      BY <3>11, Zenon DEF Channel!Next
  <2> QED
    BY <2>1, <2>2
<1>3. ASSUME NEW b \in Mbox, NEW n \in Lengths, do_mbox_recv(b, n)
      PROVE  [Channel!Next]_(Channel!vars)
  <2>1. CASE index[b] < n
    BY <2>1, <1>1, <1>3 DEF do_mbox_recv, Sleep
  <2>2. CASE ~(index[b] < n)
    <3>1. index[b] \in 0..MAX_MBOX_LENGTH /\ n \in 1..index[b]
      BY <2>2, <1>0, IpcAssumption DEF IpcAssumption
    <3>2. /\ index' = [index EXCEPT ![b] = index[b] - n]
          /\ recv_buf' = [i \in 1..n |-> msg[b][i - 1]] /\ msg' = Shift(b, n)
      BY <1>3, <2>2 DEF do_mbox_recv, Take
    <3>3. /\ index'[b] = index[b] - n
          /\ \A a \in Mbox \ {b} : index'[a] = index[a] /\ msg'[a] = msg[a]
          /\ \A i \in 0..(MAX_MBOX_LENGTH - 1) :
                msg'[b][i] = IF i + n < MAX_MBOX_LENGTH THEN msg[b][i + n] ELSE msg[b][i]
      BY <3>2, <1>0 DEF Shift
    <3>4. /\ msg[b] \in [0..(MAX_MBOX_LENGTH - 1) -> Byte]
          /\ msg'[b] \in [0..(MAX_MBOX_LENGTH - 1) -> Byte]
      BY <1>0
    <3>5. /\ T[b] = SubSeq(S[b], n + 1, Len(S[b]))
          /\ recv_buf' = SubSeq(S[b], 1, n)
      <4>1. recv_buf' = Bytes(msg[b], n)
        BY <3>2 DEF Bytes
      <4>2. /\ Bytes(msg'[b], index[b] - n)
                  = SubSeq(Bytes(msg[b], index[b]), n + 1, Len(Bytes(msg[b], index[b])))
            /\ Bytes(msg[b], n) = SubSeq(Bytes(msg[b], index[b]), 1, n)
        BY <3>1, <3>3, <3>4, BytesOut
      <4> QED
        BY <4>1, <4>2, <3>3, <1>F
    <3>6. \A a \in Mbox : T[a] = IF a = b THEN SubSeq(S[b], n + 1, Len(S[b])) ELSE S[a]
      BY <3>3, <3>5, <1>F
    <3>7. n \in 1..Len(S[b])
      BY <3>1, <3>4, <1>F, BytesSeq
    <3>8. T = [S EXCEPT ![b] = SubSeq(S[b], n + 1, Len(S[b]))]
      <4> HIDE DEF S, T
      <4> QED
        BY <3>6, <1>F, Updated
    <3>9. Channel!Get(b)
      BY <3>5, <3>7, <3>8 DEF Channel!Get
    <3> QED
      BY <3>9, Zenon DEF Channel!Next
  <2> QED
    BY <2>1, <2>2
<1>4. CASE MboxOpen
  <2>1. PICK b \in Mbox \ inited : index' = [index EXCEPT ![b] = 0] /\ UNCHANGED <<msg, recv_buf>>
    BY <1>4 DEF MboxOpen, do_mbox_open
  <2>2. index[b] = 0
    BY DEF IpcInv, Unopened
  <2>3. index' = index
    BY <2>1, <2>2, <1>0
  <2> QED
    BY <2>1, <2>3, <1>1
<1>5. CASE MboxSend
  BY <1>5, <1>2 DEF MboxSend
<1>6. CASE MboxRecv
  BY <1>6, <1>3 DEF MboxRecv
<1>7. CASE MboxResume
  <2> DEFINE d == call[current_running]
  <2>1. /\ InCall
        /\ \/ d.op = "send" /\ do_mbox_send(d.box, d.msg)
           \/ d.op = "recv" /\ do_mbox_recv(d.box, d.len)
    BY <1>7 DEF MboxResume
  <2>2. d \in Calls(Mbox \cap inited) /\ d # None
    BY <2>1 DEF InCall, IpcInv, IpcTypes
  <2>3. d.op = "send" => d.box \in Mbox /\ d.msg \in Messages
    BY <2>2 DEF Calls, Send, Recv
  <2>4. d.op = "recv" => d.box \in Mbox /\ d.len \in Lengths
    BY <2>2 DEF Calls, Send, Recv
  <2> QED
    BY <2>1, <2>3, <2>4, <1>2, <1>3
<1>8. CASE SemInit \/ SemUp \/ SemDown \/ SemDestroy
  BY <1>8, <1>1 DEF SemInit, SemUp, SemDown, SemDestroy, SemUnchanged
<1>9. CASE BarInit \/ BarWait \/ BarDestroy
  BY <1>9, <1>1 DEF BarInit, BarWait, BarDestroy, BarUnchanged
<1>10. CASE Others
  BY <1>10, <1>1 DEF Others
<1>11. CASE UNCHANGED allVars
  BY <1>11, <1>1 DEF allVars, ipcVars
<1> QED
  BY <1>4, <1>5, <1>6, <1>7, <1>8, <1>9, <1>10, <1>11 DEF IpcNext

(***************************************************************************)
(* The mailboxes implement bounded streams: messages go in whole, and      *)
(* every byte comes out once and in order, whoever slept in between.       *)
(***************************************************************************)
THEOREM MailboxesAreStreams == ASSUME Disciplined PROVE IpcSpec => ImplementsByteChannel
<1>1. IpcInit => Channel!Init
  <2> SUFFICES ASSUME IpcInit PROVE Channel!Init
    OBVIOUS
  <2>1. index = [b \in Mbox |-> 0] /\ recv_buf = <<>>
    BY DEF IpcInit
  <2>2. ASSUME NEW b \in Mbox PROVE [i \in 1..index[b] |-> msg[b][i - 1]] = <<>>
    BY <2>1
  <2> QED
    BY <2>1, <2>2 DEF Channel!Init
<1>2. IpcInv /\ [IpcNext]_allVars => [Channel!Next]_(Channel!vars)
  BY ChannelStep
<1> QED
  BY <1>1, <1>2, IpcInvariance, PTL DEF IpcSpec, ImplementsByteChannel, Channel!Spec

=============================================================================
