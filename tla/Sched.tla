-------------------------------- MODULE Sched -------------------------------
(***************************************************************************)
(* kernel/sched/sched.c, init/main.c and the timer tick of                 *)
(* kernel/irq/irq.c: the PCB table, the ready queue and the block queues.  *)
(* One hart, traps run with interrupts off and the kernel is not           *)
(* preemptible, so a handler runs alone up to its do_scheduler: it is one  *)
(* action, and the trap return after switch_to belongs to nobody's state.  *)
(***************************************************************************)
EXTENDS Queues

CONSTANTS
  NUM_MAX_TASK,                    \* the PCB table has this many slots
  Modes,                           \* the spawn modes programs pass to do_exec
  Lock,                            \* the mutexes; their block queues are here
  net_recv_queue, net_send_queue,  \* where do_net_recv, do_net_send sleep
  Sync                             \* the other block queues of sync.c

spawn_mode_t == {"ENTER_ZOMBIE_ON_EXIT", "AUTO_CLEANUP_ON_EXIT"}

Pcb   == 0..(NUM_MAX_TASK - 1)
Shell == 0                         \* pcb[0], the task of init_shell
Pid0  == -1                        \* pid0_pcb: what runs main()
Net   == {net_recv_queue, net_send_queue}
Heads == Pcb \cup Lock \cup Net \cup Sync   \* list heads: wait_list of a PCB, block_queue

ASSUME SchedAssumption == /\ NUM_MAX_TASK \in Nat \ {0}
                          /\ Modes \subseteq spawn_mode_t
                          /\ Pcb \cap Lock = {}
                          /\ (Pcb \cup Lock) \cap Net = {}
                          /\ (Pcb \cup Lock \cup Net) \cap Sync = {}
                          /\ net_recv_queue # net_send_queue

VARIABLES
  ready_queue,       \* the tasks the scheduler can pick, head first
  block_queue,       \* the tasks linked in each other list head
  status, pid, mode, \* fields of the PCBs; pid 0 is a free slot
  locks,             \* locks[0..num_lock-1] of the PCBs
  created,           \* the slots whose wait_list was ever initialised
  current_running

schedVars == <<ready_queue, block_queue, status, pid, mode, locks, created,
               current_running>>

Alive(p) == pid[p] # 0
Dead     == {"TASK_ZOMBIE", "TASK_EXITED"}

(* init_shell; the slots are bss, where status 0 reads TASK_BLOCKED. *)
SchedInit ==
  /\ ready_queue = <<Shell>>
  /\ block_queue = [h \in Heads |-> <<>>]
  /\ status = [p \in Pcb |-> IF p = Shell THEN "TASK_READY" ELSE "TASK_BLOCKED"]
  /\ pid = [p \in Pcb |-> IF p = Shell THEN 1 ELSE 0]
  /\ mode = [p \in Pcb |-> "AUTO_CLEANUP_ON_EXIT"]
  /\ locks = [p \in Pcb |-> <<>>]
  /\ created = {}
  /\ current_running = Pid0

(* Does do_scheduler put the caller back?  It does when the caller still    *)
(* runs and is a task: not when it blocked, and not once it has ended.     *)
Preempted_none(st, pd) == {}                            \* mutant
Preempted_ended(st, pd) == {current_running} \cap Pcb   \* mutant
Preempted(st, pd) ==
  {p \in {current_running} \cap Pcb : st[p] = "TASK_RUNNING" /\ pd[p] # 0}

Requeue_head(r) == <<current_running>> \o r             \* mutant
Requeue_lost(r) == r                                    \* mutant
Requeue(r) == Link(r, current_running)

(***************************************************************************)
(* do_scheduler, called when the ready queue, the statuses and the pids    *)
(* are r, st and pd.  With nobody ready it falls back on the shell, which  *)
(* may be the task it runs on.  A caller that still runs goes to the tail; *)
(* the fallback may already stand in the queue, which Link accounts for.   *)
(***************************************************************************)
do_scheduler(r, st, pd) ==
  LET next_running == IF r = <<>> THEN Shell ELSE Head(r)
      rest         == IF r = <<>> THEN r ELSE Tail(r)
  IN /\ ready_queue' = IF Preempted(st, pd) = {} THEN rest ELSE Requeue(rest)
     /\ status' = [p \in Pcb |-> IF p = next_running THEN "TASK_RUNNING"
                                 ELSE IF p \in Preempted(st, pd) THEN "TASK_READY" ELSE st[p]]
     /\ current_running' = next_running

(* The statuses once do_unblock has been called on every task of W. *)
Unblocked(W) == [p \in Pcb |-> IF p \in W THEN "TASK_READY" ELSE status[p]]

(* do_block(&current_running->list, h) *)
do_block(h) ==
  /\ block_queue' = [block_queue EXCEPT ![h] = Link(@, current_running)]
  /\ do_scheduler(ready_queue, [status EXCEPT ![current_running] = "TASK_BLOCKED"], pid)
  /\ UNCHANGED <<pid, mode, locks, created>>

(* The head of queue h, as the sequence do_unblock(dequeue(h)) makes ready. *)
First(h) == IF block_queue[h] = <<>> THEN <<>> ELSE <<Head(block_queue[h])>>

(* The block queues once the first task of each queue in H has left. *)
Advanced_not(H) == block_queue                          \* mutant
Advanced(H) == [h \in Heads |-> IF h \in H /\ block_queue[h] # <<>>
                                  THEN Tail(block_queue[h]) ELSE block_queue[h]]

-----------------------------------------------------------------------------
(***************************************************************************)
(* The timer interrupt: reset_irq_timer, and check_net_queue in INT_MODE.  *)
(* W holds the queues whose device bit (RXSR.framerx, TXSR.txcompl) is up. *)
(***************************************************************************)
Arrived(W, q) == IF q \in W THEN First(q) ELSE <<>>

reset_irq_timer(W) ==
  LET woken == Arrived(W, net_recv_queue) \o Arrived(W, net_send_queue)
  IN /\ do_scheduler(ready_queue \o woken, Unblocked(ToSet(woken)), pid)
     /\ block_queue' = Advanced(W)
     /\ UNCHANGED <<pid, mode, locks, created>>

(* SYSCALL_YIELD is do_scheduler itself. *)
yield == /\ do_scheduler(ready_queue, status, pid)
         /\ UNCHANGED <<block_queue, pid, mode, locks, created>>

Free_past == {i \in 1..NUM_MAX_TASK : i \in Pcb => pid[i] = 0}   \* mutant
Free == {i \in Pcb \ {Shell} : pid[i] = 0}
find_freepcb == {i \in Free : \A j \in Free : i <= j}

(* What do_exec and do_mthread_create do to the PCB they found; with none   *)
(* free, or no such program, they return -1 and leave everything alone.     *)
NewTask(i, m) ==
  /\ ready_queue' = Link(ready_queue, i)
  /\ block_queue' = [block_queue EXCEPT ![i] = <<>>]
  /\ status' = [status EXCEPT ![i] = "TASK_READY"]
  /\ pid' = [pid EXCEPT ![i] = i + 1]
  /\ mode' = [mode EXCEPT ![i] = m]
  /\ locks' = [locks EXCEPT ![i] = <<>>]
  /\ created' = created \cup {i}
  /\ UNCHANGED current_running

do_exec(m) == \E i \in find_freepcb : NewTask(i, m)

do_mthread_create == \E i \in find_freepcb : NewTask(i, mode[current_running])

(* A dead target returns at once, and nothing changes. *)
do_waitpid_untested(p) == do_block(p)                   \* mutant
do_waitpid(p) == status[p] \notin Dead /\ do_block(p)

(* EmacPsSend and EmacPsWaitRecv put the caller to sleep in INT_MODE; the   *)
(* latter again after every wake-up that finds its last buffer still empty. *)
net_wait(q) == do_block(q)

=============================================================================
