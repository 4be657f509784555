------------------------------- MODULE Kernel -------------------------------
(***************************************************************************)
(* Tasks, the scheduler and the mutexes together: what ends a task (do_exit *)
(* and do_kill wake its waiters and release its locks), and the system     *)
(* calls that user programs and the timer interleave.                      *)
(***************************************************************************)
EXTENDS Mutex

CONSTANT Discipline     \* the rules the user programs and devices keep to
Rules == {"paced", "nokill", "fifo", "cleanexit", "reap"}
ASSUME DisciplineAssumption == Discipline \subseteq Rules

vars == <<schedVars, mutexVars>>

Init == SchedInit /\ MutexInit

(* The waiters of p in the order do_unblock makes them ready: TASK_EXITED   *)
(* ones are dropped.                                                       *)
Woken_none(p) == <<>>                                   \* mutant
Woken(p) ==
  IF \E t \in ToSet(block_queue[p]) : status[t] = "TASK_EXITED"
    THEN SelectSeq(block_queue[p], LAMBDA t : status[t] # "TASK_EXITED")
    ELSE block_queue[p]

(* The statuses when p has ended and the tasks of W have been unblocked. *)
Ended(p, W) ==
  [Unblocked(W) EXCEPT ![p] = IF mode[p] = "ENTER_ZOMBIE_ON_EXIT"
                                THEN "TASK_ZOMBIE" ELSE "TASK_EXITED"]

(* The fields of p, its wait_list, and the locks L released on its behalf. *)
Recycle_keeps_pid(p, L) ==                              \* mutant
  /\ block_queue' = [Advanced(L) EXCEPT ![p] = <<>>]
  /\ HandOver(L, [owns EXCEPT ![p] = {}])
  /\ UNCHANGED <<pid, mode, created>>

Recycle(p, L) ==
  /\ pid' = [pid EXCEPT ![p] = 0]
  /\ block_queue' = [Advanced(L) EXCEPT ![p] = <<>>]
  /\ HandOver(L, [owns EXCEPT ![p] = {}])
  /\ UNCHANGED <<mode, created>>

(***************************************************************************)
(* do_exit.  The loop over locks[] releases locks[0]; that shifts locks[]  *)
(* and decrements num_lock under it, and the locks[i] it passes next are   *)
(* refused, not being locks[0].  So one lock is released, however many.    *)
(***************************************************************************)
do_exit ==
  LET c     == current_running
      L     == IF locks[c] = <<>> THEN {} ELSE {Head(locks[c])}
      heirs == IF locks[c] = <<>> THEN <<>> ELSE First(Head(locks[c]))
      woken == Woken(c) \o heirs
  IN /\ Recycle(c, L)
     /\ locks' = Forget(c)
     /\ do_scheduler(ready_queue \o woken, Ended(c, ToSet(woken)), pid')

(***************************************************************************)
(* do_kill(p + 1).  The releases run in the killer's name: one that holds  *)
(* no recorded lock has them all accepted, any other none, as no lock is   *)
(* recorded by two, or twice by a live one.  p stays in whatever list it   *)
(* is linked in.                                                           *)
(***************************************************************************)
do_kill(p) ==
  /\ p # Shell /\ Alive(p)
  /\ IF p = current_running
       THEN do_exit
       ELSE LET ls    == IF locks[current_running] = <<>> THEN locks[p] ELSE <<>>
                heirs == FlattenSeq([i \in DOMAIN ls |-> First(ls[i])])
                woken == Woken(p) \o heirs
            IN /\ Recycle(p, ToSet(ls))
               /\ ready_queue' = ready_queue \o woken
               /\ status' = Ended(p, ToSet(woken))
               /\ UNCHANGED <<locks, current_running>>

-----------------------------------------------------------------------------
(***************************************************************************)
(* Who calls what.  The shell runs commands that never block; a task        *)
(* releases only what it owns.  "reap": a killed task that is dispatched   *)
(* once more makes no call, and no task is created in its slot as long as  *)
(* it runs or sleeps.  The code asks for neither, and links such a slot a  *)
(* second time.                                                            *)
(***************************************************************************)
Caller == current_running # Pid0 /\ ("reap" \in Discipline => Alive(current_running))
Task   == Caller /\ current_running # Shell
Reaped == "reap" \in Discipline =>
            \A i \in find_freepcb : /\ i # current_running
                                    /\ \A h \in Heads : i \notin ToSet(block_queue[h])

(* "paced": nothing becomes ready in a slice of the shell that began with  *)
(* the shell still linked behind another task.                             *)
Paced == ("paced" \in Discipline /\ current_running = Shell /\ Shell \in ToSet(ready_queue))
           => Head(ready_queue) = Shell

TimerTick == \E W \in SUBSET Net :
                /\ (\E q \in W : block_queue[q] # <<>>) => Paced
                /\ reset_irq_timer(W)
                /\ UNCHANGED mutexVars
Yield        == Task /\ yield /\ UNCHANGED mutexVars
Exec         == \E m \in Modes : Caller /\ Paced /\ Reaped /\ do_exec(m) /\ UNCHANGED mutexVars
MthreadCreate == Task /\ Reaped /\ do_mthread_create /\ UNCHANGED mutexVars
WaitPid      == \E p \in created : Task /\ do_waitpid(p) /\ UNCHANGED mutexVars
NetWait      == \E q \in Net : Task /\ net_wait(q) /\ UNCHANGED mutexVars
LockAcquire  == \E l \in Lock : Task /\ do_mutex_lock_acquire(l)

(* "fifo": a task releases its locks in the order it acquired them. *)
LockRelease ==
  \E l \in Lock : /\ Task /\ l \in owns[current_running]
                  /\ "fifo" \in Discipline => Accepts(current_running, l)
                  /\ do_mutex_lock_release(l)

(* "cleanexit": a task exits holding at most the lock it acquired first. *)
Exit ==
  /\ Task
  /\ "cleanexit" \in Discipline =>
       \A l \in owns[current_running] :
          locks[current_running] # <<>> /\ Head(locks[current_running]) = l
  /\ do_exit

Kill == "nokill" \notin Discipline /\ \E p \in Pcb : Caller /\ do_kill(p)

Next == \/ TimerTick \/ Yield \/ Exec \/ MthreadCreate \/ WaitPid \/ NetWait
        \/ LockAcquire \/ LockRelease \/ Exit \/ Kill

(* Every tick re-arms the timer, so there is always another. *)
Spec == Init /\ [][Next]_vars /\ WF_vars(TimerTick)

-----------------------------------------------------------------------------
TypeOK ==
  /\ ready_queue \in Seq(Pcb)
  /\ block_queue \in [Heads -> Seq(Pcb)]
  /\ status \in [Pcb -> Dead \cup {"TASK_BLOCKED", "TASK_RUNNING", "TASK_READY"}]
  /\ pid \in [Pcb -> 0..NUM_MAX_TASK]
  /\ mode \in [Pcb -> spawn_mode_t]
  /\ locks \in [Pcb -> Seq(Lock)]
  /\ created \in SUBSET (Pcb \ {Shell})
  /\ current_running \in Pcb \cup {Pid0}
  /\ lock_status \in [Lock -> {"LOCKED", "UNLOCKED"}]
  /\ owns \in [Pcb -> SUBSET Lock]

(***************************************************************************)
(* The kernel calls list.c as it must be called (MayEnqueue of KList): no  *)
(* PCB is linked in two lists, or twice in one.                            *)
(***************************************************************************)
HeldOnce ==
  /\ IsInjective(ready_queue)
  /\ \A h \in Heads : /\ IsInjective(block_queue[h])
                      /\ ToSet(block_queue[h]) \cap ToSet(ready_queue) = {}
  /\ \A g, h \in Heads : g # h => ToSet(block_queue[g]) \cap ToSet(block_queue[h]) = {}

(* Only the running task is TASK_RUNNING: a task left in that state by the  *)
(* scheduler would never be picked again.                                  *)
SoleRunner ==
  \A p \in Pcb : Alive(p) /\ status[p] = "TASK_RUNNING" => p = current_running

(* A live task is where its next wake-up will look for it: in the ready     *)
(* queue when it is TASK_READY, in a block queue when it is TASK_BLOCKED.  *)
ReadyIsQueued ==
  \A p \in Pcb : Alive(p) /\ status[p] = "TASK_READY" => p \in ToSet(ready_queue)
BlockedIsQueued ==
  \A p \in Pcb : Alive(p) /\ status[p] = "TASK_BLOCKED" =>
     \E h \in Heads : p \in ToSet(block_queue[h])
NoTaskLost == ReadyIsQueued /\ BlockedIsQueued

(* "Recycle PCB": the PCB of a task that has ended is in no list, so the    *)
(* next task may have it, and the scheduler cannot run the old one again.  *)
FreeIsUnlinked ==
  \A p \in Pcb : ~Alive(p) => /\ p \notin ToSet(ready_queue)
                              /\ \A h \in Heads : p \notin ToSet(block_queue[h])

(* A task that has ended, or that `kill` reports as killed, does not run. *)
RunnerAlive == current_running # Pid0 => Alive(current_running)

(* Nobody waits for a task that has ended: do_waitpid tests the target and  *)
(* sleeps in one step, and every end of a task empties its wait_list.      *)
WaitersHaveTarget == \A p \in Pcb : block_queue[p] # <<>> => Alive(p)

(* No two tasks are entitled to think they hold the same lock. *)
MutualExclusion ==
  \A p, q \in Pcb : p # q => owns[p] \cap owns[q] = {}

(* A lock is LOCKED exactly while a live task is in it, and only a LOCKED   *)
(* lock has waiters: none is leaked, and no waiter sleeps at a free lock.  *)
LocksAccounted ==
  \A l \in Lock : /\ lock_status[l] = "LOCKED" <=> \E p \in Pcb : Alive(p) /\ l \in owns[p]
                  /\ block_queue[l] # <<>> => lock_status[l] = "LOCKED"

-----------------------------------------------------------------------------
Before(s, p, q) == \E i, j \in DOMAIN s : i < j /\ s[i] = p /\ s[j] = q

(* Round robin: a ready task is passed by nobody who is not ahead of it,    *)
(* whatever wakes up, exits, is created or preempted before it runs.       *)
NobodyOvertakes ==
  \A p \in ToSet(ready_queue), q \in Pcb :
     (p # q /\ ~Before(ready_queue, q, p)) =>
       \/ current_running' = p
       \/ /\ p \in ToSet(ready_queue') /\ ~Before(ready_queue', q, p)
          /\ current_running' = q => current_running = q
RoundRobin == [][NobodyOvertakes]_vars

(* sys_waitpid returns only when the task waited for has ended. *)
WaitersStay ==
  \A p, t \in Pcb : /\ t \in ToSet(block_queue[p]) /\ Alive(t)
                    /\ t \notin ToSet(block_queue'[p]) /\ status'[t] # "TASK_BLOCKED"
                    => ~Alive(p)'
WaitReturns == [][WaitersStay]_vars

(* A task that gives a lock up, by releasing it or by its end, leaves it    *)
(* free or with a new owner.                                               *)
LocksPassOn ==
  \A p \in Pcb, l \in Lock : l \in owns[p] \ owns'[p] =>
     lock_status'[l] = "UNLOCKED" \/ \E t \in Pcb : l \in owns'[t]
ReleaseReleases == [][LocksPassOn]_vars

(* Every ready task gets the processor. *)
ReadyRuns ==
  \A p \in Pcb : (Alive(p) /\ status[p] = "TASK_READY") ~> (status[p] = "TASK_RUNNING")

(* The mutexes are fair locks: owners hold, block queues wait. *)
Fair == INSTANCE FairLock WITH
          Proc    <- Pcb,
          holders <- [l \in Lock |-> {p \in Pcb : l \in owns[p]}],
          waiting <- [l \in Lock |-> block_queue[l]]
ImplementsFairLock == Fair!Spec

=============================================================================
