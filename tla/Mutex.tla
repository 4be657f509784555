-------------------------------- MODULE Mutex -------------------------------
(***************************************************************************)
(* The mutexes of kernel/sync/sync.c.  A release with waiters hands the    *)
(* lock to the first of them: the lock stays LOCKED, and the waiter's      *)
(* acquire returns when it next runs.  `owns` is a history variable: the   *)
(* locks each task is entitled to think it holds, because its acquire      *)
(* succeeded or the lock was handed to it, and it has not released it.     *)
(***************************************************************************)
EXTENDS Sched

VARIABLES lock_status, owns

mutexVars == <<lock_status, owns>>

MutexInit == /\ lock_status = [l \in Lock |-> "UNLOCKED"]
             /\ owns = [p \in Pcb |-> {}]

do_mutex_lock_acquire_unset(l) ==                       \* mutant
  IF lock_status[l] = "LOCKED"
    THEN do_block(l) /\ UNCHANGED mutexVars
    ELSE /\ locks' = [locks EXCEPT ![current_running] = Append(@, l)]
         /\ owns' = [owns EXCEPT ![current_running] = @ \cup {l}]
         /\ UNCHANGED <<lock_status, ready_queue, block_queue, status, pid, mode,
                        created, current_running>>

do_mutex_lock_acquire(l) ==
  IF lock_status[l] = "LOCKED"
    THEN /\ do_block(l)
         /\ UNCHANGED mutexVars
    ELSE /\ lock_status' = [lock_status EXCEPT ![l] = "LOCKED"]
         /\ locks' = [locks EXCEPT ![current_running] = Append(@, l)]
         /\ owns' = [owns EXCEPT ![current_running] = @ \cup {l}]
         /\ UNCHANGED <<ready_queue, block_queue, status, pid, mode, created, current_running>>

(***************************************************************************)
(* The successful end of do_mutex_lock_release, for each lock of L: it is  *)
(* unlocked, or its first waiter owns it.  The waiter's locks[] does not   *)
(* learn of it.  own is what the tasks own once the release has begun.     *)
(***************************************************************************)
HandOver_unlocks(L, own) ==                             \* mutant
  /\ lock_status' = [l \in Lock |-> IF l \in L THEN "UNLOCKED" ELSE lock_status[l]]
  /\ owns' = [t \in Pcb |-> own[t] \cup {l \in L : First(l) = <<t>>}]

HandOver_leaks(L, own) ==                               \* mutant
  /\ owns' = [t \in Pcb |-> own[t] \cup {l \in L : First(l) = <<t>>}]
  /\ UNCHANGED lock_status

HandOver(L, own) ==
  /\ lock_status' = [l \in Lock |-> IF l \in L /\ block_queue[l] = <<>>
                                      THEN "UNLOCKED" ELSE lock_status[l]]
  /\ owns' = [t \in Pcb |-> own[t] \cup {l \in L : First(l) = <<t>>}]

(***************************************************************************)
(* do_mutex_lock_release by the running task.  The loop returns with an    *)
(* error when locks[0] is another lock, wherever l itself stands; with an  *)
(* empty locks[] it checks nothing.  The caller is not told either way.    *)
(***************************************************************************)
Accepts(p, l) == locks[p] # <<>> => Head(locks[p]) = l

Forget(p) == [locks EXCEPT ![p] = IF @ = <<>> THEN @ ELSE Tail(@)]

do_mutex_lock_release(l) ==
  IF Accepts(current_running, l)
    THEN /\ HandOver({l}, [owns EXCEPT ![current_running] = @ \ {l}])
         /\ locks' = Forget(current_running)
         /\ block_queue' = Advanced({l})
         /\ ready_queue' = ready_queue \o First(l)
         /\ status' = Unblocked(ToSet(First(l)))
         /\ UNCHANGED <<pid, mode, created, current_running>>
    ELSE /\ owns' = [owns EXCEPT ![current_running] = @ \ {l}]
         /\ UNCHANGED <<schedVars, lock_status>>

=============================================================================
