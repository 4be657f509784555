--------------------------------- MODULE Ipc --------------------------------
(***************************************************************************)
(* The semaphores, barriers and mailboxes of kernel/sync/sync.c, used by   *)
(* the tasks of Kernel.tla.  A semaphore or a barrier is its own block     *)
(* queue; a mailbox has two.  A task that a mailbox put to sleep is in the *)
(* middle of do_mbox_send or do_mbox_recv: when it runs again it tests the *)
(* fill level again, before anything else can happen.                      *)
(***************************************************************************)
EXTENDS Kernel

CONSTANTS
  Sem, Bar, Mbox,            \* the objects
  full_queue, empty_queue,   \* the two block queues of each mailbox
  MAX_MBOX_LENGTH,
  Messages, Lengths,         \* what programs send, and how much they ask for
  Counts,                    \* what they initialise semaphores and barriers to
  VAL_MAX,                   \* bound: programs set and raise no semaphore further
  OBJECTS_MAX,               \* bound: they use so many of the objects
  ELSEWHERE_MAX              \* bound: so many tasks sleep in other queues

Byte == {"NUL", "x", "y"}     \* NUL is what bss holds

ASSUME IpcAssumption ==
  /\ {full_queue, empty_queue} \subseteq [Mbox -> Sync]
  /\ IsInjective(full_queue) /\ IsInjective(empty_queue)
  /\ Range(full_queue) \cap Range(empty_queue) = {}
  /\ Sem \cup Bar \subseteq Sync \ (Range(full_queue) \cup Range(empty_queue))
  /\ Sem \cap Bar = {} /\ Mbox \cap (Sem \cup Bar) = {}
  /\ MAX_MBOX_LENGTH \in Nat /\ VAL_MAX \in Nat /\ OBJECTS_MAX \in Nat /\ ELSEWHERE_MAX \in Nat
  /\ \A m \in Messages : m \in Seq(Byte) /\ Len(m) \in 1..MAX_MBOX_LENGTH
  /\ Lengths \subseteq 1..MAX_MBOX_LENGTH /\ Counts \subseteq Nat \ {0}

VARIABLES
  inited,                  \* the objects whose list heads were initialised
  val,                     \* of the semaphores
  total_num, wait_num,     \* of the barriers
  msg, index,              \* of the mailboxes: the buffer and its fill level
  call,                    \* the mailbox call that each task is in, or none
  recv_buf                 \* the bytes that the last do_mbox_recv copied out

ipcVars == <<inited, val, total_num, wait_num, msg, index, call, recv_buf>>
allVars == <<vars, ipcVars>>

None      == [op |-> "none"]
Send(b, m) == [op |-> "send", box |-> b, msg |-> m]
Recv(b, n) == [op |-> "recv", box |-> b, len |-> n]

IpcInit ==
  /\ Init
  /\ inited = {}
  /\ val = [s \in Sem |-> 0]
  /\ total_num = [b \in Bar |-> 0]
  /\ wait_num = [b \in Bar |-> 0]
  /\ msg = [b \in Mbox |-> [i \in 0..(MAX_MBOX_LENGTH - 1) |-> "NUL"]]
  /\ index = [b \in Mbox |-> 0]
  /\ call = [p \in Pcb |-> None]
  /\ recv_buf = <<>>

(* while (!is_list_empty(h)) do_unblock(dequeue(h)); *)
Wake(woken) ==
  /\ ready_queue' = ready_queue \o woken
  /\ status' = Unblocked(ToSet(woken))
  /\ UNCHANGED <<pid, mode, locks, created, current_running>>

wake_all_first(h) ==                                    \* mutant
  Wake(First(h)) /\ block_queue' = [block_queue EXCEPT ![h] = <<>>]
wake_one(h) == Wake(First(h)) /\ block_queue' = Advanced({h})   \* mutant
wake_all(h) == Wake(block_queue[h]) /\ block_queue' = [block_queue EXCEPT ![h] = <<>>]

(* list_init forgets whoever was linked in the list. *)
list_init(H) ==
  /\ block_queue' = [h \in Heads |-> IF h \in H THEN <<>> ELSE block_queue[h]]
  /\ UNCHANGED <<ready_queue, status, pid, mode, locks, created, current_running>>

-----------------------------------------------------------------------------
do_semaphore_init(s, v) ==
  /\ val' = [val EXCEPT ![s] = v]
  /\ inited' = inited \cup {s}
  /\ list_init({s})

do_semaphore_up_lost(s) ==                              \* mutant
  /\ val' = [val EXCEPT ![s] = @ + 1]
  /\ IF val[s] >= 0 THEN Wake(First(s)) /\ block_queue' = Advanced({s})
                    ELSE UNCHANGED schedVars
  /\ UNCHANGED inited

do_semaphore_up(s) ==
  /\ val' = [val EXCEPT ![s] = @ + 1]
  /\ Wake(First(s)) /\ block_queue' = Advanced({s})
  /\ UNCHANGED inited

do_semaphore_down(s) ==
  /\ val' = [val EXCEPT ![s] = @ - 1]
  /\ IF val'[s] < 0 THEN do_block(s) ELSE UNCHANGED schedVars
  /\ UNCHANGED inited

(* `destoryed` is set and never tested. *)
do_semaphore_destroy(s) ==
  /\ val' = [val EXCEPT ![s] = 0]
  /\ wake_all(s)
  /\ UNCHANGED inited

do_barrier_init(b, count) ==
  /\ total_num' = [total_num EXCEPT ![b] = count]
  /\ wait_num' = [wait_num EXCEPT ![b] = 0]
  /\ inited' = inited \cup {b}
  /\ list_init({b})

do_barrier_wait_early(b) ==                             \* mutant
  /\ IF wait_num[b] + 1 >= total_num[b] - 1
       THEN wake_all(b) /\ wait_num' = [wait_num EXCEPT ![b] = 0]
       ELSE do_block(b) /\ wait_num' = [wait_num EXCEPT ![b] = @ + 1]
  /\ UNCHANGED <<total_num, inited>>

do_barrier_wait(b) ==
  /\ IF wait_num[b] + 1 = total_num[b]
       THEN wake_all(b) /\ wait_num' = [wait_num EXCEPT ![b] = 0]
       ELSE do_block(b) /\ wait_num' = [wait_num EXCEPT ![b] = @ + 1]
  /\ UNCHANGED <<total_num, inited>>

do_barrier_destroy(b) ==
  /\ total_num' = [total_num EXCEPT ![b] = 0]
  /\ wait_num' = [wait_num EXCEPT ![b] = 0]
  /\ wake_all(b)
  /\ UNCHANGED inited

-----------------------------------------------------------------------------
(* do_mbox_open when no opened mailbox has the name: it takes the slot b. *)
do_mbox_open(b) ==
  /\ inited' = inited \cup {b}
  /\ index' = [index EXCEPT ![b] = 0]
  /\ list_init({full_queue[b], empty_queue[b]})
  /\ UNCHANGED <<msg, call, recv_buf>>

(* The loop that puts the caller to sleep in h until its call can be served. *)
Sleep(h, c) == /\ do_block(h)
               /\ call' = [call EXCEPT ![current_running] = c]
               /\ UNCHANGED <<msg, index, recv_buf>>

Return == call' = [call EXCEPT ![current_running] = None]

(* The buffer after the loop that copies the message in. *)
Filled(b, m) == [i \in DOMAIN msg[b] |->
                  IF i \in index[b]..(index[b] + Len(m) - 1) THEN m[i - index[b] + 1] ELSE msg[b][i]]

(* That loop, and the wake-ups after it. *)
Put(b, m) ==
  /\ msg' = [msg EXCEPT ![b] = Filled(b, m)]
  /\ index' = [index EXCEPT ![b] = @ + Len(m)]
  /\ wake_all(empty_queue[b])
  /\ Return
  /\ UNCHANGED recv_buf

do_mbox_send_once(b, m) ==                              \* mutant
  /\ IF index[b] + Len(m) > MAX_MBOX_LENGTH /\ call[current_running] = None
       THEN Sleep(full_queue[b], Send(b, m))
       ELSE Put(b, m)
  /\ UNCHANGED inited

do_mbox_send(b, m) ==
  /\ IF index[b] + Len(m) > MAX_MBOX_LENGTH
       THEN Sleep(full_queue[b], Send(b, m))
       ELSE Put(b, m)
  /\ UNCHANGED inited

Take(b, n) ==
  /\ recv_buf' = [i \in 1..n |-> msg[b][i - 1]]
  /\ index' = [index EXCEPT ![b] = @ - n]

(* The second loop of do_mbox_recv, for the n bytes taken. *)
Shift_short(b, n) == [msg EXCEPT ![b] = [i \in DOMAIN @ |->     \* mutant
                       IF i + n < MAX_MBOX_LENGTH - 1 THEN @[i + n] ELSE @[i]]]
Shift(b, n) == [msg EXCEPT ![b] = [i \in DOMAIN @ |->
                 IF i + n < MAX_MBOX_LENGTH THEN @[i + n] ELSE @[i]]]

do_mbox_recv_wakes_one(b, n) ==                         \* mutant
  /\ IF index[b] < n
       THEN Sleep(empty_queue[b], Recv(b, n))
       ELSE /\ Take(b, n) /\ msg' = Shift(b, n)
            /\ wake_one(full_queue[b])
            /\ Return
  /\ UNCHANGED inited

do_mbox_recv(b, n) ==
  /\ IF index[b] < n
       THEN Sleep(empty_queue[b], Recv(b, n))
       ELSE /\ Take(b, n) /\ msg' = Shift(b, n)
            /\ wake_all(full_queue[b])
            /\ Return
  /\ UNCHANGED inited

-----------------------------------------------------------------------------
(***************************************************************************)
(* Who calls what.  Every program initialises an object before it uses it, *)
(* and initialises it again only when nobody sleeps in it.                 *)
(***************************************************************************)
InCall == current_running \in Pcb /\ call[current_running] # None
User   == Task /\ ~InCall
Idle(H) == \A h \in H : block_queue[h] = <<>>
MayInit(x) == Cardinality(inited \cup {x}) <= OBJECTS_MAX

SemUnchanged  == UNCHANGED <<mutexVars, total_num, wait_num, msg, index, call, recv_buf>>
BarUnchanged  == UNCHANGED <<mutexVars, val, msg, index, call, recv_buf>>
MboxUnchanged == UNCHANGED <<mutexVars, val, total_num, wait_num>>

SemInit    == \E s \in Sem, v \in Counts : User /\ v <= VAL_MAX /\ MayInit(s) /\ Idle({s}) /\ do_semaphore_init(s, v) /\ SemUnchanged
SemUp      == \E s \in Sem \cap inited : User /\ val[s] < VAL_MAX /\ do_semaphore_up(s) /\ SemUnchanged
SemDown    == \E s \in Sem \cap inited : User /\ do_semaphore_down(s) /\ SemUnchanged
SemDestroy == \E s \in Sem \cap inited : User /\ do_semaphore_destroy(s) /\ SemUnchanged

BarInit    == \E b \in Bar, n \in Counts : User /\ MayInit(b) /\ Idle({b}) /\ do_barrier_init(b, n) /\ BarUnchanged
BarWait    == \E b \in Bar \cap inited : User /\ do_barrier_wait(b) /\ BarUnchanged
BarDestroy == \E b \in Bar \cap inited : User /\ do_barrier_destroy(b) /\ BarUnchanged

MboxOpen == \E b \in Mbox \ inited : User /\ MayInit(b) /\ do_mbox_open(b) /\ MboxUnchanged
MboxSend == \E b \in Mbox \cap inited, m \in Messages : User /\ do_mbox_send(b, m) /\ MboxUnchanged
MboxRecv == \E b \in Mbox \cap inited, n \in Lengths : User /\ do_mbox_recv(b, n) /\ MboxUnchanged

(* do_block has returned: the task goes round its loop again. *)
MboxResume ==
  /\ InCall
  /\ LET c == call[current_running]
     IN \/ c.op = "send" /\ do_mbox_send(c.box, c.msg)
        \/ c.op = "recv" /\ do_mbox_recv(c.box, c.len)
  /\ MboxUnchanged

Elsewhere == UNION {ToSet(block_queue[h]) : h \in Pcb \cup Net}

(* The rest of the kernel.  A new task starts on a stack of its own. *)
Others ==
  /\ ~InCall
  /\ Next
  /\ Cardinality(Elsewhere') <= ELSEWHERE_MAX
  /\ call' = [p \in Pcb |-> IF pid[p] = 0 /\ pid'[p] # 0 THEN None ELSE call[p]]
  /\ UNCHANGED <<inited, val, total_num, wait_num, msg, index, recv_buf>>

IpcNext == \/ SemInit \/ SemUp \/ SemDown \/ SemDestroy
           \/ BarInit \/ BarWait \/ BarDestroy
           \/ MboxOpen \/ MboxSend \/ MboxRecv \/ MboxResume
           \/ Others

IpcSpec == IpcInit /\ [][IpcNext]_allVars

-----------------------------------------------------------------------------
IpcTypeOK ==
  /\ TypeOK
  /\ inited \in SUBSET (Sem \cup Bar \cup Mbox)
  /\ val \in [Sem -> Int] /\ \A s \in Sem : val[s] <= VAL_MAX
  /\ total_num \in [Bar -> Nat] /\ wait_num \in [Bar -> Nat]
  /\ msg \in [Mbox -> [0..(MAX_MBOX_LENGTH - 1) -> Byte]]
  /\ index \in [Mbox -> 0..MAX_MBOX_LENGTH]
  /\ \A p \in Pcb : \/ call[p] = None
                    \/ \E b \in Mbox : \/ \E m \in Messages : call[p] = Send(b, m)
                                       \/ \E n \in Lengths : call[p] = Recv(b, n)
  /\ recv_buf = <<>> \/ \E n \in Lengths : recv_buf \in [1..n -> Byte]

(***************************************************************************)
(* No wake-up of a mailbox is lost: whoever sleeps in do_mbox_send has no  *)
(* room for its message, whoever sleeps in do_mbox_recv has too few bytes, *)
(* although each of them last tested the fill level long ago.              *)
(***************************************************************************)
SleepersMustWait ==
  \A b \in Mbox \cap inited :
     /\ \A p \in ToSet(block_queue[full_queue[b]]) :
           /\ call[p].op = "send" /\ call[p].box = b
           /\ index[b] + Len(call[p].msg) > MAX_MBOX_LENGTH
     /\ \A p \in ToSet(block_queue[empty_queue[b]]) :
           /\ call[p].op = "recv" /\ call[p].box = b
           /\ index[b] < call[p].len

(* Senders and receivers of one mailbox never sleep both, each waiting for  *)
(* the other, as long as the longest message and the longest request       *)
(* together exceed the buffer by at most one byte.                         *)
NoStandOff ==
  \A b \in Mbox \cap inited :
     block_queue[full_queue[b]] = <<>> \/ block_queue[empty_queue[b]] = <<>>

(* A semaphore is a count with a line: val is the units when it is positive *)
(* and the length of the line when it is negative, whatever is raised,     *)
(* lowered, destroyed and set up again.                                    *)
Counting == INSTANCE Semaphore WITH
              Proc    <- Pcb,
              units   <- [s \in Sem |-> IF val[s] > 0 THEN val[s] ELSE 0],
              waiting <- [s \in Sem |-> block_queue[s]]
ImplementsSemaphore == Counting!Spec

(* A barrier holds everybody until the announced number has arrived, and   *)
(* lets exactly those go; wait_num keeps step with the block queue.        *)
Meeting == INSTANCE Rendezvous WITH
             Proc    <- Pcb,
             parties <- total_num,
             arrived <- [b \in Bar |-> ToSet(block_queue[b])]
ImplementsRendezvous == Meeting!Spec

(* A mailbox is a bounded stream: messages enter whole, also those of a    *)
(* sender that slept, and every byte comes out once and in order.          *)
Channel == INSTANCE ByteChannel WITH
             Chan     <- Mbox,
             Capacity <- MAX_MBOX_LENGTH,
             stream   <- [b \in Mbox |-> [i \in 1..index[b] |-> msg[b][i - 1]]],
             out      <- recv_buf
ImplementsByteChannel == Channel!Spec

=============================================================================
