-------------------------------- MODULE KList -------------------------------
(***************************************************************************)
(* kernel/sched/list.c: circular doubly linked lists whose nodes live in   *)
(* the PCBs.  `next` and `prev` are the pointer fields of every head and   *)
(* every node, NULL in a fresh PCB (bss) and after a dequeue.  `queue` is  *)
(* a history variable: the lists as their callers think of them.  No       *)
(* pointer assignment reads it; it states which calls a client may make.   *)
(***************************************************************************)
EXTENDS Queues

CONSTANTS Lists, Nodes, NULL

ASSUME ListAssumption == /\ Lists \cap Nodes = {}
                         /\ NULL \notin Lists \cup Nodes

Cells == Lists \cup Nodes

VARIABLES next, prev, ret, queue

vars == <<next, prev, ret, queue>>

Init ==
  /\ next = [c \in Cells |-> IF c \in Lists THEN c ELSE NULL]
  /\ prev = [c \in Cells |-> IF c \in Lists THEN c ELSE NULL]
  /\ ret = NULL
  /\ queue = [l \in Lists |-> <<>>]

(* Which call is legal: no other list holds n.  do_scheduler re-enqueues the *)
(* idle shell while ready_queue holds it, so n may be in l itself.           *)
MayEnqueue(l, n) == \A k \in Lists \ {l} : n \notin ToSet(queue[k])

(* n is in no list and says so, or its back pointer is its predecessor. *)
MayDelete(n) ==
  \/ next[n] = NULL \/ prev[n] = NULL
  \/ \E l \in Lists : \E i \in 1..Len(queue[l]) :
        /\ queue[l][i] = n
        /\ prev[n] = IF i = 1 THEN l ELSE queue[l][i - 1]

(* A list is initialised again when its owner is created again. *)
list_init(l) ==
  /\ next' = [next EXCEPT ![l] = l]
  /\ prev' = [prev EXCEPT ![l] = l]
  /\ ret' = NULL
  /\ queue' = [queue EXCEPT ![l] = <<>>]

is_list_empty(l) == next[l] = l

enqueue_keeps_tail(l, n) ==                             \* mutant
  /\ MayEnqueue(l, n)
  /\ next' = [next EXCEPT ![prev[l]] = n, ![n] = l]
  /\ prev' = [prev EXCEPT ![n] = prev[l]]
  /\ ret' = NULL
  /\ queue' = [queue EXCEPT ![l] = Link(@, n)]

enqueue(l, n) ==
  /\ MayEnqueue(l, n)
  /\ next' = [next EXCEPT ![prev[l]] = n, ![n] = l]
  /\ prev' = [prev EXCEPT ![n] = prev[l], ![l] = n]
  /\ ret' = NULL
  /\ queue' = [queue EXCEPT ![l] = Link(@, n)]

dequeue_unchecked(l) ==                                 \* mutant
  LET data == next[l] IN
    /\ next' = [next EXCEPT ![l] = next[data], ![data] = NULL]
    /\ prev' = [prev EXCEPT ![next[data]] = l, ![data] = NULL]
    /\ ret' = data
    /\ queue' = [queue EXCEPT ![l] = IF @ = <<>> THEN @ ELSE Tail(@)]

dequeue(l) ==
  IF is_list_empty(l)
    THEN /\ ret' = NULL
         /\ UNCHANGED <<next, prev, queue>>
    ELSE LET data == next[l] IN
         /\ next' = [next EXCEPT ![l] = next[data], ![data] = NULL]
         /\ prev' = [prev EXCEPT ![next[data]] = l, ![data] = NULL]
         /\ ret' = data
         /\ queue' = [queue EXCEPT ![l] = Tail(@)]

delete_item(n) ==
  /\ MayDelete(n)
  /\ ret' = NULL
  /\ IF prev[n] # NULL /\ next[n] # NULL
       THEN /\ next' = [next EXCEPT ![prev[n]] = next[n], ![n] = NULL]
            /\ prev' = [prev EXCEPT ![next[n]] = prev[n], ![n] = NULL]
            /\ queue' = [l \in Lists |-> Without(queue[l], n)]
       ELSE UNCHANGED <<next, prev, queue>>

Next == \/ \E l \in Lists : list_init(l) \/ dequeue(l)
        \/ \E l \in Lists, n \in Nodes : enqueue(l, n)
        \/ \E n \in Nodes : delete_item(n)

Spec == Init /\ [][Next]_vars

-----------------------------------------------------------------------------
TypeOK ==
  /\ next \in [Cells -> Cells \cup {NULL}]
  /\ prev \in [Cells -> Cells \cup {NULL}]
  /\ ret \in Nodes \cup {NULL}
  /\ queue \in [Lists -> Seq(Nodes)]

(* No node is in two lists, or twice in one. *)
HeldOnce ==
  \A l, k \in Lists : \A i \in 1..Len(queue[l]), j \in 1..Len(queue[k]) :
     queue[l][i] = queue[k][j] => l = k /\ i = j

(* The pointers of a list's head and members spell out its contents. *)
Represents(l, q) ==
  /\ next[l] = IF q = <<>> THEN l ELSE q[1]
  /\ prev[l] = IF q = <<>> THEN l ELSE q[Len(q)]
  /\ \A i \in 1..Len(q) : /\ next[q[i]] = IF i = Len(q) THEN l ELSE q[i + 1]
                          /\ prev[q[i]] # NULL

(***************************************************************************)
(* Whatever calls the kernel makes, list_init and the re-enqueueing of a   *)
(* linked node included, every list stays a closed circle of exactly the   *)
(* nodes its callers put there, in order, with the head's `prev` at the    *)
(* tail: no list runs into another one or into a dead node.                *)
(***************************************************************************)
WellLinked == HeldOnce /\ \A l \in Lists : Represents(l, queue[l])

(* list.c implements a queue: dequeue returns the oldest node of the list. *)
FifoOrder == INSTANCE Fifo
ImplementsFifo == FifoOrder!Spec


=============================================================================
