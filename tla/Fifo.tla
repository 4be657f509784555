-------------------------------- MODULE Fifo --------------------------------
(***************************************************************************)
(* What list.c promises its callers: each list is a queue, seen through    *)
(* `ret`, what the last call returned.                                     *)
(***************************************************************************)
EXTENDS Queues

CONSTANTS Lists,   \* the list heads: ready_queue, sleep_queue, block queues
          Nodes,   \* the nodes, one embedded in each PCB
          NULL

VARIABLES queue, ret

vars == <<queue, ret>>

Init == /\ queue = [l \in Lists |-> <<>>]
        /\ ret = NULL

(* Forget whatever the list holds. *)
Clear(l) == /\ queue' = [queue EXCEPT ![l] = <<>>]
            /\ ret' = NULL

(* Append a node no other list holds; one this list holds becomes its tail. *)
Insert(l, n) ==
  /\ \A k \in Lists \ {l} : n \notin ToSet(queue[k])
  /\ queue' = [queue EXCEPT ![l] = Link(@, n)]
  /\ ret' = NULL

(* Hand out the oldest node, or NULL when there is none. *)
Take(l) ==
  IF queue[l] = <<>>
    THEN /\ ret' = NULL
         /\ UNCHANGED queue
    ELSE /\ ret' = Head(queue[l])
         /\ queue' = [queue EXCEPT ![l] = Tail(@)]

(* Take a node out of the middle of its list, if a list holds it. *)
Delete(n) ==
  /\ queue' = [l \in Lists |-> Without(queue[l], n)]
  /\ ret' = NULL

Next == \/ \E l \in Lists : Clear(l) \/ Take(l)
        \/ \E l \in Lists, n \in Nodes : Insert(l, n)
        \/ \E n \in Nodes : Delete(n)

Spec == Init /\ [][Next]_vars

=============================================================================
