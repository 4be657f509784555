------------------------------- MODULE Queues -------------------------------
(***************************************************************************)
(* What the intrusive lists of kernel/sched/list.c mean to their callers:  *)
(* a list is the sequence of the nodes reached from its head by `next`.    *)
(* KList.tla shows that the pointer code computes these operators.         *)
(***************************************************************************)
EXTENDS Sequences, SequencesExt, Integers

(* The place of node n in the list s. *)
PlaceOf(s, n) == CHOOSE i \in DOMAIN s : s[i] = n

(***************************************************************************)
(* enqueue(list, n).  A node that is in no list goes to the tail.  A node  *)
(* the same list already holds gets `next = list` while its predecessor    *)
(* still points at it: everything that stood behind it is cut off.         *)
(***************************************************************************)
Link(s, n) == IF n \in ToSet(s) THEN SubSeq(s, 1, PlaceOf(s, n)) ELSE Append(s, n)

(* delete_item(n): n leaves the list that holds it, the others keep order. *)
Without(s, n) == IF n \in ToSet(s) THEN RemoveAt(s, PlaceOf(s, n)) ELSE s

=============================================================================
