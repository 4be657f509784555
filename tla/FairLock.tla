------------------------------ MODULE FairLock ------------------------------
(***************************************************************************)
(* What the mutexes of the kernel promise to tasks that use them as they   *)
(* should: at most one holder, a lock that is free when nobody holds it,   *)
(* and waiters served in the order they came.                              *)
(***************************************************************************)
EXTENDS Sequences, Integers, FiniteSets

CONSTANTS Proc, Lock

VARIABLES holders,   \* who holds each lock
          waiting    \* who waits for it, first come first

vars == <<holders, waiting>>

Init == /\ holders = [l \in Lock |-> {}]
        /\ waiting = [l \in Lock |-> <<>>]

Take(p, l) == /\ holders[l] = {}
              /\ holders' = [holders EXCEPT ![l] = {p}]
              /\ UNCHANGED waiting

(* One who waits waits for one lock, and is in line once. *)
Wait(p, l) == /\ holders[l] # {}
              /\ \A k \in Lock : \A i \in DOMAIN waiting[k] : waiting[k][i] # p
              /\ waiting' = [waiting EXCEPT ![l] = Append(@, p)]
              /\ UNCHANGED holders

Release(p, l) ==
  /\ holders[l] = {p}
  /\ IF waiting[l] = <<>>
       THEN /\ holders' = [holders EXCEPT ![l] = {}]
            /\ UNCHANGED waiting
       ELSE /\ holders' = [holders EXCEPT ![l] = {Head(waiting[l])}]
            /\ waiting' = [waiting EXCEPT ![l] = Tail(@)]

Next == \E p \in Proc, l \in Lock : Take(p, l) \/ Wait(p, l) \/ Release(p, l)

Spec == Init /\ [][Next]_vars

=============================================================================
