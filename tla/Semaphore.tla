------------------------------ MODULE Semaphore -----------------------------
(***************************************************************************)
(* What the semaphores promise: a count of units; one who finds none waits *)
(* in line, and a unit that is given back goes to the first in line.       *)
(***************************************************************************)
EXTENDS Sequences, Integers

CONSTANTS Proc, Sem

VARIABLES units,     \* the units that anyone may take
          waiting    \* who waits for one, first come first

vars == <<units, waiting>>

Init == /\ units = [s \in Sem |-> 0]
        /\ waiting = [s \in Sem |-> <<>>]

(* One who waits waits at one semaphore, and is in line once. *)
Waits(p) == \E s \in Sem : \E i \in DOMAIN waiting[s] : waiting[s][i] = p

Down(p, s) ==
  /\ ~Waits(p)
  /\ IF units[s] > 0
       THEN units' = [units EXCEPT ![s] = @ - 1] /\ UNCHANGED waiting
       ELSE waiting' = [waiting EXCEPT ![s] = Append(@, p)] /\ UNCHANGED units

Up(s) ==
  IF waiting[s] = <<>>
    THEN units' = [units EXCEPT ![s] = @ + 1] /\ UNCHANGED waiting
    ELSE waiting' = [waiting EXCEPT ![s] = Tail(@)] /\ UNCHANGED units

(* Only a semaphore that nobody waits at is set to a value. *)
Set(s) == /\ waiting[s] = <<>>
          /\ units' \in [Sem -> Nat]
          /\ \A t \in Sem \ {s} : units'[t] = units[t]
          /\ UNCHANGED waiting

Destroy(s) == /\ units' = [units EXCEPT ![s] = 0]
              /\ waiting' = [waiting EXCEPT ![s] = <<>>]

Next == \E s \in Sem : Up(s) \/ Set(s) \/ Destroy(s) \/ \E p \in Proc : Down(p, s)

Spec == Init /\ [][Next]_vars

=============================================================================
