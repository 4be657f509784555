----------------------------- MODULE Rendezvous -----------------------------
(***************************************************************************)
(* What the barriers promise: those who arrive stay, until as many have    *)
(* arrived as were announced; then all of them leave and a new round       *)
(* begins with nobody.                                                     *)
(***************************************************************************)
EXTENDS Integers, FiniteSets

CONSTANTS Proc, Bar

VARIABLES parties,   \* how many must arrive, 0 when the barrier is not in use
          arrived    \* who stays there in this round

vars == <<parties, arrived>>

Init == /\ parties = [b \in Bar |-> 0]
        /\ arrived = [b \in Bar |-> {}]

Arrive(p, b) ==
  /\ \A c \in Bar : p \notin arrived[c]
  /\ arrived' = [arrived EXCEPT ![b] =
                   IF Cardinality(@ \cup {p}) = parties[b] THEN {} ELSE @ \cup {p}]
  /\ UNCHANGED parties

(* Only a barrier where nobody stays is set up. *)
SetUp(b) == /\ arrived[b] = {}
            /\ parties' \in [Bar -> Nat]
            /\ \A c \in Bar \ {b} : parties'[c] = parties[c]
            /\ UNCHANGED arrived

Destroy(b) == /\ parties' = [parties EXCEPT ![b] = 0]
              /\ arrived' = [arrived EXCEPT ![b] = {}]

Next == \E b \in Bar : SetUp(b) \/ Destroy(b) \/ \E p \in Proc : Arrive(p, b)

Spec == Init /\ [][Next]_vars

=============================================================================
