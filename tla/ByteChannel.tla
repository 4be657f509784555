----------------------------- MODULE ByteChannel ----------------------------
(***************************************************************************)
(* What the mailboxes promise: bounded streams of bytes.  A message goes   *)
(* in whole, or not at all; the bytes come out in the order they went in,  *)
(* each of them once.                                                      *)
(***************************************************************************)
EXTENDS Sequences, Integers

CONSTANTS Chan, Byte, Capacity

VARIABLES stream,   \* the bytes on their way
          out       \* what the last receiver was given

vars == <<stream, out>>

Init == /\ stream = [c \in Chan |-> <<>>]
        /\ out = <<>>

Put(c) == \E n \in 1..Capacity : \E m \in [1..n -> Byte] :
            /\ Len(stream[c]) + n <= Capacity
            /\ stream' = [stream EXCEPT ![c] = @ \o m]
            /\ UNCHANGED out

Get(c) == \E n \in 1..Len(stream[c]) :
            /\ out' = SubSeq(stream[c], 1, n)
            /\ stream' = [stream EXCEPT ![c] = SubSeq(@, n + 1, Len(@))]

Next == \E c \in Chan : Put(c) \/ Get(c)

Spec == Init /\ [][Next]_vars

=============================================================================
