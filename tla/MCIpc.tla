-------------------------------- MODULE MCIpc -------------------------------
(***************************************************************************)
(* Small instances of Ipc.  The mailbox holds three bytes and messages     *)
(* have one or two, so that two senders can both be refused, and a sender  *)
(* and a receiver can wake each other in turn.                             *)
(***************************************************************************)
EXTENDS Ipc

CONSTANTS sem, bar, mbox, fullq, emptyq

MCSync       == {sem, bar, fullq, emptyq}
MCfull_queue  == [b \in {mbox} |-> fullq]
MCMessages   == {<<"x">>, <<"x", "y">>}
MCempty_queue == [b \in {mbox} |-> emptyq]

=============================================================================
