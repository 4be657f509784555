----------------------------- MODULE MCKeyTable -----------------------------
(***************************************************************************)
(* A small instance of KeyTable: more keys and names than slots, so that   *)
(* the tables fill up, and mailboxes closed and opened again.              *)
(***************************************************************************)
EXTENDS KeyTable

=============================================================================
