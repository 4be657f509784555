------------------------------- MODULE MCKList ------------------------------
(***************************************************************************)
(* list.c on small sets of list heads and nodes, all heads and all nodes   *)
(* being alike.                                                            *)
(***************************************************************************)
EXTENDS KList

Symmetry == Permutations(Nodes) \cup Permutations(Lists)

=============================================================================
