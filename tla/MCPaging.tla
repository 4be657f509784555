------------------------------ MODULE MCPaging ------------------------------
(***************************************************************************)
(* A small memory: four entries per table, programs whose pages lie in two *)
(* tables, stacks whose third thread needs another table.                  *)
(***************************************************************************)
EXTENDS Paging

MCImages == {<<7, 0>>}
=============================================================================
