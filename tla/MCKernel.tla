------------------------------ MODULE MCKernel ------------------------------
(***************************************************************************)
(* Small instances of Kernel.  The shell is pcb[0], so NUM_MAX_TASK = 4    *)
(* lets three other tasks run at once, and slots be used again.            *)
(***************************************************************************)
EXTENDS Kernel

=============================================================================
