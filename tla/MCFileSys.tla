----------------------------- MODULE MCFileSys ------------------------------
(***************************************************************************)
(* Small disks: blocks of two bytes, two bits of a map in a byte and two   *)
(* inodes in a sector, so that the neighbours of a bit, of an inode and of *)
(* a block all occur.                                                      *)
(***************************************************************************)
EXTENDS FileSys

Symmetry == Permutations(Name)

=============================================================================
