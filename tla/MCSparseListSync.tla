-------------------------- MODULE MCSparseListSync ---------------------------
(***************************************************************************)
(* Small instances of SparseListSync.                                      *)
(***************************************************************************)
EXTENDS SparseListInv, TLC

Symmetry == Permutations(Elem)
==============================================================================
