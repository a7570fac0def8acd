---------------------------- MODULE MCDeltaState -----------------------------
(***************************************************************************)
(* Small instances of DeltaState.  States are interchangeable, so runs of  *)
(* safety properties may use their permutations as symmetry.               *)
(***************************************************************************)
EXTENDS DeltaStateInv

Symmetry == Permutations(State)
==============================================================================
