---------------------------- MODULE MCConnection -----------------------------
(***************************************************************************)
(* Small instances of Connection.  Clients are interchangeable.            *)
(***************************************************************************)
EXTENDS ConnectionInv, TLC

Symmetry == Permutations(Client)
==============================================================================
