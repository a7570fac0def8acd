---------------------------- MODULE MCPolymorphic ----------------------------
(***************************************************************************)
(* A small instance of Polymorphic.  Class 2 is the root; class 3, which   *)
(* is abstract, stands between it and class 1.                             *)
(***************************************************************************)
EXTENDS PolymorphicInv

MCParent == <<3, None, 2, 2>>
==============================================================================
