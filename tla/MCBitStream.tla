----------------------------- MODULE MCBitStream -----------------------------
(***************************************************************************)
(* A small instance of BitStream: bytes of three bits and words of two     *)
(* bytes, so that fields of up to five bits cross bytes at every offset.   *)
(***************************************************************************)
EXTENDS BitStreamInv

MCPatterns == {{0}, {1, 2}}
==============================================================================
