----------------------------- MODULE SortedSet -------------------------------
(***************************************************************************)
(* A finite set of integers in increasing order: what std::sort makes of a *)
(* vector without duplicates, and the order in which a std::map is walked. *)
(***************************************************************************)
EXTENDS Integers, FiniteSets

InOrder(S) ==
  CHOOSE s \in [1 .. Cardinality(S) -> S] : \A i, j \in DOMAIN s : i < j => s[i] < s[j]
==============================================================================
