---------------------------- MODULE MCStructSync -----------------------------
(***************************************************************************)
(* Small instances of StructSync.                                          *)
(***************************************************************************)
EXTENDS StructInv

\* One application for the map, one for the list and the optional, and one
\* that uses little of each field, so that all of them may change at once.
MCApps ==
  {[keys |-> 3, size |-> 0, fields |-> {}],
   [keys |-> 0, size |-> 3, fields |-> {"spare"}],
   [keys |-> 1, size |-> 1, fields |-> {"spare", "row"}]}
==============================================================================
