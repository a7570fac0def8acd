----------------------------- MODULE MCProtocol ------------------------------
(***************************************************************************)
(* A small instance of Protocol: an asymmetric protocol with four pipes in *)
(* one direction, one of which has no callback, and two in the other.      *)
(***************************************************************************)
EXTENDS ProtocolInv

PipeDef(kind, mode, types, typed, generic, defaults) ==
  [kind |-> kind, mode |-> mode, types |-> types, typed |-> typed, generic |-> generic,
   defaults |-> defaults]

MCPipes ==
  [e \in Ends |->
     IF e = "server"
     THEN <<PipeDef("delta", "kUnreliableSequenced", 1, {}, FALSE, {}),
            PipeDef("state", "kUnreliableUnsequenced", 1, {}, FALSE, {0}),
            PipeDef("buffer", "kReliable", 1, {}, FALSE, {}),
            PipeDef("message", "kReliable", 1, {}, FALSE, {})>>
     ELSE <<PipeDef("message", "kReliable", 3, {0}, FALSE, {}),
            PipeDef("variant", "kReliable", 2, {0}, TRUE, {0})>>]
==============================================================================
