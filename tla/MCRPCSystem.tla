----------------------------- MODULE MCRPCSystem -----------------------------
(* Model checking of RPCSystem. *)
EXTENDS RPCSystem, TLC

\* Clients, each with its thread of the server, are interchangeable.
ClientSymmetry == Permutations(Thread)

=============================================================================
