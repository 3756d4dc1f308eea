------------------------- MODULE MCProtocolRPCServer -------------------------
(* Model checking of ProtocolRPCServer. *)
EXTENDS ProtocolRPCServer, TLC

\* Threads are interchangeable.
ThreadSymmetry == Permutations(Thread)

=============================================================================
