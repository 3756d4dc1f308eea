------------------------- MODULE MCAsyncInvokeServer -------------------------
(* Model checking of AsyncInvokeServer. *)
EXTENDS AsyncInvokeServer, TLC

\* Threads are interchangeable.
ThreadSymmetry == Permutations(Thread)

=============================================================================
