---------------------------- MODULE MCServerStack ----------------------------
(* Model checking of ServerStack. *)
EXTENDS ServerStack, TLC

=============================================================================
