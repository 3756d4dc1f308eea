------------------------- MODULE MCWaitForVariable -------------------------
(***************************************************************************)
(* The runs of WaitForVariable give its constants their values in their    *)
(* .cfg files.                                                             *)
(***************************************************************************)
EXTENDS WaitForVariable
=============================================================================
