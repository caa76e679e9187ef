--------------------------- MODULE MCOperations ---------------------------
(***************************************************************************)
(* An instance of Operations for TLC.                                      *)
(***************************************************************************)
EXTENDS Operations
=============================================================================
