------------------------------- MODULE MCFiles -------------------------------
(* Small instances of Files. *)
EXTENDS Files
=============================================================================
