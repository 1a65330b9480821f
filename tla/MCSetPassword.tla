---------------------------- MODULE MCSetPassword ----------------------------
(* Small instances of SetPassword.  Runs of the tools are interchangeable,   *)
(* and so are credentials.                                                   *)
EXTENDS SetPassword, TLC

Symmetry == Permutations(Tool) \cup Permutations(Credential)
=============================================================================
