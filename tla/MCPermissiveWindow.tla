-------------------------- MODULE MCPermissiveWindow --------------------------
(* Small instances of PermissiveWindow.  The threads are interchangeable.    *)
EXTENDS PermissiveWindow, TLC

Symmetry == Permutations(Thread)
=============================================================================
