-------------------------- MODULE MCRecoveryChannel --------------------------
(* Small instances of RecoveryChannel.  Clients are interchangeable, and so  *)
(* are nonces.                                                               *)
EXTENDS RecoveryChannel, TLC

Symmetry == Permutations(Client) \cup Permutations(Nonce)
=============================================================================
