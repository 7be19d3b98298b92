---------------------------- MODULE MCCleanupLock ----------------------------
(* An instance of CleanupLock and its proofs for TLC. *)
EXTENDS CleanupLockProofs
=============================================================================
