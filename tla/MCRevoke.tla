------------------------------ MODULE MCRevoke ------------------------------
(* Instances of Revoke for TLC.  Blocks are interchangeable. *)
EXTENDS Revoke, TLC

Perms == Permutations(Blocks)
=============================================================================
