------------------------------ MODULE MCBuffers ------------------------------
(* Instances of Buffers for TLC.  Processes are interchangeable. *)
EXTENDS Buffers, TLC

Perms == Permutations(Procs)
=============================================================================
