-------------------------- MODULE MCJournalCommit --------------------------
(***************************************************************************)
(* Instances of JournalCommit for TLC.                                     *)
(***************************************************************************)
EXTENDS JournalCommit, TLC

Perms == Permutations(Proc)
=============================================================================
