------------------------------ MODULE MCRecovery ------------------------------
(* Instances of Recovery for TLC. *)
EXTENDS Recovery, TLC

Symmetry == Permutations(Blocks)

Plain == [journal |-> TRUE, checksum |-> FALSE, async |-> FALSE, reuse |-> FALSE,
          zeroes |-> FALSE, over |-> FALSE, torn |-> FALSE, dsync |-> FALSE,
          entries |-> 2, tids |-> 3, failures |-> 0, restarts |-> 1]

(* A fresh disk on which files only grow, with a table that holds every    *)
(* mismatch and with one that does not; and, where blocks are revoked, any *)
(* use of the blocks when every transaction is flushed.                    *)
SafeOptions == {Plain, [Plain EXCEPT !.tids = 2, !.entries = 1],
                [Plain EXCEPT !.journal = FALSE, !.reuse = TRUE, !.over = TRUE, !.dsync = TRUE]}

(* Every workload, on mounts without checksums, with them, and with        *)
(* asynchronous commits.                                                   *)
Hostile == [Plain EXCEPT !.reuse = TRUE, !.zeroes = TRUE, !.over = TRUE, !.torn = TRUE,
                         !.entries = 1, !.tids = 2, !.failures = 1, !.restarts = 0]
HostileOptions == {Hostile,
                   [Hostile EXCEPT !.journal = FALSE],
                   [Hostile EXCEPT !.journal = FALSE, !.checksum = TRUE],
                   [Hostile EXCEPT !.journal = FALSE, !.checksum = TRUE, !.async = TRUE]}

AllOptions == SafeOptions \cup HostileOptions
=============================================================================
