---------------------------- MODULE MCCheckpoint ----------------------------
(***************************************************************************)
(* Checkpoint for TLC.  Blocks are interchangeable.                        *)
(***************************************************************************)
EXTENDS Checkpoint, TLC

Perms == Permutations(Block)

Plain == [tids |-> 2, time |-> 3, slots |-> 2, kinds |-> {"osync", "dsync"},
          callers |-> {}, writeback |-> TRUE, fail |-> FALSE]

(* Osync and dsync commits with writeback, in a log that has room; osync     *)
(* commits with writeback and failing writes in a log that is full; durable  *)
(* commits in a log that is full again and again; journal flushes with       *)
(* failing writes and with writeback.                                        *)
SafeLoads ==
    {Plain, [Plain EXCEPT !.tids = 3, !.time = 2, !.slots = 3, !.kinds = {"osync"}],
     [Plain EXCEPT !.time = 2, !.slots = 1, !.kinds = {"osync"}, !.callers = {"space"},
                   !.fail = TRUE],
     [Plain EXCEPT !.tids = 4, !.time = 0, !.kinds = {"dsync"}, !.callers = {"space"},
                   !.writeback = FALSE, !.fail = TRUE],
     [Plain EXCEPT !.time = 2, !.callers = {"flush"}, !.writeback = FALSE, !.fail = TRUE],
     [Plain EXCEPT !.tids = 1, !.time = 2, !.slots = 1, !.callers = {"flush"}]}

(* One block and a journal flush. *)
FlushLoads == {[Plain EXCEPT !.kinds = {"osync"}, !.callers = {"flush"}, !.writeback = FALSE]}

(* Osync commits in a log that is full. *)
FullLoads == {[Plain EXCEPT !.tids = 4, !.time = 0, !.slots = 3, !.callers = {"space"},
                            !.writeback = FALSE]}
=============================================================================
