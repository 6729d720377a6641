---------------------------- MODULE DelayedReuse ----------------------------
(***************************************************************************)
(* Delayed reuse of freed blocks (mballoc.c, super.c).  A block must not   *)
(* be used again before a crash would no longer undo its freeing, and      *)
(* OptFS does not flush at a commit: after the commit the block is held    *)
(* back for EXT4BF_DELAY_TIMEOUT, on a list that a kernel thread walks.    *)
(*                                                                         *)
(* Time is what it is used for: once the delay has passed since some       *)
(* moment, the disk has destaged every commit written before that moment.  *)
(* A block stands for an extent; extents are not merged.                   *)
(***************************************************************************)
EXTENDS Integers, FiniteSets, FiniteSetsExt, SequencesExt

CONSTANTS
  Blocks,
  MaxTid,      \* bound: transactions; the last one is never committed
  Batch        \* the entry at which a walk stops (50)

ASSUME ConstantsAssumption == MaxTid \in Nat \ {0} /\ Batch \in Nat \ {0}

Tids == 1 .. MaxTid
End  == [b |-> "end", t |-> 0]    \* the head of the list, where a walk ends
Walkers == {"thread", "umount"}

VARIABLES
  use,           \* "used", "held" (freed, but not yet in the buddy) or "free"
  freed,         \* the transaction that last freed a block, 0: none
  atOnce,        \* blocks whose last freeing was that of a data=writeback file
  freeing,       \* the block in ext4bf_mb_free_metadata
  inside,        \* inside_mb_free_metadata
  running, phase,       \* the running transaction; where the commit of the one before is
  aborted,       \* the journal is aborted
  priv,          \* t_private_list of the running and of the committing transaction
  written, durable,     \* commit records written; on the platter
  list,          \* ext4bf_delayed_reuse_list
  d_ftime,       \* what was written at the moment the delay is counted from
  aged,          \* blocks whose delay has passed
  pc, cur, next, dr_count,   \* of the thread and of unmount, in release_blocks_after_delay
  should_stop,   \* kthread_should_stop
  stale          \* a walk used what had been freed: nothing is said of walks from then on

freeVars   == <<freeing, inside>>
blockVars  == <<use, freed, atOnce, freeVars>>
commitVars == <<running, phase, aborted, written, durable>>
timeVars   == <<d_ftime, aged>>
walkVars   == <<cur, next, dr_count, should_stop, stale>>
vars == <<blockVars, commitVars, priv, list, timeVars, pc, walkVars>>

Init ==
  /\ use = [b \in Blocks |-> "used"] /\ freed = [b \in Blocks |-> 0] /\ atOnce = {}
  /\ freeing = "none" /\ inside = FALSE
  /\ running = 1 /\ phase = "none" /\ aborted = FALSE /\ written = {} /\ durable = {}
  /\ priv = [running |-> <<>>, committing |-> <<>>]
  /\ list = <<>> /\ d_ftime = [b \in Blocks |-> {}] /\ aged = {}
  /\ pc = [thread |-> "check", umount |-> "mounted"]
  /\ cur = [w \in Walkers |-> End] /\ next = [w \in Walkers |-> End]
  /\ dr_count = [w \in Walkers |-> 0]
  /\ should_stop = FALSE /\ stale = FALSE

-----------------------------------------------------------------------------
(* The file system *)

(* jbdbf_journal_get_write_access fails once the journal is aborted. *)
Working == ~aborted /\ running < MaxTid /\ pc["umount"] = "mounted"

(* ext4bf_free_blocks, into ext4bf_mb_free_metadata.  A block that is held   *)
(* already is freed again where two files own it, on a damaged file system.  *)
FreeBlocks(b) ==
  /\ Working /\ freeing = "none" /\ use[b] \in {"used", "held"}
  /\ freeing' = b /\ inside' = TRUE
  /\ UNCHANGED <<use, freed, atOnce, commitVars, priv, list, timeVars, pc, walkVars>>

(* ext4bf_free_blocks of a file in writeback mode: the block is not held. *)
FreeAtOnce(b) ==
  /\ Working /\ use[b] = "used" /\ b # freeing
  /\ use' = [use EXCEPT ![b] = "free"]
  /\ freed' = [freed EXCEPT ![b] = running]
  /\ atOnce' = atOnce \cup {b}
  /\ UNCHANGED <<freeVars, commitVars, priv, list, timeVars, pc, walkVars>>

(* The block is held, on the list of the transaction. *)
Hold(b) ==
  /\ use' = [use EXCEPT ![b] = "held"]
  /\ freed' = [freed EXCEPT ![b] = running]
  /\ atOnce' = atOnce \ {b}
  /\ priv' = [priv EXCEPT !.running = <<[b |-> b, t |-> running]>> \o @]
  /\ d_ftime' = [d_ftime EXCEPT ![b] = written]
  /\ aged' = aged \ {b}

(* The rest of ext4bf_mb_free_metadata; "Block already on to-be-freed list"  *)
(* leaves inside_mb_free_metadata set.                                       *)
FreeMetadata ==
  /\ freeing # "none" /\ freeing' = "none"
  /\ \/ use[freeing] = "used" /\ Hold(freeing) /\ inside' = FALSE
     \/ use[freeing] = "held" /\ UNCHANGED <<use, freed, atOnce, priv, timeVars, inside>>
  /\ UNCHANGED <<commitVars, list, pc, walkVars>>

Allocate(b) ==
  /\ Working /\ use[b] = "free"
  /\ use' = [use EXCEPT ![b] = "used"]
  /\ UNCHANGED <<freed, atOnce, freeVars, commitVars, priv, list, timeVars, pc, walkVars>>

-----------------------------------------------------------------------------
(* The commit *)

CommitSwitch ==
  /\ phase = "none" /\ running < MaxTid /\ freeing = "none" /\ priv.running # <<>>
  /\ phase' = "record" /\ running' = running + 1
  /\ priv' = [running |-> <<>>, committing |-> priv.running]
  /\ UNCHANGED <<blockVars, aborted, written, durable, list, timeVars, pc, walkVars>>

(* A write that fails aborts the journal, which then writes no more records; *)
(* the callback follows all the same.                                        *)
CommitRecord ==
  /\ phase = "record" /\ phase' = "callback"
  /\ \/ ~aborted /\ written' = written \cup {running - 1} /\ UNCHANGED aborted
     \/ aborted' = TRUE /\ UNCHANGED written
  /\ UNCHANGED <<blockVars, running, durable, priv, list, timeVars, pc, walkVars>>

(* wake_up_process: a thread that has not yet set its state does not notice. *)
Woken == [pc EXCEPT !["thread"] = IF @ \in {"sleepy", "asleep"} THEN "check" ELSE @]

(* Deviation: the delay is counted from when the block was freed. *)
StampAtFree(b) == UNCHANGED timeVars

(* d_ftime = jiffies *)
Stamp(b) ==
  /\ d_ftime' = [d_ftime EXCEPT ![b] = written]
  /\ aged' = aged \ {b}

(* release_blocks_on_commit.  The thread is woken if dr_added says so, which *)
(* also counts down for entries that stay on the list.                       *)
ReleaseOnCommit ==
  /\ phase = "callback"
  /\ IF priv.committing = <<>>
     THEN phase' = "none" /\ UNCHANGED <<priv, list, timeVars, pc>>
     ELSE /\ list' = Append(list, Head(priv.committing))
          /\ Stamp(Head(priv.committing).b)
          /\ priv' = [priv EXCEPT !.committing = Tail(@)]
          /\ pc' \in {pc, Woken}
          /\ UNCHANGED phase
  /\ UNCHANGED <<blockVars, running, aborted, written, durable, walkVars>>

CommitStep == CommitSwitch \/ CommitRecord \/ ReleaseOnCommit

Settle(t) ==
  /\ t \in written \ durable
  /\ durable' = durable \cup {t}
  /\ UNCHANGED <<blockVars, running, phase, aborted, written, priv, list, timeVars, pc, walkVars>>

(* EXT4BF_DELAY_TIMEOUT has passed since d_ftime. *)
Age(b) ==
  /\ use[b] = "held" /\ b \notin aged /\ d_ftime[b] \subseteq durable
  /\ aged' = aged \cup {b}
  /\ UNCHANGED <<blockVars, commitVars, priv, list, d_ftime, pc, walkVars>>

-----------------------------------------------------------------------------
(* release_blocks_after_delay, by walker w *)

First(s) == IF s = <<>> THEN End ELSE s[1]

Places(s, e) == {i \in DOMAIN s : s[i] = e}

Following(s, e) ==
  IF Places(s, e) \in {{}, {Len(s)}} THEN End ELSE s[Min(Places(s, e)) + 1]

(* list_del *)
Unlink(s, e) == IF Places(s, e) = {} THEN s ELSE RemoveAt(s, Min(Places(s, e)))

Goto(w, where) == pc' = [pc EXCEPT ![w] = where]

Return(w) == IF w = "thread" THEN "done" ELSE "stop"

(* With dr_lock held: the walk of s is at e, and remembers what follows. *)
Look(w, s, e) ==
  /\ cur' = [cur EXCEPT ![w] = e]
  /\ next' = [next EXCEPT ![w] = IF e = End THEN End ELSE Following(s, e)]
  /\ Goto(w, IF e = End THEN Return(w) ELSE "item")

(* Deviation: the count goes on from the last walk. *)
EnterCounting(w) ==
  /\ IF inside THEN Goto(w, Return(w)) /\ UNCHANGED <<cur, next>>
     ELSE Look(w, list, First(list))
  /\ UNCHANGED <<blockVars, commitVars, priv, list, timeVars, stale, dr_count>>

Enter(w) ==
  /\ dr_count' = [dr_count EXCEPT ![w] = 0]
  /\ IF inside THEN Goto(w, Return(w)) /\ UNCHANGED <<cur, next>>
     ELSE Look(w, list, First(list))
  /\ UNCHANGED <<blockVars, commitVars, priv, list, timeVars, stale>>

(* Deviation: the end of the batch is noticed after the block was given back. *)
ItemBatchLate(w) ==
  /\ pc[w] = "item"
  /\ dr_count' = [dr_count EXCEPT ![w] = @ + 1]
  /\ LET release == w = "thread" /\ cur[w].b \in aged IN
     /\ use' = IF release THEN [use EXCEPT ![cur[w].b] = "free"] ELSE use
     /\ Goto(w, IF w = "umount" \/ (release /\ dr_count'[w] < Batch) THEN "delete" ELSE Return(w))
  /\ UNCHANGED <<freed, atOnce, freeVars, commitVars, priv, list, timeVars, cur, next, should_stop, stale>>

(* With dr_lock dropped: unmount drops the entry; the thread stops at the     *)
(* end of its batch or at an entry that is too young, or else the block goes  *)
(* to the buddy, under the lock of its group.                                 *)
Item(w) ==
  /\ pc[w] = "item" /\ ~stale
  /\ dr_count' = [dr_count EXCEPT ![w] = @ + 1]
  /\ \/ /\ w = "umount"
        /\ Goto(w, "delete")
        /\ UNCHANGED use
     \/ /\ w = "thread" /\ (dr_count'[w] >= Batch \/ cur[w].b \notin aged)
        /\ Goto(w, Return(w))
        /\ UNCHANGED use
     \/ /\ w = "thread" /\ dr_count'[w] < Batch /\ cur[w].b \in aged /\ cur[w].b # freeing
        /\ use' = [use EXCEPT ![cur[w].b] = "free"]
        /\ Goto(w, "delete")
  /\ stale' = (stale \/ ~Contains(list, cur[w]) \/ (use' # use /\ pc["umount"] # "mounted"))
  /\ UNCHANGED <<freed, atOnce, freeVars, commitVars, priv, list, timeVars, cur, next, should_stop>>

(* The entry leaves the list and is freed; under the same lock the walk goes on. *)
Delete(w) ==
  /\ pc[w] = "delete" /\ ~stale
  /\ list' = Unlink(list, cur[w])
  /\ stale' = (stale \/ ~Contains(list, cur[w]) \/ (next[w] # End /\ ~Contains(list, next[w])))
  /\ Look(w, list', next[w])
  /\ UNCHANGED <<blockVars, commitVars, priv, timeVars, dr_count, should_stop>>

-----------------------------------------------------------------------------
(* The thread, the timer and unmount *)

(* process_delay_reuse_items *)
ThreadLoop ==
  /\ pc["thread"] = "check" /\ ~should_stop
  /\ Enter("thread")
  /\ UNCHANGED should_stop

ThreadExit ==
  /\ pc["thread"] = "check" /\ should_stop
  /\ Goto("thread", "exited")
  /\ UNCHANGED <<blockVars, commitVars, priv, list, timeVars, walkVars>>

(* set_current_state(TASK_INTERRUPTIBLE), then schedule. *)
ThreadSleep ==
  /\ \/ pc["thread"] = "done" /\ Goto("thread", "sleepy")
     \/ pc["thread"] = "sleepy" /\ Goto("thread", "asleep")
  /\ UNCHANGED <<blockVars, commitVars, priv, list, timeVars, walkVars>>

ThreadStep == ThreadLoop \/ ThreadExit \/ ThreadSleep \/ Item("thread") \/ Delete("thread")

(* Deviation: the timer is deleted before the thread is stopped. *)
PeriodicWakeupDeleted ==
  /\ pc["umount"] = "mounted" /\ pc["thread"] \in {"sleepy", "asleep"}
  /\ pc' = Woken
  /\ UNCHANGED <<blockVars, commitVars, priv, list, timeVars, walkVars>>

(* Deviation: the timer goes off once and is not set again. *)
PeriodicWakeupOnce ==
  /\ written = {} /\ pc["thread"] \in {"sleepy", "asleep"}
  /\ pc' = Woken
  /\ UNCHANGED <<blockVars, commitVars, priv, list, timeVars, walkVars>>

(* periodic_wakeup_delay_task *)
PeriodicWakeup ==
  /\ pc["umount"] # "gone" /\ pc["thread"] \in {"sleepy", "asleep"}
  /\ pc' = Woken
  /\ UNCHANGED <<blockVars, commitVars, priv, list, timeVars, walkVars>>

(* ext4bf_put_super, once the journal is committed and closed: the allocator *)
(* is torn down and the list is walked.                                      *)
PutSuper ==
  /\ pc["umount"] = "mounted" /\ freeing = "none" /\ phase = "none" /\ priv.running = <<>>
  /\ Enter("umount")
  /\ UNCHANGED should_stop

(* kthread_stop and del_timer. *)
StopThread ==
  /\ \/ /\ pc["umount"] = "stop"
        /\ should_stop' = TRUE
        /\ pc' = [Woken EXCEPT !["umount"] = "join"]
     \/ /\ pc["umount"] = "join" /\ pc["thread"] = "exited"
        /\ Goto("umount", "gone")
        /\ UNCHANGED should_stop
  /\ UNCHANGED <<blockVars, commitVars, priv, list, timeVars, cur, next, dr_count, stale>>

UnmountStep == StopThread \/ Item("umount") \/ Delete("umount")

-----------------------------------------------------------------------------
Next ==
  \/ \E b \in Blocks : FreeBlocks(b) \/ FreeAtOnce(b) \/ Allocate(b) \/ Age(b)
  \/ FreeMetadata \/ CommitStep \/ ThreadStep \/ PeriodicWakeup \/ PutSuper \/ UnmountStep
  \/ \E t \in Tids : Settle(t)

Spec == Init /\ [][Next]_vars

(* A process does not stop inside the allocator, a transaction is committed, *)
(* threads are scheduled, the timer goes off, the disk destages and time     *)
(* passes.                                                                   *)
FairSpec ==
  /\ Spec
  /\ WF_vars(FreeMetadata) /\ WF_vars(CommitStep)
  /\ WF_vars(ThreadStep) /\ WF_vars(PeriodicWakeup) /\ WF_vars(UnmountStep)
  /\ \A t \in Tids : WF_vars(Settle(t))
  /\ \A b \in Blocks : WF_vars(Age(b))

-----------------------------------------------------------------------------
(* Properties *)

Entry == [b : Blocks, t : Tids]

(* Every variable has its type. *)
TypeOK ==
  /\ use \in [Blocks -> {"used", "held", "free"}] /\ freed \in [Blocks -> 0 .. MaxTid]
  /\ atOnce \subseteq Blocks /\ freeing \in Blocks \cup {"none"}
  /\ running \in Tids /\ phase \in {"none", "record", "callback"}
  /\ priv.running \in Seq(Entry) /\ priv.committing \in Seq(Entry) /\ list \in Seq(Entry)
  /\ written \subseteq Tids /\ durable \subseteq written
  /\ d_ftime \in [Blocks -> SUBSET Tids] /\ aged \subseteq Blocks
  /\ pc["thread"] \in {"check", "item", "delete", "done", "sleepy", "asleep", "exited"}
  /\ pc["umount"] \in {"mounted", "item", "delete", "stop", "join", "gone"}
  /\ cur \in [Walkers -> Entry \cup {End}] /\ next \in [Walkers -> Entry \cup {End}]
  /\ dr_count["thread"] \in 0 .. Batch /\ dr_count["umount"] \in Nat
  /\ {inside, aborted, should_stop, stale} \subseteq BOOLEAN

(* The commit that frees a block has failed: nothing is allocated any more. *)
Lost(t) == aborted /\ t \notin written

(* A block that can be allocated again was freed by a transaction that, with *)
(* all earlier ones, is on the platter: a crash cannot give the block back   *)
(* to its old owner.  Not so for a block freed in writeback mode, which is   *)
(* free before any commit, and after a failed commit, whose callback is run. *)
ReleasedIsDurable ==
  \A b \in Blocks : use[b] = "free" =>
    1 .. freed[b] \subseteq durable \/ b \in atOnce \/ Lost(freed[b])

(* While mounted, every held block is on exactly one list, once, and every   *)
(* entry stands for a held block until the thread that gave the block back   *)
(* drops the entry: no block is lost, and none is given back a second time,  *)
(* under its next owner.                                                     *)
HeldOnce ==
  LET all == priv.running \o priv.committing \o list IN
  pc["umount"] = "mounted" =>
    /\ IsInjective(all)
    /\ \A b \in Blocks : use[b] = "held" =>
         \E i \in DOMAIN all : all[i] = [b |-> b, t |-> freed[b]]
    /\ \A i \in DOMAIN all :
         \/ use[all[i].b] = "held" /\ freed[all[i].b] = all[i].t
         \/ pc["thread"] = "delete" /\ cur["thread"] = all[i]

(* The thread gives a block back only while there is a buddy to take it:     *)
(* ext4bf_put_super tears down the allocator before it stops the thread.     *)
BuddyExists ==
  [][\A b \in Blocks : use[b] = "held" /\ use'[b] = "free" => pc["umount"] = "mounted"]_vars

(* A freed block is given back to the allocator, although wake-ups of the    *)
(* thread are lost, walks are cut short, and a walk that meets a process in  *)
(* ext4bf_mb_free_metadata is given up, unless an error leaves the mark of   *)
(* that process set for good.                                                *)
BlocksReturn ==
  []<>~inside =>
    \A b \in Blocks : use[b] = "held" ~> use[b] = "free" \/ pc["umount"] # "mounted"

(* Unmount ends, also when the thread does not notice that it is stopped,    *)
(* unless the two walked the list together and one met what was freed.       *)
UnmountEnds == pc["umount"] = "stop" ~> pc["umount"] = "gone" \/ stale
=============================================================================
