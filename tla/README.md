# Verification of the OptFS journal

OptFS is a Linux 3.2 kernel whose file system ext4bf and journal jbdbf split
`fsync` in two: **osync** orders (a crash recovers a prefix of the transactions,
nothing is flushed) and **dsync** is durable (the disk cache is flushed).  This
directory holds TLA+ models of the parts that make these two promises, the TLC
configurations that check them, and TLAPS proofs.

The modules follow `src/fs/ext4bf/` (journal: `transaction.c`, `journal.c`,
`commit.c`, `checkpoint.c`, `recovery.c`, `revoke.c`, all merged into the file
system), `src/fs/ext4bf/fsync.c`, `super.c`, `mballoc.c`, and the writeback
change in `src/fs/buffer.c`.  `PROJECT.json` gives for every definition the
lines it models.

## 1. Inventory

| Component | State | Operations | Talks to | What makes it correct |
|---|---|---|---|---|
| Handles and the running transaction (`transaction.c`) | `j_running_transaction`, `t_state`, `t_updates`, `t_outstanding_credits`, `h_buffer_credits` | start, extend, restart, stop, lock/unlock updates | requests commits; sleeps on queues the commit wakes | handles only on the running transaction; credits bounded; nobody sleeps forever |
| Commit requests (`journal.c`, `fsync.c`, `super.c`) | `j_commit_request`, `j_commit_sequence`, `t_durable_commit`, `i_sync_tid` | osync, dsync (two code paths, by data mode), sync_fs, force_commit_nested, log_start_commit, timer | kjournald2 | no request lost; dsync not weakened by others; waiting ends |
| Commit (`commit.c`) | `j_committing_transaction`, log writes, `durable_commit`, forget list | one run per transaction, 8 phases | disk; hands buffers to the checkpoint list | commit records in order; success only after the write; durable for dsync |
| Checkpoint and tail (`checkpoint.c`) | `j_checkpoint_transactions`, io list, batch, `j_tail_sequence`, superblock | wait_for_space, do_checkpoint, cleanup tail, clean list | disk; commit; flush | the tail never passes a transaction whose blocks are not safe elsewhere |
| Delayed writeback (`commit.c`, `fs/buffer.c`) | `BH_DelayedWrite`, `b_checkpoint_time` | mark at forget, skip in VM writeback, lift in checkpoint | VM, disk | no in-place write reaches the platter before its log record |
| `jbdbf_journal_flush` (`journal.c`) | its own loop and error | commit, checkpoint, tail, superblock | all of the above | ends; leaves an empty log; never loses data |
| Delayed block reuse (`mballoc.c`, `super.c`) | `t_private_list`, `ext4bf_delayed_reuse_list`, `d_ftime` | release on commit, release after delay, unmount | commit callback; kernel thread | a freed block is not reused while the old owner may come back after a crash |
| Buffers (`transaction.c`) | journal heads: lists, `b_transaction`, `b_next_transaction`, frozen data | get_*_access, dirty_metadata, forget, invalidate | commit | the log receives what the transaction contained when it closed |
| Revoke (`revoke.c`) | two tables, `Revoked`/`RevokeValid` bits | revoke, cancel, switch, write | commit, recovery | a revoked block is not replayed |
| Recovery (`recovery.c`) | superblock, log | scan, revoke, replay passes; data checksums | mount | replays exactly the valid prefix |
| Tids (`jbdbf.h`) | 32-bit ids | tid_gt, tid_geq | everything | comparison right within half the range |

Hard behaviours: handles, callers and kjournald2 interleave around
`j_state_lock`; flags are read before and used after a lock; commits are
requested after the lock under which the need was computed is dropped; the
checkpoint drops `j_list_lock` between batching and writing; the disk caches
completed writes and destages in any order; time stands in for a flush; writes
fail; a crash may come between any two of these.  `PROJECT.json`, "hazards",
lists them line by line.

## 2. Modules

### JournalCommit

`JournalCommit.tla` models handles, requests, kjournald2 and the phases of a
commit.  One action is one critical section of `j_state_lock` or one access to
an atomic counter; so `NeedToStart` is evaluated in one action and
`RequestCommit` follows in another, and the commit copies `t_durable_commit`
(`CommitBegin`) before it locks the transaction (`CommitLock`).  `pc` says
where a process is (`start_this_handle`, holding a handle, asleep on a full
transaction, in `jbdbf_journal_stop`, in `jbdbf_log_wait_commit`), `kj` where
kjournald2 is.  The log blocks and commit record of a transaction are one
write, which enters `written` when the host sees it completed and `durable`
when it is destaged or flushed.  With asynchronous commit the record is submitted
before the log blocks are waited for (`CommitSubmit`), and an error of the
submission aborts the journal there.

The account of credits is not under one lock.  `start_this_handle` adds its credits
first (`StartReserve`; pc "reserved", or "excess" when the sum is too large) and
joins, or takes them back, in a later step (`StartJoin`, `StartNoSpace`,
`StartFull`); `jbdbf_journal_extend` looks at the account under `t_handle_lock`,
which starting handles do not take, and adds in a later step (`ExtendCheck`,
`JournalExtend`, `ExtendDenied`).  Both hold `j_state_lock` for reading in between,
which keeps its writers out (`NoReaders`).  A handle reserves one credit at a time.
Whether the log has room is a choice of the model (`Scarce`): what a handle waits
for then is the subject of Checkpoint.

`jbdbf_journal_flush` enters as a caller that locks out updates
(`LockUpdates`, `LockCheck`, `LockSleep`, `LockBarrier`), asks for a dsync
commit, waits and lets updates in again; `LockCheck` reads `t_updates` in a
step of its own, before the caller is on the wait queue, as the code does.
A handle that finds no transaction leaves the lock to allocate one, and a
commit whose record could not be written goes through its flush and then
aborts the journal (`CommitFailed`).

Left out: the wait for log space (in Checkpoint), the buffers themselves (in
Buffers), and that the commit takes from the account of the committing transaction
the credits of the blocks it logs (`commit.c:696`), which nobody reads any more.
Tids are not 32 bits wide.

### OrderedJournal

`OrderedJournal.tla` is what the journal promises, in five variables: commits
written, commits a crash would keep, what callers of osync and of dsync have
been told, and whether an error has stopped the journal.  Its actions write the
next commit, let a crash keep more, acknowledge, and stop.  `JournalCommit`
implements it (`KeepsPromises`): `Kept` maps the platter to the prefix that
recovery would find, `Acked` the acknowledgements.  The refinement is checked
by `JournalCommit_live` and proved in `JournalCommit_proofs.tla`.

### Buffers

`Buffers.tla` models journal heads.  `buf[b]` is the record of the journal head
and buffer head of a block (`b_transaction`, `b_next_transaction`, `b_jlist`,
`b_frozen_data`, `b_modified`, `b_cp_transaction`, the dirty, jbddirty and freed
bits, and the contents as a version number).  `file`, `unfile`, `refile` and
`temp_unlink` are functions on that record, as in the code; a `J_ASSERT` that
fails is remembered in it.  One action is one hold of the state lock of the
buffer, so `do_get_write_access` is eleven: what it finds (`AccessOwned`,
`AccessFrozen`, `AccessForget`, `AccessCopy`, `AccessFile`, `AccessAborted`), the
unlock to allocate the copy after which everything is looked at again
(`AccessAlloc`, `AllocFrozen`), and the wait for a shadowed buffer with its
separate steps on the wait queue (`AccessShadow`, `ShadowPrepare`, `ShadowCheck`).
The commit goes through the same buffers: reserved list and switch, data in
place (`IssueData`), log (`LogBuffer`, with or without an escaped copy), log I/O
that reads the page at any time until it completes (`LogIO`), refile of the data,
end of the log I/O with its wake-up, commit record, forget list.

A file block is truncated in three steps, as the file system does it: the inode
is shrunk in a handle, `jbdbf_journal_invalidatepage` runs outside any
transaction, the block is freed in a later handle.  Writeback and the tail are
one step each; when in-place writes reach the platter is the subject of
Checkpoint.  An in-place write that fails (`Written`) leaves a clean buffer marked
with the error (`eio`), which stays on the checkpoint list until it is written
again or the checkpoint takes it off and aborts the journal (`FailCheckpoint`).

Six constants say whether a case in which the code does not keep its promises
may happen (`Overtakes`, `Retracts`, `Deletes`, `Interferes`, `Drops`; see Runs)
and whether allocations and writes fail and the journal aborts (`MayFail`).
`Drops` is that an error is forgotten: memory reclaim releases the buffer of a
failed write without a look at the error (`transaction.c:1822`), and the result of
submitting the asynchronous commit record overwrites that of the data
(`commit.c:850`).  Without it a failed write of data aborts the journal before the
record, which is `Abort` here.

Left out: that a failed write also clears the uptodate bit, so that a later read
may bring the old contents back into the cache; and the step between the removal
from the checkpoint list and the abort, which is in Checkpoint.

### DelayedReuse

`DelayedReuse.tla` models the blocks between being freed and being free: the
private list of the transaction that frees them, the hand-over to the reuse list
by the commit callback, and the walk of that list by the reuse thread and by
unmount.  A walk drops `dr_lock` for each entry (`Item`) and takes it again to
delete it (`Delete`); `cur` and `next` are what `list_for_each_safe` remembers in
between.  The thread sets its state and sleeps in two steps, so that a wake-up
by the commit, the timer or `kthread_stop` can come too early to have an effect.
Time is represented by its use: once `EXT4BF_DELAY_TIMEOUT` has passed since
`d_ftime`, the disk has destaged every commit that was written by then (`Age`).

`ext4bf_free_blocks` has two branches: a block of a data=writeback file goes to the
buddy at once (`FreeAtOnce`, remembered in `atOnce`), all others are held
(`FreeBlocks`, `FreeMetadata`).  On a damaged file system, where two files own a
block, `FreeMetadata` finds the block held already and returns early, with
`inside_mb_free_metadata` (`inside`) left set.  A commit may fail, which aborts the
journal; its callback hands the blocks over all the same.  Unmount begins at any
time and walks the list beside the thread.  A walk that goes on to an entry the
other has freed, or gives a block to an allocator that unmount has torn down, uses
freed memory; `stale` is set then and the two walks make no further step in the list,
since nothing can be said of them.  Not followed: a block that is held and that a
second, data=writeback owner frees at once.

### Revoke

`Revoke.tla` models the running side of revoke records: what a block is used for,
the buffer of the block device's cache with its two revoke bits, and the revoke
tables of the running and the committing transaction.  `CancelRevoke` is the
cancel on that buffer, `CancelAlias` the one on the buffer of a file's page.
Freeing, reuse, checkpoint and recovery are one step or one definition each; they
stand for what DelayedReuse, Checkpoint and Recovery show.  Memory reclaim
(`Evict`) takes a clean buffer and its bits away at any time.  Every freed block is
held until its freeing is durable: the blocks of data=writeback files, which are
free at once (`mballoc.c:4688`), are left out here.  Such data is not journalled, so
the exception concerns no copy in the log; metadata is held in every mode.

### Checkpoint

`Checkpoint.tla` models what happens to a transaction's blocks from the
modification to the release of log space, with the disk cache and the clock.
A block's contents are the tid that last changed it; a transaction occupies one
slot of a log of `load.slots`; the cache holds, for log records, blocks in place
and the journal superblock, the time at which they were written (`logTime`,
`homeTime`, `sbTime`; `None` when not cached).  `DestageLog`, `DestageHome`,
`DestageSuper` move one to the platter in any order; `TearLog` destages part of
a log write, which makes the slot unreadable; `Tick` does not let time pass the
moment a cached write must be destaged, which is the assumption of
`src/README.md` on `DISK_DELAY`; it is not larger than `INTERVAL`
(`JBDBF_CHECKPOINT_INTERVAL`).  `Recovered` is what replaying the platter's log
from the platter's superblock gives: there is no crash action, because a crash
is a question about the platter that every state answers.

The commit is four kinds of step (switch, log, forget one buffer, finish); the
checkpoint is one step per buffer in each of its three loops, and a step for
the superblock after the step that moves the tail, because the lock is dropped
in between.  `k_pc` is the holder of `j_checkpoint_mutex`, `f_pc` the caller of
`jbdbf_journal_flush`, which takes no mutex for its own tail cleanup.
"busy" callers are handles that find the log full while other handles still
change blocks in the running transaction; "space" callers find nothing running.

`load` is the workload of a behaviour (how many transactions, how long, how many
slots, which kinds of commit and of caller, writeback, failures): one run covers
several.

Writeback by the VM is two steps, because `__block_write_full_page` looks at the
delay of a buffer (`VmTest`, which puts it into `w_ready`) before it locks the buffer
and takes its dirty bit (`VmWrite`), and the commit shares no lock with it: a commit
in between can file the buffer dirty with a new delay.  `overtaken` remembers that
this has happened.  Every buffer of a dirty page is visited, so a clean one can be in
`w_ready` as well (`PageDirty`).  Memory reclaim (`TryToFree`) takes a clean buffer off
the checkpoint list whatever the result of its write was; `dropped` remembers that
the write had failed.

Left out: `jbdbf_journal_destroy` (the same loop as the flush); the shrinker
(`CommitStart` releases any set of freeable buffers, as the shrinker would);
frozen copies (the log record of a transaction is what it contained); the
checksum that recovery would need to detect a torn transaction (assumed here;
what the code has is in Recovery).

A handle reserves its log space in one step (`StartHandle`, which needs `Room`)
and starts the transaction in another, because `start_this_handle` drops the
lock in between; the flush remembers the transaction it asked for (`f_tid`).

### Recovery

`Recovery.tla` has two halves.  Before the crash, `Commit` adds a transaction
to the log, with one kind of tag per block: "meta" and "over" go to the log,
"new" is checksummed and written in place, "free" is revoked (unless mounted
data=journal).  What may be done to a block depends on its owner, and a freed
block is allocated again only when the transaction that freed it is durable.
`Settle` makes transactions durable; `Crash` chooses what else is on the
platter.  After the crash one step is one log block in one of the passes of
`do_one_pass`: `ScanRevoke`, `ScanDescriptor` / `SkipDescriptor` /
`ReplayDescriptor`, `ScanCommit` / `PassCommit`, and `PassDone` at the end of a
pass.  `part` is the kind of the block to be read, "beyond" when the walk has
lost the transaction.  `dc` is the mismatch table, `revokes` the revoke table,
`mem` the buffer cache that `WriteBack` and `Finish` write out.  Reads fail
(`ReadFails`, `calc_chksums_fails`, the failing disjuncts of the descriptor
actions), and `Restart` interrupts or repeats recovery.

Contents are a tid or 0 for a block of zeroes: `dzat_checksum`, which the build
uses (`DZAT` in `jbdbf.h`), only tells these apart, and keeps no running value
over the blocks of a transaction.  `opt` is the mount and the workload; one run
covers several (the record also bounds the mismatch table, the transactions,
failing reads and restarts).

Left out: the tail (the log starts at tid 1), several descriptors in one
transaction, wrap-around, the memory errors of the tables.

## 3. Runs

Passing runs:

| Run | Instance | Shows |
|---|---|---|
| `JournalCommit_mixed` | 2 processes, every kind of call except `dsync` (made in `JournalCommit_live`), timer, failing writes, a log that may lack space, 2 tids | `CommitHasTransaction`, `HandlesOnRunning`, `Quiesced`, `CreditsBounded`, `RequestNotLost`, `WrittenInOrder`, `AckedIsWritten`, `CommitsOneByOne` |
| `JournalCommit_live` | 2 processes, transactions of one credit, failures, `JBD2_BARRIER` and async commit | `EveryCallReturns`, `DsyncDurable` with barriers, `KeepsPromises` (the refinement of OrderedJournal) |
| `Buffers_lists` | one block at a time, metadata or file, 2 processes, 3 transactions, 4 changes, failures | no assertion fails; the log holds what the closed transaction held; appended data is in place; committed contents are in place or in the log; a truncated block's buffer is not written once the block can be reused |
| `Buffers_live` | the same with 2 changes, fair | nobody sleeps forever on a shadowed buffer |
| `Checkpoint_crash` | 2 blocks, six workloads (`SafeLoads`) | write-ahead rule, tail rule in memory and on the platter, a crash keeps every dsync |
| `Checkpoint_live` | fair flush | `journal_flush` ends |
| `DelayedReuse` | 2 blocks, 2 commits that may fail, both data modes, unmount at any time, fair | a held block returns only when its freeing is durable, or lost with a failed commit; while mounted it returns exactly once, and always; unmount ends |
| `Revoke` | 2 blocks, 3 commits, 4 changes or frees, data not journalled by the mount | replay is right for every block whose freeing reached the revoke code; no legal revoke is refused |
| `Recovery` | 2 blocks; every workload with 2 transactions, four kinds of mount, a failing read, a mismatch table of one entry; dependable workloads with 3 transactions, or with 2 and a table of one entry, and an interruption | what is replayed is what the log and the revoke table say; never past an incomplete transaction; a prefix with everything durable where the data checksum suffices |

Violations, each the shortest way to a disagreement between the code and what
its comments or README say; "findings" quotes both sides:

| Run | What happens |
|---|---|
| `JournalCommit_downgrade` | an osync joining a dsync's transaction clears its flush request |
| `Checkpoint_superseded` | a transaction leaves the log because a later, not yet durable osync holds its blocks |
| `Revoke_reuse` | data=journal does not revoke, and old metadata is replayed over new data |

Further disagreements the models reproduce, with the change of instance that
shows each; they are not separate runs:

- `CommitFits` in `JournalCommit_mixed`: a handle starts between the look
  (`transaction.c:413`) and the addition (`transaction.c:428`) of
  `jbdbf_journal_extend`, and the transaction is larger than the commit asserts
  ("J_ASSERT (atomic_read(&commit_transaction->t_outstanding_credits) <=
  journal->j_max_transaction_buffers)", `commit.c:420`).
- `LogBeforeHome` in `Checkpoint_crash`: the VM finds the delay of a buffer over
  (`buffer.c:1697`), an osync commit files the buffer with a new one, and the VM locks
  and writes it before its record is on the platter.  `commit.c:1043` says that the
  block is tagged "so that it will not be written by the VM subsystem".
- `StoredElsewhere` in `Checkpoint_crash`: memory reclaim takes the buffer of a failed
  write off the checkpoint list (`transaction.c:1822`, which calls it "written-back"),
  the tail passes the only copy, and the journal is not aborted.
- `BuddyExists` in `DelayedReuse`: unmount tears down the allocator (`super.c:848`)
  before it stops the reuse thread (`super.c:857`), which goes on to give a block to a
  buddy that is gone ("we expect to find existing buddy because it's pinned",
  `mballoc.c:2691`).
- `DsyncDurable` without `BARRIER`: a dsync that stops its handle after the
  timer started the commit finds that the commit type has been read
  (`commit.c:389`); and outside data=journal a dsync of a transaction an osync
  has committed returns at once (`fsync.c:384`).
- A caller of `jbdbf_journal_lock_updates` that read a nonzero `t_updates` may
  go to sleep after the last `jbdbf_journal_stop` has woken the queue
  (`transaction.c:532`); nobody wakes it.
- A handle that passed the barrier check may start a transaction while
  `jbdbf_journal_flush` runs, whose last assertions then fail
  (`transaction.c:189`, `journal.c:1797`).
- `TailSafe` with VM writeback: blocks in the disk cache have left the
  checkpoint list, and the tail is recorded without a flush (`checkpoint.c:591`).
- `TailCovers` with "busy" callers: a buffer re-taken by the running transaction
  between batching and writing leaves the list unwritten (`checkpoint.c:248`);
  with a concurrent checkpoint for space, flush moves the tail between another
  checkpoint's failure and its abort (`journal.c:1782`).
- `HomeAfterLog` with "busy" callers and osync: a buffer committed again in that
  window is written in place at once (`checkpoint.c:269`).
- `DsyncSurvives` with a log that wraps: log space is reused before the
  superblock that freed it is durable (`checkpoint.c:572`).
- `RecoveredIsPrefix` with "torn": without the checksum feature, which the mount
  of `load.sh` does not ask for, a torn transaction is replayed; with it, the
  checksum sees only whether the last log block is zero.
- `RecoveredIsPrefix` with "reuse" or "zeroes": stale data that is not zero
  passes the data checksum, and a durable block rewritten as zeroes fails the
  one of an earlier owner, which drops durable transactions; the latter also
  where every transaction was flushed.
- `RecoveredIsPrefix` with a failing read: data that cannot be read is taken for
  good (`read_and_verify_checksums` returns an error that its caller ignores),
  and a log block that cannot be read for the end of the log
  (`recovery.c:678`).
- `ReplayMatchesLog` with checksums, a failing read and a repeated recovery, for
  the second reason; and, without a failing read, with "zeroes" and "torn": the
  repeated scan checks data that the first replay has overwritten and may find an
  earlier end.
- `RecoveredIsPrefix` with "over": the OVERWRITTENDATA tag of a transaction that
  is not replayed in the end takes a block off the mismatch list
  (`recovery.c:388`), and a transaction whose data is missing is kept.
- `Recoverable` with `Interferes`: a write to a journalled file block clears the
  dirty bit of its buffer (`inode.c:793`) before it asks for write access; a
  checkpoint in between takes the buffer for written, releases it, and the tail
  passes the only copy of the committed contents.
- `LoggedIsClosed`, `AssertionsHold`, `DataInPlace` and `Recoverable` with
  `Overtakes`: a transaction overwrites a block whose append the previous one is
  committing.  The write clears the dirty bit, and the commit writes its record
  without the data; or the copy made for the append is never dropped (the forget
  loop, which would, does not see a buffer of the data list) and the overwriting
  transaction logs it (`commit.c:829`).
- `DataInPlace` with `Retracts`: an append that is truncated in its own
  transaction leaves its data tag behind (`inode.c:939`), and recovery looks for
  data that nobody wrote.
- `Recoverable` with `Deletes`: a buffer changed by the running transaction while
  the previous one commits it, and then freed, is checkpointed with its new
  contents.
- After an abort, copies stay on buffers that the metadata loop of the commit
  refiles, and an assertion of `jbdbf_journal_forget` can fail.
- `ReplayAlwaysSafe` without data=journal: `ext4bf_free_blocks` skips the revoke
  when the device's cache has no buffer (`mballoc.c:4674`), although
  `ext4bf_jbdbf.c:30` says that such a block "still needs to be revoked"; the
  device's cache never has one for a block of a journalled file.
- `RevokeAlwaysAccepted`: a file's data mode is switched on while its block, once
  freed metadata, still has the revoked bit in the device's cache; freeing it is
  taken for a second revoke, which aborts the file system.
- `Recoverable` and `DataInPlace` with `Drops`, for the two ways an error is
  forgotten (`transaction.c:1822`, `commit.c:850`).
- `~stale` in DelayedReuse: unmount and the thread walk the reuse list together, and
  one goes on to an entry the other has freed (`super.c:856`, `mballoc.c:2662`).
- `BlocksReturn` without its condition: `ext4bf_mb_free_metadata` leaves
  `inside_mb_free_metadata` set when it finds the block already on its tree
  (`mballoc.c:4578`); no walk begins after that.
- `NeverPastGap` is about header blocks.  A commit block whose checksum is wrong sets
  the end of the log too, but a data mismatch in a later transaction overrides it
  (`recovery.c:914`): the scan of asynchronous commit goes on behind it.

The passing runs therefore state where the promises hold.  Checkpoint: a prefix
with every dsync as long as nothing moves the tail (`DsyncSurvives`), the
write-ahead rule and the tail rule in memory also with flushes and failures, and
the tail rule on the platter for pure dsync without writeback (`TailSafe`; the log
wraps in that workload).  The write-ahead rule and `DsyncSurvives` speak of behaviours
in which no commit has yet overtaken the VM (`~overtaken`), the tail rules of those in
which reclaim has not yet dropped the buffer of a failed write (`~dropped`);
`LogBeforeHome` and `StoredElsewhere`, the same without these conditions, are false.
DelayedReuse: two kinds of blocks are free although a crash could undo their
freeing.  Those of data=writeback files are meant to be (`mballoc.c:4682`); those of a
failed commit do no harm, since an aborted journal lets nobody allocate.  Recovery: the passes are right about the log whatever
it holds, and the result is a prefix, while no read fails and no block of zeroes
is written, on a zeroed disk on which files only grow, or when everything is
flushed and freed blocks are revoked (`Dependable`).
Buffers, Revoke and DelayedReuse: without the cases that their constants name.

**Bounds.** Two tids give a running and a committing transaction at once,
which is all the journal ever has; three in Buffers and Checkpoint add one that is
finished and on the checkpoint list, four in Checkpoint fill a log of two slots
twice.  Two processes give every pair of calls in every order; two blocks give
a transaction that is superseded in one block and not in another.  In Buffers
blocks do not interact but through the phases of the commit, so one block in play
(`MaxInPlay`) that is metadata or a file block, used or free, is enough; four
changes let three transactions hold it and one of them change it twice.
Three tids in Recovery give a block that is allocated, freed and allocated again;
with two, there is a transaction before and one behind every cut.  Four changes
and three commits in Revoke give a block that is logged, freed, reused and freed
again.  Two blocks in DelayedReuse are one more than fit in a batch of `Batch - 1`,
so a walk is cut short behind an entry it has dropped; a run with three blocks and
`Batch = 3`, without fairness, was clean too.  In JournalCommit two credits let two
handles and an extension meet at the limit.  In Checkpoint `load.time` exceeds `INTERVAL`, so delays expire; where
it is 0 the workload is about checkpoints that do not wait for time.  The clock
stops there.  Processes and blocks are symmetric; the runs with temporal
properties use no symmetry.  Deadlock is not checked: with all tids used,
everything destaged, unmounted, or recovered, the models stop.

**Fairness.** `JournalCommit!FairSpec`: strong fairness of each process inside
the journal and of kjournald2; none for new calls, for the timer or for the disk.
Weak fairness, which the scheduler gives, is not enough: whoever wants
`j_state_lock` for writing is disabled while a starting or extending handle holds it
for reading, and other processes may start handle after handle.  The assumption is
that a lock which is free again and again is got in the end; the `rwlock_t` of this
kernel does not queue its writers and leaves that to the hardware.  The property excludes processes that wait
for a tid beyond `MaxTid`; its run has no caller that locks out updates (see
above).  `Checkpoint!FairSpec`: weak fairness of the journal
thread, of the checkpoint, of the flush, of the disk and of time; the flush
polls until the checkpoint time of the oldest transaction, so time has to pass,
and time passes only if the disk keeps its promise.  `FlushEnds` excludes
transactions whose checkpoint time lies beyond the end of the clock.
`Buffers!FairSpec`: weak fairness of a commit that has begun, of its I/O, and of
each process inside `do_get_write_access`; none for starting a commit or a
handle.  `DelayedReuse!FairSpec`: weak fairness of the process inside the
allocator, of commits (the commit timer), of the thread, of its timer, of
unmount once begun, of the disk and of time; none for freeing or allocating.
`BlocksReturn` is stated for behaviours in which `inside_mb_free_metadata` is clear
again and again, `UnmountEnds` up to a walk that uses freed memory.

Each property of a passing run has a mutant: a *deviation*, defined next to the
definition it replaces, that a plausible bug would produce and that TLC
refutes.

## 4. Proofs

For every module the theorem `Spec => []Inv` rests on an inductive invariant that
was checked with TLC on small instances before it was proved.  The only
assumptions are the modules' `ConstantsAssumption`s, which TLC evaluates in every
run.  A proofs module has its invariants first, with their reasons, then the
lemmas about operators, one lemma per part of the invariant and group of actions,
and the theorems.

### JournalCommit

`JournalCommit_proofs.tla` proves, for every set of processes, every bound and
every choice of the flags, that `IInv` is inductive, and from it
`TypeCorrect`, `CommitFindsTransaction`, `HandlesStayOnRunning`,
`UpdatesLockedOut`, `NoRequestLost`, `CommitsWrittenInOrder`, `AcknowledgedWritten`,
`CommitSequenceSteps`, `CreditsStayBounded`, and `DsyncWithBarriers` (from
`BARRIER`).

None of these properties is inductive alone.  `IInv` adds:
- `SequenceInv`: committed, committing, running and next tid are consecutive;
  without it "the committing transaction" and "the last committed tid" are
  unrelated and neither order nor the action property follows;
- `KjInv`: the place of kjournald2 determines whether something is committing
  and what was requested.  Its last conjunct says that the latest request is
  for the running, the committing or the last committed transaction: that a
  stale request is dropped is what keeps kjournald2 from finding nothing to
  commit;
- `ProcInv`: a handle is on the running transaction, a synchronous handle that
  stopped has its request recorded, and so has everybody who waits for the
  running transaction;
- `BarrierInv`: while a caller has updates locked out and the handles drained, no
  handle is open, and one caller at a time holds `j_barrier`;
- `DiskInv`: written transactions are the committed ones, and without an abort
  all of them; the acknowledged ones are among them; with barriers a written
  one is durable except between the commit record and the flush of an
  asynchronous commit.

Each action has a lemma (`<Action>IInv`) and the theorem `Inductive` combines
them.

`CreditsStayBounded` needs a second invariant, `CreditInv`, about the account of a
transaction less what is about to be taken back (`Booked`).  It is at least the number
of handles that hold a credit or have reserved one, so that it never becomes negative;
it exceeds the limit by at most one, and by nothing while an extension is between its
look and its addition.  That one is all follows from `t_handle_lock`: only one extension
is under way, and a handle that starts meanwhile and finds the sum too large is in
"excess" and does not count.  The commit asserts that the account does not exceed the
limit at all (`CommitFits`), which is false.  The handles with a credit
are finitely many because each joined in one step, so `Proc` may be any set.

The last part of the module proves `ImplementsOrderedJournal`: every behaviour
of JournalCommit, for every instance, is one of OrderedJournal under the mapping
above.  `PromisesHold` derives the facts about the mapped state from `IInv`;
`DurableWritten`, that nothing is durable that was not written, is a second
invariant; each action that touches the disk or an acknowledgement has a lemma
(`RecordMaps`, `FlushMaps`, `WaitMaps`, `PhaseMaps`), and all others stutter
(`StutterMaps`).

`Extrema.tla` has what `Max` and `Min` of FiniteSetsExt are on bounded sets of
numbers; the sequence lemmas of `DelayedReuse_proofs` (a list without repetitions
under `Append`, `Tail` and `Unlink`) are next to their use.

### Buffers

`Buffers_proofs.tla` proves, for any blocks, processes, transactions and changes:

| Theorem | Holds for | States |
|---|---|---|
| `TypeCorrect` | all | `TypeOK` |
| `AssertionsNeverFail` | no block is written again while its append commits (`~Overtakes`) | `AssertionsHold` |
| `LogIsWhatWasClosed` | the same | `LoggedIsClosed` |
| `TruncatedStaysClean` | the same | `TruncatedIsClean` |

With `Overtakes`, `AssertionsHold` and `LoggedIsClosed` are false (section 3).
`TruncatedIsClean` is not, on the instance of `Buffers_lists`; its proof has the
restriction because it shares the invariant of the others.  `Retracts`, `Deletes`,
`Interferes`, `Drops` and `MayFail` may have any value.

`Base` has the types, the order of the running, committing and committed
transactions (`TidInv`), and that a handle is on the running transaction and works
on a block in use (`HandleInv`).  `Struct` adds, for every buffer:
- `Listed`: which lists a buffer can be on in which phase of the commit, and for
  which transactions; that the shadowed buffers are those with log I/O;
- `Bits`: who may have a frozen copy, and what the dirty and jbddirty bits say
  about the list.  This is what the assertions of file, unfile and refile test,
  and it is lost with an abort, as they are;
- `Traced`: the blocks that the running transaction changed are the ones on its
  metadata list and the ones with a next transaction, and what it may change of the
  committing one is copied or logged already: `do_get_write_access` looks again
  after it has allocated the copy;
- `Kept`: what the committing transaction has still to log is in the copy, or in
  the page if there is none, and what it has logged is what was closed.  With
  `Traced`, no change of the next transaction gets into the log;
- `Clean`: the buffer of a truncated block leaves its lists without becoming dirty,
  by the freed bit or because invalidatepage took it off;

and for the processes that one which may change a buffer owns it (`Owner`), and
that a file block is changed by one at a time (`Alone`).  An action that changes
one buffer needs a proof for that buffer only: `ListFrame` has the others,
`KeptFrame` the log of a buffer that an action does not log.

`Buffers_crash.tla` follows the contents of a block into place and into the log:

| Theorem | Holds for | States |
|---|---|---|
| `TaggedDataIsInPlace` | `~Overtakes`, no append is truncated in its own transaction (`~Retracts`), and no error of a write is forgotten (`~Drops`) | `DataInPlace` |
| `CrashIsRecoverable` | `~Overtakes`, no changed metadata is freed while the previous transaction commits it (`~Deletes`), no checkpoint meets a buffer that a write has cleaned (`~Interferes`), and no error of a write is forgotten (`~Drops`) | `Recoverable` |

Each condition is one under which TLC shows the property false when it is dropped
(section 3).  The constants a theorem does not name may have any value, there
may be any number of blocks, processes and transactions, in-place writes may fail and
an abort may come at any step.

Both theorems rest on one invariant, `Durable`, which adds to `Struct`:
- `Order`: every transaction has committed, commits or runs, and the tail is not past
  one that has still to commit;
- `Followed`, for every block, also after an abort: it is allocated, truncated and
  freed in this order (`Aged`), what is in place is not newer than its buffer
  (`Grown`), only the transaction that allocated it writes it in place as data
  (`Dated`), and the data of committed tags is in place (`Placed`);
- `Ordered`, until an abort: the data of an append is dirty, in place, or with a
  process that has cleared the dirty bit and will file the buffer again (`Tagging`);
  once it commits, it is in place for good or among the buffers still to issue
  (`Placing`); the committing transaction has not changed a block that was free
  before it (`Gone`), and one that allocates a block changes it or truncates it
  (`Allotted`).  `Gone` and `Allotted` keep the history of a block from reaching
  across its reallocation;
- `Guarded`, until an abort and outside of the known losses: a block that the
  committing transaction changed stays with it until the commit record, its closed
  contents in the buffer unless the next transaction has changed it, in which case
  they are in the log (`Closing`); a buffer that leaves without a checkpoint is of a
  truncated block (`Marked`); until the newest committed contents are in place, the
  buffer is on the checkpoint list of the transaction that wrote them, or on the way
  to it, and off the lists it holds just these contents, or the write of them has
  failed (`Pinned`);
- `Saved`, what `Recoverable` says, with the addition that makes it survive
  writeback: a buffer that may be written in place is one whose newest committed
  contents recovery would replay.  It holds after an abort too, because then no
  record is written, the tail stays, and no further buffer may be written in place.

`Begun` says of the processes that a new buffer is of the running transaction, and
that a cleared dirty bit is of a file block that no commit holds.  Each action has a
lemma (`<Action>Good`); `Frame` has the blocks that it leaves alone.  TLC checked
`Durable` on the instance of `Buffers_lists`, and on it with `Retracts`, `Deletes`
and `Interferes`.

### Checkpoint

`Checkpoint_proofs.tla` proves, for every set of blocks, every workload (any number
of transactions, slots and clock ticks) and every `DISK_DELAY <= INTERVAL`,
`INTERVAL > 0`:

| Theorem | Holds for | States |
|---|---|---|
| `TypeCorrect` | all workloads | `TypeOK` |
| `WriteAhead` | no "busy" callers, and not both "space" and "flush" (`Quiet`) | `HomeAfterLog`, until `overtaken` |
| `CrashKeepsDsync` | no callers, as `DsyncSurvives` says | `DsyncSurvives`, until `overtaken` |
| `TailRule` | `Quiet` | `TailCovers`, until `dropped` |
| `TailRuleOnPlatter` | callers for space only (`ForSpace`) | `TailSafe`, until `dropped` |

The restrictions are where the properties stop holding, not where the proof does:
section 3 says what the code does beyond them.  `TailCovers` with "space" and
"flush" in one workload: TLC finds a flush that moves the tail past a transaction
after a checkpoint for space has dropped its buffer, whose write failed, and before
that checkpoint aborts the journal.  `TailSafe` with "flush": a checkpoint that is
not for space does not flush the disk.

`AheadInv`, the invariant of the write-ahead rule, argues with time.  `TimeInv`
says of every committed transaction that its record, and those of all earlier
ones, are on the platter, or passed by the tail, or will be by its checkpoint
time, because the disk keeps no write for `INTERVAL`; `DirtyInv` that a dirty
buffer is held back that long, or its transaction is safe already; `ReadyInv` that a
buffer the VM has let pass is safe if it is dirty, which is what a commit in that window
destroys.  That needs
the order of tids and of commit records (`OrderInv`, `CommitInv`), which
transaction owns a buffer (`OwnerInv`), and that nobody takes back a buffer of a
batch: during a flush because updates are locked out (`FlushInv`), during a
checkpoint for space because the running transaction is stuck for want of space
(`BatchInv`, `Stuck`).  "busy" callers are excluded exactly for the latter.

`CrashInv` adds, while the tail stays: each log slot holds its transaction or what
the commit has yet to overwrite (`SlotInv`), nothing is in place that the log
does not cover (`WrittenInv`), and the superblock that says the log is not empty
is on the platter before anything needs it (`SuperInv`).  From it `CrashIsPrefix`
computes what recovery finds.

`TailInv` adds that contents only grow (`GrowInv`), that a buffer on a checkpoint
list is dirty, taken by a transaction, written, or marked with an error
(`ListInv`), and that what a committed transaction changed is in place or listed
for the same or a later one, unless a checkpoint has seen an error that it has
not reported yet (`CoverInv`, `Failing`).  `PlatterInv` adds that outside of a
checkpoint the platter has all in-place writes, so that the tail rule in memory
is one of the platter.

### Recovery

`Recovery_proofs.tla`: `StopsAtGap` (no recovery that reports success goes past a
transaction with a missing block, over any number of restarts and failing reads)
rests on `GapInv`: the part of the log that a pass has read, and every candidate
for its end, is `Whole`.  `ReplaysTheLog` proves `ReplayMatchesLog` for a recovery
that does not repeat an earlier one (`restarts = 0`); with a restart, a failing
read and checksums it is false (section 3).  Its invariants say that the revoke
table has the latest record of every revoke block read (`RevokeInv`), and that the
cache has the newest copy read so far that no record covers (`ReplayInv`).
`EndOfLog` bounds the end that the scan finds.

`LeavesAPrefix` proves `RecoveredIsPrefix` for any number of interruptions, and
`RepeatReplaysTheLog` proves `ReplayMatchesLog` for repeated recoveries on the
same mounts.  The invariant (`PrefixInv`) has three parts.  `LogInv`, before the
crash: a copy has the tid of its transaction, new data goes to a block freed since
its last use (`HistoryInv`), and where files only grow such a block has no other
use (`GrowsInv`).  `DiskInv`, from the crash on: what is in place of new data, and
that the durable part of the log is whole (`CrashInv`).  `WalkInv`, in recovery: a
block holds what the crash left or one of its copies, and the first when no copy
is to be replayed (`KeptInv`), which is why a repeated scan, which checks data that
an earlier replay may have overwritten, finds the same data absent (`BadDataIs`);
the scan has an entry not later than any absent data it has read, also when the
table is full (`ScanInv`, `TableNotEmpty`); so each scan ends at the one
transaction that the crash made the end (`EndRight`, `OneEnd`), and the replay has
the latest copies so far in the cache (`LatestIn`).

### Revoke

`Revoke_proofs.tla`: `ReplayIsSafe` and `FreesAccepted`.  The invariant follows one
block through the history of the transactions: what each of them has of it
(`Chronicle`), that its contents are in the log or in place (`Kept`), that it was
freed after every copy it has outgrown (`Parted`) and that the freeing left a
record (`Recorded`), and that it is not given away while a crash could bring an
earlier owner back (`Lineage`, `NotNewer`, for every `Ahead` transaction, the ones
a crash may make the last).  `LogInv` relates durable, written and tail.
`BitsInv` says that a logged block in use is not marked as revoked, which is why
no freeing is refused.

### DelayedReuse

`DelayedReuse_proofs.tla`: `ReturnsAreDurable`, also while unmount and the thread walk
the list together, and `EveryHeldBlockListed`.  The invariant says that an entry is on
one list, once (`StageInv`), that while mounted entries are those of held blocks but for
the one being dropped (`HeldInv`), that the delay of an entry counts from after its
commit record, or there will never be one (`DelayInv`), and that while mounted a walk is
always at the first entry, which is why dropping the lock does no harm (`WalkInv`).

### Model-checked only

The liveness properties (`EveryCallReturns`, `FlushEnds`, those of Buffers and
DelayedReuse): fairness is out of the prover's reach.  Every safety invariant of
a passing run is stated by a theorem.  False beyond the theorems, and so not
provable: `DsyncDurable` without barriers, `ReplayMatchesLog` after a restart on a
mount that is not dependable, the Checkpoint rules outside of the workloads above and
their unconditional forms `LogBeforeHome` and `StoredElsewhere`, `CommitFits`,
`BuddyExists`, and the rules of Buffers in the shapes that section 3 lists.

## 5. Plan

1. Recovery with log positions and a second life of the log: commit blocks that
   survive the restart of the log.
2. An abstract specification of a crash (a sequence of transactions of which a
   prefix is kept) that Checkpoint without tail movement implements.

## 6. Not modelled

Block allocation, extents, directories, inodes and the other ext4 code: clients
of the journal, represented by the handles they open, except for the write,
truncate and free paths that Buffers, Revoke and DelayedReuse take from them.
Tid arithmetic: one signed comparison each, wrong only for ids 2^31 commits
apart.  Object lifetimes: that `jbdbf_journal_commit_transaction` still uses a
transaction which a checkpoint may have freed (`commit.c:1226`) is seen by
reading, not by a model; so is a flush, which sleeps, under the spinlock
`j_list_lock` (`checkpoint.c:418`).  `write_out_dirty_blocks` and `process_writeout_items`,
which nothing starts, and `jbdbf_journal_get_undo_access`, which nothing calls.
The system call stubs in `fs/sync.c`.  The rest of the kernel tree, which is
Linux 3.2; the VM's writeback and the disk are external actors.
