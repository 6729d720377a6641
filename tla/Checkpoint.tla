----------------------------- MODULE Checkpoint -----------------------------
(***************************************************************************)
(* Checkpointing in the ext4bf journal (fs/ext4bf/checkpoint.c, the end of *)
(* commit.c, journal_flush in journal.c, the delayed writeback in          *)
(* fs/buffer.c): when a committed block may be written in place, when its  *)
(* transaction may leave the log, and what a crash finds on the platter.   *)
(*                                                                         *)
(* OptFS does not flush the disk cache at an osync commit.  It relies on   *)
(* the disk to keep no write cached for DISK_DELAY and holds back the      *)
(* in-place writes of the transaction for INTERVAL.  The disk here keeps   *)
(* every completed write in a volatile cache, destages in any order, and   *)
(* empties the cache on a flush.                                           *)
(*                                                                         *)
(* A block's contents are the tid that last changed it.  A transaction     *)
(* takes one slot of the log.  A write of a buffer is one step, because    *)
(* the buffer lock is held from its submission to its completion; the test *)
(* of the delay comes before the lock and is a step of its own.            *)
(***************************************************************************)
EXTENDS Integers, FiniteSets, FiniteSetsExt

CONSTANTS
    Block,        \* the blocks of the file system
    INTERVAL,     \* JBDBF_CHECKPOINT_INTERVAL
    DISK_DELAY,   \* the disk caches no write this long
    Workloads     \* the journals and workloads to consider

\* tids, time: how far a workload runs (bounds of the model).  slots: the
\* transactions the log has room for.  kinds: the commits asked for.  callers:
\* who checkpoints (space: the first handle of a transaction finds the log full;
\* busy: a later one does; flush: jbdbf_journal_flush, whose callers lock out all
\* updates).  writeback: the VM writes dirty buffers.  fail: in-place writes may
\* fail.
Workload ==
    [tids : Nat \ {0}, time : Nat, slots : Nat \ {0},
     kinds : SUBSET {"osync", "dsync"}, callers : SUBSET {"space", "busy", "flush"},
     writeback : BOOLEAN, fail : BOOLEAN]

ASSUME ConstantsAssumption ==
    /\ INTERVAL \in Nat \ {0} /\ DISK_DELAY \in Nat /\ DISK_DELAY <= INTERVAL
    /\ Workloads \subseteq Workload

VARIABLES
    load,             \* the journal and its workload
    now,
    running, committing, sequence,   \* tids, 0 when NULL; the next tid
    starting,         \* a handle passed the barrier and is to start a transaction
    aborted,
    mods,             \* the blocks each transaction changed
    committed,        \* transactions whose commit record was written
    c_pc, c_durable,  \* the commit: where it is, durable_commit
    forget,           \* the committing transaction's t_forget
    t_checkpoint_time,
    cpTrans,          \* j_checkpoint_transactions
    tail,             \* j_tail_sequence
    b_data, b_dirty, b_err,             \* contents, BH_Dirty, BH_Write_EIO
    b_transaction, b_next_transaction,  \* tids, 0 when NULL
    b_cp_transaction, b_io,             \* checkpoint transaction; on its io list
    b_delayed_write, b_checkpoint_time,
    w_ready,          \* buffers whose delay the VM found over, not yet locked
    k_pc, k_next,     \* the holder of j_checkpoint_mutex; what its tail cleanup goes on to
    needs_checkpoint, \* it checkpoints for space, not for a flush
    k_t, k_batch, k_err,
    f_pc, f_tid, f_err,  \* jbdbf_journal_flush: where it is, its commit, its err
    logTime, logDisk,                  \* the log: when cached, and the platter
    homeWritten, homeTime, homeDisk,   \* the blocks in place
    sb, sbTime, sbDisk,                \* the journal superblock
    logged, dsynced,  \* history: ever on the platter's log; acknowledged by dsync
    overtaken,        \* history: a commit held back a buffer of w_ready
    dropped           \* history: reclaim released a buffer that was not written

txVars == <<running, committing, sequence, starting, aborted, mods, committed>>
cVars == <<c_pc, c_durable, forget, t_checkpoint_time>>
cpVars == <<cpTrans, b_cp_transaction, b_io>>
bufVars == <<b_data, b_dirty, b_err, b_transaction, b_next_transaction, dropped>>
delayVars == <<b_delayed_write, b_checkpoint_time, w_ready, overtaken>>
kVars == <<k_pc, k_next, needs_checkpoint, k_t, k_batch, k_err>>
fVars == <<f_pc, f_tid, f_err>>
logVars == <<logTime, logDisk, logged>>
homeVars == <<homeWritten, homeTime, homeDisk>>
sbVars == <<sb, sbTime, sbDisk>>
diskVars == <<logVars, homeVars, sbVars>>
vars == <<load, now, txVars, cVars, cpVars, tail, bufVars, delayVars, kVars, fVars,
          diskVars, dsynced>>

Tid == 1..load.tids
OptTid == 0..load.tids
None == -1                     \* not cached
Time == 0..load.time
Slot(t) == t % load.slots
Slots == 0..(load.slots - 1)
Super == [seq : 1..(load.tids + 1), empty : BOOLEAN]

TypeOK ==
    /\ load \in Workloads /\ now \in Time /\ running \in OptTid /\ committing \in OptTid
    /\ sequence \in 1..(load.tids + 1) /\ starting \in BOOLEAN /\ aborted \in BOOLEAN
    /\ mods \in [Tid -> SUBSET Block] /\ committed \subseteq Tid
    /\ c_pc \in {"idle", "log", "forget"} /\ c_durable \in BOOLEAN
    /\ forget \subseteq Block
    /\ t_checkpoint_time \in [Tid -> 0..(load.time + INTERVAL)]
    /\ cpTrans \subseteq Tid /\ tail \in 1..(load.tids + 1)
    /\ b_data \in [Block -> OptTid] /\ b_dirty \in [Block -> BOOLEAN]
    /\ b_err \in [Block -> BOOLEAN]
    /\ b_transaction \in [Block -> OptTid]
    /\ b_next_transaction \in [Block -> OptTid]
    /\ b_cp_transaction \in [Block -> OptTid] /\ b_io \in [Block -> BOOLEAN]
    /\ b_delayed_write \in [Block -> BOOLEAN]
    /\ b_checkpoint_time \in [Block -> 0..(load.time + INTERVAL)] /\ w_ready \subseteq Block
    /\ k_pc \in {"idle", "tail", "super", "pick", "scan", "batch", "wait", "out"}
    /\ k_next \in {"pick", "idle"} /\ needs_checkpoint \in BOOLEAN
    /\ k_t \in OptTid /\ k_batch \subseteq Block /\ k_err \in BOOLEAN
    /\ f_pc \in {"idle", "commit", "loop", "tail", "super", "mark"}
    /\ f_tid \in OptTid /\ f_err \in BOOLEAN
    /\ logTime \in [Tid -> Time \cup {None}]
    /\ logDisk \in [Slots -> OptTid]
    /\ homeWritten \in [Block -> OptTid] /\ homeDisk \in [Block -> OptTid]
    /\ homeTime \in [Block -> Time \cup {None}]
    /\ sb \in Super /\ sbDisk \in Super /\ sbTime \in Time \cup {None}
    /\ logged \subseteq Tid /\ dsynced \subseteq Tid
    /\ overtaken \in BOOLEAN /\ dropped \in BOOLEAN

Init ==
    /\ load \in Workloads
    /\ now = 0 /\ running = 0 /\ committing = 0 /\ sequence = 1
    /\ starting = FALSE /\ aborted = FALSE
    /\ mods = [t \in Tid |-> {}] /\ committed = {}
    /\ c_pc = "idle" /\ c_durable = FALSE /\ forget = {}
    /\ t_checkpoint_time = [t \in Tid |-> 0]
    /\ cpTrans = {} /\ tail = 1
    /\ b_data = [b \in Block |-> 0] /\ b_dirty = [b \in Block |-> FALSE]
    /\ b_err = [b \in Block |-> FALSE]
    /\ b_transaction = [b \in Block |-> 0]
    /\ b_next_transaction = [b \in Block |-> 0]
    /\ b_cp_transaction = [b \in Block |-> 0] /\ b_io = [b \in Block |-> FALSE]
    /\ b_delayed_write = [b \in Block |-> FALSE]
    /\ b_checkpoint_time = [b \in Block |-> 0] /\ w_ready = {}
    /\ k_pc = "idle" /\ k_next = "idle" /\ needs_checkpoint = FALSE
    /\ k_t = 0 /\ k_batch = {} /\ k_err = FALSE
    /\ f_pc = "idle" /\ f_tid = 0 /\ f_err = FALSE
    /\ logTime = [t \in Tid |-> None] /\ logDisk = [s \in Slots |-> 0]
    /\ homeWritten = [b \in Block |-> 0] /\ homeDisk = [b \in Block |-> 0]
    /\ homeTime = [b \in Block |-> None]
    /\ sb = [seq |-> 1, empty |-> TRUE] /\ sbDisk = sb /\ sbTime = None
    /\ logged = {} /\ dsynced = {} /\ overtaken = FALSE /\ dropped = FALSE

-----------------------------------------------------------------------------
(* The disk.                                                                 *)

Cached == {t \in Tid : logTime[t] # None}

\* blkdev_issue_flush: everything in the cache reaches the platter, log writes
\* lt included.
FlushDisk(lt) ==
    LET new == {t \in Tid : lt[t] # None}
    IN  /\ logTime' = [t \in Tid |-> None]
        /\ logDisk' = [s \in Slots |->
               IF \E t \in new : Slot(t) = s
               THEN CHOOSE t \in new : Slot(t) = s ELSE logDisk[s]]
        /\ logged' = logged \cup new
        /\ homeTime' = [b \in Block |-> None] /\ homeDisk' = homeWritten
        /\ UNCHANGED homeWritten
        /\ sbTime' = None /\ sbDisk' = sb /\ UNCHANGED sb

DestageLog(t) ==
    /\ t \in Cached
    /\ logTime' = [logTime EXCEPT ![t] = None]
    /\ logDisk' = [logDisk EXCEPT ![Slot(t)] = t]
    /\ logged' = logged \cup {t}
    /\ UNCHANGED <<load, now, txVars, cVars, cpVars, tail, bufVars, delayVars, kVars, fVars,
                   homeVars, sbVars, dsynced>>

\* Some of a transaction's log blocks are destaged: whatever the slot held is
\* no longer a transaction with a valid commit record.
TearLog(t) ==
    /\ t \in Cached \/ (t = committing /\ c_pc = "log" /\ ~aborted)
    /\ logDisk[Slot(t)] \notin {0, t}
    /\ logDisk' = [logDisk EXCEPT ![Slot(t)] = 0]
    /\ UNCHANGED <<load, now, txVars, cVars, cpVars, tail, bufVars, delayVars, kVars, fVars,
                   logTime, logged, homeVars, sbVars, dsynced>>

DestageHome(b) ==
    /\ homeTime[b] # None
    /\ homeDisk' = [homeDisk EXCEPT ![b] = homeWritten[b]]
    /\ homeTime' = [homeTime EXCEPT ![b] = None]
    /\ UNCHANGED <<load, now, txVars, cVars, cpVars, tail, bufVars, delayVars, kVars, fVars,
                   logVars, homeWritten, sbVars, dsynced>>

DestageSuper ==
    /\ sbTime # None
    /\ sbDisk' = sb /\ sbTime' = None
    /\ UNCHANGED <<load, now, txVars, cVars, cpVars, tail, bufVars, delayVars, kVars, fVars,
                   logVars, homeVars, sb, dsynced>>

\* Time passes, but not past the moment by which the disk must have destaged.
Tick ==
    /\ now < load.time
    /\ \A t \in Cached : now + 1 < logTime[t] + DISK_DELAY
    /\ \A b \in Block : homeTime[b] # None => now + 1 < homeTime[b] + DISK_DELAY
    /\ sbTime # None => now + 1 < sbTime + DISK_DELAY
    /\ now' = now + 1
    /\ UNCHANGED <<load, txVars, cVars, cpVars, tail, bufVars, delayVars, kVars, fVars,
                   diskVars, dsynced>>

\* Deviation: a superblock that says the journal is empty loses its sequence.
UpdateSuperblockZero(seq, empty) ==
    IF sb.empty /\ seq = sequence
    THEN UNCHANGED sbVars
    ELSE /\ sb' = [seq |-> IF empty THEN 0 ELSE seq, empty |-> empty]
         /\ sbTime' = now
         /\ UNCHANGED sbDisk

\* jbdbf_journal_update_superblock, which leaves a superblock that says the
\* journal is empty alone while nothing is outstanding.  Its s_start is zero
\* exactly while JBD2_FLUSHED is set.
UpdateSuperblock(seq, empty) ==
    IF sb.empty /\ seq = sequence
    THEN UNCHANGED sbVars
    ELSE /\ sb' = [seq |-> seq, empty |-> empty]
         /\ sbTime' = now
         /\ UNCHANGED sbDisk

-----------------------------------------------------------------------------
(* Transactions.                                                             *)

\* start_this_handle finds no running transaction while updates are not locked
\* out, drops the lock, and takes it again to start one.
StartHandle ==
    /\ running = 0 /\ ~aborted /\ f_pc = "idle" /\ ~starting /\ sequence <= load.tids
    /\ starting' = TRUE
    /\ UNCHANGED <<load, now, running, committing, sequence, aborted, mods, committed,
                   cVars, cpVars, tail, bufVars, delayVars, kVars, fVars, diskVars,
                   dsynced>>

StartTransaction ==
    /\ starting
    /\ running' = sequence /\ sequence' = sequence + 1 /\ starting' = FALSE
    /\ UNCHANGED <<load, now, committing, aborted, mods, committed, cVars, cpVars, tail,
                   bufVars, delayVars, kVars, fVars, diskVars, dsynced>>

\* The log has room up to transaction t.
Room(t) == t - tail < load.slots

\* A handle gets write access to a block and changes it: do_get_write_access
\* takes the buffer's dirty bit away, jbdbf_journal_dirty_metadata files it.
Modify(b) ==
    /\ running # 0 /\ ~aborted /\ f_pc = "idle" /\ b_data[b] # running
    /\ mods[running] = {} => Room(running)
    /\ b_data' = [b_data EXCEPT ![b] = running]
    /\ b_dirty' = [b_dirty EXCEPT ![b] = FALSE]
    /\ IF b_transaction[b] = 0
       THEN /\ b_transaction' = [b_transaction EXCEPT ![b] = running]
            /\ UNCHANGED b_next_transaction
       ELSE /\ b_next_transaction' = [b_next_transaction EXCEPT ![b] = running]
            /\ UNCHANGED b_transaction
    /\ mods' = [mods EXCEPT ![running] = @ \cup {b}]
    /\ UNCHANGED <<load, now, running, committing, sequence, starting, aborted, committed,
                   cVars, cpVars, tail, b_err, dropped, delayVars, kVars, fVars,
                   diskVars, dsynced>>

\* __jbdbf_journal_remove_checkpoint: a transaction whose last buffer goes is
\* dropped from the list.
RemoveCheckpoint(S) ==
    /\ b_cp_transaction' = [b \in Block |-> IF b \in S THEN 0 ELSE b_cp_transaction[b]]
    /\ b_io' = [b \in Block |-> b_io[b] /\ b \notin S]
    /\ cpTrans' = {t \in cpTrans : \E b \in Block : b_cp_transaction'[b] = t}

\* Deviation: dirty buffers are freed too.
FreeableDirty == {b \in Block : b_cp_transaction[b] # 0 /\ b_transaction[b] = 0
                               /\ ~b_err[b]}

\* __try_to_free_cp_buf: what journal_clean_one_cp_list may release.
Freeable == {b \in Block : b_cp_transaction[b] # 0 /\ b_transaction[b] = 0
                          /\ ~b_dirty[b] /\ ~b_err[b]}

\* The commit up to the switch: restore the superblock after a flush and drop
\* written-back buffers from the checkpoint lists, as many as it gets to.
CommitStart(kind) ==
    /\ running # 0 /\ committing = 0 /\ Room(running)
    /\ kind \in IF f_pc = "commit" /\ f_tid = running THEN {"dsync"} ELSE load.kinds
    /\ IF sb.empty THEN UpdateSuperblock(tail, FALSE) ELSE UNCHANGED sbVars
    /\ \E S \in SUBSET Freeable : RemoveCheckpoint(S)
    /\ committing' = running /\ running' = 0
    /\ forget' = mods[running]
    /\ c_pc' = "log" /\ c_durable' = (kind = "dsync")
    /\ UNCHANGED <<load, now, sequence, starting, aborted, mods, committed,
                   t_checkpoint_time, tail, bufVars, delayVars, kVars, fVars, logVars,
                   homeVars, dsynced>>

\* Deviation: dsync does not flush.
CommitLogNoFlush ==
    /\ c_pc = "log"
    /\ logTime' = [logTime EXCEPT ![committing] = IF aborted THEN @ ELSE now]
    /\ UNCHANGED <<load, logDisk, logged, homeVars, sbVars>>
    /\ committed' = IF aborted THEN committed ELSE committed \cup {committing}
    /\ t_checkpoint_time' = [t_checkpoint_time EXCEPT ![committing] = now]
    /\ c_pc' = "forget"
    /\ UNCHANGED <<load, now, running, committing, sequence, starting, aborted, mods,
                   c_durable, forget, cpVars, tail, bufVars, delayVars, kVars, fVars,
                   dsynced>>

\* Log blocks and commit record are written (by an aborted journal not), for
\* dsync flushed, and the checkpoint time of the transaction is set.  What the
\* slot held before is overwritten in the cache.
CommitLog ==
    /\ c_pc = "log"
    /\ LET lt == [t \in Tid |->
                     IF aborted THEN logTime[t]
                     ELSE IF t = committing THEN now
                     ELSE IF Slot(t) = Slot(committing) THEN None ELSE logTime[t]]
       IN  IF c_durable THEN FlushDisk(lt)
           ELSE logTime' = lt /\ UNCHANGED <<logDisk, logged, homeVars, sbVars>>
    /\ committed' = IF aborted THEN committed ELSE committed \cup {committing}
    /\ t_checkpoint_time' = [t_checkpoint_time EXCEPT ![committing] =
                                IF c_durable THEN now ELSE now + INTERVAL]
    /\ c_pc' = "forget"
    /\ UNCHANGED <<load, now, running, committing, sequence, starting, aborted, mods,
                   c_durable, forget, cpVars, tail, bufVars, delayVars, kVars, fVars,
                   dsynced>>

\* Deviation: the buffer is not held back from the VM.
CommitForgetNoDelay(b) ==
    /\ c_pc = "forget" /\ b \in forget
    /\ forget' = forget \ {b}
    /\ b_cp_transaction' = [b_cp_transaction EXCEPT ![b] = committing]
    /\ b_io' = [b_io EXCEPT ![b] = FALSE]
    /\ cpTrans' = {t \in cpTrans : \E x \in Block : b_cp_transaction'[x] = t}
    /\ b_transaction' = [b_transaction EXCEPT ![b] = b_next_transaction[b]]
    /\ b_next_transaction' = [b_next_transaction EXCEPT ![b] = 0]
    /\ b_dirty' = [b_dirty EXCEPT ![b] = b_next_transaction[b] = 0 /\ ~aborted]
    /\ UNCHANGED <<load, now, txVars, c_pc, c_durable, t_checkpoint_time, tail, b_data,
                   b_err, dropped, delayVars, kVars, fVars, diskVars, dsynced>>

\* One buffer of t_forget: hold it back unless the commit was durable, move it
\* from its old checkpoint list to this transaction's, and refile it: to the
\* running transaction if that changed it, to the VM otherwise.
CommitForget(b) ==
    /\ c_pc = "forget" /\ b \in forget
    /\ forget' = forget \ {b}
    /\ IF c_durable THEN UNCHANGED delayVars
       ELSE /\ b_delayed_write' = [b_delayed_write EXCEPT ![b] = TRUE]
            /\ b_checkpoint_time' = [b_checkpoint_time EXCEPT ![b] = now + INTERVAL]
            /\ overtaken' = (overtaken \/ b \in w_ready)
            /\ UNCHANGED w_ready
    /\ b_cp_transaction' = [b_cp_transaction EXCEPT ![b] = committing]
    /\ b_io' = [b_io EXCEPT ![b] = FALSE]
    /\ cpTrans' = {t \in cpTrans : \E x \in Block : b_cp_transaction'[x] = t}
    /\ b_transaction' = [b_transaction EXCEPT ![b] = b_next_transaction[b]]
    /\ b_next_transaction' = [b_next_transaction EXCEPT ![b] = 0]
    /\ b_dirty' = [b_dirty EXCEPT ![b] = b_next_transaction[b] = 0 /\ ~aborted]
    /\ UNCHANGED <<load, now, txVars, c_pc, c_durable, t_checkpoint_time, tail, b_data,
                   b_err, dropped, kVars, fVars, diskVars, dsynced>>

\* T_FINISHED: onto the checkpoint list, or dropped if it has no buffers.
CommitFinish ==
    /\ c_pc = "forget" /\ forget = {}
    /\ cpTrans' = IF \E b \in Block : b_cp_transaction[b] = committing
                  THEN cpTrans \cup {committing} ELSE cpTrans
    /\ dsynced' = IF c_durable /\ ~aborted THEN dsynced \cup {committing} ELSE dsynced
    /\ committing' = 0 /\ c_pc' = "idle"
    /\ UNCHANGED <<load, now, running, sequence, starting, aborted, mods, committed,
                   c_durable, forget, t_checkpoint_time, b_cp_transaction, b_io, tail,
                   bufVars, delayVars, kVars, fVars, diskVars>>

-----------------------------------------------------------------------------
(* In-place writes.                                                          *)

\* A dirty buffer is written, or the write fails.
WriteHome(b) ==
    /\ b_dirty' = [b_dirty EXCEPT ![b] = FALSE]
    /\ \/ /\ homeWritten' = [homeWritten EXCEPT ![b] = b_data[b]]
          /\ homeTime' = [homeTime EXCEPT ![b] = now]
          /\ b_err' = [b_err EXCEPT ![b] = FALSE]
          /\ UNCHANGED homeDisk
       \/ /\ load.fail
          /\ b_err' = [b_err EXCEPT ![b] = TRUE]
          /\ UNCHANGED homeVars

\* Blocks may share a page.  It is dirty while a buffer of it is, or was when a
\* handle took its dirty bit.
PageDirty ==
    \E c \in Block : b_dirty[c] \/ (b_transaction[c] # 0 /\ b_cp_transaction[c] # 0)

\* Writeback by the VM.  __block_write_full_page visits every buffer of a dirty
\* page and skips a delayed one until its checkpoint time.
VmTest(b) ==
    /\ load.writeback /\ PageDirty /\ b \notin w_ready
    /\ b_delayed_write[b] => now >= b_checkpoint_time[b]
    /\ b_delayed_write' = [b_delayed_write EXCEPT ![b] = FALSE]
    /\ w_ready' = w_ready \cup {b}
    /\ UNCHANGED <<load, now, txVars, cVars, cpVars, tail, bufVars, b_checkpoint_time,
                   overtaken, kVars, fVars, diskVars, dsynced>>

\* It locks the buffer, and writes it if it is dirty by then.
VmWrite(b) ==
    /\ b \in w_ready
    /\ w_ready' = w_ready \ {b}
    /\ IF b_dirty[b] THEN WriteHome(b) ELSE UNCHANGED <<b_dirty, b_err, homeVars>>
    /\ UNCHANGED <<load, now, txVars, cVars, cpVars, tail, b_data, b_transaction,
                   b_next_transaction, dropped, b_delayed_write, b_checkpoint_time,
                   overtaken, kVars, fVars, logVars, sbVars, dsynced>>

\* Memory reclaim: __journal_try_to_free_buffer takes a clean buffer off the
\* checkpoint list, without a look at the error of its write.
TryToFree(b) ==
    /\ b_cp_transaction[b] # 0 /\ b_transaction[b] = 0 /\ ~b_dirty[b]
    /\ RemoveCheckpoint({b})
    /\ dropped' = (dropped \/ b_err[b])
    /\ UNCHANGED <<load, now, txVars, cVars, tail, b_data, b_dirty, b_err, b_transaction,
                   b_next_transaction, delayVars, kVars, fVars, diskVars, dsynced>>

-----------------------------------------------------------------------------
(* The log tail.                                                             *)

\* The oldest transaction that has to stay in the log.
FirstTid ==
    IF cpTrans # {} THEN Min(cpTrans)
    ELSE IF committing # 0 THEN committing
    ELSE IF running # 0 THEN running ELSE sequence

\* The locked part of jbdbf_cleanup_journal_tail moves the tail, if it can;
\* the superblock is updated afterwards.
TailMoves == ~aborted /\ tail # FirstTid

-----------------------------------------------------------------------------
(* jbdbf_log_do_checkpoint, under j_checkpoint_mutex.                        *)

OnList(t) == {b \in Block : b_cp_transaction[b] = t /\ ~b_io[b]}
OnIoList(t) == {b \in Block : b_cp_transaction[b] = t /\ b_io[b]}
IsFirst(t) == t \in cpTrans /\ t = Min(cpTrans)

\* __jbdbf_log_wait_for_space: no room for the running transaction or, when it
\* has handles, for it and a full-sized one.
WaitForSpace ==
    /\ k_pc = "idle" /\ running # 0 /\ ~aborted
    /\ \/ "space" \in load.callers /\ mods[running] = {} /\ ~Room(running)
       \/ "busy" \in load.callers /\ mods[running] # {} /\ ~Room(running + 1)
    /\ k_pc' = "tail" /\ k_next' = IF cpTrans # {} THEN "pick" ELSE "idle"
    /\ needs_checkpoint' = TRUE /\ k_err' = FALSE
    /\ UNCHANGED <<load, now, txVars, cVars, cpVars, tail, bufVars, delayVars, k_t, k_batch,
                   fVars, diskVars, dsynced>>

\* jbdbf_cleanup_journal_tail, first and last thing of a checkpoint.
KTail ==
    /\ k_pc = "tail"
    /\ IF TailMoves THEN tail' = FirstTid /\ k_pc' = "super"
                    ELSE k_pc' = k_next /\ UNCHANGED tail
    /\ UNCHANGED <<load, now, txVars, cVars, cpVars, bufVars, delayVars, k_next,
                   needs_checkpoint, k_t, k_batch, k_err, fVars, diskVars, dsynced>>

KSuper ==
    /\ k_pc = "super" /\ k_pc' = "idle"
    /\ IF aborted THEN UNCHANGED sbVars ELSE UpdateSuperblock(tail, FALSE)
    /\ UNCHANGED <<load, now, txVars, cVars, cpVars, tail, bufVars, delayVars, k_next,
                   needs_checkpoint, k_t, k_batch, k_err, fVars, logVars, homeVars,
                   dsynced>>

\* Deviation: without need for space nothing is ever checkpointed.
KPickNever ==
    /\ k_pc = "pick"
    /\ k_t' = IF cpTrans = {} THEN 0 ELSE Min(cpTrans)
    /\ k_pc' = IF cpTrans # {} /\ needs_checkpoint THEN "scan" ELSE "out"
    /\ IF cpTrans # {} /\ needs_checkpoint THEN FlushDisk(logTime)
                                           ELSE UNCHANGED diskVars
    /\ UNCHANGED <<load, now, txVars, cVars, cpVars, tail, bufVars, delayVars, k_next,
                   needs_checkpoint, k_batch, k_err, fVars, dsynced>>

\* Take the first transaction: for space after a flush of the disk, otherwise
\* only if its checkpoint time has come.
KPick ==
    /\ k_pc = "pick"
    /\ k_t' = IF cpTrans = {} THEN 0 ELSE Min(cpTrans)
    /\ k_pc' = IF cpTrans # {} /\ (needs_checkpoint \/ now >= t_checkpoint_time[k_t'])
               THEN "scan" ELSE "out"
    /\ IF cpTrans # {} /\ needs_checkpoint THEN FlushDisk(logTime)
                                           ELSE UNCHANGED diskVars
    /\ UNCHANGED <<load, now, txVars, cVars, cpVars, tail, bufVars, delayVars, k_next,
                   needs_checkpoint, k_batch, k_err, fVars, dsynced>>

\* __process_buffer.  A buffer of the running or committing transaction is not
\* touched: the checkpoint waits for that commit, which takes it off the list.
KProcess(b) ==
    /\ k_pc = "scan" /\ IsFirst(k_t) /\ b \in OnList(k_t) /\ b_transaction[b] = 0
    /\ IF b_dirty[b]
       THEN /\ b_io' = [b_io EXCEPT ![b] = TRUE]
            /\ k_batch' = k_batch \cup {b}
            /\ k_pc' \in {"scan", "batch"}
            /\ UNCHANGED <<cpTrans, b_cp_transaction, k_err>>
       ELSE /\ RemoveCheckpoint({b})
            /\ k_err' = (k_err \/ b_err[b])
            /\ k_pc' = IF k_batch # {} THEN "batch" ELSE "scan"
            /\ UNCHANGED k_batch
    /\ UNCHANGED <<load, now, txVars, cVars, tail, bufVars, delayVars, k_next,
                   needs_checkpoint, k_t, fVars, diskVars, dsynced>>

\* The list is empty, or somebody else cleaned up the transaction.
KScanDone ==
    /\ k_pc = "scan" /\ (IsFirst(k_t) => OnList(k_t) = {})
    /\ k_pc' = IF k_batch # {} THEN "batch" ELSE IF IsFirst(k_t) THEN "wait" ELSE "out"
    /\ UNCHANGED <<load, now, txVars, cVars, cpVars, tail, bufVars, delayVars, k_next,
                   needs_checkpoint, k_t, k_batch, k_err, fVars, diskVars, dsynced>>

\* __flush_batch, with no lock held: the delay is lifted, and the buffer
\* written if it is still dirty.
KWrite(b) ==
    /\ k_pc = "batch" /\ b \in k_batch
    /\ k_batch' = k_batch \ {b}
    /\ k_pc' = IF k_batch' = {} THEN "scan" ELSE "batch"
    /\ b_delayed_write' = [b_delayed_write EXCEPT ![b] = FALSE]
    /\ IF b_dirty[b] THEN WriteHome(b) ELSE UNCHANGED <<b_dirty, b_err, homeVars>>
    /\ UNCHANGED <<load, now, txVars, cVars, cpVars, tail, b_data, b_transaction,
                   b_next_transaction, dropped, b_checkpoint_time, w_ready, overtaken,
                   k_next, needs_checkpoint, k_t, k_err, fVars, logVars, sbVars,
                   dsynced>>

\* __wait_cp_io drops the buffers of the io list, whatever their state.
KWaitIo(b) ==
    /\ k_pc = "wait" /\ IsFirst(k_t) /\ b \in OnIoList(k_t)
    /\ RemoveCheckpoint({b})
    /\ k_err' = (k_err \/ b_err[b])
    /\ UNCHANGED <<load, now, txVars, cVars, tail, bufVars, delayVars, k_pc, k_next,
                   needs_checkpoint, k_t, k_batch, fVars, diskVars, dsynced>>

KWaitDone ==
    /\ k_pc = "wait" /\ (IsFirst(k_t) => OnIoList(k_t) = {})
    /\ k_pc' = "out"
    /\ UNCHANGED <<load, now, txVars, cVars, cpVars, tail, bufVars, delayVars, k_next,
                   needs_checkpoint, k_t, k_batch, k_err, fVars, diskVars, dsynced>>

\* Deviation: no flush between the in-place writes and the tail.
KOutNoFlush ==
    /\ k_pc = "out"
    /\ UNCHANGED diskVars
    /\ aborted' = (aborted \/ k_err)
    /\ k_pc' = IF k_err THEN "idle" ELSE "tail"
    /\ k_next' = "idle"
    /\ f_err' = IF needs_checkpoint THEN f_err ELSE k_err
    /\ UNCHANGED <<load, now, running, committing, sequence, starting, mods, committed,
                   cVars, cpVars, tail, bufVars, delayVars, needs_checkpoint, k_t,
                   k_batch, k_err, f_pc, f_tid, dsynced>>

\* Deviation: the error of a failed write is not acted upon.
KOutNoError ==
    /\ k_pc = "out"
    /\ IF needs_checkpoint THEN FlushDisk(logTime) ELSE UNCHANGED diskVars
    /\ k_pc' = "tail" /\ k_next' = "idle"
    /\ f_err' = IF needs_checkpoint THEN f_err ELSE k_err
    /\ UNCHANGED <<load, now, txVars, cVars, cpVars, tail, bufVars, delayVars,
                   needs_checkpoint, k_t, k_batch, k_err, f_pc, f_tid, dsynced>>

\* A checkpoint for space flushes the disk again; a failed one aborts the
\* journal, otherwise the tail is cleaned up.
KOut ==
    /\ k_pc = "out"
    /\ IF needs_checkpoint THEN FlushDisk(logTime) ELSE UNCHANGED diskVars
    /\ aborted' = (aborted \/ k_err)
    /\ k_pc' = IF k_err THEN "idle" ELSE "tail"
    /\ k_next' = "idle"
    /\ f_err' = IF needs_checkpoint THEN f_err ELSE k_err
    /\ UNCHANGED <<load, now, running, committing, sequence, starting, mods, committed,
                   cVars, cpVars, tail, bufVars, delayVars, needs_checkpoint, k_t,
                   k_batch, k_err, f_pc, f_tid, dsynced>>

-----------------------------------------------------------------------------
(* jbdbf_journal_flush, called with updates locked out.                      *)

FlushOnly(pc, tid) ==
    /\ f_pc' = pc /\ f_tid' = tid /\ f_err' = FALSE
    /\ UNCHANGED <<load, now, txVars, cVars, cpVars, tail, bufVars, delayVars, kVars,
                   diskVars, dsynced>>

\* Ask for a commit of the running transaction, or wait for the committing one.
FlushBegin ==
    /\ f_pc = "idle" /\ "flush" \in load.callers
    /\ FlushOnly("commit", IF running # 0 THEN running ELSE committing)

FlushCommitted ==
    /\ f_pc = "commit" /\ (f_tid = 0 \/ f_tid \notin {running, committing})
    /\ FlushOnly("loop", 0)

\* One more call of jbdbf_log_do_checkpoint, not for space.
FlushCheckpoint ==
    /\ f_pc = "loop" /\ cpTrans # {} /\ k_pc = "idle" /\ ~f_err
    /\ k_pc' = "tail" /\ k_next' = "pick" /\ needs_checkpoint' = FALSE
    /\ k_err' = FALSE
    /\ UNCHANGED <<load, now, txVars, cVars, cpVars, tail, bufVars, delayVars, k_t, k_batch,
                   fVars, diskVars, dsynced>>

\* The loop ends when all is checkpointed or its own call failed.
FlushDone ==
    /\ f_pc = "loop" /\ (k_pc = "idle" \/ needs_checkpoint)
    /\ cpTrans = {} \/ f_err
    /\ FlushOnly(IF aborted THEN "idle" ELSE "tail", 0)

FlushTail ==
    /\ f_pc = "tail"
    /\ IF TailMoves THEN tail' = FirstTid /\ f_pc' = "super"
                    ELSE f_pc' = "mark" /\ UNCHANGED tail
    /\ UNCHANGED <<load, now, txVars, cVars, cpVars, bufVars, delayVars, kVars, f_tid,
                   f_err, diskVars, dsynced>>

\* Record the tail, then mark the journal as needing no recovery.
FlushSuper ==
    /\ f_pc \in {"super", "mark"}
    /\ f_pc' = IF f_pc = "super" THEN "mark" ELSE "idle"
    /\ UpdateSuperblock(tail, f_pc = "mark")
    /\ UNCHANGED <<load, now, txVars, cVars, cpVars, tail, bufVars, delayVars, kVars, f_tid,
                   f_err, logVars, homeVars, dsynced>>

-----------------------------------------------------------------------------
Transactions ==
    \/ StartHandle \/ StartTransaction
    \/ \E b \in Block : Modify(b)

Commit ==
    \/ \E kind \in {"osync", "dsync"} : CommitStart(kind)
    \/ CommitLog \/ CommitFinish
    \/ \E b \in Block : CommitForget(b)

DoCheckpoint ==
    \/ KTail \/ KSuper \/ KPick \/ KScanDone \/ KWaitDone \/ KOut
    \/ \E b \in Block : KProcess(b) \/ KWrite(b) \/ KWaitIo(b)

JournalFlush ==
    FlushCommitted \/ FlushCheckpoint \/ FlushDone \/ FlushTail \/ FlushSuper

Disk ==
    \/ \E t \in Tid : DestageLog(t) \/ TearLog(t)
    \/ \E b \in Block : DestageHome(b)
    \/ DestageSuper

Next ==
    \/ Transactions \/ Commit \/ WaitForSpace \/ DoCheckpoint
    \/ FlushBegin \/ JournalFlush
    \/ \E b \in Block : VmTest(b) \/ VmWrite(b) \/ TryToFree(b)
    \/ Disk \/ Tick

Spec == Init /\ [][Next]_vars

\* The journal thread, whoever checkpoints and the flush are scheduled, the
\* disk destages what it cached and time goes on.
FairSpec ==
    /\ Spec
    /\ WF_vars(Commit) /\ WF_vars(DoCheckpoint) /\ WF_vars(JournalFlush)
    /\ WF_vars(Disk) /\ WF_vars(Tick)

-----------------------------------------------------------------------------
(* A crash: what recovery makes of the platter.                              *)

\* The transactions that are replayed: from the superblock's tail for as long
\* as the log holds the next one.
Replayed ==
    IF sbDisk.empty THEN {}
    ELSE {t \in Tid : t >= sbDisk.seq
                      /\ \A u \in sbDisk.seq..t : logDisk[Slot(u)] = u}

Recovered(b) ==
    LET ts == {t \in Replayed : b \in mods[t]}
    IN  IF ts = {} THEN homeDisk[b] ELSE Max(ts)

\* The contents of b after transactions 1 to k.
StateAt(k, b) == Max({0} \cup {t \in 1..k : b \in mods[t]})

-----------------------------------------------------------------------------
(* Properties.                                                               *)

\* The write-ahead rule behind osync: no block reaches its place on the platter
\* before its transaction was on the platter's log, and every earlier one that
\* the log still had to hold.
LogBeforeHome ==
    \A b \in Block : homeDisk[b] # 0 =>
        /\ homeDisk[b] \in logged
        /\ \A u \in Tid : u < homeDisk[b] => u \in logged \/ u < tail

\* Nothing but the checkpoint delay and the disk's promise ensures it, and they
\* do as long as no commit holds back a buffer that the VM has already let pass.
HomeAfterLog == ~overtaken => LogBeforeHome

\* The tail passes a committed transaction only when each of its blocks was
\* written in place or belongs to a later transaction that is still in the log.
StoredElsewhere ==
    \A t \in committed : t < tail =>
        \A b \in mods[t] :
            \/ homeWritten[b] >= t
            \/ \E u \in committed : u >= tail /\ b \in mods[u]

\* It does so, with in-place writes that fail, as long as memory reclaim does
\* not come before the checkpoint to the buffer of a failed write.
TailCovers == ~dropped => StoredElsewhere

\* The same of the platter: a superblock that no longer includes a transaction
\* is durable only when the transaction's blocks are, where every commit was
\* durable, the checkpoint alone writes in place and sees what fails.
TailSafe ==
    load.kinds = {"dsync"} /\ ~load.writeback /\ ~dropped =>
        \A t \in committed : t < sbDisk.seq =>
            \A b \in mods[t] :
                \/ homeDisk[b] >= t
                \/ \E u \in logged : u >= sbDisk.seq /\ b \in mods[u]

\* Recovery finds the state after transactions 1 to k.
RecoversTo(k) == \A b \in Block : Recovered(b) = StateAt(k, b)

\* Crash consistency: whenever the machine stops, recovery finds the state after
\* some prefix of the transactions.
PrefixConsistent == \E k \in OptTid : RecoversTo(k)

\* Crash consistency and durability while the tail of the log stays where it
\* is: whenever the machine stops, recovery finds the state after a prefix of
\* the transactions that includes every one a dsync returned for, as long as
\* the VM wrote nothing that was held back.
DsyncSurvives ==
    load.callers = {} /\ ~overtaken =>
        \E k \in OptTid : RecoversTo(k) /\ \A t \in dsynced : t <= k

\* jbdbf_journal_flush ends, although it can only wait for the checkpoint times
\* of the transactions to come (unless one lies beyond the clock of the model).
FlushEnds ==
    (f_pc # "idle") ~>
        (f_pc = "idle" \/ \E t \in cpTrans : t_checkpoint_time[t] > load.time)
=============================================================================
