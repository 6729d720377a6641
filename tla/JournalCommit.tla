--------------------------- MODULE JournalCommit ---------------------------
(***************************************************************************)
(* Handles, transactions and the commit thread of the ext4bf journal       *)
(* (fs/ext4bf/transaction.c, journal.c, commit.c, fsync.c): how a handle   *)
(* joins the running transaction, how osync, dsync, sync_fs, a full        *)
(* transaction, a restarted handle and the commit timer ask kjournald2     *)
(* for a commit, and what has reached the disk when a caller is told that  *)
(* its commit is complete.                                                 *)
(*                                                                         *)
(* A transaction is its tid.  The log blocks of a transaction and its      *)
(* commit record are one write here; the disk keeps completed writes in a  *)
(* volatile cache and destages them in any order, or all at once when it   *)
(* is told to flush.  Every action is one critical section of              *)
(* j_state_lock, or one access to an atomic counter: start_this_handle and *)
(* jbdbf_journal_extend hold j_state_lock for reading over two of them.    *)
(***************************************************************************)
EXTENDS Integers, FiniteSets

CONSTANTS
    Proc,         \* processes that use the journal
    Kind,         \* the calls they make, a subset of AllKinds
    MaxTid,       \* bound on transaction ids (a bound of the model)
    MaxCredits,   \* j_max_transaction_buffers
    Timer,        \* whether the commit interval ever expires
    Scarce,       \* whether the log may lack space for a handle
    MayFail,      \* whether journal writes may fail
    BARRIER,      \* JBD2_BARRIER is set in j_flags
    ASYNC_COMMIT  \* JBD2_FEATURE_INCOMPAT_ASYNC_COMMIT

\* update: a file system operation;  osync, dsync: the system calls in
\* data=journal mode, that is force_commit and force_dsync_commit;
\* osync_tid, dsync_tid: the same calls in the other data modes, which name
\* the transaction that last changed the inode;  sync_fs:
\* jbdbf_journal_start_commit and a wait;  flush: updates are locked out
\* around the commit part of jbdbf_journal_flush;  nested:
\* jbdbf_journal_force_commit_nested.
AllKinds == {"update", "osync", "dsync", "osync_tid", "dsync_tid",
             "sync_fs", "flush", "nested"}

ASSUME ConstantsAssumption ==
    /\ Kind \subseteq AllKinds
    /\ MaxTid \in Nat \ {0}
    /\ MaxCredits \in Nat \ {0}
    /\ Timer \in BOOLEAN /\ Scarce \in BOOLEAN /\ MayFail \in BOOLEAN
    /\ BARRIER \in BOOLEAN /\ ASYNC_COMMIT \in BOOLEAN

VARIABLES
    j_running,          \* tid of j_running_transaction, 0 when NULL
    j_committing,       \* tid of j_committing_transaction, 0 when NULL
    j_sequence,         \* j_transaction_bf_sequence, the next tid
    j_commit_request,   \* most recent tid asked to commit
    j_commit_sequence,  \* most recent tid committed
    j_aborted,          \* JBD2_ABORT
    t_state,            \* state of each transaction
    t_durable_commit,   \* the dsync flag of each transaction
    t_credits,          \* t_outstanding_credits
    t_expired,          \* the running transaction is past t_expires
    kj,                 \* where kjournald2 is
    durable_commit,     \* the commit function's local copy of the flag
    pc,                 \* where each process is
    h_kind,             \* the call it is making
    h_tid,              \* the transaction of its handle, or the tid it waits for
    h_credits,          \* h_buffer_credits
    i_sync_tid,         \* the transaction that last changed the inode
    \* the disk
    written,            \* commits completed, as far as the host can tell
    durable,            \* commits on the platter
    \* history
    acked               \* latest tid for which a call of each kind returned success

journalVars == <<j_running, j_committing, j_sequence, j_commit_request,
                 j_commit_sequence, j_aborted>>
txVars == <<t_state, t_durable_commit, t_credits, t_expired>>
kjVars == <<kj, durable_commit>>
procVars == <<pc, h_kind, h_tid, h_credits, i_sync_tid>>
diskVars == <<written, durable>>
vars == <<journalVars, txVars, kjVars, procVars, diskVars, acked>>

Tid == 1..MaxTid
OptTid == 0..MaxTid
TState == {"none", "T_RUNNING", "T_LOCKED", "T_FLUSH", "T_COMMIT",
           "T_COMMIT_DFLUSH", "T_COMMIT_JFLUSH", "T_FINISHED"}
KjPc == {"loop", "begin", "lock", "drain", "flush", "commit", "dflush",
         "submit", "record", "barrier", "failed", "finish"}

\* idle: outside the journal;  start: in start_this_handle;  alloc: there, with
\* no running transaction and the lock dropped;  reserved: there, has added its
\* credits to the transaction's;  excess: the same, and the sum is too large;
\* active: has a handle;  extend: in jbdbf_journal_extend, has found that its
\* credits fit and holds t_handle_lock;  request, restart, ask: about to call
\* jbdbf_log_start_commit from start_this_handle, jbdbf__journal_restart or
\* jbdbf_journal_stop, with the lock dropped;  full: asleep until the full
\* transaction is switched out;  stop: in jbdbf_journal_stop, t_updates not yet
\* dropped;  wait: in jbdbf_log_wait_commit.  In jbdbf_journal_lock_updates, lock: in its loop;
\* prepare: saw updates, not yet on the wait queue, holds j_state_lock;  asleep:
\* on the queue;  mutex: waits for j_barrier;  locked: holds it;  unlock: gave
\* it up, j_barrier_count not yet dropped.
Pc == {"idle", "start", "alloc", "reserved", "excess", "active", "extend",
       "request", "full", "restart", "ask", "stop", "wait", "lock", "prepare",
       "asleep", "mutex", "locked", "unlock"}

\* Where a process has a handle.
Open == {"active", "extend", "ask", "stop"}

TypeOK ==
    /\ j_running \in OptTid /\ j_committing \in OptTid
    /\ j_sequence \in 1..(MaxTid + 1)
    /\ j_commit_request \in OptTid /\ j_commit_sequence \in OptTid
    /\ j_aborted \in BOOLEAN
    /\ t_state \in [Tid -> TState]
    /\ t_durable_commit \in [Tid -> BOOLEAN]
    /\ t_credits \in [Tid -> Int]
    /\ t_expired \in BOOLEAN
    /\ kj \in KjPc /\ durable_commit \in BOOLEAN
    /\ pc \in [Proc -> Pc] /\ h_kind \in [Proc -> AllKinds]
    /\ h_tid \in [Proc -> OptTid] /\ h_credits \in [Proc -> 0..1]
    /\ i_sync_tid \in OptTid
    /\ written \subseteq Tid /\ durable \subseteq Tid
    /\ acked \in [{"sync", "dsync"} -> OptTid]

Init ==
    /\ j_running = 0 /\ j_committing = 0
    /\ j_sequence = 1 /\ j_commit_request = 0 /\ j_commit_sequence = 0
    /\ j_aborted = FALSE
    /\ t_state = [t \in Tid |-> "none"]
    /\ t_durable_commit = [t \in Tid |-> FALSE]
    /\ t_credits = [t \in Tid |-> 0]
    /\ t_expired = FALSE
    /\ kj = "loop" /\ durable_commit = FALSE
    /\ pc = [p \in Proc |-> "idle"] /\ h_kind = [p \in Proc |-> "update"]
    /\ h_tid = [p \in Proc |-> 0] /\ h_credits = [p \in Proc |-> 0]
    /\ i_sync_tid = 0
    /\ written = {} /\ durable = {}
    /\ acked = [k \in {"sync", "dsync"} |-> 0]

\* Processes holding a handle on transaction t: the value of t_updates.
t_updates(t) == {p \in Proc : pc[p] \in Open /\ h_tid[p] = t}

\* Holds j_barrier.
HoldsBarrier(p) == pc[p] = "locked" \/ (pc[p] = "wait" /\ h_kind[p] = "flush")

\* Waited until there were no updates.
Quiet(p) == pc[p] \in {"mutex", "unlock"} \/ HoldsBarrier(p)

\* j_barrier_count is not zero.
Barred == \E p \in Proc : pc[p] \in {"lock", "prepare", "asleep"} \/ Quiet(p)

\* Nobody holds j_state_lock for writing across a step: it can be read locked.
StateLockFree == \A p \in Proc : pc[p] # "prepare"

\* Nobody holds it for reading either: it can be write locked.
NoReaders == \A p \in Proc : pc[p] \notin {"reserved", "excess", "extend"}

\* t_handle_lock of the running transaction.
HandleLockFree == \A p \in Proc : pc[p] # "extend"

Goto(p, l) == pc' = [pc EXCEPT ![p] = l]

\* t_updates is dropped; the last one wakes the queue of j_wait_updates.
GotoWaking(p, l) ==
    pc' = [q \in Proc |->
              IF q = p THEN l
              ELSE IF pc[q] = "asleep" /\ t_updates(h_tid[p]) = {p} THEN "lock"
              ELSE pc[q]]

\* The handle, if any, is freed.
Free(p) ==
    /\ h_kind' = [h_kind EXCEPT ![p] = "update"]
    /\ h_tid' = [h_tid EXCEPT ![p] = 0]
    /\ h_credits' = [h_credits EXCEPT ![p] = 0]

\* The call is over.
Return(p) == Goto(p, "idle") /\ Free(p)

-----------------------------------------------------------------------------
(* Asking for a commit.                                                      *)

\* Deviation: the request is recorded whether or not the target still runs.
LogStartCommitStale(target, dsync) ==
    /\ j_commit_request' = target
    /\ t_durable_commit' = [t_durable_commit EXCEPT ![target] = dsync]

\* __jbdbf_log_start_commit: only the running transaction can be asked for,
\* and the caller's kind replaces whatever was asked before.
LogStartCommit(target, dsync) ==
    IF j_running = target
    THEN /\ j_commit_request' = target
         /\ t_durable_commit' = [t_durable_commit EXCEPT ![target] = dsync]
    ELSE UNCHANGED <<j_commit_request, t_durable_commit>>

\* The running transaction or else the committing one.
Youngest == IF j_running # 0 THEN j_running ELSE j_committing

\* Deviation: off by one, the transaction before was asked for.
NeedToStartOffByOne(tid) == ~(j_commit_request + 1 >= tid)

\* !tid_geq(journal->j_commit_request, tid), evaluated under the read lock.
NeedToStart(tid) == ~(j_commit_request >= tid)

-----------------------------------------------------------------------------
(* start_this_handle.                                                        *)

\* A process calls jbdbf_journal_start; osync and dsync do so from
\* force_commit and force_dsync_commit, for one block.
JournalStart(p) ==
    /\ pc[p] = "idle"
    /\ \E k \in Kind \cap {"update", "osync", "dsync"} :
          h_kind' = [h_kind EXCEPT ![p] = k]
    /\ Goto(p, "start")
    /\ UNCHANGED <<i_sync_tid, journalVars, txVars, kjVars, h_tid, h_credits,
                   diskVars, acked>>

\* The journal is aborted: -EROFS.
StartAborted(p) ==
    /\ pc[p] = "start" /\ j_aborted
    /\ Return(p)
    /\ UNCHANGED <<i_sync_tid, journalVars, txVars, kjVars, diskVars, acked>>

\* No running transaction: drop the lock.
NoTransaction(p) ==
    /\ pc[p] = "start" /\ ~j_aborted /\ ~Barred /\ j_running = 0
    /\ Goto(p, "alloc")
    /\ UNCHANGED <<journalVars, txVars, kjVars, h_kind, h_tid, h_credits,
                   i_sync_tid, diskVars, acked>>

\* jbdbf_get_transaction, if there still is none, whether or not updates are
\* locked out by now; then try again.
GetTransaction(p) ==
    /\ pc[p] = "alloc" /\ (j_running = 0 => j_sequence <= MaxTid)
    /\ Goto(p, "start")
    /\ IF j_running # 0 THEN UNCHANGED <<j_running, j_sequence, txVars>>
       ELSE /\ j_running' = j_sequence
            /\ j_sequence' = j_sequence + 1
            /\ t_state' = [t_state EXCEPT ![j_sequence] = "T_RUNNING"]
            /\ t_durable_commit' = [t_durable_commit EXCEPT ![j_sequence] = FALSE]
            /\ t_credits' = [t_credits EXCEPT ![j_sequence] = 0]
            /\ t_expired' = FALSE
    /\ UNCHANGED <<j_committing, j_commit_request, j_commit_sequence, j_aborted,
                   kjVars, h_kind, h_tid, h_credits, i_sync_tid, diskVars, acked>>

\* Deviation: updates that are locked out are not waited for.
StartReserveUnbarred(p) ==
    /\ pc[p] = "start" /\ ~j_aborted
    /\ j_running # 0 /\ t_state[j_running] = "T_RUNNING"
    /\ t_credits' = [t_credits EXCEPT ![j_running] = @ + 1]
    /\ h_tid' = [h_tid EXCEPT ![p] = j_running]
    /\ Goto(p, IF t_credits'[j_running] > MaxCredits THEN "excess" ELSE "reserved")
    /\ UNCHANGED <<i_sync_tid, journalVars, t_state, t_durable_commit, t_expired,
                   kjVars, h_kind, h_credits, diskVars, acked>>

\* There is a running transaction: add the handle's credits to its account and
\* look at the sum (atomic_add_return), with j_state_lock held for reading
\* from here on.  A locked transaction is waited for, which is the guard on
\* its state.
StartReserve(p) ==
    /\ pc[p] = "start" /\ ~j_aborted /\ ~Barred
    /\ j_running # 0 /\ t_state[j_running] = "T_RUNNING"
    /\ t_credits' = [t_credits EXCEPT ![j_running] = @ + 1]
    /\ h_tid' = [h_tid EXCEPT ![p] = j_running]
    /\ Goto(p, IF t_credits'[j_running] > MaxCredits THEN "excess" ELSE "reserved")
    /\ UNCHANGED <<i_sync_tid, journalVars, t_state, t_durable_commit, t_expired,
                   kjVars, h_kind, h_credits, diskVars, acked>>

\* The credits fitted, and so does the log: join.
StartJoin(p) ==
    /\ pc[p] = "reserved"
    /\ h_credits' = [h_credits EXCEPT ![p] = 1]
    /\ Goto(p, "active")
    /\ UNCHANGED <<i_sync_tid, journalVars, txVars, kjVars, h_kind, h_tid, diskVars,
                   acked>>

\* Takes the credits back.
Unreserve(p) == t_credits' = [t_credits EXCEPT ![h_tid[p]] = @ - 1]

\* The log has no room: take the credits back, wait for space and try again.
StartNoSpace(p) ==
    /\ pc[p] = "reserved" /\ Scarce
    /\ Unreserve(p)
    /\ h_tid' = [h_tid EXCEPT ![p] = 0]
    /\ Goto(p, "start")
    /\ UNCHANGED <<i_sync_tid, journalVars, t_state, t_durable_commit, t_expired,
                   kjVars, h_kind, h_credits, diskVars, acked>>

\* Deviation: sleep without asking for the commit.
StartFullNoRequest(p) ==
    /\ pc[p] = "excess"
    /\ Unreserve(p)
    /\ Goto(p, "full")
    /\ UNCHANGED <<i_sync_tid, journalVars, t_state, t_durable_commit, t_expired,
                   kjVars, h_kind, h_tid, h_credits, diskVars, acked>>

\* Deviation: the credits are not taken back.
StartFullKeepsCredits(p) ==
    /\ pc[p] = "excess"
    /\ Goto(p, IF NeedToStart(h_tid[p]) THEN "request" ELSE "full")
    /\ UNCHANGED <<i_sync_tid, journalVars, txVars, kjVars, h_kind, h_tid, h_credits,
                   diskVars, acked>>

\* The running transaction is full: take the credits back, have it committed
\* unless somebody already asked, and sleep on j_wait_transaction_locked.
StartFull(p) ==
    /\ pc[p] = "excess"
    /\ Unreserve(p)
    /\ Goto(p, IF NeedToStart(h_tid[p]) THEN "request" ELSE "full")
    /\ UNCHANGED <<i_sync_tid, journalVars, t_state, t_durable_commit, t_expired,
                   kjVars, h_kind, h_tid, h_credits, diskVars, acked>>

\* The commit switched the full transaction out and woke the sleepers; a
\* barrier wakes them too.
FullWake(p) ==
    /\ pc[p] = "full" /\ (j_running # h_tid[p] \/ Barred)
    /\ h_tid' = [h_tid EXCEPT ![p] = 0]
    /\ Goto(p, "start")
    /\ UNCHANGED <<i_sync_tid, journalVars, txVars, kjVars, h_kind, h_credits,
                   diskVars, acked>>

\* jbdbf_log_start_commit(tid), after the lock under which the need was computed
\* has been dropped: an osync commit, except for the end of a dsync handle.
RequestCommit(p) ==
    /\ pc[p] \in {"request", "restart", "ask"}
    /\ LogStartCommit(h_tid[p], pc[p] = "ask" /\ h_kind[p] = "dsync")
    /\ Goto(p, CASE pc[p] = "restart" -> "start"
                 [] pc[p] = "ask" -> "stop"
                 [] h_kind[p] = "nested" -> "wait"
                 [] OTHER -> "full")
    /\ UNCHANGED <<i_sync_tid, j_running, j_committing, j_sequence, j_commit_sequence,
                   j_aborted, t_state, t_credits, t_expired, kjVars, h_kind,
                   h_tid, h_credits, diskVars, acked>>

-----------------------------------------------------------------------------
(* What a handle does.                                                       *)

\* Deviation: a handle spends a credit it does not have.
UseCreditUnchecked(p) ==
    /\ pc[p] = "active" /\ h_kind[p] = "update"
    /\ h_credits' = [h_credits EXCEPT ![p] = @ - 1]
    /\ i_sync_tid' = h_tid[p]
    /\ UNCHANGED <<journalVars, txVars, kjVars, pc, h_kind, h_tid, diskVars, acked>>

\* jbdbf_journal_dirty_metadata spends one of the handle's credits; the
\* inode remembers the transaction (ext4bf_update_inode_fsync_trans).
UseCredit(p) ==
    /\ pc[p] = "active" /\ h_kind[p] = "update" /\ h_credits[p] > 0
    /\ h_credits' = [h_credits EXCEPT ![p] = @ - 1]
    /\ i_sync_tid' = h_tid[p]
    /\ UNCHANGED <<journalVars, txVars, kjVars, pc, h_kind, h_tid, diskVars, acked>>

\* jbdbf_journal_extend reads the account, with t_handle_lock and, for reading,
\* j_state_lock held; handles that start add to it all the same.
ExtendCheck(p) ==
    /\ pc[p] = "active" /\ h_kind[p] = "update" /\ h_credits[p] = 0
    /\ ~j_aborted
    /\ t_state[h_tid[p]] = "T_RUNNING" /\ HandleLockFree
    /\ t_credits[h_tid[p]] + 1 <= MaxCredits
    /\ Goto(p, "extend")
    /\ UNCHANGED <<journalVars, txVars, kjVars, h_kind, h_tid, h_credits, i_sync_tid,
                   diskVars, acked>>

\* It adds the credit it found room for.
JournalExtend(p) ==
    /\ pc[p] = "extend"
    /\ h_credits' = [h_credits EXCEPT ![p] = 1]
    /\ t_credits' = [t_credits EXCEPT ![h_tid[p]] = @ + 1]
    /\ Goto(p, "active")
    /\ UNCHANGED <<i_sync_tid, journalVars, t_state, t_durable_commit, t_expired, kjVars,
                   h_kind, h_tid, diskVars, acked>>

\* The log has no room for it.
ExtendDenied(p) ==
    /\ pc[p] = "extend" /\ Scarce
    /\ Goto(p, "active")
    /\ UNCHANGED <<journalVars, txVars, kjVars, h_kind, h_tid, h_credits, i_sync_tid,
                   diskVars, acked>>

\* jbdbf__journal_restart: leave the transaction, have it committed if nobody
\* asked yet, and start again.
JournalRestart(p) ==
    /\ pc[p] = "active" /\ h_kind[p] = "update" /\ ~j_aborted /\ HandleLockFree
    /\ t_credits' = [t_credits EXCEPT ![h_tid[p]] = @ - h_credits[p]]
    /\ h_credits' = [h_credits EXCEPT ![p] = 0]
    /\ GotoWaking(p, IF NeedToStart(h_tid[p]) THEN "restart" ELSE "start")
    /\ UNCHANGED <<i_sync_tid, journalVars, t_state, t_durable_commit, t_expired, kjVars,
                   h_kind, h_tid, diskVars, acked>>

\* jbdbf_journal_stop returns the unused credits, and will ask for a commit if the
\* handle is synchronous or the transaction is too large or too old.
JournalStop(p) ==
    /\ pc[p] = "active"
    /\ t_credits' = [t_credits EXCEPT ![h_tid[p]] = @ - h_credits[p]]
    /\ h_credits' = [h_credits EXCEPT ![p] = 0]
    /\ Goto(p, IF h_kind[p] # "update" \/ t_credits'[h_tid[p]] > MaxCredits \/ t_expired
               THEN "ask" ELSE "stop")
    /\ UNCHANGED <<i_sync_tid, journalVars, t_state, t_durable_commit, t_expired, kjVars,
                   h_kind, h_tid, diskVars, acked>>

\* atomic_dec_and_test(&transaction->t_updates); a synchronous handle then
\* waits for the commit.
DropUpdate(p) ==
    /\ pc[p] = "stop"
    /\ GotoWaking(p, IF h_kind[p] = "update" THEN "idle" ELSE "wait")
    /\ IF h_kind[p] = "update" THEN Free(p) ELSE UNCHANGED <<h_kind, h_tid, h_credits>>
    /\ UNCHANGED <<i_sync_tid, journalVars, txVars, kjVars, diskVars, acked>>

\* jbdbf_journal_start_commit from sync_fs, which then waits.
StartCommit(p) ==
    /\ pc[p] = "idle" /\ "sync_fs" \in Kind
    /\ j_running # 0 \/ j_committing # 0
    /\ h_kind' = [h_kind EXCEPT ![p] = "sync_fs"]
    /\ LogStartCommit(Youngest, FALSE)
    /\ h_tid' = [h_tid EXCEPT ![p] = Youngest]
    /\ Goto(p, "wait")
    /\ UNCHANGED <<i_sync_tid, j_running, j_committing, j_sequence, j_commit_sequence,
                   j_aborted, t_state, t_credits, t_expired, kjVars, h_credits,
                   diskVars, acked>>

\* ext4bf_osync_file and ext4bf_dsync_file outside data=journal mode: ask for
\* the inode's transaction, whatever became of it, and wait.
SyncFileTid(p) ==
    /\ pc[p] = "idle" /\ i_sync_tid # 0
    /\ \E k \in Kind \cap {"osync_tid", "dsync_tid"} :
          /\ h_kind' = [h_kind EXCEPT ![p] = k]
          /\ LogStartCommit(i_sync_tid, k = "dsync_tid")
    /\ h_tid' = [h_tid EXCEPT ![p] = i_sync_tid]
    /\ Goto(p, "wait")
    /\ UNCHANGED <<i_sync_tid, j_running, j_committing, j_sequence,
                   j_commit_sequence, j_aborted, t_state, t_credits, t_expired,
                   kjVars, h_credits, diskVars, acked>>

\* jbdbf_journal_force_commit_nested, up to the drop of the read lock.
ForceCommitNested(p) ==
    /\ pc[p] = "idle" /\ "nested" \in Kind
    /\ j_running # 0 \/ j_committing # 0
    /\ h_kind' = [h_kind EXCEPT ![p] = "nested"]
    /\ h_tid' = [h_tid EXCEPT ![p] = Youngest]
    /\ Goto(p, IF j_running # 0 /\ NeedToStart(j_running) THEN "request"
                                                          ELSE "wait")
    /\ UNCHANGED <<i_sync_tid, journalVars, txVars, kjVars, h_credits, diskVars, acked>>

Latest(a, b) == IF a >= b THEN a ELSE b

\* Deviation: the abort is not reported.
WaitCommitNoError(p) ==
    /\ pc[p] = "wait" /\ j_commit_sequence >= h_tid[p]
    /\ acked' = [k \in {"sync", "dsync"} |->
                    IF k = "sync" \/ h_kind[p] \in {"dsync", "dsync_tid"}
                    THEN Latest(acked[k], h_tid[p]) ELSE acked[k]]
    /\ Return(p)
    /\ UNCHANGED <<i_sync_tid, journalVars, txVars, kjVars, diskVars>>

\* jbdbf_log_wait_commit returns, with -EIO if the journal is aborted.
WaitCommit(p) ==
    /\ pc[p] = "wait" /\ j_commit_sequence >= h_tid[p]
    /\ acked' = IF j_aborted THEN acked ELSE
                [k \in {"sync", "dsync"} |->
                    IF k = "sync" \/ h_kind[p] \in {"dsync", "dsync_tid"}
                    THEN Latest(acked[k], h_tid[p]) ELSE acked[k]]
    /\ IF h_kind[p] = "flush"
       THEN Goto(p, "unlock") /\ UNCHANGED <<h_kind, h_tid, h_credits>>
       ELSE Return(p)
    /\ UNCHANGED <<i_sync_tid, journalVars, txVars, kjVars, diskVars>>

-----------------------------------------------------------------------------
(* jbdbf_journal_lock_updates, around jbdbf_journal_flush.                   *)

LockStep(p, from, to) ==
    /\ pc[p] = from
    /\ Goto(p, to)
    /\ UNCHANGED <<journalVars, txVars, kjVars, h_kind, h_tid, h_credits, i_sync_tid,
                   diskVars, acked>>

\* ++j_barrier_count.
LockUpdates(p) ==
    /\ pc[p] = "idle" /\ "flush" \in Kind
    /\ h_kind' = [h_kind EXCEPT ![p] = "flush"]
    /\ Goto(p, "lock")
    /\ UNCHANGED <<journalVars, txVars, kjVars, h_tid, h_credits, i_sync_tid,
                   diskVars, acked>>

\* The loop reads t_updates, which jbdbf_journal_stop drops without a lock,
\* before it goes on the wait queue.
LockCheck(p) == LockStep(p, "lock", IF j_running # 0 /\ t_updates(j_running) # {}
                                    THEN "prepare" ELSE "mutex")
LockSleep(p) == LockStep(p, "prepare", "asleep")
LockBarrier(p) == (\A q \in Proc : ~HoldsBarrier(q)) /\ LockStep(p, "mutex", "locked")

\* The prologue of jbdbf_journal_flush: a dsync commit of whatever runs.
JournalFlush(p) ==
    /\ pc[p] = "locked"
    /\ IF j_running # 0 \/ j_committing # 0
       THEN /\ LogStartCommit(Youngest, TRUE)
            /\ h_tid' = [h_tid EXCEPT ![p] = Youngest]
            /\ Goto(p, "wait")
       ELSE Goto(p, "unlock") /\ UNCHANGED <<j_commit_request, t_durable_commit, h_tid>>
    /\ UNCHANGED <<i_sync_tid, j_running, j_committing, j_sequence, j_commit_sequence,
                   j_aborted, t_state, t_credits, t_expired, kjVars, h_kind, h_credits,
                   diskVars, acked>>

\* --j_barrier_count.
UnlockUpdates(p) ==
    /\ pc[p] = "unlock"
    /\ Return(p)
    /\ UNCHANGED <<i_sync_tid, journalVars, txVars, kjVars, diskVars, acked>>

-----------------------------------------------------------------------------
(* kjournald2 and jbdbf_journal_commit_transaction.                          *)

\* The running transaction reaches t_expires.
Expire ==
    /\ Timer /\ j_running # 0 /\ ~t_expired
    /\ t_expired' = TRUE
    /\ UNCHANGED <<journalVars, t_state, t_durable_commit, t_credits, kjVars,
                   procVars, diskVars, acked>>

\* kjournald2 wakes on the timer: it writes j_commit_request itself.
KjTimeout ==
    /\ kj = "loop" /\ j_commit_sequence = j_commit_request
    /\ j_running # 0 /\ t_expired
    /\ j_commit_request' = j_running
    /\ UNCHANGED <<j_running, j_committing, j_sequence, j_commit_sequence,
                   j_aborted, txVars, kjVars, procVars, diskVars, acked>>

\* Requests differ: call the commit function.
KjCommit ==
    /\ kj = "loop" /\ j_commit_sequence # j_commit_request
    /\ kj' = "begin"
    /\ UNCHANGED <<journalVars, txVars, durable_commit, procVars, diskVars, acked>>

\* The dsync flag is copied before j_state_lock is taken.
CommitBegin ==
    /\ kj = "begin"
    /\ durable_commit' = t_durable_commit[j_running]
    /\ kj' = "lock"
    /\ UNCHANGED <<journalVars, txVars, procVars, diskVars, acked>>

CommitLock ==
    /\ kj = "lock"
    /\ t_state' = [t_state EXCEPT ![j_running] = "T_LOCKED"]
    /\ kj' = "drain"
    /\ UNCHANGED <<journalVars, t_durable_commit, t_credits, t_expired,
                   durable_commit, procVars, diskVars, acked>>

\* Deviation: the transaction is switched out under its open handles.
CommitSwitchNoDrain ==
    /\ kj = "drain"
    /\ t_state' = [t_state EXCEPT ![j_running] = "T_FLUSH"]
    /\ j_committing' = j_running
    /\ j_running' = 0
    /\ kj' = "flush"
    /\ UNCHANGED <<j_sequence, j_commit_request, j_commit_sequence, j_aborted,
                   t_durable_commit, t_credits, t_expired, durable_commit,
                   procVars, diskVars, acked>>

\* All updates have completed: the transaction is switched out.
CommitSwitch ==
    /\ kj = "drain" /\ t_updates(j_running) = {}
    /\ t_state' = [t_state EXCEPT ![j_running] = "T_FLUSH"]
    /\ j_committing' = j_running
    /\ j_running' = 0
    /\ kj' = "flush"
    /\ UNCHANGED <<j_sequence, j_commit_request, j_commit_sequence, j_aborted,
                   t_durable_commit, t_credits, t_expired, durable_commit,
                   procVars, diskVars, acked>>

\* __jbdbf_journal_abort_hard: the running transaction, if any, is committed
\* too, to release whoever waits for it.
Abort ==
    /\ j_aborted' = TRUE
    /\ IF j_running # 0 /\ ~j_aborted THEN LogStartCommit(j_running, TRUE)
       ELSE UNCHANGED <<j_commit_request, t_durable_commit>>

\* The commit moves from one state to the next; the writes it waits for on
\* the way may fail, which aborts the journal.
CommitStep(from, to, s) ==
    /\ kj = from
    /\ t_state' = [t_state EXCEPT ![j_committing] = s]
    /\ kj' = to
    /\ \/ UNCHANGED <<j_aborted, j_commit_request, t_durable_commit>>
       \/ MayFail /\ ~j_aborted /\ Abort
    /\ UNCHANGED <<j_running, j_committing, j_sequence, j_commit_sequence,
                   t_credits, t_expired, durable_commit, procVars, diskVars, acked>>

\* Submit data and inode data, write the revoke records.
CommitFlush == CommitStep("flush", "commit", "T_COMMIT")
\* Submit descriptor and metadata blocks, wait for the data blocks.
CommitLog ==
    CommitStep("commit", IF ASYNC_COMMIT THEN "submit" ELSE "dflush", "T_COMMIT_DFLUSH")
\* Wait for the metadata and control blocks.
CommitWaitLog ==
    CommitStep("dflush", IF ASYNC_COMMIT THEN "record" ELSE "submit", "T_COMMIT_JFLUSH")

\* Submit the commit record: with asynchronous commit as soon as the log blocks
\* are submitted, otherwise after they are on disk.  An aborted journal submits
\* none; one that cannot be submitted aborts the journal.
CommitSubmit ==
    /\ kj = "submit"
    /\ kj' = IF ASYNC_COMMIT THEN "dflush" ELSE "record"
    /\ \/ UNCHANGED <<j_aborted, j_commit_request, t_durable_commit>>
       \/ MayFail /\ ~j_aborted /\ Abort
    /\ UNCHANGED <<j_running, j_committing, j_sequence, j_commit_sequence, t_state,
                   t_credits, t_expired, durable_commit, procVars, diskVars, acked>>

\* Deviation: an aborted journal still writes its commit records, those after
\* the one that failed included.
CommitRecordAborted ==
    /\ kj = "record"
    /\ \/ kj' = "failed" /\ ~j_aborted /\ MayFail /\ UNCHANGED written
       \/ kj' = "barrier" /\ written' = written \cup {j_committing}
    /\ UNCHANGED <<journalVars, txVars, durable_commit, procVars, durable, acked>>

\* Wait for the commit record.  In an aborted journal none was submitted, or one
\* whose log blocks failed: the commit is not on disk.  One that fails aborts
\* after the flush below.  With barriers, and without asynchronous commit, the
\* record is written FLUSH|FUA.
CommitRecord ==
    /\ kj = "record"
    /\ \/ kj' = "barrier" /\ j_aborted /\ UNCHANGED diskVars
       \/ kj' = "failed" /\ ~j_aborted /\ MayFail /\ UNCHANGED diskVars
       \/ /\ kj' = "barrier" /\ ~j_aborted
          /\ written' = written \cup {j_committing}
          /\ durable' = IF BARRIER /\ ~ASYNC_COMMIT
                        THEN durable \cup written' ELSE durable
    /\ UNCHANGED <<journalVars, txVars, durable_commit, procVars, acked>>

\* Deviation: no flush is ever sent.
CommitBarrierNoFlush ==
    /\ kj = "barrier"
    /\ kj' = "finish"
    /\ UNCHANGED <<journalVars, txVars, durable_commit, procVars, diskVars, acked>>

\* blkdev_issue_flush, for a dsync commit or an asynchronous one with barriers.
IssueFlush ==
    durable' = IF durable_commit \/ (ASYNC_COMMIT /\ BARRIER)
               THEN durable \cup written ELSE durable

CommitBarrier ==
    /\ kj = "barrier"
    /\ IssueFlush
    /\ kj' = "finish"
    /\ UNCHANGED <<journalVars, txVars, durable_commit, procVars, written, acked>>

\* The same after a commit record that failed, which then aborts the journal.
CommitFailed ==
    /\ kj = "failed"
    /\ IssueFlush
    /\ Abort
    /\ kj' = "finish"
    /\ UNCHANGED <<j_running, j_committing, j_sequence, j_commit_sequence, t_state,
                   t_credits, t_expired, durable_commit, procVars, written, acked>>

\* Deviation: the latest request is published instead of the tid committed.
CommitFinishRequest ==
    /\ kj = "finish"
    /\ t_state' = [t_state EXCEPT ![j_committing] = "T_FINISHED"]
    /\ j_commit_sequence' = j_commit_request
    /\ j_committing' = 0
    /\ kj' = "loop"
    /\ UNCHANGED <<j_running, j_sequence, j_commit_request, j_aborted,
                   t_durable_commit, t_credits, t_expired, durable_commit,
                   procVars, diskVars, acked>>

\* T_FINISHED: publish j_commit_sequence and wake the waiters.
CommitFinish ==
    /\ kj = "finish"
    /\ t_state' = [t_state EXCEPT ![j_committing] = "T_FINISHED"]
    /\ j_commit_sequence' = j_committing
    /\ j_committing' = 0
    /\ kj' = "loop"
    /\ UNCHANGED <<j_running, j_sequence, j_commit_request, j_aborted,
                   t_durable_commit, t_credits, t_expired, durable_commit,
                   procVars, diskVars, acked>>

\* The disk destages a cached commit, in any order.
Destage(t) ==
    /\ t \in written \ durable
    /\ durable' = durable \cup {t}
    /\ UNCHANGED <<journalVars, txVars, kjVars, procVars, written, acked>>

-----------------------------------------------------------------------------
\* A step takes no lock, or takes j_state_lock for reading (or already has it), or
\* for writing.  A call's first step need not come.
ProcStep(p) ==
    \/ JournalStop(p) \/ DropUpdate(p) \/ LockSleep(p)
    \/ /\ StateLockFree
       /\ \/ StartAborted(p) \/ NoTransaction(p) \/ StartReserve(p)
          \/ StartJoin(p) \/ StartNoSpace(p) \/ StartFull(p) \/ FullWake(p)
          \/ JournalExtend(p) \/ ExtendDenied(p) \/ WaitCommit(p) \/ LockBarrier(p)
    \/ /\ StateLockFree /\ NoReaders
       /\ \/ GetTransaction(p) \/ RequestCommit(p) \/ LockCheck(p)
          \/ JournalFlush(p) \/ UnlockUpdates(p)

Call(p) ==
    \/ UseCredit(p)
    \/ /\ StateLockFree
       /\ \/ JournalStart(p) \/ ForceCommitNested(p) \/ ExtendCheck(p)
          \/ JournalRestart(p)
    \/ /\ StateLockFree /\ NoReaders
       /\ StartCommit(p) \/ SyncFileTid(p) \/ LockUpdates(p)

\* The commit thread changes what readers look at under the write lock; its
\* other steps touch nothing that they do.
Kjournald ==
    /\ StateLockFree /\ NoReaders
    /\ \/ KjTimeout \/ KjCommit \/ CommitBegin \/ CommitLock \/ CommitSwitch
       \/ CommitFlush \/ CommitLog \/ CommitSubmit \/ CommitWaitLog
       \/ CommitRecord \/ CommitBarrier \/ CommitFailed \/ CommitFinish

Next ==
    \/ \E p \in Proc : ProcStep(p) \/ Call(p)
    \/ Expire
    \/ Kjournald
    \/ \E t \in Tid : Destage(t)

Spec == Init /\ [][Next]_vars

\* Processes inside the journal and kjournald2 are scheduled, and get
\* j_state_lock if it is free again and again; nothing obliges a process to make
\* another call, or the disk to destage.
FairSpec ==
    /\ Spec
    /\ \A p \in Proc : SF_vars(ProcStep(p))
    /\ SF_vars(Kjournald)

-----------------------------------------------------------------------------
(* Properties.                                                               *)

\* The commit function's opening assertions: when kjournald2 decides to
\* commit there is a running transaction, it is T_RUNNING, and nothing else is
\* committing.  A request for a transaction that is already gone would break it.
CommitHasTransaction ==
    kj \in {"begin", "lock"} =>
        /\ j_running # 0 /\ j_committing = 0
        /\ t_state[j_running] = "T_RUNNING"

\* A handle only ever belongs to the running transaction, so a transaction
\* that is being written no longer changes.
HandlesOnRunning ==
    \A p \in Proc : pc[p] \in Open => h_tid[p] = j_running

\* jbdbf_journal_lock_updates returns "only once the journal is in a quiescent
\* state with no updates running", and to one caller at a time.
Quiesced ==
    \A p \in Proc : Quiet(p) =>
        /\ \A q \in Proc : pc[q] \notin Open
        /\ \A q \in Proc \ {p} : ~(HoldsBarrier(p) /\ HoldsBarrier(q))

\* Processes with credits on transaction t, and those about to take theirs back.
Holders(t) ==
    {p \in Proc : h_tid[p] = t /\ (pc[p] = "reserved" \/ h_credits[p] # 0)}
Excess(t) == {p \in Proc : h_tid[p] = t /\ pc[p] = "excess"}

\* The account of a transaction, less what is about to be taken back, covers the
\* credits that its handles still hold and exceeds the limit by at most one
\* extension: jbdbf_journal_extend may add to an account that handles have
\* filled since it looked, but t_handle_lock keeps a second extension out.
CreditsBounded ==
    \A t \in Tid : t_credits[t] - Cardinality(Excess(t))
                       \in Cardinality(Holders(t))..(MaxCredits + 1)

\* The assertion of the commit before it switches the transaction out: the
\* credits handed out are at most j_max_transaction_buffers.
CommitFits ==
    (kj = "drain" /\ t_updates(j_running) = {}) => t_credits[j_running] <= MaxCredits

\* Whoever waits in jbdbf_log_wait_commit waits for a commit that is done, under
\* way, or asked for: no request is lost between the check and the request.
RequestNotLost ==
    \A p \in Proc : pc[p] = "wait" =>
        \/ h_tid[p] <= j_commit_sequence
        \/ h_tid[p] = j_committing
        \/ h_tid[p] = j_running /\ j_commit_request = j_running

\* Osync orders: a commit record is written only after those of all earlier
\* transactions, errors and aborts included.
WrittenInOrder ==
    \A t \in written : \A u \in Tid : u < t => u \in written

\* What osync, dsync and sync_fs promise at least: when the call returns
\* success its transaction and all earlier ones have been written.
AckedIsWritten ==
    \A u \in Tid : u <= acked["sync"] => u \in written

\* A dsync request stands: while its caller waits and the transaction has not
\* been picked up for commit, the transaction stays marked for a flush.
DsyncFlagKept ==
    \A p \in Proc :
        (pc[p] = "wait" /\ h_kind[p] = "dsync" /\ h_tid[p] = j_running
            /\ kj \in {"loop", "begin"})
        => t_durable_commit[j_running]

\* What dsync is documented to give: when it returns success, its transaction
\* and all earlier ones are on the platter.
DsyncDurable ==
    \A u \in Tid : u <= acked["dsync"] => u \in durable

\* j_commit_sequence moves one transaction at a time and is never ahead of
\* what was asked for.
CommitsOneByOne ==
    [][ /\ j_commit_sequence' = j_commit_sequence + 1
        /\ j_commit_sequence' <= j_commit_request' ]_j_commit_sequence

\* Every call comes back: nobody waits forever for a commit, for a locked
\* transaction or for a full one, unless the model ran out of transaction ids.
EveryCallReturns ==
    \A p \in Proc :
        (pc[p] # "idle") ~> (pc[p] = "idle" \/ (j_running = 0 /\ j_sequence > MaxTid))

\* The commits a crash would keep: recovery stops at the first one missing.
Kept == {t \in Tid : \A u \in Tid : u <= t => u \in durable}

Acked(k) == {t \in Tid : t <= acked[k]}

Ordered == INSTANCE OrderedJournal WITH
             Barriers <- BARRIER, kept <- Kept, ordered <- Acked("sync"),
             durable <- Acked("dsync"), stopped <- j_aborted

\* The journal, with all its interleavings of handles, requests, kjournald2,
\* failures and the disk, does what OrderedJournal promises: in particular no
\* commit is written and no call succeeds after an error, and what a crash
\* keeps never shrinks.
KeepsPromises == Ordered!Spec

-----------------------------------------------------------------------------
(* The inductive invariant behind the safety properties.                     *)

B(b) == IF b THEN 1 ELSE 0

\* Tids are handed out one by one: committed, committing, running, next.
SequenceInv ==
    /\ j_running # 0 => j_running = j_sequence - 1
    /\ j_committing # 0 => j_committing = j_sequence - 1 - B(j_running # 0)
    /\ j_commit_sequence = j_sequence - 1 - B(j_running # 0) - B(j_committing # 0)

\* Where kjournald2 is, what it is working on and what was asked for.
KjInv ==
    /\ (j_committing # 0) <=> (kj \notin {"loop", "begin", "lock", "drain"})
    /\ kj \in {"begin", "lock", "drain"} => j_running # 0 /\ j_commit_request = j_running
    /\ j_running # 0 =>
          t_state[j_running] = IF kj = "drain" THEN "T_LOCKED" ELSE "T_RUNNING"
    /\ \/ j_running # 0 /\ j_commit_request = j_running
       \/ kj = "loop" /\ j_commit_request = j_commit_sequence
       \/ j_committing # 0 /\ j_commit_request = j_committing

\* What the processes inside the journal rely on.
ProcInv ==
    /\ i_sync_tid < j_sequence
    /\ \A p \in Proc :
          /\ h_tid[p] < j_sequence
          /\ pc[p] \in Open \cup {"reserved", "excess"}
                => h_tid[p] = j_running /\ j_running # 0
          /\ pc[p] \in {"request", "restart", "full", "wait"} => h_tid[p] # 0
          /\ pc[p] \in {"lock", "prepare", "asleep", "mutex", "locked", "unlock"}
                => h_kind[p] = "flush"
          /\ h_kind[p] = "flush" => pc[p] \notin Open \cup
                {"idle", "start", "alloc", "reserved", "excess", "request", "restart",
                 "full"}
          /\ (pc[p] = "stop" /\ h_kind[p] # "update") => j_commit_request = j_running
          /\ (pc[p] = "wait" /\ h_tid[p] = j_running) => j_commit_request = j_running

\* What locking out updates gives: also nobody is about to get a handle.
BarrierInv ==
    /\ Quiesced
    /\ (\E p \in Proc : pc[p] \in {"reserved", "excess"}) => ~Barred

\* What the disk holds.
DiskInv ==
    /\ \A u \in written :
          u <= j_commit_sequence \/ (u = j_committing /\ kj \in {"barrier", "finish"})
    /\ WrittenInOrder
    /\ ~j_aborted => \A u \in Tid :
          (u <= j_commit_sequence \/ (u = j_committing /\ kj \in {"barrier", "finish"}))
            => u \in written
    /\ AckedIsWritten
    /\ acked["dsync"] <= acked["sync"]
    /\ acked["sync"] <= j_commit_sequence
    /\ BARRIER => \A u \in written :
          u \in durable \/ (ASYNC_COMMIT /\ u = j_committing /\ kj = "barrier")

IInv == TypeOK /\ SequenceInv /\ KjInv /\ ProcInv /\ BarrierInv /\ DiskInv
=============================================================================
