------------------------------- MODULE Revoke -------------------------------
(***************************************************************************)
(* Revoke records (revoke.c): a block that is freed may still have copies  *)
(* in the log, which must not be replayed over what the block is used for  *)
(* next, so the transaction that frees it revokes it.  Two bits of the     *)
(* buffer in the block device's cache say whether a record is outstanding. *)
(*                                                                         *)
(* The contents of a block are the transaction that last changed it.       *)
(* DelayedReuse shows when a freed block becomes free, Checkpoint when a   *)
(* transaction may leave the log, Recovery how the log is read: here each  *)
(* is one step, or the result.                                             *)
(***************************************************************************)
EXTENDS Integers, FiniteSets, FiniteSetsExt

CONSTANTS
  Blocks,
  MaxTid,        \* bound: transactions; the last one is never committed
  MaxOps,        \* bound: blocks changed or freed
  DataJournal    \* mounted data=journal, which never revokes

ASSUME ConstantsAssumption ==
  MaxTid \in Nat \ {0} /\ MaxOps \in Nat /\ DataJournal \in BOOLEAN

Tids == 1 .. MaxTid

VARIABLES
  use,           \* what a block is used for; "held": freed, but not yet in the buddy
  change,        \* the transaction that last changed or freed it
  logs, news,    \* blocks of the running transaction: to be logged; written in place
  closing,       \* the same two sets of the committing transaction
  bh,            \* the buffer in the block device's cache, with its revoke bits
  tables,        \* the revoke tables of the running and of the committing transaction
  running, phase,        \* the running transaction; where the commit of the one before is
  durable,               \* commit records on the platter
  copies, revokes, frees, \* what each transaction logged, revoked and freed
  after,         \* after[t][b]: use and contents of b when t was closed
  home, tail,    \* contents in place; the first transaction in the log
  ops,           \* blocks changed or freed so far
  eio,           \* blocks whose revoke returned -EIO
  missed,        \* history: blocks freed without a revoke while they had a copy in the log
  switched       \* history: blocks of files whose data mode was changed

fsVars   == <<use, change, logs, news, bh, ops, eio, missed, switched>>
logVars  == <<closing, running, phase, durable, copies, revokes, after>>
diskVars == <<home, tail>>
vars == <<fsVars, tables, logVars, frees, diskVars>>

Init ==
  /\ use \in [Blocks -> IF DataJournal THEN {"free", "meta", "jdata"} ELSE {"free", "meta", "data"}]
  /\ change = [b \in Blocks |-> 0]
  /\ logs = {} /\ news = {} /\ closing = [logs |-> {}, news |-> {}]
  /\ bh = [b \in Blocks |-> "absent"]
  /\ tables = [running |-> {}, committing |-> {}]
  /\ running = 1 /\ phase = "none" /\ durable = {}
  /\ copies = [t \in Tids |-> {}] /\ revokes = [t \in Tids |-> {}] /\ frees = [t \in Tids |-> {}]
  /\ after = [t \in {0} |-> [b \in Blocks |-> [use |-> use[b], is |-> 0]]]
  /\ home = [b \in Blocks |-> 0] /\ tail = 1
  /\ ops = 0 /\ eio = {} /\ missed = {} /\ switched = {}

-----------------------------------------------------------------------------
(* The revoke bits of a buffer: "absent" (no buffer), "plain" (neither bit), *)
(* "valid" (RevokeValid), "revoked" (both).                                  *)

(* Deviation: the Revoked bit is left set. *)
CancelKeepsBit(b) ==
  /\ bh' = [bh EXCEPT ![b] = IF @ = "revoked" THEN @ ELSE "valid"]
  /\ tables' = [tables EXCEPT !.running = @ \ {b}]

(* jbdbf_journal_cancel_revoke on the buffer of the device's cache: with a   *)
(* valid bit that is not set the table is not searched.                      *)
CancelRevoke(b) ==
  /\ bh' = [bh EXCEPT ![b] = "valid"]
  /\ tables' = IF bh[b] = "valid" THEN tables ELSE [tables EXCEPT !.running = @ \ {b}]

(* The same on the buffer of a file's page: the bit of its alias is cleared. *)
CancelAlias(b) ==
  /\ bh' = [bh EXCEPT ![b] = IF @ = "revoked" THEN "valid" ELSE @]
  /\ tables' = [tables EXCEPT !.running = @ \ {b}]

(* jbdbf_journal_revoke.  A buffer that already says revoked is an error. *)
JournalRevoke(b) ==
  \/ bh[b] = "revoked" /\ eio' = eio \cup {b} /\ UNCHANGED <<bh, tables>>
  \/ /\ bh[b] # "revoked"
     /\ bh' = [bh EXCEPT ![b] = "revoked"]
     /\ tables' = [tables EXCEPT !.running = @ \cup {b}]
     /\ UNCHANGED eio

-----------------------------------------------------------------------------
(* The file system *)

Working == ops < MaxOps /\ running < MaxTid /\ eio = {}

Change(b, u) ==
  /\ use' = [use EXCEPT ![b] = u]
  /\ change' = [change EXCEPT ![b] = running]
  /\ ops' = ops + 1
  /\ UNCHANGED <<eio, missed, switched, logVars, frees, diskVars>>

(* get_create_access of a new block, get_write_access of one in use. *)
ChangeMeta(b) ==
  /\ Working /\ use[b] \in {"free", "meta"}
  /\ logs' = logs \cup {b}
  /\ CancelRevoke(b)
  /\ Change(b, "meta")
  /\ UNCHANGED news

(* A block of a file whose data is not journalled: written in place. *)
ChangeData(b) ==
  /\ Working /\ ~DataJournal /\ use[b] \in {"free", "data"}
  /\ news' = news \cup {b}
  /\ Change(b, "data")
  /\ UNCHANGED <<logs, bh, tables>>

(* A block of a file whose data is journalled: its first contents go in place. *)
ChangeJournalled(b) ==
  /\ Working /\ use[b] \in {"free", "jdata"}
  /\ IF use[b] = "free" \/ b \in news
     THEN news' = news \cup {b} /\ UNCHANGED logs
     ELSE logs' = logs \cup {b} /\ UNCHANGED news
  /\ CancelAlias(b)
  /\ Change(b, "jdata")

(* Metadata is read into the device's cache. *)
Read(b) ==
  /\ bh[b] = "absent" /\ use[b] = "meta"
  /\ bh' = [bh EXCEPT ![b] = "plain"]
  /\ UNCHANGED <<use, change, logs, news, ops, eio, missed, switched, tables, logVars, frees, diskVars>>

(* ext4bf_change_inode_journal_flag: updates are locked out and the journal *)
(* is flushed, so nothing is left in the log.                               *)
SwitchMode(b) ==
  /\ Working /\ ~DataJournal /\ use[b] \in {"data", "jdata"}
  /\ logs = {} /\ news = {} /\ phase = "none" /\ tail = running
  /\ use' = [use EXCEPT ![b] = IF @ = "data" THEN "jdata" ELSE "data"]
  /\ switched' = switched \cup {b}
  /\ UNCHANGED <<change, logs, news, bh, ops, eio, missed, tables, logVars, frees, diskVars>>

(* b has a copy that recovery may replay. *)
InLog(b) == b \in closing.logs \/ \E t \in tail .. running - 1 : b \in copies[t]

(* __ext4bf_forget: a data=journal mount does not revoke. *)
Revokes(b) == ~DataJournal /\ use[b] \in {"meta", "jdata"}

(* ext4bf_free_blocks: the block is forgotten if the device's cache has a    *)
(* buffer for it, and is then held back.                                     *)
FreeBlock(b) ==
  /\ Working /\ use[b] \in {"meta", "data", "jdata"}
  /\ \/ bh[b] # "absent" /\ Revokes(b) /\ JournalRevoke(b) /\ UNCHANGED missed
     \/ /\ bh[b] = "absent" \/ ~Revokes(b)
        /\ missed' = IF InLog(b) THEN missed \cup {b} ELSE missed
        /\ UNCHANGED <<bh, tables, eio>>
  /\ use' = [use EXCEPT ![b] = "held"]
  /\ change' = [change EXCEPT ![b] = running]
  /\ logs' = logs \ {b} /\ news' = news \ {b}
  /\ frees' = [frees EXCEPT ![running] = @ \cup {b}]
  /\ ops' = ops + 1
  /\ UNCHANGED <<switched, logVars, diskVars>>

(* Memory pressure: a clean buffer leaves memory, and its bits with it. *)
Evict(b) ==
  /\ bh[b] # "absent" /\ b \notin logs \cup closing.logs
  /\ use[b] = "meta" => home[b] = change[b]
  /\ bh' = [bh EXCEPT ![b] = "absent"]
  /\ UNCHANGED <<use, change, logs, news, ops, eio, missed, switched, tables, logVars, frees, diskVars>>

-----------------------------------------------------------------------------
(* The commit *)

(* The tables are switched: what is revoked from now on is the next's. *)
CommitSwitch ==
  /\ phase = "none" /\ running < MaxTid /\ eio = {}
  /\ logs # {} \/ news # {} \/ frees[running] # {}
  /\ phase' = "data" /\ running' = running + 1
  /\ closing' = [logs |-> logs, news |-> news] /\ logs' = {} /\ news' = {}
  /\ tables' = [running |-> {}, committing |-> tables.running]
  /\ after' = [t \in 0 .. running |->
                 IF t < running THEN after[t]
                 ELSE [b \in Blocks |-> [use |-> use[b], is |-> change[b]]]]
  /\ UNCHANGED <<use, change, bh, ops, eio, missed, switched, durable, copies, revokes, frees, diskVars>>

(* File data goes in place before the log is written. *)
CommitData ==
  /\ phase = "data" /\ phase' = "revoke"
  /\ home' = [b \in Blocks |-> IF b \in closing.news THEN Max({home[b], after[running - 1][b].is})
                               ELSE home[b]]
  /\ UNCHANGED <<fsVars, tables, closing, running, durable, copies, revokes, after, frees, tail>>

(* Deviation: the records of the running transaction are written. *)
WriteRevokesRunning ==
  /\ phase = "revoke" /\ phase' = "record"
  /\ revokes' = [revokes EXCEPT ![running - 1] = tables.running]
  /\ tables' = [tables EXCEPT !.running = {}]
  /\ UNCHANGED <<fsVars, closing, running, durable, copies, after, frees, diskVars>>

(* jbdbf_journal_write_revoke_records, from the table that was switched out. *)
WriteRevokes ==
  /\ phase = "revoke" /\ phase' = "record"
  /\ revokes' = [revokes EXCEPT ![running - 1] = tables.committing]
  /\ tables' = [tables EXCEPT !.committing = {}]
  /\ UNCHANGED <<fsVars, closing, running, durable, copies, after, frees, diskVars>>

CommitRecord ==
  /\ phase = "record" /\ phase' = "none"
  /\ copies' = [copies EXCEPT ![running - 1] = closing.logs]
  /\ closing' = [logs |-> {}, news |-> {}]
  /\ UNCHANGED <<fsVars, tables, running, durable, revokes, after, frees, diskVars>>

CommitStep == CommitSwitch \/ CommitData \/ WriteRevokes \/ CommitRecord

-----------------------------------------------------------------------------
(* The disk, the delayed reuse and the checkpoint *)

(* Transactions with a commit record. *)
Written == 1 .. (IF phase = "none" THEN running - 1 ELSE running - 2)

Settle(t) ==
  /\ t \in Written \ durable
  /\ durable' = durable \cup {t}
  /\ UNCHANGED <<fsVars, tables, closing, running, phase, copies, revokes, after, frees, diskVars>>

(* Transactions up to t are durable: recovery would replay them. *)
Prefix(t) == 1 .. t \subseteq durable

(* Deviation: a block is free when it has been freed. *)
ReleaseAtOnce(b) ==
  /\ use[b] = "held"
  /\ use' = [use EXCEPT ![b] = "free"]
  /\ UNCHANGED <<change, logs, news, bh, ops, eio, missed, switched, tables, logVars, frees, diskVars>>

(* release_blocks_after_delay, by what DelayedReuse shows of it. *)
Release(b) ==
  /\ use[b] = "held" /\ Prefix(change[b])
  /\ use' = [use EXCEPT ![b] = "free"]
  /\ UNCHANGED <<change, logs, news, bh, ops, eio, missed, switched, tables, logVars, frees, diskVars>>

Newest(b) == Max({0} \cup {t \in Written : b \in copies[t]})

(* A block is written in place: file data that is not journalled at any      *)
(* time, a logged one when its transaction is durable and no other has it.   *)
WriteHome(b) ==
  LET v == IF use[b] = "data" THEN change[b] ELSE Newest(b) IN
  /\ use[b] \in {"data", "meta", "jdata"} /\ v > home[b]
  /\ use[b] # "data" => Prefix(v) /\ b \notin logs \cup closing.logs
  /\ home' = [home EXCEPT ![b] = v]
  /\ UNCHANGED <<fsVars, tables, logVars, frees, tail>>

(* Deviation: nobody asks whether there is a transaction to leave. *)
CheckpointEager ==
  /\ tail \in Tids
  /\ tail' = tail + 1
  /\ UNCHANGED <<fsVars, tables, logVars, frees, home>>

(* The oldest transaction leaves the log when its blocks are in place, or    *)
(* belong to a later durable transaction.                                    *)
Checkpoint ==
  /\ Prefix(tail)
  /\ \A b \in copies[tail] :
       home[b] >= tail \/ \E t \in tail + 1 .. running - 1 : Prefix(t) /\ b \in copies[t] \cup frees[t]
  /\ tail' = tail + 1
  /\ UNCHANGED <<fsVars, tables, logVars, frees, home>>

-----------------------------------------------------------------------------
Next ==
  \/ \E b \in Blocks :
       \/ ChangeMeta(b) \/ ChangeData(b) \/ ChangeJournalled(b) \/ SwitchMode(b) \/ Read(b)
       \/ FreeBlock(b) \/ Evict(b) \/ Release(b) \/ WriteHome(b)
  \/ CommitStep \/ Checkpoint
  \/ \E t \in Tids : Settle(t)

Spec == Init /\ [][Next]_vars

-----------------------------------------------------------------------------
(* Properties *)

Uses  == {"free", "meta", "data", "jdata", "held"}

(* Every variable has its type. *)
TypeOK ==
  /\ use \in [Blocks -> Uses] /\ change \in [Blocks -> 0 .. MaxTid]
  /\ {logs, news, eio, missed, switched} \subseteq SUBSET Blocks
  /\ closing \in [logs : SUBSET Blocks, news : SUBSET Blocks]
  /\ bh \in [Blocks -> {"absent", "plain", "valid", "revoked"}]
  /\ tables \in [running : SUBSET Blocks, committing : SUBSET Blocks]
  /\ running \in Tids /\ phase \in {"none", "data", "revoke", "record"}
  /\ durable \subseteq Tids
  /\ {copies, revokes, frees} \subseteq [Tids -> SUBSET Blocks]
  /\ after \in [0 .. running - 1 -> [Blocks -> [use : Uses, is : 0 .. MaxTid]]]
  /\ home \in [Blocks -> 0 .. MaxTid] /\ tail \in 1 .. running
  /\ ops \in 0 .. MaxOps

(* What replaying the log up to transaction e leaves in a block: its newest  *)
(* copy that no revoke record of the same or a later transaction covers.     *)
Recovered(e, b) ==
  LET replayed == {t \in tail .. e : b \in copies[t] /\ \A r \in t .. e : b \notin revokes[r]}
  IN  IF replayed = {} THEN home[b] ELSE Max(replayed)

(* After a crash now, the replay leaves in b what it held when the last      *)
(* transaction of the log was closed (or, in place, file data since then).   *)
Intact(b) ==
  LET e == Max({t \in 0 .. running - 1 : Prefix(t)}) IN
  /\ after[e][b].use \in {"meta", "data", "jdata"} => Recovered(e, b) >= after[e][b].is
  /\ after[e][b].use \in {"meta", "jdata"} /\ b \notin switched => Recovered(e, b) = after[e][b].is

(* A crash at any time: no old copy is replayed over file data written in    *)
(* place since, no copy that is needed is taken for revoked, and no block    *)
(* was given to a new owner that a crash could take back from it, for every  *)
(* block whose freeing was revoked when the log had a copy of it.            *)
ReplaySafe == \A b \in Blocks \ missed : Intact(b)

(* The same of every block: "a metadata block may have been freed from       *)
(* memory but there may still be a record of it in the journal, and that     *)
(* record still needs to be revoked" (ext4bf_jbdbf.c).                       *)
ReplayAlwaysSafe == \A b \in Blocks : Intact(b)

(* Freeing a block that was allocated since it was last freed is never taken *)
(* for a second revoke (which aborts the file system), although the bit that *)
(* says so outlives the transaction and the table, unless the data mode of   *)
(* the file was changed.                                                     *)
RevokeAccepted == eio \subseteq switched

(* The same for every file: "it's illegal to free a block twice without      *)
(* allocating it in between" (revoke.c).                                     *)
RevokeAlwaysAccepted == eio = {}
=============================================================================
