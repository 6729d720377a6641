------------------------------- MODULE Buffers -------------------------------
(***************************************************************************)
(* Journal heads: how a buffer moves between the lists of the running and  *)
(* the committing transaction (transaction.c, the buffer loops of          *)
(* commit.c, jbdbf_journal_write_metadata_buffer).                         *)
(*                                                                         *)
(* Processes open handles, ask for write access, change a buffer and mark  *)
(* it dirty, while the journal thread copies the buffers of the previous   *)
(* transaction to the log.  The contents of a buffer are a version number. *)
(* Metadata and overwritten file data go to the log; the data of a newly   *)
(* allocated file block is written in place at commit and only named by a  *)
(* tag.  A block is truncated in the order the file system does it: the    *)
(* inode is shrunk in a transaction, the page is invalidated outside any,  *)
(* the block is freed in a later handle.                                   *)
(*                                                                         *)
(* One step is what happens under one hold of the state lock of the        *)
(* buffer (with j_list_lock inside it).  When in-place writes reach the    *)
(* platter is the subject of Checkpoint; here a write takes effect at once.*)
(***************************************************************************)
EXTENDS Integers, FiniteSets, FiniteSetsExt

CONSTANTS
  Meta,          \* metadata blocks
  Data,          \* file blocks of a file whose data is journalled
  Procs,
  MaxTid,        \* bound: transactions
  MaxVersion,    \* bound: changes to buffers
  MaxInPlay,     \* bound: blocks in use in one behaviour
  Appends,       \* whether free file blocks are allocated
  Overtakes,     \* whether a block is written again while its append commits
  Retracts,      \* whether an append is truncated in its own transaction
  Deletes,       \* whether the next transaction frees metadata it changed
                 \* while the previous one is still committing it
  Interferes,    \* whether a checkpoint meets a buffer that a write has cleaned
                 \* and not yet filed
  Drops,         \* whether the error of an in-place write is dropped: by reclaim, which
                 \* releases the buffer all the same, or by the asynchronous record of
                 \* a commit, whose own result takes the place of that of its data
  MayFail        \* whether writes and allocations fail

Blocks   == Meta \cup Data
Tids     == 1 .. MaxTid
Versions == 0 .. MaxVersion
None     == -1          \* b_frozen_data == NULL, nothing logged
Lists    == {"None", "Reserved", "Metadata", "Shadow", "Forget", "Dirtydata"}

ASSUME ConstantsAssumption ==
  /\ Meta \cap Data = {}
  /\ MaxTid \in Nat \ {0} /\ MaxVersion \in Nat /\ MaxInPlay \in Nat
  /\ {Appends, Overtakes, Retracts, Deletes, Interferes, Drops, MayFail} \subseteq BOOLEAN

VARIABLES
  running, committing,   \* j_running_transaction, j_committing_transaction; 0: NULL
  last,          \* the newest transaction
  phase,         \* where jbdbf_journal_commit_transaction is
  todo,          \* data buffers it has yet to issue
  buf,           \* journal head and buffer head of every block
  io,            \* where the log I/O of a block takes its contents from
  pc, h_tid, h_buf,      \* a process, its transaction, the buffer it works on
  h_frozen,      \* frozen_buffer of do_get_write_access is allocated
  h_dirty,       \* do_journal_get_write_access found the file block dirty
  aborted,       \* JBD2_ABORT
  tail,          \* j_tail_sequence
  home,          \* contents of the blocks in place
  log,           \* log[t][b]: contents of b in the log of t
  committed,     \* transactions with a commit record (0: the initial state)
  version,       \* the newest version
  wrote, tags,   \* blocks of the running transaction: changed; newly appended
  closed,        \* closed[t][b]: contents of b when t was closed, if t changed it
  tagged,        \* tagged[t]: the data tags of t
  use,           \* what the file system uses the block for
  born, orphan, freed,   \* transactions that allocated, shrank, freed it; 0: none
  eio            \* buffers with BH_Write_EIO: their last write in place failed

commitVars == <<running, committing, last, phase, todo, committed, closed, tagged>>
procVars   == <<pc, h_tid, h_buf, h_frozen, h_dirty>>
blockVars  == <<use, born, orphan, freed, eio>>
vars == <<commitVars, procVars, blockVars, buf, io, aborted, tail, home, log, version,
          wrote, tags>>

-----------------------------------------------------------------------------
(* Filing a buffer.  s is the record of its journal head and buffer head. *)

Fresh == [b_transaction |-> 0, b_next_transaction |-> 0, b_jlist |-> "None",
          b_modified |-> FALSE, b_frozen_data |-> None, b_cp_transaction |-> 0,
          data |-> 0, dirty |-> FALSE, jbddirty |-> FALSE, freed |-> FALSE, bug |-> FALSE]

(* J_ASSERT: a condition that does not hold is recorded in the buffer. *)
J_ASSERT(s, cond) == [s EXCEPT !.bug = @ \/ ~cond]

(* Without a transaction and a checkpoint the journal head goes away. *)
put_journal_head(s) ==
  IF s.b_transaction = 0 /\ s.b_cp_transaction = 0
  THEN [J_ASSERT(s, s.b_next_transaction = 0 /\ s.b_jlist = "None")
        EXCEPT !.b_frozen_data = None, !.b_modified = FALSE]
  ELSE s

temp_unlink(s) ==
  IF s.b_jlist = "None" THEN s
  ELSE [s EXCEPT !.b_jlist = "None", !.jbddirty = FALSE, !.dirty = @ \/ s.jbddirty]

unfile(s) == put_journal_head([temp_unlink(s) EXCEPT !.b_transaction = 0])

(* A buffer that is dirty keeps its jbddirty bit: || does not test both. *)
file(s, t, jlist) ==
  LET checked  == J_ASSERT(s, s.b_transaction \in {0, t})
      journal  == jlist \in {"Metadata", "Reserved", "Shadow", "Forget"}
      wasdirty == journal /\ (s.dirty \/ s.jbddirty)
      clean    == IF ~journal THEN checked
                  ELSE IF s.dirty THEN [checked EXCEPT !.dirty = FALSE]
                       ELSE [checked EXCEPT !.jbddirty = FALSE]
      off      == IF s.b_transaction # 0 THEN temp_unlink(clean) ELSE clean
  IN  IF s.b_transaction # 0 /\ s.b_jlist = jlist THEN checked
      ELSE [off EXCEPT !.b_transaction = t, !.b_jlist = jlist, !.jbddirty = @ \/ wasdirty]

(* Deviation: b_next_transaction is not reset. *)
refileKeepsNext(s) ==
  LET off   == temp_unlink([s EXCEPT !.jbddirty = FALSE])
      moved == [off EXCEPT !.b_transaction = s.b_next_transaction]
      jlist == IF s.freed THEN "Forget" ELSE IF s.b_modified THEN "Metadata" ELSE "Reserved"
      filed == file(moved, s.b_next_transaction, jlist)
  IN  IF s.b_next_transaction = 0 THEN unfile(s)
      ELSE [filed EXCEPT !.jbddirty = @ \/ s.jbddirty]

refile(s) ==
  LET off   == temp_unlink([s EXCEPT !.jbddirty = FALSE])
      moved == [off EXCEPT !.b_transaction = s.b_next_transaction, !.b_next_transaction = 0]
      jlist == IF s.freed THEN "Forget" ELSE IF s.b_modified THEN "Metadata" ELSE "Reserved"
      filed == file(moved, s.b_next_transaction, jlist)
  IN  IF s.b_next_transaction = 0 THEN unfile(s)
      ELSE J_ASSERT([filed EXCEPT !.jbddirty = @ \/ s.jbddirty],
                    s.b_next_transaction = running)

On(t, jlist) == {b \in Blocks : buf[b].b_transaction = t /\ buf[b].b_jlist = jlist}

-----------------------------------------------------------------------------
Init ==
  /\ running = 0 /\ committing = 0 /\ last = 0
  /\ phase = "none" /\ todo = {}
  /\ buf = [b \in Blocks |-> Fresh]
  /\ io = [b \in Blocks |-> "none"]
  /\ pc = [p \in Procs |-> "idle"] /\ h_tid = [p \in Procs |-> 0]
  /\ h_buf = [p \in Procs |-> "none"]
  /\ h_frozen = [p \in Procs |-> FALSE] /\ h_dirty = [p \in Procs |-> FALSE]
  /\ aborted = FALSE /\ tail = 1
  /\ home = [b \in Blocks |-> 0]
  /\ log = [t \in Tids |-> [b \in Blocks |-> None]]
  /\ committed = {0} /\ version = 0
  /\ wrote = {} /\ tags = {}
  /\ closed = [t \in Tids |-> [b \in Blocks |-> None]]
  /\ tagged = [t \in Tids |-> {}]
  /\ use \in [Blocks -> {"used", "free", "off"}]
  /\ Cardinality({b \in Blocks : use[b] # "off"}) <= MaxInPlay
  /\ \A b \in Blocks : use[b] = "free" => Appends \/ b \in Meta
  /\ born = [b \in Blocks |-> 0] /\ orphan = [b \in Blocks |-> 0]
  /\ freed = [b \in Blocks |-> 0] /\ eio = {}

-----------------------------------------------------------------------------
(* Handles *)

Goto(p, where) == pc' = [pc EXCEPT ![p] = where]

(* p is done with its buffer and keeps its handle. *)
Leave(p) ==
  /\ Goto(p, "open")
  /\ h_buf' = [h_buf EXCEPT ![p] = "none"]
  /\ h_frozen' = [h_frozen EXCEPT ![p] = FALSE]
  /\ h_dirty' = [h_dirty EXCEPT ![p] = FALSE]
  /\ UNCHANGED h_tid

At(b) == {p \in Procs : h_buf[p] = b}

jbdbf_journal_start(p) ==
  /\ pc[p] = "idle" /\ ~aborted /\ phase # "locked"
  /\ IF running # 0
     THEN UNCHANGED <<running, last, wrote, tags>>
     ELSE /\ last < MaxTid
          /\ last' = last + 1 /\ running' = last + 1
          /\ wrote' = {} /\ tags' = {}
  /\ h_tid' = [h_tid EXCEPT ![p] = running']
  /\ Goto(p, "open")
  /\ UNCHANGED <<committing, phase, todo, committed, closed, tagged, h_buf, h_frozen, h_dirty,
                 blockVars, buf, io, aborted, tail, home, log, version>>

jbdbf_journal_stop(p) ==
  /\ pc[p] \in {"open", "shrunk"}
  /\ Goto(p, "idle")
  /\ h_tid' = [h_tid EXCEPT ![p] = 0]
  /\ h_buf' = [h_buf EXCEPT ![p] = "none"]
  /\ UNCHANGED <<commitVars, h_frozen, h_dirty, blockVars, buf, io, aborted, tail, home, log, version,
                 wrote, tags>>

-----------------------------------------------------------------------------
(* do_get_write_access *)

(* ext4bf_journal_get_write_access.  A file block is changed with its page     *)
(* locked, and do_journal_get_write_access first takes its dirty bit away.     *)
(* An append that is committing is written again only where Overtakes says so. *)
GetWriteAccess(p, b) ==
  /\ pc[p] = "open" /\ use[b] = "used" /\ version < MaxVersion /\ ~aborted
  /\ b \in Data => At(b) = {}
  /\ b \in On(committing, "Dirtydata") => Overtakes
  /\ Goto(p, "access")
  /\ h_buf' = [h_buf EXCEPT ![p] = b]
  /\ h_dirty' = [h_dirty EXCEPT ![p] = b \in Data /\ buf[b].dirty]
  /\ buf' = IF b \in Data THEN [buf EXCEPT ![b].dirty = FALSE] ELSE buf
  /\ UNCHANGED <<commitVars, h_tid, h_frozen, blockVars, io, aborted, tail, home, log,
                 version, wrote, tags>>

(* A dirty buffer becomes a jbddirty one, with the buffer locked. *)
Undirty(p) ==
  LET s == buf[h_buf[p]] IN
  IF ~s.dirty THEN s
  ELSE [J_ASSERT(s, s.b_transaction # 0 =>
                      /\ s.b_transaction \in {h_tid[p], committing}
                      /\ s.b_next_transaction \in {0, h_tid[p]})
        EXCEPT !.dirty = FALSE, !.jbddirty = TRUE]

Owned(p) ==
  h_tid[p] \in {buf[h_buf[p]].b_transaction, buf[h_buf[p]].b_next_transaction}

(* The buffer as this transaction first touches it. *)
Touched(p) == [Undirty(p) EXCEPT !.b_modified = FALSE]

(* The buffer is owned by the committing transaction, which has no copy of it. *)
Older(p) ==
  /\ pc[p] = "access" /\ ~aborted /\ ~Owned(p)
  /\ buf[h_buf[p]].b_frozen_data = None /\ buf[h_buf[p]].b_transaction # 0

OlderChecked(p) ==
  J_ASSERT(Touched(p), /\ buf[h_buf[p]].b_next_transaction = 0
                       /\ buf[h_buf[p]].b_transaction = committing)

SetBuf(p, s) == buf' = [buf EXCEPT ![h_buf[p]] = s]

Granted(p, s) ==
  /\ SetBuf(p, s)
  /\ Goto(p, "granted")
  /\ h_frozen' = [h_frozen EXCEPT ![p] = FALSE]

accessUnchanged == UNCHANGED <<commitVars, h_tid, h_dirty, blockVars, io, aborted, tail, home, log,
                               version, wrote, tags>>

AccessAborted(p) ==
  /\ pc[p] = "access" /\ aborted
  /\ SetBuf(p, Undirty(p))
  /\ Leave(p)
  /\ UNCHANGED <<commitVars, blockVars, io, aborted, tail, home, log, version, wrote, tags>>

AccessOwned(p) ==
  /\ pc[p] = "access" /\ ~aborted /\ Owned(p)
  /\ Granted(p, Undirty(p))
  /\ UNCHANGED h_buf /\ accessUnchanged

AccessFrozen(p) ==
  /\ pc[p] = "access" /\ ~aborted /\ ~Owned(p)
  /\ buf[h_buf[p]].b_frozen_data # None
  /\ Granted(p, [J_ASSERT(Touched(p), buf[h_buf[p]].b_next_transaction = 0)
                 EXCEPT !.b_next_transaction = h_tid[p]])
  /\ UNCHANGED h_buf /\ accessUnchanged

(* Deviation: a buffer under log I/O is handed out as well. *)
AccessForgetOrShadow(p) ==
  /\ Older(p) /\ buf[h_buf[p]].b_jlist \in {"Forget", "Shadow"}
  /\ Granted(p, [OlderChecked(p) EXCEPT !.b_next_transaction = h_tid[p]])
  /\ UNCHANGED h_buf /\ accessUnchanged

AccessForget(p) ==
  /\ Older(p) /\ buf[h_buf[p]].b_jlist = "Forget"
  /\ Granted(p, [OlderChecked(p) EXCEPT !.b_next_transaction = h_tid[p]])
  /\ UNCHANGED h_buf /\ accessUnchanged

AccessCopy(p) ==
  /\ Older(p) /\ buf[h_buf[p]].b_jlist \notin {"Shadow", "Forget"} /\ h_frozen[p]
  /\ Granted(p, [OlderChecked(p) EXCEPT !.b_frozen_data = buf[h_buf[p]].data,
                                        !.b_next_transaction = h_tid[p]])
  /\ UNCHANGED h_buf /\ accessUnchanged

(* The copy is allocated without the lock, and everything is looked at again. *)
AccessAlloc(p) ==
  /\ Older(p) /\ buf[h_buf[p]].b_jlist \notin {"Shadow", "Forget"} /\ ~h_frozen[p]
  /\ SetBuf(p, OlderChecked(p))
  /\ Goto(p, "alloc")
  /\ UNCHANGED <<h_buf, h_frozen>> /\ accessUnchanged

AllocFrozen(p) ==
  /\ pc[p] = "alloc"
  /\ \/ /\ Goto(p, "access")
        /\ h_frozen' = [h_frozen EXCEPT ![p] = TRUE]
        /\ UNCHANGED <<h_tid, h_buf, h_dirty>>
     \/ MayFail /\ Leave(p)
  /\ UNCHANGED <<commitVars, blockVars, buf, io, aborted, tail, home, log, version, wrote, tags>>

AccessFile(p) ==
  /\ pc[p] = "access" /\ ~aborted /\ ~Owned(p)
  /\ buf[h_buf[p]].b_frozen_data = None /\ buf[h_buf[p]].b_transaction = 0
  /\ Granted(p, file(J_ASSERT(Touched(p), buf[h_buf[p]].b_next_transaction = 0),
                     h_tid[p], "Reserved"))
  /\ UNCHANGED h_buf /\ accessUnchanged

(* The log I/O reads the buffer itself: sleep until it is over. *)
AccessShadow(p) ==
  /\ Older(p) /\ buf[h_buf[p]].b_jlist = "Shadow"
  /\ SetBuf(p, OlderChecked(p))
  /\ Goto(p, "shadow")
  /\ UNCHANGED <<h_buf, h_frozen>> /\ accessUnchanged

ShadowPrepare(p) ==
  /\ pc[p] = "shadow"
  /\ Goto(p, "queued")
  /\ UNCHANGED <<h_buf, h_frozen, buf>> /\ accessUnchanged

ShadowCheck(p) ==
  /\ pc[p] = "queued"
  /\ Goto(p, IF buf[h_buf[p]].b_jlist = "Shadow" THEN "asleep" ELSE "access")
  /\ UNCHANGED <<h_buf, h_frozen, buf>> /\ accessUnchanged

(* Deviation: the end of the log I/O wakes nobody. *)
WokenNobody(b) == pc

(* wake_up_bit(BH_Unshadow): the processes that sleep on b. *)
Woken(b) == [p \in Procs |-> IF pc[p] = "asleep" /\ h_buf[p] = b THEN "shadow" ELSE pc[p]]

AccessStep(p) ==
  \/ AccessAborted(p) \/ AccessOwned(p) \/ AccessFrozen(p) \/ AccessForget(p)
  \/ AccessCopy(p) \/ AccessAlloc(p) \/ AllocFrozen(p) \/ AccessFile(p)
  \/ AccessShadow(p) \/ ShadowPrepare(p) \/ ShadowCheck(p)

-----------------------------------------------------------------------------
(* Changing a buffer *)

Modify(p) ==
  /\ pc[p] \in {"granted", "created"} /\ ~h_dirty[p] /\ version < MaxVersion
  /\ version' = version + 1
  /\ buf' = [buf EXCEPT ![h_buf[p]].data = version + 1]
  /\ Goto(p, "modified")
  /\ UNCHANGED <<commitVars, h_tid, h_buf, h_frozen, h_dirty, blockVars, io, aborted, tail, home, log,
                 wrote, tags>>

(* The caller decides not to change it; a write to a file block always does. *)
jbdbf_journal_release_buffer(p) ==
  /\ pc[p] = "granted" /\ h_buf[p] \in Meta
  /\ Leave(p)
  /\ UNCHANGED <<commitVars, blockVars, buf, io, aborted, tail, home, log, version, wrote, tags>>

Metadata(s, t) ==
  LET dirty == [s EXCEPT !.b_modified = TRUE, !.jbddirty = TRUE] IN
  IF s.b_transaction = t /\ s.b_jlist = "Metadata"
  THEN J_ASSERT([s EXCEPT !.b_modified = TRUE], t = running)
  ELSE IF s.b_transaction # t
       THEN J_ASSERT(dirty, s.b_transaction = committing /\ s.b_next_transaction = t)
       ELSE file(J_ASSERT(dirty, s.b_frozen_data = None), t, "Metadata")

jbdbf_journal_dirty_metadata(p) ==
  /\ pc[p] = "modified"
  /\ IF aborted THEN UNCHANGED <<buf, wrote>>
     ELSE /\ SetBuf(p, Metadata(buf[h_buf[p]], h_tid[p]))
          /\ wrote' = wrote \cup {h_buf[p]}
  /\ Leave(p)
  /\ UNCHANGED <<commitVars, blockVars, io, aborted, tail, home, log, version, tags>>

(* A file block that was dirty is filed before it is changed. *)
DirtyAgain(p) ==
  /\ pc[p] = "granted" /\ h_dirty[p]
  /\ IF aborted THEN UNCHANGED <<buf, wrote>>
     ELSE /\ SetBuf(p, Metadata(buf[h_buf[p]], h_tid[p]))
          /\ wrote' = wrote \cup {h_buf[p]}
  /\ h_dirty' = [h_dirty EXCEPT ![p] = FALSE]
  /\ UNCHANGED <<commitVars, pc, h_tid, h_buf, h_frozen, blockVars, io, aborted, tail, home, log,
                 version, tags>>

(* A freed block is allocated again when the transaction that freed it has finished. *)
Available(b) ==
  \/ use[b] = "free"
  \/ use[b] = "freed" /\ freed[b] \in committed /\ freed[b] # committing

Allocate(p, b) ==
  /\ use' = [use EXCEPT ![b] = "used"]
  /\ born' = [born EXCEPT ![b] = h_tid[p]]
  /\ orphan' = [orphan EXCEPT ![b] = 0] /\ freed' = [freed EXCEPT ![b] = 0]

CreateAccess(s, t) ==
  LET checked == J_ASSERT(s, /\ \/ s.b_transaction \in {0, t}
                                \/ s.b_transaction = committing /\ s.b_jlist = "Forget"
                             /\ s.b_next_transaction = 0)
  IN  IF s.b_transaction = 0
      THEN file([checked EXCEPT !.dirty = FALSE, !.b_modified = FALSE], t, "Reserved")
      ELSE IF s.b_transaction = committing
           THEN [checked EXCEPT !.b_modified = FALSE, !.b_next_transaction = t]
           ELSE checked

jbdbf_journal_get_create_access(p, b) ==
  /\ pc[p] = "open" /\ b \in Meta /\ Available(b) /\ ~aborted /\ version < MaxVersion
  /\ Allocate(p, b)
  /\ buf' = [buf EXCEPT ![b] = CreateAccess(@, h_tid[p])]
  /\ Goto(p, "created")
  /\ h_buf' = [h_buf EXCEPT ![p] = b]
  /\ UNCHANGED <<commitVars, h_tid, h_frozen, h_dirty, eio, io, aborted, tail, home, log, version,
                 wrote, tags>>

(* A file block is allocated with a new buffer, which nobody else knows. *)
Append(p, b) ==
  /\ pc[p] = "open" /\ b \in Data /\ Appends /\ Available(b) /\ ~aborted
  /\ version < MaxVersion
  /\ Allocate(p, b)
  /\ buf' = [buf EXCEPT ![b] = file(Fresh, h_tid[p], "Reserved")]
  /\ eio' = eio \ {b}
  /\ Goto(p, "new")
  /\ h_buf' = [h_buf EXCEPT ![p] = b]
  /\ UNCHANGED <<commitVars, h_tid, h_frozen, h_dirty, io, aborted, tail, home, log, version,
                 wrote, tags>>

(* Deviation: the data is not marked dirty. *)
DirtydataClean(s, t) == file([s EXCEPT !.b_modified = TRUE], t, "Dirtydata")

Dirtydata(s, t) == file([s EXCEPT !.b_modified = TRUE, !.jbddirty = TRUE], t, "Dirtydata")

(* write_end_fn: the data is copied, its tag is added, the buffer is filed. *)
jbdbf_journal_dirty_data(p) ==
  /\ pc[p] = "new" /\ version < MaxVersion
  /\ version' = version + 1
  /\ LET s == [buf[h_buf[p]] EXCEPT !.data = version + 1] IN
     SetBuf(p, IF aborted THEN s ELSE Dirtydata(s, h_tid[p]))
  /\ tags' = tags \cup {h_buf[p]}
  /\ Leave(p)
  /\ UNCHANGED <<commitVars, blockVars, io, aborted, tail, home, log, wrote>>

-----------------------------------------------------------------------------
(* Freeing a block *)

Forget(s, t) ==
  LET unmodified == [s EXCEPT !.b_modified = FALSE]
      clean == [J_ASSERT(unmodified, s.b_frozen_data = None)
                EXCEPT !.dirty = FALSE, !.jbddirty = FALSE]
  IN  IF s.b_transaction = t
      THEN IF s.b_cp_transaction # 0 THEN file(temp_unlink(clean), t, "Forget")
                                     ELSE unfile(clean)
      ELSE IF s.b_transaction # 0
           THEN [J_ASSERT(unmodified, /\ s.b_transaction = committing
                                      /\ s.b_next_transaction \in {0, t})
                 EXCEPT !.b_next_transaction = 0]
           ELSE IF s.b_cp_transaction # 0 THEN unmodified ELSE s

jbdbf_journal_forget(p, b) ==
  /\ pc[p] = "open" /\ b \in Meta /\ use[b] = "used" /\ At(b) = {}
  /\ b \in wrote /\ buf[b].b_transaction = committing => Deletes
  /\ buf' = [buf EXCEPT ![b] = Forget(@, h_tid[p])]
  /\ wrote' = wrote \ {b}
  /\ use' = [use EXCEPT ![b] = "freed"]
  /\ freed' = [freed EXCEPT ![b] = h_tid[p]]
  /\ orphan' = [orphan EXCEPT ![b] = h_tid[p]]
  /\ UNCHANGED <<commitVars, procVars, born, eio, io, aborted, tail, home, log, version, tags>>

(* Truncation, first handle: the inode is shrunk and on the orphan list. *)
Shrink(p, b) ==
  /\ pc[p] = "open" /\ b \in Data /\ use[b] = "used" /\ At(b) = {} /\ ~aborted
  /\ use' = [use EXCEPT ![b] = "orphan"]
  /\ orphan' = [orphan EXCEPT ![b] = h_tid[p]]
  /\ Goto(p, "shrunk")
  /\ h_buf' = [h_buf EXCEPT ![p] = b]
  /\ UNCHANGED <<commitVars, h_tid, h_frozen, h_dirty, born, freed, eio, buf, io, aborted, tail,
                 home, log, version, wrote, tags>>

(* Deviation: a checkpoint does not pin a truncated buffer. *)
DisposeAtOnce(s, t) == unfile(s)

Dispose(s, t) ==
  IF s.b_cp_transaction # 0
  THEN file([temp_unlink(s) EXCEPT !.dirty = FALSE], t, "Forget")
  ELSE unfile(s)

Zap(s) == J_ASSERT([s EXCEPT !.dirty = FALSE], ~s.jbddirty)

(* journal_unmap_buffer *)
Unmap(s) ==
  IF s.b_transaction = 0
  THEN IF s.b_cp_transaction = 0 \/ ~s.dirty THEN Zap(s)
       ELSE IF running # 0 THEN Dispose(s, running)
       ELSE IF committing # 0 THEN Dispose(s, committing)
       ELSE Zap([s EXCEPT !.jbddirty = FALSE])
  ELSE IF s.b_transaction = committing
       THEN [s EXCEPT !.freed = TRUE,
                      !.b_next_transaction = IF running # 0 /\ s.jbddirty THEN running ELSE @]
       ELSE Zap(Dispose(J_ASSERT(s, s.b_transaction = running), s.b_transaction))

jbdbf_journal_invalidatepage(b) ==
  /\ use[b] = "orphan" /\ At(b) = {}
  /\ b \in tags /\ buf[b].b_transaction = running => Retracts
  /\ buf' = [buf EXCEPT ![b] = Unmap(@)]
  /\ wrote' = wrote \ {b}
  /\ use' = [use EXCEPT ![b] = "unmapped"]
  /\ UNCHANGED <<commitVars, procVars, born, orphan, freed, eio, io, aborted, tail, home, log,
                 version, tags>>

(* Truncation, second handle: the block is freed in the bitmap. *)
FreeBlocks(p, b) ==
  /\ pc[p] = "open" /\ use[b] = "unmapped" /\ ~aborted
  /\ use' = [use EXCEPT ![b] = "freed"]
  /\ freed' = [freed EXCEPT ![b] = h_tid[p]]
  /\ UNCHANGED <<commitVars, procVars, born, orphan, eio, buf, io, aborted, tail, home, log,
                 version, wrote, tags>>

-----------------------------------------------------------------------------
(* jbdbf_journal_commit_transaction *)

CommitLock ==
  /\ phase = "none" /\ running # 0
  /\ phase' = "locked"
  /\ UNCHANGED <<running, committing, last, todo, committed, closed, tagged, procVars, blockVars,
                 buf, io, aborted, tail, home, log, version, wrote, tags>>

(* No handle is left: unused reservations are dropped and the transaction is closed. *)
CommitSwitch ==
  /\ phase = "locked" /\ \A p \in Procs : h_tid[p] # running
  /\ buf' = [b \in Blocks |-> IF b \in On(running, "Reserved") THEN refile(buf[b]) ELSE buf[b]]
  /\ phase' = "data" /\ todo' = On(running, "Dirtydata")
  /\ committing' = running /\ running' = 0
  /\ closed' = [closed EXCEPT ![running] =
                  [b \in Blocks |-> IF b \in wrote \cup tags THEN buf[b].data ELSE None]]
  /\ tagged' = [tagged EXCEPT ![running] = tags \ wrote]
  /\ wrote' = {} /\ tags' = {}
  /\ UNCHANGED <<last, committed, procVars, blockVars, io, aborted, tail, home, log, version>>

(* write_dirty_buffer: a buffer that is not dirty is not written.  A write that   *)
(* fails leaves a clean buffer too, with its error; the next one clears the error.*)
Written(b, ok) ==
  /\ ~ok => MayFail /\ (buf[b].b_jlist = "Dirtydata" => Drops)
  /\ home' = IF ok /\ buf[b].dirty THEN [home EXCEPT ![b] = buf[b].data] ELSE home
  /\ eio' = IF ~buf[b].dirty THEN eio ELSE IF ok THEN eio \ {b} ELSE eio \cup {b}
  /\ buf' = [buf EXCEPT ![b].dirty = FALSE]

IssueData ==
  /\ phase = "data"
  /\ \/ \E b \in todo, ok \in BOOLEAN :
          /\ Written(b, ok)
          /\ todo' = todo \ {b}
          /\ UNCHANGED phase
     \/ /\ todo = {} /\ phase' = "log"
        /\ UNCHANGED <<todo, home, eio, buf>>
  /\ UNCHANGED <<running, committing, last, committed, closed, tagged, procVars, use, born,
                 orphan, freed, io, aborted, tail, log, version, wrote, tags>>

(* jbdbf_journal_write_metadata_buffer.  A block that starts with the magic   *)
(* number of the journal is copied and escaped, and logged from the copy.     *)
WriteMetadata(b, escape) ==
  LET s    == J_ASSERT(buf[b], buf[b].jbddirty)
      copy == IF escape /\ s.b_frozen_data = None THEN [s EXCEPT !.b_frozen_data = s.data] ELSE s
  IN  /\ buf' = [buf EXCEPT ![b] = file(copy, committing, "Shadow")]
      /\ io' = [io EXCEPT ![b] = IF copy.b_frozen_data = None THEN "page" ELSE "frozen"]

LogBuffer ==
  /\ phase = "log"
  /\ \/ \E b \in On(committing, "Metadata") :
          /\ ~aborted
          /\ \E escape \in BOOLEAN : WriteMetadata(b, escape)
          /\ UNCHANGED phase
     \/ \E b \in On(committing, "Metadata") :
          /\ aborted
          /\ buf' = [buf EXCEPT ![b] = refile([@ EXCEPT !.jbddirty = FALSE])]
          /\ UNCHANGED <<phase, io>>
     \/ /\ On(committing, "Metadata") = {}
        /\ phase' = "wait_for_data"
        /\ UNCHANGED <<buf, io>>
  /\ UNCHANGED <<running, committing, last, todo, committed, closed, tagged, procVars, blockVars,
                 aborted, tail, home, log, version, wrote, tags>>

(* The disk takes the contents at any time between submission and completion. *)
LogIO ==
  /\ \E b \in Blocks :
       /\ io[b] \in {"page", "frozen"}
       /\ io' = [io EXCEPT ![b] = "done"]
       /\ log' = [log EXCEPT ![committing][b] =
                     IF io[b] = "page" THEN buf[b].data ELSE buf[b].b_frozen_data]
  /\ UNCHANGED <<commitVars, procVars, blockVars, buf, aborted, tail, home, version, wrote, tags>>

WaitForData ==
  /\ phase = "wait_for_data"
  /\ \/ \E b \in On(committing, "Dirtydata") :
          /\ buf' = [buf EXCEPT ![b] = refile(@)]
          /\ UNCHANGED phase
     \/ /\ On(committing, "Dirtydata") = {}
        /\ phase' = "wait_for_iobuf"
        /\ UNCHANGED buf
  /\ UNCHANGED <<running, committing, last, todo, committed, closed, tagged, procVars, blockVars, io,
                 aborted, tail, home, log, version, wrote, tags>>

Unshadow(s) == file(J_ASSERT(s, s.jbddirty), committing, "Forget")

WaitForIobuf ==
  /\ phase = "wait_for_iobuf"
  /\ \/ \E b \in Blocks :
          /\ io[b] = "done"
          /\ io' = [io EXCEPT ![b] = "none"]
          /\ buf' = [buf EXCEPT ![b] = Unshadow(@)]
          /\ pc' = Woken(b)
          /\ UNCHANGED phase
     \/ /\ \A b \in Blocks : io[b] = "none"
        /\ phase' = "record"
        /\ UNCHANGED <<io, buf, pc>>
  /\ UNCHANGED <<running, committing, last, todo, committed, closed, tagged, h_tid, h_buf,
                 h_frozen, h_dirty, blockVars, aborted, tail, home, log, version, wrote, tags>>

CommitRecord ==
  /\ phase = "record"
  /\ phase' = "forget"
  /\ committed' = IF aborted THEN committed ELSE committed \cup {committing}
  /\ UNCHANGED <<running, committing, last, todo, closed, tagged, procVars, blockVars, buf, io,
                 aborted, tail, home, log, version, wrote, tags>>

(* Deviation: a buffer that was truncated is checkpointed like any other. *)
CheckpointedFreed(s) ==
  refile([s EXCEPT !.b_frozen_data = None, !.freed = FALSE,
                   !.b_cp_transaction = IF s.jbddirty THEN committing ELSE 0])

(* The copy is dropped, the old checkpoint with it, and the buffer is        *)
(* checkpointed with this transaction if it is still to be written.          *)
Checkpointed(s) ==
  LET bare  == [s EXCEPT !.b_frozen_data = None, !.b_cp_transaction = 0]
      live  == IF s.freed /\ s.b_next_transaction = 0
               THEN [bare EXCEPT !.freed = FALSE, !.jbddirty = FALSE] ELSE bare
  IN  refile(IF live.jbddirty
             THEN [live EXCEPT !.b_cp_transaction = committing, !.jbddirty = ~aborted]
             ELSE J_ASSERT(live, ~live.dirty))

ForgetBuffer ==
  /\ phase = "forget"
  /\ \/ \E b \in On(committing, "Forget") :
          /\ buf' = [buf EXCEPT ![b] = Checkpointed(@)]
          /\ UNCHANGED <<phase, committing>>
     \/ /\ On(committing, "Forget") = {}
        /\ phase' = "none" /\ committing' = 0
        /\ UNCHANGED buf
  /\ UNCHANGED <<running, last, todo, committed, closed, tagged, procVars, blockVars, io,
                 aborted, tail, home, log, version, wrote, tags>>

CommitStep ==
  \/ CommitSwitch \/ IssueData \/ LogBuffer \/ WaitForData \/ WaitForIobuf
  \/ CommitRecord \/ ForgetBuffer

-----------------------------------------------------------------------------
(* Writeback and the log tail, in brief (see Checkpoint) *)

WriteBack(b) ==
  /\ buf[b].dirty
  /\ \E ok \in BOOLEAN : Written(b, ok)
  /\ UNCHANGED <<commitVars, procVars, use, born, orphan, freed, io, aborted, tail, log, version,
                 wrote, tags>>

Uncheckpoint(b) ==
  /\ (\E p \in At(b) : h_dirty[p]) => Interferes
  /\ buf[b].b_cp_transaction # 0 /\ buf[b].b_jlist = "None" /\ ~buf[b].dirty
  /\ buf' = [buf EXCEPT ![b] = put_journal_head([@ EXCEPT !.b_cp_transaction = 0])]
  /\ UNCHANGED <<commitVars, procVars, blockVars, io, tail, home, log, version, wrote, tags>>

(* __try_to_free_cp_buf keeps the buffer of a failed write on its list;      *)
(* __journal_try_to_free_buffer does not look at the error.                  *)
RemoveCheckpoint(b) ==
  /\ b \in eio => Drops
  /\ Uncheckpoint(b)
  /\ UNCHANGED aborted

(* The checkpoint takes the buffer of a failed write off the list and aborts *)
(* the journal.                                                              *)
FailCheckpoint(b) ==
  /\ b \in eio
  /\ Uncheckpoint(b)
  /\ aborted' = TRUE

(* Deviation: an empty log starts one transaction later. *)
FirstTidLate ==
  LET checkpoints == {buf[b].b_cp_transaction : b \in Blocks} \ {0, committing} IN
  IF checkpoints # {} THEN Min(checkpoints)
  ELSE IF committing # 0 THEN committing
  ELSE IF running # 0 THEN running ELSE last + 2

FirstTid ==
  LET checkpoints == {buf[b].b_cp_transaction : b \in Blocks} \ {0, committing} IN
  IF checkpoints # {} THEN Min(checkpoints)
  ELSE IF committing # 0 THEN committing
  ELSE IF running # 0 THEN running ELSE last + 1

jbdbf_cleanup_journal_tail ==
  /\ ~aborted /\ tail # FirstTid
  /\ tail' = FirstTid
  /\ UNCHANGED <<commitVars, procVars, blockVars, buf, io, aborted, home, log, version, wrote, tags>>

Abort ==
  /\ MayFail /\ ~aborted
  /\ aborted' = TRUE
  /\ UNCHANGED <<commitVars, procVars, blockVars, buf, io, tail, home, log, version, wrote, tags>>

-----------------------------------------------------------------------------
Next ==
  \/ \E p \in Procs :
       \/ jbdbf_journal_start(p) \/ jbdbf_journal_stop(p)
       \/ AccessStep(p) \/ DirtyAgain(p) \/ Modify(p) \/ jbdbf_journal_release_buffer(p)
       \/ jbdbf_journal_dirty_metadata(p) \/ jbdbf_journal_dirty_data(p)
       \/ \E b \in Blocks :
            \/ GetWriteAccess(p, b) \/ jbdbf_journal_get_create_access(p, b) \/ Append(p, b)
            \/ jbdbf_journal_forget(p, b) \/ Shrink(p, b) \/ FreeBlocks(p, b)
  \/ CommitLock \/ CommitStep \/ LogIO
  \/ \E b \in Blocks :
       \/ jbdbf_journal_invalidatepage(b)
       \/ WriteBack(b) \/ RemoveCheckpoint(b) \/ FailCheckpoint(b)
  \/ jbdbf_cleanup_journal_tail \/ Abort

Spec == Init /\ [][Next]_vars

(* A commit that has begun goes on, its I/O completes, and a process does    *)
(* not stop in the middle of do_get_write_access.                            *)
FairSpec ==
  /\ Spec
  /\ WF_vars(CommitStep) /\ WF_vars(LogIO)
  /\ \A p \in Procs : WF_vars(AccessStep(p))

-----------------------------------------------------------------------------
(* Properties *)

Buffer == [b_transaction : 0 .. MaxTid, b_next_transaction : 0 .. MaxTid, b_jlist : Lists,
           b_modified : BOOLEAN, b_frozen_data : Versions \cup {None},
           b_cp_transaction : 0 .. MaxTid, data : Versions,
           dirty : BOOLEAN, jbddirty : BOOLEAN, freed : BOOLEAN, bug : BOOLEAN]

(* Every variable has its type. *)
TypeOK ==
  /\ {running, committing, last} \subseteq 0 .. MaxTid
  /\ phase \in {"none", "locked", "data", "log", "wait_for_data", "wait_for_iobuf",
                "record", "forget"}
  /\ todo \subseteq Blocks /\ wrote \subseteq Blocks /\ tags \subseteq Data
  /\ buf \in [Blocks -> Buffer]
  /\ io \in [Blocks -> {"none", "page", "frozen", "done"}]
  /\ pc \in [Procs -> {"idle", "open", "access", "alloc", "shadow", "queued", "asleep",
                       "granted", "created", "modified", "new", "shrunk"}]
  /\ h_tid \in [Procs -> 0 .. MaxTid] /\ h_buf \in [Procs -> Blocks \cup {"none"}]
  /\ h_frozen \in [Procs -> BOOLEAN] /\ h_dirty \in [Procs -> BOOLEAN]
  /\ aborted \in BOOLEAN /\ tail \in 1 .. MaxTid + 1
  /\ home \in [Blocks -> Versions] /\ version \in Versions
  /\ log \in [Tids -> [Blocks -> Versions \cup {None}]]
  /\ closed \in [Tids -> [Blocks -> Versions \cup {None}]]
  /\ tagged \in [Tids -> SUBSET Data]
  /\ committed \subseteq 0 .. MaxTid
  /\ use \in [Blocks -> {"off", "used", "free", "orphan", "unmapped", "freed"}]
  /\ born \in [Blocks -> 0 .. MaxTid] /\ orphan \in [Blocks -> 0 .. MaxTid]
  /\ freed \in [Blocks -> 0 .. MaxTid] /\ eio \subseteq Blocks

(* Until the journal is aborted, no J_ASSERT of the modelled functions fails *)
(* and dirty_metadata never reports -EINVAL, whatever processes and the      *)
(* journal thread do.  (An abort leaves copies behind that jbdbf_journal_    *)
(* forget, which is allowed then, does not expect.)                          *)
AssertionsHold == aborted \/ \A b \in Blocks : ~buf[b].bug

(* When the commit record of t is written, its log holds exactly the blocks  *)
(* t changed, each with the contents it had when t was closed, although the  *)
(* next transaction has been changing the same buffers since.                *)
LoggedIsClosed ==
  \A t \in committed \ {0} : \A b \in Blocks \ tagged[t] : log[t][b] = closed[t][b]

(* When the commit record of t is written, the data its tags name is in      *)
(* place: recovery will look for it there.                                   *)
DataInPlace ==
  \A t \in committed \ {0} : \A b \in tagged[t] : home[b] >= closed[t][b]

(* Committed transactions have allocated the block and not truncated it. *)
Live(b) == born[b] \in committed /\ orphan[b] \notin committed \ {0}

Newest(b) == Max({t \in committed : t = 0 \/ (t >= born[b] /\ closed[t][b] # None)})

(* A block that is allocated and not truncated, by committed transactions,   *)
(* has its newest committed contents in place or in a log record that the    *)
(* tail has not passed.  So a buffer is written in place only when it is     *)
(* safe to, and stays on a checkpoint list until it is written, or until the *)
(* transaction that makes it unneeded has committed.                         *)
Recoverable ==
  \A b \in Blocks : Live(b) =>
    LET n == Newest(b) IN
    \/ home[b] = (IF n = 0 THEN 0 ELSE closed[n][b])
    \/ n # 0 /\ tail <= n /\ log[n][b] # None

(* When a truncated block can be allocated again, its old buffer, which has  *)
(* no page any more, will not be written: it is on no list and not dirty.    *)
TruncatedIsClean ==
  \A b \in Data : use[b] = "freed" /\ Available(b) =>
    buf[b].b_transaction = 0 /\ ~buf[b].dirty /\ ~buf[b].jbddirty

(* A process that asks for write access gets an answer: no wake-up of a      *)
(* process that sleeps on a shadowed buffer is lost.                         *)
AccessReturns ==
  \A p \in Procs : pc[p] = "access" ~> pc[p] \in {"granted", "open"}
=============================================================================
