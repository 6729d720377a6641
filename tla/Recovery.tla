------------------------------- MODULE Recovery -------------------------------
(***************************************************************************)
(* Recovery of an OptFS journal (recovery.c, the recovery half of          *)
(* revoke.c) and the commits that filled the log (the tags of commit.c).   *)
(*                                                                         *)
(* A transaction in the log is an optional revoke block, a descriptor      *)
(* with its log blocks, and a commit block.  Its tags say for every block  *)
(* whether it is in the log ("meta": NOTDATA, "over": OVERWRITTENDATA) or  *)
(* only checksummed and written in place ("new": NEWLYAPPENDEDDATA).       *)
(* A transaction always changes further metadata (bitmaps, inodes), so     *)
(* its descriptor always exists.  A block's contents are the tid of the    *)
(* transaction that wrote it, or 0 when the block is all zeroes.           *)
(*                                                                         *)
(* Until the crash the transactions up to dur are on the platter (a flush  *)
(* or the durability delay); of the later ones any part may be.  Recovery  *)
(* takes one step per log block of each of its three passes.  It may       *)
(* itself be interrupted by a crash, and every read may fail.              *)
(***************************************************************************)
EXTENDS Integers, FiniteSets, FiniteSetsExt

CONSTANTS
  Blocks,        \* file system blocks
  None,          \* no block
  Options        \* the mounts and workloads to consider

Ops   == {"none", "meta", "new", "over", "free"}
Parts == {"revoke", "desc", "commit"}

(***************************************************************************)
(* A mount and its workload.  journal: mounted data=journal, which never   *)
(* revokes.  checksum, async: the journal features of the same name.       *)
(* reuse: freed blocks are allocated again.  zeroes: blocks of zeroes are  *)
(* written, and the disk is not zero at first.  over: files are            *)
(* overwritten.  torn: the disk may hold the descriptor and the commit     *)
(* block of a transaction without all of its log blocks.  dsync: every     *)
(* transaction is durable by the time of the crash.  entries: the size of  *)
(* dc_struct (100 in the code).  tids, failures, restarts: the bounds on   *)
(* transactions, failing reads, and recoveries interrupted or repeated.    *)
(***************************************************************************)
Option == [journal : BOOLEAN, checksum : BOOLEAN, async : BOOLEAN, reuse : BOOLEAN,
           zeroes : BOOLEAN, over : BOOLEAN, torn : BOOLEAN, dsync : BOOLEAN,
           entries : Nat \ {0}, tids : Nat \ {0}, failures : Nat, restarts : Nat]

ASSUME ConstantsAssumption ==
  /\ Blocks # {} /\ IsFiniteSet(Blocks) /\ None \notin Blocks
  /\ Options \subseteq Option
  /\ \A o \in Options : o.async => o.checksum

VARIABLES
  opt,             \* the mount
  last,            \* the last transaction whose commit was started
  dur,             \* transactions up to here are on the platter
  op,              \* op[t][b]: what transaction t does to block b
  val,             \* val[t][b]: contents of b after t, when t writes it
  final,           \* final[t]: the log block that t writes last
  owner,           \* what a block is used for
  home,            \* contents of the blocks in place, on the platter
  missing,         \* the first header block of t that is not in the log
  stale,           \* log blocks of t that are not in the log
  fill,            \* what their places in the log hold
  image,           \* home at the crash
  phase,           \* what the program does
  next_commit_ID, part,  \* the log block to be read next
  end_transaction, \* info->end_transaction
  dc,              \* dc_struct: mismatched block -> tid, 0 for no entry
  revokes,         \* j_revoke: revoked block -> tid, 0 for no entry
  mem,             \* blocks in the buffer cache
  crc,             \* crc32_sum of the transaction being scanned
  success,         \* `success' of do_one_pass: an error to be reported
  err,             \* result of jbdbf_journal_recover
  sequence,        \* j_transaction_bf_sequence after recovery
  failures, restarts

diskVars == <<opt, last, dur, op, val, final, owner, missing, stale, fill, image>>
walkVars == <<next_commit_ID, part, end_transaction, dc, revokes, crc, success>>
vars == <<diskVars, walkVars, home, mem, phase, err, sequence, failures, restarts>>

Tids == 1 .. opt.tids

-----------------------------------------------------------------------------
(* What the log says *)

Logged(t) == {b \in Blocks : op[t][b] \in {"meta", "over"}}
New(t)    == {b \in Blocks : op[t][b] = "new"}

(* __ext4bf_forget: data=journal only forgets; otherwise a freed block is  *)
(* revoked (Revoke shows when it is not).                                  *)
Revoked(t) == {b \in Blocks : op[t][b] = "free" /\ ~opt.journal}

FirstPart(t) == IF Revoked(t) # {} THEN "revoke" ELSE "desc"

(* The contents of a log block as recovery reads it. *)
LogBlock(t, b) == IF b \in stale[t] THEN fill ELSE val[t][b]

(* dzat_checksum: whether a block holds anything but zeroes. *)
dzat_checksum(c) == IF c = 0 THEN 0 ELSE 1

(***************************************************************************)
(* The checksum of a transaction.  dzat_checksum takes no running value,   *)
(* so the last block decides; where that is none of Blocks it is another   *)
(* metadata block, which is not zero.                                      *)
(***************************************************************************)
FoundChecksum(t) == IF final[t] = None THEN 1 ELSE dzat_checksum(val[t][final[t]])
ReadChecksum(t)  == IF final[t] = None THEN 1 ELSE dzat_checksum(LogBlock(t, final[t]))

-----------------------------------------------------------------------------
(* Before the crash *)

Init ==
  /\ opt \in Options
  /\ last = 0 /\ dur = 0
  /\ op = [t \in Tids |-> [b \in Blocks |-> "none"]]
  /\ val = [t \in Tids |-> [b \in Blocks |-> 0]]
  /\ final = [t \in Tids |-> None]
  /\ owner = [b \in Blocks |-> "free"]
  /\ home \in [Blocks -> IF opt.zeroes THEN {-1, 0} ELSE {0}]
  /\ missing = [t \in Tids |-> "none"]
  /\ stale = [t \in Tids |-> {}]
  /\ fill = 0
  /\ image = home /\ mem = home
  /\ phase = "run"
  /\ next_commit_ID = 1 /\ part = "desc"
  /\ end_transaction = 0
  /\ dc = [b \in Blocks |-> 0] /\ revokes = [b \in Blocks |-> 0]
  /\ crc = -1
  /\ success = TRUE /\ err = FALSE
  /\ sequence = 0
  /\ failures = 0 /\ restarts = 0

(***************************************************************************)
(* What a transaction may do to a block.  A freed block is allocated       *)
(* again only when the transaction that freed it is durable (the delayed   *)
(* block reuse of mballoc.c).                                              *)
(***************************************************************************)
FreedDurably(b) == \A t \in 1 .. last : op[t][b] = "free" => t <= dur
NeverUsed(b)    == \A t \in 1 .. last : op[t][b] = "none"

Allowed(b) ==
  {"none"} \cup
  CASE owner[b] = "free" -> IF NeverUsed(b) \/ (opt.reuse /\ FreedDurably(b))
                            THEN {"meta", "new"} ELSE {}
    [] owner[b] = "meta" -> {"meta", "free"}
    [] owner[b] = "data" -> {"free"} \cup IF opt.over THEN {"over"} ELSE {}

OwnerAfter(b, o) ==
  CASE o = "none" -> owner[b] [] o = "free" -> "free" [] o = "meta" -> "meta"
    [] o \in {"new", "over"} -> "data"

(***************************************************************************)
(* The tags of one transaction.  New data is tagged with its checksum by   *)
(* write_end_fn and written in place; the rest goes to the log.            *)
(***************************************************************************)
Commit ==
  /\ phase = "run" /\ last < opt.tids
  /\ \E o \in [Blocks -> Ops] :
       /\ \A b \in Blocks : o[b] \in Allowed(b)
       /\ last' = last + 1
       /\ op' = [op EXCEPT ![last + 1] = o]
       /\ owner' = [b \in Blocks |-> OwnerAfter(b, o[b])]
       /\ \E z \in IF opt.zeroes THEN SUBSET {b \in Blocks : o[b] \in {"new", "over"}} ELSE {{}} :
            val' = [val EXCEPT ![last + 1] =
                      [b \in Blocks |-> IF o[b] \in {"none", "free"} \/ b \in z THEN 0 ELSE last + 1]]
       /\ \E f \in Blocks \cup {None} :
            /\ IF opt.checksum THEN f # None => o[f] \in {"meta", "over"} ELSE f = None
            /\ final' = [final EXCEPT ![last + 1] = f]
  /\ UNCHANGED <<opt, dur, home, missing, stale, fill, image, mem, phase, walkVars, err,
                 sequence, failures, restarts>>

(* A flush, or the durability delay, makes transactions durable. *)
Settle ==
  /\ phase = "run" /\ dur < last
  /\ dur' \in dur + 1 .. last
  /\ UNCHANGED <<opt, last, op, val, final, owner, home, missing, stale, fill, image, mem, phase,
                 walkVars, err, sequence, failures, restarts>>

(***************************************************************************)
(* What may be in place for a block at the crash: what was there first,    *)
(* any new data, and what a durable transaction logged (checkpointed after *)
(* the delay), but nothing older than new data that is durable.            *)
(***************************************************************************)
DurableNew(b) == {t \in 1 .. dur : op[t][b] = "new"}

InPlace(b) ==
  LET since == Max({0} \cup DurableNew(b))
  IN (IF since = 0 THEN {home[b]} ELSE {}) \cup
     {val[t][b] : t \in {u \in 1 .. last : u >= since /\
                                           (op[u][b] = "new" \/ (u <= dur /\ op[u][b] \in {"meta", "over"}))}}

(* recover starts: superblock sequence 1, first log block. *)
StartPass(p) ==
  /\ phase' = p
  /\ next_commit_ID' = 1
  /\ part' = IF last = 0 THEN "desc" ELSE FirstPart(1)
  /\ dc' = [b \in Blocks |-> 0]
  /\ crc' = -1
  /\ success' = TRUE

Crash ==
  /\ phase = "run" /\ last > 0
  /\ opt.dsync => dur = last
  /\ home' \in {h \in [Blocks -> -1 .. opt.tids] : \A b \in Blocks : h[b] \in InPlace(b)}
  /\ image' = home' /\ mem' = home'
  /\ missing' \in {m \in [Tids -> Parts \cup {"none"}] :
                     \A t \in Tids : /\ t <= dur \/ t > last => m[t] = "none"
                                     /\ m[t] = "revoke" => FirstPart(t) = "revoke"}
  /\ stale' \in {s \in [Tids -> SUBSET Blocks] :
                   \A t \in Tids : /\ s[t] \subseteq Logged(t)
                                   /\ t <= dur \/ missing'[t] # "none" \/ ~opt.torn => s[t] = {}}
  /\ fill' \in IF opt.torn THEN {-1, 0} ELSE {0}
  /\ StartPass("scan")
  /\ UNCHANGED <<opt, last, dur, op, val, final, owner, end_transaction, revokes, err, sequence,
                 failures, restarts>>

-----------------------------------------------------------------------------
(* One pass over the log: do_one_pass *)

Walking == phase \in {"scan", "revoke", "replay"}

(* Deviation: the sequence number of a header is not compared. *)
StopsAnySequence ==
  \/ phase # "scan" /\ next_commit_ID >= end_transaction
  \/ part = "beyond"
  \/ next_commit_ID > last

(* The loop ends: the known end, or a block that is not of this transaction. *)
Stops ==
  \/ phase # "scan" /\ next_commit_ID >= end_transaction
  \/ part = "beyond"
  \/ next_commit_ID > last
  \/ next_commit_ID <= last /\ missing[next_commit_ID] = part

Here(p) == Walking /\ ~Stops /\ part = p

GoTo(p) == part' = p /\ UNCHANGED next_commit_ID

NextTransaction ==
  /\ next_commit_ID' = next_commit_ID + 1
  /\ part' = IF next_commit_ID < last THEN FirstPart(next_commit_ID + 1) ELSE "desc"

MayFail == failures < opt.failures /\ failures' = failures + 1

(***************************************************************************)
(* dc_struct.  A block already in the table gets the new tid; a block      *)
(* beyond the capacity is only reported.  Blocks of one descriptor are     *)
(* entered in the order of its tags, which may be any.                     *)
(***************************************************************************)
Mismatched(d) == {b \in Blocks : d[b] # 0}

add_to_mismatched_blocks(d, bad, t) ==
  LET room  == opt.entries - Cardinality(Mismatched(d))
      fresh == bad \ Mismatched(d)
      n     == IF Cardinality(fresh) <= room THEN Cardinality(fresh) ELSE room
  IN {[b \in Blocks |-> IF b \in (bad \ fresh) \cup in THEN t ELSE d[b]] : in \in kSubset(n, fresh)}

delete_from_mismatched_blocks(d, gone) == [b \in Blocks |-> IF b \in gone THEN 0 ELSE d[b]]

(***************************************************************************)
(* read_and_verify_checksums: new data whose contents in place do not have *)
(* the checksum of the tag; overwritten data clears an earlier mismatch.   *)
(* A read that fails ends it, and the caller ignores the result.  (The     *)
(* revoke pass calls it too and drops the table.)                          *)
(***************************************************************************)
BadData(t) == {b \in New(t) : dzat_checksum(home[b]) # dzat_checksum(val[t][b])}

Overwritten(t) == {b \in Blocks : op[t][b] = "over"}

read_and_verify_checksums(t) ==
  \/ /\ \E d \in add_to_mismatched_blocks(dc, BadData(t), t) :
          dc' = delete_from_mismatched_blocks(d, Overwritten(t))
     /\ UNCHANGED failures
  \/ /\ MayFail
     /\ \E read \in SUBSET New(t) :
          /\ read # New(t)
          /\ dc' \in add_to_mismatched_blocks(dc, BadData(t) \cap read, t)

(***************************************************************************)
(* calc_chksums, when the transaction checksum is being scanned.  A log    *)
(* block that cannot be read leaves the walk inside the transaction, where *)
(* the next block has no header, unless it was the last one.               *)
(***************************************************************************)
ScanDescriptor ==
  /\ Here("desc") /\ phase = "scan"
  /\ read_and_verify_checksums(next_commit_ID)
  /\ IF opt.checksum /\ end_transaction = 0
       THEN crc' = ReadChecksum(next_commit_ID)
       ELSE UNCHANGED crc
  /\ GoTo("commit")
  /\ UNCHANGED <<diskVars, home, mem, phase, end_transaction, revokes, success, err, sequence,
                 restarts>>

calc_chksums_fails ==
  /\ Here("desc") /\ phase = "scan"
  /\ opt.checksum /\ end_transaction = 0
  /\ MayFail
  /\ \E d \in add_to_mismatched_blocks(dc, BadData(next_commit_ID), next_commit_ID) :
       dc' = delete_from_mismatched_blocks(d, Overwritten(next_commit_ID))
  /\ \/ GoTo("beyond") /\ UNCHANGED crc
     \/ \* the last log block: crc32_sum is that of the block before it
        GoTo("commit") /\ crc' \in {0, 1}
  /\ UNCHANGED <<diskVars, home, mem, phase, end_transaction, revokes, success, err, sequence,
                 restarts>>

(* The revoke pass skips the log blocks. *)
SkipDescriptor ==
  /\ Here("desc") /\ phase = "revoke"
  /\ GoTo("commit")
  /\ UNCHANGED <<diskVars, home, mem, phase, end_transaction, dc, revokes, crc, success, err,
                 sequence, failures, restarts>>

(* jbdbf_journal_test_revoke *)
test_revoke(b, t) == revokes[b] # 0 /\ t <= revokes[b]

(* Deviation: the revoke table is not asked. *)
ReplayedAll(t, read) == Logged(t) \cap read

(***************************************************************************)
(* The replay of a descriptor: every log block that can be read and is not *)
(* revoked goes to the buffer cache.  A failed read is reported at the     *)
(* end.                                                                    *)
(***************************************************************************)
Replayed(t, read) == {b \in Logged(t) \cap read : ~test_revoke(b, t)}

ReplayDescriptor ==
  /\ Here("desc") /\ phase = "replay"
  /\ \E read \in {Logged(next_commit_ID)} \cup
                 {Logged(next_commit_ID) \ {b} : b \in Logged(next_commit_ID)} :
       /\ IF read = Logged(next_commit_ID)
            THEN UNCHANGED <<failures, success>>
            ELSE MayFail /\ success' = FALSE
       /\ mem' = [b \in Blocks |-> IF b \in Replayed(next_commit_ID, read)
                                     THEN LogBlock(next_commit_ID, b) ELSE mem[b]]
  /\ GoTo("commit")
  /\ UNCHANGED <<diskVars, home, phase, end_transaction, dc, revokes, crc, err, sequence, restarts>>

(***************************************************************************)
(* A commit block.  With checksums the scan compares them: a mismatch ends *)
(* the log, and the `break' leaves only the switch, so that the next block *)
(* is read and found to belong to another transaction; with async commit   *)
(* the walk goes on to the next transaction.  A commit block after a       *)
(* failed one ends the walk too.                                           *)
(***************************************************************************)
ScanCommit ==
  /\ Here("commit") /\ phase = "scan" /\ opt.checksum
  /\ \/ /\ end_transaction # 0
        /\ GoTo("beyond") /\ UNCHANGED <<end_transaction, crc>>
     \/ /\ end_transaction = 0 /\ crc # FoundChecksum(next_commit_ID)
        /\ end_transaction' = next_commit_ID
        /\ IF opt.async THEN NextTransaction /\ crc' = -1 ELSE GoTo("beyond") /\ UNCHANGED crc
     \/ /\ end_transaction = 0 /\ crc = FoundChecksum(next_commit_ID)
        /\ NextTransaction /\ crc' = -1 /\ UNCHANGED end_transaction
  /\ UNCHANGED <<diskVars, home, mem, phase, dc, revokes, success, err, sequence, failures, restarts>>

PassCommit ==
  /\ Here("commit") /\ (phase # "scan" \/ ~opt.checksum)
  /\ NextTransaction
  /\ UNCHANGED <<diskVars, home, mem, phase, end_transaction, dc, revokes, crc, success, err,
                 sequence, failures, restarts>>

(* scan_revoke_records with jbdbf_journal_set_revoke: the latest tid counts. *)
set_revoke(b, t) == IF revokes[b] < t THEN t ELSE revokes[b]

ScanRevoke ==
  /\ Here("revoke")
  /\ revokes' = IF phase = "revoke"
                  THEN [b \in Blocks |-> IF b \in Revoked(next_commit_ID)
                                           THEN set_revoke(b, next_commit_ID) ELSE revokes[b]]
                  ELSE revokes
  /\ GoTo("desc")
  /\ UNCHANGED <<diskVars, home, mem, phase, end_transaction, dc, crc, success, err, sequence,
                 failures, restarts>>

(* Deviation: the sequence number is advanced twice. *)
FinishTwice(ok) ==
  /\ phase' = "done"
  /\ sequence' = end_transaction + 2
  /\ revokes' = [b \in Blocks |-> 0]
  /\ home' = mem
  /\ err' = ~ok
  /\ UNCHANGED <<next_commit_ID, part, end_transaction, dc, crc, success>>

(***************************************************************************)
(* The end of jbdbf_journal_recover: the next tid, the empty revoke table, *)
(* and sync_blockdev, which writes the buffer cache.                       *)
(***************************************************************************)
Finish(ok) ==
  /\ phase' = "done"
  /\ sequence' = end_transaction + 1
  /\ revokes' = [b \in Blocks |-> 0]
  /\ home' = mem
  /\ err' = ~ok
  /\ UNCHANGED <<next_commit_ID, part, end_transaction, dc, crc, success>>

(* Deviation: the latest mismatch counts. *)
ScanEndLatest ==
  IF Mismatched(dc) # {} THEN Max({dc[b] : b \in Mismatched(dc)})
  ELSE IF end_transaction = 0 THEN next_commit_ID ELSE end_transaction

(* is_datachecksum_err: the earliest mismatch overrides the end of the log. *)
ScanEnd ==
  IF Mismatched(dc) # {} THEN Min({dc[b] : b \in Mismatched(dc)})
  ELSE IF end_transaction = 0 THEN next_commit_ID ELSE end_transaction

PassDone ==
  /\ Walking /\ Stops
  /\ \/ /\ phase = "scan"
        /\ end_transaction' = ScanEnd
        /\ StartPass("revoke") /\ UNCHANGED <<home, revokes, err, sequence>>
     \/ /\ phase = "revoke" /\ next_commit_ID = end_transaction
        /\ StartPass("replay") /\ UNCHANGED <<home, end_transaction, revokes, err, sequence>>
     \/ /\ phase = "revoke" /\ next_commit_ID # end_transaction
        /\ Finish(FALSE)
     \/ /\ phase = "replay"
        /\ Finish(success /\ next_commit_ID = end_transaction)
  /\ UNCHANGED <<diskVars, mem, failures, restarts>>

(* sync_blockdev fails: some of the replayed blocks are not in place. *)
SyncFails ==
  /\ phase = "replay" /\ Stops
  /\ MayFail
  /\ \E lost \in SUBSET Blocks :
       home' = [b \in Blocks |-> IF b \in lost THEN home[b] ELSE mem[b]]
  /\ phase' = "done" /\ err' = TRUE
  /\ sequence' = end_transaction + 1
  /\ revokes' = [b \in Blocks |-> 0]
  /\ UNCHANGED <<diskVars, next_commit_ID, part, end_transaction, dc, crc, success, mem, restarts>>

(* A header block cannot be read: the pass, and recovery, fail. *)
ReadFails ==
  /\ Walking
  /\ ~(phase # "scan" /\ next_commit_ID >= end_transaction)
  /\ MayFail
  /\ Finish(FALSE)
  /\ UNCHANGED <<diskVars, mem, restarts>>

(* The disk writes a replayed block on its own. *)
WriteBack ==
  /\ Walking
  /\ \E b \in Blocks : home[b] # mem[b] /\ home' = [home EXCEPT ![b] = mem[b]]
  /\ UNCHANGED <<diskVars, walkVars, mem, phase, err, sequence, failures, restarts>>

(* A crash during recovery, or a mount after one that failed. *)
Restart ==
  /\ Walking \/ (phase = "done" /\ err)
  /\ restarts < opt.restarts
  /\ restarts' = restarts + 1
  /\ StartPass("scan")
  /\ end_transaction' = 0
  /\ revokes' = [b \in Blocks |-> 0]
  /\ mem' = home
  /\ err' = FALSE /\ sequence' = 0
  /\ UNCHANGED <<diskVars, home, failures>>

Next ==
  \/ Commit \/ Settle \/ Crash
  \/ ScanDescriptor \/ calc_chksums_fails \/ SkipDescriptor \/ ReplayDescriptor
  \/ ScanCommit \/ PassCommit \/ ScanRevoke \/ PassDone \/ SyncFails \/ ReadFails
  \/ WriteBack \/ Restart

Spec == Init /\ [][Next]_vars

-----------------------------------------------------------------------------
(* Properties *)

(* Type invariant: every variable stays in the range its code gives it. *)
TypeOK ==
  /\ opt \in Options
  /\ last \in 0 .. opt.tids /\ dur \in 0 .. last
  /\ op \in [Tids -> [Blocks -> Ops]]
  /\ val \in [Tids -> [Blocks -> 0 .. opt.tids]]
  /\ final \in [Tids -> Blocks \cup {None}]
  /\ owner \in [Blocks -> {"free", "meta", "data"}]
  /\ {home, image, mem} \subseteq [Blocks -> -1 .. opt.tids]
  /\ missing \in [Tids -> Parts \cup {"none"}]
  /\ stale \in [Tids -> SUBSET Blocks] /\ fill \in {-1, 0}
  /\ phase \in {"run", "scan", "revoke", "replay", "done"}
  /\ next_commit_ID \in 1 .. opt.tids + 1 /\ part \in Parts \cup {"beyond"}
  /\ end_transaction \in 0 .. opt.tids + 1
  /\ {dc, revokes} \subseteq [Blocks -> 0 .. opt.tids]
  /\ crc \in {-1, 0, 1}
  /\ success \in BOOLEAN /\ err \in BOOLEAN
  /\ sequence \in 0 .. opt.tids + 2
  /\ failures \in 0 .. opt.failures /\ restarts \in 0 .. opt.restarts

Recovered == phase = "done" /\ ~err

(* The first transaction that has not all of its header blocks in the log. *)
Gap == Min({t \in 1 .. last + 1 : t = last + 1 \/ missing[t] # "none"})

(* What replaying [1, end_transaction) must leave in block b. *)
Reference(b) ==
  LET alive == {t \in 1 .. end_transaction - 1 :
                  b \in Logged(t) /\ \A r \in t .. end_transaction - 1 : b \notin Revoked(r)}
  IN IF alive = {} THEN image[b] ELSE LogBlock(Max(alive), b)

(* A recovery that reports success has replayed exactly what the revoke    *)
(* table and the end of the log ask for: every block holds its latest log  *)
(* copy that no later transaction revoked, or what it held at the crash,   *)
(* whatever read failed on the way (do_one_pass, set_revoke, test_revoke). *)
ReplayMatchesLog == Recovered => \A b \in Blocks : home[b] = Reference(b)

(* Recovery never takes a transaction without all of its header blocks,    *)
(* nor one behind it, for committed, whatever checksums, data mismatches   *)
(* and failed reads say (PASS_SCAN of do_one_pass, is_datachecksum_err).   *)
NeverPastGap == Recovered => end_transaction <= Gap

(* The contents of block b after transaction n. *)
ContentsAt(b, n) ==
  LET w == {t \in 1 .. n : op[t][b] \in {"meta", "new", "over"}} IN val[Max(w)][b]

InUseAt(b, n) ==
  LET u == {t \in 1 .. n : op[t][b] # "none"} IN u # {} /\ op[Max(u)][b] # "free"

(* The mounts and workloads on which a prefix is to be expected: no block  *)
(* of zeroes is written, and either files only grow on a fresh disk, or    *)
(* freed blocks are revoked and every transaction was flushed.             *)
Grows   == ~opt.reuse /\ ~opt.over /\ ~opt.torn
Flushed == ~opt.journal /\ opt.dsync

Dependable == ~opt.zeroes /\ (Grows \/ Flushed)

LeavesPrefix ==
  /\ dur < end_transaction
  /\ \A b \in Blocks : InUseAt(b, end_transaction - 1) => home[b] = ContentsAt(b, end_transaction - 1)

(* Recovery leaves a prefix of the transactions, with everything that is   *)
(* durable, also when it is interrupted and repeated: each block in use    *)
(* after the last transaction of the prefix has the contents that          *)
(* transaction left.  Not so after a failed read, which the scan takes for *)
(* good data or for the end of the log.                                    *)
RecoveredIsPrefix == Recovered /\ Dependable /\ failures = 0 => LeavesPrefix
=============================================================================
