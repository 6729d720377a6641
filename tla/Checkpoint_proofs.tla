-------------------------- MODULE Checkpoint_proofs --------------------------
(***************************************************************************)
(* Proofs about Checkpoint, for every number of blocks, transactions and   *)
(* log slots and every disk that keeps its promise: the write-ahead rule,  *)
(* for which osync relies on delays; crash consistency while the tail      *)
(* stays; and the tail rule, in memory and on the platter.  Each comes     *)
(* with the workloads it holds for.                                        *)
(***************************************************************************)
EXTENDS Checkpoint, Extrema

-----------------------------------------------------------------------------
(* The type invariant, by groups of variables. *)

TxType ==
  /\ load \in Workloads /\ now \in Time /\ running \in OptTid /\ committing \in OptTid
  /\ sequence \in 1 .. load.tids + 1 /\ starting \in BOOLEAN /\ aborted \in BOOLEAN
  /\ mods \in [Tid -> SUBSET Block] /\ committed \subseteq Tid /\ dsynced \subseteq Tid

CType ==
  /\ c_pc \in {"idle", "log", "forget"} /\ c_durable \in BOOLEAN /\ forget \subseteq Block
  /\ t_checkpoint_time \in [Tid -> 0 .. load.time + INTERVAL]

CpType ==
  /\ cpTrans \subseteq Tid
  /\ b_cp_transaction \in [Block -> OptTid] /\ b_io \in [Block -> BOOLEAN]

TailType == tail \in 1 .. load.tids + 1

BufType ==
  /\ b_data \in [Block -> OptTid] /\ b_dirty \in [Block -> BOOLEAN]
  /\ b_err \in [Block -> BOOLEAN]
  /\ b_transaction \in [Block -> OptTid] /\ b_next_transaction \in [Block -> OptTid]
  /\ dropped \in BOOLEAN

DelayType ==
  /\ b_delayed_write \in [Block -> BOOLEAN]
  /\ b_checkpoint_time \in [Block -> 0 .. load.time + INTERVAL]
  /\ w_ready \subseteq Block /\ overtaken \in BOOLEAN

KType ==
  /\ k_pc \in {"idle", "tail", "super", "pick", "scan", "batch", "wait", "out"}
  /\ k_next \in {"pick", "idle"} /\ needs_checkpoint \in BOOLEAN
  /\ k_t \in OptTid /\ k_batch \subseteq Block /\ k_err \in BOOLEAN

FType ==
  /\ f_pc \in {"idle", "commit", "loop", "tail", "super", "mark"}
  /\ f_tid \in OptTid /\ f_err \in BOOLEAN

LogType ==
  /\ logTime \in [Tid -> Time \cup {None}] /\ logDisk \in [Slots -> OptTid] /\ logged \subseteq Tid

HomeType ==
  /\ homeWritten \in [Block -> OptTid] /\ homeDisk \in [Block -> OptTid]
  /\ homeTime \in [Block -> Time \cup {None}]

SbType == sb \in Super /\ sbDisk \in Super /\ sbTime \in Time \cup {None}

(* Two facts of the control that types rest on: a handle that is to start a  *)
(* transaction has a tid for it, and a commit has a transaction.             *)
StartInv ==
  /\ starting => running = 0 /\ sequence <= load.tids
  /\ c_pc = "idle" <=> committing = 0
  /\ k_pc \in {"scan", "batch", "wait"} => k_t # 0

-----------------------------------------------------------------------------
(* The inductive invariant of the write-ahead rule *)

(* The oldest transaction that is not finished; every one, while it is       *)
(* running or committing.                                                    *)
Open == IF committing # 0 THEN committing ELSE IF running # 0 THEN running ELSE sequence

(* Tids are consecutive, the checkpoint lists hold finished transactions, or *)
(* the one that is being forgotten, and the tail is before all of them.      *)
OrderInv ==
  /\ running # 0 => running = sequence - 1
  /\ committing # 0 => committing = (IF running # 0 THEN running - 1 ELSE sequence - 1)
  /\ tail <= Open /\ \A t \in cpTrans : tail <= t /\ t < Open
  /\ \A b \in Block : b_cp_transaction[b] \in cpTrans \cup {0, committing}
  /\ c_pc = "log" => Room(committing)

(* Commit records are written one after the other, until an abort. *)
CommitInv ==
  /\ \A t \in committed : t < Open \/ (t = committing /\ c_pc = "forget")
  /\ \A t \in committed : 1 .. t \subseteq committed
  /\ ~aborted => \A t \in Tid : t < Open => t \in committed
  /\ c_pc = "forget" /\ ~aborted => committing \in committed

(* A block belongs to the committing transaction until it is forgotten, and  *)
(* to the running one if that changed it.                                    *)
OwnerInv ==
  /\ \A t \in Tid : t >= sequence => mods[t] = {}
  /\ \A b \in Block : b_data[b] < sequence
  /\ running # 0 => \A b \in Block : b_data[b] = running <=> b \in mods[running]
  /\ committing = 0 => forget = {}
  /\ committing # 0 =>
       /\ forget \subseteq mods[committing]
       /\ \A b \in Block : b_cp_transaction[b] = committing => b \in mods[committing]
  /\ \A b \in forget :
       /\ b_transaction[b] # 0
       /\ b_next_transaction[b] = 0 => b_data[b] = committing
       /\ b_next_transaction[b] # 0 => running # 0 /\ b_data[b] = running
  /\ \A b \in Block \ forget :
       /\ b_next_transaction[b] = 0
       /\ b_transaction[b] # 0 <=> running # 0 /\ b_data[b] = running

(* The log record of u is on the platter, or not needed any more; so are     *)
(* those up to t; they will be by the time when.                             *)
Passed(u)    == u \in logged \/ u < tail
Safe(t)      == \A u \in 1 .. t : Passed(u)
Due(t, when) == \A u \in 1 .. t : Passed(u) \/ (logTime[u] # None /\ logTime[u] + INTERVAL <= when)

(* The disk has destaged what is as old as the checkpoint interval; at the   *)
(* checkpoint time of a transaction its record is safe, and a checkpoint     *)
(* only takes up transactions whose records are.                             *)
TimeInv ==
  /\ \A t \in committed : Passed(t) \/ logTime[t] # None
  /\ \A t \in Tid : logTime[t] # None =>
       t \in committed /\ logTime[t] <= now /\ now < logTime[t] + INTERVAL
  /\ \A t \in committed : Due(t, t_checkpoint_time[t])
  /\ c_pc = "forget" /\ c_durable /\ ~aborted => Safe(committing)
  /\ k_pc \in {"scan", "batch"} /\ k_t \in committed => Safe(k_t)

(* A dirty buffer is on the checkpoint list of the transaction that last     *)
(* changed it, and held back until that one is safe.                         *)
DirtyInv ==
  \A b \in Block : b_dirty[b] =>
    /\ b_transaction[b] = 0 /\ b_cp_transaction[b] = b_data[b] /\ b_data[b] \in committed
    /\ b_delayed_write[b] => Due(b_data[b], b_checkpoint_time[b])
    /\ ~b_delayed_write[b] => Safe(b_data[b])

(* What the VM let pass and finds dirty is safe, unless a commit held it     *)
(* back in between.                                                          *)
ReadyInv == ~overtaken => \A b \in w_ready : b_dirty[b] => Safe(b_data[b])

(* While jbdbf_journal_flush runs, once its commit is done, nothing changes  *)
(* blocks, and once its loop is done there is nothing to checkpoint.         *)
Idle(t) == t # 0 => mods[t] = {}

FlushInv ==
  /\ f_err => aborted
  /\ f_pc = "commit" =>
       f_tid < sequence /\ \A t \in {running, committing} : t > f_tid => Idle(t)
  /\ f_pc \in {"loop", "tail", "super", "mark"} => Idle(running) /\ Idle(committing)
  /\ f_pc \in {"tail", "super", "mark"} => cpTrans = {} \/ aborted
  /\ k_pc # "idle" /\ ~needs_checkpoint => f_pc = "loop"

(* Only the callers of a workload checkpoint. *)
CallerInv ==
  /\ f_pc # "idle" => "flush" \in load.callers
  /\ k_pc # "idle" /\ needs_checkpoint => "space" \in load.callers

(* A checkpoint for space runs while the running transaction is stuck for    *)
(* want of it, so that nobody takes back a buffer of its batch.              *)
Stuck == running # 0 /\ mods[running] = {} /\ ~Room(running)

BatchInv ==
  /\ k_pc \in {"scan", "batch"} => k_t < Open
  /\ k_batch # {} => k_pc \in {"scan", "batch"}
  /\ \A b \in k_batch : b_transaction[b] = 0 /\ (b_dirty[b] => b_cp_transaction[b] = k_t)
  /\ \A b \in Block : b_io[b] /\ b_dirty[b] => b \in k_batch
  /\ needs_checkpoint =>
       /\ k_pc = "tail" /\ k_next = "pick" => Stuck
       /\ k_pc \in {"pick", "scan", "batch"} => Stuck

(* What is written in place was safe in the log. *)
HomeInv ==
  ~overtaken => \A b \in Block :
    /\ homeWritten[b] # 0 => homeWritten[b] \in logged /\ Safe(homeWritten[b])
    /\ homeDisk[b] # 0 => homeDisk[b] \in logged /\ Safe(homeDisk[b])

(* Where no handle checkpoints while others change blocks, and checkpoints   *)
(* for space and journal flushes do not meet.                                *)
Quiet == "busy" \notin load.callers /\ ~({"space", "flush"} \subseteq load.callers)

AheadInv ==
  /\ StartInv /\ OrderInv /\ CommitInv /\ OwnerInv /\ TimeInv /\ DirtyInv
  /\ ReadyInv /\ FlushInv /\ CallerInv /\ BatchInv /\ HomeInv

-----------------------------------------------------------------------------
(* Types *)

\* The type invariant is the conjunction of its groups.
LEMMA Groups ==
  TypeOK <=> /\ TxType /\ CType /\ CpType /\ TailType /\ BufType /\ DelayType
             /\ KType /\ FType /\ LogType /\ HomeType /\ SbType
BY DEF TypeOK, TxType, CType, CpType, TailType, BufType, DelayType, KType, FType, LogType, HomeType, SbType

LEMMA GroupsNext ==
  ASSUME TxType', CType', CpType', TailType', BufType', DelayType', KType', FType', LogType', HomeType', SbType'
  PROVE  TypeOK'
BY DEF TypeOK, TxType, CType, CpType, TailType, BufType, DelayType, KType, FType, LogType, HomeType, SbType

\* The bounds of a workload are numbers.
LEMMA LoadTypes ==
  ASSUME load \in Workloads
  PROVE  /\ load.tids \in Nat \ {0} /\ load.time \in Nat /\ load.slots \in Nat \ {0}
         /\ load.kinds \subseteq {"osync", "dsync"} /\ load.callers \subseteq {"space", "busy", "flush"}
         /\ INTERVAL \in Nat \ {0} /\ DISK_DELAY \in Nat /\ DISK_DELAY <= INTERVAL
BY ConstantsAssumption DEF Workload

\* A group keeps its type when its variables and the workload do not change.
LEMMA TxSame ==
  ASSUME TxType, load' = load, now' = now, UNCHANGED txVars, UNCHANGED dsynced
  PROVE  TxType'
BY DEF TxType, txVars, Time, OptTid, Tid

LEMMA CSame ==
  ASSUME CType, load' = load, UNCHANGED cVars
  PROVE  CType'
BY DEF CType, cVars, Tid

LEMMA CpSame ==
  ASSUME CpType, load' = load, UNCHANGED cpVars
  PROVE  CpType'
BY DEF CpType, cpVars, Tid, OptTid

LEMMA TailSame ==
  ASSUME TailType, load' = load, UNCHANGED tail
  PROVE  TailType'
BY DEF TailType

LEMMA BufSame ==
  ASSUME BufType, load' = load, UNCHANGED bufVars
  PROVE  BufType'
BY DEF BufType, bufVars, OptTid

LEMMA DelaySame ==
  ASSUME DelayType, load' = load, UNCHANGED delayVars
  PROVE  DelayType'
BY DEF DelayType, delayVars

LEMMA KSame ==
  ASSUME KType, load' = load, UNCHANGED kVars
  PROVE  KType'
BY DEF KType, kVars, OptTid

LEMMA FSame ==
  ASSUME FType, load' = load, UNCHANGED fVars
  PROVE  FType'
BY DEF FType, fVars, OptTid

LEMMA LogSame ==
  ASSUME LogType, load' = load, UNCHANGED logVars
  PROVE  LogType'
BY DEF LogType, logVars, Time, OptTid, Tid, Slots

LEMMA HomeSame ==
  ASSUME HomeType, load' = load, UNCHANGED homeVars
  PROVE  HomeType'
BY DEF HomeType, homeVars, Time, OptTid

LEMMA SbSame ==
  ASSUME SbType, load' = load, UNCHANGED sbVars
  PROVE  SbType'
BY DEF SbType, sbVars, Time, Super

\* A slot of the log.
LEMMA SlotIs ==
  ASSUME load \in Workloads, NEW t \in Tid
  PROVE  Slot(t) \in Slots
BY LoadTypes DEF Slot, Slots, Tid

\* A flush leaves the log, the blocks and the superblock with their types.
LEMMA FlushDiskIs ==
  ASSUME TypeOK, load' = load, NEW lt \in [Tid -> Time \cup {None}], FlushDisk(lt)
  PROVE  /\ LogType' /\ HomeType' /\ SbType'
         /\ logTime' = [t \in Tid |-> None] /\ logged' = logged \cup {t \in Tid : lt[t] # None}
         /\ homeWritten' = homeWritten /\ homeDisk' = homeWritten
<1> DEFINE new == {t \in Tid : lt[t] # None}
<1>1. /\ logTime' = [t \in Tid |-> None]
      /\ logDisk' = [s \in Slots |-> IF \E t \in new : Slot(t) = s
                                     THEN CHOOSE t \in new : Slot(t) = s ELSE logDisk[s]]
      /\ logged' = logged \cup new
      /\ homeTime' = [b \in Block |-> None] /\ homeDisk' = homeWritten /\ homeWritten' = homeWritten
      /\ sbTime' = None /\ sbDisk' = sb /\ sb' = sb
  BY DEF FlushDisk
<1>2. /\ logDisk \in [Slots -> OptTid] /\ logged \subseteq Tid /\ homeWritten \in [Block -> OptTid] /\ sb \in Super
  BY DEF TypeOK
<1>3. new \subseteq Tid /\ Tid \subseteq OptTid
  BY DEF Tid, OptTid
<1>4. \A s \in Slots : (\E t \in new : Slot(t) = s) => (CHOOSE t \in new : Slot(t) = s) \in OptTid
  BY <1>3
<1>5. logDisk' \in [Slots -> OptTid]
  BY <1>1, <1>2, <1>4
<1>6. /\ Tid' = Tid /\ OptTid' = OptTid /\ Time' = Time /\ Slots' = Slots /\ Super' = Super
  BY DEF Tid, OptTid, Time, Slots, Super
<1>7. LogType'
  BY <1>1, <1>2, <1>3, <1>5, <1>6 DEF LogType
<1>8. HomeType' /\ SbType'
  BY <1>1, <1>2, <1>6 DEF HomeType, SbType
<1> QED
  BY <1>1, <1>7, <1>8

\* An update of the superblock leaves it with its type.
LEMMA UpdateSuperblockIs ==
  ASSUME TypeOK, load' = load, NEW s \in 1 .. load.tids + 1, NEW e \in BOOLEAN,
         UpdateSuperblock(s, e)
  PROVE  SbType'
<1>1. sb \in Super /\ sbDisk \in Super /\ sbTime \in Time \cup {None} /\ now \in Time
  BY DEF TypeOK
<1>2. [seq |-> s, empty |-> e] \in Super
  BY DEF Super
<1>3. Time' = Time /\ Super' = Super
  BY DEF Time, Super
<1> QED
  BY <1>1, <1>2, <1>3 DEF UpdateSuperblock, SbType, sbVars

\* What is taken off the checkpoint lists.
LEMMA RemoveCheckpointIs ==
  ASSUME TypeOK, load' = load, NEW S, RemoveCheckpoint(S)
  PROVE  /\ CpType'
         /\ \A b \in Block : b_cp_transaction'[b] = IF b \in S THEN 0 ELSE b_cp_transaction[b]
         /\ \A b \in Block : b_io'[b] <=> b_io[b] /\ b \notin S
         /\ cpTrans' = {t \in cpTrans : \E b \in Block : b_cp_transaction'[b] = t}
<1>1. /\ b_cp_transaction' = [b \in Block |-> IF b \in S THEN 0 ELSE b_cp_transaction[b]]
      /\ b_io' = [b \in Block |-> b_io[b] /\ b \notin S]
      /\ cpTrans' = {t \in cpTrans : \E b \in Block : b_cp_transaction'[b] = t}
  BY DEF RemoveCheckpoint
<1>2. cpTrans \subseteq Tid /\ b_cp_transaction \in [Block -> OptTid]
  BY DEF TypeOK
<1>3. 0 \in OptTid /\ Tid' = Tid /\ OptTid' = OptTid
  BY LoadTypes DEF TypeOK, Tid, OptTid
<1>4. b_cp_transaction' \in [Block -> OptTid]
  BY <1>1, <1>2, <1>3
<1>5. b_io' \in [Block -> BOOLEAN]
  BY <1>1
<1> QED
  BY <1>1, <1>2, <1>3, <1>4, <1>5 DEF CpType

\* A buffer is written in place.
LEMMA WriteHomeIs ==
  ASSUME TypeOK, load' = load, NEW b \in Block, WriteHome(b)
  PROVE  /\ HomeType' /\ b_dirty' \in [Block -> BOOLEAN] /\ b_err' \in [Block -> BOOLEAN]
         /\ \A c \in Block : c # b => b_dirty'[c] = b_dirty[c]
         /\ \A c \in Block : b_err[c] => b_err'[c] \/ homeWritten'[c] = b_data[c]
         /\ ~b_dirty'[b] /\ homeDisk' = homeDisk
         /\ \A c \in Block : homeWritten'[c] = homeWritten[c] \/ (c = b /\ homeWritten'[c] = b_data[b])
<1>1. /\ homeWritten \in [Block -> OptTid] /\ homeDisk \in [Block -> OptTid]
      /\ homeTime \in [Block -> Time \cup {None}] /\ now \in Time
      /\ b_data \in [Block -> OptTid] /\ b_err \in [Block -> BOOLEAN]
      /\ b_dirty \in [Block -> BOOLEAN]
  BY DEF TypeOK
<1>2. Time' = Time /\ OptTid' = OptTid
  BY DEF Time, OptTid
<1>3. /\ b_dirty' = [b_dirty EXCEPT ![b] = FALSE]
      /\ \/ /\ homeWritten' = [homeWritten EXCEPT ![b] = b_data[b]]
            /\ homeTime' = [homeTime EXCEPT ![b] = now]
            /\ b_err' = [b_err EXCEPT ![b] = FALSE] /\ homeDisk' = homeDisk
         \/ /\ b_err' = [b_err EXCEPT ![b] = TRUE]
            /\ homeWritten' = homeWritten /\ homeTime' = homeTime /\ homeDisk' = homeDisk
  BY DEF WriteHome, homeVars
<1>4. b_err' \in [Block -> BOOLEAN] /\ homeDisk' = homeDisk
  BY <1>1, <1>3
<1>5. HomeType'
  BY <1>1, <1>2, <1>3 DEF HomeType
<1>6. \A c \in Block : homeWritten'[c] = homeWritten[c] \/ (c = b /\ homeWritten'[c] = b_data[b])
  BY <1>1, <1>3
<1>7. \A c \in Block : b_err[c] => b_err'[c] \/ homeWritten'[c] = b_data[c]
  BY <1>1, <1>3
<1> QED
  BY <1>1, <1>3, <1>4, <1>5, <1>6, <1>7

\* The oldest transaction that stays in the log is one, or the next.
LEMMA FirstTidIs ==
  ASSUME TypeOK
  PROVE  FirstTid \in 1 .. load.tids + 1
<1>1. /\ cpTrans \subseteq Tid /\ committing \in OptTid /\ running \in OptTid
      /\ sequence \in 1 .. load.tids + 1 /\ load.tids \in Nat
  BY LoadTypes DEF TypeOK
<1>2. CASE cpTrans # {}
  <2>1. cpTrans \in SUBSET Nat
    BY <1>1 DEF Tid
  <2>2. Min(cpTrans) \in cpTrans
    BY <1>2, <2>1, MinIsSmallest
  <2> QED
    <3>1. FirstTid = Min(cpTrans) /\ Min(cpTrans) \in 1 .. load.tids
      BY <1>1, <1>2, <2>2 DEF FirstTid, Tid
    <3> QED
      BY <1>1, <3>1
<1>3. CASE cpTrans = {}
  BY <1>1, <1>3 DEF FirstTid, OptTid
<1> QED
  BY <1>2, <1>3

-----------------------------------------------------------------------------
(* Types: one lemma for the disk, and one for each action of the journal *)

\* What the disk does on its own, and time.
LEMMA DiskType ==
  ASSUME TypeOK, StartInv, Disk \/ Tick
  PROVE  TypeOK'
<1>1. /\ TxType /\ CType /\ CpType /\ TailType /\ BufType /\ DelayType
      /\ KType /\ FType /\ LogType /\ HomeType /\ SbType
  BY Groups
<1>2. CType' /\ CpType' /\ TailType' /\ BufType' /\ DelayType' /\ KType' /\ FType'
  BY <1>1, CSame, CpSame, TailSame, BufSame, DelaySame, KSame, FSame DEF Disk, DestageLog, TearLog, DestageHome, DestageSuper, Tick
<1>3. TxType'
  <2>1. CASE Disk
    BY <1>1, <2>1, TxSame DEF Disk, DestageLog, TearLog, DestageHome, DestageSuper
  <2>2. CASE Tick
    BY <1>1, <2>2, LoadTypes, SMTT(30) DEF TxType, Tick, txVars, Time, OptTid, Tid
  <2> QED
    BY <2>1, <2>2
<1>4. LogType'
  <2>1. CASE \E t \in Tid : DestageLog(t)
    <3>1. PICK t \in Tid : DestageLog(t)
      BY <2>1
    <3>2. t \in OptTid /\ Slot(t) \in Slots
      BY <1>1, SlotIs DEF TxType, Tid, OptTid
    <3> QED
      BY <1>1, <3>1, <3>2 DEF DestageLog, LogType, Tid, OptTid, Time, Slots
  <2>2. CASE \E t \in Tid : TearLog(t)
    <3>1. PICK t \in Tid : TearLog(t)
      BY <2>2
    <3>2. 0 \in OptTid /\ Slot(t) \in Slots
      BY <1>1, SlotIs, LoadTypes DEF TxType, OptTid
    <3> QED
      BY <1>1, <3>1, <3>2 DEF TearLog, LogType, Tid, OptTid, Time, Slots
  <2>3. CASE (\E b \in Block : DestageHome(b)) \/ DestageSuper \/ Tick
    BY <1>1, <2>3, LogSame DEF DestageHome, DestageSuper, Tick, diskVars
  <2> QED
    BY <2>1, <2>2, <2>3 DEF Disk
<1>5. HomeType'
  <2>1. CASE \E b \in Block : DestageHome(b)
    BY <1>1, <2>1 DEF DestageHome, HomeType, OptTid, Time
  <2>2. CASE (\E t \in Tid : DestageLog(t) \/ TearLog(t)) \/ DestageSuper \/ Tick
    BY <1>1, <2>2, HomeSame DEF DestageLog, TearLog, DestageSuper, Tick, diskVars
  <2> QED
    BY <2>1, <2>2 DEF Disk
<1>6. SbType'
  <2>1. CASE DestageSuper
    BY <1>1, <2>1 DEF DestageSuper, SbType, Super, Time
  <2>2. CASE (\E t \in Tid : DestageLog(t) \/ TearLog(t)) \/ (\E b \in Block : DestageHome(b)) \/ Tick
    BY <1>1, <2>2, SbSame DEF DestageLog, TearLog, DestageHome, Tick, diskVars
  <2> QED
    BY <2>1, <2>2 DEF Disk
<1> QED
  BY <1>2, <1>3, <1>4, <1>5, <1>6, GroupsNext

\* A handle starts a transaction.
LEMMA StartType ==
  ASSUME TypeOK, StartInv, StartHandle \/ StartTransaction
  PROVE  TypeOK'
<1>1. /\ TxType /\ CType /\ CpType /\ TailType /\ BufType /\ DelayType
      /\ KType /\ FType /\ LogType /\ HomeType /\ SbType
  BY Groups
<1>2. CType' /\ CpType' /\ TailType' /\ BufType' /\ DelayType' /\ KType' /\ FType'
  BY <1>1, CSame, CpSame, TailSame, BufSame, DelaySame, KSame, FSame DEF StartHandle, StartTransaction
<1>3. TxType'
  <2>1. CASE StartHandle
    BY <1>1, <2>1 DEF StartHandle, TxType, Time, OptTid, Tid
  <2>2. CASE StartTransaction
    <3>1. sequence \in 1 .. load.tids /\ load.tids \in Nat
      BY <1>1, <2>2, LoadTypes DEF StartTransaction, StartInv, TxType
    <3>2. load' = load /\ running' = sequence /\ sequence' = sequence + 1 /\ starting' = FALSE
      BY <2>2 DEF StartTransaction
    <3>3. sequence \in 0 .. load.tids /\ sequence + 1 \in 1 .. load.tids + 1
      BY <3>1
    <3>4. running' \in OptTid' /\ sequence' \in 1 .. load'.tids + 1 /\ starting' \in BOOLEAN
      BY <3>2, <3>3 DEF OptTid
    <3> QED
      BY <1>1, <2>2, <3>2, <3>4 DEF StartTransaction, TxType, Time, OptTid, Tid
  <2> QED
    BY <2>1, <2>2
<1>4. LogType' /\ HomeType' /\ SbType'
  BY <1>1, LogSame, HomeSame, SbSame DEF StartHandle, StartTransaction, diskVars
<1> QED
  BY <1>2, <1>3, <1>4, GroupsNext

\* A handle changes a block.
LEMMA ModifyType ==
  ASSUME TypeOK, StartInv, NEW b \in Block, Modify(b)
  PROVE  TypeOK'
<1>1. /\ TxType /\ CType /\ CpType /\ TailType /\ BufType /\ DelayType
      /\ KType /\ FType /\ LogType /\ HomeType /\ SbType
  BY Groups
<1>2. CType' /\ CpType' /\ TailType' /\ DelayType' /\ KType' /\ FType'
  BY <1>1, CSame, CpSame, TailSame, DelaySame, KSame, FSame DEF Modify
<1>3. running \in Tid /\ load' = load
  BY <1>1 DEF Modify, TxType, OptTid, Tid
<1>4. TxType'
  BY <1>1, <1>3 DEF Modify, TxType, Time, OptTid, Tid
<1>5. BufType'
  <2>1. running \in OptTid /\ OptTid' = OptTid
    BY <1>1, <1>3 DEF TxType, OptTid
  <2>2. /\ b_data' = [b_data EXCEPT ![b] = running] /\ b_dirty' = [b_dirty EXCEPT ![b] = FALSE]
        /\ b_err' = b_err /\ dropped' = dropped
        /\ \/ b_transaction' = [b_transaction EXCEPT ![b] = running] /\ b_next_transaction' = b_next_transaction
           \/ b_next_transaction' = [b_next_transaction EXCEPT ![b] = running] /\ b_transaction' = b_transaction
    BY DEF Modify
  <2> QED
    BY <1>1, <2>1, <2>2 DEF BufType
<1>6. LogType' /\ HomeType' /\ SbType'
  BY <1>1, LogSame, HomeSame, SbSame DEF Modify, diskVars
<1> QED
  BY <1>2, <1>3, <1>4, <1>5, <1>6, GroupsNext

\* The switch of a commit.
LEMMA CommitStartType ==
  ASSUME TypeOK, StartInv, NEW kind, CommitStart(kind)
  PROVE  TypeOK'
<1>1. /\ TxType /\ CType /\ CpType /\ TailType /\ BufType /\ DelayType
      /\ KType /\ FType /\ LogType /\ HomeType /\ SbType
  BY Groups
<1>2. TailType' /\ BufType' /\ DelayType' /\ KType' /\ FType' /\ LogType' /\ HomeType'
  BY <1>1, TailSame, BufSame, DelaySame, KSame, FSame, LogSame, HomeSame DEF CommitStart
<1>3. running \in Tid /\ load' = load
  BY <1>1 DEF CommitStart, TxType, OptTid, Tid
<1>4. TxType'
  BY <1>1, <1>3 DEF CommitStart, TxType, Time, OptTid, Tid
<1>5. CType'
  BY <1>1, <1>3 DEF CommitStart, TxType, CType, Tid
<1>6. CpType'
  BY <1>3, RemoveCheckpointIs DEF CommitStart
<1>7. SbType'
  BY <1>1, <1>3, UpdateSuperblockIs, SbSame DEF CommitStart, TailType
<1> QED
  BY <1>2, <1>3, <1>4, <1>5, <1>6, <1>7, GroupsNext

\* The log blocks and the commit record are written.
LEMMA CommitLogType ==
  ASSUME TypeOK, StartInv, CommitLog
  PROVE  TypeOK'
<1>1. /\ TxType /\ CType /\ CpType /\ TailType /\ BufType /\ DelayType
      /\ KType /\ FType /\ LogType /\ HomeType /\ SbType
  BY Groups
<1>2. CpType' /\ TailType' /\ BufType' /\ DelayType' /\ KType' /\ FType'
  BY <1>1, CpSame, TailSame, BufSame, DelaySame, KSame, FSame DEF CommitLog
<1>3. committing \in Tid /\ load' = load
  BY <1>1 DEF CommitLog, StartInv, TxType, OptTid, Tid
<1>4. TxType'
  BY <1>1, <1>3 DEF CommitLog, TxType, Time, OptTid, Tid
<1>5. CType'
  <2>1. /\ now \in 0 .. load.time + INTERVAL /\ now + INTERVAL \in 0 .. load.time + INTERVAL
    BY <1>1, LoadTypes DEF TxType, Time
  <2> QED
    BY <1>1, <1>3, <2>1 DEF CommitLog, CType, Tid
<1>6. LogType' /\ HomeType' /\ SbType'
  <2> DEFINE lt == [t \in Tid |-> IF aborted THEN logTime[t]
                                  ELSE IF t = committing THEN now
                                  ELSE IF Slot(t) = Slot(committing) THEN None ELSE logTime[t]]
  <2>1. lt \in [Tid -> Time \cup {None}]
    BY <1>1 DEF TxType, LogType
  <2>2. IF c_durable THEN FlushDisk(lt)
        ELSE logTime' = lt /\ UNCHANGED <<logDisk, logged, homeVars, sbVars>>
    BY DEF CommitLog
  <2> HIDE DEF lt
  <2>3. CASE c_durable
    BY <1>3, <2>1, <2>2, <2>3, FlushDiskIs
  <2>4. CASE ~c_durable
    <3>1. LogType'
      BY <1>1, <1>3, <2>1, <2>2, <2>4 DEF LogType, Tid, OptTid, Time, Slots
    <3> QED
      BY <1>1, <1>3, <2>2, <2>4, <3>1, HomeSame, SbSame
  <2> QED
    BY <2>3, <2>4
<1> QED
  BY <1>2, <1>3, <1>4, <1>5, <1>6, GroupsNext

\* One buffer of the committing transaction moves to its checkpoint list.
LEMMA CommitForgetType ==
  ASSUME TypeOK, StartInv, NEW b \in Block, CommitForget(b)
  PROVE  TypeOK'
<1>1. /\ TxType /\ CType /\ CpType /\ TailType /\ BufType /\ DelayType
      /\ KType /\ FType /\ LogType /\ HomeType /\ SbType
  BY Groups
<1>2. TxType' /\ TailType' /\ KType' /\ FType'
  BY <1>1, TxSame, TailSame, KSame, FSame DEF CommitForget
<1>3. committing \in OptTid /\ load' = load /\ Tid' = Tid /\ OptTid' = OptTid
  BY <1>1 DEF CommitForget, TxType, OptTid, Tid
<1>4. CType'
  BY <1>1, <1>3 DEF CommitForget, CType
<1>5. CpType'
  BY <1>1, <1>3 DEF CommitForget, CpType
<1>6. BufType'
  <2>1. /\ b_transaction' = [b_transaction EXCEPT ![b] = b_next_transaction[b]]
        /\ b_next_transaction' = [b_next_transaction EXCEPT ![b] = 0]
        /\ b_dirty' = [b_dirty EXCEPT ![b] = b_next_transaction[b] = 0 /\ ~aborted]
        /\ b_data' = b_data /\ b_err' = b_err /\ dropped' = dropped
    BY DEF CommitForget
  <2>2. 0 \in OptTid
    BY <1>1, LoadTypes DEF TxType, OptTid
  <2>3. b_transaction' \in [Block -> OptTid] /\ b_next_transaction' \in [Block -> OptTid]
    BY <1>1, <2>1, <2>2 DEF BufType
  <2>4. b_dirty' \in [Block -> BOOLEAN]
    BY <1>1, <2>1 DEF BufType
  <2> QED
    BY <1>1, <1>3, <2>1, <2>3, <2>4 DEF BufType
<1>7. DelayType'
  <2>1. now + INTERVAL \in 0 .. load.time + INTERVAL
    BY <1>1, LoadTypes DEF TxType, Time
  <2>2. CASE c_durable
    BY <1>1, <1>3, <2>2, DelaySame DEF CommitForget
  <2>3. CASE ~c_durable
    <3>1. (overtaken \/ b \in w_ready) \in BOOLEAN
      OBVIOUS
    <3> QED
      BY <1>1, <1>3, <2>1, <2>3, <3>1 DEF CommitForget, DelayType
  <2> QED
    BY <2>2, <2>3
<1>8. LogType' /\ HomeType' /\ SbType'
  BY <1>1, LogSame, HomeSame, SbSame DEF CommitForget, diskVars
<1> QED
  BY <1>2, <1>3, <1>4, <1>5, <1>6, <1>7, <1>8, GroupsNext

\* A commit ends.
LEMMA CommitFinishType ==
  ASSUME TypeOK, StartInv, CommitFinish
  PROVE  TypeOK'
<1>1. /\ TxType /\ CType /\ CpType /\ TailType /\ BufType /\ DelayType
      /\ KType /\ FType /\ LogType /\ HomeType /\ SbType
  BY Groups
<1>2. TailType' /\ BufType' /\ DelayType' /\ KType' /\ FType'
  BY <1>1, TailSame, BufSame, DelaySame, KSame, FSame DEF CommitFinish
<1>3. /\ committing \in Tid /\ load' = load /\ Tid' = Tid /\ OptTid' = OptTid /\ Time' = Time
      /\ 0 \in OptTid
  BY <1>1, LoadTypes DEF CommitFinish, StartInv, TxType, OptTid, Tid, Time
<1>4. TxType'
  BY <1>1, <1>3 DEF CommitFinish, TxType
<1>5. CType' /\ CpType'
  BY <1>1, <1>3 DEF CommitFinish, CType, CpType
<1>6. LogType' /\ HomeType' /\ SbType'
  BY <1>1, LogSame, HomeSame, SbSame DEF CommitFinish, diskVars
<1> QED
  BY <1>2, <1>3, <1>4, <1>5, <1>6, GroupsNext

\* The VM finds the delay of a buffer over.
LEMMA VmTestType ==
  ASSUME TypeOK, StartInv, NEW b \in Block, VmTest(b)
  PROVE  TypeOK'
<1>1. /\ TxType /\ CType /\ CpType /\ TailType /\ BufType /\ DelayType
      /\ KType /\ FType /\ LogType /\ HomeType /\ SbType
  BY Groups
<1>2. TxType' /\ CType' /\ CpType' /\ TailType' /\ BufType' /\ KType' /\ FType'
  BY <1>1, TxSame, CSame, CpSame, TailSame, BufSame, KSame, FSame DEF VmTest
<1>3. LogType' /\ HomeType' /\ SbType'
  BY <1>1, LogSame, HomeSame, SbSame DEF VmTest, diskVars
<1>4. DelayType'
  BY <1>1 DEF VmTest, DelayType
<1> QED
  BY <1>2, <1>3, <1>4, GroupsNext

\* Reclaim takes a buffer off its list.
LEMMA TryToFreeType ==
  ASSUME TypeOK, StartInv, NEW b \in Block, TryToFree(b)
  PROVE  TypeOK'
<1>1. /\ TxType /\ CType /\ CpType /\ TailType /\ BufType /\ DelayType
      /\ KType /\ FType /\ LogType /\ HomeType /\ SbType
  BY Groups
<1>2. TxType' /\ CType' /\ TailType' /\ DelayType' /\ KType' /\ FType'
  BY <1>1, TxSame, CSame, TailSame, DelaySame, KSame, FSame DEF TryToFree
<1>3. LogType' /\ HomeType' /\ SbType'
  BY <1>1, LogSame, HomeSame, SbSame DEF TryToFree, diskVars
<1>4. CpType'
  BY RemoveCheckpointIs DEF TryToFree
<1>5. BufType'
  <2>1. (dropped \/ b_err[b]) \in BOOLEAN
    OBVIOUS
  <2> QED
    BY <1>1, <2>1 DEF TryToFree, BufType, OptTid
<1> QED
  BY <1>2, <1>3, <1>4, <1>5, GroupsNext

\* The VM writes a buffer, if it is dirty.
LEMMA VmWriteType ==
  ASSUME TypeOK, StartInv, NEW b \in Block, VmWrite(b)
  PROVE  TypeOK'
<1>1. /\ TxType /\ CType /\ CpType /\ TailType /\ BufType /\ DelayType
      /\ KType /\ FType /\ LogType /\ HomeType /\ SbType
  BY Groups
<1>2. TxType' /\ CType' /\ CpType' /\ TailType' /\ KType' /\ FType' /\ LogType' /\ SbType'
  BY <1>1, TxSame, CSame, CpSame, TailSame, KSame, FSame, LogSame, SbSame DEF VmWrite
<1>3. DelayType'
  BY <1>1 DEF VmWrite, DelayType
<1>4. HomeType' /\ BufType'
  <2>1. CASE b_dirty[b]
    BY <1>1, <2>1, WriteHomeIs DEF VmWrite, BufType, OptTid
  <2>2. CASE ~b_dirty[b]
    <3>1. HomeType'
      BY <1>1, <2>2, HomeSame DEF VmWrite
    <3> QED
      BY <1>1, <2>2, <3>1 DEF VmWrite, BufType, OptTid
  <2> QED
    BY <2>1, <2>2
<1> QED
  BY <1>2, <1>3, <1>4, GroupsNext

\* A checkpoint for space begins, or a flush asks for one.
LEMMA CheckpointType ==
  ASSUME TypeOK, StartInv, WaitForSpace \/ FlushCheckpoint
  PROVE  TypeOK'
<1>1. /\ TxType /\ CType /\ CpType /\ TailType /\ BufType /\ DelayType
      /\ KType /\ FType /\ LogType /\ HomeType /\ SbType
  BY Groups
<1>2. TxType' /\ CType' /\ CpType' /\ TailType' /\ BufType' /\ DelayType' /\ FType'
  BY <1>1, TxSame, CSame, CpSame, TailSame, BufSame, DelaySame, FSame DEF WaitForSpace, FlushCheckpoint
<1>3. KType'
  BY <1>1 DEF WaitForSpace, FlushCheckpoint, KType, OptTid
<1>4. LogType' /\ HomeType' /\ SbType'
  BY <1>1, LogSame, HomeSame, SbSame DEF WaitForSpace, FlushCheckpoint, diskVars
<1> QED
  BY <1>2, <1>3, <1>4, GroupsNext

\* The tail moves.
LEMMA TailMoveType ==
  ASSUME TypeOK, StartInv, KTail \/ FlushTail
  PROVE  TypeOK'
<1>1. /\ TxType /\ CType /\ CpType /\ TailType /\ BufType /\ DelayType
      /\ KType /\ FType /\ LogType /\ HomeType /\ SbType
  BY Groups
<1>2. TxType' /\ CType' /\ CpType' /\ BufType' /\ DelayType'
  BY <1>1, TxSame, CSame, CpSame, BufSame, DelaySame DEF KTail, FlushTail
<1>3. load' = load /\ tail' \in {tail, FirstTid}
  BY DEF KTail, FlushTail
<1>4. TailType'
  BY <1>1, <1>3, FirstTidIs DEF TailType
<1>5. KType'
  <2>1. CASE KTail
    BY <1>1, <2>1 DEF KTail, KType, OptTid
  <2>2. CASE FlushTail
    BY <1>1, <2>2, KSame DEF FlushTail
  <2> QED
    BY <2>1, <2>2
<1>6. FType'
  <2>1. CASE KTail
    BY <1>1, <2>1, FSame DEF KTail
  <2>2. CASE FlushTail
    BY <1>1, <2>2 DEF FlushTail, FType, OptTid
  <2> QED
    BY <2>1, <2>2
<1>7. LogType' /\ HomeType' /\ SbType'
  BY <1>1, LogSame, HomeSame, SbSame DEF KTail, FlushTail, diskVars
<1> QED
  BY <1>2, <1>3, <1>4, <1>5, <1>6, <1>7, GroupsNext

\* The superblock is written.
LEMMA SuperType ==
  ASSUME TypeOK, StartInv, KSuper \/ FlushSuper
  PROVE  TypeOK'
<1>1. /\ TxType /\ CType /\ CpType /\ TailType /\ BufType /\ DelayType
      /\ KType /\ FType /\ LogType /\ HomeType /\ SbType
  BY Groups
<1>2. TxType' /\ CType' /\ CpType' /\ TailType' /\ BufType' /\ DelayType' /\ LogType' /\ HomeType'
  BY <1>1, TxSame, CSame, CpSame, TailSame, BufSame, DelaySame, LogSame, HomeSame DEF KSuper, FlushSuper
<1>3. load' = load /\ tail \in 1 .. load.tids + 1
  BY <1>1 DEF KSuper, FlushSuper, TailType
<1>4. SbType'
  <2>1. CASE KSuper
    BY <1>1, <1>3, <2>1, UpdateSuperblockIs, SbSame DEF KSuper
  <2>2. CASE FlushSuper
    <3>1. PICK e \in BOOLEAN : e = (f_pc = "mark")
      OBVIOUS
    <3>2. UpdateSuperblock(tail, e)
      BY <2>2, <3>1 DEF FlushSuper
    <3> QED
      BY <1>3, <3>2, UpdateSuperblockIs
  <2> QED
    BY <2>1, <2>2
<1>5. KType'
  <2>1. CASE KSuper
    BY <1>1, <2>1 DEF KSuper, KType, OptTid
  <2>2. CASE FlushSuper
    BY <1>1, <2>2, KSame DEF FlushSuper
  <2> QED
    BY <2>1, <2>2
<1>6. FType'
  <2>1. CASE KSuper
    BY <1>1, <2>1, FSame DEF KSuper
  <2>2. CASE FlushSuper
    BY <1>1, <2>2 DEF FlushSuper, FType, OptTid
  <2> QED
    BY <2>1, <2>2
<1> QED
  BY <1>2, <1>3, <1>4, <1>5, <1>6, GroupsNext

\* A checkpoint takes the first transaction.
LEMMA KPickType ==
  ASSUME TypeOK, StartInv, KPick
  PROVE  TypeOK'
<1>1. /\ TxType /\ CType /\ CpType /\ TailType /\ BufType /\ DelayType
      /\ KType /\ FType /\ LogType /\ HomeType /\ SbType
  BY Groups
<1>2. TxType' /\ CType' /\ CpType' /\ TailType' /\ BufType' /\ DelayType' /\ FType'
  BY <1>1, TxSame, CSame, CpSame, TailSame, BufSame, DelaySame, FSame DEF KPick
<1>3. load' = load /\ k_t' \in OptTid
  <2>1. cpTrans # {} => Min(cpTrans) \in cpTrans
    <3>1. cpTrans \in SUBSET Nat
      BY <1>1, LoadTypes DEF TxType, CpType, Tid
    <3> QED
      BY <3>1, MinIsSmallest
  <2> QED
    BY <1>1, <2>1, LoadTypes DEF KPick, TxType, CpType, Tid, OptTid
<1>4. KType'
  BY <1>1, <1>3 DEF KPick, KType, OptTid
<1>5. LogType' /\ HomeType' /\ SbType'
  <2>1. logTime \in [Tid -> Time \cup {None}]
    BY <1>1 DEF LogType
  <2> QED
    BY <1>1, <1>3, <2>1, FlushDiskIs, LogSame, HomeSame, SbSame DEF KPick, diskVars
<1> QED
  BY <1>2, <1>3, <1>4, <1>5, GroupsNext

\* A checkpoint goes through its lists.
LEMMA KListType ==
  ASSUME TypeOK, StartInv, NEW b \in Block, KProcess(b) \/ KWaitIo(b)
  PROVE  TypeOK'
<1>1. /\ TxType /\ CType /\ CpType /\ TailType /\ BufType /\ DelayType
      /\ KType /\ FType /\ LogType /\ HomeType /\ SbType
  BY Groups
<1>2. TxType' /\ CType' /\ TailType' /\ BufType' /\ DelayType' /\ FType'
  BY <1>1, TxSame, CSame, TailSame, BufSame, DelaySame, FSame DEF KProcess, KWaitIo
<1>3. load' = load
  BY DEF KProcess, KWaitIo
<1>4. CpType'
  <2>1. CASE RemoveCheckpoint({b})
    BY <1>3, <2>1, RemoveCheckpointIs
  <2>2. CASE b_io' = [b_io EXCEPT ![b] = TRUE] /\ cpTrans' = cpTrans /\ b_cp_transaction' = b_cp_transaction
    BY <1>1, <1>3, <2>2 DEF CpType, Tid, OptTid
  <2> QED
    BY <2>1, <2>2 DEF KProcess, KWaitIo
<1>5. KType'
  <2>1. CASE KProcess(b)
    <3>1. (k_err \/ b_err[b]) \in BOOLEAN
      OBVIOUS
    <3>2. k_err' \in {k_err, k_err \/ b_err[b]}
      BY <2>1 DEF KProcess
    <3>3. k_batch' \subseteq Block /\ k_pc' \in {"scan", "batch"}
      BY <1>1, <2>1 DEF KProcess, KType
    <3>4. k_err' \in BOOLEAN
      BY <1>1, <3>1, <3>2 DEF KType
    <3> QED
      BY <1>1, <1>3, <2>1, <3>3, <3>4 DEF KProcess, KType, OptTid
  <2>2. CASE KWaitIo(b)
    <3>1. (k_err \/ b_err[b]) \in BOOLEAN
      OBVIOUS
    <3> QED
      BY <1>1, <1>3, <2>2, <3>1 DEF KWaitIo, KType, OptTid
  <2> QED
    BY <2>1, <2>2
<1>6. LogType' /\ HomeType' /\ SbType'
  BY <1>1, LogSame, HomeSame, SbSame DEF KProcess, KWaitIo, diskVars
<1> QED
  BY <1>2, <1>3, <1>4, <1>5, <1>6, GroupsNext

\* A checkpoint writes a buffer of its batch.
LEMMA KWriteType ==
  ASSUME TypeOK, StartInv, NEW b \in Block, KWrite(b)
  PROVE  TypeOK'
<1>1. /\ TxType /\ CType /\ CpType /\ TailType /\ BufType /\ DelayType
      /\ KType /\ FType /\ LogType /\ HomeType /\ SbType
  BY Groups
<1>2. TxType' /\ CType' /\ CpType' /\ TailType' /\ FType' /\ LogType' /\ SbType'
  BY <1>1, TxSame, CSame, CpSame, TailSame, FSame, LogSame, SbSame DEF KWrite
<1>3. load' = load
  BY DEF KWrite
<1>4. KType'
  BY <1>1 DEF KWrite, KType, OptTid
<1>5. HomeType' /\ BufType' /\ DelayType'
  <2>1. CASE b_dirty[b]
    <3>1. HomeType' /\ BufType'
      BY <1>1, <2>1, WriteHomeIs DEF KWrite, BufType, OptTid
    <3> QED
      BY <1>1, <3>1 DEF KWrite, DelayType
  <2>2. CASE ~b_dirty[b]
    <3>1. HomeType'
      BY <1>1, <2>2, HomeSame DEF KWrite
    <3> QED
      BY <1>1, <2>2, <3>1 DEF KWrite, BufType, DelayType, OptTid
  <2> QED
    BY <2>1, <2>2
<1> QED
  BY <1>2, <1>3, <1>4, <1>5, GroupsNext

\* A loop of the checkpoint ends.
LEMMA KDoneType ==
  ASSUME TypeOK, StartInv, KScanDone \/ KWaitDone
  PROVE  TypeOK'
<1>1. /\ TxType /\ CType /\ CpType /\ TailType /\ BufType /\ DelayType
      /\ KType /\ FType /\ LogType /\ HomeType /\ SbType
  BY Groups
<1>2. TxType' /\ CType' /\ CpType' /\ TailType' /\ BufType' /\ DelayType' /\ FType'
  BY <1>1, TxSame, CSame, CpSame, TailSame, BufSame, DelaySame, FSame DEF KScanDone, KWaitDone
<1>3. KType'
  BY <1>1 DEF KScanDone, KWaitDone, KType, OptTid
<1>4. LogType' /\ HomeType' /\ SbType'
  BY <1>1, LogSame, HomeSame, SbSame DEF KScanDone, KWaitDone, diskVars
<1> QED
  BY <1>2, <1>3, <1>4, GroupsNext

\* A checkpoint is over.
LEMMA KOutType ==
  ASSUME TypeOK, StartInv, KOut
  PROVE  TypeOK'
<1>1. /\ TxType /\ CType /\ CpType /\ TailType /\ BufType /\ DelayType
      /\ KType /\ FType /\ LogType /\ HomeType /\ SbType
  BY Groups
<1>2. CType' /\ CpType' /\ TailType' /\ BufType' /\ DelayType'
  BY <1>1, CSame, CpSame, TailSame, BufSame, DelaySame DEF KOut
<1>3. load' = load /\ Tid' = Tid /\ OptTid' = OptTid /\ Time' = Time
  BY DEF KOut, Tid, OptTid, Time
<1>4. TxType'
  <2>1. (aborted \/ k_err) \in BOOLEAN
    OBVIOUS
  <2> QED
    BY <1>1, <1>3, <2>1 DEF KOut, TxType
<1>5. KType' /\ FType'
  BY <1>1, <1>3 DEF KOut, KType, FType
<1>6. LogType' /\ HomeType' /\ SbType'
  <2>1. logTime \in [Tid -> Time \cup {None}]
    BY <1>1 DEF LogType
  <2> QED
    BY <1>1, <1>3, <2>1, FlushDiskIs, LogSame, HomeSame, SbSame DEF KOut, diskVars
<1> QED
  BY <1>2, <1>3, <1>4, <1>5, <1>6, GroupsNext

\* A flush of the journal goes on.
LEMMA FlushType ==
  ASSUME TypeOK, StartInv, FlushBegin \/ FlushCommitted \/ FlushDone
  PROVE  TypeOK'
<1>1. /\ TxType /\ CType /\ CpType /\ TailType /\ BufType /\ DelayType
      /\ KType /\ FType /\ LogType /\ HomeType /\ SbType
  BY Groups
<1>2. TxType' /\ CType' /\ CpType' /\ TailType' /\ BufType' /\ DelayType' /\ KType'
  BY <1>1, TxSame, CSame, CpSame, TailSame, BufSame, DelaySame, KSame DEF FlushBegin, FlushCommitted, FlushDone, FlushOnly
<1>3. FType'
  <2>1. load' = load /\ f_err' = FALSE /\ f_pc' \in {"idle", "commit", "loop", "tail"}
    BY DEF FlushBegin, FlushCommitted, FlushDone, FlushOnly
  <2>2. f_tid' \in {0, running, committing}
    BY DEF FlushBegin, FlushCommitted, FlushDone, FlushOnly
  <2>3. f_tid' \in OptTid /\ OptTid' = OptTid
    BY <1>1, <2>1, <2>2, LoadTypes DEF TxType, OptTid
  <2> QED
    BY <2>1, <2>3 DEF FType
<1>4. LogType' /\ HomeType' /\ SbType'
  BY <1>1, LogSame, HomeSame, SbSame DEF FlushBegin, FlushCommitted, FlushDone, FlushOnly, diskVars
<1> QED
  BY <1>2, <1>3, <1>4, GroupsNext

\* What the types rest on is kept.
LEMMA StartNext ==
  ASSUME TypeOK, StartInv, Next
  PROVE  StartInv'
<1>1. /\ running \in OptTid /\ committing \in OptTid /\ sequence \in 1 .. load.tids + 1 /\ load.tids \in Nat
      /\ cpTrans \in SUBSET Nat /\ 0 \notin cpTrans
  BY LoadTypes DEF TypeOK, Tid
<1>2. CASE StartHandle
  BY <1>2 DEF StartInv, StartHandle, cVars, kVars
<1>3. CASE StartTransaction
  BY <1>1, <1>3 DEF StartInv, StartTransaction, cVars, kVars
<1>4. CASE \E b \in Block : Modify(b)
  BY <1>4 DEF StartInv, Modify, cVars, kVars
<1>5. CASE \E kind \in {"osync", "dsync"} : CommitStart(kind)
  BY <1>5 DEF StartInv, CommitStart, kVars
<1>6. CASE CommitLog
  BY <1>6 DEF StartInv, CommitLog, kVars
<1>7. CASE \E b \in Block : CommitForget(b)
  BY <1>7 DEF StartInv, CommitForget, txVars, kVars
<1>8. CASE CommitFinish
  BY <1>8 DEF StartInv, CommitFinish, kVars
<1>9. CASE KPick
  <2>1. cpTrans # {} => Min(cpTrans) # 0
    BY <1>1, MinIsSmallest
  <2> QED
    BY <1>9, <2>1 DEF StartInv, KPick, txVars, cVars
<1>10. CASE WaitForSpace \/ KTail \/ KSuper \/ KScanDone \/ KWaitDone
  <2>1. k_next \in {"pick", "idle"}
    BY DEF TypeOK
  <2>2. UNCHANGED <<starting, running, sequence, load, c_pc, committing, k_t>>
    BY <1>10 DEF WaitForSpace, KTail, KSuper, KScanDone, KWaitDone, txVars, cVars
  <2>3. k_pc' \in {"scan", "batch", "wait"} => k_pc \in {"scan", "batch", "wait"}
    BY <1>10, <2>1 DEF WaitForSpace, KTail, KSuper, KScanDone, KWaitDone
  <2> QED
    BY <2>2, <2>3 DEF StartInv
<1>11. CASE KOut
  BY <1>11 DEF StartInv, KOut, cVars
<1>12. CASE \E b \in Block : KProcess(b) \/ KWrite(b) \/ KWaitIo(b)
  BY <1>12 DEF StartInv, KProcess, KWrite, KWaitIo, txVars, cVars
<1>13. CASE FlushBegin \/ FlushCommitted \/ FlushDone
  BY <1>13 DEF StartInv, FlushBegin, FlushCommitted, FlushDone, FlushOnly, txVars, cVars, kVars
<1>14. CASE FlushCheckpoint
  BY <1>14 DEF StartInv, FlushCheckpoint, txVars, cVars
<1>15. CASE FlushTail \/ FlushSuper
  BY <1>15 DEF StartInv, FlushTail, FlushSuper, txVars, cVars, kVars
<1>17. CASE \E b \in Block : VmTest(b) \/ VmWrite(b) \/ TryToFree(b)
  <2>1. UNCHANGED <<load, starting, running, committing, sequence, c_pc, k_pc, k_t>>
    BY <1>17 DEF VmTest, VmWrite, TryToFree, txVars, cVars, kVars
  <2> QED
    BY <2>1 DEF StartInv
<1>16. CASE Disk \/ Tick
  BY <1>16 DEF StartInv, Disk, DestageLog, TearLog, DestageHome, DestageSuper, Tick, txVars, cVars, kVars
<1> QED
  BY <1>2, <1>3, <1>4, <1>5, <1>6, <1>7, <1>8, <1>9, <1>10, <1>11, <1>12, <1>13, <1>14, <1>15, <1>16, <1>17
     DEF Next, Transactions, Commit, DoCheckpoint, JournalFlush

\* The initial state.
LEMMA InitType == Init => TypeOK /\ StartInv
<1> SUFFICES ASSUME Init
             PROVE  TypeOK /\ StartInv
  OBVIOUS
<1>1. /\ load \in Workloads /\ load.tids \in Nat \ {0} /\ load.time \in Nat /\ load.slots \in Nat \ {0}
      /\ INTERVAL \in Nat
  BY LoadTypes DEF Init
<1>2. /\ 0 \in Time /\ 0 \in OptTid /\ 0 \in 0 .. load.time + INTERVAL /\ 1 \in 1 .. load.tids + 1
      /\ [seq |-> 1, empty |-> TRUE] \in Super
  BY <1>1 DEF Time, OptTid, Super
<1>3. TxType /\ CType /\ CpType /\ TailType /\ KType /\ FType
  BY <1>1, <1>2 DEF Init, TxType, CType, CpType, TailType, KType, FType
<1>4. BufType /\ DelayType /\ HomeType
  BY <1>1, <1>2 DEF Init, BufType, DelayType, HomeType
<1>5. LogType /\ SbType
  BY <1>1, <1>2 DEF Init, LogType, SbType
<1>6. StartInv
  BY <1>1 DEF Init, StartInv
<1> QED
  BY <1>3, <1>4, <1>5, <1>6, Groups

\* Every step keeps the types.
LEMMA TypeNext ==
  ASSUME TypeOK, StartInv, [Next]_vars
  PROVE  TypeOK' /\ StartInv'
<1>1. CASE UNCHANGED vars
  <2>1. /\ load' = load /\ now' = now /\ UNCHANGED dsynced /\ UNCHANGED txVars /\ UNCHANGED cVars
        /\ UNCHANGED cpVars /\ UNCHANGED tail /\ UNCHANGED bufVars /\ UNCHANGED delayVars
        /\ UNCHANGED kVars /\ UNCHANGED fVars /\ UNCHANGED logVars /\ UNCHANGED homeVars /\ UNCHANGED sbVars
    BY <1>1 DEF vars, diskVars
  <2>2. TypeOK'
    BY <2>1, Groups, GroupsNext, TxSame, CSame, CpSame, TailSame, BufSame, DelaySame, KSame, FSame,
       LogSame, HomeSame, SbSame
  <2>3. StartInv'
    BY <2>1 DEF StartInv, txVars, cVars, kVars
  <2> QED
    BY <2>2, <2>3
<1>2. CASE Next
  <2>1. StartInv'
    BY <1>2, StartNext
  <2>2. CASE Transactions
    BY <2>1, <2>2, StartType, ModifyType DEF Transactions
  <2>3. CASE Commit
    BY <2>1, <2>3, CommitStartType, CommitLogType, CommitForgetType, CommitFinishType DEF Commit
  <2>4. CASE WaitForSpace \/ FlushBegin
    BY <2>1, <2>4, CheckpointType, FlushType
  <2>5. CASE DoCheckpoint
    BY <2>1, <2>5, TailMoveType, SuperType, KPickType, KListType, KWriteType, KDoneType, KOutType DEF DoCheckpoint
  <2>6. CASE JournalFlush
    BY <2>1, <2>6, FlushType, CheckpointType, TailMoveType, SuperType DEF JournalFlush
  <2>7. CASE (\E b \in Block : VmTest(b) \/ VmWrite(b) \/ TryToFree(b)) \/ Disk \/ Tick
    BY <2>1, <2>7, VmTestType, VmWriteType, TryToFreeType, DiskType
  <2> QED
    BY <1>2, <2>2, <2>3, <2>4, <2>5, <2>6, <2>7 DEF Next
<1> QED
  BY <1>1, <1>2

\* Every variable keeps its type, for every workload.
THEOREM TypeCorrect == Spec => []TypeOK
<1>1. Init => TypeOK /\ StartInv
  BY InitType
<1>2. TypeOK /\ StartInv /\ [Next]_vars => TypeOK' /\ StartInv'
  BY TypeNext
<1> QED
  BY <1>1, <1>2, PTL DEF Spec

-----------------------------------------------------------------------------
(* The order of the transactions *)

\* The tids are numbers.
LEMMA Numbers ==
  ASSUME TypeOK
  PROVE  /\ load.tids \in Nat \ {0} /\ load.slots \in Nat \ {0} /\ load.time \in Nat
         /\ running \in 0 .. load.tids /\ committing \in 0 .. load.tids /\ sequence \in 1 .. load.tids + 1
         /\ running \in Nat /\ committing \in Nat /\ sequence \in Nat /\ tail \in Nat /\ now \in Nat
         /\ k_t \in Nat /\ f_tid \in Nat /\ Open \in Nat
         /\ Tid \subseteq Nat /\ 0 \notin Tid /\ cpTrans \in SUBSET Nat /\ 0 \notin cpTrans
         /\ committed \subseteq Tid /\ logged \subseteq Tid
         /\ b_cp_transaction \in [Block -> Nat] /\ b_data \in [Block -> Nat]
         /\ INTERVAL \in Nat \ {0}
<1>1. /\ load.tids \in Nat \ {0} /\ load.slots \in Nat \ {0} /\ load.time \in Nat /\ INTERVAL \in Nat \ {0}
  BY LoadTypes DEF TypeOK
<1>2. /\ running \in 0 .. load.tids /\ committing \in 0 .. load.tids /\ sequence \in 1 .. load.tids + 1
      /\ tail \in 1 .. load.tids + 1 /\ now \in 0 .. load.time /\ k_t \in 0 .. load.tids
      /\ f_tid \in 0 .. load.tids
      /\ cpTrans \subseteq Tid /\ committed \subseteq Tid /\ logged \subseteq Tid
      /\ b_cp_transaction \in [Block -> OptTid] /\ b_data \in [Block -> OptTid]
  BY DEF TypeOK, OptTid, Time
<1>3. Tid \subseteq Nat /\ 0 \notin Tid /\ OptTid \subseteq Nat
  BY <1>1 DEF Tid, OptTid
<1>4. /\ running \in Nat /\ committing \in Nat /\ sequence \in Nat /\ tail \in Nat /\ now \in Nat
      /\ k_t \in Nat /\ f_tid \in Nat
  BY <1>1, <1>2
<1>5. Open \in Nat
  BY <1>4 DEF Open
<1>6. b_cp_transaction \in [Block -> Nat] /\ b_data \in [Block -> Nat]
  BY <1>2, <1>3
<1> QED
  BY <1>1, <1>2, <1>3, <1>4, <1>5, <1>6

\* The tail moves up to the oldest transaction that has to stay in the log.
LEMMA FirstTidOrder ==
  ASSUME TypeOK, OrderInv
  PROVE  /\ tail <= FirstTid /\ FirstTid <= Open /\ \A t \in cpTrans : FirstTid <= t
         /\ cpTrans = {} => FirstTid = Open
<1>1. cpTrans \in SUBSET Nat /\ tail \in Nat /\ Open \in Nat
  BY Numbers
<1>2. tail <= Open /\ \A t \in cpTrans : tail <= t /\ t < Open
  BY DEF OrderInv
<1>3. CASE cpTrans # {}
  <2>1. Min(cpTrans) \in cpTrans /\ \A t \in cpTrans : Min(cpTrans) <= t
    BY <1>1, <1>3, MinIsSmallest
  <2>2. FirstTid = Min(cpTrans)
    BY <1>3 DEF FirstTid
  <2>3. Min(cpTrans) \in Nat /\ tail <= Min(cpTrans) /\ Min(cpTrans) < Open
    BY <1>1, <1>2, <2>1
  <2>4. Min(cpTrans) <= Open
    BY <1>1, <2>3
  <2> QED
    BY <1>3, <2>1, <2>2, <2>3, <2>4
<1>4. CASE cpTrans = {}
  <2>1. FirstTid = Open
    BY <1>4 DEF FirstTid, Open
  <2>2. Open <= Open
    BY <1>1
  <2> QED
    BY <1>2, <1>4, <2>1, <2>2
<1> QED
  BY <1>3, <1>4

\* Taking buffers off their lists keeps the order.
LEMMA RemoveKeepsLists ==
  ASSUME TypeOK, load' = load, NEW S, RemoveCheckpoint(S),
         \A b \in Block : b_cp_transaction[b] \in cpTrans \cup {0, committing}
  PROVE  /\ cpTrans' \subseteq cpTrans
         /\ \A b \in Block : b_cp_transaction'[b] \in cpTrans' \cup {0, committing}
<1>1. /\ \A b \in Block : b_cp_transaction'[b] = IF b \in S THEN 0 ELSE b_cp_transaction[b]
      /\ cpTrans' = {t \in cpTrans : \E b \in Block : b_cp_transaction'[b] = t}
  BY RemoveCheckpointIs
<1> QED
  BY <1>1

\* The order is kept.
LEMMA OrderNext ==
  ASSUME TypeOK, StartInv, OrderInv, OwnerInv, Next
  PROVE  OrderInv'
<1> USE Numbers
<1>1. CASE UNCHANGED <<load, running, committing, sequence, cpTrans, tail, b_cp_transaction, c_pc>>
  BY <1>1 DEF OrderInv, Open, Room
<1>2. CASE StartTransaction
  BY <1>2 DEF StartTransaction, OrderInv, Open, Room, StartInv, cVars, cpVars
<1>3. CASE \E kind \in {"osync", "dsync"} : CommitStart(kind)
  <2>1. PICK S : RemoveCheckpoint(S)
    BY <1>3 DEF CommitStart
  <2>2. /\ load' = load /\ tail' = tail /\ sequence' = sequence /\ committing' = running /\ running' = 0
        /\ committing = 0 /\ running # 0 /\ Room(running)
    BY <1>3 DEF CommitStart
  <2>3. /\ cpTrans' \subseteq cpTrans /\ \A b \in Block : b_cp_transaction'[b] \in cpTrans' \cup {0}
    BY <2>1, <2>2, RemoveKeepsLists DEF OrderInv
  <2> QED
    BY <2>2, <2>3 DEF OrderInv, Open, Room
<1>4. CASE CommitLog
  BY <1>4 DEF CommitLog, OrderInv, Open, Room, cpVars
<1>5. CASE \E b \in Block : CommitForget(b)
  <2>1. PICK b \in Block : CommitForget(b)
    BY <1>5
  <2>2. /\ UNCHANGED <<load, running, committing, sequence, tail, c_pc>>
        /\ b_cp_transaction' = [b_cp_transaction EXCEPT ![b] = committing]
        /\ cpTrans' = {t \in cpTrans : \E x \in Block : b_cp_transaction'[x] = t}
    BY <2>1 DEF CommitForget, txVars
  <2>3. \A x \in Block : b_cp_transaction'[x] \in cpTrans' \cup {0, committing}
    BY <2>2 DEF OrderInv
  <2> QED
    BY <2>2, <2>3 DEF OrderInv, Open, Room
<1>6. CASE CommitFinish
  <2>1. /\ UNCHANGED <<load, running, sequence, tail, b_cp_transaction>> /\ committing' = 0 /\ c_pc' = "idle"
        /\ cpTrans' = IF \E b \in Block : b_cp_transaction[b] = committing
                      THEN cpTrans \cup {committing} ELSE cpTrans
        /\ committing # 0
    BY <1>6 DEF CommitFinish, StartInv
  <2>2. Open = committing /\ Open' = committing + 1
    BY <2>1 DEF OrderInv, Open
  <2>3. \A b \in Block : b_cp_transaction'[b] \in cpTrans' \cup {0, committing'}
    BY <2>1 DEF OrderInv
  <2>4. tail' <= Open' /\ \A t \in cpTrans' : tail' <= t /\ t < Open'
    BY <2>1, <2>2 DEF OrderInv
  <2> QED
    BY <2>1, <2>3, <2>4 DEF OrderInv
<1>7. CASE KTail \/ FlushTail
  <2>1. /\ UNCHANGED <<load, running, committing, sequence, cpTrans, b_cp_transaction, c_pc>>
        /\ tail' \in {tail, FirstTid}
    BY <1>7 DEF KTail, FlushTail, txVars, cVars, cpVars
  <2>2. tail <= tail' /\ tail' \in Nat /\ tail' <= Open /\ \A t \in cpTrans : tail' <= t
    BY <2>1, FirstTidOrder, FirstTidIs DEF OrderInv
  <2>3. c_pc = "log" => Room(committing)'
    BY <2>1, <2>2 DEF OrderInv, Room
  <2>4. Open' = Open
    BY <2>1 DEF Open
  <2> QED
    BY <2>1, <2>2, <2>3, <2>4 DEF OrderInv
<1>8. CASE \E b \in Block : KProcess(b) \/ KWaitIo(b) \/ TryToFree(b)
  <2>1. UNCHANGED <<load, running, committing, sequence, tail, c_pc>>
    BY <1>8 DEF KProcess, KWaitIo, TryToFree, txVars, cVars
  <2>2. \/ UNCHANGED <<cpTrans, b_cp_transaction>>
        \/ \E S : RemoveCheckpoint(S)
    BY <1>8 DEF KProcess, KWaitIo, TryToFree
  <2>3. /\ cpTrans' \subseteq cpTrans
        /\ \A b \in Block : b_cp_transaction'[b] \in cpTrans' \cup {0, committing}
    BY <2>1, <2>2, RemoveKeepsLists DEF OrderInv
  <2> QED
    BY <2>1, <2>3 DEF OrderInv, Open, Room
<1>9. CASE StartHandle \/ (\E b \in Block : Modify(b)) \/ WaitForSpace \/ KSuper \/ KPick \/ KScanDone \/ KWaitDone \/ KOut
  BY <1>1, <1>9 DEF StartHandle, Modify, WaitForSpace, KSuper, KPick, KScanDone, KWaitDone, KOut, txVars, cVars, cpVars
<1>10. CASE \/ FlushBegin \/ FlushCommitted \/ FlushDone \/ FlushCheckpoint \/ FlushSuper
            \/ (\E b \in Block : KWrite(b) \/ VmTest(b) \/ VmWrite(b)) \/ Disk \/ Tick
  BY <1>1, <1>10 DEF FlushBegin, FlushCommitted, FlushDone, FlushOnly, FlushCheckpoint, FlushSuper, KWrite, VmTest, VmWrite,
     Disk, DestageLog, TearLog, DestageHome, DestageSuper, Tick, txVars, cVars, cpVars
<1> QED
  BY <1>2, <1>3, <1>4, <1>5, <1>6, <1>7, <1>8, <1>9, <1>10
     DEF Next, Transactions, Commit, DoCheckpoint, JournalFlush

\* Commit records are written in order.
LEMMA CommitNext ==
  ASSUME TypeOK, StartInv, OrderInv, CommitInv, Next
  PROVE  CommitInv'
<1> USE Numbers
<1>1. CASE UNCHANGED <<load, committed, running, committing, sequence, c_pc, aborted>>
  BY <1>1 DEF CommitInv, Open, Tid
<1>2. CASE StartTransaction
  <2>1. UNCHANGED <<load, committed, committing, c_pc, aborted>> /\ running = 0 /\ running' = sequence /\ sequence # 0
    BY <1>2 DEF StartTransaction, StartInv, cVars
  <2>2. Open' = Open /\ Tid' = Tid
    BY <2>1 DEF Open, Tid
  <2> QED
    BY <2>1, <2>2 DEF CommitInv
<1>3. CASE \E kind \in {"osync", "dsync"} : CommitStart(kind)
  <2>1. /\ UNCHANGED <<load, committed, aborted>> /\ committing = 0 /\ committing' = running /\ running # 0
        /\ c_pc' = "log" /\ c_pc = "idle"
    BY <1>3 DEF CommitStart, StartInv
  <2>2. Open' = Open /\ Tid' = Tid
    BY <2>1 DEF Open, Tid
  <2> QED
    BY <2>1, <2>2 DEF CommitInv
<1>4. CASE CommitLog
  <2>1. /\ UNCHANGED <<load, committing, aborted>> /\ c_pc = "log" /\ c_pc' = "forget" /\ committing # 0
        /\ committed' = IF aborted THEN committed ELSE committed \cup {committing}
    BY <1>4 DEF CommitLog, StartInv
  <2>2. Open' = Open /\ Open = committing /\ Tid' = Tid /\ committing \in Tid
    BY <2>1 DEF Open, Tid
  <2>3. ~aborted => \A t \in 1 .. committing : t \in committed'
    BY <2>1, <2>2 DEF CommitInv, Tid
  <2> QED
    BY <2>1, <2>2, <2>3 DEF CommitInv
<1>5. CASE CommitFinish
  <2>1. /\ UNCHANGED <<load, committed, aborted, running, sequence>> /\ c_pc = "forget" /\ c_pc' = "idle"
        /\ committing # 0 /\ committing' = 0
    BY <1>5 DEF CommitFinish, StartInv
  <2>2. Open' = committing + 1 /\ Open = committing /\ Tid' = Tid
    BY <2>1 DEF OrderInv, Open, Tid
  <2>3. \A t \in Tid : t < Open' => t < Open \/ t = committing
    BY <2>2
  <2>4. \A t \in committed' : t < Open'
    BY <2>1, <2>2 DEF CommitInv
  <2>5. ~aborted' => \A t \in Tid : t < Open' => t \in committed
    BY <2>1, <2>3 DEF CommitInv
  <2> QED
    BY <2>1, <2>2, <2>4, <2>5 DEF CommitInv
<1>6. CASE KOut
  <2>1. UNCHANGED <<load, committed, running, committing, sequence, c_pc>> /\ (aborted => aborted')
    BY <1>6 DEF KOut, cVars
  <2>2. Open' = Open /\ Tid' = Tid
    BY <2>1 DEF Open, Tid
  <2> QED
    BY <2>1, <2>2 DEF CommitInv
<1>7. CASE StartHandle \/ (\E b \in Block : Modify(b) \/ CommitForget(b) \/ KProcess(b) \/ KWaitIo(b))
  BY <1>1, <1>7, ZenonT(30) DEF StartHandle, Modify, CommitForget, KProcess, KWaitIo, txVars, cVars
<1>8. CASE WaitForSpace \/ KTail \/ KSuper \/ KPick \/ KScanDone \/ KWaitDone
  BY <1>1, <1>8 DEF WaitForSpace, KTail, KSuper, KPick, KScanDone, KWaitDone, txVars, cVars
<1>9. CASE \/ FlushBegin \/ FlushCommitted \/ FlushDone \/ FlushCheckpoint \/ FlushTail \/ FlushSuper
           \/ (\E b \in Block : KWrite(b) \/ VmTest(b) \/ VmWrite(b) \/ TryToFree(b)) \/ Disk \/ Tick
  BY <1>1, <1>9 DEF FlushBegin, FlushCommitted, FlushDone, FlushOnly, FlushCheckpoint, FlushTail, FlushSuper, KWrite,
     VmTest, VmWrite, TryToFree, Disk, DestageLog, TearLog, DestageHome, DestageSuper, Tick, txVars, cVars
<1> QED
  BY <1>2, <1>3, <1>4, <1>5, <1>6, <1>7, <1>8, <1>9
     DEF Next, Transactions, Commit, DoCheckpoint, JournalFlush

-----------------------------------------------------------------------------
(* The log *)

\* Two transactions that share a slot are a log apart.
LEMMA SlotApart ==
  ASSUME load \in Workloads, NEW u \in Nat, NEW t \in Nat, u < t, Slot(u) = Slot(t)
  PROVE  t - u >= load.slots
<1>1. PICK s \in Nat \ {0} : s = load.slots
  BY LoadTypes
<1>2. u % s = t % s
  BY <1>1 DEF Slot
<1>3. PICK p \in Int, q \in Int : u % s = u - s * p /\ t % s = t - s * q
  <2>1. u \div s \in Int /\ t \div s \in Int
    OBVIOUS
  <2>2. u % s = u - s * (u \div s)
    OBVIOUS
  <2>3. t % s = t - s * (t \div s)
    OBVIOUS
  <2> QED
    BY <2>1, <2>2, <2>3
<1>4. PICK d \in Int : d = q - p
  OBVIOUS
<1>5. t - u = s * d
  BY <1>2, <1>3, <1>4
<1>6. d >= 1
  <2>1. d <= 0 => s * d <= 0
    BY <1>4
  <2> QED
    BY <1>4, <1>5, <2>1
<1>7. s * d >= s
  BY <1>6
<1> QED
  BY <1>1, <1>5, <1>7

\* A record leaves the cache for the platter, or once the tail has passed it.
Carried ==
  \A u \in Tid : logTime[u] # None => logTime'[u] = logTime[u] \/ u \in logged' \/ u < tail'

\* The record of a commit takes the slot of one that the tail has passed.
LEMMA CommitLogIs ==
  ASSUME TypeOK, StartInv, OrderInv, CommitInv, TimeInv, CommitLog
  PROVE  /\ UNCHANGED <<load, now, tail, committing, aborted, c_durable, k_pc, k_t>>
         /\ logged \subseteq logged'
         /\ committing \in Tid /\ committing \notin committed /\ Open = committing
         /\ Carried
         /\ \A u \in Tid : logTime'[u] # None =>
              logTime'[u] = logTime[u] \/ (~aborted /\ u = committing /\ logTime'[u] = now)
         /\ c_durable => \A u \in Tid : logTime[u] # None => u \in logged' \/ u < tail'
         /\ ~aborted /\ c_durable => committing \in logged'
         /\ ~aborted /\ ~c_durable => logTime'[committing] = now
<1> USE Numbers
<1> DEFINE lt == [t \in Tid |->
                     IF aborted THEN logTime[t]
                     ELSE IF t = committing THEN now
                     ELSE IF Slot(t) = Slot(committing) THEN None ELSE logTime[t]]
<1>1. /\ UNCHANGED <<load, now, tail, committing, aborted, c_durable, k_pc, k_t>> /\ c_pc = "log"
      /\ committing # 0
    BY DEF CommitLog, StartInv, kVars
<1>2. committing \in Tid /\ Open = committing
  BY <1>1 DEF Open, Tid
<1>3. committing \notin committed
  BY <1>1, <1>2 DEF CommitInv
<1>4. /\ c_durable => FlushDisk(lt)
      /\ ~c_durable => logTime' = lt /\ logged' = logged
  BY DEF CommitLog
<1>5. logTime \in [Tid -> Time \cup {None}] /\ now \in Time /\ None \notin Time
  BY DEF TypeOK, Time, None
<1>6. lt \in [Tid -> Time \cup {None}]
  BY <1>5
<1>7. \A u \in Tid : logTime[u] # None => u < committing /\ u \in Nat
  BY <1>2, <1>3 DEF TimeInv, CommitInv
<1>8. \A u \in Tid : logTime[u] # None => lt[u] = logTime[u] \/ u < tail
  <2> SUFFICES ASSUME NEW u \in Tid, logTime[u] # None, lt[u] # logTime[u]
               PROVE  u < tail
    OBVIOUS
  <2>1. u < committing /\ u \in Nat /\ Slot(u) = Slot(committing)
    BY <1>7
  <2>2. committing - u >= load.slots
    BY <2>1, SlotApart DEF TypeOK
  <2>3. committing - tail < load.slots
    BY <1>1 DEF OrderInv, Room
  <2> QED
    BY <2>1, <2>2, <2>3
<1>9. \A u \in Tid : lt[u] # None => lt[u] = logTime[u] \/ (~aborted /\ u = committing /\ lt[u] = now)
  OBVIOUS
<1>10. ~aborted => lt[committing] = now /\ now # None
  BY <1>2, <1>5
<1> HIDE DEF lt
<1>11. CASE c_durable
  <2>1. logTime' = [t \in Tid |-> None] /\ logged' = logged \cup {t \in Tid : lt[t] # None}
    BY <1>1, <1>4, <1>6, <1>11, FlushDiskIs
  <2>2. \A u \in Tid : logTime[u] # None => u \in logged' \/ u < tail'
    BY <1>1, <1>8, <2>1
  <2>3. ~aborted => committing \in logged'
    BY <1>2, <1>10, <2>1
  <2> QED
    BY <1>1, <1>2, <1>3, <1>11, <2>1, <2>2, <2>3 DEF Carried
<1>12. CASE ~c_durable
  BY <1>1, <1>2, <1>3, <1>4, <1>8, <1>9, <1>10, <1>12 DEF Carried
<1> QED
  BY <1>11, <1>12

\* What a flush of the whole cache does to the records.
LEMMA FlushAll ==
  ASSUME TypeOK, load' = load, FlushDisk(logTime)
  PROVE  /\ logTime' = [t \in Tid |-> None] /\ logged \subseteq logged'
         /\ \A u \in Tid : logTime[u] # None => u \in logged'
<1>1. logTime \in [Tid -> Time \cup {None}]
  BY DEF TypeOK
<1>2. logTime' = [t \in Tid |-> None] /\ logged' = logged \cup {t \in Tid : logTime[t] # None}
  BY <1>1, FlushDiskIs
<1> QED
  BY <1>2

\* The steps that leave the log and its tail alone.
Quiescent == UNCHANGED <<load, tail, logTime, logged, committed>>

\* A step loses no record, moves the tail forward, and writes no record but
\* that of a commit.
LEMMA LogStep ==
  ASSUME TypeOK, StartInv, OrderInv, CommitInv, TimeInv, Next
  PROVE  /\ load' = load /\ logged \subseteq logged' /\ tail <= tail' /\ tail' \in Nat
         /\ committed \subseteq committed' /\ Carried
         /\ CommitLog \/ \A u \in Tid : logTime'[u] # None => logTime'[u] = logTime[u]
         /\ CommitLog \/ committed' = committed
<1> USE Numbers
<1>1. CASE Quiescent
  BY <1>1 DEF Quiescent, Carried
<1>2. CASE CommitLog
  <2>1. committed \subseteq committed'
    BY <1>2 DEF CommitLog
  <2> QED
    BY <1>2, <2>1, CommitLogIs
<1>3. CASE KPick \/ KOut
  <2>1. UNCHANGED <<load, tail, committed>> /\ (FlushDisk(logTime) \/ UNCHANGED <<logTime, logged>>)
    BY <1>3 DEF KPick, KOut, txVars, diskVars, logVars
  <2>2. CASE FlushDisk(logTime)
    BY <2>1, <2>2, FlushAll DEF Carried
  <2> QED
    BY <1>1, <2>1, <2>2 DEF Quiescent
<1>4. CASE KTail \/ FlushTail
  <2>1. /\ UNCHANGED <<load, committed, logTime, logged>>
        /\ tail' \in {tail, FirstTid}
    BY <1>4 DEF KTail, FlushTail, txVars, diskVars, logVars
  <2>2. FirstTid \in Nat /\ tail <= FirstTid
    BY FirstTidOrder, FirstTidIs
  <2> QED
    BY <2>1, <2>2 DEF Carried
<1>5. CASE \E t \in Tid : DestageLog(t)
  <2>1. PICK t \in Tid : DestageLog(t)
    BY <1>5
  <2>2. /\ UNCHANGED <<load, tail, committed>> /\ logTime' = [logTime EXCEPT ![t] = None] /\ logged' = logged \cup {t}
    BY <2>1 DEF DestageLog, txVars
  <2>3. logTime \in [Tid -> Time \cup {None}]
    BY DEF TypeOK
  <2> QED
    BY <2>2, <2>3 DEF Carried
<1>6. CASE StartHandle \/ StartTransaction \/ (\E b \in Block : Modify(b) \/ CommitForget(b) \/ KProcess(b) \/ KWaitIo(b))
  BY <1>1, <1>6 DEF Quiescent, StartHandle, StartTransaction, Modify, CommitForget, KProcess, KWaitIo, txVars, diskVars, logVars
<1>7. CASE \/ (\E kind \in {"osync", "dsync"} : CommitStart(kind)) \/ CommitFinish
           \/ WaitForSpace \/ KSuper \/ KScanDone \/ KWaitDone
  BY <1>1, <1>7 DEF Quiescent, CommitStart, CommitFinish, WaitForSpace, KSuper, KScanDone, KWaitDone, txVars, diskVars, logVars
<1>8. CASE \/ FlushBegin \/ FlushCommitted \/ FlushDone \/ FlushCheckpoint \/ FlushSuper
           \/ (\E b \in Block : KWrite(b) \/ VmTest(b) \/ VmWrite(b) \/ TryToFree(b))
  BY <1>1, <1>8 DEF Quiescent, FlushBegin, FlushCommitted, FlushDone, FlushOnly, FlushCheckpoint, FlushSuper, KWrite,
     VmTest, VmWrite, TryToFree, txVars, diskVars, logVars
<1>9. CASE (\E t \in Tid : TearLog(t)) \/ (\E b \in Block : DestageHome(b)) \/ DestageSuper \/ Tick
  BY <1>1, <1>9 DEF Quiescent, TearLog, DestageHome, DestageSuper, Tick, txVars, diskVars, logVars
<1> QED
  BY <1>2, <1>3, <1>4, <1>5, <1>6, <1>7, <1>8, <1>9
     DEF Next, Transactions, Commit, DoCheckpoint, JournalFlush, Disk

\* What is safe stays safe, and what is due stays due.
LEMMA SafeStays ==
  ASSUME TypeOK, load' = load, logged \subseteq logged', tail <= tail', tail' \in Nat, Carried
  PROVE  /\ \A t \in Nat : Safe(t) => Safe(t)'
         /\ \A t \in OptTid : \A w \in Nat : Due(t, w) => Due(t, w)'
<1> USE Numbers
<1>1. \A u \in Nat : Passed(u) => Passed(u)'
  BY DEF Passed
<1>2. ASSUME NEW t \in Nat, Safe(t)
      PROVE  Safe(t)'
  BY <1>1, <1>2 DEF Safe
<1>3. ASSUME NEW t \in OptTid, NEW w \in Nat, Due(t, w)
      PROVE  Due(t, w)'
  <2>1. t \in Nat /\ \A u \in 1 .. t : u \in Tid /\ u \in Nat
    BY DEF OptTid, Tid
  <2>2. \A u \in 1 .. t : Passed(u)' \/ (logTime'[u] # None /\ logTime'[u] + INTERVAL <= w)
    BY <1>1, <1>3, <2>1 DEF Due, Carried, Passed
  <2> QED
    BY <2>2 DEF Due
<1> QED
  BY <1>2, <1>3

\* What is due and old enough for the disk to have destaged it is safe.
LEMMA DueIsSafe ==
  ASSUME TypeOK, TimeInv, NEW t \in OptTid, NEW w \in Nat, Due(t, w), w <= now
  PROVE  Safe(t)
<1> USE Numbers
<1>1. logTime \in [Tid -> Time \cup {None}] /\ Time \subseteq Nat
  BY DEF TypeOK, Time
<1>2. \A u \in 1 .. t : u \in Tid
  BY DEF OptTid, Tid
<1>3. \A u \in Tid : logTime[u] # None => logTime[u] \in Nat /\ now < logTime[u] + INTERVAL
  BY <1>1 DEF TimeInv
<1> QED
  BY <1>2, <1>3 DEF Due, Safe

\* Every committed transaction is due an interval from now.
LEMMA CommittedIsDue ==
  ASSUME TypeOK, CommitInv, TimeInv, NEW t \in committed
  PROVE  Due(t, now + INTERVAL)
<1> USE Numbers
<1>1. logTime \in [Tid -> Time \cup {None}] /\ Time \subseteq Nat
  BY DEF TypeOK, Time
<1>2. \A u \in 1 .. t : u \in committed
  BY DEF CommitInv
<1>3. \A u \in committed : Passed(u) \/ (logTime[u] # None /\ logTime[u] \in Nat /\ logTime[u] <= now)
  BY <1>1 DEF TimeInv
<1> QED
  BY <1>2, <1>3 DEF Due

\* At its commit a transaction joins the records that are safe, or due.
LEMMA CommitLogTime ==
  ASSUME TypeOK, StartInv, OrderInv, CommitInv, TimeInv, BatchInv, CommitLog, CommitInv'
  PROVE  TimeInv'
<1> USE Numbers
<1>1. /\ UNCHANGED <<load, now, tail, committing, aborted, c_durable, k_pc, k_t>>
      /\ logged \subseteq logged'
      /\ committing \in Tid /\ committing \notin committed /\ Open = committing
      /\ Carried
      /\ \A u \in Tid : logTime'[u] # None =>
           logTime'[u] = logTime[u] \/ (~aborted /\ u = committing /\ logTime'[u] = now)
      /\ c_durable => \A u \in Tid : logTime[u] # None => u \in logged' \/ u < tail'
      /\ ~aborted /\ c_durable => committing \in logged'
      /\ ~aborted /\ ~c_durable => logTime'[committing] = now
  BY CommitLogIs
<1>2. /\ c_pc = "log" /\ committed' = (IF aborted THEN committed ELSE committed \cup {committing})
      /\ t_checkpoint_time' = [t_checkpoint_time EXCEPT ![committing] =
                                  IF c_durable THEN now ELSE now + INTERVAL]
  BY DEF CommitLog
<1>3. /\ t_checkpoint_time \in [Tid -> 0 .. load.time + INTERVAL] /\ logTime \in [Tid -> Time \cup {None}]
      /\ Time \subseteq Nat /\ now # None /\ Tid \subseteq OptTid
  <2>1. /\ t_checkpoint_time \in [Tid -> 0 .. load.time + INTERVAL] /\ logTime \in [Tid -> Time \cup {None}]
    BY DEF TypeOK
  <2>2. Time \subseteq Nat /\ now # None /\ Tid \subseteq OptTid
    BY DEF Time, None, Tid, OptTid
  <2> QED
    BY <2>1, <2>2
<1>4. Tid' = Tid
  BY <1>1 DEF Tid
<1>5. tail <= tail' /\ tail' \in Nat
  BY <1>1
<1>6. /\ \A t \in Nat : Safe(t) => Safe(t)'
      /\ \A t \in OptTid : \A w \in Nat : Due(t, w) => Due(t, w)'
  BY <1>1, <1>5, SafeStays
<1>7. \A t \in committed : Passed(t)' \/ logTime'[t] # None
  BY <1>1 DEF TimeInv, Carried, Passed
<1>8. \A t \in committed' : Passed(t)' \/ logTime'[t] # None
  BY <1>1, <1>2, <1>3, <1>7 DEF Passed
<1>9. \A t \in Tid : logTime'[t] # None =>
        t \in committed' /\ logTime'[t] <= now' /\ now' < logTime'[t] + INTERVAL
  BY <1>1, <1>2 DEF TimeInv
<1>10. ~aborted => \A u \in 1 .. committing : u = committing \/ u \in committed
  BY <1>1 DEF CommitInv, Tid
<1>11. ~aborted /\ c_durable => Safe(committing)'
  <2> SUFFICES ASSUME ~aborted, c_durable
               PROVE  \A u \in 1 .. committing : Passed(u)'
    BY <1>1 DEF Safe
  <2>1. \A u \in committed : Passed(u)'
    BY <1>1 DEF TimeInv, Passed
  <2> QED
    BY <1>1, <1>10, <2>1 DEF Passed
<1>12. ~aborted => Due(committing, t_checkpoint_time[committing])'
  <2> SUFFICES ASSUME ~aborted
               PROVE  Due(committing, t_checkpoint_time[committing])'
    OBVIOUS
  <2>1. CASE c_durable
    BY <1>11, <2>1 DEF Due, Safe
  <2>2. CASE ~c_durable
    <3>1. t_checkpoint_time'[committing] = now + INTERVAL
      BY <1>1, <1>2, <1>3, <2>2
    <3>2. \A u \in committed : Passed(u)' \/ (logTime'[u] # None /\ logTime'[u] \in Nat /\ logTime'[u] <= now)
      BY <1>1, <1>3 DEF TimeInv, Carried, Passed
    <3>3. \A u \in 1 .. committing : Passed(u)' \/ (logTime'[u] # None /\ logTime'[u] + INTERVAL <= now + INTERVAL)
      BY <1>1, <1>3, <1>10, <2>2, <3>2
    <3> QED
      BY <1>1, <3>1, <3>3 DEF Due
  <2> QED
    BY <2>1, <2>2
<1>13. \A t \in committed : Due(t, t_checkpoint_time[t])'
  <2> SUFFICES ASSUME NEW t \in committed
               PROVE  Due(t, t_checkpoint_time[t])'
    OBVIOUS
  <2>1. PICK w \in Nat : w = t_checkpoint_time[t]
    BY <1>3
  <2>2. t_checkpoint_time'[t] = w
    BY <1>1, <1>2, <1>3, <2>1
  <2>3. Due(t, w)
    BY <2>1 DEF TimeInv
  <2>4. Due(t, w)'
    BY <1>3, <1>6, <2>3
  <2> QED
    BY <2>2, <2>4 DEF Due
<1>14. \A t \in committed' : Due(t, t_checkpoint_time[t])'
  <2>1. \A t \in committed' : t \in committed \/ (~aborted /\ t = committing)
    BY <1>2
  <2>2. ~aborted => \A t \in {committing} : Due(t, t_checkpoint_time[t])'
    BY <1>1, <1>12 DEF Due
  <2> QED
    BY <1>13, <2>1, <2>2
<1>15. k_pc' \in {"scan", "batch"} /\ k_t' \in committed' => Safe(k_t)'
  <2> SUFFICES ASSUME k_pc' \in {"scan", "batch"}, k_t' \in committed'
               PROVE  Safe(k_t)'
    OBVIOUS
  <2>1. k_t # committing
    BY <1>1 DEF BatchInv
  <2>2. k_t \in committed
    BY <1>1, <1>2, <2>1
  <2>3. PICK k \in Nat : k = k_t
    OBVIOUS
  <2>4. Safe(k)
    BY <1>1, <2>2, <2>3 DEF TimeInv
  <2>5. Safe(k)'
    BY <1>6, <2>4
  <2> QED
    BY <1>1, <2>3, <2>5 DEF Safe
<1>16. c_durable' /\ ~aborted' => Safe(committing)'
  BY <1>1, <1>11
<1> QED
  BY <1>4, <1>8, <1>9, <1>14, <1>15, <1>16 DEF TimeInv

\* A checkpoint takes up a transaction whose records are safe.
LEMMA PickIsSafe ==
  ASSUME TypeOK, StartInv, OrderInv, CommitInv, TimeInv, KPick, k_pc' = "scan", k_t' \in committed
  PROVE  Safe(k_t)'
<1> USE Numbers
<1>1. /\ UNCHANGED <<load, now, tail>> /\ cpTrans # {} /\ (needs_checkpoint \/ now >= t_checkpoint_time[k_t'])
      /\ needs_checkpoint => FlushDisk(logTime)
      /\ ~needs_checkpoint => UNCHANGED logged
  BY DEF KPick, diskVars, logVars
<1>2. PICK k \in committed : k = k_t'
  OBVIOUS
<1>3. k \in Nat /\ k \in OptTid /\ \A u \in 1 .. k : u \in committed
  BY DEF CommitInv, Tid, OptTid
<1>4. CASE needs_checkpoint
  <2>1. logged \subseteq logged' /\ \A u \in Tid : logTime[u] # None => u \in logged'
    BY <1>1, <1>4, FlushAll
  <2>2. \A u \in committed : Passed(u)'
    BY <1>1, <2>1 DEF TimeInv, Passed
  <2> QED
    BY <1>2, <1>3, <2>2 DEF Safe
<1>5. CASE ~needs_checkpoint
  <2>1. t_checkpoint_time \in [Tid -> 0 .. load.time + INTERVAL]
    BY DEF TypeOK
  <2>2. PICK w \in Nat : w = t_checkpoint_time[k]
    BY <2>1
  <2>3. Due(k, w) /\ w <= now
    BY <1>1, <1>2, <1>5, <2>2 DEF TimeInv
  <2>4. Safe(k)
    BY <1>3, <2>3, DueIsSafe
  <2> QED
    BY <1>1, <1>2, <1>5, <2>4 DEF Safe, Passed
<1> QED
  BY <1>4, <1>5

\* What no step but a commit's, a pick and a tick do.
LEMMA Steady ==
  ASSUME TypeOK, Next
  PROVE  /\ CommitLog \/ UNCHANGED t_checkpoint_time
         /\ CommitLog \/ (c_pc' = "forget" => c_pc = "forget" /\ UNCHANGED <<committing, c_durable>>)
         /\ aborted => aborted'
         /\ KPick \/ (k_pc' \in {"scan", "batch"} => k_pc \in {"scan", "batch"} /\ k_t' = k_t)
         /\ Tick \/ now' = now
<1> DEFINE P == /\ CommitLog \/ UNCHANGED t_checkpoint_time
                /\ CommitLog \/ (c_pc' = "forget" => c_pc = "forget" /\ UNCHANGED <<committing, c_durable>>)
                /\ aborted => aborted'
                /\ KPick \/ (k_pc' \in {"scan", "batch"} => k_pc \in {"scan", "batch"} /\ k_t' = k_t)
                /\ Tick \/ now' = now
<1>1. k_next \in {"pick", "idle"}
  BY DEF TypeOK
<1>2. CASE StartHandle \/ StartTransaction \/ (\E b \in Block : Modify(b))
  BY <1>2 DEF StartHandle, StartTransaction, Modify, cVars, kVars
<1>3. CASE (\E kind \in {"osync", "dsync"} : CommitStart(kind)) \/ CommitFinish
  <2>1. CASE CommitFinish
    BY <2>1 DEF CommitFinish, kVars
  <2>2. CASE \E kind \in {"osync", "dsync"} : CommitStart(kind)
    <3>1. UNCHANGED <<t_checkpoint_time, aborted, now, kVars>> /\ c_pc' = "log"
      BY <2>2 DEF CommitStart
    <3> QED
      BY <3>1 DEF kVars
  <2> QED
    BY <1>3, <2>1, <2>2
<1>4. CASE CommitLog
  BY <1>4 DEF CommitLog, kVars
<1>5. CASE \E b \in Block : CommitForget(b)
  BY <1>5 DEF CommitForget, txVars, kVars
<1>6. CASE KPick
  BY <1>6 DEF KPick, txVars, cVars
<1>7. CASE WaitForSpace \/ KTail \/ KSuper \/ KScanDone \/ KWaitDone
  <2>1. UNCHANGED <<t_checkpoint_time, c_pc, committing, c_durable, aborted, k_t, now>>
    BY <1>7 DEF WaitForSpace, KTail, KSuper, KScanDone, KWaitDone, txVars, cVars
  <2>2. k_pc' \in {"scan", "batch"} => k_pc \in {"scan", "batch"}
    BY <1>1, <1>7 DEF WaitForSpace, KTail, KSuper, KScanDone, KWaitDone
  <2> QED
    BY <2>1, <2>2
<1>8. CASE KOut
  BY <1>8 DEF KOut, cVars
<1>9. CASE \E b \in Block : KProcess(b) \/ KWrite(b) \/ KWaitIo(b)
  BY <1>9 DEF KProcess, KWrite, KWaitIo, txVars, cVars
<1>10. CASE FlushBegin \/ FlushCommitted \/ FlushDone \/ FlushCheckpoint
  BY <1>10 DEF FlushBegin, FlushCommitted, FlushDone, FlushOnly, FlushCheckpoint, txVars, cVars, kVars
<1>11. CASE FlushTail \/ FlushSuper
  BY <1>11 DEF FlushTail, FlushSuper, txVars, cVars, kVars
<1>12. CASE Disk \/ Tick
  BY <1>12 DEF Disk, DestageLog, TearLog, DestageHome, DestageSuper, Tick, txVars, cVars, kVars
<1>14. CASE \E b \in Block : VmTest(b) \/ VmWrite(b) \/ TryToFree(b)
  <2>1. UNCHANGED <<now, t_checkpoint_time, c_pc, committing, c_durable, aborted, k_pc, k_t>>
    BY <1>14 DEF VmTest, VmWrite, TryToFree, txVars, cVars, kVars
  <2> QED
    BY <2>1
<1>13. P
  BY <1>2, <1>3, <1>4, <1>5, <1>6, <1>7, <1>8, <1>9, <1>10, <1>11, <1>12, <1>14
     DEF Next, Transactions, Commit, DoCheckpoint, JournalFlush
<1> QED
  BY <1>13

\* Records are safe by their checkpoint times.
LEMMA TimeNext ==
  ASSUME TypeOK, StartInv, OrderInv, CommitInv, TimeInv, BatchInv, Next, CommitInv'
  PROVE  TimeInv'
<1> USE Numbers
<1>1. CASE CommitLog
  BY <1>1, CommitLogTime
<1>2. CASE ~CommitLog
  <2>1. /\ load' = load /\ logged \subseteq logged' /\ tail <= tail' /\ tail' \in Nat
        /\ Carried /\ committed' = committed
        /\ \A u \in Tid : logTime'[u] # None => logTime'[u] = logTime[u]
    BY <1>2, LogStep
  <2>2. /\ UNCHANGED t_checkpoint_time
        /\ c_pc' = "forget" => c_pc = "forget" /\ UNCHANGED <<committing, c_durable>>
        /\ aborted => aborted'
        /\ KPick \/ (k_pc' \in {"scan", "batch"} => k_pc \in {"scan", "batch"} /\ k_t' = k_t)
        /\ Tick \/ now' = now
    BY <1>2, Steady
  <2>3. /\ \A t \in Nat : Safe(t) => Safe(t)'
        /\ \A t \in OptTid : \A w \in Nat : Due(t, w) => Due(t, w)'
    BY <2>1, SafeStays
  <2>4. Tid' = Tid /\ Tid \subseteq OptTid
    BY <2>1 DEF Tid, OptTid
  <2>5. \A t \in committed' : Passed(t)' \/ logTime'[t] # None
    BY <2>1 DEF TimeInv, Carried, Passed
  <2>6. \A t \in Tid : logTime'[t] # None =>
          t \in committed' /\ logTime'[t] <= now' /\ now' < logTime'[t] + INTERVAL
    <3> SUFFICES ASSUME NEW t \in Tid, logTime'[t] # None
                 PROVE  t \in committed' /\ logTime'[t] <= now' /\ now' < logTime'[t] + INTERVAL
      OBVIOUS
    <3>1. logTime'[t] = logTime[t] /\ logTime[t] # None
      BY <2>1
    <3>2. t \in committed /\ logTime[t] <= now /\ now < logTime[t] + INTERVAL
      BY <3>1 DEF TimeInv
    <3>3. CASE now' = now
      BY <2>1, <3>1, <3>2, <3>3
    <3>4. CASE Tick
      <4>1. now' = now + 1 /\ now + 1 < logTime[t] + DISK_DELAY
        BY <3>1, <3>4 DEF Tick, Cached
      <4>2. logTime[t] \in Nat /\ DISK_DELAY \in Nat /\ DISK_DELAY <= INTERVAL
        BY <3>1, LoadTypes DEF TypeOK, Time
      <4> QED
        BY <2>1, <3>1, <3>2, <4>1, <4>2
    <3> QED
      BY <2>2, <3>3, <3>4
  <2>7. \A t \in committed' : Due(t, t_checkpoint_time[t])'
    <3> SUFFICES ASSUME NEW t \in committed
                 PROVE  Due(t, t_checkpoint_time[t])'
      BY <2>1
    <3>1. t_checkpoint_time \in [Tid -> 0 .. load.time + INTERVAL]
      BY DEF TypeOK
    <3>2. PICK w \in Nat : w = t_checkpoint_time[t]
      BY <3>1
    <3>3. Due(t, w)
      BY <3>2 DEF TimeInv
    <3>4. Due(t, w)'
      BY <2>3, <2>4, <3>3
    <3> QED
      BY <2>2, <3>2, <3>4 DEF Due
  <2>8. c_pc' = "forget" /\ c_durable' /\ ~aborted' => Safe(committing)'
    <3> SUFFICES ASSUME c_pc' = "forget", c_durable', ~aborted'
                 PROVE  Safe(committing)'
      OBVIOUS
    <3>1. PICK c \in Nat : c = committing
      OBVIOUS
    <3>2. Safe(c)
      BY <2>2, <3>1 DEF TimeInv
    <3>3. Safe(c)'
      BY <2>3, <3>2
    <3> QED
      BY <2>2, <3>1, <3>3 DEF Safe
  <2>9. k_pc' \in {"scan", "batch"} /\ k_t' \in committed' => Safe(k_t)'
    <3> SUFFICES ASSUME k_pc' \in {"scan", "batch"}, k_t' \in committed'
                 PROVE  Safe(k_t)'
      OBVIOUS
    <3>1. CASE KPick
      <4>1. k_pc' = "scan"
        BY <3>1 DEF KPick
      <4> QED
        BY <2>1, <3>1, <4>1, PickIsSafe
    <3>2. CASE k_pc \in {"scan", "batch"} /\ k_t' = k_t
      <4>1. PICK k \in Nat : k = k_t
        OBVIOUS
      <4>2. Safe(k)
        BY <2>1, <3>2, <4>1 DEF TimeInv
      <4>3. Safe(k)'
        BY <2>3, <4>2
      <4> QED
        BY <3>2, <4>1, <4>3 DEF Safe
    <3> QED
      BY <2>2, <3>1, <3>2
  <2> QED
    BY <2>4, <2>5, <2>6, <2>7, <2>8, <2>9 DEF TimeInv
<1> QED
  BY <1>1, <1>2

-----------------------------------------------------------------------------
(* The owners of the buffers *)

\* The buffers are functions.
LEMMA BufferTypes ==
  ASSUME TypeOK
  PROVE  /\ b_transaction \in [Block -> Nat] /\ b_next_transaction \in [Block -> Nat]
         /\ b_data \in [Block -> Nat] /\ b_cp_transaction \in [Block -> Nat]
         /\ b_dirty \in [Block -> BOOLEAN] /\ b_io \in [Block -> BOOLEAN]
         /\ b_delayed_write \in [Block -> BOOLEAN] /\ b_checkpoint_time \in [Block -> Nat]
         /\ mods \in [Tid -> SUBSET Block] /\ forget \subseteq Block /\ k_batch \subseteq Block
<1>1. OptTid \subseteq Nat /\ 0 .. load.time + INTERVAL \subseteq Nat
  BY LoadTypes DEF OptTid, TypeOK
<1> QED
  BY <1>1 DEF TypeOK

\* A transaction starts with no blocks.
LEMMA StartOwner ==
  ASSUME TypeOK, StartInv, OrderInv, OwnerInv, StartTransaction
  PROVE  OwnerInv'
<1> USE Numbers, BufferTypes
<1>1. /\ UNCHANGED <<load, committing, mods, forget, b_data, b_transaction, b_next_transaction, b_cp_transaction>>
      /\ running = 0 /\ running' = sequence /\ sequence' = sequence + 1 /\ sequence \in Tid /\ Tid' = Tid
  BY DEF StartTransaction, StartInv, Tid, cVars, cpVars, bufVars
<1>2. \A b \in Block : b_data[b] < sequence
  BY DEF OwnerInv
<1>3. mods[sequence] = {}
  BY <1>1 DEF OwnerInv
<1>4. \A t \in Tid : t >= sequence' => mods[t] = {}
  BY <1>1 DEF OwnerInv
<1>5. \A b \in Block : b_data[b] < sequence' /\ b_data[b] # running'
  BY <1>1, <1>2
<1> QED
  BY <1>1, <1>3, <1>4, <1>5 DEF OwnerInv

\* A block that is changed becomes the running transaction's, at once or after
\* the committing one.
LEMMA ModifyOwner ==
  ASSUME TypeOK, StartInv, OrderInv, OwnerInv, NEW b \in Block, Modify(b)
  PROVE  OwnerInv'
<1> USE Numbers, BufferTypes
<1>1. /\ UNCHANGED <<load, running, committing, sequence, forget, b_cp_transaction>>
      /\ running # 0 /\ b_data[b] # running
      /\ b_data' = [b_data EXCEPT ![b] = running]
      /\ mods' = [mods EXCEPT ![running] = @ \cup {b}]
      /\ b_transaction[b] = 0 => b_transaction' = [b_transaction EXCEPT ![b] = running]
                                 /\ b_next_transaction' = b_next_transaction
      /\ b_transaction[b] # 0 => b_next_transaction' = [b_next_transaction EXCEPT ![b] = running]
                                 /\ b_transaction' = b_transaction
  BY DEF Modify, cVars, cpVars
<1>2. running \in Tid /\ Tid' = Tid /\ running < sequence
  BY <1>1, SMTT(30) DEF Tid, OrderInv
<1>3. committing # 0 => committing \in Tid /\ committing # running
  <2>1. committing # 0 => committing = running - 1
    BY <1>1 DEF OrderInv
  <2>2. committing # 0 => committing \in Tid
    BY DEF Tid
  <2> QED
    BY <2>1, <2>2
<1>4. \A c \in Block : c # b => b_data'[c] = b_data[c] /\ b_transaction'[c] = b_transaction[c]
                               /\ b_next_transaction'[c] = b_next_transaction[c]
  BY <1>1
<1>5. b_data'[b] = running /\ mods'[running] = mods[running] \cup {b} /\ \A t \in Tid : t # running => mods'[t] = mods[t]
  BY <1>1, <1>2
<1>6. /\ b \in forget => b_transaction'[b] # 0 /\ b_next_transaction'[b] = running
      /\ b \notin forget => b_transaction'[b] = running /\ b_next_transaction'[b] = 0
  BY <1>1 DEF OwnerInv
<1>7. \A t \in Tid : t >= sequence => mods'[t] = {}
  BY <1>2, <1>5 DEF OwnerInv
<1>8. \A c \in Block : b_data'[c] < sequence
  BY <1>2, <1>4, <1>5 DEF OwnerInv
<1>9. \A c \in Block : b_data'[c] = running <=> c \in mods'[running]
  BY <1>1, <1>4, <1>5 DEF OwnerInv
<1>10. committing # 0 =>
         /\ forget \subseteq mods'[committing]
         /\ \A c \in Block : b_cp_transaction[c] = committing => c \in mods'[committing]
  BY <1>3, <1>5 DEF OwnerInv
<1>11. \A c \in forget :
         /\ b_transaction'[c] # 0
         /\ b_next_transaction'[c] = 0 => b_data'[c] = committing
         /\ b_next_transaction'[c] # 0 => b_data'[c] = running
  BY <1>1, <1>4, <1>5, <1>6 DEF OwnerInv
<1>12. \A c \in Block \ forget :
         /\ b_next_transaction'[c] = 0
         /\ b_transaction'[c] # 0 <=> b_data'[c] = running
  BY <1>1, <1>4, <1>5, <1>6 DEF OwnerInv
<1>13. committing = 0 => forget = {}
  BY DEF OwnerInv
<1> QED
  BY <1>1, <1>2, <1>7, <1>8, <1>9, <1>10, <1>11, <1>12, <1>13 DEF OwnerInv

\* The blocks of the running transaction become those to forget.
LEMMA CommitStartOwner ==
  ASSUME TypeOK, StartInv, OrderInv, OwnerInv, NEW kind, CommitStart(kind)
  PROVE  OwnerInv'
<1> USE Numbers, BufferTypes
<1>1. PICK S : RemoveCheckpoint(S)
  BY DEF CommitStart
<1>2. /\ UNCHANGED <<load, sequence, mods, b_data, b_transaction, b_next_transaction>>
      /\ committing = 0 /\ committing' = running /\ running # 0 /\ running' = 0 /\ forget' = mods[running]
  BY DEF CommitStart, bufVars
<1>3. running \in Tid /\ Tid' = Tid /\ Open = running
  BY <1>2 DEF Tid, Open
<1>4. \A b \in Block : b_cp_transaction'[b] \in {0, b_cp_transaction[b]}
  BY <1>1, <1>2, RemoveCheckpointIs
<1>5. \A b \in Block : b_cp_transaction'[b] # running
  BY <1>2, <1>3, <1>4 DEF OrderInv
<1>6. forget = {} /\ \A b \in Block : b_data[b] = running <=> b \in mods[running]
  BY <1>2 DEF OwnerInv
<1>7. \A b \in Block : b_next_transaction[b] = 0 /\ (b_transaction[b] # 0 <=> b_data[b] = running)
  BY <1>2, <1>6 DEF OwnerInv
<1>8. mods[running] \subseteq Block
  BY <1>3
<1> QED
  BY <1>2, <1>3, <1>5, <1>6, <1>7, <1>8 DEF OwnerInv

\* A buffer that is forgotten goes to the running transaction or to nobody.
LEMMA ForgetOwner ==
  ASSUME TypeOK, StartInv, OrderInv, OwnerInv, NEW b \in Block, CommitForget(b)
  PROVE  OwnerInv'
<1> USE Numbers, BufferTypes
<1>1. /\ UNCHANGED <<load, running, committing, sequence, mods, b_data>>
      /\ b \in forget /\ forget' = forget \ {b}
      /\ b_cp_transaction' = [b_cp_transaction EXCEPT ![b] = committing]
      /\ b_transaction' = [b_transaction EXCEPT ![b] = b_next_transaction[b]]
      /\ b_next_transaction' = [b_next_transaction EXCEPT ![b] = 0]
  BY DEF CommitForget, txVars
<1>2. committing # 0 /\ committing # running /\ Tid' = Tid
  <2>1. committing # 0
    BY <1>1 DEF OwnerInv
  <2>2. committing # running
    BY <2>1 DEF OrderInv
  <2>3. Tid' = Tid
    BY <1>1 DEF Tid
  <2> QED
    BY <2>1, <2>2, <2>3
<1>3. \A c \in Block : c # b => b_cp_transaction'[c] = b_cp_transaction[c] /\ b_transaction'[c] = b_transaction[c]
                               /\ b_next_transaction'[c] = b_next_transaction[c]
  BY <1>1
<1>4. b_cp_transaction'[b] = committing /\ b_transaction'[b] = b_next_transaction[b] /\ b_next_transaction'[b] = 0
  BY <1>1
<1>5. b_next_transaction[b] # 0 <=> running # 0 /\ b_data[b] = running
  BY <1>1, <1>2 DEF OwnerInv
<1>6. forget' \subseteq mods[committing] /\ \A c \in Block : b_cp_transaction'[c] = committing => c \in mods[committing]
  BY <1>1, <1>2, <1>3 DEF OwnerInv
<1>7. \A c \in forget' :
         /\ b_transaction'[c] # 0
         /\ b_next_transaction'[c] = 0 => b_data[c] = committing
         /\ b_next_transaction'[c] # 0 => running # 0 /\ b_data[c] = running
  BY <1>1, <1>3 DEF OwnerInv
<1>8. \A c \in Block \ forget' :
         /\ b_next_transaction'[c] = 0
         /\ b_transaction'[c] # 0 <=> running # 0 /\ b_data[c] = running
  BY <1>1, <1>3, <1>4, <1>5 DEF OwnerInv
<1> QED
  BY <1>1, <1>2, <1>6, <1>7, <1>8 DEF OwnerInv

\* The owners are kept.
LEMMA OwnerNext ==
  ASSUME TypeOK, StartInv, OrderInv, OwnerInv, Next
  PROVE  OwnerInv'
<1> USE Numbers, BufferTypes
<1>1. ASSUME UNCHANGED <<load, running, committing, sequence, mods, forget, b_data, b_transaction, b_next_transaction>>,
             \A b \in Block : b_cp_transaction'[b] \in {0, b_cp_transaction[b]}
      PROVE  OwnerInv'
  <2>1. Tid' = Tid
    BY <1>1 DEF Tid
  <2>2. committing # 0 => \A b \in Block : b_cp_transaction'[b] = committing => b \in mods[committing]
    BY <1>1 DEF OwnerInv
  <2> QED
    BY <1>1, <2>1, <2>2 DEF OwnerInv
<1>2. CASE StartTransaction \/ \E b \in Block : Modify(b)
  BY <1>2, StartOwner, ModifyOwner
<1>3. CASE (\E kind \in {"osync", "dsync"} : CommitStart(kind)) \/ \E b \in Block : CommitForget(b)
  BY <1>3, CommitStartOwner, ForgetOwner
<1>4. CASE CommitFinish
  <2>1. /\ UNCHANGED <<load, running, sequence, mods, forget, b_data, b_transaction, b_next_transaction, b_cp_transaction>>
        /\ committing' = 0 /\ forget = {}
    BY <1>4 DEF CommitFinish, bufVars
  <2>2. Tid' = Tid
    BY <2>1 DEF Tid
  <2> QED
    BY <2>1, <2>2 DEF OwnerInv
<1>5. CASE \E b \in Block : KProcess(b) \/ KWaitIo(b) \/ TryToFree(b)
  <2>1. UNCHANGED <<load, running, committing, sequence, mods, forget, b_data, b_transaction, b_next_transaction>>
    BY <1>5 DEF KProcess, KWaitIo, TryToFree, txVars, cVars, bufVars
  <2>2. UNCHANGED b_cp_transaction \/ \E S : RemoveCheckpoint(S)
    BY <1>5 DEF KProcess, KWaitIo, TryToFree
  <2>3. \A b \in Block : b_cp_transaction'[b] \in {0, b_cp_transaction[b]}
    BY <2>1, <2>2, RemoveCheckpointIs
  <2> QED
    BY <1>1, <2>1, <2>3
<1>6. CASE StartHandle \/ CommitLog
  BY <1>1, <1>6 DEF StartHandle, CommitLog, cVars, cpVars, bufVars
<1>7. CASE WaitForSpace \/ KTail \/ KSuper \/ KPick \/ KScanDone \/ KWaitDone \/ KOut
  BY <1>1, <1>7 DEF WaitForSpace, KTail, KSuper, KPick, KScanDone, KWaitDone, KOut, txVars, cVars, cpVars, bufVars
<1>8. CASE FlushBegin \/ FlushCommitted \/ FlushDone \/ FlushCheckpoint \/ FlushTail \/ FlushSuper
  BY <1>1, <1>8 DEF FlushBegin, FlushCommitted, FlushDone, FlushOnly, FlushCheckpoint, FlushTail, FlushSuper,
     txVars, cVars, cpVars, bufVars
<1>9. CASE (\E b \in Block : KWrite(b) \/ VmTest(b) \/ VmWrite(b)) \/ Disk \/ Tick
  BY <1>1, <1>9 DEF KWrite, VmTest, VmWrite, Disk, DestageLog, TearLog, DestageHome, DestageSuper, Tick, txVars, cVars, cpVars, bufVars
<1> QED
  BY <1>2, <1>3, <1>4, <1>5, <1>6, <1>7, <1>8, <1>9
     DEF Next, Transactions, Commit, DoCheckpoint, JournalFlush

-----------------------------------------------------------------------------
(* Dirty buffers *)

\* A dirty buffer that a step does not touch stays held back.
LEMMA HeldStays ==
  ASSUME TypeOK, StartInv, OrderInv, CommitInv, TimeInv, DirtyInv, Next, NEW b \in Block,
         b_dirty[b], b_data'[b] = b_data[b], b_transaction'[b] = b_transaction[b],
         b_cp_transaction'[b] = b_cp_transaction[b], b_delayed_write'[b] = b_delayed_write[b],
         b_checkpoint_time'[b] = b_checkpoint_time[b]
  PROVE  /\ b_transaction'[b] = 0 /\ b_cp_transaction'[b] = b_data'[b] /\ b_data'[b] \in committed'
         /\ b_delayed_write'[b] => Due(b_data[b], b_checkpoint_time[b])'
         /\ ~b_delayed_write'[b] => Safe(b_data[b])'
<1> USE Numbers, BufferTypes
<1>1. /\ b_transaction[b] = 0 /\ b_cp_transaction[b] = b_data[b] /\ b_data[b] \in committed
      /\ b_delayed_write[b] => Due(b_data[b], b_checkpoint_time[b])
      /\ ~b_delayed_write[b] => Safe(b_data[b])
  BY DEF DirtyInv
<1>2. /\ load' = load /\ logged \subseteq logged' /\ tail <= tail' /\ tail' \in Nat
      /\ committed \subseteq committed' /\ Carried
  BY LogStep
<1>3. /\ \A t \in Nat : Safe(t) => Safe(t)'
      /\ \A t \in OptTid : \A w \in Nat : Due(t, w) => Due(t, w)'
  BY <1>2, SafeStays
<1>4. PICK d \in Tid, w \in Nat : d = b_data[b] /\ w = b_checkpoint_time[b]
  BY <1>1
<1>5. d \in Nat /\ d \in OptTid
  BY DEF OptTid, Tid
<1>6. /\ b_delayed_write[b] => Due(d, w)'
      /\ ~b_delayed_write[b] => Safe(d)'
  BY <1>1, <1>3, <1>4, <1>5
<1>7. /\ b_delayed_write'[b] => Due(b_data[b], b_checkpoint_time[b])'
      /\ ~b_delayed_write'[b] => Safe(b_data[b])'
  BY <1>4, <1>6 DEF Due, Safe
<1> QED
  BY <1>1, <1>2, <1>7

\* A buffer that is forgotten is held back until its transaction is safe.
LEMMA ForgetHeld ==
  ASSUME TypeOK, StartInv, OrderInv, CommitInv, OwnerInv, TimeInv, NEW b \in Block, CommitForget(b), b_dirty'[b]
  PROVE  /\ b_transaction'[b] = 0 /\ b_cp_transaction'[b] = b_data'[b] /\ b_data'[b] \in committed'
         /\ b_delayed_write'[b] => Due(b_data[b], b_checkpoint_time[b])'
         /\ ~b_delayed_write'[b] \/ c_durable => Safe(b_data[b])'
<1> USE Numbers, BufferTypes
<1>1. /\ UNCHANGED <<load, now, committed, b_data, tail, logged, logTime>>
      /\ c_pc = "forget" /\ b \in forget
      /\ ~c_durable => b_delayed_write'[b] = TRUE /\ b_checkpoint_time'[b] = now + INTERVAL
      /\ b_cp_transaction'[b] = committing
      /\ b_transaction'[b] = b_next_transaction[b]
      /\ b_dirty'[b] = (b_next_transaction[b] = 0 /\ ~aborted)
  BY DEF CommitForget, txVars, delayVars, diskVars, logVars
<1>2. b_next_transaction[b] = 0 /\ ~aborted
  BY <1>1
<1>3. b_data[b] = committing /\ committing \in committed
  BY <1>1, <1>2 DEF OwnerInv, CommitInv
<1>4. PICK c \in committed : c = committing
  BY <1>3
<1>5. CASE c_durable
  <2>1. Safe(c)
    BY <1>1, <1>2, <1>4, <1>5 DEF TimeInv
  <2>2. Safe(c)'
    BY <1>1, <2>1 DEF Safe, Passed
  <2>3. \A w : Due(c, w)'
    BY <2>2 DEF Due, Safe
  <2> QED
    BY <1>1, <1>2, <1>3, <1>4, <2>2, <2>3 DEF Due, Safe
<1>6. CASE ~c_durable
  <2>1. PICK w \in Nat : w = now + INTERVAL
    OBVIOUS
  <2>2. Due(c, w)
    BY <2>1, CommittedIsDue
  <2>3. Due(c, w)'
    BY <1>1, <2>2 DEF Due, Passed
  <2>4. Due(b_data[b], b_checkpoint_time[b])'
    BY <1>1, <1>3, <1>4, <1>6, <2>1, <2>3 DEF Due
  <2> QED
    BY <1>1, <1>2, <1>3, <1>6, <2>4
<1> QED
  BY <1>5, <1>6

\* A step makes no buffer dirty but a forgotten one, touches no dirty buffer
\* but to change it or to write it, and takes no dirty one off its list.
LEMMA DirtyStep ==
  ASSUME TypeOK, StartInv, OrderInv, DirtyInv, BatchInv, OwnerInv, Next, NEW b \in Block, b_dirty'[b]
  PROVE  \/ CommitForget(b)
         \/ /\ b_dirty[b] /\ b_data'[b] = b_data[b] /\ b_transaction'[b] = b_transaction[b]
            /\ b_cp_transaction'[b] = b_cp_transaction[b]
            /\ b_delayed_write'[b] = b_delayed_write[b] \/ VmTest(b)
            /\ b_checkpoint_time'[b] = b_checkpoint_time[b] /\ (b_io'[b] => b_io[b] \/ b \in k_batch')
            /\ (b \in k_batch => b \in k_batch')
<1> USE Numbers, BufferTypes
<1>1. CASE UNCHANGED <<bufVars, delayVars, cpVars, k_batch>>
  BY <1>1 DEF bufVars, delayVars, cpVars
<1>2. CASE \E c \in Block : Modify(c)
  <2>1. PICK c \in Block : Modify(c)
    BY <1>2
  <2>2. /\ UNCHANGED <<delayVars, cpVars, k_batch>>
        /\ b_data' = [b_data EXCEPT ![c] = running] /\ b_dirty' = [b_dirty EXCEPT ![c] = FALSE]
        /\ \/ b_transaction' = [b_transaction EXCEPT ![c] = running]
           \/ b_transaction' = b_transaction
    BY <2>1 DEF Modify, kVars
  <2>3. b # c
    BY <2>2
  <2> QED
    BY <2>2, <2>3 DEF delayVars, cpVars
<1>3. CASE \E kind \in {"osync", "dsync"} : CommitStart(kind)
  <2>1. PICK S \in SUBSET Freeable : RemoveCheckpoint(S)
    BY <1>3 DEF CommitStart
  <2>2. UNCHANGED <<load, bufVars, delayVars, k_batch>>
    BY <1>3 DEF CommitStart, kVars
  <2>3. b_dirty[b] /\ b \notin S
    BY <2>1, <2>2 DEF bufVars, Freeable
  <2> QED
    BY <2>1, <2>2, <2>3, RemoveCheckpointIs DEF bufVars, delayVars
<1>4. CASE \E c \in Block : CommitForget(c)
  <2>1. PICK c \in Block : CommitForget(c)
    BY <1>4
  <2>2. CASE c # b
    <3>1. /\ b_cp_transaction' = [b_cp_transaction EXCEPT ![c] = committing]
          /\ b_io' = [b_io EXCEPT ![c] = FALSE]
          /\ b_transaction' = [b_transaction EXCEPT ![c] = b_next_transaction[c]]
          /\ b_dirty' = [b_dirty EXCEPT ![c] = b_next_transaction[c] = 0 /\ ~aborted]
          /\ b_data' = b_data /\ k_batch' = k_batch
      BY <2>1 DEF CommitForget, kVars
    <3>2. \/ UNCHANGED delayVars
          \/ /\ b_delayed_write' = [b_delayed_write EXCEPT ![c] = TRUE]
             /\ b_checkpoint_time' = [b_checkpoint_time EXCEPT ![c] = now + INTERVAL]
      BY <2>1 DEF CommitForget
    <3>3. b_delayed_write'[b] = b_delayed_write[b] /\ b_checkpoint_time'[b] = b_checkpoint_time[b]
      BY <2>2, <3>2 DEF delayVars
    <3> QED
      BY <2>2, <3>1, <3>3
  <2> QED
    BY <2>1, <2>2
<1>5. CASE \E c \in Block : KProcess(c)
  <2>1. PICK c \in Block : KProcess(c)
    BY <1>5
  <2>2. UNCHANGED <<load, bufVars, delayVars>>
    BY <2>1 DEF KProcess
  <2>3. CASE b_dirty[c]
    <3>1. b_io' = [b_io EXCEPT ![c] = TRUE] /\ k_batch' = k_batch \cup {c} /\ UNCHANGED b_cp_transaction
      BY <2>1, <2>3 DEF KProcess
    <3>2. b_io'[b] => b_io[b] \/ b \in k_batch'
      BY <3>1
    <3> QED
      BY <2>2, <3>1, <3>2 DEF bufVars, delayVars
  <2>4. CASE ~b_dirty[c]
    <3>1. RemoveCheckpoint({c}) /\ k_batch' = k_batch
      BY <2>1, <2>4 DEF KProcess
    <3>2. b_dirty[b] /\ b # c
      BY <2>2, <2>4 DEF bufVars
    <3> QED
      BY <2>2, <3>1, <3>2, RemoveCheckpointIs DEF bufVars, delayVars
  <2> QED
    BY <2>3, <2>4
<1>6. CASE \E c \in Block : KWaitIo(c)
  <2>1. PICK c \in Block : KWaitIo(c)
    BY <1>6
  <2>2. UNCHANGED <<load, bufVars, delayVars, k_batch>> /\ RemoveCheckpoint({c}) /\ k_pc = "wait" /\ b_io[c]
    BY <2>1 DEF KWaitIo, OnIoList
  <2>3. k_batch = {}
    BY <2>2 DEF BatchInv
  <2>4. b_dirty[b] /\ b # c
    BY <2>2, <2>3 DEF bufVars, BatchInv
  <2> QED
    BY <2>2, <2>4, RemoveCheckpointIs DEF bufVars, delayVars
<1>7. CASE \E c \in Block : KWrite(c) \/ VmWrite(c)
  <2>1. PICK c \in Block : KWrite(c) \/ VmWrite(c)
    BY <1>7
  <2>2. /\ UNCHANGED <<load, cpVars, b_data, b_transaction, b_checkpoint_time>>
        /\ k_batch' \in {k_batch, k_batch \ {c}}
        /\ b_delayed_write' \in {b_delayed_write, [b_delayed_write EXCEPT ![c] = FALSE]}
    BY <2>1 DEF KWrite, VmWrite, kVars
  <2>3. WriteHome(c) \/ (~b_dirty[c] /\ b_dirty' = b_dirty)
    BY <2>1 DEF KWrite, VmWrite
  <2>4. ~b_dirty'[c] /\ \A x \in Block : x # c => b_dirty'[x] = b_dirty[x]
    <3>1. CASE WriteHome(c)
      BY <2>2, <3>1, WriteHomeIs
    <3>2. CASE ~b_dirty[c] /\ b_dirty' = b_dirty
      BY <3>2
    <3> QED
      BY <2>3, <3>1, <3>2
  <2> QED
    BY <2>2, <2>4 DEF cpVars
<1>13. CASE \E c \in Block : VmTest(c)
  <2>1. PICK c \in Block : VmTest(c)
    BY <1>13
  <2>2. /\ UNCHANGED <<bufVars, b_checkpoint_time, cpVars, k_batch>>
        /\ b_delayed_write' = [b_delayed_write EXCEPT ![c] = FALSE]
    BY <2>1 DEF VmTest, kVars
  <2>3. b_delayed_write'[b] = b_delayed_write[b] \/ VmTest(b)
    BY <2>1, <2>2
  <2> QED
    BY <2>2, <2>3 DEF bufVars, cpVars
<1>14. CASE \E c \in Block : TryToFree(c)
  <2>1. PICK c \in Block : TryToFree(c)
    BY <1>14
  <2>2. /\ UNCHANGED <<load, b_data, b_dirty, b_transaction, delayVars, k_batch>>
        /\ RemoveCheckpoint({c}) /\ ~b_dirty[c]
    BY <2>1 DEF TryToFree, kVars
  <2>3. b_dirty[b] /\ b # c
    BY <2>2
  <2> QED
    BY <2>2, <2>3, RemoveCheckpointIs DEF delayVars
<1>8. CASE CommitFinish
  BY <1>8 DEF CommitFinish, bufVars, delayVars, kVars
<1>9. CASE StartHandle \/ StartTransaction \/ CommitLog
  BY <1>1, <1>9 DEF StartHandle, StartTransaction, CommitLog, kVars
<1>10. CASE WaitForSpace \/ KTail \/ KSuper \/ KPick \/ KScanDone \/ KWaitDone \/ KOut
  BY <1>1, <1>10 DEF WaitForSpace, KTail, KSuper, KPick, KScanDone, KWaitDone, KOut
<1>11. CASE FlushBegin \/ FlushCommitted \/ FlushDone \/ FlushCheckpoint \/ FlushTail \/ FlushSuper
  BY <1>1, <1>11 DEF FlushBegin, FlushCommitted, FlushDone, FlushOnly, FlushCheckpoint, FlushTail, FlushSuper, kVars
<1>12. CASE Disk \/ Tick
  BY <1>1, <1>12 DEF Disk, DestageLog, TearLog, DestageHome, DestageSuper, Tick, kVars
<1> QED
  BY <1>2, <1>3, <1>4, <1>5, <1>6, <1>7, <1>8, <1>9, <1>10, <1>11, <1>12, <1>13, <1>14
     DEF Next, Transactions, Commit, DoCheckpoint, JournalFlush

\* A dirty buffer that the VM finds no longer delayed is safe.
LEMMA TestedIsSafe ==
  ASSUME TypeOK, TimeInv, DirtyInv, NEW b \in Block, b_dirty[b], VmTest(b)
  PROVE  /\ b_transaction'[b] = 0 /\ b_cp_transaction'[b] = b_data'[b] /\ b_data'[b] \in committed'
         /\ ~b_delayed_write'[b] /\ Safe(b_data[b])'
<1> USE Numbers, BufferTypes
<1>1. /\ b_transaction[b] = 0 /\ b_cp_transaction[b] = b_data[b] /\ b_data[b] \in committed
      /\ b_delayed_write[b] => Due(b_data[b], b_checkpoint_time[b])
      /\ ~b_delayed_write[b] => Safe(b_data[b])
  BY DEF DirtyInv
<1>2. /\ UNCHANGED <<b_data, b_transaction, b_cp_transaction, committed, logged, tail>>
      /\ ~b_delayed_write'[b] /\ (b_delayed_write[b] => b_checkpoint_time[b] <= now)
  BY DEF VmTest, bufVars, cpVars, txVars, diskVars, logVars
<1>3. PICK d \in Tid, w \in Nat : d = b_data[b] /\ w = b_checkpoint_time[b]
  BY <1>1
<1>4. d \in OptTid
  BY DEF OptTid, Tid
<1>5. Safe(d)
  BY <1>1, <1>2, <1>3, <1>4, DueIsSafe
<1>6. Safe(b_data[b])'
  BY <1>2, <1>3, <1>5 DEF Safe, Passed
<1> QED
  BY <1>1, <1>2, <1>6

\* Dirty buffers stay held back.
LEMMA DirtyNext ==
  ASSUME TypeOK, StartInv, OrderInv, CommitInv, OwnerInv, TimeInv, DirtyInv, BatchInv, Next
  PROVE  DirtyInv'
<1> SUFFICES ASSUME NEW b \in Block, b_dirty'[b]
             PROVE  /\ b_transaction'[b] = 0 /\ b_cp_transaction'[b] = b_data'[b] /\ b_data'[b] \in committed'
                    /\ b_delayed_write'[b] => Due(b_data[b], b_checkpoint_time[b])'
                    /\ ~b_delayed_write'[b] => Safe(b_data[b])'
  BY DEF DirtyInv
<1>1. CASE CommitForget(b)
  BY <1>1, ForgetHeld
<1>2. CASE /\ b_dirty[b] /\ b_data'[b] = b_data[b] /\ b_transaction'[b] = b_transaction[b]
           /\ b_cp_transaction'[b] = b_cp_transaction[b] /\ b_delayed_write'[b] = b_delayed_write[b]
           /\ b_checkpoint_time'[b] = b_checkpoint_time[b]
  BY <1>2, HeldStays
<1>3. CASE b_dirty[b] /\ VmTest(b)
  BY <1>3, TestedIsSafe
<1> QED
  BY <1>1, <1>2, <1>3, DirtyStep

\* Which buffers the VM has let pass, and whether a commit overtook it.
LEMMA ReadyStep ==
  ASSUME TypeOK, Next
  PROVE  /\ overtaken => overtaken'
         /\ \A b \in w_ready' : b \in w_ready \/ VmTest(b)
         /\ \A b \in Block : CommitForget(b) /\ b \in w_ready' => c_durable \/ overtaken'
<1> DEFINE P == /\ overtaken => overtaken'
                /\ \A b \in w_ready' : b \in w_ready \/ VmTest(b)
<1>11. \A b \in Block : CommitForget(b) /\ b \in w_ready' => c_durable \/ overtaken'
  BY DEF CommitForget
<1> SUFFICES P
  BY <1>11
<1>1. CASE UNCHANGED delayVars
  BY <1>1 DEF delayVars
<1>2. CASE \E b \in Block : CommitForget(b)
  BY <1>2 DEF CommitForget, delayVars
<1>3. CASE \E b \in Block : VmTest(b) \/ VmWrite(b) \/ KWrite(b)
  BY <1>3 DEF VmTest, VmWrite, KWrite
<1>4. CASE StartHandle \/ StartTransaction \/ CommitLog \/ CommitFinish \/ WaitForSpace
  BY <1>1, <1>4 DEF StartHandle, StartTransaction, CommitLog, CommitFinish, WaitForSpace
<1>5. CASE (\E b \in Block : Modify(b)) \/ \E kind \in {"osync", "dsync"} : CommitStart(kind)
  <2>1. UNCHANGED delayVars
    BY <1>5 DEF Modify, CommitStart
  <2> QED
    BY <1>1, <2>1
<1>6. CASE KTail \/ KSuper \/ KPick \/ KScanDone \/ KWaitDone \/ KOut
  BY <1>1, <1>6 DEF KTail, KSuper, KPick, KScanDone, KWaitDone, KOut
<1>7. CASE \E b \in Block : KProcess(b) \/ KWaitIo(b) \/ TryToFree(b)
  <2>1. UNCHANGED delayVars
    BY <1>7 DEF KProcess, KWaitIo, TryToFree
  <2> QED
    BY <1>1, <2>1
<1>8. CASE FlushBegin \/ FlushCommitted \/ FlushDone \/ FlushCheckpoint \/ FlushTail \/ FlushSuper
  BY <1>1, <1>8 DEF FlushBegin, FlushCommitted, FlushDone, FlushOnly, FlushCheckpoint, FlushTail, FlushSuper
<1>9. CASE Disk \/ Tick
  BY <1>1, <1>9 DEF Disk, DestageLog, TearLog, DestageHome, DestageSuper, Tick
<1> QED
  BY <1>2, <1>3, <1>4, <1>5, <1>6, <1>7, <1>8, <1>9
     DEF Next, Transactions, Commit, DoCheckpoint, JournalFlush

\* What the VM has let pass and finds dirty is safe.
LEMMA ReadyNext ==
  ASSUME TypeOK, StartInv, OrderInv, CommitInv, OwnerInv, TimeInv, DirtyInv, BatchInv, ReadyInv, Next, TypeOK'
  PROVE  ReadyInv'
<1> USE Numbers, BufferTypes
<1> SUFFICES ASSUME ~overtaken', NEW b \in w_ready', b_dirty'[b]
             PROVE  Safe(b_data[b])'
  BY DEF ReadyInv
<1>1. ~overtaken /\ (b \in w_ready \/ VmTest(b)) /\ (b \in Block /\ CommitForget(b) => c_durable)
  BY ReadyStep
<1>2. b \in Block
  BY DEF TypeOK
<1>3. CASE CommitForget(b)
  BY <1>1, <1>2, <1>3, ForgetHeld
<1>4. CASE b_dirty[b] /\ VmTest(b)
  BY <1>2, <1>4, TestedIsSafe
<1>5. CASE b_dirty[b] /\ b_data'[b] = b_data[b] /\ b \in w_ready
  <2>1. PICK d \in Nat : d = b_data[b]
    BY <1>2
  <2>2. Safe(d)
    BY <1>1, <1>5, <2>1 DEF ReadyInv
  <2>3. Safe(d)'
    BY <2>2, LogStep, SafeStays
  <2> QED
    BY <1>5, <2>1, <2>3 DEF Safe
<1> QED
  BY <1>1, <1>2, <1>3, <1>4, <1>5, DirtyStep

-----------------------------------------------------------------------------
(* The journal flush *)

\* While the journal is flushed nothing new is to be checkpointed.
LEMMA FlushNext ==
  ASSUME TypeOK, StartInv, OrderInv, OwnerInv, FlushInv, Next
  PROVE  FlushInv'
<1> USE Numbers, BufferTypes
<1>1. ASSUME UNCHANGED <<f_pc, f_tid, f_err, running, committing, sequence, mods>>, aborted => aborted',
             cpTrans' \subseteq cpTrans,
             k_pc' # "idle" /\ ~needs_checkpoint' => k_pc # "idle" /\ ~needs_checkpoint
      PROVE  FlushInv'
  BY <1>1 DEF FlushInv, Idle
<1>2. CASE StartTransaction
  <2>1. /\ UNCHANGED <<f_pc, f_tid, f_err, committing, mods, aborted, cpTrans, k_pc, needs_checkpoint>>
        /\ running' = sequence /\ sequence' = sequence + 1 /\ running = 0 /\ sequence \in Tid
    BY <1>2 DEF StartTransaction, StartInv, Tid, fVars, cpVars, kVars
  <2>2. mods[sequence] = {}
    BY <2>1 DEF OwnerInv
  <2>3. Idle(running)' /\ (Idle(committing) => Idle(committing)')
    BY <2>1, <2>2 DEF Idle
  <2>4. f_pc' = "commit" => f_tid' < sequence' /\ \A t \in {running', committing'} : t > f_tid' => Idle(t)'
    BY <2>1, <2>2 DEF FlushInv, Idle
  <2> QED
    BY <2>1, <2>3, <2>4 DEF FlushInv
<1>3. CASE \E b \in Block : Modify(b)
  <2>1. UNCHANGED <<f_pc, f_err, aborted, k_pc, needs_checkpoint>> /\ f_pc = "idle"
    BY <1>3 DEF Modify, fVars, kVars
  <2> QED
    BY <2>1 DEF FlushInv
<1>4. CASE \E kind \in {"osync", "dsync"} : CommitStart(kind)
  <2>1. PICK S : RemoveCheckpoint(S)
    BY <1>4 DEF CommitStart
  <2>2. /\ UNCHANGED <<load, f_pc, f_tid, f_err, sequence, mods, aborted, k_pc, needs_checkpoint>>
        /\ committing' = running /\ running' = 0
    BY <1>4 DEF CommitStart, fVars, kVars
  <2>3. cpTrans' \subseteq cpTrans
    BY <2>1 DEF RemoveCheckpoint
  <2>4. Idle(running)' /\ (Idle(running) => Idle(committing)')
    BY <2>2 DEF Idle
  <2>5. f_pc' = "commit" => f_tid' < sequence' /\ \A t \in {running', committing'} : t > f_tid' => Idle(t)'
    BY <2>2 DEF FlushInv, Idle
  <2> QED
    BY <2>2, <2>3, <2>4, <2>5 DEF FlushInv
<1>5. CASE CommitFinish
  <2>1. /\ UNCHANGED <<f_pc, f_tid, f_err, running, sequence, mods, aborted, k_pc, needs_checkpoint>>
        /\ committing' = 0 /\ committing # 0
        /\ cpTrans' = IF \E b \in Block : b_cp_transaction[b] = committing
                      THEN cpTrans \cup {committing} ELSE cpTrans
    BY <1>5 DEF CommitFinish, StartInv, fVars, kVars
  <2>2. Idle(committing) => cpTrans' = cpTrans
    BY <2>1 DEF Idle, OwnerInv
  <2>3. Idle(committing)' /\ (Idle(running) => Idle(running)')
    BY <2>1 DEF Idle
  <2>4. f_pc' = "commit" => f_tid' < sequence' /\ \A t \in {running', committing'} : t > f_tid' => Idle(t)'
    BY <2>1 DEF FlushInv, Idle
  <2> QED
    BY <2>1, <2>2, <2>3, <2>4 DEF FlushInv
<1>6. CASE FlushBegin
  <2>1. /\ f_pc = "idle" /\ f_pc' = "commit" /\ f_tid' = (IF running # 0 THEN running ELSE committing) /\ f_err' = FALSE
        /\ UNCHANGED <<running, committing, sequence, mods, k_pc, needs_checkpoint>>
    BY <1>6 DEF FlushBegin, FlushOnly, txVars, kVars
  <2>2. f_tid' < sequence
    BY <2>1 DEF OrderInv
  <2>3. running <= f_tid' /\ committing <= f_tid'
    BY <2>1 DEF OrderInv
  <2>4. \A t \in {running', committing'} : ~(t > f_tid')
    BY <2>1, <2>3
  <2> QED
    BY <2>1, <2>2, <2>4 DEF FlushInv
<1>7. CASE FlushCommitted
  <2>1. /\ f_pc = "commit" /\ f_pc' = "loop" /\ f_err' = FALSE
        /\ f_tid = 0 \/ f_tid \notin {running, committing}
        /\ UNCHANGED <<running, committing, sequence, mods, k_pc, needs_checkpoint>>
    BY <1>7 DEF FlushCommitted, FlushOnly, txVars, kVars
  <2>2. f_tid < sequence /\ \A t \in {running, committing} : t > f_tid => Idle(t)
    BY <2>1 DEF FlushInv
  <2>3. running # 0 => running > f_tid
    BY <2>1, <2>2 DEF OrderInv
  <2>4. committing # 0 => committing > f_tid
    <3>1. CASE running # 0
      BY <2>1, <2>3, <3>1 DEF OrderInv
    <3>2. CASE running = 0
      BY <2>1, <2>2, <3>2 DEF OrderInv
    <3> QED
      BY <3>1, <3>2
  <2>5. Idle(running)' /\ Idle(committing)'
    BY <2>1, <2>2, <2>3, <2>4 DEF Idle
  <2> QED
    BY <2>1, <2>5 DEF FlushInv
<1>8. CASE FlushDone
  <2>1. /\ f_pc = "loop" /\ f_pc' \in {"idle", "tail"} /\ f_err' = FALSE /\ (k_pc = "idle" \/ needs_checkpoint)
        /\ cpTrans = {} \/ f_err
        /\ UNCHANGED <<running, committing, mods, k_pc, needs_checkpoint, cpTrans, aborted>>
    BY <1>8 DEF FlushDone, FlushOnly, txVars, kVars, cpVars
  <2>2. Idle(running)' /\ Idle(committing)'
    BY <2>1 DEF FlushInv, Idle
  <2> QED
    BY <2>1, <2>2 DEF FlushInv
<1>9. CASE FlushCheckpoint
  <2>1. /\ f_pc = "loop" /\ UNCHANGED <<f_pc, f_tid, f_err, running, committing, sequence, mods, aborted, cpTrans>>
    BY <1>9 DEF FlushCheckpoint, txVars, fVars, cpVars
  <2> QED
    BY <2>1 DEF FlushInv, Idle
<1>10. CASE FlushTail \/ FlushSuper
  <2>1. /\ f_pc \in {"tail", "super", "mark"} /\ f_pc' \in {"super", "mark", "idle"}
        /\ UNCHANGED <<f_err, running, committing, mods, aborted, cpTrans, k_pc, needs_checkpoint>>
    BY <1>10 DEF FlushTail, FlushSuper, txVars, cpVars, kVars
  <2>2. Idle(running)' /\ Idle(committing)'
    BY <2>1 DEF FlushInv, Idle
  <2> QED
    BY <2>1, <2>2 DEF FlushInv
<1>11. CASE KOut
  <2>1. /\ UNCHANGED <<f_pc, f_tid, running, committing, sequence, mods, cpTrans, needs_checkpoint>> /\ k_pc = "out"
        /\ aborted' = (aborted \/ k_err) /\ f_err' \in {f_err, k_err}
    BY <1>11 DEF KOut, cpVars
  <2>2. f_err' => aborted'
    BY <2>1 DEF FlushInv
  <2>3. (Idle(running) <=> Idle(running)') /\ (Idle(committing) <=> Idle(committing)')
    BY <2>1 DEF Idle
  <2>4. f_pc' = "commit" => f_tid' < sequence' /\ \A t \in {running', committing'} : t > f_tid' => Idle(t)'
    BY <2>1 DEF FlushInv, Idle
  <2>5. /\ f_pc' \in {"tail", "super", "mark"} => cpTrans' = {} \/ aborted'
        /\ k_pc' # "idle" /\ ~needs_checkpoint' => f_pc' = "loop"
    BY <2>1 DEF FlushInv
  <2> QED
    BY <2>1, <2>2, <2>3, <2>4, <2>5 DEF FlushInv
<1>12. CASE StartHandle \/ CommitLog
  BY <1>1, <1>12 DEF StartHandle, CommitLog, fVars, cpVars, kVars
<1>13. CASE \E b \in Block : CommitForget(b)
  BY <1>1, <1>13 DEF CommitForget, txVars, fVars, kVars
<1>14. CASE WaitForSpace \/ KTail \/ KSuper \/ KPick \/ KScanDone \/ KWaitDone
  BY <1>1, <1>14 DEF WaitForSpace, KTail, KSuper, KPick, KScanDone, KWaitDone, txVars, fVars, cpVars
<1>15. CASE \E b \in Block : KProcess(b) \/ KWaitIo(b) \/ TryToFree(b)
  <2>1. /\ UNCHANGED <<f_pc, f_tid, f_err, running, committing, sequence, mods, aborted, needs_checkpoint>>
        /\ k_pc # "idle" \/ k_pc' = k_pc
    BY <1>15 DEF KProcess, KWaitIo, TryToFree, txVars, fVars, kVars
  <2>2. cpTrans' \subseteq cpTrans
    BY <1>15 DEF KProcess, KWaitIo, TryToFree, RemoveCheckpoint
  <2> QED
    BY <1>1, <2>1, <2>2
<1>16. CASE (\E b \in Block : KWrite(b) \/ VmTest(b) \/ VmWrite(b)) \/ Disk \/ Tick
  BY <1>1, <1>16 DEF KWrite, VmTest, VmWrite, Disk, DestageLog, TearLog, DestageHome, DestageSuper, Tick, txVars, fVars, cpVars, kVars
<1> QED
  BY <1>2, <1>3, <1>4, <1>5, <1>6, <1>7, <1>8, <1>9, <1>10, <1>11, <1>12, <1>13, <1>14, <1>15, <1>16
     DEF Next, Transactions, Commit, DoCheckpoint, JournalFlush

\* The workload does not change.
LEMMA LoadStays == [Next]_vars => load' = load
<1>1. CASE UNCHANGED vars
  BY <1>1 DEF vars
<1>2. CASE Transactions \/ Commit \/ WaitForSpace
  BY <1>2 DEF Transactions, Commit, StartHandle, StartTransaction, Modify, CommitStart, CommitLog, CommitForget,
     CommitFinish, WaitForSpace
<1>3. CASE DoCheckpoint
  BY <1>3 DEF DoCheckpoint, KTail, KSuper, KPick, KScanDone, KWaitDone, KOut, KProcess, KWrite, KWaitIo
<1>4. CASE FlushBegin \/ JournalFlush
  BY <1>4 DEF FlushBegin, JournalFlush, FlushCommitted, FlushCheckpoint, FlushDone, FlushTail, FlushSuper, FlushOnly
<1>5. CASE (\E b \in Block : VmTest(b) \/ VmWrite(b) \/ TryToFree(b)) \/ Disk \/ Tick
  BY <1>5 DEF VmTest, VmWrite, TryToFree, Disk, DestageLog, TearLog, DestageHome, DestageSuper, Tick
<1> QED
  BY <1>1, <1>2, <1>3, <1>4, <1>5 DEF Next

\* Only the callers of the workload come.
LEMMA CallerNext ==
  ASSUME TypeOK, Quiet, CallerInv, Next
  PROVE  CallerInv'
<1>1. load' = load
  BY LoadStays
<1>2. f_pc' # "idle" => "flush" \in load.callers
  <2>1. CASE f_pc' = f_pc
    BY <2>1 DEF CallerInv
  <2>2. CASE FlushBegin \/ FlushCommitted \/ FlushDone \/ FlushTail \/ FlushSuper
    BY <2>2 DEF CallerInv, FlushBegin, FlushCommitted, FlushDone, FlushTail, FlushSuper
  <2>3. CASE Transactions \/ Commit \/ WaitForSpace
    BY <2>1, <2>3 DEF Transactions, Commit, StartHandle, StartTransaction, Modify, CommitStart, CommitLog, CommitForget,
       CommitFinish, WaitForSpace, fVars
  <2>4. CASE DoCheckpoint \/ FlushCheckpoint
    BY <2>1, <2>4 DEF DoCheckpoint, KTail, KSuper, KPick, KScanDone, KWaitDone, KOut, KProcess, KWrite, KWaitIo,
       FlushCheckpoint, fVars
  <2>5. CASE (\E b \in Block : VmTest(b) \/ VmWrite(b) \/ TryToFree(b)) \/ Disk \/ Tick
    BY <2>1, <2>5 DEF VmTest, VmWrite, TryToFree, Disk, DestageLog, TearLog, DestageHome, DestageSuper, Tick, fVars
  <2> QED
    BY <2>2, <2>3, <2>4, <2>5 DEF Next, JournalFlush
<1>3. k_pc' # "idle" /\ needs_checkpoint' => "space" \in load.callers
  <2>1. CASE UNCHANGED <<k_pc, needs_checkpoint>>
    BY <2>1 DEF CallerInv
  <2>2. CASE WaitForSpace
    BY <2>2 DEF WaitForSpace, Quiet
  <2>3. CASE FlushCheckpoint
    BY <2>3 DEF FlushCheckpoint
  <2>4. CASE DoCheckpoint
    BY <2>4 DEF CallerInv, DoCheckpoint, KTail, KSuper, KPick, KScanDone, KWaitDone, KOut, KProcess, KWrite, KWaitIo
  <2>5. CASE Transactions \/ Commit
    BY <2>1, <2>5 DEF Transactions, Commit, StartHandle, StartTransaction, Modify, CommitStart, CommitLog, CommitForget,
       CommitFinish, kVars
  <2>6. CASE FlushBegin \/ FlushCommitted \/ FlushDone \/ FlushTail \/ FlushSuper
    BY <2>1, <2>6 DEF FlushBegin, FlushCommitted, FlushDone, FlushTail, FlushSuper, FlushOnly, kVars
  <2>7. CASE (\E b \in Block : VmTest(b) \/ VmWrite(b) \/ TryToFree(b)) \/ Disk \/ Tick
    BY <2>1, <2>7 DEF VmTest, VmWrite, TryToFree, Disk, DestageLog, TearLog, DestageHome, DestageSuper, Tick, kVars
  <2> QED
    BY <2>2, <2>3, <2>4, <2>5, <2>6, <2>7 DEF Next, JournalFlush
<1> QED
  BY <1>1, <1>2, <1>3 DEF CallerInv

-----------------------------------------------------------------------------
(* The batch of a checkpoint *)

\* The control of a checkpoint, but for its start.
LEMMA KSteps ==
  ASSUME TypeOK, BatchInv, Next, ~WaitForSpace, ~FlushCheckpoint
  PROVE  /\ needs_checkpoint' = needs_checkpoint
         /\ k_pc' = "tail" /\ k_next' = "pick" => k_pc = "tail" /\ k_next = "pick"
         /\ k_pc' = "pick" => k_pc = "pick" \/ (k_pc = "tail" /\ k_next = "pick")
         /\ k_batch' # {} => k_pc' \in {"scan", "batch"}
<1> DEFINE P == /\ needs_checkpoint' = needs_checkpoint
                /\ k_pc' = "tail" /\ k_next' = "pick" => k_pc = "tail" /\ k_next = "pick"
                /\ k_pc' = "pick" => k_pc = "pick" \/ (k_pc = "tail" /\ k_next = "pick")
                /\ k_batch' # {} => k_pc' \in {"scan", "batch"}
<1>1. k_next \in {"pick", "idle"} /\ (k_batch # {} => k_pc \in {"scan", "batch"})
  BY DEF TypeOK, BatchInv
<1>2. CASE UNCHANGED kVars
  BY <1>1, <1>2 DEF kVars
<1>3. CASE KTail \/ KSuper \/ KPick \/ KScanDone \/ KWaitDone \/ KOut
  BY <1>1, <1>3 DEF KTail, KSuper, KPick, KScanDone, KWaitDone, KOut
<1>4. CASE \E b \in Block : KProcess(b) \/ KWrite(b) \/ KWaitIo(b)
  BY <1>1, <1>4 DEF KProcess, KWrite, KWaitIo
<1>5. CASE StartHandle \/ StartTransaction \/ (\E b \in Block : Modify(b) \/ CommitForget(b)) \/ CommitLog \/ CommitFinish
  BY <1>2, <1>5 DEF StartHandle, StartTransaction, Modify, CommitForget, CommitLog, CommitFinish
<1>6. CASE \E kind \in {"osync", "dsync"} : CommitStart(kind)
  BY <1>2, <1>6 DEF CommitStart
<1>7. CASE FlushBegin \/ FlushCommitted \/ FlushDone \/ FlushTail \/ FlushSuper
  BY <1>2, <1>7 DEF FlushBegin, FlushCommitted, FlushDone, FlushOnly, FlushTail, FlushSuper
<1>8. CASE (\E b \in Block : VmTest(b) \/ VmWrite(b) \/ TryToFree(b)) \/ Disk \/ Tick
  BY <1>2, <1>8 DEF VmTest, VmWrite, TryToFree, Disk, DestageLog, TearLog, DestageHome, DestageSuper, Tick
<1>9. P
  BY <1>3, <1>4, <1>5, <1>6, <1>7, <1>8
     DEF Next, Transactions, Commit, DoCheckpoint, JournalFlush
<1> QED
  BY <1>9

\* No transaction comes before one that is finished, and only a commit that
\* finishes adds to the checkpoint lists.
LEMMA OpenGrows ==
  ASSUME TypeOK, StartInv, OrderInv, Next
  PROVE  Open <= Open' /\ Open' \in Nat /\ cpTrans' \subseteq cpTrans \cup {committing}
<1> USE Numbers
<1>1. CASE UNCHANGED <<running, committing, sequence>> /\ cpTrans' \subseteq cpTrans
  BY <1>1 DEF Open
<1>2. CASE StartTransaction
  <2>1. /\ running = 0 /\ running' = sequence /\ committing' = committing /\ sequence' = sequence + 1
        /\ sequence # 0 /\ cpTrans' = cpTrans
    BY <1>2 DEF StartTransaction, StartInv, cpVars
  <2>2. Open' = Open
    BY <2>1 DEF Open
  <2> QED
    BY <2>1, <2>2
<1>3. CASE \E kind \in {"osync", "dsync"} : CommitStart(kind)
  <2>1. committing = 0 /\ committing' = running /\ running # 0
    BY <1>3 DEF CommitStart
  <2>2. Open' = Open
    BY <2>1 DEF Open
  <2>3. cpTrans' \subseteq cpTrans
    BY <1>3 DEF CommitStart, RemoveCheckpoint
  <2> QED
    BY <2>2, <2>3
<1>4. CASE CommitFinish
  <2>1. /\ UNCHANGED <<running, sequence>> /\ committing # 0 /\ committing' = 0 /\ cpTrans' \subseteq cpTrans \cup {committing}
    BY <1>4 DEF CommitFinish, StartInv
  <2>2. Open' = committing + 1 /\ Open = committing
    BY <2>1 DEF OrderInv, Open
  <2> QED
    BY <2>1, <2>2
<1>5. CASE StartHandle \/ (\E b \in Block : Modify(b) \/ CommitForget(b)) \/ CommitLog
  BY <1>1, <1>5 DEF StartHandle, Modify, CommitForget, CommitLog, txVars, cpVars
<1>6. CASE \E b \in Block : KProcess(b) \/ KWaitIo(b) \/ TryToFree(b)
  <2>1. UNCHANGED <<running, committing, sequence>>
    BY <1>6 DEF KProcess, KWaitIo, TryToFree, txVars
  <2>2. cpTrans' \subseteq cpTrans
    BY <1>6 DEF KProcess, KWaitIo, TryToFree, RemoveCheckpoint
  <2> QED
    BY <1>1, <2>1, <2>2
<1>7. CASE WaitForSpace \/ KTail \/ KSuper \/ KPick \/ KScanDone \/ KWaitDone \/ KOut
  BY <1>1, <1>7 DEF WaitForSpace, KTail, KSuper, KPick, KScanDone, KWaitDone, KOut, txVars, cpVars
<1>8. CASE FlushBegin \/ FlushCommitted \/ FlushDone \/ FlushCheckpoint \/ FlushTail \/ FlushSuper
  BY <1>1, <1>8 DEF FlushBegin, FlushCommitted, FlushDone, FlushOnly, FlushCheckpoint, FlushTail, FlushSuper, txVars, cpVars
<1>9. CASE (\E b \in Block : KWrite(b) \/ VmTest(b) \/ VmWrite(b)) \/ Disk \/ Tick
  BY <1>1, <1>9 DEF KWrite, VmTest, VmWrite, Disk, DestageLog, TearLog, DestageHome, DestageSuper, Tick, txVars, cpVars
<1> QED
  BY <1>2, <1>3, <1>4, <1>5, <1>6, <1>7, <1>8, <1>9
     DEF Next, Transactions, Commit, DoCheckpoint, JournalFlush

\* A transaction that is stuck for want of space stays stuck until the checkpoint
\* moves the tail.
LEMMA StuckNext ==
  ASSUME TypeOK, StartInv, CallerInv, Quiet, needs_checkpoint, k_pc # "idle", Stuck, Next
  PROVE  Stuck' \/ k_pc' = "super"
<1> USE Numbers, BufferTypes
<1>1. running # 0 /\ mods[running] = {} /\ ~Room(running)
  BY DEF Stuck
<1>2. ASSUME UNCHANGED <<load, running, mods, tail>>
      PROVE  Stuck'
  BY <1>1, <1>2 DEF Stuck, Room
<1>3. CASE StartTransaction \/ (\E b \in Block : Modify(b)) \/ \E kind \in {"osync", "dsync"} : CommitStart(kind)
  <2>1. CASE StartTransaction
    BY <1>1, <2>1 DEF StartTransaction, StartInv
  <2>2. CASE \E b \in Block : Modify(b)
    BY <1>1, <2>2 DEF Modify
  <2>3. CASE \E kind \in {"osync", "dsync"} : CommitStart(kind)
    BY <1>1, <2>3 DEF CommitStart
  <2> QED
    BY <1>3, <2>1, <2>2, <2>3
<1>4. CASE StartHandle \/ CommitLog \/ CommitFinish \/ \E b \in Block : CommitForget(b)
  BY <1>2, <1>4 DEF StartHandle, CommitLog, CommitFinish, CommitForget, txVars
<1>5. CASE KTail
  BY <1>2, <1>5 DEF KTail, txVars
<1>6. CASE FlushTail
  <2>1. f_pc = "idle"
    BY DEF CallerInv, Quiet
  <2> QED
    BY <1>6, <2>1 DEF FlushTail
<1>7. CASE \E b \in Block : KProcess(b) \/ KWrite(b) \/ KWaitIo(b)
  BY <1>2, <1>7 DEF KProcess, KWrite, KWaitIo, txVars
<1>8. CASE WaitForSpace \/ KSuper \/ KPick \/ KScanDone \/ KWaitDone \/ KOut
  BY <1>2, <1>8 DEF WaitForSpace, KSuper, KPick, KScanDone, KWaitDone, KOut, txVars
<1>9. CASE FlushBegin \/ FlushCommitted \/ FlushDone \/ FlushCheckpoint \/ FlushSuper
  BY <1>2, <1>9 DEF FlushBegin, FlushCommitted, FlushDone, FlushOnly, FlushCheckpoint, FlushSuper, txVars
<1>10. CASE (\E b \in Block : VmTest(b) \/ VmWrite(b) \/ TryToFree(b)) \/ Disk \/ Tick
  BY <1>2, <1>10 DEF VmTest, VmWrite, TryToFree, Disk, DestageLog, TearLog, DestageHome, DestageSuper, Tick, txVars
<1> QED
  BY <1>3, <1>4, <1>5, <1>6, <1>7, <1>8, <1>9, <1>10
     DEF Next, Transactions, Commit, DoCheckpoint, JournalFlush

\* Nobody changes a block while a checkpoint has a batch.
LEMMA BatchGuards ==
  ASSUME TypeOK, FlushInv, BatchInv, k_batch # {}
  PROVE  \A b \in Block : ~Modify(b)
<1>1. k_pc \in {"scan", "batch"}
  BY DEF BatchInv
<1>2. CASE ~needs_checkpoint
  <2>1. f_pc = "loop"
    BY <1>1, <1>2 DEF FlushInv
  <2> QED
    BY <1>2, <2>1 DEF Modify
<1>3. CASE needs_checkpoint
  <2>1. Stuck
    BY <1>1, <1>3 DEF BatchInv
  <2> QED
    BY <2>1 DEF Stuck, Modify
<1> QED
  BY <1>2, <1>3

\* The buffers of a batch keep their place on the list.
LEMMA BatchBuffers ==
  ASSUME TypeOK, StartInv, OrderInv, OwnerInv, FlushInv, BatchInv, Next, NEW b \in k_batch'
  PROVE  /\ b_transaction'[b] = 0
         /\ b_dirty'[b] => b_cp_transaction'[b] = k_t'
<1> USE Numbers, BufferTypes
<1> DEFINE P == /\ b_transaction'[b] = 0
                /\ b_dirty'[b] => b_cp_transaction'[b] = k_t'
<1>1. b \in k_batch =>
        /\ b \in Block /\ b_transaction[b] = 0
        /\ b_dirty[b] => b_cp_transaction[b] = k_t
  BY DEF BatchInv
<1>2. CASE UNCHANGED <<b_transaction, b_dirty, b_cp_transaction, k_batch, k_t>>
  BY <1>1, <1>2
<1>3. CASE \E c \in Block : Modify(c)
  BY <1>3, BatchGuards DEF Modify, kVars
<1>4. CASE \E kind \in {"osync", "dsync"} : CommitStart(kind)
  <2>1. PICK S \in SUBSET Freeable : RemoveCheckpoint(S)
    BY <1>4 DEF CommitStart
  <2>2. UNCHANGED <<load, b_transaction, b_dirty, k_batch, k_t>>
    BY <1>4 DEF CommitStart, bufVars, kVars
  <2>4. b_dirty[b] => b \notin S
    BY <2>1 DEF Freeable
  <2>5. b_dirty[b] => b_cp_transaction'[b] = b_cp_transaction[b]
    BY <1>1, <2>1, <2>2, <2>4, RemoveCheckpointIs
  <2> QED
    BY <1>1, <2>2, <2>5
<1>5. CASE \E c \in Block : CommitForget(c)
  <2>1. PICK c \in Block : CommitForget(c)
    BY <1>5
  <2>2. /\ b_cp_transaction' = [b_cp_transaction EXCEPT ![c] = committing]
        /\ b_transaction' = [b_transaction EXCEPT ![c] = b_next_transaction[c]]
        /\ b_dirty' = [b_dirty EXCEPT ![c] = b_next_transaction[c] = 0 /\ ~aborted]
        /\ UNCHANGED <<k_batch, k_t>> /\ c \in forget
    BY <2>1 DEF CommitForget, kVars
  <2>3. c # b
    BY <1>1, <2>2 DEF OwnerInv
  <2>4. b \in Block
    BY <1>1, <2>2
  <2>5. b_transaction'[b] = b_transaction[b] /\ b_dirty'[b] = b_dirty[b] /\ b_cp_transaction'[b] = b_cp_transaction[b]
    BY <2>2, <2>3, <2>4
  <2> QED
    BY <1>1, <2>2, <2>5
<1>6. CASE \E c \in Block : KProcess(c)
  <2>1. PICK c \in Block : KProcess(c)
    BY <1>6
  <2>2. UNCHANGED <<load, b_transaction, b_dirty, k_t>>
        /\ b_transaction[c] = 0 /\ b_cp_transaction[c] = k_t
    BY <2>1 DEF KProcess, OnList, bufVars
  <2>3. CASE b_dirty[c]
    <3>1. k_batch' = k_batch \cup {c} /\ UNCHANGED b_cp_transaction
      BY <2>1, <2>3 DEF KProcess
    <3>2. b \in Block /\ (b \in k_batch \/ b = c)
      BY <1>1, <3>1
    <3> QED
      BY <1>1, <2>2, <3>1, <3>2
  <2>4. CASE ~b_dirty[c]
    <3>1. RemoveCheckpoint({c}) /\ k_batch' = k_batch
      BY <2>1, <2>4 DEF KProcess
    <3>2. \A x \in Block : x # c => b_cp_transaction'[x] = b_cp_transaction[x]
      BY <2>2, <3>1, RemoveCheckpointIs
    <3> QED
      BY <1>1, <2>2, <2>4, <3>1, <3>2
  <2> QED
    BY <2>3, <2>4
<1>7. CASE \E c \in Block : KWrite(c) \/ VmTest(c) \/ VmWrite(c)
  <2>1. PICK c \in Block : KWrite(c) \/ VmTest(c) \/ VmWrite(c)
    BY <1>7
  <2>2. /\ UNCHANGED <<load, b_transaction, b_cp_transaction, k_t>>
        /\ k_batch' \in {k_batch, k_batch \ {c}}
    BY <2>1 DEF KWrite, VmTest, VmWrite, kVars, cpVars, bufVars
  <2>3. WriteHome(c) \/ b_dirty' = b_dirty
    BY <2>1 DEF KWrite, VmTest, VmWrite, bufVars
  <2>4. \A x \in Block : b_dirty'[x] => b_dirty[x]
    BY <2>2, <2>3, WriteHomeIs
  <2> QED
    BY <1>1, <2>2, <2>4
<1>14. CASE \E c \in Block : TryToFree(c)
  <2>1. PICK c \in Block : TryToFree(c)
    BY <1>14
  <2>2. UNCHANGED <<load, b_transaction, b_dirty, k_batch, k_t>> /\ RemoveCheckpoint({c}) /\ ~b_dirty[c]
    BY <2>1 DEF TryToFree, kVars
  <2>3. \A x \in Block : x # c => b_cp_transaction'[x] = b_cp_transaction[x]
    BY <2>2, RemoveCheckpointIs
  <2> QED
    BY <1>1, <2>2, <2>3
<1>8. CASE KPick \/ WaitForSpace \/ FlushCheckpoint \/ \E c \in Block : KWaitIo(c)
  <2>1. k_batch' = k_batch /\ k_pc \in {"pick", "idle", "wait"}
    BY <1>8 DEF KPick, WaitForSpace, FlushCheckpoint, KWaitIo
  <2> QED
    BY <2>1 DEF BatchInv
<1>9. CASE StartHandle \/ StartTransaction \/ CommitLog \/ CommitFinish
  BY <1>2, <1>9 DEF StartHandle, StartTransaction, CommitLog, CommitFinish, bufVars, cpVars, kVars
<1>10. CASE KTail \/ KSuper \/ KScanDone \/ KWaitDone \/ KOut
  BY <1>2, <1>10 DEF KTail, KSuper, KScanDone, KWaitDone, KOut, bufVars, cpVars
<1>11. CASE FlushBegin \/ FlushCommitted \/ FlushDone \/ FlushTail \/ FlushSuper
  BY <1>2, <1>11 DEF FlushBegin, FlushCommitted, FlushDone, FlushOnly, FlushTail, FlushSuper, bufVars, cpVars, kVars
<1>12. CASE Disk \/ Tick
  BY <1>2, <1>12 DEF Disk, DestageLog, TearLog, DestageHome, DestageSuper, Tick, bufVars, cpVars, kVars
<1>13. P
  BY <1>3, <1>4, <1>5, <1>6, <1>7, <1>8, <1>9, <1>10, <1>11, <1>12, <1>14
     DEF Next, Transactions, Commit, DoCheckpoint, JournalFlush
<1> QED
  BY <1>13

\* A checkpoint for space begins with the running transaction stuck.
LEMMA WaitIsStuck ==
  ASSUME TypeOK, Quiet, WaitForSpace
  PROVE  Stuck'
<1>1. running # 0 /\ UNCHANGED <<load, running, mods, tail>>
  BY DEF WaitForSpace, txVars
<1>2. mods[running] = {} /\ ~Room(running)
  BY DEF WaitForSpace, Quiet
<1> QED
  BY <1>1, <1>2 DEF Stuck, Room

\* The batch is kept.
LEMMA BatchNext ==
  ASSUME TypeOK, StartInv, OrderInv, OwnerInv, DirtyInv, FlushInv, CallerInv, BatchInv, Quiet, Next,
         TypeOK', StartInv', OrderInv'
  PROVE  BatchInv'
<1> USE Numbers, BufferTypes
<1>1. Open <= Open' /\ Open' \in Nat /\ cpTrans' \subseteq cpTrans \cup {committing}
  BY OpenGrows
<1>2. KPick \/ (k_pc' \in {"scan", "batch"} => k_pc \in {"scan", "batch"} /\ k_t' = k_t)
  BY Steady
<1>3. k_pc' \in {"scan", "batch"} => k_t' < Open' /\ k_t' \in Nat
  <2> SUFFICES ASSUME k_pc' \in {"scan", "batch"}
               PROVE  k_t' < Open' /\ k_t' \in Nat
    OBVIOUS
  <2>1. CASE KPick
    <3>1. cpTrans # {} /\ k_t' = Min(cpTrans)
      BY <2>1 DEF KPick
    <3>2. k_t' \in cpTrans
      BY <3>1, MinIsSmallest
    <3>3. k_t' < Open /\ k_t' \in Nat
      BY <3>2 DEF OrderInv
    <3> QED
      BY <1>1, <3>3
  <2>2. CASE k_pc \in {"scan", "batch"} /\ k_t' = k_t
    <3>1. k_t < Open
      BY <2>2 DEF BatchInv
    <3> QED
      BY <1>1, <2>2, <3>1
  <2> QED
    BY <1>2, <2>1, <2>2
<1>4. k_batch' # {} => k_pc' \in {"scan", "batch"}
  <2>1. CASE WaitForSpace \/ FlushCheckpoint
    <3>1. k_batch' = k_batch /\ k_pc = "idle"
      BY <2>1 DEF WaitForSpace, FlushCheckpoint
    <3> QED
      BY <3>1 DEF BatchInv
  <2> QED
    BY <2>1, KSteps
<1>5. \A b \in k_batch' : b_transaction'[b] = 0 /\ (b_dirty'[b] => b_cp_transaction'[b] = k_t')
  BY BatchBuffers
<1>6. \A b \in Block : b_io'[b] /\ b_dirty'[b] => b \in k_batch'
  <2> SUFFICES ASSUME NEW b \in Block, b_io'[b], b_dirty'[b]
               PROVE  b \in k_batch'
    OBVIOUS
  <2>1. ~CommitForget(b)
    BY DEF CommitForget
  <2>2. b_dirty[b] /\ (b_io[b] \/ b \in k_batch') /\ (b \in k_batch => b \in k_batch')
    BY <2>1, DirtyStep
  <2> QED
    BY <2>2 DEF BatchInv
<1>7. needs_checkpoint' =>
        /\ k_pc' = "tail" /\ k_next' = "pick" => Stuck'
        /\ k_pc' \in {"pick", "scan", "batch"} => Stuck'
  <2>1. CASE WaitForSpace
    BY <2>1, WaitIsStuck
  <2>2. CASE FlushCheckpoint
    BY <2>2 DEF FlushCheckpoint
  <2>3. CASE ~WaitForSpace /\ ~FlushCheckpoint
    <3> SUFFICES ASSUME needs_checkpoint', (k_pc' = "tail" /\ k_next' = "pick") \/ k_pc' \in {"pick", "scan", "batch"}
                 PROVE  Stuck'
      OBVIOUS
    <3>1. /\ needs_checkpoint
          /\ k_pc' = "tail" /\ k_next' = "pick" => k_pc = "tail" /\ k_next = "pick"
          /\ k_pc' = "pick" => k_pc = "pick" \/ (k_pc = "tail" /\ k_next = "pick")
      BY <2>3, KSteps
    <3>2. KPick => k_pc = "pick"
      BY DEF KPick
    <3>3. Stuck /\ k_pc # "idle"
      BY <1>2, <3>1, <3>2 DEF BatchInv
    <3> QED
      BY <3>1, <3>3, StuckNext
  <2> QED
    BY <2>1, <2>2, <2>3
<1> QED
  BY <1>3, <1>4, <1>5, <1>6, <1>7 DEF BatchInv

-----------------------------------------------------------------------------
(* The write-ahead rule *)

\* A transaction that is safe and still listed is on the platter's log.
LEMMA ListedIsLogged ==
  ASSUME TypeOK, OrderInv, NEW b \in Block, NEW d \in Tid, b_cp_transaction[b] = d, Safe(d)
  PROVE  d \in logged
<1> USE Numbers
<1>1. d \in Nat /\ d # 0 /\ d \in 1 .. d
  BY DEF Tid
<1>2. d \in cpTrans \/ d = committing
  BY <1>1 DEF OrderInv
<1>3. d = committing => Open = d
  BY <1>1 DEF Open
<1>4. tail <= d
  BY <1>2, <1>3 DEF OrderInv
<1> QED
  BY <1>1, <1>4 DEF Safe, Passed

\* What is written in place is safe in the log.
LEMMA WriteIsSafe ==
  ASSUME TypeOK, OrderInv, TimeInv, DirtyInv, ReadyInv, BatchInv, ~overtaken,
         NEW b \in Block, b_dirty[b], KWrite(b) \/ VmWrite(b)
  PROVE  b_data[b] \in logged /\ Safe(b_data[b])
<1> USE Numbers, BufferTypes
<1>1. b_cp_transaction[b] = b_data[b] /\ b_data[b] \in committed
  BY DEF DirtyInv
<1>2. PICK d \in Tid : d = b_data[b]
  BY <1>1
<1>4. CASE KWrite(b)
  <2>1. k_pc = "batch" /\ b \in k_batch
    BY <1>4 DEF KWrite
  <2>2. k_t = d
    BY <1>1, <1>2, <2>1 DEF BatchInv
  <2>3. Safe(d)
    BY <1>1, <1>2, <2>1, <2>2 DEF TimeInv
  <2> QED
    BY <1>1, <1>2, <2>3, ListedIsLogged
<1>5. CASE VmWrite(b)
  <2>1. Safe(d)
    BY <1>2, <1>5 DEF VmWrite, ReadyInv
  <2> QED
    BY <1>1, <1>2, <2>1, ListedIsLogged
<1> QED
  BY <1>4, <1>5

\* A step puts nothing in place that is not safe in the log.
LEMMA HomeStep ==
  ASSUME TypeOK, OrderInv, TimeInv, DirtyInv, ReadyInv, BatchInv, StartInv, CommitInv, Next
  PROVE  /\ \A b \in Block : \/ homeWritten'[b] = homeWritten[b]
                             \/ /\ homeWritten'[b] = b_data[b] /\ b_dirty[b]
                                /\ ~overtaken => b_data[b] \in logged /\ Safe(b_data[b])
         /\ \A b \in Block : homeDisk'[b] \in {homeDisk[b], homeWritten[b]}
<1> DEFINE P == /\ \A b \in Block : \/ homeWritten'[b] = homeWritten[b]
                                    \/ /\ homeWritten'[b] = b_data[b] /\ b_dirty[b]
                                       /\ ~overtaken => b_data[b] \in logged /\ Safe(b_data[b])
                /\ \A b \in Block : homeDisk'[b] \in {homeDisk[b], homeWritten[b]}
<1>1. CASE UNCHANGED homeVars
  BY <1>1 DEF homeVars
<1>2. ASSUME load' = load, NEW lt \in [Tid -> Time \cup {None}], FlushDisk(lt)
      PROVE  P
  BY <1>2, FlushDiskIs
<1>3. CASE CommitLog
  <2> DEFINE lt == [t \in Tid |->
                       IF aborted THEN logTime[t]
                       ELSE IF t = committing THEN now
                       ELSE IF Slot(t) = Slot(committing) THEN None ELSE logTime[t]]
  <2>1. load' = load /\ (FlushDisk(lt) \/ UNCHANGED homeVars)
    BY <1>3 DEF CommitLog
  <2>2. lt \in [Tid -> Time \cup {None}]
    BY DEF TypeOK
  <2> HIDE DEF lt
  <2> QED
    BY <1>1, <1>2, <2>1, <2>2
<1>4. CASE KPick \/ KOut
  <2>1. load' = load /\ (FlushDisk(logTime) \/ UNCHANGED homeVars)
    BY <1>4 DEF KPick, KOut, diskVars, homeVars
  <2>2. logTime \in [Tid -> Time \cup {None}]
    BY DEF TypeOK
  <2> QED
    BY <1>1, <1>2, <2>1, <2>2
<1>5. CASE \E c \in Block : KWrite(c) \/ VmWrite(c)
  <2>1. PICK c \in Block : KWrite(c) \/ VmWrite(c)
    BY <1>5
  <2>2. load' = load /\ ((b_dirty[c] /\ WriteHome(c)) \/ UNCHANGED homeVars)
    BY <2>1 DEF KWrite, VmWrite
  <2>3. CASE b_dirty[c] /\ WriteHome(c)
    <3>1. /\ homeDisk' = homeDisk
          /\ \A x \in Block : homeWritten'[x] = homeWritten[x] \/ (x = c /\ homeWritten'[x] = b_data[c])
      BY <2>2, <2>3, WriteHomeIs
    <3>2. ~overtaken => b_data[c] \in logged /\ Safe(b_data[c])
      BY <2>1, <2>3, WriteIsSafe
    <3> QED
      BY <2>3, <3>1, <3>2
  <2> QED
    BY <1>1, <2>2, <2>3
<1>6. CASE \E b \in Block : DestageHome(b)
  <2>1. PICK b \in Block : DestageHome(b)
    BY <1>6
  <2>2. homeWritten' = homeWritten /\ homeDisk' = [homeDisk EXCEPT ![b] = homeWritten[b]]
    BY <2>1 DEF DestageHome
  <2>3. homeDisk \in [Block -> OptTid]
    BY DEF TypeOK
  <2> QED
    BY <2>2, <2>3
<1>7. CASE StartHandle \/ StartTransaction \/ (\E b \in Block : Modify(b) \/ CommitForget(b) \/ KProcess(b) \/ KWaitIo(b))
  BY <1>1, <1>7 DEF StartHandle, StartTransaction, Modify, CommitForget, KProcess, KWaitIo, diskVars
<1>8. CASE (\E kind \in {"osync", "dsync"} : CommitStart(kind)) \/ CommitFinish
  BY <1>1, <1>8 DEF CommitStart, CommitFinish, diskVars
<1>9. CASE WaitForSpace \/ KTail \/ KSuper \/ KScanDone \/ KWaitDone
  BY <1>1, <1>9 DEF WaitForSpace, KTail, KSuper, KScanDone, KWaitDone, diskVars
<1>10. CASE FlushBegin \/ FlushCommitted \/ FlushDone \/ FlushCheckpoint \/ FlushTail \/ FlushSuper
  BY <1>1, <1>10 DEF FlushBegin, FlushCommitted, FlushDone, FlushOnly, FlushCheckpoint, FlushTail, FlushSuper, diskVars
<1>11. CASE (\E t \in Tid : DestageLog(t) \/ TearLog(t)) \/ DestageSuper \/ Tick
  BY <1>1, <1>11 DEF DestageLog, TearLog, DestageSuper, Tick, diskVars
<1>13. CASE \E b \in Block : VmTest(b) \/ TryToFree(b)
  BY <1>1, <1>13 DEF VmTest, TryToFree, diskVars
<1>12. P
  BY <1>3, <1>4, <1>5, <1>6, <1>7, <1>8, <1>9, <1>10, <1>11, <1>13
     DEF Next, Transactions, Commit, DoCheckpoint, JournalFlush, Disk
<1> QED
  BY <1>12

\* What is in place stays safe.
LEMMA HomeNext ==
  ASSUME TypeOK, StartInv, OrderInv, CommitInv, TimeInv, DirtyInv, ReadyInv, BatchInv, HomeInv, Next
  PROVE  HomeInv'
<1> USE Numbers, BufferTypes
<1>1. /\ \A b \in Block : \/ homeWritten'[b] = homeWritten[b]
                          \/ /\ homeWritten'[b] = b_data[b] /\ b_dirty[b]
                             /\ ~overtaken => b_data[b] \in logged /\ Safe(b_data[b])
      /\ \A b \in Block : homeDisk'[b] \in {homeDisk[b], homeWritten[b]}
  BY HomeStep
<1>2. /\ load' = load /\ logged \subseteq logged' /\ tail <= tail' /\ tail' \in Nat /\ Carried
  BY LogStep
<1>3. \A t \in Nat : Safe(t) => Safe(t)'
  BY <1>2, SafeStays
<1>4. homeWritten \in [Block -> Nat] /\ homeDisk \in [Block -> Nat]
  <2>1. OptTid \subseteq Nat
    BY DEF OptTid
  <2> QED
    BY <2>1 DEF TypeOK
<1>6. overtaken => overtaken'
  BY ReadyStep
<1>5. ASSUME ~overtaken', NEW b \in Block
      PROVE  /\ homeWritten'[b] # 0 => homeWritten'[b] \in logged' /\ Safe(homeWritten[b])'
             /\ homeDisk'[b] # 0 => homeDisk'[b] \in logged' /\ Safe(homeDisk[b])'
  <2>1. PICK h \in Nat : h = homeWritten'[b]
    BY <1>1, <1>4
  <2>2. PICK g \in Nat : g = homeDisk'[b]
    BY <1>1, <1>4
  <2>3. h # 0 => h \in logged /\ Safe(h)
    BY <1>1, <1>5, <1>6, <2>1 DEF HomeInv
  <2>4. g # 0 => g \in logged /\ Safe(g)
    BY <1>1, <1>5, <1>6, <2>2 DEF HomeInv
  <2>5. /\ h # 0 => h \in logged' /\ Safe(h)'
        /\ g # 0 => g \in logged' /\ Safe(g)'
    BY <1>2, <1>3, <2>3, <2>4
  <2> QED
    BY <2>1, <2>2, <2>5 DEF Safe
<1> QED
  BY <1>5 DEF HomeInv

\* The initial state.
LEMMA InitAhead == Init => AheadInv
<1> SUFFICES ASSUME Init
             PROVE  AheadInv
  OBVIOUS
<1>1. TypeOK /\ StartInv
  BY InitType
<1> USE <1>1, Numbers
<1>2. /\ running = 0 /\ committing = 0 /\ sequence = 1 /\ tail = 1 /\ cpTrans = {} /\ committed = {} /\ forget = {}
      /\ c_pc = "idle" /\ k_pc = "idle" /\ f_pc = "idle" /\ f_err = FALSE /\ k_batch = {} /\ needs_checkpoint = FALSE
      /\ mods = [t \in Tid |-> {}] /\ logTime = [t \in Tid |-> None]
      /\ b_data = [b \in Block |-> 0] /\ b_dirty = [b \in Block |-> FALSE]
      /\ b_transaction = [b \in Block |-> 0] /\ b_next_transaction = [b \in Block |-> 0]
      /\ b_cp_transaction = [b \in Block |-> 0] /\ b_io = [b \in Block |-> FALSE]
      /\ homeWritten = [b \in Block |-> 0] /\ homeDisk = [b \in Block |-> 0] /\ w_ready = {}
  BY DEF Init
<1>3. Open = 1
  BY <1>2 DEF Open
<1>4. OrderInv
  BY <1>2, <1>3 DEF OrderInv
<1>5. CommitInv
  <2>1. \A t \in Tid : ~(t < 1)
    BY DEF Tid
  <2> QED
    BY <1>2, <1>3, <2>1 DEF CommitInv
<1>6. OwnerInv
  BY <1>2 DEF OwnerInv
<1>7. TimeInv /\ DirtyInv /\ ReadyInv
  BY <1>2 DEF TimeInv, DirtyInv, ReadyInv
<1>8. FlushInv /\ CallerInv /\ BatchInv /\ HomeInv
  BY <1>2 DEF FlushInv, CallerInv, BatchInv, HomeInv
<1> QED
  BY <1>1, <1>4, <1>5, <1>6, <1>7, <1>8 DEF AheadInv

\* Every step keeps the invariant, where no handle checkpoints while others
\* change blocks.
LEMMA AheadNext ==
  ASSUME TypeOK, Quiet, AheadInv, [Next]_vars
  PROVE  AheadInv'
<1>1. TypeOK' /\ StartInv'
  BY TypeNext DEF AheadInv
<1>2. CASE UNCHANGED vars
  <2>1. UNCHANGED <<load, now, txVars, cVars, cpVars, tail, bufVars, delayVars, kVars, fVars, logVars, homeVars>>
    BY <1>2 DEF vars, diskVars
  <2>2. OrderInv' /\ CommitInv' /\ OwnerInv'
    BY <2>1 DEF AheadInv, OrderInv, CommitInv, OwnerInv, Open, Room, Tid, txVars, cVars, cpVars, bufVars
  <2>3. TimeInv' /\ DirtyInv' /\ ReadyInv' /\ HomeInv'
    BY <2>1 DEF AheadInv, TimeInv, DirtyInv, ReadyInv, HomeInv, Due, Safe, Passed, Tid, txVars, cVars, cpVars, bufVars, delayVars,
       kVars, logVars, homeVars
  <2>4. FlushInv' /\ CallerInv' /\ BatchInv'
    BY <2>1 DEF AheadInv, FlushInv, CallerInv, BatchInv, Idle, Stuck, Room, Open, txVars, cpVars, bufVars, kVars, fVars
  <2> QED
    BY <1>1, <2>2, <2>3, <2>4 DEF AheadInv
<1>3. CASE Next
  <2>1. /\ StartInv /\ OrderInv /\ CommitInv /\ OwnerInv /\ TimeInv /\ DirtyInv /\ ReadyInv
        /\ FlushInv /\ CallerInv /\ BatchInv /\ HomeInv
    BY DEF AheadInv
  <2>2. OrderInv' /\ CommitInv' /\ OwnerInv'
    BY <1>3, <2>1, OrderNext, CommitNext, OwnerNext
  <2>3. TimeInv' /\ DirtyInv' /\ ReadyInv' /\ FlushInv' /\ CallerInv' /\ HomeInv'
    BY <1>1, <1>3, <2>1, <2>2, TimeNext, DirtyNext, ReadyNext, FlushNext, CallerNext, HomeNext
  <2>4. BatchInv'
    BY <1>1, <1>3, <2>1, <2>2, BatchNext
  <2> QED
    BY <1>1, <2>2, <2>3, <2>4 DEF AheadInv
<1> QED
  BY <1>2, <1>3

\* The write-ahead rule holds where no handle checkpoints while others change
\* blocks and flushes do not meet checkpoints for space, until a commit holds back
\* a buffer that the VM has already let pass: no block reaches its place on the
\* platter before its transaction and every earlier one that the log has to hold
\* are on the platter's log, although an osync commit never flushes the disk.
THEOREM WriteAhead == Spec => [](Quiet => HomeAfterLog)
<1> DEFINE Inv == TypeOK /\ StartInv /\ (Quiet => AheadInv)
<1>1. Init => Inv
  BY InitType, InitAhead
<1>2. Inv /\ [Next]_vars => Inv'
  <2> SUFFICES ASSUME Inv, [Next]_vars
               PROVE  Inv'
    OBVIOUS
  <2>1. TypeOK' /\ StartInv'
    BY TypeNext
  <2>2. Quiet' => Quiet
    BY LoadStays DEF Quiet
  <2>3. Quiet' => AheadInv'
    BY <2>2, AheadNext
  <2> QED
    BY <2>1, <2>3
<1>3. Inv => (Quiet => HomeAfterLog)
  <2> SUFFICES ASSUME Inv, Quiet, ~overtaken, NEW b \in Block, homeDisk[b] # 0
               PROVE  /\ homeDisk[b] \in logged
                      /\ \A u \in Tid : u < homeDisk[b] => u \in logged \/ u < tail
    BY DEF HomeAfterLog, LogBeforeHome
  <2>1. homeDisk[b] \in logged /\ Safe(homeDisk[b])
    BY DEF AheadInv, HomeInv
  <2>2. homeDisk[b] \in Nat /\ \A u \in Tid : u \in Nat /\ u >= 1
    BY <2>1, Numbers DEF Tid
  <2>3. \A u \in Tid : u < homeDisk[b] => u \in 1 .. homeDisk[b]
    BY <2>2
  <2> QED
    BY <2>1, <2>3 DEF Safe, Passed
<1> QED
  BY <1>1, <1>2, <1>3, PTL DEF Spec

-----------------------------------------------------------------------------
(* Crash consistency while the tail stays *)

(* Nobody asks for a checkpoint or a flush; then nobody runs one, the tail   *)
(* stays, and nothing fails that could abort the journal.                    *)
Still == load.callers = {}

TailStays == tail = 1 /\ k_pc = "idle" /\ f_pc = "idle" /\ ~aborted

(* Contents are those of a transaction that changed the block. *)
WrittenInv ==
  \A b \in Block :
    /\ b_data[b] # 0 => b \in mods[b_data[b]]
    /\ homeWritten[b] # 0 => b \in mods[homeWritten[b]]
    /\ homeDisk[b] # 0 => b \in mods[homeDisk[b]]

(* Every transaction has a slot of its own, which holds it once it reached   *)
(* the platter.                                                              *)
SlotInv ==
  /\ \A t \in committed : t <= load.slots
  /\ \A t \in logged : t \in committed /\ logDisk[Slot(t)] = t
  /\ \A s \in Slots : logDisk[s] # 0 => logDisk[s] \in logged /\ Slot(logDisk[s]) = s

(* The superblock that says the log is in use reaches the platter before any *)
(* block does, and before a dsync returns.                                   *)
SuperInv ==
  /\ sb.seq = 1 /\ sbDisk.seq = 1
  /\ sb.empty => sbDisk.empty /\ committing = 0 /\ committed = {}
  /\ sbTime = None => sbDisk = sb
  /\ sbTime # None => sbTime <= now /\ now < sbTime + INTERVAL
  /\ sbDisk.empty =>
       /\ \A b \in Block : b_dirty[b] => b_delayed_write[b] /\ sbTime + INTERVAL <= b_checkpoint_time[b]
       /\ \A b \in w_ready : ~b_dirty[b]
       /\ \A b \in Block : homeWritten[b] = 0 /\ homeDisk[b] = 0
       /\ ~(c_pc = "forget" /\ c_durable) /\ dsynced = {}
  /\ \A t \in dsynced : Safe(t)

CrashInv == TailStays /\ WrittenInv /\ SlotInv /\ SuperInv

\* The steps that are left while the tail stays.
StillStep ==
  \/ StartHandle \/ StartTransaction \/ (\E b \in Block : Modify(b))
  \/ (\E kind \in {"osync", "dsync"} : CommitStart(kind)) \/ CommitLog \/ CommitFinish
  \/ (\E b \in Block : CommitForget(b) \/ VmTest(b) \/ VmWrite(b) \/ TryToFree(b))
  \/ Disk \/ Tick

LEMMA StillSteps ==
  ASSUME Still, TailStays, Next
  PROVE  StillStep
<1>1. ~WaitForSpace /\ ~FlushBegin
  BY DEF Still, WaitForSpace, FlushBegin
<1>2. ~DoCheckpoint
  BY DEF TailStays, DoCheckpoint, KTail, KSuper, KPick, KScanDone, KWaitDone, KOut, KProcess, KWrite, KWaitIo
<1>3. ~JournalFlush
  BY DEF TailStays, JournalFlush, FlushCommitted, FlushCheckpoint, FlushDone, FlushTail, FlushSuper
<1> QED
  BY <1>1, <1>2, <1>3 DEF Next, Transactions, Commit, StillStep

\* Nobody begins a checkpoint or a flush.
LEMMA TailStaysNext ==
  ASSUME Still, TailStays, Next
  PROVE  TailStays'
<1>1. StillStep
  BY StillSteps
<1>2. CASE StartHandle \/ StartTransaction \/ (\E b \in Block : Modify(b))
  BY <1>2 DEF TailStays, StartHandle, StartTransaction, Modify, kVars, fVars
<1>3. CASE (\E kind \in {"osync", "dsync"} : CommitStart(kind)) \/ CommitLog \/ CommitFinish
  <2>1. UNCHANGED <<tail, k_pc, f_pc, aborted>>
    BY <1>3 DEF CommitStart, CommitLog, CommitFinish, kVars, fVars
  <2> QED
    BY <2>1 DEF TailStays
<1>4. CASE (\E b \in Block : CommitForget(b) \/ VmTest(b) \/ VmWrite(b) \/ TryToFree(b))
  BY <1>4 DEF TailStays, CommitForget, VmTest, VmWrite, TryToFree, txVars, kVars, fVars
<1>5. CASE Disk \/ Tick
  BY <1>5 DEF TailStays, Disk, DestageLog, TearLog, DestageHome, DestageSuper, Tick, txVars, kVars, fVars
<1> QED
  BY <1>1, <1>2, <1>3, <1>4, <1>5 DEF StillStep

\* What a block contains, and what is in its place, was written by a
\* transaction that changed it.
LEMMA WrittenNext ==
  ASSUME TypeOK, AheadInv, WrittenInv, Next
  PROVE  WrittenInv'
<1> USE Numbers, BufferTypes
<1>1. /\ \A b \in Block : \/ homeWritten'[b] = homeWritten[b]
                          \/ /\ homeWritten'[b] = b_data[b] /\ b_dirty[b]
                             /\ ~overtaken => b_data[b] \in logged /\ Safe(b_data[b])
      /\ \A b \in Block : homeDisk'[b] \in {homeDisk[b], homeWritten[b]}
  BY HomeStep DEF AheadInv
<1>2. CASE \E b \in Block : Modify(b)
  <2>1. PICK b \in Block : Modify(b)
    BY <1>2
  <2>2. /\ running # 0 /\ b_data' = [b_data EXCEPT ![b] = running]
        /\ mods' = [mods EXCEPT ![running] = @ \cup {b}]
    BY <2>1 DEF Modify
  <2>3. running \in Tid
    BY <2>2 DEF Tid
  <2>4. \A t \in Tid : mods[t] \subseteq mods'[t]
    BY <2>2, <2>3
  <2>5. \A c \in Block : b_data[c] # 0 => b_data[c] \in Tid
    BY DEF TypeOK, OptTid, Tid
  <2>6. \A c \in Block : (homeWritten[c] # 0 => homeWritten[c] \in Tid) /\ (homeDisk[c] # 0 => homeDisk[c] \in Tid)
    <3>1. homeWritten \in [Block -> OptTid] /\ homeDisk \in [Block -> OptTid]
      BY DEF TypeOK
    <3>2. \A t \in OptTid : t # 0 => t \in Tid
      BY DEF OptTid, Tid
    <3> QED
      BY <3>1, <3>2
  <2>7. \A c \in Block : b_data'[c] # 0 => c \in mods'[b_data'[c]]
    BY <2>2, <2>3, <2>4, <2>5 DEF WrittenInv
  <2>8. \A c \in Block : /\ homeWritten[c] # 0 => c \in mods'[homeWritten[c]]
                         /\ homeDisk[c] # 0 => c \in mods'[homeDisk[c]]
    BY <2>4, <2>6 DEF WrittenInv
  <2>9. homeWritten' = homeWritten /\ homeDisk' = homeDisk
    BY <2>1 DEF Modify, diskVars, homeVars
  <2> QED
    BY <2>7, <2>8, <2>9 DEF WrittenInv
<1>3. CASE UNCHANGED <<b_data, mods>>
  BY <1>1, <1>3 DEF WrittenInv
<1>4. CASE StartHandle \/ StartTransaction \/ CommitLog \/ CommitFinish
  BY <1>3, <1>4 DEF StartHandle, StartTransaction, CommitLog, CommitFinish, bufVars
<1>5. CASE (\E kind \in {"osync", "dsync"} : CommitStart(kind)) \/ (\E b \in Block : CommitForget(b))
  BY <1>3, <1>5 DEF CommitStart, CommitForget, txVars, bufVars
<1>6. CASE WaitForSpace \/ KTail \/ KSuper \/ KPick \/ KScanDone \/ KWaitDone \/ KOut
  BY <1>3, <1>6 DEF WaitForSpace, KTail, KSuper, KPick, KScanDone, KWaitDone, KOut, txVars, bufVars
<1>7. CASE \E b \in Block : KProcess(b) \/ KWaitIo(b) \/ KWrite(b) \/ VmTest(b) \/ VmWrite(b) \/ TryToFree(b)
  BY <1>3, <1>7 DEF KProcess, KWaitIo, KWrite, VmTest, VmWrite, TryToFree, txVars, bufVars
<1>8. CASE FlushBegin \/ FlushCommitted \/ FlushDone \/ FlushCheckpoint \/ FlushTail \/ FlushSuper
  BY <1>3, <1>8 DEF FlushBegin, FlushCommitted, FlushDone, FlushOnly, FlushCheckpoint, FlushTail, FlushSuper, txVars, bufVars
<1>9. CASE Disk \/ Tick
  BY <1>3, <1>9 DEF Disk, DestageLog, TearLog, DestageHome, DestageSuper, Tick, txVars, bufVars
<1> QED
  BY <1>2, <1>4, <1>5, <1>6, <1>7, <1>8, <1>9
     DEF Next, Transactions, Commit, DoCheckpoint, JournalFlush

\* Transactions that fit in the log have slots of their own.
LEMMA OwnSlot ==
  ASSUME load \in Workloads, NEW t \in Tid, NEW u \in Tid, t <= load.slots, u <= load.slots, Slot(t) = Slot(u)
  PROVE  t = u
<1>1. t \in Nat /\ u \in Nat /\ t >= 1 /\ u >= 1 /\ load.slots \in Nat
  BY LoadTypes DEF Tid
<1>2. t < u => u - t >= load.slots
  BY <1>1, SlotApart
<1>3. u < t => t - u >= load.slots
  BY <1>1, SlotApart
<1> QED
  BY <1>1, <1>2, <1>3

\* A flush brings transactions to their slots.
LEMMA FlushSlots ==
  ASSUME TypeOK, SlotInv, load' = load, NEW lt \in [Tid -> Time \cup {None}], FlushDisk(lt),
         \A t \in Tid : lt[t] # None => t <= load.slots
  PROVE  /\ \A t \in logged' : logDisk'[Slot(t)] = t
         /\ \A s \in Slots : logDisk'[s] # 0 => logDisk'[s] \in logged' /\ Slot(logDisk'[s]) = s
<1> DEFINE new == {t \in Tid : lt[t] # None}
<1> USE Numbers
<1>1. /\ logDisk' = [s \in Slots |-> IF \E t \in new : Slot(t) = s
                                     THEN CHOOSE t \in new : Slot(t) = s ELSE logDisk[s]]
      /\ logged' = logged \cup new
  BY DEF FlushDisk
<1>2. new \subseteq Tid /\ load \in Workloads /\ \A t \in new : t <= load.slots
  BY DEF TypeOK
<1>3. \A t \in logged : t \in Tid /\ t <= load.slots
  BY DEF SlotInv
<1> HIDE DEF new
<1>4. \A s \in Slots : (\E t \in new : Slot(t) = s) => logDisk'[s] \in new /\ Slot(logDisk'[s]) = s
  BY <1>1
<1>5. \A s \in Slots : ~(\E t \in new : Slot(t) = s) => logDisk'[s] = logDisk[s]
  BY <1>1
<1>6. ASSUME NEW t \in new
      PROVE  logDisk'[Slot(t)] = t
  <2>1. Slot(t) \in Slots
    BY <1>2, SlotIs
  <2>2. PICK u \in new : u = logDisk'[Slot(t)] /\ Slot(u) = Slot(t)
    BY <1>4, <2>1
  <2> QED
    BY <1>2, <2>2, OwnSlot
<1>7. ASSUME NEW t \in logged
      PROVE  logDisk'[Slot(t)] = t
  <2>1. Slot(t) \in Slots
    BY <1>2, <1>3, SlotIs
  <2>2. CASE \E u \in new : Slot(u) = Slot(t)
    <3>1. PICK u \in new : Slot(u) = Slot(t)
      BY <2>2
    <3>2. u = t
      BY <1>2, <1>3, <3>1, OwnSlot
    <3> QED
      BY <1>6, <3>2
  <2>3. CASE ~ \E u \in new : Slot(u) = Slot(t)
    BY <1>5, <2>1, <2>3 DEF SlotInv
  <2> QED
    BY <2>2, <2>3
<1>8. \A s \in Slots : logDisk'[s] # 0 => logDisk'[s] \in logged' /\ Slot(logDisk'[s]) = s
  BY <1>1, <1>4, <1>5 DEF SlotInv
<1> QED
  BY <1>1, <1>6, <1>7, <1>8

\* The slots are kept.
LEMMA SlotNext ==
  ASSUME TypeOK, AheadInv, Still, TailStays, SlotInv, Next
  PROVE  SlotInv'
<1> USE Numbers
<1>1. StillStep /\ load \in Workloads
  BY StillSteps DEF TypeOK
<1>2. CASE UNCHANGED <<load, committed, logged, logDisk>>
  BY <1>2 DEF SlotInv, Slot, Slots
<1>3. StartInv /\ OrderInv /\ CommitInv /\ TimeInv
  BY DEF AheadInv
<1>4. \A t \in Tid : logTime[t] # None => t <= load.slots /\ t \in committed
  BY <1>3 DEF TimeInv, SlotInv
<1>5. CASE CommitLog
  <2> DEFINE lt == [t \in Tid |->
                       IF aborted THEN logTime[t]
                       ELSE IF t = committing THEN now
                       ELSE IF Slot(t) = Slot(committing) THEN None ELSE logTime[t]]
  <2>1. load' = load /\ c_pc = "log" /\ committed' = committed \cup {committing}
        /\ (c_durable => FlushDisk(lt)) /\ (~c_durable => UNCHANGED <<logged, logDisk>>)
    BY <1>5 DEF CommitLog, TailStays
  <2>2. lt \in [Tid -> Time \cup {None}]
    BY DEF TypeOK
  <2>3. committing <= load.slots
    BY <1>3, <2>1 DEF OrderInv, Room, TailStays
  <2>4. \A t \in Tid : lt[t] # None => t <= load.slots /\ t \in committed'
    BY <1>4, <2>1, <2>3
  <2> HIDE DEF lt
  <2>5. \A t \in committed' : t <= load.slots
    BY <2>1, <2>3 DEF SlotInv
  <2>6. CASE c_durable
    <3>1. logged' = logged \cup {t \in Tid : lt[t] # None}
      BY <2>1, <2>2, <2>6, FlushDiskIs
    <3>2. /\ \A t \in logged' : logDisk'[Slot(t)] = t
          /\ \A s \in Slots : logDisk'[s] # 0 => logDisk'[s] \in logged' /\ Slot(logDisk'[s]) = s
      BY <2>1, <2>2, <2>4, <2>6, FlushSlots
    <3>3. \A t \in logged' : t \in committed'
      BY <2>1, <2>4, <3>1 DEF SlotInv
    <3> QED
      BY <2>1, <2>5, <3>2, <3>3 DEF SlotInv, Slot, Slots
  <2>7. CASE ~c_durable
    BY <2>1, <2>5, <2>7 DEF SlotInv, Slot, Slots
  <2> QED
    BY <2>6, <2>7
<1>6. CASE \E t \in Tid : DestageLog(t)
  <2>1. PICK t \in Tid : DestageLog(t)
    BY <1>6
  <2>2. /\ UNCHANGED <<load, committed>> /\ logTime[t] # None
        /\ logDisk' = [logDisk EXCEPT ![Slot(t)] = t] /\ logged' = logged \cup {t}
    BY <2>1 DEF DestageLog, Cached, txVars
  <2>3. Slot(t) \in Slots /\ logDisk \in [Slots -> OptTid]
    BY <1>1, SlotIs DEF TypeOK
  <2>4. \A u \in logged : u \in Tid /\ u <= load.slots /\ Slot(u) \in Slots
    BY <1>1, SlotIs DEF SlotInv
  <2>5. \A u \in logged : Slot(u) = Slot(t) => u = t
    BY <1>1, <1>4, <2>2, <2>4, OwnSlot
  <2>6. \A u \in logged' : logDisk'[Slot(u)] = u
    BY <2>2, <2>3, <2>4, <2>5 DEF SlotInv
  <2>7. \A s \in Slots : logDisk'[s] # 0 => logDisk'[s] \in logged' /\ Slot(logDisk'[s]) = s
    BY <2>2, <2>3 DEF SlotInv
  <2>8. \A u \in logged' : u \in committed'
    BY <1>4, <2>2 DEF SlotInv
  <2> QED
    BY <2>2, <2>6, <2>7, <2>8 DEF SlotInv, Slot, Slots
<1>7. CASE \E t \in Tid : TearLog(t)
  <2>1. PICK t \in Tid : TearLog(t)
    BY <1>7
  <2>2. /\ logTime[t] # None \/ (t = committing /\ c_pc = "log")
        /\ logDisk[Slot(t)] \notin {0, t}
    BY <2>1 DEF TearLog, Cached
  <2>3. t <= load.slots
    BY <1>3, <1>4, <2>2 DEF OrderInv, Room, TailStays
  <2>4. Slot(t) \in Slots
    BY <1>1, SlotIs
  <2>5. PICK u \in logged : u = logDisk[Slot(t)] /\ Slot(u) = Slot(t)
    BY <2>2, <2>4 DEF SlotInv
  <2>6. u \in Tid /\ u <= load.slots
    BY DEF SlotInv
  <2> QED
    BY <1>1, <2>2, <2>3, <2>5, <2>6, OwnSlot
<1>8. CASE StartHandle \/ StartTransaction \/ (\E b \in Block : Modify(b) \/ CommitForget(b) \/ VmTest(b) \/ VmWrite(b) \/ TryToFree(b))
  BY <1>2, <1>8 DEF StartHandle, StartTransaction, Modify, CommitForget, VmTest, VmWrite, TryToFree, txVars, diskVars, logVars
<1>9. CASE (\E kind \in {"osync", "dsync"} : CommitStart(kind)) \/ CommitFinish
  BY <1>2, <1>9 DEF CommitStart, CommitFinish, diskVars, logVars
<1>10. CASE (\E b \in Block : DestageHome(b)) \/ DestageSuper \/ Tick
  BY <1>2, <1>10 DEF DestageHome, DestageSuper, Tick, txVars, diskVars, logVars
<1> QED
  BY <1>1, <1>5, <1>6, <1>7, <1>8, <1>9, <1>10 DEF StillStep, Disk

\* The superblock's variables.
LEMMA SuperTypes ==
  ASSUME TypeOK
  PROVE  /\ sb.seq \in Nat /\ sb.empty \in BOOLEAN /\ sbDisk.empty \in BOOLEAN /\ sbTime \in Int /\ None \in Int
         /\ sbTime # None => sbTime \in Nat
<1>1. sb \in Super /\ sbDisk \in Super /\ sbTime \in Time \cup {None} /\ load.tids \in Nat /\ load.time \in Nat
  BY Numbers DEF TypeOK
<1>2. sb.seq \in 1 .. load.tids + 1 /\ sb.empty \in BOOLEAN /\ sbDisk.empty \in BOOLEAN
  BY <1>1 DEF Super
<1> QED
  BY <1>1, <1>2 DEF Time, None

\* Before the superblock is on the platter the VM lets no dirty buffer pass.
LEMMA DirtyWaits ==
  ASSUME TypeOK, AheadInv, SuperInv, NEW b \in Block, VmTest(b), b_dirty[b]
  PROVE  ~sbDisk.empty
<1> USE Numbers, BufferTypes, SuperTypes
<1> SUFFICES ASSUME sbDisk.empty
             PROVE  FALSE
  OBVIOUS
<1>1. b_dirty[b] /\ (b_delayed_write[b] => now >= b_checkpoint_time[b])
  BY DEF VmTest
<1>2. b_data[b] \in committed
  BY <1>1 DEF AheadInv, DirtyInv
<1>3. ~sb.empty
  BY <1>2 DEF SuperInv
<1>4. sbTime # None
  BY <1>3 DEF SuperInv
<1>5. b_delayed_write[b] /\ sbTime + INTERVAL <= b_checkpoint_time[b]
  BY <1>1 DEF SuperInv
<1>6. now < sbTime + INTERVAL
  BY <1>4 DEF SuperInv
<1> QED
  BY <1>1, <1>4, <1>5, <1>6

\* Acknowledged transactions stay safe.
LEMMA DsyncedStays ==
  ASSUME TypeOK, AheadInv, SuperInv, Next, dsynced' = dsynced
  PROVE  \A t \in dsynced' : Safe(t)'
<1>1. /\ load' = load /\ logged \subseteq logged' /\ tail <= tail' /\ tail' \in Nat /\ Carried
  BY LogStep DEF AheadInv
<1>2. \A t \in Nat : Safe(t) => Safe(t)'
  BY <1>1, SafeStays
<1>3. dsynced \subseteq Nat
  BY Numbers DEF TypeOK
<1> QED
  BY <1>2, <1>3 DEF SuperInv

\* The superblock is ahead of everything else.
LEMMA SuperNext ==
  ASSUME TypeOK, AheadInv, Still, TailStays, SuperInv, Next, ~overtaken'
  PROVE  SuperInv'
<1> USE Numbers, BufferTypes, SuperTypes
<1>1. StillStep /\ load \in Workloads
  BY StillSteps DEF TypeOK
<1>2. StartInv /\ OrderInv /\ CommitInv /\ TimeInv /\ DirtyInv /\ HomeInv
  BY DEF AheadInv
<1>3. dsynced' = dsynced => \A t \in dsynced' : Safe(t)'
  BY DsyncedStays
<1>4. CASE StartHandle \/ StartTransaction
  <2>1. UNCHANGED <<sb, sbDisk, sbTime, now, committing, committed, b_dirty, b_delayed_write, b_checkpoint_time,
                    w_ready, homeWritten, homeDisk, c_pc, c_durable, dsynced>>
    BY <1>4 DEF StartHandle, StartTransaction, cVars, bufVars, delayVars, diskVars, homeVars, sbVars
  <2> QED
    BY <1>3, <2>1 DEF SuperInv
<1>5. CASE \E b \in Block : Modify(b)
  <2>1. /\ UNCHANGED <<sb, sbDisk, sbTime, now, committing, committed, b_delayed_write, b_checkpoint_time,
                       w_ready, homeWritten, homeDisk, c_pc, c_durable, dsynced>>
        /\ \E c \in Block : b_dirty' = [b_dirty EXCEPT ![c] = FALSE]
    BY <1>5 DEF Modify, cVars, delayVars, diskVars, homeVars, sbVars
  <2>2. w_ready \subseteq Block /\ \A b \in Block : b_dirty'[b] => b_dirty[b]
    BY <2>1 DEF TypeOK
  <2> QED
    BY <1>3, <2>1, <2>2 DEF SuperInv
<1>6. CASE \E kind \in {"osync", "dsync"} : CommitStart(kind)
  <2>1. /\ UNCHANGED <<now, committed, b_dirty, b_delayed_write, b_checkpoint_time, w_ready, homeWritten, homeDisk, dsynced>>
        /\ c_pc' = "log" /\ running # 0
        /\ IF sb.empty THEN UpdateSuperblock(tail, FALSE) ELSE UNCHANGED sbVars
    BY <1>6 DEF CommitStart, bufVars, delayVars, homeVars
  <2>2. CASE ~sb.empty
    <3>1. UNCHANGED <<sb, sbDisk, sbTime>>
      BY <2>1, <2>2 DEF sbVars
    <3> QED
      BY <1>3, <2>1, <2>2, <3>1 DEF SuperInv
  <2>3. CASE sb.empty
    <3>1. tail = 1 /\ sequence # 1
      BY <1>2, <2>1 DEF TailStays, OrderInv
    <3>2. sb' = [seq |-> 1, empty |-> FALSE] /\ sbTime' = now /\ sbDisk' = sbDisk
      BY <2>1, <2>3, <3>1 DEF UpdateSuperblock
    <3>3. sb'.seq = 1 /\ ~sb'.empty /\ sbTime' # None
      BY <3>2 DEF None
    <3>4. w_ready \subseteq Block /\ \A b \in Block : ~b_dirty[b]
      BY <1>2, <2>3 DEF SuperInv, DirtyInv, TypeOK
    <3> QED
      BY <1>3, <2>1, <2>3, <3>2, <3>3, <3>4 DEF SuperInv
  <2> QED
    BY <2>2, <2>3
<1>7. CASE CommitLog
  <2> DEFINE lt == [t \in Tid |->
                       IF aborted THEN logTime[t]
                       ELSE IF t = committing THEN now
                       ELSE IF Slot(t) = Slot(committing) THEN None ELSE logTime[t]]
  <2>1. /\ UNCHANGED <<now, committing, b_dirty, b_delayed_write, b_checkpoint_time, w_ready, c_durable, dsynced, load>>
        /\ c_pc = "log" /\ committing # 0
        /\ (c_durable => FlushDisk(lt)) /\ (~c_durable => UNCHANGED <<sb, sbDisk, sbTime, homeWritten, homeDisk>>)
    BY <1>2, <1>7 DEF CommitLog, StartInv, bufVars, delayVars, homeVars, sbVars
  <2>2. ~sb.empty
    BY <2>1 DEF SuperInv
  <2>3. CASE c_durable
    <3>1. sbTime' = None /\ sbDisk' = sb /\ sb' = sb
      BY <2>1, <2>3 DEF FlushDisk
    <3> QED
      BY <1>3, <2>1, <2>2, <2>3, <3>1 DEF SuperInv
  <2>4. CASE ~c_durable
    BY <1>3, <2>1, <2>2, <2>4 DEF SuperInv
  <2> QED
    BY <2>3, <2>4
<1>8. CASE \E b \in Block : CommitForget(b)
  <2>1. PICK b \in Block : CommitForget(b)
    BY <1>8
  <2>2. /\ UNCHANGED <<sb, sbDisk, sbTime, now, committing, committed, homeWritten, homeDisk, c_pc, c_durable, dsynced>>
        /\ c_pc = "forget" /\ b_dirty' = [b_dirty EXCEPT ![b] = b_next_transaction[b] = 0 /\ ~aborted]
        /\ ~c_durable => /\ b_delayed_write' = [b_delayed_write EXCEPT ![b] = TRUE]
                         /\ b_checkpoint_time' = [b_checkpoint_time EXCEPT ![b] = now + INTERVAL]
        /\ w_ready' = w_ready
    BY <2>1 DEF CommitForget, txVars, delayVars, diskVars, homeVars, sbVars
  <2>3. sbDisk.empty => \A c \in Block : b_dirty'[c] => b_delayed_write'[c] /\ sbTime + INTERVAL <= b_checkpoint_time'[c]
    <3> SUFFICES ASSUME sbDisk.empty, NEW c \in Block, b_dirty'[c]
                 PROVE  b_delayed_write'[c] /\ sbTime + INTERVAL <= b_checkpoint_time'[c]
      OBVIOUS
    <3>1. ~c_durable
      BY <2>2 DEF SuperInv
    <3>2. sbTime <= now
      BY DEF SuperInv, None
    <3>3. CASE c = b
      <4>1. b_delayed_write'[c] = TRUE /\ b_checkpoint_time'[c] = now + INTERVAL
        BY <2>2, <3>1, <3>3
      <4> QED
        BY <3>2, <4>1
    <3>4. CASE c # b
      BY <2>2, <3>1, <3>4 DEF SuperInv
    <3> QED
      BY <3>3, <3>4
  <2>4. sbDisk.empty => \A c \in w_ready' : ~b_dirty'[c]
    <3> SUFFICES ASSUME sbDisk.empty, NEW c \in w_ready'
                 PROVE  ~b_dirty'[c]
      OBVIOUS
    <3>1. ~c_durable /\ c \in Block
      BY <2>2 DEF SuperInv, TypeOK
    <3>2. c # b
      BY <2>1, <3>1, ReadyStep
    <3> QED
      BY <2>2, <3>1, <3>2 DEF SuperInv
  <2> QED
    BY <1>3, <2>2, <2>3, <2>4 DEF SuperInv
<1>9. CASE CommitFinish
  <2>1. /\ UNCHANGED <<sb, sbDisk, sbTime, now, committed, b_dirty, b_delayed_write, b_checkpoint_time,
                       w_ready, homeWritten, homeDisk, c_durable, tail, logged>>
        /\ c_pc = "forget" /\ c_pc' = "idle" /\ committing # 0 /\ committing' = 0
        /\ dsynced' = IF c_durable /\ ~aborted THEN dsynced \cup {committing} ELSE dsynced
    BY <1>2, <1>9 DEF CommitFinish, StartInv, bufVars, delayVars, diskVars, logVars, homeVars, sbVars
  <2>2. \A t \in dsynced' : Safe(t)
    BY <1>2, <2>1 DEF SuperInv, TimeInv
  <2>3. \A t \in dsynced' : Safe(t)'
    BY <2>1, <2>2 DEF Safe, Passed
  <2>4. sbDisk.empty => dsynced' = {}
    BY <2>1 DEF SuperInv
  <2>5. ~sb.empty
    BY <2>1 DEF SuperInv
  <2> QED
    BY <2>1, <2>3, <2>4, <2>5 DEF SuperInv
<1>10. CASE \E b \in Block : VmTest(b) \/ VmWrite(b) \/ TryToFree(b)
  <2>1. PICK b \in Block : VmTest(b) \/ VmWrite(b) \/ TryToFree(b)
    BY <1>10
  <2>2. UNCHANGED <<sb, sbDisk, sbTime, now, committing, committed, b_checkpoint_time, c_pc, c_durable, dsynced>>
    BY <2>1 DEF VmTest, VmWrite, TryToFree, txVars, cVars, delayVars, diskVars, sbVars
  <2>3. CASE ~sbDisk.empty
    BY <1>3, <2>2, <2>3 DEF SuperInv
  <2>4. CASE sbDisk.empty /\ VmTest(b)
    <3>1. /\ UNCHANGED <<b_dirty, homeWritten, homeDisk>> /\ w_ready' = w_ready \cup {b}
          /\ \A c \in Block : c # b => b_delayed_write'[c] = b_delayed_write[c]
      BY <2>4 DEF VmTest, bufVars, diskVars, homeVars
    <3>2. ~b_dirty[b]
      BY <2>4, DirtyWaits
    <3> QED
      BY <1>3, <2>2, <3>1, <3>2 DEF SuperInv
  <2>5. CASE sbDisk.empty /\ VmWrite(b)
    <3>1. b \in w_ready /\ w_ready' = w_ready \ {b} /\ b_delayed_write' = b_delayed_write
      BY <2>5 DEF VmWrite
    <3>2. ~b_dirty[b]
      BY <2>5, <3>1 DEF SuperInv
    <3>3. UNCHANGED <<b_dirty, homeWritten, homeDisk>>
      BY <2>5, <3>2 DEF VmWrite, homeVars
    <3> QED
      BY <1>3, <2>2, <3>1, <3>3 DEF SuperInv
  <2>6. CASE sbDisk.empty /\ TryToFree(b)
    <3>1. UNCHANGED <<b_dirty, b_delayed_write, w_ready, homeWritten, homeDisk>>
      BY <2>6 DEF TryToFree, delayVars, diskVars, homeVars
    <3> QED
      BY <1>3, <2>2, <3>1 DEF SuperInv
  <2> QED
    BY <2>1, <2>3, <2>4, <2>5, <2>6
<1>11. CASE (\E t \in Tid : DestageLog(t) \/ TearLog(t))
  <2>1. UNCHANGED <<sb, sbDisk, sbTime, now, committing, committed, b_dirty, b_delayed_write, b_checkpoint_time,
                    w_ready, homeWritten, homeDisk, c_pc, c_durable, dsynced>>
    BY <1>11 DEF DestageLog, TearLog, txVars, cVars, bufVars, delayVars, homeVars, sbVars
  <2> QED
    BY <1>3, <2>1 DEF SuperInv
<1>12. CASE \E b \in Block : DestageHome(b)
  <2>1. PICK b \in Block : DestageHome(b)
    BY <1>12
  <2>2. /\ UNCHANGED <<sb, sbDisk, sbTime, now, committing, committed, b_dirty, b_delayed_write, b_checkpoint_time,
                       w_ready, homeWritten, c_pc, c_durable, dsynced>>
        /\ homeDisk' = [homeDisk EXCEPT ![b] = homeWritten[b]] /\ homeDisk \in [Block -> OptTid]
    BY <2>1 DEF DestageHome, TypeOK, txVars, cVars, bufVars, delayVars, sbVars
  <2>3. \A c \in Block : homeDisk'[c] \in {homeDisk[c], homeWritten[c]}
    BY <2>2
  <2> QED
    BY <1>3, <2>2, <2>3 DEF SuperInv
<1>13. CASE DestageSuper
  <2>1. UNCHANGED <<sb, now, committing, committed, b_dirty, b_delayed_write, b_checkpoint_time,
                    w_ready, homeWritten, homeDisk, c_pc, c_durable, dsynced>>
        /\ sbDisk' = sb /\ sbTime' = None
    BY <1>13 DEF DestageSuper, txVars, cVars, bufVars, delayVars, homeVars
  <2>2. CASE sb.empty
    <3>1. w_ready \subseteq Block /\ \A b \in Block : ~b_dirty[b]
      BY <1>2, <2>2 DEF SuperInv, DirtyInv, TypeOK
    <3> QED
      BY <1>3, <2>1, <2>2, <3>1 DEF SuperInv
  <2>3. CASE ~sb.empty
    BY <1>3, <2>1, <2>3 DEF SuperInv
  <2> QED
    BY <2>2, <2>3
<1>14. CASE Tick
  <2>1. UNCHANGED <<sb, sbDisk, sbTime, committing, committed, b_dirty, b_delayed_write, b_checkpoint_time,
                    w_ready, homeWritten, homeDisk, c_pc, c_durable, dsynced>>
    BY <1>14 DEF Tick, txVars, cVars, bufVars, delayVars, diskVars, homeVars, sbVars
  <2>2. now' = now + 1 /\ (sbTime # None => now + 1 < sbTime + DISK_DELAY)
    BY <1>14 DEF Tick
  <2>3. DISK_DELAY \in Nat /\ DISK_DELAY <= INTERVAL
    BY <1>1, LoadTypes
  <2>4. sbTime # None => sbTime <= now' /\ now' < sbTime + INTERVAL
    BY <2>2, <2>3 DEF SuperInv
  <2> QED
    BY <1>3, <2>1, <2>4 DEF SuperInv
<1> QED
  BY <1>1, <1>4, <1>5, <1>6, <1>7, <1>8, <1>9, <1>10, <1>11, <1>12, <1>13, <1>14 DEF StillStep, Disk

\* The initial state.
LEMMA InitCrash == Init => CrashInv
<1> SUFFICES ASSUME Init
             PROVE  CrashInv
  OBVIOUS
<1>1. /\ tail = 1 /\ k_pc = "idle" /\ f_pc = "idle" /\ aborted = FALSE /\ committed = {} /\ logged = {}
      /\ committing = 0 /\ c_pc = "idle" /\ dsynced = {} /\ w_ready = {}
      /\ b_data = [b \in Block |-> 0] /\ b_dirty = [b \in Block |-> FALSE]
      /\ homeWritten = [b \in Block |-> 0] /\ homeDisk = [b \in Block |-> 0]
      /\ logDisk = [s \in Slots |-> 0] /\ sb = [seq |-> 1, empty |-> TRUE] /\ sbDisk = sb /\ sbTime = None
  BY DEF Init
<1>2. TailStays /\ WrittenInv
  BY <1>1 DEF TailStays, WrittenInv
<1>3. SlotInv
  BY <1>1 DEF SlotInv
<1>4. SuperInv
  BY <1>1 DEF SuperInv
<1> QED
  BY <1>2, <1>3, <1>4 DEF CrashInv

\* Every step keeps the invariant, while nobody checkpoints and the VM writes
\* nothing that is held back.
LEMMA CrashNext ==
  ASSUME TypeOK, AheadInv, Still, CrashInv, [Next]_vars, ~overtaken'
  PROVE  CrashInv'
<1>1. TailStays /\ WrittenInv /\ SlotInv /\ SuperInv
  BY DEF CrashInv
<1>2. CASE UNCHANGED vars
  <2>1. UNCHANGED <<load, now, txVars, cVars, tail, bufVars, delayVars, kVars, fVars, logVars, homeVars, sbVars, dsynced>>
    BY <1>2 DEF vars, diskVars
  <2>2. TailStays' /\ WrittenInv' /\ SlotInv'
    BY <1>1, <2>1 DEF TailStays, WrittenInv, SlotInv, Slot, Slots, txVars, kVars, fVars, bufVars, logVars, homeVars
  <2>3. SuperInv'
    BY <1>1, <2>1 DEF SuperInv, Safe, Passed, txVars, cVars, bufVars, delayVars, logVars, homeVars, sbVars
  <2> QED
    BY <2>2, <2>3 DEF CrashInv
<1>3. CASE Next
  BY <1>1, <1>3, TailStaysNext, WrittenNext, SlotNext, SuperNext DEF CrashInv
<1> QED
  BY <1>2, <1>3

\* What recovery replays, once the superblock is on the platter: the
\* transactions that are on the platter's log with all earlier ones.
LEMMA ReplayedIs ==
  ASSUME TypeOK, SlotInv, sbDisk.seq = 1, ~sbDisk.empty
  PROVE  Replayed = {t \in Tid : 1 .. t \subseteq logged}
<1> USE Numbers
<1>1. Replayed = {t \in Tid : t >= 1 /\ \A u \in 1 .. t : logDisk[Slot(u)] = u}
  BY DEF Replayed
<1>2. \A u \in Tid : logDisk[Slot(u)] = u <=> u \in logged
  <2> SUFFICES ASSUME NEW u \in Tid
               PROVE  logDisk[Slot(u)] = u <=> u \in logged
    OBVIOUS
  <2>1. Slot(u) \in Slots /\ u # 0
    BY SlotIs DEF TypeOK
  <2> QED
    BY <2>1 DEF SlotInv
<1>3. \A t \in Tid : t >= 1 /\ \A u \in 1 .. t : u \in Tid
  BY DEF Tid
<1> QED
  BY <1>1, <1>2, <1>3

\* The largest element of a set of transactions is the contents after them.
LEMMA StateIs ==
  ASSUME TypeOK, NEW b \in Block, NEW k \in OptTid
  PROVE  LET ts == {t \in 1 .. k : b \in mods[t]}
         IN  StateAt(k, b) = IF ts = {} THEN 0 ELSE Max(ts)
<1> DEFINE ts == {t \in 1 .. k : b \in mods[t]}
<1>1. k \in Nat /\ ts \in SUBSET (0 .. k) /\ {0} \cup ts \in SUBSET Int
  BY Numbers DEF OptTid
<1>2. StateAt(k, b) = Max({0} \cup ts)
  BY DEF StateAt
<1>3. \A t \in ts : t >= 1 /\ t \in Nat
  BY <1>1
<1> HIDE DEF ts
<1>4. CASE ts = {}
  <2>1. {0} \cup ts = {0}
    BY <1>4
  <2>2. Max({0}) = 0
    BY MaxIs
  <2> QED
    BY <1>2, <1>4, <2>1, <2>2 DEF ts
<1>5. CASE ts # {}
  <2>1. Max(ts) \in ts /\ \A t \in ts : Max(ts) >= t
    BY <1>1, <1>5, MaxIsLargest
  <2>2. PICK m \in ts : m = Max(ts)
    BY <2>1
  <2>3. m >= 0 /\ \A t \in {0} \cup ts : m >= t
    BY <1>3, <2>1, <2>2
  <2>4. m \in {0} \cup ts
    BY <2>2
  <2>5. Max({0} \cup ts) = m
    BY <1>1, <2>3, <2>4, MaxIs
  <2> QED
    BY <1>2, <1>5, <2>2, <2>5 DEF ts
<1> QED
  BY <1>4, <1>5

\* A crash finds a prefix that includes what dsync returned for.
LEMMA CrashIsPrefix ==
  ASSUME TypeOK, AheadInv, CrashInv, ~overtaken
  PROVE  \E k \in OptTid : RecoversTo(k) /\ \A t \in dsynced : t <= k
<1> USE Numbers
<1>1. TailStays /\ WrittenInv /\ SlotInv /\ SuperInv /\ HomeInv
  BY DEF CrashInv, AheadInv
<1>2. \A t \in Nat : Safe(t) => 1 .. t \subseteq logged
  BY <1>1 DEF Safe, Passed, TailStays
<1>3. dsynced \subseteq Tid /\ 0 \in OptTid
  BY DEF TypeOK, OptTid
<1>4. CASE sbDisk.empty
  <2>1. Replayed = {} /\ dsynced = {} /\ \A b \in Block : homeDisk[b] = 0
    BY <1>1, <1>4 DEF Replayed, SuperInv
  <2>2. \A b \in Block : Recovered(b) = 0
    BY <2>1 DEF Recovered
  <2>3. \A b \in Block : StateAt(0, b) = 0
    <3> SUFFICES ASSUME NEW b \in Block
                 PROVE  StateAt(0, b) = 0
      OBVIOUS
    <3>1. {t \in 1 .. 0 : b \in mods[t]} = {}
      OBVIOUS
    <3> QED
      BY <1>3, <3>1, StateIs
  <2>4. RecoversTo(0)
    BY <2>2, <2>3 DEF RecoversTo
  <2> QED
    BY <1>3, <2>1, <2>4
<1>5. CASE ~sbDisk.empty
  <2> DEFINE K == {k \in OptTid : 1 .. k \subseteq logged}
  <2>1. K \in SUBSET (0 .. load.tids) /\ K # {}
    <3>1. 1 .. 0 \subseteq logged
      OBVIOUS
    <3> QED
      BY <1>3, <3>1 DEF OptTid
  <2>2. Max(K) \in K /\ \A j \in K : Max(K) >= j
    BY <2>1, MaxIsLargest
  <2>3. PICK k \in K : \A j \in K : k >= j
    BY <2>2
  <2>4. k \in OptTid /\ k \in Nat /\ 1 .. k \subseteq logged
    BY <2>3 DEF OptTid
  <2>5. \A t \in Tid : 1 .. t \subseteq logged => t <= k
    <3>1. \A t \in Tid : t \in OptTid
      BY DEF Tid, OptTid
    <3> QED
      BY <2>3, <2>4, <3>1
  <2>6. Replayed = {t \in Tid : 1 .. t \subseteq logged}
    BY <1>1, <1>5, ReplayedIs DEF SuperInv
  <2>7. Replayed = 1 .. k
    <3>1. \A t \in Replayed : t \in 1 .. k
      BY <2>4, <2>5, <2>6 DEF Tid
    <3>2. \A t \in 1 .. k : t \in Tid /\ 1 .. t \subseteq 1 .. k
      BY <2>4
    <3>3. \A t \in 1 .. k : t \in Replayed
      BY <2>4, <2>6, <3>2
    <3> QED
      BY <3>1, <3>3
  <2>8. ASSUME NEW b \in Block
        PROVE  Recovered(b) = StateAt(k, b)
    <3> DEFINE ts == {t \in 1 .. k : b \in mods[t]}
    <3>1. Recovered(b) = IF ts = {} THEN homeDisk[b] ELSE Max(ts)
      BY <2>7 DEF Recovered
    <3>2. StateAt(k, b) = IF ts = {} THEN 0 ELSE Max(ts)
      BY <2>4, StateIs
    <3>3. homeDisk[b] # 0 => ts # {}
      <4> SUFFICES ASSUME homeDisk[b] # 0
                   PROVE  \E t \in 1 .. k : b \in mods[t]
        OBVIOUS
      <4>1. PICK h \in logged : h = homeDisk[b] /\ Safe(h) /\ b \in mods[h]
        BY <1>1 DEF HomeInv, WrittenInv
      <4>2. h \in Tid /\ h \in Nat /\ h >= 1
        BY DEF Tid
      <4>3. h <= k
        BY <1>2, <2>5, <4>1, <4>2
      <4> QED
        BY <2>4, <4>1, <4>2, <4>3
    <3> HIDE DEF ts
    <3> QED
      BY <3>1, <3>2, <3>3
  <2>9. RecoversTo(k)
    BY <2>8 DEF RecoversTo
  <2>10. \A t \in dsynced : t <= k
    BY <1>1, <1>2, <1>3, <2>5 DEF SuperInv
  <2> QED
    BY <2>4, <2>9, <2>10
<1> QED
  BY <1>4, <1>5

\* Crash consistency while the tail stays: whenever the machine stops, recovery
\* finds the state after a prefix of the transactions that includes every one a
\* dsync returned for, for every number of blocks, transactions and slots and
\* every disk that destages within the delay, in whatever order, until a commit
\* holds back a buffer that the VM has already let pass.
THEOREM CrashKeepsDsync == Spec => []DsyncSurvives
<1> DEFINE Inv == TypeOK /\ StartInv /\ (Quiet => AheadInv) /\ (Still /\ ~overtaken => CrashInv)
<1>1. Still => Quiet
  BY DEF Still, Quiet
<1>2. Init => Inv
  BY InitType, InitAhead, InitCrash
<1>3. Inv /\ [Next]_vars => Inv'
  <2> SUFFICES ASSUME Inv, [Next]_vars
               PROVE  Inv'
    OBVIOUS
  <2>1. TypeOK' /\ StartInv'
    BY TypeNext
  <2>2. (Quiet' => Quiet) /\ (Still' => Still)
    BY LoadStays DEF Quiet, Still
  <2>3. Quiet' => AheadInv'
    BY <2>2, AheadNext
  <2>4. overtaken => overtaken'
    BY ReadyStep DEF vars, delayVars
  <2>5. Still' /\ ~overtaken' => CrashInv'
    BY <1>1, <2>2, <2>4, CrashNext
  <2> QED
    BY <2>1, <2>3, <2>5
<1>4. Inv => DsyncSurvives
  BY <1>1, CrashIsPrefix DEF DsyncSurvives, Still
<1> QED
  BY <1>2, <1>3, <1>4, PTL DEF Spec

-----------------------------------------------------------------------------
(* The tail rule *)

(* A checkpoint that saw a failed write and has not aborted the journal yet. *)
Failing == k_err /\ k_pc \in {"scan", "batch", "wait", "out"}

(* Contents grow, and a listed block was changed by its transaction. *)
GrowInv ==
  \A b \in Block :
    /\ homeWritten[b] <= b_data[b]
    /\ b_cp_transaction[b] # 0 =>
         b \in mods[b_cp_transaction[b]] /\ (~aborted => b_cp_transaction[b] \in committed)

(* A listed buffer that is neither dirty nor taken by a transaction was      *)
(* written, or the write failed; so was one on the io list that is not in    *)
(* the batch.                                                                *)
Tried(b) == homeWritten[b] >= b_cp_transaction[b] \/ b_err[b]

ListInv ==
  ~aborted =>
    \A b \in Block : b_cp_transaction[b] # 0 =>
      /\ Tried(b) \/ b_dirty[b] \/ b_transaction[b] # 0
      /\ b_io[b] => Tried(b) \/ b \in k_batch

(* What a committed transaction changed was written in place, or is listed   *)
(* for a transaction that is not older, or is about to be, until reclaim     *)
(* drops the buffer of a failed write.                                       *)
CoverInv ==
  /\ c_pc = "log" => mods[committing] \subseteq forget
  /\ ~aborted /\ ~Failing /\ ~dropped =>
       \A t \in committed : \A b \in mods[t] :
         homeWritten[b] >= t \/ b_cp_transaction[b] >= t \/ (t = committing /\ b \in forget)

TailInv == GrowInv /\ ListInv /\ CoverInv /\ TailCovers

\* A checkpoint that saw a failed write goes on failing until the abort.
LEMMA FailingStays ==
  ASSUME Failing, Next
  PROVE  Failing' \/ aborted'
<1>1. k_err /\ k_pc \in {"scan", "batch", "wait", "out"}
  BY DEF Failing
<1>2. CASE UNCHANGED <<k_err, k_pc>>
  BY <1>1, <1>2 DEF Failing
<1>3. CASE WaitForSpace \/ FlushCheckpoint
  BY <1>1, <1>3 DEF WaitForSpace, FlushCheckpoint
<1>4. CASE DoCheckpoint
  <2>1. CASE KTail \/ KSuper \/ KPick \/ KScanDone \/ KWaitDone \/ KOut
    BY <1>1, <2>1 DEF Failing, KTail, KSuper, KPick, KScanDone, KWaitDone, KOut
  <2>2. CASE \E b \in Block : KProcess(b) \/ KWrite(b) \/ KWaitIo(b)
    BY <1>1, <2>2 DEF Failing, KProcess, KWrite, KWaitIo
  <2> QED
    BY <1>4, <2>1, <2>2 DEF DoCheckpoint
<1>5. CASE Transactions \/ Commit
  BY <1>2, <1>5 DEF Transactions, Commit, StartHandle, StartTransaction, Modify, CommitStart, CommitLog, CommitForget,
     CommitFinish, kVars
<1>6. CASE FlushBegin \/ FlushCommitted \/ FlushDone \/ FlushTail \/ FlushSuper
  BY <1>2, <1>6 DEF FlushBegin, FlushCommitted, FlushDone, FlushTail, FlushSuper, FlushOnly, kVars
<1>7. CASE (\E b \in Block : VmTest(b) \/ VmWrite(b) \/ TryToFree(b)) \/ Disk \/ Tick
  BY <1>2, <1>7 DEF VmTest, VmWrite, TryToFree, Disk, DestageLog, TearLog, DestageHome, DestageSuper, Tick, kVars
<1> QED
  BY <1>3, <1>4, <1>5, <1>6, <1>7 DEF Next, JournalFlush

\* The blocks of a committed transaction do not change.
LEMMA ModsStep ==
  ASSUME TypeOK, StartInv, OrderInv, CommitInv, OwnerInv, Next
  PROVE  /\ \A t \in Tid : mods[t] \subseteq mods'[t]
         /\ \A t \in committed : mods'[t] = mods[t]
         /\ committing # 0 => mods'[committing] = mods[committing]
         /\ \A b \in Block : b_data[b] <= b_data'[b]
<1> USE Numbers, BufferTypes
<1>1. CASE UNCHANGED <<mods, b_data>>
  BY <1>1
<1>2. CASE \E b \in Block : Modify(b)
  <2>1. PICK b \in Block : Modify(b)
    BY <1>2
  <2>2. /\ running # 0 /\ b_data[b] # running /\ b_data' = [b_data EXCEPT ![b] = running]
        /\ mods' = [mods EXCEPT ![running] = @ \cup {b}]
    BY <2>1 DEF Modify
  <2>3. running \in Tid /\ running = sequence - 1
    BY <2>2 DEF Tid, OrderInv
  <2>4. committing # running
    BY <2>2 DEF OrderInv
  <2>5. Open <= running
    BY <2>2 DEF Open, OrderInv
  <2>6. running \notin committed
    BY <2>3, <2>4, <2>5 DEF CommitInv
  <2>7. b_data[b] < running
    BY <2>2, <2>3 DEF OwnerInv
  <2>8. /\ \A t \in Tid : mods[t] \subseteq mods'[t]
        /\ \A t \in Tid : t # running => mods'[t] = mods[t]
    BY <2>2, <2>3
  <2>9. committing # 0 => committing \in Tid
    BY DEF Tid
  <2>10. \A c \in Block : b_data[c] <= b_data'[c]
    BY <2>2, <2>7
  <2> QED
    BY <2>4, <2>6, <2>8, <2>9, <2>10
<1>3. CASE StartHandle \/ StartTransaction \/ Commit
  BY <1>1, <1>3 DEF StartHandle, StartTransaction, Commit, CommitStart, CommitLog, CommitForget,
     CommitFinish, txVars, bufVars
<1>4. CASE DoCheckpoint
  BY <1>1, <1>4 DEF DoCheckpoint, KTail, KSuper, KPick, KScanDone, KWaitDone, KOut, KProcess, KWrite, KWaitIo, txVars, bufVars
<1>5. CASE FlushBegin \/ JournalFlush \/ WaitForSpace
  BY <1>1, <1>5 DEF WaitForSpace, FlushBegin, JournalFlush, FlushCommitted, FlushDone, FlushTail, FlushSuper, FlushOnly,
     FlushCheckpoint, txVars, bufVars
<1>6. CASE (\E b \in Block : VmTest(b) \/ VmWrite(b) \/ TryToFree(b)) \/ Disk \/ Tick
  BY <1>1, <1>6 DEF VmTest, VmWrite, TryToFree, Disk, DestageLog, TearLog, DestageHome, DestageSuper, Tick, txVars, bufVars
<1> QED
  BY <1>2, <1>3, <1>4, <1>5, <1>6 DEF Next, Transactions

\* What is in place only grows.
LEMMA HomeGrows ==
  ASSUME TypeOK, AheadInv, GrowInv, Next
  PROVE  \A b \in Block : /\ homeWritten[b] <= homeWritten'[b] /\ homeWritten'[b] <= b_data[b]
                          /\ homeWritten[b] \in Nat /\ homeWritten'[b] \in Nat
<1> USE Numbers, BufferTypes
<1>1. \A b \in Block : homeWritten'[b] = homeWritten[b] \/ homeWritten'[b] = b_data[b]
  BY HomeStep DEF AheadInv
<1>2. homeWritten \in [Block -> Nat]
  BY DEF TypeOK, OptTid
<1> QED
  BY <1>1, <1>2 DEF GrowInv

\* What was dropped stays dropped.
LEMMA DroppedStays ==
  ASSUME Next, dropped
  PROVE  dropped'
<1>1. CASE Transactions \/ Commit \/ WaitForSpace
  BY <1>1 DEF Transactions, Commit, StartHandle, StartTransaction, Modify, CommitStart, CommitLog, CommitForget,
     CommitFinish, WaitForSpace, bufVars
<1>2. CASE DoCheckpoint
  BY <1>2 DEF DoCheckpoint, KTail, KSuper, KPick, KScanDone, KWaitDone, KOut, KProcess, KWrite, KWaitIo, bufVars
<1>3. CASE FlushBegin \/ JournalFlush
  BY <1>3 DEF FlushBegin, JournalFlush, FlushCommitted, FlushDone, FlushTail, FlushSuper, FlushOnly,
     FlushCheckpoint, bufVars
<1>4. CASE (\E b \in Block : VmTest(b) \/ VmWrite(b) \/ TryToFree(b)) \/ Disk \/ Tick
  BY <1>4 DEF VmTest, VmWrite, TryToFree, Disk, DestageLog, TearLog, DestageHome, DestageSuper, Tick, bufVars
<1> QED
  BY <1>1, <1>2, <1>3, <1>4 DEF Next

\* What a step does to a buffer that is not being forgotten: an error stays until
\* a write succeeds, a dirty buffer is written or taken by a transaction, and a
\* buffer leaves its list when it was written, the checkpoint noticed that it was
\* not, or reclaim dropped it.
LEMMA ListStep ==
  ASSUME TypeOK, AheadInv, ListInv, Next, NEW b \in Block, ~CommitForget(b)
  PROVE  /\ b_err[b] => b_err'[b] \/ (b_dirty[b] /\ homeWritten'[b] = b_data[b])
         /\ b_dirty[b] => b_dirty'[b] \/ homeWritten'[b] = b_data[b] \/ b_err'[b] \/ b_transaction'[b] # 0
         /\ b_transaction[b] # 0 => b_transaction'[b] # 0
         /\ b \in k_batch => b \in k_batch' \/ homeWritten'[b] = b_data[b] \/ b_err'[b] \/ ~b_dirty[b]
         /\ \/ b_cp_transaction'[b] = b_cp_transaction[b] /\ (b_io'[b] => b_io[b] \/ b \in k_batch')
            \/ /\ b_cp_transaction'[b] = 0
               /\ b_cp_transaction[b] # 0 /\ ~aborted =>
                    homeWritten[b] >= b_cp_transaction[b] \/ Failing' \/ dropped'
<1> USE Numbers, BufferTypes
<1> DEFINE Kept == b_cp_transaction'[b] = b_cp_transaction[b] /\ (b_io'[b] => b_io[b] \/ b \in k_batch')
           Off == /\ b_cp_transaction'[b] = 0
                  /\ b_cp_transaction[b] # 0 /\ ~aborted =>
                       homeWritten[b] >= b_cp_transaction[b] \/ Failing' \/ dropped'
           Buf == /\ b_err[b] => b_err'[b] \/ (b_dirty[b] /\ homeWritten'[b] = b_data[b])
                  /\ b_dirty[b] => b_dirty'[b] \/ homeWritten'[b] = b_data[b] \/ b_err'[b] \/ b_transaction'[b] # 0
                  /\ b_transaction[b] # 0 => b_transaction'[b] # 0
                  /\ b \in k_batch => b \in k_batch' \/ homeWritten'[b] = b_data[b] \/ b_err'[b] \/ ~b_dirty[b]
<1>1. CASE UNCHANGED <<bufVars, cpVars, k_batch>>
  BY <1>1 DEF bufVars, cpVars
<1>2. CASE \E c \in Block : Modify(c)
  <2>1. PICK c \in Block : Modify(c)
    BY <1>2
  <2>2. /\ running # 0 /\ UNCHANGED <<cpVars, k_batch, b_err>>
        /\ b_dirty' = [b_dirty EXCEPT ![c] = FALSE]
        /\ \/ b_transaction' = [b_transaction EXCEPT ![c] = running]
           \/ b_transaction' = b_transaction /\ b_transaction[c] # 0
    BY <2>1 DEF Modify, kVars
  <2>3. Kept
    BY <2>2 DEF cpVars
  <2>4. Buf
    <3>1. CASE b = c
      BY <2>2, <3>1
    <3>2. CASE b # c
      BY <2>2, <3>2
    <3> QED
      BY <3>1, <3>2
  <2> QED
    BY <2>3, <2>4
<1>3. CASE \E kind \in {"osync", "dsync"} : CommitStart(kind)
  <2>1. PICK S \in SUBSET Freeable : RemoveCheckpoint(S)
    BY <1>3 DEF CommitStart
  <2>2. UNCHANGED <<load, bufVars, k_batch>>
    BY <1>3 DEF CommitStart, kVars
  <2>3. Buf
    BY <2>2 DEF bufVars
  <2>4. CASE b \notin S
    BY <2>1, <2>2, <2>3, <2>4, RemoveCheckpointIs
  <2>5. CASE b \in S
    <3>1. b_cp_transaction[b] # 0 /\ b_transaction[b] = 0 /\ ~b_dirty[b] /\ ~b_err[b]
      BY <2>1, <2>5 DEF Freeable
    <3>2. ~aborted => homeWritten[b] >= b_cp_transaction[b]
      BY <3>1 DEF ListInv, Tried
    <3>3. b_cp_transaction'[b] = 0
      BY <2>1, <2>2, <2>5, RemoveCheckpointIs
    <3> QED
      BY <2>3, <3>2, <3>3
  <2> QED
    BY <2>4, <2>5
<1>4. CASE \E c \in Block : CommitForget(c)
  <2>1. PICK c \in Block : CommitForget(c)
    BY <1>4
  <2>2. c # b
    BY <2>1
  <2>3. /\ b_cp_transaction' = [b_cp_transaction EXCEPT ![c] = committing]
        /\ b_io' = [b_io EXCEPT ![c] = FALSE]
        /\ b_transaction' = [b_transaction EXCEPT ![c] = b_next_transaction[c]]
        /\ b_dirty' = [b_dirty EXCEPT ![c] = b_next_transaction[c] = 0 /\ ~aborted]
        /\ b_err' = b_err /\ k_batch' = k_batch
    BY <2>1 DEF CommitForget, kVars
  <2>4. /\ b_cp_transaction'[b] = b_cp_transaction[b] /\ b_io'[b] = b_io[b]
        /\ b_transaction'[b] = b_transaction[b] /\ b_dirty'[b] = b_dirty[b]
    BY <2>2, <2>3
  <2> QED
    BY <2>3, <2>4
<1>5. CASE \E c \in Block : KProcess(c)
  <2>1. PICK c \in Block : KProcess(c)
    BY <1>5
  <2>2. UNCHANGED <<load, bufVars>> /\ b_transaction[c] = 0
    BY <2>1 DEF KProcess
  <2>3. CASE b_dirty[c]
    <3>1. b_io' = [b_io EXCEPT ![c] = TRUE] /\ k_batch' = k_batch \cup {c} /\ UNCHANGED b_cp_transaction
      BY <2>1, <2>3 DEF KProcess
    <3>2. b_io'[b] => b_io[b] \/ b \in k_batch'
      BY <3>1
    <3> QED
      BY <2>2, <3>1, <3>2 DEF bufVars
  <2>4. CASE ~b_dirty[c]
    <3>1. /\ RemoveCheckpoint({c}) /\ k_batch' = k_batch /\ k_err' = (k_err \/ b_err[c])
          /\ k_pc' \in {"scan", "batch"}
      BY <2>1, <2>4 DEF KProcess
    <3>2. Buf
      BY <2>2, <3>1 DEF bufVars
    <3>3. CASE b = c
      <4>1. b_cp_transaction'[b] = 0
        BY <2>2, <3>1, <3>3, RemoveCheckpointIs
      <4>2. b_cp_transaction[b] # 0 /\ ~aborted => homeWritten[b] >= b_cp_transaction[b] \/ b_err[b]
        BY <2>2, <2>4, <3>3 DEF ListInv, Tried
      <4>3. b_err[b] => Failing'
        BY <3>1, <3>3 DEF Failing
      <4> QED
        BY <3>2, <4>1, <4>2, <4>3
    <3>4. CASE b # c
      BY <2>2, <3>1, <3>2, <3>4, RemoveCheckpointIs
    <3> QED
      BY <3>3, <3>4
  <2> QED
    BY <2>3, <2>4
<1>6. CASE \E c \in Block : KWaitIo(c)
  <2>1. PICK c \in Block : KWaitIo(c)
    BY <1>6
  <2>2. /\ UNCHANGED <<load, bufVars, k_batch, k_pc>> /\ RemoveCheckpoint({c}) /\ k_pc = "wait" /\ b_io[c]
        /\ k_err' = (k_err \/ b_err[c])
    BY <2>1 DEF KWaitIo, OnIoList
  <2>3. Buf
    BY <2>2 DEF bufVars
  <2>4. CASE b = c
    <3>1. k_batch = {}
      BY <2>2 DEF AheadInv, BatchInv
    <3>2. b_cp_transaction[b] # 0 /\ ~aborted => homeWritten[b] >= b_cp_transaction[b] \/ b_err[b]
      BY <2>2, <2>4, <3>1 DEF ListInv, Tried
    <3>3. b_err[b] => Failing'
      BY <2>2, <2>4 DEF Failing
    <3>4. b_cp_transaction'[b] = 0
      BY <2>2, <2>4, RemoveCheckpointIs
    <3> QED
      BY <2>3, <3>2, <3>3, <3>4
  <2>5. CASE b # c
    BY <2>2, <2>3, <2>5, RemoveCheckpointIs
  <2> QED
    BY <2>4, <2>5
<1>7. CASE \E c \in Block : KWrite(c) \/ VmWrite(c)
  <2>1. PICK c \in Block : KWrite(c) \/ VmWrite(c)
    BY <1>7
  <2>2. /\ UNCHANGED <<load, cpVars, b_data, b_transaction>>
        /\ k_batch' \in {k_batch, k_batch \ {c}}
    BY <2>1 DEF KWrite, VmWrite, kVars
  <2>3. \/ b_dirty[c] /\ WriteHome(c)
        \/ ~b_dirty[c] /\ b_dirty' = b_dirty /\ b_err' = b_err
    BY <2>1 DEF KWrite, VmWrite
  <2>4. Kept
    BY <2>2 DEF cpVars
  <2>5. CASE b_dirty[c] /\ WriteHome(c)
    <3>1. /\ b_dirty' = [b_dirty EXCEPT ![c] = FALSE]
          /\ \/ /\ homeWritten' = [homeWritten EXCEPT ![c] = b_data[c]]
                /\ b_err' = [b_err EXCEPT ![c] = FALSE]
             \/ b_err' = [b_err EXCEPT ![c] = TRUE]
      BY <2>5 DEF WriteHome
    <3>2. b_err \in [Block -> BOOLEAN] /\ homeWritten \in [Block -> OptTid]
      BY DEF TypeOK
    <3>3. Buf
      <4>1. CASE b = c
        <5>1. homeWritten'[b] = b_data[b] \/ b_err'[b]
          BY <3>1, <3>2, <4>1
        <5> QED
          BY <2>2, <2>5, <4>1, <5>1
      <4>2. CASE b # c
        BY <2>2, <3>1, <3>2, <4>2
      <4> QED
        BY <4>1, <4>2
    <3> QED
      BY <2>4, <3>3
  <2>6. CASE ~b_dirty[c] /\ b_dirty' = b_dirty /\ b_err' = b_err
    <3>1. Buf
      BY <2>2, <2>6
    <3> QED
      BY <2>4, <3>1
  <2> QED
    BY <2>3, <2>5, <2>6
<1>8. CASE CommitFinish
  BY <1>8 DEF CommitFinish, bufVars, kVars
<1>13. CASE \E c \in Block : VmTest(c)
  BY <1>1, <1>13 DEF VmTest, kVars
<1>14. CASE \E c \in Block : TryToFree(c)
  <2>1. PICK c \in Block : TryToFree(c)
    BY <1>14
  <2>2. /\ UNCHANGED <<load, b_data, b_dirty, b_err, b_transaction, k_batch>> /\ RemoveCheckpoint({c})
        /\ b_transaction[c] = 0 /\ ~b_dirty[c] /\ dropped' = (dropped \/ b_err[c])
    BY <2>1 DEF TryToFree, kVars
  <2>3. Buf
    BY <2>2
  <2>4. CASE b = c
    <3>1. b_cp_transaction'[b] = 0
      BY <2>2, <2>4, RemoveCheckpointIs
    <3>2. b_cp_transaction[b] # 0 /\ ~aborted => homeWritten[b] >= b_cp_transaction[b] \/ b_err[b]
      BY <2>2, <2>4 DEF ListInv, Tried
    <3> QED
      BY <2>2, <2>3, <2>4, <3>1, <3>2
  <2>5. CASE b # c
    BY <2>2, <2>3, <2>5, RemoveCheckpointIs
  <2> QED
    BY <2>4, <2>5
<1>9. CASE StartHandle \/ StartTransaction \/ CommitLog
  BY <1>1, <1>9 DEF StartHandle, StartTransaction, CommitLog, kVars
<1>10. CASE WaitForSpace \/ KTail \/ KSuper \/ KPick \/ KScanDone \/ KWaitDone \/ KOut
  BY <1>1, <1>10 DEF WaitForSpace, KTail, KSuper, KPick, KScanDone, KWaitDone, KOut
<1>11. CASE FlushBegin \/ FlushCommitted \/ FlushDone \/ FlushCheckpoint \/ FlushTail \/ FlushSuper
  BY <1>1, <1>11 DEF FlushBegin, FlushCommitted, FlushDone, FlushOnly, FlushCheckpoint, FlushTail, FlushSuper, kVars
<1>12. CASE Disk \/ Tick
  BY <1>1, <1>12 DEF Disk, DestageLog, TearLog, DestageHome, DestageSuper, Tick, kVars
<1> QED
  BY <1>2, <1>3, <1>4, <1>5, <1>6, <1>7, <1>8, <1>9, <1>10, <1>11, <1>12, <1>13, <1>14
     DEF Next, Transactions, Commit, DoCheckpoint, JournalFlush

\* An aborted journal stays aborted.
LEMMA AbortStays ==
  ASSUME Next, aborted
  PROVE  aborted'
<1>1. CASE Transactions \/ Commit \/ WaitForSpace
  BY <1>1 DEF Transactions, Commit, StartHandle, StartTransaction, Modify, CommitStart, CommitLog, CommitForget,
     CommitFinish, WaitForSpace, txVars
<1>2. CASE DoCheckpoint
  BY <1>2 DEF DoCheckpoint, KTail, KSuper, KPick, KScanDone, KWaitDone, KOut, KProcess, KWrite, KWaitIo, txVars
<1>3. CASE FlushBegin \/ JournalFlush
  BY <1>3 DEF FlushBegin, JournalFlush, FlushCommitted, FlushDone, FlushTail, FlushSuper, FlushOnly,
     FlushCheckpoint, txVars
<1>4. CASE (\E b \in Block : VmTest(b) \/ VmWrite(b) \/ TryToFree(b)) \/ Disk \/ Tick
  BY <1>4 DEF VmTest, VmWrite, TryToFree, Disk, DestageLog, TearLog, DestageHome, DestageSuper, Tick, txVars
<1> QED
  BY <1>1, <1>2, <1>3, <1>4 DEF Next

\* A step belongs to the commit or leaves it where it is.
LEMMA CommitSteps ==
  ASSUME Next
  PROVE  \/ \E kind \in {"osync", "dsync"} : CommitStart(kind)
         \/ CommitLog
         \/ \E b \in Block : CommitForget(b)
         \/ CommitFinish
         \/ UNCHANGED <<c_pc, committing, forget, committed>>
<1>1. CASE Transactions \/ WaitForSpace
  BY <1>1 DEF Transactions, StartHandle, StartTransaction, Modify, WaitForSpace, txVars, cVars
<1>2. CASE DoCheckpoint
  BY <1>2 DEF DoCheckpoint, KTail, KSuper, KPick, KScanDone, KWaitDone, KOut, KProcess, KWrite, KWaitIo, txVars, cVars
<1>3. CASE FlushBegin \/ JournalFlush
  BY <1>3 DEF FlushBegin, JournalFlush, FlushCommitted, FlushDone, FlushTail, FlushSuper, FlushOnly,
     FlushCheckpoint, txVars, cVars
<1>4. CASE (\E b \in Block : VmTest(b) \/ VmWrite(b) \/ TryToFree(b)) \/ Disk \/ Tick
  BY <1>4 DEF VmTest, VmWrite, TryToFree, Disk, DestageLog, TearLog, DestageHome, DestageSuper, Tick, txVars, cVars
<1> QED
  BY <1>1, <1>2, <1>3, <1>4 DEF Next, Commit

\* The tail moves to the oldest transaction that has to stay in the log, and
\* not while a checkpoint is about to fail.
LEMMA TailSteps ==
  ASSUME TypeOK, AheadInv, Quiet, Next
  PROVE  \/ tail' = tail
         \/ /\ tail' = FirstTid /\ ~aborted /\ ~Failing /\ UNCHANGED <<mods, committed, homeWritten>>
            /\ k_pc \in {"idle", "tail"}
<1>1. CASE Transactions \/ Commit \/ WaitForSpace
  BY <1>1 DEF Transactions, Commit, StartHandle, StartTransaction, Modify, CommitStart, CommitLog, CommitForget,
     CommitFinish, WaitForSpace
<1>2. CASE KTail
  BY <1>2 DEF KTail, TailMoves, Failing, txVars, diskVars, homeVars
<1>3. CASE KSuper \/ KPick \/ KScanDone \/ KWaitDone \/ KOut \/ \E b \in Block : KProcess(b) \/ KWrite(b) \/ KWaitIo(b)
  BY <1>3 DEF KSuper, KPick, KScanDone, KWaitDone, KOut, KProcess, KWrite, KWaitIo
<1>4. CASE FlushTail
  <2>1. f_pc = "tail"
    BY <1>4 DEF FlushTail
  <2>2. "space" \notin load.callers
    BY <2>1 DEF AheadInv, CallerInv, Quiet
  <2>3. k_pc = "idle"
    BY <2>1, <2>2 DEF CallerInv, AheadInv, FlushInv
  <2> QED
    BY <1>4, <2>3 DEF FlushTail, TailMoves, Failing, txVars, diskVars, homeVars
<1>5. CASE FlushBegin \/ FlushCommitted \/ FlushDone \/ FlushSuper \/ FlushCheckpoint
  BY <1>5 DEF FlushBegin, FlushCommitted, FlushDone, FlushSuper, FlushOnly, FlushCheckpoint
<1>6. CASE (\E b \in Block : VmTest(b) \/ VmWrite(b) \/ TryToFree(b)) \/ Disk \/ Tick
  BY <1>6 DEF VmTest, VmWrite, TryToFree, Disk, DestageLog, TearLog, DestageHome, DestageSuper, Tick
<1> QED
  BY <1>1, <1>2, <1>3, <1>4, <1>5, <1>6 DEF Next, DoCheckpoint, JournalFlush

\* A buffer that is forgotten goes to the list of the committing transaction,
\* dirty or taken by the running one.
LEMMA ForgetLists ==
  ASSUME TypeOK, AheadInv, NEW b \in Block, CommitForget(b)
  PROVE  /\ c_pc = "forget" /\ b_cp_transaction'[b] = committing /\ committing \in Tid /\ b \in mods[committing]
         /\ ~aborted => committing \in committed
         /\ ~aborted => b_dirty'[b] \/ b_transaction'[b] # 0
         /\ ~b_io'[b]
<1> USE Numbers, BufferTypes
<1>1. /\ c_pc = "forget" /\ b \in forget
      /\ b_cp_transaction' = [b_cp_transaction EXCEPT ![b] = committing]
      /\ b_io' = [b_io EXCEPT ![b] = FALSE]
      /\ b_transaction' = [b_transaction EXCEPT ![b] = b_next_transaction[b]]
      /\ b_dirty' = [b_dirty EXCEPT ![b] = b_next_transaction[b] = 0 /\ ~aborted]
  BY DEF CommitForget
<1>2. committing # 0 /\ committing \in Tid
  BY <1>1 DEF AheadInv, StartInv, Tid
<1>3. b \in mods[committing]
  BY <1>1, <1>2 DEF AheadInv, OwnerInv
<1>4. ~aborted => committing \in committed
  BY <1>1 DEF AheadInv, CommitInv
<1>5. b_cp_transaction'[b] = committing /\ ~b_io'[b] /\ b_transaction'[b] = b_next_transaction[b]
      /\ b_dirty'[b] = (b_next_transaction[b] = 0 /\ ~aborted)
  BY <1>1
<1> QED
  BY <1>1, <1>2, <1>3, <1>4, <1>5

\* Contents keep growing and lists keep to their transactions.
LEMMA GrowNext ==
  ASSUME TypeOK, AheadInv, GrowInv, ListInv, Next
  PROVE  GrowInv'
<1> USE Numbers, BufferTypes
<1> SUFFICES ASSUME NEW b \in Block
             PROVE  /\ homeWritten'[b] <= b_data'[b]
                    /\ b_cp_transaction'[b] # 0 =>
                         /\ b \in mods'[b_cp_transaction'[b]]
                         /\ ~aborted' => b_cp_transaction'[b] \in committed'
  BY DEF GrowInv
<1>1. /\ \A t \in Tid : mods[t] \subseteq mods'[t]
      /\ \A c \in Block : b_data[c] <= b_data'[c]
  BY ModsStep DEF AheadInv
<1>2. TypeOK' /\ committed \subseteq committed'
  BY TypeNext, LogStep DEF AheadInv
<1>3. b_data'[b] \in Nat
  <2>1. b_data' \in [Block -> OptTid'] /\ OptTid' \subseteq Nat
    BY <1>2 DEF TypeOK, OptTid
  <2> QED
    BY <2>1
<1>4. homeWritten'[b] <= b_data'[b]
  <2>1. homeWritten'[b] <= b_data[b] /\ homeWritten'[b] \in Nat
    BY HomeGrows
  <2> QED
    BY <1>1, <1>3, <2>1
<1>5. ASSUME b_cp_transaction'[b] # 0
      PROVE  /\ b \in mods'[b_cp_transaction'[b]]
             /\ ~aborted' => b_cp_transaction'[b] \in committed'
  <2>1. PICK u : u = b_cp_transaction'[b]
    OBVIOUS
  <2>2. u \in Tid /\ b \in mods[u] /\ (~aborted => u \in committed)
    <3>1. CASE CommitForget(b)
      BY <2>1, <3>1, ForgetLists
    <3>2. CASE ~CommitForget(b)
      <4>1. u = b_cp_transaction[b]
        BY <1>5, <2>1, <3>2, ListStep
      <4>2. u \in OptTid /\ u # 0
        BY <1>5, <2>1, <4>1 DEF TypeOK
      <4>3. u \in Tid
        BY <4>2 DEF OptTid, Tid
      <4>4. b \in mods[u] /\ (~aborted => u \in committed)
        BY <4>1, <4>2 DEF GrowInv
      <4> QED
        BY <4>3, <4>4
    <3> QED
      BY <3>1, <3>2
  <2>3. b \in mods'[u] /\ (~aborted' => u \in committed')
    BY <1>1, <1>2, <2>2, AbortStays
  <2> QED
    BY <2>1, <2>3
<1> QED
  BY <1>4, <1>5

\* Listed buffers stay dirty, taken or tried.
LEMMA ListNext ==
  ASSUME TypeOK, AheadInv, GrowInv, ListInv, Next
  PROVE  ListInv'
<1> USE Numbers, BufferTypes
<1> SUFFICES ASSUME ~aborted', NEW b \in Block, b_cp_transaction'[b] # 0
             PROVE  /\ Tried(b)' \/ b_dirty'[b] \/ b_transaction'[b] # 0
                    /\ b_io'[b] => Tried(b)' \/ b \in k_batch'
  BY DEF ListInv
<1>1. ~aborted
  BY AbortStays
<1>2. CASE CommitForget(b)
  BY <1>1, <1>2, ForgetLists
<1>3. CASE ~CommitForget(b)
  <2>1. /\ b_err[b] => b_err'[b] \/ (b_dirty[b] /\ homeWritten'[b] = b_data[b])
        /\ b_dirty[b] => b_dirty'[b] \/ homeWritten'[b] = b_data[b] \/ b_err'[b] \/ b_transaction'[b] # 0
        /\ b_transaction[b] # 0 => b_transaction'[b] # 0
        /\ b \in k_batch => b \in k_batch' \/ homeWritten'[b] = b_data[b] \/ b_err'[b] \/ ~b_dirty[b]
        /\ b_cp_transaction'[b] = b_cp_transaction[b] /\ (b_io'[b] => b_io[b] \/ b \in k_batch')
    BY <1>3, ListStep
  <2>2. homeWritten[b] <= homeWritten'[b] /\ homeWritten[b] \in Nat /\ homeWritten'[b] \in Nat
    BY HomeGrows
  <2>3. b_dirty[b] => b_cp_transaction[b] = b_data[b]
    BY DEF AheadInv, DirtyInv
  <2>4. Tried(b) => Tried(b)'
    BY <2>1, <2>2, <2>3 DEF Tried
  <2>5. b_dirty[b] /\ homeWritten'[b] = b_data[b] => Tried(b)'
    BY <2>1, <2>3 DEF Tried
  <2>6. b_err'[b] => Tried(b)'
    BY DEF Tried
  <2>7. /\ Tried(b) \/ b_dirty[b] \/ b_transaction[b] # 0
        /\ b_io[b] => Tried(b) \/ b \in k_batch
    BY <1>1, <2>1 DEF ListInv
  <2>8. Tried(b)' \/ b_dirty'[b] \/ b_transaction'[b] # 0
    BY <2>1, <2>4, <2>5, <2>6, <2>7
  <2>9. b \in k_batch => b_transaction[b] = 0
    BY DEF AheadInv, BatchInv
  <2>10. b_io'[b] => Tried(b)' \/ b \in k_batch'
    <3>1. CASE b \in k_batch /\ ~b_dirty[b]
      BY <2>4, <2>7, <2>9, <3>1
    <3>2. CASE b \in k_batch /\ b_dirty[b]
      BY <2>1, <2>5, <2>6, <3>2
    <3>3. CASE b \notin k_batch
      BY <2>1, <2>4, <2>7, <3>3
    <3> QED
      BY <3>1, <3>2, <3>3
  <2> QED
    BY <2>8, <2>10
<1> QED
  BY <1>2, <1>3

\* A buffer waits to be forgotten until it is.
LEMMA ForgetWaits ==
  ASSUME TypeOK, AheadInv, CoverInv, Next
  PROVE  /\ \A b \in forget : CommitForget(b) \/ (b \in forget' /\ committing' = committing)
         /\ \A t \in committed' : t \in committed \/ (t = committing /\ committing' = committing /\ mods[t] \subseteq forget')
         /\ c_pc' = "log" => mods'[committing'] \subseteq forget'
<1> USE Numbers, BufferTypes
<1>1. committing # 0 => mods'[committing] = mods[committing]
  BY ModsStep DEF AheadInv
<1>2. c_pc = "log" => committing # 0 /\ mods[committing] \subseteq forget
  BY DEF CoverInv, AheadInv, StartInv
<1>3. CASE \E kind \in {"osync", "dsync"} : CommitStart(kind)
  <2>1. /\ committing = 0 /\ committing' = running /\ forget' = mods[running]
        /\ mods' = mods /\ committed' = committed
    BY <1>3 DEF CommitStart
  <2>2. forget = {}
    BY <2>1 DEF AheadInv, OwnerInv
  <2> QED
    BY <2>1, <2>2
<1>4. CASE CommitLog
  <2>1. /\ c_pc = "log" /\ c_pc' = "forget" /\ UNCHANGED <<committing, forget>>
        /\ committed' \subseteq committed \cup {committing}
    BY <1>4 DEF CommitLog
  <2> QED
    BY <1>2, <2>1
<1>5. CASE \E b \in Block : CommitForget(b)
  <2>1. PICK b \in Block : CommitForget(b)
    BY <1>5
  <2>2. c_pc' = "forget" /\ forget' = forget \ {b} /\ UNCHANGED <<committing, committed>>
    BY <2>1 DEF CommitForget, txVars
  <2> QED
    BY <2>1, <2>2
<1>6. CASE CommitFinish
  BY <1>6 DEF CommitFinish
<1>7. CASE UNCHANGED <<c_pc, committing, forget, committed>>
  BY <1>1, <1>2, <1>7
<1> QED
  BY <1>3, <1>4, <1>5, <1>6, <1>7, CommitSteps

\* What committed transactions changed stays covered.
LEMMA CoverNext ==
  ASSUME TypeOK, AheadInv, GrowInv, ListInv, CoverInv, Next
  PROVE  CoverInv'
<1> USE Numbers, BufferTypes
<1>1. /\ \A b \in forget : CommitForget(b) \/ (b \in forget' /\ committing' = committing)
      /\ \A t \in committed' : t \in committed \/ (t = committing /\ committing' = committing /\ mods[t] \subseteq forget')
      /\ c_pc' = "log" => mods'[committing'] \subseteq forget'
  BY ForgetWaits
<1> SUFFICES ASSUME ~aborted', ~Failing', ~dropped', NEW t \in committed', NEW b \in mods'[t]
             PROVE  homeWritten'[b] >= t \/ b_cp_transaction'[b] >= t \/ (t = committing' /\ b \in forget')
  BY <1>1 DEF CoverInv
<1>2. ~aborted /\ ~Failing /\ ~dropped
  BY AbortStays, FailingStays, DroppedStays
<1>3. t \in committed \/ (t = committing /\ t # 0)
  <2>1. TypeOK'
    BY TypeNext DEF AheadInv
  <2>2. t # 0
    BY <2>1 DEF TypeOK, Tid
  <2> QED
    BY <1>1, <2>2
<1>4. mods'[t] = mods[t]
  BY <1>3, ModsStep DEF AheadInv
<1>5. CASE t \notin committed
  BY <1>1, <1>4, <1>5
<1>6. CASE t \in committed
  <2>1. t \in Tid /\ t \in Nat /\ t # 0 /\ b \in mods[t] /\ b \in Block
    BY <1>4, <1>6
  <2>2. homeWritten[b] <= homeWritten'[b] /\ homeWritten[b] \in Nat /\ homeWritten'[b] \in Nat
    BY <2>1, HomeGrows
  <2>3. homeWritten[b] >= t \/ b_cp_transaction[b] >= t \/ (t = committing /\ b \in forget)
    BY <1>2, <1>6, <2>1 DEF CoverInv
  <2>4. CASE CommitForget(b)
    <3>1. c_pc = "forget" /\ b_cp_transaction'[b] = committing /\ committing \in Tid
      BY <2>1, <2>4, ForgetLists
    <3>2. Open = committing
      BY <3>1 DEF Open
    <3>3. t < Open \/ t = committing
      BY <1>6 DEF AheadInv, CommitInv
    <3>4. committing >= t
      BY <2>1, <3>2, <3>3
    <3> QED
      BY <3>1, <3>4
  <2>5. CASE ~CommitForget(b)
    <3>1. CASE homeWritten[b] >= t
      BY <2>1, <2>2, <3>1
    <3>2. CASE b_cp_transaction[b] >= t
      <4>1. b_cp_transaction[b] \in Nat /\ b_cp_transaction[b] # 0
        BY <2>1, <3>2
      <4>2. b_cp_transaction'[b] = b_cp_transaction[b] \/ homeWritten[b] >= b_cp_transaction[b]
        BY <1>2, <2>1, <2>5, <4>1, ListStep
      <4> QED
        BY <2>1, <2>2, <3>2, <4>1, <4>2
    <3>3. CASE t = committing /\ b \in forget
      BY <1>1, <2>5, <3>3
    <3> QED
      BY <2>3, <3>1, <3>2, <3>3
  <2> QED
    BY <2>4, <2>5
<1> QED
  BY <1>5, <1>6

\* The tail rule is kept.
LEMMA TailCoversNext ==
  ASSUME TypeOK, AheadInv, Quiet, TailInv, Next
  PROVE  TailCovers'
<1> USE Numbers, BufferTypes
<1> SUFFICES ASSUME ~dropped', NEW t \in committed', t < tail', NEW b \in mods'[t]
             PROVE  \/ homeWritten'[b] >= t
                    \/ \E u \in committed' : u >= tail' /\ b \in mods'[u]
  BY DEF TailCovers, StoredElsewhere
<1> ~dropped
  BY DroppedStays
<1>1. /\ \A u \in Tid : mods[u] \subseteq mods'[u]
      /\ \A u \in committed : mods'[u] = mods[u]
      /\ committing # 0 => mods'[committing] = mods[committing]
  BY ModsStep DEF AheadInv
<1>2. committed \subseteq committed'
  BY LogStep DEF AheadInv
<1>3. CASE tail' = tail
  <2>1. t \in committed
    <3>1. t \in committed \/ t = committing
      BY ForgetWaits DEF TailInv
    <3>2. t = committing => t = 0 \/ t >= tail
      BY DEF AheadInv, OrderInv, Open
    <3>3. TypeOK'
      BY TypeNext DEF AheadInv
    <3>4. t # 0
      BY <3>3 DEF TypeOK, Tid
    <3>5. t = committing => t >= tail
      BY <3>2, <3>4
    <3> QED
      BY <1>3, <3>1, <3>5
  <2>2. t \in Nat /\ b \in mods[t] /\ b \in Block
    BY <1>1, <2>1
  <2>3. homeWritten[b] >= t \/ \E u \in committed : u >= tail /\ b \in mods[u]
    BY <1>3, <2>1, <2>2 DEF TailInv, TailCovers, StoredElsewhere
  <2>4. homeWritten[b] <= homeWritten'[b] /\ homeWritten[b] \in Nat /\ homeWritten'[b] \in Nat
    BY <2>2, HomeGrows DEF TailInv
  <2>5. homeWritten[b] >= t => homeWritten'[b] >= t
    BY <2>2, <2>4
  <2> QED
    BY <1>1, <1>2, <1>3, <2>3, <2>5
<1>4. CASE tail' = FirstTid /\ ~aborted /\ ~Failing /\ UNCHANGED <<mods, committed, homeWritten>>
  <2>1. t \in committed /\ b \in mods[t] /\ t \in Nat /\ t # 0 /\ b \in Block
    BY <1>4
  <2>2. /\ FirstTid <= Open /\ \A u \in cpTrans : FirstTid <= u
        /\ tail' \in Nat
    BY <1>4, FirstTidOrder, TypeNext, LogStep DEF AheadInv
  <2>3. committing # 0 => tail' <= committing
    BY <1>4, <2>2 DEF Open
  <2>4. homeWritten[b] >= t \/ b_cp_transaction[b] >= t \/ t = committing
    BY <1>4, <2>1 DEF TailInv, CoverInv
  <2>5. t # committing
    BY <2>1, <2>2, <2>3
  <2>6. CASE b_cp_transaction[b] >= t
    <3>1. b_cp_transaction[b] # 0 /\ b_cp_transaction[b] \in Nat
      BY <2>1, <2>6
    <3>2. b_cp_transaction[b] \in cpTrans \cup {committing}
      BY <2>1, <3>1 DEF AheadInv, OrderInv
    <3>3. b_cp_transaction[b] >= tail'
      BY <1>4, <2>2, <2>3, <3>1, <3>2
    <3>4. b_cp_transaction[b] \in committed /\ b \in mods[b_cp_transaction[b]]
      BY <1>4, <2>1, <3>1 DEF TailInv, GrowInv
    <3> QED
      BY <1>4, <3>3, <3>4
  <2> QED
    BY <1>4, <2>4, <2>5, <2>6
<1> QED
  BY <1>3, <1>4, TailSteps DEF TailInv

\* The initial state has nothing to cover.
LEMMA InitTail == Init => TailInv
<1> SUFFICES ASSUME Init
             PROVE  TailInv
  OBVIOUS
<1>2. GrowInv
  BY DEF Init, GrowInv
<1>3. ListInv
  BY DEF Init, ListInv
<1>4. CoverInv /\ TailCovers
  BY DEF Init, CoverInv, TailCovers, StoredElsewhere
<1> QED
  BY <1>2, <1>3, <1>4 DEF TailInv

\* The invariant of the tail rule is inductive.
LEMMA TailNext ==
  ASSUME TypeOK, Quiet, AheadInv, TailInv, [Next]_vars
  PROVE  TailInv'
<1>1. CASE Next
  BY <1>1, GrowNext, ListNext, CoverNext, TailCoversNext DEF TailInv
<1>2. CASE UNCHANGED vars
  <2>1. UNCHANGED <<load, aborted, committing, mods, committed, c_pc, forget, b_cp_transaction, b_io, tail>>
    BY <1>2 DEF vars, txVars, cVars, cpVars
  <2>2. UNCHANGED <<b_data, b_dirty, b_err, b_transaction, k_pc, k_batch, k_err, dropped, homeWritten>>
    BY <1>2 DEF vars, bufVars, kVars, diskVars, homeVars
  <2>3. GrowInv' /\ ListInv'
    BY <2>1, <2>2 DEF TailInv, GrowInv, ListInv, Tried
  <2>4. CoverInv' /\ TailCovers'
    BY <2>1, <2>2 DEF TailInv, CoverInv, TailCovers, StoredElsewhere, Failing
  <2> QED
    BY <2>3, <2>4 DEF TailInv
<1> QED
  BY <1>1, <1>2

\* The tail rule: jbdbf_cleanup_journal_tail passes a committed transaction
\* only when each of its blocks was written in place or is in a later
\* transaction that the log still holds, until memory reclaim takes the buffer of
\* a failed write off its list.  Checkpoints for space and journal flushes are
\* each covered, with writeback and with writes that fail; not both kinds in one
\* workload, where the flush may take the tail past a transaction whose failed
\* write the other checkpoint has noticed but not yet reported.
THEOREM TailRule == Spec => [](Quiet => TailCovers)
<1> DEFINE Inv == TypeOK /\ StartInv /\ (Quiet => AheadInv) /\ (Quiet => TailInv)
<1>1. AheadInv => StartInv
  BY DEF AheadInv
<1>2. Init => Inv
  BY InitType, InitAhead, InitTail
<1>3. Inv /\ [Next]_vars => Inv'
  <2> SUFFICES ASSUME Inv, [Next]_vars
               PROVE  Inv'
    OBVIOUS
  <2>1. TypeOK' /\ StartInv'
    BY TypeNext
  <2>2. (Quiet' => Quiet)
    BY LoadStays DEF Quiet
  <2>3. Quiet' => AheadInv'
    BY <2>2, AheadNext
  <2>4. Quiet' => TailInv'
    BY <2>2, TailNext
  <2> QED
    BY <2>1, <2>3, <2>4
<1>4. Inv => (Quiet => TailCovers)
  BY DEF TailInv
<1> QED
  BY <1>2, <1>3, <1>4, PTL DEF Spec

-----------------------------------------------------------------------------
(* The tail rule on the platter *)

(* Nobody checkpoints but for space. *)
ForSpace == load.callers \subseteq {"space"}

(* Every commit is durable, and the checkpoint alone writes in place. *)
Durably == load.kinds = {"dsync"} /\ ~load.writeback

(* A checkpoint is between its first write and its second flush. *)
Writing == k_pc \in {"scan", "batch", "wait", "out"}

(* The tail rule in memory, with the blocks as the platter has them. *)
DiskCovers ==
  ~dropped => \A t \in committed : t < tail =>
    \A b \in mods[t] : homeDisk[b] >= t \/ \E u \in committed : u >= tail /\ b \in mods[u]

(* Commit records are durable, and outside of a checkpoint so is what was    *)
(* written in place; no superblock is ahead of the tail.                     *)
PlatterInv ==
  /\ w_ready = {}
  /\ c_pc = "log" => c_durable
  /\ committed \subseteq logged
  /\ ~Writing => homeDisk = homeWritten
  /\ \A b \in Block : homeDisk[b] <= homeWritten[b]
  /\ sb.seq <= tail /\ sbDisk.seq <= tail
  /\ DiskCovers

\* Such a workload is one that the write-ahead rule and the tail rule are about.
LEMMA ForSpaceOnly ==
  ASSUME ForSpace
  PROVE  Quiet
BY DEF ForSpace, Quiet

\* The superblock takes the tail, and the platter what was written.
LEMMA SuperStep ==
  ASSUME Next
  PROVE  (sb' = sb \/ sb'.seq = tail) /\ (sbDisk' = sbDisk \/ sbDisk' = sb)
<1> DEFINE P == (sb' = sb \/ sb'.seq = tail) /\ (sbDisk' = sbDisk \/ sbDisk' = sb)
<1>1. CASE UNCHANGED sbVars
  BY <1>1 DEF sbVars
<1>2. ASSUME NEW e, UpdateSuperblock(tail, e)
      PROVE  P
  BY <1>2 DEF UpdateSuperblock, sbVars
<1>3. ASSUME NEW lt, FlushDisk(lt)
      PROVE  P
  BY <1>3 DEF FlushDisk
<1>4. CASE \E kind \in {"osync", "dsync"} : CommitStart(kind)
  BY <1>1, <1>2, <1>4 DEF CommitStart
<1>5. CASE CommitLog
  BY <1>1, <1>3, <1>5 DEF CommitLog
<1>6. CASE KPick \/ KOut
  <2>1. FlushDisk(logTime) \/ UNCHANGED sbVars
    BY <1>6 DEF KPick, KOut, diskVars
  <2> QED
    BY <1>1, <1>3, <2>1
<1>7. CASE KSuper \/ FlushSuper
  BY <1>1, <1>2, <1>7 DEF KSuper, FlushSuper
<1>8. CASE Transactions \/ CommitFinish \/ WaitForSpace \/ \E b \in Block : CommitForget(b)
  BY <1>1, <1>8 DEF Transactions, StartHandle, StartTransaction, Modify, CommitForget, CommitFinish, WaitForSpace, diskVars
<1>9. CASE KTail \/ KScanDone \/ KWaitDone \/ \E b \in Block : KProcess(b) \/ KWrite(b) \/ KWaitIo(b)
  BY <1>1, <1>9 DEF KTail, KScanDone, KWaitDone, KProcess, KWrite, KWaitIo, diskVars
<1>10. CASE FlushBegin \/ FlushCommitted \/ FlushDone \/ FlushTail \/ FlushCheckpoint
  BY <1>1, <1>10 DEF FlushBegin, FlushCommitted, FlushDone, FlushTail, FlushOnly, FlushCheckpoint, diskVars
<1>11. CASE (\E b \in Block : VmTest(b) \/ VmWrite(b) \/ TryToFree(b)) \/ Tick
  BY <1>1, <1>11 DEF VmTest, VmWrite, TryToFree, Tick, diskVars
<1>12. CASE Disk
  BY <1>12 DEF Disk, DestageLog, TearLog, DestageHome, DestageSuper, sbVars
<1>13. P
  BY <1>4, <1>5, <1>6, <1>7, <1>8, <1>9, <1>10, <1>11, <1>12
     DEF Next, Commit, DoCheckpoint, JournalFlush
<1> QED
  BY <1>13

\* Only durable commits are asked for, and a durable commit is logged.
LEMMA DurableNext ==
  ASSUME TypeOK, AheadInv, PlatterInv, Durably, Next
  PROVE  /\ c_pc' = "log" => c_durable'
         /\ committed' \subseteq logged'
<1>1. /\ load' = load /\ logged \subseteq logged' /\ (CommitLog \/ committed' = committed)
  BY LogStep DEF AheadInv
<1>2. CASE \E kind \in {"osync", "dsync"} : CommitStart(kind)
  <2>1. PICK kind \in {"osync", "dsync"} : CommitStart(kind)
    BY <1>2
  <2>2. kind = "dsync" /\ c_durable' = (kind = "dsync") /\ committed' = committed
    BY <2>1 DEF CommitStart, Durably
  <2> QED
    BY <1>1, <2>2 DEF PlatterInv
<1>3. CASE CommitLog
  <2>1. c_pc = "log" /\ c_pc' = "forget" /\ committed' = IF aborted THEN committed ELSE committed \cup {committing}
    BY <1>3 DEF CommitLog
  <2>2. c_durable
    BY <2>1 DEF PlatterInv
  <2>3. ~aborted => committing \in logged'
    BY <1>3, <2>2, CommitLogIs DEF AheadInv
  <2> QED
    BY <1>1, <2>1, <2>3 DEF PlatterInv
<1>4. CASE \E b \in Block : CommitForget(b)
  <2>1. c_pc' = "forget" /\ committed' = committed
    BY <1>4 DEF CommitForget, txVars
  <2> QED
    BY <1>1, <2>1 DEF PlatterInv
<1>5. CASE CommitFinish
  BY <1>1, <1>5 DEF CommitFinish, PlatterInv
<1>6. CASE UNCHANGED <<c_pc, c_durable, committed>>
  BY <1>1, <1>6 DEF PlatterInv
<1>7. CASE Transactions \/ WaitForSpace
  BY <1>6, <1>7 DEF Transactions, StartHandle, StartTransaction, Modify, WaitForSpace, txVars, cVars
<1>8. CASE DoCheckpoint
  BY <1>6, <1>8 DEF DoCheckpoint, KTail, KSuper, KPick, KScanDone, KWaitDone, KOut, KProcess, KWrite, KWaitIo, txVars, cVars
<1>9. CASE FlushBegin \/ JournalFlush
  BY <1>6, <1>9 DEF FlushBegin, JournalFlush, FlushCommitted, FlushDone, FlushTail, FlushSuper, FlushOnly,
     FlushCheckpoint, txVars, cVars
<1>10. CASE (\E b \in Block : VmTest(b) \/ VmWrite(b) \/ TryToFree(b)) \/ Disk \/ Tick
  BY <1>6, <1>10 DEF VmTest, VmWrite, TryToFree, Disk, DestageLog, TearLog, DestageHome, DestageSuper, Tick, txVars, cVars
<1> QED
  BY <1>2, <1>3, <1>4, <1>5, <1>7, <1>8, <1>9, <1>10 DEF Next, Commit

\* A checkpoint for space flushes what it wrote before it goes on.
LEMMA FlushedNext ==
  ASSUME TypeOK, AheadInv, PlatterInv, ForSpace, Durably, Next, ~Writing'
  PROVE  homeDisk' = homeWritten'
<1>1. f_pc = "idle" /\ (k_pc # "idle" => needs_checkpoint)
  BY DEF ForSpace, CallerInv, AheadInv, FlushInv
<1>2. ~Writing => homeDisk = homeWritten
  BY DEF PlatterInv
<1>3. CASE UNCHANGED homeVars /\ (Writing => Writing')
  BY <1>2, <1>3 DEF homeVars
<1>4. CASE CommitLog
  <2>1. UNCHANGED k_pc /\ (UNCHANGED homeVars \/ (homeDisk' = homeWritten /\ homeWritten' = homeWritten))
    BY <1>4 DEF CommitLog, FlushDisk, kVars
  <2> QED
    BY <1>3, <2>1 DEF Writing
<1>5. CASE KPick
  <2>1. k_pc = "pick" /\ k_pc' \in {"scan", "out"}
    BY <1>5 DEF KPick
  <2> QED
    BY <2>1 DEF Writing
<1>6. CASE KOut
  <2>1. FlushDisk(logTime)
    BY <1>1, <1>6 DEF KOut
  <2> QED
    BY <2>1 DEF FlushDisk
<1>7. CASE KTail \/ KSuper
  <2>1. ~Writing /\ UNCHANGED homeVars
    BY <1>7 DEF KTail, KSuper, Writing, diskVars
  <2> QED
    BY <1>2, <2>1 DEF homeVars
<1>8. CASE KScanDone \/ KWaitDone \/ \E b \in Block : KProcess(b) \/ KWrite(b) \/ KWaitIo(b)
  BY <1>8 DEF Writing, KScanDone, KWaitDone, KProcess, KWrite, KWaitIo
<1>9. CASE \E b \in Block : DestageHome(b)
  <2>1. PICK b \in Block : DestageHome(b)
    BY <1>9
  <2>2. UNCHANGED <<k_pc, homeWritten>> /\ homeDisk' = [homeDisk EXCEPT ![b] = homeWritten[b]]
    BY <2>1 DEF DestageHome, kVars
  <2>3. homeDisk = homeWritten
    BY <1>2, <2>2 DEF Writing
  <2>4. homeDisk \in [Block -> OptTid]
    BY DEF TypeOK
  <2> QED
    BY <2>2, <2>3, <2>4
<1>10. CASE Transactions \/ CommitFinish \/ (\E b \in Block : CommitForget(b)) \/ (\E kind \in {"osync", "dsync"} : CommitStart(kind))
  BY <1>3, <1>10 DEF Transactions, StartHandle, StartTransaction, Modify, CommitForget, CommitFinish, CommitStart,
     diskVars, kVars, Writing
<1>11. CASE WaitForSpace
  BY <1>2, <1>11 DEF WaitForSpace, Writing, diskVars, homeVars
<1>12. CASE FlushBegin
  BY <1>12 DEF FlushBegin, ForSpace
<1>13. CASE JournalFlush
  BY <1>1, <1>13 DEF JournalFlush, FlushCommitted, FlushDone, FlushTail, FlushSuper, FlushCheckpoint
<1>14. CASE \E b \in Block : VmTest(b) \/ VmWrite(b) \/ TryToFree(b)
  <2>1. UNCHANGED <<homeVars, k_pc>>
    BY <1>14 DEF VmTest, VmWrite, TryToFree, Durably, PlatterInv, diskVars, kVars
  <2> QED
    BY <1>3, <2>1 DEF Writing
<1>15. CASE (\E t \in Tid : DestageLog(t) \/ TearLog(t)) \/ DestageSuper \/ Tick
  BY <1>3, <1>15 DEF DestageLog, TearLog, DestageSuper, Tick, diskVars, kVars, Writing
<1> QED
  BY <1>4, <1>5, <1>6, <1>7, <1>8, <1>9, <1>10, <1>11, <1>12, <1>13, <1>14, <1>15
     DEF Next, Commit, DoCheckpoint, Disk

\* The platter follows what was written.
LEMMA DiskGrows ==
  ASSUME TypeOK, AheadInv, GrowInv, PlatterInv, Next
  PROVE  \A b \in Block : /\ homeDisk[b] <= homeDisk'[b] /\ homeDisk'[b] <= homeWritten'[b]
                          /\ homeDisk[b] \in Nat /\ homeDisk'[b] \in Nat
                          /\ homeDisk[b] = homeWritten[b] => homeDisk'[b] = homeDisk[b]
<1>1. homeWritten \in [Block -> Nat] /\ homeDisk \in [Block -> Nat]
  BY Numbers DEF TypeOK, OptTid
<1>2. \A b \in Block : homeDisk'[b] \in {homeDisk[b], homeWritten[b]}
  BY HomeStep DEF AheadInv
<1>3. \A b \in Block : homeWritten[b] <= homeWritten'[b] /\ homeWritten'[b] \in Nat
  BY HomeGrows
<1>4. \A b \in Block : homeDisk[b] <= homeWritten[b]
  BY DEF PlatterInv
<1> QED
  BY <1>1, <1>2, <1>3, <1>4

\* The tail rule is kept on the platter.
LEMMA DiskCoversNext ==
  ASSUME TypeOK, AheadInv, Quiet, TailInv, PlatterInv, Next
  PROVE  DiskCovers'
<1> USE Numbers, BufferTypes
<1> SUFFICES ASSUME ~dropped', NEW t \in committed', t < tail', NEW b \in mods'[t]
             PROVE  \/ homeDisk'[b] >= t
                    \/ \E u \in committed' : u >= tail' /\ b \in mods'[u]
  BY DEF DiskCovers
<1> ~dropped
  BY DroppedStays
<1>1. /\ \A u \in Tid : mods[u] \subseteq mods'[u]
      /\ \A u \in committed : mods'[u] = mods[u]
  BY ModsStep DEF AheadInv
<1>2. committed \subseteq committed'
  BY LogStep DEF AheadInv
<1>3. CASE tail' = tail
  <2>1. t \in committed
    <3>1. t \in committed \/ t = committing
      BY ForgetWaits DEF TailInv
    <3>2. t = committing => t = 0 \/ t >= tail
      BY DEF AheadInv, OrderInv, Open
    <3>3. TypeOK'
      BY TypeNext DEF AheadInv
    <3>4. t # 0
      BY <3>3 DEF TypeOK, Tid
    <3>5. t = committing => t >= tail
      BY <3>2, <3>4
    <3> QED
      BY <1>3, <3>1, <3>5
  <2>2. t \in Nat /\ b \in mods[t] /\ b \in Block
    BY <1>1, <2>1
  <2>3. homeDisk[b] >= t \/ \E u \in committed : u >= tail /\ b \in mods[u]
    BY <1>3, <2>1, <2>2 DEF PlatterInv, DiskCovers
  <2>4. homeDisk[b] <= homeDisk'[b] /\ homeDisk[b] \in Nat /\ homeDisk'[b] \in Nat
    BY <2>2, DiskGrows DEF TailInv
  <2>5. homeDisk[b] >= t => homeDisk'[b] >= t
    BY <2>2, <2>4
  <2> QED
    BY <1>1, <1>2, <1>3, <2>3, <2>5
<1>4. CASE UNCHANGED <<mods, committed, homeWritten>> /\ k_pc \in {"idle", "tail"}
  <2>1. b \in Block
    BY <1>4
  <2>2. homeDisk = homeWritten
    BY <1>4 DEF PlatterInv, Writing
  <2>3. homeDisk'[b] = homeWritten'[b]
    BY <1>4, <2>1, <2>2, DiskGrows DEF TailInv
  <2>4. TailCovers'
    BY TailCoversNext
  <2> QED
    BY <2>3, <2>4 DEF TailCovers, StoredElsewhere
<1> QED
  BY <1>3, <1>4, TailSteps DEF TailInv

\* The platter's invariant is inductive.
LEMMA PlatterNext ==
  ASSUME TypeOK, AheadInv, TailInv, PlatterInv, ForSpace, Durably, [Next]_vars
  PROVE  PlatterInv'
<1>1. CASE Next
  <2>1. Quiet
    BY ForSpaceOnly
  <2>2. /\ c_pc' = "log" => c_durable'
        /\ committed' \subseteq logged'
    BY <1>1, DurableNext
  <2>3. ~Writing' => homeDisk' = homeWritten'
    BY <1>1, FlushedNext DEF TailInv
  <2>4. \A b \in Block : homeDisk'[b] <= homeWritten'[b]
    BY <1>1, DiskGrows DEF TailInv
  <2>5. sb'.seq <= tail' /\ sbDisk'.seq <= tail'
    <3>1. tail \in Nat /\ tail' \in Nat /\ tail <= tail'
      BY <1>1, Numbers, LogStep DEF AheadInv
    <3>2. sb.seq \in Nat /\ sbDisk.seq \in Nat
      BY Numbers DEF TypeOK, Super
    <3>3. sb.seq <= tail /\ sbDisk.seq <= tail
      BY DEF PlatterInv
    <3>4. (sb' = sb \/ sb'.seq = tail) /\ (sbDisk' = sbDisk \/ sbDisk' = sb)
      BY <1>1, SuperStep
    <3> QED
      BY <3>1, <3>2, <3>3, <3>4
  <2>6. DiskCovers'
    BY <1>1, <2>1, DiskCoversNext
  <2>7. w_ready' = {}
    <3>1. \A b \in w_ready' : b \in w_ready \/ VmTest(b)
      BY <1>1, ReadyStep
    <3> QED
      BY <3>1 DEF VmTest, Durably, PlatterInv
  <2> QED
    BY <2>2, <2>3, <2>4, <2>5, <2>6, <2>7 DEF PlatterInv
<1>2. CASE UNCHANGED vars
  <2>1. UNCHANGED <<mods, committed, c_pc, c_durable, tail, k_pc>>
    BY <1>2 DEF vars, txVars, cVars, kVars
  <2>2. UNCHANGED <<logged, homeDisk, homeWritten, sb, sbDisk, w_ready, dropped>>
    BY <1>2 DEF vars, diskVars, logVars, homeVars, sbVars, delayVars, bufVars
  <2> QED
    BY <2>1, <2>2 DEF PlatterInv, Writing, DiskCovers
<1> QED
  BY <1>1, <1>2

\* At first there is nothing on the platter.
LEMMA InitPlatter == Init => PlatterInv
<1> SUFFICES ASSUME Init
             PROVE  PlatterInv
  OBVIOUS
<1>1. /\ c_pc = "idle" /\ committed = {} /\ homeDisk = homeWritten /\ homeDisk = [b \in Block |-> 0]
      /\ sb.seq = 1 /\ sbDisk.seq = 1 /\ tail = 1 /\ w_ready = {}
  BY DEF Init
<1> QED
  BY <1>1 DEF PlatterInv, DiskCovers

\* No superblock on the platter is ahead of the tail, which passes only what the
\* platter covers.
LEMMA PlatterIsSafe ==
  ASSUME TypeOK, PlatterInv
  PROVE  TailSafe
<1> USE Numbers
<1> SUFFICES ASSUME ~dropped, NEW t \in committed, t < sbDisk.seq, NEW b \in mods[t]
             PROVE  homeDisk[b] >= t \/ \E u \in logged : u >= sbDisk.seq /\ b \in mods[u]
  BY DEF TailSafe
<1>1. sbDisk.seq \in Nat /\ sbDisk.seq <= tail
  BY DEF TypeOK, Super, PlatterInv
<1>2. t \in Nat /\ t < tail
  BY <1>1
<1>3. homeDisk[b] >= t \/ \E u \in committed : u >= tail /\ b \in mods[u]
  BY <1>2 DEF PlatterInv, DiskCovers
<1>4. \A u \in committed : u \in logged /\ u \in Nat /\ (u >= tail => u >= sbDisk.seq)
  BY <1>1 DEF PlatterInv
<1> QED
  BY <1>3, <1>4

\* The tail rule on the platter: where every commit is durable, nobody writes in
\* place but the checkpoint, and that runs only for space, the journal
\* superblock that a crash finds has dropped no transaction from the log whose
\* blocks are neither in place on the platter nor in a later transaction on the
\* platter's log, unless reclaim took the buffer of a failed write.  The two
\* flushes of jbdbf_log_do_checkpoint suffice for this; a checkpoint for
\* jbdbf_journal_flush makes none, and the rule fails.
THEOREM TailRuleOnPlatter == Spec => [](ForSpace => TailSafe)
<1> DEFINE Inv == /\ TypeOK /\ StartInv /\ (Quiet => AheadInv) /\ (Quiet => TailInv)
                  /\ ForSpace /\ Durably => PlatterInv
<1>1. Init => Inv
  BY InitType, InitAhead, InitTail, InitPlatter
<1>2. Inv /\ [Next]_vars => Inv'
  <2> SUFFICES ASSUME Inv, [Next]_vars
               PROVE  Inv'
    OBVIOUS
  <2>1. TypeOK' /\ StartInv'
    BY TypeNext
  <2>2. (Quiet' => Quiet) /\ (ForSpace' => ForSpace) /\ (Durably' => Durably)
    BY LoadStays DEF Quiet, ForSpace, Durably
  <2>3. Quiet' => AheadInv'
    BY <2>2, AheadNext
  <2>4. Quiet' => TailInv'
    BY <2>2, TailNext
  <2>5. ForSpace' /\ Durably' => PlatterInv'
    BY <2>2, ForSpaceOnly, PlatterNext
  <2> QED
    BY <2>1, <2>3, <2>4, <2>5
<1>3. Inv => (ForSpace => TailSafe)
  <2>1. ~Durably => TailSafe
    BY DEF Durably, TailSafe
  <2> QED
    BY <2>1, PlatterIsSafe
<1> QED
  BY <1>1, <1>2, <1>3, PTL DEF Spec
=============================================================================
