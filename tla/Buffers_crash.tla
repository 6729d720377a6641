---------------------------- MODULE Buffers_crash ----------------------------
(***************************************************************************)
(* What a crash leaves of a block (DataInPlace and Recoverable of Buffers),*)
(* for every set of blocks and processes and any number of transactions    *)
(* and changes.  Struct, of Buffers_proofs, says where a buffer is; here   *)
(* its contents are followed into place and into the log.                  *)
(***************************************************************************)
EXTENDS Buffers_proofs

-----------------------------------------------------------------------------
(* The invariant *)

(* The processes at block b that may change it. *)
Active(p)    == pc[p] \in {"access", "granted", "created", "modified", "new"}
New(b)       == \E p \in Procs : h_buf[p] = b /\ pc[p] = "new"
Taken(b)     == \E p \in Procs : h_buf[p] = b /\ pc[p] \in {"access", "granted", "modified"}
Making(b)    == \E p \in Procs : h_buf[p] = b /\ pc[p] \in {"created", "modified", "new"}
Modifying(b) == \E p \in Procs : h_buf[p] = b /\ pc[p] = "modified"
Cleaned(b)   == \E p \in Procs : h_buf[p] = b /\ pc[p] \in {"access", "granted"} /\ h_dirty[p]

(* Two shapes of the known losses are left out (see Recoverable). *)
Careful == ~Deletes /\ ~Interferes

(* Transactions commit one after the other, and the tail is not past one that has   *)
(* still to commit.                                                                 *)
Order ==
  /\ 0 \in committed
  /\ ~aborted => \A t \in 1 .. last : t \in committed \/ t = running \/ t = committing
  /\ ~aborted /\ phase = "forget" => committing \in committed
  /\ Careful => /\ tail <= last + 1
                /\ running # 0 => tail <= running
                /\ committing # 0 => tail <= committing

(* A block is allocated, truncated and freed in this order. *)
Aged(b) ==
  /\ born[b] <= last /\ orphan[b] <= last /\ freed[b] <= last
  /\ use[b] \in {"off", "free", "used"} => orphan[b] = 0
  /\ use[b] \in {"off", "free"} => born[b] = 0
  /\ use[b] \in {"orphan", "unmapped", "freed"} => orphan[b] # 0
  /\ use[b] = "freed" => orphan[b] <= freed[b]
  /\ orphan[b] # 0 => born[b] <= orphan[b]

(* What is in place is not newer than the buffer, unless the buffer is a new one. *)
Grown(b) ==
  /\ home[b] <= version /\ buf[b].data <= version
  /\ home[b] <= buf[b].data \/ New(b)

(* Data is written in place by the transaction that allocated the block. *)
Dated(b) == buf[b].b_jlist = "Dirtydata" => born[b] = buf[b].b_transaction

(* Writeback may write the buffer in place, now or once its reservation is dropped. *)
Exposed(b) == buf[b].dirty \/ (buf[b].jbddirty /\ buf[b].b_jlist = "Reserved")

(* The append was truncated in its own transaction. *)
Retracted(b, t) == Retracts /\ orphan[b] = t

(* A block that the running transaction appended is on a list of it, and if it has   *)
(* not gone to the metadata list since, the data is dirty or in place, or a process  *)
(* that has taken the dirty bit will file it again.                                  *)
Tagging(b) ==
  /\ b \in tags =>
       /\ running # 0 /\ born[b] = running
       /\ Retracted(b, running) \/ buf[b].b_transaction = running
  /\ b \in tags /\ b \notin wrote =>
       \/ Retracted(b, running)
       \/ /\ buf[b].b_jlist = "Dirtydata"
          /\ buf[b].dirty \/ home[b] = buf[b].data \/ Taken(b)

(* The data that the committing transaction names by a tag is in place, and nothing  *)
(* will be written over it, or the commit has still to issue it.                     *)
Placing(b) ==
  committing # 0 /\ b \in tagged[committing] =>
    /\ born[b] = committing
    /\ \/ Retracted(b, committing)
       \/ /\ home[b] = closed[committing][b] /\ ~Exposed(b)
          /\ buf[b].b_transaction = committing => buf[b].b_jlist = "Dirtydata"
       \/ /\ phase = "data" /\ b \in todo
          /\ buf[b].b_transaction = committing /\ buf[b].b_jlist = "Dirtydata"
          /\ buf[b].dirty /\ buf[b].data = closed[committing][b]

Placed(b) ==
  \A t \in committed \ {0} : b \in tagged[t] => Retracts \/ home[b] >= closed[t][b]

(* A block that was free before the committing transaction began is not one it       *)
(* changed.                                                                          *)
Gone(b) ==
  committing # 0 /\ (use[b] \in {"off", "free"} \/ (use[b] = "freed" /\ freed[b] < committing)) =>
    closed[committing][b] = None

(* A transaction that allocates a block changes it or truncates it. *)
Allotted(b) ==
  /\ running # 0 /\ born[b] = running =>
       b \in wrote \/ b \in tags \/ orphan[b] = running \/ Making(b)
  /\ committing # 0 /\ born[b] = committing =>
       orphan[b] = committing \/ closed[committing][b] # None

(* The block will be truncated once the committing transaction has committed. *)
Doomed(b) == orphan[b] # 0 /\ orphan[b] <= committing

(* The committing transaction has the buffer and will checkpoint it. *)
Has(b) ==
  /\ buf[b].b_transaction = committing
  /\ buf[b].b_jlist \in {"Metadata", "Shadow", "Forget"} /\ buf[b].jbddirty

(* A block that the committing transaction changed stays with it until its commit    *)
(* record is written, with the same contents unless the next transaction changes it; *)
(* it has no other.                                                                  *)
Closing(b) ==
  committing # 0 /\ b \notin tagged[committing] /\ ~Doomed(b) =>
    /\ closed[committing][b] # None =>
         \/ /\ Has(b)
            /\ \/ buf[b].data = closed[committing][b]
               \/ buf[b].b_next_transaction # 0 /\ (buf[b].b_modified \/ buf[b].freed \/ Modifying(b))
         \/ phase = "forget" /\ buf[b].b_transaction # committing
    /\ buf[b].b_transaction = committing => closed[committing][b] # None

(* A buffer that leaves the committing transaction without a checkpoint, or that the *)
(* running one only keeps to forget it, is of a truncated block.                     *)
Marked(b) ==
  /\ /\ committing # 0 /\ buf[b].b_transaction = committing /\ buf[b].freed
     /\ buf[b].b_next_transaction = 0 /\ buf[b].b_jlist # "Dirtydata"
     => Doomed(b)
  /\ running # 0 /\ buf[b].b_transaction = running /\ buf[b].b_jlist = "Forget" => orphan[b] # 0

(* What a crash should leave, and whether recovery will replay it. *)
Contents(b) == IF Newest(b) = 0 THEN 0 ELSE closed[Newest(b)][b]
InLog(b)    == Newest(b) # 0 /\ tail <= Newest(b) /\ log[Newest(b)][b] # None

(* A block is written in place only while recovery can repair it. *)
Saved(b) ==
  Live(b) => /\ home[b] = Contents(b) \/ InLog(b)
             /\ Exposed(b) => InLog(b)

(* Until the newest committed contents are in place the buffer is on the checkpoint  *)
(* list of their transaction, or on the way to it; off the lists it holds just these *)
(* contents, or they are in place, or the write of them failed.                      *)
Pinned(b) ==
  /\ buf[b].b_cp_transaction \in committed
  /\ Live(b) =>
       /\ \/ home[b] = Contents(b)
          \/ buf[b].b_cp_transaction = Newest(b)
          \/ Newest(b) = committing /\ Has(b)
       /\ Exposed(b) => buf[b].b_cp_transaction = Newest(b)
       /\ buf[b].b_jlist \in {"None", "Reserved"} =>
            /\ Exposed(b) => buf[b].data = Contents(b) \/ Modifying(b)
            /\ ~Exposed(b) => home[b] = Contents(b) \/ Cleaned(b) \/ b \in eio

Followed(b) == Aged(b) /\ Grown(b) /\ Dated(b) /\ Placed(b)
Ordered(b)  == Tagging(b) /\ Placing(b) /\ Gone(b) /\ Allotted(b)
Guarded(b)  == Closing(b) /\ Marked(b) /\ Pinned(b)

Good(b) ==
  /\ Followed(b)
  /\ ~aborted => Ordered(b)
  /\ Careful => Saved(b) /\ (~aborted => Guarded(b))

(* A process has new buffers from its own transaction, and has taken the dirty bit   *)
(* of a file block that no commit holds.                                             *)
Begun(p) ==
  /\ pc[p] = "new" => born[h_buf[p]] = running
  /\ ~aborted /\ h_dirty[p] =>
       /\ pc[p] \in {"access", "granted"} /\ h_buf[p] \in Data
       /\ buf[h_buf[p]].b_transaction \in {0, running}

Durable == Struct /\ Order /\ (\A b \in Blocks : Good(b)) /\ (\A p \in Procs : Begun(p))

-----------------------------------------------------------------------------
(* The newest committed contents of a block *)

\* What the variables are at a block.
LEMMA AtBlock ==
  ASSUME Struct, NEW b \in Blocks
  PROVE  /\ running \in Nat /\ committing \in Nat /\ last \in Nat /\ tail \in Nat
         /\ running \in 0 .. MaxTid /\ committing \in 0 .. MaxTid /\ last \in 0 .. MaxTid
         /\ committing # 0 => committing \in Tids
         /\ running # 0 => running \in Tids
         /\ born[b] \in Nat /\ orphan[b] \in Nat /\ freed[b] \in Nat /\ use[b] \in Uses
         /\ home[b] \in Nat /\ version \in Nat /\ buf[b] \in Buffer /\ buf[b].data \in Nat
         /\ \A t \in Tids : closed[t][b] \in Nat \cup {None}
         /\ committed \subseteq Nat /\ committed \subseteq 0 .. MaxTid /\ committed \ {0} \subseteq Tids
         /\ \A t \in Tids : tagged[t] \subseteq Data
         /\ tags \subseteq Data /\ aborted \in BOOLEAN
<1>1. CommitType /\ FsType /\ BufType /\ RestType /\ MaxTid \in Nat
  BY Groups, Constant DEF Struct, Base
<1>2. buf[b] \in Buffer /\ buf[b].data \in Versions
  BY <1>1, Fields DEF BufType
<1>3. Versions \subseteq Nat
  BY Constant DEF Versions
<1>4. /\ running \in 0 .. MaxTid /\ committing \in 0 .. MaxTid /\ last \in 0 .. MaxTid
      /\ committed \subseteq 0 .. MaxTid /\ \A t \in Tids : tagged[t] \subseteq Data
      /\ \A t \in Tids : closed[t][b] \in Versions \cup {None}
  BY <1>1 DEF CommitType
<1>5. /\ born[b] \in 0 .. MaxTid /\ orphan[b] \in 0 .. MaxTid /\ freed[b] \in 0 .. MaxTid
      /\ use[b] \in Uses
  BY <1>1 DEF FsType
<1>6. /\ home[b] \in Versions /\ version \in Versions /\ tail \in 1 .. MaxTid + 1
      /\ tags \subseteq Data /\ aborted \in BOOLEAN
  BY <1>1 DEF RestType
<1>7. /\ running \in Nat /\ committing \in Nat /\ last \in Nat /\ committed \subseteq Nat
      /\ committing # 0 => committing \in Tids
      /\ running # 0 => running \in Tids
      /\ committed \ {0} \subseteq Tids
  BY <1>1, <1>4 DEF Tids
<1>8. born[b] \in Nat /\ orphan[b] \in Nat /\ freed[b] \in Nat /\ tail \in Nat
  BY <1>1, <1>5, <1>6
<1>9. /\ home[b] \in Nat /\ version \in Nat /\ buf[b].data \in Nat
      /\ \A t \in Tids : closed[t][b] \in Nat \cup {None}
  BY <1>2, <1>3, <1>4, <1>6
<1> QED
  BY <1>2, <1>4, <1>5, <1>6, <1>7, <1>8, <1>9

\* Newest is the newest committed transaction that changed the block since it was
\* allocated, if there is one.
LEMMA NewestIs ==
  ASSUME Struct, 0 \in committed, NEW b \in Blocks
  PROVE  /\ Newest(b) \in committed /\ Newest(b) \in Nat
         /\ Newest(b) # 0 => Newest(b) \in Tids /\ Newest(b) >= born[b] /\ closed[Newest(b)][b] # None
         /\ \A t \in committed : t >= born[b] /\ closed[t][b] # None => t <= Newest(b)
<1> DEFINE S == {t \in committed : t = 0 \/ (t >= born[b] /\ closed[t][b] # None)}
<1>1. committed \subseteq 0 .. MaxTid /\ MaxTid \in Nat /\ committed \ {0} \subseteq Tids
  BY AtBlock, Constant
<1>2. S \in SUBSET (0 .. MaxTid) /\ 0 \in S
  BY <1>1
<1>3. Max(S) \in S /\ \A t \in S : Max(S) >= t
  <2> HIDE DEF S
  <2> QED
    BY <1>1, <1>2, MaxIsLargest
<1>4. Newest(b) = Max(S)
  BY DEF Newest
<1>5. \A t \in S : t \in Nat
  BY <1>1
<1> QED
  BY <1>1, <1>3, <1>4, <1>5

\* A transaction that is newer than all that changed the block is not missed.
LEMMA NewestIsLast ==
  ASSUME Struct, 0 \in committed, NEW b \in Blocks, NEW t \in committed, t # 0,
         t >= born[b], closed[t][b] # None, \A u \in committed : u <= t
  PROVE  Newest(b) = t
<1>1. /\ Newest(b) \in committed /\ Newest(b) \in Nat /\ t <= Newest(b)
  BY NewestIs
<1>2. t \in Nat /\ Newest(b) <= t
  BY <1>1, AtBlock
<1> QED
  BY <1>1, <1>2

\* What a crash should leave stays the same, and so does what recovery replays.
LEMMA SteadyNewest ==
  ASSUME Struct, 0 \in committed, NEW b \in Blocks,
         committed' = committed, born'[b] = born[b],
         \A t \in committed \ {0} : closed'[t][b] = closed[t][b] /\ log'[t][b] = log[t][b]
  PROVE  /\ Newest(b)' = Newest(b) /\ Contents(b)' = Contents(b)
         /\ tail' = tail => (InLog(b)' <=> InLog(b))
<1>1. {t \in committed : t = 0 \/ (t >= born[b] /\ closed[t][b] # None)}
      = {t \in committed' : t = 0 \/ (t >= born'[b] /\ closed'[t][b] # None)}
  OBVIOUS
<1>2. Newest(b)' = Newest(b)
  BY <1>1 DEF Newest
<1>3. Newest(b) \in committed
  BY NewestIs
<1>4. Newest(b) # 0 => /\ closed'[Newest(b)][b] = closed[Newest(b)][b]
                       /\ log'[Newest(b)][b] = log[Newest(b)][b]
  BY <1>3
<1>5. Contents(b)' = Contents(b)
  BY <1>2, <1>4 DEF Contents
<1>6. tail' = tail => (InLog(b)' <=> InLog(b))
  BY <1>2, <1>4 DEF InLog
<1> QED
  BY <1>2, <1>5, <1>6

-----------------------------------------------------------------------------
(* Steps that leave a block alone *)

(* No transaction begins, goes on in its commit or ends, and no tail moves. *)
Calm ==
  /\ UNCHANGED <<running, committing, last, phase, committed, closed, tagged, aborted, tail>>
  /\ version' \in Nat /\ version' >= version

(* The block and its buffer. *)
Same(c) ==
  /\ buf'[c] = buf[c] /\ home'[c] = home[c]
  /\ use'[c] = use[c] /\ born'[c] = born[c] /\ orphan'[c] = orphan[c] /\ freed'[c] = freed[c]
  /\ c \in wrote' <=> c \in wrote
  /\ c \in tags' <=> c \in tags
  /\ c \in todo' <=> c \in todo
  /\ c \in eio' <=> c \in eio
  /\ \A t \in committed \ {0} : log'[t][c] = log[t][c]

(* The processes at the block. *)
Undisturbed(c) ==
  \A q \in Procs : Active(q) /\ h_buf[q] = c =>
    pc'[q] = pc[q] /\ h_buf'[q] = h_buf[q] /\ h_dirty'[q] = h_dirty[q]

\* Processes that are not disturbed are still there.
LEMMA StillThere ==
  ASSUME NEW c, Undisturbed(c)
  PROVE  /\ New(c) => New(c)'
         /\ Taken(c) => Taken(c)'
         /\ Making(c) => Making(c)'
         /\ Modifying(c) => Modifying(c)'
         /\ Cleaned(c) => Cleaned(c)'
BY DEF Undisturbed, Active, New, Taken, Making, Modifying, Cleaned

\* Nothing happens to a block.
LEMMA Frame ==
  ASSUME Durable, NEW c \in Blocks, Calm, Same(c), Undisturbed(c)
  PROVE  Good(c)'
<1>1. /\ UNCHANGED <<running, committing, last, phase, committed, closed, tagged, aborted, tail>>
      /\ version' >= version
  BY DEF Calm
<1>2. /\ buf'[c] = buf[c] /\ home'[c] = home[c]
      /\ use'[c] = use[c] /\ born'[c] = born[c] /\ orphan'[c] = orphan[c] /\ freed'[c] = freed[c]
      /\ c \in wrote' <=> c \in wrote
      /\ c \in tags' <=> c \in tags
      /\ c \in todo' <=> c \in todo
      /\ c \in eio' <=> c \in eio
  BY DEF Same
<1>3. /\ New(c) => New(c)'
      /\ Taken(c) => Taken(c)'
      /\ Making(c) => Making(c)'
      /\ Modifying(c) => Modifying(c)'
      /\ Cleaned(c) => Cleaned(c)'
  BY StillThere
<1>4. Good(c) /\ Struct /\ 0 \in committed
  BY DEF Durable, Order
<1>5. Newest(c)' = Newest(c) /\ Contents(c)' = Contents(c) /\ (InLog(c)' <=> InLog(c))
  BY <1>1, <1>2, <1>4, SteadyNewest DEF Same
<1>6. Followed(c)'
  <2>1. version \in Nat /\ home[c] \in Nat /\ buf[c].data \in Nat /\ version' \in Int
    BY <1>4, AtBlock DEF Calm
  <2> QED
    BY <1>1, <1>2, <1>3, <1>4, <2>1 DEF Good, Followed, Aged, Grown, Dated, Placed
<1>7. (Exposed(c)' <=> Exposed(c)) /\ (Has(c)' <=> Has(c)) /\ (Doomed(c)' <=> Doomed(c)) /\ (Live(c)' <=> Live(c))
  BY <1>1, <1>2 DEF Exposed, Has, Doomed, Live
<1>8. ~aborted => Ordered(c)'
  <2> SUFFICES ASSUME ~aborted PROVE Ordered(c)'
    OBVIOUS
  <2>1. Tagging(c) /\ Placing(c) /\ Gone(c) /\ Allotted(c)
    BY <1>4 DEF Good, Ordered
  <2>2. Tagging(c)'
    BY <1>1, <1>2, <1>3, <2>1 DEF Tagging, Retracted
  <2>3. Placing(c)'
    BY <1>1, <1>2, <1>7, <2>1 DEF Placing, Retracted
  <2>4. Gone(c)'
    BY <1>1, <1>2, <2>1 DEF Gone
  <2>5. Allotted(c)'
    BY <1>1, <1>2, <1>3, <2>1 DEF Allotted
  <2> QED
    BY <2>2, <2>3, <2>4, <2>5 DEF Ordered
<1>9. Careful => Saved(c)'
  BY <1>1, <1>2, <1>4, <1>5, <1>7 DEF Good, Saved
<1>10. Careful /\ ~aborted => Guarded(c)'
  <2> SUFFICES ASSUME Careful, ~aborted PROVE Guarded(c)'
    OBVIOUS
  <2>1. Closing(c) /\ Marked(c) /\ Pinned(c)
    BY <1>4 DEF Good, Guarded
  <2>2. Closing(c)'
    BY <1>1, <1>2, <1>3, <1>7, <2>1 DEF Closing
  <2>3. Marked(c)'
    BY <1>1, <1>2, <1>7, <2>1 DEF Marked
  <2>4. Pinned(c)'
    BY <1>1, <1>2, <1>3, <1>5, <1>7, <2>1 DEF Pinned
  <2> QED
    BY <2>2, <2>3, <2>4 DEF Guarded
<1> QED
  BY <1>1, <1>6, <1>8, <1>9, <1>10 DEF Good

\* A step that is about one block.
LEMMA OneBlock ==
  ASSUME Durable, Struct', NEW b \in Blocks, Calm,
         \A c \in Blocks \ {b} : Same(c) /\ Undisturbed(c),
         Good(b)', \A q \in Procs : Begun(q)'
  PROVE  Durable'
<1>1. Order'
  BY DEF Durable, Order, Calm
<1>2. ASSUME NEW c \in Blocks PROVE Good(c)'
  BY Frame
<1> QED
  BY <1>1, <1>2 DEF Durable

\* A process that does nothing, or is woken, keeps what it has.
LEMMA BegunFrame ==
  ASSUME Durable, NEW q \in Procs, NEW b \in Blocks, Touches(b), UNCHANGED <<running, aborted>>,
         pc'[q] = pc[q] \/ (pc[q] = "asleep" /\ pc'[q] = "shadow"),
         h_buf'[q] = h_buf[q], h_dirty'[q] = h_dirty[q],
         \A c \in Blocks \ {b} : born'[c] = born[c],
         h_buf[q] = b /\ pc[q] = "new" => born'[b] = born[b],
         h_buf[q] = b /\ h_dirty[q] /\ buf[b].b_transaction \in {0, running} =>
           buf'[b].b_transaction \in {0, running}
  PROVE  Begun(q)'
<1>1. Begun(q) /\ Base
  BY DEF Durable, Struct
<1>2. Works(q) => h_buf[q] \in Blocks
  BY <1>1, Working DEF Works
<1>3. pc'[q] = "new" => born'[h_buf'[q]] = running'
  BY <1>1, <1>2 DEF Begun, Works
<1>4. ASSUME ~aborted', h_dirty'[q]
      PROVE  /\ pc'[q] \in {"access", "granted"} /\ h_buf'[q] \in Data
             /\ buf'[h_buf'[q]].b_transaction \in {0, running'}
  <2>1. /\ pc[q] \in {"access", "granted"} /\ h_buf[q] \in Data
        /\ buf[h_buf[q]].b_transaction \in {0, running}
    BY <1>1, <1>4 DEF Begun
  <2>2. h_buf[q] \in Blocks
    BY <2>1, Constant
  <2> QED
    BY <1>4, <2>1, <2>2 DEF Touches
<1> QED
  BY <1>3, <1>4 DEF Begun

\* The processes at a block before and after a step of one process.
LEMMA Others ==
  ASSUME NEW p \in Procs, NEW b,
         \A q \in Procs \ {p} : pc'[q] = pc[q] /\ h_buf'[q] = h_buf[q] /\ h_dirty'[q] = h_dirty[q]
  PROVE  /\ New(b) => New(b)' \/ (h_buf[p] = b /\ pc[p] = "new")
         /\ Taken(b) => Taken(b)' \/ (h_buf[p] = b /\ pc[p] \in {"access", "granted", "modified"})
         /\ Making(b) => Making(b)' \/ (h_buf[p] = b /\ pc[p] \in {"created", "modified", "new"})
         /\ Modifying(b) => Modifying(b)' \/ (h_buf[p] = b /\ pc[p] = "modified")
         /\ Cleaned(b) => Cleaned(b)' \/ (h_buf[p] = b /\ pc[p] \in {"access", "granted"} /\ h_dirty[p])
         /\ h_buf'[p] = b =>
              /\ pc'[p] = "new" => New(b)'
              /\ pc'[p] \in {"access", "granted", "modified"} => Taken(b)'
              /\ pc'[p] \in {"created", "modified", "new"} => Making(b)'
              /\ pc'[p] = "modified" => Modifying(b)'
              /\ pc'[p] \in {"access", "granted"} /\ h_dirty'[p] => Cleaned(b)'
BY DEF New, Taken, Making, Modifying, Cleaned

\* A step of a process on a block.
LEMMA ProcStep ==
  ASSUME Durable, Struct', NEW p \in Procs, NEW b \in Blocks, Calm, Touches(b),
         \A c \in Blocks \ {b} : Same(c),
         Active(p) => h_buf[p] = b,
         \A q \in Procs \ {p} : pc'[q] = pc[q] /\ h_buf'[q] = h_buf[q] /\ h_dirty'[q] = h_dirty[q],
         born'[b] = born[b] \/ \A q \in Procs : ~(Works(q) /\ h_buf[q] = b),
         buf[b].b_transaction \in {0, running} => buf'[b].b_transaction \in {0, running},
         Good(b)', Begun(p)'
  PROVE  Durable'
<1>1. ASSUME NEW c \in Blocks \ {b} PROVE Undisturbed(c)
  BY <1>1 DEF Undisturbed
<1>2. ASSUME NEW q \in Procs PROVE Begun(q)'
  <2>1. CASE q = p
    BY <2>1
  <2>2. CASE q # p
    <3>1. UNCHANGED <<running, aborted>> /\ \A c \in Blocks \ {b} : born'[c] = born[c]
      BY DEF Calm, Same
    <3>2. h_buf[q] = b /\ pc[q] = "new" => born'[b] = born[b]
      BY DEF Works
    <3> QED
      BY <2>2, <3>1, <3>2, BegunFrame
  <2> QED
    BY <2>1, <2>2
<1> QED
  BY <1>1, <1>2, OneBlock

\* A step of the journal thread or of writeback on a block.
LEMMA ThreadStep ==
  ASSUME Durable, Struct', NEW b \in Blocks, Calm, Touches(b),
         \A c \in Blocks \ {b} : Same(c), born'[b] = born[b],
         UNCHANGED <<h_buf, h_dirty>>,
         \A q \in Procs : pc'[q] = pc[q] \/ (pc[q] = "asleep" /\ pc'[q] = "shadow"),
         \/ buf[b].b_transaction \in {0, running} => buf'[b].b_transaction \in {0, running}
         \/ At(b) = {},
         Good(b)'
  PROVE  Durable'
<1>1. ASSUME NEW c \in Blocks \ {b} PROVE Undisturbed(c)
  BY DEF Undisturbed, Active
<1>2. ASSUME NEW q \in Procs PROVE Begun(q)'
  <2>1. UNCHANGED <<running, aborted>> /\ \A c \in Blocks \ {b} : born'[c] = born[c]
    BY DEF Calm, Same
  <2>2. At(b) = {} => h_buf[q] # b
    BY DEF At
  <2>3. h_buf'[q] = h_buf[q] /\ h_dirty'[q] = h_dirty[q]
    OBVIOUS
  <2> QED
    BY <2>1, <2>2, <2>3, BegunFrame
<1> QED
  BY <1>1, <1>2, OneBlock

\* What is known of a block.
LEMMA Known ==
  ASSUME Durable, NEW b \in Blocks
  PROVE  /\ Struct /\ Base /\ Order /\ 0 \in committed
         /\ Listed(b) /\ (~aborted => Bits(b)) /\ Traced(b) /\ Kept(b) /\ Clean(b)
         /\ Aged(b) /\ Grown(b) /\ Dated(b) /\ Placed(b)
         /\ ~aborted => Tagging(b) /\ Placing(b) /\ Gone(b) /\ Allotted(b)
         /\ Careful => Saved(b)
         /\ Careful /\ ~aborted => Closing(b) /\ Marked(b) /\ Pinned(b)
BY DEF Durable, Order, Struct, ListInv, Sound, Good, Followed, Ordered, Guarded

\* The numbers of transactions.
LEMMA Tidy ==
  ASSUME Struct
  PROVE  /\ running # 0 => running = last /\ running # committing /\ running \notin committed
         /\ running # 0 /\ committing # 0 => committing < running
         /\ committing # 0 => committing <= last
         /\ \A t \in committed : t <= last /\ (running # 0 => t < running)
                                 /\ (committing # 0 => t <= committing)
         /\ committing # 0 /\ committing \in committed => phase = "forget"
         /\ committing = 0 <=> phase \in {"none", "locked"}
<1>1. CommitType /\ TidInv /\ MaxTid \in Nat
  BY Groups, Constant DEF Struct, Base
<1> QED
  BY <1>1 DEF CommitType, TidInv

-----------------------------------------------------------------------------
(* do_get_write_access keeps the contents. *)

\* A buffer that is in a transaction is handed out, or the process has to wait: the
\* buffer is not dirty, and stays where it is.
LEMMA Handed ==
  ASSUME Durable, Struct', NEW p \in Procs, NEW b \in Blocks, h_buf[p] = b, pc[p] = "access", ~aborted,
         buf[b].b_transaction # 0, Touches(b),
         UNCHANGED <<running, committing, last, phase, todo, committed, closed, tagged>>,
         UNCHANGED <<aborted, tail, home, log, version, wrote, tags, use, born, orphan, freed, eio>>,
         UNCHANGED <<h_buf, h_dirty>>,
         \A q \in Procs \ {p} : pc'[q] = pc[q],
         pc'[p] = "granted" \/ (pc'[p] \in {"alloc", "shadow"} /\ buf[b].b_transaction = committing),
         buf'[b].b_transaction = buf[b].b_transaction, buf'[b].b_jlist = buf[b].b_jlist,
         buf'[b].b_cp_transaction = buf[b].b_cp_transaction, buf'[b].data = buf[b].data,
         ~buf'[b].dirty, buf'[b].jbddirty = (buf[b].jbddirty \/ buf[b].dirty),
         buf'[b].freed = buf[b].freed,
         \/ /\ buf'[b].b_next_transaction = buf[b].b_next_transaction
            /\ buf'[b].b_modified = buf[b].b_modified
         \/ buf[b].b_next_transaction = 0 /\ buf[b].b_transaction = committing
  PROVE  Durable'
<1> DEFINE s == buf[b]
           r == buf'[b]
<1>1. /\ Struct /\ Base /\ Order /\ 0 \in committed
      /\ Listed(b) /\ Bits(b) /\ Traced(b)
      /\ Aged(b) /\ Grown(b) /\ Dated(b) /\ Placed(b)
      /\ Tagging(b) /\ Placing(b) /\ Gone(b) /\ Allotted(b)
      /\ Careful => Saved(b)
      /\ Careful => Closing(b) /\ Marked(b) /\ Pinned(b)
  BY Known
<1>2. /\ use[b] = "used" /\ running # 0 /\ s \in Buffer /\ version \in Nat
      /\ running # committing /\ orphan[b] = 0
  BY <1>1, Working, AtBlock, Tidy DEF Aged
<1>3. Waiting(p) /\ Works(p) /\ (s.b_jlist = "Dirtydata" => ~s.dirty)
  <2>1. Waiting(p) /\ Works(p)
    BY DEF Waiting, Works
  <2> QED
    BY <1>1, <2>1 DEF Struct, OwnInv, Owner
<1>4. ~s.dirty
  <2>1. s.b_jlist \in Lists
    BY <1>2, Fields
  <2> QED
    BY <1>1, <1>3, <2>1 DEF Listed, Lists
<1>5. ~r.dirty /\ (r.jbddirty <=> s.jbddirty)
  BY <1>4
<1>6. Calm /\ \A c \in Blocks \ {b} : Same(c)
  BY <1>2 DEF Calm, Same, Touches
<1>7. h_dirty[p] => s.b_transaction # committing
  BY <1>1, <1>2 DEF Durable, Begun
<1>8. /\ \A q \in Procs \ {p} : pc'[q] = pc[q] /\ h_buf'[q] = h_buf[q] /\ h_dirty'[q] = h_dirty[q]
      /\ h_buf'[p] = b /\ h_dirty'[p] = h_dirty[p]
  OBVIOUS
<1>9. /\ New(b) => New(b)'
      /\ Making(b) => Making(b)'
      /\ Modifying(b) => Modifying(b)'
      /\ Taken(b) => Taken(b)' \/ s.b_transaction = committing
      /\ Cleaned(b) => Cleaned(b)'
  BY <1>7, <1>8, Others
<1>10. Newest(b)' = Newest(b) /\ Contents(b)' = Contents(b) /\ (InLog(b)' <=> InLog(b))
  BY <1>1, SteadyNewest
<1>11. /\ Exposed(b)' <=> Exposed(b)
       /\ Has(b)' <=> Has(b)
       /\ Doomed(b)' <=> Doomed(b)
       /\ Live(b)' <=> Live(b)
  BY <1>4, <1>5 DEF Exposed, Has, Doomed, Live
<1>12. Followed(b)'
  BY <1>1, <1>9 DEF Followed, Aged, Grown, Dated, Placed
<1>13. Ordered(b)'
  <2>1. Tagging(b)'
    BY <1>1, <1>2, <1>4, <1>5, <1>9 DEF Tagging, Retracted
  <2>2. Placing(b)'
    BY <1>1, <1>5, <1>4, <1>11 DEF Placing, Retracted
  <2>3. Gone(b)' /\ Allotted(b)'
    BY <1>1, <1>9 DEF Gone, Allotted
  <2> QED
    BY <2>1, <2>2, <2>3 DEF Ordered
<1>14. Careful => Saved(b)'
  BY <1>1, <1>10, <1>11 DEF Saved
<1>15. Careful => Guarded(b)'
  <2>1. Careful => Closing(b)'
    BY <1>1, <1>9, <1>11 DEF Closing
  <2>2. Careful => Marked(b)'
    BY <1>1, <1>2, <1>11 DEF Marked, Traced
  <2>3. Careful => Pinned(b)'
    BY <1>1, <1>9, <1>10, <1>11 DEF Pinned
  <2> QED
    BY <2>1, <2>2, <2>3 DEF Guarded
<1>16. Begun(p)'
  BY <1>1, <1>7 DEF Durable, Begun
<1> QED
  BY <1>3, <1>6, <1>8, <1>12, <1>13, <1>14, <1>15, <1>16, ProcStep DEF Good

\* The transaction has the buffer.
LEMMA OwnedGood ==
  ASSUME Durable, Struct', NEW p \in Procs, AccessOwned(p)
  PROVE  Durable'
<1>1. Struct /\ Base
  BY DEF Durable, Struct
<1>2. PICK b \in Blocks : h_buf[p] = b
  BY <1>1, OwnedEffect
<1>3. Listed(b) /\ (~aborted => Bits(b))
  BY Known
<1>4. pc[p] = "access" /\ ~aborted
  BY DEF AccessOwned, Older
<1>5. h_tid[p] = running /\ running # 0 /\ buf[b] \in Buffer /\ running # committing
  BY <1>1, <1>2, <1>4, Working, Tidy
<1>6. buf[b].b_transaction # 0
  BY <1>2, <1>3, <1>4, <1>5, Fields DEF AccessOwned, Older, Owned, Listed, Bits
<1>7. /\ UNCHANGED <<running, committing, last, phase, todo, committed, closed, tagged>>
      /\ UNCHANGED <<aborted, tail, home, log, version, wrote, tags, use, born, orphan, freed, eio>>
      /\ UNCHANGED <<h_buf, h_dirty>> /\ pc' = [pc EXCEPT ![p] = "granted"]
  BY DEF AccessOwned, Granted, Goto, accessUnchanged, commitVars, blockVars
<1>8. pc'[p] = "granted" /\ \A q \in Procs \ {p} : pc'[q] = pc[q]
  BY <1>1, <1>7, Groups DEF Base, ProcType
<1>9. /\ Touches(b)
      /\ buf'[b].b_transaction = buf[b].b_transaction /\ buf'[b].b_jlist = buf[b].b_jlist
      /\ buf'[b].b_cp_transaction = buf[b].b_cp_transaction /\ buf'[b].data = buf[b].data
      /\ ~buf'[b].dirty /\ buf'[b].jbddirty = (buf[b].jbddirty \/ buf[b].dirty)
      /\ buf'[b].freed = buf[b].freed
      /\ buf'[b].b_next_transaction = buf[b].b_next_transaction
      /\ buf'[b].b_modified = buf[b].b_modified
  BY <1>1, <1>2, OwnedEffect
<1> QED
  BY <1>2, <1>4, <1>6, <1>7, <1>8, <1>9, Handed

\* There is a copy for the committing transaction.
LEMMA FrozenGood ==
  ASSUME Durable, Struct', NEW p \in Procs, AccessFrozen(p)
  PROVE  Durable'
<1>1. Struct /\ Base
  BY DEF Durable, Struct
<1>2. PICK b \in Blocks : h_buf[p] = b
  BY <1>1, FrozenEffect
<1>3. Listed(b) /\ (~aborted => Bits(b))
  BY Known
<1>4. pc[p] = "access" /\ ~aborted
  BY DEF AccessFrozen, Older
<1>5. h_tid[p] = running /\ running # 0 /\ buf[b] \in Buffer /\ running # committing
  BY <1>1, <1>2, <1>4, Working, Tidy
<1>6. buf[b].b_transaction = committing /\ buf[b].b_transaction # 0 /\ buf[b].b_next_transaction = 0
  BY <1>2, <1>3, <1>4, <1>5, Fields DEF AccessFrozen, Older, Owned, Listed, Bits
<1>7. /\ UNCHANGED <<running, committing, last, phase, todo, committed, closed, tagged>>
      /\ UNCHANGED <<aborted, tail, home, log, version, wrote, tags, use, born, orphan, freed, eio>>
      /\ UNCHANGED <<h_buf, h_dirty>> /\ pc' = [pc EXCEPT ![p] = "granted"]
  BY DEF AccessFrozen, Granted, Goto, accessUnchanged, commitVars, blockVars
<1>8. pc'[p] = "granted" /\ \A q \in Procs \ {p} : pc'[q] = pc[q]
  BY <1>1, <1>7, Groups DEF Base, ProcType
<1>9. /\ Touches(b)
      /\ buf'[b].b_transaction = buf[b].b_transaction /\ buf'[b].b_jlist = buf[b].b_jlist
      /\ buf'[b].b_cp_transaction = buf[b].b_cp_transaction /\ buf'[b].data = buf[b].data
      /\ ~buf'[b].dirty /\ buf'[b].jbddirty = (buf[b].jbddirty \/ buf[b].dirty)
      /\ buf'[b].freed = buf[b].freed
  BY <1>1, <1>2, FrozenEffect
<1> QED
  BY <1>2, <1>4, <1>6, <1>7, <1>8, <1>9, Handed

\* The committing transaction has logged the buffer.
LEMMA ForgetGood ==
  ASSUME Durable, Struct', NEW p \in Procs, AccessForget(p)
  PROVE  Durable'
<1>1. Struct /\ Base
  BY DEF Durable, Struct
<1>2. PICK b \in Blocks : h_buf[p] = b
  BY <1>1, ForgetEffect
<1>3. Listed(b) /\ (~aborted => Bits(b))
  BY Known
<1>4. pc[p] = "access" /\ ~aborted
  BY DEF AccessForget, Older
<1>5. h_tid[p] = running /\ running # 0 /\ buf[b] \in Buffer /\ running # committing
  BY <1>1, <1>2, <1>4, Working, Tidy
<1>6. buf[b].b_transaction = committing /\ buf[b].b_transaction # 0 /\ buf[b].b_next_transaction = 0
  BY <1>2, <1>3, <1>4, <1>5, Fields DEF AccessForget, Older, Owned, Listed, Bits
<1>7. /\ UNCHANGED <<running, committing, last, phase, todo, committed, closed, tagged>>
      /\ UNCHANGED <<aborted, tail, home, log, version, wrote, tags, use, born, orphan, freed, eio>>
      /\ UNCHANGED <<h_buf, h_dirty>> /\ pc' = [pc EXCEPT ![p] = "granted"]
  BY DEF AccessForget, Granted, Goto, accessUnchanged, commitVars, blockVars
<1>8. pc'[p] = "granted" /\ \A q \in Procs \ {p} : pc'[q] = pc[q]
  BY <1>1, <1>7, Groups DEF Base, ProcType
<1>9. /\ Touches(b)
      /\ buf'[b].b_transaction = buf[b].b_transaction /\ buf'[b].b_jlist = buf[b].b_jlist
      /\ buf'[b].b_cp_transaction = buf[b].b_cp_transaction /\ buf'[b].data = buf[b].data
      /\ ~buf'[b].dirty /\ buf'[b].jbddirty = (buf[b].jbddirty \/ buf[b].dirty)
      /\ buf'[b].freed = buf[b].freed
  BY <1>1, <1>2, ForgetEffect
<1> QED
  BY <1>2, <1>4, <1>6, <1>7, <1>8, <1>9, Handed

\* The copy is made now.
LEMMA CopyGood ==
  ASSUME Durable, Struct', NEW p \in Procs, AccessCopy(p)
  PROVE  Durable'
<1>1. Struct /\ Base
  BY DEF Durable, Struct
<1>2. PICK b \in Blocks : h_buf[p] = b
  BY <1>1, CopyEffect
<1>3. Listed(b) /\ (~aborted => Bits(b))
  BY Known
<1>4. pc[p] = "access" /\ ~aborted
  BY DEF AccessCopy, Older
<1>5. h_tid[p] = running /\ running # 0 /\ buf[b] \in Buffer /\ running # committing
  BY <1>1, <1>2, <1>4, Working, Tidy
<1>6. buf[b].b_transaction = committing /\ buf[b].b_transaction # 0 /\ buf[b].b_next_transaction = 0
  BY <1>2, <1>3, <1>4, <1>5, Fields DEF AccessCopy, Older, Owned, Listed, Bits
<1>7. /\ UNCHANGED <<running, committing, last, phase, todo, committed, closed, tagged>>
      /\ UNCHANGED <<aborted, tail, home, log, version, wrote, tags, use, born, orphan, freed, eio>>
      /\ UNCHANGED <<h_buf, h_dirty>> /\ pc' = [pc EXCEPT ![p] = "granted"]
  BY DEF AccessCopy, Granted, Goto, accessUnchanged, commitVars, blockVars
<1>8. pc'[p] = "granted" /\ \A q \in Procs \ {p} : pc'[q] = pc[q]
  BY <1>1, <1>7, Groups DEF Base, ProcType
<1>9. /\ Touches(b)
      /\ buf'[b].b_transaction = buf[b].b_transaction /\ buf'[b].b_jlist = buf[b].b_jlist
      /\ buf'[b].b_cp_transaction = buf[b].b_cp_transaction /\ buf'[b].data = buf[b].data
      /\ ~buf'[b].dirty /\ buf'[b].jbddirty = (buf[b].jbddirty \/ buf[b].dirty)
      /\ buf'[b].freed = buf[b].freed
  BY <1>1, <1>2, CopyEffect
<1> QED
  BY <1>2, <1>4, <1>6, <1>7, <1>8, <1>9, Handed

\* A copy has to be allocated first.
LEMMA AllocGood ==
  ASSUME Durable, Struct', NEW p \in Procs, AccessAlloc(p)
  PROVE  Durable'
<1>1. Struct /\ Base
  BY DEF Durable, Struct
<1>2. PICK b \in Blocks : h_buf[p] = b
  BY <1>1, AllocEffect
<1>3. Listed(b) /\ (~aborted => Bits(b))
  BY Known
<1>4. pc[p] = "access" /\ ~aborted
  BY DEF AccessAlloc, Older
<1>5. h_tid[p] = running /\ running # 0 /\ buf[b] \in Buffer /\ running # committing
  BY <1>1, <1>2, <1>4, Working, Tidy
<1>6. buf[b].b_transaction = committing /\ buf[b].b_transaction # 0 /\ buf[b].b_next_transaction = 0
  BY <1>2, <1>3, <1>4, <1>5, Fields DEF AccessAlloc, Older, Owned, Listed, Bits
<1>7. /\ UNCHANGED <<running, committing, last, phase, todo, committed, closed, tagged>>
      /\ UNCHANGED <<aborted, tail, home, log, version, wrote, tags, use, born, orphan, freed, eio>>
      /\ UNCHANGED <<h_buf, h_dirty>> /\ pc' = [pc EXCEPT ![p] = "alloc"]
  BY DEF AccessAlloc, Granted, Goto, accessUnchanged, commitVars, blockVars
<1>8. pc'[p] = "alloc" /\ \A q \in Procs \ {p} : pc'[q] = pc[q]
  BY <1>1, <1>7, Groups DEF Base, ProcType
<1>9. /\ Touches(b)
      /\ buf'[b].b_transaction = buf[b].b_transaction /\ buf'[b].b_jlist = buf[b].b_jlist
      /\ buf'[b].b_cp_transaction = buf[b].b_cp_transaction /\ buf'[b].data = buf[b].data
      /\ ~buf'[b].dirty /\ buf'[b].jbddirty = (buf[b].jbddirty \/ buf[b].dirty)
      /\ buf'[b].freed = buf[b].freed
  BY <1>1, <1>2, AllocEffect
<1> QED
  BY <1>2, <1>4, <1>6, <1>7, <1>8, <1>9, Handed

\* The log I/O reads the buffer.
LEMMA ShadowGood ==
  ASSUME Durable, Struct', NEW p \in Procs, AccessShadow(p)
  PROVE  Durable'
<1>1. Struct /\ Base
  BY DEF Durable, Struct
<1>2. PICK b \in Blocks : h_buf[p] = b
  BY <1>1, ShadowEffect
<1>3. Listed(b) /\ (~aborted => Bits(b))
  BY Known
<1>4. pc[p] = "access" /\ ~aborted
  BY DEF AccessShadow, Older
<1>5. h_tid[p] = running /\ running # 0 /\ buf[b] \in Buffer /\ running # committing
  BY <1>1, <1>2, <1>4, Working, Tidy
<1>6. buf[b].b_transaction = committing /\ buf[b].b_transaction # 0 /\ buf[b].b_next_transaction = 0
  BY <1>2, <1>3, <1>4, <1>5, Fields DEF AccessShadow, Older, Owned, Listed, Bits
<1>7. /\ UNCHANGED <<running, committing, last, phase, todo, committed, closed, tagged>>
      /\ UNCHANGED <<aborted, tail, home, log, version, wrote, tags, use, born, orphan, freed, eio>>
      /\ UNCHANGED <<h_buf, h_dirty>> /\ pc' = [pc EXCEPT ![p] = "shadow"]
  BY DEF AccessShadow, Granted, Goto, accessUnchanged, commitVars, blockVars
<1>8. pc'[p] = "shadow" /\ \A q \in Procs \ {p} : pc'[q] = pc[q]
  BY <1>1, <1>7, Groups DEF Base, ProcType
<1>9. /\ Touches(b)
      /\ buf'[b].b_transaction = buf[b].b_transaction /\ buf'[b].b_jlist = buf[b].b_jlist
      /\ buf'[b].b_cp_transaction = buf[b].b_cp_transaction /\ buf'[b].data = buf[b].data
      /\ ~buf'[b].dirty /\ buf'[b].jbddirty = (buf[b].jbddirty \/ buf[b].dirty)
      /\ buf'[b].freed = buf[b].freed
  BY <1>1, <1>2, ShadowEffect
<1> QED
  BY <1>2, <1>4, <1>6, <1>7, <1>8, <1>9, Handed

\* A process that was not changing a buffer goes on.
LEMMA QuietGood ==
  ASSUME Durable, Struct', NEW p \in Procs, ~Active(p),
         UNCHANGED <<running, committing, last, phase, todo, committed, closed, tagged>>,
         UNCHANGED <<aborted, tail, home, log, version, wrote, tags, use, born, orphan, freed, eio, buf>>,
         \A q \in Procs \ {p} : pc'[q] = pc[q] /\ h_buf'[q] = h_buf[q] /\ h_dirty'[q] = h_dirty[q],
         pc'[p] # "new", ~aborted => ~h_dirty'[p]
  PROVE  Durable'
<1>1. version \in Nat
  BY Groups, Constant DEF Durable, Struct, Base, RestType, Versions
<1>2. Calm /\ Order'
  BY <1>1 DEF Calm, Durable, Order
<1>3. ASSUME NEW c \in Blocks PROVE Good(c)'
  <2>1. Same(c) /\ Undisturbed(c)
    BY DEF Same, Undisturbed
  <2> QED
    BY <1>2, <2>1, Frame
<1>4. ASSUME NEW q \in Procs PROVE Begun(q)'
  <2>1. CASE q = p
    BY <2>1 DEF Begun
  <2>2. CASE q # p
    BY <2>2 DEF Durable, Begun
  <2> QED
    BY <2>1, <2>2
<1> QED
  BY <1>2, <1>3, <1>4 DEF Durable

\* AllocFrozen, ShadowPrepare, ShadowCheck
LEMMA WaitGood ==
  ASSUME Durable, Struct', NEW p \in Procs, AllocFrozen(p) \/ ShadowPrepare(p) \/ ShadowCheck(p)
  PROVE  Durable'
<1>1. /\ UNCHANGED <<running, committing, last, phase, todo, committed, closed, tagged>>
      /\ UNCHANGED <<aborted, tail, home, log, version, wrote, tags, use, born, orphan, freed, eio, buf>>
  BY DEF AllocFrozen, ShadowPrepare, ShadowCheck, accessUnchanged, commitVars, blockVars, Leave
<1>2. ProcType
  BY Groups DEF Durable, Struct, Base
<1>3. pc[p] \in {"alloc", "shadow", "queued"}
  BY DEF AllocFrozen, ShadowPrepare, ShadowCheck
<1>4. ~Active(p) /\ (~aborted => ~h_dirty[p])
  BY <1>3 DEF Active, Durable, Begun
<1>5. /\ pc'[p] # "new" /\ (h_dirty'[p] => h_dirty[p])
      /\ \A q \in Procs \ {p} : pc'[q] = pc[q] /\ h_buf'[q] = h_buf[q] /\ h_dirty'[q] = h_dirty[q]
  <2>1. CASE AllocFrozen(p)
    BY <1>2, <2>1 DEF ProcType, AllocFrozen, Goto, Leave
  <2>2. CASE ShadowPrepare(p) \/ ShadowCheck(p)
    BY <1>2, <2>2 DEF ProcType, ShadowPrepare, ShadowCheck, Goto, accessUnchanged
  <2> QED
    BY <2>1, <2>2
<1> QED
  BY <1>1, <1>4, <1>5, QuietGood

\* jbdbf_journal_stop
LEMMA StopGood ==
  ASSUME Durable, Struct', NEW p \in Procs, jbdbf_journal_stop(p)
  PROVE  Durable'
<1>1. /\ UNCHANGED <<running, committing, last, phase, todo, committed, closed, tagged>>
      /\ UNCHANGED <<aborted, tail, home, log, version, wrote, tags, use, born, orphan, freed, eio, buf>>
  BY DEF jbdbf_journal_stop, commitVars, blockVars
<1>2. ProcType
  BY Groups DEF Durable, Struct, Base
<1>3. pc[p] \in {"open", "shrunk"}
  BY DEF jbdbf_journal_stop
<1>4. ~Active(p) /\ (~aborted => ~h_dirty[p])
  BY <1>3 DEF Active, Durable, Begun
<1>5. /\ pc'[p] # "new" /\ (h_dirty'[p] => h_dirty[p])
      /\ \A q \in Procs \ {p} : pc'[q] = pc[q] /\ h_buf'[q] = h_buf[q] /\ h_dirty'[q] = h_dirty[q]
  BY <1>2 DEF ProcType, jbdbf_journal_stop, Goto
<1> QED
  BY <1>1, <1>4, <1>5, QuietGood

\* AccessAborted
LEMMA AbortedGood ==
  ASSUME Durable, Struct', NEW p \in Procs, AccessAborted(p)
  PROVE  Durable'
<1>1. Struct /\ Base
  BY DEF Durable, Struct
<1>2. PICK b \in Blocks : h_buf[p] = b
  BY <1>1, AbortedEffect
<1>3. /\ Struct /\ Base /\ Order /\ 0 \in committed
      /\ Aged(b) /\ Grown(b) /\ Dated(b) /\ Placed(b) /\ (Careful => Saved(b))
  BY Known
<1>4. pc[p] = "access" /\ aborted /\ version \in Nat
  BY <1>1, AtBlock DEF AccessAborted
<1>5. /\ UNCHANGED <<running, committing, last, phase, todo, committed, closed, tagged>>
      /\ UNCHANGED <<aborted, tail, home, log, version, wrote, tags, use, born, orphan, freed, eio>>
  BY DEF AccessAborted, commitVars, blockVars
<1>6. /\ pc'[p] = "open"
      /\ \A q \in Procs \ {p} : pc'[q] = pc[q] /\ h_buf'[q] = h_buf[q] /\ h_dirty'[q] = h_dirty[q]
  BY <1>1, Groups DEF Base, ProcType, AccessAborted, Leave, Goto
<1>7. /\ Touches(b)
      /\ buf'[b].b_transaction = buf[b].b_transaction /\ buf'[b].b_jlist = buf[b].b_jlist
      /\ buf'[b].data = buf[b].data
      /\ ~buf'[b].dirty /\ buf'[b].jbddirty = (buf[b].jbddirty \/ buf[b].dirty)
  BY <1>1, <1>2, AbortedEffect
<1>8. Calm /\ \A c \in Blocks \ {b} : Same(c)
  BY <1>4, <1>5, <1>7 DEF Calm, Same, Touches
<1>9. New(b) => New(b)'
  BY <1>4, <1>6, Others
<1>10. Followed(b)'
  BY <1>3, <1>5, <1>7, <1>9 DEF Followed, Aged, Grown, Dated, Placed
<1>11. Careful => Saved(b)'
  <2>1. Contents(b)' = Contents(b) /\ (InLog(b)' <=> InLog(b))
    BY <1>3, <1>5, SteadyNewest
  <2>2. (Exposed(b)' => Exposed(b)) /\ (Live(b)' <=> Live(b))
    BY <1>5, <1>7 DEF Exposed, Live
  <2> QED
    BY <1>3, <1>5, <2>1, <2>2 DEF Saved
<1>12. Begun(p)'
  BY <1>4, <1>5, <1>6 DEF Begun
<1> QED
  BY <1>2, <1>4, <1>5, <1>6, <1>7, <1>8, <1>10, <1>11, <1>12, ProcStep DEF Good

\* AccessFile
LEMMA FileGood ==
  ASSUME Durable, Struct', NEW p \in Procs, AccessFile(p)
  PROVE  Durable'
<1>1. Struct /\ Base
  BY DEF Durable, Struct
<1>2. PICK b \in Blocks : h_buf[p] = b
  BY <1>1, FileEffect
<1> DEFINE s == buf[b]
           r == buf'[b]
<1>3. pc[p] = "access" /\ ~aborted /\ s.b_transaction = 0
  BY <1>2 DEF AccessFile
<1>4. /\ Struct /\ Base /\ Order /\ 0 \in committed
      /\ Listed(b) /\ Bits(b) /\ Traced(b)
      /\ Aged(b) /\ Grown(b) /\ Dated(b) /\ Placed(b)
      /\ Tagging(b) /\ Placing(b) /\ Gone(b) /\ Allotted(b)
      /\ Careful => Saved(b)
      /\ Careful => Closing(b) /\ Marked(b) /\ Pinned(b)
  BY <1>3, Known
<1>5. /\ use[b] = "used" /\ running # 0 /\ s \in Buffer /\ version \in Nat /\ h_tid[p] = running
      /\ running # committing /\ orphan[b] = 0
  BY <1>2, <1>3, <1>4, Working, AtBlock, Tidy DEF Aged
<1>6. /\ UNCHANGED <<running, committing, last, phase, todo, committed, closed, tagged>>
      /\ UNCHANGED <<aborted, tail, home, log, version, wrote, tags, use, born, orphan, freed, eio>>
      /\ UNCHANGED <<h_buf, h_dirty>> /\ pc' = [pc EXCEPT ![p] = "granted"]
  BY DEF AccessFile, Granted, Goto, accessUnchanged, commitVars, blockVars
<1>7. /\ pc'[p] = "granted"
      /\ \A q \in Procs \ {p} : pc'[q] = pc[q] /\ h_buf'[q] = h_buf[q] /\ h_dirty'[q] = h_dirty[q]
  BY <1>1, <1>6, Groups DEF Base, ProcType
<1>8. /\ Touches(b)
      /\ r.b_transaction = running /\ r.b_jlist = "Reserved"
      /\ r.b_cp_transaction = s.b_cp_transaction /\ r.data = s.data
      /\ ~r.dirty /\ r.jbddirty = (s.dirty \/ s.jbddirty) /\ r.freed = s.freed
  BY <1>1, <1>2, <1>5, FileEffect
<1>9. s.b_jlist = "None" /\ ~s.jbddirty
  BY <1>3, <1>4 DEF Listed, Bits
<1>10. Calm /\ \A c \in Blocks \ {b} : Same(c)
  BY <1>5, <1>6, <1>8 DEF Calm, Same, Touches
<1>11. /\ New(b) => New(b)'
       /\ Taken(b) => Taken(b)'
       /\ Making(b) => Making(b)'
       /\ Modifying(b) => Modifying(b)'
       /\ Cleaned(b) => Cleaned(b)'
  BY <1>2, <1>3, <1>6, <1>7, Others
<1>12. Newest(b)' = Newest(b) /\ Contents(b)' = Contents(b) /\ (InLog(b)' <=> InLog(b))
  BY <1>4, <1>6, SteadyNewest
<1>13. /\ Exposed(b)' <=> Exposed(b)
       /\ ~Has(b)
       /\ Doomed(b)' <=> Doomed(b)
       /\ Live(b)' <=> Live(b)
  BY <1>6, <1>8, <1>9 DEF Exposed, Has, Doomed, Live
<1>14. Followed(b)'
  BY <1>4, <1>6, <1>8, <1>11 DEF Followed, Aged, Grown, Dated, Placed
<1>15. Ordered(b)'
  <2>1. Tagging(b)'
    BY <1>3, <1>4, <1>5, <1>6 DEF Tagging, Retracted
  <2>2. Placing(b)'
    BY <1>3, <1>4, <1>5, <1>6, <1>8, <1>13 DEF Placing, Retracted
  <2>3. Gone(b)' /\ Allotted(b)'
    BY <1>4, <1>6, <1>11 DEF Gone, Allotted
  <2> QED
    BY <2>1, <2>2, <2>3 DEF Ordered
<1>16. Careful => Saved(b)'
  BY <1>4, <1>6, <1>12, <1>13 DEF Saved
<1>17. Careful => Guarded(b)'
  <2>1. Careful => Closing(b)'
    BY <1>4, <1>5, <1>6, <1>8, <1>13 DEF Closing
  <2>2. Careful => Marked(b)'
    BY <1>5, <1>6, <1>8 DEF Marked
  <2>3. Careful => Pinned(b)'
    BY <1>4, <1>6, <1>8, <1>9, <1>11, <1>12, <1>13 DEF Pinned
  <2> QED
    BY <2>1, <2>2, <2>3 DEF Guarded
<1>18. Begun(p)'
  BY <1>2, <1>3, <1>6, <1>7, <1>8 DEF Durable, Begun
<1> QED
  BY <1>2, <1>3, <1>6, <1>7, <1>8, <1>10, <1>14, <1>15, <1>16, <1>17, <1>18, ProcStep DEF Good

\* A process leaves a metadata buffer it has not changed, or any when the journal is aborted.
LEMMA LeaveGood ==
  ASSUME Durable, Struct', NEW p \in Procs, NEW b \in Blocks, h_buf[p] = b,
         aborted \/ (b \in Meta /\ pc[p] = "granted"), pc[p] # "new", pc'[p] \notin {"new"},
         UNCHANGED <<running, committing, last, phase, todo, committed, closed, tagged>>,
         UNCHANGED <<aborted, tail, home, log, version, wrote, tags, use, born, orphan, freed, eio, buf>>,
         ~h_dirty'[p],
         \A q \in Procs \ {p} : pc'[q] = pc[q] /\ h_buf'[q] = h_buf[q] /\ h_dirty'[q] = h_dirty[q]
  PROVE  Durable'
<1>1. /\ Struct /\ Base /\ Order /\ 0 \in committed
      /\ Aged(b) /\ Grown(b) /\ Dated(b) /\ Placed(b)
      /\ ~aborted => Tagging(b) /\ Placing(b) /\ Gone(b) /\ Allotted(b)
      /\ Careful => Saved(b)
      /\ Careful /\ ~aborted => Closing(b) /\ Marked(b) /\ Pinned(b)
  BY Known
<1>2. version \in Nat /\ buf[b] \in Buffer /\ buf \in [Blocks -> Buffer] /\ (b \in Meta => b \notin tags)
  BY <1>1, AtBlock, Groups, ConstantsAssumption DEF Base, BufType
<1>3. Calm /\ Touches(b) /\ \A c \in Blocks \ {b} : Same(c)
  BY <1>2 DEF Calm, Same, Touches
<1>4. h_dirty[p] /\ b \in Meta => aborted
  BY ConstantsAssumption DEF Durable, Begun
<1>5. /\ New(b) => New(b)'
      /\ Making(b) => Making(b)' \/ aborted
      /\ Modifying(b) => Modifying(b)' \/ aborted
      /\ Cleaned(b) => Cleaned(b)' \/ aborted
  BY <1>4, Others
<1>6. Newest(b)' = Newest(b) /\ Contents(b)' = Contents(b) /\ (InLog(b)' <=> InLog(b))
  BY <1>1, SteadyNewest
<1>7. /\ Exposed(b)' <=> Exposed(b)
      /\ Has(b)' <=> Has(b)
      /\ Doomed(b)' <=> Doomed(b)
      /\ Live(b)' <=> Live(b)
  BY DEF Exposed, Has, Doomed, Live
<1>8. Followed(b)'
  BY <1>1, <1>5 DEF Followed, Aged, Grown, Dated, Placed
<1>9. ~aborted => Ordered(b)'
  BY <1>1, <1>2, <1>5, <1>7 DEF Ordered, Tagging, Placing, Gone, Allotted, Retracted
<1>10. Careful => Saved(b)'
  BY <1>1, <1>6, <1>7 DEF Saved
<1>11. ~aborted /\ Careful => Guarded(b)'
  <2>1. ~aborted /\ Careful => Closing(b)' /\ Marked(b)'
    BY <1>1, <1>5, <1>7 DEF Closing, Marked
  <2>2. ~aborted /\ Careful => Pinned(b)'
    BY <1>1, <1>5, <1>6, <1>7 DEF Pinned
  <2> QED
    BY <2>1, <2>2 DEF Guarded
<1>12. Begun(p)'
  BY DEF Begun
<1> QED
  BY <1>3, <1>8, <1>9, <1>10, <1>11, <1>12, ProcStep DEF Good

\* jbdbf_journal_release_buffer
LEMMA ReleaseGood ==
  ASSUME Durable, Struct', NEW p \in Procs, jbdbf_journal_release_buffer(p)
  PROVE  Durable'
<1>1. /\ UNCHANGED <<running, committing, last, phase, todo, committed, closed, tagged>>
      /\ UNCHANGED <<aborted, tail, home, log, version, wrote, tags, use, born, orphan, freed, eio, buf>>
      /\ pc[p] = "granted" /\ h_buf[p] \in Meta
  BY DEF jbdbf_journal_release_buffer, commitVars, blockVars
<1>2. /\ pc'[p] = "open" /\ ~h_dirty'[p]
      /\ \A q \in Procs \ {p} : pc'[q] = pc[q] /\ h_buf'[q] = h_buf[q] /\ h_dirty'[q] = h_dirty[q]
  BY Groups DEF Durable, Struct, Base, ProcType, jbdbf_journal_release_buffer, Leave, Goto
<1>3. h_buf[p] \in Blocks
  BY <1>1, Constant
<1> QED
  BY <1>1, <1>2, <1>3, LeaveGood

-----------------------------------------------------------------------------
(* Changing a buffer keeps the contents of the last commit. *)

\* Modify
LEMMA ModifyGood ==
  ASSUME Durable, Struct', NEW p \in Procs, Modify(p)
  PROVE  Durable'
<1>1. Struct /\ Base
  BY DEF Durable, Struct
<1>2. PICK b \in Blocks : h_buf[p] = b
  BY <1>1, ModifyEffect
<1> DEFINE s == buf[b]
           r == buf'[b]
<1>3. /\ Order /\ 0 \in committed
      /\ Listed(b) /\ (~aborted => Bits(b)) /\ Traced(b)
      /\ Aged(b) /\ Grown(b) /\ Dated(b) /\ Placed(b)
      /\ ~aborted => Tagging(b) /\ Placing(b) /\ Gone(b) /\ Allotted(b)
      /\ Careful => Saved(b)
      /\ Careful /\ ~aborted => Closing(b) /\ Marked(b) /\ Pinned(b)
  BY Known
<1>4. pc[p] \in {"granted", "created"} /\ ~h_dirty[p] /\ Holding(p) /\ Works(p) /\ version' = version + 1
  BY DEF Modify, Holding, Works
<1>5. /\ use[b] = "used" /\ running # 0 /\ s \in Buffer /\ version \in Nat /\ h_tid[p] = running
      /\ running # committing /\ orphan[b] = 0 /\ home[b] \in Nat
  BY <1>1, <1>2, <1>3, <1>4, Working, AtBlock, Tidy DEF Aged, Works
<1>6. running \in {s.b_transaction, s.b_next_transaction} /\ ~s.dirty
  BY <1>1, <1>2, <1>4, <1>5 DEF Struct, OwnInv, Owner
<1>7. /\ UNCHANGED <<running, committing, last, phase, todo, committed, closed, tagged>>
      /\ UNCHANGED <<aborted, tail, home, log, wrote, tags, use, born, orphan, freed, eio>>
      /\ UNCHANGED <<h_buf, h_dirty>> /\ pc' = [pc EXCEPT ![p] = "modified"]
  BY DEF Modify, Goto, commitVars, blockVars
<1>8. /\ pc'[p] = "modified"
      /\ \A q \in Procs \ {p} : pc'[q] = pc[q] /\ h_buf'[q] = h_buf[q] /\ h_dirty'[q] = h_dirty[q]
  BY <1>1, <1>7, Groups DEF Base, ProcType
<1>9. /\ Touches(b)
      /\ r.b_transaction = s.b_transaction /\ r.b_next_transaction = s.b_next_transaction
      /\ r.b_jlist = s.b_jlist /\ r.b_modified = s.b_modified
      /\ r.b_cp_transaction = s.b_cp_transaction /\ r.data = version + 1
      /\ r.dirty = s.dirty /\ r.jbddirty = s.jbddirty /\ r.freed = s.freed
  BY <1>1, <1>2, ModifyEffect
<1>10. Calm /\ \A c \in Blocks \ {b} : Same(c)
  BY <1>4, <1>5, <1>7, <1>9 DEF Calm, Same, Touches
<1>11. /\ New(b) => New(b)'
       /\ Taken(b)'
       /\ Making(b)'
       /\ Modifying(b)'
       /\ Cleaned(b) => Cleaned(b)'
  BY <1>2, <1>4, <1>7, <1>8, Others
<1>12. Newest(b)' = Newest(b) /\ Contents(b)' = Contents(b) /\ (InLog(b)' <=> InLog(b))
  BY <1>1, <1>3, <1>7, SteadyNewest
<1>13. /\ Exposed(b)' <=> Exposed(b)
       /\ Has(b)' <=> Has(b)
       /\ Doomed(b)' <=> Doomed(b)
       /\ Live(b)' <=> Live(b)
  BY <1>7, <1>9 DEF Exposed, Has, Doomed, Live
<1>14. Followed(b)'
  <2>1. Grown(b)'
    BY <1>3, <1>4, <1>5, <1>7, <1>9 DEF Grown
  <2> QED
    BY <1>3, <1>7, <1>9, <2>1 DEF Followed, Aged, Dated, Placed
<1>15. ~aborted => Ordered(b)'
  <2>1. ~aborted => Tagging(b)'
    BY <1>3, <1>7, <1>9, <1>11 DEF Tagging, Retracted
  <2>2. ~aborted => Placing(b)'
    BY <1>3, <1>6, <1>7, <1>9, <1>13 DEF Placing, Retracted
  <2>3. ~aborted => Gone(b)' /\ Allotted(b)'
    BY <1>3, <1>7, <1>11 DEF Gone, Allotted
  <2> QED
    BY <2>1, <2>2, <2>3 DEF Ordered
<1>16. Careful => Saved(b)'
  BY <1>3, <1>7, <1>12, <1>13 DEF Saved
<1>17. Careful /\ ~aborted => Guarded(b)'
  <2>1. Has(b) => s.b_next_transaction # 0
    BY <1>5, <1>6 DEF Has
  <2>2. Careful /\ ~aborted => Closing(b)'
    BY <1>3, <1>7, <1>9, <1>11, <1>13, <2>1 DEF Closing
  <2>3. Careful /\ ~aborted => Marked(b)'
    BY <1>3, <1>7, <1>9, <1>13 DEF Marked
  <2>4. Careful /\ ~aborted => Pinned(b)'
    BY <1>3, <1>7, <1>9, <1>11, <1>12, <1>13 DEF Pinned
  <2> QED
    BY <2>2, <2>3, <2>4 DEF Guarded
<1>18. Begun(p)'
  BY <1>4, <1>7, <1>8 DEF Begun
<1> QED
  BY <1>2, <1>7, <1>8, <1>9, <1>10, <1>14, <1>15, <1>16, <1>17, <1>18, ProcStep DEF Good

\* jbdbf_journal_dirty_metadata and DirtyAgain, which calls it
LEMMA DirtyGood ==
  ASSUME Durable, Struct', NEW p \in Procs, Dirties(p)
  PROVE  Durable'
<1>1. Struct /\ Base
  BY DEF Durable, Struct
<1>2. PICK b \in Blocks : h_buf[p] = b
  BY <1>1, DirtyEffect
<1> DEFINE s == buf[b]
           r == buf'[b]
<1>3. /\ Order /\ 0 \in committed
      /\ Listed(b) /\ (~aborted => Bits(b)) /\ Traced(b)
      /\ Aged(b) /\ Grown(b) /\ Dated(b) /\ Placed(b)
      /\ ~aborted => Tagging(b) /\ Placing(b) /\ Gone(b) /\ Allotted(b)
      /\ Careful => Saved(b)
      /\ Careful /\ ~aborted => Closing(b) /\ Marked(b) /\ Pinned(b)
  BY Known
<1>4. pc[p] \in {"granted", "modified"} /\ Holding(p) /\ Works(p)
  BY DEF Dirties, jbdbf_journal_dirty_metadata, DirtyAgain, Holding, Works
<1>5. /\ use[b] = "used" /\ running # 0 /\ s \in Buffer /\ version \in Nat /\ h_tid[p] = running
      /\ running # committing /\ orphan[b] = 0 /\ running \in 0 .. MaxTid
  BY <1>1, <1>2, <1>3, <1>4, Working, AtBlock, Tidy DEF Aged, Works
<1>6. running \in {s.b_transaction, s.b_next_transaction} /\ ~s.dirty
  BY <1>1, <1>2, <1>4, <1>5 DEF Struct, OwnInv, Owner
<1>7. /\ UNCHANGED <<running, committing, last, phase, todo, committed, closed, tagged>>
      /\ UNCHANGED <<aborted, tail, home, log, version, tags, use, born, orphan, freed, eio>>
  BY DEF Dirties, jbdbf_journal_dirty_metadata, DirtyAgain, commitVars, blockVars
<1>8. /\ pc'[p] \in {"open", "granted"} /\ ~h_dirty'[p]
      /\ \A q \in Procs \ {p} : pc'[q] = pc[q] /\ h_buf'[q] = h_buf[q] /\ h_dirty'[q] = h_dirty[q]
  BY <1>1, Groups DEF Base, ProcType, Dirties, jbdbf_journal_dirty_metadata, DirtyAgain, Leave, Goto
<1>9. CASE aborted
  <2>1. UNCHANGED <<buf, wrote>>
    BY <1>1, <1>9, DirtyEffect
  <2> QED
    BY <1>2, <1>4, <1>7, <1>8, <1>9, <2>1, LeaveGood
<1>10. CASE ~aborted
  <2>1. Touches(b) /\ r = Metadata(s, running) /\ wrote' = wrote \cup {b}
    BY <1>1, <1>2, <1>5, <1>10, DirtyEffect
  <2>2. Listed(b) /\ Bits(b)
    BY <1>3, <1>10
  <2>3. /\ r.b_transaction = s.b_transaction /\ r.b_next_transaction = s.b_next_transaction
        /\ r.b_cp_transaction = s.b_cp_transaction /\ r.data = s.data /\ r.freed = s.freed
        /\ r.b_modified /\ r.jbddirty /\ ~r.dirty
        /\ s.b_transaction = running => r.b_jlist = "Metadata"
        /\ s.b_transaction # running => r.b_jlist = s.b_jlist
    <3>1. CASE s.b_transaction = running /\ s.b_jlist = "Metadata"
      <4>1. s.jbddirty
        BY <2>2, <3>1 DEF Bits
      <4> QED
        BY <1>5, <1>6, <2>1, <3>1, <4>1, MetadataAgain
    <3>2. CASE s.b_transaction = running /\ s.b_jlist # "Metadata"
      <4>1. r.dirty = (s.dirty /\ s.b_jlist # "None")
        BY <1>5, <2>1, <3>2, MetadataFiled
      <4>2. ~r.dirty
        BY <1>6, <4>1
      <4> QED
        BY <1>5, <2>1, <3>2, <4>2, MetadataFiled
    <3>3. CASE s.b_transaction # running
      BY <1>5, <1>6, <2>1, <3>3, MetadataOlder
    <3> QED
      BY <3>1, <3>2, <3>3
  <2>4. /\ s.b_transaction \in {running, committing}
        /\ s.b_transaction # running =>
             s.b_transaction = committing /\ committing # 0 /\ s.b_next_transaction # 0
             /\ s.b_jlist \notin {"None", "Reserved"}
    BY <1>5, <1>6, <2>2 DEF Listed, PhaseLists
  <2>5. r.b_jlist \notin {"None", "Reserved"}
    BY <2>3, <2>4
  <2>6. Calm /\ \A c \in Blocks \ {b} : Same(c)
    BY <1>5, <1>7, <2>1 DEF Calm, Same, Touches
  <2>7. New(b) => New(b)'
    BY <1>4, <1>8, Others
  <2>8. Newest(b)' = Newest(b) /\ Contents(b)' = Contents(b) /\ (InLog(b)' <=> InLog(b))
    BY <1>1, <1>3, <1>7, SteadyNewest
  <2>9. /\ ~Exposed(b)'
        /\ Has(b) => Has(b)'
        /\ Doomed(b)' <=> Doomed(b)
        /\ Live(b)' <=> Live(b)
    BY <1>5, <1>7, <2>3, <2>4, <2>5 DEF Exposed, Has, Doomed, Live
  <2>10. Followed(b)'
    BY <1>3, <1>7, <2>3, <2>7 DEF Followed, Aged, Grown, Dated, Placed
  <2>11. Tagging(b)'
    BY <1>3, <1>7, <1>10, <2>1, <2>3 DEF Tagging, Retracted
  <2>12. Placing(b)'
    BY <1>3, <1>5, <1>6, <1>7, <1>10, <2>3, <2>9 DEF Placing, Retracted
  <2>13. Gone(b)' /\ Allotted(b)'
    BY <1>3, <1>7, <1>10, <2>1 DEF Gone, Allotted
  <2>14. Careful => Saved(b)'
    BY <1>3, <1>7, <2>8, <2>9 DEF Saved
  <2>15. Careful => Closing(b)'
    BY <1>3, <1>5, <1>7, <1>10, <2>3, <2>4, <2>9 DEF Closing
  <2>16. Careful => Marked(b)'
    BY <1>3, <1>5, <1>7, <1>10, <2>3, <2>4 DEF Marked
  <2>17. Careful => Pinned(b)'
    BY <1>3, <1>7, <1>10, <2>3, <2>5, <2>8, <2>9 DEF Pinned
  <2>18. Begun(p)'
    BY <1>8 DEF Begun
  <2> QED
    BY <1>2, <1>7, <1>8, <2>1, <2>3, <2>6, <2>10, <2>11, <2>12, <2>13, <2>14, <2>15, <2>16, <2>17,
       <2>18, ProcStep DEF Good, Ordered, Guarded
<1> QED
  BY <1>9, <1>10

\* jbdbf_journal_dirty_data
LEMMA AppendedGood ==
  ASSUME Durable, Struct', NEW p \in Procs, jbdbf_journal_dirty_data(p)
  PROVE  Durable'
<1>1. Struct /\ Base
  BY DEF Durable, Struct
<1>2. PICK b \in Blocks : h_buf[p] = b
  BY <1>1, AppendedEffect
<1> DEFINE s == buf[b]
           r == buf'[b]
           d == [s EXCEPT !.data = version + 1]
<1>3. /\ Order /\ 0 \in committed
      /\ Listed(b) /\ (~aborted => Bits(b)) /\ Traced(b)
      /\ Aged(b) /\ Grown(b) /\ Dated(b) /\ Placed(b)
      /\ ~aborted => Tagging(b) /\ Placing(b) /\ Gone(b) /\ Allotted(b)
      /\ Careful => Saved(b)
      /\ Careful /\ ~aborted => Closing(b) /\ Marked(b) /\ Pinned(b)
  BY Known
<1>4. pc[p] = "new" /\ Works(p) /\ version' = version + 1
  BY DEF jbdbf_journal_dirty_data, Works
<1>5. /\ use[b] = "used" /\ running # 0 /\ s \in Buffer /\ version \in Nat /\ h_tid[p] = running
      /\ running # committing /\ orphan[b] = 0 /\ running \in 0 .. MaxTid /\ home[b] \in Nat
      /\ running \notin committed
  BY <1>1, <1>2, <1>3, <1>4, Working, AtBlock, Tidy DEF Aged, Works
<1>6. s.b_transaction = running /\ s.b_jlist = "Reserved" /\ born[b] = running
  BY <1>1, <1>2, <1>4, <1>5 DEF Struct, OwnInv, Owner, Durable, Begun
<1>7. /\ UNCHANGED <<running, committing, last, phase, todo, committed, closed, tagged>>
      /\ UNCHANGED <<aborted, tail, home, log, wrote, use, born, orphan, freed, eio>>
      /\ tags' = tags \cup {b}
  BY <1>2 DEF jbdbf_journal_dirty_data, commitVars, blockVars
<1>8. /\ pc'[p] = "open" /\ ~h_dirty'[p]
      /\ \A q \in Procs \ {p} : pc'[q] = pc[q] /\ h_buf'[q] = h_buf[q] /\ h_dirty'[q] = h_dirty[q]
  BY <1>1, Groups DEF Base, ProcType, jbdbf_journal_dirty_data, Leave, Goto
<1>9. /\ Touches(b) /\ d \in Buffer
      /\ r = IF aborted THEN d ELSE Dirtydata(d, running)
  BY <1>1, <1>2, <1>5, AppendedEffect
<1>10. /\ d.b_transaction = running /\ d.b_jlist = "Reserved" /\ d.data = version + 1
       /\ d.b_cp_transaction = s.b_cp_transaction /\ d.dirty = s.dirty /\ d.jbddirty = s.jbddirty
  BY <1>5, <1>6 DEF Buffer
<1>11. /\ r.b_transaction = running /\ r.data = version + 1 /\ r.b_jlist \in {"Reserved", "Dirtydata"}
       /\ r.b_cp_transaction = s.b_cp_transaction
       /\ ~aborted => r.b_jlist = "Dirtydata" /\ r.dirty
  <2> HIDE DEF d
  <2> QED
    BY <1>5, <1>9, <1>10, DirtydataFiled
<1>12. Calm /\ \A c \in Blocks \ {b} : Same(c)
  BY <1>4, <1>5, <1>7, <1>9 DEF Calm, Same, Touches
<1>13. ~Live(b)'
  BY <1>5, <1>6, <1>7 DEF Live
<1>14. Followed(b)'
  <2>1. Grown(b)'
    BY <1>3, <1>4, <1>5, <1>7, <1>11 DEF Grown
  <2> QED
    BY <1>3, <1>6, <1>7, <1>11, <2>1 DEF Followed, Aged, Dated, Placed
<1>15. ~aborted => Ordered(b)'
  <2>1. ~aborted => Tagging(b)'
    BY <1>5, <1>6, <1>7, <1>11 DEF Tagging
  <2>2. ~aborted => Placing(b)'
    BY <1>3, <1>5, <1>6, <1>7 DEF Placing
  <2>3. ~aborted => Gone(b)' /\ Allotted(b)'
    BY <1>3, <1>7 DEF Gone, Allotted
  <2> QED
    BY <2>1, <2>2, <2>3 DEF Ordered
<1>16. Careful => Saved(b)'
  BY <1>13 DEF Saved
<1>17. Careful /\ ~aborted => Guarded(b)'
  <2>1. Careful /\ ~aborted => Closing(b)'
    BY <1>3, <1>5, <1>6, <1>7, <1>11 DEF Closing, Has, Doomed
  <2>2. Careful /\ ~aborted => Marked(b)'
    BY <1>5, <1>7, <1>11 DEF Marked
  <2>3. Careful /\ ~aborted => Pinned(b)'
    BY <1>3, <1>7, <1>11, <1>13 DEF Pinned
  <2> QED
    BY <2>1, <2>2, <2>3 DEF Guarded
<1>18. Begun(p)'
  BY <1>8 DEF Begun
<1> QED
  BY <1>2, <1>6, <1>7, <1>8, <1>9, <1>11, <1>12, <1>14, <1>15, <1>16, <1>17, <1>18, ProcStep DEF Good

-----------------------------------------------------------------------------
(* A process that takes up a block keeps the contents of the last commit. *)

\* A process with an open handle is not changing a buffer, and there is a transaction.
LEMMA Open ==
  ASSUME Durable, NEW p \in Procs, pc[p] = "open"
  PROVE  /\ ~Active(p) /\ (~aborted => ~h_dirty[p]) /\ h_tid[p] = running
         /\ running # 0 /\ running # committing /\ running \in Nat /\ running = last
         /\ running \notin committed /\ running \in 0 .. MaxTid
         /\ committing # 0 => committing < running
<1>1. Struct /\ Base /\ Begun(p) /\ CommitType
  BY Groups DEF Durable, Struct, Base
<1>2. h_tid[p] = running /\ running # 0
  BY <1>1 DEF Base, HandleInv
<1>3. running \in Nat /\ running \in 0 .. MaxTid
  BY <1>1, Constant DEF CommitType
<1> QED
  BY <1>1, <1>2, <1>3, Tidy DEF Active, Begun

\* GetWriteAccess
LEMMA GetGood ==
  ASSUME Durable, Struct', NEW p \in Procs, NEW b \in Blocks, GetWriteAccess(p, b)
  PROVE  Durable'
<1> DEFINE s == buf[b]
           r == buf'[b]
<1>1. /\ pc[p] = "open" /\ ~aborted /\ use[b] = "used"
      /\ b \in Data => \A q \in Procs : h_buf[q] # b
      /\ b \in On(committing, "Dirtydata") => Overtakes
  BY DEF GetWriteAccess, At
<1>2. /\ Struct /\ Base /\ Order /\ 0 \in committed
      /\ Listed(b) /\ Bits(b) /\ Traced(b)
      /\ Aged(b) /\ Grown(b) /\ Dated(b) /\ Placed(b)
      /\ Tagging(b) /\ Placing(b) /\ Gone(b) /\ Allotted(b)
      /\ Careful => Saved(b)
      /\ Careful => Closing(b) /\ Marked(b) /\ Pinned(b)
  BY <1>1, Known
<1>3. s.b_jlist = "Dirtydata" => s.b_transaction # committing
  BY <1>1, <1>2 DEF On, Struct
<1>4. /\ ~Active(p) /\ ~h_dirty[p] /\ running # 0 /\ running # committing
      /\ s \in Buffer /\ version \in Nat /\ orphan[b] = 0 /\ s.b_jlist \in Lists
  BY <1>1, <1>2, Open, AtBlock, Fields DEF Aged
<1>5. /\ UNCHANGED <<running, committing, last, phase, todo, committed, closed, tagged>>
      /\ UNCHANGED <<aborted, tail, home, log, version, wrote, tags, use, born, orphan, freed, eio>>
  BY DEF GetWriteAccess, commitVars, blockVars
<1>6. /\ pc'[p] = "access" /\ h_buf'[p] = b /\ (h_dirty'[p] <=> b \in Data /\ s.dirty)
      /\ \A q \in Procs \ {p} : pc'[q] = pc[q] /\ h_buf'[q] = h_buf[q] /\ h_dirty'[q] = h_dirty[q]
  BY <1>2, Groups DEF Base, ProcType, GetWriteAccess, Goto
<1>7. /\ Touches(b)
      /\ r.b_transaction = s.b_transaction /\ r.b_next_transaction = s.b_next_transaction
      /\ r.b_jlist = s.b_jlist /\ r.b_modified = s.b_modified
      /\ r.b_cp_transaction = s.b_cp_transaction /\ r.data = s.data
      /\ r.dirty <=> s.dirty /\ b \notin Data
      /\ r.jbddirty = s.jbddirty /\ r.freed = s.freed
  <2>1. CASE b \in Data
    <3> DEFINE n == [s EXCEPT !.dirty = FALSE]
    <3>1. buf' = [buf EXCEPT ![b] = n]
      BY <2>1 DEF GetWriteAccess
    <3>2. /\ n \in Buffer /\ n.b_transaction = s.b_transaction
          /\ n.b_next_transaction = s.b_next_transaction /\ n.b_jlist = s.b_jlist
          /\ n.b_modified = s.b_modified
          /\ n.b_cp_transaction = s.b_cp_transaction /\ n.data = s.data /\ ~n.dirty
          /\ n.jbddirty = s.jbddirty /\ n.freed = s.freed
      BY <1>4 DEF Buffer
    <3> HIDE DEF n
    <3>3. Touches(b) /\ r = n
      BY <1>2, <3>1, <3>2, OneBuffer DEF Base
    <3> QED
      BY <2>1, <3>2, <3>3
  <2>2. CASE b \notin Data
    <3>1. buf' = buf /\ buf \in [Blocks -> Buffer]
      BY <1>2, <2>2, Groups DEF GetWriteAccess, Base, BufType
    <3> QED
      BY <2>2, <3>1 DEF Touches
  <2> QED
    BY <2>1, <2>2
<1>8. Calm /\ \A c \in Blocks \ {b} : Same(c)
  BY <1>4, <1>5, <1>7 DEF Calm, Same, Touches
<1>9. /\ New(b) => New(b)'
      /\ Taken(b)'
      /\ Making(b) => Making(b)'
      /\ Modifying(b) => Modifying(b)'
      /\ Cleaned(b) => Cleaned(b)'
      /\ b \in Data /\ s.dirty => Cleaned(b)'
  BY <1>1, <1>6, Others
<1>10. /\ s.dirty => s.b_jlist \in {"None", "Dirtydata"}
       /\ s.dirty => s.b_transaction \in {0, running}
  BY <1>2, <1>3, <1>4 DEF Listed, Lists
<1>11. Newest(b)' = Newest(b) /\ Contents(b)' = Contents(b) /\ (InLog(b)' <=> InLog(b))
  BY <1>2, <1>5, SteadyNewest
<1>12. /\ Exposed(b)' => Exposed(b)
       /\ Exposed(b) => Exposed(b)' \/ Cleaned(b)'
       /\ Has(b)' <=> Has(b)
       /\ Doomed(b)' <=> Doomed(b)
       /\ Live(b)' <=> Live(b)
  BY <1>5, <1>7, <1>9 DEF Exposed, Has, Doomed, Live
<1>13. Followed(b)'
  BY <1>2, <1>5, <1>7, <1>9 DEF Followed, Aged, Grown, Dated, Placed
<1>14. Tagging(b)'
  BY <1>2, <1>5, <1>7, <1>9 DEF Tagging, Retracted
<1>15. Placing(b)'
  BY <1>2, <1>3, <1>5, <1>7, <1>12 DEF Placing, Retracted
<1>16. Gone(b)' /\ Allotted(b)'
  BY <1>2, <1>5, <1>9 DEF Gone, Allotted
<1>17. Careful => Saved(b)'
  BY <1>2, <1>5, <1>11, <1>12 DEF Saved
<1>18. Careful => Closing(b)' /\ Marked(b)'
  BY <1>2, <1>5, <1>7, <1>9, <1>12 DEF Closing, Marked
<1>19. Careful => Pinned(b)'
  BY <1>2, <1>5, <1>7, <1>9, <1>11, <1>12 DEF Pinned
<1>20. Begun(p)'
  BY <1>5, <1>6, <1>7, <1>10 DEF Begun
<1> QED
  BY <1>4, <1>5, <1>6, <1>7, <1>8, <1>13, <1>14, <1>15, <1>16, <1>17, <1>18, <1>19, <1>20, ProcStep
  DEF Good, Ordered, Guarded

\* A block that can be allocated is of no transaction that has still to commit.
LEMMA AvailableGone ==
  ASSUME Durable, NEW b \in Blocks, Available(b), ~aborted
  PROVE  /\ b \notin tags
         /\ committing # 0 => b \notin tagged[committing] /\ closed[committing][b] = None
<1>1. Struct /\ Aged(b) /\ Tagging(b) /\ Placing(b) /\ Gone(b)
  BY Known
<1>2. born[b] \in Nat /\ orphan[b] \in Nat /\ freed[b] \in Nat /\ running \in Nat /\ committing \in Nat
  BY <1>1, AtBlock
<1>3. CASE use[b] = "free"
  BY <1>1, <1>2, <1>3 DEF Aged, Tagging, Placing, Gone
<1>4. CASE use[b] = "freed" /\ freed[b] \in committed /\ freed[b] # committing
  <2>1. born[b] <= freed[b]
    BY <1>1, <1>2, <1>4 DEF Aged
  <2>2. /\ running # 0 => freed[b] < running
        /\ committing # 0 => freed[b] < committing
    BY <1>1, <1>2, <1>4, Tidy
  <2> QED
    BY <1>1, <1>2, <1>4, <2>1, <2>2 DEF Tagging, Placing, Gone
<1> QED
  BY <1>3, <1>4 DEF Available

\* A block is allocated.
LEMMA Allocated ==
  ASSUME Durable, Struct', NEW p \in Procs, NEW b \in Blocks, pc[p] = "open", ~aborted, Available(b),
         UNCHANGED <<running, committing, last, phase, todo, committed, closed, tagged>>,
         UNCHANGED <<aborted, tail, home, log, version, wrote, tags>>,
         h_buf'[p] = b, h_dirty'[p] = h_dirty[p], pc'[p] \in {"created", "new"},
         \A q \in Procs \ {p} : pc'[q] = pc[q] /\ h_buf'[q] = h_buf[q] /\ h_dirty'[q] = h_dirty[q],
         use'[b] = "used", born'[b] = running, orphan'[b] = 0, freed'[b] = 0,
         \A c \in Blocks \ {b} : /\ use'[c] = use[c] /\ born'[c] = born[c]
                                 /\ orphan'[c] = orphan[c] /\ freed'[c] = freed[c]
                                 /\ c \in eio' <=> c \in eio,
         Touches(b), buf'[b].b_transaction = running, buf'[b].b_next_transaction = 0,
         buf'[b].b_jlist = "Reserved", buf'[b].b_cp_transaction \in {0, buf[b].b_cp_transaction},
         buf'[b].data = buf[b].data \/ (pc'[p] = "new" /\ buf'[b].data = 0)
  PROVE  Durable'
<1>1. /\ Struct /\ Base /\ Order /\ 0 \in committed
      /\ Listed(b) /\ Bits(b) /\ Traced(b)
      /\ Aged(b) /\ Grown(b) /\ Dated(b) /\ Placed(b)
      /\ Tagging(b) /\ Placing(b) /\ Gone(b) /\ Allotted(b)
      /\ Careful => Saved(b)
      /\ Careful => Closing(b) /\ Marked(b) /\ Pinned(b)
  BY Known
<1>2. /\ ~Active(p) /\ ~h_dirty[p] /\ running # 0 /\ running # committing /\ running = last
      /\ running \in Nat /\ running \notin committed /\ version \in Nat /\ home[b] \in Nat
      /\ committing \in Nat
  BY <1>1, Open, AtBlock
<1>3. /\ b \notin tags
      /\ committing # 0 => b \notin tagged[committing] /\ closed[committing][b] = None
  BY AvailableGone
<1>4. \A q \in Procs : ~(Works(q) /\ h_buf[q] = b)
  BY <1>1, AvailableClean
<1>5. Calm /\ \A c \in Blocks \ {b} : Same(c)
  BY <1>2 DEF Calm, Same, Touches
<1>6. ~New(b) /\ Making(b)' /\ (pc'[p] = "new" => New(b)')
  BY <1>4 DEF New, Making, Works
<1>7. ~Live(b)'
  BY <1>2 DEF Live
<1>8. Followed(b)'
  <2>1. Grown(b)'
    BY <1>1, <1>2, <1>6 DEF Grown
  <2> QED
    BY <1>1, <1>2, <2>1 DEF Followed, Aged, Dated, Placed
<1>9. Tagging(b)' /\ Placing(b)' /\ Gone(b)' /\ Allotted(b)'
  BY <1>2, <1>3, <1>6 DEF Tagging, Placing, Gone, Allotted
<1>10. Saved(b)'
  BY <1>7 DEF Saved
<1>11. Careful => Closing(b)' /\ Marked(b)' /\ Pinned(b)'
  BY <1>1, <1>2, <1>3, <1>7 DEF Closing, Marked, Pinned
<1>12. Begun(p)'
  BY <1>2 DEF Begun
<1> QED
  BY <1>2, <1>4, <1>5, <1>8, <1>9, <1>10, <1>11, <1>12, ProcStep DEF Good, Ordered, Guarded

\* jbdbf_journal_get_create_access
LEMMA CreateGood ==
  ASSUME Durable, Struct', NEW p \in Procs, NEW b \in Blocks, jbdbf_journal_get_create_access(p, b)
  PROVE  Durable'
<1> DEFINE s == buf[b]
           n == CreateAccess(s, running)
<1>1. Struct /\ Base /\ ProcType /\ FsType /\ s \in Buffer
  BY Groups, AtBlock DEF Durable, Struct, Base
<1>2. pc[p] = "open" /\ ~aborted /\ Available(b)
  BY DEF jbdbf_journal_get_create_access
<1>3. h_tid[p] = running /\ running # 0 /\ running # committing /\ running \in 0 .. MaxTid
  BY <1>2, Open
<1>4. /\ UNCHANGED <<running, committing, last, phase, todo, committed, closed, tagged>>
      /\ UNCHANGED <<aborted, tail, home, log, version, wrote, tags>>
  BY DEF jbdbf_journal_get_create_access, commitVars
<1>5. /\ h_buf'[p] = b /\ h_dirty'[p] = h_dirty[p] /\ pc'[p] = "created"
      /\ \A q \in Procs \ {p} : pc'[q] = pc[q] /\ h_buf'[q] = h_buf[q] /\ h_dirty'[q] = h_dirty[q]
  BY <1>1 DEF ProcType, jbdbf_journal_get_create_access, Goto
<1>6. /\ use'[b] = "used" /\ born'[b] = running /\ orphan'[b] = 0 /\ freed'[b] = 0
      /\ \A c \in Blocks \ {b} : /\ use'[c] = use[c] /\ born'[c] = born[c]
                                 /\ orphan'[c] = orphan[c] /\ freed'[c] = freed[c]
                                 /\ c \in eio' <=> c \in eio
  BY <1>1, <1>3 DEF FsType, jbdbf_journal_get_create_access, Allocate
<1>7. s.b_transaction = 0 /\ s.b_next_transaction = 0 /\ s.b_jlist = "None"
  BY <1>1, <1>2, AvailableClean
<1>8. /\ n \in Buffer /\ n.b_transaction = running /\ n.b_next_transaction = s.b_next_transaction
      /\ n.b_jlist = "Reserved" /\ n.b_cp_transaction = s.b_cp_transaction /\ n.data = s.data
  BY <1>1, <1>3, <1>7, CreateFiled
<1>9. buf' = [buf EXCEPT ![b] = n]
  BY <1>3 DEF jbdbf_journal_get_create_access
<1> HIDE DEF n
<1>10. Touches(b) /\ buf'[b] = n
  BY <1>1, <1>8, <1>9, OneBuffer DEF Base
<1> QED
  BY <1>2, <1>4, <1>5, <1>6, <1>7, <1>8, <1>10, Allocated

\* Append
LEMMA AppendGood ==
  ASSUME Durable, Struct', NEW p \in Procs, NEW b \in Blocks, Append(p, b)
  PROVE  Durable'
<1> DEFINE n == file(Fresh, running, "Reserved")
<1>1. Struct /\ Base /\ ProcType /\ FsType
  BY Groups DEF Durable, Struct, Base
<1>2. pc[p] = "open" /\ ~aborted /\ Available(b)
  BY DEF Append
<1>3. h_tid[p] = running /\ running # 0 /\ running # committing /\ running \in 0 .. MaxTid
  BY <1>2, Open
<1>4. /\ UNCHANGED <<running, committing, last, phase, todo, committed, closed, tagged>>
      /\ UNCHANGED <<aborted, tail, home, log, version, wrote, tags>>
  BY DEF Append, commitVars
<1>5. /\ h_buf'[p] = b /\ h_dirty'[p] = h_dirty[p] /\ pc'[p] = "new"
      /\ \A q \in Procs \ {p} : pc'[q] = pc[q] /\ h_buf'[q] = h_buf[q] /\ h_dirty'[q] = h_dirty[q]
  BY <1>1 DEF ProcType, Append, Goto
<1>6. /\ use'[b] = "used" /\ born'[b] = running /\ orphan'[b] = 0 /\ freed'[b] = 0
      /\ \A c \in Blocks \ {b} : /\ use'[c] = use[c] /\ born'[c] = born[c]
                                 /\ orphan'[c] = orphan[c] /\ freed'[c] = freed[c]
                                 /\ c \in eio' <=> c \in eio
  BY <1>1, <1>3 DEF FsType, Append, Allocate
<1>7. /\ n \in Buffer /\ n.b_transaction = running /\ n.b_next_transaction = 0
      /\ n.b_jlist = "Reserved" /\ n.b_cp_transaction = 0 /\ n.data = 0
  BY <1>3, FreshFiled
<1>8. buf' = [buf EXCEPT ![b] = n]
  BY <1>3 DEF Append
<1> HIDE DEF n
<1>9. Touches(b) /\ buf'[b] = n
  BY <1>1, <1>7, <1>8, OneBuffer DEF Base
<1> QED
  BY <1>2, <1>4, <1>5, <1>6, <1>7, <1>9, Allocated

-----------------------------------------------------------------------------
(* Freeing a block keeps the contents of the last commit. *)

\* No process is at the block.
LEMMA Nobody ==
  ASSUME NEW b, At(b) = {}
  PROVE  ~New(b) /\ ~Taken(b) /\ ~Making(b) /\ ~Modifying(b) /\ ~Cleaned(b)
BY DEF At, New, Taken, Making, Modifying, Cleaned

\* jbdbf_journal_forget
LEMMA ForgetBlockGood ==
  ASSUME Durable, Struct', NEW p \in Procs, NEW b \in Blocks, jbdbf_journal_forget(p, b)
  PROVE  Durable'
<1> DEFINE s == buf[b]
           r == buf'[b]
<1>1. /\ pc[p] = "open" /\ b \in Meta /\ use[b] = "used" /\ At(b) = {}
      /\ b \in wrote /\ s.b_transaction = committing => Deletes
  BY DEF jbdbf_journal_forget
<1>2. /\ Struct /\ Base /\ Order /\ 0 \in committed
      /\ Listed(b) /\ (~aborted => Bits(b)) /\ Traced(b)
      /\ Aged(b) /\ Grown(b) /\ Dated(b) /\ Placed(b)
      /\ ~aborted => Tagging(b) /\ Placing(b) /\ Gone(b) /\ Allotted(b)
      /\ Careful => Saved(b)
      /\ Careful /\ ~aborted => Closing(b) /\ Marked(b) /\ Pinned(b)
  BY <1>1, Known
<1>3. /\ h_tid[p] = running /\ running # 0 /\ running # committing /\ running \in Nat
      /\ running = last /\ running \notin committed /\ (committing # 0 => committing < running)
      /\ committing \in Nat /\ running \in 0 .. MaxTid /\ committing \in 0 .. MaxTid
      /\ s \in Buffer /\ version \in Nat /\ orphan[b] = 0 /\ s.b_jlist \in Lists /\ born[b] \in Nat
      /\ committing # 0 => committing \in Tids /\ b \notin tagged[committing]
      /\ b \notin tags /\ ~s.freed
  BY <1>1, <1>2, Open, AtBlock, Fields, ConstantsAssumption DEF Aged, Traced
<1>4. /\ UNCHANGED <<running, committing, last, phase, todo, committed, closed, tagged>>
      /\ UNCHANGED <<aborted, tail, home, log, version, tags, born, eio, pc, h_buf, h_dirty>>
      /\ wrote' = wrote \ {b}
  BY DEF jbdbf_journal_forget, commitVars, procVars
<1>5. /\ use'[b] = "freed" /\ freed'[b] = running /\ orphan'[b] = running
      /\ \A c \in Blocks \ {b} : use'[c] = use[c] /\ orphan'[c] = orphan[c] /\ freed'[c] = freed[c]
  BY <1>2, <1>3, Groups DEF Base, FsType, jbdbf_journal_forget
<1>6. Touches(b) /\ r = Forget(s, running)
  <2>1. buf' = [buf EXCEPT ![b] = Forget(s, running)]
    BY <1>3 DEF jbdbf_journal_forget
  <2>2. Forget(s, running) \in Buffer
    BY <1>2, <1>3, ForgetType DEF Base
  <2> QED
    BY <1>2, <2>1, <2>2, OneBuffer DEF Base
<1>7. /\ r.data = s.data /\ r.b_cp_transaction = s.b_cp_transaction /\ ~r.freed
      /\ r.b_next_transaction = 0 /\ r.b_transaction \in {0, s.b_transaction}
      /\ \/ /\ s.b_transaction = running /\ s.b_cp_transaction # 0
            /\ r.b_transaction = running /\ r.b_jlist = "Forget" /\ ~r.dirty /\ ~r.jbddirty
         \/ /\ s.b_transaction = running /\ s.b_cp_transaction = 0
            /\ r.b_transaction = 0 /\ r.b_jlist = "None" /\ ~r.dirty /\ ~r.jbddirty
         \/ /\ s.b_transaction # running
            /\ r.b_transaction = s.b_transaction /\ r.b_jlist = s.b_jlist
            /\ r.dirty = s.dirty /\ r.jbddirty = s.jbddirty
  <2>1. s.b_transaction # committing => s.b_next_transaction = 0
    BY <1>2 DEF Listed
  <2>2. CASE s.b_transaction = running /\ s.b_cp_transaction # 0
    BY <1>3, <1>6, <2>1, <2>2, ForgetPinned
  <2>3. CASE s.b_transaction = running /\ s.b_cp_transaction = 0
    BY <1>3, <1>6, <2>1, <2>3, ForgetUnfiled
  <2>4. CASE s.b_transaction # running /\ s.b_transaction # 0
    BY <1>3, <1>6, <2>4, ForgetOlder
  <2>5. CASE s.b_transaction = 0
    <3>1. committing = 0 \/ s.b_transaction # committing
      BY <2>5
    <3>2. s.b_next_transaction = 0
      BY <1>2, <3>1 DEF Listed
    <3> QED
      BY <1>3, <1>6, <2>5, <3>2, ForgetNone
  <2> QED
    BY <2>2, <2>3, <2>4, <2>5
<1>8. Calm /\ \A c \in Blocks \ {b} : Same(c)
  BY <1>3, <1>4, <1>5, <1>6 DEF Calm, Same, Touches
<1>9. ~New(b) /\ ~Modifying(b) /\ ~Cleaned(b) /\ ~Making(b)
  BY <1>1, Nobody
<1>10. Newest(b)' = Newest(b) /\ Contents(b)' = Contents(b) /\ (InLog(b)' <=> InLog(b))
  BY <1>2, <1>4, SteadyNewest
<1>11. /\ Exposed(b)' => Exposed(b)
       /\ Has(b) => Has(b)'
       /\ ~Doomed(b)' /\ ~Doomed(b)
       /\ Live(b)' <=> Live(b)
  BY <1>3, <1>4, <1>5, <1>7 DEF Exposed, Has, Doomed, Live
<1>12. Followed(b)'
  <2>1. Aged(b)' /\ Grown(b)' /\ Placed(b)'
    BY <1>2, <1>3, <1>4, <1>5, <1>7, <1>9 DEF Aged, Grown, Placed
  <2>2. Dated(b)'
    BY <1>2, <1>4, <1>7 DEF Dated
  <2> QED
    BY <2>1, <2>2 DEF Followed
<1>13. ~aborted => Tagging(b)' /\ Placing(b)' /\ Gone(b)' /\ Allotted(b)'
  BY <1>2, <1>3, <1>4, <1>5 DEF Tagging, Placing, Gone, Allotted
<1>14. Careful => Saved(b)'
  BY <1>2, <1>4, <1>10, <1>11 DEF Saved
<1>15. Careful /\ ~aborted => Closing(b)'
  <2>1. Careful /\ ~aborted /\ s.b_transaction = committing /\ s.b_next_transaction # 0 =>
          ~s.b_modified
    BY <1>1, <1>2, <1>3 DEF Careful, Traced
  <2>2. committing # 0 /\ Has(b) => r.b_transaction = committing /\ Has(b)'
    BY <1>3, <1>4, <1>7, <1>11 DEF Has
  <2>3. committing # 0 => (r.b_transaction = committing <=> s.b_transaction = committing)
    BY <1>3, <1>7
  <2> QED
    BY <1>2, <1>3, <1>4, <1>7, <1>9, <1>11, <2>1, <2>2, <2>3 DEF Closing, Has
<1>16. Careful /\ ~aborted => Marked(b)'
  BY <1>3, <1>4, <1>5, <1>7 DEF Marked
<1>17. Careful /\ ~aborted => Pinned(b)'
  <2> SUFFICES ASSUME Careful, ~aborted PROVE Pinned(b)'
    OBVIOUS
  <2>1. Pinned(b) /\ Saved(b)
    BY <1>2
  <2>2. CASE s.b_transaction = running /\ r.b_jlist = "Forget"
    BY <1>2, <1>3, <1>4, <1>7, <1>10, <1>11, <2>1, <2>2 DEF Pinned, Has, Exposed
  <2>3. CASE s.b_transaction = running /\ s.b_cp_transaction = 0
    <3>1. Live(b) => home[b] = Contents(b)
      BY <1>3, <2>1, <2>3 DEF Pinned, Saved, InLog, Has
    <3>2. ~Exposed(b)'
      BY <1>3, <1>7, <2>3 DEF Exposed
    <3> QED
      BY <1>4, <1>7, <1>10, <1>11, <2>1, <3>1, <3>2 DEF Pinned
  <2>4. CASE s.b_transaction # running
    <3>1. Exposed(b)' <=> Exposed(b)
      BY <1>3, <1>7, <2>4 DEF Exposed
    <3> QED
      BY <1>3, <1>4, <1>7, <1>9, <1>10, <1>11, <2>1, <2>4, <3>1 DEF Pinned
  <2> QED
    BY <1>7, <2>2, <2>3, <2>4
<1> QED
  BY <1>1, <1>4, <1>6, <1>8, <1>12, <1>13, <1>14, <1>15, <1>16, <1>17, ThreadStep
  DEF Good, Ordered, Guarded

\* Shrink
LEMMA ShrinkGood ==
  ASSUME Durable, Struct', NEW p \in Procs, NEW b \in Blocks, Shrink(p, b)
  PROVE  Durable'
<1>1. pc[p] = "open" /\ use[b] = "used" /\ At(b) = {} /\ ~aborted
  BY DEF Shrink
<1>2. /\ Struct /\ Base /\ Order /\ 0 \in committed
      /\ Aged(b) /\ Grown(b) /\ Dated(b) /\ Placed(b)
      /\ Tagging(b) /\ Placing(b) /\ Gone(b) /\ Allotted(b)
      /\ Careful => Saved(b)
      /\ Careful => Closing(b) /\ Marked(b) /\ Pinned(b)
  BY <1>1, Known
<1>3. /\ ~Active(p) /\ ~h_dirty[p] /\ h_tid[p] = running /\ running # 0 /\ running # committing
      /\ running \in Nat /\ committing \in Nat /\ born[b] \in Nat
      /\ running = last /\ running \notin committed /\ (committing # 0 => committing < running)
      /\ version \in Nat /\ orphan[b] = 0 /\ buf \in [Blocks -> Buffer]
  BY <1>1, <1>2, Open, AtBlock, Groups DEF Aged, Base, BufType
<1>4. /\ UNCHANGED <<running, committing, last, phase, todo, committed, closed, tagged>>
      /\ UNCHANGED <<aborted, tail, home, log, version, wrote, tags, born, freed, eio, buf>>
  BY DEF Shrink, commitVars
<1>5. /\ pc'[p] = "shrunk" /\ h_dirty'[p] = h_dirty[p]
      /\ \A q \in Procs \ {p} : pc'[q] = pc[q] /\ h_buf'[q] = h_buf[q] /\ h_dirty'[q] = h_dirty[q]
  BY <1>2, Groups DEF Base, ProcType, Shrink, Goto
<1>6. /\ use'[b] = "orphan" /\ orphan'[b] = running
      /\ \A c \in Blocks \ {b} : use'[c] = use[c] /\ orphan'[c] = orphan[c]
  BY <1>2, <1>3, Groups DEF Base, FsType, Shrink
<1>7. Touches(b) /\ Calm /\ \A c \in Blocks \ {b} : Same(c)
  BY <1>3, <1>4, <1>6 DEF Calm, Same, Touches
<1>8. ~New(b) /\ ~Taken(b) /\ ~Modifying(b) /\ ~Cleaned(b)
  BY <1>1, Nobody
<1>9. Newest(b)' = Newest(b) /\ Contents(b)' = Contents(b) /\ (InLog(b)' <=> InLog(b))
  BY <1>2, <1>4, SteadyNewest
<1>10. /\ Exposed(b)' <=> Exposed(b)
       /\ Has(b)' <=> Has(b)
       /\ ~Doomed(b)' /\ ~Doomed(b)
       /\ Live(b)' <=> Live(b)
  BY <1>3, <1>4, <1>6 DEF Exposed, Has, Doomed, Live
<1>11. Followed(b)'
  BY <1>2, <1>3, <1>4, <1>6, <1>8 DEF Followed, Aged, Grown, Dated, Placed
<1>12. Tagging(b)' /\ Placing(b)'
  BY <1>2, <1>3, <1>4, <1>6, <1>8, <1>10 DEF Tagging, Placing, Retracted
<1>13. Gone(b)' /\ Allotted(b)'
  BY <1>2, <1>3, <1>4, <1>6 DEF Gone, Allotted
<1>14. Careful => Saved(b)'
  BY <1>2, <1>4, <1>9, <1>10 DEF Saved
<1>15. Careful => Closing(b)' /\ Marked(b)'
  BY <1>2, <1>3, <1>4, <1>6, <1>8, <1>10 DEF Closing, Marked
<1>16. Careful => Pinned(b)'
  BY <1>2, <1>4, <1>8, <1>9, <1>10 DEF Pinned
<1>17. Begun(p)'
  BY <1>3, <1>5 DEF Begun
<1> QED
  BY <1>3, <1>4, <1>5, <1>7, <1>11, <1>12, <1>13, <1>14, <1>15, <1>16, <1>17, ProcStep
  DEF Good, Ordered, Guarded

\* FreeBlocks
LEMMA FreeGood ==
  ASSUME Durable, Struct', NEW p \in Procs, NEW b \in Blocks, FreeBlocks(p, b)
  PROVE  Durable'
<1>1. pc[p] = "open" /\ use[b] = "unmapped" /\ ~aborted
  BY DEF FreeBlocks
<1>2. /\ Struct /\ Base /\ Order /\ 0 \in committed
      /\ Aged(b) /\ Grown(b) /\ Dated(b) /\ Placed(b)
      /\ Tagging(b) /\ Placing(b) /\ Gone(b) /\ Allotted(b)
      /\ Careful => Saved(b)
      /\ Careful => Closing(b) /\ Marked(b) /\ Pinned(b)
  BY <1>1, Known
<1>3. /\ h_tid[p] = running /\ running # 0 /\ running # committing
      /\ running \in Nat /\ committing \in Nat /\ born[b] \in Nat /\ orphan[b] \in Nat
      /\ running = last /\ (committing # 0 => committing < running)
      /\ version \in Nat /\ buf \in [Blocks -> Buffer]
  BY <1>1, <1>2, Open, AtBlock, Groups DEF Base, BufType
<1>4. /\ UNCHANGED <<running, committing, last, phase, todo, committed, closed, tagged>>
      /\ UNCHANGED <<aborted, tail, home, log, version, wrote, tags, born, orphan, eio, buf>>
      /\ UNCHANGED <<pc, h_buf, h_dirty>>
  BY DEF FreeBlocks, commitVars, procVars
<1>5. /\ use'[b] = "freed" /\ freed'[b] = running
      /\ \A c \in Blocks \ {b} : use'[c] = use[c] /\ freed'[c] = freed[c]
  BY <1>2, <1>3, Groups DEF Base, FsType, FreeBlocks
<1>6. Touches(b) /\ Calm /\ \A c \in Blocks \ {b} : Same(c)
  BY <1>3, <1>4, <1>5 DEF Calm, Same, Touches
<1>7. Undisturbed(b)
  BY <1>4 DEF Undisturbed
<1>8. /\ New(b) => New(b)'
      /\ Taken(b) => Taken(b)'
      /\ Making(b) => Making(b)'
      /\ Modifying(b) => Modifying(b)'
      /\ Cleaned(b) => Cleaned(b)'
  BY <1>7, StillThere
<1>9. Newest(b)' = Newest(b) /\ Contents(b)' = Contents(b) /\ (InLog(b)' <=> InLog(b))
  BY <1>2, <1>4, SteadyNewest
<1>10. /\ Exposed(b)' <=> Exposed(b)
       /\ Has(b)' <=> Has(b)
       /\ Doomed(b)' <=> Doomed(b)
       /\ Live(b)' <=> Live(b)
  BY <1>4 DEF Exposed, Has, Doomed, Live
<1>11. Followed(b)'
  BY <1>1, <1>2, <1>3, <1>4, <1>5, <1>8 DEF Followed, Aged, Grown, Dated, Placed
<1>12. Tagging(b)' /\ Placing(b)'
  BY <1>2, <1>4, <1>8, <1>10 DEF Tagging, Placing, Retracted
<1>13. Gone(b)' /\ Allotted(b)'
  BY <1>2, <1>3, <1>4, <1>5, <1>8 DEF Gone, Allotted
<1>14. Careful => Saved(b)'
  BY <1>2, <1>4, <1>9, <1>10 DEF Saved
<1>15. Careful => Closing(b)' /\ Marked(b)'
  BY <1>2, <1>4, <1>8, <1>10 DEF Closing, Marked
<1>16. Careful => Pinned(b)'
  BY <1>2, <1>4, <1>8, <1>9, <1>10 DEF Pinned
<1> QED
  BY <1>4, <1>6, <1>11, <1>12, <1>13, <1>14, <1>15, <1>16, ThreadStep DEF Good, Ordered, Guarded

\* jbdbf_journal_start, when there is no running transaction
LEMMA BeginGood ==
  ASSUME Durable, Struct', NEW p \in Procs, jbdbf_journal_start(p), running = 0
  PROVE  Durable'
<1>1. /\ Struct /\ Base /\ Order /\ 0 \in committed
  BY DEF Durable, Order, Struct
<1>2. /\ UNCHANGED <<committing, phase, todo, committed, closed, tagged>>
      /\ UNCHANGED <<aborted, tail, home, log, version, use, born, orphan, freed, eio, buf, h_buf, h_dirty>>
      /\ last' = last + 1 /\ running' = last + 1 /\ wrote' = {} /\ tags' = {}
      /\ pc[p] = "idle" /\ ~aborted
  BY DEF jbdbf_journal_start, blockVars
<1>3. pc'[p] = "open" /\ \A q \in Procs \ {p} : pc'[q] = pc[q]
  BY <1>1, Groups DEF Base, ProcType, jbdbf_journal_start, Goto
<1>4. CommitType /\ last \in Nat /\ committing \in Nat /\ tail \in Nat
  BY <1>1, Groups, Constant DEF Base, CommitType, RestType
<1>5. \A q \in Procs : ~Works(q)
  BY <1>1, Working DEF Works
<1>6. ASSUME NEW q \in Procs PROVE Begun(q)'
  <2>1. Begun(q) /\ ~Works(q)
    BY <1>5 DEF Durable
  <2>2. pc'[q] # "new" /\ ~h_dirty'[q]
    BY <1>2, <1>3, <2>1 DEF Begun, Works
  <2> QED
    BY <2>2 DEF Begun
<1>7. Order'
  <2>1. \A t \in 1 .. last' : t \in committed' \/ t = running' \/ t = committing'
    BY <1>1, <1>2, <1>4 DEF Order
  <2> QED
    BY <1>1, <1>2, <1>4, <2>1 DEF Order
<1>8. ASSUME NEW c \in Blocks PROVE Good(c)'
  <2>1. /\ Listed(c) /\ Aged(c) /\ Grown(c) /\ Dated(c) /\ Placed(c)
        /\ Placing(c) /\ Gone(c) /\ Allotted(c)
        /\ Careful => Saved(c)
        /\ Careful => Closing(c) /\ Marked(c) /\ Pinned(c)
    BY <1>2, Known
  <2>2. /\ born[c] \in Nat /\ orphan[c] \in Nat /\ freed[c] \in Nat
        /\ committing # 0 => committing <= last
    BY <1>1, AtBlock, Tidy
  <2>3. Undisturbed(c)
    BY <1>2, <1>3 DEF Undisturbed, Active
  <2>4. /\ New(c) => New(c)'
        /\ Modifying(c) => Modifying(c)'
        /\ Cleaned(c) => Cleaned(c)'
    BY <2>3, StillThere
  <2>5. Newest(c)' = Newest(c) /\ Contents(c)' = Contents(c) /\ (InLog(c)' <=> InLog(c))
    BY <1>1, <1>2, SteadyNewest
  <2>6. /\ Exposed(c)' <=> Exposed(c)
        /\ Has(c)' <=> Has(c)
        /\ Doomed(c)' <=> Doomed(c)
        /\ Live(c)' <=> Live(c)
    BY <1>2 DEF Exposed, Has, Doomed, Live
  <2>7. Followed(c)'
    BY <1>2, <1>4, <2>1, <2>2, <2>4 DEF Followed, Aged, Grown, Dated, Placed
  <2>8. Tagging(c)' /\ Placing(c)' /\ Gone(c)'
    BY <1>2, <2>1, <2>6 DEF Tagging, Placing, Gone, Retracted
  <2>9. Allotted(c)'
    BY <1>2, <1>4, <2>1, <2>2 DEF Allotted, Aged
  <2>10. Careful => Saved(c)'
    BY <1>2, <2>1, <2>5, <2>6 DEF Saved
  <2>11. Careful => Closing(c)'
    BY <1>2, <2>1, <2>4, <2>6 DEF Closing
  <2>12. Careful => Marked(c)'
    <3>1. buf[c].b_transaction # running'
      BY <1>2, <1>4, <2>1, <2>2 DEF Listed
    <3> QED
      BY <1>2, <2>1, <2>6, <3>1 DEF Marked
  <2>13. Careful => Pinned(c)'
    BY <1>2, <2>1, <2>4, <2>5, <2>6 DEF Pinned
  <2> QED
    BY <2>7, <2>8, <2>9, <2>10, <2>11, <2>12, <2>13 DEF Good, Ordered, Guarded
<1> QED
  BY <1>6, <1>7, <1>8 DEF Durable

\* jbdbf_journal_start
LEMMA StartGood ==
  ASSUME Durable, Struct', NEW p \in Procs, jbdbf_journal_start(p)
  PROVE  Durable'
<1>1. CASE running = 0
  BY <1>1, BeginGood
<1>2. CASE running # 0
  <2>1. /\ UNCHANGED <<running, committing, last, phase, todo, committed, closed, tagged>>
        /\ UNCHANGED <<aborted, tail, home, log, version, wrote, tags, use, born, orphan, freed, eio, buf>>
        /\ UNCHANGED <<h_buf, h_dirty>> /\ pc[p] = "idle"
    BY <1>2 DEF jbdbf_journal_start, blockVars
  <2>2. pc'[p] = "open" /\ \A q \in Procs \ {p} : pc'[q] = pc[q]
    BY Groups DEF Durable, Struct, Base, ProcType, jbdbf_journal_start, Goto
  <2>3. ~Active(p) /\ (~aborted => ~h_dirty[p])
    BY <2>1 DEF Active, Durable, Begun
  <2>4. \A q \in Procs \ {p} : pc'[q] = pc[q] /\ h_buf'[q] = h_buf[q] /\ h_dirty'[q] = h_dirty[q]
    BY <2>1, <2>2
  <2> QED
    BY <2>1, <2>2, <2>3, <2>4, QuietGood
<1> QED
  BY <1>1, <1>2

\* What jbdbf_journal_invalidatepage does to the buffer of a truncated block.
LEMMA UnmapFields ==
  ASSUME Durable, NEW b \in Blocks, use[b] = "orphan"
  PROVE  LET s == buf[b]
             r == Unmap(s)
         IN  /\ r.data = s.data /\ r.b_cp_transaction = s.b_cp_transaction
             /\ \/ /\ s.b_transaction = 0 /\ s.b_jlist = "None"
                   /\ s.b_cp_transaction = 0 \/ ~s.dirty \/ (running = 0 /\ committing = 0)
                   /\ r.b_transaction = 0 /\ r.b_jlist = "None" /\ ~r.dirty /\ ~r.jbddirty
                   /\ ~r.freed
                \/ /\ running # 0
                   /\ s.b_transaction = running \/ (s.b_transaction = 0 /\ s.b_jlist = "None")
                   /\ r.b_transaction = running /\ r.b_jlist = "Forget" /\ ~r.dirty /\ ~r.jbddirty
                \/ /\ running = 0 /\ committing # 0 /\ s.dirty
                   /\ s.b_transaction = 0 /\ s.b_jlist = "None"
                   /\ r.b_transaction = committing /\ r.b_jlist = "Forget" /\ ~r.dirty /\ ~r.jbddirty
                \/ /\ committing # 0 /\ s.b_transaction = committing
                   /\ r.b_transaction = committing /\ r.b_jlist = s.b_jlist
                   /\ r.dirty = s.dirty /\ r.jbddirty = s.jbddirty /\ r.freed
                   /\ s.b_next_transaction # 0 => r.b_next_transaction # 0
                   /\ running # 0 /\ s.jbddirty => r.b_next_transaction # 0
                \/ /\ running # 0 /\ s.b_transaction = running /\ s.b_cp_transaction = 0
                   /\ r.b_transaction = 0 /\ r.b_jlist = "None" /\ ~r.dirty /\ ~r.jbddirty
<1> DEFINE s == buf[b]
           r == Unmap(s)
<1>1. /\ Struct /\ Listed(b) /\ Traced(b) /\ Clean(b) /\ s \in Buffer
      /\ running \in 0 .. MaxTid /\ committing \in 0 .. MaxTid
  BY Known, AtBlock
<1>2. /\ ~s.freed /\ (s.b_transaction = 0 => ~s.jbddirty /\ s.b_jlist = "None")
      /\ s.b_transaction # 0 => s.b_jlist # "None"
      /\ s.b_transaction \in {0, running, committing}
  BY <1>1 DEF Listed, Traced, Clean
<1>3. CASE s.b_transaction = 0 /\ (s.b_cp_transaction = 0 \/ ~s.dirty)
  BY <1>1, <1>2, <1>3, UnmapClean
<1>4. CASE s.b_transaction = 0 /\ s.b_cp_transaction # 0 /\ s.dirty /\ running # 0
  <2>1. r.jbddirty = (s.b_jlist = "None" /\ s.jbddirty)
    BY <1>1, <1>4, UnmapRunning
  <2>2. ~r.jbddirty
    BY <1>2, <1>4, <2>1
  <2> QED
    BY <1>1, <1>2, <1>4, <2>2, UnmapRunning
<1>5. CASE s.b_transaction = 0 /\ s.b_cp_transaction # 0 /\ s.dirty /\ running = 0 /\ committing # 0
  <2>1. r.jbddirty = (s.b_jlist = "None" /\ s.jbddirty)
    BY <1>1, <1>5, UnmapCommitting
  <2>2. ~r.jbddirty
    BY <1>2, <1>5, <2>1
  <2> QED
    BY <1>1, <1>2, <1>5, <2>2, UnmapCommitting
<1>6. CASE s.b_transaction = 0 /\ s.b_cp_transaction # 0 /\ s.dirty /\ running = 0 /\ committing = 0
  BY <1>1, <1>2, <1>6, UnmapIdle
<1>7. CASE s.b_transaction # 0 /\ s.b_transaction = committing
  BY <1>1, <1>2, <1>7, UnmapOlder
<1>8. CASE s.b_transaction # 0 /\ s.b_transaction # committing /\ s.b_cp_transaction # 0
  <2>1. r.jbddirty = (s.b_jlist = "None" /\ s.jbddirty)
    BY <1>1, <1>8, UnmapOwnPinned
  <2>2. ~r.jbddirty
    BY <1>2, <1>8, <2>1
  <2> QED
    BY <1>1, <1>2, <1>8, <2>2, UnmapOwnPinned
<1>9. CASE s.b_transaction # 0 /\ s.b_transaction # committing /\ s.b_cp_transaction = 0
  <2>1. r.jbddirty = (s.b_jlist = "None" /\ s.jbddirty)
    BY <1>1, <1>9, UnmapOwn
  <2>2. ~r.jbddirty
    BY <1>2, <1>9, <2>1
  <2> QED
    BY <1>1, <1>2, <1>9, <2>2, UnmapOwn
<1> QED
  BY <1>3, <1>4, <1>5, <1>6, <1>7, <1>8, <1>9

\* jbdbf_journal_invalidatepage
LEMMA InvalidateGood ==
  ASSUME Durable, Struct', NEW b \in Blocks, jbdbf_journal_invalidatepage(b)
  PROVE  Durable'
<1> DEFINE s == buf[b]
           r == buf'[b]
<1>1. /\ use[b] = "orphan" /\ At(b) = {}
      /\ b \in tags /\ s.b_transaction = running => Retracts
  BY DEF jbdbf_journal_invalidatepage
<1>2. /\ Struct /\ Base /\ Order /\ 0 \in committed
      /\ Listed(b) /\ (~aborted => Bits(b)) /\ Traced(b)
      /\ Aged(b) /\ Grown(b) /\ Dated(b) /\ Placed(b)
      /\ ~aborted => Tagging(b) /\ Placing(b) /\ Gone(b) /\ Allotted(b)
      /\ Careful => Saved(b)
      /\ Careful /\ ~aborted => Closing(b) /\ Marked(b) /\ Pinned(b)
  BY <1>1, Known
<1>3. /\ running \in Nat /\ committing \in Nat /\ last \in Nat
      /\ running # 0 => running # committing /\ running = last
      /\ s \in Buffer /\ version \in Nat /\ s.b_jlist \in Lists
      /\ born[b] \in Nat /\ orphan[b] \in Nat
  BY <1>2, AtBlock, Tidy, Fields
<1>4. orphan[b] # 0 /\ orphan[b] <= last /\ born[b] <= orphan[b]
  BY <1>1, <1>2 DEF Aged
<1>5. /\ UNCHANGED <<running, committing, last, phase, todo, committed, closed, tagged>>
      /\ UNCHANGED <<aborted, tail, home, log, version, tags, born, orphan, freed, eio, pc, h_buf, h_dirty>>
      /\ wrote' = wrote \ {b}
  BY DEF jbdbf_journal_invalidatepage, commitVars, procVars
<1>6. use'[b] = "unmapped" /\ \A c \in Blocks \ {b} : use'[c] = use[c]
  BY <1>2, Groups DEF Base, FsType, jbdbf_journal_invalidatepage
<1>7. Touches(b) /\ r = Unmap(s)
  BY <1>2, InvalidateEffect DEF Base
<1>8. Calm /\ \A c \in Blocks \ {b} : Same(c)
  BY <1>3, <1>5, <1>6, <1>7 DEF Calm, Same, Touches
<1>9. ~New(b) /\ ~Taken(b) /\ ~Modifying(b) /\ ~Cleaned(b) /\ ~Making(b)
  BY <1>1, Nobody
<1>10. Newest(b)' = Newest(b) /\ Contents(b)' = Contents(b) /\ (InLog(b)' <=> InLog(b))
  BY <1>2, <1>5, SteadyNewest
<1>11. (Doomed(b)' <=> Doomed(b)) /\ (Live(b)' <=> Live(b))
  BY <1>5 DEF Doomed, Live
<1>12. /\ r.data = s.data /\ r.b_cp_transaction = s.b_cp_transaction
       /\ Exposed(b)' => Exposed(b)
       /\ r.b_jlist = "Dirtydata" => s.b_jlist = "Dirtydata" /\ r.b_transaction = s.b_transaction
  BY <1>1, <1>3, <1>7, UnmapFields DEF Exposed
<1>13. ~aborted /\ running = 0 /\ committing # 0 => Doomed(b)
  <2>1. ~aborted /\ running = 0 => last \in committed \/ last = committing
    BY <1>2, <1>3, <1>4 DEF Order
  <2>2. committing # 0 /\ last \in committed => last <= committing
    BY <1>2, Tidy
  <2> QED
    BY <1>3, <1>4, <2>1, <2>2 DEF Doomed
<1>14. ~aborted /\ running = 0 /\ committing = 0 => ~Live(b)
  BY <1>2, <1>3, <1>4 DEF Order, Live
<1>15. Followed(b)'
  <2>1. Aged(b)' /\ Grown(b)' /\ Placed(b)'
    BY <1>2, <1>4, <1>5, <1>6, <1>9, <1>12 DEF Aged, Grown, Placed
  <2>2. Dated(b)'
    BY <1>2, <1>5, <1>12 DEF Dated
  <2> QED
    BY <2>1, <2>2 DEF Followed
<1>16. running # 0 /\ born[b] = running => orphan[b] = running
  BY <1>3, <1>4
<1>17. ~aborted => Tagging(b)'
  BY <1>1, <1>2, <1>3, <1>5, <1>16 DEF Tagging, Retracted
<1>18. ~aborted => Gone(b)' /\ Allotted(b)'
  BY <1>2, <1>5, <1>6, <1>9, <1>16 DEF Gone, Allotted
<1>19. Careful => Saved(b)'
  BY <1>2, <1>5, <1>10, <1>11, <1>12 DEF Saved
<1>20. CASE aborted
  BY <1>1, <1>5, <1>7, <1>8, <1>15, <1>19, <1>20, ThreadStep DEF Good
<1>21. CASE ~aborted
  <2>1. /\ Bits(b) /\ Tagging(b) /\ Placing(b) /\ Gone(b) /\ Allotted(b)
        /\ Careful => Closing(b) /\ Marked(b) /\ Pinned(b)
    BY <1>2, <1>21
  <2> DEFINE Ours == Placing(b)' /\ (Careful => Closing(b)' /\ Marked(b)' /\ Pinned(b)')
  <2>2. Ours => Durable'
    BY <1>1, <1>5, <1>7, <1>8, <1>15, <1>17, <1>18, <1>19, <1>21, ThreadStep
    DEF Good, Ordered, Guarded
  <2>3. CASE /\ s.b_transaction = 0 /\ s.b_jlist = "None"
             /\ s.b_cp_transaction = 0 \/ ~s.dirty \/ (running = 0 /\ committing = 0)
             /\ r.b_transaction = 0 /\ r.b_jlist = "None" /\ ~r.dirty /\ ~r.jbddirty
             /\ ~r.freed
    <3>1. Placing(b)'
      BY <1>5, <1>12, <2>1, <2>3 DEF Placing, Retracted
    <3>2. Careful => Closing(b)' /\ Marked(b)'
      BY <1>5, <1>11, <2>1, <2>3 DEF Closing, Marked, Has
    <3>3. Careful => Pinned(b)'
      <4> SUFFICES ASSUME Careful PROVE Pinned(b)'
        OBVIOUS
      <4>1. Pinned(b) /\ Saved(b)
        BY <1>2, <2>1
      <4>2. ~Exposed(b)' /\ ~Has(b)
        BY <2>3 DEF Exposed, Has
      <4>3. Live(b) => home[b] = Contents(b) \/ b \in eio
        BY <1>9, <1>14, <1>21, <2>3, <4>1 DEF Pinned, Saved, InLog, Exposed
      <4>4. Live(b) => home[b] = Contents(b) \/ s.b_cp_transaction = Newest(b)
        BY <4>1, <4>2 DEF Pinned
      <4> QED
        BY <1>5, <1>10, <1>11, <1>12, <4>1, <4>2, <4>3, <4>4 DEF Pinned
    <3> QED
      BY <2>2, <3>1, <3>2, <3>3
  <2>4. CASE /\ running # 0
             /\ s.b_transaction = running \/ (s.b_transaction = 0 /\ s.b_jlist = "None")
             /\ r.b_transaction = running /\ r.b_jlist = "Forget" /\ ~r.dirty /\ ~r.jbddirty
    <3>1. Placing(b)'
      BY <1>3, <1>5, <1>12, <2>1, <2>4 DEF Placing, Retracted
    <3>2. Careful => Closing(b)' /\ Marked(b)'
      BY <1>3, <1>4, <1>5, <1>11, <2>1, <2>4 DEF Closing, Marked, Has
    <3>3. Careful => Pinned(b)'
      <4>1. ~Exposed(b)' /\ ~Has(b)
        BY <1>3, <2>4 DEF Exposed, Has
      <4> QED
        BY <1>5, <1>10, <1>11, <1>12, <2>1, <2>4, <4>1 DEF Pinned
    <3> QED
      BY <2>2, <3>1, <3>2, <3>3
  <2>5. CASE /\ running = 0 /\ committing # 0 /\ s.dirty
             /\ s.b_transaction = 0 /\ s.b_jlist = "None"
             /\ r.b_transaction = committing /\ r.b_jlist = "Forget" /\ ~r.dirty /\ ~r.jbddirty
    <3>1. Placing(b)'
      BY <1>5, <1>12, <2>1, <2>5 DEF Placing, Retracted, Exposed
    <3>2. Doomed(b)
      BY <1>13, <1>21, <2>5
    <3>3. Closing(b)' /\ Marked(b)'
      BY <1>3, <1>5, <1>11, <2>5, <3>2 DEF Closing, Marked
    <3>4. Careful => Pinned(b)'
      <4>1. ~Exposed(b)' /\ ~Has(b)
        BY <2>5 DEF Exposed, Has
      <4> QED
        BY <1>5, <1>10, <1>11, <1>12, <2>1, <2>5, <4>1 DEF Pinned
    <3> QED
      BY <2>2, <3>1, <3>3, <3>4
  <2>6. CASE /\ committing # 0 /\ s.b_transaction = committing
             /\ r.b_transaction = committing /\ r.b_jlist = s.b_jlist
             /\ r.dirty = s.dirty /\ r.jbddirty = s.jbddirty /\ r.freed
             /\ s.b_next_transaction # 0 => r.b_next_transaction # 0
             /\ running # 0 /\ s.jbddirty => r.b_next_transaction # 0
    <3>1. (Exposed(b)' <=> Exposed(b)) /\ (Has(b)' <=> Has(b))
      BY <1>5, <2>6 DEF Exposed, Has
    <3>2. Placing(b)'
      BY <1>5, <1>12, <2>1, <2>6, <3>1 DEF Placing, Retracted
    <3>3. Careful => Closing(b)'
      BY <1>5, <1>9, <1>11, <1>12, <2>1, <2>6, <3>1 DEF Closing
    <3>4. Careful /\ s.b_jlist # "Dirtydata" /\ ~s.jbddirty => Doomed(b)
      BY <1>3, <1>4, <2>1, <2>6 DEF Closing, Placing, Has, Doomed, Retracted
    <3>5. Careful => Marked(b)'
      BY <1>3, <1>5, <1>11, <1>13, <1>21, <2>6, <3>4 DEF Marked
    <3>6. Careful => Pinned(b)'
      BY <1>5, <1>9, <1>10, <1>11, <1>12, <2>1, <2>6, <3>1 DEF Pinned
    <3> QED
      BY <2>2, <3>2, <3>3, <3>5, <3>6
  <2>7. CASE /\ running # 0 /\ s.b_transaction = running /\ s.b_cp_transaction = 0
             /\ r.b_transaction = 0 /\ r.b_jlist = "None" /\ ~r.dirty /\ ~r.jbddirty
    <3>1. Placing(b)'
      BY <1>3, <1>5, <1>12, <2>1, <2>7 DEF Placing, Retracted
    <3>2. Careful => Closing(b)' /\ Marked(b)'
      BY <1>3, <1>5, <1>11, <2>1, <2>7 DEF Closing, Marked, Has
    <3>3. Careful => Pinned(b)'
      <4> SUFFICES ASSUME Careful PROVE Pinned(b)'
        OBVIOUS
      <4>1. Pinned(b) /\ Saved(b)
        BY <1>2, <2>1
      <4>2. ~Exposed(b)' /\ ~Has(b)
        BY <1>3, <2>7 DEF Exposed, Has
      <4>3. Live(b) => home[b] = Contents(b)
        BY <2>7, <4>1, <4>2 DEF Pinned, Saved, InLog
      <4> QED
        BY <1>5, <1>10, <1>11, <1>12, <4>1, <4>2, <4>3 DEF Pinned
    <3> QED
      BY <2>2, <3>1, <3>2, <3>3
  <2> QED
    BY <1>1, <1>7, <2>3, <2>4, <2>5, <2>6, <2>7, UnmapFields
<1> QED
  BY <1>20, <1>21

-----------------------------------------------------------------------------
(* Writing blocks in place and into the log keeps the contents of the last commit. *)

\* The journal thread and writeback do not disturb the processes.
LEMMA Sleepers ==
  ASSUME NEW c, UNCHANGED <<h_buf, h_dirty>>,
         \A q \in Procs : pc'[q] = pc[q] \/ (pc[q] = "asleep" /\ pc'[q] = "shadow")
  PROVE  /\ New(c) => New(c)'
         /\ Taken(c) => Taken(c)'
         /\ Making(c) => Making(c)'
         /\ Modifying(c) => Modifying(c)'
         /\ Cleaned(c) => Cleaned(c)'
<1>1. Undisturbed(c)
  BY DEF Undisturbed, Active
<1> QED
  BY <1>1, StillThere

\* A buffer is written in place.
LEMMA WrittenGood ==
  ASSUME Durable, Struct', ~Drops, NEW b \in Blocks, NEW ok \in BOOLEAN, Written(b, ok),
         UNCHANGED <<running, committing, last, phase, committed, closed, tagged>>,
         UNCHANGED <<aborted, tail, log, version, wrote, tags, use, born, orphan, freed>>,
         UNCHANGED <<pc, h_buf, h_dirty>>, todo' \in {todo, todo \ {b}}
  PROVE  Durable'
<1> DEFINE s == buf[b]
           r == buf'[b]
<1>1. /\ Struct /\ Base /\ Order /\ 0 \in committed
      /\ Listed(b) /\ (~aborted => Bits(b))
      /\ Aged(b) /\ Grown(b) /\ Dated(b) /\ Placed(b)
      /\ ~aborted => Tagging(b) /\ Placing(b) /\ Gone(b) /\ Allotted(b)
      /\ Careful => Saved(b)
      /\ Careful /\ ~aborted => Closing(b) /\ Marked(b) /\ Pinned(b)
  BY Known
<1>2. /\ s \in Buffer /\ version \in Nat /\ home[b] \in Nat /\ s.data \in Nat /\ s.b_jlist \in Lists
      /\ committed \ {0} \subseteq Tids
      /\ \A t \in Tids : closed[t][b] \in Nat \cup {None}
  BY <1>1, AtBlock, Fields
<1>3. /\ Touches(b)
      /\ home' = IF ok /\ s.dirty THEN [home EXCEPT ![b] = s.data] ELSE home
      /\ r.b_transaction = s.b_transaction
      /\ r.b_next_transaction = s.b_next_transaction /\ r.b_jlist = s.b_jlist
      /\ r.b_modified = s.b_modified
      /\ r.b_cp_transaction = s.b_cp_transaction /\ r.data = s.data /\ ~r.dirty
      /\ r.jbddirty = s.jbddirty /\ r.freed = s.freed
  BY <1>1, WrittenEffect DEF Base
<1>4. /\ home'[b] = (IF ok /\ s.dirty THEN s.data ELSE home[b])
      /\ \A c \in Blocks \ {b} : home'[c] = home[c] /\ (c \in eio' <=> c \in eio)
  BY <1>1, <1>3, Groups DEF Base, RestType, Written
<1>18. /\ ~ok => s.b_jlist # "Dirtydata"
       /\ ~ok /\ s.dirty => b \in eio'
       /\ ~s.dirty => (b \in eio' <=> b \in eio)
  BY DEF Written
<1>5. Calm /\ \A c \in Blocks \ {b} : Same(c)
  BY <1>2, <1>3, <1>4 DEF Calm, Same, Touches
<1>6. /\ New(b) => New(b)'
      /\ Taken(b) => Taken(b)'
      /\ Making(b) => Making(b)'
      /\ Modifying(b) => Modifying(b)'
      /\ Cleaned(b) => Cleaned(b)'
  BY Sleepers
<1>7. s.dirty => ~New(b) /\ ~Modifying(b)
  <2>1. \A q \in Procs : Owner(q)
    BY <1>1 DEF Struct, OwnInv
  <2> QED
    BY <1>1, <2>1 DEF Owner, Holding, New, Modifying, Listed
<1>8. Newest(b)' = Newest(b) /\ Contents(b)' = Contents(b) /\ (InLog(b)' <=> InLog(b))
  BY <1>1, SteadyNewest
<1>9. /\ Exposed(b)' => Exposed(b)
      /\ s.dirty => ~Exposed(b)' /\ Exposed(b)
      /\ ~s.dirty => (Exposed(b)' <=> Exposed(b))
      /\ Has(b)' <=> Has(b)
      /\ Doomed(b)' <=> Doomed(b)
      /\ Live(b)' <=> Live(b)
  BY <1>1, <1>2, <1>3 DEF Exposed, Has, Doomed, Live, Listed
<1>10. home[b] <= home'[b] /\ home'[b] \in Nat
  BY <1>1, <1>2, <1>4, <1>7 DEF Grown
<1>11. Followed(b)'
  <2>1. Placed(b)'
    BY <1>1, <1>2, <1>10 DEF Placed, None
  <2>2. Grown(b)'
    BY <1>1, <1>2, <1>3, <1>4, <1>6 DEF Grown
  <2> QED
    BY <1>1, <1>3, <2>1, <2>2 DEF Followed, Aged, Dated
<1>12. ~aborted => Tagging(b)'
  BY <1>1, <1>3, <1>4, <1>6, <1>18 DEF Tagging, Retracted
<1>13. ~aborted => Placing(b)'
  BY <1>1, <1>3, <1>4, <1>9, <1>18 DEF Placing, Retracted, Exposed
<1>14. ~aborted => Gone(b)' /\ Allotted(b)'
  BY <1>1, <1>6 DEF Gone, Allotted
<1>15. Careful => Saved(b)'
  BY <1>1, <1>4, <1>8, <1>9 DEF Saved
<1>16. Careful /\ ~aborted => Closing(b)' /\ Marked(b)'
  BY <1>1, <1>3, <1>6, <1>9 DEF Closing, Marked
<1>17. Careful /\ ~aborted => Pinned(b)'
  BY <1>1, <1>3, <1>4, <1>6, <1>7, <1>8, <1>9, <1>18 DEF Pinned
<1> QED
  BY <1>3, <1>5, <1>11, <1>12, <1>13, <1>14, <1>15, <1>16, <1>17, ThreadStep
  DEF Good, Ordered, Guarded

\* No process moves and no block is touched but by the log.
LEMMA StillGood ==
  ASSUME Durable, Struct', Calm, \A c \in Blocks : Same(c), UNCHANGED <<pc, h_buf, h_dirty>>
  PROVE  Durable'
<1>1. Order'
  BY DEF Durable, Order, Calm
<1>2. ASSUME NEW c \in Blocks PROVE Good(c)'
  <2>1. Undisturbed(c)
    BY DEF Undisturbed
  <2> QED
    BY <2>1, Frame
<1>3. ASSUME NEW q \in Procs PROVE Begun(q)'
  <2>1. Begun(q) /\ (Works(q) => h_buf[q] \in Blocks) /\ Data \subseteq Blocks
    BY Working, Constant DEF Durable, Struct, Works
  <2> QED
    BY <2>1 DEF Begun, Calm, Same, Works
<1> QED
  BY <1>1, <1>2, <1>3 DEF Durable

\* LogIO
LEMMA LogIOGood ==
  ASSUME Durable, Struct', LogIO
  PROVE  Durable'
<1>1. PICK b \in Blocks :
        /\ io[b] \in {"page", "frozen"} /\ io' = [io EXCEPT ![b] = "done"]
        /\ log' = [log EXCEPT ![committing][b] =
                     IF io[b] = "page" THEN buf[b].data ELSE buf[b].b_frozen_data]
  BY DEF LogIO
<1>2. /\ UNCHANGED <<running, committing, last, phase, todo, committed, closed, tagged>>
      /\ UNCHANGED <<aborted, tail, home, version, wrote, tags, use, born, orphan, freed, eio, buf>>
      /\ UNCHANGED <<pc, h_buf, h_dirty>>
  BY DEF LogIO, commitVars, procVars, blockVars
<1>3. Struct /\ Listed(b) /\ version \in Nat
  BY Known, AtBlock
<1>4. committing # 0 /\ phase \in {"log", "wait_for_data", "wait_for_iobuf"}
  BY <1>1, <1>3 DEF Listed, PhaseLists
<1>5. committing \notin committed
  BY <1>3, <1>4, Tidy
<1>6. \A t \in committed \ {0} : log'[t] = log[t]
  BY <1>1, <1>3, <1>5, CommittedTids, Groups DEF Struct, Base, RestType
<1>7. Calm /\ \A c \in Blocks : Same(c)
  BY <1>2, <1>3, <1>6 DEF Calm, Same
<1> QED
  BY <1>2, <1>7, StillGood

\* WriteBack
LEMMA WriteBackGood ==
  ASSUME Durable, Struct', ~Drops, NEW b \in Blocks, WriteBack(b)
  PROVE  Durable'
<1>1. PICK ok \in BOOLEAN : Written(b, ok)
  BY DEF WriteBack
<1> QED
  BY <1>1, WrittenGood DEF WriteBack, commitVars, procVars

\* The commit takes a buffer to its next list.
LEMMA MovedGood ==
  ASSUME Durable, Struct', NEW b \in Blocks, committing # 0, buf[b].b_transaction = committing,
         buf[b].b_jlist \in {"Metadata", "Shadow"},
         UNCHANGED <<running, committing, last, phase, todo, committed, closed, tagged>>,
         UNCHANGED <<aborted, tail, home, log, version, wrote, tags, use, born, orphan, freed, eio>>,
         UNCHANGED <<h_buf, h_dirty>>,
         \A q \in Procs : pc'[q] = pc[q] \/ (pc[q] = "asleep" /\ pc'[q] = "shadow"),
         Touches(b), buf'[b].b_jlist \in {"Shadow", "Forget"},
         buf'[b].b_transaction = buf[b].b_transaction,
         buf'[b].b_next_transaction = buf[b].b_next_transaction,
         buf'[b].b_modified = buf[b].b_modified,
         buf'[b].b_cp_transaction = buf[b].b_cp_transaction, buf'[b].data = buf[b].data,
         buf'[b].dirty = (buf[b].dirty /\ buf[b].jbddirty),
         buf'[b].jbddirty = (buf[b].dirty \/ buf[b].jbddirty), buf'[b].freed = buf[b].freed
  PROVE  Durable'
<1> DEFINE s == buf[b]
           r == buf'[b]
<1>1. /\ Struct /\ Base /\ Order /\ 0 \in committed
      /\ Listed(b) /\ (~aborted => Bits(b))
      /\ Aged(b) /\ Grown(b) /\ Dated(b) /\ Placed(b)
      /\ ~aborted => Tagging(b) /\ Placing(b) /\ Gone(b) /\ Allotted(b)
      /\ Careful => Saved(b)
      /\ Careful /\ ~aborted => Closing(b) /\ Marked(b) /\ Pinned(b)
  BY Known
<1>2. version \in Nat /\ running # committing
  BY <1>1, AtBlock, Committing
<1>3. ~s.dirty
  BY <1>1 DEF Listed
<1>4. ~r.dirty /\ (r.jbddirty <=> s.jbddirty)
  BY <1>3
<1>5. Calm /\ \A c \in Blocks \ {b} : Same(c)
  BY <1>2 DEF Calm, Same, Touches
<1>6. /\ New(b) => New(b)'
      /\ Taken(b) => Taken(b)'
      /\ Making(b) => Making(b)'
      /\ Modifying(b) => Modifying(b)'
      /\ Cleaned(b) => Cleaned(b)'
  BY Sleepers
<1>7. Newest(b)' = Newest(b) /\ Contents(b)' = Contents(b) /\ (InLog(b)' <=> InLog(b))
  BY <1>1, SteadyNewest
<1>8. /\ ~Exposed(b)' /\ ~Exposed(b)
      /\ Has(b)' <=> Has(b)
      /\ Doomed(b)' <=> Doomed(b)
      /\ Live(b)' <=> Live(b)
  BY <1>3, <1>4 DEF Exposed, Has, Doomed, Live
<1>9. Followed(b)'
  BY <1>1, <1>6 DEF Followed, Aged, Grown, Dated, Placed
<1>10. ~aborted => Tagging(b)'
  BY <1>1, <1>2 DEF Tagging, Retracted
<1>11. ~aborted => Placing(b)'
  BY <1>1 DEF Placing, Retracted
<1>12. ~aborted => Gone(b)' /\ Allotted(b)'
  BY <1>1, <1>6 DEF Gone, Allotted
<1>13. Careful => Saved(b)'
  BY <1>1, <1>7, <1>8 DEF Saved
<1>14. Careful /\ ~aborted => Closing(b)' /\ Marked(b)'
  BY <1>1, <1>2, <1>6, <1>8 DEF Closing, Marked
<1>15. Careful /\ ~aborted => Pinned(b)'
  BY <1>1, <1>7, <1>8 DEF Pinned
<1> QED
  BY <1>2, <1>5, <1>9, <1>10, <1>11, <1>12, <1>13, <1>14, <1>15, ThreadStep
  DEF Good, Ordered, Guarded

\* The journal is aborted: a buffer is not logged.
LEMMA DropGood ==
  ASSUME Durable, Struct', NEW b \in Blocks, committing # 0, buf[b].b_transaction = committing,
         buf[b].b_jlist = "Metadata", aborted,
         UNCHANGED <<running, committing, last, phase, todo, committed, closed, tagged>>,
         UNCHANGED <<aborted, tail, home, log, version, wrote, tags, use, born, orphan, freed, eio>>,
         UNCHANGED <<pc, h_buf, h_dirty>>,
         Touches(b), buf'[b] = refile([buf[b] EXCEPT !.jbddirty = FALSE])
  PROVE  Durable'
<1> DEFINE s == buf[b]
           r == buf'[b]
<1>1. /\ Struct /\ Base /\ Order /\ 0 \in committed /\ Listed(b)
      /\ Aged(b) /\ Grown(b) /\ Dated(b) /\ Placed(b) /\ (Careful => Saved(b))
  BY Known
<1>2. version \in Nat /\ s \in Buffer /\ running \in 0 .. MaxTid /\ running # committing
  BY <1>1, AtBlock, Committing
<1>3. ~s.dirty /\ s.b_next_transaction \in {0, running}
  BY <1>1 DEF Listed
<1>4. /\ r.b_transaction = s.b_next_transaction /\ r.data = s.data /\ r.b_jlist # "Dirtydata"
      /\ r.dirty = (s.b_next_transaction = 0 /\ s.dirty)
      /\ r.jbddirty = (s.b_next_transaction # 0 /\ s.dirty)
  BY <1>2, Dropped
<1>5. ~r.dirty /\ ~r.jbddirty
  BY <1>3, <1>4
<1>6. Calm /\ \A c \in Blocks \ {b} : Same(c)
  BY <1>2 DEF Calm, Same, Touches
<1>7. New(b) => New(b)'
  BY Sleepers
<1>8. Contents(b)' = Contents(b) /\ (InLog(b)' <=> InLog(b))
  BY <1>1, SteadyNewest
<1>9. ~Exposed(b)' /\ (Live(b)' <=> Live(b))
  BY <1>5 DEF Exposed, Live
<1>10. Followed(b)'
  BY <1>1, <1>4, <1>7 DEF Followed, Aged, Grown, Dated, Placed
<1>11. Careful => Saved(b)'
  BY <1>1, <1>8, <1>9 DEF Saved
<1> QED
  BY <1>3, <1>4, <1>6, <1>10, <1>11, ThreadStep DEF Good

\* Data that was written in place leaves the committing transaction.
LEMMA RefileGood ==
  ASSUME Durable, Struct', NEW b \in Blocks, committing # 0, buf[b].b_transaction = committing,
         buf[b].b_jlist = "Dirtydata", phase = "wait_for_data",
         UNCHANGED <<running, committing, last, phase, todo, committed, closed, tagged>>,
         UNCHANGED <<aborted, tail, home, log, version, wrote, tags, use, born, orphan, freed, eio>>,
         UNCHANGED <<pc, h_buf, h_dirty>>,
         Touches(b), buf'[b] = refile(buf[b])
  PROVE  Durable'
<1> DEFINE s == buf[b]
           r == buf'[b]
<1>1. /\ Struct /\ Base /\ Order /\ 0 \in committed
      /\ Listed(b) /\ Clean(b)
      /\ Aged(b) /\ Grown(b) /\ Dated(b) /\ Placed(b)
      /\ ~aborted => Tagging(b) /\ Placing(b) /\ Gone(b) /\ Allotted(b)
      /\ Careful => Saved(b)
      /\ Careful /\ ~aborted => Closing(b) /\ Marked(b) /\ Pinned(b)
  BY Known
<1>2. /\ version \in Nat /\ s \in Buffer /\ running \in 0 .. MaxTid /\ running # committing
      /\ committing \notin committed
  BY <1>1, AtBlock, Committing, Tidy
<1>3. ~s.dirty /\ ~s.jbddirty /\ s.b_next_transaction = 0
  BY <1>1 DEF Listed, Clean, On
<1>4. /\ r.b_transaction = s.b_next_transaction /\ r.b_next_transaction = 0 /\ r.data = s.data
      /\ r.b_jlist = "None" /\ r.b_cp_transaction = s.b_cp_transaction
      /\ r.dirty = (s.b_next_transaction = 0 /\ (s.dirty \/ s.jbddirty))
      /\ r.jbddirty = (s.b_next_transaction # 0 /\ (s.dirty \/ s.jbddirty))
  BY <1>2, <1>3, RefiledFields
<1>5. ~r.dirty /\ ~r.jbddirty /\ r.b_transaction = 0
  BY <1>3, <1>4
<1>6. Calm /\ \A c \in Blocks \ {b} : Same(c)
  BY <1>2 DEF Calm, Same, Touches
<1>7. (New(b) => New(b)') /\ (Making(b) => Making(b)')
  BY Sleepers
<1>8. ~Exposed(b)' /\ ~Live(b)' /\ (Doomed(b)' <=> Doomed(b))
  BY <1>1, <1>2, <1>5 DEF Exposed, Live, Doomed, Dated
<1>9. Followed(b)'
  BY <1>1, <1>4, <1>7 DEF Followed, Aged, Grown, Dated, Placed
<1>10. ~aborted => Tagging(b)' /\ Placing(b)'
  BY <1>1, <1>2, <1>5, <1>8 DEF Tagging, Placing, Retracted, Dated
<1>11. ~aborted => Gone(b)' /\ Allotted(b)'
  BY <1>1, <1>7 DEF Gone, Allotted
<1>12. Saved(b)'
  BY <1>8 DEF Saved
<1>13. Careful /\ ~aborted => Closing(b)'
  BY <1>1, <1>8 DEF Closing, Has
<1>14. Careful /\ ~aborted => Marked(b)' /\ Pinned(b)'
  BY <1>1, <1>4, <1>5, <1>8 DEF Marked, Pinned
<1> QED
  BY <1>5, <1>6, <1>9, <1>10, <1>11, <1>12, <1>13, <1>14, ThreadStep DEF Good, Ordered, Guarded

\* RemoveCheckpoint
LEMMA RemoveGood ==
  ASSUME Durable, Struct', ~Drops, NEW b \in Blocks, RemoveCheckpoint(b)
  PROVE  Durable'
<1> DEFINE s == buf[b]
           r == buf'[b]
<1>1. /\ Struct /\ Base /\ Order /\ 0 \in committed /\ Listed(b)
      /\ Aged(b) /\ Grown(b) /\ Dated(b) /\ Placed(b)
      /\ ~aborted => Tagging(b) /\ Placing(b) /\ Gone(b) /\ Allotted(b)
      /\ Careful => Saved(b)
      /\ Careful /\ ~aborted => Closing(b) /\ Marked(b) /\ Pinned(b)
  BY Known
<1>2. /\ UNCHANGED <<running, committing, last, phase, todo, committed, closed, tagged>>
      /\ UNCHANGED <<aborted, tail, home, log, version, wrote, tags, use, born, orphan, freed, eio>>
      /\ UNCHANGED <<pc, h_buf, h_dirty>> /\ s.b_jlist = "None" /\ ~s.dirty /\ b \notin eio
  BY DEF RemoveCheckpoint, Uncheckpoint, commitVars, procVars, blockVars
<1>3. version \in Nat /\ s \in Buffer /\ s.b_transaction = 0
  BY <1>1, <1>2, AtBlock DEF Listed
<1>4. Touches(b) /\ r = put_journal_head([s EXCEPT !.b_cp_transaction = 0])
  BY <1>1, RemoveEffect DEF Base, RemoveCheckpoint
<1>5. /\ r.b_transaction = s.b_transaction /\ r.b_next_transaction = s.b_next_transaction
      /\ r.b_jlist = s.b_jlist /\ r.b_cp_transaction = 0 /\ r.data = s.data
      /\ r.dirty = s.dirty /\ r.jbddirty = s.jbddirty /\ r.freed = s.freed
  <2> HIDE DEF s, r
  <2> QED
    BY <1>3, <1>4, Removed
<1>6. Calm /\ \A c \in Blocks \ {b} : Same(c)
  BY <1>2, <1>3, <1>4 DEF Calm, Same, Touches
<1>7. /\ New(b) => New(b)'
      /\ Taken(b) => Taken(b)'
      /\ Making(b) => Making(b)'
  BY <1>2, Sleepers
<1>8. Cleaned(b) => ~Careful
  BY DEF RemoveCheckpoint, Uncheckpoint, Cleaned, At, Careful
<1>9. Newest(b)' = Newest(b) /\ Contents(b)' = Contents(b) /\ (InLog(b)' <=> InLog(b))
  BY <1>1, <1>2, SteadyNewest
<1>10. /\ ~Exposed(b)' /\ ~Exposed(b)
       /\ ~Has(b)' /\ ~Has(b)
       /\ Doomed(b)' <=> Doomed(b)
       /\ Live(b)' <=> Live(b)
  BY <1>2, <1>5 DEF Exposed, Has, Doomed, Live
<1>11. Followed(b)'
  BY <1>1, <1>2, <1>5, <1>7 DEF Followed, Aged, Grown, Dated, Placed
<1>12. ~aborted => Tagging(b)' /\ Placing(b)'
  BY <1>1, <1>2, <1>5, <1>7, <1>10 DEF Tagging, Placing, Retracted
<1>13. ~aborted => Gone(b)' /\ Allotted(b)'
  BY <1>1, <1>2, <1>7 DEF Gone, Allotted
<1>14. Careful => Saved(b)'
  BY <1>1, <1>2, <1>9, <1>10 DEF Saved
<1>15. Careful /\ ~aborted => Closing(b)' /\ Marked(b)'
  BY <1>1, <1>2, <1>5, <1>10 DEF Closing, Marked
<1>16. Careful /\ ~aborted => Pinned(b)'
  BY <1>1, <1>2, <1>5, <1>8, <1>9, <1>10 DEF Pinned
<1> QED
  BY <1>2, <1>4, <1>5, <1>6, <1>11, <1>12, <1>13, <1>14, <1>15, <1>16, ThreadStep
  DEF Good, Ordered, Guarded

-----------------------------------------------------------------------------
(* The end of a commit keeps the contents of the last one. *)

\* A block that commits have allocated and not truncated will not be truncated by the
\* transaction that commits.
LEMMA NotDoomed ==
  ASSUME Durable, NEW b \in Blocks, committing # 0, ~aborted, orphan[b] # committing,
         orphan[b] \notin committed \ {0}
  PROVE  ~Doomed(b)
<1>1. /\ Struct /\ Order /\ Aged(b)
  BY Known
<1>2. orphan[b] \in Nat /\ last \in Nat /\ committing \in Nat /\ running \in Nat
  BY <1>1, AtBlock
<1>3. orphan[b] # 0 => orphan[b] = running
  BY <1>1, <1>2 DEF Order, Aged
<1> QED
  BY <1>1, <1>2, <1>3, Tidy DEF Doomed

\* A buffer is checkpointed.
LEMMA CheckpointGood ==
  ASSUME Durable, Struct', NEW b \in Blocks, committing # 0, buf[b].b_transaction = committing,
         buf[b].b_jlist = "Forget", phase = "forget",
         UNCHANGED <<running, committing, last, phase, todo, committed, closed, tagged>>,
         UNCHANGED <<aborted, tail, home, log, version, wrote, tags, use, born, orphan, freed, eio>>,
         UNCHANGED <<pc, h_buf, h_dirty>>,
         Touches(b), buf'[b] = Checkpointed(buf[b])
  PROVE  Durable'
<1> DEFINE s == buf[b]
           r == buf'[b]
           keeps == s.jbddirty /\ ~(s.freed /\ s.b_next_transaction = 0)
<1>1. /\ Struct /\ Base /\ Order /\ 0 \in committed
      /\ Listed(b) /\ Traced(b) /\ Kept(b)
      /\ Aged(b) /\ Grown(b) /\ Dated(b) /\ Placed(b)
      /\ ~aborted => Tagging(b) /\ Placing(b) /\ Gone(b) /\ Allotted(b)
      /\ Careful => Saved(b)
      /\ Careful /\ ~aborted => Closing(b) /\ Marked(b) /\ Pinned(b)
  BY Known
<1>2. /\ version \in Nat /\ s \in Buffer /\ running \in 0 .. MaxTid /\ committing \in 0 .. MaxTid
      /\ aborted \in BOOLEAN /\ running # committing
  BY <1>1, AtBlock, Committing
<1>3. ~s.dirty /\ s.b_next_transaction \in {0, running}
  BY <1>1 DEF Listed
<1>4. /\ r.b_transaction = s.b_next_transaction /\ r.data = s.data
      /\ r.b_jlist = IF s.b_next_transaction = 0 THEN "None" ELSE IF s.freed THEN "Forget" ELSE IF s.b_modified THEN "Metadata" ELSE "Reserved"
      /\ r.b_cp_transaction = IF keeps THEN committing ELSE 0
      /\ r.dirty = (s.b_next_transaction = 0 /\ (s.dirty \/ (keeps /\ ~aborted)))
      /\ r.jbddirty = (s.b_next_transaction # 0 /\ (s.dirty \/ (keeps /\ ~aborted)))
  BY <1>2, CheckpointedFields
<1>5. /\ r.dirty <=> s.b_next_transaction = 0 /\ keeps /\ ~aborted
      /\ r.jbddirty <=> s.b_next_transaction # 0 /\ keeps /\ ~aborted
      /\ r.b_transaction \in {0, running} /\ r.b_transaction # committing
      /\ r.b_jlist # "Dirtydata"
  BY <1>2, <1>3, <1>4
<1>6. Calm /\ \A c \in Blocks \ {b} : Same(c)
  BY <1>2 DEF Calm, Same, Touches
<1>7. /\ New(b) => New(b)'
      /\ Making(b) => Making(b)'
      /\ Modifying(b) => Modifying(b)'
  BY Sleepers
<1>8. Newest(b)' = Newest(b) /\ Contents(b)' = Contents(b) /\ (InLog(b)' <=> InLog(b))
  BY <1>1, SteadyNewest
<1>9. (Doomed(b)' <=> Doomed(b)) /\ (Live(b)' <=> Live(b))
  BY DEF Doomed, Live
<1>10. Followed(b)'
  BY <1>1, <1>4, <1>5, <1>7 DEF Followed, Aged, Grown, Dated, Placed
<1>11. CASE aborted
  <2>1. ~Exposed(b)'
    BY <1>5, <1>11 DEF Exposed
  <2>2. Careful => Saved(b)'
    BY <1>1, <1>8, <1>9, <2>1 DEF Saved
  <2> QED
    BY <1>5, <1>6, <1>10, <1>11, <2>2, ThreadStep DEF Good
<1>12. CASE ~aborted
  <2>1. /\ committing \in committed
        /\ Tagging(b) /\ Placing(b) /\ Gone(b) /\ Allotted(b)
        /\ Careful => Saved(b) /\ Closing(b) /\ Marked(b) /\ Pinned(b)
    BY <1>1, <1>12 DEF Order
  <2>2. b \in tagged[committing] => Retracted(b, committing)
    BY <2>1 DEF Placing
  <2>3. Tagging(b)' /\ Placing(b)'
    BY <1>2, <2>1, <2>2 DEF Tagging, Placing, Retracted
  <2>4. Gone(b)' /\ Allotted(b)'
    BY <1>7, <2>1 DEF Gone, Allotted
  <2>5. Closing(b)'
    BY <1>5 DEF Closing
  <2>6. Marked(b)'
    BY <1>1, <1>2, <1>4, <1>5 DEF Marked, Traced, Aged
  <2>7. Careful => Saved(b)' /\ Pinned(b)'
    <3> SUFFICES ASSUME Careful PROVE Saved(b)' /\ Pinned(b)'
      OBVIOUS
    <3>1. r.b_cp_transaction \in committed
      BY <1>1, <1>4, <2>1
    <3>2. CASE ~Live(b)
      BY <1>9, <3>1, <3>2 DEF Saved, Pinned
    <3>3. CASE Live(b)
      <4>1. /\ ~Doomed(b) /\ b \notin tagged[committing]
        BY <1>12, <2>1, <2>2, <3>3, NotDoomed DEF Live, Retracted
      <4>2. /\ closed[committing][b] # None /\ s.jbddirty
            /\ \/ s.data = closed[committing][b]
               \/ s.b_next_transaction # 0 /\ (s.b_modified \/ s.freed \/ Modifying(b))
        BY <2>1, <4>1 DEF Closing, Has
      <4>3. keeps
        BY <2>1, <4>1, <4>2 DEF Marked
      <4>4. Newest(b) = committing
        <5>1. born[b] \in committed /\ \A t \in committed : t <= committing
          BY <1>1, <3>3, Tidy DEF Live
        <5>2. committing >= born[b]
          BY <1>1, <5>1, AtBlock
        <5> QED
          BY <1>1, <2>1, <4>2, <5>1, <5>2, NewestIsLast
      <4>5. Contents(b) = closed[committing][b]
        BY <4>4 DEF Contents
      <4>6. InLog(b)
        <5>1. log[committing][b] = closed[committing][b]
          BY <1>1, <2>1, <4>1 DEF Kept
        <5> QED
          BY <1>1, <4>2, <4>4, <5>1 DEF InLog, Order
      <4>7. r.b_cp_transaction = committing
        BY <1>4, <4>3
      <4>8. Saved(b)'
        BY <1>8, <4>6 DEF Saved
      <4>9. r.b_jlist \in {"None", "Reserved"} =>
              Exposed(b)' /\ (r.data = Contents(b) \/ Modifying(b)')
        BY <1>4, <1>5, <1>7, <1>12, <4>2, <4>3, <4>5 DEF Exposed
      <4> QED
        BY <1>8, <3>1, <4>4, <4>7, <4>8, <4>9 DEF Pinned
    <3> QED
      BY <3>2, <3>3
  <2> QED
    BY <1>5, <1>6, <1>10, <1>12, <2>3, <2>4, <2>5, <2>6, <2>7, ThreadStep DEF Good, Ordered, Guarded
<1> QED
  BY <1>11, <1>12

\* The commit goes on to its next loop.
LEMMA PhaseGood ==
  ASSUME Durable, Struct', phase # "forget", phase' \notin {"forget", "data"},
         phase = "data" => todo = {},
         UNCHANGED <<running, committing, last, todo, committed, closed, tagged>>,
         UNCHANGED <<aborted, tail, home, log, version, wrote, tags, use, born, orphan, freed, eio, buf>>,
         UNCHANGED <<pc, h_buf, h_dirty>>
  PROVE  Durable'
<1>1. Order' /\ \A q \in Procs : Begun(q)'
  BY DEF Durable, Order, Begun
<1>2. ASSUME NEW c \in Blocks PROVE Good(c)'
  <2>1. /\ Struct /\ 0 \in committed
        /\ Aged(c) /\ Grown(c) /\ Dated(c) /\ Placed(c)
        /\ ~aborted => Tagging(c) /\ Placing(c) /\ Gone(c) /\ Allotted(c)
        /\ Careful => Saved(c)
        /\ Careful /\ ~aborted => Closing(c) /\ Marked(c) /\ Pinned(c)
    BY Known
  <2>2. /\ New(c) => New(c)'
        /\ Taken(c) => Taken(c)'
        /\ Making(c) => Making(c)'
        /\ Modifying(c) => Modifying(c)'
        /\ Cleaned(c) => Cleaned(c)'
    BY Sleepers
  <2>3. Newest(c)' = Newest(c) /\ Contents(c)' = Contents(c) /\ (InLog(c)' <=> InLog(c))
    BY <2>1, SteadyNewest
  <2>4. /\ Exposed(c)' <=> Exposed(c)
        /\ Has(c)' <=> Has(c)
        /\ Doomed(c)' <=> Doomed(c)
        /\ Live(c)' <=> Live(c)
    BY DEF Exposed, Has, Doomed, Live
  <2>5. Followed(c)'
    BY <2>1, <2>2 DEF Followed, Aged, Grown, Dated, Placed
  <2>6. ~aborted => Tagging(c)' /\ Placing(c)'
    BY <2>1, <2>2, <2>4 DEF Tagging, Placing, Retracted
  <2>7. ~aborted => Gone(c)' /\ Allotted(c)'
    BY <2>1, <2>2 DEF Gone, Allotted
  <2>8. Careful => Saved(c)'
    BY <2>1, <2>3, <2>4 DEF Saved
  <2>9. Careful /\ ~aborted => Closing(c)' /\ Marked(c)'
    BY <2>1, <2>2, <2>4 DEF Closing, Marked
  <2>10. Careful /\ ~aborted => Pinned(c)'
    BY <2>1, <2>2, <2>3, <2>4 DEF Pinned
  <2> QED
    BY <2>5, <2>6, <2>7, <2>8, <2>9, <2>10 DEF Good, Ordered, Guarded
<1> QED
  BY <1>1, <1>2 DEF Durable

\* CommitRecord
LEMMA RecordGood ==
  ASSUME Durable, Struct', CommitRecord
  PROVE  Durable'
<1>1. /\ UNCHANGED <<running, committing, last, todo, closed, tagged>>
      /\ UNCHANGED <<aborted, tail, home, log, version, wrote, tags, use, born, orphan, freed, eio, buf>>
      /\ UNCHANGED <<pc, h_buf, h_dirty>> /\ phase = "record" /\ phase' = "forget"
      /\ committed' = IF aborted THEN committed ELSE committed \cup {committing}
  BY DEF CommitRecord, procVars, blockVars
<1>2. Struct /\ Order /\ 0 \in committed
  BY DEF Durable, Order
<1>3. /\ committing # 0 /\ committing \notin committed
      /\ \A t \in committed : t <= committing
  BY <1>1, <1>2, Tidy
<1>4. Order' /\ \A q \in Procs : Begun(q)'
  BY <1>1, <1>2 DEF Durable, Order, Begun
<1>5. ASSUME NEW c \in Blocks PROVE Good(c)'
  <2>1. /\ Listed(c) /\ Aged(c) /\ Grown(c) /\ Dated(c) /\ Placed(c)
        /\ ~aborted => Tagging(c) /\ Placing(c) /\ Gone(c) /\ Allotted(c)
        /\ Careful => Saved(c)
        /\ Careful /\ ~aborted => Closing(c) /\ Marked(c) /\ Pinned(c)
    BY Known
  <2>2. /\ New(c) => New(c)'
        /\ Taken(c) => Taken(c)'
        /\ Making(c) => Making(c)'
        /\ Modifying(c) => Modifying(c)'
        /\ Cleaned(c) => Cleaned(c)'
    BY <1>1, Sleepers
  <2>3. /\ Exposed(c)' <=> Exposed(c)
        /\ Has(c)' <=> Has(c)
        /\ Doomed(c)' <=> Doomed(c)
    BY <1>1 DEF Exposed, Has, Doomed
  <2>4. /\ home[c] \in Nat /\ committing \in Nat /\ born[c] \in Nat /\ committed \subseteq Nat
        /\ committing \in Tids
    BY <1>2, <1>3, AtBlock
  <2>5. Aged(c)' /\ Grown(c)' /\ Dated(c)'
    BY <1>1, <2>1, <2>2 DEF Aged, Grown, Dated
  <2>6. CASE aborted
    <3>1. Newest(c)' = Newest(c) /\ Contents(c)' = Contents(c) /\ (InLog(c)' <=> InLog(c))
      BY <1>1, <1>2, <2>6, SteadyNewest
    <3>2. Placed(c)'
      BY <1>1, <2>1, <2>6 DEF Placed
    <3>3. Careful => Saved(c)'
      BY <1>1, <2>1, <2>3, <2>6, <3>1 DEF Saved, Live
    <3> QED
      BY <1>1, <2>5, <2>6, <3>2, <3>3 DEF Good, Followed
  <2>7. CASE ~aborted
    <3>1. committed' = committed \cup {committing}
      BY <1>1, <2>7
    <3>2. Placed(c)'
      <4>1. c \in tagged[committing] => Retracts \/ home[c] >= closed[committing][c]
        BY <1>1, <1>3, <2>1, <2>4, <2>7 DEF Placing, Retracted
      <4> QED
        BY <1>1, <2>1, <3>1, <4>1 DEF Placed
    <3>3. Tagging(c)' /\ Placing(c)'
      BY <1>1, <2>1, <2>2, <2>3, <2>7 DEF Tagging, Placing, Retracted
    <3>4. Gone(c)' /\ Allotted(c)'
      BY <1>1, <2>1, <2>2, <2>7 DEF Gone, Allotted
    <3>5. Careful => Closing(c)' /\ Marked(c)'
      BY <1>1, <2>1, <2>2, <2>3, <2>7 DEF Closing, Marked
    <3>6. Careful => Saved(c)' /\ Pinned(c)'
      <4> SUFFICES ASSUME Careful PROVE Saved(c)' /\ Pinned(c)'
        OBVIOUS
      <4>1. buf'[c].b_cp_transaction \in committed'
        BY <1>1, <2>1, <2>7, <3>1 DEF Pinned
      <4>2. CASE ~Live(c)'
        BY <4>1, <4>2 DEF Saved, Pinned
      <4>3. CASE Live(c)'
        <5>1. /\ born[c] \in committed \cup {committing}
              /\ orphan[c] \notin committed \ {0} /\ orphan[c] # committing
          BY <1>1, <1>3, <3>1, <4>3 DEF Live
        <5>2. ~Doomed(c)
          BY <1>3, <2>7, <5>1, NotDoomed
        <5>3. born[c] <= committing
          BY <1>3, <2>4, <5>1
        <5>4. closed[committing][c] # None => Newest(c)' = committing
          <6> DEFINE S == {t \in committed' : t = 0 \/ (t >= born'[c] /\ closed'[t][c] # None)}
          <6>4. \A t \in committed' : t \in Nat /\ committing >= t
            <7>1. \A t \in committed : t \in Nat /\ committing >= t
              BY <1>3, <2>4
            <7> QED
              BY <2>4, <3>1, <7>1
          <6>1. S \subseteq Int /\ \A t \in S : committing >= t
            BY <6>4
          <6>2. closed[committing][c] # None => committing \in S
            BY <1>1, <2>4, <3>1, <5>3
          <6>3. Newest(c)' = Max(S)
            BY DEF Newest
          <6> HIDE DEF S
          <6> QED
            BY <6>1, <6>2, <6>3, MaxIs
        <5>5. closed[committing][c] # None => Contents(c)' = closed[committing][c]
          BY <1>1, <1>3, <5>4 DEF Contents
        <5>6. CASE c \in tagged[committing]
          <6>1. home[c] = closed[committing][c] /\ ~Exposed(c)
            BY <1>1, <1>3, <2>1, <2>7, <5>1, <5>6 DEF Placing, Retracted
          <6>2. Contents(c)' = home'[c]
            BY <1>1, <2>4, <5>5, <6>1 DEF None
          <6> QED
            BY <2>3, <4>1, <6>1, <6>2 DEF Saved, Pinned
        <5>7. CASE c \notin tagged[committing] /\ closed[committing][c] # None
          <6>1. Has(c)
            BY <1>1, <1>3, <2>1, <2>7, <5>2, <5>7 DEF Closing
          <6>2. ~Exposed(c)' /\ buf'[c].b_jlist \notin {"None", "Reserved"}
            BY <1>1, <2>1, <2>3, <6>1 DEF Has, Exposed, Listed
          <6>3. InLog(c)'
            <7>1. Kept(c)'
              BY DEF Struct, ListInv, Sound
            <7>2. log'[committing][c] = closed'[committing][c]
              BY <1>1, <1>3, <3>1, <5>7, <7>1 DEF Kept
            <7> QED
              BY <1>1, <1>2, <1>3, <5>4, <5>7, <7>2 DEF InLog, Order
          <6> QED
            BY <1>1, <2>3, <4>1, <5>4, <5>7, <6>1, <6>2, <6>3 DEF Saved, Pinned
        <5>8. CASE closed[committing][c] = None
          <6>1. born[c] # committing
            BY <1>3, <2>1, <2>7, <5>1, <5>8 DEF Allotted
          <6>2. Live(c)
            BY <5>1, <6>1 DEF Live
          <6>3. {t \in committed : t = 0 \/ (t >= born[c] /\ closed[t][c] # None)}
                = {t \in committed' : t = 0 \/ (t >= born'[c] /\ closed'[t][c] # None)}
            BY <1>1, <1>3, <3>1, <5>8
          <6>4. Newest(c)' = Newest(c)
            BY <6>3 DEF Newest
          <6>5. Contents(c)' = Contents(c) /\ (InLog(c)' <=> InLog(c))
            BY <1>1, <6>4 DEF Contents, InLog
          <6>6. Saved(c)'
            BY <1>1, <2>1, <2>3, <6>2, <6>5 DEF Saved
          <6>7. Pinned(c)'
            BY <1>1, <2>1, <2>2, <2>3, <2>7, <4>1, <6>2, <6>4, <6>5 DEF Pinned
          <6> QED
            BY <6>6, <6>7
        <5> QED
          BY <5>6, <5>7, <5>8
      <4> QED
        BY <4>2, <4>3
    <3> QED
      BY <1>1, <2>5, <2>7, <3>2, <3>3, <3>4, <3>5, <3>6 DEF Good, Followed, Ordered, Guarded
  <2> QED
    BY <2>6, <2>7
<1> QED
  BY <1>4, <1>5 DEF Durable

\* The commit ends.
LEMMA FinishGood ==
  ASSUME Durable, Struct', phase = "forget", On(committing, "Forget") = {},
         phase' = "none", committing' = 0,
         UNCHANGED <<running, last, todo, committed, closed, tagged>>,
         UNCHANGED <<aborted, tail, home, log, version, wrote, tags, use, born, orphan, freed, eio, buf>>,
         UNCHANGED <<pc, h_buf, h_dirty>>
  PROVE  Durable'
<1>1. Struct /\ Order /\ 0 \in committed
  BY DEF Durable, Order
<1>2. committing # 0
  BY <1>1, Tidy
<1>3. Order' /\ \A q \in Procs : Begun(q)'
  BY <1>1 DEF Durable, Order, Begun
<1>4. ASSUME NEW c \in Blocks PROVE Good(c)'
  <2>1. /\ Listed(c) /\ Aged(c) /\ Grown(c) /\ Dated(c) /\ Placed(c)
        /\ ~aborted => Tagging(c) /\ Allotted(c)
        /\ Careful => Saved(c)
        /\ Careful /\ ~aborted => Marked(c) /\ Pinned(c)
    BY Known
  <2>2. /\ New(c) => New(c)'
        /\ Taken(c) => Taken(c)'
        /\ Making(c) => Making(c)'
        /\ Modifying(c) => Modifying(c)'
        /\ Cleaned(c) => Cleaned(c)'
    BY Sleepers
  <2>3. ~Has(c)
    BY <1>2, <2>1 DEF Has, Listed, PhaseLists, On
  <2>4. Newest(c)' = Newest(c) /\ Contents(c)' = Contents(c) /\ (InLog(c)' <=> InLog(c))
    BY <1>1, SteadyNewest
  <2>5. (Exposed(c)' <=> Exposed(c)) /\ (Live(c)' <=> Live(c))
    BY DEF Exposed, Live
  <2>6. Followed(c)'
    BY <2>1, <2>2 DEF Followed, Aged, Grown, Dated, Placed
  <2>7. ~aborted => Ordered(c)'
    BY <2>1, <2>2 DEF Ordered, Tagging, Placing, Gone, Allotted, Retracted
  <2>8. Careful => Saved(c)'
    BY <2>1, <2>4, <2>5 DEF Saved
  <2>9. Careful /\ ~aborted => Closing(c)' /\ Marked(c)'
    BY <2>1 DEF Closing, Marked
  <2>10. Careful /\ ~aborted => Pinned(c)'
    BY <2>1, <2>2, <2>3, <2>4, <2>5 DEF Pinned
  <2> QED
    BY <2>6, <2>7, <2>8, <2>9, <2>10 DEF Good, Guarded
<1> QED
  BY <1>3, <1>4 DEF Durable

-----------------------------------------------------------------------------
(* A transaction is closed. *)

\* CommitSwitch
LEMMA SwitchGood ==
  ASSUME Durable, Struct', CommitSwitch
  PROVE  Durable'
<1>1. /\ running # 0 /\ committing = 0 /\ running \in Tids
      /\ \A q \in Procs : pc[q] = "idle"
  BY AllIdle DEF Durable, Struct
<1>2. /\ UNCHANGED <<last, committed, aborted, tail, home, log, version>>
      /\ UNCHANGED <<use, born, orphan, freed, eio, pc, h_buf, h_dirty>>
      /\ phase' = "data" /\ committing' = running /\ running' = 0
      /\ wrote' = {} /\ tags' = {} /\ todo' = On(running, "Dirtydata")
  BY DEF CommitSwitch, procVars, blockVars
<1>3. /\ \A t \in Tids \ {running} : closed'[t] = closed[t] /\ tagged'[t] = tagged[t]
      /\ \A b \in Blocks : closed'[running][b] = IF b \in wrote \cup tags THEN buf[b].data ELSE None
      /\ tagged'[running] = tags \ wrote
  BY <1>1, Groups DEF Durable, Struct, Base, CommitType, CommitSwitch
<1>4. committed \ {0} \subseteq Tids \ {running}
  BY <1>1, CommittedTids, Groups DEF Durable, Struct, Base, TidInv, CommitType
<1>5. Struct /\ Order /\ 0 \in committed /\ running = last
  BY <1>1, Tidy DEF Durable, Order
<1>6. Order'
  BY <1>1, <1>2, <1>5 DEF Order
<1>7. \A q \in Procs : Begun(q)'
  BY <1>1, <1>2 DEF Durable, Begun
<1>8. ASSUME NEW c \in Blocks PROVE Good(c)'
  <2> DEFINE s == buf[c]
             r == buf'[c]
  <2>1. /\ Listed(c) /\ (~aborted => Bits(c)) /\ Traced(c)
        /\ Aged(c) /\ Grown(c) /\ Dated(c) /\ Placed(c)
        /\ ~aborted => Tagging(c) /\ Placing(c) /\ Gone(c) /\ Allotted(c)
        /\ Careful => Saved(c)
        /\ Careful /\ ~aborted => Closing(c) /\ Marked(c) /\ Pinned(c)
    BY Known
  <2>2. /\ s \in Buffer /\ running \in 0 .. MaxTid /\ running \in Nat
        /\ born[c] \in Nat /\ orphan[c] \in Nat /\ freed[c] \in Nat /\ s.data \in Nat /\ home[c] \in Nat
        /\ r = IF c \in On(running, "Reserved") THEN refile(s) ELSE s
    BY <1>5, AtBlock, SwitchEffect DEF Struct, Base
  <2>3. s.b_next_transaction = 0 /\ s.b_transaction \in {0, running}
    BY <1>1, <2>1 DEF Listed
  <2>4. ~New(c) /\ ~Taken(c) /\ ~Making(c) /\ ~Modifying(c) /\ ~Cleaned(c)
    BY <1>1 DEF New, Taken, Making, Modifying, Cleaned
  <2>5. /\ r.data = s.data /\ r.b_cp_transaction = s.b_cp_transaction /\ r.freed = s.freed
        /\ r.b_next_transaction = 0
        /\ \/ /\ s.b_transaction = running /\ s.b_jlist = "Reserved"
              /\ r.b_transaction = 0 /\ r.b_jlist = "None"
              /\ (r.dirty <=> s.jbddirty) /\ ~r.jbddirty
           \/ r = s /\ ~(s.b_transaction = running /\ s.b_jlist = "Reserved")
    <3>1. CASE c \in On(running, "Reserved")
      <4>1. s.b_transaction = running /\ s.b_jlist = "Reserved" /\ ~s.dirty /\ r = refile(s)
        BY <2>1, <2>2, <3>1 DEF On, Listed
      <4>2. /\ r.b_transaction = 0 /\ r.b_next_transaction = 0 /\ r.b_jlist = "None"
            /\ r.b_cp_transaction = s.b_cp_transaction /\ r.data = s.data /\ r.freed = s.freed
            /\ r.dirty = (s.b_next_transaction = 0 /\ (s.dirty \/ s.jbddirty))
            /\ r.jbddirty = (s.b_next_transaction # 0 /\ (s.dirty \/ s.jbddirty))
        BY <2>2, <2>3, <4>1, RefiledFields
      <4>3. (r.dirty <=> s.jbddirty) /\ ~r.jbddirty
        BY <2>2, <2>3, <4>1, <4>2, Fields
      <4> QED
        BY <4>1, <4>2, <4>3
    <3>2. CASE c \notin On(running, "Reserved")
      BY <2>2, <2>3, <3>2 DEF On
    <3> QED
      BY <3>1, <3>2
  <2> HIDE DEF s, r
  <2>6. Exposed(c)' <=> Exposed(c)
    BY <2>1, <2>5 DEF Exposed, Listed, s, r
  <2>7. Newest(c)' = Newest(c) /\ Contents(c)' = Contents(c) /\ (InLog(c)' <=> InLog(c))
    BY <1>2, <1>3, <1>4, <1>5, SteadyNewest
  <2>8. Live(c)' <=> Live(c)
    BY <1>2 DEF Live
  <2>9. closed'[running][c] = IF c \in wrote \cup tags THEN s.data ELSE None
    BY <1>3 DEF s
  <2>10. Followed(c)'
    <3>1. Aged(c)' /\ Grown(c)'
      BY <1>2, <2>1, <2>4, <2>5 DEF Aged, Grown, s, r
    <3>2. Dated(c)'
      BY <1>2, <2>1, <2>5 DEF Dated, s, r
    <3>3. Placed(c)'
      BY <1>2, <1>3, <1>4, <2>1 DEF Placed
    <3> QED
      BY <3>1, <3>2, <3>3 DEF Followed
  <2>11. Careful => Saved(c)'
    BY <1>2, <2>1, <2>6, <2>7, <2>8 DEF Saved
  <2>12. CASE aborted
    BY <1>2, <2>10, <2>11, <2>12 DEF Good
  <2>13. CASE ~aborted
    <3>1. Tagging(c)'
      BY <1>2 DEF Tagging
    <3>2. Placing(c)'
      <4> SUFFICES ASSUME c \in tags, c \notin wrote PROVE Placing(c)'
        BY <1>2, <1>3 DEF Placing
      <4>1. born[c] = running
        BY <2>1, <2>13 DEF Tagging
      <4>2. CASE Retracted(c, running)
        BY <1>2, <4>1, <4>2 DEF Placing, Retracted
      <4>3. CASE ~Retracted(c, running)
        <5>1. /\ s.b_transaction = running /\ s.b_jlist = "Dirtydata"
              /\ s.dirty \/ home[c] = s.data
          BY <2>1, <2>4, <2>13, <4>3 DEF Tagging, s
        <5>2. r = s /\ closed'[running][c] = s.data /\ c \in todo'
          BY <1>2, <2>5, <2>9, <5>1 DEF On, s
        <5>3. CASE s.dirty
          BY <1>2, <4>1, <5>1, <5>2, <5>3 DEF Placing, r
        <5>4. CASE ~s.dirty
          <6>1. ~Exposed(c)'
            BY <5>1, <5>2, <5>4 DEF Exposed, r
          <6> QED
            BY <1>2, <4>1, <5>1, <5>2, <5>4, <6>1 DEF Placing, r
        <5> QED
          BY <5>3, <5>4
      <4> QED
        BY <4>2, <4>3
    <3>3. Gone(c)'
      <4> SUFFICES ASSUME use[c] \in {"off", "free"} \/ (use[c] = "freed" /\ freed[c] < running)
                   PROVE  c \notin wrote /\ c \notin tags
        BY <1>2, <2>9 DEF Gone
      <4>1. c \notin wrote
        BY <2>1, <2>13 DEF Traced
      <4>2. c \in tags => born[c] = running
        BY <2>1, <2>13 DEF Tagging
      <4>3. born[c] # running
        BY <1>1, <2>1, <2>2 DEF Aged
      <4> QED
        BY <4>1, <4>2, <4>3
    <3>4. Allotted(c)'
      <4>1. born[c] = running => orphan[c] = running \/ c \in wrote \/ c \in tags
        BY <1>1, <2>1, <2>4, <2>13 DEF Allotted
      <4> QED
        BY <1>2, <2>2, <2>9, <4>1 DEF Allotted, None, s
    <3>5. Careful => Closing(c)' /\ Marked(c)'
      <4> SUFFICES ASSUME Careful PROVE Closing(c)' /\ Marked(c)'
        OBVIOUS
      <4>1. ~Doomed(c)' <=> orphan[c] = 0
        BY <1>2, <1>5, <2>1, <2>2 DEF Doomed, Aged
      <4>2. c \in wrote => r = s /\ s.b_transaction = running /\ s.b_jlist = "Metadata" /\ s.jbddirty
        BY <2>1, <2>3, <2>5, <2>13 DEF Traced, Bits, s
      <4>3. c \in wrote => Has(c)' /\ closed'[running][c] = r.data
        BY <1>2, <2>9, <4>2 DEF Has, r
      <4>4. r.b_transaction = running /\ orphan[c] = 0 => c \in wrote \/ c \in tags
        <5> SUFFICES ASSUME r.b_transaction = running, orphan[c] = 0 PROVE c \in wrote \/ c \in tags
          OBVIOUS
        <5>1. r = s /\ s.b_transaction = running /\ s.b_jlist \notin {"None", "Reserved", "Shadow"}
          BY <1>1, <2>1, <2>5 DEF Listed, s
        <5>2. s.b_jlist \in {"Metadata", "Forget", "Dirtydata"}
          BY <2>2, <5>1, Fields DEF Lists
        <5>3. s.b_jlist = "Metadata" => c \in wrote
          BY <1>1, <2>1, <2>13, <5>1 DEF Traced, s
        <5>4. s.b_jlist # "Forget"
          BY <1>1, <2>1, <2>13, <5>1 DEF Marked, s
        <5>5. s.b_jlist = "Dirtydata" => born[c] = running
          BY <2>1, <5>1 DEF Dated, s
        <5>6. born[c] = running => c \in wrote \/ c \in tags
          BY <1>1, <2>1, <2>4, <2>13 DEF Allotted
        <5> QED
          BY <5>2, <5>3, <5>4, <5>5, <5>6
      <4>5. Closing(c)'
        <5> SUFFICES ASSUME ~(c \in tags /\ c \notin wrote), orphan[c] = 0 PROVE Closing(c)'
          BY <1>2, <1>3, <4>1 DEF Closing
        <5>1. closed'[running][c] # None => c \in wrote
          BY <2>9
        <5>2. r.b_transaction = running => closed'[running][c] # None
          BY <2>2, <2>9, <4>4 DEF None
        <5> QED
          BY <1>2, <4>3, <5>1, <5>2 DEF Closing, r
      <4>6. Marked(c)'
        <5>1. r.freed => orphan[c] # 0
          BY <2>1, <2>5 DEF Traced, Aged, s
        <5> QED
          BY <1>2, <4>1, <5>1 DEF Marked, r
      <4> QED
        BY <4>5, <4>6
    <3>6. Careful => Pinned(c)'
      <4> SUFFICES ASSUME Careful PROVE Pinned(c)'
        OBVIOUS
      <4>1. Pinned(c) /\ r.b_cp_transaction = s.b_cp_transaction
        BY <2>1, <2>5, <2>13
      <4>2. ~Has(c)
        BY <1>1, <2>1 DEF Has, Listed
      <4>3. r.b_jlist \in {"None", "Reserved"} => s.b_jlist \in {"None", "Reserved"} /\ r.data = s.data
        BY <2>5
      <4> QED
        BY <1>2, <2>4, <2>6, <2>7, <2>8, <4>1, <4>2, <4>3 DEF Pinned, s, r
    <3> QED
      BY <1>2, <2>10, <2>11, <2>13, <3>1, <3>2, <3>3, <3>4, <3>5, <3>6 DEF Good, Ordered, Guarded
  <2> QED
    BY <2>12, <2>13
<1> QED
  BY <1>6, <1>7, <1>8 DEF Durable

-----------------------------------------------------------------------------
(* The tail of the log, and an abort *)

\* The first transaction that the log is needed for is not newer than one with a
\* checkpoint or one that has still to commit.
LEMMA FirstTidIs ==
  ASSUME Durable, Careful, ~aborted
  PROVE  /\ FirstTid \in Nat /\ FirstTid <= last + 1
         /\ running # 0 => FirstTid <= running
         /\ committing # 0 => FirstTid <= committing
         /\ \A b \in Blocks : buf[b].b_cp_transaction # 0 => FirstTid <= buf[b].b_cp_transaction
<1> DEFINE checkpoints == {buf[b].b_cp_transaction : b \in Blocks} \ {0, committing}
<1>1. Struct
  BY DEF Durable
<1>2. /\ running \in Nat /\ committing \in Nat /\ last \in Nat /\ committed \subseteq Nat
      /\ committed \subseteq 0 .. MaxTid /\ MaxTid \in Nat
  BY <1>1, Groups, Constant DEF Struct, Base, CommitType
<1>3. \A b \in Blocks : buf[b].b_cp_transaction \in committed
  BY Known DEF Pinned
<1>4. checkpoints \in SUBSET (0 .. MaxTid) /\ checkpoints \subseteq committed \ {0, committing}
  BY <1>2, <1>3
<1>5. /\ running # 0 => running = last
      /\ running # 0 /\ committing # 0 => committing < running
      /\ committing # 0 => committing <= last
      /\ \A t \in committed : t <= last /\ (running # 0 => t < running)
                              /\ (committing # 0 => t <= committing)
  BY <1>1, Tidy
<1>6. CASE checkpoints # {}
  <2>1. Min(checkpoints) \in checkpoints /\ \A t \in checkpoints : Min(checkpoints) <= t
    <3> HIDE DEF checkpoints
    <3> QED
      BY <1>2, <1>4, <1>6, MinIsSmallest
  <2>2. FirstTid = Min(checkpoints)
    BY <1>6 DEF FirstTid
  <2>3. FirstTid \in committed
    BY <1>4, <2>1, <2>2
  <2>4. /\ FirstTid \in Nat /\ FirstTid <= last + 1
        /\ running # 0 => FirstTid <= running
        /\ committing # 0 => FirstTid <= committing
    <3> HIDE DEF checkpoints
    <3> QED
      BY <1>2, <1>5, <2>3
  <2>5. ASSUME NEW b \in Blocks, buf[b].b_cp_transaction # 0
        PROVE  FirstTid <= buf[b].b_cp_transaction
    <3>1. CASE buf[b].b_cp_transaction = committing
      BY <2>4, <2>5, <3>1
    <3>2. CASE buf[b].b_cp_transaction # committing
      <4>1. buf[b].b_cp_transaction \in checkpoints
        BY <2>5, <3>2
      <4> QED
        BY <2>1, <2>2, <4>1
    <3> QED
      BY <3>1, <3>2
  <2> QED
    BY <2>4, <2>5
<1>7. CASE checkpoints = {}
  <2>1. FirstTid = IF committing # 0 THEN committing ELSE IF running # 0 THEN running ELSE last + 1
    BY <1>7 DEF FirstTid
  <2>2. \A b \in Blocks : buf[b].b_cp_transaction \in {0, committing}
    BY <1>7
  <2> HIDE DEF checkpoints
  <2>3. /\ FirstTid \in Nat /\ FirstTid <= last + 1
        /\ running # 0 => FirstTid <= running
        /\ committing # 0 => FirstTid = committing
    BY <1>2, <1>5, <2>1
  <2>4. committing # 0 => FirstTid <= committing
    BY <1>2, <2>3
  <2> QED
    BY <2>2, <2>3, <2>4
<1> QED
  BY <1>6, <1>7

\* jbdbf_cleanup_journal_tail
LEMMA TailGood ==
  ASSUME Durable, Struct', jbdbf_cleanup_journal_tail
  PROVE  Durable'
<1>1. /\ UNCHANGED <<running, committing, last, phase, todo, committed, closed, tagged>>
      /\ UNCHANGED <<aborted, home, log, version, wrote, tags, use, born, orphan, freed, eio, buf>>
      /\ UNCHANGED <<pc, h_buf, h_dirty>> /\ ~aborted /\ tail' = FirstTid
  BY DEF jbdbf_cleanup_journal_tail, commitVars, procVars, blockVars
<1>2. Struct /\ Order /\ 0 \in committed
  BY DEF Durable, Order
<1>3. Order' /\ \A q \in Procs : Begun(q)'
  <2>1. Order'
    BY <1>1, <1>2, FirstTidIs DEF Order
  <2>2. \A q \in Procs : Begun(q)'
    BY <1>1 DEF Durable, Begun
  <2> QED
    BY <2>1, <2>2
<1>4. ASSUME NEW c \in Blocks PROVE Good(c)'
  <2>1. /\ Aged(c) /\ Grown(c) /\ Dated(c) /\ Placed(c)
        /\ Tagging(c) /\ Placing(c) /\ Gone(c) /\ Allotted(c)
        /\ Careful => Saved(c)
        /\ Careful => Closing(c) /\ Marked(c) /\ Pinned(c)
    BY <1>1, Known
  <2>2. /\ New(c) => New(c)'
        /\ Taken(c) => Taken(c)'
        /\ Making(c) => Making(c)'
        /\ Modifying(c) => Modifying(c)'
        /\ Cleaned(c) => Cleaned(c)'
    BY <1>1, Sleepers
  <2>3. Newest(c)' = Newest(c) /\ Contents(c)' = Contents(c)
    BY <1>1, <1>2, SteadyNewest
  <2>4. /\ (Exposed(c)' <=> Exposed(c)) /\ (Live(c)' <=> Live(c))
        /\ (Has(c)' <=> Has(c)) /\ (Doomed(c)' <=> Doomed(c))
    BY <1>1 DEF Exposed, Live, Has, Doomed
  <2>5. Followed(c)'
    BY <1>1, <2>1, <2>2 DEF Followed, Aged, Grown, Dated, Placed
  <2>6. Ordered(c)'
    <3>1. Tagging(c)' /\ Placing(c)'
      BY <1>1, <2>1, <2>2, <2>4 DEF Tagging, Placing, Retracted
    <3>2. Gone(c)' /\ Allotted(c)'
      BY <1>1, <2>1, <2>2 DEF Gone, Allotted
    <3> QED
      BY <3>1, <3>2 DEF Ordered
  <2>7. Careful => Closing(c)' /\ Marked(c)'
    BY <1>1, <2>1, <2>2, <2>4 DEF Closing, Marked
  <2>8. Careful => Pinned(c)'
    BY <1>1, <2>1, <2>2, <2>3, <2>4 DEF Pinned
  <2>9. Careful => Saved(c)'
    <3> SUFFICES ASSUME Careful, Live(c)
                 PROVE  /\ home[c] = Contents(c) \/ InLog(c)'
                        /\ Exposed(c) => InLog(c)'
      BY <1>1, <2>3, <2>4 DEF Saved
    <3>1. /\ home[c] = Contents(c) \/ InLog(c)
          /\ Exposed(c) => InLog(c)
      BY <2>1 DEF Saved
    <3>2. /\ \/ home[c] = Contents(c)
             \/ buf[c].b_cp_transaction = Newest(c)
             \/ Newest(c) = committing
          /\ Exposed(c) => buf[c].b_cp_transaction = Newest(c)
      BY <2>1 DEF Pinned
    <3>3. InLog(c) /\ Newest(c) \in {buf[c].b_cp_transaction, committing} => InLog(c)'
      BY <1>1, <2>3, FirstTidIs DEF InLog
    <3> QED
      BY <3>1, <3>2, <3>3
  <2> QED
    BY <2>5, <2>6, <2>7, <2>8, <2>9 DEF Good, Guarded
<1> QED
  BY <1>3, <1>4 DEF Durable

\* FailCheckpoint: the tail will not move any more.
LEMMA FailGood ==
  ASSUME Durable, Struct', NEW b \in Blocks, FailCheckpoint(b)
  PROVE  Durable'
<1>1. /\ UNCHANGED <<running, committing, last, phase, todo, committed, closed, tagged>>
      /\ UNCHANGED <<tail, home, log, version, wrote, tags, use, born, orphan, freed, eio>>
      /\ UNCHANGED <<pc, h_buf, h_dirty>> /\ aborted' /\ buf[b].b_jlist = "None"
  BY DEF FailCheckpoint, Uncheckpoint, commitVars, procVars, blockVars
<1>2. Struct /\ Base /\ Order /\ 0 \in committed /\ Listed(b) /\ buf[b] \in Buffer
  BY Known, AtBlock
<1>3. ASSUME NEW c \in Blocks
      PROVE  /\ buf'[c].b_transaction = buf[c].b_transaction /\ buf'[c].b_jlist = buf[c].b_jlist
             /\ buf'[c].data = buf[c].data
             /\ buf'[c].dirty = buf[c].dirty /\ buf'[c].jbddirty = buf[c].jbddirty
  <2>1. Touches(b) /\ buf'[b] = put_journal_head([buf[b] EXCEPT !.b_cp_transaction = 0])
    BY <1>2, RemoveEffect DEF Base, FailCheckpoint
  <2>2. CASE c = b
    BY <1>1, <1>2, <2>1, <2>2, Removed DEF Listed
  <2>3. CASE c # b
    BY <2>1, <2>3 DEF Touches
  <2> QED
    BY <2>2, <2>3
<1>4. Order' /\ \A q \in Procs : Begun(q)'
  BY <1>1, <1>2 DEF Durable, Order, Begun
<1>5. ASSUME NEW c \in Blocks PROVE Good(c)'
  <2>1. /\ Aged(c) /\ Grown(c) /\ Dated(c) /\ Placed(c) /\ (Careful => Saved(c))
    BY Known
  <2>2. New(c) => New(c)'
    BY <1>1, Sleepers
  <2>3. Newest(c)' = Newest(c) /\ Contents(c)' = Contents(c) /\ (InLog(c)' <=> InLog(c))
    BY <1>1, <1>2, SteadyNewest
  <2>4. (Exposed(c)' <=> Exposed(c)) /\ (Live(c)' <=> Live(c))
    BY <1>1, <1>3 DEF Exposed, Live
  <2>5. Followed(c)'
    BY <1>1, <1>3, <2>1, <2>2 DEF Followed, Aged, Grown, Dated, Placed
  <2>6. Careful => Saved(c)'
    BY <1>1, <2>1, <2>3, <2>4 DEF Saved
  <2> QED
    BY <1>1, <2>5, <2>6 DEF Good
<1> QED
  BY <1>4, <1>5 DEF Durable

\* Abort
LEMMA AbortGood ==
  ASSUME Durable, Struct', Abort
  PROVE  Durable'
<1>1. /\ UNCHANGED <<running, committing, last, phase, todo, committed, closed, tagged>>
      /\ UNCHANGED <<tail, home, log, version, wrote, tags, use, born, orphan, freed, eio, buf>>
      /\ UNCHANGED <<pc, h_buf, h_dirty>> /\ ~aborted /\ aborted'
  BY DEF Abort, commitVars, procVars, blockVars
<1>2. Struct /\ Order /\ 0 \in committed
  BY DEF Durable, Order
<1>3. Order' /\ \A q \in Procs : Begun(q)'
  BY <1>1, <1>2 DEF Durable, Order, Begun
<1>4. ASSUME NEW c \in Blocks PROVE Good(c)'
  <2>1. /\ Aged(c) /\ Grown(c) /\ Dated(c) /\ Placed(c) /\ (Careful => Saved(c))
    BY Known
  <2>2. New(c) => New(c)'
    BY <1>1, Sleepers
  <2>3. Newest(c)' = Newest(c) /\ Contents(c)' = Contents(c) /\ (InLog(c)' <=> InLog(c))
    BY <1>1, <1>2, SteadyNewest
  <2>4. (Exposed(c)' <=> Exposed(c)) /\ (Live(c)' <=> Live(c))
    BY <1>1 DEF Exposed, Live
  <2>5. Followed(c)'
    BY <1>1, <2>1, <2>2 DEF Followed, Aged, Grown, Dated, Placed
  <2>6. Careful => Saved(c)'
    BY <1>1, <2>1, <2>3, <2>4 DEF Saved
  <2> QED
    BY <1>1, <2>5, <2>6 DEF Good
<1> QED
  BY <1>3, <1>4 DEF Durable

-----------------------------------------------------------------------------
(* The loops of the commit *)

\* IssueData
LEMMA IssueGood ==
  ASSUME Durable, Struct', ~Drops, IssueData
  PROVE  Durable'
<1>1. /\ UNCHANGED <<running, committing, last, committed, closed, tagged>>
      /\ UNCHANGED <<aborted, tail, log, version, wrote, tags, use, born, orphan, freed>>
      /\ UNCHANGED <<pc, h_buf, h_dirty>> /\ phase = "data"
  BY DEF IssueData, procVars
<1>2. todo \subseteq Blocks
  BY Groups DEF Durable, Struct, Base, CommitType
<1>3. CASE \E b \in todo, ok \in BOOLEAN : Written(b, ok) /\ todo' = todo \ {b} /\ UNCHANGED phase
  BY <1>1, <1>2, <1>3, WrittenGood
<1>4. CASE todo = {} /\ phase' = "log" /\ UNCHANGED <<todo, home, eio, buf>>
  BY <1>1, <1>4, PhaseGood
<1> QED
  BY <1>3, <1>4 DEF IssueData

\* LogBuffer
LEMMA LogGood ==
  ASSUME Durable, Struct', LogBuffer
  PROVE  Durable'
<1>1. /\ UNCHANGED <<running, committing, last, todo, committed, closed, tagged>>
      /\ UNCHANGED <<aborted, tail, home, log, version, wrote, tags, use, born, orphan, freed, eio>>
      /\ UNCHANGED <<pc, h_buf, h_dirty>> /\ phase = "log"
  BY DEF LogBuffer, procVars, blockVars
<1>2. committing # 0 /\ Base
  BY <1>1 DEF Durable, Struct, Base, TidInv
<1>3. ASSUME NEW b \in On(committing, "Metadata"), NEW escape \in BOOLEAN, WriteMetadata(b, escape),
             UNCHANGED phase
      PROVE  Durable'
  <2>1. /\ b \in Blocks /\ Touches(b) /\ buf[b].b_transaction = committing
        /\ buf[b].b_jlist = "Metadata" /\ buf'[b].b_jlist = "Shadow"
        /\ buf'[b].b_transaction = buf[b].b_transaction
        /\ buf'[b].b_next_transaction = buf[b].b_next_transaction
        /\ buf'[b].b_modified = buf[b].b_modified
        /\ buf'[b].b_cp_transaction = buf[b].b_cp_transaction /\ buf'[b].data = buf[b].data
        /\ buf'[b].dirty = (buf[b].dirty /\ buf[b].jbddirty)
        /\ buf'[b].jbddirty = (buf[b].dirty \/ buf[b].jbddirty)
        /\ buf'[b].freed = buf[b].freed
    BY <1>1, <1>2, <1>3, LogEffect
  <2> QED
    BY <1>1, <1>2, <1>3, <2>1, MovedGood
<1>4. ASSUME NEW b \in On(committing, "Metadata"), aborted, UNCHANGED phase,
             buf' = [buf EXCEPT ![b] = refile([@ EXCEPT !.jbddirty = FALSE])]
      PROVE  Durable'
  <2>1. b \in Blocks /\ buf[b].b_transaction = committing /\ buf[b].b_jlist = "Metadata"
    BY <1>4 DEF On
  <2>2. Touches(b) /\ buf'[b] = refile([buf[b] EXCEPT !.jbddirty = FALSE])
    BY <1>2, <1>4, <2>1, DropEffect DEF Base
  <2> QED
    BY <1>1, <1>2, <1>4, <2>1, <2>2, DropGood
<1>5. CASE phase' = "wait_for_data" /\ UNCHANGED buf
  BY <1>1, <1>5, PhaseGood
<1> QED
  BY <1>3, <1>4, <1>5 DEF LogBuffer

\* WaitForData
LEMMA WaitDataGood ==
  ASSUME Durable, Struct', WaitForData
  PROVE  Durable'
<1>1. /\ UNCHANGED <<running, committing, last, todo, committed, closed, tagged>>
      /\ UNCHANGED <<aborted, tail, home, log, version, wrote, tags, use, born, orphan, freed, eio>>
      /\ UNCHANGED <<pc, h_buf, h_dirty>> /\ phase = "wait_for_data"
  BY DEF WaitForData, procVars, blockVars
<1>2. committing # 0 /\ Base
  BY <1>1 DEF Durable, Struct, Base, TidInv
<1>3. ASSUME NEW b \in On(committing, "Dirtydata"), UNCHANGED phase,
             buf' = [buf EXCEPT ![b] = refile(@)]
      PROVE  Durable'
  <2>1. b \in Blocks /\ buf[b].b_transaction = committing /\ buf[b].b_jlist = "Dirtydata"
    BY <1>3 DEF On
  <2>2. Touches(b) /\ buf'[b] = refile(buf[b])
    BY <1>2, <1>3, <2>1, RefileEffect DEF Base
  <2> QED
    BY <1>1, <1>2, <1>3, <2>1, <2>2, RefileGood
<1>4. CASE phase' = "wait_for_iobuf" /\ UNCHANGED buf
  BY <1>1, <1>4, PhaseGood
<1> QED
  BY <1>3, <1>4 DEF WaitForData

\* WaitForIobuf
LEMMA WaitIoGood ==
  ASSUME Durable, Struct', WaitForIobuf
  PROVE  Durable'
<1>1. /\ UNCHANGED <<running, committing, last, todo, committed, closed, tagged>>
      /\ UNCHANGED <<aborted, tail, home, log, version, wrote, tags, use, born, orphan, freed, eio>>
      /\ UNCHANGED <<h_buf, h_dirty>> /\ phase = "wait_for_iobuf"
  BY DEF WaitForIobuf, blockVars
<1>2. committing # 0 /\ Base
  BY <1>1 DEF Durable, Struct, Base, TidInv
<1>3. ASSUME NEW b \in Blocks, io[b] = "done", UNCHANGED phase,
             buf' = [buf EXCEPT ![b] = Unshadow(@)], pc' = Woken(b)
      PROVE  Durable'
  <2>1. Touches(b) /\ buf'[b] = Unshadow(buf[b])
    BY <1>2, <1>3, UnshadowEffect DEF Base
  <2>2. \A q \in Procs : pc'[q] = pc[q] \/ (pc[q] = "asleep" /\ pc'[q] = "shadow")
    BY <1>3 DEF Woken
  <2>3. buf[b].b_jlist = "Shadow" /\ buf[b].b_transaction = committing
    <3>1. Listed(b)
      BY Known
    <3>2. buf[b].b_jlist = "Shadow"
      BY <1>3, <3>1 DEF Listed
    <3> QED
      BY <3>1, <3>2 DEF Listed
  <2>4. buf[b] \in Buffer /\ running \in 0 .. MaxTid /\ committing \in 0 .. MaxTid
    BY AtBlock DEF Durable
  <2>5. /\ buf'[b].b_transaction = buf[b].b_transaction
        /\ buf'[b].b_next_transaction = buf[b].b_next_transaction
        /\ buf'[b].b_jlist = "Forget" /\ buf'[b].b_modified = buf[b].b_modified
        /\ buf'[b].b_cp_transaction = buf[b].b_cp_transaction /\ buf'[b].data = buf[b].data
        /\ buf'[b].dirty = (buf[b].dirty /\ buf[b].jbddirty)
        /\ buf'[b].jbddirty = (buf[b].dirty \/ buf[b].jbddirty)
        /\ buf'[b].freed = buf[b].freed
    BY <1>2, <2>1, <2>3, <2>4, Unshadowed
  <2> QED
    BY <1>1, <1>2, <1>3, <2>1, <2>2, <2>3, <2>5, MovedGood
<1>4. CASE phase' = "record" /\ UNCHANGED <<io, buf, pc>>
  BY <1>1, <1>4, PhaseGood
<1> QED
  BY <1>3, <1>4 DEF WaitForIobuf

\* ForgetBuffer
LEMMA ForgetBufferGood ==
  ASSUME Durable, Struct', ForgetBuffer
  PROVE  Durable'
<1>1. /\ UNCHANGED <<running, last, todo, committed, closed, tagged>>
      /\ UNCHANGED <<aborted, tail, home, log, version, wrote, tags, use, born, orphan, freed, eio>>
      /\ UNCHANGED <<pc, h_buf, h_dirty>> /\ phase = "forget"
  BY DEF ForgetBuffer, procVars, blockVars
<1>2. committing # 0 /\ Base
  BY <1>1 DEF Durable, Struct, Base, TidInv
<1>3. ASSUME NEW b \in On(committing, "Forget"), UNCHANGED <<phase, committing>>,
             buf' = [buf EXCEPT ![b] = Checkpointed(@)]
      PROVE  Durable'
  <2>1. /\ b \in Blocks /\ Touches(b) /\ buf'[b] = Checkpointed(buf[b])
        /\ buf[b].b_transaction = committing /\ buf[b].b_jlist = "Forget"
    BY <1>2, <1>3, CheckpointedEffect DEF Base
  <2> QED
    BY <1>1, <1>2, <1>3, <2>1, CheckpointGood
<1>4. CASE On(committing, "Forget") = {} /\ phase' = "none" /\ committing' = 0 /\ UNCHANGED buf
  BY <1>1, <1>4, FinishGood
<1> QED
  BY <1>3, <1>4 DEF ForgetBuffer

\* CommitLock
LEMMA LockGood ==
  ASSUME Durable, Struct', CommitLock
  PROVE  Durable'
BY PhaseGood DEF CommitLock, procVars, blockVars

-----------------------------------------------------------------------------
(* The theorems *)

\* No step disturbs what a crash leaves.
LEMMA DurableNext ==
  ASSUME Durable, ~Drops, [Next]_vars
  PROVE  Durable'
<1>0. Struct'
  BY StructNext DEF Durable
<1>1. ASSUME NEW p \in Procs, AccessStep(p)
      PROVE  Durable'
  BY <1>0, <1>1, OwnedGood, AbortedGood, FrozenGood, ForgetGood, CopyGood, AllocGood, WaitGood,
     FileGood, ShadowGood DEF AccessStep
<1>2. ASSUME NEW p \in Procs,
             \/ jbdbf_journal_start(p) \/ jbdbf_journal_stop(p)
             \/ DirtyAgain(p) \/ Modify(p) \/ jbdbf_journal_release_buffer(p)
             \/ jbdbf_journal_dirty_metadata(p) \/ jbdbf_journal_dirty_data(p)
      PROVE  Durable'
  BY <1>0, <1>2, StartGood, StopGood, DirtyGood, ModifyGood, ReleaseGood, AppendedGood DEF Dirties
<1>3. ASSUME NEW p \in Procs, NEW b \in Blocks,
             \/ GetWriteAccess(p, b) \/ jbdbf_journal_get_create_access(p, b) \/ Append(p, b)
             \/ jbdbf_journal_forget(p, b) \/ Shrink(p, b) \/ FreeBlocks(p, b)
      PROVE  Durable'
  BY <1>0, <1>3, GetGood, CreateGood, AppendGood, ForgetBlockGood, ShrinkGood, FreeGood
<1>4. ASSUME CommitLock \/ CommitStep \/ LogIO \/ jbdbf_cleanup_journal_tail \/ Abort
      PROVE  Durable'
  BY <1>0, <1>4, LockGood, SwitchGood, IssueGood, LogGood, WaitDataGood, WaitIoGood, RecordGood,
     ForgetBufferGood, LogIOGood, TailGood, AbortGood DEF CommitStep
<1>5. ASSUME NEW b \in Blocks,
             \/ jbdbf_journal_invalidatepage(b)
             \/ WriteBack(b) \/ RemoveCheckpoint(b) \/ FailCheckpoint(b)
      PROVE  Durable'
  BY <1>0, <1>5, InvalidateGood, WriteBackGood, RemoveGood, FailGood
<1>6. CASE UNCHANGED vars
  <2>1. /\ UNCHANGED <<running, committing, last, phase, todo, committed, closed, tagged>>
        /\ UNCHANGED <<aborted, tail, home, log, version, wrote, tags, use, born, orphan, freed, eio, buf>>
        /\ UNCHANGED <<pc, h_buf, h_dirty>>
    BY <1>6 DEF vars, commitVars, procVars, blockVars
  <2>2. version \in Nat
    BY Groups, Constant DEF Durable, Struct, Base, RestType, Versions
  <2>3. Calm /\ \A c \in Blocks : Same(c)
    BY <2>1, <2>2 DEF Calm, Same
  <2> QED
    BY <1>0, <2>1, <2>3, StillGood
<1> QED
  BY <1>1, <1>2, <1>3, <1>4, <1>5, <1>6 DEF Next

\* In the initial states nothing has been changed.
LEMMA DurableInit ==
  ASSUME Init, ~Overtakes
  PROVE  Durable
<1>1. Struct
  BY StructInit
<1>2. Order
  BY DEF Init, Order
<1>3. \A p \in Procs : Begun(p)
  BY DEF Init, Begun
<1>4. ASSUME NEW b \in Blocks PROVE Good(b)
  <2>1. /\ running = 0 /\ committing = 0 /\ last = 0 /\ committed = {0} /\ version = 0
        /\ wrote = {} /\ tags = {} /\ tail = 1 /\ ~aborted
        /\ buf[b] = Fresh /\ home[b] = 0 /\ use[b] \in {"used", "free", "off"}
        /\ born[b] = 0 /\ orphan[b] = 0 /\ freed[b] = 0
    BY DEF Init
  <2>2. Followed(b)
    BY <2>1 DEF Followed, Aged, Grown, Dated, Placed, Fresh
  <2>3. Ordered(b)
    BY <2>1 DEF Ordered, Tagging, Placing, Gone, Allotted
  <2>4. Newest(b) = 0
    BY <1>1, <2>1, NewestIs
  <2>5. Contents(b) = 0 /\ ~Exposed(b)
    BY <2>1, <2>4 DEF Contents, Exposed, Fresh
  <2>6. Saved(b)
    BY <2>1, <2>5 DEF Saved
  <2>7. Guarded(b)
    BY <2>1, <2>5 DEF Guarded, Closing, Marked, Pinned, Fresh
  <2> QED
    BY <2>2, <2>3, <2>6, <2>7 DEF Good
<1> QED
  BY <1>1, <1>2, <1>3, <1>4 DEF Durable

\* Durable is an invariant where no block is written again while its append commits and
\* no error of a write is dropped.
LEMMA DurableHolds == Spec => [](~Overtakes /\ ~Drops => Durable)
<1>1. Init => (~Overtakes /\ ~Drops => Durable)
  BY DurableInit
<1>2. (~Overtakes /\ ~Drops => Durable) /\ [Next]_vars => (~Overtakes /\ ~Drops => Durable)'
  BY DurableNext
<1> QED
  BY <1>1, <1>2, PTL DEF Spec

\* DataInPlace: when the commit record of a transaction is on disk, the data that its
\* tags name is in place, or newer data of the same block is, whatever writes, commits,
\* truncations and writeback come between the append and the record and after.  The
\* conditions leave out the shapes in which it is not so: writes over an append that
\* commits (Overtakes), appends truncated in their own transaction, whose data
\* jbdbf_journal_invalidatepage drops and their tag stays (Retracts), and failed writes
\* of data whose error the asynchronous commit record overwrites (Drops).
THEOREM TaggedDataIsInPlace == Spec => [](~Overtakes /\ ~Retracts /\ ~Drops => DataInPlace)
<1>1. (~Overtakes /\ ~Drops => Durable) => (~Overtakes /\ ~Retracts /\ ~Drops => DataInPlace)
  <2> SUFFICES ASSUME Durable, ~Retracts, NEW t \in committed \ {0}, NEW b \in tagged[t]
               PROVE  home[b] >= closed[t][b]
    BY DEF DataInPlace
  <2>1. t \in Tids /\ tagged[t] \subseteq Data
    BY CommittedTids, Groups DEF Durable, Struct, Base, CommitType
  <2>2. b \in Blocks
    BY <2>1, Constant
  <2> QED
    BY <2>2, Known DEF Placed
<1> QED
  BY <1>1, DurableHolds, PTL

\* Recoverable: whenever the system stops, a block that committed transactions have
\* allocated and not truncated has its newest committed contents in place, or in the log
\* of the transaction that wrote them, behind a tail that has not passed it.  Writeback
\* and the checkpoint lists never run ahead of the commit, and neither the tail nor the
\* removal of a checkpoint runs ahead of writeback, for any number of blocks, processes
\* and transactions, when writes of checkpointed buffers fail and after an abort too.
\* The conditions leave out the shapes in which the code does lose contents: see the
\* constants Overtakes, Deletes, Interferes and Drops.
THEOREM CrashIsRecoverable ==
  Spec => [](~Overtakes /\ ~Deletes /\ ~Interferes /\ ~Drops => Recoverable)
<1>1. (~Overtakes /\ ~Drops => Durable) =>
        (~Overtakes /\ ~Deletes /\ ~Interferes /\ ~Drops => Recoverable)
  <2> SUFFICES ASSUME Durable, Careful PROVE Recoverable
    BY DEF Careful
  <2>1. \A b \in Blocks : Saved(b)
    BY Known
  <2> QED
    BY <2>1 DEF Recoverable, Saved, Contents, InLog
<1> QED
  BY <1>1, DurableHolds, PTL

=============================================================================
