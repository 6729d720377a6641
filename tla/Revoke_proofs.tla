---------------------------- MODULE Revoke_proofs ----------------------------
(***************************************************************************)
(* Proofs about Revoke: whatever is freed, reallocated and committed, and  *)
(* whenever the machine stops, the replay of the log leaves in a block     *)
(* what it held.                                                           *)
(***************************************************************************)
EXTENDS Revoke, Extrema

-----------------------------------------------------------------------------
(* A block in the history of the transactions: those that are closed, and    *)
(* the running one.                                                          *)

(* Transaction t has a copy of b for the log. *)
Copied(b, t) ==
  IF t = running THEN b \in logs
  ELSE IF t = running - 1 /\ phase # "none" THEN b \in closing.logs
  ELSE b \in copies[t]

(* Transaction t has still to write b in place. *)
Waiting(b, t) ==
  \/ t = running /\ b \in news
  \/ t = running - 1 /\ phase = "data" /\ b \in closing.news

(* Transaction t has a revoke record of b, in the log or in a table. *)
Record(b, t) ==
  IF t = running THEN b \in tables.running
  ELSE IF t = running - 1 /\ phase \in {"data", "revoke"} THEN b \in tables.committing
  ELSE b \in revokes[t]

(* What b is used for, and its contents, when t is closed, or now. *)
UseAt(b, t) == IF t = running THEN use[b] ELSE after[t][b].use
IsAt(b, t)  == IF t = running THEN change[b] ELSE after[t][b].is

InUse == {"meta", "data", "jdata"}

(* A crash may make t the last transaction that is recovered. *)
Ahead(t) == \A p \in 0 .. running - 1 : Prefix(p) => p <= t

-----------------------------------------------------------------------------
(* The inductive invariant, of one block *)

(* What a transaction has of a block says what it did to it last, and the    *)
(* contents of a block only get newer.                                       *)
Chronicle(b) ==
  /\ \A t \in 1 .. running :
       /\ Copied(b, t) => IsAt(b, t) = t /\ UseAt(b, t) \in {"meta", "jdata"}
       /\ Waiting(b, t) => IsAt(b, t) = t /\ UseAt(b, t) \in {"data", "jdata"}
       /\ b \in frees[t] => IsAt(b, t) = t /\ UseAt(b, t) = "held"
       /\ Record(b, t) => b \in frees[t]
  /\ \A t \in Tids : t > running => b \notin frees[t]
  /\ \A t \in 0 .. running : IsAt(b, t) <= t
  /\ \A t, u \in 0 .. running : t <= u => IsAt(b, t) <= IsAt(b, u)

(* The contents of a block that is in use are in the log, about to be        *)
(* written in place, or in place.                                            *)
Kept(b) ==
  \A e, k \in 0 .. running : Ahead(e) /\ UseAt(b, e) \in InUse /\ k = IsAt(b, e) =>
    \/ k >= tail /\ Copied(b, k)
    \/ k > 0 /\ Waiting(b, k)
    \/ home[b] >= k

(* A block that has a copy in the log, and is not what it was, was freed     *)
(* after it.                                                                 *)
FreedBetween(b, t, u) == \E f \in t + 1 .. u : b \in frees[f]

Parted(b) ==
  /\ use[b] \in {"free", "held", "data"} \/ b \in news =>
       \A t \in tail .. running : Copied(b, t) => FreedBetween(b, t, running)
  /\ \A e, k \in 0 .. running : UseAt(b, e) \in InUse /\ k = IsAt(b, e) =>
       \A t \in tail .. k - 1 : Copied(b, t) => Copied(b, k) \/ FreedBetween(b, t, k)

(* A block that had a copy in the log when it was freed has a revoke record. *)
Recorded(b) ==
  b \notin missed =>
    \A t \in tail .. running, f \in 1 .. running :
      t < f /\ Copied(b, t) /\ b \in frees[f] =>
        Record(b, f) \/ (f = running /\ b \in eio)

(* While a crash can still bring it back, a logged block is not given away,  *)
(* and nothing newer is written over it.                                     *)
Lineage(b) ==
  b \notin switched =>
    \A e, f \in 0 .. running :
      Ahead(e) /\ e <= f /\ UseAt(b, e) \in {"meta", "jdata"} =>
        \/ UseAt(b, f) = UseAt(b, e) /\ (e < f => ~Waiting(b, f))
        \/ UseAt(b, f) = "held" /\ IsAt(b, f) > e

NotNewer(b) ==
  /\ home[b] <= change[b]
  /\ b \notin switched =>
       \A e \in 0 .. running :
         Ahead(e) /\ UseAt(b, e) \in {"meta", "jdata"} => home[b] <= IsAt(b, e)

BlockInv(b) == Chronicle(b) /\ Kept(b) /\ Parted(b) /\ Recorded(b) /\ Lineage(b) /\ NotNewer(b)

(* The transactions that are durable have been written, and those that have  *)
(* left the log are durable.                                                 *)
LogInv == durable \subseteq Written /\ Prefix(tail - 1) /\ (phase # "none" => running > 1)

ReplayInv == LogInv /\ \A b \in Blocks : BlockInv(b)

(* A logged block that is in use is not marked revoked. *)
BitsInv ==
  /\ \A b \in Blocks : use[b] \in {"meta", "jdata"} /\ b \notin switched => bh[b] # "revoked"
  /\ RevokeAccepted

-----------------------------------------------------------------------------
(* Types *)

\* The types of the variables, one by one.
LEMMA Types ==
  ASSUME TypeOK
  PROVE  /\ use \in [Blocks -> Uses] /\ change \in [Blocks -> 0 .. MaxTid]
         /\ logs \subseteq Blocks /\ news \subseteq Blocks /\ eio \subseteq Blocks
         /\ missed \subseteq Blocks /\ switched \subseteq Blocks
         /\ closing \in [logs : SUBSET Blocks, news : SUBSET Blocks]
         /\ bh \in [Blocks -> {"absent", "plain", "valid", "revoked"}]
         /\ tables \in [running : SUBSET Blocks, committing : SUBSET Blocks]
         /\ running \in 1 .. MaxTid /\ phase \in {"none", "data", "revoke", "record"}
         /\ durable \subseteq Tids
         /\ copies \in [Tids -> SUBSET Blocks] /\ revokes \in [Tids -> SUBSET Blocks]
         /\ frees \in [Tids -> SUBSET Blocks]
         /\ after \in [0 .. running - 1 -> [Blocks -> [use : Uses, is : 0 .. MaxTid]]]
         /\ home \in [Blocks -> 0 .. MaxTid] /\ tail \in 1 .. running
         /\ ops \in 0 .. MaxOps /\ MaxTid \in Nat \ {0} /\ MaxOps \in Nat
BY ConstantsAssumption DEF TypeOK, Tids

\* A written transaction is one of those before the running one.
LEMMA WrittenIs ==
  ASSUME TypeOK, LogInv
  PROVE  /\ \A t \in Written : t \in Tids /\ t < running
         /\ \A t \in Nat : Prefix(t) => t < running /\ (t > 0 => t \in Written)
         /\ Prefix(0)
BY Types DEF LogInv, Written, Prefix, Tids

\* The newest copy of a block, if it has one.
LEMMA NewestIs ==
  ASSUME TypeOK, LogInv, NEW b \in Blocks
  PROVE  /\ Newest(b) \in 0 .. MaxTid
         /\ Newest(b) > 0 => Newest(b) \in Written /\ b \in copies[Newest(b)]
<1> DEFINE S == {0} \cup {t \in Written : b \in copies[t]}
<1>1. S \in SUBSET (0 .. MaxTid) /\ S # {} /\ MaxTid \in Nat
  BY Types, WrittenIs DEF Tids
<1>2. Max(S) \in S
  <2> HIDE DEF S
  <2> QED
    BY <1>1, MaxIsLargest
<1>3. Newest(b) \in S
  BY <1>2 DEF Newest
<1> QED
  BY <1>1, <1>3

\* The initial states have the types, and nothing is durable.
LEMMA TypeInit == Init => TypeOK /\ LogInv
BY ConstantsAssumption DEF Init, TypeOK, LogInv, Uses, Tids, Written, Prefix

\* The table of the running transaction may lose or gain a block.
LEMMA TableTypes ==
  ASSUME tables \in [running : SUBSET Blocks, committing : SUBSET Blocks],
         NEW S \in SUBSET Blocks
  PROVE  /\ [tables EXCEPT !.running = S] \in [running : SUBSET Blocks, committing : SUBSET Blocks]
         /\ tables.running \subseteq Blocks
OBVIOUS

\* Cancelling or recording a revoke keeps the types.
LEMMA TypeRevoke ==
  ASSUME TypeOK, NEW b \in Blocks,
         CancelRevoke(b) \/ CancelAlias(b) \/ JournalRevoke(b)
  PROVE  /\ bh' \in [Blocks -> {"absent", "plain", "valid", "revoked"}]
         /\ tables' \in [running : SUBSET Blocks, committing : SUBSET Blocks]
<1>1. /\ bh \in [Blocks -> {"absent", "plain", "valid", "revoked"}]
      /\ tables \in [running : SUBSET Blocks, committing : SUBSET Blocks]
  BY Types
<1>2. /\ tables.running \ {b} \in SUBSET Blocks /\ tables.running \cup {b} \in SUBSET Blocks
  BY <1>1
<1>3. /\ [tables EXCEPT !.running = @ \ {b}] \in [running : SUBSET Blocks, committing : SUBSET Blocks]
      /\ [tables EXCEPT !.running = @ \cup {b}] \in [running : SUBSET Blocks, committing : SUBSET Blocks]
  BY <1>1, <1>2, TableTypes
<1> QED
  BY <1>1, <1>3 DEF CancelRevoke, CancelAlias, JournalRevoke

\* What a transaction does to one block keeps the types.
LEMMA TypeChange ==
  ASSUME TypeOK, NEW b \in Blocks, NEW u \in Uses,
         use' = [use EXCEPT ![b] = u], change' = [change EXCEPT ![b] = running]
  PROVE  use' \in [Blocks -> Uses] /\ change' \in [Blocks -> 0 .. MaxTid]
BY Types

\* A change or a release of a block keeps the types.
LEMMA TypeBlock ==
  ASSUME TypeOK, NEW b \in Blocks,
         \/ ChangeMeta(b) \/ ChangeData(b) \/ ChangeJournalled(b) \/ SwitchMode(b)
         \/ Read(b) \/ FreeBlock(b) \/ Evict(b) \/ Release(b)
  PROVE  TypeOK'
<1>1. CASE ChangeMeta(b)
  <2>1. /\ bh' \in [Blocks -> {"absent", "plain", "valid", "revoked"}]
        /\ tables' \in [running : SUBSET Blocks, committing : SUBSET Blocks]
    BY <1>1, TypeRevoke DEF ChangeMeta
  <2>2. use' \in [Blocks -> Uses] /\ change' \in [Blocks -> 0 .. MaxTid]
    BY <1>1, TypeChange DEF ChangeMeta, Change, Uses
  <2>3. logs' \subseteq Blocks /\ news' \subseteq Blocks /\ ops' \in 0 .. MaxOps
    BY <1>1, Types DEF ChangeMeta, Change, Working
  <2> QED
    BY <1>1, <2>1, <2>2, <2>3 DEF TypeOK, ChangeMeta, Change, logVars, diskVars
<1>2. CASE ChangeData(b)
  BY <1>2, Types, SMTT(30) DEF ChangeData, Change, Working, TypeOK, Uses, Tids, logVars, diskVars
<1>3. CASE ChangeJournalled(b)
  <2>1. /\ bh' \in [Blocks -> {"absent", "plain", "valid", "revoked"}]
        /\ tables' \in [running : SUBSET Blocks, committing : SUBSET Blocks]
    BY <1>3, TypeRevoke DEF ChangeJournalled
  <2>2. use' \in [Blocks -> Uses] /\ change' \in [Blocks -> 0 .. MaxTid]
    BY <1>3, TypeChange DEF ChangeJournalled, Change, Uses
  <2>3. logs' \subseteq Blocks /\ news' \subseteq Blocks /\ ops' \in 0 .. MaxOps
    BY <1>3, Types DEF ChangeJournalled, Change, Working
  <2> QED
    BY <1>3, <2>1, <2>2, <2>3 DEF TypeOK, ChangeJournalled, Change, logVars, diskVars
<1>4. CASE SwitchMode(b)
  BY <1>4, Types DEF SwitchMode, TypeOK, Uses, Tids, logVars, diskVars
<1>5. CASE Read(b)
  BY <1>5, Types DEF Read, TypeOK, Tids, logVars, diskVars
<1>6. CASE FreeBlock(b)
  <2>1. /\ bh' \in [Blocks -> {"absent", "plain", "valid", "revoked"}]
        /\ tables' \in [running : SUBSET Blocks, committing : SUBSET Blocks]
    BY <1>6, Types, TypeRevoke DEF FreeBlock
  <2>2. eio' \subseteq Blocks /\ missed' \subseteq Blocks
    BY <1>6, Types DEF FreeBlock, JournalRevoke
  <2>3. use' \in [Blocks -> Uses] /\ change' \in [Blocks -> 0 .. MaxTid]
    BY <1>6, TypeChange DEF FreeBlock, Uses
  <2>4. logs' \subseteq Blocks /\ news' \subseteq Blocks /\ ops' \in 0 .. MaxOps
    BY <1>6, Types DEF FreeBlock, Working
  <2>5. frees' \in [Tids -> SUBSET Blocks]
    BY <1>6, Types DEF FreeBlock, Tids
  <2> QED
    BY <1>6, <2>1, <2>2, <2>3, <2>4, <2>5 DEF TypeOK, FreeBlock, logVars, diskVars
<1>7. CASE Evict(b)
  BY <1>7, Types DEF Evict, TypeOK, Tids, logVars, diskVars
<1>8. CASE Release(b)
  BY <1>8, Types DEF Release, TypeOK, Uses, Tids, logVars, diskVars
<1> QED
  BY <1>1, <1>2, <1>3, <1>4, <1>5, <1>6, <1>7, <1>8

\* A block written in place keeps the types.
LEMMA TypeWriteHome ==
  ASSUME TypeOK, LogInv, NEW b \in Blocks, WriteHome(b)
  PROVE  TypeOK'
<1>1. Newest(b) \in 0 .. MaxTid /\ change[b] \in 0 .. MaxTid /\ home \in [Blocks -> 0 .. MaxTid]
  BY NewestIs, Types
<1>2. home' \in [Blocks -> 0 .. MaxTid]
  BY <1>1 DEF WriteHome
<1> QED
  BY <1>2 DEF WriteHome, TypeOK, fsVars, logVars

\* The steps of the commit keep the types.
LEMMA TypeCommit ==
  ASSUME TypeOK, LogInv, CommitStep
  PROVE  TypeOK'
<1>1. CASE CommitSwitch
  <2>1. closing' \in [logs : SUBSET Blocks, news : SUBSET Blocks] /\ running' \in Tids
        /\ running' = running + 1
    BY <1>1, Types DEF CommitSwitch, Tids
  <2>2. tables' \in [running : SUBSET Blocks, committing : SUBSET Blocks]
    BY <1>1, Types DEF CommitSwitch
  <2>3. \A b \in Blocks : [use |-> use[b], is |-> change[b]] \in [use : Uses, is : 0 .. MaxTid]
    BY Types
  <2>4. after' \in [0 .. running' - 1 -> [Blocks -> [use : Uses, is : 0 .. MaxTid]]]
    BY <1>1, <2>1, <2>3, Types DEF CommitSwitch
  <2>5. tail' \in 1 .. running' /\ logs' \subseteq Blocks /\ news' \subseteq Blocks
    BY <1>1, <2>1, Types DEF CommitSwitch, diskVars
  <2> QED
    BY <1>1, <2>1, <2>2, <2>4, <2>5 DEF CommitSwitch, TypeOK, diskVars
<1>2. CASE CommitData
  <2>1. running > 1
    BY <1>2 DEF CommitData, LogInv
  <2>2. \A b \in Blocks : Max({home[b], after[running - 1][b].is}) \in 0 .. MaxTid
    <3> SUFFICES ASSUME NEW b \in Blocks
                 PROVE  Max({home[b], after[running - 1][b].is}) \in 0 .. MaxTid
      OBVIOUS
    <3>1. home[b] \in 0 .. MaxTid /\ after[running - 1][b].is \in 0 .. MaxTid /\ MaxTid \in Nat
      BY <2>1, Types
    <3> QED
      BY <3>1, MaxIsLargest
  <2>3. home' \in [Blocks -> 0 .. MaxTid]
    BY <1>2, <2>2, Types DEF CommitData
  <2> QED
    BY <1>2, <2>3 DEF CommitData, TypeOK, fsVars
<1>3. CASE WriteRevokes
  <2>1. running - 1 \in Tids /\ tables.committing \subseteq Blocks
    BY <1>3, Types DEF WriteRevokes, LogInv, Tids
  <2>2. revokes' \in [Tids -> SUBSET Blocks]
    BY <1>3, <2>1, Types DEF WriteRevokes
  <2>3. tables' \in [running : SUBSET Blocks, committing : SUBSET Blocks]
    BY <1>3, Types DEF WriteRevokes
  <2> QED
    BY <1>3, <2>2, <2>3 DEF WriteRevokes, TypeOK, fsVars, diskVars
<1>4. CASE CommitRecord
  <2>1. running - 1 \in Tids /\ closing.logs \subseteq Blocks
    BY <1>4, Types DEF CommitRecord, LogInv, Tids
  <2>2. copies' \in [Tids -> SUBSET Blocks]
    BY <1>4, <2>1, Types DEF CommitRecord
  <2> QED
    BY <1>4, <2>2 DEF CommitRecord, TypeOK, fsVars, diskVars
<1> QED
  BY <1>1, <1>2, <1>3, <1>4 DEF CommitStep

\* The checkpoint and the disk keep the types.
LEMMA TypeDisk ==
  ASSUME TypeOK, LogInv, Checkpoint \/ (\E t \in Tids : Settle(t))
  PROVE  TypeOK'
<1>1. CASE Checkpoint
  <2>1. tail + 1 \in 1 .. running
    BY <1>1, Types, WrittenIs DEF Checkpoint
  <2> QED
    BY <1>1, <2>1 DEF Checkpoint, TypeOK, fsVars, logVars
<1>2. ASSUME NEW t \in Tids, Settle(t)
      PROVE  TypeOK'
  BY <1>2 DEF Settle, TypeOK, fsVars, diskVars
<1> QED
  BY <1>1, <1>2

\* What is durable, and what has left the log, stays so.
LEMMA LogNext ==
  ASSUME TypeOK, LogInv, Next
  PROVE  LogInv'
<1>1. running \in Nat \ {0} /\ tail \in Nat /\ durable \subseteq Written
  BY Types DEF LogInv
<1>2. ASSUME NEW b \in Blocks,
             \/ ChangeMeta(b) \/ ChangeData(b) \/ ChangeJournalled(b) \/ SwitchMode(b)
             \/ Read(b) \/ FreeBlock(b) \/ Evict(b) \/ Release(b) \/ WriteHome(b)
      PROVE  LogInv'
  <2>1. UNCHANGED <<running, phase, durable, tail>>
    BY <1>2 DEF ChangeMeta, ChangeData, ChangeJournalled, SwitchMode, Read, FreeBlock, Evict,
                Release, WriteHome, Change, logVars, diskVars
  <2> QED
    BY <2>1 DEF LogInv, Written, Prefix
<1>3. CASE CommitStep
  <2>1. CASE CommitSwitch
    BY <2>1, <1>1 DEF CommitSwitch, LogInv, Written, Prefix, diskVars
  <2>2. CASE CommitData
    BY <2>2, <1>1 DEF CommitData, LogInv, Written, Prefix
  <2>3. CASE WriteRevokes
    BY <2>3, <1>1 DEF WriteRevokes, LogInv, Written, Prefix, diskVars
  <2>4. CASE CommitRecord
    BY <2>4, <1>1 DEF CommitRecord, LogInv, Written, Prefix, diskVars
  <2> QED
    BY <1>3, <2>1, <2>2, <2>3, <2>4 DEF CommitStep
<1>4. CASE Checkpoint
  BY <1>4, <1>1 DEF Checkpoint, LogInv, Written, Prefix, logVars
<1>5. ASSUME NEW t \in Tids, Settle(t)
      PROVE  LogInv'
  BY <1>5, <1>1 DEF Settle, LogInv, Written, Prefix, diskVars
<1> QED
  BY <1>2, <1>3, <1>4, <1>5 DEF Next

\* Every step keeps the types.
LEMMA TypeNext == TypeOK /\ LogInv /\ [Next]_vars => TypeOK' /\ LogInv'
<1> SUFFICES ASSUME TypeOK, LogInv, [Next]_vars
             PROVE  TypeOK' /\ LogInv'
  OBVIOUS
<1>1. CASE Next
  <2>1. TypeOK'
    BY <1>1, TypeBlock, TypeWriteHome, TypeCommit, TypeDisk DEF Next
  <2> QED
    BY <1>1, <2>1, LogNext
<1>2. CASE UNCHANGED vars
  BY <1>2 DEF vars, fsVars, logVars, diskVars, TypeOK, LogInv, Written, Prefix
<1> QED
  BY <1>1, <1>2

\* Every variable keeps its type, however long the system runs.
THEOREM TypeCorrect == Spec => []TypeOK
<1>1. TypeOK /\ LogInv /\ [Next]_vars => (TypeOK /\ LogInv)'
  BY TypeNext
<1> QED
  BY TypeInit, <1>1, PTL DEF Spec

-----------------------------------------------------------------------------
(* The revoke bits *)

\* Every step keeps a logged block in use from being marked revoked.
LEMMA BitsNext == TypeOK /\ BitsInv /\ [Next]_vars => BitsInv'
<1> SUFFICES ASSUME TypeOK, BitsInv, [Next]_vars
             PROVE  BitsInv'
  OBVIOUS
<1>1. /\ use \in [Blocks -> Uses]
      /\ bh \in [Blocks -> {"absent", "plain", "valid", "revoked"}]
      /\ eio \subseteq switched
  BY Types DEF BitsInv, RevokeAccepted
<1>2. ASSUME NEW b \in Blocks,
             \/ ChangeMeta(b) \/ ChangeData(b) \/ ChangeJournalled(b) \/ SwitchMode(b)
             \/ Read(b) \/ FreeBlock(b) \/ Evict(b) \/ Release(b) \/ WriteHome(b)
      PROVE  BitsInv'
  <2> USE <1>1 DEF BitsInv, RevokeAccepted
  <2>1. CASE ChangeMeta(b)
    BY <2>1 DEF ChangeMeta, CancelRevoke, Change
  <2>2. CASE ChangeData(b)
    BY <2>2 DEF ChangeData, Change
  <2>3. CASE ChangeJournalled(b)
    BY <2>3 DEF ChangeJournalled, CancelAlias, Change
  <2>4. CASE SwitchMode(b)
    BY <2>4 DEF SwitchMode
  <2>5. CASE Read(b)
    BY <2>5 DEF Read
  <2>6. CASE FreeBlock(b)
    BY <2>6 DEF FreeBlock, JournalRevoke, Revokes
  <2>7. CASE Evict(b)
    BY <2>7 DEF Evict
  <2>8. CASE Release(b)
    BY <2>8 DEF Release
  <2>9. CASE WriteHome(b)
    BY <2>9 DEF WriteHome, fsVars
  <2> QED
    BY <1>2, <2>1, <2>2, <2>3, <2>4, <2>5, <2>6, <2>7, <2>8, <2>9
<1>3. CASE CommitStep \/ Checkpoint \/ (\E t \in Tids : Settle(t)) \/ UNCHANGED vars
  <2>1. UNCHANGED <<use, bh, eio, switched>>
    BY <1>3 DEF CommitStep, CommitSwitch, CommitData, WriteRevokes, CommitRecord, Checkpoint,
                Settle, vars, fsVars
  <2> QED
    BY <2>1 DEF BitsInv, RevokeAccepted
<1> QED
  BY <1>2, <1>3 DEF Next

\* The bit that says revoked outlives the transaction and its table, and is
\* always cleared by the time its block is freed again, so that no legal free
\* is refused as a second one.
THEOREM FreesAccepted == Spec => []RevokeAccepted
<1>1. Init => BitsInv
  BY DEF Init, BitsInv, RevokeAccepted
<1>2. BitsInv => RevokeAccepted
  BY DEF BitsInv
<1> QED
  BY <1>1, <1>2, TypeCorrect, BitsNext, PTL DEF Spec

-----------------------------------------------------------------------------
(* What a step does to the history of a block *)

(* Nothing of it changes, but that more may be durable. *)
Same(b) ==
  /\ running' = running /\ tail' = tail /\ home'[b] = home[b] /\ durable \subseteq durable'
  /\ use'[b] = use[b] /\ change'[b] = change[b] /\ (b \in news' <=> b \in news)
  /\ \A t \in 1 .. running :
       /\ Copied(b, t)' <=> Copied(b, t)
       /\ Waiting(b, t)' <=> Waiting(b, t)
       /\ Record(b, t)' <=> Record(b, t)
  /\ \A t \in 0 .. running : UseAt(b, t)' = UseAt(b, t) /\ IsAt(b, t)' = IsAt(b, t)
  /\ \A t \in Tids : b \in frees'[t] <=> b \in frees[t]
  /\ b \in missed => b \in missed'
  /\ b \in switched => b \in switched'
  /\ b \in eio => b \in eio'

\* The parts of the history of a block have their types.
LEMMA HistoryTypes ==
  ASSUME TypeOK, LogInv, NEW b \in Blocks
  PROVE  /\ \A t \in 0 .. running : UseAt(b, t) \in Uses /\ IsAt(b, t) \in Nat
         /\ running \in Nat \ {0} /\ tail \in 1 .. running /\ home[b] \in Nat /\ change[b] \in Nat
         /\ 1 .. running \subseteq Tids
<1>1. /\ running \in Nat \ {0} /\ tail \in 1 .. running /\ home[b] \in Nat /\ change[b] \in Nat
      /\ 1 .. running \subseteq Tids /\ use[b] \in Uses
  BY Types DEF Tids
<1>2. \A t \in 0 .. running - 1 : after[t][b] \in [use : Uses, is : 0 .. MaxTid] /\ MaxTid \in Nat
  BY Types
<1>3. \A t \in 0 .. running : t # running => t \in 0 .. running - 1
  BY <1>1
<1> QED
  BY <1>1, <1>2, <1>3 DEF UseAt, IsAt

\* A step that changes nothing of a block keeps its invariant.
LEMMA SameKeeps ==
  ASSUME TypeOK, LogInv, NEW b \in Blocks, BlockInv(b), Same(b)
  PROVE  BlockInv(b)'
<1>1. /\ \A t \in 0 .. running : UseAt(b, t) \in Uses /\ IsAt(b, t) \in Nat
      /\ running \in Nat \ {0} /\ tail \in 1 .. running /\ home[b] \in Nat /\ change[b] \in Nat
      /\ 1 .. running \subseteq Tids
  BY HistoryTypes
<1>2. \A e \in 0 .. running : Ahead(e)' => Ahead(e)
  BY <1>1 DEF Ahead, Prefix, Same
<1>3. Chronicle(b)'
  BY <1>1 DEF BlockInv, Chronicle, Same
<1>4. Kept(b)'
  BY <1>1, <1>2 DEF BlockInv, Kept, Same
<1>5. Parted(b)'
  BY <1>1 DEF BlockInv, Parted, FreedBetween, Same
<1>6. Recorded(b)'
  BY <1>1 DEF BlockInv, Recorded, Same
<1>7. Lineage(b)'
  BY <1>1, <1>2 DEF BlockInv, Lineage, Same
<1>8. NotNewer(b)'
  BY <1>1, <1>2 DEF BlockInv, NotNewer, Same
<1> QED
  BY <1>3, <1>4, <1>5, <1>6, <1>7, <1>8 DEF BlockInv

\* A step on one block changes nothing of another.
LEMMA OthersSame ==
  ASSUME TypeOK, LogInv, NEW b \in Blocks, NEW c \in Blocks \ {b},
         \/ ChangeMeta(c) \/ ChangeData(c) \/ ChangeJournalled(c) \/ SwitchMode(c)
         \/ Read(c) \/ FreeBlock(c) \/ Evict(c) \/ Release(c) \/ WriteHome(c)
  PROVE  Same(b)
<1>1. /\ UNCHANGED <<running, tail, durable, phase, closing, copies, revokes, after>>
      /\ use'[b] = use[b] /\ change'[b] = change[b] /\ home'[b] = home[b]
  BY Types DEF ChangeMeta, ChangeData, ChangeJournalled, SwitchMode, Read, FreeBlock, Evict,
               Release, WriteHome, Change, fsVars, logVars, diskVars
<1>2. /\ b \in logs' <=> b \in logs
      /\ b \in news' <=> b \in news
      /\ b \in missed' <=> b \in missed
      /\ b \in switched' <=> b \in switched
      /\ b \in eio' <=> b \in eio
  BY Types DEF ChangeMeta, ChangeData, ChangeJournalled, SwitchMode, Read, FreeBlock, Evict,
               Release, WriteHome, Change, fsVars, logVars, diskVars, JournalRevoke
<1>3. tables \in [running : SUBSET Blocks, committing : SUBSET Blocks]
  BY Types
<1>4. /\ b \in tables'.running <=> b \in tables.running
      /\ tables'.committing = tables.committing
  BY <1>3 DEF ChangeMeta, ChangeData, ChangeJournalled, SwitchMode, Read, FreeBlock, Evict,
               Release, WriteHome, CancelRevoke, CancelAlias, JournalRevoke
<1>5. \A t \in Tids : b \in frees'[t] <=> b \in frees[t]
  <2>1. frees' = frees \/ frees' = [frees EXCEPT ![running] = @ \cup {c}]
    BY DEF ChangeMeta, ChangeData, ChangeJournalled, SwitchMode, Read, FreeBlock, Evict,
           Release, WriteHome, Change
  <2>2. frees \in [Tids -> SUBSET Blocks] /\ running \in Tids /\ c # b
    BY Types DEF Tids
  <2> QED
    BY <2>1, <2>2
<1> QED
  BY <1>1, <1>2, <1>4, <1>5 DEF Same, Copied, Waiting, Record, UseAt, IsAt

\* Steps that change nothing of any block.
LEMMA AllSame ==
  ASSUME TypeOK, LogInv, NEW b \in Blocks,
         \/ \E c \in Blocks : Read(c) \/ Evict(c)
         \/ \E t \in Tids : Settle(t)
         \/ UNCHANGED vars
  PROVE  Same(b)
<1>1. /\ UNCHANGED <<running, tail, phase, closing, copies, revokes, after, use, change, home, logs,
                     news, missed, switched, eio, tables, frees>>
      /\ durable \subseteq durable'
  BY DEF Read, Evict, Settle, vars, fsVars, logVars, diskVars
<1> QED
  BY <1>1 DEF Same, Copied, Waiting, Record, UseAt, IsAt

\* Writing the revoke records and the commit record only moves them to the log.
LEMMA RecordsSame ==
  ASSUME TypeOK, LogInv, NEW b \in Blocks, WriteRevokes \/ CommitRecord
  PROVE  Same(b)
<1>1. UNCHANGED <<running, tail, durable, after, use, change, home, logs, news, missed, switched,
                  eio, frees>>
  BY DEF WriteRevokes, CommitRecord, fsVars, diskVars
<1>2. /\ running \in Nat \ {0} /\ running > 1 /\ running - 1 \in Tids
      /\ copies \in [Tids -> SUBSET Blocks] /\ revokes \in [Tids -> SUBSET Blocks]
      /\ tables \in [running : SUBSET Blocks, committing : SUBSET Blocks]
      /\ 1 .. running \subseteq Tids
  BY Types DEF WriteRevokes, CommitRecord, LogInv, Tids
<1>3. \A t \in 1 .. running :
        /\ Copied(b, t)' <=> Copied(b, t)
        /\ Waiting(b, t)' <=> Waiting(b, t)
        /\ Record(b, t)' <=> Record(b, t)
  <2>1. CASE WriteRevokes
    BY <1>1, <1>2, <2>1 DEF WriteRevokes, Copied, Waiting, Record, fsVars
  <2>2. CASE CommitRecord
    BY <1>1, <1>2, <2>2 DEF CommitRecord, Copied, Waiting, Record, fsVars
  <2> QED
    BY <2>1, <2>2
<1> QED
  BY <1>1, <1>3 DEF Same, UseAt, IsAt

-----------------------------------------------------------------------------
(* Closing a transaction *)

Closes(b) ==
  /\ running' = running + 1 /\ tail' = tail /\ home'[b] = home[b] /\ durable' = durable
  /\ use'[b] = use[b] /\ change'[b] = change[b] /\ b \notin news'
  /\ \A t \in 1 .. running :
       /\ Copied(b, t)' <=> Copied(b, t)
       /\ Waiting(b, t)' <=> Waiting(b, t)
       /\ Record(b, t)' <=> Record(b, t)
  /\ \A t \in {running + 1} : ~Copied(b, t)' /\ ~Waiting(b, t)' /\ ~Record(b, t)'
  /\ \A t \in 0 .. running : UseAt(b, t)' = UseAt(b, t) /\ IsAt(b, t)' = IsAt(b, t)
  /\ \A t \in {running + 1} : UseAt(b, t)' = use[b] /\ IsAt(b, t)' = change[b]
  /\ frees' = frees /\ missed' = missed /\ switched' = switched /\ eio = {}
  /\ running + 1 \in Tids

\* What the switch of the transactions does to the history of a block.
LEMMA SwitchCloses ==
  ASSUME TypeOK, LogInv, NEW b \in Blocks, CommitSwitch
  PROVE  Closes(b)
<1>1. /\ running' = running + 1 /\ phase = "none" /\ phase' = "data"
      /\ UNCHANGED <<tail, durable, use, change, home, missed, switched, frees, copies, revokes>>
      /\ logs' = {} /\ news' = {} /\ closing'.logs = logs /\ closing'.news = news
      /\ tables'.running = {} /\ tables'.committing = tables.running
      /\ eio = {} /\ running \in Nat \ {0} /\ running + 1 \in Tids
  BY Types DEF CommitSwitch, diskVars, Tids
<1>2. /\ \A t \in 0 .. running - 1 : after'[t] = after[t]
      /\ after'[running][b] = [use |-> use[b], is |-> change[b]]
  BY <1>1 DEF CommitSwitch
<1>3. \A t \in 1 .. running :
        /\ Copied(b, t)' <=> Copied(b, t)
        /\ Waiting(b, t)' <=> Waiting(b, t)
        /\ Record(b, t)' <=> Record(b, t)
  BY <1>1 DEF Copied, Waiting, Record
<1>4. \A t \in {running + 1} : ~Copied(b, t)' /\ ~Waiting(b, t)' /\ ~Record(b, t)'
  BY <1>1 DEF Copied, Waiting, Record
<1>5. \A t \in 0 .. running : UseAt(b, t)' = UseAt(b, t) /\ IsAt(b, t)' = IsAt(b, t)
  BY <1>1, <1>2 DEF UseAt, IsAt
<1>6. \A t \in {running + 1} : UseAt(b, t)' = use[b] /\ IsAt(b, t)' = change[b]
  BY <1>1 DEF UseAt, IsAt
<1> QED
  BY <1>1, <1>3, <1>4, <1>5, <1>6 DEF Closes

\* Closing a transaction keeps the invariant.
LEMMA ClosesKeeps ==
  ASSUME TypeOK, LogInv, NEW b \in Blocks, BlockInv(b), Closes(b)
  PROVE  BlockInv(b)'
<1>1. /\ \A t \in 0 .. running : UseAt(b, t) \in Uses /\ IsAt(b, t) \in Nat
      /\ running \in Nat \ {0} /\ tail \in 1 .. running /\ home[b] \in Nat /\ change[b] \in Nat
      /\ 1 .. running \subseteq Tids
  BY HistoryTypes
<1>2. \A e \in 0 .. running : Ahead(e)' => Ahead(e)
  BY <1>1 DEF Ahead, Prefix, Closes
<1>3. \A t \in 0 .. running + 1 : t \in 0 .. running \/ t \in {running + 1}
  BY <1>1
<1>4. UseAt(b, running) = use[b] /\ IsAt(b, running) = change[b]
  BY DEF UseAt, IsAt
<1>5. Ahead(running)
  BY <1>1 DEF Ahead
<1>6. Chronicle(b)'
  <2>1. /\ \A t \in 1 .. running : t \in 0 .. running
        /\ \A t \in 1 .. running + 1 : t \in 1 .. running \/ t \in {running + 1}
        /\ \A t \in {running + 1} : b \notin frees'[t]
    BY <1>1 DEF BlockInv, Chronicle, Closes
  <2>2. \A t \in 1 .. running + 1 :
          /\ Copied(b, t)' => IsAt(b, t)' = t /\ UseAt(b, t)' \in {"meta", "jdata"}
          /\ Waiting(b, t)' => IsAt(b, t)' = t /\ UseAt(b, t)' \in {"data", "jdata"}
          /\ b \in frees'[t] => IsAt(b, t)' = t /\ UseAt(b, t)' = "held"
          /\ Record(b, t)' => b \in frees'[t]
    BY <2>1 DEF BlockInv, Chronicle, Closes
  <2>3. \A t \in Tids : t > running + 1 => b \notin frees'[t]
    BY <1>1 DEF BlockInv, Chronicle, Closes, Tids
  <2>4. \A t \in 0 .. running + 1 : IsAt(b, t)' <= t
    BY <1>1, <1>3, <1>4 DEF BlockInv, Chronicle, Closes
  <2>5. \A t, u \in 0 .. running + 1 : t <= u => IsAt(b, t)' <= IsAt(b, u)'
    BY <1>1, <1>3, <1>4 DEF BlockInv, Chronicle, Closes
  <2>6. running' = running + 1
    BY DEF Closes
  <2> QED
    BY <2>2, <2>3, <2>4, <2>5, <2>6 DEF Chronicle
<1>7. Kept(b)'
  BY <1>1, <1>2, <1>3, <1>4, <1>5 DEF BlockInv, Kept, Closes, Chronicle
<1>8. Parted(b)'
  BY <1>1, <1>3, <1>4 DEF BlockInv, Parted, FreedBetween, Closes, Chronicle
<1>9. Recorded(b)'
  BY <1>1, <1>3 DEF BlockInv, Recorded, Closes, Chronicle
<1>10. Lineage(b)'
  BY <1>1, <1>2, <1>3, <1>4 DEF BlockInv, Lineage, Closes
<1>11. NotNewer(b)'
  BY <1>1, <1>2, <1>3, <1>4, <1>5 DEF BlockInv, NotNewer, Closes
<1> QED
  BY <1>6, <1>7, <1>8, <1>9, <1>10, <1>11 DEF BlockInv

-----------------------------------------------------------------------------
(* Writing in place, and the checkpoint *)

(* Newer contents are in place, and maybe not to be written any more. *)
Places(b) ==
  /\ running' = running /\ tail' = tail /\ durable' = durable
  /\ use'[b] = use[b] /\ change'[b] = change[b] /\ news' = news
  /\ home'[b] \in Nat /\ home[b] <= home'[b]
  /\ \A t \in 1 .. running :
       /\ Copied(b, t)' <=> Copied(b, t)
       /\ Waiting(b, t)' => Waiting(b, t)
       /\ Waiting(b, t) /\ ~Waiting(b, t)' => t <= home'[b]
       /\ Record(b, t)' <=> Record(b, t)
  /\ \A t \in 0 .. running : UseAt(b, t)' = UseAt(b, t) /\ IsAt(b, t)' = IsAt(b, t)
  /\ frees' = frees /\ missed' = missed /\ switched' = switched /\ eio' = eio

\* Contents that are not too new may be written in place.
LEMMA PlacesKeeps ==
  ASSUME TypeOK, LogInv, NEW b \in Blocks, BlockInv(b), Places(b), NotNewer(b)'
  PROVE  BlockInv(b)'
<1>1. /\ \A t \in 0 .. running : UseAt(b, t) \in Uses /\ IsAt(b, t) \in Nat
      /\ running \in Nat \ {0} /\ tail \in 1 .. running /\ home[b] \in Nat /\ change[b] \in Nat
      /\ 1 .. running \subseteq Tids
  BY HistoryTypes
<1>2. \A e \in 0 .. running : Ahead(e)' => Ahead(e)
  BY <1>1 DEF Ahead, Prefix, Places
<1>3. Chronicle(b)'
  BY <1>1 DEF BlockInv, Chronicle, Places
<1>4. Kept(b)'
  BY <1>1, <1>2 DEF BlockInv, Kept, Places
<1>5. Parted(b)'
  BY <1>1 DEF BlockInv, Parted, FreedBetween, Places
<1>6. Recorded(b)'
  BY <1>1 DEF BlockInv, Recorded, Places
<1>7. Lineage(b)'
  BY <1>1, <1>2 DEF BlockInv, Lineage, Places
<1> QED
  BY <1>3, <1>4, <1>5, <1>6, <1>7 DEF BlockInv

\* The data of the committing transaction goes in place.
LEMMA CommitDataKeeps ==
  ASSUME TypeOK, LogInv, NEW b \in Blocks, BlockInv(b), CommitData
  PROVE  BlockInv(b)'
<1>1. /\ \A t \in 0 .. running : UseAt(b, t) \in Uses /\ IsAt(b, t) \in Nat
      /\ running \in Nat \ {0} /\ tail \in 1 .. running /\ home[b] \in Nat /\ change[b] \in Nat
      /\ 1 .. running \subseteq Tids
  BY HistoryTypes
<1>2. /\ phase = "data" /\ phase' = "revoke" /\ running > 1
      /\ UNCHANGED <<running, tail, durable, closing, copies, revokes, after, use, change, logs, news,
                     missed, switched, eio, tables, frees>>
  BY DEF CommitData, LogInv, fsVars
<1>3. \A t \in 1 .. running :
        /\ Copied(b, t)' <=> Copied(b, t)
        /\ Waiting(b, t)' => Waiting(b, t)
        /\ Waiting(b, t) /\ ~Waiting(b, t)' => t = running - 1 /\ b \in closing.news
        /\ Record(b, t)' <=> Record(b, t)
  BY <1>1, <1>2 DEF Copied, Waiting, Record
<1>4. \A t \in 0 .. running : UseAt(b, t)' = UseAt(b, t) /\ IsAt(b, t)' = IsAt(b, t)
  BY <1>2 DEF UseAt, IsAt
<1>5. CASE b \notin closing.news
  <2>1. home'[b] = home[b]
    BY <1>5, Types DEF CommitData
  <2>2. \A t \in 1 .. running : Waiting(b, t)' <=> Waiting(b, t)
    BY <1>3, <1>5
  <2>3. Same(b)
    BY <1>2, <1>3, <1>4, <2>1, <2>2 DEF Same
  <2> QED
    BY <2>3, SameKeeps
<1>6. CASE b \in closing.news
  <2> DEFINE n == running - 1
  <2>1. n \in 1 .. running /\ n \in 0 .. running /\ Waiting(b, n)
    BY <1>1, <1>2, <1>6 DEF Waiting
  <2>2. IsAt(b, n) = n /\ UseAt(b, n) \in {"data", "jdata"} /\ after[n][b].is = n
    BY <1>1, <2>1 DEF BlockInv, Chronicle, IsAt
  <2>3. home'[b] = Max({home[b], n})
    BY <1>6, <2>2, Types DEF CommitData
  <2>4. home'[b] \in {home[b], n} /\ home'[b] >= home[b] /\ home'[b] >= n
    <3>1. {home[b], n} \in SUBSET (0 .. MaxTid) /\ {home[b], n} # {} /\ MaxTid \in Nat
      BY <2>1, Types
    <3> HIDE DEF n
    <3> QED
      BY <3>1, <2>3, MaxIsLargest
  <2>5. Places(b)
    BY <1>1, <1>2, <1>3, <1>4, <2>4 DEF Places
  <2>6. n <= change[b] /\ IsAt(b, running) = change[b]
    BY <1>1, <2>1, <2>2 DEF BlockInv, Chronicle, IsAt
  <2>7. ASSUME NEW e \in 0 .. running, Ahead(e), UseAt(b, e) \in {"meta", "jdata"}, b \notin switched
        PROVE  n <= IsAt(b, e)
    <3>1. CASE e < n
      BY <2>1, <2>2, <2>7, <3>1 DEF BlockInv, Lineage
    <3>2. CASE n <= e
      BY <2>1, <2>2, <3>2 DEF BlockInv, Chronicle
    <3> QED
      BY <1>1, <3>1, <3>2
  <2>8. \A e \in 0 .. running : Ahead(e)' => Ahead(e)
    BY <1>2 DEF Ahead, Prefix
  <2>9. NotNewer(b)'
    BY <1>1, <1>2, <1>4, <2>4, <2>6, <2>7, <2>8 DEF BlockInv, NotNewer
  <2> QED
    BY <2>5, <2>9, PlacesKeeps
<1> QED
  BY <1>5, <1>6

\* A block is written in place.
LEMMA WriteHomeKeeps ==
  ASSUME TypeOK, LogInv, NEW b \in Blocks, BlockInv(b), WriteHome(b)
  PROVE  BlockInv(b)'
<1>1. /\ \A t \in 0 .. running : UseAt(b, t) \in Uses /\ IsAt(b, t) \in Nat
      /\ running \in Nat \ {0} /\ tail \in 1 .. running /\ home[b] \in Nat /\ change[b] \in Nat
      /\ 1 .. running \subseteq Tids
  BY HistoryTypes
<1> DEFINE v == IF use[b] = "data" THEN change[b] ELSE Newest(b)
<1>2. v > home[b] /\ home'[b] = v /\ v \in Nat
  BY <1>1, NewestIs, Types DEF WriteHome
<1>3. UNCHANGED <<running, tail, durable, closing, phase, copies, revokes, after, use, change, logs, news,
                  missed, switched, eio, tables, frees>>
  BY DEF WriteHome, fsVars, logVars
<1>4. /\ \A t \in 1 .. running :
           /\ Copied(b, t)' <=> Copied(b, t)
           /\ Waiting(b, t)' <=> Waiting(b, t)
           /\ Record(b, t)' <=> Record(b, t)
      /\ \A t \in 0 .. running : UseAt(b, t)' = UseAt(b, t) /\ IsAt(b, t)' = IsAt(b, t)
  BY <1>3 DEF Copied, Waiting, Record, UseAt, IsAt
<1>5. Places(b)
  BY <1>1, <1>2, <1>3, <1>4 DEF Places
<1>6. use[b] # "data" => v \in 1 .. running - 1 /\ Prefix(v) /\ Copied(b, v)
  BY <1>1, <1>2, NewestIs, WrittenIs DEF WriteHome, Copied, Written
<1>7. use[b] # "data" => IsAt(b, v) = v
  BY <1>1, <1>6 DEF BlockInv, Chronicle
<1>8. IsAt(b, running) = change[b] /\ UseAt(b, running) = use[b]
  BY DEF IsAt, UseAt
<1>9. v <= change[b]
  BY <1>1, <1>6, <1>7, <1>8 DEF BlockInv, Chronicle
<1>10. ASSUME NEW e \in 0 .. running, Ahead(e), UseAt(b, e) \in {"meta", "jdata"}, b \notin switched
       PROVE  v <= IsAt(b, e)
  <2>1. CASE use[b] = "data"
    BY <1>1, <1>8, <1>10, <2>1 DEF BlockInv, Lineage
  <2>2. CASE use[b] # "data"
    <3>1. v <= e
      BY <1>6, <1>10, <2>2 DEF Ahead
    <3> QED
      BY <1>1, <1>6, <1>7, <2>2, <3>1 DEF BlockInv, Chronicle
  <2> QED
    BY <2>1, <2>2
<1>11. \A e \in 0 .. running : Ahead(e)' => Ahead(e)
  BY <1>3 DEF Ahead, Prefix
<1>12. NotNewer(b)'
  <2> HIDE DEF v
  <2> QED
    BY <1>1, <1>2, <1>3, <1>4, <1>9, <1>10, <1>11 DEF BlockInv, NotNewer
<1> QED
  BY <1>5, <1>12, PlacesKeeps

\* A transaction leaves the log.
LEMMA CheckpointKeeps ==
  ASSUME TypeOK, LogInv, NEW b \in Blocks, BlockInv(b), Checkpoint
  PROVE  BlockInv(b)'
<1>1. /\ \A t \in 0 .. running : UseAt(b, t) \in Uses /\ IsAt(b, t) \in Nat
      /\ running \in Nat \ {0} /\ tail \in 1 .. running /\ home[b] \in Nat /\ change[b] \in Nat
      /\ 1 .. running \subseteq Tids
  BY HistoryTypes
<1>2. /\ tail' = tail + 1
      /\ UNCHANGED <<running, home, durable, closing, phase, copies, revokes, after, use, change, logs, news,
                     missed, switched, eio, tables, frees>>
  BY DEF Checkpoint, fsVars, logVars
<1>3. /\ \A t \in 1 .. running :
           /\ Copied(b, t)' <=> Copied(b, t)
           /\ Waiting(b, t)' <=> Waiting(b, t)
           /\ Record(b, t)' <=> Record(b, t)
      /\ \A t \in 0 .. running : UseAt(b, t)' = UseAt(b, t) /\ IsAt(b, t)' = IsAt(b, t)
  BY <1>2 DEF Copied, Waiting, Record, UseAt, IsAt
<1>4. \A e \in 0 .. running : Ahead(e)' <=> Ahead(e)
  BY <1>2 DEF Ahead, Prefix
<1>5. tail \in Written /\ Prefix(tail) /\ tail < running
  BY <1>1, WrittenIs DEF Checkpoint
<1>6. ASSUME NEW e \in 0 .. running, Ahead(e), IsAt(b, e) = tail, Copied(b, tail)
      PROVE  home[b] >= tail
  <2>1. b \in copies[tail]
    BY <1>1, <1>5, <1>6 DEF Copied, Written
  <2>2. SUFFICES ASSUME NEW t \in tail + 1 .. running - 1, Prefix(t), b \in copies[t] \cup frees[t]
                 PROVE  FALSE
    BY <2>1, Types DEF Checkpoint
  <2>3. t \in Written /\ t <= e /\ t \in 1 .. running
    BY <1>1, <1>6, <2>2, WrittenIs DEF Ahead
  <2>4. Copied(b, t) \/ b \in frees[t]
    BY <1>1, <2>2, <2>3 DEF Copied, Written
  <2>5. IsAt(b, t) = t
    BY <2>3, <2>4 DEF BlockInv, Chronicle
  <2>6. IsAt(b, t) <= IsAt(b, e)
    BY <1>1, <2>3 DEF BlockInv, Chronicle
  <2> QED
    BY <1>1, <1>6, <2>2, <2>5, <2>6
<1>7. Chronicle(b)'
  BY <1>1, <1>2, <1>3 DEF BlockInv, Chronicle
<1>8. Kept(b)'
  BY <1>1, <1>2, <1>3, <1>4, <1>6 DEF BlockInv, Kept
<1>9. Parted(b)'
  BY <1>1, <1>2, <1>3 DEF BlockInv, Parted, FreedBetween
<1>10. Recorded(b)'
  BY <1>1, <1>2, <1>3 DEF BlockInv, Recorded
<1>11. Lineage(b)'
  BY <1>1, <1>2, <1>3, <1>4 DEF BlockInv, Lineage
<1>12. NotNewer(b)'
  BY <1>1, <1>2, <1>3, <1>4 DEF BlockInv, NotNewer
<1> QED
  BY <1>7, <1>8, <1>9, <1>10, <1>11, <1>12 DEF BlockInv

-----------------------------------------------------------------------------
(* What the running transaction does to a block *)

(* The history of a block at the running transaction. *)
Now(b) ==
  \A t \in {running} :
    /\ Copied(b, t) <=> b \in logs
    /\ Waiting(b, t) <=> b \in news
    /\ Record(b, t) <=> b \in tables.running
    /\ UseAt(b, t) = use[b] /\ IsAt(b, t) = change[b]

(* Nothing changes in the history before the running transaction. *)
Before(b) ==
  /\ running' = running /\ tail' = tail /\ home'[b] = home[b] /\ durable' = durable
  /\ \A t \in 1 .. running - 1 :
       /\ Copied(b, t)' <=> Copied(b, t)
       /\ Waiting(b, t)' <=> Waiting(b, t)
       /\ Record(b, t)' <=> Record(b, t)
  /\ \A t \in 0 .. running - 1 : UseAt(b, t)' = UseAt(b, t) /\ IsAt(b, t)' = IsAt(b, t)
  /\ \A t \in Tids : t # running => (b \in frees'[t] <=> b \in frees[t])

\* A block is changed, freed, released or switched by the running transaction.
LEMMA RunningStep ==
  ASSUME TypeOK, LogInv, NEW b \in Blocks,
         \/ ChangeMeta(b) \/ ChangeData(b) \/ ChangeJournalled(b) \/ SwitchMode(b)
         \/ FreeBlock(b) \/ Release(b)
  PROVE  Before(b)
<1>1. UNCHANGED <<running, tail, durable, phase, closing, copies, revokes, after, home>>
  BY DEF ChangeMeta, ChangeData, ChangeJournalled, SwitchMode, FreeBlock, Release, Change,
         logVars, diskVars
<1>2. tables \in [running : SUBSET Blocks, committing : SUBSET Blocks] /\ running \in Nat
  BY Types
<1>3. tables'.committing = tables.committing
  BY <1>2 DEF ChangeMeta, ChangeData, ChangeJournalled, SwitchMode, FreeBlock, Release,
              CancelRevoke, CancelAlias, JournalRevoke
<1>4. frees' = frees \/ frees' = [frees EXCEPT ![running] = @ \cup {b}]
  BY DEF ChangeMeta, ChangeData, ChangeJournalled, SwitchMode, FreeBlock, Release, Change
<1>5. \A t \in Tids : t # running => (b \in frees'[t] <=> b \in frees[t])
  BY <1>4, Types
<1>6. \A t \in 0 .. running - 1 : t # running
  BY <1>2
<1> QED
  BY <1>1, <1>3, <1>5, <1>6 DEF Before, Copied, Waiting, Record, UseAt, IsAt

(* The block is changed: it is to be logged or to be written in place. *)
Changes(b) ==
  /\ Before(b)
  /\ use'[b] \in InUse /\ change'[b] = running
  /\ b \notin frees'[running] /\ b \notin tables'.running
  /\ missed' = missed /\ switched' = switched /\ eio' = eio
  /\ b \in logs' \/ b \in news'
  /\ b \in logs' => use'[b] \in {"meta", "jdata"}
  /\ b \in news' => use'[b] \in {"data", "jdata"}
  /\ use'[b] = "data" \/ b \in news' =>
       b \notin logs' /\ (use[b] \in {"free", "held", "data"} \/ b \in news)
  /\ use[b] # "held"
  /\ use[b] \in {"meta", "jdata"} /\ b \notin news => use'[b] = use[b] /\ b \notin news'

\* A change of a block keeps the invariant.
LEMMA ChangesKeeps ==
  ASSUME TypeOK, LogInv, NEW b \in Blocks, BlockInv(b), Changes(b)
  PROVE  BlockInv(b)'
<1>1. /\ \A t \in 0 .. running : UseAt(b, t) \in Uses /\ IsAt(b, t) \in Nat
      /\ running \in Nat \ {0} /\ tail \in 1 .. running /\ home[b] \in Nat /\ change[b] \in Nat
      /\ 1 .. running \subseteq Tids
  BY HistoryTypes
<1>2. \A t \in 0 .. running : t \in 0 .. running - 1 \/ t = running
  BY <1>1
<1>3. Now(b) /\ Now(b)'
  BY <1>1 DEF Now, Copied, Waiting, Record, UseAt, IsAt, Before, Changes
<1>4. \A e \in 0 .. running : Ahead(e)' <=> Ahead(e)
  BY DEF Ahead, Prefix, Before, Changes
<1>5. Before(b)
  BY DEF Changes
<1>6. IsAt(b, running) <= running
  BY <1>1 DEF BlockInv, Chronicle
<1>7. \A t \in 1 .. running : b \in frees'[t] <=> b \in frees[t] /\ t # running
  BY <1>1, <1>5 DEF Before, Changes
<1>8. Chronicle(b)'
  <2>1. \A t \in 1 .. running :
          /\ Copied(b, t)' => IsAt(b, t)' = t /\ UseAt(b, t)' \in {"meta", "jdata"}
          /\ Waiting(b, t)' => IsAt(b, t)' = t /\ UseAt(b, t)' \in {"data", "jdata"}
          /\ b \in frees'[t] => IsAt(b, t)' = t /\ UseAt(b, t)' = "held"
          /\ Record(b, t)' => b \in frees'[t]
    BY <1>1, <1>2, <1>3, <1>7 DEF BlockInv, Chronicle, Changes, Before, Now
  <2>2. \A t \in Tids : t > running => b \notin frees'[t]
    BY <1>1 DEF BlockInv, Chronicle, Changes, Before, Tids
  <2>3. \A t \in 0 .. running : IsAt(b, t)' <= t
    BY <1>1, <1>2, <1>3 DEF BlockInv, Chronicle, Changes, Before, Now
  <2>4. \A t, u \in 0 .. running : t <= u => IsAt(b, t)' <= IsAt(b, u)'
    BY <1>1, <1>2, <1>3 DEF BlockInv, Chronicle, Changes, Before, Now
  <2> QED
    BY <2>1, <2>2, <2>3, <2>4, <1>5 DEF Chronicle, Before
<1>9. Kept(b)'
  BY <1>1, <1>2, <1>3, <1>4, <1>8 DEF BlockInv, Kept, Changes, Before, Now, Chronicle
<1>10. Parted(b)'
  <2>1. ASSUME use'[b] \in {"free", "held", "data"} \/ b \in news',
               NEW t \in tail .. running, Copied(b, t)'
        PROVE  FreedBetween(b, t, running)'
    <3>1. t # running /\ (use[b] \in {"free", "held", "data"} \/ b \in news)
      BY <2>1, <1>3, <1>5 DEF Changes, Now, InUse, Before
    <3>2. Copied(b, t) /\ t \in 1 .. running - 1
      BY <1>1, <2>1, <3>1 DEF Changes, Before
    <3>3. PICK f \in t + 1 .. running : b \in frees[f]
      BY <3>1, <3>2 DEF BlockInv, Parted, FreedBetween
    <3>4. b \notin frees[running]
      BY <1>1, <1>3 DEF BlockInv, Chronicle, Changes, Now
    <3>5. f \in 1 .. running /\ b \in frees'[f]
      BY <1>1, <1>7, <3>2, <3>3, <3>4
    <3> QED
      BY <3>3, <3>5, <1>5 DEF FreedBetween, Before
  <2>2. ASSUME NEW e \in 0 .. running, NEW k \in 0 .. running, UseAt(b, e)' \in InUse,
               k = IsAt(b, e)', NEW t \in tail .. k - 1, Copied(b, t)'
        PROVE  Copied(b, k)' \/ FreedBetween(b, t, k)'
    <3>1. CASE e = running
      <4>1. k = running /\ (Copied(b, k)' \/ b \in news')
        BY <1>3, <1>5, <2>2, <3>1 DEF Changes, Now, Before
      <4> QED
        BY <1>1, <1>5, <2>1, <2>2, <4>1 DEF Before, FreedBetween
    <3>2. CASE e # running
      <4>1. e \in 0 .. running - 1 /\ k <= e /\ k \in 1 .. running - 1 /\ t \in 1 .. running - 1
        BY <1>1, <2>2, <3>2, <1>5 DEF Before, BlockInv, Chronicle
      <4>2. Copied(b, k) \/ FreedBetween(b, t, k)
        BY <1>1, <1>5, <2>2, <4>1 DEF BlockInv, Parted, Before
      <4> QED
        BY <1>1, <1>5, <1>7, <4>1, <4>2 DEF FreedBetween, Before
    <3> QED
      BY <3>1, <3>2
  <2> QED
    BY <2>1, <2>2, <1>5 DEF Parted, Before
<1>11. Recorded(b)'
  BY <1>1, <1>2, <1>5, <1>7 DEF BlockInv, Recorded, Changes, Before
<1>12. Lineage(b)'
  BY <1>1, <1>2, <1>3, <1>4 DEF BlockInv, Lineage, Changes, Before, Now
<1>13. NotNewer(b)'
  BY <1>1, <1>2, <1>3, <1>4, <1>6 DEF BlockInv, NotNewer, Changes, Before, Now
<1> QED
  BY <1>8, <1>9, <1>10, <1>11, <1>12, <1>13 DEF BlockInv

\* The three operations that change a block do so.
LEMMA ChangeChanges ==
  ASSUME TypeOK, LogInv, NEW b \in Blocks, BlockInv(b),
         ChangeMeta(b) \/ ChangeData(b) \/ ChangeJournalled(b)
  PROVE  Changes(b)
<1>1. /\ \A t \in 0 .. running : UseAt(b, t) \in Uses /\ IsAt(b, t) \in Nat
      /\ running \in Nat \ {0} /\ tail \in 1 .. running /\ home[b] \in Nat /\ change[b] \in Nat
      /\ 1 .. running \subseteq Tids
  BY HistoryTypes
<1>2. \A t \in 0 .. running : t \in 0 .. running - 1 \/ t = running
  BY <1>1
<1>3. Now(b)
  BY <1>1 DEF Now, Copied, Waiting, Record, UseAt, IsAt
<1>4. Before(b)
  BY RunningStep
<1>5. /\ use[b] \in {"free", "meta", "data", "jdata"}
      /\ frees' = frees /\ missed' = missed /\ switched' = switched /\ eio' = eio
      /\ change'[b] = running
  BY Types DEF ChangeMeta, ChangeData, ChangeJournalled, Change
<1>6. b \notin frees[running] /\ b \notin tables.running
  BY <1>1, <1>3, <1>5 DEF BlockInv, Chronicle, Now
<1>7. tables \in [running : SUBSET Blocks, committing : SUBSET Blocks]
  BY Types
<1>8. b \notin tables'.running
  BY <1>6, <1>7 DEF ChangeMeta, ChangeData, ChangeJournalled, CancelRevoke, CancelAlias
<1>9. /\ b \in logs => use[b] \in {"meta", "jdata"}
      /\ b \in news => use[b] \in {"data", "jdata"}
  BY <1>1, <1>3 DEF BlockInv, Chronicle, Now
<1>10. use[b] \in {"free", "held", "data"} \/ b \in news => b \notin logs
  BY <1>1, <1>3 DEF BlockInv, Parted, FreedBetween, Now
<1>11. use \in [Blocks -> Uses]
  BY Types
<1>12. /\ use'[b] \in InUse
       /\ b \in logs' \/ b \in news'
       /\ b \in logs' => use'[b] \in {"meta", "jdata"}
       /\ b \in news' => use'[b] \in {"data", "jdata"}
       /\ use'[b] = "data" \/ b \in news' =>
            b \notin logs' /\ (use[b] \in {"free", "held", "data"} \/ b \in news)
       /\ use[b] \in {"meta", "jdata"} /\ b \notin news => use'[b] = use[b] /\ b \notin news'
  <2>1. CASE ChangeMeta(b)
    BY <1>9, <1>10, <1>11, <2>1 DEF ChangeMeta, Change, InUse
  <2>2. CASE ChangeData(b)
    BY <1>9, <1>10, <1>11, <2>2 DEF ChangeData, Change, InUse
  <2>3. CASE ChangeJournalled(b)
    BY <1>9, <1>10, <1>11, <2>3 DEF ChangeJournalled, Change, InUse
  <2> QED
    BY <2>1, <2>2, <2>3
<1> QED
  BY <1>4, <1>5, <1>6, <1>8, <1>12 DEF Changes

\* Freeing a block keeps the invariant.
LEMMA FreeKeeps ==
  ASSUME TypeOK, LogInv, NEW b \in Blocks, BlockInv(b), FreeBlock(b)
  PROVE  BlockInv(b)'
<1>1. /\ \A t \in 0 .. running : UseAt(b, t) \in Uses /\ IsAt(b, t) \in Nat
      /\ running \in Nat \ {0} /\ tail \in 1 .. running /\ home[b] \in Nat /\ change[b] \in Nat
      /\ 1 .. running \subseteq Tids
  BY HistoryTypes
<1>2. \A t \in 0 .. running : t \in 0 .. running - 1 \/ t = running
  BY <1>1
<1>3. Before(b)
  BY RunningStep
<1>4. Now(b) /\ Now(b)'
  BY <1>1, <1>3 DEF Now, Copied, Waiting, Record, UseAt, IsAt, Before
<1>5. \A e \in 0 .. running : Ahead(e)' <=> Ahead(e)
  BY <1>3 DEF Ahead, Prefix, Before
<1>6. /\ use'[b] = "held" /\ change'[b] = running /\ b \notin logs' /\ b \notin news'
      /\ b \in frees'[running] /\ switched' = switched /\ missed \subseteq missed'
  BY <1>1, Types, SMTT(30) DEF FreeBlock
<1>7. \A t \in 1 .. running : b \in frees'[t] <=> b \in frees[t] \/ t = running
  BY <1>1, <1>3, <1>6 DEF Before
<1>8. IsAt(b, running) <= running
  BY <1>1 DEF BlockInv, Chronicle
<1>9. Chronicle(b)'
  <2>1. \A t \in 1 .. running :
          /\ Copied(b, t)' => IsAt(b, t)' = t /\ UseAt(b, t)' \in {"meta", "jdata"}
          /\ Waiting(b, t)' => IsAt(b, t)' = t /\ UseAt(b, t)' \in {"data", "jdata"}
          /\ b \in frees'[t] => IsAt(b, t)' = t /\ UseAt(b, t)' = "held"
          /\ Record(b, t)' => b \in frees'[t]
    BY <1>1, <1>2, <1>3, <1>4, <1>6, <1>7 DEF BlockInv, Chronicle, Before, Now
  <2>2. \A t \in Tids : t > running => b \notin frees'[t]
    BY <1>1, <1>3 DEF BlockInv, Chronicle, Before, Tids
  <2>3. \A t \in 0 .. running : IsAt(b, t)' <= t
    BY <1>1, <1>2, <1>3, <1>4, <1>6 DEF BlockInv, Chronicle, Before, Now
  <2>4. \A t, u \in 0 .. running : t <= u => IsAt(b, t)' <= IsAt(b, u)'
    BY <1>1, <1>2, <1>3, <1>4, <1>6 DEF BlockInv, Chronicle, Before, Now
  <2> QED
    BY <2>1, <2>2, <2>3, <2>4, <1>3 DEF Chronicle, Before
<1>10. Kept(b)'
  BY <1>1, <1>2, <1>3, <1>4, <1>5, <1>6 DEF BlockInv, Kept, Before, Now, Chronicle, InUse
<1>11. Parted(b)'
  <2>1. \A t \in tail .. running : Copied(b, t)' => FreedBetween(b, t, running)'
    BY <1>1, <1>2, <1>3, <1>4, <1>6 DEF FreedBetween, Before, Now
  <2>2. ASSUME NEW e \in 0 .. running, NEW k \in 0 .. running, UseAt(b, e)' \in InUse,
               k = IsAt(b, e)', NEW t \in tail .. k - 1, Copied(b, t)'
        PROVE  Copied(b, k)' \/ FreedBetween(b, t, k)'
    <3>1. e # running
      BY <1>3, <1>4, <1>6, <2>2 DEF Now, Before, InUse
    <3>2. e \in 0 .. running - 1 /\ k <= e /\ k \in 1 .. running - 1 /\ t \in 1 .. running - 1
      BY <1>1, <1>3, <2>2, <3>1 DEF Before, BlockInv, Chronicle
    <3>3. Copied(b, k) \/ FreedBetween(b, t, k)
      BY <1>1, <1>3, <2>2, <3>2 DEF BlockInv, Parted, Before
    <3> QED
      BY <1>1, <1>3, <1>7, <3>2, <3>3 DEF FreedBetween, Before
  <2> QED
    BY <2>1, <2>2, <1>3 DEF Parted, Before
<1>12. Recorded(b)'
  <2>1. ASSUME b \notin missed', NEW t \in tail .. running - 1, Copied(b, t)
        PROVE  b \in tables'.running \/ b \in eio'
    <3>1. InLog(b)
      BY <1>1, <2>1 DEF InLog, Copied
    <3>2. JournalRevoke(b)
      BY <2>1, <3>1, Types DEF FreeBlock
    <3>3. tables \in [running : SUBSET Blocks, committing : SUBSET Blocks]
      BY Types
    <3> QED
      BY <3>2, <3>3 DEF JournalRevoke
  <2>2. ASSUME b \notin missed', NEW t \in tail .. running, NEW f \in 1 .. running,
               t < f, Copied(b, t)', b \in frees'[f]
        PROVE  Record(b, f)' \/ (f = running /\ b \in eio')
    <3>1. t \in tail .. running - 1 /\ t \in 1 .. running - 1 /\ Copied(b, t)
      BY <1>1, <1>3, <2>2 DEF Before
    <3>2. CASE f = running
      BY <1>3, <1>4, <2>1, <2>2, <3>1, <3>2 DEF Now, Before
    <3>3. CASE f # running
      <4>1. f \in 1 .. running - 1 /\ b \in frees[f] /\ b \notin missed
        BY <1>1, <1>6, <1>7, <2>2, <3>3
      <4>2. Record(b, f)
        BY <1>1, <2>2, <3>1, <3>3, <4>1 DEF BlockInv, Recorded
      <4> QED
        BY <1>3, <4>1, <4>2 DEF Before
    <3> QED
      BY <3>2, <3>3
  <2> QED
    BY <2>2, <1>3 DEF Recorded, Before
<1>13. Lineage(b)'
  BY <1>1, <1>2, <1>3, <1>4, <1>5, <1>6 DEF BlockInv, Lineage, Before, Now
<1>14. NotNewer(b)'
  BY <1>1, <1>2, <1>3, <1>4, <1>5, <1>6, <1>8 DEF BlockInv, NotNewer, Before, Now
<1> QED
  BY <1>9, <1>10, <1>11, <1>12, <1>13, <1>14 DEF BlockInv

\* Releasing a block to the allocator keeps the invariant.
LEMMA ReleaseKeeps ==
  ASSUME TypeOK, LogInv, NEW b \in Blocks, BlockInv(b), Release(b)
  PROVE  BlockInv(b)'
<1>1. /\ \A t \in 0 .. running : UseAt(b, t) \in Uses /\ IsAt(b, t) \in Nat
      /\ running \in Nat \ {0} /\ tail \in 1 .. running /\ home[b] \in Nat /\ change[b] \in Nat
      /\ 1 .. running \subseteq Tids
  BY HistoryTypes
<1>2. \A t \in 0 .. running : t \in 0 .. running - 1 \/ t = running
  BY <1>1
<1>3. Before(b)
  BY RunningStep
<1>4. Now(b) /\ Now(b)'
  BY <1>1, <1>3 DEF Now, Copied, Waiting, Record, UseAt, IsAt, Before
<1>5. \A e \in 0 .. running : Ahead(e)' <=> Ahead(e)
  BY <1>3 DEF Ahead, Prefix, Before
<1>6. /\ use[b] = "held" /\ use'[b] = "free" /\ Prefix(change[b])
      /\ UNCHANGED <<change, logs, news, eio, missed, switched, tables, frees>>
  BY Types DEF Release
<1>7. change[b] <= running - 1 /\ b \notin frees[running] /\ b \notin logs /\ b \notin news
  BY <1>1, <1>4, <1>6, WrittenIs DEF BlockInv, Chronicle, Now
<1>8. \A t \in 1 .. running :
        /\ Copied(b, t)' <=> Copied(b, t)
        /\ Waiting(b, t)' <=> Waiting(b, t)
        /\ Record(b, t)' <=> Record(b, t)
        /\ t = running => ~Copied(b, t) /\ ~Waiting(b, t)
  BY <1>1, <1>2, <1>3, <1>4, <1>6, <1>7 DEF Before, Now
<1>9. \A t \in 0 .. running :
        /\ IsAt(b, t)' = IsAt(b, t)
        /\ t # running => UseAt(b, t)' = UseAt(b, t)
        /\ t = running => UseAt(b, t) = "held" /\ UseAt(b, t)' = "free" /\ IsAt(b, t) = change[b]
  BY <1>1, <1>2, <1>3, <1>4, <1>6 DEF Before, Now
<1>10. Chronicle(b)'
  <2>1. \A t \in 1 .. running :
          /\ Copied(b, t)' => IsAt(b, t)' = t /\ UseAt(b, t)' \in {"meta", "jdata"}
          /\ Waiting(b, t)' => IsAt(b, t)' = t /\ UseAt(b, t)' \in {"data", "jdata"}
          /\ b \in frees'[t] => IsAt(b, t)' = t /\ UseAt(b, t)' = "held"
          /\ Record(b, t)' => b \in frees'[t]
    BY <1>1, <1>6, <1>7, <1>8, <1>9 DEF BlockInv, Chronicle
  <2> QED
    BY <1>1, <1>3, <1>6, <1>9, <2>1 DEF BlockInv, Chronicle, Before
<1>11. Kept(b)'
  BY <1>1, <1>3, <1>5, <1>6, <1>8, <1>9 DEF BlockInv, Kept, Before, InUse
<1>12. Parted(b)'
  BY <1>1, <1>3, <1>6, <1>8, <1>9 DEF BlockInv, Parted, FreedBetween, Before, InUse
<1>13. Recorded(b)'
  BY <1>1, <1>3, <1>6, <1>8 DEF BlockInv, Recorded, Before
<1>14. Lineage(b)'
  <2>1. ASSUME NEW e \in 0 .. running, Ahead(e), b \notin switched
        PROVE  UseAt(b, e)' \notin {"meta", "jdata"}
    <3>1. change[b] <= e
      BY <1>1, <1>6, <1>7, <2>1 DEF Ahead
    <3>2. UseAt(b, e) \notin {"meta", "jdata"}
      BY <1>1, <1>9, <2>1, <3>1 DEF BlockInv, Lineage
    <3> QED
      BY <1>9, <3>2
  <2> QED
    BY <1>3, <1>5, <1>6, <2>1 DEF Lineage, Before
<1>15. NotNewer(b)'
  BY <1>1, <1>3, <1>5, <1>6, <1>9 DEF BlockInv, NotNewer, Before
<1> QED
  BY <1>10, <1>11, <1>12, <1>13, <1>14, <1>15 DEF BlockInv

\* Changing the data mode of a file keeps the invariant: the log is empty.
LEMMA SwitchModeKeeps ==
  ASSUME TypeOK, LogInv, NEW b \in Blocks, BlockInv(b), SwitchMode(b)
  PROVE  BlockInv(b)'
<1>1. /\ \A t \in 0 .. running : UseAt(b, t) \in Uses /\ IsAt(b, t) \in Nat
      /\ running \in Nat \ {0} /\ tail \in 1 .. running /\ home[b] \in Nat /\ change[b] \in Nat
      /\ 1 .. running \subseteq Tids
  BY HistoryTypes
<1>2. \A t \in 0 .. running : t \in 0 .. running - 1 \/ t = running
  BY <1>1
<1>3. Before(b)
  BY RunningStep
<1>4. Now(b) /\ Now(b)'
  BY <1>1, <1>3 DEF Now, Copied, Waiting, Record, UseAt, IsAt, Before
<1>5. \A e \in 0 .. running : Ahead(e)' <=> Ahead(e)
  BY <1>3 DEF Ahead, Prefix, Before
<1>6. /\ use[b] \in {"data", "jdata"} /\ use'[b] \in {"data", "jdata"}
      /\ UNCHANGED <<change, logs, news, eio, missed, tables, frees>>
      /\ logs = {} /\ news = {} /\ tail = running /\ b \in switched'
  BY Types DEF SwitchMode
<1>7. b \notin frees[running]
  BY <1>1, <1>4, <1>6 DEF BlockInv, Chronicle, Now
<1>8. \A t \in 1 .. running :
        /\ Copied(b, t)' <=> Copied(b, t)
        /\ Waiting(b, t)' <=> Waiting(b, t)
        /\ Record(b, t)' <=> Record(b, t)
        /\ t = running => ~Copied(b, t) /\ ~Waiting(b, t)
  BY <1>1, <1>2, <1>3, <1>4, <1>6, <1>7 DEF Before, Now
<1>9. \A t \in 0 .. running :
        /\ IsAt(b, t)' = IsAt(b, t)
        /\ t # running => UseAt(b, t)' = UseAt(b, t)
        /\ UseAt(b, t)' \in InUse <=> UseAt(b, t) \in InUse
  BY <1>1, <1>2, <1>3, <1>4, <1>6 DEF Before, Now, InUse
<1>10. Chronicle(b)'
  <2>1. \A t \in 1 .. running :
          /\ Copied(b, t)' => IsAt(b, t)' = t /\ UseAt(b, t)' \in {"meta", "jdata"}
          /\ Waiting(b, t)' => IsAt(b, t)' = t /\ UseAt(b, t)' \in {"data", "jdata"}
          /\ b \in frees'[t] => IsAt(b, t)' = t /\ UseAt(b, t)' = "held"
          /\ Record(b, t)' => b \in frees'[t]
    BY <1>1, <1>6, <1>7, <1>8, <1>9 DEF BlockInv, Chronicle
  <2> QED
    BY <1>1, <1>3, <1>6, <1>9, <2>1 DEF BlockInv, Chronicle, Before
<1>11. Kept(b)'
  BY <1>1, <1>3, <1>5, <1>6, <1>8, <1>9 DEF BlockInv, Kept, Before
<1>12. Parted(b)'
  BY <1>1, <1>3, <1>6, <1>8, <1>9 DEF BlockInv, Parted, FreedBetween, Before
<1>13. Recorded(b)'
  BY <1>1, <1>3, <1>6, <1>8 DEF BlockInv, Recorded, Before
<1>14. Lineage(b)'
  BY <1>6 DEF Lineage
<1>15. NotNewer(b)'
  BY <1>1, <1>3, <1>6 DEF BlockInv, NotNewer, Before
<1> QED
  BY <1>10, <1>11, <1>12, <1>13, <1>14, <1>15 DEF BlockInv

-----------------------------------------------------------------------------
(* Recovery after a crash *)

\* At the start every block is in place.
LEMMA ReplayInit == Init => \A b \in Blocks : BlockInv(b)
<1> SUFFICES ASSUME Init, NEW b \in Blocks
             PROVE  BlockInv(b)
  OBVIOUS
<1>1. /\ running = 1 /\ tail = 1 /\ phase = "none" /\ home[b] = 0 /\ change[b] = 0
      /\ logs = {} /\ news = {} /\ eio = {} /\ switched = {} /\ tables.running = {}
      /\ \A t \in Tids : frees[t] = {}
      /\ after[0][b].use = use[b] /\ after[0][b].is = 0
      /\ 1 \in Tids /\ MaxTid \in Nat
  BY ConstantsAssumption DEF Init, Tids
<1>2. /\ \A t \in 1 .. 1 : ~Copied(b, t) /\ ~Waiting(b, t) /\ ~Record(b, t) /\ b \notin frees[t]
      /\ \A t \in 0 .. 1 : UseAt(b, t) = use[b] /\ IsAt(b, t) = 0 /\ ~Waiting(b, t)
  BY <1>1 DEF Copied, Waiting, Record, UseAt, IsAt
<1>3. Chronicle(b)
  BY <1>1, <1>2 DEF Chronicle
<1>4. Kept(b) /\ Parted(b) /\ Recorded(b)
  BY <1>1, <1>2 DEF Kept, Parted, Recorded
<1>5. Lineage(b) /\ NotNewer(b)
  BY <1>1, <1>2 DEF Lineage, NotNewer
<1> QED
  BY <1>3, <1>4, <1>5 DEF BlockInv

\* Every step keeps the invariant of every block.
LEMMA ReplayNext == TypeOK /\ ReplayInv /\ [Next]_vars => ReplayInv'
<1> SUFFICES ASSUME TypeOK, ReplayInv, [Next]_vars
             PROVE  ReplayInv'
  OBVIOUS
<1>1. LogInv /\ LogInv'
  BY TypeNext DEF ReplayInv
<1>2. SUFFICES ASSUME NEW b \in Blocks
               PROVE  BlockInv(b)'
  BY <1>1 DEF ReplayInv
<1>3. BlockInv(b)
  BY DEF ReplayInv
<1>4. ASSUME NEW c \in Blocks,
             \/ ChangeMeta(c) \/ ChangeData(c) \/ ChangeJournalled(c) \/ SwitchMode(c)
             \/ Read(c) \/ FreeBlock(c) \/ Evict(c) \/ Release(c) \/ WriteHome(c)
      PROVE  BlockInv(b)'
  <2>1. CASE c # b
    BY <1>1, <1>3, <1>4, <2>1, OthersSame, SameKeeps
  <2>2. CASE c = b
    <3>1. CASE ChangeMeta(b) \/ ChangeData(b) \/ ChangeJournalled(b)
      BY <1>1, <1>3, <3>1, ChangeChanges, ChangesKeeps
    <3>2. CASE SwitchMode(b)
      BY <1>1, <1>3, <3>2, SwitchModeKeeps
    <3>3. CASE Read(b) \/ Evict(b)
      BY <1>1, <1>3, <3>3, AllSame, SameKeeps
    <3>4. CASE FreeBlock(b)
      BY <1>1, <1>3, <3>4, FreeKeeps
    <3>5. CASE Release(b)
      BY <1>1, <1>3, <3>5, ReleaseKeeps
    <3>6. CASE WriteHome(b)
      BY <1>1, <1>3, <3>6, WriteHomeKeeps
    <3> QED
      BY <1>4, <2>2, <3>1, <3>2, <3>3, <3>4, <3>5, <3>6
  <2> QED
    BY <2>1, <2>2
<1>5. CASE CommitStep
  <2>1. CASE CommitSwitch
    BY <1>1, <1>3, <2>1, SwitchCloses, ClosesKeeps
  <2>2. CASE CommitData
    BY <1>1, <1>3, <2>2, CommitDataKeeps
  <2>3. CASE WriteRevokes \/ CommitRecord
    BY <1>1, <1>3, <2>3, RecordsSame, SameKeeps
  <2> QED
    BY <1>5, <2>1, <2>2, <2>3 DEF CommitStep
<1>6. CASE Checkpoint
  BY <1>1, <1>3, <1>6, CheckpointKeeps
<1>7. CASE (\E t \in Tids : Settle(t)) \/ UNCHANGED vars
  BY <1>1, <1>3, <1>7, AllSame, SameKeeps
<1> QED
  BY <1>4, <1>5, <1>6, <1>7 DEF Next

\* The invariant of a block makes its replay right.
LEMMA InvImpliesIntact ==
  ASSUME TypeOK, LogInv, NEW b \in Blocks, BlockInv(b), b \notin missed
  PROVE  Intact(b)
<1>1. /\ \A t \in 0 .. running : UseAt(b, t) \in Uses /\ IsAt(b, t) \in Nat
      /\ running \in Nat \ {0} /\ tail \in 1 .. running /\ home[b] \in Nat /\ change[b] \in Nat
      /\ 1 .. running \subseteq Tids
  BY HistoryTypes
<1> DEFINE P == {t \in 0 .. running - 1 : Prefix(t)}
           e == Max(P)
<1>2. e \in P /\ \A p \in P : e >= p
  <2>1. P \in SUBSET (0 .. running) /\ P # {} /\ running \in Nat
    BY <1>1, WrittenIs
  <2> HIDE DEF P
  <2> QED
    BY <2>1, MaxIsLargest
<1> HIDE DEF P, e
<1>3. e \in 0 .. running - 1 /\ Prefix(e) /\ Ahead(e)
  BY <1>1, <1>2 DEF P, Ahead
<1>4. \A t \in 1 .. e : t \in Written /\ t \in 1 .. running - 1
  BY <1>1, <1>3 DEF Prefix, LogInv
<1>5. \A t \in 1 .. e :
        (Copied(b, t) <=> b \in copies[t]) /\ (Record(b, t) <=> b \in revokes[t]) /\ ~Waiting(b, t)
  BY <1>1, <1>4 DEF Copied, Record, Waiting, Written
<1>6. UseAt(b, e) = after[e][b].use /\ IsAt(b, e) = after[e][b].is
  BY <1>1, <1>3 DEF UseAt, IsAt
<1> DEFINE k == IsAt(b, e)
           R == {t \in tail .. e : b \in copies[t] /\ \A r \in t .. e : b \notin revokes[r]}
<1>7. k \in 0 .. e
  BY <1>1, <1>3 DEF BlockInv, Chronicle
<1>8. \A t \in R : t \in 1 .. e /\ Copied(b, t) /\ t <= k
  <2>1. \A t \in R : t \in 1 .. e /\ Copied(b, t)
    BY <1>1, <1>3, <1>5
  <2> QED
    BY <1>1, <1>3, <2>1 DEF BlockInv, Chronicle
<1>9. ASSUME UseAt(b, e) \in InUse, k >= tail, Copied(b, k)
      PROVE  Recovered(e, b) = k
  <2>1. k \in 1 .. e /\ b \in copies[k] /\ UseAt(b, k) \in {"meta", "jdata"}
    BY <1>1, <1>3, <1>5, <1>7, <1>9 DEF BlockInv, Chronicle
  <2>2. \A r \in k .. e : b \notin revokes[r]
    <3> SUFFICES ASSUME NEW r \in k .. e, b \in revokes[r]
                 PROVE  FALSE
      OBVIOUS
    <3>1. r \in 1 .. e /\ r \in 1 .. running /\ Record(b, r)
      BY <1>1, <1>3, <1>5, <2>1
    <3>2. IsAt(b, r) = r /\ UseAt(b, r) = "held"
      BY <3>1 DEF BlockInv, Chronicle
    <3>3. IsAt(b, r) <= IsAt(b, e)
      BY <1>1, <1>3, <3>1 DEF BlockInv, Chronicle
    <3>4. r = k
      BY <1>1, <1>3, <2>1, <3>1, <3>2, <3>3
    <3> QED
      BY <2>1, <3>2, <3>4
  <2>3. k \in R /\ R \in SUBSET Int /\ \A t \in R : k >= t
    BY <1>1, <1>3, <1>7, <1>8, <1>9, <2>1, <2>2
  <2>4. Max(R) = k /\ R # {}
    <3> HIDE DEF R, k
    <3> QED
      BY <2>3, MaxIs
  <2> QED
    BY <2>4 DEF Recovered
<1>10. ASSUME UseAt(b, e) \in InUse, ~(k >= tail /\ Copied(b, k))
       PROVE  Recovered(e, b) = home[b] /\ home[b] >= k
  <2>1. home[b] >= k
    BY <1>1, <1>3, <1>5, <1>7, <1>10 DEF BlockInv, Kept
  <2>2. ASSUME NEW t \in R
        PROVE  FALSE
    <3>1. t \in 1 .. e /\ t \in tail .. k /\ Copied(b, t)
      BY <1>1, <1>3, <1>7, <1>8
    <3>2. t < k /\ ~Copied(b, k)
      BY <1>1, <1>7, <1>10, <3>1
    <3>3. PICK f \in t + 1 .. k : b \in frees[f]
      <4>1. t \in tail .. k - 1
        BY <1>1, <1>7, <3>1, <3>2
      <4> QED
        BY <1>1, <1>3, <1>7, <1>10, <3>1, <3>2, <4>1 DEF BlockInv, Parted, FreedBetween
    <3>4. f \in 1 .. e /\ f # running /\ f \in 1 .. running /\ f \in t .. e /\ t < f
      BY <1>1, <1>3, <1>7, <3>1, <3>3
    <3>5. Record(b, f)
      BY <1>1, <1>3, <3>1, <3>3, <3>4 DEF BlockInv, Recorded
    <3> QED
      BY <1>5, <2>2, <3>4, <3>5
  <2> QED
    BY <2>1, <2>2 DEF Recovered
<1>11. UseAt(b, e) \in InUse => Recovered(e, b) >= k
  <2>1. k \in Nat /\ home[b] \in Nat
    BY <1>1, <1>7
  <2> QED
    BY <2>1, <1>9, <1>10
<1>12. UseAt(b, e) \in {"meta", "jdata"} /\ b \notin switched => Recovered(e, b) = k
  <2> SUFFICES ASSUME UseAt(b, e) \in {"meta", "jdata"}, b \notin switched
               PROVE  Recovered(e, b) = k
    OBVIOUS
  <2>1. home[b] <= k
    BY <1>1, <1>3 DEF BlockInv, NotNewer
  <2>2. home[b] >= k => home[b] = k
    BY <1>1, <1>7, <2>1
  <2> QED
    BY <1>9, <1>10, <2>2 DEF InUse
<1> QED
  BY <1>6, <1>11, <1>12 DEF Intact, InUse, e, P

\* Whenever the machine stops, replaying the log leaves in every block whose
\* freeing was revoked what it held when the last durable transaction was
\* closed: no old copy over a new owner's data, no copy lost to a record.
THEOREM ReplayIsSafe == Spec => []ReplaySafe
<1>1. Init => ReplayInv
  BY TypeInit, ReplayInit DEF ReplayInv
<1>2. TypeOK /\ ReplayInv => ReplaySafe
  BY InvImpliesIntact DEF ReplayInv, ReplaySafe
<1> QED
  BY <1>1, <1>2, TypeCorrect, ReplayNext, PTL DEF Spec
=============================================================================
