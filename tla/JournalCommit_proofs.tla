------------------------ MODULE JournalCommit_proofs ------------------------
(***************************************************************************)
(* Proofs about JournalCommit: the inductive invariant, and from it the    *)
(* safety properties, the bound of the credits and the refinement of       *)
(* OrderedJournal, for every set of processes, every number of             *)
(* transactions and every transaction size.                                *)
(***************************************************************************)
EXTENDS JournalCommit, FiniteSetTheorems, TLAPS

\* The journal as journal_reset leaves it satisfies the invariant.
LEMMA InitIInv == Init => IInv
<1> SUFFICES ASSUME Init PROVE IInv
  OBVIOUS
<1> USE ConstantsAssumption DEF Init, Tid, OptTid, B
<1>1. TypeOK
  <2>1. acked \in [{"sync", "dsync"} -> OptTid]
    OBVIOUS
  <2>2. t_state \in [Tid -> TState] /\ t_credits \in [Tid -> Int]
    BY DEF TState
  <2>3. pc \in [Proc -> Pc] /\ h_kind \in [Proc -> AllKinds]
    BY DEF Pc, AllKinds
  <2>4. h_tid \in [Proc -> OptTid] /\ h_credits \in [Proc -> 0..1]
    OBVIOUS
  <2>5. j_sequence \in 1..(MaxTid + 1) /\ kj \in KjPc
    BY DEF KjPc
  <2>6. QED
    BY <2>1, <2>2, <2>3, <2>4, <2>5 DEF TypeOK
<1>2. SequenceInv /\ KjInv /\ ProcInv
  BY DEF SequenceInv, KjInv, ProcInv, Open
<1>3. BarrierInv
  BY DEF BarrierInv, Quiesced, Barred, Quiet, HoldsBarrier
<1>4. DiskInv
  BY DEF DiskInv, WrittenInOrder, AckedIsWritten
<1>5. QED
  BY <1>1, <1>2, <1>3, <1>4 DEF IInv

\* The invariant survives start_this_handle giving up on an aborted journal.
LEMMA StartAbortedIInv ==
  ASSUME IInv, NEW p \in Proc, StartAborted(p)
  PROVE  IInv'
<1> USE ConstantsAssumption DEF IInv, TypeOK, Tid, OptTid, B, Open, vars, journalVars,
       txVars, kjVars, procVars, diskVars, StartAborted, Return, Free, Goto
<1>1. TypeOK'
  BY DEF TState, KjPc, Pc, AllKinds
<1>2. SequenceInv'
  BY DEF SequenceInv, KjInv, ProcInv
<1>3. KjInv'
  BY DEF SequenceInv, KjInv, ProcInv
<1>4. ProcInv'
  BY DEF SequenceInv, KjInv, ProcInv
<1>5. BarrierInv'
  BY DEF BarrierInv, Quiesced, Barred, Quiet, HoldsBarrier
<1>6. DiskInv'
  BY DEF SequenceInv, KjInv, DiskInv, WrittenInOrder, AckedIsWritten
<1>7. QED
  BY <1>1, <1>2, <1>3, <1>4, <1>5, <1>6

\* The invariant survives start_this_handle finding no running transaction.
LEMMA NoTransactionIInv ==
  ASSUME IInv, NEW p \in Proc, NoTransaction(p)
  PROVE  IInv'
<1> USE ConstantsAssumption DEF IInv, TypeOK, Tid, OptTid, B, Open, vars, journalVars,
       txVars, kjVars, procVars, diskVars, NoTransaction, Goto
<1>1. TypeOK'
  BY DEF TState, KjPc, Pc, AllKinds
<1>2. SequenceInv'
  BY DEF SequenceInv, KjInv, ProcInv
<1>3. KjInv'
  BY DEF SequenceInv, KjInv, ProcInv
<1>4. ProcInv'
  BY DEF SequenceInv, KjInv, ProcInv
<1>5. BarrierInv'
  BY DEF BarrierInv, Quiesced, Barred, Quiet, HoldsBarrier
<1>6. DiskInv'
  BY DEF SequenceInv, KjInv, DiskInv, WrittenInOrder, AckedIsWritten
<1>7. QED
  BY <1>1, <1>2, <1>3, <1>4, <1>5, <1>6

\* The invariant survives jbdbf_get_transaction creating the running transaction.
LEMMA GetTransactionIInv ==
  ASSUME IInv, NEW p \in Proc, GetTransaction(p)
  PROVE  IInv'
<1> USE ConstantsAssumption DEF IInv, TypeOK, Tid, OptTid, B, Open, vars, journalVars,
       txVars, kjVars, procVars, diskVars, GetTransaction, Goto
<1>1. TypeOK'
  <2>1. j_running' \in OptTid /\ j_committing' \in OptTid
    BY DEF TState, KjPc, Pc, AllKinds
  <2>2. j_sequence' \in 1..(MaxTid + 1)
    BY DEF TState, KjPc, Pc, AllKinds
  <2>3. j_commit_request' \in OptTid /\ j_commit_sequence' \in OptTid
    BY DEF TState, KjPc, Pc, AllKinds
  <2>4. j_aborted' \in BOOLEAN
    BY DEF TState, KjPc, Pc, AllKinds
  <2>5. t_state' \in [Tid -> TState]
    BY DEF TState, KjPc, Pc, AllKinds
  <2>6. t_durable_commit' \in [Tid -> BOOLEAN]
    BY DEF TState, KjPc, Pc, AllKinds
  <2>7. t_credits' \in [Tid -> Int]
    BY DEF TState, KjPc, Pc, AllKinds
  <2>8. t_expired' \in BOOLEAN
    BY DEF TState, KjPc, Pc, AllKinds
  <2>9. kj' \in KjPc /\ durable_commit' \in BOOLEAN
    BY DEF TState, KjPc, Pc, AllKinds
  <2>10. pc' \in [Proc -> Pc] /\ h_kind' \in [Proc -> AllKinds]
    BY DEF TState, KjPc, Pc, AllKinds
  <2>11. h_tid' \in [Proc -> OptTid] /\ h_credits' \in [Proc -> 0..1]
    BY DEF TState, KjPc, Pc, AllKinds
  <2>12. i_sync_tid' \in OptTid
    BY DEF TState, KjPc, Pc, AllKinds
  <2>13. written' \subseteq Tid /\ durable' \subseteq Tid
    BY DEF TState, KjPc, Pc, AllKinds
  <2>14. acked' \in [{"sync", "dsync"} -> OptTid]
    BY DEF TState, KjPc, Pc, AllKinds
  <2>99. QED
    BY <2>1, <2>2, <2>3, <2>4, <2>5, <2>6, <2>7, <2>8, <2>9, <2>10, <2>11, <2>12, <2>13, <2>14
<1>2. SequenceInv'
  BY DEF SequenceInv
<1>3. KjInv'
  BY DEF SequenceInv, KjInv, ProcInv
<1>4. ProcInv'
  BY DEF SequenceInv, KjInv, ProcInv
<1>5. BarrierInv'
  BY DEF BarrierInv, Quiesced, Barred, Quiet, HoldsBarrier
<1>6. DiskInv'
  BY DEF SequenceInv, KjInv, DiskInv, WrittenInOrder, AckedIsWritten
<1>7. QED
  BY <1>1, <1>2, <1>3, <1>4, <1>5, <1>6

\* The invariant survives start_this_handle adding its credits to the account.
LEMMA StartReserveIInv ==
  ASSUME IInv, NEW p \in Proc, StartReserve(p)
  PROVE  IInv'
<1> USE ConstantsAssumption DEF IInv, TypeOK, Tid, OptTid, B, Open, vars, journalVars,
       txVars, kjVars, procVars, diskVars, StartReserve, Goto
<1>1. TypeOK'
  BY DEF TState, KjPc, Pc, AllKinds, SequenceInv, KjInv, ProcInv
<1>2. SequenceInv'
  BY DEF SequenceInv, KjInv, ProcInv
<1>3. KjInv'
  BY DEF SequenceInv, KjInv, ProcInv
<1>4. ProcInv'
  BY DEF SequenceInv, KjInv, ProcInv
<1>5. BarrierInv'
  BY DEF BarrierInv, Quiesced, Barred, Quiet, HoldsBarrier
<1>6. DiskInv'
  BY DEF SequenceInv, KjInv, DiskInv, WrittenInOrder, AckedIsWritten
<1>7. QED
  BY <1>1, <1>2, <1>3, <1>4, <1>5, <1>6

\* The invariant survives start_this_handle joining the running transaction.
LEMMA StartJoinIInv ==
  ASSUME IInv, NEW p \in Proc, StartJoin(p)
  PROVE  IInv'
<1> USE ConstantsAssumption DEF IInv, TypeOK, Tid, OptTid, B, Open, vars, journalVars,
       txVars, kjVars, procVars, diskVars, StartJoin, Goto
<1>1. TypeOK'
  BY DEF TState, KjPc, Pc, AllKinds
<1>2. SequenceInv'
  BY DEF SequenceInv, KjInv, ProcInv
<1>3. KjInv'
  BY DEF SequenceInv, KjInv, ProcInv
<1>4. ProcInv'
  BY DEF SequenceInv, KjInv, ProcInv
<1>5. BarrierInv'
  BY DEF BarrierInv, Quiesced, Barred, Quiet, HoldsBarrier
<1>6. DiskInv'
  BY DEF SequenceInv, KjInv, DiskInv, WrittenInOrder, AckedIsWritten
<1>7. QED
  BY <1>1, <1>2, <1>3, <1>4, <1>5, <1>6

\* The invariant survives start_this_handle finding no space in the log.
LEMMA StartNoSpaceIInv ==
  ASSUME IInv, NEW p \in Proc, StartNoSpace(p)
  PROVE  IInv'
<1> USE ConstantsAssumption DEF IInv, TypeOK, Tid, OptTid, B, Open, vars, journalVars,
       txVars, kjVars, procVars, diskVars, StartNoSpace, Unreserve, Goto
<1>1. TypeOK'
  BY DEF TState, KjPc, Pc, AllKinds, SequenceInv, KjInv, ProcInv
<1>2. SequenceInv'
  BY DEF SequenceInv, KjInv, ProcInv
<1>3. KjInv'
  BY DEF SequenceInv, KjInv, ProcInv
<1>4. ProcInv'
  BY DEF SequenceInv, KjInv, ProcInv
<1>5. BarrierInv'
  BY DEF BarrierInv, Quiesced, Barred, Quiet, HoldsBarrier
<1>6. DiskInv'
  BY DEF SequenceInv, KjInv, DiskInv, WrittenInOrder, AckedIsWritten
<1>7. QED
  BY <1>1, <1>2, <1>3, <1>4, <1>5, <1>6

\* The invariant survives start_this_handle finding the running transaction full.
LEMMA StartFullIInv ==
  ASSUME IInv, NEW p \in Proc, StartFull(p)
  PROVE  IInv'
<1> USE ConstantsAssumption DEF IInv, TypeOK, Tid, OptTid, B, Open, vars, journalVars,
       txVars, kjVars, procVars, diskVars, StartFull, Unreserve, NeedToStart,
       Goto
<1>1. TypeOK'
  <2>1. h_tid[p] \in Tid /\ t_credits[h_tid[p]] - 1 \in Int
    BY DEF ProcInv
  <2>2. pc' \in [Proc -> Pc]
    BY DEF Pc
  <2>3. t_credits' \in [Tid -> Int]
    BY <2>1
  <2>4. QED
    BY <2>2, <2>3
<1>2. SequenceInv'
  BY DEF SequenceInv, KjInv, ProcInv
<1>3. KjInv'
  BY DEF SequenceInv, KjInv, ProcInv
<1>4. ProcInv'
  BY DEF SequenceInv, KjInv, ProcInv
<1>5. BarrierInv'
  BY DEF BarrierInv, Quiesced, Barred, Quiet, HoldsBarrier
<1>6. DiskInv'
  BY DEF SequenceInv, KjInv, DiskInv, WrittenInOrder, AckedIsWritten
<1>7. QED
  BY <1>1, <1>2, <1>3, <1>4, <1>5, <1>6

\* The invariant survives start_this_handle waking after the full transaction went.
LEMMA FullWakeIInv ==
  ASSUME IInv, NEW p \in Proc, FullWake(p)
  PROVE  IInv'
<1> USE ConstantsAssumption DEF IInv, TypeOK, Tid, OptTid, B, Open, vars, journalVars,
       txVars, kjVars, procVars, diskVars, FullWake, Goto
<1>1. TypeOK'
  BY DEF TState, KjPc, Pc, AllKinds
<1>2. SequenceInv'
  BY DEF SequenceInv, KjInv, ProcInv
<1>3. KjInv'
  BY DEF SequenceInv, KjInv, ProcInv
<1>4. ProcInv'
  BY DEF SequenceInv, KjInv, ProcInv
<1>5. BarrierInv'
  BY DEF BarrierInv, Quiesced, Barred, Quiet, HoldsBarrier
<1>6. DiskInv'
  BY DEF SequenceInv, KjInv, DiskInv, WrittenInOrder, AckedIsWritten
<1>7. QED
  BY <1>1, <1>2, <1>3, <1>4, <1>5, <1>6

\* The invariant survives jbdbf_log_start_commit, called with the lock dropped in between.
LEMMA RequestCommitIInv ==
  ASSUME IInv, NEW p \in Proc, RequestCommit(p)
  PROVE  IInv'
<1> USE ConstantsAssumption DEF IInv, TypeOK, Tid, OptTid, B, Open, vars, journalVars,
       txVars, kjVars, procVars, diskVars, RequestCommit, LogStartCommit, Goto
<1>1. TypeOK'
  <2>1. pc' \in [Proc -> Pc]
    BY DEF Pc
  <2>2. j_commit_request' \in OptTid /\ t_durable_commit' \in [Tid -> BOOLEAN]
    OBVIOUS
  <2>3. QED
    BY <2>1, <2>2
<1>2. SequenceInv'
  BY DEF SequenceInv, KjInv, ProcInv
<1>3. KjInv'
  BY DEF SequenceInv, KjInv, ProcInv
<1>4. ProcInv'
  BY DEF SequenceInv, KjInv, ProcInv
<1>5. BarrierInv'
  BY SMTT(30) DEF BarrierInv, Quiesced, Barred, Quiet, HoldsBarrier, ProcInv
<1>6. DiskInv'
  BY DEF SequenceInv, KjInv, DiskInv, WrittenInOrder, AckedIsWritten
<1>7. QED
  BY <1>1, <1>2, <1>3, <1>4, <1>5, <1>6

\* The invariant survives jbdbf_journal_stop returning credits.
LEMMA JournalStopIInv ==
  ASSUME IInv, NEW p \in Proc, JournalStop(p)
  PROVE  IInv'
<1> USE ConstantsAssumption DEF IInv, TypeOK, Tid, OptTid, B, Open, vars, journalVars,
       txVars, kjVars, procVars, diskVars, JournalStop, Goto
<1>1. TypeOK'
  <2>1. h_tid[p] \in Tid /\ t_credits[h_tid[p]] \in Int /\ h_credits[p] \in 0..1
    BY DEF ProcInv, Pc
  <2>2. t_credits[h_tid[p]] - h_credits[p] \in Int
    BY <2>1
  <2>3. t_credits' \in [Tid -> Int]
    BY <2>1, <2>2
  <2>4. pc' \in [Proc -> Pc] /\ h_credits' \in [Proc -> 0..1]
    BY DEF Pc
  <2>5. QED
    BY <2>3, <2>4
<1>2. SequenceInv'
  BY DEF SequenceInv, KjInv, ProcInv
<1>3. KjInv'
  BY DEF SequenceInv, KjInv, ProcInv
<1>4. ProcInv'
  BY DEF SequenceInv, KjInv, ProcInv
<1>5. BarrierInv'
  BY DEF BarrierInv, Quiesced, Barred, Quiet, HoldsBarrier, ProcInv
<1>6. DiskInv'
  BY DEF SequenceInv, KjInv, DiskInv, WrittenInOrder, AckedIsWritten
<1>7. QED
  BY <1>1, <1>2, <1>3, <1>4, <1>5, <1>6

\* The invariant survives jbdbf_journal_stop dropping t_updates.
LEMMA DropUpdateIInv ==
  ASSUME IInv, NEW p \in Proc, DropUpdate(p)
  PROVE  IInv'
<1> USE ConstantsAssumption DEF IInv, TypeOK, Tid, OptTid, B, Open, vars, journalVars,
       txVars, kjVars, procVars, diskVars, DropUpdate, GotoWaking, Free, t_updates,
       Goto
<1>1. TypeOK'
  <2>1. pc' \in [Proc -> Pc]
    BY DEF Pc
  <2>2. h_kind' \in [Proc -> AllKinds] /\ h_tid' \in [Proc -> OptTid]
        /\ h_credits' \in [Proc -> 0..1]
    <3>1. CASE h_kind[p] = "update"
      <4>1. h_credits' = [h_credits EXCEPT ![p] = 0]
        BY <3>1
      <4>2. h_credits \in [Proc -> 0..1] /\ 0 \in 0..1
        OBVIOUS
      <4>3. h_credits' \in [Proc -> 0..1]
        <5> HIDE DEF TypeOK, IInv, DropUpdate
        <5>1. QED
          BY <4>1, <4>2
      <4>4. h_kind' \in [Proc -> AllKinds]
        BY <3>1 DEF AllKinds
      <4>5. h_tid' \in [Proc -> OptTid]
        <5>1. h_tid' = [h_tid EXCEPT ![p] = 0] /\ h_tid \in [Proc -> OptTid]
          BY <3>1
        <5>2. 0 \in OptTid
          OBVIOUS
        <5> HIDE DEF TypeOK, IInv, DropUpdate, OptTid
        <5>3. QED
          BY <5>1, <5>2
      <4>6. QED
        BY <4>3, <4>4, <4>5
    <3>2. CASE h_kind[p] # "update"
      BY <3>2
    <3>3. QED
      BY <3>1, <3>2
  <2>3. QED
    BY <2>1, <2>2
<1>2. SequenceInv'
  BY DEF SequenceInv, KjInv, ProcInv
<1>3. KjInv'
  BY DEF SequenceInv, KjInv, ProcInv
<1>4. ProcInv'
  BY DEF SequenceInv, KjInv, ProcInv
<1>5. BarrierInv'
  BY DEF BarrierInv, Quiesced, Barred, Quiet, HoldsBarrier, ProcInv
<1>6. DiskInv'
  BY DEF SequenceInv, KjInv, DiskInv, WrittenInOrder, AckedIsWritten
<1>7. QED
  BY <1>1, <1>2, <1>3, <1>4, <1>5, <1>6

\* The invariant survives the return of jbdbf_log_wait_commit.
LEMMA WaitCommitIInv ==
  ASSUME IInv, NEW p \in Proc, WaitCommit(p)
  PROVE  IInv'
<1> USE ConstantsAssumption DEF IInv, TypeOK, Tid, OptTid, B, Open, vars, journalVars,
       txVars, kjVars, procVars, diskVars, WaitCommit, Return, Free, Latest, Goto
<1>1. TypeOK'
  <2>1. acked' \in [{"sync", "dsync"} -> OptTid]
    OBVIOUS
  <2>2. CASE h_kind[p] = "flush"
    BY <2>1, <2>2 DEF Pc
  <2>3. CASE h_kind[p] # "flush"
    <3>1. /\ pc' = [pc EXCEPT ![p] = "idle"]
          /\ h_kind' = [h_kind EXCEPT ![p] = "update"]
          /\ h_tid' = [h_tid EXCEPT ![p] = 0]
          /\ h_credits' = [h_credits EXCEPT ![p] = 0]
      BY <2>3
    <3>2. /\ pc \in [Proc -> Pc] /\ h_kind \in [Proc -> AllKinds]
          /\ h_tid \in [Proc -> OptTid] /\ h_credits \in [Proc -> 0..1]
          /\ "idle" \in Pc /\ "update" \in AllKinds /\ 0 \in OptTid /\ 0 \in 0..1
      BY DEF Pc, AllKinds
    <3>3. /\ pc' \in [Proc -> Pc] /\ h_kind' \in [Proc -> AllKinds]
          /\ h_tid' \in [Proc -> OptTid] /\ h_credits' \in [Proc -> 0..1]
      <4> HIDE DEF TypeOK, IInv, WaitCommit, OptTid
      <4>1. QED
        BY <3>1, <3>2
    <3>4. QED
      BY <2>1, <3>3
  <2>4. QED
    BY <2>2, <2>3
<1>2. SequenceInv'
  BY DEF SequenceInv, KjInv, ProcInv
<1>3. KjInv'
  BY DEF SequenceInv, KjInv, ProcInv
<1>4. ProcInv'
  BY SMTT(30) DEF SequenceInv, KjInv, ProcInv
<1>5. BarrierInv'
  <2>1. CASE h_kind[p] = "flush"
    <3>1. pc' = [pc EXCEPT ![p] = "unlock"] /\ h_kind' = h_kind /\ HoldsBarrier(p)
      BY <2>1 DEF HoldsBarrier
    <3>2. QED
      BY <2>1, <3>1 DEF BarrierInv, Quiesced, Barred, Quiet, HoldsBarrier
  <2>2. CASE h_kind[p] # "flush"
    <3>1. /\ pc' = [pc EXCEPT ![p] = "idle"]
          /\ h_kind' = [h_kind EXCEPT ![p] = "update"]
      BY <2>2
    <3>2. QED
      BY <3>1 DEF BarrierInv, Quiesced, Barred, Quiet, HoldsBarrier
  <2>3. QED
    BY <2>1, <2>2
<1>6. DiskInv'
  BY DEF SequenceInv, KjInv, DiskInv, WrittenInOrder, AckedIsWritten, ProcInv
<1>7. QED
  BY <1>1, <1>2, <1>3, <1>4, <1>5, <1>6

\* The invariant survives the entry of jbdbf__journal_start.
LEMMA JournalStartIInv ==
  ASSUME IInv, NEW p \in Proc, JournalStart(p)
  PROVE  IInv'
<1> USE ConstantsAssumption DEF IInv, TypeOK, Tid, OptTid, B, Open, vars, journalVars,
       txVars, kjVars, procVars, diskVars, JournalStart, Goto
<1>1. TypeOK'
  BY DEF TState, KjPc, Pc, AllKinds
<1>2. SequenceInv'
  BY DEF SequenceInv, KjInv, ProcInv
<1>3. KjInv'
  BY DEF SequenceInv, KjInv, ProcInv
<1>4. ProcInv'
  BY DEF SequenceInv, KjInv, ProcInv
<1>5. BarrierInv'
  BY DEF BarrierInv, Quiesced, Barred, Quiet, HoldsBarrier
<1>6. DiskInv'
  BY DEF SequenceInv, KjInv, DiskInv, WrittenInOrder, AckedIsWritten
<1>7. QED
  BY <1>1, <1>2, <1>3, <1>4, <1>5, <1>6

\* The invariant survives jbdbf_journal_start_commit.
LEMMA StartCommitIInv ==
  ASSUME IInv, NEW p \in Proc, StartCommit(p)
  PROVE  IInv'
<1> USE ConstantsAssumption DEF IInv, TypeOK, Tid, OptTid, B, Open, vars, journalVars,
       txVars, kjVars, procVars, diskVars, StartCommit, LogStartCommit, Youngest, Goto
<1>1. TypeOK'
  BY DEF TState, KjPc, Pc, AllKinds
<1>2. SequenceInv'
  BY DEF SequenceInv, KjInv, ProcInv
<1>3. KjInv'
  BY DEF SequenceInv, KjInv, ProcInv
<1>4. ProcInv'
  BY DEF SequenceInv, KjInv, ProcInv
<1>5. BarrierInv'
  BY DEF BarrierInv, Quiesced, Barred, Quiet, HoldsBarrier
<1>6. DiskInv'
  BY DEF SequenceInv, KjInv, DiskInv, WrittenInOrder, AckedIsWritten
<1>7. QED
  BY <1>1, <1>2, <1>3, <1>4, <1>5, <1>6

\* The invariant survives osync and dsync naming the transaction of an inode.
LEMMA SyncFileTidIInv ==
  ASSUME IInv, NEW p \in Proc, SyncFileTid(p)
  PROVE  IInv'
<1> USE ConstantsAssumption DEF IInv, TypeOK, Tid, OptTid, B, Open, vars, journalVars,
       txVars, kjVars, procVars, diskVars, SyncFileTid, LogStartCommit, Goto
<1>1. TypeOK'
  BY ZenonT(30) DEF TState, KjPc, Pc, AllKinds
<1>2. SequenceInv'
  BY DEF SequenceInv, KjInv, ProcInv
<1>3. KjInv'
  BY DEF SequenceInv, KjInv, ProcInv
<1>4. ProcInv'
  BY DEF SequenceInv, KjInv, ProcInv
<1>5. BarrierInv'
  BY DEF BarrierInv, Quiesced, Barred, Quiet, HoldsBarrier
<1>6. DiskInv'
  BY DEF SequenceInv, KjInv, DiskInv, WrittenInOrder, AckedIsWritten
<1>7. QED
  BY <1>1, <1>2, <1>3, <1>4, <1>5, <1>6

\* The invariant survives jbdbf_journal_force_commit_nested up to the drop of the lock.
LEMMA ForceCommitNestedIInv ==
  ASSUME IInv, NEW p \in Proc, ForceCommitNested(p)
  PROVE  IInv'
<1> USE ConstantsAssumption DEF IInv, TypeOK, Tid, OptTid, B, Open, vars, journalVars,
       txVars, kjVars, procVars, diskVars, ForceCommitNested, NeedToStart, Youngest,
       Goto
<1>1. TypeOK'
  BY DEF TState, KjPc, Pc, AllKinds
<1>2. SequenceInv'
  BY DEF SequenceInv, KjInv, ProcInv
<1>3. KjInv'
  BY DEF SequenceInv, KjInv, ProcInv
<1>4. ProcInv'
  BY DEF SequenceInv, KjInv, ProcInv
<1>5. BarrierInv'
  BY DEF BarrierInv, Quiesced, Barred, Quiet, HoldsBarrier
<1>6. DiskInv'
  BY DEF SequenceInv, KjInv, DiskInv, WrittenInOrder, AckedIsWritten
<1>7. QED
  BY <1>1, <1>2, <1>3, <1>4, <1>5, <1>6

\* The invariant survives jbdbf_journal_dirty_metadata spending a credit.
LEMMA UseCreditIInv ==
  ASSUME IInv, NEW p \in Proc, UseCredit(p)
  PROVE  IInv'
<1> USE ConstantsAssumption DEF IInv, TypeOK, Tid, OptTid, B, Open, vars, journalVars,
       txVars, kjVars, procVars, diskVars, UseCredit, Goto
<1>1. TypeOK'
  BY DEF TState, KjPc, Pc, AllKinds
<1>2. SequenceInv'
  BY DEF SequenceInv, KjInv, ProcInv
<1>3. KjInv'
  BY DEF SequenceInv, KjInv, ProcInv
<1>4. ProcInv'
  BY DEF SequenceInv, KjInv, ProcInv
<1>5. BarrierInv'
  BY DEF BarrierInv, Quiesced, Barred, Quiet, HoldsBarrier
<1>6. DiskInv'
  BY DEF SequenceInv, KjInv, DiskInv, WrittenInOrder, AckedIsWritten
<1>7. QED
  BY <1>1, <1>2, <1>3, <1>4, <1>5, <1>6

\* The invariant survives jbdbf_journal_extend finding room for its credit.
LEMMA ExtendCheckIInv ==
  ASSUME IInv, NEW p \in Proc, ExtendCheck(p)
  PROVE  IInv'
<1> USE ConstantsAssumption DEF IInv, TypeOK, Tid, OptTid, B, Open, vars, journalVars,
       txVars, kjVars, procVars, diskVars, ExtendCheck, Goto
<1>1. TypeOK'
  BY DEF TState, KjPc, Pc, AllKinds, SequenceInv, KjInv, ProcInv
<1>2. SequenceInv'
  BY DEF SequenceInv, KjInv, ProcInv
<1>3. KjInv'
  BY DEF SequenceInv, KjInv, ProcInv
<1>4. ProcInv'
  BY DEF SequenceInv, KjInv, ProcInv
<1>5. BarrierInv'
  BY DEF BarrierInv, Quiesced, Barred, Quiet, HoldsBarrier
<1>6. DiskInv'
  BY DEF SequenceInv, KjInv, DiskInv, WrittenInOrder, AckedIsWritten
<1>7. QED
  BY <1>1, <1>2, <1>3, <1>4, <1>5, <1>6

\* The invariant survives jbdbf_journal_extend finding no space in the log.
LEMMA ExtendDeniedIInv ==
  ASSUME IInv, NEW p \in Proc, ExtendDenied(p)
  PROVE  IInv'
<1> USE ConstantsAssumption DEF IInv, TypeOK, Tid, OptTid, B, Open, vars, journalVars,
       txVars, kjVars, procVars, diskVars, ExtendDenied, Goto
<1>1. TypeOK'
  BY DEF TState, KjPc, Pc, AllKinds, SequenceInv, KjInv, ProcInv
<1>2. SequenceInv'
  BY DEF SequenceInv, KjInv, ProcInv
<1>3. KjInv'
  BY DEF SequenceInv, KjInv, ProcInv
<1>4. ProcInv'
  BY DEF SequenceInv, KjInv, ProcInv
<1>5. BarrierInv'
  BY DEF BarrierInv, Quiesced, Barred, Quiet, HoldsBarrier
<1>6. DiskInv'
  BY DEF SequenceInv, KjInv, DiskInv, WrittenInOrder, AckedIsWritten
<1>7. QED
  BY <1>1, <1>2, <1>3, <1>4, <1>5, <1>6

\* The invariant survives jbdbf_journal_extend granting a credit.
LEMMA JournalExtendIInv ==
  ASSUME IInv, NEW p \in Proc, JournalExtend(p)
  PROVE  IInv'
<1> USE ConstantsAssumption DEF IInv, TypeOK, Tid, OptTid, B, Open, vars, journalVars,
       txVars, kjVars, procVars, diskVars, JournalExtend, Goto
<1>1. TypeOK'
  BY DEF TState, KjPc, Pc, AllKinds, SequenceInv, KjInv, ProcInv
<1>2. SequenceInv'
  BY DEF SequenceInv, KjInv, ProcInv
<1>3. KjInv'
  BY DEF SequenceInv, KjInv, ProcInv
<1>4. ProcInv'
  BY DEF SequenceInv, KjInv, ProcInv
<1>5. BarrierInv'
  BY DEF BarrierInv, Quiesced, Barred, Quiet, HoldsBarrier
<1>6. DiskInv'
  BY DEF SequenceInv, KjInv, DiskInv, WrittenInOrder, AckedIsWritten
<1>7. QED
  BY <1>1, <1>2, <1>3, <1>4, <1>5, <1>6

\* The invariant survives jbdbf__journal_restart leaving its transaction.
LEMMA JournalRestartIInv ==
  ASSUME IInv, NEW p \in Proc, JournalRestart(p)
  PROVE  IInv'
<1> USE ConstantsAssumption DEF IInv, TypeOK, Tid, OptTid, B, Open, vars, journalVars,
       txVars, kjVars, procVars, diskVars, JournalRestart, NeedToStart, GotoWaking,
       t_updates, Goto
<1>1. TypeOK'
  <2>1. h_tid[p] \in Tid /\ t_credits[h_tid[p]] \in Int /\ h_credits[p] \in 0..1
    BY DEF ProcInv, Pc
  <2>2. t_credits[h_tid[p]] - h_credits[p] \in Int
    BY <2>1
  <2>3. t_credits' \in [Tid -> Int]
    BY <2>1, <2>2
  <2>4. pc' \in [Proc -> Pc] /\ h_credits' \in [Proc -> 0..1]
    BY DEF Pc
  <2>5. QED
    BY <2>3, <2>4
<1>2. SequenceInv'
  BY DEF SequenceInv, KjInv, ProcInv
<1>3. KjInv'
  BY DEF SequenceInv, KjInv, ProcInv
<1>4. ProcInv'
  BY DEF SequenceInv, KjInv, ProcInv
<1>5. BarrierInv'
  BY DEF BarrierInv, Quiesced, Barred, Quiet, HoldsBarrier
<1>6. DiskInv'
  BY DEF SequenceInv, KjInv, DiskInv, WrittenInOrder, AckedIsWritten
<1>7. QED
  BY <1>1, <1>2, <1>3, <1>4, <1>5, <1>6

\* The invariant survives jbdbf_journal_lock_updates raising the barrier.
LEMMA LockUpdatesIInv ==
  ASSUME IInv, NEW p \in Proc, NoReaders, LockUpdates(p)
  PROVE  IInv'
<1> USE ConstantsAssumption DEF IInv, TypeOK, Tid, OptTid, B, Open, vars, journalVars,
       txVars, kjVars, procVars, diskVars, NoReaders, LockUpdates, Goto
<1>1. TypeOK'
  BY DEF TState, KjPc, Pc, AllKinds
<1>2. SequenceInv'
  BY DEF SequenceInv, KjInv, ProcInv
<1>3. KjInv'
  BY DEF SequenceInv, KjInv, ProcInv
<1>4. ProcInv'
  BY DEF SequenceInv, KjInv, ProcInv
<1>5. BarrierInv'
  BY DEF BarrierInv, Quiesced, Barred, Quiet, HoldsBarrier, ProcInv
<1>6. DiskInv'
  BY DEF SequenceInv, KjInv, DiskInv, WrittenInOrder, AckedIsWritten
<1>7. QED
  BY <1>1, <1>2, <1>3, <1>4, <1>5, <1>6

\* The invariant survives jbdbf_journal_lock_updates looking for updates.
LEMMA LockCheckIInv ==
  ASSUME IInv, NEW p \in Proc, LockCheck(p)
  PROVE  IInv'
<1> USE ConstantsAssumption DEF IInv, TypeOK, Tid, OptTid, B, Open, vars, journalVars,
       txVars, kjVars, procVars, diskVars, LockCheck, LockStep, t_updates, Goto
<1>1. TypeOK'
  BY DEF TState, KjPc, Pc, AllKinds
<1>2. SequenceInv'
  BY DEF SequenceInv, KjInv, ProcInv
<1>3. KjInv'
  BY DEF SequenceInv, KjInv, ProcInv
<1>4. ProcInv'
  BY DEF SequenceInv, KjInv, ProcInv
<1>5. BarrierInv'
  BY DEF BarrierInv, Quiesced, Barred, Quiet, HoldsBarrier, ProcInv
<1>6. DiskInv'
  BY DEF SequenceInv, KjInv, DiskInv, WrittenInOrder, AckedIsWritten
<1>7. QED
  BY <1>1, <1>2, <1>3, <1>4, <1>5, <1>6

\* The invariant survives jbdbf_journal_lock_updates going to sleep.
LEMMA LockSleepIInv ==
  ASSUME IInv, NEW p \in Proc, LockSleep(p)
  PROVE  IInv'
<1> USE ConstantsAssumption DEF IInv, TypeOK, Tid, OptTid, B, Open, vars, journalVars,
       txVars, kjVars, procVars, diskVars, LockSleep, LockStep, Goto
<1>1. TypeOK'
  BY DEF TState, KjPc, Pc, AllKinds
<1>2. SequenceInv'
  BY DEF SequenceInv, KjInv, ProcInv
<1>3. KjInv'
  BY DEF SequenceInv, KjInv, ProcInv
<1>4. ProcInv'
  BY DEF SequenceInv, KjInv, ProcInv
<1>5. BarrierInv'
  BY DEF BarrierInv, Quiesced, Barred, Quiet, HoldsBarrier
<1>6. DiskInv'
  BY DEF SequenceInv, KjInv, DiskInv, WrittenInOrder, AckedIsWritten
<1>7. QED
  BY <1>1, <1>2, <1>3, <1>4, <1>5, <1>6

\* The invariant survives jbdbf_journal_lock_updates taking j_barrier.
LEMMA LockBarrierIInv ==
  ASSUME IInv, NEW p \in Proc, LockBarrier(p)
  PROVE  IInv'
<1> USE ConstantsAssumption DEF IInv, TypeOK, Tid, OptTid, B, Open, vars, journalVars,
       txVars, kjVars, procVars, diskVars, LockBarrier, LockStep, Goto
<1>1. TypeOK'
  BY DEF TState, KjPc, Pc, AllKinds
<1>2. SequenceInv'
  BY DEF SequenceInv, KjInv, ProcInv
<1>3. KjInv'
  BY DEF SequenceInv, KjInv, ProcInv
<1>4. ProcInv'
  BY DEF SequenceInv, KjInv, ProcInv
<1>5. BarrierInv'
  BY DEF BarrierInv, Quiesced, Barred, Quiet, HoldsBarrier
<1>6. DiskInv'
  BY DEF SequenceInv, KjInv, DiskInv, WrittenInOrder, AckedIsWritten
<1>7. QED
  BY <1>1, <1>2, <1>3, <1>4, <1>5, <1>6

\* The invariant survives jbdbf_journal_flush asking for its commit.
LEMMA JournalFlushIInv ==
  ASSUME IInv, NEW p \in Proc, JournalFlush(p)
  PROVE  IInv'
<1> USE ConstantsAssumption DEF IInv, TypeOK, Tid, OptTid, B, Open, vars, journalVars,
       txVars, kjVars, procVars, diskVars, JournalFlush, LogStartCommit, Youngest, Goto
<1>1. TypeOK'
  <2>1. pc' \in [Proc -> Pc]
    BY DEF Pc
  <2>2. h_tid' \in [Proc -> OptTid]
    OBVIOUS
  <2>3. j_commit_request' \in OptTid /\ t_durable_commit' \in [Tid -> BOOLEAN]
    OBVIOUS
  <2>4. QED
    BY <2>1, <2>2, <2>3
<1>2. SequenceInv'
  BY DEF SequenceInv, KjInv, ProcInv
<1>3. KjInv'
  BY DEF SequenceInv, KjInv, ProcInv
<1>4. ProcInv'
  BY DEF SequenceInv, KjInv, ProcInv
<1>5. BarrierInv'
  <2>1. /\ h_kind' = h_kind /\ h_kind[p] = "flush"
        /\ pc' = [pc EXCEPT ![p] = "wait"] \/ pc' = [pc EXCEPT ![p] = "unlock"]
    BY DEF ProcInv
  <2>2. pc[p] = "locked"
    OBVIOUS
  <2>3. CASE pc' = [pc EXCEPT ![p] = "wait"]
    BY <2>1, <2>2, <2>3 DEF BarrierInv, Quiesced, Barred, Quiet, HoldsBarrier
  <2>4. CASE pc' = [pc EXCEPT ![p] = "unlock"]
    BY <2>1, <2>2, <2>4 DEF BarrierInv, Quiesced, Barred, Quiet, HoldsBarrier
  <2>5. QED
    BY <2>1, <2>3, <2>4
<1>6. DiskInv'
  BY DEF SequenceInv, KjInv, DiskInv, WrittenInOrder, AckedIsWritten
<1>7. QED
  BY <1>1, <1>2, <1>3, <1>4, <1>5, <1>6

\* The invariant survives jbdbf_journal_unlock_updates.
LEMMA UnlockUpdatesIInv ==
  ASSUME IInv, NEW p \in Proc, UnlockUpdates(p)
  PROVE  IInv'
<1> USE ConstantsAssumption DEF IInv, TypeOK, Tid, OptTid, B, Open, vars, journalVars,
       txVars, kjVars, procVars, diskVars, UnlockUpdates, Return, Free, Goto
<1>1. TypeOK'
  BY DEF TState, KjPc, Pc, AllKinds
<1>2. SequenceInv'
  BY DEF SequenceInv, KjInv, ProcInv
<1>3. KjInv'
  BY DEF SequenceInv, KjInv, ProcInv
<1>4. ProcInv'
  BY DEF SequenceInv, KjInv, ProcInv
<1>5. BarrierInv'
  BY DEF BarrierInv, Quiesced, Barred, Quiet, HoldsBarrier
<1>6. DiskInv'
  BY DEF SequenceInv, KjInv, DiskInv, WrittenInOrder, AckedIsWritten
<1>7. QED
  BY <1>1, <1>2, <1>3, <1>4, <1>5, <1>6

\* The invariant survives the running transaction reaching t_expires.
LEMMA ExpireIInv ==
  ASSUME IInv, Expire
  PROVE  IInv'
<1> USE ConstantsAssumption DEF IInv, TypeOK, Tid, OptTid, B, Open, vars, journalVars,
       txVars, kjVars, procVars, diskVars, Expire
<1>1. TypeOK'
  BY DEF TState, KjPc, Pc, AllKinds
<1>2. SequenceInv'
  BY DEF SequenceInv, KjInv, ProcInv
<1>3. KjInv'
  BY DEF SequenceInv, KjInv, ProcInv
<1>4. ProcInv'
  BY DEF SequenceInv, KjInv, ProcInv
<1>5. BarrierInv'
  BY DEF BarrierInv, Quiesced, Barred, Quiet, HoldsBarrier
<1>6. DiskInv'
  BY DEF SequenceInv, KjInv, DiskInv, WrittenInOrder, AckedIsWritten
<1>7. QED
  BY <1>1, <1>2, <1>3, <1>4, <1>5, <1>6

\* The invariant survives kjournald2 waking on its timer.
LEMMA KjTimeoutIInv ==
  ASSUME IInv, KjTimeout
  PROVE  IInv'
<1> USE ConstantsAssumption DEF IInv, TypeOK, Tid, OptTid, B, Open, vars, journalVars,
       txVars, kjVars, procVars, diskVars, KjTimeout
<1>1. TypeOK'
  BY DEF TState, KjPc, Pc, AllKinds
<1>2. SequenceInv'
  BY DEF SequenceInv, KjInv, ProcInv
<1>3. KjInv'
  BY DEF SequenceInv, KjInv, ProcInv
<1>4. ProcInv'
  BY DEF SequenceInv, KjInv, ProcInv
<1>5. BarrierInv'
  BY DEF BarrierInv, Quiesced, Barred, Quiet, HoldsBarrier
<1>6. DiskInv'
  BY DEF SequenceInv, KjInv, DiskInv, WrittenInOrder, AckedIsWritten
<1>7. QED
  BY <1>1, <1>2, <1>3, <1>4, <1>5, <1>6

\* The invariant survives kjournald2 deciding to commit.
LEMMA KjCommitIInv ==
  ASSUME IInv, KjCommit
  PROVE  IInv'
<1> USE ConstantsAssumption DEF IInv, TypeOK, Tid, OptTid, B, Open, vars, journalVars,
       txVars, kjVars, procVars, diskVars, KjCommit
<1>1. TypeOK'
  BY DEF TState, KjPc, Pc, AllKinds
<1>2. SequenceInv'
  BY DEF SequenceInv, KjInv, ProcInv
<1>3. KjInv'
  BY DEF SequenceInv, KjInv, ProcInv
<1>4. ProcInv'
  BY DEF SequenceInv, KjInv, ProcInv
<1>5. BarrierInv'
  BY DEF BarrierInv, Quiesced, Barred, Quiet, HoldsBarrier
<1>6. DiskInv'
  BY DEF SequenceInv, KjInv, DiskInv, WrittenInOrder, AckedIsWritten
<1>7. QED
  BY <1>1, <1>2, <1>3, <1>4, <1>5, <1>6

\* The invariant survives the commit copying the dsync flag.
LEMMA CommitBeginIInv ==
  ASSUME IInv, CommitBegin
  PROVE  IInv'
<1> USE ConstantsAssumption DEF IInv, TypeOK, Tid, OptTid, B, Open, vars, journalVars,
       txVars, kjVars, procVars, diskVars, CommitBegin
<1>1. TypeOK'
  BY DEF TState, KjPc, Pc, AllKinds, SequenceInv, KjInv, ProcInv
<1>2. SequenceInv'
  BY DEF SequenceInv, KjInv, ProcInv
<1>3. KjInv'
  BY DEF SequenceInv, KjInv, ProcInv
<1>4. ProcInv'
  BY DEF SequenceInv, KjInv, ProcInv
<1>5. BarrierInv'
  BY DEF BarrierInv, Quiesced, Barred, Quiet, HoldsBarrier
<1>6. DiskInv'
  BY DEF SequenceInv, KjInv, DiskInv, WrittenInOrder, AckedIsWritten
<1>7. QED
  BY <1>1, <1>2, <1>3, <1>4, <1>5, <1>6

\* The invariant survives the commit locking the transaction.
LEMMA CommitLockIInv ==
  ASSUME IInv, CommitLock
  PROVE  IInv'
<1> USE ConstantsAssumption DEF IInv, TypeOK, Tid, OptTid, B, Open, vars, journalVars,
       txVars, kjVars, procVars, diskVars, CommitLock
<1>1. TypeOK'
  BY DEF TState, KjPc, Pc, AllKinds
<1>2. SequenceInv'
  BY DEF SequenceInv, KjInv, ProcInv
<1>3. KjInv'
  BY DEF SequenceInv, KjInv, ProcInv
<1>4. ProcInv'
  BY DEF SequenceInv, KjInv, ProcInv
<1>5. BarrierInv'
  BY DEF BarrierInv, Quiesced, Barred, Quiet, HoldsBarrier
<1>6. DiskInv'
  BY DEF SequenceInv, KjInv, DiskInv, WrittenInOrder, AckedIsWritten
<1>7. QED
  BY <1>1, <1>2, <1>3, <1>4, <1>5, <1>6

\* The invariant survives the commit switching the transaction out.
LEMMA CommitSwitchIInv ==
  ASSUME IInv, NoReaders, CommitSwitch
  PROVE  IInv'
<1> USE ConstantsAssumption DEF IInv, TypeOK, Tid, OptTid, B, Open, vars, journalVars,
       txVars, kjVars, procVars, diskVars, NoReaders, CommitSwitch,
       t_updates
<1>1. TypeOK'
  BY DEF TState, KjPc, Pc, AllKinds, SequenceInv, KjInv, ProcInv
<1>2. SequenceInv'
  BY DEF SequenceInv, KjInv, ProcInv
<1>3. KjInv'
  BY DEF SequenceInv, KjInv, ProcInv
<1>4. ProcInv'
  BY DEF SequenceInv, KjInv, ProcInv
<1>5. BarrierInv'
  BY DEF BarrierInv, Quiesced, Barred, Quiet, HoldsBarrier
<1>6. DiskInv'
  BY DEF SequenceInv, KjInv, DiskInv, WrittenInOrder, AckedIsWritten
<1>7. QED
  BY <1>1, <1>2, <1>3, <1>4, <1>5, <1>6

\* The invariant survives the commit submitting its data.
LEMMA CommitFlushIInv ==
  ASSUME IInv, CommitFlush
  PROVE  IInv'
<1> USE ConstantsAssumption DEF IInv, TypeOK, Tid, OptTid, B, Open, vars, journalVars,
       txVars, kjVars, procVars, diskVars, CommitFlush, CommitStep, Abort,
       LogStartCommit
<1>1. TypeOK'
  BY DEF TState, KjPc, Pc, AllKinds
<1>2. SequenceInv'
  BY DEF SequenceInv, KjInv, ProcInv
<1>3. KjInv'
  BY DEF SequenceInv, KjInv, ProcInv
<1>4. ProcInv'
  BY DEF SequenceInv, KjInv, ProcInv
<1>5. BarrierInv'
  BY DEF BarrierInv, Quiesced, Barred, Quiet, HoldsBarrier
<1>6. DiskInv'
  BY DEF SequenceInv, KjInv, DiskInv, WrittenInOrder, AckedIsWritten
<1>7. QED
  BY <1>1, <1>2, <1>3, <1>4, <1>5, <1>6

\* The invariant survives the commit writing its log blocks.
LEMMA CommitLogIInv ==
  ASSUME IInv, CommitLog
  PROVE  IInv'
<1> USE ConstantsAssumption DEF IInv, TypeOK, Tid, OptTid, B, Open, vars, journalVars,
       txVars, kjVars, procVars, diskVars, CommitLog, CommitStep, Abort, LogStartCommit
<1>1. TypeOK'
  BY DEF TState, KjPc, Pc, AllKinds
<1>2. SequenceInv'
  BY DEF SequenceInv, KjInv, ProcInv
<1>3. KjInv'
  BY DEF SequenceInv, KjInv, ProcInv
<1>4. ProcInv'
  BY DEF SequenceInv, KjInv, ProcInv
<1>5. BarrierInv'
  BY DEF BarrierInv, Quiesced, Barred, Quiet, HoldsBarrier
<1>6. DiskInv'
  BY DEF SequenceInv, KjInv, DiskInv, WrittenInOrder, AckedIsWritten
<1>7. QED
  BY <1>1, <1>2, <1>3, <1>4, <1>5, <1>6

\* The invariant survives the commit waiting for its log blocks.
LEMMA CommitWaitLogIInv ==
  ASSUME IInv, CommitWaitLog
  PROVE  IInv'
<1> USE ConstantsAssumption DEF IInv, TypeOK, Tid, OptTid, B, Open, vars, journalVars,
       txVars, kjVars, procVars, diskVars, CommitWaitLog, CommitStep, Abort,
       LogStartCommit
<1>1. TypeOK'
  BY DEF TState, KjPc, Pc, AllKinds
<1>2. SequenceInv'
  BY DEF SequenceInv, KjInv, ProcInv
<1>3. KjInv'
  BY DEF SequenceInv, KjInv, ProcInv
<1>4. ProcInv'
  BY DEF SequenceInv, KjInv, ProcInv
<1>5. BarrierInv'
  BY DEF BarrierInv, Quiesced, Barred, Quiet, HoldsBarrier
<1>6. DiskInv'
  BY DEF SequenceInv, KjInv, DiskInv, WrittenInOrder, AckedIsWritten
<1>7. QED
  BY <1>1, <1>2, <1>3, <1>4, <1>5, <1>6

\* The invariant survives the submission of the commit record.
LEMMA CommitSubmitIInv ==
  ASSUME IInv, CommitSubmit
  PROVE  IInv'
<1> USE ConstantsAssumption DEF IInv, TypeOK, Tid, OptTid, B, Open, vars, journalVars,
       txVars, kjVars, procVars, diskVars, CommitSubmit, Abort,
       LogStartCommit
<1>1. TypeOK'
  BY DEF TState, KjPc, Pc, AllKinds, SequenceInv, KjInv, ProcInv
<1>2. SequenceInv'
  BY DEF SequenceInv, KjInv, ProcInv
<1>3. KjInv'
  BY DEF SequenceInv, KjInv, ProcInv
<1>4. ProcInv'
  BY DEF SequenceInv, KjInv, ProcInv
<1>5. BarrierInv'
  BY DEF BarrierInv, Quiesced, Barred, Quiet, HoldsBarrier
<1>6. DiskInv'
  BY DEF SequenceInv, KjInv, DiskInv, WrittenInOrder, AckedIsWritten
<1>7. QED
  BY <1>1, <1>2, <1>3, <1>4, <1>5, <1>6

\* The invariant survives the commit record, written or not.
LEMMA CommitRecordIInv ==
  ASSUME IInv, CommitRecord
  PROVE  IInv'
<1> USE ConstantsAssumption DEF IInv, TypeOK, Tid, OptTid, B, Open, vars, journalVars,
       txVars, kjVars, procVars, diskVars, CommitRecord
<1>1. TypeOK'
  <2>1. j_committing \in Tid
    BY DEF KjInv
  <2>2. CASE UNCHANGED diskVars
    BY <2>2 DEF KjPc
  <2>3. CASE ~j_aborted /\ kj' = "barrier" /\ written' = written \cup {j_committing}
    <3>1. written' \subseteq Tid
      BY <2>1, <2>3
    <3>2. durable' \subseteq Tid
      BY <3>1
    <3>3. QED
      BY <2>3, <3>1, <3>2 DEF KjPc
  <2>4. QED
    BY <2>2, <2>3
<1>2. SequenceInv'
  BY DEF SequenceInv, KjInv, ProcInv
<1>3. KjInv'
  BY DEF SequenceInv, KjInv, ProcInv
<1>4. ProcInv'
  BY DEF SequenceInv, KjInv, ProcInv
<1>5. BarrierInv'
  BY DEF BarrierInv, Quiesced, Barred, Quiet, HoldsBarrier
<1>6. DiskInv'
  <2>1. CASE UNCHANGED diskVars /\ j_aborted
    BY <2>1 DEF SequenceInv, KjInv, DiskInv, WrittenInOrder, AckedIsWritten
  <2>2. CASE ~j_aborted /\ kj' = "barrier" /\ written' = written \cup {j_committing}
    BY <2>2, SMTT(30) DEF SequenceInv, KjInv, DiskInv, WrittenInOrder, AckedIsWritten
  <2>3. CASE kj' = "failed" /\ UNCHANGED diskVars
    BY <2>3 DEF SequenceInv, KjInv, DiskInv, WrittenInOrder, AckedIsWritten
  <2>4. QED
    BY <2>1, <2>2, <2>3
<1>7. QED
  BY <1>1, <1>2, <1>3, <1>4, <1>5, <1>6

\* The invariant survives the flush after the commit record.
LEMMA CommitBarrierIInv ==
  ASSUME IInv, CommitBarrier
  PROVE  IInv'
<1> USE ConstantsAssumption DEF IInv, TypeOK, Tid, OptTid, B, Open, vars, journalVars,
       txVars, kjVars, procVars, diskVars, CommitBarrier, IssueFlush
<1>1. TypeOK'
  BY DEF TState, KjPc, Pc, AllKinds
<1>2. SequenceInv'
  BY DEF SequenceInv, KjInv, ProcInv
<1>3. KjInv'
  BY DEF SequenceInv, KjInv, ProcInv
<1>4. ProcInv'
  BY DEF SequenceInv, KjInv, ProcInv
<1>5. BarrierInv'
  BY DEF BarrierInv, Quiesced, Barred, Quiet, HoldsBarrier
<1>6. DiskInv'
  <2>1. BARRIER => \A u \in written' : u \in durable'
    BY DEF KjInv, DiskInv
  <2>2. QED
    BY <2>1 DEF SequenceInv, KjInv, DiskInv, WrittenInOrder, AckedIsWritten
<1>7. QED
  BY <1>1, <1>2, <1>3, <1>4, <1>5, <1>6

\* The invariant survives the abort after a failed commit record.
LEMMA CommitFailedIInv ==
  ASSUME IInv, CommitFailed
  PROVE  IInv'
<1> USE ConstantsAssumption DEF IInv, TypeOK, Tid, OptTid, B, Open, vars, journalVars,
       txVars, kjVars, procVars, diskVars, CommitFailed, IssueFlush, Abort,
       LogStartCommit
<1>1. TypeOK'
  BY DEF TState, KjPc, Pc, AllKinds
<1>2. SequenceInv'
  BY DEF SequenceInv, KjInv, ProcInv
<1>3. KjInv'
  BY DEF SequenceInv, KjInv, ProcInv
<1>4. ProcInv'
  BY DEF SequenceInv, KjInv, ProcInv
<1>5. BarrierInv'
  BY DEF BarrierInv, Quiesced, Barred, Quiet, HoldsBarrier
<1>6. DiskInv'
  BY DEF SequenceInv, KjInv, DiskInv, WrittenInOrder, AckedIsWritten
<1>7. QED
  BY <1>1, <1>2, <1>3, <1>4, <1>5, <1>6

\* The invariant survives the end of the commit, which publishes its tid.
LEMMA CommitFinishIInv ==
  ASSUME IInv, CommitFinish
  PROVE  IInv'
<1> USE ConstantsAssumption DEF IInv, TypeOK, Tid, OptTid, B, Open, vars, journalVars,
       txVars, kjVars, procVars, diskVars, CommitFinish
<1>1. TypeOK'
  BY DEF TState, KjPc, Pc, AllKinds, SequenceInv, KjInv, ProcInv
<1>2. SequenceInv'
  BY DEF SequenceInv, KjInv, ProcInv
<1>3. KjInv'
  BY DEF SequenceInv, KjInv, ProcInv
<1>4. ProcInv'
  BY DEF SequenceInv, KjInv, ProcInv
<1>5. BarrierInv'
  BY DEF BarrierInv, Quiesced, Barred, Quiet, HoldsBarrier
<1>6. DiskInv'
  BY DEF SequenceInv, KjInv, DiskInv, WrittenInOrder, AckedIsWritten
<1>7. QED
  BY <1>1, <1>2, <1>3, <1>4, <1>5, <1>6

\* The disk may destage any cached commit.
LEMMA DestageIInv ==
  ASSUME IInv, NEW t \in Tid, Destage(t)
  PROVE  IInv'
  BY DEF IInv, TypeOK, Tid, OptTid, B, journalVars, txVars, kjVars, procVars, diskVars,
     Destage, SequenceInv, KjInv, ProcInv, BarrierInv, Quiesced, Barred, Quiet, HoldsBarrier,
     DiskInv, WrittenInOrder, AckedIsWritten

\* Every step of every process, of kjournald2, of the timer and of the disk
\* keeps the invariant.
LEMMA NextIInv == IInv /\ [Next]_vars => IInv'
<1> SUFFICES ASSUME IInv, [Next]_vars PROVE IInv'
  OBVIOUS
<1>1. ASSUME NEW p \in Proc, ProcStep(p) PROVE IInv'
  BY <1>1, StartAbortedIInv, NoTransactionIInv, GetTransactionIInv, StartReserveIInv,
     StartJoinIInv, StartNoSpaceIInv, StartFullIInv, FullWakeIInv, RequestCommitIInv,
     JournalExtendIInv, ExtendDeniedIInv, JournalStopIInv, DropUpdateIInv,
     WaitCommitIInv, LockCheckIInv, LockSleepIInv, LockBarrierIInv,
     JournalFlushIInv, UnlockUpdatesIInv DEF ProcStep
<1>2. ASSUME NEW p \in Proc, Call(p) PROVE IInv'
  BY <1>2, JournalStartIInv, StartCommitIInv, SyncFileTidIInv,
     ForceCommitNestedIInv, UseCreditIInv, ExtendCheckIInv, JournalRestartIInv,
     LockUpdatesIInv DEF Call
<1>3. CASE Expire
  BY <1>3, ExpireIInv
<1>4. CASE Kjournald
  BY <1>4, KjTimeoutIInv, KjCommitIInv, CommitBeginIInv, CommitLockIInv,
     CommitSwitchIInv, CommitFlushIInv, CommitLogIInv, CommitSubmitIInv,
     CommitWaitLogIInv, CommitRecordIInv, CommitBarrierIInv, CommitFailedIInv,
     CommitFinishIInv DEF Kjournald
<1>5. ASSUME NEW t \in Tid, Destage(t) PROVE IInv'
  BY <1>5, DestageIInv
<1>6. CASE UNCHANGED vars
  BY <1>6 DEF IInv, TypeOK, SequenceInv, KjInv, ProcInv, BarrierInv, Quiesced, Barred, Quiet,
     HoldsBarrier, DiskInv, WrittenInOrder, AckedIsWritten, vars, journalVars, txVars,
     kjVars, procVars, diskVars
<1>7. QED
  BY <1>1, <1>2, <1>3, <1>4, <1>5, <1>6 DEF Next

\* The inductive invariant holds in every state the journal reaches.
THEOREM Inductive == Spec => []IInv
<1>1. QED
  BY InitIInv, NextIInv, PTL DEF Spec

\* Type correctness: transaction ids, states, credits and the positions of
\* kjournald2 and of every process stay in their ranges.
THEOREM TypeCorrect == Spec => []TypeOK
<1>1. IInv => TypeOK
  BY DEF IInv
<1>2. QED
  BY <1>1, Inductive, PTL

\* The opening assertions of jbdbf_journal_commit_transaction never fail.
THEOREM CommitFindsTransaction == Spec => []CommitHasTransaction
<1>1. IInv => CommitHasTransaction
  BY DEF IInv, KjInv, CommitHasTransaction
<1>2. QED
  BY <1>1, Inductive, PTL

\* A handle from start_this_handle belongs to the running transaction until
\* jbdbf_journal_stop or a restart gives it up, whatever the commit does.
THEOREM HandlesStayOnRunning == Spec => []HandlesOnRunning
<1>1. IInv => HandlesOnRunning
  BY DEF IInv, ProcInv, HandlesOnRunning, Open
<1>2. QED
  BY <1>1, Inductive, PTL

\* While jbdbf_journal_lock_updates has updates locked out, and until they are
\* unlocked, no handle is open, and only one caller has the journal to itself.
THEOREM UpdatesLockedOut == Spec => []Quiesced
<1>1. IInv => Quiesced
  BY DEF IInv, BarrierInv
<1>2. QED
  BY <1>1, Inductive, PTL

\* Nobody in jbdbf_log_wait_commit waits for a commit that nobody will make.
THEOREM NoRequestLost == Spec => []RequestNotLost
<1>1. IInv => RequestNotLost
  <2> SUFFICES ASSUME IInv, NEW p \in Proc, pc[p] = "wait",
                      ~(h_tid[p] <= j_commit_sequence), h_tid[p] # j_committing
               PROVE  h_tid[p] = j_running /\ j_commit_request = j_running
    BY DEF RequestNotLost
  <2>1. /\ h_tid[p] \in Int /\ j_running \in Int /\ j_committing \in Int
        /\ j_sequence \in Int /\ j_commit_sequence \in Int
    BY ConstantsAssumption DEF IInv, TypeOK, OptTid
  <2>2. h_tid[p] < j_sequence
    BY DEF IInv, ProcInv
  <2>3. h_tid[p] = j_running
    BY <2>1, <2>2 DEF IInv, SequenceInv, B
  <2>4. QED
    BY <2>3 DEF IInv, ProcInv
<1>2. QED
  BY <1>1, Inductive, PTL

\* Commit records are written in the order of the transactions.
THEOREM CommitsWrittenInOrder == Spec => []WrittenInOrder
<1>1. IInv => WrittenInOrder
  BY DEF IInv, DiskInv
<1>2. QED
  BY <1>1, Inductive, PTL

\* A call that returned success had its transaction, and all earlier ones,
\* written.
THEOREM AcknowledgedWritten == Spec => []AckedIsWritten
<1>1. IInv => AckedIsWritten
  BY DEF IInv, DiskInv
<1>2. QED
  BY <1>1, Inductive, PTL

\* With barriers on, a dsync that returned success is on the platter whatever
\* other calls, timers and failures did: the part of the promise of dsync that
\* does not depend on t_durable_commit.
THEOREM DsyncWithBarriers ==
  ASSUME BARRIER PROVE Spec => []DsyncDurable
<1>1. IInv => DsyncDurable
  BY ConstantsAssumption DEF IInv, TypeOK, Tid, OptTid, B, SequenceInv, KjInv,
     DiskInv, AckedIsWritten, DsyncDurable
<1>2. QED
  BY <1>1, Inductive, PTL

\* jbdbf_journal_commit_transaction publishes commits one by one, none ahead of
\* a request.
THEOREM CommitSequenceSteps == Spec => CommitsOneByOne
<1>1. ASSUME IInv, [Next]_vars
      PROVE  [ /\ j_commit_sequence' = j_commit_sequence + 1
               /\ j_commit_sequence' <= j_commit_request' ]_j_commit_sequence
  <2>1. CASE CommitFinish
    <3>1. /\ j_running \in Int /\ j_committing \in Int
          /\ j_sequence \in Int /\ j_commit_sequence \in Int
      BY <1>1, ConstantsAssumption DEF IInv, TypeOK, OptTid
    <3>2. j_committing # 0 /\ kj = "finish"
      BY <1>1, <2>1 DEF CommitFinish, IInv, KjInv
    <3>3. j_committing = j_commit_sequence + 1
      BY <1>1, <3>1, <3>2 DEF IInv, SequenceInv, B
    <3>4. j_commit_request >= j_committing
      BY <1>1, <3>1, <3>2 DEF IInv, SequenceInv, KjInv, B
    <3>5. QED
      BY <2>1, <3>3, <3>4 DEF CommitFinish
  <2>2. CASE ~CommitFinish
    BY <1>1, <2>2, ZenonT(30) DEF Next, ProcStep, Call, Kjournald, vars, journalVars,
       StartAborted, NoTransaction, GetTransaction, StartReserve, StartJoin,
       StartNoSpace, StartFull, FullWake,
       RequestCommit, JournalStop, DropUpdate, WaitCommit, JournalStart,
       StartCommit, SyncFileTid, ForceCommitNested, UseCredit, ExtendCheck,
       JournalExtend, ExtendDenied,
       JournalRestart, LockStep, LockUpdates, LockCheck, LockSleep, LockBarrier,
       JournalFlush, UnlockUpdates, Expire, KjTimeout, KjCommit, CommitBegin, CommitLock,
       CommitSwitch, CommitFlush, CommitLog, CommitSubmit, CommitWaitLog, CommitStep,
       CommitRecord, CommitBarrier, CommitFailed, Destage
  <2>3. QED
    BY <2>1, <2>2
<1>2. QED
  BY <1>1, Inductive, PTL DEF Spec, CommitsOneByOne

-----------------------------------------------------------------------------
(* Credits *)

\* An account without what is about to be taken back.
Booked(t) == t_credits[t] - Cardinality(Excess(t))

\* Only an active handle has credits, only one extension is under way, and what
\* it found room for still fits up to the limit and one.
CreditInv ==
  /\ \A p \in Proc : h_credits[p] # 0 => pc[p] = "active"
  /\ \A p, q \in Proc : (pc[p] = "extend" /\ pc[q] = "extend") => p = q
  /\ \A t \in Tid : /\ IsFiniteSet(Holders(t)) /\ IsFiniteSet(Excess(t))
                    /\ Cardinality(Holders(t)) <= Booked(t)
                    /\ Booked(t) <= MaxCredits + 1
  /\ \A p \in Proc : (pc[p] = "extend" /\ h_tid[p] \in Tid) => Booked(h_tid[p]) <= MaxCredits

\* Only p moves, as far as the accounts are concerned.
Others(p) ==
  \A q \in Proc \ {p} :
    /\ h_credits'[q] = h_credits[q] /\ h_tid'[q] = h_tid[q]
    /\ pc'[q] = pc[q] \/ (pc[q] = "asleep" /\ pc'[q] = "lock")

\* One process enters or leaves a finite set.
LEMMA OneMoves ==
  ASSUME NEW S, NEW T, NEW p, IsFiniteSet(S), S \ {p} = T \ {p}
  PROVE  /\ IsFiniteSet(T) /\ Cardinality(S) \in Nat /\ Cardinality(T) \in Nat
         /\ Cardinality(T) = Cardinality(S) + B(p \in T) - B(p \in S)
<1>1. Cardinality(S) \in Nat
  BY FS_CardinalityType
<1>2. CASE p \in S /\ p \in T
  <2>1. T = S
    BY <1>2
  <2> QED
    BY <1>1, <1>2, <2>1 DEF B
<1>3. CASE p \in S /\ p \notin T
  <2>1. T = S \ {p}
    BY <1>3
  <2> QED
    BY <1>1, <1>3, <2>1, FS_RemoveElement, FS_CardinalityType DEF B
<1>4. CASE p \notin S /\ p \in T
  <2>1. T = S \cup {p}
    BY <1>4
  <2> QED
    BY <1>1, <1>4, <2>1, FS_AddElement, FS_CardinalityType DEF B
<1>5. CASE p \notin S /\ p \notin T
  <2>1. T = S
    BY <1>5
  <2> QED
    BY <1>1, <1>5, <2>1 DEF B
<1> QED
  BY <1>2, <1>3, <1>4, <1>5

\* A step of p that adds n to what is booked on a: at least what it then has, and
\* nothing, or a credit that it finds to fit, or the extension.
Books(p, a, n) ==
  /\ Others(p) /\ t_credits' \in [Tid -> Int]
  /\ h_credits'[p] # 0 => pc'[p] = "active"
  /\ \A t \in Tid \ {a} : /\ t_credits'[t] = t_credits[t]
                          /\ (p \in Holders(t))' => p \in Holders(t)
                          /\ (p \in Excess(t))' <=> p \in Excess(t)
  /\ t_credits'[a] = t_credits[a] + n + B((p \in Excess(a))') - B(p \in Excess(a))
  /\ n >= B((p \in Holders(a))') - B(p \in Holders(a))
  /\ \/ n <= 0
     \/ n = 1 /\ t_credits'[a] <= MaxCredits
     \/ n = 1 /\ pc[p] = "extend" /\ h_tid[p] = a /\ pc'[p] # "extend"
  /\ pc'[p] = "extend" =>
        /\ h_tid'[p] = h_tid[p]
        /\ \/ pc[p] = "extend" /\ n <= 0
           \/ h_tid[p] = a /\ HandleLockFree /\ t_credits'[a] + 1 <= MaxCredits

\* It keeps the accounts.
LEMMA OneBooks ==
  ASSUME IInv, CreditInv, NEW p \in Proc, NEW a \in Tid, NEW n \in Int, Books(p, a, n)
  PROVE  CreditInv'
<1> USE DEF Books
<1>1. ASSUME NEW t \in Tid
      PROVE  /\ IsFiniteSet(Holders(t)') /\ IsFiniteSet(Excess(t)')
             /\ Cardinality(Holders(t)) \in Nat /\ Cardinality(Holders(t)') \in Nat
             /\ Cardinality(Excess(t)) \in Nat /\ Cardinality(Excess(t)') \in Nat
             /\ Cardinality(Holders(t)') =
                   Cardinality(Holders(t)) + B(p \in Holders(t)') - B(p \in Holders(t))
             /\ Cardinality(Excess(t)') =
                   Cardinality(Excess(t)) + B(p \in Excess(t)') - B(p \in Excess(t))
  <2>1. Holders(t) \ {p} = Holders(t)' \ {p} /\ Excess(t) \ {p} = Excess(t)' \ {p}
    BY DEF Holders, Excess, Others
  <2>2. IsFiniteSet(Holders(t)) /\ IsFiniteSet(Excess(t))
    BY DEF CreditInv
  <2> QED
    BY <2>1, <2>2, OneMoves
<1>2. /\ MaxCredits \in Int
      /\ \A t \in Tid : t_credits[t] \in Int /\ t_credits'[t] \in Int
  BY ConstantsAssumption DEF IInv, TypeOK
<1>3. \A q \in Proc : h_credits'[q] # 0 => pc'[q] = "active"
  BY DEF Others, CreditInv
<1>4. \A q, r \in Proc : (pc'[q] = "extend" /\ pc'[r] = "extend") => q = r
  BY DEF Others, CreditInv, HandleLockFree
<1>5. \A t \in Tid : Booked(t) \in Int /\ Booked(t)' \in Int
  BY <1>1, <1>2 DEF Booked
<1>6. ASSUME NEW t \in Tid
      PROVE  Booked(t)' = Booked(t) + (IF t = a THEN n ELSE 0)
  BY <1>1, <1>2 DEF Booked, B
<1>7. Booked(a)' <= t_credits'[a]
  BY <1>1, <1>2 DEF Booked
<1>8. ASSUME NEW t \in Tid
      PROVE  Cardinality(Holders(t)') <= Booked(t)' /\ Booked(t)' <= MaxCredits + 1
  <2>1. /\ Cardinality(Holders(t)) <= Booked(t) /\ Booked(t) <= MaxCredits + 1
        /\ (pc[p] = "extend" /\ h_tid[p] = t) => Booked(t) <= MaxCredits
    BY DEF CreditInv
  <2>2. CASE t = a
    BY <1>1, <1>2, <1>5, <1>6, <1>7, <2>1, <2>2 DEF B
  <2>3. CASE t # a
    BY <1>1, <1>2, <1>5, <1>6, <2>1, <2>3 DEF B
  <2> QED
    BY <2>2, <2>3
<1>9. ASSUME NEW q \in Proc, pc'[q] = "extend", h_tid'[q] \in Tid
      PROVE  (Booked(h_tid[q]) <= MaxCredits)'
  <2>1. CASE q = p /\ pc[p] # "extend"
    <3>1. h_tid'[q] = a /\ t_credits'[a] + 1 <= MaxCredits
      BY <1>9, <2>1
    <3>2. Booked(a)' <= MaxCredits
      BY <1>2, <1>5, <1>7, <3>1
    <3> QED
      BY <3>1, <3>2 DEF Booked, Excess
  <2>2. CASE pc[q] = "extend" /\ h_tid'[q] = h_tid[q]
    <3>1. Booked(h_tid[q]) <= MaxCredits
      BY <1>9, <2>2 DEF CreditInv
    <3>2. (pc[p] = "extend" /\ pc'[p] # "extend") => FALSE
      BY <1>9, <2>2 DEF CreditInv
    <3>3. ASSUME NEW t \in Tid, t = h_tid[q] PROVE Booked(t)' <= MaxCredits
      BY <1>2, <1>5, <1>6, <1>7, <1>9, <2>2, <3>1, <3>2, <3>3
    <3> QED
      BY <1>9, <2>2, <3>3 DEF Booked, Excess
  <2> QED
    BY <1>9, <2>1, <2>2 DEF Others
<1> QED
  BY <1>1, <1>3, <1>4, <1>8, <1>9 DEF CreditInv, Booked

\* The accounts balance at first.
LEMMA InitCredits == Init => CreditInv
<1> SUFFICES ASSUME Init PROVE CreditInv
  OBVIOUS
<1>1. \A t \in Tid : Holders(t) = {} /\ Excess(t) = {}
  BY DEF Init, Holders, Excess
<1> QED
  BY <1>1, FS_EmptySet, ConstantsAssumption DEF Init, CreditInv, Booked

\* A step that gives out no credits and leaves the accounts alone.
Frugal(p) ==
  /\ Others(p) /\ t_credits' = t_credits
  /\ pc[p] # "excess" /\ pc'[p] # "excess" /\ pc'[p] # "extend"
  /\ pc'[p] = "reserved" \/ h_credits'[p] # 0 =>
       /\ pc[p] = "reserved" \/ h_credits[p] # 0
       /\ h_tid'[p] = h_tid[p] /\ pc'[p] = "active"

\* It keeps the accounts.
LEMMA FrugalCredits ==
  ASSUME IInv, CreditInv, NEW p \in Proc, Frugal(p)
  PROVE  CreditInv'
<1>1. 1 \in Tid /\ t_credits' \in [Tid -> Int]
  BY ConstantsAssumption DEF Frugal, IInv, TypeOK, Tid
<1>2. \A t \in Tid : /\ p \notin Excess(t) /\ p \notin Excess(t)'
                     /\ p \in Holders(t)' => p \in Holders(t)
                     /\ t_credits'[t] = t_credits[t] /\ t_credits[t] \in Int
  BY DEF Frugal, Holders, Excess, IInv, TypeOK
<1>3. /\ t_credits'[1] = t_credits[1] + 0 + B((p \in Excess(1))') - B(p \in Excess(1))
      /\ 0 >= B((p \in Holders(1))') - B(p \in Holders(1))
  BY <1>1, <1>2 DEF B
<1>4. Books(p, 1, 0)
  BY <1>1, <1>2, <1>3 DEF Frugal, Books
<1> QED
  BY <1>1, <1>4, OneBooks

\* A new transaction starts with an empty account, and nobody has a handle on it.
LEMMA NewCredits ==
  ASSUME IInv, CreditInv, NEW p \in Proc, GetTransaction(p)
  PROVE  CreditInv'
<1> USE DEF IInv, TypeOK
<1>1. CASE j_running # 0
  <2>1. Frugal(p)
    BY <1>1 DEF GetTransaction, Goto, Frugal, Others, CreditInv, txVars
  <2> QED
    BY <2>1, FrugalCredits
<1>2. CASE j_running = 0
  <2>1. /\ \A q \in Proc : h_credits'[q] = h_credits[q] /\ h_tid'[q] = h_tid[q]
        /\ \A q \in Proc \ {p} : pc'[q] = pc[q]
        /\ pc[p] = "alloc" /\ pc'[p] = "start"
    BY <1>2 DEF GetTransaction, Goto
  <2>2. \A u \in Tid : Holders(u)' = Holders(u) /\ Excess(u)' = Excess(u)
    BY <2>1 DEF Holders, Excess
  <2>3. \A q \in Proc : h_tid[q] < j_sequence /\ h_tid[q] # j_sequence
    BY ConstantsAssumption DEF ProcInv, OptTid
  <2>4. ASSUME NEW u \in Tid
        PROVE  /\ Cardinality(Holders(u)') <= Booked(u)' /\ Booked(u)' <= MaxCredits + 1
               /\ u # j_sequence => Booked(u)' = Booked(u)
    <3>1. CASE u = j_sequence
      <4>1. Holders(u) = {} /\ Excess(u) = {}
        BY <2>3, <3>1 DEF Holders, Excess
      <4>2. t_credits'[u] = 0
        BY <1>2, <3>1 DEF GetTransaction
      <4>3. Cardinality(Holders(u)') = 0 /\ Cardinality(Excess(u)') = 0
        BY <2>2, <4>1, FS_EmptySet
      <4>4. Booked(u)' = 0
        BY <4>2, <4>3 DEF Booked
      <4> QED
        BY <3>1, <4>3, <4>4, ConstantsAssumption
    <3>2. CASE u # j_sequence
      <4>1. t_credits'[u] = t_credits[u]
        BY <1>2, <3>2 DEF GetTransaction
      <4>2. Booked(u)' = Booked(u)
        BY <2>2, <4>1 DEF Booked
      <4> QED
        BY <2>2, <4>2 DEF CreditInv
    <3> QED
      BY <3>1, <3>2
  <2> QED
    BY <2>1, <2>2, <2>3, <2>4 DEF CreditInv
<1> QED
  BY <1>1, <1>2

\* The accounts survive start_this_handle adding its credits, and taking them back
\* because the log or the transaction is full.
LEMMA ReserveCredits ==
  ASSUME IInv, CreditInv, NEW p \in Proc, StartReserve(p)
  PROVE  CreditInv'
<1> USE DEF IInv, TypeOK
<1>0. PICK a \in Tid : a = j_running
  BY ConstantsAssumption DEF StartReserve, Tid, OptTid
<1>1. h_credits[p] = 0 /\ pc[p] = "start"
  BY DEF StartReserve, CreditInv
<1>2. /\ Others(p) /\ h_credits'[p] = 0 /\ h_tid'[p] = a
      /\ pc'[p] = IF t_credits[a] + 1 > MaxCredits THEN "excess" ELSE "reserved"
      /\ t_credits' \in [Tid -> Int] /\ t_credits'[a] = t_credits[a] + 1
      /\ t_credits[a] \in Int /\ MaxCredits \in Int
      /\ \A t \in Tid \ {a} : t_credits'[t] = t_credits[t]
  BY <1>0, <1>1, ConstantsAssumption DEF StartReserve, Others, Goto
<1>3. \A t \in Tid : p \notin Holders(t) /\ p \notin Excess(t)
  BY <1>0, <1>1 DEF Holders, Excess
<1>4. \A t \in Tid \ {a} : p \notin Holders(t)' /\ p \notin Excess(t)'
  BY <1>0, <1>2 DEF Holders, Excess
<1>5. CASE t_credits[a] + 1 > MaxCredits
  <2>1. p \in Excess(a)' /\ p \notin Holders(a)'
    BY <1>0, <1>2, <1>5 DEF Holders, Excess
  <2>2. /\ t_credits'[a] = t_credits[a] + 0 + B((p \in Excess(a))') - B(p \in Excess(a))
        /\ 0 >= B((p \in Holders(a))') - B(p \in Holders(a))
    BY <1>0, <1>1, <1>2, <1>3, <2>1 DEF B
  <2>8. Books(p, a, 0)
    BY <1>0, <1>1, <1>2, <1>3, <1>4, <1>5, <2>1, <2>2 DEF Books
  <2> QED
    BY <2>8, OneBooks
<1>6. CASE ~(t_credits[a] + 1 > MaxCredits)
  <2>1. p \notin Excess(a)' /\ p \in Holders(a)'
    BY <1>0, <1>2, <1>6 DEF Holders, Excess
  <2>2. /\ t_credits'[a] = t_credits[a] + 1 + B((p \in Excess(a))') - B(p \in Excess(a))
        /\ 1 >= B((p \in Holders(a))') - B(p \in Holders(a))
        /\ t_credits'[a] <= MaxCredits
    BY <1>0, <1>1, <1>2, <1>3, <1>6, <2>1 DEF B
  <2>8. Books(p, a, 1)
    BY <1>0, <1>1, <1>2, <1>3, <1>4, <1>6, <2>1, <2>2 DEF Books
  <2> QED
    BY <2>8, OneBooks
<1> QED
  BY <1>5, <1>6

LEMMA UnreserveCredits ==
  ASSUME IInv, CreditInv, NEW p \in Proc, StartNoSpace(p) \/ StartFull(p)
  PROVE  CreditInv'
<1> USE DEF IInv, TypeOK
<1>0. PICK a \in Tid : a = h_tid[p]
  BY ConstantsAssumption DEF StartNoSpace, StartFull, ExtendCheck, JournalExtend,
     ExtendDenied, JournalRestart, JournalStop, ProcInv, Open, Tid, OptTid
<1>1. h_credits[p] = 0 /\ pc[p] \in {"reserved", "excess"}
  BY ConstantsAssumption DEF StartNoSpace, StartFull, CreditInv, ProcInv, Tid, OptTid
<1>2. /\ Others(p) /\ h_credits'[p] = 0
      /\ pc'[p] \in {"start", "request", "full"}
      /\ t_credits' \in [Tid -> Int] /\ t_credits'[a] = t_credits[a] - 1
      /\ t_credits[a] \in Int
      /\ \A t \in Tid \ {a} : t_credits'[t] = t_credits[t]
  BY <1>0, <1>1 DEF StartNoSpace, StartFull, Unreserve, Others, Goto
<1>3. \A t \in Tid : p \notin Holders(t)' /\ p \notin Excess(t)'
  BY <1>0, <1>2 DEF Holders, Excess
<1>4. \A t \in Tid \ {a} : p \notin Holders(t) /\ p \notin Excess(t)
  BY <1>0 DEF Holders, Excess
<1>5. CASE pc[p] = "excess"
  <2>1. p \in Excess(a) /\ p \notin Holders(a)
    BY <1>0, <1>1, <1>5 DEF Holders, Excess
  <2>2. /\ t_credits'[a] = t_credits[a] + 0 + B((p \in Excess(a))') - B(p \in Excess(a))
        /\ 0 >= B((p \in Holders(a))') - B(p \in Holders(a))
    BY <1>0, <1>1, <1>2, <1>3, <2>1 DEF B
  <2>8. Books(p, a, 0)
    BY <1>0, <1>1, <1>2, <1>3, <1>4, <2>1, <2>2 DEF Books
  <2> QED
    BY <2>8, OneBooks
<1>6. CASE pc[p] = "reserved"
  <2>1. p \notin Excess(a) /\ p \in Holders(a)
    BY <1>0, <1>1, <1>6 DEF Holders, Excess
  <2>2. /\ t_credits'[a] = t_credits[a] + (0 - 1) + B((p \in Excess(a))') - B(p \in Excess(a))
        /\ 0 - 1 >= B((p \in Holders(a))') - B(p \in Holders(a))
    BY <1>0, <1>1, <1>2, <1>3, <2>1 DEF B
  <2>8. Books(p, a, 0 - 1)
    BY <1>0, <1>1, <1>2, <1>3, <1>4, <2>1, <2>2 DEF Books
  <2> QED
    BY <2>8, OneBooks
<1> QED
  BY <1>0, <1>1, <1>5, <1>6

\* The accounts survive jbdbf_journal_extend finding room, and adding later.
LEMMA ExtendCredits ==
  ASSUME IInv, CreditInv, NEW p \in Proc, ExtendCheck(p) \/ JournalExtend(p) \/ ExtendDenied(p)
  PROVE  CreditInv'
<1> USE DEF IInv, TypeOK
<1>0. PICK a \in Tid : a = h_tid[p]
  BY ConstantsAssumption DEF StartNoSpace, StartFull, ExtendCheck, JournalExtend,
     ExtendDenied, JournalRestart, JournalStop, ProcInv, Open, Tid, OptTid
<1>1. h_credits[p] = 0 /\ pc[p] \in {"active", "extend"} /\ h_tid' = h_tid
  BY ConstantsAssumption DEF ExtendCheck, JournalExtend, ExtendDenied, CreditInv, ProcInv,
     Open, Tid, OptTid
<1>2. t_credits[a] \in Int /\ MaxCredits \in Int
  BY <1>0, <1>1, ConstantsAssumption
<1>3. \A t \in Tid : p \notin Holders(t) /\ p \notin Excess(t)
  BY <1>0, <1>1 DEF Holders, Excess
<1>4. CASE ExtendCheck(p) \/ ExtendDenied(p)
  <2>1. /\ Others(p) /\ h_credits'[p] = 0 /\ t_credits' = t_credits
        /\ pc'[p] \in {"active", "extend"}
        /\ pc'[p] = "extend" => HandleLockFree /\ t_credits'[a] + 1 <= MaxCredits
    BY <1>0, <1>1, <1>4 DEF ExtendCheck, ExtendDenied, Others, Goto, txVars
  <2>2. \A t \in Tid : p \notin Holders(t)' /\ p \notin Excess(t)'
    BY <2>1 DEF Holders, Excess
  <2>3. /\ t_credits'[a] = t_credits[a] + 0 + B((p \in Excess(a))') - B(p \in Excess(a))
        /\ 0 >= B((p \in Holders(a))') - B(p \in Holders(a))
    BY <1>0, <1>1, <1>2, <1>3, <2>1, <2>2 DEF B
  <2>4. t_credits' \in [Tid -> Int] /\ \A t \in Tid \ {a} : t_credits'[t] = t_credits[t]
    BY <2>1
  <2>8. Books(p, a, 0)
    BY <1>0, <1>1, <1>2, <1>3, <2>1, <2>2, <2>3, <2>4 DEF Books
  <2> QED
    BY <2>8, OneBooks
<1>5. CASE JournalExtend(p)
  <2>1. /\ Others(p) /\ h_credits'[p] = 1 /\ pc[p] = "extend" /\ pc'[p] = "active"
        /\ t_credits' \in [Tid -> Int] /\ t_credits'[a] = t_credits[a] + 1
        /\ \A t \in Tid \ {a} : t_credits'[t] = t_credits[t]
    BY <1>0, <1>1, <1>2, <1>5 DEF JournalExtend, Others, Goto
  <2>2. /\ \A t \in Tid : p \notin Excess(t)'
        /\ \A t \in Tid \ {a} : p \notin Holders(t)'
        /\ p \in Holders(a)'
    BY <1>0, <1>1, <2>1 DEF Holders, Excess
  <2>3. /\ t_credits'[a] = t_credits[a] + 1 + B((p \in Excess(a))') - B(p \in Excess(a))
        /\ 1 >= B((p \in Holders(a))') - B(p \in Holders(a))
    BY <1>0, <1>1, <1>2, <1>3, <2>1, <2>2 DEF B
  <2>8. Books(p, a, 1)
    BY <1>0, <1>1, <1>2, <1>3, <2>1, <2>2, <2>3 DEF Books
  <2> QED
    BY <2>8, OneBooks
<1> QED
  BY <1>4, <1>5

\* A handle that stops or is restarted returns what it has not used.
LEMMA ReturnCredits ==
  ASSUME IInv, CreditInv, NEW p \in Proc, JournalRestart(p) \/ JournalStop(p)
  PROVE  CreditInv'
<1> USE DEF IInv, TypeOK
<1>0. PICK a \in Tid : a = h_tid[p]
  BY ConstantsAssumption DEF StartNoSpace, StartFull, ExtendCheck, JournalExtend,
     ExtendDenied, JournalRestart, JournalStop, ProcInv, Open, Tid, OptTid
<1>1. h_credits[p] \in {0, 1} /\ pc[p] = "active" /\ h_tid' = h_tid
  BY ConstantsAssumption DEF JournalRestart, JournalStop, ProcInv, Open, Tid, OptTid
<1>2. t_credits[a] \in Int
  BY <1>0, <1>1
<1>3. /\ Others(p) /\ h_credits'[p] = 0 /\ pc'[p] \in {"restart", "start", "ask", "stop"}
      /\ t_credits' \in [Tid -> Int] /\ t_credits'[a] = t_credits[a] - h_credits[p]
      /\ \A t \in Tid \ {a} : t_credits'[t] = t_credits[t]
  BY <1>0, <1>1, <1>2 DEF JournalRestart, JournalStop, Others, Goto, GotoWaking
<1>4. /\ \A t \in Tid : p \notin Excess(t) /\ p \notin Excess(t)' /\ p \notin Holders(t)'
      /\ p \in Holders(a) <=> h_credits[p] = 1
  BY <1>0, <1>1, <1>3 DEF Holders, Excess
<1>5. /\ t_credits'[a] = t_credits[a] + (0 - h_credits[p]) + B((p \in Excess(a))') - B(p \in Excess(a))
      /\ 0 - h_credits[p] >= B((p \in Holders(a))') - B(p \in Holders(a))
      /\ 0 - h_credits[p] \in Int /\ 0 - h_credits[p] <= 0
  BY <1>0, <1>1, <1>2, <1>3, <1>4 DEF B
<1>8. Books(p, a, 0 - h_credits[p])
  BY <1>0, <1>1, <1>2, <1>3, <1>4, <1>5 DEF Books
<1> QED
  BY <1>8, <1>5, OneBooks

\* Every step keeps the accounts.
LEMMA NextCredits == IInv /\ CreditInv /\ [Next]_vars => CreditInv'
<1> SUFFICES ASSUME IInv, CreditInv, [Next]_vars PROVE CreditInv'
  OBVIOUS
<1> USE DEF IInv, TypeOK, journalVars, txVars, kjVars, procVars
<1>1. ASSUME NEW p \in Proc,
             StartAborted(p) \/ NoTransaction(p) \/ FullWake(p)
             \/ RequestCommit(p) \/ WaitCommit(p) \/ LockCheck(p) \/ LockSleep(p)
             \/ LockBarrier(p) \/ JournalFlush(p) \/ UnlockUpdates(p) \/ JournalStart(p)
             \/ StartCommit(p) \/ SyncFileTid(p) \/ ForceCommitNested(p) \/ LockUpdates(p)
      PROVE  CreditInv'
  <2>1. pc[p] \notin {"active", "reserved", "excess", "extend"} /\ h_credits[p] = 0
    BY <1>1 DEF CreditInv, StartAborted, NoTransaction, FullWake, RequestCommit, WaitCommit,
       LockCheck, LockSleep, LockBarrier, LockStep, JournalFlush, UnlockUpdates, JournalStart,
       StartCommit, SyncFileTid, ForceCommitNested, LockUpdates
  <2>2. /\ t_credits' = t_credits /\ h_credits'[p] = 0
        /\ pc'[p] \notin {"reserved", "excess", "extend"}
        /\ \A q \in Proc \ {p} : h_credits'[q] = h_credits[q] /\ h_tid'[q] = h_tid[q] /\ pc'[q] = pc[q]
    BY <1>1, <2>1 DEF StartAborted, NoTransaction, FullWake, RequestCommit, WaitCommit,
       LockCheck, LockSleep, LockBarrier, LockStep, JournalFlush, UnlockUpdates, JournalStart,
       StartCommit, SyncFileTid, ForceCommitNested, LockUpdates, Return, Free, Goto
  <2>3. Frugal(p)
    BY <2>1, <2>2 DEF Frugal, Others
  <2> QED
    BY <2>3, FrugalCredits
<1>2. ASSUME NEW p \in Proc, DropUpdate(p) \/ UseCredit(p) \/ StartJoin(p) PROVE CreditInv'
  <2>1. Frugal(p)
    BY <1>2 DEF DropUpdate, UseCredit, StartJoin, GotoWaking, Goto, Free, Frugal, Others,
       CreditInv
  <2> QED
    BY <2>1, FrugalCredits
<1>3. CASE Expire \/ Kjournald \/ (\E t \in Tid : Destage(t)) \/ UNCHANGED vars
  <2>1. UNCHANGED <<t_credits, h_credits, h_tid, pc>>
    BY <1>3 DEF Expire, Kjournald, Destage, vars, KjTimeout, KjCommit, CommitBegin, CommitLock,
       CommitSwitch, CommitFlush, CommitLog, CommitSubmit, CommitWaitLog, CommitStep,
       CommitRecord, CommitBarrier, CommitFailed, CommitFinish
  <2> QED
    BY <2>1 DEF CreditInv, Booked, Holders, Excess
<1> QED
  BY <1>1, <1>2, <1>3, NewCredits, ReserveCredits, UnreserveCredits, ExtendCredits,
     ReturnCredits DEF Next, ProcStep, Call

\* CreditsBounded: whatever handles start, are extended, restarted and stopped, the
\* account of a transaction covers what its handles have left, and exceeds the size
\* of a transaction by no more than one extension that raced with handles starting.
THEOREM CreditsStayBounded == Spec => []CreditsBounded
<1>1. IInv /\ CreditInv => CreditsBounded
  <2> SUFFICES ASSUME IInv, CreditInv, NEW t \in Tid
               PROVE  t_credits[t] - Cardinality(Excess(t))
                         \in Cardinality(Holders(t))..(MaxCredits + 1)
    BY DEF CreditsBounded
  <2>1. /\ IsFiniteSet(Holders(t)) /\ IsFiniteSet(Excess(t)) /\ t_credits[t] \in Int
        /\ Cardinality(Holders(t)) <= Booked(t) /\ Booked(t) <= MaxCredits + 1
    BY DEF CreditInv, IInv, TypeOK
  <2>2. Cardinality(Holders(t)) \in Nat /\ Cardinality(Excess(t)) \in Nat
    BY <2>1, FS_CardinalityType
  <2> QED
    BY <2>1, <2>2, ConstantsAssumption DEF Booked
<1>2. Init => CreditInv
  BY InitCredits
<1>3. IInv /\ CreditInv /\ [Next]_vars => CreditInv'
  BY NextCredits
<1> QED
  BY <1>1, <1>2, <1>3, Inductive, PTL DEF Spec

-----------------------------------------------------------------------------
(* JournalCommit implements OrderedJournal: initial states map to initial     *)
(* states, and under the inductive invariant every step maps to a step of     *)
(* OrderedJournal or leaves its variables alone.                              *)

\* What the variables of OrderedJournal are computed from.
promiseVars == <<written, durable, acked, j_aborted>>

\* A step that leaves these alone leaves the variables of OrderedJournal alone.
LEMMA StutterMaps ==
  ASSUME UNCHANGED promiseVars
  PROVE  UNCHANGED Ordered!vars
  BY DEF promiseVars, Ordered!vars, Kept, Acked

\* The written, the kept and the acknowledged commits are prefixes of each other.
Promises ==
  /\ Ordered!Prefix(written) /\ Ordered!Prefix(Kept) /\ Kept \subseteq durable
  /\ Ordered!Prefix(Acked("sync")) /\ Ordered!Prefix(Acked("dsync"))
  /\ Acked("sync") \subseteq written /\ Acked("dsync") \subseteq Acked("sync")
  /\ BARRIER => Acked("dsync") \subseteq Kept

\* What the inductive invariant says of the variables of OrderedJournal.
LEMMA PromisesHold == IInv => Promises
<1> SUFFICES ASSUME IInv PROVE Promises
  OBVIOUS
<1> USE ConstantsAssumption DEF Tid, OptTid, Ordered!Prefix
<1>1. acked["sync"] \in OptTid /\ acked["dsync"] \in OptTid
  BY DEF IInv, TypeOK
<1>2. Ordered!Prefix(written) /\ Acked("sync") \subseteq written
  BY DEF IInv, TypeOK, DiskInv, WrittenInOrder, AckedIsWritten, Acked
<1>3. Ordered!Prefix(Kept) /\ Kept \subseteq durable
  BY DEF Kept
<1>4. /\ Ordered!Prefix(Acked("sync")) /\ Ordered!Prefix(Acked("dsync"))
      /\ Acked("dsync") \subseteq Acked("sync")
  BY <1>1 DEF IInv, DiskInv, Acked
<1>5. ASSUME BARRIER PROVE Acked("dsync") \subseteq Kept
  <2>1. \A u \in Tid : u <= acked["dsync"] => u \in durable
    BY <1>1, <1>5 DEF IInv, TypeOK, B, SequenceInv, KjInv, DiskInv, AckedIsWritten
  <2>2. QED
    BY <1>1, <2>1 DEF Acked, Kept
<1>6. QED
  BY <1>2, <1>3, <1>4, <1>5 DEF Promises

\* Only written commits are ever on the platter.
DurableWritten == durable \subseteq written

LEMMA DurableWrittenInit == Init => DurableWritten
  BY DEF Init, DurableWritten

LEMMA DurableWrittenNext == DurableWritten /\ [Next]_vars => DurableWritten'
<1> SUFFICES ASSUME DurableWritten, [Next]_vars PROVE DurableWritten'
  OBVIOUS
<1>1. CASE UNCHANGED diskVars
  BY <1>1 DEF DurableWritten, diskVars
<1>2. CASE CommitRecord \/ CommitBarrier \/ CommitFailed \/ \E t \in Tid : Destage(t)
  BY <1>2 DEF DurableWritten, diskVars, CommitRecord, CommitBarrier, CommitFailed,
     IssueFlush, Destage
<1>3. QED
  BY <1>1, <1>2, ZenonT(30) DEF Next, ProcStep, Call, Kjournald, vars,
     StartAborted, NoTransaction, GetTransaction, StartReserve, StartJoin,
       StartNoSpace, StartFull, FullWake,
     RequestCommit, JournalStop, DropUpdate, WaitCommit, JournalStart,
     StartCommit, SyncFileTid, ForceCommitNested, UseCredit, ExtendCheck,
       JournalExtend, ExtendDenied,
     JournalRestart, LockStep, LockUpdates, LockCheck, LockSleep, LockBarrier,
     JournalFlush, UnlockUpdates, Expire, KjTimeout, KjCommit, CommitBegin, CommitLock,
     CommitSwitch, CommitFlush, CommitLog, CommitSubmit, CommitWaitLog, CommitStep, CommitFinish

\* A durable commit stays durable, so what a crash keeps only grows.
LEMMA KeepGrows ==
  ASSUME durable \subseteq durable', DurableWritten'
  PROVE  Ordered!Keep
<1> USE ConstantsAssumption DEF Tid, Kept
<1>1. Kept \subseteq Kept'
  OBVIOUS
<1>2. Kept' \subseteq written'
  BY DEF DurableWritten
<1>3. Ordered!Prefix(Kept')
  BY DEF Ordered!Prefix
<1>4. QED
  BY <1>1, <1>2, <1>3 DEF Ordered!Keep

\* An error maps to a stop.
LEMMA AbortMaps ==
  ASSUME j_aborted' = TRUE, UNCHANGED <<written, durable, acked>>
  PROVE  Ordered!Next
  BY DEF Ordered!Next, Ordered!Stop, Kept, Acked

\* A phase of the commit passes, or fails and aborts the journal.
LEMMA PhaseMaps ==
  ASSUME NEW from, NEW to, NEW s, CommitStep(from, to, s)
  PROVE  [Ordered!Next]_(Ordered!vars)
  BY StutterMaps, AbortMaps DEF CommitStep, Abort, promiseVars, diskVars

\* The commit record is submitted, or the journal is aborted.
LEMMA SubmitMaps ==
  ASSUME CommitSubmit
  PROVE  [Ordered!Next]_(Ordered!vars)
  BY StutterMaps, AbortMaps DEF CommitSubmit, Abort, promiseVars, diskVars

\* The commit record is the next one in order, or it is not written.
LEMMA RecordMaps ==
  ASSUME IInv, IInv', DurableWritten', CommitRecord
  PROVE  [Ordered!Next]_(Ordered!vars)
<1> USE CommitRecord DEF CommitRecord
<1>1. CASE UNCHANGED diskVars
  BY <1>1, StutterMaps DEF promiseVars, diskVars, journalVars
<1>2. CASE /\ ~j_aborted /\ written' = written \cup {j_committing}
           /\ durable' = IF BARRIER /\ ~ASYNC_COMMIT
                         THEN durable \cup written' ELSE durable
  <2>1. j_committing \in Tid
    BY ConstantsAssumption DEF IInv, TypeOK, KjInv, Tid, OptTid
  <2>2. j_committing \notin written
    <3>1. j_commit_sequence = j_committing - 1
      <4>1. /\ SequenceInv /\ j_committing # 0 /\ j_sequence \in Int
        BY <2>1 DEF IInv, TypeOK, Tid
      <4>2. QED
        BY <4>1 DEF SequenceInv, B
    <3>2. \A u \in written :
             u <= j_commit_sequence \/ (u = j_committing /\ kj \in {"barrier", "finish"})
      BY DEF IInv, DiskInv
    <3>3. kj = "record"
      OBVIOUS
    <3>4. QED
      BY <2>1, <3>1, <3>2, <3>3 DEF Tid
  <2>3. Ordered!Prefix(written')
    <3>1. Promises'
      BY PromisesHold, PTL
    <3>2. QED
      BY <3>1 DEF Promises, Ordered!Prefix
  <2>4. Ordered!Keep
    BY <1>2, KeepGrows
  <2>5. UNCHANGED <<Acked("sync"), Acked("dsync"), j_aborted>>
    BY <1>2 DEF Acked, journalVars
  <2>6. Ordered!Write
    BY <1>2, <2>1, <2>2, <2>3, <2>4, <2>5 DEF Ordered!Write
  <2>7. QED
    BY <2>6 DEF Ordered!Next
<1>3. QED
  BY <1>1, <1>2

\* A flush, after the record or after one that failed.
LEMMA FlushMaps ==
  ASSUME DurableWritten', CommitBarrier \/ CommitFailed \/ \E t \in Tid : Destage(t)
  PROVE  [Ordered!Next]_(Ordered!vars)
<1> USE DEF CommitBarrier, CommitFailed, Destage, IssueFlush, Abort, journalVars
<1>1. Ordered!Keep
  BY KeepGrows
<1>2. /\ j_aborted' \in {j_aborted, TRUE} /\ UNCHANGED written
      /\ UNCHANGED <<Acked("sync"), Acked("dsync")>>
  BY DEF Acked
<1>3. Ordered!Settle
  BY <1>1, <1>2 DEF Ordered!Settle
<1>4. QED
  BY <1>3 DEF Ordered!Next

\* jbdbf_log_wait_commit: success is reported only of what is written, and, for
\* a dsync with barriers, of what a crash would keep.
LEMMA WaitMaps ==
  ASSUME IInv, IInv', NEW p \in Proc, WaitCommit(p)
  PROVE  [Ordered!Next]_(Ordered!vars)
<1> USE DEF journalVars, diskVars, promiseVars
<1>1. CASE j_aborted
  BY <1>1, StutterMaps DEF WaitCommit
<1>2. CASE ~j_aborted
  <2>1. UNCHANGED <<written, durable, j_aborted>>
    BY DEF WaitCommit
  <2>2. \A k \in {"sync", "dsync"} :
          acked[k] \in Int /\ acked'[k] \in Int /\ acked[k] <= acked'[k]
    <3>1. acked \in [{"sync", "dsync"} -> OptTid] /\ h_tid[p] \in OptTid
      BY DEF IInv, TypeOK
    <3>2. QED
      BY <1>2, <3>1, ConstantsAssumption DEF WaitCommit, Latest, OptTid
  <2>3. Acked("sync") \subseteq Acked("sync")' /\ Acked("dsync") \subseteq Acked("dsync")'
    BY <2>2, ConstantsAssumption DEF Acked, Tid
  <2>4. /\ Ordered!Prefix(Acked("sync")') /\ Ordered!Prefix(Acked("dsync")')
        /\ Acked("sync")' \subseteq written' /\ Acked("dsync")' \subseteq Acked("sync")'
        /\ BARRIER => Acked("dsync")' \subseteq Kept'
    <3>1. Promises'
      BY PromisesHold, PTL
    <3>2. QED
      BY <3>1 DEF Promises, Ordered!Prefix
  <2>5. Kept' = Kept
    BY <2>1 DEF Kept
  <2>6. Ordered!Acknowledge
    BY <1>2, <2>1, <2>3, <2>4, <2>5 DEF Ordered!Acknowledge
  <2>7. QED
    BY <2>6 DEF Ordered!Next
<1>3. QED
  BY <1>1, <1>2

\* Every step of JournalCommit maps to a step of OrderedJournal or a stutter.
LEMMA NextMaps ==
  ASSUME IInv, IInv', DurableWritten', [Next]_vars
  PROVE  [Ordered!Next]_(Ordered!vars)
<1>1. CASE UNCHANGED promiseVars
  BY <1>1, StutterMaps
<1>2. CASE \E p \in Proc : WaitCommit(p)
  BY <1>2, WaitMaps
<1>3. CASE CommitFlush \/ CommitLog \/ CommitWaitLog
  BY <1>3, PhaseMaps DEF CommitFlush, CommitLog, CommitWaitLog
<1>4. CASE CommitRecord \/ CommitSubmit
  BY <1>4, RecordMaps, SubmitMaps
<1>5. CASE CommitBarrier \/ CommitFailed \/ \E t \in Tid : Destage(t)
  BY <1>5, FlushMaps
<1>6. QED
  BY <1>1, <1>2, <1>3, <1>4, <1>5, ZenonT(30) DEF Next, ProcStep, Call, Kjournald, vars, promiseVars,
     journalVars, diskVars, StartAborted, NoTransaction, GetTransaction, StartReserve,
     StartJoin, StartNoSpace, StartFull, FullWake, RequestCommit, JournalStop, DropUpdate, JournalStart,
     StartCommit, SyncFileTid, ForceCommitNested, UseCredit, ExtendCheck,
       JournalExtend, ExtendDenied,
     JournalRestart, LockStep, LockUpdates, LockCheck, LockSleep, LockBarrier,
     JournalFlush, UnlockUpdates, Expire, KjTimeout, KjCommit, CommitBegin, CommitLock,
     CommitSwitch, CommitFinish

\* The journal implements OrderedJournal, for every set of processes and calls,
\* every transaction size and every mix of failures.
THEOREM ImplementsOrderedJournal == Spec => KeepsPromises
<1>1. Init => Ordered!Init
  BY ConstantsAssumption DEF Init, Ordered!Init, Kept, Acked, Tid
<1>2. IInv /\ IInv' /\ DurableWritten' /\ [Next]_vars => [Ordered!Next]_(Ordered!vars)
  BY NextMaps
<1>3. Spec => []DurableWritten
  BY DurableWrittenInit, DurableWrittenNext, PTL DEF Spec
<1>4. QED
  BY <1>1, <1>2, <1>3, Inductive, PTL DEF Spec, KeepsPromises, Ordered!Spec
=============================================================================
