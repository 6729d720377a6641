--------------------------- MODULE Recovery_proofs ---------------------------
(***************************************************************************)
(* Proofs about Recovery: the end of the log that the scan finds, and what *)
(* the revoke and replay passes make of it, for every mount and workload,  *)
(* every number of blocks and every failing read.                          *)
(***************************************************************************)
EXTENDS Recovery, Extrema, FiniteSetTheorems

-----------------------------------------------------------------------------
(* The inductive invariants *)

(* The transactions before n are in the log with all of their header blocks. *)
Whole(n) == n \in 1 .. last + 1 /\ \A t \in 1 .. n - 1 : missing[t] = "none"

(* What the header blocks passed so far say of the transaction being read. *)
PartInv ==
  next_commit_ID <= last =>
    /\ part = "revoke" => Revoked(next_commit_ID) # {}
    /\ part = "desc" => missing[next_commit_ID] # "revoke"
    /\ part = "commit" => missing[next_commit_ID] \notin {"revoke", "desc"}

(* A revoke block that is missing is one the transaction has. *)
MissingInv ==
  phase # "run" =>
    \A t \in 1 .. last : missing[t] = "revoke" => Revoked(t) # {}

(* Every pass has only passed whole transactions, and so has every candidate *)
(* for the end of the log.                                                   *)
GapInv ==
  /\ MissingInv
  /\ phase = "run" => end_transaction = 0 /\ restarts = 0
  /\ Walking => Whole(next_commit_ID) /\ PartInv
  /\ phase = "scan" =>
       /\ end_transaction <= next_commit_ID
       /\ \A b \in Blocks : dc[b] <= next_commit_ID
  /\ phase \in {"revoke", "replay"} \/ (phase = "done" /\ ~err) => Whole(end_transaction)

(* The revoke table has only records of transactions before the end of the   *)
(* log, and for every revoke block read the latest of each block.            *)
Covers(r) == \A b \in Revoked(r) : r <= revokes[b]

RevokeInv ==
  /\ phase \in {"run", "scan"} => \A b \in Blocks : revokes[b] = 0
  /\ phase \in {"revoke", "replay"} =>
       /\ next_commit_ID <= end_transaction /\ part # "beyond"
       /\ \A b \in Blocks : revokes[b] # 0 =>
            revokes[b] \in 1 .. end_transaction - 1 /\ b \in Revoked(revokes[b])
  /\ phase = "revoke" =>
       \A r \in 1 .. end_transaction - 1 :
         r < next_commit_ID \/ (r = next_commit_ID /\ part # "revoke") => Covers(r)
  /\ phase = "replay" => \A r \in 1 .. end_transaction - 1 : Covers(r)

(* The copy of b in transaction t is to be replayed; transaction t has been. *)
Alive(b, t) == b \in Logged(t) /\ \A r \in t .. end_transaction - 1 : b \notin Revoked(r)
Past(t)     == t < next_commit_ID \/ (t = next_commit_ID /\ part = "commit")

(* The latest copy replayed so far, or what the crash left, is in the cache. *)
CacheRight(b) ==
  \/ /\ \A t \in 1 .. end_transaction - 1 : Past(t) => ~Alive(b, t)
     /\ mem[b] = image[b]
  \/ \E t \in 1 .. end_transaction - 1 :
       /\ Past(t) /\ Alive(b, t) /\ mem[b] = LogBlock(t, b)
       /\ \A u \in 1 .. end_transaction - 1 : Past(u) /\ Alive(b, u) => u <= t

ReplayInv ==
  restarts = 0 =>
    /\ phase \in {"scan", "revoke"} => home = image /\ mem = image
    /\ phase = "replay" /\ success => \A b \in Blocks : CacheRight(b)
    /\ ReplayMatchesLog

(***************************************************************************)
(* What the transactions of the log have done to the blocks, where no      *)
(* block of zeroes is written: a copy has the tid of its transaction, and  *)
(* new data goes only to a block that was freed since its last use.        *)
(***************************************************************************)
Writes == {"meta", "new", "over"}

FreedSince(b, u, n) == \E r \in u .. n : op[r][b] = "free"

HistoryInv ==
  /\ \A t \in 1 .. last, b \in Blocks : op[t][b] \in Writes => val[t][b] = t
  /\ \A t \in 1 .. last, u \in 1 .. last, b \in Blocks :
       u < t /\ op[t][b] = "new" /\ op[u][b] # "none" => FreedSince(b, u, t - 1)
  /\ \A u \in 1 .. last, b \in Blocks :
       owner[b] = "free" /\ op[u][b] # "none" => FreedSince(b, u, last)
  /\ phase = "run" => \A b \in Blocks : home[b] = 0

(* On a disk on which files only grow, a block with new data has no other use. *)
GrowsInv ==
  /\ \A t \in 1 .. last, u \in 1 .. last, b \in Blocks :
       u # t /\ op[t][b] = "new" => op[u][b] \in {"none", "free"}
  /\ \A u \in 1 .. last, b \in Blocks : owner[b] = "meta" => op[u][b] # "new"

(***************************************************************************)
(* What the crash left of it.  In place of new data is that data or, where *)
(* it was not durable on a growing disk, still nothing; where all is       *)
(* flushed a later use may have replaced it, but not by zeroes.            *)
(***************************************************************************)
CrashInv ==
  /\ \A t \in 1 .. last : stale[t] = {} /\ (t <= dur => missing[t] = "none")
  /\ Grows => \A t \in 1 .. last, b \in Blocks :
                op[t][b] = "new" => image[b] = t \/ (image[b] = 0 /\ t > dur)
  /\ Flushed =>
       /\ dur = last
       /\ \A t \in 1 .. last, b \in Blocks :
            op[t][b] = "new" =>
              /\ image[b] # 0
              /\ (\A u \in t + 1 .. last : op[u][b] = "none") => image[b] = t

(* The data of transaction t has not arrived; e is the first transaction   *)
(* of which that can be said or a header block is missing.                 *)
Absent(b, t) == op[t][b] = "new" /\ image[b] = 0

EndRight(e) ==
  /\ e \in 1 .. last + 1
  /\ e <= last => missing[e] # "none" \/ \E b \in Blocks : Absent(b, e)
  /\ \A t \in 1 .. e - 1 : missing[t] = "none" /\ \A b \in Blocks : ~Absent(b, t)

(* Every block holds what the crash left there or a copy of it in the log, *)
(* and the first when no copy is to be replayed.                           *)
AliveAt(b, t, e) == b \in Logged(t) /\ \A r \in t .. e - 1 : b \notin Revoked(r)

Kept(b, c) == c = image[b] \/ \E t \in 1 .. last : b \in Logged(t) /\ c = t

KeptInv ==
  /\ \A b \in Blocks : Kept(b, home[b]) /\ Kept(b, mem[b])
  /\ \A e \in 1 .. last + 1, b \in Blocks :
       EndRight(e) /\ (\A t \in 1 .. e - 1 : ~AliveAt(b, t, e)) =>
         home[b] = image[b] /\ mem[b] = image[b]

(* The scan finds no end but the first absent data or missing header: its   *)
(* table has only absent data, and for all the absent data that it has read *)
(* an entry of that transaction or an earlier one.                          *)
ScanInv ==
  /\ end_transaction = 0 /\ part # "beyond"
  /\ part = "commit" /\ opt.checksum => crc = FoundChecksum(next_commit_ID)
  /\ \A b \in Blocks : dc[b] # 0 => dc[b] <= last /\ Absent(b, dc[b])
  /\ \A t \in 1 .. last, b \in Blocks :
       Past(t) /\ Absent(b, t) => \E c \in Blocks : dc[c] # 0 /\ dc[c] <= t

(* The latest of the copies to be replayed so far is what c holds of b. *)
IsLatest(b, t) ==
  /\ Past(t) /\ Alive(b, t)
  /\ \A u \in 1 .. end_transaction - 1 : Past(u) /\ Alive(b, u) => u <= t

LatestIn(b, c) == \A t \in 1 .. end_transaction - 1 : IsLatest(b, t) => c = t

(* The three parts: before the crash, at the crash, and in recovery. *)
LogInv  == ~opt.zeroes => HistoryInv /\ (Grows => GrowsInv)
DiskInv == Dependable /\ phase # "run" => CrashInv

WalkInv ==
  Dependable /\ failures = 0 /\ phase # "run" =>
    /\ KeptInv
    /\ phase = "scan" => ScanInv
    /\ phase \in {"revoke", "replay"} \/ Recovered => EndRight(end_transaction)
    /\ phase = "replay" => \A b \in Blocks : LatestIn(b, mem[b])
    /\ Recovered => next_commit_ID = end_transaction /\ \A b \in Blocks : LatestIn(b, home[b])

PrefixInv == RevokeInv /\ LogInv /\ DiskInv /\ WalkInv

(* The two halves of the type invariant: what the crash leaves, and the walk. *)
DiskType ==
  /\ opt \in Options
  /\ last \in 0 .. opt.tids /\ dur \in 0 .. last
  /\ op \in [Tids -> [Blocks -> Ops]]
  /\ val \in [Tids -> [Blocks -> 0 .. opt.tids]]
  /\ final \in [Tids -> Blocks \cup {None}]
  /\ owner \in [Blocks -> {"free", "meta", "data"}]
  /\ image \in [Blocks -> -1 .. opt.tids]
  /\ missing \in [Tids -> Parts \cup {"none"}]
  /\ stale \in [Tids -> SUBSET Blocks] /\ fill \in {-1, 0}

WalkType ==
  /\ home \in [Blocks -> -1 .. opt.tids] /\ mem \in [Blocks -> -1 .. opt.tids]
  /\ phase \in {"run", "scan", "revoke", "replay", "done"}
  /\ next_commit_ID \in 1 .. opt.tids + 1 /\ part \in Parts \cup {"beyond"}
  /\ end_transaction \in 0 .. opt.tids + 1
  /\ dc \in [Blocks -> 0 .. opt.tids] /\ revokes \in [Blocks -> 0 .. opt.tids]
  /\ crc \in {-1, 0, 1}
  /\ success \in BOOLEAN /\ err \in BOOLEAN
  /\ sequence \in 0 .. opt.tids + 2
  /\ failures \in 0 .. opt.failures /\ restarts \in 0 .. opt.restarts

-----------------------------------------------------------------------------
(* Types *)

\* The bounds of a mount are numbers.
LEMMA OptionTypes ==
  ASSUME opt \in Options
  PROVE  /\ opt.tids \in Nat \ {0} /\ opt.failures \in Nat /\ opt.restarts \in Nat
         /\ opt.entries \in Nat \ {0}
BY ConstantsAssumption DEF Option

\* A table of mismatched blocks keeps its type, and gets only the new tid.
LEMMA MismatchTable ==
  ASSUME NEW d \in [Blocks -> 0 .. opt.tids], NEW bad, NEW t \in 0 .. opt.tids,
         NEW e \in add_to_mismatched_blocks(d, bad, t)
  PROVE  /\ e \in [Blocks -> 0 .. opt.tids]
         /\ \A b \in Blocks : e[b] \in {d[b], t}
BY DEF add_to_mismatched_blocks

\* read_and_verify_checksums keeps the type of the table.
LEMMA VerifyTable ==
  ASSUME TypeOK, NEW t \in Tids, read_and_verify_checksums(t)
  PROVE  /\ dc' \in [Blocks -> 0 .. opt.tids]
         /\ \A b \in Blocks : dc'[b] \in {0, dc[b], t}
         /\ failures' \in 0 .. opt.failures
<1>1. /\ dc \in [Blocks -> 0 .. opt.tids] /\ t \in 0 .. opt.tids /\ opt.tids \in Nat
      /\ opt.failures \in Nat /\ failures \in 0 .. opt.failures
  BY OptionTypes DEF TypeOK, Tids
<1>2. failures' \in 0 .. opt.failures
  BY <1>1 DEF read_and_verify_checksums, MayFail
<1>3. CASE \E d \in add_to_mismatched_blocks(dc, BadData(t), t) :
             dc' = delete_from_mismatched_blocks(d, Overwritten(t))
  <2>1. PICK d \in add_to_mismatched_blocks(dc, BadData(t), t) :
              dc' = delete_from_mismatched_blocks(d, Overwritten(t))
    BY <1>3
  <2>2. d \in [Blocks -> 0 .. opt.tids] /\ \A b \in Blocks : d[b] \in {dc[b], t}
    BY <1>1, <2>1, MismatchTable
  <2> QED
    BY <1>1, <1>2, <2>1, <2>2 DEF delete_from_mismatched_blocks
<1>4. CASE \E read \in SUBSET New(t) :
             dc' \in add_to_mismatched_blocks(dc, BadData(t) \cap read, t)
  <2>1. PICK read \in SUBSET New(t) :
              dc' \in add_to_mismatched_blocks(dc, BadData(t) \cap read, t)
    BY <1>4
  <2>2. dc' \in [Blocks -> 0 .. opt.tids] /\ \A b \in Blocks : dc'[b] \in {dc[b], t}
    BY <1>1, <2>1, MismatchTable
  <2> QED
    BY <1>2, <2>2
<1> QED
  BY <1>3, <1>4 DEF read_and_verify_checksums

\* The end of the log that a scan reports is a transaction it has read.
LEMMA ScanEndType ==
  ASSUME TypeOK
  PROVE  /\ ScanEnd \in 1 .. opt.tids + 1
         /\ \/ \E b \in Blocks : dc[b] # 0 /\ ScanEnd = dc[b]
            \/ ScanEnd \in {next_commit_ID, end_transaction}
<1>0. /\ dc \in [Blocks -> 0 .. opt.tids] /\ opt.tids \in Nat
      /\ next_commit_ID \in 1 .. opt.tids + 1 /\ end_transaction \in 0 .. opt.tids + 1
  BY OptionTypes DEF TypeOK
<1> DEFINE S == {dc[b] : b \in Mismatched(dc)}
<1>1. CASE Mismatched(dc) # {}
  <2>1. S \in SUBSET Nat /\ S # {}
    BY <1>0, <1>1 DEF Mismatched
  <2>2. Min(S) \in S
    BY <2>1, MinIsSmallest
  <2>3. PICK b \in Mismatched(dc) : Min(S) = dc[b]
    BY <2>2
  <2>4. ScanEnd = dc[b] /\ b \in Blocks /\ dc[b] # 0
    BY <1>1, <2>3 DEF ScanEnd, Mismatched
  <2> QED
    BY <1>0, <2>4
<1>2. CASE Mismatched(dc) = {}
  BY <1>0, <1>2 DEF ScanEnd
<1> QED
  BY <1>1, <1>2

\* A transaction whose header block is read is one of the log.
LEMMA HereType ==
  ASSUME TypeOK, NEW p, Here(p)
  PROVE  /\ next_commit_ID \in Tids /\ next_commit_ID <= last
         /\ phase \in {"scan", "revoke", "replay"} /\ part = p
         /\ phase # "scan" => next_commit_ID < end_transaction
         /\ missing[next_commit_ID] # part
BY OptionTypes DEF TypeOK, Here, Stops, Walking, Tids

\* The two halves make up the type invariant.
LEMMA TypeHalves == TypeOK <=> DiskType /\ WalkType
<1>1. {home, image, mem} \subseteq [Blocks -> -1 .. opt.tids]
        <=> /\ home \in [Blocks -> -1 .. opt.tids] /\ image \in [Blocks -> -1 .. opt.tids]
            /\ mem \in [Blocks -> -1 .. opt.tids]
  OBVIOUS
<1>2. {dc, revokes} \subseteq [Blocks -> 0 .. opt.tids]
        <=> dc \in [Blocks -> 0 .. opt.tids] /\ revokes \in [Blocks -> 0 .. opt.tids]
  OBVIOUS
<1> QED
  BY <1>1, <1>2, Zenon DEF TypeOK, DiskType, WalkType

\* The initial state has its types.
LEMMA InitType == Init => TypeOK
<1> SUFFICES ASSUME Init PROVE TypeOK
  OBVIOUS
<1>1. opt.tids \in Nat \ {0} /\ opt.failures \in Nat /\ opt.restarts \in Nat
  BY OptionTypes DEF Init
<1>2. home \in [Blocks -> -1 .. opt.tids]
  BY <1>1 DEF Init
<1>3. op \in [Tids -> [Blocks -> Ops]] /\ val \in [Tids -> [Blocks -> 0 .. opt.tids]]
  BY <1>1 DEF Init, Ops
<1>4. DiskType
  BY <1>1, <1>2, <1>3 DEF Init, DiskType, Parts
<1>5. WalkType
  <2>1. home \in [Blocks -> -1 .. opt.tids] /\ mem \in [Blocks -> -1 .. opt.tids]
    BY <1>1, <1>2 DEF Init
  <2>2. next_commit_ID \in 1 .. opt.tids + 1 /\ part \in Parts \cup {"beyond"}
    BY <1>1, <1>2 DEF Init, Parts
  <2>3.  dc \in [Blocks -> 0 .. opt.tids] /\ revokes \in [Blocks -> 0 .. opt.tids]
    BY <1>1, <1>2 DEF Init
  <2>4. success \in BOOLEAN /\ err \in BOOLEAN
    BY <1>1, <1>2 DEF Init
  <2>5. crc \in {-1, 0, 1} 
    BY <1>1, <1>2 DEF Init
  <2>6. phase \in {"run", "scan", "revoke", "replay", "done"}
    BY <1>1, <1>2 DEF Init
  <2>7. end_transaction \in 0 .. opt.tids + 1 /\ sequence \in 0 .. opt.tids + 2
  /\ failures \in 0 .. opt.failures /\ restarts \in 0 .. opt.restarts
    BY <1>1, <1>2 DEF Init
  <2> QED BY <2>1, <2>2, <2>3, <2>4, <2>5, <2>6, <2>7 DEF WalkType
<1> QED
  BY <1>4, <1>5, TypeHalves

\* The same of the next state.
LEMMA TypeHalvesNext == DiskType' /\ WalkType' => TypeOK'
BY TypeHalves, PTL

\* What the crash left on the disk keeps its types while it stays as it is.
LEMMA DiskTypeKept ==
  ASSUME TypeOK, UNCHANGED diskVars
  PROVE  DiskType' /\ Tids' = Tids
BY TypeHalves DEF DiskType, diskVars, Tids

\* A pass starts with its types.
LEMMA StartPassType ==
  ASSUME TypeOK, NEW p \in {"scan", "revoke", "replay"}, StartPass(p)
  PROVE  /\ phase' = p /\ next_commit_ID' \in 1 .. opt.tids + 1 /\ part' \in Parts
         /\ dc' \in [Blocks -> 0 .. opt.tids] /\ crc' \in {-1, 0, 1} /\ success' \in BOOLEAN
<1>1. opt.tids \in Nat
  BY OptionTypes DEF TypeOK
<1>2. dc' \in [Blocks -> 0 .. opt.tids]
  BY <1>1 DEF StartPass
<1>3. part' \in Parts
  BY DEF StartPass, Parts, FirstPart
<1> QED
  BY <1>1, <1>2, <1>3 DEF StartPass

\* The next transaction is one of the log, or the one behind it.
LEMMA NextType ==
  ASSUME TypeOK, NEW p, Here(p), NextTransaction
  PROVE  next_commit_ID' \in 1 .. opt.tids + 1 /\ part' \in Parts
<1>1. next_commit_ID \in Tids /\ opt.tids \in Nat
  BY HereType, OptionTypes DEF TypeOK
<1> QED
  BY <1>1 DEF NextTransaction, FirstPart, Parts, Tids

\* The checksum of a transaction is 0 or 1.
LEMMA ChecksumType == \A t : ReadChecksum(t) \in {0, 1} /\ FoundChecksum(t) \in {0, 1}
BY DEF ReadChecksum, FoundChecksum, dzat_checksum

\* Every step before the crash keeps the types.
LEMMA RunType ==
  ASSUME TypeOK, Commit \/ Settle \/ Crash
  PROVE  TypeOK'
<1>1. DiskType /\ WalkType /\ opt.tids \in Nat
  BY TypeHalves, OptionTypes DEF TypeOK
<1>2. CASE Commit
  <2>1. PICK o \in [Blocks -> Ops] :
          /\ op' = [op EXCEPT ![last + 1] = o]
          /\ owner' = [b \in Blocks |-> OwnerAfter(b, o[b])]
          /\ \A b \in Blocks : o[b] \in Allowed(b)
          /\ \E z \in IF opt.zeroes THEN SUBSET {b \in Blocks : o[b] \in {"new", "over"}} ELSE {{}} :
               val' = [val EXCEPT ![last + 1] =
                   [b \in Blocks |-> IF o[b] \in {"none", "free"} \/ b \in z THEN 0 ELSE last + 1]]
          /\ \E f \in Blocks \cup {None} : final' = [final EXCEPT ![last + 1] = f]
    BY <1>2 DEF Commit
  <2>2. last + 1 \in 1 .. opt.tids /\ last' = last + 1 /\ last' \in 0 .. opt.tids /\ dur' \in 0 .. last'
    BY <1>1, <1>2 DEF Commit, DiskType
  <2>3. op' \in [Tids -> [Blocks -> Ops]] /\ final' \in [Tids -> Blocks \cup {None}]
    BY <1>1, <2>1, <2>2 DEF DiskType
  <2>4. owner' \in [Blocks -> {"free", "meta", "data"}]
    <3>1. \A b \in Blocks : OwnerAfter(b, o[b]) \in {"free", "meta", "data"}
      BY <1>1 DEF OwnerAfter, Ops, DiskType
    <3> QED
      BY <2>1, <3>1
  <2>5. val' \in [Tids -> [Blocks -> 0 .. opt.tids]]
    <3>1. PICK z :
               val' = [val EXCEPT ![last + 1] =
                   [b \in Blocks |-> IF o[b] \in {"none", "free"} \/ b \in z THEN 0 ELSE last + 1]]
      BY <2>1
    <3>2. [b \in Blocks |-> IF o[b] \in {"none", "free"} \/ b \in z THEN 0 ELSE last + 1]
            \in [Blocks -> 0 .. opt.tids]
      BY <1>1, <2>2
    <3> QED
      BY <1>1, <3>1, <3>2 DEF DiskType
  <2>6. /\ UNCHANGED <<opt, image, missing, stale, fill>> /\ Tids' = Tids
        /\ UNCHANGED <<home, mem, phase, walkVars, err, sequence, failures, restarts>>
    BY <1>2 DEF Commit, Tids
  <2>7. DiskType'
    BY <1>1, <2>2, <2>3, <2>4, <2>5, <2>6 DEF DiskType
  <2>8. WalkType'
    BY <1>1, <2>6 DEF WalkType, walkVars
  <2> QED
    BY <2>7, <2>8, TypeHalvesNext
<1>3. CASE Settle
  <2>1. UNCHANGED <<opt, last, op, val, final, owner, image, missing, stale, fill>> /\ Tids' = Tids
        /\ UNCHANGED <<home, mem, phase, walkVars, err, sequence, failures, restarts>>
    BY <1>3 DEF Settle, Tids
  <2>2. dur' \in 0 .. last'
    BY <1>1, <1>3, <2>1 DEF Settle, DiskType
  <2>3. DiskType'
    BY <1>1, <2>1, <2>2 DEF DiskType
  <2>4. WalkType'
    BY <1>1, <2>1 DEF WalkType, walkVars
  <2> QED
    BY <2>3, <2>4, TypeHalvesNext
<1>4. CASE Crash
  <2>1. UNCHANGED <<opt, last, dur, op, val, final, owner>> /\ Tids' = Tids
    BY <1>4 DEF Crash, Tids
  <2>2. home' \in [Blocks -> -1 .. opt.tids] /\ image' = home' /\ mem' = home'
    BY <1>4 DEF Crash
  <2>3. missing' \in [Tids -> Parts \cup {"none"}] /\ stale' \in [Tids -> SUBSET Blocks]
    BY <1>4 DEF Crash
  <2>4. fill' \in {-1, 0}
    BY <1>4 DEF Crash
  <2>5. DiskType'
    BY <1>1, <2>1, <2>2, <2>3, <2>4 DEF DiskType
  <2>6. /\ phase' = "scan" /\ next_commit_ID' \in 1 .. opt.tids + 1 /\ part' \in Parts
        /\ dc' \in [Blocks -> 0 .. opt.tids] /\ crc' \in {-1, 0, 1} /\ success' \in BOOLEAN
    BY <1>4, StartPassType DEF Crash
  <2>7. UNCHANGED <<opt, end_transaction, revokes, err, sequence, failures, restarts>>
    BY <1>4 DEF Crash
  <2>8. WalkType'
    BY <1>1, <2>2, <2>6, <2>7 DEF WalkType
  <2> QED
    BY <2>5, <2>8, TypeHalvesNext
<1> QED
  BY <1>2, <1>3, <1>4

\* Every step of a pass over a header block keeps the types.
LEMMA ReadType ==
  ASSUME TypeOK,
         \/ ScanDescriptor \/ calc_chksums_fails \/ SkipDescriptor \/ ReplayDescriptor
         \/ ScanCommit \/ PassCommit \/ ScanRevoke
  PROVE  TypeOK'
<1>1. DiskType /\ WalkType /\ opt.tids \in Nat
  BY TypeHalves, OptionTypes DEF TypeOK
<1>2. UNCHANGED diskVars
  BY DEF ScanDescriptor, calc_chksums_fails, SkipDescriptor, ReplayDescriptor,
         ScanCommit, PassCommit, ScanRevoke
<1>3. DiskType' /\ opt' = opt
  BY <1>2, DiskTypeKept DEF diskVars
<1>4. CASE ScanDescriptor
  <2>1. Here("desc") /\ read_and_verify_checksums(next_commit_ID) /\ next_commit_ID \in Tids
    BY <1>4, HereType DEF ScanDescriptor
  <2>2. dc' \in [Blocks -> 0 .. opt.tids] /\ failures' \in 0 .. opt.failures
    BY <2>1, VerifyTable
  <2>3. crc' \in {-1, 0, 1}
    BY <1>1, <1>4, ChecksumType DEF ScanDescriptor, WalkType
  <2>4. WalkType'
    BY <1>1, <1>3, <1>4, <2>2, <2>3 DEF ScanDescriptor, GoTo, WalkType, Parts
  <2> QED
    BY <1>3, <2>4, TypeHalvesNext
<1>5. CASE calc_chksums_fails
  <2>1. next_commit_ID \in Tids
    BY <1>5, HereType DEF calc_chksums_fails
  <2>2. PICK d \in add_to_mismatched_blocks(dc, BadData(next_commit_ID), next_commit_ID) :
          dc' = delete_from_mismatched_blocks(d, Overwritten(next_commit_ID))
    BY <1>5 DEF calc_chksums_fails
  <2>3. d \in [Blocks -> 0 .. opt.tids]
    BY <1>1, <2>1, <2>2, MismatchTable DEF WalkType, Tids
  <2>4. dc' \in [Blocks -> 0 .. opt.tids]
    BY <1>1, <2>2, <2>3 DEF delete_from_mismatched_blocks
  <2>5. crc' \in {-1, 0, 1} /\ part' \in Parts \cup {"beyond"} /\ UNCHANGED next_commit_ID
    BY <1>1, <1>5 DEF calc_chksums_fails, GoTo, WalkType, Parts
  <2>6. failures' \in 0 .. opt.failures
    BY <1>1, <1>5, OptionTypes DEF calc_chksums_fails, MayFail, WalkType, DiskType
  <2>7. WalkType'
    BY <1>1, <1>3, <1>5, <2>4, <2>5, <2>6 DEF calc_chksums_fails, WalkType
  <2> QED
    BY <1>3, <2>7, TypeHalvesNext
<1>6. CASE SkipDescriptor
  <2>1. WalkType'
    BY <1>1, <1>3, <1>6 DEF SkipDescriptor, GoTo, WalkType, Parts
  <2> QED
    BY <1>3, <2>1, TypeHalvesNext
<1>7. CASE ReplayDescriptor
  <2>1. next_commit_ID \in Tids
    BY <1>7, HereType DEF ReplayDescriptor
  <2>2. PICK read :
          /\ IF read = Logged(next_commit_ID)
               THEN UNCHANGED <<failures, success>>
               ELSE MayFail /\ success' = FALSE
          /\ mem' = [b \in Blocks |-> IF b \in Replayed(next_commit_ID, read)
                                        THEN LogBlock(next_commit_ID, b) ELSE mem[b]]
    BY <1>7 DEF ReplayDescriptor
  <2>3. \A b \in Blocks : LogBlock(next_commit_ID, b) \in -1 .. opt.tids
    BY <1>1, <2>1 DEF LogBlock, DiskType
  <2>4. mem' \in [Blocks -> -1 .. opt.tids]
    BY <1>1, <2>2, <2>3 DEF WalkType
  <2>5. failures' \in 0 .. opt.failures /\ success' \in BOOLEAN
    <3>1. opt.failures \in Nat /\ failures \in 0 .. opt.failures /\ success \in BOOLEAN
      BY <1>1, OptionTypes DEF WalkType, DiskType
    <3>2. failures' \in 0 .. opt.failures
      BY <2>2, <3>1 DEF MayFail
    <3>3. success' \in BOOLEAN
      BY <2>2, <3>1, Zenon
    <3> QED
      BY <3>2, <3>3
  <2>6. WalkType'
    BY <1>1, <1>3, <1>7, <2>4, <2>5 DEF ReplayDescriptor, GoTo, WalkType, Parts
  <2> QED
    BY <1>3, <2>6, TypeHalvesNext
<1>8. CASE ScanCommit
  <2>1. next_commit_ID \in Tids /\ Here("commit")
    BY <1>8, HereType DEF ScanCommit
  <2>2. next_commit_ID' \in 1 .. opt.tids + 1 /\ part' \in Parts \cup {"beyond"}
    BY <1>1, <1>8, <2>1, NextType DEF ScanCommit, GoTo, WalkType
  <2>3. end_transaction' \in 0 .. opt.tids + 1 /\ crc' \in {-1, 0, 1}
    BY <1>1, <1>8, <2>1 DEF ScanCommit, WalkType, Tids
  <2>4. WalkType'
    BY <1>1, <1>3, <1>8, <2>2, <2>3 DEF ScanCommit, WalkType
  <2> QED
    BY <1>3, <2>4, TypeHalvesNext
<1>9. CASE PassCommit
  <2>1. next_commit_ID' \in 1 .. opt.tids + 1 /\ part' \in Parts
    BY <1>9, NextType DEF PassCommit
  <2>2. WalkType'
    BY <1>1, <1>3, <1>9, <2>1 DEF PassCommit, WalkType
  <2> QED
    BY <1>3, <2>2, TypeHalvesNext
<1>10. CASE ScanRevoke
  <2>1. next_commit_ID \in Tids
    BY <1>10, HereType DEF ScanRevoke
  <2>2. revokes' \in [Blocks -> 0 .. opt.tids]
    BY <1>1, <1>10, <2>1 DEF ScanRevoke, WalkType, set_revoke, Tids
  <2>3. WalkType'
    BY <1>1, <1>3, <1>10, <2>2 DEF ScanRevoke, GoTo, WalkType, Parts
  <2> QED
    BY <1>3, <2>3, TypeHalvesNext
<1> QED
  BY <1>4, <1>5, <1>6, <1>7, <1>8, <1>9, <1>10

\* The steps that end a pass, and what interrupts a recovery, keep the types.
LEMMA EndType ==
  ASSUME TypeOK, PassDone \/ SyncFails \/ ReadFails \/ WriteBack \/ Restart
  PROVE  TypeOK'
<1>1. DiskType /\ WalkType /\ opt.tids \in Nat /\ opt.failures \in Nat /\ opt.restarts \in Nat
  BY TypeHalves, OptionTypes DEF TypeOK
<1>2. UNCHANGED diskVars
  BY DEF PassDone, SyncFails, ReadFails, WriteBack, Restart
<1>3. DiskType' /\ opt' = opt
  BY <1>2, DiskTypeKept DEF diskVars
<1>4. [b \in Blocks |-> 0] \in [Blocks -> 0 .. opt.tids]
  BY <1>1
<1>5. ASSUME NEW ok \in BOOLEAN, Finish(ok), UNCHANGED mem, UNCHANGED restarts,
             failures' \in 0 .. opt.failures
      PROVE  WalkType'
  <2>1. err' \in BOOLEAN
    BY <1>5 DEF Finish
  <2>2. /\ home' \in [Blocks -> -1 .. opt.tids] /\ revokes' \in [Blocks -> 0 .. opt.tids]
        /\ sequence' \in 0 .. opt.tids + 2 /\ phase' = "done"
    BY <1>1, <1>4, <1>5 DEF Finish, WalkType
  <2>3. UNCHANGED <<next_commit_ID, part, end_transaction, dc, crc, success>>
    BY <1>5 DEF Finish
  <2> QED
    BY <1>1, <1>3, <1>5, <2>1, <2>2, <2>3 DEF WalkType
<1>6. CASE PassDone
  <2>1. UNCHANGED <<mem, failures, restarts>>
    BY <1>6 DEF PassDone
  <2>2. CASE \E p \in {"revoke", "replay"} :
               /\ StartPass(p) /\ UNCHANGED <<home, revokes, err, sequence>>
               /\ end_transaction' \in {ScanEnd, end_transaction}
    <3>1. PICK p \in {"revoke", "replay"} : StartPass(p)
      BY <2>2
    <3>2. /\ phase' = p /\ next_commit_ID' \in 1 .. opt.tids + 1 /\ part' \in Parts
          /\ dc' \in [Blocks -> 0 .. opt.tids] /\ crc' \in {-1, 0, 1} /\ success' \in BOOLEAN
      BY <3>1, StartPassType
    <3>3. end_transaction' \in 0 .. opt.tids + 1
      BY <1>1, <2>2, ScanEndType DEF WalkType
    <3>4. WalkType'
      BY <1>1, <1>3, <2>1, <2>2, <3>1, <3>2, <3>3 DEF WalkType
    <3> QED
      BY <1>3, <3>4, TypeHalvesNext
  <2>3. CASE \E ok \in BOOLEAN : Finish(ok)
    <3>1. WalkType'
      BY <1>1, <1>3, <1>5, <2>1, <2>3 DEF WalkType
    <3> QED
      BY <1>3, <3>1, TypeHalvesNext
  <2>4. (success /\ next_commit_ID = end_transaction) \in BOOLEAN
    OBVIOUS
  <2> QED
    BY <1>6, <2>2, <2>3, <2>4 DEF PassDone
<1>7. CASE SyncFails
  <2>1. home' \in [Blocks -> -1 .. opt.tids]
    BY <1>1, <1>7 DEF SyncFails, WalkType
  <2>2. failures' \in 0 .. opt.failures /\ sequence' \in 0 .. opt.tids + 2
    BY <1>1, <1>7 DEF SyncFails, MayFail, WalkType
  <2>3. revokes' \in [Blocks -> 0 .. opt.tids] /\ phase' = "done" /\ err' \in BOOLEAN
    BY <1>4, <1>7 DEF SyncFails
  <2>4. UNCHANGED <<next_commit_ID, part, end_transaction, dc, crc, success, mem, restarts>>
    BY <1>7 DEF SyncFails
  <2>5. WalkType'
    BY <1>1, <1>3, <2>1, <2>2, <2>3, <2>4 DEF WalkType
  <2> QED
    BY <1>3, <2>5, TypeHalvesNext
<1>8. CASE ReadFails
  <2>1. failures' \in 0 .. opt.failures
    BY <1>1, <1>8 DEF ReadFails, MayFail, WalkType
  <2>2. WalkType'
    BY <1>5, <1>8, <2>1 DEF ReadFails
  <2> QED
    BY <1>3, <2>2, TypeHalvesNext
<1>9. CASE WriteBack
  <2>1. home' \in [Blocks -> -1 .. opt.tids]
    BY <1>1, <1>9 DEF WriteBack, WalkType
  <2>2. WalkType'
    BY <1>1, <1>3, <1>9, <2>1 DEF WriteBack, WalkType, walkVars
  <2> QED
    BY <1>3, <2>2, TypeHalvesNext
<1>10. CASE Restart
  <2>1. /\ phase' = "scan" /\ next_commit_ID' \in 1 .. opt.tids + 1 /\ part' \in Parts
        /\ dc' \in [Blocks -> 0 .. opt.tids] /\ crc' \in {-1, 0, 1} /\ success' \in BOOLEAN
    BY <1>10, StartPassType DEF Restart
  <2>2. /\ end_transaction' = 0 /\ mem' = home /\ err' = FALSE /\ sequence' = 0
        /\ restarts' = restarts + 1 /\ restarts < opt.restarts
        /\ revokes' = [b \in Blocks |-> 0] /\ UNCHANGED <<home, failures>>
    BY <1>10 DEF Restart
  <2>3. restarts' \in 0 .. opt.restarts
    BY <1>1, <2>2 DEF WalkType
  <2>4. /\ mem' \in [Blocks -> -1 .. opt.tids] /\ home' \in [Blocks -> -1 .. opt.tids]
        /\ revokes' \in [Blocks -> 0 .. opt.tids]
        /\ end_transaction' \in 0 .. opt.tids + 1 /\ sequence' \in 0 .. opt.tids + 2
        /\ failures' \in 0 .. opt.failures
    BY <1>1, <1>4, <2>2 DEF WalkType
  <2>5. err' \in BOOLEAN
    BY <2>2
  <2>6. WalkType'
    BY <1>3, <2>1, <2>3, <2>4, <2>5 DEF WalkType
  <2> QED
    BY <1>3, <2>6, TypeHalvesNext
<1> QED
  BY <1>6, <1>7, <1>8, <1>9, <1>10

\* Every variable of recovery keeps its type, for every mount.
THEOREM TypeCorrect == Spec => []TypeOK
<1>1. Init => TypeOK
  BY InitType
<1>2. TypeOK /\ [Next]_vars => TypeOK'
  <2>1. CASE Next
    BY <2>1, RunType, ReadType, EndType DEF Next
  <2>2. CASE TypeOK /\ UNCHANGED vars
    <3>1. DiskType /\ WalkType
      BY <2>2, TypeHalves
    <3>2. DiskType'
      BY <2>2, DiskTypeKept DEF vars
    <3>3. WalkType'
      BY <2>2, <3>1 DEF WalkType, vars, diskVars, walkVars
    <3> QED
      BY <3>2, <3>3, TypeHalvesNext
  <2> QED
    BY <2>1, <2>2
<1> QED
  BY <1>1, <1>2, PTL DEF Spec

-----------------------------------------------------------------------------
(* The end of the log *)

\* What the log says does not change while the disk stays as it is.
LEMMA LogKept ==
  ASSUME UNCHANGED diskVars
  PROVE  /\ UNCHANGED <<opt, last, dur, missing, image>>
         /\ \A t : Revoked(t)' = Revoked(t) /\ Logged(t)' = Logged(t)
         /\ \A t, b : LogBlock(t, b)' = LogBlock(t, b)
BY DEF diskVars, Revoked, Logged, LogBlock

\* A pass starts at the first block of a whole log.
LEMMA StartPassGap ==
  ASSUME TypeOK, NEW p \in {"scan", "revoke", "replay"}, StartPass(p), UNCHANGED diskVars,
         MissingInv, phase # "run"
  PROVE  Walking' /\ Whole(next_commit_ID)' /\ PartInv'
<1>1. last \in Nat /\ next_commit_ID' = 1 /\ phase' = p /\ Tids = 1 .. opt.tids /\ opt.tids \in Nat
  BY OptionTypes DEF StartPass, TypeOK, Tids
<1>2. Whole(next_commit_ID)'
  BY <1>1, LogKept DEF Whole
<1>3. last # 0 => part' = FirstPart(1)
  BY DEF StartPass
<1>4. PartInv'
  <2>1. CASE last = 0
    BY <1>1, <2>1, LogKept DEF PartInv
  <2>2. CASE last # 0
    <3>1. missing[1] = "revoke" => Revoked(1) # {}
      BY <1>1, <2>2 DEF MissingInv
    <3> QED
      BY <1>1, <1>3, <2>2, <3>1, LogKept DEF PartInv, FirstPart
  <2> QED
    BY <2>1, <2>2
<1> QED
  BY <1>1, <1>2, <1>4 DEF Walking

\* A pass that goes on to the next transaction has passed a whole one.
LEMMA NextGap ==
  ASSUME TypeOK, GapInv, Here("commit"), NextTransaction, UNCHANGED diskVars
  PROVE  Whole(next_commit_ID)' /\ PartInv'
<1>1. /\ next_commit_ID \in 1 .. last /\ part = "commit" /\ Walking /\ phase # "run"
      /\ missing[next_commit_ID] # "commit" /\ last \in Nat
  BY HereType DEF TypeOK, Walking, Tids
<1>2. missing[next_commit_ID] = "none"
  BY <1>1, HereType DEF GapInv, PartInv, TypeOK, Parts
<1>3. next_commit_ID' = next_commit_ID + 1
  BY DEF NextTransaction
<1>4. Whole(next_commit_ID)'
  BY <1>1, <1>2, <1>3, LogKept DEF GapInv, Whole
<1>5. PartInv'
  <2>1. CASE next_commit_ID < last
    <3>1. part' = FirstPart(next_commit_ID + 1)
      BY <2>1 DEF NextTransaction
    <3>2. missing[next_commit_ID + 1] = "revoke" => Revoked(next_commit_ID + 1) # {}
      BY <1>1, <2>1 DEF GapInv, MissingInv
    <3> QED
      BY <1>3, <3>1, <3>2, LogKept DEF PartInv, FirstPart
  <2>2. CASE ~(next_commit_ID < last)
    BY <1>1, <1>3, <2>2, LogKept DEF PartInv
  <2> QED
    BY <2>1, <2>2
<1> QED
  BY <1>4, <1>5

\* The invariant does not depend on anything before the crash.
LEMMA RunGap ==
  ASSUME TypeOK, GapInv, Commit \/ Settle \/ Crash
  PROVE  GapInv'
<1>1. CASE Commit \/ Settle
  <2>1. phase' = "run" /\ phase = "run" /\ UNCHANGED <<end_transaction, restarts>>
    BY <1>1 DEF Commit, Settle, walkVars
  <2> QED
    BY <2>1 DEF GapInv, MissingInv, Walking
<1>2. CASE Crash
  <2>1. /\ phase' = "scan" /\ next_commit_ID' = 1 /\ last' = last /\ last \in Nat \ {0}
        /\ part' = FirstPart(1) /\ op' = op /\ opt' = opt /\ opt.tids \in Nat
        /\ end_transaction' = end_transaction /\ dc' = [b \in Blocks |-> 0]
    BY <1>2, OptionTypes DEF Crash, StartPass, TypeOK
  <2>2. \A t \in Tids : missing'[t] = "revoke" => FirstPart(t) = "revoke"
    BY <1>2 DEF Crash
  <2>3. \A t \in 1 .. last : missing'[t] = "revoke" => Revoked(t) # {}
    <3>1. 1 .. last \subseteq Tids
      BY <2>1 DEF TypeOK, Tids
    <3>2. \A t : FirstPart(t) = "revoke" => Revoked(t) # {}
      BY DEF FirstPart
    <3> QED
      BY <2>2, <3>1, <3>2
  <2>4. \A t : Revoked(t)' = Revoked(t)
    BY <2>1 DEF Revoked
  <2>5. MissingInv'
    BY <2>1, <2>3, <2>4 DEF MissingInv
  <2>6. PartInv'
    BY <2>1, <2>3, <2>4 DEF PartInv, FirstPart
  <2>7. Whole(next_commit_ID)'
    BY <2>1 DEF Whole
  <2>8. end_transaction = 0
    BY <1>2 DEF Crash, GapInv
  <2> QED
    BY <2>1, <2>5, <2>6, <2>7, <2>8 DEF GapInv, Walking
<1> QED
  BY <1>1, <1>2

\* Reading a header block keeps the invariant: the walk goes to the next part of
\* the same transaction, or past a whole one, and a mismatch is of this one.
LEMMA ReadGap ==
  ASSUME TypeOK, GapInv,
         \/ ScanDescriptor \/ calc_chksums_fails \/ SkipDescriptor \/ ReplayDescriptor
         \/ ScanCommit \/ PassCommit \/ ScanRevoke
  PROVE  GapInv'
<1>1. UNCHANGED <<diskVars, phase, err, restarts>>
  BY DEF ScanDescriptor, calc_chksums_fails, SkipDescriptor, ReplayDescriptor,
         ScanCommit, PassCommit, ScanRevoke
<1>2. PICK p \in Parts : Here(p)
  BY DEF ScanDescriptor, calc_chksums_fails, SkipDescriptor, ReplayDescriptor,
         ScanCommit, PassCommit, ScanRevoke, Parts
<1>3. /\ next_commit_ID \in 1 .. last /\ part = p /\ Walking /\ Walking' /\ phase # "run"
      /\ missing[next_commit_ID] # part /\ last \in Nat /\ next_commit_ID \in Tids
      /\ Whole(next_commit_ID) /\ PartInv /\ MissingInv
  BY <1>1, <1>2, HereType DEF TypeOK, Walking, Tids, GapInv
<1>4. MissingInv'
  BY <1>1, <1>3, LogKept DEF MissingInv
<1>5. ASSUME UNCHANGED next_commit_ID, part' \in {"desc", "commit", "beyond"},
             part' = "desc" => part = "revoke", part' = "commit" => part = "desc"
      PROVE  Whole(next_commit_ID)' /\ PartInv'
  <2>1. Whole(next_commit_ID)'
    BY <1>1, <1>3, <1>5, LogKept DEF Whole
  <2>2. PartInv'
    BY <1>1, <1>3, <1>5, LogKept DEF PartInv
  <2> QED
    BY <2>1, <2>2
<1>6. Whole(next_commit_ID)' /\ PartInv' /\ next_commit_ID' \in {next_commit_ID, next_commit_ID + 1}
  <2>1. CASE NextTransaction /\ part = "commit"
    <3>1. Here("commit")
      BY <1>2, <1>3, <2>1
    <3> QED
      BY <1>1, <2>1, <3>1, NextGap DEF NextTransaction
  <2>2. CASE UNCHANGED next_commit_ID /\ part' \in {"desc", "commit", "beyond"}
             /\ (part' = "desc" => part = "revoke") /\ (part' = "commit" => part = "desc")
    BY <1>5, <2>2
  <2> QED
    BY <1>3, <2>1, <2>2
       DEF ScanDescriptor, calc_chksums_fails, SkipDescriptor, ReplayDescriptor,
           ScanCommit, PassCommit, ScanRevoke, GoTo, Here
<1>7. next_commit_ID <= next_commit_ID' /\ next_commit_ID' \in Int /\ next_commit_ID \in Int
  BY <1>3, <1>6
<1>8. phase = "scan" => end_transaction' <= next_commit_ID'
  <2>1. phase = "scan" => end_transaction <= next_commit_ID /\ end_transaction \in Int
    BY DEF GapInv, TypeOK
  <2>2. end_transaction' \in {end_transaction, next_commit_ID}
    BY DEF ScanDescriptor, calc_chksums_fails, SkipDescriptor, ReplayDescriptor,
           ScanCommit, PassCommit, ScanRevoke
  <2> QED
    BY <1>7, <2>1, <2>2
<1>9. phase = "scan" => \A b \in Blocks : dc'[b] <= next_commit_ID'
  <2>1. phase = "scan" => \A b \in Blocks : dc[b] <= next_commit_ID /\ dc[b] \in Nat
    BY TypeHalves DEF GapInv, WalkType
  <2>2. CASE ScanDescriptor
    <3>1. \A b \in Blocks : dc'[b] \in {0, dc[b], next_commit_ID}
      BY <1>3, <2>2, VerifyTable DEF ScanDescriptor
    <3> QED
      BY <1>3, <1>7, <2>1, <3>1
  <2>3. CASE calc_chksums_fails
    <3>1. PICK d \in add_to_mismatched_blocks(dc, BadData(next_commit_ID), next_commit_ID) :
            dc' = delete_from_mismatched_blocks(d, Overwritten(next_commit_ID))
      BY <2>3 DEF calc_chksums_fails
    <3>2. \A b \in Blocks : d[b] \in {dc[b], next_commit_ID}
      BY DEF add_to_mismatched_blocks
    <3> QED
      BY <1>3, <1>7, <2>1, <3>1, <3>2 DEF delete_from_mismatched_blocks
  <2>4. CASE UNCHANGED dc
    BY <1>7, <2>1, <2>4
  <2> QED
    BY <2>2, <2>3, <2>4
       DEF SkipDescriptor, ReplayDescriptor, ScanCommit, PassCommit, ScanRevoke
<1>10. phase # "scan" => UNCHANGED end_transaction
  BY DEF ScanDescriptor, calc_chksums_fails, SkipDescriptor, ReplayDescriptor,
         ScanCommit, PassCommit, ScanRevoke
<1>11. phase \in {"revoke", "replay"} => Whole(end_transaction)'
  BY <1>1, <1>10, LogKept DEF GapInv, Whole
<1> QED
  BY <1>1, <1>3, <1>4, <1>6, <1>8, <1>9, <1>11 DEF GapInv, Walking

\* The end of a pass keeps the invariant: the end of the log is never behind
\* what the scan has read, and the later passes leave it alone.
LEMMA EndGap ==
  ASSUME TypeOK, GapInv, PassDone \/ SyncFails \/ ReadFails \/ WriteBack \/ Restart
  PROVE  GapInv'
<1>1. UNCHANGED diskVars
  BY DEF PassDone, SyncFails, ReadFails, WriteBack, Restart
<1>2. phase # "run" /\ MissingInv /\ MissingInv'
  <2>1. phase # "run" /\ MissingInv
    BY DEF PassDone, SyncFails, ReadFails, WriteBack, Restart, Walking, GapInv
  <2> QED
    BY <1>1, <2>1, LogKept DEF MissingInv
<1>3. CASE PassDone
  <2>1. CASE phase = "scan"
    <3>1. StartPass("revoke") /\ end_transaction' = ScanEnd
      BY <1>3, <2>1 DEF PassDone
    <3>2. Walking' /\ Whole(next_commit_ID)' /\ PartInv' /\ phase' = "revoke"
      BY <1>1, <1>2, <3>1, StartPassGap DEF StartPass
    <3>3. Whole(next_commit_ID) /\ last \in Nat
      BY <2>1 DEF GapInv, Walking, TypeOK
    <3>4. ScanEnd \in 1 .. opt.tids + 1 /\ ScanEnd <= next_commit_ID
      BY <2>1, ScanEndType DEF GapInv, TypeOK
    <3>5. Whole(end_transaction)'
      BY <1>1, <3>1, <3>3, <3>4, LogKept DEF Whole
    <3> QED
      BY <1>2, <3>2, <3>5 DEF GapInv, Walking
  <2>2. CASE phase = "revoke" /\ next_commit_ID = end_transaction
    <3>1. StartPass("replay") /\ UNCHANGED end_transaction /\ Whole(end_transaction)
      BY <1>3, <2>2 DEF PassDone, GapInv
    <3>2. Walking' /\ Whole(next_commit_ID)' /\ PartInv' /\ phase' = "replay"
      BY <1>1, <1>2, <3>1, StartPassGap DEF StartPass
    <3>3. Whole(end_transaction)'
      BY <1>1, <3>1, LogKept DEF Whole
    <3> QED
      BY <1>2, <3>2, <3>3 DEF GapInv, Walking
  <2>3. CASE phase = "revoke" /\ next_commit_ID # end_transaction
    BY <1>2, <1>3, <2>3 DEF PassDone, Finish, GapInv, Walking
  <2>4. CASE phase = "replay"
    <3>1. phase' = "done" /\ UNCHANGED end_transaction /\ Whole(end_transaction)
      BY <1>3, <2>4 DEF PassDone, Finish, GapInv
    <3>2. Whole(end_transaction)'
      BY <1>1, <3>1, LogKept DEF Whole
    <3> QED
      BY <1>2, <3>1, <3>2 DEF GapInv, Walking
  <2> QED
    BY <1>3, <2>1, <2>2, <2>3, <2>4 DEF PassDone
<1>4. CASE SyncFails \/ ReadFails
  <2>1. phase' = "done" /\ err'
    BY <1>4 DEF SyncFails, ReadFails, Finish
  <2> QED
    BY <1>2, <2>1 DEF GapInv, Walking
<1>5. CASE WriteBack
  BY <1>1, <1>2, <1>5, LogKept DEF WriteBack, walkVars, GapInv, Walking, Whole, PartInv
<1>6. CASE Restart
  <2>1. StartPass("scan") /\ end_transaction' = 0
    BY <1>6 DEF Restart
  <2>2. Walking' /\ Whole(next_commit_ID)' /\ PartInv' /\ phase' = "scan"
    BY <1>1, <1>2, <2>1, StartPassGap DEF StartPass
  <2>3. next_commit_ID' = 1 /\ \A b \in Blocks : dc'[b] = 0
    BY <2>1 DEF StartPass
  <2> QED
    BY <1>2, <2>1, <2>2, <2>3 DEF GapInv, Walking
<1> QED
  BY <1>3, <1>4, <1>5, <1>6

\* The scan stops at the first transaction that is not whole: the invariant of
\* the end of the log, for every behaviour.
THEOREM EndOfLog == Spec => [](TypeOK /\ GapInv)
<1>1. Init => TypeOK /\ GapInv
  <2>1. Init => GapInv
    BY DEF Init, GapInv, MissingInv, Walking
  <2> QED
    BY <2>1, InitType
<1>2. TypeOK /\ GapInv /\ [Next]_vars => GapInv'
  <2>1. ASSUME TypeOK, GapInv, Next PROVE GapInv'
    BY <2>1, RunGap, ReadGap, EndGap DEF Next
  <2>2. ASSUME GapInv, UNCHANGED vars PROVE GapInv'
    <3>1. UNCHANGED diskVars /\ UNCHANGED walkVars
          /\ UNCHANGED <<home, mem, phase, err, sequence, failures, restarts>>
      BY <2>2 DEF vars
    <3> QED
      BY <2>2, <3>1, LogKept DEF walkVars, GapInv, MissingInv, Walking, Whole, PartInv
  <2> QED
    BY <2>1, <2>2
<1> QED
  BY <1>1, <1>2, TypeCorrect, PTL DEF Spec

\* No recovery that reports success takes a transaction that is not whole, nor
\* one behind it, for committed.
THEOREM StopsAtGap == Spec => []NeverPastGap
<1>1. TypeOK /\ GapInv => NeverPastGap
  <2> SUFFICES ASSUME TypeOK, GapInv, Recovered PROVE end_transaction <= Gap
    BY DEF NeverPastGap
  <2> DEFINE S == {t \in 1 .. last + 1 : t = last + 1 \/ missing[t] # "none"}
  <2>1. last \in Nat /\ Whole(end_transaction)
    BY DEF TypeOK, GapInv, Recovered
  <2>2. S \in SUBSET Nat /\ last + 1 \in S
    BY <2>1
  <2>3. Gap \in S
    BY <2>2, MinIsSmallest DEF Gap
  <2>4. \A t \in S : end_transaction <= t
    BY <2>1 DEF Whole
  <2> QED
    BY <2>3, <2>4
<1> QED
  BY <1>1, EndOfLog, PTL

-----------------------------------------------------------------------------
(* The revoke table and the replay *)

\* Steps that do not concern the revoke table keep its invariant.
LEMMA RevokeInvStep ==
  ASSUME TypeOK, GapInv, RevokeInv, Next
  PROVE  RevokeInv'
<1>1. CASE Commit \/ Settle \/ SyncFails \/ ReadFails
  <2>1. phase' = "done" \/ (phase = "run" /\ phase' = "run" /\ UNCHANGED revokes)
    BY <1>1 DEF Commit, Settle, SyncFails, ReadFails, Finish, walkVars
  <2> QED
    BY <2>1 DEF RevokeInv
<1>2. CASE Crash
  <2>1. phase' = "scan" /\ phase = "run" /\ UNCHANGED revokes
    BY <1>2 DEF Crash, StartPass
  <2> QED
    BY <2>1 DEF RevokeInv
<1>3. CASE Restart
  <2>1. phase' = "scan" /\ revokes' = [b \in Blocks |-> 0]
    BY <1>3 DEF Restart, StartPass
  <2> QED
    BY <2>1 DEF RevokeInv
<1>4. CASE WriteBack
  <2>1. UNCHANGED <<phase, revokes, next_commit_ID, part, end_transaction>> /\ UNCHANGED diskVars
    BY <1>4 DEF WriteBack, walkVars
  <2> QED
    BY <2>1, LogKept DEF RevokeInv, Covers
<1>5. CASE ScanDescriptor \/ calc_chksums_fails \/ ScanCommit
  <2>1. phase = "scan" /\ UNCHANGED <<phase, revokes>>
    BY <1>5 DEF ScanDescriptor, calc_chksums_fails, ScanCommit
  <2> QED
    BY <2>1 DEF RevokeInv
<1>6. CASE SkipDescriptor \/ ReplayDescriptor
  <2>1. /\ UNCHANGED <<phase, revokes, next_commit_ID, end_transaction>> /\ UNCHANGED diskVars
        /\ part = "desc" /\ part' = "commit"
    BY <1>6, HereType DEF SkipDescriptor, ReplayDescriptor, GoTo
  <2> QED
    BY <2>1, LogKept DEF RevokeInv, Covers
<1>7. CASE PassCommit
  <2>1. /\ UNCHANGED <<phase, revokes, end_transaction>> /\ UNCHANGED diskVars
        /\ part = "commit" /\ Here("commit") /\ NextTransaction
    BY <1>7, HereType DEF PassCommit
  <2>2. /\ phase # "scan" => next_commit_ID < end_transaction
        /\ next_commit_ID \in Nat /\ end_transaction \in Nat /\ last \in Nat
        /\ phase \in {"scan", "revoke", "replay"}
    BY <2>1, HereType DEF TypeOK
  <2>3. next_commit_ID' = next_commit_ID + 1 /\ part' \in {"revoke", "desc"}
        /\ (part' = "desc" => Revoked(next_commit_ID + 1) = {} \/ next_commit_ID >= last)
    BY <2>1, <2>2 DEF NextTransaction, FirstPart
  <2>4. phase # "scan" => end_transaction \in 1 .. last + 1
    BY <2>2 DEF GapInv, Whole
  <2>5. phase = "revoke" =>
          \A r \in 1 .. end_transaction - 1 :
            r < next_commit_ID' \/ (r = next_commit_ID' /\ part' # "revoke") => Covers(r)
    <3> SUFFICES ASSUME phase = "revoke", NEW r \in 1 .. end_transaction - 1,
                        r < next_commit_ID + 1 \/ (r = next_commit_ID + 1 /\ part' = "desc")
                 PROVE  Covers(r)
      BY <2>3
    <3>1. CASE r < next_commit_ID + 1
      BY <2>1, <2>2, <3>1 DEF RevokeInv
    <3>2. CASE r = next_commit_ID + 1 /\ part' = "desc"
      BY <2>2, <2>3, <2>4, <3>2 DEF Covers
    <3> QED
      BY <3>1, <3>2
  <2>6. \A r : Covers(r)' <=> Covers(r)
    BY <2>1, LogKept DEF Covers
  <2> QED
    BY <2>1, <2>2, <2>3, <2>5, <2>6, LogKept DEF RevokeInv
<1>8. CASE ScanRevoke
  <2>1. /\ UNCHANGED <<phase, next_commit_ID, end_transaction>> /\ UNCHANGED diskVars
        /\ part = "revoke" /\ part' = "desc" /\ Here("revoke")
    BY <1>8, HereType DEF ScanRevoke, GoTo
  <2>2. CASE phase # "revoke"
    BY <1>8, <2>1, <2>2, LogKept DEF ScanRevoke, RevokeInv, Covers
  <2>3. CASE phase = "revoke"
    <3>1. /\ next_commit_ID \in Nat \ {0} /\ end_transaction \in Nat
          /\ next_commit_ID < end_transaction /\ revokes \in [Blocks -> Nat]
      BY <2>1, <2>3, HereType DEF TypeOK
    <3>2. \A b \in Blocks :
            revokes'[b] = IF b \in Revoked(next_commit_ID) /\ revokes[b] < next_commit_ID
                          THEN next_commit_ID ELSE revokes[b]
      BY <1>8, <2>3 DEF ScanRevoke, set_revoke
    <3>3. \A b \in Blocks : revokes[b] <= revokes'[b] /\ revokes'[b] \in Nat
      BY <3>1, <3>2
    <3>4. \A b \in Blocks : revokes'[b] # 0 =>
            revokes'[b] \in 1 .. end_transaction - 1 /\ b \in Revoked(revokes'[b])
      BY <2>3, <3>1, <3>2 DEF RevokeInv
    <3>5. \A r \in 1 .. end_transaction - 1 :
            r <= next_commit_ID => \A b \in Revoked(r) : r <= revokes'[b]
      <4> SUFFICES ASSUME NEW r \in 1 .. end_transaction - 1, r <= next_commit_ID,
                          NEW b \in Revoked(r)
                   PROVE  r <= revokes'[b]
        OBVIOUS
      <4>1. b \in Blocks
        BY DEF Revoked
      <4>2. CASE r = next_commit_ID
        BY <3>1, <3>2, <4>1, <4>2
      <4>3. CASE r < next_commit_ID
        <5>1. r <= revokes[b]
          BY <2>3, <4>3 DEF RevokeInv, Covers
        <5> QED
          BY <3>1, <3>3, <4>1, <5>1
      <4> QED
        BY <3>1, <4>2, <4>3
    <3>6. \A r : Revoked(r)' = Revoked(r)
      BY <2>1, LogKept
    <3>7. \A r \in 1 .. end_transaction - 1 : r <= next_commit_ID => Covers(r)'
      BY <3>5, <3>6 DEF Covers
    <3>8. \A b \in Blocks : revokes'[b] # 0 => b \in Revoked(revokes[b])'
      BY <2>1, <3>4 DEF Revoked, diskVars
    <3> QED
      BY <2>1, <2>3, <3>1, <3>4, <3>7, <3>8 DEF RevokeInv
  <2> QED
    BY <2>2, <2>3
<1>9. CASE PassDone
  <2>1. UNCHANGED diskVars
    BY <1>9 DEF PassDone
  <2>2. CASE phase = "scan"
    <3>1. /\ phase' = "revoke" /\ UNCHANGED revokes /\ next_commit_ID' = 1
          /\ end_transaction' = ScanEnd /\ part' \in {"desc", "revoke"}
          /\ (part' = "desc" => last = 0 \/ Revoked(1) = {})
      BY <1>9, <2>2 DEF PassDone, StartPass, FirstPart
    <3>2. Whole(end_transaction)' /\ last \in Nat
      BY <1>9, <3>1, EndGap DEF GapInv, TypeOK
    <3>3. end_transaction' \in 1 .. last + 1
      BY <2>1, <3>2, LogKept DEF Whole
    <3>4. \A r : Revoked(r)' = Revoked(r)
      BY <2>1, LogKept
    <3>5. \A r \in 1 .. end_transaction' - 1 :
            r < 1 \/ (r = 1 /\ part' # "revoke") => Revoked(r)' = {}
      BY <3>1, <3>2, <3>3, <3>4
    <3>6. \A r \in 1 .. end_transaction' - 1 :
            r < 1 \/ (r = 1 /\ part' # "revoke") => Covers(r)'
      BY <3>5 DEF Covers
    <3> QED
      BY <2>2, <3>1, <3>3, <3>6 DEF RevokeInv
  <2>3. CASE phase = "revoke" /\ next_commit_ID = end_transaction
    <3>1. /\ phase' = "replay" /\ UNCHANGED <<revokes, end_transaction>> /\ next_commit_ID' = 1
          /\ part' \in {"desc", "revoke"}
      BY <1>9, <2>3 DEF PassDone, StartPass, FirstPart
    <3>2. Whole(end_transaction)
      BY <2>3 DEF GapInv
    <3>3. end_transaction \in Nat \ {0}
      BY <3>2 DEF Whole, TypeOK
    <3>4. \A r \in 1 .. end_transaction - 1 : Covers(r)
      BY <2>3, <3>3 DEF RevokeInv
    <3>5. \A r : Covers(r)' <=> Covers(r)
      BY <2>1, <3>1, LogKept DEF Covers
    <3>6. \A b \in Blocks : revokes[b] # 0 =>
            revokes[b] \in 1 .. end_transaction - 1 /\ b \in Revoked(revokes[b])
      BY <2>3 DEF RevokeInv
    <3>7. \A b \in Blocks : revokes'[b] # 0 => b \in Revoked(revokes[b])'
      BY <2>1, <3>1, <3>6 DEF Revoked, diskVars
    <3> QED
      BY <3>1, <3>3, <3>4, <3>5, <3>6, <3>7 DEF RevokeInv
  <2>4. CASE phase' = "done"
    BY <2>4 DEF RevokeInv
  <2> QED
    BY <1>9, <2>2, <2>3, <2>4 DEF PassDone, Finish
<1> QED
  BY <1>1, <1>2, <1>3, <1>4, <1>5, <1>6, <1>7, <1>8, <1>9 DEF Next

\* The replay asks the table, and what the table says of a copy is whether a
\* transaction before the end of the log has revoked it since.
LEMMA RevokeTableRight ==
  ASSUME TypeOK, GapInv, RevokeInv, phase = "replay", NEW b \in Blocks,
         NEW t \in 1 .. end_transaction - 1
  PROVE  ~test_revoke(b, t) <=> \A r \in t .. end_transaction - 1 : b \notin Revoked(r)
<1>1. end_transaction \in Nat /\ revokes[b] \in Nat
  BY DEF TypeOK
<1>2. revokes[b] # 0 => revokes[b] \in 1 .. end_transaction - 1 /\ b \in Revoked(revokes[b])
  BY DEF RevokeInv
<1>3. \A r \in 1 .. end_transaction - 1 : b \in Revoked(r) => r <= revokes[b]
  BY DEF RevokeInv, Covers
<1> QED
  BY <1>1, <1>2, <1>3 DEF test_revoke

\* What a pass over the log finds alive does not change while the end stands.
LEMMA AliveKept ==
  ASSUME UNCHANGED diskVars, UNCHANGED end_transaction
  PROVE  \A b, t : Alive(b, t)' <=> Alive(b, t)
BY LogKept DEF Alive

\* The cache invariant survives every step, while recovery is not repeated.
LEMMA ReplayInvStep ==
  ASSUME TypeOK, GapInv, RevokeInv, ReplayInv, Next
  PROVE  ReplayInv'
<1>1. CASE Commit \/ Settle \/ SyncFails \/ ReadFails
  <2>1. phase' = "run" \/ (phase' = "done" /\ err')
    BY <1>1 DEF Commit, Settle, SyncFails, ReadFails, Finish
  <2> QED
    BY <2>1 DEF ReplayInv, ReplayMatchesLog, Recovered
<1>2. CASE Crash
  <2>1. phase' = "scan" /\ home' = image' /\ mem' = image'
    BY <1>2 DEF Crash, StartPass
  <2> QED
    BY <2>1 DEF ReplayInv, ReplayMatchesLog, Recovered
<1>3. CASE Restart
  <2>1. restarts' # 0
    BY <1>3 DEF Restart, TypeOK
  <2> QED
    BY <2>1 DEF ReplayInv
<1>4. CASE WriteBack
  <2>1. /\ UNCHANGED <<phase, mem, restarts, next_commit_ID, part, end_transaction, success>>
        /\ UNCHANGED diskVars /\ home' # home
    <3>1. PICK b \in Blocks : home[b] # mem[b] /\ home' = [home EXCEPT ![b] = mem[b]]
      BY <1>4 DEF WriteBack
    <3>2. home'[b] # home[b]
      BY <3>1 DEF TypeOK
    <3> QED
      BY <1>4, <3>2 DEF WriteBack, walkVars
  <2>2. phase \in {"scan", "revoke", "replay"}
    BY <1>4 DEF WriteBack, Walking
  <2>3. restarts = 0 => phase = "replay"
    BY <1>4, <2>2 DEF ReplayInv, WriteBack
  <2>4. \A b : CacheRight(b)' <=> CacheRight(b)
    BY <2>1, AliveKept, LogKept DEF CacheRight, Past
  <2> QED
    BY <2>1, <2>3, <2>4 DEF ReplayInv, ReplayMatchesLog, Recovered
<1>5. CASE ScanDescriptor \/ calc_chksums_fails \/ ScanCommit
  <2>1. phase = "scan" /\ UNCHANGED <<phase, home, mem, restarts>> /\ UNCHANGED diskVars
    BY <1>5 DEF ScanDescriptor, calc_chksums_fails, ScanCommit
  <2> QED
    BY <2>1, LogKept DEF ReplayInv, ReplayMatchesLog, Recovered
<1>6. CASE SkipDescriptor
  <2>1. phase = "revoke" /\ UNCHANGED <<phase, home, mem, restarts>> /\ UNCHANGED diskVars
    BY <1>6 DEF SkipDescriptor
  <2> QED
    BY <2>1, LogKept DEF ReplayInv, ReplayMatchesLog, Recovered
<1>7. CASE PassCommit \/ ScanRevoke
  <2>1. /\ UNCHANGED <<phase, home, mem, restarts, end_transaction, success>> /\ UNCHANGED diskVars
        /\ phase \in {"scan", "revoke", "replay"} /\ next_commit_ID \in Nat /\ end_transaction \in Nat
    BY <1>7, HereType DEF PassCommit, ScanRevoke, TypeOK
  <2>2. \A t \in Nat : Past(t)' <=> Past(t)
    <3>1. CASE PassCommit
      <4>1. part = "commit" /\ next_commit_ID' = next_commit_ID + 1 /\ part' # "commit"
        BY <3>1, HereType DEF PassCommit, NextTransaction, FirstPart
      <4> QED
        BY <2>1, <4>1 DEF Past
    <3>2. CASE ScanRevoke
      <4>1. part = "revoke" /\ next_commit_ID' = next_commit_ID /\ part' = "desc"
        BY <3>2, HereType DEF ScanRevoke, GoTo
      <4> QED
        BY <2>1, <4>1 DEF Past
    <3> QED
      BY <1>7, <3>1, <3>2
  <2>3. \A b : CacheRight(b)' <=> CacheRight(b)
    <3>1. \A t \in 1 .. end_transaction - 1 : Past(t)' <=> Past(t)
      BY <2>1, <2>2
    <3> QED
      BY <2>1, <3>1, AliveKept, LogKept DEF CacheRight
  <2> QED
    BY <2>1, <2>3, LogKept DEF ReplayInv, ReplayMatchesLog, Recovered
<1>8. CASE ReplayDescriptor
  <2>1. /\ UNCHANGED <<phase, home, restarts, end_transaction, next_commit_ID>>
        /\ UNCHANGED diskVars /\ phase = "replay" /\ part = "desc" /\ part' = "commit"
        /\ next_commit_ID \in 1 .. end_transaction - 1 /\ end_transaction \in Nat
    BY <1>8, HereType DEF ReplayDescriptor, GoTo, TypeOK
  <2>2. PICK read :
          /\ IF read = Logged(next_commit_ID)
               THEN UNCHANGED <<failures, success>>
               ELSE MayFail /\ success' = FALSE
          /\ mem' = [b \in Blocks |-> IF b \in Replayed(next_commit_ID, read)
                                        THEN LogBlock(next_commit_ID, b) ELSE mem[b]]
    BY <1>8 DEF ReplayDescriptor
  <2> SUFFICES ASSUME restarts = 0, success', NEW b \in Blocks PROVE CacheRight(b)'
    BY <2>1 DEF ReplayInv, ReplayMatchesLog, Recovered
  <2>3. read = Logged(next_commit_ID) /\ success
    BY <2>2
  <2>4. CacheRight(b)
    BY <2>1, <2>3 DEF ReplayInv
  <2>5. b \in Replayed(next_commit_ID, read) <=> Alive(b, next_commit_ID)
    BY <2>1, <2>3, RevokeTableRight DEF Replayed, Alive
  <2>6. mem'[b] = IF Alive(b, next_commit_ID) THEN LogBlock(next_commit_ID, b) ELSE mem[b]
    BY <2>2, <2>5
  <2>7. \A t \in 1 .. end_transaction - 1 : Past(t)' <=> Past(t) \/ t = next_commit_ID
    BY <2>1 DEF Past
  <2>8. \A t \in 1 .. end_transaction - 1 : Past(t) => t < next_commit_ID
    BY <2>1 DEF Past
  <2>9. \A t : /\ Alive(b, t)' <=> Alive(b, t)
               /\ LogBlock(t, b)' = LogBlock(t, b) /\ image' = image
    BY <2>1, AliveKept, LogKept
  <2>10. CASE Alive(b, next_commit_ID)
    <3>2. \A u \in 1 .. end_transaction - 1 : Past(u)' /\ Alive(b, u)' => u <= next_commit_ID
      BY <2>1, <2>7, <2>8
    <3>3. \E t \in 1 .. end_transaction - 1 :
            /\ Past(t)' /\ Alive(b, t)' /\ mem'[b] = LogBlock(t, b)'
            /\ \A u \in 1 .. end_transaction - 1 : Past(u)' /\ Alive(b, u)' => u <= t
      BY <2>1, <2>6, <2>7, <2>9, <2>10, <3>2
    <3> QED
      BY <2>1, <3>3 DEF CacheRight
  <2>11. CASE ~Alive(b, next_commit_ID)
    <3>1. mem'[b] = mem[b]
      BY <2>6, <2>11
    <3>2. \A t \in 1 .. end_transaction - 1 :
            Past(t)' /\ Alive(b, t)' <=> Past(t) /\ Alive(b, t)
      BY <2>7, <2>8, <2>9, <2>11, <2>1
    <3> QED
      BY <2>1, <2>4, <2>9, <3>1, <3>2 DEF CacheRight
  <2> QED
    BY <2>10, <2>11
<1>9. CASE PassDone
  <2>1. UNCHANGED diskVars /\ UNCHANGED <<mem, restarts>>
    BY <1>9 DEF PassDone
  <2>2. CASE phase = "scan"
    <3>1. phase' = "revoke" /\ UNCHANGED home
      BY <1>9, <2>2 DEF PassDone, StartPass
    <3> QED
      BY <2>1, <2>2, <3>1, LogKept DEF ReplayInv, ReplayMatchesLog, Recovered
  <2>3. CASE phase = "revoke" /\ next_commit_ID = end_transaction
    <3>1. /\ phase' = "replay" /\ UNCHANGED home /\ next_commit_ID' = 1
          /\ part' \in {"desc", "revoke"} /\ UNCHANGED end_transaction
      BY <1>9, <2>3 DEF PassDone, StartPass, FirstPart
    <3>2. \A t \in 1 .. end_transaction - 1 : ~Past(t)'
      BY <3>1 DEF Past, TypeOK
    <3>3. restarts = 0 => \A b \in Blocks : CacheRight(b)'
      BY <2>1, <2>3, <3>1, <3>2, LogKept DEF CacheRight, ReplayInv
    <3> QED
      BY <2>1, <3>1, <3>3 DEF ReplayInv, ReplayMatchesLog, Recovered
  <2>4. CASE phase = "revoke" /\ next_commit_ID # end_transaction
    <3>1. phase' = "done" /\ err'
      BY <1>9, <2>4 DEF PassDone, Finish
    <3> QED
      BY <3>1 DEF ReplayInv, ReplayMatchesLog, Recovered
  <2>5. CASE phase = "replay"
    <3>1. /\ phase' = "done" /\ home' = mem /\ UNCHANGED end_transaction
          /\ err' = ~(success /\ next_commit_ID = end_transaction)
      BY <1>9, <2>5 DEF PassDone, Finish
    <3> SUFFICES ASSUME restarts = 0, ~err', NEW b \in Blocks PROVE mem[b] = Reference(b)'
      BY <2>1, <3>1 DEF ReplayInv, ReplayMatchesLog, Recovered
    <3>2. success /\ next_commit_ID = end_transaction
      BY <3>1
    <3>3. CacheRight(b) /\ end_transaction \in Nat
      BY <2>5, <3>2 DEF ReplayInv, TypeOK
    <3> DEFINE alive == {t \in 1 .. end_transaction - 1 :
                  b \in Logged(t) /\ \A r \in t .. end_transaction - 1 : b \notin Revoked(r)}
    <3>4. Reference(b)' = IF alive = {} THEN image[b] ELSE LogBlock(Max(alive), b)
      <4>1. UNCHANGED <<opt, last, op, val, stale, fill, image, end_transaction>>
        BY <2>1, <3>1 DEF diskVars
      <4> QED
        BY <4>1 DEF Reference, Logged, Revoked, LogBlock
    <3>5. \A t \in 1 .. end_transaction - 1 : Past(t) /\ (t \in alive <=> Alive(b, t))
      BY <3>2, <3>3 DEF Past, Alive
    <3>6. CASE alive = {}
      <4>1. mem[b] = image[b]
        BY <3>3, <3>5, <3>6 DEF CacheRight
      <4> QED
        BY <3>4, <3>6, <4>1
    <3>7. CASE alive # {}
      <4>1. PICK t \in 1 .. end_transaction - 1 :
              /\ t \in alive /\ mem[b] = LogBlock(t, b)
              /\ \A u \in alive : u <= t
        BY <3>3, <3>5, <3>7 DEF CacheRight
      <4>2. Max(alive) = t
        <5>1. alive \in SUBSET Int /\ t \in alive /\ \A u \in alive : t >= u
          BY <3>3, <4>1
        <5> HIDE DEF alive
        <5> QED
          BY <5>1, MaxIs
      <4> QED
        BY <3>4, <3>7, <4>1, <4>2
    <3> QED
      BY <3>6, <3>7
  <2> QED
    BY <1>9, <2>2, <2>3, <2>4, <2>5 DEF PassDone
<1> QED
  BY <1>1, <1>2, <1>3, <1>4, <1>5, <1>6, <1>7, <1>8, <1>9 DEF Next

\* A recovery that reports success, and does not repeat an earlier one, has
\* replayed exactly what the end of the log and the revoke records ask for,
\* whatever was mounted, written, lost and not readable.
THEOREM ReplaysTheLog == Spec => [](restarts = 0 => ReplayMatchesLog)
<1>1. Init => RevokeInv /\ ReplayInv
  BY DEF Init, RevokeInv, ReplayInv, ReplayMatchesLog, Recovered
<1>2. TypeOK /\ GapInv /\ RevokeInv /\ ReplayInv /\ [Next]_vars => RevokeInv' /\ ReplayInv'
  <2>1. ASSUME TypeOK, GapInv, RevokeInv, ReplayInv, Next PROVE RevokeInv' /\ ReplayInv'
    BY <2>1, RevokeInvStep, ReplayInvStep
  <2>2. ASSUME RevokeInv, ReplayInv, UNCHANGED vars PROVE RevokeInv' /\ ReplayInv'
    <3>1. UNCHANGED diskVars /\ UNCHANGED walkVars
          /\ UNCHANGED <<home, mem, phase, err, sequence, failures, restarts>>
      BY <2>2 DEF vars
    <3>2. RevokeInv'
      BY <2>2, <3>1, LogKept DEF walkVars, RevokeInv, Covers
    <3>3. \A b : CacheRight(b)' <=> CacheRight(b)
      BY <3>1, AliveKept, LogKept DEF CacheRight, Past, walkVars
    <3>4. \A b : Reference(b)' = Reference(b)
      BY <3>1 DEF Reference, Logged, Revoked, LogBlock, walkVars, diskVars
    <3>5. ReplayMatchesLog' <=> ReplayMatchesLog
      BY <3>1, <3>4 DEF ReplayMatchesLog, Recovered
    <3>6. image' = image /\ success' = success
      BY <3>1 DEF diskVars, walkVars
    <3>7. ReplayInv'
      BY <2>2, <3>1, <3>3, <3>5, <3>6 DEF ReplayInv
    <3> QED
      BY <3>2, <3>7
  <2> QED
    BY <2>1, <2>2
<1>3. ReplayInv => (restarts = 0 => ReplayMatchesLog)
  BY DEF ReplayInv
<1> QED
  BY <1>1, <1>2, <1>3, EndOfLog, PTL DEF Spec

-----------------------------------------------------------------------------
(* A prefix of the transactions: what the log and the crash leave *)

\* A commit adds a transaction whose copies have its tid, whose new data goes to
\* blocks freed since their last use and, where files only grow, never used.
LEMMA CommitHistory ==
  ASSUME TypeOK, LogInv, Commit
  PROVE  LogInv'
<1> SUFFICES ASSUME ~opt.zeroes, HistoryInv, Grows => GrowsInv
             PROVE  HistoryInv' /\ (Grows' => GrowsInv')
  BY DEF LogInv, Commit
<1>1. PICK o \in [Blocks -> Ops] :
        /\ \A b \in Blocks : o[b] \in Allowed(b)
        /\ op' = [op EXCEPT ![last + 1] = o]
        /\ owner' = [b \in Blocks |-> OwnerAfter(b, o[b])]
        /\ val' = [val EXCEPT ![last + 1] =
                     [b \in Blocks |-> IF o[b] \in {"none", "free"} THEN 0 ELSE last + 1]]
  <2>1. PICK o \in [Blocks -> Ops] :
          /\ \A b \in Blocks : o[b] \in Allowed(b)
          /\ op' = [op EXCEPT ![last + 1] = o]
          /\ owner' = [b \in Blocks |-> OwnerAfter(b, o[b])]
          /\ \E z \in IF opt.zeroes THEN SUBSET {b \in Blocks : o[b] \in {"new", "over"}} ELSE {{}} :
               val' = [val EXCEPT ![last + 1] =
                   [b \in Blocks |-> IF o[b] \in {"none", "free"} \/ b \in z THEN 0 ELSE last + 1]]
    BY DEF Commit
  <2>2. val' = [val EXCEPT ![last + 1] =
                 [b \in Blocks |-> IF o[b] \in {"none", "free"} \/ b \in {} THEN 0 ELSE last + 1]]
    BY <2>1
  <2>3. [b \in Blocks |-> IF o[b] \in {"none", "free"} \/ b \in {} THEN 0 ELSE last + 1]
          = [b \in Blocks |-> IF o[b] \in {"none", "free"} THEN 0 ELSE last + 1]
    OBVIOUS
  <2> QED
    BY <2>1, <2>2, <2>3
<1>2. /\ last \in Nat /\ last' = last + 1 /\ last + 1 \in Tids /\ 1 .. last \subseteq Tids
      /\ UNCHANGED <<opt, phase, home>> /\ phase = "run"
  BY OptionTypes DEF Commit, TypeOK, Tids
<1>3. \A t \in 1 .. last : op'[t] = op[t] /\ val'[t] = val[t]
  BY <1>1, <1>2 DEF TypeOK
<1>4. \A b \in Blocks :
        /\ op'[last + 1][b] = o[b] /\ o[b] \in Ops
        /\ val'[last + 1][b] = IF o[b] \in {"none", "free"} THEN 0 ELSE last + 1
        /\ owner'[b] = OwnerAfter(b, o[b]) /\ owner[b] \in {"free", "meta", "data"}
  BY <1>1, <1>2 DEF TypeOK
<1>5. \A t \in 1 .. last' : t \in 1 .. last \/ t = last + 1
  BY <1>2
<1>6. \A b \in Blocks :
        /\ o[b] = "new" => owner[b] = "free"
        /\ owner'[b] = "free" => o[b] = "free" \/ (o[b] = "none" /\ owner[b] = "free")
  BY <1>1, <1>4 DEF Allowed, OwnerAfter, Ops
<1>7. ASSUME NEW b \in Blocks, NEW u \in 1 .. last, NEW n \in 0 .. last, FreedSince(b, u, n)
      PROVE  \E r \in u .. n : op'[r][b] = "free"
  <2>1. PICK r \in u .. n : op[r][b] = "free"
    BY <1>7 DEF FreedSince
  <2>2. r \in 1 .. last
    BY <1>2
  <2>3. op'[r][b] = "free"
    BY <1>3, <2>1, <2>2
  <2> QED
    BY <2>3
<1>8. \A t \in 1 .. last', b \in Blocks : op'[t][b] \in Writes => val'[t][b] = t
  BY <1>2, <1>3, <1>4, <1>5 DEF HistoryInv, Writes
<1>9. ASSUME NEW t \in 1 .. last', NEW u \in 1 .. last', NEW b \in Blocks,
             u < t, op'[t][b] = "new", op'[u][b] # "none"
      PROVE  FreedSince(b, u, t - 1)'
  <2>1. u \in 1 .. last /\ op[u][b] # "none"
    BY <1>2, <1>3, <1>9
  <2>2. CASE t \in 1 .. last
    <3>1. FreedSince(b, u, t - 1)
      BY <1>3, <1>9, <2>1, <2>2 DEF HistoryInv
    <3>2. t - 1 \in 0 .. last
      BY <1>2, <2>2
    <3>3. \E r \in u .. t - 1 : op'[r][b] = "free"
      BY <1>7, <2>1, <3>1, <3>2
    <3> QED
      BY <3>3 DEF FreedSince
  <2>3. CASE t = last + 1
    <3>1. owner[b] = "free"
      BY <1>4, <1>6, <1>9, <2>3
    <3>2. FreedSince(b, u, last)
      BY <2>1, <3>1 DEF HistoryInv
    <3>3. \E r \in u .. last : op'[r][b] = "free"
      BY <1>2, <1>7, <2>1, <3>2
    <3>4. t - 1 = last
      BY <1>2, <2>3
    <3> QED
      BY <3>3, <3>4 DEF FreedSince
  <2> QED
    BY <1>5, <2>2, <2>3
<1>10. ASSUME NEW u \in 1 .. last', NEW b \in Blocks, owner'[b] = "free", op'[u][b] # "none"
       PROVE  FreedSince(b, u, last)'
  <2>1. CASE o[b] = "free"
    <3>1. op'[last + 1][b] = "free" /\ last + 1 \in u .. last'
      BY <1>2, <1>4, <2>1
    <3> QED
      BY <3>1 DEF FreedSince
  <2>2. CASE o[b] = "none" /\ owner[b] = "free"
    <3>1. u \in 1 .. last /\ op[u][b] # "none"
      BY <1>2, <1>3, <1>4, <1>5, <1>10, <2>2
    <3>2. FreedSince(b, u, last)
      BY <2>2, <3>1 DEF HistoryInv
    <3>3. PICK r \in u .. last : op'[r][b] = "free"
      BY <1>2, <1>7, <3>1, <3>2
    <3>4. r \in u .. last'
      BY <1>2
    <3> QED
      BY <3>3, <3>4 DEF FreedSince
  <2> QED
    BY <1>6, <1>10, <2>1, <2>2
<1>11. HistoryInv'
  BY <1>2, <1>8, <1>9, <1>10 DEF HistoryInv
<1>12. ASSUME Grows PROVE GrowsInv'
  <2>1. GrowsInv /\ ~opt.reuse /\ ~opt.over
    BY <1>12 DEF Grows
  <2>2. \A b \in Blocks :
          o[b] # "none" =>
            \/ owner[b] = "free" /\ o[b] \in {"meta", "new"} /\ \A t \in 1 .. last : op[t][b] = "none"
            \/ owner[b] = "meta" /\ o[b] \in {"meta", "free"}
            \/ owner[b] = "data" /\ o[b] = "free"
    BY <1>1, <1>4, <2>1 DEF Allowed, NeverUsed
  <2>3. ASSUME NEW t \in 1 .. last', NEW u \in 1 .. last', NEW b \in Blocks,
               u # t, op'[t][b] = "new"
        PROVE  op'[u][b] \in {"none", "free"}
    <3>1. CASE t \in 1 .. last /\ u \in 1 .. last
      BY <1>3, <2>1, <2>3, <3>1 DEF GrowsInv
    <3>2. CASE t = last + 1 /\ u \in 1 .. last
      BY <1>3, <1>4, <2>2, <2>3, <3>2
    <3>3. CASE t \in 1 .. last /\ u = last + 1
      <4>1. op[t][b] = "new" /\ owner[b] # "meta"
        BY <1>3, <2>1, <2>3, <3>3 DEF GrowsInv
      <4> QED
        BY <1>4, <2>2, <3>3, <4>1
    <3> QED
      BY <1>5, <2>3, <3>1, <3>2, <3>3
  <2>4. ASSUME NEW u \in 1 .. last', NEW b \in Blocks, owner'[b] = "meta"
        PROVE  op'[u][b] # "new"
    <3>1. o[b] = "meta" \/ (o[b] = "none" /\ owner[b] = "meta")
      BY <1>4, <2>4 DEF OwnerAfter, Ops
    <3>2. \A t \in 1 .. last : op[t][b] # "new"
      BY <2>1, <2>2, <3>1 DEF GrowsInv
    <3> QED
      BY <1>3, <1>4, <1>5, <3>1, <3>2
  <2> QED
    BY <2>3, <2>4 DEF GrowsInv
<1> QED
  BY <1>2, <1>11, <1>12 DEF Grows

\* What the transactions did to the blocks stays as it is after a commit.
LEMMA HistoryKept ==
  ASSUME TypeOK, LogInv, UNCHANGED <<opt, last, op, val, owner>>,
         phase' = "run" => phase = "run" /\ UNCHANGED home
  PROVE  LogInv'
<1> SUFFICES ASSUME ~opt.zeroes PROVE HistoryInv' /\ (Grows' => GrowsInv')
  BY DEF LogInv
<1>1. HistoryInv /\ (Grows => GrowsInv)
  BY DEF LogInv
<1>2. \A b, u, n : FreedSince(b, u, n)' <=> FreedSince(b, u, n)
  BY DEF FreedSince
<1>3. HistoryInv'
  BY <1>1, <1>2 DEF HistoryInv
<1>4. Grows' => GrowsInv'
  BY <1>1 DEF Grows, GrowsInv
<1> QED
  BY <1>3, <1>4

\* Every step keeps what is known of the transactions.
LEMMA LogInvStep ==
  ASSUME TypeOK, LogInv, Next
  PROVE  LogInv'
<1>1. CASE Commit
  BY <1>1, CommitHistory
<1>2. CASE Settle \/ Crash
  <2>1. /\ UNCHANGED <<opt, last, op, val, owner>>
        /\ phase' = "run" => phase = "run" /\ UNCHANGED home
    BY <1>2 DEF Settle, Crash, StartPass
  <2> QED
    BY <2>1, HistoryKept
<1>3. CASE ~(Commit \/ Settle \/ Crash)
  <2>1. UNCHANGED diskVars
    BY <1>3 DEF Next, ScanDescriptor, calc_chksums_fails, SkipDescriptor, ReplayDescriptor,
                ScanCommit, PassCommit, ScanRevoke, PassDone, SyncFails, ReadFails, WriteBack, Restart
  <2>2. phase' # "run"
    <3>1. CASE ScanDescriptor \/ calc_chksums_fails \/ SkipDescriptor \/ ReplayDescriptor
               \/ ScanCommit \/ PassCommit \/ ScanRevoke
      BY <3>1 DEF ScanDescriptor, calc_chksums_fails, SkipDescriptor, ReplayDescriptor,
                  ScanCommit, PassCommit, ScanRevoke, Here, Walking
    <3>2. CASE PassDone \/ SyncFails \/ ReadFails \/ WriteBack \/ Restart
      BY <3>2 DEF PassDone, SyncFails, ReadFails, WriteBack, Restart, Finish, StartPass, Walking
    <3> QED
      BY <1>3, <3>1, <3>2 DEF Next
  <2> QED
    BY <2>1, <2>2, HistoryKept DEF diskVars
<1> QED
  BY <1>1, <1>2, <1>3

\* What is in place of a block at the crash: nothing as yet, when no new data of
\* it is durable, or the copy of a transaction not older than such data.
LEMMA InPlaceIs ==
  ASSUME TypeOK, HistoryInv, phase = "run", NEW b \in Blocks, NEW c \in InPlace(b)
  PROVE  \/ c = 0 /\ \A t \in 1 .. dur : op[t][b] # "new"
         \/ \E u \in 1 .. last :
              /\ op[u][b] \in Writes /\ c = u
              /\ \A t \in 1 .. dur : op[t][b] = "new" => t <= u
<1> DEFINE S == {0} \cup DurableNew(b)
           since == Max(S)
<1>1. last \in Nat /\ dur \in 0 .. last
  BY DEF TypeOK
<1>2. S \in SUBSET (0 .. dur) /\ S # {}
  BY <1>1 DEF DurableNew
<1>3. since \in S /\ \A t \in S : since >= t
  <2> HIDE DEF S
  <2> QED
    BY <1>1, <1>2, MaxIsLargest
<1>4. c \in (IF since = 0 THEN {home[b]} ELSE {}) \cup
             {val[t][b] : t \in {u \in 1 .. last : u >= since /\
                (op[u][b] = "new" \/ (u <= dur /\ op[u][b] \in {"meta", "over"}))}}
  BY DEF InPlace
<1>5. \A t \in 1 .. dur : op[t][b] = "new" => t <= since
  BY <1>1, <1>3 DEF DurableNew
<1>6. since \in Nat
  BY <1>1, <1>2, <1>3
<1> HIDE DEF since
<1>7. CASE since = 0 /\ c = home[b]
  BY <1>1, <1>5, <1>7 DEF HistoryInv
<1>8. CASE ~(since = 0 /\ c = home[b])
  <2>1. PICK u \in 1 .. last : /\ u >= since /\ c = val[u][b]
                               /\ op[u][b] \in Writes
    BY <1>4, <1>8 DEF Writes
  <2>2. c = u
    BY <2>1 DEF HistoryInv
  <2>3. \A t \in 1 .. dur : op[t][b] = "new" => t <= u
    BY <1>1, <1>5, <1>6, <2>1
  <2> QED
    BY <2>1, <2>2, <2>3
<1> QED
  BY <1>7, <1>8

\* The crash leaves of the transactions what CrashInv says.
LEMMA CrashDisk ==
  ASSUME TypeOK, LogInv, Crash
  PROVE  DiskInv'
<1> SUFFICES ASSUME Dependable PROVE CrashInv'
  BY DEF DiskInv, Dependable, Grows, Flushed, Crash
<1>1. /\ HistoryInv /\ (Grows => GrowsInv) /\ phase = "run" /\ (Grows \/ Flushed)
      /\ UNCHANGED <<opt, last, dur, op>> /\ last \in Nat /\ dur \in 0 .. last
      /\ 1 .. last \subseteq Tids /\ (Flushed => dur = last)
  BY OptionTypes DEF LogInv, Dependable, Flushed, Crash, TypeOK, Tids
<1>2. \A b \in Blocks : image'[b] \in InPlace(b)
  BY DEF Crash
<1>3. \A t \in 1 .. last : stale'[t] = {} /\ (t <= dur => missing'[t] = "none")
  <2>1. \A t \in Tids : /\ t <= dur => missing'[t] = "none"
                        /\ t <= dur \/ ~opt.torn => stale'[t] = {}
    BY DEF Crash
  <2> QED
    BY <1>1, <2>1 DEF Grows
<1>4. ASSUME NEW t \in 1 .. last, NEW b \in Blocks, op[t][b] = "new"
      PROVE  /\ Grows => image'[b] = t \/ (image'[b] = 0 /\ t > dur)
             /\ Flushed => /\ image'[b] # 0
                           /\ (\A u \in t + 1 .. last : op[u][b] = "none") => image'[b] = t
  <2>1. CASE image'[b] = 0 /\ \A u \in 1 .. dur : op[u][b] # "new"
    BY <1>1, <1>4, <2>1
  <2>2. CASE \E u \in 1 .. last :
               /\ op[u][b] \in Writes /\ image'[b] = u
               /\ \A v \in 1 .. dur : op[v][b] = "new" => v <= u
    <3>1. PICK u \in 1 .. last : /\ op[u][b] \in Writes /\ image'[b] = u
                                 /\ \A v \in 1 .. dur : op[v][b] = "new" => v <= u
      BY <2>2
    <3>2. Grows => u = t
      BY <1>1, <1>4, <3>1 DEF GrowsInv, Writes
    <3>3. Flushed => t <= u
      BY <1>1, <1>4, <3>1
    <3>4. Flushed /\ (\A v \in t + 1 .. last : op[v][b] = "none") => u = t
      BY <1>1, <3>1, <3>3 DEF Writes
    <3> QED
      BY <1>1, <3>1, <3>2, <3>3, <3>4
  <2> QED
    BY <1>1, <1>2, <2>1, <2>2, InPlaceIs
<1>5. (Grows' <=> Grows) /\ (Flushed' <=> Flushed)
  BY <1>1 DEF Grows, Flushed
<1>6. Grows => \A t \in 1 .. last, b \in Blocks :
                 op[t][b] = "new" => image'[b] = t \/ (image'[b] = 0 /\ t > dur)
  BY <1>4
<1>7. Flushed => \A t \in 1 .. last, b \in Blocks :
                   op[t][b] = "new" =>
                     /\ image'[b] # 0
                     /\ (\A u \in t + 1 .. last : op[u][b] = "none") => image'[b] = t
  BY <1>4
<1> QED
  BY <1>1, <1>3, <1>5, <1>6, <1>7 DEF CrashInv

-----------------------------------------------------------------------------
(* A prefix of the transactions: the scan *)

\* What the log and the crash say does not change while the disk stays as it is.
LEMMA ViewKept ==
  ASSUME UNCHANGED diskVars
  PROVE  /\ \A t, b : Absent(b, t)' <=> Absent(b, t)
         /\ \A e : EndRight(e)' <=> EndRight(e)
         /\ \A b, t, e : AliveAt(b, t, e)' <=> AliveAt(b, t, e)
         /\ \A t : FoundChecksum(t)' = FoundChecksum(t)
         /\ (Dependable' <=> Dependable) /\ (CrashInv' <=> CrashInv)
<1>1. UNCHANGED <<opt, last, dur, op, val, final, missing, stale, fill, image>>
  BY DEF diskVars
<1>2. (Grows' <=> Grows) /\ (Flushed' <=> Flushed)
  BY <1>1 DEF Grows, Flushed
<1>3. \A t, b : Absent(b, t)' <=> Absent(b, t)
  BY <1>1 DEF Absent
<1>4. \A e : EndRight(e)' <=> EndRight(e)
  BY <1>1, <1>3 DEF EndRight
<1>5. \A b, t, e : AliveAt(b, t, e)' <=> AliveAt(b, t, e)
  BY LogKept DEF AliveAt
<1>6. \A t : FoundChecksum(t)' = FoundChecksum(t)
  BY <1>1 DEF FoundChecksum
<1>7. CrashInv' <=> CrashInv
  BY <1>1, <1>2 DEF CrashInv
<1> QED
  BY <1>1, <1>2, <1>3, <1>4, <1>5, <1>6, <1>7 DEF Dependable

\* Absent data is found only where files grow, and its block has no other use.
LEMMA AbsentOnce ==
  ASSUME TypeOK, LogInv, Dependable, CrashInv, NEW b \in Blocks, NEW t \in 1 .. last, Absent(b, t)
  PROVE  Grows /\ t > dur /\ \A u \in 1 .. last : u # t => op[u][b] \in {"none", "free"}
<1>1. op[t][b] = "new" /\ image[b] = 0 /\ t # 0
  BY DEF Absent
<1>2. ~Flushed
  BY <1>1 DEF CrashInv
<1>3. Grows /\ GrowsInv
  BY <1>2 DEF Dependable, LogInv
<1> QED
  BY <1>1, <1>3 DEF GrowsInv, CrashInv

\* At the first crash and at every later one, what read_and_verify_checksums
\* finds wrong is the data that had not arrived at the first.
LEMMA BadDataIs ==
  ASSUME TypeOK, LogInv, Dependable, CrashInv, KeptInv, NEW t \in 1 .. last
  PROVE  BadData(t) = {b \in Blocks : Absent(b, t)}
<1>1. HistoryInv /\ (Grows => GrowsInv) /\ (Grows \/ Flushed)
  BY DEF LogInv, Dependable
<1> SUFFICES ASSUME NEW b \in Blocks, op[t][b] = "new"
             PROVE  dzat_checksum(home[b]) # dzat_checksum(val[t][b]) <=> image[b] = 0
  BY DEF BadData, New, Absent
<1>2. val[t][b] = t /\ t # 0
  BY <1>1 DEF HistoryInv, Writes
<1>3. dzat_checksum(home[b]) # dzat_checksum(val[t][b]) <=> home[b] = 0
  BY <1>2 DEF dzat_checksum
<1>4. CASE home[b] = image[b]
  BY <1>3, <1>4
<1>5. CASE home[b] # image[b]
  <2>1. PICK u \in 1 .. last : b \in Logged(u) /\ home[b] = u
    BY <1>5 DEF KeptInv, Kept
  <2>2. op[u][b] \in {"meta", "over"} /\ home[b] # 0 /\ u # t
    BY <2>1 DEF Logged
  <2>3. ~Grows
    BY <1>1, <2>2 DEF GrowsInv
  <2>4. image[b] # 0
    BY <1>1, <2>3 DEF CrashInv
  <2> QED
    BY <1>3, <2>2, <2>4
<1> QED
  BY <1>4, <1>5

\* A table, however full, has an entry after a mismatch was met.
LEMMA TableNotEmpty ==
  ASSUME TypeOK, NEW t \in Nat \ {0}, NEW bad \in SUBSET Blocks, bad # {},
         NEW d \in add_to_mismatched_blocks(dc, bad, t)
  PROVE  \E c \in Blocks : d[c] # 0
<1> DEFINE fresh == bad \ Mismatched(dc)
           room  == opt.entries - Cardinality(Mismatched(dc))
           n     == IF Cardinality(fresh) <= room THEN Cardinality(fresh) ELSE room
<1>1. PICK in \in kSubset(n, fresh) :
        d = [b \in Blocks |-> IF b \in (bad \ fresh) \cup in THEN t ELSE dc[b]]
  BY DEF add_to_mismatched_blocks
<1>2. in \in SUBSET fresh /\ Cardinality(in) = n
  BY <1>1 DEF kSubset
<1>3. IsFiniteSet(Blocks) /\ opt.entries \in Nat \ {0}
  BY ConstantsAssumption, OptionTypes DEF TypeOK
<1>4. IsFiniteSet(fresh) /\ IsFiniteSet(Mismatched(dc))
  <2>1. fresh \subseteq Blocks /\ Mismatched(dc) \subseteq Blocks
    BY DEF Mismatched
  <2> QED
    BY <1>3, <2>1, FS_Subset
<1>5. Cardinality(fresh) \in Nat /\ Cardinality(Mismatched(dc)) \in Nat
  BY <1>4, FS_CardinalityType
<1>6. CASE \E c \in bad : c \notin fresh \/ c \in in
  BY <1>1, <1>6
<1>7. CASE ~ \E c \in bad : c \notin fresh \/ c \in in
  <2>1. fresh = bad /\ in = {}
    BY <1>2, <1>7
  <2>2. n = 0 /\ Cardinality(fresh) # 0
    <3>1. Cardinality({}) = 0 /\ (Cardinality(fresh) = 0 <=> fresh = {})
      BY <1>4, FS_EmptySet
    <3> QED
      BY <1>2, <2>1, <3>1
  <2>3. Cardinality(Mismatched(dc)) = opt.entries
    BY <1>3, <1>5, <2>2
  <2>4. Mismatched(dc) # {}
    BY <1>3, <2>3, FS_EmptySet
  <2>5. PICK c \in Blocks : dc[c] # 0
    BY <2>4 DEF Mismatched
  <2>6. d[c] = dc[c]
    BY <1>1, <2>1, <2>5
  <2> QED
    BY <2>5, <2>6
<1> QED
  BY <1>6, <1>7

\* The data of one descriptor: no entry is lost or moved, every new one is of
\* absent data, and there is one when data of the descriptor is absent.
LEMMA ScanData ==
  ASSUME TypeOK, GapInv, LogInv, Dependable, CrashInv, KeptInv, ScanInv, phase = "scan",
         Here("desc"),
         NEW d \in add_to_mismatched_blocks(dc, BadData(next_commit_ID), next_commit_ID),
         dc' = delete_from_mismatched_blocks(d, Overwritten(next_commit_ID))
  PROVE  /\ \A b \in Blocks : dc[b] # 0 => dc'[b] = dc[b]
         /\ \A b \in Blocks : dc'[b] # 0 => dc'[b] = dc[b] \/
                                            (dc'[b] = next_commit_ID /\ Absent(b, next_commit_ID))
         /\ (\E b \in Blocks : Absent(b, next_commit_ID)) =>
              \E c \in Blocks : dc'[c] # 0 /\ dc'[c] <= next_commit_ID
<1> DEFINE t   == next_commit_ID
           bad == {b \in Blocks : Absent(b, t)}
<1>1. t \in 1 .. last /\ t \in Nat \ {0} /\ last \in Nat /\ dc \in [Blocks -> Nat]
  <2>1. t \in Tids /\ t <= last /\ last \in Nat
    BY HereType DEF TypeOK
  <2> QED
    BY <2>1 DEF TypeOK, Tids
<1>2. BadData(t) = bad
  BY <1>1, BadDataIs
<1>3. \A b \in Blocks : dc[b] # 0 => dc[b] \in 1 .. last /\ Absent(b, dc[b]) /\ dc[b] <= t
  BY <1>1 DEF ScanInv, GapInv
<1>4. \A b \in Blocks : Absent(b, t) => op[t][b] = "new"
  BY DEF Absent
<1>5. \A b \in Blocks : dc[b] # 0 => (Absent(b, t) => dc[b] = t) /\ op[t][b] # "over"
  <2> SUFFICES ASSUME NEW b \in Blocks, dc[b] # 0
               PROVE  (Absent(b, t) => dc[b] = t) /\ op[t][b] # "over"
    OBVIOUS
  <2>1. dc[b] \in 1 .. last /\ Absent(b, dc[b])
    BY <1>3
  <2>2. t # dc[b] => op[t][b] \in {"none", "free"}
    BY <1>1, <2>1, AbsentOnce
  <2> QED
    BY <1>4, <2>1, <2>2
<1>6. \A b \in Blocks : d[b] = dc[b] \/ (d[b] = t /\ Absent(b, t))
  <2>1. \A b \in Blocks : d[b] = dc[b] \/ (d[b] = t /\ b \in bad)
    <3> HIDE DEF bad
    <3>1. PICK in \in SUBSET (bad \ Mismatched(dc)) :
            d = [b \in Blocks |-> IF b \in (bad \ (bad \ Mismatched(dc))) \cup in THEN t ELSE dc[b]]
      BY <1>2 DEF add_to_mismatched_blocks, kSubset
    <3> QED
      BY <3>1
  <2> QED
    BY <2>1
<1>7. \A b \in Blocks : dc'[b] = IF op[t][b] = "over" THEN 0 ELSE d[b]
  BY DEF delete_from_mismatched_blocks, Overwritten
<1>8. \A b \in Blocks : d[b] # 0 => dc'[b] = d[b]
  BY <1>4, <1>5, <1>6, <1>7
<1>9. \A b \in Blocks : dc[b] # 0 => dc'[b] = dc[b]
  BY <1>5, <1>6, <1>8
<1>10. \A b \in Blocks : dc'[b] # 0 => dc'[b] = d[b]
  BY <1>7
<1>11. (\E b \in Blocks : Absent(b, t)) => \E c \in Blocks : dc'[c] # 0 /\ dc'[c] <= t
  <2> SUFFICES ASSUME \E b \in Blocks : Absent(b, t)
               PROVE  \E c \in Blocks : dc'[c] # 0 /\ dc'[c] <= t
    OBVIOUS
  <2>1. bad \in SUBSET Blocks /\ bad # {} /\ d \in add_to_mismatched_blocks(dc, bad, t)
    BY <1>2
  <2>2. PICK c \in Blocks : d[c] # 0
    <3> HIDE DEF bad, t
    <3> QED
      BY <1>1, <2>1, TableNotEmpty
  <2>3. d[c] <= t
    BY <1>1, <1>3, <1>6, <2>2
  <2> QED
    BY <1>8, <2>2, <2>3
<1> QED
  BY <1>6, <1>9, <1>10, <1>11

\* A scan starts with nothing found.
LEMMA ScanStarts ==
  ASSUME StartPass("scan"), end_transaction' = 0, last' \in Nat
  PROVE  ScanInv'
<1>1. /\ next_commit_ID' = 1 /\ part' \in {"revoke", "desc"} /\ \A b \in Blocks : dc'[b] = 0
  BY DEF StartPass, FirstPart
<1>2. \A t \in 1 .. last' : ~Past(t)'
  BY <1>1 DEF Past
<1> QED
  BY <1>1, <1>2 DEF ScanInv

\* Reading a header block keeps what the scan has found.
LEMMA ScanStep ==
  ASSUME TypeOK, GapInv, LogInv, Dependable, CrashInv, KeptInv, ScanInv, phase = "scan",
         failures' = failures, ScanDescriptor \/ ScanCommit \/ PassCommit \/ ScanRevoke
  PROVE  ScanInv'
<1>1. UNCHANGED diskVars
  BY DEF ScanDescriptor, ScanCommit, PassCommit, ScanRevoke
<1>2. last' = last /\ opt' = opt /\ last \in Nat /\ next_commit_ID \in Nat /\ dc \in [Blocks -> Nat]
  BY <1>1 DEF TypeOK, diskVars
<1>3. \A t, b : Absent(b, t)' <=> Absent(b, t)
  BY <1>1, ViewKept
<1>4. /\ end_transaction = 0 /\ part # "beyond"
      /\ \A b \in Blocks : dc[b] # 0 => dc[b] <= last /\ Absent(b, dc[b])
  BY DEF ScanInv
<1>5. CASE ScanDescriptor
  <2>1. /\ Here("desc") /\ read_and_verify_checksums(next_commit_ID) /\ part' = "commit"
        /\ UNCHANGED <<next_commit_ID, end_transaction>>
        /\ opt.checksum => crc' = ReadChecksum(next_commit_ID)
    BY <1>4, <1>5 DEF ScanDescriptor, GoTo
  <2>2. next_commit_ID \in 1 .. last /\ part = "desc"
    BY <1>2, <2>1, HereType DEF Tids
  <2>3. PICK d \in add_to_mismatched_blocks(dc, BadData(next_commit_ID), next_commit_ID) :
          dc' = delete_from_mismatched_blocks(d, Overwritten(next_commit_ID))
    BY <2>1 DEF read_and_verify_checksums, MayFail, TypeOK
  <2>4. /\ \A b \in Blocks : dc[b] # 0 => dc'[b] = dc[b]
        /\ \A b \in Blocks : dc'[b] # 0 => dc'[b] = dc[b] \/
                                           (dc'[b] = next_commit_ID /\ Absent(b, next_commit_ID))
        /\ (\E b \in Blocks : Absent(b, next_commit_ID)) =>
             \E c \in Blocks : dc'[c] # 0 /\ dc'[c] <= next_commit_ID
    BY <2>1, <2>3, ScanData
  <2>5. opt.checksum => crc' = FoundChecksum(next_commit_ID)'
    <3>1. stale[next_commit_ID] = {}
      BY <2>2 DEF CrashInv
    <3>2. ReadChecksum(next_commit_ID) = FoundChecksum(next_commit_ID)
      BY <3>1 DEF ReadChecksum, FoundChecksum, LogBlock
    <3>3. FoundChecksum(next_commit_ID)' = FoundChecksum(next_commit_ID)
      BY <1>1, <2>1 DEF FoundChecksum, diskVars
    <3> QED
      BY <2>1, <3>2, <3>3
  <2>6. \A b \in Blocks : dc'[b] # 0 => dc'[b] <= last /\ Absent(b, dc'[b])
    BY <1>2, <1>4, <2>2, <2>4
  <2>7. \A b \in Blocks : dc'[b] # 0 => Absent(b, dc[b])'
    BY <1>1, <2>6 DEF Absent, diskVars
  <2>8. ASSUME NEW t \in 1 .. last, NEW b \in Blocks, Past(t)', Absent(b, t)
        PROVE  \E c \in Blocks : dc'[c] # 0 /\ dc'[c] <= t
    <3>1. CASE t = next_commit_ID
      BY <2>4, <2>8, <3>1
    <3>2. CASE t # next_commit_ID
      <4>1. Past(t)
        BY <2>1, <2>8, <3>2 DEF Past
      <4>2. PICK c \in Blocks : dc[c] # 0 /\ dc[c] <= t
        BY <2>8, <4>1 DEF ScanInv
      <4> QED
        BY <2>4, <4>2
    <3> QED
      BY <3>1, <3>2
  <2> QED
    BY <1>2, <1>3, <1>4, <2>1, <2>5, <2>6, <2>7, <2>8 DEF ScanInv
<1>6. CASE ScanCommit \/ PassCommit \/ ScanRevoke
  <2>1. UNCHANGED <<dc, end_transaction>>
        /\ part' \in {"revoke", "desc"} /\ \A t \in Nat : Past(t)' <=> Past(t)
    <3>1. CASE ScanRevoke
      <4>1. part = "revoke" /\ part' = "desc" /\ UNCHANGED <<dc, end_transaction, next_commit_ID>>
        BY <3>1, HereType DEF ScanRevoke, GoTo
      <4> QED
        BY <4>1 DEF Past
    <3>2. CASE ScanCommit \/ PassCommit
      <4>1. /\ Here("commit") /\ UNCHANGED dc /\ part = "commit"
            /\ NextTransaction /\ UNCHANGED end_transaction
        <5>1. Here("commit") /\ UNCHANGED dc
          BY <3>2 DEF ScanCommit, PassCommit
        <5>2. part = "commit"
          BY <5>1, HereType
        <5>3. opt.checksum => crc = FoundChecksum(next_commit_ID)
          BY <5>2 DEF ScanInv
        <5> QED
          BY <1>4, <3>2, <5>1, <5>2, <5>3 DEF ScanCommit, PassCommit
      <4>2. next_commit_ID' = next_commit_ID + 1 /\ part' \in {"revoke", "desc"}
        BY <4>1 DEF NextTransaction, FirstPart
      <4>3. \A t \in Nat : Past(t)' <=> Past(t)
        BY <1>2, <4>1, <4>2 DEF Past
      <4> QED
        BY <4>1, <4>2, <4>3
    <3> QED
      BY <1>6, <3>1, <3>2
  <2>2. \A b \in Blocks : dc[b] # 0 => Absent(b, dc[b])'
    BY <1>1, <1>4, <2>1 DEF Absent, diskVars
  <2>3. \A t \in 1 .. last, b \in Blocks :
          Past(t)' /\ Absent(b, t) => \E c \in Blocks : dc[c] # 0 /\ dc[c] <= t
    BY <1>2, <2>1 DEF ScanInv
  <2> QED
    BY <1>2, <1>3, <1>4, <2>1, <2>2, <2>3 DEF ScanInv
<1> QED
  BY <1>5, <1>6

\* There is one end of the log.
LEMMA OneEnd ==
  ASSUME TypeOK, NEW e, NEW f, EndRight(e), EndRight(f)
  PROVE  e = f
<1>1. last \in Nat /\ e \in 1 .. last + 1 /\ f \in 1 .. last + 1
  BY DEF TypeOK, EndRight
<1>2. ASSUME NEW x \in 1 .. last + 1, NEW y \in 1 .. last + 1, EndRight(x), EndRight(y)
      PROVE  ~(x < y)
  BY <1>1, <1>2 DEF EndRight
<1> QED
  BY <1>1, <1>2

\* The scan ends at the end of the log: the first transaction of which a header
\* block is missing or data is absent.
LEMMA ScanFindsEnd ==
  ASSUME TypeOK, GapInv, ScanInv, phase = "scan", Stops
  PROVE  EndRight(ScanEnd)
<1>1. /\ last \in Nat /\ next_commit_ID \in Nat /\ dc \in [Blocks -> Nat]
      /\ Whole(next_commit_ID) /\ end_transaction = 0 /\ part \in Parts
      /\ next_commit_ID <= last => missing[next_commit_ID] # "none"
  <2>1. Whole(next_commit_ID)
    BY DEF GapInv, Walking
  <2>2. part # "beyond" /\ part \in Parts /\ end_transaction = 0
    BY DEF ScanInv, TypeOK
  <2>3. next_commit_ID \in Nat /\ last \in Nat /\ dc \in [Blocks -> Nat]
    BY DEF TypeOK
  <2>4. next_commit_ID <= last => missing[next_commit_ID] = part
    BY <2>2, <2>3 DEF Stops
  <2> QED
    BY <2>1, <2>2, <2>3, <2>4 DEF Parts
<1>2. \A b \in Blocks : dc[b] # 0 => /\ dc[b] <= last /\ Absent(b, dc[b])
                                     /\ dc[b] <= next_commit_ID
  BY DEF ScanInv, GapInv
<1>3. CASE Mismatched(dc) # {}
  <2> DEFINE S == {dc[b] : b \in Mismatched(dc)}
  <2>1. S \in SUBSET Nat /\ S # {}
    BY <1>1, <1>3 DEF Mismatched
  <2>2. Min(S) \in S /\ \A y \in S : Min(S) <= y
    <3> HIDE DEF S
    <3> QED
      BY <2>1, MinIsSmallest
  <2>3. PICK b \in Blocks : dc[b] # 0 /\ Min(S) = dc[b]
    BY <2>2 DEF Mismatched
  <2>4. ScanEnd = dc[b] /\ \A c \in Blocks : dc[c] # 0 => dc[b] <= dc[c]
    BY <1>3, <2>2, <2>3 DEF ScanEnd, Mismatched
  <2>5. dc[b] \in 1 .. last /\ Absent(b, dc[b]) /\ dc[b] <= next_commit_ID
    BY <1>1, <1>2, <2>3
  <2>6. ASSUME NEW t \in 1 .. dc[b] - 1, NEW c \in Blocks, Absent(c, t) PROVE FALSE
    <3>1. t \in 1 .. last /\ Past(t)
      BY <1>1, <2>5 DEF Past
    <3>2. PICK x \in Blocks : dc[x] # 0 /\ dc[x] <= t
      BY <2>6, <3>1 DEF ScanInv
    <3> QED
      BY <1>1, <2>4, <3>2
  <2>7. \A t \in 1 .. dc[b] - 1 : missing[t] = "none"
    BY <1>1, <2>5 DEF Whole
  <2> QED
    BY <1>1, <2>4, <2>5, <2>6, <2>7 DEF EndRight
<1>4. CASE Mismatched(dc) = {}
  <2>1. ScanEnd = next_commit_ID /\ \A c \in Blocks : dc[c] = 0
    BY <1>1, <1>4 DEF ScanEnd, Mismatched
  <2>2. \A t \in 1 .. next_commit_ID - 1, c \in Blocks : ~Absent(c, t)
    <3> SUFFICES ASSUME NEW t \in 1 .. next_commit_ID - 1, NEW c \in Blocks, Absent(c, t)
                 PROVE  FALSE
      OBVIOUS
    <3>1. t \in 1 .. last /\ Past(t)
      BY <1>1 DEF Past, Whole
    <3> QED
      BY <2>1, <3>1 DEF ScanInv
  <2> QED
    BY <1>1, <2>1, <2>2 DEF EndRight, Whole
<1> QED
  BY <1>3, <1>4

-----------------------------------------------------------------------------
(* A prefix of the transactions: the replay, also when it is repeated *)

\* Writing the cache to the disk, or losing it, keeps what the blocks may hold.
LEMMA KeptSame ==
  ASSUME KeptInv, UNCHANGED diskVars,
         \A b \in Blocks : home'[b] \in {home[b], mem[b]} /\ mem'[b] \in {home[b], mem[b]}
  PROVE  KeptInv'
<1>1. /\ UNCHANGED <<last, image>> /\ (\A t : Logged(t)' = Logged(t))
      /\ (\A e : EndRight(e)' <=> EndRight(e))
      /\ \A b, t, e : AliveAt(b, t, e)' <=> AliveAt(b, t, e)
  BY LogKept, ViewKept
<1>2. \A b \in Blocks : Kept(b, home[b]) /\ Kept(b, mem[b])
  BY DEF KeptInv
<1>3. \A b \in Blocks : Kept(b, home[b])' /\ Kept(b, mem[b])'
  BY <1>1, <1>2 DEF Kept
<1>4. \A e \in 1 .. last + 1, b \in Blocks :
        EndRight(e) /\ (\A t \in 1 .. e - 1 : ~AliveAt(b, t, e)) =>
          home'[b] = image[b] /\ mem'[b] = image[b]
  BY DEF KeptInv
<1> QED
  BY <1>1, <1>3, <1>4 DEF KeptInv

\* A copy that is replayed is the one its transaction wrote.
LEMMA CopyIs ==
  ASSUME LogInv, Dependable, CrashInv, NEW t \in 1 .. last, NEW b \in Logged(t)
  PROVE  LogBlock(t, b) = t
<1>1. HistoryInv /\ stale[t] = {} /\ b \in Blocks /\ op[t][b] \in Writes
  BY DEF LogInv, Dependable, CrashInv, Logged, Writes
<1> QED
  BY <1>1 DEF LogBlock, HistoryInv

\* The replay of a descriptor keeps what the blocks may hold, and puts the latest
\* copies so far in the cache.
LEMMA ReplayStep ==
  ASSUME TypeOK, GapInv, RevokeInv, LogInv, Dependable, CrashInv, KeptInv,
         phase = "replay", EndRight(end_transaction), ReplayDescriptor, failures' = failures,
         \A b \in Blocks : LatestIn(b, mem[b])
  PROVE  KeptInv' /\ \A b \in Blocks : LatestIn(b, mem[b])'
<1> DEFINE n == next_commit_ID
<1>1. /\ UNCHANGED <<phase, home, end_transaction, next_commit_ID>>
      /\ UNCHANGED diskVars /\ part = "desc" /\ part' = "commit"
      /\ n \in 1 .. end_transaction - 1 /\ end_transaction \in Nat
      /\ n \in 1 .. last /\ last \in Nat
  <2>1. Here("desc") /\ UNCHANGED <<phase, home, end_transaction, next_commit_ID>>
        /\ UNCHANGED diskVars /\ part' = "commit"
    BY DEF ReplayDescriptor, GoTo
  <2>2. part = "desc" /\ n < end_transaction /\ n <= last /\ n \in Nat \ {0}
        /\ end_transaction \in Nat /\ last \in Nat
    BY <2>1, HereType DEF TypeOK, Tids
  <2> QED
    BY <2>1, <2>2
<1>2. mem' = [b \in Blocks |-> IF b \in Replayed(n, Logged(n)) THEN LogBlock(n, b) ELSE mem[b]]
  BY DEF ReplayDescriptor, MayFail, TypeOK
<1>3. \A b \in Blocks : b \in Replayed(n, Logged(n)) <=> Alive(b, n)
  BY <1>1, RevokeTableRight DEF Replayed, Alive
<1>4. \A b \in Blocks : mem'[b] = IF Alive(b, n) THEN n ELSE mem[b]
  <2>1. \A b \in Blocks : Alive(b, n) => LogBlock(n, b) = n
    BY <1>1, CopyIs DEF Alive
  <2> QED
    BY <1>2, <1>3, <2>1
<1>5. /\ UNCHANGED <<last, image>> /\ (\A t : Logged(t)' = Logged(t))
      /\ (\A e : EndRight(e)' <=> EndRight(e))
      /\ (\A b, t, e : AliveAt(b, t, e)' <=> AliveAt(b, t, e))
      /\ \A b, t : Alive(b, t)' <=> Alive(b, t)
  BY <1>1, LogKept, ViewKept, AliveKept
<1>6. KeptInv'
  <2>1. \A b \in Blocks : Kept(b, home[b])' /\ Kept(b, mem[b])'
    <3> SUFFICES ASSUME NEW b \in Blocks PROVE Kept(b, home[b])' /\ Kept(b, mem[b])'
      OBVIOUS
    <3>1. Kept(b, home[b]) /\ Kept(b, mem[b])
      BY DEF KeptInv
    <3>2. Kept(b, home[b])'
      BY <1>1, <1>5, <3>1 DEF Kept
    <3>3. CASE Alive(b, n)
      BY <1>1, <1>4, <1>5, <3>2, <3>3 DEF Kept, Alive
    <3>4. CASE ~Alive(b, n)
      BY <1>4, <1>5, <3>1, <3>2, <3>4 DEF Kept
    <3> QED
      BY <3>3, <3>4
  <2>2. ASSUME NEW e \in 1 .. last + 1, NEW b \in Blocks, EndRight(e),
               \A t \in 1 .. e - 1 : ~AliveAt(b, t, e)
        PROVE  home'[b] = image[b] /\ mem'[b] = image[b]
    <3>1. e = end_transaction
      BY <2>2, OneEnd
    <3>2. ~Alive(b, n)
      BY <1>1, <2>2, <3>1 DEF Alive, AliveAt
    <3> QED
      BY <1>1, <1>4, <2>2, <3>2 DEF KeptInv
  <2> QED
    BY <1>5, <2>1, <2>2 DEF KeptInv
<1>7. ASSUME NEW b \in Blocks PROVE LatestIn(b, mem[b])'
  <2>1. \A t \in 1 .. end_transaction - 1 : /\ Past(t)' <=> Past(t) \/ t = n
                                            /\ Past(t) => t < n
    BY <1>1 DEF Past
  <2> SUFFICES ASSUME NEW t \in 1 .. end_transaction - 1, IsLatest(b, t)'
               PROVE  mem'[b] = t
    BY <1>1 DEF LatestIn
  <2>2. /\ Past(t)' /\ Alive(b, t)
        /\ \A u \in 1 .. end_transaction - 1 : Past(u)' /\ Alive(b, u) => u <= t
    BY <1>1, <1>5 DEF IsLatest
  <2>3. CASE Alive(b, n)
    <3>1. t = n
      BY <1>1, <2>1, <2>2, <2>3
    <3> QED
      BY <1>4, <2>3, <3>1
  <2>4. CASE ~Alive(b, n)
    <3>1. t # n /\ Past(t)
      BY <2>1, <2>2, <2>4
    <3>2. IsLatest(b, t)
      BY <2>1, <2>2, <3>1 DEF IsLatest
    <3>3. mem[b] = t
      BY <3>2 DEF LatestIn
    <3> QED
      BY <1>4, <2>4, <3>3
  <2> QED
    BY <2>3, <2>4
<1> QED
  BY <1>6, <1>7

\* A step that passes no descriptor leaves the latest copies where they are.
LEMMA LatestKept ==
  ASSUME UNCHANGED diskVars, UNCHANGED end_transaction, end_transaction \in Nat,
         \A t \in 1 .. end_transaction - 1 : Past(t)' <=> Past(t)
  PROVE  \A b, t : t \in 1 .. end_transaction - 1 => (IsLatest(b, t)' <=> IsLatest(b, t))
<1>1. \A b, t : Alive(b, t)' <=> Alive(b, t)
  BY AliveKept
<1> QED
  BY <1>1 DEF IsLatest

\* Every step of a recovery keeps what is known of it.
LEMMA WalkInvStep ==
  ASSUME TypeOK, GapInv, RevokeInv, LogInv, DiskInv, WalkInv, Next
  PROVE  WalkInv'
<1>1. CASE Commit \/ Settle
  <2>1. phase' = "run"
    BY <1>1 DEF Commit, Settle
  <2> QED
    BY <2>1 DEF WalkInv
<1>2. CASE Crash
  <2>1. /\ phase' = "scan" /\ home' = image' /\ mem' = image' /\ StartPass("scan")
        /\ last' = last /\ last \in Nat /\ end_transaction' = 0
    BY <1>2 DEF Crash, StartPass, TypeOK, GapInv
  <2>2. ScanInv'
    BY <2>1, ScanStarts
  <2>3. KeptInv'
    BY <2>1 DEF KeptInv, Kept
  <2>4. ~Recovered'
    BY <2>1 DEF Recovered
  <2> QED
    BY <2>1, <2>2, <2>3, <2>4 DEF WalkInv
<1>3. CASE ~(Commit \/ Settle \/ Crash)
  <2>1. UNCHANGED diskVars /\ phase # "run" /\ failures' >= failures
    <3>1. UNCHANGED diskVars
      BY <1>3 DEF Next, ScanDescriptor, calc_chksums_fails, SkipDescriptor, ReplayDescriptor,
                  ScanCommit, PassCommit, ScanRevoke, PassDone, SyncFails, ReadFails, WriteBack, Restart
    <3>2. phase # "run"
      BY <1>3 DEF Next, ScanDescriptor, calc_chksums_fails, SkipDescriptor, ReplayDescriptor,
                  ScanCommit, PassCommit, ScanRevoke, PassDone, SyncFails, ReadFails, WriteBack, Restart,
                  Here, Walking
    <3>3. failures \in Nat
      BY DEF TypeOK
    <3>4. failures' >= failures
      <4>1. CASE ScanDescriptor \/ calc_chksums_fails \/ SkipDescriptor \/ ReplayDescriptor
        BY <3>3, <4>1 DEF ScanDescriptor, calc_chksums_fails, SkipDescriptor, ReplayDescriptor,
                          read_and_verify_checksums, MayFail
      <4>2. CASE SyncFails \/ ReadFails
        <5>1. failures' = failures + 1
          BY <4>2 DEF SyncFails, ReadFails, MayFail
        <5> QED
          BY <3>3, <5>1
      <4>3. CASE ScanCommit \/ PassCommit \/ ScanRevoke \/ PassDone \/ WriteBack \/ Restart
        <5>1. failures' = failures
          BY <4>3 DEF ScanCommit, PassCommit, ScanRevoke, PassDone, WriteBack, Restart
        <5> QED
          BY <3>3, <5>1
      <4> QED
        BY <1>3, <4>1, <4>2, <4>3 DEF Next
    <3> QED
      BY <3>1, <3>2, <3>4
  <2> SUFFICES ASSUME Dependable, failures' = 0, phase' # "run"
               PROVE  /\ KeptInv'
                      /\ phase' = "scan" => ScanInv'
                      /\ phase' \in {"revoke", "replay"} \/ Recovered' => EndRight(end_transaction)'
                      /\ phase' = "replay" => \A b \in Blocks : LatestIn(b, mem[b])'
                      /\ Recovered' => /\ next_commit_ID' = end_transaction'
                                       /\ \A b \in Blocks : LatestIn(b, home[b])'
    BY <2>1, ViewKept DEF WalkInv
  <2>2. failures = 0 /\ failures' = failures
    BY <2>1 DEF TypeOK
  <2>3. /\ CrashInv /\ KeptInv
        /\ phase = "scan" => ScanInv
        /\ phase \in {"revoke", "replay"} \/ Recovered => EndRight(end_transaction)
        /\ phase = "replay" => \A b \in Blocks : LatestIn(b, mem[b])
        /\ Recovered => next_commit_ID = end_transaction /\ \A b \in Blocks : LatestIn(b, home[b])
    BY <2>1, <2>2 DEF WalkInv, DiskInv
  <2>4. (\A e : EndRight(e)' <=> EndRight(e)) /\ last' = last /\ last \in Nat /\ end_transaction \in Nat
        /\ next_commit_ID \in Nat
    BY <2>1, ViewKept, LogKept DEF TypeOK
  <2>5. UNCHANGED end_transaction => (EndRight(end_transaction)' <=> EndRight(end_transaction))
    BY <2>4 DEF EndRight, Absent
  <2>6. CASE ScanDescriptor \/ ScanCommit \/ (PassCommit /\ phase = "scan") \/ (ScanRevoke /\ phase = "scan")
    <3>1. phase = "scan" /\ UNCHANGED <<phase, home, mem, err>>
      BY <2>6 DEF ScanDescriptor, ScanCommit, PassCommit, ScanRevoke
    <3>2. KeptInv'
      BY <2>1, <2>3, <3>1, KeptSame
    <3>3. ScanInv'
      BY <2>2, <2>3, <2>6, <3>1, ScanStep
    <3> QED
      BY <3>1, <3>2, <3>3 DEF Recovered
  <2>7. CASE SkipDescriptor \/ (PassCommit /\ phase # "scan") \/ (ScanRevoke /\ phase # "scan")
    <3>1. /\ phase \in {"revoke", "replay"} /\ UNCHANGED <<phase, home, mem, err, end_transaction>>
      BY <2>7, HereType DEF SkipDescriptor, PassCommit, ScanRevoke
    <3>2. KeptInv'
      BY <2>1, <2>3, <3>1, KeptSame
    <3>3. phase = "replay" => \A t \in 1 .. end_transaction - 1 : Past(t)' <=> Past(t)
      <4>1. CASE PassCommit
        <5>1. part = "commit" /\ next_commit_ID' = next_commit_ID + 1 /\ part' # "commit"
          BY <4>1, HereType DEF PassCommit, NextTransaction, FirstPart
        <5> QED
          BY <2>4, <5>1 DEF Past
      <4>2. CASE ScanRevoke
        <5>1. part = "revoke" /\ next_commit_ID' = next_commit_ID /\ part' = "desc"
          BY <4>2, HereType DEF ScanRevoke, GoTo
        <5> QED
          BY <2>4, <5>1 DEF Past
      <4>3. CASE SkipDescriptor
        BY <4>3 DEF SkipDescriptor
      <4> QED
        BY <2>7, <4>1, <4>2, <4>3
    <3>4. phase = "replay" => \A b \in Blocks : LatestIn(b, mem[b])'
      <4> SUFFICES ASSUME phase = "replay", NEW b \in Blocks PROVE LatestIn(b, mem[b])'
        OBVIOUS
      <4>1. \A t \in 1 .. end_transaction - 1 : IsLatest(b, t)' <=> IsLatest(b, t)
        BY <2>1, <2>4, <3>1, <3>3, LatestKept
      <4>2. LatestIn(b, mem[b])
        BY <2>3
      <4> QED
        BY <3>1, <4>1, <4>2 DEF LatestIn
    <3> QED
      BY <2>3, <2>5, <3>1, <3>2, <3>4 DEF Recovered
  <2>8. CASE ReplayDescriptor
    <3>1. phase = "replay" /\ UNCHANGED <<phase, end_transaction, err>>
      BY <2>8 DEF ReplayDescriptor
    <3>2. KeptInv' /\ \A b \in Blocks : LatestIn(b, mem[b])'
      BY <2>2, <2>3, <2>8, <3>1, ReplayStep
    <3> QED
      BY <2>3, <2>5, <3>1, <3>2 DEF Recovered
  <2>9. CASE calc_chksums_fails \/ SyncFails \/ ReadFails
    <3>1. failures' = failures + 1
      BY <2>9 DEF calc_chksums_fails, SyncFails, ReadFails, MayFail
    <3> QED
      BY <2>2, <3>1
  <2>10. CASE WriteBack
    <3>1. /\ UNCHANGED <<phase, mem, err, next_commit_ID, part, end_transaction, dc, crc>>
          /\ phase \in {"scan", "revoke", "replay"}
          /\ \A b \in Blocks : home'[b] \in {home[b], mem[b]}
      <4>1. \A b \in Blocks : home'[b] \in {home[b], mem[b]}
        BY <2>10 DEF WriteBack, TypeOK
      <4> QED
        BY <2>10, <4>1 DEF WriteBack, walkVars, Walking
    <3>2. KeptInv'
      BY <2>1, <2>3, <3>1, KeptSame
    <3>3. phase = "scan" => ScanInv'
      <4>1. UNCHANGED <<opt, last, op, val, final, image>>
        BY <2>1 DEF diskVars
      <4> QED
        BY <2>3, <3>1, <4>1 DEF ScanInv, Past, Absent, FoundChecksum
    <3>4. phase = "replay" => \A b \in Blocks : LatestIn(b, mem[b])'
      <4> SUFFICES ASSUME phase = "replay", NEW b \in Blocks PROVE LatestIn(b, mem[b])'
        OBVIOUS
      <4>1. \A t \in 1 .. end_transaction - 1 : IsLatest(b, t)' <=> IsLatest(b, t)
        BY <2>1, <2>4, <3>1, LatestKept DEF Past
      <4> QED
        BY <2>3, <3>1, <4>1 DEF LatestIn
    <3> QED
      BY <2>3, <2>5, <3>1, <3>2, <3>3, <3>4 DEF Recovered
  <2>11. CASE Restart
    <3>1. /\ phase' = "scan" /\ StartPass("scan") /\ end_transaction' = 0
          /\ mem' = home /\ UNCHANGED home
      BY <2>11 DEF Restart, StartPass
    <3>2. KeptInv'
      BY <2>1, <2>3, <3>1, KeptSame
    <3>3. ScanInv'
      BY <2>4, <3>1, ScanStarts
    <3> QED
      BY <3>1, <3>2, <3>3 DEF Recovered
  <2>12. CASE PassDone
    <3>1. KeptInv'
      <4>1. UNCHANGED mem /\ home' \in {home, mem}
        BY <2>12 DEF PassDone, Finish
      <4> QED
        BY <2>1, <2>3, <4>1, KeptSame
    <3>2. CASE phase = "scan"
      <4>1. phase' = "revoke" /\ end_transaction' = ScanEnd /\ Stops
        BY <2>12, <3>2 DEF PassDone, StartPass
      <4>2. EndRight(ScanEnd)
        BY <2>3, <3>2, <4>1, ScanFindsEnd
      <4>3. EndRight(end_transaction)'
        <5>1. UNCHANGED <<last, op, missing, image>>
          BY <2>1 DEF diskVars
        <5> QED
          BY <4>1, <4>2, <5>1 DEF EndRight, Absent
      <4> QED
        BY <3>1, <4>1, <4>3 DEF Recovered
    <3>3. CASE phase = "revoke" /\ next_commit_ID = end_transaction
      <4>1. /\ phase' = "replay" /\ next_commit_ID' = 1 /\ part' \in {"revoke", "desc"}
            /\ UNCHANGED end_transaction
        BY <2>12, <3>3 DEF PassDone, StartPass, FirstPart
      <4>2. \A b \in Blocks : LatestIn(b, mem[b])'
        BY <2>4, <4>1 DEF LatestIn, IsLatest, Past
      <4> QED
        BY <2>3, <2>5, <3>1, <3>3, <4>1, <4>2 DEF Recovered
    <3>4. CASE phase = "revoke" /\ next_commit_ID # end_transaction
      <4>1. phase' = "done" /\ err'
        BY <2>12, <3>4 DEF PassDone, Finish
      <4> QED
        BY <3>1, <4>1 DEF Recovered
    <3>5. CASE phase = "replay"
      <4>1. /\ phase' = "done" /\ home' = mem /\ UNCHANGED <<end_transaction, next_commit_ID, part>>
            /\ err' = ~(success /\ next_commit_ID = end_transaction)
        BY <2>12, <3>5 DEF PassDone, Finish
      <4>2. Recovered' => next_commit_ID' = end_transaction'
        BY <4>1 DEF Recovered
      <4>3. \A b \in Blocks : LatestIn(b, home[b])'
        <5> SUFFICES ASSUME NEW b \in Blocks PROVE LatestIn(b, home[b])'
          OBVIOUS
        <5>1. \A t \in 1 .. end_transaction - 1 : IsLatest(b, t)' <=> IsLatest(b, t)
          BY <2>1, <2>4, <4>1, LatestKept DEF Past
        <5>2. LatestIn(b, mem[b])
          BY <2>3, <3>5
        <5> QED
          BY <4>1, <5>1, <5>2 DEF LatestIn
      <4> QED
        BY <2>3, <2>5, <3>1, <3>5, <4>1, <4>2, <4>3
    <3> QED
      BY <2>12, <3>2, <3>3, <3>4, <3>5 DEF PassDone
  <2> QED
    BY <1>3, <2>6, <2>7, <2>8, <2>9, <2>10, <2>11, <2>12 DEF Next
<1> QED
  BY <1>1, <1>2, <1>3

\* The parts of the invariant give the prefix: a block whose last use logged it
\* has that copy, which no later transaction revokes; one whose last use is new
\* data has no copy left to be replayed, and that data is in place.
LEMMA InvGivesPrefix ==
  ASSUME TypeOK, LogInv, DiskInv, WalkInv
  PROVE  RecoveredIsPrefix
<1> SUFFICES ASSUME Recovered, Dependable, failures = 0 PROVE LeavesPrefix
  BY DEF RecoveredIsPrefix
<1> DEFINE e == end_transaction
<1>1. /\ HistoryInv /\ (Grows => GrowsInv) /\ (Grows \/ Flushed) /\ CrashInv /\ KeptInv
      /\ EndRight(e) /\ next_commit_ID = e /\ \A b \in Blocks : LatestIn(b, home[b])
  BY DEF Recovered, LogInv, DiskInv, WalkInv, Dependable
<1>2. /\ last \in Nat /\ dur \in 0 .. last /\ e \in 1 .. last + 1
      /\ \A t \in 1 .. last, b \in Blocks : op[t][b] \in Ops
  <2>1. opt.tids \in Nat /\ last \in 0 .. opt.tids /\ dur \in 0 .. last
        /\ op \in [1 .. opt.tids -> [Blocks -> Ops]]
    BY OptionTypes DEF TypeOK, Tids
  <2>2. e \in 1 .. last + 1
    BY <1>1 DEF EndRight
  <2>3. \A t \in 1 .. last : t \in 1 .. opt.tids
    BY <2>1
  <2> QED
    BY <2>1, <2>2, <2>3
<1>3. dur < e
  <2>1. SUFFICES ASSUME e <= dur PROVE FALSE
    BY <1>2
  <2>2. e \in 1 .. last /\ missing[e] = "none"
    BY <1>1, <1>2, <2>1 DEF CrashInv
  <2>3. PICK b \in Blocks : Absent(b, e)
    BY <1>1, <2>2 DEF EndRight
  <2>4. e > dur
    BY <1>1, <2>2, <2>3, AbsentOnce
  <2> QED
    BY <1>2, <2>1, <2>4
<1>4. Flushed => e = last + 1
  BY <1>1, <1>2, <1>3 DEF CrashInv
<1>5. ASSUME NEW b \in Blocks, InUseAt(b, e - 1)
      PROVE  home[b] = ContentsAt(b, e - 1)
  <2> DEFINE U == {t \in 1 .. e - 1 : op[t][b] # "none"}
             W == {t \in 1 .. e - 1 : op[t][b] \in {"meta", "new", "over"}}
             m == Max(U)
  <2>1. U \in SUBSET (0 .. last) /\ U # {} /\ op[m][b] # "free"
    BY <1>2, <1>5 DEF InUseAt
  <2>2. m \in U /\ \A t \in U : m >= t
    <3> HIDE DEF U
    <3> QED
      BY <1>2, <2>1, MaxIsLargest
  <2>3. /\ m \in 1 .. e - 1 /\ m \in 1 .. last /\ op[m][b] \in {"meta", "new", "over"}
        /\ \A t \in 1 .. e - 1 : op[t][b] # "none" => t <= m
    <3>1. m \in 1 .. e - 1 /\ op[m][b] # "none" /\ \A t \in 1 .. e - 1 : op[t][b] # "none" => m >= t
      BY <2>2
    <3> HIDE DEF m
    <3>2. m \in 1 .. last /\ op[m][b] \in Ops
      BY <1>2, <3>1
    <3> QED
      BY <1>2, <2>1, <3>1, <3>2 DEF Ops
  <2> HIDE DEF m
  <2>4. ContentsAt(b, e - 1) = m
    <3>1. W \in SUBSET Int /\ m \in W /\ \A t \in W : m >= t
      BY <1>2, <2>3
    <3>2. Max(W) = m
      <4> HIDE DEF W
      <4> QED
        BY <3>1, MaxIs
    <3>3. val[m][b] = m
      BY <1>1, <2>3 DEF HistoryInv, Writes
    <3> QED
      BY <3>2, <3>3 DEF ContentsAt
  <2>5. CASE op[m][b] = "new"
    <3>1. image[b] # 0
      BY <1>1, <2>3, <2>5 DEF EndRight, Absent
    <3>2. image[b] = m
      <4>1. CASE Grows
        BY <1>1, <2>3, <2>5, <3>1, <4>1 DEF CrashInv
      <4>2. CASE Flushed
        <5>1. \A u \in m + 1 .. last : op[u][b] = "none"
          BY <1>2, <1>4, <2>3, <4>2
        <5> QED
          BY <1>1, <2>3, <2>5, <4>2, <5>1 DEF CrashInv
      <4> QED
        BY <1>1, <4>1, <4>2
    <3>3. ASSUME NEW t \in 1 .. e - 1, AliveAt(b, t, e) PROVE FALSE
      <4>1. op[t][b] \in {"meta", "over"} /\ t \in 1 .. last /\ t # m /\ t <= m
        BY <1>2, <2>3, <2>5, <3>3 DEF AliveAt, Logged
      <4>2. CASE Grows
        BY <1>1, <2>3, <2>5, <4>1, <4>2 DEF GrowsInv
      <4>3. CASE Flushed
        <5>1. FreedSince(b, t, m - 1)
          BY <1>1, <1>2, <2>3, <2>5, <4>1 DEF HistoryInv
        <5>2. PICK r \in t .. m - 1 : op[r][b] = "free"
          BY <5>1 DEF FreedSince
        <5>3. b \in Revoked(r) /\ r \in t .. e - 1
          BY <1>2, <2>3, <4>3, <5>2 DEF Revoked, Flushed
        <5> QED
          BY <3>3, <5>3 DEF AliveAt
      <4> QED
        BY <1>1, <4>2, <4>3
    <3>4. home[b] = image[b]
      BY <1>1, <1>2, <3>3 DEF KeptInv
    <3> QED
      BY <2>4, <3>2, <3>4
  <2>6. CASE op[m][b] # "new"
    <3>1. \A r \in m .. e - 1 : op[r][b] # "free"
      <4> SUFFICES ASSUME NEW r \in m .. e - 1, op[r][b] = "free" PROVE FALSE
        OBVIOUS
      <4>1. r \in 1 .. e - 1 /\ r <= m /\ r >= m
        BY <1>2, <2>3
      <4>2. r = m
        BY <1>2, <2>3, <4>1
      <4> QED
        BY <2>3, <4>2
    <3>2. Alive(b, m)
      BY <2>3, <2>6, <3>1 DEF Alive, Logged, Revoked
    <3>3. \A t \in 1 .. e - 1 : Past(t)
      BY <1>1, <1>2 DEF Past
    <3>4. \A u \in 1 .. e - 1 : Alive(b, u) => u <= m
      BY <2>3 DEF Alive, Logged
    <3>5. IsLatest(b, m)
      BY <2>3, <3>2, <3>3, <3>4 DEF IsLatest
    <3>6. home[b] = m
      BY <1>1, <2>3, <3>5 DEF LatestIn
    <3> QED
      BY <2>4, <3>6
  <2> QED
    BY <2>5, <2>6
<1> QED
  BY <1>3, <1>5 DEF LeavesPrefix

\* The same parts give what a repeated recovery leaves: the cache has the latest
\* copies to be replayed, and the blocks without one were never touched.
LEMMA InvGivesReference ==
  ASSUME TypeOK, LogInv, DiskInv, WalkInv, Dependable, failures = 0
  PROVE  ReplayMatchesLog
<1> SUFFICES ASSUME Recovered, NEW b \in Blocks PROVE home[b] = Reference(b)
  BY DEF ReplayMatchesLog
<1> DEFINE e == end_transaction
           alive == {t \in 1 .. e - 1 :
                       b \in Logged(t) /\ \A r \in t .. e - 1 : b \notin Revoked(r)}
<1>1. /\ CrashInv /\ KeptInv /\ EndRight(e) /\ next_commit_ID = e /\ LatestIn(b, home[b])
  BY DEF Recovered, DiskInv, WalkInv
<1>2. last \in Nat /\ e \in 1 .. last + 1
  BY <1>1 DEF TypeOK, EndRight
<1>3. \A t \in 1 .. e - 1 : Past(t) /\ (t \in alive <=> Alive(b, t)) /\ (t \in alive <=> AliveAt(b, t, e))
  BY <1>1, <1>2 DEF Past, Alive, AliveAt
<1>4. CASE alive = {}
  <2>1. home[b] = image[b]
    BY <1>1, <1>2, <1>3, <1>4 DEF KeptInv
  <2> QED
    BY <1>4, <2>1 DEF Reference
<1>5. CASE alive # {}
  <2>1. alive \in SUBSET (0 .. last)
    BY <1>2
  <2>2. Max(alive) \in alive /\ \A t \in alive : Max(alive) >= t
    <3> HIDE DEF alive
    <3> QED
      BY <1>2, <1>5, <2>1, MaxIsLargest
  <2> DEFINE m == Max(alive)
  <2>3. /\ m \in 1 .. e - 1 /\ m \in alive /\ b \in Logged(m)
        /\ \A t \in alive : t <= m
    BY <1>2, <2>2
  <2>4. Reference(b) = LogBlock(m, b)
    BY <1>5 DEF Reference
  <2> HIDE DEF m, alive
  <2>5. IsLatest(b, m)
    BY <1>3, <2>3 DEF IsLatest
  <2>6. home[b] = m /\ m \in 1 .. last
    BY <1>1, <1>2, <2>3, <2>5 DEF LatestIn
  <2>7. LogBlock(m, b) = m
    BY <1>1, <2>3, <2>6, CopyIs
  <2> QED
    BY <2>4, <2>6, <2>7
<1> QED
  BY <1>4, <1>5

\* The invariant of a prefix, for every behaviour.
LEMMA PrefixHolds == Spec => [](TypeOK /\ PrefixInv)
<1>1. Init => PrefixInv
  <2> SUFFICES ASSUME Init PROVE PrefixInv
    OBVIOUS
  <2>1. phase = "run" /\ last = 0 /\ (~opt.zeroes => \A b \in Blocks : home[b] = 0)
    BY DEF Init
  <2>2. LogInv
    BY <2>1 DEF LogInv, HistoryInv, GrowsInv
  <2>3. RevokeInv
    BY DEF Init, RevokeInv
  <2> QED
    BY <2>1, <2>2, <2>3 DEF PrefixInv, DiskInv, WalkInv
<1>2. TypeOK /\ GapInv /\ PrefixInv /\ [Next]_vars => PrefixInv'
  <2>1. ASSUME TypeOK, GapInv, PrefixInv, Next PROVE PrefixInv'
    <3>0. RevokeInv /\ LogInv /\ DiskInv /\ WalkInv
      BY <2>1 DEF PrefixInv
    <3>1. RevokeInv' /\ LogInv' /\ WalkInv'
      BY <2>1, <3>0, RevokeInvStep, LogInvStep, WalkInvStep
    <3>2. DiskInv'
      <4>1. CASE Crash
        BY <2>1, <3>0, <4>1, CrashDisk
      <4>2. CASE Commit \/ Settle
        BY <4>2 DEF Commit, Settle, DiskInv
      <4>3. CASE ~(Commit \/ Settle \/ Crash)
        <5>1. UNCHANGED diskVars
          BY <2>1, <4>3 DEF Next, ScanDescriptor, calc_chksums_fails, SkipDescriptor, ReplayDescriptor,
                      ScanCommit, PassCommit, ScanRevoke, PassDone, SyncFails, ReadFails, WriteBack, Restart
        <5>2. phase # "run"
          BY <2>1, <4>3 DEF Next, ScanDescriptor, calc_chksums_fails, SkipDescriptor, ReplayDescriptor,
                      ScanCommit, PassCommit, ScanRevoke, PassDone, SyncFails, ReadFails, WriteBack, Restart,
                      Here, Walking
        <5> QED
          BY <3>0, <5>1, <5>2, ViewKept DEF DiskInv
      <4> QED
        BY <4>1, <4>2, <4>3
    <3> QED
      BY <3>1, <3>2 DEF PrefixInv
  <2>2. ASSUME TypeOK, PrefixInv, UNCHANGED vars PROVE PrefixInv'
    <3>0. RevokeInv /\ LogInv /\ DiskInv /\ WalkInv
      BY <2>2 DEF PrefixInv
    <3>1. UNCHANGED diskVars /\ UNCHANGED walkVars
          /\ UNCHANGED <<home, mem, phase, err, sequence, failures, restarts>>
      BY <2>2 DEF vars
    <3>2. RevokeInv'
      BY <2>2, <3>0, <3>1, LogKept DEF walkVars, RevokeInv, Covers
    <3>3. LogInv'
      BY <2>2, <3>0, <3>1, HistoryKept DEF diskVars
    <3>4. DiskInv'
      BY <2>2, <3>0, <3>1, ViewKept DEF DiskInv
    <3>5. WalkInv'
      <4>1. UNCHANGED <<opt, last, dur, op, val, final, missing, stale, fill, image>>
            /\ UNCHANGED <<next_commit_ID, part, end_transaction, dc, crc, success>>
        BY <3>1 DEF diskVars, walkVars
      <4>2. KeptInv' <=> KeptInv
        BY <3>1, <4>1 DEF KeptInv, Kept, EndRight, Absent, AliveAt, Logged, Revoked
      <4>3. ScanInv' <=> ScanInv
        BY <4>1 DEF ScanInv, Past, Absent, FoundChecksum
      <4>4. EndRight(end_transaction)' <=> EndRight(end_transaction)
        BY <4>1 DEF EndRight, Absent
      <4>5. \A b, t : IsLatest(b, t)' <=> IsLatest(b, t)
        BY <3>1, <4>1, AliveKept DEF IsLatest, Past
      <4>6. \A b \in Blocks : /\ LatestIn(b, mem[b])' <=> LatestIn(b, mem[b])
                              /\ LatestIn(b, home[b])' <=> LatestIn(b, home[b])
        BY <3>1, <4>1, <4>5 DEF LatestIn
      <4>7. (Dependable' <=> Dependable) /\ (Recovered' <=> Recovered)
        BY <3>1, <4>1 DEF Dependable, Grows, Flushed, Recovered
      <4> QED
        BY <2>2, <3>0, <3>1, <4>1, <4>2, <4>3, <4>4, <4>6, <4>7 DEF WalkInv
    <3> QED
      BY <3>2, <3>3, <3>4, <3>5 DEF PrefixInv
  <2> QED
    BY <2>1, <2>2
<1> QED
  BY <1>1, <1>2, EndOfLog, PTL DEF Spec

\* Recovery, however often it is interrupted and repeated, leaves a prefix of the
\* transactions with everything durable in it: where files only grow on a fresh
\* disk, or freed blocks are revoked and everything is flushed, and no block of
\* zeroes is written and no read fails.
THEOREM LeavesAPrefix == Spec => []RecoveredIsPrefix
<1>1. TypeOK /\ PrefixInv => RecoveredIsPrefix
  BY InvGivesPrefix DEF PrefixInv
<1> QED
  BY <1>1, PrefixHolds, PTL

\* On the same mounts a recovery that repeats interrupted ones, which may have
\* written any of their blocks, still ends with exactly what the log asks for.
THEOREM RepeatReplaysTheLog == Spec => [](Dependable /\ failures = 0 => ReplayMatchesLog)
<1>1. TypeOK /\ PrefixInv => (Dependable /\ failures = 0 => ReplayMatchesLog)
  BY InvGivesReference DEF PrefixInv
<1> QED
  BY <1>1, PrefixHolds, PTL
=============================================================================
